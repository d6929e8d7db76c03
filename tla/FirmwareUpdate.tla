--------------------------- MODULE FirmwareUpdate ---------------------------
(***************************************************************************)
(* The keyboard's wireless update and its fallback: the journal and the    *)
(* install engine shared by firmware and bootloader                        *)
(* (update/apex_update.c), the bootloader's A/B restore                    *)
(* (bootloader/apex_pro_mini_wl/ab_promote.c), the firmware's boot tally   *)
(* and staging of the fallback B (apex-zmk-g4b/src/ab_rollback_g4b.c) and  *)
(* the update command (apex-zmk-g4b/src/update_g4b.c).                     *)
(*                                                                         *)
(* One processor runs one step at a time, the bootloader before the        *)
(* firmware, and a power cut or reset may fall between any two steps or    *)
(* inside one that writes flash.  What survives is what is in the internal *)
(* flash (app) and the external NOR (the other flash variables).           *)
(*                                                                         *)
(* An image is a name and has Pages pages; a page of flash holds its page  *)
(* of an image, is Blank, or is Torn (half written).  A hash or CRC over   *)
(* an image holds exactly when every page is of that image.  The layout    *)
(* is the default one (bootloader at 0x74000), which has no restored magic.*)
(***************************************************************************)
EXTENDS Integers, FiniteSets

CONSTANTS
  Images,       \* the firmware images there are
  Healthy,      \* those that run until they report healthy
  Pages,        \* how many pages an image has
  Threshold,    \* AB_DEFAULT_THRESH: failed starts that restore B
  MaxTrouble,   \* a bound on power cuts, resets, flashings and downloads
  MaxMisreads   \* a bound on failing flash operations

ASSUME UpdateAssumption ==
  /\ Healthy \subseteq Images /\ Healthy # {}
  /\ Pages \in Nat \ {0} /\ Threshold \in Nat \ {0}
  /\ MaxTrouble \in Nat /\ MaxMisreads \in Nat

VARIABLES
  journal,    \* the descriptor of the update: its image and its state
  candidate,  \* the downloaded image
  app,        \* the application in internal flash
  b,          \* the fallback image
  header,     \* the image the descriptor of B names, or NoImage
  tally,      \* failed starts, counted up to Threshold
  pc,         \* what the processor does next
  page,       \* the next page of a copy
  recovery,   \* the installation failed: GPREGRET asks for wired recovery
  download,   \* struct apx_update_download
  trouble, misreads   \* what is left of the bounds

flash == <<journal, candidate, app, b, header, tally>>
vars == <<flash, pc, page, recovery, download, trouble, misreads>>

NoImage == "no image"
Blank == "blank"
Torn == "torn"
Page == 1..Pages
Contents == [Page -> Images \cup {Blank, Torn}]
Whole(i) == [p \in Page |-> i]
Complete(contents) == \E i \in Images : contents = Whole(i)

ASSUME NamesAssumption == Images \cap {NoImage, Blank, Torn} = {}

\* Each state of a descriptor clears one more bit of the word than the one
\* before; Scrambled is a word that is none of them.
DOWNLOADING == 0
REQUESTED == 1
COPYING == 2
TRIAL == 3
HEALTHY == 4
REJECTED == 5
Scrambled == 6
Journal == [image : Images \cup {NoImage}, state : DOWNLOADING..Scrambled]

manifest_valid == journal.image # NoImage /\ journal.state # Scrambled
InState(states) == manifest_valid /\ journal.state \in states

BootSteps == {"install", "verify", "copy", "copied", "promote", "restore", "restored", "decide"}
AppSteps == {"started", "running", "health", "compare", "erase", "store", "commit",
             "descriptor", "ready", "idle"}

TypeOK ==
  /\ journal \in Journal
  /\ candidate \in Contents /\ app \in Contents /\ b \in Contents
  /\ header \in Images \cup {NoImage}
  /\ tally \in 0..Threshold
  /\ pc \in BootSteps \cup AppSteps \cup {"wired"}
  /\ page \in Page
  /\ recovery \in BOOLEAN
  /\ download \in [active : BOOLEAN, received : 0..Pages, image : Images \cup {NoImage}]
  /\ trouble \in 0..MaxTrouble /\ misreads \in 0..MaxMisreads

NoDownload == [active |-> FALSE, received |-> 0, image |-> NoImage]

\* A keyboard flashed over USB for the first time.
Init ==
  /\ journal = [image |-> NoImage, state |-> DOWNLOADING]
  /\ candidate = Whole(Blank) /\ b = Whole(Blank)
  /\ app \in {Whole(i) : i \in Healthy}
  /\ header = NoImage /\ tally = 0
  /\ pc = "install" /\ page = 1 /\ recovery = FALSE
  /\ download = NoDownload
  /\ trouble = MaxTrouble /\ misreads = MaxMisreads

Disturb == trouble > 0 /\ trouble' = trouble - 1 /\ UNCHANGED misreads
Misread == misreads > 0 /\ misreads' = misreads - 1 /\ UNCHANGED trouble
Quiet == UNCHANGED <<trouble, misreads>>

\* Whatever restarts the processor: the bootloader runs and RAM is lost.
Restart ==
  /\ pc' = "install" /\ page' = 1 /\ recovery' = FALSE /\ download' = NoDownload

\* set_state returns -1: the state was not written, or not read back.
StateFails(state) == journal' \in {journal, [journal EXCEPT !.state = state]}

-----------------------------------------------------------------------------
(* The bootloader: apx_update_install *)

\* Mutation: an interrupted copy is not taken up again.
InstallStatusOnce ==
  /\ pc = "install" /\ Quiet
  /\ IF InState({REQUESTED}) THEN pc' = "verify" /\ UNCHANGED recovery
     ELSE pc' = "promote" /\ recovery' = (~manifest_valid /\ journal.state # DOWNLOADING)
  /\ UNCHANGED <<flash, page, download>>

InstallStatus ==
  /\ pc = "install"
  /\ \/ /\ Quiet
        /\ InState({REQUESTED, COPYING})
        /\ pc' = "verify" /\ UNCHANGED recovery
     \/ /\ Quiet
        /\ ~InState({REQUESTED, COPYING})
        /\ recovery' = (~manifest_valid /\ journal.state # DOWNLOADING)
        /\ pc' = "promote"
     \/ Misread /\ recovery' = TRUE /\ pc' = "promote"
  /\ UNCHANGED <<flash, page, download>>

InstallVerify ==
  /\ pc = "verify"
  /\ \/ /\ Quiet
        /\ candidate = Whole(journal.image)
        /\ journal' = [journal EXCEPT !.state = COPYING]
        /\ pc' = "copy" /\ UNCHANGED recovery
     \/ /\ Misread \/ (Quiet /\ candidate # Whole(journal.image))
        /\ journal' = [journal EXCEPT !.state = REJECTED]
        /\ recovery' = TRUE /\ pc' = "promote"
     \/ /\ Misread
        /\ StateFails(IF candidate = Whole(journal.image) THEN COPYING ELSE REJECTED)
        /\ recovery' = TRUE /\ pc' = "promote"
  /\ UNCHANGED <<candidate, app, b, header, tally, page, download>>

\* A page that is already the same is skipped, which has the same outcome.
InstallPage ==
  /\ pc = "copy"
  /\ \/ /\ Quiet
        /\ app' = [app EXCEPT ![page] = candidate[page]]
        /\ IF page = Pages THEN pc' = "copied" /\ page' = 1
                           ELSE page' = page + 1 /\ UNCHANGED pc
        /\ UNCHANGED recovery
     \/ /\ Misread
        /\ \E left \in {app[page], Blank, Torn} : app' = [app EXCEPT ![page] = left]
        /\ recovery' = TRUE /\ pc' = "promote" /\ page' = 1
  /\ UNCHANGED <<journal, candidate, b, header, tally, download>>

InstallFinish ==
  /\ pc = "copied"
  /\ \/ /\ Quiet
        /\ app = Whole(journal.image)
        /\ journal' = [journal EXCEPT !.state = TRIAL]
        /\ UNCHANGED recovery
     \/ /\ Misread \/ (Quiet /\ app # Whole(journal.image))
        /\ recovery' = TRUE /\ UNCHANGED journal
     \/ /\ Misread /\ app = Whole(journal.image)
        /\ recovery' = TRUE /\ StateFails(TRIAL)
  /\ pc' = "promote"
  /\ UNCHANGED <<candidate, app, b, header, tally, page, download>>

-----------------------------------------------------------------------------
(* The bootloader: the rest of ab_promote_check, and main.c *)

Waiting == ~recovery /\ tally < Threshold
Promotable == header # NoImage /\ ~Waiting /\ b = Whole(header)

\* B is checked before the application is erased; one that already is B stays.
Promote ==
  /\ pc = "promote"
  /\ \/ /\ ~Promotable /\ Quiet
        /\ pc' = "decide" /\ UNCHANGED <<app, recovery>>
     \/ /\ Misread
        /\ pc' = "decide" /\ UNCHANGED <<app, recovery>>
     \/ /\ Promotable /\ app = b /\ Quiet
        /\ pc' = "decide" /\ recovery' = FALSE /\ UNCHANGED app
     \/ /\ Promotable /\ app # b /\ Quiet
        /\ app' = Whole(Blank) /\ pc' = "restore" /\ UNCHANGED recovery
  /\ UNCHANGED <<journal, candidate, b, header, tally, page, download>>

\* A failing read ends the copy: what was copied stays, nothing is flagged.
RestorePage ==
  /\ pc = "restore"
  /\ \/ /\ Quiet
        /\ app' = [app EXCEPT ![page] = b[page]]
        /\ IF page = Pages THEN pc' = "restored" /\ page' = 1
                           ELSE page' = page + 1 /\ UNCHANGED pc
     \/ /\ Misread
        /\ \E left \in {Blank, Torn} : app' = [app EXCEPT ![page] = left]
        /\ pc' = "restored" /\ page' = 1
  /\ UNCHANGED <<journal, candidate, b, header, tally, recovery, download>>

RestoreDone ==
  /\ pc = "restored"
  /\ recovery' = (recovery /\ app # Whole(header))
  /\ pc' = "decide"
  /\ Quiet /\ UNCHANGED <<flash, page, download>>

\* main.c: wired recovery if GPREGRET asks for it or there are no vectors; a
\* torn first page may or may not hold plausible ones.
Decide ==
  /\ pc = "decide"
  /\ \/ (recovery \/ app[1] \in {Blank, Torn}) /\ pc' = "wired"
     \/ ~recovery /\ app[1] # Blank /\ pc' = "started"
  /\ recovery' = FALSE
  /\ Quiet /\ UNCHANGED <<flash, page, download>>

-----------------------------------------------------------------------------
(* The firmware: the tally, the health of an update, and B *)

\* ab_note_health calls g4b_ab_mark_healthy after eight answers of the scanner in a
\* row with the output ready; a broken image does not get there.
IsHealthy == \E i \in Healthy : app = Whole(i)

\* g4b_ab_boot_pending; an incomplete application may not get that far.
MarkPending ==
  /\ pc = "started" /\ pc' = "running"
  /\ \/ tally' = (IF tally < Threshold THEN tally + 1 ELSE tally)
     \/ ~Complete(app) /\ UNCHANGED tally
  /\ Quiet /\ UNCHANGED <<journal, candidate, app, b, header, page, recovery, download>>

\* The fault handler or the watchdog ends a start that never becomes healthy.
CrashUnhealthy ==
  /\ pc = "running" /\ ~IsHealthy
  /\ Restart /\ Quiet /\ UNCHANGED flash

MarkHealthy ==
  /\ pc = "running" /\ IsHealthy
  /\ \/ Quiet /\ tally' = 0 /\ pc' = "health"
     \/ Misread /\ UNCHANGED <<tally, pc>>
  /\ UNCHANGED <<journal, candidate, app, b, header, page, recovery, download>>

\* Mutation: every image that runs counts as the one on trial.
UpdateHealthTrusts ==
  /\ pc = "health"
  /\ pc' = "compare"
  /\ journal' = IF InState({TRIAL}) THEN [journal EXCEPT !.state = HEALTHY] ELSE journal
  /\ Quiet
  /\ UNCHANGED <<candidate, app, b, header, tally, page, recovery, download>>

\* Mutation: an update that is not the running image stays on trial.
UpdateHealthWaits ==
  /\ pc = "health"
  /\ pc' = "compare"
  /\ journal' = IF InState({TRIAL}) /\ app = Whole(journal.image)
                THEN [journal EXCEPT !.state = HEALTHY] ELSE journal
  /\ Quiet
  /\ UNCHANGED <<candidate, app, b, header, tally, page, recovery, download>>

\* g4b_update_health: the image on trial is the one that runs, or was given up.
UpdateHealth ==
  /\ pc = "health"
  /\ LET verdict == IF app = Whole(journal.image) THEN HEALTHY ELSE REJECTED
     IN  \/ /\ Quiet /\ pc' = "compare"
            /\ journal' = IF InState({TRIAL}) THEN [journal EXCEPT !.state = verdict]
                                             ELSE journal
         \/ /\ Misread /\ pc' = "idle"
            /\ IF InState({TRIAL}) THEN StateFails(verdict) ELSE UNCHANGED journal
  /\ UNCHANGED <<candidate, app, b, header, tally, page, recovery, download>>

\* Mutation: a descriptor is taken for a fallback that is there.
CompareBTrusts ==
  /\ pc = "compare" /\ pc' = "ready"
  /\ Quiet /\ UNCHANGED <<flash, page, recovery, download>>

\* ab_app_already_b: an unreadable B is staged again.
CompareB ==
  /\ pc = "compare"
  /\ \/ Quiet /\ app = b /\ app = Whole(header) /\ pc' = "ready"
     \/ (Misread \/ (Quiet /\ ~(app = b /\ app = Whole(header)))) /\ pc' = "erase"
  /\ UNCHANGED <<flash, page, recovery, download>>

StageErase ==
  /\ pc = "erase"
  /\ \/ Quiet /\ b' = Whole(Blank) /\ pc' = "store"
     \/ Misread /\ b' \in [Page -> {Blank, Torn}] /\ pc' = "idle"
  /\ UNCHANGED <<journal, candidate, app, header, tally, page, recovery, download>>

StageWrite ==
  /\ pc = "store"
  /\ \/ /\ Quiet
        /\ b' = [b EXCEPT ![page] = app[page]]
        /\ IF page = Pages THEN pc' = "commit" /\ page' = 1
                           ELSE page' = page + 1 /\ UNCHANGED pc
     \/ /\ Misread
        /\ b' = [b EXCEPT ![page] = Torn]
        /\ pc' = "idle" /\ page' = 1
  /\ UNCHANGED <<journal, candidate, app, header, tally, recovery, download>>

\* g4b_ab_commit: the tally and the old descriptor go, then the new one comes.
CommitErase ==
  /\ pc = "commit"
  /\ \/ Quiet /\ tally' = 0 /\ header' = NoImage /\ pc' = "descriptor"
     \/ /\ Misread /\ tally' \in {0, tally} /\ pc' = "idle"
        /\ header' \in {header, NoImage}
  /\ UNCHANGED <<journal, candidate, app, b, page, recovery, download>>

CommitWrite ==
  /\ pc = "descriptor"
  /\ \/ Quiet /\ header' \in {i \in Images : b = Whole(i)} /\ pc' = "ready"
     \/ Misread /\ pc' = "idle" /\ UNCHANGED header
  /\ UNCHANGED <<journal, candidate, app, b, tally, page, recovery, download>>

-----------------------------------------------------------------------------
(* The firmware: the update command; only "ready" has update_ready set *)

\* An earlier download ends, even when this one is refused.
Begin(i) ==
  /\ pc = "ready"
  /\ \/ /\ Disturb /\ ~InState({REQUESTED, COPYING, TRIAL})
        /\ journal' = [image |-> i, state |-> DOWNLOADING]
        /\ download' = [active |-> TRUE, received |-> 0, image |-> i]
     \/ /\ Quiet /\ InState({REQUESTED, COPYING, TRIAL})
        /\ download' = NoDownload /\ UNCHANGED journal
     \/ /\ Misread /\ ~InState({REQUESTED, COPYING, TRIAL})
        /\ journal' \in {journal, [image |-> NoImage, state |-> DOWNLOADING]}
        /\ download' = NoDownload
  /\ UNCHANGED <<candidate, app, b, header, tally, pc, page, recovery>>

\* Mutation: the length of the download is not enforced.
WriteTooLong ==
  /\ pc = "ready" /\ download.active /\ Quiet
  /\ download' = [download EXCEPT !.received = @ + 1]
  /\ UNCHANGED <<flash, pc, page, recovery>>

\* The host may send a page of another image than the one it announced.
Write ==
  /\ pc = "ready" /\ download.active /\ download.received < Pages
  /\ \/ /\ Quiet
        /\ \E i \in Images :
             candidate' = [candidate EXCEPT ![download.received + 1] = i]
        /\ download' = [download EXCEPT !.received = @ + 1]
     \/ /\ Misread
        /\ candidate' = [candidate EXCEPT ![download.received + 1] = Torn]
        /\ UNCHANGED download
  /\ UNCHANGED <<journal, app, b, header, tally, pc, page, recovery>>

\* Mutation: the length is compared, but the image is not verified.
RequestUnverified ==
  /\ pc = "ready" /\ download.active /\ download.received = Pages
  /\ journal' = [journal EXCEPT !.state = REQUESTED]
  /\ download' = [download EXCEPT !.active = FALSE]
  /\ Quiet /\ UNCHANGED <<candidate, app, b, header, tally, pc, page, recovery>>

Request ==
  /\ pc = "ready" /\ download.active /\ download.received = Pages
  /\ candidate = Whole(download.image)
  /\ \/ /\ Quiet
        /\ journal' = [journal EXCEPT !.state = REQUESTED]
        /\ download' = [download EXCEPT !.active = FALSE]
     \/ Misread /\ StateFails(REQUESTED) /\ UNCHANGED download
  /\ UNCHANGED <<candidate, app, b, header, tally, pc, page, recovery>>

Reboot ==
  /\ pc = "ready" /\ InState({REQUESTED})
  /\ Restart /\ Quiet /\ UNCHANGED flash

-----------------------------------------------------------------------------
(* Power cuts, resets and the cable *)

\* A power cut, or a reset that is nobody's fault, between two steps.
PowerCut == Disturb /\ Restart /\ UNCHANGED flash

\* Bits clear in any order: what a cut leaves of the word of a new state.
TornState(from, to) == (from..to) \cup (IF to > from + 1 THEN {Scrambled} ELSE {})

\* A power cut inside a step that writes.  Erasing may leave any page behind.
PowerCutWriting ==
  /\ Disturb /\ Restart
  /\ \/ /\ pc \in {"copy", "restore"}
        /\ \E left \in {Blank, Torn} : app' = [app EXCEPT ![page] = left]
        /\ UNCHANGED <<journal, candidate, b, header, tally>>
     \/ /\ pc = "promote" /\ Promotable /\ app # b
        /\ \E n \in Page : app' = [p \in Page |->
             IF p < n THEN Blank ELSE IF p = n THEN Torn ELSE app[p]]
        /\ UNCHANGED <<journal, candidate, b, header, tally>>
     \/ /\ pc = "erase"
        /\ \E n \in Page : b' = [p \in Page |->
             IF p < n THEN Blank ELSE IF p = n THEN Torn ELSE b[p]]
        /\ UNCHANGED <<journal, candidate, app, header, tally>>
     \/ /\ pc = "store"
        /\ b' = [b EXCEPT ![page] = Torn]
        /\ UNCHANGED <<journal, candidate, app, header, tally>>
     \/ /\ pc \in {"commit", "descriptor"}
        /\ header' = NoImage
        /\ UNCHANGED <<journal, candidate, app, b, tally>>
     \/ /\ pc = "health" /\ InState({TRIAL}) /\ app # Whole(journal.image)
        /\ \E s \in TornState(TRIAL, REJECTED) : journal' = [journal EXCEPT !.state = s]
        /\ UNCHANGED <<candidate, app, b, header, tally>>
     \/ /\ pc = "ready" /\ ~InState({REQUESTED, COPYING, TRIAL})
        /\ \E s \in {DOWNLOADING, Scrambled} : journal' = [image |-> NoImage, state |-> s]
        /\ UNCHANGED <<candidate, app, b, header, tally>>
     \/ /\ pc = "ready" /\ download.active /\ download.received < Pages
        /\ candidate' = [candidate EXCEPT ![download.received + 1] = Torn]
        /\ UNCHANGED <<journal, app, b, header, tally>>

\* A power cut while InstallVerify rejects an update it could not read.
PowerCutRejecting ==
  /\ pc = "verify" /\ Restart
  /\ trouble > 0 /\ trouble' = trouble - 1
  /\ misreads > 0 /\ misreads' = misreads - 1
  /\ \E s \in TornState(journal.state, REJECTED) : journal' = [journal EXCEPT !.state = s]
  /\ UNCHANGED <<candidate, app, b, header, tally>>

\* The user enters the bootloader by double reset, or was left in it, and
\* flashes a release over USB.
WiredFlash ==
  /\ Disturb /\ Restart
  /\ \E i \in Healthy : app' = Whole(i)
  /\ UNCHANGED <<journal, candidate, b, header, tally>>

\* Nothing disturbs any more, and nobody starts another update.
Settle ==
  /\ trouble > 0 /\ trouble' = 0
  /\ UNCHANGED <<flash, pc, page, recovery, download, misreads>>

-----------------------------------------------------------------------------
Bootloader ==
  InstallStatus \/ InstallVerify \/ InstallPage \/ InstallFinish
    \/ Promote \/ RestorePage \/ RestoreDone \/ Decide
Firmware ==
  MarkPending \/ CrashUnhealthy \/ MarkHealthy \/ UpdateHealth
    \/ CompareB \/ StageErase \/ StageWrite \/ CommitErase \/ CommitWrite
User == (\E i \in Images : Begin(i)) \/ Write \/ Request \/ Reboot \/ WiredFlash
Environment == PowerCut \/ PowerCutWriting \/ PowerCutRejecting \/ Settle

Next == Bootloader \/ Firmware \/ User \/ Environment

Spec == Init /\ [][Next]_vars

(* The processor keeps executing; the user need not do anything.            *)
FairSpec == Spec /\ WF_vars(Bootloader) /\ WF_vars(Firmware)

-----------------------------------------------------------------------------
(* Properties *)

\* The external flash has not been misread so far.
ReadsSound == misreads = MaxMisreads

(* While the flash reads back what is in it, the bootloader only ever       *)
(* starts a complete image: whatever a power cut interrupted, an            *)
(* application left half copied is never jumped to.                         *)
NeverUncheckedJump == ReadsSound /\ pc \in AppSteps => Complete(app)

(* While an update is committed and not yet confirmed, the fallback it may  *)
(* have to return to is whole and its descriptor names it.                  *)
FallbackIntact ==
  InState({REQUESTED, COPYING, TRIAL}) => header # NoImage /\ b = Whole(header)

(* There is always a whole healthy image to run: in the application's       *)
(* flash, or as a fallback the bootloader can restore.                      *)
SomethingToRun ==
  \/ IsHealthy
  \/ header \in Healthy /\ b = Whole(header)

(* No power cut during installation, restore, staging or download leaves    *)
(* the keyboard in wired recovery, while the flash reads back what it has.  *)
NeverNeedsCable == ReadsSound => pc # "wired"

(* The image that is committed for installation stays whole until the       *)
(* update has been tried: what the bootloader copies was verified.          *)
CommittedIsWhole == InState({REQUESTED, COPYING}) => candidate = Whole(journal.image)

(* What an undecided update rests on is whole: the image to install, and    *)
(* the fallback it may have to return to.                                   *)
UpdateIsWhole == FallbackIntact /\ CommittedIsWhole

(* Whatever a power cut leaves half done, the keyboard has a healthy image  *)
(* and finds it without a cable.                                            *)
CanAlwaysRun == SomethingToRun /\ NeverNeedsCable

(* A failed installation leads to the fallback or to wired recovery, never  *)
(* to an incomplete application (apex_update.h).  The starts counted have   *)
(* not reached the threshold, so it is not the ordinary restore that failed.*)
FailedInstallIsChecked ==
  pc = "started" /\ InState({REJECTED}) /\ tally < Threshold => Complete(app)

(* An update that does not work is never recorded as healthy: not by the    *)
(* fallback that runs in its place, nor by an image flashed over USB while  *)
(* it was on trial.  (A word torn by a power cut is not a record.)          *)
HealthyIsEarned ==
  [][journal'.state = HEALTHY /\ journal.state # HEALTHY /\ pc' # "install"
       => journal.image \in Healthy]_vars

Settled == pc \in {"ready", "idle"} /\ IsHealthy

(* Once nothing disturbs it any more the keyboard ends up running a healthy *)
(* image and stays there, even if the update it installs never works.  (A   *)
(* misread can leave it in wired recovery, where it waits for its user.)    *)
EventuallySettled == trouble = 0 /\ ReadsSound ~> [](Settled \/ ~ReadsSound)

(* An installation that has begun is decided: the update is confirmed, or   *)
(* the fallback runs and the update is rejected.                            *)
UpdateDecided ==
  InState({COPYING, TRIAL}) ~> ~InState({COPYING, TRIAL}) \/ ~ReadsSound

(* Everything that begins comes to an end: the update is decided, and a     *)
(* healthy image runs.                                                      *)
UpdateEnds == EventuallySettled /\ UpdateDecided

-----------------------------------------------------------------------------
(* The inductive invariant behind the properties *)

\* The flash has been misread at most once so far.  A second misread can make
\* the firmware stage B again while an update is committed.
MisreadAtMostOnce == misreads + 1 >= MaxMisreads

\* B is there and its descriptor names it.
Intact == header # NoImage /\ b = Whole(header)

\* The descriptor of the update cannot be believed, so B is to be restored.
Garbled == ~manifest_valid /\ journal.state # DOWNLOADING

\* An installation was asked for and is not done, or cannot be told from one.
Unsettled == InState({REQUESTED, COPYING}) \/ Garbled

Staging == {"erase", "store", "commit", "descriptor"}

(* Where the processor is, in its copies and with its image.                *)
Steps ==
  /\ pc \notin {"copy", "restore", "store"} => page = 1
  /\ pc \notin {"promote", "restore", "restored", "decide"} => ~recovery
  /\ pc \in Staging \cup {"health", "compare", "ready", "idle"} => IsHealthy
  /\ pc = "verify" => InState({REQUESTED, COPYING})
  /\ pc \in {"copy", "copied"} => InState({COPYING})
  /\ pc = "copy" => \A p \in 1..(page - 1) : app[p] = candidate[p]
  /\ pc = "copied" => app = candidate
  /\ pc \in {"restore", "restored"} => Intact
  /\ pc = "restore" => \A p \in 1..(page - 1) : app[p] = b[p]
  /\ pc = "restored" => app = b \/ ~ReadsSound
  /\ pc = "store" => \A p \in 1..(page - 1) : b[p] = app[p]
  /\ pc \in {"commit", "descriptor"} => b = app
  /\ pc = "ready" => Intact

(* A download is of the image the journal names, and nothing is written to  *)
(* it once it is committed.                                                 *)
Downloads ==
  /\ download.active => pc = "ready"
  /\ download.active =>
       /\ journal.image = download.image /\ journal.image # NoImage
       /\ journal.state \in {DOWNLOADING, REQUESTED}
       /\ journal.state = REQUESTED => download.received = Pages
  /\ CommittedIsWhole

(* An installation that is not done ends with B in the application's flash  *)
(* or in wired recovery, and only a misread keeps it from being done.       *)
Installs ==
  /\ pc \in {"promote", "restore", "restored"} /\ Unsettled => recovery
  /\ pc = "decide" /\ Unsettled => recovery \/ (app = b /\ app = Whole(header))
  /\ pc \in {"started", "running", "health", "compare"} /\ Unsettled =>
       app = b /\ app = Whole(header)
  /\ pc \in {"promote", "restore", "restored", "decide", "started", "running",
             "health", "compare"} /\ InState({REQUESTED, COPYING}) => ~ReadsSound
  /\ pc \in Staging \cup {"compare"} => ~InState({TRIAL})
  /\ pc \in Staging /\ InState({REQUESTED, COPYING}) => ~MisreadAtMostOnce
  /\ pc \in Staging /\ Garbled => ~ReadsSound

(* The fallback: it is a healthy image, and there whenever it may be needed. *)
Fallback ==
  /\ header \in Healthy \cup {NoImage}
  /\ MisreadAtMostOnce => FallbackIntact /\ SomethingToRun
  /\ ReadsSound /\ Garbled => Intact

(* While the flash reads back what is in it, an incomplete application is   *)
(* one that the bootloader is about to replace.                             *)
Sound ==
  /\ ReadsSound => \/ Complete(app)
                   \/ InState({COPYING})
                   \/ Intact /\ (tally = Threshold \/ Garbled)
  /\ ReadsSound /\ pc = "promote" /\ recovery => Garbled
  /\ ReadsSound /\ pc \in {"restore", "restored"} => tally = Threshold \/ Garbled
  /\ ReadsSound /\ pc = "decide" => ~recovery
  /\ ReadsSound /\ pc \in AppSteps \cup {"decide"} => Complete(app)
  /\ ReadsSound => pc # "wired"

UpdateInv == Steps /\ Downloads /\ Installs /\ Fallback /\ Sound
=============================================================================
