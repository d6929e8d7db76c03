------------------------ MODULE FirmwareUpdateProofs ------------------------
(***************************************************************************)
(* An update never leaves the keyboard without an image it can run, for    *)
(* all images, sizes, thresholds and numbers of power cuts and misreads.   *)
(*                                                                         *)
(* The invariant, UpdateInv, says along the processor's steps what is in   *)
(* the flash: which pages of a copy are done (Steps), that a download is   *)
(* of the image the journal names and is committed only when it is whole   *)
(* (Downloads), that an installation which is not done is done again, by   *)
(* the recovery or from B (Installs), that B is a healthy image whenever   *)
(* it may be needed (Fallback), and, while the flash reads back what is in *)
(* it, that an incomplete application is never run (Sound).  Each part has *)
(* a lemma for the bootloader, one for the firmware, one for the user and  *)
(* one for the environment, with a step for every action.                  *)
(*                                                                         *)
(* What rests on B holds while at most one read of the flash went wrong    *)
(* (MisreadAtMostOnce): a second one can let the firmware stage B anew     *)
(* although an update is not decided.                                      *)
(***************************************************************************)
EXTENDS FirmwareUpdate, TLAPS

(* The pages of an image are numbered from one.                             *)
LEMMA OnePage == 1 \in Page /\ Pages \in Page /\ Page \subseteq Nat
  BY UpdateAssumption DEF Page

(* What is read from an image is that image, on every page.                 *)
LEMMA WholeIs ==
  ASSUME NEW i
  PROVE  /\ \A p \in Page : Whole(i)[p] = i
         /\ \A S : i \in S => Whole(i) \in [Page -> S]
  BY DEF Whole

(* Two images with the same contents are the same image.                    *)
LEMMA WholeInjective ==
  ASSUME NEW i, NEW j, Whole(i) = Whole(j)
  PROVE  i = j
  BY OnePage, WholeIs

(* Contents that agree on every page are the same.                          *)
LEMMA SameContents ==
  ASSUME NEW c \in Contents, NEW d \in Contents, \A p \in Page : c[p] = d[p]
  PROVE  c = d
  BY DEF Contents

(* An image that is whole is a contents of the flash.                       *)
LEMMA WholeContents ==
  ASSUME NEW i \in Images \cup {Blank, Torn}
  PROVE  Whole(i) \in Contents
  BY DEF Whole, Contents

(* A page that is written keeps the contents of a flash contents.           *)
LEMMA WrittenContents ==
  ASSUME NEW c \in Contents, NEW p \in Page, NEW v \in Images \cup {Blank, Torn}
  PROVE  [c EXCEPT ![p] = v] \in Contents
  BY DEF Contents

(* What is read from a page is a page of an image, blank or torn.           *)
LEMMA ReadPage ==
  ASSUME NEW c \in Contents, NEW p \in Page
  PROVE  c[p] \in Images \cup {Blank, Torn}
  BY DEF Contents

(* The states of the journal are numbered, so that they may be compared.    *)
LEMMA StateNames ==
  /\ DOWNLOADING = 0 /\ REQUESTED = 1 /\ COPYING = 2 /\ TRIAL = 3
  /\ HEALTHY = 4 /\ REJECTED = 5 /\ Scrambled = 6
  BY DEF DOWNLOADING, REQUESTED, COPYING, TRIAL, HEALTHY, REJECTED, Scrambled

(* Each of the states is one the journal can hold.                          *)
LEMMA StatesInRange ==
  {DOWNLOADING, REQUESTED, COPYING, TRIAL, HEALTHY, REJECTED, Scrambled}
    \subseteq DOWNLOADING..Scrambled
  BY StateNames

(* A state that is written leaves a journal.                                *)
LEMMA JournalWritten ==
  ASSUME NEW j \in Journal, NEW s \in DOWNLOADING..Scrambled
  PROVE  [j EXCEPT !.state = s] \in Journal
  BY DEF Journal

Downloadable == [active : BOOLEAN, received : 0..Pages, image : Images \cup {NoImage}]

(* Without a download there is a record of none.                            *)
LEMMA NoDownloadTypes == NoDownload \in Downloadable
  BY UpdateAssumption DEF NoDownload, Downloadable

(* A bound only counts down.                                                *)
LEMMA BoundsTypes ==
  ASSUME TypeOK, Quiet \/ Misread \/ Disturb
  PROVE  trouble' \in 0..MaxTrouble /\ misreads' \in 0..MaxMisreads
  BY UpdateAssumption DEF TypeOK, Quiet, Misread, Disturb

(* Whatever restarts the processor leaves it at the first page of nothing.  *)
LEMMA RestartTypes ==
  ASSUME Restart
  PROVE  /\ pc' \in BootSteps /\ page' \in Page
         /\ recovery' \in BOOLEAN /\ download' \in Downloadable
  BY OnePage, NoDownloadTypes DEF Restart, BootSteps

(* What a failing write leaves of the journal is a journal.                 *)
LEMMA FailedJournal ==
  ASSUME journal \in Journal, NEW s \in DOWNLOADING..Scrambled, StateFails(s)
  PROVE  journal' \in Journal
  BY JournalWritten DEF StateFails

(* A keyboard flashed over USB has the types.                               *)
LEMMA InitTypes == Init => TypeOK
<1> SUFFICES ASSUME Init PROVE TypeOK
  OBVIOUS
<1>1. [image |-> NoImage, state |-> DOWNLOADING] \in Journal
  BY StateNames DEF Journal
<1>2. candidate \in Contents /\ b \in Contents /\ app \in Contents
  BY UpdateAssumption, WholeContents DEF Init
<1>3. header \in Images \cup {NoImage} /\ tally \in 0..Threshold /\ page \in Page
  BY UpdateAssumption, OnePage DEF Init
<1>4. trouble \in 0..MaxTrouble /\ misreads \in 0..MaxMisreads
  BY UpdateAssumption DEF Init
<1>5. download \in Downloadable /\ recovery \in BOOLEAN /\ pc \in BootSteps
  BY NoDownloadTypes DEF Init, BootSteps
<1>6. journal \in Journal
  BY <1>1 DEF Init
<1> QED BY <1>2, <1>3, <1>4, <1>5, <1>6 DEF TypeOK, Downloadable

(* The bootloader keeps the types.                                          *)
LEMMA BootTypes ==
  ASSUME TypeOK, Bootloader PROVE TypeOK'
<1> USE UpdateAssumption, OnePage, StateNames, BoundsTypes
<1>1. CASE InstallStatus
  <2>1. recovery' \in BOOLEAN /\ pc' \in BootSteps
    BY <1>1 DEF InstallStatus, TypeOK, BootSteps
  <2>2. Quiet \/ Misread
    BY <1>1 DEF InstallStatus
  <2> QED BY <1>1, <2>1, <2>2 DEF InstallStatus, TypeOK, flash
<1>2. CASE InstallVerify
  <2>1. journal' \in Journal
    <3>1. \E s \in {COPYING, REJECTED} :
            journal' = [journal EXCEPT !.state = s] \/ StateFails(s)
      BY <1>2, Zenon DEF InstallVerify
    <3>2. PICK s \in {COPYING, REJECTED} :
            journal' = [journal EXCEPT !.state = s] \/ StateFails(s)
      BY <3>1
    <3>3. s \in DOWNLOADING..Scrambled
      BY <3>2, StatesInRange
    <3>4. journal \in Journal /\ [journal EXCEPT !.state = s] \in Journal
      BY <3>3, JournalWritten DEF TypeOK
    <3>5. StateFails(s) => journal' \in Journal
      BY <3>3, <3>4, FailedJournal
    <3> QED BY <3>2, <3>4, <3>5
  <2>2. recovery' \in BOOLEAN /\ pc' \in BootSteps /\ (Quiet \/ Misread)
    BY <1>2 DEF InstallVerify, TypeOK, BootSteps
  <2> QED BY <1>2, <2>1, <2>2 DEF InstallVerify, TypeOK
<1>3. CASE InstallPage
  <2>1. app' \in Contents
    BY <1>3, WrittenContents, ReadPage DEF InstallPage, TypeOK
  <2>2. page' \in Page
    BY <1>3 DEF InstallPage, TypeOK, Page
  <2>3. recovery' \in BOOLEAN /\ pc' \in BootSteps /\ (Quiet \/ Misread)
    BY <1>3 DEF InstallPage, TypeOK, BootSteps
  <2> QED BY <1>3, <2>1, <2>2, <2>3 DEF InstallPage, TypeOK
<1>4. CASE InstallFinish
  <2>1. journal' \in Journal
    <3>1. \/ journal' \in {journal, [journal EXCEPT !.state = TRIAL]}
          \/ StateFails(TRIAL)
      BY <1>4 DEF InstallFinish
    <3>2. TRIAL \in DOWNLOADING..Scrambled
      BY StatesInRange
    <3>3. journal \in Journal /\ [journal EXCEPT !.state = TRIAL] \in Journal
      BY <3>2, JournalWritten DEF TypeOK
    <3>4. StateFails(TRIAL) => journal' \in Journal
      BY <3>2, <3>3, FailedJournal
    <3> QED BY <3>1, <3>3, <3>4
  <2>2. recovery' \in BOOLEAN /\ pc' \in BootSteps /\ (Quiet \/ Misread)
    BY <1>4 DEF InstallFinish, TypeOK, BootSteps
  <2> QED BY <1>4, <2>1, <2>2 DEF InstallFinish, TypeOK
<1>5. CASE Promote
  <2>1. app' \in Contents
    BY <1>5, WholeContents DEF Promote, TypeOK
  <2>2. recovery' \in BOOLEAN /\ pc' \in BootSteps /\ (Quiet \/ Misread)
    BY <1>5 DEF Promote, TypeOK, BootSteps
  <2> QED BY <1>5, <2>1, <2>2 DEF Promote, TypeOK
<1>6. CASE RestorePage
  <2>1. app' \in Contents
    BY <1>6, WrittenContents, ReadPage DEF RestorePage, TypeOK
  <2>2. page' \in Page
    BY <1>6 DEF RestorePage, TypeOK, Page
  <2> QED BY <1>6, <2>1, <2>2 DEF RestorePage, TypeOK, BootSteps
<1>7. CASE RestoreDone
  BY <1>7 DEF RestoreDone, TypeOK, flash, BootSteps
<1>8. CASE Decide
  BY <1>8 DEF Decide, TypeOK, flash, AppSteps
<1> QED BY <1>1, <1>2, <1>3, <1>4, <1>5, <1>6, <1>7, <1>8 DEF Bootloader

(* The firmware keeps the types.                                            *)
LEMMA FirmwareTypes ==
  ASSUME TypeOK, Firmware PROVE TypeOK'
<1> USE UpdateAssumption, OnePage, StateNames, BoundsTypes
<1>1. CASE MarkPending
  BY <1>1 DEF MarkPending, TypeOK, AppSteps
<1>2. CASE CrashUnhealthy
  BY <1>2, RestartTypes DEF CrashUnhealthy, TypeOK, flash, Downloadable
<1>3. CASE MarkHealthy
  BY <1>3 DEF MarkHealthy, TypeOK, AppSteps
<1>4. CASE UpdateHealth
  <2>1. journal' \in Journal
    <3> DEFINE verdict == IF app = Whole(journal.image) THEN HEALTHY ELSE REJECTED
    <3>1. verdict \in DOWNLOADING..Scrambled
      OBVIOUS
    <3> HIDE DEF verdict
    <3>2. \/ journal' \in {journal, [journal EXCEPT !.state = verdict]}
          \/ StateFails(verdict)
      BY <1>4 DEF UpdateHealth, verdict
    <3> QED BY <3>1, <3>2, JournalWritten, FailedJournal DEF TypeOK
  <2> QED BY <1>4, <2>1 DEF UpdateHealth, TypeOK, AppSteps
<1>5. CASE CompareB
  BY <1>5 DEF CompareB, TypeOK, flash, AppSteps
<1>6. CASE StageErase
  <2>1. b' \in Contents
    BY <1>6, WholeContents DEF StageErase, Contents
  <2> QED BY <1>6, <2>1 DEF StageErase, TypeOK, AppSteps
<1>7. CASE StageWrite
  <2>1. b' \in Contents
    BY <1>7, WrittenContents, ReadPage DEF StageWrite, TypeOK
  <2>2. page' \in Page
    BY <1>7 DEF StageWrite, TypeOK, Page
  <2> QED BY <1>7, <2>1, <2>2 DEF StageWrite, TypeOK, AppSteps
<1>8. CASE CommitErase
  BY <1>8 DEF CommitErase, TypeOK, AppSteps
<1>9. CASE CommitWrite
  BY <1>9 DEF CommitWrite, TypeOK, AppSteps
<1> QED BY <1>1, <1>2, <1>3, <1>4, <1>5, <1>6, <1>7, <1>8, <1>9 DEF Firmware

(* The host that sends an update, and its user, keep the types.             *)
LEMMA UserTypes ==
  ASSUME TypeOK, User PROVE TypeOK'
<1> USE UpdateAssumption, OnePage, StateNames, BoundsTypes
<1>1. ASSUME NEW i \in Images, Begin(i) PROVE TypeOK'
  <2>1. journal' \in Journal
    BY <1>1 DEF Begin, TypeOK, Journal
  <2>2. download' \in Downloadable
    <3>1. [active |-> TRUE, received |-> 0, image |-> i] \in Downloadable
      BY DEF Downloadable
    <3> QED BY <1>1, <3>1, NoDownloadTypes, Zenon DEF Begin
  <2>3. Quiet \/ Misread \/ Disturb
    BY <1>1 DEF Begin
  <2> QED BY <1>1, <2>1, <2>2, <2>3 DEF Begin, TypeOK, Downloadable
<1>2. CASE Write
  <2>1. download.received + 1 \in Page
    BY <1>2 DEF Write, TypeOK, Page
  <2>2. candidate' \in Contents
    BY <1>2, <2>1, WrittenContents DEF Write, TypeOK
  <2>3. download' \in Downloadable
    BY <1>2 DEF Write, TypeOK, Downloadable
  <2> QED BY <1>2, <2>2, <2>3 DEF Write, TypeOK
<1>3. CASE Request
  <2>1. journal' \in Journal
    <3>1. \/ journal' = [journal EXCEPT !.state = REQUESTED]
          \/ StateFails(REQUESTED)
      BY <1>3 DEF Request
    <3> QED BY <3>1, StatesInRange, JournalWritten, FailedJournal, Zenon DEF TypeOK
  <2>2. download' \in Downloadable
    BY <1>3 DEF Request, TypeOK, Downloadable
  <2> QED BY <1>3, <2>1, <2>2 DEF Request, TypeOK
<1>4. CASE Reboot
  BY <1>4, RestartTypes DEF Reboot, TypeOK, flash, Downloadable
<1>5. CASE WiredFlash
  <2>1. app' \in Contents
    BY <1>5, WholeContents DEF WiredFlash
  <2> QED BY <1>5, <2>1, RestartTypes DEF WiredFlash, TypeOK, Downloadable
<1> QED BY <1>1, <1>2, <1>3, <1>4, <1>5 DEF User

(* Power cuts, also those within a write, keep the types.                   *)
LEMMA EnvironmentTypes ==
  ASSUME TypeOK, Environment PROVE TypeOK'
<1> USE UpdateAssumption, OnePage, StateNames, BoundsTypes
<1>1. CASE PowerCut
  BY <1>1, RestartTypes DEF PowerCut, TypeOK, flash, Downloadable
<1>2. CASE PowerCutWriting
  <2>1. app' \in Contents
    BY <1>2, WrittenContents DEF PowerCutWriting, TypeOK, Contents
  <2>2. b' \in Contents
    BY <1>2, WrittenContents DEF PowerCutWriting, TypeOK, Contents
  <2>3. candidate' \in Contents
    <3>1. download.received < Pages => download.received + 1 \in Page
      BY DEF TypeOK, Page
    <3> QED BY <1>2, <3>1, WrittenContents DEF PowerCutWriting, TypeOK
  <2>4. journal' \in Journal
    <3>1. TornState(TRIAL, REJECTED) \subseteq DOWNLOADING..Scrambled
      BY DEF TornState
    <3> QED BY <1>2, <3>1, JournalWritten DEF PowerCutWriting, TypeOK, Journal
  <2>5. header' \in Images \cup {NoImage} /\ tally' = tally
    BY <1>2 DEF PowerCutWriting, TypeOK
  <2>6. Disturb /\ Restart
    BY <1>2 DEF PowerCutWriting
  <2> QED BY <2>1, <2>2, <2>3, <2>4, <2>5, <2>6, RestartTypes DEF TypeOK, Downloadable
<1>3. CASE PowerCutRejecting
  <2>1. journal.state \in DOWNLOADING..Scrambled
    BY DEF TypeOK, Journal
  <2>2. TornState(journal.state, REJECTED) \subseteq DOWNLOADING..Scrambled
    BY <2>1 DEF TornState
  <2>3. journal' \in Journal
    <3>1. PICK s \in TornState(journal.state, REJECTED) :
            journal' = [journal EXCEPT !.state = s]
      BY <1>3 DEF PowerCutRejecting
    <3> QED BY <2>2, <3>1, JournalWritten DEF TypeOK
  <2>4. trouble' \in 0..MaxTrouble /\ misreads' \in 0..MaxMisreads
    BY <1>3 DEF PowerCutRejecting, TypeOK
  <2> QED BY <1>3, <2>3, <2>4, RestartTypes DEF PowerCutRejecting, TypeOK, Downloadable
<1>4. CASE Settle
  BY <1>4 DEF Settle, TypeOK, flash
<1> QED BY <1>1, <1>2, <1>3, <1>4 DEF Environment

(* So every step keeps them.                                                *)
LEMMA StepTypes == TypeOK /\ [Next]_vars => TypeOK'
<1>1. CASE UNCHANGED vars
  BY <1>1 DEF vars, flash, TypeOK
<1> QED BY <1>1, BootTypes, FirmwareTypes, UserTypes, EnvironmentTypes DEF Next

(* Every variable keeps its type.                                           *)
THEOREM UpdateTypesHold == Spec => []TypeOK
  BY InitTypes, StepTypes, PTL DEF Spec

(* Copying one more page of an image leaves all pages so far copied.        *)
LEMMA CopiedPage ==
  ASSUME NEW c \in Contents, NEW d \in Contents, NEW n \in Page, NEW e,
         \A p \in 1..(n - 1) : c[p] = d[p], e = [c EXCEPT ![n] = d[n]]
  PROVE  /\ \A p \in 1..n : e[p] = d[p]
         /\ n = Pages => e = d
<1>1. \A p \in Page : p \in 1..n => e[p] = d[p]
  BY DEF Contents
<1>2. 1..n \subseteq Page /\ (n = Pages => Page \subseteq 1..n)
  BY UpdateAssumption DEF Page
<1>3. e \in Contents
  BY WrittenContents, ReadPage
<1> QED BY <1>1, <1>2, <1>3, SameContents

(* The bootloader: a page that is copied is one more that agrees, and after *)
(* the last page all of it does; a restored application is B, unless a page *)
(* of it was misread.                                                       *)
LEMMA StepsInBootloader ==
  ASSUME TypeOK, Steps, Bootloader PROVE Steps'
<1> USE OnePage, UpdateAssumption, StateNames
<1>1. CASE InstallStatus
  BY <1>1 DEF InstallStatus, flash, Steps, Staging, InState, manifest_valid
<1>2. CASE InstallVerify
  <2>1. CASE Quiet /\ candidate = Whole(journal.image)
    <3>1. InState({COPYING})'
      <4>1. journal' = [journal EXCEPT !.state = COPYING] /\ journal.image # NoImage
        BY <1>2, <2>1 DEF InstallVerify, Quiet, Misread, TypeOK, Steps, InState,
           manifest_valid
      <4> QED BY <4>1 DEF InState, manifest_valid
    <3>2. pc' = "copy" /\ page' = 1 /\ ~recovery'
      BY <1>2, <2>1 DEF InstallVerify, Quiet, Misread, TypeOK, Steps
    <3> QED BY <3>1, <3>2 DEF Steps, Staging
  <2>2. CASE pc' = "promote"
    BY <1>2, <2>2 DEF InstallVerify, Steps, Staging
  <2> QED BY <1>2, <2>1, <2>2 DEF InstallVerify
<1>3. CASE InstallPage
  <2>1. CASE Quiet
    <3>1. app' = [app EXCEPT ![page] = candidate[page]]
      BY <1>3, <2>1 DEF InstallPage, Quiet, Misread, TypeOK
    <3>2. \A p \in 1..(page - 1) : app[p] = candidate[p]
      BY <1>3 DEF InstallPage, Steps
    <3>3. /\ \A p \in 1..page : app'[p] = candidate[p]
          /\ page = Pages => app' = candidate
      BY <3>1, <3>2, CopiedPage DEF TypeOK
    <3>4. \/ page = Pages /\ pc' = "copied" /\ page' = 1
          \/ page # Pages /\ pc' = "copy" /\ page' = page + 1
      BY <1>3, <2>1 DEF InstallPage, Quiet, Misread, TypeOK
    <3>5. \A p \in 1..((page + 1) - 1) : app'[p] = candidate[p]
      BY <3>3 DEF TypeOK
    <3> QED BY <1>3, <3>3, <3>4, <3>5 DEF InstallPage, Steps, Staging, InState,
               manifest_valid
  <2>2. CASE Misread
    BY <1>3, <2>2 DEF InstallPage, Quiet, Misread, Steps, Staging, TypeOK
  <2> QED BY <1>3, <2>1, <2>2 DEF InstallPage
<1>4. CASE InstallFinish
  BY <1>4 DEF InstallFinish, Steps, Staging
<1>5. CASE Promote
  BY <1>5 DEF Promote, Promotable, Steps, Staging, Intact
<1>6. CASE RestorePage
  <2>1. CASE Quiet
    <3>1. app' = [app EXCEPT ![page] = b[page]]
      BY <1>6, <2>1 DEF RestorePage, Quiet, Misread, TypeOK
    <3>2. \A p \in 1..(page - 1) : app[p] = b[p]
      BY <1>6 DEF RestorePage, Steps
    <3>3. /\ \A p \in 1..page : app'[p] = b[p]
          /\ page = Pages => app' = b
      BY <3>1, <3>2, CopiedPage DEF TypeOK
    <3>4. \/ page = Pages /\ pc' = "restored" /\ page' = 1
          \/ page # Pages /\ pc' = "restore" /\ page' = page + 1
      BY <1>6, <2>1 DEF RestorePage, Quiet, Misread, TypeOK
    <3>5. \A p \in 1..((page + 1) - 1) : app'[p] = b[p]
      BY <3>3 DEF TypeOK
    <3> QED BY <1>6, <3>3, <3>4, <3>5 DEF RestorePage, Steps, Staging, Intact
  <2>2. CASE Misread
    BY <1>6, <2>2 DEF RestorePage, Quiet, Misread, Steps, Staging, Intact, ReadsSound,
       TypeOK
  <2> QED BY <1>6, <2>1, <2>2 DEF RestorePage
<1>7. CASE RestoreDone
  BY <1>7 DEF RestoreDone, Steps, Staging
<1>8. CASE Decide
  BY <1>8 DEF Decide, Steps, Staging
<1> QED BY <1>1, <1>2, <1>3, <1>4, <1>5, <1>6, <1>7, <1>8 DEF Bootloader

(* The firmware: it stages B page by page from itself and names it when it  *)
(* is whole.                                                                *)
LEMMA StepsInFirmware ==
  ASSUME TypeOK, Steps, Firmware PROVE Steps'
<1> USE OnePage, UpdateAssumption, StateNames
<1>1. CASE MarkPending
  BY <1>1 DEF MarkPending, Steps, Staging
<1>2. CASE CrashUnhealthy
  BY <1>2 DEF CrashUnhealthy, Restart, Steps, Staging
<1>3. CASE MarkHealthy
  BY <1>3 DEF MarkHealthy, Steps, IsHealthy
<1>4. CASE UpdateHealth
  BY <1>4 DEF UpdateHealth, Steps, IsHealthy
<1>5. CASE CompareB
  <2>1. CASE app = b /\ app = Whole(header) /\ pc' = "ready"
    <3>1. PICK i \in Healthy : app = Whole(i)
      BY <1>5 DEF CompareB, Steps, IsHealthy
    <3>2. header # NoImage
      BY <2>1, <3>1, WholeInjective, NamesAssumption
    <3> QED BY <1>5, <2>1, <3>2 DEF CompareB, flash, Steps, IsHealthy, Intact
  <2>2. CASE pc' = "erase"
    BY <1>5, <2>2 DEF CompareB, flash, Steps, IsHealthy
  <2> QED BY <1>5, <2>1, <2>2 DEF CompareB
<1>6. CASE StageErase
  BY <1>6 DEF StageErase, Steps, Staging, IsHealthy
<1>7. CASE StageWrite
  <2>1. CASE Quiet
    <3>1. b' = [b EXCEPT ![page] = app[page]]
      BY <1>7, <2>1 DEF StageWrite, Quiet, Misread, TypeOK
    <3>2. \A p \in 1..(page - 1) : b[p] = app[p]
      BY <1>7 DEF StageWrite, Steps
    <3>3. /\ \A p \in 1..page : b'[p] = app[p]
          /\ page = Pages => b' = app
      BY <3>1, <3>2, CopiedPage DEF TypeOK
    <3>4. \/ page = Pages /\ pc' = "commit" /\ page' = 1
          \/ page # Pages /\ pc' = "store" /\ page' = page + 1
      BY <1>7, <2>1 DEF StageWrite, Quiet, Misread, TypeOK
    <3>5. \A p \in 1..((page + 1) - 1) : b'[p] = app[p]
      BY <3>3 DEF TypeOK
    <3> QED BY <1>7, <3>3, <3>4, <3>5 DEF StageWrite, Steps, Staging, IsHealthy
  <2>2. CASE Misread
    BY <1>7, <2>2 DEF StageWrite, Quiet, Misread, Steps, Staging, IsHealthy, TypeOK
  <2> QED BY <1>7, <2>1, <2>2 DEF StageWrite
<1>8. CASE CommitErase
  BY <1>8 DEF CommitErase, Steps, Staging, IsHealthy
<1>9. CASE CommitWrite
  <2>1. CASE Quiet
    <3>1. PICK i \in Images : header' = i /\ b = Whole(i)
      BY <1>9, <2>1 DEF CommitWrite, Quiet, Misread, TypeOK
    <3>2. Intact'
      BY <1>9, <3>1, NamesAssumption DEF CommitWrite, Intact
    <3> QED BY <1>9, <2>1, <3>2 DEF CommitWrite, Steps, Staging, IsHealthy
  <2>2. CASE Misread
    BY <1>9, <2>2 DEF CommitWrite, Quiet, Misread, Steps, Staging, IsHealthy
  <2> QED BY <1>9, <2>1, <2>2 DEF CommitWrite
<1> QED BY <1>1, <1>2, <1>3, <1>4, <1>5, <1>6, <1>7, <1>8, <1>9 DEF Firmware

(* The user acts only while the processor is ready, or restarts it.         *)
LEMMA StepsInUser ==
  ASSUME TypeOK, Steps, User PROVE Steps'
<1> USE OnePage, UpdateAssumption, StateNames
<1>1. ASSUME NEW i \in Images, Begin(i) PROVE Steps'
  BY <1>1 DEF Begin, Steps, IsHealthy, Intact
<1>2. CASE Write
  BY <1>2 DEF Write, Steps, IsHealthy, Intact
<1>3. CASE Request
  BY <1>3 DEF Request, Steps, IsHealthy, Intact
<1>4. CASE Reboot
  BY <1>4 DEF Reboot, Restart, Steps, Staging
<1>5. CASE WiredFlash
  BY <1>5 DEF WiredFlash, Restart, Steps, IsHealthy
<1> QED BY <1>1, <1>2, <1>3, <1>4, <1>5 DEF User

(* A restart forgets how far the processor was; no copy is under way.       *)
LEMMA StepsInEnvironment ==
  ASSUME TypeOK, Steps, Environment PROVE Steps'
<1> USE OnePage, UpdateAssumption, StateNames
<1>1. CASE PowerCut
  BY <1>1 DEF PowerCut, Restart, Steps, Staging
<1>2. CASE PowerCutWriting
  BY <1>2 DEF PowerCutWriting, Restart, Steps, Staging
<1>3. CASE PowerCutRejecting
  BY <1>3 DEF PowerCutRejecting, Restart, Steps, Staging
<1>4. CASE Settle
  BY <1>4 DEF Settle, flash, Steps, InState, manifest_valid, IsHealthy, Intact,
     ReadsSound
<1> QED BY <1>1, <1>2, <1>3, <1>4 DEF Environment

(* The bootloader writes states of the journal only, and COPYING to a       *)
(* candidate it has checked.                                                *)
LEMMA DownloadsInBootloader ==
  ASSUME TypeOK, Steps, Downloads, Bootloader PROVE Downloads'
<1> USE OnePage, UpdateAssumption, StateNames
<1>1. CASE InstallStatus
  BY <1>1 DEF InstallStatus, flash, Downloads, CommittedIsWhole, InState, manifest_valid
<1>2. CASE InstallVerify
  BY <1>2 DEF InstallVerify, StateFails, Downloads, CommittedIsWhole, InState,
     manifest_valid, TypeOK, Journal
<1>3. CASE InstallPage
  BY <1>3 DEF InstallPage, Downloads, CommittedIsWhole, InState, manifest_valid
<1>4. CASE InstallFinish
  BY <1>4 DEF InstallFinish, StateFails, Downloads, CommittedIsWhole, InState,
     manifest_valid, TypeOK, Journal
<1>5. CASE Promote
  BY <1>5 DEF Promote, Downloads, CommittedIsWhole, InState, manifest_valid
<1>6. CASE RestorePage
  BY <1>6 DEF RestorePage, Downloads, CommittedIsWhole, InState, manifest_valid
<1>7. CASE RestoreDone
  BY <1>7 DEF RestoreDone, flash, Downloads, CommittedIsWhole, InState, manifest_valid
<1>8. CASE Decide
  BY <1>8 DEF Decide, flash, Downloads, CommittedIsWhole, InState, manifest_valid
<1> QED BY <1>1, <1>2, <1>3, <1>4, <1>5, <1>6, <1>7, <1>8 DEF Bootloader

(* The firmware judges an update it runs, and leaves the candidate alone.   *)
LEMMA DownloadsInFirmware ==
  ASSUME TypeOK, Steps, Downloads, Firmware PROVE Downloads'
<1> USE OnePage, UpdateAssumption, StateNames
<1>1. CASE MarkPending
  BY <1>1 DEF MarkPending, Downloads, CommittedIsWhole, InState, manifest_valid
<1>2. CASE CrashUnhealthy
  BY <1>2 DEF CrashUnhealthy, Restart, flash, NoDownload, Downloads, CommittedIsWhole,
     InState, manifest_valid
<1>3. CASE MarkHealthy
  BY <1>3 DEF MarkHealthy, Downloads, CommittedIsWhole, InState, manifest_valid
<1>4. CASE UpdateHealth
  BY <1>4 DEF UpdateHealth, StateFails, Downloads, CommittedIsWhole, InState,
     manifest_valid, TypeOK, Journal
<1>5. CASE CompareB
  BY <1>5 DEF CompareB, flash, Downloads, CommittedIsWhole, InState, manifest_valid
<1>6. CASE StageErase
  BY <1>6 DEF StageErase, Downloads, CommittedIsWhole, InState, manifest_valid
<1>7. CASE StageWrite
  BY <1>7 DEF StageWrite, Downloads, CommittedIsWhole, InState, manifest_valid
<1>8. CASE CommitErase
  BY <1>8 DEF CommitErase, Downloads, CommittedIsWhole, InState, manifest_valid
<1>9. CASE CommitWrite
  BY <1>9 DEF CommitWrite, Downloads, CommittedIsWhole, InState, manifest_valid
<1> QED BY <1>1, <1>2, <1>3, <1>4, <1>5, <1>6, <1>7, <1>8, <1>9 DEF Firmware

(* A request commits what was received in full and reads back as the image. *)
LEMMA DownloadsInUser ==
  ASSUME TypeOK, Steps, Downloads, User PROVE Downloads'
<1> USE OnePage, UpdateAssumption, StateNames
<1>1. ASSUME NEW i \in Images, Begin(i) PROVE Downloads'
  BY <1>1, NamesAssumption DEF Begin, NoDownload, Downloads, CommittedIsWhole, InState,
     manifest_valid
<1>2. CASE Write
  BY <1>2 DEF Write, Downloads, CommittedIsWhole, InState, TypeOK
<1>3. CASE Request
  BY <1>3 DEF Request, StateFails, Downloads, CommittedIsWhole, TypeOK, Journal
<1>4. CASE Reboot
  BY <1>4 DEF Reboot, Restart, flash, NoDownload, Downloads, CommittedIsWhole, InState
<1>5. CASE WiredFlash
  BY <1>5 DEF WiredFlash, Restart, NoDownload, Downloads, CommittedIsWhole, InState,
     manifest_valid
<1> QED BY <1>1, <1>2, <1>3, <1>4, <1>5 DEF User

(* A power cut ends the download, and a torn word commits nothing but what  *)
(* was being committed.                                                     *)
LEMMA DownloadsInEnvironment ==
  ASSUME TypeOK, Steps, Downloads, Environment PROVE Downloads'
<1> USE OnePage, UpdateAssumption, StateNames
<1>1. CASE PowerCut
  BY <1>1 DEF PowerCut, Restart, flash, NoDownload, Downloads, CommittedIsWhole,
     InState, manifest_valid
<1>2. CASE PowerCutWriting
  BY <1>2 DEF PowerCutWriting, Restart, NoDownload, TornState, Downloads,
     CommittedIsWhole, InState, manifest_valid, TypeOK, Journal
<1>3. CASE PowerCutRejecting
  BY <1>3 DEF PowerCutRejecting, Restart, NoDownload, Downloads, CommittedIsWhole, Steps
<1>4. CASE Settle
  BY <1>4 DEF Settle, flash, Downloads, CommittedIsWhole, InState, manifest_valid
<1> QED BY <1>1, <1>2, <1>3, <1>4 DEF Environment

(* The bootloader passes an installation by only when it misread the flash, *)
(* or after it began a recovery, which ends with B in place.                *)
LEMMA InstallsInBootloader ==
  ASSUME TypeOK, Steps, Downloads, Installs, Fallback, Bootloader PROVE Installs'
<1> USE OnePage, UpdateAssumption, StateNames
<1>1. CASE InstallStatus
  <2>1. CASE InState({REQUESTED, COPYING}) /\ pc' = "verify"
    BY <1>1, <2>1 DEF Installs, Staging
  <2>2. CASE ~InState({REQUESTED, COPYING}) /\ pc' = "promote" /\ (Garbled => recovery')
    BY <1>1, <2>2 DEF InstallStatus, flash, Installs, Unsettled, Garbled, Staging,
       InState, manifest_valid
  <2>3. CASE Misread /\ pc' = "promote" /\ recovery'
    BY <1>1, <2>3 DEF Misread, Installs, Staging, ReadsSound, TypeOK
  <2>4. /\ ~InState({REQUESTED, COPYING})
        /\ recovery' = (~manifest_valid /\ journal.state # DOWNLOADING)
        => (Garbled => recovery')
    BY DEF Garbled
  <2> QED BY <1>1, <2>1, <2>2, <2>3, <2>4 DEF InstallStatus
<1>2. CASE InstallVerify
  BY <1>2 DEF InstallVerify, Misread, Installs, Staging, InState, ReadsSound, TypeOK,
     Journal
<1>3. CASE InstallPage
  BY <1>3 DEF InstallPage, Misread, Installs, Staging, ReadsSound, TypeOK
<1>4. CASE InstallFinish
  BY <1>4 DEF InstallFinish, Misread, Installs, Unsettled, Garbled, Staging, InState,
     manifest_valid, ReadsSound, TypeOK, Journal, Steps, Downloads, CommittedIsWhole
<1>5. CASE Promote
  BY <1>5 DEF Promote, Quiet, Misread, Promotable, Installs, Unsettled, Garbled,
     Staging, InState, manifest_valid, ReadsSound, TypeOK
<1>6. CASE RestorePage
  BY <1>6 DEF RestorePage, Quiet, Misread, Installs, Unsettled, Garbled, Staging,
     InState, manifest_valid, ReadsSound, TypeOK
<1>7. CASE RestoreDone
  BY <1>7 DEF RestoreDone, Quiet, flash, Installs, Unsettled, Garbled, Staging, InState,
     manifest_valid, ReadsSound, Steps, Intact
<1>8. CASE Decide
  BY <1>8 DEF Decide, Quiet, flash, Installs, Unsettled, Garbled, Staging, InState,
     manifest_valid, ReadsSound
<1> QED BY <1>1, <1>2, <1>3, <1>4, <1>5, <1>6, <1>7, <1>8 DEF Bootloader

(* The firmware stages B only when no update waits for its verdict, unless  *)
(* two misreads hid it.                                                     *)
LEMMA InstallsInFirmware ==
  ASSUME TypeOK, Steps, Downloads, Installs, Fallback, Firmware PROVE Installs'
<1> USE OnePage, UpdateAssumption, StateNames
<1>1. CASE MarkPending
  BY <1>1 DEF MarkPending, Quiet, Installs, Unsettled, Garbled, Staging, InState,
     manifest_valid, ReadsSound
<1>2. CASE CrashUnhealthy
  BY <1>2 DEF CrashUnhealthy, Restart, Installs, Staging
<1>3. CASE MarkHealthy
  BY <1>3 DEF MarkHealthy, Quiet, Misread, Installs, Unsettled, Garbled, Staging,
     InState, manifest_valid, ReadsSound, TypeOK
<1>4. CASE UpdateHealth
  BY <1>4 DEF UpdateHealth, Quiet, Installs, Unsettled, Garbled, Staging, InState,
     manifest_valid, ReadsSound, TypeOK, Journal
<1>5. CASE CompareB
  BY <1>5 DEF CompareB, Misread, flash, Installs, Unsettled, Garbled, Staging, InState,
     manifest_valid, ReadsSound, MisreadAtMostOnce, TypeOK
<1>6. CASE StageErase
  BY <1>6 DEF StageErase, Quiet, Installs, Garbled, Staging, InState, manifest_valid,
     ReadsSound, MisreadAtMostOnce
<1>7. CASE StageWrite
  BY <1>7 DEF StageWrite, Quiet, Installs, Garbled, Staging, InState, manifest_valid,
     ReadsSound, MisreadAtMostOnce
<1>8. CASE CommitErase
  BY <1>8 DEF CommitErase, Quiet, Installs, Garbled, Staging, InState, manifest_valid,
     ReadsSound, MisreadAtMostOnce
<1>9. CASE CommitWrite
  BY <1>9 DEF CommitWrite, Installs, Staging
<1> QED BY <1>1, <1>2, <1>3, <1>4, <1>5, <1>6, <1>7, <1>8, <1>9 DEF Firmware

(* The user is there only when nothing is left to install, or restarts the  *)
(* processor.                                                               *)
LEMMA InstallsInUser ==
  ASSUME TypeOK, Steps, Downloads, Installs, Fallback, User PROVE Installs'
<1> USE OnePage, UpdateAssumption, StateNames
<1>1. ASSUME NEW i \in Images, Begin(i) PROVE Installs'
  BY <1>1 DEF Begin, Installs, Staging
<1>2. CASE Write
  BY <1>2 DEF Write, Installs, Staging
<1>3. CASE Request
  BY <1>3 DEF Request, Installs, Staging
<1>4. CASE Reboot
  BY <1>4 DEF Reboot, Restart, Installs, Staging
<1>5. CASE WiredFlash
  BY <1>5 DEF WiredFlash, Restart, Installs, Staging
<1> QED BY <1>1, <1>2, <1>3, <1>4, <1>5 DEF User

(* After a power cut the installation begins anew.                          *)
LEMMA InstallsInEnvironment ==
  ASSUME TypeOK, Steps, Downloads, Installs, Fallback, Environment PROVE Installs'
<1> USE OnePage, UpdateAssumption, StateNames
<1>1. CASE PowerCut
  BY <1>1 DEF PowerCut, Restart, Installs, Staging
<1>2. CASE PowerCutWriting
  BY <1>2 DEF PowerCutWriting, Restart, Installs, Staging
<1>3. CASE PowerCutRejecting
  BY <1>3 DEF PowerCutRejecting, Restart, Installs, Staging
<1>4. CASE Settle
  BY <1>4 DEF Settle, flash, Installs, Unsettled, Garbled, InState, manifest_valid,
     ReadsSound, MisreadAtMostOnce
<1> QED BY <1>1, <1>2, <1>3, <1>4 DEF Environment

(* The bootloader writes the application only: from a candidate that was    *)
(* checked, or from B.                                                      *)
LEMMA FallbackInBootloader ==
  ASSUME TypeOK, Steps, Downloads, Installs, Fallback, Bootloader PROVE Fallback'
<1> USE OnePage, UpdateAssumption, StateNames
<1>1. CASE InstallStatus
  BY <1>1 DEF InstallStatus, Quiet, Misread, flash, Fallback, FallbackIntact,
     SomethingToRun, Intact, Garbled, InState, manifest_valid, ReadsSound,
     MisreadAtMostOnce, IsHealthy, TypeOK
<1>2. CASE InstallVerify
  BY <1>2 DEF InstallVerify, Quiet, Misread, Fallback, FallbackIntact, SomethingToRun,
     Garbled, InState, manifest_valid, ReadsSound, MisreadAtMostOnce, TypeOK, Journal,
     Steps
<1>3. CASE InstallPage
  BY <1>3 DEF InstallPage, Quiet, Misread, Fallback, FallbackIntact, SomethingToRun,
     Garbled, InState, manifest_valid, MisreadAtMostOnce, TypeOK, Steps
<1>4. CASE InstallFinish
  BY <1>4 DEF InstallFinish, Quiet, Misread, Fallback, FallbackIntact, SomethingToRun,
     Garbled, InState, manifest_valid, ReadsSound, MisreadAtMostOnce, TypeOK, Journal,
     Steps
<1>5. CASE Promote
  BY <1>5 DEF Promote, Quiet, Misread, Promotable, Fallback, FallbackIntact,
     SomethingToRun, Intact, Garbled, InState, manifest_valid, ReadsSound,
     MisreadAtMostOnce, IsHealthy, TypeOK
<1>6. CASE RestorePage
  BY <1>6 DEF RestorePage, Fallback, FallbackIntact, SomethingToRun, Intact, Steps
<1>7. CASE RestoreDone
  BY <1>7 DEF RestoreDone, Quiet, flash, Fallback, FallbackIntact, SomethingToRun,
     Intact, Garbled, InState, manifest_valid, ReadsSound, MisreadAtMostOnce, IsHealthy
<1>8. CASE Decide
  BY <1>8 DEF Decide, Quiet, flash, Fallback, FallbackIntact, SomethingToRun, Intact,
     Garbled, InState, manifest_valid, ReadsSound, MisreadAtMostOnce, IsHealthy
<1> QED BY <1>1, <1>2, <1>3, <1>4, <1>5, <1>6, <1>7, <1>8 DEF Bootloader

(* The firmware erases B only while it is healthy itself and nothing else   *)
(* may be needed; what it stages there is itself.                           *)
LEMMA FallbackInFirmware ==
  ASSUME TypeOK, Steps, Downloads, Installs, Fallback, Firmware PROVE Fallback'
<1> USE OnePage, UpdateAssumption, StateNames
<1>1. CASE MarkPending
  BY <1>1 DEF MarkPending, Quiet, Fallback, FallbackIntact, SomethingToRun, Intact,
     Garbled, InState, manifest_valid, ReadsSound, MisreadAtMostOnce, IsHealthy
<1>2. CASE CrashUnhealthy
  BY <1>2 DEF CrashUnhealthy, Quiet, flash, Fallback, FallbackIntact, SomethingToRun,
     Intact, Garbled, InState, manifest_valid, ReadsSound, MisreadAtMostOnce
<1>3. CASE MarkHealthy
  BY <1>3 DEF MarkHealthy, Quiet, Misread, Fallback, FallbackIntact, SomethingToRun,
     Intact, Garbled, InState, manifest_valid, ReadsSound, MisreadAtMostOnce, IsHealthy,
     TypeOK
<1>4. CASE UpdateHealth
  BY <1>4 DEF UpdateHealth, Quiet, Misread, Fallback, FallbackIntact, SomethingToRun,
     Intact, Garbled, InState, manifest_valid, ReadsSound, MisreadAtMostOnce, IsHealthy,
     TypeOK
<1>5. CASE CompareB
  BY <1>5 DEF CompareB, Quiet, Misread, flash, Fallback, FallbackIntact, SomethingToRun,
     Intact, Garbled, InState, manifest_valid, ReadsSound, MisreadAtMostOnce, IsHealthy,
     TypeOK
<1>6. CASE StageErase
  BY <1>6 DEF StageErase, Quiet, Misread, Fallback, Installs, FallbackIntact,
     SomethingToRun, Garbled, Staging, InState, manifest_valid, ReadsSound,
     MisreadAtMostOnce, IsHealthy, TypeOK, Steps
<1>7. CASE StageWrite
  BY <1>7 DEF StageWrite, Quiet, Misread, Fallback, Installs, FallbackIntact,
     SomethingToRun, Garbled, Staging, InState, manifest_valid, ReadsSound,
     MisreadAtMostOnce, IsHealthy, TypeOK, Steps
<1>8. CASE CommitErase
  BY <1>8 DEF CommitErase, Quiet, Misread, Fallback, Installs, FallbackIntact,
     SomethingToRun, Garbled, Staging, InState, manifest_valid, ReadsSound,
     MisreadAtMostOnce, IsHealthy, TypeOK, Steps
<1>9. CASE CommitWrite
  <2>1. CASE Quiet
    <3>1. PICK i \in Images : header' = i /\ b = Whole(i)
      BY <1>9, <2>1 DEF CommitWrite, Quiet, Misread, TypeOK
    <3>2. PICK j \in Healthy : app = Whole(j)
      BY <1>9 DEF CommitWrite, Steps, Staging, IsHealthy
    <3>3. i \in Healthy /\ header' = i /\ b' = Whole(i)
      BY <1>9, <3>1, <3>2, WholeInjective DEF CommitWrite, Steps
    <3>4. IsHealthy'
      BY <1>9, <3>2 DEF CommitWrite, IsHealthy
    <3>5. /\ MisreadAtMostOnce => ~InState({REQUESTED, COPYING, TRIAL})
          /\ ReadsSound => ~Garbled
      BY <1>9 DEF CommitWrite, Installs, Staging, InState
    <3> QED BY <1>9, <2>1, <3>3, <3>4, <3>5, NamesAssumption DEF Fallback,
               FallbackIntact, SomethingToRun, Intact
  <2>2. CASE Misread
    BY <1>9, <2>2 DEF CommitWrite, Quiet, Misread, Fallback, FallbackIntact,
       SomethingToRun, InState, manifest_valid, ReadsSound, MisreadAtMostOnce,
       IsHealthy, TypeOK
  <2> QED BY <1>9, <2>1, <2>2 DEF CommitWrite
<1> QED BY <1>1, <1>2, <1>3, <1>4, <1>5, <1>6, <1>7, <1>8, <1>9 DEF Firmware

(* A download makes the journal forget the last update before it overwrites *)
(* the candidate.                                                           *)
LEMMA FallbackInUser ==
  ASSUME TypeOK, Steps, Downloads, Installs, Fallback, User PROVE Fallback'
<1> USE OnePage, UpdateAssumption, StateNames
<1>1. ASSUME NEW i \in Images, Begin(i) PROVE Fallback'
  BY <1>1 DEF Begin, Quiet, Misread, Disturb, Fallback, FallbackIntact, SomethingToRun,
     Garbled, InState, manifest_valid, ReadsSound, MisreadAtMostOnce, IsHealthy, TypeOK
<1>2. CASE Write
  BY <1>2 DEF Write, Quiet, Misread, Fallback, FallbackIntact, SomethingToRun, Intact,
     Garbled, InState, manifest_valid, ReadsSound, MisreadAtMostOnce, IsHealthy, TypeOK
<1>3. CASE Request
  BY <1>3 DEF Request, Fallback, FallbackIntact, SomethingToRun, Intact, Steps
<1>4. CASE Reboot
  BY <1>4 DEF Reboot, Quiet, flash, Fallback, FallbackIntact, SomethingToRun, Garbled,
     InState, manifest_valid, MisreadAtMostOnce
<1>5. CASE WiredFlash
  BY <1>5 DEF WiredFlash, Disturb, Fallback, FallbackIntact, SomethingToRun, Intact,
     Garbled, InState, manifest_valid, ReadsSound, MisreadAtMostOnce, IsHealthy
<1> QED BY <1>1, <1>2, <1>3, <1>4, <1>5 DEF User

(* A power cut within a write tears a page of what is being written, never  *)
(* of what it is written from.                                              *)
LEMMA FallbackInEnvironment ==
  ASSUME TypeOK, Steps, Downloads, Installs, Fallback, Environment PROVE Fallback'
<1> USE OnePage, UpdateAssumption, StateNames
<1>1. CASE PowerCut
  BY <1>1 DEF PowerCut, Disturb, flash, Fallback, FallbackIntact, SomethingToRun,
     Intact, Garbled, InState, manifest_valid, ReadsSound, MisreadAtMostOnce, IsHealthy
<1>2. CASE PowerCutWriting
  <2>0. misreads' = misreads
    BY <1>2 DEF PowerCutWriting, Disturb
  <2>1. CASE pc = "copy"
    BY <1>2, <2>1, <2>0 DEF PowerCutWriting, Steps, Fallback, FallbackIntact,
       SomethingToRun, Garbled, InState, manifest_valid, MisreadAtMostOnce
  <2>2. CASE pc = "restore"
    BY <1>2, <2>2, <2>0 DEF PowerCutWriting, Steps, Fallback, FallbackIntact,
       SomethingToRun, Intact
  <2>3. CASE pc = "promote"
    BY <1>2, <2>3, <2>0 DEF PowerCutWriting, Promotable, Fallback, FallbackIntact,
       SomethingToRun, Intact
  <2>4. CASE pc = "erase"
    BY <1>2, <2>4, <2>0 DEF PowerCutWriting, Steps, Fallback, Installs, FallbackIntact,
       SomethingToRun, Garbled, Staging, InState, manifest_valid, ReadsSound,
       MisreadAtMostOnce, IsHealthy
  <2>5. CASE pc = "store"
    BY <1>2, <2>5, <2>0 DEF PowerCutWriting, Steps, Fallback, Installs, FallbackIntact,
       SomethingToRun, Garbled, Staging, InState, manifest_valid, ReadsSound,
       MisreadAtMostOnce, IsHealthy
  <2>6. CASE pc \in {"commit", "descriptor"}
    BY <1>2, <2>6, <2>0 DEF PowerCutWriting, Steps, Fallback, Installs, FallbackIntact,
       SomethingToRun, Garbled, Staging, InState, manifest_valid, ReadsSound,
       MisreadAtMostOnce, IsHealthy
  <2>7. CASE pc = "health"
    BY <1>2, <2>7, <2>0 DEF PowerCutWriting, Fallback, FallbackIntact, SomethingToRun,
       Intact, InState, ReadsSound, MisreadAtMostOnce
  <2>8. CASE pc = "ready"
    BY <1>2, <2>8, <2>0 DEF PowerCutWriting, Steps, Fallback, FallbackIntact,
       SomethingToRun, Intact
  <2> QED BY <1>2, <2>1, <2>2, <2>3, <2>4, <2>5, <2>6, <2>7, <2>8 DEF PowerCutWriting
<1>3. CASE PowerCutRejecting
  BY <1>3 DEF PowerCutRejecting, Fallback, FallbackIntact, SomethingToRun, InState,
     ReadsSound, MisreadAtMostOnce, TypeOK, Steps
<1>4. CASE Settle
  BY <1>4 DEF Settle, flash, Fallback, FallbackIntact, SomethingToRun, Intact, Garbled,
     InState, manifest_valid, ReadsSound, MisreadAtMostOnce, IsHealthy
<1> QED BY <1>1, <1>2, <1>3, <1>4 DEF Environment

(* The bootloader leaves with an application that is complete, or in        *)
(* recovery.                                                                *)
LEMMA SoundInBootloader ==
  ASSUME TypeOK, UpdateInv, Bootloader PROVE Sound'
<1> USE OnePage, UpdateAssumption, StateNames
<1>1. CASE InstallStatus
  <2>1. CASE Quiet /\ pc' = "verify"
    BY <1>1, <2>1 DEF InstallStatus, Quiet, flash, UpdateInv, Sound, Intact, Garbled,
       InState, manifest_valid, ReadsSound, AppSteps
  <2>2. CASE Quiet /\ pc' = "promote" /\ (recovery' => Garbled)
    BY <1>1, <2>2 DEF InstallStatus, Quiet, flash, UpdateInv, Sound, Intact, Garbled,
       InState, manifest_valid, ReadsSound, AppSteps
  <2>3. CASE Misread
    <3>1. ~ReadsSound'
      BY <2>3 DEF Misread, ReadsSound, TypeOK
    <3> QED BY <3>1 DEF Sound
  <2>4. recovery' = (~manifest_valid /\ journal.state # DOWNLOADING) => (recovery' => Garbled)
    BY DEF Garbled
  <2> QED BY <1>1, <2>1, <2>2, <2>3, <2>4 DEF InstallStatus
<1>2. CASE InstallVerify
  BY <1>2 DEF UpdateInv, InstallVerify, Misread, Sound, InState, manifest_valid,
     ReadsSound, AppSteps, TypeOK, Journal, Steps, Downloads, CommittedIsWhole
<1>3. CASE InstallPage
  BY <1>3 DEF UpdateInv, InstallPage, Misread, Sound, InState, manifest_valid,
     ReadsSound, AppSteps, TypeOK, Steps
<1>4. CASE InstallFinish
  <2>1. Complete(app)
    <3>1. app = Whole(journal.image) /\ journal.image # NoImage
      BY <1>4 DEF InstallFinish, UpdateInv, Steps, Downloads, CommittedIsWhole, InState,
         manifest_valid
    <3> QED BY <3>1 DEF Complete, TypeOK, Journal
  <2>2. Complete(app)'
    BY <1>4, <2>1 DEF InstallFinish
  <2>3. CASE Quiet /\ app = Whole(journal.image)
    BY <1>4, <2>2, <2>3 DEF InstallFinish, Misread, UpdateInv, Sound, ReadsSound,
       TypeOK, Steps
  <2>4. CASE ~(Quiet /\ app = Whole(journal.image))
    <3>1. ~ReadsSound'
      BY <1>4, <2>4 DEF InstallFinish, UpdateInv, Steps, Downloads, CommittedIsWhole,
         Misread, ReadsSound, TypeOK, InState
    <3> QED BY <3>1 DEF Sound
  <2> QED BY <2>3, <2>4
<1>5. CASE Promote
  <2>1. CASE Misread
    <3>1. ~ReadsSound'
      BY <2>1 DEF Misread, ReadsSound, TypeOK
    <3> QED BY <3>1 DEF Sound
  <2>2. ReadsSound => /\ ~InState({COPYING})
                      /\ recovery => Garbled /\ Intact
                      /\ Garbled => recovery
    BY <1>5 DEF Promote, UpdateInv, Sound, Installs, Fallback, Unsettled, InState
  <2>3. CASE ~Promotable /\ Quiet /\ pc' = "decide" /\ UNCHANGED <<app, recovery>>
    <3>1. ReadsSound => ~recovery /\ Complete(app)
      BY <1>5, <2>2, <2>3 DEF UpdateInv, Sound, Promotable, Waiting, Intact
    <3>2. ReadsSound' => ~recovery' /\ Complete(app)'
      BY <2>3, <3>1 DEF Quiet, ReadsSound
    <3> QED BY <2>3, <3>2 DEF Sound
  <2>4. CASE /\ Promotable /\ app = b /\ Quiet
             /\ pc' = "decide" /\ recovery' = FALSE /\ UNCHANGED app
    <3>1. Complete(app)
      BY <2>4 DEF Promotable, Complete, TypeOK
    <3>2. Complete(app)'
      BY <2>4, <3>1
    <3> QED BY <2>4, <3>2 DEF Sound
  <2>5. CASE Promotable /\ app # b /\ Quiet /\ pc' = "restore" /\ UNCHANGED recovery
    <3>1. ReadsSound => Intact /\ (tally = Threshold \/ Garbled)
      BY <1>5, <2>2, <2>5 DEF Promotable, Waiting, Intact, TypeOK
    <3>2. ReadsSound' => Intact' /\ (tally' = Threshold \/ Garbled')
      BY <1>5, <2>5, <3>1 DEF Promote, Quiet, ReadsSound, Intact, Garbled,
         manifest_valid
    <3> QED BY <2>5, <3>2 DEF Sound, AppSteps
  <2> QED BY <1>5, <2>1, <2>3, <2>4, <2>5 DEF Promote
<1>6. CASE RestorePage
  BY <1>6 DEF UpdateInv, RestorePage, Quiet, Misread, Sound, Intact, Garbled,
     manifest_valid, ReadsSound, AppSteps, TypeOK, Steps
<1>7. CASE RestoreDone
  <2>1. ReadsSound => app = Whole(header) /\ Complete(app)
    BY <1>7 DEF RestoreDone, UpdateInv, Steps, Intact, Complete, TypeOK
  <2>2. ReadsSound' => ~recovery' /\ Complete(app)'
    BY <1>7, <2>1 DEF RestoreDone, Quiet, flash, ReadsSound
  <2> QED BY <1>7, <2>2 DEF RestoreDone, Sound
<1>8. CASE Decide
  <2>1. ReadsSound => ~recovery /\ Complete(app)
    BY <1>8 DEF Decide, UpdateInv, Sound
  <2>2. ReadsSound => app[1] \notin {Blank, Torn}
    BY <2>1, WholeIs, NamesAssumption DEF Complete
  <2>3. ReadsSound' => pc' = "started" /\ Complete(app)'
    BY <1>8, <2>1, <2>2 DEF Decide, Quiet, flash, ReadsSound
  <2> QED BY <1>8, <2>3 DEF Sound
<1> QED BY <1>1, <1>2, <1>3, <1>4, <1>5, <1>6, <1>7, <1>8 DEF Bootloader

(* The firmware does not write its own flash.                               *)
LEMMA SoundInFirmware ==
  ASSUME TypeOK, UpdateInv, Firmware PROVE Sound'
<1> USE OnePage, UpdateAssumption, StateNames
<1>1. CASE MarkPending
  BY <1>1 DEF MarkPending, Quiet, Sound, ReadsSound, AppSteps, UpdateInv
<1>2. CASE CrashUnhealthy
  BY <1>2 DEF CrashUnhealthy, Quiet, Restart, flash, Sound, ReadsSound, AppSteps,
     UpdateInv
<1>3. CASE MarkHealthy
  BY <1>3 DEF MarkHealthy, Quiet, Misread, Sound, ReadsSound, AppSteps, TypeOK,
     UpdateInv
<1>4. CASE UpdateHealth
  BY <1>4 DEF UpdateHealth, Quiet, Misread, Sound, ReadsSound, AppSteps, TypeOK,
     UpdateInv
<1>5. CASE CompareB
  BY <1>5 DEF CompareB, Quiet, Misread, flash, Sound, ReadsSound, AppSteps, TypeOK,
     UpdateInv
<1>6. CASE StageErase
  BY <1>6 DEF StageErase, Quiet, Misread, Sound, ReadsSound, AppSteps, TypeOK, UpdateInv
<1>7. CASE StageWrite
  BY <1>7 DEF StageWrite, Quiet, Misread, Sound, ReadsSound, AppSteps, TypeOK, UpdateInv
<1>8. CASE CommitErase
  BY <1>8 DEF CommitErase, Quiet, Misread, Sound, ReadsSound, AppSteps, TypeOK,
     UpdateInv
<1>9. CASE CommitWrite
  BY <1>9 DEF CommitWrite, Quiet, Misread, Sound, ReadsSound, AppSteps, TypeOK,
     UpdateInv
<1> QED BY <1>1, <1>2, <1>3, <1>4, <1>5, <1>6, <1>7, <1>8, <1>9 DEF Firmware

(* Nor does a user, but by a flash over USB, which is complete.             *)
LEMMA SoundInUser ==
  ASSUME TypeOK, UpdateInv, User PROVE Sound'
<1> USE OnePage, UpdateAssumption, StateNames
<1>1. ASSUME NEW i \in Images, Begin(i) PROVE Sound'
  BY <1>1 DEF Begin, Quiet, Misread, Disturb, Sound, ReadsSound, AppSteps, TypeOK,
     UpdateInv
<1>2. CASE Write
  BY <1>2 DEF Write, Quiet, Misread, Sound, ReadsSound, AppSteps, TypeOK, UpdateInv
<1>3. CASE Request
  BY <1>3 DEF Request, Quiet, Misread, Sound, ReadsSound, AppSteps, TypeOK, UpdateInv
<1>4. CASE Reboot
  BY <1>4 DEF Reboot, Quiet, Restart, flash, Sound, ReadsSound, AppSteps, UpdateInv
<1>5. CASE WiredFlash
  <2>1. Complete(app)'
    BY <1>5 DEF WiredFlash, Complete
  <2> QED BY <1>5, <2>1 DEF WiredFlash, Restart, Sound
<1> QED BY <1>1, <1>2, <1>3, <1>4, <1>5 DEF User

(* A page that is torn is one of an application the bootloader is about to  *)
(* write again.                                                             *)
LEMMA SoundInEnvironment ==
  ASSUME TypeOK, UpdateInv, Environment PROVE Sound'
<1> USE OnePage, UpdateAssumption, StateNames
<1>1. CASE PowerCut
  BY <1>1 DEF PowerCut, Disturb, Restart, flash, Sound, Intact, Garbled, InState,
     manifest_valid, ReadsSound, AppSteps, UpdateInv
<1>2. CASE PowerCutWriting
  <2>0. misreads' = misreads /\ pc' = "install" /\ tally' = tally
    BY <1>2 DEF PowerCutWriting, Disturb, Restart
  <2> SUFFICES ASSUME ReadsSound
               PROVE  \/ Complete(app)'
                      \/ InState({COPYING})'
                      \/ (Intact /\ (tally = Threshold \/ Garbled))'
    BY <2>0 DEF Sound, ReadsSound, AppSteps
  <2>1. CASE pc = "copy"
    BY <1>2, <2>1 DEF PowerCutWriting, UpdateInv, Steps, InState, manifest_valid
  <2>2. CASE pc = "restore"
    BY <1>2, <2>2, <2>0 DEF PowerCutWriting, UpdateInv, Steps, Sound, Intact, Garbled,
       manifest_valid
  <2>3. CASE pc = "promote"
    <3>1. Intact /\ (tally = Threshold \/ Garbled)
      BY <1>2, <2>3 DEF PowerCutWriting, UpdateInv, Sound, Promotable, Waiting, Intact,
         TypeOK
    <3> QED BY <1>2, <2>0, <2>3, <3>1 DEF PowerCutWriting, Intact, Garbled,
               manifest_valid
  <2>4. CASE pc \in AppSteps
    <3>1. Complete(app) /\ app' = app
      BY <1>2, <2>4 DEF PowerCutWriting, UpdateInv, Sound, AppSteps
    <3> QED BY <3>1
  <2> QED BY <1>2, <2>1, <2>2, <2>3, <2>4 DEF PowerCutWriting, AppSteps
<1>3. CASE PowerCutRejecting
  BY <1>3 DEF PowerCutRejecting, Sound, ReadsSound, TypeOK
<1>4. CASE Settle
  BY <1>4 DEF Settle, flash, Sound, Intact, Garbled, InState, manifest_valid,
     ReadsSound, UpdateInv
<1> QED BY <1>1, <1>2, <1>3, <1>4 DEF Environment

(* A keyboard flashed over USB: nothing is committed, and it runs.          *)
LEMMA InitInv == Init => UpdateInv
<1> SUFFICES ASSUME Init PROVE UpdateInv
  OBVIOUS
<1>1. IsHealthy /\ Complete(app)
  BY UpdateAssumption DEF Init, IsHealthy, Complete
<1> QED BY <1>1, StateNames DEF Init, NoDownload, UpdateInv, Steps, Downloads,
           CommittedIsWhole, Installs, Garbled, Fallback, FallbackIntact,
           SomethingToRun, Sound, InState

(* A step that leaves the model's variables alone leaves the invariant.     *)
LEMMA StutterInv == UpdateInv /\ UNCHANGED vars => UpdateInv'
  BY DEF vars, flash, UpdateInv, Steps, Downloads, CommittedIsWhole, Installs,
     Unsettled, Garbled, Fallback, FallbackIntact, SomethingToRun, IsHealthy, Intact,
     Sound, InState, manifest_valid, ReadsSound, MisreadAtMostOnce

(* Every step of the processor, its user and its power keeps the invariant. *)
LEMMA StepInv == TypeOK /\ UpdateInv /\ [Next]_vars => UpdateInv'
<1> SUFFICES ASSUME TypeOK, UpdateInv, Next PROVE UpdateInv'
  BY StutterInv
<1>1. Steps'
  BY StepsInBootloader, StepsInFirmware, StepsInUser, StepsInEnvironment DEF Next,
     UpdateInv
<1>2. Downloads'
  BY DownloadsInBootloader, DownloadsInFirmware, DownloadsInUser,
     DownloadsInEnvironment DEF Next, UpdateInv
<1>3. Installs'
  BY InstallsInBootloader, InstallsInFirmware, InstallsInUser,
     InstallsInEnvironment DEF Next, UpdateInv
<1>4. Fallback'
  BY FallbackInBootloader, FallbackInFirmware, FallbackInUser,
     FallbackInEnvironment DEF Next, UpdateInv
<1>5. Sound'
  BY SoundInBootloader, SoundInFirmware, SoundInUser, SoundInEnvironment DEF Next
<1> QED BY <1>1, <1>2, <1>3, <1>4, <1>5 DEF UpdateInv

(* The inductive invariant: what the processor is doing fits what is in the *)
(* flash.                                                                   *)
THEOREM UpdateInvHolds == Spec => [](TypeOK /\ UpdateInv)
<1>1. Init => TypeOK /\ UpdateInv
  BY InitTypes, InitInv
<1>2. TypeOK /\ UpdateInv /\ [Next]_vars => (TypeOK /\ UpdateInv)'
  BY StepTypes, StepInv
<1> QED BY <1>1, <1>2, PTL DEF Spec

(* While the flash reads back what is in it, the bootloader only ever       *)
(* starts a complete image, whenever and however often the power is cut,    *)
(* for all images and sizes (apx_update_install, ab_promote_check).         *)
THEOREM NeverJumpsUnchecked == Spec => []NeverUncheckedJump
<1>1. UpdateInv => NeverUncheckedJump
  BY DEF UpdateInv, Sound, NeverUncheckedJump
<1> QED BY <1>1, UpdateInvHolds, PTL

(* What an undecided update rests on is whole, the image to install and the *)
(* fallback, as long as the flash was misread at most once                  *)
(* (apx_update_request, ab_autostage_thread).                               *)
THEOREM UpdateStaysWhole == Spec => [](MisreadAtMostOnce => UpdateIsWhole)
<1>1. UpdateInv => (MisreadAtMostOnce => UpdateIsWhole)
  BY DEF UpdateInv, Downloads, Fallback, UpdateIsWhole
<1> QED BY <1>1, UpdateInvHolds, PTL

(* There is always a healthy image, in the flash of the application or as   *)
(* the fallback, as long as the flash was misread at most once; and while   *)
(* it never was, the keyboard finds the image without a cable               *)
(* (ab_promote_check).                                                      *)
THEOREM KeyboardCanRun == Spec => [](MisreadAtMostOnce => CanAlwaysRun)
<1>1. UpdateInv => (MisreadAtMostOnce => CanAlwaysRun)
  BY DEF UpdateInv, Fallback, Sound, CanAlwaysRun, NeverNeedsCable
<1> QED BY <1>1, UpdateInvHolds, PTL

(* What the journal asks the bootloader to install is the whole image it    *)
(* names, however often the flash was misread (apx_update_request).         *)
THEOREM InstalledWasVerified == Spec => []CommittedIsWhole
<1>1. UpdateInv => CommittedIsWhole
  BY DEF UpdateInv, Downloads
<1> QED BY <1>1, UpdateInvHolds, PTL

(* Only UpdateHealth records an update as healthy, and only when it runs.   *)
LEMMA HealthyStep ==
  TypeOK /\ UpdateInv /\ [Next]_vars =>
    [journal'.state = HEALTHY /\ journal.state # HEALTHY /\ pc' # "install"
       => journal.image \in Healthy]_vars
<1> SUFFICES ASSUME TypeOK, UpdateInv, Next,
                    journal'.state = HEALTHY, journal.state # HEALTHY, pc' # "install"
             PROVE  journal.image \in Healthy
  OBVIOUS
<1> USE StateNames
<1>1. ASSUME Bootloader PROVE FALSE
  BY <1>1 DEF Bootloader, InstallStatus, InstallVerify, InstallPage, InstallFinish,
     Promote, RestorePage, RestoreDone, Decide, StateFails, flash, TypeOK, Journal
<1>2. CASE UpdateHealth
  <2>1. app = Whole(journal.image)
    BY <1>2 DEF UpdateHealth, StateFails, TypeOK, Journal
  <2>2. PICK i \in Healthy : app = Whole(i)
    BY <1>2 DEF UpdateHealth, UpdateInv, Steps, IsHealthy
  <2> QED BY <2>1, <2>2, WholeInjective
<1>3. ASSUME Firmware, ~UpdateHealth PROVE FALSE
  BY <1>3 DEF Firmware, MarkPending, CrashUnhealthy, MarkHealthy, CompareB, StageErase,
     StageWrite, CommitErase, CommitWrite, flash
<1>4. ASSUME User PROVE FALSE
  BY <1>4 DEF User, Begin, Write, Request, Reboot, WiredFlash, StateFails, flash,
     TypeOK, Journal
<1>5. ASSUME Environment PROVE FALSE
  BY <1>5 DEF Environment, PowerCut, PowerCutWriting, PowerCutRejecting, Settle,
     Restart, flash
<1> QED BY <1>1, <1>2, <1>3, <1>4, <1>5 DEF Next

(* An update is recorded as healthy only when it is: whatever runs in its   *)
(* place never speaks for it (apx_update_health).                          *)
THEOREM HealthIsEarned == Spec => HealthyIsEarned
  BY HealthyStep, UpdateInvHolds, PTL DEF Spec, HealthyIsEarned
=============================================================================
