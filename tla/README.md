# Apex Pro Mini Wireless: TLA+ models and proofs

This project models the firmware of a wireless keyboard (nRF52833, ZMK) and of its
2.4 GHz USB dongle: the loop that talks to the scanner of the key matrix, the radio
protocol, the delivery of key reports and of the game controller to the USB host, the
maintenance traffic that shares the radio, what restarts the keyboard, and the firmware
update with its fallback; and parts that stand alone: pairing, the LEDs, the flash and the
crash records in it, the charger, and the range a key's depth is measured in.  TLC checks
the models on small instances.  TLAPS proves every safety property the runs
check, for all values of the constants: nothing is lost, repeated or reordered between the
keyboard and the host, the handshake and the maintenance stream implement what they promise,
nonces are fresh, the ends find each other's channel in time, an update never leaves the
keyboard without an image it can run, the scanner's keys are known, the stick never goes
back, and what the LEDs, the flash, the charger, a key's range, pairing and the watchdog
rest on.
Liveness stays with TLC; section 5 has the list.

Paths below are relative to the repository's root.

## 1. The system

    STM32 scanner
         | SPI (spim_g4b)      external NOR (spinor_g4b)
         v                           | the same bus
      scanner loop (link_g4b) -------+--- settings
         |          |
         v          v key depths
    kscan -> ZMK   gamepad_g4b                              dongle
         |          |                                       ------
    apex_radio_queue_report                     receiver_hid_poll, gamepad, usb -> USB host
         | input_queue                                  ^ delivery (struct apex_delivery_rx)
         v                                              |
      radio thread (probe_thread)  <== packets ==>  radio thread (probe_thread)
         ^                                              ^
         | apex_shell_link, stream            stream, apex_shell_link
     shell_radio_g4b, studio_radio_g4b        keyboard_shell, update, studio_bridge
         |
     update_g4b -> NOR journal -> bootloader (apx_update_install, ab_promote_check)
                                      ^ boot tally, fallback B (ab_rollback_g4b)
     wdt_g4b, mode_g4b, radio_g4b: watchdog, mode switch, owner of the radio

| Component | Source | State | Operations | Interacts through |
|---|---|---|---|---|
| scanner loop | `apex-zmk-g4b/src/link_g4b.c` | last bitmap, cadence (`s3_mode3_...`), `s3_cfg_dirty`, requests of the shell | read and ingest reports, slow down and back, retry, power-cycle, replay 59 frames, apply settings | SPI; ATTN; the keymap's and the shell's callbacks |
| bus and NOR | `spim_g4b.c`, `spinor_g4b.c` | recursive lock, replay gate | lock, replay begin and end, program and erase | the scanner loop, writers of settings |
| key driver | `kscan_g4b.c` | previous matrix, enabled | ingest, enable | the scanner loop, ZMK |
| switch settings | `link_g4b.c` | depth, reset gap, rapid trigger, overrides of keys | step, toggle, cycle, set, load | keymap, shell, flash; frames to the scanner |
| report queue | `radio/src/apex_input.c` | 8 frames, latest report of each kind, next sequence, online | push, session, disconnect, ack | `input_lock`, shared by the system work queue and the radio thread |
| delivery window | `radio/src/apex_delivery.c` | receiver: accepted, completed, buffered frames; sender: sent, accepted, completed, free | receive, next, complete, status, apply, batch | packets INPUT, INPUT_BATCH, INPUT_ACK |
| radio thread | `radio/src/apex_radio_probe.c` | connection, `delivery_tx`, `rx_sequence`, `resync`, prepared packets, last valid packet | new session, time out, prepare, send, receive, reply | one DMA buffer per radio; callbacks into `hid.c`; `resync` set by every other thread |
| handshake | `radio/src/apex_connection.c` | state, two nonces, session key | start, emit, accept | HELLO, CHALLENGE, CONFIRM, READY |
| packets | `radio/src/apex_packet.c` | counters, replay window of 64 | encode, decode | every message |
| hopping | `radio/src/apex_hop.c`, `apex_hop_link.c` | map, anchor, sync counters | map, sync, position, channel | control packets, the radio's clock |
| gamepad | `apex-zmk-g4b/src/gamepad_g4b.c`, `dongle/src/gamepad.c`, `usb.c` | the current position, its age and counter; the interface present or not | publish, poll, expire, reconfigure USB | unacknowledged packets; the dongle's USB device |
| dongle HID | `dongle/src/hid.c` | `delivery`, `release_mask`, `delivered_sequence`, the transfer in flight, `generation`, protocol | release, deliver, poll, submit, USB completion | `lock`, USB callbacks, `apex_radio_request_session` |
| stream, shell link | `radio/src/apex_stream.c`, `apex_shell_link.c` | one frame and one sequence each way; generation | put, get, pack, receive; reset, send, read | `lock`; SHELL packets |
| commands, upload | `dongle/src/keyboard_shell.c`, `update.c` | progress of one command or upload | send parts, read results, cancel | shell link; USB |
| Studio bridge | `dongle/src/studio_bridge.c` | byte rings, `last_activity` | forward, read | shell link; CDC interrupt |
| keyboard shell, Studio | `apex-zmk-g4b/src/shell_radio_g4b.c`, `studio_radio_g4b.c` | the command assembled so far | read, execute, answer | shell link |
| update journal | `update/apex_update.c` | descriptor with one-way state bits, candidate image | begin, write, request, install, health | NOR flash; internal flash |
| bootloader restore | `bootloader/apex_pro_mini_wl/ab_promote.c` | GPREGRET only | install, wait or restore B, jump | NOR flash; internal flash |
| tally, fallback | `apex-zmk-g4b/src/ab_rollback_g4b.c` | boot tally, image B and its descriptor | mark pending, mark healthy, stage | NOR flash |
| watchdog, mode | `wdt_g4b.c`, `mode_g4b.c`, `radio_g4b.c` | times of heartbeat and sample, debounced position, override, owner of the radio | sample, feed, restart | heartbeats of the scanner loop; Bluetooth |
| pairing | `radio/src/apex_pair_shell.c`, `pair_g4b.c`, `pair_store.c`, `tools/dongle.py` | the record received so far and its deadline, the stored bond | receive, time out, store, clear | USB shell; read by the radio thread when it starts |
| charger | `twi_g4b.c`, `battery_bq_g4b.c`, `apex_control_g4b.c` | the chip's registers and its watchdog, the saved override | configure, limit, sample, stop and resume | TWI behind a mutex per transfer; settings, scanner thread, shell, ZMK's battery work |
| sleep | `sleep_g4b.c`, `saadc_g4b.c` | wake latch | enter System OFF | the scanner loop, the radio's pause |
| lighting | `rgb_g4b.c`, `rgb_fx_g4b.c`, `rgb_overlay_g4b.c`, `led_strip_g4b.c` | staged frame, pending mark, fade, blanking, rail; what each effect remembers; flashes | stage, show, fade, blank, bring up; render, react to a key | scanner thread, ZMK's work queue, threads of the keymap, shell; SPIM2 |
| coredump | `coredump_g4b.c` | a ring of crash records, its cursor | scan, write | the fault handler, over whatever the chip was doing |
| shell, HID control | `apex_shell_g4b.c`, `apex_control_g4b.c` | none of their own | parse, call, print | settings, requests, staging |
| legacy updater, tools | `updater_g4b.c`, `tools/`, `installer/` | | | |

`PROJECT.json` says of each what is modelled, or why it is not.

### What is hard

* Several threads on each side share the queue, the buffer and the stream, and drop the
  lock between deciding and acting (batch chosen, then sent; report read, then submitted).
* Packets and acknowledgements are lost; each end starts a new session on its own, while
  the other still believes in the old one and old packets are still in its buffer.
* USB completes a transfer of the past after the reports it carried were given up.
* Sequences end at a reserved value; queue, buffer and stream slot are small and overflow.
* Four users share one stream, and any of them may give up while its answer is on the way.
* Packets are encoded before it is their turn, by two users of one counter.
* Keys, settings and requests change between any two exchanges of the scanner loop, every
  exchange may fail with or without effect, and a replay of 59 frames must not be cut.
* The position of a stick is never acknowledged, and turning the controller on or off takes
  down the USB device and with it the session that asked for it.
* Power may fail at and inside every flash write, and flash words only lose bits; a fault may
  come while the chip is busy with somebody's erase.
* The frame of the LEDs has writers on two threads, and three states (fade, blanking, rail)
  say whether it is seen.
* The charger is written by four threads, and undoes their work by itself if armed.
* What a piece of code measured is saved, restored, cut in two, or found by a late timer.

### What makes it correct

* No report is lost, repeated or reordered in a session; the host never keeps a key down
  that the keyboard released; after the disturbances end it shows the keyboard's reports.
* The ends are never in two different sessions that both of them take for current.
* Ends that share a session listen and send on one channel, and find each other again.
* No nonce is used twice, no packet is delivered twice, and what leaves is current.
* ZMK holds the keys that are down; a slow or misconfigured scanner does not stay so.
* The stick never goes back, rests when the user does, and the interface follows the switch.
* A keyboard that hangs is restarted in time, and no other.
* Commands are executed whole and once, and every answer goes to who asked.
* The LEDs show what was staged last and follow what is wanted; a flash or a fade ends.
* The flash keeps the settings and the last crash; the charger its limits and its band.
* A key's range is what was measured; a pair that was reported is one.
* Some healthy image can always be started, an update is decided, and no incomplete image
  is started.

## 2. Modules

`Delivery` EXTENDS `InputQueue`; `RadioInput` EXTENDS `Delivery`; `PacketLink` EXTENDS
`Delivery` and `Packet`; `ShellLink` EXTENDS `Stream`; `RadioInput` and `Handshake` both
implement `Sessions`; `ShellLink` implements `Channel` twice.  An MC module only extends a
specification, except `MCParts`, which composes eight; the `.cfg` files give the constants.

* **`InputQueue`, `Delivery`** are the functions of `apex_input.c` and `apex_delivery.c` as
  operators on records.  A report is its sequence, kind and data.
* **`RadioInput`** is both ends.  `Publish` and `Select` are the system work queue,
  `Kbd...` the keyboard's radio thread, `Rcv...` the receiver's, `Poll...` its main loop,
  `TransferDone`, `TransferFails`, `IfaceReady` and `SetProtocol` the USB stack.  A step
  ends wherever a thread releases a lock or hands over a packet: `RcvReceive`,
  `RcvDeliver` (one report of a batch at a time) and `RcvReply` are three steps, as are
  `PollRead` and `PollSubmit`.  `toRcv` and `toKbd` are the DMA buffers, so a packet meets
  a busy receiver and is lost.  `hid.c` compares `generation` with a copy; the model marks
  the copy stale instead of counting.  `host` is what the USB host acts on.
* **`Sessions`** is the promise of the handshake: the receiver opens a session, the
  keyboard can only follow into the one it was last offered.  **`Handshake`** has the four
  messages, both state machines, repetition, timeouts and the reuse of DMA buffers.
* **`Packet`** is `apex_packet.c`: the session record with its two counters and the replay
  window, encoding and decoding.  **`PacketLink`** is what the radio threads do with it:
  `KbdPrepare` and `RcvPrepare` encode reports and acknowledgements ahead of time, polls
  take counters in between (the clock's ahead of reports that are due), a prepared packet
  leaves only while it is the next one and says what would be said now.  The receiver
  acknowledges (`RcvAcknowledge`, which uses up what it prepared) or answers a shell or clock
  packet (`RcvAnswer`, which does not).  The radio may refuse a packet that was encoded, at
  either end (`Refused`, the -EAGAIN of a channel or a deadline that passed).  Its air reorders
  and repeats, which the one-slot buffers of `RadioInput` cannot.  Its histories
  (`sealed`, `taken`) keep only what an end may still meet.
* **`HopLink`** has both radios in time: `kbd` and `rcv` hold what `connection`, `hop_link`
  and `last_valid` say about channel and clock.  One step is a slot of 20 ms with the
  exchange the keyboard's state calls for (`Hello`, `Confirm`, `OfferMap`, `Exchange`, each
  answered, heard but not answered, or lost), after which both clocks advance (`Passes`).
  A timeout or an expired clock stops time until the end has started over.
* **`Gamepad`** goes from the depth of a key to the host: `Publish` and `SampleAges`
  (keyboard), `Poll` and `Receive` over an air that reorders, `PadSubmit`, `PadDone` and
  `PadExpires` (`gamepad.c`), `ReconfigureStart`, `ReconfigureEnd` and `Configured`
  (`usb.c`).  The session is its outcome, `up`.
* **`Scanner`** is the loop of `s3_run_keyboard` with the driver and the flash writers that
  share its bus.  `pc` names the place of the loop, a step ends with each exchange, each
  reading of ATTN and each use of the lock; `stm` is the scanner as the code describes it,
  running or stopped.  A frame of the shell (`RawFrame`) may do to it whatever a frame can,
  0x01, 0x02 and 0x32 excepted; a replay ends at the first answer that is not the recorded one
  (`Expected`), so one that meets a running scanner ends at 20 01 01, and one that meets a key
  held ends at its last frame.  `meddled` remembers that a raw 20 03 slowed the scanner.
  **`Actuation`** has the settings themselves and the thresholds computed from them.
* **`Upkeep`** is the thread of the watchdog, which also reads the mode switch, with what
  the two may restart: one `Round` a second, `Heartbeat` by the scanner loop, `Bite`,
  `ModeGate` (a switch that crosses to or from the dongle), `StandDown` (Bluetooth gives
  the radio away).
* **`Stream`** is `apex_stream.c`; **`Channel`** is the sequence of frames a stream
  promises; **`ShellLink`** has the threads that use it on both ends: the dongle's shell
  (a command or an upload, `job`), the bridge, the keyboard's shell and its Studio RPC.
* **`FirmwareUpdate`** is one processor that runs the bootloader (`pc` from `install` to
  `decide`) and then the firmware.  A page is a page of an image, `Blank` or `Torn`;
  `PowerCut` falls between steps and `PowerCutWriting` inside a write, and `Misread` is a
  flash operation that fails.

* **`Lighting`** is the way of a frame to the controller: the underglow's work queue and the
  effect engine stage halves of it, the loop of the scanner thread (`at`) fades, ticks,
  flushes and serves the shell's requests; the controller forgets with its supply.
  **`Overlay`** is what is painted over a frame: flashes in slots, the progress of an update,
  the legend of Fn.  **`Effects`** is what an effect keeps (glow, rings, level, window) and
  what it asks of one channel, with the remainder of the dithering; chance is a choice.
* **`NorFlash`** is the chip with its commands and WIP, the provisioning of the settings,
  their writes, and the fault handler with its ring of records.  A sector is blank, torn,
  the vendor's, settings, the marker or a record.
* **`Charger`** is the chip on its own wire and the four threads that write it, one transfer
  a step.  **`KeyDepth`** is one key: the shared filter, the learned range, its saving in two
  reads, and the axis.
* **`Pairing`** is `pair_devices` of the host tool, the pieces of a record on two wires, the
  receive with its timer on each device, and the two stores.
* **`MCParts`** runs the last seven and `HopLink` in one model: a behaviour is one of one
  part, chosen at the start, while the others rest.  They share no state the models keep, so
  their products would show nothing more.

The eight modules ending in `Proofs` extend these with theorems (`PartsProofs` extends
`MCParts` and has a section for each part).  `PROJECT.json` maps every
definition to the lines it stands for.

## 3. Runs

| Run | Shows | Bounds |
|---|---|---|
| `radio_input` | reports are delivered in order, once, within the receiver's room; releases come before the reports of a new session; the host never keeps a stuck key | queue 3, buffer 2, sequences to 4, batch 2, two key reports, one media report; unbounded disturbances |
| `radio_input_live` | the host converges | queue 2, buffer 1, 3 disturbances |
| `handshake` | `Handshake` implements `Sessions`; both ends end in one session | five nonces, unbounded disturbances |
| `packet_link` | no nonce is used twice, no packet delivered twice, packets encoded ahead are current when they leave, spent counters lead to a new session | counters to 4, window 2, two sessions, two packets under way, one disturbance |
| `gamepad` | the stick never goes back and comes to rest; the USB interface follows the switch | two positions, counters to 2, two packets under way, three switches, one failure |
| `scanner` | keys, cadence and settings agree with the scanner, which comes back to full speed; no flash write inside a replay | one key; two failing exchanges, two changes of the matrix and one wish (setting, reset, raw frame, power, restart), or one, one and two |
| `actuation` | a release point may lie above its press point (expected violation) | one key, five depths |
| `parts` | one invariant or two for each of eight parts, see below | below |
| `shell_link` | both directions implement `Channel`; commands whole, executed once, answers not confused | two frames, sequence to 2, one loss, one timeout, with Studio |
| `shell_link_live` | a job ends, a command ends with its answer | sequence to 6, three losses, no Studio |
| `update` | a whole image is always started, the fallback is kept, every update is decided | two pages, three images, five power cuts or commands, one failing flash operation |
| `update_jump` | a failed installation is started unchecked (expected violation) | threshold 2 |

Properties that say one thing about one part of the system are checked under one name:
`WindowKept` (types, credit, nothing refused), `NothingMixed` (nothing refused inside a
session, replies and commands whole and with their owner), `JobsEnd`, `UpdateIsWhole` (the
fallback is intact, what is committed is whole), `CanAlwaysRun` (an image can be started,
without a cable), `UpdateEnds`.

The properties of `parts`:

| Property | Says | Bounds |
|---|---|---|
| `SameChannel`, `ReconnectsInTime` | ends of one session are on one channel; after 660 ms without trouble they hop together, from any situation | two schedules that differ in every slot, slot numbers to 12, unbounded disturbances |
| `ArrayIsCurrent` | when nothing is pending the controller shows what was staged last, with the gains set last | two halves of two values, two gains, one request |
| `LightFollowsWant` | after one turn and a ramp the lamp is lit, or blanked with its bus parked | ramps of 1 and 2 turns |
| `OverlayIsCurrent` | the keys toggled last flash, once each; when all is over the array shows the effect alone | three keys, two slots, flashes of two ticks |
| `EffectsFade` | glow and rings end in 255 frames and levels in the time promised; the window of a key is not inside out; dithering gives what was asked for to within a code, and is never sent more than 255 | two LEDs, two touches, four frames, fade of three, full brightness |
| `FlashIsKept` | the record found is the last one written whole, settings stay | two sectors, ring of two, sequence to 3, four crashes, one failing command |
| `ChargeIsBounded` | once configured, the limits are the ones written last; the cell stays in its band | one limit of the user, two troubles, one command |
| `DepthIsKept` | the range lies within what was measured, a saved one is trusted after a restart, the axis does not jitter | three readings, seven samples, one restart |
| `PairIsKept` | both stores hold the pair that was reported; only a receive whose time is over is late | two pieces, two runs, three troubles |

*Why the bounds are enough.*  Queue, buffer and batch have every state relative to one
another that the sizes 8, 8 and 5 of the code have: queue longer than the buffer, buffer
longer than one packet, batch equal to the buffer, each full and empty; the sequence ends
inside the run.  The theorems remove these bounds for the window.  A session number is
reused when nothing refers to it any more, so any number of sessions follow each other.
In `packet_link` four counters see every order of a prepared packet, a poll and an
acknowledgement, packets older than the window, and the end of the counters; the theorems
hold without these bounds.
In `HopLink`, 13 slots reach past the holdover and the timeout after the start at slot 5,
and the number's end (the end of `UINT32_MAX` slots in the code) restarts the session and
counts as trouble.  660 ms (`ReconnectTime` = 33 slots) is the least bound that holds: 32
fails.  It is made of 20 ms slots with one exchange each; the code retries every 5 ms, so it
is an upper bound for this discovery order.
`radio_input` does not explore what follows `Settle` (`CONSTRAINT Troubled`): that is the
same behaviour without losses, and `radio_input_live` explores it.
In `scanner` two faults are a failure and the failure of its repair; two changes are a key
down and up, in every place of the loop; two wishes are a setting and a raw
frame or a restart that disturbs it, or two settings.  In `parts` a ring of two with four
crashes wraps its slots twice and its sequence once; two slots and three keys force a flash
out; ramps of different length catch one that takes the other's; seven samples lift a key
over the trust threshold and back; two runs of the tool leave one's pieces to the other.  A second key would add states and no case: the
loop handles the matrix as a whole.  In `gamepad` two positions and two packets are the
least with which an old one can overtake; a session that ran out of its two counters ends,
as one that failed does, so sessions follow one another.
Two frames show a command half assembled, and two pages a copy half done; three starts reach
the threshold with a restart in every place.  With two failing flash operations
`UpdateIsWhole` fails (one hides the state of the update, one makes the fallback look
different, and B is staged again over an undecided update), hence `MaxMisreads = 1`.

*Types.*  `radio_input` checks `TypeOK` within `WindowKept`; elsewhere the types are part of an invariant that is
proved (`Scanner`, `PacketLink`, `Gamepad`, `Upkeep`, the registers of `Charger`) or stated only.

*Stopping.*  The update runs, `packet_link` and `parts` turn the deadlock check off: the
keyboard rests in `ready` and `idle`, the link with everything acknowledged, and some parts
after their last touch, sample or command, when the environment has nothing left to do.

*Findings.*

* `update_jump`: a failing read rejects the update before the fallback is restored; a power
  cut in the restore then leads to a jump to a half-erased application, which
  `apex_update.h` 56-57 excludes.
* `actuation`: the comment at `link_g4b.c` 493 says that the reset gap keeps every press
  point above its release point.  The shallowest overrides of single keys (indices 4 to 6)
  with a gap of 6 or 8 counts bring the release point to 0 or round to 252..255; with rapid
  trigger off the key chatters.

*Also noticed*, without a run of their own:

* The scanner loop.  A raw frame of the shell that times out may have its answer taken for
  that of the next one (`g4b_scan_raw`, `link_g4b.c` 594-621).  The replay such a frame asks
  for is not inside `g4b_extbus_replay_begin` and `end`, unlike every other one.  A replay
  that fails at start-up or in a repair is not tried again, and `s3_resend_config` clears
  `s3_cfg_dirty` before it knows its frames arrived (`unsent`).  A scanner that waits for its
  power cycle while a key is held and settings are dirty makes the loop turn without
  sleeping; one whose command to go fast failed twice stays slow while a key is held.  The
  shell's reset of the scanner cuts its power whatever keys are held.  Analog readings and
  frames of thresholds may take a key's report with them, which the comments at 2033, 2084
  and 3936 exclude; `missed` records it, and the next report repairs it.
* The replay after a raw frame.  `docs/APEX_CONTROL.md` 159 says that every `scanraw` re-runs the
  full bring-up, and the loop counts on it (`link_g4b.c` 686-689).  A replay ends at the first
  unexpected answer (863-876): frame 30, 20 01 01, expects 20 00 00, and a running scanner
  rejects it with 20 02 02 (2391-2393).  A period set by a raw 20 03 therefore stays until a key
  goes down or up or the loop's cadence changes, which is why `SlowIsKnown` and
  `FullSpeedReturns` except it (`meddled`).
* A failed key report is not told to `ab_note_health`, whose comment says that a failed exchange
  starts its count over (`link_g4b.c` 3533, 3773); a failed keep-alive is.
* After the shell's reset of the scanner no frame starts it.  `PROTOCOL.md` 55 says that a scanner
  that lost its power does not scan until the start-up frames have run, `APEX_CONTROL.md` 188
  that it was seen to recover; the model has both (`ResetDone`).
* The NOR.  A failing read of the marker makes `fs_provision` erase the whole settings area
  (`flash_spinor_g4b.c`, about 133).
* The update.  A staging given up after its erase leaves the old descriptor valid, against
  the comment at `ab_rollback_g4b.c:302`.  While an installation is COPYING, begin and reboot
  are both refused until the next reset.  A scrambled journal makes every install fail, so an
  image flashed over USB is replaced by B.  TRIAL to REJECTED clears two bits, so a torn
  write may leave HEALTHY (`PowerCutWriting`; no later step trusts it).
* The dongle.  `last_activity` is 0 at power-up, so for three seconds the bridge reads
  answers without any Studio byte (`studio_bridge.c` 83, against its comment at 18).  It
  ignores the error of `apex_shell_send` once a session has used 65535 frames.  A late Studio
  answer makes the next command fail with -EPROTO (`JobError`).  A change of the gamepad's
  interface that fails is not tried again until the user turns the switch (`usb.c` 58-65).
* The mode switch.  `g4b_mode_set_override` says the new transport applies at once, but
  `mode_gate_work` chooses between USB and Bluetooth by the switch itself (`mode_cached`), so
  that an override only moves the dongle boundary.  If Bluetooth never becomes ready, or
  cannot be disabled, the keyboard stays in the dongle position without a radio until it is
  restarted.

* The LEDs.  The rail and blanking are not one state (`rgb_g4b.c:530`): the shell raises or
  drops the rail alone.  The heat map's comment that full travel always reaches red does not
  hold, since the dead zone of 6 counts is subtracted first.  At full brightness a key's fresh
  flare in the reactive effect asks a channel with much red in its hue for up to 270 codes;
  it is sent 255, while the remainder of the dithering is kept (`Clamp`), so the exactness of
  the dithering is about what lies within 255.  Select an effect in the middle
  of a frame, and the scanner thread writes what it had read over the reset (`torn`).
* The crash records.  A fault before the ring was scanned writes slot 0 with sequence 1, so
  that its record is not taken for the newest.  After an erase that timed out the chip ignores
  the next command, which is then taken for done.
* The charger.  A saved voltage is "applied in the settings commit at boot"
  (`apex_control_g4b.c`, 97-101), and then overwritten by `g4b_bq_configure_charge` of the scanner
  thread.  A configuration that fails before the watchdog is disarmed leaves it armed, so
  later writes go 40 s after them.  `g4b_bq_sample_mv` takes any reading that is not zero,
  which may be of the conversion before.  `apex charge on`, answered while the storage
  controller is between its read and its write to stop, is lost.
* The range of a key.  "Once the learned range crosses the trust threshold, persist it"
  (`link_g4b.c:3035`) is done when the upper end grows, not when a lower minimum crosses it.
* Pairing.  After a late first piece the bypass is gone, so the pieces that follow are lines
  of the shell, against the comment at `apex_pair_shell.c` 43.

## 4. Fairness

Threads loop for ever and bounded waits end, so steps of one thread that stay possible are
taken (WF).  A receiver that must restart, or has heard nothing for too long, tests that in
every round of its loop, after the packet at hand (`probe_thread`, 1174-1219), so packets
cannot put it off: SF.  The keyboard has no such test to lose, WF suffices.  Nothing is
assumed of losses, key presses, power cuts, timeouts or commands; liveness properties speak
of the time after them (`trouble = 0`), or their number is bounded (`shell_link_live`,
`packet_link`, `gamepad`, `scanner`).

* `Scanner`: the loop takes its next step (WF), and so does a flash writer, except that the
  lock goes to whoever waits longest only in the long run: SF for `NorLock`.
* `PacketLink`: each thread leaves a session that is over and enters the next (WF), and a packet
  that nobody can take any more does not stay in the air (WF of `Loses`); no end has to send.
* `Gamepad`: the packets that are polled are not lost for ever: SF for `Receive`.
  `PadExpires` is fair only while an end is out of the session, since the 100 ms never pass
  while packets keep coming.
* `FirmwareUpdate` assumes that a processor with power runs.
* `HopLink` needs no fairness: it counts time, and `ReconnectsInTime` is an invariant about
  the time since the last trouble.  `Upkeep` counts time as well, and so do `LightFollowsWant`
  (turns of the loop), `OverlayCleared` and `EffectsFade` (frames).

## 5. Proofs

All theorems hold for every value of the constants that satisfies the named assumptions of
the modules, which TLC evaluates in the runs.  Each follows the same plan: an inductive
invariant that says along the steps of the threads what is where, one lemma for each action,
and under it one step for each conjunct the action disturbs.  Where an argument goes by induction over
numbers (frames of a fade, slots of a search, the ramp of the LEDs) it is made by way of the
least counterexample (`LeastIs`, which rests on `WFMin` of the library): the prover cannot
instantiate the library's rules of induction.

| Module | Theorems (properties of the runs they state) | Rest on |
|---|---|---|
| `RadioInputProofs` | `WindowIsKept` (`WindowKept`), `WindowsAgree`, `SessionsFollowed` (`FollowsSessions`) | `WindowInv` |
| | `NothingIsLost` (`NothingLost`), `OldestInFlight` (`InFlightIsOldest`), `ReleasedFirst` (`ReleasedBeforeReports`), `HostIsInSync` (`HostInSync`) | `ContentInv` |
| `HandshakeProofs` | `HandshakeKeepsPromise` (`ImplementsSessions`), `EndsAgree`, `SessionsAgree` | `HandshakeInv` |
| `PacketLinkProofs` | `NoncesAreFresh` (`NonceNeverReused`), `DeliveredOnce` (`NeverReplayed`) | `IInv` |
| | `WhatLeavesIsCurrent` (`PreparedIsCurrent`) | `AheadInv` |
| `GamepadProofs` | `StickNeverGoesBack` (`NeverBackwards`) | `Ordered` |
| `ScannerProofs` | `SlowScannerIsKnown` (`SlowIsKnown`), `ReplayIsUndisturbed` (`ReplayUndisturbed`), `KeysAreKnown` (`KeysAgree`) | `IInv`, `Told` |
| `FirmwareUpdateProofs` | `NeverJumpsUnchecked` (`NeverUncheckedJump`), `UpdateStaysWhole` (`UpdateIsWhole`), `KeyboardCanRun` (`CanAlwaysRun`), `InstalledWasVerified`, `HealthIsEarned` (`HealthyIsEarned`) | `UpdateInv` |
| `ShellLinkProofs` | `NothingGetsMixed` (`NothingMixed`), `NothingRunsTwice` (`ExecutedOnce`), `StreamKeepsPromise` (`DeliversInOrder`) | `ShellInv` |
| `PartsProofs` | `SameChannelHolds`, `ReconnectsSoon`, `ArrayShowsTheFrame`, `LightComesInTime`, `OverlayStaysCurrent`, `EffectsDoFade`, `FlashStaysKept`, `ChargeStaysBounded`, `DepthStaysKept`, `PairStaysKept` (the properties of `parts`); `KeyboardIsWatched`, `OnlyTheSilentAreBitten`, `SwitchIsDebounced` (of `Upkeep`) | one invariant a part |

**`RadioInputProofs`** assumes a queue of at least two entries, a last sequence of at least
three, a buffer and a batch of at least one.  That an acknowledgement is never ahead of the
receiver rests on what is in the two DMA buffers and in `work`, and that rests on both
windows.  `WindowInv` says all of it at once: the queue is numbered without gaps
(`QueueInOrder`), the credit is what the receiver had left (`SenderWindow`), the buffer holds
what is accepted and not completed (`ReceiverBuffer`), a session starts from nothing
(`IdleIsReset`, `OfferIsFresh`), packets are consecutive (`PacketsInOrder`), and in a shared
session the windows of both ends and all packets between them agree (`SharedWindow`).
`ContentInv` adds what the entries are, not only how they are numbered: whatever is in a
packet, in the receiver's buffer or in the poll loop's hand is the queue's report of that
number; what USB has in flight is the oldest of the buffer unless its copy is stale
(`UsbInv`); and the host shows, of each kind, the last report completed, or a release that is
still owed.  So `HostIsInSync` is the end-to-end statement: when everything is acknowledged
the host shows the keyboard's latest reports.  Facts about the operators (push, pop, batch,
receive, complete) are lemmas of their own.

**`HandshakeProofs`.**  That `Handshake` implements `Sessions` rests on the two DMA buffers:
an end with a packet to read sends nothing before it has read it, so the two are never both
taken (`OneBuffer`); what the receiver finds is what the keyboard, in the state it is in, would
send again, or is left over from before it started over (`RequestIsCurrent`); and no session
is open under the nonce of a keyboard that still waits for its challenge (`NotYetOpen`).

**`PacketLinkProofs`.**  "The nonce was not used" is not inductive: it needs to be said where
the used nonces are.  In a running session all of them lie behind the counter of who seals,
and the keyboard has none in the session it may establish (`Fresh`, `NoncesOK`); what a
receiver has decoded is a replay to it as long as it is in that session (`Taken`, `TakenOK`);
the types of sessions and packets complete it (`SessionsOK`, `PacketsOK`).  `AheadInv` says
that a report encoded ahead of time is the one the queue has under its number, and that no
other will have that number, for as long as the session lasts.

**`GamepadProofs`.**  The position moves through four places, and in each it must be no newer
than behind it: of two packets in the air the later one carries no older position
(`AirOrdered`), what the receiver would still take is not older than what it has (`AirLater`),
and what USB sends and what the host has shown lie below that (`PadOrdered`).

**`ScannerProofs`** adds to `TypeOK` which frame belongs to which place of the loop (`FrameOK`,
`TaskOK`), who holds the bus lock how often (`BusOK`), and that a scanner without power comes
back fast (`RestartsFast`).  With these `SlowIsKnown` is inductive: every exchange that may slow
the scanner, the shell's own excepted, leaves the cadence at that period or unknown.  `Told` is
about keys: a loop that takes no key to be down has told ZMK so, only such a loop cuts the
scanner's power, and of a scanner that does not run ZMK holds nothing (unless a
report was missed), so what changes meanwhile
is reported when it is started.  `KeysAreKnown` speaks of a scanner that runs.

**`FirmwareUpdateProofs`.**  `UpdateInv` says along the processor's steps what the flash holds:
which pages of a copy are done (`Steps`); that a download is of the image its journal names and
is committed only when whole (`Downloads`); that an installation which is not done is done
again, by the recovery or from B (`Installs`); that B is healthy whenever it may be needed
(`Fallback`); and, while the flash reads back what is in it, that an incomplete application is
never run (`Sound`).  `NeverJumpsUnchecked` therefore speaks of flash that is read right
(`update_jump` shows what a misread does), and `UpdateStaysWhole` and `KeyboardCanRun` of at
most one misread: a second one can let the firmware stage B anew although an update is not
decided, as TLC shows.  Power cuts are unbounded.

**`ShellLinkProofs`** has two floors.  The lower one is the stream: an end is at most one frame
ahead of its peer, and a packet under way says no more than its sender.  All the upper one
needs of it is, for each direction, the frame that waits to be read and the one that comes
next; a section of lemmas says how each kind of step changes those four, and the rest sees no
number or packet.  Upon it `KeyboardInv`, `JobInv` and `ExecutedInv` relate the command that is
assembled, the job that waits, and what was run.  `StreamKeepsPromise` maps each direction to
`Channel`, step by step.

**`PartsProofs`.**  The parts share no variable, so the step of one leaves the others' invariants
alone (`PartsStep`).

* *Hopping* (`HopInv`), for all schedules and last slot numbers.  `SameChannel` is not
  inductive; `Consistent` adds what makes it so: an end that was taken for a peer is no longer
  scanning, the receiver is established before the keyboard, only an acknowledged clock lets
  the keyboard hop, and clocks that run at both ends show the same slot.
* *Reconnecting* (`TimesInv`, `OnCourse`).  Each end has a phase, the slots it has scanned or,
  below zero, those until its old session times out; both grow by one in a slot and starting
  over does not disturb them, so the slot in which the ends will meet is known from the two
  phases (`Meets`).  Lemmas about the dwells bound it: ends that scan meet in at most 23 slots,
  a receiver that begins to scan finds the keyboard in at most 8, a keyboard that begins
  is found in at most 6.  A wait of up to 19 slots comes before that, and as a receiver that
  waits for CONFIRM has been silent since it heard the keyboard, or for longer than the
  keyboard has scanned (`HalfOpen`), 25 slots cover both.  With the slot of the meeting itself
  and seven more for the handshake, the map and the start of the clock that makes 33; with 32
  the proof fails where TLC finds its counterexample.
* *Lighting* (`LightInv`): between the halves of a transfer the first is what was staged, unless
  it will be sent again (`HalfShown`); the bus is parked while the LEDs are blanked
  (`Powered`); and a fade is where its ramp is after the turns since it began, which are no
  fewer than those since the want changed (`Fading`).
* *Overlay* (`OverlayInv`): a key flashes in one slot (`OneEach`); a key that was forced out is
  older than every slot (`Displaced`), and as slots map one to one into keys that are newer,
  the keys that flash are the newest; what is painted is known or about to be painted over.
* *Effects* (`EffectInv`): the remainder is what was asked for and not sent (`DitherOK`); glow
  and level lie below what their decrements leave of them (`GlowOK`, `LevelOK`).
* *Flash* (`FlashInv`): the records lie in the ring in the order of their distance behind the
  newest, each as much older in its sequence, so that the comparison at the sequence's width
  finds the newest wherever the ring wrapped (this needs `SeqMod >= 2 * Slots`: 65536 and the
  slots of the code), and the slot at the cursor may be torn.  The search is a recursive function;
  that it exists and what it finds is shown at the least slot where it would fail.  `MarkOK`
  says how far a format is, `SavedOK` that the sector which holds the settings is never the one
  erased next.
* *Charger* (`ChargerInv`, `Band`): the limits are those written last only once the watchdog is
  disarmed for good; a thread past that step found or made it so, and the voltage it wrote is
  still the one written last (`ChargerPast`).
* *Depth* (`DepthInv`): a filtered reading lies between the last one and the new one, so the
  range holds only what was measured (`Measured`); a save that is due, or half done, is of a
  range that is trusted (`Saving`); and the axis is where the range puts the last reading,
  which is monotone (`AxisFollows`).  `KeyDepthAssumption` asks for `MinSpan > 1` (the
  code has 1200, `link_g4b.c:2951`): over a span of 1 the axis is not steady.
* *Pairing* (`PairInv`): a run of the tool that has reached the receiver has left its record with
  the keyboard, whose receive is over (`RunIsKept`); and neither device receives while a pair
  is reported (`NoneReceives`).
* *Upkeep* (`Upkept`), in no run and proved only, for all periods with a feed period below the
  watchdog's time: a loop or a switch nobody serves is left so for less than its grace and the
  watchdog's time together (the "about 90 seconds" of `docs/CONFIGURATION.md`), a keyboard that
  serves both in time is never restarted, and the position moves only after the full number of
  equal readings (except after a failed reading at the start).  Since the last feed nobody was
  away for longer than a feed allows, a late feeder has given up and for a reason, and the
  readings being counted are the latest.

*Two corrections* came out of proving.  `PacketLink` now checks, as the code does, that an
acknowledgement applies before the keyboard takes it.  `Effects` starts its history of the
dithering over when more than 255 codes are asked for, and `parts` runs at the brightness
255 at which that happens.

*Only model-checked.*  Liveness and everything under ENABLED, which the provers cannot reason
about: `EventuallyInSync`, `EventuallyTogether`, `CountersRenewed`, `JobsEnd`, `UpdateEnds`,
`SettingsSettle`, `FullSpeedReturns`, `PadReleased`, `ControllerFollows`.  The two expected
violations have nothing to prove.

## 6. What is left out of the modelled parts

* `RadioInput`: the label `failed:` (1435-1448), which turns the radio off for good, pause
  and benchmark traffic.  The one-slot DMA buffers mean that few old packets survive into a
  new session, so most nonce checks are defence in depth there; `PacketLink` has the air in
  which they are needed.
  `iface_ready` and `set_protocol` take the lock three times; the model makes them one
  step.  In between, the poll loop could submit a report, which ends as a stale transfer.
* `PacketLink`: the cipher is perfect, USB takes a report at once, and polls stand for every
  packet without a window of its own (gamepad, shell, clock); which answer the receiver gives
  to one is left open.  The radio may refuse a packet at any time, without the clock's reasons.
* `HopLink`: the microseconds within a slot (drift, `APEX_HOP_SYNC_SKEW_US`, the windows in
  which packets are sent) and the scan between two slots.  A paused end does not take part.
* `Gamepad`: the wired controller (`gp_work_fn`), the mapping of depths to axes, the reports
  of keys that go before a poll, and the choice of the radio as the output.  A transfer the
  USB stack cancels ends with an error.
* `Scanner`: the release build's loop.  Diagnostics, probes, the STOP1 idle, lighting and the
  battery are left out; the 59 frames of a replay are the kinds that matter (scan period and
  thresholds, the start, the last reading).  A raw frame is one of its effects.  What the STM32
  does is the code's own account of it.
* `Actuation`: the records of the settings are read whole.
* `Upkeep`: rounds are seconds; the time a round takes, the bootloader's feeding of an
  inherited watchdog and the choice between USB and Bluetooth are left out.
* `ShellLink`: the job does not start while the receiver has a restart to do (`JobStart`):
  the radio thread has the highest priority.  The contents of frames, the limit on output,
  the pace of bulk transfers and the RPC's framing are abstracted.
* `FirmwareUpdate`: preparing the NOR, the power check and the check for an updated
  bootloader are taken as passed; only the default layout is modelled.  A block that is sent
  again is compared with what is there and changes nothing (`apex_update.c` 121): it would be
  a step that changes no variable, and what it must not do is not checked.  After a failing
  read in the restore (COPY_FAILED) the code starts the application it has.

* `Lighting`: a transfer does not fail half way; the diagnostics that read the controller back
  (`g4b_rgb_readback_run`) are left out.  `Overlay` paints one kind at a time: the legends,
  colours and the position of the bar are not told apart.  `Effects` follows one channel of one
  LED; waveforms and random draws are choices from small sets.
* `NorFlash`: a sector holds one thing; NVS is its pattern of use (fill a blank sector, erase
  one when another holds the settings).  The crash report's text is left out.
* `Charger`: the cell's charge is low, middle or high, and is whatever the chip says.  Power
  from USB comes and goes at each tick.
* `KeyDepth`: one key, readings of three values; the sum of keys to a stick is left out.
* `Pairing`: the record is two pieces with a mark of its run.  A shell line that was cleared
  by the tool is one piece of noise.

*Not modelled.*  Sleep is disabled in the release configuration (`CONFIG_APEX_G4B_SLEEP_MS=0`).
The shell's and the HID control's commands format and check; what they change is modelled where
it is kept.  The legacy updater is disabled.  The installers and the other tools run on the host,
where they are the environment.

## 7. Plan

1. `HopClock`: the microseconds of `apex_hop.c` (position, skew, the end of the numbers) and
   the windows of `apex_hop_link.c`, proved to keep both ends in one slot while they send.
2. The HID callbacks of the dongle in their separate critical sections; the choice of the
   output around `Select`; `Upkeep` around `Handshake`, so that a keyboard that was bitten or
   moved comes back into a session.
3. Studio's progress after 65535 frames; failing transfers of the LEDs; the combination of keys
   to sticks and the wired controller.
4. Proofs: the invariants of `HopClock` and of the parts of 2.
