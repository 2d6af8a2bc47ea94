--------------------------- MODULE MediaOwnership ---------------------------
(***************************************************************************)
(* The ownership of the microSD card (rt1170/platform/waveform_msc.c).     *)
(*                                                                         *)
(* The USB task runs every TinyUSB callback and parses the MEDIA commands; *)
(* the initialisation task brings the card up.  They share s_media, each   *)
(* access a critical section and so one step, and one task notification.   *)
(* The USB host sends SCSI commands in chunks, with MEDIA commands, resets *)
(* and unplugs between any two of them.                                    *)
(***************************************************************************)
EXTENDS Naturals

CONSTANT MaxChunks   \* the most chunks (endpoint buffers) of one READ or WRITE(10)
ASSUME ChunksAssumption == MaxChunks \in Nat \ {0}

VARIABLES
  media,    \* s_media, without its counters
  sd,       \* g_sd and the two s_media_sd_ flags
  worker,   \* where the initialisation task is
  noted,    \* its notification count
  usb,      \* where the USB task is
  cmd,      \* the SCSI data command of TinyUSB's MSC driver
  bus       \* "configured", "unconfigured", or inside a "bot_reset"

mediaVars == <<media, sd, worker, noted, usb, cmd, bus>>

MediaState == {"uninitialized", "initializing", "host", "local", "fault"}
MediaError == {"none", "host_init", "no_card", "card_init", "geometry", "disk_init", "task_start"}

(* The steps of WFG_MediaInitialize after its first critical section.      *)
Attempting == {"host_init", "detect", "card_init", "geometry", "disk_init", "publish", "teardown", "latch"}

(* g_sd with s_media_sd_host_initialized (from "host" on) and              *)
(* s_media_sd_card_init_started (from "started" on).                       *)
SdState == {"down", "host", "started", "card"}

Flag == {0, 1}

NoCommand == [op |-> "none", left |-> 0, put |-> 0]

MediaInit ==
  /\ media = [state |-> "uninitialized", error |-> "none", card_ready |-> 0,
              msc_ready |-> 0, host_ejected |-> 0,
              host_prevents_removal |-> 0, host_writing |-> 0]
  /\ sd = "down"
  /\ worker = [at |-> "absent", error |-> "none"]
  /\ noted = 0
  /\ usb = "boot"
  /\ cmd = NoCommand
  /\ bus = "unconfigured"

-----------------------------------------------------------------------------
(* The initialisation task.                                                *)

(* WFG_MediaPrepareInitializationAttemptLocked().                          *)
PrepareAttempt(m) ==
  [m EXCEPT !.state = "initializing", !.error = "none", !.card_ready = 0, !.msc_ready = 0]

(* WFG_MediaLatchInitializationFault().                                    *)
LatchFault(m, error) ==
  [m EXCEPT !.state = "fault", !.error = error, !.card_ready = 0, !.msc_ready = 0]

(* WFG_MediaDeinitializeSdHost(): SD_Deinit() once the card was started,   *)
(* SD_HostDeinit() before; then g_sd and both flags are cleared.           *)
DeinitializeSd(s) == "down"

At(step) == worker' = [at |-> step, error |-> "none"]
FailWith(error) == worker' = [at |-> "teardown", error |-> error]

(* WFG_MediaInitTask().                                                    *)
TakeNotification ==
  /\ worker.at = "waiting" /\ noted > 0
  /\ noted' = 0 /\ At("entry")
  /\ UNCHANGED <<media, sd, usb, cmd, bus>>

(* WFG_MediaInitialize(), its first critical section: only an attempt that *)
(* is wanted goes on.                                                      *)
EnterInitialize ==
  /\ worker.at = "entry"
  /\ media' = IF media.state = "uninitialized" THEN PrepareAttempt(media) ELSE media
  /\ At(IF media.state \in {"uninitialized", "initializing"} THEN "host_init" ELSE "waiting")
  /\ UNCHANGED <<sd, noted, usb, cmd, bus>>

(* What is left of an earlier attempt goes, then SD_HostInit().            *)
HostInit ==
  /\ worker.at = "host_init"
  /\ \/ /\ sd' = "host"
        /\ At("detect")
     \/ /\ sd' = DeinitializeSd(sd)
        /\ FailWith("host_init")
  /\ UNCHANGED <<media, noted, usb, cmd, bus>>

(* WFG_SD_ReadHostDetectStatus(), and a slot that may be empty.            *)
Detect ==
  /\ worker.at = "detect"
  /\ \/ At("card_init") /\ sd' = "started"
     \/ \E error \in {"host_init", "no_card"} : FailWith(error) /\ UNCHANGED sd
  /\ UNCHANGED <<media, noted, usb, cmd, bus>>

(* SD_CardInit().                                                          *)
CardInit ==
  /\ worker.at = "card_init"
  /\ \/ At("geometry") /\ sd' = "card"
     \/ FailWith("card_init") /\ UNCHANGED sd
  /\ UNCHANGED <<media, noted, usb, cmd, bus>>

(* A block size of 512 and some blocks.                                    *)
CheckGeometry ==
  /\ worker.at = "geometry"
  /\ At("disk_init") \/ FailWith("geometry")
  /\ UNCHANGED <<media, sd, noted, usb, cmd, bus>>

(* sd_disk_initialize().                                                   *)
DiskInit ==
  /\ worker.at = "disk_init"
  /\ At("publish") \/ FailWith("disk_init")
  /\ UNCHANGED <<media, sd, noted, usb, cmd, bus>>

(* The last critical section: the card is the host's.                      *)
PublishCard ==
  /\ worker.at = "publish"
  /\ media' = [media EXCEPT !.error = "none", !.card_ready = 1, !.msc_ready = 1, !.state = "host"]
  /\ At("waiting")
  /\ UNCHANGED <<sd, noted, usb, cmd, bus>>

(* WFG_MediaFailInitialization().                                          *)
Teardown ==
  /\ worker.at = "teardown"
  /\ sd' = DeinitializeSd(sd)
  /\ worker' = [worker EXCEPT !.at = "latch"]
  /\ UNCHANGED <<media, noted, usb, cmd, bus>>

Latch ==
  /\ worker.at = "latch"
  /\ media' = LatchFault(media, worker.error)
  /\ At("waiting")
  /\ UNCHANGED <<sd, noted, usb, cmd, bus>>

InitTask ==
  \/ TakeNotification \/ EnterInitialize \/ HostInit \/ Detect \/ CardInit
  \/ CheckGeometry \/ DiskInit \/ PublishCard \/ Teardown \/ Latch

-----------------------------------------------------------------------------
(* MEDIA HOST and MEDIA LOCAL, in the USB task.                            *)

(* main(): WFG_MediaStartInitialization() before the scheduler starts; the *)
(* task may fail to be created (WFG_MediaEnsureInitializationTask()).      *)
Boot ==
  /\ usb = "boot"
  /\ usb' = "idle"
  /\ \/ media' = PrepareAttempt(media) /\ noted' = noted + 1 /\ At("waiting")
     \/ media' = LatchFault(media, "task_start") /\ UNCHANGED <<noted, worker>>
  /\ UNCHANGED <<sd, cmd, bus>>

Line == usb = "idle" /\ bus # "unconfigured"

Published == media.state \in {"host", "local"} /\ media.card_ready = 1

(* WFG_MediaSetHost(), accepted or not (then the attempt below).           *)
SetHost ==
  /\ Line
  /\ IF Published
     THEN /\ media' = [media EXCEPT !.msc_ready = 1, !.host_ejected = 0, !.state = "host"]
          /\ usb' = "idle"
     ELSE usb' = "attempt" /\ UNCHANGED media
  /\ UNCHANGED <<sd, worker, noted, cmd, bus>>

(* WFG_MediaStartInitializationAttempt(true): its first critical section,  *)
(* and the task it needs.                                                  *)
CheckAttempt ==
  /\ usb = "attempt"
  /\ IF media.state \in {"host", "local", "initializing"}
     THEN usb' = "clear_eject" /\ UNCHANGED <<media, worker>>
     ELSE \/ /\ usb' = "prepare"
             /\ IF worker.at = "absent" THEN At("waiting") ELSE UNCHANGED worker
             /\ UNCHANGED media
          \/ /\ worker.at = "absent"
             /\ usb' = "idle" /\ media' = LatchFault(media, "task_start")
             /\ UNCHANGED worker
  /\ UNCHANGED <<sd, noted, cmd, bus>>

(* A faulty form: the task is notified before the attempt is prepared.     *)
PrepareAfterNotify ==
  /\ usb = "prepare"
  /\ noted' = noted + 1 /\ usb' = "notify"
  /\ UNCHANGED <<media, sd, worker, cmd, bus>>

(* Its second critical section.                                            *)
PrepareRetry ==
  /\ usb = "prepare"
  /\ IF media.state \in {"uninitialized", "fault"}
     THEN media' = PrepareAttempt(media) /\ usb' = "notify"
     ELSE usb' = "idle" /\ UNCHANGED media
  /\ UNCHANGED <<sd, worker, noted, cmd, bus>>

(* A faulty form: the notification is left out.                            *)
NotifyInitTaskLost ==
  /\ usb = "notify"
  /\ usb' = "clear_eject"
  /\ UNCHANGED <<media, sd, worker, noted, cmd, bus>>

(* xTaskNotifyGive().                                                      *)
NotifyInitTask ==
  /\ usb = "notify"
  /\ noted' = noted + 1 /\ usb' = "clear_eject"
  /\ UNCHANGED <<media, sd, worker, cmd, bus>>

(* WFG_MediaRequestHost() answers "initializing".                          *)
ClearHostEject ==
  /\ usb = "clear_eject"
  /\ media' = [media EXCEPT !.host_ejected = 0]
  /\ usb' = "idle"
  /\ UNCHANGED <<sd, worker, noted, cmd, bus>>

(* A faulty form: the write flag alone is asked for, once the lock is off. *)
HostHoldLockOnly(m) == m.host_prevents_removal = 1

(* WFG_MediaHostHoldLocked(), which WFG_MediaTakeFromHostLocked() finds 0. *)
HostHold(m) == m.host_writing = 1 \/ m.host_prevents_removal = 1

(* WFG_MediaRequestLocal().                                                *)
RequestLocal ==
  /\ Line
  /\ media.state = "host" /\ media.card_ready = 1 /\ ~HostHold(media)
  /\ media' = [media EXCEPT !.msc_ready = 0, !.state = "local"]
  /\ UNCHANGED <<sd, worker, noted, usb, cmd, bus>>

Commands == SetHost \/ RequestLocal
Request == CheckAttempt \/ PrepareRetry \/ NotifyInitTask \/ ClearHostEject

-----------------------------------------------------------------------------
(* The USB host's session and its SCSI commands.                           *)

MscReady(m) == m.state = "host" /\ m.card_ready = 1 /\ m.msc_ready = 1 /\ m.host_ejected = 0

Idle == usb = "idle" /\ bus = "configured" /\ cmd = NoCommand

(* tud_msc_start_stop_cb(), LoEj=1 Start=0.                                *)
Eject ==
  /\ Idle
  /\ media' = [media EXCEPT !.host_ejected = 1]
  /\ UNCHANGED <<sd, worker, noted, usb, cmd, bus>>

(* tud_msc_prevent_allow_medium_removal_cb().                              *)
PreventAllow(prevent) ==
  /\ Idle
  /\ media' = [media EXCEPT !.host_prevents_removal = prevent]
  /\ UNCHANGED <<sd, worker, noted, usb, cmd, bus>>

(* A READ(10), or a WRITE(10) that tud_msc_is_writable_cb() lets through.  *)
BeginCommand(op, n) ==
  /\ Idle
  /\ op = "write" => MscReady(media) \/ media.host_ejected = 1
  /\ cmd' = [op |-> op, left |-> n, put |-> 0]
  /\ UNCHANGED <<media, sd, worker, noted, usb, bus>>

(* tud_msc_read10_cb() and tud_msc_write10_cb() refuse a chunk: not ready, *)
(* or not inside the card (WFG_MediaValidateIo()).                         *)
RefuseChunk ==
  /\ usb = "idle" /\ bus = "configured" /\ cmd.left > 0
  /\ cmd' = [cmd EXCEPT !.left = 0, !.put = 0]
  /\ media' = IF cmd.op = "write" THEN [media EXCEPT !.host_writing = 0] ELSE media
  /\ UNCHANGED <<sd, worker, noted, usb, bus>>

(* A faulty form: readiness is judged by the ownership alone.              *)
ChunkReadyByOwner(m) == m.state = "host"

(* What a chunk needs to reach the card: WFG_MediaMscReady().              *)
ChunkReady(m) == MscReady(m)

(* A ready chunk: SD_ReadBlocks() or SD_WriteBlocks() starts, and the USB  *)
(* task blocks on it.                                                      *)
StartChunk ==
  /\ usb = "idle" /\ bus = "configured" /\ cmd.left > 0
  /\ ChunkReady(media)
  /\ usb' = "io"
  /\ UNCHANGED <<media, sd, worker, noted, cmd, bus>>

(* It ends, well or with an SD error, which fails the command.             *)
EndChunk ==
  /\ usb = "io"
  /\ usb' = "idle"
  /\ \E ok \in Flag :
       /\ cmd' = [cmd EXCEPT !.left = IF ok = 1 THEN cmd.left - 1 ELSE 0,
                             !.put = IF cmd.op = "write" THEN ok ELSE 0]
       /\ media' = IF cmd.op = "write" THEN [media EXCEPT !.host_writing = ok] ELSE media
  /\ UNCHANGED <<sd, worker, noted, bus>>

(* The status of a command; tud_msc_write10_complete_cb() follows.         *)
SendStatus ==
  /\ usb = "idle" /\ bus = "configured" /\ cmd.op # "none" /\ cmd.left = 0
  /\ cmd' = NoCommand
  /\ media' = IF cmd.op = "write" THEN [media EXCEPT !.host_writing = 0] ELSE media
  /\ UNCHANGED <<sd, worker, noted, usb, bus>>

(* WFG_MediaEndHostSession().                                              *)
EndHostSession(m) == [m EXCEPT !.host_prevents_removal = 0, !.host_writing = 0]

(* tud_mount_cb(): SET_CONFIGURATION.                                      *)
Mount ==
  /\ usb = "idle" /\ bus = "unconfigured"
  /\ bus' = "configured" /\ media' = EndHostSession(media)
  /\ UNCHANGED <<sd, worker, noted, usb, cmd>>

(* tud_umount_cb(): SET_CONFIGURATION(0) or an unplug.                     *)
Unmount ==
  /\ usb = "idle" /\ bus # "unconfigured"
  /\ bus' = "unconfigured" /\ cmd' = NoCommand /\ media' = EndHostSession(media)
  /\ UNCHANGED <<sd, worker, noted, usb>>

(* A bus reset: TinyUSB drops the command, and no callback tells anyone.   *)
BusReset ==
  /\ usb = "idle" /\ bus # "unconfigured"
  /\ bus' = "unconfigured" /\ cmd' = NoCommand
  /\ UNCHANGED <<media, sd, worker, noted, usb>>

(* A Bulk-Only Mass Storage Reset, dropped the same way, until its status  *)
(* stage: dcd_edpt0_status_complete(), WFG_MediaControlTransferDone().     *)
BotReset ==
  /\ usb = "idle" /\ bus = "configured"
  /\ bus' = "bot_reset" /\ cmd' = NoCommand
  /\ UNCHANGED <<media, sd, worker, noted, usb>>

ControlTransferDone(m) == [m EXCEPT !.host_writing = 0]

BotResetDone ==
  /\ usb = "idle" /\ bus = "bot_reset"
  /\ bus' = "configured" /\ media' = ControlTransferDone(media)
  /\ UNCHANGED <<sd, worker, noted, usb, cmd>>

Scsi ==
  \/ Eject
  \/ \E prevent \in Flag : PreventAllow(prevent)
  \/ \E op \in {"read", "write"}, n \in 1 .. MaxChunks : BeginCommand(op, n)
  \/ RefuseChunk \/ StartChunk \/ EndChunk \/ SendStatus

Session == Mount \/ Unmount \/ BusReset \/ BotReset \/ BotResetDone

-----------------------------------------------------------------------------
MediaNext == Boot \/ InitTask \/ Commands \/ Request \/ Scsi \/ Session

(* Boot runs to its end.  The SD driver's calls return (they time out), so *)
(* the initialisation task goes on, and so does a request the USB task has *)
(* begun.  Nothing is assumed of the host.                                 *)
MediaSpec ==
  /\ MediaInit /\ [][MediaNext]_mediaVars
  /\ WF_mediaVars(Boot) /\ WF_mediaVars(InitTask) /\ WF_mediaVars(Request)

-----------------------------------------------------------------------------
MediaType ==
  [state : MediaState, error : MediaError, card_ready : Flag, msc_ready : Flag,
   host_ejected : Flag, host_prevents_removal : Flag, host_writing : Flag]
CommandType == [op : {"none", "read", "write"}, left : 0 .. MaxChunks, put : Flag]

(* The media layer, the SD driver and both tasks have their types.         *)
MediaTypeOK ==
  /\ media \in MediaType
  /\ sd \in SdState
  /\ worker \in [at : {"absent", "waiting", "entry"} \cup Attempting, error : MediaError]
  /\ noted \in Nat
  /\ usb \in {"boot", "idle", "attempt", "prepare", "notify", "clear_eject", "io"}
  /\ cmd \in CommandType
  /\ bus \in {"configured", "unconfigured", "bot_reset"}

(* The parties that can carry an initialisation attempt: the USB task      *)
(* about to notify, the notification, and the initialisation task.         *)
WithUsb  == usb = "notify"
WithNote == noted > 0
WithTask == worker.at \in Attempting \cup {"entry"}

(* Retries and notifications never pile up: while the card is initialising *)
(* exactly one party carries the attempt, and otherwise none does, so the  *)
(* initialisation task never brings down an SD host that is in use.        *)
OneAttempt ==
  IF media.state = "initializing"
  THEN /\ noted <= 1
       /\ WithUsb \/ WithNote \/ WithTask
       /\ ~(WithUsb /\ WithNote) /\ ~(WithUsb /\ WithTask) /\ ~(WithNote /\ WithTask)
  ELSE ~WithUsb /\ ~WithNote /\ ~WithTask

(* A chunk on its way to the card finds it owned by the host, brought up,  *)
(* not ejected, and no initialisation at work, from the check that let it  *)
(* start until the SD driver returns.                                      *)
HostIoOwnsCard ==
  usb = "io" =>
    /\ MscReady(media) /\ cmd.left > 0 /\ bus = "configured"
    /\ sd = "card"
    /\ worker.at = "waiting"

(* host_writing is a hold the host can still release: a write of its own   *)
(* is under way, or its session is being reset, which will clear it.       *)
HoldIsReal ==
  media.host_writing = 1 => cmd.put = 1 \/ bus # "configured"

(* A latched fault leaves the SD host shut down and names its cause.       *)
FaultIsDown ==
  media.state = "fault" => sd = "down" /\ media.error # "none" /\ media.card_ready = 0

(* While card_ready is 1, g_sd does not change (waveform_msc.c, the        *)
(* comment on WFG_MediaBusClockHzLocked), and the card is never withdrawn. *)
ReadyCardUntouched == [][media.card_ready = 1 => media.card_ready' = 1 /\ UNCHANGED sd]_mediaVars

(* Every attempt ends, in a card for the host or in a latched fault.       *)
AttemptSettles == media.state = "initializing" ~> media.state \in {"host", "fault"}

(* The inductive invariant that the proofs use: s_media's flags agree with *)
(* its state, the SD host with the step of the attempt, the initialisation *)
(* task exists where it is needed, and host_writing covers the write that  *)
(* is part way.                                                            *)
FlagsAgree ==
  /\ media.card_ready = 1 <=> media.state \in {"host", "local"}
  /\ media.msc_ready = 1 <=> media.state = "host"

SdAgrees ==
  /\ media.card_ready = 1 \/ worker.at \in {"geometry", "disk_init", "publish"} => sd = "card"
  /\ worker.at = "detect" => sd = "host"
  /\ worker.at = "card_init" => sd = "started"
  /\ worker.at = "latch" \/ media.state \in {"uninitialized", "fault"} => sd = "down"
  /\ worker.at \in {"teardown", "latch"} => worker.error # "none"
  /\ media.state = "fault" => media.error # "none"

TaskExists ==
  worker.at = "absent" => media.state \in {"uninitialized", "fault"} /\ usb \notin {"prepare", "notify"}

ChunkUnderWay ==
  /\ usb = "io" => MscReady(media) /\ cmd.left > 0 /\ bus = "configured"
  /\ usb = "boot" => media.state = "uninitialized"

HoldCovers ==
  /\ cmd.put = 1 => media.host_writing = 1 /\ cmd.op = "write"
  /\ cmd.op = "none" => cmd.left = 0
  /\ bus # "configured" => cmd.op = "none"

MediaInv ==
  /\ MediaTypeOK /\ OneAttempt /\ FlagsAgree /\ SdAgrees /\ TaskExists
  /\ ChunkUnderWay /\ HoldCovers /\ HoldIsReal

(* The card's owner, and a write that really is part way on the card.      *)
Owner == INSTANCE CardOwner WITH
  owner   <- IF media.card_ready = 0 THEN "none" ELSE IF media.state = "host" THEN "host" ELSE "board",
  partial <- cmd.put = 1,
  locked  <- media.host_prevents_removal = 1

(* The media layer implements CardOwner: its host_writing flag is enough   *)
(* to keep the board away from a write that is part way.                   *)
OwnerSpec == Owner!Spec

(* An initialisation attempt is one party's from its start to a card or a  *)
(* fault, and a fault leaves nothing up (WFG_MediaRequestHost(), the       *)
(* initialisation task).                                                   *)
AttemptIsWhole == MediaTypeOK /\ OneAttempt /\ FaultIsDown

(* What the host has under way owns the card, and the hold of its write is *)
(* one that it or its session will end (the SCSI callbacks).               *)
HostIoHeld == HostIoOwnsCard /\ HoldIsReal

(* The card is never taken from its owner: the abstract CardOwner, and     *)
(* g_sd unchanged while the card is up (WFG_MediaRequestLocal(),           *)
(* WFG_MediaBusClockHzLocked()).                                           *)
CardKept == OwnerSpec /\ ReadyCardUntouched
=============================================================================
