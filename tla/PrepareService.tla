--------------------------- MODULE PrepareService ---------------------------
(***************************************************************************)
(* Who owns the card while a PREPARE runs: the USB task, which parses the  *)
(* control lines (rt1170/usb_service.cpp), the player task, which owns     *)
(* FatFs and drives the PrepareJob (rt1170/player.cpp), and the media      *)
(* layer (rt1170/platform/waveform_msc.c).                                 *)
(*                                                                         *)
(* The tasks share a command mailbox, a reply mailbox and a FreeRTOS task  *)
(* notification.  A critical section is one atomic step; between two of    *)
(* them the other task may run, so the player's claim and its check that   *)
(* the card is local, and the USB task's check that the player allows a    *)
(* handoff and the handoff itself, are steps of their own.                 *)
(***************************************************************************)
EXTENDS PrepareJob

VARIABLES
  usb,       \* the USB task: "idle", "waiting" for a reply, "granted" MEDIA HOST
  mail,      \* command_mailbox() while command_pending, else "none"
  taken,     \* the command service_player_command() is dispatching, else "none"
  reply,     \* reply_pending
  noted,     \* the player task's notification count is not 0
  task,      \* where the player task is in its loop
  claimed,   \* preparation_busy and file_system_owned, always written together
  shown,     \* preparation_snapshot.phase
  media      \* "local" or "host"

svcVars == <<job, usb, mail, taken, reply, noted, task, claimed, shown, media>>

(* PREPARE, STOP, and every other command the player answers (BUSY while   *)
(* a preparation owns the player).                                         *)
Command == {"prepare", "stop", "other"}

ServiceInit ==
  /\ Init
  /\ usb = "idle" /\ mail = "none" /\ taken = "none" /\ reply = FALSE /\ noted = FALSE
  /\ task = "command" /\ claimed = FALSE /\ shown = "idle"
  /\ media \in {"local", "host"}

-----------------------------------------------------------------------------
(* The USB task: handle_request(), service_control().                      *)

(* A faulty form: the player task is not notified.                         *)
SubmitSilent(c) ==
  /\ usb = "idle"
  /\ usb' = "waiting" /\ mail' = c
  /\ UNCHANGED <<job, taken, reply, noted, task, claimed, shown, media>>

(* submit_player_command().                                                *)
Submit(c) ==
  /\ usb = "idle"
  /\ usb' = "waiting" /\ mail' = c /\ noted' = TRUE
  /\ UNCHANGED <<job, taken, reply, task, claimed, shown, media>>

(* take_player_reply(): until it succeeds no further line is parsed.       *)
TakeReply ==
  /\ usb = "waiting" /\ reply
  /\ usb' = "idle" /\ reply' = FALSE
  /\ noted' = (noted \/ mail # "none")
  /\ UNCHANGED <<job, mail, taken, task, claimed, shown, media>>

(* A faulty form: a control line is taken while a reply is outstanding.    *)
MediaHostAllowedAnytime == ~claimed /\ mail = "none"

(* player_allows_media_host(), when the USB task comes to a MEDIA line.    *)
MediaHostAllowed == usb = "idle" /\ ~claimed /\ mail = "none"

CheckMediaHost ==
  /\ MediaHostAllowed
  /\ usb' = "granted"
  /\ UNCHANGED <<job, mail, taken, reply, noted, task, claimed, shown, media>>

(* WFG_MediaSetHost().                                                     *)
SetMediaHost ==
  /\ usb = "granted"
  /\ usb' = "idle" /\ media' = "host"
  /\ UNCHANGED <<job, mail, taken, reply, noted, task, claimed, shown>>

(* WFG_MediaRequestLocal(), once the host has let go of its volume.        *)
SetMediaLocal ==
  /\ usb = "idle" /\ media = "host"
  /\ media' = "local"
  /\ UNCHANGED <<job, usb, mail, taken, reply, noted, task, claimed, shown>>

(* The host edits the files of a card it owns.                             *)
HostEdits ==
  /\ media = "host"
  /\ \E card \in FoundCards : job' = [job EXCEPT !.card = card]
  /\ UNCHANGED <<usb, mail, taken, reply, noted, task, claimed, shown, media>>

(* submit_tx_request() and the transfer under it also notify the player.   *)
TxNotify ==
  /\ ~noted /\ noted' = TRUE
  /\ UNCHANGED <<job, usb, mail, taken, reply, task, claimed, shown, media>>

-----------------------------------------------------------------------------
(* The player task: player_task_entry().                                   *)

(* publish_preparation(): the job as it is now, for queries and guards.    *)
Publish(j) == shown' = j.phase /\ claimed' = Busy(j)

(* service_player_command(): nothing to take, or the command is taken and  *)
(* command_pending cleared before it is dispatched.                        *)
NoCommand ==
  /\ task = "command" /\ (mail = "none" \/ reply)
  /\ task' = "service"
  /\ UNCHANGED <<job, usb, mail, taken, reply, noted, claimed, shown, media>>

TakeCommand ==
  /\ task = "command" /\ mail # "none" /\ ~reply
  /\ taken' = mail /\ mail' = "none" /\ task' = "dispatch"
  /\ UNCHANGED <<job, usb, reply, noted, claimed, shown, media>>

Answer == reply' = TRUE /\ taken' = "none" /\ task' = "service"

(* Refused BUSY, or a command that does not concern the preparation.       *)
AnswerOther ==
  /\ task = "dispatch"
  /\ taken = "other" \/ (taken = "prepare" /\ claimed) \/ (taken = "stop" /\ ~claimed)
  /\ Answer
  /\ UNCHANGED <<job, usb, mail, noted, claimed, shown, media>>

(* stop_command() while a preparation is busy.                             *)
AnswerStop ==
  /\ task = "dispatch" /\ taken = "stop" /\ claimed
  /\ job' = JobCancel(job).job /\ Publish(job')
  /\ Answer
  /\ UNCHANGED <<usb, mail, noted, media>>

(* accept_preparation(): claim_preparation(), then WFG_MediaIsLocal().     *)
ClaimPreparation ==
  /\ task = "dispatch" /\ taken = "prepare" /\ ~claimed
  /\ task' = "claimed" /\ claimed' = TRUE /\ shown' = "starting"
  /\ UNCHANGED <<job, usb, mail, taken, reply, noted, media>>

RefuseClaim ==
  /\ task = "claimed" /\ media # "local"
  /\ claimed' = FALSE /\ shown' = "failed"
  /\ Answer
  /\ UNCHANGED <<job, usb, mail, noted, media>>

AdmitPreparation ==
  /\ task = "claimed" /\ media = "local"
  /\ \E ask \in Requests : job' = BeginInternal(job, ask, FALSE).job
  /\ Publish(job')
  /\ Answer
  /\ UNCHANGED <<usb, mail, noted, media>>

(* service_preparation(): one step of a busy job.                          *)
ServicePreparation ==
  /\ task = "service"
  /\ task' = "wait"
  /\ IF claimed
     THEN \E out \in Outcome : job' = JobStep(job, out).job /\ Publish(job')
     ELSE UNCHANGED <<job, claimed, shown>>
  /\ UNCHANGED <<usb, mail, taken, reply, noted, media>>

(* A faulty form: the loop sleeps until notified while a job still works.  *)
WorkReadyNever == FALSE

WorkReady == claimed /\ shown # "cleanup_failed"

(* ulTaskNotifyTake(): a millisecond at most while there is work, else     *)
(* until a notification.                                                   *)
Wake ==
  /\ task = "wait" /\ (WorkReady \/ noted)
  /\ task' = "command" /\ noted' = FALSE
  /\ UNCHANGED <<job, usb, mail, taken, reply, claimed, shown, media>>

UsbNext ==
  \/ \E c \in Command : Submit(c)
  \/ TakeReply \/ CheckMediaHost \/ SetMediaHost \/ SetMediaLocal

PlayerNext ==
  \/ NoCommand \/ TakeCommand \/ AnswerOther \/ AnswerStop \/ ClaimPreparation \/ RefuseClaim
  \/ AdmitPreparation \/ ServicePreparation \/ Wake

ServiceNext == UsbNext \/ PlayerNext \/ HostEdits \/ TxNotify

(* Both tasks run forever: m110_tinyusb_task() returns within 10 ms and    *)
(* the scheduler serves the ready player task.  No command is ever owed.   *)
ServiceSpec ==
  /\ ServiceInit /\ [][ServiceNext]_svcVars
  /\ WF_svcVars(PlayerNext) /\ WF_svcVars(TakeReply) /\ WF_svcVars(SetMediaHost)

-----------------------------------------------------------------------------
(* Properties.                                                             *)

(* Types, and the mailbox discipline: a command or a reply is in flight    *)
(* only while the USB task waits for it, and at most one of them.          *)
ServiceTypeOK ==
  /\ job \in JobType
  /\ usb \in {"idle", "waiting", "granted"}
  /\ mail \in Command \cup {"none"}
  /\ taken \in Command \cup {"none"}
  /\ task \in {"command", "dispatch", "claimed", "service", "wait"}
  /\ shown \in Phase /\ media \in {"local", "host"}
  /\ reply \in BOOLEAN /\ noted \in BOOLEAN /\ claimed \in BOOLEAN
  /\ reply => usb = "waiting" /\ mail = "none" /\ taken = "none"
  /\ mail # "none" => usb = "waiting" /\ taken = "none"

(* The card has one user: while the job has it mounted or a file open it   *)
(* is local and the player's claim is up, so that MEDIA HOST is refused,   *)
(* although the two tasks check and act in separate critical sections.     *)
OneCardUser ==
  job.open # {} => media = "local" /\ claimed /\ usb # "granted"

(* The claim the other task reads is never stale: between two commands it  *)
(* is up exactly while the job is busy, through failed cleanups too.       *)
ClaimMatchesJob == task # "claimed" => (claimed <=> Busy(job))

(* Every command is answered: the loop never sleeps through a command, and *)
(* a reply that is not yet taken never strands the command after it.       *)
CommandAnswered == mail # "none" ~> reply

(* A preparation the player has claimed comes to rest by the loop's own    *)
(* wake-ups, and so does the cleanup that a STOP retries: the loop never   *)
(* sleeps on work that only it can do.                                     *)
ClaimSettles ==
  claimed /\ shown # "cleanup_failed" ~> ~claimed \/ shown = "cleanup_failed"

(* What docs/live-control-protocol.md and the comment in                   *)
(* service_preparation() say: a failed cleanup keeps the card until STOP   *)
(* retries it.  STOP sets the phase back to starting, so a claim that ends *)
(* in a step out of cleanup_failed ended without one.                      *)
CleanupWaitsForStop ==
  [][ claimed /\ job.phase = "cleanup_failed" => claimed' ]_svcVars

(* The tasks agree: one command in flight, one user of the card, and a     *)
(* claim that tells the other task whether the job is busy                 *)
(* (service_preparation(), player_allows_media_host()).                    *)
TasksAgree == ServiceTypeOK /\ OneCardUser /\ ClaimMatchesJob

-----------------------------------------------------------------------------
(* The inductive invariant: a command in flight is in one place, and a job *)
(* is busy only where the USB task can see the claim.                      *)

MailFits ==
  /\ reply => usb = "waiting" /\ mail = "none" /\ taken = "none"
  /\ mail # "none" => usb = "waiting" /\ taken = "none"
  /\ taken # "none" => usb = "waiting"
  /\ taken # "none" <=> task \in {"dispatch", "claimed"}

ClaimFits ==
  /\ task = "claimed" => claimed = TRUE /\ ~Busy(job)
  /\ task # "claimed" => (claimed <=> Busy(job))
  /\ Busy(job) => media = "local" /\ usb # "granted"

ServiceInv == JobInv /\ ServiceTypeOK /\ MailFits /\ ClaimFits
=============================================================================
