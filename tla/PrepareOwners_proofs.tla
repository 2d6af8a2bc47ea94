------------------------ MODULE PrepareOwners_proofs ------------------------
(***************************************************************************)
(* Proofs about the two owners of a PrepareJob, for every request, block   *)
(* size, file length and transport:                                        *)
(*                                                                         *)
(*  - PrepareService, where PREPARE runs it: the USB task and the player   *)
(*    task agree on who has the card;                                      *)
(*  - PreparedOutput, where PREPAREPLAY runs it through PreparedPlayback:  *)
(*    the coordinator, its scheduler, its job and the output FIFO stay in  *)
(*    step, and a run's end is what it shows.                              *)
(*                                                                         *)
(* What a method of the job keeps is proved in PrepareJob_proofs, what a   *)
(* call of the scheduler keeps in FinitePlayback_proofs.                   *)
(***************************************************************************)
EXTENDS PrepareService, PreparedOutput, PrepareJob_proofs, WellFoundedInduction

-----------------------------------------------------------------------------
(* PREPARE: the service and the card.                                      *)

THEOREM ServiceStarts == ServiceInit => ServiceInv
<1> SUFFICES ASSUME ServiceInit PROVE ServiceInv
  OBVIOUS
<1>1. JobInv
  BY JobStarts DEF ServiceInit
<1>2. job \in JobType
  BY <1>1 DEF JobInv, JobFits, JobSound
<1>3. ~Busy(job)
  BY DEF ServiceInit, Init, NewJob, Busy
<1>4. ServiceTypeOK
  BY <1>2 DEF ServiceInit, ServiceTypeOK, Phase
<1>5. MailFits
  BY DEF ServiceInit, MailFits
<1>6. ClaimFits
  BY <1>3 DEF ServiceInit, ClaimFits
<1> QED BY <1>1, <1>4, <1>5, <1>6 DEF ServiceInv

(* The steps that leave the job alone.                                     *)
LEMMA QuietKeeps ==
  ASSUME ServiceInv, job' = job, ServiceTypeOK', MailFits', ClaimFits'
  PROVE  ServiceInv'
BY DEF ServiceInv, JobInv

(* What the USB task does: submit, take a reply, grant MEDIA HOST.         *)
LEMMA UsbKeeps ==
  ASSUME ServiceInv, UsbNext \/ TxNotify
  PROVE  ServiceInv'
<1>1. ServiceTypeOK /\ MailFits /\ ClaimFits
  BY DEF ServiceInv
<1>2. ASSUME NEW c \in Command, Submit(c) PROVE ServiceInv'
  <2>1. ServiceTypeOK' /\ MailFits'
    BY <1>1, <1>2 DEF Submit, ServiceTypeOK, MailFits, Command
  <2>2. ClaimFits'
    BY <1>1, <1>2 DEF Submit, ClaimFits, Busy
  <2> QED BY <1>2, <2>1, <2>2, QuietKeeps DEF Submit
<1>3. CASE TakeReply
  <2>1. ServiceTypeOK' /\ MailFits'
    BY <1>1, <1>3 DEF TakeReply, ServiceTypeOK, MailFits
  <2>2. ClaimFits'
    BY <1>1, <1>3 DEF TakeReply, ClaimFits, Busy
  <2> QED BY <1>3, <2>1, <2>2, QuietKeeps DEF TakeReply
<1>4. CASE CheckMediaHost
  <2>1. ServiceTypeOK' /\ MailFits'
    BY <1>1, <1>4 DEF CheckMediaHost, MediaHostAllowed, ServiceTypeOK, MailFits
  <2>2. task # "claimed" /\ ~Busy(job)
    BY <1>1, <1>4 DEF CheckMediaHost, MediaHostAllowed, MailFits, ClaimFits
  <2>3. ClaimFits'
    BY <1>1, <1>4, <2>2 DEF CheckMediaHost, ClaimFits, Busy
  <2> QED BY <1>4, <2>1, <2>3, QuietKeeps DEF CheckMediaHost
<1>5. CASE SetMediaHost
  <2>1. ServiceTypeOK' /\ MailFits'
    BY <1>1, <1>5 DEF SetMediaHost, ServiceTypeOK, MailFits
  <2>2. ClaimFits'
    BY <1>1, <1>5 DEF SetMediaHost, ClaimFits, Busy
  <2> QED BY <1>5, <2>1, <2>2, QuietKeeps DEF SetMediaHost
<1>6. CASE SetMediaLocal
  <2>1. ServiceTypeOK' /\ MailFits'
    BY <1>1, <1>6 DEF SetMediaLocal, ServiceTypeOK, MailFits
  <2>2. ClaimFits'
    BY <1>1, <1>6 DEF SetMediaLocal, ClaimFits, Busy
  <2> QED BY <1>6, <2>1, <2>2, QuietKeeps DEF SetMediaLocal
<1>7. CASE TxNotify
  <2>1. ServiceTypeOK' /\ MailFits'
    BY <1>1, <1>7 DEF TxNotify, ServiceTypeOK, MailFits
  <2>2. ClaimFits'
    BY <1>1, <1>7 DEF TxNotify, ClaimFits, Busy
  <2> QED BY <1>7, <2>1, <2>2, QuietKeeps DEF TxNotify
<1> QED BY <1>2, <1>3, <1>4, <1>5, <1>6, <1>7 DEF UsbNext

(* The host has the card only while no job is busy: its edits are those of *)
(* the card's user.                                                        *)
LEMMA HostEditsKeep ==
  ASSUME ServiceInv, HostEdits
  PROVE  ServiceInv'
<1>1. JobInv /\ ServiceTypeOK /\ MailFits /\ ClaimFits
  BY DEF ServiceInv
<1>2. ~Busy(job)
  BY <1>1 DEF ClaimFits, HostEdits
<1>3. UserFiles
  BY <1>2 DEF UserFiles, HostEdits
<1>4. JobInv'
  BY <1>1, <1>3, UserFilesKeep
<1>5. job' \in JobType
  BY <1>4 DEF JobInv, JobFits, JobSound
<1>6. job.work = job'.work /\ job.open = job'.open
  BY <1>1 DEF HostEdits, ServiceTypeOK, JobType
<1>7. ~Busy(job)'
  BY <1>2, <1>6 DEF Busy
<1>8. ServiceTypeOK' /\ MailFits'
  BY <1>1, <1>5 DEF HostEdits, ServiceTypeOK, MailFits
<1>9. ClaimFits'
  BY <1>1, <1>2, <1>7 DEF HostEdits, ClaimFits
<1> QED BY <1>4, <1>8, <1>9 DEF ServiceInv

(* The steps of the player task that call no method of the job.            *)
LEMMA PlayerQuietKeeps ==
  ASSUME ServiceInv, NoCommand \/ TakeCommand \/ AnswerOther \/ ClaimPreparation \/ RefuseClaim \/ Wake
  PROVE  ServiceInv'
<1>1. ServiceTypeOK /\ MailFits /\ ClaimFits
  BY DEF ServiceInv
<1>2. CASE NoCommand
  <2>1. ServiceTypeOK' /\ MailFits'
    BY <1>1, <1>2 DEF NoCommand, ServiceTypeOK, MailFits
  <2>2. ClaimFits'
    BY <1>1, <1>2 DEF NoCommand, ClaimFits, Busy
  <2> QED BY <1>2, <2>1, <2>2, QuietKeeps DEF NoCommand
<1>3. CASE TakeCommand
  <2>1. ServiceTypeOK' /\ MailFits'
    BY <1>1, <1>3 DEF TakeCommand, ServiceTypeOK, MailFits
  <2>2. ClaimFits'
    BY <1>1, <1>3 DEF TakeCommand, ClaimFits, Busy
  <2> QED BY <1>3, <2>1, <2>2, QuietKeeps DEF TakeCommand
<1>4. CASE AnswerOther
  <2>1. ServiceTypeOK' /\ MailFits'
    BY <1>1, <1>4 DEF AnswerOther, Answer, ServiceTypeOK, MailFits
  <2>2. ClaimFits'
    BY <1>1, <1>4 DEF AnswerOther, Answer, ClaimFits, Busy
  <2> QED BY <1>4, <2>1, <2>2, QuietKeeps DEF AnswerOther
<1>5. CASE ClaimPreparation
  <2>1. ServiceTypeOK' /\ MailFits'
    BY <1>1, <1>5 DEF ClaimPreparation, ServiceTypeOK, MailFits, Phase
  <2>2. ClaimFits'
    BY <1>1, <1>5 DEF ClaimPreparation, ClaimFits, Busy
  <2> QED BY <1>5, <2>1, <2>2, QuietKeeps DEF ClaimPreparation
<1>6. CASE RefuseClaim
  <2>1. ServiceTypeOK' /\ MailFits'
    BY <1>1, <1>6 DEF RefuseClaim, Answer, ServiceTypeOK, MailFits, Phase
  <2>2. ClaimFits'
    BY <1>1, <1>6 DEF RefuseClaim, Answer, ClaimFits, Busy
  <2> QED BY <1>6, <2>1, <2>2, QuietKeeps DEF RefuseClaim
<1>7. CASE Wake
  <2>1. ServiceTypeOK' /\ MailFits'
    BY <1>1, <1>7 DEF Wake, ServiceTypeOK, MailFits
  <2>2. ClaimFits'
    BY <1>1, <1>7 DEF Wake, ClaimFits, Busy
  <2> QED BY <1>7, <2>1, <2>2, QuietKeeps DEF Wake
<1> QED BY <1>2, <1>3, <1>4, <1>5, <1>6, <1>7

(* What a published job shows is its own phase, and its claim.             *)
LEMMA PublishFits ==
  ASSUME JobInv', Publish(job')
  PROVE  job' \in JobType /\ shown' \in Phase /\ claimed' \in BOOLEAN /\ (claimed' <=> Busy(job)')
<1>1. job' \in JobType
  BY DEF JobInv, JobFits, JobSound
<1> QED BY <1>1 DEF Publish, JobType, Busy

(* STOP, answered by the player task while a job runs.                     *)
LEMMA AnswerStopKeeps ==
  ASSUME ServiceInv, AnswerStop
  PROVE  ServiceInv'
<1>1. JobInv /\ ServiceTypeOK /\ MailFits /\ ClaimFits
  BY DEF ServiceInv
<1>2. JobInv'
  BY <1>1, JobCancelKeeps DEF AnswerStop, JobInv
<1>3. job' \in JobType /\ shown' \in Phase /\ claimed' \in BOOLEAN /\ (claimed' <=> Busy(job)')
  BY <1>2, PublishFits DEF AnswerStop
<1>4. ServiceTypeOK' /\ MailFits'
  BY <1>1, <1>3 DEF AnswerStop, Answer, ServiceTypeOK, MailFits
<1>5. Busy(job)
  BY <1>1 DEF AnswerStop, ClaimFits
<1>6. ClaimFits'
  BY <1>1, <1>3, <1>5 DEF AnswerStop, Answer, ClaimFits
<1> QED BY <1>2, <1>4, <1>6 DEF ServiceInv

(* PREPARE, admitted or refused by the player task.                        *)
LEMMA AdmitPreparationKeeps ==
  ASSUME ServiceInv, AdmitPreparation
  PROVE  ServiceInv'
<1>1. JobInv /\ ServiceTypeOK /\ MailFits /\ ClaimFits
  BY DEF ServiceInv
<1>2. JobInv'
  BY <1>1, BeginKeeps, RequestsAssumption DEF AdmitPreparation, JobInv
<1>3. job' \in JobType /\ shown' \in Phase /\ claimed' \in BOOLEAN /\ (claimed' <=> Busy(job)')
  BY <1>2, PublishFits DEF AdmitPreparation
<1>4. ServiceTypeOK' /\ MailFits'
  BY <1>1, <1>3 DEF AdmitPreparation, Answer, ServiceTypeOK, MailFits
<1>5. usb = "waiting"
  BY <1>1 DEF AdmitPreparation, MailFits
<1>6. ClaimFits'
  BY <1>1, <1>3, <1>5 DEF AdmitPreparation, Answer, ClaimFits
<1> QED BY <1>2, <1>4, <1>6 DEF ServiceInv

(* The player task's step of the job it has claimed.                       *)
LEMMA ServicePreparationKeeps ==
  ASSUME ServiceInv, ServicePreparation
  PROVE  ServiceInv'
<1>1. JobInv /\ ServiceTypeOK /\ MailFits /\ ClaimFits
  BY DEF ServiceInv
<1>2. CASE ~claimed
  <2>1. ServiceTypeOK' /\ MailFits'
    BY <1>1, <1>2 DEF ServicePreparation, ServiceTypeOK, MailFits
  <2>2. ClaimFits'
    BY <1>1, <1>2 DEF ServicePreparation, ClaimFits, Busy
  <2> QED BY <1>2, <2>1, <2>2, QuietKeeps DEF ServicePreparation
<1>3. CASE claimed
  <2>1. PICK outcome \in Outcome : job' = JobStep(job, outcome).job /\ Publish(job')
    BY <1>3 DEF ServicePreparation
  <2>2. JobInv'
    BY <1>1, <2>1, JobStepKeeps DEF JobInv
  <2>3. job' \in JobType /\ shown' \in Phase /\ claimed' \in BOOLEAN /\ (claimed' <=> Busy(job)')
    BY <2>1, <2>2, PublishFits
  <2>4. ServiceTypeOK' /\ MailFits'
    BY <1>1, <2>3 DEF ServicePreparation, ServiceTypeOK, MailFits
  <2>5. Busy(job)
    BY <1>1, <1>3 DEF ServicePreparation, ClaimFits
  <2>6. ClaimFits'
    BY <1>1, <2>3, <2>5 DEF ServicePreparation, ClaimFits
  <2> QED BY <2>2, <2>4, <2>6 DEF ServiceInv
<1> QED BY <1>2, <1>3

(* Every step of either task, and of the host, keeps the invariant.        *)
THEOREM ServiceStep == ServiceInv /\ [ServiceNext]_svcVars => ServiceInv'
<1> SUFFICES ASSUME ServiceInv, [ServiceNext]_svcVars PROVE ServiceInv'
  OBVIOUS
<1>1. CASE UNCHANGED svcVars
  <2>1. ServiceTypeOK' /\ MailFits' /\ ClaimFits' /\ job' = job
    BY <1>1 DEF svcVars, ServiceInv, ServiceTypeOK, MailFits, ClaimFits, Busy
  <2> QED BY <2>1, QuietKeeps
<1> QED BY <1>1, UsbKeeps, HostEditsKeep, PlayerQuietKeeps, AnswerStopKeeps, AdmitPreparationKeeps, ServicePreparationKeeps
        DEF ServiceNext, PlayerNext

(* ServiceInv holds from start-up on: the job fits its work state, one     *)
(* command or reply is in flight, and a busy job has the claim and the     *)
(* card.                                                                   *)
THEOREM ServiceInvariant == ServiceSpec => []ServiceInv
BY ServiceStarts, ServiceStep, PTL DEF ServiceSpec

(* The two tasks agree: at most one command or reply is in flight, the     *)
(* card has one user, and the claim MEDIA HOST reads is never stale.       *)
THEOREM TheTasksAgree == ServiceSpec => []TasksAgree
<1>1. ASSUME ServiceInv PROVE TasksAgree
  <2>1. ServiceTypeOK /\ ClaimFits
    BY <1>1 DEF ServiceInv
  <2>2. ClaimMatchesJob
    BY <2>1 DEF ClaimFits, ClaimMatchesJob
  <2>3. OneCardUser
    BY <2>1 DEF ClaimFits, OneCardUser, Busy
  <2> QED BY <2>1, <2>2, <2>3 DEF TasksAgree
<1> QED BY <1>1, ServiceInvariant, PTL

-----------------------------------------------------------------------------
(* The scheduler of a prepared playback.                                   *)

LEMMA TransportFits ==
  /\ {Transport} \subseteq S!ConfigType
  /\ Transport \in S!ConfigType /\ Transport.block = Block /\ Block <= Transport.queue
  /\ Transport.rate # 0 /\ Transport.queue # 0
BY TransportAssumption DEF S!ConfigType

(* The job and the coordinator report the same codes.                      *)
LEMMA Codes == Cause = Statuses /\ "ok" \in Cause /\ Cause \subseteq S!StatusCode
BY DEF Cause, Statuses, S!StatusCode

(* fail() and cancel() of the scheduler.                                   *)
LEMMA SchedulerHalts ==
  ASSUME NEW s, S!SchedulerInv(s), NEW reason \in S!StatusCode
  PROVE  S!Halted(s, S!FailOp(s, reason)) /\ S!Halted(s, S!CancelOp(s))
BY S!FailHalts, S!CancelHalts, TransportFits, RateAssumption, TokenAssumption

(* complete() of the ticket the scheduler waits for.                       *)
LEMMA SchedulerCompletes ==
  ASSUME NEW s, S!SchedulerInv(s), S!Pending(s), NEW result \in S!StatusCode, NEW n
  PROVE  /\ S!Completes(s, S!CompleteOp(s, s.pending, result, n), result)
         /\ S!CompleteStatus(s, s.pending, result, n) = S!CompleteOp(s, s.pending, result, n).status
BY S!CompletesTicket, TransportFits, RateAssumption, TokenAssumption

(* begin_next(): the ticket planned is the ticket issued.                  *)
LEMMA SchedulerIssues ==
  ASSUME NEW s, S!SchedulerInv(s), S!NextAction(s).status = "ok"
  PROVE  S!Issued(s, S!Issue(s, S!NextAction(s)), S!NextAction(s))
<1>1. S!PlanFits(s, S!NextAction(s))
  BY S!NextActionFits, TransportFits, RateAssumption, TokenAssumption
<1> QED BY <1>1, S!IssuesTicket, TransportFits, RateAssumption, TokenAssumption

(* What begin_next() may answer.                                           *)
LEMMA SchedulerSays ==
  ASSUME NEW s, S!SchedulerInv(s)
  PROVE  S!NextAction(s).status \in Cause
<1>1. S!NextAction(s).status \in {"ok", "busy", "io_error", "invalid_configuration", "invalid_argument"}
  BY S!NextActionSays, TransportFits, RateAssumption, TokenAssumption
<1> QED BY <1>1 DEF Cause, S!StatusCode

(* configure().                                                            *)
LEMMA SchedulerConfigures ==
  ASSUME NEW s, S!SchedulerInv(s), NEW c \in S!ConfigType, S!ConfigureStatus(s, c) = "ok"
  PROVE  S!Configures(s, S!ConfigureOp(s, c), c)
BY S!ConfiguresRun, TransportFits, RateAssumption, TokenAssumption

(* start().                                                                *)
LEMMA SchedulerStarts ==
  ASSUME NEW s, S!SchedulerInv(s), S!StartStatus(s) = "ok"
  PROVE  /\ S!SameRun(s, S!StartOp(s)) /\ S!StartOp(s).started = TRUE /\ S!StartOp(s).state = "running"
         /\ S!StartOp(s).consumed = s.consumed /\ S!StartOp(s).released = s.released
BY S!StartsRun, TransportFits, RateAssumption, TokenAssumption

(* consume().                                                              *)
LEMMA SchedulerConsumes ==
  ASSUME NEW s, S!SchedulerInv(s), NEW n \in Nat, S!ConsumeStatus(s, n) = "ok"
  PROVE  /\ S!SameRun(s, S!ConsumeOp(s, n)) /\ S!ConsumeOp(s, n).consumed = s.consumed + n
         /\ S!ConsumeOp(s, n).started = s.started
         /\ S!ConsumeOp(s, n).state = s.state /\ S!ConsumeOp(s, n).released = s.released
BY S!ConsumesRun, TransportFits, RateAssumption, TokenAssumption

(* release().                                                              *)
LEMMA SchedulerReleases ==
  ASSUME NEW s, S!SchedulerInv(s), ~S!Pending(s), S!IsTerminal(s)
  PROVE  /\ S!SameRun(s, S!ReleaseOp(s)) /\ S!ReleaseOp(s).released = TRUE
         /\ S!ReleaseOp(s).state = s.state /\ S!ReleaseOp(s).consumed = s.consumed
BY S!ReleasesRun, TransportFits, RateAssumption, TokenAssumption

-----------------------------------------------------------------------------
(* Failures and stops of the coordinator.                                  *)

(* A playback under way, as the calls of a method leave it to the next.    *)
UnderWay(x) == PartsFit(x) /\ x.p.active /\ CoreFits(x)

PlaybackFields ==
  {"active", "configured", "ticket", "decoded", "finishing", "stopping", "cancelSent", "retry", "status"}

(* What the parts of a state are.                                          *)
LEMMA UnderWayFacts ==
  ASSUME NEW x, PartsFit(x)
  PROVE  /\ DOMAIN x = {"p", "s", "j"} /\ DOMAIN x.p = PlaybackFields
         /\ x.p \in PlaybackType /\ x.s \in S!SchedulerType /\ x.j \in JobType
         /\ x.p.status \in Cause /\ S!SchedulerInv(x.s) /\ JobFits(x.j) /\ JobAnswers(x.j)
<1>1. x \in PlaybackState
  BY DEF PartsFit
<1>2. DOMAIN x = {"p", "s", "j"} /\ x.p \in PlaybackType /\ x.s \in S!SchedulerType /\ x.j \in JobType
  BY <1>1, Zenon DEF PlaybackState
<1>3. DOMAIN x.p = PlaybackFields /\ x.p.status \in Cause
  BY <1>2, Zenon DEF PlaybackType, PlaybackFields
<1> QED BY <1>2, <1>3 DEF PartsFit

(* A call that fails the playback stops it, and keeps its first cause.     *)
Fell(x, r) ==
  /\ PlaybackInv(r.x) /\ r.x.p.active /\ r.x.p.stopping
  /\ r.ret # "ok" /\ r.frames = 0
  /\ r.x.j.published = x.j.published /\ r.x.j.source = x.j.source
  /\ x.p.status # "ok" => r.x.p.status = x.p.status
  /\ x.j.phase = "cleanup_failed" => r.x.j = x.j
  /\ r.x.p.retry = x.p.retry

(* latch_failure().                                                        *)
LEMMA LatchFalls ==
  ASSUME NEW x, UnderWay(x), NEW reason \in Cause \ {"ok"}
  PROVE  Fell(x, LatchFailure(x, reason))
<1> DEFINE cause == IF x.p.status = "ok" THEN OrTicketError(reason) ELSE x.p.status
           cancels == Busy(x.j) /\ x.j.phase # "cleanup_failed"
           c == JobCancel(x.j)
           p == [x.p EXCEPT !.status = cause, !.stopping = TRUE, !.cancelSent = @ \/ (cancels /\ c.ret = "ok")]
           s == IF x.p.configured THEN S!FailOp(x.s, cause) ELSE x.s
           j == IF cancels THEN c.job ELSE x.j
           y == [p |-> p, s |-> s, j |-> j]
           r == LatchFailure(x, reason)
<1>1. r = [x |-> y, ret |-> cause, frames |-> 0]
  BY DEF LatchFailure, Result
<1>2. PartsFit(x) /\ x.p.active = TRUE /\ CoreFits(x)
  BY UnderWayFacts DEF UnderWay, PlaybackType
<1>3. cause \in Cause \ {"ok"} /\ (x.p.status # "ok" => cause = x.p.status)
  BY <1>2, UnderWayFacts DEF OrTicketError
<1> HIDE DEF cause
<1>4. /\ JobFits(j) /\ JobAnswers(j) /\ j.work = x.j.work /\ j.managed = x.j.managed
      /\ j.published = x.j.published /\ (x.j.cancel => j.cancel) /\ (cancels => j.cancel = TRUE)
      /\ j.source = x.j.source
      /\ x.j.phase = "cleanup_failed" => j = x.j
  BY <1>2, UnderWayFacts, CancelTells
<1>5. j \in JobType
  BY <1>4 DEF JobFits, JobSound
<1>6. S!SchedulerInv(s) /\ (x.p.configured => S!Halted(x.s, s)) /\ (~x.p.configured => s = x.s)
  <2>1. S!SchedulerInv(x.s)
    BY <1>2 DEF PartsFit
  <2>2. cause \in S!StatusCode
    BY <1>3, Codes
  <2> QED BY <2>1, <2>2, SchedulerHalts DEF S!Halted
<1>7. s \in S!SchedulerType
  BY <1>6 DEF S!SchedulerInv
<1> HIDE DEF s, j
<1>8. /\ p.status = cause /\ p.stopping = TRUE /\ p.active = TRUE /\ p.configured = x.p.configured
      /\ p.ticket = x.p.ticket /\ p.retry = x.p.retry
      /\ p.cancelSent = (x.p.cancelSent \/ (cancels /\ c.ret = "ok"))
  BY <1>2, UnderWayFacts, Zenon DEF PlaybackType
<1>9. p \in PlaybackType
  <2>1. x.p \in PlaybackType
    BY <1>2, UnderWayFacts
  <2>2. (x.p.cancelSent \/ (cancels /\ c.ret = "ok")) \in BOOLEAN
    OBVIOUS
  <2>3. cause \in Cause
    BY <1>3
  <2> HIDE DEF cancels, c
  <2> QED BY <2>1, <2>2, <2>3 DEF PlaybackType
<1> HIDE DEF p
<1>10. y.p = p /\ y.s = s /\ y.j = j /\ y \in PlaybackState
  BY <1>5, <1>7, <1>9 DEF PlaybackState
<1> HIDE DEF y
<1>11. PartsFit(y)
  BY <1>4, <1>6, <1>10 DEF PartsFit
<1>12. p.cancelSent => j.cancel
  BY <1>2, <1>4, <1>8 DEF CoreFits
<1>13. CoreFits(y) /\ CauseFits(y)
  <2>1. CASE x.p.configured
    BY <1>2, <1>3, <1>4, <1>6, <1>8, <1>10, <1>12, <2>1 DEF CoreFits, CauseFits, S!Halted
  <2>2. CASE ~x.p.configured
    BY <1>2, <1>3, <1>4, <1>6, <1>8, <1>10, <1>12, <2>2 DEF CoreFits, CauseFits
  <2> QED BY <2>1, <2>2
<1>14. PlaybackInv(y) /\ y.p.active /\ y.p.stopping
  BY <1>8, <1>10, <1>11, <1>13 DEF PlaybackInv
<1>15. r.x = y /\ r.ret = cause /\ r.frames = 0
  BY <1>1
<1> HIDE DEF r
<1>16. Fell(x, r)
  BY <1>3, <1>4, <1>8, <1>10, <1>14, <1>15 DEF Fell
<1> QED BY <1>16 DEF r
(* step() on a job whose cleanup has failed: like latch_failure(), but the *)
(* job is left for STOP.                                                   *)
LEMMA FailingFalls ==
  ASSUME NEW x, UnderWay(x), NEW cause \in Cause \ {"ok"}, x.p.status # "ok" => cause = x.p.status
  PROVE  LET y == [p |-> [x.p EXCEPT !.status = cause, !.stopping = TRUE],
                   s |-> IF x.p.configured THEN S!FailOp(x.s, cause) ELSE x.s, j |-> x.j]
         IN  Fell(x, Result(y, cause)) /\ y.j = x.j
<1> DEFINE p == [x.p EXCEPT !.status = cause, !.stopping = TRUE]
           s == IF x.p.configured THEN S!FailOp(x.s, cause) ELSE x.s
           y == [p |-> p, s |-> s, j |-> x.j]
           r == Result(y, cause)
<1>1. r.x = y /\ r.ret = cause /\ r.frames = 0
  BY DEF Result
<1>2. PartsFit(x) /\ x.p.active = TRUE /\ CoreFits(x)
  BY UnderWayFacts DEF UnderWay, PlaybackType
<1>3. S!SchedulerInv(s) /\ (x.p.configured => S!Halted(x.s, s)) /\ (~x.p.configured => s = x.s)
  <2>1. S!SchedulerInv(x.s) /\ cause \in S!StatusCode
    BY <1>2, Codes DEF PartsFit
  <2> QED BY <2>1, SchedulerHalts DEF S!Halted
<1>4. s \in S!SchedulerType
  BY <1>3 DEF S!SchedulerInv
<1>5. /\ p.status = cause /\ p.stopping = TRUE /\ p.active = TRUE /\ p.configured = x.p.configured
      /\ p.ticket = x.p.ticket /\ p.retry = x.p.retry /\ p.cancelSent = x.p.cancelSent
  BY <1>2, UnderWayFacts, Zenon DEF PlaybackType
<1>6. p \in PlaybackType
  BY <1>2, UnderWayFacts DEF PlaybackType
<1> SUFFICES Fell(x, r)
  OBVIOUS
<1> HIDE DEF p, s
<1>7. y.p = p /\ y.s = s /\ y.j = x.j /\ y \in PlaybackState
  BY <1>2, <1>4, <1>6, UnderWayFacts DEF PlaybackState
<1> HIDE DEF y, r
<1>8. PartsFit(y)
  BY <1>2, <1>3, <1>7 DEF PartsFit
<1>9. CoreFits(y) /\ CauseFits(y)
  <2>1. CASE x.p.configured
    BY <1>2, <1>3, <1>5, <1>7, <2>1 DEF CoreFits, CauseFits, S!Halted
  <2>2. CASE ~x.p.configured
    BY <1>2, <1>3, <1>5, <1>7, <2>2 DEF CoreFits, CauseFits
  <2> QED BY <2>1, <2>2
<1>10. PlaybackInv(y) /\ y.p.active /\ y.p.stopping
  BY <1>5, <1>7, <1>8, <1>9 DEF PlaybackInv
<1> QED BY <1>1, <1>5, <1>7, <1>10 DEF Fell

(* cancel(): the operator's STOP.                                          *)
LEMMA CancelFalls ==
  ASSUME NEW x, PlaybackInv(x), x.p.active
  PROVE  LET y == PlaybackCancel(x).x
         IN  /\ PlaybackInv(y) /\ y.p.active /\ y.p.stopping /\ y.j.published = x.j.published
             /\ x.p.status # "ok" => y.p.status = x.p.status
<1> DEFINE c == JobCancel(x.j)
           sends == Busy(x.j) /\ c.ret = "ok"
           sent == x.p.cancelSent \/ sends
           cause == IF x.p.status = "ok" THEN "unavailable" ELSE x.p.status
           retry == IF sends THEN x.j.phase = "cleanup_failed" ELSE x.p.retry
           p == [x.p EXCEPT !.status = cause, !.stopping = TRUE, !.cancelSent = sent, !.retry = retry]
           s == IF x.p.configured THEN S!CancelOp(x.s) ELSE x.s
           j == IF sends THEN c.job ELSE x.j
           y == [p |-> p, s |-> s, j |-> j]
<1>1. PlaybackCancel(x).x = y
  BY DEF PlaybackCancel, Progress, Result
<1>2. PartsFit(x) /\ x.p.active = TRUE /\ CoreFits(x)
  BY UnderWayFacts DEF PlaybackInv, PlaybackType
<1>3. cause \in Cause \ {"ok"} /\ (x.p.status # "ok" => cause = x.p.status)
  BY <1>2, UnderWayFacts DEF Cause, S!StatusCode
<1> HIDE DEF cause
<1>4. /\ JobFits(j) /\ JobAnswers(j) /\ j.work = x.j.work /\ j.managed = x.j.managed
      /\ j.published = x.j.published /\ (x.j.cancel => j.cancel) /\ (sends => j.cancel = TRUE)
  BY <1>2, UnderWayFacts, CancelTells
<1>5. j \in JobType
  BY <1>4 DEF JobFits, JobSound
<1>6. S!SchedulerInv(s) /\ (x.p.configured => S!Halted(x.s, s)) /\ (~x.p.configured => s = x.s)
  <2>1. S!SchedulerInv(x.s)
    BY <1>2 DEF PartsFit
  <2>2. cause \in S!StatusCode
    BY <1>3, Codes
  <2> QED BY <2>1, <2>2, SchedulerHalts DEF S!Halted
<1>7. s \in S!SchedulerType
  BY <1>6 DEF S!SchedulerInv
<1>8. sent \in BOOLEAN /\ retry \in BOOLEAN /\ (sent => j.cancel)
  <2>1. x.p.retry \in BOOLEAN
    BY <1>2, UnderWayFacts DEF PlaybackType
  <2>2. x.p.cancelSent => j.cancel
    BY <1>2, <1>4 DEF CoreFits
  <2> HIDE DEF c, j
  <2> QED BY <1>4, <2>1, <2>2
<1> HIDE DEF s, j, sent, retry
<1>9. /\ p.status = cause /\ p.stopping = TRUE /\ p.active = TRUE /\ p.configured = x.p.configured
      /\ p.ticket = x.p.ticket /\ p.cancelSent = sent
  BY <1>2, UnderWayFacts, Zenon DEF PlaybackType
<1>10. p \in PlaybackType
  <2>1. x.p \in PlaybackType /\ cause \in Cause
    BY <1>2, <1>3, UnderWayFacts
  <2> QED BY <2>1, <1>8 DEF PlaybackType
<1> SUFFICES /\ PlaybackInv(y) /\ y.p.active /\ y.p.stopping /\ y.j.published = x.j.published
             /\ x.p.status # "ok" => y.p.status = x.p.status
  BY <1>1
<1> HIDE DEF p
<1>11. y.p = p /\ y.s = s /\ y.j = j /\ y \in PlaybackState
  BY <1>5, <1>7, <1>10 DEF PlaybackState
<1> HIDE DEF y
<1>12. PartsFit(y)
  BY <1>4, <1>6, <1>11 DEF PartsFit
<1>13. CoreFits(y) /\ CauseFits(y)
  <2>1. CASE x.p.configured
    BY <1>2, <1>3, <1>4, <1>6, <1>8, <1>9, <1>11, <2>1 DEF CoreFits, CauseFits, S!Halted
  <2>2. CASE ~x.p.configured
    BY <1>2, <1>3, <1>4, <1>6, <1>8, <1>9, <1>11, <2>2 DEF CoreFits, CauseFits
  <2> QED BY <2>1, <2>2
<1> QED BY <1>3, <1>4, <1>9, <1>11, <1>12, <1>13 DEF PlaybackInv

-----------------------------------------------------------------------------
(* complete_pending(), settle_for_stop(), release_if_finished().           *)

(* What a change of the ticket, or of a flag of its step, keeps.           *)
SameRecord(p, q) ==
  /\ q.active = p.active /\ q.configured = p.configured /\ q.stopping = p.stopping
  /\ q.cancelSent = p.cancelSent /\ q.retry = p.retry /\ q.status = p.status

(* A ticket settled leaves the rest of the record alone.                   *)
LEMMA SettledFacts ==
  ASSUME NEW x, PartsFit(x), NEW s, S!SchedulerInv(s)
  PROVE  LET y == Settled(x, s)
         IN  /\ PartsFit(y) /\ y.s = s /\ y.j = x.j /\ y.p.ticket = S!NoAction /\ SameRecord(x.p, y.p)
             /\ ~HasTicket(y)
<1> DEFINE p == [x.p EXCEPT !.ticket = S!NoAction, !.decoded = FALSE, !.finishing = FALSE]
           y == Settled(x, s)
<1>1. SameRecord(x.p, p) /\ p.ticket = S!NoAction
  BY UnderWayFacts, Zenon DEF SameRecord, PlaybackType
<1>2. S!NoAction \in S!Action /\ S!NoAction.token = 0
  BY DEF S!NoAction, S!Action, S!Kind
<1>3. p \in PlaybackType
  BY <1>2, UnderWayFacts DEF PlaybackType
<1>4. y = [x EXCEPT !.s = s, !.p = p]
  BY DEF Settled
<1> HIDE DEF p
<1>5. y.s = s /\ y.j = x.j /\ y.p = p
  BY <1>4, UnderWayFacts, Zenon
<1>6. y \in PlaybackState
  <2>1. s \in S!SchedulerType /\ x \in PlaybackState
    BY DEF S!SchedulerInv, PartsFit
  <2> QED BY <1>3, <1>4, <2>1 DEF PlaybackState
<1> HIDE DEF y
<1>7. PartsFit(y)
  BY <1>5, <1>6, UnderWayFacts DEF PartsFit
<1> QED BY <1>1, <1>2, <1>5, <1>7 DEF HasTicket, y

(* complete_pending(): the ticket is settled, or the playback fails.       *)
LEMMA CompleteSettles ==
  ASSUME NEW x, UnderWay(x), CauseFits(x), ~x.p.stopping, x.p.configured, HasTicket(x),
         NEW result \in Cause, NEW n
  PROVE  LET c == CompletePending(x, result, n)
             u == S!CompleteOp(x.s, x.s.pending, result, n)
         IN  \/ Fell(x, c)
             \/ /\ result = "ok" /\ c = Progress(Settled(x, u)) /\ u.status = "ok"
                /\ S!Completes(x.s, u, result)
<1> DEFINE c == CompletePending(x, result, n)
           u == S!CompleteOp(x.s, x.s.pending, result, n)
           y == Settled(x, u)
<1>1. PartsFit(x) /\ CoreFits(x) /\ S!SchedulerInv(x.s) /\ x.s.pending = x.p.ticket /\ x.p.active
  BY DEF UnderWay, PartsFit, CoreFits
<1>2. S!Pending(x.s) /\ result \in S!StatusCode
  BY <1>1, Codes DEF S!Pending, HasTicket
<1>3. S!Completes(x.s, u, result) /\ S!CompleteStatus(x.s, x.s.pending, result, n) = u.status
  BY <1>1, <1>2, SchedulerCompletes
<1>4. x.s.status = "ok" /\ x.p.status = "ok"
  BY DEF CauseFits
<1>5. S!IsOpen(x.s)
  BY <1>1, <1>2, <1>4 DEF S!SchedulerInv, S!Flags, S!IsOpen, CoreFits
<1>6. u.status \in Cause
  BY <1>3, <1>5 DEF S!Completes, Cause, S!StatusCode
<1>7. \/ c = LatchFailure(y, result) /\ result # "ok"
      \/ c = LatchFailure(y, u.status) /\ u.status # "ok"
      \/ c = Progress(y) /\ result = "ok" /\ u.status = "ok"
  BY <1>1, <1>3 DEF CompletePending, S!Completes
<1>8. /\ PartsFit(y) /\ y.s = u /\ y.j = x.j /\ y.p.ticket = S!NoAction /\ SameRecord(x.p, y.p)
  BY <1>1, <1>3, SettledFacts DEF S!Completes
<1> SUFFICES \/ Fell(x, c)
             \/ c = Progress(y) /\ result = "ok" /\ u.status = "ok"
  BY <1>3
<1> HIDE DEF y, u, c
<1>9. ASSUME NEW code \in Cause \ {"ok"}, c = LatchFailure(y, code), u.status # "ok"
      PROVE  Fell(x, c)
  <2>1. UnderWay(y)
    <3>1. u.state # "completed"
      BY <1>9, <1>3 DEF S!Completes, S!SchedulerInv, S!Flags
    <3>2. CoreFits(y)
      BY <1>1, <1>3, <1>8, <3>1 DEF CoreFits, S!Completes, SameRecord
    <3> QED BY <1>1, <1>8, <3>2 DEF UnderWay, SameRecord
  <2>2. Fell(y, c)
    BY <1>9, <2>1, LatchFalls
  <2> QED BY <1>8, <2>2 DEF Fell, SameRecord
<1>10. result # "ok" => u.status # "ok"
  BY <1>3 DEF S!Completes
<1> QED BY <1>6, <1>7, <1>9, <1>10
(* A playback that stops, before and after its ticket is settled.          *)
Ending(x) == UnderWay(x) /\ CauseFits(x) /\ x.p.stopping

(* A playback that stops, as its invariant and by its parts.               *)
LEMMA EndingFacts ==
  ASSUME NEW x
  PROVE  /\ PlaybackInv(x) /\ x.p.active /\ x.p.stopping => Ending(x)
         /\ Ending(x) => PlaybackInv(x) /\ x.p.active /\ x.p.stopping /\ x.p.status # "ok"
BY DEF Ending, UnderWay, PlaybackInv, CauseFits

(* settle_for_stop().                                                      *)
LEMMA StopSettles ==
  ASSUME NEW x, Ending(x)
  PROVE  LET y == SettleForStop(x)
         IN  Ending(y) /\ ~HasTicket(y) /\ y.j = x.j /\ SameRecord(x.p, y.p)
<1> DEFINE u == S!CompleteOp(x.s, x.p.ticket, "ok", 0)
           y == Settled(x, u)
<1>1. PartsFit(x) /\ CoreFits(x) /\ S!SchedulerInv(x.s) /\ x.p.active /\ x.p.stopping /\ x.p.status # "ok"
  BY DEF Ending, UnderWay, PartsFit, CauseFits
<1>2. CASE ~HasTicket(x)
  BY <1>2 DEF SettleForStop, SameRecord
<1>3. CASE HasTicket(x)
  <2>1. x.p.configured /\ x.s.pending = x.p.ticket /\ S!Pending(x.s)
    BY <1>1, <1>3 DEF CoreFits, HasTicket, S!NoAction, S!Pending
  <2>2. S!Completes(x.s, u, "ok")
    BY <1>1, <2>1, SchedulerCompletes, Codes
  <2>3. SettleForStop(x) = y
    BY <1>3, <2>2 DEF SettleForStop, S!Completes
  <2>4. /\ PartsFit(y) /\ y.s = u /\ y.j = x.j /\ y.p.ticket = S!NoAction /\ SameRecord(x.p, y.p)
        /\ ~HasTicket(y)
    BY <1>1, <2>2, SettledFacts DEF S!Completes
  <2>5. x.s.status # "ok"
    BY <1>1, <2>1 DEF Ending, CauseFits
  <2> HIDE DEF u, y
  <2>6. u.status # "ok" /\ u.state \notin {"unconfigured", "completed"}
    BY <2>2, <2>5 DEF S!Completes
  <2>7. CoreFits(y) /\ CauseFits(y)
    BY <1>1, <2>1, <2>2, <2>4, <2>6 DEF CoreFits, CauseFits, S!Completes, SameRecord
  <2>8. Ending(y)
    BY <1>1, <2>4, <2>7 DEF Ending, UnderWay, SameRecord
  <2> QED BY <2>3, <2>4, <2>8
<1> QED BY <1>2, <1>3

(* The end of a playback that was stopped: the job holds nothing, the      *)
(* scheduler is released, the first cause stays.                           *)
LEMMA StopReleases ==
  ASSUME NEW x, Ending(x), ~HasTicket(x), ~Busy(x.j)
  PROVE  LET e == ReleaseIfFinished(x)
         IN  PlaybackInv(e) /\ ~e.p.active /\ e.j = x.j /\ e.p.status = x.p.status
<1>1. /\ PartsFit(x) /\ CoreFits(x) /\ CauseFits(x) /\ S!SchedulerInv(x.s) /\ x \in PlaybackState
      /\ x.p.status # "ok" /\ x.p.stopping
  BY DEF Ending, UnderWay, PartsFit, CauseFits
<1> DEFINE q == [x.p EXCEPT !.active = FALSE]
<1>2. q.active = FALSE /\ q.status = x.p.status /\ q \in PlaybackType
  <2>1. q.active = FALSE /\ q.status = x.p.status
    BY <1>1, UnderWayFacts, Zenon DEF PlaybackType
  <2>2. q \in PlaybackType
    BY <1>1, UnderWayFacts DEF PlaybackType
  <2> QED BY <2>1, <2>2
<1>3. ASSUME NEW s, S!SchedulerInv(s), ~S!Pending(s), s.released, NEW e, e = [x EXCEPT !.s = s, !.p = q]
      PROVE  PlaybackInv(e) /\ ~e.p.active /\ e.j = x.j /\ e.p.status = x.p.status
  <2> HIDE DEF q
  <2>1. e.s = s /\ e.p = q /\ e.j = x.j
    BY <1>1, <1>3, UnderWayFacts, Zenon
  <2>2. e \in PlaybackState
    BY <1>1, <1>2, <1>3 DEF PlaybackState, S!SchedulerInv
  <2>3. PartsFit(e)
    BY <1>1, <1>3, <2>1, <2>2, UnderWayFacts DEF PartsFit
  <2> QED BY <1>2, <1>3, <2>1, <2>3 DEF PlaybackInv
<1>4. CASE ~x.p.configured
  <2>1. ReleaseIfFinished(x) = [x EXCEPT !.p = q]
    BY <1>4 DEF ReleaseIfFinished
  <2>2. [x EXCEPT !.p = q] = [x EXCEPT !.s = x.s, !.p = q]
    BY <1>1 DEF PlaybackState
  <2>3. ~S!Pending(x.s) /\ x.s.released
    BY <1>1, <1>4 DEF CoreFits
  <2> QED BY <1>1, <1>3, <2>1, <2>2, <2>3
<1>5. CASE x.p.configured
  <2>1. ~S!Pending(x.s) /\ x.s.state \notin {"unconfigured", "completed", "ready", "running"}
    <3>1. x.s.pending = x.p.ticket /\ x.s.status # "ok"
      BY <1>1, <1>5 DEF CoreFits, CauseFits
    <3> QED BY <1>1, <3>1 DEF HasTicket, S!Pending, S!SchedulerInv, S!Flags
  <2> DEFINE v == IF S!IsTerminal(x.s) THEN x.s ELSE S!FailOp(x.s, x.p.status)
             ended == [x EXCEPT !.p.status = IF @ = "ok" THEN "internal_error" ELSE @]
             y == IF S!IsTerminal(x.s) THEN x ELSE [ended EXCEPT !.s = S!FailOp(x.s, ended.p.status)]
  <2>2. S!SchedulerInv(v) /\ ~S!Pending(v) /\ S!IsTerminal(v)
    <3>1. CASE S!IsTerminal(x.s)
      BY <1>1, <2>1, <3>1
    <3>2. CASE ~S!IsTerminal(x.s)
      <4>1. v = S!Latch(x.s, x.p.status, "failed")
        BY <2>1, <3>2 DEF S!FailOp
      <4>2. v.state = "failed" /\ v.pending = x.s.pending
        BY <1>1, <4>1, UnderWayFacts, Zenon DEF S!Latch, S!SchedulerType
      <4>3. S!SchedulerInv(v)
        <5>1. x.p.status \in S!StatusCode
          BY <1>1, UnderWayFacts, Codes
        <5> QED BY <1>1, <3>2, <5>1, SchedulerHalts DEF S!Halted
      <4> QED BY <2>1, <4>2, <4>3 DEF S!IsTerminal, S!Pending
    <3> QED BY <3>1, <3>2
  <2>3. ended = x
    BY <1>1 DEF PlaybackState, PlaybackType
  <2> HIDE DEF ended
  <2>4. y = [x EXCEPT !.s = v]
    <3>1. [x EXCEPT !.s = x.s] = x
      BY <1>1 DEF PlaybackState
    <3> QED BY <2>3, <3>1
  <2>5. ReleaseIfFinished(x) = [y EXCEPT !.s = S!ReleaseOp(@), !.p.active = FALSE]
    BY <1>5, <2>1 DEF ReleaseIfFinished, ended
  <2> HIDE DEF v, y
  <2>6. y.s = v /\ y.p = x.p /\ y \in PlaybackState
    BY <1>1, <2>2, <2>4 DEF PlaybackState, S!SchedulerInv
  <2>7. [y EXCEPT !.s = S!ReleaseOp(@), !.p.active = FALSE] = [x EXCEPT !.s = S!ReleaseOp(v), !.p = q]
    BY <1>1, <2>4, <2>6 DEF PlaybackState
  <2>8. S!SchedulerInv(S!ReleaseOp(v)) /\ S!ReleaseOp(v).released /\ ~S!Pending(S!ReleaseOp(v))
    BY <2>2, SchedulerReleases DEF S!SameRun, S!Pending
  <2> QED BY <1>3, <2>5, <2>7, <2>8
<1> QED BY <1>4, <1>5
(* stop_step(): the job is cancelled, once, and stepped to its end; a      *)
(* failed cleanup waits for STOP.                                          *)
LEMMA StopSteps ==
  ASSUME NEW x, PlaybackInv(x), x.p.active, x.p.stopping, NEW outcome \in Outcome
  PROVE  LET r == StopStep(x, outcome)
         IN  /\ PlaybackInv(r.x) /\ r.ret # "ok" /\ r.frames = 0 /\ (r.x.p.active => r.x.p.stopping)
             /\ r.x.p.status = x.p.status /\ r.x.j.published = x.j.published
             /\ x.j.phase = "cleanup_failed" /\ ~x.p.retry => r.x.p.active /\ r.x.j = x.j /\ r.x.p.retry = x.p.retry
<1> DEFINE z == SettleForStop(x)
           c == IF z.p.cancelSent THEN Return(z.j, "ok") ELSE JobCancel(z.j)
           t == JobStep(c.job, outcome)
           u == t.job
           failed == u.phase \in {"cleanup_failed", "failed"}
           after == [z EXCEPT !.j = u, !.p.retry = FALSE, !.p.cancelSent = @ \/ c.ret = "ok",
                       !.p.status = IF @ = "ok" /\ failed THEN OrTicketError(u.status) ELSE @]
           waiting == [z EXCEPT !.p.status = IF @ = "ok" THEN OrTicketError(z.j.status) ELSE @]
           r == StopStep(x, outcome)
           held == x.j.phase = "cleanup_failed" /\ ~x.p.retry
<1>1. Ending(z) /\ ~HasTicket(z) /\ z.j = x.j /\ SameRecord(x.p, z.p)
  BY EndingFacts, StopSettles
<1>2. /\ PartsFit(z) /\ CoreFits(z) /\ CauseFits(z) /\ z.p.active /\ z.p.stopping /\ z.p.status # "ok"
      /\ z \in PlaybackState /\ z.p \in PlaybackType /\ JobFits(z.j) /\ JobAnswers(z.j)
      /\ z.p.status = x.p.status /\ z.p.retry = x.p.retry /\ PlaybackInv(z)
  <2> HIDE DEF z
  <2>1. PartsFit(z) /\ CoreFits(z) /\ CauseFits(z) /\ z.p.active /\ z.p.stopping
    BY <1>1, Zenon DEF Ending, UnderWay
  <2>2. PlaybackInv(z) /\ z.p.status # "ok"
    BY <1>1, EndingFacts
  <2>3. z \in PlaybackState /\ z.p \in PlaybackType /\ JobFits(z.j) /\ JobAnswers(z.j)
    BY <2>1, UnderWayFacts DEF PartsFit
  <2>4. z.p.status = x.p.status /\ z.p.retry = x.p.retry
    BY <1>1 DEF SameRecord
  <2> QED BY <2>1, <2>2, <2>3, <2>4, Zenon
<1>3. \/ /\ ~Busy(z.j)
         /\ r = LET e == ReleaseIfFinished(z) IN Result(e, e.p.status)
      \/ /\ Busy(z.j) /\ z.j.phase = "cleanup_failed" /\ ~z.p.retry
         /\ r = Result(waiting, waiting.p.status)
      \/ /\ Busy(z.j) /\ ~(z.j.phase = "cleanup_failed" /\ ~z.p.retry) /\ Busy(u)
         /\ r = Result(after, after.p.status)
      \/ /\ Busy(z.j) /\ ~(z.j.phase = "cleanup_failed" /\ ~z.p.retry) /\ ~Busy(u)
         /\ r = LET e == ReleaseIfFinished(after) IN Result(e, e.p.status)
  BY <1>1, Zenon DEF StopStep
<1> SUFFICES /\ PlaybackInv(r.x) /\ r.ret # "ok" /\ r.frames = 0 /\ (r.x.p.active => r.x.p.stopping)
             /\ r.x.p.status = x.p.status /\ r.x.j.published = x.j.published
             /\ held => r.x.p.active /\ r.x.j = x.j /\ r.x.p.retry = x.p.retry
  OBVIOUS
<1>4. held => Busy(z.j)
  BY <1>1, <1>2 DEF JobAnswers, Busy
<1> HIDE DEF z, r
<1>5. CASE ~Busy(z.j) /\ r = LET e == ReleaseIfFinished(z) IN Result(e, e.p.status)
  <2> DEFINE e == ReleaseIfFinished(z)
  <2>1. PlaybackInv(e) /\ ~e.p.active /\ e.j = z.j /\ e.p.status = z.p.status
    BY <1>1, <1>5, StopReleases
  <2>2. r.x = e /\ r.ret = e.p.status /\ r.frames = 0
    BY <1>5 DEF Result
  <2> QED BY <1>1, <1>2, <1>4, <1>5, <2>1, <2>2
<1>6. CASE Busy(z.j) /\ r = Result(waiting, waiting.p.status)
  <2>1. waiting = z
    BY <1>2 DEF PlaybackState, PlaybackType
  <2> HIDE DEF waiting
  <2>2. r.x = z /\ r.ret = z.p.status /\ r.frames = 0
    BY <1>6, <2>1 DEF Result
  <2> QED BY <1>1, <1>2, <2>2
<1>7. CASE Busy(z.j) /\ ~(z.j.phase = "cleanup_failed" /\ ~z.p.retry)
  <2>1. /\ c.ret = "ok" /\ JobFits(c.job) /\ JobAnswers(c.job) /\ c.job.cancel = TRUE
        /\ c.job.work = z.j.work /\ c.job.managed = z.j.managed /\ c.job.published = z.j.published
    <3>1. CASE z.p.cancelSent
      <4>1. z.j.cancel = TRUE
        BY <1>2, <3>1, UnderWayFacts DEF CoreFits, JobType
      <4> QED BY <1>2, <3>1, <4>1 DEF Return
    <3>2. CASE ~z.p.cancelSent
      BY <1>2, <1>7, <3>2, CancelTells
    <3> QED BY <3>1, <3>2
  <2>2. c.job.work \notin {"idle", "terminal"}
    BY <1>2, <1>7, <2>1 DEF Busy, JobFits, JobEnds
  <2>3. z.p.cancelSent \/ c.ret = "ok"
    BY <2>1
  <2> HIDE DEF c
  <2>4. /\ JobFits(u) /\ JobAnswers(u) /\ SameOrder(c.job, u) /\ u.published = c.job.published
        /\ u.work \in {"cleanup", "terminal"}
    BY <2>1, <2>2, StepEnding
  <2>5. u.cancel = TRUE /\ u.managed = z.j.managed /\ u.published = x.j.published /\ u.work # "idle"
    BY <1>1, <2>1, <2>4 DEF SameOrder
  <2> DEFINE q == [z.p EXCEPT !.retry = FALSE, !.cancelSent = TRUE, !.status = z.p.status]
  <2> HIDE DEF u
  <2>6. after = [z EXCEPT !.j = u, !.p = q]
    <3> DEFINE sent == z.p.cancelSent \/ c.ret = "ok"
               status == IF z.p.status = "ok" /\ failed THEN OrTicketError(u.status) ELSE z.p.status
    <3>1. after = [z EXCEPT !.j = u, !.p.retry = FALSE, !.p.cancelSent = sent, !.p.status = status]
      BY <1>2 DEF PlaybackState, PlaybackType
    <3>2. sent = TRUE /\ status = z.p.status
      BY <1>2, <2>3
    <3> HIDE DEF sent, status
    <3> HIDE DEF after
    <3>3. after = [z EXCEPT !.j = u, !.p.retry = FALSE, !.p.cancelSent = TRUE, !.p.status = z.p.status]
      BY <3>1, <3>2
    <3>4. [z EXCEPT !.j = u, !.p.retry = FALSE, !.p.cancelSent = TRUE, !.p.status = z.p.status] = [z EXCEPT !.j = u, !.p = q]
      BY <1>2 DEF PlaybackState
    <3> QED BY <3>3, <3>4
  <2>7. /\ q.active = z.p.active /\ q.configured = z.p.configured /\ q.stopping = z.p.stopping
        /\ q.ticket = z.p.ticket /\ q.status = z.p.status /\ q.retry = FALSE /\ q.cancelSent = TRUE
    BY <1>2, Zenon DEF PlaybackType
  <2>8. q \in PlaybackType
    BY <1>2 DEF PlaybackType
  <2> HIDE DEF q
  <2>9. after.j = u /\ after.p = q /\ after.s = z.s
    BY <1>2, <2>6, UnderWayFacts, Zenon
  <2>10. after \in PlaybackState
    BY <1>2, <2>4, <2>6, <2>8 DEF PlaybackState, JobFits, JobSound
  <2> HIDE DEF after
  <2>11. PartsFit(after)
    BY <1>2, <2>4, <2>9, <2>10 DEF PartsFit
  <2>12. CoreFits(after) /\ CauseFits(after)
    BY <1>2, <2>5, <2>7, <2>9 DEF CoreFits, CauseFits
  <2>13. Ending(after) /\ ~HasTicket(after)
    BY <1>1, <1>2, <2>7, <2>9, <2>11, <2>12 DEF Ending, UnderWay, HasTicket
  <2>14. ~held
    BY <1>1, <1>2, <1>7
  <2>15. after.p.status = x.p.status /\ after.j.published = x.j.published
    BY <1>2, <2>5, <2>7, <2>9
  <2>16. CASE r = Result(after, after.p.status)
    <3>1. r.x = after /\ r.ret = after.p.status /\ r.frames = 0
      BY <2>16 DEF Result
    <3> QED BY <1>2, <2>13, <2>14, <2>15, <3>1, EndingFacts
  <2>17. CASE ~Busy(u) /\ r = LET e == ReleaseIfFinished(after) IN Result(e, e.p.status)
    <3> DEFINE e == ReleaseIfFinished(after)
    <3>1. PlaybackInv(e) /\ ~e.p.active /\ e.j = after.j /\ e.p.status = after.p.status
      BY <2>9, <2>13, <2>17, StopReleases
    <3>2. r.x = e /\ r.ret = e.p.status /\ r.frames = 0
      BY <2>17 DEF Result
    <3> QED BY <1>2, <2>14, <2>15, <3>1, <3>2
  <2> QED BY <1>2, <1>3, <1>7, <2>16, <2>17 DEF u, after
<1> QED BY <1>3, <1>5, <1>6, <1>7
-----------------------------------------------------------------------------
(* A step of a playback that goes on.                                      *)

Going(x) == PlaybackInv(x) /\ x.p.active /\ ~x.p.stopping

(* The frames read are the frames the scheduler counts as read.            *)
Flowed(x, r) ==
  IF x.p.configured
  THEN /\ r.x.p.configured /\ r.x.s.read = x.s.read + r.frames
       /\ r.x.s.consumed = x.s.consumed /\ r.x.s.started = x.s.started
  ELSE r.frames = 0 /\ (r.x.p.configured => r.x.s.read = 0 /\ r.x.s.consumed = 0)

GoesOn(x, r)  == Going(r.x) /\ r.ret = "ok" /\ r.frames \in Nat /\ Flowed(x, r)
Breaks(r)     == PlaybackInv(r.x) /\ r.x.p.active /\ r.x.p.stopping /\ r.ret # "ok" /\ r.frames = 0
Completed(r)  ==
  /\ PlaybackInv(r.x) /\ ~r.x.p.active /\ ~r.x.p.stopping /\ r.ret = "ok" /\ r.frames = 0 /\ r.x.p.status = "ok"
  /\ r.x.s.state = "completed" /\ r.x.s.consumed = r.x.j.source /\ r.x.j.phase = "complete"

(* The artifact is published only once the whole of it has been played.    *)
Publishes(x, drained, r) ==
  ~x.j.published /\ r.x.j.published =>
    drained /\ x.p.configured /\ x.s.read = x.j.source /\ r.x.j.source = x.j.source

StepsTo(x, drained, r) ==
  (GoesOn(x, r) \/ Breaks(r) \/ Completed(r)) /\ Publishes(x, drained, r)

(* A call that fails is a step that breaks.                                *)
LEMMA FellSteps ==
  ASSUME NEW x, NEW y, NEW r, Fell(y, r), y.j.published = x.j.published, NEW drained
  PROVE  StepsTo(x, drained, r)
BY DEF Fell, StepsTo, Breaks, Publishes

(* What holds of a playback that goes on.                                  *)
LEMMA GoingFacts ==
  ASSUME NEW x, Going(x)
  PROVE  /\ UnderWay(x) /\ PartsFit(x) /\ CoreFits(x) /\ CauseFits(x) /\ GoingFits(x)
         /\ x.p.status = "ok" /\ x.p.active = TRUE /\ x.p.stopping = FALSE /\ x.j.cancel = FALSE
         /\ x \in PlaybackState /\ x.p \in PlaybackType /\ x.j \in JobType /\ JobFits(x.j) /\ JobAnswers(x.j)
         /\ S!SchedulerInv(x.s) /\ x.j.source \in Nat
<1>1. UnderWay(x) /\ PartsFit(x) /\ CoreFits(x) /\ CauseFits(x) /\ GoingFits(x) /\ x.p.status = "ok"
  BY DEF Going, PlaybackInv, UnderWay, CauseFits
<1>2. /\ x \in PlaybackState /\ x.p \in PlaybackType /\ x.j \in JobType /\ JobFits(x.j) /\ JobAnswers(x.j)
      /\ S!SchedulerInv(x.s)
  BY <1>1, UnderWayFacts DEF PartsFit
<1>3. x.p.active = TRUE /\ x.p.stopping = FALSE
  BY <1>2 DEF Going, PlaybackType
<1>4. x.j.cancel = FALSE /\ x.j.source \in Nat
  BY <1>1, <1>2 DEF GoingFits, JobType
<1> QED BY <1>1, <1>2, <1>3, <1>4

(* A call of the job changes the job only.                                 *)
LEMMA WithJobFacts ==
  ASSUME NEW x, PartsFit(x), NEW r, JobFits(r.job), JobAnswers(r.job)
  PROVE  LET y == WithJob(x, r)
         IN  y.p = x.p /\ y.s = x.s /\ y.j = r.job /\ PartsFit(y)
<1> DEFINE u == r.job
           y == [x EXCEPT !.j = u]
<1>1. u \in JobType /\ JobFits(u) /\ JobAnswers(u)
  BY DEF JobFits, JobSound
<1> HIDE DEF u
<1>2. y.p = x.p /\ y.s = x.s /\ y.j = u
  BY UnderWayFacts, Zenon
<1>3. y \in PlaybackState
  BY <1>1 DEF PartsFit, PlaybackState
<1> HIDE DEF y
<1>4. PartsFit(y)
  BY <1>1, <1>2, <1>3, UnderWayFacts DEF PartsFit
<1> QED BY <1>2, <1>4 DEF WithJob, u, y

(* The cursors meet again once the ticket is settled.                      *)
Meets(x, u) == \A v : S!Moved(x.s, v, x.p.ticket) => CursorsMeet(v, u)

(* A ticket other than finalize finds the job rendering, in step.          *)
LEMMA DriveFacts ==
  ASSUME NEW x, Going(x), x.p.configured, HasTicket(x), x.p.ticket.kind # "finalize"
  PROVE  /\ Driven(x.j) /\ CursorsMeet(x.s, x.j) /\ x.j.phase = "rendering"
         /\ x.s.pending = x.p.ticket /\ S!Pending(x.s) /\ S!Fits(x.s, x.p.ticket)
         /\ x.p.ticket \in S!Action
         /\ x.s.produced \in Nat /\ x.s.written \in Nat /\ x.s.committed \in Nat /\ x.s.read \in Nat
<1>1. x.j.managed = TRUE /\ x.j.work \in Rendering
  BY GoingFacts DEF GoingFits, JobType
<1>2. Driven(x.j)
  BY <1>1, GoingFacts DEF Driven
<1>3. x.j.phase = "rendering" /\ CursorsMeet(x.s, x.j)
  BY <1>2, DrivenFacts, GoingFacts DEF GoingFits
<1>4. x.s.pending = x.p.ticket /\ S!Pending(x.s)
  BY GoingFacts DEF CoreFits, HasTicket, S!Pending
<1>5. S!Fits(x.s, x.p.ticket) /\ x.p.ticket \in S!Action
  BY <1>4, GoingFacts DEF S!SchedulerInv, S!PendingFits, PlaybackType
<1>6. x.s.produced \in Nat /\ x.s.written \in Nat /\ x.s.committed \in Nat /\ x.s.read \in Nat
  BY GoingFacts DEF S!SchedulerInv, S!SchedulerType
<1> QED BY <1>2, <1>3, <1>4, <1>5, <1>6

(* The ticket of a call that drove the job is settled.                     *)
LEMMA DriveSettles ==
  ASSUME NEW x, Going(x), x.p.configured, HasTicket(x), x.p.ticket.kind # "finalize",
         NEW t, Driving(x.j, t), t.ret = "ok" => t.job.work \in Rendering /\ Meets(x, t.job), NEW n, NEW drained
  PROVE  LET c == CompletePending(WithJob(x, t), t.ret, n)
         IN  \/ StepsTo(x, drained, c) /\ c.ret # "ok"
             \/ /\ t.ret = "ok" /\ c.ret = "ok" /\ c.frames = 0 /\ Going(c.x) /\ c.x.j.published = x.j.published
                /\ c.x.p.configured /\ S!Moved(x.s, c.x.s, x.p.ticket)
<1> DEFINE y == WithJob(x, t)
           c == CompletePending(y, t.ret, n)
           v == S!CompleteOp(y.s, y.s.pending, t.ret, n)
           z == Settled(y, v)
<1>1. JobFits(t.job) /\ JobAnswers(t.job) /\ t.ret \in Cause /\ t.job.published = x.j.published
  BY Codes DEF Driving
<1>2. y.p = x.p /\ y.s = x.s /\ y.j = t.job /\ PartsFit(y)
  BY <1>1, GoingFacts, WithJobFacts
<1>3. t.job.cancel = FALSE /\ t.job.managed = TRUE /\ t.job.source = x.j.source /\ t.job.work # "idle"
  BY DriveFacts, GoingFacts DEF Driving, SameOrder, Driven, Rendering
<1> HIDE DEF y
<1>4. UnderWay(y) /\ CauseFits(y) /\ ~y.p.stopping /\ y.p.configured /\ HasTicket(y)
  BY <1>2, <1>3, GoingFacts DEF UnderWay, CoreFits, CauseFits, HasTicket
<1>5. \/ Fell(y, c)
      \/ t.ret = "ok" /\ c = Progress(z) /\ v.status = "ok" /\ S!Completes(y.s, v, t.ret)
  BY <1>1, <1>4, CompleteSettles
<1> SUFFICES \/ StepsTo(x, drained, c) /\ c.ret # "ok"
             \/ /\ t.ret = "ok" /\ c.ret = "ok" /\ c.frames = 0 /\ Going(c.x) /\ c.x.j.published = x.j.published
                /\ c.x.p.configured /\ S!Moved(x.s, c.x.s, x.p.ticket)
  BY DEF y
<1> HIDE DEF c, v, z
<1>6. CASE Fell(y, c)
  <2>1. StepsTo(x, drained, c)
    BY <1>1, <1>2, <1>6, FellSteps
  <2> QED BY <1>6, <2>1 DEF Fell
<1>7. CASE t.ret = "ok" /\ c = Progress(z) /\ v.status = "ok" /\ S!Completes(y.s, v, t.ret)
  <2>1. S!Moved(x.s, v, x.p.ticket) /\ v.config = x.s.config /\ v.released = x.s.released /\ S!SchedulerInv(v)
        /\ v.pending = S!NoAction
    BY <1>2, <1>7, DriveFacts DEF S!Completes
  <2>2. /\ PartsFit(z) /\ z.s = v /\ z.j = t.job /\ z.p.ticket = S!NoAction /\ SameRecord(x.p, z.p)
    BY <1>2, <2>1, SettledFacts DEF z
  <2>3. t.job.work \in Rendering /\ CursorsMeet(v, t.job)
    BY <1>7, <2>1 DEF Meets
  <2>4. v.state = x.s.state
    BY <2>1 DEF S!Moved
  <2>5. CoreFits(z) /\ CauseFits(z) /\ z.p.configured
    BY <1>3, <1>7, <2>1, <2>2, <2>4, GoingFacts DEF CoreFits, CauseFits, SameRecord
  <2>6. GoingFits(z)
    <3>1. x.s.config = [Transport EXCEPT !.total = x.j.source]
      BY GoingFacts DEF GoingFits
    <3>2. z.s.config = [Transport EXCEPT !.total = z.j.source]
      BY <1>3, <2>1, <2>2, <3>1
    <3>3. CursorsMeet(z.s, z.j) /\ z.j.managed /\ z.j.work \in Rendering /\ ~z.j.cancel
      BY <1>3, <2>2, <2>3
    <3> QED BY <2>5, <3>2, <3>3 DEF GoingFits
  <2>7. Going(z)
    BY <2>2, <2>5, <2>6, GoingFacts DEF Going, PlaybackInv, SameRecord
  <2>8. c.x = z /\ c.ret = "ok" /\ c.frames = 0
    BY <1>7 DEF Progress, Result
  <2> QED BY <1>1, <1>7, <2>1, <2>2, <2>5, <2>7, <2>8
<1> QED BY <1>5, <1>6, <1>7
(* A call that leaves the scheduler and the ticket alone.                  *)
LEMMA StaysGoing ==
  ASSUME NEW x, Going(x), x.p.configured, HasTicket(x), NEW z, PartsFit(z), z.s = x.s,
         z.p.ticket = x.p.ticket, SameRecord(x.p, z.p), z.j.source = x.j.source, z.j.cancel = FALSE,
         z.j.work # "idle", z.j.phase = "rendering" => CursorsMeet(x.s, z.j),
         \/ z.j.managed /\ z.j.work \in Rendering
         \/ ~z.j.managed /\ z.p.finishing /\ x.p.ticket.kind = "finalize" /\ z.j.work \in Later \cup {"cleanup", "terminal"}
  PROVE  Going(z) /\ z.p.configured /\ HasTicket(z) /\ GoesOn(x, Progress(z))
<1>1. CoreFits(z) /\ CauseFits(z) /\ z.p.configured /\ z.p.active /\ ~z.p.stopping /\ HasTicket(z)
  BY GoingFacts DEF CoreFits, CauseFits, SameRecord, HasTicket
<1>2. z.s.config = [Transport EXCEPT !.total = z.j.source]
  <2>1. x.s.config = [Transport EXCEPT !.total = x.j.source]
    BY GoingFacts DEF GoingFits
  <2> QED BY <2>1
<1>3. GoingFits(z)
  <2>1. CASE z.j.managed
    BY <1>1, <1>2, <2>1 DEF GoingFits
  <2>2. CASE ~z.j.managed
    BY <1>1, <1>2, <2>2 DEF GoingFits
  <2> QED BY <2>1, <2>2
<1>4. Going(z)
  BY <1>1, <1>3 DEF Going, PlaybackInv
<1>5. x.s.read + 0 = x.s.read
  <2>1. x.s \in S!SchedulerType
    BY GoingFacts DEF S!SchedulerInv
  <2>2. x.s.read \in Nat
    BY <2>1 DEF S!SchedulerType
  <2> QED BY <2>2
<1>6. GoesOn(x, Progress(z))
  BY <1>1, <1>4, <1>5 DEF GoesOn, Flowed, Progress, Result
<1> QED BY <1>1, <1>4, <1>6

(* The frames of a settled ticket that reads nothing, and of one that does.*)
LEMMA SettledGoesOn ==
  ASSUME NEW x, Going(x), x.p.configured, NEW c, Going(c.x), c.x.p.configured, c.ret = "ok",
         c.x.j.published = x.j.published, x.p.ticket \in S!Action,
         S!Moved(x.s, c.x.s, x.p.ticket), c.frames = IF x.p.ticket.kind = "read" THEN x.p.ticket.frames ELSE 0,
         NEW drained
  PROVE  StepsTo(x, drained, c)
<1>1. c.frames \in Nat /\ x.s.read \in Nat
  <2>1. x.s \in S!SchedulerType
    BY GoingFacts DEF S!SchedulerInv
  <2>2. x.s.read \in Nat
    BY <2>1 DEF S!SchedulerType
  <2>3. c.frames \in Nat
    BY DEF S!Action
  <2> QED BY <2>2, <2>3
<1>2. c.x.s.read = x.s.read + c.frames /\ c.x.s.consumed = x.s.consumed /\ c.x.s.started = x.s.started
  BY <1>1 DEF S!Moved
<1>3. GoesOn(x, c)
  BY <1>1, <1>2 DEF GoesOn, Flowed
<1> QED BY <1>3 DEF StepsTo, Publishes

(* produce_step() under its ticket.                                        *)
LEMMA ProduceGoes ==
  ASSUME NEW x, Going(x), x.p.configured, HasTicket(x), x.p.ticket.kind = "produce",
         NEW outcome \in Outcome, NEW drained
  PROVE  StepsTo(x, drained, ProduceActionStep(x, outcome))
<1> DEFINE a == x.p.ticket
           t == ProduceStep(x.j, a.frames, outcome)
           y == WithJob(x, t)
           n == IF t.ret = "ok" THEN a.frames ELSE 0
           c == CompletePending(y, t.ret, n)
           z == [y EXCEPT !.p.decoded = TRUE]
           r == ProduceActionStep(x, outcome)
<1>1. Driven(x.j) /\ CursorsMeet(x.s, x.j) /\ S!Fits(x.s, a) /\ a \in S!Action /\ a.frames \in Nat
  BY DriveFacts DEF S!Action
<1>2. a.first = x.j.produced
  BY <1>1 DEF S!Fits, CursorsMeet
<1>3. \/ t.ret = "busy" /\ r = Progress(z)
      \/ r = c
  BY <1>2 DEF ProduceActionStep
<1>4. /\ Driving(x.j, t)
      /\ t.ret \in {"ok", "busy"} =>
           t.job.work \in Rendering /\ t.job.rendered = x.j.rendered /\ t.job.committed = x.j.committed
      /\ t.ret = "ok" => t.job.produced = x.j.produced + a.frames
      /\ t.ret = "busy" => t.job.produced = x.j.produced
  BY <1>1, ProduceTells
<1> SUFFICES StepsTo(x, drained, r)
  OBVIOUS
<1> HIDE DEF t, r, n
<1>5. CASE t.ret = "busy" /\ r = Progress(z)
  <2>1. y.p = x.p /\ y.s = x.s /\ y.j = t.job /\ PartsFit(y)
    BY <1>4, GoingFacts, WithJobFacts DEF Driving
  <2> HIDE DEF y
  <2>2. /\ z.s = y.s /\ z.j = y.j /\ SameRecord(y.p, z.p) /\ z.p.ticket = y.p.ticket
    BY <2>1, UnderWayFacts, Zenon DEF SameRecord, PlaybackFields
  <2>3. z \in PlaybackState
    BY <2>1 DEF PartsFit, PlaybackState, PlaybackType
  <2> HIDE DEF z
  <2>4. PartsFit(z)
    BY <2>1, <2>2, <2>3 DEF PartsFit
  <2>5. t.job.source = x.j.source /\ t.job.cancel = FALSE /\ t.job.managed = TRUE /\ t.job.work # "idle"
        /\ t.job.published = x.j.published
    BY <1>1, <1>4, <1>5 DEF Driving, SameOrder, Driven, Rendering
  <2>6. CursorsMeet(x.s, t.job)
    BY <1>1, <1>4, <1>5 DEF CursorsMeet
  <2>7. GoesOn(x, Progress(z))
    BY <1>4, <1>5, <2>1, <2>2, <2>4, <2>5, <2>6, StaysGoing
  <2>8. r.x.j.published = x.j.published
    BY <1>5, <2>1, <2>2, <2>5 DEF Progress, Result
  <2> QED BY <1>5, <2>7, <2>8 DEF StepsTo, Publishes
<1>6. CASE r = c
  <2>1. t.ret = "ok" => t.job.work \in Rendering /\ Meets(x, t.job)
    BY <1>1, <1>4 DEF Meets, S!Moved, CursorsMeet
  <2>2. \/ StepsTo(x, drained, c)
        \/ /\ c.ret = "ok" /\ c.frames = 0 /\ Going(c.x) /\ c.x.j.published = x.j.published
           /\ c.x.p.configured /\ S!Moved(x.s, c.x.s, a)
    BY <1>4, <2>1, DriveSettles
  <2> HIDE DEF c
  <2>3. c.frames = 0 => c.frames = IF a.kind = "read" THEN a.frames ELSE 0
    OBVIOUS
  <2> QED BY <1>1, <1>6, <2>2, <2>3, SettledGoesOn
<1> QED BY <1>3, <1>5, <1>6

(* append_produced() under its ticket.                                     *)
LEMMA WriteGoes ==
  ASSUME NEW x, Going(x), x.p.configured, HasTicket(x), x.p.ticket.kind = "write",
         NEW outcome \in Outcome, NEW drained
  PROVE  StepsTo(x, drained, WriteActionStep(x, outcome))
<1> DEFINE a == x.p.ticket
           t == AppendProduced(x.j, a.frames, outcome)
           n == IF t.ret = "ok" THEN a.frames ELSE 0
           c == CompletePending(WithJob(x, t), t.ret, n)
<1>1. Driven(x.j) /\ CursorsMeet(x.s, x.j) /\ S!Fits(x.s, a) /\ a \in S!Action /\ a.frames \in Nat
  BY DriveFacts DEF S!Action
<1>2. a.first = x.j.rendered
  BY <1>1 DEF S!Fits, CursorsMeet
<1>3. WriteActionStep(x, outcome) = c
  BY <1>2 DEF WriteActionStep
<1>4. /\ Driving(x.j, t)
      /\ t.ret = "ok" => /\ t.job.work \in Rendering /\ t.job.produced = x.j.produced /\ t.job.committed = x.j.committed
                         /\ t.job.rendered = x.j.rendered + a.frames
  BY <1>1, AppendTells
<1> HIDE DEF t, n
<1>5. t.ret = "ok" => Meets(x, t.job)
  BY <1>1, <1>4 DEF Meets, S!Moved, CursorsMeet
<1>6. \/ StepsTo(x, drained, c)
      \/ /\ c.ret = "ok" /\ c.frames = 0 /\ Going(c.x) /\ c.x.j.published = x.j.published
         /\ c.x.p.configured /\ S!Moved(x.s, c.x.s, a)
  BY <1>4, <1>5, DriveSettles
<1> HIDE DEF c
<1>7. c.frames = 0 => c.frames = IF a.kind = "read" THEN a.frames ELSE 0
  OBVIOUS
<1> QED BY <1>1, <1>3, <1>6, <1>7, SettledGoesOn

(* commit_prefix() under its ticket.                                       *)
LEMMA BarrierGoes ==
  ASSUME NEW x, Going(x), x.p.configured, HasTicket(x), x.p.ticket.kind = "barrier",
         NEW outcome \in Outcome, NEW drained
  PROVE  StepsTo(x, drained, BarrierActionStep(x, outcome))
<1> DEFINE a == x.p.ticket
           t == CommitPrefix(x.j, outcome)
           c == CompletePending(WithJob(x, t), t.ret, 0)
<1>1. Driven(x.j) /\ CursorsMeet(x.s, x.j) /\ a \in S!Action
  BY DriveFacts
<1>2. BarrierActionStep(x, outcome) = c
  BY DEF BarrierActionStep
<1>3. /\ Driving(x.j, t)
      /\ t.ret = "ok" => /\ t.job.work \in Rendering /\ t.job.produced = x.j.produced /\ t.job.rendered = x.j.rendered
                         /\ t.job.committed = x.j.rendered
  BY <1>1, CommitPrefixTells
<1> HIDE DEF t
<1>4. t.ret = "ok" => Meets(x, t.job)
  BY <1>1, <1>3 DEF Meets, S!Moved, CursorsMeet
<1>5. \/ StepsTo(x, drained, c)
      \/ /\ c.ret = "ok" /\ c.frames = 0 /\ Going(c.x) /\ c.x.j.published = x.j.published
         /\ c.x.p.configured /\ S!Moved(x.s, c.x.s, a)
  BY <1>3, <1>4, DriveSettles
<1> HIDE DEF c
<1>6. c.frames = 0 => c.frames = IF a.kind = "read" THEN a.frames ELSE 0
  OBVIOUS
<1> QED BY <1>1, <1>2, <1>5, <1>6, SettledGoesOn

(* read_prefix() under its ticket.                                         *)
LEMMA ReadGoes ==
  ASSUME NEW x, Going(x), x.p.configured, HasTicket(x), x.p.ticket.kind = "read",
         NEW outcome \in Outcome, NEW drained
  PROVE  StepsTo(x, drained, ReadActionStep(x, outcome))
<1> DEFINE a == x.p.ticket
           t == ReadPrefix(x.j, a.first, a.frames, outcome)
           n == IF t.ret = "ok" THEN a.frames ELSE 0
           c == CompletePending(WithJob(x, t), t.ret, n)
           d == [c EXCEPT !.frames = a.frames]
<1>1. Driven(x.j) /\ CursorsMeet(x.s, x.j) /\ a \in S!Action
  BY DriveFacts
<1>2. ReadActionStep(x, outcome) = IF c.ret = "ok" THEN d ELSE c
  BY DEF ReadActionStep
<1>3. Driving(x.j, t) /\ (t.ret = "ok" => t.job = x.j)
  BY <1>1, ReadPrefixTells
<1> HIDE DEF t, n
<1>4. t.ret = "ok" => t.job.work \in Rendering /\ Meets(x, t.job)
  BY <1>1, <1>3 DEF Meets, S!Moved, CursorsMeet, Driven
<1>5. \/ StepsTo(x, drained, c) /\ c.ret # "ok"
      \/ /\ c.ret = "ok" /\ Going(c.x) /\ c.x.j.published = x.j.published
         /\ c.x.p.configured /\ S!Moved(x.s, c.x.s, a)
  BY <1>3, <1>4, DriveSettles
<1>6. DOMAIN c = {"x", "ret", "frames"}
  BY DEF CompletePending, LatchFailure, Progress, Result
<1> HIDE DEF c
<1>7. d.x = c.x /\ d.ret = c.ret /\ d.frames = a.frames
  BY <1>6, Zenon
<1> HIDE DEF d
<1>8. d.frames = IF a.kind = "read" THEN a.frames ELSE 0
  BY <1>7
<1> QED BY <1>1, <1>2, <1>5, <1>7, <1>8, SettledGoesOn
(* A result of the job that fails the playback under its last ticket.      *)
LEMMA FinalizeBreaks ==
  ASSUME NEW x, Going(x), x.p.configured, HasTicket(x), NEW y, PartsFit(y), y.s = x.s, SameRecord(x.p, y.p),
         y.p.ticket = x.p.ticket, y.j.work # "idle", y.j.source = x.j.source,
         NEW result \in Cause \ {"ok"}, NEW drained,
         ~x.j.published /\ y.j.published => drained /\ x.s.read = x.j.source
  PROVE  StepsTo(x, drained, CompletePending(y, result, 0))
<1> DEFINE c == CompletePending(y, result, 0)
<1>1. UnderWay(y) /\ CauseFits(y) /\ ~y.p.stopping /\ y.p.configured /\ HasTicket(y)
  <2>1. ~y.p.cancelSent
    BY GoingFacts DEF SameRecord, CoreFits
  <2> QED BY <2>1, GoingFacts DEF UnderWay, CoreFits, CauseFits, HasTicket, SameRecord
<1>2. Fell(y, c)
  BY <1>1, CompleteSettles
<1> HIDE DEF c
<1>3. StepsTo(x, drained, c)
  BY <1>2 DEF Fell, StepsTo, Breaks, Publishes
<1> QED BY <1>3 DEF c

(* The last ticket is settled: the run is complete and released.           *)
LEMMA FinalizeCompletes ==
  ASSUME NEW x, Going(x), x.p.configured, HasTicket(x), x.p.ticket.kind = "finalize", ~Busy(x.j), x.j.phase = "complete"
  PROVE  LET c == CompletePending(x, "ok", 0)
         IN  \/ Fell(x, c) /\ c.ret # "ok"
             \/ c.ret = "ok" /\ Completed(Progress(ReleaseIfFinished(c.x))) /\ ReleaseIfFinished(c.x).j = x.j
<1> DEFINE c == CompletePending(x, "ok", 0)
           v == S!CompleteOp(x.s, x.s.pending, "ok", 0)
           z == Settled(x, v)
           q == [z.p EXCEPT !.active = FALSE]
           e == [z EXCEPT !.s = S!ReleaseOp(v), !.p = q]
<1>1. x.s.pending = x.p.ticket /\ x.s.config = [Transport EXCEPT !.total = x.j.source]
  BY GoingFacts DEF CoreFits, GoingFits
<1>2. \/ Fell(x, c)
      \/ c = Progress(z) /\ v.status = "ok" /\ S!Completes(x.s, v, "ok")
  BY GoingFacts, CompleteSettles, Codes
<1> SUFFICES ASSUME c = Progress(z), v.status = "ok", S!Completes(x.s, v, "ok")
             PROVE  c.ret = "ok" /\ Completed(Progress(ReleaseIfFinished(c.x))) /\ ReleaseIfFinished(c.x).j = x.j
  BY <1>2 DEF Fell
<1> HIDE DEF v
<1>3. S!SchedulerInv(v) /\ ~S!Pending(v) /\ v.state = "completed" /\ S!IsTerminal(v) /\ v.config = x.s.config
  BY <1>1 DEF S!Completes, S!Moved, S!IsTerminal
<1>4. v.consumed = x.j.source
  <2>1. S!AllAtTotal(v)
    BY <1>3 DEF S!SchedulerInv, S!Flags
  <2>2. v.config.total = x.j.source
    BY <1>1, <1>3, TransportFits DEF S!ConfigType
  <2> QED BY <2>1, <2>2 DEF S!AllAtTotal
<1>5. PartsFit(z) /\ z.s = v /\ z.j = x.j /\ SameRecord(x.p, z.p) /\ ~HasTicket(z)
  BY <1>3, GoingFacts, SettledFacts
<1> HIDE DEF z
<1>6. c.x = z /\ c.ret = "ok"
  BY DEF Progress, Result
<1>7. ReleaseIfFinished(z) = e
  <2>1. ReleaseIfFinished(z) = [z EXCEPT !.s = S!ReleaseOp(@), !.p.active = FALSE]
    BY <1>3, <1>5 DEF ReleaseIfFinished, SameRecord
  <2>2. z \in PlaybackState
    BY <1>5 DEF PartsFit
  <2> QED BY <1>5, <2>1, <2>2 DEF PlaybackState
<1>8. /\ S!SchedulerInv(S!ReleaseOp(v)) /\ S!ReleaseOp(v).released /\ ~S!Pending(S!ReleaseOp(v))
      /\ S!ReleaseOp(v).state = "completed" /\ S!ReleaseOp(v).consumed = x.j.source
  BY <1>3, <1>4, SchedulerReleases DEF S!SameRun, S!Pending
<1>9. q.active = FALSE /\ q.stopping = z.p.stopping /\ q.status = z.p.status /\ q \in PlaybackType
  <2>1. q.active = FALSE /\ q.stopping = z.p.stopping /\ q.status = z.p.status
    BY <1>5, UnderWayFacts, Zenon DEF PlaybackFields
  <2>2. q \in PlaybackType
    BY <1>5, UnderWayFacts DEF PlaybackType
  <2> QED BY <2>1, <2>2
<1> HIDE DEF q
<1>10. e.s = S!ReleaseOp(v) /\ e.p = q /\ e.j = x.j
  BY <1>5, UnderWayFacts, Zenon
<1>11. e \in PlaybackState
  BY <1>5, <1>8, <1>9 DEF PartsFit, PlaybackState, S!SchedulerInv
<1> HIDE DEF e
<1>12. PartsFit(e)
  BY <1>8, <1>10, <1>11, GoingFacts DEF PartsFit
<1>13. PlaybackInv(e) /\ ~e.p.active
  BY <1>8, <1>9, <1>10, <1>12 DEF PlaybackInv
<1>14. e.p.status = "ok" /\ ~e.p.stopping
  BY <1>5, <1>9, <1>10, GoingFacts DEF SameRecord
<1>15. Completed(Progress(e))
  BY <1>8, <1>10, <1>13, <1>14 DEF Completed, Progress, Result
<1> QED BY <1>6, <1>7, <1>10, <1>15
(* The job's own steps under the last ticket, after finish_managed().      *)
LEMMA FinalizeSteps ==
  ASSUME NEW x, Going(x), x.p.configured, HasTicket(x), x.p.ticket.kind = "finalize", x.s.read = x.j.source,
         NEW y, Going(y), y.p.configured, HasTicket(y), y.s = x.s, y.p.ticket = x.p.ticket, SameRecord(x.p, y.p),
         y.p.finishing, y.j.published = x.j.published, y.j.source = x.j.source, Busy(y.j), NEW outcome \in Outcome
  PROVE  LET t == JobStep(y.j, outcome)
             z == WithJob(y, t)
         IN  /\ t.ret \notin {"ok", "busy"} => StepsTo(x, TRUE, CompletePending(z, t.ret, 0))
             /\ t.job.phase \in {"failed", "cleanup_failed"} =>
                  StepsTo(x, TRUE, CompletePending(z, OrTicketError(t.job.status), 0))
             /\ t.job.phase \notin {"failed", "cleanup_failed"} /\ t.ret \in {"ok", "busy"} =>
                  StepsTo(x, TRUE, Progress(z))
<1> DEFINE t == JobStep(y.j, outcome)
           u == t.job
           z == WithJob(y, t)
<1>1. /\ JobFits(y.j) /\ JobAnswers(y.j) /\ y.j.cancel = FALSE /\ y.j \in JobType /\ PartsFit(y)
      /\ y.j.phase = "rendering" => CursorsMeet(y.s, y.j)
      /\ y.j.work \notin {"idle", "terminal"}
  <2>1. y.j.phase = "rendering" => CursorsMeet(y.s, y.j)
    BY GoingFacts DEF GoingFits
  <2>2. y.j.work \notin {"idle", "terminal"}
    BY GoingFacts DEF CoreFits, Busy, JobFits, JobEnds
  <2> QED BY <2>1, <2>2, GoingFacts
<1>2. /\ JobFits(u) /\ JobAnswers(u) /\ t.ret \in Cause
      /\ u.source = x.j.source /\ u.cancel = FALSE /\ u.work # "idle"
      /\ u.phase = "rendering" /\ t.ret \in {"ok", "busy"} => CursorsMeet(x.s, u)
      /\ \/ u.managed /\ u.work \in Rendering
         \/ ~u.managed /\ u.work \in Later \cup {"cleanup", "terminal"}
  <2>1. CASE y.j.managed
    <3>1. y.j.work \in Rendering /\ y.j.phase = "rendering" /\ y.j.work # "cleanup"
      <4>1. y.j.work \in Rendering
        BY <2>1, GoingFacts DEF GoingFits
      <4>2. Driven(y.j)
        BY <1>1, <2>1, <4>1 DEF Driven, JobType
      <4> QED BY <4>1, <4>2, DrivenFacts DEF Rendering
    <3>2. Cancelling(y.j) = y.j
      BY <1>1, CancellingFacts
    <3>3. t = Return(y.j, "busy")
      BY <1>1, <2>1, <3>1, <3>2 DEF JobStep
    <3>4. u = y.j /\ t.ret = "busy"
      BY <3>3 DEF Return
    <3> HIDE DEF t
    <3> QED BY <1>1, <2>1, <3>1, <3>4, Codes DEF Cause, S!StatusCode
  <2>2. CASE ~y.j.managed
    <3>1. y.j.work \in Later \cup {"cleanup"} /\ y.j.managed = FALSE
      BY <1>1, <2>2, GoingFacts DEF GoingFits, JobType
    <3>2. "source_open" \notin Later \cup {"cleanup"} /\ "idle" \notin Later \cup {"cleanup", "terminal"}
      BY DEF Later, Unsynced, Unverified, Manifest, Publishing
    <3>3. CASE y.j.work = "cleanup"
      <4>1. /\ JobFits(u) /\ JobAnswers(u) /\ t.ret \in Statuses /\ SameOrder(y.j, u)
            /\ u.work \in {"cleanup", "terminal"} /\ SameFrames(y.j, u) /\ EndsOrCloses(y.j, t)
        BY <1>1, <3>3, StepEnding
      <4> HIDE DEF t
      <4>2. u.phase = "rendering" => y.j.phase = "rendering"
        BY <4>1, <1>1 DEF EndsOrCloses, JobType
      <4>3. u.phase = "rendering" => CursorsMeet(x.s, u)
        BY <1>1, <4>1, <4>2 DEF SameFrames, CursorsMeet
      <4> QED BY <1>1, <3>1, <3>2, <3>3, <4>1, <4>3, Codes DEF SameOrder
    <3>4. CASE y.j.work \in Later
      <4>1. /\ JobFits(u) /\ JobAnswers(u) /\ t.ret \in Statuses \ {"busy"} /\ SameOrder(y.j, u)
            /\ u.work \in Later \cup {"cleanup"}
            /\ t.ret = "ok" => u.phase # "rendering"
        BY <1>1, <3>1, <3>4, StepAfter
      <4> HIDE DEF t
      <4> QED BY <1>1, <3>1, <3>2, <3>4, <4>1, Codes DEF SameOrder
    <3> QED BY <3>1, <3>3, <3>4
  <2> QED BY <2>1, <2>2
<1> SUFFICES /\ t.ret \notin {"ok", "busy"} => StepsTo(x, TRUE, CompletePending(z, t.ret, 0))
             /\ u.phase \in {"failed", "cleanup_failed"} =>
                  StepsTo(x, TRUE, CompletePending(z, OrTicketError(u.status), 0))
             /\ u.phase \notin {"failed", "cleanup_failed"} /\ t.ret \in {"ok", "busy"} =>
                  StepsTo(x, TRUE, Progress(z))
  OBVIOUS
<1> HIDE DEF t
<1>3. z.p = y.p /\ z.s = x.s /\ z.j = u /\ PartsFit(z)
  BY <1>1, <1>2, WithJobFacts
<1>4. u.status \in Cause
  BY <1>2, Codes DEF JobFits, JobSound, JobType
<1> HIDE DEF z, u
<1>5. ASSUME NEW result \in Cause \ {"ok"} PROVE StepsTo(x, TRUE, CompletePending(z, result, 0))
  <2>1. SameRecord(x.p, z.p) /\ z.p.ticket = x.p.ticket /\ z.j.work # "idle" /\ z.j.source = x.j.source
    BY <1>2, <1>3
  <2> QED BY <1>3, <2>1, FinalizeBreaks
<1>6. CASE t.ret \notin {"ok", "busy"}
  <2>1. StepsTo(x, TRUE, CompletePending(z, t.ret, 0))
    BY <1>2, <1>5, <1>6
  <2>2. u.phase \in {"failed", "cleanup_failed"} =>
          StepsTo(x, TRUE, CompletePending(z, OrTicketError(u.status), 0))
    BY <1>2, <1>4, <1>5 DEF OrTicketError, JobAnswers
  <2> QED BY <1>6, <2>1, <2>2
<1>7. CASE t.ret \in {"ok", "busy"}
  <2>1. CASE u.phase \in {"failed", "cleanup_failed"}
    BY <1>2, <1>4, <1>5, <1>7, <2>1 DEF OrTicketError, JobAnswers
  <2>2. CASE u.phase \notin {"failed", "cleanup_failed"}
    <3>1. GoesOn(x, Progress(z))
      <4>1. SameRecord(x.p, z.p) /\ z.p.ticket = x.p.ticket /\ z.p.finishing
        BY <1>3
      <4>2. u.phase = "rendering" => CursorsMeet(x.s, u)
        BY <1>2, <1>7
      <4> QED BY <1>2, <1>3, <4>1, <4>2, StaysGoing
    <3>2. Publishes(x, TRUE, Progress(z))
      BY <1>2, <1>3 DEF Publishes, Progress, Result
    <3> QED BY <1>7, <2>2, <3>1, <3>2 DEF StepsTo
  <2> QED BY <2>1, <2>2
<1> QED BY <1>6, <1>7
(* A call that only waits.                                                 *)
LEMMA WaitSteps ==
  ASSUME NEW x, Going(x), NEW drained
  PROVE  StepsTo(x, drained, Progress(x))
<1>1. x.s.read + 0 = x.s.read
  <2>1. x.s \in S!SchedulerType
    BY GoingFacts DEF S!SchedulerInv
  <2>2. x.s.read \in Nat
    BY <2>1 DEF S!SchedulerType
  <2> QED BY <2>2
<1>2. GoesOn(x, Progress(x))
  BY <1>1 DEF GoesOn, Flowed, Progress, Result
<1>3. Publishes(x, drained, Progress(x))
  BY DEF Publishes, Progress, Result
<1> QED BY <1>2, <1>3 DEF StepsTo

(* The last ticket: finish_managed() once, then the job's steps, then the  *)
(* end of the run.                                                         *)
LEMMA FinalizeGoes ==
  ASSUME NEW x, Going(x), x.p.configured, HasTicket(x), x.p.ticket.kind = "finalize",
         NEW outcome \in Outcome, NEW drained \in BOOLEAN
  PROVE  StepsTo(x, drained, FinalizeActionStep(x, drained, outcome))
<1> DEFINE f == FinishManaged(x.j)
           w == WithJob(x, f)
           y == IF x.p.finishing THEN x ELSE [w EXCEPT !.p.finishing = TRUE]
           t == JobStep(y.j, outcome)
           z == WithJob(y, t)
           done == CompletePending(y, "ok", 0)
           r == FinalizeActionStep(x, drained, outcome)
<1>1. x.s.read = x.j.source
  <2>1. x.s.pending = x.p.ticket /\ x.s.config = [Transport EXCEPT !.total = x.j.source]
    BY GoingFacts DEF CoreFits, GoingFits
  <2>2. S!AllAtTotal(x.s)
    BY <2>1, GoingFacts DEF S!SchedulerInv, S!PendingFits, S!Fits, S!Pending, HasTicket
  <2>3. x.s.config.total = x.j.source
    BY <2>1, TransportFits DEF S!ConfigType
  <2> QED BY <2>2, <2>3 DEF S!AllAtTotal
<1>2. ~x.p.finishing => Driven(x.j)
  <2>1. ~x.p.finishing => x.j.managed = TRUE /\ x.j.work \in Rendering
    BY GoingFacts DEF GoingFits, JobType
  <2> QED BY <2>1, GoingFacts DEF Driven
<1>3. ~x.p.finishing =>
        /\ JobFits(f.job) /\ JobAnswers(f.job) /\ SameFrames(x.j, f.job) /\ f.job.published = x.j.published
        /\ f.job.source = x.j.source /\ f.job.cancel = x.j.cancel /\ f.job.phase = x.j.phase
        /\ \/ f.ret \in Statuses \ {"ok"} /\ f.job = x.j
           \/ f.ret = "ok" /\ f.job.managed = FALSE /\ f.job.work = "output_finish"
  BY <1>2, FinishTells
<1>4. \/ ~drained /\ r = Progress(x)
      \/ drained /\ ~x.p.finishing /\ f.ret # "ok" /\ r = CompletePending(w, f.ret, 0)
      \/ /\ drained /\ (x.p.finishing \/ f.ret = "ok") /\ Busy(y.j)
         /\ \/ t.ret \notin {"ok", "busy"} /\ r = CompletePending(z, t.ret, 0)
            \/ t.job.phase \in {"failed", "cleanup_failed"} /\ r = CompletePending(z, OrTicketError(t.job.status), 0)
            \/ /\ t.job.phase \notin {"failed", "cleanup_failed"} /\ t.ret \in {"ok", "busy"}
               /\ r = Progress(z)
      \/ /\ drained /\ (x.p.finishing \/ f.ret = "ok") /\ ~Busy(y.j) /\ y.j.phase # "complete"
         /\ r = CompletePending(y, OrTicketError(y.j.status), 0)
      \/ /\ drained /\ (x.p.finishing \/ f.ret = "ok") /\ ~Busy(y.j) /\ y.j.phase = "complete"
         /\ r = IF done.ret = "ok" THEN Progress(ReleaseIfFinished(done.x)) ELSE done
  BY DEF FinalizeActionStep
<1> SUFFICES StepsTo(x, drained, r)
  OBVIOUS
<1> HIDE DEF f, r
<1>5. ~x.p.finishing => w.p = x.p /\ w.s = x.s /\ w.j = f.job /\ PartsFit(w)
  BY <1>3, GoingFacts, WithJobFacts
<1> HIDE DEF w
<1>6. ASSUME x.p.finishing \/ f.ret = "ok"
      PROVE  /\ Going(y) /\ y.p.configured /\ HasTicket(y) /\ y.s = x.s /\ y.p.ticket = x.p.ticket
             /\ SameRecord(x.p, y.p) /\ y.p.finishing /\ y.j.published = x.j.published /\ y.j.source = x.j.source
  <2>1. CASE x.p.finishing
    BY <2>1 DEF SameRecord
  <2>2. CASE ~x.p.finishing
    <3> DEFINE q == [x.p EXCEPT !.finishing = TRUE]
    <3>1. q.finishing = TRUE /\ SameRecord(x.p, q) /\ q.ticket = x.p.ticket
      BY GoingFacts, Zenon DEF SameRecord, PlaybackType
    <3>2. q \in PlaybackType
      BY GoingFacts DEF PlaybackType
    <3>3. w \in PlaybackState
      BY <1>5, <2>2 DEF PartsFit
    <3>4. y = [w EXCEPT !.p = q]
      BY <1>5, <2>2, <3>3 DEF PlaybackState
    <3> HIDE DEF q, y
    <3>5. y.p = q /\ y.s = w.s /\ y.j = w.j
      BY <1>5, <2>2, <3>4, UnderWayFacts, Zenon
    <3>6. y \in PlaybackState
      BY <3>2, <3>3, <3>4 DEF PlaybackState
    <3>7. PartsFit(y)
      BY <1>5, <2>2, <3>5, <3>6 DEF PartsFit
    <3>8. f.ret = "ok" /\ f.job.managed = FALSE /\ f.job.work = "output_finish" /\ f.job.cancel = FALSE
      BY <1>3, <1>6, <2>2, GoingFacts
    <3>9. y.j.phase = "rendering" => CursorsMeet(x.s, y.j)
      <4>1. y.j = f.job
        BY <1>5, <2>2, <3>5
      <4>2. SameFrames(x.j, f.job) /\ f.job.phase = x.j.phase
        BY <1>3, <2>2
      <4>3. x.j.phase = "rendering" => CursorsMeet(x.s, x.j)
        BY GoingFacts DEF GoingFits
      <4> QED BY <4>1, <4>2, <4>3, Zenon DEF SameFrames, CursorsMeet
    <3>10. Going(y) /\ y.p.configured /\ HasTicket(y)
      BY <1>3, <1>5, <2>2, <3>1, <3>5, <3>7, <3>8, <3>9, StaysGoing DEF Later
    <3> QED BY <1>3, <1>5, <2>2, <3>1, <3>5, <3>10
  <2> QED BY <2>1, <2>2
<1> HIDE DEF y
<1>7. CASE ~drained /\ r = Progress(x)
  BY <1>7, WaitSteps
<1>8. CASE drained /\ ~x.p.finishing /\ f.ret # "ok" /\ r = CompletePending(w, f.ret, 0)
  <2>1. SameRecord(x.p, w.p) /\ w.p.ticket = x.p.ticket /\ w.j = x.j /\ w.s = x.s /\ PartsFit(w)
    BY <1>3, <1>5, <1>8 DEF SameRecord
  <2>2. f.ret \in Cause \ {"ok"}
    BY <1>3, <1>8, Codes
  <2>3. w.j.work # "idle"
    BY <2>1, GoingFacts DEF CoreFits
  <2> QED BY <1>8, <2>1, <2>2, <2>3, FinalizeBreaks
<1>9. CASE drained /\ (x.p.finishing \/ f.ret = "ok") /\ Busy(y.j)
  <2>1. drained = TRUE
    BY <1>9
  <2>2. /\ t.ret \notin {"ok", "busy"} => StepsTo(x, TRUE, CompletePending(z, t.ret, 0))
        /\ t.job.phase \in {"failed", "cleanup_failed"} =>
             StepsTo(x, TRUE, CompletePending(z, OrTicketError(t.job.status), 0))
        /\ t.job.phase \notin {"failed", "cleanup_failed"} /\ t.ret \in {"ok", "busy"} =>
             StepsTo(x, TRUE, Progress(z))
    BY <1>1, <1>6, <1>9, FinalizeSteps
  <2> HIDE DEF z, t
  <2> QED BY <1>4, <1>9, <2>1, <2>2
<1>10. CASE drained /\ (x.p.finishing \/ f.ret = "ok") /\ ~Busy(y.j)
  <2>1. Going(y) /\ y.p.configured /\ HasTicket(y) /\ SameRecord(x.p, y.p) /\ PartsFit(y) /\ y.s = x.s
        /\ y.p.ticket = x.p.ticket /\ y.j.published = x.j.published /\ y.j.source = x.j.source
    BY <1>6, <1>10, GoingFacts
  <2>2. y.j.work = "terminal" /\ y.j.cancel = FALSE
    BY <1>10, <2>1, GoingFacts DEF CoreFits, Busy
  <2>3. CASE y.j.phase # "complete" /\ r = CompletePending(y, OrTicketError(y.j.status), 0)
    <3>1. y.j.phase = "failed"
      BY <2>1, <2>2, <2>3, GoingFacts DEF JobAnswers, JobFits, JobEnds
    <3>2. OrTicketError(y.j.status) \in Cause \ {"ok"}
      BY <2>1, <3>1, GoingFacts, Codes DEF JobAnswers, JobType, OrTicketError
    <3> QED BY <2>1, <2>2, <2>3, <3>2, FinalizeBreaks
  <2>4. CASE y.j.phase = "complete" /\ r = IF done.ret = "ok" THEN Progress(ReleaseIfFinished(done.x)) ELSE done
    <3>1. \/ Fell(y, done) /\ done.ret # "ok"
          \/ done.ret = "ok" /\ Completed(Progress(ReleaseIfFinished(done.x))) /\ ReleaseIfFinished(done.x).j = y.j
      BY <1>6, <1>10, <2>1, <2>4, FinalizeCompletes
    <3> DEFINE e == ReleaseIfFinished(done.x)
    <3> HIDE DEF done
    <3>2. CASE Fell(y, done) /\ done.ret # "ok"
      BY <2>1, <2>4, <3>2, FellSteps
    <3>3. CASE done.ret = "ok" /\ Completed(Progress(e)) /\ e.j = y.j
      <4>1. r = Progress(e)
        BY <2>4, <3>3
      <4>2. r.x.j.published = x.j.published
        BY <2>1, <3>3, <4>1 DEF Progress, Result
      <4> QED BY <3>3, <4>1, <4>2 DEF StepsTo, Publishes
    <3> QED BY <3>1, <3>2, <3>3
  <2> QED BY <1>4, <1>10, <2>3, <2>4
<1> QED BY <1>4, <1>7, <1>8, <1>9, <1>10
(* The pending action, whatever it is.                                     *)
LEMMA ActionGoes ==
  ASSUME NEW x, Going(x), x.p.configured, HasTicket(x), NEW outcome \in Outcome, NEW drained \in BOOLEAN
  PROVE  StepsTo(x, drained, ActionStep(x, drained, outcome))
<1> DEFINE r == ActionStep(x, drained, outcome)
<1>1. x.p.ticket.kind \in {"produce", "write", "barrier", "read", "finalize"}
  BY GoingFacts DEF PlaybackType, S!Action, S!Kind
<1>2. CASE x.p.ticket.kind = "produce"
  <2>1. r = ProduceActionStep(x, outcome)
    BY <1>2 DEF ActionStep
  <2> QED BY <1>2, <2>1, ProduceGoes
<1>3. CASE x.p.ticket.kind = "write"
  <2>1. r = WriteActionStep(x, outcome)
    BY <1>3 DEF ActionStep
  <2> QED BY <1>3, <2>1, WriteGoes
<1>4. CASE x.p.ticket.kind = "barrier"
  <2>1. r = BarrierActionStep(x, outcome)
    BY <1>4 DEF ActionStep
  <2> QED BY <1>4, <2>1, BarrierGoes
<1>5. CASE x.p.ticket.kind = "read"
  <2>1. r = ReadActionStep(x, outcome)
    BY <1>5 DEF ActionStep
  <2> QED BY <1>5, <2>1, ReadGoes
<1>6. CASE x.p.ticket.kind = "finalize"
  <2>1. r = FinalizeActionStep(x, drained, outcome)
    BY <1>6 DEF ActionStep
  <2> QED BY <1>6, <2>1, FinalizeGoes
<1> QED BY <1>1, <1>2, <1>3, <1>4, <1>5, <1>6

(* A ticket just issued: the playback goes on where it was.                *)
LEMMA IssueGoes ==
  ASSUME NEW x, Going(x), x.p.configured, ~HasTicket(x), S!NextAction(x.s).status = "ok"
  PROVE  LET s == S!Issue(x.s, S!NextAction(x.s))
             y == [x EXCEPT !.s = s,
                            !.p = [x.p EXCEPT !.ticket = s.pending, !.decoded = FALSE, !.finishing = FALSE]]
         IN  /\ Going(y) /\ y.p.configured /\ HasTicket(y) /\ y.j = x.j
             /\ y.s.read = x.s.read /\ y.s.consumed = x.s.consumed /\ y.s.started = x.s.started
<1> DEFINE plan == S!NextAction(x.s)
           s == S!Issue(x.s, plan)
           p == [x.p EXCEPT !.ticket = s.pending, !.decoded = FALSE, !.finishing = FALSE]
           y == [x EXCEPT !.s = s, !.p = p]
<1>1. S!Issued(x.s, s, plan)
  BY GoingFacts, SchedulerIssues
<1> SUFFICES /\ Going(y) /\ y.p.configured /\ HasTicket(y) /\ y.j = x.j
             /\ y.s.read = x.s.read /\ y.s.consumed = x.s.consumed /\ y.s.started = x.s.started
  OBVIOUS
<1> HIDE DEF s
<1>2. S!SchedulerInv(s) /\ s \in S!SchedulerType /\ s.pending \in S!Action /\ s.pending.token # 0
  BY <1>1 DEF S!Issued, S!SchedulerInv, S!SchedulerType, S!Pending
<1>3. SameRecord(x.p, p) /\ p.ticket = s.pending
  BY GoingFacts, Zenon DEF SameRecord, PlaybackType
<1>4. p \in PlaybackType
  BY <1>2, GoingFacts DEF PlaybackType
<1> HIDE DEF p
<1>5. y.s = s /\ y.p = p /\ y.j = x.j
  BY GoingFacts, UnderWayFacts, Zenon
<1>6. y \in PlaybackState
  <2>1. x \in PlaybackState
    BY GoingFacts
  <2> QED BY <1>2, <1>4, <2>1 DEF PlaybackState
<1> HIDE DEF y
<1>7. PartsFit(y)
  BY <1>2, <1>5, <1>6, GoingFacts DEF PartsFit
<1>8. CoreFits(y) /\ CauseFits(y) /\ HasTicket(y)
  BY <1>1, <1>2, <1>3, <1>5, GoingFacts DEF CoreFits, CauseFits, SameRecord, HasTicket, S!Issued
<1>9. x.s.config = [Transport EXCEPT !.total = x.j.source] /\ x.j.managed /\ x.j.work \in Rendering
      /\ (x.j.phase = "rendering" => CursorsMeet(x.s, x.j))
  BY GoingFacts DEF GoingFits
<1>10. GoingFits(y)
  <2>1. y.s.config = [Transport EXCEPT !.total = y.j.source]
    BY <1>1, <1>5, <1>9 DEF S!Issued
  <2>2. y.j.phase = "rendering" => CursorsMeet(y.s, y.j)
    BY <1>1, <1>5, <1>9 DEF S!Issued, S!SameCursors, CursorsMeet
  <2> QED BY <1>3, <1>5, <1>9, <2>1, <2>2, GoingFacts DEF GoingFits, SameRecord
<1>11. Going(y) /\ y.p.configured
  BY <1>3, <1>5, <1>7, <1>8, <1>10, GoingFacts DEF Going, PlaybackInv, SameRecord
<1> QED BY <1>1, <1>5, <1>8, <1>11 DEF S!Issued, S!SameCursors

(* schedule_step().                                                        *)
LEMMA ScheduleGoes ==
  ASSUME NEW x, Going(x), x.p.configured, NEW outcome \in Outcome, NEW drained \in BOOLEAN
  PROVE  StepsTo(x, drained, ScheduleStep(x, drained, outcome))
<1> DEFINE plan == S!NextAction(x.s)
           s == S!Issue(x.s, plan)
           y == [x EXCEPT !.s = s,
                          !.p = [x.p EXCEPT !.ticket = s.pending, !.decoded = FALSE, !.finishing = FALSE]]
           r == ScheduleStep(x, drained, outcome)
<1>1. \/ HasTicket(x) /\ r = ActionStep(x, drained, outcome)
      \/ r = Progress(x)
      \/ plan.status \notin {"ok", "busy"} /\ r = LatchFailure(x, plan.status)
      \/ ~HasTicket(x) /\ plan.status = "ok" /\ r = ActionStep(y, drained, outcome)
  BY DEF ScheduleStep
<1> SUFFICES StepsTo(x, drained, r)
  OBVIOUS
<1> HIDE DEF r
<1>2. CASE HasTicket(x) /\ r = ActionStep(x, drained, outcome)
  BY <1>2, ActionGoes
<1>3. CASE r = Progress(x)
  BY <1>3, WaitSteps
<1>4. CASE plan.status \notin {"ok", "busy"} /\ r = LatchFailure(x, plan.status)
  <2>1. plan.status \in Cause \ {"ok"}
    BY <1>4, GoingFacts, SchedulerSays
  <2>2. Fell(x, r)
    BY <1>4, <2>1, GoingFacts, LatchFalls
  <2> QED BY <2>2, FellSteps
<1>5. CASE ~HasTicket(x) /\ plan.status = "ok" /\ r = ActionStep(y, drained, outcome)
  <2>1. /\ Going(y) /\ y.p.configured /\ HasTicket(y) /\ y.j = x.j
        /\ y.s.read = x.s.read /\ y.s.consumed = x.s.consumed /\ y.s.started = x.s.started
    BY <1>5, IssueGoes
  <2> HIDE DEF y
  <2>2. StepsTo(y, drained, r)
    BY <1>5, <2>1, ActionGoes
  <2> QED BY <2>1, <2>2 DEF StepsTo, GoesOn, Flowed, Publishes
<1> QED BY <1>1, <1>2, <1>3, <1>4, <1>5
(* setup_step(): the job's steps up to its render, then configure().       *)
LEMMA SetupJob ==
  ASSUME NEW x, Going(x), ~x.p.configured, x.j.phase # "rendering", Busy(x.j), NEW outcome \in Outcome
  PROVE  LET r == JobStep(x.j, outcome)
             u == r.job
         IN  /\ JobFits(u) /\ JobAnswers(u) /\ r.ret \in Cause /\ u.cancel = FALSE /\ u.managed = TRUE
             /\ u.published = x.j.published /\ u.work # "idle"
             /\ u.phase = "rendering" =>
                  u.work = "render_read_decode" /\ u.produced = 0 /\ u.rendered = 0 /\ u.committed = 0
<1> DEFINE r == JobStep(x.j, outcome)
           u == r.job
<1>1. /\ JobFits(x.j) /\ JobAnswers(x.j) /\ x.j \in JobType /\ x.j.cancel = FALSE /\ x.j.managed = TRUE
  BY GoingFacts DEF CoreFits, JobType
<1>2. x.j.work \notin {"idle", "terminal"}
  BY GoingFacts DEF CoreFits, Busy, JobFits, JobEnds
<1>3. x.j.work \in Early \cup {"cleanup"}
  <2>1. x.j.work \notin Later
    BY <1>1 DEF JobAnswers
  <2>2. x.j.work \notin Rendering
    BY <1>1 DEF JobFits, JobCursors, Writing
  <2>3. x.j.work \in {"cleanup"} \cup Working
    BY <1>1, <1>2, WorkParts DEF JobType
  <2> QED BY <2>1, <2>2, <2>3 DEF Working
<1> SUFFICES /\ JobFits(u) /\ JobAnswers(u) /\ r.ret \in Cause /\ u.cancel = FALSE /\ u.managed = TRUE
             /\ u.published = x.j.published /\ u.work # "idle"
             /\ u.phase = "rendering" =>
                  u.work = "render_read_decode" /\ u.produced = 0 /\ u.rendered = 0 /\ u.committed = 0
  OBVIOUS
<1>4. CASE x.j.work \in Early
  <2>1. /\ JobFits(u) /\ JobAnswers(u) /\ r.ret \in Statuses /\ SameOrder(x.j, u) /\ u.published = x.j.published
        /\ u.work \in Early \cup {"render_read_decode", "cleanup"}
        /\ u.phase = "rendering" => u.work = "render_read_decode" /\ u.rendered = 0 /\ u.committed = 0
    BY <1>1, <1>4, StepBefore
  <2> HIDE DEF u, r
  <2>2. u.cancel = FALSE /\ u.managed = TRUE /\ u.work # "idle"
    BY <1>1, <2>1 DEF SameOrder, Early, BeforePaths, BeforeOutput
  <2>3. u.phase = "rendering" => u.produced = 0
    BY <2>1, <2>2 DEF JobFits, JobCursors, Rendering
  <2> QED BY <2>1, <2>2, <2>3, Codes
<1>5. CASE x.j.work = "cleanup"
  <2>1. /\ JobFits(u) /\ JobAnswers(u) /\ r.ret \in Statuses /\ SameOrder(x.j, u) /\ u.published = x.j.published
        /\ u.work \in {"cleanup", "terminal"} /\ EndsOrCloses(x.j, r)
    BY <1>1, <1>2, <1>5, StepEnding
  <2> HIDE DEF r
  <2>2. u.phase # "rendering"
    BY <1>1, <2>1 DEF EndsOrCloses, JobType
  <2> QED BY <1>1, <2>1, <2>2, Codes DEF SameOrder
<1> QED BY <1>3, <1>4, <1>5

(* setup_step(): the job is opened, then the scheduler configured.         *)
LEMMA SetupGoes ==
  ASSUME NEW x, Going(x), ~x.p.configured, NEW outcome \in Outcome, NEW drained
  PROVE  StepsTo(x, drained, SetupStep(x, outcome))
<1> DEFINE t == JobStep(x.j, outcome)
           u == t.job
           y == WithJob(x, t)
           c == [Transport EXCEPT !.total = x.j.source]
           status == S!ConfigureStatus(x.s, c)
           s == S!ConfigureOp(x.s, c)
           z == [x EXCEPT !.s = s, !.p.configured = TRUE]
           r == SetupStep(x, outcome)
<1>1. x.j.managed = TRUE /\ x.p.ticket = S!NoAction /\ x.j.work # "idle" /\ x.p.configured = FALSE
  BY GoingFacts DEF CoreFits, JobType, PlaybackType
<1>2. x.j.phase # "complete"
  BY <1>1, GoingFacts DEF JobFits, JobEnds, JobAnswers
<1>3. \/ x.j.phase # "rendering" /\ ~Busy(x.j) /\ r = LatchFailure(x, OrTicketError(x.j.status))
      \/ x.j.phase # "rendering" /\ Busy(x.j) /\ t.ret \notin {"ok", "busy"} /\ r = LatchFailure(y, t.ret)
      \/ x.j.phase # "rendering" /\ Busy(x.j) /\ t.ret \in {"ok", "busy"} /\ r = Progress(y)
      \/ x.j.phase = "rendering" /\ status # "ok" /\ r = LatchFailure(x, status)
      \/ x.j.phase = "rendering" /\ status = "ok" /\ r = Progress(z)
  BY <1>2 DEF SetupStep
<1> SUFFICES StepsTo(x, drained, r)
  OBVIOUS
<1> HIDE DEF r
<1>4. CASE x.j.phase # "rendering" /\ ~Busy(x.j) /\ r = LatchFailure(x, OrTicketError(x.j.status))
  <2>1. x.j.work = "terminal"
    BY <1>1, <1>4 DEF Busy
  <2>2. x.j.phase = "failed"
    BY <1>2, <2>1, GoingFacts DEF JobAnswers, JobFits, JobEnds
  <2>3. OrTicketError(x.j.status) \in Cause \ {"ok"}
    BY <2>2, GoingFacts, Codes DEF JobAnswers, JobType, OrTicketError
  <2>4. Fell(x, r)
    BY <1>4, <2>3, GoingFacts, LatchFalls
  <2> QED BY <2>4, FellSteps
<1>5. CASE x.j.phase # "rendering" /\ Busy(x.j)
  <2>1. /\ JobFits(u) /\ JobAnswers(u) /\ t.ret \in Cause /\ u.cancel = FALSE /\ u.managed = TRUE
        /\ u.published = x.j.published /\ u.work # "idle"
        /\ u.phase = "rendering" =>
             u.work = "render_read_decode" /\ u.produced = 0 /\ u.rendered = 0 /\ u.committed = 0
    BY <1>5, SetupJob
  <2> HIDE DEF t
  <2>2. y.p = x.p /\ y.s = x.s /\ y.j = u /\ PartsFit(y)
    BY <2>1, GoingFacts, WithJobFacts
  <2> HIDE DEF y
  <2>3. CoreFits(y) /\ CauseFits(y) /\ y.p.active /\ ~y.p.stopping /\ GoingFits(y)
    <3>1. CoreFits(y) /\ CauseFits(y) /\ y.p.active /\ ~y.p.stopping
      BY <1>1, <2>1, <2>2, GoingFacts DEF CoreFits, CauseFits
    <3>2. GoingFits(y)
      BY <1>1, <2>1, <2>2 DEF GoingFits
    <3> QED BY <3>1, <3>2
  <2>4. CASE t.ret \notin {"ok", "busy"} /\ r = LatchFailure(y, t.ret)
    <3>1. Fell(y, r)
      BY <2>1, <2>2, <2>3, <2>4, LatchFalls DEF UnderWay
    <3> QED BY <2>1, <2>2, <3>1, FellSteps
  <2>5. CASE r = Progress(y)
    <3>1. r.x = y /\ r.ret = "ok" /\ r.frames = 0
      BY <2>5 DEF Progress, Result
    <3>2. Going(y)
      BY <2>2, <2>3 DEF Going, PlaybackInv
    <3>3. ~y.p.configured
      BY <2>2
    <3> QED BY <2>1, <2>2, <3>1, <3>2, <3>3 DEF StepsTo, GoesOn, Flowed, Publishes
  <2> QED BY <1>3, <1>5, <2>4, <2>5
<1>6. c \in S!ConfigType
  BY GoingFacts, TransportFits DEF S!ConfigType
<1> HIDE DEF c
<1>7. CASE x.j.phase = "rendering" /\ status # "ok" /\ r = LatchFailure(x, status)
  <2>1. status \in Cause \ {"ok"}
    BY <1>7 DEF S!ConfigureStatus, Cause, S!StatusCode
  <2>2. Fell(x, r)
    BY <1>7, <2>1, GoingFacts, LatchFalls
  <2> QED BY <2>2, FellSteps
<1>8. CASE x.j.phase = "rendering" /\ status = "ok" /\ r = Progress(z)
  <2>1. S!Configures(x.s, s, c)
    BY <1>6, <1>8, GoingFacts, SchedulerConfigures
  <2> HIDE DEF s
  <2> DEFINE q == [x.p EXCEPT !.configured = TRUE]
  <2>2. /\ q.configured = TRUE /\ q.ticket = x.p.ticket /\ q.active = x.p.active /\ q.stopping = x.p.stopping
        /\ q.status = x.p.status /\ q.cancelSent = x.p.cancelSent
    BY GoingFacts, Zenon DEF PlaybackType
  <2>3. q \in PlaybackType
    BY GoingFacts DEF PlaybackType
  <2>4. x \in PlaybackState /\ s \in S!SchedulerType
    BY <2>1, GoingFacts DEF S!Configures, S!SchedulerInv
  <2>5. z = [x EXCEPT !.s = s, !.p = q]
    BY <2>4 DEF PlaybackState
  <2> HIDE DEF z, q
  <2>6. z.s = s /\ z.p = q /\ z.j = x.j
    BY <2>5, GoingFacts, UnderWayFacts, Zenon
  <2>7. z \in PlaybackState
    BY <2>3, <2>4, <2>5 DEF PlaybackState
  <2>8. PartsFit(z)
    BY <2>1, <2>6, <2>7, GoingFacts DEF PartsFit, S!Configures
  <2>9. CoreFits(z) /\ CauseFits(z)
    BY <1>1, <2>1, <2>2, <2>6, GoingFacts DEF CoreFits, CauseFits, S!Configures
  <2>10. GoingFits(z)
    <3>1. x.j.work = "render_read_decode" /\ x.j.produced = 0 /\ x.j.rendered = 0 /\ x.j.committed = 0
      BY <1>1, <1>8, GoingFacts DEF GoingFits
    <3>2. CursorsMeet(z.s, z.j)
      BY <2>1, <2>6, <3>1 DEF CursorsMeet, S!Configures
    <3>3. z.s.config = [Transport EXCEPT !.total = z.j.source]
      BY <2>1, <2>6 DEF S!Configures, c
    <3> QED BY <1>1, <2>2, <2>6, <3>1, <3>2, <3>3, GoingFacts DEF GoingFits, Rendering
  <2>11. Going(z)
    BY <2>2, <2>6, <2>8, <2>9, <2>10, GoingFacts DEF Going, PlaybackInv
  <2>12. r.x = z /\ r.ret = "ok" /\ r.frames = 0
    BY <1>8 DEF Progress, Result
  <2>13. z.s.read = 0 /\ z.s.consumed = 0
    BY <2>1, <2>6 DEF S!Configures
  <2> QED BY <1>1, <2>6, <2>11, <2>12, <2>13 DEF StepsTo, GoesOn, Flowed, Publishes
<1> QED BY <1>3, <1>4, <1>5, <1>7, <1>8
-----------------------------------------------------------------------------
(* step() as the player task sees it.                                      *)

(* It goes on, fails, or is complete; the first cause and a failed cleanup *)
(* stay; the artifact is published only when all of it has been played.    *)
Stepped(x, drained, r) ==
  /\ PlaybackInv(r.x)
  /\ \/ r.ret # "ok" /\ r.frames = 0 /\ (r.x.p.active => r.x.p.stopping)
     \/ Going(x) /\ GoesOn(x, r)
     \/ Going(x) /\ Completed(r)
  /\ x.p.status # "ok" => r.x.p.status = x.p.status
  /\ x.j.phase = "cleanup_failed" /\ ~x.p.retry =>
       r.ret # "ok" /\ r.x.p.active /\ r.x.j = x.j
  /\ Publishes(x, drained, r)
  /\ ~x.j.published /\ r.x.j.published => ~x.p.stopping

(* A failure, and a step of a playback that goes on, to its caller.        *)
LEMMA FellStepped ==
  ASSUME NEW x, NEW r, Fell(x, r), NEW drained
  PROVE  Stepped(x, drained, r)
BY DEF Fell, Stepped, Publishes

LEMMA GoesStepped ==
  ASSUME NEW x, Going(x), x.j.phase # "cleanup_failed", NEW drained, NEW r, StepsTo(x, drained, r)
  PROVE  Stepped(x, drained, r)
<1>1. x.p.status = "ok"
  BY GoingFacts
<1> QED BY <1>1 DEF StepsTo, Stepped, GoesOn, Breaks, Completed, Going

(* step(), whatever the playback's state.                                  *)
LEMMA PlaybackSteps ==
  ASSUME NEW x, PlaybackInv(x), x.p.active, NEW outcome \in Outcome, NEW drained \in BOOLEAN
  PROVE  Stepped(x, drained, PlaybackStep(x, drained, outcome))
<1> DEFINE r == PlaybackStep(x, drained, outcome)
           cause == IF x.p.status = "ok" THEN OrTicketError(x.j.status) ELSE x.p.status
           failing == [p |-> [x.p EXCEPT !.status = cause, !.stopping = TRUE],
                       s |-> IF x.p.configured THEN S!FailOp(x.s, cause) ELSE x.s, j |-> x.j]
<1>1. CASE x.p.stopping
  <2>1. r = StopStep(x, outcome)
    BY <1>1 DEF PlaybackStep
  <2>2. LET e == StopStep(x, outcome)
        IN  /\ PlaybackInv(e.x) /\ e.ret # "ok" /\ e.frames = 0 /\ (e.x.p.active => e.x.p.stopping)
            /\ e.x.p.status = x.p.status /\ e.x.j.published = x.j.published
            /\ x.j.phase = "cleanup_failed" /\ ~x.p.retry => e.x.p.active /\ e.x.j = x.j /\ e.x.p.retry = x.p.retry
    BY <1>1, StopSteps
  <2>3. /\ PlaybackInv(r.x) /\ r.ret # "ok" /\ r.frames = 0 /\ (r.x.p.active => r.x.p.stopping)
        /\ r.x.p.status = x.p.status /\ r.x.j.published = x.j.published
        /\ x.j.phase = "cleanup_failed" /\ ~x.p.retry => r.x.p.active /\ r.x.j = x.j /\ r.x.p.retry = x.p.retry
    BY <2>1, <2>2
  <2>4. ASSUME NEW e, PlaybackInv(e.x), e.ret # "ok", e.frames = 0, e.x.p.active => e.x.p.stopping,
               e.x.p.status = x.p.status, e.x.j.published = x.j.published,
               x.j.phase = "cleanup_failed" /\ ~x.p.retry => e.x.p.active /\ e.x.j = x.j
        PROVE  Stepped(x, drained, e)
    BY <2>4 DEF Stepped, Publishes
  <2> HIDE DEF r
  <2>5. Stepped(x, drained, r)
    BY <2>3, <2>4
  <2> QED BY <2>5 DEF r
<1>2. CASE ~x.p.stopping
  <2>1. Going(x)
    BY <1>2 DEF Going
  <2>2. x.j.phase # "cancelled"
    BY <2>1, GoingFacts DEF JobFits, JobEnds, JobAnswers
  <2>3. ~(x.j.phase = "complete" /\ x.p.configured /\ ~HasTicket(x))
    BY <2>1, GoingFacts DEF GoingFits, JobFits, JobEnds, Rendering
  <2>4. \/ x.j.phase = "failed" /\ r = LatchFailure(x, OrTicketError(x.j.status))
        \/ x.j.phase = "cleanup_failed" /\ r = Result(failing, cause)
        \/ x.j.phase # "cleanup_failed" /\ ~x.p.configured /\ r = SetupStep(x, outcome)
        \/ x.j.phase # "cleanup_failed" /\ x.p.configured /\ r = ScheduleStep(x, drained, outcome)
    BY <1>2, <2>2, <2>3 DEF PlaybackStep
  <2>5. x.j.phase \in {"failed", "cleanup_failed"} => OrTicketError(x.j.status) \in Cause \ {"ok"}
    BY <2>1, GoingFacts, Codes DEF JobAnswers, JobType, OrTicketError
  <2> SUFFICES Stepped(x, drained, r)
    OBVIOUS
  <2> HIDE DEF r
  <2>6. CASE x.j.phase = "failed" /\ r = LatchFailure(x, OrTicketError(x.j.status))
    <3>1. Fell(x, r)
      BY <2>1, <2>5, <2>6, GoingFacts, LatchFalls
    <3> QED BY <3>1, FellStepped
  <2>7. CASE x.j.phase = "cleanup_failed" /\ r = Result(failing, cause)
    <3>1. x.p.status = "ok"
      BY <2>1, GoingFacts
    <3>2. cause \in Cause \ {"ok"} /\ (x.p.status # "ok" => cause = x.p.status)
      BY <2>5, <2>7, <3>1
    <3> HIDE DEF cause
    <3>3. Fell(x, r)
      BY <2>1, <2>7, <3>2, GoingFacts, FailingFalls
    <3> QED BY <3>3, FellStepped
  <2>8. CASE x.j.phase # "cleanup_failed" /\ ~x.p.configured /\ r = SetupStep(x, outcome)
    BY <2>1, <2>8, SetupGoes, GoesStepped
  <2>9. CASE x.j.phase # "cleanup_failed" /\ x.p.configured /\ r = ScheduleStep(x, drained, outcome)
    BY <2>1, <2>9, ScheduleGoes, GoesStepped
  <2> HIDE DEF failing, cause
  <2> QED BY <2>4, <2>6, <2>7, <2>8, <2>9
<1> QED BY <1>1, <1>2

(* fail(), called by the player task.                                      *)
LEMMA FailFalls ==
  ASSUME NEW x, PlaybackInv(x), x.p.active, NEW reason \in Cause \ {"ok"}
  PROVE  Fell(x, PlaybackFail(x, reason))
<1>1. UnderWay(x) /\ PlaybackFail(x, reason) = LatchFailure(x, reason)
  BY DEF UnderWay, PlaybackInv, PlaybackFail
<1> QED BY <1>1, LatchFalls

(* start() and consume(): the scheduler moves on, the ticket stays.        *)
LEMMA RunGoes ==
  ASSUME NEW x, Going(x), x.p.configured, NEW s, S!SameRun(x.s, s), s.released = x.s.released,
         s.state \notin {"unconfigured", "completed"}
  PROVE  LET y == [x EXCEPT !.s = s]
         IN  Going(y) /\ y.s = s /\ y.p = x.p /\ y.j = x.j
<1> DEFINE y == [x EXCEPT !.s = s]
<1>1. y.s = s /\ y.p = x.p /\ y.j = x.j
  BY GoingFacts, UnderWayFacts, Zenon
<1>2. y \in PlaybackState
  <2>1. x \in PlaybackState /\ s \in S!SchedulerType
    BY GoingFacts DEF S!SameRun, S!SchedulerInv
  <2> QED BY <2>1 DEF PlaybackState
<1> SUFFICES Going(y)
  BY <1>1
<1> HIDE DEF y
<1>3. PartsFit(y)
  BY <1>1, <1>2, GoingFacts DEF PartsFit, S!SameRun
<1>4. CoreFits(y) /\ CauseFits(y)
  BY <1>1, GoingFacts DEF CoreFits, CauseFits, S!SameRun
<1>5. GoingFits(y)
  <2>1. /\ GoingFits(x) /\ s.config = x.s.config
        /\ CursorsMeet(x.s, x.j) => CursorsMeet(s, x.j)
    BY GoingFacts DEF S!SameRun, CursorsMeet
  <2>2. s.config = [Transport EXCEPT !.total = x.j.source]
    BY <2>1 DEF GoingFits
  <2> QED BY <1>1, <2>1, <2>2 DEF GoingFits, HasTicket
<1> QED BY <1>1, <1>3, <1>4, <1>5, GoingFacts DEF Going, PlaybackInv

(* start() of a playback that is ready.                                    *)
LEMMA StartGoes ==
  ASSUME NEW x, Going(x), ReadyToStart(x)
  PROVE  LET r == PlaybackStart(x)
         IN  /\ r.ret = "ok" /\ Going(r.x) /\ r.x.p = x.p /\ r.x.j = x.j
             /\ r.x.s.started /\ r.x.s.read = x.s.read /\ r.x.s.consumed = x.s.consumed
<1> DEFINE s == S!StartOp(x.s)
           y == [x EXCEPT !.s = s]
           r == PlaybackStart(x)
<1>1. S!StartStatus(x.s) = "ok" /\ x.p.configured
  <2>1. /\ x.s.committed \in Nat /\ x.s.lead \in Nat /\ x.s.read - x.s.consumed \in Int
        /\ S!Prefill(x.s) \in Nat
    <3>1. x.s \in S!SchedulerType
      BY GoingFacts DEF S!SchedulerInv
    <3>2. x.s.committed \in Nat /\ x.s.lead \in Nat /\ x.s.read \in Nat /\ x.s.consumed \in Nat
      BY <3>1 DEF S!SchedulerType
    <3>3. x.s.config.queue \in Nat /\ x.s.config.total \in Nat
      BY <3>1 DEF S!SchedulerType, S!ConfigType
    <3> QED BY <3>2, <3>3 DEF S!Prefill, S!Min2
  <2> QED BY <2>1 DEF ReadyToStart, S!StartStatus, S!Queued
<1>2. r = Result(y, "ok")
  BY <1>1 DEF PlaybackStart, Playing, Going
<1>3. /\ S!SameRun(x.s, s) /\ s.started = TRUE /\ s.state = "running"
      /\ s.consumed = x.s.consumed /\ s.released = x.s.released
  BY <1>1, GoingFacts, SchedulerStarts
<1> HIDE DEF s
<1>4. Going(y) /\ y.s = s /\ y.p = x.p /\ y.j = x.j
  BY <1>1, <1>3, RunGoes
<1>5. r.x = y /\ r.ret = "ok"
  BY <1>2 DEF Result
<1> HIDE DEF y, r
<1>6. /\ r.ret = "ok" /\ Going(r.x) /\ r.x.p = x.p /\ r.x.j = x.j
      /\ r.x.s.started /\ r.x.s.read = x.s.read /\ r.x.s.consumed = x.s.consumed
  BY <1>3, <1>4, <1>5 DEF S!SameRun
<1> QED BY <1>6 DEF r

(* consume() of frames that were queued.                                   *)
LEMMA ConsumeGoes ==
  ASSUME NEW x, Going(x), x.p.configured, x.s.started, NEW n \in Nat \ {0}, n <= Block, x.s.consumed + n <= x.s.read
  PROVE  LET r == PlaybackConsume(x, n)
         IN  /\ r.ret = "ok" /\ Going(r.x) /\ r.x.p = x.p /\ r.x.j = x.j
             /\ r.x.s.started /\ r.x.s.read = x.s.read /\ r.x.s.consumed = x.s.consumed + n
<1> DEFINE s == S!ConsumeOp(x.s, n)
           y == [x EXCEPT !.s = s]
           r == PlaybackConsume(x, n)
<1>1. S!ConsumeStatus(x.s, n) = "ok" /\ x.s.state = "running"
  <2>1. x.s.config = [Transport EXCEPT !.total = x.j.source]
    BY GoingFacts DEF GoingFits
  <2>2. x.s.config.block = Block
    BY <2>1, TransportFits DEF S!ConfigType
  <2>3. x.s.state = "running"
    BY GoingFacts DEF CoreFits, CauseFits, S!SchedulerInv, S!Flags
  <2>4. x.s.consumed \in Nat /\ x.s.read \in Nat /\ x.s.config.block \in Nat
    <3>1. x.s \in S!SchedulerType
      BY GoingFacts DEF S!SchedulerInv
    <3> QED BY <3>1 DEF S!SchedulerType, S!ConfigType
  <2> QED BY <2>2, <2>3, <2>4 DEF S!ConsumeStatus, S!Queued
<1>2. r = Result(y, "ok")
  BY <1>1 DEF PlaybackConsume, Playing, Going
<1>3. /\ S!SameRun(x.s, s) /\ s.consumed = x.s.consumed + n /\ s.started = x.s.started
      /\ s.state = x.s.state /\ s.released = x.s.released
  BY <1>1, GoingFacts, SchedulerConsumes
<1> HIDE DEF s
<1>4. Going(y) /\ y.s = s /\ y.p = x.p /\ y.j = x.j
  BY <1>1, <1>3, RunGoes
<1>5. r.x = y /\ r.ret = "ok"
  BY <1>2 DEF Result
<1> HIDE DEF y, r
<1>6. /\ r.ret = "ok" /\ Going(r.x) /\ r.x.p = x.p /\ r.x.j = x.j
      /\ r.x.s.started /\ r.x.s.read = x.s.read /\ r.x.s.consumed = x.s.consumed + n
  BY <1>3, <1>4, <1>5 DEF S!SameRun
<1> QED BY <1>6 DEF r
(* accept_prepared_playback(): the card is looked at anew, and a request   *)
(* the job admits is one the playback adopts.                              *)
LEMMA CardFresh ==
  ASSUME NEW j, JobFits(j), ~Busy(j)
  PROVE  LET u == [j EXCEPT !.card = Untouched]
         IN  JobFits(u) /\ ~Busy(u) /\ DOMAIN u = DOMAIN j
<1> DEFINE u == [j EXCEPT !.card = Untouched]
<1>1. j \in JobType /\ j.work \in {"idle", "terminal"} /\ j.open = {}
  BY DEF JobFits, JobSound, Busy
<1>2. Untouched \in [Name -> Content] /\ \A n \in Name : Untouched[n] = "absent"
  BY DEF Untouched, Content
<1>3. "WAV" \in Name /\ "JSN" \in Name
  BY DEF Name
<1>4. u \in JobType
  BY <1>1, <1>2 DEF JobType
<1>5. /\ u.card = Untouched /\ u.open = j.open /\ u.work = j.work /\ u.phase = j.phase /\ u.bound = j.bound
      /\ u.writer = j.writer /\ u.failure = j.failure /\ u.terminal = j.terminal /\ u.published = j.published
      /\ u.input = j.input /\ u.source = j.source /\ u.status = j.status
  BY <1>1, Zenon DEF JobType
<1> HIDE DEF u
<1>6. JobSound(u)
  BY <1>1, <1>2, <1>3, <1>4, <1>5 DEF JobFits, JobSound
<1>7. JobEnds(u)
  BY <1>1, <1>5 DEF JobFits, JobEnds
<1>8. JobFiles(u)
  BY <1>1, <1>5 DEF JobFiles, BeforeOutput, Writing, Rendering, Unsynced, Unverified, Manifest, Publishing
<1>9. JobCursors(u)
  BY <1>1, <1>5 DEF JobFits, JobCursors, Loops, BeforePaths, BeforeOutput, Writing, Rendering, Unsynced,
                    Unverified, Manifest, Publishing
<1>10. DOMAIN u = DOMAIN j
  BY <1>1, <1>4 DEF JobType
<1> QED BY <1>1, <1>5, <1>6, <1>7, <1>8, <1>9, <1>10 DEF JobFits, Busy, u

(* begin() of a job just admitted, or refused.                             *)
LEMMA AcceptGoes ==
  ASSUME NEW x, PlaybackInv(x), ~x.p.active, NEW ask \in RequestType
  PROVE  LET admitted == BeginInternal([x.j EXCEPT !.card = Untouched], ask, TRUE)
             refused  == [p |-> x.p, s |-> x.s, j |-> admitted.job]
             begun    == PlaybackBegin(refused)
         IN  /\ admitted.job.published = FALSE
             /\ admitted.ret # "ok" => PlaybackInv(refused)
             /\ admitted.ret = "ok" =>
                  /\ begun.ret = "ok" /\ Going(begun.x) /\ ~begun.x.p.configured
                  /\ begun.x.j = admitted.job
<1> DEFINE v == [x.j EXCEPT !.card = Untouched]
           admitted == BeginInternal(v, ask, TRUE)
           u == admitted.job
           y == [p |-> x.p, s |-> x.s, j |-> u]
           p == [NewPlayback EXCEPT !.active = TRUE]
           z == [y EXCEPT !.p = p]
           begun == PlaybackBegin(y)
<1>1. /\ PartsFit(x) /\ ~Busy(x.j) /\ ~S!Pending(x.s) /\ x.s.released
      /\ x.p \in PlaybackType /\ x.s \in S!SchedulerType /\ S!SchedulerInv(x.s)
  BY UnderWayFacts DEF PlaybackInv, PartsFit
<1>2. JobFits(v) /\ ~Busy(v)
  BY <1>1, CardFresh, UnderWayFacts
<1> HIDE DEF v
<1>3. /\ JobFits(u) /\ JobAnswers(u) /\ u.published = FALSE
      /\ admitted.ret = (IF ask.sound THEN "ok" ELSE "invalid_argument")
      /\ ask.sound => u.work = "mount" /\ u.phase = "starting" /\ u.cancel = FALSE /\ u.managed = TRUE
      /\ ~ask.sound => ~Busy(u)
  BY <1>2, BeginTells
<1> SUFFICES /\ admitted.ret # "ok" => PlaybackInv(y)
             /\ admitted.ret = "ok" => begun.ret = "ok" /\ Going(begun.x) /\ ~begun.x.p.configured /\ begun.x.j = u
  BY <1>3 DEF v
<1> HIDE DEF admitted
<1>4. y.p = x.p /\ y.s = x.s /\ y.j = u /\ PartsFit(y)
  BY <1>1, <1>3 DEF PartsFit, PlaybackState, JobFits, JobSound
<1>5. admitted.ret # "ok" => PlaybackInv(y)
  BY <1>1, <1>3, <1>4 DEF PlaybackInv
<1>6. ASSUME admitted.ret = "ok"
      PROVE  begun.ret = "ok" /\ Going(begun.x) /\ ~begun.x.p.configured /\ begun.x.j = u
  <2>1. u.work = "mount" /\ u.phase = "starting" /\ u.cancel = FALSE /\ u.managed = TRUE
    BY <1>3, <1>6
  <2> HIDE DEF u
  <2>2. p \in PlaybackType /\ p.active = TRUE /\ p.configured = FALSE /\ p.ticket = S!NoAction /\ p.stopping = FALSE
        /\ p.status = "ok" /\ p.cancelSent = FALSE
    <3>1. S!NoAction \in S!Action /\ "ok" \in Cause
      BY Codes DEF S!NoAction, S!Action, S!Kind
    <3> QED BY <3>1 DEF NewPlayback, PlaybackType
  <2> HIDE DEF p
  <2>3. Busy(u)
    BY <2>1 DEF Busy
  <2>4. S!ValidConfig([Transport EXCEPT !.total = 1]) /\ Transport.block <= Block
    <3> DEFINE c == [Transport EXCEPT !.total = 1]
    <3>1. c.total = 1 /\ c.rate = Transport.rate /\ c.queue = Transport.queue /\ c.block = Transport.block
      BY TransportFits DEF S!ConfigType
    <3>2. Transport.block # 0 /\ Transport.block \in Nat /\ Transport.queue \in Nat
      BY TransportAssumption
    <3> HIDE DEF c
    <3>3. S!ValidConfig(c) /\ Transport.block <= Block
      BY <3>1, <3>2, TransportFits DEF S!ValidConfig
    <3> QED BY <3>3 DEF c
  <2>5. begun = Progress(z)
    BY <1>4, <2>1, <2>3, <2>4 DEF PlaybackBegin, p
  <2>6. z.p = p /\ z.s = x.s /\ z.j = u
    OBVIOUS
  <2>7. z \in PlaybackState
    BY <1>4, <2>2 DEF PartsFit, PlaybackState
  <2> HIDE DEF z, y, begun
  <2>8. PartsFit(z)
    BY <1>1, <1>3, <2>6, <2>7 DEF PartsFit, u
  <2>9. CoreFits(z) /\ CauseFits(z) /\ GoingFits(z)
    BY <1>1, <2>1, <2>2, <2>6 DEF CoreFits, CauseFits, GoingFits
  <2>10. Going(z)
    BY <2>2, <2>6, <2>8, <2>9 DEF Going, PlaybackInv
  <2>11. begun.x = z /\ begun.ret = "ok"
    BY <2>5 DEF Progress, Result
  <2> QED BY <2>2, <2>6, <2>10, <2>11
<1> QED BY <1>5, <1>6
-----------------------------------------------------------------------------
(* The player task and the output.                                         *)

(* The playback and its output, between two steps.                         *)
Fine(x, o) == PlaybackInv(x) /\ OutputFits(x, o)

OutputFields ==
  {"written", "read", "seen", "silence", "eof", "on", "stopped", "stop", "fault", "state", "mid", "gap"}

(* What the fields of an output are.                                       *)
LEMMA OutputFacts ==
  ASSUME NEW o \in OutputType
  PROVE  /\ DOMAIN o = OutputFields
         /\ o.written \in Nat /\ o.read \in Nat /\ o.seen \in Nat /\ o.silence \in 0 .. DrainFrames
         /\ o.eof \in BOOLEAN /\ o.on \in BOOLEAN /\ o.stopped \in BOOLEAN /\ o.stop \in BOOLEAN
         /\ o.fault \in BOOLEAN /\ o.mid \in BOOLEAN /\ o.gap \in 0 .. MaxGap
         /\ o.state \in {"idle", "active", "done", "aborted", "error"}
<1>1. DOMAIN o = OutputFields
  BY Zenon DEF OutputType, OutputFields
<1> HIDE DEF OutputFields
<1> QED BY <1>1 DEF OutputType

(* What an output not touched by a stop keeps of another.                  *)
SameFlow(o, q) ==
  q.written = o.written /\ q.read = o.read /\ q.seen = o.seen /\ q.silence = o.silence /\ q.eof = o.eof

(* stop_output().                                                          *)
LEMMA StopOutputFacts ==
  ASSUME NEW o \in OutputType, NEW flaw \in BOOLEAN
  PROVE  LET q == StopOutput(o, flaw)
         IN  /\ q \in OutputType /\ SameFlow(o, q) /\ q.on = FALSE /\ q.stopped = TRUE
             /\ (o.fault => q.fault) /\ q.stop = o.stop /\ q.mid = o.mid /\ q.gap = o.gap
<1> DEFINE q == StopOutput(o, flaw)
           fault == o.fault \/ flaw
<1>1. q = [o EXCEPT !.on = FALSE, !.stopped = TRUE, !.fault = fault]
  BY DEF StopOutput
<1>2. fault \in BOOLEAN
  BY OutputFacts
<1> HIDE DEF fault
<1> DEFINE w == [o EXCEPT !.on = FALSE, !.stopped = TRUE, !.fault = fault]
<1>3. /\ w.written = o.written /\ w.read = o.read /\ w.seen = o.seen /\ w.silence = o.silence /\ w.eof = o.eof
      /\ w.on = FALSE /\ w.stopped = TRUE /\ w.fault = fault /\ w.stop = o.stop /\ w.mid = o.mid /\ w.gap = o.gap
  BY OutputFacts, Zenon DEF OutputFields
<1>4. w \in OutputType
  BY <1>2 DEF OutputType
<1> HIDE DEF w
<1>5. q = w
  BY <1>1 DEF w
<1> QED BY <1>3, <1>4, <1>5 DEF SameFlow, fault

(* Its cursors make an output fit, if it is untouched or stopped.          *)
LEMMA SameFlowFits ==
  ASSUME NEW o, NEW q, FifoFits(o), SameFlow(o, q)
  PROVE  FifoFits(q) /\ Fill(q) = Fill(o) /\ (Draining(q) <=> Draining(o))
BY DEF FifoFits, SameFlow, Fill, Draining

(* A playback that has failed or was stopped, with its output.             *)
LEMMA StoppingFits ==
  ASSUME NEW x, NEW o \in OutputType, PlaybackInv(x), x.p.active => x.p.stopping, FifoFits(o),
         o.stopped \/ ~x.p.active => ~o.on, o.fault \/ o.stop
  PROVE  Fine(x, o)
BY DEF Fine, OutputFits, FlowFits, FlagsFit

(* The operator's STOP.                                                    *)
LEMMA StopFits ==
  ASSUME NEW x, NEW o, Fine(x, o), x.p.active, NEW flaw \in BOOLEAN
  PROVE  LET y == PlaybackCancel(x).x
             s == [o EXCEPT !.stop = TRUE]
         IN  /\ o.stopped => Fine(y, s)
             /\ Fine(y, StopOutput(s, flaw))
<1> DEFINE y == PlaybackCancel(x).x
           s == [o EXCEPT !.stop = TRUE]
           q == StopOutput(s, flaw)
<1>1. o \in OutputType /\ FifoFits(o) /\ (o.stopped => ~o.on) /\ PlaybackInv(x)
  BY DEF Fine, OutputFits, FlagsFit
<1>2. PlaybackInv(y) /\ y.p.active /\ y.p.stopping
  BY <1>1, CancelFalls
<1>3. s \in OutputType /\ SameFlow(o, s) /\ s.stop = TRUE /\ s.stopped = o.stopped /\ s.on = o.on
  <2>1. s.stop = TRUE /\ s.stopped = o.stopped /\ s.on = o.on /\ SameFlow(o, s)
    BY <1>1, OutputFacts, Zenon DEF OutputFields, SameFlow
  <2>2. s \in OutputType
    BY <1>1 DEF OutputType
  <2> QED BY <2>1, <2>2
<1> HIDE DEF s, y
<1>4. o.stopped => Fine(y, s)
  BY <1>1, <1>2, <1>3, SameFlowFits, StoppingFits
<1>5. q \in OutputType /\ SameFlow(s, q) /\ q.on = FALSE /\ q.stop = TRUE
  BY <1>3, StopOutputFacts
<1> HIDE DEF q
<1>6. Fine(y, q)
  <2>1. FifoFits(s)
    BY <1>1, <1>3, SameFlowFits
  <2> QED BY <1>2, <1>5, <2>1, SameFlowFits, StoppingFits
<1> QED BY <1>4, <1>6 DEF s, y, q
(* The audio task takes a block, plays silence or finds the FIFO short.    *)
BlockTaken(o) ==
  LET copied == S!Min2(Fill(o), OutputBlock)
      tick   == [o EXCEPT !.gap = IF o.mid THEN @ + 1 ELSE 0]
      silent(n) == S!Min2(o.silence + n, DrainFrames)
  IN  IF Draining(o) THEN [tick EXCEPT !.silence = silent(OutputBlock)]
      ELSE IF copied < OutputBlock /\ ~o.eof THEN [tick EXCEPT !.fault = TRUE]
      ELSE [tick EXCEPT !.read = @ + copied, !.silence = silent(OutputBlock - copied)]

(* A codec block keeps the output in step.                                 *)
LEMMA BlockFits ==
  ASSUME NEW x, NEW o, Fine(x, o), o.on, ~o.stop, o.mid => o.gap < MaxGap
  PROVE  Fine(x, BlockTaken(o))
<1> DEFINE copied == S!Min2(Fill(o), OutputBlock)
           g == IF o.mid THEN o.gap + 1 ELSE 0
           tick == [o EXCEPT !.gap = g]
           s1 == S!Min2(o.silence + OutputBlock, DrainFrames)
           s2 == S!Min2(o.silence + (OutputBlock - copied), DrainFrames)
           read == o.read + copied
           q1 == [tick EXCEPT !.silence = s1]
           q2 == [tick EXCEPT !.fault = TRUE]
           q3 == [tick EXCEPT !.read = read, !.silence = s2]
           q == BlockTaken(o)
<1>1. /\ o \in OutputType /\ FifoFits(o) /\ FlowFits(x, o) /\ FlagsFit(x, o) /\ PlaybackInv(x)
      /\ o.written \in Nat /\ o.read \in Nat /\ o.seen \in Nat /\ o.silence \in 0 .. DrainFrames /\ o.gap \in 0 .. MaxGap
      /\ o.mid \in BOOLEAN
  BY OutputFacts DEF Fine, OutputFits
<1>2. OutputBlock \in Nat \ {0} /\ DrainFrames \in Nat /\ MaxGap \in Nat
  BY DrainAssumption
<1>3. copied \in Nat /\ copied <= Fill(o) /\ copied <= OutputBlock
  BY <1>1, <1>2 DEF S!Min2, Fill, FifoFits
<1>4. g \in 0 .. MaxGap
  BY <1>1, <1>2
<1>5. s1 \in 0 .. DrainFrames
  BY <1>1, <1>2 DEF S!Min2
<1>6. s2 \in 0 .. DrainFrames
  <2> HIDE DEF copied
  <2> QED BY <1>1, <1>2, <1>3 DEF S!Min2
<1>7. q \in {q1, q2, q3}
  BY <1>1 DEF BlockTaken, OutputType
<1>8. read \in Nat /\ o.read <= read /\ read <= o.written
  <2> HIDE DEF copied
  <2> QED BY <1>1, <1>3 DEF Fill
<1> HIDE DEF copied, g, s1, s2, read
<1>9. /\ q1 \in OutputType /\ q1.written = o.written /\ q1.seen = o.seen /\ q1.read = o.read
      /\ q1.on = o.on /\ q1.stopped = o.stopped /\ q1.stop = o.stop /\ q1.fault = o.fault
  <2>1. q1 \in OutputType
    BY <1>1, <1>4, <1>5 DEF OutputType
  <2>2. /\ q1.written = o.written /\ q1.seen = o.seen /\ q1.read = o.read
        /\ q1.on = o.on /\ q1.stopped = o.stopped /\ q1.stop = o.stop /\ q1.fault = o.fault
    BY <1>1, OutputFacts, Zenon DEF OutputFields
  <2> QED BY <2>1, <2>2
<1>10. /\ q2 \in OutputType /\ q2.written = o.written /\ q2.seen = o.seen /\ q2.read = o.read
       /\ q2.on = o.on /\ q2.stopped = o.stopped /\ q2.stop = o.stop /\ q2.fault = TRUE
  <2>1. q2 \in OutputType
    BY <1>1, <1>4 DEF OutputType
  <2>2. /\ q2.written = o.written /\ q2.seen = o.seen /\ q2.read = o.read
        /\ q2.on = o.on /\ q2.stopped = o.stopped /\ q2.stop = o.stop /\ q2.fault = TRUE
    BY <1>1, OutputFacts, Zenon DEF OutputFields
  <2> QED BY <2>1, <2>2
<1>11. /\ q3 \in OutputType /\ q3.written = o.written /\ q3.seen = o.seen /\ q3.read = read
       /\ q3.on = o.on /\ q3.stopped = o.stopped /\ q3.stop = o.stop /\ q3.fault = o.fault
  <2>1. q3 \in OutputType
    BY <1>1, <1>4, <1>6, <1>8 DEF OutputType
  <2>2. /\ q3.written = o.written /\ q3.seen = o.seen /\ q3.read = read
        /\ q3.on = o.on /\ q3.stopped = o.stopped /\ q3.stop = o.stop /\ q3.fault = o.fault
    BY <1>1, OutputFacts, Zenon DEF OutputFields
  <2> QED BY <2>1, <2>2
<1> HIDE DEF q1, q2, q3
<1>12. /\ q \in OutputType /\ q.written = o.written /\ q.seen = o.seen /\ q.read \in {o.read, read}
       /\ q.on = o.on /\ q.stopped = o.stopped /\ q.stop = o.stop /\ (o.fault => q.fault)
  BY <1>7, <1>9, <1>10, <1>11
<1> HIDE DEF q
<1>13. FifoFits(q)
  <2>1. RingCapacity \in Nat
    BY RingAssumption
  <2> QED BY <1>1, <1>8, <1>12, <2>1 DEF FifoFits, Fill
<1>14. FlowFits(x, q)
  BY <1>1, <1>12 DEF FlowFits
<1>15. FlagsFit(x, q)
  BY <1>1, <1>12 DEF FlagsFit
<1>16. Fine(x, q)
  BY <1>1, <1>12, <1>13, <1>14, <1>15 DEF Fine, OutputFits
<1> QED BY <1>16 DEF q

(* The codec or the stream latches a fault.                                *)
LEMMA FaultFits ==
  ASSUME NEW x, NEW o, Fine(x, o)
  PROVE  Fine(x, [o EXCEPT !.fault = TRUE])
<1> DEFINE q == [o EXCEPT !.fault = TRUE]
<1>1. o \in OutputType /\ FifoFits(o) /\ FlowFits(x, o) /\ FlagsFit(x, o) /\ PlaybackInv(x)
  BY DEF Fine, OutputFits
<1>2. /\ q.written = o.written /\ q.seen = o.seen /\ q.read = o.read /\ q.silence = o.silence /\ q.eof = o.eof
      /\ q.on = o.on /\ q.stopped = o.stopped /\ q.stop = o.stop /\ q.fault = TRUE
  BY <1>1, OutputFacts, Zenon DEF OutputFields
<1>3. q \in OutputType
  BY <1>1 DEF OutputType
<1> HIDE DEF q
<1>4. FifoFits(q) /\ FlowFits(x, q) /\ FlagsFit(x, q)
  BY <1>1, <1>2 DEF FifoFits, Fill, FlowFits, FlagsFit, Draining
<1>5. Fine(x, q)
  BY <1>1, <1>3, <1>4 DEF Fine, OutputFits
<1> QED BY <1>5 DEF q
(* Induction over the blocks of one observation.                           *)
LEMMA Least ==
  ASSUME NEW T \in SUBSET Nat, T # {}
  PROVE  \E m \in T : \A k \in T : m <= k
<1> DEFINE R == OpToRel(<, Nat)
<1>1. IsWellFoundedOn(R, Nat)
  BY NatLessThanWellFounded
<1>2. PICK m \in T : \A k \in T : <<k, m>> \notin R
  <2> HIDE DEF R
  <2> QED BY <1>1, WFMin
<1>3. \A k \in T : ~ (k < m)
  BY <1>2 DEF OpToRel
<1> QED BY <1>3

(* Induction over the naturals, for a set given by its property.           *)
LEMMA SetInduction ==
  ASSUME NEW T \in SUBSET Nat, 0 \in T, \A n \in T : n + 1 \in T
  PROVE  T = Nat
<1> SUFFICES ASSUME Nat \ T # {} PROVE FALSE
  OBVIOUS
<1>1. PICK m \in Nat \ T : \A k \in Nat \ T : m <= k
  BY Least
<1>2. m # 0 /\ m - 1 \in Nat
  BY <1>1
<1>3. m - 1 \in T
  BY <1>1, <1>2
<1>4. m \in T
  BY <1>2, <1>3
<1> QED BY <1>1, <1>4

(* n frames make (n + Block - 1) div Block blocks, the last one short.     *)
LEMMA WholeBlocks ==
  ASSUME NEW n \in Nat
  PROVE  LET chunks == (n + Block - 1) \div Block
         IN  /\ chunks \in Nat /\ n <= chunks * Block /\ chunks * Block < n + Block
             /\ chunks = 0 <=> n = 0
<1> DEFINE chunks == (n + Block - 1) \div Block
           rest == (n + Block - 1) % Block
<1>1. Block \in Nat /\ Block > 0
  BY BlockAssumption
<1>2. chunks \in Int /\ rest \in 0 .. Block - 1 /\ n + Block - 1 = Block * chunks + rest
  BY <1>1
<1> HIDE DEF chunks, rest
<1>3. n <= Block * chunks /\ Block * chunks < n + Block
  BY <1>1, <1>2
<1>4. chunks >= 0
  <2> SUFFICES ASSUME chunks <= -1 PROVE FALSE
    BY <1>2
  <2>1. Block * chunks <= -Block
    BY <1>1, <1>2
  <2> QED BY <1>1, <1>2, <1>3, <2>1
<1>5. Block * chunks = chunks * Block
  BY <1>1, <1>2
<1>6. chunks = 0 <=> n = 0
  <2>1. ASSUME n = 0, chunks >= 1 PROVE FALSE
    <3>1. Block * chunks >= Block
      BY <1>1, <1>2, <2>1
    <3> QED BY <1>1, <1>2, <1>3, <2>1, <3>1
  <2> QED BY <1>1, <1>2, <1>3, <1>4, <2>1
<1> QED BY <1>2, <1>3, <1>4, <1>5, <1>6 DEF chunks

LEMMA Multiples ==
  ASSUME NEW a \in Nat, NEW b \in Nat, a <= b
  PROVE  a * Block <= b * Block /\ a * Block \in Nat /\ (a + 1) * Block = a * Block + Block
BY BlockAssumption

(* What consume() is called with for the i-th block of n frames, and what  *)
(* it leaves.                                                              *)
ChunkSize(i, n) ==
  LET chunks == (n + Block - 1) \div Block
  IN  IF i < chunks THEN Block ELSE n - (chunks - 1) * Block

Chunk(r, i, n) == IF r.ret # "ok" THEN r ELSE PlaybackConsume(r.x, ChunkSize(i, n))

IsChunks(f, x, n, k) == f = [i \in 0 .. k |-> IF i = 0 THEN Progress(x) ELSE Chunk(f[i - 1], i, n)]

(* The results of the blocks consumed one after another, as a function.    *)
LEMMA ChunksExist ==
  ASSUME NEW x, NEW n, NEW k \in Nat
  PROVE  \E f : IsChunks(f, x, n, k)
<1> DEFINE T == {m \in Nat : \E f : IsChunks(f, x, n, m)}
<1>1. 0 \in T
  <2> DEFINE f == [i \in 0 .. 0 |-> Progress(x)]
  <2>1. f = [i \in 0 .. 0 |-> IF i = 0 THEN Progress(x) ELSE Chunk(f[i - 1], i, n)]
    OBVIOUS
  <2> QED BY <2>1 DEF IsChunks
<1>2. ASSUME NEW m \in T PROVE m + 1 \in T
  <2>1. m \in Nat
    OBVIOUS
  <2>2. PICK f : IsChunks(f, x, n, m)
    OBVIOUS
  <2> DEFINE g == [i \in 0 .. m + 1 |-> IF i <= m THEN f[i] ELSE Chunk(f[m], i, n)]
             h == [i \in 0 .. m + 1 |-> IF i = 0 THEN Progress(x) ELSE Chunk(g[i - 1], i, n)]
  <2>3. ASSUME NEW i \in 0 .. m + 1 PROVE g[i] = h[i]
    <3>1. CASE i = 0
      <4>1. f[0] = Progress(x)
        BY <2>1, <2>2 DEF IsChunks
      <4> QED BY <2>1, <3>1, <4>1
    <3>2. CASE i # 0 /\ i <= m
      <4>1. i \in 0 .. m /\ i - 1 \in 0 .. m
        BY <2>1, <3>2
      <4>2. f[i] = Chunk(f[i - 1], i, n)
        BY <2>2, <3>2, <4>1 DEF IsChunks
      <4>3. g[i] = f[i] /\ g[i - 1] = f[i - 1] /\ i - 1 \in 0 .. m + 1
        BY <2>1, <3>2, <4>1
      <4> HIDE DEF g
      <4> QED BY <3>2, <4>2, <4>3
    <3>3. CASE i = m + 1
      <4>1. g[i] = Chunk(f[m], i, n) /\ g[i - 1] = f[m] /\ i # 0
        BY <2>1, <3>3
      <4> HIDE DEF g
      <4> QED BY <4>1
    <3> QED BY <2>1, <3>1, <3>2, <3>3
  <2>4. g = h
    <3>1. DOMAIN g = 0 .. m + 1 /\ DOMAIN h = 0 .. m + 1
      OBVIOUS
    <3>2. g = [i \in 0 .. m + 1 |-> g[i]] /\ h = [i \in 0 .. m + 1 |-> h[i]]
      OBVIOUS
    <3> HIDE DEF g, h
    <3> QED BY <2>3, <3>2
  <2>5. IsChunks(g, x, n, m + 1)
    <3> HIDE DEF g
    <3> QED BY <2>4 DEF IsChunks
  <2> QED BY <2>1, <2>5
<1> HIDE DEF T
<1>3. T = Nat
  <2>1. T \in SUBSET Nat
    BY DEF T
  <2> QED BY <1>1, <1>2, <2>1, SetInduction
<1> QED BY <1>3 DEF T

LEMMA ObservedChunks ==
  ASSUME NEW x, NEW n \in Nat
  PROVE  \E f : IsChunks(f, x, n, (n + Block - 1) \div Block) /\ ConsumeObserved(x, n) = f[(n + Block - 1) \div Block]
<1> DEFINE chunks == (n + Block - 1) \div Block
           size(i) == IF i < chunks THEN Block ELSE n - (chunks - 1) * Block
           after[i \in 0 .. chunks] ==
             IF i = 0 THEN Progress(x)
             ELSE IF after[i - 1].ret # "ok" THEN after[i - 1]
             ELSE PlaybackConsume(after[i - 1].x, size(i))
<1>1. ConsumeObserved(x, n) = after[chunks]
  BY Zenon DEF ConsumeObserved
<1>2. \E f : f = [i \in 0 .. chunks |-> IF i = 0 THEN Progress(x)
                                       ELSE IF f[i - 1].ret # "ok" THEN f[i - 1]
                                       ELSE PlaybackConsume(f[i - 1].x, size(i))]
  <2>1. chunks \in Nat
    BY WholeBlocks
  <2>2. \E f : IsChunks(f, x, n, chunks)
    <3> HIDE DEF chunks
    <3> QED BY <2>1, ChunksExist
  <2> QED BY <2>2, Zenon DEF IsChunks, Chunk, ChunkSize
<1>3. after = [i \in 0 .. chunks |-> IF i = 0 THEN Progress(x)
                                     ELSE IF after[i - 1].ret # "ok" THEN after[i - 1]
                                     ELSE PlaybackConsume(after[i - 1].x, size(i))]
  BY <1>2, Zenon
<1> HIDE DEF after
<1>4. IsChunks(after, x, n, chunks)
  BY <1>3, Zenon DEF IsChunks, Chunk, ChunkSize
<1> QED BY <1>1, <1>4
(* Frames that were read are consumed, a block at a time, without fail.    *)
Chunked(x, r, n) ==
  /\ r.ret = "ok" /\ Going(r.x) /\ r.x.p = x.p /\ r.x.j = x.j /\ r.x.s.started
  /\ r.x.s.read = x.s.read /\ r.x.s.consumed = x.s.consumed + n

LEMMA ConsumesObserved ==
  ASSUME NEW x, Going(x), x.p.configured, x.s.started, NEW n \in Nat, x.s.consumed + n <= x.s.read
  PROVE  Chunked(x, ConsumeObserved(x, n), n)
<1> DEFINE chunks == (n + Block - 1) \div Block
           upto(i) == IF i < chunks THEN i * Block ELSE n
<1>1. chunks \in Nat /\ n <= chunks * Block /\ chunks * Block < n + Block /\ (chunks = 0 <=> n = 0)
  BY WholeBlocks
<1>2. PICK f : IsChunks(f, x, n, chunks) /\ ConsumeObserved(x, n) = f[chunks]
  BY ObservedChunks
<1>3. Block \in Nat /\ Block > 0 /\ x.s.consumed \in Nat /\ x.s.read \in Nat
  <2>1. x.s \in S!SchedulerType
    BY GoingFacts DEF S!SchedulerInv
  <2> QED BY <2>1, BlockAssumption DEF S!SchedulerType
<1>4. \A i : ChunkSize(i, n) = IF i < chunks THEN Block ELSE n - (chunks - 1) * Block
  BY DEF ChunkSize
<1> HIDE DEF chunks
<1> DEFINE T == {i \in Nat : i <= chunks => Chunked(x, f[i], upto(i))}
<1>5. 0 \in T
  <2>1. f[0] = Progress(x)
    BY <1>1, <1>2 DEF IsChunks
  <2>2. upto(0) = 0
    BY <1>1, <1>3
  <2>3. x.s.consumed + 0 = x.s.consumed
    BY <1>3
  <2> HIDE DEF upto
  <2>4. f[0].x = x /\ f[0].ret = "ok"
    BY <2>1 DEF Progress, Result
  <2>5. Chunked(x, f[0], 0)
    BY <2>3, <2>4, Zenon DEF Chunked
  <2>6. Chunked(x, f[0], upto(0))
    BY <2>2, <2>5
  <2> QED BY <2>6
<1>6. ASSUME NEW i \in T PROVE i + 1 \in T
  <2> SUFFICES ASSUME i + 1 <= chunks PROVE Chunked(x, f[i + 1], upto(i + 1))
    OBVIOUS
  <2> DEFINE c == ChunkSize(i + 1, n)
  <2>1. i \in Nat /\ i < chunks /\ Chunked(x, f[i], upto(i)) /\ upto(i) = i * Block
    BY <1>1
  <2>2. f[i + 1] = Chunk(f[i], i + 1, n)
    <3>1. i + 1 \in 0 .. chunks /\ i + 1 # 0 /\ (i + 1) - 1 = i
      BY <1>1, <2>1
    <3>2. f[i + 1] = IF i + 1 = 0 THEN Progress(x) ELSE Chunk(f[(i + 1) - 1], i + 1, n)
      BY <1>2, <3>1, Zenon DEF IsChunks
    <3> QED BY <3>1, <3>2
  <2>3. i * Block \in Nat /\ (i + 1) * Block = i * Block + Block
    BY <2>1, Multiples
  <2>4. c \in Nat \ {0} /\ c <= Block /\ upto(i + 1) = i * Block + c /\ i * Block + c <= n
    <3>1. CASE i + 1 < chunks
      <4>1. (i + 2) * Block <= chunks * Block /\ (i + 2) * Block = i * Block + Block + Block
        <5>1. (i + 2) * Block <= chunks * Block
          BY <1>1, <2>1, <3>1, Multiples
        <5>2. (i + 2) * Block = (i + 1) * Block + Block
          BY <1>3, <2>1
        <5> QED BY <2>3, <5>1, <5>2
      <4>2. c = Block /\ upto(i + 1) = (i + 1) * Block
        BY <1>4, <2>1, <3>1
      <4>3. chunks * Block \in Nat
        BY <1>1, Multiples
      <4> HIDE DEF c, upto
      <4> QED BY <1>1, <1>3, <2>3, <4>1, <4>2, <4>3
    <3>2. CASE i + 1 = chunks
      <4>1. chunks - 1 = i
        BY <1>1, <2>1, <3>2
      <4>2. c = n - i * Block /\ upto(i + 1) = n
        BY <1>1, <1>4, <2>1, <3>2, <4>1
      <4>3. chunks * Block = i * Block + Block
        BY <2>3, <3>2
      <4> HIDE DEF c, upto
      <4> QED BY <1>1, <1>3, <2>3, <4>2, <4>3
    <3> QED BY <1>1, <2>1, <3>1, <3>2
  <2> DEFINE y == f[i].x
             r == PlaybackConsume(y, c)
  <2>5. Going(y) /\ y.p.configured /\ y.s.started /\ y.s.read = x.s.read /\ y.s.consumed = x.s.consumed + i * Block
        /\ y.p = x.p /\ y.j = x.j
    BY <2>1 DEF Chunked
  <2>6. f[i + 1] = r
    BY <2>1, <2>2 DEF Chunk, Chunked
  <2> HIDE DEF c, y, upto
  <2>7. y.s.consumed + c <= y.s.read
    BY <1>3, <2>3, <2>4, <2>5
  <2>8. /\ r.ret = "ok" /\ Going(r.x) /\ r.x.p = y.p /\ r.x.j = y.j
        /\ r.x.s.started /\ r.x.s.read = y.s.read /\ r.x.s.consumed = y.s.consumed + c
    BY <2>4, <2>5, <2>7, ConsumeGoes
  <2> HIDE DEF r
  <2>9. r.x.s.consumed = x.s.consumed + upto(i + 1)
    BY <1>3, <2>3, <2>4, <2>5, <2>8
  <2> QED BY <2>5, <2>6, <2>8, <2>9 DEF Chunked
<1>7. T = Nat
  <2>1. T \in SUBSET Nat
    OBVIOUS
  <2> HIDE DEF T
  <2> QED BY <1>5, <1>6, <2>1, SetInduction
<1>8. Chunked(x, f[chunks], upto(chunks)) /\ upto(chunks) = n
  BY <1>1, <1>7
<1> HIDE DEF upto
<1> QED BY <1>2, <1>8

(* A playback that stops no longer counts what is played.                  *)
LEMMA ConsumesNothing ==
  ASSUME NEW x, x.p.stopping, NEW n \in Nat
  PROVE  ConsumeObserved(x, n).x = x
<1> DEFINE chunks == (n + Block - 1) \div Block
<1>1. chunks \in Nat
  BY WholeBlocks
<1>2. PICK f : IsChunks(f, x, n, chunks) /\ ConsumeObserved(x, n) = f[chunks]
  BY ObservedChunks
<1> HIDE DEF chunks
<1> DEFINE T == {i \in Nat : i <= chunks => f[i].x = x}
<1>3. 0 \in T
  BY <1>1, <1>2 DEF IsChunks, Progress, Result
<1>4. ASSUME NEW i \in T PROVE i + 1 \in T
  <2> SUFFICES ASSUME i + 1 <= chunks PROVE f[i + 1].x = x
    OBVIOUS
  <2>1. f[i].x = x /\ f[i + 1] = Chunk(f[i], i + 1, n)
    BY <1>1, <1>2 DEF IsChunks
  <2>2. PlaybackConsume(x, ChunkSize(i + 1, n)) = Result(x, "unavailable")
    BY DEF PlaybackConsume, Playing
  <2>3. Result(x, "unavailable").x = x
    BY DEF Result
  <2> QED BY <2>1, <2>2, <2>3 DEF Chunk
<1>5. T = Nat
  <2>1. T \in SUBSET Nat
    OBVIOUS
  <2> HIDE DEF T
  <2> QED BY <1>3, <1>4, <2>1, SetInduction
<1> QED BY <1>1, <1>2, <1>5

(* observe_prepared_output().                                              *)
LEMMA ObserveFits ==
  ASSUME NEW x, NEW o, Fine(x, o), x.p.active
  PROVE  LET c == ConsumeObserved(x, o.read - o.seen)
         IN  /\ Fine(x, [o EXCEPT !.mid = TRUE])
             /\ Snapshot(x).started =>
                  /\ Fine(c.x, [o EXCEPT !.mid = TRUE, !.seen = IF c.ret = "ok" THEN o.read ELSE @,
                                         !.fault = @ \/ c.ret # "ok"])
                  /\ c.x.p = x.p /\ c.x.j = x.j
<1> DEFINE c == ConsumeObserved(x, o.read - o.seen)
           w == [o EXCEPT !.mid = TRUE]
           seen == IF c.ret = "ok" THEN o.read ELSE o.seen
           fault == o.fault \/ c.ret # "ok"
           q == [o EXCEPT !.mid = TRUE, !.seen = seen, !.fault = fault]
<1>1. /\ o \in OutputType /\ FifoFits(o) /\ FlowFits(x, o) /\ FlagsFit(x, o) /\ PlaybackInv(x)
      /\ o.read \in Nat /\ o.seen \in Nat /\ o.seen <= o.read /\ o.read <= o.written /\ o.written \in Nat
      /\ o.fault \in BOOLEAN
  BY OutputFacts DEF Fine, OutputFits, FifoFits
<1>2. Fine(x, w)
  <2>1. /\ w.written = o.written /\ w.seen = o.seen /\ w.read = o.read /\ w.silence = o.silence
        /\ w.on = o.on /\ w.stopped = o.stopped /\ w.stop = o.stop /\ w.fault = o.fault
    BY <1>1, OutputFacts, Zenon DEF OutputFields
  <2>2. w \in OutputType
    BY <1>1 DEF OutputType
  <2> HIDE DEF w
  <2>3. FifoFits(w) /\ FlowFits(x, w) /\ FlagsFit(x, w)
    BY <1>1, <2>1 DEF FifoFits, Fill, FlowFits, FlagsFit, Draining
  <2> QED BY <1>1, <2>2, <2>3 DEF Fine, OutputFits
<1>3. seen \in {o.read, o.seen} /\ fault \in BOOLEAN /\ (o.fault => fault) /\ (c.ret # "ok" => fault)
      /\ (c.ret = "ok" => seen = o.read)
  BY <1>1
<1>4. o.read - o.seen \in Nat
  BY <1>1
<1> HIDE DEF c, seen, fault
<1>5. /\ q \in OutputType /\ q.written = o.written /\ q.seen = seen /\ q.read = o.read /\ q.silence = o.silence
      /\ q.on = o.on /\ q.stopped = o.stopped /\ q.stop = o.stop /\ q.fault = fault
  <2>1. /\ q.written = o.written /\ q.seen = seen /\ q.read = o.read /\ q.silence = o.silence
        /\ q.on = o.on /\ q.stopped = o.stopped /\ q.stop = o.stop /\ q.fault = fault
    BY <1>1, OutputFacts, Zenon DEF OutputFields
  <2>2. seen \in Nat
    BY <1>1, <1>3
  <2>3. q \in OutputType
    BY <1>1, <1>3, <2>2 DEF OutputType
  <2> QED BY <2>1, <2>3
<1> HIDE DEF w, q
<1>6. FifoFits(q)
  BY <1>1, <1>3, <1>5 DEF FifoFits, Fill
<1>7. ASSUME Snapshot(x).started
      PROVE  Fine(c.x, q) /\ c.x.p = x.p /\ c.x.j = x.j
  <2>1. x.p.configured /\ x.s.started
    BY <1>7 DEF Snapshot, S!NewScheduler
  <2>2. CASE x.p.stopping
    <3>1. c.x = x
      BY <1>4, <2>2, ConsumesNothing DEF c
    <3>2. q.stopped \/ ~x.p.active => ~q.on
      BY <1>1, <1>5 DEF FlagsFit
    <3>3. q.fault \/ q.stop
      BY <1>1, <1>3, <1>5, <2>2 DEF FlagsFit
    <3>4. Fine(x, q)
      BY <1>1, <1>5, <1>6, <2>2, <3>2, <3>3, StoppingFits
    <3> QED BY <3>1, <3>4
  <2>3. CASE ~x.p.stopping
    <3>1. Going(x)
      BY <1>1, <2>3 DEF Going
    <3>2. x.s.read = o.written /\ x.s.consumed = o.seen
      BY <1>1, <2>1, <2>3 DEF FlowFits
    <3>3. Chunked(x, c, o.read - o.seen)
      BY <1>1, <1>4, <2>1, <3>1, <3>2, ConsumesObserved DEF c
    <3>4. c.ret = "ok" /\ Going(c.x) /\ c.x.p = x.p /\ c.x.j = x.j /\ c.x.s.started
          /\ c.x.s.read = o.written /\ c.x.s.consumed = o.read
      BY <1>1, <3>2, <3>3 DEF Chunked
    <3>5. seen = o.read
      BY <1>3, <3>4
    <3>6. FlowFits(c.x, q)
      BY <1>1, <1>5, <2>1, <3>4, <3>5 DEF FlowFits
    <3>7. FlagsFit(c.x, q)
      BY <1>1, <1>3, <1>5, <2>3, <3>4 DEF FlagsFit
    <3> QED BY <1>5, <1>6, <3>4, <3>6, <3>7 DEF Fine, OutputFits, Going
  <2> QED BY <2>2, <2>3
<1> QED BY <1>2, <1>7 DEF w, c, q, seen, fault
(* What fail() may have done to a playback.                                *)
FallsTo(x, y) ==
  /\ PlaybackInv(y) /\ y.p.active /\ (y = x \/ y.p.stopping)
  /\ y.j.published = x.j.published
  /\ x.p.status # "ok" => y.p.status = x.p.status
  /\ x.j.phase = "cleanup_failed" => y.j = x.j
  /\ y.p.retry = x.p.retry

(* fail() when there is cause.                                             *)
LEMMA MayFail ==
  ASSUME NEW x, PlaybackInv(x), x.p.active, NEW c, NEW reason \in Cause \ {"ok"}
  PROVE  LET y == IF c THEN PlaybackFail(x, reason).x ELSE x
         IN  FallsTo(x, y) /\ (c => y.p.stopping) /\ (~c => y = x)
<1>1. CASE c
  <2>1. Fell(x, PlaybackFail(x, reason))
    BY FailFalls
  <2> QED BY <1>1, <2>1 DEF Fell, FallsTo
<1>2. CASE ~c
  BY <1>2 DEF FallsTo
<1> QED BY <1>1, <1>2

(* A cause found means a playback that stops, and conversely.              *)
LEMMA StopsForCause ==
  ASSUME NEW x, PlaybackInv(x), x.p.active
  PROVE  x.p.stopping <=> x.p.status # "ok"
BY DEF PlaybackInv, CauseFits

(* JudgeOutput, of a playback and its output.                              *)
Judged(x, o, flaw) ==
  LET failed == IF o.fault /\ x.p.status = "ok" THEN PlaybackFail(x, "io_error").x ELSE x
      ends   == ~o.stopped /\ (Drained(o) \/ o.fault \/ o.stop)
      q      == IF ends THEN StopOutput(o, flaw) ELSE o
  IN  [x |-> IF ends /\ q.fault THEN PlaybackFail(failed, "io_error").x ELSE failed, o |-> q]

(* The judgement: a fault stops the playback, a drained run its output.    *)
LEMMA JudgeFits ==
  ASSUME NEW x, NEW o, Fine(x, o), x.p.active, NEW flaw \in BOOLEAN
  PROVE  LET a == Judged(x, o, flaw)
         IN  /\ Fine(a.x, a.o) /\ FallsTo(x, a.x)
             /\ SameFlow(o, a.o) /\ a.o.stop = o.stop
<1> DEFINE failed == IF o.fault /\ x.p.status = "ok" THEN PlaybackFail(x, "io_error").x ELSE x
           ends   == ~o.stopped /\ (Drained(o) \/ o.fault \/ o.stop)
           q      == IF ends THEN StopOutput(o, flaw) ELSE o
           y      == IF ends /\ q.fault THEN PlaybackFail(failed, "io_error").x ELSE failed
<1>1. /\ o \in OutputType /\ FifoFits(o) /\ FlowFits(x, o) /\ FlagsFit(x, o) /\ PlaybackInv(x)
  BY DEF Fine, OutputFits
<1>2. "io_error" \in Cause \ {"ok"}
  BY Codes DEF Statuses
<1>3. /\ FallsTo(x, failed) /\ (o.fault /\ x.p.status = "ok" => failed.p.stopping)
      /\ (~(o.fault /\ x.p.status = "ok") => failed = x)
  BY <1>1, <1>2, MayFail
<1> HIDE DEF failed
<1>4. FallsTo(failed, y) /\ (ends /\ q.fault => y.p.stopping) /\ (~(ends /\ q.fault) => y = failed)
  <2>1. PlaybackInv(failed) /\ failed.p.active
    BY <1>3 DEF FallsTo
  <2> HIDE DEF ends, q
  <2> QED BY <1>2, <2>1, MayFail
<1>5. /\ q \in OutputType /\ SameFlow(o, q) /\ q.stop = o.stop /\ (o.fault => q.fault)
      /\ (q.stopped => ~q.on) /\ (o.stopped => q.stopped)
      /\ (ends => q.stopped) /\ (~ends => q = o)
  <2>1. CASE ends
    <3>1. LET w == StopOutput(o, flaw)
          IN  /\ w \in OutputType /\ SameFlow(o, w) /\ w.on = FALSE /\ w.stopped = TRUE
              /\ (o.fault => w.fault) /\ w.stop = o.stop
      BY <1>1, StopOutputFacts
    <3> QED BY <2>1, <3>1
  <2>2. CASE ~ends
    <3>1. q = o /\ SameFlow(o, o)
      BY <2>2 DEF SameFlow
    <3> HIDE DEF q
    <3> QED BY <1>1, <2>2, <3>1 DEF FlagsFit
  <2> QED BY <2>1, <2>2
<1>6. ends => Drained(o) \/ o.fault \/ o.stop
  OBVIOUS
<1>7. /\ FallsTo(x, y) /\ (y.p.stopping => x.p.stopping \/ o.fault \/ q.fault)
      /\ (~y.p.stopping => y = x /\ ~o.fault /\ (ends => ~q.fault))
  <2>1. x.p.stopping <=> x.p.status # "ok"
    BY <1>1, StopsForCause
  <2>2. y = failed \/ (y.p.stopping /\ q.fault)
    BY <1>4
  <2>3. failed = x \/ (failed.p.stopping /\ o.fault)
    BY <1>3
  <2> HIDE DEF y, ends, q
  <2>4. FallsTo(x, y)
    BY <1>3, <1>4 DEF FallsTo
  <2>5. o.fault => failed.p.stopping
    BY <1>3, <2>1
  <2> QED BY <1>4, <2>1, <2>2, <2>3, <2>4, <2>5 DEF FallsTo
<1> HIDE DEF y, q, ends
<1>8. FifoFits(q) /\ (Draining(q) <=> Draining(o)) /\ PlaybackInv(y) /\ y.p.active
  BY <1>1, <1>5, <1>7, SameFlowFits DEF FallsTo
<1>9. Fine(y, q)
  <2>1. CASE y.p.stopping
    <3>1. q.fault \/ q.stop
      BY <1>1, <1>5, <1>7, <2>1 DEF FlagsFit
    <3> QED BY <1>5, <1>8, <2>1, <3>1, StoppingFits
  <2>2. CASE ~y.p.stopping
    <3>1. y = x /\ ~o.fault /\ ~o.stop
      BY <1>1, <1>7, <2>2 DEF FlagsFit
    <3>2. ends => Draining(o)
      <4>1. DrainFrames > 0
        <5>1. MaxGap * OutputBlock \in Nat
          BY DrainAssumption
        <5> QED BY <5>1, DrainAssumption
      <4>2. Drained(o) => Draining(o)
        <5>1. o.silence \in 0 .. DrainFrames /\ DrainFrames \in Nat
          BY <1>1, OutputFacts, DrainAssumption
        <5> QED BY <4>1, <5>1 DEF Drained, Draining
      <4> QED BY <1>6, <3>1, <4>2
    <3>3. q.on \/ q.stopped \/ Draining(q) => x.p.configured /\ x.s.started
      BY <1>1, <1>5, <1>8, <2>2, <3>1, <3>2 DEF FlowFits
    <3>4. FlowFits(x, q)
      BY <1>1, <1>5, <3>3 DEF FlowFits, SameFlow
    <3>5. FlagsFit(x, q)
      BY <1>1, <1>5, <2>2, <3>1 DEF FlagsFit
    <3> QED BY <1>1, <1>5, <1>8, <3>1, <3>4, <3>5 DEF Fine, OutputFits
  <2> QED BY <2>1, <2>2
<1>10. Judged(x, o, flaw) = [x |-> y, o |-> q]
  BY DEF Judged, y, q, ends, failed
<1> QED BY <1>5, <1>7, <1>9, <1>10
(* A playback that has come to its end, whole.                             *)
Ended(x) ==
  /\ PlaybackInv(x) /\ ~x.p.active /\ x.p.status = "ok"
  /\ x.s.state = "completed" /\ x.s.consumed = x.j.source /\ x.j.phase = "complete"

(* What step() and its frames make of a playback and its output.           *)
Advances(x, o, y, q, drained) ==
  /\ q.read = o.read /\ q.eof = o.eof /\ q.stop = o.stop /\ (o.stopped => q.stopped)
  /\ x.p.status # "ok" => y.p.status = x.p.status
  /\ x.j.phase = "cleanup_failed" /\ ~x.p.retry => y.p.active /\ y.j = x.j
  /\ ~x.j.published /\ y.j.published =>
       drained /\ ~x.p.stopping /\ x.p.configured /\ x.s.read = y.j.source
  /\ \/ Fine(y, q) /\ (y.p.active \/ q.fault \/ q.stop)
     \/ Ended(y) /\ q \in OutputType /\ FifoFits(q) /\ (q.stopped => ~q.on)

(* step() has failed: the output stops.                                    *)
LEMMA FailedFits ==
  ASSUME NEW x, NEW o, Fine(x, o), x.p.active, NEW y, PlaybackInv(y), y.p.active => y.p.stopping,
         NEW flaw \in BOOLEAN
  PROVE  LET f == [o EXCEPT !.fault = @ \/ ~o.stop]
             q == IF o.stopped THEN f ELSE StopOutput(f, flaw)
         IN  /\ Fine(y, q) /\ (q.fault \/ q.stop)
             /\ q.read = o.read /\ q.eof = o.eof /\ q.stop = o.stop /\ (o.stopped => q.stopped)
<1> DEFINE fault == o.fault \/ ~o.stop
           f == [o EXCEPT !.fault = fault]
           q == IF o.stopped THEN f ELSE StopOutput(f, flaw)
<1>1. o \in OutputType /\ FifoFits(o) /\ FlagsFit(x, o) /\ o.stop \in BOOLEAN
  BY OutputFacts DEF Fine, OutputFits
<1>2. fault \in BOOLEAN /\ (~o.stop => fault)
  BY <1>1, OutputFacts
<1> HIDE DEF fault
<1>3. /\ f \in OutputType /\ SameFlow(o, f) /\ f.fault = fault /\ f.stop = o.stop /\ f.stopped = o.stopped
      /\ f.on = o.on
  <2>1. f.fault = fault /\ f.stop = o.stop /\ f.stopped = o.stopped /\ f.on = o.on /\ SameFlow(o, f)
    BY <1>1, OutputFacts, Zenon DEF OutputFields, SameFlow
  <2>2. f \in OutputType
    BY <1>1, <1>2 DEF OutputType
  <2> QED BY <2>1, <2>2
<1> HIDE DEF f
<1>4. /\ q \in OutputType /\ SameFlow(f, q) /\ (f.fault => q.fault) /\ q.stop = f.stop
      /\ (q.stopped => ~q.on) /\ (o.stopped => q.stopped)
  <2>1. CASE o.stopped
    <3>1. SameFlow(f, f)
      BY DEF SameFlow
    <3> QED BY <1>1, <1>3, <2>1, <3>1 DEF FlagsFit
  <2>2. CASE ~o.stopped
    <3>1. LET w == StopOutput(f, flaw)
          IN  w \in OutputType /\ SameFlow(f, w) /\ w.on = FALSE /\ (f.fault => w.fault) /\ w.stop = f.stop
      BY <1>3, StopOutputFacts
    <3> QED BY <2>2, <3>1
  <2> QED BY <2>1, <2>2
<1>5. ~q.on
  <2>1. CASE o.stopped
    BY <1>4, <2>1
  <2>2. CASE ~o.stopped
    <3>1. StopOutput(f, flaw).on = FALSE
      BY <1>3, StopOutputFacts
    <3> QED BY <2>2, <3>1
  <2> QED BY <2>1, <2>2
<1> HIDE DEF q
<1>6. FifoFits(q)
  BY <1>1, <1>3, <1>4, SameFlowFits
<1>7. q.fault \/ q.stop
  BY <1>2, <1>3, <1>4
<1>8. Fine(y, q)
  BY <1>4, <1>5, <1>6, <1>7, StoppingFits
<1>9. q.read = o.read /\ q.eof = o.eof /\ q.stop = o.stop /\ (o.stopped => q.stopped)
  BY <1>3, <1>4 DEF SameFlow
<1> QED BY <1>7, <1>8, <1>9 DEF q, f, fault

(* enqueue_prepared_frames(): the frames of a read always fit.             *)
LEMMA EnqueueFits ==
  ASSUME NEW x, NEW o, Fine(x, o), Going(x), NEW r, GoesOn(x, r)
  PROVE  LET e == Enqueue(r.x, o, r.frames)
         IN  /\ Fine(e.x, e.o) /\ e.x = r.x
             /\ e.o.read = o.read /\ e.o.eof = o.eof /\ e.o.stop = o.stop /\ e.o.stopped = o.stopped
<1> DEFINE y == r.x
           written == o.written + r.frames
           q == [o EXCEPT !.written = written]
<1>1. /\ o \in OutputType /\ FifoFits(o) /\ FlowFits(x, o) /\ FlagsFit(x, o)
      /\ o.written \in Nat /\ o.read \in Nat /\ o.seen \in Nat
      /\ x.p.active /\ ~x.p.stopping
  BY OutputFacts DEF Fine, OutputFits, Going
<1>2. /\ Going(y) /\ r.frames \in Nat /\ Flowed(x, r)
      /\ PlaybackInv(y) /\ y.p.active /\ ~y.p.stopping
  BY DEF GoesOn, Going
<1>3. written - o.read <= RingCapacity
  <2>1. RingCapacity \in Nat /\ Transport.queue \in Nat /\ Transport.queue <= RingCapacity
    BY RingAssumption, TransportAssumption, BlockAssumption
  <2>2. CASE x.p.configured
    <3>1. y.p.configured /\ y.s.read = written /\ y.s.consumed = o.seen
      BY <1>1, <1>2, <2>2 DEF Flowed, FlowFits
    <3>2. y.s.config = [Transport EXCEPT !.total = y.j.source]
      BY <1>2, <3>1, GoingFacts DEF GoingFits
    <3>3. y.s.config.queue = Transport.queue
      BY <3>2, TransportAssumption, Zenon
    <3>4. y.s.read - y.s.consumed <= y.s.config.queue
      BY <1>2, GoingFacts DEF S!SchedulerInv, S!Ordered, S!Queued
    <3> HIDE DEF written, y
    <3>5. written \in Nat
      BY <1>1, <1>2 DEF written
    <3> QED BY <1>1, <2>1, <3>1, <3>3, <3>4, <3>5 DEF FifoFits
  <2>3. CASE ~x.p.configured
    <3>1. o.written = 0 /\ r.frames = 0
      BY <1>1, <1>2, <2>3 DEF Flowed, FlowFits
    <3> QED BY <1>1, <2>1, <3>1
  <2> QED BY <2>2, <2>3
<1>4. Fill(o) + r.frames = written - o.read
  BY <1>1, <1>2 DEF Fill
<1>5. Enqueue(r.x, o, r.frames) = [x |-> y, o |-> q]
  BY <1>3, <1>4 DEF Enqueue
<1>6. written \in Nat /\ o.written <= written
  BY <1>1, <1>2
<1>7. (x.p.configured => y.p.configured /\ y.s.read = written /\ y.s.consumed = o.seen /\ (y.s.started <=> x.s.started))
      /\ (~x.p.configured => written = 0 /\ o.seen = 0 /\ (y.p.configured => y.s.read = 0 /\ y.s.consumed = 0))
  <2>1. CASE x.p.configured
    BY <1>1, <1>2, <2>1 DEF Flowed, FlowFits
  <2>2. CASE ~x.p.configured
    <3>1. o.written = 0 /\ r.frames = 0 /\ (y.p.configured => y.s.read = 0 /\ y.s.consumed = 0)
      BY <1>1, <1>2, <2>2 DEF Flowed, FlowFits
    <3>2. o.seen <= o.written
      BY <1>1 DEF FifoFits
    <3> QED BY <1>1, <2>2, <3>1, <3>2
  <2> QED BY <2>1, <2>2
<1> HIDE DEF written, y
<1>8. /\ q \in OutputType /\ q.written = written /\ q.read = o.read /\ q.seen = o.seen /\ q.silence = o.silence
      /\ q.eof = o.eof /\ q.on = o.on /\ q.stopped = o.stopped /\ q.stop = o.stop /\ q.fault = o.fault
  <2>1. /\ q.written = written /\ q.read = o.read /\ q.seen = o.seen /\ q.silence = o.silence
        /\ q.eof = o.eof /\ q.on = o.on /\ q.stopped = o.stopped /\ q.stop = o.stop /\ q.fault = o.fault
    BY <1>1, OutputFacts, Zenon DEF OutputFields
  <2>2. q \in OutputType
    BY <1>1, <1>6 DEF OutputType
  <2> QED BY <2>1, <2>2
<1> HIDE DEF q
<1>9. FifoFits(q)
  BY <1>1, <1>3, <1>6, <1>8 DEF FifoFits, Fill
<1>10. FlowFits(y, q)
  BY <1>1, <1>2, <1>7, <1>8 DEF FlowFits, Draining
<1>11. FlagsFit(y, q)
  BY <1>1, <1>2, <1>8 DEF FlagsFit
<1>12. Fine(y, q)
  BY <1>2, <1>8, <1>9, <1>10, <1>11 DEF Fine, OutputFits
<1> QED BY <1>5, <1>8, <1>12 DEF y

(* No frame to add: the output stays as it is.                             *)
LEMMA NothingToAdd ==
  ASSUME NEW o \in OutputType, FifoFits(o), NEW y
  PROVE  Enqueue(y, o, 0) = [x |-> y, o |-> o]
<1>1. o.written \in Nat /\ o.read \in Nat /\ Fill(o) + 0 <= RingCapacity /\ o.written + 0 = o.written
  BY OutputFacts DEF FifoFits, Fill
<1>2. [o EXCEPT !.written = o.written + 0] = o
  BY <1>1, OutputFacts DEF OutputFields, OutputType
<1> QED BY <1>1, <1>2 DEF Enqueue

(* advance_prepared_playback(): step(), and the frames it read.            *)
LEMMA AdvanceFits ==
  ASSUME NEW x, NEW o, Fine(x, o), x.p.active, NEW drained \in BOOLEAN, NEW flaw \in BOOLEAN,
         NEW outcome \in Outcome
  PROVE  LET b == AdvancePlayback(x, o, drained, flaw, outcome)
         IN  Advances(x, o, b.x, b.o, drained)
<1> DEFINE r == PlaybackStep(x, drained, outcome)
           f == [o EXCEPT !.fault = @ \/ ~o.stop]
           q == IF o.stopped THEN f ELSE StopOutput(f, flaw)
           b == AdvancePlayback(x, o, drained, flaw, outcome)
<1>1. PlaybackInv(x) /\ o \in OutputType /\ FifoFits(o) /\ FlagsFit(x, o)
  BY DEF Fine, OutputFits
<1>2. Stepped(x, drained, r)
  BY <1>1, PlaybackSteps
<1>3. b = IF r.ret # "ok" THEN [x |-> r.x, o |-> q] ELSE Enqueue(r.x, o, r.frames)
  BY DEF AdvancePlayback
<1> SUFFICES Advances(x, o, b.x, b.o, drained)
  OBVIOUS
<1> HIDE DEF r, b
<1>4. /\ x.p.status # "ok" => r.x.p.status = x.p.status
      /\ x.j.phase = "cleanup_failed" /\ ~x.p.retry => r.x.p.active /\ r.x.j = x.j
      /\ ~x.j.published /\ r.x.j.published =>
           drained /\ ~x.p.stopping /\ x.p.configured /\ x.s.read = r.x.j.source
  BY <1>2 DEF Stepped, Publishes
<1>5. CASE r.ret # "ok"
  <2>1. PlaybackInv(r.x) /\ (r.x.p.active => r.x.p.stopping)
    BY <1>2, <1>5 DEF Stepped, GoesOn, Completed
  <2>2. /\ Fine(r.x, q) /\ (q.fault \/ q.stop)
        /\ q.read = o.read /\ q.eof = o.eof /\ q.stop = o.stop /\ (o.stopped => q.stopped)
    BY <2>1, FailedFits
  <2> HIDE DEF q
  <2>3. b.x = r.x /\ b.o = q
    BY <1>3, <1>5
  <2> QED BY <1>4, <2>2, <2>3 DEF Advances
<1>6. CASE r.ret = "ok" /\ Going(x) /\ GoesOn(x, r)
  <2>1. /\ b = Enqueue(r.x, o, r.frames)
        /\ Fine(b.x, b.o) /\ b.x = r.x
        /\ b.o.read = o.read /\ b.o.eof = o.eof /\ b.o.stop = o.stop /\ b.o.stopped = o.stopped
    BY <1>3, <1>6, EnqueueFits
  <2>2. r.x.p.active
    BY <1>6 DEF GoesOn, Going
  <2> QED BY <1>4, <2>1, <2>2 DEF Advances
<1>7. CASE r.ret = "ok" /\ Going(x) /\ Completed(r)
  <2>1. Ended(r.x) /\ r.frames = 0
    BY <1>7 DEF Completed, Ended
  <2>2. b.x = r.x /\ b.o = o
    BY <1>1, <1>3, <1>7, <2>1, NothingToAdd
  <2> QED BY <1>1, <1>4, <2>1, <2>2 DEF Advances, FlagsFit
<1> QED BY <1>2, <1>5, <1>6, <1>7 DEF Stepped
(* end_stream(): the flag does not bear on the rest.                       *)
LEMMA EndStreamFits ==
  ASSUME NEW x, NEW o \in OutputType
  PROVE  LET q == EndStream(x, o)
         IN  /\ q \in OutputType /\ (o.eof => q.eof) /\ q.read = o.read
             /\ q.stop = o.stop /\ q.stopped = o.stopped /\ q.on = o.on /\ q.fault = o.fault
             /\ FifoFits(o) => FifoFits(q)
             /\ Fine(x, o) => Fine(x, q)
<1> DEFINE eof == o.eof \/ (Snapshot(x).config.total # 0 /\ Snapshot(x).read = Snapshot(x).config.total)
           q == [o EXCEPT !.eof = eof]
<1>1. EndStream(x, o) = q
  BY DEF EndStream
<1>2. eof \in BOOLEAN /\ (o.eof => eof)
  BY OutputFacts
<1> HIDE DEF eof
<1>3. /\ q \in OutputType /\ q.eof = eof /\ q.written = o.written /\ q.read = o.read /\ q.seen = o.seen
      /\ q.silence = o.silence /\ q.stop = o.stop /\ q.stopped = o.stopped /\ q.on = o.on /\ q.fault = o.fault
  <2>1. /\ q.eof = eof /\ q.written = o.written /\ q.read = o.read /\ q.seen = o.seen
        /\ q.silence = o.silence /\ q.stop = o.stop /\ q.stopped = o.stopped /\ q.on = o.on /\ q.fault = o.fault
    BY OutputFacts, Zenon DEF OutputFields
  <2>2. q \in OutputType
    BY <1>2 DEF OutputType
  <2> QED BY <2>1, <2>2
<1> HIDE DEF q
<1>4. FifoFits(o) => FifoFits(q)
  BY <1>3 DEF FifoFits, Fill
<1>5. Fine(x, o) => Fine(x, q)
  BY <1>3, <1>4 DEF Fine, OutputFits, FlowFits, FlagsFit, Draining
<1> QED BY <1>1, <1>2, <1>3, <1>4, <1>5

(* start() and start_output(): of an ended playback nothing; of another    *)
(* the output runs, or the playback fails.                                 *)
LEMMA EndedRests ==
  ASSUME NEW x, PlaybackInv(x), ~x.p.active, NEW o, NEW startFault
  PROVE  StartWhenReady(x, o, startFault) = [x |-> x, o |-> o]
<1>1. x.s.released /\ S!SchedulerInv(x.s)
  BY DEF PlaybackInv, PartsFit
<1>2. x.s.state # "ready"
  BY <1>1 DEF S!SchedulerInv, S!Flags, S!IsTerminal
<1> QED BY <1>2 DEF StartWhenReady, ReadyToStart

LEMMA StartFits ==
  ASSUME NEW x, NEW o, Fine(x, o), x.p.active, NEW startFault
  PROVE  LET c == StartWhenReady(x, o, startFault)
         IN  /\ Fine(c.x, c.o) /\ c.x.p.active
             /\ c.x.j.published = x.j.published /\ c.x.j.source = x.j.source
             /\ x.p.status # "ok" => c.x.p.status = x.p.status
             /\ x.j.phase = "cleanup_failed" => c.x.j = x.j
             /\ c.o.read = o.read /\ c.o.eof = o.eof /\ c.o.stopped = o.stopped
<1> DEFINE r == PlaybackStart(x)
           c == StartWhenReady(x, o, startFault)
           failed == PlaybackFail(r.x, "io_error")
           qf == [o EXCEPT !.fault = TRUE]
           qo == [o EXCEPT !.on = TRUE]
<1>1. PlaybackInv(x) /\ o \in OutputType /\ FifoFits(o) /\ FlowFits(x, o) /\ FlagsFit(x, o)
  BY DEF Fine, OutputFits
<1>2. CASE ~ReadyToStart(x)
  <2>1. c = [x |-> x, o |-> o]
    BY <1>2 DEF StartWhenReady
  <2> HIDE DEF c
  <2> QED BY <2>1 DEF c
<1>3. CASE ReadyToStart(x)
  <2>1. /\ x.p.configured /\ ~x.p.stopping /\ x.s.state = "ready" /\ Going(x)
    BY <1>1, <1>3 DEF ReadyToStart, Going
  <2>2. /\ r.ret = "ok" /\ Going(r.x) /\ r.x.p = x.p /\ r.x.j = x.j
        /\ r.x.s.started /\ r.x.s.read = x.s.read /\ r.x.s.consumed = x.s.consumed
    BY <1>3, <2>1, StartGoes
  <2>3. ~x.s.started
    BY <2>1, GoingFacts DEF S!SchedulerInv, S!Flags
  <2>4. ~o.stopped
    BY <1>1, <2>1, <2>3 DEF FlowFits
  <2>5. c = IF startFault THEN [x |-> failed.x, o |-> qf] ELSE [x |-> r.x, o |-> qo]
    BY <1>3, <2>2 DEF StartWhenReady
  <2>6. Fell(r.x, failed)
    <3>1. "io_error" \in Cause \ {"ok"}
      BY Codes DEF Statuses
    <3>2. PlaybackInv(r.x) /\ r.x.p.active
      BY <2>2 DEF Going
    <3> HIDE DEF r
    <3> QED BY <3>1, <3>2, FailFalls
  <2> HIDE DEF r, failed, c
  <2>7. /\ qf \in OutputType /\ SameFlow(o, qf) /\ qf.stopped = o.stopped /\ qf.on = o.on /\ qf.fault = TRUE
    <3>1. SameFlow(o, qf) /\ qf.stopped = o.stopped /\ qf.on = o.on /\ qf.fault = TRUE
      BY <1>1, OutputFacts, Zenon DEF OutputFields, SameFlow
    <3>2. qf \in OutputType
      BY <1>1 DEF OutputType
    <3> QED BY <3>1, <3>2
  <2>8. /\ qo \in OutputType /\ SameFlow(o, qo) /\ qo.stopped = o.stopped /\ qo.stop = o.stop
    <3>1. SameFlow(o, qo) /\ qo.stopped = o.stopped /\ qo.stop = o.stop
      BY <1>1, OutputFacts, Zenon DEF OutputFields, SameFlow
    <3>2. qo \in OutputType
      BY <1>1 DEF OutputType
    <3> QED BY <3>1, <3>2
  <2> HIDE DEF qf, qo
  <2>9. Fine(failed.x, qf)
    <3>1. PlaybackInv(failed.x) /\ failed.x.p.active /\ failed.x.p.stopping
      BY <2>6 DEF Fell
    <3>2. FifoFits(qf) /\ ~qf.stopped
      BY <1>1, <2>4, <2>7, SameFlowFits
    <3> QED BY <2>7, <3>1, <3>2, StoppingFits
  <2>10. Fine(r.x, qo)
    <3>1. FifoFits(qo) /\ PlaybackInv(r.x)
      BY <1>1, <2>2, <2>8, SameFlowFits DEF Going
    <3>2. FlowFits(r.x, qo)
      BY <1>1, <2>1, <2>2, <2>8 DEF FlowFits, SameFlow
    <3>3. FlagsFit(r.x, qo)
      BY <1>1, <2>1, <2>2, <2>4, <2>8 DEF FlagsFit
    <3> QED BY <2>8, <3>1, <3>2, <3>3 DEF Fine, OutputFits
  <2>11. CASE startFault
    <3>1. c.x = failed.x /\ c.o = qf
      BY <2>5, <2>11
    <3>2. /\ failed.x.p.active /\ failed.x.j.published = x.j.published /\ failed.x.j.source = x.j.source
          /\ x.p.status # "ok" => failed.x.p.status = x.p.status
          /\ x.j.phase = "cleanup_failed" => failed.x.j = x.j
      BY <2>2, <2>6 DEF Fell
    <3> QED BY <2>7, <2>9, <3>1, <3>2 DEF SameFlow, c
  <2>12. CASE ~startFault
    <3>1. c.x = r.x /\ c.o = qo
      BY <2>5, <2>12
    <3>2. r.x.p.active
      BY <2>1, <2>2, <1>1
    <3> QED BY <2>2, <2>8, <2>10, <3>1, <3>2 DEF SameFlow, c
  <2> QED BY <2>11, <2>12
<1> QED BY <1>2, <1>3

(* finish_prepared_playback(): the output is stopped; done means no fault  *)
(* and no STOP.                                                            *)
LEMMA FinishFits ==
  ASSUME NEW x, PlaybackInv(x), ~x.p.active, NEW o \in OutputType, FifoFits(o), o.stopped => ~o.on,
         NEW flaw \in BOOLEAN
  PROVE  LET q == FinishPreparedPlayback(o, flaw)
         IN  /\ Fine(x, q) /\ q.read = o.read /\ q.eof = o.eof /\ q.stopped
             /\ q.state = "done" => ~o.fault /\ ~o.stop
<1> DEFINE e == IF o.stopped THEN o ELSE StopOutput(o, flaw)
           state == IF e.fault THEN "error" ELSE IF e.stop THEN "aborted" ELSE "done"
           q == [e EXCEPT !.state = state]
<1>1. FinishPreparedPlayback(o, flaw) = q
  BY DEF FinishPreparedPlayback
<1>2. /\ e \in OutputType /\ SameFlow(o, e) /\ (o.fault => e.fault) /\ e.stop = o.stop /\ ~e.on /\ e.stopped
  <2>1. CASE o.stopped
    <3>1. SameFlow(o, o)
      BY DEF SameFlow
    <3> QED BY <2>1, <3>1
  <2>2. CASE ~o.stopped
    <3>1. LET w == StopOutput(o, flaw)
          IN  /\ w \in OutputType /\ SameFlow(o, w) /\ w.on = FALSE /\ w.stopped = TRUE
              /\ (o.fault => w.fault) /\ w.stop = o.stop
      BY StopOutputFacts
    <3> QED BY <2>2, <3>1
  <2> QED BY <2>1, <2>2
<1> HIDE DEF e
<1>3. state \in {"error", "aborted", "done"} /\ (state = "done" => ~e.fault /\ ~e.stop)
  OBVIOUS
<1> HIDE DEF state
<1>4. q \in OutputType /\ SameFlow(e, q) /\ q.on = e.on /\ q.stopped = e.stopped /\ q.state = state
  <2>1. SameFlow(e, q) /\ q.on = e.on /\ q.stopped = e.stopped /\ q.state = state
    BY <1>2, OutputFacts, Zenon DEF OutputFields, SameFlow
  <2>2. q \in OutputType
    BY <1>2, <1>3 DEF OutputType
  <2> QED BY <2>1, <2>2
<1> HIDE DEF q
<1>5. FifoFits(q)
  BY <1>2, <1>4, SameFlowFits
<1>6. Fine(x, q)
  BY <1>2, <1>4, <1>5 DEF Fine, OutputFits, FlowFits, FlagsFit
<1>7. q.read = o.read /\ q.eof = o.eof /\ q.stopped
  BY <1>2, <1>4 DEF SameFlow
<1> QED BY <1>1, <1>2, <1>3, <1>4, <1>6, <1>7

(* The end of the pass.                                                    *)
AtRest(o) == [o EXCEPT !.mid = FALSE, !.gap = 0]

LEMMA RestFits ==
  ASSUME NEW x, NEW o, Fine(x, o)
  PROVE  LET q == AtRest(o)
         IN  /\ Fine(x, q)
             /\ q.read = o.read /\ q.eof = o.eof /\ q.stopped = o.stopped /\ q.state = o.state
<1> DEFINE q == [o EXCEPT !.mid = FALSE, !.gap = 0]
<1>1. o \in OutputType /\ FifoFits(o)
  BY DEF Fine, OutputFits
<1>2. /\ SameFlow(o, q) /\ q.stop = o.stop /\ q.stopped = o.stopped /\ q.on = o.on /\ q.fault = o.fault
      /\ q.state = o.state
  BY <1>1, OutputFacts, Zenon DEF OutputFields, SameFlow
<1>3. q \in OutputType
  <2>1. 0 \in 0 .. MaxGap
    BY DrainAssumption
  <2> QED BY <1>1, <2>1 DEF OutputType
<1> HIDE DEF q
<1>4. FifoFits(q) /\ (Draining(q) <=> Draining(o))
  BY <1>1, <1>2, SameFlowFits
<1>5. Fine(x, q)
  BY <1>2, <1>3, <1>4 DEF Fine, OutputFits, FlowFits, FlagsFit, SameFlow
<1> QED BY <1>2, <1>5 DEF SameFlow, q, AtRest
(* What a whole pass does to a playback and its output, y and q after it.  *)
PassOver(x, y, q) ==
  /\ Fine(y, q)
  /\ x.p.status # "ok" => y.p.status = x.p.status
  /\ x.j.phase = "cleanup_failed" /\ ~x.p.retry => y.p.active /\ y.j = x.j
  /\ ~x.j.published /\ y.j.published => q.eof /\ q.read = y.j.source /\ q.stopped
  /\ ~y.p.active /\ q.state = "done" => Ended(y)

(* From the frames of step() to the end of the pass.                       *)
Wraps(y, w, flaw, startFault, c, z) ==
  /\ c = StartWhenReady(y, EndStream(y, w), startFault)
  /\ z = IF c.x.p.active THEN c.o ELSE FinishPreparedPlayback(c.o, flaw)

WrappedUp(x, o, y, u, q) ==
  /\ Fine(u, q)
  /\ x.p.status # "ok" => u.p.status = x.p.status
  /\ x.j.phase = "cleanup_failed" /\ ~x.p.retry => u.p.active /\ u.j = x.j
  /\ u.j.published = y.j.published /\ u.j.source = y.j.source
  /\ (o.eof => q.eof) /\ q.read = o.read /\ (o.stopped => q.stopped)
  /\ ~u.p.active /\ q.state = "done" => Ended(u)

LEMMA PassEnds ==
  ASSUME NEW x, NEW o, NEW y, NEW w, NEW drained, Advances(x, o, y, w, drained),
         NEW flaw \in BOOLEAN, NEW startFault,
         NEW c, NEW z, Wraps(y, w, flaw, startFault, c, z)
  PROVE  WrappedUp(x, o, y, c.x, AtRest(z))
<1> DEFINE e == EndStream(y, w)
           q == AtRest(z)
<1>1. w \in OutputType /\ FifoFits(w) /\ (w.stopped => ~w.on) /\ PlaybackInv(y)
  BY DEF Advances, Fine, OutputFits, FlagsFit, Ended
<1>2. /\ e \in OutputType /\ (w.eof => e.eof) /\ e.read = w.read
      /\ e.stop = w.stop /\ e.stopped = w.stopped /\ e.on = w.on /\ e.fault = w.fault
      /\ FifoFits(e) /\ (Fine(y, w) => Fine(y, e))
  BY <1>1, EndStreamFits
<1>7. /\ c = StartWhenReady(y, e, startFault)
      /\ z = IF c.x.p.active THEN c.o ELSE FinishPreparedPlayback(c.o, flaw)
  BY DEF Wraps
<1> HIDE DEF e
<1>3. /\ Fine(c.x, z) /\ (c.x.p.active <=> y.p.active)
      /\ x.p.status # "ok" => c.x.p.status = x.p.status
      /\ x.j.phase = "cleanup_failed" /\ ~x.p.retry => c.x.p.active /\ c.x.j = x.j
      /\ c.x.j.published = y.j.published /\ c.x.j.source = y.j.source
      /\ (e.eof => z.eof) /\ z.read = e.read /\ (e.stopped => z.stopped)
      /\ ~c.x.p.active /\ z.state = "done" => Ended(c.x)
  <2>1. CASE y.p.active
    <3>1. Fine(y, e)
      BY <1>2, <2>1 DEF Advances, Ended
    <3>2. /\ Fine(c.x, c.o) /\ c.x.p.active
          /\ c.x.j.published = y.j.published /\ c.x.j.source = y.j.source
          /\ y.p.status # "ok" => c.x.p.status = y.p.status
          /\ y.j.phase = "cleanup_failed" => c.x.j = y.j
          /\ c.o.read = e.read /\ c.o.eof = e.eof /\ c.o.stopped = e.stopped
      BY <1>7, <2>1, <3>1, StartFits
    <3>3. z = c.o
      BY <1>7, <3>2
    <3> QED BY <2>1, <3>2, <3>3 DEF Advances
  <2>2. CASE ~y.p.active
    <3>1. c = [x |-> y, o |-> e]
      BY <1>1, <1>7, <2>2, EndedRests
    <3>2. c.x = y /\ c.o = e
      BY <3>1
    <3>3. z = FinishPreparedPlayback(e, flaw)
      BY <1>7, <2>2, <3>2
    <3>4. LET v == FinishPreparedPlayback(e, flaw)
          IN  /\ Fine(y, v) /\ v.read = e.read /\ v.eof = e.eof /\ v.stopped
              /\ v.state = "done" => ~e.fault /\ ~e.stop
      BY <1>1, <1>2, <2>2, FinishFits
    <3>5. /\ Fine(y, z) /\ z.read = e.read /\ z.eof = e.eof /\ z.stopped
          /\ z.state = "done" => ~e.fault /\ ~e.stop
      BY <3>3, <3>4
    <3>6. z.state = "done" => Ended(y)
      BY <1>2, <2>2, <3>5 DEF Advances
    <3> QED BY <2>2, <3>2, <3>5, <3>6 DEF Advances
  <2> QED BY <2>1, <2>2
<1>4. /\ Fine(c.x, q)
      /\ q.read = z.read /\ q.eof = z.eof /\ q.stopped = z.stopped /\ q.state = z.state
  BY <1>3, RestFits
<1> HIDE DEF q
<1>5. (o.eof => q.eof) /\ q.read = o.read /\ (o.stopped => q.stopped)
  BY <1>2, <1>3, <1>4 DEF Advances
<1>6. ~c.x.p.active /\ q.state = "done" => Ended(c.x)
  BY <1>3, <1>4
<1> QED BY <1>3, <1>4, <1>5, <1>6 DEF q, WrappedUp

(* service_preparation_playback(), from the judgement on.                  *)
LEMMA PassFits ==
  ASSUME NEW x, NEW o, Fine(x, o), x.p.active, NEW outcome \in Outcome, NEW flaw \in BOOLEAN, NEW startFault,
         NEW a, a = Judged(x, o, flaw),
         NEW b, b = AdvancePlayback(a.x, a.o, Drained(o) /\ a.o.stopped, flaw, outcome),
         NEW c, NEW z, Wraps(b.x, b.o, flaw, startFault, c, z)
  PROVE  PassOver(x, c.x, AtRest(z))
<1> DEFINE q == AtRest(z)
           drained == Drained(o) /\ a.o.stopped
<1>1. /\ Fine(a.x, a.o) /\ FallsTo(x, a.x) /\ SameFlow(o, a.o) /\ a.o.stop = o.stop
  BY JudgeFits
<1>2. a.x.p.active /\ drained \in BOOLEAN
  BY <1>1 DEF FallsTo
<1>3. Advances(a.x, a.o, b.x, b.o, drained)
  <2> HIDE DEF drained
  <2>1. b = AdvancePlayback(a.x, a.o, drained, flaw, outcome)
    BY DEF drained
  <2> QED BY <1>1, <1>2, <2>1, AdvanceFits
<1>4. WrappedUp(a.x, a.o, b.x, c.x, q)
  BY <1>3, PassEnds
<1> HIDE DEF q
<1>5. ASSUME ~x.j.published, c.x.j.published
      PROVE  q.eof /\ q.read = c.x.j.source /\ q.stopped
  <2>1. ~a.x.j.published /\ b.x.j.published
    BY <1>1, <1>4, <1>5 DEF FallsTo, WrappedUp
  <2>2. drained /\ ~a.x.p.stopping /\ a.x.p.configured /\ a.x.s.read = b.x.j.source
    BY <1>3, <2>1 DEF Advances
  <2>3. a.o.written = b.x.j.source
    BY <1>1, <1>2, <2>2 DEF Fine, OutputFits, FlowFits
  <2>4. o.eof /\ o.written = o.read
    <3>1. o.eof /\ Fill(o) = 0
      BY <2>2 DEF Drained
    <3>2. o.written \in Nat /\ o.read \in Nat
      BY OutputFacts DEF Fine, OutputFits
    <3> QED BY <3>1, <3>2 DEF Fill
  <2>5. a.o.eof /\ a.o.read = b.x.j.source
    BY <1>1, <2>3, <2>4 DEF SameFlow
  <2> QED BY <1>4, <2>2, <2>5 DEF WrappedUp
<1>6. PassOver(x, c.x, q)
  BY <1>1, <1>4, <1>5 DEF PassOver, FallsTo, WrappedUp
<1> QED BY <1>6 DEF q
-----------------------------------------------------------------------------
(* The steps of the whole, and its properties.                             *)

(* What EndsTrue says of a step.                                           *)
DoneStep ==
  /\ play.active /\ ~play'.active /\ out'.state = "done" =>
       /\ sched'.state = "completed" /\ sched'.consumed = job'.source
       /\ job'.phase = "complete" /\ play'.status = "ok"
  /\ ~job.published /\ job'.published =>
       out'.eof /\ out'.read = job'.source /\ out'.stopped

FirstStep == play.status # "ok" /\ play'.status # play.status => ~play.active

HeldStep ==
  play.active /\ job.phase = "cleanup_failed" /\ ~play.retry =>
    play'.active /\ (job' # job => out'.stop)

EndsStep == DoneStep /\ FirstStep /\ HeldStep

(* A state that fits, once it is the state, keeps the invariant.           *)
LEMMA Becomes ==
  ASSUME NEW y, NEW q, Fine(y, q), Become(y), out' = q
  PROVE  OutputInv'
<1> DEFINE z == [p |-> y.p, s |-> y.s, j |-> y.j]
<1>1. y = z
  BY DEF Fine, PlaybackInv, PartsFit, PlaybackState
<1>2. Fine(z, q)
  BY <1>1
<1> HIDE DEF Fine
<1>3. Fine([p |-> play', s |-> sched', j |-> job'], out')
  BY <1>2 DEF Become
<1> QED BY <1>3 DEF Fine, OutputInv, X

(* The state, as one record.                                               *)
LEMMA StateFine == OutputInv => Fine(X, out) /\ X.p = play /\ X.s = sched /\ X.j = job
BY DEF OutputInv, Fine, X

(* Power-on.                                                               *)
LEMMA InitOutput ==
  ASSUME OutputInit
  PROVE  OutputInv
<1> DEFINE j == NewJob(Untouched)
<1>1. JobFits(j) /\ JobAnswers(j) /\ j \in JobType /\ ~Busy(j)
  <2>1. Untouched \in [Name -> Content] /\ \A n \in Name : Untouched[n] = "absent"
    BY DEF Untouched, Content
  <2>2. "WAV" \in Name /\ "JSN" \in Name
    BY DEF Name
  <2>3. Untouched["WAV"] = "absent" /\ Untouched["JSN"] = "absent"
    BY <2>1, <2>2
  <2>4. JobFits(j)
    BY <2>1, <2>3, NewJobFits
  <2>5. /\ j.work = "idle" /\ j.phase = "idle" /\ j.terminal = "idle" /\ j.failure = "ok"
        /\ j.managed = FALSE /\ j.open = {}
    BY DEF NewJob
  <2> HIDE DEF j
  <2>6. JobAnswers(j)
    BY <2>5 DEF JobAnswers
  <2>7. ~Busy(j)
    BY <2>5 DEF Busy
  <2>8. j \in JobType
    BY <2>4 DEF JobFits, JobSound
  <2> QED BY <2>4, <2>6, <2>7, <2>8
<1>2. S!SchedulerInv(S!NewScheduler) /\ S!NewScheduler \in S!SchedulerType
  <2>1. S!SchedulerInv(S!NewScheduler)
    BY S!NewSchedulerInv, TransportFits, RateAssumption, TokenAssumption
  <2> QED BY <2>1 DEF S!SchedulerInv
<1>3. S!NewScheduler.released /\ ~S!Pending(S!NewScheduler)
  BY DEF S!NewScheduler, S!Pending, S!NoAction
<1>4. NewPlayback \in PlaybackType /\ NewPlayback.active = FALSE
  <2>1. S!NoAction \in S!Action
    BY DEF S!NoAction, S!Action, S!Kind
  <2> QED BY <2>1, Codes DEF NewPlayback, PlaybackType
<1>5. PlaybackInv(X)
  <2> HIDE DEF j
  <2>1. X.p = NewPlayback /\ X.s = S!NewScheduler /\ X.j = j /\ X \in PlaybackState
    BY <1>1, <1>2, <1>4 DEF OutputInit, X, PlaybackState, j
  <2> QED BY <1>1, <1>2, <1>3, <1>4, <2>1 DEF PlaybackInv, PartsFit
<1>6. out \in OutputType
  <2>1. DrainFrames \in Nat /\ MaxGap \in Nat /\ 0 \in 0 .. DrainFrames /\ 0 \in 0 .. MaxGap
    BY DrainAssumption
  <2> QED BY <2>1 DEF OutputInit, NoOutput, OutputType
<1>7. /\ out.written = 0 /\ out.read = 0 /\ out.seen = 0 /\ out.on = FALSE
  BY DEF OutputInit, NoOutput
<1>8. ~X.p.active
  BY <1>4 DEF OutputInit, X
<1>9. RingCapacity >= 0
  BY RingAssumption, TransportAssumption, BlockAssumption
<1>10. FifoFits(out) /\ FlowFits(X, out) /\ FlagsFit(X, out)
  BY <1>7, <1>8, <1>9 DEF FifoFits, FlowFits, FlagsFit, Fill
<1> QED BY <1>5, <1>6, <1>10 DEF OutputInv, OutputFits

(* accept_prepared_playback().                                             *)
LEMMA AcceptStep ==
  ASSUME OutputInv, NEW ask \in Requests, AcceptPreparedPlayback(ask)
  PROVE  OutputInv' /\ EndsStep
<1> DEFINE admitted == BeginInternal([job EXCEPT !.card = Untouched], ask, TRUE)
           refused  == [p |-> play, s |-> sched, j |-> admitted.job]
           begun    == PlaybackBegin(refused)
           fresh    == [NoOutput EXCEPT !.state = "active"]
<1>1. Fine(X, out) /\ PlaybackInv(X) /\ ~X.p.active /\ X.p = play /\ X.s = sched /\ X.j = job
  BY StateFine DEF AcceptPreparedPlayback, Fine
<1>2. ask \in RequestType
  BY RequestsAssumption
<1>3. /\ admitted.job.published = FALSE
      /\ admitted.ret # "ok" => PlaybackInv(refused)
      /\ admitted.ret = "ok" =>
           begun.ret = "ok" /\ Going(begun.x) /\ ~begun.x.p.configured /\ begun.x.j = admitted.job
  BY <1>1, <1>2, AcceptGoes
<1>4. [X EXCEPT !.j = admitted.job] = refused
  <2> HIDE DEF admitted
  <2> QED BY DEF X
<1>5. \/ admitted.ret # "ok" /\ job' = admitted.job /\ UNCHANGED <<sched, play, out>>
      \/ admitted.ret = "ok" /\ Become(begun.x) /\ out' = fresh
  <2> HIDE DEF refused
  <2> QED BY <1>3, <1>4 DEF AcceptPreparedPlayback
<1>6. job'.published = FALSE /\ ~play.active
  BY <1>1, <1>3, <1>5 DEF Become
<1>7. EndsStep
  BY <1>6 DEF EndsStep, DoneStep, FirstStep, HeldStep
<1> HIDE DEF admitted, begun
<1>8. CASE admitted.ret # "ok" /\ job' = admitted.job /\ UNCHANGED <<sched, play, out>>
  <2>1. refused.p = play /\ refused.s = sched /\ refused.j = admitted.job
    OBVIOUS
  <2>2. Become(refused) /\ PlaybackInv(refused) /\ ~refused.p.active
    BY <1>3, <1>6, <1>8 DEF Become
  <2> HIDE DEF refused
  <2>3. Fine(refused, out)
    BY <1>1, <2>2 DEF Fine, OutputFits, FlowFits, FlagsFit
  <2> QED BY <1>7, <1>8, <2>2, <2>3, Becomes
<1>9. CASE admitted.ret = "ok" /\ Become(begun.x) /\ out' = fresh
  <2>1. fresh \in OutputType
    <3>1. DrainFrames \in Nat /\ MaxGap \in Nat /\ 0 \in 0 .. DrainFrames /\ 0 \in 0 .. MaxGap
      BY DrainAssumption
    <3> QED BY <3>1 DEF NoOutput, OutputType
  <2>2. /\ fresh.written = 0 /\ fresh.read = 0 /\ fresh.seen = 0 /\ fresh.on = FALSE /\ fresh.stopped = FALSE
        /\ fresh.stop = FALSE /\ fresh.silence = 0
    BY DEF NoOutput
  <2> HIDE DEF fresh
  <2>3. PlaybackInv(begun.x) /\ begun.x.p.active /\ ~begun.x.p.stopping /\ ~begun.x.p.configured
    BY <1>3, <1>9 DEF Going
  <2>4. RingCapacity >= 0
    BY RingAssumption, TransportAssumption, BlockAssumption
  <2>5. Fine(begun.x, fresh)
    BY <2>1, <2>2, <2>3, <2>4 DEF Fine, OutputFits, FifoFits, FlowFits, FlagsFit, Fill, Draining
  <2> QED BY <1>7, <1>9, <2>5, Becomes
<1> QED BY <1>5, <1>8, <1>9

(* stop_command().                                                         *)
LEMMA StopStepFits ==
  ASSUME OutputInv, StopCommand
  PROVE  OutputInv' /\ EndsStep
<1> DEFINE o == [out EXCEPT !.stop = TRUE]
<1>1. Fine(X, out) /\ PlaybackInv(X) /\ X.p.active /\ X.p = play /\ X.s = sched /\ X.j = job /\ out \in OutputType
  BY StateFine DEF StopCommand, Fine, OutputFits
<1>2. PICK y : y = PlaybackCancel(X).x
  OBVIOUS
<1>3. Become(y) /\ ((out' = o /\ out.stopped) \/ \E flaw \in BOOLEAN : out' = StopOutput(o, flaw))
  BY <1>2 DEF StopCommand
<1>4. /\ y.p.active /\ y.j.published = job.published
      /\ play.status # "ok" => y.p.status = play.status
  BY <1>1, <1>2, CancelFalls
<1>5. o.stop = TRUE /\ o \in OutputType
  BY <1>1, OutputFacts DEF OutputFields, OutputType
<1>6. \E q : Fine(y, q) /\ out' = q /\ q.stop = TRUE
  <2>1. CASE out' = o /\ out.stopped
    <3>1. Fine(y, o)
      BY <1>1, <1>2, <2>1, StopFits
    <3> HIDE DEF o
    <3> QED BY <1>5, <2>1, <3>1
  <2>2. CASE \E flaw \in BOOLEAN : out' = StopOutput(o, flaw)
    <3>1. PICK flaw \in BOOLEAN : out' = StopOutput(o, flaw)
      BY <2>2
    <3>2. Fine(y, StopOutput(o, flaw))
      BY <1>1, <1>2, StopFits
    <3> HIDE DEF o
    <3>3. StopOutput(o, flaw).stop = TRUE
      BY <1>5, StopOutputFacts
    <3> QED BY <3>1, <3>2, <3>3
  <2> QED BY <1>3, <2>1, <2>2
<1>7. PICK q : Fine(y, q) /\ out' = q /\ q.stop = TRUE
  BY <1>6
<1>8. OutputInv'
  BY <1>3, <1>7, Becomes
<1>9. EndsStep
  BY <1>3, <1>4, <1>7 DEF EndsStep, DoneStep, FirstStep, HeldStep, Become
<1> QED BY <1>8, <1>9
(* player_audio_hook(), and a fault latched by another.                    *)
LEMMA FlowStep ==
  ASSUME OutputInv, NEW q, Fine(X, q), out' = q, UNCHANGED <<job, sched, play>>
  PROVE  OutputInv' /\ EndsStep
<1>1. PICK y : y = X
  OBVIOUS
<1>2. Become(y) /\ Fine(y, q)
  BY <1>1 DEF X, Become
<1>3. OutputInv'
  BY <1>2, Becomes
<1>4. EndsStep
  BY DEF EndsStep, DoneStep, FirstStep, HeldStep
<1> QED BY <1>3, <1>4

(* A codec block, and a fault from elsewhere.                              *)
LEMMA AudioStep ==
  ASSUME OutputInv, AudioBlock
  PROVE  OutputInv' /\ EndsStep
<1>1. out' = BlockTaken(out) /\ UNCHANGED <<job, sched, play>>
      /\ out.on /\ ~out.stop /\ (out.mid => out.gap < MaxGap)
  BY DEF AudioBlock, BlockTaken
<1>2. Fine(X, BlockTaken(out))
  BY <1>1, StateFine, BlockFits
<1>3. PICK q : q = BlockTaken(out)
  OBVIOUS
<1> QED BY <1>1, <1>2, <1>3, FlowStep

LEMMA FaultStep ==
  ASSUME OutputInv, OutputFault
  PROVE  OutputInv' /\ EndsStep
<1> DEFINE w == [out EXCEPT !.fault = TRUE]
<1>1. out' = w /\ UNCHANGED <<job, sched, play>>
  BY DEF OutputFault
<1>2. Fine(X, w)
  BY StateFine, FaultFits
<1> HIDE DEF w
<1>3. PICK q : q = w
  OBVIOUS
<1> QED BY <1>1, <1>2, <1>3, FlowStep

(* observe_prepared_output(): the scheduler counts what was played; the    *)
(* coordinator and its job stay as they are.                               *)
LEMMA ObserveStep ==
  ASSUME OutputInv, ObservePreparedOutput
  PROVE  OutputInv' /\ EndsStep
<1> DEFINE k == ConsumeObserved(X, out.read - out.seen)
           w == [out EXCEPT !.mid = TRUE]
           v == [out EXCEPT !.mid = TRUE, !.seen = IF k.ret = "ok" THEN out.read ELSE @,
                            !.fault = @ \/ k.ret # "ok"]
<1>1. Fine(X, out) /\ X.p.active /\ X.p = play /\ X.j = job
  BY StateFine DEF ObservePreparedOutput
<1>2. Fine(X, w) /\ (Snapshot(X).started => Fine(k.x, v) /\ k.x.p = X.p /\ k.x.j = X.j)
  BY <1>1, ObserveFits
<1>3. \/ out' = w /\ UNCHANGED <<job, sched, play>>
      \/ Snapshot(X).started /\ Become(k.x) /\ out' = v
  BY DEF ObservePreparedOutput
<1> HIDE DEF k, w, v
<1>4. CASE out' = w /\ UNCHANGED <<job, sched, play>>
  <2>1. PICK q : q = w
    OBVIOUS
  <2> QED BY <1>2, <1>4, <2>1, FlowStep
<1>5. CASE Snapshot(X).started /\ Become(k.x) /\ out' = v
  <2>1. PICK y : y = k.x
    OBVIOUS
  <2>2. PICK q : q = v
    OBVIOUS
  <2>3. OutputInv'
    BY <1>2, <1>5, <2>1, <2>2, Becomes
  <2>4. play' = play /\ job' = job
    BY <1>1, <1>2, <1>5 DEF Become
  <2>5. EndsStep
    BY <2>4 DEF EndsStep, DoneStep, FirstStep, HeldStep
  <2> QED BY <2>3, <2>5
<1> QED BY <1>3, <1>4, <1>5

(* service_preparation_playback(), once it has observed the output.        *)
LEMMA FinishStep ==
  ASSUME OutputInv, NEW outcome \in Outcomes, NEW flaw \in BOOLEAN, NEW startFault \in BOOLEAN,
         FinishPass(outcome, flaw, startFault)
  PROVE  OutputInv' /\ EndsStep
<1>1. Fine(X, out) /\ X.p.active /\ X.p = play /\ X.s = sched /\ X.j = job
  BY StateFine DEF FinishPass
<1>2. PICK a \in {JudgeOutput(flaw)} :
      \E b \in {AdvancePlayback(a.x, a.o, Drained(out) /\ a.o.stopped, flaw, outcome)} :
      \E c \in {StartWhenReady(b.x, EndStream(b.x, b.o), startFault)} :
      \E o \in {IF c.x.p.active THEN c.o ELSE FinishPreparedPlayback(c.o, flaw)} :
        Become(c.x) /\ out' = [o EXCEPT !.mid = FALSE, !.gap = 0]
  BY Zenon DEF FinishPass
<1>3. PICK b \in {AdvancePlayback(a.x, a.o, Drained(out) /\ a.o.stopped, flaw, outcome)} :
      \E c \in {StartWhenReady(b.x, EndStream(b.x, b.o), startFault)} :
      \E o \in {IF c.x.p.active THEN c.o ELSE FinishPreparedPlayback(c.o, flaw)} :
        Become(c.x) /\ out' = [o EXCEPT !.mid = FALSE, !.gap = 0]
  BY <1>2, Zenon
<1>4. PICK c \in {StartWhenReady(b.x, EndStream(b.x, b.o), startFault)} :
      \E o \in {IF c.x.p.active THEN c.o ELSE FinishPreparedPlayback(c.o, flaw)} :
        Become(c.x) /\ out' = [o EXCEPT !.mid = FALSE, !.gap = 0]
  BY <1>3, Zenon
<1>5. PICK z \in {IF c.x.p.active THEN c.o ELSE FinishPreparedPlayback(c.o, flaw)} :
        Become(c.x) /\ out' = [z EXCEPT !.mid = FALSE, !.gap = 0]
  BY <1>4, Zenon
<1>6. a = Judged(X, out, flaw)
  <2>1. a = JudgeOutput(flaw)
    BY <1>2, Zenon
  <2>2. JudgeOutput(flaw) = Judged(X, out, flaw)
    BY <1>1, Zenon DEF JudgeOutput, Judged
  <2> QED BY <2>1, <2>2, Zenon
<1>7. b = AdvancePlayback(a.x, a.o, Drained(out) /\ a.o.stopped, flaw, outcome)
  BY <1>3, Zenon
<1>8. Wraps(b.x, b.o, flaw, startFault, c, z)
  BY <1>4, <1>5, Zenon DEF Wraps
<1>9. outcome \in Outcome
  BY OutcomesAssumption
<1>10. PassOver(X, c.x, AtRest(z))
  BY <1>1, <1>6, <1>7, <1>8, <1>9, PassFits
<1>11. PICK y : y = c.x
  OBVIOUS
<1>12. PICK q : q = AtRest(z)
  OBVIOUS
<1>13. Become(y) /\ out' = q
  BY <1>5, <1>11, <1>12, Zenon DEF AtRest
<1>14. PassOver(X, y, q)
  BY <1>10, <1>11, <1>12, Zenon
<1>15. OutputInv'
  BY <1>13, <1>14, Becomes DEF PassOver
<1>16. play' = y.p /\ sched' = y.s /\ job' = y.j
  BY <1>13 DEF Become
<1>17. EndsStep
  <2>1. DoneStep
    BY <1>1, <1>13, <1>14, <1>16 DEF PassOver, Ended, DoneStep
  <2>2. FirstStep /\ HeldStep
    BY <1>1, <1>13, <1>14, <1>16 DEF PassOver, FirstStep, HeldStep
  <2> QED BY <2>1, <2>2 DEF EndsStep
<1> QED BY <1>15, <1>17

(* Every step keeps the invariant, and does what EndsTrue allows.          *)
LEMMA OutputStep ==
  ASSUME OutputInv, [OutputNext]_outVars
  PROVE  OutputInv' /\ EndsStep
<1>1. ASSUME NEW ask \in Requests, AcceptPreparedPlayback(ask)
      PROVE  OutputInv' /\ EndsStep
  BY <1>1, AcceptStep
<1>2. CASE StopCommand
  BY <1>2, StopStepFits
<1>3. CASE AudioBlock
  BY <1>3, AudioStep
<1>4. CASE OutputFault
  BY <1>4, FaultStep
<1>5. CASE ObservePreparedOutput
  BY <1>5, ObserveStep
<1>6. ASSUME NEW outcome \in Outcomes, NEW flaw \in BOOLEAN, NEW startFault \in BOOLEAN,
             FinishPass(outcome, flaw, startFault)
      PROVE  OutputInv' /\ EndsStep
  BY <1>6, FinishStep
<1>7. CASE UNCHANGED outVars
  <2>1. OutputInv'
    BY <1>7 DEF OutputInv, X, outVars
  <2>2. EndsStep
    BY <1>7 DEF EndsStep, DoneStep, FirstStep, HeldStep, outVars
  <2> QED BY <2>1, <2>2
<1> QED BY <1>1, <1>2, <1>3, <1>4, <1>5, <1>6, <1>7 DEF OutputNext, Pass

(* The playback, its scheduler, its job and its output fit together in     *)
(* every reachable state: the invariant behind all that follows            *)
(* (prepared_playback.cpp, service_preparation_playback()).                *)
THEOREM OutputInvariant == OutputSpec => []OutputInv
<1>1. OutputInit => OutputInv
  BY InitOutput
<1>2. OutputInv /\ [OutputNext]_outVars => OutputInv'
  BY OutputStep
<1> QED BY <1>1, <1>2, PTL DEF OutputSpec

(* No ticket is ever at odds with a cursor, no frame is counted twice or   *)
(* before it is played, the FIFO never overflows, and the coordinator's    *)
(* own alarms never sound (advance_prepared_playback()).                   *)
THEOREM StaysInStep == OutputSpec => []InStep
<1>1. OutputInv => InStep
  <2> SUFFICES ASSUME OutputInv PROVE InStep
    OBVIOUS
  <2>1. /\ Fine(X, out) /\ PlaybackInv(X) /\ PartsFit(X) /\ X.p = play /\ X.s = sched /\ X.j = job
        /\ out \in OutputType /\ FifoFits(out) /\ FlowFits(X, out)
    BY StateFine DEF Fine, OutputFits, PlaybackInv
  <2>2. play \in PlaybackType /\ DOMAIN play = PlaybackFields /\ sched \in S!SchedulerType /\ job \in JobType
        /\ play.status \in Cause
    BY <2>1, UnderWayFacts
  <2>3. OutputTypeOK
    <3>1. DOMAIN NewPlayback = PlaybackFields /\ DOMAIN out = DOMAIN NoOutput
      BY <2>1, OutputFacts DEF NewPlayback, PlaybackFields, NoOutput, OutputFields
    <3> QED BY <2>1, <2>2, <3>1, Codes DEF OutputTypeOK, FifoFits
  <2>4. NoTicketError
    BY <2>2 DEF NoTicketError, Cause
  <2>5. ASSUME play.active, play.configured, ~play.stopping
        PROVE  /\ sched.pending = play.ticket
               /\ job.phase = "rendering" => CursorsMeet(sched, job)
               /\ sched.read = out.written /\ sched.consumed = out.seen
               /\ S!Ordered(sched)
    <3>1. Going(X)
      BY <2>1, <2>5 DEF Going
    <3> QED BY <2>1, <2>5, <3>1, GoingFacts DEF CoreFits, GoingFits, FlowFits, S!SchedulerInv
  <2>6. CursorsAgree
    BY <2>5 DEF CursorsAgree, CursorsMeet
  <2> QED BY <2>3, <2>4, <2>6 DEF InStep
<1> QED BY <1>1, OutputInvariant, PTL

(* release() comes only after the transport has stopped and the external   *)
(* cleanup is over.                                                        *)
THEOREM ReleasedStaysQuiet == OutputSpec => []ReleasedIsQuiet
<1>1. OutputInv => ReleasedIsQuiet
  BY StateFine DEF OutputInv, PlaybackInv, CoreFits, OutputFits, FlagsFit, ReleasedIsQuiet
<1> QED BY <1>1, OutputInvariant, PTL

(* Done means whole, an artifact is published only after its last frame    *)
(* was played, a run reports its first cause, and a failed cleanup waits   *)
(* for STOP (finish_prepared_playback(), latch_failure(), stop_step()).    *)
THEOREM EndsAreTrue == OutputSpec => EndsTrue
<1>1. OutputInv /\ [OutputNext]_outVars => [DoneStep]_outVars /\ [FirstStep]_outVars /\ [HeldStep]_outVars
  BY OutputStep DEF EndsStep
<1>2. OutputSpec => [][DoneStep]_outVars /\ [][FirstStep]_outVars /\ [][HeldStep]_outVars
  BY <1>1, OutputInvariant, PTL DEF OutputSpec
<1> QED BY <1>2 DEF EndsTrue, DoneIsWhole, FirstCauseKept, CleanupHeldForStop, DoneStep, FirstStep, HeldStep
=============================================================================
