-------------------------- MODULE PreparedPlayback --------------------------
(***************************************************************************)
(* PreparedPlayback (rt1170/prepared_playback.cpp): PREPAREPLAY renders a  *)
(* waveform into storage while its durable prefix already plays.  It asks  *)
(* the finite_playback::Scheduler for one action at a time, has the        *)
(* managed PrepareJob carry it out, and settles the ticket.                *)
(*                                                                         *)
(* A state x is the object's own record p, its scheduler s and its job j;  *)
(* a method maps x to a result: the state after the call, the StatusCode   *)
(* returned, and the frames a read put into the caller's buffer.           *)
(* action_pending_ and pending_ticket_ are written together: p.ticket has  *)
(* token 0 when no action is pending.                                      *)
(***************************************************************************)
EXTENDS PrepareJob

CONSTANTS
  Transport,    \* measured rate, margin, queue and block; total is 0
  PlaybackRate, \* playback_sample_rate_hz
  MaxToken      \* numeric_limits<uint64_t>::max()

ASSUME RateAssumption  == PlaybackRate \in Nat \ {0}
ASSUME TokenAssumption == MaxToken \in Nat \ {0}

VARIABLE sched

(* The scheduler, with what has been proved about each of its calls.       *)
S == INSTANCE FinitePlayback_proofs WITH Configs <- {Transport}

NewPlayback ==
  [active |-> FALSE, configured |-> FALSE, ticket |-> S!NoAction,
   decoded |-> FALSE, finishing |-> FALSE, stopping |-> FALSE,
   cancelSent |-> FALSE, retry |-> FALSE, status |-> "ok"]

Result(x, status)  == [x |-> x, ret |-> status, frames |-> 0]
Progress(x)        == Result(x, "ok")
HasTicket(x)       == x.p.ticket.token # 0

(* What the object says when a status it should carry is missing.          *)
OrTicketError(status) == IF status = "ok" THEN "internal_error" ELSE status

(* snapshot(): of this run's scheduler, never of an earlier run's.         *)
Snapshot(x) == IF x.p.configured THEN x.s ELSE S!NewScheduler

-----------------------------------------------------------------------------
(* latch_failure(), fail(), cancel(), consume(), start().                  *)

LatchFailure(x, reason) ==
  LET cause   == IF x.p.status = "ok" THEN OrTicketError(reason) ELSE x.p.status
      cancels == Busy(x.j) /\ x.j.phase # "cleanup_failed"
      c       == JobCancel(x.j)
  IN  Result([p |-> [x.p EXCEPT !.status = cause, !.stopping = TRUE,
                                !.cancelSent = @ \/ (cancels /\ c.ret = "ok")],
              s |-> IF x.p.configured THEN S!FailOp(x.s, cause) ELSE x.s,
              j |-> IF cancels THEN c.job ELSE x.j], cause)

PlaybackFail(x, reason) ==
  IF x.p.active THEN LatchFailure(x, reason) ELSE Result(x, "unavailable")

PlaybackCancel(x) ==
  LET c     == JobCancel(x.j)
      sends == Busy(x.j) /\ c.ret = "ok"
  IN  IF ~x.p.active THEN Result(x, "unavailable")
      ELSE Progress([p |-> [x.p EXCEPT !.status = IF @ = "ok" THEN "unavailable" ELSE @,
                                       !.stopping = TRUE, !.cancelSent = @ \/ sends,
                                       !.retry = IF sends THEN x.j.phase = "cleanup_failed" ELSE @],
                     s |-> IF x.p.configured THEN S!CancelOp(x.s) ELSE x.s,
                     j |-> IF sends THEN c.job ELSE x.j])

Playing(x) == x.p.active /\ x.p.configured /\ ~x.p.stopping

PlaybackConsume(x, n) ==
  LET consumed == [x EXCEPT !.s = S!ConsumeOp(x.s, n)]
      status   == S!ConsumeStatus(x.s, n)
  IN  IF ~Playing(x) THEN Result(x, "unavailable")
      ELSE IF status = "timeout" THEN LatchFailure(consumed, "timeout")
      ELSE Result(consumed, status)

PlaybackStart(x) ==
  IF Playing(x) THEN Result([x EXCEPT !.s = S!StartOp(x.s)], S!StartStatus(x.s))
  ELSE Result(x, "unavailable")

ReadyToStart(x) ==
  /\ x.p.configured /\ ~x.p.stopping
  /\ x.s.state = "ready" /\ ~S!Pending(x.s)
  /\ x.s.committed >= x.s.lead
  /\ S!Queued(x.s) >= S!Prefill(x.s)

-----------------------------------------------------------------------------
(* begin(): adopt a job just admitted by begin_managed().                  *)

PlaybackBegin(x) ==
  IF x.p.active THEN Result(x, "busy")
  ELSE IF ~(/\ Busy(x.j) /\ x.j.phase = "starting"
            /\ S!ValidConfig([Transport EXCEPT !.total = 1]) /\ Transport.block <= Block)
       THEN Result(x, "invalid_configuration")
  ELSE Progress([x EXCEPT !.p = [NewPlayback EXCEPT !.active = TRUE]])

-----------------------------------------------------------------------------
(* complete_pending(), settle_for_stop(), release_if_finished().           *)

Settled(x, s) ==
  [x EXCEPT !.s = s,
            !.p = [x.p EXCEPT !.ticket = S!NoAction, !.decoded = FALSE, !.finishing = FALSE]]

CompletePending(x, result, n) ==
  LET s      == S!CompleteOp(x.s, x.p.ticket, result, n)
      status == S!CompleteStatus(x.s, x.p.ticket, result, n)
  IN  IF ~HasTicket(x) THEN LatchFailure(x, "internal_error")
      ELSE IF S!Pending(s) THEN LatchFailure([x EXCEPT !.s = s], status)
      ELSE IF result # "ok" THEN LatchFailure(Settled(x, s), result)
      ELSE IF status # "ok" THEN LatchFailure(Settled(x, s), status)
      ELSE Progress(Settled(x, s))

SettleForStop(x) ==
  LET s == S!CompleteOp(x.s, x.p.ticket, "ok", 0)
  IN  IF ~HasTicket(x) THEN x
      ELSE IF S!Pending(s)
           THEN [x EXCEPT !.s = s, !.p.stopping = TRUE,
                          !.p.status = IF @ = "ok" THEN "internal_error" ELSE @]
      ELSE Settled(x, s)

ReleaseIfFinished(x) ==
  LET ended == [x EXCEPT !.p.status = IF @ = "ok" THEN "internal_error" ELSE @]
      y     == IF S!IsTerminal(x.s) THEN x
               ELSE [ended EXCEPT !.s = S!FailOp(x.s, ended.p.status)]
      stray == S!CompleteOp(x.s, x.s.pending, "internal_error", 0)
  IN  IF Busy(x.j) THEN x
      ELSE IF ~x.p.configured THEN [x EXCEPT !.p.active = FALSE]
      ELSE IF S!Pending(x.s)
           THEN IF HasTicket(x) THEN x
                ELSE [x EXCEPT !.s = stray, !.p.status = "internal_error", !.p.stopping = TRUE]
      ELSE [y EXCEPT !.s = S!ReleaseOp(@), !.p.active = FALSE]

-----------------------------------------------------------------------------
(* action_step(): the job carries out the pending action.                  *)

WithJob(x, r) == [x EXCEPT !.j = r.job]

ProduceActionStep(x, out) ==
  LET a == x.p.ticket
      r == ProduceStep(x.j, a.frames, out)
      y == WithJob(x, r)
  IN  IF a.first # x.j.produced THEN CompletePending(x, "internal_error", 0)
      ELSE IF r.ret = "busy" /\ ~x.p.decoded THEN Progress([y EXCEPT !.p.decoded = TRUE])
      ELSE CompletePending(y, r.ret, IF r.ret = "ok" THEN a.frames ELSE 0)

(* A faulty form: the ticket is settled before its frames are written.     *)
WriteActionStepEarly(x, out) ==
  LET a == x.p.ticket
  IN  CompletePending(x, "ok", a.frames)

WriteActionStep(x, out) ==
  LET a == x.p.ticket
      r == AppendProduced(x.j, a.frames, out)
  IN  IF a.first # x.j.rendered THEN CompletePending(x, "internal_error", 0)
      ELSE CompletePending(WithJob(x, r), r.ret, IF r.ret = "ok" THEN a.frames ELSE 0)

BarrierActionStep(x, out) ==
  LET r == CommitPrefix(x.j, out)
  IN  CompletePending(WithJob(x, r), r.ret, 0)

ReadActionStep(x, out) ==
  LET a == x.p.ticket
      r == ReadPrefix(x.j, a.first, a.frames, out)
      c == CompletePending(WithJob(x, r), r.ret, IF r.ret = "ok" THEN a.frames ELSE 0)
  IN  IF c.ret = "ok" THEN [c EXCEPT !.frames = a.frames] ELSE c

(* finish_managed() once, then the job's own steps up to its publication.  *)
FinalizeActionStep(x, drained, out) ==
  LET f == FinishManaged(x.j)
      y == IF x.p.finishing THEN x ELSE [WithJob(x, f) EXCEPT !.p.finishing = TRUE]
      r == JobStep(y.j, out)
      z == WithJob(y, r)
      done == CompletePending(y, "ok", 0)
  IN  IF ~drained THEN Progress(x)
      ELSE IF ~x.p.finishing /\ f.ret # "ok" THEN CompletePending(WithJob(x, f), f.ret, 0)
      ELSE IF Busy(y.j)
           THEN IF r.ret \notin {"ok", "busy"} THEN CompletePending(z, r.ret, 0)
                ELSE IF r.job.phase \in {"failed", "cleanup_failed"}
                     THEN CompletePending(z, OrTicketError(r.job.status), 0)
                ELSE Progress(z)
      ELSE IF y.j.phase # "complete" THEN CompletePending(y, OrTicketError(y.j.status), 0)
      ELSE IF done.ret = "ok" THEN Progress(ReleaseIfFinished(done.x))
      ELSE done

ActionStep(x, drained, out) ==
  CASE x.p.ticket.kind = "produce"  -> ProduceActionStep(x, out)
    [] x.p.ticket.kind = "write"    -> WriteActionStep(x, out)
    [] x.p.ticket.kind = "barrier"  -> BarrierActionStep(x, out)
    [] x.p.ticket.kind = "read"     -> ReadActionStep(x, out)
    [] x.p.ticket.kind = "finalize" -> FinalizeActionStep(x, drained, out)

-----------------------------------------------------------------------------
(* step(): stop_step(), setup_step(), schedule_step().                     *)

(* A faulty form: the run ends although its job's cleanup has failed.      *)
StopStepAbandons(x, out) ==
  LET settled == SettleForStop(x)
      c       == IF settled.p.cancelSent THEN Return(settled.j, "ok") ELSE JobCancel(settled.j)
      r       == JobStep(c.job, out)
      after   == [settled EXCEPT !.j = r.job, !.p.retry = FALSE, !.p.cancelSent = @ \/ c.ret = "ok"]
  IN  IF settled.j.phase = "cleanup_failed"
      THEN Result([settled EXCEPT !.s = S!ReleaseOp(@), !.p.active = FALSE], settled.p.status)
      ELSE IF ~Busy(settled.j) THEN LET e == ReleaseIfFinished(settled) IN Result(e, e.p.status)
      ELSE IF Busy(r.job) THEN Result(after, after.p.status)
      ELSE LET e == ReleaseIfFinished(after) IN Result(e, e.p.status)

StopStep(x, out) ==
  LET settled == SettleForStop(x)
      waiting == [settled EXCEPT !.p.status = IF @ = "ok" THEN OrTicketError(settled.j.status) ELSE @]
      c       == IF settled.p.cancelSent THEN Return(settled.j, "ok") ELSE JobCancel(settled.j)
      r       == JobStep(c.job, out)
      failed  == r.job.phase \in {"cleanup_failed", "failed"}
      after   == [settled EXCEPT !.j = r.job, !.p.retry = FALSE, !.p.cancelSent = @ \/ c.ret = "ok",
                    !.p.status = IF @ = "ok" /\ failed THEN OrTicketError(r.job.status) ELSE @]
  IN  IF HasTicket(settled) THEN Result(settled, OrTicketError(settled.p.status))
      ELSE IF ~Busy(settled.j) THEN LET e == ReleaseIfFinished(settled) IN Result(e, e.p.status)
      ELSE IF settled.j.phase = "cleanup_failed" /\ ~settled.p.retry THEN Result(waiting, waiting.p.status)
      ELSE IF Busy(r.job) THEN Result(after, after.p.status)
      ELSE LET e == ReleaseIfFinished(after) IN Result(e, e.p.status)

SetupStep(x, out) ==
  LET r == JobStep(x.j, out)
      y == WithJob(x, r)
      c == [Transport EXCEPT !.total = x.j.source]
      status == S!ConfigureStatus(x.s, c)
  IN  IF x.j.phase = "complete" THEN LatchFailure(x, "internal_error")
      ELSE IF x.j.phase # "rendering"
           THEN IF ~Busy(x.j) THEN LatchFailure(x, OrTicketError(x.j.status))
                ELSE IF r.ret \notin {"ok", "busy"} THEN LatchFailure(y, r.ret)
                ELSE Progress(y)
      ELSE IF status # "ok" THEN LatchFailure(x, status)
      ELSE Progress([x EXCEPT !.s = S!ConfigureOp(x.s, c), !.p.configured = TRUE])

ScheduleStep(x, drained, out) ==
  LET plan == S!NextAction(x.s)
      s    == S!Issue(x.s, plan)
      y    == [x EXCEPT !.s = s,
                        !.p = [x.p EXCEPT !.ticket = s.pending, !.decoded = FALSE, !.finishing = FALSE]]
  IN  IF HasTicket(x) THEN ActionStep(x, drained, out)
      ELSE IF x.s.started /\ x.s.consumed = x.s.config.total /\ ~drained THEN Progress(x)
      ELSE IF plan.status = "busy" THEN Progress(x)
      ELSE IF plan.status # "ok" THEN LatchFailure(x, plan.status)
      ELSE ActionStep(y, drained, out)

PlaybackStep(x, drained, out) ==
  LET cause   == IF x.p.status = "ok" THEN OrTicketError(x.j.status) ELSE x.p.status
      failing == [p |-> [x.p EXCEPT !.status = cause, !.stopping = TRUE],
                  s |-> IF x.p.configured THEN S!FailOp(x.s, cause) ELSE x.s, j |-> x.j]
      ended   == ReleaseIfFinished(x)
  IN  IF ~x.p.active THEN Result(x, "unavailable")
      ELSE IF x.p.stopping THEN StopStep(x, out)
      ELSE IF x.j.phase = "failed" THEN LatchFailure(x, OrTicketError(x.j.status))
      ELSE IF x.j.phase = "cleanup_failed" THEN Result(failing, cause)
      ELSE IF x.j.phase = "cancelled" THEN Progress(PlaybackCancel(x).x)
      ELSE IF x.j.phase = "complete" /\ x.p.configured /\ ~HasTicket(x)
           THEN Result(ended, IF ended.p.active THEN "ok" ELSE ended.p.status)
      ELSE IF ~x.p.configured THEN SetupStep(x, out)
      ELSE ScheduleStep(x, drained, out)
-----------------------------------------------------------------------------
(* The inductive invariant of a coordinator, its scheduler and its job.    *)

(* What status_ may be: the two alarms of the coordinator are left out.    *)
Cause == S!StatusCode \ {"internal_error", "timeout"}

PlaybackType ==
  [active: BOOLEAN, configured: BOOLEAN, ticket: S!Action, decoded: BOOLEAN, finishing: BOOLEAN,
   stopping: BOOLEAN, cancelSent: BOOLEAN, retry: BOOLEAN, status: Cause]

PlaybackState == [p: PlaybackType, s: S!SchedulerType, j: JobType]

(* The scheduler and the job count the same frames.                        *)
CursorsMeet(s, j) == s.produced = j.produced /\ s.written = j.rendered /\ s.committed = j.committed

(* What holds of a playback under way, stopping or not: until configure()  *)
(* the scheduler is at rest, from then on its ticket is the one held.      *)
CoreFits(x) ==
  /\ x.j.work # "idle"
  /\ x.p.cancelSent => x.j.cancel
  /\ IF x.p.configured
     THEN x.s.pending = x.p.ticket /\ ~x.s.released /\ x.s.state \notin {"unconfigured", "completed"}
     ELSE x.p.ticket = S!NoAction /\ ~S!Pending(x.s) /\ x.s.released /\ x.j.managed

(* A playback stops exactly when it has a cause, and its scheduler too.    *)
CauseFits(x) ==
  /\ x.p.stopping <=> x.p.status # "ok"
  /\ x.p.configured => (x.s.status # "ok" <=> x.p.stopping)

(* Before configure() the job has rendered nothing; after it, the job      *)
(* renders in step, or finishes under the last ticket.                     *)
GoingFits(x) ==
  /\ ~x.j.cancel
  /\ IF x.p.configured
     THEN /\ x.s.config = [Transport EXCEPT !.total = x.j.source]
          /\ x.j.phase = "rendering" => CursorsMeet(x.s, x.j)
          /\ IF x.j.managed THEN x.j.work \in Rendering
             ELSE /\ x.p.finishing /\ HasTicket(x) /\ x.p.ticket.kind = "finalize"
                  /\ x.j.work \in Later \cup {"cleanup", "terminal"}
     ELSE x.j.phase = "rendering" =>
            x.j.work = "render_read_decode" /\ x.j.produced = 0 /\ x.j.rendered = 0 /\ x.j.committed = 0

(* The parts that hold on their own, between the calls of a method too.    *)
PartsFit(x) == x \in PlaybackState /\ JobFits(x.j) /\ JobAnswers(x.j) /\ S!SchedulerInv(x.s)

PlaybackInv(x) ==
  /\ PartsFit(x)
  /\ IF x.p.active THEN CoreFits(x) /\ CauseFits(x) /\ (~x.p.stopping => GoingFits(x))
     ELSE ~Busy(x.j) /\ ~S!Pending(x.s) /\ x.s.released
=============================================================================
