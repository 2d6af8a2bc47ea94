--------------------------- MODULE FinitePlayback ---------------------------
(***************************************************************************)
(* finite_playback::Scheduler (common/finite_playback.hpp and .cpp): the   *)
(* ticket and watermark accounting that lets one owner render a finite     *)
(* waveform into storage while an earlier part of it plays.                *)
(*                                                                         *)
(* The class is one record s; each method is an operator from a record to  *)
(* the record after the call, so that the modules whose code calls several *)
(* methods in one step can compose them.  A Result<Action> is a "plan":    *)
(* its status, and the action to issue when the status is "ok".  A call    *)
(* that is refused leaves the record as it was.                            *)
(*                                                                         *)
(* A Status is its StatusCode; messages are left out.  pending_action_ and *)
(* action_pending_ are always written together, so pending alone stands    *)
(* for both: token 0, which is never issued, is Action{}.                  *)
(***************************************************************************)
EXTENDS Integers

CONSTANTS
  Configs,       \* the Config records the owner may pass to configure()
  PlaybackRate,  \* playback_sample_rate_hz
  MaxToken       \* numeric_limits<uint64_t>::max(), where tickets run out

Min2(a, b) == IF a <= b THEN a ELSE b
Max2(a, b) == IF a <= b THEN b ELSE a

ConfigType ==
  [total: Nat, rate: Nat, margin: Nat, queue: Nat, block: Nat]

ASSUME ConfigsAssumption == Configs \subseteq ConfigType
ASSUME RateAssumption    == PlaybackRate \in Nat \ {0}
ASSUME TokenAssumption   == MaxToken \in Nat \ {0}

StatusCode ==
  {"ok", "invalid_argument", "invalid_configuration", "buffer_too_small",
   "unavailable", "io_error", "timeout", "busy", "internal_error"}

State ==
  {"unconfigured", "ready", "running", "cancelling", "completed", "failed",
   "cancelled"}
Kind == {"produce", "write", "barrier", "read", "finalize"}

Action == [token: Nat, first: Nat, frames: Nat, kind: Kind]
NoAction == [token |-> 0, first |-> 0, frames |-> 0, kind |-> "produce"]

(* The object as constructed.                                              *)
NewScheduler ==
  [state     |-> "unconfigured",
   config    |-> [total |-> 0, rate |-> 0, margin |-> 0, queue |-> 0, block |-> 0],
   lead      |-> 0,
   produced  |-> 0, written |-> 0, committed |-> 0, read |-> 0, consumed |-> 0,
   nextToken |-> 1,
   pending   |-> NoAction,
   status    |-> "ok",
   started   |-> FALSE, finalized |-> FALSE, released |-> TRUE]

Pending(s)    == s.pending.token # 0
IsTerminal(s) == s.state \in {"completed", "failed", "cancelled"}
IsOpen(s)     == s.state \in {"ready", "running"}
Queued(s)     == s.read - s.consumed
Staged(s)     == s.produced - s.written

-----------------------------------------------------------------------------
(* configure() and the lead it computes.                                   *)

(* A faulty form: the fractional second rounded down.                      *)
RequiredLeadRoundedDown(c) ==
  LET deficit == IF c.rate < PlaybackRate THEN PlaybackRate - c.rate ELSE 0
      bare    == Min2((c.total * deficit) \div PlaybackRate, c.total)
  IN  IF c.margin >= c.total - bare THEN c.total ELSE bare + c.margin

RequiredLead(c) ==
  LET deficit    == IF c.rate < PlaybackRate THEN PlaybackRate - c.rate ELSE 0
      fractional == ((c.total % PlaybackRate) * deficit + PlaybackRate - 1) \div PlaybackRate
      base       == (c.total \div PlaybackRate) * deficit + fractional
      bare       == Min2(base, c.total)
  IN  IF c.margin >= c.total - bare THEN c.total ELSE bare + c.margin

ValidConfig(c) ==
  c.total # 0 /\ c.rate # 0 /\ c.queue # 0 /\ c.block # 0 /\ c.block <= c.queue

ConfigureStatus(s, c) ==
  IF Pending(s) \/ ~(s.state = "unconfigured" \/ (IsTerminal(s) /\ s.released)) THEN "busy"
  ELSE IF ~ValidConfig(c) THEN "invalid_configuration"
  ELSE "ok"

ResetRun(s, c) ==
  [NewScheduler EXCEPT !.config = c, !.lead = RequiredLead(c),
                       !.nextToken = s.nextToken, !.released = FALSE]

ConfigureOp(s, c) ==
  IF ConfigureStatus(s, c) = "ok"
  THEN [ResetRun(s, c) EXCEPT !.state = "ready"]
  ELSE s

-----------------------------------------------------------------------------
(* begin_*(): a plan is refused with its status or names the action.       *)

Refuse(status) == [status |-> status, kind |-> "produce", first |-> 0, frames |-> 0]

(* begin(): the common tail of every begin_*().                            *)
PlanAction(s, kind, first, n) ==
  IF Pending(s) THEN Refuse("busy")
  ELSE IF s.nextToken = MaxToken THEN Refuse("io_error")
  ELSE [status |-> "ok", kind |-> kind, first |-> first, frames |-> n]

PlanProduce(s, n) ==
  IF ~IsOpen(s) THEN Refuse("invalid_configuration")
  ELSE IF n = 0 \/ n > s.config.block \/ n > s.config.total - s.produced THEN Refuse("invalid_argument")
  ELSE IF n > s.config.block - Staged(s) THEN Refuse("busy")
  ELSE PlanAction(s, "produce", s.produced, n)

PlanWrite(s, n) ==
  IF ~IsOpen(s) THEN Refuse("invalid_configuration")
  ELSE IF s.written # s.committed \/ n = 0 \/ n > s.config.block \/ n > Staged(s)
       THEN Refuse("invalid_argument")
  ELSE PlanAction(s, "write", s.written, n)

PlanBarrier(s) ==
  IF ~IsOpen(s) \/ s.written = s.committed THEN Refuse("invalid_configuration")
  ELSE IF s.written - s.committed > s.config.block THEN Refuse("io_error")
  ELSE PlanAction(s, "barrier", s.committed, s.written - s.committed)

(* A faulty form: the queue's free room is not checked.                    *)
PlanReadUnbounded(s, n) ==
  IF ~IsOpen(s) THEN Refuse("invalid_configuration")
  ELSE IF n = 0 \/ n > s.config.block \/ n > s.committed - s.read THEN Refuse("invalid_argument")
  ELSE PlanAction(s, "read", s.read, n)

PlanRead(s, n) ==
  IF ~IsOpen(s) THEN Refuse("invalid_configuration")
  ELSE IF n = 0 \/ n > s.config.block \/ n > s.committed - s.read THEN Refuse("invalid_argument")
  ELSE IF n > s.config.queue - Queued(s) THEN Refuse("busy")
  ELSE PlanAction(s, "read", s.read, n)

AllAtTotal(s) ==
  \A cursor \in {s.produced, s.written, s.committed, s.read, s.consumed} : cursor = s.config.total

PlanFinalize(s) ==
  IF s.state = "running" /\ AllAtTotal(s) /\ ~s.finalized
  THEN PlanAction(s, "finalize", s.config.total, 0)
  ELSE Refuse("invalid_configuration")

(* The side effect of a begin_*() that succeeds.                           *)
Issue(s, plan) ==
  IF plan.status = "ok"
  THEN [s EXCEPT !.pending = [token |-> s.nextToken, first |-> plan.first,
                              frames |-> plan.frames, kind |-> plan.kind],
                 !.nextToken = @ + 1]
  ELSE s

-----------------------------------------------------------------------------
(* next_action(): the default policy.                                      *)

Prefill(s) == Min2(s.config.queue, s.config.total)
Room(s)    == s.config.queue - Queued(s)

(* Move staged frames towards storage: barrier, then write, then produce.  *)
PlanBarrierOrWrite(s) ==
  IF s.written > s.committed THEN PlanBarrier(s) ELSE PlanWrite(s, Min2(s.config.block, Staged(s)))
PlanProduceBlock(s) == PlanProduce(s, Min2(s.config.block, s.config.total - s.produced))

NextWhenReady(s) ==
  LET unread == s.committed - s.read
      count  == Min2(s.config.block, Min2(Room(s), unread))
  IN  IF s.committed < Max2(s.lead, Prefill(s))
      THEN IF s.produced > s.committed THEN PlanBarrierOrWrite(s) ELSE PlanProduceBlock(s)
      ELSE IF Queued(s) < Prefill(s) /\ count > 0 THEN PlanRead(s, count) ELSE Refuse("busy")

(* A faulty form: only whole blocks are read, so the last one never is.    *)
NextWhenRunningWholeBlocks(s) ==
  IF s.committed - s.read >= s.config.block /\ Room(s) >= s.config.block
  THEN PlanRead(s, s.config.block)
  ELSE IF s.produced > s.committed THEN PlanBarrierOrWrite(s)
  ELSE IF s.produced < s.config.total THEN PlanProduceBlock(s)
  ELSE IF s.consumed = s.config.total THEN PlanFinalize(s)
  ELSE Refuse("busy")

NextWhenRunning(s) ==
  LET refill == Min2(s.config.block, s.committed - s.read)
  IN  IF refill > 0 /\ Room(s) >= refill THEN PlanRead(s, refill)
      ELSE IF s.produced > s.committed THEN PlanBarrierOrWrite(s)
      ELSE IF s.produced < s.config.total THEN PlanProduceBlock(s)
      ELSE IF s.consumed = s.config.total THEN PlanFinalize(s)
      ELSE Refuse("busy")

NextAction(s) ==
  IF Pending(s) THEN Refuse("busy")
  ELSE IF s.state = "ready" THEN NextWhenReady(s)
  ELSE IF s.state = "running" THEN NextWhenRunning(s)
  ELSE Refuse("invalid_configuration")

-----------------------------------------------------------------------------
(* latch(), fail(), cancel(), release().                                   *)

Latch(s, reason, state) ==
  [s EXCEPT !.status = IF @ = "ok" THEN (IF reason = "ok" THEN "internal_error" ELSE reason) ELSE @,
            !.state  = state]

FailOp(s, reason) ==
  IF IsTerminal(s) \/ s.state = "unconfigured" THEN s ELSE Latch(s, reason, "failed")

CancelOp(s) ==
  IF IsTerminal(s) \/ s.state = "unconfigured"
  THEN s
  ELSE Latch(s, "unavailable", IF Pending(s) THEN "cancelling" ELSE "cancelled")

ReleaseStatus(s) == IF ~IsTerminal(s) \/ Pending(s) THEN "busy" ELSE "ok"
ReleaseOp(s)     == IF ReleaseStatus(s) = "ok" THEN [s EXCEPT !.released = TRUE] ELSE s

-----------------------------------------------------------------------------
(* start() and consume().                                                  *)

StartStatus(s) ==
  IF s.state # "ready" THEN "invalid_configuration"
  ELSE IF s.committed < s.lead \/ Queued(s) < Prefill(s) THEN "busy"
  ELSE "ok"

StartOp(s) ==
  IF StartStatus(s) = "ok" THEN [s EXCEPT !.started = TRUE, !.state = "running"] ELSE s

ConsumeStatus(s, n) ==
  IF ~s.started \/ s.state # "running" \/ n = 0 \/ n > s.config.block THEN "invalid_argument"
  ELSE IF n > Queued(s) THEN "timeout"
  ELSE "ok"

ConsumeOp(s, n) ==
  CASE ConsumeStatus(s, n) = "ok"      -> [s EXCEPT !.consumed = @ + n]
    [] ConsumeStatus(s, n) = "timeout" -> Latch(s, "timeout", "failed")
    [] OTHER -> s

-----------------------------------------------------------------------------
(* complete(): settle the pending ticket.                                  *)

ActionMatches(s, a) == Pending(s) /\ a = s.pending

CountExpected(a) == IF a.kind \in {"barrier", "finalize"} THEN 0 ELSE a.frames

(* A faulty form: a barrier is checked against the producer's cursor.      *)
CursorMatchesProduced(s, a) ==
  CASE a.kind = "produce"  -> a.first = s.produced
    [] a.kind = "write"    -> a.first = s.written /\ a.frames <= Staged(s)
    [] a.kind = "barrier"  -> a.first = s.committed /\ a.first + a.frames = s.produced
    [] a.kind = "read"     -> a.first = s.read /\ a.first + a.frames <= s.committed
    [] a.kind = "finalize" -> TRUE

(* The ticket still fits the cursor it was issued against.                 *)
CursorMatches(s, a) ==
  CASE a.kind = "produce"  -> a.first = s.produced
    [] a.kind = "write"    -> a.first = s.written /\ a.frames <= Staged(s)
    [] a.kind = "barrier"  -> a.first = s.committed /\ a.first + a.frames = s.written
    [] a.kind = "read"     -> a.first = s.read /\ a.first + a.frames <= s.committed
    [] a.kind = "finalize" -> TRUE

Advance(s, a) ==
  CASE a.kind = "produce"  -> [s EXCEPT !.produced = @ + a.frames]
    [] a.kind = "write"    -> [s EXCEPT !.written = @ + a.frames]
    [] a.kind = "barrier"  -> [s EXCEPT !.committed = s.written]
    [] a.kind = "read"     -> [s EXCEPT !.read = @ + a.frames]
    [] a.kind = "finalize" -> [s EXCEPT !.finalized = TRUE, !.state = "completed"]

(* A faulty form: a completion that arrives after a failure still counts.  *)
CompleteOpAfterFailure(s, a, status, n) ==
  LET t == [s EXCEPT !.pending = NoAction]
  IN  IF ~ActionMatches(s, a) THEN s
      ELSE IF s.state = "cancelling" THEN [t EXCEPT !.state = "cancelled"]
      ELSE IF status # "ok" THEN Latch(t, status, "failed")
      ELSE IF n # CountExpected(a) \/ ~CursorMatches(t, a) THEN Latch(t, "io_error", "failed")
      ELSE Advance(t, a)

CompleteOp(s, a, status, n) ==
  LET t == [s EXCEPT !.pending = NoAction]
  IN  IF ~ActionMatches(s, a) THEN s
      ELSE IF s.state = "cancelling" THEN [t EXCEPT !.state = "cancelled"]
      ELSE IF s.state = "failed" THEN t
      ELSE IF status # "ok" THEN Latch(t, status, "failed")
      ELSE IF n # CountExpected(a) \/ ~CursorMatches(t, a) THEN Latch(t, "io_error", "failed")
      ELSE Advance(t, a)

(* What complete() returns.                                                *)
CompleteStatus(s, a, status, n) ==
  IF ~ActionMatches(s, a) THEN "invalid_argument" ELSE CompleteOp(s, a, status, n).status

-----------------------------------------------------------------------------
(* The scheduler under any owner that keeps to one call at a time.         *)

VARIABLE sched

vars == sched

Init == sched = NewScheduler

Configure(c) == ConfigureStatus(sched, c) = "ok" /\ sched' = ConfigureOp(sched, c)

Begin(plan) == plan.status = "ok" /\ sched' = Issue(sched, plan)

BeginProduce(n)        == Begin(PlanProduce(sched, n))
BeginWrite(n)          == Begin(PlanWrite(sched, n))
BeginVisibilityBarrier == Begin(PlanBarrier(sched))
BeginRead(n)           == Begin(PlanRead(sched, n))
BeginFinalize          == Begin(PlanFinalize(sched))
BeginNextAction        == Begin(NextAction(sched))

Complete(status, n) == Pending(sched) /\ sched' = CompleteOp(sched, sched.pending, status, n)

Start      == StartStatus(sched) = "ok" /\ sched' = StartOp(sched)
Consume(n) == ConsumeStatus(sched, n) \in {"ok", "timeout"} /\ sched' = ConsumeOp(sched, n)
Fail(reason) == ~IsTerminal(sched) /\ sched.state # "unconfigured" /\ sched' = FailOp(sched, reason)
Cancel     == ~IsTerminal(sched) /\ sched.state # "unconfigured" /\ sched' = CancelOp(sched)
Release    == ReleaseStatus(sched) = "ok" /\ sched' = ReleaseOp(sched)

BlockCounts == 0 .. sched.config.block

Next ==
  \/ \E c \in Configs : Configure(c)
  \/ \E n \in BlockCounts : BeginProduce(n)
  \/ \E n \in BlockCounts : BeginWrite(n)
  \/ BeginVisibilityBarrier
  \/ \E n \in BlockCounts : BeginRead(n)
  \/ BeginFinalize
  \/ BeginNextAction
  \/ \E status \in StatusCode, n \in BlockCounts : Complete(status, n)
  \/ Start
  \/ \E n \in BlockCounts : Consume(n)
  \/ \E reason \in StatusCode : Fail(reason)
  \/ Cancel
  \/ Release

Spec == Init /\ [][Next]_vars

-----------------------------------------------------------------------------
(* The inductive invariant, part by part, each on a record so that the     *)
(* modules that embed a scheduler can state it of theirs.                  *)

SchedulerType ==
  [state: State, config: ConfigType, lead: Nat,
   produced: Nat, written: Nat, committed: Nat, read: Nat, consumed: Nat,
   nextToken: 1 .. MaxToken, pending: Action, status: StatusCode,
   started: BOOLEAN, finalized: BOOLEAN, released: BOOLEAN]

(* consumed <= read <= committed <= written <= produced <= total, and the  *)
(* two buffers between the cursors fit: one staging block, one queue.      *)
Ordered(s) ==
  /\ s.consumed <= s.read
  /\ s.read <= s.committed
  /\ s.committed <= s.written
  /\ s.written <= s.produced
  /\ s.produced <= s.config.total
  /\ Staged(s) <= s.config.block
  /\ s.written - s.committed <= s.config.block
  /\ Queued(s) <= s.config.queue

(* What a ticket or a plan a is granted, and still has when it settles.    *)
Fits(s, a) ==
  /\ a.kind = "produce"  => /\ a.first = s.produced
                            /\ a.first + a.frames <= s.config.total
                            /\ Staged(s) + a.frames <= s.config.block
  /\ a.kind = "write"    => /\ s.written = s.committed
                            /\ a.first = s.written
                            /\ a.first + a.frames <= s.produced
                            /\ a.frames <= s.config.block
  /\ a.kind = "barrier"  => /\ a.first = s.committed
                            /\ a.first + a.frames = s.written
  /\ a.kind = "read"     => /\ a.first = s.read
                            /\ a.first + a.frames <= s.committed
                            /\ Queued(s) + a.frames <= s.config.queue
  /\ a.kind = "finalize" => AllAtTotal(s) /\ (IsOpen(s) => s.state = "running")

PendingFits(s) ==
  /\ s.pending.token < s.nextToken
  /\ Pending(s) => Fits(s, s.pending)

(* The flags agree with the state.                                         *)
Flags(s) ==
  /\ s.state \in {"unconfigured", "completed", "cancelled"} => ~Pending(s)
  /\ s.state = "unconfigured" => s = NewScheduler
  /\ s.state # "unconfigured" => ValidConfig(s.config) /\ s.lead = RequiredLead(s.config)
  /\ s.state = "ready" => ~s.started /\ s.consumed = 0
  /\ s.state = "running" => s.started
  /\ s.state \in {"unconfigured", "ready", "running", "completed"} <=> s.status = "ok"
  /\ s.finalized <=> s.state = "completed"
  /\ s.finalized => AllAtTotal(s) /\ s.started
  /\ s.started => s.committed >= s.lead /\ s.committed >= Prefill(s)
  /\ s.released => s.state = "unconfigured" \/ IsTerminal(s)

(* The inductive invariant of the scheduler.                               *)
SchedulerInv(s) == s \in SchedulerType /\ Ordered(s) /\ PendingFits(s) /\ Flags(s)

(* Everything the scheduler relies on between calls: the types, the cursor *)
(* order, what the outstanding ticket was granted, and the state flags.    *)
IInv == SchedulerInv(sched)

-----------------------------------------------------------------------------
(* Properties.                                                             *)

(* Every member keeps its type, and the ticket counter never wraps: begin  *)
(* refuses at numeric_limits<uint64_t>::max() instead of reusing tickets.  *)
TypeOK == sched \in SchedulerType

(* The watermarks stay ordered and the staging block and playback queue    *)
(* never overflow, whatever mixture of explicit begin_*(), next_action(),  *)
(* consume() and failed completions the owner interleaves.                 *)
Watermarks == Ordered(sched)

(* While a run is open, a ticket completed as it was asked to be is always *)
(* accepted: the "cursor changed" and "crossed its committed watermark"    *)
(* failures of complete() cannot be caused by consume() or by any call     *)
(* made while the ticket was pending.                                      *)
HonestCompletionAccepted ==
  Pending(sched) /\ IsOpen(sched) =>
    CompleteOp(sched, sched.pending, "ok", CountExpected(sched.pending)).status = "ok"

(* The state completed is reached only by a whole run: every frame         *)
(* produced, durable, read and played, the artifact finalized and no error *)
(* ever latched.                                                           *)
CompletedIsWhole ==
  sched.state = "completed" =>
    AllAtTotal(sched) /\ sched.started /\ sched.finalized /\ sched.status = "ok"

(* next_action() never wedges an open run: if it has nothing to issue then *)
(* start() would be accepted or frames are queued for the audio clock.     *)
PolicyNeverStuck ==
  IsOpen(sched) /\ ~Pending(sched) /\ sched.nextToken < MaxToken =>
    \/ NextAction(sched).status = "ok"
    \/ NextAction(sched).status = "busy" /\ StartStatus(sched) = "ok"
    \/ NextAction(sched).status = "busy" /\ sched.state = "running" /\ Queued(sched) > 0

(* The committed lead suffices: a player that starts with it and runs at   *)
(* PlaybackRate never overtakes a producer that keeps the configured rate, *)
(* at any frame of the run, and the lead is never beyond the end.          *)
LeadCovers ==
  LET c == sched.config
  IN  /\ sched.lead <= c.total
      /\ \A t \in 0 .. c.total : t <= sched.lead + (t * c.rate) \div PlaybackRate

(* The first error of a run is the one reported: later failures, cancel()  *)
(* and late completions do not overwrite it; only configuring the next run *)
(* does, and that waits for a settled ticket and release().                *)
FirstStatusSticky ==
  [][ sched.status # "ok" /\ sched'.status # sched.status =>
        sched.released /\ ~Pending(sched) /\ IsTerminal(sched) /\ sched'.state = "ready" ]_vars

(* After cancel() or a failure no late completion and no consume() moves a *)
(* cursor: what the owner sees is what had happened when the run stopped.  *)
StoppedIsFrozen ==
  [][ ~IsOpen(sched) /\ ~IsOpen(sched') =>
        /\ <<sched.produced, sched.written, sched.committed>>
             = <<sched'.produced, sched'.written, sched'.committed>>
        /\ <<sched.read, sched.consumed>> = <<sched'.read, sched'.consumed>> ]_vars

(* A ticket is outstanding until it is completed: no call drops or         *)
(* replaces it, and no ticket number is ever issued twice, across runs too.*)
TicketsUnique ==
  [][ /\ sched'.nextToken >= sched.nextToken
      /\ Pending(sched) /\ Pending(sched') => sched'.pending = sched.pending
      /\ ~Pending(sched) /\ Pending(sched') => sched'.pending.token = sched.nextToken
                                               /\ sched'.nextToken > sched.nextToken ]_vars

(* A run is sound: types, ordered watermarks, and completed only when whole*)
(* (the cursors of FinitePlayback between any two calls of its owner).     *)
SoundRun == TypeOK /\ Watermarks /\ CompletedIsWhole

(* Runs and tickets do not mix: a run's first error, its last cursors and  *)
(* its tickets are its own until it is settled and released (complete(),   *)
(* cancel(), release(), configure()).                                      *)
RunsApart == FirstStatusSticky /\ StoppedIsFrozen /\ TicketsUnique
=============================================================================
