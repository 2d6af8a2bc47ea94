--------------------------- MODULE PreparedOutput ---------------------------
(***************************************************************************)
(* PREPAREPLAY end to end (rt1170/player.cpp): the player task's pass over *)
(* a prepared playback (service_preparation_playback), the output FIFO it  *)
(* fills, the codec's audio task that empties it one block at a time, and  *)
(* the operator's STOP.                                                    *)
(*                                                                         *)
(* A pass first observes what the audio task has taken, and later decides  *)
(* from the FIFO and the silence played whether the output has drained.    *)
(* The audio task preempts it in between, for fewer than MaxGap blocks.    *)
(* Elsewhere in the pass an audio block can be moved to before or after it.*)
(***************************************************************************)
EXTENDS PreparedPlayback

CONSTANTS
  RingCapacity, \* ring_capacity_frames
  OutputBlock,  \* codec_frames_per_block
  DrainFrames,  \* eof_drain_frames
  MaxGap,       \* codec blocks that fit between two statements of a pass
  StartTokens,  \* bound: the ticket numbers a run may begin with
  Outcomes      \* how the job's calls into FatFs and the engine may end

ASSUME TransportAssumption ==
  /\ Transport \in [total: {0}, rate: Nat \ {0}, margin: Nat, queue: Nat \ {0}, block: Nat \ {0}]
  /\ Transport.block = Block /\ Block <= Transport.queue
ASSUME RingAssumption == RingCapacity \in Nat /\ Transport.queue + 2 * Block <= RingCapacity
ASSUME DrainAssumption ==
  /\ OutputBlock \in Nat \ {0}
  /\ DrainFrames \in Nat /\ MaxGap \in Nat /\ MaxGap * OutputBlock < DrainFrames
ASSUME OutcomesAssumption == Outcomes \subseteq Outcome

VARIABLES
  play,  \* the PreparedPlayback object
  out    \* the run's output and flags

outVars == <<job, sched, play, out>>

NoOutput ==
  [written |-> 0,      \* ring_write_total
   read |-> 0,         \* ring_read_total
   seen |-> 0,         \* prepared_consumed_frames
   silence |-> 0,      \* counters.eof_silence_frames, up to DrainFrames
   eof |-> FALSE,      \* eof_enqueued
   on |-> FALSE,       \* the codec runs
   stopped |-> FALSE,  \* prepared_output_stopped
   stop |-> FALSE,     \* stop_requested
   fault |-> FALSE,    \* faulted
   state |-> "idle",   \* how the run shows: idle, active, done, aborted, error
   mid |-> FALSE,      \* the pass has observed the output and not yet judged it
   gap |-> 0]          \* codec blocks since it did

Fill(o)     == o.written - o.read
Draining(o) == o.silence > 0

X == [p |-> play, s |-> sched, j |-> job]

Become(x) == play' = x.p /\ sched' = x.s /\ job' = x.j

-----------------------------------------------------------------------------
(* accept_prepared_playback(), stop_command().                             *)

AcceptPreparedPlayback(ask) ==
  LET admitted == BeginInternal([job EXCEPT !.card = Untouched], ask, TRUE)
      begun    == PlaybackBegin([X EXCEPT !.j = admitted.job])
  IN  /\ ~play.active /\ ~Busy(job) /\ (ask.sound => sched.nextToken \in StartTokens)
      /\ IF admitted.ret # "ok" THEN job' = admitted.job /\ UNCHANGED <<sched, play, out>>
         ELSE IF begun.ret # "ok"
              THEN Become([begun.x EXCEPT !.j = JobCancel(@).job]) /\ UNCHANGED out
         ELSE Become(begun.x) /\ out' = [NoOutput EXCEPT !.state = "active"]

(* stop_output(): the audio task takes nothing from here on.  On the USB   *)
(* route the wait for queued frames may find a fault.                      *)
StopOutput(o, flaw) == [o EXCEPT !.on = FALSE, !.stopped = TRUE, !.fault = @ \/ flaw]

StopCommand ==
  LET o == [out EXCEPT !.stop = TRUE]
  IN  /\ play.active /\ ~out.mid
      /\ Become(PlaybackCancel(X).x)
      /\ IF out.stopped THEN out' = o ELSE \E flaw \in BOOLEAN : out' = StopOutput(o, flaw)

-----------------------------------------------------------------------------
(* The audio task: player_audio_hook(), consume_output().                  *)

AudioBlock ==
  LET copied == S!Min2(Fill(out), OutputBlock)
      tick   == [out EXCEPT !.gap = IF out.mid THEN @ + 1 ELSE 0]
      silent(n) == S!Min2(out.silence + n, DrainFrames)
  IN  /\ out.on /\ ~out.fault /\ ~out.stop
      /\ out.mid => out.gap < MaxGap
      /\ out' = IF Draining(out) THEN [tick EXCEPT !.silence = silent(OutputBlock)]
                ELSE IF copied < OutputBlock /\ ~out.eof THEN [tick EXCEPT !.fault = TRUE]
                ELSE [tick EXCEPT !.read = @ + copied, !.silence = silent(OutputBlock - copied)]
      /\ UNCHANGED <<job, sched, play>>

(* The codec, the stream or a check of them latches a fault.               *)
OutputFault ==
  /\ out.on /\ ~out.fault
  /\ out' = [out EXCEPT !.fault = TRUE]
  /\ UNCHANGED <<job, sched, play>>

-----------------------------------------------------------------------------
(* The player task's pass: service_preparation_playback().                 *)

(* consume() for n observed frames, a block at a time, until one fails.    *)
ConsumeObserved(x, n) ==
  LET chunks   == (n + Block - 1) \div Block
      size(i)  == IF i < chunks THEN Block ELSE n - (chunks - 1) * Block
      after[i \in 0 .. chunks] ==
        IF i = 0 THEN Progress(x)
        ELSE IF after[i - 1].ret # "ok" THEN after[i - 1]
        ELSE PlaybackConsume(after[i - 1].x, size(i))
  IN  after[chunks]

(* observe_prepared_output().                                              *)
ObservePreparedOutput ==
  LET c == ConsumeObserved(X, out.read - out.seen)
  IN  /\ play.active /\ ~out.mid
      /\ IF ~Snapshot(X).started \/ out.stopped
         THEN out' = [out EXCEPT !.mid = TRUE] /\ UNCHANGED <<job, sched, play>>
         ELSE /\ Become(c.x)
              /\ out' = [out EXCEPT !.mid = TRUE, !.seen = IF c.ret = "ok" THEN out.read ELSE @,
                                    !.fault = @ \/ c.ret # "ok"]

(* A faulty form: the output has drained as soon as the FIFO is empty.     *)
DrainedWithFifo(o) == o.eof /\ Fill(o) = 0

Drained(o) == o.eof /\ Fill(o) = 0 /\ o.silence >= DrainFrames

(* The fault found so far ends the playback, and a drained, faulted or     *)
(* stopped run its output.                                                 *)
JudgeOutput(flaw) ==
  LET failed == IF out.fault /\ play.status = "ok" THEN PlaybackFail(X, "io_error").x ELSE X
      ends   == ~out.stopped /\ (Drained(out) \/ out.fault \/ out.stop)
      o      == IF ends THEN StopOutput(out, flaw) ELSE out
  IN  [x |-> IF ends /\ o.fault THEN PlaybackFail(failed, "io_error").x ELSE failed, o |-> o]

(* enqueue_prepared_frames(): all of them fit or the run fails.            *)
Enqueue(x, o, n) ==
  IF Fill(o) + n <= RingCapacity THEN [x |-> x, o |-> [o EXCEPT !.written = @ + n]]
  ELSE [x |-> PlaybackFail(x, "internal_error").x, o |-> [o EXCEPT !.fault = TRUE]]

AdvancePlayback(x, o, drained, flaw, outcome) ==
  LET r == PlaybackStep(x, drained, outcome)
  IN  IF r.ret # "ok"
      THEN [x |-> r.x,
            o |-> LET f == [o EXCEPT !.fault = @ \/ ~o.stop]
                  IN  IF o.stopped THEN f ELSE StopOutput(f, flaw)]
      ELSE Enqueue(r.x, o, r.frames)

(* end_stream() once the last frame is in the FIFO.                        *)
EndStream(x, o) ==
  LET s == Snapshot(x)
  IN  [o EXCEPT !.eof = @ \/ (s.config.total # 0 /\ s.read = s.config.total)]

(* start() and start_output(), which may fail.                             *)
StartWhenReady(x, o, startFault) ==
  LET started == PlaybackStart(x)
  IN  IF ~ReadyToStart(x) THEN [x |-> x, o |-> o]
      ELSE IF started.ret # "ok" THEN [x |-> PlaybackFail(started.x, started.ret).x, o |-> o]
      ELSE IF startFault
           THEN [x |-> PlaybackFail(started.x, "io_error").x, o |-> [o EXCEPT !.fault = TRUE]]
      ELSE [x |-> started.x, o |-> [o EXCEPT !.on = TRUE]]

(* A faulty form: a run that was not stopped is done, whatever its faults. *)
FinishPreparedPlaybackBlind(o, flaw) ==
  LET e == IF o.stopped THEN o ELSE StopOutput(o, flaw)
  IN  [e EXCEPT !.state = IF e.stop THEN "aborted" ELSE "done"]

(* finish_prepared_playback().                                             *)
FinishPreparedPlayback(o, flaw) ==
  LET e == IF o.stopped THEN o ELSE StopOutput(o, flaw)
  IN  [e EXCEPT !.state = IF e.fault THEN "error" ELSE IF e.stop THEN "aborted" ELSE "done"]

FinishPass(outcome, flaw, startFault) ==
  /\ play.active /\ out.mid
  /\ \E a \in {JudgeOutput(flaw)} :
     \E b \in {AdvancePlayback(a.x, a.o, Drained(out) /\ a.o.stopped, flaw, outcome)} :
     \E c \in {StartWhenReady(b.x, EndStream(b.x, b.o), startFault)} :
     \E o \in {IF c.x.p.active THEN c.o ELSE FinishPreparedPlayback(c.o, flaw)} :
       Become(c.x) /\ out' = [o EXCEPT !.mid = FALSE, !.gap = 0]

Pass ==
  \/ ObservePreparedOutput
  \/ \E outcome \in Outcomes, flaw, startFault \in BOOLEAN : FinishPass(outcome, flaw, startFault)

OutputInit == job = NewJob(Untouched) /\ sched = S!NewScheduler /\ play = NewPlayback /\ out = NoOutput

OutputNext ==
  \/ \E ask \in Requests : AcceptPreparedPlayback(ask)
  \/ StopCommand
  \/ AudioBlock
  \/ OutputFault
  \/ Pass

(* The codec's clock does not stop, and the player task passes every       *)
(* millisecond unless a cleanup has failed; then it sleeps until notified. *)
(* This is weak fairness of Pass with its enabling condition written out.  *)
PassFairness == []<>(~play.active \/ job.phase = "cleanup_failed") \/ []<><<Pass>>_outVars

OutputSpec == OutputInit /\ [][OutputNext]_outVars /\ WF_outVars(AudioBlock) /\ PassFairness

-----------------------------------------------------------------------------
(* Properties.                                                             *)

(* Types, and the FIFO's cursors: nothing is taken that was not put in,    *)
(* nothing is counted as played that was not taken.                        *)
OutputTypeOK ==
  /\ job \in JobType /\ sched \in S!SchedulerType
  /\ DOMAIN play = DOMAIN NewPlayback /\ play.status \in S!StatusCode
  /\ DOMAIN out = DOMAIN NoOutput
  /\ out.seen <= out.read /\ out.read <= out.written /\ Fill(out) <= RingCapacity

(* The coordinator's own alarm never sounds: no ticket is found at odds    *)
(* with the job's cursor, no stray ticket is left, no read overflows the   *)
(* FIFO, and the scheduler never sees more frames played than were read.   *)
NoTicketError == play.status \notin {"internal_error", "timeout"}

(* The scheduler's cursors are the job's: a frame is produced, written or  *)
(* durable for the one exactly when it is for the other, and the ticket    *)
(* the coordinator holds is the one the scheduler waits for.               *)
CursorsAgree ==
  play.active /\ play.configured /\ ~play.stopping =>
    /\ sched.pending = play.ticket
    /\ job.phase = "rendering" =>
         /\ sched.produced = job.produced
         /\ sched.written = job.rendered
         /\ sched.committed = job.committed
    /\ sched.read = out.written
    /\ sched.consumed = out.seen
    /\ S!Ordered(sched)

(* "release() only after stopping transport and completing external        *)
(* cleanup": a released scheduler, and an inactive playback, mean a        *)
(* stopped output, a job that holds nothing and no ticket outstanding.     *)
ReleasedIsQuiet ==
  (play.configured /\ sched.released) \/ ~play.active =>
    ~out.on /\ ~Busy(job) /\ ~S!Pending(sched) /\ ~play.active

(* A run that ends as done played every frame, published its artifact and  *)
(* met no error; an artifact is published only after its last frame left   *)
(* the FIFO and the output stopped.                                        *)
DoneIsWhole ==
  [][ /\ play.active /\ ~play'.active /\ out'.state = "done" =>
           /\ sched'.state = "completed" /\ sched'.consumed = job'.source
           /\ job'.phase = "complete" /\ play'.status = "ok"
      /\ ~job.published /\ job'.published =>
           out'.eof /\ out'.read = job'.source /\ out'.stopped ]_outVars

(* The error a run reports is its first: no later fault, STOP or failed    *)
(* cleanup replaces it, until the next run begins.                         *)
FirstCauseKept ==
  [][ play.status # "ok" /\ play'.status # play.status => ~play.active ]_outVars

(* A playback comes to rest: it ends, by itself or by STOP, or stops at a  *)
(* failed cleanup; and a STOP that retries that cleanup gets it going      *)
(* again.  The output cannot drain unseen and leave the run waiting for    *)
(* frames that no one will play.                                           *)
PlaybackSettles ==
  play.active /\ job.phase # "cleanup_failed" ~> ~play.active \/ job.phase = "cleanup_failed"

(* "A `cleanup_failed` job retains media ownership until a later STOP":    *)
(* the coordinator, unlike PREPARE, keeps to it.                           *)
CleanupHeldForStop ==
  [][ play.active /\ job.phase = "cleanup_failed" /\ ~play.retry =>
        play'.active /\ (job' # job => out'.stop) ]_outVars

(* The coordinator, its scheduler, its job and the FIFO stay in step: no   *)
(* ticket at odds with a cursor, no frame counted twice or too early, and  *)
(* no alarm of the coordinator's own (advance_prepared_playback()).        *)
InStep == OutputTypeOK /\ NoTicketError /\ CursorsAgree

(* A run's end is true: done means whole, an error is the first one, and a *)
(* failed cleanup waits for STOP (finish_prepared_playback(), latch, the   *)
(* retried cleanup).                                                       *)
EndsTrue == DoneIsWhole /\ FirstCauseKept /\ CleanupHeldForStop
-----------------------------------------------------------------------------
(* The inductive invariant: the coordinator's, and the output against it.  *)

OutputType ==
  [written: Nat, read: Nat, seen: Nat, silence: 0 .. DrainFrames, eof: BOOLEAN, on: BOOLEAN,
   stopped: BOOLEAN, stop: BOOLEAN, fault: BOOLEAN,
   state: {"idle", "active", "done", "aborted", "error"}, mid: BOOLEAN, gap: 0 .. MaxGap]

(* The FIFO's cursors against each other.                                  *)
FifoFits(o) == o.seen <= o.read /\ o.read <= o.written /\ Fill(o) <= RingCapacity

(* The FIFO's cursors against the scheduler's, and who may have touched    *)
(* the output: nobody before start(), nobody after stop_output().          *)
FlowFits(x, o) ==
  x.p.active /\ ~x.p.stopping =>
    /\ IF x.p.configured THEN x.s.read = o.written /\ x.s.consumed = o.seen ELSE o.written = 0
    /\ o.on \/ o.stopped \/ Draining(o) => x.p.configured /\ x.s.started

FlagsFit(x, o) ==
  /\ o.stopped \/ ~x.p.active => ~o.on
  /\ x.p.active /\ x.p.stopping => o.fault \/ o.stop
  /\ x.p.active /\ o.stop => x.p.stopping

OutputFits(x, o) == o \in OutputType /\ FifoFits(o) /\ FlowFits(x, o) /\ FlagsFit(x, o)

OutputInv == PlaybackInv(X) /\ OutputFits(X, out)
=============================================================================
