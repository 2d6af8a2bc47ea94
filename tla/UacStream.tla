------------------------------ MODULE UacStream ------------------------------
(***************************************************************************)
(* The USB capture stream (rt1170/usb_audio.hpp, usb_audio.cpp) with the   *)
(* IN endpoint under it: the chunks and their records, an armed play and   *)
(* its scheduled start, and the service intervals missed, split between    *)
(* host and device by the service watchdog (usb/usb_tinyusb_port.c).       *)
(*                                                                         *)
(* Time passes by half frames; once in each frame, always at the start of  *)
(* the same half, the host polls or leaves the poll out.  The interrupt is *)
(* handled in that half or any number of halves later: it samples the      *)
(* watchdog first, and TinyUSB loads the next packet before it reports the *)
(* completion.  The player's calls are critical sections, so one step each.*)
(*                                                                         *)
(* A chunk (48 frames, one packet) is the unit of the stream's indices,    *)
(* which wrap after Wrap chunks.  A chunk with any file frames is a file   *)
(* chunk; the checksums follow the file frames and are left out.           *)
(***************************************************************************)
EXTENDS Integers, Sequences, FiniteSets

CONSTANTS
  Target,     \* fifo_target_chunks
  Capacity,   \* chunk_record_capacity
  Wrap,       \* chunks after which a stream index wraps
  Modulus,    \* usb_frame_number_modulus
  FileChunks, \* chunks of the file a play has
  Ahead,      \* how far ahead of the stream a start may be scheduled
  PollHalf,   \* the half of a frame the host polls in
  Budget      \* openings, plays, and the open stream's lost frames and mismatched completions, together

ASSUME UacConstants ==
  /\ Target \in Nat \ {0} /\ Capacity \in Nat /\ Capacity > Target
  /\ Wrap \in Nat /\ Wrap > 2 * Capacity
  /\ Modulus \in Nat /\ Modulus > 2
  /\ FileChunks \in Nat \ {0} /\ Ahead \in Nat
  /\ PollHalf \in 0..1 /\ Budget \in Nat

VARIABLES
  stream,  \* StreamCounters, in_flight_, configured_ and the records
  tracker, \* IntervalTracker
  play,    \* PlayStatistics and what belongs to the play
  wire,    \* TinyUSB's FIFO, the endpoint, the watchdog's timer and the frame
  truth,   \* what happened on the bus, which the code cannot see
  left     \* chunks the player still has to give

vars == <<stream, tracker, play, wire, truth, left>>

-----------------------------------------------------------------------------
Silence == -2
Zlp == -1
NoStart == -1
Unarmed == -1

NoGap == [counted |-> 0, unprimed |-> 0]
NoInterval == [valid |-> FALSE, behind |-> 0, missed |-> 0, unprimed |-> 0, latest |-> NoGap, skipped |-> 0, sampled |-> FALSE]
NoPlay(id) == [id |-> id, opens |-> 0, armed |-> FALSE, interrupted |-> FALSE, start |-> NoStart, file |-> 0, pending |-> 0,
               missed |-> 0, unprimed |-> 0, unconfirmed |-> FALSE, judged |-> FALSE, mismatched |-> FALSE]

Lost == truth.device + truth.host
Spent == stream.opens + truth.plays + Lost + truth.errors

Lesser(a, b) == IF a < b THEN a ELSE b
IndexReached(position, target) == (position - target) % Wrap < Wrap \div 2

(* Time, in half frames.  The watchdog's timer runs down to zero and is    *)
(* one-shot.                                                               *)
LongLoad == 3
ShortLoad == 2
NoTimer == [left |-> 0, expired |-> FALSE]
RunTimer(load) == [left |-> load, expired |-> FALSE]
TimerDown(t) ==
  IF t.left > 0 THEN [t EXCEPT !.left = @ - 1, !.expired = t.left = 1] ELSE t

-----------------------------------------------------------------------------
(* The chunks: has_room(), queue_chunk(), fill() and top_up().  A chunk    *)
(* takes file frames once the start is reached, while the player has some. *)
(* s is the stream with its FIFO, as [stream, play, fifo, left].           *)
HasRoom(s) == Len(s.stream.records) < Capacity /\ Len(s.fifo) < Target

(* A faulty form: the chunk at the start itself does not reach it.         *)
StartReachedAfter(s) == s.play.start # NoStart => s.stream.queued # s.play.start /\ IndexReached(s.stream.queued, s.play.start)

StartReached(s) == s.play.start # NoStart => IndexReached(s.stream.queued, s.play.start)
Fills(s) == s.play.armed /\ StartReached(s) /\ s.left > 0

QueueChunk(s) ==
  LET file == IF Fills(s) THEN 1 ELSE 0
  IN [stream |-> [s.stream EXCEPT !.records = Append(@, [start |-> s.stream.queued, file |-> file]), !.queued = (@ + 1) % Wrap],
      play |-> [s.play EXCEPT !.pending = @ + file, !.start = IF s.play.armed /\ StartReached(s) THEN NoStart ELSE @],
      fifo |-> Append(s.fifo, IF file = 1 THEN s.play.id ELSE Silence),
      left |-> s.left - file]

TopUp(s) ==
  LET topped[n \in 0..Target] == IF n = 0 THEN s ELSE IF HasRoom(topped[n - 1]) THEN QueueChunk(topped[n - 1]) ELSE topped[n - 1]
  IN topped[Target]

Becomes(s) == stream' = s.stream /\ play' = s.play /\ left' = s.left

-----------------------------------------------------------------------------
(* The stream opens and closes.  TinyUSB primes a zero-length packet       *)
(* before the pre-fill, and drops its FIFO with the endpoint.  What open() *)
(* clears is cleared at the close: nothing reads it while closed.          *)
EndStream(s) == [s EXCEPT !.state = "closed", !.records = << >>, !.inFlight = FALSE, !.sent = 0, !.queued = 0]
EndPlay(p) == [p EXCEPT !.pending = 0, !.judged = FALSE, !.start = NoStart, !.armed = FALSE, !.interrupted = @ \/ p.armed]
Unplugged == [fifo |-> << >>, loaded |-> Zlp, done |-> FALSE, behind |-> FALSE, timer |-> NoTimer, half |-> 0]
NothingSeen == [truth EXCEPT !.device = 0, !.host = 0, !.errors = 0, !.late = FALSE, !.base = FALSE, !.index = 0]

Configure(configured) ==
  /\ configured # stream.configured \/ stream.state # "closed"
  /\ stream' = [EndStream(stream) EXCEPT !.configured = configured]
  /\ play' = EndPlay(play)
  /\ left' = IF play.armed THEN 0 ELSE left
  /\ wire' = Unplugged /\ tracker' = NoInterval /\ truth' = NothingSeen

Open ==
  /\ stream.configured /\ Spent < Budget
  /\ LET s == TopUp([stream |-> [EndStream(stream) EXCEPT !.state = "priming", !.opens = @ + 1],
                     play |-> EndPlay(play), fifo |-> << >>, left |-> IF play.armed THEN 0 ELSE left])
     IN Becomes(s) /\ wire' = [Unplugged EXCEPT !.fifo = s.fifo]
  /\ tracker' = NoInterval /\ truth' = NothingSeen

Close ==
  /\ stream.state # "closed"
  /\ stream' = EndStream(stream) /\ play' = EndPlay(play)
  /\ left' = IF play.armed THEN 0 ELSE left
  /\ wire' = Unplugged /\ tracker' = NoInterval /\ truth' = NothingSeen

-----------------------------------------------------------------------------
(* The player's calls.  restart_play(): chunks queued for an earlier play  *)
(* carry no file frames for this one.                                      *)
(* A faulty form: the queued chunks keep their file frames.                *)
ForgetNothing(records) == records

Forget(records) == [i \in DOMAIN records |-> [records[i] EXCEPT !.file = 0]]

RestartPlay(opens, chunks) ==
  /\ ~play.armed /\ Spent < Budget
  /\ play' = [NoPlay(truth.plays + 1) EXCEPT !.opens = opens]
  /\ stream' = [stream EXCEPT !.records = Forget(@)]
  /\ truth' = [truth EXCEPT !.plays = @ + 1, !.sent = 0, !.target = NoStart, !.astray = FALSE, !.doubt = FALSE]
  /\ left' = chunks
  /\ UNCHANGED <<tracker, wire>>

AcceptPlay == stream.state # "closed" /\ RestartPlay(stream.opens, Unarmed)
ClearPlay == RestartPlay(play.opens, 0)

(* arm(): a start on another opening of the stream or one already passed   *)
(* is none.                                                                *)
Arm(start, opens) ==
  /\ left = Unarmed
  /\ IF stream.state = "closed" \/ stream.opens # play.opens
     THEN play' = [play EXCEPT !.interrupted = TRUE] /\ left' = 0 /\ UNCHANGED truth
     ELSE LET ahead == start # NoStart /\ opens = stream.opens /\ ~IndexReached(stream.queued, start)
          IN /\ play' = [play EXCEPT !.armed = TRUE, !.start = IF ahead THEN start ELSE NoStart]
             /\ truth' = [truth EXCEPT !.target = IF ahead THEN start ELSE NoStart]
             /\ left' = FileChunks
  /\ UNCHANGED <<stream, tracker, wire>>

Disarm ==
  /\ play.armed
  /\ play' = [play EXCEPT !.armed = FALSE] /\ left' = 0
  /\ UNCHANGED <<stream, tracker, wire, truth>>

-----------------------------------------------------------------------------
(* The missed intervals of a gap: missed_after_gap(), dealiased_gap() and  *)
(* unprimed_part().                                                        *)
(* A faulty form: a zero gap takes nothing back.                           *)
MissedNeverBack(missed, gap) == IF gap = 0 THEN missed ELSE missed + gap - 1

MissedAfterGap(missed, gap) == IF gap = 0 THEN (IF missed = 0 THEN 0 ELSE missed - 1) ELSE missed + gap - 1

(* A faulty form: the frame numbers alone tell the gap.                    *)
Aliased(aliased, ticks) == aliased

Dealiased(aliased, ticks) ==
  IF ticks =< aliased + Modulus \div 2 THEN aliased
  ELSE aliased + ((ticks - aliased + Modulus \div 2) \div Modulus) * Modulus

UnprimedPart(missed, skipped, sampled) == IF sampled THEN missed - Lesser(missed, skipped) ELSE 0

MovedWith(count, before, after) == IF after >= before THEN count + (after - before) ELSE count - Lesser(count, before - after)

(* take_back_latest_gap(): an unprimed interval of that gap goes first.    *)
TakeBack(t) ==
  LET part == IF t.latest.counted # 0 /\ t.latest.unprimed # 0 THEN 1 ELSE 0
      gap == [counted |-> t.latest.counted - 1, unprimed |-> t.latest.unprimed - part]
  IN IF t.latest.counted = 0 THEN t
     ELSE [t EXCEPT !.unprimed = @ - part, !.latest = IF gap.counted = 0 THEN NoGap ELSE gap]

(* count_missed() and locate_miss().                                       *)
CountMissed(t, elapsed, skipped, sampled) ==
  LET missed == MissedAfterGap(t.missed, elapsed)
      moves == skipped > missed - t.missed /\ t.latest.counted # 0
      moved == IF moves THEN TakeBack(t) ELSE t
      added == missed - t.missed + (IF moves THEN 1 ELSE 0)
      part == UnprimedPart(added, skipped, sampled)
  IN IF missed < t.missed THEN [TakeBack(t) EXCEPT !.missed = missed]
     ELSE IF added = 0 THEN [t EXCEPT !.missed = missed]
     ELSE [moved EXCEPT !.missed = missed, !.unprimed = @ + part, !.latest = [counted |-> added, unprimed |-> part]]

(* count_play_missed().                                                    *)
CountPlayMissed(p, elapsed, before, after) ==
  LET missed == MissedAfterGap(p.missed, elapsed)
  IN [p EXCEPT !.missed = missed, !.unconfirmed = missed > p.missed, !.unprimed = Lesser(MovedWith(@, before, after), missed)]

(* confirmed_missed().                                                     *)
ConfirmedMissed(p) == IF p.unconfirmed THEN MissedAfterGap(p.missed, 0) ELSE p.missed

(* A faulty form: the gap's samples stay for the next one.                 *)
KeepSamples(t) == [t EXCEPT !.behind = 0]

NewGap(t) == [t EXCEPT !.behind = 0, !.skipped = 0, !.sampled = FALSE]

(* track_interval() and judges_for_play(); skew is how far the ticks are   *)
(* from the frames.                                                        *)
TrackInterval(s, skew) ==
  LET t == s.tracker
      cleared == [s.play EXCEPT !.unconfirmed = FALSE]
      elapsed == Dealiased(t.behind % Modulus, t.behind + skew)
      judged == cleared.pending # 0 \/ (cleared.judged /\ elapsed = 0)
      counted == CountMissed(NewGap(t), elapsed, t.skipped, t.sampled)
  IN IF ~t.valid THEN [s EXCEPT !.tracker = [NoInterval EXCEPT !.valid = TRUE], !.play = cleared]
     ELSE [s EXCEPT !.tracker = counted,
                    !.play = IF judged THEN CountPlayMissed([cleared EXCEPT !.judged = TRUE], elapsed, t.unprimed, counted.unprimed)
                             ELSE [cleared EXCEPT !.judged = FALSE]]

-----------------------------------------------------------------------------
(* A completion: on_tx_done().  confirm_loaded() tells by the FIFO's level *)
(* whether the packet TinyUSB loaded at the completion before held a chunk;*)
(* the size the completion reports does not count (error: another size).   *)
(* A faulty form: only a completion of the packet's size confirms it.      *)
ConfirmReported(s, error) == IF s.stream.inFlight /\ ~error THEN 1 ELSE 0

ConfirmLoaded(s, error) == IF s.stream.inFlight THEN 1 ELSE 0

InFlight(s, confirmed) == (s.stream.queued - (s.stream.sent + confirmed)) % Wrap > Len(s.fifo)

(* retire_sent_chunks() and apply().                                       *)
Sent(s, record) == (s.stream.sent - record.start) % Wrap \in 1..Capacity

Apply(p, record) ==
  IF record.file = 0 THEN p
  ELSE [p EXCEPT !.file = @ + 1, !.pending = @ - Lesser(@, 1)]

RetireOldest(s) ==
  LET records == s.stream.records
  IN IF records = << >> \/ ~Sent(s, Head(records)) THEN s
     ELSE [s EXCEPT !.play = Apply(@, Head(records)), !.stream.records = Tail(records)]

Retire(s) ==
  LET retired[n \in 0..Capacity] == IF n = 0 THEN s ELSE RetireOldest(retired[n - 1]) IN retired[Capacity]

Commit(s, error, skew) ==
  LET confirmed == ConfirmLoaded(s, error)
      doubted == [s EXCEPT !.stream.inFlight = InFlight(s, confirmed), !.play.mismatched = @ \/ (error /\ s.play.pending # 0)]
      tracked == TrackInterval([doubted EXCEPT !.stream.state = "streaming"], skew)
  IN IF s.stream.state = "priming" /\ confirmed = 0 THEN doubted
     ELSE Retire([tracked EXCEPT !.stream.sent = (@ + confirmed) % Wrap])

-----------------------------------------------------------------------------
(* The USB interrupt: report_audio_watchdog() samples first, then TinyUSB  *)
(* handles the completion: it loads the next packet, and                   *)
(* tud_audio_tx_done_isr() restarts the watchdog and calls on_tx_done().   *)
Primed == ~wire.done

Sampled(t) ==
  IF stream.state # "streaming" THEN t
  ELSE IF Primed THEN [t EXCEPT !.skipped = @ + 1] ELSE [t EXCEPT !.sampled = TRUE]

Load(timer) == IF timer.left = 0 THEN ShortLoad ELSE LongLoad

Loaded == IF wire.fifo = << >> THEN Zlp ELSE Head(wire.fifo)

Sample ==
  /\ wire.timer.expired /\ Primed
  /\ tracker' = Sampled(tracker) /\ wire' = [wire EXCEPT !.timer = RunTimer(ShortLoad)]
  /\ UNCHANGED <<stream, play, truth, left>>

TxDone(error, skew) ==
  /\ wire.done
  /\ error => wire.loaded # Zlp /\ Spent < Budget
  /\ LET s == [stream |-> stream, play |-> play, left |-> left, fifo |-> IF wire.fifo = << >> THEN << >> ELSE Tail(wire.fifo),
               tracker |-> IF wire.timer.expired THEN Sampled(tracker) ELSE tracker]
         after == Commit(s, error, skew)
         topped == TopUp(after)
     IN /\ Becomes(topped) /\ tracker' = after.tracker
        /\ wire' = [wire EXCEPT !.fifo = topped.fifo, !.loaded = Loaded, !.done = FALSE, !.behind = FALSE,
                                !.timer = RunTimer(Load(@))]
        /\ truth' = [truth EXCEPT !.errors = IF error THEN @ + 1 ELSE @, !.doubt = @ \/ (error /\ wire.loaded = play.id),
                                  !.base = IF after.tracker.valid /\ ~tracker.valid THEN wire.behind ELSE @, !.late = FALSE]

Interrupt == Sample \/ \E error \in BOOLEAN, skew \in {-1, 1} : tracker.behind + skew >= 0 /\ TxDone(error, skew)

-----------------------------------------------------------------------------
(* The host and time.  A poll takes the packet that is primed.  A poll     *)
(* that finds none is the device's loss, a poll left out is the host's.    *)
Half == 1 - wire.half

Tick(polls) ==
  LET point == Half = PollHalf
      taken == polls /\ Primed
      chunk == taken /\ wire.loaded # Zlp
      file == taken /\ wire.loaded = play.id
      lost == point /\ tracker.valid /\ ~taken
  IN /\ stream.state # "closed"
     /\ polls => point
     /\ lost => Spent < Budget
     /\ wire' = [wire EXCEPT !.half = Half, !.timer = TimerDown(@), !.done = @ \/ taken, !.behind = @ \/ (Half = 0 /\ wire.done)]
     /\ tracker' = [tracker EXCEPT !.behind = IF Half = 0 /\ tracker.valid THEN @ + 1 ELSE @]
     /\ truth' = [truth EXCEPT !.index = IF chunk THEN (@ + 1) % Wrap ELSE @,
                               !.astray = @ \/ (file /\ truth.target \notin {NoStart, truth.index}),
                               !.target = IF file THEN NoStart ELSE @,
                               !.sent = IF file THEN @ + 1 ELSE @,
                               !.device = IF lost /\ polls THEN @ + 1 ELSE @,
                               !.host = IF lost /\ ~polls THEN @ + 1 ELSE @,
                               !.late = @ \/ wire.done \/ wire.timer.expired]
     /\ UNCHANGED <<stream, play, left>>

Init ==
  /\ stream = [state |-> "closed", configured |-> FALSE, opens |-> 0, queued |-> 0, sent |-> 0, inFlight |-> FALSE, records |-> << >>]
  /\ tracker = NoInterval /\ play = NoPlay(0) /\ left = 0
  /\ wire = Unplugged
  /\ truth = [plays |-> 0, sent |-> 0, index |-> 0, target |-> NoStart, astray |-> FALSE, device |-> 0, host |-> 0,
              late |-> FALSE, base |-> FALSE, errors |-> 0, doubt |-> FALSE]

PlayerCalls ==
  \/ AcceptPlay \/ ClearPlay \/ Disarm
  \/ \E ahead \in 0..Ahead, opens \in {stream.opens - 1, stream.opens} :
       Arm(IF ahead = 0 THEN NoStart ELSE (stream.queued + ahead) % Wrap, opens)

Next ==
  \/ \E configured \in BOOLEAN : Configure(configured)
  \/ Open \/ Close \/ PlayerCalls \/ Interrupt \/ \E polls \in BOOLEAN : Tick(polls)

Spec == Init /\ [][Next]_vars
-----------------------------------------------------------------------------
(* Types.                                                                  *)
Index == 0..Wrap - 1
UacTypeOK ==
  /\ stream.state \in {"closed", "priming", "streaming"} /\ stream.configured \in BOOLEAN /\ stream.inFlight \in BOOLEAN
  /\ stream.opens \in 0..Budget /\ stream.queued \in Index /\ stream.sent \in Index
  /\ Len(stream.records) =< Capacity
  /\ play.id \in 0..Budget /\ play.opens \in 0..Budget /\ play.start \in Index \cup {NoStart}
  /\ play.file \in 0..FileChunks /\ play.pending \in 0..Capacity /\ left \in {Unarmed} \cup 0..FileChunks

(* The records are the chunks TinyUSB still holds, in order: each stands   *)
(* for its chunk by index and by whether it carries the play's frames,     *)
(* whatever order opens, starts, losses and mismatched completions come    *)
(* in, and the play's pending frames are theirs.                           *)
RecordsMatchFifo ==
  stream.state # "closed" =>
    LET chunks == (IF wire.loaded = Zlp THEN << >> ELSE <<wire.loaded>>) \o wire.fifo
        records == stream.records
    IN /\ Len(records) = Len(chunks) /\ Len(wire.fifo) =< Target
       /\ stream.inFlight <=> wire.loaded # Zlp
       /\ stream.queued = (stream.sent + Len(records)) % Wrap
       /\ \A i \in DOMAIN records : /\ records[i].start = (stream.sent + i - 1) % Wrap
                                    /\ (records[i].file = 1) <=> (chunks[i] = play.id)
       /\ play.pending = Cardinality({i \in DOMAIN records : records[i].file = 1})
InStep == UacTypeOK /\ RecordsMatchFifo

(* What a play reports as sent was sent to the host, chunk for chunk but   *)
(* for a completion still to be handled, and the first of them at the      *)
(* scheduled index.  A mismatched completion of one of its packets marks   *)
(* the play.                                                               *)
Current == stream.state # "closed" /\ play.opens = stream.opens
PlayIsTrue ==
  /\ play.file =< truth.sent
  /\ Current => play.file = truth.sent - (IF wire.done /\ wire.loaded = play.id THEN 1 ELSE 0)
  /\ truth.doubt => play.mismatched
  /\ ~truth.astray

(* At every completion the missed intervals are the frames lost: never     *)
(* more when the completion is read in its own frame, at most one more     *)
(* when it is read late, and one fewer only when the first one was read    *)
(* late.  A play never counts more of them than its stream does, give or   *)
(* take a late read, and so confirms at most one that was not lost.        *)
Read == stream.state = "streaming" /\ wire.done /\ ~wire'.done /\ stream'.state = "streaming"
Hidden == IF truth.base THEN 1 ELSE 0
MissesCounted ==
  [][Read => /\ tracker'.missed \in Lost - Hidden..Lost + 1
             /\ ~wire.behind => tracker'.missed =< Lost
             /\ Current => play'.missed =< tracker'.missed + 1 /\ ConfirmedMissed(play') =< Lost + 1]_vars

(* The device is never blamed for less than it lost, and a gap in which    *)
(* no interrupt was held off adds nothing to its blame, whatever the host  *)
(* left out.  The part never exceeds the whole.                            *)
BlameIsFair ==
  [][Read => /\ truth.device =< tracker'.unprimed + Hidden
             /\ ~truth.late => tracker'.unprimed =< tracker.unprimed /\ (Current => play'.unprimed =< play.unprimed)
             /\ tracker'.unprimed =< tracker'.missed /\ play'.unprimed =< play'.missed]_vars

-----------------------------------------------------------------------------
(* The inductive invariant behind InStep and PlayIsTrue.                   *)

(* Every variable keeps its record type; counts of frames are any number.  *)
StreamType == [state : {"closed", "priming", "streaming"}, configured : BOOLEAN, opens : 0..Budget, queued : Index,
               sent : Index, inFlight : BOOLEAN, records : Seq([start : Index, file : 0..1])]
PlayType == [id : 0..Budget, opens : 0..Budget, armed : BOOLEAN, interrupted : BOOLEAN, start : Index \cup {NoStart},
             file : Nat, pending : Nat, missed : Int, unprimed : Int, unconfirmed : BOOLEAN, judged : BOOLEAN, mismatched : BOOLEAN]
TrackerType == [valid : BOOLEAN, behind : Int, missed : Int, unprimed : Int, latest : [counted : Int, unprimed : Int],
                skipped : Int, sampled : BOOLEAN]
Chunk == Nat \cup {Silence}
WireType == [fifo : Seq(Chunk), loaded : Chunk \cup {Zlp}, done : BOOLEAN, behind : BOOLEAN, timer : [left : Int, expired : BOOLEAN], half : 0..1]
TruthType == [plays : Nat, sent : Nat, index : Index, target : Index \cup {NoStart}, astray : BOOLEAN, device : Nat, host : Nat,
              late : BOOLEAN, base : BOOLEAN, errors : Nat, doubt : BOOLEAN]
UacTypes == /\ stream \in StreamType /\ play \in PlayType /\ tracker \in TrackerType /\ wire \in WireType /\ truth \in TruthType
            /\ left \in {Unarmed} \cup 0..FileChunks

(* A closed stream holds nothing: no chunk, no record, no armed play.      *)
ClosedHoldsNothing ==
  stream.state = "closed" => /\ stream.records = << >> /\ ~stream.inFlight /\ stream.sent = 0 /\ stream.queued = 0
                             /\ wire = Unplugged /\ truth.index = 0 /\ ~play.armed /\ play.pending = 0

(* No chunk is of a play still to come, no play of an opening still to     *)
(* come, and a play of an earlier opening has no chunk left.               *)
PlaysArePast ==
  /\ play.id = truth.plays /\ play.opens =< stream.opens
  /\ wire.loaded =< truth.plays /\ \A i \in DOMAIN wire.fifo : wire.fifo[i] =< truth.plays
  /\ play.opens # stream.opens => ~play.armed /\ play.pending = 0

(* The file's chunks are sent, pending or still to be given, each once;    *)
(* only an armed play has any to give.                                     *)
FileIsShared ==
  /\ left > 0 => play.armed
  /\ play.armed => left # Unarmed
  /\ left = Unarmed => play.file = 0 /\ play.pending = 0 /\ truth.target = NoStart
  /\ play.file + play.pending + (IF left > 0 THEN left ELSE 0) =< FileChunks

(* What the host has of this opening: the chunks retired, and the one it   *)
(* took last, until its completion is handled.                             *)
HostHasSent ==
  stream.state # "closed" => truth.index = (stream.sent + (IF wire.done /\ wire.loaded # Zlp THEN 1 ELSE 0)) % Wrap

(* A scheduled start is ahead of the stream or its very next chunk; and    *)
(* until the host takes the play's first chunk, that chunk is at the start *)
(* or still to be queued there.                                            *)
StartIsAhead ==
  play.armed /\ play.start # NoStart =>
    left > 0 /\ (play.start = stream.queued \/ ~IndexReached(stream.queued, play.start))
FirstAtTarget ==
  truth.target # NoStart =>
    /\ ~(wire.done /\ wire.loaded = play.id)
    /\ play.armed => IF play.start = NoStart THEN play.pending # 0 ELSE play.start = truth.target /\ play.pending = 0
    /\ \A i \in DOMAIN stream.records :
         stream.records[i].file = 1 /\ (\A j \in 1..i - 1 : stream.records[j].file = 0) => stream.records[i].start = truth.target

UacInv == /\ UacTypes /\ InStep /\ PlayIsTrue
          /\ ClosedHoldsNothing /\ PlaysArePast /\ FileIsShared /\ HostHasSent /\ StartIsAhead /\ FirstAtTarget
-----------------------------------------------------------------------------
(* The inductive invariant behind MissesCounted.                           *)

(* A frame is lost at its poll and elapses at its end: where the poll comes*)
(* second, the frame under way is the one in between.                      *)
Phase == IF PollHalf = 1 /\ wire.half = 0 THEN 1 ELSE 0

(* The lost frames that neither the count has nor the completion under way,*)
(* which takes the frames elapsed but for its own, is going to add.        *)
Uncounted == Lost + Phase + (IF wire.done THEN 1 ELSE 0) - tracker.missed - tracker.behind

(* There is at most the frame the first completion was read late by, and   *)
(* none before the stream has had one.                                     *)
StreamMisses ==
  /\ tracker.valid <=> stream.state = "streaming"
  /\ tracker.missed >= 0 /\ tracker.behind >= 0
  /\ IF tracker.valid THEN Uncounted \in 0..Hidden ELSE Lost = 0 /\ tracker.missed = 0 /\ tracker.behind = 0
  /\ wire.done /\ Phase = 1 => wire.behind

(* A play counts what its stream does from its first chunk on, and keeps   *)
(* its count when a late read that the stream takes back comes after its   *)
(* last one.                                                               *)
PlayMisses ==
  /\ play.missed >= 0
  /\ Current => play.missed =< (IF tracker.valid THEN Lost + 1 - Uncounted ELSE 0)
  /\ play.pending # 0 \/ play.judged => play.missed =< tracker.missed
  /\ left = Unarmed \/ (left > 0 /\ play.pending = 0) => play.missed = 0 /\ ~play.judged
  /\ play.armed /\ play.start # NoStart => play.pending = 0
MissInv == StreamMisses /\ PlayMisses
-----------------------------------------------------------------------------
(* The inductive invariant behind BlameIsFair.                             *)

(* The unprimed intervals are some of those counted, in the latest gap and *)
(* in the ones before it.                                                  *)
Parts(t) ==
  /\ 0 =< t.latest.unprimed /\ t.latest.unprimed =< t.latest.counted /\ t.latest.unprimed =< t.unprimed
  /\ t.unprimed - t.latest.unprimed =< t.missed - t.latest.counted
PartsFit == Parts(tracker) /\ ~tracker.sampled /\ tracker.skipped >= 0 /\ play.unprimed \in 0..play.missed

(* The watchdog's timer has at most the halves of a long load to go, and   *)
(* fewer when a packet waits: it is out by the next poll.                  *)
OffPoll == IF wire.half = PollHalf THEN 0 ELSE 1
TimerRuns ==
  /\ wire.timer.left \in 0..3 /\ (wire.timer.expired => wire.timer.left = 0)
  /\ tracker.valid => wire.timer.left > 0 \/ wire.timer.expired
  /\ wire.done => wire.timer.left =< 2 - OffPoll

(* In a gap that began in the half the host polls in, it is out before a   *)
(* packet could be taken in one frame and reported in the next.            *)
TimerIsShort == wire.timer.left =< (IF wire.done THEN 1 ELSE 3) - OffPoll

(* The gap since the last completion was handled: the frames lost in it by *)
(* the host and by the device, and Phase as it was then.  The device's     *)
(* losses before it are counted as unprimed but for an uncounted frame,    *)
(* and a frame counted early; the samples never outnumber the host's       *)
(* losses, and where each is handled in time they keep up with them, but   *)
(* for the Polls that are still to come before the timer runs out.         *)
Halves == wire.timer.left + OffPoll
Polls == IF Halves < 2 THEN 0 ELSE IF Halves < 4 THEN 1 ELSE 2
GapAccount(host, device, phase) ==
  /\ tracker.behind = host + device + (IF wire.done THEN 1 ELSE 0) + Phase - phase
  /\ phase =< PollHalf /\ (phase = 0 => TimerIsShort)
  /\ phase = 1 /\ tracker.missed > 0 => tracker.latest.counted > 0
  /\ truth.device - device + phase =< tracker.unprimed + Uncounted
  /\ device > 0 => wire.done /\ wire.timer.expired /\ truth.late
  /\ tracker.skipped =< host /\ (~wire.done => tracker.skipped < host + Polls)
  /\ ~truth.late /\ ~wire.done /\ Halves \in {0, 2, 4} => host + Polls =< tracker.skipped + 1 + phase
  /\ ~truth.late /\ wire.done => OffPoll = 0 /\ (wire.timer.expired => host =< tracker.skipped + phase)
GapAccounted ==
  IF tracker.valid THEN \E host, device \in 0..tracker.behind + 1, phase \in 0..1 : GapAccount(host, device, phase)
  ELSE tracker.unprimed = 0 /\ tracker.latest = NoGap /\ tracker.skipped = 0

BlameInv == PartsFit /\ TimerRuns /\ (PollHalf = 0 => TimerIsShort) /\ GapAccounted
=============================================================================
