------------------------------ MODULE Playlist ------------------------------
(***************************************************************************)
(* The player task's runs from the card (rt1170/player.cpp) and the        *)
(* playlist that sequences them (common/playlist.hpp): PLAY, PLAYLIST with *)
(* its gaps, its scheduled USB starts and its ring of result blocks, STOP, *)
(* FILES?, and the card the player mounts for them.                        *)
(*                                                                         *)
(* The player task takes one step at a time; between two of them the USB   *)
(* task may hand it a command, take a reply, give the card to the host, or *)
(* see the capture stream close and open, and a millisecond may pass, with *)
(* a packet of the stream or without.  The USB task has a lower priority,  *)
(* so it runs only where the player waits for the card or sleeps: what the *)
(* code does between two such points is one action here.                   *)
(*                                                                         *)
(* A packet (48 frames) is the unit of the stream and a tick the unit of   *)
(* time.  The stream index wraps after Wrap packets, as it does in the     *)
(* code after 2^32 frames; the code uses only differences of indices, so   *)
(* it is counted here from Base at the first packet of the last file on    *)
(* the stream, just before the wrap, and while something refers to it.     *)
(***************************************************************************)
EXTENDS Integers, Sequences, FiniteSets

CONSTANTS
  Lists,      \* the playlists on the card: sequences of [route, gap, len]
  PlayLen,    \* packets in the file PLAY plays
  RingCap,    \* result_capacity
  Wrap,       \* packets after which a stream index wraps
  Stall,      \* usb_stall_timeout, in ticks
  Slack,      \* schedule_slack, in ticks
  Patience,   \* packets between an item's last one and its index being used
  MaxOpens,   \* times the capture stream opens
  MaxRuns,    \* playlists and PLAYs accepted
  MaxFaults   \* card operations and outputs that fail

Routes == {"usb", "codec"}
Items == [route : Routes, gap : Nat, len : Nat \ {0}]

ASSUME PlaylistConstants ==
  /\ \A l \in Lists : l \in Seq(Items) /\ l # << >>
  /\ PlayLen \in Nat \ {0} /\ RingCap \in Nat \ {0} /\ Stall \in Nat /\ Slack \in Nat
  /\ Patience \in Nat /\ \A l \in Lists : \A i \in DOMAIN l : l[i].gap + Slack < Patience
  /\ Wrap \in Nat /\ 2 * (Patience + 2) =< Wrap

VARIABLES
  pc,     \* where the player task is
  list,   \* player_playlist(): the table, the progress and the two requests
  ring,   \* results: the blocks kept and the next number
  run,    \* the run's flags, its state and the route
  card,   \* who has the card, what is mounted, and the cleanups that wait
  gap,    \* GapWait
  play,   \* usb_audio::PlayStatistics and what the output FIFO still holds
  stream, \* the capture stream
  clock,  \* ticks and packets since the moments the code or a property measures from
  mail,   \* the mailbox while a command waits in it: "stop", "late" for another one, or "none"
  runs, faults

vars == <<pc, list, ring, run, card, gap, play, stream, clock, mail, runs, faults>>

-----------------------------------------------------------------------------
NoStart == -1
Base == Wrap - 2
NoGap == [on |-> FALSE, opens |-> 0, end |-> 0, length |-> 0, clean |-> FALSE]
NoPlay == [armed |-> FALSE, interrupted |-> FALSE, stalled |-> FALSE, opens |-> 0,
           start |-> NoStart, sent |-> 0, left |-> 0, ahead |-> FALSE]

AtLeast(n, cap) == IF n < cap THEN n + 1 ELSE cap

(* usb_audio::index_reached().                                             *)
IndexReached(position, target) == (position - target) % Wrap < Wrap \div 2

(* A clock that runs on past what is asked of it stays at its cap.         *)
Later == [clock EXCEPT !.ticks = AtLeast(@, Patience), !.still = AtLeast(@, Stall + 1)]
Unasked == [ticks |-> Patience, still |-> Stall + 1, quiet |-> Patience]

(* same_open_stream().                                                     *)
SameOpenStream == stream.open /\ stream.opens = gap.opens

Full == Len(ring.blocks) = RingCap
Pending == stream.loaded = "file"
Faulted == run.fault # "none"

(* stopped_state(), with no preparation.                                   *)
Stopped == ~run.busy /\ ~card.owned

(* Where service_player_command() is called.                               *)
ServicePoints == {"idle", "mounted", "produce", "await", "gap", "lastgap"}
Serving == pc \in ServicePoints \/ (pc = "room" /\ Full /\ ~list.stop)

Spend == faults < MaxFaults /\ faults' = faults + 1

-----------------------------------------------------------------------------
(* The capture stream (usb_audio.cpp) as the player sees it.  One chunk    *)
(* waits loaded; the chunk filled next starts one packet after the one     *)
(* being sent.                                                             *)
Closed(p) == IF p.armed THEN [p EXCEPT !.armed = FALSE, !.interrupted = TRUE, !.start = NoStart] ELSE [p EXCEPT !.start = NoStart]

HostOpens ==
  /\ stream.opens < MaxOpens
  /\ stream' = [open |-> TRUE, opens |-> stream.opens + 1, sent |-> 0, loaded |-> "silence"]
  /\ play' = Closed(play)
  /\ clock' = [clock EXCEPT !.still = IF pc = "idle" THEN @ ELSE 0, !.quiet = Patience]
  /\ UNCHANGED <<pc, list, ring, run, card, gap, mail, runs, faults>>

HostCloses ==
  /\ stream.open
  /\ stream' = [stream EXCEPT !.open = FALSE, !.loaded = "silence", !.sent = 0]
  /\ play' = Closed(play)
  /\ UNCHANGED <<pc, list, ring, run, card, gap, clock, mail, runs, faults>>

(* A faulty form: the start is compared with the packet sent last.         *)
FillsLate == play.armed /\ ~Faulted /\ ~run.stop /\ play.left > 0
             /\ (play.start # NoStart => IndexReached(stream.sent, play.start))

(* A chunk takes file frames once its start is reached, while none of the  *)
(* ends of a play holds (consume_output()).                                *)
Fills == play.armed /\ ~Faulted /\ ~run.stop /\ play.left > 0
         /\ (play.start # NoStart => IndexReached((stream.sent + 1) % Wrap, play.start))

Indexed == (play.opens = stream.opens /\ play.sent > 0) \/ gap.opens = stream.opens

(* A packet goes out and the next chunk is filled (UacStream::on_tx_done). *)
SendPacket ==
  LET file == stream.loaded = "file"
      counted == IF file THEN [play EXCEPT !.sent = @ + 1] ELSE play
      index == IF file /\ play.sent = 0 THEN Base ELSE stream.sent
  IN /\ stream' = [stream EXCEPT !.sent = IF file \/ Indexed THEN (index + 1) % Wrap ELSE 0, !.loaded = IF Fills THEN "file" ELSE "silence"]
     /\ play' = [counted EXCEPT !.stalled = @ \/ (play.armed /\ clock.still > Stall),
                                !.left = IF Fills THEN @ - 1 ELSE @,
                                !.start = IF Fills THEN NoStart ELSE @,
                                !.ahead = IF Fills THEN play.start # NoStart \/ (play.ahead /\ play.left < run.len) ELSE @]
     /\ clock' = [Later EXCEPT !.still = 0, !.quiet = IF stream.loaded # "silence" THEN 0 ELSE AtLeast(@, Patience)]

(* The steps, the pauses of the ring among them, that use a stream index   *)
(* planned from the last item, or will plan one: they take less than half  *)
(* the range of the index.                                                 *)
NeedsIndex ==
  \/ pc \in {"await", "flush", "clean"} /\ play.sent > 0
  \/ pc \notin {"idle", "await", "flush", "clean"} /\ gap.opens # 0

Millisecond(packet) ==
  /\ pc # "idle" /\ (pc = "room" => Full)
  /\ IF packet
     THEN stream.open /\ (NeedsIndex => clock.quiet < Patience) /\ SendPacket
     ELSE clock' = Later /\ UNCHANGED <<stream, play>>
  /\ UNCHANGED <<pc, list, ring, run, card, gap, mail, runs, faults>>

(* The codec takes a block, the last one among them.                       *)
CodecDrains ==
  /\ pc = "await" /\ run.route = "codec" /\ play.left > 0
  /\ play' = [play EXCEPT !.left = 0]
  /\ UNCHANGED <<pc, list, ring, run, card, gap, stream, clock, mail, runs, faults>>

-----------------------------------------------------------------------------
(* Commands.  service_player_command() takes the one in the mailbox and    *)
(* answers it; a refused one changes nothing and has no step here.  A      *)
(* command that comes while the player measures a second source, or checks *)
(* a playlist, waits: the poll there has seen it, and any but STOP is then *)
(* refused as busy.                                                        *)
Admits == Serving /\ mail = "none" /\ ~card.cleanup

(* stop_command().  A cleanup that waits is tried again: it ends, or it    *)
(* fails once more where it did or at the step after.                      *)
ServeStop ==
  /\ Serving /\ mail \in {"none", "stop"}
  /\ mail' = "none"
  /\ IF card.cleanup
     THEN /\ \/ card' = [card EXCEPT !.owned = FALSE, !.mounted = FALSE, !.cleanup = FALSE, !.primary = FALSE] /\ UNCHANGED faults
             \/ Spend /\ \E primary \in {card.primary, FALSE} : card' = [card EXCEPT !.primary = primary]
          /\ UNCHANGED <<list, run>>
     ELSE /\ list' = [list EXCEPT !.stop = @ \/ list.owns]
          /\ run' = [run EXCEPT !.stop = @ \/ run.busy]
          /\ UNCHANGED <<card, faults>>
  /\ UNCHANGED <<pc, ring, gap, play, stream, clock, runs>>

(* acknowledge_results(): from the oldest block on, while its number is    *)
(* seq or below.                                                           *)
ServeAck(seq) ==
  /\ Admits
  /\ \E freed \in 0..Len(ring.blocks) :
       /\ \A i \in 1..freed : ring.blocks[i].seq =< seq
       /\ freed < Len(ring.blocks) => ring.blocks[freed + 1].seq > seq
       /\ ring' = [ring EXCEPT !.blocks = SubSeq(@, freed + 1, Len(@))]
  /\ UNCHANGED <<pc, list, run, card, gap, play, stream, clock, mail, runs, faults>>

(* LOAD: reset_selection().                                                *)
ServeLoad ==
  /\ Admits /\ Stopped /\ ~list.owns
  /\ run' = [run EXCEPT !.state = "waiting"]
  /\ UNCHANGED <<pc, list, ring, card, gap, play, stream, clock, mail, runs, faults>>

(* accept_files(): the card is mounted and released; an unmount that fails *)
(* keeps it until FILES? comes again.                                      *)
ServeFiles ==
  /\ Admits /\ ~list.owns /\ ~run.busy /\ card.media = "local" /\ (card.owned => card.listing)
  /\ \/ card' = [card EXCEPT !.owned = FALSE, !.mounted = FALSE, !.listing = FALSE] /\ UNCHANGED faults
     \/ Spend /\ card' = [card EXCEPT !.owned = TRUE, !.mounted = TRUE, !.listing = TRUE]
  /\ UNCHANGED <<pc, list, ring, run, gap, play, stream, clock, mail, runs>>

(* begin_run(), with the output accepted (accept_output()); a USB item on  *)
(* the stream of the gap before it keeps that gap's end as its target.     *)
BeginRun(route, len, start) ==
  /\ gap' = IF route = "usb" /\ SameOpenStream THEN gap ELSE [gap EXCEPT !.opens = 0, !.end = 0]
  /\ clock' = [clock EXCEPT !.ticks = Patience]
  /\ run' = [state |-> "busy", busy |-> TRUE, stop |-> FALSE, fault |-> "none", route |-> route, start |-> start, len |-> len]
  /\ play' = [NoPlay EXCEPT !.opens = IF route = "usb" THEN stream.opens ELSE 0, !.left = len]
  /\ stream' = [stream EXCEPT !.sent = IF gap'.opens = 0 THEN 0 ELSE @]
  /\ pc' = "mount"

(* accept_play_command(); the task's loop runs it next.                    *)
ServePlay ==
  /\ Admits /\ Stopped /\ ~list.owns /\ run.state = "waiting" /\ card.media = "local"
  /\ run.route = "usb" => stream.open
  /\ runs < MaxRuns
  /\ BeginRun(run.route, PlayLen, NoStart)
  /\ runs' = runs + 1
  /\ UNCHANGED <<list, ring, card, mail, faults>>

(* accept_playlist(): load_playlist() mounts the card, checks the file and *)
(* every item, and releases the card, then begin_playlist() starts it; or  *)
(* the check refuses, as it does on STOP, or a close or the unmount fails  *)
(* and holds the card.  A command that came meanwhile is in the mailbox.   *)
ServePlaylist(items, continue) ==
  /\ Admits /\ Stopped /\ ~list.owns /\ card.media = "local"
  /\ runs < MaxRuns
  /\ \/ /\ list' = [items |-> items, state |-> "running", index |-> 1, completed |-> 0, failed |-> 0,
                    continue |-> continue, owns |-> TRUE, stop |-> FALSE, first |-> ring.next]
        /\ pc' = "room" /\ gap' = NoGap /\ runs' = runs + 1 /\ mail' \in {"none", "late"}
        /\ UNCHANGED <<card, faults>>
     \/ mail' \in {"none", "late", "stop"} /\ UNCHANGED <<list, pc, gap, card, runs, faults>>
     \/ /\ Spend /\ mail' \in {"none", "late", "stop"}
        /\ \E primary \in BOOLEAN : card' = [card EXCEPT !.owned = TRUE, !.mounted = TRUE, !.cleanup = TRUE, !.primary = primary]
        /\ UNCHANGED <<list, pc, gap, runs>>
  /\ run' = [run EXCEPT !.stop = FALSE]
  /\ UNCHANGED <<ring, play, stream, clock>>

(* The command the poll saw, refused.                                      *)
RefuseLate ==
  /\ Serving /\ mail = "late"
  /\ mail' = "none"
  /\ UNCHANGED <<pc, list, ring, run, card, gap, play, stream, clock, runs, faults>>

-----------------------------------------------------------------------------
(* run_player().  A fault ends the run; the first one is its error.        *)
Latch(e) == [run EXCEPT !.fault = IF @ = "none" THEN e ELSE @]

(* stop_output() disarms a play, then waits for what it had queued.        *)
StopOutput == pc' = "flush" /\ play' = [play EXCEPT !.armed = FALSE]

MountCard ==
  /\ pc = "mount"
  /\ \/ card.media = "local" /\ card' = [card EXCEPT !.owned = TRUE, !.mounted = TRUE] /\ pc' = "mounted" /\ UNCHANGED <<run, play, faults>>
     \/ Spend /\ run' = Latch("mount") /\ StopOutput /\ UNCHANGED card
  /\ UNCHANGED <<list, ring, gap, stream, clock, mail, runs>>

(* The file opens and passes its checks, the scenario loads and the        *)
(* reference is measured.  A second source is measured in bounded reads    *)
(* that look at the mailbox (poll_secondary_source_command()).             *)
LoadFile ==
  /\ mail = "none" /\ pc = "mounted"
  /\ IF run.stop THEN StopOutput /\ UNCHANGED <<run, mail, faults>>
     ELSE \/ pc' = "produce" /\ mail' \in {"none", "late"} /\ UNCHANGED <<run, play, faults>>
          \/ mail' = "stop" /\ run' = [run EXCEPT !.stop = TRUE] /\ StopOutput /\ UNCHANGED faults
          \/ Spend /\ run' = Latch("card") /\ StopOutput /\ UNCHANGED mail
  /\ UNCHANGED <<list, ring, card, gap, stream, clock, runs>>

(* start_output(): UacStream::arm() takes a start on this stream that is   *)
(* still to come; the stream accepted for the play must still be open.     *)
Arms ==
  LET ahead == run.start # NoStart /\ gap.opens = stream.opens /\ ~IndexReached((stream.sent + 1) % Wrap, run.start)
  IN play' = [play EXCEPT !.armed = TRUE, !.start = IF ahead THEN run.start ELSE NoStart]

StartOutput ==
  /\ mail = "none" /\ pc = "produce"
  /\ IF run.stop THEN StopOutput /\ UNCHANGED <<run, clock, faults>>
     ELSE IF run.route = "codec" THEN
       \/ pc' = "await" /\ UNCHANGED <<run, play, clock, faults>>
       \/ Spend /\ run' = Latch("codec") /\ StopOutput /\ UNCHANGED clock
     ELSE IF stream.open /\ stream.opens = play.opens
     THEN Arms /\ pc' = "await" /\ clock' = [clock EXCEPT !.still = 0] /\ UNCHANGED <<run, faults>>
     ELSE /\ run' = Latch("usb_stream_closed") /\ pc' = "flush" /\ play' = [play EXCEPT !.interrupted = TRUE]
          /\ UNCHANGED <<clock, faults>>
  /\ UNCHANGED <<list, ring, card, gap, stream, mail, runs>>

(* usb_sink_fault().                                                       *)
Delivered == play.left = 0 /\ ~Pending /\ (run.route = "usb" => play.sent = run.len)
SinkFault ==
  IF run.route = "codec" THEN "none"
  ELSE IF play.interrupted /\ ~Delivered THEN "usb_stream_closed"
  ELSE IF play.stalled \/ (play.armed /\ clock.still > Stall) THEN "usb_stall" ELSE "none"

(* The producer's loop and await_output_end(), with their checks: STOP, a  *)
(* fault of the sink or another one, or the drained end of the file.       *)
AwaitOutputEnd ==
  /\ mail = "none" /\ pc = "await"
  /\ \/ run.stop /\ UNCHANGED <<run, faults>>
     \/ ~run.stop /\ SinkFault # "none" /\ run' = Latch(SinkFault) /\ UNCHANGED faults
     \/ ~run.stop /\ SinkFault = "none" /\ Delivered /\ UNCHANGED <<run, faults>>
     \/ Spend /\ run' = Latch("playing")
  /\ StopOutput
  /\ UNCHANGED <<list, ring, card, gap, stream, clock, mail, runs>>

(* wait_for_queued_frames() and judge_usb_delivery().                      *)
FlushOutput ==
  /\ pc = "flush"
  /\ \/ ~Pending /\ (UNCHANGED <<run, faults>> \/ (play.sent > 0 /\ Spend /\ run' = Latch("usb_unconfirmed")))
     \/ Pending /\ clock.still > Stall /\ run' = Latch("usb_stall") /\ UNCHANGED faults
  /\ pc' = "clean"
  /\ UNCHANGED <<list, ring, card, gap, play, stream, clock, mail, runs>>

-----------------------------------------------------------------------------
(* The sequencer.                                                          *)
EndedList(l, state) == [l EXCEPT !.state = state, !.owns = FALSE, !.stop = FALSE, !.index = IF state = "done" THEN Len(l.items) + 1 ELSE @]

(* A faulty form: a STOP counts only through the item it ends.             *)
EndAfterForgetsStop(outcome) ==
  IF outcome = "aborted" THEN "aborted" ELSE IF outcome = "error" /\ ~list.continue THEN "error" ELSE "none"

(* end_after().                                                            *)
EndAfter(outcome) ==
  IF list.stop \/ outcome = "aborted" THEN "aborted"
  ELSE IF outcome = "error" /\ ~list.continue THEN "error" ELSE "none"

(* begin_gap(): the stream index where the gap after the item ends, or a   *)
(* gap in ticks.  clean: every frame of the item was confirmed sent.       *)
GapAfter(item, outcome, p) ==
  LET usb == item.route = "usb" /\ p.sent > 0
  IN [on |-> TRUE, length |-> item.gap, clean |-> outcome = "done",
      opens |-> IF usb THEN p.opens ELSE 0,
      end |-> IF usb THEN (Base + p.sent + item.gap) % Wrap ELSE 0]

Rests == pc' = "idle" /\ gap' = NoGap /\ clock' = Unasked

(* record_result(), then the end of run_item(): the playlist ends, or the  *)
(* gap after the item begins and the next item's turn comes.               *)
EndItem(outcome, p, held) ==
  LET item == list.items[list.index]
      block == [seq |-> ring.next, item |-> list.index, outcome |-> outcome]
      counted == [list EXCEPT !.completed = @ + 1, !.failed = IF outcome = "error" THEN @ + 1 ELSE @]
      ends == IF held THEN "error" ELSE EndAfter(outcome)
  IN IF Full THEN list' = EndedList(list, "error") /\ Rests /\ UNCHANGED ring
     ELSE /\ ring' = [ring EXCEPT !.blocks = Append(@, block), !.next = @ + 1]
          /\ IF ends # "none"
             THEN list' = EndedList(counted, ends) /\ Rests
             ELSE /\ list' = [counted EXCEPT !.state = "gap", !.index = @ + 1]
                  /\ gap' = GapAfter(item, outcome, p)
                  /\ clock' = [clock EXCEPT !.ticks = 0, !.still = 0]
                  /\ pc' = IF list.index = Len(list.items) THEN "lastgap" ELSE "room"

(* cleanup_player_run(): the second source and the file are closed and the *)
(* card is released, unless one of them fails; the run ends in the same    *)
(* critical section.  A playlist item's block follows (record_play()); a   *)
(* chunk of the play sent later counts for no other one.                   *)
RunOutcome == IF Faulted THEN "error" ELSE IF run.stop THEN "aborted" ELSE "done"

Released == [card EXCEPT !.owned = FALSE, !.mounted = FALSE]
Held == [card EXCEPT !.owned = TRUE, !.mounted = TRUE, !.cleanup = TRUE]

Finish(outcome, held) ==
  /\ run' = [run EXCEPT !.busy = FALSE, !.stop = FALSE, !.start = NoStart, !.fault = "none", !.len = 0,
                        !.state = IF outcome = "error" THEN "fault" ELSE outcome]
  /\ play' = [NoPlay EXCEPT !.opens = play.opens]
  /\ stream' = [stream EXCEPT !.loaded = IF @ = "file" THEN "old" ELSE @]
  /\ IF list.owns THEN EndItem(outcome, play, held) ELSE Rests /\ UNCHANGED <<list, ring>>

CleanupRun ==
  /\ pc = "clean"
  /\ \/ card' = Released /\ Finish(RunOutcome, FALSE) /\ UNCHANGED faults
     \/ /\ Spend /\ card.mounted
        /\ \E primary \in BOOLEAN : card' = [Held EXCEPT !.primary = primary]
        /\ Finish("error", TRUE)
  /\ UNCHANGED <<mail, runs>>

(* play_item(): the item's route, then, unless its output refuses it, its  *)
(* run.  Without an open stream a USB item plays nothing.                  *)
PlayItem(start) ==
  LET item == list.items[list.index]
  IN IF item.route = "usb" /\ ~stream.open
     THEN EndItem("error", NoPlay, FALSE) /\ run' = [run EXCEPT !.route = "usb"] /\ UNCHANGED <<play, stream>>
     ELSE /\ BeginRun(item.route, item.len, start)
          /\ list' = [list EXCEPT !.state = "running"]
          /\ UNCHANGED ring

(* A faulty form: an item plays whether or not its block has room.         *)
HasRoomUnasked == TRUE

(* wait_for_result_room().                                                 *)
HasRoom == ~Full

PauseForRing ==
  /\ pc = "room" /\ Full
  /\ IF list.stop THEN list' = EndedList(list, "aborted") /\ Rests
     ELSE list' = [list EXCEPT !.state = "paused_ring_full"] /\ list' # list /\ UNCHANGED <<pc, gap, clock>>
  /\ UNCHANGED <<ring, run, card, play, stream, mail, runs, faults>>

(* plan_start(): a USB item after frames on the stream still open starts   *)
(* for the index its gap ends at, unless the ticks say it is long past;    *)
(* any other one waits for the end of the gap.                             *)
ScheduledHere == gap.opens # 0 /\ SameOpenStream /\ list.items[list.index].route = "usb"

PlanStart ==
  /\ pc = "room" /\ HasRoom /\ ~list.stop
  /\ IF ~gap.on THEN PlayItem(NoStart)
     ELSE IF ScheduledHere
     THEN PlayItem(IF clock.ticks =< gap.length + Slack THEN gap.end ELSE NoStart)
     ELSE pc' = "gap" /\ list' = [list EXCEPT !.state = "gap"] /\ clock' = [clock EXCEPT !.still = 0] /\ UNCHANGED <<ring, gap, run, play, stream>>
  /\ UNCHANGED <<card, mail, runs, faults>>

(* A faulty form: the gap is counted on a stream that does not move.       *)
GapPassedOnStream ==
  IF gap.opens # 0 /\ SameOpenStream
  THEN IndexReached(stream.sent, gap.end) ELSE clock.ticks >= gap.length

(* gap_left(): in stream frames while that stream is open and moves, else  *)
(* in ticks from the item's end.                                           *)
GapPassed ==
  IF gap.opens # 0 /\ SameOpenStream /\ clock.still =< Stall
  THEN IndexReached(stream.sent, gap.end) ELSE clock.ticks >= gap.length

(* wait_gap() ends on STOP or at the end of the gap.                       *)
GapStopped ==
  /\ pc \in {"gap", "lastgap"} /\ list.stop
  /\ list' = EndedList(list, "aborted") /\ Rests
  /\ UNCHANGED <<ring, run, card, play, stream, mail, runs, faults>>

GapEnds ==
  /\ mail = "none" /\ pc = "gap" /\ ~list.stop /\ GapPassed
  /\ PlayItem(NoStart)
  /\ UNCHANGED <<card, mail, runs, faults>>

(* finish_last_gap().                                                      *)
LastGapEnds ==
  /\ mail = "none" /\ pc = "lastgap" /\ ~list.stop /\ GapPassed
  /\ list' = EndedList(list, "done") /\ Rests
  /\ UNCHANGED <<ring, run, card, play, stream, mail, runs, faults>>

-----------------------------------------------------------------------------
(* A faulty form: the card is free between two items.                      *)
AllowsMediaHostInGaps == ~card.owned /\ ~run.busy /\ mail = "none"

(* player_allows_media_host(), asked by the USB task between two commands. *)
AllowsMediaHost == ~card.owned /\ ~run.busy /\ mail = "none" /\ ~list.owns

MediaHost ==
  /\ card.media = "local" /\ AllowsMediaHost
  /\ card' = [card EXCEPT !.media = "host"]
  /\ UNCHANGED <<pc, list, ring, run, gap, play, stream, clock, mail, runs, faults>>

MediaLocal ==
  /\ card.media = "host" /\ mail = "none"
  /\ card' = [card EXCEPT !.media = "local"]
  /\ UNCHANGED <<pc, list, ring, run, gap, play, stream, clock, mail, runs, faults>>

Init ==
  /\ pc = "idle" /\ mail = "none" /\ runs = 0 /\ faults = 0
  /\ list = [items |-> << >>, state |-> "idle", index |-> 0, completed |-> 0, failed |-> 0,
             continue |-> FALSE, owns |-> FALSE, stop |-> FALSE, first |-> 1]
  /\ ring = [blocks |-> << >>, next |-> 1]
  /\ run = [state |-> "waiting", busy |-> FALSE, stop |-> FALSE, fault |-> "none", route |-> "codec", start |-> NoStart, len |-> 0]
  /\ card = [media |-> "local", owned |-> FALSE, mounted |-> FALSE, cleanup |-> FALSE, primary |-> FALSE, listing |-> FALSE]
  /\ gap = NoGap /\ play = NoPlay
  /\ stream = [open |-> FALSE, opens |-> 0, sent |-> 0, loaded |-> "silence"]
  /\ clock = Unasked

Serve ==
  \/ ServeLoad \/ ServeFiles \/ ServePlay
  \/ \E items \in Lists, continue \in BOOLEAN : ServePlaylist(items, continue)
  \/ \E seq \in 1..ring.next - 1 : ServeAck(seq)

PlayerStep ==
  \/ MountCard \/ LoadFile \/ StartOutput \/ AwaitOutputEnd \/ FlushOutput \/ CleanupRun \/ RefuseLate
  \/ PauseForRing \/ PlanStart \/ GapStopped \/ GapEnds \/ LastGapEnds

Next ==
  \/ PlayerStep \/ CodecDrains \/ MediaHost \/ MediaLocal \/ HostOpens \/ HostCloses
  \/ Serve \/ ServeStop
  \/ \E packet \in BOOLEAN : Millisecond(packet)

(* The player task runs whenever it can, the codec takes its blocks and    *)
(* time passes; the host owes no packet and no command.                    *)
Fairness == WF_vars(PlayerStep) /\ WF_vars(mail = "stop" /\ ServeStop) /\ WF_vars(CodecDrains) /\ WF_vars(Millisecond(FALSE))

Spec == Init /\ [][Next]_vars /\ Fairness
-----------------------------------------------------------------------------
(* The types, and the points of the player task that own a run or a list.  *)
ItemPoints == {"room", "gap", "lastgap"}
RunPoints == {"mount", "mounted", "produce", "await", "flush", "clean"}

TypeOK ==
  /\ pc \in {"idle"} \cup ItemPoints \cup RunPoints
  /\ list.state \in {"idle", "running", "gap", "paused_ring_full", "done", "aborted", "error"}
  /\ run.state \in {"waiting", "busy", "done", "aborted", "fault"}
  /\ run.busy <=> pc \in RunPoints
  /\ pc \in ItemPoints => list.owns
  /\ stream.sent \in 0..Wrap - 1 /\ gap.end \in 0..Wrap - 1
  /\ play.left + play.sent =< run.len

(* No result block is dropped, repeated or out of place: the ring holds    *)
(* consecutive numbers up to the last one, an item's block is the one its  *)
(* place in the list calls for, a run in progress has room for its block,  *)
(* and a list is done only when every item has one (record_result(),       *)
(* wait_for_result_room(), acknowledge_results()).                         *)
ResultsKept ==
  /\ TypeOK
  /\ \A i \in DOMAIN ring.blocks : ring.blocks[i].seq = ring.next - Len(ring.blocks) + i - 1
  /\ \A i \in DOMAIN ring.blocks :
       ring.blocks[i].seq >= list.first => ring.blocks[i].item = ring.blocks[i].seq - list.first + 1
  /\ list.items # << >> => list.completed = ring.next - list.first
  /\ list.owns /\ pc \in RunPoints => ~Full /\ list.index = list.completed + 1
  /\ list.state = "done" => list.completed = Len(list.items)

(* The host has the card only while the player neither has it mounted nor  *)
(* may mount it for a run or for the next item, and an idle player keeps   *)
(* the card only for a cleanup that a command tries again                  *)
(* (player_allows_media_host(), cleanup_player_run()).                     *)
CardStays ==
  /\ card.media = "host" => ~card.mounted /\ ~card.owned /\ ~run.busy /\ ~list.owns
  /\ pc \in {"idle"} \cup ItemPoints /\ card.owned => pc = "idle" /\ (card.cleanup \/ card.listing)

(* An item armed for the index its predecessor's gap ends at sends its     *)
(* first packet no earlier, and exactly there when it was armed ahead of   *)
(* it; one that waits for the gap begins once it has passed on the stream  *)
(* or, where that does not count, on the tick clock (begin_gap(),          *)
(* plan_start(), start_output()).                                          *)
FirstPacket == play.sent = 0 /\ play'.sent = 1
GapKept == [][
  /\ FirstPacket /\ run.start # NoStart /\ gap.clean /\ SameOpenStream =>
       clock.quiet >= gap.length /\ (play.ahead => clock.quiet = gap.length)
  /\ pc = "gap" /\ pc' = "mount" => clock.ticks >= gap.length \/ (SameOpenStream /\ clock.quiet >= gap.length)]_vars

(* After STOP no later item begins, and the list ends as aborted, or in    *)
(* error if the card could not be released, whatever the item under way    *)
(* ended in (stop_command(), end_after()).                                 *)
StopIsLast == [][
  list.owns /\ list.stop =>
    /\ pc' = "mount" => pc = "mount"
    /\ ~list'.owns => list'.state = (IF card'.cleanup THEN "error" ELSE "aborted")]_vars

(* A run or a list ends, or waits for PLAYLIST ACK, whether or not the     *)
(* host keeps polling the stream; one that STOP reached ends               *)
(* (wait_for_queued_frames(), StreamProgress, wait_for_result_room()).     *)
Settles == (pc # "idle" ~> pc = "idle" \/ (pc = "room" /\ Full)) /\ (list.stop \/ run.stop ~> pc = "idle")

-----------------------------------------------------------------------------
(* "A USB item after a USB item, on the capture stream the earlier one     *)
(* played on and still open, starts exactly" at its index or, not ready by *)
(* then, later (docs/live-control-protocol.md:997).                        *)
NeverEarly == [][FirstPacket /\ gap.clean /\ SameOpenStream => clock.quiet >= gap.length]_vars
-----------------------------------------------------------------------------
(* The inductive invariant behind ResultsKept, CardStays and StopIsLast:   *)
(* what the records hold, what each point of the player task owns, where   *)
(* the list stands against the numbers given out, and the card that only   *)
(* an idle player keeps.                                                   *)
Outcomes == {"done", "aborted", "error"}
Failures == {"none", "mount", "card", "codec", "usb_stream_closed", "usb_stall", "playing", "usb_unconfirmed"}
Blocks == [seq : Int, item : Int, outcome : Outcomes]
ListType == [items : Lists \cup {<< >>}, index : Nat, completed : Nat, failed : Nat, continue : BOOLEAN, owns : BOOLEAN,
             stop : BOOLEAN, first : Nat, state : {"idle", "running", "gap", "paused_ring_full", "done", "aborted", "error"}]
RunType == [state : {"waiting", "busy", "done", "aborted", "fault"}, busy : BOOLEAN, stop : BOOLEAN, fault : Failures,
            route : Routes, start : Int, len : Nat]
CardType == [media : {"local", "host"}, owned : BOOLEAN, mounted : BOOLEAN, cleanup : BOOLEAN, primary : BOOLEAN,
             listing : BOOLEAN]
GapType == [on : BOOLEAN, opens : Nat, end : 0..Wrap - 1, length : Nat, clean : BOOLEAN]
PlayType == [armed : BOOLEAN, interrupted : BOOLEAN, stalled : BOOLEAN, opens : Nat, start : Int, sent : Nat, left : Nat,
             ahead : BOOLEAN]
StreamType == [open : BOOLEAN, opens : Nat, sent : 0..Wrap - 1, loaded : {"silence", "file", "old"}]

RecordsTyped ==
  /\ pc \in {"idle"} \cup ItemPoints \cup RunPoints
  /\ list \in ListType /\ ring \in [blocks : Seq(Blocks), next : Nat \ {0}]
  /\ run \in RunType /\ card \in CardType /\ gap \in GapType /\ play \in PlayType /\ stream \in StreamType

(* The points of the task, and the packets of the file not sent yet, the   *)
(* loaded one among them.                                                  *)
PointsFit ==
  /\ (run.busy <=> pc \in RunPoints) /\ (~run.busy => run.len = 0)
  /\ (pc \in ItemPoints => list.owns) /\ (list.owns => pc # "idle")
  /\ play.left + play.sent + (IF Pending THEN 1 ELSE 0) =< run.len

(* The ring, and the list's place in it.                                   *)
RingFits ==
  /\ Len(ring.blocks) =< RingCap
  /\ \A i \in DOMAIN ring.blocks :
       /\ ring.blocks[i].seq = ring.next - Len(ring.blocks) + i - 1
       /\ ring.blocks[i].seq >= list.first => ring.blocks[i].item = ring.blocks[i].seq - list.first + 1
ListFits ==
  /\ list.items # << >> => list.completed = ring.next - list.first
  /\ list.owns => /\ list.items # << >> /\ list.index = list.completed + 1
                  /\ IF pc = "lastgap" THEN list.completed = Len(list.items) ELSE list.completed < Len(list.items)
                  /\ pc \in RunPoints \cup {"gap"} => ~Full
  /\ list.state = "done" => list.completed = Len(list.items)

CardFits ==
  /\ card.mounted = card.owned /\ (card.cleanup => card.owned /\ pc = "idle")
  /\ card.media = "host" => ~card.owned /\ ~run.busy /\ ~list.owns
  /\ card.owned /\ pc \notin RunPoints => pc = "idle" /\ (card.cleanup \/ card.listing)

PlaylistInv == RecordsTyped /\ PointsFit /\ RingFits /\ ListFits /\ CardFits

(* The inductive invariant behind GapKept, besides PlaylistInv.            *)
ClockType == [ticks : 0..Patience, still : 0..Stall + 1, quiet : 0..Patience]

(* No gap or play is of an opening still to come, and what is armed or     *)
(* loaded is of the open one.                                              *)
OpeningsArePast ==
  /\ gap.opens =< stream.opens /\ play.opens =< stream.opens
  /\ stream.open => stream.opens > 0
  /\ stream.loaded # "silence" => stream.open
  /\ play.armed \/ Pending => stream.open /\ play.opens = stream.opens
  /\ pc = "idle" => gap.opens = 0
  /\ gap.opens # 0 => gap.length < Patience

(* A play's packets follow each other without a break, from its output's   *)
(* start to the end of its run.                                            *)
OutputPoints == {"await", "flush", "clean"}
PlayIsUnbroken ==
  /\ pc \notin OutputPoints => play.sent = 0 /\ ~play.ahead /\ ~Pending
  /\ play.armed => pc = "await" /\ run.route = "usb"
  /\ pc \in {"mount", "mounted", "produce"} => play.left > 0
  /\ pc \notin {"flush", "clean"} => ~Faulted
  /\ pc = "clean" /\ Pending => Faulted
  /\ play.sent > 0 \/ Pending => play.start = NoStart
  /\ play.sent > 0 => stream.loaded # "old"
  /\ play.sent > 0 /\ ~Pending => ~play.armed \/ Faulted \/ run.stop \/ play.left = 0

(* Once a play has begun, the stream is as far past its first packet as    *)
(* packets were counted.                                                   *)
PlayTimed ==
  play.sent > 0 /\ stream.open /\ play.opens = stream.opens =>
    /\ stream.sent = (Base + play.sent + clock.quiet) % Wrap
    /\ Pending => clock.quiet = 0

(* In a gap on the stream, the stream is n packets past the item's last    *)
(* one.  A chunk of the item that was still loaded as it ended starts the  *)
(* count of quiet packets anew, but not that of ticks.                     *)
Past(n) == (stream.sent + gap.length) % Wrap = (gap.end + n) % Wrap
Counted(n) ==
  \/ n = clock.quiet /\ (stream.loaded = "old" => n = 0 /\ ~gap.clean)
  \/ ~gap.clean /\ stream.loaded # "old" /\ n =< clock.quiet + 1 /\ (n =< clock.ticks \/ clock.ticks = Patience)
GapTimed ==
  gap.opens # 0 /\ SameOpenStream /\ pc \notin OutputPoints => \E n \in 0..Patience + 1 : Past(n) /\ Counted(n)

(* A play that is to start where a gap ends: before its first packet is    *)
(* loaded, and until it is sent.                                           *)
Scheduled == run.start # NoStart /\ gap.clean /\ SameOpenStream /\ play.sent = 0
StartTimed ==
  /\ run.start # NoStart => run.start = gap.end /\ gap.opens # 0 /\ run.busy
  /\ Scheduled /\ Pending => clock.quiet >= gap.length /\ (play.ahead => clock.quiet = gap.length)
  /\ Scheduled /\ play.armed /\ ~Pending /\ ~run.stop =>
       /\ play.left > 0 /\ stream.loaded # "old" /\ ~play.ahead
       /\ IF play.start = NoStart THEN clock.quiet + 1 >= gap.length
          ELSE play.start = gap.end /\ Past(clock.quiet) /\ clock.quiet < gap.length

GapInv == clock \in ClockType /\ OpeningsArePast /\ PlayIsUnbroken /\ PlayTimed /\ GapTimed /\ StartTimed
=============================================================================
