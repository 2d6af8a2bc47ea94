--------------------------- MODULE Playlist_proofs ---------------------------
(***************************************************************************)
(* Proofs about Playlist: the result blocks, the card, STOP and the gaps,  *)
(* for every playlist, ring and stream, however commands and packets       *)
(* interleave.                                                             *)
(***************************************************************************)
EXTENDS Playlist, SequenceTheorems, TLAPS

LEMMA WrapIsPositive == Wrap \in Nat /\ Wrap > 3
BY PlaylistConstants

LEMMA IndexWraps ==
  ASSUME NEW n \in Int
  PROVE  n % Wrap \in 0..Wrap - 1
BY WrapIsPositive

LEMMA NoPlayTyped == NoPlay \in PlayType /\ NoPlay.left = 0 /\ NoPlay.sent = 0
BY DEF NoPlay, PlayType, NoStart

LEMMA NoGapTyped == NoGap \in GapType /\ NoGap.opens = 0
BY WrapIsPositive DEF NoGap, GapType

-----------------------------------------------------------------------------
THEOREM PlaylistStarts == Init => PlaylistInv
<1> SUFFICES ASSUME Init PROVE PlaylistInv
  OBVIOUS
<1>1. RecordsTyped
  <2>1. list \in ListType
    BY DEF Init, ListType
  <2>2. ring \in [blocks : Seq(Blocks), next : Nat \ {0}]
    BY DEF Init
  <2>3. run \in RunType
    BY DEF Init, RunType, Failures, Routes, NoStart
  <2>4. card \in CardType
    BY DEF Init, CardType
  <2>5. stream \in StreamType
    BY WrapIsPositive DEF Init, StreamType
  <2> QED BY <2>1, <2>2, <2>3, <2>4, <2>5, NoPlayTyped, NoGapTyped DEF Init, RecordsTyped
<1>2. PointsFit
  <2>1. ~Pending
    BY DEF Init, Pending
  <2>2. play.left = 0 /\ play.sent = 0 /\ run.len = 0 /\ run.busy = FALSE /\ ~list.owns /\ pc = "idle"
    BY NoPlayTyped DEF Init
  <2>3. pc \notin RunPoints /\ pc \notin ItemPoints
    BY <2>2 DEF RunPoints, ItemPoints
  <2>4. run.busy <=> pc \in RunPoints
    BY <2>2, <2>3
  <2>5. play.left + play.sent + (IF Pending THEN 1 ELSE 0) =< run.len
    BY <2>1, <2>2
  <2> QED BY <2>2, <2>3, <2>4, <2>5 DEF PointsFit
<1>3. RingFits
  BY PlaylistConstants DEF Init, RingFits
<1>4. ListFits
  BY DEF Init, ListFits
<1>5. CardFits
  BY DEF Init, CardFits
<1> QED BY <1>1, <1>2, <1>3, <1>4, <1>5 DEF PlaylistInv

-----------------------------------------------------------------------------
(* Steps that leave the list, the ring, the run and the card alone: only   *)
(* what is typed and the packets not sent yet have to be looked at.        *)
LEMMA StreamStepKeeps ==
  ASSUME PlaylistInv, UNCHANGED <<pc, list, ring, run, card, gap>>,
         play' \in PlayType, stream' \in StreamType,
         play'.left + play'.sent + (IF stream'.loaded = "file" THEN 1 ELSE 0) =< run.len
  PROVE  PlaylistInv'
<1>1. RecordsTyped'
  BY DEF PlaylistInv, RecordsTyped
<1>2. PointsFit'
  BY DEF PlaylistInv, PointsFit, Pending
<1>3. RingFits'
  BY DEF PlaylistInv, RingFits
<1>4. ListFits'
  BY DEF PlaylistInv, ListFits, Full
<1>5. CardFits'
  BY DEF PlaylistInv, CardFits
<1> QED BY <1>1, <1>2, <1>3, <1>4, <1>5 DEF PlaylistInv

LEMMA ClosedFacts ==
  ASSUME NEW p \in PlayType
  PROVE  Closed(p) \in PlayType /\ Closed(p).left = p.left /\ Closed(p).sent = p.sent
<1> DEFINE a == [p EXCEPT !.armed = FALSE, !.interrupted = TRUE, !.start = NoStart]
           b == [p EXCEPT !.start = NoStart]
<1>1. NoStart \in Int
  BY DEF NoStart
<1>2. a \in PlayType /\ a.left = p.left /\ a.sent = p.sent
  BY <1>1 DEF PlayType
<1>3. b \in PlayType /\ b.left = p.left /\ b.sent = p.sent
  BY <1>1 DEF PlayType
<1>4. Closed(p) = IF p.armed THEN a ELSE b
  BY DEF Closed
<1> HIDE DEF a, b
<1> QED BY <1>2, <1>3, <1>4

LEMMA HostOpensKeeps ==
  ASSUME PlaylistInv, HostOpens
  PROVE  PlaylistInv'
<1>1. play \in PlayType /\ stream \in StreamType /\ run.len \in Nat
  BY DEF PlaylistInv, RecordsTyped, RunType
<1>2. play' = Closed(play) /\ UNCHANGED <<pc, list, ring, run, card, gap>>
  BY DEF HostOpens
<1>3. stream' = [open |-> TRUE, opens |-> stream.opens + 1, sent |-> 0, loaded |-> "silence"]
  BY DEF HostOpens
<1>4. stream' \in StreamType /\ stream'.loaded = "silence"
  BY <1>1, <1>3, WrapIsPositive DEF StreamType
<1>5. play' \in PlayType /\ play'.left = play.left /\ play'.sent = play.sent
  BY <1>1, <1>2, ClosedFacts
<1>6. play.left + play.sent =< run.len
  BY <1>1 DEF PlaylistInv, PointsFit, PlayType
<1> QED BY <1>1, <1>2, <1>4, <1>5, <1>6, StreamStepKeeps DEF PlayType

LEMMA HostClosesKeeps ==
  ASSUME PlaylistInv, HostCloses
  PROVE  PlaylistInv'
<1>1. play \in PlayType /\ stream \in StreamType /\ run.len \in Nat
  BY DEF PlaylistInv, RecordsTyped, RunType
<1>2. play' = Closed(play) /\ UNCHANGED <<pc, list, ring, run, card, gap>>
  BY DEF HostCloses
<1>3. stream' = [stream EXCEPT !.open = FALSE, !.loaded = "silence", !.sent = 0]
  BY DEF HostCloses
<1>4. stream' \in StreamType /\ stream'.loaded = "silence"
  <2>1. 0 \in 0..Wrap - 1
    BY WrapIsPositive
  <2> QED BY <1>1, <1>3, <2>1 DEF StreamType
<1>5. play' \in PlayType /\ play'.left = play.left /\ play'.sent = play.sent
  BY <1>1, <1>2, ClosedFacts
<1>6. play.left + play.sent =< run.len
  BY <1>1 DEF PlaylistInv, PointsFit, PlayType
<1> QED BY <1>1, <1>2, <1>4, <1>5, <1>6, StreamStepKeeps DEF PlayType

(* A packet of the file leaves the loaded chunk, and another may take its  *)
(* place there.                                                            *)
LEMMA SendPacketFacts ==
  ASSUME NEW n \in Nat, play \in PlayType, stream \in StreamType, SendPacket,
         play.left + play.sent + (IF stream.loaded = "file" THEN 1 ELSE 0) =< n
  PROVE  /\ play' \in PlayType /\ stream' \in StreamType
         /\ play'.left + play'.sent + (IF stream'.loaded = "file" THEN 1 ELSE 0) =< n
<1> DEFINE file == stream.loaded = "file"
           counted == IF file THEN [play EXCEPT !.sent = @ + 1] ELSE play
           index == IF file /\ play.sent = 0 THEN Base ELSE stream.sent
           sends == IF file \/ Indexed THEN (index + 1) % Wrap ELSE 0
           stalls == counted.stalled \/ (play.armed /\ clock.still > Stall)
           leaves == IF Fills THEN counted.left - 1 ELSE counted.left
           begins == IF Fills THEN NoStart ELSE counted.start
           leads == IF Fills THEN play.start # NoStart \/ (counted.ahead /\ counted.left < run.len) ELSE counted.ahead
<1>1. counted \in PlayType /\ counted.left = play.left
  BY DEF PlayType
<1>2. counted.sent = play.sent + (IF file THEN 1 ELSE 0)
  BY DEF PlayType
<1>3. index \in Int
  BY WrapIsPositive DEF Base, StreamType
<1>4. sends \in 0..Wrap - 1
  BY <1>3, IndexWraps, WrapIsPositive
<1>5. stream' = [stream EXCEPT !.sent = sends, !.loaded = IF Fills THEN "file" ELSE "silence"]
  BY DEF SendPacket
<1>6. play' = [counted EXCEPT !.stalled = stalls, !.left = leaves, !.start = begins, !.ahead = leads]
  BY DEF SendPacket
<1>7. Fills => play.left > 0
  BY DEF Fills
<1> HIDE DEF counted, index, sends
<1>8. leaves \in Nat
  BY <1>1, <1>7 DEF PlayType
<1>9. begins \in Int
  BY <1>1 DEF PlayType, NoStart
<1>10. stalls \in BOOLEAN /\ leads \in BOOLEAN
  BY <1>1 DEF PlayType
<1>11. leaves = play.left - (IF Fills THEN 1 ELSE 0)
  BY <1>1 DEF PlayType
<1> HIDE DEF stalls, leaves, begins, leads
<1>12. play' \in PlayType /\ play'.left = leaves /\ play'.sent = counted.sent
  BY <1>1, <1>6, <1>8, <1>9, <1>10 DEF PlayType
<1>13. stream' \in StreamType /\ (stream'.loaded = "file" <=> Fills)
  BY <1>4, <1>5 DEF StreamType
<1> HIDE DEF file
<1>14. play'.left + play'.sent + (IF stream'.loaded = "file" THEN 1 ELSE 0) = play.left + play.sent + (IF file THEN 1 ELSE 0)
  BY <1>2, <1>11, <1>12, <1>13 DEF PlayType
<1> QED BY <1>12, <1>13, <1>14 DEF file

LEMMA MillisecondKeeps ==
  ASSUME PlaylistInv, NEW packet \in BOOLEAN, Millisecond(packet)
  PROVE  PlaylistInv'
<1>1. play \in PlayType /\ stream \in StreamType /\ run.len \in Nat
  BY DEF PlaylistInv, RecordsTyped, RunType
<1>2. UNCHANGED <<pc, list, ring, run, card, gap>>
  BY DEF Millisecond
<1>3. play.left + play.sent + (IF stream.loaded = "file" THEN 1 ELSE 0) =< run.len
  BY DEF PlaylistInv, PointsFit, Pending
<1>4. CASE packet
  <2>1. SendPacket
    BY <1>4 DEF Millisecond
  <2> QED BY <1>1, <1>2, <1>3, <2>1, SendPacketFacts, StreamStepKeeps
<1>5. CASE ~packet
  <2>1. UNCHANGED <<stream, play>>
    BY <1>5 DEF Millisecond
  <2> QED BY <1>1, <1>2, <1>3, <2>1, StreamStepKeeps
<1> QED BY <1>4, <1>5

LEMMA CodecDrainsKeeps ==
  ASSUME PlaylistInv, CodecDrains
  PROVE  PlaylistInv'
<1>1. play \in PlayType /\ stream \in StreamType /\ run.len \in Nat
  BY DEF PlaylistInv, RecordsTyped, RunType
<1>2. UNCHANGED <<pc, list, ring, run, card, gap, stream>> /\ play' = [play EXCEPT !.left = 0]
  BY DEF CodecDrains
<1>3. play.left + play.sent + (IF stream.loaded = "file" THEN 1 ELSE 0) =< run.len
  BY DEF PlaylistInv, PointsFit, Pending
<1>4. play' \in PlayType /\ play'.left = 0 /\ play'.sent = play.sent
  BY <1>1, <1>2 DEF PlayType
<1>5. play'.left + play'.sent + (IF stream'.loaded = "file" THEN 1 ELSE 0) =< run.len
  BY <1>1, <1>2, <1>3, <1>4 DEF PlayType
<1> QED BY <1>1, <1>2, <1>4, <1>5, StreamStepKeeps

-----------------------------------------------------------------------------
(* Steps that leave the ring and the list's place in it alone, and keep    *)
(* the player where it is or within its run.                               *)
SamePlace ==
  list'.items = list.items /\ list'.index = list.index /\ list'.completed = list.completed
  /\ list'.owns = list.owns /\ list'.first = list.first /\ list'.state = list.state

LEMMA RunStepKeeps ==
  ASSUME PlaylistInv, UNCHANGED <<ring, gap, stream>>, list' \in ListType, SamePlace,
         pc' = pc \/ (pc \in RunPoints /\ pc' \in RunPoints),
         run' \in RunType, run'.busy = run.busy, run'.len = run.len,
         play' \in PlayType, play'.left = play.left, play'.sent = play.sent,
         card' \in CardType, CardFits'
  PROVE  PlaylistInv'
<1>1. RecordsTyped'
  BY DEF PlaylistInv, RecordsTyped
<1>2. PointsFit'
  <2>1. pc' \in RunPoints <=> pc \in RunPoints
    OBVIOUS
  <2>2. (pc' \in ItemPoints <=> pc \in ItemPoints) /\ (pc' = "idle" <=> pc = "idle")
    BY DEF RunPoints, ItemPoints
  <2>3. play'.left + play'.sent + (IF Pending' THEN 1 ELSE 0) =< run'.len
    BY DEF PlaylistInv, PointsFit, Pending
  <2>4. run'.busy <=> run.busy
    OBVIOUS
  <2>5. list'.owns <=> list.owns
    BY DEF SamePlace
  <2> QED BY <2>1, <2>2, <2>3, <2>4, <2>5 DEF PlaylistInv, PointsFit
<1>3. RingFits'
  BY DEF PlaylistInv, RingFits, SamePlace
<1>4. ListFits'
  <2>1. (pc' = "lastgap" <=> pc = "lastgap") /\ (pc' \in RunPoints \cup {"gap"} <=> pc \in RunPoints \cup {"gap"})
    BY DEF RunPoints
  <2>2. Full' <=> Full
    BY DEF Full
  <2>3. list'.owns <=> list.owns
    BY DEF SamePlace
  <2> QED BY <2>1, <2>2, <2>3 DEF PlaylistInv, ListFits, SamePlace
<1> QED BY <1>1, <1>2, <1>3, <1>4 DEF PlaylistInv

(* What PlaylistInv says of the records, and of a list that stands still.  *)
LEMMA TypedFacts ==
  ASSUME PlaylistInv
  PROVE  /\ list \in ListType /\ run \in RunType /\ card \in CardType /\ play \in PlayType /\ stream \in StreamType
         /\ gap \in GapType /\ CardFits /\ ring.blocks \in Seq(Blocks) /\ ring.next \in Nat \ {0}
         /\ pc \in {"idle"} \cup ItemPoints \cup RunPoints
BY DEF PlaylistInv, RecordsTyped

LEMMA SamePlaceHolds == UNCHANGED list => SamePlace
BY DEF SamePlace

LEMMA LatchFacts ==
  ASSUME NEW e \in Failures, run \in RunType
  PROVE  Latch(e) \in RunType /\ Latch(e).busy = run.busy /\ Latch(e).len = run.len
<1> DEFINE f == IF run.fault = "none" THEN e ELSE run.fault
<1>1. f \in Failures
  BY DEF RunType
<1>2. Latch(e) = [run EXCEPT !.fault = f]
  BY DEF Latch
<1> HIDE DEF f
<1> QED BY <1>1, <1>2 DEF RunType

LEMMA StopOutputFacts ==
  ASSUME play \in PlayType, StopOutput
  PROVE  pc' \in RunPoints /\ play' \in PlayType /\ play'.left = play.left /\ play'.sent = play.sent
BY DEF StopOutput, PlayType, RunPoints

LEMMA SinkFaultFails == SinkFault \in Failures
BY DEF SinkFault, Failures

(* Within a run the card keeps what the run's points allow.                *)
LEMMA CardStands ==
  ASSUME PlaylistInv, UNCHANGED card, pc \in RunPoints, pc' \in RunPoints, run'.busy = run.busy, UNCHANGED list
  PROVE  card' \in CardType /\ CardFits'
<1>1. pc # "idle" /\ pc' # "idle"
  BY DEF RunPoints
<1> QED BY <1>1, TypedFacts DEF CardFits

LEMMA MountCardKeeps ==
  ASSUME PlaylistInv, MountCard
  PROVE  PlaylistInv'
<1>1. UNCHANGED <<list, ring, gap, stream>> /\ pc = "mount" /\ pc \in RunPoints /\ pc # "idle"
  BY DEF MountCard, RunPoints
<1>2. CASE /\ card.media = "local" /\ card' = [card EXCEPT !.owned = TRUE, !.mounted = TRUE]
           /\ pc' = "mounted" /\ UNCHANGED <<run, play>>
  <2>1. /\ card' \in CardType /\ card'.owned /\ card'.mounted = card'.owned /\ card'.media = "local"
        /\ card'.cleanup = card.cleanup
    BY <1>2, TypedFacts DEF CardType
  <2>2. pc' \in RunPoints
    BY <1>2 DEF RunPoints
  <2>3. ~card'.cleanup
    BY <1>1, <2>1, TypedFacts DEF CardFits
  <2>4. CardFits'
    BY <2>1, <2>2, <2>3 DEF CardFits
  <2> QED BY <1>1, <1>2, <2>1, <2>2, <2>4, RunStepKeeps, TypedFacts, SamePlaceHolds
<1>3. CASE run' = Latch("mount") /\ StopOutput /\ UNCHANGED card
  <2>1. "mount" \in Failures
    BY DEF Failures
  <2>2. run' \in RunType /\ run'.busy = run.busy /\ run'.len = run.len
    BY <1>3, <2>1, LatchFacts, TypedFacts
  <2>3. pc' \in RunPoints /\ play' \in PlayType /\ play'.left = play.left /\ play'.sent = play.sent
    BY <1>3, StopOutputFacts, TypedFacts
  <2> QED BY <1>1, <1>3, <2>2, <2>3, CardStands, RunStepKeeps, TypedFacts, SamePlaceHolds
<1> QED BY <1>2, <1>3 DEF MountCard

(* The other steps of a run stop it, fail it, arm it or go on with it.     *)
LEMMA RunGoesOn ==
  ASSUME PlaylistInv, UNCHANGED <<list, ring, gap, stream, card>>, pc \in RunPoints, pc' \in RunPoints,
         run' \in RunType, run'.busy = run.busy, run'.len = run.len,
         play' \in PlayType, play'.left = play.left, play'.sent = play.sent
  PROVE  PlaylistInv'
BY CardStands, RunStepKeeps, TypedFacts, SamePlaceHolds

LEMMA RunStops ==
  ASSUME PlaylistInv, UNCHANGED <<list, ring, gap, stream, card>>, pc \in RunPoints, StopOutput,
         run' = run \/ (\E e \in Failures : run' = Latch(e)) \/ run' = [run EXCEPT !.stop = TRUE]
  PROVE  PlaylistInv'
<1>1. CASE run' = [run EXCEPT !.stop = TRUE]
  <2>1. run' \in RunType /\ run'.busy = run.busy /\ run'.len = run.len
    BY <1>1, TypedFacts DEF RunType
  <2> QED BY <2>1, StopOutputFacts, RunGoesOn, TypedFacts
<1>2. CASE \E e \in Failures : run' = Latch(e)
  BY <1>2, LatchFacts, StopOutputFacts, RunGoesOn, TypedFacts
<1>3. CASE run' = run
  BY <1>3, StopOutputFacts, RunGoesOn, TypedFacts
<1> QED BY <1>1, <1>2, <1>3

LEMMA LoadFileKeeps ==
  ASSUME PlaylistInv, LoadFile
  PROVE  PlaylistInv'
<1>1. UNCHANGED <<list, ring, gap, stream, card>> /\ pc \in RunPoints
  BY DEF LoadFile, RunPoints
<1>2. "card" \in Failures
  BY DEF Failures
<1>3. CASE StopOutput
  <2>1. run' = run \/ run' = Latch("card") \/ run' = [run EXCEPT !.stop = TRUE]
    BY <1>3 DEF LoadFile
  <2> QED BY <1>1, <1>2, <1>3, <2>1, RunStops
<1>4. CASE pc' = "produce" /\ UNCHANGED <<run, play>>
  <2>1. pc' \in RunPoints
    BY <1>4 DEF RunPoints
  <2> QED BY <1>1, <1>4, <2>1, RunGoesOn, TypedFacts
<1> QED BY <1>3, <1>4 DEF LoadFile

LEMMA ArmsFacts ==
  ASSUME play \in PlayType, run \in RunType, Arms
  PROVE  play' \in PlayType /\ play'.left = play.left /\ play'.sent = play.sent
<1> DEFINE ahead == run.start # NoStart /\ gap.opens = stream.opens /\ ~IndexReached((stream.sent + 1) % Wrap, run.start)
           start == IF ahead THEN run.start ELSE NoStart
<1>1. start \in Int
  BY DEF RunType, NoStart
<1>2. play' = [play EXCEPT !.armed = TRUE, !.start = start]
  BY DEF Arms
<1> HIDE DEF start
<1> QED BY <1>1, <1>2 DEF PlayType

LEMMA StartOutputKeeps ==
  ASSUME PlaylistInv, StartOutput
  PROVE  PlaylistInv'
<1>1. UNCHANGED <<list, ring, gap, stream, card>> /\ pc \in RunPoints
  BY DEF StartOutput, RunPoints
<1>2. "codec" \in Failures /\ "usb_stream_closed" \in Failures
  BY DEF Failures
<1>3. CASE StopOutput /\ (run' = run \/ run' = Latch("codec"))
  BY <1>1, <1>2, <1>3, RunStops
<1>4. CASE pc' = "await" /\ UNCHANGED run /\ (Arms \/ UNCHANGED play)
  <2>1. pc' \in RunPoints
    BY <1>4 DEF RunPoints
  <2>2. play' \in PlayType /\ play'.left = play.left /\ play'.sent = play.sent
    BY <1>4, ArmsFacts, TypedFacts
  <2> QED BY <1>1, <1>4, <2>1, <2>2, RunGoesOn, TypedFacts
<1>5. CASE /\ run' = Latch("usb_stream_closed") /\ pc' = "flush" /\ play' = [play EXCEPT !.interrupted = TRUE]
  <2>1. pc' \in RunPoints
    BY <1>5 DEF RunPoints
  <2>2. play' \in PlayType /\ play'.left = play.left /\ play'.sent = play.sent
    BY <1>5, TypedFacts DEF PlayType
  <2> QED BY <1>1, <1>2, <1>5, <2>1, <2>2, LatchFacts, RunGoesOn, TypedFacts
<1> QED BY <1>3, <1>4, <1>5 DEF StartOutput

LEMMA AwaitOutputEndKeeps ==
  ASSUME PlaylistInv, AwaitOutputEnd
  PROVE  PlaylistInv'
<1>1. UNCHANGED <<list, ring, gap, stream, card>> /\ pc \in RunPoints /\ StopOutput
  BY DEF AwaitOutputEnd, RunPoints
<1>2. "playing" \in Failures
  BY DEF Failures
<1>3. run' = run \/ run' = Latch(SinkFault) \/ run' = Latch("playing")
  BY DEF AwaitOutputEnd
<1> QED BY <1>1, <1>2, <1>3, SinkFaultFails, RunStops

LEMMA FlushOutputKeeps ==
  ASSUME PlaylistInv, FlushOutput
  PROVE  PlaylistInv'
<1>1. UNCHANGED <<list, ring, gap, stream, card, play>> /\ pc \in RunPoints /\ pc' \in RunPoints
  BY DEF FlushOutput, RunPoints
<1>2. "usb_unconfirmed" \in Failures /\ "usb_stall" \in Failures
  BY DEF Failures
<1>3. run' = run \/ run' = Latch("usb_unconfirmed") \/ run' = Latch("usb_stall")
  BY DEF FlushOutput
<1> QED BY <1>1, <1>2, <1>3, LatchFacts, RunGoesOn, TypedFacts

-----------------------------------------------------------------------------
(* Commands and media requests that begin nothing.                         *)
LEMMA ServeLoadKeeps ==
  ASSUME PlaylistInv, ServeLoad
  PROVE  PlaylistInv'
<1>1. UNCHANGED <<pc, list, ring, card, gap, play, stream>> /\ run' = [run EXCEPT !.state = "waiting"]
  BY DEF ServeLoad
<1>2. run' \in RunType /\ run'.busy = run.busy /\ run'.len = run.len
  BY <1>1, TypedFacts DEF RunType
<1>3. CardFits'
  BY <1>1, <1>2, TypedFacts DEF CardFits
<1> QED BY <1>1, <1>2, <1>3, RunStepKeeps, TypedFacts, SamePlaceHolds

LEMMA RefuseLateKeeps ==
  ASSUME PlaylistInv, RefuseLate
  PROVE  PlaylistInv'
<1>1. UNCHANGED <<pc, list, ring, run, card, gap, play, stream>>
  BY DEF RefuseLate
<1>2. CardFits'
  BY <1>1, TypedFacts DEF CardFits
<1> QED BY <1>1, <1>2, RunStepKeeps, TypedFacts, SamePlaceHolds

LEMMA CardStepKeeps ==
  ASSUME PlaylistInv, UNCHANGED <<pc, list, ring, run, gap, play, stream>>, card' \in CardType, CardFits'
  PROVE  PlaylistInv'
BY RunStepKeeps, TypedFacts, SamePlaceHolds

(* A player that neither runs nor owns a list is idle.                     *)
LEMMA IdleFacts ==
  ASSUME PlaylistInv, ~run.busy, ~list.owns
  PROVE  pc = "idle"
BY TypedFacts DEF PlaylistInv, PointsFit

LEMMA ServeFilesKeeps ==
  ASSUME PlaylistInv, ServeFiles
  PROVE  PlaylistInv'
<1>1. UNCHANGED <<pc, list, ring, run, gap, play, stream>> /\ ~list.owns /\ ~run.busy /\ card.media = "local" /\ ~card.cleanup
  BY DEF ServeFiles, Admits
<1>2. pc = "idle"
  BY <1>1, IdleFacts
<1>3. CASE card' = [card EXCEPT !.owned = FALSE, !.mounted = FALSE, !.listing = FALSE]
  <2>1. card' \in CardType /\ ~card'.owned /\ ~card'.mounted /\ card'.media = "local" /\ ~card'.cleanup
    BY <1>1, <1>3, TypedFacts DEF CardType
  <2>2. card'.mounted = card'.owned
    BY <1>3, TypedFacts DEF CardType
  <2>3. CardFits'
    BY <2>1, <2>2 DEF CardFits
  <2> QED BY <1>1, <2>1, <2>3, CardStepKeeps
<1>4. CASE card' = [card EXCEPT !.owned = TRUE, !.mounted = TRUE, !.listing = TRUE]
  <2>1. card' \in CardType /\ card'.owned /\ card'.listing /\ card'.media = "local" /\ ~card'.cleanup
    BY <1>1, <1>4, TypedFacts DEF CardType
  <2>2. card'.mounted = card'.owned
    BY <1>4, TypedFacts DEF CardType
  <2>3. CardFits'
    BY <1>1, <1>2, <2>1, <2>2 DEF CardFits
  <2> QED BY <1>1, <2>1, <2>3, CardStepKeeps
<1> QED BY <1>3, <1>4 DEF ServeFiles

LEMMA MediaHostKeeps ==
  ASSUME PlaylistInv, MediaHost
  PROVE  PlaylistInv'
<1>1. /\ UNCHANGED <<pc, list, ring, run, gap, play, stream>> /\ ~list.owns /\ ~run.busy /\ ~card.owned
      /\ card' = [card EXCEPT !.media = "host"]
  BY DEF MediaHost, AllowsMediaHost
<1>2. card' \in CardType /\ card'.owned = card.owned /\ card'.mounted = card.mounted /\ card'.cleanup = card.cleanup
  BY <1>1, TypedFacts DEF CardType
<1>3. CardFits'
  BY <1>1, <1>2, TypedFacts DEF CardFits
<1> QED BY <1>1, <1>2, <1>3, CardStepKeeps

LEMMA MediaLocalKeeps ==
  ASSUME PlaylistInv, MediaLocal
  PROVE  PlaylistInv'
<1>1. /\ UNCHANGED <<pc, list, ring, run, gap, play, stream>> /\ card.media = "host"
      /\ card' = [card EXCEPT !.media = "local"]
  BY DEF MediaLocal
<1>2. card' \in CardType /\ card'.owned = card.owned /\ card'.mounted = card.mounted /\ card'.cleanup = card.cleanup
      /\ card'.media = "local"
  BY <1>1, TypedFacts DEF CardType
<1>3. ~card.owned
  BY <1>1, TypedFacts DEF CardFits
<1>4. CardFits'
  BY <1>1, <1>2, <1>3, TypedFacts DEF CardFits
<1> QED BY <1>1, <1>2, <1>4, CardStepKeeps

LEMMA ServeStopKeeps ==
  ASSUME PlaylistInv, ServeStop
  PROVE  PlaylistInv'
<1>1. UNCHANGED <<pc, ring, gap, play, stream>>
  BY DEF ServeStop
<1>2. CASE card.cleanup
  <2>1. UNCHANGED <<list, run>> /\ card.owned /\ pc = "idle" /\ card.mounted = card.owned
    BY <1>2, TypedFacts DEF ServeStop, CardFits
  <2>2. CASE card' = [card EXCEPT !.owned = FALSE, !.mounted = FALSE, !.cleanup = FALSE, !.primary = FALSE]
    <3>1. card' \in CardType /\ ~card'.owned /\ ~card'.cleanup /\ card'.mounted = card'.owned /\ card'.media = card.media
      BY <2>2, TypedFacts DEF CardType
    <3>2. CardFits'
      BY <1>1, <2>1, <3>1, TypedFacts DEF CardFits
    <3> QED BY <1>1, <2>1, <3>1, <3>2, CardStepKeeps
  <2>3. CASE \E primary \in {card.primary, FALSE} : card' = [card EXCEPT !.primary = primary]
    <3>1. PICK primary \in {card.primary, FALSE} : card' = [card EXCEPT !.primary = primary]
      BY <2>3
    <3>2. primary \in BOOLEAN
      BY <3>1, TypedFacts DEF CardType
    <3>3. card' \in CardType /\ card'.owned = card.owned /\ card'.cleanup = card.cleanup /\ card'.mounted = card.mounted
          /\ card'.media = card.media /\ card'.listing = card.listing
      BY <3>1, <3>2, TypedFacts DEF CardType
    <3>4. CardFits'
      BY <1>1, <2>1, <3>3, TypedFacts DEF CardFits
    <3> QED BY <1>1, <2>1, <3>3, <3>4, CardStepKeeps
  <2> QED BY <1>2, <2>2, <2>3 DEF ServeStop
<1>3. CASE ~card.cleanup
  <2>1. /\ UNCHANGED card
        /\ list' = [list EXCEPT !.stop = @ \/ list.owns] /\ run' = [run EXCEPT !.stop = @ \/ run.busy]
    BY <1>3 DEF ServeStop
  <2>2. list' \in ListType /\ SamePlace
    BY <2>1, TypedFacts DEF ListType, SamePlace
  <2>3. run' \in RunType /\ run'.busy = run.busy /\ run'.len = run.len
    BY <2>1, TypedFacts DEF RunType
  <2>4. CardFits'
    BY <1>1, <2>1, <2>2, <2>3, TypedFacts DEF CardFits, SamePlace
  <2> QED BY <1>1, <2>1, <2>2, <2>3, <2>4, RunStepKeeps, TypedFacts
<1> QED BY <1>2, <1>3

(* PLAYLIST ACK frees the oldest blocks; the others keep their places.     *)
LEMMA ServeAckKeeps ==
  ASSUME PlaylistInv, NEW seq \in Nat, ServeAck(seq)
  PROVE  PlaylistInv'
<1>1. UNCHANGED <<pc, list, run, card, gap, play, stream>>
  BY DEF ServeAck
<1>2. PICK freed \in 0..Len(ring.blocks) : ring' = [ring EXCEPT !.blocks = SubSeq(@, freed + 1, Len(@))]
  BY DEF ServeAck
<1> DEFINE old == ring.blocks
           new == SubSeq(old, freed + 1, Len(old))
<1>3. old \in Seq(Blocks) /\ Len(old) \in Nat /\ freed \in Nat /\ freed =< Len(old)
  BY <1>2, TypedFacts, LenProperties
<1>4. \A i \in (freed + 1)..Len(old) : old[i] \in Blocks
  BY <1>3, ElementOfSeq
<1>5. /\ new \in Seq(Blocks) /\ Len(new) = Len(old) - freed
      /\ \A i \in 1..Len(old) - freed : new[i] = old[freed + i]
  <2>1. freed + 1 \in Int /\ Len(old) \in Int
    BY <1>3
  <2>2. /\ new \in Seq(Blocks) /\ Len(new) = IF freed + 1 <= Len(old) THEN Len(old) - (freed + 1) + 1 ELSE 0
        /\ \A i \in 1..Len(old) - (freed + 1) + 1 : new[i] = old[(freed + 1) + i - 1]
    BY <1>4, <2>1, SubSeqProperties
  <2>3. Len(new) = Len(old) - freed
    BY <1>3, <2>2
  <2>4. ASSUME NEW i \in 1..Len(old) - freed PROVE new[i] = old[freed + i]
    <3>1. i \in 1..Len(old) - (freed + 1) + 1 /\ (freed + 1) + i - 1 = freed + i
      BY <1>3
    <3> QED BY <2>2, <3>1
  <2> QED BY <2>2, <2>3, <2>4
<1>6. ring \in [blocks : Seq(Blocks), next : Nat \ {0}]
  BY DEF PlaylistInv, RecordsTyped
<1> HIDE DEF new
<1>7. ring'.blocks = new /\ ring'.next = ring.next /\ ring' \in [blocks : Seq(Blocks), next : Nat \ {0}]
  BY <1>2, <1>5, <1>6 DEF new
<1>8. RecordsTyped'
  BY <1>1, <1>7 DEF PlaylistInv, RecordsTyped
<1>9. PointsFit'
  BY <1>1 DEF PlaylistInv, PointsFit, Pending
<1>10. RingFits'
  <2>1. Len(ring'.blocks) =< RingCap
    BY <1>3, <1>5, <1>7, PlaylistConstants DEF PlaylistInv, RingFits
  <2>2. ASSUME NEW i \in DOMAIN ring'.blocks
        PROVE  /\ ring'.blocks[i].seq = ring'.next - Len(ring'.blocks) + i - 1
               /\ ring'.blocks[i].seq >= list'.first => ring'.blocks[i].item = ring'.blocks[i].seq - list'.first + 1
    <3>1. DOMAIN old = 1..Len(old) /\ DOMAIN new = 1..Len(new)
      BY <1>3, <1>5, LenProperties
    <3>2. i \in 1..Len(old) - freed /\ freed + i \in DOMAIN old /\ i \in Int
      BY <1>3, <1>5, <1>7, <3>1
    <3>3. new[i] = old[freed + i]
      BY <1>5, <3>2
    <3>4. /\ old[freed + i].seq = ring.next - Len(old) + (freed + i) - 1
          /\ old[freed + i].seq >= list.first => old[freed + i].item = old[freed + i].seq - list.first + 1
      BY <3>2 DEF PlaylistInv, RingFits
    <3>5. ring.next - Len(old) + (freed + i) - 1 = ring.next - Len(new) + i - 1
      BY <1>3, <1>5, <1>6, <3>2
    <3> QED BY <1>1, <1>7, <3>3, <3>4, <3>5
  <2> QED BY <2>1, <2>2 DEF RingFits
<1>11. ListFits'
  <2>1. Full' => Full
    BY <1>3, <1>5, <1>7, PlaylistConstants DEF Full, PlaylistInv, RingFits
  <2> QED BY <1>1, <1>7, <2>1 DEF PlaylistInv, ListFits
<1>12. CardFits'
  BY <1>1, TypedFacts DEF CardFits
<1> QED BY <1>8, <1>9, <1>10, <1>11, <1>12 DEF PlaylistInv

-----------------------------------------------------------------------------
(* A run begins: its file has not been loaded, so none of it is counted    *)
(* or waits to be sent.                                                    *)
LEMMA BeginRunFacts ==
  ASSUME PlaylistInv, ~run.busy, NEW route \in Routes, NEW len \in Nat \ {0}, NEW start \in Int, BeginRun(route, len, start)
  PROVE  /\ gap' \in GapType /\ run' \in RunType /\ run'.busy = TRUE /\ run'.len = len
         /\ play' \in PlayType /\ play'.left = len /\ play'.sent = 0
         /\ stream' \in StreamType /\ stream'.loaded # "file" /\ pc' = "mount"
<1>1. gap' \in GapType
  <2> DEFINE g == [gap EXCEPT !.opens = 0, !.end = 0]
  <2>1. 0 \in 0..Wrap - 1
    BY WrapIsPositive
  <2>2. gap' = gap \/ gap' = g
    BY DEF BeginRun
  <2>3. gap \in GapType
    BY TypedFacts
  <2>4. g \in GapType
    BY <2>1, <2>3 DEF GapType
  <2> HIDE DEF g
  <2> QED BY <2>2, <2>3, <2>4
<1>2. run' \in RunType /\ run'.busy = TRUE /\ run'.len = len
  BY DEF BeginRun, RunType, Failures
<1>3. play' \in PlayType /\ play'.left = len /\ play'.sent = 0
  <2> DEFINE opens == IF route = "usb" THEN stream.opens ELSE 0
  <2>1. opens \in Nat
    BY TypedFacts DEF StreamType
  <2>2. play' = [NoPlay EXCEPT !.opens = opens, !.left = len]
    BY DEF BeginRun
  <2> HIDE DEF opens
  <2> QED BY <2>1, <2>2, NoPlayTyped DEF PlayType
<1>4. stream.loaded # "file"
  <2>1. run.len = 0
    BY DEF PlaylistInv, PointsFit
  <2>2. play.left \in Nat /\ play.sent \in Nat
    BY TypedFacts DEF PlayType
  <2>3. play.left + play.sent + (IF Pending THEN 1 ELSE 0) =< 0
    BY <2>1 DEF PlaylistInv, PointsFit
  <2> QED BY <2>2, <2>3 DEF Pending
<1>5. stream' \in StreamType /\ stream'.loaded # "file"
  <2> DEFINE sent == IF gap'.opens = 0 THEN 0 ELSE stream.sent
  <2>1. sent \in 0..Wrap - 1
    BY WrapIsPositive, TypedFacts DEF StreamType
  <2>2. stream' = [stream EXCEPT !.sent = sent]
    BY DEF BeginRun
  <2> HIDE DEF sent
  <2> QED BY <1>4, <2>1, <2>2, TypedFacts DEF StreamType
<1>6. pc' = "mount"
  BY DEF BeginRun
<1> QED BY <1>1, <1>2, <1>3, <1>5, <1>6

LEMMA BeginRunKeeps ==
  ASSUME PlaylistInv, ~run.busy, NEW route \in Routes, NEW len \in Nat \ {0}, NEW start \in Int, BeginRun(route, len, start),
         UNCHANGED <<ring, card>>, list' = list \/ list' = [list EXCEPT !.state = "running"],
         list.owns => ~Full /\ pc # "lastgap",
         card.media = "local" \/ list.owns, ~card.owned
  PROVE  PlaylistInv'
<1>1. /\ gap' \in GapType /\ run' \in RunType /\ run'.busy = TRUE /\ run'.len = len
      /\ play' \in PlayType /\ play'.left = len /\ play'.sent = 0
      /\ stream' \in StreamType /\ stream'.loaded # "file" /\ pc' = "mount"
  BY BeginRunFacts
<1>2. /\ list' \in ListType /\ list'.items = list.items /\ list'.index = list.index /\ list'.completed = list.completed
      /\ list'.owns = list.owns /\ list'.first = list.first
      /\ list'.state = "done" => list.state = "done"
  BY TypedFacts DEF ListType
<1>3. pc' \in RunPoints /\ pc' \notin ItemPoints /\ pc' # "idle" /\ pc' # "lastgap"
  BY <1>1 DEF RunPoints, ItemPoints
<1>4. RecordsTyped'
  BY <1>1, <1>2, <1>3 DEF PlaylistInv, RecordsTyped
<1>5. PointsFit'
  <2>1. play'.left + play'.sent + (IF Pending' THEN 1 ELSE 0) =< run'.len
    BY <1>1 DEF Pending
  <2>2. run'.busy
    BY <1>1
  <2> QED BY <1>3, <2>1, <2>2 DEF PointsFit
<1>6. RingFits'
  BY <1>2 DEF PlaylistInv, RingFits
<1>7. ListFits'
  <2>1. list'.owns => list.owns /\ ~Full' /\ pc # "lastgap"
    BY <1>2 DEF Full
  <2> QED BY <1>2, <1>3, <2>1 DEF PlaylistInv, ListFits
<1>8. CardFits'
  <2>1. card.media = "local"
    BY TypedFacts DEF CardFits, CardType
  <2>2. ~card.cleanup
    BY TypedFacts DEF CardFits
  <2> QED BY <2>1, <2>2, TypedFacts DEF CardFits
<1> QED BY <1>4, <1>5, <1>6, <1>7, <1>8 DEF PlaylistInv

LEMMA ServePlayKeeps ==
  ASSUME PlaylistInv, ServePlay
  PROVE  PlaylistInv'
<1>1. /\ ~run.busy /\ ~card.owned /\ ~list.owns /\ card.media = "local" /\ UNCHANGED <<ring, card, list>>
      /\ BeginRun(run.route, PlayLen, NoStart)
  BY DEF ServePlay, Stopped
<1>2. run.route \in Routes /\ PlayLen \in Nat \ {0} /\ NoStart \in Int
  BY TypedFacts, PlaylistConstants DEF RunType, NoStart
<1> QED BY <1>1, <1>2, BeginRunKeeps

-----------------------------------------------------------------------------
(* A list that owns the player has an item at its index, and the numbers   *)
(* given out since it began are those of its completed items.              *)
LEMMA ItemFacts ==
  ASSUME PlaylistInv, list.owns, pc # "lastgap"
  PROVE  /\ list.items \in Lists /\ list.items \in Seq(Items) /\ Len(list.items) \in Nat
         /\ list.index \in DOMAIN list.items /\ list.items[list.index] \in Items
         /\ list.completed < Len(list.items) /\ list.index = list.completed + 1
         /\ list.completed = ring.next - list.first
<1>1. list.items # << >> /\ list.index = list.completed + 1 /\ list.completed < Len(list.items)
  BY DEF PlaylistInv, ListFits
<1>2. list.items \in Lists
  BY <1>1, TypedFacts DEF ListType
<1>3. list.items \in Seq(Items)
  BY <1>2, PlaylistConstants
<1>4. Len(list.items) \in Nat /\ DOMAIN list.items = 1..Len(list.items)
  BY <1>3, LenProperties
<1>5. list.index \in DOMAIN list.items
  BY <1>1, <1>4, TypedFacts DEF ListType
<1>6. list.items[list.index] \in Items
  BY <1>3, <1>4, <1>5, ElementOfSeq
<1>7. list.completed = ring.next - list.first
  BY <1>1 DEF PlaylistInv, ListFits
<1> QED BY <1>1, <1>2, <1>3, <1>4, <1>5, <1>6, <1>7

LEMMA EndedListFacts ==
  ASSUME NEW l \in ListType, NEW state \in {"done", "aborted", "error"}
  PROVE  LET e == EndedList(l, state)
         IN  /\ e \in ListType /\ e.state = state /\ ~e.owns /\ ~e.stop
             /\ e.items = l.items /\ e.completed = l.completed /\ e.first = l.first
<1> DEFINE index == IF state = "done" THEN Len(l.items) + 1 ELSE l.index
           e == [l EXCEPT !.state = state, !.owns = FALSE, !.stop = FALSE, !.index = index]
<1>1. index \in Nat
  <2>1. << >> \in Seq(Items)
    OBVIOUS
  <2>2. l.items \in Seq(Items)
    BY <2>1, PlaylistConstants DEF ListType
  <2>3. Len(l.items) \in Nat
    BY <2>2, LenProperties
  <2> QED BY <2>3 DEF ListType
<1>2. EndedList(l, state) = e
  BY DEF EndedList
<1> HIDE DEF index
<1>3. e \in ListType
  BY <1>1 DEF ListType
<1>4. /\ e.state = state /\ ~e.owns /\ ~e.stop
      /\ e.items = l.items /\ e.completed = l.completed /\ e.first = l.first
  BY DEF ListType
<1> HIDE DEF e
<1> QED BY <1>2, <1>3, <1>4

LEMMA RestsFacts == Rests => pc' = "idle" /\ gap' \in GapType
BY NoGapTyped DEF Rests, NoGap, GapType

LEMMA GapAfterTyped ==
  ASSUME NEW item \in Items, NEW outcome, NEW p \in PlayType
  PROVE  GapAfter(item, outcome, p) \in GapType
<1> DEFINE usb == item.route = "usb" /\ p.sent > 0
           opens == IF usb THEN p.opens ELSE 0
           end == IF usb THEN (Base + p.sent + item.gap) % Wrap ELSE 0
<1>1. opens \in Nat
  BY DEF PlayType
<1>2. Base + p.sent + item.gap \in Int
  BY WrapIsPositive DEF Base, PlayType, Items
<1>3. end \in 0..Wrap - 1
  BY <1>2, IndexWraps, WrapIsPositive
<1>4. GapAfter(item, outcome, p) = [on |-> TRUE, length |-> item.gap, clean |-> outcome = "done", opens |-> opens, end |-> end]
  BY DEF GapAfter
<1> HIDE DEF usb, opens, end
<1> QED BY <1>1, <1>3, <1>4 DEF GapType, Items

(* record_result(): the block takes the next number and the place of the   *)
(* item it is about, and the ring had room for it.                         *)
LEMMA AppendFacts ==
  ASSUME PlaylistInv, list.owns, pc # "lastgap", ~Full, NEW outcome \in Outcomes,
         ring' = [ring EXCEPT !.blocks = Append(@, [seq |-> ring.next, item |-> list.index, outcome |-> outcome]), !.next = @ + 1]
  PROVE  /\ ring' \in [blocks : Seq(Blocks), next : Nat \ {0}] /\ ring'.next = ring.next + 1
         /\ Len(ring'.blocks) =< RingCap
         /\ \A i \in DOMAIN ring'.blocks :
              /\ ring'.blocks[i].seq = ring'.next - Len(ring'.blocks) + i - 1
              /\ ring'.blocks[i].seq >= list.first => ring'.blocks[i].item = ring'.blocks[i].seq - list.first + 1
<1> DEFINE old == ring.blocks
           block == [seq |-> ring.next, item |-> list.index, outcome |-> outcome]
           new == Append(old, block)
<1>1. block \in Blocks /\ block.seq = ring.next /\ block.item = list.index
  BY TypedFacts DEF Blocks, ListType
<1>2. ring' = [ring EXCEPT !.blocks = new, !.next = ring.next + 1]
  OBVIOUS
<1>3. old \in Seq(Blocks) /\ Len(old) \in Nat /\ DOMAIN old = 1..Len(old)
  BY TypedFacts, LenProperties
<1> HIDE DEF block
<1>4. /\ new \in Seq(Blocks) /\ Len(new) = Len(old) + 1
      /\ (\A i \in 1..Len(old) : new[i] = old[i]) /\ new[Len(old) + 1] = block
  BY <1>1, <1>3, AppendProperties
<1>5. DOMAIN new = 1..Len(old) + 1
  BY <1>4, LenProperties
<1> HIDE DEF new
<1>6. ring \in [blocks : Seq(Blocks), next : Nat \ {0}]
  BY DEF PlaylistInv, RecordsTyped
<1>7. /\ ring'.blocks = new /\ ring'.next = ring.next + 1 /\ ring' \in [blocks : Seq(Blocks), next : Nat \ {0}]
      /\ ring.next \in Nat
  <2> DEFINE next == ring.next + 1
  <2>1. next \in Nat \ {0} /\ ring.next \in Nat
    BY TypedFacts
  <2>2. ring' = [ring EXCEPT !.blocks = new, !.next = next]
    BY <1>2
  <2> HIDE DEF next
  <2>3. ring' \in [blocks : Seq(Blocks), next : Nat \ {0}]
    BY <1>4, <1>6, <2>1, <2>2
  <2>4. ring'.blocks = new /\ ring'.next = next
    BY <1>6, <2>2
  <2> QED BY <2>1, <2>3, <2>4 DEF next
<1>8. Len(old) < RingCap
  BY <1>3, PlaylistConstants DEF PlaylistInv, RingFits, Full
<1>9. ASSUME NEW i \in DOMAIN ring'.blocks
      PROVE  /\ ring'.blocks[i].seq = ring'.next - Len(ring'.blocks) + i - 1
             /\ ring'.blocks[i].seq >= list.first => ring'.blocks[i].item = ring'.blocks[i].seq - list.first + 1
  <2>1. i \in 1..Len(old) + 1
    BY <1>5, <1>7
  <2>2. CASE i = Len(old) + 1
    <3>1. ring'.blocks[i] = block
      BY <1>4, <1>7, <2>2
    <3>2. ring.next = ring'.next - Len(ring'.blocks) + i - 1
      BY <1>3, <1>4, <1>7, <2>2
    <3>3. list.index = ring.next - list.first + 1
      BY ItemFacts
    <3>4. list.first \in Nat
      BY TypedFacts DEF ListType
    <3> QED BY <1>1, <1>7, <3>1, <3>2, <3>3, <3>4
  <2>3. CASE i \in 1..Len(old)
    <3>1. ring'.blocks[i] = old[i]
      BY <1>4, <1>7, <2>3
    <3>2. /\ old[i].seq = ring.next - Len(old) + i - 1
          /\ old[i].seq >= list.first => old[i].item = old[i].seq - list.first + 1
      BY <1>3, <2>3 DEF PlaylistInv, RingFits
    <3>3. ring.next - Len(old) + i - 1 = ring'.next - Len(ring'.blocks) + i - 1
      BY <1>3, <1>4, <1>7, <2>3
    <3> QED BY <3>1, <3>2, <3>3
  <2> QED BY <1>3, <2>1, <2>2, <2>3
<1>10. Len(ring'.blocks) =< RingCap
  BY <1>3, <1>4, <1>7, <1>8, PlaylistConstants
<1> QED BY <1>7, <1>9, <1>10

(* The end of an item: its block is kept, and the list ends or goes on to  *)
(* the gap after the item.                                                 *)
LEMMA EndItemFacts ==
  ASSUME PlaylistInv, list.owns, pc # "lastgap", ~Full,
         NEW outcome \in Outcomes, NEW p \in PlayType, NEW held \in BOOLEAN, EndItem(outcome, p, held)
  PROVE  /\ list' \in ListType /\ ring' \in [blocks : Seq(Blocks), next : Nat \ {0}] /\ gap' \in GapType
         /\ RingFits' /\ ListFits'
         /\ pc' \in {"idle", "room", "lastgap"} /\ (pc' = "idle" <=> ~list'.owns)
         /\ held => pc' = "idle"
         /\ ~list'.owns /\ list.stop => list'.state = (IF held THEN "error" ELSE "aborted")
         /\ list.stop => ~list'.owns
<1> DEFINE item == list.items[list.index]
           failed == IF outcome = "error" THEN list.failed + 1 ELSE list.failed
           counted == [list EXCEPT !.completed = @ + 1, !.failed = failed]
           ends == IF held THEN "error" ELSE EndAfter(outcome)
           goes == [counted EXCEPT !.state = "gap", !.index = @ + 1]
<1>1. ends \in {"none", "error", "aborted"} /\ (held => ends = "error") /\ (list.stop => ends = IF held THEN "error" ELSE "aborted")
  BY DEF EndAfter
<1>2. failed \in Nat
  BY TypedFacts DEF ListType
<1>3. /\ ring' = [ring EXCEPT !.blocks = Append(@, [seq |-> ring.next, item |-> list.index, outcome |-> outcome]), !.next = @ + 1]
      /\ IF ends # "none" THEN list' = EndedList(counted, ends) /\ Rests
         ELSE /\ list' = goes /\ gap' = GapAfter(item, outcome, p)
              /\ pc' = IF list.index = Len(list.items) THEN "lastgap" ELSE "room"
  BY DEF EndItem
<1> HIDE DEF failed, ends
<1>4. /\ counted \in ListType /\ counted.completed = list.completed + 1 /\ counted.items = list.items
      /\ counted.first = list.first /\ counted.owns = list.owns /\ counted.index = list.index
  <2>1. list.completed + 1 \in Nat
    BY TypedFacts DEF ListType
  <2>2. counted \in ListType
    BY <1>2, <2>1, TypedFacts DEF ListType
  <2> QED BY <2>2, TypedFacts DEF ListType
<1>5. /\ ring' \in [blocks : Seq(Blocks), next : Nat \ {0}] /\ ring'.next = ring.next + 1 /\ Len(ring'.blocks) =< RingCap
      /\ \A i \in DOMAIN ring'.blocks :
           /\ ring'.blocks[i].seq = ring'.next - Len(ring'.blocks) + i - 1
           /\ ring'.blocks[i].seq >= list.first => ring'.blocks[i].item = ring'.blocks[i].seq - list.first + 1
  BY <1>3, AppendFacts
<1>6. /\ list.items # << >> /\ list.completed = ring.next - list.first /\ list.index = list.completed + 1
      /\ list.completed < Len(list.items) /\ Len(list.items) \in Nat /\ item \in Items
      /\ list.completed \in Nat /\ list.first \in Nat /\ ring.next \in Nat
  BY ItemFacts, TypedFacts DEF ListType, PlaylistInv, ListFits
<1>7. list.completed + 1 = ring'.next - list.first
  BY <1>5, <1>6
<1> HIDE DEF counted
<1>8. CASE ends # "none"
  <2>1. list' = EndedList(counted, ends) /\ pc' = "idle" /\ gap' \in GapType /\ ends \in {"error", "aborted"}
    BY <1>1, <1>3, <1>8, RestsFacts
  <2>2. /\ list' \in ListType /\ list'.state = ends /\ ~list'.owns /\ list'.items = list.items
        /\ list'.completed = list.completed + 1 /\ list'.first = list.first
    BY <1>4, <2>1, EndedListFacts
  <2>3. RingFits'
    BY <1>5, <2>2 DEF RingFits
  <2>4. ListFits'
    BY <1>7, <2>1, <2>2 DEF ListFits
  <2> QED BY <1>1, <1>5, <2>1, <2>2, <2>3, <2>4
<1>9. CASE ends = "none"
  <2>1. list' = goes /\ gap' \in GapType /\ pc' = IF list.index = Len(list.items) THEN "lastgap" ELSE "room"
    BY <1>3, <1>6, <1>9, GapAfterTyped
  <2>2. /\ list' \in ListType /\ list'.state = "gap" /\ list'.items = list.items /\ list'.index = list.index + 1
        /\ list'.completed = list.completed + 1 /\ list'.first = list.first /\ list'.owns = list.owns
    <3>1. counted.index + 1 \in Nat
      BY <1>4 DEF ListType
    <3>2. goes \in ListType
      BY <1>4, <3>1 DEF ListType
    <3>3. /\ goes.state = "gap" /\ goes.items = counted.items /\ goes.index = counted.index + 1
          /\ goes.completed = counted.completed /\ goes.first = counted.first /\ goes.owns = counted.owns
      BY <1>4 DEF ListType
    <3> HIDE DEF goes
    <3> QED BY <1>4, <2>1, <3>2, <3>3
  <2>3. RingFits'
    BY <1>5, <2>2 DEF RingFits
  <2>4. pc' \in {"room", "lastgap"} /\ pc' \notin RunPoints \cup {"gap"}
    BY <2>1 DEF RunPoints
  <2>5. IF pc' = "lastgap" THEN list'.completed = Len(list'.items) ELSE list'.completed < Len(list'.items)
    BY <1>6, <2>1, <2>2
  <2>6. ListFits'
    BY <1>6, <1>7, <2>2, <2>4, <2>5 DEF ListFits
  <2> QED BY <1>1, <1>5, <1>9, <2>1, <2>2, <2>3, <2>4, <2>6
<1> QED BY <1>8, <1>9

-----------------------------------------------------------------------------
(* The list ends between two items.                                        *)
LEMMA ListRests ==
  ASSUME PlaylistInv, pc \in ItemPoints, NEW state \in {"done", "aborted"}, list' = EndedList(list, state), Rests,
         state = "done" => pc = "lastgap", UNCHANGED <<ring, run, card, play, stream>>
  PROVE  PlaylistInv'
<1>1. list.owns /\ pc \notin RunPoints
  BY DEF PlaylistInv, PointsFit, ItemPoints, RunPoints
<1>2. ~run.busy
  BY <1>1 DEF PlaylistInv, PointsFit
<1>3. /\ list' \in ListType /\ list'.state = state /\ ~list'.owns
      /\ list'.items = list.items /\ list'.completed = list.completed /\ list'.first = list.first
  BY EndedListFacts, TypedFacts
<1>4. pc' = "idle" /\ gap' \in GapType
  BY RestsFacts
<1>5. pc' \notin RunPoints /\ pc' \notin ItemPoints
  BY <1>4 DEF RunPoints, ItemPoints
<1>6. RecordsTyped'
  BY <1>3, <1>4 DEF PlaylistInv, RecordsTyped
<1>7. PointsFit'
  BY <1>2, <1>3, <1>5 DEF PlaylistInv, PointsFit, Pending
<1>8. RingFits'
  BY <1>3 DEF PlaylistInv, RingFits
<1>9. ListFits'
  <2>1. list'.state = "done" => list'.completed = Len(list'.items)
    BY <1>1, <1>3 DEF PlaylistInv, ListFits
  <2> QED BY <1>3, <2>1 DEF PlaylistInv, ListFits
<1>10. CardFits'
  <2>1. ~card.owned
    BY <1>1, TypedFacts DEF CardFits, PlaylistInv, PointsFit
  <2> QED BY <1>2, <1>3, <2>1, TypedFacts DEF CardFits
<1> QED BY <1>6, <1>7, <1>8, <1>9, <1>10 DEF PlaylistInv

LEMMA GapStoppedKeeps ==
  ASSUME PlaylistInv, GapStopped
  PROVE  PlaylistInv'
<1>1. pc \in ItemPoints
  BY DEF GapStopped, ItemPoints
<1> QED BY <1>1, ListRests DEF GapStopped

LEMMA LastGapEndsKeeps ==
  ASSUME PlaylistInv, LastGapEnds
  PROVE  PlaylistInv'
<1>1. pc \in ItemPoints
  BY DEF LastGapEnds, ItemPoints
<1> QED BY <1>1, ListRests DEF LastGapEnds

(* Only the list's state changes, and not to done.                         *)
LEMMA ListGoesOn ==
  ASSUME PlaylistInv, pc = "room", pc' \in {"room", "gap"}, NEW state \in {"gap", "paused_ring_full"},
         list' = [list EXCEPT !.state = state], UNCHANGED <<ring, run, card, play, stream, gap>>, pc' = "gap" => ~Full
  PROVE  PlaylistInv'
<1>1. /\ list' \in ListType /\ list'.items = list.items /\ list'.index = list.index /\ list'.completed = list.completed
      /\ list'.owns = list.owns /\ list'.first = list.first /\ list'.state # "done"
  BY TypedFacts DEF ListType
<1>2. pc \in ItemPoints /\ pc' \in ItemPoints /\ pc \notin RunPoints /\ pc' \notin RunPoints /\ pc' # "idle" /\ pc' # "lastgap"
  BY DEF ItemPoints, RunPoints
<1>3. RecordsTyped'
  BY <1>1, <1>2 DEF PlaylistInv, RecordsTyped
<1>4. PointsFit'
  <2>1. run.busy = FALSE /\ list'.owns
    BY <1>1, <1>2, TypedFacts DEF PlaylistInv, PointsFit, RunType
  <2> QED BY <1>2, <2>1 DEF PlaylistInv, PointsFit, Pending
<1>5. RingFits'
  BY <1>1 DEF PlaylistInv, RingFits
<1>6. ListFits'
  BY <1>1, <1>2 DEF PlaylistInv, ListFits, Full
<1>7. CardFits'
  <2>1. ~card.owned
    BY <1>2, TypedFacts DEF CardFits
  <2> QED BY <1>1, <2>1, TypedFacts DEF CardFits
<1> QED BY <1>3, <1>4, <1>5, <1>6, <1>7 DEF PlaylistInv

LEMMA PauseForRingKeeps ==
  ASSUME PlaylistInv, PauseForRing
  PROVE  PlaylistInv'
<1>1. pc = "room" /\ pc \in ItemPoints /\ UNCHANGED <<ring, run, card, play, stream>>
  BY DEF PauseForRing, ItemPoints
<1>2. CASE list.stop
  BY <1>1, <1>2, ListRests DEF PauseForRing
<1>3. CASE ~list.stop
  BY <1>1, <1>3, ListGoesOn DEF PauseForRing
<1> QED BY <1>2, <1>3

(* play_item(), from one of the points between two items.                  *)
LEMMA PlayItemKeeps ==
  ASSUME PlaylistInv, pc \in {"room", "gap"}, ~Full, NEW start \in Int, PlayItem(start), UNCHANGED card
  PROVE  PlaylistInv'
<1>1. list.owns /\ ~run.busy /\ pc # "lastgap" /\ pc \notin RunPoints /\ pc \in ItemPoints
  BY DEF PlaylistInv, PointsFit, ItemPoints, RunPoints
<1>2. ~card.owned
  BY <1>1, TypedFacts DEF CardFits, ItemPoints
<1> DEFINE item == list.items[list.index]
<1>3. item \in Items
  BY <1>1, ItemFacts
<1>4. CASE item.route = "usb" /\ ~stream.open
  <2>1. EndItem("error", NoPlay, FALSE) /\ run' = [run EXCEPT !.route = "usb"] /\ UNCHANGED <<play, stream>>
    BY <1>4 DEF PlayItem
  <2>2. "error" \in Outcomes
    BY DEF Outcomes
  <2>3. /\ list' \in ListType /\ ring' \in [blocks : Seq(Blocks), next : Nat \ {0}] /\ gap' \in GapType
        /\ RingFits' /\ ListFits'
        /\ pc' \in {"idle", "room", "lastgap"} /\ (pc' = "idle" <=> ~list'.owns)
    BY <1>1, <2>1, <2>2, NoPlayTyped, EndItemFacts
  <2>4. run' \in RunType /\ run'.busy = run.busy /\ run'.len = run.len
    BY <2>1, TypedFacts DEF RunType, Routes
  <2>5. pc' \notin RunPoints /\ pc' \in {"idle"} \cup ItemPoints
    BY <2>3 DEF RunPoints, ItemPoints
  <2>6. RecordsTyped'
    BY <2>1, <2>3, <2>4, <2>5 DEF PlaylistInv, RecordsTyped
  <2>7. PointsFit'
    <3>1. run'.busy = FALSE
      BY <1>1, <2>4, TypedFacts DEF RunType
    <3>2. pc' \in ItemPoints => pc' # "idle"
      BY DEF ItemPoints
    <3> QED BY <1>1, <2>1, <2>3, <2>4, <2>5, <3>1, <3>2 DEF PlaylistInv, PointsFit, Pending
  <2>8. CardFits'
    <3>1. card.media # "host"
      BY <1>1, TypedFacts DEF CardFits
    <3> QED BY <1>2, <3>1, TypedFacts DEF CardFits
  <2> QED BY <2>3, <2>6, <2>7, <2>8 DEF PlaylistInv
<1>5. CASE ~(item.route = "usb" /\ ~stream.open)
  <2>1. BeginRun(item.route, item.len, start) /\ list' = [list EXCEPT !.state = "running"] /\ UNCHANGED ring
    BY <1>5 DEF PlayItem
  <2>2. item.route \in Routes /\ item.len \in Nat \ {0}
    BY <1>3 DEF Items
  <2> QED BY <1>1, <1>2, <2>1, <2>2, BeginRunKeeps
<1> QED BY <1>4, <1>5

LEMMA PlanStartKeeps ==
  ASSUME PlaylistInv, PlanStart
  PROVE  PlaylistInv'
<1>1. pc = "room" /\ ~Full /\ UNCHANGED card
  BY DEF PlanStart, HasRoom
<1>2. NoStart \in Int /\ gap.end \in Int
  BY TypedFacts, WrapIsPositive DEF NoStart, GapType
<1>3. CASE PlayItem(NoStart) \/ PlayItem(gap.end)
  BY <1>1, <1>2, <1>3, PlayItemKeeps
<1>4. CASE pc' = "gap" /\ list' = [list EXCEPT !.state = "gap"] /\ UNCHANGED <<ring, gap, run, play, stream>>
  BY <1>1, <1>4, ListGoesOn
<1> QED BY <1>3, <1>4 DEF PlanStart

LEMMA GapEndsKeeps ==
  ASSUME PlaylistInv, GapEnds
  PROVE  PlaylistInv'
<1>1. pc = "gap" /\ UNCHANGED card /\ PlayItem(NoStart) /\ NoStart \in Int
  BY DEF GapEnds, NoStart
<1>2. ~Full
  BY <1>1 DEF PlaylistInv, PointsFit, ListFits, ItemPoints
<1> QED BY <1>1, <1>2, PlayItemKeeps

(* accept_playlist(): the list begins with the numbers still to be given.  *)
LEMMA ServePlaylistKeeps ==
  ASSUME PlaylistInv, NEW items \in Lists, NEW continue \in BOOLEAN, ServePlaylist(items, continue)
  PROVE  PlaylistInv'
<1>1. /\ UNCHANGED <<ring, play, stream>> /\ run' = [run EXCEPT !.stop = FALSE]
      /\ ~run.busy /\ ~card.owned /\ ~list.owns /\ card.media = "local" /\ ~card.cleanup
  BY DEF ServePlaylist, Admits, Stopped
<1>2. pc = "idle"
  BY <1>1, IdleFacts
<1>3. run' \in RunType /\ run'.busy = FALSE /\ run'.busy = run.busy /\ run'.len = run.len
  BY <1>1, TypedFacts DEF RunType
<1>4. CASE /\ list' = [items |-> items, state |-> "running", index |-> 1, completed |-> 0, failed |-> 0,
                       continue |-> continue, owns |-> TRUE, stop |-> FALSE, first |-> ring.next]
           /\ pc' = "room" /\ gap' = NoGap /\ UNCHANGED card
  <2>1. list' \in ListType
    BY <1>4, TypedFacts DEF ListType
  <2>2. /\ list'.items = items /\ list'.index = 1 /\ list'.completed = 0 /\ list'.owns
        /\ list'.first = ring.next /\ list'.state = "running"
    BY <1>4
  <2>3. pc' \notin RunPoints /\ pc' \in ItemPoints /\ pc' # "lastgap" /\ pc' # "gap" /\ pc' # "idle"
    BY <1>4 DEF RunPoints, ItemPoints
  <2>4. RecordsTyped'
    BY <1>1, <1>3, <1>4, <2>1, <2>3, NoGapTyped DEF PlaylistInv, RecordsTyped
  <2>5. PointsFit'
    BY <1>1, <1>3, <2>2, <2>3 DEF PlaylistInv, PointsFit, Pending
  <2>6. RingFits'
    <3>1. ASSUME NEW i \in DOMAIN ring.blocks PROVE ring.blocks[i].seq < ring.next
      <4>1. DOMAIN ring.blocks = 1..Len(ring.blocks) /\ Len(ring.blocks) \in Nat
        BY TypedFacts, LenProperties
      <4>2. ring.blocks[i].seq = ring.next - Len(ring.blocks) + i - 1
        BY DEF PlaylistInv, RingFits
      <4> QED BY <4>1, <4>2, TypedFacts
    <3>2. ASSUME NEW i \in DOMAIN ring.blocks PROVE ~(ring.blocks[i].seq >= list'.first)
      <4>1. ring.blocks[i].seq \in Int /\ ring.next \in Int
        <5>1. ring.blocks[i] \in Blocks
          BY TypedFacts, ElementOfSeq, LenProperties
        <5> QED BY <5>1, TypedFacts DEF Blocks
      <4> QED BY <2>2, <3>1, <4>1
    <3> QED BY <1>1, <3>2 DEF PlaylistInv, RingFits
  <2>7. ListFits'
    <3>1. items \in Seq(Items) /\ items # << >>
      BY PlaylistConstants
    <3>2. 0 < Len(items)
      BY <3>1, EmptySeq, LenProperties
    <3>3. list'.completed = ring'.next - list'.first
      BY <1>1, <2>2, TypedFacts
    <3> QED BY <2>2, <2>3, <3>1, <3>2, <3>3 DEF ListFits
  <2>8. CardFits'
    <3>1. UNCHANGED card
      BY <1>4
    <3> QED BY <1>1, <3>1, TypedFacts DEF CardFits, CardType
  <2> QED BY <2>4, <2>5, <2>6, <2>7, <2>8 DEF PlaylistInv
<1>5. CASE UNCHANGED <<list, pc, gap, card>>
  <2>1. CardFits'
    BY <1>3, <1>5, TypedFacts DEF CardFits
  <2> QED BY <1>1, <1>3, <1>5, <2>1, RunStepKeeps, TypedFacts, SamePlaceHolds
<1>6. CASE /\ \E primary \in BOOLEAN : card' = [card EXCEPT !.owned = TRUE, !.mounted = TRUE, !.cleanup = TRUE, !.primary = primary]
           /\ UNCHANGED <<list, pc, gap>>
  <2>1. PICK primary \in BOOLEAN : card' = [card EXCEPT !.owned = TRUE, !.mounted = TRUE, !.cleanup = TRUE, !.primary = primary]
    BY <1>6
  <2>2. /\ card' \in CardType /\ card'.owned = TRUE /\ card'.mounted = TRUE /\ card'.cleanup = TRUE
        /\ card'.media = card.media
    BY <2>1, TypedFacts DEF CardType
  <2>3. CardFits'
    BY <1>1, <1>2, <1>6, <2>2 DEF CardFits
  <2> QED BY <1>1, <1>3, <1>6, <2>2, <2>3, RunStepKeeps, TypedFacts, SamePlaceHolds
<1> QED BY <1>4, <1>5, <1>6 DEF ServePlaylist

-----------------------------------------------------------------------------
(* cleanup_player_run(): the run ends, its block is kept and the card is   *)
(* released or kept for a cleanup that a command tries again.              *)
LEMMA FinishFacts ==
  ASSUME PlaylistInv, pc \in RunPoints, NEW outcome \in Outcomes, NEW held \in BOOLEAN, Finish(outcome, held)
  PROVE  /\ (card' \in CardType => RecordsTyped') /\ PointsFit' /\ RingFits' /\ ListFits'
         /\ ~run'.busy /\ pc' \in {"idle"} \cup ItemPoints /\ (held => pc' = "idle") /\ (list'.owns => list.owns)
         /\ (pc' = "idle" <=> ~list'.owns)
         /\ list.owns /\ list.stop => ~list'.owns /\ list'.state = (IF held THEN "error" ELSE "aborted")
<1> DEFINE ended == IF outcome = "error" THEN "fault" ELSE outcome
           loaded == IF stream.loaded = "file" THEN "old" ELSE stream.loaded
<1>1. ended \in {"done", "aborted", "fault"} /\ loaded \in {"silence", "old"}
  BY TypedFacts DEF Outcomes, StreamType
<1>2. /\ run' = [run EXCEPT !.busy = FALSE, !.stop = FALSE, !.start = NoStart, !.fault = "none", !.len = 0, !.state = ended]
      /\ play' = [NoPlay EXCEPT !.opens = play.opens] /\ stream' = [stream EXCEPT !.loaded = loaded]
  BY DEF Finish
<1> HIDE DEF ended, loaded
<1>3. run' \in RunType /\ run'.busy = FALSE /\ run'.len = 0
  <2>1. NoStart \in Int /\ "none" \in Failures
    BY DEF NoStart, Failures
  <2> QED BY <1>1, <1>2, <2>1, TypedFacts DEF RunType
<1>4. play' \in PlayType /\ play'.left = 0 /\ play'.sent = 0
  <2>1. play.opens \in Nat
    BY TypedFacts DEF PlayType
  <2> QED BY <1>2, <2>1, NoPlayTyped DEF PlayType
<1>5. stream' \in StreamType /\ stream'.loaded # "file"
  BY <1>1, <1>2, TypedFacts DEF StreamType
<1>6. pc # "idle" /\ pc # "lastgap"
  BY DEF RunPoints
<1>7. /\ list' \in ListType /\ ring' \in [blocks : Seq(Blocks), next : Nat \ {0}] /\ gap' \in GapType
      /\ RingFits' /\ ListFits' /\ pc' \in {"idle", "room", "lastgap"} /\ (pc' = "idle" <=> ~list'.owns)
      /\ (held => pc' = "idle") /\ (list'.owns => list.owns)
      /\ (list.owns /\ list.stop => ~list'.owns /\ list'.state = (IF held THEN "error" ELSE "aborted"))
  <2>1. CASE list.owns
    <3>1. EndItem(outcome, play, held)
      BY <2>1 DEF Finish
    <3>2. ~Full
      BY <2>1 DEF PlaylistInv, ListFits
    <3> QED BY <1>6, <2>1, <3>1, <3>2, TypedFacts, EndItemFacts
  <2>2. CASE ~list.owns
    <3>1. Rests /\ UNCHANGED <<list, ring>>
      BY <2>2 DEF Finish
    <3>2. pc' = "idle" /\ gap' \in GapType
      BY <3>1, RestsFacts
    <3>3. RingFits' /\ ListFits'
      BY <2>2, <3>1 DEF PlaylistInv, RingFits, ListFits
    <3>4. list \in ListType /\ ring \in [blocks : Seq(Blocks), next : Nat \ {0}]
      BY DEF PlaylistInv, RecordsTyped
    <3> QED BY <2>2, <3>1, <3>2, <3>3, <3>4
  <2> QED BY <2>1, <2>2
<1>8. pc' \notin RunPoints /\ pc' \in {"idle"} \cup ItemPoints /\ (pc' \in ItemPoints => pc' # "idle")
  BY <1>7 DEF RunPoints, ItemPoints
<1>9. card' \in CardType => RecordsTyped'
  BY <1>3, <1>4, <1>5, <1>7, <1>8 DEF RecordsTyped
<1>10. PointsFit'
  <2>1. play'.left + play'.sent + (IF Pending' THEN 1 ELSE 0) =< run'.len
    BY <1>3, <1>4, <1>5 DEF Pending
  <2> QED BY <1>3, <1>7, <1>8, <2>1 DEF PointsFit
<1> QED BY <1>3, <1>7, <1>8, <1>9, <1>10

LEMMA CleanupRunKeeps ==
  ASSUME PlaylistInv, CleanupRun
  PROVE  PlaylistInv'
<1>1. pc \in RunPoints /\ pc # "idle"
  BY DEF CleanupRun, RunPoints
<1>2. ~card.cleanup /\ run.busy
  BY <1>1, TypedFacts DEF CardFits, PlaylistInv, PointsFit
<1>3. card.media = "local"
  BY <1>2, TypedFacts DEF CardFits, CardType
<1>4. RunOutcome \in Outcomes /\ "error" \in Outcomes
  BY DEF RunOutcome, Outcomes
<1>5. CASE card' = Released /\ Finish(RunOutcome, FALSE)
  <2>1. card' \in CardType /\ card'.owned = FALSE /\ card'.mounted = FALSE /\ ~card'.cleanup /\ card'.media = "local"
    BY <1>2, <1>3, <1>5, TypedFacts DEF Released, CardType
  <2>2. (card' \in CardType => RecordsTyped') /\ PointsFit' /\ RingFits' /\ ListFits'
    BY <1>1, <1>4, <1>5, FinishFacts
  <2>3. CardFits'
    BY <2>1 DEF CardFits
  <2> QED BY <2>1, <2>2, <2>3 DEF PlaylistInv
<1>6. CASE /\ \E primary \in BOOLEAN : card' = [Held EXCEPT !.primary = primary]
           /\ Finish("error", TRUE)
  <2>1. PICK primary \in BOOLEAN : card' = [Held EXCEPT !.primary = primary]
    BY <1>6
  <2>2. Held \in CardType /\ Held.owned = TRUE /\ Held.mounted = TRUE /\ Held.cleanup = TRUE /\ Held.media = card.media
    BY TypedFacts DEF Held, CardType
  <2>3. card' \in CardType /\ card'.owned = TRUE /\ card'.mounted = TRUE /\ card'.cleanup /\ card'.media = "local"
    BY <1>3, <2>1, <2>2 DEF CardType
  <2>4. (card' \in CardType => RecordsTyped') /\ PointsFit' /\ RingFits' /\ ListFits' /\ pc' = "idle"
    BY <1>1, <1>4, <1>6, FinishFacts
  <2>5. CardFits'
    BY <2>3, <2>4 DEF CardFits
  <2> QED BY <2>3, <2>4, <2>5 DEF PlaylistInv
<1> QED BY <1>5, <1>6 DEF CleanupRun

-----------------------------------------------------------------------------
(* Whatever step the player, the USB task, the host or the clock takes,    *)
(* the records, the ring, the list and the card keep fitting together.     *)
THEOREM PlaylistStep == PlaylistInv /\ [Next]_vars => PlaylistInv'
<1> SUFFICES ASSUME PlaylistInv, [Next]_vars PROVE PlaylistInv'
  OBVIOUS
<1>1. CASE UNCHANGED vars
  <2>1. UNCHANGED <<pc, list, ring, run, card, gap, play, stream>>
    BY <1>1 DEF vars
  <2>2. CardFits'
    BY <2>1, TypedFacts DEF CardFits
  <2> QED BY <2>1, <2>2, RunStepKeeps, TypedFacts, SamePlaceHolds
<1>2. CASE PlayerStep
  BY <1>2, MountCardKeeps, LoadFileKeeps, StartOutputKeeps, AwaitOutputEndKeeps, FlushOutputKeeps, CleanupRunKeeps,
     RefuseLateKeeps, PauseForRingKeeps, PlanStartKeeps, GapStoppedKeeps, GapEndsKeeps, LastGapEndsKeeps DEF PlayerStep
<1>3. CASE Serve
  <2>1. ASSUME NEW seq \in 1..ring.next - 1, ServeAck(seq) PROVE PlaylistInv'
    <3>1. seq \in Nat
      BY TypedFacts
    <3> QED BY <2>1, <3>1, ServeAckKeeps
  <2> QED BY <1>3, <2>1, ServeLoadKeeps, ServeFilesKeeps, ServePlayKeeps, ServePlaylistKeeps DEF Serve
<1>4. CASE CodecDrains \/ MediaHost \/ MediaLocal \/ HostOpens \/ HostCloses \/ ServeStop
  BY <1>4, CodecDrainsKeeps, MediaHostKeeps, MediaLocalKeeps, HostOpensKeeps, HostClosesKeeps, ServeStopKeeps
<1>5. CASE \E packet \in BOOLEAN : Millisecond(packet)
  BY <1>5, MillisecondKeeps
<1> QED BY <1>1, <1>2, <1>3, <1>4, <1>5 DEF Next

THEOREM PlaylistInvariant == Spec => []PlaylistInv
<1> QED BY PlaylistStarts, PlaylistStep, PTL DEF Spec

(* No result block is dropped, repeated or out of place, and a list is     *)
(* done only when every item has one (record_result(),                     *)
(* wait_for_result_room(), acknowledge_results()).                         *)
THEOREM ResultsAreKept == Spec => []ResultsKept
<1>1. PlaylistInv => ResultsKept
  <2> SUFFICES ASSUME PlaylistInv PROVE ResultsKept
    OBVIOUS
  <2>1. TypeOK
    <3>1. play.left + play.sent =< run.len
      BY TypedFacts DEF PlaylistInv, PointsFit, PlayType, RunType
    <3>2. list.state \in {"idle", "running", "gap", "paused_ring_full", "done", "aborted", "error"}
      BY TypedFacts DEF ListType
    <3>3. run.state \in {"waiting", "busy", "done", "aborted", "fault"}
      BY TypedFacts DEF RunType
    <3>4. stream.sent \in 0..Wrap - 1 /\ gap.end \in 0..Wrap - 1
      BY TypedFacts DEF StreamType, GapType
    <3> QED BY <3>1, <3>2, <3>3, <3>4, TypedFacts DEF TypeOK, PlaylistInv, PointsFit
  <2>2. list.owns /\ pc \in RunPoints => ~Full /\ list.index = list.completed + 1
    BY DEF PlaylistInv, ListFits
  <2> QED BY <2>1, <2>2 DEF PlaylistInv, RingFits, ListFits, ResultsKept
<1> QED BY <1>1, PlaylistInvariant, PTL

(* The host has the card only while the player neither holds it nor may    *)
(* mount it, and an idle player holds it only for a cleanup                *)
(* (player_allows_media_host(), cleanup_player_run()).                     *)
THEOREM TheCardStays == Spec => []CardStays
<1>1. PlaylistInv => CardStays
  <2> SUFFICES ASSUME PlaylistInv PROVE CardStays
    OBVIOUS
  <2>1. pc \in {"idle"} \cup ItemPoints => pc \notin RunPoints
    BY DEF ItemPoints, RunPoints
  <2>2. card.mounted => card.owned
    BY TypedFacts DEF CardFits, CardType
  <2> QED BY <2>1, <2>2, TypedFacts DEF CardFits, CardStays
<1> QED BY <1>1, PlaylistInvariant, PTL

-----------------------------------------------------------------------------
(* After STOP.                                                             *)
StopStep ==
  list.owns /\ list.stop =>
    /\ pc' = "mount" => pc = "mount"
    /\ ~list'.owns => list'.state = (IF card'.cleanup THEN "error" ELSE "aborted")

(* The steps that leave the list its owner begin no run after STOP.        *)
LEMMA OwnerStays ==
  ASSUME list'.owns = list.owns, pc' # "mount" \/ pc' = pc
  PROVE  StopStep
BY DEF StopStep

LEMMA ListAborts ==
  ASSUME PlaylistInv, pc \in ItemPoints, list' = EndedList(list, "aborted"), Rests, UNCHANGED card
  PROVE  StopStep
<1>1. list'.state = "aborted"
  BY EndedListFacts, TypedFacts
<1>2. ~card'.cleanup
  BY TypedFacts DEF CardFits, ItemPoints
<1>3. pc' # "mount"
  BY RestsFacts
<1> QED BY <1>1, <1>2, <1>3 DEF StopStep

LEMMA StopHolds ==
  ASSUME PlaylistInv, [Next]_vars
  PROVE  StopStep
<1>1. CASE UNCHANGED vars
  BY <1>1, OwnerStays DEF vars
<1>2. CASE MountCard \/ LoadFile \/ StartOutput \/ AwaitOutputEnd \/ FlushOutput \/ RefuseLate
  <2>1. UNCHANGED list
    BY <1>2 DEF MountCard, LoadFile, StartOutput, AwaitOutputEnd, FlushOutput, RefuseLate
  <2>2. pc' # "mount" \/ pc' = pc
    BY <1>2 DEF MountCard, LoadFile, StartOutput, AwaitOutputEnd, FlushOutput, RefuseLate, StopOutput
  <2> QED BY <2>1, <2>2, OwnerStays
<1>3. CASE CodecDrains \/ MediaHost \/ MediaLocal \/ HostOpens \/ HostCloses
  BY <1>3, OwnerStays DEF CodecDrains, MediaHost, MediaLocal, HostOpens, HostCloses
<1>4. CASE \E packet \in BOOLEAN : Millisecond(packet)
  BY <1>4, OwnerStays DEF Millisecond
<1>5. CASE ServeLoad \/ ServeFiles \/ \E seq \in 1..ring.next - 1 : ServeAck(seq)
  BY <1>5, OwnerStays DEF ServeLoad, ServeFiles, ServeAck
<1>6. CASE ServePlay \/ \E items \in Lists, continue \in BOOLEAN : ServePlaylist(items, continue)
  BY <1>6 DEF ServePlay, ServePlaylist, StopStep
<1>7. CASE ServeStop
  <2>1. list'.owns = list.owns
    BY <1>7, TypedFacts DEF ServeStop, ListType
  <2>2. pc' = pc
    BY <1>7 DEF ServeStop
  <2> QED BY <2>1, <2>2, OwnerStays
<1>8. CASE CleanupRun
  <2>1. pc \in RunPoints /\ pc # "idle"
    BY <1>8 DEF CleanupRun, RunPoints
  <2>2. RunOutcome \in Outcomes /\ "error" \in Outcomes
    BY DEF RunOutcome, Outcomes
  <2>3. CASE card' = Released /\ Finish(RunOutcome, FALSE)
    <3>1. ~card'.cleanup
      BY <2>1, <2>3, TypedFacts DEF Released, CardFits, CardType
    <3>2. /\ pc' \in {"idle"} \cup ItemPoints
          /\ list.owns /\ list.stop => ~list'.owns /\ list'.state = "aborted"
      BY <2>1, <2>2, <2>3, FinishFacts
    <3>3. pc' # "mount"
      BY <3>2 DEF ItemPoints
    <3> QED BY <3>1, <3>2, <3>3 DEF StopStep
  <2>4. CASE (\E primary \in BOOLEAN : card' = [Held EXCEPT !.primary = primary]) /\ Finish("error", TRUE)
    <3>1. card'.cleanup
      BY <2>4, TypedFacts DEF Held, CardType
    <3>2. /\ pc' = "idle"
          /\ list.owns /\ list.stop => ~list'.owns /\ list'.state = "error"
      BY <2>1, <2>2, <2>4, FinishFacts
    <3> QED BY <3>1, <3>2 DEF StopStep
  <2> QED BY <1>8, <2>3, <2>4 DEF CleanupRun
<1>9. CASE PauseForRing
  <2>1. pc \in ItemPoints /\ UNCHANGED card
    BY <1>9 DEF PauseForRing, ItemPoints
  <2>2. CASE list.stop
    BY <1>9, <2>1, <2>2, ListAborts DEF PauseForRing
  <2>3. CASE ~list.stop
    BY <2>3 DEF StopStep
  <2> QED BY <2>2, <2>3
<1>10. CASE PlanStart \/ GapEnds \/ LastGapEnds
  BY <1>10 DEF PlanStart, GapEnds, LastGapEnds, StopStep
<1>11. CASE GapStopped
  <2>1. pc \in ItemPoints
    BY <1>11 DEF GapStopped, ItemPoints
  <2> QED BY <1>11, <2>1, ListAborts DEF GapStopped
<1> QED BY <1>1, <1>2, <1>3, <1>4, <1>5, <1>6, <1>7, <1>8, <1>9, <1>10, <1>11 DEF Next, PlayerStep, Serve

(* After STOP no later item begins, and the list ends as aborted, or in    *)
(* error if the card could not be released, whatever the item under way    *)
(* ended in (stop_command(), end_after()).                                 *)
THEOREM StopEndsTheList == Spec => StopIsLast
<1>1. PlaylistInv /\ [Next]_vars => [StopStep]_vars
  BY StopHolds
<1>2. Spec => [][StopStep]_vars
  BY <1>1, PlaylistInvariant, PTL DEF Spec
<1> QED BY <1>2 DEF StopIsLast, StopStep

-----------------------------------------------------------------------------
(* The arithmetic of an index that wraps.                                  *)
Turn(x) == x % Wrap

LEMMA TurnFacts ==
  /\ \A x \in Int : Turn(x) \in 0..Wrap - 1
  /\ \A x \in Int : -Wrap =< x /\ x < 2 * Wrap =>
       Turn(x) = IF x < 0 THEN x + Wrap ELSE IF x < Wrap THEN x ELSE x - Wrap
<1>1. Wrap \in Nat \ {0}
  BY WrapIsPositive
<1>2. \A y \in 0..Wrap - 1 : y % Wrap = y /\ (y - Wrap) % Wrap = y /\ (y + Wrap) % Wrap = y
  BY <1>1
<1>3. ASSUME NEW x \in Int, -Wrap =< x, x < 2 * Wrap
      PROVE  Turn(x) = IF x < 0 THEN x + Wrap ELSE IF x < Wrap THEN x ELSE x - Wrap
  <2>1. CASE x < 0
    <3>1. x + Wrap \in 0..Wrap - 1 /\ (x + Wrap) - Wrap = x
      BY <1>1, <1>3, <2>1
    <3> QED BY <1>2, <2>1, <3>1 DEF Turn
  <2>2. CASE x >= 0 /\ x < Wrap
    <3>1. x \in 0..Wrap - 1
      BY <1>1, <2>2
    <3> QED BY <1>2, <2>2, <3>1 DEF Turn
  <2>3. CASE x >= Wrap
    <3>1. x - Wrap \in 0..Wrap - 1 /\ (x - Wrap) + Wrap = x /\ ~(x < 0) /\ ~(x < Wrap)
      BY <1>1, <1>3, <2>3
    <3> QED BY <1>2, <3>1 DEF Turn
  <2> QED BY <1>1, <2>1, <2>2, <2>3
<1>4. \A x \in Int : Turn(x) \in 0..Wrap - 1
  BY IndexWraps DEF Turn
<1> QED BY <1>3, <1>4

(* Turning first changes nothing.                                          *)
LEMMA TurnAdds ==
  ASSUME NEW a \in Int, NEW b \in Int
  PROVE  Turn(Turn(a) + b) = Turn(a + b)
<1>1. Wrap \in Nat \ {0}
  BY WrapIsPositive
<1> DEFINE q == a \div Wrap
           r == a % Wrap
<1>2. q \in Int /\ r \in 0..Wrap - 1 /\ a = Wrap * q + r
  BY <1>1
<1> DEFINE p == (r + b) \div Wrap
           s == (r + b) % Wrap
<1> HIDE DEF q, r
<1>3. p \in Int /\ s \in 0..Wrap - 1 /\ r + b = Wrap * p + s
  BY <1>1, <1>2
<1> HIDE DEF p, s
<1>4. a + b = Wrap * (p + q) + s
  BY <1>1, <1>2, <1>3
<1>5. ASSUME NEW k \in Int, NEW t \in 0..Wrap - 1 PROVE (Wrap * k + t) % Wrap = t
  BY <1>1
<1>6. (a + b) % Wrap = s
  BY <1>2, <1>3, <1>4, <1>5
<1> QED BY <1>6 DEF Turn, r, s

(* An index s is n packets past the start of a gap of l that ends at e.     *)
Apart(s, e, n, l) == Turn(s + l) = Turn(e + n)

(* The stream has reached the end of a gap when it has counted its length. *)
LEMMA ReachedWhenCounted ==
  ASSUME NEW s \in 0..Wrap - 1, NEW e \in 0..Wrap - 1, NEW n \in 0..Patience + 1, NEW l \in 0..Patience,
         Apart(s, e, n, l)
  PROVE  IndexReached(s, e) <=> n >= l
<1> DEFINE h == Wrap \div 2
<1>1. Wrap \in Nat /\ Patience \in Nat /\ 2 * (Patience + 2) =< Wrap
  BY PlaylistConstants
<1>2. h \in Nat /\ Patience + 2 =< h /\ h + Patience =< Wrap
  <2>1. Wrap = 2 * h \/ Wrap = 2 * h + 1
    BY <1>1
  <2>2. h \in Int
    BY <1>1
  <2> HIDE DEF h
  <2> QED BY <1>1, <2>1, <2>2
<1> HIDE DEF h
<1>3. Turn(s - e) = IF s < e THEN s - e + Wrap ELSE s - e
  BY <1>1, TurnFacts
<1>4. Turn(s + l) = IF s + l < Wrap THEN s + l ELSE s + l - Wrap
  BY <1>1, TurnFacts
<1>5. Turn(e + n) = IF e + n < Wrap THEN e + n ELSE e + n - Wrap
  BY <1>1, TurnFacts
<1>6. Turn(s - e) < h <=> n >= l
  BY <1>1, <1>2, <1>3, <1>4, <1>5 DEF Apart
<1> QED BY <1>6 DEF IndexReached, Turn, h

LEMMA CountsOn ==
  \A s, e, n, l \in Int : Apart(s, e, n, l) => Apart(Turn(s + 1), e, n + 1, l)
<1> SUFFICES ASSUME NEW s \in Int, NEW e \in Int, NEW n \in Int, NEW l \in Int, Turn(s + l) = Turn(e + n)
             PROVE  Turn(Turn(s + 1) + l) = Turn(e + (n + 1))
  BY DEF Apart
<1>1. Turn(Turn(s + 1) + l) = Turn(s + 1 + l)
  BY TurnAdds
<1> DEFINE x == s + l
           y == e + n
<1>2. x \in Int /\ y \in Int /\ s + 1 + l = x + 1 /\ e + (n + 1) = y + 1
  OBVIOUS
<1>4. Turn(x) = Turn(y)
  OBVIOUS
<1> HIDE DEF x, y
<1>3. Turn(Turn(x) + 1) = Turn(x + 1)
  BY <1>2, TurnAdds
<1>5. Turn(Turn(y) + 1) = Turn(y + 1)
  BY <1>2, TurnAdds
<1> QED BY <1>1, <1>2, <1>3, <1>4, <1>5

-----------------------------------------------------------------------------
(* What of GapInv stands when the step leaves its variables alone.         *)
LEMMA OpeningsStand ==
  ASSUME OpeningsArePast, UNCHANGED <<gap, stream>>, play'.opens = play.opens, play'.armed => play.armed,
         pc' = "idle" => pc = "idle"
  PROVE  OpeningsArePast'
BY DEF OpeningsArePast, Pending

LEMMA PlayStands ==
  ASSUME PlayTimed, UNCHANGED stream, clock'.quiet = clock.quiet, play'.sent = play.sent, play'.opens = play.opens
  PROVE  PlayTimed'
BY DEF PlayTimed, Pending

LEMMA GapStands ==
  ASSUME GapTimed, UNCHANGED <<gap, stream>>, clock \in ClockType, clock' \in ClockType, clock'.quiet = clock.quiet,
         clock'.ticks >= clock.ticks, pc' \notin OutputPoints => pc \notin OutputPoints
  PROVE  GapTimed'
<1> SUFFICES ASSUME gap'.opens # 0, SameOpenStream', pc' \notin OutputPoints
             PROVE  \E n \in 0..Patience + 1 : Past(n)' /\ Counted(n)'
  BY DEF GapTimed
<1>1. SameOpenStream
  BY DEF SameOpenStream
<1>2. PICK n \in 0..Patience + 1 : Past(n) /\ Counted(n)
  BY <1>1 DEF GapTimed
<1>3. Past(n)'
  BY <1>2 DEF Past
<1>4. Patience \in Nat /\ clock.ticks \in 0..Patience /\ clock'.ticks \in 0..Patience
  BY PlaylistConstants DEF ClockType
<1>5. n =< clock.ticks \/ clock.ticks = Patience => n =< clock'.ticks \/ clock'.ticks = Patience
  BY <1>4
<1>6. Counted(n)'
  BY <1>2, <1>5 DEF Counted
<1> QED BY <1>3, <1>6

LEMMA StartStands ==
  ASSUME StartTimed, UNCHANGED <<gap, stream>>, clock'.quiet = clock.quiet, run'.start = run.start, run'.busy = run.busy,
         play'.sent = play.sent, play'.ahead = play.ahead,
         play'.armed /\ ~run'.stop => play.armed /\ ~run.stop /\ play'.left = play.left /\ play'.start = play.start
  PROVE  StartTimed'
<1>1. (Scheduled' <=> Scheduled) /\ (Pending' <=> Pending)
  BY DEF Scheduled, SameOpenStream, Pending
<1>2. ~(Scheduled' /\ play'.armed /\ ~Pending' /\ ~run'.stop) \/ (Scheduled /\ play.armed /\ ~Pending /\ ~run.stop)
  BY <1>1
<1>3. gap' = gap /\ stream' = stream /\ clock'.quiet = clock.quiet
  OBVIOUS
<1>4. Past(clock.quiet)' <=> Past(clock.quiet)
  BY <1>3 DEF Past
<1>5. run'.start # NoStart => run'.start = gap'.end /\ gap'.opens # 0 /\ run'.busy
  BY DEF StartTimed
<1>6. Scheduled' /\ Pending' => clock'.quiet >= gap'.length /\ (play'.ahead => clock'.quiet = gap'.length)
  BY <1>1 DEF StartTimed
<1>7. ASSUME Scheduled', play'.armed, ~Pending', ~run'.stop
      PROVE  /\ play'.left > 0 /\ stream'.loaded # "old" /\ ~play'.ahead
             /\ IF play'.start = NoStart THEN clock'.quiet + 1 >= gap'.length
                ELSE play'.start = gap'.end /\ Past(clock.quiet)' /\ clock'.quiet < gap'.length
  BY <1>2, <1>4, <1>7 DEF StartTimed, Past
<1> QED BY <1>5, <1>6, <1>7 DEF StartTimed

(* What GapKept says of a step.                                            *)
GapStep ==
  /\ FirstPacket /\ run.start # NoStart /\ gap.clean /\ SameOpenStream =>
       clock.quiet >= gap.length /\ (play.ahead => clock.quiet = gap.length)
  /\ pc = "gap" /\ pc' = "mount" => clock.ticks >= gap.length \/ (SameOpenStream /\ clock.quiet >= gap.length)

LEMMA NoPacketNoGap ==
  ASSUME play'.sent = play.sent \/ play'.sent = 0, pc # "gap" \/ pc' # "mount"
  PROVE  GapStep
BY DEF GapStep, FirstPacket

(* Commands and cards leave the stream and the times alone.                *)
LEMMA CommandKeepsGap ==
  ASSUME GapInv, UNCHANGED <<pc, gap, play, stream, clock>>, run'.start = run.start, run'.busy = run.busy,
         run'.fault = run.fault, run'.route = run.route, run'.stop = run.stop \/ run'.stop = TRUE \/ pc = "idle"
  PROVE  GapInv' /\ GapStep
<1>1. OpeningsArePast' /\ PlayTimed'
  BY OpeningsStand, PlayStands DEF GapInv
<1>2. clock' \in ClockType /\ clock'.ticks >= clock.ticks
  BY PlaylistConstants DEF GapInv, ClockType
<1>3. GapTimed'
  BY <1>2, GapStands DEF GapInv
<1>4. play.armed => pc # "idle"
  BY DEF GapInv, PlayIsUnbroken
<1>5. StartTimed'
  BY <1>4, StartStands DEF GapInv
<1>6. pc = "idle" => play.sent = 0 /\ ~Pending
  BY DEF GapInv, PlayIsUnbroken, OutputPoints
<1>7. PlayIsUnbroken'
  <2>1. play.sent > 0 => pc # "idle"
    BY <1>6
  <2> QED BY <2>1 DEF GapInv, PlayIsUnbroken, Pending, Faulted
<1>8. GapStep
  BY NoPacketNoGap
<1> QED BY <1>1, <1>2, <1>3, <1>5, <1>7, <1>8 DEF GapInv

LEMMA ServeKeepsGap ==
  ASSUME PlaylistInv, GapInv,
         \/ ServeLoad \/ ServeFiles \/ ServeStop \/ RefuseLate \/ MediaHost \/ MediaLocal
         \/ \E seq \in 1..ring.next - 1 : ServeAck(seq)
  PROVE  GapInv' /\ GapStep
<1>1. UNCHANGED <<pc, gap, play, stream, clock>>
  BY DEF ServeLoad, ServeFiles, ServeStop, RefuseLate, MediaHost, MediaLocal, ServeAck
<1>2. /\ run'.start = run.start /\ run'.busy = run.busy /\ run'.fault = run.fault /\ run'.route = run.route
      /\ run'.stop = run.stop \/ run'.stop = TRUE
  <2>1. CASE UNCHANGED run
    BY <2>1
  <2>2. CASE run' = [run EXCEPT !.state = "waiting"]
    BY <2>2, TypedFacts DEF RunType
  <2>3. CASE run' = [run EXCEPT !.stop = @ \/ run.busy]
    <3>1. run.stop \in BOOLEAN /\ run.busy \in BOOLEAN
      BY TypedFacts DEF RunType
    <3>2. run'.stop = (run.stop \/ run.busy)
      BY <2>3, TypedFacts DEF RunType
    <3>3. run'.start = run.start /\ run'.busy = run.busy /\ run'.fault = run.fault /\ run'.route = run.route
      BY <2>3, TypedFacts DEF RunType
    <3> QED BY <3>1, <3>2, <3>3
  <2> QED BY <2>1, <2>2, <2>3 DEF ServeLoad, ServeFiles, ServeStop, RefuseLate, MediaHost, MediaLocal, ServeAck
<1> QED BY <1>1, <1>2, CommandKeepsGap

(* The player goes on to load the file, or its output has played.          *)
LEMMA RunGoesOnInGap ==
  ASSUME GapInv, UNCHANGED <<gap, play, stream, clock, run>>,
         \/ pc = "mount" /\ pc' = "mounted"
         \/ pc = "mounted" /\ pc' = "produce"
         \/ pc = "produce" /\ pc' = "await"
  PROVE  GapInv' /\ GapStep
<1>1. OpeningsArePast' /\ PlayTimed'
  BY OpeningsStand, PlayStands DEF GapInv
<1>2. clock' \in ClockType /\ clock'.ticks >= clock.ticks
  BY PlaylistConstants DEF GapInv, ClockType
<1>3. GapTimed'
  <2>1. pc \notin OutputPoints
    BY DEF OutputPoints
  <2> QED BY <1>2, <2>1, GapStands DEF GapInv
<1>4. StartTimed'
  BY StartStands DEF GapInv
<1>5. PlayIsUnbroken'
  BY DEF GapInv, PlayIsUnbroken, Pending, Faulted, OutputPoints
<1>6. GapStep
  BY NoPacketNoGap
<1> QED BY <1>1, <1>2, <1>3, <1>4, <1>5, <1>6 DEF GapInv

(* stop_output(), whatever it was called for.                              *)
LEMMA OutputStopsInGap ==
  ASSUME GapInv, pc \in {"mount", "mounted", "produce", "await"}, pc' = "flush", UNCHANGED <<gap, stream, clock>>,
         run'.start = run.start, run'.busy = run.busy, ~play'.armed, play'.sent = play.sent, play'.opens = play.opens,
         play'.start = play.start, play'.ahead = play.ahead
  PROVE  GapInv' /\ GapStep
<1>1. OpeningsArePast' /\ PlayTimed'
  BY OpeningsStand, PlayStands DEF GapInv
<1>2. clock' \in ClockType /\ clock'.ticks >= clock.ticks
  BY PlaylistConstants DEF GapInv, ClockType
<1>3. GapTimed'
  BY <1>2, GapStands DEF GapInv, OutputPoints
<1>4. StartTimed'
  BY StartStands DEF GapInv
<1>5. PlayIsUnbroken'
  BY DEF GapInv, PlayIsUnbroken, Pending, Faulted, OutputPoints
<1>6. GapStep
  BY NoPacketNoGap
<1> QED BY <1>1, <1>2, <1>3, <1>4, <1>5, <1>6 DEF GapInv

LEMMA RunStopsInGap ==
  ASSUME PlaylistInv, GapInv, pc \in {"mount", "mounted", "produce", "await"}, StopOutput, UNCHANGED <<gap, stream, clock>>,
         run' = run \/ (\E e \in Failures : run' = Latch(e)) \/ run' = [run EXCEPT !.stop = TRUE]
  PROVE  GapInv' /\ GapStep
<1>1. run'.start = run.start /\ run'.busy = run.busy
  <2>1. CASE \E e \in Failures : run' = Latch(e)
    BY <2>1, TypedFacts DEF Latch, RunType
  <2>2. CASE run' = run \/ run' = [run EXCEPT !.stop = TRUE]
    BY <2>2, TypedFacts DEF RunType
  <2> QED BY <2>1, <2>2
<1>2. /\ pc' = "flush" /\ ~play'.armed /\ play'.sent = play.sent /\ play'.opens = play.opens
      /\ play'.start = play.start /\ play'.ahead = play.ahead
  BY TypedFacts DEF StopOutput, PlayType
<1> QED BY <1>1, <1>2, OutputStopsInGap

LEMMA LoadKeepsGap ==
  ASSUME PlaylistInv, GapInv, MountCard \/ LoadFile \/ AwaitOutputEnd
  PROVE  GapInv' /\ GapStep
<1>1. UNCHANGED <<gap, stream, clock>> /\ pc \in {"mount", "mounted", "produce", "await"}
  BY DEF MountCard, LoadFile, AwaitOutputEnd
<1>2. "mount" \in Failures /\ "card" \in Failures /\ "playing" \in Failures
  BY DEF Failures
<1>3. CASE StopOutput
  <2>1. \/ run' = run \/ run' = [run EXCEPT !.stop = TRUE]
        \/ run' = Latch("mount") \/ run' = Latch("card") \/ run' = Latch("playing") \/ run' = Latch(SinkFault)
    <3>1. CASE MountCard
      BY <3>1 DEF MountCard
    <3>2. CASE LoadFile
      BY <3>2 DEF LoadFile
    <3>3. CASE AwaitOutputEnd
      BY <3>3 DEF AwaitOutputEnd
    <3> QED BY <3>1, <3>2, <3>3
  <2>2. run' = run \/ (\E e \in Failures : run' = Latch(e)) \/ run' = [run EXCEPT !.stop = TRUE]
    BY <1>2, <2>1, SinkFaultFails
  <2> QED BY <1>1, <1>3, <2>2, RunStopsInGap
<1>4. CASE ~StopOutput
  <2>1. UNCHANGED <<run, play>>
    BY <1>4 DEF MountCard, LoadFile, AwaitOutputEnd
  <2>2. \/ pc = "mount" /\ pc' = "mounted"
        \/ pc = "mounted" /\ pc' = "produce"
    BY <1>4 DEF MountCard, LoadFile, AwaitOutputEnd
  <2> QED BY <1>1, <2>1, <2>2, RunGoesOnInGap
<1> QED BY <1>3, <1>4

(* start_output(): a start that is still to come is kept for the play.     *)
LEMMA ArmsKeepsGap ==
  ASSUME PlaylistInv, GapInv, pc = "produce", pc' = "await", Arms, ~run.stop, run.route = "usb",
         stream.open, stream.opens = play.opens, clock' = [clock EXCEPT !.still = 0], UNCHANGED <<run, gap, stream>>
  PROVE  GapInv' /\ GapStep
<1> DEFINE ahead == run.start # NoStart /\ gap.opens = stream.opens /\ ~IndexReached((stream.sent + 1) % Wrap, run.start)
           start == IF ahead THEN run.start ELSE NoStart
<1>1. /\ play'.armed = TRUE /\ play'.sent = play.sent /\ play'.opens = play.opens /\ play'.ahead = play.ahead
      /\ play'.left = play.left /\ play'.start = start
  <2>1. start \in Int
    BY TypedFacts DEF RunType, NoStart
  <2>2. play' = [play EXCEPT !.armed = TRUE, !.start = start]
    BY DEF Arms
  <2> HIDE DEF start
  <2> QED BY <2>1, <2>2, TypedFacts DEF PlayType
<1>2. clock' \in ClockType /\ clock'.quiet = clock.quiet /\ clock'.ticks = clock.ticks
  <2>1. 0 \in 0..Stall + 1
    BY PlaylistConstants
  <2> QED BY <2>1 DEF GapInv, ClockType
<1>3. play.sent = 0 /\ ~play.ahead /\ ~Pending /\ play.left > 0 /\ ~Faulted
  BY DEF GapInv, PlayIsUnbroken, OutputPoints
<1> HIDE DEF start
<1>4. OpeningsArePast'
  BY <1>1 DEF GapInv, OpeningsArePast, Pending
<1>5. PlayIsUnbroken'
  BY <1>1, <1>3 DEF GapInv, PlayIsUnbroken, Pending, Faulted, OutputPoints
<1>6. PlayTimed'
  BY <1>1, <1>2, PlayStands DEF GapInv
<1>7. GapTimed'
  BY DEF GapTimed, OutputPoints
<1>8. ASSUME Scheduled', play'.armed, ~Pending', ~run'.stop
      PROVE  /\ play'.left > 0 /\ stream'.loaded # "old" /\ ~play'.ahead
             /\ IF play'.start = NoStart THEN clock'.quiet + 1 >= gap'.length
                ELSE play'.start = gap'.end /\ Past(clock.quiet)' /\ clock'.quiet < gap'.length
  <2>1. gap.clean /\ SameOpenStream /\ run.start # NoStart /\ run.start = gap.end /\ gap.opens # 0
    BY <1>8 DEF Scheduled, SameOpenStream, GapInv, StartTimed
  <2>2. PICK n \in 0..Patience + 1 : Past(n) /\ Counted(n)
    BY <2>1 DEF GapInv, GapTimed, OutputPoints
  <2>3. n = clock.quiet /\ stream.loaded # "old" /\ Past(clock.quiet)
    BY <2>1, <2>2 DEF Counted
  <2>4. /\ stream.sent \in 0..Wrap - 1 /\ gap.end \in 0..Wrap - 1 /\ gap.length \in 0..Patience
        /\ gap.length \in Nat /\ clock.quiet \in 0..Patience /\ Patience \in Nat /\ Wrap \in Nat
    BY <2>1, TypedFacts, PlaylistConstants DEF GapInv, OpeningsArePast, StreamType, GapType, ClockType
  <2>5. Apart(stream.sent, gap.end, clock.quiet, gap.length)
    BY <2>3 DEF Past, Apart, Turn
  <2>6. Apart(Turn(stream.sent + 1), gap.end, clock.quiet + 1, gap.length)
    BY <2>4, <2>5, CountsOn
  <2> DEFINE s == Turn(stream.sent + 1)
             k == clock.quiet + 1
  <2>7. s \in 0..Wrap - 1 /\ k \in 0..Patience + 1
    BY <2>4, TurnFacts
  <2>8. (stream.sent + 1) % Wrap = s
    BY DEF Turn
  <2> HIDE DEF s, k
  <2>9. IndexReached(s, gap.end) <=> k >= gap.length
    BY <2>4, <2>6, <2>7, ReachedWhenCounted DEF s, k
  <2>10. IF start = NoStart THEN k >= gap.length ELSE start = gap.end /\ ~(k >= gap.length)
    BY <2>1, <2>8, <2>9 DEF start, SameOpenStream
  <2>11. start = NoStart => clock.quiet + 1 >= gap.length
    BY <2>10 DEF k
  <2>12. start # NoStart => start = gap.end /\ clock.quiet < gap.length
    BY <2>4, <2>10 DEF k
  <2>13. gap' = gap /\ stream' = stream
    OBVIOUS
  <2>14. Past(clock.quiet)'
    BY <1>2, <2>3, <2>13 DEF Past
  <2> QED BY <1>1, <1>2, <1>3, <2>3, <2>11, <2>12, <2>13, <2>14
<1>9. StartTimed'
  <2>1. run'.start # NoStart => run'.start = gap'.end /\ gap'.opens # 0 /\ run'.busy
    BY DEF GapInv, StartTimed
  <2>2. ~Pending'
    BY <1>3 DEF Pending
  <2> QED BY <1>8, <2>1, <2>2 DEF StartTimed
<1>10. GapStep
  BY <1>1, NoPacketNoGap
<1> QED BY <1>2, <1>4, <1>5, <1>6, <1>7, <1>9, <1>10 DEF GapInv

LEMMA StartKeepsGap ==
  ASSUME PlaylistInv, GapInv, StartOutput
  PROVE  GapInv' /\ GapStep
<1>1. UNCHANGED <<gap, stream>> /\ pc = "produce"
  BY DEF StartOutput
<1>2. "codec" \in Failures /\ "usb_stream_closed" \in Failures
  BY DEF Failures
<1>3. CASE StopOutput /\ (run' = run \/ run' = Latch("codec")) /\ UNCHANGED clock
  BY <1>1, <1>2, <1>3, RunStopsInGap
<1>4. CASE pc' = "await" /\ UNCHANGED <<run, play, clock>>
  BY <1>1, <1>4, RunGoesOnInGap
<1>5. CASE /\ ~run.stop /\ run.route # "codec" /\ stream.open /\ stream.opens = play.opens
           /\ Arms /\ pc' = "await" /\ clock' = [clock EXCEPT !.still = 0] /\ UNCHANGED run
  <2>1. run.route = "usb"
    BY <1>5, TypedFacts DEF RunType, Routes
  <2> QED BY <1>1, <1>5, <2>1, ArmsKeepsGap
<1>6. CASE /\ run' = Latch("usb_stream_closed") /\ pc' = "flush" /\ play' = [play EXCEPT !.interrupted = TRUE] /\ UNCHANGED clock
  <2>1. run'.start = run.start /\ run'.busy = run.busy
    BY <1>6, TypedFacts DEF Latch, RunType
  <2>2. ~play.armed
    BY <1>1 DEF GapInv, PlayIsUnbroken
  <2>3. /\ play'.armed = play.armed /\ play'.sent = play.sent /\ play'.opens = play.opens
        /\ play'.start = play.start /\ play'.ahead = play.ahead
    BY <1>6, TypedFacts DEF PlayType
  <2> QED BY <1>1, <1>6, <2>1, <2>2, <2>3, OutputStopsInGap
<1> QED BY <1>3, <1>4, <1>5, <1>6 DEF StartOutput

LEMMA FlushKeepsGap ==
  ASSUME PlaylistInv, GapInv, FlushOutput
  PROVE  GapInv' /\ GapStep
<1>1. UNCHANGED <<gap, stream, clock, play>> /\ pc = "flush" /\ pc' = "clean"
  BY DEF FlushOutput
<1>2. run'.start = run.start /\ run'.busy = run.busy /\ run'.route = run.route /\ run'.stop = run.stop
  BY TypedFacts DEF FlushOutput, Latch, RunType
<1>3. Pending => Faulted'
  <2>1. ASSUME Pending PROVE run' = Latch("usb_stall")
    BY <2>1 DEF FlushOutput
  <2>2. run' = Latch("usb_stall") => run'.fault # "none"
    BY TypedFacts DEF Latch, RunType
  <2> QED BY <2>1, <2>2 DEF Faulted
<1>4. OpeningsArePast' /\ PlayTimed'
  BY <1>1, OpeningsStand, PlayStands DEF GapInv
<1>5. clock' \in ClockType /\ clock'.ticks >= clock.ticks
  BY <1>1, PlaylistConstants DEF GapInv, ClockType
<1>6. ~play.armed
  BY <1>1 DEF GapInv, PlayIsUnbroken
<1>7. StartTimed'
  BY <1>1, <1>2, <1>6, StartStands DEF GapInv
<1>8. PlayIsUnbroken'
  BY <1>1, <1>3, <1>6 DEF GapInv, PlayIsUnbroken, Pending, OutputPoints
<1>9. GapTimed'
  BY <1>1 DEF GapTimed, OutputPoints
<1>10. GapStep
  BY <1>1, NoPacketNoGap
<1> QED BY <1>4, <1>5, <1>7, <1>8, <1>9, <1>10 DEF GapInv

-----------------------------------------------------------------------------
(* The capture stream opens and closes: nothing of a gap or a play is left *)
(* on it.                                                                  *)
LEMMA HostKeepsGap ==
  ASSUME PlaylistInv, GapInv, HostOpens \/ HostCloses
  PROVE  GapInv' /\ GapStep
<1>1. UNCHANGED <<pc, gap, run>> /\ play' = Closed(play)
  BY DEF HostOpens, HostCloses
<1>2. /\ play'.sent = play.sent /\ play'.opens = play.opens /\ play'.ahead = play.ahead /\ play'.left = play.left
      /\ play'.start = NoStart /\ ~play'.armed
  <2>1. CASE play.armed
    BY <1>1, <2>1, TypedFacts DEF Closed, PlayType
  <2>2. CASE ~play.armed
    BY <1>1, <2>2, TypedFacts DEF Closed, PlayType
  <2> QED BY <2>1, <2>2
<1>3. stream'.loaded = "silence" /\ ~SameOpenStream' /\ ~(stream'.open /\ play'.opens = stream'.opens)
      /\ stream'.opens >= stream.opens /\ (stream'.open => stream'.opens > 0) /\ stream'.opens \in Nat
  <2>1. CASE HostOpens
    <3>1. stream' = [open |-> TRUE, opens |-> stream.opens + 1, sent |-> 0, loaded |-> "silence"]
      BY <2>1 DEF HostOpens
    <3>2. stream.opens \in Nat /\ gap.opens \in Nat /\ play.opens \in Nat
      BY TypedFacts DEF StreamType, GapType, PlayType
    <3> QED BY <1>1, <1>2, <3>1, <3>2 DEF GapInv, OpeningsArePast, SameOpenStream
  <2>2. CASE HostCloses
    <3>1. stream' = [stream EXCEPT !.open = FALSE, !.loaded = "silence", !.sent = 0]
      BY <2>2 DEF HostCloses
    <3> QED BY <3>1, TypedFacts DEF StreamType, SameOpenStream
  <2> QED BY <2>1, <2>2
<1>4. clock' \in ClockType
  <2>1. 0 \in 0..Stall + 1 /\ Patience \in 0..Patience
    BY PlaylistConstants
  <2>2. clock \in ClockType
    BY DEF GapInv
  <2> DEFINE still == IF pc = "idle" THEN clock.still ELSE 0
  <2>3. still \in 0..Stall + 1
    BY <2>1, <2>2 DEF ClockType
  <2>4. clock' = clock \/ clock' = [clock EXCEPT !.still = still, !.quiet = Patience]
    BY DEF HostOpens, HostCloses
  <2> HIDE DEF still
  <2> QED BY <2>1, <2>2, <2>3, <2>4 DEF ClockType
<1>5. OpeningsArePast'
  <2>1. stream.opens \in Nat /\ gap.opens \in Nat /\ play.opens \in Nat
    BY TypedFacts DEF StreamType, GapType, PlayType
  <2> QED BY <1>1, <1>2, <1>3, <2>1 DEF GapInv, OpeningsArePast, Pending
<1>6. PlayIsUnbroken'
  BY <1>1, <1>2, <1>3 DEF GapInv, PlayIsUnbroken, Pending, Faulted
<1>7. PlayTimed' /\ GapTimed'
  BY <1>3 DEF PlayTimed, GapTimed
<1>8. StartTimed'
  BY <1>1, <1>3 DEF GapInv, StartTimed, Scheduled
<1>9. GapStep
  BY <1>1, <1>2, NoPacketNoGap
<1> QED BY <1>4, <1>5, <1>6, <1>7, <1>8, <1>9 DEF GapInv

LEMMA CodecKeepsGap ==
  ASSUME PlaylistInv, GapInv, CodecDrains
  PROVE  GapInv' /\ GapStep
<1>1. UNCHANGED <<pc, run, gap, stream, clock>> /\ run.route = "codec" /\ pc = "await"
  BY DEF CodecDrains
<1>2. /\ play'.sent = play.sent /\ play'.opens = play.opens /\ play'.ahead = play.ahead
      /\ play'.start = play.start /\ play'.armed = play.armed /\ play'.left = 0
  BY TypedFacts DEF CodecDrains, PlayType
<1>3. ~play.armed
  BY <1>1 DEF GapInv, PlayIsUnbroken
<1>4. OpeningsArePast' /\ PlayTimed'
  BY <1>1, <1>2, OpeningsStand, PlayStands DEF GapInv
<1>5. clock' \in ClockType /\ clock'.ticks >= clock.ticks
  BY <1>1, PlaylistConstants DEF GapInv, ClockType
<1>6. StartTimed'
  BY <1>1, <1>2, <1>3, StartStands DEF GapInv
<1>7. PlayIsUnbroken'
  BY <1>1, <1>2, <1>3 DEF GapInv, PlayIsUnbroken, Pending, Faulted, OutputPoints
<1>8. GapTimed'
  BY <1>1 DEF GapTimed, OutputPoints
<1>9. GapStep
  BY <1>1, <1>2, NoPacketNoGap
<1> QED BY <1>4, <1>5, <1>6, <1>7, <1>8, <1>9 DEF GapInv

LEMMA TickFacts ==
  ASSUME GapInv
  PROVE  /\ clock.ticks \in 0..Patience /\ clock.still \in 0..Stall + 1 /\ clock.quiet \in 0..Patience
         /\ AtLeast(clock.ticks, Patience) \in 0..Patience /\ AtLeast(clock.ticks, Patience) >= clock.ticks
         /\ AtLeast(clock.ticks, Patience) = clock.ticks + 1 \/ AtLeast(clock.ticks, Patience) = Patience
         /\ AtLeast(clock.still, Stall + 1) \in 0..Stall + 1
         /\ AtLeast(clock.quiet, Patience) \in 0..Patience
         /\ clock.quiet < Patience => AtLeast(clock.quiet, Patience) = clock.quiet + 1
         /\ clock.quiet >= Patience => AtLeast(clock.quiet, Patience) = Patience
<1>1. clock.ticks \in 0..Patience /\ clock.still \in 0..Stall + 1 /\ clock.quiet \in 0..Patience
  BY DEF GapInv, ClockType
<1>2. Patience \in Nat /\ Stall \in Nat
  BY PlaylistConstants
<1> QED BY <1>1, <1>2 DEF AtLeast

LEMMA LaterFacts ==
  ASSUME GapInv
  PROVE  /\ Later \in ClockType /\ Later.quiet = clock.quiet /\ Later.ticks = AtLeast(clock.ticks, Patience)
         /\ Later.still = AtLeast(clock.still, Stall + 1)
<1> DEFINE t == AtLeast(clock.ticks, Patience)
           u == AtLeast(clock.still, Stall + 1)
<1>1. t \in 0..Patience /\ u \in 0..Stall + 1 /\ clock \in ClockType
  BY TickFacts DEF GapInv
<1>2. Later = [clock EXCEPT !.ticks = t, !.still = u]
  BY DEF Later
<1> HIDE DEF t, u
<1>3. Later \in ClockType /\ Later.quiet = clock.quiet /\ Later.ticks = t /\ Later.still = u
  BY <1>1, <1>2 DEF ClockType
<1> QED BY <1>3 DEF t, u

LEMMA TickKeepsGap ==
  ASSUME PlaylistInv, GapInv, Millisecond(FALSE)
  PROVE  GapInv' /\ GapStep
<1>1. UNCHANGED <<pc, run, gap, stream, play>> /\ clock' = Later
  BY DEF Millisecond
<1>2. clock' \in ClockType /\ clock'.quiet = clock.quiet /\ clock'.ticks >= clock.ticks
  BY <1>1, LaterFacts, TickFacts
<1>3. OpeningsArePast' /\ PlayTimed'
  BY <1>1, <1>2, OpeningsStand, PlayStands DEF GapInv
<1>4. GapTimed'
  BY <1>1, <1>2, GapStands DEF GapInv
<1>5. StartTimed'
  BY <1>1, <1>2, StartStands DEF GapInv
<1>6. PlayIsUnbroken'
  BY <1>1 DEF GapInv, PlayIsUnbroken, Pending, Faulted
<1>7. GapStep
  BY <1>1, NoPacketNoGap
<1> QED BY <1>2, <1>3, <1>4, <1>5, <1>6, <1>7 DEF GapInv

-----------------------------------------------------------------------------
(* A packet.  What it leaves, in the words of the state before it.         *)
LEMMA PacketFacts ==
  ASSUME PlaylistInv, GapInv, SendPacket
  PROVE  /\ stream'.open = stream.open /\ stream'.opens = stream.opens
         /\ stream'.loaded = (IF Fills THEN "file" ELSE "silence")
         /\ stream'.sent = (IF Pending \/ Indexed THEN Turn((IF Pending /\ play.sent = 0 THEN Base ELSE stream.sent) + 1) ELSE 0)
         /\ play'.sent = (IF Pending THEN play.sent + 1 ELSE play.sent)
         /\ play'.opens = play.opens /\ play'.armed = play.armed
         /\ play'.start = (IF Fills THEN NoStart ELSE play.start)
         /\ ~Fills => play'.left = play.left /\ play'.ahead = play.ahead
         /\ Fills => play'.ahead = (play.start # NoStart \/ (play.ahead /\ play.left < run.len))
         /\ clock' \in ClockType /\ clock'.ticks = AtLeast(clock.ticks, Patience)
         /\ clock'.quiet = (IF stream.loaded # "silence" THEN 0 ELSE AtLeast(clock.quiet, Patience))
<1> DEFINE counted == IF Pending THEN [play EXCEPT !.sent = @ + 1] ELSE play
           index == IF Pending /\ play.sent = 0 THEN Base ELSE stream.sent
           sends == IF Pending \/ Indexed THEN Turn(index + 1) ELSE 0
           stalls == counted.stalled \/ (play.armed /\ clock.still > Stall)
           leaves == IF Fills THEN counted.left - 1 ELSE counted.left
           begins == IF Fills THEN NoStart ELSE counted.start
           leads == IF Fills THEN play.start # NoStart \/ (counted.ahead /\ counted.left < run.len) ELSE counted.ahead
           later == Later.quiet
           quiet == IF stream.loaded # "silence" THEN 0 ELSE AtLeast(later, Patience)
<1>1. /\ counted \in PlayType /\ counted.left = play.left /\ counted.opens = play.opens /\ counted.armed = play.armed
      /\ counted.start = play.start /\ counted.ahead = play.ahead
      /\ counted.sent = IF Pending THEN play.sent + 1 ELSE play.sent
  BY TypedFacts DEF PlayType
<1>2. stream' = [stream EXCEPT !.sent = sends, !.loaded = IF Fills THEN "file" ELSE "silence"]
  BY DEF SendPacket, Pending, Turn
<1>3. play' = [counted EXCEPT !.stalled = stalls, !.left = leaves, !.start = begins, !.ahead = leads]
  BY DEF SendPacket, Pending
<1>4. clock' = [Later EXCEPT !.still = 0, !.quiet = quiet]
  BY DEF SendPacket
<1>17. later = clock.quiet
  BY LaterFacts
<1> HIDE DEF counted, later, quiet
<1>5. leads = IF Fills THEN play.start # NoStart \/ (play.ahead /\ play.left < run.len) ELSE play.ahead
  BY <1>1
<1>6. begins = IF Fills THEN NoStart ELSE play.start
  BY <1>1
<1>7. leaves = IF Fills THEN play.left - 1 ELSE play.left
  BY <1>1
<1> HIDE DEF sends, stalls, leaves, begins, leads
<1>8. /\ stream'.open = stream.open /\ stream'.opens = stream.opens /\ stream'.sent = sends
      /\ stream'.loaded = IF Fills THEN "file" ELSE "silence"
  BY <1>2, TypedFacts DEF StreamType
<1>9. /\ play'.sent = counted.sent /\ play'.opens = play.opens /\ play'.armed = play.armed
      /\ play'.start = begins /\ play'.left = leaves /\ play'.ahead = leads
  BY <1>1, <1>3 DEF PlayType
<1>10. clock' \in ClockType /\ clock'.ticks = AtLeast(clock.ticks, Patience) /\ clock'.quiet = quiet
  <2>1. 0 \in 0..Stall + 1 /\ quiet \in 0..Patience
    BY <1>17, TickFacts, PlaylistConstants DEF quiet
  <2>2. Later \in ClockType /\ Later.ticks = AtLeast(clock.ticks, Patience)
    BY LaterFacts
  <2> QED BY <1>4, <2>1, <2>2 DEF ClockType
<1>11. play'.sent = IF Pending THEN play.sent + 1 ELSE play.sent
  BY <1>1, <1>9
<1>12. stream'.sent = IF Pending \/ Indexed THEN Turn((IF Pending /\ play.sent = 0 THEN Base ELSE stream.sent) + 1) ELSE 0
  BY <1>8 DEF sends
<1>13. clock'.quiet = IF stream.loaded # "silence" THEN 0 ELSE AtLeast(clock.quiet, Patience)
  BY <1>10, <1>17 DEF quiet
<1>14. play'.start = IF Fills THEN NoStart ELSE play.start
  BY <1>6, <1>9
<1>15. ~Fills => play'.left = play.left /\ play'.ahead = play.ahead
  BY <1>5, <1>7, <1>9
<1>16. Fills => play'.ahead = (play.start # NoStart \/ (play.ahead /\ play.left < run.len))
  BY <1>5, <1>9
<1> QED BY <1>8, <1>9, <1>10, <1>11, <1>12, <1>13, <1>14, <1>15, <1>16

(* A packet in a gap: one more of the stream, and of what counts there.    *)
LEMMA PacketInGap ==
  ASSUME PlaylistInv, GapInv, SendPacket, pc # "idle", NeedsIndex => clock.quiet < Patience, UNCHANGED <<pc, gap>>
  PROVE  GapTimed'
<1> SUFFICES ASSUME gap'.opens # 0, SameOpenStream', pc' \notin OutputPoints
             PROVE  \E n \in 0..Patience + 1 : Past(n)' /\ Counted(n)'
  BY DEF GapTimed
<1>1. SameOpenStream /\ gap.opens # 0 /\ gap.opens = stream.opens /\ pc \notin OutputPoints
  BY PacketFacts DEF SameOpenStream
<1>2. Indexed /\ clock.quiet < Patience
  BY <1>1 DEF Indexed, NeedsIndex, OutputPoints
<1>3. ~Pending /\ ~Fills
  BY <1>1 DEF GapInv, PlayIsUnbroken, Fills, OutputPoints
<1>4. PICK n \in 0..Patience + 1 : Past(n) /\ Counted(n)
  BY <1>1 DEF GapInv, GapTimed
<1>5. stream'.sent = Turn(stream.sent + 1) /\ stream'.loaded = "silence"
  BY <1>2, <1>3, PacketFacts
<1>6. /\ clock'.ticks = AtLeast(clock.ticks, Patience)
      /\ clock'.quiet = IF stream.loaded # "silence" THEN 0 ELSE clock.quiet + 1
  BY <1>2, PacketFacts, TickFacts
<1>7. /\ clock.quiet \in Nat /\ clock.ticks \in 0..Patience /\ Patience \in Nat
      /\ clock'.ticks = clock.ticks + 1 \/ clock'.ticks = Patience
  BY <1>6, TickFacts, PlaylistConstants
<1>8. stream.loaded \in {"silence", "old"}
  BY <1>3, TypedFacts DEF StreamType, Pending
<1>9. Past(n + 1)'
  <2>1. stream.sent \in Int /\ gap.end \in Int /\ gap.length \in Int /\ n \in Int
    BY TypedFacts, WrapIsPositive, <1>7 DEF StreamType, GapType
  <2>2. Apart(stream.sent, gap.end, n, gap.length)
    BY <1>4 DEF Past, Apart, Turn
  <2>3. Apart(Turn(stream.sent + 1), gap.end, n + 1, gap.length)
    BY <2>1, <2>2, CountsOn
  <2> QED BY <1>5, <2>3 DEF Past, Apart, Turn
<1>10. n + 1 \in 0..Patience + 1 /\ Counted(n + 1)'
  <2>1. CASE n = clock.quiet /\ stream.loaded = "silence"
    BY <1>2, <1>5, <1>6, <1>7, <2>1 DEF Counted
  <2>2. CASE n = clock.quiet /\ stream.loaded = "old"
    <3>1. n = 0 /\ ~gap.clean
      BY <1>4, <2>2 DEF Counted
    <3>2. clock'.quiet = 0 /\ (1 =< clock'.ticks \/ clock'.ticks = Patience)
      BY <1>6, <1>7, <2>2
    <3>3. n + 1 = 1 /\ n + 1 \in 0..Patience + 1 /\ n + 1 =< clock'.quiet + 1
      BY <1>7, <3>1, <3>2
    <3> QED BY <1>5, <3>1, <3>2, <3>3 DEF Counted
  <2>3. CASE ~gap.clean /\ stream.loaded # "old" /\ n =< clock.quiet + 1 /\ (n =< clock.ticks \/ clock.ticks = Patience)
    <3>1. clock'.quiet = clock.quiet + 1
      BY <1>6, <1>8, <2>3
    <3>2. n + 1 =< clock'.ticks \/ clock'.ticks = Patience
      BY <1>6, <1>7, <2>3, TickFacts
    <3>3. n + 1 \in 0..Patience + 1 /\ n + 1 =< clock'.quiet + 1
      BY <1>2, <1>7, <2>3, <3>1
    <3> QED BY <1>5, <2>3, <3>2, <3>3 DEF Counted
  <2> QED BY <1>4, <1>8, <2>1, <2>2, <2>3 DEF Counted
<1> QED BY <1>9, <1>10

(* A packet keeps a play's packets together.                               *)
LEMMA PacketInPlay ==
  ASSUME PlaylistInv, GapInv, SendPacket, pc # "idle", NeedsIndex => clock.quiet < Patience, UNCHANGED <<pc, run, gap>>
  PROVE  OpeningsArePast' /\ PlayIsUnbroken' /\ PlayTimed'
<1>1. /\ play.left \in Nat /\ play.sent \in Nat /\ stream.loaded \in {"silence", "file", "old"}
      /\ stream.sent \in Int /\ Base \in Int /\ clock.quiet \in Nat
  <2>1. Wrap \in Nat /\ play \in PlayType /\ stream \in StreamType
    BY WrapIsPositive, TypedFacts
  <2> QED BY <2>1, TickFacts, PlaylistConstants DEF PlayType, StreamType, Base
<1>2. Fills => play.armed /\ pc = "await"
  BY DEF Fills, GapInv, PlayIsUnbroken
<1>3. Pending' <=> Fills
  BY PacketFacts DEF Pending
<1>4. stream'.loaded # "old"
  BY PacketFacts
<1>5. Pending /\ ~Fills => ~play.armed \/ Faulted \/ run.stop \/ play.left = 0
  BY <1>1 DEF GapInv, PlayIsUnbroken, Fills
<1>6. play.sent > 0 /\ ~Pending => ~Fills /\ stream.loaded = "silence" /\ pc \in OutputPoints
  BY <1>1 DEF GapInv, PlayIsUnbroken, Fills, Pending
<1>7. OpeningsArePast'
  BY <1>2, <1>3, PacketFacts DEF GapInv, OpeningsArePast, Pending
<1>8. PlayIsUnbroken'
  <2>1. pc \notin OutputPoints => play'.sent = 0 /\ ~play'.ahead /\ ~Pending'
    <3> SUFFICES ASSUME pc \notin OutputPoints PROVE play'.sent = 0 /\ ~play'.ahead /\ ~Pending'
      OBVIOUS
    <3>1. ~Fills /\ ~Pending /\ play.sent = 0 /\ ~play.ahead
      BY <1>2 DEF GapInv, PlayIsUnbroken, OutputPoints
    <3> QED BY <1>3, <3>1, PacketFacts
  <2>2. play'.armed => pc = "await" /\ run.route = "usb"
    BY PacketFacts DEF GapInv, PlayIsUnbroken
  <2>3. pc \in {"mount", "mounted", "produce"} => play'.left > 0
    BY <1>2, PacketFacts DEF GapInv, PlayIsUnbroken
  <2>4. pc \notin {"flush", "clean"} => ~Faulted
    BY DEF GapInv, PlayIsUnbroken
  <2>5. ~(pc = "clean" /\ Pending')
    BY <1>2, <1>3
  <2>6. play'.sent > 0 \/ Pending' => play'.start = NoStart
    BY <1>1, <1>3, PacketFacts DEF GapInv, PlayIsUnbroken
  <2>7. ASSUME play'.sent > 0, ~Pending' PROVE ~play'.armed \/ Faulted \/ run.stop \/ play'.left = 0
    <3>1. ~Fills /\ play'.left = play.left /\ play'.armed = play.armed
      BY <1>3, <2>7, PacketFacts
    <3>2. CASE Pending
      BY <1>5, <3>1, <3>2
    <3>3. CASE ~Pending
      <4>1. play.sent > 0
        BY <2>7, <3>3, PacketFacts
      <4> QED BY <3>1, <3>3, <4>1 DEF GapInv, PlayIsUnbroken
    <3> QED BY <3>2, <3>3
  <2>8. Faulted' <=> Faulted
    BY DEF Faulted
  <2> QED BY <1>4, <2>1, <2>2, <2>3, <2>4, <2>5, <2>6, <2>7, <2>8 DEF PlayIsUnbroken
<1>9. PlayTimed'
  <2> SUFFICES ASSUME play'.sent > 0, stream'.open, play'.opens = stream'.opens
               PROVE  /\ stream'.sent = Turn(Base + play'.sent + clock'.quiet)
                      /\ Pending' => clock'.quiet = 0
    BY DEF PlayTimed, Turn
  <2>1. stream.open /\ play.opens = stream.opens
    BY PacketFacts
  <2>2. CASE Pending
    <3>1. clock'.quiet = 0 /\ play'.sent = play.sent + 1
      BY <2>2, PacketFacts DEF Pending
    <3>2. CASE play.sent = 0
      <4>1. stream'.sent = Turn(Base + 1)
        BY <2>2, <3>2, PacketFacts
      <4>2. Base + play'.sent + clock'.quiet = Base + 1
        BY <1>1, <3>1, <3>2
      <4> QED BY <3>1, <4>1, <4>2
    <3>3. CASE play.sent # 0
      <4> DEFINE a == Base + play.sent
      <4>1. stream'.sent = Turn(stream.sent + 1)
        BY <2>2, <3>3, PacketFacts
      <4>2. stream.sent = (Base + play.sent + clock.quiet) % Wrap /\ clock.quiet = 0
        BY <1>1, <2>1, <2>2, <3>3 DEF GapInv, PlayTimed
      <4>3. a \in Int /\ Base + play.sent + clock.quiet = a /\ Base + play'.sent + clock'.quiet = a + 1
        BY <1>1, <3>1, <4>2
      <4> HIDE DEF a
      <4>4. stream.sent = Turn(a)
        BY <4>2, <4>3 DEF Turn
      <4>5. Turn(Turn(a) + 1) = Turn(a + 1)
        BY <4>3, TurnAdds
      <4> QED BY <3>1, <4>1, <4>3, <4>4, <4>5
    <3> QED BY <3>2, <3>3
  <2>3. CASE ~Pending
    <3>1. play'.sent = play.sent /\ play.sent > 0
      BY <2>3, PacketFacts
    <3>2. ~Fills /\ stream.loaded = "silence" /\ pc \in {"await", "flush", "clean"}
      BY <1>6, <2>3, <3>1 DEF OutputPoints
    <3>3. clock.quiet < Patience /\ Indexed
      BY <2>1, <3>1, <3>2 DEF NeedsIndex, Indexed
    <3>4. clock'.quiet = clock.quiet + 1
      BY <3>2, <3>3, PacketFacts, TickFacts
    <3> DEFINE a == Base + play.sent + clock.quiet
    <3>5. stream'.sent = Turn(stream.sent + 1)
      BY <2>3, <3>3, PacketFacts
    <3>6. stream.sent = a % Wrap
      BY <2>1, <3>1 DEF GapInv, PlayTimed
    <3>7. a \in Int /\ Base + play'.sent + clock'.quiet = a + 1
      BY <1>1, <3>1, <3>4
    <3> HIDE DEF a
    <3>8. Turn(Turn(a) + 1) = Turn(a + 1)
      BY <3>7, TurnAdds
    <3>9. stream.sent = Turn(a)
      BY <3>6 DEF Turn
    <3> QED BY <1>3, <3>2, <3>5, <3>7, <3>8, <3>9
  <2> QED BY <2>2, <2>3
<1> QED BY <1>7, <1>8, <1>9

(* A packet before a play that was planned for the end of a gap.           *)
LEMMA PacketBeforePlay ==
  ASSUME PlaylistInv, GapInv, SendPacket, UNCHANGED <<pc, run, gap>>
  PROVE  StartTimed'
<1>1. run'.start # NoStart => run'.start = gap'.end /\ gap'.opens # 0 /\ run'.busy
  BY DEF GapInv, StartTimed
<1>2. Pending' <=> Fills
  BY PacketFacts DEF Pending
<1>3. play.sent \in Nat /\ stream.loaded \in {"silence", "file", "old"} /\ stream.sent \in 0..Wrap - 1
      /\ gap.end \in 0..Wrap - 1 /\ gap.length \in Nat /\ clock.quiet \in 0..Patience /\ Patience \in Nat /\ Wrap \in Nat
      /\ play.left \in Nat
  BY TypedFacts, TickFacts, PlaylistConstants DEF PlayType, StreamType, GapType
<1> SUFFICES ASSUME Scheduled'
             PROVE  /\ Pending' => clock'.quiet >= gap'.length /\ (play'.ahead => clock'.quiet = gap'.length)
                    /\ play'.armed /\ ~Pending' /\ ~run'.stop =>
                         /\ play'.left > 0 /\ stream'.loaded # "old" /\ ~play'.ahead
                         /\ IF play'.start = NoStart THEN clock'.quiet + 1 >= gap'.length
                            ELSE play'.start = gap'.end /\ Past(clock.quiet)' /\ clock'.quiet < gap'.length
  BY <1>1 DEF StartTimed
<1>4. ~Pending /\ Scheduled /\ SameOpenStream
  <2>1. play'.sent = 0
    BY DEF Scheduled
  <2>2. ~Pending /\ play.sent = 0
    BY <1>3, <2>1, PacketFacts
  <2> QED BY <2>2, PacketFacts DEF Scheduled, SameOpenStream
<1>5. gap.length < Patience /\ Indexed
  BY <1>4 DEF GapInv, StartTimed, OpeningsArePast, Scheduled, SameOpenStream, Indexed
<1>6. CASE ~play.armed \/ run.stop
  BY <1>2, <1>6, PacketFacts DEF Fills
<1>7. CASE play.armed /\ ~run.stop
  <2>1. /\ play.left > 0 /\ stream.loaded # "old" /\ ~play.ahead
        /\ IF play.start = NoStart THEN clock.quiet + 1 >= gap.length
           ELSE play.start = gap.end /\ Past(clock.quiet) /\ clock.quiet < gap.length
    BY <1>4, <1>7 DEF GapInv, StartTimed
  <2>2. stream.loaded = "silence"
    BY <1>3, <1>4, <2>1 DEF Pending
  <2>3. clock'.quiet = AtLeast(clock.quiet, Patience) /\ stream'.sent = Turn(stream.sent + 1)
    BY <1>4, <1>5, <2>2, PacketFacts
  <2>4. ~Faulted
    BY <1>7 DEF GapInv, PlayIsUnbroken
  <2>5. CASE play.start = NoStart
    <3>1. Fills /\ ~play'.ahead
      BY <1>7, <2>1, <2>4, <2>5, PacketFacts DEF Fills
    <3>2. clock'.quiet >= gap.length
      BY <1>3, <1>5, <2>1, <2>3, <2>5, TickFacts
    <3> QED BY <1>2, <3>1, <3>2
  <2>6. CASE play.start # NoStart
    <3>1. clock'.quiet = clock.quiet + 1
      BY <1>3, <1>5, <2>1, <2>3, <2>6, TickFacts
    <3>2. Apart(Turn(stream.sent + 1), gap.end, clock.quiet + 1, gap.length)
      <4>1. Apart(stream.sent, gap.end, clock.quiet, gap.length)
        BY <2>1, <2>6 DEF Past, Apart, Turn
      <4>2. stream.sent \in Int /\ gap.end \in Int /\ clock.quiet \in Int /\ gap.length \in Int
        BY <1>3
      <4> QED BY <4>1, <4>2, CountsOn
    <3>3. IndexReached(Turn(stream.sent + 1), gap.end) <=> clock.quiet + 1 >= gap.length
      <4>1. Turn(stream.sent + 1) \in 0..Wrap - 1 /\ clock.quiet + 1 \in 0..Patience + 1 /\ gap.length \in 0..Patience
        BY <1>3, <1>5, TurnFacts
      <4> QED BY <1>3, <3>2, <4>1, ReachedWhenCounted
    <3>4. Fills <=> clock.quiet + 1 >= gap.length
      BY <1>7, <2>1, <2>4, <2>6, <3>3 DEF Fills, Turn
    <3>5. CASE Fills
      <4>1. clock'.quiet = gap.length
        BY <1>3, <2>1, <2>6, <3>1, <3>4, <3>5
      <4> QED BY <1>2, <1>3, <3>5, <4>1
    <3>6. CASE ~Fills
      <4>1. play'.left = play.left /\ play'.ahead = play.ahead /\ play'.start = play.start /\ stream'.loaded = "silence"
        BY <3>6, PacketFacts
      <4>2. clock'.quiet < gap'.length
        BY <1>3, <3>1, <3>4, <3>6
      <4>3. Past(clock.quiet)'
        BY <2>3, <3>1, <3>2 DEF Past, Apart, Turn
      <4> QED BY <1>2, <2>1, <2>6, <3>6, <4>1, <4>2, <4>3
    <3> QED BY <3>5, <3>6
  <2> QED BY <2>5, <2>6
<1> QED BY <1>6, <1>7

LEMMA PacketKeepsGap ==
  ASSUME PlaylistInv, GapInv, Millisecond(TRUE)
  PROVE  GapInv' /\ GapStep
<1>1. SendPacket /\ UNCHANGED <<pc, run, gap>> /\ pc # "idle" /\ (NeedsIndex => clock.quiet < Patience)
  BY DEF Millisecond
<1>2. OpeningsArePast' /\ PlayIsUnbroken' /\ PlayTimed'
  BY <1>1, PacketInPlay
<1>3. GapTimed' /\ StartTimed'
  BY <1>1, PacketInGap, PacketBeforePlay
<1>4. clock' \in ClockType
  BY <1>1, PacketFacts
<1>5. GapStep
  <2>1. FirstPacket => Pending
    BY <1>1, PacketFacts DEF FirstPacket
  <2>2. FirstPacket /\ run.start # NoStart /\ gap.clean /\ SameOpenStream => Scheduled /\ Pending
    BY <2>1 DEF FirstPacket, Scheduled
  <2> QED BY <1>1, <2>2 DEF GapStep, GapInv, StartTimed
<1> QED BY <1>2, <1>3, <1>4, <1>5 DEF GapInv

-----------------------------------------------------------------------------
(* Between two items nothing plays.                                        *)
NothingPlays ==
  /\ play.sent = 0 /\ ~play.ahead /\ ~play.armed /\ ~Pending
  /\ run.start = NoStart /\ ~Faulted

LEMMA NothingPlaysBetween ==
  ASSUME PlaylistInv, GapInv, pc \in {"idle"} \cup ItemPoints
  PROVE  NothingPlays /\ pc \notin OutputPoints
<1>1. pc \notin OutputPoints /\ pc \notin RunPoints /\ pc \notin {"flush", "clean"} /\ pc # "await"
  BY DEF OutputPoints, ItemPoints, RunPoints
<1>2. ~run.busy
  BY <1>1 DEF PlaylistInv, PointsFit
<1> QED BY <1>1, <1>2 DEF NothingPlays, GapInv, PlayIsUnbroken, StartTimed

(* The stream a step leaves open, with what is loaded there.               *)
StreamStays ==
  /\ stream'.open = stream.open /\ stream'.opens = stream.opens /\ play'.opens = play.opens
  /\ stream'.loaded # "silence" => stream.loaded # "silence"

LEMMA RestsInGap ==
  ASSUME PlaylistInv, GapInv, Rests, NothingPlays', StreamStays
  PROVE  GapInv' /\ GapStep
<1>1. pc' = "idle" /\ gap' = NoGap /\ gap'.opens = 0 /\ clock' = Unasked
  BY NoGapTyped DEF Rests
<1>2. clock' \in ClockType
  BY <1>1, PlaylistConstants DEF Unasked, ClockType
<1>3. OpeningsArePast'
  <2>1. stream.opens \in Nat
    BY TypedFacts DEF StreamType
  <2> QED BY <1>1, <2>1 DEF GapInv, OpeningsArePast, NothingPlays, StreamStays
<1>4. PlayIsUnbroken'
  BY <1>1 DEF NothingPlays, PlayIsUnbroken
<1>5. PlayTimed' /\ GapTimed'
  BY <1>1 DEF NothingPlays, PlayTimed, GapTimed
<1>6. StartTimed'
  BY DEF NothingPlays, StartTimed, Scheduled
<1>7. GapStep
  BY <1>1, NoPacketNoGap DEF NothingPlays
<1> QED BY <1>2, <1>3, <1>4, <1>5, <1>6, <1>7 DEF GapInv

(* The list ends, or waits, between two items.                             *)
LEMMA ListEndsInGap ==
  ASSUME PlaylistInv, GapInv, pc \in ItemPoints, Rests, UNCHANGED <<run, play, stream>>
  PROVE  GapInv' /\ GapStep
<1>1. NothingPlays' /\ StreamStays
  BY NothingPlaysBetween DEF NothingPlays, StreamStays, Pending, Faulted
<1> QED BY <1>1, RestsInGap

LEMMA ListWaitsInGap ==
  ASSUME PlaylistInv, GapInv, pc = "room", pc' \in {"room", "gap"}, UNCHANGED <<gap, run, play, stream>>,
         clock' = clock \/ clock' = [clock EXCEPT !.still = 0]
  PROVE  GapInv' /\ GapStep
<1>1. clock' \in ClockType /\ clock'.quiet = clock.quiet /\ clock'.ticks >= clock.ticks
  <2>1. 0 \in 0..Stall + 1 /\ Patience \in Nat
    BY PlaylistConstants
  <2> QED BY <2>1 DEF GapInv, ClockType
<1>2. OpeningsArePast' /\ PlayTimed'
  BY <1>1, OpeningsStand, PlayStands DEF GapInv
<1>3. GapTimed'
  BY <1>1, GapStands DEF GapInv, OutputPoints
<1>4. StartTimed'
  BY <1>1, StartStands DEF GapInv
<1>5. PlayIsUnbroken'
  BY DEF GapInv, PlayIsUnbroken, Pending, Faulted, OutputPoints
<1>6. GapStep
  BY NoPacketNoGap
<1> QED BY <1>1, <1>2, <1>3, <1>4, <1>5, <1>6 DEF GapInv

(* The gap after an item begins on the stream the item was sent on: its    *)
(* last packet is as many packets past as were counted.                    *)
LEMMA NextItemInGap ==
  ASSUME PlaylistInv, GapInv, NothingPlays', StreamStays, NEW item \in Items, item.gap < Patience, NEW outcome,
         NEW p \in PlayType, p = NoPlay \/ (p = play /\ (Pending => outcome # "done")),
         gap' = GapAfter(item, outcome, p), clock' = [clock EXCEPT !.ticks = 0, !.still = 0],
         pc' \in {"room", "lastgap"}, stream'.sent = stream.sent, stream'.loaded = "old" => stream.loaded = "old" \/ Pending
  PROVE  GapInv' /\ GapStep
<1> DEFINE opens == IF item.route = "usb" /\ p.sent > 0 THEN p.opens ELSE 0
           end == IF item.route = "usb" /\ p.sent > 0 THEN (Base + p.sent + item.gap) % Wrap ELSE 0
<1>1. /\ gap'.opens = opens /\ gap'.end = end /\ gap'.length = item.gap /\ gap'.clean = (outcome = "done")
  <2>1. gap' = [on |-> TRUE, length |-> item.gap, clean |-> outcome = "done", opens |-> opens, end |-> end]
    BY DEF GapAfter
  <2> HIDE DEF opens, end
  <2> QED BY <2>1
<1>2. clock' \in ClockType /\ clock'.quiet = clock.quiet
  <2>1. 0 \in 0..Stall + 1 /\ 0 \in 0..Patience
    BY PlaylistConstants
  <2> QED BY <2>1 DEF GapInv, ClockType
<1>3. opens # 0 => p = play /\ play.sent > 0 /\ item.route = "usb" /\ opens = play.opens
  BY NoPlayTyped
<1> HIDE DEF opens
<1>4. OpeningsArePast'
  <2>1. stream.opens \in Nat /\ pc' # "idle"
    BY TypedFacts DEF StreamType
  <2> QED BY <1>1, <1>3, <2>1 DEF GapInv, OpeningsArePast, NothingPlays, StreamStays
<1>5. PlayIsUnbroken'
  BY DEF NothingPlays, PlayIsUnbroken
<1>6. PlayTimed'
  BY DEF NothingPlays, PlayTimed
<1>7. GapTimed'
  <2> SUFFICES ASSUME gap'.opens # 0, SameOpenStream'
               PROVE  \E n \in 0..Patience + 1 : Past(n)' /\ Counted(n)'
    BY DEF GapTimed
  <2>1. p = play /\ play.sent > 0 /\ opens = play.opens /\ stream.open /\ play.opens = stream.opens
    BY <1>1, <1>3 DEF SameOpenStream, StreamStays
  <2>12. stream.sent = (Base + play.sent + clock.quiet) % Wrap /\ (Pending => clock.quiet = 0)
    <3>1. PlayTimed
      BY DEF GapInv
    <3> QED BY <2>1, <3>1 DEF PlayTimed
  <2>13. stream.loaded # "old"
    <3>1. PlayIsUnbroken
      BY DEF GapInv
    <3> QED BY <2>1, <3>1 DEF PlayIsUnbroken
  <2>2. stream.sent = (Base + play.sent + clock.quiet) % Wrap /\ (Pending => clock.quiet = 0) /\ stream.loaded # "old"
    BY <2>12, <2>13
  <2>3. end = (Base + play.sent + item.gap) % Wrap
    <3>1. item.route = "usb"
      BY <1>1, <1>3
    <3> QED BY <2>1, <3>1
  <2>4. Base + play.sent \in Int /\ item.gap \in Int /\ clock.quiet \in 0..Patience /\ Patience \in Nat
    <3>1. play \in PlayType /\ Wrap \in Nat /\ item.gap \in Nat
      BY TypedFacts, WrapIsPositive DEF Items
    <3>2. play.sent \in Nat /\ Base \in Int
      BY <3>1 DEF PlayType, Base
    <3>3. clock.quiet \in 0..Patience /\ Patience \in Nat
      BY TickFacts, PlaylistConstants
    <3> QED BY <3>1, <3>2, <3>3
  <2> HIDE DEF end
  <2> DEFINE a == Base + play.sent + clock.quiet
             b == Base + play.sent + item.gap
  <2>5. a \in Int /\ b \in Int /\ a + item.gap = b + clock.quiet /\ stream.sent = Turn(a) /\ end = Turn(b)
    BY <2>2, <2>3, <2>4 DEF Turn
  <2> HIDE DEF a, b
  <2>6. Turn(Turn(a) + item.gap) = Turn(a + item.gap)
    BY <2>4, <2>5, TurnAdds
  <2>7. Turn(Turn(b) + clock.quiet) = Turn(b + clock.quiet)
    BY <2>4, <2>5, TurnAdds
  <2>8. Apart(stream.sent, end, clock.quiet, item.gap)
    BY <2>5, <2>6, <2>7 DEF Apart
  <2>9. Past(clock.quiet)'
    BY <1>1, <1>2, <2>8 DEF Past, Apart, Turn
  <2>10. Counted(clock.quiet)'
    <3>1. stream'.loaded = "old" => clock'.quiet = 0 /\ outcome # "done"
      BY <1>2, <2>1, <2>2, NoPlayTyped
    <3> QED BY <1>1, <3>1 DEF Counted
  <2>11. clock'.quiet \in 0..Patience + 1
    BY <1>2, <2>4
  <2> QED BY <2>9, <2>10, <2>11
<1>8. StartTimed'
  BY DEF NothingPlays, StartTimed, Scheduled
<1>9. GapStep
  BY NoPacketNoGap DEF NothingPlays
<1> QED BY <1>2, <1>4, <1>5, <1>6, <1>7, <1>8, <1>9 DEF GapInv

LEMMA GapsAreShort ==
  ASSUME PlaylistInv, list.owns, pc # "lastgap"
  PROVE  list.items[list.index] \in Items /\ list.items[list.index].gap < Patience
<1>1. list.items \in Lists /\ list.index \in DOMAIN list.items /\ list.items[list.index] \in Items
  BY ItemFacts
<1>2. list.items[list.index].gap + Slack < Patience
  BY <1>1, PlaylistConstants
<1>3. list.items[list.index].gap \in Nat /\ Slack \in Nat /\ Patience \in Nat
  BY <1>1, PlaylistConstants DEF Items
<1> QED BY <1>1, <1>2, <1>3

LEMMA EndItemKeepsGap ==
  ASSUME PlaylistInv, GapInv, list.owns, pc # "lastgap", NothingPlays', StreamStays, NEW outcome, NEW held \in BOOLEAN,
         NEW p \in PlayType, p = NoPlay \/ (p = play /\ (Pending => outcome # "done")), EndItem(outcome, p, held),
         stream'.sent = stream.sent, stream'.loaded = "old" => stream.loaded = "old" \/ Pending
  PROVE  GapInv' /\ GapStep
<1> DEFINE item == list.items[list.index]
<1>1. item \in Items /\ item.gap < Patience
  BY GapsAreShort
<1>2. CASE Rests
  BY <1>2, RestsInGap
<1>3. CASE ~Rests
  <2>1. /\ gap' = GapAfter(item, outcome, p) /\ clock' = [clock EXCEPT !.ticks = 0, !.still = 0]
        /\ pc' = IF list.index = Len(list.items) THEN "lastgap" ELSE "room"
    BY <1>3 DEF EndItem
  <2>2. pc' \in {"room", "lastgap"}
    BY <2>1
  <2> HIDE DEF item
  <2> QED BY <1>1, <2>1, <2>2, NextItemInGap
<1> QED BY <1>2, <1>3

(* A run begins: nothing of it is loaded or armed, and a start that was    *)
(* planned for it is the end of the gap it keeps.                          *)
LEMMA BeginRunInGap ==
  ASSUME PlaylistInv, GapInv, pc \in {"idle", "room", "gap"}, NEW route \in Routes, NEW len \in Nat \ {0}, NEW start \in Int,
         BeginRun(route, len, start),
         start = NoStart \/ (start = gap.end /\ gap.opens # 0 /\ SameOpenStream /\ route = "usb")
  PROVE  GapInv' /\ (pc # "gap" => GapStep) /\ pc' = "mount" /\ play'.sent = 0
<1> DEFINE kept == route = "usb" /\ SameOpenStream
           opens == IF route = "usb" THEN stream.opens ELSE 0
           sends == IF gap'.opens = 0 THEN 0 ELSE stream.sent
<1>1. NothingPlays /\ pc \notin OutputPoints
  BY NothingPlaysBetween DEF ItemPoints
<1>2. IF kept THEN gap' = gap ELSE gap'.opens = 0 /\ gap'.end = 0 /\ gap'.length = gap.length /\ gap'.clean = gap.clean
  <2>1. gap' = IF kept THEN gap ELSE [gap EXCEPT !.opens = 0, !.end = 0]
    BY DEF BeginRun
  <2> HIDE DEF kept
  <2> QED BY <2>1, TypedFacts DEF GapType
<1>3. /\ run'.busy = TRUE /\ run'.stop = FALSE /\ run'.fault = "none" /\ run'.route = route /\ run'.start = start
  BY DEF BeginRun
<1>4. /\ play'.opens = opens /\ play'.left = len /\ play'.sent = 0 /\ play'.armed = FALSE /\ play'.ahead = FALSE
      /\ play'.start = NoStart
  <2>1. play' = [NoPlay EXCEPT !.opens = opens, !.left = len]
    BY DEF BeginRun
  <2> HIDE DEF opens
  <2> QED BY <2>1 DEF NoPlay
<1>5. /\ stream'.open = stream.open /\ stream'.opens = stream.opens /\ stream'.loaded = stream.loaded
      /\ stream'.sent = sends
  <2>1. stream' = [stream EXCEPT !.sent = sends]
    BY DEF BeginRun
  <2> HIDE DEF sends
  <2> QED BY <2>1, TypedFacts DEF StreamType
<1>6. clock' \in ClockType /\ clock'.ticks = Patience /\ clock'.quiet = clock.quiet
  <2>1. Patience \in 0..Patience /\ clock \in ClockType
    BY PlaylistConstants DEF GapInv
  <2>2. clock' = [clock EXCEPT !.ticks = Patience]
    BY DEF BeginRun
  <2> QED BY <2>1, <2>2 DEF ClockType
<1>7. pc' = "mount"
  BY DEF BeginRun
<1>8. ~Pending'
  BY <1>1, <1>5 DEF NothingPlays, Pending
<1>9. OpeningsArePast'
  <2>1. stream.opens \in Nat /\ gap'.opens =< stream.opens /\ (gap'.opens # 0 => gap'.length < Patience)
    BY <1>2, TypedFacts DEF GapInv, OpeningsArePast, StreamType
  <2>2. play'.opens =< stream.opens
    BY <1>4, <2>1
  <2> QED BY <1>4, <1>5, <1>7, <1>8, <2>1, <2>2 DEF GapInv, OpeningsArePast
<1>10. PlayIsUnbroken'
  <2>1. ~Faulted'
    BY <1>3 DEF Faulted
  <2>2. play'.left > 0
    BY <1>4
  <2>3. ~(play'.sent > 0)
    BY <1>4
  <2> QED BY <1>4, <1>7, <1>8, <2>1, <2>2, <2>3 DEF PlayIsUnbroken
<1>11. PlayTimed'
  <2>1. ~(play'.sent > 0)
    BY <1>4
  <2> QED BY <2>1 DEF PlayTimed
<1>12. GapTimed'
  <2> SUFFICES ASSUME gap'.opens # 0, SameOpenStream'
               PROVE  \E n \in 0..Patience + 1 : Past(n)' /\ Counted(n)'
    BY DEF GapTimed
  <2>1. gap' = gap /\ SameOpenStream /\ stream'.sent = stream.sent
    BY <1>2, <1>5
  <2>2. PICK n \in 0..Patience + 1 : Past(n) /\ Counted(n)
    BY <1>1, <2>1 DEF GapInv, GapTimed
  <2>3. Past(n)'
    BY <2>1, <2>2 DEF Past
  <2>4. Counted(n)'
    BY <1>5, <1>6, <2>1, <2>2 DEF Counted
  <2> QED BY <2>3, <2>4
<1>13. StartTimed'
  <2>1. run'.start # NoStart => run'.start = gap'.end /\ gap'.opens # 0 /\ run'.busy
    BY <1>2, <1>3
  <2> QED BY <1>4, <1>8, <2>1 DEF StartTimed
<1>14. pc # "gap" => GapStep
  BY <1>4, NoPacketNoGap
<1> QED BY <1>4, <1>6, <1>7, <1>9, <1>10, <1>11, <1>12, <1>13, <1>14 DEF GapInv

LEMMA ServePlayKeepsGap ==
  ASSUME PlaylistInv, GapInv, ServePlay
  PROVE  GapInv' /\ GapStep
<1>1. ~run.busy /\ ~list.owns /\ BeginRun(run.route, PlayLen, NoStart)
  BY DEF ServePlay, Stopped
<1>2. pc = "idle"
  BY <1>1, IdleFacts
<1>3. run.route \in Routes /\ PlayLen \in Nat \ {0} /\ NoStart \in Int
  BY TypedFacts, PlaylistConstants DEF RunType, NoStart
<1> QED BY <1>1, <1>2, <1>3, BeginRunInGap

(* play_item(), from one of the points between two items.                  *)
LEMMA PlayItemInGap ==
  ASSUME PlaylistInv, GapInv, pc \in {"room", "gap"}, NEW start \in Int, PlayItem(start),
         start = NoStart \/ (start = gap.end /\ ScheduledHere)
  PROVE  GapInv' /\ (pc # "gap" \/ pc' # "mount" => GapStep) /\ play'.sent = 0
<1> DEFINE item == list.items[list.index]
<1>1. list.owns /\ pc # "lastgap" /\ item \in Items /\ pc \in ItemPoints
  <2>1. list.owns /\ pc # "lastgap" /\ pc \in ItemPoints
    BY DEF PlaylistInv, PointsFit, ItemPoints
  <2> QED BY <2>1, ItemFacts
<1>2. CASE item.route = "usb" /\ ~stream.open
  <2>1. EndItem("error", NoPlay, FALSE) /\ run' = [run EXCEPT !.route = "usb"] /\ UNCHANGED <<play, stream>>
    BY <1>2 DEF PlayItem
  <2>2. run'.start = run.start /\ run'.fault = run.fault
    BY <2>1, TypedFacts DEF RunType
  <2>3. NothingPlays' /\ StreamStays
    BY <1>1, <2>1, <2>2, NothingPlaysBetween DEF NothingPlays, StreamStays, Pending, Faulted
  <2>4. GapInv' /\ GapStep
    BY <1>1, <2>1, <2>3, NoPlayTyped, EndItemKeepsGap
  <2> QED BY <2>3, <2>4 DEF NothingPlays
<1>3. CASE ~(item.route = "usb" /\ ~stream.open)
  <2>1. BeginRun(item.route, item.len, start)
    BY <1>3 DEF PlayItem
  <2>2. item.route \in Routes /\ item.len \in Nat \ {0}
    BY <1>1 DEF Items
  <2>3. start = NoStart \/ (start = gap.end /\ gap.opens # 0 /\ SameOpenStream /\ item.route = "usb")
    BY DEF ScheduledHere
  <2>4. pc \in {"idle", "room", "gap"}
    OBVIOUS
  <2> HIDE DEF item
  <2>5. GapInv' /\ (pc # "gap" => GapStep) /\ pc' = "mount" /\ play'.sent = 0
    BY <2>1, <2>2, <2>3, <2>4, BeginRunInGap
  <2> QED BY <2>5
<1> QED BY <1>2, <1>3

LEMMA PlanStartKeepsGap ==
  ASSUME PlaylistInv, GapInv, PlanStart
  PROVE  GapInv' /\ GapStep
<1>1. pc = "room" /\ NoStart \in Int /\ gap.end \in Int
  BY TypedFacts, WrapIsPositive DEF PlanStart, NoStart, GapType
<1>2. CASE PlayItem(NoStart)
  BY <1>1, <1>2, PlayItemInGap
<1>3. CASE ScheduledHere /\ PlayItem(gap.end)
  BY <1>1, <1>3, PlayItemInGap
<1>4. CASE pc' = "gap" /\ clock' = [clock EXCEPT !.still = 0] /\ UNCHANGED <<gap, run, play, stream>>
  BY <1>1, <1>4, ListWaitsInGap
<1> QED BY <1>2, <1>3, <1>4 DEF PlanStart

LEMMA PauseKeepsGap ==
  ASSUME PlaylistInv, GapInv, PauseForRing \/ GapStopped \/ LastGapEnds
  PROVE  GapInv' /\ GapStep
<1>1. pc \in ItemPoints /\ UNCHANGED <<run, play, stream>>
  BY DEF PauseForRing, GapStopped, LastGapEnds, ItemPoints
<1>2. CASE Rests
  BY <1>1, <1>2, ListEndsInGap
<1>3. CASE ~Rests
  <2>1. pc = "room" /\ pc' = "room" /\ UNCHANGED <<gap, clock>>
    BY <1>3 DEF PauseForRing, GapStopped, LastGapEnds
  <2> QED BY <1>1, <2>1, ListWaitsInGap
<1> QED BY <1>2, <1>3

(* wait_gap(): the gap has passed, in packets or in ticks.                 *)
LEMMA PassedIsOver ==
  ASSUME PlaylistInv, GapInv, pc = "gap", GapPassed
  PROVE  clock.ticks >= gap.length \/ (SameOpenStream /\ clock.quiet >= gap.length)
<1>1. CASE gap.opens # 0 /\ SameOpenStream /\ IndexReached(stream.sent, gap.end)
  <2>1. gap.length < Patience
    BY <1>1 DEF GapInv, OpeningsArePast
  <2>2. PICK n \in 0..Patience + 1 : Past(n) /\ Counted(n)
    BY <1>1 DEF GapInv, GapTimed, OutputPoints
  <2>3. stream.sent \in 0..Wrap - 1 /\ gap.end \in 0..Wrap - 1 /\ gap.length \in Nat /\ Patience \in Nat
    BY TypedFacts, PlaylistConstants DEF StreamType, GapType
  <2>4. Apart(stream.sent, gap.end, n, gap.length) /\ gap.length \in 0..Patience
    BY <2>1, <2>2, <2>3 DEF Past, Apart, Turn
  <2>5. n >= gap.length
    BY <1>1, <2>3, <2>4, ReachedWhenCounted
  <2>6. n = clock.quiet \/ n =< clock.ticks \/ clock.ticks = Patience
    BY <2>2 DEF Counted
  <2> QED BY <1>1, <2>1, <2>3, <2>5, <2>6, TickFacts
<1>2. CASE clock.ticks >= gap.length
  BY <1>2
<1> QED BY <1>1, <1>2 DEF GapPassed

LEMMA GapEndsKeepsGap ==
  ASSUME PlaylistInv, GapInv, GapEnds
  PROVE  GapInv' /\ GapStep
<1>1. pc = "gap" /\ GapPassed /\ PlayItem(NoStart) /\ NoStart \in Int
  BY DEF GapEnds, NoStart
<1>2. GapInv' /\ play'.sent = 0
  BY <1>1, PlayItemInGap
<1>3. clock.ticks >= gap.length \/ (SameOpenStream /\ clock.quiet >= gap.length)
  BY <1>1, PassedIsOver
<1> QED BY <1>2, <1>3 DEF GapStep, FirstPacket

(* accept_playlist(): the first item follows no gap.                       *)
LEMMA ServePlaylistKeepsGap ==
  ASSUME PlaylistInv, GapInv, NEW items \in Lists, NEW continue \in BOOLEAN, ServePlaylist(items, continue)
  PROVE  GapInv' /\ GapStep
<1>1. ~run.busy /\ ~list.owns /\ UNCHANGED <<play, stream, clock>> /\ run' = [run EXCEPT !.stop = FALSE]
  BY DEF ServePlaylist, Stopped
<1>2. pc = "idle"
  BY <1>1, IdleFacts
<1>3. /\ run'.start = run.start /\ run'.busy = run.busy /\ run'.fault = run.fault /\ run'.route = run.route
  BY <1>1, TypedFacts DEF RunType
<1>4. CASE UNCHANGED <<pc, gap>>
  BY <1>1, <1>2, <1>3, <1>4, CommandKeepsGap
<1>5. CASE pc' = "room" /\ gap' = NoGap
  <2>1. NothingPlays' /\ gap'.opens = 0
    BY <1>1, <1>2, <1>3, <1>5, NothingPlaysBetween, NoGapTyped DEF NothingPlays, Pending, Faulted
  <2>2. clock' \in ClockType
    BY <1>1 DEF GapInv
  <2>3. OpeningsArePast'
    <3>1. stream.opens \in Nat
      BY TypedFacts DEF StreamType
    <3> QED BY <1>1, <1>5, <2>1, <3>1 DEF GapInv, OpeningsArePast, NothingPlays
  <2>4. PlayIsUnbroken'
    BY <1>5, <2>1 DEF NothingPlays, PlayIsUnbroken
  <2>5. PlayTimed' /\ GapTimed'
    BY <2>1 DEF NothingPlays, PlayTimed, GapTimed
  <2>6. StartTimed'
    BY <2>1 DEF NothingPlays, StartTimed, Scheduled
  <2>7. GapStep
    BY <1>1, <1>2, NoPacketNoGap
  <2> QED BY <2>2, <2>3, <2>4, <2>5, <2>6, <2>7 DEF GapInv
<1> QED BY <1>4, <1>5 DEF ServePlaylist

(* cleanup_player_run() and what follows it.                               *)
LEMMA FinishKeepsGap ==
  ASSUME PlaylistInv, GapInv, pc = "clean", NEW outcome \in Outcomes, NEW held \in BOOLEAN, Finish(outcome, held),
         Pending => outcome # "done"
  PROVE  GapInv' /\ GapStep
<1> DEFINE ended == IF outcome = "error" THEN "fault" ELSE outcome
           loaded == IF stream.loaded = "file" THEN "old" ELSE stream.loaded
<1>1. run'.start = NoStart /\ run'.fault = "none"
  <2>1. run' = [run EXCEPT !.busy = FALSE, !.stop = FALSE, !.start = NoStart, !.fault = "none", !.len = 0, !.state = ended]
    BY DEF Finish
  <2> HIDE DEF ended
  <2> QED BY <2>1, TypedFacts DEF RunType
<1>2. play'.sent = 0 /\ play'.ahead = FALSE /\ play'.armed = FALSE /\ play'.opens = play.opens
  BY DEF Finish, NoPlay
<1>3. stream'.open = stream.open /\ stream'.opens = stream.opens /\ stream'.sent = stream.sent /\ stream'.loaded = loaded
  <2>1. stream' = [stream EXCEPT !.loaded = loaded]
    BY DEF Finish
  <2> HIDE DEF loaded
  <2> QED BY <2>1, TypedFacts DEF StreamType
<1>4. NothingPlays' /\ StreamStays
  BY <1>1, <1>2, <1>3 DEF NothingPlays, StreamStays, Pending, Faulted
<1>5. stream'.loaded = "old" => stream.loaded = "old" \/ Pending
  BY <1>3 DEF Pending
<1>6. CASE list.owns
  <2>1. EndItem(outcome, play, held) /\ play \in PlayType /\ pc # "lastgap"
    BY <1>6, TypedFacts DEF Finish
  <2> QED BY <1>3, <1>4, <1>5, <1>6, <2>1, EndItemKeepsGap
<1>7. CASE ~list.owns
  <2>1. Rests
    BY <1>7 DEF Finish
  <2> QED BY <1>4, <2>1, RestsInGap
<1> QED BY <1>6, <1>7

LEMMA CleanupKeepsGap ==
  ASSUME PlaylistInv, GapInv, CleanupRun
  PROVE  GapInv' /\ GapStep
<1>1. pc = "clean" /\ RunOutcome \in Outcomes /\ "error" \in Outcomes
  BY DEF CleanupRun, RunOutcome, Outcomes
<1>2. Pending => RunOutcome # "done"
  BY <1>1 DEF GapInv, PlayIsUnbroken, RunOutcome
<1> QED BY <1>1, <1>2, FinishKeepsGap DEF CleanupRun

-----------------------------------------------------------------------------
THEOREM GapStarts == Init => GapInv
<1> SUFFICES ASSUME Init PROVE GapInv
  OBVIOUS
<1>1. /\ pc = "idle" /\ gap.opens = 0 /\ play.opens = 0 /\ play.sent = 0 /\ ~play.armed /\ ~play.ahead
      /\ ~stream.open /\ stream.opens = 0 /\ stream.loaded = "silence" /\ run.start = NoStart /\ run.fault = "none"
  BY DEF Init, NoGap, NoPlay
<1>2. clock \in ClockType
  BY PlaylistConstants DEF Init, Unasked, ClockType
<1>3. OpeningsArePast
  BY <1>1 DEF OpeningsArePast, Pending
<1>4. PlayIsUnbroken
  BY <1>1 DEF PlayIsUnbroken, Pending, Faulted
<1>5. PlayTimed /\ GapTimed /\ StartTimed
  BY <1>1 DEF PlayTimed, GapTimed, StartTimed, Scheduled
<1> QED BY <1>2, <1>3, <1>4, <1>5 DEF GapInv

(* Whatever step is taken, the stream, the gap and the times keep fitting  *)
(* together, and an item begins no earlier than its gap lets it.           *)
THEOREM GapHolds == PlaylistInv /\ GapInv /\ [Next]_vars => GapInv' /\ [GapStep]_vars
<1> SUFFICES ASSUME PlaylistInv, GapInv, [Next]_vars PROVE GapInv' /\ [GapStep]_vars
  OBVIOUS
<1>1. CASE UNCHANGED vars
  <2>1. UNCHANGED <<pc, gap, play, stream, clock, run>>
    BY <1>1 DEF vars
  <2> QED BY <1>1, <2>1, CommandKeepsGap
<1>2. CASE PlayerStep
  BY <1>2, LoadKeepsGap, StartKeepsGap, FlushKeepsGap, CleanupKeepsGap, ServeKeepsGap, PauseKeepsGap, PlanStartKeepsGap,
     GapEndsKeepsGap DEF PlayerStep
<1>3. CASE Serve
  BY <1>3, ServeKeepsGap, ServePlayKeepsGap, ServePlaylistKeepsGap DEF Serve
<1>4. CASE CodecDrains \/ MediaHost \/ MediaLocal \/ HostOpens \/ HostCloses \/ ServeStop
  BY <1>4, CodecKeepsGap, ServeKeepsGap, HostKeepsGap
<1>5. CASE \E packet \in BOOLEAN : Millisecond(packet)
  BY <1>5, TickKeepsGap, PacketKeepsGap
<1> QED BY <1>1, <1>2, <1>3, <1>4, <1>5 DEF Next

(* The stream index a gap ends at stands as many packets after the item's  *)
(* last one as the gap is long, and the packets since then are counted:    *)
(* through STOP, a full ring, a stalled or reopened stream, and a run that *)
(* leaves a chunk loaded (begin_gap(), plan_start(), start_output()).      *)
THEOREM GapInvariant == Spec => []GapInv
<1>1. PlaylistInv /\ GapInv /\ [Next]_vars => GapInv'
  BY GapHolds
<1> QED BY <1>1, GapStarts, PlaylistInvariant, PTL DEF Spec

(* An item armed for the index its predecessor's gap ends at sends its     *)
(* first packet no earlier, and exactly there when it was armed ahead of   *)
(* it; one that waits for the gap begins once it has passed on the stream  *)
(* or, where that does not count, on the tick clock (begin_gap(),          *)
(* plan_start(), start_output()).                                          *)
THEOREM TheGapIsKept == Spec => GapKept
<1>1. PlaylistInv /\ GapInv /\ [Next]_vars => [GapStep]_vars
  BY GapHolds
<1>2. Spec => [][GapStep]_vars
  BY <1>1, GapInvariant, PlaylistInvariant, PTL DEF Spec
<1> QED BY <1>2 DEF GapKept, GapStep
=============================================================================
