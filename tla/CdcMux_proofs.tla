---------------------------- MODULE CdcMux_proofs ----------------------------
(***************************************************************************)
(* Proofs about CdcMux: what tx_usb and the device's session hold while    *)
(* frames, commands and replies pass, whatever a host sends and however    *)
(* often its connection ends.                                              *)
(***************************************************************************)
EXTENDS CdcMux, TLAPS

LEMMA NoRequestType == NoRequest \in Requests /\ JobEnd \in Replies
BY DEF NoRequest, Requests, JobEnd, Replies

(* The output buffer always has room for the one frame a session writes.   *)
LEMMA OneFrameFits ==
  ASSUME NEW w, w = <<>> \/ Len(w) = 1
  PROVE  Len(w) <= WireFrames
<1>1. Len(<<>>) = 0
  OBVIOUS
<1>2. CASE w = <<>>
  BY <1>1, <1>2, MuxConstants
<1>3. CASE Len(w) = 1
  BY <1>3, MuxConstants
<1> QED BY <1>2, <1>3

-----------------------------------------------------------------------------
(* The operators on the USB task's state.  What a session operator leaves  *)
(* alone: the waiting request and what is known of the port.               *)
Same(s, u) ==
  u.pending = s.pending /\ u.submitted = s.submitted /\ u.active = s.active /\ u.failed = s.failed /\ (s.cut => u.cut)

(* Closing the control channel drops commands, nothing else.               *)
LEMMA ControlClosedFacts ==
  ASSUME NEW s \in DeviceType
  PROVE  LET u == ControlClosed(s)
         IN  /\ u \in DeviceType /\ Same(s, u) /\ u.control = <<>> /\ u.wire = s.wire
             /\ u.cut = s.cut /\ u.tx = s.tx /\ u.rx = s.rx /\ u.chan = s.chan
             /\ u.est = s.est /\ u.had = s.had
<1> DEFINE u == [s EXCEPT !.partial = FALSE, !.control = <<>>]
<1>1. <<>> \in Seq(Commands)
  OBVIOUS
<1>2. u \in DeviceType
  BY <1>1 DEF DeviceType
<1>3. /\ u.pending = s.pending /\ u.submitted = s.submitted /\ u.active = s.active /\ u.failed = s.failed
      /\ u.control = <<>> /\ u.wire = s.wire /\ u.cut = s.cut /\ u.tx = s.tx /\ u.rx = s.rx
      /\ u.chan = s.chan /\ u.est = s.est /\ u.had = s.had
  BY DEF DeviceType
<1>4. ControlClosed(s) = u
  BY DEF ControlClosed
<1> HIDE DEF u
<1> QED BY <1>2, <1>3, <1>4 DEF Same

LEMMA LinkLostFacts ==
  ASSUME NEW s \in DeviceType
  PROVE  LET u == LinkLost(s)
         IN  /\ u \in DeviceType /\ Same(s, u) /\ u.control \in {s.control, <<>>} /\ u.wire = s.wire
             /\ u.est = s.est
<1> DEFINE c == ControlClosed(s)
           u == [c EXCEPT !.cut = TRUE, !.had = FALSE]
<1>1. c \in DeviceType /\ Same(s, c) /\ c.control = <<>> /\ c.wire = s.wire /\ c.est = s.est
  BY ControlClosedFacts
<1> HIDE DEF c
<1>2. u \in DeviceType /\ u.control = c.control /\ u.wire = c.wire /\ Same(c, u) /\ u.est = c.est
  BY <1>1 DEF DeviceType, Same
<1> HIDE DEF u
<1>3. Same(s, u)
  BY <1>1, <1>2 DEF Same
<1>4. LinkLost(s) = IF s.had THEN u ELSE s
  BY DEF LinkLost, u, c
<1>5. Same(s, s)
  BY DEF Same
<1> QED BY <1>1, <1>2, <1>3, <1>4, <1>5

(* abandon_session(): its output buffer stays.                             *)
LEMMA AbandonFacts ==
  ASSUME NEW s \in DeviceType
  PROVE  LET u == Abandon(s)
         IN  u \in DeviceType /\ Same(s, u) /\ u.control \in {s.control, <<>>} /\ u.wire = s.wire /\ ~u.est
<1> DEFINE c == IF "control" \in s.chan THEN ControlClosed(s) ELSE s
           t == [c EXCEPT !.chan = {}, !.est = FALSE, !.tx = 1, !.rx = 1, !.owed = FALSE]
           u == Abandon(s)
<1>1. c \in DeviceType /\ Same(s, c) /\ c.control \in {s.control, <<>>} /\ c.wire = s.wire
  <2>1. Same(s, s)
    BY DEF Same
  <2> QED BY <2>1, ControlClosedFacts
<1> HIDE DEF c
<1>2. t \in DeviceType /\ t.control = c.control /\ t.wire = c.wire /\ Same(c, t) /\ ~t.est
  BY <1>1 DEF DeviceType, Same
<1> HIDE DEF t
<1>3. Same(s, t)
  BY <1>1, <1>2 DEF Same
<1>4. u = IF s.est THEN LinkLost(t) ELSE t
  BY DEF Abandon, t, c
<1> HIDE DEF u
<1>5. CASE ~s.est
  BY <1>1, <1>2, <1>3, <1>4, <1>5 DEF u
<1>6. CASE s.est
  <2> DEFINE l == LinkLost(t)
  <2>1. l \in DeviceType /\ Same(t, l) /\ l.control \in {t.control, <<>>} /\ l.wire = t.wire /\ l.est = t.est
    BY <1>2, LinkLostFacts
  <2>2. u = l
    BY <1>4, <1>6
  <2> HIDE DEF l
  <2>3. Same(s, l)
    BY <2>1, <1>3 DEF Same
  <2> QED BY <2>1, <2>2, <2>3, <1>1, <1>2 DEF u
<1> QED BY <1>5, <1>6

(* write_wire() with the output buffer empty.                              *)
LEMMA WriteWireFacts ==
  ASSUME NEW s \in DeviceType, s.wire = <<>>, NEW f \in DownFrames
  PROVE  LET u == WriteWire(s, f)
         IN  /\ u \in DeviceType /\ Same(s, u) /\ u.wire = <<f>> /\ u.control = s.control
             /\ u.cut = s.cut /\ u.est = s.est /\ u.had = s.had /\ u.chan = s.chan /\ u.tx = s.tx
<1>1. Len(s.wire) < WireFrames
  BY MuxConstants
<1>2. WriteWire(s, f) = [s EXCEPT !.wire = Append(@, f)]
  BY <1>1 DEF WriteWire
<1>3. Append(s.wire, f) = <<f>> /\ <<f>> \in Seq(DownFrames)
  OBVIOUS
<1> DEFINE u == [s EXCEPT !.wire = <<f>>]
<1>4. u \in DeviceType
  BY <1>3 DEF DeviceType
<1>5. /\ u.pending = s.pending /\ u.submitted = s.submitted /\ u.active = s.active /\ u.failed = s.failed
      /\ u.control = s.control /\ u.wire = <<f>> /\ u.cut = s.cut /\ u.tx = s.tx
      /\ u.chan = s.chan /\ u.est = s.est /\ u.had = s.had
  BY DEF DeviceType
<1>6. WriteWire(s, f) = u
  BY <1>2, <1>3
<1> HIDE DEF u
<1> QED BY <1>4, <1>5, <1>6 DEF Same

LEMMA SendErrorFacts ==
  ASSUME NEW s \in DeviceType, s.wire = <<>>
  PROVE  LET u == SendError(s)
         IN  /\ u \in DeviceType /\ Same(s, u) /\ Len(u.wire) = 1 /\ u.wire[1].type = "error" /\ u.control = s.control
<1> DEFINE f == [type |-> "error", seq |-> s.tx, body |-> JobEnd]
           w == WriteWire(s, f)
           u == [w EXCEPT !.tx = @ + 1]
<1>1. f \in DownFrames /\ f.type = "error"
  BY NoRequestType DEF DownFrames, DeviceType
<1> HIDE DEF f
<1>2. w \in DeviceType /\ Same(s, w) /\ w.wire = <<f>> /\ w.control = s.control
  BY <1>1, WriteWireFacts
<1> HIDE DEF w
<1>3. u \in DeviceType /\ Same(w, u) /\ u.wire = w.wire /\ u.control = w.control
  <2>1. w.tx + 1 \in Nat
    BY <1>2 DEF DeviceType
  <2>2. u \in DeviceType
    BY <1>2, <2>1 DEF DeviceType
  <2>3. /\ u.pending = w.pending /\ u.submitted = w.submitted /\ u.active = w.active /\ u.failed = w.failed
        /\ u.wire = w.wire /\ u.control = w.control /\ u.cut = w.cut
    BY <1>2 DEF DeviceType
  <2> QED BY <2>2, <2>3 DEF Same
<1>4. SendError(s) = u
  BY DEF SendError, w, f
<1> HIDE DEF u
<1>5. Same(s, u)
  BY <1>2, <1>3 DEF Same
<1>6. Len(<<f>>) = 1 /\ <<f>>[1] = f
  OBVIOUS
<1>7. u.wire = <<f>> /\ Len(u.wire) = 1 /\ u.wire[1].type = "error" /\ u.control = s.control
  BY <1>1, <1>2, <1>3, <1>6
<1> QED BY <1>3, <1>4, <1>5, <1>7

LEMMA UpdateChannelFacts ==
  ASSUME NEW s \in DeviceType, NEW c \in Chans, NEW opens \in BOOLEAN
  PROVE  LET u == UpdateChannel(s, c, opens)
         IN  u \in DeviceType /\ Same(s, u) /\ u.control \in {s.control, <<>>} /\ u.wire = s.wire
<1> DEFINE t == [s EXCEPT !.chan = IF opens THEN @ \cup {c} ELSE @ \ {c}]
<1>1. t \in DeviceType
  <2>1. (IF opens THEN s.chan \cup {c} ELSE s.chan \ {c}) \in SUBSET Chans
    BY DEF DeviceType
  <2> QED BY <2>1 DEF DeviceType
<1>2. /\ t.pending = s.pending /\ t.submitted = s.submitted /\ t.active = s.active /\ t.failed = s.failed
      /\ t.wire = s.wire /\ t.control = s.control /\ t.cut = s.cut
  BY DEF DeviceType
<1>3. UpdateChannel(s, c, opens) = IF c = "control" /\ ~opens /\ c \in s.chan THEN ControlClosed(t) ELSE t
  BY DEF UpdateChannel
<1> HIDE DEF t
<1> DEFINE v == ControlClosed(t)
<1>4. v \in DeviceType /\ Same(t, v) /\ v.control = <<>> /\ v.wire = t.wire
  BY <1>1, ControlClosedFacts
<1> HIDE DEF v
<1>5. Same(s, t) /\ Same(s, v)
  BY <1>2, <1>4 DEF Same
<1>6. UpdateChannel(s, c, opens) \in {t, v}
  BY <1>3 DEF v
<1> QED BY <1>1, <1>2, <1>4, <1>5, <1>6

(* The commands of a control frame, and the request of a binary one.       *)
CommandsOf(f) == [i \in DOMAIN f.body |-> [piece |-> f.body[i], ep |-> f.ep, id |-> 8 * f.k + i]]
ChunkOf(f) == [kind |-> "data", ep |-> f.ep, id |-> 8 * f.k]

LEMMA FrameContents ==
  ASSUME NEW f \in UpFrames
  PROVE  CommandsOf(f) \in Seq(Commands) /\ Len(CommandsOf(f)) = Len(f.body) /\ ChunkOf(f) \in Requests
         /\ ChunkOf(f) # NoRequest
<1>1. f.body \in Seq(Pieces) /\ f.ep \in Nat /\ f.k \in Nat
  <2>1. f.body \in Bodies \cup {<<>>} /\ f.ep \in Nat /\ f.k \in Nat
    BY DEF UpFrames
  <2>2. <<>> \in Seq(Pieces) /\ \A b \in Bodies : b \in Seq(Pieces)
    BY MuxConstants
  <2> QED BY <2>1, <2>2
<1>2. ChunkOf(f) \in Requests /\ ChunkOf(f) # NoRequest
  BY <1>1 DEF ChunkOf, Requests, NoRequest
<1>3. \A i \in 1..Len(f.body) : [piece |-> f.body[i], ep |-> f.ep, id |-> 8 * f.k + i] \in Commands
  <2> SUFFICES ASSUME NEW i \in 1..Len(f.body)
               PROVE  [piece |-> f.body[i], ep |-> f.ep, id |-> 8 * f.k + i] \in Commands
    OBVIOUS
  <2>1. f.body[i] \in Pieces /\ 8 * f.k + i \in Nat
    BY <1>1
  <2> QED BY <1>1, <2>1 DEF Commands
<1>4. DOMAIN f.body = 1..Len(f.body) /\ Len(f.body) \in Nat
  BY <1>1
<1>5. CommandsOf(f) = [i \in 1..Len(f.body) |-> [piece |-> f.body[i], ep |-> f.ep, id |-> 8 * f.k + i]]
  BY <1>4 DEF CommandsOf
<1>6. CommandsOf(f) \in Seq(Commands) /\ Len(CommandsOf(f)) = Len(f.body)
  BY <1>3, <1>4, <1>5
<1> QED BY <1>2, <1>6

(* receive_data(), into a free mailbox.                                    *)
LEMMA ReceiveDataFacts ==
  ASSUME NEW s \in DeviceType, s.pending = NoRequest, s.control = <<>>, NEW f \in UpFrames
  PROVE  LET u == ReceiveData(s, f)
         IN  /\ u \in DeviceType /\ u.submitted = s.submitted /\ u.active = s.active /\ u.failed = s.failed
             /\ u.wire = s.wire /\ u.cut = s.cut
             /\ \/ u.pending = ChunkOf(f) /\ u.control = <<>>
                \/ u.pending = NoRequest /\ u.control = CommandsOf(f)
<1> DEFINE u == ReceiveData(s, f)
<1>1. CommandsOf(f) \in Seq(Commands) /\ ChunkOf(f) \in Requests
  BY FrameContents
<1>2. CASE f.chan = "binary"
  <2>1. u = [s EXCEPT !.pending = ChunkOf(f)]
    BY <1>2 DEF ReceiveData, ChunkOf
  <2>2. u \in DeviceType
    BY <2>1, <1>1 DEF DeviceType
  <2>3. /\ u.submitted = s.submitted /\ u.active = s.active /\ u.failed = s.failed
        /\ u.wire = s.wire /\ u.cut = s.cut /\ u.control = s.control /\ u.pending = ChunkOf(f)
    BY <2>1 DEF DeviceType
  <2> QED BY <2>2, <2>3
<1>3. CASE f.chan # "binary"
  <2>1. u = [s EXCEPT !.control = CommandsOf(f)]
    BY <1>3 DEF ReceiveData, CommandsOf
  <2>2. u \in DeviceType
    BY <2>1, <1>1 DEF DeviceType
  <2>3. /\ u.submitted = s.submitted /\ u.active = s.active /\ u.failed = s.failed
        /\ u.wire = s.wire /\ u.cut = s.cut /\ u.pending = s.pending /\ u.control = CommandsOf(f)
    BY <2>1 DEF DeviceType
  <2> QED BY <2>2, <2>3
<1> QED BY <1>2, <1>3

(* accept_hello(): the acknowledgement finds the output buffer empty.      *)
LEMMA AcceptHelloFacts ==
  ASSUME NEW s \in DeviceType, NothingUnderWay(s), ~s.failed, NEW ep \in Nat
  PROVE  LET u == AcceptHello(s, ep)
         IN  /\ u \in DeviceType /\ u.pending = NoRequest /\ u.submitted = s.submitted /\ u.active = s.active
             /\ ~u.failed /\ (s.cut => u.cut) /\ u.control = <<>>
             /\ Len(u.wire) = 1 /\ u.wire[1].type = "ack"
<1> DEFINE a == Abandon(s)
           f == [type |-> "ack", seq |-> 0, body |-> JobEnd]
           t == WriteWire(a, f)
           v == [t EXCEPT !.est = TRUE, !.had = TRUE, !.sess = ep]
<1>1. a \in DeviceType /\ Same(s, a) /\ a.control = <<>> /\ a.wire = <<>>
  BY AbandonFacts DEF NothingUnderWay
<1>2. f \in DownFrames /\ f.type = "ack"
  BY NoRequestType DEF DownFrames
<1> HIDE DEF a, f
<1>3. t \in DeviceType /\ Same(a, t) /\ t.wire = <<f>> /\ t.control = a.control
  BY <1>1, <1>2, WriteWireFacts
<1> HIDE DEF t
<1>4. v \in DeviceType
  BY <1>3 DEF DeviceType
<1>5. /\ v.pending = t.pending /\ v.submitted = t.submitted /\ v.active = t.active /\ v.failed = t.failed
      /\ v.wire = t.wire /\ v.control = t.control /\ v.cut = t.cut
  BY <1>3 DEF DeviceType
<1>6. ~t.failed
  BY <1>1, <1>3 DEF Same
<1>7. AcceptHello(s, ep) = v
  BY <1>6 DEF AcceptHello, a, f, t
<1> HIDE DEF v
<1>8. v.wire = <<f>> /\ Len(v.wire) = 1 /\ v.wire[1].type = "ack"
  BY <1>2, <1>3, <1>5
<1> QED BY <1>1, <1>3, <1>4, <1>5, <1>6, <1>7, <1>8 DEF Same, NothingUnderWay

(* CdcMuxDeviceSession::handle_packet(), with nothing under way: at most   *)
(* one frame is written and at most one frame's data is taken.             *)
LEMMA HandlePacketFacts ==
  ASSUME NEW s \in DeviceType, NothingUnderWay(s), ~s.failed, ~s.submitted, s.active,
         NEW f \in UpFrames, f.type \in {"open", "close", "data"} => f.chan \in Chans, NEW coded \in BOOLEAN
  PROVE  LET u == HandlePacket(s, f, coded)
         IN  /\ u \in DeviceType /\ ~u.failed /\ ~u.submitted /\ u.active /\ (s.cut => u.cut)
             /\ u.wire = <<>> \/ (Len(u.wire) = 1 /\ u.wire[1].type # "data" /\ (u.wire[1].type = "ack" => f.type = "hello"))
             /\ \/ u.pending = NoRequest /\ u.control = <<>>
                \/ Delivers(s, f) /\ u.pending = ChunkOf(f) /\ u.control = <<>>
                \/ Delivers(s, f) /\ u.pending = NoRequest /\ u.control = CommandsOf(f)
<1> DEFINE u == HandlePacket(s, f, coded)
           next == [s EXCEPT !.rx = @ + 1]
           e == SendError(s)
           Fine(x) == /\ x \in DeviceType /\ (s.cut => x.cut) /\ ~x.failed /\ ~x.submitted /\ x.active /\ x.pending = NoRequest /\ x.control = <<>>
                      /\ x.wire = <<>> \/ (Len(x.wire) = 1 /\ x.wire[1].type # "data" /\ (x.wire[1].type = "ack" => f.type = "hello"))
<1>1. s.wire = <<>> /\ s.pending = NoRequest /\ s.control = <<>> /\ Fine(s)
  BY DEF NothingUnderWay
<1>2. next \in DeviceType
  <2>1. s.rx + 1 \in Nat
    BY DEF DeviceType
  <2> QED BY <2>1 DEF DeviceType
<1>3. /\ next.pending = s.pending /\ next.submitted = s.submitted /\ next.active = s.active /\ next.failed = s.failed
      /\ next.wire = s.wire /\ next.control = s.control /\ next.cut = s.cut
  BY DEF DeviceType
<1> HIDE DEF next
<1>4. Fine(next)
  BY <1>1, <1>2, <1>3
<1>5. ASSUME NEW x \in DeviceType, Fine(x), x.wire = <<>>
      PROVE  Fine(SendError(x))
  BY <1>5, SendErrorFacts DEF Same
<1>6. ASSUME NEW x \in DeviceType, Fine(x)
      PROVE  Fine(Abandon(x))
  BY <1>6, AbandonFacts DEF Same
<1>7. Fine(e) /\ Fine(Abandon(e)) /\ Fine(Abandon(next)) /\ Fine(SendError(next))
  BY <1>1, <1>2, <1>3, <1>4, <1>5, <1>6
<1>8. f.type = "hello" => Fine(AcceptHello(s, f.ep))
  <2>1. f.ep \in Nat
    BY DEF UpFrames
  <2> QED BY <1>1, <2>1, AcceptHelloFacts
<1>9. ASSUME NEW opens \in BOOLEAN, f.chan \in Chans
      PROVE  Fine(UpdateChannel(next, f.chan, opens))
  BY <1>2, <1>4, <1>9, UpdateChannelFacts DEF Same
<1>10. f.type \in {"hello", "open", "close", "data", "reset", "line", "bad"}
  BY DEF UpFrames
<1>11. \/ u \in {s, e, Abandon(e), Abandon(next), SendError(next)}
       \/ f.type = "hello" /\ u = AcceptHello(s, f.ep)
       \/ f.type \in {"open", "close"} /\ \E opens \in BOOLEAN : u = UpdateChannel(next, f.chan, opens)
       \/ Delivers(s, f) /\ u = ReceiveData(next, f)
  <2>1. CASE f.type \in {"bad", "line"}
    BY <2>1 DEF HandlePacket
  <2>2. CASE f.type = "hello"
    BY <2>2 DEF HandlePacket
  <2>3. CASE f.type \notin {"bad", "line", "hello"} /\ ~s.est
    BY <2>3 DEF HandlePacket
  <2>4. CASE f.type \notin {"bad", "line", "hello"} /\ s.est /\ ~InSequence(s, f)
    BY <2>4 DEF HandlePacket
  <2>5. CASE f.type \notin {"bad", "line", "hello"} /\ s.est /\ InSequence(s, f)
    <3>1. CASE f.type = "open"
      BY <2>5, <3>1 DEF HandlePacket, next
    <3>2. CASE f.type = "close"
      BY <2>5, <3>2 DEF HandlePacket, next
    <3>3. CASE f.type = "data"
      BY <2>5, <3>3 DEF HandlePacket, next, Delivers
    <3>4. CASE f.type = "reset"
      BY <2>5, <3>4 DEF HandlePacket, next
    <3> QED BY <2>5, <3>1, <3>2, <3>3, <3>4, <1>10
  <2> QED BY <2>1, <2>2, <2>3, <2>4, <2>5
<1> HIDE DEF e, u
<1>12. CASE \/ u \in {s, e, Abandon(e), Abandon(next), SendError(next)}
            \/ f.type = "hello" /\ u = AcceptHello(s, f.ep)
  BY <1>1, <1>7, <1>8, <1>12 DEF u
<1>13. CASE f.type \in {"open", "close"} /\ \E opens \in BOOLEAN : u = UpdateChannel(next, f.chan, opens)
  BY <1>9, <1>13 DEF u
<1>14. CASE Delivers(s, f) /\ u = ReceiveData(next, f)
  <2> DEFINE v == ReceiveData(next, f)
  <2>1. /\ v \in DeviceType /\ v.submitted = next.submitted /\ v.active = next.active /\ v.failed = next.failed
        /\ v.wire = next.wire /\ v.cut = next.cut
        /\ \/ v.pending = ChunkOf(f) /\ v.control = <<>>
           \/ v.pending = NoRequest /\ v.control = CommandsOf(f)
    BY <1>1, <1>2, <1>3, ReceiveDataFacts
  <2> HIDE DEF v
  <2>2. u = v
    BY <1>14 DEF v
  <2> QED BY <1>1, <1>3, <1>14, <2>1, <2>2 DEF u
<1> QED BY <1>11, <1>12, <1>13, <1>14

(* respond(), with the output buffer empty.                                *)
LEMMA RespondFacts ==
  ASSUME NEW s \in DeviceType, s.wire = <<>>, NEW body \in Replies
  PROVE  LET u == Respond(s, body)
         IN  /\ u \in DeviceType /\ Same(s, u) /\ u.control = s.control /\ u.cut = s.cut
             /\ u.wire = <<>> \/ (Len(u.wire) = 1 /\ u.wire[1].type = "data" /\ u.wire[1].body = body)
<1> DEFINE f == [type |-> "data", seq |-> s.tx, body |-> body]
           w == WriteWire(s, f)
           v == [w EXCEPT !.tx = @ + 1]
           u == Respond(s, body)
<1>1. f \in DownFrames /\ f.type = "data" /\ f.body = body
  BY DEF DownFrames, DeviceType
<1> HIDE DEF f
<1>2. w \in DeviceType /\ Same(s, w) /\ w.wire = <<f>> /\ w.control = s.control /\ w.cut = s.cut
  BY <1>1, WriteWireFacts
<1> HIDE DEF w
<1>3. v \in DeviceType
  <2>1. w.tx + 1 \in Nat
    BY <1>2 DEF DeviceType
  <2> QED BY <1>2, <2>1 DEF DeviceType
<1>4. /\ v.pending = w.pending /\ v.submitted = w.submitted /\ v.active = w.active /\ v.failed = w.failed
      /\ v.wire = w.wire /\ v.control = w.control /\ v.cut = w.cut
  BY <1>2 DEF DeviceType
<1>5. u = v \/ u = s
  BY DEF Respond, v, w, f
<1> HIDE DEF u, v
<1>6. CASE u = s
  BY <1>6 DEF Same, u
<1>7. CASE u = v
  <2>1. v.wire = <<f>> /\ Len(v.wire) = 1 /\ v.wire[1] = f
    BY <1>2, <1>4
  <2>2. Same(s, v)
    BY <1>2, <1>4 DEF Same
  <2>3. v.control = s.control /\ v.cut = s.cut
    BY <1>2, <1>4
  <2> QED BY <1>1, <1>3, <1>7, <2>1, <2>2, <2>3 DEF u
<1> QED BY <1>5, <1>6, <1>7

(* finish_request().                                                       *)
LEMMA FinishRequestFacts ==
  ASSUME NEW s \in DeviceType, s.wire = <<>>, NEW starts \in BOOLEAN
  PROVE  LET u == FinishRequest(s, starts)
         IN  /\ u \in DeviceType /\ u.pending = NoRequest /\ ~u.submitted /\ u.control = s.control /\ u.cut = s.cut
             /\ u.active = s.active /\ u.failed = s.failed
             /\ \/ u.wire = <<>>
                \/ Len(u.wire) = 1 /\ u.wire[1].type = "data" /\ u.wire[1].body = Answer(s.pending.ep, s.pending.id)
<1> DEFINE body == Answer(s.pending.ep, s.pending.id)
           r == Respond(s, body)
           owed == r.owed \/ (starts /\ s.est)
           last == IF starts THEN "running" ELSE r.last
           u == [r EXCEPT !.pending = NoRequest, !.submitted = FALSE, !.owed = owed, !.last = last]
<1>1. body \in Replies
  <2>1. s.pending.ep \in Nat /\ s.pending.id \in Nat
    BY DEF DeviceType, Requests
  <2> QED BY <2>1 DEF Answer, Replies
<1> HIDE DEF body
<1>2. /\ r \in DeviceType /\ Same(s, r) /\ r.control = s.control /\ r.cut = s.cut
      /\ r.wire = <<>> \/ (Len(r.wire) = 1 /\ r.wire[1].type = "data" /\ r.wire[1].body = body)
  BY <1>1, RespondFacts
<1>3. FinishRequest(s, starts) = u
  BY DEF FinishRequest, body
<1> HIDE DEF r
<1>4. owed \in BOOLEAN /\ last \in {"idle", "running"}
  BY <1>2 DEF DeviceType
<1> HIDE DEF owed, last
<1>5. u \in DeviceType
  BY <1>2, <1>4, NoRequestType DEF DeviceType
<1>6. /\ u.pending = NoRequest /\ ~u.submitted /\ u.control = r.control /\ u.cut = r.cut
      /\ u.active = r.active /\ u.failed = r.failed /\ u.wire = r.wire
  BY <1>2 DEF DeviceType
<1> HIDE DEF u
<1> QED BY <1>2, <1>3, <1>5, <1>6 DEF Same, body

-----------------------------------------------------------------------------
(* The steps.                                                              *)
THEOREM MuxStarts == MuxInit => MuxInv
<1> SUFFICES ASSUME MuxInit PROVE MuxInv
  OBVIOUS
<1>1. <<>> \in Seq(DownFrames) /\ <<>> \in Seq(Commands) /\ <<>> \in Seq(UpFrames) /\ Len(<<>>) = 0
  OBVIOUS
<1>2. d \in DeviceType
  BY <1>1, NoRequestType DEF MuxInit, DeviceType
<1>3. DeviceFits(d)
  BY <1>1, <1>2, MuxConstants DEF MuxInit, DeviceFits, NothingUnderWay
<1>4. host \in HostType
  BY MuxConstants DEF MuxInit, HostType
<1>5. MuxTypeOK
  BY <1>1, <1>2, <1>4, MuxConstants DEF MuxInit, MuxTypeOK
<1>6. MailIsPending
  BY DEF MuxInit, MailIsPending
<1> QED BY <1>3, <1>5, <1>6 DEF MuxInv

LEMMA HostResetFacts ==
  ASSUME NEW h \in HostType
  PROVE  LET g == HostReset(h)
         IN  g \in HostType /\ g.ep = h.ep /\ g.n = h.n /\ g.k = h.k /\ g.faults = h.faults
BY DEF HostReset, HostType

(* A frame joins the wire.                                                 *)
LEMMA SendUpFacts ==
  ASSUME up \in Seq(UpFrames), \A i \in DOMAIN up : up[i].type \in {"open", "close", "data"} => up[i].chan \in Chans,
         NEW h \in HostType, NEW f \in UpFrames, f.type \in {"open", "close", "data"} => f.chan \in Chans,
         SendUp(h, f)
  PROVE  /\ host' \in HostType /\ up' \in Seq(UpFrames)
         /\ \A i \in DOMAIN up' : up'[i].type \in {"open", "close", "data"} => up'[i].chan \in Chans
<1> DEFINE b == [f EXCEPT !.type = "bad"]
<1>1. b \in UpFrames /\ b.type = "bad"
  BY DEF UpFrames
<1>2. ASSUME NEW g \in UpFrames, g.type \in {"open", "close", "data"} => g.chan \in Chans, up' = Append(up, g)
      PROVE  /\ up' \in Seq(UpFrames)
             /\ \A i \in DOMAIN up' : up'[i].type \in {"open", "close", "data"} => up'[i].chan \in Chans
  BY <1>2
<1>3. CASE up' = Append(up, f) /\ host' = h
  BY <1>2, <1>3
<1>4. CASE h.faults < MaxFaults /\ up' = Append(up, b) /\ host' = [h EXCEPT !.faults = @ + 1]
  <2>1. h.faults + 1 \in 0..MaxFaults
    BY <1>4, MuxConstants DEF HostType
  <2>2. host' \in HostType
    BY <1>4, <2>1 DEF HostType
  <2> QED BY <1>1, <1>2, <1>4, <2>2
<1> QED BY <1>3, <1>4 DEF SendUp

(* The host's steps leave the device and the owner alone.                  *)
LEMMA HostKeeps ==
  ASSUME MuxInv, HostNext
  PROVE  MuxInv'
<1> DEFINE FramesFit == /\ up' \in Seq(UpFrames)
                        /\ \A i \in DOMAIN up' : up'[i].type \in {"open", "close", "data"} => up'[i].chan \in Chans
<1>1. UNCHANGED <<d, owner, delivered>>
  BY DEF HostNext, HostOpens, HostCloses, BeginHandshake, OpenChannel, CloseChannel, SendControl, SendBinary,
         SendReset, HostSends, SendLine, HostReceives
<1>2. /\ host \in HostType /\ up \in Seq(UpFrames) /\ down \in Seq(DownFrames)
      /\ \A i \in DOMAIN up : up[i].type \in {"open", "close", "data"} => up[i].chan \in Chans
      /\ conn \in [open : BOOLEAN, before : BOOLEAN, n : 0..MaxConns, ended : Nat]
      /\ heard \in [ep : Nat, id : Nat, ends : Nat]
  BY DEF MuxInv, MuxTypeOK
<1>3. host.clean \in BOOLEAN /\ host.ep \in Nat /\ host.k \in Nat /\ host.tx \in Nat /\ host.n \in Nat /\ conn.n \in Nat /\ host.chan \subseteq Chans
      /\ host.k + 1 \in Nat /\ host.ep + 1 \in Nat /\ host.tx + 1 \in Nat
  <2>1. host.ep \in 0..MaxEpochs /\ host.k \in Nat /\ host.tx \in Nat /\ host.n \in 0..MaxFrames /\ host.chan \subseteq Chans
        /\ host.clean \in BOOLEAN
    BY <1>2 DEF HostType
  <2>2. conn.n \in 0..MaxConns
    BY <1>2
  <2> QED BY <2>1, <2>2, MuxConstants
<1>4. SUFFICES /\ host' \in HostType /\ FramesFit /\ down' \in Seq(DownFrames)
               /\ conn' \in [open : BOOLEAN, before : BOOLEAN, n : 0..MaxConns, ended : Nat]
               /\ heard' \in [ep : Nat, id : Nat, ends : Nat]
  <2>1. MuxTypeOK'
    BY <1>1, <1>4 DEF MuxInv, MuxTypeOK
  <2>2. MailIsPending'
    BY <1>1 DEF MuxInv, MailIsPending
  <2>3. DeviceFits(d)'
    BY <1>1 DEF MuxInv
  <2> QED BY <2>1, <2>2, <2>3 DEF MuxInv
<1>5. ASSUME NEW type \in {"hello", "open", "close", "data", "reset", "line"}, NEW chan \in Chans \cup {"link"},
             NEW seq \in Nat, NEW body \in Bodies \cup {<<>>}
      PROVE  UpFrame(type, chan, seq, body) \in UpFrames /\ UpFrame(type, chan, seq, body).type = type
             /\ UpFrame(type, chan, seq, body).chan = chan
  BY <1>3 DEF UpFrame, UpFrames
<1>6. CASE HostOpens
  <2>1. conn.n + 1 \in 0..MaxConns
    BY <1>2, <1>6, MuxConstants DEF HostOpens
  <2>2. conn' \in [open : BOOLEAN, before : BOOLEAN, n : 0..MaxConns, ended : Nat]
    BY <1>2, <1>6, <2>1 DEF HostOpens
  <2>3. host' \in HostType
    BY <1>2, <1>6 DEF HostOpens, HostType
  <2> QED BY <1>2, <1>6, <2>2, <2>3 DEF HostOpens
<1>7. CASE HostCloses
  <2>1. conn' \in [open : BOOLEAN, before : BOOLEAN, n : 0..MaxConns, ended : Nat]
    BY <1>2, <1>7 DEF HostCloses
  <2>2. HostReset(host) \in HostType
    BY <1>2, HostResetFacts
  <2>3. host' \in HostType
    BY <1>7, <2>2 DEF HostCloses, HostType
  <2>4. <<>> \in Seq(DownFrames)
    OBVIOUS
  <2> QED BY <1>2, <1>7, <2>1, <2>3, <2>4 DEF HostCloses
<1>8. CASE BeginHandshake
  <2> DEFINE r == HostReset(host)
             h == [r EXCEPT !.phase = "pending", !.ep = @ + 1, !.k = 0, !.clean = ~Stale]
             g == UpFrame("hello", "link", 0, <<>>)
             f == [g EXCEPT !.ep = @ + 1, !.k = 1, !.opens = {}, !.clean = ~Stale]
  <2>1. r \in HostType /\ r.ep = host.ep
    BY <1>2, HostResetFacts
  <2>2. host.ep + 1 \in 0..MaxEpochs
    <3>1. host.ep < MaxEpochs
      BY <1>8 DEF BeginHandshake
    <3>2. host.ep \in 0..MaxEpochs /\ MaxEpochs \in Nat
      BY <1>2, MuxConstants DEF HostType
    <3> HIDE DEF r, h, g, f
    <3> QED BY <3>1, <3>2
  <2>3. SendUp(h, f)
    BY <1>8 DEF BeginHandshake
  <2> HIDE DEF r
  <2> DEFINE z == ~Stale
  <2>4. z \in BOOLEAN
    BY Zenon DEF Stale
  <2> HIDE DEF z
  <2>5. h \in HostType
    <3>1. r.ep + 1 \in 0..MaxEpochs
      BY <2>1, <2>2
    <3>2. h = [r EXCEPT !.phase = "pending", !.ep = @ + 1, !.k = 0, !.clean = z]
      BY DEF z
    <3> HIDE DEF h
    <3> QED BY <2>1, <2>4, <3>1, <3>2 DEF HostType
  <2>6. g \in UpFrames /\ g.type = "hello" /\ g.ep = host.ep
    BY <1>3, <1>5 DEF UpFrame
  <2> HIDE DEF g, h
  <2>7. f \in UpFrames /\ f.type = "hello"
    <3>1. f = [g EXCEPT !.ep = @ + 1, !.k = 1, !.opens = {}, !.clean = z]
      BY DEF z
    <3> HIDE DEF f
    <3> QED BY <1>3, <2>6, <2>4, <3>1 DEF UpFrames
  <2> HIDE DEF f
  <2>8. host' \in HostType /\ FramesFit
    BY <1>2, <2>3, <2>5, <2>7, SendUpFacts
  <2> QED BY <1>2, <1>8, <2>8 DEF BeginHandshake
<1>9. ASSUME NEW type \in {"open", "close", "data", "reset"}, NEW chan \in Chans \cup {"link"}, NEW body \in Bodies \cup {<<>>},
             NEW channels \in SUBSET Chans, type # "reset" => chan \in Chans, HostSends(type, chan, body, channels)
      PROVE  host' \in HostType /\ FramesFit /\ UNCHANGED <<down, conn, heard>>
  <2> DEFINE k == IF type = "data" THEN host.k + 1 ELSE host.k
             h == [host EXCEPT !.tx = @ + 1, !.n = @ + 1, !.k = k, !.chan = channels]
             f == UpFrame(type, chan, host.tx, body)
  <2>1. SendUp(h, f) /\ UNCHANGED <<down, conn, heard>>
    BY <1>9 DEF HostSends
  <2>2. k \in Nat /\ host.n + 1 \in 0..MaxFrames
    <3>1. k \in Nat
      BY <1>3
    <3>2. host.n \in 0..MaxFrames /\ host.n < MaxFrames
      BY <1>2, <1>9 DEF HostSends, HostType
    <3> QED BY <3>1, <3>2, MuxConstants
  <2> HIDE DEF k
  <2>3. h \in HostType
    BY <1>2, <1>3, <2>2 DEF HostType
  <2>4. f \in UpFrames /\ f.type = type /\ f.chan = chan
    <3>1. type \in {"hello", "open", "close", "data", "reset", "line"} /\ host.tx \in Nat
      BY <1>3
    <3> QED BY <3>1, <1>5
  <2> HIDE DEF h, f
  <2>5. f.type \in {"open", "close", "data"} => f.chan \in Chans
    BY <1>9, <2>4
  <2> QED BY <1>2, <2>1, <2>3, <2>4, <2>5, SendUpFacts
<1>10. CASE \E c \in {"control", "binary"} : OpenChannel(c) \/ CloseChannel(c)
  <2>1. PICK c \in {"control", "binary"} : OpenChannel(c) \/ CloseChannel(c)
    BY <1>10
  <2>2. c \in Chans /\ host.chan \cup {c} \in SUBSET Chans /\ host.chan \ {c} \in SUBSET Chans
    BY <1>3 DEF Chans
  <2>3. host' \in HostType /\ FramesFit /\ UNCHANGED <<down, conn, heard>>
    BY <1>9, <2>1, <2>2 DEF OpenChannel, CloseChannel
  <2> QED BY <1>2, <2>3
<1>11. CASE SendBinary \/ SendReset \/ \E b \in Bodies : SendControl(b)
  <2>1. host.chan \in SUBSET Chans /\ "binary" \in Chans /\ "control" \in Chans
    BY <1>3 DEF Chans
  <2>2. host' \in HostType /\ FramesFit /\ UNCHANGED <<down, conn, heard>>
    BY <1>9, <1>11, <2>1 DEF SendBinary, SendReset, SendControl
  <2> QED BY <1>2, <2>2
<1>12. CASE SendLine
  <2> DEFINE f == UpFrame("line", "link", 0, <<>>)
  <2>1. host.n + 1 \in 0..MaxFrames
    <3>1. host.n \in 0..MaxFrames /\ host.n < MaxFrames
      BY <1>2, <1>12 DEF SendLine, HostType
    <3> QED BY <3>1, MuxConstants
  <2>2. host' \in HostType
    BY <1>2, <1>12, <2>1 DEF SendLine, HostType
  <2>3. f \in UpFrames /\ f.type = "line" /\ up' = Append(up, f)
    <3>1. f \in UpFrames /\ f.type = "line"
      BY <1>3, <1>5 DEF UpFrame
    <3>2. up' = Append(up, f)
      BY <1>12 DEF SendLine
    <3> QED BY <3>1, <3>2
  <2> HIDE DEF f
  <2>4. FramesFit
    BY <1>2, <2>3
  <2> QED BY <1>2, <1>12, <2>2, <2>4 DEF SendLine
<1>13. CASE HostReceives
  <2>1. down' = Tail(down) /\ down # <<>> /\ UNCHANGED <<up, conn>>
    BY <1>13 DEF HostReceives
  <2>2. down' \in Seq(DownFrames) /\ Head(down) \in DownFrames
    BY <1>2, <2>1
  <2>3. HostReset(host) \in HostType
    BY <1>2, HostResetFacts
  <2>4. host.rx + 1 \in Nat
    BY <1>2 DEF HostType
  <2>5. [host EXCEPT !.phase = "up"] \in HostType /\ [host EXCEPT !.rx = @ + 1] \in HostType
    BY <1>2, <2>4 DEF HostType
  <2>6. host' \in HostType
    BY <1>13, <2>3, <2>5 DEF HostReceives
  <2>7. Head(down).body.ep \in Nat /\ Head(down).body.id \in Nat /\ heard.ends + 1 \in Nat
    BY SMTT(30), <1>2, <2>2 DEF DownFrames, Replies
  <2>8. \/ heard' = heard \/ heard' = [heard EXCEPT !.ends = @ + 1]
        \/ heard' = [heard EXCEPT !.ep = Head(down).body.ep, !.id = Head(down).body.id]
    BY <1>13 DEF HostReceives
  <2>9. heard' \in [ep : Nat, id : Nat, ends : Nat]
    BY <1>2, <2>7, <2>8
  <2> QED BY <1>2, <2>1, <2>2, <2>6, <2>9
<1> QED BY <1>6, <1>7, <1>8, <1>10, <1>11, <1>12, <1>13 DEF HostNext

(* A frame's bytes are fed to a session that holds nothing.                *)
LEMMA FeedKeeps ==
  ASSUME MuxInv, up # <<>>, ~d.failed, NothingUnderWay(d), ~d.submitted, up' = Tail(up), Feed(d, Head(up)),
         UNCHANGED <<host, down, owner, conn, heard>>
  PROVE  MuxInv'
<1> DEFINE s == [d EXCEPT !.active = TRUE]
           f == Head(up)
<1>1. PICK coded \in BOOLEAN : d' = HandlePacket(s, f, coded)
  BY DEF Feed
<1> DEFINE u == HandlePacket(s, f, coded)
<1>2. d \in DeviceType /\ up \in Seq(UpFrames) /\ delivered \in [ep : Nat, k : Nat, clean : BOOLEAN]
      /\ \A i \in DOMAIN up : up[i].type \in {"open", "close", "data"} => up[i].chan \in Chans
  BY DEF MuxInv, MuxTypeOK
<1>3. s \in DeviceType
  BY <1>2 DEF DeviceType
<1>4. s.active /\ s.failed = d.failed /\ s.submitted = d.submitted /\ s.cut = d.cut /\ NothingUnderWay(s)
  BY <1>2 DEF NothingUnderWay, DeviceType
<1> HIDE DEF s
<1>5. f = up[1] /\ 1 \in DOMAIN up /\ up' \in Seq(UpFrames)
      /\ \A i \in DOMAIN up' : i + 1 \in DOMAIN up /\ up'[i] = up[i + 1]
  BY <1>2
<1>6. f \in UpFrames /\ (f.type \in {"open", "close", "data"} => f.chan \in Chans)
  BY <1>2, <1>5
<1>7. \A i \in DOMAIN up' : up'[i].type \in {"open", "close", "data"} => up'[i].chan \in Chans
  BY <1>2, <1>5
<1> HIDE DEF f
<1>8. /\ u \in DeviceType /\ ~u.failed /\ ~u.submitted /\ u.active /\ (d.cut => u.cut)
      /\ u.wire = <<>> \/ (Len(u.wire) = 1 /\ u.wire[1].type # "data")
  BY <1>3, <1>4, <1>6, HandlePacketFacts
<1>9. d' = u
  BY <1>1
<1> HIDE DEF u
<1>10. DeviceFits(d)'
  <2>2. Len(u.wire) <= WireFrames
    BY <1>8, OneFrameFits
  <2> QED BY <1>8, <1>9, <2>2 DEF DeviceFits
<1>11. f.ep \in Nat /\ f.k \in Nat /\ f.clean \in BOOLEAN
  BY <1>6 DEF UpFrames
<1>12. delivered' = IF Delivers(d, f) THEN [ep |-> f.ep, k |-> f.k, clean |-> f.clean] ELSE delivered
  BY DEF Feed, f
<1>13. delivered' \in [ep : Nat, k : Nat, clean : BOOLEAN]
  BY <1>2, <1>11, <1>12
<1>14. MuxTypeOK'
  BY <1>5, <1>7, <1>8, <1>9, <1>13 DEF MuxInv, MuxTypeOK
<1>15. MailIsPending'
  <2>1. ~d.cut => owner.mail = "free"
    BY DEF MuxInv, MailIsPending
  <2> QED BY <1>8, <1>9, <2>1 DEF MailIsPending
<1> QED BY <1>10, <1>14, <1>15 DEF MuxInv

(* What the device's steps leave to show when the host, the wire and the   *)
(* connection's counts stay as they are.                                   *)
LEMMA DeviceOnly ==
  ASSUME MuxInv, UNCHANGED <<host, up, conn, delivered, heard>>, down' \in Seq(DownFrames), DeviceFits(d'), MailIsPending',
         owner' \in [mail : {"free", "request", "reply"}, kind : {"none", "data", "send", "reset"}, ok : BOOLEAN,
                     job : {"idle", "running"}, jobs : 0..MaxJobs]
  PROVE  MuxInv'
<1>1. MuxTypeOK'
  BY DEF MuxInv, MuxTypeOK, DeviceFits
<1> QED BY <1>1 DEF MuxInv, DeviceFits

(* A session that may be taken from: nothing waits to be written.          *)
LEMMA ServicedFacts ==
  ASSUME MuxInv, Serviced
  PROVE  d \in DeviceType /\ d.wire = <<>> /\ ~d.failed /\ d.active
BY DEF MuxInv, MuxTypeOK, Serviced

(* tx_usb_disconnect(): everything under way goes with the connection.     *)
LEMMA NoticeKeeps ==
  ASSUME MuxInv, NoticeClosed \/ NoticeOpened
  PROVE  MuxInv'
<1> USE DEF MuxInv
<1>1. UNCHANGED <<host, up, down, owner, delivered, heard>> /\ conn \in [open : BOOLEAN, before : BOOLEAN, n : 0..MaxConns, ended : Nat]
  BY DEF NoticeClosed, NoticeOpened, MuxTypeOK
<1>2. CASE NoticeOpened
  <2>1. d' = d /\ conn' \in [open : BOOLEAN, before : BOOLEAN, n : 0..MaxConns, ended : Nat]
    BY <1>1, <1>2 DEF NoticeOpened
  <2>2. MuxTypeOK'
    BY <1>1, <2>1 DEF MuxTypeOK
  <2> QED BY <1>1, <2>1, <2>2 DEF MailIsPending
<1>3. CASE NoticeClosed
  <2> DEFINE a == Abandon(d)
             s == [a EXCEPT !.partial = FALSE, !.wire = <<>>, !.control = <<>>, !.pending = NoRequest,
                      !.submitted = FALSE, !.failed = FALSE, !.active = FALSE, !.had = FALSE, !.last = "idle", !.cut = TRUE]
             u == [s EXCEPT !.line = 0, !.lineSeq = FALSE]
             v == [d EXCEPT !.line = 0, !.lineSeq = FALSE]
  <2>1. a \in DeviceType /\ ~a.est
    BY AbandonFacts DEF MuxTypeOK
  <2>2. d' = IF d.active THEN u ELSE v
    BY <1>3 DEF NoticeClosed
  <2> HIDE DEF a
  <2>3. <<>> \in Seq(DownFrames) /\ <<>> \in Seq(Commands) /\ Len(<<>>) = 0
    OBVIOUS
  <2>4. s \in DeviceType
    BY <2>1, <2>3, NoRequestType DEF DeviceType
  <2>5. /\ s.wire = <<>> /\ s.control = <<>> /\ s.pending = NoRequest /\ ~s.submitted /\ ~s.failed /\ ~s.active
        /\ ~s.had /\ s.cut /\ ~s.est
    BY <2>1 DEF DeviceType
  <2> HIDE DEF s
  <2>6. u \in DeviceType
    BY <2>4 DEF DeviceType
  <2>7. /\ u.wire = s.wire /\ u.control = s.control /\ u.pending = s.pending /\ u.submitted = s.submitted
        /\ u.failed = s.failed /\ u.active = s.active /\ u.had = s.had /\ u.cut = s.cut /\ u.est = s.est
    BY <2>4 DEF DeviceType
  <2> HIDE DEF u
  <2>8. d \in DeviceType
    BY DEF MuxTypeOK
  <2>9. v \in DeviceType
    BY <2>8 DEF DeviceType
  <2>10. /\ v.wire = d.wire /\ v.control = d.control /\ v.pending = d.pending /\ v.submitted = d.submitted
         /\ v.failed = d.failed /\ v.active = d.active /\ v.had = d.had /\ v.cut = d.cut /\ v.est = d.est
    BY <2>8 DEF DeviceType
  <2> HIDE DEF v
  <2>11. DeviceFits(u)
    BY <2>3, <2>5, <2>6, <2>7, MuxConstants DEF DeviceFits, NothingUnderWay
  <2>12. DeviceFits(v)
    BY <2>9, <2>10 DEF DeviceFits, NothingUnderWay
  <2>13. DeviceFits(d')
    BY <2>2, <2>11, <2>12
  <2>14. conn.ended + 1 \in Nat
    BY <1>1
  <2>15. conn' \in [open : BOOLEAN, before : BOOLEAN, n : 0..MaxConns, ended : Nat]
    BY <1>1, <1>3, <2>14 DEF NoticeClosed
  <2>16. MuxTypeOK'
    BY <1>1, <2>13, <2>15 DEF MuxTypeOK, DeviceFits
  <2>17. MailIsPending'
    <3>1. u.cut
      BY <2>5, <2>7
    <3>2. CASE d.active
      BY <3>1, <3>2, <2>2 DEF MailIsPending
    <3>3. CASE ~d.active
      BY <3>3, <1>1, <2>2, <2>10 DEF MailIsPending
    <3> QED BY <3>2, <3>3
  <2> QED BY <2>13, <2>16, <2>17 DEF DeviceFits
<1> QED BY <1>2, <1>3

(* Ingest, and the bytes that choose a protocol.                           *)
LEMMA BytesKeep ==
  ASSUME MuxInv, Ingest \/ Bind
  PROVE  MuxInv'
<1>1. d \in DeviceType /\ DeviceFits(d) /\ up \in Seq(UpFrames) /\ up # <<>> /\ up' = Tail(up)
      /\ UNCHANGED <<host, down, owner, conn, heard>>
  BY DEF MuxInv, MuxTypeOK, Ingest, Bind
<1>2. CASE Ingest
  <2>1. ~d.failed /\ NothingUnderWay(d) /\ ~d.submitted
    BY <1>1, <1>2 DEF Ingest, TxBlocked, NothingUnderWay, DeviceFits
  <2> QED BY <1>1, <1>2, <2>1, FeedKeeps DEF Ingest
<1>3. CASE Bind /\ StartsMux(Head(up))
  <2>1. ~d.failed /\ NothingUnderWay(d) /\ ~d.submitted
    BY <1>1, <1>3 DEF Bind, NothingUnderWay, DeviceFits
  <2>2. Feed(d, Head(up))
    BY <1>3 DEF Bind
  <2> QED BY <1>1, <2>1, <2>2, FeedKeeps
<1>4. CASE Bind /\ ~StartsMux(Head(up))
  <2> DEFINE f == Head(up)
             line == IF f.type = "line" THEN 0 ELSE IF d.line = 0 THEN f.conn ELSE d.line
             seq == IF f.type = "line" THEN d.lineSeq \/ d.line = 0 ELSE d.lineSeq
             v == [d EXCEPT !.line = line, !.lineSeq = seq]
  <2>1. f \in UpFrames /\ up' \in Seq(UpFrames) /\ (\A i \in DOMAIN up' : i + 1 \in DOMAIN up /\ up'[i] = up[i + 1])
    BY <1>1
  <2>2. delivered' = delivered /\ d' = IF f.type = "line" THEN [d EXCEPT !.line = 0, !.lineSeq = @ \/ d.line = 0]
                                      ELSE IF d.line = 0 THEN [d EXCEPT !.line = f.conn] ELSE d
    BY <1>4 DEF Bind
  <2>3. line \in Nat /\ seq \in BOOLEAN
    BY <1>1, <2>1 DEF DeviceType, UpFrames
  <2>4. d' = v
    BY <1>1, <2>2 DEF DeviceType
  <2> HIDE DEF line, seq, f
  <2>5. v \in DeviceType
    BY <1>1, <2>3 DEF DeviceType
  <2>6. /\ v.wire = d.wire /\ v.control = d.control /\ v.pending = d.pending /\ v.submitted = d.submitted
        /\ v.failed = d.failed /\ v.active = d.active /\ v.had = d.had /\ v.cut = d.cut /\ v.est = d.est
    BY <1>1 DEF DeviceType
  <2> HIDE DEF v
  <2>7. DeviceFits(d)'
    BY <1>1, <2>4, <2>5, <2>6 DEF DeviceFits, NothingUnderWay
  <2>8. \A i \in DOMAIN up' : up'[i].type \in {"open", "close", "data"} => up'[i].chan \in Chans
    BY <2>1 DEF MuxInv, MuxTypeOK
  <2>9. MuxTypeOK'
    BY <1>1, <2>1, <2>2, <2>4, <2>5, <2>8 DEF MuxInv, MuxTypeOK
  <2>10. MailIsPending'
    BY <1>1, <2>4, <2>6 DEF MuxInv, MailIsPending
  <2> QED BY <2>7, <2>9, <2>10 DEF MuxInv
<1> QED BY <1>2, <1>3, <1>4

(* tx_usb_service() writes a frame into the FIFO.                          *)
LEMMA WriteOutKeeps ==
  ASSUME MuxInv, WriteOut
  PROVE  MuxInv'
<1>1. d \in DeviceType /\ DeviceFits(d) /\ down \in Seq(DownFrames) /\ d.wire \in Seq(DownFrames) /\ d.wire # <<>>
  BY DEF MuxInv, MuxTypeOK, WriteOut, DeviceType
<1>2. down' = Append(down, Head(d.wire)) /\ d' = [d EXCEPT !.wire = Tail(@)]
      /\ UNCHANGED <<host, up, owner, conn, delivered, heard>>
  BY DEF WriteOut
<1>3. Tail(d.wire) \in Seq(DownFrames) /\ Len(Tail(d.wire)) = Len(d.wire) - 1 /\ Head(d.wire) \in DownFrames
      /\ Len(d.wire) \in Nat
  BY <1>1
<1>4. d' \in DeviceType
  BY <1>1, <1>2, <1>3 DEF DeviceType
<1>5. /\ d'.wire = Tail(d.wire) /\ d'.control = d.control /\ d'.pending = d.pending /\ d'.submitted = d.submitted
      /\ d'.failed = d.failed /\ d'.active = d.active /\ d'.had = d.had /\ d'.cut = d.cut /\ d'.est = d.est
  BY <1>1, <1>2 DEF DeviceType
<1>6. Len(d'.wire) <= WireFrames
  BY <1>1, <1>3, <1>5, MuxConstants DEF DeviceFits
<1>7. d.active
  BY DEF WriteOut
<1>8. DeviceFits(d')
  BY <1>1, <1>4, <1>5, <1>6, <1>7 DEF DeviceFits
<1>9. MailIsPending'
  BY <1>2, <1>5 DEF MuxInv, MailIsPending
<1>10. down' \in Seq(DownFrames)
  BY <1>1, <1>2, <1>3
<1>11. owner' = owner
  BY <1>2
<1> QED BY <1>2, <1>8, <1>9, <1>10, <1>11, DeviceOnly DEF MuxInv, MuxTypeOK

(* submit_tx_request(): the mailbox takes the request that waits.          *)
LEMMA SubmitKeeps ==
  ASSUME MuxInv, SubmitRequest
  PROVE  MuxInv'
<1>1. d \in DeviceType /\ DeviceFits(d) /\ d.pending \in Requests /\ d.pending # NoRequest /\ ~d.submitted /\ ~d.cut
      /\ d.active
  BY DEF MuxInv, MuxTypeOK, SubmitRequest, Serviced, DeviceType
<1>2. d' = [d EXCEPT !.submitted = TRUE] /\ owner' = [owner EXCEPT !.mail = "request", !.kind = d.pending.kind]
      /\ UNCHANGED <<host, up, down, conn, delivered, heard>>
  BY DEF SubmitRequest
<1>3. d' \in DeviceType
  BY <1>1, <1>2 DEF DeviceType
<1>4. /\ d'.wire = d.wire /\ d'.control = d.control /\ d'.pending = d.pending /\ d'.submitted
      /\ d'.failed = d.failed /\ d'.active = d.active /\ d'.had = d.had /\ d'.cut = d.cut /\ d'.est = d.est
  BY <1>1, <1>2 DEF DeviceType
<1>5. DeviceFits(d')
  BY <1>1, <1>3, <1>4 DEF DeviceFits
<1>6. d.pending.kind \in {"none", "data", "send", "reset"}
  BY <1>1 DEF Requests
<1>7. owner' \in [mail : {"free", "request", "reply"}, kind : {"none", "data", "send", "reset"}, ok : BOOLEAN,
                  job : {"idle", "running"}, jobs : 0..MaxJobs]
      /\ owner'.mail = "request" /\ owner'.kind = d.pending.kind
  BY <1>2, <1>6 DEF MuxInv, MuxTypeOK
<1>8. MailIsPending'
  BY <1>4, <1>7 DEF MailIsPending
<1> QED BY <1>2, <1>5, <1>7, <1>8, DeviceOnly DEF MuxInv, MuxTypeOK

(* finish_request(): the mailbox and the waiting request are free together. *)
LEMMA ReplyKeeps ==
  ASSUME MuxInv, TakeReply
  PROVE  MuxInv'
<1> DEFINE starts == owner.kind = "send" /\ owner.ok
           u == FinishRequest(d, starts)
<1>1. d \in DeviceType /\ DeviceFits(d) /\ d.wire = <<>> /\ d.active
  BY ServicedFacts DEF MuxInv, TakeReply
<1>2. starts \in BOOLEAN
  BY DEF MuxInv, MuxTypeOK
<1>3. d' = u /\ owner' = [owner EXCEPT !.mail = "free", !.kind = "none", !.ok = TRUE]
      /\ UNCHANGED <<host, up, down, conn, delivered, heard>>
  BY DEF TakeReply
<1> HIDE DEF starts
<1>4. /\ u \in DeviceType /\ u.pending = NoRequest /\ ~u.submitted /\ u.control = d.control /\ u.cut = d.cut
      /\ u.active = d.active /\ u.failed = d.failed
      /\ u.wire = <<>> \/ Len(u.wire) = 1
  BY <1>1, <1>2, FinishRequestFacts
<1> HIDE DEF u
<1>6. Len(u.wire) <= WireFrames
  BY <1>4, OneFrameFits
<1>7. DeviceFits(d')
  BY <1>1, <1>3, <1>4, <1>6 DEF DeviceFits
<1>8. owner' \in [mail : {"free", "request", "reply"}, kind : {"none", "data", "send", "reset"}, ok : BOOLEAN,
                  job : {"idle", "running"}, jobs : 0..MaxJobs] /\ owner'.mail = "free"
  BY <1>3 DEF MuxInv, MuxTypeOK
<1>9. MailIsPending'
  BY <1>3, <1>4, <1>8 DEF MailIsPending
<1> QED BY <1>3, <1>7, <1>8, <1>9, DeviceOnly DEF MuxInv, MuxTypeOK

(* pump_commands(): a command is answered or becomes the request.          *)
LEMMA PumpKeeps ==
  ASSUME MuxInv, PumpCommand
  PROVE  MuxInv'
<1> DEFINE c == Head(d.control)
           s == [d EXCEPT !.control = Tail(@), !.partial = (c.piece = "head")]
           kind == CASE d.partial /\ c.piece = "tail" -> "send"
                     [] ~d.partial /\ c.piece \in {"send", "reset"} -> c.piece
                     [] OTHER -> "none"
           r == Respond(s, Answer(c.ep, c.id))
           asked == [kind |-> kind, ep |-> c.ep, id |-> c.id]
           p == [s EXCEPT !.pending = asked]
<1>1. d \in DeviceType /\ DeviceFits(d) /\ d.wire = <<>> /\ d.active /\ ~d.failed /\ d.pending = NoRequest
      /\ d.control \in Seq(Commands) /\ d.control # <<>> /\ ~d.submitted
  BY ServicedFacts DEF MuxInv, MuxTypeOK, PumpCommand, MayPump, DeviceType, DeviceFits
<1>2. c \in Commands /\ Tail(d.control) \in Seq(Commands)
  BY <1>1
<1>3. d' = s \/ d' = r \/ (kind # "none" /\ d' = p)
  BY DEF PumpCommand
<1>4. UNCHANGED <<host, up, down, owner, conn, delivered, heard>>
  BY DEF PumpCommand
<1>5. kind \in {"none", "send", "reset"}
  BY DEF Commands
<1>6. c.ep \in Nat /\ c.id \in Nat /\ (c.piece = "head") \in BOOLEAN
  BY <1>2 DEF Commands
<1> HIDE DEF c, kind
<1>7. s \in DeviceType
  BY <1>1, <1>2, <1>6 DEF DeviceType
<1>8. /\ s.wire = <<>> /\ s.pending = NoRequest /\ s.submitted = d.submitted /\ s.failed = d.failed
      /\ s.active = d.active /\ s.cut = d.cut /\ s.est = d.est
  BY <1>1 DEF DeviceType
<1> HIDE DEF s
<1>9. asked \in Requests /\ Answer(c.ep, c.id) \in Replies
  BY <1>5, <1>6 DEF Requests, Answer, Replies
<1>10. /\ r \in DeviceType /\ Same(s, r) /\ r.cut = s.cut
       /\ r.wire = <<>> \/ Len(r.wire) = 1
  BY <1>7, <1>8, <1>9, RespondFacts
<1> HIDE DEF r, asked
<1>11. p \in DeviceType
  BY <1>7, <1>9 DEF DeviceType
<1>12. p.wire = s.wire /\ p.submitted = s.submitted /\ p.failed = s.failed /\ p.active = s.active /\ p.cut = s.cut
  BY <1>7 DEF DeviceType
<1> HIDE DEF p
<1>13. d' \in DeviceType /\ ~d'.submitted /\ ~d'.failed /\ d'.active /\ d'.cut = d.cut
       /\ (d'.wire = <<>> \/ Len(d'.wire) = 1)
  BY <1>1, <1>3, <1>7, <1>8, <1>10, <1>11, <1>12 DEF Same
<1>15. Len(d'.wire) <= WireFrames
  BY <1>13, OneFrameFits
<1>16. DeviceFits(d')
  BY <1>13, <1>15 DEF DeviceFits
<1>17. MailIsPending'
  BY <1>1, <1>4, <1>13 DEF MuxInv, MailIsPending
<1> QED BY <1>4, <1>16, <1>17, DeviceOnly DEF MuxInv, MuxTypeOK

(* The end of a job is reported into an empty output buffer.               *)
LEMMA AnnounceKeeps ==
  ASSUME MuxInv, Announce
  PROVE  MuxInv'
<1> DEFINE r == Respond(d, JobEnd)
           v == [r EXCEPT !.last = owner.job, !.owed = FALSE]
           w == [d EXCEPT !.last = owner.job]
<1>1. d \in DeviceType /\ DeviceFits(d) /\ d.wire = <<>> /\ d.active /\ ~d.failed /\ d.pending = NoRequest /\ ~d.submitted
      /\ owner.job \in {"idle", "running"}
  BY ServicedFacts DEF MuxInv, MuxTypeOK, Announce, DeviceFits
<1>2. d' = v \/ d' = w
  BY DEF Announce
<1>3. UNCHANGED <<host, up, down, owner, conn, delivered, heard>>
  BY DEF Announce
<1>4. /\ r \in DeviceType /\ Same(d, r) /\ r.cut = d.cut
      /\ r.wire = <<>> \/ Len(r.wire) = 1
  BY <1>1, NoRequestType, RespondFacts
<1> HIDE DEF r
<1>5. v \in DeviceType /\ w \in DeviceType
  BY <1>1, <1>4 DEF DeviceType
<1>6. v.wire = r.wire /\ v.submitted = r.submitted /\ v.failed = r.failed /\ v.active = r.active /\ v.cut = r.cut
  BY <1>4 DEF DeviceType
<1>7. w.wire = d.wire /\ w.submitted = d.submitted /\ w.failed = d.failed /\ w.active = d.active /\ w.cut = d.cut
  BY <1>1 DEF DeviceType
<1> HIDE DEF v, w
<1>8. d' \in DeviceType /\ ~d'.submitted /\ ~d'.failed /\ d'.active /\ d'.cut = d.cut
      /\ (d'.wire = <<>> \/ Len(d'.wire) = 1)
  BY <1>1, <1>2, <1>4, <1>5, <1>6, <1>7 DEF Same
<1>10. Len(d'.wire) <= WireFrames
  BY <1>8, OneFrameFits
<1>11. DeviceFits(d')
  BY <1>8, <1>10 DEF DeviceFits
<1>12. MailIsPending'
  BY <1>1, <1>3, <1>8 DEF MuxInv, MailIsPending
<1> QED BY <1>3, <1>11, <1>12, DeviceOnly DEF MuxInv, MuxTypeOK

(* The owner serves what is in its mailbox, or a disconnect empties it.    *)
LEMMA OwnerKeepsMail ==
  ASSUME MuxInv, OwnerDisconnects \/ OwnerServes \/ JobEnds
  PROVE  MuxInv'
<1>1. d \in DeviceType /\ DeviceFits(d) /\ UNCHANGED <<host, up, down, conn, delivered, heard>>
      /\ owner \in [mail : {"free", "request", "reply"}, kind : {"none", "data", "send", "reset"}, ok : BOOLEAN,
                    job : {"idle", "running"}, jobs : 0..MaxJobs]
  BY DEF MuxInv, MuxTypeOK, OwnerDisconnects, OwnerServes, JobEnds
<1> DEFINE OwnerFits == owner' \in [mail : {"free", "request", "reply"}, kind : {"none", "data", "send", "reset"}, ok : BOOLEAN,
                                    job : {"idle", "running"}, jobs : 0..MaxJobs]
<1>2. CASE OwnerDisconnects
  <2>1. d.cut /\ ~d.submitted
    BY <1>1, <1>2 DEF OwnerDisconnects, DeviceFits
  <2>2. d' = [d EXCEPT !.cut = FALSE] /\ owner' = [owner EXCEPT !.mail = "free", !.kind = "none", !.ok = TRUE]
    BY <1>2 DEF OwnerDisconnects
  <2>3. d' \in DeviceType
    BY <1>1, <2>2 DEF DeviceType
  <2>4. /\ d'.wire = d.wire /\ d'.control = d.control /\ d'.pending = d.pending /\ d'.submitted = d.submitted
        /\ d'.failed = d.failed /\ d'.active = d.active /\ d'.had = d.had /\ d'.est = d.est
    BY <1>1, <2>2 DEF DeviceType
  <2>5. DeviceFits(d')
    BY <1>1, <2>1, <2>3, <2>4 DEF DeviceFits, NothingUnderWay
  <2>6. OwnerFits /\ owner'.mail = "free"
    BY <1>1, <2>2
  <2>7. MailIsPending'
    BY <2>1, <2>4, <2>6 DEF MailIsPending
  <2> QED BY <1>1, <2>5, <2>6, <2>7, DeviceOnly DEF MuxInv, MuxTypeOK
<1>3. CASE OwnerServes
  <2>1. d' = d /\ ~d.cut /\ owner.mail = "request"
    BY <1>3 DEF OwnerServes
  <2>2. owner.jobs < MaxJobs => owner.jobs + 1 \in 0..MaxJobs
    BY <1>1, MuxConstants
  <2>3. OwnerFits
    BY <1>1, <1>3, <2>2 DEF OwnerServes
  <2>4. owner'.mail = "reply" /\ owner'.kind = owner.kind
    BY <1>1, <1>3 DEF OwnerServes
  <2>5. MailIsPending'
    BY <2>1, <2>4 DEF MuxInv, MailIsPending
  <2> QED BY <1>1, <2>1, <2>3, <2>5, DeviceOnly DEF MuxInv, MuxTypeOK
<1>4. CASE JobEnds
  <2>1. d' = d /\ owner' = [owner EXCEPT !.job = "idle"]
    BY <1>4 DEF JobEnds
  <2>2. OwnerFits /\ owner'.mail = owner.mail /\ owner'.kind = owner.kind
    BY <1>1, <2>1
  <2>3. MailIsPending'
    BY <2>1, <2>2 DEF MuxInv, MailIsPending
  <2> QED BY <1>1, <2>1, <2>2, <2>3, DeviceOnly DEF MuxInv, MuxTypeOK
<1> QED BY <1>2, <1>3, <1>4

THEOREM MuxStep == MuxInv /\ [MuxNext]_muxVars => MuxInv'
<1> SUFFICES ASSUME MuxInv, [MuxNext]_muxVars PROVE MuxInv'
  OBVIOUS
<1>1. CASE HostNext
  BY <1>1, HostKeeps
<1>2. CASE DeviceNext
  BY <1>2, NoticeKeeps, BytesKeep, WriteOutKeeps, SubmitKeeps, ReplyKeeps, PumpKeeps, AnnounceKeeps DEF DeviceNext
<1>3. CASE OwnerNext
  BY <1>3, OwnerKeepsMail DEF OwnerNext
<1>4. CASE UNCHANGED muxVars
  <2>1. MuxTypeOK'
    BY <1>4 DEF muxVars, MuxInv, MuxTypeOK
  <2>2. MailIsPending'
    BY <1>4 DEF muxVars, MuxInv, MailIsPending
  <2> QED BY <1>4, <2>1, <2>2 DEF muxVars, MuxInv
<1> QED BY <1>1, <1>2, <1>3, <1>4 DEF MuxNext

THEOREM MuxInvariant == MuxSpec => []MuxInv
BY MuxStarts, MuxStep, PTL DEF MuxSpec

(* tx_usb never fails: a frame is handed to the session only when nothing  *)
(* of an earlier one is under way, so the mailbox is free for its data and *)
(* the output buffer for the one frame that answers it.                    *)
THEOREM MuxNeverFails == MuxSpec => []NeverFails
<1>1. MuxInv => NeverFails
  BY DEF MuxInv, DeviceFits, NeverFails
<1> QED BY <1>1, MuxInvariant, PTL

(* A reply that is taken answers the request that waits: take_tx_reply()   *)
(* finds none of an earlier connection's.                                  *)
ReplyAnswersRequest == [][TakeReply => d.pending # NoRequest /\ owner.kind = d.pending.kind]_muxVars

THEOREM MuxReplies == MuxSpec => ReplyAnswersRequest
<1>1. MuxInv => (TakeReply => d.pending # NoRequest /\ owner.kind = d.pending.kind)
  BY DEF TakeReply, MuxInv, DeviceFits, MailIsPending
<1>2. MuxInv /\ [MuxNext]_muxVars => [TakeReply => d.pending # NoRequest /\ owner.kind = d.pending.kind]_muxVars
  BY <1>1
<1> QED BY <1>2, MuxInvariant, PTL DEF MuxSpec, ReplyAnswersRequest

-----------------------------------------------------------------------------
(* Order.  What a step of the device's session leaves of the session that  *)
(* frames are counted in.                                                  *)
SameSession(s, u) == u.est = s.est /\ u.sess = s.sess /\ u.rx = s.rx /\ u.chan = s.chan
Ended(s, u) == ~u.est /\ u.sess = s.sess

LEMMA ControlClosedKeeps ==
  ASSUME NEW s \in DeviceType
  PROVE  SameSession(s, ControlClosed(s))
BY DEF SameSession, ControlClosed, DeviceType

LEMMA AbandonEnds ==
  ASSUME NEW s \in DeviceType
  PROVE  Ended(s, Abandon(s))
<1> DEFINE c == IF "control" \in s.chan THEN ControlClosed(s) ELSE s
           t == [c EXCEPT !.chan = {}, !.est = FALSE, !.tx = 1, !.rx = 1, !.owed = FALSE]
           l == ControlClosed(t)
           v == [l EXCEPT !.cut = TRUE, !.had = FALSE]
<1>1. c \in DeviceType /\ c.sess = s.sess
  BY ControlClosedFacts, ControlClosedKeeps DEF SameSession
<1>2. Abandon(s) = IF s.est /\ t.had THEN v ELSE t
  BY DEF Abandon, LinkLost
<1> HIDE DEF c
<1>3. t \in DeviceType /\ t.sess = c.sess /\ ~t.est
  BY <1>1 DEF DeviceType
<1> HIDE DEF t
<1>4. l \in DeviceType /\ SameSession(t, l)
  BY <1>3, ControlClosedFacts, ControlClosedKeeps
<1> HIDE DEF l
<1>5. v.est = l.est /\ v.sess = l.sess
  BY <1>4 DEF DeviceType
<1> HIDE DEF v
<1> QED BY <1>1, <1>2, <1>3, <1>4, <1>5 DEF Ended, SameSession

LEMMA WriteWireKeeps ==
  ASSUME NEW s \in DeviceType, NEW f
  PROVE  SameSession(s, WriteWire(s, f))
BY DEF SameSession, WriteWire, DeviceType

LEMMA SendErrorKeeps ==
  ASSUME NEW s \in DeviceType, s.wire = <<>>
  PROVE  SameSession(s, SendError(s))
<1> DEFINE f == [type |-> "error", seq |-> s.tx, body |-> JobEnd]
           w == WriteWire(s, f)
           u == [w EXCEPT !.tx = @ + 1]
<1>1. f \in DownFrames
  BY NoRequestType DEF DownFrames, DeviceType
<1>2. SendError(s) = u
  BY DEF SendError
<1> HIDE DEF f
<1>3. w \in DeviceType /\ SameSession(s, w)
  BY <1>1, WriteWireFacts, WriteWireKeeps
<1> HIDE DEF w
<1>4. SameSession(w, u)
  BY <1>3 DEF SameSession, DeviceType
<1> QED BY <1>2, <1>3, <1>4 DEF SameSession

LEMMA RespondKeeps ==
  ASSUME NEW s \in DeviceType, s.wire = <<>>, NEW body \in Replies
  PROVE  SameSession(s, Respond(s, body))
<1> DEFINE f == [type |-> "data", seq |-> s.tx, body |-> body]
           w == WriteWire(s, f)
           u == [w EXCEPT !.tx = @ + 1]
<1>1. f \in DownFrames
  BY DEF DownFrames, DeviceType
<1>2. Respond(s, body) = u \/ Respond(s, body) = s
  BY DEF Respond
<1> HIDE DEF f
<1>3. w \in DeviceType /\ SameSession(s, w)
  BY <1>1, WriteWireFacts, WriteWireKeeps
<1> HIDE DEF w
<1>4. SameSession(w, u)
  BY <1>3 DEF SameSession, DeviceType
<1> HIDE DEF u
<1> QED BY <1>2, <1>3, <1>4 DEF SameSession

LEMMA UpdateChannelKeeps ==
  ASSUME NEW s \in DeviceType, NEW c \in Chans, NEW opens \in BOOLEAN
  PROVE  LET u == UpdateChannel(s, c, opens)
         IN  u.est = s.est /\ u.sess = s.sess /\ u.rx = s.rx /\ u.chan = IF opens THEN s.chan \cup {c} ELSE s.chan \ {c}
<1> DEFINE e == IF opens THEN s.chan \cup {c} ELSE s.chan \ {c}
           t == [s EXCEPT !.chan = e]
           l == ControlClosed(t)
<1>1. e \in SUBSET Chans
  BY DEF DeviceType
<1>2. UpdateChannel(s, c, opens) \in {t, l}
  BY DEF UpdateChannel
<1> HIDE DEF e
<1>3. t \in DeviceType /\ t.est = s.est /\ t.sess = s.sess /\ t.rx = s.rx /\ t.chan = e
  BY <1>1 DEF DeviceType
<1> HIDE DEF t
<1>4. SameSession(t, l)
  BY <1>3, ControlClosedKeeps
<1> HIDE DEF l
<1> QED BY <1>2, <1>3, <1>4 DEF SameSession, e

LEMMA ReceiveDataKeeps ==
  ASSUME NEW s \in DeviceType, NEW f
  PROVE  SameSession(s, ReceiveData(s, f))
BY DEF SameSession, ReceiveData, DeviceType

LEMMA AcceptHelloBegins ==
  ASSUME NEW s \in DeviceType, NothingUnderWay(s), ~s.failed, NEW ep \in Nat
  PROVE  LET u == AcceptHello(s, ep)
         IN  u.est /\ u.sess = ep /\ u.rx = 1 /\ u.chan = {}
<1> DEFINE c == IF "control" \in s.chan THEN ControlClosed(s) ELSE s
           z == [c EXCEPT !.chan = {}, !.est = FALSE, !.tx = 1, !.rx = 1, !.owed = FALSE]
           l == ControlClosed(z)
           v == [l EXCEPT !.cut = TRUE, !.had = FALSE]
           a == Abandon(s)
           f == [type |-> "ack", seq |-> 0, body |-> JobEnd]
           t == WriteWire(a, f)
           w == [t EXCEPT !.est = TRUE, !.had = TRUE, !.sess = ep]
<1>1. c \in DeviceType
  BY ControlClosedFacts
<1>2. a = IF s.est /\ z.had THEN v ELSE z
  BY DEF Abandon, LinkLost
<1>3. AcceptHello(s, ep) = IF t.failed THEN t ELSE w
  BY DEF AcceptHello
<1> HIDE DEF c
<1>4. z \in DeviceType /\ z.rx = 1 /\ z.chan = {}
  BY <1>1 DEF DeviceType
<1> HIDE DEF z
<1>5. l \in DeviceType /\ SameSession(z, l)
  BY <1>4, ControlClosedFacts, ControlClosedKeeps
<1> HIDE DEF l
<1>6. v.rx = l.rx /\ v.chan = l.chan
  BY <1>5 DEF DeviceType
<1> HIDE DEF v
<1>7. a \in DeviceType /\ a.wire = <<>> /\ ~a.failed
  BY AbandonFacts DEF Same, NothingUnderWay
<1>8. a.rx = 1 /\ a.chan = {}
  BY <1>2, <1>4, <1>5, <1>6 DEF SameSession
<1>9. f \in DownFrames
  BY NoRequestType DEF DownFrames
<1> HIDE DEF a, f
<1>10. t \in DeviceType /\ ~t.failed /\ SameSession(a, t)
  BY <1>7, <1>9, WriteWireFacts, WriteWireKeeps DEF Same
<1> HIDE DEF t
<1>11. w.est /\ w.sess = ep /\ w.rx = t.rx /\ w.chan = t.chan
  BY <1>10 DEF DeviceType
<1> QED BY <1>3, <1>8, <1>10, <1>11 DEF SameSession

(* handle_packet() begins a session, leaves it, ends it, or takes the frame *)
(* that is due.                                                            *)
Begins(f, u) == f.type = "hello" /\ u.est /\ u.sess = f.ep /\ u.rx = 1 /\ u.chan = {}
Takes(s, f, u) ==
  /\ s.est /\ f.type \in {"open", "close", "data"} /\ f.seq = s.rx
  /\ u.est /\ u.sess = s.sess /\ u.rx = s.rx + 1 /\ u.chan = Effect([f EXCEPT !.opens = s.chan])
Leaves(s, f, u) == SameSession(s, u) /\ (f.type \in {"line", "bad"} \/ ~s.est)

LEMMA HandlePacketSession ==
  ASSUME NEW s \in DeviceType, NothingUnderWay(s), ~s.failed, NEW f \in UpFrames, NEW coded \in BOOLEAN,
         f.type \in {"open", "close", "data"} => f.chan \in Chans
  PROVE  LET u == HandlePacket(s, f, coded)
         IN  Begins(f, u) \/ (f.type # "hello" /\ ((Ended(s, u) /\ ~Delivers(s, f)) \/ Takes(s, f, u) \/ Leaves(s, f, u)))
<1> DEFINE u == HandlePacket(s, f, coded)
           next == [s EXCEPT !.rx = @ + 1]
           e == SendError(s)
           o == UpdateChannel(next, f.chan, TRUE)
           c == UpdateChannel(next, f.chan, FALSE)
           r == ReceiveData(next, f)
           x == SendError(next)
<1>1. next \in DeviceType /\ next.wire = <<>> /\ next.est = s.est /\ next.sess = s.sess /\ next.rx = s.rx + 1 /\ next.chan = s.chan
  BY DEF DeviceType, NothingUnderWay
<1>2. e \in DeviceType /\ SameSession(s, e)
  BY SendErrorFacts, SendErrorKeeps DEF NothingUnderWay
<1>3. SameSession(s, s)
  BY DEF SameSession
<1>4. f.type \in {"hello", "open", "close", "data", "reset", "line", "bad"} /\ f.ep \in Nat /\ f.opens \in SUBSET Chans
  BY DEF UpFrames
<1>5. CASE f.type \in {"bad", "line"}
  <2>1. u \in {s, e}
    BY <1>5 DEF HandlePacket
  <2> HIDE DEF u, e
  <2> QED BY <1>2, <1>3, <1>5, <2>1 DEF u, Leaves
<1>6. CASE f.type = "hello"
  <2>1. u = AcceptHello(s, f.ep)
    BY <1>6 DEF HandlePacket
  <2> QED BY <1>4, <1>6, <2>1, AcceptHelloBegins DEF Begins
<1>7. CASE f.type \notin {"bad", "line", "hello"} /\ ~s.est
  <2>1. u = s
    BY <1>7 DEF HandlePacket
  <2> QED BY <1>3, <1>7, <2>1 DEF Leaves
<1>8. CASE f.type \notin {"bad", "line", "hello"} /\ s.est /\ ~InSequence(s, f)
  <2>1. u = Abandon(e)
    BY <1>8 DEF HandlePacket
  <2> HIDE DEF u, e
  <2>2. Ended(e, Abandon(e))
    BY <1>2, AbandonEnds
  <2>3. Ended(s, u)
    BY <1>2, <2>1, <2>2 DEF Ended, SameSession
  <2> QED BY <1>8, <2>3 DEF u, Delivers
<1>9. CASE f.type \notin {"bad", "line", "hello"} /\ s.est /\ InSequence(s, f)
  <2> DEFINE g == [f EXCEPT !.opens = s.chan]
  <2>1. /\ g.type = f.type /\ g.chan = f.chan /\ g.opens = s.chan
        /\ f.type = "open" => Effect(g) = s.chan \cup {f.chan}
        /\ f.type = "close" => Effect(g) = s.chan \ {f.chan}
        /\ f.type = "data" => Effect(g) = s.chan
    BY <1>4 DEF Effect, UpFrames
  <2>2. /\ f.type = "open" => u = o
        /\ f.type = "close" => u = c
        /\ f.type = "data" => u \in {r, x}
        /\ f.type = "reset" => u = Abandon(next)
    BY <1>9 DEF HandlePacket
  <2> HIDE DEF u, next, g
  <2>3. f.type = "open" => o.est = next.est /\ o.sess = next.sess /\ o.rx = next.rx /\ o.chan = next.chan \cup {f.chan}
    BY <1>1, UpdateChannelKeeps
  <2>4. f.type = "close" => c.est = next.est /\ c.sess = next.sess /\ c.rx = next.rx /\ c.chan = next.chan \ {f.chan}
    BY <1>1, UpdateChannelKeeps
  <2>5. SameSession(next, r) /\ SameSession(next, x)
    BY <1>1, ReceiveDataKeeps, SendErrorKeeps
  <2>6. Ended(next, Abandon(next))
    BY <1>1, AbandonEnds
  <2> HIDE DEF o, c, r, x
  <2>7. CASE f.type = "reset"
    <3>1. Ended(s, u)
      BY <1>1, <2>2, <2>6, <2>7 DEF Ended
    <3> QED BY <3>1, <2>7 DEF u, Delivers
  <2>8. CASE f.type \in {"open", "close", "data"}
    <3>1. u.est /\ u.sess = s.sess /\ u.rx = s.rx + 1 /\ u.chan = Effect(g)
      BY <1>1, <1>9, <2>1, <2>2, <2>3, <2>4, <2>5, <2>8 DEF SameSession
    <3>2. Takes(s, f, u)
      BY <1>9, <2>8, <3>1 DEF Takes, InSequence, g
    <3> QED BY <2>8, <3>2 DEF u
  <2> QED BY <1>4, <1>9, <2>7, <2>8
<1> QED BY <1>4, <1>5, <1>6, <1>7, <1>8, <1>9

LEMMA OrderTypes ==
  ASSUME MuxInv
  PROVE  /\ host \in HostType /\ d \in DeviceType /\ up \in Seq(UpFrames) /\ down \in Seq(DownFrames)
         /\ host.ep \in Nat /\ host.tx \in Nat /\ host.k \in Nat /\ host.chan \in SUBSET Chans
         /\ d.rx \in Nat /\ d.sess \in Nat /\ d.chan \in SUBSET Chans /\ delivered.ep \in Nat /\ delivered.k \in Nat
         /\ Len(up) \in Nat /\ DOMAIN up = 1..Len(up)
         /\ \A i \in DOMAIN up : up[i] \in UpFrames /\ up[i].seq \in Nat /\ up[i].ep \in Nat /\ up[i].k \in Nat
<1>1. host \in HostType /\ d \in DeviceType /\ up \in Seq(UpFrames) /\ down \in Seq(DownFrames)
      /\ delivered \in [ep : Nat, k : Nat, clean : BOOLEAN]
  BY DEF MuxInv, MuxTypeOK
<1>2. host.ep \in Nat /\ host.tx \in Nat /\ host.k \in Nat /\ host.chan \in SUBSET Chans
  BY <1>1, MuxConstants DEF HostType
<1>3. d.rx \in Nat /\ d.sess \in Nat /\ d.chan \in SUBSET Chans
  BY <1>1 DEF DeviceType
<1>4. Len(up) \in Nat /\ DOMAIN up = 1..Len(up) /\ \A i \in DOMAIN up : up[i] \in UpFrames
  BY <1>1
<1>5. \A i \in DOMAIN up : up[i].seq \in Nat /\ up[i].ep \in Nat /\ up[i].k \in Nat
  BY <1>4 DEF UpFrames
<1> QED BY <1>1, <1>2, <1>3, <1>4, <1>5

(* The wire with one more frame, and with one less.                        *)
LEMMA Appended ==
  ASSUME up \in Seq(UpFrames), NEW g, up' = Append(up, g)
  PROVE  /\ Len(up)' = Len(up) + 1 /\ up'[Len(up) + 1] = g
         /\ \A i \in DOMAIN up : i \in DOMAIN up' /\ up'[i] = up[i] /\ i < Len(up) + 1
         /\ \A i \in DOMAIN up' : i \in DOMAIN up \/ i = Len(up) + 1
OBVIOUS

LEMMA Taken ==
  ASSUME up \in Seq(UpFrames), up # <<>>, up' = Tail(up)
  PROVE  /\ Head(up) = up[1] /\ 1 \in DOMAIN up /\ Len(up)' = Len(up) - 1
         /\ \A i \in DOMAIN up' : i \in Nat /\ i + 1 \in DOMAIN up /\ up'[i] = up[i + 1] /\ 1 < i + 1
OBVIOUS

THEOREM OrderStarts == MuxInit => OrderInv
<1> SUFFICES ASSUME MuxInit PROVE OrderInv
  OBVIOUS
<1>1. up = <<>> /\ DOMAIN up = {} /\ ~d.est /\ d.sess = 0 /\ delivered.ep = 0
      /\ host.ep = 0 /\ host.phase = "closed" /\ host.tx = 1 /\ host.chan = {}
  BY DEF MuxInit
<1> QED BY <1>1 DEF OrderInv, EpochsOrdered, HostFits, SentInOrder, ReceivedInOrder, CleanAgrees

(* The steps that take no frame from the host.                             *)
LEMMA QuietOrder ==
  ASSUME OrderInv, UNCHANGED <<up, delivered>>, SameSession(d, d') \/ Ended(d, d'), AckUnderWay' => AckUnderWay,
         host' = host, conn'.open = conn.open
  PROVE  OrderInv'
<1>1. d'.sess = d.sess /\ (d'.est => d.est /\ d'.rx = d.rx /\ d'.chan = d.chan)
  BY DEF SameSession, Ended
<1>2. EpochsOrdered' /\ HostFits' /\ SentInOrder'
  BY <1>1 DEF OrderInv, EpochsOrdered, HostFits, SentInOrder
<1>3. ReceivedInOrder'
  BY <1>1 DEF OrderInv, ReceivedInOrder, IsDue, DeliveredOf
<1>4. CleanAgrees'
  BY <1>1 DEF OrderInv, CleanAgrees, HelloUnderWay
<1> QED BY <1>2, <1>3, <1>4 DEF OrderInv

-----------------------------------------------------------------------------
(* The host's steps.                                                       *)

(* A HELLO is the first frame of its handshake.                            *)
LEMMA HandshakeOrder ==
  ASSUME MuxInv, OrderInv, BeginHandshake
  PROVE  OrderInv'
<1> DEFINE n == Len(up) + 1
           g == up'[n]
<1>1. UNCHANGED <<down, d, owner, conn, delivered, heard>> /\ conn.open
  BY DEF BeginHandshake
<1>2. /\ host'.ep = host.ep + 1 /\ host'.phase = "pending" /\ host'.tx = 1 /\ host'.chan = {} /\ host'.k = 0
      /\ host'.clean => ~HelloUnderWay /\ ~AckUnderWay
      /\ up' = Append(up, g) /\ g.seq = 0 /\ g.ep = host.ep + 1 /\ g.type \in {"hello", "bad"}
  <2> DEFINE r == HostReset(host)
             z == ~Stale
             h == [r EXCEPT !.phase = "pending", !.ep = @ + 1, !.k = 0, !.clean = z]
             a == UpFrame("hello", "link", 0, <<>>)
             f == [a EXCEPT !.ep = @ + 1, !.k = 1, !.opens = {}, !.clean = z]
             b == [f EXCEPT !.type = "bad"]
             t == [h EXCEPT !.faults = @ + 1]
  <2>1. SendUp(h, f)
    BY DEF BeginHandshake
  <2>2. (up' = Append(up, f) /\ host' = h) \/ (up' = Append(up, b) /\ host' = t)
    BY <2>1 DEF SendUp
  <2>3. r \in HostType /\ r.ep = host.ep /\ r.tx = 1 /\ r.chan = {}
    BY OrderTypes, HostResetFacts DEF HostReset, HostType
  <2>4. z = ~Stale
    OBVIOUS
  <2>5. f.seq = 0 /\ f.ep = host.ep + 1 /\ f.type = "hello" /\ b.seq = 0 /\ b.ep = host.ep + 1 /\ b.type = "bad"
    BY DEF UpFrame
  <2> HIDE DEF r, z
  <2>6. /\ h.ep = host.ep + 1 /\ h.phase = "pending" /\ h.tx = 1 /\ h.chan = {} /\ h.k = 0 /\ h.clean = z
        /\ t.ep = host.ep + 1 /\ t.phase = "pending" /\ t.tx = 1 /\ t.chan = {} /\ t.k = 0 /\ t.clean = z
    BY <2>3 DEF HostType
  <2> HIDE DEF h, f, b, t
  <2>7. g = f \/ g = b
    BY <2>2, OrderTypes, Appended
  <2>8. up' = Append(up, g)
    <3>1. \A x : up' = Append(up, x) => up'[n] = x
      BY OrderTypes, Appended
    <3> QED BY <2>2, <3>1
  <2> HIDE DEF g
  <2>9. host' = h \/ host' = t
    BY <2>2
  <2>10. host'.clean => ~HelloUnderWay /\ ~AckUnderWay
    BY <2>4, <2>6, <2>9 DEF Stale
  <2> QED BY <2>5, <2>6, <2>7, <2>8, <2>9, <2>10
<1>3. /\ Len(up)' = n
      /\ \A i \in DOMAIN up : i \in DOMAIN up' /\ up'[i] = up[i] /\ i < n
      /\ \A i \in DOMAIN up' : i \in DOMAIN up \/ i = n
  BY <1>2, OrderTypes, Appended
<1>4. n \in Nat /\ \A i \in DOMAIN up : i \in Nat
  BY OrderTypes
<1> HIDE DEF n, g
<1>5. EpochsOrdered'
  <2>1. d.sess <= host.ep /\ delivered.ep <= host.ep /\ \A i \in DOMAIN up : up[i].ep <= host.ep
    BY DEF OrderInv, EpochsOrdered
  <2>2. d.sess < g.ep /\ delivered.ep < g.ep /\ \A i \in DOMAIN up : up[i].ep < g.ep
    BY <1>2, <2>1, OrderTypes
  <2>3. d'.sess <= host'.ep /\ delivered'.ep <= host'.ep
    BY <1>1, <1>2, <2>1, OrderTypes
  <2>4. ASSUME NEW i \in DOMAIN up'
        PROVE  d.sess <= up'[i].ep /\ delivered.ep <= up'[i].ep /\ up'[i].ep <= host'.ep
    BY <1>2, <1>3, <2>1, <2>2, OrderTypes DEF OrderInv, EpochsOrdered, g
  <2>5. ASSUME NEW i \in DOMAIN up', NEW j \in DOMAIN up', i < j PROVE up'[i].ep <= up'[j].ep
    BY <1>2, <1>3, <1>4, <2>2, <2>5, OrderTypes DEF OrderInv, EpochsOrdered, g
  <2>6. ASSUME NEW i \in DOMAIN up', up'[i].type = "hello"
        PROVE  d.sess < up'[i].ep /\ delivered.ep < up'[i].ep /\ \A j \in DOMAIN up' : j < i => up'[j].ep < up'[i].ep
    <3>1. CASE i = n
      BY <1>3, <1>4, <2>2, <3>1 DEF g
    <3>2. CASE i \in DOMAIN up
      BY <1>3, <1>4, <2>6, <3>2 DEF OrderInv, EpochsOrdered
    <3> QED BY <1>3, <3>1, <3>2
  <2> QED BY <1>1, <2>3, <2>4, <2>5, <2>6 DEF EpochsOrdered
<1>6. HostFits'
  BY <1>1, <1>2 DEF HostFits
<1>7. SentInOrder'
  <2>1. ASSUME NEW i \in DOMAIN up PROVE up[i].ep # host'.ep
    BY <1>2, OrderTypes DEF OrderInv, EpochsOrdered
  <2>2. ASSUME NEW i \in DOMAIN up', OfSession(up'[i]) PROVE i \in DOMAIN up /\ up'[i] = up[i]
    BY <1>2, <1>3, <2>2 DEF OfSession, g
  <2>3. ASSUME NEW i \in DOMAIN up'
        PROVE  /\ up'[i].type \in {"open", "close", "data", "reset"} => OfSession(up'[i])
               /\ up'[i].type = "data" => up'[i].chan \in up'[i].opens
               /\ up'[i].seq = 1 => up'[i].opens = {} /\ up'[i].k = 1
    BY <1>2, <1>3 DEF OrderInv, SentInOrder, g
  <2>4. ASSUME NEW i \in DOMAIN up', NEW j \in DOMAIN up', i < j, OfSession(up'[i]), OfSession(up'[j]), up'[i].ep = up'[j].ep
        PROVE  /\ up'[i].seq < up'[j].seq
               /\ up'[i].seq + 1 = up'[j].seq => Follows(up'[i], up'[j].opens, up'[j].k)
    BY <2>2, <2>4 DEF OrderInv, SentInOrder
  <2>5. ASSUME NEW i \in DOMAIN up', OfSession(up'[i]) PROVE up'[i].ep # host'.ep
    BY <2>1, <2>2, <2>5
  <2> QED BY <2>3, <2>4, <2>5 DEF SentInOrder
<1>8. ReceivedInOrder'
  <2>1. host'.ep # d.sess
    BY <1>2, OrderTypes DEF OrderInv, EpochsOrdered
  <2>2. ASSUME NEW i \in DOMAIN up', OfSession(up'[i]) PROVE i \in DOMAIN up /\ up'[i] = up[i]
    BY <1>2, <1>3, <2>2 DEF OfSession, g
  <2> QED BY <1>1, <2>1, <2>2 DEF OrderInv, ReceivedInOrder, IsDue, DeliveredOf
<1>9. CleanAgrees'
  <2>1. ASSUME NEW i \in DOMAIN up', OfSession(up'[i]) PROVE i \in DOMAIN up /\ up'[i] = up[i]
    BY <1>2, <1>3, <2>1 DEF OfSession, g
  <2>2. ASSUME NEW i \in DOMAIN up', OfSession(up'[i]), up'[i].clean
        PROVE  up'[i].ep = d.sess /\ \A j \in DOMAIN up' : j < i => up'[j].type # "hello"
    <3>1. ASSUME NEW j \in DOMAIN up', j < i PROVE j \in DOMAIN up /\ up'[j] = up[j]
      BY <1>3, <1>4, <2>1, <2>2, <3>1
    <3> QED BY <2>1, <2>2, <3>1 DEF OrderInv, CleanAgrees
  <2>3. AckUnderWay' = AckUnderWay
    BY <1>1 DEF AckUnderWay
  <2>4. ASSUME host'.clean, NEW i \in DOMAIN up', up'[i].type = "hello" PROVE up'[i].ep = host'.ep /\ i = Len(up')
    BY <1>2, <1>3, <2>4 DEF HelloUnderWay, g
  <2> QED BY <1>1, <1>2, <2>2, <2>3, <2>4 DEF CleanAgrees
<1> QED BY <1>5, <1>6, <1>7, <1>8, <1>9 DEF OrderInv

(* A frame of a session comes after those before it in the session.        *)
LEMMA SendOrder ==
  ASSUME MuxInv, OrderInv, NEW type \in {"open", "close", "data", "reset"}, NEW chan, NEW body, NEW channels,
         HostSends(type, chan, body, channels),
         channels = Effect([UpFrame(type, chan, host.tx, body) EXCEPT !.type = type]),
         type = "data" => chan \in host.chan
  PROVE  OrderInv'
<1> DEFINE n == Len(up) + 1
           g == up'[n]
<1>1. UNCHANGED <<down, d, owner, conn, delivered, heard>> /\ conn.open /\ host.phase = "up"
  BY DEF HostSends
<1>2. /\ host'.ep = host.ep /\ host'.phase = "up" /\ host'.tx = host.tx + 1 /\ host'.clean = host.clean
      /\ up' = Append(up, g) /\ g.seq = host.tx /\ g.ep = host.ep /\ g.type \in {type, "bad"} /\ g.chan = chan
      /\ g.k = host.k + 1 /\ g.opens = host.chan /\ g.clean = host.clean
      /\ Follows(g, host'.chan, host'.k + 1)
  <2> DEFINE k == IF type = "data" THEN host.k + 1 ELSE host.k
             h == [host EXCEPT !.tx = @ + 1, !.n = @ + 1, !.k = k, !.chan = channels]
             f == UpFrame(type, chan, host.tx, body)
             b == [f EXCEPT !.type = "bad"]
             t == [h EXCEPT !.faults = @ + 1]
  <2>1. SendUp(h, f)
    BY DEF HostSends
  <2>2. (up' = Append(up, f) /\ host' = h) \/ (up' = Append(up, b) /\ host' = t)
    BY <2>1 DEF SendUp
  <2>3. /\ f.seq = host.tx /\ f.ep = host.ep /\ f.type = type /\ f.chan = chan /\ f.k = host.k + 1
        /\ f.opens = host.chan /\ f.clean = host.clean
        /\ b.seq = host.tx /\ b.ep = host.ep /\ b.type = "bad" /\ b.chan = chan /\ b.k = host.k + 1
        /\ b.opens = host.chan /\ b.clean = host.clean
    BY DEF UpFrame
  <2>4. [f EXCEPT !.type = type] = f
    BY DEF UpFrame
  <2>5. channels = Effect(f)
    BY <2>4
  <2> HIDE DEF f, b
  <2>6. /\ h.ep = host.ep /\ h.phase = "up" /\ h.tx = host.tx + 1 /\ h.clean = host.clean /\ h.chan = channels /\ h.k = k
        /\ t.ep = host.ep /\ t.phase = "up" /\ t.tx = host.tx + 1 /\ t.clean = host.clean /\ t.chan = channels /\ t.k = k
    BY <1>1, OrderTypes DEF HostType
  <2> HIDE DEF h, t
  <2>7. g = f \/ g = b
    BY <2>2, OrderTypes, Appended
  <2>8. up' = Append(up, g)
    <3>1. \A x : up' = Append(up, x) => up'[n] = x
      BY OrderTypes, Appended
    <3> QED BY <2>2, <3>1
  <2> HIDE DEF g
  <2>9. host' = h \/ host' = t
    BY <2>2
  <2>10. Follows(g, channels, k + 1)
    BY <2>3, <2>5, <2>7, OrderTypes DEF Follows
  <2> QED BY <2>3, <2>6, <2>7, <2>8, <2>9, <2>10
<1>3. /\ Len(up)' = n
      /\ \A i \in DOMAIN up : i \in DOMAIN up' /\ up'[i] = up[i] /\ i < n
      /\ \A i \in DOMAIN up' : i \in DOMAIN up \/ i = n
  BY <1>2, OrderTypes, Appended
<1>4. n \in Nat /\ \A i \in DOMAIN up : i \in Nat
  BY OrderTypes
<1>5. host.tx > 0 /\ host.tx \in Nat /\ g.type \notin {"hello", "line"}
  BY <1>2, OrderTypes DEF OrderInv, HostFits
<1> HIDE DEF n, g
<1>6. EpochsOrdered'
  <2>1. d.sess <= host.ep /\ delivered.ep <= host.ep /\ \A i \in DOMAIN up : up[i].ep <= host.ep
    BY DEF OrderInv, EpochsOrdered
  <2>2. ASSUME NEW i \in DOMAIN up'
        PROVE  d.sess <= up'[i].ep /\ delivered.ep <= up'[i].ep /\ up'[i].ep <= host'.ep
    BY <1>2, <1>3, <2>1, OrderTypes DEF OrderInv, EpochsOrdered, g
  <2>3. ASSUME NEW i \in DOMAIN up', NEW j \in DOMAIN up', i < j PROVE up'[i].ep <= up'[j].ep
    <3>1. i \in DOMAIN up
      BY <1>3, <1>4, <2>3
    <3>2. up'[i].ep = up[i].ep /\ up[i].ep <= host.ep
      BY <1>3, <2>1, <3>1
    <3>3. CASE j \in DOMAIN up
      BY <1>3, <2>3, <3>1, <3>3 DEF OrderInv, EpochsOrdered
    <3>4. CASE j = n
      BY <1>2, <3>2, <3>4 DEF g
    <3> QED BY <1>3, <2>3, <3>3, <3>4
  <2>4. ASSUME NEW i \in DOMAIN up', up'[i].type = "hello"
        PROVE  d.sess < up'[i].ep /\ delivered.ep < up'[i].ep /\ \A j \in DOMAIN up' : j < i => up'[j].ep < up'[i].ep
    <3>1. i \in DOMAIN up
      BY <1>3, <1>5, <2>4 DEF g
    <3> QED BY <1>3, <1>4, <2>4, <3>1 DEF OrderInv, EpochsOrdered
  <2> QED BY <1>1, <1>2, <2>1, <2>2, <2>3, <2>4 DEF EpochsOrdered
<1>7. HostFits'
  BY <1>1, <1>2, <1>5 DEF HostFits
<1>8. SentInOrder'
  <2>1. ASSUME NEW i \in DOMAIN up'
        PROVE  /\ up'[i].type \in {"open", "close", "data", "reset"} => OfSession(up'[i])
               /\ up'[i].type = "data" => up'[i].chan \in up'[i].opens
               /\ up'[i].seq = 1 => up'[i].opens = {} /\ up'[i].k = 1
    <3>1. CASE i \in DOMAIN up
      BY <1>3, <3>1 DEF OrderInv, SentInOrder
    <3>2. CASE i = n
      <4>1. host.tx = 1 => host.chan = {} /\ host.k = 0
        BY <1>1 DEF OrderInv, HostFits
      <4> QED BY <1>2, <1>5, <3>2, <4>1 DEF g, OfSession
    <3> QED BY <1>3, <3>1, <3>2
  <2>2. ASSUME NEW i \in DOMAIN up', OfSession(up'[i]), up'[i].ep = host'.ep
        PROVE  /\ up'[i].seq < host'.tx
               /\ up'[i].seq + 1 = host'.tx => Follows(up'[i], host'.chan, host'.k + 1)
    <3>1. CASE i \in DOMAIN up
      <4>1. up'[i] = up[i] /\ up[i].seq < host.tx /\ up[i].seq \in Nat
        BY <1>1, <1>2, <1>3, <2>2, <3>1, OrderTypes DEF OrderInv, SentInOrder
      <4> QED BY <1>2, <1>5, <4>1
    <3>2. CASE i = n
      BY <1>2, <1>5, <3>2 DEF g
    <3> QED BY <1>3, <3>1, <3>2
  <2>3. ASSUME NEW i \in DOMAIN up', NEW j \in DOMAIN up', i < j, OfSession(up'[i]), OfSession(up'[j]), up'[i].ep = up'[j].ep
        PROVE  /\ up'[i].seq < up'[j].seq
               /\ up'[i].seq + 1 = up'[j].seq => Follows(up'[i], up'[j].opens, up'[j].k)
    <3>1. i \in DOMAIN up /\ up'[i] = up[i]
      BY <1>3, <1>4, <2>3
    <3>2. CASE j \in DOMAIN up
      BY <1>3, <2>3, <3>1, <3>2 DEF OrderInv, SentInOrder
    <3>3. CASE j = n
      <4>1. up'[j] = g
        BY <3>3 DEF g
      <4>2. up[i].ep = host.ep
        BY <1>2, <2>3, <3>1, <4>1
      <4>3. up[i].seq < host.tx /\ (up[i].seq + 1 = host.tx => Follows(up[i], host.chan, host.k + 1))
        BY <1>1, <2>3, <3>1, <4>2 DEF OrderInv, SentInOrder
      <4> QED BY <1>2, <3>1, <4>1, <4>3
    <3> QED BY <1>3, <3>2, <3>3
  <2> QED BY <1>2, <2>1, <2>2, <2>3 DEF SentInOrder
<1>9. ReceivedInOrder'
  <2> SUFFICES ASSUME d'.est PROVE
        /\ d.rx > 0
        /\ \A i \in DOMAIN up' : OfSession(up'[i]) /\ up'[i].ep = d.sess =>
             d.rx <= up'[i].seq /\ (up'[i].seq = d.rx => IsDue(up'[i].opens, up'[i].k))
        /\ host'.ep = d.sess => d.rx <= host'.tx /\ host'.tx # d.rx
    BY <1>1 DEF ReceivedInOrder, IsDue, DeliveredOf
  <2>1. host.ep = d.sess => d.rx <= host.tx /\ (host.tx = d.rx => IsDue(host.chan, host.k + 1))
    BY <1>1 DEF OrderInv, ReceivedInOrder
  <2>2. host'.ep = d.sess => d.rx <= host'.tx /\ host'.tx # d.rx
    BY <1>2, <2>1, OrderTypes
  <2>3. ASSUME NEW i \in DOMAIN up', OfSession(up'[i]), up'[i].ep = d.sess
        PROVE  d.rx <= up'[i].seq /\ (up'[i].seq = d.rx => IsDue(up'[i].opens, up'[i].k))
    <3>1. CASE i \in DOMAIN up
      BY <1>1, <1>3, <2>3, <3>1 DEF OrderInv, ReceivedInOrder
    <3>2. CASE i = n
      BY <1>2, <2>1, <2>3, <3>2 DEF g
    <3> QED BY <1>3, <3>1, <3>2
  <2> QED BY <1>1, <2>2, <2>3 DEF OrderInv, ReceivedInOrder
<1>10. CleanAgrees'
  <2>1. host.clean => d.sess = host.ep /\ \A i \in DOMAIN up : up[i].type # "hello"
    BY <1>1 DEF OrderInv, CleanAgrees, HelloUnderWay
  <2>2. ASSUME NEW i \in DOMAIN up', OfSession(up'[i]), up'[i].clean
        PROVE  up'[i].ep = d.sess /\ \A j \in DOMAIN up' : j < i => up'[j].type # "hello"
    <3>1. CASE i \in DOMAIN up
      <4>1. \A j \in DOMAIN up' : j < i => j \in DOMAIN up /\ up'[j] = up[j]
        BY <1>3, <1>4, <3>1
      <4> QED BY <1>3, <2>2, <3>1, <4>1 DEF OrderInv, CleanAgrees
    <3>2. CASE i = n
      <4>1. host.clean /\ up'[i].ep = host.ep
        BY <1>2, <2>2, <3>2 DEF g
      <4>2. \A j \in DOMAIN up' : j < i => j \in DOMAIN up /\ up'[j] = up[j]
        BY <1>3, <3>2
      <4> QED BY <2>1, <4>1, <4>2
    <3> QED BY <1>3, <3>1, <3>2
  <2>3. HelloUnderWay' => HelloUnderWay
    BY <1>3, <1>5 DEF HelloUnderWay, g
  <2> QED BY <1>1, <1>2, <2>1, <2>2, <2>3 DEF CleanAgrees, HelloUnderWay
<1> QED BY <1>6, <1>7, <1>8, <1>9, <1>10 DEF OrderInv

(* A line is of no session.                                                *)
LEMMA LineOrder ==
  ASSUME MuxInv, OrderInv, SendLine
  PROVE  OrderInv'
<1> DEFINE n == Len(up) + 1
           g == UpFrame("line", "link", 0, <<>>)
<1>1. UNCHANGED <<down, d, owner, conn, delivered, heard>> /\ conn.open /\ host.phase \in {"open", "live"}
      /\ up' = Append(up, g)
  BY DEF SendLine
<1>2. /\ host'.ep = host.ep /\ host'.phase = "live" /\ host'.tx = host.tx /\ host'.chan = host.chan
  BY OrderTypes DEF SendLine, HostType
<1>3. g.seq = 0 /\ g.ep = host.ep /\ g.type = "line"
  BY DEF UpFrame
<1>4. /\ Len(up)' = n /\ up'[n] = g
      /\ \A i \in DOMAIN up : i \in DOMAIN up' /\ up'[i] = up[i] /\ i < n
      /\ \A i \in DOMAIN up' : i \in DOMAIN up \/ i = n
  BY <1>1, OrderTypes, Appended
<1>5. n \in Nat /\ \A i \in DOMAIN up : i \in Nat
  BY OrderTypes
<1> HIDE DEF n, g
<1>6. ASSUME NEW i \in DOMAIN up', up'[i].type # "line" \/ OfSession(up'[i]) PROVE i \in DOMAIN up /\ up'[i] = up[i]
  BY <1>3, <1>4, <1>6 DEF OfSession
<1>7. EpochsOrdered'
  <2>1. d.sess <= host.ep /\ delivered.ep <= host.ep /\ \A i \in DOMAIN up : up[i].ep <= host.ep
    BY DEF OrderInv, EpochsOrdered
  <2>2. ASSUME NEW i \in DOMAIN up'
        PROVE  d.sess <= up'[i].ep /\ delivered.ep <= up'[i].ep /\ up'[i].ep <= host'.ep
    BY <1>2, <1>3, <1>4, <2>1, OrderTypes DEF OrderInv, EpochsOrdered
  <2>3. ASSUME NEW i \in DOMAIN up', NEW j \in DOMAIN up', i < j PROVE up'[i].ep <= up'[j].ep
    BY <1>3, <1>4, <1>5, <2>1, <2>3, OrderTypes DEF OrderInv, EpochsOrdered
  <2>4. ASSUME NEW i \in DOMAIN up', up'[i].type = "hello"
        PROVE  d.sess < up'[i].ep /\ delivered.ep < up'[i].ep /\ \A j \in DOMAIN up' : j < i => up'[j].ep < up'[i].ep
    BY <1>4, <1>5, <1>6, <2>4 DEF OrderInv, EpochsOrdered
  <2> QED BY <1>1, <1>2, <2>1, <2>2, <2>3, <2>4 DEF EpochsOrdered
<1>8. HostFits'
  BY <1>1, <1>2 DEF OrderInv, HostFits
<1>9. SentInOrder'
  <2>1. ASSUME NEW i \in DOMAIN up'
        PROVE  /\ up'[i].type \in {"open", "close", "data", "reset"} => OfSession(up'[i])
               /\ up'[i].type = "data" => up'[i].chan \in up'[i].opens
               /\ up'[i].seq = 1 => up'[i].opens = {} /\ up'[i].k = 1
    BY <1>3, <1>4 DEF OrderInv, SentInOrder
  <2>2. ASSUME NEW i \in DOMAIN up', NEW j \in DOMAIN up', i < j, OfSession(up'[i]), OfSession(up'[j]), up'[i].ep = up'[j].ep
        PROVE  /\ up'[i].seq < up'[j].seq
               /\ up'[i].seq + 1 = up'[j].seq => Follows(up'[i], up'[j].opens, up'[j].k)
    BY <1>6, <2>2 DEF OrderInv, SentInOrder
  <2> QED BY <1>2, <2>1, <2>2 DEF SentInOrder
<1>10. ReceivedInOrder'
  BY <1>1, <1>2, <1>6 DEF OrderInv, ReceivedInOrder, IsDue, DeliveredOf
<1>11. CleanAgrees'
  <2>1. ASSUME NEW i \in DOMAIN up', OfSession(up'[i]), up'[i].clean
        PROVE  up'[i].ep = d.sess /\ \A j \in DOMAIN up' : j < i => up'[j].type # "hello"
    <3>1. \A j \in DOMAIN up' : j < i => j \in DOMAIN up /\ up'[j] = up[j]
      BY <1>4, <1>5, <1>6, <2>1
    <3> QED BY <1>6, <2>1, <3>1 DEF OrderInv, CleanAgrees
  <2> QED BY <1>1, <1>2, <2>1 DEF CleanAgrees
<1> QED BY <1>7, <1>8, <1>9, <1>10, <1>11 DEF OrderInv

(* The host changes its phase and sends nothing.                           *)
LEMMA PhaseOrder ==
  ASSUME MuxInv, OrderInv, UNCHANGED <<up, d, delivered>>, host'.ep = host.ep, host'.tx > 0,
         host'.phase = "pending" => host' = host,
         host'.phase = "up" =>
           /\ host.phase = "up" \/ (host.phase = "pending" /\ AckUnderWay)
           /\ host'.tx = host.tx /\ host'.chan = host.chan /\ host'.k = host.k /\ host'.clean = host.clean,
         host'.phase # "up" => host'.tx = 1 /\ host'.chan = {},
         ~conn'.open => host'.phase = "closed", AckUnderWay' => AckUnderWay
  PROVE  OrderInv'
<1>1. EpochsOrdered'
  BY DEF OrderInv, EpochsOrdered
<1>2. HostFits'
  BY DEF OrderInv, HostFits
<1>3. SentInOrder'
  <2>1. host'.phase = "up" => host.phase = "up" \/ \A i \in DOMAIN up : ~(OfSession(up[i]) /\ up[i].ep = host.ep)
    BY DEF OrderInv, SentInOrder
  <2> QED BY <2>1 DEF OrderInv, SentInOrder
<1>4. ReceivedInOrder'
  BY DEF OrderInv, ReceivedInOrder, IsDue, DeliveredOf
<1>5. CleanAgrees'
  BY DEF OrderInv, CleanAgrees, HelloUnderWay
<1> QED BY <1>1, <1>2, <1>3, <1>4, <1>5 DEF OrderInv

LEMMA HostOrder ==
  ASSUME MuxInv, OrderInv, HostNext
  PROVE  OrderInv'
<1>1. CASE BeginHandshake
  BY <1>1, HandshakeOrder
<1>2. CASE SendLine
  BY <1>2, LineOrder
<1>3. CASE \E c \in {"control", "binary"} : OpenChannel(c) \/ CloseChannel(c)
  <2>1. PICK c \in {"control", "binary"} : OpenChannel(c) \/ CloseChannel(c)
    BY <1>3
  <2>2. CASE OpenChannel(c)
    <3>1. host.chan \cup {c} = Effect([UpFrame("open", c, host.tx, <<>>) EXCEPT !.type = "open"])
      BY DEF UpFrame, Effect
    <3> QED BY <2>2, <3>1, SendOrder DEF OpenChannel
  <2>3. CASE CloseChannel(c)
    <3>1. host.chan \ {c} = Effect([UpFrame("close", c, host.tx, <<>>) EXCEPT !.type = "close"])
      BY DEF UpFrame, Effect
    <3> QED BY <2>3, <3>1, SendOrder DEF CloseChannel
  <2> QED BY <2>1, <2>2, <2>3
<1>4. CASE SendBinary \/ \E b \in Bodies : SendControl(b)
  <2>1. ASSUME NEW c, NEW b PROVE host.chan = Effect([UpFrame("data", c, host.tx, b) EXCEPT !.type = "data"])
    BY DEF UpFrame, Effect
  <2>2. CASE SendBinary
    BY <2>1, <2>2, SendOrder DEF SendBinary
  <2>3. CASE \E b \in Bodies : SendControl(b)
    BY <2>1, <2>3, SendOrder DEF SendControl
  <2> QED BY <1>4, <2>2, <2>3
<1>5. CASE SendReset
  <2>1. host.chan = Effect([UpFrame("reset", "link", host.tx, <<>>) EXCEPT !.type = "reset"])
    BY DEF UpFrame, Effect
  <2> QED BY <1>5, <2>1, SendOrder DEF SendReset
<1>6. host \in HostType /\ host.tx \in Nat /\ host.tx > 0 /\ (host.phase # "up" => host.tx = 1 /\ host.chan = {})
      /\ (~conn.open => host.phase = "closed")
  BY OrderTypes DEF OrderInv, HostFits
<1> DEFINE r == HostReset(host)
<1>7. r \in HostType /\ r.ep = host.ep /\ r.tx = 1 /\ r.chan = {} /\ r.phase \in {"live", "open"}
  BY <1>6, HostResetFacts DEF HostReset, HostType
<1> HIDE DEF r
<1>8. CASE HostOpens
  <2>1. conn'.open /\ host'.ep = host.ep /\ host'.phase = "open" /\ host'.tx = 1 /\ host'.chan = {}
        /\ UNCHANGED <<up, down, d, delivered>>
    <3>1. conn.open = FALSE /\ conn \in [open : BOOLEAN, before : BOOLEAN, n : 0..MaxConns, ended : Nat]
      BY <1>8 DEF HostOpens, MuxInv, MuxTypeOK
    <3> QED BY <1>6, <1>8, <3>1 DEF HostOpens, HostType
  <2>2. AckUnderWay' => AckUnderWay
    BY <2>1 DEF AckUnderWay
  <2> QED BY <2>1, <2>2, PhaseOrder
<1>9. CASE HostCloses
  <2>1. host'.ep = host.ep /\ host'.phase = "closed" /\ host'.tx = 1 /\ host'.chan = {}
        /\ UNCHANGED <<up, d, delivered>> /\ down' \in {<<>>, down}
    BY <1>7, <1>9 DEF HostCloses, HostType, r
  <2>2. AckUnderWay' => AckUnderWay
    BY <2>1 DEF AckUnderWay
  <2> QED BY <2>1, <2>2, PhaseOrder
<1>10. CASE HostReceives
  <2>1. conn.open /\ down # <<>> /\ down' = Tail(down) /\ UNCHANGED <<up, conn, d, delivered>>
    BY <1>10 DEF HostReceives
  <2>2. 1 \in DOMAIN down /\ Head(down) = down[1] /\ \A i \in DOMAIN down' : i + 1 \in DOMAIN down /\ down'[i] = down[i + 1]
    BY <2>1, OrderTypes
  <2>3. AckUnderWay' => AckUnderWay
    BY <2>1, <2>2 DEF AckUnderWay
  <2>4. CASE host.phase = "pending" /\ Head(down).type = "ack" /\ host' = [host EXCEPT !.phase = "up"]
    <3>1. host'.phase = "up" /\ host'.ep = host.ep /\ host'.tx = host.tx /\ host'.chan = host.chan /\ host'.k = host.k
          /\ host'.clean = host.clean
      BY <1>6, <2>4 DEF HostType
    <3>2. AckUnderWay
      BY <2>2, <2>4 DEF AckUnderWay
    <3> QED BY <1>6, <2>1, <2>3, <2>4, <3>1, <3>2, PhaseOrder
  <2>5. CASE host' = r
    BY <1>7, <2>1, <2>3, <2>5, PhaseOrder
  <2>6. CASE host.phase = "up" /\ host' = [host EXCEPT !.rx = @ + 1]
    <3>1. host'.phase = "up" /\ host'.ep = host.ep /\ host'.tx = host.tx /\ host'.chan = host.chan /\ host'.k = host.k
          /\ host'.clean = host.clean
      BY <1>6, <2>6 DEF HostType
    <3> QED BY <1>6, <2>1, <2>3, <2>6, <3>1, PhaseOrder
  <2> QED BY <1>10, <2>4, <2>5, <2>6 DEF HostReceives, r
<1> QED BY <1>1, <1>2, <1>3, <1>4, <1>5, <1>8, <1>9, <1>10 DEF HostNext

-----------------------------------------------------------------------------
(* The device's steps that take no frame.  Only a HELLO is acknowledged.   *)
NoAck(w) == \A i \in DOMAIN w : w[i].type # "ack"

LEMMA OneOther ==
  ASSUME NEW w, w = <<>> \/ (w \in Seq(DownFrames) /\ Len(w) = 1 /\ w[1].type # "ack")
  PROVE  NoAck(w)
<1>1. CASE w = <<>>
  BY <1>1 DEF NoAck
<1>2. CASE w \in Seq(DownFrames) /\ Len(w) = 1 /\ w[1].type # "ack"
  <2>1. DOMAIN w = {1}
    BY <1>2
  <2> QED BY <1>2, <2>1 DEF NoAck
<1> QED BY <1>1, <1>2

LEMMA RespondQuiet ==
  ASSUME NEW s \in DeviceType, s.wire = <<>>, NEW body \in Replies
  PROVE  LET u == Respond(s, body)
         IN  u \in DeviceType /\ SameSession(s, u) /\ NoAck(u.wire)
<1> DEFINE u == Respond(s, body)
<1>1. /\ u \in DeviceType
      /\ u.wire = <<>> \/ (Len(u.wire) = 1 /\ u.wire[1].type = "data")
  BY RespondFacts
<1>2. SameSession(s, u)
  BY RespondKeeps
<1> HIDE DEF u
<1>3. u.wire \in Seq(DownFrames)
  BY <1>1 DEF DeviceType
<1>4. NoAck(u.wire)
  BY <1>1, <1>3, OneOther
<1> QED BY <1>1, <1>2, <1>4 DEF u

(* What d' and down' are to be for QuietOrder.                             *)
LEMMA AckStays ==
  ASSUME down' = down, d'.wire = d.wire \/ NoAck(d'.wire)
  PROVE  AckUnderWay' => AckUnderWay
BY DEF AckUnderWay, NoAck

LEMMA ReplyQuiet ==
  ASSUME MuxInv, TakeReply
  PROVE  SameSession(d, d') /\ NoAck(d'.wire)
<1> DEFINE starts == owner.kind = "send" /\ owner.ok
           body == Answer(d.pending.ep, d.pending.id)
           r == Respond(d, body)
           owed == r.owed \/ (starts /\ d.est)
           last == IF starts THEN "running" ELSE r.last
           u == [r EXCEPT !.pending = NoRequest, !.submitted = FALSE, !.owed = owed, !.last = last]
<1>1. d \in DeviceType /\ d.wire = <<>>
  BY ServicedFacts DEF TakeReply
<1>2. body \in Replies
  <2>1. d.pending.ep \in Nat /\ d.pending.id \in Nat
    BY <1>1 DEF DeviceType, Requests
  <2> QED BY <2>1 DEF Answer, Replies
<1>3. d' = u
  BY DEF TakeReply, FinishRequest
<1> HIDE DEF body, starts
<1>4. r \in DeviceType /\ SameSession(d, r) /\ NoAck(r.wire)
  BY <1>1, <1>2, RespondQuiet
<1> HIDE DEF r, owed, last
<1>5. SameSession(r, u) /\ u.wire = r.wire
  BY <1>4 DEF SameSession, DeviceType
<1> QED BY <1>3, <1>4, <1>5 DEF SameSession

LEMMA PumpQuiet ==
  ASSUME MuxInv, PumpCommand
  PROVE  SameSession(d, d') /\ (d'.wire = d.wire \/ NoAck(d'.wire))
<1> DEFINE c == Head(d.control)
           s == [d EXCEPT !.control = Tail(@), !.partial = (c.piece = "head")]
           kind == CASE d.partial /\ c.piece = "tail" -> "send"
                     [] ~d.partial /\ c.piece \in {"send", "reset"} -> c.piece
                     [] OTHER -> "none"
           r == Respond(s, Answer(c.ep, c.id))
           p == [s EXCEPT !.pending = [kind |-> kind, ep |-> c.ep, id |-> c.id]]
<1>1. d \in DeviceType /\ d.wire = <<>> /\ d.control \in Seq(Commands) /\ d.control # <<>>
  BY ServicedFacts DEF MuxInv, MuxTypeOK, PumpCommand, MayPump, DeviceType
<1>2. c \in Commands /\ Tail(d.control) \in Seq(Commands)
  BY <1>1
<1>3. d' = s \/ d' = r \/ d' = p
  BY DEF PumpCommand
<1>4. c.ep \in Nat /\ c.id \in Nat /\ (c.piece = "head") \in BOOLEAN
  BY <1>2 DEF Commands
<1> HIDE DEF c, kind
<1>5. s \in DeviceType /\ SameSession(d, s) /\ s.wire = d.wire
  BY <1>1, <1>2, <1>4 DEF DeviceType, SameSession
<1> HIDE DEF s
<1>6. Answer(c.ep, c.id) \in Replies
  BY <1>4 DEF Answer, Replies
<1>7. SameSession(s, r) /\ NoAck(r.wire)
  BY <1>1, <1>5, <1>6, RespondQuiet
<1>8. SameSession(s, p) /\ p.wire = s.wire
  BY <1>5 DEF SameSession, DeviceType
<1> HIDE DEF r, p
<1> QED BY <1>3, <1>5, <1>7, <1>8 DEF SameSession

LEMMA AnnounceQuiet ==
  ASSUME MuxInv, Announce
  PROVE  SameSession(d, d') /\ (d'.wire = d.wire \/ NoAck(d'.wire))
<1> DEFINE r == Respond(d, JobEnd)
           v == [r EXCEPT !.last = owner.job, !.owed = FALSE]
           w == [d EXCEPT !.last = owner.job]
<1>1. d \in DeviceType /\ d.wire = <<>>
  BY ServicedFacts DEF Announce
<1>2. d' = v \/ d' = w
  BY DEF Announce
<1>3. r \in DeviceType /\ SameSession(d, r) /\ NoAck(r.wire)
  BY <1>1, NoRequestType, RespondQuiet
<1> HIDE DEF r
<1>4. SameSession(r, v) /\ v.wire = r.wire
  BY <1>3 DEF SameSession, DeviceType
<1>5. SameSession(d, w) /\ w.wire = d.wire
  BY <1>1 DEF SameSession, DeviceType
<1> HIDE DEF v, w
<1> QED BY <1>2, <1>3, <1>4, <1>5 DEF SameSession

LEMMA ClosedQuiet ==
  ASSUME MuxInv, NoticeClosed
  PROVE  (SameSession(d, d') \/ Ended(d, d')) /\ (d'.wire = d.wire \/ NoAck(d'.wire))
<1> DEFINE a == Abandon(d)
           s == [a EXCEPT !.partial = FALSE, !.wire = <<>>, !.control = <<>>, !.pending = NoRequest,
                    !.submitted = FALSE, !.failed = FALSE, !.active = FALSE, !.had = FALSE, !.last = "idle", !.cut = TRUE]
           u == [s EXCEPT !.line = 0, !.lineSeq = FALSE]
           v == [d EXCEPT !.line = 0, !.lineSeq = FALSE]
<1>1. d \in DeviceType
  BY OrderTypes
<1>2. a \in DeviceType /\ Ended(d, a)
  BY <1>1, AbandonFacts, AbandonEnds
<1>3. d' = IF d.active THEN u ELSE v
  BY DEF NoticeClosed
<1> HIDE DEF a
<1>4. s \in DeviceType /\ Ended(a, s) /\ s.wire = <<>>
  <2>1. <<>> \in Seq(DownFrames) /\ <<>> \in Seq(Commands)
    OBVIOUS
  <2>2. s \in DeviceType
    BY <1>2, <2>1, NoRequestType DEF DeviceType
  <2> QED BY <1>2, <2>2 DEF DeviceType, Ended
<1> HIDE DEF s
<1>5. Ended(s, u) /\ u.wire = <<>>
  BY <1>4 DEF DeviceType, Ended
<1>6. SameSession(d, v) /\ v.wire = d.wire
  BY <1>1 DEF DeviceType, SameSession
<1> HIDE DEF u, v
<1>7. NoAck(<<>>)
  BY DEF NoAck
<1> QED BY <1>2, <1>3, <1>4, <1>5, <1>6, <1>7 DEF Ended

LEMMA QuietSteps ==
  ASSUME MuxInv, OrderInv,
         NoticeClosed \/ NoticeOpened \/ WriteOut \/ SubmitRequest \/ TakeReply \/ PumpCommand \/ Announce \/ OwnerNext
  PROVE  OrderInv'
<1>1. UNCHANGED <<host, up, delivered>>
  BY DEF NoticeClosed, NoticeOpened, WriteOut, SubmitRequest, TakeReply, PumpCommand, Announce, OwnerNext,
         OwnerDisconnects, OwnerServes, JobEnds
<1>2. conn'.open = conn.open
  <2>1. conn \in [open : BOOLEAN, before : BOOLEAN, n : 0..MaxConns, ended : Nat]
    BY DEF MuxInv, MuxTypeOK
  <2> QED BY <2>1 DEF NoticeClosed, NoticeOpened, WriteOut, SubmitRequest, TakeReply, PumpCommand, Announce, OwnerNext,
                      OwnerDisconnects, OwnerServes, JobEnds
<1>3. d \in DeviceType
  BY OrderTypes
<1>4. CASE WriteOut
  <2>1. d.wire \in Seq(DownFrames) /\ d.wire # <<>> /\ down \in Seq(DownFrames)
        /\ down' = Append(down, Head(d.wire)) /\ d' = [d EXCEPT !.wire = Tail(@)]
    BY <1>3, <1>4, OrderTypes DEF WriteOut, DeviceType
  <2>2. SameSession(d, d') /\ d'.wire = Tail(d.wire)
    BY <1>3, <2>1 DEF SameSession, DeviceType
  <2>3. \A i \in DOMAIN down' : (i \in DOMAIN down /\ down'[i] = down[i]) \/ down'[i] = d.wire[1]
    BY <2>1
  <2>4. 1 \in DOMAIN d.wire /\ \A i \in DOMAIN Tail(d.wire) : i + 1 \in DOMAIN d.wire /\ Tail(d.wire)[i] = d.wire[i + 1]
    BY <2>1
  <2>5. AckUnderWay' => AckUnderWay
    BY <2>2, <2>3, <2>4 DEF AckUnderWay
  <2> QED BY <1>1, <1>2, <2>2, <2>5, QuietOrder
<1>5. CASE NoticeClosed \/ NoticeOpened \/ SubmitRequest \/ TakeReply \/ PumpCommand \/ Announce \/ OwnerNext
  <2>1. down' = down
    BY <1>5 DEF NoticeClosed, NoticeOpened, SubmitRequest, TakeReply, PumpCommand, Announce, OwnerNext,
                OwnerDisconnects, OwnerServes, JobEnds
  <2>2. CASE NoticeOpened \/ SubmitRequest \/ OwnerNext
    <3>1. SameSession(d, d') /\ d'.wire = d.wire
      BY <1>3, <2>2 DEF NoticeOpened, SubmitRequest, OwnerNext, OwnerDisconnects, OwnerServes, JobEnds, SameSession, DeviceType
    <3> QED BY <1>1, <1>2, <2>1, <3>1, AckStays, QuietOrder
  <2>3. CASE NoticeClosed
    BY <1>1, <1>2, <2>1, <2>3, ClosedQuiet, AckStays, QuietOrder
  <2>4. CASE TakeReply \/ PumpCommand \/ Announce
    BY <1>1, <1>2, <2>1, <2>4, ReplyQuiet, PumpQuiet, AnnounceQuiet, AckStays, QuietOrder
  <2> QED BY <1>5, <2>2, <2>3, <2>4
<1> QED BY <1>4, <1>5

-----------------------------------------------------------------------------
(* The device's steps that take a frame.  What the wire without its first  *)
(* frame still shows.                                                      *)
Shift == up # <<>> /\ up' = Tail(up) /\ host' = host /\ conn'.open = conn.open

LEMMA ShiftKeeps ==
  ASSUME MuxInv, OrderInv, Shift
  PROVE  HostFits' /\ SentInOrder' /\ (HelloUnderWay' => HelloUnderWay)
<1>1. \A i \in DOMAIN up' : i \in Nat /\ i + 1 \in DOMAIN up /\ up'[i] = up[i + 1]
  BY OrderTypes, Taken DEF Shift
<1>2. HostFits'
  BY DEF Shift, OrderInv, HostFits
<1>3. HelloUnderWay' => HelloUnderWay
  BY <1>1 DEF HelloUnderWay
<1>4. SentInOrder'
  <2>1. ASSUME NEW i \in DOMAIN up'
        PROVE  /\ up'[i].type \in {"open", "close", "data", "reset"} => OfSession(up'[i])
               /\ up'[i].type = "data" => up'[i].chan \in up'[i].opens
               /\ up'[i].seq = 1 => up'[i].opens = {} /\ up'[i].k = 1
               /\ OfSession(up'[i]) /\ up'[i].ep = host.ep =>
                    /\ host.phase # "pending"
                    /\ host.phase = "up" => /\ up'[i].seq < host.tx
                                            /\ up'[i].seq + 1 = host.tx => Follows(up'[i], host.chan, host.k + 1)
    BY <1>1 DEF OrderInv, SentInOrder
  <2>2. ASSUME NEW i \in DOMAIN up', NEW j \in DOMAIN up', i < j, OfSession(up'[i]), OfSession(up'[j]), up'[i].ep = up'[j].ep
        PROVE  /\ up'[i].seq < up'[j].seq
               /\ up'[i].seq + 1 = up'[j].seq => Follows(up'[i], up'[j].opens, up'[j].k)
    <3>1. i + 1 \in DOMAIN up /\ j + 1 \in DOMAIN up /\ i + 1 < j + 1 /\ up'[i] = up[i + 1] /\ up'[j] = up[j + 1]
      BY <1>1, <2>2
    <3> QED BY <2>2, <3>1 DEF OrderInv, SentInOrder
  <2> QED BY <2>1, <2>2 DEF Shift, SentInOrder
<1> QED BY <1>2, <1>3, <1>4

LEMMA ShiftEpochs ==
  ASSUME MuxInv, OrderInv, Shift, d'.sess = d.sess,
         delivered' = delivered \/ delivered'.ep = up[1].ep
  PROVE  EpochsOrdered'
<1>1. \A i \in DOMAIN up' : i \in Nat /\ i + 1 \in DOMAIN up /\ up'[i] = up[i + 1] /\ 1 < i + 1
  BY OrderTypes, Taken DEF Shift
<1>2. 1 \in DOMAIN up
  BY OrderTypes, Taken DEF Shift
<1>3. d.sess <= host.ep /\ delivered'.ep <= host.ep
  BY <1>2 DEF OrderInv, EpochsOrdered
<1>4. ASSUME NEW i \in DOMAIN up'
      PROVE  d.sess <= up'[i].ep /\ delivered'.ep <= up'[i].ep /\ up'[i].ep <= host.ep
  BY <1>1, <1>2 DEF OrderInv, EpochsOrdered
<1>5. ASSUME NEW i \in DOMAIN up', NEW j \in DOMAIN up', i < j PROVE up'[i].ep <= up'[j].ep
  <2>1. i + 1 \in DOMAIN up /\ j + 1 \in DOMAIN up /\ i + 1 < j + 1 /\ up'[i] = up[i + 1] /\ up'[j] = up[j + 1]
    BY <1>1, <1>5
  <2> QED BY <2>1 DEF OrderInv, EpochsOrdered
<1>6. ASSUME NEW i \in DOMAIN up', up'[i].type = "hello"
      PROVE  d.sess < up'[i].ep /\ delivered'.ep < up'[i].ep /\ \A j \in DOMAIN up' : j < i => up'[j].ep < up'[i].ep
  <2>1. i + 1 \in DOMAIN up /\ up'[i] = up[i + 1] /\ 1 < i + 1
    BY <1>1
  <2>2. d.sess < up'[i].ep /\ delivered'.ep < up'[i].ep
    BY <1>2, <1>6, <2>1 DEF OrderInv, EpochsOrdered
  <2>3. ASSUME NEW j \in DOMAIN up', j < i PROVE up'[j].ep < up'[i].ep
    <3>1. j + 1 \in DOMAIN up /\ j + 1 < i + 1 /\ up'[j] = up[j + 1]
      BY <1>1, <2>3
    <3> QED BY <1>6, <2>1, <3>1 DEF OrderInv, EpochsOrdered
  <2> QED BY <2>2, <2>3
<1> QED BY <1>3, <1>4, <1>5, <1>6 DEF Shift, EpochsOrdered

LEMMA ShiftClean ==
  ASSUME MuxInv, OrderInv, Shift, d'.sess = d.sess, AckUnderWay' => AckUnderWay
  PROVE  CleanAgrees'
<1>1. \A i \in DOMAIN up' : i \in Nat /\ i + 1 \in DOMAIN up /\ up'[i] = up[i + 1]
  BY OrderTypes, Taken DEF Shift
<1>2. Len(up)' = Len(up) - 1 /\ Len(up) \in Nat
  BY OrderTypes, Taken DEF Shift
<1>3. ASSUME NEW i \in DOMAIN up', OfSession(up'[i]), up'[i].clean
      PROVE  up'[i].ep = d.sess /\ \A j \in DOMAIN up' : j < i => up'[j].type # "hello"
  <2>1. i + 1 \in DOMAIN up /\ up'[i] = up[i + 1]
    BY <1>1
  <2>2. ASSUME NEW j \in DOMAIN up', j < i PROVE j + 1 \in DOMAIN up /\ j + 1 < i + 1 /\ up'[j] = up[j + 1]
    BY <1>1, <2>2
  <2> QED BY <1>3, <2>1, <2>2 DEF OrderInv, CleanAgrees
<1>4. host.clean /\ (host.phase = "up" \/ (host.phase = "pending" /\ AckUnderWay')) => d.sess = host.ep /\ ~HelloUnderWay'
  BY ShiftKeeps DEF OrderInv, CleanAgrees
<1>5. ASSUME host.clean, host.phase = "pending", NEW i \in DOMAIN up', up'[i].type = "hello"
      PROVE  up'[i].ep = host.ep /\ i = Len(up')
  <2>1. up[i + 1].ep = host.ep /\ i + 1 = Len(up)
    BY <1>1, <1>5 DEF OrderInv, CleanAgrees
  <2> QED BY <1>1, <1>2, <2>1
<1> QED BY <1>3, <1>4, <1>5 DEF Shift, CleanAgrees

(* A frame that the device's session leaves or that ends it.               *)
LEMMA LostOrder ==
  ASSUME MuxInv, OrderInv, Shift, delivered' = delivered, SameSession(d, d') \/ Ended(d, d'), AckUnderWay' => AckUnderWay
  PROVE  OrderInv'
<1>1. d'.sess = d.sess /\ (d'.est => d.est /\ d'.rx = d.rx /\ d'.chan = d.chan)
  BY DEF SameSession, Ended
<1>2. \A i \in DOMAIN up' : i + 1 \in DOMAIN up /\ up'[i] = up[i + 1]
  BY OrderTypes, Taken DEF Shift
<1>3. ReceivedInOrder'
  BY <1>1, <1>2 DEF Shift, OrderInv, ReceivedInOrder, IsDue, DeliveredOf
<1> QED BY <1>1, <1>3, ShiftKeeps, ShiftEpochs, ShiftClean DEF OrderInv

(* accept_hello(): nothing of the new session has been sent but what waits *)
(* behind its HELLO.                                                       *)
LEMMA BeginOrder ==
  ASSUME MuxInv, OrderInv, Shift, delivered' = delivered, Begins(up[1], d')
  PROVE  OrderInv'
<1> DEFINE f == up[1]
<1>1. \A i \in DOMAIN up' : i \in Nat /\ i + 1 \in DOMAIN up /\ up'[i] = up[i + 1] /\ 1 < i + 1
  BY OrderTypes, Taken DEF Shift
<1>2. 1 \in DOMAIN up /\ Len(up)' = Len(up) - 1 /\ Len(up) \in Nat
  BY OrderTypes, Taken DEF Shift
<1>3. f.type = "hello" /\ d'.est /\ d'.sess = f.ep /\ d'.rx = 1 /\ d'.chan = {}
  BY DEF Begins
<1>4. f.ep \in Nat /\ f.ep <= host.ep /\ delivered.ep < f.ep
  BY <1>2, <1>3, OrderTypes DEF OrderInv, EpochsOrdered
<1>5. EpochsOrdered'
  <2>1. ASSUME NEW i \in DOMAIN up'
        PROVE  f.ep <= up'[i].ep /\ delivered.ep <= up'[i].ep /\ up'[i].ep <= host.ep
    BY <1>1, <1>2 DEF OrderInv, EpochsOrdered
  <2>2. ASSUME NEW i \in DOMAIN up', NEW j \in DOMAIN up', i < j PROVE up'[i].ep <= up'[j].ep
    <3>1. i + 1 \in DOMAIN up /\ j + 1 \in DOMAIN up /\ i + 1 < j + 1 /\ up'[i] = up[i + 1] /\ up'[j] = up[j + 1]
      BY <1>1, <2>2
    <3> QED BY <3>1 DEF OrderInv, EpochsOrdered
  <2>3. ASSUME NEW i \in DOMAIN up', up'[i].type = "hello"
        PROVE  f.ep < up'[i].ep /\ delivered.ep < up'[i].ep /\ \A j \in DOMAIN up' : j < i => up'[j].ep < up'[i].ep
    <3>1. i + 1 \in DOMAIN up /\ up'[i] = up[i + 1] /\ 1 < i + 1
      BY <1>1
    <3>2. f.ep < up'[i].ep /\ delivered.ep < up'[i].ep
      BY <1>2, <2>3, <3>1 DEF OrderInv, EpochsOrdered
    <3>3. ASSUME NEW j \in DOMAIN up', j < i PROVE up'[j].ep < up'[i].ep
      <4>1. j + 1 \in DOMAIN up /\ j + 1 < i + 1 /\ up'[j] = up[j + 1]
        BY <1>1, <3>3
      <4> QED BY <2>3, <3>1, <4>1 DEF OrderInv, EpochsOrdered
    <3> QED BY <3>2, <3>3
  <2>4. delivered.ep <= host.ep
    BY DEF OrderInv, EpochsOrdered
  <2> HIDE DEF f
  <2> QED BY <1>3, <1>4, <2>1, <2>2, <2>3, <2>4 DEF Shift, EpochsOrdered
<1>6. DeliveredOf(d.sess)' = 0
  BY <1>3, <1>4, OrderTypes DEF DeliveredOf
<1>7. ReceivedInOrder'
  <2>1. ASSUME NEW i \in DOMAIN up', OfSession(up'[i])
        PROVE  1 <= up'[i].seq /\ (up'[i].seq = 1 => up'[i].opens = {} /\ up'[i].k = 1)
    BY <1>1, <2>1, OrderTypes DEF OfSession, OrderInv, SentInOrder
  <2>2. host.phase \in {"pending", "up"} => 1 <= host.tx /\ (host.tx = 1 => host.chan = {} /\ host.k + 1 = 1)
    BY OrderTypes DEF OrderInv, HostFits
  <2>3. d'.chan = {} /\ DeliveredOf(d.sess)' + 1 = 1
    BY <1>3, <1>6
  <2> HIDE DEF f
  <2> QED BY <1>3, <2>1, <2>2, <2>3 DEF Shift, ReceivedInOrder, IsDue
<1>8. CleanAgrees'
  <2>1. ASSUME NEW i \in DOMAIN up', OfSession(up'[i]), up'[i].clean PROVE FALSE
    BY <1>1, <1>2, <1>3, <2>1 DEF OrderInv, CleanAgrees
  <2>2. HelloUnderWay
    BY <1>2, <1>3 DEF HelloUnderWay
  <2>3. CASE host.clean /\ host.phase = "pending"
    <3>1. f.ep = host.ep /\ Len(up) = 1
      BY <1>2, <1>3, <2>3 DEF OrderInv, CleanAgrees
    <3>2. ASSUME NEW i \in DOMAIN up' PROVE FALSE
      <4>1. i + 1 \in 1..1 /\ 1 < i + 1 /\ i \in Nat
        BY <1>1, <3>1, OrderTypes
      <4> QED BY <4>1
    <3> QED BY <1>3, <3>1, <3>2 DEF Shift, CleanAgrees, HelloUnderWay
  <2>4. CASE ~(host.clean /\ host.phase = "pending")
    <3>1. ~(host.clean /\ host.phase = "up")
      BY <2>2 DEF OrderInv, CleanAgrees
    <3> QED BY <2>1, <2>4, <3>1 DEF Shift, CleanAgrees
  <2> QED BY <2>3, <2>4
<1> QED BY <1>5, <1>7, <1>8, ShiftKeeps DEF OrderInv

(* What DeliveredInOrder says of a step.                                   *)
InOrder ==
  delivered' # delivered =>
    /\ delivered'.clean => delivered'.ep = d.sess
    /\ delivered'.ep = d.sess =>
         \/ delivered'.ep > delivered.ep /\ delivered'.k = 1
         \/ delivered'.ep = delivered.ep /\ delivered'.k = delivered.k + 1

(* The frame that is due in the device's session: of the same handshake it *)
(* is the host's next, of a later one it leaves the device's session       *)
(* without frames.                                                         *)
LEMMA TakeOrder ==
  ASSUME MuxInv, OrderInv, Shift, Takes(d, up[1], d'), AckUnderWay' => AckUnderWay,
         delivered' = IF Delivers(d, up[1]) THEN [ep |-> up[1].ep, k |-> up[1].k, clean |-> up[1].clean] ELSE delivered
  PROVE  OrderInv' /\ InOrder
<1> DEFINE f == up[1]
<1>1. \A i \in DOMAIN up' : i \in Nat /\ i + 1 \in DOMAIN up /\ up'[i] = up[i + 1] /\ 1 < i + 1
  BY OrderTypes, Taken DEF Shift
<1>2. 1 \in DOMAIN up /\ f \in UpFrames /\ f.seq \in Nat /\ f.ep \in Nat /\ f.k \in Nat
  BY OrderTypes, Taken DEF Shift
<1>3. /\ d.est /\ f.type \in {"open", "close", "data"} /\ f.seq = d.rx
      /\ d'.est /\ d'.sess = d.sess /\ d'.rx = d.rx + 1 /\ d'.chan = Effect([f EXCEPT !.opens = d.chan])
  BY DEF Takes
<1>4. OfSession(f) /\ d.sess <= f.ep /\ f.ep <= host.ep /\ delivered.ep <= f.ep
  BY <1>2, <1>3 DEF OrderInv, SentInOrder, EpochsOrdered
<1>5. Delivers(d, f) <=> f.type = "data" /\ f.chan \in d.chan
  BY <1>3 DEF Delivers, InSequence
<1>6. f.ep = d.sess => f.opens = d.chan /\ f.k = DeliveredOf(d.sess) + 1
  BY <1>2, <1>3, <1>4 DEF OrderInv, ReceivedInOrder, IsDue
<1>7. delivered' = IF Delivers(d, f) THEN [ep |-> f.ep, k |-> f.k, clean |-> f.clean] ELSE delivered
  OBVIOUS
<1>8. delivered' = delivered \/ (delivered'.ep = f.ep /\ delivered'.k = f.k /\ delivered'.clean = f.clean)
  BY <1>7
<1>9. InOrder
  <2>1. f.clean => f.ep = d.sess
    BY <1>2, <1>4 DEF OrderInv, CleanAgrees
  <2>2. f.ep = d.sess => (f.ep > delivered.ep /\ f.k = 1) \/ (f.ep = delivered.ep /\ f.k = delivered.k + 1)
    BY <1>2, <1>4, <1>6, OrderTypes DEF DeliveredOf
  <2> QED BY <1>8, <2>1, <2>2 DEF InOrder
<1>10. ReceivedInOrder'
  <2>1. d'.rx > 0
    BY <1>3, OrderTypes
  <2>2. CASE f.ep = d.sess
    <3>1. [f EXCEPT !.opens = d.chan] = f
      BY <1>2, <1>6, <2>2 DEF UpFrames
    <3>2. d'.chan = Effect(f)
      BY <1>3, <3>1
    <3>3. f.type = "data" => Delivers(d, f)
      BY <1>2, <1>5, <1>6, <2>2 DEF OrderInv, SentInOrder
    <3>4. DeliveredOf(d.sess)' + 1 = IF f.type = "data" THEN f.k + 1 ELSE f.k
      <4>1. CASE f.type = "data"
        BY <1>3, <1>7, <2>2, <3>3, <4>1 DEF DeliveredOf
      <4>2. CASE f.type # "data"
        BY <1>3, <1>5, <1>6, <1>7, <2>2, <4>2 DEF DeliveredOf
      <4> QED BY <4>1, <4>2
    <3>5. ASSUME NEW opens, NEW k, Follows(f, opens, k) PROVE opens = d'.chan /\ k = DeliveredOf(d.sess)' + 1
      BY <1>3, <3>2, <3>4, <3>5 DEF Follows
    <3>6. ASSUME NEW i \in DOMAIN up', OfSession(up'[i]), up'[i].ep = d.sess
          PROVE  d.rx + 1 <= up'[i].seq /\ (up'[i].seq = d.rx + 1 => Follows(f, up'[i].opens, up'[i].k))
      <4>1. i + 1 \in DOMAIN up /\ up'[i] = up[i + 1] /\ 1 < i + 1
        BY <1>1
      <4>2. /\ f.seq < up[i + 1].seq
            /\ f.seq + 1 = up[i + 1].seq => Follows(f, up[i + 1].opens, up[i + 1].k)
        BY <1>2, <1>4, <2>2, <3>6, <4>1 DEF OrderInv, SentInOrder
      <4>3. up[i + 1].seq \in Nat
        BY <4>1, OrderTypes
      <4> QED BY <1>2, <1>3, <4>1, <4>2, <4>3
    <3>7. ASSUME host.phase \in {"pending", "up"}, host.ep = d.sess
          PROVE  d.rx + 1 <= host.tx /\ (host.tx = d.rx + 1 => Follows(f, host.chan, host.k + 1))
      <4>1. host.phase = "up" /\ f.seq < host.tx /\ (f.seq + 1 = host.tx => Follows(f, host.chan, host.k + 1))
        BY <1>2, <1>4, <2>2, <3>7 DEF OrderInv, SentInOrder
      <4> QED BY <1>2, <1>3, <4>1, OrderTypes
    <3> QED BY <1>3, <2>1, <3>5, <3>6, <3>7 DEF Shift, ReceivedInOrder, IsDue
  <2>3. CASE f.ep # d.sess
    <3>1. d.sess < f.ep
      BY <1>2, <1>4, <2>3, OrderTypes
    <3>2. ASSUME NEW i \in DOMAIN up' PROVE up'[i].ep # d.sess
      <4>1. f.ep <= up[i + 1].ep /\ up'[i] = up[i + 1] /\ up[i + 1].ep \in Nat
        BY <1>1, <1>2, OrderTypes DEF OrderInv, EpochsOrdered
      <4> QED BY <1>2, <3>1, <4>1, OrderTypes
    <3>3. host.ep # d.sess
      BY <1>2, <1>4, <3>1, OrderTypes
    <3> QED BY <1>3, <2>1, <3>2, <3>3 DEF Shift, ReceivedInOrder
  <2> QED BY <2>2, <2>3
<1>11. EpochsOrdered'
  BY <1>3, <1>8, ShiftEpochs
<1>12. CleanAgrees'
  BY <1>3, ShiftClean
<1> QED BY <1>9, <1>10, <1>11, <1>12, ShiftKeeps DEF OrderInv

LEMMA FeedOrder ==
  ASSUME MuxInv, OrderInv, up # <<>>, ~d.failed, NothingUnderWay(d), ~d.submitted, up' = Tail(up), Feed(d, Head(up)),
         UNCHANGED <<host, down, owner, conn, heard>>
  PROVE  OrderInv' /\ InOrder
<1> DEFINE s == [d EXCEPT !.active = TRUE]
           f == up[1]
<1>1. Head(up) = f /\ 1 \in DOMAIN up /\ f \in UpFrames /\ d \in DeviceType
  BY OrderTypes, Taken
<1>2. PICK coded \in BOOLEAN : d' = HandlePacket(s, f, coded)
  BY <1>1 DEF Feed
<1>3. delivered' = IF Delivers(d, f) THEN [ep |-> f.ep, k |-> f.k, clean |-> f.clean] ELSE delivered
  BY <1>1 DEF Feed
<1>4. f.type \in {"open", "close", "data"} => f.chan \in Chans
  BY <1>1 DEF MuxInv, MuxTypeOK
<1>5. s \in DeviceType
  BY <1>1 DEF DeviceType
<1>6. /\ SameSession(d, s) /\ s.active /\ s.failed = d.failed /\ s.submitted = d.submitted /\ NothingUnderWay(s)
  BY <1>1 DEF SameSession, NothingUnderWay, DeviceType
<1> HIDE DEF s, f
<1>7. /\ d' \in DeviceType
      /\ d'.wire = <<>> \/ (Len(d'.wire) = 1 /\ (d'.wire[1].type = "ack" => f.type = "hello"))
  BY <1>1, <1>2, <1>4, <1>5, <1>6, HandlePacketFacts
<1>8. \/ Begins(f, d')
      \/ f.type # "hello" /\ ((Ended(s, d') /\ ~Delivers(s, f)) \/ Takes(s, f, d') \/ Leaves(s, f, d'))
  BY <1>1, <1>2, <1>4, <1>5, <1>6, HandlePacketSession
<1>9. \/ Begins(f, d')
      \/ f.type # "hello" /\ ((Ended(d, d') /\ ~Delivers(d, f)) \/ Takes(d, f, d') \/ Leaves(d, f, d'))
  BY <1>6, <1>8 DEF SameSession, Ended, Delivers, InSequence, Takes, Leaves
<1>10. Shift
  BY DEF Shift
<1>11. f.type # "hello" => (AckUnderWay' => AckUnderWay)
  <2>1. ASSUME f.type # "hello" PROVE NoAck(d'.wire)
    <3>1. d'.wire \in Seq(DownFrames)
      BY <1>7 DEF DeviceType
    <3> QED BY <1>7, <2>1, <3>1, OneOther
  <2> QED BY <2>1, AckStays
<1>12. CASE Begins(f, d')
  <2>1. delivered' = delivered
    BY <1>3, <1>12 DEF Begins, Delivers
  <2> QED BY <1>10, <1>12, <2>1, BeginOrder DEF f, InOrder
<1>13. CASE f.type # "hello" /\ ((Ended(d, d') /\ ~Delivers(d, f)) \/ Leaves(d, f, d'))
  <2>1. delivered' = delivered
    BY <1>3, <1>13 DEF Leaves, Delivers
  <2> QED BY <1>10, <1>11, <1>13, <2>1, LostOrder DEF InOrder, Leaves
<1>14. CASE f.type # "hello" /\ Takes(d, f, d')
  BY <1>3, <1>10, <1>11, <1>14, TakeOrder DEF f
<1> QED BY <1>9, <1>12, <1>13, <1>14

LEMMA BytesOrder ==
  ASSUME MuxInv, OrderInv, Ingest \/ Bind
  PROVE  OrderInv' /\ InOrder
<1>1. d \in DeviceType /\ DeviceFits(d) /\ up \in Seq(UpFrames) /\ up # <<>> /\ up' = Tail(up)
      /\ UNCHANGED <<host, down, owner, conn, heard>>
  BY DEF MuxInv, MuxTypeOK, Ingest, Bind
<1>2. CASE Ingest
  <2>1. ~d.failed /\ NothingUnderWay(d) /\ ~d.submitted
    BY <1>1, <1>2 DEF Ingest, TxBlocked, NothingUnderWay, DeviceFits
  <2> QED BY <1>1, <1>2, <2>1, FeedOrder DEF Ingest
<1>3. CASE Bind /\ StartsMux(Head(up))
  <2>1. ~d.failed /\ NothingUnderWay(d) /\ ~d.submitted
    BY <1>1, <1>3 DEF Bind, NothingUnderWay, DeviceFits
  <2>2. Feed(d, Head(up))
    BY <1>3 DEF Bind
  <2> QED BY <1>1, <2>1, <2>2, FeedOrder
<1>4. CASE Bind /\ ~StartsMux(Head(up))
  <2>1. delivered' = delivered /\ SameSession(d, d') /\ d'.wire = d.wire
    BY <1>1, <1>4 DEF Bind, SameSession, DeviceType
  <2>2. Shift
    BY <1>1 DEF Shift
  <2>3. AckUnderWay' => AckUnderWay
    BY <1>1, <2>1, AckStays
  <2> QED BY <2>1, <2>2, <2>3, LostOrder DEF InOrder
<1> QED BY <1>2, <1>3, <1>4

-----------------------------------------------------------------------------
THEOREM OrderStep == MuxInv /\ OrderInv /\ [MuxNext]_muxVars => OrderInv' /\ InOrder
<1> SUFFICES ASSUME MuxInv, OrderInv, [MuxNext]_muxVars PROVE OrderInv' /\ InOrder
  OBVIOUS
<1>1. CASE HostNext
  <2>1. delivered' = delivered
    BY <1>1 DEF HostNext, HostOpens, HostCloses, BeginHandshake, SendBinary, SendControl, SendReset, SendLine, HostReceives,
                OpenChannel, CloseChannel, HostSends
  <2> QED BY <1>1, <2>1, HostOrder DEF InOrder
<1>2. CASE Ingest \/ Bind
  BY <1>2, BytesOrder
<1>3. CASE NoticeClosed \/ NoticeOpened \/ WriteOut \/ SubmitRequest \/ TakeReply \/ PumpCommand \/ Announce \/ OwnerNext
  <2>1. delivered' = delivered
    BY <1>3 DEF NoticeClosed, NoticeOpened, WriteOut, SubmitRequest, TakeReply, PumpCommand, Announce, OwnerNext,
                OwnerDisconnects, OwnerServes, JobEnds
  <2> QED BY <1>3, <2>1, QuietSteps DEF InOrder
<1>4. CASE UNCHANGED muxVars
  <2>1. UNCHANGED <<host, up, down, d, conn, delivered>>
    BY <1>4 DEF muxVars
  <2>2. SameSession(d, d') /\ (AckUnderWay' => AckUnderWay)
    BY <2>1 DEF SameSession, AckUnderWay
  <2> QED BY <2>1, <2>2, QuietOrder DEF InOrder
<1> QED BY <1>1, <1>2, <1>3, <1>4 DEF MuxNext, DeviceNext

(* Frames wait in the order they were sent, and the device's session is as *)
(* the host's was when it sent the frame that is due.                      *)
THEOREM OrderInvariant == MuxSpec => []OrderInv
BY OrderStarts, OrderStep, MuxInvariant, PTL DEF MuxSpec

(* handle_packet() gives the service a session's data frames in the order  *)
(* they were sent, each once and none left out, and those of a session     *)
(* that began clean in no session but their own: however many frames are   *)
(* damaged, and however often sessions and connections end.                *)
THEOREM DataInOrder == MuxSpec => DeliveredInOrder
<1>1. MuxInv /\ OrderInv /\ [MuxNext]_muxVars => [InOrder]_muxVars
  BY OrderStep
<1> QED BY <1>1, MuxInvariant, OrderInvariant, PTL DEF MuxSpec, DeliveredInOrder, InOrder
=============================================================================
