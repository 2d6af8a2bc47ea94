------------------------------- MODULE CdcMux -------------------------------
(***************************************************************************)
(* The DD-008 session over the CDC port: the host's session and the        *)
(* device's (common/dd008/cdc_mux_session.cpp), the upload service that    *)
(* the device's frames feed (rt1170/tx_usb.cpp), the choice of a protocol  *)
(* for a connection (rt1170/usb_service.cpp), and as much of the artifact  *)
(* owner (TxArtifact) as the service sees.                                 *)
(*                                                                         *)
(* The wire keeps order.  A frame may reach the device damaged; the port   *)
(* may close and open at any point, and the USB task sees it at its next   *)
(* poll only.  Bytes in a FIFO outlive the connection that wrote them.     *)
(***************************************************************************)
EXTENDS Integers, Sequences

CONSTANTS
  Bodies,     \* what a control frame may carry: sequences of command pieces
  WireFrames, \* capacity of tx_usb's output buffer, in frames
  FifoFrames, \* capacity of the FIFO to the host, in frames
  MaxEpochs,  \* handshakes
  MaxFrames,  \* frames and lines the host sends besides its HELLOs
  MaxConns,   \* connections
  MaxFaults,  \* frames damaged on the wire
  MaxJobs     \* generations

Pieces == {"query", "send", "reset", "head", "tail"}

(* An empty buffer takes a frame.                                          *)
ASSUME MuxConstants ==
  /\ \A b \in Bodies : b \in Seq(Pieces)
  /\ WireFrames \in Nat \ {0} /\ FifoFrames \in Nat /\ MaxEpochs \in Nat /\ MaxFrames \in Nat
  /\ MaxConns \in Nat /\ MaxFaults \in Nat /\ MaxJobs \in Nat

VARIABLES
  host,      \* the host's session, and the application above it
  up, down,  \* the frames on their way to the device and to the host
  d,         \* the device: session, tx_usb and the line buffer, all of the USB task
  owner,     \* the artifact owner: its mailbox and its job
  conn,      \* the port: open (DTR), what the last poll saw, its connections and those seen to end
  delivered, \* the last frame the upload service was given
  heard      \* the last answer the host was given, and the job ends it was told

muxVars == <<host, up, down, d, owner, conn, delivered, heard>>

-----------------------------------------------------------------------------
(* Frames.  ep and k name the handshake and the data frame of it that the  *)
(* host sent next, opens the channels it has open, clean how the handshake *)
(* began, an answer names the command it answers, and d.sess the handshake *)
(* whose HELLO the device accepted last: the code has no such fields, and  *)
(* no step depends on them.                                                *)

UpFrame(type, chan, seq, body) ==
  [type |-> type, chan |-> chan, seq |-> seq, body |-> body, ep |-> host.ep, k |-> host.k + 1, opens |-> host.chan,
   clean |-> host.clean, conn |-> conn.n]

Answer(ep, id) == [kind |-> "answer", ep |-> ep, id |-> id]
JobEnd == [kind |-> "end", ep |-> 0, id |-> 0]

NoRequest == [kind |-> "none", ep |-> 0, id |-> 0]

MuxInit ==
  /\ host = [phase |-> "closed", ep |-> 0, tx |-> 1, rx |-> 1, chan |-> {}, n |-> 0, k |-> 0, clean |-> TRUE, faults |-> 0]
  /\ up = <<>> /\ down = <<>>
  /\ d = [est |-> FALSE, sess |-> 0, tx |-> 1, rx |-> 1, chan |-> {}, had |-> FALSE,
          wire |-> <<>>, control |-> <<>>, partial |-> FALSE, pending |-> NoRequest, submitted |-> FALSE,
          failed |-> FALSE, active |-> FALSE, last |-> "idle", owed |-> FALSE, cut |-> FALSE,
          line |-> 0, lineSeq |-> FALSE]
  /\ owner = [mail |-> "free", kind |-> "none", ok |-> TRUE, job |-> "idle", jobs |-> 0]
  /\ conn = [open |-> FALSE, before |-> FALSE, n |-> 0, ended |-> 0]
  /\ delivered = [ep |-> 0, k |-> 0, clean |-> TRUE]
  /\ heard = [ep |-> 0, id |-> 0, ends |-> 0]

-----------------------------------------------------------------------------
(* The host.                                                               *)

(* A frame reaches the device whole, or damaged: the decoder rejects it.   *)
SendUp(h, f) ==
  \/ up' = Append(up, f) /\ host' = h
  \/ h.faults < MaxFaults /\ up' = Append(up, [f EXCEPT !.type = "bad"]) /\ host' = [h EXCEPT !.faults = @ + 1]

HostOpens ==
  /\ ~conn.open /\ conn.n < MaxConns
  /\ conn' = [conn EXCEPT !.open = TRUE, !.n = @ + 1]
  /\ host' = [host EXCEPT !.phase = "open"]
  /\ UNCHANGED <<up, down, d, owner, delivered, heard>>

(* CdcMuxHostSession::reset().                                             *)
HostReset(h) == [h EXCEPT !.phase = IF @ = "live" THEN @ ELSE "open", !.tx = 1, !.rx = 1, !.chan = {}]

(* What the host has not read may be thrown away or kept.                  *)
HostCloses ==
  /\ conn.open
  /\ conn' = [conn EXCEPT !.open = FALSE]
  /\ host' = [HostReset(host) EXCEPT !.phase = "closed"]
  /\ down' \in {<<>>, down}
  /\ UNCHANGED <<up, d, owner, delivered, heard>>

(* begin_handshake().  clean: no HELLO or HELLO_ACK of an earlier          *)
(* handshake is still under way.                                           *)
HelloUnderWay == \E i \in DOMAIN up : up[i].type = "hello"
AckUnderWay == (\E i \in DOMAIN down : down[i].type = "ack") \/ (\E i \in DOMAIN d.wire : d.wire[i].type = "ack")
Stale == HelloUnderWay \/ AckUnderWay

BeginHandshake ==
  /\ conn.open /\ host.phase # "live" /\ host.ep < MaxEpochs
  /\ SendUp([HostReset(host) EXCEPT !.phase = "pending", !.ep = @ + 1, !.k = 0, !.clean = ~Stale],
            [UpFrame("hello", "link", 0, <<>>) EXCEPT !.ep = @ + 1, !.k = 1, !.opens = {}, !.clean = ~Stale])
  /\ UNCHANGED <<down, d, owner, conn, delivered, heard>>

(* open_channel(), close_channel(), send_stream(), and a RESET frame,      *)
(* which the protocol has and a host may send.                             *)
HostSends(type, chan, body, channels) ==
  /\ conn.open /\ host.phase = "up" /\ host.n < MaxFrames
  /\ SendUp([host EXCEPT !.tx = @ + 1, !.n = @ + 1, !.k = IF type = "data" THEN @ + 1 ELSE @, !.chan = channels], UpFrame(type, chan, host.tx, body))
  /\ UNCHANGED <<down, d, owner, conn, delivered, heard>>

OpenChannel(c) == c \notin host.chan /\ HostSends("open", c, <<>>, host.chan \cup {c})
CloseChannel(c) == c \in host.chan /\ HostSends("close", c, <<>>, host.chan \ {c})
SendControl(b) == "control" \in host.chan /\ HostSends("data", "control", b, host.chan)
SendBinary == "binary" \in host.chan /\ HostSends("data", "binary", <<>>, host.chan)
SendReset == HostSends("reset", "link", <<>>, host.chan)

(* A WFG-LIVE/1 client, which keeps to its protocol until it closes.       *)
SendLine ==
  /\ conn.open /\ host.phase \in {"open", "live"} /\ host.n < MaxFrames
  /\ host' = [host EXCEPT !.n = @ + 1, !.phase = "live"] /\ up' = Append(up, UpFrame("line", "link", 0, <<>>))
  /\ UNCHANGED <<down, d, owner, conn, delivered, heard>>

(* CdcMuxHostSession::handle_packet(): the host and what it hears.         *)
HostReceives ==
  /\ conn.open /\ down # <<>> /\ down' = Tail(down)
  /\ LET f == Head(down)
         next == [host EXCEPT !.rx = @ + 1]
     IN  \/ /\ host.phase = "pending" /\ f.type = "ack"
            /\ host' = [host EXCEPT !.phase = "up"] /\ UNCHANGED heard
         \/ /\ ~(host.phase = "pending" /\ f.type = "ack") /\ (host.phase # "up" \/ f.seq # host.rx)
            /\ host' = HostReset(host) /\ UNCHANGED heard
         \/ /\ host.phase = "up" /\ f.seq = host.rx /\ host' = next
            /\ heard' = IF f.type = "error" \/ "control" \notin host.chan THEN heard
                        ELSE IF f.body.kind = "end" THEN [heard EXCEPT !.ends = @ + 1]
                        ELSE [heard EXCEPT !.ep = f.body.ep, !.id = f.body.id]
  /\ UNCHANGED <<up, d, owner, conn, delivered>>

-----------------------------------------------------------------------------
(* The device's session and tx_usb, each operator on the USB task's state. *)

(* write_wire(): the frame waits in the output buffer until it is empty.   *)
WriteWire(s, f) ==
  IF Len(s.wire) < WireFrames THEN [s EXCEPT !.wire = Append(@, f)] ELSE [s EXCEPT !.failed = TRUE]

(* send_stream() of one answer, and respond(): nothing without a channel.  *)
Respond(s, body) ==
  IF s.est /\ "control" \in s.chan
  THEN [WriteWire(s, [type |-> "data", seq |-> s.tx, body |-> body]) EXCEPT !.tx = @ + 1]
  ELSE s

SendError(s) == [WriteWire(s, [type |-> "error", seq |-> s.tx, body |-> JobEnd]) EXCEPT !.tx = @ + 1]

(* channel_state(): the parser and the control buffer of a closed channel. *)
ControlClosed(s) == [s EXCEPT !.partial = FALSE, !.control = <<>>]

UpdateChannel(s, c, opens) ==
  LET t == [s EXCEPT !.chan = IF opens THEN @ \cup {c} ELSE @ \ {c}]
  IN  IF c = "control" /\ ~opens /\ c \in s.chan THEN ControlClosed(t) ELSE t

(* link_state(false), disconnect_tx_artifact().                            *)
LinkLost(s) == IF s.had THEN [ControlClosed(s) EXCEPT !.cut = TRUE, !.had = FALSE] ELSE s

(* abandon_session().                                                      *)
Abandon(s) ==
  LET t == [IF "control" \in s.chan THEN ControlClosed(s) ELSE s
            EXCEPT !.chan = {}, !.est = FALSE, !.tx = 1, !.rx = 1, !.owed = FALSE]
  IN  IF s.est THEN LinkLost(t) ELSE t

(* accept_hello(): always a new session.                                   *)
AcceptHello(s, ep) ==
  LET t == WriteWire(Abandon(s), [type |-> "ack", seq |-> 0, body |-> JobEnd])
  IN  IF t.failed THEN t ELSE [t EXCEPT !.est = TRUE, !.had = TRUE, !.sess = ep]

(* receive_data(): into the one-place mailbox of its channel.              *)
ReceiveData(s, f) ==
  IF s.pending # NoRequest \/ s.control # <<>> THEN [s EXCEPT !.failed = TRUE]
  ELSE IF f.chan = "binary" THEN [s EXCEPT !.pending = [kind |-> "data", ep |-> f.ep, id |-> 8 * f.k]]
  ELSE [s EXCEPT !.control = [i \in DOMAIN f.body |-> [piece |-> f.body[i], ep |-> f.ep, id |-> 8 * f.k + i]]]

(* A faulty form: a frame out of sequence is an error, not the end of the  *)
(* session.                                                                *)
InSequenceLax(s, f) == TRUE

InSequence(s, f) == f.seq = s.rx

(* CdcMuxDeviceSession::handle_packet().  coded: what is wrong with a      *)
(* rejected packet has an error code to report.                            *)
HandlePacket(s, f, coded) ==
  LET next == [s EXCEPT !.rx = @ + 1]
  IN  CASE f.type \in {"bad", "line"} -> IF s.est /\ coded THEN SendError(s) ELSE s
        [] f.type = "hello" -> AcceptHello(s, f.ep)
        [] f.type \notin {"bad", "line", "hello"} /\ ~s.est -> s
        [] f.type \notin {"bad", "line", "hello"} /\ s.est /\ ~InSequence(s, f) -> Abandon(SendError(s))
        [] OTHER ->
           CASE f.type = "open" -> UpdateChannel(next, f.chan, TRUE)
             [] f.type = "close" -> UpdateChannel(next, f.chan, FALSE)
             [] f.type = "data" -> IF f.chan \in s.chan THEN ReceiveData(next, f) ELSE SendError(next)
             [] f.type = "reset" -> Abandon(next)

(* Whether the frame's data went to the service.                           *)
Delivers(s, f) == f.type = "data" /\ s.est /\ InSequence(s, f) /\ f.chan \in s.chan

(* A faulty form: bytes are taken while a command waits.                   *)
TxBlockedLax(s) == s.failed \/ s.wire # <<>> \/ s.pending # NoRequest

(* tx_usb_blocked(): no byte is taken while anything is under way.         *)
TxBlocked(s) == s.failed \/ s.wire # <<>> \/ s.pending # NoRequest \/ s.control # <<>>

-----------------------------------------------------------------------------
(* The USB task: service_control() and tx_usb_service().                   *)

(* tx_usb_disconnect(), and what service_control() clears with it.         *)
NoticeClosed ==
  /\ conn.before /\ ~conn.open
  /\ conn' = [conn EXCEPT !.before = FALSE, !.ended = @ + 1]
  /\ d' = LET s == [Abandon(d) EXCEPT !.partial = FALSE, !.wire = <<>>, !.control = <<>>, !.pending = NoRequest,
                      !.submitted = FALSE, !.failed = FALSE, !.active = FALSE, !.had = FALSE, !.last = "idle", !.cut = TRUE]
          IN  [IF d.active THEN s ELSE d EXCEPT !.line = 0, !.lineSeq = FALSE]
  /\ UNCHANGED <<host, up, down, owner, delivered, heard>>

NoticeOpened ==
  /\ ~conn.before /\ conn.open
  /\ conn' = [conn EXCEPT !.before = TRUE]
  /\ UNCHANGED <<host, up, down, d, owner, delivered, heard>>

(* USB events reach the device in tud_task() only, before each poll: what a *)
(* poll does, it does with the port as it saw it.                          *)
Polling == conn.before = conn.open

(* tx_usb_feed() of a frame's bytes.                                       *)
Feed(s, f) ==
  /\ \E coded \in BOOLEAN : d' = HandlePacket([s EXCEPT !.active = TRUE], f, coded)
  /\ delivered' = IF Delivers(s, f) THEN [ep |-> f.ep, k |-> f.k, clean |-> f.clean] ELSE delivered

Ingest ==
  /\ Polling /\ d.active /\ up # <<>> /\ ~TxBlocked(d)
  /\ up' = Tail(up) /\ Feed(d, Head(up))
  /\ UNCHANGED <<host, down, owner, conn, heard>>

(* The first byte of a connection chooses its protocol.  A HELLO starts    *)
(* with NUL, a RESET with 5; any other frame starts with another byte and  *)
(* is the start of a line, which also takes whatever follows it.  line     *)
(* names the connection the partial line's first byte came from.           *)
StartsMux(f) == f.type \in {"hello", "reset"} /\ d.line = 0 /\ ~d.lineSeq

Bind ==
  /\ Polling /\ ~d.active /\ up # <<>> /\ up' = Tail(up)
  /\ LET f == Head(up)
     IN  IF StartsMux(f) THEN Feed(d, f)
         ELSE /\ d' = IF f.type = "line" THEN [d EXCEPT !.line = 0, !.lineSeq = @ \/ d.line = 0]
                      ELSE IF d.line = 0 THEN [d EXCEPT !.line = f.conn] ELSE d
              /\ UNCHANGED delivered
  /\ UNCHANGED <<host, down, owner, conn, heard>>

(* tx_usb_service() writes the output buffer into the FIFO.                *)
WriteOut ==
  /\ Polling /\ d.active /\ d.wire # <<>> /\ Len(down) < FifoFrames
  /\ down' = Append(down, Head(d.wire)) /\ d' = [d EXCEPT !.wire = Tail(@)]
  /\ UNCHANGED <<host, up, owner, conn, delivered, heard>>

Serviced == Polling /\ d.active /\ d.wire = <<>> /\ ~d.failed

SubmitRequest ==
  /\ Serviced /\ d.pending # NoRequest /\ ~d.submitted
  /\ owner.mail = "free" /\ ~d.cut
  /\ owner' = [owner EXCEPT !.mail = "request", !.kind = d.pending.kind]
  /\ d' = [d EXCEPT !.submitted = TRUE]
  /\ UNCHANGED <<host, up, down, conn, delivered, heard>>

(* A faulty form: the job's state is only sampled later.                   *)
FinishRequestSampled(s, starts) ==
  [Respond(s, Answer(s.pending.ep, s.pending.id))
   EXCEPT !.pending = NoRequest, !.submitted = FALSE, !.owed = @ \/ (starts /\ s.est)]

(* A faulty form: the next request counts as submitted.                    *)
FinishRequestKeeps(s, starts) ==
  [Respond(s, Answer(s.pending.ep, s.pending.id))
   EXCEPT !.pending = NoRequest, !.owed = @ \/ (starts /\ s.est), !.last = IF starts THEN "running" ELSE @]

(* finish_request(): a job that started is remembered as running, which it *)
(* may no longer be.  owed is the answer that a job's end still needs; it  *)
(* names no variable of the code.                                          *)
FinishRequest(s, starts) ==
  [Respond(s, Answer(s.pending.ep, s.pending.id))
   EXCEPT !.pending = NoRequest, !.submitted = FALSE, !.owed = @ \/ (starts /\ s.est),
          !.last = IF starts THEN "running" ELSE @]

TakeReply ==
  /\ Serviced /\ d.submitted /\ owner.mail = "reply"
  /\ d' = FinishRequest(d, owner.kind = "send" /\ owner.ok)
  /\ owner' = [owner EXCEPT !.mail = "free", !.kind = "none", !.ok = TRUE]
  /\ UNCHANGED <<host, up, down, conn, delivered, heard>>

MayPump == Serviced /\ d.pending = NoRequest /\ d.control # <<>>

(* pump_commands(): one command.  "head" and "tail" are the two parts of a *)
(* CMD:TX FILE line; anything else after a "head" makes an invalid line.   *)
PumpCommand ==
  /\ MayPump
  /\ LET c == Head(d.control)
         s == [d EXCEPT !.control = Tail(@), !.partial = (c.piece = "head")]
         kind == CASE d.partial /\ c.piece = "tail" -> "send"
                   [] ~d.partial /\ c.piece \in {"send", "reset"} -> c.piece
                   [] OTHER -> "none"
     IN  d' = IF c.piece = "head" THEN s
              ELSE IF kind = "none" THEN Respond(s, Answer(c.ep, c.id))
              ELSE [s EXCEPT !.pending = [kind |-> kind, ep |-> c.ep, id |-> c.id]]
  /\ UNCHANGED <<host, up, down, owner, conn, delivered, heard>>

(* A faulty form: a job that runs is forgotten only when another starts.   *)
AnnounceAgain ==
  /\ Serviced /\ d.pending = NoRequest /\ d.control = <<>> /\ d.last # owner.job
  /\ d' = IF d.last = "running" THEN [Respond(d, JobEnd) EXCEPT !.owed = FALSE] ELSE [d EXCEPT !.last = owner.job]
  /\ UNCHANGED <<host, up, down, owner, conn, delivered, heard>>

(* A job that ran and no longer does is reported, once.                    *)
Announce ==
  /\ Serviced /\ d.pending = NoRequest /\ d.control = <<>> /\ d.last # owner.job
  /\ d' = IF d.last = "running" THEN [Respond(d, JobEnd) EXCEPT !.last = owner.job, !.owed = FALSE]
          ELSE [d EXCEPT !.last = owner.job]
  /\ UNCHANGED <<host, up, down, owner, conn, delivered, heard>>

-----------------------------------------------------------------------------
(* The artifact owner, on the player task.                                 *)

OwnerDisconnects ==
  /\ d.cut
  /\ d' = [d EXCEPT !.cut = FALSE] /\ owner' = [owner EXCEPT !.mail = "free", !.kind = "none", !.ok = TRUE]
  /\ UNCHANGED <<host, up, down, conn, delivered, heard>>

OwnerServes ==
  /\ owner.mail = "request" /\ ~d.cut
  /\ \/ owner' = [owner EXCEPT !.mail = "reply", !.ok = FALSE]
     \/ owner.kind = "data" /\ owner.job # "running" /\ owner' = [owner EXCEPT !.mail = "reply"]
     \/ owner.kind = "reset" /\ owner' = [owner EXCEPT !.mail = "reply", !.job = "idle"]
     \/ /\ owner.kind = "send" /\ owner.job # "running" /\ owner.jobs < MaxJobs
        /\ owner' = [owner EXCEPT !.mail = "reply", !.job = "running", !.jobs = @ + 1]
  /\ UNCHANGED <<host, up, down, d, conn, delivered, heard>>

JobEnds ==
  /\ owner.job = "running"
  /\ owner' = [owner EXCEPT !.job = "idle"]
  /\ UNCHANGED <<host, up, down, d, conn, delivered, heard>>

-----------------------------------------------------------------------------
HostNext ==
  \/ HostOpens \/ HostCloses \/ BeginHandshake \/ SendBinary \/ SendReset \/ SendLine \/ HostReceives
  \/ \E c \in {"control", "binary"} : OpenChannel(c) \/ CloseChannel(c)
  \/ \E b \in Bodies : SendControl(b)

DeviceNext ==
  NoticeClosed \/ NoticeOpened \/ Ingest \/ Bind \/ WriteOut \/ SubmitRequest \/ TakeReply \/ PumpCommand \/ Announce

OwnerNext == OwnerDisconnects \/ OwnerServes \/ JobEnds

MuxNext == HostNext \/ DeviceNext \/ OwnerNext

(* The USB task polls and the player task runs; a host that has the port   *)
(* open reads it.                                                          *)
MuxSpec ==
  /\ MuxInit /\ [][MuxNext]_muxVars
  /\ WF_muxVars(DeviceNext) /\ WF_muxVars(HostReceives)
  /\ WF_muxVars(OwnerDisconnects \/ OwnerServes) /\ WF_muxVars(JobEnds)

-----------------------------------------------------------------------------
(* Properties.                                                             *)

(* Nothing a host sends, in any order, breaks tx_usb: its mailbox is free  *)
(* whenever a frame is delivered and its output buffer never overflows.    *)
NeverFails == ~d.failed

(* Data of a session whose handshake began with no HELLO or HELLO_ACK of   *)
(* an earlier one under way reaches the device in that session; and what   *)
(* the service is given of a session's data in that session is its first   *)
(* frames, in order and each once, whichever frames are damaged and        *)
(* however sessions follow one another.  A frame does not say to which     *)
(* handshake it belongs: when a late acknowledgement began the host's      *)
(* session and its HELLO is lost, a frame of it may be taken in the        *)
(* session before, and of that nothing is claimed.                         *)
DeliveredInOrder ==
  [][delivered' # delivered =>
       /\ delivered'.clean => delivered'.ep = d.sess
       /\ delivered'.ep = d.sess =>
            \/ delivered'.ep > delivered.ep /\ delivered'.k = 1
            \/ delivered'.ep = delivered.ep /\ delivered'.k = delivered.k + 1]_muxVars

(* The host hears answers in the order of its commands and each once, of   *)
(* its own session when nothing of an earlier handshake was under way as   *)
(* it began, and the end of a job at most once.                            *)
HeardInOrder ==
  [][heard' # heard =>
       /\ heard'.ends <= owner.jobs
       /\ heard'.ends = heard.ends =>
            /\ heard'.ep > heard.ep \/ (heard'.ep = heard.ep /\ heard'.id > heard.id)
            /\ host.clean => heard'.ep = host.ep]_muxVars

(* tx_usb never stays blocked: each command and each frame is answered, or *)
(* the connection ends.                                                    *)
Unblocks == TxBlocked(d) ~> (~TxBlocked(d) \/ ~conn.open)

(* The end of a generation that was acknowledged is reported, or the       *)
(* session ends first: also when the job is over before its                *)
(* acknowledgement is sent.                                                *)
JobEndReported == d.owed ~> (~d.owed \/ ~conn.open)

(* "A new connection selects one protocol": a partial line in the buffer   *)
(* of an open connection began in that connection, when the USB task has   *)
(* seen each connection before it end, and this one open.                  *)
ConnectionSelectsProtocol ==
  conn.open /\ conn.before /\ conn.ended = conn.n - 1 /\ d.line # 0 => d.line = conn.n

-----------------------------------------------------------------------------
(* The inductive invariant that the proofs use.                            *)

Chans == {"control", "binary"}

HostType ==
  [phase : {"closed", "open", "pending", "up", "live"}, ep : 0..MaxEpochs, tx : Nat, rx : Nat, chan : SUBSET Chans,
   n : 0..MaxFrames, k : Nat, clean : BOOLEAN, faults : 0..MaxFaults]

UpFrames ==
  [type : {"hello", "open", "close", "data", "reset", "line", "bad"}, chan : Chans \cup {"link"}, seq : Nat,
   body : Bodies \cup {<<>>}, ep : Nat, k : Nat, opens : SUBSET Chans,
   clean : BOOLEAN, conn : Nat]

Replies == [kind : {"answer", "end"}, ep : Nat, id : Nat]
DownFrames == [type : {"ack", "data", "error"}, seq : Nat, body : Replies]
Commands == [piece : Pieces, ep : Nat, id : Nat]
Requests == [kind : {"none", "data", "send", "reset"}, ep : Nat, id : Nat]

DeviceType ==
  [est : BOOLEAN, sess : Nat, tx : Nat, rx : Nat, chan : SUBSET Chans, had : BOOLEAN, wire : Seq(DownFrames), control : Seq(Commands),
   partial : BOOLEAN, pending : Requests, submitted : BOOLEAN, failed : BOOLEAN, active : BOOLEAN,
   last : {"idle", "running"}, owed : BOOLEAN, cut : BOOLEAN, line : Nat, lineSeq : BOOLEAN]

MuxTypeOK ==
  /\ host \in HostType /\ up \in Seq(UpFrames) /\ down \in Seq(DownFrames) /\ d \in DeviceType
  /\ \A i \in DOMAIN up : up[i].type \in {"open", "close", "data"} => up[i].chan \in Chans
  /\ owner \in [mail : {"free", "request", "reply"}, kind : {"none", "data", "send", "reset"}, ok : BOOLEAN,
                job : {"idle", "running"}, jobs : 0..MaxJobs]
  /\ conn \in [open : BOOLEAN, before : BOOLEAN, n : 0..MaxConns, ended : Nat]
  /\ delivered \in [ep : Nat, k : Nat, clean : BOOLEAN] /\ heard \in [ep : Nat, id : Nat, ends : Nat]

(* tx_usb holds nothing before a session is chosen; a request that was     *)
(* submitted is the one that waits, and no disconnect is under way with it.*)
NothingUnderWay(s) == s.wire = <<>> /\ s.pending = NoRequest /\ s.control = <<>>
DeviceFits(s) ==
  /\ s \in DeviceType /\ ~s.failed /\ Len(s.wire) <= WireFrames
  /\ ~s.active => NothingUnderWay(s) /\ ~s.est /\ ~s.had
  /\ s.submitted => s.pending # NoRequest /\ ~s.cut

(* The owner's mailbox holds the request that waits, unless a disconnect   *)
(* is still to empty it.                                                   *)
MailIsPending ==
  ~d.cut => /\ owner.mail # "free" <=> d.submitted
            /\ d.submitted => owner.kind = d.pending.kind

MuxInv == MuxTypeOK /\ DeviceFits(d) /\ MailIsPending

(* Order.  Frames wait in the order of their handshakes, none of one before *)
(* the device's, and a HELLO comes before all others of its handshake.     *)
EpochsOrdered ==
  /\ d.sess <= host.ep /\ delivered.ep <= host.ep
  /\ \A i \in DOMAIN up :
       /\ d.sess <= up[i].ep /\ delivered.ep <= up[i].ep /\ up[i].ep <= host.ep
       /\ \A j \in DOMAIN up : i < j => up[i].ep <= up[j].ep
       /\ up[i].type = "hello" =>
            /\ d.sess < up[i].ep /\ delivered.ep < up[i].ep
            /\ \A j \in DOMAIN up : j < i => up[j].ep < up[i].ep

(* The frames of a session have numbers from 1 on.                         *)
OfSession(f) == f.seq # 0

Effect(f) ==
  CASE f.type = "open" -> f.opens \cup {f.chan} [] f.type = "close" -> f.opens \ {f.chan} [] OTHER -> f.opens

(* A host whose next frame comes after f has these channels open, and its  *)
(* next data frame is the k-th.                                            *)
Follows(f, opens, k) == f.type # "bad" => opens = Effect(f) /\ k = IF f.type = "data" THEN f.k + 1 ELSE f.k

HostFits ==
  /\ ~conn.open => host.phase = "closed"
  /\ host.tx > 0
  /\ host.phase # "up" => host.tx = 1 /\ host.chan = {}
  /\ host.tx = 1 => host.chan = {} /\ (host.phase \in {"pending", "up"} => host.k = 0)

SentInOrder ==
  \A i \in DOMAIN up :
    /\ up[i].type \in {"open", "close", "data", "reset"} => OfSession(up[i])
    /\ up[i].type = "data" => up[i].chan \in up[i].opens
    /\ up[i].seq = 1 => up[i].opens = {} /\ up[i].k = 1
    /\ OfSession(up[i]) /\ up[i].ep = host.ep =>
         /\ host.phase # "pending"
         /\ host.phase = "up" => /\ up[i].seq < host.tx
                                 /\ up[i].seq + 1 = host.tx => Follows(up[i], host.chan, host.k + 1)
    /\ \A j \in DOMAIN up : i < j /\ OfSession(up[i]) /\ OfSession(up[j]) /\ up[i].ep = up[j].ep =>
         /\ up[i].seq < up[j].seq
         /\ up[i].seq + 1 = up[j].seq => Follows(up[i], up[j].opens, up[j].k)

(* The device as the host was before it sent the frame that is due.        *)
DeliveredOf(e) == IF delivered.ep = e THEN delivered.k ELSE 0
IsDue(opens, k) == opens = d.chan /\ k = DeliveredOf(d.sess) + 1

ReceivedInOrder ==
  d.est =>
    /\ d.rx > 0
    /\ \A i \in DOMAIN up : OfSession(up[i]) /\ up[i].ep = d.sess =>
         d.rx <= up[i].seq /\ (up[i].seq = d.rx => IsDue(up[i].opens, up[i].k))
    /\ host.phase \in {"pending", "up"} /\ host.ep = d.sess =>
         d.rx <= host.tx /\ (host.tx = d.rx => IsDue(host.chan, host.k + 1))

(* A clean handshake's frames wait for a device in its session.            *)
CleanAgrees ==
  /\ \A i \in DOMAIN up : OfSession(up[i]) /\ up[i].clean =>
       up[i].ep = d.sess /\ \A j \in DOMAIN up : j < i => up[j].type # "hello"
  /\ host.clean /\ (host.phase = "up" \/ (host.phase = "pending" /\ AckUnderWay)) => d.sess = host.ep /\ ~HelloUnderWay
  /\ host.clean /\ host.phase = "pending" =>
       \A i \in DOMAIN up : up[i].type = "hello" => up[i].ep = host.ep /\ i = Len(up)

OrderInv == EpochsOrdered /\ HostFits /\ SentInOrder /\ ReceivedInOrder /\ CleanAgrees
=============================================================================
