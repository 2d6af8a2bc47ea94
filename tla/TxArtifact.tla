----------------------------- MODULE TxArtifact -----------------------------
(***************************************************************************)
(* The artifact owner (rt1170/tx_artifact.cpp): an upload of a payload in  *)
(* chunks, the generation of a WAV from it block by block                  *)
(* (waveform-source/wav_generator.cpp), and the publication of the WAV and *)
(* of the manifest that marks it complete.                                 *)
(*                                                                         *)
(* The owner runs on the player task.  The USB task hands it requests      *)
(* through a one-place mailbox, takes the replies, and may drop the        *)
(* connection at any point; it also decides whether the USB host may have  *)
(* the card.  A critical section is one action; a request is served        *)
(* between two of them.                                                    *)
(***************************************************************************)
EXTENDS Integers, Sequences, FiniteSets

CONSTANTS
  Names,       \* 8.3 stems: the payload n.BIN, the output n.WAV and its companions
  Rates,       \* the modes of CMD:DATA RATE
  DefaultRate, \* the mode before any is selected
  Encoders,    \* the encoders an ENCODE line can name
  Profiles,    \* the profiles it can name
  MaxUpload,   \* maximum_upload_bytes, in chunks
  Blocks,      \* blocks of frames in a generated WAV
  Found        \* the files of one stem a card may come with

(* Rate 0: no mode.  An ENCODE line has it, for its profile is explicit.   *)
NoRate == "0"

ASSUME TxConstants ==
  /\ DefaultRate \in Rates
  /\ MaxUpload \in Nat \ {0} /\ Blocks \in Nat \ {0}
  /\ Names # {}

(* A mode is named, and an ENCODE line with an empty field is refused.     *)
ASSUME SettingsAssumption == NoRate \notin Rates /\ "" \notin Rates \cup Encoders \cup Profiles

VARIABLES
  tx,        \* the owner's members and snapshot
  card,      \* the files in WG, by stem
  slot,      \* request_slot while request_pending, else NoRequest
  response,  \* response_slot while response_pending, else NoReply
  dropped,   \* disconnected
  task,      \* where the player task is in service_tx_artifact() and its loop
  current,   \* the request being served (processing_request), else NoRequest
  noted,     \* the player task's notification count is not 0
  playing,   \* a PLAY run holds the player (run_busy)
  usb,       \* the USB task: "idle", "asking", "waiting" or "granted" (MEDIA HOST)
  asked,     \* the USB task's request, until it is submitted
  media,     \* "local" or "host"
  chosen     \* history: the settings that the requests carried out have chosen

txVars == <<tx, card, slot, response, dropped, task, current, noted, playing, usb, asked, media, chosen>>

-----------------------------------------------------------------------------
(* Files.  A payload has a size in chunks.  Another file is absent, not    *)
(* this job's, partial, whole but not synced, or sealed: whole and synced. *)

NoFile == -1
Files == [BIN : NoFile..(MaxUpload + 1), WAV : {"absent", "other", "partial", "whole", "sealed"},
          TMP : {"absent", "other", "partial", "whole", "sealed"},
          JSON : {"absent", "other", "partial", "sealed"}, JMP : {"absent", "other", "partial", "sealed"}]

(* A card comes with manifests of whole artifacts only: what the host      *)
(* copies or leaves there is not this firmware's doing.                    *)
ASSUME FoundAssumption ==
  Found \subseteq Files /\ \A f \in Found : f.JSON = "sealed" => f.WAV = "sealed"

(* check_outputs_absent().                                                 *)
OutputsAbsent(f) == f.WAV = "absent" /\ f.JSON = "absent" /\ f.TMP = "absent" /\ f.JMP = "absent"

NoRequest == [kind |-> "none"]
NoReply == [kind |-> "none"]

(* tx_protocol::Request, without the queries that change nothing.  A       *)
(* GENERATE or TX FILE line gives a mode and leaves the encoder and the    *)
(* profile empty; an ENCODE line gives those two and no mode.              *)
Request ==
  [kind : {"reset", "send", "data"}] \cup [kind : {"mode"}, rate : Rates]
  \cup [kind : {"select"}, name : Names]
  \cup [kind : {"generate"}, name : Names, input : Names, rate : Rates \cup {NoRate}, encoder : {""}, profile : {""}]
  \cup [kind : {"generate"}, name : Names, input : Names, rate : {NoRate}, encoder : Encoders, profile : Profiles]

(* The requests of now: TX FILE has the mode that is selected, if any.     *)
Requests ==
  {r \in Request : r.kind = "generate" /\ r.encoder = "" => r.rate \in Rates \cup {tx.rate}}

(* What a writer runs with; the encoder "" is the default one.             *)
Settings == [encoder : Encoders \cup {""}, profile : Profiles \cup Rates \cup {NoRate, ""}]
NoSettings == [encoder |-> "", profile |-> ""]

(* Snapshot states 0 to 4.  profile is "" until a generation fills it in;  *)
(* used is what the writer that runs was begun with.                       *)
NewOwner ==
  [state |-> "idle", bytes |-> 0, written |-> 0, name |-> CHOOSE n \in Names : TRUE,
   input |-> CHOOSE n \in Names : TRUE, rate |-> DefaultRate, encoder |-> "", profile |-> "",
   used |-> NoSettings, open |-> {}, mounted |-> FALSE, cleanup |-> FALSE]

(* What the file system and the encoder do in one call of the owner: the   *)
(* first operation that fails, if any, and the handles that fail to close. *)
Held == {{}, {"payload"}, {"output"}, {"volume"}}
ServeOutcome ==
  [op : {"none", "encoder", "mount", "stat", "read", "begin", "create", "write", "sync"}, held : Held]
BlockOutcome ==
  [op : {"none", "write", "sync", "json_create", "json_write", "rename", "rollback"},
   held : Held \cup {{"manifest"}}]

-----------------------------------------------------------------------------
(* close_files(): a handle is kept until FatFs confirms its close, and the *)
(* volume until every handle is closed.                                    *)

CloseFiles(t, held) ==
  IF t.open \cap held # {} THEN [t EXCEPT !.open = @ \cap held, !.cleanup = TRUE]
  ELSE IF t.mounted /\ "volume" \in held THEN [t EXCEPT !.open = {}, !.cleanup = TRUE]
  ELSE [t EXCEPT !.open = {}, !.mounted = FALSE, !.cleanup = FALSE]

(* fail(): the job ends in state 4 whether or not its files could close.   *)
FailJob(t, held) == [CloseFiles(t, held) EXCEPT !.state = "failed", !.used = NoSettings]

(* mount(): ok, or refused with nothing held unless a cleanup failed.      *)
Mount(t, out) ==
  IF t.cleanup \/ media # "local" THEN [ok |-> FALSE, tx |-> t]
  ELSE IF t.mounted THEN [ok |-> TRUE, tx |-> t]
  ELSE IF out.op = "mount" THEN [ok |-> FALSE, tx |-> CloseFiles([t EXCEPT !.mounted = TRUE], out.held)]
  ELSE [ok |-> TRUE, tx |-> [t EXCEPT !.mounted = TRUE]]

(* select_output(): the snapshot is cleared with the new name.             *)
SelectOutput(t, n) ==
  [t EXCEPT !.state = "idle", !.bytes = 0, !.written = 0, !.name = n, !.input = n]

(* A result: whether the request succeeds, the owner and the files after.  *)
Result(ok, t, c) == [ok |-> ok, tx |-> t, card |-> c]

(* failed_transaction().                                                   *)
Failed(t, c, out) == Result(FALSE, FailJob(t, out.held), c)

(* open_payload(): an upload still open is synced and closed first; a      *)
(* handle that does not close is kept.                                     *)
OpenPayload(t, out) ==
  LET closed == IF "payload" \in out.held THEN t.open ELSE t.open \ {"payload"}
      size == card[t.input].BIN
  IN  IF "payload" \in t.open /\ (out.op = "sync" \/ "payload" \in closed)
      THEN [ok |-> FALSE, tx |-> [t EXCEPT !.open = closed]]
      ELSE IF size = NoFile \/ out.op = "read"
      THEN [ok |-> FALSE, tx |-> [t EXCEPT !.open = closed]]
      ELSE [ok |-> size <= MaxUpload, tx |-> [t EXCEPT !.open = @ \cup {"payload"}]]

(* The profile a generation runs with: the one given, else the mode's.     *)
Profile(t) == IF t.profile = "" THEN t.rate ELSE t.profile

(* start_generation(), under failed_transaction(): the writer's begin()    *)
(* creates the temporary WAV with its header.                              *)
StartGeneration(t, out) ==
  LET m == Mount(t, out)
      p == OpenPayload(m.tx, out)
      partial == [card EXCEPT ![t.name].TMP = "partial"]
      begun == [p.tx EXCEPT !.profile = Profile(t), !.used = [encoder |-> t.encoder, profile |-> Profile(t)]]
  IN  IF out.op = "encoder" THEN Failed(t, card, out)
      ELSE IF ~m.ok \/ out.op = "stat" \/ ~OutputsAbsent(card[t.name]) THEN Failed(m.tx, card, out)
      ELSE IF ~p.ok THEN Failed(p.tx, card, out)
      ELSE IF out.op \in {"begin", "create"} THEN Failed(begun, card, out)
      ELSE IF out.op = "write" THEN Failed([begun EXCEPT !.open = @ \cup {"output"}], partial, out)
      ELSE Result(TRUE, [begun EXCEPT !.open = @ \cup {"output"}, !.state = "generating",
                                      !.bytes = card[t.input].BIN, !.written = 0], partial)

-----------------------------------------------------------------------------
(* One request each.                                                       *)

(* serve_reset(): retries a held cleanup, and selects the defaults.        *)
ServeReset(out) ==
  LET aborted == IF tx.state \in {"receiving", "generating"} THEN FailJob(tx, out.held)
                 ELSE CloseFiles(tx, out.held)
  IN  IF aborted.cleanup THEN Result(FALSE, aborted, card)
      ELSE Result(TRUE, SelectOutput([aborted EXCEPT !.rate = DefaultRate, !.encoder = "", !.profile = ""], NewOwner.name), card)

(* serve_mode().                                                           *)
ServeMode(r) == Result(TRUE, [tx EXCEPT !.rate = r.rate, !.encoder = "", !.profile = ""], card)

(* A faulty form: SELECT keeps the encoder and the profile.                *)
ServeSelectKeeps(r, out) ==
  LET closed == CloseFiles(tx, out.held)
  IN  IF tx.state = "receiving" THEN Result(FALSE, tx, card)
      ELSE IF closed.cleanup THEN Result(FALSE, closed, card)
      ELSE Result(TRUE, SelectOutput(closed, r.name), card)

(* serve_select(): the mode stays selected.                                *)
ServeSelect(r, out) ==
  LET closed == CloseFiles(tx, out.held)
  IN  IF tx.state = "receiving" THEN Result(FALSE, tx, card)
      ELSE IF closed.cleanup THEN Result(FALSE, closed, card)
      ELSE Result(TRUE, [SelectOutput(closed, r.name) EXCEPT !.encoder = "", !.profile = ""], card)

(* append_payload(): the first chunk creates the file.  A failed write may *)
(* leave the chunk on the card.                                            *)
AppendPayload(t, out) ==
  LET first == "payload" \notin t.open
      size == IF first THEN 0 ELSE card[t.name].BIN
      opened == [t EXCEPT !.open = @ \cup {"payload"}]
  IN  IF first /\ (out.op = "create" \/ card[t.input].BIN # NoFile) THEN Failed(t, card, out)
      ELSE IF out.op = "write" THEN Failed(opened, [card EXCEPT ![t.input].BIN = size], out)
      ELSE Result(TRUE, [opened EXCEPT !.bytes = @ + 1, !.state = "receiving"],
                  [card EXCEPT ![t.input].BIN = size + 1])

(* serve_data(): one chunk.                                                *)
ServeData(out) ==
  LET m == Mount(tx, out)
  IN  IF tx.state \notin {"idle", "receiving"} \/ tx.bytes = MaxUpload THEN Result(FALSE, tx, card)
      ELSE IF ~m.ok THEN Result(FALSE, m.tx, card)
      ELSE AppendPayload(m.tx, out)

(* serve_send().                                                           *)
ServeSend(out) ==
  IF tx.state # "receiving" THEN Result(FALSE, tx, card) ELSE StartGeneration(tx, out)

(* serve_generate(): a payload that is on the card already, with all the   *)
(* settings of the request.                                                *)
ServeGenerate(r, out) ==
  LET closed == CloseFiles(tx, out.held)
  IN  IF tx.state = "receiving" THEN Result(FALSE, tx, card)
      ELSE IF closed.cleanup THEN Result(FALSE, closed, card)
      ELSE StartGeneration([SelectOutput(closed, r.name) EXCEPT !.input = r.input, !.rate = r.rate,
                                                                !.encoder = r.encoder, !.profile = r.profile], out)

(* serve_request(): RESET always; the others are refused while a cleanup,  *)
(* a playback or a generation is active.                                   *)
Busy == tx.cleanup \/ playing \/ tx.state = "generating"

Serve(r, out) ==
  CASE r.kind = "reset" -> ServeReset(out)
    [] r.kind # "reset" /\ Busy -> Result(FALSE, tx, card)
    [] OTHER ->
       CASE r.kind = "mode" -> ServeMode(r)
         [] r.kind = "select" -> ServeSelect(r, out)
         [] r.kind = "data" -> ServeData(out)
         [] r.kind = "send" -> ServeSend(out)
         [] r.kind = "generate" -> ServeGenerate(r, out)

(* History.  What a request that is carried out chooses: RESET the default *)
(* mode, MODE a mode, SELECT the mode again without explicit settings, and *)
(* a generation that gets as far as starting all that it came with.        *)
GenerateStarts(out) == ~Busy /\ tx.state # "receiving" /\ ~CloseFiles(tx, out.held).cleanup

Choice == [rate : Rates \cup {NoRate}, encoder : Encoders \cup {""}, profile : Profiles \cup {""}]
DefaultChoice == [rate |-> DefaultRate, encoder |-> "", profile |-> ""]

Chosen(r, out) ==
  CASE r.kind = "reset" /\ Serve(r, out).ok -> DefaultChoice
    [] r.kind = "mode" /\ Serve(r, out).ok -> [rate |-> r.rate, encoder |-> "", profile |-> ""]
    [] r.kind = "select" /\ Serve(r, out).ok -> [rate |-> chosen.rate, encoder |-> "", profile |-> ""]
    [] r.kind = "generate" /\ GenerateStarts(out) -> [rate |-> r.rate, encoder |-> r.encoder, profile |-> r.profile]
    [] OTHER -> chosen

(* What a generation is to run with: explicit settings, or the mode's.     *)
RunsWith(h) == [encoder |-> h.encoder, profile |-> IF h.profile = "" THEN h.rate ELSE h.profile]

-----------------------------------------------------------------------------
(* publish_artifact(): the files after each of its durable steps, in their *)
(* order: the WAV is synced, the manifest created, written and synced, the *)
(* WAV renamed, the manifest renamed.                                      *)

(* A faulty form: the manifest is published before the WAV.                *)
PublishStepsJsonFirst(f) ==
  LET s1 == [f EXCEPT !.TMP = "sealed"]
      s2 == [s1 EXCEPT !.JMP = "partial"]
      s3 == [s2 EXCEPT !.JMP = "sealed"]
      s4 == [s3 EXCEPT !.JSON = "sealed", !.JMP = "absent"]
      s5 == [s4 EXCEPT !.WAV = "sealed", !.TMP = "absent"]
  IN  <<f, s1, s2, s3, s4, s5>>

PublishSteps(f) ==
  LET s1 == [f EXCEPT !.TMP = "sealed"]
      s2 == [s1 EXCEPT !.JMP = "partial"]
      s3 == [s2 EXCEPT !.JMP = "sealed"]
      s4 == [s3 EXCEPT !.WAV = s3.TMP, !.TMP = "absent"]
      s5 == [s4 EXCEPT !.JSON = "sealed", !.JMP = "absent"]
  IN  <<f, s1, s2, s3, s4, s5>>

(* A failed step ends the job; a manifest that cannot be renamed returns   *)
(* the WAV to its temporary name, unless that fails too.                   *)
PublishArtifact(t, c, out) ==
  LET s == PublishSteps(c[t.name])
      At(k) == [c EXCEPT ![t.name] = s[k]]
      closed == [t EXCEPT !.open = @ \cap out.held]
      named == [closed EXCEPT !.open = @ \cup {"manifest"}]
  IN  IF out.op = "sync" THEN Failed(t, c, out)
      ELSE IF closed.open # {} \/ out.op = "json_create" THEN Failed(closed, At(2), out)
      ELSE IF out.op = "json_write" THEN Failed(named, At(3), out)
      ELSE IF "manifest" \in out.held THEN Failed(named, At(4), out)
      ELSE IF out.op = "rename" THEN Failed(closed, At(4), out)
      ELSE IF out.op = "rollback" THEN Failed(closed, At(5), out)
      ELSE Result(TRUE, [CloseFiles(closed, out.held) EXCEPT !.state = "complete", !.used = NoSettings], At(6))

(* WavGenerator::step(): the next block, which may fail in the encoder or  *)
(* in the sink ("write"); the last one completes the WAV.                  *)
ContinueGeneration(out) ==
  LET t == [tx EXCEPT !.written = @ + 1]
      c == IF t.written = Blocks THEN [card EXCEPT ![tx.name].TMP = "whole"] ELSE card
  IN  IF out.op = "write" THEN Failed(tx, card, out)
      ELSE IF t.written < Blocks THEN Result(TRUE, t, card)
      ELSE PublishArtifact(t, c, out)

-----------------------------------------------------------------------------
(* The USB task.                                                           *)

(* A faulty form: a request being served does not count.                   *)
TxBusyNotServing ==
  tx.mounted \/ tx.open # {} \/ tx.cleanup \/ slot # NoRequest \/ tx.state = "generating"

(* tx_artifact_busy().                                                     *)
TxBusy ==
  tx.mounted \/ tx.open # {} \/ tx.cleanup \/ slot # NoRequest \/ current # NoRequest \/ tx.state = "generating"

(* A faulty form: a disconnect that was not served yet is ignored.         *)
MailboxFreeAnyway == slot = NoRequest /\ response = NoReply

MailboxFree == slot = NoRequest /\ response = NoReply /\ ~dropped

(* A faulty form: the player task is not notified.                         *)
SubmitSilent(r) == MailboxFree /\ slot' = [r |-> r, live |-> TRUE] /\ UNCHANGED noted

(* submit_tx_request(): refused while the mailbox is not free.             *)
SubmitTx(r) == MailboxFree /\ slot' = [r |-> r, live |-> TRUE] /\ noted' = TRUE

(* A line or a data frame becomes a request.                               *)
Ask(r) ==
  /\ usb = "idle"
  /\ SubmitTx(r) /\ usb' = "waiting"
  /\ UNCHANGED <<tx, card, response, dropped, task, current, playing, asked, media, chosen>>

(* When it is refused tx_usb.cpp keeps it and tries again; a WFG-LIVE/1    *)
(* line, GENERATE or ENCODE, is answered BUSY instead.                     *)
KeepAsking(r) ==
  /\ usb = "idle" /\ ~MailboxFree
  /\ r.kind = "generate" => r.encoder = "" /\ r.rate = tx.rate
  /\ usb' = "asking" /\ asked' = r
  /\ UNCHANGED <<tx, card, slot, response, dropped, task, current, noted, playing, media, chosen>>

Resubmit ==
  /\ usb = "asking"
  /\ SubmitTx(asked) /\ usb' = "waiting" /\ asked' = NoRequest
  /\ UNCHANGED <<tx, card, response, dropped, task, current, playing, media, chosen>>

(* take_tx_reply().                                                        *)
TakeTxReply ==
  /\ usb = "waiting" /\ response # NoReply
  /\ usb' = "idle" /\ response' = NoReply
  /\ UNCHANGED <<tx, card, slot, dropped, task, current, noted, playing, asked, media, chosen>>

(* What the connection that ended had under way.                           *)
Orphan(m) == IF "live" \in DOMAIN m THEN [m EXCEPT !.live = FALSE] ELSE m

(* tx_usb_disconnect(), disconnect_tx_artifact(): the terminal closes, or  *)
(* the session is abandoned.                                               *)
DisconnectTx ==
  /\ usb # "granted" /\ ~dropped
  /\ dropped' = TRUE /\ noted' = TRUE /\ usb' = "idle" /\ asked' = NoRequest
  /\ slot' = Orphan(slot) /\ current' = Orphan(current) /\ response' = Orphan(response)
  /\ UNCHANGED <<tx, card, task, playing, media, chosen>>

(* MEDIA HOST: player_allows_media_host(), then the handoff.               *)
AllowHost ==
  /\ usb = "idle" /\ media = "local" /\ ~TxBusy /\ ~playing
  /\ usb' = "granted"
  /\ UNCHANGED <<tx, card, slot, response, dropped, task, current, noted, playing, asked, media, chosen>>

HandToHost ==
  /\ usb = "granted"
  /\ usb' = "idle" /\ media' = "host"
  /\ UNCHANGED <<tx, card, slot, response, dropped, task, current, noted, playing, asked, chosen>>

(* MEDIA LOCAL; the host may have changed any file while it had the card.  *)
BackToLocal ==
  /\ usb = "idle" /\ media = "host"
  /\ media' = "local" /\ card' \in [Names -> Found]
  /\ UNCHANGED <<tx, slot, response, dropped, task, current, noted, playing, usb, asked, chosen>>

-----------------------------------------------------------------------------
(* The player task: service_tx_artifact() and the loop around it.          *)

(* continue_generation() follows in the same pass while a job runs.        *)
AfterRequest(t) == IF t.state = "generating" THEN "generate" ELSE "wait"

(* A disconnect is served first: what is in the mailbox belongs to nobody, *)
(* and an upload that was under way cannot go on.                          *)
ServeDisconnect ==
  /\ task = "service" /\ dropped
  /\ dropped' = FALSE /\ slot' = NoRequest /\ response' = NoReply
  /\ \E held \in Held :
       tx' = IF tx.state = "receiving" THEN FailJob(tx, held)
             ELSE IF tx.cleanup THEN CloseFiles(tx, held) ELSE tx
  /\ task' = AfterRequest(tx')
  /\ UNCHANGED <<card, current, noted, playing, usb, asked, media, chosen>>

TakeRequest ==
  /\ task = "service" /\ ~dropped /\ slot # NoRequest
  /\ current' = slot /\ slot' = NoRequest /\ task' = "serve"
  /\ UNCHANGED <<tx, card, response, dropped, noted, playing, usb, asked, media, chosen>>

(* serve_request(), with no lock held.                                     *)
ServeRequest ==
  /\ task = "serve"
  /\ \E out \in ServeOutcome : \E res \in {Serve(current.r, out)} : 
       tx' = res.tx /\ card' = res.card /\ chosen' = Chosen(current.r, out)
  /\ task' = "respond" /\ current' = [current EXCEPT !.r = NoRequest]
  /\ UNCHANGED <<slot, response, dropped, noted, playing, usb, asked, media>>

(* The reply goes to its place.                                            *)
Respond ==
  /\ task = "respond"
  /\ response' = [kind |-> "reply", live |-> current.live] /\ current' = NoRequest
  /\ task' = AfterRequest(tx)
  /\ UNCHANGED <<tx, card, slot, dropped, noted, playing, usb, asked, media, chosen>>

NothingAsked ==
  /\ task = "service" /\ ~dropped /\ slot = NoRequest
  /\ task' = AfterRequest(tx)
  /\ UNCHANGED <<tx, card, slot, response, dropped, current, noted, playing, usb, asked, media, chosen>>

(* continue_generation(): a failure ends the job.                          *)
Generate ==
  /\ task = "generate"
  /\ \E out \in BlockOutcome : \E res \in {ContinueGeneration(out)} : tx' = res.tx /\ card' = res.card
  /\ task' = "wait"
  /\ UNCHANGED <<slot, response, dropped, current, noted, playing, usb, asked, media, chosen>>

(* The loop's other work, before it sleeps.  A STOP with no run and no     *)
(* preparation: abort_tx_artifact().                                       *)
StopAborts ==
  /\ task = "wait" /\ ~playing
  /\ \E held \in Held :
       tx' = IF tx.state \in {"receiving", "generating"} THEN FailJob(tx, held)
             ELSE IF tx.cleanup THEN CloseFiles(tx, held) ELSE tx
  /\ UNCHANGED <<card, slot, response, dropped, task, current, noted, playing, usb, asked, media, chosen>>

(* A PLAY is refused while the owner is busy or the card is the host's.    *)
(* The USB task that submitted it waits for the answer, so it is not at a  *)
(* MEDIA line; a run ends in the same loop.                                *)
PlayCommand ==
  /\ task = "wait" /\ ~playing /\ media = "local" /\ ~TxBusy /\ usb # "granted"
  /\ playing' = TRUE
  /\ UNCHANGED <<tx, card, slot, response, dropped, task, current, noted, usb, asked, media, chosen>>

RunEnds ==
  /\ task = "wait" /\ playing
  /\ playing' = FALSE
  /\ UNCHANGED <<tx, card, slot, response, dropped, task, current, noted, usb, asked, media, chosen>>

(* ulTaskNotifyTake(): a millisecond at most when there is work, else      *)
(* until a notification, which may have come before.                       *)
Sleep ==
  /\ task = "wait"
  /\ task' = IF TxBusy \/ playing THEN "service" ELSE "asleep"
  /\ noted' = (noted /\ task' = "asleep")
  /\ UNCHANGED <<tx, card, slot, response, dropped, current, playing, usb, asked, media, chosen>>

WakeUp ==
  /\ task = "asleep" /\ noted
  /\ task' = "service" /\ noted' = FALSE
  /\ UNCHANGED <<tx, card, slot, response, dropped, current, playing, usb, asked, media, chosen>>

(* Power fails: at any step of a publication too.  What was not synced may *)
(* be lost or cut short, and every task starts again.                      *)
Cut(v) == IF v \in {"partial", "whole"} THEN {"absent", "partial"} ELSE {v}

Lost(f) ==
  {[BIN |-> n, WAV |-> f.WAV, TMP |-> t, JSON |-> f.JSON, JMP |-> j] :
     n \in IF tx.state = "receiving" THEN 0..f.BIN ELSE {f.BIN}, t \in Cut(f.TMP), j \in Cut(f.JMP)}

PowerCut ==
  /\ \E f \in IF task = "generate" /\ tx.written + 1 = Blocks
              THEN {PublishSteps([card[tx.name] EXCEPT !.TMP = "whole"])[k] : k \in 1..6} ELSE {card[tx.name]} :
       \E g \in Lost(f) : card' = [card EXCEPT ![tx.name] = g]
  /\ tx' = NewOwner
  /\ slot' = NoRequest /\ current' = NoRequest /\ response' = NoReply /\ dropped' = FALSE
  /\ task' = "service" /\ noted' = FALSE /\ playing' = FALSE /\ usb' = "idle" /\ asked' = NoRequest
  /\ chosen' = DefaultChoice /\ UNCHANGED media

UploadInit ==
  /\ tx = NewOwner /\ card \in [Names -> Found]
  /\ slot = NoRequest /\ response = NoReply /\ current = NoRequest /\ asked = NoRequest
  /\ dropped = FALSE /\ noted = FALSE /\ playing = FALSE
  /\ task = "service" /\ usb = "idle" /\ media \in {"local", "host"}
  /\ chosen = DefaultChoice

ServiceTx == ServeDisconnect \/ TakeRequest \/ ServeRequest \/ Respond \/ NothingAsked \/ Generate

OwnerNext == ServiceTx \/ Sleep \/ WakeUp \/ StopAborts \/ PlayCommand \/ RunEnds

UsbTxNext ==
  \/ \E r \in Requests : Ask(r) \/ KeepAsking(r)
  \/ Resubmit \/ TakeTxReply \/ DisconnectTx \/ AllowHost \/ HandToHost \/ BackToLocal

UploadNext == OwnerNext \/ UsbTxNext \/ PowerCut

(* The player task goes on, and the USB task polls its pending request.    *)
UploadSpec ==
  /\ UploadInit /\ [][UploadNext]_txVars
  /\ WF_txVars(ServiceTx) /\ WF_txVars(Sleep) /\ WF_txVars(WakeUp) /\ WF_txVars(Resubmit) /\ WF_txVars(TakeTxReply)

-----------------------------------------------------------------------------
(* Properties.                                                             *)

(* A manifest under its final name stands beside a WAV that is whole and   *)
(* synced, at every instant: after failed renames, an abort, a disconnect  *)
(* or a power failure inside publish_artifact() too.                       *)
ManifestMeansWhole ==
  \A n \in Names : card[n].JSON = "sealed" => card[n].WAV = "sealed"

(* The card has one user: while the owner has it mounted it is local, not  *)
(* about to be handed over, and no run plays from it, although the USB     *)
(* task checks and acts in separate critical sections and a cleanup may    *)
(* fail in the middle.                                                     *)
UploadOwnsCard ==
  tx.mounted \/ tx.open # {} => tx.mounted /\ media = "local" /\ usb # "granted" /\ ~playing

(* A reply belongs to the request that waits for it: never to one of an    *)
(* earlier connection that was served after it ended.                      *)
ReplyIsCurrent == usb = "waiting" /\ response # NoReply => response.live

(* A generation runs with what was chosen last: the encoder and profile of *)
(* its own ENCODE line, else the default encoder in the mode of the last   *)
(* line that gave one.  Neither the explicit settings nor the profile that *)
(* an earlier generation filled in outlive a RESET, MODE, SELECT or        *)
(* GENERATE, whatever was refused, failed or dropped in between.           *)
ModeIsCurrent == tx.state = "generating" => tx.used = RunsWith(chosen)

(* A pending request is answered or its connection ends: the mailbox never *)
(* stays closed, and the player never sleeps through a request.            *)
RequestAnswered == usb \in {"asking", "waiting"} ~> usb = "idle"

-----------------------------------------------------------------------------
(* The inductive invariant that the proofs use.                            *)

OwnerType ==
  [state : {"idle", "receiving", "generating", "complete", "failed"}, bytes : 0..MaxUpload, written : 0..Blocks,
   name : Names, input : Names, rate : Rates \cup {NoRate}, encoder : Encoders \cup {""},
   profile : Profiles \cup Rates \cup {NoRate, ""}, used : Settings,
   open : SUBSET {"payload", "output", "manifest"}, mounted : BOOLEAN, cleanup : BOOLEAN]

Served == [r : Request \cup {NoRequest}, live : BOOLEAN]
Waiting == [r : Request, live : BOOLEAN]
Reply == [kind : {"reply"}, live : BOOLEAN]

UploadTypeOK ==
  /\ tx \in OwnerType /\ card \in [Names -> Files]
  /\ slot \in Waiting \cup {NoRequest} /\ current \in Served \cup {NoRequest} /\ response \in Reply \cup {NoReply}
  /\ dropped \in BOOLEAN /\ noted \in BOOLEAN /\ playing \in BOOLEAN
  /\ task \in {"service", "serve", "respond", "generate", "wait", "asleep"}
  /\ usb \in {"idle", "asking", "waiting", "granted"} /\ media \in {"local", "host"}
  /\ chosen \in Choice
  /\ asked \in Request \cup {NoRequest} /\ (usb = "asking" => asked \in Request)

(* The handles, the volume and the sizes that go with a state.             *)
StateFits(t) ==
  /\ t.open # {} => t.mounted
  /\ t.state = "idle" => t.open = {} /\ t.bytes = 0
  /\ t.state \in {"idle", "receiving"} => t.name = t.input
  /\ t.state = "receiving" => t.open = {"payload"}
  /\ t.state = "generating" => t.open = {"payload", "output"} /\ t.written < Blocks
  /\ t.state \in {"receiving", "generating"} => ~t.cleanup

(* The settings are those chosen, h, but for the profile of the mode,      *)
(* which a generation may have filled in.                                  *)
SettingsFit(t, h) ==
  /\ t.rate = h.rate /\ t.encoder = h.encoder
  /\ t.profile = h.profile \/ (h.profile = "" /\ t.profile = h.rate)

ProfileFits(t, h) ==
  SettingsFit(t, h) /\ (t.state = "generating" => t.used = RunsWith(h))

(* The card under an owner: a payload as long as what was received, and    *)
(* a generation whose names are free but for the file it writes.           *)
CardFits(t, c) ==
  /\ t.state = "receiving" => c[t.name].BIN = t.bytes
  /\ t.state = "generating" =>
       c[t.name].WAV = "absent" /\ c[t.name].JSON = "absent" /\ c[t.name].JMP = "absent"

ManifestsWhole(c) == \A n \in Names : c[n].JSON = "sealed" => c[n].WAV = "sealed"

(* What every operation of the owner keeps, of the owner and the files.    *)
OwnerFits(t, c, h) ==
  t \in OwnerType /\ c \in [Names -> Files] /\ StateFits(t) /\ ProfileFits(t, h) /\ CardFits(t, c) /\ ManifestsWhole(c)

(* The request being served is where the player task is.                   *)
TaskFits ==
  /\ task = "serve" => current \in Waiting
  /\ task = "respond" => current \in Served
  /\ task \notin {"serve", "respond"} => current = NoRequest
  /\ task = "generate" => tx.state = "generating"

(* The card that the USB task may hand over has no user and cannot get one.*)
GrantFits ==
  /\ usb = "granted" => /\ media = "local" /\ ~playing
                        /\ slot = NoRequest /\ current = NoRequest
                        /\ ~tx.mounted /\ tx.open = {}

(* What is under way is the connection's, or a disconnect waits.           *)
MailFits ==
  /\ usb = "waiting" => ~dropped
  /\ slot # NoRequest => slot.live \/ dropped
  /\ current # NoRequest => current.live \/ dropped
  /\ usb = "waiting" /\ response # NoReply => response.live

UploadInv ==
  /\ UploadTypeOK /\ OwnerFits(tx, card, chosen) /\ TaskFits /\ GrantFits /\ MailFits /\ UploadOwnsCard
=============================================================================
