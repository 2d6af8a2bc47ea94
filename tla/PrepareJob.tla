----------------------------- MODULE PrepareJob -----------------------------
(***************************************************************************)
(* PrepareJob (rt1170/prepare_job.cpp): the step machine that renders a    *)
(* source WAV through a scenario into OUT.TMP, verifies it, and publishes  *)
(* it as OUT.WAV and then OUT.JSN on the SD card.                          *)
(*                                                                         *)
(* The object is one record j that also holds the five names the job may   *)
(* touch on the card.  A method is an operator from j and the outcome of   *)
(* the file-system or engine call it makes to a result: the record after   *)
(* the call and the StatusCode it returns.  Statuses are their codes.      *)
(*                                                                         *)
(* The cursors over files (hash_cursor_, scenario_cursor_,                 *)
(* path_check_index_, verified_file_bytes_, manifest_cursor_) are each     *)
(* reset where their loop starts and read only in it: j.at stands for all. *)
(* output_frames_ equals rendered_frames_ from output_create on.           *)
(***************************************************************************)
EXTENDS Integers

CONSTANTS
  Requests,  \* what PREPARE may ask for: [frames, slip, second, sound]
  Block,     \* signal_lab::engine_block_frames
  Chunks     \* io_chunk_bytes chunks in a file that is hashed or written

RequestType ==
  [frames: Nat,     \* frames of the source WAV
   slip: BOOLEAN,   \* the scenario has a sample_slip stage
   second: BOOLEAN, \* the scenario has a second_source stage
   sound: BOOLEAN]  \* names and resources pass the admission checks

ASSUME RequestsAssumption == Requests \subseteq RequestType
ASSUME BlockAssumption    == Block \in Nat \ {0}
ASSUME ChunksAssumption   == Chunks \in Nat \ {0}

Phase ==
  {"idle", "starting", "hashing_source", "hashing_secondary", "calibrating",
   "rendering", "verifying", "publishing", "complete", "cancelled", "failed",
   "cleanup_failed"}

Work ==
  {"idle", "mount", "source_open", "source_hash", "scenario_open",
   "scenario_read", "scenario_close", "scenario_parse", "path_checks",
   "secondary_hash_open", "secondary_hash", "secondary_hash_close",
   "secondary_open", "secondary_measure", "secondary_close", "configure",
   "output_create", "render_read_decode", "render_process_pack",
   "render_append", "output_finish", "output_sync", "output_close",
   "source_close", "verify_open", "verify_header", "verify_file",
   "verify_close", "manifest_create", "manifest_write", "manifest_sync",
   "manifest_close", "publish_wav", "publish_manifest", "cleanup", "terminal"}

(* The work states that walk a file chunk by chunk.                        *)
Loops == {"source_hash", "scenario_read", "secondary_hash", "secondary_measure",
          "verify_file", "manifest_write"}

Rendering == {"render_read_decode", "render_process_pack", "render_append"}

(* What the *_open_, mounted_ and engine_configured_ flags track.          *)
Resource == {"mount", "source", "work", "output", "manifest", "secondary", "engine"}

(* OUT.WAV, OUT.TMP, OUT.JSN, OUT.JMP and OUT.SCN, in path_check order.    *)
Paths == <<"WAV", "TMP", "JSN", "JMP", "SCN">>
Name  == {"WAV", "TMP", "JSN", "JMP", "SCN"}

(* A file is foreign when the job did not make it; partial until its last  *)
(* byte is written, finished until it is flushed, then sealed.  A corrupt  *)
(* file differs from what was rendered although no write reported it.      *)
Content == {"absent", "foreign", "partial", "finished", "sealed", "corrupt"}

(* How a call into FatFs or the engine can end: it works, fails without    *)
(* effect, fails after its effect reached the card, refuses its input,     *)
(* writes the wrong bytes, or yields one frame fewer or more (sample slip).*)
Outcome == {"ok", "fail", "late", "reject", "corrupt", "fewer", "more"}

NoRequest == [frames |-> 0, slip |-> FALSE, second |-> FALSE, sound |-> FALSE]

NewJob(card) ==
  [work |-> "idle", phase |-> "idle", status |-> "ok",
   failure |-> "ok", terminal |-> "idle",
   managed |-> FALSE, cancel |-> FALSE, published |-> FALSE,
   open |-> {}, ask |-> NoRequest, at |-> 0,
   source |-> 0, input |-> 0, rendered |-> 0, produced |-> 0,
   request |-> 0, blockIn |-> 0, blockOut |-> 0,
   writer |-> "idle", bound |-> FALSE, sinkOk |-> TRUE, committed |-> 0,
   card |-> card]

Busy(j) == j.work \notin {"idle", "terminal"} \/ j.open # {}

Return(j, status) == [job |-> j, ret |-> status]
Ok(j)             == Return(j, "ok")
Go(j, work)       == Ok([j EXCEPT !.work = work])

-----------------------------------------------------------------------------
(* begin() and begin_managed().                                            *)

(* The members every begin_internal() resets; the writer, the sink and the *)
(* card keep what the previous job left.                                   *)
ResetJob(j, ask) ==
  [NewJob(j.card) EXCEPT !.ask = ask, !.writer = j.writer, !.bound = j.bound,
                         !.sinkOk = j.sinkOk, !.committed = j.committed]

BeginInternal(j, ask, managed) ==
  IF Busy(j) THEN Return(j, "busy")
  ELSE IF ~ask.sound
       THEN Return([ResetJob(j, ask) EXCEPT !.phase = "failed", !.status = "invalid_argument",
                                            !.work = "terminal"], "invalid_argument")
  ELSE Ok([ResetJob(j, ask) EXCEPT !.phase = "starting", !.managed = managed, !.work = "mount"])

-----------------------------------------------------------------------------
(* fail() and the sinks it reports.                                        *)

FailWith(j, status) ==
  LET first == j.failure = "ok"
      cause == IF first THEN status ELSE j.failure
  IN  Return([j EXCEPT !.failure = cause, !.terminal = IF first THEN "failed" ELSE @,
                       !.status = cause, !.work = "cleanup"], status)

Fault(j) == FailWith(j, "io_error")

Opened(j, r)  == [j EXCEPT !.open = @ \cup {r}]
Closed(j, r)  == [j EXCEPT !.open = @ \ {r}]
Put(j, n, c)  == [j EXCEPT !.card[n] = c]

Flushed(content) == IF content = "finished" THEN "sealed" ELSE content
Finished(content) == IF content = "partial" THEN "finished" ELSE content

(* A step that reads a chunk, or moves on once the whole file is read.     *)
ChunkLoop(j, out, next) ==
  IF j.at = Chunks THEN Go(j, next)
  ELSE IF out # "ok" THEN Fault(j)
  ELSE Ok([j EXCEPT !.at = @ + 1])

(* A step that closes r (f_close, which flushes the file behind r too).    *)
CloseThen(j, out, r, next) ==
  IF r \in j.open /\ out # "ok" THEN Fault(j) ELSE Go(Closed(j, r), next)

-----------------------------------------------------------------------------
(* Inputs: mount, source, scenario, secondary.                             *)

MountStep(j, out) ==
  LET m == Opened(j, "mount")
  IN  IF out # "ok" THEN Fault(m) ELSE Go(m, "source_open")

(* A failed read inside the WAV validator is latched by                    *)
(* read_source_callback before fail() sees it, so terminal stays idle.     *)
OpenSourceStep(j, out) ==
  LET s == Opened(j, "source")
  IN  CASE out = "fail"   -> Fault(j)
        [] out = "late"   -> Fault([s EXCEPT !.failure = "io_error"])
        [] out = "reject" -> FailWith(s, "invalid_configuration")
        [] OTHER -> Go([s EXCEPT !.source = j.ask.frames, !.at = 0, !.phase = "hashing_source"],
                       "source_hash")

OpenScenarioStep(j, out) ==
  LET s == Opened(j, "work")
  IN  CASE out = "fail"   -> Fault(j)
        [] out = "reject" -> FailWith(s, "invalid_argument")
        [] OTHER -> Go([s EXCEPT !.at = 0], "scenario_read")

ParseScenarioStep(j, out) ==
  IF out = "reject" \/ (j.managed /\ j.ask.slip) THEN FailWith(j, "invalid_configuration")
  ELSE Go([j EXCEPT !.at = 0], "path_checks")

PathCheckStep(j, out) ==
  IF j.at = 5 THEN Go(j, IF j.ask.second THEN "secondary_hash_open" ELSE "configure")
  ELSE IF out # "ok" THEN Fault(j)
  ELSE IF j.card[Paths[j.at + 1]] # "absent" THEN FailWith(j, "invalid_argument")
  ELSE Ok([j EXCEPT !.at = @ + 1])

HashSecondaryOpenStep(j, out) ==
  IF out # "ok" THEN Fault(j)
  ELSE Go([Opened(j, "work") EXCEPT !.at = 0, !.phase = "hashing_secondary"], "secondary_hash")

SecondaryOpenStep(j, out) ==
  LET s == Opened(j, "secondary")
  IN  IF out # "ok" THEN Fault(s)
      ELSE Go([s EXCEPT !.phase = "calibrating", !.at = 0], "secondary_measure")

ConfigureStep(j, out) ==
  LET e == [Opened(j, "engine") EXCEPT !.phase = IF @ = "calibrating" THEN @ ELSE "starting"]
  IN  IF out = "reject" THEN FailWith(e, "invalid_configuration") ELSE Go(e, "output_create")

-----------------------------------------------------------------------------
(* Rendering into OUT.TMP.                                                 *)

WriterFailed(j) == [j EXCEPT !.writer = "failed"]

(* f_open(CREATE_NEW), sink_.bind(), writer_.begin().                      *)
OutputCreateStep(j, out) ==
  LET made  == Put(j, "TMP", "partial")
      bound == [Opened(made, "output") EXCEPT !.bound = TRUE, !.sinkOk = TRUE, !.committed = 0]
      ready == [bound EXCEPT !.writer = "active", !.phase = "rendering", !.input = 0,
                             !.blockIn = 0, !.blockOut = 0]
  IN  IF j.card["TMP"] # "absent" \/ out = "fail" THEN Fault(j)
      ELSE IF out = "late" THEN Fault(made)
      ELSE IF j.bound THEN FailWith(Opened(made, "output"), "busy")
      ELSE IF j.writer = "active" THEN FailWith(bound, "invalid_configuration")
      ELSE IF out = "reject" THEN Fault([WriterFailed(bound) EXCEPT !.sinkOk = FALSE])
      ELSE Go(ready, "render_read_decode")

RenderReadDecodeStep(j, out) ==
  LET frames == IF j.managed THEN j.request
                ELSE IF Block <= j.source - j.input THEN Block ELSE j.source - j.input
  IN  IF j.input = j.source THEN Go(j, "output_finish")
      ELSE IF out # "ok" THEN Fault(j)
      ELSE Go([j EXCEPT !.blockIn = frames, !.blockOut = 0], "render_process_pack")

(* What Engine::process makes of a block.                                  *)
EngineFrames(j, out) ==
  j.blockIn + (IF ~j.ask.slip THEN 0 ELSE IF out = "more" THEN 1 ELSE IF out = "fewer" THEN -1 ELSE 0)

RenderProcessPackStep(j, out) ==
  IF j.blockIn = 0 THEN FailWith(j, "invalid_argument")
  ELSE IF out = "reject" THEN FailWith(j, "invalid_configuration")
  ELSE IF j.managed /\ EngineFrames(j, out) # j.blockIn THEN FailWith(j, "invalid_configuration")
  ELSE Go([j EXCEPT !.blockOut = EngineFrames(j, out)], "render_append")

RenderAppendStep(j, out) ==
  IF j.input > j.source \/ j.blockIn = 0 \/ j.blockIn > j.source - j.input
  THEN FailWith(j, "invalid_argument")
  ELSE IF j.writer # "active" THEN FailWith(j, "invalid_configuration")
  ELSE IF j.blockOut > 0 /\ (~j.bound \/ ~j.sinkOk \/ out \in {"fail", "late"})
       THEN Fault([WriterFailed(j) EXCEPT !.sinkOk = FALSE])
  ELSE Go([j EXCEPT !.input = @ + j.blockIn, !.rendered = @ + j.blockOut,
                    !.blockIn = 0, !.blockOut = 0,
                    !.card["TMP"] = IF out = "corrupt" THEN "corrupt" ELSE @],
          "render_read_decode")

(* A faulty form: the frames produced, not those written, count as synced. *)
CommitFramesProduced(j, out) ==
  IF ~j.bound THEN Return(j, "unavailable")
  ELSE IF ~j.sinkOk THEN Return(j, "io_error")
  ELSE IF out # "ok" THEN Return([j EXCEPT !.sinkOk = FALSE], "io_error")
  ELSE Ok([j EXCEPT !.committed = j.produced, !.card["TMP"] = Flushed(@)])

(* sink_.commit_frames(rendered_frames_).                                  *)
CommitFrames(j, out) ==
  IF ~j.bound THEN Return(j, "unavailable")
  ELSE IF ~j.sinkOk THEN Return(j, "io_error")
  ELSE IF j.rendered < j.committed THEN Return(j, "invalid_argument")
  ELSE IF out # "ok"
       THEN Return([j EXCEPT !.sinkOk = FALSE,
                             !.card["TMP"] = IF out = "late" THEN Flushed(@) ELSE @], "io_error")
  ELSE Ok([j EXCEPT !.committed = j.rendered, !.card["TMP"] = Flushed(@)])

DetachEngine(j) == Closed(j, "engine")

FinishOutputStep(j, out) ==
  IF j.writer # "active" THEN FailWith(j, "invalid_configuration")
  ELSE IF ~j.bound \/ ~j.sinkOk \/ out \in {"fail", "late"}
       THEN Fault([WriterFailed(j) EXCEPT !.sinkOk = FALSE,
                                          !.card["TMP"] = IF out = "late" THEN Finished(@) ELSE @])
  ELSE Go([DetachEngine(j) EXCEPT !.writer = "complete", !.phase = "verifying",
             !.card["TMP"] = IF out = "corrupt" THEN "corrupt" ELSE Finished(@)],
          IF "secondary" \in j.open THEN "secondary_close" ELSE "output_sync")

OutputSyncStep(j, out) ==
  LET c == CommitFrames(j, out)
  IN  IF c.ret = "ok" THEN Go(c.job, "output_close") ELSE FailWith(c.job, c.ret)

CloseOutput(j, out) ==
  IF "output" \in j.open /\ out # "ok" THEN Return(j, "io_error")
  ELSE Ok([Closed(j, "output") EXCEPT !.bound = FALSE, !.card["TMP"] = Flushed(@),
                                      !.writer = IF @ = "active" THEN "cancelled" ELSE @])

OutputCloseStep(j, out) ==
  LET c == CloseOutput(j, out)
  IN  IF c.ret = "ok" THEN Go(c.job, "source_close") ELSE FailWith(c.job, c.ret)

-----------------------------------------------------------------------------
(* Verification, manifest, publication.                                    *)

VerifyOpenStep(j, out) ==
  LET w == Opened(j, "work")
  IN  IF j.card["TMP"] = "absent" \/ out \in {"fail", "late"} THEN Fault(j)
      ELSE IF out = "reject" THEN Fault(w)
      ELSE Go([w EXCEPT !.phase = "verifying"], "verify_header")

VerifyHeaderStep(j, out) ==
  IF out # "ok" THEN Fault(j) ELSE Go([j EXCEPT !.at = 0], "verify_file")

VerifyFileStep(j, out) ==
  IF j.at = Chunks /\ j.card["TMP"] = "corrupt" THEN Fault(j)
  ELSE ChunkLoop(j, out, "verify_close")

ManifestCreateStep(j, out) ==
  LET made == Put(j, "JMP", "partial")
  IN  IF out = "reject" THEN FailWith(j, "buffer_too_small")
      ELSE IF j.card["JMP"] # "absent" \/ out = "fail" THEN Fault(j)
      ELSE IF out = "late" THEN Fault(made)
      ELSE Go([Opened(made, "manifest") EXCEPT !.at = 0, !.phase = "publishing"], "manifest_write")

ManifestWriteStep(j, out) ==
  IF j.at = Chunks THEN Go(j, "manifest_sync")
  ELSE IF out # "ok" THEN Fault(j)
  ELSE Ok([j EXCEPT !.at = @ + 1, !.card["JMP"] = IF j.at + 1 = Chunks THEN Finished(@) ELSE @])

ManifestSyncStep(j, out) ==
  LET synced == Put(j, "JMP", Flushed(j.card["JMP"]))
  IN  CASE out = "ok"   -> Go(synced, "manifest_close")
        [] out = "late" -> Fault(synced)
        [] OTHER -> Fault(j)

CloseManifest(j, out) ==
  IF "manifest" \in j.open /\ out # "ok" THEN Return(j, "io_error")
  ELSE Ok(Put(Closed(j, "manifest"), "JMP", Flushed(j.card["JMP"])))

ManifestCloseStep(j, out) ==
  LET c == CloseManifest(j, out)
  IN  IF c.ret = "ok" THEN Go(c.job, "publish_wav") ELSE FailWith(c.job, c.ret)

(* f_rename: refuses a target that exists.                                 *)
CanRename(j, from, to) == j.card[from] # "absent" /\ j.card[to] = "absent"
Renamed(j, from, to)   == [j EXCEPT !.card[to] = j.card[from], !.card[from] = "absent"]

(* A faulty form: the manifest is published first.                         *)
PublishManifestFirst(j, out) ==
  LET from == IF j.work = "publish_wav" THEN "JMP" ELSE "TMP"
      to   == IF j.work = "publish_wav" THEN "JSN" ELSE "WAV"
  IN  IF ~CanRename(j, from, to) \/ out \notin {"ok", "late"} THEN Fault(j)
      ELSE IF out = "late" THEN Fault(Renamed(j, from, to))
      ELSE IF j.work = "publish_wav" THEN Go(Renamed(j, from, to), "publish_manifest")
      ELSE Ok([Renamed(j, from, to) EXCEPT !.published = TRUE, !.terminal = "complete",
                                          !.failure = "ok", !.work = "cleanup"])

PublishStep(j, out) ==
  LET from == IF j.work = "publish_wav" THEN "TMP" ELSE "JMP"
      to   == IF j.work = "publish_wav" THEN "WAV" ELSE "JSN"
  IN  IF ~CanRename(j, from, to) \/ out \notin {"ok", "late"} THEN Fault(j)
      ELSE IF out = "late" THEN Fault(Renamed(j, from, to))
      ELSE IF j.work = "publish_wav" THEN Go(Renamed(j, from, to), "publish_manifest")
      ELSE Ok([Renamed(j, from, to) EXCEPT !.published = TRUE, !.terminal = "complete",
                                          !.failure = "ok", !.work = "cleanup"])

-----------------------------------------------------------------------------
(* cleanup_step(): one close per call, in this order, then the end.        *)

CleanupNext(j) ==
  IF "secondary" \in j.open THEN "secondary"
  ELSE IF "manifest" \in j.open THEN "manifest"
  ELSE IF "output" \in j.open THEN "output"
  ELSE IF "work" \in j.open THEN "work"
  ELSE IF "source" \in j.open THEN "source"
  ELSE "mount"

CleanupClose(j, out) ==
  LET r == CleanupNext(j)
  IN  IF r = "manifest" THEN CloseManifest(j, out)
      ELSE IF r = "output" THEN CloseOutput(j, out)
      ELSE IF out # "ok" THEN Return(j, "io_error")
      ELSE Ok(Closed(j, r))

CleanupFailed(j, status) ==
  LET replace == j.failure = "ok" \/ j.terminal = "cancelled"
  IN  Return([j EXCEPT !.failure = IF replace THEN status ELSE @,
                       !.terminal = IF replace THEN "failed" ELSE @,
                       !.phase = "cleanup_failed", !.status = status], status)

CleanupEnd(j) ==
  Return([j EXCEPT !.phase = IF j.terminal = "idle" THEN "failed" ELSE j.terminal,
                   !.status = j.failure, !.work = "terminal"], j.failure)

(* A faulty form: every failed close becomes the job's failure.            *)
CleanupStepLastFailure(j, out) ==
  LET d == DetachEngine(j)
      c == CleanupClose(d, out)
  IN  IF d.open = {} THEN CleanupEnd(d)
      ELSE IF c.ret = "ok" THEN c
      ELSE CleanupFailed([c.job EXCEPT !.failure = "ok"], c.ret)

CleanupStep(j, out) ==
  LET d == DetachEngine(j)
      c == CleanupClose(d, out)
  IN  IF d.open = {} THEN CleanupEnd(d)
      ELSE IF c.ret = "ok" THEN c
      ELSE CleanupFailed(c.job, c.ret)

-----------------------------------------------------------------------------
(* step(): advance() and the dispatch functions under it.                  *)

Advance(j, out) ==
  CASE j.work = "mount"                -> MountStep(j, out)
    [] j.work = "source_open"          -> OpenSourceStep(j, out)
    [] j.work = "source_hash"          -> ChunkLoop(j, out, "scenario_open")
    [] j.work = "scenario_open"        -> OpenScenarioStep(j, out)
    [] j.work = "scenario_read"        -> ChunkLoop(j, out, "scenario_close")
    [] j.work = "scenario_close"       -> CloseThen(j, out, "work", "scenario_parse")
    [] j.work = "scenario_parse"       -> ParseScenarioStep(j, out)
    [] j.work = "path_checks"          -> PathCheckStep(j, out)
    [] j.work = "secondary_hash_open"  -> HashSecondaryOpenStep(j, out)
    [] j.work = "secondary_hash"       -> ChunkLoop(j, out, "secondary_hash_close")
    [] j.work = "secondary_hash_close" -> CloseThen(j, out, "work", "secondary_open")
    [] j.work = "secondary_open"       -> SecondaryOpenStep(j, out)
    [] j.work = "secondary_measure"    -> ChunkLoop(j, out, "configure")
    [] j.work = "configure"            -> ConfigureStep(j, out)
    [] j.work = "output_create"        -> OutputCreateStep(j, out)
    [] j.work = "render_read_decode"   -> RenderReadDecodeStep(j, out)
    [] j.work = "render_process_pack"  -> RenderProcessPackStep(j, out)
    [] j.work = "render_append"        -> RenderAppendStep(j, out)
    [] j.work = "output_finish"        -> FinishOutputStep(j, out)
    [] j.work = "secondary_close"      -> CloseThen(j, out, "secondary", "output_sync")
    [] j.work = "output_sync"          -> OutputSyncStep(j, out)
    [] j.work = "output_close"         -> OutputCloseStep(j, out)
    [] j.work = "source_close"         -> CloseThen(j, out, "source", "verify_open")
    [] j.work = "verify_open"          -> VerifyOpenStep(j, out)
    [] j.work = "verify_header"        -> VerifyHeaderStep(j, out)
    [] j.work = "verify_file"          -> VerifyFileStep(j, out)
    [] j.work = "verify_close"         -> CloseThen(j, out, "work", "manifest_create")
    [] j.work = "manifest_create"      -> ManifestCreateStep(j, out)
    [] j.work = "manifest_write"       -> ManifestWriteStep(j, out)
    [] j.work = "manifest_sync"        -> ManifestSyncStep(j, out)
    [] j.work = "manifest_close"       -> ManifestCloseStep(j, out)
    [] j.work = "publish_wav"          -> PublishStep(j, out)
    [] j.work = "publish_manifest"     -> PublishStep(j, out)
    [] j.work = "cleanup"              -> CleanupStep(j, out)

(* A faulty form: a step takes no notice of the cancel.                    *)
CancellingIgnored(j) == j

(* A requested cancel turns the next step into the first of cleanup.       *)
Cancelling(j) ==
  IF j.cancel /\ j.work # "cleanup" /\ ~j.published
  THEN [j EXCEPT !.terminal = "cancelled", !.failure = "unavailable", !.work = "cleanup"]
  ELSE j

JobStep(j, out) ==
  LET c == Cancelling(j)
  IN  IF j.work = "idle" THEN Return(j, "unavailable")
      ELSE IF j.work = "terminal" THEN Return(j, j.status)
      ELSE IF c.managed /\ c.phase = "rendering" /\ c.work \in Rendering THEN Return(c, "busy")
      ELSE Advance(c, out)

(* A faulty form: a cancel during cleanup rewrites how the job ended.      *)
JobCancelWins(j) ==
  IF ~Busy(j) THEN Return(j, "unavailable")
  ELSE Ok([j EXCEPT !.cancel = TRUE,
                    !.terminal = IF j.work = "cleanup" THEN "cancelled" ELSE @,
                    !.failure = IF j.work = "cleanup" THEN "unavailable" ELSE @])

JobCancel(j) ==
  IF ~Busy(j) \/ (j.published /\ j.work # "cleanup") THEN Return(j, "unavailable")
  ELSE Ok([j EXCEPT !.cancel = TRUE,
                    !.phase = IF j.work = "cleanup" /\ @ = "cleanup_failed" THEN "starting" ELSE @])

-----------------------------------------------------------------------------
(* The managed render: the owner says when each block is produced,         *)
(* written, made durable and read back.                                    *)

Renders(j) == j.phase = "rendering" /\ ~j.cancel /\ j.work # "cleanup"

ProduceStep(j, frames, out) ==
  LET packed == RenderProcessPackStep(j, out)
  IN  IF ~j.managed \/ ~Renders(j) THEN Return(j, "unavailable")
      ELSE IF frames = 0 \/ frames > Block \/ frames > j.source - j.input THEN Return(j, "invalid_argument")
      ELSE IF j.work = "render_read_decode"
           THEN LET read == RenderReadDecodeStep([j EXCEPT !.request = frames], out)
                IN  IF read.ret = "ok" THEN Return(read.job, "busy") ELSE read
      ELSE IF j.work # "render_process_pack" \/ j.request # frames THEN Return(j, "invalid_argument")
      ELSE IF packed.ret # "ok" THEN packed
      ELSE Ok([packed.job EXCEPT !.produced = j.rendered + packed.job.blockOut])

AppendProduced(j, frames, out) ==
  LET r == RenderAppendStep(j, out)
  IN  IF ~j.managed \/ ~Renders(j) THEN Return(j, "unavailable")
      ELSE IF j.work # "render_append" \/ frames = 0
              \/ ~(j.request = frames /\ j.blockIn = frames /\ j.blockOut = frames)
           THEN Return(j, "invalid_argument")
      ELSE IF r.ret = "ok" THEN Ok([r.job EXCEPT !.request = 0])
      ELSE r

FinishManaged(j) ==
  IF ~j.managed \/ ~Renders(j) THEN Return(j, "unavailable")
  ELSE IF ~(j.input = j.source /\ j.produced = j.source /\ j.rendered = j.source
            /\ j.request = 0 /\ j.work = "render_read_decode")
       THEN Return(j, "invalid_argument")
  ELSE Ok([j EXCEPT !.managed = FALSE, !.work = "output_finish"])

CommitPrefix(j, out) ==
  LET c == CommitFrames(j, out)
  IN  IF ~Renders(j) \/ "output" \notin j.open THEN Return(j, "unavailable")
      ELSE IF c.ret = "ok" THEN c
      ELSE FailWith(c.job, c.ret)

(* sink_.read_frames() refuses what is not committed and latches a failed  *)
(* or short read; only the latter ends the job.                            *)
ReadPrefix(j, first, frames, out) ==
  IF ~Renders(j) \/ "output" \notin j.open THEN Return(j, "unavailable")
  ELSE IF frames = 0 \/ first + frames > j.committed THEN Return(j, "invalid_argument")
  ELSE IF out # "ok" THEN FailWith([j EXCEPT !.sinkOk = FALSE], "io_error")
  ELSE Ok(j)

-----------------------------------------------------------------------------
(* The job under any owner, on a card that can fail and lose power.        *)

VARIABLE job

vars == job

Untouched == [n \in Name |-> "absent"]

(* Cards a job may find: its names free, or one of them taken.             *)
FoundCards == {Untouched} \cup {[Untouched EXCEPT ![n] = "foreign"] : n \in Name}

Init == \E card \in FoundCards : job = NewJob(card)

Begin(ask, managed) == ~Busy(job) /\ job' = BeginInternal(job, ask, managed).job
Step(out)           == Busy(job) /\ job' = JobStep(job, out).job
Cancel              == JobCancel(job).ret = "ok" /\ job' = JobCancel(job).job
Produce(n, out)     == job.managed /\ Renders(job) /\ job' = ProduceStep(job, n, out).job
Append(n, out)      == job.managed /\ Renders(job) /\ job' = AppendProduced(job, n, out).job
Finish              == FinishManaged(job).ret = "ok" /\ job' = FinishManaged(job).job
Commit(out)         == Renders(job) /\ job' = CommitPrefix(job, out).job
Read(out)           == job.committed > 0 /\ Renders(job) /\ job' = ReadPrefix(job, 0, 1, out).job

(* What a power failure leaves of a file that was not flushed.             *)
Torn(content) ==
  CASE content = "partial"  -> {"absent", "partial"}
    [] content = "finished" -> {"absent", "partial", "sealed"}
    [] OTHER -> {content}

PowerFailure ==
  \E wav \in Torn(job.card["WAV"]), tmp \in Torn(job.card["TMP"]),
     jsn \in Torn(job.card["JSN"]), jmp \in Torn(job.card["JMP"]) :
    job' = NewJob([job.card EXCEPT !["WAV"] = wav, !["TMP"] = tmp,
                                   !["JSN"] = jsn, !["JMP"] = jmp])

(* While no job owns the card its user may clear or replace the names.     *)
UserFiles == ~Busy(job) /\ \E card \in FoundCards : job' = [job EXCEPT !.card = card]

JobOps ==
  \/ \E ask \in Requests, managed \in BOOLEAN : Begin(ask, managed)
  \/ Cancel
  \/ \E n \in 0 .. Block, out \in Outcome : Produce(n, out) \/ Append(n, out)
  \/ Finish
  \/ \E out \in Outcome : Commit(out) \/ Read(out)

AnyStep == \E out \in Outcome : Step(out)

Next == JobOps \/ AnyStep \/ PowerFailure \/ UserFiles

(* player_task_entry() calls step() again every millisecond while the job  *)
(* is busy and its cleanup has not failed: a step is never put off forever.*)
Spec == Init /\ [][Next]_vars /\ WF_vars(AnyStep)

-----------------------------------------------------------------------------
(* Invariants.                                                             *)

Statuses == {"ok", "io_error", "invalid_argument", "invalid_configuration",
             "buffer_too_small", "unavailable", "busy"}

JobType ==
  [work: Work, phase: Phase, status: Statuses, failure: Statuses,
   terminal: {"idle", "complete", "cancelled", "failed"},
   managed: BOOLEAN, cancel: BOOLEAN, published: BOOLEAN,
   open: SUBSET Resource, ask: RequestType, at: Nat,
   source: Nat, input: Nat, rendered: Nat, produced: Nat,
   request: Nat, blockIn: Nat, blockOut: Nat,
   writer: {"idle", "active", "complete", "failed", "cancelled"},
   bound: BOOLEAN, sinkOk: BOOLEAN, committed: Nat,
   card: [Name -> Content]]

(* Every member of PrepareJob keeps its type, and the cursor of each loop  *)
(* starts and stays inside the file or the path list it walks.             *)
JobTypeOK ==
  /\ job \in JobType
  /\ job.work \in Loops => job.at <= Chunks
  /\ job.work = "path_checks" => job.at <= 5

(* A manifest the job made stands for a whole, verified, flushed WAV: at   *)
(* every instant, after a power failure, after a failed or half-failed     *)
(* rename, and after any silent write error that read-back should catch.   *)
ManifestImpliesWav ==
  job.card["JSN"] \notin {"absent", "foreign"} =>
    job.card["JSN"] = "sealed" /\ job.card["WAV"] = "sealed"

(* A job that is no longer busy holds nothing: all files closed, the card  *)
(* unmounted, the engine detached, the sink unbound, and no WAV writer     *)
(* left active that would make the next job's writer_.begin() refuse.      *)
EndedHoldsNothing ==
  ~Busy(job) => job.open = {} /\ ~job.bound /\ job.writer # "active"

(* What the final phase claims is so: complete means published with        *)
(* nothing left of the temporaries and no error; cancelled means the       *)
(* manifest was never published, even when STOP races the last rename.     *)
PhaseIsTrue ==
  /\ job.work = "terminal" /\ job.phase = "complete" =>
       job.published /\ job.status = "ok" /\ job.input = job.source
  /\ job.phase = "cancelled" => ~job.published /\ job.status = "unavailable"

(* A job that writes found all five names free: "Existing names are never  *)
(* overwritten", and no companion scenario would alter the prepared WAV.   *)
WritesOnlyFreeNames ==
  job.open \cap {"engine", "output", "manifest"} # {} =>
    \A n \in Name : job.card[n] # "foreign"

(* The managed cursors agree: what is durable was rendered, what was       *)
(* rendered was produced, at most one block is in between, and the input   *)
(* read so far is exactly the output written so far.                       *)
ManagedCursors ==
  job.managed /\ job.phase = "rendering" /\ job.work \in Rendering =>
    /\ job.committed <= job.rendered
    /\ job.rendered = job.input
    /\ job.input <= job.source
    /\ job.work = "render_append" => job.produced = job.rendered + job.blockOut
    /\ job.work # "render_append" => job.produced = job.rendered
    /\ job.blockIn <= job.source - job.input

(* The failure a job ends with is its first one: later close errors do not *)
(* replace it, and only a cancellation gives way to a failed cleanup.      *)
FirstFailureKept ==
  [][ job.failure \notin {"ok", "unavailable"} /\ Busy(job) /\ job'.work # "idle" =>
        job'.failure = job.failure ]_vars

(* A cancelled job comes to rest: it ends, or it stops at a failed cleanup *)
(* that waits for the operator, however the closes behave.                 *)
CancelSettles ==
  job.cancel /\ Busy(job) ~> ~Busy(job) \/ job.phase = "cleanup_failed"

(* An unmanaged job comes to rest in the same way without being cancelled: *)
(* no work state waits for anything but the next step.                     *)
JobSettles ==
  Busy(job) /\ ~job.managed ~> ~Busy(job) \/ job.phase = "cleanup_failed"

(* What the job leaves on the card: a manifest only beside its whole WAV,  *)
(* and nothing written where a name was taken (publish, path checks).      *)
CardIsWhole == ManifestImpliesWav /\ WritesOnlyFreeNames

(* A job's end is true: it holds nothing, and its phase says what happened *)
(* (the cleanup steps and the terminal phases of PrepareJob::step()).      *)
EndIsTrue == EndedHoldsNothing /\ PhaseIsTrue

(* The cursors of a job stay in their files and agree with each other      *)
(* (the loops of step() and the managed calls between its steps).          *)
CursorsKept == JobTypeOK /\ ManagedCursors

(* A job comes to rest, by itself unless its owner drives it, and by       *)
(* cancel() always (step()).                                               *)
Rests == CancelSettles /\ JobSettles
-----------------------------------------------------------------------------
(* The inductive invariant of a job.                                       *)

(* The work states in their order: before the names are checked, from then *)
(* on until OUT.TMP is made, while it is written, and once it is whole.    *)
BeforePaths == {"mount", "source_open", "source_hash", "scenario_open", "scenario_read", "scenario_close",
                "scenario_parse"}
BeforeOutput == {"secondary_hash_open", "secondary_hash", "secondary_hash_close", "secondary_open",
                 "secondary_measure", "configure", "output_create"}
Writing == Rendering \cup {"output_finish"}
Unsynced == {"secondary_close", "output_sync"}
Unverified == {"output_close", "source_close", "verify_open", "verify_header", "verify_file"}
Manifest == {"manifest_create", "manifest_write", "manifest_sync", "manifest_close"}
Publishing == {"publish_wav", "publish_manifest"}

(* What holds of the card and of what is open whatever the job does next,  *)
(* and after a power failure.                                              *)
JobSound(j) ==
  /\ j \in JobType
  /\ j.card["WAV"] \in {"absent", "foreign", "sealed"} /\ j.card["JSN"] \in {"absent", "foreign", "sealed"}
  /\ j.card["JSN"] = "sealed" => j.card["WAV"] = "sealed"
  /\ j.open \cap {"engine", "output", "manifest"} # {} => \A n \in Name : j.card[n] # "foreign"
  /\ j.bound \/ j.writer = "active" => "output" \in j.open

(* How the job ends, and that it has not begun to before its cleanup.      *)
JobEnds(j) ==
  /\ j.work \notin {"cleanup", "terminal"} => j.failure = "ok" /\ j.terminal = "idle" /\ ~j.published
  /\ j.terminal = "complete" => j.published /\ j.failure = "ok" /\ j.input = j.source
  /\ j.terminal = "cancelled" => ~j.published /\ j.failure = "unavailable"
  /\ j.phase \in {"complete", "cancelled"} => j.work = "terminal" /\ j.terminal = j.phase /\ j.status = j.failure
  /\ j.work \in {"idle", "terminal"} => j.open = {}

(* What each work state has found or made on the card.                     *)
JobFiles(j) ==
  /\ j.work = "path_checks" => j.at <= 5 /\ \A i \in 1 .. j.at : j.card[Paths[i]] = "absent"
  /\ j.work \in BeforeOutput => \A n \in Name : j.card[n] = "absent"
  /\ j.work \in Writing \cup Unsynced \cup Unverified \cup {"verify_close"} \cup Manifest =>
       \A n \in Name : j.card[n] # "foreign"
  /\ j.work \in Writing => j.card["TMP"] \in {"partial", "corrupt"}
  /\ j.work \in Unsynced => j.card["TMP"] \in {"finished", "corrupt"}
  /\ j.work \in Unverified => j.card["TMP"] \in {"sealed", "corrupt"}
  /\ j.work \in {"verify_close", "publish_wav"} \cup Manifest => j.card["TMP"] = "sealed"
  /\ j.work = "manifest_write" => j.card["JMP"] = IF j.at = Chunks THEN "finished" ELSE "partial"
  /\ j.work = "manifest_sync" => j.card["JMP"] = "finished"
  /\ j.work \in {"manifest_close"} \cup Publishing => j.card["JMP"] = "sealed"
  /\ j.work = "publish_manifest" => j.card["WAV"] = "sealed"

(* The cursors, and what a block under way adds to them.                   *)
JobCursors(j) ==
  /\ j.work \in Loops => j.at <= Chunks
  /\ j.work \in BeforePaths \cup {"path_checks"} \cup BeforeOutput => j.rendered = 0 /\ j.produced = 0
  /\ j.phase = "rendering" => j.work \in Writing \cup {"cleanup"}
  /\ j.work \in Writing => j.phase = "rendering" /\ j.input <= j.source /\ j.committed <= j.rendered
  /\ j.work \in Rendering => j.blockIn <= j.source - j.input
  /\ j.managed /\ j.work \in Rendering =>
       /\ j.rendered = j.input
       /\ IF j.work = "render_append" THEN j.blockOut = j.blockIn /\ j.produced = j.rendered + j.blockOut
          ELSE j.produced = j.rendered
  /\ j.work \in {"output_finish", "verify_close"} \cup Unsynced \cup Unverified \cup Manifest \cup Publishing =>
       j.input = j.source

JobFits(j) == JobSound(j) /\ JobEnds(j) /\ JobFiles(j) /\ JobCursors(j)

JobInv == JobFits(job)

(* The work states after the render.                                       *)
Later == {"output_finish", "verify_close"} \cup Unsynced \cup Unverified \cup Manifest \cup Publishing

(* What else the owner of a job can count on: an end that is not a success *)
(* has a status, and a job still managed has not left its render.          *)
JobAnswers(j) ==
  /\ j.work = "terminal" => j.phase \in {"complete", "cancelled", "failed"}
  /\ j.phase = "failed" => j.work = "terminal" /\ j.status # "ok"
  /\ j.phase = "cleanup_failed" => j.work = "cleanup" /\ j.status # "ok"
  /\ j.work = "cleanup" => j.terminal = "complete" \/ j.failure # "ok"
  /\ j.terminal = "cancelled" => j.cancel
  /\ j.managed => j.work \notin Later /\ j.terminal # "complete"
  /\ j.managed /\ j.work = "render_process_pack" => j.blockIn = j.request
=============================================================================
