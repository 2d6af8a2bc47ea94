-------------------------- MODULE TxArtifact_proofs --------------------------
(***************************************************************************)
(* Proofs about TxArtifact: what each operation of the artifact owner      *)
(* keeps, whichever of its file operations fails and whichever handles do  *)
(* not close, and the theorems about the owner between its two tasks.      *)
(***************************************************************************)
EXTENDS TxArtifact, TLAPS

(* An owner with a volume under its open handles and the settings chosen.  *)
Sane(t, h) == t \in OwnerType /\ (t.open # {} => t.mounted) /\ SettingsFit(t, h)

LEMMA RequestFields ==
  ASSUME NEW r \in Request
  PROVE  /\ r.kind \in {"reset", "send", "data", "mode", "select", "generate"}
         /\ r.kind = "mode" => r.rate \in Rates
         /\ r.kind = "select" => r.name \in Names
         /\ r.kind = "generate" => r.name \in Names /\ r.input \in Names /\ r.rate \in Rates \cup {NoRate}
                                    /\ r.encoder \in Encoders \cup {""} /\ r.profile \in Profiles \cup {""}
BY DEF Request

LEMMA SettingsFacts ==
  /\ NoSettings \in Settings
  /\ \A e \in Encoders \cup {""}, p \in Profiles \cup Rates \cup {NoRate, ""} : [encoder |-> e, profile |-> p] \in Settings
BY DEF NoSettings, Settings

LEMMA DefaultFacts == DefaultChoice \in Choice
BY TxConstants DEF DefaultChoice, Choice

LEMMA ChoiceFacts ==
  ASSUME NEW r \in Request, NEW out, chosen \in Choice
  PROVE  Chosen(r, out) \in Choice
<1>1. CASE r.kind = "reset" /\ Serve(r, out).ok
  BY <1>1, DefaultFacts DEF Chosen
<1>2. CASE r.kind = "mode" /\ Serve(r, out).ok
  BY <1>2, RequestFields DEF Chosen, Choice
<1>3. CASE r.kind = "select" /\ Serve(r, out).ok
  BY <1>3 DEF Chosen, Choice
<1>4. CASE r.kind = "generate" /\ GenerateStarts(out)
  BY <1>4, RequestFields DEF Chosen, Choice
<1>5. CASE ~(\/ r.kind \in {"reset", "mode", "select"} /\ Serve(r, out).ok
             \/ r.kind = "generate" /\ GenerateStarts(out))
  BY <1>5 DEF Chosen
<1> QED BY <1>1, <1>2, <1>3, <1>4, <1>5

(* The settings do not depend on the rest of the owner.                    *)
LEMMA SameSettings ==
  ASSUME NEW t, NEW u, NEW h, SettingsFit(t, h),
         u.rate = t.rate, u.encoder = t.encoder, u.profile = t.profile
  PROVE  SettingsFit(u, h)
BY DEF SettingsFit

(* close_files() keeps a handle or the volume only when a close failed.    *)
LEMMA CloseFacts ==
  ASSUME NEW t \in OwnerType, t.open # {} => t.mounted, NEW held
  PROVE  LET u == CloseFiles(t, held)
         IN  /\ u \in OwnerType /\ u.open \subseteq t.open
             /\ u.open # {} => u.mounted
             /\ u.mounted => t.mounted
             /\ ~u.cleanup => u.open = {} /\ ~u.mounted
             /\ u.state = t.state /\ u.bytes = t.bytes /\ u.written = t.written
             /\ u.name = t.name /\ u.input = t.input
             /\ u.rate = t.rate /\ u.encoder = t.encoder /\ u.profile = t.profile /\ u.used = t.used
<1>1. CASE t.open \cap held # {}
  BY <1>1 DEF CloseFiles, OwnerType
<1>2. CASE t.open \cap held = {} /\ t.mounted /\ "volume" \in held
  BY <1>2 DEF CloseFiles, OwnerType
<1>3. CASE t.open \cap held = {} /\ ~(t.mounted /\ "volume" \in held)
  BY <1>3 DEF CloseFiles, OwnerType
<1> QED BY <1>1, <1>2, <1>3

(* fail() ends the job, whatever does not close.                           *)
LEMMA FailFits ==
  ASSUME NEW t, NEW h, Sane(t, h), NEW held, NEW c \in [Names -> Files], ManifestsWhole(c)
  PROVE  OwnerFits(FailJob(t, held), c, h) /\ (FailJob(t, held).mounted => t.mounted)
<1> DEFINE u == CloseFiles(t, held)
           v == FailJob(t, held)
<1>1. u \in OwnerType /\ (u.open # {} => u.mounted) /\ (u.mounted => t.mounted)
      /\ u.rate = t.rate /\ u.encoder = t.encoder /\ u.profile = t.profile
  BY CloseFacts DEF Sane
<1>2. v = [u EXCEPT !.state = "failed", !.used = NoSettings] /\ NoSettings \in Settings
  BY SettingsFacts DEF FailJob
<1> HIDE DEF u, v
<1>3. v \in OwnerType /\ v.state = "failed" /\ v.open = u.open /\ v.mounted = u.mounted
      /\ v.rate = u.rate /\ v.encoder = u.encoder /\ v.profile = u.profile
  BY <1>1, <1>2 DEF OwnerType
<1>4. StateFits(v)
  BY <1>1, <1>3 DEF StateFits
<1>5. ProfileFits(v, h) /\ CardFits(v, c)
  BY <1>1, <1>3, SameSettings DEF ProfileFits, CardFits, Sane
<1> QED BY <1>1, <1>3, <1>4, <1>5 DEF OwnerFits, v

(* mount(): the card is local whenever it has mounted it.                  *)
LEMMA MountFacts ==
  ASSUME NEW t, NEW h, Sane(t, h), NEW out
  PROVE  LET m == Mount(t, out)
         IN  /\ Sane(m.tx, h) /\ (m.ok => m.tx.mounted /\ ~m.tx.cleanup)
             /\ m.tx.mounted => t.mounted \/ media = "local"
             /\ m.tx.state = t.state /\ m.tx.open \subseteq t.open
             /\ m.tx.name = t.name /\ m.tx.input = t.input /\ m.tx.bytes = t.bytes
             /\ m.tx.rate = t.rate /\ m.tx.encoder = t.encoder /\ m.tx.profile = t.profile /\ m.tx.used = t.used
             /\ m.tx.written = t.written
             /\ m.ok => m.tx.open = t.open
<1> DEFINE m == Mount(t, out)
           up == [t EXCEPT !.mounted = TRUE]
<1>1. t \in OwnerType /\ up \in OwnerType /\ up.mounted /\ up.open = t.open
      /\ up.state = t.state /\ up.name = t.name /\ up.input = t.input /\ up.bytes = t.bytes
      /\ up.rate = t.rate /\ up.encoder = t.encoder /\ up.profile = t.profile /\ up.used = t.used /\ up.written = t.written
      /\ (~t.cleanup => ~up.cleanup)
  BY DEF Sane, OwnerType
<1> HIDE DEF up
<1>6. Sane(up, h)
  BY <1>1, SameSettings DEF Sane
<1>2. CASE t.cleanup \/ media # "local"
  <2>1. m = [ok |-> FALSE, tx |-> t]
    BY <1>2 DEF Mount
  <2> QED BY <2>1
<1>3. CASE ~(t.cleanup \/ media # "local") /\ t.mounted
  <2>1. m = [ok |-> TRUE, tx |-> t]
    BY <1>3 DEF Mount
  <2> QED BY <2>1, <1>3
<1>4. CASE ~(t.cleanup \/ media # "local") /\ ~t.mounted /\ out.op = "mount"
  <2>1. m = [ok |-> FALSE, tx |-> CloseFiles(up, out.held)]
    BY <1>4 DEF Mount, up
  <2> DEFINE u == CloseFiles(up, out.held)
  <2>2. /\ u \in OwnerType /\ u.open \subseteq up.open /\ (u.open # {} => u.mounted)
        /\ u.state = up.state /\ u.bytes = up.bytes /\ u.written = up.written
        /\ u.name = up.name /\ u.input = up.input
        /\ u.rate = up.rate /\ u.encoder = up.encoder /\ u.profile = up.profile /\ u.used = up.used
    BY <1>1, CloseFacts
  <2>3. m.tx = u /\ ~m.ok
    BY <2>1
  <2> HIDE DEF u, m
  <2>4. Sane(u, h)
    BY <2>2, <1>1, <1>6, SameSettings DEF Sane
  <2> QED BY <2>2, <2>3, <2>4, <1>1, <1>4 DEF m
<1>5. CASE ~(t.cleanup \/ media # "local") /\ ~t.mounted /\ out.op # "mount"
  <2>1. m = [ok |-> TRUE, tx |-> up]
    BY <1>5 DEF Mount, up
  <2>2. m.tx = up /\ m.ok
    BY <2>1
  <2> HIDE DEF m
  <2> QED BY <2>2, <1>1, <1>5, <1>6 DEF m
<1> QED BY <1>2, <1>3, <1>4, <1>5

(* One file of one stem changes.                                           *)
LEMMA CardSet ==
  ASSUME NEW c \in [Names -> Files], ManifestsWhole(c), NEW n \in Names,
         NEW f \in Files, f.JSON = "sealed" => f.WAV = "sealed"
  PROVE  LET d == [c EXCEPT ![n] = f]
         IN  d \in [Names -> Files] /\ ManifestsWhole(d) /\ d[n] = f
BY DEF ManifestsWhole

(* open_payload(): the handle is open when it succeeds, and a payload that *)
(* does not close keeps its handle.                                        *)
LEMMA OpenPayloadFacts ==
  ASSUME NEW t, NEW h, Sane(t, h), t.mounted, NEW out, card \in [Names -> Files]
  PROVE  LET p == OpenPayload(t, out)
         IN  /\ Sane(p.tx, h) /\ p.tx.mounted /\ (~t.cleanup => ~p.tx.cleanup)
             /\ p.tx.rate = t.rate /\ p.tx.encoder = t.encoder /\ p.tx.profile = t.profile
             /\ p.tx.name = t.name /\ p.tx.input = t.input
             /\ p.ok => p.tx.open = t.open \cup {"payload"} /\ card[t.input].BIN \in 0..MaxUpload
<1> DEFINE closed == IF "payload" \in out.held THEN t.open ELSE t.open \ {"payload"}
           size == card[t.input].BIN
           p == OpenPayload(t, out)
           kept == [t EXCEPT !.open = closed]
           opened == [t EXCEPT !.open = @ \cup {"payload"}]
<1>1. t \in OwnerType /\ closed \subseteq t.open
  BY DEF Sane
<1>2. size \in NoFile..(MaxUpload + 1) /\ MaxUpload \in Nat
  BY <1>1, TxConstants DEF OwnerType, Files
<1>3. \/ p = [ok |-> FALSE, tx |-> kept]
      \/ size # NoFile /\ p = [ok |-> size <= MaxUpload, tx |-> opened]
  BY DEF OpenPayload
<1> HIDE DEF size, p, closed
<1>4. Sane(kept, h) /\ kept.mounted /\ kept.rate = t.rate /\ kept.encoder = t.encoder /\ kept.profile = t.profile
      /\ kept.name = t.name /\ kept.input = t.input /\ (~t.cleanup => ~kept.cleanup)
  <2>1. kept \in OwnerType /\ kept.open = closed /\ kept.mounted = t.mounted /\ kept.cleanup = t.cleanup
        /\ kept.rate = t.rate /\ kept.encoder = t.encoder /\ kept.profile = t.profile
        /\ kept.name = t.name /\ kept.input = t.input
    BY <1>1 DEF OwnerType
  <2> HIDE DEF kept
  <2> QED BY <2>1, SameSettings DEF Sane
<1>5. Sane(opened, h) /\ opened.mounted /\ opened.rate = t.rate /\ opened.encoder = t.encoder /\ opened.profile = t.profile
      /\ opened.name = t.name /\ opened.input = t.input /\ (~t.cleanup => ~opened.cleanup)
      /\ opened.open = t.open \cup {"payload"}
  <2>1. opened \in OwnerType /\ opened.open = t.open \cup {"payload"} /\ opened.mounted = t.mounted
        /\ opened.cleanup = t.cleanup /\ opened.rate = t.rate /\ opened.encoder = t.encoder
        /\ opened.profile = t.profile /\ opened.name = t.name /\ opened.input = t.input
    BY <1>1 DEF OwnerType
  <2> HIDE DEF opened
  <2> QED BY <2>1, SameSettings DEF Sane
<1> HIDE DEF kept, opened
<1>6. CASE p = [ok |-> FALSE, tx |-> kept]
  <2>1. p.tx = kept /\ ~p.ok
    BY <1>6
  <2> QED BY <2>1, <1>4 DEF p
<1>7. CASE size # NoFile /\ p = [ok |-> size <= MaxUpload, tx |-> opened]
  <2>1. p.tx = opened /\ (p.ok => size <= MaxUpload)
    BY <1>7
  <2>2. p.ok => size \in 0..MaxUpload
    BY <2>1, <1>2, <1>7 DEF NoFile
  <2> QED BY <2>1, <2>2, <1>5 DEF p, size
<1> QED BY <1>3, <1>6, <1>7

(* A job that fails keeps what every operation keeps.                      *)
LEMMA FailedFits ==
  ASSUME NEW t, NEW h, Sane(t, h), NEW c \in [Names -> Files], ManifestsWhole(c), NEW out
  PROVE  LET res == Failed(t, c, out)
         IN  OwnerFits(res.tx, res.card, h) /\ (res.tx.mounted => t.mounted)
<1>1. Failed(t, c, out).tx = FailJob(t, out.held) /\ Failed(t, c, out).card = c
  BY DEF Failed, Result
<1> QED BY <1>1, FailFits

(* start_generation(): it fails, or its names are free and it has both     *)
(* files open.                                                             *)
LEMMA StartGenerationFits ==
  ASSUME NEW t, NEW h, Sane(t, h), t.open \subseteq {"payload"}, NEW out,
         card \in [Names -> Files], ManifestsWhole(card)
  PROVE  LET res == StartGeneration(t, out)
         IN  OwnerFits(res.tx, res.card, h) /\ (res.tx.mounted => t.mounted \/ media = "local")
<1> DEFINE m == Mount(t, out)
           p == OpenPayload(m.tx, out)
           partial == [card EXCEPT ![t.name].TMP = "partial"]
           runs == [encoder |-> t.encoder, profile |-> Profile(t)]
           begun == [p.tx EXCEPT !.profile = Profile(t), !.used = runs]
           writing == [begun EXCEPT !.open = @ \cup {"output"}]
           running == [begun EXCEPT !.open = @ \cup {"output"}, !.state = "generating",
                                    !.bytes = card[t.input].BIN, !.written = 0]
           res == StartGeneration(t, out)
<1>1. /\ Sane(m.tx, h) /\ (m.ok => m.tx.mounted /\ ~m.tx.cleanup)
      /\ m.tx.mounted => t.mounted \/ media = "local"
      /\ m.tx.open \subseteq t.open /\ m.tx.name = t.name /\ m.tx.input = t.input
      /\ m.tx.rate = t.rate /\ m.tx.encoder = t.encoder /\ m.tx.profile = t.profile
  BY MountFacts
<1>2. ASSUME m.ok
      PROVE  /\ Sane(p.tx, h) /\ p.tx.mounted /\ ~p.tx.cleanup
             /\ p.tx.rate = t.rate /\ p.tx.encoder = t.encoder /\ p.tx.profile = t.profile
             /\ p.tx.name = t.name /\ p.tx.input = t.input
             /\ p.ok => p.tx.open = m.tx.open \cup {"payload"} /\ card[t.input].BIN \in 0..MaxUpload
  <2>1. m.tx.mounted /\ ~m.tx.cleanup
    BY <1>1, <1>2
  <2> HIDE DEF m
  <2> QED BY <2>1, <1>1, OpenPayloadFacts
<1>3. t \in OwnerType /\ t.name \in Names /\ runs \in Settings /\ runs = RunsWith(h)
      /\ Profile(t) \in Profiles \cup Rates \cup {NoRate, ""}
      /\ (Profile(t) = h.profile \/ (h.profile = "" /\ Profile(t) = h.rate))
  <2>1. t \in OwnerType /\ SettingsFit(t, h)
    BY DEF Sane
  <2>2. t.name \in Names /\ t.encoder \in Encoders \cup {""}
        /\ Profile(t) \in Profiles \cup Rates \cup {NoRate, ""}
    BY <2>1 DEF Profile, OwnerType
  <2>3. Profile(t) = IF h.profile = "" THEN h.rate ELSE h.profile
    BY <2>1 DEF Profile, SettingsFit
  <2>4. runs = RunsWith(h)
    BY <2>1, <2>3 DEF SettingsFit, RunsWith
  <2> QED BY <2>1, <2>2, <2>3, <2>4, SettingsFacts
<1>4. partial \in [Names -> Files] /\ ManifestsWhole(partial)
      /\ partial[t.name] = [card[t.name] EXCEPT !.TMP = "partial"]
  <2> DEFINE f == [card[t.name] EXCEPT !.TMP = "partial"]
  <2>1. card[t.name] \in Files
    BY <1>3
  <2>2. f \in Files /\ f.JSON = card[t.name].JSON /\ f.WAV = card[t.name].WAV
    BY <2>1 DEF Files
  <2>3. partial = [card EXCEPT ![t.name] = f]
    OBVIOUS
  <2>4. f.JSON = "sealed" => f.WAV = "sealed"
    BY <2>2, <1>3 DEF ManifestsWhole
  <2> HIDE DEF f, partial
  <2>5. partial \in [Names -> Files] /\ ManifestsWhole(partial) /\ partial[t.name] = f
    BY <2>2, <2>3, <2>4, <1>3, CardSet
  <2> QED BY <2>5 DEF f
<1> HIDE DEF m, p, partial, res, runs
<1>5. ASSUME m.ok
      PROVE  /\ Sane(begun, h) /\ ~begun.cleanup /\ begun.open = p.tx.open /\ begun.mounted /\ begun.name = t.name
             /\ begun.input = t.input /\ begun.used = runs
  <2>1. begun \in OwnerType /\ begun.open = p.tx.open /\ begun.mounted = p.tx.mounted /\ begun.cleanup = p.tx.cleanup
        /\ begun.name = p.tx.name /\ begun.input = p.tx.input /\ begun.rate = p.tx.rate
        /\ begun.encoder = p.tx.encoder /\ begun.profile = Profile(t) /\ begun.used = runs
    BY <1>2, <1>3, <1>5 DEF Sane, OwnerType
  <2> HIDE DEF begun
  <2>2. SettingsFit(begun, h)
    BY <2>1, <1>2, <1>3, <1>5 DEF Sane, SettingsFit
  <2> QED BY <2>1, <2>2, <1>2, <1>5 DEF Sane
<1> HIDE DEF begun
<1>6. ASSUME m.ok
      PROVE  Sane(writing, h)
  <2>1. writing \in OwnerType /\ writing.mounted = begun.mounted /\ writing.rate = begun.rate
        /\ writing.encoder = begun.encoder /\ writing.profile = begun.profile
    BY <1>5, <1>6 DEF Sane, OwnerType
  <2> HIDE DEF writing
  <2> QED BY <2>1, <1>5, <1>6, SameSettings DEF Sane
<1>7. ASSUME m.ok, p.ok, OutputsAbsent(card[t.name])
      PROVE  OwnerFits(running, partial, h)
  <2>1. begun \in OwnerType /\ begun.open = m.tx.open \cup {"payload"} /\ card[t.input].BIN \in 0..MaxUpload
    BY <1>2, <1>5, <1>7 DEF Sane
  <2>2. 0 \in 0..Blocks /\ 0 < Blocks
    BY TxConstants
  <2>3. running.open = {"payload", "output"}
    BY <2>1, <1>1 DEF OwnerType
  <2>4. running \in OwnerType /\ running.state = "generating" /\ running.mounted /\ running.written = 0 /\ ~running.cleanup
        /\ running.rate = begun.rate /\ running.encoder = begun.encoder /\ running.profile = begun.profile
        /\ running.used = runs /\ running.name = t.name
    BY <2>1, <2>2, <1>5, <1>7 DEF OwnerType
  <2> HIDE DEF running
  <2>5. StateFits(running)
    BY <2>2, <2>3, <2>4 DEF StateFits
  <2>6. ProfileFits(running, h)
    BY <2>4, <1>3, <1>5, <1>7, SameSettings DEF ProfileFits, Sane
  <2>7. card[t.name] \in Files
    BY <1>3
  <2>8. CardFits(running, partial)
    BY <2>4, <2>7, <1>4, <1>7 DEF CardFits, OutputsAbsent, Files
  <2> QED BY <2>4, <2>5, <2>6, <2>8, <1>4 DEF OwnerFits
<1>8. \/ res = Failed(t, card, out)
      \/ res = Failed(m.tx, card, out)
      \/ m.ok /\ res = Failed(p.tx, card, out)
      \/ m.ok /\ res = Failed(begun, card, out)
      \/ m.ok /\ res = Failed(writing, partial, out)
      \/ m.ok /\ p.ok /\ OutputsAbsent(card[t.name]) /\ res = Result(TRUE, running, partial)
  BY DEF res, StartGeneration, m, p, partial, begun, runs
<1>9. CASE res = Failed(t, card, out) \/ res = Failed(m.tx, card, out)
  BY <1>1, <1>9, FailedFits DEF res
<1>10. CASE m.ok /\ (res = Failed(p.tx, card, out) \/ res = Failed(begun, card, out))
  BY <1>1, <1>2, <1>5, <1>10, FailedFits DEF res
<1>11. CASE m.ok /\ res = Failed(writing, partial, out)
  <2>1. OwnerFits(res.tx, res.card, h)
    BY <1>4, <1>6, <1>11, FailedFits
  <2> QED BY <2>1, <1>1, <1>11 DEF res
<1>12. CASE m.ok /\ p.ok /\ OutputsAbsent(card[t.name]) /\ res = Result(TRUE, running, partial)
  <2>1. res.tx = running /\ res.card = partial
    BY <1>12 DEF Result
  <2> HIDE DEF running
  <2> QED BY <2>1, <1>1, <1>7, <1>12 DEF res
<1> QED BY <1>8, <1>9, <1>10, <1>11, <1>12

-----------------------------------------------------------------------------
(* What a request or a block keeps, of a result, of whether it mounts and  *)
(* of the settings that are the chosen ones after it.                      *)
Keeps(res, h) ==
  OwnerFits(res.tx, res.card, h) /\ (res.tx.mounted => tx.mounted \/ (media = "local" /\ ~playing))

LEMMA FitsSane ==
  ASSUME NEW t, NEW c, NEW h, OwnerFits(t, c, h)
  PROVE  Sane(t, h)
BY DEF OwnerFits, StateFits, ProfileFits, Sane

(* close_files() of a job that is over.                                    *)
LEMMA CloseFits ==
  ASSUME NEW t, NEW c, NEW h, OwnerFits(t, c, h), t.state \notin {"receiving", "generating"}, NEW held
  PROVE  OwnerFits(CloseFiles(t, held), c, h) /\ (CloseFiles(t, held).mounted => t.mounted)
<1> DEFINE u == CloseFiles(t, held)
<1>1. /\ u \in OwnerType /\ u.open \subseteq t.open
      /\ u.open # {} => u.mounted
      /\ u.mounted => t.mounted
      /\ u.state = t.state /\ u.bytes = t.bytes /\ u.written = t.written
      /\ u.name = t.name /\ u.input = t.input
      /\ u.rate = t.rate /\ u.encoder = t.encoder /\ u.profile = t.profile /\ u.used = t.used
  BY CloseFacts DEF OwnerFits, StateFits
<1> HIDE DEF u
<1>2. StateFits(u)
  BY <1>1 DEF OwnerFits, StateFits
<1>3. ProfileFits(u, h) /\ CardFits(u, c)
  BY <1>1, SameSettings DEF OwnerFits, ProfileFits, CardFits
<1> QED BY <1>1, <1>2, <1>3 DEF OwnerFits, u

(* select_output() after everything closed.                                *)
LEMMA SelectFacts ==
  ASSUME NEW t \in OwnerType, t.open = {}, NEW n \in Names
  PROVE  LET u == SelectOutput(t, n)
         IN  /\ u \in OwnerType /\ u.open = {} /\ u.mounted = t.mounted /\ u.state = "idle" /\ u.bytes = 0
             /\ u.name = n /\ u.input = n /\ u.rate = t.rate /\ u.encoder = t.encoder /\ u.profile = t.profile
<1>1. 0 \in 0..MaxUpload /\ 0 \in 0..Blocks
  BY TxConstants
<1> QED BY <1>1 DEF SelectOutput, OwnerType

LEMMA IdleFits ==
  ASSUME NEW t \in OwnerType, NEW h, t.open = {}, t.state = "idle", t.bytes = 0, t.name = t.input, SettingsFit(t, h),
         NEW c \in [Names -> Files], ManifestsWhole(c)
  PROVE  OwnerFits(t, c, h)
BY DEF OwnerFits, StateFits, ProfileFits, CardFits

(* serve_reset(): a running job is aborted first.                          *)
LEMMA ResetFits ==
  ASSUME OwnerFits(tx, card, chosen), NEW out
  PROVE  Keeps(ServeReset(out), IF ServeReset(out).ok THEN DefaultChoice ELSE chosen)
<1> DEFINE aborted == IF tx.state \in {"receiving", "generating"} THEN FailJob(tx, out.held)
                      ELSE CloseFiles(tx, out.held)
           plain == [aborted EXCEPT !.rate = DefaultRate, !.encoder = "", !.profile = ""]
           first == NewOwner.name
           fresh == SelectOutput(plain, first)
           res == ServeReset(out)
<1>1. OwnerFits(aborted, card, chosen) /\ (aborted.mounted => tx.mounted)
  <2>1. CASE tx.state \in {"receiving", "generating"}
    <3>1. aborted = FailJob(tx, out.held)
      BY <2>1
    <3> HIDE DEF aborted
    <3> QED BY <3>1, FitsSane, FailFits DEF OwnerFits
  <2>2. CASE tx.state \notin {"receiving", "generating"}
    <3>1. aborted = CloseFiles(tx, out.held)
      BY <2>2
    <3> HIDE DEF aborted
    <3> QED BY <3>1, <2>2, CloseFits
  <2> QED BY <2>1, <2>2
<1>2. ~aborted.cleanup => aborted.open = {}
  <2>1. ~CloseFiles(tx, out.held).cleanup => CloseFiles(tx, out.held).open = {}
    BY CloseFacts DEF OwnerFits, StateFits
  <2>2. CloseFiles(tx, out.held) \in OwnerType
    BY CloseFacts DEF OwnerFits, StateFits
  <2> QED BY <2>1, <2>2 DEF FailJob, OwnerType
<1>3. res = IF aborted.cleanup THEN Result(FALSE, aborted, card) ELSE Result(TRUE, fresh, card)
  BY DEF ServeReset
<1> HIDE DEF aborted, res
<1>4. aborted \in OwnerType /\ DefaultRate \in Rates /\ first \in Names
  BY <1>1, TxConstants DEF OwnerFits, NewOwner
<1> HIDE DEF first
<1>5. plain \in OwnerType /\ plain.open = aborted.open /\ plain.mounted = aborted.mounted
      /\ plain.rate = DefaultRate /\ plain.encoder = "" /\ plain.profile = ""
  BY <1>4 DEF OwnerType
<1> HIDE DEF plain
<1>6. ASSUME ~aborted.cleanup
      PROVE  OwnerFits(fresh, card, DefaultChoice) /\ fresh.mounted = aborted.mounted
  <2>0. plain.open = {}
    BY <1>2, <1>5, <1>6
  <2>1. /\ fresh \in OwnerType /\ fresh.open = {} /\ fresh.mounted = plain.mounted /\ fresh.state = "idle"
        /\ fresh.bytes = 0 /\ fresh.name = first /\ fresh.input = first /\ fresh.rate = plain.rate
        /\ fresh.encoder = plain.encoder /\ fresh.profile = plain.profile
    BY <2>0, <1>4, <1>5, SelectFacts
  <2> HIDE DEF fresh
  <2>2. SettingsFit(fresh, DefaultChoice)
    BY <2>1, <1>5 DEF SettingsFit, DefaultChoice
  <2>3. OwnerFits(fresh, card, DefaultChoice)
    BY <2>1, <2>2, <1>1, IdleFits DEF OwnerFits
  <2> QED BY <2>1, <2>3, <1>5
<1> HIDE DEF fresh
<1>7. CASE aborted.cleanup
  BY <1>1, <1>3, <1>7 DEF Keeps, Result, res
<1>8. CASE ~aborted.cleanup
  BY <1>1, <1>3, <1>6, <1>8 DEF Keeps, Result, res
<1> QED BY <1>7, <1>8

(* serve_mode(), with no generation running.                               *)
LEMMA ModeFits ==
  ASSUME OwnerFits(tx, card, chosen), tx.state # "generating", NEW r \in Request, r.kind = "mode"
  PROVE  Keeps(ServeMode(r), [rate |-> r.rate, encoder |-> "", profile |-> ""])
<1> DEFINE u == [tx EXCEPT !.rate = r.rate, !.encoder = "", !.profile = ""]
           h == [rate |-> r.rate, encoder |-> "", profile |-> ""]
<1>1. r.rate \in Rates /\ tx \in OwnerType
  BY RequestFields DEF OwnerFits
<1>2. /\ u \in OwnerType /\ u.open = tx.open /\ u.mounted = tx.mounted /\ u.state = tx.state /\ u.bytes = tx.bytes
      /\ u.written = tx.written /\ u.name = tx.name /\ u.input = tx.input
      /\ u.rate = r.rate /\ u.encoder = "" /\ u.profile = ""
      /\ (~tx.cleanup => ~u.cleanup)
  BY <1>1 DEF OwnerType
<1> HIDE DEF u
<1>3. StateFits(u) /\ CardFits(u, card)
  BY <1>2 DEF OwnerFits, StateFits, CardFits
<1>4. ProfileFits(u, h)
  BY <1>2 DEF ProfileFits, SettingsFit
<1>5. ServeMode(r).tx = u /\ ServeMode(r).card = card
  BY DEF ServeMode, Result, u
<1> QED BY <1>2, <1>3, <1>4, <1>5 DEF Keeps, OwnerFits

(* serve_select().                                                         *)
LEMMA SelectFits ==
  ASSUME OwnerFits(tx, card, chosen), tx.state # "generating", NEW r \in Request, r.kind = "select", NEW out
  PROVE  Keeps(ServeSelect(r, out), IF ServeSelect(r, out).ok
                                    THEN [rate |-> chosen.rate, encoder |-> "", profile |-> ""] ELSE chosen)
<1> DEFINE closed == CloseFiles(tx, out.held)
           named == SelectOutput(closed, r.name)
           plain == [named EXCEPT !.encoder = "", !.profile = ""]
           h == [rate |-> chosen.rate, encoder |-> "", profile |-> ""]
           res == ServeSelect(r, out)
<1>1. r.name \in Names
  BY RequestFields
<1>2. /\ closed \in OwnerType /\ (closed.mounted => tx.mounted)
      /\ ~closed.cleanup => closed.open = {}
      /\ closed.rate = chosen.rate
  BY CloseFacts DEF OwnerFits, StateFits, ProfileFits, SettingsFit
<1>3. tx.state # "receiving" => OwnerFits(closed, card, chosen)
  BY CloseFits
<1>4. res = IF tx.state = "receiving" THEN Result(FALSE, tx, card)
            ELSE IF closed.cleanup THEN Result(FALSE, closed, card) ELSE Result(TRUE, plain, card)
  BY DEF ServeSelect
<1> HIDE DEF closed, res
<1>5. ASSUME ~closed.cleanup
      PROVE  OwnerFits(plain, card, h) /\ plain.mounted = closed.mounted
  <2>1. /\ named \in OwnerType /\ named.open = {} /\ named.mounted = closed.mounted /\ named.state = "idle"
        /\ named.bytes = 0 /\ named.name = named.input /\ named.rate = closed.rate
    BY <1>1, <1>2, <1>5, SelectFacts
  <2> HIDE DEF named
  <2>2. /\ plain \in OwnerType /\ plain.open = {} /\ plain.mounted = closed.mounted /\ plain.state = "idle"
        /\ plain.bytes = 0 /\ plain.name = plain.input
        /\ plain.rate = closed.rate /\ plain.encoder = "" /\ plain.profile = ""
    BY <2>1 DEF OwnerType
  <2> HIDE DEF plain
  <2>3. SettingsFit(plain, h)
    BY <2>2, <1>2 DEF SettingsFit
  <2> HIDE DEF h
  <2>4. card \in [Names -> Files] /\ ManifestsWhole(card)
    BY DEF OwnerFits
  <2>5. OwnerFits(plain, card, h)
    BY <2>2, <2>3, <2>4, IdleFits
  <2> QED BY <2>2, <2>5, <2>1
<1> HIDE DEF plain, h
<1>6. CASE tx.state = "receiving" \/ closed.cleanup
  <2>1. res.ok = FALSE /\ res.card = card
        /\ (res.tx = tx \/ (res.tx = closed /\ tx.state # "receiving"))
    BY <1>4, <1>6 DEF Result
  <2>2. Keeps(res, chosen)
    BY <2>1, <1>2, <1>3 DEF Keeps
  <2> QED BY <2>1, <2>2 DEF res
<1>7. CASE tx.state # "receiving" /\ ~closed.cleanup
  <2>1. res.ok = TRUE /\ res.card = card /\ res.tx = plain
    BY <1>4, <1>7 DEF Result
  <2>2. Keeps(res, h)
    BY <2>1, <1>2, <1>5, <1>7 DEF Keeps
  <2> QED BY <2>1, <2>2 DEF res, h
<1> QED BY <1>6, <1>7

(* serve_generate(): a payload that is on the card, from a closed owner.   *)
LEMMA GenerateFits ==
  ASSUME OwnerFits(tx, card, chosen), ~Busy,
         NEW r \in Request, r.kind = "generate", NEW out
  PROVE  Keeps(ServeGenerate(r, out), IF GenerateStarts(out)
                                      THEN [rate |-> r.rate, encoder |-> r.encoder, profile |-> r.profile] ELSE chosen)
<1> DEFINE closed == CloseFiles(tx, out.held)
           named == SelectOutput(closed, r.name)
           job == [named EXCEPT !.input = r.input, !.rate = r.rate, !.encoder = r.encoder, !.profile = r.profile]
           h == [rate |-> r.rate, encoder |-> r.encoder, profile |-> r.profile]
           start == StartGeneration(job, out)
           res == ServeGenerate(r, out)
<1>1. r.name \in Names /\ r.input \in Names /\ r.rate \in Rates \cup {NoRate}
      /\ r.encoder \in Encoders \cup {""} /\ r.profile \in Profiles \cup {""}
  BY RequestFields
<1>2. /\ closed \in OwnerType /\ (closed.mounted => tx.mounted)
      /\ ~closed.cleanup => closed.open = {}
  BY CloseFacts DEF OwnerFits, StateFits
<1>3. tx.state # "receiving" => OwnerFits(closed, card, chosen)
  BY CloseFits DEF Busy
<1>4. res = IF tx.state = "receiving" THEN Result(FALSE, tx, card)
            ELSE IF closed.cleanup THEN Result(FALSE, closed, card) ELSE start
  BY DEF ServeGenerate
<1>8. GenerateStarts(out) <=> tx.state # "receiving" /\ ~closed.cleanup
  BY DEF GenerateStarts
<1>9. ~playing
  BY DEF Busy
<1> HIDE DEF closed, res
<1>5. ASSUME ~closed.cleanup
      PROVE  OwnerFits(start.tx, start.card, h) /\ (start.tx.mounted => closed.mounted \/ media = "local")
  <2>1. named \in OwnerType /\ named.open = {} /\ named.mounted = closed.mounted
    BY <1>1, <1>2, <1>5, SelectFacts
  <2> HIDE DEF named
  <2>2. job \in OwnerType /\ job.open = {} /\ job.mounted = closed.mounted
        /\ job.rate = r.rate /\ job.encoder = r.encoder /\ job.profile = r.profile
    BY <2>1, <1>1 DEF OwnerType
  <2> HIDE DEF job
  <2>3. Sane(job, h)
    BY <2>2 DEF Sane, SettingsFit
  <2> QED BY <2>2, <2>3, StartGenerationFits DEF OwnerFits
<1> HIDE DEF start
<1>6. CASE tx.state = "receiving" \/ closed.cleanup
  BY <1>2, <1>3, <1>4, <1>6, <1>8 DEF Keeps, Result, res
<1>7. CASE tx.state # "receiving" /\ ~closed.cleanup
  BY <1>2, <1>4, <1>5, <1>7, <1>8, <1>9 DEF Keeps, res
<1> QED BY <1>6, <1>7

(* serve_send(): the upload is the payload.                                *)
LEMMA SendFits ==
  ASSUME OwnerFits(tx, card, chosen), ~playing, NEW out
  PROVE  Keeps(ServeSend(out), chosen)
<1>1. CASE tx.state = "receiving"
  <2>1. Sane(tx, chosen) /\ tx.open \subseteq {"payload"} /\ card \in [Names -> Files] /\ ManifestsWhole(card)
    BY <1>1, FitsSane DEF OwnerFits, StateFits
  <2>2. ServeSend(out) = StartGeneration(tx, out)
    BY <1>1 DEF ServeSend
  <2> QED BY <2>1, <2>2, StartGenerationFits DEF Keeps
<1>2. CASE tx.state # "receiving"
  BY <1>2 DEF ServeSend, Result, Keeps
<1> QED BY <1>1, <1>2

(* append_payload(): the chunk is counted and on the card, or the job ends. *)
LEMMA AppendFits ==
  ASSUME NEW t, NEW h, OwnerFits(t, card, h), t.mounted, ~t.cleanup,
         t.state \in {"idle", "receiving"}, t.bytes # MaxUpload, NEW out
  PROVE  LET res == AppendPayload(t, out)
         IN  OwnerFits(res.tx, res.card, h) /\ (res.tx.mounted => t.mounted)
<1> DEFINE first == "payload" \notin t.open
           size == IF first THEN 0 ELSE card[t.name].BIN
           opened == [t EXCEPT !.open = @ \cup {"payload"}]
           stub == [card EXCEPT ![t.input].BIN = size]
           more == [card EXCEPT ![t.input].BIN = size + 1]
           counted == [opened EXCEPT !.bytes = @ + 1, !.state = "receiving"]
           res == AppendPayload(t, out)
<1>1. t \in OwnerType /\ Sane(t, h) /\ card \in [Names -> Files] /\ ManifestsWhole(card) /\ t.name = t.input
      /\ t.name \in Names
  BY FitsSane DEF OwnerFits, StateFits, OwnerType
<1>2. t.bytes \in 0..MaxUpload /\ MaxUpload \in Nat /\ t.bytes + 1 \in 0..MaxUpload
  <2>1. t.bytes \in 0..MaxUpload /\ MaxUpload \in Nat
    BY <1>1, TxConstants DEF OwnerType
  <2> QED BY <2>1
<1>3. size = t.bytes
  BY DEF OwnerFits, StateFits, CardFits
<1>4. opened \in OwnerType /\ Sane(opened, h)
      /\ counted \in OwnerType /\ counted.state = "receiving" /\ counted.bytes = t.bytes + 1
      /\ counted.mounted /\ ~counted.cleanup /\ counted.name = t.name /\ counted.input = t.name
      /\ counted.rate = t.rate /\ counted.encoder = t.encoder /\ counted.profile = t.profile
  <2>1. opened \in OwnerType /\ opened.mounted /\ opened.rate = t.rate /\ opened.encoder = t.encoder
        /\ opened.profile = t.profile
    BY <1>1 DEF OwnerType
  <2>2. counted \in OwnerType /\ counted.state = "receiving" /\ counted.bytes = t.bytes + 1
        /\ counted.mounted /\ ~counted.cleanup /\ counted.name = t.name /\ counted.input = t.name
        /\ counted.rate = t.rate /\ counted.encoder = t.encoder /\ counted.profile = t.profile
    BY <1>1, <1>2 DEF OwnerType
  <2> HIDE DEF opened, counted
  <2>3. Sane(opened, h)
    BY <2>1, <1>1, SameSettings DEF Sane
  <2> QED BY <2>1, <2>2, <2>3
<1>5. counted.open = {"payload"}
  BY <1>1 DEF OwnerFits, StateFits, OwnerType
<1>6. ASSUME NEW n \in NoFile..(MaxUpload + 1)
      PROVE  LET d == [card EXCEPT ![t.input].BIN = n]
             IN  d \in [Names -> Files] /\ ManifestsWhole(d) /\ d[t.name].BIN = n
  <2> DEFINE f == [card[t.name] EXCEPT !.BIN = n]
             d == [card EXCEPT ![t.name] = f]
  <2>1. card[t.name] \in Files
    BY <1>1
  <2>2. f \in Files /\ f.JSON = card[t.name].JSON /\ f.WAV = card[t.name].WAV /\ f.BIN = n
    BY <2>1 DEF Files
  <2>3. f.JSON = "sealed" => f.WAV = "sealed"
    BY <2>2, <1>1 DEF ManifestsWhole
  <2>4. d = [card EXCEPT ![t.input].BIN = n]
    BY <1>1
  <2> HIDE DEF f, d
  <2>5. d \in [Names -> Files] /\ ManifestsWhole(d) /\ d[t.name] = f
    BY <2>2, <2>3, <1>1, CardSet DEF d
  <2> QED BY <2>2, <2>4, <2>5
<1>7. stub \in [Names -> Files] /\ ManifestsWhole(stub)
  <2>1. size \in NoFile..(MaxUpload + 1)
    BY <1>2, <1>3 DEF NoFile
  <2> QED BY <2>1, <1>6
<1>8. more \in [Names -> Files] /\ ManifestsWhole(more) /\ more[t.name].BIN = t.bytes + 1
  <2>1. size + 1 \in NoFile..(MaxUpload + 1) /\ size + 1 = t.bytes + 1
    BY <1>2, <1>3 DEF NoFile
  <2> HIDE DEF size
  <2> QED BY <2>1, <1>6
<1>9. \/ res = Failed(t, card, out)
      \/ res = Failed(opened, stub, out)
      \/ res = Result(TRUE, counted, more)
  BY DEF AppendPayload
<1> HIDE DEF opened, stub, more, counted, res, size, first
<1>10. OwnerFits(counted, more, h)
  <2>1. ProfileFits(counted, h)
    BY <1>1, <1>4, SameSettings DEF Sane, ProfileFits
  <2> QED BY <2>1, <1>1, <1>4, <1>5, <1>8 DEF OwnerFits, StateFits, CardFits
<1>11. CASE res = Failed(t, card, out)
  BY <1>1, <1>11, FailedFits DEF res
<1>12. CASE res = Failed(opened, stub, out)
  <2>1. OwnerFits(res.tx, res.card, h)
    BY <1>4, <1>7, <1>12, FailedFits
  <2> QED BY <2>1 DEF res
<1>13. CASE res = Result(TRUE, counted, more)
  BY <1>10, <1>13 DEF Result, res
<1> QED BY <1>9, <1>11, <1>12, <1>13

(* mount(), of what fits.                                                  *)
LEMMA MountFits ==
  ASSUME NEW t, NEW c, NEW h, OwnerFits(t, c, h), NEW out
  PROVE  OwnerFits(Mount(t, out).tx, c, h)
<1> DEFINE u == Mount(t, out).tx
<1>1. Sane(t, h)
  BY FitsSane
<1>2. CASE t.mounted
  <2>1. u = t
    BY <1>2 DEF Mount
  <2> QED BY <2>1
<1>3. CASE ~t.mounted
  <2>0. /\ Sane(u, h) /\ u.state = t.state /\ u.open \subseteq t.open
        /\ u.name = t.name /\ u.input = t.input /\ u.bytes = t.bytes
        /\ u.rate = t.rate /\ u.encoder = t.encoder /\ u.profile = t.profile /\ u.used = t.used /\ u.written = t.written
    BY <1>1, MountFacts
  <2>1. u \in OwnerType /\ (u.open # {} => u.mounted)
    BY <2>0 DEF Sane
  <2>2. t.open = {}
    BY <1>3, <1>1 DEF Sane
  <2> HIDE DEF u
  <2>3. StateFits(u)
    BY <2>0, <2>1, <2>2 DEF OwnerFits, StateFits
  <2>4. ProfileFits(u, h) /\ CardFits(u, c)
    BY <2>0, SameSettings DEF OwnerFits, ProfileFits, CardFits
  <2> QED BY <2>1, <2>3, <2>4 DEF OwnerFits, u
<1> QED BY <1>2, <1>3

(* serve_data().                                                           *)
LEMMA DataFits ==
  ASSUME OwnerFits(tx, card, chosen), ~playing, NEW out
  PROVE  Keeps(ServeData(out), chosen)
<1> DEFINE m == Mount(tx, out)
           more == AppendPayload(m.tx, out)
           res == ServeData(out)
<1>1. OwnerFits(m.tx, card, chosen) /\ (m.ok => m.tx.mounted /\ ~m.tx.cleanup)
      /\ (m.tx.mounted => tx.mounted \/ media = "local")
      /\ m.tx.state = tx.state /\ m.tx.bytes = tx.bytes
  BY FitsSane, MountFits, MountFacts
<1>2. res = IF tx.state \notin {"idle", "receiving"} \/ tx.bytes = MaxUpload THEN Result(FALSE, tx, card)
            ELSE IF ~m.ok THEN Result(FALSE, m.tx, card) ELSE more
  BY DEF ServeData
<1> HIDE DEF m, res
<1>3. CASE tx.state \notin {"idle", "receiving"} \/ tx.bytes = MaxUpload
  BY <1>2, <1>3 DEF Keeps, Result, res
<1>4. CASE ~(tx.state \notin {"idle", "receiving"} \/ tx.bytes = MaxUpload) /\ ~m.ok
  BY <1>1, <1>2, <1>4 DEF Keeps, Result, res
<1>5. CASE ~(tx.state \notin {"idle", "receiving"} \/ tx.bytes = MaxUpload) /\ m.ok
  <2>1. OwnerFits(more.tx, more.card, chosen) /\ (more.tx.mounted => m.tx.mounted)
    BY <1>1, <1>5, AppendFits
  <2> HIDE DEF more
  <2> QED BY <2>1, <1>1, <1>2, <1>5 DEF Keeps, res
<1> QED BY <1>3, <1>4, <1>5

(* serve_request().                                                        *)
LEMMA ServeFits ==
  ASSUME OwnerFits(tx, card, chosen), NEW r \in Request, NEW out
  PROVE  Keeps(Serve(r, out), Chosen(r, out))
<1>1. r.kind \in {"reset", "send", "data", "mode", "select", "generate"}
  BY RequestFields
<1>2. CASE r.kind = "reset"
  <2>1. Serve(r, out) = ServeReset(out)
    BY <1>2 DEF Serve
  <2>2. Chosen(r, out) = IF Serve(r, out).ok THEN DefaultChoice ELSE chosen
    BY <1>2 DEF Chosen
  <2> QED BY <2>1, <2>2, ResetFits
<1>3. CASE r.kind # "reset" /\ Busy
  <2>1. Serve(r, out) = Result(FALSE, tx, card)
    BY <1>3 DEF Serve
  <2>2. Chosen(r, out) = chosen
    BY <2>1, <1>3 DEF Chosen, Result, GenerateStarts
  <2> QED BY <2>1, <2>2 DEF Keeps, Result
<1>4. CASE r.kind = "mode" /\ ~Busy
  <2>1. Serve(r, out) = ServeMode(r)
    BY <1>4 DEF Serve
  <2>2. Chosen(r, out) = [rate |-> r.rate, encoder |-> "", profile |-> ""]
    BY <2>1, <1>4 DEF Chosen, ServeMode, Result
  <2>3. tx.state # "generating"
    BY <1>4 DEF Busy
  <2> QED BY <2>1, <2>2, <2>3, <1>4, ModeFits
<1>5. CASE r.kind = "select" /\ ~Busy
  <2>1. Serve(r, out) = ServeSelect(r, out)
    BY <1>5 DEF Serve
  <2>2. Chosen(r, out) = IF Serve(r, out).ok THEN [rate |-> chosen.rate, encoder |-> "", profile |-> ""] ELSE chosen
    BY <1>5 DEF Chosen
  <2>3. tx.state # "generating"
    BY <1>5 DEF Busy
  <2> QED BY <2>1, <2>2, <2>3, <1>5, SelectFits
<1>6. CASE r.kind = "data" /\ ~Busy
  <2>1. Serve(r, out) = ServeData(out)
    BY <1>6 DEF Serve
  <2>2. Chosen(r, out) = chosen /\ ~playing
    BY <1>6 DEF Chosen, Busy
  <2> QED BY <2>1, <2>2, <1>6, DataFits
<1>7. CASE r.kind = "send" /\ ~Busy
  <2>1. Serve(r, out) = ServeSend(out)
    BY <1>7 DEF Serve
  <2>2. Chosen(r, out) = chosen /\ ~playing
    BY <1>7 DEF Chosen, Busy
  <2> QED BY <2>1, <2>2, <1>7, SendFits
<1>8. CASE r.kind = "generate" /\ ~Busy
  <2>1. Serve(r, out) = ServeGenerate(r, out)
    BY <1>8 DEF Serve
  <2>2. Chosen(r, out) = IF GenerateStarts(out)
                         THEN [rate |-> r.rate, encoder |-> r.encoder, profile |-> r.profile] ELSE chosen
    BY <1>8 DEF Chosen
  <2> QED BY <2>1, <2>2, <1>8, GenerateFits
<1> QED BY <1>1, <1>2, <1>3, <1>4, <1>5, <1>6, <1>7, <1>8

-----------------------------------------------------------------------------
(* publish_artifact(): after each of its steps a manifest has its WAV.     *)
LEMMA PublishFacts ==
  ASSUME NEW f \in Files, f.JSON # "sealed", NEW k \in 1..6
  PROVE  LET g == PublishSteps(f)[k]
         IN  g \in Files /\ g.BIN = f.BIN /\ (g.JSON = "sealed" => g.WAV = "sealed")
<1> DEFINE s1 == [f EXCEPT !.TMP = "sealed"]
           s2 == [s1 EXCEPT !.JMP = "partial"]
           s3 == [s2 EXCEPT !.JMP = "sealed"]
           s4 == [s3 EXCEPT !.WAV = s3.TMP, !.TMP = "absent"]
           s5 == [s4 EXCEPT !.JSON = "sealed", !.JMP = "absent"]
<1>1. s1 \in Files /\ s1.BIN = f.BIN /\ s1.JSON = f.JSON /\ s1.TMP = "sealed"
  BY DEF Files
<1> HIDE DEF s1
<1>2. s2 \in Files /\ s2.BIN = f.BIN /\ s2.JSON = f.JSON /\ s2.TMP = "sealed"
  BY <1>1 DEF Files
<1> HIDE DEF s2
<1>3. s3 \in Files /\ s3.BIN = f.BIN /\ s3.JSON = f.JSON /\ s3.TMP = "sealed"
  BY <1>2 DEF Files
<1> HIDE DEF s3
<1>4. s4 \in Files /\ s4.BIN = f.BIN /\ s4.JSON = f.JSON /\ s4.WAV = "sealed"
  BY <1>3 DEF Files
<1> HIDE DEF s4
<1>5. s5 \in Files /\ s5.BIN = f.BIN /\ s5.WAV = "sealed"
  BY <1>4 DEF Files
<1> HIDE DEF s5
<1>6. PublishSteps(f) = <<f, s1, s2, s3, s4, s5>>
  BY DEF PublishSteps, s1, s2, s3, s4, s5
<1>7. PublishSteps(f)[k] \in {f, s1, s2, s3, s4, s5}
  BY <1>6
<1> QED BY <1>1, <1>2, <1>3, <1>4, <1>5, <1>7

LEMMA PublishFits ==
  ASSUME NEW t, NEW h, Sane(t, h), t.mounted, NEW c \in [Names -> Files], ManifestsWhole(c), c[t.name].JSON # "sealed", NEW out
  PROVE  LET res == PublishArtifact(t, c, out)
         IN  OwnerFits(res.tx, res.card, h) /\ (res.tx.mounted => t.mounted)
<1> DEFINE At(k) == [c EXCEPT ![t.name] = PublishSteps(c[t.name])[k]]
           closed == [t EXCEPT !.open = @ \cap out.held]
           named == [closed EXCEPT !.open = @ \cup {"manifest"}]
           shut == CloseFiles(closed, out.held)
           done == [shut EXCEPT !.state = "complete", !.used = NoSettings]
           res == PublishArtifact(t, c, out)
<1>1. t \in OwnerType /\ t.name \in Names
  BY DEF Sane, OwnerType
<1>2. ASSUME NEW k \in 1..6
      PROVE  At(k) \in [Names -> Files] /\ ManifestsWhole(At(k))
  <2>1. c[t.name] \in Files
    BY <1>1
  <2>2. PublishSteps(c[t.name])[k] \in Files
        /\ (PublishSteps(c[t.name])[k].JSON = "sealed" => PublishSteps(c[t.name])[k].WAV = "sealed")
    BY <2>1, PublishFacts
  <2> QED BY <2>2, <1>1, CardSet
<1>3. closed \in OwnerType /\ closed.mounted = t.mounted /\ closed.open = t.open \cap out.held
      /\ closed.rate = t.rate /\ closed.encoder = t.encoder /\ closed.profile = t.profile
  BY <1>1 DEF OwnerType
<1>4. Sane(closed, h)
  <2>1. closed.open # {} => t.open # {}
    BY <1>3
  <2> HIDE DEF closed
  <2> QED BY <2>1, <1>3, SameSettings DEF Sane
<1> HIDE DEF closed
<1>5. Sane(named, h)
  <2>1. named \in OwnerType /\ named.mounted /\ named.rate = closed.rate /\ named.encoder = closed.encoder
        /\ named.profile = closed.profile
    BY <1>3 DEF OwnerType
  <2> HIDE DEF named
  <2> QED BY <2>1, <1>4, SameSettings DEF Sane
<1>6. OwnerFits(done, At(6), h)
  <2>1. /\ shut \in OwnerType /\ (shut.open # {} => shut.mounted)
        /\ shut.rate = closed.rate /\ shut.encoder = closed.encoder /\ shut.profile = closed.profile
    BY <1>3, <1>4, CloseFacts DEF Sane
  <2> HIDE DEF shut
  <2>2. /\ done \in OwnerType /\ done.state = "complete" /\ done.open = shut.open /\ done.mounted = shut.mounted
        /\ done.rate = shut.rate /\ done.encoder = shut.encoder /\ done.profile = shut.profile
    BY <2>1, SettingsFacts DEF OwnerType
  <2> HIDE DEF done
  <2>3. StateFits(done)
    BY <2>1, <2>2 DEF StateFits
  <2>4. ProfileFits(done, h) /\ CardFits(done, At(6))
    BY <2>1, <2>2, <1>4, SameSettings DEF ProfileFits, CardFits, Sane
  <2>5. At(6) \in [Names -> Files] /\ ManifestsWhole(At(6))
    BY <1>2
  <2> HIDE DEF At
  <2> QED BY <2>2, <2>3, <2>4, <2>5 DEF OwnerFits
<1>7. /\ At(2) \in [Names -> Files] /\ ManifestsWhole(At(2))
      /\ At(3) \in [Names -> Files] /\ ManifestsWhole(At(3))
      /\ At(4) \in [Names -> Files] /\ ManifestsWhole(At(4))
      /\ At(5) \in [Names -> Files] /\ ManifestsWhole(At(5))
  <2> HIDE DEF At
  <2> QED BY <1>2
<1>8. \/ res = Failed(t, c, out)
      \/ res = Failed(closed, At(2), out) \/ res = Failed(closed, At(4), out) \/ res = Failed(closed, At(5), out)
      \/ res = Failed(named, At(3), out) \/ res = Failed(named, At(4), out)
      \/ res = Result(TRUE, done, At(6))
  BY DEF PublishArtifact, closed
<1> HIDE DEF At, named, done, res
<1>9. CASE res = Failed(t, c, out)
  BY <1>9, FailedFits DEF res
<1>10. CASE res = Failed(closed, At(2), out) \/ res = Failed(closed, At(4), out) \/ res = Failed(closed, At(5), out)
  <2>1. OwnerFits(res.tx, res.card, h)
    BY <1>4, <1>7, <1>10, FailedFits
  <2> QED BY <2>1 DEF res
<1>11. CASE res = Failed(named, At(3), out) \/ res = Failed(named, At(4), out)
  <2>1. OwnerFits(res.tx, res.card, h)
    BY <1>5, <1>7, <1>11, FailedFits
  <2> QED BY <2>1 DEF res
<1>12. CASE res = Result(TRUE, done, At(6))
  <2>1. OwnerFits(res.tx, res.card, h)
    BY <1>6, <1>12 DEF Result
  <2> QED BY <2>1 DEF res
<1> QED BY <1>8, <1>9, <1>10, <1>11, <1>12

(* WavGenerator::step() of a generation: the next block, a failure, or     *)
(* the publication of the WAV that is whole now.                           *)
LEMMA ContinueFits ==
  ASSUME NEW h, OwnerFits(tx, card, h), tx.state = "generating", NEW out
  PROVE  OwnerFits(ContinueGeneration(out).tx, ContinueGeneration(out).card, h)
<1> DEFINE t == [tx EXCEPT !.written = @ + 1]
           whole == [card EXCEPT ![tx.name].TMP = "whole"]
           res == ContinueGeneration(out)
<1>1. /\ tx \in OwnerType /\ card \in [Names -> Files] /\ ManifestsWhole(card) /\ Sane(tx, h) /\ tx.mounted
      /\ tx.open = {"payload", "output"} /\ tx.written \in 0..Blocks /\ tx.written < Blocks /\ Blocks \in Nat
      /\ ~tx.cleanup /\ tx.name \in Names /\ tx.used = RunsWith(h) /\ SettingsFit(tx, h)
      /\ card[tx.name].WAV = "absent" /\ card[tx.name].JSON = "absent" /\ card[tx.name].JMP = "absent"
  <2>1. tx \in OwnerType /\ card \in [Names -> Files] /\ ManifestsWhole(card) /\ Sane(tx, h)
    BY FitsSane DEF OwnerFits
  <2>2. tx.written \in 0..Blocks /\ tx.name \in Names /\ Blocks \in Nat
    BY <2>1, TxConstants DEF OwnerType
  <2>3. tx.open = {"payload", "output"} /\ tx.mounted /\ tx.written < Blocks /\ ~tx.cleanup
    BY DEF OwnerFits, StateFits
  <2>4. tx.used = RunsWith(h) /\ SettingsFit(tx, h)
    BY DEF OwnerFits, ProfileFits
  <2>5. card[tx.name].WAV = "absent" /\ card[tx.name].JSON = "absent" /\ card[tx.name].JMP = "absent"
    BY DEF OwnerFits, CardFits
  <2> QED BY <2>1, <2>2, <2>3, <2>4, <2>5
<1>2. tx.written + 1 \in 0..Blocks /\ (tx.written + 1 < Blocks \/ tx.written + 1 = Blocks)
  <2>1. tx.written \in 0..Blocks /\ tx.written < Blocks /\ Blocks \in Nat
    BY <1>1
  <2> QED BY <2>1
<1>3. /\ t \in OwnerType /\ t.open = tx.open /\ t.mounted /\ t.name = tx.name /\ t.rate = tx.rate
      /\ t.encoder = tx.encoder /\ t.profile = tx.profile /\ t.used = tx.used /\ t.state = tx.state
      /\ t.written = tx.written + 1 /\ ~t.cleanup
  BY <1>1, <1>2 DEF OwnerType
<1> HIDE DEF t
<1>4. Sane(t, h)
  BY <1>1, <1>3, SameSettings DEF Sane
<1>5. whole \in [Names -> Files] /\ ManifestsWhole(whole) /\ whole[tx.name].JSON # "sealed"
  <2> DEFINE f == [card[tx.name] EXCEPT !.TMP = "whole"]
  <2>1. card[tx.name] \in Files
    BY <1>1
  <2>2. f \in Files /\ f.JSON = "absent"
    BY <2>1, <1>1 DEF Files
  <2>3. whole = [card EXCEPT ![tx.name] = f]
    OBVIOUS
  <2> HIDE DEF f, whole
  <2>4. whole \in [Names -> Files] /\ ManifestsWhole(whole) /\ whole[tx.name] = f
    BY <2>2, <2>3, <1>1, CardSet
  <2> QED BY <2>2, <2>4
<1>6. CASE out.op = "write"
  <2>1. res = Failed(tx, card, out)
    BY <1>6 DEF ContinueGeneration
  <2> QED BY <2>1, <1>1, FailedFits
<1>7. CASE out.op # "write" /\ t.written < Blocks
  <2>1. res = Result(TRUE, t, card)
    BY <1>7 DEF ContinueGeneration, t
  <2>2. StateFits(t)
    BY <1>1, <1>3, <1>7 DEF StateFits
  <2>3. ProfileFits(t, h) /\ CardFits(t, card)
    BY <1>1, <1>3, SameSettings DEF ProfileFits, CardFits
  <2>4. OwnerFits(t, card, h)
    BY <2>2, <2>3, <1>1, <1>3 DEF OwnerFits
  <2>5. res.tx = t /\ res.card = card
    BY <2>1 DEF Result
  <2> HIDE DEF res
  <2> QED BY <2>4, <2>5 DEF res
<1>8. CASE out.op # "write" /\ ~(t.written < Blocks)
  <2>1. t.written = Blocks
    BY <1>2, <1>3, <1>8
  <2>2. res = PublishArtifact(t, whole, out)
    BY <2>1, <1>8 DEF ContinueGeneration, t
  <2> HIDE DEF whole, res
  <2>3. OwnerFits(PublishArtifact(t, whole, out).tx, PublishArtifact(t, whole, out).card, h)
    BY <1>3, <1>4, <1>5, PublishFits
  <2> QED BY <2>2, <2>3 DEF res
<1> QED BY <1>6, <1>7, <1>8

-----------------------------------------------------------------------------
(* What a disconnect leaves of a request or a reply under way.             *)
LEMMA OrphanFacts ==
  ASSUME NEW m
  PROVE  /\ m \in Waiting => Orphan(m) \in Waiting
         /\ m \in Served => Orphan(m) \in Served
         /\ m \in Reply => Orphan(m) \in Reply
         /\ Orphan(NoRequest) = NoRequest /\ Orphan(NoReply) = NoReply
         /\ m \in Waiting \cup Served => m # NoRequest
BY DEF Orphan, Waiting, Served, Reply, NoRequest, NoReply

LEMMA NewOwnerFits ==
  ASSUME NEW c \in [Names -> Files], ManifestsWhole(c)
  PROVE  OwnerFits(NewOwner, c, DefaultChoice) /\ ~NewOwner.mounted /\ NewOwner.open = {} /\ NewOwner.state = "idle"
<1> DEFINE n == CHOOSE n \in Names : TRUE
<1>1. n \in Names /\ 0 \in 0..MaxUpload /\ 0 \in 0..Blocks /\ DefaultRate \in Rates
  BY TxConstants
<1>2. NewOwner = [state |-> "idle", bytes |-> 0, written |-> 0, name |-> n, input |-> n, rate |-> DefaultRate,
                  encoder |-> "", profile |-> "", used |-> NoSettings, open |-> {}, mounted |-> FALSE, cleanup |-> FALSE]
  BY DEF NewOwner
<1> HIDE DEF n
<1>3. NewOwner \in OwnerType /\ NewOwner.open = {} /\ NewOwner.state = "idle" /\ NewOwner.bytes = 0
      /\ NewOwner.name = NewOwner.input /\ NewOwner.rate = DefaultRate /\ NewOwner.encoder = ""
      /\ NewOwner.profile = "" /\ ~NewOwner.mounted
  BY <1>1, <1>2, SettingsFacts DEF OwnerType
<1>4. SettingsFit(NewOwner, DefaultChoice)
  BY <1>3 DEF SettingsFit, DefaultChoice
<1> QED BY <1>3, <1>4, IdleFits

(* What the files of a stem come to when power fails.                      *)
LEMMA LostFacts ==
  ASSUME NEW f \in Files, f.JSON = "sealed" => f.WAV = "sealed", NEW g \in Lost(f)
  PROVE  g \in Files /\ (g.JSON = "sealed" => g.WAV = "sealed")
<1>1. PICK n \in IF tx.state = "receiving" THEN 0..f.BIN ELSE {f.BIN}, t \in Cut(f.TMP), j \in Cut(f.JMP) :
        g = [BIN |-> n, WAV |-> f.WAV, TMP |-> t, JSON |-> f.JSON, JMP |-> j]
  BY DEF Lost
<1>2. n \in NoFile..(MaxUpload + 1)
  <2>1. f.BIN \in NoFile..(MaxUpload + 1) /\ MaxUpload \in Nat
    BY TxConstants DEF Files
  <2> QED BY <2>1 DEF NoFile
<1>3. /\ t \in {"absent", "other", "partial", "whole", "sealed"}
      /\ j \in {"absent", "other", "partial", "sealed"}
  BY DEF Cut, Files
<1> QED BY <1>1, <1>2, <1>3 DEF Files

THEOREM UploadStarts == UploadInit => UploadInv
<1> SUFFICES ASSUME UploadInit PROVE UploadInv
  OBVIOUS
<1>1. card \in [Names -> Files] /\ ManifestsWhole(card)
  BY FoundAssumption DEF UploadInit, ManifestsWhole
<1>2. tx = NewOwner /\ chosen = DefaultChoice
  BY DEF UploadInit
<1>3. OwnerFits(tx, card, chosen) /\ ~tx.mounted /\ tx.open = {} /\ tx.state = "idle"
  BY <1>1, <1>2, NewOwnerFits
<1>4. UploadTypeOK
  BY <1>1, <1>2, <1>3, DefaultFacts DEF UploadInit, UploadTypeOK, OwnerFits
<1>5. TaskFits /\ GrantFits /\ MailFits
  BY DEF UploadInit, TaskFits, GrantFits, MailFits
<1>6. UploadOwnsCard
  BY <1>3 DEF UploadOwnsCard
<1> QED BY <1>3, <1>4, <1>5, <1>6 DEF UploadInv

(* The mailbox and the connection: the owner and its files stay.           *)
LEMMA UsbKeeps ==
  ASSUME UploadInv,
         (\E r \in Requests : Ask(r) \/ KeepAsking(r)) \/ Resubmit \/ TakeTxReply \/ DisconnectTx \/ AllowHost \/ HandToHost
  PROVE  UploadInv'
<1> USE DEF UploadInv
<1>1. tx' = tx /\ card' = card /\ chosen' = chosen
  BY DEF Ask, KeepAsking, Resubmit, TakeTxReply, DisconnectTx, AllowHost, HandToHost
<1>2. OwnerFits(tx, card, chosen)'
  BY <1>1
<1>3. ASSUME NEW r \in Request, usb \in {"idle", "asking"}, SubmitTx(r), usb' = "waiting", asked' \in {asked, NoRequest},
             UNCHANGED <<tx, card, response, dropped, task, current, playing, media, chosen>>
      PROVE  UploadInv'
  <2>1. slot' \in Waiting /\ slot'.live /\ response = NoReply /\ ~dropped /\ noted' = TRUE
    BY <1>3 DEF SubmitTx, MailboxFree, Waiting
  <2>2. UploadTypeOK'
    BY <1>3, <2>1 DEF UploadTypeOK
  <2>3. TaskFits'
    BY <1>3 DEF TaskFits
  <2>4. GrantFits'
    BY <1>3 DEF GrantFits
  <2>5. MailFits'
    BY <1>3, <2>1 DEF MailFits
  <2>6. UploadOwnsCard'
    BY <1>3 DEF UploadOwnsCard
  <2> QED BY <1>2, <2>2, <2>3, <2>4, <2>5, <2>6
<1>4. ASSUME NEW r \in Request, Ask(r)
      PROVE  UploadInv'
  BY <1>3, <1>4 DEF Ask
<1>5. ASSUME NEW r \in Request, KeepAsking(r)
      PROVE  UploadInv'
  <2>1. UploadTypeOK'
    BY <1>5 DEF UploadTypeOK, KeepAsking
  <2>2. TaskFits' /\ GrantFits'
    BY <1>5 DEF TaskFits, GrantFits, KeepAsking
  <2>3. MailFits' /\ UploadOwnsCard'
    BY <1>5 DEF MailFits, UploadOwnsCard, KeepAsking
  <2> QED BY <1>2, <2>1, <2>2, <2>3
<1>6. CASE Resubmit
  <2>1. asked \in Request
    BY <1>6 DEF Resubmit, UploadTypeOK
  <2> QED BY <1>3, <1>6, <2>1 DEF Resubmit
<1>7. CASE TakeTxReply
  <2>1. UploadTypeOK'
    BY <1>7 DEF UploadTypeOK, TakeTxReply
  <2>2. TaskFits' /\ GrantFits'
    BY <1>7 DEF TaskFits, GrantFits, TakeTxReply
  <2>3. MailFits' /\ UploadOwnsCard'
    BY <1>7 DEF MailFits, UploadOwnsCard, TakeTxReply
  <2> QED BY <1>2, <2>1, <2>2, <2>3
<1>8. CASE DisconnectTx
  <2>1. slot' = Orphan(slot) /\ current' = Orphan(current) /\ response' = Orphan(response)
    BY <1>8 DEF DisconnectTx
  <2>2. slot' \in Waiting \cup {NoRequest} /\ current' \in Served \cup {NoRequest} /\ response' \in Reply \cup {NoReply}
    BY <2>1, OrphanFacts DEF UploadTypeOK
  <2>3. UploadTypeOK'
    BY <1>8, <2>2 DEF UploadTypeOK, DisconnectTx
  <2>4. TaskFits'
    BY <1>8, <2>1, OrphanFacts DEF TaskFits, DisconnectTx
  <2>5. GrantFits' /\ MailFits' /\ UploadOwnsCard'
    BY <1>8 DEF GrantFits, MailFits, UploadOwnsCard, DisconnectTx
  <2> QED BY <1>2, <2>3, <2>4, <2>5
<1>9. CASE AllowHost
  <2>1. UploadTypeOK'
    BY <1>9 DEF UploadTypeOK, AllowHost
  <2>2. TaskFits'
    BY <1>9 DEF TaskFits, AllowHost
  <2>3. GrantFits'
    BY <1>9 DEF GrantFits, TxBusy, AllowHost
  <2>4. MailFits' /\ UploadOwnsCard'
    BY <1>9 DEF MailFits, UploadOwnsCard, TxBusy, AllowHost
  <2> QED BY <1>2, <2>1, <2>2, <2>3, <2>4
<1>10. CASE HandToHost
  <2>1. UploadTypeOK'
    BY <1>10 DEF UploadTypeOK, HandToHost
  <2>2. TaskFits' /\ GrantFits'
    BY <1>10 DEF TaskFits, GrantFits, HandToHost
  <2>3. MailFits' /\ UploadOwnsCard'
    BY <1>10 DEF MailFits, GrantFits, UploadOwnsCard, HandToHost
  <2> QED BY <1>2, <2>1, <2>2, <2>3
<1>11. \A r \in Requests : r \in Request
  BY DEF Requests
<1> QED BY <1>4, <1>5, <1>11, <1>6, <1>7, <1>8, <1>9, <1>10

(* MEDIA LOCAL: the files are the host's, and the owner had none open.     *)
LEMMA LocalKeeps ==
  ASSUME UploadInv, BackToLocal
  PROVE  UploadInv'
<1> USE DEF UploadInv
<1>1. tx' = tx /\ chosen' = chosen /\ tx.state \notin {"receiving", "generating"}
  BY DEF BackToLocal, UploadOwnsCard, OwnerFits, StateFits
<1>2. card' \in [Names -> Files] /\ ManifestsWhole(card')
  BY FoundAssumption DEF BackToLocal, ManifestsWhole
<1>3. OwnerFits(tx', card', chosen')
  BY <1>1, <1>2 DEF OwnerFits, CardFits
<1>4. UploadTypeOK'
  BY <1>2 DEF UploadTypeOK, BackToLocal
<1>5. TaskFits' /\ GrantFits' /\ MailFits'
  BY DEF TaskFits, GrantFits, MailFits, BackToLocal
<1>6. UploadOwnsCard'
  BY DEF UploadOwnsCard, BackToLocal
<1> QED BY <1>3, <1>4, <1>5, <1>6

(* The player task between the owner's operations.                         *)
LEMMA LoopKeeps ==
  ASSUME UploadInv, TakeRequest \/ Respond \/ NothingAsked \/ PlayCommand \/ RunEnds \/ Sleep \/ WakeUp
  PROVE  UploadInv'
<1> USE DEF UploadInv
<1>1. tx' = tx /\ card' = card /\ chosen' = chosen
  BY DEF TakeRequest, Respond, NothingAsked, PlayCommand, RunEnds, Sleep, WakeUp
<1>2. OwnerFits(tx, card, chosen)'
  BY <1>1
<1>3. CASE TakeRequest
  <2>1. slot \in Waiting
    BY <1>3 DEF UploadTypeOK, TakeRequest
  <2>2. slot \in Served
    BY <2>1 DEF Waiting, Served
  <2>3. UploadTypeOK'
    BY <1>3, <2>2 DEF UploadTypeOK, TakeRequest
  <2>4. TaskFits'
    BY <1>3, <2>1 DEF TaskFits, TakeRequest
  <2>5. GrantFits' /\ MailFits' /\ UploadOwnsCard'
    BY <1>3 DEF GrantFits, MailFits, UploadOwnsCard, TakeRequest
  <2> QED BY <1>2, <2>3, <2>4, <2>5
<1>4. CASE Respond
  <2>1. current \in Served /\ current.live \in BOOLEAN /\ current # NoRequest
    BY <1>4 DEF Respond, TaskFits, Served, NoRequest
  <2>2. response' \in Reply /\ (response'.live \/ dropped)
    BY <1>4, <2>1 DEF Respond, Reply, MailFits
  <2>3. task' \in {"wait", "generate"} /\ (task' = "generate" => tx.state = "generating")
    BY <1>4 DEF Respond, AfterRequest
  <2>4. UploadTypeOK'
    BY <1>4, <2>2, <2>3 DEF UploadTypeOK, Respond
  <2>5. TaskFits'
    BY <1>4, <2>3 DEF TaskFits, Respond
  <2>6. GrantFits' /\ UploadOwnsCard'
    BY <1>4 DEF GrantFits, UploadOwnsCard, Respond
  <2>7. MailFits'
    BY <1>4, <2>2 DEF MailFits, Respond
  <2> QED BY <1>2, <2>4, <2>5, <2>6, <2>7
<1>5. CASE NothingAsked
  <2>1. task' \in {"wait", "generate"} /\ (task' = "generate" => tx.state = "generating")
    BY <1>5 DEF NothingAsked, AfterRequest
  <2>2. UploadTypeOK'
    BY <1>5, <2>1 DEF UploadTypeOK, NothingAsked
  <2>3. TaskFits'
    BY <1>5, <2>1 DEF TaskFits, NothingAsked
  <2>4. GrantFits' /\ MailFits' /\ UploadOwnsCard'
    BY <1>5 DEF GrantFits, MailFits, UploadOwnsCard, NothingAsked
  <2> QED BY <1>2, <2>2, <2>3, <2>4
<1>6. CASE PlayCommand
  <2>1. UploadTypeOK' /\ TaskFits'
    BY <1>6 DEF UploadTypeOK, TaskFits, PlayCommand
  <2>2. GrantFits' /\ MailFits' /\ UploadOwnsCard'
    BY <1>6 DEF GrantFits, MailFits, UploadOwnsCard, PlayCommand, TxBusy
  <2> QED BY <1>2, <2>1, <2>2
<1>7. CASE RunEnds
  <2>1. UploadTypeOK' /\ TaskFits'
    BY <1>7 DEF UploadTypeOK, TaskFits, RunEnds
  <2>2. GrantFits' /\ MailFits' /\ UploadOwnsCard'
    BY <1>7 DEF GrantFits, MailFits, UploadOwnsCard, RunEnds
  <2> QED BY <1>2, <2>1, <2>2
<1>8. CASE Sleep
  <2>1. task' \in {"service", "asleep"} /\ noted' \in BOOLEAN
    BY <1>8 DEF Sleep
  <2>2. UploadTypeOK' /\ TaskFits'
    BY <1>8, <2>1 DEF UploadTypeOK, TaskFits, Sleep
  <2>3. GrantFits' /\ MailFits' /\ UploadOwnsCard'
    BY <1>8 DEF GrantFits, MailFits, UploadOwnsCard, Sleep
  <2> QED BY <1>2, <2>2, <2>3
<1>9. CASE WakeUp
  <2>1. UploadTypeOK' /\ TaskFits'
    BY <1>9 DEF UploadTypeOK, TaskFits, WakeUp
  <2>2. GrantFits' /\ MailFits' /\ UploadOwnsCard'
    BY <1>9 DEF GrantFits, MailFits, UploadOwnsCard, WakeUp
  <2> QED BY <1>2, <2>1, <2>2
<1> QED BY <1>3, <1>4, <1>5, <1>6, <1>7, <1>8, <1>9

(* An operation that keeps what fits, and mounts no card it may not have.  *)
LEMMA OwnerKeeps ==
  ASSUME UploadInv, OwnerFits(tx', card', chosen'), UNCHANGED <<usb, media, playing>>,
         tx'.mounted => tx.mounted \/ (media = "local" /\ ~playing /\ usb # "granted")
  PROVE  OwnerFits(tx, card, chosen)' /\ UploadOwnsCard' /\ (usb' = "granted" => ~tx'.mounted /\ tx'.open = {})
<1>1. tx'.open # {} => tx'.mounted
  BY DEF OwnerFits, StateFits
<1>2. UploadOwnsCard'
  BY <1>1 DEF UploadInv, UploadOwnsCard
<1>3. usb' = "granted" => ~tx'.mounted /\ tx'.open = {}
  BY <1>1 DEF UploadInv, UploadOwnsCard
<1> QED BY <1>2, <1>3

(* A disconnect that is served, and STOP: the job ends, or its cleanup is  *)
(* tried again.                                                            *)
LEMMA AbortKeeps ==
  ASSUME UploadInv, ServeDisconnect \/ StopAborts
  PROVE  UploadInv'
<1>1. PICK held \in Held :
        \/ tx' = FailJob(tx, held)
        \/ tx' = CloseFiles(tx, held) /\ tx.state \notin {"receiving", "generating"}
        \/ tx' = tx
  BY DEF ServeDisconnect, StopAborts, UploadInv, OwnerFits, StateFits
<1>2. card' = card /\ chosen' = chosen /\ UNCHANGED <<usb, media, playing>>
  BY DEF ServeDisconnect, StopAborts
<1>3. OwnerFits(tx', card', chosen') /\ (tx'.mounted => tx.mounted)
  <2>1. OwnerFits(tx, card, chosen) /\ Sane(tx, chosen) /\ card \in [Names -> Files] /\ ManifestsWhole(card)
    BY FitsSane DEF UploadInv, OwnerFits
  <2>2. CASE tx' = FailJob(tx, held)
    BY <2>1, <2>2, <1>2, FailFits
  <2>3. CASE tx' = CloseFiles(tx, held) /\ tx.state \notin {"receiving", "generating"}
    BY <2>1, <2>3, <1>2, CloseFits
  <2>4. CASE tx' = tx
    BY <2>1, <2>4, <1>2
  <2> QED BY <1>1, <2>2, <2>3, <2>4
<1>4. OwnerFits(tx, card, chosen)' /\ UploadOwnsCard' /\ (usb' = "granted" => ~tx'.mounted /\ tx'.open = {})
  BY <1>2, <1>3, OwnerKeeps
<1>5. tx' \in OwnerType
  BY <1>3 DEF OwnerFits
<1>6. CASE ServeDisconnect
  <2>1. task' \in {"wait", "generate"} /\ (task' = "generate" => tx'.state = "generating")
    BY <1>6 DEF ServeDisconnect, AfterRequest
  <2>2. current = NoRequest
    BY <1>6 DEF ServeDisconnect, UploadInv, TaskFits
  <2>3. UploadTypeOK'
    BY <1>5, <1>6, <2>1 DEF ServeDisconnect, UploadInv, UploadTypeOK
  <2>4. TaskFits'
    BY <1>6, <2>1, <2>2 DEF ServeDisconnect, TaskFits
  <2>5. GrantFits'
    BY <1>4, <1>6 DEF ServeDisconnect, UploadInv, GrantFits
  <2>6. MailFits'
    BY <1>6, <2>2 DEF ServeDisconnect, UploadInv, MailFits
  <2> QED BY <1>4, <2>3, <2>4, <2>5, <2>6 DEF UploadInv
<1>7. CASE StopAborts
  <2>1. UploadTypeOK'
    BY <1>5, <1>7 DEF StopAborts, UploadInv, UploadTypeOK
  <2>2. TaskFits'
    BY <1>7 DEF StopAborts, UploadInv, TaskFits
  <2>3. GrantFits'
    BY <1>4, <1>7 DEF StopAborts, UploadInv, GrantFits
  <2>4. MailFits'
    BY <1>7 DEF StopAborts, UploadInv, MailFits
  <2> QED BY <1>4, <2>1, <2>2, <2>3, <2>4 DEF UploadInv
<1> QED BY <1>6, <1>7

(* A request being served keeps MEDIA HOST out: only one that finds no     *)
(* run may mount the card.                                                 *)
LEMMA RequestKeeps ==
  ASSUME UploadInv, ServeRequest
  PROVE  UploadInv'
<1>1. current \in Waiting /\ current.r \in Request /\ current.live \in BOOLEAN /\ current # NoRequest
  BY DEF ServeRequest, UploadInv, TaskFits, Waiting, NoRequest
<1>2. PICK out \in ServeOutcome : tx' = Serve(current.r, out).tx /\ card' = Serve(current.r, out).card
        /\ chosen' = Chosen(current.r, out)
  BY DEF ServeRequest
<1>3. UNCHANGED <<usb, media, playing>> /\ usb # "granted"
  BY <1>1 DEF ServeRequest, UploadInv, GrantFits
<1>4. OwnerFits(tx', card', chosen') /\ (tx'.mounted => tx.mounted \/ (media = "local" /\ ~playing))
  BY <1>1, <1>2, ServeFits DEF UploadInv, Keeps
<1>5. OwnerFits(tx, card, chosen)' /\ UploadOwnsCard'
  BY <1>3, <1>4, OwnerKeeps
<1>6. current' = [current EXCEPT !.r = NoRequest]
  BY DEF ServeRequest
<1>7. current' \in Served /\ current'.live = current.live
  BY <1>1, <1>6 DEF Waiting, Served
<1>12. chosen' \in Choice
  BY <1>1, <1>2, ChoiceFacts DEF UploadInv, UploadTypeOK
<1>8. UploadTypeOK'
  BY <1>4, <1>7, <1>12 DEF ServeRequest, UploadInv, UploadTypeOK, OwnerFits
<1>9. TaskFits'
  BY <1>7 DEF ServeRequest, TaskFits
<1>10. GrantFits'
  BY <1>3 DEF GrantFits
<1>11. MailFits'
  BY <1>1, <1>7 DEF ServeRequest, UploadInv, MailFits
<1> QED BY <1>5, <1>8, <1>9, <1>10, <1>11 DEF UploadInv

LEMMA GenerateKeeps ==
  ASSUME UploadInv, Generate
  PROVE  UploadInv'
<1>1. tx.state = "generating" /\ tx.mounted /\ UNCHANGED <<usb, media, playing, chosen>>
  BY DEF Generate, UploadInv, TaskFits, OwnerFits, StateFits
<1>2. PICK out \in BlockOutcome : tx' = ContinueGeneration(out).tx /\ card' = ContinueGeneration(out).card
  BY DEF Generate
<1>3. OwnerFits(tx', card', chosen')
  BY <1>1, <1>2, ContinueFits DEF UploadInv
<1>4. OwnerFits(tx, card, chosen)' /\ UploadOwnsCard' /\ (usb' = "granted" => ~tx'.mounted /\ tx'.open = {})
  BY <1>1, <1>3, OwnerKeeps
<1>5. UploadTypeOK'
  BY <1>3 DEF Generate, UploadInv, UploadTypeOK, OwnerFits
<1>6. TaskFits'
  BY DEF Generate, UploadInv, TaskFits
<1>7. GrantFits' /\ MailFits'
  BY <1>4 DEF Generate, UploadInv, GrantFits, MailFits
<1> QED BY <1>4, <1>5, <1>6, <1>7 DEF UploadInv

(* Power fails between two steps of the owner or of a publication.         *)
LEMMA PowerKeeps ==
  ASSUME UploadInv, PowerCut
  PROVE  UploadInv'
<1>1. card \in [Names -> Files] /\ ManifestsWhole(card) /\ tx.name \in Names /\ card[tx.name] \in Files
  BY DEF UploadInv, OwnerFits, OwnerType
<1> DEFINE whole == [card[tx.name] EXCEPT !.TMP = "whole"]
<1>2. PICK f \in IF task = "generate" /\ tx.written + 1 = Blocks
                 THEN {PublishSteps(whole)[k] : k \in 1..6} ELSE {card[tx.name]} :
        \E g \in Lost(f) : card' = [card EXCEPT ![tx.name] = g]
  BY DEF PowerCut
<1>3. f \in Files /\ (f.JSON = "sealed" => f.WAV = "sealed")
  <2>1. CASE task = "generate"
    <3>1. card[tx.name].JSON = "absent"
      BY <2>1 DEF UploadInv, TaskFits, OwnerFits, CardFits
    <3>2. whole \in Files /\ whole.JSON # "sealed"
      BY <1>1, <3>1 DEF Files
    <3> HIDE DEF whole
    <3>3. (\E k \in 1..6 : f = PublishSteps(whole)[k]) \/ f = card[tx.name]
      BY <1>2
    <3> QED BY <1>1, <3>1, <3>2, <3>3, PublishFacts
  <2>2. CASE task # "generate"
    BY <1>1, <1>2, <2>2 DEF ManifestsWhole
  <2> QED BY <2>1, <2>2
<1>4. PICK g \in Lost(f) : card' = [card EXCEPT ![tx.name] = g]
  BY <1>2
<1>5. g \in Files /\ (g.JSON = "sealed" => g.WAV = "sealed")
  BY <1>3, LostFacts
<1>6. card' \in [Names -> Files] /\ ManifestsWhole(card')
  BY <1>1, <1>4, <1>5, CardSet
<1>7. tx' = NewOwner /\ chosen' = DefaultChoice
  BY DEF PowerCut
<1>8. OwnerFits(tx', card', chosen') /\ ~tx'.mounted /\ tx'.open = {} /\ tx'.state = "idle"
  BY <1>6, <1>7, NewOwnerFits
<1>9. UploadTypeOK'
  BY <1>6, <1>7, <1>8, DefaultFacts DEF PowerCut, UploadInv, UploadTypeOK, OwnerFits
<1>10. TaskFits' /\ GrantFits' /\ MailFits'
  BY DEF PowerCut, TaskFits, GrantFits, MailFits
<1>11. UploadOwnsCard'
  BY <1>8 DEF UploadOwnsCard
<1> QED BY <1>8, <1>9, <1>10, <1>11 DEF UploadInv

THEOREM UploadStep == UploadInv /\ [UploadNext]_txVars => UploadInv'
<1> SUFFICES ASSUME UploadInv, [UploadNext]_txVars PROVE UploadInv'
  OBVIOUS
<1>1. CASE ServiceTx
  BY <1>1, AbortKeeps, LoopKeeps, RequestKeeps, GenerateKeeps DEF ServiceTx
<1>2. CASE Sleep \/ WakeUp \/ StopAborts \/ PlayCommand \/ RunEnds
  BY <1>2, AbortKeeps, LoopKeeps
<1>3. CASE UsbTxNext
  BY <1>3, UsbKeeps, LocalKeeps DEF UsbTxNext
<1>4. CASE PowerCut
  BY <1>4, PowerKeeps
<1>5. CASE UNCHANGED txVars
  <2>1. UploadTypeOK' /\ TaskFits'
    BY <1>5 DEF txVars, UploadInv, UploadTypeOK, TaskFits
  <2>2. GrantFits' /\ MailFits' /\ UploadOwnsCard'
    BY <1>5 DEF txVars, UploadInv, GrantFits, MailFits, UploadOwnsCard
  <2>3. OwnerFits(tx, card, chosen)'
    BY <1>5 DEF txVars, UploadInv
  <2> QED BY <2>1, <2>2, <2>3 DEF UploadInv
<1> QED BY <1>1, <1>2, <1>3, <1>4, <1>5 DEF UploadNext, OwnerNext

(* The inductive invariant holds of every behaviour, whichever operations  *)
(* of the file system fail and wherever power does.                        *)
THEOREM UploadInvariant == UploadSpec => []UploadInv
<1>1. UploadInit => UploadInv
  BY UploadStarts
<1>2. UploadInv /\ [UploadNext]_txVars => UploadInv'
  BY UploadStep
<1> QED BY <1>1, <1>2, PTL DEF UploadSpec

(* A manifest under its final name stands beside a WAV that is whole and   *)
(* synced: publish_artifact() syncs the WAV and renames it first, and a    *)
(* generation starts only where check_outputs_absent() finds no manifest.  *)
THEOREM ManifestsAreWhole == UploadSpec => []ManifestMeansWhole
<1>1. UploadInv => ManifestMeansWhole
  BY DEF UploadInv, OwnerFits, ManifestsWhole, ManifestMeansWhole
<1> QED BY <1>1, UploadInvariant, PTL

(* The owner has the card mounted only while it is local, not granted to   *)
(* the host and played by no run.                                          *)
THEOREM UploadHasCard == UploadSpec => []UploadOwnsCard
<1>1. UploadInv => UploadOwnsCard
  BY DEF UploadInv
<1> QED BY <1>1, UploadInvariant, PTL

(* A connection that waits finds no reply of an earlier one.               *)
THEOREM RepliesAreCurrent == UploadSpec => []ReplyIsCurrent
<1>1. UploadInv => ReplyIsCurrent
  BY DEF UploadInv, MailFits, ReplyIsCurrent
<1> QED BY <1>1, UploadInvariant, PTL

(* A generation's writer has the encoder and the profile chosen last: what *)
(* an ENCODE line gave, or what an earlier generation filled in, does not  *)
(* reach the SEND or GENERATE of a later choice.                           *)
THEOREM ModesAreCurrent == UploadSpec => []ModeIsCurrent
<1>1. UploadInv => ModeIsCurrent
  BY DEF UploadInv, OwnerFits, ProfileFits, ModeIsCurrent
<1> QED BY <1>1, UploadInvariant, PTL
=============================================================================
