-------------------------- MODULE PrepareJob_proofs --------------------------
(***************************************************************************)
(* Proofs about PrepareJob: what a job leaves on the card, how it ends and *)
(* how its cursors stand, for every request, block size and file length,   *)
(* whatever its calls into FatFs and the engine do.  The lemmas speak of   *)
(* the record j and not of the variable, so that the modules that own a    *)
(* job can cite them.                                                      *)
(***************************************************************************)
EXTENDS PrepareJob, TLAPS

Early == BeforePaths \cup {"path_checks"} \cup BeforeOutput
Working == Early \cup Rendering \cup Later

LEMMA WorkParts ==
  /\ Work = {"idle", "cleanup", "terminal"} \cup Working
  /\ \A w \in Working : w \notin {"idle", "cleanup", "terminal"}
BY DEF Work, Working, Early, Later, BeforePaths, BeforeOutput, Rendering, Unsynced, Unverified, Manifest, Publishing

(* What a step that touches no file and no cursor of the render leaves.    *)
Same(j, u) ==
  /\ u.failure = j.failure /\ u.terminal = j.terminal /\ u.published = j.published
  /\ u.rendered = j.rendered /\ u.produced = j.produced
  /\ u.card = j.card /\ u.bound = j.bound /\ u.writer = j.writer

(* A job that works has neither failed nor begun to end.                   *)
LEMMA WorkingFacts ==
  ASSUME NEW j, JobFits(j), j.work \in Working
  PROVE  /\ j \in JobType /\ JobSound(j) /\ j.failure = "ok" /\ j.terminal = "idle" /\ j.published = FALSE
         /\ j.phase \notin {"complete", "cancelled"}
<1>1. j.work \notin {"idle", "cleanup", "terminal"}
  BY WorkParts
<1>2. j.published \in BOOLEAN
  BY DEF JobFits, JobSound, JobType
<1> QED BY <1>1, <1>2 DEF JobFits, JobSound, JobEnds

LEMMA EndsWorking ==
  ASSUME NEW u, u.work \in Working, u.failure = "ok", u.terminal = "idle", u.published = FALSE,
         u.phase \notin {"complete", "cancelled"}
  PROVE  JobEnds(u)
BY WorkParts DEF JobEnds

LEMMA SoundStep ==
  ASSUME NEW j, NEW u, JobSound(j), u \in JobType, u.card = j.card, u.bound = j.bound, u.writer = j.writer,
         "output" \in j.open => "output" \in u.open,
         u.open \cap {"engine", "output", "manifest"} # {} =>
           j.open \cap {"engine", "output", "manifest"} # {} \/ \A n \in Name : j.card[n] # "foreign"
  PROVE  JobSound(u)
BY DEF JobSound

LEMMA OpenedFacts ==
  ASSUME NEW j \in JobType, NEW r \in Resource
  PROVE  LET u == Opened(j, r)
         IN  /\ u \in JobType /\ u.open = j.open \cup {r} /\ Same(j, u) /\ u.phase = j.phase /\ u.work = j.work
             /\ u.input = j.input /\ u.source = j.source /\ u.at = j.at /\ u.ask = j.ask
<1> DEFINE u == [j EXCEPT !.open = @ \cup {r}]
<1>1. u \in JobType
  BY DEF JobType
<1>2. /\ u.open = j.open \cup {r} /\ Same(j, u) /\ u.phase = j.phase /\ u.work = j.work
      /\ u.input = j.input /\ u.source = j.source /\ u.at = j.at /\ u.ask = j.ask
  BY DEF JobType, Same
<1>3. Opened(j, r) = u
  BY DEF Opened
<1> HIDE DEF u
<1> QED BY <1>1, <1>2, <1>3

LEMMA ClosedFacts ==
  ASSUME NEW j \in JobType, NEW r \in Resource
  PROVE  LET u == Closed(j, r)
         IN  /\ u \in JobType /\ u.open = j.open \ {r} /\ Same(j, u) /\ u.phase = j.phase /\ u.work = j.work
             /\ u.input = j.input /\ u.source = j.source /\ u.at = j.at /\ u.ask = j.ask
             /\ u.status = j.status
<1> DEFINE u == [j EXCEPT !.open = @ \ {r}]
<1>1. u \in JobType
  BY DEF JobType
<1>2. /\ u.open = j.open \ {r} /\ Same(j, u) /\ u.phase = j.phase /\ u.work = j.work
      /\ u.input = j.input /\ u.source = j.source /\ u.at = j.at /\ u.ask = j.ask
      /\ u.status = j.status
  BY DEF JobType, Same
<1>3. Closed(j, r) = u
  BY DEF Closed
<1> HIDE DEF u
<1> QED BY <1>1, <1>2, <1>3

LEMMA GoFacts ==
  ASSUME NEW j \in JobType, NEW w \in Work
  PROVE  LET u == Go(j, w).job
         IN  /\ u \in JobType /\ u.work = w /\ Same(j, u) /\ u.open = j.open /\ u.phase = j.phase
             /\ u.input = j.input /\ u.source = j.source /\ u.at = j.at /\ u.ask = j.ask
<1> DEFINE u == [j EXCEPT !.work = w]
<1>1. u \in JobType
  BY DEF JobType
<1>2. /\ u.work = w /\ Same(j, u) /\ u.open = j.open /\ u.phase = j.phase
      /\ u.input = j.input /\ u.source = j.source /\ u.at = j.at /\ u.ask = j.ask
  BY DEF JobType, Same
<1>3. Go(j, w).job = u
  BY DEF Go, Ok, Return
<1> HIDE DEF u
<1> QED BY <1>1, <1>2, <1>3

(* fail() turns to the cleanup, with the first failure of the job.         *)
LEMMA FailKeeps ==
  ASSUME NEW j, JobSound(j), j.terminal = "idle", j.published = FALSE, j.phase \notin {"complete", "cancelled"},
         NEW s \in Statuses
  PROVE  LET u == FailWith(j, s).job
         IN  /\ JobFits(u) /\ u.work = "cleanup" /\ (j.failure # "ok" => u.failure = j.failure)
<1> DEFINE cause == IF j.failure = "ok" THEN s ELSE j.failure
           end == IF j.failure = "ok" THEN "failed" ELSE j.terminal
           u == [j EXCEPT !.failure = cause, !.terminal = end, !.status = cause, !.work = "cleanup"]
<1>1. j \in JobType
  BY DEF JobSound
<1>2. cause \in Statuses /\ end \in {"idle", "failed"}
  BY <1>1 DEF JobType
<1>3. FailWith(j, s).job = u
  BY DEF FailWith, Return
<1> HIDE DEF cause, end
<1>4. u \in JobType
  BY <1>1, <1>2 DEF JobType, Work
<1>5. /\ u.failure = cause /\ u.terminal = end /\ u.work = "cleanup" /\ u.phase = j.phase
      /\ u.card = j.card /\ u.bound = j.bound /\ u.writer = j.writer /\ u.open = j.open
  BY <1>1 DEF JobType
<1> HIDE DEF u
<1>6. JobSound(u)
  BY <1>4, <1>5, SoundStep
<1>7. JobEnds(u)
  BY <1>2, <1>5 DEF JobEnds
<1>8. JobFiles(u)
  BY <1>5 DEF JobFiles, BeforeOutput, Writing, Rendering, Unsynced, Unverified, Manifest, Publishing
<1>9. JobCursors(u)
  BY <1>5 DEF JobCursors, BeforePaths, BeforeOutput, Writing, Rendering, Unsynced, Unverified, Manifest, Publishing, Loops
<1> QED BY <1>3, <1>5, <1>6, <1>7, <1>8, <1>9 DEF JobFits, cause

(* A working job that fails where it stands, or with one more file open.   *)
LEMMA WorkingFails ==
  ASSUME NEW j, JobFits(j), j.work \in Working, NEW s \in Statuses
  PROVE  JobFits(FailWith(j, s).job)
BY WorkingFacts, FailKeeps

LEMMA OpenedFails ==
  ASSUME NEW j, JobFits(j), j.work \in Working, NEW s \in Statuses, NEW r \in {"mount", "source", "work", "secondary"}
  PROVE  JobFits(FailWith(Opened(j, r), s).job)
<1> DEFINE v == Opened(j, r)
<1>1. r \in Resource
  BY DEF Resource
<1>2. v \in JobType /\ v.open = j.open \cup {r} /\ Same(j, v) /\ v.phase = j.phase
  BY <1>1, WorkingFacts, OpenedFacts
<1> HIDE DEF v
<1>3. JobSound(v)
  BY <1>2, WorkingFacts, SoundStep DEF Same
<1> QED BY <1>2, <1>3, WorkingFacts, FailKeeps DEF Same, v

-----------------------------------------------------------------------------
(* The steps before OUT.TMP is made: they open and read the inputs, and    *)
(* look for the five names on the card.                                    *)
LEMMA EarlyKeeps ==
  ASSUME NEW j, NEW u, JobFits(j), j.work \in Early, u \in JobType, u.work \in Early, Same(j, u),
         "output" \in j.open => "output" \in u.open,
         u.open \subseteq j.open \cup {"mount", "source", "work", "secondary"}
           \/ \A n \in Name : j.card[n] # "foreign",
         u.phase \notin {"complete", "cancelled", "rendering"}, u.work \in Loops => u.at <= Chunks,
         u.work = "path_checks" => u.at <= 5 /\ \A i \in 1 .. u.at : j.card[Paths[i]] = "absent",
         u.work \in BeforeOutput => \A n \in Name : j.card[n] = "absent"
  PROVE  JobFits(u)
<1>1. j.work \in Working /\ u.work \in Working
  BY DEF Working
<1>2. /\ JobSound(j) /\ j.failure = "ok" /\ j.terminal = "idle" /\ j.published = FALSE
  BY <1>1, WorkingFacts
<1>3. JobSound(u)
  BY <1>2, SoundStep DEF Same
<1>4. JobEnds(u)
  BY <1>1, <1>2, EndsWorking DEF Same
<1>5. u.work \notin Writing \cup Unsynced \cup Unverified \cup {"verify_close", "output_finish"} \cup Manifest \cup Publishing
      /\ u.work \notin Rendering
  BY DEF Early, BeforePaths, BeforeOutput, Writing, Rendering, Unsynced, Unverified, Manifest, Publishing
<1>6. JobFiles(u)
  <2>1. u.work \notin {"manifest_write", "manifest_sync", "manifest_close", "publish_wav", "publish_manifest"}
    BY <1>5 DEF Manifest, Publishing
  <2> QED BY <1>5, <2>1 DEF JobFiles, Same
<1>7. j.rendered = 0 /\ j.produced = 0
  BY DEF JobFits, JobCursors, Early
<1>8. JobCursors(u)
  BY <1>5, <1>7 DEF JobCursors, Same
<1> QED BY <1>3, <1>4, <1>6, <1>8 DEF JobFits

LEMMA EarlyPhase ==
  ASSUME NEW j, JobFits(j), j.work \in Early
  PROVE  j.work \in Working /\ j \in JobType /\ j.phase \notin {"complete", "cancelled", "rendering"}
<1>1. j.work \in Working
  BY DEF Working
<1> QED BY <1>1, WorkingFacts DEF JobFits, JobCursors, Early, Writing, Rendering, BeforePaths, BeforeOutput

(* The names stay free once they were found free.                          *)
LEMMA EarlyFree ==
  ASSUME NEW j, JobFits(j), j.work \in BeforeOutput
  PROVE  \A n \in Name : j.card[n] = "absent"
BY DEF JobFits, JobFiles

(* Moving on from one of them, and from a chunk to the next.               *)
LEMMA EarlyGoes ==
  ASSUME NEW j, JobFits(j), j.work \in Early, NEW w \in Early \ (Loops \cup {"path_checks"}),
         w \in BeforeOutput => j.work \in BeforeOutput
  PROVE  JobFits(Go(j, w).job)
<1> DEFINE u == Go(j, w).job
<1>1. w \in Work
  BY WorkParts DEF Working
<1>2. u \in JobType /\ u.work = w /\ Same(j, u) /\ u.open = j.open /\ u.phase = j.phase
  BY <1>1, EarlyPhase, GoFacts
<1> HIDE DEF u
<1>3. JobFits(u)
  BY <1>2, EarlyPhase, EarlyFree, EarlyKeeps
<1> QED BY <1>3 DEF u

LEMMA EarlyLoops ==
  ASSUME NEW j, JobFits(j), j.work \in Early \cap Loops, NEW w \in Early \ (Loops \cup {"path_checks"}),
         w \in BeforeOutput => j.work \in BeforeOutput, NEW out \in Outcome
  PROVE  JobFits(ChunkLoop(j, out, w).job)
<1> DEFINE u == [j EXCEPT !.at = @ + 1]
<1>1. j \in JobType /\ j.at \in Nat /\ j.at <= Chunks
  BY EarlyPhase DEF JobType, JobFits, JobCursors
<1>2. u \in JobType
  BY <1>1 DEF JobType
<1>3. u.at = j.at + 1 /\ u.work = j.work /\ u.open = j.open /\ u.phase = j.phase /\ Same(j, u)
  BY <1>1 DEF JobType, Same
<1>4. ChunkLoop(j, out, w).job = IF j.at = Chunks THEN Go(j, w).job
                                 ELSE IF out # "ok" THEN FailWith(j, "io_error").job ELSE u
  BY DEF ChunkLoop, Fault, Ok, Return
<1> HIDE DEF u
<1>5. j.at # Chunks => u.at <= Chunks
  BY <1>1, <1>3, ChunksAssumption
<1>6. j.work # "path_checks"
  BY DEF Loops
<1>7. j.at # Chunks => JobFits(u)
  BY <1>2, <1>3, <1>5, <1>6, EarlyPhase, EarlyFree, EarlyKeeps
<1>8. JobFits(FailWith(j, "io_error").job)
  BY EarlyPhase, WorkingFails DEF Statuses
<1> QED BY <1>4, <1>7, <1>8, EarlyGoes

LEMMA EarlyCloses ==
  ASSUME NEW j, JobFits(j), j.work \in Early, NEW w \in Early \ (Loops \cup {"path_checks"}),
         w \in BeforeOutput => j.work \in BeforeOutput, NEW out \in Outcome
  PROVE  JobFits(CloseThen(j, out, "work", w).job)
<1> DEFINE c == Closed(j, "work")
           u == Go(c, w).job
<1>1. w \in Work /\ "work" \in Resource
  BY WorkParts DEF Working, Resource
<1>2. c \in JobType /\ c.open = j.open \ {"work"} /\ Same(j, c) /\ c.phase = j.phase
  BY <1>1, EarlyPhase, ClosedFacts
<1>3. CloseThen(j, out, "work", w).job \in {FailWith(j, "io_error").job, u}
  BY DEF CloseThen, Fault
<1> HIDE DEF c
<1>4. u \in JobType /\ u.work = w /\ Same(c, u) /\ u.open = c.open /\ u.phase = c.phase
  BY <1>1, <1>2, GoFacts
<1> HIDE DEF u
<1>5. u.open \subseteq j.open /\ ("output" \in j.open => "output" \in u.open) /\ Same(j, u)
  BY <1>2, <1>4 DEF Same
<1>6. JobFits(u)
  BY <1>2, <1>4, <1>5, EarlyPhase, EarlyFree, EarlyKeeps
<1>7. JobFits(FailWith(j, "io_error").job)
  BY EarlyPhase, WorkingFails DEF Statuses
<1> QED BY <1>3, <1>6, <1>7

LEMMA MountKeeps ==
  ASSUME NEW j, JobFits(j), j.work = "mount", NEW out \in Outcome
  PROVE  JobFits(MountStep(j, out).job)
<1> DEFINE m == Opened(j, "mount")
           u == Go(m, "source_open").job
<1>1. j.work \in Early /\ "source_open" \in Early /\ "source_open" \notin Loops \cup BeforeOutput /\ "source_open" \in Work
  BY DEF Early, BeforePaths, BeforeOutput, Loops, Work
<1>2. "mount" \in Resource /\ "io_error" \in Statuses
  BY DEF Resource, Statuses
<1>3. m \in JobType /\ m.open = j.open \cup {"mount"} /\ Same(j, m) /\ m.phase = j.phase
  BY <1>1, <1>2, EarlyPhase, OpenedFacts
<1>4. JobFits(Fault(m).job)
  BY <1>1, <1>2, EarlyPhase, OpenedFails DEF Fault
<1>5. MountStep(j, out).job = IF out # "ok" THEN Fault(m).job ELSE u
  BY DEF MountStep
<1> HIDE DEF m
<1>6. u \in JobType /\ u.work = "source_open" /\ Same(m, u) /\ u.open = m.open /\ u.phase = m.phase
  BY <1>1, <1>3, GoFacts
<1> HIDE DEF u
<1>7. JobFits(u)
  BY <1>1, <1>3, <1>6, EarlyPhase, EarlyKeeps DEF Same
<1> QED BY <1>4, <1>5, <1>7

(* A step that opens r and goes on to walk a file from its start.          *)
OpensAndWalks(j, u, r, w, phase) ==
  /\ u \in JobType /\ u.work = w /\ u.at = 0 /\ u.open = j.open \cup {r} /\ u.phase = phase /\ Same(j, u)

LEMMA OpensKeep ==
  ASSUME NEW j, NEW u, JobFits(j), j.work \in Early, NEW w \in Loops \cap Early, NEW r \in {"source", "work", "secondary"},
         NEW phase \in Phase \ {"complete", "cancelled", "rendering"}, OpensAndWalks(j, u, r, w, phase),
         w \in BeforeOutput => j.work \in BeforeOutput
  PROVE  JobFits(u)
<1>1. w # "path_checks" /\ u.at <= Chunks
  BY ChunksAssumption DEF Loops, OpensAndWalks
<1>2. w \in BeforeOutput => \A n \in Name : j.card[n] = "absent"
  BY DEF JobFits, JobFiles
<1> QED BY <1>1, <1>2, EarlyKeeps DEF OpensAndWalks

LEMMA OpenSourceKeeps ==
  ASSUME NEW j, JobFits(j), j.work = "source_open", NEW out \in Outcome
  PROVE  JobFits(OpenSourceStep(j, out).job)
<1> DEFINE s == Opened(j, "source")
           l == [s EXCEPT !.failure = "io_error"]
           v == [s EXCEPT !.source = j.ask.frames, !.at = 0, !.phase = "hashing_source"]
           u == Go(v, "source_hash").job
<1>1. j.work \in Early /\ "source_hash" \in Loops \cap Early /\ "source_hash" \in Work /\ "source_hash" \notin BeforeOutput
  BY DEF Early, BeforePaths, BeforeOutput, Loops, Work
<1>2. "source" \in Resource /\ "io_error" \in Statuses /\ "invalid_configuration" \in Statuses
      /\ "hashing_source" \in Phase \ {"complete", "cancelled", "rendering"}
  BY DEF Resource, Statuses, Phase
<1>3. j \in JobType /\ JobSound(j) /\ j.terminal = "idle" /\ j.published = FALSE /\ j.phase \notin {"complete", "cancelled"}
  BY <1>1, EarlyPhase, WorkingFacts
<1>4. s \in JobType /\ s.open = j.open \cup {"source"} /\ Same(j, s) /\ s.phase = j.phase
  BY <1>2, <1>3, OpenedFacts
<1>5. JobFits(FailWith(j, "io_error").job) /\ JobFits(FailWith(s, "invalid_configuration").job)
  BY <1>1, <1>2, EarlyPhase, WorkingFails, OpenedFails
<1>6. OpenSourceStep(j, out).job \in {FailWith(j, "io_error").job, FailWith(l, "io_error").job,
                                      FailWith(s, "invalid_configuration").job, u}
  BY DEF OpenSourceStep, Fault, Outcome
<1> HIDE DEF s
<1>7. l \in JobType /\ l.card = j.card /\ l.bound = j.bound /\ l.writer = j.writer /\ l.open = s.open
      /\ l.terminal = j.terminal /\ l.published = j.published /\ l.phase = j.phase
  BY <1>2, <1>4 DEF JobType, Same
<1> HIDE DEF l
<1>8. JobSound(l)
  BY <1>3, <1>4, <1>7, SoundStep
<1>9. JobFits(FailWith(l, "io_error").job)
  BY <1>2, <1>3, <1>7, <1>8, FailKeeps
<1>10. j.ask.frames \in Nat
  BY <1>3 DEF JobType, RequestType
<1>11. v \in JobType
  BY <1>2, <1>4, <1>10 DEF JobType
<1>12. v.at = 0 /\ v.phase = "hashing_source" /\ v.open = s.open /\ Same(s, v)
  BY <1>4 DEF JobType, Same
<1> HIDE DEF v
<1>13. u \in JobType /\ u.work = "source_hash" /\ Same(v, u) /\ u.open = v.open /\ u.phase = v.phase /\ u.at = v.at
  BY <1>1, <1>11, GoFacts
<1> HIDE DEF u
<1>14. OpensAndWalks(j, u, "source", "source_hash", "hashing_source")
  BY <1>4, <1>12, <1>13 DEF OpensAndWalks, Same
<1>15. JobFits(u)
  BY <1>1, <1>2, <1>14, OpensKeep
<1> QED BY <1>5, <1>6, <1>9, <1>15

LEMMA OpenScenarioKeeps ==
  ASSUME NEW j, JobFits(j), j.work = "scenario_open", NEW out \in Outcome
  PROVE  JobFits(OpenScenarioStep(j, out).job)
<1> DEFINE s == Opened(j, "work")
           v == [s EXCEPT !.at = 0]
           u == Go(v, "scenario_read").job
<1>1. j.work \in Early /\ "scenario_read" \in Loops \cap Early /\ "scenario_read" \in Work /\ "scenario_read" \notin BeforeOutput
  BY DEF Early, BeforePaths, BeforeOutput, Loops, Work
<1>2. "work" \in Resource /\ "io_error" \in Statuses /\ "invalid_argument" \in Statuses
  BY DEF Resource, Statuses
<1>3. s \in JobType /\ s.open = j.open \cup {"work"} /\ Same(j, s) /\ s.phase = j.phase
  BY <1>1, <1>2, EarlyPhase, OpenedFacts
<1>4. JobFits(FailWith(j, "io_error").job) /\ JobFits(FailWith(s, "invalid_argument").job)
  BY <1>1, <1>2, EarlyPhase, WorkingFails, OpenedFails
<1>5. OpenScenarioStep(j, out).job \in {FailWith(j, "io_error").job, FailWith(s, "invalid_argument").job, u}
  BY DEF OpenScenarioStep, Fault, Outcome
<1> HIDE DEF s
<1>6. v \in JobType
  BY <1>3 DEF JobType
<1>7. v.at = 0 /\ v.phase = s.phase /\ v.open = s.open /\ Same(s, v)
  BY <1>3 DEF JobType, Same
<1> HIDE DEF v
<1>8. u \in JobType /\ u.work = "scenario_read" /\ Same(v, u) /\ u.open = v.open /\ u.phase = v.phase /\ u.at = v.at
  BY <1>1, <1>6, GoFacts
<1> HIDE DEF u
<1>9. j.phase \in Phase \ {"complete", "cancelled", "rendering"}
  BY <1>1, EarlyPhase DEF JobType
<1>10. OpensAndWalks(j, u, "work", "scenario_read", j.phase)
  BY <1>3, <1>7, <1>8 DEF OpensAndWalks, Same
<1>11. JobFits(u)
  BY <1>1, <1>9, <1>10, OpensKeep
<1> QED BY <1>4, <1>5, <1>11

LEMMA ParseScenarioKeeps ==
  ASSUME NEW j, JobFits(j), j.work = "scenario_parse", NEW out \in Outcome
  PROVE  JobFits(ParseScenarioStep(j, out).job)
<1> DEFINE v == [j EXCEPT !.at = 0]
           u == Go(v, "path_checks").job
<1>1. j.work \in Early /\ "path_checks" \in Early /\ "path_checks" \in Work /\ "path_checks" \notin Loops \cup BeforeOutput
  BY DEF Early, BeforePaths, BeforeOutput, Loops, Work
<1>2. ParseScenarioStep(j, out).job \in {FailWith(j, "invalid_configuration").job, u}
  BY DEF ParseScenarioStep
<1>3. j \in JobType
  BY <1>1, EarlyPhase
<1>4. v \in JobType
  BY <1>3 DEF JobType
<1>5. v.at = 0 /\ v.phase = j.phase /\ v.open = j.open /\ Same(j, v)
  BY <1>3 DEF JobType, Same
<1> HIDE DEF v
<1>6. u \in JobType /\ u.work = "path_checks" /\ Same(v, u) /\ u.open = v.open /\ u.phase = v.phase /\ u.at = v.at
  BY <1>1, <1>4, GoFacts
<1> HIDE DEF u
<1>7. u.at <= 5 /\ \A i \in 1 .. u.at : j.card[Paths[i]] = "absent"
  BY <1>5, <1>6
<1>8. Same(j, u) /\ u.open = j.open
  BY <1>5, <1>6 DEF Same
<1>9. JobFits(u)
  BY <1>1, <1>5, <1>6, <1>7, <1>8, EarlyPhase, EarlyKeeps
<1>10. JobFits(FailWith(j, "invalid_configuration").job)
  BY <1>1, EarlyPhase, WorkingFails DEF Statuses
<1> QED BY <1>2, <1>9, <1>10

(* The five names, one a step: past the last, all of them are free.        *)
LEMMA PathCheckKeeps ==
  ASSUME NEW j, JobFits(j), j.work = "path_checks", NEW out \in Outcome
  PROVE  JobFits(PathCheckStep(j, out).job)
<1> DEFINE next == IF j.ask.second THEN "secondary_hash_open" ELSE "configure"
           v == [j EXCEPT !.at = @ + 1]
           u == Go(j, next).job
<1>1. j.work \in Early /\ j.work \notin Loops \cup BeforeOutput
  BY DEF Early, BeforeOutput, Loops
<1>2. next \in Early /\ next \in Work /\ next \notin Loops \cup {"path_checks"}
  BY DEF Early, BeforeOutput, Loops, Work
<1>3. j \in JobType /\ j.at \in Nat /\ j.at <= 5 /\ \A i \in 1 .. j.at : j.card[Paths[i]] = "absent"
  BY <1>1, EarlyPhase DEF JobType, JobFits, JobFiles
<1>4. \/ PathCheckStep(j, out).job \in {FailWith(j, "io_error").job, FailWith(j, "invalid_argument").job}
      \/ j.at = 5 /\ PathCheckStep(j, out).job = u
      \/ j.at # 5 /\ j.card[Paths[j.at + 1]] = "absent" /\ PathCheckStep(j, out).job = v
  BY DEF PathCheckStep, Fault, Ok, Return
<1>5. v \in JobType
  BY <1>3 DEF JobType
<1>6. v.at = j.at + 1 /\ v.work = j.work /\ v.phase = j.phase /\ v.open = j.open /\ Same(j, v)
  BY <1>3 DEF JobType, Same
<1> HIDE DEF v, next
<1>7. u \in JobType /\ u.work = next /\ Same(j, u) /\ u.open = j.open /\ u.phase = j.phase
  BY <1>2, <1>3, GoFacts
<1> HIDE DEF u
<1>8. j.at = 5 => \A n \in Name : j.card[n] = "absent"
  <2> SUFFICES ASSUME j.at = 5 PROVE \A n \in Name : j.card[n] = "absent"
    OBVIOUS
  <2>1. \A i \in 1 .. 5 : j.card[Paths[i]] = "absent"
    BY <1>3
  <2>2. /\ Paths[1] = "WAV" /\ Paths[2] = "TMP" /\ Paths[3] = "JSN" /\ Paths[4] = "JMP" /\ Paths[5] = "SCN"
    BY DEF Paths
  <2>3. /\ 1 \in 1 .. 5 /\ 2 \in 1 .. 5 /\ 3 \in 1 .. 5 /\ 4 \in 1 .. 5 /\ 5 \in 1 .. 5
    OBVIOUS
  <2>4. j.card["WAV"] = "absent" /\ j.card["TMP"] = "absent" /\ j.card["JSN"] = "absent"
        /\ j.card["JMP"] = "absent" /\ j.card["SCN"] = "absent"
    BY <2>1, <2>2, <2>3
  <2> QED BY <2>4 DEF Name
<1>9. j.at = 5 => JobFits(u)
  BY <1>1, <1>2, <1>7, <1>8, EarlyPhase, EarlyKeeps
<1>10. j.at # 5 /\ j.card[Paths[j.at + 1]] = "absent" =>
         v.at <= 5 /\ \A i \in 1 .. v.at : j.card[Paths[i]] = "absent"
  BY <1>3, <1>6
<1>11. j.at # 5 /\ j.card[Paths[j.at + 1]] = "absent" => JobFits(v)
  BY <1>1, <1>5, <1>6, <1>10, EarlyPhase, EarlyKeeps
<1>12. JobFits(FailWith(j, "io_error").job) /\ JobFits(FailWith(j, "invalid_argument").job)
  BY <1>1, EarlyPhase, WorkingFails DEF Statuses
<1> QED BY <1>4, <1>9, <1>11, <1>12

LEMMA HashSecondaryOpenKeeps ==
  ASSUME NEW j, JobFits(j), j.work = "secondary_hash_open", NEW out \in Outcome
  PROVE  JobFits(HashSecondaryOpenStep(j, out).job)
<1> DEFINE s == Opened(j, "work")
           v == [s EXCEPT !.at = 0, !.phase = "hashing_secondary"]
           u == Go(v, "secondary_hash").job
<1>1. j.work \in Early \cap BeforeOutput /\ "secondary_hash" \in Loops \cap Early /\ "secondary_hash" \in Work
  BY DEF Early, BeforeOutput, Loops, Work
<1>2. "work" \in Resource /\ "hashing_secondary" \in Phase \ {"complete", "cancelled", "rendering"}
  BY DEF Resource, Phase
<1>3. s \in JobType /\ s.open = j.open \cup {"work"} /\ Same(j, s)
  BY <1>1, <1>2, EarlyPhase, OpenedFacts
<1>4. HashSecondaryOpenStep(j, out).job \in {FailWith(j, "io_error").job, u}
  BY DEF HashSecondaryOpenStep, Fault
<1> HIDE DEF s
<1>5. v \in JobType
  BY <1>2, <1>3 DEF JobType
<1>6. v.at = 0 /\ v.phase = "hashing_secondary" /\ v.open = s.open /\ Same(s, v)
  BY <1>3 DEF JobType, Same
<1> HIDE DEF v
<1>7. u \in JobType /\ u.work = "secondary_hash" /\ Same(v, u) /\ u.open = v.open /\ u.phase = v.phase /\ u.at = v.at
  BY <1>1, <1>5, GoFacts
<1> HIDE DEF u
<1>8. OpensAndWalks(j, u, "work", "secondary_hash", "hashing_secondary")
  BY <1>3, <1>6, <1>7 DEF OpensAndWalks, Same
<1>9. JobFits(u)
  BY <1>1, <1>2, <1>8, OpensKeep
<1>10. JobFits(FailWith(j, "io_error").job)
  BY <1>1, EarlyPhase, WorkingFails DEF Statuses
<1> QED BY <1>4, <1>9, <1>10

LEMMA SecondaryOpenKeeps ==
  ASSUME NEW j, JobFits(j), j.work = "secondary_open", NEW out \in Outcome
  PROVE  JobFits(SecondaryOpenStep(j, out).job)
<1> DEFINE s == Opened(j, "secondary")
           v == [s EXCEPT !.phase = "calibrating", !.at = 0]
           u == Go(v, "secondary_measure").job
<1>1. j.work \in Early \cap BeforeOutput /\ "secondary_measure" \in Loops \cap Early /\ "secondary_measure" \in Work
  BY DEF Early, BeforeOutput, Loops, Work
<1>2. "secondary" \in Resource /\ "calibrating" \in Phase \ {"complete", "cancelled", "rendering"}
  BY DEF Resource, Phase
<1>3. s \in JobType /\ s.open = j.open \cup {"secondary"} /\ Same(j, s)
  BY <1>1, <1>2, EarlyPhase, OpenedFacts
<1>4. SecondaryOpenStep(j, out).job \in {FailWith(s, "io_error").job, u}
  BY DEF SecondaryOpenStep, Fault
<1>5. JobFits(FailWith(s, "io_error").job)
  BY <1>1, EarlyPhase, OpenedFails DEF Statuses
<1> HIDE DEF s
<1>6. v \in JobType
  BY <1>2, <1>3 DEF JobType
<1>7. v.at = 0 /\ v.phase = "calibrating" /\ v.open = s.open /\ Same(s, v)
  BY <1>3 DEF JobType, Same
<1> HIDE DEF v
<1>8. u \in JobType /\ u.work = "secondary_measure" /\ Same(v, u) /\ u.open = v.open /\ u.phase = v.phase /\ u.at = v.at
  BY <1>1, <1>6, GoFacts
<1> HIDE DEF u
<1>9. OpensAndWalks(j, u, "secondary", "secondary_measure", "calibrating")
  BY <1>3, <1>7, <1>8 DEF OpensAndWalks, Same
<1>10. JobFits(u)
  BY <1>1, <1>2, <1>9, OpensKeep
<1> QED BY <1>4, <1>5, <1>10

(* The engine is configured only where every name is free.                 *)
LEMMA ConfigureKeeps ==
  ASSUME NEW j, JobFits(j), j.work = "configure", NEW out \in Outcome
  PROVE  JobFits(ConfigureStep(j, out).job)
<1> DEFINE o == Opened(j, "engine")
           phase == IF o.phase = "calibrating" THEN o.phase ELSE "starting"
           e == [o EXCEPT !.phase = phase]
           u == Go(e, "output_create").job
<1>1. j.work \in Early \cap BeforeOutput /\ "output_create" \in Early \cap BeforeOutput /\ "output_create" \in Work
      /\ "output_create" \notin Loops \cup {"path_checks"}
  BY DEF Early, BeforeOutput, Loops, Work
<1>2. "engine" \in Resource /\ phase \in Phase \ {"complete", "cancelled", "rendering"}
  BY DEF Resource, Phase
<1>3. o \in JobType /\ o.open = j.open \cup {"engine"} /\ Same(j, o)
  BY <1>1, <1>2, EarlyPhase, OpenedFacts
<1>4. ConfigureStep(j, out).job \in {FailWith(e, "invalid_configuration").job, u}
  BY DEF ConfigureStep
<1> HIDE DEF o, phase
<1>5. e \in JobType
  BY <1>2, <1>3 DEF JobType
<1>6. e.phase = phase /\ e.open = j.open \cup {"engine"} /\ Same(j, e)
  BY <1>3 DEF JobType, Same
<1> HIDE DEF e
<1>7. u \in JobType /\ u.work = "output_create" /\ Same(e, u) /\ u.open = e.open /\ u.phase = e.phase
  BY <1>1, <1>5, GoFacts
<1> HIDE DEF u
<1>8. \A n \in Name : j.card[n] = "absent"
  BY <1>1, EarlyFree
<1>9. JobFits(u)
  <2>1. Same(j, u)
    BY <1>6, <1>7 DEF Same
  <2>2. "output" \in j.open => "output" \in u.open
    BY <1>6, <1>7
  <2>3. \A n \in Name : j.card[n] # "foreign"
    BY <1>8
  <2> QED BY <1>1, <1>2, <1>6, <1>7, <1>8, <2>1, <2>2, <2>3, EarlyKeeps
<1>10. JobSound(e)
  BY <1>1, <1>5, <1>6, <1>8, EarlyPhase, WorkingFacts, SoundStep DEF Same
<1>11. JobFits(FailWith(e, "invalid_configuration").job)
  <2>1. "invalid_configuration" \in Statuses
    BY DEF Statuses
  <2> QED BY <1>1, <1>2, <1>6, <1>10, <2>1, EarlyPhase, WorkingFacts, FailKeeps DEF Same
<1> QED BY <1>4, <1>9, <1>11

LEMMA EarlyClosesStep ==
  ASSUME NEW j, JobFits(j), NEW out \in Outcome
  PROVE  /\ j.work = "scenario_close" => JobFits(CloseThen(j, out, "work", "scenario_parse").job)
         /\ j.work = "secondary_hash_close" => JobFits(CloseThen(j, out, "work", "secondary_open").job)
<1>1. /\ "scenario_close" \in Early /\ "scenario_parse" \in Early \ (Loops \cup {"path_checks"}) /\ "scenario_parse" \notin BeforeOutput
      /\ "secondary_hash_close" \in Early \cap BeforeOutput /\ "secondary_open" \in Early \ (Loops \cup {"path_checks"})
  BY DEF Early, BeforePaths, BeforeOutput, Loops
<1> QED BY <1>1, EarlyCloses

LEMMA EarlyLoopsStep ==
  ASSUME NEW j, JobFits(j), NEW out \in Outcome
  PROVE  /\ j.work = "source_hash" => JobFits(ChunkLoop(j, out, "scenario_open").job)
         /\ j.work = "scenario_read" => JobFits(ChunkLoop(j, out, "scenario_close").job)
         /\ j.work = "secondary_hash" => JobFits(ChunkLoop(j, out, "secondary_hash_close").job)
         /\ j.work = "secondary_measure" => JobFits(ChunkLoop(j, out, "configure").job)
<1>1. /\ {"source_hash", "scenario_read", "secondary_hash", "secondary_measure"} \subseteq Early \cap Loops
      /\ {"scenario_open", "scenario_close", "secondary_hash_close", "configure"} \subseteq Early \ (Loops \cup {"path_checks"})
      /\ {"scenario_open", "scenario_close"} \cap BeforeOutput = {}
      /\ {"secondary_hash", "secondary_measure"} \subseteq BeforeOutput
  BY DEF Early, BeforePaths, BeforeOutput, Loops
<1> QED BY <1>1, EarlyLoops

-----------------------------------------------------------------------------
(* The steps that write OUT.TMP.                                           *)

(* A step that puts c into OUT.TMP or OUT.JMP.                             *)
LEMMA SoundWrites ==
  ASSUME NEW j, NEW u, JobSound(j), u \in JobType, NEW n \in {"TMP", "JMP"}, NEW c \in Content,
         u.card = [j.card EXCEPT ![n] = c], c = "foreign" => j.card[n] = "foreign",
         u.bound \/ u.writer = "active" => "output" \in u.open,
         u.open \cap {"engine", "output", "manifest"} # {} =>
           j.open \cap {"engine", "output", "manifest"} # {} \/ \A m \in Name : j.card[m] # "foreign"
  PROVE  JobSound(u)
<1>1. j.card \in [Name -> Content]
  BY DEF JobSound, JobType
<1>2. \A m \in Name : u.card[m] = IF m = n THEN c ELSE j.card[m]
  BY <1>1
<1>3. "WAV" \in Name /\ "JSN" \in Name
  BY DEF Name
<1>4. u.card["WAV"] = j.card["WAV"] /\ u.card["JSN"] = j.card["JSN"]
  BY <1>2, <1>3
<1>5. (\A m \in Name : j.card[m] # "foreign") => \A m \in Name : u.card[m] # "foreign"
  BY <1>2
<1> QED BY <1>4, <1>5 DEF JobSound

(* What no step of the render changes.                                     *)
Kept(j, u) ==
  /\ u.failure = j.failure /\ u.terminal = j.terminal /\ u.published = j.published
  /\ u.source = j.source /\ u.managed = j.managed

(* fail() from a job that works, after a step that changed v.              *)
LEMMA ChangedFails ==
  ASSUME NEW j, NEW v, JobFits(j), j.work \in Working, JobSound(v), Kept(j, v), v.phase \notin {"complete", "cancelled"},
         NEW s \in Statuses
  PROVE  JobFits(FailWith(v, s).job)
BY WorkingFacts, FailKeeps DEF Kept

LEMMA OutputCreateKeeps ==
  ASSUME NEW j, JobFits(j), j.work = "output_create", NEW out \in Outcome
  PROVE  JobFits(OutputCreateStep(j, out).job)
<1> DEFINE made == Put(j, "TMP", "partial")
           opened == Opened(made, "output")
           bound == [opened EXCEPT !.bound = TRUE, !.sinkOk = TRUE, !.committed = 0]
           broken == [WriterFailed(bound) EXCEPT !.sinkOk = FALSE]
           ready == [bound EXCEPT !.writer = "active", !.phase = "rendering", !.input = 0,
                                  !.blockIn = 0, !.blockOut = 0]
           u == Go(ready, "render_read_decode").job
<1>1. j.work \in Early \cap BeforeOutput /\ j.work \in Working /\ "render_read_decode" \in Work
  BY DEF Early, BeforeOutput, Working, Work
<1>2. /\ j \in JobType /\ JobSound(j) /\ j.phase \notin {"complete", "cancelled"} /\ j.failure = "ok" /\ j.terminal = "idle"
      /\ j.published = FALSE
  BY <1>1, WorkingFacts
<1>3. (\A n \in Name : j.card[n] = "absent") /\ j.rendered = 0 /\ j.produced = 0
  BY <1>1, EarlyFree DEF JobFits, JobCursors
<1>4. OutputCreateStep(j, out).job \in
        {FailWith(j, "io_error").job, FailWith(made, "io_error").job, FailWith(opened, "busy").job,
         FailWith(bound, "invalid_configuration").job, FailWith(broken, "io_error").job, u}
  BY DEF OutputCreateStep, Fault
<1>5. j.bound => "output" \in j.open
  BY <1>2 DEF JobSound
<1>6. j.writer = "active" => "output" \in j.open
  BY <1>2 DEF JobSound
<1>7. "TMP" \in Name /\ "partial" \in Content /\ "output" \in Resource /\ "rendering" \in Phase
  BY DEF Name, Content, Resource, Phase
<1>8. made = [j EXCEPT !.card = [j.card EXCEPT !["TMP"] = "partial"]]
  BY <1>2 DEF Put, JobType
<1>9. [j.card EXCEPT !["TMP"] = "partial"] \in [Name -> Content]
  BY <1>2, <1>7 DEF JobType
<1> HIDE DEF made
<1>10. made \in JobType
  BY <1>2, <1>8, <1>9 DEF JobType
<1>11. /\ made.card = [j.card EXCEPT !["TMP"] = "partial"] /\ made.open = j.open /\ made.bound = j.bound
       /\ made.writer = j.writer /\ made.phase = j.phase /\ Kept(j, made)
       /\ made.rendered = j.rendered /\ made.produced = j.produced
  BY <1>2, <1>8 DEF JobType, Kept
<1>12. /\ opened \in JobType /\ opened.open = made.open \cup {"output"} /\ Same(made, opened) /\ opened.phase = made.phase
       /\ opened.source = made.source
  BY <1>7, <1>10, OpenedFacts
<1>13. opened.managed = made.managed
  BY <1>10 DEF Opened, JobType
<1> HIDE DEF opened
<1>14. bound \in JobType
  BY <1>12 DEF JobType
<1>15. /\ bound.card = opened.card /\ bound.open = opened.open /\ bound.bound = TRUE /\ bound.writer = opened.writer
       /\ bound.phase = opened.phase /\ Kept(opened, bound) /\ bound.rendered = opened.rendered
       /\ bound.produced = opened.produced /\ bound.committed = 0
  BY <1>12 DEF JobType, Kept
<1> HIDE DEF bound
<1>16. broken = [bound EXCEPT !.writer = "failed", !.sinkOk = FALSE]
  BY <1>14 DEF WriterFailed, JobType
<1> HIDE DEF broken
<1>17. broken \in JobType
  BY <1>14, <1>16 DEF JobType
<1>18. /\ broken.card = bound.card /\ broken.open = bound.open /\ broken.writer = "failed"
       /\ broken.phase = bound.phase /\ Kept(bound, broken)
  BY <1>14, <1>16 DEF JobType, Kept
<1>19. ready \in JobType
  BY <1>7, <1>14 DEF JobType
<1>20. /\ ready.card = bound.card /\ ready.open = bound.open /\ ready.phase = "rendering" /\ Kept(bound, ready)
       /\ ready.rendered = bound.rendered /\ ready.produced = bound.produced /\ ready.committed = bound.committed
       /\ ready.input = 0 /\ ready.blockIn = 0 /\ ready.blockOut = 0
  BY <1>14 DEF JobType, Kept
<1> HIDE DEF ready
<1>21. u = [ready EXCEPT !.work = "render_read_decode"]
  BY DEF Go, Ok, Return
<1> HIDE DEF u
<1>22. u \in JobType
  BY <1>1, <1>19, <1>21 DEF JobType
<1>23. /\ u.card = ready.card /\ u.open = ready.open /\ u.phase = "rendering" /\ Kept(ready, u)
       /\ u.rendered = ready.rendered /\ u.produced = ready.produced /\ u.committed = ready.committed
       /\ u.input = 0 /\ u.blockIn = 0 /\ u.blockOut = 0 /\ u.work = "render_read_decode"
  BY <1>19, <1>20, <1>21 DEF JobType, Kept
<1>24. (\A n \in Name : j.card[n] # "foreign")
  BY <1>3
<1>25. Kept(j, opened) /\ Kept(j, bound) /\ Kept(j, broken) /\ Kept(j, u)
  BY <1>11, <1>12, <1>13, <1>15, <1>18, <1>20, <1>23 DEF Kept, Same
<1>26. JobSound(made)
  BY <1>2, <1>5, <1>6, <1>7, <1>10, <1>11, <1>24, SoundWrites
<1>27. "output" \in opened.open /\ opened.card = made.card
  BY <1>12 DEF Same
<1>28. JobSound(opened) /\ JobSound(bound) /\ JobSound(broken) /\ JobSound(u)
  BY <1>2, <1>7, <1>11, <1>12, <1>14, <1>15, <1>17, <1>18, <1>20, <1>22, <1>23, <1>24, <1>27, SoundWrites
<1>29. made.phase = j.phase /\ opened.phase = j.phase /\ bound.phase = j.phase /\ broken.phase = j.phase
  BY <1>11, <1>12, <1>15, <1>18
<1>30. /\ JobFits(FailWith(j, "io_error").job) /\ JobFits(FailWith(made, "io_error").job)
       /\ JobFits(FailWith(opened, "busy").job) /\ JobFits(FailWith(bound, "invalid_configuration").job)
       /\ JobFits(FailWith(broken, "io_error").job)
  <2>1. {"io_error", "busy", "invalid_configuration"} \subseteq Statuses
    BY DEF Statuses
  <2> QED BY <1>1, <1>2, <1>11, <1>25, <1>26, <1>28, <1>29, <2>1, WorkingFails, ChangedFails
<1>31. JobEnds(u)
  BY <1>2, <1>23, <1>25, EndsWorking DEF Working, Rendering, Kept
<1>32. JobFiles(u)
  <2>1. u.card = [j.card EXCEPT !["TMP"] = "partial"]
    BY <1>11, <1>15, <1>20, <1>23, <1>27
  <2>2. u.card["TMP"] = "partial" /\ \A n \in Name : u.card[n] # "foreign"
    BY <1>2, <1>7, <1>24, <2>1 DEF JobType
  <2> QED BY <1>23, <2>2 DEF JobFiles, BeforeOutput, Writing, Rendering, Unsynced, Unverified, Manifest, Publishing
<1>33. JobCursors(u)
  <2>1. u.source \in Nat /\ u.rendered = 0 /\ u.produced = 0 /\ u.committed = 0
    BY <1>3, <1>11, <1>12, <1>15, <1>20, <1>22, <1>23 DEF JobType, Same
  <2> QED BY <1>23, <2>1 DEF JobCursors, BeforePaths, BeforeOutput, Writing, Rendering, Unsynced, Unverified,
                             Manifest, Publishing, Loops
<1> QED BY <1>4, <1>28, <1>30, <1>31, <1>32, <1>33 DEF JobFits

(* The cursors while OUT.TMP is written.                                   *)
RenderRuns(u) ==
  /\ u.input <= u.source /\ u.committed <= u.rendered
  /\ u.work \in Rendering => u.blockIn <= u.source - u.input
  /\ u.managed /\ u.work \in Rendering =>
       /\ u.rendered = u.input
       /\ IF u.work = "render_append" THEN u.blockOut = u.blockIn /\ u.produced = u.rendered + u.blockOut
          ELSE u.produced = u.rendered
  /\ u.work = "output_finish" => u.input = u.source

LEMMA RenderFacts ==
  ASSUME NEW j, JobFits(j), j.work \in Writing
  PROVE  /\ j.work \in Working /\ j \in JobType /\ JobSound(j) /\ j.phase = "rendering" /\ RenderRuns(j)
         /\ j.card["TMP"] \in {"partial", "corrupt"}
<1>1. j.work \in Working
  BY DEF Working, Later, Writing
<1>2. j \in JobType /\ JobSound(j)
  BY DEF JobFits, JobSound
<1>3. j.phase = "rendering" /\ RenderRuns(j)
  BY DEF JobFits, JobCursors, RenderRuns
<1>4. j.card["TMP"] \in {"partial", "corrupt"}
  BY DEF JobFits, JobFiles
<1> QED BY <1>1, <1>2, <1>3, <1>4

LEMMA RenderKeeps ==
  ASSUME NEW j, NEW u, JobFits(j), j.work \in Writing, u \in JobType, u.work \in Writing,
         u.failure = j.failure, u.terminal = j.terminal, u.published = j.published,
         u.open = j.open, u.bound = j.bound, u.writer = j.writer, u.phase = "rendering",
         u.card["TMP"] \in {"partial", "corrupt"}, \A n \in Name \ {"TMP"} : u.card[n] = j.card[n], RenderRuns(u)
  PROVE  JobFits(u)
<1>1. j.work \in Working /\ u.work \in Working
  BY DEF Working, Later, Writing
<1>2. j.failure = "ok" /\ j.terminal = "idle" /\ j.published = FALSE
  BY <1>1, WorkingFacts
<1>3. {"WAV", "JSN"} \subseteq Name \ {"TMP"}
  BY DEF Name
<1>4. \A n \in Name : u.card[n] # "foreign"
  BY DEF JobFits, JobFiles
<1>5. JobSound(u)
  BY <1>3, <1>4 DEF JobFits, JobSound
<1>6. JobEnds(u)
  BY <1>1, <1>2, EndsWorking
<1>7. u.work \notin BeforeOutput \cup Unsynced \cup Unverified \cup Manifest \cup Publishing
      /\ u.work \notin {"path_checks", "verify_close"} \cup BeforePaths \cup Loops
  BY DEF BeforePaths, BeforeOutput, Writing, Rendering, Unsynced, Unverified, Manifest, Publishing, Loops
<1>8. u.work \notin {"manifest_write", "manifest_sync", "manifest_close", "publish_wav", "publish_manifest"}
  BY <1>7 DEF Manifest, Publishing
<1>9. JobFiles(u)
  BY <1>4, <1>7, <1>8 DEF JobFiles
<1>10. JobCursors(u)
  BY <1>7 DEF JobCursors, RenderRuns
<1> QED BY <1>5, <1>6, <1>9, <1>10 DEF JobFits

LEMMA BrokenFails ==
  ASSUME NEW j, JobFits(j), j.work \in Working
  PROVE  JobFits(Fault([WriterFailed(j) EXCEPT !.sinkOk = FALSE]).job)
<1> DEFINE v == [WriterFailed(j) EXCEPT !.sinkOk = FALSE]
<1>1. j \in JobType /\ JobSound(j) /\ j.phase \notin {"complete", "cancelled"}
  BY WorkingFacts
<1>2. v = [j EXCEPT !.writer = "failed", !.sinkOk = FALSE]
  BY <1>1 DEF WriterFailed, JobType
<1> HIDE DEF v
<1>3. v \in JobType
  BY <1>1, <1>2 DEF JobType
<1>4. /\ v.card = j.card /\ v.open = j.open /\ v.writer = "failed" /\ v.bound = j.bound
      /\ v.phase = j.phase /\ Kept(j, v)
  BY <1>1, <1>2 DEF JobType, Kept
<1>5. JobSound(v)
  BY <1>1, <1>3, <1>4 DEF JobSound
<1>6. JobFits(FailWith(v, "io_error").job)
  BY <1>1, <1>4, <1>5, ChangedFails DEF Statuses
<1> QED BY <1>6 DEF Fault, v

(* Reading a block leaves no more of it to append than the source has.     *)
LEMMA RenderReadKeeps ==
  ASSUME NEW j, JobFits(j), j.work = "render_read_decode", NEW out \in Outcome,
         j.managed => j.request <= j.source - j.input
  PROVE  JobFits(RenderReadDecodeStep(j, out).job)
<1> DEFINE frames == IF j.managed THEN j.request
                     ELSE IF Block <= j.source - j.input THEN Block ELSE j.source - j.input
           v == [j EXCEPT !.blockIn = frames, !.blockOut = 0]
           u == Go(v, "render_process_pack").job
           f == Go(j, "output_finish").job
<1>1. j.work \in Writing /\ {"output_finish", "render_process_pack"} \subseteq Writing
      /\ {"output_finish", "render_process_pack"} \subseteq Work
  BY DEF Writing, Rendering, Work
<1>2. j \in JobType /\ RenderRuns(j) /\ j.card["TMP"] \in {"partial", "corrupt"} /\ j.phase = "rendering" /\ j.work \in Working
  BY <1>1, RenderFacts
<1>3. /\ j.input \in Nat /\ j.source \in Nat /\ j.request \in Nat /\ j.rendered \in Nat /\ j.committed \in Nat
      /\ Block \in Nat /\ j.managed \in BOOLEAN
  BY <1>2, BlockAssumption DEF JobType
<1>4. frames \in Nat /\ frames <= j.source - j.input
  BY <1>2, <1>3 DEF RenderRuns
<1>5. RenderReadDecodeStep(j, out).job = IF j.input = j.source THEN f
                                         ELSE IF out # "ok" THEN FailWith(j, "io_error").job ELSE u
  BY DEF RenderReadDecodeStep, Fault
<1> HIDE DEF frames
<1>6. f = [j EXCEPT !.work = "output_finish"] /\ u = [v EXCEPT !.work = "render_process_pack"]
  BY DEF Go, Ok, Return
<1> HIDE DEF f, u
<1>7. f \in JobType
  BY <1>1, <1>2, <1>6 DEF JobType
<1>8. /\ f.work = "output_finish" /\ f.failure = j.failure /\ f.terminal = j.terminal /\ f.published = j.published
      /\ f.open = j.open /\ f.bound = j.bound /\ f.writer = j.writer /\ f.phase = j.phase /\ f.card = j.card
      /\ f.input = j.input /\ f.source = j.source /\ f.committed = j.committed /\ f.rendered = j.rendered
  BY <1>2, <1>6 DEF JobType
<1>9. j.input = j.source => RenderRuns(f)
  BY <1>2, <1>8 DEF RenderRuns, Rendering
<1>10. j.input = j.source => JobFits(f)
  BY <1>1, <1>2, <1>7, <1>8, <1>9, RenderKeeps
<1>11. v \in JobType
  BY <1>2, <1>4 DEF JobType
<1>12. u \in JobType
  BY <1>1, <1>6, <1>11 DEF JobType
<1>13. u = [j EXCEPT !.work = "render_process_pack", !.blockIn = frames, !.blockOut = 0]
  BY <1>2, <1>6 DEF JobType
<1> HIDE DEF v
<1>14. /\ u.work = "render_process_pack" /\ u.failure = j.failure /\ u.terminal = j.terminal /\ u.published = j.published
       /\ u.open = j.open /\ u.bound = j.bound /\ u.writer = j.writer /\ u.phase = j.phase /\ u.card = j.card
       /\ u.input = j.input /\ u.source = j.source /\ u.committed = j.committed /\ u.rendered = j.rendered
       /\ u.produced = j.produced /\ u.blockIn = frames /\ u.managed = j.managed
  BY <1>2, <1>13 DEF JobType
<1>15. RenderRuns(u)
  BY <1>2, <1>4, <1>14 DEF RenderRuns, Rendering
<1>16. JobFits(u)
  BY <1>1, <1>2, <1>12, <1>14, <1>15, RenderKeeps
<1>17. JobFits(FailWith(j, "io_error").job)
  BY <1>2, WorkingFails DEF Statuses
<1> QED BY <1>5, <1>10, <1>16, <1>17

(* What the engine makes of a block: its frames, or, where the scenario    *)
(* slips and no owner drives the job, one more or fewer.                   *)
LEMMA EngineFramesNat ==
  ASSUME NEW j \in JobType, j.blockIn # 0, NEW out \in Outcome
  PROVE  EngineFrames(j, out) \in Nat
<1>1. j.blockIn \in Nat
  BY DEF JobType
<1> QED BY <1>1 DEF EngineFrames

Packed(j, out) == [j EXCEPT !.blockOut = EngineFrames(j, out), !.work = "render_append"]

LEMMA PackSplits ==
  ASSUME NEW j \in JobType, NEW out \in Outcome
  PROVE  LET p == RenderProcessPackStep(j, out)
         IN  \/ \E s \in Statuses \ {"ok"} : p.job = FailWith(j, s).job /\ p.ret = s
             \/ /\ p.job = Packed(j, out) /\ p.ret = "ok" /\ j.blockIn # 0
                /\ j.managed => EngineFrames(j, out) = j.blockIn
<1> DEFINE v == [j EXCEPT !.blockOut = EngineFrames(j, out)]
<1>1. "invalid_argument" \in Statuses \ {"ok"} /\ "invalid_configuration" \in Statuses \ {"ok"}
  BY DEF Statuses
<1>2. [v EXCEPT !.work = "render_append"] = Packed(j, out)
  BY DEF JobType, Packed
<1>3. Go(v, "render_append").job = Packed(j, out) /\ Go(v, "render_append").ret = "ok"
  BY <1>2 DEF Go, Ok, Return
<1>4. \A s \in Statuses : FailWith(j, s).ret = s
  BY DEF FailWith, Return
<1> QED BY <1>1, <1>3, <1>4 DEF RenderProcessPackStep

LEMMA PackedFacts ==
  ASSUME NEW j, JobFits(j), j.work = "render_process_pack", NEW out \in Outcome, j.blockIn # 0
  PROVE  LET u == Packed(j, out)
         IN  /\ u \in JobType /\ u.work = "render_append" /\ u.failure = j.failure /\ u.terminal = j.terminal
             /\ u.published = j.published /\ u.open = j.open /\ u.bound = j.bound /\ u.writer = j.writer
             /\ u.phase = j.phase /\ u.card = j.card /\ u.input = j.input /\ u.source = j.source
             /\ u.committed = j.committed /\ u.rendered = j.rendered /\ u.managed = j.managed /\ u.blockIn = j.blockIn
             /\ u.blockOut = EngineFrames(j, out) /\ u.produced = j.produced
<1> DEFINE n == EngineFrames(j, out)
           u == [j EXCEPT !.blockOut = n, !.work = "render_append"]
<1>1. j \in JobType
  BY RenderFacts DEF Writing, Rendering
<1>2. n \in Nat /\ "render_append" \in Work
  BY <1>1, EngineFramesNat DEF Work
<1>3. Packed(j, out) = u
  BY DEF Packed
<1> HIDE DEF n
<1>4. u \in JobType
  BY <1>1, <1>2 DEF JobType
<1>5. /\ u.work = "render_append" /\ u.failure = j.failure /\ u.terminal = j.terminal
      /\ u.published = j.published /\ u.open = j.open /\ u.bound = j.bound /\ u.writer = j.writer
      /\ u.phase = j.phase /\ u.card = j.card /\ u.input = j.input /\ u.source = j.source
      /\ u.committed = j.committed /\ u.rendered = j.rendered /\ u.managed = j.managed /\ u.blockIn = j.blockIn
      /\ u.blockOut = n /\ u.produced = j.produced
  BY <1>1 DEF JobType
<1> HIDE DEF u
<1> QED BY <1>3, <1>4, <1>5 DEF n

(* A job that drives itself packs its block; an owner's comes below.       *)
LEMMA RenderPackKeeps ==
  ASSUME NEW j, JobFits(j), j.work = "render_process_pack", NEW out \in Outcome, j.managed = FALSE
  PROVE  JobFits(RenderProcessPackStep(j, out).job)
<1> DEFINE u == Packed(j, out)
<1>1. j.work \in Writing /\ "render_append" \in Writing
  BY DEF Writing, Rendering
<1>2. j \in JobType /\ RenderRuns(j) /\ j.card["TMP"] \in {"partial", "corrupt"} /\ j.phase = "rendering" /\ j.work \in Working
  BY <1>1, RenderFacts
<1>3. \A s \in Statuses : JobFits(FailWith(j, s).job)
  BY <1>2, WorkingFails
<1>4. ASSUME j.blockIn # 0 PROVE JobFits(u)
  <2>1. /\ u \in JobType /\ u.work = "render_append" /\ u.failure = j.failure /\ u.terminal = j.terminal
        /\ u.published = j.published /\ u.open = j.open /\ u.bound = j.bound /\ u.writer = j.writer
        /\ u.phase = j.phase /\ u.card = j.card /\ u.input = j.input /\ u.source = j.source
        /\ u.committed = j.committed /\ u.rendered = j.rendered /\ u.managed = j.managed /\ u.blockIn = j.blockIn
    BY <1>4, PackedFacts
  <2> HIDE DEF u
  <2>2. RenderRuns(u)
    BY <1>2, <2>1 DEF RenderRuns, Rendering
  <2> QED BY <1>1, <1>2, <2>1, <2>2, RenderKeeps
<1> QED BY <1>2, <1>3, <1>4, PackSplits

(* An appended block moves the input and the output on together.           *)
Appended(j, content) ==
  [j EXCEPT !.input = @ + j.blockIn, !.rendered = @ + j.blockOut, !.blockIn = 0, !.blockOut = 0,
            !.card = [@ EXCEPT !["TMP"] = content], !.work = "render_read_decode"]

LEMMA AppendSplits ==
  ASSUME NEW j \in JobType, NEW out \in Outcome
  PROVE  LET r == RenderAppendStep(j, out)
         IN  \/ \E s \in Statuses \ {"ok"} : r.job = FailWith(j, s).job /\ r.ret = s
             \/ r.job = Fault([WriterFailed(j) EXCEPT !.sinkOk = FALSE]).job /\ r.ret = "io_error"
             \/ /\ \E c \in {j.card["TMP"], "corrupt"} : r.job = Appended(j, c)
                /\ r.ret = "ok" /\ j.blockIn <= j.source - j.input
<1> DEFINE c == IF out = "corrupt" THEN "corrupt" ELSE j.card["TMP"]
           v == [j EXCEPT !.input = @ + j.blockIn, !.rendered = @ + j.blockOut,
                    !.blockIn = 0, !.blockOut = 0,
                    !.card["TMP"] = IF out = "corrupt" THEN "corrupt" ELSE @]
<1>1. "invalid_argument" \in Statuses \ {"ok"} /\ "invalid_configuration" \in Statuses \ {"ok"}
  BY DEF Statuses
<1>2. Go(v, "render_read_decode").job = Appended(j, c)
  BY DEF JobType, Go, Ok, Return, Appended
<1>3. Go(v, "render_read_decode").ret = "ok"
  BY DEF Go, Ok, Return
<1>4. (\A s \in Statuses : FailWith(j, s).ret = s) /\ \A w : Fault(w).ret = "io_error"
  BY DEF FailWith, Return, Fault
<1>5. j.source \in Nat /\ j.input \in Nat /\ j.blockIn \in Nat
  BY DEF JobType
<1>6. ~(j.input > j.source \/ j.blockIn = 0 \/ j.blockIn > j.source - j.input) => j.blockIn <= j.source - j.input
  BY <1>5
<1>7. c \in {j.card["TMP"], "corrupt"}
  OBVIOUS
<1> QED BY <1>1, <1>2, <1>3, <1>4, <1>6, <1>7 DEF RenderAppendStep

LEMMA AppendedKeeps ==
  ASSUME NEW j, JobFits(j), j.work = "render_append", NEW c \in {j.card["TMP"], "corrupt"},
         j.blockIn <= j.source - j.input
  PROVE  JobFits(Appended(j, c))
<1> DEFINE card == [j.card EXCEPT !["TMP"] = c]
           input == j.input + j.blockIn
           rendered == j.rendered + j.blockOut
           u == [j EXCEPT !.input = input, !.rendered = rendered, !.blockIn = 0, !.blockOut = 0,
                          !.card = card, !.work = "render_read_decode"]
<1>1. j.work \in Writing /\ "render_read_decode" \in Writing /\ "render_read_decode" \in Work
  BY DEF Writing, Rendering, Work
<1>2. j \in JobType /\ RenderRuns(j) /\ j.card["TMP"] \in {"partial", "corrupt"} /\ j.phase = "rendering"
  BY <1>1, RenderFacts
<1>3. /\ j.input \in Nat /\ j.source \in Nat /\ j.rendered \in Nat /\ j.committed \in Nat /\ j.blockIn \in Nat
      /\ j.blockOut \in Nat /\ j.produced \in Nat
  BY <1>2 DEF JobType
<1>4. c \in {"partial", "corrupt"} /\ "TMP" \in Name /\ c \in Content
  BY <1>2 DEF Name, Content
<1>5. card \in [Name -> Content] /\ card["TMP"] = c /\ \A n \in Name \ {"TMP"} : card[n] = j.card[n]
  BY <1>2, <1>4 DEF JobType
<1>6. Appended(j, c) = u
  BY <1>2 DEF Appended, JobType
<1>11. input \in Nat /\ rendered \in Nat
  BY <1>3
<1> HIDE DEF card, input, rendered
<1>7. u \in JobType
  BY <1>1, <1>2, <1>5, <1>11 DEF JobType
<1>8. /\ u.work = "render_read_decode" /\ u.failure = j.failure /\ u.terminal = j.terminal /\ u.published = j.published
      /\ u.open = j.open /\ u.bound = j.bound /\ u.writer = j.writer /\ u.phase = j.phase /\ u.card = card
      /\ u.input = input /\ u.source = j.source /\ u.committed = j.committed
      /\ u.rendered = rendered /\ u.produced = j.produced /\ u.blockIn = 0 /\ u.managed = j.managed
  BY <1>2 DEF JobType
<1> HIDE DEF u
<1>9. RenderRuns(u)
  <2>1. u.input <= u.source /\ u.committed <= u.rendered /\ u.blockIn <= u.source - u.input
    BY <1>2, <1>3, <1>8 DEF RenderRuns, input, rendered
  <2>2. u.managed => u.rendered = u.input /\ u.produced = u.rendered
    BY <1>2, <1>3, <1>8 DEF RenderRuns, Rendering, input, rendered
  <2> QED BY <1>8, <2>1, <2>2 DEF RenderRuns
<1>10. JobFits(u)
  BY <1>1, <1>2, <1>4, <1>5, <1>7, <1>8, <1>9, RenderKeeps
<1> QED BY <1>6, <1>10

LEMMA RenderAppendKeeps ==
  ASSUME NEW j, JobFits(j), j.work = "render_append", NEW out \in Outcome
  PROVE  JobFits(RenderAppendStep(j, out).job)
<1>1. j.work \in Working /\ j \in JobType
  BY RenderFacts DEF Writing, Rendering
<1>2. JobFits(Fault([WriterFailed(j) EXCEPT !.sinkOk = FALSE]).job)
  BY <1>1, BrokenFails
<1>3. \A s \in Statuses : JobFits(FailWith(j, s).job)
  BY <1>1, WorkingFails
<1> QED BY <1>1, <1>2, <1>3, AppendSplits, AppendedKeeps

(* Flushing a file changes neither what is foreign nor what is absent.     *)
LEMMA FlushedFacts ==
  ASSUME NEW c \in Content
  PROVE  /\ Flushed(c) \in Content /\ (Flushed(c) = "foreign" => c = "foreign")
         /\ c \in {"partial", "corrupt"} => Flushed(c) = c
         /\ c \in {"finished", "sealed"} => Flushed(c) = "sealed"
BY DEF Flushed, Content

(* f_sync() made all that was rendered durable.                            *)
Committed(j) ==
  [j EXCEPT !.committed = j.rendered, !.card = [@ EXCEPT !["TMP"] = Flushed(j.card["TMP"])]]

LEMMA CommittedFacts ==
  ASSUME NEW j \in JobType
  PROVE  LET u == Committed(j)
         IN  /\ u \in JobType /\ u.failure = j.failure /\ u.terminal = j.terminal /\ u.published = j.published
             /\ u.open = j.open /\ u.bound = j.bound /\ u.writer = j.writer /\ u.phase = j.phase
             /\ u.card = [j.card EXCEPT !["TMP"] = Flushed(j.card["TMP"])]
             /\ u.card["TMP"] = Flushed(j.card["TMP"]) /\ (\A n \in Name \ {"TMP"} : u.card[n] = j.card[n])
             /\ u.input = j.input /\ u.source = j.source /\ u.committed = j.rendered /\ u.rendered = j.rendered
             /\ u.produced = j.produced /\ u.managed = j.managed /\ u.blockIn = j.blockIn /\ u.blockOut = j.blockOut
             /\ u.work = j.work
<1> DEFINE card == [j.card EXCEPT !["TMP"] = Flushed(j.card["TMP"])]
           u == [j EXCEPT !.committed = j.rendered, !.card = card]
<1>1. "TMP" \in Name /\ j.card \in [Name -> Content] /\ j.card["TMP"] \in Content
  BY DEF Name, JobType
<1>2. card \in [Name -> Content] /\ card["TMP"] = Flushed(j.card["TMP"]) /\ \A n \in Name \ {"TMP"} : card[n] = j.card[n]
  BY <1>1, FlushedFacts
<1>3. Committed(j) = u
  BY DEF Committed, JobType
<1>4. j.rendered \in Nat
  BY DEF JobType
<1> HIDE DEF card
<1>5. u \in JobType
  BY <1>2, <1>4 DEF JobType
<1>6. /\ u.failure = j.failure /\ u.terminal = j.terminal /\ u.published = j.published
      /\ u.open = j.open /\ u.bound = j.bound /\ u.writer = j.writer /\ u.phase = j.phase /\ u.card = card
      /\ u.input = j.input /\ u.source = j.source /\ u.committed = j.rendered /\ u.rendered = j.rendered
      /\ u.produced = j.produced /\ u.managed = j.managed /\ u.blockIn = j.blockIn /\ u.blockOut = j.blockOut
      /\ u.work = j.work
  BY DEF JobType
<1> HIDE DEF u
<1> QED BY <1>2, <1>3, <1>5, <1>6 DEF card

(* A failed commit leaves a sound job behind, whatever reached the card.   *)
LEMMA CommitSplits ==
  ASSUME NEW j, JobSound(j), NEW out \in Outcome
  PROVE  LET c == CommitFrames(j, out)
         IN  \/ c.ret = "ok" /\ c.job = Committed(j)
             \/ c.ret \in Statuses \ {"ok"} /\ JobSound(c.job) /\ Kept(j, c.job) /\ c.job.phase = j.phase
<1> DEFINE content == IF out = "late" THEN Flushed(j.card["TMP"]) ELSE j.card["TMP"]
           card == [j.card EXCEPT !["TMP"] = content]
           v == [j EXCEPT !.sinkOk = FALSE, !.card = card]
           c == CommitFrames(j, out)
<1>1. j \in JobType
  BY DEF JobSound
<1>2. "TMP" \in Name /\ j.card \in [Name -> Content] /\ j.card["TMP"] \in Content
  BY <1>1 DEF Name, JobType
<1>3. content \in Content /\ (content = "foreign" => j.card["TMP"] = "foreign")
  BY <1>2, FlushedFacts
<1>4. {"unavailable", "io_error", "invalid_argument"} \subseteq Statuses \ {"ok"}
  BY DEF Statuses
<1>5. [j EXCEPT !.sinkOk = FALSE, !.card["TMP"] = IF out = "late" THEN Flushed(@) ELSE @] = v
  BY <1>1 DEF JobType
<1>6. [j EXCEPT !.committed = j.rendered, !.card["TMP"] = Flushed(@)] = Committed(j)
  BY <1>1 DEF Committed, JobType
<1>7. \/ c.ret = "ok" /\ c.job = Committed(j)
      \/ c.ret \in Statuses \ {"ok"} /\ c.job \in {j, v}
  BY <1>4, <1>5, <1>6 DEF CommitFrames, Ok, Return
<1>8. card \in [Name -> Content]
  BY <1>2, <1>3
<1> HIDE DEF content
<1>9. v \in JobType
  BY <1>1, <1>8 DEF JobType
<1>10. /\ v.card = [j.card EXCEPT !["TMP"] = content] /\ v.open = j.open /\ v.bound = j.bound /\ v.writer = j.writer
       /\ v.phase = j.phase /\ Kept(j, v)
  BY <1>1 DEF JobType, Kept
<1> HIDE DEF v
<1>11. v.bound \/ v.writer = "active" => "output" \in v.open
  BY <1>10 DEF JobSound
<1>12. JobSound(v)
  BY <1>3, <1>9, <1>10, <1>11, SoundWrites
<1>13. Kept(j, j)
  BY DEF Kept
<1> QED BY <1>7, <1>10, <1>12, <1>13

(* The owner's commit while OUT.TMP is being written.                      *)
LEMMA CommitPrefixKeeps ==
  ASSUME NEW j, JobFits(j), NEW out \in Outcome
  PROVE  JobFits(CommitPrefix(j, out).job)
<1> DEFINE c == CommitFrames(j, out)
           u == Committed(j)
<1>1. CASE ~Renders(j) \/ "output" \notin j.open
  BY <1>1 DEF CommitPrefix, Return
<1>2. CASE Renders(j) /\ "output" \in j.open
  <2>1. j.work \in Writing
    BY <1>2 DEF JobFits, JobCursors, Renders
  <2>2. /\ j.work \in Working /\ j \in JobType /\ JobSound(j) /\ j.phase = "rendering" /\ RenderRuns(j)
        /\ j.card["TMP"] \in {"partial", "corrupt"}
    BY <2>1, RenderFacts
  <2>3. CommitPrefix(j, out).job = IF c.ret = "ok" THEN c.job ELSE FailWith(c.job, c.ret).job
    BY <1>2 DEF CommitPrefix
  <2>4. "partial" \in Content /\ "corrupt" \in Content
    BY DEF Content
  <2>5. JobFits(u)
    <3>1. /\ u \in JobType /\ u.failure = j.failure /\ u.terminal = j.terminal /\ u.published = j.published
          /\ u.open = j.open /\ u.bound = j.bound /\ u.writer = j.writer /\ u.phase = j.phase
          /\ u.card["TMP"] = Flushed(j.card["TMP"]) /\ (\A n \in Name \ {"TMP"} : u.card[n] = j.card[n])
          /\ u.input = j.input /\ u.source = j.source /\ u.committed = j.rendered /\ u.rendered = j.rendered
          /\ u.produced = j.produced /\ u.managed = j.managed /\ u.blockIn = j.blockIn /\ u.blockOut = j.blockOut
          /\ u.work = j.work
      BY <2>2, CommittedFacts
    <3> HIDE DEF u
    <3>2. j.rendered \in Nat
      BY <2>2 DEF JobType
    <3>3. RenderRuns(u)
      BY <2>2, <3>1, <3>2 DEF RenderRuns
    <3>4. u.card["TMP"] \in {"partial", "corrupt"}
      BY <2>2, <2>4, <3>1, FlushedFacts
    <3> QED BY <2>1, <2>2, <3>1, <3>3, <3>4, RenderKeeps
  <2>6. c.ret # "ok" => JobFits(FailWith(c.job, c.ret).job)
    BY <2>2, CommitSplits, ChangedFails
  <2> QED BY <2>2, <2>3, <2>5, <2>6, CommitSplits
<1> QED BY <1>1, <1>2

LEMMA ReadPrefixKeeps ==
  ASSUME NEW j, JobFits(j), NEW first, NEW frames, NEW out \in Outcome
  PROVE  JobFits(ReadPrefix(j, first, frames, out).job)
<1> DEFINE v == [j EXCEPT !.sinkOk = FALSE]
<1>1. CASE ~Renders(j)
  BY <1>1 DEF ReadPrefix, Return
<1>2. CASE Renders(j)
  <2>1. j.work \in Writing
    BY <1>2 DEF JobFits, JobCursors, Renders
  <2>2. j.work \in Working /\ j \in JobType /\ JobSound(j) /\ j.phase = "rendering"
    BY <2>1, RenderFacts
  <2>3. ReadPrefix(j, first, frames, out).job \in {j, FailWith(v, "io_error").job}
    BY DEF ReadPrefix, Ok, Return
  <2>4. v \in JobType
    BY <2>2 DEF JobType
  <2>5. v.card = j.card /\ v.open = j.open /\ v.bound = j.bound /\ v.writer = j.writer /\ v.phase = j.phase /\ Kept(j, v)
    BY <2>2 DEF JobType, Kept
  <2> HIDE DEF v
  <2>6. JobSound(v)
    BY <2>2, <2>4, <2>5, SoundStep
  <2>7. JobFits(FailWith(v, "io_error").job)
    BY <2>2, <2>5, <2>6, ChangedFails DEF Statuses
  <2> QED BY <2>3, <2>7
<1> QED BY <1>1, <1>2

(* Neither the request of the owner nor a cancel that is yet to take       *)
(* effect is part of what the invariant relates.                           *)
Aside(j, u) ==
  /\ u.work = j.work /\ u.phase = j.phase /\ u.status = j.status /\ u.failure = j.failure /\ u.terminal = j.terminal
  /\ u.published = j.published /\ u.managed = j.managed /\ u.open = j.open /\ u.bound = j.bound /\ u.writer = j.writer
  /\ u.card = j.card /\ u.at = j.at /\ u.source = j.source /\ u.input = j.input /\ u.rendered = j.rendered
  /\ u.produced = j.produced /\ u.committed = j.committed /\ u.blockIn = j.blockIn /\ u.blockOut = j.blockOut

LEMMA AsideKeeps ==
  ASSUME NEW j, NEW u, JobFits(j), u \in JobType, Aside(j, u)
  PROVE  JobFits(u)
<1>1. JobSound(u)
  BY DEF JobFits, JobSound, Aside
<1>2. JobEnds(u)
  BY DEF JobFits, JobEnds, Aside
<1>3. JobFiles(u)
  BY DEF JobFits, JobFiles, Aside
<1>4. JobCursors(u)
  BY DEF JobFits, JobCursors, Aside
<1> QED BY <1>1, <1>2, <1>3, <1>4 DEF JobFits

LEMMA RequestKeeps ==
  ASSUME NEW j, JobFits(j), NEW n \in Nat
  PROVE  LET u == [j EXCEPT !.request = n]
         IN  JobFits(u) /\ Aside(j, u) /\ u.request = n
<1> DEFINE u == [j EXCEPT !.request = n]
<1>1. j \in JobType
  BY DEF JobFits, JobSound
<1>2. u \in JobType
  BY <1>1 DEF JobType
<1>3. Aside(j, u) /\ u.request = n
  BY <1>1 DEF JobType, Aside
<1> HIDE DEF u
<1>4. JobFits(u)
  BY <1>2, <1>3, AsideKeeps
<1> QED BY <1>3, <1>4 DEF u

LEMMA FinishManagedKeeps ==
  ASSUME NEW j, JobFits(j)
  PROVE  JobFits(FinishManaged(j).job)
<1> DEFINE u == [j EXCEPT !.managed = FALSE, !.work = "output_finish"]
<1>1. \/ FinishManaged(j).job = j
      \/ FinishManaged(j).job = u /\ j.work = "render_read_decode" /\ j.input = j.source
  BY DEF FinishManaged, Ok, Return
<1>2. CASE FinishManaged(j).job = u /\ j.work = "render_read_decode" /\ j.input = j.source
  <2>1. j.work \in Writing /\ "output_finish" \in Writing /\ "output_finish" \in Work
    BY <1>2 DEF Writing, Rendering, Work
  <2>2. j \in JobType /\ j.phase = "rendering" /\ RenderRuns(j) /\ j.card["TMP"] \in {"partial", "corrupt"}
    BY <2>1, RenderFacts
  <2>3. u \in JobType
    BY <2>1, <2>2 DEF JobType
  <2>4. /\ u.work = "output_finish" /\ u.failure = j.failure /\ u.terminal = j.terminal /\ u.published = j.published
        /\ u.open = j.open /\ u.bound = j.bound /\ u.writer = j.writer /\ u.phase = j.phase /\ u.card = j.card
        /\ u.input = j.input /\ u.source = j.source /\ u.committed = j.committed /\ u.rendered = j.rendered
    BY <2>2 DEF JobType
  <2> HIDE DEF u
  <2>5. RenderRuns(u)
    BY <1>2, <2>2, <2>4 DEF RenderRuns, Rendering
  <2>6. JobFits(u)
    BY <2>1, <2>2, <2>3, <2>4, <2>5, RenderKeeps
  <2> QED BY <1>2, <2>6
<1> QED BY <1>1, <1>2

(* The owner's block: asked for, packed, and counted as produced.          *)
LEMMA ProduceKeeps ==
  ASSUME NEW j, JobFits(j), NEW frames \in Nat, NEW out \in Outcome
  PROVE  JobFits(ProduceStep(j, frames, out).job)
<1> DEFINE asked == [j EXCEPT !.request = frames]
           read == RenderReadDecodeStep(asked, out)
           packed == RenderProcessPackStep(j, out)
           p == Packed(j, out)
           u == [p EXCEPT !.produced = j.rendered + p.blockOut]
<1>1. \/ ProduceStep(j, frames, out).job = j
      \/ /\ ProduceStep(j, frames, out).job = read.job
         /\ j.work = "render_read_decode" /\ ~(frames > j.source - j.input)
      \/ /\ j.managed /\ j.work = "render_process_pack"
         /\ ProduceStep(j, frames, out).job = IF packed.ret # "ok" THEN packed.job
                                              ELSE [packed.job EXCEPT !.produced = j.rendered + packed.job.blockOut]
  BY DEF ProduceStep, Ok, Return
<1>2. CASE /\ ProduceStep(j, frames, out).job = read.job
           /\ j.work = "render_read_decode" /\ ~(frames > j.source - j.input)
  <2>1. j \in JobType
    BY <1>2, RenderFacts DEF Writing, Rendering
  <2>2. j.source \in Nat /\ j.input \in Nat
    BY <2>1 DEF JobType
  <2>3. JobFits(asked) /\ Aside(j, asked) /\ asked.request = frames
    BY RequestKeeps
  <2> HIDE DEF asked
  <2>4. asked.work = "render_read_decode" /\ asked.request <= asked.source - asked.input
    BY <1>2, <2>2, <2>3 DEF Aside
  <2> QED BY <1>2, <2>3, <2>4, RenderReadKeeps
<1>3. CASE /\ j.managed /\ j.work = "render_process_pack"
           /\ ProduceStep(j, frames, out).job = IF packed.ret # "ok" THEN packed.job
                                                ELSE [packed.job EXCEPT !.produced = j.rendered + packed.job.blockOut]
  <2>1. j.work \in Writing /\ "render_append" \in Writing
    BY <1>3 DEF Writing, Rendering
  <2>2. /\ j \in JobType /\ RenderRuns(j) /\ j.card["TMP"] \in {"partial", "corrupt"} /\ j.phase = "rendering"
        /\ j.work \in Working
    BY <2>1, RenderFacts
  <2>3. \A s \in Statuses : JobFits(FailWith(j, s).job)
    BY <2>2, WorkingFails
  <2>4. ASSUME j.blockIn # 0, EngineFrames(j, out) = j.blockIn PROVE JobFits(u)
    <3>1. /\ p \in JobType /\ p.work = "render_append" /\ p.failure = j.failure /\ p.terminal = j.terminal
          /\ p.published = j.published /\ p.open = j.open /\ p.bound = j.bound /\ p.writer = j.writer
          /\ p.phase = j.phase /\ p.card = j.card /\ p.input = j.input /\ p.source = j.source
          /\ p.committed = j.committed /\ p.rendered = j.rendered /\ p.managed = j.managed /\ p.blockIn = j.blockIn
          /\ p.blockOut = j.blockIn
      BY <1>3, <2>4, PackedFacts
    <3> HIDE DEF p
    <3>2. j.rendered \in Nat /\ p.blockOut \in Nat
      BY <2>2, <3>1 DEF JobType
    <3>3. j.rendered + p.blockOut \in Nat
      BY <3>2
    <3>4. u \in JobType
      BY <3>1, <3>3 DEF JobType
    <3>5. /\ u.work = "render_append" /\ u.failure = j.failure /\ u.terminal = j.terminal
          /\ u.published = j.published /\ u.open = j.open /\ u.bound = j.bound /\ u.writer = j.writer
          /\ u.phase = j.phase /\ u.card = j.card /\ u.input = j.input /\ u.source = j.source
          /\ u.committed = j.committed /\ u.rendered = j.rendered /\ u.managed = j.managed /\ u.blockIn = j.blockIn
          /\ u.blockOut = j.blockIn /\ u.produced = j.rendered + p.blockOut
      BY <3>1 DEF JobType
    <3> HIDE DEF u
    <3>6. RenderRuns(u)
      BY <1>3, <2>2, <3>1, <3>5 DEF RenderRuns, Rendering
    <3> QED BY <2>1, <2>2, <3>4, <3>5, <3>6, RenderKeeps
  <2> QED BY <1>3, <2>2, <2>3, <2>4, PackSplits
<1> QED BY <1>1, <1>2, <1>3

LEMMA AppendProducedKeeps ==
  ASSUME NEW j, JobFits(j), NEW frames \in Nat, NEW out \in Outcome
  PROVE  JobFits(AppendProduced(j, frames, out).job)
<1> DEFINE r == RenderAppendStep(j, out)
           u == [r.job EXCEPT !.request = 0]
<1>1. \/ AppendProduced(j, frames, out).job = j
      \/ j.work = "render_append" /\ AppendProduced(j, frames, out).job \in {r.job, u}
  BY DEF AppendProduced, Ok, Return
<1>2. j.work = "render_append" => JobFits(r.job)
  BY RenderAppendKeeps
<1> HIDE DEF r
<1>3. j.work = "render_append" => JobFits(u)
  BY <1>2, RequestKeeps
<1> QED BY <1>1, <1>2, <1>3

-----------------------------------------------------------------------------
(* The steps after the last block: OUT.TMP is finished, flushed, closed    *)
(* and read back.                                                          *)

LEMMA LaterFacts ==
  ASSUME NEW j, JobFits(j), j.work \in Later
  PROVE  /\ j.work \in Working /\ j \in JobType /\ JobSound(j) /\ j.failure = "ok" /\ j.terminal = "idle"
         /\ j.published = FALSE /\ j.phase \notin {"complete", "cancelled"} /\ j.input = j.source
         /\ j.work # "output_finish" => j.phase # "rendering"
<1>1. j.work \in Working
  BY DEF Working
<1>2. j.input = j.source
  BY DEF JobFits, JobCursors, Later
<1>3. j.work # "output_finish" => j.work \notin Writing \cup {"cleanup"}
  BY DEF Later, Writing, Rendering, Unsynced, Unverified, Manifest, Publishing
<1>4. j.work # "output_finish" => j.phase # "rendering"
  BY <1>3 DEF JobFits, JobCursors
<1> QED BY <1>1, <1>2, <1>4, WorkingFacts

LEMMA LaterKeeps ==
  ASSUME NEW j, NEW u, JobFits(j), j.work \in Later, u.work \in Later \ {"output_finish"}, JobSound(u),
         u.failure = j.failure, u.terminal = j.terminal, u.published = j.published,
         u.phase \notin {"complete", "cancelled", "rendering"}, u.input = u.source,
         u.work \in Loops => u.at <= Chunks, JobFiles(u)
  PROVE  JobFits(u)
<1>1. u.work \in Working
  BY DEF Working
<1>2. JobEnds(u)
  BY <1>1, LaterFacts, EndsWorking
<1>3. u.work \notin BeforePaths \cup {"path_checks"} \cup BeforeOutput \cup Writing /\ u.work \notin Rendering
  BY DEF Later, BeforePaths, BeforeOutput, Writing, Rendering, Unsynced, Unverified, Manifest, Publishing
<1>4. JobCursors(u)
  BY <1>3 DEF JobCursors
<1> QED BY <1>2, <1>4 DEF JobFits

(* Going on with the card as it is, after a file was opened or closed.     *)
LEMMA LaterGoes ==
  ASSUME NEW j, NEW u, JobFits(j), j.work \in Unsynced \cup Unverified \cup {"verify_close"}, u \in JobType,
         u.work \in Unsynced \cup Unverified \cup {"verify_close", "manifest_create"}, Same(j, u), u.input = j.input, u.source = j.source,
         "output" \in j.open => "output" \in u.open, u.open \subseteq j.open \cup {"work"},
         u.phase \notin {"complete", "cancelled", "rendering"}, u.work \in Loops => u.at <= Chunks,
         u.work \in Unsynced => j.work \in Unsynced,
         u.work \in Unverified => j.work \in Unverified,
         u.work \in {"verify_close", "manifest_create"} => j.card["TMP"] = "sealed"
  PROVE  JobFits(u)
<1>1. j.work \in Later /\ u.work \in Later \ {"output_finish"}
  BY DEF Later, Unsynced, Unverified, Manifest
<1>2. JobSound(j) /\ j.input = j.source
  BY <1>1, LaterFacts
<1>3. JobSound(u)
  BY <1>2, SoundStep DEF Same
<1>4. JobFiles(u)
  <2>1. \A n \in Name : j.card[n] # "foreign"
    BY DEF JobFits, JobFiles
  <2>2. u.work \in Unsynced => j.card["TMP"] \in {"finished", "corrupt"}
    BY DEF JobFits, JobFiles
  <2>3. u.work \in Unverified => j.card["TMP"] \in {"sealed", "corrupt"}
    BY DEF JobFits, JobFiles
  <2>4. /\ u.work \notin BeforeOutput \cup Writing \cup Publishing
        /\ u.work \notin {"path_checks", "manifest_write", "manifest_sync", "manifest_close", "publish_wav", "publish_manifest"}
        /\ u.work \in {"verify_close"} \cup Manifest => u.work \in {"verify_close", "manifest_create"}
    BY DEF BeforeOutput, Writing, Rendering, Unsynced, Unverified, Manifest, Publishing
  <2> QED BY <2>1, <2>2, <2>3, <2>4 DEF JobFiles, Same
<1> QED BY <1>1, <1>2, <1>3, <1>4, LaterKeeps DEF Same

LEMMA LaterFails ==
  ASSUME NEW j, JobFits(j), j.work \in Later, NEW s \in Statuses
  PROVE  JobFits(FailWith(j, s).job)
BY LaterFacts, WorkingFails

(* A close that is the whole step.                                         *)
LEMMA LaterCloses ==
  ASSUME NEW j, JobFits(j), NEW r \in {"secondary", "source", "work"}, NEW out \in Outcome,
         NEW w \in {"output_sync", "verify_open", "manifest_create"},
         w = "output_sync" => j.work = "secondary_close", w = "verify_open" => j.work = "source_close",
         w = "manifest_create" => j.work = "verify_close"
  PROVE  JobFits(CloseThen(j, out, r, w).job)
<1> DEFINE c == Closed(j, r)
           u == Go(c, w).job
<1>1. /\ j.work \in Unsynced \cup Unverified \cup {"verify_close"} /\ w \in Unsynced \cup Unverified \cup {"verify_close", "manifest_create"}
      /\ w \notin Loops /\ (w \in Unsynced => j.work \in Unsynced) /\ (w \in Unverified => j.work \in Unverified)
      /\ w \in Work /\ r \in Resource /\ r # "output" /\ j.work \in Later /\ j.work # "output_finish"
  BY DEF Unsynced, Unverified, Loops, Work, Resource, Later
<1>2. w \in {"verify_close", "manifest_create"} => j.card["TMP"] = "sealed"
  BY DEF JobFits, JobFiles
<1>3. j \in JobType /\ j.phase \notin {"complete", "cancelled", "rendering"}
  BY <1>1, LaterFacts
<1>4. /\ c \in JobType /\ c.open = j.open \ {r} /\ Same(j, c) /\ c.phase = j.phase /\ c.input = j.input
      /\ c.source = j.source
  BY <1>1, <1>3, ClosedFacts
<1>5. CloseThen(j, out, r, w).job \in {FailWith(j, "io_error").job, u}
  BY DEF CloseThen, Fault
<1> HIDE DEF c
<1>6. /\ u \in JobType /\ u.work = w /\ Same(c, u) /\ u.open = c.open /\ u.phase = c.phase /\ u.input = c.input
      /\ u.source = c.source
  BY <1>1, <1>4, GoFacts
<1> HIDE DEF u
<1>7. Same(j, u) /\ u.open \subseteq j.open /\ ("output" \in j.open => "output" \in u.open)
  BY <1>1, <1>4, <1>6 DEF Same
<1>8. JobFits(u)
  BY <1>1, <1>2, <1>3, <1>4, <1>6, <1>7, LaterGoes
<1>9. JobFits(FailWith(j, "io_error").job)
  BY <1>1, LaterFails DEF Statuses
<1> QED BY <1>5, <1>8, <1>9

LEMMA FinishedFacts ==
  ASSUME NEW c \in {"partial", "corrupt"}
  PROVE  Finished(c) \in {"finished", "corrupt"} /\ Finished(c) \in Content
BY DEF Finished, Content

LEMMA FinishOutputKeeps ==
  ASSUME NEW j, JobFits(j), j.work = "output_finish", NEW out \in Outcome
  PROVE  JobFits(FinishOutputStep(j, out).job)
<1> DEFINE next == IF "secondary" \in j.open THEN "secondary_close" ELSE "output_sync"
           done == IF out = "corrupt" THEN "corrupt" ELSE Finished(j.card["TMP"])
           part == IF out = "late" THEN Finished(j.card["TMP"]) ELSE j.card["TMP"]
           card == [j.card EXCEPT !["TMP"] = done]
           torn == [j.card EXCEPT !["TMP"] = part]
           v == [j EXCEPT !.writer = "failed", !.sinkOk = FALSE, !.card = torn]
           u == [j EXCEPT !.open = @ \ {"engine"}, !.writer = "complete", !.phase = "verifying", !.card = card, !.work = next]
<1>1. j.work \in Later /\ j.work \in Writing /\ next \in Unsynced /\ next \in Later \ {"output_finish"} /\ next \in Work
      /\ next \notin Loops
  BY DEF Later, Writing, Unsynced, Work, Loops
<1>2. /\ j.work \in Working /\ j \in JobType /\ JobSound(j) /\ j.input = j.source
      /\ j.phase \notin {"complete", "cancelled"} /\ j.card["TMP"] \in {"partial", "corrupt"}
  BY <1>1, LaterFacts, RenderFacts
<1>3. "TMP" \in Name /\ {"partial", "corrupt"} \subseteq Content /\ "verifying" \in Phase
  BY DEF Name, Content, Phase
<1>4. done \in {"finished", "corrupt"} /\ done \in Content /\ done # "foreign" /\ part \in Content /\ part # "foreign"
  BY <1>2, <1>3, FinishedFacts
<1>5. [WriterFailed(j) EXCEPT !.sinkOk = FALSE, !.card["TMP"] = IF out = "late" THEN Finished(@) ELSE @] = v
  BY <1>2 DEF WriterFailed, JobType
<1>6. Go([DetachEngine(j) EXCEPT !.writer = "complete", !.phase = "verifying",
             !.card["TMP"] = IF out = "corrupt" THEN "corrupt" ELSE Finished(@)], next).job = u
  BY <1>2 DEF DetachEngine, Closed, Go, Ok, Return, JobType
<1>7. FinishOutputStep(j, out).job \in {FailWith(j, "invalid_configuration").job, FailWith(v, "io_error").job, u}
  BY <1>5, <1>6 DEF FinishOutputStep, Fault
<1>8. j.card \in [Name -> Content]
  BY <1>2 DEF JobType
<1>9. card \in [Name -> Content] /\ torn \in [Name -> Content] /\ card["TMP"] = done
      /\ \A n \in Name \ {"TMP"} : card[n] = j.card[n]
  BY <1>3, <1>4, <1>8
<1> HIDE DEF done, part, next
<1>10. v \in JobType /\ u \in JobType
  BY <1>1, <1>2, <1>3, <1>9 DEF JobType
<1>11. /\ v.card = [j.card EXCEPT !["TMP"] = part] /\ v.open = j.open /\ v.bound = j.bound /\ v.writer = "failed"
       /\ v.phase = j.phase /\ Kept(j, v)
  BY <1>2 DEF JobType, Kept
<1>12. /\ u.card = [j.card EXCEPT !["TMP"] = done] /\ u.open = j.open \ {"engine"} /\ u.bound = j.bound /\ u.writer = "complete"
       /\ u.phase = "verifying" /\ Kept(j, u) /\ u.work = next /\ u.input = j.input
  BY <1>2 DEF JobType, Kept
<1>13. u.card["TMP"] = done /\ \A n \in Name \ {"TMP"} : u.card[n] = j.card[n]
  BY <1>9, <1>12
<1> HIDE DEF u, v
<1>14. j.bound => "output" \in j.open
  BY <1>2 DEF JobSound
<1>15. JobSound(v)
  BY <1>2, <1>4, <1>10, <1>11, <1>14, SoundWrites
<1>16. JobSound(u)
  BY <1>2, <1>4, <1>10, <1>12, <1>14, SoundWrites
<1>17. JobFits(FailWith(j, "invalid_configuration").job) /\ JobFits(FailWith(v, "io_error").job)
  BY <1>1, <1>2, <1>11, <1>15, LaterFails, ChangedFails DEF Statuses
<1>18. JobFiles(u)
  <2>1. \A n \in Name : u.card[n] # "foreign"
    BY <1>1, <1>4, <1>13 DEF JobFits, JobFiles
  <2>2. u.work \in {"secondary_close", "output_sync"}
    BY <1>12 DEF next
  <2> QED BY <1>4, <1>13, <2>1, <2>2 DEF JobFiles, BeforeOutput, Writing, Rendering, Unsynced, Unverified, Manifest, Publishing
<1>19. JobFits(u)
  BY <1>1, <1>2, <1>12, <1>16, <1>18, LaterKeeps DEF Kept
<1> QED BY <1>7, <1>17, <1>19

LEMMA OutputSyncKeeps ==
  ASSUME NEW j, JobFits(j), j.work = "output_sync", NEW out \in Outcome
  PROVE  JobFits(OutputSyncStep(j, out).job)
<1> DEFINE c == CommitFrames(j, out)
           v == Committed(j)
           u == Go(v, "output_close").job
<1>1. j.work \in Later \ {"output_finish"} /\ "output_close" \in Later \ {"output_finish"} /\ "output_close" \in Work
      /\ "output_close" \notin Loops
  BY DEF Later, Unsynced, Unverified, Work, Loops
<1>2. /\ j.work \in Working /\ j \in JobType /\ JobSound(j) /\ j.input = j.source
      /\ j.phase \notin {"complete", "cancelled", "rendering"}
  BY <1>1, LaterFacts
<1>3. j.card["TMP"] \in {"finished", "corrupt"} /\ \A n \in Name : j.card[n] # "foreign"
  BY DEF JobFits, JobFiles, Unsynced
<1>4. Flushed(j.card["TMP"]) \in {"sealed", "corrupt"} /\ Flushed(j.card["TMP"]) \in Content /\ Flushed(j.card["TMP"]) # "foreign"
  BY <1>3 DEF Flushed, Content
<1>5. /\ v \in JobType /\ v.failure = j.failure /\ v.terminal = j.terminal /\ v.published = j.published
      /\ v.open = j.open /\ v.bound = j.bound /\ v.writer = j.writer /\ v.phase = j.phase
      /\ v.card = [j.card EXCEPT !["TMP"] = Flushed(j.card["TMP"])]
      /\ v.card["TMP"] = Flushed(j.card["TMP"]) /\ (\A n \in Name \ {"TMP"} : v.card[n] = j.card[n])
      /\ v.input = j.input /\ v.source = j.source
  BY <1>2, CommittedFacts
<1> HIDE DEF v
<1>6. /\ u \in JobType /\ u.work = "output_close" /\ Same(v, u) /\ u.open = v.open /\ u.phase = v.phase
      /\ u.input = v.input /\ u.source = v.source
  BY <1>1, <1>5, GoFacts
<1> HIDE DEF u
<1>7. u.bound \/ u.writer = "active" => "output" \in u.open
  BY <1>2, <1>5, <1>6 DEF JobSound, Same
<1>8. u.card = [j.card EXCEPT !["TMP"] = Flushed(j.card["TMP"])]
  BY <1>5, <1>6 DEF Same
<1>9. JobSound(u)
  BY <1>2, <1>3, <1>4, <1>6, <1>7, <1>8, SoundWrites
<1>10. JobFiles(u)
  <2>1. (\A n \in Name : u.card[n] # "foreign") /\ u.card["TMP"] \in {"sealed", "corrupt"}
    BY <1>3, <1>4, <1>5, <1>6 DEF Same
  <2> QED BY <1>6, <2>1 DEF JobFiles, BeforeOutput, Writing, Rendering, Unsynced, Unverified, Manifest, Publishing
<1>11. JobFits(u)
  BY <1>1, <1>2, <1>5, <1>6, <1>9, <1>10, LaterKeeps DEF Same
<1>12. c.ret # "ok" => JobFits(FailWith(c.job, c.ret).job)
  BY <1>2, CommitSplits, ChangedFails
<1>13. OutputSyncStep(j, out).job = IF c.ret = "ok" THEN Go(c.job, "output_close").job ELSE FailWith(c.job, c.ret).job
  BY DEF OutputSyncStep
<1> QED BY <1>2, <1>11, <1>12, <1>13, CommitSplits DEF u, v

(* Closing OUT.TMP flushes it and leaves the sink and the writer free.     *)
LEMMA CloseOutputFacts ==
  ASSUME NEW j, JobSound(j), NEW out \in Outcome
  PROVE  LET c == CloseOutput(j, out)
             u == c.job
         IN  \/ c.ret = "io_error" /\ u = j
             \/ /\ c.ret = "ok" /\ u \in JobType /\ JobSound(u) /\ Kept(j, u) /\ u.open = j.open \ {"output"}
                /\ u.card["TMP"] = Flushed(j.card["TMP"]) /\ (\A n \in Name \ {"TMP"} : u.card[n] = j.card[n])
                /\ u.work = j.work /\ u.phase = j.phase /\ u.input = j.input
<1> DEFINE flushed == Flushed(j.card["TMP"])
           card == [j.card EXCEPT !["TMP"] = flushed]
           writer == IF j.writer = "active" THEN "cancelled" ELSE j.writer
           u == [j EXCEPT !.open = @ \ {"output"}, !.bound = FALSE, !.card = card, !.writer = writer]
<1>1. j \in JobType
  BY DEF JobSound
<1>2. "TMP" \in Name /\ j.card \in [Name -> Content] /\ j.card["TMP"] \in Content
  BY <1>1 DEF Name, JobType
<1>3. flushed \in Content /\ (flushed = "foreign" => j.card["TMP"] = "foreign")
  BY <1>2, FlushedFacts
<1>4. [Closed(j, "output") EXCEPT !.bound = FALSE, !.card["TMP"] = Flushed(@),
                                  !.writer = IF @ = "active" THEN "cancelled" ELSE @] = u
  BY <1>1 DEF Closed, JobType
<1>5. \/ CloseOutput(j, out).ret = "io_error" /\ CloseOutput(j, out).job = j
      \/ CloseOutput(j, out).ret = "ok" /\ CloseOutput(j, out).job = u
  BY <1>4 DEF CloseOutput, Ok, Return
<1>6. card \in [Name -> Content] /\ card["TMP"] = flushed /\ \A n \in Name \ {"TMP"} : card[n] = j.card[n]
  BY <1>2, <1>3
<1>7. writer \in {"idle", "complete", "failed", "cancelled"}
  BY <1>1 DEF JobType
<1> HIDE DEF flushed, writer
<1>8. u \in JobType
  BY <1>1, <1>6, <1>7 DEF JobType
<1>9. /\ u.card = [j.card EXCEPT !["TMP"] = flushed] /\ u.open = j.open \ {"output"} /\ u.bound = FALSE /\ u.writer = writer
      /\ u.work = j.work /\ u.phase = j.phase /\ u.input = j.input /\ Kept(j, u)
  BY <1>1 DEF JobType, Kept
<1>10. u.card["TMP"] = flushed /\ \A n \in Name \ {"TMP"} : u.card[n] = j.card[n]
  BY <1>6, <1>9
<1> HIDE DEF u
<1>11. JobSound(u)
  BY <1>3, <1>7, <1>8, <1>9, SoundWrites
<1> QED BY <1>5, <1>8, <1>9, <1>10, <1>11 DEF flushed

LEMMA OutputCloseKeeps ==
  ASSUME NEW j, JobFits(j), j.work = "output_close", NEW out \in Outcome
  PROVE  JobFits(OutputCloseStep(j, out).job)
<1> DEFINE c == CloseOutput(j, out)
           v == c.job
           u == Go(v, "source_close").job
<1>1. j.work \in Later \ {"output_finish"} /\ "source_close" \in Later \ {"output_finish"} /\ "source_close" \in Work
      /\ "source_close" \notin Loops
  BY DEF Later, Unverified, Work, Loops
<1>2. /\ j.work \in Working /\ j \in JobType /\ JobSound(j) /\ j.input = j.source
      /\ j.phase \notin {"complete", "cancelled", "rendering"}
  BY <1>1, LaterFacts
<1>3. j.card["TMP"] \in {"sealed", "corrupt"} /\ \A n \in Name : j.card[n] # "foreign"
  BY DEF JobFits, JobFiles, Unverified
<1>4. Flushed(j.card["TMP"]) \in {"sealed", "corrupt"}
  BY <1>3 DEF Flushed
<1>5. \/ c.ret = "io_error" /\ v = j
      \/ /\ c.ret = "ok" /\ v \in JobType /\ JobSound(v) /\ Kept(j, v) /\ v.open = j.open \ {"output"}
         /\ v.card["TMP"] = Flushed(j.card["TMP"]) /\ (\A n \in Name \ {"TMP"} : v.card[n] = j.card[n])
         /\ v.work = j.work /\ v.phase = j.phase /\ v.input = j.input
  BY <1>2, CloseOutputFacts
<1>6. OutputCloseStep(j, out).job = IF c.ret = "ok" THEN u ELSE FailWith(v, c.ret).job
  BY DEF OutputCloseStep
<1> HIDE DEF c, v
<1>7. CASE c.ret = "io_error" /\ v = j
  BY <1>1, <1>6, <1>7, LaterFails DEF Statuses
<1>8. CASE c.ret = "ok"
  <2>1. /\ v \in JobType /\ JobSound(v) /\ Kept(j, v)
        /\ v.card["TMP"] = Flushed(j.card["TMP"]) /\ (\A n \in Name \ {"TMP"} : v.card[n] = j.card[n])
        /\ v.phase = j.phase /\ v.input = j.input
    BY <1>5, <1>8
  <2>2. /\ u \in JobType /\ u.work = "source_close" /\ Same(v, u) /\ u.open = v.open /\ u.phase = v.phase
        /\ u.input = v.input /\ u.source = v.source
    BY <1>1, <2>1, GoFacts
  <2> HIDE DEF u
  <2>3. JobSound(u)
    BY <2>1, <2>2, SoundStep DEF Same
  <2>4. JobFiles(u)
    <3>1. (\A n \in Name : u.card[n] # "foreign") /\ u.card["TMP"] \in {"sealed", "corrupt"}
      BY <1>3, <1>4, <2>1, <2>2 DEF Same
    <3> QED BY <2>2, <3>1 DEF JobFiles, BeforeOutput, Writing, Rendering, Unsynced, Unverified, Manifest, Publishing
  <2>5. JobFits(u)
    BY <1>1, <1>2, <2>1, <2>2, <2>3, <2>4, LaterKeeps DEF Same, Kept
  <2> QED BY <1>6, <1>8, <2>5
<1> QED BY <1>5, <1>7, <1>8

LEMMA VerifyOpenKeeps ==
  ASSUME NEW j, JobFits(j), j.work = "verify_open", NEW out \in Outcome
  PROVE  JobFits(VerifyOpenStep(j, out).job)
<1> DEFINE w == Opened(j, "work")
           v == [w EXCEPT !.phase = "verifying"]
           u == Go(v, "verify_header").job
<1>1. j.work \in Later \ {"output_finish"} /\ j.work \in Unverified /\ "verify_header" \in Unverified /\ "verify_header" \in Work
      /\ "verify_header" \notin Loops /\ "verify_header" \notin Unsynced
  BY DEF Later, Unsynced, Unverified, Work, Loops
<1>2. j.work \in Working /\ j \in JobType
  BY <1>1, LaterFacts
<1>3. "work" \in Resource /\ "verifying" \in Phase
  BY DEF Resource, Phase
<1>4. w \in JobType /\ w.open = j.open \cup {"work"} /\ Same(j, w) /\ w.input = j.input /\ w.source = j.source
  BY <1>2, <1>3, OpenedFacts
<1>5. VerifyOpenStep(j, out).job \in {FailWith(j, "io_error").job, FailWith(w, "io_error").job, u}
  BY DEF VerifyOpenStep, Fault
<1>6. JobFits(FailWith(j, "io_error").job) /\ JobFits(FailWith(w, "io_error").job)
  BY <1>2, WorkingFails, OpenedFails DEF Statuses
<1> HIDE DEF w
<1>7. v \in JobType
  BY <1>3, <1>4 DEF JobType
<1>8. v.phase = "verifying" /\ v.open = w.open /\ Same(w, v) /\ v.input = w.input /\ v.source = w.source
  BY <1>4 DEF JobType, Same
<1> HIDE DEF v
<1>9. /\ u \in JobType /\ u.work = "verify_header" /\ Same(v, u) /\ u.open = v.open /\ u.phase = v.phase
      /\ u.input = v.input /\ u.source = v.source
  BY <1>1, <1>7, GoFacts
<1> HIDE DEF u
<1>10. Same(j, u) /\ u.open = j.open \cup {"work"}
  BY <1>4, <1>8, <1>9 DEF Same
<1>11. JobFits(u)
  BY <1>1, <1>4, <1>8, <1>9, <1>10, LaterGoes
<1> QED BY <1>5, <1>6, <1>11

LEMMA VerifyHeaderKeeps ==
  ASSUME NEW j, JobFits(j), j.work = "verify_header", NEW out \in Outcome
  PROVE  JobFits(VerifyHeaderStep(j, out).job)
<1> DEFINE v == [j EXCEPT !.at = 0]
           u == Go(v, "verify_file").job
<1>1. j.work \in Later \ {"output_finish"} /\ j.work \in Unverified /\ "verify_file" \in Unverified /\ "verify_file" \in Work
      /\ "verify_file" \notin Unsynced
  BY DEF Later, Unsynced, Unverified, Work
<1>2. j.work \in Working /\ j \in JobType /\ j.phase \notin {"complete", "cancelled", "rendering"}
  BY <1>1, LaterFacts
<1>3. VerifyHeaderStep(j, out).job \in {FailWith(j, "io_error").job, u}
  BY DEF VerifyHeaderStep, Fault
<1>4. v \in JobType
  BY <1>2 DEF JobType
<1>5. v.at = 0 /\ v.phase = j.phase /\ v.open = j.open /\ Same(j, v) /\ v.input = j.input /\ v.source = j.source
  BY <1>2 DEF JobType, Same
<1> HIDE DEF v
<1>6. /\ u \in JobType /\ u.work = "verify_file" /\ Same(v, u) /\ u.open = v.open /\ u.phase = v.phase
      /\ u.input = v.input /\ u.source = v.source /\ u.at = v.at
  BY <1>1, <1>4, GoFacts
<1> HIDE DEF u
<1>7. Same(j, u) /\ u.at <= Chunks
  BY <1>5, <1>6, ChunksAssumption DEF Same
<1>8. JobFits(u)
  BY <1>1, <1>2, <1>5, <1>6, <1>7, LaterGoes
<1>9. JobFits(FailWith(j, "io_error").job)
  BY <1>2, WorkingFails DEF Statuses
<1> QED BY <1>3, <1>8, <1>9

(* A file that read back as it was rendered is whole and flushed.          *)
LEMMA VerifyFileKeeps ==
  ASSUME NEW j, JobFits(j), j.work = "verify_file", NEW out \in Outcome
  PROVE  JobFits(VerifyFileStep(j, out).job)
<1> DEFINE u == Go(j, "verify_close").job
           v == [j EXCEPT !.at = @ + 1]
<1>1. j.work \in Later \ {"output_finish"} /\ j.work \in Unverified /\ "verify_close" \in Work
      /\ "verify_close" \notin Loops \cup Unsynced \cup Unverified /\ j.work \in Loops /\ j.work \notin Unsynced
  BY DEF Later, Unsynced, Unverified, Work, Loops
<1>2. j.work \in Working /\ j \in JobType /\ j.phase \notin {"complete", "cancelled", "rendering"}
  BY <1>1, LaterFacts
<1>3. j.at \in Nat /\ j.at <= Chunks /\ j.card["TMP"] \in {"sealed", "corrupt"}
  BY <1>1, <1>2 DEF JobFits, JobCursors, JobFiles, JobType
<1>4. \/ VerifyFileStep(j, out).job = FailWith(j, "io_error").job
      \/ VerifyFileStep(j, out).job = u /\ j.card["TMP"] # "corrupt"
      \/ VerifyFileStep(j, out).job = v /\ j.at # Chunks
  BY DEF VerifyFileStep, ChunkLoop, Fault, Ok, Return
<1>5. /\ u \in JobType /\ u.work = "verify_close" /\ Same(j, u) /\ u.open = j.open /\ u.phase = j.phase
      /\ u.input = j.input /\ u.source = j.source
  BY <1>1, <1>2, GoFacts
<1>6. v \in JobType
  BY <1>2, <1>3 DEF JobType
<1>7. v.at = j.at + 1 /\ v.work = "verify_file" /\ v.phase = j.phase /\ v.open = j.open /\ Same(j, v) /\ v.input = j.input
      /\ v.source = j.source
  BY <1>2 DEF JobType, Same
<1> HIDE DEF u, v
<1>8. j.card["TMP"] # "corrupt" => JobFits(u)
  BY <1>1, <1>2, <1>3, <1>5, LaterGoes
<1>9. j.at # Chunks => v.at <= Chunks
  BY <1>3, <1>7, ChunksAssumption
<1>10. j.at # Chunks => JobFits(v)
  BY <1>1, <1>2, <1>6, <1>7, <1>9, LaterGoes
<1>11. JobFits(FailWith(j, "io_error").job)
  BY <1>2, WorkingFails DEF Statuses
<1> QED BY <1>4, <1>8, <1>10, <1>11

-----------------------------------------------------------------------------
(* The manifest, written beside OUT.TMP and published after it.            *)

LEMMA PutFacts ==
  ASSUME NEW j \in JobType, NEW n \in Name, NEW c \in Content
  PROVE  LET u == Put(j, n, c)
         IN  /\ u \in JobType /\ u.card = [j.card EXCEPT ![n] = c] /\ u.card[n] = c
             /\ (\A m \in Name \ {n} : u.card[m] = j.card[m]) /\ Kept(j, u) /\ u.open = j.open /\ u.bound = j.bound
             /\ u.writer = j.writer /\ u.phase = j.phase /\ u.work = j.work /\ u.input = j.input /\ u.at = j.at
<1> DEFINE card == [j.card EXCEPT ![n] = c]
           u == [j EXCEPT !.card = card]
<1>1. card \in [Name -> Content] /\ card[n] = c /\ \A m \in Name \ {n} : card[m] = j.card[m]
  BY DEF JobType
<1>2. Put(j, n, c) = u
  BY DEF Put, JobType
<1> HIDE DEF card
<1>3. u \in JobType
  BY <1>1 DEF JobType
<1>4. /\ u.card = card /\ Kept(j, u) /\ u.open = j.open /\ u.bound = j.bound
      /\ u.writer = j.writer /\ u.phase = j.phase /\ u.work = j.work /\ u.input = j.input /\ u.at = j.at
  BY DEF JobType, Kept
<1> HIDE DEF u
<1> QED BY <1>1, <1>2, <1>3, <1>4 DEF card

LEMMA ManifestFacts ==
  ASSUME NEW j, JobFits(j), j.work \in Manifest
  PROVE  /\ j.work \in Later \ {"output_finish"} /\ j.work \in Working /\ j \in JobType /\ JobSound(j)
         /\ j.input = j.source /\ j.phase \notin {"complete", "cancelled", "rendering"}
         /\ j.card["TMP"] = "sealed" /\ (\A n \in Name : j.card[n] # "foreign")
         /\ (j.bound \/ j.writer = "active" => "output" \in j.open)
<1>1. j.work \in Later \ {"output_finish"}
  BY DEF Later, Manifest
<1>2. j.card["TMP"] = "sealed" /\ \A n \in Name : j.card[n] # "foreign"
  BY DEF JobFits, JobFiles
<1> QED BY <1>1, <1>2, LaterFacts DEF JobSound

(* A step between the states of the manifest that leaves OUT.TMP alone.    *)
LEMMA ManifestKeeps ==
  ASSUME NEW j, NEW u, JobFits(j), j.work \in Manifest, u \in JobType, NEW c \in Content \ {"foreign"},
         u.work \in {"manifest_write", "manifest_sync", "manifest_close"},
         u.card = [j.card EXCEPT !["JMP"] = c], Kept(j, u), u.input = j.input, u.open \subseteq j.open \cup {"manifest"},
         u.bound = j.bound, u.writer = j.writer, "output" \in j.open => "output" \in u.open,
         u.phase \notin {"complete", "cancelled", "rendering"}, u.work \in Loops => u.at <= Chunks,
         u.work = "manifest_write" => c = IF u.at = Chunks THEN "finished" ELSE "partial",
         u.work = "manifest_sync" => c = "finished", u.work = "manifest_close" => c = "sealed"
  PROVE  JobFits(u)
<1>1. /\ j.work \in Later /\ j \in JobType /\ JobSound(j) /\ j.input = j.source
      /\ j.card["TMP"] = "sealed" /\ (\A n \in Name : j.card[n] # "foreign")
      /\ (j.bound \/ j.writer = "active" => "output" \in j.open)
  BY ManifestFacts
<1>2. "JMP" \in Name /\ "TMP" \in Name /\ j.card \in [Name -> Content]
  BY <1>1 DEF Name, JobType
<1>3. u.card["JMP"] = c /\ u.card["TMP"] = "sealed" /\ \A n \in Name : u.card[n] # "foreign"
  BY <1>1, <1>2
<1>4. JobSound(u)
  BY <1>1, SoundWrites
<1>5. u.work \in Later \ {"output_finish"}
  BY DEF Later, Manifest
<1>6. JobFiles(u)
  <2>1. /\ u.work \notin BeforeOutput \cup Writing \cup Unsynced \cup Unverified \cup Publishing
        /\ u.work \notin {"path_checks", "publish_wav", "publish_manifest"}
    BY DEF BeforeOutput, Writing, Rendering, Unsynced, Unverified, Publishing
  <2> QED BY <1>3, <2>1 DEF JobFiles
<1> QED BY <1>1, <1>4, <1>5, <1>6, LaterKeeps DEF Kept

LEMMA ManifestCreateKeeps ==
  ASSUME NEW j, JobFits(j), j.work = "manifest_create", NEW out \in Outcome
  PROVE  JobFits(ManifestCreateStep(j, out).job)
<1> DEFINE made == Put(j, "JMP", "partial")
           o == Opened(made, "manifest")
           v == [o EXCEPT !.at = 0, !.phase = "publishing"]
           u == Go(v, "manifest_write").job
<1>1. j.work \in Manifest /\ "manifest_write" \in Work
  BY DEF Manifest, Work
<1>2. /\ j.work \in Later \ {"output_finish"} /\ j.work \in Working /\ j \in JobType /\ JobSound(j)
      /\ j.phase \notin {"complete", "cancelled", "rendering"} /\ (\A n \in Name : j.card[n] # "foreign")
      /\ (j.bound \/ j.writer = "active" => "output" \in j.open)
  BY <1>1, ManifestFacts
<1>3. "JMP" \in Name /\ "partial" \in Content \ {"foreign"} /\ "manifest" \in Resource /\ "publishing" \in Phase
  BY DEF Name, Content, Resource, Phase
<1>4. ManifestCreateStep(j, out).job \in
        {FailWith(j, "buffer_too_small").job, FailWith(j, "io_error").job, FailWith(made, "io_error").job, u}
  BY DEF ManifestCreateStep, Fault
<1>5. /\ made \in JobType /\ made.card = [j.card EXCEPT !["JMP"] = "partial"]
      /\ Kept(j, made) /\ made.open = j.open /\ made.bound = j.bound
      /\ made.writer = j.writer /\ made.phase = j.phase /\ made.input = j.input
  BY <1>2, <1>3, PutFacts
<1> HIDE DEF made
<1>6. JobSound(made)
  BY <1>2, <1>3, <1>5, SoundWrites
<1>7. JobFits(FailWith(j, "buffer_too_small").job) /\ JobFits(FailWith(j, "io_error").job)
      /\ JobFits(FailWith(made, "io_error").job)
  BY <1>2, <1>5, <1>6, WorkingFails, ChangedFails DEF Statuses
<1>8. /\ o \in JobType /\ o.open = made.open \cup {"manifest"} /\ Same(made, o) /\ o.input = made.input
      /\ o.source = made.source
  BY <1>3, <1>5, OpenedFacts
<1>9. o.managed = made.managed
  BY <1>5 DEF Opened, JobType
<1> HIDE DEF o
<1>10. v \in JobType
  BY <1>3, <1>8 DEF JobType
<1>11. v.at = 0 /\ v.phase = "publishing" /\ v.open = o.open /\ Same(o, v) /\ v.input = o.input /\ Kept(o, v)
  BY <1>8 DEF JobType, Same, Kept
<1>12. u = [v EXCEPT !.work = "manifest_write"]
  BY DEF Go, Ok, Return
<1> HIDE DEF v, u
<1>13. u \in JobType
  BY <1>1, <1>10, <1>12 DEF JobType
<1>14. /\ u.work = "manifest_write" /\ u.at = v.at /\ u.phase = v.phase /\ u.open = v.open /\ Same(v, u) /\ u.input = v.input
       /\ Kept(v, u)
  BY <1>10, <1>12 DEF JobType, Same, Kept
<1>15. u.at = 0 /\ 0 # Chunks /\ 0 <= Chunks
  BY <1>11, <1>14, ChunksAssumption
<1>16. /\ Kept(j, u) /\ u.open = j.open \cup {"manifest"} /\ u.card = [j.card EXCEPT !["JMP"] = "partial"]
       /\ u.bound = j.bound /\ u.writer = j.writer /\ u.phase = "publishing" /\ u.input = j.input
  BY <1>5, <1>8, <1>9, <1>11, <1>14 DEF Kept, Same
<1>17. JobFits(u)
  BY <1>1, <1>3, <1>13, <1>14, <1>15, <1>16, ManifestKeeps
<1> QED BY <1>4, <1>7, <1>17

LEMMA ManifestWriteKeeps ==
  ASSUME NEW j, JobFits(j), j.work = "manifest_write", NEW out \in Outcome
  PROVE  JobFits(ManifestWriteStep(j, out).job)
<1> DEFINE c == IF j.at + 1 = Chunks THEN Finished(j.card["JMP"]) ELSE j.card["JMP"]
           card == [j.card EXCEPT !["JMP"] = c]
           at == j.at + 1
           v == [j EXCEPT !.at = at, !.card = card]
           u == [j EXCEPT !.work = "manifest_sync"]
<1>1. j.work \in Manifest /\ "manifest_sync" \in Work /\ j.work \in Loops
  BY DEF Manifest, Work, Loops
<1>2. /\ j.work \in Later \ {"output_finish"} /\ j.work \in Working /\ j \in JobType
      /\ j.phase \notin {"complete", "cancelled", "rendering"}
  BY <1>1, ManifestFacts
<1>3. j.at \in Nat /\ j.at <= Chunks /\ Chunks \in Nat
  BY <1>1, <1>2, ChunksAssumption DEF JobFits, JobCursors, JobType
<1>4. j.card["JMP"] = IF j.at = Chunks THEN "finished" ELSE "partial"
  BY DEF JobFits, JobFiles
<1>5. ManifestWriteStep(j, out).job = IF j.at = Chunks THEN u
                                      ELSE IF out # "ok" THEN FailWith(j, "io_error").job ELSE v
  BY <1>2 DEF ManifestWriteStep, Go, Fault, Ok, Return, JobType
<1>6. "JMP" \in Name /\ {"finished", "partial"} \subseteq Content \ {"foreign"} /\ j.card \in [Name -> Content]
  BY <1>2 DEF Name, Content, JobType
<1>7. at \in Nat /\ (j.at # Chunks => at <= Chunks)
  BY <1>3
<1>8. j.at # Chunks => c = IF at = Chunks THEN "finished" ELSE "partial"
  BY <1>4 DEF Finished
<1>9. c \in Content
  BY <1>4, <1>6 DEF Finished
<1>10. card \in [Name -> Content]
  BY <1>6, <1>9
<1> HIDE DEF c, at
<1>11. v \in JobType /\ u \in JobType
  BY <1>1, <1>2, <1>7, <1>10 DEF JobType
<1>12. /\ v.card = [j.card EXCEPT !["JMP"] = c] /\ v.at = at /\ v.work = j.work /\ Kept(j, v) /\ v.input = j.input
       /\ v.open = j.open /\ v.bound = j.bound /\ v.writer = j.writer /\ v.phase = j.phase
  BY <1>2 DEF JobType, Kept
<1>13. /\ u.card = j.card /\ u.work = "manifest_sync" /\ Kept(j, u) /\ u.input = j.input
       /\ u.open = j.open /\ u.bound = j.bound /\ u.writer = j.writer /\ u.phase = j.phase
  BY <1>2 DEF JobType, Kept
<1> HIDE DEF u, v
<1>14. j.at # Chunks => c \in Content \ {"foreign"}
  BY <1>6, <1>8
<1>15. j.at # Chunks => JobFits(v)
  BY <1>1, <1>2, <1>7, <1>8, <1>11, <1>12, <1>14, ManifestKeeps
<1>16. j.at = Chunks => u.card = [j.card EXCEPT !["JMP"] = "finished"]
  BY <1>4, <1>6, <1>13
<1>17. "manifest_sync" \notin Loops
  BY DEF Loops
<1>18. j.at = Chunks => JobFits(u)
  BY <1>1, <1>2, <1>6, <1>11, <1>13, <1>16, <1>17, ManifestKeeps
<1>19. JobFits(FailWith(j, "io_error").job)
  BY <1>2, WorkingFails DEF Statuses
<1> QED BY <1>5, <1>15, <1>18, <1>19

LEMMA ManifestSyncKeeps ==
  ASSUME NEW j, JobFits(j), j.work = "manifest_sync", NEW out \in Outcome
  PROVE  JobFits(ManifestSyncStep(j, out).job)
<1> DEFINE synced == Put(j, "JMP", Flushed(j.card["JMP"]))
           u == Go(synced, "manifest_close").job
<1>1. j.work \in Manifest /\ "manifest_close" \in Work /\ "manifest_close" \notin Loops
  BY DEF Manifest, Work, Loops
<1>2. /\ j.work \in Later \ {"output_finish"} /\ j.work \in Working /\ j \in JobType /\ JobSound(j)
      /\ j.phase \notin {"complete", "cancelled", "rendering"} /\ (\A n \in Name : j.card[n] # "foreign")
      /\ (j.bound \/ j.writer = "active" => "output" \in j.open)
  BY <1>1, ManifestFacts
<1>3. Flushed(j.card["JMP"]) = "sealed" /\ "JMP" \in Name /\ "sealed" \in Content \ {"foreign"}
  BY DEF JobFits, JobFiles, Flushed, Name, Content
<1>4. ManifestSyncStep(j, out).job \in {FailWith(j, "io_error").job, FailWith(synced, "io_error").job, u}
  BY DEF ManifestSyncStep, Fault
<1>5. /\ synced \in JobType /\ synced.card = [j.card EXCEPT !["JMP"] = "sealed"]
      /\ Kept(j, synced) /\ synced.open = j.open /\ synced.bound = j.bound
      /\ synced.writer = j.writer /\ synced.phase = j.phase /\ synced.input = j.input
  BY <1>2, <1>3, PutFacts
<1> HIDE DEF synced
<1>6. JobSound(synced)
  BY <1>2, <1>3, <1>5, SoundWrites
<1>7. JobFits(FailWith(j, "io_error").job) /\ JobFits(FailWith(synced, "io_error").job)
  BY <1>2, <1>5, <1>6, WorkingFails, ChangedFails DEF Statuses
<1>8. u = [synced EXCEPT !.work = "manifest_close"]
  BY DEF Go, Ok, Return
<1> HIDE DEF u
<1>9. u \in JobType
  BY <1>1, <1>5, <1>8 DEF JobType
<1>10. /\ u.work = "manifest_close" /\ u.phase = synced.phase /\ u.open = synced.open /\ Same(synced, u) /\ u.input = synced.input
       /\ Kept(synced, u)
  BY <1>5, <1>8 DEF JobType, Same, Kept
<1>11. /\ Kept(j, u) /\ u.open = j.open /\ u.card = [j.card EXCEPT !["JMP"] = "sealed"]
       /\ u.bound = j.bound /\ u.writer = j.writer /\ u.phase = j.phase /\ u.input = j.input
  BY <1>5, <1>10 DEF Kept, Same
<1>12. JobFits(u)
  BY <1>1, <1>2, <1>3, <1>9, <1>10, <1>11, ManifestKeeps
<1> QED BY <1>4, <1>7, <1>12

LEMMA CloseManifestFacts ==
  ASSUME NEW j, JobSound(j), NEW out \in Outcome
  PROVE  LET c == CloseManifest(j, out)
             u == c.job
         IN  \/ c.ret = "io_error" /\ u = j
             \/ /\ c.ret = "ok" /\ u \in JobType /\ JobSound(u) /\ Kept(j, u) /\ u.open = j.open \ {"manifest"}
                /\ u.card["JMP"] = Flushed(j.card["JMP"]) /\ (\A n \in Name \ {"JMP"} : u.card[n] = j.card[n])
                /\ u.work = j.work /\ u.phase = j.phase /\ u.input = j.input
<1> DEFINE flushed == Flushed(j.card["JMP"])
           card == [j.card EXCEPT !["JMP"] = flushed]
           u == [j EXCEPT !.open = @ \ {"manifest"}, !.card = card]
<1>1. j \in JobType
  BY DEF JobSound
<1>2. "JMP" \in Name /\ j.card \in [Name -> Content] /\ j.card["JMP"] \in Content
  BY <1>1 DEF Name, JobType
<1>3. flushed \in Content /\ (flushed = "foreign" => j.card["JMP"] = "foreign")
  BY <1>2, FlushedFacts
<1>4. Put(Closed(j, "manifest"), "JMP", Flushed(j.card["JMP"])) = u
  BY <1>1 DEF Put, Closed, JobType
<1>5. \/ CloseManifest(j, out).ret = "io_error" /\ CloseManifest(j, out).job = j
      \/ CloseManifest(j, out).ret = "ok" /\ CloseManifest(j, out).job = u
  BY <1>4 DEF CloseManifest, Ok, Return
<1>6. card \in [Name -> Content] /\ card["JMP"] = flushed /\ \A n \in Name \ {"JMP"} : card[n] = j.card[n]
  BY <1>2, <1>3
<1> HIDE DEF flushed
<1>7. u \in JobType
  BY <1>1, <1>6 DEF JobType
<1>8. /\ u.card = [j.card EXCEPT !["JMP"] = flushed] /\ u.open = j.open \ {"manifest"} /\ u.bound = j.bound
      /\ u.writer = j.writer /\ u.work = j.work /\ u.phase = j.phase /\ u.input = j.input /\ Kept(j, u)
  BY <1>1 DEF JobType, Kept
<1>9. u.card["JMP"] = flushed /\ \A n \in Name \ {"JMP"} : u.card[n] = j.card[n]
  BY <1>6, <1>8
<1> HIDE DEF u
<1>10. u.bound \/ u.writer = "active" => "output" \in u.open
  BY <1>8 DEF JobSound
<1>11. JobSound(u)
  BY <1>3, <1>7, <1>8, <1>10, SoundWrites
<1> QED BY <1>5, <1>7, <1>8, <1>9, <1>11 DEF flushed

LEMMA ManifestCloseKeeps ==
  ASSUME NEW j, JobFits(j), j.work = "manifest_close", NEW out \in Outcome
  PROVE  JobFits(ManifestCloseStep(j, out).job)
<1> DEFINE c == CloseManifest(j, out)
           v == c.job
           u == Go(v, "publish_wav").job
<1>1. j.work \in Manifest /\ "publish_wav" \in Later \ {"output_finish"} /\ "publish_wav" \in Work
      /\ "publish_wav" \notin Loops
  BY DEF Later, Manifest, Publishing, Work, Loops
<1>2. /\ j.work \in Later \ {"output_finish"} /\ j.work \in Working /\ j \in JobType /\ JobSound(j) /\ j.input = j.source
      /\ j.phase \notin {"complete", "cancelled", "rendering"} /\ j.card["TMP"] = "sealed"
      /\ \A n \in Name : j.card[n] # "foreign"
  BY <1>1, ManifestFacts
<1>3. Flushed(j.card["JMP"]) = "sealed"
  BY DEF JobFits, JobFiles, Flushed
<1>4. \/ c.ret = "io_error" /\ v = j
      \/ /\ c.ret = "ok" /\ v \in JobType /\ JobSound(v) /\ Kept(j, v) /\ v.open = j.open \ {"manifest"}
         /\ v.card["JMP"] = Flushed(j.card["JMP"]) /\ (\A n \in Name \ {"JMP"} : v.card[n] = j.card[n])
         /\ v.work = j.work /\ v.phase = j.phase /\ v.input = j.input
  BY <1>2, CloseManifestFacts
<1>5. ManifestCloseStep(j, out).job = IF c.ret = "ok" THEN u ELSE FailWith(v, c.ret).job
  BY DEF ManifestCloseStep
<1> HIDE DEF c, v
<1>6. CASE c.ret = "io_error" /\ v = j
  BY <1>2, <1>5, <1>6, LaterFails DEF Statuses
<1>7. CASE c.ret = "ok"
  <2>1. /\ v \in JobType /\ JobSound(v) /\ Kept(j, v)
        /\ v.card["JMP"] = "sealed" /\ (\A n \in Name \ {"JMP"} : v.card[n] = j.card[n])
        /\ v.phase = j.phase /\ v.input = j.input
    BY <1>3, <1>4, <1>7
  <2>2. /\ u \in JobType /\ u.work = "publish_wav" /\ Same(v, u) /\ u.open = v.open /\ u.phase = v.phase
        /\ u.input = v.input /\ u.source = v.source
    BY <1>1, <2>1, GoFacts
  <2> HIDE DEF u
  <2>3. JobSound(u)
    BY <2>1, <2>2, SoundStep DEF Same
  <2>4. JobFiles(u)
    <3>1. "TMP" \in Name \ {"JMP"}
      BY DEF Name
    <3>2. u.card["TMP"] = "sealed" /\ u.card["JMP"] = "sealed"
      BY <1>2, <2>1, <2>2, <3>1 DEF Same
    <3> QED BY <2>2, <3>2 DEF JobFiles, BeforeOutput, Writing, Rendering, Unsynced, Unverified, Manifest, Publishing
  <2>5. JobFits(u)
    BY <1>1, <1>2, <2>1, <2>2, <2>3, <2>4, LaterKeeps DEF Same, Kept
  <2> QED BY <1>5, <1>7, <2>5
<1> QED BY <1>4, <1>6, <1>7

(* A rename moves a flushed file onto a free name: OUT.WAV first, and      *)
(* OUT.JSN only where OUT.WAV is already whole.                            *)
LEMMA RenamedFacts ==
  ASSUME NEW j, JobSound(j), NEW from \in {"TMP", "JMP"}, NEW to \in {"WAV", "JSN"}, j.card[from] = "sealed",
         j.card[to] = "absent", to = "JSN" => j.card["WAV"] = "sealed"
  PROVE  LET u == Renamed(j, from, to)
         IN  /\ u \in JobType /\ JobSound(u) /\ Kept(j, u) /\ u.card[to] = "sealed"
             /\ (\A n \in Name \ {from, to} : u.card[n] = j.card[n])
             /\ u.phase = j.phase /\ u.input = j.input /\ u.work = j.work /\ u.open = j.open /\ u.bound = j.bound
             /\ u.writer = j.writer
<1> DEFINE card == [j.card EXCEPT ![to] = j.card[from], ![from] = "absent"]
           u == [j EXCEPT !.card = card]
<1>1. j \in JobType
  BY DEF JobSound
<1>2. j.card \in [Name -> Content] /\ from \in Name /\ to \in Name /\ "absent" \in Content /\ "sealed" \in Content /\ from # to
  BY <1>1 DEF JobType, Name, Content
<1>3. card = [n \in Name |-> IF n = from THEN "absent" ELSE IF n = to THEN "sealed" ELSE j.card[n]]
  BY <1>2
<1>4. card \in [Name -> Content]
  BY <1>2, <1>3
<1>5. card[to] = "sealed" /\ card[from] = "absent" /\ \A n \in Name \ {from, to} : card[n] = j.card[n]
  BY <1>2, <1>3
<1>6. Renamed(j, from, to) = u
  BY <1>1 DEF Renamed, JobType
<1> HIDE DEF card
<1>7. u \in JobType
  BY <1>1, <1>4 DEF JobType
<1>8. /\ u.card = card /\ Kept(j, u) /\ u.phase = j.phase /\ u.input = j.input /\ u.work = j.work /\ u.open = j.open
      /\ u.bound = j.bound /\ u.writer = j.writer
  BY <1>1 DEF JobType, Kept
<1> HIDE DEF u
<1>9. u.card["WAV"] \in {"absent", "foreign", "sealed"} /\ u.card["JSN"] \in {"absent", "foreign", "sealed"}
      /\ (u.card["JSN"] = "sealed" => u.card["WAV"] = "sealed")
  <2>1. "WAV" \in Name /\ "JSN" \in Name
    BY DEF Name
  <2>2. CASE to = "WAV"
    <3>1. u.card["WAV"] = "sealed" /\ u.card["JSN"] = j.card["JSN"]
      BY <1>5, <1>8, <2>1, <2>2
    <3> QED BY <3>1 DEF JobSound
  <2>3. CASE to = "JSN"
    <3>1. u.card["JSN"] = "sealed" /\ u.card["WAV"] = j.card["WAV"]
      BY <1>5, <1>8, <2>1, <2>3
    <3> QED BY <2>3, <3>1
  <2> QED BY <2>2, <2>3
<1>10. (\A n \in Name : j.card[n] # "foreign") => \A n \in Name : u.card[n] # "foreign"
  BY <1>5, <1>8
<1>11. JobSound(u)
  BY <1>7, <1>8, <1>9, <1>10 DEF JobSound
<1> QED BY <1>5, <1>6, <1>7, <1>8, <1>11

LEMMA PublishFacts ==
  ASSUME NEW j, JobFits(j), j.work \in Publishing
  PROVE  /\ j.work \in Later \ {"output_finish"} /\ j.work \in Working /\ j \in JobType /\ JobSound(j) /\ j.input = j.source
         /\ j.phase \notin {"complete", "cancelled", "rendering"} /\ j.card["JMP"] = "sealed"
         /\ (j.work = "publish_wav" => j.card["TMP"] = "sealed")
         /\ (j.work = "publish_manifest" => j.card["WAV"] = "sealed")
<1>1. j.work \in Later \ {"output_finish"}
  BY DEF Later, Publishing
<1>2. /\ j.card["JMP"] = "sealed" /\ (j.work = "publish_wav" => j.card["TMP"] = "sealed")
      /\ (j.work = "publish_manifest" => j.card["WAV"] = "sealed")
  BY DEF JobFits, JobFiles
<1> QED BY <1>1, <1>2, LaterFacts

LEMMA PublishWavKeeps ==
  ASSUME NEW j, JobFits(j), j.work = "publish_wav", NEW out \in Outcome
  PROVE  JobFits(PublishStep(j, out).job)
<1> DEFINE v == Renamed(j, "TMP", "WAV")
           u == Go(v, "publish_manifest").job
<1>1. /\ j.work \in Publishing /\ "publish_manifest" \in Later \ {"output_finish"} /\ "publish_manifest" \in Work
      /\ "publish_manifest" \notin Loops
  BY DEF Later, Publishing, Work, Loops
<1>2. /\ j.work \in Later \ {"output_finish"} /\ j.work \in Working /\ JobSound(j) /\ j.input = j.source
      /\ j.phase \notin {"complete", "cancelled", "rendering"} /\ j.card["JMP"] = "sealed" /\ j.card["TMP"] = "sealed"
  BY <1>1, PublishFacts
<1>3. \/ PublishStep(j, out).job = FailWith(j, "io_error").job
      \/ PublishStep(j, out).job \in {FailWith(v, "io_error").job, u} /\ j.card["WAV"] = "absent"
  BY DEF PublishStep, CanRename, Fault
<1>4. JobFits(FailWith(j, "io_error").job)
  BY <1>2, WorkingFails DEF Statuses
<1>5. ASSUME j.card["WAV"] = "absent" PROVE JobFits(FailWith(v, "io_error").job) /\ JobFits(u)
  <2>1. /\ v \in JobType /\ JobSound(v) /\ Kept(j, v) /\ v.card["WAV"] = "sealed"
        /\ (\A n \in Name \ {"TMP", "WAV"} : v.card[n] = j.card[n])
        /\ v.phase = j.phase /\ v.input = j.input
    BY <1>2, <1>5, RenamedFacts
  <2> HIDE DEF v
  <2>2. JobFits(FailWith(v, "io_error").job)
    BY <1>2, <2>1, ChangedFails DEF Statuses
  <2>3. /\ u \in JobType /\ u.work = "publish_manifest" /\ Same(v, u) /\ u.open = v.open /\ u.phase = v.phase
        /\ u.input = v.input /\ u.source = v.source
    BY <1>1, <2>1, GoFacts
  <2> HIDE DEF u
  <2>4. JobSound(u)
    BY <2>1, <2>3, SoundStep DEF Same
  <2>5. JobFiles(u)
    <3>1. "JMP" \in Name \ {"TMP", "WAV"}
      BY DEF Name
    <3>2. u.card["WAV"] = "sealed" /\ u.card["JMP"] = "sealed"
      BY <1>2, <2>1, <2>3, <3>1 DEF Same
    <3> QED BY <2>3, <3>2 DEF JobFiles, BeforeOutput, Writing, Rendering, Unsynced, Unverified, Manifest, Publishing
  <2>6. JobFits(u)
    BY <1>1, <1>2, <2>1, <2>3, <2>4, <2>5, LaterKeeps DEF Same, Kept
  <2> QED BY <2>2, <2>6
<1> QED BY <1>3, <1>4, <1>5

-----------------------------------------------------------------------------
(* The end of a job.                                                       *)

(* In the cleanup and after it nothing is claimed of the files under way.  *)
LEMMA EndingFits ==
  ASSUME NEW u, JobSound(u), JobEnds(u), u.work \in {"idle", "cleanup", "terminal"}, u.work # "cleanup" => u.phase # "rendering"
  PROVE  JobFits(u)
<1>1. JobFiles(u)
  BY DEF JobFiles, BeforeOutput, Writing, Rendering, Unsynced, Unverified, Manifest, Publishing
<1>2. JobCursors(u)
  BY DEF JobCursors, BeforePaths, BeforeOutput, Writing, Rendering, Unsynced, Unverified, Manifest, Publishing, Loops
<1> QED BY <1>1, <1>2 DEF JobFits

LEMMA PublishManifestKeeps ==
  ASSUME NEW j, JobFits(j), j.work = "publish_manifest", NEW out \in Outcome
  PROVE  JobFits(PublishStep(j, out).job)
<1> DEFINE v == Renamed(j, "JMP", "JSN")
           u == [v EXCEPT !.published = TRUE, !.terminal = "complete", !.failure = "ok", !.work = "cleanup"]
<1>1. j.work \in Publishing /\ "cleanup" \in Work
  BY DEF Publishing, Work
<1>2. /\ j.work \in Working /\ JobSound(j) /\ j.input = j.source
      /\ j.phase \notin {"complete", "cancelled", "rendering"} /\ j.card["JMP"] = "sealed" /\ j.card["WAV"] = "sealed"
  BY <1>1, PublishFacts
<1>3. \/ PublishStep(j, out).job = FailWith(j, "io_error").job
      \/ PublishStep(j, out).job \in {FailWith(v, "io_error").job, u} /\ j.card["JSN"] = "absent"
  BY DEF PublishStep, CanRename, Fault, Ok, Return
<1>4. JobFits(FailWith(j, "io_error").job)
  BY <1>2, WorkingFails DEF Statuses
<1>5. ASSUME j.card["JSN"] = "absent" PROVE JobFits(FailWith(v, "io_error").job) /\ JobFits(u)
  <2>1. v \in JobType /\ JobSound(v) /\ Kept(j, v) /\ v.phase = j.phase /\ v.input = j.input
    BY <1>2, <1>5, RenamedFacts
  <2> HIDE DEF v
  <2>2. JobFits(FailWith(v, "io_error").job)
    BY <1>2, <2>1, ChangedFails DEF Statuses
  <2>3. u \in JobType
    BY <1>1, <2>1 DEF JobType, Statuses
  <2>4. /\ u.published = TRUE /\ u.terminal = "complete" /\ u.failure = "ok" /\ u.work = "cleanup" /\ u.phase = v.phase
        /\ u.input = v.input /\ u.source = v.source /\ u.card = v.card /\ u.open = v.open /\ u.bound = v.bound
        /\ u.writer = v.writer
    BY <2>1 DEF JobType
  <2> HIDE DEF u
  <2>5. JobSound(u)
    BY <2>1, <2>3, <2>4, SoundStep
  <2>6. JobEnds(u)
    BY <1>2, <2>1, <2>4 DEF JobEnds, Kept
  <2> QED BY <2>2, <2>4, <2>5, <2>6, EndingFits
<1> QED BY <1>3, <1>4, <1>5

(* Closing a resource of the cleanup but the engine, OUT.TMP or OUT.JMP.   *)
LEMMA CleanupCloseFacts ==
  ASSUME NEW j, JobSound(j), NEW out \in Outcome
  PROVE  LET c == CleanupClose(j, out)
             u == c.job
         IN  /\ JobSound(u) /\ Kept(j, u) /\ u.work = j.work /\ u.phase = j.phase /\ u.input = j.input
             /\ c.ret \in {"ok", "io_error"}
<1> DEFINE r == CleanupNext(j)
           v == Closed(j, r)
<1>1. j \in JobType
  BY DEF JobSound
<1>2. r \in {"secondary", "manifest", "output", "work", "source", "mount"}
  BY DEF CleanupNext
<1>3. Kept(j, j)
  BY DEF Kept
<1>4. CASE r = "manifest"
  BY <1>3, <1>4, CloseManifestFacts DEF CleanupClose
<1>5. CASE r = "output"
  BY <1>3, <1>5, CloseOutputFacts DEF CleanupClose
<1>6. CASE r \notin {"manifest", "output"}
  <2>1. \/ CleanupClose(j, out).ret = "io_error" /\ CleanupClose(j, out).job = j
        \/ CleanupClose(j, out).ret = "ok" /\ CleanupClose(j, out).job = v
    BY <1>6 DEF CleanupClose, Ok, Return
  <2>2. r \in Resource /\ r # "output"
    BY <1>2, <1>6 DEF Resource
  <2> HIDE DEF r
  <2>3. v \in JobType /\ v.open = j.open \ {r} /\ Same(j, v) /\ v.phase = j.phase /\ v.work = j.work /\ v.input = j.input
        /\ v.source = j.source
    BY <1>1, <2>2, ClosedFacts
  <2>4. v.managed = j.managed
    BY <1>1 DEF Closed, JobType
  <2> HIDE DEF v
  <2>5. JobSound(v)
    BY <2>2, <2>3, SoundStep DEF Same
  <2>6. Kept(j, v)
    BY <2>3, <2>4 DEF Kept, Same
  <2> QED BY <1>3, <2>1, <2>3, <2>5, <2>6
<1> QED BY <1>4, <1>5, <1>6

LEMMA CleanupFailedKeeps ==
  ASSUME NEW j, JobSound(j), JobEnds(j), j.work = "cleanup", NEW s \in Statuses
  PROVE  JobFits(CleanupFailed(j, s).job)
<1> DEFINE replace == j.failure = "ok" \/ j.terminal = "cancelled"
           failure == IF replace THEN s ELSE j.failure
           terminal == IF replace THEN "failed" ELSE j.terminal
           u == [j EXCEPT !.failure = failure, !.terminal = terminal, !.phase = "cleanup_failed", !.status = s]
<1>1. j \in JobType
  BY DEF JobSound
<1>2. failure \in Statuses /\ terminal \in {"idle", "complete", "cancelled", "failed"} /\ "cleanup_failed" \in Phase
  BY <1>1 DEF JobType, Phase
<1>3. terminal \notin {"complete", "cancelled"}
  BY DEF JobEnds
<1>4. CleanupFailed(j, s).job = u
  BY <1>1 DEF CleanupFailed, Return, JobType
<1> HIDE DEF failure, terminal
<1>5. u \in JobType
  BY <1>1, <1>2 DEF JobType
<1>6. /\ u.terminal = terminal /\ u.phase = "cleanup_failed" /\ u.work = "cleanup" /\ u.card = j.card /\ u.open = j.open
      /\ u.bound = j.bound /\ u.writer = j.writer
  BY <1>1 DEF JobType
<1> HIDE DEF u
<1>7. JobSound(u)
  BY <1>5, <1>6, SoundStep
<1>8. JobEnds(u)
  BY <1>3, <1>6 DEF JobEnds
<1> QED BY <1>4, <1>6, <1>7, <1>8, EndingFits

LEMMA CleanupEndKeeps ==
  ASSUME NEW j, JobSound(j), JobEnds(j), j.work = "cleanup", j.open = {}
  PROVE  JobFits(CleanupEnd(j).job)
<1> DEFINE phase == IF j.terminal = "idle" THEN "failed" ELSE j.terminal
           u == [j EXCEPT !.phase = phase, !.status = j.failure, !.work = "terminal"]
<1>1. j \in JobType
  BY DEF JobSound
<1>2. phase \in {"failed", "complete", "cancelled"} /\ {"failed", "complete", "cancelled"} \subseteq Phase /\ "terminal" \in Work
      /\ (phase # "failed" => j.terminal = phase)
  BY <1>1 DEF JobType, Phase, Work
<1>3. CleanupEnd(j).job = u
  BY <1>1 DEF CleanupEnd, Return, JobType
<1>4. j.failure \in Statuses
  BY <1>1 DEF JobType
<1> HIDE DEF phase
<1>5. phase \in Phase
  BY <1>2
<1>6. u \in JobType
  BY <1>1, <1>2, <1>4, <1>5 DEF JobType
<1>7. /\ u.terminal = j.terminal /\ u.failure = j.failure /\ u.status = j.failure /\ u.phase = phase /\ u.work = "terminal"
      /\ u.card = j.card /\ u.open = j.open /\ u.bound = j.bound /\ u.writer = j.writer /\ u.published = j.published
      /\ u.input = j.input /\ u.source = j.source
  BY <1>1 DEF JobType
<1> HIDE DEF u
<1>8. JobSound(u)
  BY <1>6, <1>7, SoundStep
<1>9. JobEnds(u)
  BY <1>2, <1>7 DEF JobEnds
<1>10. u.phase # "rendering"
  BY <1>2, <1>7
<1> QED BY <1>3, <1>7, <1>8, <1>9, <1>10, EndingFits

LEMMA CleanupKeeps ==
  ASSUME NEW j, JobFits(j), j.work = "cleanup", NEW out \in Outcome
  PROVE  JobFits(CleanupStep(j, out).job)
<1> DEFINE d == DetachEngine(j)
           c == CleanupClose(d, out)
<1>1. j \in JobType /\ JobSound(j) /\ JobEnds(j)
  BY DEF JobFits, JobSound
<1>2. "engine" \in Resource
  BY DEF Resource
<1>3. /\ d \in JobType /\ d.open = j.open \ {"engine"} /\ Same(j, d) /\ d.phase = j.phase /\ d.work = j.work
      /\ d.input = j.input /\ d.source = j.source
  BY <1>1, <1>2, ClosedFacts DEF DetachEngine
<1>4. CleanupStep(j, out).job = IF d.open = {} THEN CleanupEnd(d).job
                                ELSE IF c.ret = "ok" THEN c.job ELSE CleanupFailed(c.job, c.ret).job
  BY DEF CleanupStep
<1> HIDE DEF d
<1>5. JobSound(d)
  BY <1>1, <1>3, SoundStep DEF Same
<1>6. JobEnds(d)
  BY <1>1, <1>3 DEF JobEnds, Same
<1>7. /\ JobSound(c.job) /\ Kept(d, c.job) /\ c.job.work = d.work /\ c.job.phase = d.phase /\ c.job.input = d.input
      /\ c.ret \in {"ok", "io_error"}
  BY <1>5, CleanupCloseFacts
<1> HIDE DEF c
<1>8. JobEnds(c.job)
  BY <1>3, <1>6, <1>7 DEF JobEnds, Kept
<1>9. JobFits(c.job)
  BY <1>3, <1>7, <1>8, EndingFits
<1>10. c.ret # "ok" => JobFits(CleanupFailed(c.job, c.ret).job)
  BY <1>3, <1>7, <1>8, CleanupFailedKeeps DEF Statuses
<1>11. d.open = {} => JobFits(CleanupEnd(d).job)
  BY <1>3, <1>5, <1>6, CleanupEndKeeps
<1> QED BY <1>4, <1>9, <1>10, <1>11

-----------------------------------------------------------------------------
(* Every method of the job keeps the invariant.                            *)

LEMMA AdvanceKeeps ==
  ASSUME NEW j, JobFits(j), j.work \notin {"idle", "terminal"}, j.work \in Rendering => j.managed = FALSE, NEW out \in Outcome
  PROVE  JobFits(Advance(j, out).job)
<1>1. CASE j.work = "mount"
  <2>1. Advance(j, out) = MountStep(j, out)
    BY <1>1 DEF Advance
  <2> QED BY <1>1, <2>1, MountKeeps
<1>2. CASE j.work = "source_open"
  <2>1. Advance(j, out) = OpenSourceStep(j, out)
    BY <1>2 DEF Advance
  <2> QED BY <1>2, <2>1, OpenSourceKeeps
<1>3. CASE j.work = "source_hash"
  <2>1. Advance(j, out) = ChunkLoop(j, out, "scenario_open")
    BY <1>3 DEF Advance
  <2> QED BY <1>3, <2>1, EarlyLoopsStep
<1>4. CASE j.work = "scenario_open"
  <2>1. Advance(j, out) = OpenScenarioStep(j, out)
    BY <1>4 DEF Advance
  <2> QED BY <1>4, <2>1, OpenScenarioKeeps
<1>5. CASE j.work = "scenario_read"
  <2>1. Advance(j, out) = ChunkLoop(j, out, "scenario_close")
    BY <1>5 DEF Advance
  <2> QED BY <1>5, <2>1, EarlyLoopsStep
<1>6. CASE j.work = "scenario_close"
  <2>1. Advance(j, out) = CloseThen(j, out, "work", "scenario_parse")
    BY <1>6 DEF Advance
  <2> QED BY <1>6, <2>1, EarlyClosesStep
<1>7. CASE j.work = "scenario_parse"
  <2>1. Advance(j, out) = ParseScenarioStep(j, out)
    BY <1>7 DEF Advance
  <2> QED BY <1>7, <2>1, ParseScenarioKeeps
<1>8. CASE j.work = "path_checks"
  <2>1. Advance(j, out) = PathCheckStep(j, out)
    BY <1>8 DEF Advance
  <2> QED BY <1>8, <2>1, PathCheckKeeps
<1>9. CASE j.work = "secondary_hash_open"
  <2>1. Advance(j, out) = HashSecondaryOpenStep(j, out)
    BY <1>9 DEF Advance
  <2> QED BY <1>9, <2>1, HashSecondaryOpenKeeps
<1>10. CASE j.work = "secondary_hash"
  <2>1. Advance(j, out) = ChunkLoop(j, out, "secondary_hash_close")
    BY <1>10 DEF Advance
  <2> QED BY <1>10, <2>1, EarlyLoopsStep
<1>11. CASE j.work = "secondary_hash_close"
  <2>1. Advance(j, out) = CloseThen(j, out, "work", "secondary_open")
    BY <1>11 DEF Advance
  <2> QED BY <1>11, <2>1, EarlyClosesStep
<1>12. CASE j.work = "secondary_open"
  <2>1. Advance(j, out) = SecondaryOpenStep(j, out)
    BY <1>12 DEF Advance
  <2> QED BY <1>12, <2>1, SecondaryOpenKeeps
<1>13. CASE j.work = "secondary_measure"
  <2>1. Advance(j, out) = ChunkLoop(j, out, "configure")
    BY <1>13 DEF Advance
  <2> QED BY <1>13, <2>1, EarlyLoopsStep
<1>14. CASE j.work = "configure"
  <2>1. Advance(j, out) = ConfigureStep(j, out)
    BY <1>14 DEF Advance
  <2> QED BY <1>14, <2>1, ConfigureKeeps
<1>15. CASE j.work = "output_create"
  <2>1. Advance(j, out) = OutputCreateStep(j, out)
    BY <1>15 DEF Advance
  <2> QED BY <1>15, <2>1, OutputCreateKeeps
<1>16. CASE j.work = "render_read_decode"
  <2>1. Advance(j, out) = RenderReadDecodeStep(j, out)
    BY <1>16 DEF Advance
  <2>2. j.managed = FALSE
    BY <1>16 DEF Rendering
  <2> QED BY <1>16, <2>1, <2>2, RenderReadKeeps
<1>17. CASE j.work = "render_process_pack"
  <2>1. Advance(j, out) = RenderProcessPackStep(j, out)
    BY <1>17 DEF Advance
  <2>2. j.managed = FALSE
    BY <1>17 DEF Rendering
  <2> QED BY <1>17, <2>1, <2>2, RenderPackKeeps
<1>18. CASE j.work = "render_append"
  <2>1. Advance(j, out) = RenderAppendStep(j, out)
    BY <1>18 DEF Advance
  <2> QED BY <1>18, <2>1, RenderAppendKeeps
<1>19. CASE j.work = "output_finish"
  <2>1. Advance(j, out) = FinishOutputStep(j, out)
    BY <1>19 DEF Advance
  <2> QED BY <1>19, <2>1, FinishOutputKeeps
<1>20. CASE j.work = "secondary_close"
  <2>1. Advance(j, out) = CloseThen(j, out, "secondary", "output_sync")
    BY <1>20 DEF Advance
  <2> QED BY <1>20, <2>1, LaterCloses
<1>21. CASE j.work = "output_sync"
  <2>1. Advance(j, out) = OutputSyncStep(j, out)
    BY <1>21 DEF Advance
  <2> QED BY <1>21, <2>1, OutputSyncKeeps
<1>22. CASE j.work = "output_close"
  <2>1. Advance(j, out) = OutputCloseStep(j, out)
    BY <1>22 DEF Advance
  <2> QED BY <1>22, <2>1, OutputCloseKeeps
<1>23. CASE j.work = "source_close"
  <2>1. Advance(j, out) = CloseThen(j, out, "source", "verify_open")
    BY <1>23 DEF Advance
  <2> QED BY <1>23, <2>1, LaterCloses
<1>24. CASE j.work = "verify_open"
  <2>1. Advance(j, out) = VerifyOpenStep(j, out)
    BY <1>24 DEF Advance
  <2> QED BY <1>24, <2>1, VerifyOpenKeeps
<1>25. CASE j.work = "verify_header"
  <2>1. Advance(j, out) = VerifyHeaderStep(j, out)
    BY <1>25 DEF Advance
  <2> QED BY <1>25, <2>1, VerifyHeaderKeeps
<1>26. CASE j.work = "verify_file"
  <2>1. Advance(j, out) = VerifyFileStep(j, out)
    BY <1>26 DEF Advance
  <2> QED BY <1>26, <2>1, VerifyFileKeeps
<1>27. CASE j.work = "verify_close"
  <2>1. Advance(j, out) = CloseThen(j, out, "work", "manifest_create")
    BY <1>27 DEF Advance
  <2> QED BY <1>27, <2>1, LaterCloses
<1>28. CASE j.work = "manifest_create"
  <2>1. Advance(j, out) = ManifestCreateStep(j, out)
    BY <1>28 DEF Advance
  <2> QED BY <1>28, <2>1, ManifestCreateKeeps
<1>29. CASE j.work = "manifest_write"
  <2>1. Advance(j, out) = ManifestWriteStep(j, out)
    BY <1>29 DEF Advance
  <2> QED BY <1>29, <2>1, ManifestWriteKeeps
<1>30. CASE j.work = "manifest_sync"
  <2>1. Advance(j, out) = ManifestSyncStep(j, out)
    BY <1>30 DEF Advance
  <2> QED BY <1>30, <2>1, ManifestSyncKeeps
<1>31. CASE j.work = "manifest_close"
  <2>1. Advance(j, out) = ManifestCloseStep(j, out)
    BY <1>31 DEF Advance
  <2> QED BY <1>31, <2>1, ManifestCloseKeeps
<1>32. CASE j.work = "publish_wav"
  <2>1. Advance(j, out) = PublishStep(j, out)
    BY <1>32 DEF Advance
  <2> QED BY <1>32, <2>1, PublishWavKeeps
<1>33. CASE j.work = "publish_manifest"
  <2>1. Advance(j, out) = PublishStep(j, out)
    BY <1>33 DEF Advance
  <2> QED BY <1>33, <2>1, PublishManifestKeeps
<1>34. CASE j.work = "cleanup"
  <2>1. Advance(j, out) = CleanupStep(j, out)
    BY <1>34 DEF Advance
  <2> QED BY <1>34, <2>1, CleanupKeeps
<1>35. j.work \in Work
  BY DEF JobFits, JobSound, JobType
<1> QED BY <1>1, <1>2, <1>3, <1>4, <1>5, <1>6, <1>7, <1>8, <1>9, <1>10, <1>11, <1>12, <1>13, <1>14, <1>15, <1>16, <1>17, <1>18, <1>19, <1>20, <1>21, <1>22, <1>23, <1>24, <1>25, <1>26, <1>27, <1>28, <1>29, <1>30, <1>31, <1>32, <1>33, <1>34, <1>35 DEF Work

(* A requested cancel turns a job to its cleanup, and names it cancelled.  *)
LEMMA CancellingKeeps ==
  ASSUME NEW j, JobFits(j), j.work \notin {"idle", "terminal"}
  PROVE  JobFits(Cancelling(j)) /\ Cancelling(j).work \notin {"idle", "terminal"}
<1> DEFINE u == [j EXCEPT !.terminal = "cancelled", !.failure = "unavailable", !.work = "cleanup"]
<1>1. j \in JobType /\ JobSound(j) /\ JobEnds(j)
  BY DEF JobFits, JobSound
<1>2. Cancelling(j) = j \/ (Cancelling(j) = u /\ ~j.published)
  BY DEF Cancelling
<1>8. "cleanup" \in Work /\ "unavailable" \in Statuses
  BY DEF Work, Statuses
<1>3. u \in JobType
  BY <1>1, <1>8 DEF JobType
<1>4. /\ u.terminal = "cancelled" /\ u.failure = "unavailable" /\ u.work = "cleanup" /\ u.phase = j.phase
      /\ u.card = j.card /\ u.open = j.open /\ u.bound = j.bound /\ u.writer = j.writer /\ u.published = j.published
  BY <1>1 DEF JobType
<1> HIDE DEF u
<1>5. JobSound(u)
  BY <1>1, <1>3, <1>4, SoundStep
<1>6. j.phase \notin {"complete", "cancelled"}
  BY <1>1 DEF JobEnds
<1>7. ~j.published => JobEnds(u)
  BY <1>4, <1>6 DEF JobEnds
<1> QED BY <1>2, <1>4, <1>5, <1>7, EndingFits

LEMMA JobStepKeeps ==
  ASSUME NEW j, JobFits(j), NEW out \in Outcome
  PROVE  JobFits(JobStep(j, out).job)
<1> DEFINE c == Cancelling(j)
<1>1. CASE j.work \in {"idle", "terminal"}
  BY <1>1 DEF JobStep, Return
<1>2. CASE j.work \notin {"idle", "terminal"}
  <2>1. JobFits(c) /\ c.work \notin {"idle", "terminal"}
    BY <1>2, CancellingKeeps
  <2>2. JobStep(j, out).job = IF c.managed /\ c.phase = "rendering" /\ c.work \in Rendering THEN c ELSE Advance(c, out).job
    BY <1>2 DEF JobStep, Return
  <2> HIDE DEF c
  <2>3. c.managed \in BOOLEAN
    BY <2>1 DEF JobFits, JobSound, JobType
  <2>4. c.work \in Rendering => c.phase = "rendering"
    BY <2>1 DEF JobFits, JobCursors, Writing
  <2>5. ~(c.managed /\ c.phase = "rendering" /\ c.work \in Rendering) => (c.work \in Rendering => c.managed = FALSE)
    BY <2>3, <2>4
  <2> QED BY <2>1, <2>2, <2>5, AdvanceKeeps
<1> QED BY <1>1, <1>2

LEMMA JobCancelKeeps ==
  ASSUME NEW j, JobFits(j)
  PROVE  JobFits(JobCancel(j).job)
<1> DEFINE phase == IF j.work = "cleanup" /\ j.phase = "cleanup_failed" THEN "starting" ELSE j.phase
           v == [j EXCEPT !.cancel = TRUE]
           u == [j EXCEPT !.cancel = TRUE, !.phase = phase]
<1>1. j \in JobType /\ JobSound(j) /\ JobEnds(j)
  BY DEF JobFits, JobSound
<1>2. JobCancel(j).job \in {j, u} /\ (j.work # "cleanup" => JobCancel(j).job \in {j, v})
  BY <1>1 DEF JobCancel, Ok, Return, JobType
<1>3. phase \in Phase /\ (phase = j.phase \/ phase = "starting")
  BY <1>1 DEF JobType, Phase
<1> HIDE DEF phase
<1>4. v \in JobType /\ u \in JobType
  BY <1>1, <1>3 DEF JobType
<1>5. Aside(j, v)
  BY <1>1 DEF JobType, Aside
<1>6. /\ u.terminal = j.terminal /\ u.failure = j.failure /\ u.status = j.status /\ u.phase = phase /\ u.work = j.work
      /\ u.card = j.card /\ u.open = j.open /\ u.bound = j.bound /\ u.writer = j.writer /\ u.published = j.published
      /\ u.input = j.input /\ u.source = j.source
  BY <1>1 DEF JobType
<1> HIDE DEF u, v
<1>7. JobFits(v)
  BY <1>4, <1>5, AsideKeeps
<1>8. JobSound(u)
  BY <1>1, <1>4, <1>6, SoundStep
<1>9. JobEnds(u)
  BY <1>1, <1>3, <1>6 DEF JobEnds
<1>10. j.work = "cleanup" => JobFits(u)
  BY <1>6, <1>8, <1>9, EndingFits
<1> QED BY <1>2, <1>7, <1>10

(* begin() starts over but for the sink, the writer and the card.          *)
LEMMA NewJobFits ==
  ASSUME NEW card \in [Name -> Content], card["WAV"] \in {"absent", "foreign", "sealed"},
         card["JSN"] \in {"absent", "foreign", "sealed"}, card["JSN"] = "sealed" => card["WAV"] = "sealed"
  PROVE  JobFits(NewJob(card))
<1> DEFINE u == NewJob(card)
<1>1. "idle" \in Work /\ "idle" \in Phase /\ "ok" \in Statuses /\ NoRequest \in RequestType
  BY DEF Work, Phase, Statuses, NoRequest, RequestType
<1>2. u \in JobType
  BY <1>1 DEF JobType, NewJob
<1>3. /\ u.work = "idle" /\ u.phase = "idle" /\ u.terminal = "idle" /\ u.failure = "ok" /\ u.published = FALSE
      /\ u.open = {} /\ u.bound = FALSE /\ u.writer = "idle" /\ u.card = card
  BY DEF NewJob
<1> HIDE DEF u
<1>4. JobSound(u)
  BY <1>2, <1>3 DEF JobSound
<1>5. JobEnds(u)
  BY <1>3 DEF JobEnds
<1> QED BY <1>3, <1>4, <1>5, EndingFits DEF u

LEMMA BeginKeeps ==
  ASSUME NEW j, JobFits(j), NEW ask \in RequestType, NEW managed \in BOOLEAN
  PROVE  JobFits(BeginInternal(j, ask, managed).job)
<1> DEFINE n == NewJob(j.card)
           r == [n EXCEPT !.ask = ask, !.writer = j.writer, !.bound = j.bound, !.sinkOk = j.sinkOk, !.committed = j.committed]
           f == [r EXCEPT !.phase = "failed", !.status = "invalid_argument", !.work = "terminal"]
           u == [r EXCEPT !.phase = "starting", !.managed = managed, !.work = "mount"]
<1>1. CASE Busy(j)
  BY <1>1 DEF BeginInternal, Return
<1>2. CASE ~Busy(j)
  <2>1. j \in JobType /\ JobSound(j)
    BY DEF JobFits, JobSound
  <2>2. j.bound = FALSE /\ j.writer # "active" /\ j.bound \in BOOLEAN
    BY <1>2, <2>1 DEF JobSound, Busy, JobType
  <2>3. ResetJob(j, ask) = r
    BY DEF ResetJob
  <2>4. BeginInternal(j, ask, managed).job \in {f, u}
    BY <1>2, <2>3 DEF BeginInternal, Ok, Return
  <2>5. JobFits(n)
    BY <2>1, NewJobFits DEF JobSound, JobType
  <2>6. n \in JobType
    BY <2>5 DEF JobFits, JobSound
  <2>7. /\ n.work = "idle" /\ n.phase = "idle" /\ n.terminal = "idle" /\ n.failure = "ok" /\ n.published = FALSE
        /\ n.open = {} /\ n.card = j.card /\ n.rendered = 0 /\ n.produced = 0
    BY DEF NewJob
  <2> HIDE DEF n
  <2>8. j.writer \in {"idle", "active", "complete", "failed", "cancelled"} /\ j.bound \in BOOLEAN /\ j.sinkOk \in BOOLEAN
        /\ j.committed \in Nat
    BY <2>1 DEF JobType
  <2>9. r \in JobType
    BY <2>6, <2>8 DEF JobType
  <2>10. /\ r.terminal = "idle" /\ r.failure = "ok" /\ r.published = FALSE
         /\ r.open = {} /\ r.card = j.card /\ r.rendered = 0 /\ r.produced = 0 /\ r.bound = j.bound /\ r.writer = j.writer
    BY <2>6, <2>7 DEF JobType
  <2> HIDE DEF r
  <2>11. "terminal" \in Work /\ "mount" \in Work /\ "failed" \in Phase /\ "starting" \in Phase /\ "invalid_argument" \in Statuses
    BY DEF Work, Phase, Statuses
  <2>12. f \in JobType /\ u \in JobType
    BY <2>9, <2>11 DEF JobType
  <2>13. /\ f.terminal = "idle" /\ f.failure = "ok" /\ f.published = FALSE /\ f.work = "terminal" /\ f.phase = "failed"
         /\ f.open = {} /\ f.card = j.card /\ f.bound = j.bound /\ f.writer = j.writer
    BY <2>9, <2>10 DEF JobType
  <2>14. /\ u.terminal = "idle" /\ u.failure = "ok" /\ u.published = FALSE /\ u.work = "mount" /\ u.phase = "starting"
         /\ u.open = {} /\ u.card = j.card /\ u.bound = j.bound /\ u.writer = j.writer /\ u.rendered = 0 /\ u.produced = 0
    BY <2>9, <2>10 DEF JobType
  <2> HIDE DEF f, u
  <2>15. JobSound(f) /\ JobSound(u)
    BY <2>1, <2>2, <2>12, <2>13, <2>14 DEF JobSound
  <2>16. JobEnds(f)
    BY <2>13 DEF JobEnds
  <2>17. JobFits(f)
    BY <2>13, <2>15, <2>16, EndingFits
  <2>18. JobEnds(u)
    BY <2>14 DEF JobEnds
  <2>19. JobFiles(u)
    BY <2>14 DEF JobFiles, BeforeOutput, Writing, Rendering, Unsynced, Unverified, Manifest, Publishing
  <2>20. JobCursors(u)
    BY <2>14 DEF JobCursors, BeforePaths, BeforeOutput, Writing, Rendering, Unsynced, Unverified, Manifest, Publishing, Loops
  <2> QED BY <2>4, <2>15, <2>17, <2>18, <2>19, <2>20 DEF JobFits
<1> QED BY <1>1, <1>2

(* A power failure tears no file that was flushed.                         *)
LEMMA PowerFailureKeeps ==
  ASSUME JobInv, PowerFailure
  PROVE  JobInv'
<1>1. job \in JobType /\ JobSound(job)
  BY DEF JobInv, JobFits, JobSound
<1>2. PICK wav \in Torn(job.card["WAV"]), tmp \in Torn(job.card["TMP"]), jsn \in Torn(job.card["JSN"]),
           jmp \in Torn(job.card["JMP"]) :
             job' = NewJob([job.card EXCEPT !["WAV"] = wav, !["TMP"] = tmp, !["JSN"] = jsn, !["JMP"] = jmp])
  BY DEF PowerFailure
<1> DEFINE card == [job.card EXCEPT !["WAV"] = wav, !["TMP"] = tmp, !["JSN"] = jsn, !["JMP"] = jmp]
<1>3. {"WAV", "TMP", "JSN", "JMP"} \subseteq Name /\ job.card \in [Name -> Content]
  BY <1>1 DEF Name, JobType
<1>4. wav = job.card["WAV"] /\ jsn = job.card["JSN"]
  BY <1>1, <1>2 DEF Torn, JobSound
<1>5. \A c \in Content : Torn(c) \subseteq Content
  BY DEF Torn, Content
<1>6. tmp \in Content /\ jmp \in Content /\ wav \in Content /\ jsn \in Content
  BY <1>2, <1>3, <1>5
<1>7. card \in [Name -> Content] /\ card["WAV"] = wav /\ card["JSN"] = jsn
  BY <1>3, <1>6
<1> HIDE DEF card
<1>8. JobFits(NewJob(card))
  BY <1>1, <1>4, <1>7, NewJobFits DEF JobSound
<1> QED BY <1>2, <1>8 DEF JobInv, card

(* What its user leaves on the card while no job owns it.                  *)
LEMMA FoundCardsType ==
  ASSUME NEW card \in FoundCards
  PROVE  card \in [Name -> Content] /\ card["WAV"] \in {"absent", "foreign"} /\ card["JSN"] \in {"absent", "foreign"}
<1>1. Untouched \in [Name -> Content] /\ \A n \in Name : Untouched[n] = "absent"
  BY DEF Untouched, Content
<1>2. \A n \in Name : [Untouched EXCEPT ![n] = "foreign"] \in [Name -> Content]
  BY <1>1 DEF Content
<1>3. \A n, m \in Name : [Untouched EXCEPT ![n] = "foreign"][m] \in {"absent", "foreign"}
  BY <1>1
<1>4. "WAV" \in Name /\ "JSN" \in Name
  BY DEF Name
<1> QED BY <1>1, <1>2, <1>3, <1>4 DEF FoundCards

LEMMA UserFilesKeep ==
  ASSUME JobInv, UserFiles
  PROVE  JobInv'
<1>1. job \in JobType /\ JobSound(job) /\ JobEnds(job)
  BY DEF JobInv, JobFits, JobSound
<1>2. PICK card \in FoundCards : job' = [job EXCEPT !.card = card]
  BY DEF UserFiles
<1>3. job.work \in {"idle", "terminal"} /\ job.open = {}
  BY DEF UserFiles, Busy
<1>4. card \in [Name -> Content] /\ card["WAV"] \in {"absent", "foreign"} /\ card["JSN"] \in {"absent", "foreign"}
  BY FoundCardsType
<1> DEFINE u == [job EXCEPT !.card = card]
<1>5. u \in JobType
  BY <1>1, <1>4 DEF JobType
<1>6. /\ u.work = job.work /\ u.phase = job.phase /\ u.status = job.status /\ u.failure = job.failure
      /\ u.terminal = job.terminal /\ u.published = job.published /\ u.open = job.open /\ u.bound = job.bound
      /\ u.writer = job.writer /\ u.card = card /\ u.input = job.input /\ u.source = job.source
  BY <1>1 DEF JobType
<1> HIDE DEF u
<1>7. JobSound(u)
  BY <1>1, <1>3, <1>4, <1>5, <1>6 DEF JobSound
<1>8. JobEnds(u)
  BY <1>1, <1>6 DEF JobEnds
<1>9. u.phase # "rendering"
  BY <1>3, <1>6 DEF JobInv, JobFits, JobCursors, Writing, Rendering
<1> QED BY <1>2, <1>3, <1>6, <1>7, <1>8, <1>9, EndingFits DEF JobInv, u

-----------------------------------------------------------------------------
(* The theorems.                                                           *)

(* A job starts out fitting whatever card it finds.                        *)
THEOREM JobStarts == Init => JobInv
<1> SUFFICES ASSUME Init PROVE JobInv
  OBVIOUS
<1>1. PICK card \in FoundCards : job = NewJob(card)
  BY DEF Init
<1>2. card \in [Name -> Content] /\ card["WAV"] \in {"absent", "foreign"} /\ card["JSN"] \in {"absent", "foreign"}
  BY FoundCardsType
<1> QED BY <1>1, <1>2, NewJobFits DEF JobInv

(* Every call of its owner, every step of its own, a power failure and the *)
(* user's changes of the card keep the inductive invariant.                *)
THEOREM JobNext == JobInv /\ [Next]_vars => JobInv'
<1> SUFFICES ASSUME JobInv, [Next]_vars PROVE JobInv'
  OBVIOUS
<1> USE DEF JobInv
<1>1. ASSUME NEW ask \in Requests, NEW managed \in BOOLEAN, Begin(ask, managed) PROVE JobInv'
  BY <1>1, BeginKeeps, RequestsAssumption DEF Begin
<1>2. CASE Cancel
  BY <1>2, JobCancelKeeps DEF Cancel
<1>3. ASSUME NEW n \in 0 .. Block, NEW out \in Outcome, Produce(n, out) PROVE JobInv'
  BY <1>3, ProduceKeeps DEF Produce
<1>4. ASSUME NEW n \in 0 .. Block, NEW out \in Outcome, Append(n, out) PROVE JobInv'
  BY <1>4, AppendProducedKeeps DEF Append
<1>5. CASE Finish
  BY <1>5, FinishManagedKeeps DEF Finish
<1>6. ASSUME NEW out \in Outcome, Commit(out) PROVE JobInv'
  BY <1>6, CommitPrefixKeeps DEF Commit
<1>7. ASSUME NEW out \in Outcome, Read(out) PROVE JobInv'
  BY <1>7, ReadPrefixKeeps DEF Read
<1>8. ASSUME NEW out \in Outcome, Step(out) PROVE JobInv'
  BY <1>8, JobStepKeeps DEF Step
<1>9. CASE PowerFailure
  BY <1>9, PowerFailureKeeps
<1>10. CASE UserFiles
  BY <1>10, UserFilesKeep
<1>11. CASE UNCHANGED vars
  BY <1>11 DEF vars
<1> QED BY <1>1, <1>2, <1>3, <1>4, <1>5, <1>6, <1>7, <1>8, <1>9, <1>10, <1>11 DEF Next, JobOps, AnyStep

THEOREM JobInvariant == Spec => []JobInv
BY JobStarts, JobNext, PTL DEF Spec

(* The cursors of every loop stay in the file they walk, and what is       *)
(* durable was rendered, what was rendered was produced.                   *)
THEOREM CursorsAreKept == Spec => []CursorsKept
<1>1. ASSUME JobInv PROVE CursorsKept
  <2>1. job \in JobType
    BY <1>1 DEF JobInv, JobFits, JobSound
  <2>2. (job.work \in Loops => job.at <= Chunks) /\ (job.work = "path_checks" => job.at <= 5)
    BY <1>1 DEF JobInv, JobFits, JobCursors, JobFiles
  <2>3. ManagedCursors
    <3> SUFFICES ASSUME job.managed, job.work \in Rendering
                 PROVE  /\ job.committed <= job.rendered /\ job.rendered = job.input /\ job.input <= job.source
                        /\ (job.work = "render_append" => job.produced = job.rendered + job.blockOut)
                        /\ (job.work # "render_append" => job.produced = job.rendered)
                        /\ job.blockIn <= job.source - job.input
      BY DEF ManagedCursors
    <3>1. job.work \in Writing
      BY DEF Writing
    <3>2. RenderRuns(job)
      BY <1>1, <3>1, RenderFacts DEF JobInv
    <3> QED BY <3>2 DEF RenderRuns
  <2> QED BY <2>1, <2>2, <2>3 DEF CursorsKept, JobTypeOK
<1> QED BY <1>1, JobInvariant, PTL

(* A manifest stands only beside its whole, flushed WAV, and a job writes  *)
(* nothing where one of its names was taken.                               *)
THEOREM TheCardIsWhole == Spec => []CardIsWhole
<1>1. ASSUME JobInv PROVE CardIsWhole
  <2>1. JobSound(job)
    BY <1>1 DEF JobInv, JobFits
  <2>2. ManifestImpliesWav
    BY <2>1 DEF JobSound, ManifestImpliesWav
  <2>3. WritesOnlyFreeNames
    BY <2>1 DEF JobSound, WritesOnlyFreeNames
  <2> QED BY <2>2, <2>3 DEF CardIsWhole
<1> QED BY <1>1, JobInvariant, PTL

(* A job that ended holds nothing, and its phase says what became of it.   *)
THEOREM TheEndIsTrue == Spec => []EndIsTrue
<1>1. ASSUME JobInv PROVE EndIsTrue
  <2>1. JobSound(job) /\ JobEnds(job)
    BY <1>1 DEF JobInv, JobFits
  <2>2. EndedHoldsNothing
    BY <2>1 DEF JobSound, JobEnds, EndedHoldsNothing, Busy
  <2>3. PhaseIsTrue
    BY <2>1 DEF JobEnds, PhaseIsTrue
  <2> QED BY <2>2, <2>3 DEF EndIsTrue
<1> QED BY <1>1, JobInvariant, PTL

(* The cleanup keeps the failure it began with, but for a cancellation.    *)
LEMMA CleanupKeepsFailure ==
  ASSUME NEW j, JobSound(j), j.terminal # "cancelled", j.failure # "ok", NEW out \in Outcome
  PROVE  CleanupStep(j, out).job.failure = j.failure
<1> DEFINE d == DetachEngine(j)
           c == CleanupClose(d, out)
<1>1. j \in JobType
  BY DEF JobSound
<1>2. "engine" \in Resource
  BY DEF Resource
<1>3. d \in JobType /\ d.open = j.open \ {"engine"} /\ Same(j, d)
  BY <1>1, <1>2, ClosedFacts DEF DetachEngine
<1>4. CleanupStep(j, out).job \in {CleanupEnd(d).job, c.job, CleanupFailed(c.job, c.ret).job}
  BY DEF CleanupStep
<1> HIDE DEF d
<1>5. JobSound(d)
  BY <1>3, SoundStep, <1>1 DEF Same
<1>6. JobSound(c.job) /\ Kept(d, c.job)
  BY <1>5, CleanupCloseFacts
<1> HIDE DEF c
<1>7. c.job.failure = j.failure /\ c.job.terminal = j.terminal /\ c.job \in JobType
  BY <1>3, <1>6 DEF Same, Kept, JobSound
<1>8. CleanupEnd(d).job.failure = j.failure
  BY <1>3 DEF CleanupEnd, Return, JobType, Same
<1>9. CleanupFailed(c.job, c.ret).job.failure = j.failure
  BY <1>7 DEF CleanupFailed, Return, JobType
<1> QED BY <1>4, <1>7, <1>8, <1>9

(* The first failure of a job is the one it ends with: neither a close     *)
(* that fails later nor a late cancel replaces it.                         *)
THEOREM TheFirstFailure == Spec => FirstFailureKept
<1>1. ASSUME JobInv, [Next]_vars
      PROVE  [job.failure \notin {"ok", "unavailable"} /\ Busy(job) /\ job'.work # "idle" => job'.failure = job.failure]_vars
  <2> SUFFICES ASSUME Next, job.failure \notin {"ok", "unavailable"}, Busy(job), job'.work # "idle"
               PROVE  job'.failure = job.failure
    BY <1>1
  <2>1. job \in JobType /\ JobSound(job) /\ JobEnds(job)
    BY <1>1 DEF JobInv, JobFits, JobSound
  <2>2. job.work = "cleanup" /\ job.terminal # "cancelled"
    BY <2>1 DEF JobEnds, Busy
  <2>3. ASSUME NEW out \in Outcome, Step(out) PROVE job'.failure = job.failure
    <3>1. Cancelling(job) = job
      BY <2>2 DEF Cancelling
    <3>2. Advance(job, out) = CleanupStep(job, out)
      BY <2>2 DEF Advance
    <3>3. JobStep(job, out) = CleanupStep(job, out)
      BY <2>2, <3>1, <3>2 DEF JobStep, Rendering
    <3> QED BY <2>1, <2>2, <2>3, <3>3, CleanupKeepsFailure DEF Step
  <2>4. CASE Cancel
    BY <2>1, <2>4 DEF Cancel, JobCancel, Ok, Return, JobType
  <2>5. ~Renders(job)
    BY <2>2 DEF Renders
  <2>6. ~Finish
    BY <2>5 DEF Finish, FinishManaged, Return
  <2>7. ~PowerFailure
    BY DEF PowerFailure, NewJob
  <2> QED BY <2>3, <2>4, <2>5, <2>6, <2>7 DEF Next, JobOps, AnyStep, Begin, Produce, Append, Commit, Read, UserFiles
<1> QED BY <1>1, JobInvariant, PTL DEF Spec, FirstFailureKept

-----------------------------------------------------------------------------
(* What a step tells the owner of a job.                                   *)

(* The phases of a job under way but for its render, and its members.      *)
Underway == {"starting", "hashing_source", "hashing_secondary", "calibrating", "verifying", "publishing"}

JobFields ==
  {"work", "phase", "status", "failure", "terminal", "managed", "cancel", "published", "open", "ask", "at",
   "source", "input", "rendered", "produced", "request", "blockIn", "blockOut", "writer", "bound", "sinkOk",
   "committed", "card"}

(* What an owner sees of a job that it did not ask for.                    *)
SameOrder(j, u) ==
  /\ u.cancel = j.cancel /\ u.managed = j.managed
  /\ u.source = j.source \/ j.work = "source_open"

(* What output_create has made of a job when its render may begin.         *)
Starts(j, r) ==
  /\ r.ret = "ok" /\ r.job.work = "render_read_decode" /\ r.job.phase = "rendering"
  /\ r.job.rendered = j.rendered /\ r.job.committed = 0

(* A step before the cleanup goes on to one of the work states in next, or *)
(* it fails and turns to the cleanup.                                      *)
Tells(j, r, next) ==
  /\ SameOrder(j, r.job) /\ r.job.published = j.published
  /\ r.job.phase \in {j.phase} \cup Underway \/ Starts(j, r)
  /\ \/ r.ret = "ok" /\ r.job.work \in next
     \/ /\ r.ret \in Statuses \ {"ok"} /\ r.job.work = "cleanup"
        /\ r.job.failure # "ok" /\ r.job.terminal \in {"idle", "failed"}
        /\ r.ret = "busy" => j.work = "output_create"

(* A job on its way through a step: what the step has changed so far.      *)
OnItsWay(j, v) ==
  /\ DOMAIN v = JobFields /\ SameOrder(j, v) /\ v.published = j.published
  /\ v.phase \in {j.phase} \cup Underway /\ v.terminal = "idle"

LEMMA FailTells ==
  ASSUME NEW j, NEW v, OnItsWay(j, v), NEW s \in Statuses \ {"ok"}, NEW next,
         s = "busy" => j.work = "output_create"
  PROVE  Tells(j, FailWith(v, s), next)
BY Zenon DEF Tells, OnItsWay, SameOrder, FailWith, Return, Statuses, JobFields

LEMMA GoTells ==
  ASSUME NEW j, NEW v, OnItsWay(j, v), NEW next, NEW w \in next
  PROVE  Tells(j, Go(v, w), next)
BY Zenon DEF Tells, OnItsWay, SameOrder, Go, Ok, Return, JobFields

LEMMA OkTells ==
  ASSUME NEW j, NEW v, OnItsWay(j, v), NEW next, v.work \in next
  PROVE  Tells(j, Ok(v), next)
BY Zenon DEF Tells, OnItsWay, Ok, Return

LEMMA FaultTells ==
  ASSUME NEW j, NEW v, OnItsWay(j, v), NEW next
  PROVE  Tells(j, Fault(v), next)
BY FailTells DEF Fault, Statuses

LEMMA StandsStill ==
  ASSUME NEW j \in JobType, j.terminal = "idle"
  PROVE  OnItsWay(j, j)
BY Zenon DEF OnItsWay, SameOrder, JobType, JobFields

(* The helpers of the steps leave a job on its way.                        *)
LEMMA FilesOnTheWay ==
  ASSUME NEW j, NEW v, OnItsWay(j, v), NEW r, NEW n, NEW c
  PROVE  OnItsWay(j, Opened(v, r)) /\ OnItsWay(j, Closed(v, r)) /\ OnItsWay(j, Put(v, n, c))
<1>1. OnItsWay(j, Opened(v, r))
  BY Zenon DEF OnItsWay, SameOrder, Opened, JobFields
<1>2. OnItsWay(j, Closed(v, r))
  BY Zenon DEF OnItsWay, SameOrder, Closed, JobFields
<1>3. OnItsWay(j, Put(v, n, c))
  BY Zenon DEF OnItsWay, SameOrder, Put, JobFields
<1> QED BY <1>1, <1>2, <1>3

(* The steps before the render.                                            *)
LEMMA EarlyTells ==
  ASSUME NEW j, JobFits(j), j.work \in Early, NEW out
  PROVE  Tells(j, Advance(j, out), Early \cup {"render_read_decode"})
<1> DEFINE next == Early \cup {"render_read_decode"}
<1>1. OnItsWay(j, j)
  BY WorkingFacts, StandsStill DEF Working
<1>2. /\ "source_open" \in next /\ "source_hash" \in next /\ "scenario_open" \in next /\ "scenario_read" \in next
      /\ "scenario_close" \in next /\ "scenario_parse" \in next /\ "path_checks" \in next
      /\ "secondary_hash_open" \in next /\ "secondary_hash" \in next /\ "secondary_hash_close" \in next
      /\ "secondary_open" \in next /\ "secondary_measure" \in next /\ "configure" \in next
      /\ "output_create" \in next /\ "render_read_decode" \in next
  BY DEF Early, BeforePaths, BeforeOutput
<1>3. j.work \in next
  OBVIOUS
<1>4. {"io_error", "invalid_argument", "invalid_configuration", "busy"} \subseteq Statuses \ {"ok"}
  BY DEF Statuses
<1> SUFFICES Tells(j, Advance(j, out), next)
  OBVIOUS
<1> HIDE DEF next
<1>5. ASSUME NEW w \in next
      PROVE  Tells(j, ChunkLoop(j, out, w), next)
  <2> DEFINE v == [j EXCEPT !.at = @ + 1]
  <2>1. OnItsWay(j, v) /\ v.work = j.work
    BY <1>1, Zenon DEF OnItsWay, SameOrder, JobFields, Underway
  <2>2. v = [j EXCEPT !.at = @ + 1]
    OBVIOUS
  <2> HIDE DEF v
  <2> QED BY <1>1, <1>3, <1>5, <2>1, <2>2, GoTells, OkTells, FaultTells DEF ChunkLoop
<1>6. ASSUME NEW w \in next, NEW r
      PROVE  Tells(j, CloseThen(j, out, r, w), next)
  BY <1>1, <1>6, FilesOnTheWay, GoTells, FaultTells DEF CloseThen
<1>7. CASE j.work = "mount"
  <2>1. Tells(j, MountStep(j, out), next)
    BY <1>1, <1>2, FilesOnTheWay, GoTells, FaultTells DEF MountStep
  <2> QED BY <1>7, <2>1 DEF Advance
<1>8. CASE j.work = "source_open"
  <2> DEFINE s == Opened(j, "source")
             late == [s EXCEPT !.failure = "io_error"]
             read == [s EXCEPT !.source = j.ask.frames, !.at = 0, !.phase = "hashing_source"]
  <2>1. OnItsWay(j, s)
    BY <1>1, FilesOnTheWay
  <2> HIDE DEF s
  <2>2. OnItsWay(j, late) /\ OnItsWay(j, read)
    BY <1>8, <2>1, Zenon DEF OnItsWay, SameOrder, JobFields, Underway
  <2> HIDE DEF late, read
  <2>3. Tells(j, Fault(j), next) /\ Tells(j, Fault(late), next)
    BY <1>1, <2>2, FaultTells
  <2>4. Tells(j, FailWith(s, "invalid_configuration"), next) /\ Tells(j, Go(read, "source_hash"), next)
    BY <1>2, <1>4, <2>1, <2>2, FailTells, GoTells
  <2>5. OpenSourceStep(j, out) \in {Fault(j), Fault(late), FailWith(s, "invalid_configuration"), Go(read, "source_hash")}
    BY DEF OpenSourceStep, s, late, read
  <2> QED BY <1>8, <2>3, <2>4, <2>5 DEF Advance
<1>9. CASE j.work = "source_hash"
  BY <1>2, <1>5, <1>9 DEF Advance
<1>10. CASE j.work = "scenario_open"
  <2> DEFINE s == Opened(j, "work")
             read == [s EXCEPT !.at = 0]
  <2>1. OnItsWay(j, s)
    BY <1>1, FilesOnTheWay
  <2> HIDE DEF s
  <2>2. OnItsWay(j, read)
    BY <2>1, Zenon DEF OnItsWay, SameOrder, JobFields, Underway
  <2> HIDE DEF read
  <2>3. Tells(j, Fault(j), next) /\ Tells(j, FailWith(s, "invalid_argument"), next) /\ Tells(j, Go(read, "scenario_read"), next)
    BY <1>1, <1>2, <1>4, <2>1, <2>2, FailTells, FaultTells, GoTells
  <2>4. OpenScenarioStep(j, out) \in {Fault(j), FailWith(s, "invalid_argument"), Go(read, "scenario_read")}
    BY DEF OpenScenarioStep, s, read
  <2> QED BY <1>10, <2>3, <2>4 DEF Advance
<1>11. CASE j.work = "scenario_read"
  BY <1>2, <1>5, <1>11 DEF Advance
<1>12. CASE j.work = "scenario_close"
  BY <1>2, <1>6, <1>12 DEF Advance
<1>13. CASE j.work = "scenario_parse"
  <2> DEFINE read == [j EXCEPT !.at = 0]
  <2>1. OnItsWay(j, read)
    BY <1>1, Zenon DEF OnItsWay, SameOrder, JobFields, Underway
  <2>2. ParseScenarioStep(j, out) \in {FailWith(j, "invalid_configuration"), Go(read, "path_checks")}
    BY DEF ParseScenarioStep
  <2> HIDE DEF read
  <2> QED BY <1>1, <1>2, <1>4, <1>13, <2>1, <2>2, FailTells, GoTells DEF Advance
<1>14. CASE j.work = "path_checks"
  <2> DEFINE read == [j EXCEPT !.at = @ + 1]
             w == IF j.ask.second THEN "secondary_hash_open" ELSE "configure"
  <2>1. OnItsWay(j, read) /\ read.work = j.work
    BY <1>1, Zenon DEF OnItsWay, SameOrder, JobFields, Underway
  <2>2. PathCheckStep(j, out) \in {Go(j, w), Fault(j), FailWith(j, "invalid_argument"), Ok(read)}
    BY DEF PathCheckStep
  <2>3. w \in next
    BY <1>2
  <2> HIDE DEF read, w
  <2>4. Tells(j, Go(j, w), next) /\ Tells(j, Fault(j), next) /\ Tells(j, FailWith(j, "invalid_argument"), next) /\ Tells(j, Ok(read), next)
    BY <1>1, <1>3, <1>4, <2>1, <2>3, FailTells, FaultTells, GoTells, OkTells
  <2> QED BY <1>14, <2>2, <2>4 DEF Advance
<1>15. CASE j.work = "secondary_hash_open"
  <2> DEFINE s == Opened(j, "work")
             read == [s EXCEPT !.at = 0, !.phase = "hashing_secondary"]
  <2>1. OnItsWay(j, s)
    BY <1>1, FilesOnTheWay
  <2> HIDE DEF s
  <2>2. OnItsWay(j, read)
    BY <2>1, Zenon DEF OnItsWay, SameOrder, JobFields, Underway
  <2> HIDE DEF read
  <2>3. HashSecondaryOpenStep(j, out) \in {Fault(j), Go(read, "secondary_hash")}
    BY DEF HashSecondaryOpenStep, s, read
  <2> QED BY <1>1, <1>2, <1>15, <2>2, <2>3, FaultTells, GoTells DEF Advance
<1>16. CASE j.work = "secondary_hash"
  BY <1>2, <1>5, <1>16 DEF Advance
<1>17. CASE j.work = "secondary_hash_close"
  BY <1>2, <1>6, <1>17 DEF Advance
<1>18. CASE j.work = "secondary_open"
  <2> DEFINE s == Opened(j, "secondary")
             read == [s EXCEPT !.phase = "calibrating", !.at = 0]
  <2>1. OnItsWay(j, s)
    BY <1>1, FilesOnTheWay
  <2> HIDE DEF s
  <2>2. OnItsWay(j, read)
    BY <2>1, Zenon DEF OnItsWay, SameOrder, JobFields, Underway
  <2> HIDE DEF read
  <2>3. SecondaryOpenStep(j, out) \in {Fault(s), Go(read, "secondary_measure")}
    BY DEF SecondaryOpenStep, s, read
  <2> QED BY <1>2, <1>18, <2>1, <2>2, <2>3, FaultTells, GoTells DEF Advance
<1>19. CASE j.work = "secondary_measure"
  BY <1>2, <1>5, <1>19 DEF Advance
<1>20. CASE j.work = "configure"
  <2> DEFINE s == Opened(j, "engine")
             phase == IF s.phase = "calibrating" THEN s.phase ELSE "starting"
             e == [s EXCEPT !.phase = phase]
  <2>1. OnItsWay(j, s)
    BY <1>1, FilesOnTheWay
  <2>2. ConfigureStep(j, out) \in {FailWith(e, "invalid_configuration"), Go(e, "output_create")}
    BY DEF ConfigureStep
  <2>3. phase \in Underway
    BY DEF Underway
  <2> HIDE DEF s, phase
  <2>4. OnItsWay(j, e)
    BY <2>1, <2>3, Zenon DEF OnItsWay, SameOrder, JobFields, Underway
  <2> HIDE DEF e
  <2> QED BY <1>2, <1>4, <1>20, <2>2, <2>4, FailTells, GoTells DEF Advance
<1>21. CASE j.work = "output_create"
  <2> DEFINE made == Put(j, "TMP", "partial")
             opened == Opened(made, "output")
             bound == [opened EXCEPT !.bound = TRUE, !.sinkOk = TRUE, !.committed = 0]
             broken == [WriterFailed(bound) EXCEPT !.sinkOk = FALSE]
             ready == [bound EXCEPT !.writer = "active", !.phase = "rendering", !.input = 0,
                                    !.blockIn = 0, !.blockOut = 0]
  <2>1. OutputCreateStep(j, out) \in
          {Fault(j), Fault(made), FailWith(opened, "busy"), FailWith(bound, "invalid_configuration"),
           Fault(broken), Go(ready, "render_read_decode")}
    BY DEF OutputCreateStep
  <2>2. OnItsWay(j, made) /\ OnItsWay(j, opened)
    BY <1>1, FilesOnTheWay
  <2>21. opened.rendered = j.rendered
    BY <1>1, Zenon DEF OnItsWay, JobFields, Opened, Put
  <2> HIDE DEF made, opened
  <2>3. OnItsWay(j, bound)
    BY <2>2, Zenon DEF OnItsWay, SameOrder, JobFields, Underway
  <2>31. bound.rendered = j.rendered /\ bound.committed = 0
    BY <2>2, <2>21, Zenon DEF OnItsWay, JobFields
  <2> HIDE DEF bound
  <2>4. OnItsWay(j, broken)
    BY <2>3, Zenon DEF OnItsWay, SameOrder, JobFields, Underway, WriterFailed
  <2> HIDE DEF broken
  <2>5. Tells(j, Fault(j), next) /\ Tells(j, Fault(made), next) /\ Tells(j, Fault(broken), next)
    BY <1>1, <2>2, <2>4, FaultTells
  <2>6. Tells(j, FailWith(opened, "busy"), next) /\ Tells(j, FailWith(bound, "invalid_configuration"), next)
    BY <1>4, <1>21, <2>2, <2>3, FailTells
  <2>7. Tells(j, Go(ready, "render_read_decode"), next)
    <3>2. ready.rendered = j.rendered /\ ready.committed = 0 /\ ready.phase = "rendering" /\ DOMAIN ready = JobFields
      BY <2>3, <2>31, Zenon DEF OnItsWay, JobFields
    <3>3. SameOrder(j, ready) /\ ready.published = j.published
      BY <2>3, Zenon DEF OnItsWay, SameOrder, JobFields, Underway
    <3> HIDE DEF ready
    <3> QED BY <1>2, <3>2, <3>3, Zenon DEF Tells, Starts, SameOrder, Go, Ok, Return, JobFields
  <2> QED BY <1>21, <2>1, <2>5, <2>6, <2>7 DEF Advance
<1>22. j.work \in {"mount", "source_open", "source_hash", "scenario_open", "scenario_read", "scenario_close",
                   "scenario_parse", "path_checks", "secondary_hash_open", "secondary_hash", "secondary_hash_close",
                   "secondary_open", "secondary_measure", "configure", "output_create"}
  BY DEF Early, BeforePaths, BeforeOutput
<1> QED
  BY <1>7, <1>8, <1>9, <1>10, <1>11, <1>12, <1>13, <1>14, <1>15, <1>16, <1>17, <1>18, <1>19, <1>20, <1>21, <1>22 DEF next

(* The helpers that write and close the files, on the way of a job.        *)
LEMMA CommitOnTheWay ==
  ASSUME NEW j, OnItsWay(j, j), NEW out
  PROVE  LET c == CommitFrames(j, out)
         IN  OnItsWay(j, c.job) /\ c.job.work = j.work /\ c.ret \in Statuses \ {"busy"}
<1> DEFINE refused == [j EXCEPT !.sinkOk = FALSE]
           card == [j.card EXCEPT !["TMP"] = IF out = "late" THEN Flushed(@) ELSE @]
           broken == [j EXCEPT !.sinkOk = FALSE, !.card["TMP"] = IF out = "late" THEN Flushed(@) ELSE @]
           synced == [j EXCEPT !.committed = j.rendered, !.card["TMP"] = Flushed(@)]
<1>1. CommitFrames(j, out) \in
        {Return(j, "unavailable"), Return(j, "io_error"), Return(j, "invalid_argument"), Return(broken, "io_error"), Ok(synced)}
  BY DEF CommitFrames
<1>2. OnItsWay(j, broken) /\ broken.work = j.work
  BY Zenon DEF OnItsWay, SameOrder, JobFields
<1>3. OnItsWay(j, synced) /\ synced.work = j.work
  BY Zenon DEF OnItsWay, SameOrder, JobFields
<1> HIDE DEF broken, synced
<1> QED BY <1>1, <1>2, <1>3 DEF Return, Ok, Statuses

LEMMA ClosesOnTheWay ==
  ASSUME NEW j, OnItsWay(j, j), NEW out
  PROVE  /\ OnItsWay(j, CloseOutput(j, out).job) /\ CloseOutput(j, out).ret \in Statuses \ {"busy"}
         /\ OnItsWay(j, CloseManifest(j, out).job) /\ CloseManifest(j, out).ret \in Statuses \ {"busy"}
<1> DEFINE shut == [Closed(j, "output") EXCEPT !.bound = FALSE, !.card["TMP"] = Flushed(@),
                                               !.writer = IF @ = "active" THEN "cancelled" ELSE @]
<1>1. CloseOutput(j, out) \in {Return(j, "io_error"), Ok(shut)}
  BY DEF CloseOutput
<1>2. OnItsWay(j, shut)
  BY Zenon DEF OnItsWay, SameOrder, JobFields, Closed
<1> HIDE DEF shut
<1>3. OnItsWay(j, CloseOutput(j, out).job) /\ CloseOutput(j, out).ret \in Statuses \ {"busy"}
  BY <1>1, <1>2 DEF Return, Ok, Statuses
<1>4. OnItsWay(j, CloseManifest(j, out).job) /\ CloseManifest(j, out).ret \in Statuses \ {"busy"}
  <2> DEFINE closed == Put(Closed(j, "manifest"), "JMP", Flushed(j.card["JMP"]))
  <2>1. OnItsWay(j, Closed(j, "manifest"))
    BY FilesOnTheWay
  <2>2. OnItsWay(j, closed)
    BY <2>1, FilesOnTheWay
  <2>3. CloseManifest(j, out) \in {Return(j, "io_error"), Ok(closed)}
    BY DEF CloseManifest
  <2> HIDE DEF closed
  <2> QED BY <2>2, <2>3 DEF Return, Ok, Statuses
<1> QED BY <1>3, <1>4

LEMMA AnswerTells ==
  ASSUME NEW j, NEW c, OnItsWay(j, c.job), c.ret \in Statuses \ {"busy"}, NEW next, NEW w \in next
  PROVE  Tells(j, IF c.ret = "ok" THEN Go(c.job, w) ELSE FailWith(c.job, c.ret), next)
BY FailTells, GoTells

(* The steps after the render, the last of them apart.                     *)
LEMMA LaterTells ==
  ASSUME NEW j, JobFits(j), j.work \in Later \ {"publish_manifest"}, NEW out
  PROVE  Tells(j, Advance(j, out), Later \ {"output_finish"})
<1> DEFINE next == Later \ {"output_finish"}
<1> SUFFICES Tells(j, Advance(j, out), next)
  OBVIOUS
<1>1. OnItsWay(j, j)
  BY LaterFacts, StandsStill
<1>2. /\ "secondary_close" \in next /\ "output_sync" \in next /\ "output_close" \in next /\ "source_close" \in next
      /\ "verify_open" \in next /\ "verify_header" \in next /\ "verify_file" \in next /\ "verify_close" \in next
      /\ "manifest_create" \in next /\ "manifest_write" \in next /\ "manifest_sync" \in next
      /\ "manifest_close" \in next /\ "publish_wav" \in next /\ "publish_manifest" \in next
  BY DEF Later, Unsynced, Unverified, Manifest, Publishing
<1>3. j.work # "output_finish" => j.work \in next
  OBVIOUS
<1>4. {"io_error", "invalid_argument", "invalid_configuration", "buffer_too_small"} \subseteq Statuses \ {"ok"}
  BY DEF Statuses
<1>5. j.work \in {"output_finish", "secondary_close", "output_sync", "output_close", "source_close", "verify_open",
                  "verify_header", "verify_file", "verify_close", "manifest_create", "manifest_write", "manifest_sync",
                  "manifest_close", "publish_wav"}
  BY DEF Later, Unsynced, Unverified, Manifest, Publishing
<1> HIDE DEF next
<1>6. ASSUME NEW w \in next, NEW r
      PROVE  Tells(j, CloseThen(j, out, r, w), next)
  BY <1>1, <1>6, FilesOnTheWay, GoTells, FaultTells DEF CloseThen
<1>7. CASE j.work = "output_finish"
  <2> DEFINE detached == DetachEngine(j)
             w == IF "secondary" \in j.open THEN "secondary_close" ELSE "output_sync"
             broken == [WriterFailed(j) EXCEPT !.sinkOk = FALSE, !.card["TMP"] = IF out = "late" THEN Finished(@) ELSE @]
             whole == [detached EXCEPT !.writer = "complete", !.phase = "verifying",
                                       !.card["TMP"] = IF out = "corrupt" THEN "corrupt" ELSE Finished(@)]
  <2>1. FinishOutputStep(j, out) \in {FailWith(j, "invalid_configuration"), Fault(broken), Go(whole, w)}
    BY DEF FinishOutputStep
  <2>2. OnItsWay(j, detached) /\ w \in next
    BY <1>1, <1>2, FilesOnTheWay DEF DetachEngine
  <2>3. OnItsWay(j, broken)
    BY <1>1, Zenon DEF OnItsWay, SameOrder, JobFields, Underway, WriterFailed
  <2> HIDE DEF detached, w, broken
  <2>4. OnItsWay(j, whole)
    BY <2>2, Zenon DEF OnItsWay, SameOrder, JobFields, Underway
  <2> HIDE DEF whole
  <2> QED BY <1>1, <1>4, <1>7, <2>1, <2>2, <2>3, <2>4, FailTells, FaultTells, GoTells DEF Advance
<1>8. CASE j.work = "secondary_close"
  BY <1>2, <1>6, <1>8 DEF Advance
<1>9. CASE j.work = "output_sync"
  <2>1. Tells(j, OutputSyncStep(j, out), next)
    BY <1>1, <1>2, CommitOnTheWay, AnswerTells DEF OutputSyncStep
  <2> QED BY <1>9, <2>1 DEF Advance
<1>10. CASE j.work = "output_close"
  <2>1. Tells(j, OutputCloseStep(j, out), next)
    BY <1>1, <1>2, ClosesOnTheWay, AnswerTells DEF OutputCloseStep
  <2> QED BY <1>10, <2>1 DEF Advance
<1>11. CASE j.work = "source_close"
  BY <1>2, <1>6, <1>11 DEF Advance
<1>12. CASE j.work = "verify_open"
  <2> DEFINE w == Opened(j, "work")
             read == [w EXCEPT !.phase = "verifying"]
  <2>1. VerifyOpenStep(j, out) \in {Fault(j), Fault(w), Go(read, "verify_header")}
    BY DEF VerifyOpenStep
  <2>2. OnItsWay(j, w)
    BY <1>1, FilesOnTheWay
  <2> HIDE DEF w
  <2>3. OnItsWay(j, read)
    BY <2>2, Zenon DEF OnItsWay, SameOrder, JobFields, Underway
  <2> HIDE DEF read
  <2> QED BY <1>1, <1>2, <1>12, <2>1, <2>2, <2>3, FaultTells, GoTells DEF Advance
<1>13. CASE j.work = "verify_header"
  <2> DEFINE read == [j EXCEPT !.at = 0]
  <2>1. VerifyHeaderStep(j, out) \in {Fault(j), Go(read, "verify_file")}
    BY DEF VerifyHeaderStep
  <2>2. OnItsWay(j, read)
    BY <1>1, Zenon DEF OnItsWay, SameOrder, JobFields, Underway
  <2> HIDE DEF read
  <2> QED BY <1>1, <1>2, <1>13, <2>1, <2>2, FaultTells, GoTells DEF Advance
<1>14. CASE j.work = "verify_file"
  <2> DEFINE read == [j EXCEPT !.at = @ + 1]
  <2>1. VerifyFileStep(j, out) \in {Fault(j), Go(j, "verify_close"), Ok(read)}
    BY DEF VerifyFileStep, ChunkLoop
  <2>2. OnItsWay(j, read) /\ read.work = j.work
    BY <1>1, Zenon DEF OnItsWay, SameOrder, JobFields, Underway
  <2> HIDE DEF read
  <2> QED BY <1>1, <1>2, <1>3, <1>14, <2>1, <2>2, FaultTells, GoTells, OkTells DEF Advance
<1>15. CASE j.work = "verify_close"
  BY <1>2, <1>6, <1>15 DEF Advance
<1>16. CASE j.work = "manifest_create"
  <2> DEFINE made == Put(j, "JMP", "partial")
             opened == Opened(made, "manifest")
             ready == [opened EXCEPT !.at = 0, !.phase = "publishing"]
  <2>1. ManifestCreateStep(j, out) \in
          {FailWith(j, "buffer_too_small"), Fault(j), Fault(made), Go(ready, "manifest_write")}
    BY DEF ManifestCreateStep
  <2>2. OnItsWay(j, made) /\ OnItsWay(j, opened)
    BY <1>1, FilesOnTheWay
  <2> HIDE DEF made, opened
  <2>3. OnItsWay(j, ready)
    BY <2>2, Zenon DEF OnItsWay, SameOrder, JobFields, Underway
  <2> HIDE DEF ready
  <2> QED BY <1>1, <1>2, <1>4, <1>16, <2>1, <2>2, <2>3, FailTells, FaultTells, GoTells DEF Advance
<1>17. CASE j.work = "manifest_write"
  <2> DEFINE read == [j EXCEPT !.at = @ + 1, !.card["JMP"] = IF j.at + 1 = Chunks THEN Finished(@) ELSE @]
  <2>1. ManifestWriteStep(j, out) \in {Go(j, "manifest_sync"), Fault(j), Ok(read)}
    BY DEF ManifestWriteStep
  <2>2. OnItsWay(j, read) /\ read.work = j.work
    BY <1>1, Zenon DEF OnItsWay, SameOrder, JobFields, Underway
  <2> HIDE DEF read
  <2> QED BY <1>1, <1>2, <1>3, <1>17, <2>1, <2>2, FaultTells, GoTells, OkTells DEF Advance
<1>18. CASE j.work = "manifest_sync"
  <2> DEFINE synced == Put(j, "JMP", Flushed(j.card["JMP"]))
  <2>1. ManifestSyncStep(j, out) \in {Go(synced, "manifest_close"), Fault(synced), Fault(j)}
    BY DEF ManifestSyncStep
  <2>2. OnItsWay(j, synced)
    BY <1>1, FilesOnTheWay
  <2> HIDE DEF synced
  <2> QED BY <1>1, <1>2, <1>18, <2>1, <2>2, FaultTells, GoTells DEF Advance
<1>19. CASE j.work = "manifest_close"
  <2>1. Tells(j, ManifestCloseStep(j, out), next)
    BY <1>1, <1>2, ClosesOnTheWay, AnswerTells DEF ManifestCloseStep
  <2> QED BY <1>19, <2>1 DEF Advance
<1>20. CASE j.work = "publish_wav"
  <2> DEFINE moved == Renamed(j, "TMP", "WAV")
  <2>1. PublishStep(j, out) \in {Fault(j), Fault(moved), Go(moved, "publish_manifest")}
    BY <1>20 DEF PublishStep
  <2>2. OnItsWay(j, moved)
    BY <1>1, Zenon DEF OnItsWay, SameOrder, JobFields, Underway, Renamed
  <2> HIDE DEF moved
  <2> QED BY <1>1, <1>2, <1>20, <2>1, <2>2, FaultTells, GoTells DEF Advance
<1> QED
  BY <1>5, <1>7, <1>8, <1>9, <1>10, <1>11, <1>12, <1>13, <1>14, <1>15, <1>16, <1>17, <1>18, <1>19, <1>20

(* The step that publishes the manifest: it fails, or the job is complete. *)
LEMMA PublishTells ==
  ASSUME NEW j, JobFits(j), j.work = "publish_manifest", NEW out
  PROVE  LET r == Advance(j, out)
         IN  \/ Tells(j, r, {})
             \/ /\ r.ret = "ok" /\ r.job.work = "cleanup" /\ r.job.terminal = "complete"
                /\ SameOrder(j, r.job) /\ r.job.phase = j.phase
<1> DEFINE moved == Renamed(j, "JMP", "JSN")
           done == [moved EXCEPT !.published = TRUE, !.terminal = "complete", !.failure = "ok", !.work = "cleanup"]
<1>1. j.work \in Later /\ OnItsWay(j, j)
  BY LaterFacts, StandsStill DEF Later, Publishing
<1>2. Advance(j, out) \in {Fault(j), Fault(moved), Ok(done)}
  BY DEF Advance, PublishStep
<1>3. OnItsWay(j, moved) /\ moved.phase = j.phase
  BY <1>1, Zenon DEF OnItsWay, SameOrder, JobFields, Underway, Renamed
<1> HIDE DEF moved
<1>4. done.work = "cleanup" /\ done.terminal = "complete" /\ SameOrder(j, done) /\ done.phase = j.phase
  BY <1>3, Zenon DEF OnItsWay, SameOrder, JobFields, Underway
<1> HIDE DEF done
<1> QED BY <1>1, <1>2, <1>3, <1>4, FaultTells DEF Ok, Return
(* A job whose cleanup has closed a file, or none.                         *)
SameFrames(j, u) == u.rendered = j.rendered /\ u.produced = j.produced /\ u.committed = j.committed

Closing(j, v) ==
  /\ DOMAIN v = JobFields /\ SameOrder(j, v) /\ SameFrames(j, v) /\ v.published = j.published
  /\ v.work = j.work /\ v.phase = j.phase /\ v.failure = j.failure /\ v.terminal = j.terminal /\ v.status = j.status

(* A cleanup step closes a file, stops at a failed close, or ends the job. *)
EndsOrCloses(j, r) ==
  /\ SameOrder(j, r.job) /\ SameFrames(j, r.job) /\ r.job.published = j.published
  /\ \/ /\ r.ret = "ok" /\ r.job.work = "cleanup" /\ r.job.phase = j.phase
        /\ r.job.failure = j.failure /\ r.job.terminal = j.terminal /\ r.job.status = j.status
     \/ /\ r.ret = "io_error" /\ r.job.work = "cleanup" /\ r.job.phase = "cleanup_failed"
        /\ r.job.status = "io_error" /\ r.job.failure # "ok" /\ r.job.terminal \in {"failed", j.terminal}
     \/ /\ r.ret = j.failure /\ r.job.work = "terminal" /\ r.job.status = j.failure /\ r.job.failure = j.failure
        /\ r.job.phase = (IF j.terminal = "idle" THEN "failed" ELSE j.terminal) /\ r.job.terminal = j.terminal

LEMMA CleanupTells ==
  ASSUME NEW j \in JobType, j.work = "cleanup", NEW out
  PROVE  EndsOrCloses(j, CleanupStep(j, out))
<1> DEFINE d == DetachEngine(j)
           c == CleanupClose(d, out)
           shut == [Closed(d, "output") EXCEPT !.bound = FALSE, !.card["TMP"] = Flushed(@),
                                               !.writer = IF @ = "active" THEN "cancelled" ELSE @]
           put == Put(Closed(d, "manifest"), "JMP", Flushed(d.card["JMP"]))
           other == Closed(d, CleanupNext(d))
<1>1. Closing(j, d)
  BY Zenon DEF Closing, SameOrder, SameFrames, DetachEngine, Closed, JobType, JobFields
<1>2. CleanupStep(j, out) = IF d.open = {} THEN CleanupEnd(d) ELSE IF c.ret = "ok" THEN c ELSE CleanupFailed(c.job, c.ret)
  BY DEF CleanupStep
<1>3. c \in {Return(d, "io_error"), Ok(shut), Ok(put), Ok(other)}
  BY DEF CleanupClose, CloseOutput, CloseManifest
<1> HIDE DEF c
<1> HIDE DEF d
<1>4. Closing(j, shut)
  BY <1>1, Zenon DEF Closing, SameOrder, SameFrames, Closed, JobFields
<1>5. Closing(j, put)
  BY <1>1, Zenon DEF Closing, SameOrder, SameFrames, Closed, JobFields, Put
<1>6. Closing(j, other)
  BY <1>1, Zenon DEF Closing, SameOrder, SameFrames, Closed, JobFields
<1> HIDE DEF shut, put, other
<1>7. Closing(j, c.job) /\ c.ret \in {"ok", "io_error"}
  BY <1>1, <1>3, <1>4, <1>5, <1>6 DEF Return, Ok
<1>8. EndsOrCloses(j, CleanupEnd(d))
  BY <1>1, Zenon DEF EndsOrCloses, Closing, SameOrder, SameFrames, JobFields, CleanupEnd, Return
<1>9. c.ret = "ok" => EndsOrCloses(j, c)
  BY <1>7 DEF EndsOrCloses, Closing, SameFrames
<1>10. ASSUME NEW v, Closing(j, v)
       PROVE  EndsOrCloses(j, CleanupFailed(v, "io_error"))
  <2> DEFINE replace == v.failure = "ok" \/ v.terminal = "cancelled"
             failure == IF replace THEN "io_error" ELSE v.failure
             terminal == IF replace THEN "failed" ELSE v.terminal
             u == [v EXCEPT !.failure = failure, !.terminal = terminal, !.phase = "cleanup_failed", !.status = "io_error"]
  <2>1. CleanupFailed(v, "io_error") = Return(u, "io_error")
    BY DEF CleanupFailed
  <2>2. failure # "ok" /\ terminal \in {"failed", j.terminal}
    BY <1>10 DEF Closing
  <2> HIDE DEF failure, terminal
  <2>3. u.failure = failure /\ u.terminal = terminal /\ u.phase = "cleanup_failed" /\ u.status = "io_error"
    BY <1>10, Zenon DEF Closing, JobFields
  <2>4. SameOrder(j, u) /\ SameFrames(j, u) /\ u.published = j.published /\ u.work = j.work
    BY <1>10, Zenon DEF Closing, SameOrder, SameFrames, JobFields
  <2> HIDE DEF u
  <2> QED BY <2>1, <2>2, <2>3, <2>4 DEF EndsOrCloses, Return
<1> QED BY <1>2, <1>7, <1>8, <1>9, <1>10

(* The first step of a cancelled job.                                      *)
LEMMA CancellingFacts ==
  ASSUME NEW j \in JobType
  PROVE  LET u == Cancelling(j)
         IN  /\ SameOrder(j, u) /\ SameFrames(j, u) /\ u.published = j.published /\ u.phase = j.phase
             /\ \/ u = j /\ (~j.cancel \/ j.work = "cleanup" \/ j.published)
                \/ /\ j.cancel /\ ~j.published /\ u.terminal = "cancelled" /\ u.failure = "unavailable" /\ u.work = "cleanup"
<1> DEFINE v == [j EXCEPT !.terminal = "cancelled", !.failure = "unavailable", !.work = "cleanup"]
<1>1. SameOrder(j, v) /\ SameFrames(j, v) /\ v.published = j.published /\ v.phase = j.phase
  BY Zenon DEF SameOrder, SameFrames, JobType
<1>2. v.terminal = "cancelled" /\ v.failure = "unavailable" /\ v.work = "cleanup"
  BY Zenon DEF JobType
<1>3. SameOrder(j, j) /\ SameFrames(j, j)
  BY DEF SameOrder, SameFrames
<1>4. Cancelling(j) = IF j.cancel /\ j.work # "cleanup" /\ ~j.published THEN v ELSE j
  BY DEF Cancelling
<1> HIDE DEF v
<1> QED BY <1>1, <1>2, <1>3, <1>4

(* A cleanup step of a job leaves what its owner counts on.                *)
LEMMA EndsAnswer ==
  ASSUME NEW j, JobFits(j), JobAnswers(j), j.work = "cleanup", NEW r, EndsOrCloses(j, r), r.job \in JobType
  PROVE  JobAnswers(r.job) /\ r.ret \in Statuses /\ r.job.work \in {"cleanup", "terminal"}
<1>1. j.failure \in Statuses /\ j.terminal \in {"idle", "complete", "cancelled", "failed"} /\ "io_error" \in Statuses /\ "ok" \in Statuses
  BY DEF JobFits, JobSound, JobType, Statuses
<1>2. j.phase # "failed"
  BY DEF JobAnswers
<1>3. r.job.managed = j.managed /\ r.job.cancel = j.cancel /\ r.job.work \in {"cleanup", "terminal"} /\ r.ret \in Statuses
  BY <1>1 DEF EndsOrCloses, SameOrder
<1>4. r.job.work \notin Later /\ r.job.work # "render_process_pack"
  BY <1>3 DEF Later, Unsynced, Unverified, Manifest, Publishing
<1>5. JobAnswers(r.job)
  BY <1>1, <1>2, <1>3, <1>4 DEF JobAnswers, EndsOrCloses
<1> QED BY <1>3, <1>5
(* What a step of a job tells its owner, before its render, after it, and  *)
(* when the job is cancelled or cleans up.                                 *)
LEMMA StepBefore ==
  ASSUME NEW j, JobFits(j), JobAnswers(j), j.work \in Early, j.cancel = FALSE, NEW out \in Outcome
  PROVE  LET r == JobStep(j, out)
             u == r.job
         IN  /\ JobFits(u) /\ JobAnswers(u) /\ r.ret \in Statuses /\ SameOrder(j, u) /\ u.published = j.published
             /\ u.work \in Early \cup {"render_read_decode", "cleanup"}
             /\ u.phase = "rendering" => u.work = "render_read_decode" /\ u.rendered = 0 /\ u.committed = 0
<1> DEFINE r == Advance(j, out)
           u == r.job
<1>1. j.work \in Working /\ j \in JobType /\ j.phase \notin {"complete", "cancelled", "rendering"}
  BY EarlyPhase
<1>2. /\ j.work \notin {"idle", "terminal", "cleanup"} /\ j.work \notin Rendering
      /\ "cleanup" \notin Early /\ "cleanup" \notin Later /\ "render_read_decode" \notin Later
      /\ \A w \in Early : w \notin Later /\ w \notin {"terminal", "cleanup", "idle", "render_process_pack"}
  BY DEF Early, BeforePaths, BeforeOutput, Rendering, Later, Unsynced, Unverified, Manifest, Publishing
<1>3. JobStep(j, out) = r
  BY <1>1, <1>2 DEF JobStep, Cancelling
<1>4. JobFits(u)
  BY <1>3, JobStepKeeps
<1>5. Tells(j, r, Early \cup {"render_read_decode"})
  BY EarlyTells
<1>6. j.phase \notin {"failed", "cleanup_failed"}
  BY <1>2 DEF JobAnswers
<1>7. j.rendered = 0
  BY DEF JobFits, JobCursors, Early
<1> HIDE DEF r
<1>8. u.work \in Early \cup {"render_read_decode", "cleanup"} /\ r.ret \in Statuses
  BY <1>5 DEF Tells, Statuses
<1>9. u.phase = "rendering" => u.work = "render_read_decode" /\ u.rendered = 0 /\ u.committed = 0
  BY <1>1, <1>5, <1>7 DEF Tells, Starts, Underway
<1>10. u.work # "cleanup" => u.terminal = "idle"
  BY <1>2, <1>4, <1>8 DEF JobFits, JobEnds
<1>11. u.work = "cleanup" => u.failure # "ok" /\ u.terminal \in {"idle", "failed"}
  BY <1>2, <1>5 DEF Tells
<1>12. u.phase \notin {"failed", "cleanup_failed"}
  BY <1>5, <1>6 DEF Tells, Starts, Underway
<1>13. u.work \notin Later /\ u.work \notin {"terminal", "render_process_pack"}
  BY <1>2, <1>8
<1>14. JobAnswers(u)
  BY <1>10, <1>11, <1>12, <1>13 DEF JobAnswers
<1> QED BY <1>3, <1>4, <1>5, <1>8, <1>9, <1>14 DEF Tells

LEMMA StepAfter ==
  ASSUME NEW j, JobFits(j), JobAnswers(j), j.work \in Later, j.cancel = FALSE, j.managed = FALSE, NEW out \in Outcome
  PROVE  LET r == JobStep(j, out)
             u == r.job
         IN  /\ JobFits(u) /\ JobAnswers(u) /\ r.ret \in Statuses \ {"busy"} /\ SameOrder(j, u)
             /\ u.work \in Later \cup {"cleanup"}
             /\ r.ret = "ok" => u.phase # "rendering"
<1> DEFINE r == Advance(j, out)
           u == r.job
<1>1. j.work \in Working /\ j \in JobType /\ j.phase \notin {"complete", "cancelled"}
  BY LaterFacts
<1>2. /\ j.work \notin {"idle", "terminal", "cleanup", "source_open", "output_create"} /\ j.work \notin Rendering
      /\ \A w \in Later : w \notin {"terminal", "cleanup", "idle", "render_read_decode"}
  BY DEF Rendering, Later, Unsynced, Unverified, Manifest, Publishing
<1>3. JobStep(j, out) = r
  BY <1>1, <1>2 DEF JobStep, Cancelling
<1>4. JobFits(u)
  BY <1>3, JobStepKeeps
<1>5. \/ Tells(j, r, Later \ {"output_finish"})
      \/ /\ j.work = "publish_manifest" /\ r.ret = "ok" /\ u.work = "cleanup" /\ u.terminal = "complete"
         /\ SameOrder(j, u) /\ u.phase = j.phase
  <2>1. CASE j.work = "publish_manifest"
    BY <2>1, PublishTells DEF Tells
  <2>2. CASE j.work # "publish_manifest"
    BY <2>2, LaterTells
  <2> QED BY <2>1, <2>2
<1>6. j.phase \notin {"failed", "cleanup_failed"}
  BY <1>2 DEF JobAnswers
<1>7. j.work # "output_finish" => j.phase # "rendering"
  BY LaterFacts
<1> HIDE DEF r
<1>8. u.work \in Later \cup {"cleanup"} /\ r.ret \in Statuses \ {"busy"} /\ SameOrder(j, u)
  BY <1>2, <1>5 DEF Tells, Statuses
<1>9. u.phase \notin {"failed", "cleanup_failed"}
  BY <1>5, <1>6 DEF Tells, Starts, Underway
<1>10. u.work # "cleanup" => u.terminal = "idle"
  BY <1>2, <1>4, <1>8 DEF JobFits, JobEnds
<1>11. u.work = "cleanup" => u.terminal = "complete" \/ (u.failure # "ok" /\ u.terminal \in {"idle", "failed"})
  BY <1>2, <1>5 DEF Tells
<1>12. u.managed = FALSE
  BY <1>8 DEF SameOrder
<1>13. JobAnswers(u)
  BY <1>2, <1>8, <1>9, <1>10, <1>11, <1>12 DEF JobAnswers
<1>14. r.ret = "ok" => u.phase # "rendering"
  <2>1. CASE u.work = "cleanup"
    <3>1. r.ret = "ok" => j.work = "publish_manifest" /\ u.phase = j.phase
      BY <1>2, <1>5, <2>1 DEF Tells
    <3> QED BY <1>7, <3>1
  <2>2. CASE u.work # "cleanup"
    <3>1. r.ret = "ok" => u.work \in Later \ {"output_finish"}
      BY <1>5, <2>2 DEF Tells
    <3> QED BY <1>4, <3>1, LaterFacts
  <2> QED BY <2>1, <2>2
<1> QED BY <1>3, <1>4, <1>8, <1>13, <1>14

LEMMA StepEnding ==
  ASSUME NEW j, JobFits(j), JobAnswers(j), j.work \notin {"idle", "terminal"}, j.cancel \/ j.work = "cleanup", NEW out \in Outcome
  PROVE  LET r == JobStep(j, out)
             u == r.job
         IN  /\ JobFits(u) /\ JobAnswers(u) /\ r.ret \in Statuses /\ SameOrder(j, u) /\ u.published = j.published
             /\ u.work \in {"cleanup", "terminal"} /\ SameFrames(j, u)
             /\ j.work = "cleanup" => EndsOrCloses(j, r)
<1> DEFINE c == Cancelling(j)
           r == CleanupStep(c, out)
           u == r.job
<1>1. j \in JobType /\ JobEnds(j)
  BY DEF JobFits, JobSound
<1>2. j.work # "cleanup" => ~j.published
  BY <1>1 DEF JobEnds
<1>3. /\ SameOrder(j, c) /\ SameFrames(j, c) /\ c.published = j.published /\ c.phase = j.phase
      /\ \/ c = j /\ j.work = "cleanup"
         \/ /\ j.cancel /\ c.terminal = "cancelled" /\ c.failure = "unavailable" /\ c.work = "cleanup"
            /\ j.work # "cleanup"
  <2>1. c = IF j.cancel /\ j.work # "cleanup" /\ ~j.published THEN [j EXCEPT !.terminal = "cancelled", !.failure = "unavailable", !.work = "cleanup"] ELSE j
    BY DEF Cancelling
  <2>2. j.work = "cleanup" => c = j
    BY <2>1
  <2> QED BY <1>1, <1>2, <2>2, CancellingFacts
<1>4. c.work = "cleanup" /\ "cleanup" \notin Rendering
  BY <1>3 DEF Rendering
<1>5. JobStep(j, out) = r
  BY <1>4 DEF JobStep, Advance
<1>6. JobFits(c) /\ JobFits(u)
  BY <1>5, CancellingKeeps, JobStepKeeps
<1>7. c \in JobType /\ u \in JobType
  BY <1>6 DEF JobFits, JobSound
<1>8. EndsOrCloses(c, r)
  BY <1>4, <1>7, CleanupTells
<1>9. JobAnswers(c)
  <2>1. CASE c = j
    BY <2>1
  <2>2. CASE c.terminal = "cancelled" /\ j.cancel /\ c.failure = "unavailable" /\ j.work # "cleanup"
    <3>1. c.cancel = j.cancel /\ c.work \notin Later /\ c.work # "render_process_pack"
      BY <1>3, <1>4 DEF SameOrder, Later, Unsynced, Unverified, Manifest, Publishing
    <3>2. c.phase \notin {"failed", "cleanup_failed"}
      BY <1>3, <2>2 DEF JobAnswers
    <3> QED BY <1>4, <2>2, <3>1, <3>2 DEF JobAnswers
  <2> QED BY <1>3, <2>1, <2>2
<1> HIDE DEF r, c
<1>10. JobAnswers(u) /\ r.ret \in Statuses /\ u.work \in {"cleanup", "terminal"}
  BY <1>4, <1>6, <1>7, <1>8, <1>9, EndsAnswer
<1>11. SameOrder(j, u)
  BY <1>3, <1>8 DEF EndsOrCloses, SameOrder
<1>12. SameFrames(j, u) /\ u.published = j.published
  BY <1>3, <1>8 DEF EndsOrCloses, SameFrames
<1>13. j.work = "cleanup" => EndsOrCloses(j, r)
  BY <1>3, <1>8
<1> QED BY <1>5, <1>6, <1>10, <1>11, <1>12, <1>13
(* cancel() of a busy job always takes, and starts a failed cleanup again. *)
LEMMA CancelTells ==
  ASSUME NEW j, JobFits(j), JobAnswers(j), Busy(j)
  PROVE  LET r == JobCancel(j)
             u == r.job
         IN  /\ JobFits(u) /\ JobAnswers(u) /\ r.ret = "ok" /\ u.cancel = TRUE /\ u.managed = j.managed
             /\ u.source = j.source /\ u.published = j.published /\ u.work = j.work /\ SameFrames(j, u)
             /\ u.phase = (IF j.work = "cleanup" /\ j.phase = "cleanup_failed" THEN "starting" ELSE j.phase)
             /\ u.open = j.open
<1> DEFINE phase == IF j.work = "cleanup" /\ j.phase = "cleanup_failed" THEN "starting" ELSE j.phase
           u == [j EXCEPT !.cancel = TRUE, !.phase = phase]
<1>1. j \in JobType /\ JobEnds(j)
  BY DEF JobFits, JobSound
<1>2. ~(j.published /\ j.work # "cleanup")
  BY <1>1 DEF JobEnds, Busy
<1>3. JobCancel(j) = Ok(u)
  BY <1>2 DEF JobCancel
<1>4. JobFits(u)
  BY <1>3, JobCancelKeeps DEF Ok, Return
<1>5. /\ u.cancel = TRUE /\ u.phase = phase /\ u.managed = j.managed /\ u.source = j.source
      /\ u.published = j.published /\ u.work = j.work /\ u.open = j.open /\ SameFrames(j, u)
      /\ u.status = j.status /\ u.failure = j.failure /\ u.terminal = j.terminal
      /\ u.blockIn = j.blockIn /\ u.request = j.request
  BY <1>1, Zenon DEF SameFrames, JobType
<1>6. phase = "failed" => j.phase = "failed"
  OBVIOUS
<1>7. phase = "cleanup_failed" => j.phase = "cleanup_failed"
  OBVIOUS
<1>8. j.work = "terminal" => phase = j.phase
  OBVIOUS
<1> HIDE DEF u, phase
<1>9. JobAnswers(u)
  BY <1>5, <1>6, <1>7, <1>8 DEF JobAnswers
<1> QED BY <1>3, <1>4, <1>5, <1>9 DEF Ok, Return, phase

(* begin(): a job refused for its request has ended, one admitted starts.  *)
LEMMA BeginTells ==
  ASSUME NEW j, JobFits(j), ~Busy(j), NEW ask \in RequestType, NEW managed \in BOOLEAN
  PROVE  LET r == BeginInternal(j, ask, managed)
             u == r.job
         IN  /\ JobFits(u) /\ JobAnswers(u) /\ u.published = FALSE
             /\ r.ret = (IF ask.sound THEN "ok" ELSE "invalid_argument")
             /\ ask.sound => u.work = "mount" /\ u.phase = "starting" /\ u.cancel = FALSE /\ u.managed = managed
             /\ ~ask.sound => ~Busy(u)
<1> DEFINE base == NewJob(j.card)
           reset == [base EXCEPT !.ask = ask, !.writer = j.writer, !.bound = j.bound, !.sinkOk = j.sinkOk,
                                 !.committed = j.committed]
           bad == [reset EXCEPT !.phase = "failed", !.status = "invalid_argument", !.work = "terminal"]
           good == [reset EXCEPT !.phase = "starting", !.managed = managed, !.work = "mount"]
           u == BeginInternal(j, ask, managed).job
<1>1. BeginInternal(j, ask, managed) = IF ask.sound THEN Ok(good) ELSE Return(bad, "invalid_argument")
  BY DEF BeginInternal, ResetJob
<1>2. JobFits(u)
  BY BeginKeeps
<1>3. /\ DOMAIN base = JobFields /\ base.terminal = "idle" /\ base.cancel = FALSE /\ base.published = FALSE
      /\ base.failure = "ok" /\ base.open = {} /\ base.managed = FALSE
  BY Zenon DEF NewJob, JobFields
<1> HIDE DEF base
<1>4. /\ DOMAIN reset = JobFields /\ reset.terminal = "idle" /\ reset.cancel = FALSE /\ reset.published = FALSE
      /\ reset.failure = "ok" /\ reset.open = {} /\ reset.managed = FALSE
  BY <1>3, Zenon DEF JobFields
<1> HIDE DEF reset
<1>5. /\ bad.terminal = "idle" /\ bad.published = FALSE /\ bad.open = {} /\ bad.managed = FALSE
      /\ bad.phase = "failed" /\ bad.status = "invalid_argument" /\ bad.work = "terminal"
  BY <1>4, Zenon DEF JobFields
<1>6. /\ good.terminal = "idle" /\ good.published = FALSE /\ good.cancel = FALSE /\ good.managed = managed
      /\ good.phase = "starting" /\ good.work = "mount"
  BY <1>4, Zenon DEF JobFields
<1> HIDE DEF bad, good
<1>7. "mount" \notin Later
  BY DEF Later, Unsynced, Unverified, Manifest, Publishing
<1>8. JobAnswers(bad) /\ JobAnswers(good)
  BY <1>5, <1>6, <1>7 DEF JobAnswers
<1>9. ~Busy(bad)
  BY <1>5 DEF Busy
<1> QED BY <1>1, <1>2, <1>5, <1>6, <1>8, <1>9 DEF Ok, Return

(* A managed job that renders, and what a call between its steps tells.    *)
Driven(j) ==
  JobFits(j) /\ JobAnswers(j) /\ j.managed = TRUE /\ j.cancel = FALSE /\ j.work \in Rendering

Driving(j, r) ==
  /\ JobFits(r.job) /\ JobAnswers(r.job) /\ SameOrder(j, r.job) /\ r.job.published = j.published
  /\ r.ret \in Statuses /\ r.job.work \in Rendering \cup {"cleanup"}

LEMMA DrivenFacts ==
  ASSUME NEW j, Driven(j)
  PROVE  /\ j \in JobType /\ OnItsWay(j, j) /\ Renders(j) /\ j.phase = "rendering" /\ j.work \in Writing
         /\ j.request \in Nat /\ j.blockIn \in Nat /\ j.blockOut \in Nat /\ j.rendered \in Nat /\ j.produced \in Nat
         /\ j.work # "render_append" => j.produced = j.rendered
         /\ j.work = "render_append" => j.blockOut = j.blockIn /\ j.produced = j.rendered + j.blockOut
         /\ j.terminal = "idle" /\ \A w \in Rendering : w \notin Later \cup {"terminal", "cleanup", "output_create", "idle"}
<1>1. j.work \in Writing /\ j.work \notin {"cleanup", "terminal"}
  BY DEF Driven, Writing, Rendering
<1>2. j \in JobType /\ j.phase = "rendering" /\ j.terminal = "idle"
  BY <1>1 DEF Driven, JobFits, JobSound, JobEnds, JobCursors
<1>3. OnItsWay(j, j)
  BY <1>2, StandsStill
<1>4. Renders(j)
  BY <1>1, <1>2 DEF Driven, Renders
<1>5. /\ j.work # "render_append" => j.produced = j.rendered
      /\ j.work = "render_append" => j.blockOut = j.blockIn /\ j.produced = j.rendered + j.blockOut
  BY DEF Driven, JobFits, JobCursors
<1>6. \A w \in Rendering : w \notin Later \cup {"terminal", "cleanup", "output_create", "idle"}
  BY DEF Rendering, Later, Unsynced, Unverified, Manifest, Publishing
<1> QED BY <1>1, <1>2, <1>3, <1>4, <1>5, <1>6 DEF JobType

(* A call that fails the job, or that it refuses.                          *)
LEMMA DrivenFails ==
  ASSUME NEW j, Driven(j), NEW r, Tells(j, r, {}), JobFits(r.job)
  PROVE  Driving(j, r) /\ r.ret \notin {"ok", "busy"}
<1>1. r.job.work = "cleanup" /\ r.job.failure # "ok" /\ r.job.terminal \in {"idle", "failed"} /\ r.ret \in Statuses \ {"ok"}
  BY DEF Tells
<1>2. r.ret # "busy"
  <2>1. j.work # "output_create"
    BY DrivenFacts DEF Driven
  <2> QED BY <2>1 DEF Tells
<1>3. r.job.phase \notin {"failed", "cleanup_failed"}
  BY DrivenFacts DEF Tells, Starts, Underway
<1>4. "cleanup" \notin Later
  BY DEF Later, Unsynced, Unverified, Manifest, Publishing
<1>5. JobAnswers(r.job)
  BY <1>1, <1>3, <1>4 DEF JobAnswers
<1> QED BY <1>1, <1>2, <1>5 DEF Driving, Tells

LEMMA DrivenRefuses ==
  ASSUME NEW j, Driven(j), NEW s \in Statuses
  PROVE  Driving(j, Return(j, s))
BY DEF Driving, Driven, Return, SameOrder

LEMMA DrivenRefusal ==
  ASSUME NEW j, Driven(j), NEW r, r \in {Return(j, "unavailable"), Return(j, "invalid_argument")}
  PROVE  Driving(j, r) /\ r.ret \notin {"ok", "busy"}
<1>1. Driving(j, r)
  <2>1. {"unavailable", "invalid_argument"} \subseteq Statuses
    BY DEF Statuses
  <2> QED BY <2>1, DrivenRefuses
<1>2. r.ret \notin {"ok", "busy"}
  BY DEF Return
<1> QED BY <1>1, <1>2

(* render_read_decode and render_process_pack for the owner's block.       *)
LEMMA ProduceTells ==
  ASSUME NEW j, Driven(j), NEW frames \in Nat, NEW out \in Outcome
  PROVE  LET r == ProduceStep(j, frames, out)
             u == r.job
         IN  /\ Driving(j, r)
             /\ r.ret \in {"ok", "busy"} =>
                  u.work \in Rendering /\ u.rendered = j.rendered /\ u.committed = j.committed
             /\ r.ret = "ok" => u.produced = j.produced + frames
             /\ r.ret = "busy" => u.produced = j.produced
<1> DEFINE asked == [j EXCEPT !.request = frames]
           read == RenderReadDecodeStep(asked, out)
           ready == [asked EXCEPT !.blockIn = frames, !.blockOut = 0, !.work = "render_process_pack"]
           packed == RenderProcessPackStep(j, out)
           p == Packed(j, out)
           u == [p EXCEPT !.produced = j.rendered + p.blockOut]
           r == ProduceStep(j, frames, out)
<1>1. /\ j \in JobType /\ OnItsWay(j, j) /\ Renders(j) /\ j.phase = "rendering" /\ JobFits(j) /\ j.terminal = "idle"
  BY DrivenFacts DEF Driven
<1>2. JobFits(r.job)
  BY <1>1, ProduceKeeps
<1>3. \/ r \in {Return(j, "unavailable"), Return(j, "invalid_argument")}
      \/ /\ r = IF read.ret = "ok" THEN Return(read.job, "busy") ELSE read
         /\ j.work = "render_read_decode" /\ ~(frames = 0) /\ ~(frames > j.source - j.input)
      \/ /\ r = IF packed.ret # "ok" THEN packed ELSE Ok([packed.job EXCEPT !.produced = j.rendered + packed.job.blockOut])
         /\ j.work = "render_process_pack" /\ j.request = frames
  BY DEF ProduceStep
<1>4. CASE r \in {Return(j, "unavailable"), Return(j, "invalid_argument")}
  BY <1>4, DrivenRefusal
<1>5. CASE /\ r = IF read.ret = "ok" THEN Return(read.job, "busy") ELSE read
           /\ j.work = "render_read_decode" /\ ~(frames = 0) /\ ~(frames > j.source - j.input)
  <2>1. j.source \in Nat /\ j.input \in Nat
    BY <1>1 DEF JobType
  <2>2. j.input # j.source
    BY <1>5, <2>1
  <2>3. asked.input = j.input /\ asked.source = j.source /\ asked.managed = j.managed /\ asked.request = frames
    BY <1>1, Zenon DEF JobType
  <2>4. OnItsWay(j, asked) /\ OnItsWay(j, [asked EXCEPT !.blockIn = frames, !.blockOut = 0])
    BY <1>1, Zenon DEF OnItsWay, SameOrder, JobFields
  <2> HIDE DEF asked
  <2>5. read = IF out # "ok" THEN Fault(asked) ELSE Go([asked EXCEPT !.blockIn = frames, !.blockOut = 0], "render_process_pack")
    <3>1. asked.input # asked.source /\ asked.managed = TRUE /\ asked.request = frames
      BY <2>2, <2>3 DEF Driven
    <3> QED BY <3>1 DEF RenderReadDecodeStep, read
  <2>6. Go([asked EXCEPT !.blockIn = frames, !.blockOut = 0], "render_process_pack") = Ok(ready)
    BY DEF Go
  <2> USE DEF asked
  <2>7. /\ ready.work = "render_process_pack" /\ ready.rendered = j.rendered /\ ready.committed = j.committed
        /\ ready.produced = j.produced /\ ready.blockIn = frames /\ ready.request = frames
        /\ ready.phase = j.phase /\ ready.terminal = "idle" /\ ready.published = j.published /\ SameOrder(j, ready)
    BY <1>1, Zenon DEF SameOrder, JobType
  <2> HIDE DEF ready
  <2>8. CASE out # "ok"
    <3>1. Tells(j, Fault(asked), {}) /\ Fault(asked).ret = "io_error"
      BY <2>4, FaultTells DEF Fault, FailWith, Return
    <3>2. r = Fault(asked)
      BY <1>5, <2>5, <2>8, <3>1
    <3> QED BY <1>2, <3>1, <3>2, DrivenFails
  <2>9. CASE out = "ok"
    <3>1. r = Return(ready, "busy")
      BY <1>5, <2>5, <2>6, <2>9 DEF Ok, Return
    <3>2. ready.work \in Rendering /\ ready.work \notin Later /\ "busy" \in Statuses
      BY <2>7 DEF Rendering, Later, Unsynced, Unverified, Manifest, Publishing, Statuses
    <3>3. JobAnswers(ready)
      BY <1>1, <2>7, <3>2 DEF JobAnswers
    <3>4. JobFits(ready)
      BY <1>2, <3>1 DEF Return
    <3> QED BY <2>7, <3>1, <3>2, <3>3, <3>4 DEF Driving, Return
  <2> QED BY <2>8, <2>9
<1>6. CASE /\ r = IF packed.ret # "ok" THEN packed ELSE Ok([packed.job EXCEPT !.produced = j.rendered + packed.job.blockOut])
           /\ j.work = "render_process_pack" /\ j.request = frames
  <2>1. /\ j.blockIn = frames /\ j.produced = j.rendered /\ j.managed = TRUE
        /\ j.rendered \in Nat /\ j.blockIn \in Nat
    BY <1>6, DrivenFacts DEF Driven, JobAnswers
  <2>2. packed \in {FailWith(j, "invalid_argument"), FailWith(j, "invalid_configuration")}
        \/ /\ packed = Go([j EXCEPT !.blockOut = EngineFrames(j, out)], "render_append")
           /\ EngineFrames(j, out) = j.blockIn
    BY <2>1 DEF RenderProcessPackStep
  <2>3. CASE packed \in {FailWith(j, "invalid_argument"), FailWith(j, "invalid_configuration")}
    <3>1. Tells(j, packed, {}) /\ packed.ret # "ok"
      <4>1. {"invalid_argument", "invalid_configuration"} \subseteq Statuses \ {"ok"}
        BY DEF Statuses
      <4>2. Tells(j, packed, {})
        BY <1>1, <2>3, <4>1, FailTells
      <4>3. packed.ret # "ok"
        BY <2>3 DEF FailWith, Return
      <4> QED BY <4>2, <4>3
    <3> QED BY <1>2, <1>6, <3>1, DrivenFails
  <2>4. CASE /\ packed = Go([j EXCEPT !.blockOut = EngineFrames(j, out)], "render_append")
             /\ EngineFrames(j, out) = j.blockIn
    <3> DEFINE v == [[j EXCEPT !.blockOut = j.blockIn] EXCEPT !.work = "render_append"]
               w == [v EXCEPT !.produced = j.rendered + j.blockIn]
    <3>1. packed = Ok(v)
      BY <2>4 DEF Go
    <3>2. v.blockOut = j.blockIn
      BY <1>1, Zenon DEF JobType
    <3>3. /\ w.work = "render_append" /\ w.rendered = j.rendered /\ w.committed = j.committed
          /\ w.produced = j.rendered + j.blockIn
          /\ w.phase = j.phase /\ w.terminal = "idle" /\ w.published = j.published /\ SameOrder(j, w)
      BY <1>1, Zenon DEF SameOrder, JobType
    <3>4. packed.ret = "ok" /\ packed.job = v
      BY <3>1 DEF Ok, Return
    <3>5. r = Ok(w)
      BY <1>6, <3>2, <3>4
    <3> HIDE DEF w
    <3>6. w.work \in Rendering /\ w.work \notin Later /\ "ok" \in Statuses
      BY <3>3 DEF Rendering, Later, Unsynced, Unverified, Manifest, Publishing, Statuses
    <3>7. JobAnswers(w)
      BY <1>1, <3>3, <3>6 DEF JobAnswers
    <3>8. JobFits(w)
      BY <1>2, <3>5 DEF Ok, Return
    <3>9. w.produced = j.produced + frames
      BY <2>1, <3>3
    <3> QED BY <3>3, <3>5, <3>6, <3>7, <3>8, <3>9 DEF Driving, Ok, Return
  <2> QED BY <2>2, <2>3, <2>4
<1> QED BY <1>3, <1>4, <1>5, <1>6

(* render_append for the owner's block.                                    *)
LEMMA AppendTells ==
  ASSUME NEW j, Driven(j), NEW frames \in Nat, NEW out \in Outcome
  PROVE  LET r == AppendProduced(j, frames, out)
             u == r.job
         IN  /\ Driving(j, r) /\ r.ret # "busy"
             /\ r.ret = "ok" => /\ u.work \in Rendering /\ u.produced = j.produced /\ u.committed = j.committed
                                /\ u.rendered = j.rendered + frames
<1> DEFINE step == RenderAppendStep(j, out)
           broken == [WriterFailed(j) EXCEPT !.sinkOk = FALSE]
           r == AppendProduced(j, frames, out)
<1>1. /\ j \in JobType /\ OnItsWay(j, j) /\ Renders(j) /\ j.phase = "rendering" /\ JobFits(j) /\ j.terminal = "idle"
  BY DrivenFacts DEF Driven
<1>2. JobFits(r.job)
  BY <1>1, AppendProducedKeeps
<1>3. \/ r \in {Return(j, "unavailable"), Return(j, "invalid_argument")}
      \/ /\ r = IF step.ret = "ok" THEN Ok([step.job EXCEPT !.request = 0]) ELSE step
         /\ j.blockOut = frames
  BY DEF AppendProduced
<1>4. CASE r \in {Return(j, "unavailable"), Return(j, "invalid_argument")}
  BY <1>4, DrivenRefusal
<1>5. CASE /\ r = IF step.ret = "ok" THEN Ok([step.job EXCEPT !.request = 0]) ELSE step
           /\ j.blockOut = frames
  <2> DEFINE content == IF out = "corrupt" THEN "corrupt" ELSE j.card["TMP"]
             v == [j EXCEPT !.input = @ + j.blockIn, !.rendered = @ + j.blockOut,
                            !.blockIn = 0, !.blockOut = 0,
                            !.card["TMP"] = IF out = "corrupt" THEN "corrupt" ELSE @]
  <2>1. step \in {FailWith(j, "invalid_argument"), FailWith(j, "invalid_configuration"), Fault(broken),
                  Go(v, "render_read_decode")}
    BY DEF RenderAppendStep
  <2>2. OnItsWay(j, broken)
    BY <1>1, Zenon DEF OnItsWay, SameOrder, JobFields, WriterFailed
  <2> HIDE DEF broken
  <2>3. CASE step \in {FailWith(j, "invalid_argument"), FailWith(j, "invalid_configuration"), Fault(broken)}
    <3>1. Tells(j, step, {})
      <4>1. {"invalid_argument", "invalid_configuration"} \subseteq Statuses \ {"ok"}
        BY DEF Statuses
      <4> QED BY <1>1, <2>2, <2>3, <4>1, FailTells, FaultTells
    <3>2. step.ret # "ok"
      BY <2>3 DEF FailWith, Fault, Return
    <3> QED BY <1>2, <1>5, <3>1, <3>2, DrivenFails
  <2>4. CASE step = Go(v, "render_read_decode")
    <3> DEFINE w == [[v EXCEPT !.work = "render_read_decode"] EXCEPT !.request = 0]
    <3>1. r = Ok(w)
      BY <1>5, <2>4 DEF Go, Ok, Return
    <3>2. /\ w.work = "render_read_decode" /\ w.rendered = j.rendered + j.blockOut /\ w.committed = j.committed
          /\ w.produced = j.produced /\ w.terminal = "idle" /\ w.published = j.published /\ SameOrder(j, w)
          /\ w.phase = j.phase
      BY <1>1, Zenon DEF SameOrder, JobType
    <3> HIDE DEF w
    <3>3. w.work \in Rendering /\ w.work \notin Later /\ "ok" \in Statuses
      BY <3>2 DEF Rendering, Later, Unsynced, Unverified, Manifest, Publishing, Statuses
    <3>4. JobAnswers(w)
      BY <1>1, <3>2, <3>3 DEF JobAnswers
    <3>5. JobFits(w)
      BY <1>2, <3>1 DEF Ok, Return
    <3>6. r.job = w /\ r.ret = "ok"
      BY <3>1 DEF Ok, Return
    <3> HIDE DEF r
    <3>7. Driving(j, r)
      BY <1>2, <3>2, <3>3, <3>4, <3>6 DEF Driving
    <3>8. w.rendered = j.rendered + frames
      BY <1>5, <3>2
    <3>9. /\ Driving(j, r) /\ r.ret # "busy"
          /\ r.job.work \in Rendering /\ r.job.produced = j.produced /\ r.job.committed = j.committed
          /\ r.job.rendered = j.rendered + frames
      BY <3>2, <3>3, <3>6, <3>7, <3>8
    <3> QED BY <3>9 DEF r
  <2> QED BY <2>1, <2>3, <2>4
<1> QED BY <1>3, <1>4, <1>5

(* commit_prefix(), read_prefix() and finish_managed().                    *)
LEMMA CommitPrefixTells ==
  ASSUME NEW j, Driven(j), NEW out \in Outcome
  PROVE  LET r == CommitPrefix(j, out)
             u == r.job
         IN  /\ Driving(j, r) /\ r.ret # "busy"
             /\ r.ret = "ok" => /\ u.work \in Rendering /\ u.produced = j.produced /\ u.rendered = j.rendered
                                /\ u.committed = j.rendered
<1> DEFINE c == CommitFrames(j, out)
           r == CommitPrefix(j, out)
           w == [j EXCEPT !.committed = j.rendered, !.card["TMP"] = Flushed(@)]
<1>1. /\ j \in JobType /\ OnItsWay(j, j) /\ Renders(j) /\ j.phase = "rendering" /\ JobFits(j) /\ j.terminal = "idle"
  BY DrivenFacts DEF Driven
<1>2. JobFits(r.job)
  BY <1>1, CommitPrefixKeeps
<1>3. r = Return(j, "unavailable") \/ r = IF c.ret = "ok" THEN c ELSE FailWith(c.job, c.ret)
  BY DEF CommitPrefix
<1>4. OnItsWay(j, c.job) /\ c.ret \in Statuses \ {"busy"}
  BY <1>1, CommitOnTheWay
<1>5. c.ret = "ok" => c = Ok(w)
  BY DEF CommitFrames, Return
<1> HIDE DEF c
<1>6. CASE r = Return(j, "unavailable")
  BY <1>6, DrivenRefusal
<1>7. CASE r = FailWith(c.job, c.ret) /\ c.ret # "ok"
  <2>1. Tells(j, r, {})
    BY <1>4, <1>7, FailTells
  <2> QED BY <1>2, <2>1, DrivenFails
<1>8. CASE r = c /\ c.ret = "ok"
  <2>1. /\ w.work = j.work /\ w.rendered = j.rendered /\ w.committed = j.rendered /\ w.produced = j.produced
        /\ w.terminal = "idle" /\ w.published = j.published /\ SameOrder(j, w) /\ w.phase = j.phase
        /\ w.blockIn = j.blockIn /\ w.request = j.request /\ w.failure = j.failure
    BY <1>1, Zenon DEF SameOrder, JobType
  <2>2. r = Ok(w)
    BY <1>5, <1>8
  <2> HIDE DEF w
  <2>3. w.work \in Rendering /\ w.work \notin Later /\ w.work \notin {"terminal", "cleanup"} /\ "ok" \in Statuses
    BY <2>1, DrivenFacts DEF Driven, Statuses
  <2>4. w.managed /\ w.work = "render_process_pack" => w.blockIn = w.request
    BY <2>1 DEF Driven, JobAnswers, SameOrder
  <2>5. JobAnswers(w)
    BY <1>1, <2>1, <2>3, <2>4 DEF JobAnswers
  <2>6. JobFits(w)
    BY <1>2, <2>2 DEF Ok, Return
  <2> QED BY <2>1, <2>2, <2>3, <2>5, <2>6 DEF Driving, Ok, Return
<1> QED BY <1>3, <1>6, <1>7, <1>8

LEMMA ReadPrefixTells ==
  ASSUME NEW j, Driven(j), NEW first, NEW frames, NEW out \in Outcome
  PROVE  LET r == ReadPrefix(j, first, frames, out)
         IN  Driving(j, r) /\ r.ret # "busy" /\ (r.ret = "ok" => r.job = j)
<1> DEFINE r == ReadPrefix(j, first, frames, out)
           broken == [j EXCEPT !.sinkOk = FALSE]
<1>1. OnItsWay(j, j) /\ JobFits(j)
  BY DrivenFacts DEF Driven
<1>2. JobFits(r.job)
  BY <1>1, ReadPrefixKeeps
<1>3. r \in {Return(j, "unavailable"), Return(j, "invalid_argument"), Ok(j)} \/ r = FailWith(broken, "io_error")
  BY DEF ReadPrefix
<1>4. CASE r \in {Return(j, "unavailable"), Return(j, "invalid_argument"), Ok(j)}
  <2>1. Driving(j, r)
    BY <1>4, DrivenRefuses DEF Ok, Statuses
  <2>2. r.ret # "busy" /\ r.job = j
    BY <1>4 DEF Ok, Return
  <2> QED BY <2>1, <2>2
<1>5. CASE r = FailWith(broken, "io_error")
  <2>1. OnItsWay(j, broken)
    BY <1>1, Zenon DEF OnItsWay, SameOrder, JobFields
  <2>2. Tells(j, r, {})
    BY <1>5, <2>1, FaultTells DEF Fault
  <2> QED BY <1>2, <2>2, DrivenFails
<1> QED BY <1>3, <1>4, <1>5

LEMMA FinishTells ==
  ASSUME NEW j, Driven(j)
  PROVE  LET r == FinishManaged(j)
             u == r.job
         IN  /\ JobFits(u) /\ JobAnswers(u) /\ SameFrames(j, u) /\ u.published = j.published /\ u.source = j.source
             /\ u.cancel = j.cancel /\ u.phase = j.phase
             /\ \/ r.ret \in Statuses \ {"ok"} /\ u = j
                \/ r.ret = "ok" /\ u.managed = FALSE /\ u.work = "output_finish"
<1> DEFINE w == [j EXCEPT !.managed = FALSE, !.work = "output_finish"]
           r == FinishManaged(j)
<1>1. j \in JobType /\ JobFits(j) /\ JobAnswers(j) /\ j.phase = "rendering" /\ j.terminal = "idle"
  BY DrivenFacts DEF Driven
<1>2. JobFits(r.job)
  BY <1>1, FinishManagedKeeps
<1>3. r \in {Return(j, "unavailable"), Return(j, "invalid_argument"), Ok(w)}
  BY DEF FinishManaged
<1>4. /\ w.managed = FALSE /\ w.work = "output_finish" /\ w.published = j.published /\ w.source = j.source
      /\ w.cancel = j.cancel /\ w.phase = j.phase /\ SameFrames(j, w) /\ w.terminal = j.terminal
  BY <1>1, Zenon DEF SameFrames, JobType
<1> HIDE DEF w
<1>5. JobAnswers(w)
  BY <1>1, <1>4 DEF JobAnswers
<1>6. CASE r = Ok(w)
  BY <1>2, <1>4, <1>5, <1>6 DEF Ok, Return
<1>7. CASE r \in {Return(j, "unavailable"), Return(j, "invalid_argument")}
  BY <1>1, <1>7 DEF Return, Statuses, SameFrames
<1> QED BY <1>3, <1>6, <1>7
=============================================================================
