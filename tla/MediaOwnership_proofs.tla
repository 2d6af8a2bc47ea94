------------------------ MODULE MediaOwnership_proofs ------------------------
(***************************************************************************)
(* Proofs about MediaOwnership: for a command of any number of chunks, the *)
(* invariant MediaInv is inductive, the run's invariants follow from it,   *)
(* and the media layer implements CardOwner.                               *)
(***************************************************************************)
EXTENDS MediaOwnership, TLAPS

(* The state s_media and the tasks boot in satisfies MediaInv.             *)
LEMMA InitInv == MediaInit => MediaInv
BY ChunksAssumption DEF MediaInit, MediaInv, MediaTypeOK, MediaType, CommandType, OneAttempt, WithUsb, WithNote, WithTask,
   FlagsAgree, SdAgrees, TaskExists, ChunkUnderWay, HoldCovers, HoldIsReal, MediaState, MediaError,
   Attempting, SdState, Flag, NoCommand

(* A latched fault is a state of s_media.                                   *)
LEMMA LatchType ==
  ASSUME NEW m \in MediaType, NEW error \in MediaError
  PROVE  LatchFault(m, error) \in MediaType
BY DEF LatchFault, MediaType, MediaState, Flag

(* A chunk leaves a command of TinyUSB's MSC driver a command.             *)
LEMMA ChunkType ==
  ASSUME NEW c \in CommandType, NEW n \in 0 .. MaxChunks, NEW p \in Flag
  PROVE  [c EXCEPT !.left = n, !.put = p] \in CommandType
BY DEF CommandType

(* Each step of WFG_MediaInitTask() keeps the invariant.                   *)
LEMMA InitTaskInv == MediaInv /\ InitTask => MediaInv'
<1> SUFFICES ASSUME MediaInv, InitTask PROVE MediaInv'
  OBVIOUS
<1> USE DEF MediaInv, MediaTypeOK, MediaType, CommandType, OneAttempt, WithUsb, WithNote, WithTask, FlagsAgree, SdAgrees,
            TaskExists, ChunkUnderWay, HoldCovers, HoldIsReal, MediaState, MediaError, Attempting,
            SdState, Flag, MscReady
<1>1. CASE TakeNotification
  BY <1>1 DEF TakeNotification, At
<1>2. CASE EnterInitialize
  BY <1>2 DEF EnterInitialize, At, PrepareAttempt
<1>3. CASE HostInit
  <2>1. MediaTypeOK'
    BY <1>3, ChunksAssumption DEF HostInit, At, FailWith, DeinitializeSd
  <2>2. OneAttempt'
    BY <1>3 DEF HostInit, At, FailWith, DeinitializeSd
  <2>3. FlagsAgree'
    BY <1>3 DEF HostInit, At, FailWith, DeinitializeSd
  <2>4. SdAgrees'
    BY <1>3 DEF HostInit, At, FailWith, DeinitializeSd
  <2>5. TaskExists'
    BY <1>3 DEF HostInit, At, FailWith, DeinitializeSd
  <2>6. ChunkUnderWay'
    BY <1>3 DEF HostInit, At, FailWith, DeinitializeSd
  <2>7. HoldCovers' /\ HoldIsReal'
    BY <1>3 DEF HostInit, At, FailWith, DeinitializeSd
  <2> QED BY <2>1, <2>2, <2>3, <2>4, <2>5, <2>6, <2>7
<1>4. CASE Detect
  <2>1. MediaTypeOK'
    BY <1>4, ChunksAssumption DEF Detect, At, FailWith
  <2>2. OneAttempt'
    BY <1>4 DEF Detect, At, FailWith
  <2>3. FlagsAgree'
    BY <1>4 DEF Detect, At, FailWith
  <2>4. SdAgrees'
    BY <1>4 DEF Detect, At, FailWith
  <2>5. TaskExists'
    BY <1>4 DEF Detect, At, FailWith
  <2>6. ChunkUnderWay'
    BY <1>4 DEF Detect, At, FailWith
  <2>7. HoldCovers' /\ HoldIsReal'
    BY <1>4 DEF Detect, At, FailWith
  <2> QED BY <2>1, <2>2, <2>3, <2>4, <2>5, <2>6, <2>7
<1>5. CASE CardInit
  BY <1>5 DEF CardInit, At, FailWith
<1>6. CASE CheckGeometry
  BY <1>6 DEF CheckGeometry, At, FailWith
<1>7. CASE DiskInit
  BY <1>7 DEF DiskInit, At, FailWith
<1>8. CASE PublishCard
  <2>1. MediaTypeOK'
    BY <1>8, ChunksAssumption DEF PublishCard, At
  <2>2. OneAttempt'
    BY <1>8 DEF PublishCard, At
  <2>3. FlagsAgree'
    BY <1>8 DEF PublishCard, At
  <2>4. SdAgrees'
    BY <1>8 DEF PublishCard, At
  <2>5. TaskExists'
    BY <1>8 DEF PublishCard, At
  <2>6. ChunkUnderWay'
    BY <1>8 DEF PublishCard, At
  <2>7. HoldCovers' /\ HoldIsReal'
    BY <1>8 DEF PublishCard, At
  <2> QED BY <2>1, <2>2, <2>3, <2>4, <2>5, <2>6, <2>7
<1>9. CASE Teardown
  BY <1>9 DEF Teardown, DeinitializeSd
<1>10. CASE Latch
  <2>1. MediaTypeOK'
    BY <1>10, ChunksAssumption DEF Latch, At, LatchFault
  <2>2. OneAttempt'
    BY <1>10 DEF Latch, At, LatchFault
  <2>3. FlagsAgree'
    BY <1>10 DEF Latch, At, LatchFault
  <2>4. SdAgrees'
    BY <1>10 DEF Latch, At, LatchFault
  <2>5. TaskExists'
    BY <1>10 DEF Latch, At, LatchFault
  <2>6. ChunkUnderWay'
    BY <1>10 DEF Latch, At, LatchFault
  <2>7. HoldCovers' /\ HoldIsReal'
    BY <1>10 DEF Latch, At, LatchFault
  <2> QED BY <2>1, <2>2, <2>3, <2>4, <2>5, <2>6, <2>7
<1> QED BY <1>1, <1>2, <1>3, <1>4, <1>5, <1>6, <1>7, <1>8, <1>9, <1>10 DEF InitTask

(* So do boot, MEDIA HOST and MEDIA LOCAL.                                 *)
LEMMA RequestInv == MediaInv /\ (Boot \/ Commands \/ Request) => MediaInv'
<1> SUFFICES ASSUME MediaInv, (Boot \/ Commands \/ Request) PROVE MediaInv'
  OBVIOUS
<1> USE DEF MediaInv, MediaTypeOK, MediaType, CommandType, OneAttempt, WithUsb, WithNote, WithTask, FlagsAgree, SdAgrees,
            TaskExists, ChunkUnderWay, HoldCovers, HoldIsReal, MediaState, MediaError, Attempting,
            SdState, Flag, MscReady
<1>1. CASE Boot
  <2>1. CASE media' = PrepareAttempt(media) /\ noted' = noted + 1 /\ At("waiting")
    <3>1. MediaTypeOK'
        <4>1. media' \in MediaType
          BY <1>1, <2>1 DEF PrepareAttempt
        <4>2. cmd' \in CommandType
          BY <1>1, <2>1, ChunksAssumption DEF Boot
        <4> QED BY <1>1, <2>1, <4>1, <4>2 DEF Boot, At
    <3>2. OneAttempt'
      BY <1>1, <2>1 DEF Boot, At, PrepareAttempt, LatchFault
    <3>3. FlagsAgree'
      BY <1>1, <2>1 DEF Boot, At, PrepareAttempt, LatchFault
    <3>4. SdAgrees'
      BY <1>1, <2>1 DEF Boot, At, PrepareAttempt, LatchFault
    <3>5. TaskExists'
      BY <1>1, <2>1 DEF Boot, At, PrepareAttempt, LatchFault
    <3>6. ChunkUnderWay'
      BY <1>1, <2>1 DEF Boot, At, PrepareAttempt, LatchFault
    <3>7. HoldCovers' /\ HoldIsReal'
      BY <1>1, <2>1 DEF Boot, At, PrepareAttempt, LatchFault
    <3> QED BY <3>1, <3>2, <3>3, <3>4, <3>5, <3>6, <3>7
  <2>2. CASE media' = LatchFault(media, "task_start") /\ UNCHANGED <<noted, worker>>
    <3>1. MediaTypeOK'
      BY <1>1, <2>2, ChunksAssumption DEF Boot, At, PrepareAttempt, LatchFault
    <3>2. OneAttempt'
      BY <1>1, <2>2 DEF Boot, At, PrepareAttempt, LatchFault
    <3>3. FlagsAgree'
      BY <1>1, <2>2 DEF Boot, At, PrepareAttempt, LatchFault
    <3>4. SdAgrees'
      BY <1>1, <2>2 DEF Boot, At, PrepareAttempt, LatchFault
    <3>5. TaskExists'
      BY <1>1, <2>2 DEF Boot, At, PrepareAttempt, LatchFault
    <3>6. ChunkUnderWay'
      BY <1>1, <2>2 DEF Boot, At, PrepareAttempt, LatchFault
    <3>7. HoldCovers' /\ HoldIsReal'
      BY <1>1, <2>2 DEF Boot, At, PrepareAttempt, LatchFault
    <3> QED BY <3>1, <3>2, <3>3, <3>4, <3>5, <3>6, <3>7
  <2> QED BY <1>1, <2>1, <2>2 DEF Boot
<1>2. CASE SetHost
  <2>1. CASE Published
    <3>1. MediaTypeOK'
      BY ZenonT(40), <1>2, <2>1, ChunksAssumption DEF SetHost, Line, Published
    <3>2. OneAttempt'
      BY <1>2, <2>1 DEF SetHost, Line, Published
    <3>3. FlagsAgree'
      BY <1>2, <2>1 DEF SetHost, Line, Published
    <3>4. SdAgrees'
      BY <1>2, <2>1 DEF SetHost, Line, Published
    <3>5. TaskExists'
      BY <1>2, <2>1 DEF SetHost, Line, Published
    <3>6. ChunkUnderWay'
      BY <1>2, <2>1 DEF SetHost, Line, Published
    <3>7. HoldCovers' /\ HoldIsReal'
      BY <1>2, <2>1 DEF SetHost, Line, Published
    <3> QED BY <3>1, <3>2, <3>3, <3>4, <3>5, <3>6, <3>7
  <2>2. CASE ~Published
    <3>1. MediaTypeOK'
      BY <1>2, <2>2, ChunksAssumption DEF SetHost, Line, Published
    <3>2. OneAttempt'
      BY <1>2, <2>2 DEF SetHost, Line, Published
    <3>3. FlagsAgree'
      BY <1>2, <2>2 DEF SetHost, Line, Published
    <3>4. SdAgrees'
      BY <1>2, <2>2 DEF SetHost, Line, Published
    <3>5. TaskExists'
      BY <1>2, <2>2 DEF SetHost, Line, Published
    <3>6. ChunkUnderWay'
      BY <1>2, <2>2 DEF SetHost, Line, Published
    <3>7. HoldCovers' /\ HoldIsReal'
      BY <1>2, <2>2 DEF SetHost, Line, Published
    <3> QED BY <3>1, <3>2, <3>3, <3>4, <3>5, <3>6, <3>7
  <2> QED BY <1>2, <2>1, <2>2 DEF SetHost
<1>3. CASE RequestLocal
  <2>1. MediaTypeOK'
    BY <1>3, ChunksAssumption DEF RequestLocal, Line, HostHold
  <2>2. OneAttempt'
    BY <1>3 DEF RequestLocal, Line, HostHold
  <2>3. FlagsAgree'
    BY <1>3 DEF RequestLocal, Line, HostHold
  <2>4. SdAgrees'
    BY <1>3 DEF RequestLocal, Line, HostHold
  <2>5. TaskExists'
    BY <1>3 DEF RequestLocal, Line, HostHold
  <2>6. ChunkUnderWay'
    BY <1>3 DEF RequestLocal, Line, HostHold
  <2>7. HoldCovers' /\ HoldIsReal'
    BY <1>3 DEF RequestLocal, Line, HostHold
  <2> QED BY <2>1, <2>2, <2>3, <2>4, <2>5, <2>6, <2>7
<1>4. CASE CheckAttempt
  <2>1. CASE media.state \in {"host", "local", "initializing"}
    <3>1. MediaTypeOK'
      BY <1>4, <2>1, ChunksAssumption DEF CheckAttempt, At, LatchFault
    <3>2. OneAttempt'
      BY <1>4, <2>1 DEF CheckAttempt, At, LatchFault
    <3>3. FlagsAgree'
      BY <1>4, <2>1 DEF CheckAttempt, At, LatchFault
    <3>4. SdAgrees'
      BY <1>4, <2>1 DEF CheckAttempt, At, LatchFault
    <3>5. TaskExists'
      BY <1>4, <2>1 DEF CheckAttempt, At, LatchFault
    <3>6. ChunkUnderWay'
      BY <1>4, <2>1 DEF CheckAttempt, At, LatchFault
    <3>7. HoldCovers' /\ HoldIsReal'
      BY <1>4, <2>1 DEF CheckAttempt, At, LatchFault
    <3> QED BY <3>1, <3>2, <3>3, <3>4, <3>5, <3>6, <3>7
  <2>2. CASE media.state \in {"uninitialized", "fault"} /\ usb' = "prepare"
    <3>1. MediaTypeOK'
      BY <1>4, <2>2, ChunksAssumption DEF CheckAttempt, At, LatchFault
    <3>2. OneAttempt'
      BY <1>4, <2>2 DEF CheckAttempt, At, LatchFault
    <3>3. FlagsAgree'
      BY <1>4, <2>2 DEF CheckAttempt, At, LatchFault
    <3>4. SdAgrees'
      BY <1>4, <2>2 DEF CheckAttempt, At, LatchFault
    <3>5. TaskExists'
      BY <1>4, <2>2 DEF CheckAttempt, At, LatchFault
    <3>6. ChunkUnderWay'
      BY <1>4, <2>2 DEF CheckAttempt, At, LatchFault
    <3>7. HoldCovers' /\ HoldIsReal'
      BY <1>4, <2>2 DEF CheckAttempt, At, LatchFault
    <3> QED BY <3>1, <3>2, <3>3, <3>4, <3>5, <3>6, <3>7
  <2>3. CASE media.state \in {"uninitialized", "fault"} /\ usb' = "idle"
    <3>1. MediaTypeOK'
      <4>1. media' = LatchFault(media, "task_start") /\ UNCHANGED <<sd, worker, noted, cmd, bus>>
        BY <1>4, <2>3 DEF CheckAttempt
      <4>2. media' \in MediaType
        BY <4>1, LatchType
      <4> QED BY <2>3, <4>1, <4>2
    <3>2. OneAttempt'
      BY <1>4, <2>3 DEF CheckAttempt, At, LatchFault
    <3>3. FlagsAgree'
      BY ZenonT(40), <1>4, <2>3 DEF CheckAttempt, At, LatchFault
    <3>4. SdAgrees'
      BY ZenonT(40), <1>4, <2>3 DEF CheckAttempt, At, LatchFault
    <3>5. TaskExists'
      BY <1>4, <2>3 DEF CheckAttempt, At, LatchFault
    <3>6. ChunkUnderWay'
      BY <1>4, <2>3 DEF CheckAttempt, At, LatchFault
    <3>7. HoldCovers' /\ HoldIsReal'
      BY ZenonT(40), <1>4, <2>3 DEF CheckAttempt, At, LatchFault
    <3> QED BY <3>1, <3>2, <3>3, <3>4, <3>5, <3>6, <3>7
  <2> QED BY <1>4, <2>1, <2>2, <2>3 DEF CheckAttempt
<1>5. CASE PrepareRetry
  <2>1. CASE media.state \in {"uninitialized", "fault"}
    <3>1. MediaTypeOK'
      BY ZenonT(40), <1>5, <2>1, ChunksAssumption DEF PrepareRetry, PrepareAttempt
    <3>2. OneAttempt'
      <4>1. ~WithNote /\ ~WithTask /\ noted = 0
        BY <2>1
      <4>2. media'.state = "initializing" /\ usb' = "notify" /\ noted' = noted /\ worker' = worker
        BY <1>5, <2>1 DEF PrepareRetry, PrepareAttempt
      <4> QED BY <4>1, <4>2
    <3>3. FlagsAgree'
      BY ZenonT(40), <1>5, <2>1 DEF PrepareRetry, PrepareAttempt
    <3>4. SdAgrees'
      BY <1>5, <2>1 DEF PrepareRetry, PrepareAttempt
    <3>5. TaskExists'
      BY <1>5, <2>1 DEF PrepareRetry, PrepareAttempt
    <3>6. ChunkUnderWay'
      BY <1>5, <2>1 DEF PrepareRetry, PrepareAttempt
    <3>7. HoldCovers' /\ HoldIsReal'
      BY <1>5, <2>1 DEF PrepareRetry, PrepareAttempt
    <3> QED BY <3>1, <3>2, <3>3, <3>4, <3>5, <3>6, <3>7
  <2>2. CASE media.state \notin {"uninitialized", "fault"}
    <3>1. MediaTypeOK'
      BY <1>5, <2>2, ChunksAssumption DEF PrepareRetry, PrepareAttempt
    <3>2. OneAttempt'
      BY <1>5, <2>2 DEF PrepareRetry, PrepareAttempt
    <3>3. FlagsAgree'
      BY <1>5, <2>2 DEF PrepareRetry, PrepareAttempt
    <3>4. SdAgrees'
      BY <1>5, <2>2 DEF PrepareRetry, PrepareAttempt
    <3>5. TaskExists'
      BY <1>5, <2>2 DEF PrepareRetry, PrepareAttempt
    <3>6. ChunkUnderWay'
      BY <1>5, <2>2 DEF PrepareRetry, PrepareAttempt
    <3>7. HoldCovers' /\ HoldIsReal'
      BY <1>5, <2>2 DEF PrepareRetry, PrepareAttempt
    <3> QED BY <3>1, <3>2, <3>3, <3>4, <3>5, <3>6, <3>7
  <2> QED BY <1>5, <2>1, <2>2 DEF PrepareRetry
<1>6. CASE NotifyInitTask
  BY <1>6 DEF NotifyInitTask
<1>7. CASE ClearHostEject
  <2>1. MediaTypeOK'
    BY <1>7, ChunksAssumption DEF ClearHostEject
  <2>2. OneAttempt'
    BY <1>7 DEF ClearHostEject
  <2>3. FlagsAgree'
    BY <1>7 DEF ClearHostEject
  <2>4. SdAgrees'
    BY <1>7 DEF ClearHostEject
  <2>5. TaskExists'
    BY <1>7 DEF ClearHostEject
  <2>6. ChunkUnderWay'
    BY <1>7 DEF ClearHostEject
  <2>7. HoldCovers' /\ HoldIsReal'
    BY <1>7 DEF ClearHostEject
  <2> QED BY <2>1, <2>2, <2>3, <2>4, <2>5, <2>6, <2>7
<1> QED BY <1>1, <1>2, <1>3, <1>4, <1>5, <1>6, <1>7 DEF Commands, Request

(* So does each SCSI command, chunk by chunk.                              *)
LEMMA ScsiInv == MediaInv /\ Scsi => MediaInv'
<1> SUFFICES ASSUME MediaInv, Scsi PROVE MediaInv'
  OBVIOUS
<1> USE DEF MediaInv, MediaTypeOK, MediaType, CommandType, OneAttempt, WithUsb, WithNote, WithTask, FlagsAgree, SdAgrees,
            TaskExists, ChunkUnderWay, HoldCovers, HoldIsReal, MediaState, MediaError, Attempting,
            SdState, Flag, MscReady
<1>1. CASE Eject
  <2>1. MediaTypeOK'
    BY <1>1, ChunksAssumption DEF Eject, Idle
  <2>2. OneAttempt'
    BY <1>1 DEF Eject, Idle
  <2>3. FlagsAgree'
    BY <1>1 DEF Eject, Idle
  <2>4. SdAgrees'
    BY <1>1 DEF Eject, Idle
  <2>5. TaskExists'
    BY <1>1 DEF Eject, Idle
  <2>6. ChunkUnderWay'
    BY <1>1 DEF Eject, Idle
  <2>7. HoldCovers' /\ HoldIsReal'
    BY <1>1 DEF Eject, Idle
  <2> QED BY <2>1, <2>2, <2>3, <2>4, <2>5, <2>6, <2>7
<1>2. ASSUME NEW prevent \in Flag, PreventAllow(prevent)
      PROVE  MediaInv'
  <2>1. MediaTypeOK'
    BY <1>2, ChunksAssumption DEF PreventAllow, Idle
  <2>2. OneAttempt'
    BY <1>2 DEF PreventAllow, Idle
  <2>3. FlagsAgree'
    BY <1>2 DEF PreventAllow, Idle
  <2>4. SdAgrees'
    BY <1>2 DEF PreventAllow, Idle
  <2>5. TaskExists'
    BY <1>2 DEF PreventAllow, Idle
  <2>6. ChunkUnderWay'
    BY <1>2 DEF PreventAllow, Idle
  <2>7. HoldCovers' /\ HoldIsReal'
    BY <1>2 DEF PreventAllow, Idle
  <2> QED BY <2>1, <2>2, <2>3, <2>4, <2>5, <2>6, <2>7
<1>3. ASSUME NEW op \in {"read", "write"}, NEW n \in 1 .. MaxChunks, BeginCommand(op, n)
      PROVE  MediaInv'
  <2>1. MediaTypeOK'
    BY <1>3, ChunksAssumption DEF BeginCommand, Idle, NoCommand
  <2>2. OneAttempt'
    BY <1>3 DEF BeginCommand, Idle, NoCommand
  <2>3. FlagsAgree'
    BY <1>3 DEF BeginCommand, Idle, NoCommand
  <2>4. SdAgrees'
    BY <1>3 DEF BeginCommand, Idle, NoCommand
  <2>5. TaskExists'
    BY <1>3 DEF BeginCommand, Idle, NoCommand
  <2>6. ChunkUnderWay'
    BY <1>3 DEF BeginCommand, Idle, NoCommand
  <2>7. HoldCovers' /\ HoldIsReal'
    BY <1>3 DEF BeginCommand, Idle, NoCommand
  <2> QED BY <2>1, <2>2, <2>3, <2>4, <2>5, <2>6, <2>7
<1>4. CASE RefuseChunk
  <2>1. CASE cmd.op = "write"
    <3>1. MediaTypeOK'
      <4>1. media' \in MediaType
        BY <1>4, <2>1 DEF RefuseChunk
      <4>2. 0 \in 0 .. MaxChunks
        BY ChunksAssumption
      <4>3. cmd' \in CommandType
        BY <1>4, <4>2, ChunkType DEF RefuseChunk
      <4> QED BY <1>4, <4>1, <4>3 DEF RefuseChunk
    <3>2. OneAttempt'
      BY <1>4, <2>1 DEF RefuseChunk
    <3>3. FlagsAgree'
      BY <1>4, <2>1 DEF RefuseChunk
    <3>4. SdAgrees'
      BY <1>4, <2>1 DEF RefuseChunk
    <3>5. TaskExists'
      BY <1>4, <2>1 DEF RefuseChunk
    <3>6. ChunkUnderWay'
      BY <1>4, <2>1 DEF RefuseChunk
    <3>7. HoldCovers' /\ HoldIsReal'
      BY <1>4, <2>1 DEF RefuseChunk
    <3> QED BY <3>1, <3>2, <3>3, <3>4, <3>5, <3>6, <3>7
  <2>2. CASE cmd.op # "write"
    <3>1. MediaTypeOK'
      <4>1. media' \in MediaType
        BY <1>4, <2>2 DEF RefuseChunk
      <4>2. 0 \in 0 .. MaxChunks
        BY ChunksAssumption
      <4>3. cmd' \in CommandType
        BY <1>4, <4>2, ChunkType DEF RefuseChunk
      <4> QED BY <1>4, <4>1, <4>3 DEF RefuseChunk
    <3>2. OneAttempt'
      BY <1>4, <2>2 DEF RefuseChunk
    <3>3. FlagsAgree'
      BY <1>4, <2>2 DEF RefuseChunk
    <3>4. SdAgrees'
      BY <1>4, <2>2 DEF RefuseChunk
    <3>5. TaskExists'
      BY <1>4, <2>2 DEF RefuseChunk
    <3>6. ChunkUnderWay'
      BY <1>4, <2>2 DEF RefuseChunk
    <3>7. HoldCovers' /\ HoldIsReal'
      BY <1>4, <2>2 DEF RefuseChunk
    <3> QED BY <3>1, <3>2, <3>3, <3>4, <3>5, <3>6, <3>7
  <2> QED BY <1>4, <2>1, <2>2 DEF RefuseChunk
<1>5. CASE StartChunk
  <2>1. MediaTypeOK'
    BY <1>5, ChunksAssumption DEF StartChunk, ChunkReady
  <2>2. OneAttempt'
    BY <1>5 DEF StartChunk, ChunkReady
  <2>3. FlagsAgree'
    BY <1>5 DEF StartChunk, ChunkReady
  <2>4. SdAgrees'
    BY <1>5 DEF StartChunk, ChunkReady
  <2>5. TaskExists'
    BY <1>5 DEF StartChunk, ChunkReady
  <2>6. ChunkUnderWay'
    BY <1>5 DEF StartChunk, ChunkReady
  <2>7. HoldCovers' /\ HoldIsReal'
    BY <1>5 DEF StartChunk, ChunkReady
  <2> QED BY <2>1, <2>2, <2>3, <2>4, <2>5, <2>6, <2>7
<1>6. CASE EndChunk
  <2>1. CASE cmd.op = "write"
    <3>1. MediaTypeOK'
      <4>1. PICK ok \in Flag : cmd' = [cmd EXCEPT !.left = IF ok = 1 THEN cmd.left - 1 ELSE 0,
                                              !.put = IF cmd.op = "write" THEN ok ELSE 0]
        BY <1>6 DEF EndChunk
      <4>2. cmd.left \in 0 .. MaxChunks /\ cmd.left > 0
        BY <1>6 DEF EndChunk
      <4>3. (IF ok = 1 THEN cmd.left - 1 ELSE 0) \in 0 .. MaxChunks
        BY <4>2, ChunksAssumption
      <4>4. cmd' \in CommandType
        BY <4>1, <4>3, ChunkType
      <4>5. media' \in MediaType
        BY <1>6, <2>1 DEF EndChunk
      <4> QED BY <1>6, <4>4, <4>5 DEF EndChunk
    <3>2. OneAttempt'
      BY <1>6, <2>1 DEF EndChunk
    <3>3. FlagsAgree'
      BY <1>6, <2>1 DEF EndChunk
    <3>4. SdAgrees'
      BY <1>6, <2>1 DEF EndChunk
    <3>5. TaskExists'
      BY <1>6, <2>1 DEF EndChunk
    <3>6. ChunkUnderWay'
      BY <1>6, <2>1 DEF EndChunk
    <3>7. HoldCovers' /\ HoldIsReal'
      BY <1>6, <2>1 DEF EndChunk
    <3> QED BY <3>1, <3>2, <3>3, <3>4, <3>5, <3>6, <3>7
  <2>2. CASE cmd.op # "write"
    <3>1. MediaTypeOK'
      <4>1. PICK ok \in Flag : cmd' = [cmd EXCEPT !.left = IF ok = 1 THEN cmd.left - 1 ELSE 0,
                                              !.put = IF cmd.op = "write" THEN ok ELSE 0]
        BY <1>6 DEF EndChunk
      <4>2. cmd.left \in 0 .. MaxChunks /\ cmd.left > 0
        BY <1>6 DEF EndChunk
      <4>3. (IF ok = 1 THEN cmd.left - 1 ELSE 0) \in 0 .. MaxChunks
        BY <4>2, ChunksAssumption
      <4>4. cmd' \in CommandType
        BY <4>1, <4>3, ChunkType
      <4>5. media' \in MediaType
        BY <1>6, <2>2 DEF EndChunk
      <4> QED BY <1>6, <4>4, <4>5 DEF EndChunk
    <3>2. OneAttempt'
      BY <1>6, <2>2 DEF EndChunk
    <3>3. FlagsAgree'
      BY <1>6, <2>2 DEF EndChunk
    <3>4. SdAgrees'
      BY <1>6, <2>2 DEF EndChunk
    <3>5. TaskExists'
      BY <1>6, <2>2 DEF EndChunk
    <3>6. ChunkUnderWay'
      BY <1>6, <2>2 DEF EndChunk
    <3>7. HoldCovers' /\ HoldIsReal'
      BY <1>6, <2>2 DEF EndChunk
    <3> QED BY <3>1, <3>2, <3>3, <3>4, <3>5, <3>6, <3>7
  <2> QED BY <1>6, <2>1, <2>2 DEF EndChunk
<1>7. CASE SendStatus
  <2>1. MediaTypeOK'
    BY <1>7, ChunksAssumption DEF SendStatus, NoCommand
  <2>2. OneAttempt'
    BY <1>7 DEF SendStatus, NoCommand
  <2>3. FlagsAgree'
    BY <1>7 DEF SendStatus, NoCommand
  <2>4. SdAgrees'
    BY <1>7 DEF SendStatus, NoCommand
  <2>5. TaskExists'
    BY <1>7 DEF SendStatus, NoCommand
  <2>6. ChunkUnderWay'
    BY <1>7 DEF SendStatus, NoCommand
  <2>7. HoldCovers' /\ HoldIsReal'
    BY <1>7 DEF SendStatus, NoCommand
  <2> QED BY <2>1, <2>2, <2>3, <2>4, <2>5, <2>6, <2>7
<1> QED BY <1>1, <1>2, <1>3, <1>4, <1>5, <1>6, <1>7 DEF Scsi

(* So does every mount, unmount and reset of the USB session.              *)
LEMMA SessionInv == MediaInv /\ Session => MediaInv'
<1> SUFFICES ASSUME MediaInv, Session PROVE MediaInv'
  OBVIOUS
<1> USE DEF MediaInv, MediaTypeOK, MediaType, CommandType, OneAttempt, WithUsb, WithNote, WithTask, FlagsAgree, SdAgrees,
            TaskExists, ChunkUnderWay, HoldCovers, HoldIsReal, MediaState, MediaError, Attempting,
            SdState, Flag, MscReady
<1>1. CASE Mount
  <2>1. MediaTypeOK'
    BY <1>1, ChunksAssumption DEF Mount, EndHostSession
  <2>2. OneAttempt'
    BY <1>1 DEF Mount, EndHostSession
  <2>3. FlagsAgree'
    BY <1>1 DEF Mount, EndHostSession
  <2>4. SdAgrees'
    BY <1>1 DEF Mount, EndHostSession
  <2>5. TaskExists'
    BY <1>1 DEF Mount, EndHostSession
  <2>6. ChunkUnderWay'
    BY <1>1 DEF Mount, EndHostSession
  <2>7. HoldCovers' /\ HoldIsReal'
    BY <1>1 DEF Mount, EndHostSession
  <2> QED BY <2>1, <2>2, <2>3, <2>4, <2>5, <2>6, <2>7
<1>2. CASE Unmount
  <2>1. MediaTypeOK'
      <3>1. media' \in MediaType
        BY <1>2 DEF Unmount, EndHostSession
      <3>2. cmd' \in CommandType
        BY <1>2, ChunksAssumption DEF Unmount, NoCommand
      <3> QED BY <1>2, <3>1, <3>2 DEF Unmount
  <2>2. OneAttempt'
    BY <1>2 DEF Unmount, EndHostSession, NoCommand
  <2>3. FlagsAgree'
    BY <1>2 DEF Unmount, EndHostSession, NoCommand
  <2>4. SdAgrees'
    BY <1>2 DEF Unmount, EndHostSession, NoCommand
  <2>5. TaskExists'
    BY <1>2 DEF Unmount, EndHostSession, NoCommand
  <2>6. ChunkUnderWay'
    BY <1>2 DEF Unmount, EndHostSession, NoCommand
  <2>7. HoldCovers' /\ HoldIsReal'
    BY <1>2 DEF Unmount, EndHostSession, NoCommand
  <2> QED BY <2>1, <2>2, <2>3, <2>4, <2>5, <2>6, <2>7
<1>3. CASE BusReset
  <2>1. MediaTypeOK'
    BY <1>3, ChunksAssumption DEF BusReset, NoCommand
  <2>2. OneAttempt'
    BY <1>3 DEF BusReset, NoCommand
  <2>3. FlagsAgree'
    BY <1>3 DEF BusReset, NoCommand
  <2>4. SdAgrees'
    BY <1>3 DEF BusReset, NoCommand
  <2>5. TaskExists'
    BY <1>3 DEF BusReset, NoCommand
  <2>6. ChunkUnderWay'
    BY <1>3 DEF BusReset, NoCommand
  <2>7. HoldCovers' /\ HoldIsReal'
    BY <1>3 DEF BusReset, NoCommand
  <2> QED BY <2>1, <2>2, <2>3, <2>4, <2>5, <2>6, <2>7
<1>4. CASE BotReset
  <2>1. MediaTypeOK'
    BY <1>4, ChunksAssumption DEF BotReset, NoCommand
  <2>2. OneAttempt'
    BY <1>4 DEF BotReset, NoCommand
  <2>3. FlagsAgree'
    BY <1>4 DEF BotReset, NoCommand
  <2>4. SdAgrees'
    BY <1>4 DEF BotReset, NoCommand
  <2>5. TaskExists'
    BY <1>4 DEF BotReset, NoCommand
  <2>6. ChunkUnderWay'
    BY <1>4 DEF BotReset, NoCommand
  <2>7. HoldCovers' /\ HoldIsReal'
    BY <1>4 DEF BotReset, NoCommand
  <2> QED BY <2>1, <2>2, <2>3, <2>4, <2>5, <2>6, <2>7
<1>5. CASE BotResetDone
  <2>1. MediaTypeOK'
    BY <1>5, ChunksAssumption DEF BotResetDone, ControlTransferDone
  <2>2. OneAttempt'
    BY <1>5 DEF BotResetDone, ControlTransferDone
  <2>3. FlagsAgree'
    BY <1>5 DEF BotResetDone, ControlTransferDone
  <2>4. SdAgrees'
    BY <1>5 DEF BotResetDone, ControlTransferDone
  <2>5. TaskExists'
    BY <1>5 DEF BotResetDone, ControlTransferDone
  <2>6. ChunkUnderWay'
    BY <1>5 DEF BotResetDone, ControlTransferDone
  <2>7. HoldCovers' /\ HoldIsReal'
    BY <1>5 DEF BotResetDone, ControlTransferDone
  <2> QED BY <2>1, <2>2, <2>3, <2>4, <2>5, <2>6, <2>7
<1> QED BY <1>1, <1>2, <1>3, <1>4, <1>5 DEF Session

-----------------------------------------------------------------------------
(* The theorems about the specification.                                   *)

(* MediaInv is inductive: no interleaving of the USB task, the             *)
(* initialisation task and the host breaks the agreement of s_media, the   *)
(* SD host and the command under way.                                      *)
THEOREM MediaInvariant == MediaSpec => []MediaInv
<1>1. MediaInv /\ [MediaNext]_mediaVars => MediaInv'
  <2> SUFFICES ASSUME MediaInv, [MediaNext]_mediaVars PROVE MediaInv'
    OBVIOUS
  <2>1. CASE UNCHANGED mediaVars
    BY <2>1 DEF mediaVars, MediaInv, MediaTypeOK, OneAttempt, WithUsb, WithNote, WithTask,
       FlagsAgree, SdAgrees, TaskExists, ChunkUnderWay, HoldCovers, HoldIsReal, MscReady
  <2> QED BY <2>1, InitTaskInv, RequestInv, ScsiInv, SessionInv DEF MediaNext
<1> QED BY <1>1, InitInv, PTL DEF MediaSpec

(* s_media, the SD host, the tasks and the command keep their types.       *)
THEOREM MediaTypeCorrect == MediaSpec => []MediaTypeOK
<1>1. MediaInv => MediaTypeOK
  BY DEF MediaInv
<1> QED BY <1>1, MediaInvariant, PTL

(* At most one initialisation attempt is under way, and one is whenever    *)
(* s_media.state says so.                                                  *)
THEOREM SingleAttempt == MediaSpec => []OneAttempt
<1>1. MediaInv => OneAttempt
  BY DEF MediaInv
<1> QED BY <1>1, MediaInvariant, PTL

(* A READ(10) or WRITE(10) chunk reaches a card that is the host's and     *)
(* stays up until the SD driver returns.                                   *)
THEOREM HostIoSafe == MediaSpec => []HostIoOwnsCard
<1>1. MediaInv => HostIoOwnsCard
  <2> SUFFICES ASSUME MediaInv, usb = "io" PROVE HostIoOwnsCard
    BY DEF HostIoOwnsCard
  <2>1. media.state = "host" /\ media.card_ready = 1
    BY DEF MediaInv, ChunkUnderWay, MscReady
  <2>2. sd = "card"
    BY <2>1 DEF MediaInv, SdAgrees
  <2>3. worker.at = "waiting"
    BY <2>1 DEF MediaInv, MediaTypeOK, OneAttempt, WithTask, TaskExists
  <2> QED BY <2>2, <2>3 DEF MediaInv, ChunkUnderWay, HostIoOwnsCard
<1> QED BY <1>1, MediaInvariant, PTL

(* host_writing never outlives the write, or the reset, that explains it.  *)
THEOREM HoldIsExplained == MediaSpec => []HoldIsReal
<1>1. MediaInv => HoldIsReal
  BY DEF MediaInv
<1> QED BY <1>1, MediaInvariant, PTL

(* After a failed attempt the SD host is down and the error is named.      *)
THEOREM FaultLeavesNothing == MediaSpec => []FaultIsDown
<1>1. MediaInv => FaultIsDown
  BY DEF MediaInv, MediaTypeOK, MediaType, Flag, FlagsAgree, SdAgrees, FaultIsDown
<1> QED BY <1>1, MediaInvariant, PTL

(* No step changes g_sd, or withdraws the card, while card_ready is 1:     *)
(* WFG_MediaBusClockHzLocked() may read g_sd without a copy.               *)
THEOREM ReadyCardStays == MediaSpec => ReadyCardUntouched
<1>1. MediaInv /\ [MediaNext]_mediaVars
        => [media.card_ready = 1 => media.card_ready' = 1 /\ UNCHANGED sd]_mediaVars
  <2> SUFFICES ASSUME MediaInv, MediaNext, media.card_ready = 1
               PROVE  media.card_ready' = 1 /\ UNCHANGED sd
    BY DEF mediaVars
  <2>1. media.state \in {"host", "local"} /\ media \in MediaType
    BY DEF MediaInv, MediaTypeOK, FlagsAgree
  <2>2. usb # "boot" /\ worker.at \notin Attempting \cup {"entry"}
    BY <2>1 DEF MediaInv, ChunkUnderWay, OneAttempt, WithTask
  <2>3. ~Boot /\ (InitTask => TakeNotification)
    BY <2>2 DEF Boot, InitTask, EnterInitialize, HostInit, Detect, CardInit, CheckGeometry,
                DiskInit, PublishCard, Teardown, Latch, Attempting
  <2>4. CASE TakeNotification
    BY <2>4 DEF TakeNotification
  <2>5. CASE Commands
    BY <2>1, <2>5 DEF Commands, SetHost, RequestLocal, MediaType
  <2>6. CASE Request
    BY <2>1, <2>6 DEF Request, CheckAttempt, PrepareRetry, NotifyInitTask, ClearHostEject, MediaType
  <2>7. CASE Scsi
    BY <2>1, <2>7 DEF Scsi, Eject, PreventAllow, BeginCommand, RefuseChunk, StartChunk, EndChunk,
                      SendStatus, MediaType
  <2>8. CASE Session
    BY <2>1, <2>8 DEF Session, Mount, Unmount, BusReset, BotReset, BotResetDone, EndHostSession,
                      ControlTransferDone, MediaType
  <2> QED BY <2>3, <2>4, <2>5, <2>6, <2>7, <2>8 DEF MediaNext
<1> QED BY <1>1, MediaInvariant, PTL DEF MediaSpec, ReadyCardUntouched

-----------------------------------------------------------------------------
(* The media layer implements CardOwner.                                   *)

(* The mapped variables of CardOwner.                                      *)
OwnerOf(m) == IF m.card_ready = 0 THEN "none" ELSE IF m.state = "host" THEN "host" ELSE "board"

(* A step that keeps the owner and the lock and ends, starts or leaves     *)
(* alone a write is allowed by CardOwner; so is the end of a session.      *)
LEMMA SameOwner ==
  ASSUME OwnerOf(media') = OwnerOf(media),
         \/ /\ (media.host_prevents_removal = 1)' = (media.host_prevents_removal = 1)
            /\ \/ (cmd.put = 1)' = (cmd.put = 1)
               \/ cmd'.put # 1
               \/ cmd'.put = 1 /\ OwnerOf(media) = "host"
         \/ cmd'.put # 1 /\ media'.host_prevents_removal # 1
         \/ (cmd.put = 1)' = (cmd.put = 1)
  PROVE  [Owner!Next]_(Owner!ownerVars)
BY DEF OwnerOf, Owner!Next, Owner!ownerVars, Owner!Write, Owner!EndWrite, Owner!Lock, Owner!EndSession

(* The steps of the initialisation task and of boot.                       *)
LEMMA InitTaskOwner == MediaInv /\ (Boot \/ InitTask) => [Owner!Next]_(Owner!ownerVars)
<1> SUFFICES ASSUME MediaInv, Boot \/ InitTask PROVE [Owner!Next]_(Owner!ownerVars)
  OBVIOUS
<1>1. media \in MediaType /\ cmd' = cmd
  BY DEF MediaInv, MediaTypeOK, Boot, InitTask, TakeNotification, EnterInitialize, HostInit, Detect,
         CardInit, CheckGeometry, DiskInit, PublishCard, Teardown, Latch
<1>2. CASE TakeNotification \/ HostInit \/ Detect \/ CardInit \/ CheckGeometry \/ DiskInit \/ Teardown
  <2>1. media' = media
    BY <1>2 DEF TakeNotification, HostInit, Detect, CardInit, CheckGeometry, DiskInit, Teardown
  <2> QED BY <1>1, <2>1, SameOwner
<1>3. CASE Boot \/ EnterInitialize \/ Latch
  <2>1. OwnerOf(media) = "none"
    BY <1>1, <1>3 DEF MediaInv, FlagsAgree, OneAttempt, WithTask, ChunkUnderWay, Boot, EnterInitialize,
                Latch, Attempting, OwnerOf, MediaType, Flag
  <2>2. OwnerOf(media') = "none" /\ media'.host_prevents_removal = media.host_prevents_removal
    BY <1>1, <1>3, <2>1 DEF Boot, EnterInitialize, Latch, PrepareAttempt, LatchFault, OwnerOf, MediaType
  <2> QED BY <1>1, <2>1, <2>2, SameOwner
<1>4. CASE PublishCard
  <2>1. media.state = "initializing" /\ media.card_ready = 0
    BY <1>1, <1>4 DEF MediaInv, FlagsAgree, OneAttempt, WithTask, PublishCard, Attempting, MediaType, Flag
  <2>2. media'.state = "host" /\ media'.card_ready = 1
        /\ media'.host_prevents_removal = media.host_prevents_removal
    BY <1>1, <1>4 DEF PublishCard, MediaType
  <2> QED BY <1>1, <2>1, <2>2 DEF Owner!Next, Owner!Publish
<1> QED BY <1>2, <1>3, <1>4 DEF InitTask

(* MEDIA HOST and MEDIA LOCAL: host_writing, which covers a write that is  *)
(* part way (HoldCovers), keeps the board out.                             *)
LEMMA RequestOwner == MediaInv /\ (Commands \/ Request) => [Owner!Next]_(Owner!ownerVars)
<1> SUFFICES ASSUME MediaInv, Commands \/ Request PROVE [Owner!Next]_(Owner!ownerVars)
  OBVIOUS
<1>1. media \in MediaType /\ cmd' = cmd /\ FlagsAgree
  BY DEF MediaInv, MediaTypeOK, Commands, Request, SetHost, RequestLocal, CheckAttempt, PrepareRetry,
         NotifyInitTask, ClearHostEject
<1>2. CASE SetHost
  <2>1. CASE ~Published
    BY <1>1, <1>2, <2>1, SameOwner DEF SetHost
  <2>2. CASE Published /\ media.state = "host"
    <3>1. OwnerOf(media') = OwnerOf(media) /\ media'.host_prevents_removal = media.host_prevents_removal
      BY <1>1, <1>2, <2>2 DEF SetHost, Published, OwnerOf, MediaType
    <3> QED BY <1>1, <3>1, SameOwner
  <2>3. CASE Published /\ media.state = "local"
    <3>1. media.card_ready = 1 /\ media'.card_ready = 1 /\ media'.state = "host"
          /\ media'.host_prevents_removal = media.host_prevents_removal
      BY <1>1, <1>2, <2>3 DEF SetHost, Published, MediaType
    <3> QED BY <1>1, <2>3, <3>1 DEF Owner!Next, Owner!GiveToHost
  <2> QED BY <2>1, <2>2, <2>3 DEF Published
<1>3. CASE RequestLocal
  <2>1. media.state = "host" /\ media.card_ready = 1 /\ media.host_prevents_removal = 0 /\ cmd.put # 1
    BY <1>1, <1>3 DEF RequestLocal, HostHold, MediaInv, HoldCovers, MediaType, Flag
  <2>2. media'.state = "local" /\ media'.card_ready = 1
        /\ media'.host_prevents_removal = media.host_prevents_removal
    BY <1>1, <1>3 DEF RequestLocal, MediaType
  <2> QED BY <1>1, <2>1, <2>2 DEF Owner!Next, Owner!TakeForBoard
<1>4. CASE Request
  <2>1. media'.host_prevents_removal = media.host_prevents_removal /\ OwnerOf(media') = OwnerOf(media)
    BY <1>1, <1>4 DEF Request, CheckAttempt, PrepareRetry, NotifyInitTask, ClearHostEject, PrepareAttempt,
                      LatchFault, FlagsAgree, OwnerOf, MediaType, MediaState, Flag
  <2> QED BY <1>1, <2>1, SameOwner
<1> QED BY <1>2, <1>3, <1>4 DEF Commands

(* The host's commands and its session never move the card.                *)
LEMMA HostOwner == MediaInv /\ (Scsi \/ Session) => [Owner!Next]_(Owner!ownerVars)
<1> SUFFICES ASSUME MediaInv, Scsi \/ Session PROVE [Owner!Next]_(Owner!ownerVars)
  OBVIOUS
<1>1. media \in MediaType /\ cmd \in CommandType
  BY DEF MediaInv, MediaTypeOK
<1>2. OwnerOf(media') = OwnerOf(media)
  BY <1>1 DEF Scsi, Session, Eject, PreventAllow, BeginCommand, RefuseChunk, StartChunk, EndChunk,
     SendStatus, Mount, Unmount, BusReset, BotReset, BotResetDone, EndHostSession,
     ControlTransferDone, OwnerOf, MediaType
<1>3. CASE (\E prevent \in Flag : PreventAllow(prevent)) \/ Eject \/ StartChunk \/ BotResetDone
  <2>1. cmd' = cmd
    BY <1>3 DEF PreventAllow, Eject, StartChunk, BotResetDone
  <2> QED BY <1>2, <2>1, SameOwner
<1>4. CASE EndChunk
  <2>1. media'.host_prevents_removal = media.host_prevents_removal
    BY <1>1, <1>4 DEF EndChunk, MediaType
  <2>2. OwnerOf(media) = "host"
    BY <1>4 DEF EndChunk, MediaInv, ChunkUnderWay, MscReady, OwnerOf
  <2> QED BY <1>2, <2>1, <2>2, SameOwner
<1>5. CASE (\E op \in {"read", "write"}, n \in 1 .. MaxChunks : BeginCommand(op, n))
           \/ RefuseChunk \/ SendStatus \/ BusReset \/ BotReset
  <2>1. media'.host_prevents_removal = media.host_prevents_removal
    BY <1>1, <1>5 DEF BeginCommand, RefuseChunk, SendStatus, BusReset, BotReset, MediaType
  <2>2. cmd'.put # 1
    <3>1. CASE RefuseChunk
      BY <1>1, <3>1 DEF RefuseChunk, CommandType
    <3>2. CASE \E op \in {"read", "write"}, n \in 1 .. MaxChunks : BeginCommand(op, n)
      BY <3>2 DEF BeginCommand
    <3>3. CASE SendStatus \/ BusReset \/ BotReset
      BY <3>3 DEF SendStatus, BusReset, BotReset, NoCommand
    <3> QED BY <1>5, <3>1, <3>2, <3>3
  <2>3. (media.host_prevents_removal = 1)' = (media.host_prevents_removal = 1)
    BY <2>1
  <2> QED BY <1>2, <2>2, <2>3, SameOwner
<1>6. CASE Mount \/ Unmount
  <2>1. media'.host_prevents_removal = 0
    BY <1>1, <1>6 DEF Mount, Unmount, EndHostSession, MediaType
  <2>2. cmd'.put # 1
    BY <1>1, <1>6 DEF Mount, Unmount, NoCommand, MediaInv, HoldCovers
  <2>3. media'.host_prevents_removal # 1
    BY <2>1
  <2> QED BY <1>2, <2>2, <2>3, SameOwner
<1> QED BY <1>3, <1>4, <1>5, <1>6 DEF Scsi, Session

(* Every behaviour of the media layer is one of CardOwner: one owner at a  *)
(* time, never withdrawn, and the board takes the card only from a host    *)
(* that has no write part way and does not prevent removal.                *)
THEOREM ImplementsCardOwner == MediaSpec => OwnerSpec
<1>1. MediaInit => Owner!Init
  BY DEF MediaInit, Owner!Init, NoCommand
<1>2. MediaInv /\ [MediaNext]_mediaVars => [Owner!Next]_(Owner!ownerVars)
  <2> SUFFICES ASSUME MediaInv, [MediaNext]_mediaVars PROVE [Owner!Next]_(Owner!ownerVars)
    OBVIOUS
  <2>1. CASE UNCHANGED mediaVars
    BY <2>1 DEF mediaVars, Owner!ownerVars
  <2> QED BY <2>1, InitTaskOwner, RequestOwner, HostOwner DEF MediaNext
<1> QED BY <1>1, <1>2, MediaInvariant, PTL DEF MediaSpec, OwnerSpec, Owner!Spec

(* One attempt, carried by one party, that leaves nothing up when it fails.*)
THEOREM AttemptStaysWhole == MediaSpec => []AttemptIsWhole
<1>1. MediaTypeOK /\ OneAttempt /\ FaultIsDown => AttemptIsWhole
  BY DEF AttemptIsWhole
<1> QED BY <1>1, MediaTypeCorrect, SingleAttempt, FaultLeavesNothing, PTL

(* The host's chunk owns the card, and its hold has an end.                *)
THEOREM HostIoStaysHeld == MediaSpec => []HostIoHeld
<1>1. HostIoOwnsCard /\ HoldIsReal => HostIoHeld
  BY DEF HostIoHeld
<1> QED BY <1>1, HostIoSafe, HoldIsExplained, PTL

(* CardOwner is implemented, and g_sd rests while the card is up.          *)
THEOREM CardStaysKept == MediaSpec => CardKept
BY ImplementsCardOwner, ReadyCardStays DEF CardKept
=============================================================================
