# A TLA+ model of waveform-generator

The repository builds a firmware for i.MX RT1170 boards that plays waveforms
from a microSD card, renders and accepts new ones, and streams them to a PC,
together with the signal processing it renders them with and PC tools. This
project models the parts of the firmware whose correctness depends on order:
who owns the card, how a waveform is rendered or uploaded to it and published,
how one is played while it is still being rendered, how files and playlists are
played, how the PC's session with the device is multiplexed over one USB
endpoint, and how the USB audio stream keeps its books. TLC checks the models
on small instances; TLAPS proves the results listed under "Proofs" for every
value of the constants.

Paths below are relative to the repository root.

## The system

### Parts, their state and their operations

| Part | State | Operations |
| --- | --- | --- |
| Finite playback scheduler, `common/finite_playback.*` | five cursors (produced, written, committed, read, consumed), a pending ticket, a first error | `configure`, `begin_*`, `next_action`, `complete`, `start`, `consume`, `fail`, `cancel`, `release` |
| Preparation job, `rt1170/prepare_job.*` | a work state and phase, open files, a mounted card, render cursors, a writer; five names on the card | `begin`, `begin_managed`, `step`, `cancel`, and the managed `produce`, `append`, `finish`, `commit`, `read` |
| Prepared playback, `rt1170/prepared_playback.*` | the ticket it is serving, setup and stop progress, a first error | `begin`, `step`, `start`, `consume`, `fail`, `cancel` |
| Player task, `rt1170/player.cpp` | command and reply mailboxes, the claim on the card, the output FIFO, the run state, the playlist | the task loop, one handler per command, `service_preparation`, `service_preparation_playback`, `run_player`, `run_playlist` |
| USB control service, `rt1170/usb_service.cpp` | one outstanding command, a reply queue, the protocol of the connection | `handle_control_line`, `service_control` |
| Media layer, `rt1170/platform/waveform_msc.c` | `s_media`: state, readiness, eject latch, the host's hold; the SD host | initialisation task, MEDIA HOST, MEDIA LOCAL, SCSI callbacks, session callbacks |
| Artifact owner, `rt1170/tx_artifact.cpp` | mode, selected name, an upload or a generation in progress, its files; a request and a reply slot | begin, data, generate, abort, publish, disconnect |
| Upload service, `rt1170/tx_usb.cpp` | an output buffer, partial and pending commands, the job it must report | frame in, pump, reply, report |
| DD-008 session, `common/dd008/` | channels, sequence numbers and handshake of each side | frame in, frame out, ERROR, RESET, disconnect |
| Playlist, `common/playlist.hpp` | items, progress, gaps, a ring of result blocks | parse, advance, record, acknowledge |
| USB audio, `rt1170/usb_audio.*` | chunk records, play statistics, the scheduled start, the missed intervals | open, close, queue, fill, arm, confirm |
| Service watchdog, `rt1170/usb/usb_tinyusb_port.c` | a one-shot timer | restart, sample |
| EP0 event order, `rt1170/usb_ep0_order.*` | held SETUP packets | hold, completion, release |
| Prepared stream and PCM24 writer | bytes and extents of the WAV being written | `begin`, `append`, `commit`, `finish`, `read` |
| Cut schedule, `common/cut_schedule.hpp`; live protocol; attenuation | pure | compute, parse |
| Signal lab, channel simulator, encoders, host tools | numeric state | pure or sequential |

### How they interact

Three FreeRTOS tasks, an interrupt and one audio consumer matter. The **USB
task** (priority 3) runs TinyUSB's callbacks, parses control lines and
multiplexed frames; it hands a line or an upload request to the **player task**
(priority 4) through one-place mailboxes and a task notification and waits for
the reply. The player task owns FatFs while the card is local; it steps the
preparation job, serves uploads, plays files, and during prepared playback also
the scheduler and the FIFO. The **initialisation task** (priority 1) brings the
card up. The **audio consumer** (codec DMA, or the USB isochronous endpoint and
its interrupt) takes frames from the FIFO at its own rate. State is shared
through words guarded by short critical sections, so two decisions of one task
may have another task's step between them.

The card is claimed by four users: the USB host (`waveform_msc`), a preparation,
an upload, and a PLAY, PLAYLIST or FILES? run. Each claim is a word read in one
critical section and acted upon in another.

### What is hard

- check-then-act pairs of two tasks over the card's ownership;
- a preparation job of some thirty steps, each of which can fail, be cancelled
  or be cut by a power failure, and that must never publish a manifest for a
  waveform that is not whole; and an upload with the same promise;
- failures that themselves fail: a cleanup that cannot close a file;
- two sets of cursors, the scheduler's and the job's, that must move together;
- playback that starts before rendering has ended and must neither overtake
  durable storage nor wait for a frame nobody will play;
- a host that abandons a write, resets its interface, closes its port or is
  unplugged between any two chunks, frames or packets;
- bytes of an old connection or session that arrive after it has ended;
- items scheduled on a stream that the host may stop, close and open again;
- completions read late, by an interrupt that sees only the last of them.

`PROJECT.json` lists these as hazards, each at its line with the properties
that would catch it.

## Modules

| Module | Models | Builds on |
| --- | --- | --- |
| `FinitePlayback` | `Scheduler` | |
| `FinitePlayback_proofs` | theorems about it | `FinitePlayback` |
| `PrepareJob` | `PrepareJob`, the card's names, power failures | |
| `PrepareJob_proofs` | theorems about it, and lemmas about each method of a job | `PrepareJob` |
| `PrepareService` | the USB task, the player task and the card around one `PrepareJob` | extends `PrepareJob` |
| `PreparedPlayback` | `PreparedPlayback` as operators on (job, scheduler, playback) | extends `PrepareJob`, instantiates `FinitePlayback` with its theorems |
| `PreparedOutput` | the player's pass, the FIFO, the audio consumer, STOP | extends `PreparedPlayback` |
| `PrepareOwners_proofs` | theorems about the two owners of a job, `PrepareService` and `PreparedOutput` | both, and `PrepareJob_proofs` |
| `CardOwner` | what the media layer promises (abstract) | |
| `MediaOwnership` | the media layer, its two tasks, the USB host | instantiates `CardOwner` |
| `MediaOwnership_proofs` | theorems about it, refinement included | `MediaOwnership` |
| `TxArtifact` | the artifact owner, its mailbox, the generator's files, MEDIA HOST beside it | |
| `TxArtifact_proofs` | theorems about it | `TxArtifact` |
| `CdcMux` | both ends of the DD-008 session, the upload service, the protocol of a connection | |
| `CdcMux_proofs` | theorems about it | `CdcMux` |
| `Playlist` | PLAY, PLAYLIST, FILES?, STOP on the player task, the capture stream as they see it | |
| `Playlist_proofs` | theorems about it | `Playlist` |
| `UacStream` | the USB audio stream, its endpoint, the interrupt and the watchdog | |
| `UacStream_proofs` | theorems about it, and induction for its two loops | `UacStream` |
| `MC*` | the instances TLC checks | |

Operators and actions keep the names of the functions they model, in TLA+
case (`begin_visibility_barrier` is `BeginVisibilityBarrier`); `PROJECT.json`
maps each to its lines. Some definitions are preceded by one marked "A faulty
form": it is the same definition with a plausible mistake, and each property
is known to fail when its faulty form takes the definition's place.

Properties that speak of the same thing are joined in one named definition, each
part with a name and a comment of its own beside it.

### FinitePlayback

One record `sched` holds the members of `Scheduler`. A method is an operator
from the record to the record after it (`ConfigureOp`, `CompleteOp`, ...) and,
where the answer matters, its status. `Next` lets the owner call any method
with any argument at any time, stale and dishonest completions included:
`Scheduler` checks its caller, and the properties say that these checks are
enough. 64-bit ticket numbers are bounded by `MaxToken`, which stands for the
largest `uint64_t`: `begin` refuses there. `PlaybackRate` is the code's 48000
frames a second, and a configuration's `rate` is the measured production rate.

### PrepareJob

One record holds the job and the five names it may touch. `Step(out)` is one
call of `step()`: it dispatches on `work`, and `out` is the outcome of the one
file-system or engine call that work state makes: it succeeds, fails, reports
success with an operation that was not done in full, or leaves corrupt data
that only read-back shows. A file is abstracted to what can be told apart from
outside: absent, someone else's, partial, finished but not flushed, sealed,
corrupt. Hash, render and verify loops take `Chunks` or `Block`-sized steps.
`PowerFailure` may lose what was not flushed, and restarts the job object.

### PrepareService

Each critical section of the two tasks is one action. The claim
(`file_system_owned` with `preparation_busy`) and the check that the card is
local are separate actions, and so are `player_allows_media_host()` and the
handover; the mailbox, the reply and the notification are separate variables.
The player's loop is split where it can be preempted. The host may edit a card
it owns.

### PreparedPlayback and PreparedOutput

`PreparedPlayback` translates the coordinator's methods: one `step` in its
four regimes (set-up, scheduling, carrying out a ticket, stopping).
`PreparedOutput` is the driver around it: a pass of
`service_preparation_playback()` is split in two actions, the observation of
the FIFO (`Observe`) and the rest (`FinishPass`), because the audio consumer
runs between them. The consumer takes a block, or plays silence, or faults on
an underrun. Several runs follow each other on the same objects, because stale
members of one run are read in the next.

A pass reads how far the output has played twice. If the last frame left the
FIFO after the first read and the drain also ended before the second, the run
would wait for frames that have already been played. The code relies on
the drain being several codec blocks (8 ms) long and the two reads being
adjacent statements of a priority-4 task; the model states that as the
assumption `MaxGap * OutputBlock < DrainFrames`: at most `MaxGap` audio blocks
pass between the two reads. Without it `PlaybackSettles` fails.

### MediaOwnership and CardOwner

`CardOwner` states the promise of `waveform_msc.h`: one owner; the host is
first; a published card is never withdrawn; the board takes it only while no
host write is part way and the host does not prevent removal. In
`MediaOwnership` the USB task, the initialisation task and the host interleave
at every critical section. A SCSI data command is a number of chunks; between
two chunks the host may send MEDIA lines on the control interface, reset the
bus or the interface, or disappear. `cmd.put` records that a write really has
blocks on the card. It is the refinement's `partial`, so that the refinement
shows the code's own flag, `host_writing`, to be sufficient.

TinyUSB's side (a bus reset drops the command with no callback; a Bulk-Only
reset is reported only by its status stage) is modelled from how
`usb_audio_tinyusb.c` describes and uses it.

### TxArtifact

`tx` holds the owner's members and its published snapshot, `card` the files by
stem: the payload in chunks, the WAV and manifest and the temporary names they
are written under. `service_tx_artifact()` is split where it leaves a critical
section: taking a request, serving it, posting the reply, generating one block,
the cleanup after a failure or a disconnect. Serving a request takes an
outcome: which file operation fails first, if any, and which handles then do
not close. `publish_artifact()` renames two files in order, and a power failure
may come between. The USB task submits, retries a refused submission, takes a
reply, drops the connection, and gives the card to the host in two steps, the
check and the handover. A reply carries (for the properties only) whether its
connection still lives.

A generation runs with an encoder and a profile. A WFG-LIVE/1 ENCODE line gives
both and no mode (rate 0); GENERATE gives a mode and TX FILE takes the one that
is selected, both with the default encoder, and `start_generation()` fills the
profile in from the mode. `tx.rate`, `tx.encoder` and `tx.profile` are the
three members the code keeps between requests, `tx.used` what the writer was
begun with. The history variable `chosen` follows the requests instead: RESET
chooses the default mode, MODE a mode, SELECT the mode again without explicit
settings, a GENERATE, TX FILE or ENCODE that is not refused what it came with.
One consequence of the code is visible here and contradicted by no document:
after an ENCODE line the mode stays 0 until the next RESET, MODE or GENERATE,
so that DATA RATE:? answers BAD_MODE and an upload made in between is begun
with the profile `0:short`; whether the encoder takes that is its own affair,
so the model lets it succeed or fail.

### CdcMux

Both ends of `cdc_mux_session.cpp` and the queues between: the host's frames in
`up`, the device's bounded output in `down`. A frame arrives whole, or damaged,
and then the session answers ERROR, or nothing when the decoder's fault has no
code. The host is `CdcMuxHostSession`, which always sends version 1 and the full
payload size, so the device's refusal of another HELLO is left out. Closing the
port and the device noticing it are separate steps (`NoticeClosed` reads what
`HostCloses` did at a poll), so a port may close and open unseen; what was in
the FIFO stays. `tx_usb` takes whole frames (one may hold several commands or
part of one), runs one command at a time through the artifact owner's mailbox,
blocks input when a command or the output buffer waits, and reports the end of a
job whose start was acknowledged. The owner is reduced to its mailbox and its
job; `TxArtifact` has the rest.

A frame names its handshake (`ep`), the data frame of it that comes next (`k`),
the channels the host had open (`opens`), and whether the handshake began with
no HELLO or HELLO_ACK of an earlier one under way (`clean`), as after the drain
in `host/dd008.py` when nothing else comes late; the device has the handshake
whose HELLO it accepted last (`d.sess`). No step reads these but to copy them;
`conn` only names the connection a partial line began in.

The real frames carry no session number, so `DeliveredInOrder` has two parts:
data of a `clean` session is taken in that session only, and of the data taken
in its own session nothing is lost, repeated or moved. Of a session that is not
clean no more can be said: a host sends two HELLOs before the first answer,
which takes it into a session in which it opens two channels, and a third HELLO
that arrives damaged. The late answer to the second HELLO takes it into its
third session while the device has taken the two frames of the second; the open
and the first data frame of the new session are damaged, and its second data
frame has the number the device waits for.

### Playlist

The player task's program counter runs through a run: waiting for room in the
result ring, waiting for the item's gap, mounting the card, loading the file,
producing it, waiting for what is queued to be played, cleaning up, and waiting
for the gap after the last item. Between two steps the USB
task may hand over a command or a MEDIA line, the capture stream may close or
open, and a millisecond may pass with or without a packet. Where the player
task does not wait it cannot be preempted by the lower-priority USB task, so
one action covers the code between two waits. The stream index wraps; since
the code only uses differences of indices, it is counted from just before the
wrap at the start of an item. Clocks stop at `Patience`, beyond which no
guard tells them apart. A command that arrives while a list's files are checked
or an item's source is measured waits in the mailbox (`mail`): STOP ends the
work, another one is refused or, after a refused list, served next.

### UacStream

Time is counted in half frames. In each frame the host polls the endpoint or
leaves it out; the interrupt of a packet runs in the same half or any number of
halves later, samples the watchdog first, and finds the next packet already
loaded, as TinyUSB does. `stream`, `tracker` and `play` hold what the code
keeps: records, `IntervalTracker`, `PlayStatistics`. `truth` counts what really
happened on the bus (frames the host left out, frames the device had nothing
loaded for), which the code can only infer; the properties compare the two.
The watchdog's timer is a countdown of two reloads. Frame numbers alias modulo
`Modulus`, as they do in the controller's register.

## Runs

| Run | Instance | Distinct states | What it shows |
| --- | --- | --- | --- |
| `scheduler` | three configurations, one refused; 24 tickets | 95 k | `SoundRun` (types, watermarks, whole completions), `HonestCompletionAccepted`, `PolicyNeverStuck`, `LeadCovers`, `RunsApart` (first error kept, no cursor moves after a stop, tickets unique) |
| `prepare_job` | two blocks with a second source, a slipping scenario, a refused request | 165 k | `CardIsWhole` (a manifest implies a whole, flushed WAV at every instant; only free names are written), `EndIsTrue` (an ended job holds nothing, its phase is true), `CursorsKept`, `FirstFailureKept`, `Rests` |
| `prepare_service` | one block | 443 k | `TasksAgree` (one card user, a claim never stale), `CommandAnswered`, `ClaimSettles` |
| `cleanup_waits_for_stop` | the same | stops early | expected violation, below |
| `prepared_playback` | a run of two blocks, one that fills the queue, a refused one, several in a row | 227 k | `InStep` (the scheduler's cursors are the job's), `ReleasedIsQuiet`, `EndsTrue` (done means played and published; STOP retries a cleanup), `PlaybackSettles` |
| `media_ownership` | commands of up to 3 chunks | 3.5 k | `AttemptIsWhole` (one initialisation at a time), `HostIoHeld` (no chunk reaches a card that is not the host's; the write hold is neither lost nor stuck), `CardKept`, which includes the refinement of `CardOwner`, `AttemptSettles` |
| `artifact_upload` | one stem, one mode, an ENCODE line with its own encoder and profile, two chunks, two blocks | 530 k | `ManifestMeansWhole`, `UploadOwnsCard`, `ReplyIsCurrent`, `ModeIsCurrent` (a generation runs with the settings chosen last), `RequestAnswered` |
| `mux_session` | 2 handshakes and 3 frames, 2 connections, a damaged frame, a job | 736 k | `NeverFails`, `DeliveredInOrder`, `HeardInOrder`, `Unblocks`, `JobEndReported` |
| `connection_selects_protocol` | as `mux_session`, no damage, two frames in the FIFO | stops early | expected violation, below |
| `playlist` | USB, USB and codec items, a ring of two, two openings, one fault | 284 k | `ResultsKept`, `CardStays`, `GapKept`, `StopIsLast`, `Settles` |
| `never_before_its_index` | two USB items, a ring of one | stops early | expected violation, below |
| `usb_stream` | two chunks of file, three outstanding, a wrap at seven | 1.8 M | `InStep` (the records are what the FIFO holds), `PlayIsTrue`, `MissesCounted`, `BlameIsFair` |

### Findings

Three runs state what the repository's documents say and TLC finds that the
code does something else.

- `cleanup_waits_for_stop`: `docs/live-control-protocol.md` (lines 102-104) and
  a comment in `service_preparation()` say that a failed cleanup keeps the card
  until STOP retries it. The player's loop calls `step()` on every pass while
  the preparation is busy, and a `cleanup_failed` job's step runs the cleanup
  again. The loop does sleep without a timeout in that state, but any command
  or upload that notifies the player wakes it, so a STATUS-like query can
  release the card. Prepared playback has its own guard and keeps to the rule
  (a part of `EndsTrue`).
- `connection_selects_protocol`: `docs/modules/protocols-media-and-artifacts.md`
  (line 321) says that a new connection selects one protocol, and
  `docs/live-control-protocol.md` (line 40) that closing and reopening the port
  switches. The bytes a closed connection left in the device's FIFO are read
  with no protocol bound; a data frame among them begins a text line, and the
  HELLO of the next connection, which has no newline, is appended to it and
  never answered until the port is closed again.
- `never_before_its_index`: `docs/live-control-protocol.md` (lines 997-1006)
  says that a USB item after a USB item starts exactly at the index its gap
  ends at, unless it is not ready by then. `plan_start()` decides on the tick
  clock alone. If the result ring was full meanwhile and the host had stopped
  polling the stream without closing it, ticks pass while the index stands
  still, and the item is armed without its start: when the host polls again it
  begins at the next packet, before its index.

### Bounds, and why they are enough

- *Scheduler.* `total = 5`, `block = 2`, `queue = 3` gives full and short
  blocks, a full queue with frames left to read, and a lead strictly between 0
  and the total; the second configuration has a queue longer than the run.
  `MaxToken = 24` allows two complete runs and reaches the refusal at the
  limit.
- *Job.* `Block = 2` with 3 frames has one full and one short block;
  `Chunks = 1` has a first, a last and an end-of-file step in every loop.
- *Service.* The interleavings concern claims and mailboxes, not frames: one
  block is enough to have a job in every phase.
- *Playback.* `RingCapacity` is the least the assumption allows; a run of 3
  frames is longer than the queue of 2, so that produced, durable and queued
  frames all differ. `StartTokens` are the ticket numbers a run may begin at:
  ticket numbers only grow and are compared for equality, so a run starting
  at a later number behaves as the one starting at the next of the listed
  numbers, and the last shows the end of the ticket space. Outcomes that only
  concern set-up steps already checked in `prepare_job` are left out.
- *Media.* Three chunks are a first, a middle and a last one. Attempts,
  retries, sessions and commands are unbounded.
- *Upload.* One name that is payload and output, since clashes only concern
  one stem; two chunks and two blocks have a first and a last; the card comes
  empty, or with a payload over the limit and someone else's WAV. A
  generation's settings are those of one mode or of an ENCODE line, which has
  rate 0 and an encoder and a profile of its own: every way in which an
  earlier setting could stay behind shows between these, and that it holds for
  any modes is proved. Requests, disconnects, failures and power failures are
  unbounded.
- *Session.* Output buffer and FIFO of one frame fill at once. Two handshakes
  and two connections let every kind of old frame meet a new session or a new
  connection; three frames carry several commands, one of them split. One
  damaged frame is enough for an ERROR to race each of the others. A third
  handshake, at which an acknowledgement may be late by two sessions, is beyond
  the run: that `DeliveredInOrder` holds at every bound is proved.
- *Playlist.* USB after USB has a scheduled start, codec after USB a gap in
  ticks, and a ring of two holds less than three items. Two openings allow the
  stream to be reopened at any point of a gap or a run. `Patience` is longer
  than each gap with its slack, and half the wrap is longer than `Patience`;
  the first index is two before the wrap.
- *USB stream.* Two file chunks are a first and a last, with silence before and
  after; three outstanding chunks are one more than the target. The index
  wraps after seven, more than twice the records. Frame numbers alias at three,
  so that an interrupt held off for long sees too small a difference. Openings,
  plays, lost frames and mismatched completions share a budget of four, in any
  mixture. The host polls in the second half of a frame (`PollHalf = 1`),
  because only then can a completion be read one frame late.

### Fairness

- `prepare_job`: `step()` is called again while the job is busy (the player's
  1 ms wait). Cancelling and user requests are not fair.
- `prepare_service`: the player task and the USB task keep running, and the
  USB task takes a reply that is there. Nobody is obliged to send a command.
- `prepared_playback`: the codec's clock does not stop; the player passes
  unless its cleanup failed, when the code sleeps until notified. STOP and
  faults are not fair.
- `media_ownership`: the initialisation task and a MEDIA HOST request that was
  begun go on (the SD driver's calls time out). Nothing is assumed of the
  host: its holds may last for ever, so that no property says they end;
  `HostIoHeld` says instead that a hold is never left over.
- `artifact_upload`: the player task serves, sleeps and wakes; the USB task
  polls: it submits again what was refused and takes a reply. No request,
  disconnect or failure is owed.
- `mux_session`: the USB task polls, the artifact owner runs and its job ends
  in some way, and a host with an open port reads it. The host owes no frame.
- `playlist`: the player task runs, it serves a STOP that waits, the codec's
  clock runs, and milliseconds pass. The host owes no packet: a list that waits
  for a host that has stopped polling must end by the code's own stall clock.
- `usb_stream` states no liveness: whether a stream ends is the playlist's
  question.

## Proofs

Every module of theorems proves an inductive invariant first (it holds
initially; every action keeps it), then its results as consequences. Each
invariant was checked by TLC on the module's run before it was proved.
The only assumptions are the `ASSUME`s of the modules, which say what kind of
value a constant is, and what is named below.

| Module | Inductive invariant | Properties of runs it proves |
| --- | --- | --- |
| `FinitePlayback_proofs` | `IInv` | `SoundRun`, `HonestCompletionAccepted`, `PolicyNeverStuck`, `LeadCovers`, `RunsApart` |
| `PrepareJob_proofs` | `JobInv` | `CursorsKept`, `CardIsWhole`, `EndIsTrue`, `FirstFailureKept` |
| `PrepareOwners_proofs` | `ServiceInv`, `OutputInv` | `TasksAgree`, `InStep`, `ReleasedIsQuiet`, `EndsTrue` |
| `MediaOwnership_proofs` | `MediaInv` | `AttemptIsWhole`, `HostIoHeld`, `CardKept` |
| `TxArtifact_proofs` | `UploadInv` | `ManifestMeansWhole`, `UploadOwnsCard`, `ReplyIsCurrent`, `ModeIsCurrent` |
| `CdcMux_proofs` | `MuxInv`, `OrderInv` | `NeverFails`, `DeliveredInOrder` |
| `Playlist_proofs` | `PlaylistInv`, `GapInv` | `ResultsKept`, `CardStays`, `StopIsLast`, `GapKept` |
| `UacStream_proofs` | `UacInv`, `MissInv`, `BlameInv` | `InStep`, `PlayIsTrue`, `MissesCounted`, `BlameIsFair` |

### FinitePlayback

For every set of configurations, every rate and every ticket limit (from
`MaxToken`, `PlaybackRate` positive and configurations of the right type):

- `SchedulerInvariant`: `Spec => []IInv`. `IInv` is the types, the order of the
  cursors with the two buffers between them (`Ordered`), what the pending
  ticket was granted (`PendingFits`), and the flags (`Flags`). The cursor order
  alone is not inductive: `complete` advances a cursor by a count granted
  earlier, so the invariant must remember that the grant still fits, although
  `consume` and other calls happened in between. The proof has one lemma per
  method, on the record, and one step per action.
- `TypeCorrect`, `WatermarksOrdered`, `CompletionWhole` and `RunSound`, which
  joins them, and `HonestCompletion`: consequences of `IInv`.
- `LeadIsEnough`: the lead that `required_lead()` computes with integer
  division suffices: playback never overtakes a producer that keeps its rate,
  at any frame. It rests on two arithmetic lemmas.
- `PolicyProgresses`: `next_action()` never wedges an open run. By cases on the
  state and on `next_action()`'s branches; each delegated plan is shown to be
  granted, and where nothing is issued the queue is full enough to start or not
  empty.
- `RunStaysApart`: the action properties (first error, last cursors, tickets).
  A relation `RunKept` between the records before and after a call has one
  lemma per method; all but `configure()` and `begin_*()` follow from one lemma
  on calls that leave the numbers alone (`QuietCallKept`). The invariant is
  needed: `complete()` moves a cursor only of a run that is open, because the
  flags leave no other state with a pending ticket and no error.

### PrepareJob and PrepareService

For every set of requests, every block size and every file length:

- `JobInvariant`. `JobInv` says, for each group of work states, which names on
  the card the job has found free and which files it has made and how far
  (`JobFiles`), how its cursors stand (`JobCursors`), that it has not begun to
  end before its cleanup (`JobEnds`), and what a power failure cannot take away
  (`JobSound`). That a manifest implies a whole WAV is not inductive by itself:
  the step that renames the manifest does not look at the WAV, so the invariant
  must know, from the read-back onwards, what earlier steps proved about the
  temporary file, and that no name was taken when it was checked.
- One lemma for each work state of `step()` and each managed call, stated of a
  record `j` and not of the variable. `TheCardIsWhole` and `TheEndIsTrue`
  follow from the invariant; `CursorsAreKept` and `TheFirstFailure` are action
  properties that need a relation between a job and the job after a call,
  proved along the same cases.
- `ServiceInvariant` cites those lemmas for the job, and adds where a command
  in flight is (`MailFits`) and that a busy job has the claim and the local
  card (`ClaimFits`). Between the claim and the check behind it the claim is up
  and the job is not busy: the point `claimed` is the exception, and
  `ClaimFits` says what holds there. `TheTasksAgree` follows.

### PreparedPlayback and PreparedOutput

For every set of requests, transport, ring, codec block, drain and set of
outcomes. What is assumed of them: the rate, `MaxToken` and the blocks are
positive, a preparation block fits in the start level, the ring holds the start
level and two blocks more, the drain is longer than what can be played between
two statements of a pass (`DrainAssumption`, above), and the transport's total
is 0 until the request's is known.

- `OutputInvariant`: `OutputSpec => []OutputInv`. It has two halves.
  `PlaybackInv` is the coordinator's: the job's and the scheduler's own
  invariants (`PartsFit`); the ticket held is the one the scheduler waits for
  (`CoreFits`); a playback stops exactly when it has a cause, and its scheduler
  has one exactly then (`CauseFits`); while it goes on, the two count the same
  frames, or the job finishes under the last ticket (`GoingFits`).
  `OutputFits` is the output's: the FIFO's cursors are the scheduler's until
  the run stops, and nothing has touched the output before `start()`
  (`FlowFits`).
- That the cursors agree (`CursorsAgree`) is not inductive by itself: a
  ticket is settled passes after it was issued, the last one after some thirty
  steps of the job, and it is settled with the count granted then. So the
  invariant says which ticket is held and in which work states. That a run
  reported as done was played whole needs `FlowFits`: the drain tells the end
  only because it cannot begin before the output has.
- The proof has one lemma per method of the coordinator. `step()` is divided as
  the code divides it: the set-up, each action, the waiting finalize, the stop.
  Every lemma rests on the theorems about the job (`PrepareJob_proofs`) and
  about the scheduler's calls (`FinitePlayback_proofs`, instantiated), not on
  their definitions. A pass is then a chain of stages, and each stage has one
  lemma. `consume()` is called once per chunk observed, a recursive function
  here: that it exists, and that every call in it succeeds, is by induction
  over sets of natural numbers.
- `StaysInStep`, `ReleasedStaysQuiet` and `EndsAreTrue` state the run's
  properties. The last is an action property: for each action the step lemma
  gives the invariant after it and what may have become of the run's result.
- TLC checked `OutputInv` on the instance of `prepared_playback` before it was
  proved.

### MediaOwnership

For commands of any number of chunks:

- `MediaInvariant`: `MediaSpec => []MediaInv`. To the run's invariants it adds
  that `s_media`'s readiness flags follow its state, that the SD host is where
  the attempt's step says, that the initialisation task exists once it is
  needed, and that `host_writing` covers a write with blocks on the card.
  `OneAttempt` is what makes it inductive: it rules out an initialisation task
  at work while the card is published.
- `MediaTypeCorrect`, `SingleAttempt`, `FaultLeavesNothing`, joined in
  `AttemptStaysWhole`; `HostIoSafe` and `HoldIsExplained`, joined in
  `HostIoStaysHeld`; and the action property `ReadyCardStays`.
- `ImplementsCardOwner`: `MediaSpec => CardOwner's Spec` under the mapping
  above, by cases on the actions; with `ReadyCardStays` it is `CardStaysKept`.

### TxArtifact

For all sets of names, modes, encoders and profiles, upload limits and numbers
of blocks (at least one name, and the cards found hold no manifest without its
WAV, `FoundAssumption`):

- `UploadInvariant`. What an operation of the owner keeps of the owner and the
  files is `OwnerFits`: the handles and the volume of each state, the payload
  as long as what was received, free names around a file being written, whole
  manifests. `MailFits` says that what is in the mailbox, in service or in the
  reply slot is of the connection that waits, unless its disconnect is still
  to be seen; `GrantFits` that a card about to be handed over has no user and
  cannot get one, because nothing is in the mailbox when MEDIA HOST is
  admitted.
- The lemmas follow the owner's functions, with every outcome and every handle
  that does not close. `ManifestsAreWhole`, `UploadHasCard` and
  `RepliesAreCurrent` follow.
- `ModesAreCurrent` rests on `SettingsFit`: the owner's mode, encoder and
  profile are the chosen ones, but for a profile that a generation filled in
  from the chosen mode. Each lemma about a request says which choice its
  result fits, so that a RESET, MODE, SELECT or GENERATE that left a member
  behind could not be proved.

### CdcMux

For any frames, handshakes, connections, damaged frames and buffer lengths:

- `MuxInvariant`: the session's flags and `tx_usb`'s output, commands and
  waiting request (`DeviceFits`), and that the owner's mailbox holds the
  request that waits unless a disconnect is to empty it (`MailIsPending`).
- `MuxNeverFails`: the state `failed`, which the code cannot leave, is never
  reached: whenever a handler writes a frame the output buffer is empty,
  because a service pass begins with it and a blocked one reads no input.
- `MuxReplies`: a reply always meets the request it answers.
- `DataInOrder`, from `OrderInvariant`. The frames that wait are in the order of
  their handshakes with each HELLO first (`EpochsOrdered`); within a handshake
  their sequence numbers grow, and a frame whose number follows another's was
  sent with the channels and the data count the other left (`SentInOrder`), the
  host's own next frame included. A device in a session waits for a number no
  greater than those of the session's waiting frames, and the frame of that
  number was sent from the state the device is in (`ReceivedInOrder`). This is
  why a lost frame needs no memory: the frames behind it have other numbers, and
  the first of them ends the session. `CleanAgrees` says what a clean start
  buys: the acknowledgement that takes the host into its session can only be its
  own, so its frames find the device in that session, with no HELLO between.
  What `handle_packet()` makes of a frame is one lemma, `HandlePacketSession`: it
  begins a session, takes the frame that is due, ends the session or leaves it.

### Playlist

For all playlists, ring sizes, streams and faults (gaps shorter than
`Patience`, and `Patience` less than half the wrap):

- `PlaylistInvariant`. What each point of the player task owns (`PointsFit`),
  the numbers in the ring and the list's place against them (`RingFits`,
  `ListFits`), and the card, which only an idle player with a failed cleanup
  or an open listing keeps between two runs (`CardFits`).
- `ResultsAreKept`, `TheCardStays`, `StopEndsTheList`. The first needs that
  room for a block, once found, is still there when the item ends: nothing
  writes to the ring in between, and an acknowledgement only makes room.
- `GapInvariant` and `TheGapIsKept`: `GapInv`, inductive relative to
  `PlaylistInv`, ties the stream's index to the packets counted since the last
  one of a file. While a run plays, its packets follow each other without a
  break (`PlayIsUnbroken`), so the index stands at its first packet plus what
  was sent and what was counted (`PlayTimed`); in a gap it stands as far past
  the gap's start as was counted (`GapTimed`), also when a failed run's last
  chunk went out after the gap began, which only a gap that is not clean can
  see; and a start armed for the gap's end is still ahead of the stream or is
  its very next chunk (`StartTimed`). The indices wrap: `index_reached()` tells
  before from after (`ReachedWhenCounted`) because nothing it compares is
  further apart than `Patience`, which the model requires to be under half the
  range.

### UacStream

For every FIFO depth, record capacity, width of the indices, length of the
file and number of faults:

- `UacInvariant`. The claims themselves (`InStep`, `PlayIsTrue`) are a part of
  it; what makes them inductive is that a closed stream holds nothing, that no
  chunk is of a play to come and an old play has none left, that the file's
  chunks are sent, pending or still to be given, that what the host took is
  what was retired and at most one completion more, and that a scheduled start
  is ahead of the stream or is its very next chunk (`StartIsAhead`,
  `FirstAtTarget`).
- `top_up()` and `retire_sent_chunks()` are loops, here recursive functions on
  natural numbers. That they exist and what they keep is proved by induction
  over sets of natural numbers, which rests on the library's well-foundedness
  of `<` (`LeastNatural`, `SetInduction`).
- `TheStreamIsInStep` and `ThePlayIsTrue` follow.
- `MissInvariant` is a second invariant on top of the first, an account of the
  frames: the intervals counted, the frames elapsed since the completion before
  and the completion under way make up the frames lost (`Uncounted` is what is
  left: nothing, or the one frame the first completion was read late by). A
  play's count is bounded by what its stream has, at most one more when a late
  read that the stream takes back comes after the play's last chunk
  (`PlayMisses`). It rests on two facts about operators: `dealiased_gap()` finds
  the frames elapsed for every modulus above two, when the ticks are one off
  (`GapIsExact`), and `missed_after_gap()` is monotonic in the count
  (`MissedFacts`).
- `TheMissesAreCounted` (`Spec => MissesCounted`) follows: only the handling of
  a completion takes one away (`OnlyTxDoneReads`), and there nothing has elapsed
  that is not counted.
- `BlameInvariant` is a third invariant, an account of the gap under way
  (`GapAccount`): the frames elapsed in it are those the host lost, those the
  device lost and the packet's own. The device loses a frame only while a
  completion waits past the watchdog's timer, so the gap has been sampled; the
  samples that found nothing held off never outnumber the host's losses, and
  keep up with them where every interrupt is handled in its half of the frame
  (`Polls` is how many of the host's polls are due before the next sample). The
  case that shapes it is a gap whose first half frame is the poll's: one frame
  is counted before it is lost, and the timer must be the short one then
  (`TimerIsShort`). TLC checked `BlameInv` on the instance of `usb_stream` and
  again with `PollHalf` at 0 before it was proved.
- `TheBlameIsFair` (`Spec => BlameIsFair`) follows from it and from what
  `count_missed()` does to the parts of the count, the interval it takes back
  included (`TakeBackParts`, `CountParts`): what it adds to the device's part is
  no less than the device's losses in the gap (`GapIsShared`), and the play's
  part moves with it (`PlayPart`).

### Only model-checked

- Every liveness property (`Rests`, `CommandAnswered`, `ClaimSettles`,
  `PlaybackSettles`, `AttemptSettles`, `RequestAnswered`, `Unblocks`,
  `JobEndReported`, `Settles`): fairness and `ENABLED` are beyond the prover.
- `HeardInOrder` of `CdcMux`: the same argument would be needed for the frames
  to the host, with the commands they answer.

## Not modelled

`PROJECT.json` names every part left out and why. In short:

- signal processing, encoders and the PC tools are numeric or sequential;
- drivers are hardware access whose outcomes are choices in the models;
- parsers and printers (the live control protocol, playlist text, command
  spelling, COBS and CRC) are stateless: the models take what they yield;
- the order of EP0 events, the bytes and extents of the prepared stream, and the
  cut schedule are in the plan below;
- a run's engine, its live controls and deadline misses: a run may latch a fault
  at any step instead;
- the read-only mass-storage image, counters and timing kept for reports, and
  message texts.

No module composes the four claims on the card. Each of `PrepareService`,
`TxArtifact`, `Playlist` and `MediaOwnership` has its own claim together with
the host's.

## Plan

Done: `FinitePlayback`, `PrepareJob`, `PrepareService`, `PreparedPlayback` with
`PreparedOutput`, `MediaOwnership` with `CardOwner`, `TxArtifact`, `CdcMux`,
`Playlist`, `UacStream`, and the proofs of all of them.

Next, in order:

1. One module for the four claims on the card, with the player task's four
   users reduced to their claims, and each detailed module shown to implement
   its part.
2. `Ep0Order`: SETUPs held behind completions; abstract specification: the
   order on the wire.
3. `PreparedStream`: bytes, extents and the header of the WAV being written,
   refined to the frame cursors of `PrepareJob`; `CutSchedule` as operators
   against a reference definition.
