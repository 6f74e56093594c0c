# mimIIC in TLA+

The RP2040 firmware in `src/firmware` emulates an I2C device whose registers come from a JSON model. Some registers
play back CSV samples: *embedded* ones from data compiled into the firmware, *host streams* from bytes a USB host
feeds while the device runs. This directory specifies that system in TLA+, model-checks it with TLC and proves its
safety properties and refinements with TLAPS. Paths below are relative to `src/`.

## 1. The system

| component | state | operations | meets others through |
|---|---|---|---|
| host stream queue, `firmware/src/streams.rs` 61-150 | ring buffer, head, length, last value, counters | pop, push back, push one to the front, reset | called by the stream manager |
| stream manager, `streams.rs` 152-403 | cursors of embedded streams, one queue per host stream | read a register, roll a read back, feed, reset all, descriptors, statuses | a static behind a critical section, called by the I2C task (through the register file) and both USB tasks |
| register file, `firmware/src/regfile.rs` | 256 bytes, which are writable, the pointer | write a payload, read into a chunk, roll unread bytes back, reset to defaults | owned by the I2C task |
| I2C service, `firmware/src/i2c_service.rs` | where it is in a transaction, the chunk read ahead and its effects, the preview, the reset signal | one arm per command of the driver, `serve_read`, `request_reset` | the I2C driver (master), the log, the signal set by the command line |
| transaction log, `firmware/src/log.rs` | ring of events, next, count, sequence number | record, clear, snapshot | a static behind a critical section: the I2C task records, the command line reads and clears |
| USB stream channel, `firmware/src/usb_stream.rs` | bytes collected of a frame | hello, feed, reset streams, answers, errors | the stream manager, and the host over USB |
| USB command line, `firmware/src/usb_cli.rs` | the line collected | dump, clear, reset_i2c, stream_status, help | log, reset signal, stream manager |
| CSV streamer, `tools/csv_streamer` | per stream: cursor in the samples, free space it believes in | negotiate, prefill, probe, refill, rewind | the stream channel |
| model generator, `tools/gen_model` | none | validate the JSON, load CSV, emit tables | its tables are the constants of the firmware |
| build script, `firmware/build.rs` | the files cargo watches for it | generate, list the files to watch | cargo, the generator |
| start-up, USB device, heartbeat, `main.rs`, `heartbeat.rs` | none others read | - | - |

All tasks run on one cooperative executor: a task is interrupted by another only where it awaits. Each function of
`streams.rs` and `log.rs` is one critical section.

**What is hard.** A byte is read from its register *before* the master asks for it (`i2c_service.rs` 109-119). If the
master stops first, the driver reports it as left over and its effects are undone. Between the two the task awaits,
and the USB tasks may feed, reset or inspect the same streams. Then: rings and counters that wrap; a log that records
what the firmware offered while it should record what the master got; framing of a byte stream that is cut into
packets arbitrarily and lost with the link; answers that are old when they are read, or were meant for a program that is gone;
tables older than the files they were made from.

**What makes each component correct.** Queue: FIFO, bounded, no index outside the array. Register file: read-only
registers never change, the pointer is where the master is. I2C service: reading ahead is invisible. Log: the newest
events, in order, telling the truth. Stream channel: never out of step with the host's frames, one answer per frame.
Command line: commands as typed, whatever it is writing when they come. Streamer: no sample lost, repeated or
reordered, queues neither overfed nor left below their mark. Generator and build: tables that agree with each other and
with the files.

## 2. Modules

Operators and actions keep the names of the functions they model; `PROJECT.json` maps each to its lines.

| module | models | notes |
|---|---|---|
| `QueueOps` | what a queue does, as operators on sequences | shared by the abstract queue and everything above |
| `ByteQueue` | abstract specification of the queue | bounded FIFO that takes one byte back |
| `HostRing` | the ring of `HostStreamState` | implements `ByteQueue`; slots are never cleared, as in the code |
| `Streams` | `StreamManager` | effects are records; `has_last`/`last_value` are one variable that may be `NoByte` |
| `RegisterFile` | `RegisterFile` | `WritePayload` is the loop in closed form |
| `I2cService` | the I2C task, its master, and the USB tasks where they touch its state | see below |
| `I2cProperties` | invariants and properties of `I2cService` | also the refinement mapping to `StreamContract` |
| `StreamContract` | abstract specification: a device that reads a register when the master takes the byte | no chunks, no rollback |
| `EventLog` | abstract specification of the log | the newest events, oldest first |
| `LogRing` | the ring of `log.rs`, as operations | implements `EventLog` |
| `UsbCli` | the command line task with the log, the link, the user and the I2C task | extends `LogRing` |
| `StreamDevice` | what a frame of the stream protocol does to the streams, and its answer | also the I2C task as far as the streams feel it |
| `UsbStream`, `UsbProperties` | the stream task, the link, a pipelining host | bytes towards the device, records back |
| `StreamChannel` | the channel without its bytes, as operations | frames and answers in order |
| `StreamService` | abstract specification of the channel, for any host | `UsbStream` implements it |
| `CsvStreamer` | the streamer, on `StreamChannel` | implements `Playback` |
| `Playback` | abstract specification of the streamer | the samples in order, round and round |
| `ModelTables` | the generator: its checks and its tables, as operators | |
| `FirmwareBuild` | editing, generating, building, flashing, and the streamer's checks of model against firmware | cargo is external |
| `MCHostRing`, `MCI2c`, `MCI2cClear`, `MCCli`, `MCUsb`, `MCStreamer`, `MCBuild` | instances for TLC | `MCI2cClear` adds a history variable |
| `I2cServiceProofs`, `HostRingProofs`, `UsbCliProofs`, `UsbProofs`, `StreamerProofs`, `BuildProofs` | proofs, one module per component | section 6 |
| `DeviceProofs`, `DataLemmas` | lemmas about streams, frames and the I2C task; about `%`, sequences and sets | section 6 |

**`I2cService`.** `pc` is where the task is. `listen` is the `select` of `task`; `respond` is the await of
`respond_to_read`; in these two other tasks run (`OtherTaskRuns`). `fill` and `rollback` are the loops of `read_into`
and `rollback_unread`, one byte per step; they contain no await, and no other task moves there. An arm of the `select`
is one action: `WriteEmpty`, `Write`, `WriteRead`, `Read`, `GeneralCall`, `ListenError`, `HandleReset`. `serve_read` is
`ServeRead`, a byte at a time `ReadPlain`/`ReadEmbedded`/`ReadHost`/`ReadUnderrun`, `Offer`, then one of
`NeedMoreBytes`, `Done`, `LeftoverBytes` ... `RecordLeftover`, `ReadError`. `tx` and `effects` are one sequence,
`chunk`. `event` is what this step passed to `log::record`. The driver is outside the repository and is modelled by
what the code relies on: `MasterTakes` is the master clocking out a byte, `sent` and `wire` what went over the bus. A
driver error of any kind is one code. `listen_buf` has 64 bytes, fewer than there are registers.

**`UsbStream`.** `pc` is `connect`, `receive`, `parse` or `send`. `Collect`/`Overflow` are the two outcomes of a
packet; `AwaitMore`, `Oversize` and `ProcessFrame` the three of the inner loop; a frame is carried out in
`ProcessFrame`, and removed only when its answer is written (`Sent`), as in lines 108-120. The host keeps
`outstanding`, its frames without an answer. The driver is taken to fail the pending call when the link goes down
(lines 62-65, 115): the link does not come up again unnoticed. What a frame does and how it is answered is
`StreamDevice`, which the byte-level and the abstract channel share; only the order, the framing and the losses differ.

**`CsvStreamer`.** `pc` is `closed`, `hello` and `await` (in `read_until_frame`), `ready` or `failed` (a check of
`feed_chunk` failed). `todo` and `at` are the place in the loops of `main`: `prefill`, `probe` or `refill` at a stream,
`pause` between passes. `SendFeed` is `feed_chunk` up to its await, `Account` the rest with what the caller does next.
`End` covers a kill, the two-second timeout and an I/O error, because they leave the same state; answers on their way
stay for the next run unless `Discard` drops them, and a frame the device had in hand when the link went down is still
carried out (`StreamChannel!LinkDown`). Probe times are a nondeterministic `isDue`. Frames are whole: a run killed
between the writes of header and payload is left out.

**`UsbCli`.** `pc` is `connect`, `receive`, `parse` or `write`. The loop over the bytes of a packet has an await only
where an answer is written, so `parse` is not interrupted. A dump's lines carry their events; every other line is
`Text`. The task ignores errors of its writes, so a link that goes down and up while it writes goes unnoticed; `stale`
marks this until the task is back at `Connect`.

**`FirmwareBuild`.** A build is four steps: does the script have to run (`BuildStart`), `ScriptGenerates`,
`ScriptListsFiles` (which reads the model a second time), `Compile` with the flashing. The user may edit between any
two. cargo reruns a script that did not finish or whose listed files changed since it was started. Reading the model
and its CSV files is one step: an edit between the two makes the build dirty like one before them. `StartStreamer` is
`main` of the streamer up to its prefill: the files are those of now, the tables those of the last flash.

## 3. Runs

Passing runs:

| run | asks |
|---|---|
| `ring` | is the ring buffer a bounded FIFO (`QueueSpec`) and its indices in range, wherever it wraps? |
| `cli` | are commands carried out as typed and in order (`HandledAsTyped`), whatever packets cut them and is being written; is a dump free of gaps while events come in (`DumpIsConsecutive`); does the ring keep the newest events (`LogSpec`); is a typed reset requested (`ResetRequested`)? |
| `i2c` | with chunks of two bytes of one register and a host that leaves just the room they need: is reading ahead invisible (`ReadsAreExact`), does every rollback restore its byte, is the log true, is a requested reset carried out if the master ends its reads? |
| `i2c_any_host` | with the firmware's chunk of one byte, auto-increment, and a host that overfills queues and resets streams at any await: pointer, registers, accounting and log |
| `usb` | for a host with two frames on their way, faulty, long and oversized ones among them, over a link that may go down: is the task the channel of `StreamService` (`ChannelSpec`), is framing kept, and given up only for long frames, how stale is the reported free space, is every frame answered? |
| `streamer` | a run and a restart, ended at any point: samples in order (`PlaysBack`), no overfeeding (`LimitKept`), acknowledgements matched (`NeverFails`), streams kept fed (`KeptFed`) |
| `build` | do the tables the firmware runs with agree (`TablesAgree`), does a build ever use old ones (`BuildIsFresh`), does the streamer pair streams and files rightly (`StreamsGetTheirSamples`)? |

Runs that find a disagreement between the code and what its comments say (`findings`):

| run | shows |
|---|---|
| `i2c_full` | `push_front_one` drops a byte silently when a feed filled the queue between pop and rollback |
| `i2c_clear` | a byte in flight survives `ResetStreams` and comes back, with a last value, in a cleared stream |
| `i2c_stuck` | `reset_i2c` is not carried out while the master stands still in a read |
| `streamer_restart` | `streamer` with a second restart: the third run takes both answers to the second for its own, lags by one answer, and fails in `feed_chunk` when it moves on to the next stream |
| `i2c_unread` | the event of a read that ended with bytes left over does not show them, as the comment at `i2c_service.rs` 125 says it does: the code cuts its payload to what the master took |

Each property of a passing run has a mutant: an operator `M_...` beside the definition it replaces, with a plausible
bug, under which TLC reports that property.

### Bounds

- Registers: 4, addresses 0-3, one read-write, one embedded with two samples, one host stream, one
  undeclared. The cursor and the fill of the queue wrap within one read, and so does the pointer where it moves. Every
  property is about a register's kind and the order of addresses, and each kind has a neighbour of each other kind.
- `ReadChunk` is 1, as in the firmware, and the pointer is incremented in all runs but `i2c`. There it is 2 and the
  pointer stands still: both bytes of a chunk come from one register, so that the order of two rollbacks of one stream
  matters and the room for them is used up. Chunks of bytes of different registers, and `ReadsAreExact` with a moving
  pointer, are left to the theorem `ReadingCorrect`, which is about every chunk with and without increment.
- `Capacity` 3, 4 in `i2c`, for 2048: empty, partly full, full by a feed, full by a rollback all occur. In `i2c`
  `FeedLimit + ReadChunk = Capacity`; in `i2c_any_host` `FeedLimit` lets every feed through.
- `MaxRead`, the bytes offered in one read, is 4 in the passing runs: past the preview (2, and 3 in `i2c`, where it
  ends inside a chunk, for 8), and a read of 4 wraps the 16-bit length (`LenMod` 4 for 2^16). It bounds `total`, which
  the code lets grow. The runs that find a disagreement need no more than 2.
- `CounterMod` 2 for 2^32: every other underrun wraps.
- Command line: a buffer of two words, packets of up to three, two lines ahead, every line ended by two
  end-of-line bytes: lines are cut by packets at every place, one line is longer than the buffer and a command once it
  is cut, and the rest of a packet waits behind a dump. Log of 2 slots and numbers modulo 3: both wrap.
- USB: 8 bytes for 512, packets of up to 4 for 64, frames of 3 to 9: some that leave room for a packet behind them, one
  that may not (6), one that never fits (9). Frames and packets meet at every offset, and a packet may bring the end of
  one frame and the whole next one. `PipeBytes` bounds what the
  host's driver takes ahead. After a `BadFrame` answer the host sends nothing more on this connection: what a device
  out of step takes for frames is arbitrary, and `StreamService` allows it. One queue of one byte: a feed is taken
  wholly, in part or not at all.
- Streamer: two streams, one with two samples and one with one, fewer than a chunk, so that cursors wrap and rewind
  past the start of the file. Queues of 5, prefilled to 3, refilled at 2, chunks of 2: the prefill ends with a chunk
  that overshoots it, as 48 bytes into 1536 of 2048 may. `MaxStarts` 2, 3 in `streamer_restart`. These queues
  are too small for `LimitKept` to say much of a restart: with two starts it allows 7 bytes, and no more than 6 fit.
  The run exercises the first start; of later ones the theorem `LimitCorrect` tells, for every capacity. (With chunks of two, queues
  that two starts can overfeed have 13 bytes or more, too many for the other properties of the run.)
- Build: three addresses, two CSV files of seven contents, eleven models, of which four are accepted and the others fail
  one check each; two edits (three give the same answers, in 1.7 million states).

### Fairness

`FirmwareSpec` assumes weak fairness of the I2C task's own steps: the executor polls a task that has been woken, and
neither loop awaits. `FairSpec` adds strong fairness of the end of a read, an assumption about the master: at each
byte offered it may go on, so the end is enabled again and again but not continuously. The run `i2c_stuck` is without it, because
the firmware does nothing to enforce it. `UsbStream!FairSpec` assumes weak fairness of the stream task and of a host
that reads the answers it is sent; the link may go down at any time. `UsbCli!FairSpec` is weak fairness of the task,
whose writes the host takes. `CsvStreamer!FairSpec` is weak fairness of the program and of the device's answers, and
strong fairness of a pass with a probe: passes take 1-2 ms and probes are due every 50 ms, so probes come again and
again, though not at every pass.

## 4. The properties

- **`ReadsAreExact`** is the refinement of `StreamContract`. The mapping takes the bytes in flight as not yet read:
  `Pending` puts them back in front of the queue, `Latest` takes the oldest of their saved last values, `Position`
  and the pointer step back. A bus error may consume what was read ahead, at most a chunk; nothing else may.
- **`RoomForRollback`** and **`RollbackRestores`** say why that works: queue and bytes in flight together never
  exceed what the host allows itself plus a chunk, so if that fits, so does every byte put back. `csv_streamer` refills
  at half full with 48 bytes, which keeps this limit (`LimitKept`).
- **`ReadLogTruthful`** relates the logged event to `wire`, which the firmware does not have. It says what the code
  does, and the comment at `i2c_service.rs` 125 says otherwise of a read with bytes left over: that their number is the
  error value (it is) and that "the unread data in the chunk is shown in payload". Lines 131-134 cut the payload to
  what was read. `UnreadIsLogged` is the comment's statement, for the bytes the preview has room for, and fails.
- **`PointerFollowsMaster`**, **`ReadAccounting`** relate what the firmware counts to the bus.
- **`GeneralCallRestoresPowerOn`** holds although CSV registers are skipped, because no write ever changes them.
- **`FramingKept`**: the bytes not yet interpreted are exactly the frames not yet handled. **`ChannelSpec`**: on top of
  that, each frame is carried out once and in order, and the k-th answer is that of the k-th frame with the state of
  the streams at its turn; the host may count. **`OnlyLongFramesRejected`**: the streamer's longest frame, 52 bytes,
  leaves room for a packet in 512, so it never meets `BadFrame`.
- **`FreeIsCurrent`**: free space in an answer is stale by at most the bytes that may be put back.
- **`PlaysBack`** is the refinement of `Playback`: the position of the next sample is computed from the cursor minus what
  the device will refuse of the chunk under way. A restart begins with the first sample, behind what the device holds.
- **`LimitKept`** is the guarantee that `RoomForRollback` asks of the host: a queue with its bytes in flight stays
  below the prefill level plus what is read ahead plus one chunk per start. With 1536, 1 and 48 of 2048, ten
  starts fit before a rollback could lose a byte; each start that finds full queues adds at most a chunk. The chunk per
  start is what the wrong guess of `free` at the start costs: the first acknowledgement corrects it.
- **`NeverFails`** holds for one restart, since the answers one ended run leaves behind are either skipped or equal to
  what is awaited, and fails with two (`streamer_restart`). Answers are in the order of the requests, so a run that took
  the `HELLO_RESP` of the one before is back in step once it has read a `FEED_ACK` of its own, for it skips its
  own `HELLO_RESP` on the way. If it ends before that, it leaves a `HELLO_RESP` and a `FEED_ACK` of stream 0 behind, and
  the third run takes both: it is one answer behind its requests for good, which shows when it moves on to stream 1.
- **`KeptFed`** starts after the prefill. In the prefill it would be false: the loop at main.rs 163 goes on as long as
  the device consumes one stream as fast as it is fed, and the other streams wait.
- **`HandledAsTyped`** has the cut at 64 bytes in it, after which `reset_i2c` followed by blanks and other words is the
  command: what the code does. Connections whose loss the task slept through are left out.
- **`BuildIsFresh`**: the watch list of build.rs is enough. **`TablesAgree`** is `StreamsAssumption` and
  `RegisterAssumption` of the modules of the firmware, derived from the generator.

## 5. Plan

Done: the modules above. What is left:

1. `System`: I2C service, stream channel and streamer in one module. Today they meet through their properties: the
   `i2c` run assumes of the host the limit that `LimitKept` gives, `CsvStreamer` assumes the channel that `ChannelSpec`
   gives, and both assume the constants that `TablesAgree` gives.
2. Frames cut short by a kill of the streamer, once it is known what the port's driver does with them.

## 6. Proofs

| theorem | module | says |
|---|---|---|
| `TypeCorrect` | `I2cServiceProofs` | `Spec => [](TypeOK /\ ReadProgress)` |
| `PointerCorrect` | `I2cServiceProofs` | `Spec => []PointerFollowsMaster` |
| `GeneralCallCorrect` | `I2cServiceProofs` | `Spec => GeneralCallRestoresPowerOn` |
| `RoomCorrect` | `I2cServiceProofs` | `Spec => []RoomForRollback` |
| `RollbackCorrect` | `I2cServiceProofs` | `FeedLimit + ReadChunk <= Capacity` gives `Spec => RollbackRestores` |
| `AccountingCorrect` | `I2cServiceProofs` | `Spec => []ReadAccounting` |
| `ReadLogCorrect` | `I2cServiceProofs` | `Spec => ReadLogTruthful` |
| `ReadingCorrect` | `I2cServiceProofs` | `~HostMayReset` and `FeedLimit + ReadChunk <= Capacity` give `Spec => ReadsAreExact`: the service implements `StreamContract` |
| `RingTypeOK` | `HostRingProofs` | `Spec => []TypeOK` of the ring |
| `RingRefinesQueue` | `HostRingProofs` | `Spec => QueueSpec`: the ring implements `ByteQueue` |
| `CliTypeOK` | `UsbCliProofs` | `Spec => []TypeOK` of the command line and its log |
| `DumpHasNoGap` | `UsbCliProofs` | `Spec => []DumpIsConsecutive` |
| `RingRefinesLog` | `UsbCliProofs` | `Spec => LogSpec`: the ring of the log implements `EventLog` |
| `LinesHandledAsTyped` | `UsbCliProofs` | `Spec => HandledAsTyped` |
| `UsbTypeOK` | `UsbProofs` | `Spec => []TypeOK` of the stream task |
| `FreeStaysCurrent` | `UsbProofs` | `Spec => []FreeIsCurrent` |
| `FramingCorrect` | `UsbProofs` | `Spec => []FramingKept` |
| `RejectionCorrect` | `UsbProofs` | `Spec => OnlyLongFramesRejected` |
| `TaskRefinesChannel` | `UsbProofs` | `Spec => ChannelSpec`: the stream task implements `StreamService` |
| `LimitCorrect` | `StreamerProofs` | `LowMark < PrefillLevel` gives `Spec => []LimitKept` |
| `AnswersMatched` | `StreamerProofs` | `MaxStarts <= 2` gives `Spec => []NeverFails` |
| `PlaybackImplemented` | `StreamerProofs` | `MaxStarts <= 2` gives `Spec => PlaysBack`: the streamer implements `Playback` |
| `TablesCorrect` | `BuildProofs` | `Spec => []TablesAgree` |
| `BuildsAreFresh` | `BuildProofs` | `Spec => BuildIsFresh` |
| `SamplesReachStreams` | `BuildProofs` | `Spec => StreamsGetTheirSamples` |

They hold for every register map, chunk size, capacity, set of messages, feeds, lines, frames, samples, models and files
that satisfies the named assumptions of the modules they are about (`QueueOps`, `Streams`, `RegisterFile`, `I2cService`,
`HostRing`, `LogRing`, `UsbCli`, `StreamDevice`, `UsbStream`, `CsvStreamer`, `ModelTables`, `FirmwareBuild`), which TLC
evaluates in the runs of these modules. The substantial ones (CSV registers are declared and read-only, addresses of
streams differ) are what the generator enforces; `UsbCli` assumes that a typed line contains no end of line. Some
theorems have a hypothesis more, and each is needed:

- `FeedLimit + ReadChunk <= Capacity`: without it a rollback loses a byte (`i2c_full`).
- `~HostMayReset`: `ResetStreams` empties every queue in the middle of a read, which `StreamContract` does not allow. The
  streamer never sends it.
- `LowMark < PrefillLevel` holds for every capacity from 3 on; the firmware's is 2048.
- `MaxStarts <= 2`: with a third run of the program the properties fail (`streamer_restart`).

**I2C service.** `TypeOK` alone is not inductive: that a rollback finds the chunk long enough, and that the length it
logs is not negative, depends on where the read is. `ReadProgress` says that: the chunk is full while it is offered,
`total` is what the master took plus what it was offered and has not taken. Their conjunction is inductive and is
checked by TLC in `i2c_any_host` (`ReadAccounting` contains `ReadProgress`). Its proof has a step per action; facts about
the streams alone are lemmas in `DeviceProofs`, facts about `%`, sequences and sets in `DataLemmas`.
`PointerFollowsMaster` needs that progress and that stepping n and stepping back m of them is stepping n - m.
`GeneralCallRestoresPowerOn` follows from the invariant `ReadOnlyKept`. `RoomForRollback` is inductive relative to
`TypeCorrect`: a pop moves one byte from the queue to those in flight, a rollback moves it back, a feed stops at
`FeedLimit`, and at most a chunk is in flight. `RollbackRestores` follows, since the byte being rolled back is itself
counted among those in flight and so has its place. `ReadLogTruthful` rests on `PreviewTracks`: what the preview holds
beyond `wire` is what the master is being offered, so that cutting it at the bytes that were taken leaves the first of
them.

`ReadingCorrect` needs to know what the bytes in flight are. `InFlightKnown` says it, and is inductive relative to the
invariants above (TLC checked it on instances with chunks of one and two bytes before it was proved): the i-th byte of the
chunk was read at the register the master will have reached when it takes it (`InPlace`); a popped byte is the last of its
stream until the next pop, and the byte of an underrun repeats the last one (`LastsKnown`); a sample is the one its cursor
points at when it is taken back by the samples read from there on (`SamplesKnown`). `Popped` splits at either end of the
chunk, `LastAt` and `CountFrom` say what the contract's latest byte and position are; so a byte read ahead or rolled back
(where `RoomForRollback` keeps its place) leaves the contract's streams alone (`HiddenRead`, `HiddenUndo`), and a byte taken
is the first pending one, the next sample, the latest one again or a plain register (`MasterPlays`). An error on the bus
skips what was in flight (`ErrorPlays`), the end of a read finds nothing in flight, and everything else is a stutter.

**Ring of a stream, ring of the log.** The abstract queue is the sequence whose i-th byte is slot
`(head + i - 1) % Capacity`. Advancing or retreating `head` shifts that window by one, and writing behind it leaves
every slot inside it alone; `Wrap` and `Distance` of `DataLemmas` say when two such slots differ. Each operation is then
a lemma: a pop is `Tail`, a push fills one more place, a rollback puts one in front. `RingRefinesLog` is the same
argument.

**Command line.** `DumpIsConsecutive` and `TypeOK` are not inductive together: that what a dump writes next joins on to
what it has written depends on the lines still to write and on the log they were copied from. `CliInv` adds that the log
holds consecutive numbers up to the newest event, and that the lines still to write join on to those written.
`HandledAsTyped` needs to know where in the text the task is. `AsTyped` says it: what is still to be interpreted, the
rest of the packet and what is on its way, is the text of the lines not handled, after some ends of line if the task is
between two lines, and without a part c of the first line if it is inside it; the buffer then holds c, cut to its size.

**Stream task.** `UsbTypeOK` rests on `UsbInv`: a `BadFrame` answer is only sent with an empty `accum`, so that the task,
which waits for a packet after it, has no frame left. `FreeStaysCurrent` rests on the level of a stream, the bytes in
its queue plus those the I2C task has in flight: the I2C task never raises it (a pop moves a byte, a rollback moves it
back or, in a full queue, loses it, a delivery takes it away), only a feed does, and a feed answers with the space it
leaves. `AllCurrent` says that of the newest ack of each stream in transit. `Framed` is the invariant of the framing: as
long as nothing was rejected, the bytes not interpreted are the bytes of the frames not handled, and no more answers are
in transit than frames are outstanding. The length in a header then is that of the first such frame, the frame is
carried out as a whole, and `RejectionCorrect` and the step simulation of `TaskRefinesChannel` follow: packets and
collecting are invisible to the channel, `ProcessFrame` is its `Handle`, a `BadFrame` answer is its `Break`. What each
frame and each step of the I2C task does to types and levels is in `DeviceProofs`.

**Streamer.** `LimitKept` depends on how wrong the program's idea of the free space is. `OneEach` says that a run leaves at
most one feed of a stream behind, so that there are never more unread feeds and acknowledgements of a stream than starts.
`AckTells` says that the free space in an acknowledgement is too large by at most what was fed after it, `Known` the same
of what the program has noted. `LimitInv` is the bound itself, of the level with all feeds on their way (`Promised`), with
the strengthening that a stream not being fed is a whole chunk below it or is `Known`. For `NeverFails`, `Matched`
describes the channel as one sequence, answers before requests: while a run waits for an acknowledgement, the last thing
in it is its own feed or the answer to it, and everything before that belongs to a `HELLO_REQ`. `PlaybackImplemented`
uses it, with `OwnFeed` (the feed under way carries the samples from the mapped position on) and `Rewound` (a run starts
at the first sample): `NextAt` is the position as a function of cursor and bytes not taken, and `NextAtMoves` says that
sending a chunk and accounting for its acknowledgement leave it alone while the device taking a part moves it by that
part, round the end of the file. A frame of an earlier run is `TakeLeftover`, the end of a run `EndRun`, everything else a
stutter.

**Generator and build.** `TablesAgree` of the tables of a model is a matter of the generator alone: the streams are the
registers of one kind in the order of their addresses, so their ids are the ranks of the addresses and the index by address
is the inverse of the table of addresses. The invariant `Made` says that every table in use was made of some model that
passed the checks. `Fresh` relates the tables to the files: as long as no file has changed that the build script names,
or is about to name, `model.rs` is what would be made now; tables depend on no file a model does not name (`CurrentKept`).
TLC checked it on the instance of `build` before it was proved. `StreamsGetTheirSamples` follows from `Made`: tables
that the streamer accepts pair each stream with the file of the register at its address.

Where a proof needs induction (the concatenation of the encodings of frames, counting along a sequence), it is
`SetInduction` of `DataLemmas`, which has a set where the usual rule has a predicate: a set that holds 0 and is closed
under adding 1 holds every number, since the natural numbers are well-founded.

Only model-checked: liveness (`ResetServed`, `EveryFrameAnswered`, `KeptFed`, `ResetRequested`), which is beyond the proof
system.

## 7. Not modelled

The generated `model.rs` (the constants of the firmware modules), peripheral set-up, the vendor USB and I2C drivers
beyond what the code uses of them, the LED, formatting and parsing of text (JSON, numbers, log lines), defaults and names
of registers in the generator, the streamer's debug report. The peripheral reset itself (`slave.reset()`) has no effect
on the modelled state. Time is not modelled: the timeout of the streamer is a run that may end at any point. A frame cut
short by a kill of the streamer, and a `gen_model` run on another model than the firmware's, are not modelled. That the
rollback of an underrun saturates where the counting wraps (`streams.rs` 237, 295) is in `Streams`, and no property is
about it.
