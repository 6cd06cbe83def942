# BattOr: a verification project

TLA+ models of the BattOr: its firmware (`src/fw`), the PC program that talks to it
(`src/sw`) and the link between them, checked with TLC on small instances and, where the
prover reaches, proved with TLAPS for all of them.  This file is the inventory of the system,
the map from modules to code, and what the runs and the proofs show.  Section 6 lists what
is not modelled, and why.

## 1. The system

BattOr is a power monitor.  An XMega firmware samples voltage and current by DMA, queues the
samples in a ring buffer in external SRAM, and from there either stores them on an SD card,
in a file system of its own, or streams them over a UART.  A PC program (`src/sw`) sends
control messages, streams, or downloads a file frame by frame.  A button starts and stops
recordings when there is no PC ("portable mode").

    ADC -> DMA (2 buffers) -> samples.c -> ring buffer -> samples.c -> fs.c -> sd.c -> card
            interrupt flags     main loop     SRAM            |
    button, timer, UART RX -> control.c ----------------------+-> uart.c <-> sw/uart.c

The firmware has one thread, the loop of `main.c`, and interrupt handlers that set flags,
count ticks and fill the receive ring of the UART.

| Component | Code | State | Operations | What is hard | What makes it correct |
|---|---|---|---|---|---|
| Trace file system | `fw/fs.c` | the card; the open file, the block in RAM, the write in progress | `fs_info`, `fs_format`, `fs_open`, `fs_write`, `fs_update`, `fs_rtc_set`, `fs_close`, `fs_seek`, `fs_read` | power loss between block writes, stale blocks, block boundaries, skip pointers, the end of the card | a closed file stays whole and findable; a recording is saved whole or not at all; a new file overwrites none |
| SD card driver | `fw/drivers/sd.c` | open single or multi-block write, last block, busy | `sd_write_block_*`, `sd_write_multi_block_*`, `sd_read_block` | halts when called out of order | its callers never trip the halts |
| Ring buffer | `fw/ringbuf.c` | two indices, a length, the SRAM | init, write, read | the end of the buffer inside a call; full and empty look alike | it is a bounded queue |
| Sample pipeline | `fw/samples.c` | calibration and frame counters | start, stop, ring write, UART write, store write, frame read | overrun, draining at the stop, the ends of frames | samples stay in order and in their frame; none is lost before a halt |
| DMA and flags | `fw/drivers/dma.c`, `fw/interrupt.h` | two buffers, the flags | two handlers, set, clear | handlers between any two instructions of the loop | a full buffer is copied before it is filled again, or the firmware halts |
| Control | `fw/control.c`, `fw/main.c` | mode, `inited`, gain | thirteen messages, button press and hold, boot | messages and button in any mode | mode, card, open file and LED agree; no halt of its own making |
| Button, timer, LED | `fw/drivers/button.c`, `timer.c`, `fw/blink.c` | hold state, ticks, strobe state | tick, edge | updates that come late | a press does one thing, once; a row has as many pulses as the count |
| UART link | `fw/drivers/uart.c`, `sw/uart.c`, `sw/control.c` | receive ring, parser state, resends | framing, parsing, flush | frames cut anywhere, ring overflow, late acks | only messages that were sent are run; an ack means the message ran |
| Download | `fw/samples.c:324`, `sw/samples.c`, `sw/params.c`, `sw/battor.c` | frame number, tries, what is still on its way | request, answer, end of file | lost, late and left-over frames | what is printed is the requested file, in order; a session ends |

Calls go down the picture; the only upward paths are the interrupt flags and the result codes.
`samples.c` calls `fs_write` only when `fs_busy` is false and `fs_update` only when it is
true; `control.c` decides when files are opened, formatted and closed; an error of the file
system in `samples.c` or `control.c` is a `halt`, which ends in a reset.

`PROJECT.json` lists all parts, the ones left out too, and the hazards of this code at their
lines.

## 2. Modules

| Module | Models | Kind |
|---|---|---|
| `FileSystem` | `fs.c` over the write state machine of `sd.c` | specification |
| `FileSystemProperties` | its type invariant, safety, action and liveness properties | properties |
| `TraceStore` | what the file system promises | abstract specification |
| `MCFileSystem` | its instances | model checking |
| `FileSystemProofs` | its inductive invariant and theorems | proofs |
| `FileSystemDataProofs` | the same for the bytes of the files and the order of the writes, and that the file system implements `TraceStore` | proofs |
| `RingBuf` | `ringbuf.c`, with its properties | specification |
| `Fifo` | what the ring buffer promises | abstract specification |
| `MCRingBuf` | its instance | model checking |
| `RingBufProofs` | its inductive invariant and theorems | proofs |
| `SamplePipeline` | `samples.c`, `dma.c`, `interrupt.h` and the loop of `main.c`, with properties | specification |
| `MCSamplePipeline` | its instance | model checking |
| `SamplePipelineProofs` | its inductive invariant and theorems | proofs |
| `Panel` | `button.c` and `blink.c` as functions of their state | operators |
| `Control` | `control.c` and the boot, over `Panel`, with properties | specification |
| `ControlProofs` | its inductive invariant and theorems | proofs |
| `MCControl` | its instance | model checking |
| `UartParsers` | framing, and the two parsers as functions of the bytes | operators |
| `UartLink` | the link byte by byte, over `UartParsers`, with properties | specification |
| `UartLinkProofs` | where the bytes of a frame may be, and the firmware's end of the link | proofs |
| `HostLinkProofs` | the host's end: the acks and the stream | proofs |
| `MCUartLink` | its instance | model checking |
| `Download` | the sessions of the host against the firmware, frame by frame, with properties | specification |
| `DownloadProofs` | the inductive invariants of the sessions and of their tries, and the theorems | proofs |
| `MCDownload` | its instance | model checking |

The modules meet at the calls between the components.  `SamplePipeline` keeps of the ring
buffer that it is the queue `Fifo` (which `RingBuf` implements) and of the file system that
it accepts buffers one at a time (`FsWrite` and the update steps of `FileSystem`).  `Control`
keeps of the file system the number of files, the one being recorded and whether a
multi-block write is open, and takes from `SamplePipeline` that stopping ends.  `Download`
keeps of `UartLink` what becomes of a frame that is cut, and of the file system which file
an open leads to.

Names are those of the C code where TLA+ allows it.  A definition whose name starts with
`Mut` is a mutant: the definition after it with a plausible bug put in, which the property
paired with it in `PROJECT.json` must catch.

### FileSystem

`disk` is the card, a function from block numbers to blocks.  A block is a superblock, a
startblock, a data block, the block of ones a format writes, or something else.  The other
variables are the statics of `fs.c` and the state of `sd.c`; `pc`, `op`, `prev`, `want`
stand for the place, the arguments and the locals of the running call.  Three variables are
history, read by no guard that models code except to tell whether a recording is open:
`rec` is the recording in progress (what `fs_write` has accepted), `log` the files closed
since the last format, `rd_ok` whether every block read so far was on the card.

A call is cut into steps so that each step writes at most one block.  `Crash` may come between
any two steps and keeps only the card.

| Code | Actions |
|---|---|
| `fs_info` at boot | `Boot`, then the scan |
| `fs_open` | `FsOpenQuick` (the early return), or `FsOpen` and then, block by block, `ScanRequested`, `ScanSkip`, `ScanNext`, `ScanCreate`, `ScanLast`, `ScanMissing`; `ScanFull` formats and `FsOpenRetry` starts again |
| `fs_format` | `FsFormat` or `FormatRead` (called by `fs_open`), `FormatSuper`, `FormatOnes` |
| `fs_write`, `fs_update` | `FsWrite`, `UpdatePoll`, `UpdateCopy`, `UpdateBlock`, `UpdateDrop` |
| `fs_rtc_set` | `FsRtcSet` |
| `fs_close` | `FsClose`, the update steps until `Drained`, `ClosePartial`, `CloseWhole` or `CloseTooLong`, `CloseEnd`, `CloseStart`, `CloseSkip` |
| `fs_seek`, `fs_read` | `FsSeek`, `FsRead`, `ReadStep` for each block, `ReadDone` |
| `halt` in `sd.c` | `SdHalt`, and the error branches of `UpdateBlock` and `ClosePartial` |

Assumptions of the model:

- A block write is atomic.  What a card does with a block whose write loses power is not in
  the code.
- The card accepts every command for a block it has, and each write finishes.  Reads past
  its end fail, as `fs_read` then ignores; `ReadBack` leaves such reads out by `rd_ok`.
- Payload bytes never imitate a startblock of the current format, and the card holds no
  blocks of another `FS_VERSION`.  The bytes of a recording are `<<tag, position>>`.
- The callers open and format only between recordings (`MayOpen`).  `control.c` does not
  ensure it: a recording started by the button and then a start from the PC formats inside
  the open write, and the SD driver halts.  The module `Control` has that.

### RingBuf

`mem` is the SRAM region, `read_idx`, `write_idx` and `len` are the fields of
`struct ringbuf`.  A call copies in chunks that end where the buffer does; each chunk is a
step.  `fifo` (bytes stored and not read) and `taken` (what the running read should return)
are history.

### SamplePipeline

The DMA fills the two buffers `adcb` in turn.  What a buffer holds is the set of numbers of
the blocks of samples in it, so that a buffer overwritten while it waits is one with two
numbers.  `g_interrupt` is the flag word; `main_reg` and `isr_reg` are the word as main or the
timer's handler has loaded it and not yet stored it, since `interrupt_set` and
`interrupt_clear` are a load and a store on this machine and run with interrupts on.  `pc` is
the place of the main loop.  `mishap` is history: a flag was undone ("raced"), a buffer was
complete before the other one was copied ("late"), a flag was left from the recording before
("stale").

| Code | Actions |
|---|---|
| the DMA; `ISR(DMA_CH2_vect)`, `ISR(DMA_CH3_vect)` | `DmaBurst`, `DmaDone` |
| `ISR(TCC0_OVF_vect)`, `interrupt_set` | `TimerLoad`, `TimerStore` |
| `main`: wake-up, the three flag tests, `interrupt_clear` | `Wake`, `NotSet`, `Tick`, `CopyBuffer`, `ClearStore` |
| `samples_uart_write(0)`, `samples_store_write` | `Write` with `UartWrite`, or with `StoreWait`, `StoreNothing`, `StoreBuffer` |
| `samples_start`, from a message or from the button | `SamplesStart` |
| `samples_stop` | `SamplesStop`, `Drain` for each pass of its loop, `Close` |
| the other messages; the UART's DMA channel | `Receive`, `UartDone` |
| `halt`, and the reset it ends in | the disjuncts with `Halt`, `Reset` |

The DMA handlers are of a higher level than the timer's and are one step; main runs only while
no handler does.  A recording or a stream may be started while another one runs, by a message:
`samples_start` does not look.  The block writes that the SD driver then refuses, and a file that
is not open, are `StoreFails`.  A download borrows the ring buffer and the frame counters while
nothing is
recorded; `samples_init` sets them up again, so that it is left out here.

### Panel and Control

`Panel` has the button and the LED as functions from a state and the milliseconds since the
update before to the next state, because the main loop may come to them late.  `blink_ms` has 16
bits and keeps counting through a row of pulses (`blink.c:42`): behind `BLINK_WRAP` a long row
pauses until the counter is at the interval again.  In `Control` a
handler of `control.c` is a function of the firmware's state (`Now`) that stops where it
halts; the action that calls it stores the result.

| Code | Definitions |
|---|---|
| `control_got_uart_bytes`, `control_run_message` | `GotMessage`, `Run` (one case per message) |
| `control_button_press`, `control_button_hold` | `Press`, `Hold`, from `Tick` |
| `stop_sampling`, `samples_start`, `samples_stop` | `StopSampling`, `SamplesStart`, `SamplesStop` |
| `fs_init`, `fs_format`, `fs_open`, `fs_close` | `FsInit`, `FsFormat`, `FsCreate` and `FsOpenOld`, `FsClose` |
| `samples_store_write` and the SD driver's halts | `StoreBlock`, `OutOfOrder` |
| `blink_*`, `button_ms_timer_update` | `Panel` |
| `main` up to its loop | `Boot` |

The messages that only answer (`GET_GIT_HASH` and the like) change nothing here; they are in
`Download`.  What was done that a caller should have avoided is kept in the history `odd`: a
self test, a start while recording, a stream on a portable card, a card of unknown contents, a
card formatted because it was full.  The properties say which of them they exclude.  `too_long`
is a recording that has reached the end of the card: its last, partial block has no place, so that
`fs_close` returns `FS_ERROR_FILE_TOO_LONG` and `samples_stop` halts.

### UartParsers and UartLink

`FwParse` is the firmware's parser, `HostParse` the host's.  The firmware's starts over from
its read index at each call, and moves the index only past what it tossed or returned
(`FwConsumed`); the host's keeps a frame until it ends or times out.  `UartLink` runs both on
bytes: `Receive` is the interrupt handler (with the missing test for a full ring),
`GotUartBytes`, `Ack` and `Flush` are `control_got_uart_bytes`, `StreamPiece` is
`samples_uart_write(0)`; `Send`, `Listen` and `Timeout` are `control`, `ReadStream` is
`samples_read`.  A byte on the way to the firmware carries the number of its frame (history).

The faults are a byte the UART reports as bad, a write that `uart_tx` gives up on flow control,
and a timeout while an answer is due, `MAX_FAULTS` together.  A write given up counts
`CUT_WEIGHT` because the host's parser does not survive it and a timeout together: an ack cut
behind an escape byte and a timeout in the middle of the next sample frame leave the host an
END ahead for good (`sw/uart.c:99` takes an END without a START), and the session then need
not end.

### Download

`host` is the program's session: which call it is at, the tries, the frame it waits for, what it
has printed.  `to_fw` and `to_host` are whole requests and replies.  `Cut(r)` is what is left of
reply `r` when it broke off: no frame, but its bytes are in the host's buffer when it times out,
and `param_read_eeprom` looks at nothing but them.  `STRAY` is the end of a frame whose start was
flushed: the host's parser takes it for the end
of whatever begins next.

| Code | Actions |
|---|---|
| `main` of `battor.c` up to the first message | `Begin` |
| `control`, and the request loops around it | `Ask` |
| `uart_rx_bytes` and what the caller does with the frame | `Hear`, or `TimesOut` with an empty one; `After` |
| `param_check_version`, `param_read_eeprom`, `param_get_rtc_for_file` | `AfterTries`, `OutOfTries`, `HasBytes`, `IsEeprom`, `IsRtc`, `StampLeft` |
| `samples_read`, `samples_print_loop` | `AfterFrame` |
| `control_run_message` | `FwTell`, `FwSet`, `FwInit`, `FwStart`, `FwGetRtc`, `FwRead` |
| `fs_open`, `fs_close`, `fs_format` | `Quick`, `FsOpen`, `Hidden`, `Wipes`; `CardAfter`; `Formatted` |
| `halt` while recording | `FwHalt` |
| `samples_store_read_uart_frame` | `FwRead`, `FwSendBuffer` for each pass of its loop, `FwAbort`, `FwSendEnd` |
| the process is killed | `Kill` |

A file is counted in buffers; `Frame` computes with the same unsigned differences, modulo
`WORD`, as the code.  `card` is what else decides which file is found: the skip pointers there
are, any that closes may have left, and whether the last file ends so near the end of the card that
the next search that does not find its file formats it.  `FwHalt` is every way a recording may end
in a reset without a message: a start over another recording, whose ack has gone out when the driver
refuses the first block, a full ring, a close past the end of the card.  It counts as a fault.
Timeouts fall between two frames: the firmware never stops inside one
for the time of `UART_RX_ATTEMPTS` reads.  Sessions that read the sample count, only set the
clock, or run the self test are left out; `battor.c:203` takes whatever frame comes first for
the sample count, which is not looked into here.

When the UART's transmit channel stays busy, `samples_store_read_uart_frame` opens and sends
nothing (`fw/samples.c:341`), which `FwRead` has.  Its clean-up then sets the transmit buffer from
`uart_driver_tx_buffer`, which is only initialised behind that test (line 484): where later replies
are written then is undefined, and that is not modelled.

## 3. What is checked

| Run | Question | Bounds |
|---|---|---|
| `fs_crash` | do closed files and their bytes survive every order of recordings, formats, opens and crashes, and are the SD driver's halts never tripped? | 6 blocks of 2 bytes, recordings of 0 to 3 bytes, two payloads, three formattings |
| `fs_skip` | does the scan with skip pointers end at the last file, and find the files they do not lead past? | 9 blocks, skip length 2, files of 0 or 1 byte: pointers in a row, and a reformatted card with stale ones; files 2 and 3 asked for by number |
| `fs_store` | does the file system implement `TraceStore`, read back what was written, also of a file opened by number, and do its calls return? | 6 blocks, recordings of up to 4 bytes, reads of 2 bytes at every offset |
| `ring_buffer` | is the ring a bounded queue, and do its calls return? | 3 slots, 2 byte values, calls of 0 to 4 bytes |
| `sample_pipeline` | with the DMA's and the timer's interrupts anywhere in the loop, do samples keep their order and their frame, and does stopping write them all? | two recordings or streams of up to 3 buffers, a ring of 2, frames of 2 and then 1 buffers |
| `control` | do mode, card, open file and LED agree after any messages, presses, holds, ticks and boots, and does the firmware bring itself to a halt? | 2 files on the card; all times one unit; up to two odd things (`odd`) from one boot to the next |
| `uart_link` | does a host session get through, with only sent messages run and every ack true? | a session of two messages, the second starting a stream of 2 frames; a ring of 8 cells; 2 faults |
| `download` | is what is printed the requested file, and does a session end? | 2 files (ending inside a frame, longer than the sequence numbers) and recordings shorter than a calibration behind them; a skip length of 2; 2 sessions, 2 faults in each |
| `fs_download_full`, `fs_quick_open`, `fs_numbers_skipped`, `uart_link_partial` | four promises of the docs and tests the code breaks (section 5) | as above |

Why the bounds are enough.  A block of two bytes has a first, a last and a middle place, and
recordings of 0 to 4 bytes end before, at and behind a block boundary, once and twice.  Six
blocks hold a superblock, several files and the area at the end (two blocks) where no file
starts, so that files reach past the last allowed start, past the end of the card and are
dropped.  Three formattings let a startblock be stale by two.  A skip length of two puts
several skip files on nine blocks, the first with a pointer, the next without.  In the ring,
calls longer than the buffer, equal to it and shorter meet every pair of indices.
In the pipeline, three buffers fill both channels and come round to the first; a ring of two
overruns; with frames of two and one, a frame ends with the ring empty and not, and a second
and third frame begin.  In `control`, times of one unit let every update be the one at which a
limit is reached, or one before, and `BLINK_WRAP` of three lets a row of several pulses wrap;
two files leave a card empty, in use and full; what follows a third odd thing before the next
boot (`MAX_ODD`) is left to `ControlProofs`, which has no such bound.  In
`uart_link`, a message is six or seven bytes, so that a ring of eight overflows when a message
is sent again before the first was parsed, and bytes to be escaped are in type and value.  In
`download`, sequence numbers wrap at 4 and lengths at 16, so that both wrap within the files;
three tries are used up by the two faults and a stray end.  The recording a session finds running
becomes the third file, the first that a skip pointer leads to, past the second.

`MAX_FMT_ITER`, `MAX_FILE_LEN`, `WriteLens`, `ReadLens`, `OpenSeqs`, `MaxLen`,
`MAX_TAKEN`, `MAX_STARTS`, `MAX_LATE`, `MAX_ODD`, `MAX_FRAMES`, `MAX_FAULTS`, `RECORDED` and `MAX_SESSIONS`
are bounds of the model, not of the code; the theorems hold for all values of them.

The properties, by the hazard they are for:

- Power loss and stale blocks: `FilesOnDisk`, `ContentIntact`, `NoStaleFile`.  Startblocks of
  earlier formattings and of lost recordings stay on the card, and an interrupted format
  leaves all of them; only `fmt_iter` and `seq` tell them from the next file.
- Skip pointers: `SkipsSound`, `OpenLastFindsLast`, `NewFileFollows`.  A pointer is written
  after the file it leads to, and may be missing after a crash.  `OpenByNumberUnlessSkipped`
  says which files can be opened by number: those that no pointer leads past.
- Order of the SD driver: `SdProtocol`.
- Reads through one cached block: `ReadBack`.
- The end of the card: `CloseReturnsEventually`, `OpenReturnsEventually`.
- All at once: `ImplementsStore`.  The traces are read off the card, and only the step that
  writes a startblock may add one, with everything `fs_write` had accepted, and only a
  format may remove them, all together.
- The ring: `Contents`, `CallFits`, `CallReturns`, and `ImplementsFifo`, in which a write takes
  effect when it returns and a read likewise.
- Interrupts: `InOrder`, `NothingLost`.  The flag of a buffer can be undone by the timer's
  handler or by main's clearing of another flag, and then the buffer is not copied; a buffer
  can be overwritten while it waits.  The two say that nothing else goes wrong: without a
  late copy no disorder, without an undone flag no loss.
- The start and the end of a recording: `CalibrationEnds`, `FramePosition`,
  `CloseKeepsAllButOne`, `StopEnds`.  `samples_stop` does not copy a buffer whose flag is up,
  which is the one buffer a closed file may miss.
- Modes: `RecordingHasFile`, `HaltNeedsRestart`, `ModeMatchesCard`.  Starting to sample while a
  recording runs opens a second file inside the first's multi-block write, and the driver
  halts; that, the self test, and closing a recording past the end of the card are the only ways
  there.
- Front panel: `StrobeShowsFile`, `OncePerPress`, `RowShowsCount`.
- Link: `RunsOnlySent`, `LostBehindHarmed`, `AckMeansRun`, `StreamAsSent`, `SessionEnds`, and
  `SelfTestPasses`, the cases of `uart_self_test` run on the model's parser.  `RunsOnlySent` is
  a property of few losses: frames carry no checksum, and when the back of one and the front of
  the next are lost, one message is made of two.
- Download: `DownloadIsFile`, `RtcOfFile`, `CleanSessionSucceeds`, `DownloadEnds`.  A file that
  a skip pointer leads past is not found, although it is there, and the search for it may format a
  full card; a time stamp the host has warned of may be anything; a file of more frames than 16
  bits count is asked for without end; a session that begins with a stray end on the line may give
  up on a BattOr that answers.

Fairness.  In `FileSystem`, weak fairness of the steps of a running call, because a C function that was called
runs on; of `UpdatePoll(TRUE)`, because the card finishes a block it accepted; of the copying
of `fs_update`, because the main loop calls `samples_store_write` in every pass.  Nothing is
assumed of the callers: no call need ever be made, and a crash may come at any time.
In `SamplePipeline`, strong fairness of the main loop, because an interrupt handler returns
and does not take all the time there is, of a block write's end, and weak fairness of the timer
handler's second half and of the end of a UART transfer.  In `UartLink` and `Download`, weak
fairness of bytes that arrive, of the firmware's loop and of the host's program; no fault ever
has to happen, and a session that is killed need not go on.  In `UartLink` the fairness is
written out as "infinitely often disabled or taken", which for TLC is the cheaper form.

Deadlock is checked in every run but those of the link and of the download, where the
stream, the sessions and the faults are used up and everything stops.

## 4. What is proved

`FileSystemProofs`, from `FileSystemAssumption` alone (a block has a byte, the card is larger
than the area at its end, the skip length is above 1):

- `Invariant`: `Spec => []IInv`.
- `TypeCorrect`, `FilesStayOnDisk`, `NothingStalePasses`, `SkipsLeadToFiles`: the type
  invariant, `FilesOnDisk`, `NoStaleFile` and `SkipsSound`.
- `NewFileIsBehindLast` and `LastFileIsFound`: the action properties `NewFileFollows` and
  `OpenLastFindsLast`.
- `NumberIsFound`: `OpenByNumberUnlessSkipped`, with one more invariant (`NotPassed`): a scan
  for a file that no pointer leads past has not passed that file.

None of these is inductive alone.  That no stale block passes for the next file rests on a
statement about every startblock of the card (`Numbered`): none is from a later formatting,
and none of this formatting has a number above the last file.  That a write disturbs no file
rests on the files' order (`Ordered`) and on the recording being behind them
(`RecordingInv`), which the scan establishes (`ScanInv`: the block it looks at next is the
place of file `g_fs_file_seq`, and the skip file it passed last is at most a skip length
back).  `SkipInv` adds to `SkipsSound` that only skip files have pointers.  `CloseInv` holds
the startblock together while it waits in RAM, and the pair of files between the startblock
and the pointer to it.  `FormatInv` carries the scan's start through a format.

The proof has one lemma per group of steps for the types (`OpenType`, `ScanType`, ...), one
for each kind of block write (`DataWritten`, `SuperWritten`, `OnesWritten`, `FileSaved`,
`SkipSaved`), and one per group of steps for the invariant (`OpenInv`, `ScanInvStep`, ...),
put together in `StepInv`.  `SkipGap` and `SkipNext` are the arithmetic of the skip files.

`FileSystemDataProofs` adds what the blocks hold, from the same assumption and on top of
`IInv`: `WritesInOrder` (`SdProtocol`), `BytesStayOnDisk` (`ContentIntact`) and
`ReadsReturnFile` (`ReadBack`).

- `DriverInv`: the driver's busy flag is the file system's, the card is idle when no recording
  is open, and the last block of an open multi-block write is the last complete block of the
  recording, or the recording is past the end of the card.  Hence the next block, and the
  partial one of `fs_close`, are in order (`UpdateDriver`, `LastInOrder`).
- `DataInv`: what is left of a write is what was accepted and not copied (`CopyInv`); the
  bytes of the complete blocks are on the card and the others in RAM, until `fs_close` has
  written their block (`BytesInv`); and the closed files are on the card (`FilesOnCard`).  A
  block that is filled has its bytes (`FilledHas`), one that is written adds them to the card
  (`BlockSaved`), and a write at or behind the end of the last file, or one that changes a
  startblock only, disturbs no file (`BytesBelow`, `FilesKept`).
- `ReadingInv`: a file open to be read is one of the log, the buffer is the block `block_idx`
  says unless a read was refused, and what was read are bytes of that file.  One step of
  `fs_read` stays in one block (`ReadBlocks`).

The module's last part is the refinement of `TraceStore`, `StoreImplemented`:
`Spec => ImplementsStore`, from the same assumption.  It has three parts.

- The function that reads the traces off the card is recursive, so that one must be shown to
  exist first.  One that reads the last `n` blocks extends to `n + 1` (`OneBlockMore`), because
  a file always leads to a block behind it; the least `n` at which there is none does not
  exist (`Smallest`, the well-foundedness of `<`, in place of an induction).
- Under `IInv` that function reads the files of the log: nothing behind the last one, by
  `NoStaleFile`, and each file in front of what is read behind it (`LogRead`).
- Every step is one of the store: `ScanCreate` starts a recording, `FsWrite` extends it (or
  leaves it, when it writes nothing), `FsRtcSet` stamps it, the write of the startblock saves
  it, that of the superblock erases the traces, an open, a format or a crash may lose the
  recording, and every other step changes neither (`QuietSteps`).  Two invariants are new: a
  file is created with no time (`NoTimeYet`), and the startblock is written with all bytes
  copied (`AllCopied`), so that what is saved is what `fs_write` accepted.

`BlockParts`, `BlockDivision` and `BlocksMonotone` are the arithmetic of bytes and blocks: the
block length is a constant, and the products are out of the solver's reach without them.

`RingBufProofs`, from `RingBufAssumption` (the buffer has a byte): `InvHolds`, and from it
`TypeCorrect`, `IndicesAgree`, `ContentsKept`, `OldestFirst` and `CallsFit`, for every size of the buffer,
every set of byte values and every length of call.  The inductive invariant is the
conjunction of these five properties: `CallFits` is what keeps `Contents` inductive in the
middle of a call.  `IsQueue` is the refinement: `Spec => ImplementsFifo`.  Under the invariant,
and `Moved` (what a call has moved so far), the queue of the mapping is told by the history
(`QueueIsHistory`); a chunk leaves it alone (`WriteChunkStep`, `ReadChunkStep`), and the return
of a call is `Put`, `Get` or, when it moved nothing, `Fail` (`ReturnStep`).

`SamplePipelineProofs`, from `SamplePipelineAssumption` (frames and the ring have room for a
buffer): `Invariant`, and from it `BuffersInOrder`, `NoBufferLost`, `CalibrationIsFirstFrame`,
`FramesInPlace` and `ClosedFileIsWhole`, which are all the safety properties of the run
`sample_pipeline`, for every size of frames and ring and every number of buffers.  The
inductive invariant adds what holds at the points where an interrupt may come: a word in
`main_reg` or `isr_reg` has no flag of a channel that is no longer set, and not the one main is
about to clear (`RegistersAgree`); as long as main is on time, a flagged buffer is the last one
taken, and the queue has earlier ones (`LastIsFlagged`); what was copied is what was taken less
what is flagged (`AllCounted`, which is what `CloseKeepsAllButOne` needs); the writer's counter
is the size of the calibration frame less what it has copied, until the reader resets it, which
it cannot before the frame is full (`CalibrationCounts`, with `FrameStates`).

`ControlProofs`, from `PanelAssumption` and `ControlAssumption` (times, files and lateness are
not 0): `Invariant`, `TypeCorrect`, and the six properties of the run `control`, for every
number of files, every length of a hold, a pulse and a row, and updates any time late.  A
handler is a function of the state `s`, so that the invariant is stated of any such state with
the oddities `o` met so far (`Sound(s, o)`), and each helper and handler has a lemma: what it
returns from a sound state is sound, with the oddities it adds.  `RunSound`, `PressSound` and
`HoldSound` are put together from these, and `StoreSound` carries them to the next state.  The
strengthening: an open file is the one behind the last, and the card has room for it
(`Steady`), which the count of files on the LED needs; a write is open only while recording, or
after a careless caller (`WritesFile`), which is why no handler halts by itself but for a
close that finds the recording too long; a stream that
was not started on a portable card leaves a card for USB (`Matches`); what the row has shown so
far (`RowState`); and only a button that is held may have acted (`ActedIsHeld`).

`DownloadProofs`, from `DownloadAssumption` (frames and tries are not empty; the length of a
file is below `WORD`, being a `uint32_t`): `SessionIsOwn`, and from it `DownloadsTheFile`
(`DownloadIsFile`) and `StampsTheFile` (`RtcOfFile`), for every number and length of files, every
length of frames, and any number of sessions and faults.  The step the properties rest on is that
a late reply of an earlier session never passes for one of this session.  Acknowledgements do it:
the firmware answers one and flushes what it has received, and the replies come in order, so that
behind the ack to `SET_RTC` there is nothing of an earlier session, and behind the one to
`GET_MODE_PORTABLE` nothing of an earlier call (`Fence`, `Behind`, `LinkInv`).  From then on every
request is answered from the same file (`Target`, `Steady`), whether or not a file is left open,
because nothing records any more and each search leaves the card as the next one needs it
(`OpenedTarget`).  When there is no such file, none turns up (`NoneFound`, `NoneStays`), also when
the search for it formats the card.  And frame `n` is what comes behind the frames before it
(`FrameJoins`), so that what was printed is a start of that file (`GotInv`).  `FileInv` holds the
frame that is being sent, and `LastInv` the file that is open when no number was given.

Its last part proves `CleanSessionsSucceed` (`CleanSessionSucceeds`), for every number of tries and
faults.  `TriesInv` keeps an account: of what is on its way, at most the first `b` messages are not
for the running call, and the tries, `b` and a reply that has broken off together have cost as many
faults, less the one that is waited for.  A late answer costs a try and takes one off `b`
(`HearKeepsTries`); a timeout has cost a fault, now or when the message or its answer was lost
(`TimeoutKeepsTries`); a reset the host asked for loses only requests that were stale already
(`ResetKeepsTries`), and a halt has cost a fault (`HaltKeepsTries`).

What the host hears first is a `CHOOSE` of the least place of a reply that is heard; `Least`, that
a set of numbers has a least element, is taken from the well-foundedness of `<`, which the library
states about sets.

`UartLinkProofs`, from `UartLinkAssumption` (a ring has a cell; the messages of a session are of
different types, and the last, which starts the stream, is of a type that no escape byte stands
before): `FramesKept` (`LostBehindHarmed`), for every session, every size of the ring and
any number of framing errors, overruns and flushes, and `OnlySentRuns` (`RunsOnlySent`) under the
hypothesis that the UART gets no byte wrong, with any number of overruns, flushes, timeouts and
cut acks.  Both invariants speak of the line, which is what is in the ring and behind it what is
on the way: each byte has a place in the frame it belongs to, and goes on from the byte before it
but for what was lost (`Placed`).

- `KeptInv` (for `FramesKept`): the places exist, the line begins with a frame's first byte when
  that frame and the one before lost nothing (`FirstWhole`), and such a frame that is gone from
  the line was run (`RunOnceGone`).  The step is `KeptTake`, a call of the parser: the end of a
  frame that lost nothing leaves the parser at rest (`RestBefore`), and a parser at rest in front
  of a whole frame returns it (`FrameParsed`, `FrameMet`).  `RestBefore` needs that, wherever in a
  frame the parser starts, it is at rest or done at the frame's end (`MidwayAlong`).
- `RunInv` (for `OnlySentRuns`): nothing is missing from the line but a front, and the frames that
  were run are before those in the line.  A parser that starts late in a frame has too few bytes
  at its end (`LateStartAlong`), so that a message of full length is a whole frame (`WholeIsGot`).

`OnlySentRuns` cannot do without its hypothesis: with enough bytes lost, one message is made of
two (section 3).  That two lost bytes are too few for it stays with the run.

`HostLinkProofs`, from the same assumption, is about the other direction.  Here nothing is lost on
the way, but a write is given up in the middle of a frame, an ack comes between the pieces of a
frame of the stream, a resend gets a second ack, and the host forgets what it has parsed at every
call and every timeout.  The bytes on their way have roles (`OnWire`): each is of an ack or of a
piece of the stream, and goes on from the one before it or begins where that one closed.  What the
host's parser makes of them is in two lemmas: a parser at rest in front of a whole frame returns
that frame (`TakenInOrder`), and one that is out of step may take bytes of several, but takes for
an ack only what ends in one, with its type and value (`TakenAstray`, over `MetAlong`).

- `AcksMeanRun` (`AckMeansRun`), under the hypothesis that the UART gets no byte wrong.  `AckInv`
  adds to `RunInv`: every ack on its way, if none was cut, is of a message that was run
  (`AcksOnWire`); the messages sent are those of the session up to the one the host is at
  (`SentOfSession`), so that an ack of the right type is of the right message; and the stream
  starts only when the host is at the last message, so that before it only whole acks are on their
  way.
- `StreamInOrder` (`StreamAsSent`), for every session, every number of frames and faults.  It needs
  no hypothesis; what the property excludes, a cut, a torn frame and a second start, is in `odd`.
  `StreamInv`: between the frame the host is at and the one the firmware is at there is every frame
  in its turn, and in front of them one ack of `START_SAMPLING` for as long as the host is not
  behind it (`Ahead`); or that ack went to an earlier call, as it can when wrong bytes make a
  message that starts the stream, and then the host never reads at all (`Astray`).  The steps: a
  whole frame is taken (`StreamTaken`), a piece is sent (`StreamMore`), and the ack is taken by
  its call or by an earlier one (`AheadGone`, `AheadLost`).

`AcksMeanRun` has its hypothesis from `OnlySentRuns`: a message that was made of two would be
acknowledged as if it had been sent.

Only model-checked: liveness, which is out of the prover's reach; `RunsOnlySent` and `AckMeansRun`
with a few lost bytes; and `SelfTestPasses`, which evaluates the parser on given bytes.

## 5. Where the code and the docs part

- `fs_download_full`.  Opening a file to read it, for a download or by `fs_info` at boot, runs
  the same scan as creating one.  When the last file ends in the last `FS_LAST_FILE_BLOCKS`
  blocks, the scan formats the card (`fs.c:280`) and the traces are gone; a portable card
  comes back in USB mode.
- `fs_quick_open`.  `fs_open(0, 0)` answers from RAM when a file is open (`fs.c:150`), and after
  a download by number that file is not the last one.
- `fs_numbers_skipped`.  The scan takes a skip pointer without looking at the number it was
  asked for (`fs.c:219`), so that once there are more than `FS_FILE_SKIP_LEN` files, most of
  them cannot be downloaded by number.

- `uart_link_partial`.  `parser_begin` moves the read index past the byte it is about to try
  again (`fw/drivers/uart.c:263`).  When that is the START of a whole frame behind a broken-off
  one, and its rest is not in yet, the next call finds the rest without a START and tosses it.
  The self test has the two situations one at a time (`uart.c:503`, `uart.c:561`), not together.
  The host sends again after its timeout, so that `SessionEnds` holds all the same.

What does hold, with or without pointers, is `OpenByNumberUnlessSkipped` (`fs_skip`, proved as
`NumberIsFound`).

The properties of the other runs that hold only with an exception name it, and the exceptions
are behaviours of the code too: a flag undone between the load and the store of another one
(`interrupt.h:27`), a flag that outlives its recording (`samples.c:124`), a start while recording (`control.c:96`), a stream started on a portable card
(`control.c:91`), a foreign card booted as a portable one (`fs.c:85`), files that never finish
downloading (`sw/samples.c:172`), a stray END that uses up the tries (`sw/uart.c:99`), a
recording that cannot be closed because its end lies past the card's (`fs.c:350`).  No doc
or test says otherwise of them, so that they are in the properties and not in the list above.

One more has no run of its own, and is the exception `host.warned` of `RtcOfFile` (`download`).
When the tries for a file's time are used up, the host warns that it starts at zero and clears the
time stamp (`battor.c:233`); but `sizeof(rtc)` is that of the local `char rtc` of line 35, which
hides the type, and one byte of eight is cleared.  What the last try received stays, and a good
reply to the last try counts as none (`params.c:36`): after two lost messages and a good reply to
the third the file starts at its own time less the low byte, after a late reply to something else
at any time (`StampLeft`).

## 6. Not modelled

- The analogue front end, the buses, the register set-up and the EEPROM: no protocol state above
  the hardware's.
- The SPI commands of the SD driver and a card that rejects a command or is busy for ever: the
  driver halts or waits, and what the card does is not in the code.
- What buffers hold: the averaging of `samples_ovs`, the conversion to volts on the host
  (floating point), the printing.
- The wall clock of `timer.c`, and the tick counter's being read while it changes: LED and
  button are updated after any time in the models, which includes a wrong one.
- The sample count a START byte is stamped with, and the session that reads it.
- The self tests, but for the cases of `uart_self_test` and for what `fs_self_test` does to the
  card.
- Argument parsing, scripts and build files.
