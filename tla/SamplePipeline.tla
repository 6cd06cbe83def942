--------------------------- MODULE SamplePipeline ---------------------------
(***************************************************************************)
(* How samples get from the ADC into a file or a stream (fw/samples.c,     *)
(* drivers/dma.c, interrupt.h and the main loop of main.c).                *)
(*                                                                         *)
(* The DMA fills two buffers in turn, on channels CH2 and CH3, and raises  *)
(* a flag in g_interrupt for each full one.  The main loop copies a        *)
(* flagged buffer to the ring buffer and clears its flag; it then moves    *)
(* buffers on, to the file system or to the UART.  Buffers are numbered    *)
(* in the order they were taken; what a buffer in memory holds is the set  *)
(* of the numbers its samples come from, more than one when it is torn.    *)
(*                                                                         *)
(* Clearing a flag is a load and a store, with interrupts on, and so is    *)
(* setting the flag of the low-priority timer: the DMA interrupt may come  *)
(* in between.  The file system is the one of module FileSystem, reduced   *)
(* here to what the pipeline sees of it: accepting a buffer, busy, failed. *)
(* A download borrows the ring buffer and the frame while nothing is taken *)
(* (module Download); samples_init sets them up again.                     *)
(***************************************************************************)
EXTENDS Integers, Sequences, FiniteSets

CONSTANTS
    SAMPLES_LEN_PER_CAL_FRAME,     \* buffers in the first frame (5)
    SAMPLES_LEN_PER_DATA_FRAME,    \* buffers in every other frame (50)
    RING_LEN,                      \* buffers the ring buffer has room for
    MAX_TAKEN,                     \* bound: buffers taken in a recording
    MAX_STARTS                     \* bound: recordings

ASSUME SamplePipelineAssumption ==
    /\ SAMPLES_LEN_PER_CAL_FRAME \in Nat \ {0}
    /\ SAMPLES_LEN_PER_DATA_FRAME \in Nat \ {0}
    /\ RING_LEN \in Nat \ {0}
    /\ MAX_TAKEN \in Nat /\ MAX_STARTS \in Nat

VARIABLES
    sampling, fill, adcb, taken,   \* the DMA: on, channel, buffers, count
    g_interrupt,                   \* the flags that are set
    main_reg, isr_reg,             \* a flag word loaded and not yet stored
    pc, caller,                    \* the main loop; who called samples_stop
    mode,                          \* g_control_mode, as samples.c tells it
    ring,                          \* the contents of the ring buffer
    frame,                         \* state, reads_remaining and seqnum
    writes_remaining, calibrated, cal_end,
    fs_busy,                       \* the file system has a buffer to write
    tx_busy,                       \* the UART's DMA channel is running
    out,                           \* history: buffers written or sent
    starts, mishap                 \* history: recordings; what went wrong

dmaVars   == <<sampling, fill, adcb, taken>>
flagVars  == <<g_interrupt, main_reg, isr_reg>>
frameVars == <<ring, frame, writes_remaining, calibrated, cal_end, out>>
ioVars    == <<fs_busy, tx_busy>>
vars == <<dmaVars, flagVars, pc, caller, mode, frameVars, ioVars, starts,
          mishap>>

Channels == {"CH2", "CH3"}
Flags    == Channels \cup {"TIMER_MS"}
Other(c) == IF c = "CH2" THEN "CH3" ELSE "CH2"
Handlers == [TIMER_MS |-> "CH2", CH2 |-> "CH3", CH3 |-> "write"]  \* and next

(* The channels whose buffer main has yet to copy. *)
Uncopied == {c \in Channels \cap g_interrupt : pc # c \/ main_reg = <<>>}

FirstFrame == [state |-> "PRE", reads |-> SAMPLES_LEN_PER_CAL_FRAME, seqnum |-> 0]

Init ==
    /\ sampling = FALSE /\ fill = "CH2" /\ taken = 0
    /\ adcb = [c \in Channels |-> {}]
    /\ g_interrupt = {} /\ main_reg = <<>> /\ isr_reg = <<>>
    /\ pc = "sleep" /\ caller = "rx" /\ mode = "idle"
    /\ ring = <<>> /\ out = <<>> /\ frame = FirstFrame
    /\ writes_remaining = SAMPLES_LEN_PER_CAL_FRAME
    /\ calibrated = FALSE /\ cal_end = 0
    /\ fs_busy = FALSE /\ tx_busy = FALSE
    /\ starts = 0 /\ mishap = {}

Running == pc # "halted"
Main(at) == pc = at /\ isr_reg = <<>>    \* main runs: no interrupt handler does
Halt == pc' = "halted"

-----------------------------------------------------------------------------
(* Interrupt handlers and hardware *)

(* The first samples of the next buffer land on what the channel held. *)
DmaBurst ==
    /\ Running /\ sampling /\ taken < MAX_TAKEN /\ taken + 1 \notin adcb[fill]
    /\ adcb' = [adcb EXCEPT ![fill] = (IF fill \in Uncopied THEN @ ELSE {})
                                        \cup {taken + 1}]
    /\ UNCHANGED <<sampling, fill, taken, flagVars, pc, caller, mode,
                   frameVars, ioVars, starts, mishap>>

(* Mutant: no test for a flag that is still set. *)
MutDmaOverflow(c) == FALSE

DmaOverflow(c) == c \in g_interrupt

(* The transfer completes, and the handler of its channel runs. *)
DmaDone ==
    /\ Running /\ sampling /\ taken + 1 \in adcb[fill]
    /\ IF DmaOverflow(fill)
       THEN Halt /\ UNCHANGED <<g_interrupt, mishap>>
       ELSE /\ g_interrupt' = g_interrupt \cup {fill}
            /\ mishap' = mishap \cup
                 (IF Other(fill) \in Uncopied THEN {"late"} ELSE {})
            /\ UNCHANGED pc
    /\ adcb' = [adcb EXCEPT ![fill] = {taken + 1}]
    /\ taken' = taken + 1 /\ fill' = Other(fill)
    /\ UNCHANGED <<sampling, main_reg, isr_reg, caller, mode, frameVars,
                   ioVars, starts>>

(* interrupt_set in the timer's handler *)
TimerLoad ==
    /\ Running /\ isr_reg = <<>>
    /\ isr_reg' = <<g_interrupt \cup {"TIMER_MS"}>>
    /\ UNCHANGED <<dmaVars, g_interrupt, main_reg, pc, caller, mode, frameVars,
                   ioVars, starts, mishap>>

(* Storing word undoes a DMA flag that was set since it was loaded. *)
Raced(word) ==
    IF g_interrupt \cap Channels \subseteq word THEN {} ELSE {"raced"}

TimerStore ==
    /\ Running /\ isr_reg # <<>>
    /\ g_interrupt' = isr_reg[1] /\ isr_reg' = <<>>
    /\ mishap' = mishap \cup Raced(isr_reg[1])
    /\ UNCHANGED <<dmaVars, main_reg, pc, caller, mode, frameVars, ioVars, starts>>

(* A UART transfer completes; RTS may hold it up for as long as it likes. *)
UartDone ==
    /\ tx_busy /\ tx_busy' = FALSE
    /\ UNCHANGED <<dmaVars, flagVars, pc, caller, mode, frameVars, fs_busy,
                   starts, mishap>>

-----------------------------------------------------------------------------
(* The main loop: flags *)

Wake ==
    /\ Main("sleep") /\ pc' = "TIMER_MS"
    /\ UNCHANGED <<dmaVars, flagVars, caller, mode, frameVars, ioVars, starts,
                   mishap>>

NotSet ==
    /\ pc \in Flags /\ Main(pc) /\ main_reg = <<>> /\ pc \notin g_interrupt
    /\ pc' = Handlers[pc]
    /\ UNCHANGED <<dmaVars, flagVars, caller, mode, frameVars, ioVars, starts,
                   mishap>>

ClearLoad(flag) == main_reg' = <<g_interrupt \ {flag}>>

ClearStore ==
    /\ pc \in Flags /\ Main(pc) /\ main_reg # <<>>
    /\ g_interrupt' = main_reg[1] /\ main_reg' = <<>>
    /\ mishap' = mishap \cup Raced(main_reg[1] \cup {pc})
    /\ pc' = Handlers[pc]
    /\ UNCHANGED <<dmaVars, isr_reg, caller, mode, frameVars, ioVars, starts>>

(* The timer's handlers, when no button is pressed. *)
Tick ==
    /\ Main("TIMER_MS") /\ main_reg = <<>> /\ "TIMER_MS" \in g_interrupt
    /\ ClearLoad("TIMER_MS")
    /\ UNCHANGED <<dmaVars, g_interrupt, isr_reg, pc, caller, mode, frameVars,
                   ioVars, starts, mishap>>

(* Mutant: the calibration ends one buffer late. *)
MutEndsCalibration(left) == ~calibrated /\ left = -1

EndsCalibration(left) == ~calibrated /\ left = 0

(* samples_ringbuf_write of the channel's buffer, or the halt on overrun *)
CopyBuffer ==
    /\ pc \in Channels /\ Main(pc) /\ main_reg = <<>> /\ pc \in g_interrupt
    /\ LET left == writes_remaining - 1 IN
       /\ writes_remaining' = left
       /\ calibrated' = (calibrated \/ EndsCalibration(left))
       /\ cal_end' = IF EndsCalibration(left) THEN taken ELSE cal_end
    /\ IF Len(ring) < RING_LEN
       THEN /\ ring' = Append(ring, adcb[pc]) /\ ClearLoad(pc)
            /\ UNCHANGED pc
       ELSE Halt /\ UNCHANGED <<ring, main_reg>>
    /\ UNCHANGED <<dmaVars, g_interrupt, isr_reg, caller, mode, frame, out,
                   ioVars, starts, mishap>>

-----------------------------------------------------------------------------
(* The main loop: moving buffers on *)

(* Mutant: the frame after the first has the size of the first. *)
MutNextFrame ==
    /\ frame' = [FirstFrame EXCEPT !.seqnum = frame.seqnum + 1]
    /\ writes_remaining' = SAMPLES_LEN_PER_DATA_FRAME

(* samples_uart_write: the end of a frame *)
NextFrame ==
    /\ frame' = [state |-> "PRE", reads |-> SAMPLES_LEN_PER_DATA_FRAME,
                 seqnum |-> frame.seqnum + 1]
    /\ writes_remaining' = SAMPLES_LEN_PER_DATA_FRAME

(* samples_uart_write: a buffer from the ring into a frame begun as f *)
ReadBuffer(f) ==
    /\ ring # <<>>
    /\ out' = Append(out, Head(ring)) /\ ring' = Tail(ring)
    /\ frame' = [f EXCEPT !.state = IF f.reads = 1 THEN "END" ELSE "MID",
                          !.reads = f.reads - 1]

(* samples_uart_write(0): one part of a frame, or nothing when there is     *)
(* none, when the DMA channel is busy or when the host holds RTS.           *)
UartWrite ==
    \/ UNCHANGED <<ring, frame, out, writes_remaining, tx_busy>>
    \/ /\ ~tx_busy /\ frame.state = "PRE" /\ ring # <<>>
       /\ frame' = [frame EXCEPT !.state = "MID"]
       /\ UNCHANGED <<ring, out, writes_remaining, tx_busy>>
    \/ /\ ~tx_busy /\ frame.state = "MID"
       /\ ReadBuffer(frame) /\ tx_busy' = TRUE
       /\ UNCHANGED writes_remaining
    \/ /\ ~tx_busy /\ frame.state = "END"
       /\ NextFrame
       /\ UNCHANGED <<ring, out, tx_busy>>

(* Mutant: with nothing to read, the end of a frame is not passed over. *)
MutStoreNothing ==
    /\ ~tx_busy /\ ~fs_busy /\ ring = <<>> /\ frame.state # "END"
    /\ UNCHANGED <<frame, writes_remaining, ring, out, fs_busy>>

(* samples_store_write with nothing to write: it returns 0 *)
StoreNothing ==
    /\ ~tx_busy /\ ~fs_busy /\ ring = <<>>
    /\ IF frame.state = "END" THEN NextFrame
       ELSE UNCHANGED <<frame, writes_remaining>>
    /\ UNCHANGED <<ring, out, fs_busy>>

(* samples_store_write handing a buffer to fs_write *)
StoreBuffer ==
    /\ ~tx_busy /\ ~fs_busy
    /\ IF frame.state = "END"
       THEN /\ ReadBuffer([state |-> "PRE", reads |-> SAMPLES_LEN_PER_DATA_FRAME,
                           seqnum |-> frame.seqnum + 1])
            /\ writes_remaining' = SAMPLES_LEN_PER_DATA_FRAME
       ELSE ReadBuffer(frame) /\ UNCHANGED writes_remaining
    /\ fs_busy' = TRUE

(* samples_store_write waiting for the UART, or continuing a write *)
StoreWait ==
    /\ tx_busy \/ fs_busy
    /\ fs_busy' \in (IF tx_busy THEN {fs_busy} ELSE BOOLEAN)
    /\ UNCHANGED <<ring, frame, out, writes_remaining>>

(* fs_write finds no file, or the driver halts on a block of the write that *)
(* is going on.                                                             *)
StoreFails == (StoreBuffer \/ (fs_busy /\ StoreWait /\ ~tx_busy)) /\ Halt

Write ==
    /\ Main("write")
    /\ \/ /\ mode = "idle" /\ pc' = "rx"
          /\ UNCHANGED <<frameVars, ioVars>>
       \/ /\ mode = "stream" /\ UartWrite /\ pc' = "rx"
          /\ UNCHANGED <<calibrated, cal_end, fs_busy>>
       \/ /\ mode = "store" /\ (StoreWait \/ StoreNothing \/ StoreBuffer)
          /\ pc' = "rx"
          /\ UNCHANGED <<calibrated, cal_end, tx_busy>>
       \/ /\ mode = "store" /\ StoreFails
          /\ UNCHANGED <<calibrated, cal_end, tx_busy>>
    /\ UNCHANGED <<dmaVars, flagVars, caller, mode, starts, mishap>>

-----------------------------------------------------------------------------
(* Starting and stopping, from a control message or from the button, whose  *)
(* handler runs in the timer's.                                             *)

InHandler ==
    \/ Main("rx")
    \/ Main("TIMER_MS") /\ main_reg = <<>> /\ "TIMER_MS" \in g_interrupt

Return(from) ==
    IF from = "rx" THEN pc' = "sleep" /\ UNCHANGED main_reg
    ELSE pc' = from /\ ClearLoad(from)

(* The messages that change nothing here; some answer by UART DMA. *)
Receive ==
    /\ Main("rx") /\ pc' = "sleep"
    /\ tx_busy' \in {tx_busy, TRUE}
    /\ UNCHANGED <<dmaVars, flagVars, caller, mode, frameVars, fs_busy,
                   starts, mishap>>

(* Mutant: what the last recording left in the ring buffer stays. *)
MutSamplesInit ==
    /\ frame' = FirstFrame /\ out' = <<>> /\ UNCHANGED ring
    /\ writes_remaining' = SAMPLES_LEN_PER_CAL_FRAME
    /\ calibrated' = FALSE /\ cal_end' = 0

(* samples_init and ringbuf_init *)
SamplesInit ==
    /\ ring' = <<>> /\ frame' = FirstFrame /\ out' = <<>>
    /\ writes_remaining' = SAMPLES_LEN_PER_CAL_FRAME
    /\ calibrated' = FALSE /\ cal_end' = 0

(* samples_start: samples_init, fs_open, dma_start.  A message may come     *)
(* while samples are taken; the button starts only what has stopped.        *)
SamplesStart(m) ==
    /\ InHandler /\ (pc # "rx" => m = "store" /\ mode = "idle")
    /\ starts < MAX_STARTS
    /\ starts' = starts + 1 /\ mode' = m /\ SamplesInit
    /\ adcb' = [c \in Channels |-> {}]
    /\ sampling' = TRUE /\ fill' = "CH2" /\ taken' = 0
    /\ fs_busy' = (m = "stream" /\ fs_busy)    \* fs_open, through fs_init
    /\ mishap' = IF Uncopied = {} THEN {} ELSE {"stale"}
    /\ \/ Return(pc)
       \/ m = "store" /\ Halt /\ UNCHANGED main_reg    \* ERROR_FS_OPEN_FAIL
    /\ UNCHANGED <<g_interrupt, isr_reg, caller, tx_busy>>

(* samples_stop, up to its loop *)
SamplesStop ==
    /\ InHandler /\ (sampling \/ mode = "store")
    /\ sampling' = FALSE
    /\ IF mode = "store" THEN pc' = "drain" /\ caller' = pc /\ UNCHANGED main_reg
       ELSE Return(pc) /\ UNCHANGED caller
    /\ UNCHANGED <<fill, adcb, taken, g_interrupt, isr_reg, mode, frameVars,
                   ioVars, starts, mishap>>

(* while (samples_store_write()) *)
Drain ==
    /\ Main("drain")
    /\ \/ (StoreWait \/ StoreBuffer) /\ UNCHANGED pc
       \/ StoreFails
    /\ UNCHANGED <<dmaVars, flagVars, caller, mode, calibrated, cal_end,
                   tx_busy, starts, mishap>>

(* Mutant: the loop over the ring buffer is left out. *)
MutDrained == ~tx_busy /\ ~fs_busy /\ UNCHANGED <<ring, out, fs_busy, frame,
                                                  writes_remaining>>

Drained == StoreNothing

(* the loop has ended; fs_close; stop_sampling leaves the store mode *)
Close ==
    /\ Main("drain") /\ Drained
    /\ \/ mode' = "idle" /\ Return(caller)
       \/ Halt /\ UNCHANGED <<mode, main_reg>>    \* ERROR_FS_CLOSE_FAIL
    /\ caller' = "rx"                           \* as long as nobody calls
    /\ UNCHANGED <<dmaVars, g_interrupt, isr_reg, calibrated, cal_end,
                   tx_busy, starts, mishap>>

(* halt resets the firmware; main comes up with nothing running. *)
Reset ==
    /\ pc = "halted"
    /\ sampling' = FALSE /\ fill' = "CH2" /\ taken' = 0
    /\ adcb' = [c \in Channels |-> {}]
    /\ g_interrupt' = {} /\ main_reg' = <<>> /\ isr_reg' = <<>>
    /\ pc' = "sleep" /\ mode' = "idle"
    /\ ring' = <<>> /\ out' = <<>> /\ frame' = FirstFrame
    /\ writes_remaining' = SAMPLES_LEN_PER_CAL_FRAME
    /\ calibrated' = FALSE /\ cal_end' = 0
    /\ fs_busy' = FALSE /\ tx_busy' = FALSE /\ mishap' = {}
    /\ caller' = "rx" /\ UNCHANGED starts

MainStep ==
    \/ Wake \/ NotSet \/ ClearStore \/ Tick \/ CopyBuffer \/ Write \/ Receive
    \/ Drain \/ Close

Next ==
    \/ MainStep
    \/ DmaBurst \/ DmaDone \/ TimerLoad \/ TimerStore \/ UartDone
    \/ \E m \in {"store", "stream"} : SamplesStart(m)
    \/ SamplesStop \/ Reset

(* The handlers return and the main loop goes on; a block write the card    *)
(* accepted ends (the driver polls it), and so does a UART transfer (the    *)
(* host does not hold RTS forever).                                         *)
FsDone   == MainStep /\ fs_busy /\ ~fs_busy'
Fairness == /\ SF_vars(MainStep) /\ WF_vars(TimerStore) /\ SF_vars(FsDone)
            /\ WF_vars(UartDone)

Spec == Init /\ [][Next]_vars
FairSpec == Spec /\ Fairness

-----------------------------------------------------------------------------
(* Properties *)

Contents == SUBSET (1 .. MAX_TAKEN)

TypeOK ==
    /\ sampling \in BOOLEAN /\ fill \in Channels /\ taken \in 0 .. MAX_TAKEN
    /\ adcb \in [Channels -> Contents]
    /\ g_interrupt \subseteq Flags
    /\ \A reg \in {main_reg, isr_reg} :
          reg = <<>> \/ (Len(reg) = 1 /\ reg[1] \subseteq Flags)
    /\ pc \in Flags \cup {"sleep", "write", "rx", "drain", "halted"}
    /\ caller \in {"rx", "TIMER_MS"} /\ mode \in {"idle", "store", "stream"}
    /\ ring \in Seq(Contents) /\ Len(ring) <= RING_LEN
    /\ out \in Seq(Contents)
    /\ frame \in [state : {"PRE", "MID", "END"}, reads : Nat, seqnum : Nat]
    /\ writes_remaining \in Int /\ calibrated \in BOOLEAN /\ cal_end \in Nat
    /\ fs_busy \in BOOLEAN /\ tx_busy \in BOOLEAN
    /\ starts \in 0 .. MAX_STARTS /\ mishap \subseteq {"late", "raced", "stale"}

(* The buffers of this recording that left the channels, oldest first. *)
Chain == out \o ring

(* As long as the main loop copies a buffer before the next one is full,    *)
(* and no flag is left over from the recording before, buffers enter the    *)
(* FIFO whole and in the order they were taken (main.c 63-81).              *)
InOrder ==
    mishap \cap {"late", "stale"} = {} =>
        \A i, j \in 1 .. Len(Chain) : i <= j =>
            \E m, n \in 1 .. taken :
                Chain[i] = {m} /\ Chain[j] = {n} /\ (i < j => m < n)

(* Unless a flag was undone, a buffer that was taken is on the FIFO, or     *)
(* still to be copied: being late reorders and tears buffers, or halts the  *)
(* firmware, but loses none (dma.c 29, 44).                                 *)
NothingLost ==
    "raced" \notin mishap /\ Running =>
        \A n \in 1 .. taken :
            \/ \E i \in 1 .. Len(Chain) : n \in Chain[i]
            \/ \E c \in Uncopied : n \in adcb[c]

(* The inputs leave ground when the buffer that completes the first frame   *)
(* was copied, and no later one is complete: the calibration frame holds    *)
(* grounded samples, and only the next buffer straddles the change.  (If    *)
(* the ring buffer has no room for it, the firmware halts.)                 *)
CalibrationEnds ==
    Running /\ calibrated /\ mishap \cap {"late", "stale"} = {} =>
        /\ Len(Chain) >= SAMPLES_LEN_PER_CAL_FRAME
        /\ Chain[SAMPLES_LEN_PER_CAL_FRAME] = {cal_end}

(* The frames cut the samples as the download later does (samples.c         *)
(* 397-420): frame 0 has the calibration, frame k the k-th run of data.     *)
FramePosition ==
    LET left == IF frame.state = "END" THEN 0 ELSE frame.reads
        size == IF frame.seqnum = 0 THEN SAMPLES_LEN_PER_CAL_FRAME
                ELSE SAMPLES_LEN_PER_DATA_FRAME
        base == IF frame.seqnum = 0 THEN 0
                ELSE SAMPLES_LEN_PER_CAL_FRAME
                       + (frame.seqnum - 1) * SAMPLES_LEN_PER_DATA_FRAME
    IN  Len(out) = base + size - left

(* A file that is closed has every buffer that was copied, the last ones    *)
(* written to the end; of those taken, it misses at most the one whose flag *)
(* was up when sampling stopped.                                            *)
CloseKeepsAllButOne ==
    [][(pc = "drain" /\ pc' \notin {"drain", "halted"}) =>
         /\ ring = <<>> /\ ~fs_busy
         /\ mishap = {} => taken - Len(out) \in {0, 1}]_vars

(* Stopping ends: the ring buffer is drained, or the firmware halts. *)
StopEnds == (pc = "drain") ~> (pc # "drain")

=============================================================================
