------------------------------- MODULE RingBuf ------------------------------
(***************************************************************************)
(* The ring buffer of the firmware (fw/ringbuf.c), in which the samples    *)
(* wait in the external SRAM between the DMA and the SD card or the UART.  *)
(* A call copies in chunks that end where the buffer does; each chunk is a *)
(* step.                                                                   *)
(***************************************************************************)
EXTENDS Integers, Sequences

CONSTANTS base_len,     \* bytes in the buffer (SRAM_SIZE_BYTES)
          Value,        \* the values of a byte
          MaxLen        \* bound: bytes in one call

ASSUME RingBufAssumption == base_len \in Nat \ {0} /\ MaxLen \in Nat

VARIABLES mem,                         \* the buffer itself
          read_idx, write_idx, len,    \* the fields of struct ringbuf
          pc,                          \* the call that runs
          src, dst,                    \* its argument; what it has read
          total, done,                 \* its len; its len_wrote or len_read
          ret,
          fifo, taken                  \* history: bytes stored; bytes read

rb   == <<read_idx, write_idx, len>>
call == <<src, dst, total, done>>
vars == <<mem, rb, pc, call, ret, fifo, taken>>

Slots == 0 .. base_len - 1

Init ==
    /\ mem \in [Slots -> Value]
    /\ read_idx = 0 /\ write_idx = 0 /\ len = 0
    /\ pc = "idle" /\ src = <<>> /\ dst = <<>> /\ total = 0 /\ done = 0
    /\ ret = 0
    /\ fifo = <<>> /\ taken = <<>>

(* ringbuf_init again, as samples_init does at every start of sampling *)
RingbufInit ==
    /\ pc = "idle"
    /\ read_idx' = 0 /\ write_idx' = 0 /\ len' = 0
    /\ ret' = 0
    /\ src' = <<>> /\ dst' = <<>> /\ total' = 0 /\ done' = 0
    /\ fifo' = <<>> /\ taken' = <<>>
    /\ UNCHANGED <<mem, pc>>

(* Mutant: an index that reaches the end stays there. *)
MutWrap(i) == i

Wrap(i) == IF i >= base_len THEN 0 ELSE i

-----------------------------------------------------------------------------
(* ringbuf_write *)

(* Mutant: off by one. *)
MutTooLong(n) == len + n > base_len + 1

TooLong(n) == len + n > base_len

Write(bytes) ==
    /\ pc = "idle"
    /\ src' = bytes /\ total' = Len(bytes) /\ done' = 0
    /\ dst' = <<>> /\ taken' = <<>>
    /\ IF TooLong(Len(bytes))
       THEN pc' = "idle" /\ ret' = -1
       ELSE pc' = "write" /\ ret' = 0
    /\ UNCHANGED <<mem, rb, fifo>>

(* Mutant: the chunk is not cut at the end of the buffer. *)
MutLenToWrite == total - done

LenToWrite == IF total - done < base_len - write_idx
              THEN total - done ELSE base_len - write_idx

WriteChunk ==
    /\ pc = "write" /\ done < total
    /\ mem' = [s \in Slots |->
                 IF s \in write_idx .. write_idx + LenToWrite - 1
                 THEN src[done + (s - write_idx) + 1] ELSE mem[s]]
    /\ done' = done + LenToWrite
    /\ write_idx' = Wrap(write_idx + LenToWrite)
    /\ len' = len + LenToWrite
    /\ fifo' = fifo \o SubSeq(src, done + 1, done + LenToWrite)
    /\ UNCHANGED <<read_idx, pc, src, dst, total, ret, taken>>

-----------------------------------------------------------------------------
(* ringbuf_read *)

Read(n) ==
    /\ pc = "idle"
    /\ src' = <<>> /\ total' = n /\ done' = 0
    /\ dst' = <<>> /\ taken' = <<>>
    /\ IF n > len
       THEN pc' = "idle" /\ ret' = -1
       ELSE pc' = "read" /\ ret' = 0
    /\ UNCHANGED <<mem, rb, fifo>>

LenToRead == IF total - done < base_len - read_idx
             THEN total - done ELSE base_len - read_idx

(* Mutant: the read starts at the base of the buffer. *)
MutReadBytes == [k \in 1 .. LenToRead |-> mem[k - 1]]

ReadBytes == [k \in 1 .. LenToRead |-> mem[read_idx + k - 1]]

ReadChunk ==
    /\ pc = "read" /\ done < total
    /\ dst' = dst \o ReadBytes
    /\ done' = done + LenToRead
    /\ read_idx' = Wrap(read_idx + LenToRead)
    /\ len' = len - LenToRead
    /\ fifo' = SubSeq(fifo, LenToRead + 1, Len(fifo))
    /\ taken' = taken \o SubSeq(fifo, 1, LenToRead)
    /\ UNCHANGED <<mem, write_idx, pc, src, total, ret>>

Return ==
    /\ pc \in {"write", "read"} /\ done >= total
    /\ pc' = "idle"
    /\ UNCHANGED <<mem, rb, call, ret, fifo, taken>>

-----------------------------------------------------------------------------
Sources == UNION {[1 .. n -> Value] : n \in 0 .. MaxLen}

Next == \/ RingbufInit
        \/ \E bytes \in Sources : Write(bytes)
        \/ \E n \in 0 .. MaxLen : Read(n)
        \/ WriteChunk \/ ReadChunk \/ Return

Spec == Init /\ [][Next]_vars
FairSpec == Spec /\ WF_vars(WriteChunk \/ ReadChunk \/ Return)

-----------------------------------------------------------------------------
TypeOK ==
    /\ mem \in [Slots -> Value]
    /\ read_idx \in Slots /\ write_idx \in Slots /\ len \in 0 .. base_len
    /\ pc \in {"idle", "write", "read"}
    /\ src \in Seq(Value) /\ dst \in Seq(Value)
    /\ total \in Nat /\ done \in Nat /\ ret \in {0, -1}
    /\ fifo \in Seq(Value) /\ taken \in Seq(Value)

(* The three fields agree: len bytes lie between the two indices, around    *)
(* the end of the buffer or not.  A full and an empty buffer both have the  *)
(* indices equal, and only len tells them apart.                            *)
IndexOK ==
    \/ write_idx = read_idx + len
    \/ write_idx = read_idx + len - base_len

Slot(i) == IF i < base_len THEN i ELSE i - base_len

(* The buffer holds the bytes written and not read, in order, wherever the  *)
(* chunks were cut: a write never touches a byte that is still to be read.  *)
Contents ==
    /\ Len(fifo) = len
    /\ \A k \in 1 .. len : fifo[k] = mem[Slot(read_idx + k - 1)]

(* A read returns the oldest bytes. *)
ReadReturnsOldest == dst = taken

(* A write that was accepted fits to its last chunk, and a read finds all    *)
(* it asked for.                                                             *)
CallFits ==
    /\ pc = "write" => len + (total - done) <= base_len /\ done <= total
                       /\ total = Len(src)
    /\ pc = "read" => total - done <= len /\ done <= total

(* Every call returns: the chunk loops end. *)
CallReturns == (pc # "idle") ~> (pc = "idle")

-----------------------------------------------------------------------------
(* The ring buffer implements the queue.  While a write runs, its bytes are  *)
(* not yet there; while a read runs, its bytes are still there.              *)

Stored(n) == [k \in 1 .. n |-> mem[Slot(read_idx + k - 1)]]

QueueNow ==
    CASE pc = "write" -> Stored(len - done)
      [] pc = "read"  -> dst \o Stored(len)
      [] OTHER        -> Stored(len)

Queue == INSTANCE Fifo WITH
    Size <- base_len,
    queue <- QueueNow,
    got <- IF pc = "idle" THEN dst ELSE <<>>

(* Reads and writes take effect whole and in order. *)
ImplementsFifo == Queue!Spec

=============================================================================
