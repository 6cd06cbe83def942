---------------------------- MODULE RingBufProofs ---------------------------
(***************************************************************************)
(* The ring buffer keeps the bytes it was given, in order, for every size  *)
(* of the buffer and every length of the calls.                            *)
(***************************************************************************)
EXTENDS RingBuf, SequenceTheorems, TLAPS

Inv == TypeOK /\ IndexOK /\ Contents /\ ReadReturnsOldest /\ CallFits

(* A stretch of n elements of a sequence, from behind its first i. *)
LEMMA Stretch ==
    ASSUME NEW S, NEW s \in Seq(S), NEW i \in Nat, NEW n \in Nat,
           i + n <= Len(s)
    PROVE  /\ SubSeq(s, i + 1, i + n) \in Seq(S)
           /\ Len(SubSeq(s, i + 1, i + n)) = n
           /\ \A k \in 1 .. n : SubSeq(s, i + 1, i + n)[k] = s[i + k]
<1>1. \A j \in i + 1 .. i + n : s[j] \in S
  BY ElementOfSeq
<1>2. /\ SubSeq(s, i + 1, i + n) \in Seq(S)
      /\ Len(SubSeq(s, i + 1, i + n))
            = IF i + 1 <= i + n THEN i + n - (i + 1) + 1 ELSE 0
      /\ \A k \in 1 .. i + n - (i + 1) + 1 :
            SubSeq(s, i + 1, i + n)[k] = s[i + 1 + k - 1]
  <2>1. i + 1 \in Int /\ i + n \in Int
    OBVIOUS
  <2> QED BY <1>1, <2>1, SubSeqProperties
<1>3. Len(SubSeq(s, i + 1, i + n)) = n
  BY <1>2
<1>4. ASSUME NEW k \in 1 .. n
      PROVE  SubSeq(s, i + 1, i + n)[k] = s[i + k]
  <2>1. k \in 1 .. i + n - (i + 1) + 1 /\ i + 1 + k - 1 = i + k
    OBVIOUS
  <2> QED BY <1>2, <2>1
<1> QED BY <1>2, <1>3, <1>4

(* The chunk that a write copies next is not empty, fits before the end of  *)
(* the buffer and is part of what is left to write.                         *)
LEMMA WriteChunkBounds ==
    ASSUME TypeOK, pc = "write", done < total
    PROVE  /\ LenToWrite \in Nat /\ LenToWrite > 0
           /\ LenToWrite <= total - done
           /\ write_idx + LenToWrite <= base_len
BY RingBufAssumption DEF TypeOK, LenToWrite, Slots

(* The same of the chunk that a read copies next. *)
LEMMA ReadChunkBounds ==
    ASSUME TypeOK, pc = "read", done < total
    PROVE  /\ LenToRead \in Nat /\ LenToRead > 0
           /\ LenToRead <= total - done
           /\ read_idx + LenToRead <= base_len
BY RingBufAssumption DEF TypeOK, LenToRead, Slots

LEMMA InitInv == Init => Inv
BY RingBufAssumption
   DEF Init, Inv, TypeOK, IndexOK, Contents, ReadReturnsOldest, CallFits, Slots

(* One chunk written keeps the invariant: it goes where no unread byte is. *)
LEMMA WriteChunkInv == ASSUME Inv, WriteChunk PROVE Inv'
<1> DEFINE m == LenToWrite
           chunk == SubSeq(src, done + 1, done + m)
<1> USE RingBufAssumption
<1>1. /\ m \in Nat /\ m > 0 /\ m <= total - done
      /\ write_idx + m <= base_len
  BY WriteChunkBounds DEF Inv, WriteChunk
<1>2. /\ total = Len(src) /\ src \in Seq(Value) /\ done \in Nat /\ total \in Nat
      /\ fifo \in Seq(Value) /\ Len(fifo) = len
      /\ len + (total - done) <= base_len
  BY DEF Inv, TypeOK, CallFits, Contents, WriteChunk
<1>3. \A i \in 1 .. Len(src) : src[i] \in Value
  BY <1>2, ElementOfSeq
<1>4. /\ chunk \in Seq(Value) /\ Len(chunk) = m
      /\ \A i \in 1 .. m : chunk[i] = src[done + i]
  BY <1>1, <1>2, Stretch
<1>5. /\ fifo' \in Seq(Value) /\ Len(fifo') = len + m
      /\ \A k \in 1 .. len + m :
            fifo'[k] = IF k <= len THEN fifo[k] ELSE src[done + (k - len)]
  <2>1. fifo' = fifo \o chunk
    BY DEF WriteChunk
  <2> HIDE DEF m, chunk
  <2>2. /\ fifo \o chunk \in Seq(Value)
        /\ Len(fifo \o chunk) = Len(fifo) + Len(chunk)
        /\ \A k \in 1 .. Len(fifo) + Len(chunk) :
              (fifo \o chunk)[k] = IF k <= Len(fifo) THEN fifo[k]
                                   ELSE chunk[k - Len(fifo)]
    BY <1>2, <1>4, ConcatProperties
  <2>3. len \in Nat
    BY DEF Inv, TypeOK
  <2>4. ASSUME NEW k \in 1 .. len + m
        PROVE  fifo'[k] = IF k <= len THEN fifo[k] ELSE src[done + (k - len)]
    <3>1. fifo'[k] = IF k <= len THEN fifo[k] ELSE chunk[k - len]
      BY <1>1, <1>2, <1>4, <2>1, <2>2
    <3>2. CASE k > len
      <4>1. k - len \in 1 .. m
        BY <1>1, <2>3, <3>2
      <4> QED BY <1>4, <2>3, <3>1, <3>2, <4>1
    <3> QED BY <1>1, <2>3, <3>1, <3>2
  <2> QED BY <1>2, <1>4, <2>1, <2>2, <2>4
<1>6. /\ mem' = [s \in Slots |-> IF s \in write_idx .. write_idx + m - 1
                                 THEN src[done + (s - write_idx) + 1] ELSE mem[s]]
      /\ done' = done + m /\ len' = len + m
      /\ write_idx' = Wrap(write_idx + m)
      /\ UNCHANGED <<read_idx, pc, src, dst, total, ret, taken>>
      /\ pc = "write"
  BY DEF WriteChunk
<1>7. /\ mem \in [Slots -> Value] /\ read_idx \in Slots /\ write_idx \in Slots
      /\ len \in 0 .. base_len
      /\ (write_idx = read_idx + len \/ write_idx = read_idx + len - base_len)
  BY DEF Inv, TypeOK, IndexOK
<1> HIDE DEF m, chunk
<1>8. TypeOK'
  <2>1. mem' \in [Slots -> Value]
    BY <1>1, <1>2, <1>3, <1>6, <1>7 DEF Slots
  <2>2. write_idx' \in Slots /\ len' \in 0 .. base_len /\ done' \in Nat
    BY <1>1, <1>2, <1>6, <1>7 DEF Wrap, Slots
  <2> QED BY <1>5, <1>6, <2>1, <2>2 DEF Inv, TypeOK
<1>9. IndexOK'
  BY <1>1, <1>2, <1>6, <1>7 DEF IndexOK, Wrap, Slots
<1>10. Contents'
  <2>1. SUFFICES ASSUME NEW k \in 1 .. len + m
                 PROVE  fifo'[k] = mem'[Slot(read_idx + k - 1)]
    BY <1>5, <1>6 DEF Contents, Slot
  <2>2. Slot(read_idx + k - 1) \in Slots
    BY <1>1, <1>2, <1>7 DEF Slot, Slots
  <2>3. CASE k <= len
    <3>1. fifo[k] = mem[Slot(read_idx + k - 1)]
      BY <1>7, <2>3 DEF Inv, Contents
    <3>2. ~(Slot(read_idx + k - 1) \in write_idx .. write_idx + m - 1)
      BY <1>1, <1>2, <1>7, <2>3 DEF Slot, Slots
    <3> QED BY <1>5, <1>6, <2>2, <2>3, <3>1, <3>2
  <2>4. CASE k > len
    <3>1. Slot(read_idx + k - 1) = write_idx + (k - len) - 1
      BY <1>1, <1>2, <1>7, <2>4 DEF Slot, Slots
    <3>2. Slot(read_idx + k - 1) \in write_idx .. write_idx + m - 1
      BY <1>1, <1>7, <2>4, <3>1 DEF Slots
    <3>3. mem'[Slot(read_idx + k - 1)]
             = src[done + (Slot(read_idx + k - 1) - write_idx) + 1]
      BY <1>6, <2>2, <3>2
    <3>4. done + (Slot(read_idx + k - 1) - write_idx) + 1 = done + (k - len)
      BY <1>2, <1>7, <3>1 DEF Slots
    <3>5. fifo'[k] = src[done + (k - len)]
      BY <1>5, <1>7, <2>4
    <3> QED BY <3>3, <3>4, <3>5
  <2> QED BY <1>1, <1>7, <2>3, <2>4
<1>11. ReadReturnsOldest' /\ CallFits'
  BY <1>1, <1>2, <1>6, <1>7 DEF Inv, ReadReturnsOldest, CallFits
<1> QED BY <1>8, <1>9, <1>10, <1>11 DEF Inv

(* One chunk read keeps the invariant: what is handed out is the oldest      *)
(* stretch of the queue, and the rest moves up.                              *)
LEMMA ReadChunkInv == ASSUME Inv, ReadChunk PROVE Inv'
<1> DEFINE m == LenToRead
           chunk == [k \in 1 .. m |-> mem[read_idx + k - 1]]
<1> USE RingBufAssumption
<1>1. /\ m \in Nat /\ m > 0 /\ m <= total - done
      /\ read_idx + m <= base_len
  BY ReadChunkBounds DEF Inv, ReadChunk
<1>2. /\ done \in Nat /\ total \in Nat /\ total - done <= len
      /\ fifo \in Seq(Value) /\ Len(fifo) = len
      /\ dst \in Seq(Value) /\ taken = dst
  BY DEF Inv, TypeOK, CallFits, Contents, ReadReturnsOldest, ReadChunk
<1>3. /\ mem \in [Slots -> Value] /\ read_idx \in Slots /\ write_idx \in Slots
      /\ len \in 0 .. base_len
      /\ (write_idx = read_idx + len \/ write_idx = read_idx + len - base_len)
      /\ \A k \in 1 .. len : fifo[k] = mem[Slot(read_idx + k - 1)]
  BY DEF Inv, TypeOK, IndexOK, Contents
<1>4. /\ dst' = dst \o chunk
      /\ done' = done + m /\ len' = len - m
      /\ read_idx' = Wrap(read_idx + m)
      /\ fifo' = SubSeq(fifo, m + 1, Len(fifo))
      /\ taken' = taken \o SubSeq(fifo, 1, m)
      /\ UNCHANGED <<mem, write_idx, pc, src, total, ret>>
      /\ pc = "read"
  BY DEF ReadChunk, ReadBytes
<1> HIDE DEF m
<1>5. chunk \in Seq(Value) /\ Len(chunk) = m
  BY <1>1, <1>3 DEF Slots
<1>6. /\ SubSeq(fifo, 1, m) \in Seq(Value) /\ Len(SubSeq(fifo, 1, m)) = m
      /\ \A k \in 1 .. m : SubSeq(fifo, 1, m)[k] = fifo[k]
  <2>1. 0 \in Nat /\ 0 + m <= Len(fifo)
    BY <1>1, <1>2, <1>3
  <2>2. /\ SubSeq(fifo, 0 + 1, 0 + m) \in Seq(Value)
        /\ Len(SubSeq(fifo, 0 + 1, 0 + m)) = m
        /\ \A k \in 1 .. m : SubSeq(fifo, 0 + 1, 0 + m)[k] = fifo[0 + k]
    BY <1>1, <1>2, <2>1, Stretch
  <2>3. 0 + 1 = 1 /\ 0 + m = m /\ \A k \in 1 .. m : 0 + k = k
    BY <1>1
  <2> QED BY <2>2, <2>3
<1>7. SubSeq(fifo, 1, m) = chunk
  <2>1. ASSUME NEW k \in 1 .. m
        PROVE  SubSeq(fifo, 1, m)[k] = chunk[k]
    <3>1. Slot(read_idx + k - 1) = read_idx + k - 1
      BY <1>1, <1>3 DEF Slot, Slots
    <3>2. fifo[k] = mem[read_idx + k - 1]
      BY <1>1, <1>2, <1>3, <3>1
    <3> QED BY <1>6, <3>2
  <2> HIDE DEF chunk
  <2> QED BY <1>5, <1>6, <2>1, SeqEqual
<1>8. /\ fifo' \in Seq(Value) /\ Len(fifo') = len - m
      /\ \A k \in 1 .. len - m : fifo'[k] = fifo[m + k]
  <2>1. len - m \in Nat /\ m + (len - m) = len
    BY <1>1, <1>2, <1>3
  <2>2. /\ SubSeq(fifo, m + 1, m + (len - m)) \in Seq(Value)
        /\ Len(SubSeq(fifo, m + 1, m + (len - m))) = len - m
        /\ \A k \in 1 .. len - m : SubSeq(fifo, m + 1, m + (len - m))[k] = fifo[m + k]
    BY <1>1, <1>2, <2>1, Stretch
  <2> QED BY <1>2, <1>4, <2>1, <2>2
<1>9. dst' \in Seq(Value) /\ dst' = taken'
  <2> HIDE DEF chunk
  <2> QED BY <1>2, <1>4, <1>5, <1>7, ConcatProperties
<1> HIDE DEF chunk
<1>10. TypeOK'
  <2>1. read_idx' \in Slots /\ len' \in 0 .. base_len /\ done' \in Nat
    BY <1>1, <1>2, <1>3, <1>4 DEF Wrap, Slots
  <2> QED BY <1>4, <1>8, <1>9, <2>1 DEF Inv, TypeOK
<1>11. IndexOK'
  BY <1>1, <1>2, <1>3, <1>4 DEF IndexOK, Wrap, Slots
<1>12. Contents'
  <2>1. SUFFICES ASSUME NEW k \in 1 .. len - m
                 PROVE  fifo'[k] = mem'[Slot(read_idx' + k - 1)]
    BY <1>4, <1>8 DEF Contents, Slot
  <2>2. m + k \in 1 .. len
    BY <1>1, <1>3
  <2>3. Slot(read_idx' + k - 1) = Slot(read_idx + (m + k) - 1)
    BY <1>1, <1>2, <1>3, <1>4 DEF Slot, Slots, Wrap
  <2> QED BY <1>3, <1>4, <1>8, <2>2, <2>3
<1>13. ReadReturnsOldest' /\ CallFits'
  BY <1>1, <1>2, <1>3, <1>4, <1>9 DEF ReadReturnsOldest, CallFits
<1> QED BY <1>10, <1>11, <1>12, <1>13 DEF Inv

(* The actions that move no byte keep the invariant. *)
LEMMA CallInv ==
    ASSUME Inv,
           RingbufInit \/ Return \/ (\E bytes \in Sources : Write(bytes))
             \/ (\E n \in 0 .. MaxLen : Read(n))
    PROVE  Inv'
<1> USE RingBufAssumption
<1>1. CASE RingbufInit
  BY <1>1 DEF RingbufInit, Inv, TypeOK, IndexOK, Contents, ReadReturnsOldest,
              CallFits, Slots
<1>2. CASE Return
  BY <1>2 DEF Return, rb, call, Inv, TypeOK, IndexOK, Contents,
              ReadReturnsOldest, CallFits, Slot
<1>3. ASSUME NEW bytes \in Sources, Write(bytes)
      PROVE  Inv'
  <2>1. bytes \in Seq(Value) /\ Len(bytes) \in Nat
    BY DEF Sources
  <2>2. TypeOK'
    BY <1>3, <2>1 DEF Write, rb, Inv, TypeOK
  <2>3. IndexOK' /\ ReadReturnsOldest' /\ Contents'
    BY <1>3 DEF Write, rb, Inv, IndexOK, ReadReturnsOldest, Contents, Slot
  <2>4. CallFits'
    BY <1>3, <2>1 DEF Write, TooLong, rb, Inv, TypeOK, CallFits
  <2> QED BY <2>2, <2>3, <2>4 DEF Inv
<1>4. ASSUME NEW n \in 0 .. MaxLen, Read(n)
      PROVE  Inv'
  <2>1. TypeOK'
    BY <1>4 DEF Read, rb, Inv, TypeOK
  <2>2. IndexOK' /\ ReadReturnsOldest' /\ Contents'
    BY <1>4 DEF Read, rb, Inv, IndexOK, ReadReturnsOldest, Contents, Slot
  <2>3. CallFits'
    BY <1>4 DEF Read, rb, Inv, TypeOK, CallFits
  <2> QED BY <2>1, <2>2, <2>3 DEF Inv
<1> QED BY <1>1, <1>2, <1>3, <1>4

LEMMA StepInv == Inv /\ [Next]_vars => Inv'
<1> SUFFICES ASSUME Inv, [Next]_vars
             PROVE  Inv'
  OBVIOUS
<1>1. CASE WriteChunk
  BY <1>1, WriteChunkInv
<1>2. CASE ReadChunk
  BY <1>2, ReadChunkInv
<1>3. CASE UNCHANGED vars
  BY <1>3 DEF vars, rb, call, Inv, TypeOK, IndexOK, Contents, ReadReturnsOldest,
              CallFits, Slot
<1> QED BY <1>1, <1>2, <1>3, CallInv DEF Next

(* The whole invariant holds in every state of the ring buffer. *)
THEOREM InvHolds == Spec => []Inv
BY InitInv, StepInv, PTL DEF Spec

(* Every field keeps its type; read_idx and write_idx stay inside the buffer *)
(* (fw/ringbuf.c wraps them as soon as they reach base_len).                 *)
THEOREM TypeCorrect == Spec => []TypeOK
<1>1. Inv => TypeOK
  BY DEF Inv
<1> QED BY <1>1, InvHolds, PTL

(* The fields agree with each other, for every size of the buffer. *)
THEOREM IndicesAgree == Spec => []IndexOK
<1>1. Inv => IndexOK
  BY DEF Inv
<1> QED BY <1>1, InvHolds, PTL

(* The buffer holds exactly the bytes written and not yet read, in order. *)
THEOREM ContentsKept == Spec => []Contents
<1>1. Inv => Contents
  BY DEF Inv
<1> QED BY <1>1, InvHolds, PTL

(* A write that was accepted fits into the buffer to its last chunk, and a   *)
(* read finds all it asked for (fw/ringbuf.c 25, 53).                        *)
THEOREM CallsFit == Spec => []CallFits
<1>1. Inv => CallFits
  BY DEF Inv
<1> QED BY <1>1, InvHolds, PTL

(* Reads return the oldest bytes. *)
THEOREM OldestFirst == Spec => []ReadReturnsOldest
<1>1. Inv => ReadReturnsOldest
  BY DEF Inv
<1> QED BY <1>1, InvHolds, PTL

-----------------------------------------------------------------------------
(* The ring buffer implements Fifo.                                         *)

(* What a call has moved so far: a write no more than what is stored, and a  *)
(* read exactly what it hands out.                                           *)
Moved ==
    /\ pc = "write" => dst = <<>> /\ done <= len
    /\ pc = "read"  => Len(dst) = done

(* The queue of the refinement mapping, told by the history. *)
QueueHistory ==
    CASE pc = "write" -> SubSeq(fifo, 1, len - done)
      [] pc = "read"  -> dst \o fifo
      [] OTHER        -> fifo

Got == IF pc = "idle" THEN dst ELSE <<>>

LEMMA StepMoved == Inv /\ Moved /\ [Next]_vars => Moved'
<1> SUFFICES ASSUME Inv, Moved, [Next]_vars
             PROVE  Moved'
  OBVIOUS
<1> USE RingBufAssumption
<1>1. CASE RingbufInit
  BY <1>1 DEF RingbufInit, Moved
<1>2. ASSUME NEW bytes \in Sources, Write(bytes)
      PROVE  Moved'
  BY <1>2 DEF Write, rb, Moved, Inv, TypeOK
<1>3. ASSUME NEW n \in 0 .. MaxLen, Read(n)
      PROVE  Moved'
  BY <1>3 DEF Read, Moved
<1>4. CASE WriteChunk
  <2>1. LenToWrite \in Nat
    BY <1>4, WriteChunkBounds DEF WriteChunk, Inv
  <2> QED BY <1>4, <2>1 DEF WriteChunk, Moved, Inv, TypeOK
<1>5. CASE ReadChunk
  <2>1. LenToRead \in Nat
    BY <1>5, ReadChunkBounds DEF ReadChunk, Inv
  <2>2. /\ ReadBytes \in Seq(Value) /\ Len(ReadBytes) = LenToRead
    <3>1. read_idx + LenToRead <= base_len
      BY <1>5, ReadChunkBounds DEF ReadChunk, Inv
    <3> HIDE DEF LenToRead
    <3> QED BY <2>1, <3>1 DEF ReadBytes, Inv, TypeOK, Slots
  <2>3. dst \in Seq(Value) /\ Len(dst) = done /\ pc' = "read"
        /\ dst' = dst \o ReadBytes /\ done' = done + LenToRead
    BY <1>5 DEF ReadChunk, Moved, Inv, TypeOK
  <2>4. Len(dst \o ReadBytes) = done + LenToRead
    BY <2>2, <2>3, ConcatProperties
  <2> QED BY <2>3, <2>4 DEF Moved
<1>6. CASE Return
  BY <1>6 DEF Return, Moved
<1>7. CASE UNCHANGED vars
  BY <1>7 DEF vars, rb, call, Moved
<1> QED BY <1>1, <1>2, <1>3, <1>4, <1>5, <1>6, <1>7 DEF Next

(* The first n bytes of the buffer are the first n of the history. *)
LEMMA StoredIsHistory ==
    ASSUME Inv, NEW n \in 0 .. len
    PROVE  Stored(n) = SubSeq(fifo, 1, n)
<1>1. /\ fifo \in Seq(Value) /\ Len(fifo) = len /\ len \in Nat /\ n \in Nat
      /\ \A k \in 1 .. len : fifo[k] = mem[Slot(read_idx + k - 1)]
  BY RingBufAssumption DEF Inv, TypeOK, Contents
<1>2. /\ SubSeq(fifo, 1, n) \in Seq(Value) /\ Len(SubSeq(fifo, 1, n)) = n
      /\ \A k \in 1 .. n : SubSeq(fifo, 1, n)[k] = fifo[k]
  <2>1. /\ SubSeq(fifo, 0 + 1, 0 + n) \in Seq(Value)
        /\ Len(SubSeq(fifo, 0 + 1, 0 + n)) = n
        /\ \A k \in 1 .. n : SubSeq(fifo, 0 + 1, 0 + n)[k] = fifo[0 + k]
    <3>1. 0 \in Nat /\ 0 + n <= Len(fifo)
      BY <1>1
    <3> QED BY <1>1, <3>1, Stretch
  <2>2. 0 + 1 = 1 /\ 0 + n = n /\ \A k \in 1 .. n : 0 + k = k
    BY <1>1
  <2> QED BY <2>1, <2>2
<1>3. \A k \in 1 .. n : SubSeq(fifo, 1, n)[k] = mem[Slot(read_idx + k - 1)]
  BY <1>1, <1>2
<1>4. SubSeq(fifo, 1, n) = [k \in 1 .. n |-> SubSeq(fifo, 1, n)[k]]
  <2> DEFINE s == SubSeq(fifo, 1, n)
  <2>1. s \in Seq(Value) /\ Len(s) = n
    BY <1>2
  <2> HIDE DEF s
  <2>2. s = [k \in 1 .. n |-> s[k]]
    BY <2>1
  <2> QED BY <2>2 DEF s
<1> QED BY <1>3, <1>4 DEF Stored

LEMMA QueueIsHistory == Inv /\ Moved => QueueNow = QueueHistory
<1> SUFFICES ASSUME Inv, Moved
             PROVE  QueueNow = QueueHistory
  OBVIOUS
<1>1. /\ fifo \in Seq(Value) /\ Len(fifo) = len /\ len \in Nat /\ done \in Nat
      /\ pc \in {"idle", "write", "read"}
  BY RingBufAssumption DEF Inv, TypeOK, Contents
<1>2. Stored(len) = fifo
  <2>1. len \in 0 .. len /\ SubSeq(fifo, 1, len) = fifo
    BY <1>1
  <2> QED BY <2>1, StoredIsHistory
<1>3. CASE pc = "write"
  <2>1. len - done \in 0 .. len
    BY <1>1, <1>3 DEF Moved
  <2> QED BY <1>3, <2>1, StoredIsHistory DEF QueueNow, QueueHistory
<1>4. CASE pc = "read"
  BY <1>2, <1>4 DEF QueueNow, QueueHistory
<1>5. CASE pc = "idle"
  BY <1>2, <1>5 DEF QueueNow, QueueHistory
<1> QED BY <1>1, <1>3, <1>4, <1>5

LEMMA QueueIsHistoryNext == Inv' /\ Moved' => QueueNow' = QueueHistory'
<1> DEFINE Same == QueueNow = QueueHistory
<1>1. Inv /\ Moved => Same
  BY QueueIsHistory
<1> HIDE DEF Same
<1>2. Inv' /\ Moved' => Same'
  BY <1>1, PTL
<1> QED BY <1>2 DEF Same

(* Two sequences put together and taken apart again. *)
LEMMA TakeApart ==
    ASSUME NEW S, NEW s \in Seq(S), NEW t \in Seq(S), NEW n \in 0 .. Len(s)
    PROVE  /\ SubSeq(s \o t, 1, n) = SubSeq(s, 1, n)
           /\ SubSeq(s \o t, Len(s) + 1, Len(s \o t)) = t
<1>1. /\ s \o t \in Seq(S) /\ Len(s \o t) = Len(s) + Len(t)
      /\ Len(s) \in Nat /\ Len(t) \in Nat /\ n \in Nat
      /\ \A k \in 1 .. Len(s) : (s \o t)[k] = s[k]
      /\ \A k \in 1 .. Len(t) : (s \o t)[Len(s) + k] = t[k]
  BY ConcatProperties
<1> DEFINE u == s \o t
<1> HIDE DEF u
<1>2. /\ u \in Seq(S) /\ Len(u) = Len(s) + Len(t)
      /\ \A k \in 1 .. Len(s) : u[k] = s[k]
      /\ \A k \in 1 .. Len(t) : u[Len(s) + k] = t[k]
  BY <1>1 DEF u
<1>3. SubSeq(u, 1, n) = SubSeq(s, 1, n)
  <2>1. /\ SubSeq(u, 0 + 1, 0 + n) \in Seq(S) /\ Len(SubSeq(u, 0 + 1, 0 + n)) = n
        /\ \A k \in 1 .. n : SubSeq(u, 0 + 1, 0 + n)[k] = u[0 + k]
    <3>1. 0 \in Nat /\ 0 + n <= Len(u)
      BY <1>1, <1>2
    <3> QED BY <1>1, <1>2, <3>1, Stretch
  <2>2. /\ SubSeq(s, 0 + 1, 0 + n) \in Seq(S) /\ Len(SubSeq(s, 0 + 1, 0 + n)) = n
        /\ \A k \in 1 .. n : SubSeq(s, 0 + 1, 0 + n)[k] = s[0 + k]
    <3>1. 0 \in Nat /\ 0 + n <= Len(s)
      BY <1>1
    <3> QED BY <1>1, <3>1, Stretch
  <2>3. \A k \in 1 .. n : k \in 1 .. Len(s) /\ 0 + k = k
    BY <1>1
  <2>4. \A k \in 1 .. n : SubSeq(u, 0 + 1, 0 + n)[k] = SubSeq(s, 0 + 1, 0 + n)[k]
    BY <1>2, <2>1, <2>2, <2>3
  <2>5. SubSeq(u, 0 + 1, 0 + n) = SubSeq(s, 0 + 1, 0 + n)
    BY <2>1, <2>2, <2>4, SeqEqual
  <2>6. 0 + 1 = 1 /\ 0 + n = n
    BY <1>1
  <2> QED BY <2>5, <2>6
<1>4. SubSeq(u, Len(s) + 1, Len(u)) = t
  <2> DEFINE v == SubSeq(u, Len(s) + 1, Len(s) + Len(t))
  <2>1. /\ v \in Seq(S) /\ Len(v) = Len(t)
        /\ \A k \in 1 .. Len(t) : v[k] = u[Len(s) + k]
    <3>1. Len(s) + Len(t) <= Len(u)
      BY <1>1, <1>2
    <3> QED BY <1>1, <1>2, <3>1, Stretch
  <2> HIDE DEF v
  <2>2. v = t
    BY <1>2, <2>1, SeqEqual
  <2> QED BY <1>2, <2>2 DEF v
<1> QED BY <1>3, <1>4 DEF u

(* A sequence is its first n elements and the rest. *)
LEMMA PutTogether ==
    ASSUME NEW S, NEW s \in Seq(S), NEW n \in 0 .. Len(s)
    PROVE  /\ SubSeq(s, 1, n) \in Seq(S) /\ Len(SubSeq(s, 1, n)) = n
           /\ SubSeq(s, n + 1, Len(s)) \in Seq(S)
           /\ SubSeq(s, 1, n) \o SubSeq(s, n + 1, Len(s)) = s
<1>1. Len(s) \in Nat /\ n \in Nat /\ Len(s) - n \in Nat
  OBVIOUS
<1>2. /\ SubSeq(s, 1, n) \in Seq(S) /\ Len(SubSeq(s, 1, n)) = n
      /\ \A k \in 1 .. n : SubSeq(s, 1, n)[k] = s[k]
  <2>1. /\ SubSeq(s, 0 + 1, 0 + n) \in Seq(S) /\ Len(SubSeq(s, 0 + 1, 0 + n)) = n
        /\ \A k \in 1 .. n : SubSeq(s, 0 + 1, 0 + n)[k] = s[0 + k]
    <3>1. 0 \in Nat /\ 0 + n <= Len(s)
      BY <1>1
    <3> QED BY <1>1, <3>1, Stretch
  <2>2. 0 + 1 = 1 /\ 0 + n = n /\ \A k \in 1 .. n : 0 + k = k
    BY <1>1
  <2> QED BY <2>1, <2>2
<1>3. /\ SubSeq(s, n + 1, Len(s)) \in Seq(S)
      /\ Len(SubSeq(s, n + 1, Len(s))) = Len(s) - n
      /\ \A k \in 1 .. Len(s) - n : SubSeq(s, n + 1, Len(s))[k] = s[n + k]
  <2>1. /\ SubSeq(s, n + 1, n + (Len(s) - n)) \in Seq(S)
        /\ Len(SubSeq(s, n + 1, n + (Len(s) - n))) = Len(s) - n
        /\ \A k \in 1 .. Len(s) - n :
              SubSeq(s, n + 1, n + (Len(s) - n))[k] = s[n + k]
    <3>1. n + (Len(s) - n) <= Len(s)
      BY <1>1
    <3> QED BY <1>1, <3>1, Stretch
  <2>2. n + (Len(s) - n) = Len(s)
    BY <1>1
  <2> QED BY <2>1, <2>2
<1>4. /\ SubSeq(s, 1, n) \o SubSeq(s, n + 1, Len(s)) = SubSeq(s, 1, Len(s))
      /\ SubSeq(s, 1, Len(s)) = s
  <2>1. 1 \in 1 .. Len(s) + 1 /\ n \in 1 - 1 .. Len(s) /\ Len(s) \in n .. Len(s)
    BY <1>1
  <2> QED BY <2>1, ConcatAdjacentSubSeq, SubSeqFull
<1> QED BY <1>2, <1>3, <1>4

(* A step of the code seen on the history: it moves no byte of the queue and *)
(* returns none, or it is a step of Fifo.                                    *)
LEMMA StartStep ==
    ASSUME Inv,
           (\E bytes \in Sources : Write(bytes)) \/ (\E n \in 0 .. MaxLen : Read(n))
    PROVE  QueueHistory' = QueueHistory /\ Got' = <<>>
<1>1. /\ fifo \in Seq(Value) /\ Len(fifo) = len /\ len \in Nat
      /\ pc = "idle" /\ fifo' = fifo /\ len' = len /\ done' = 0 /\ dst' = <<>>
      /\ pc' \in {"idle", "write", "read"}
  BY RingBufAssumption DEF Inv, TypeOK, Contents, Write, Read, rb
<1>2. QueueHistory = fifo
  BY <1>1 DEF QueueHistory
<1>3. Got' = <<>>
  BY <1>1 DEF Got
<1>4. CASE pc' = "write"
  <2>1. len' - done' = Len(fifo) /\ SubSeq(fifo, 1, Len(fifo)) = fifo
    BY <1>1, SubSeqFull
  <2> QED BY <1>1, <1>2, <1>3, <1>4, <2>1 DEF QueueHistory
<1>5. CASE pc' = "read"
  <2>1. <<>> \o fifo = fifo
    BY <1>1, ConcatEmptySeq
  <2> QED BY <1>1, <1>2, <1>3, <1>5, <2>1 DEF QueueHistory
<1>6. CASE pc' = "idle"
  BY <1>1, <1>2, <1>3, <1>6 DEF QueueHistory
<1> QED BY <1>1, <1>4, <1>5, <1>6

LEMMA WriteChunkStep ==
    ASSUME Inv, Moved, WriteChunk
    PROVE  QueueHistory' = QueueHistory /\ Got' = Got
<1> DEFINE m == LenToWrite
           chunk == SubSeq(src, done + 1, done + m)
<1>1. m \in Nat /\ m <= total - done
  BY WriteChunkBounds DEF Inv, WriteChunk
<1>2. /\ fifo \in Seq(Value) /\ Len(fifo) = len /\ len \in Nat
      /\ src \in Seq(Value) /\ done \in Nat /\ total = Len(src) /\ done <= len
  BY RingBufAssumption DEF Inv, TypeOK, Contents, CallFits, Moved, WriteChunk
<1>3. /\ pc = "write" /\ pc' = "write"
      /\ done' = done + m /\ len' = len + m /\ fifo' = fifo \o chunk
  BY DEF WriteChunk
<1>4. chunk \in Seq(Value)
  <2> HIDE DEF m
  <2>1. done + m <= Len(src)
    BY <1>1, <1>2
  <2> QED BY <1>1, <1>2, <2>1, Stretch
<1> HIDE DEF m, chunk
<1>5. len' - done' = len - done /\ len - done \in 0 .. Len(fifo)
  BY <1>1, <1>2, <1>3
<1>6. SubSeq(fifo \o chunk, 1, len - done) = SubSeq(fifo, 1, len - done)
  BY <1>2, <1>4, <1>5, TakeApart
<1> QED BY <1>3, <1>5, <1>6 DEF QueueHistory, Got

LEMMA ReadChunkStep ==
    ASSUME Inv, Moved, ReadChunk
    PROVE  QueueHistory' = QueueHistory /\ Got' = Got
<1> DEFINE m == LenToRead
           first == SubSeq(fifo, 1, m)
           rest == SubSeq(fifo, m + 1, Len(fifo))
<1>1. m \in 0 .. Len(fifo)
  BY ReadChunkBounds, SMTT(30) DEF Inv, ReadChunk, Contents, CallFits, TypeOK
<1>2. fifo \in Seq(Value) /\ dst \in Seq(Value) /\ dst = taken
  BY DEF Inv, TypeOK, ReadReturnsOldest
<1>3. /\ pc = "read" /\ pc' = "read"
      /\ taken' = taken \o first /\ fifo' = rest
  BY DEF ReadChunk
<1>4. dst' = taken'
  BY ReadChunkInv DEF Inv, ReadReturnsOldest
<1> HIDE DEF m
<1>5. first \in Seq(Value) /\ rest \in Seq(Value) /\ first \o rest = fifo
  BY <1>1, <1>2, PutTogether
<1> HIDE DEF first, rest
<1>6. (dst \o first) \o rest = dst \o fifo
  <2>1. dst \in Seq(Value) /\ first \in Seq(Value) /\ rest \in Seq(Value)
    BY <1>2, <1>5
  <2>2. (dst \o first) \o rest = dst \o (first \o rest)
    BY ONLY <2>1, ConcatAssociative
  <2>3. first \o rest = fifo
    BY <1>5
  <2> QED BY ONLY <2>2, <2>3, Zenon
<1> QED BY <1>2, <1>3, <1>4, <1>6 DEF QueueHistory, Got

(* A write takes effect when it returns: its bytes are behind the old ones.  *)
(* A read too: the oldest bytes, those it returns, are gone.                 *)
LEMMA ReturnStep ==
    ASSUME Inv, Moved, Return,
           QueueNow = QueueHistory, QueueNow' = QueueHistory'
    PROVE  Queue!Next
<1>1. /\ fifo \in Seq(Value) /\ Len(fifo) = len /\ len \in Nat
      /\ dst \in Seq(Value) /\ done \in Nat /\ len <= base_len /\ base_len \in Nat
  BY RingBufAssumption DEF Inv, TypeOK, Contents
<1>2. /\ pc \in {"write", "read"} /\ pc' = "idle"
      /\ fifo' = fifo /\ dst' = dst
  BY DEF Return, call
<1>3. QueueNow' = fifo /\ Got = <<>> /\ Got' = dst
  BY <1>2 DEF QueueHistory, Got
<1>4. CASE pc = "write"
  <2> DEFINE old == SubSeq(fifo, 1, len - done)
  <2>1. QueueNow = old /\ dst = <<>> /\ done <= len
    BY <1>4 DEF QueueHistory, Moved
  <2>2. len - done \in 0 .. Len(fifo)
    BY <1>1, <2>1
  <2>3. old \in Seq(Value) /\ Len(old) = len - done
    BY <1>1, <2>2, PutTogether
  <2>4. CASE done = 0
    <3>1. old = fifo
      <4>1. len - done = Len(fifo)
        BY <1>1, <2>4
      <4> QED BY <1>1, <4>1, SubSeqFull
    <3> QED BY <1>3, <2>1, <3>1 DEF Queue!Next, Queue!Fail, Got
  <2>5. CASE done # 0
    <3> HIDE DEF old
    <3>1. done \in 1 .. base_len - Len(old)
      BY <1>1, <2>1, <2>3, <2>5
    <3>2. Len(fifo) = Len(old) + done
      BY <1>1, <2>3
    <3>3. \A k \in 1 .. done : fifo[Len(old) + k] \in Value
      BY <1>1, <2>1, <2>3, <3>2
    <3>4. SubSeq(fifo, 1, Len(old)) = old
      BY <2>3 DEF old
    <3>5. Queue!Put
      BY <1>3, <2>1, <3>1, <3>2, <3>3, <3>4 DEF Queue!Put, Got
    <3> QED BY <3>5 DEF Queue!Next
  <2> QED BY <2>4, <2>5
<1>5. CASE pc = "read"
  <2>1. QueueNow = dst \o fifo /\ Len(dst) = done
    BY <1>5 DEF QueueHistory, Moved
  <2>2. CASE done = 0
    <3>1. dst = <<>>
      BY <1>1, <2>1, <2>2
    <3>2. dst \o fifo = fifo
      BY <1>1, <3>1, ConcatEmptySeq
    <3> QED BY <1>3, <2>1, <3>1, <3>2 DEF Queue!Next, Queue!Fail, Got
  <2>3. CASE done # 0
    <3>1. done \in 1 .. Len(dst \o fifo)
      BY <1>1, <2>1, <2>3, ConcatProperties
    <3>2. /\ SubSeq(dst \o fifo, 1, done) = dst
          /\ SubSeq(dst \o fifo, done + 1, Len(dst \o fifo)) = fifo
      <4>1. Len(dst) \in 0 .. Len(dst)
        BY <1>1, <2>1
      <4>2. SubSeq(dst, 1, Len(dst)) = dst
        BY <1>1, SubSeqFull
      <4>3. /\ SubSeq(dst \o fifo, 1, Len(dst)) = SubSeq(dst, 1, Len(dst))
            /\ SubSeq(dst \o fifo, Len(dst) + 1, Len(dst \o fifo)) = fifo
        BY <1>1, <4>1, TakeApart
      <4>4. Len(dst) = done
        BY <2>1
      <4> QED BY ONLY <4>2, <4>3, <4>4, Zenon
    <3>3. Queue!Get
      BY <1>3, <2>1, <3>1, <3>2 DEF Queue!Get, Got
    <3> QED BY <3>3 DEF Queue!Next
  <2> QED BY <2>2, <2>3
<1> QED BY <1>2, <1>4, <1>5

LEMMA QueueStep ==
    Inv /\ Moved /\ Inv' /\ Moved' /\ [Next]_vars => [Queue!Next]_(Queue!vars)
<1> SUFFICES ASSUME Inv, Moved, Inv', Moved', [Next]_vars
             PROVE  [Queue!Next]_(Queue!vars)
  OBVIOUS
<1>1. QueueNow = QueueHistory /\ QueueNow' = QueueHistory'
  BY QueueIsHistory, QueueIsHistoryNext
<1>2. CASE RingbufInit
  <2>1. fifo' = <<>> /\ dst' = <<>> /\ pc' = "idle"
    BY <1>2 DEF RingbufInit
  <2>2. QueueHistory' = <<>> /\ Got' = <<>>
    BY <2>1 DEF QueueHistory, Got
  <2> QED BY <1>1, <2>2 DEF Queue!Next, Queue!Clear, Got
<1>3. CASE (\E bytes \in Sources : Write(bytes)) \/ (\E n \in 0 .. MaxLen : Read(n))
  BY <1>1, <1>3, StartStep DEF Queue!Next, Queue!Fail, Got
<1>4. CASE WriteChunk \/ ReadChunk
  BY <1>1, <1>4, WriteChunkStep, ReadChunkStep DEF Queue!vars, Got
<1>5. CASE Return
  BY <1>1, <1>5, ReturnStep
<1>6. CASE UNCHANGED vars
  BY <1>1, <1>6 DEF vars, rb, call, QueueHistory, Queue!vars
<1> QED BY <1>2, <1>3, <1>4, <1>5, <1>6 DEF Next

LEMMA QueueInit == Init => Moved /\ Queue!Init
<1> SUFFICES ASSUME Init PROVE Moved /\ Queue!Init
  OBVIOUS
<1>1. Moved
  BY DEF Init, Moved
<1>2. QueueNow = QueueHistory
  BY <1>1, InitInv, QueueIsHistory
<1>3. QueueHistory = <<>> /\ Got = <<>>
  BY DEF Init, QueueHistory, Got
<1> QED BY <1>1, <1>2, <1>3 DEF Queue!Init, Got

(* The ring buffer of fw/ringbuf.c is a bounded queue: a call that returns 0 *)
(* has put all its bytes behind the old ones or taken the oldest, and a call *)
(* that returns -1 has changed nothing, for every size of the buffer.        *)
THEOREM IsQueue == Spec => ImplementsFifo
<1>1. Spec => [](Inv /\ Moved)
  BY InitInv, StepInv, QueueInit, StepMoved, PTL DEF Spec
<1>2. Spec => Queue!Spec
  BY <1>1, QueueInit, QueueStep, PTL DEF Spec, Queue!Spec
<1> QED BY <1>2 DEF ImplementsFifo

=============================================================================
