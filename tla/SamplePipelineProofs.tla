------------------------ MODULE SamplePipelineProofs ------------------------
(***************************************************************************)
(* The sample pipeline, for every length of the frames and of the ring     *)
(* buffer, and every interleaving of the main loop with its interrupts.    *)
(***************************************************************************)
EXTENDS SamplePipeline, SequenceTheorems, TLAPS

(* A word loaded has no flag of a channel that is not set any more, but for *)
(* the one main is about to clear; the timer's word was loaded after main's.*)
RegistersAgree ==
    Running =>
        /\ main_reg # <<>> =>
              /\ pc \in Flags
              /\ main_reg[1] \cap Channels \subseteq g_interrupt \ {pc}
              /\ pc \in Channels => pc \in g_interrupt
        /\ isr_reg # <<>> =>
              /\ isr_reg[1] \cap Channels \subseteq g_interrupt
              /\ main_reg # <<>> =>
                    /\ main_reg[1] \cap Channels \subseteq isr_reg[1]
                    /\ pc \in Channels => pc \in isr_reg[1]

(* What is left of the frame, and whether it is at its start or end. *)
FrameStates ==
    LET size == IF frame.seqnum = 0 THEN SAMPLES_LEN_PER_CAL_FRAME
                ELSE SAMPLES_LEN_PER_DATA_FRAME
    IN  /\ frame.state = "PRE" => frame.reads = size
        /\ frame.state = "MID" => frame.reads \in 1 .. size
        /\ frame.state = "END" => frame.reads = 0

OnTime == mishap \cap {"late", "stale"} = {}

(* The buffer that is flagged is the last one taken; the FIFO has earlier   *)
(* ones.                                                                    *)
LastIsFlagged ==
    Running /\ OnTime =>
        \A c \in Uncopied :
            /\ c = Other(fill) /\ adcb[c] = {taken}
            /\ \A i \in 1 .. Len(Chain) : \E m \in 1 .. taken - 1 : Chain[i] = {m}

(* Without a mishap the FIFO has all buffers but the one that is flagged. *)
AllCounted ==
    Running /\ mishap = {} =>
        Len(Chain) = IF Uncopied = {} THEN taken ELSE taken - 1

(* Until the calibration ends, what is left of it is counted in buffers.    *)
CalibrationCounts ==
    Running /\ ~calibrated =>
        /\ writes_remaining = SAMPLES_LEN_PER_CAL_FRAME - Len(Chain)
        /\ writes_remaining > 0

IInv ==
    /\ TypeOK /\ RegistersAgree /\ NothingLost
    /\ FrameStates /\ FramePosition
    /\ InOrder /\ LastIsFlagged /\ AllCounted
    /\ CalibrationCounts /\ CalibrationEnds

-----------------------------------------------------------------------------
(* Moving and adding buffers *)

(* A buffer that goes from the ring to the output stays in its place. *)
LEMMA MoveKeepsChain ==
    ASSUME NEW S, NEW o \in Seq(S), NEW r \in Seq(S), r # <<>>
    PROVE  /\ Append(o, Head(r)) \in Seq(S) /\ Tail(r) \in Seq(S)
           /\ Len(Append(o, Head(r))) = Len(o) + 1
           /\ Len(Tail(r)) = Len(r) - 1
           /\ Append(o, Head(r)) \o Tail(r) = o \o r
<1> DEFINE a == Append(o, Head(r))
           t == Tail(r)
<1>1. Len(r) \in Nat \ {0} /\ Head(r) \in S /\ Head(r) = r[1]
  BY EmptySeq, HeadTailProperties
<1>2. /\ a \in Seq(S) /\ Len(a) = Len(o) + 1
      /\ \A i \in 1 .. Len(o) + 1 : a[i] = IF i <= Len(o) THEN o[i] ELSE r[1]
  BY <1>1
<1>3. /\ t \in Seq(S) /\ Len(t) = Len(r) - 1
      /\ \A i \in 1 .. Len(r) - 1 : t[i] = r[i + 1]
  BY <1>1, HeadTailProperties
<1> HIDE DEF a, t
<1>4. /\ a \o t \in Seq(S) /\ Len(a \o t) = Len(a) + Len(t)
      /\ \A i \in 1 .. Len(a) + Len(t) :
            (a \o t)[i] = IF i <= Len(a) THEN a[i] ELSE t[i - Len(a)]
  BY <1>2, <1>3, ConcatProperties
<1>5. /\ o \o r \in Seq(S) /\ Len(o \o r) = Len(o) + Len(r)
      /\ \A i \in 1 .. Len(o) + Len(r) :
            (o \o r)[i] = IF i <= Len(o) THEN o[i] ELSE r[i - Len(o)]
  BY ConcatProperties
<1>6. Len(o) \in Nat
  BY LenProperties
<1>7. Len(a \o t) = Len(o \o r)
  BY <1>1, <1>2, <1>3, <1>4, <1>5, <1>6
<1>8. ASSUME NEW i \in 1 .. Len(a \o t) PROVE (a \o t)[i] = (o \o r)[i]
  <2>1. i \in 1 .. Len(o) + Len(r) /\ i \in 1 .. Len(a) + Len(t)
    BY <1>4, <1>5, <1>7
  <2>2. CASE i <= Len(o)
    BY <2>1, <2>2, <1>1, <1>2, <1>4, <1>5, <1>6
  <2>3. CASE i = Len(o) + 1
    BY <2>1, <2>3, <1>1, <1>2, <1>4, <1>5, <1>6
  <2>4. CASE i > Len(o) + 1
    <3>1. i - Len(a) \in 1 .. Len(r) - 1 /\ i - Len(a) + 1 = i - Len(o)
      BY <2>1, <2>4, <1>1, <1>2, <1>3, <1>6
    <3>2. t[i - Len(a)] = r[i - Len(o)]
      BY <3>1, <1>3
    <3>3. ~(i <= Len(a)) /\ ~(i <= Len(o))
      BY <2>1, <2>4, <1>2, <1>6
    <3> QED BY <3>2, <3>3, <2>1, <1>4, <1>5
  <2> QED BY <2>1, <2>2, <2>3, <2>4, <1>6
<1>9. a \o t = o \o r
  BY <1>4, <1>5, <1>7, <1>8, SeqEqual
<1> QED BY <1>2, <1>3, <1>9 DEF a, t

(* A buffer put on the ring is the last of the chain. *)
LEMMA AppendToChain ==
    ASSUME NEW S, NEW o \in Seq(S), NEW r \in Seq(S), NEW e \in S
    PROVE  /\ Append(r, e) \in Seq(S) /\ Len(Append(r, e)) = Len(r) + 1
           /\ Len(o \o Append(r, e)) = Len(o \o r) + 1
           /\ \A i \in 1 .. Len(o \o r) : (o \o Append(r, e))[i] = (o \o r)[i]
           /\ (o \o Append(r, e))[Len(o \o r) + 1] = e
<1> DEFINE a == Append(r, e)
<1>1. Len(o) \in Nat /\ Len(r) \in Nat
  BY LenProperties
<1>2. /\ a \in Seq(S) /\ Len(a) = Len(r) + 1
      /\ \A i \in 1 .. Len(r) + 1 : a[i] = IF i <= Len(r) THEN r[i] ELSE e
  BY <1>1
<1> HIDE DEF a
<1>3. /\ Len(o \o a) = Len(o) + Len(a)
      /\ \A i \in 1 .. Len(o) + Len(a) :
            (o \o a)[i] = IF i <= Len(o) THEN o[i] ELSE a[i - Len(o)]
  BY <1>2, ConcatProperties
<1>4. /\ Len(o \o r) = Len(o) + Len(r)
      /\ \A i \in 1 .. Len(o) + Len(r) :
            (o \o r)[i] = IF i <= Len(o) THEN o[i] ELSE r[i - Len(o)]
  BY ConcatProperties
<1>5. Len(o \o a) = Len(o \o r) + 1
  BY <1>1, <1>2, <1>3, <1>4
<1>6. ASSUME NEW i \in 1 .. Len(o \o r) PROVE (o \o a)[i] = (o \o r)[i]
  <2>1. i \in 1 .. Len(o) + Len(r) /\ i \in 1 .. Len(o) + Len(a)
    BY <1>1, <1>2, <1>4
  <2>2. CASE i <= Len(o)
    BY <2>1, <2>2, <1>3, <1>4
  <2>3. CASE i > Len(o)
    <3>1. i - Len(o) \in 1 .. Len(r)
      BY <2>1, <2>3, <1>1
    <3>2. a[i - Len(o)] = r[i - Len(o)]
      BY <3>1, <1>1, <1>2
    <3>3. ~(i <= Len(o))
      BY <2>1, <2>3, <1>1
    <3> QED BY <3>2, <3>3, <2>1, <1>3, <1>4
  <2> QED BY <2>1, <2>2, <2>3, <1>1
<1>7. (o \o a)[Len(o \o r) + 1] = e
  <2>1. Len(o \o r) + 1 \in 1 .. Len(o) + Len(a) /\ ~(Len(o \o r) + 1 <= Len(o))
    BY <1>1, <1>2, <1>4
  <2>2. Len(o \o r) + 1 - Len(o) = Len(r) + 1
    BY <1>1, <1>4
  <2> QED BY <2>1, <2>2, <1>1, <1>2, <1>3
<1> QED BY <1>2, <1>5, <1>6, <1>7 DEF a

(* The chain is a sequence, as long as its two parts. *)
LEMMA ChainIsSeq ==
    ASSUME TypeOK
    PROVE  /\ Chain \in Seq(Contents) /\ Len(Chain) \in Nat
           /\ Len(out) \in Nat /\ Len(ring) \in Nat
           /\ Len(Chain) = Len(out) + Len(ring)
<1>1. out \in Seq(Contents) /\ ring \in Seq(Contents)
  BY DEF TypeOK
<1> HIDE DEF Contents
<1>2. Len(out) \in Nat /\ Len(ring) \in Nat
  BY <1>1, LenProperties
<1>3. out \o ring \in Seq(Contents) /\ Len(out \o ring) = Len(out) + Len(ring)
  BY <1>1, ConcatProperties
<1> QED BY <1>2, <1>3 DEF Chain

-----------------------------------------------------------------------------
(* Frames *)

(* The frame after one that is complete starts where that one ends. *)
LEMMA NextFrameBegins ==
    ASSUME TypeOK, FramePosition, frame.state = "END", NEW f,
           f = [state |-> "PRE", reads |-> SAMPLES_LEN_PER_DATA_FRAME,
                seqnum |-> frame.seqnum + 1]
    PROVE  /\ f \in [state : {"PRE", "MID", "END"}, reads : Nat, seqnum : Nat]
           /\ Len(out) = SAMPLES_LEN_PER_CAL_FRAME
                           + (f.seqnum - 1) * SAMPLES_LEN_PER_DATA_FRAME
<1> DEFINE n == frame.seqnum
           c == SAMPLES_LEN_PER_CAL_FRAME
           d == SAMPLES_LEN_PER_DATA_FRAME
<1>1. n \in Nat /\ c \in Nat \ {0} /\ d \in Nat \ {0} /\ f.seqnum = n + 1
      /\ f \in [state : {"PRE", "MID", "END"}, reads : Nat, seqnum : Nat]
  BY SamplePipelineAssumption DEF TypeOK
<1>2. Len(out) = IF n = 0 THEN 0 + c - 0 ELSE c + (n - 1) * d + d - 0
  BY DEF FramePosition
<1> HIDE DEF n, c, d
<1>3. CASE n = 0
  <2>1. (n + 1 - 1) * d = 0
    BY <1>1, <1>3
  <2> QED BY <2>1, <1>1, <1>2, <1>3 DEF c, d
<1>4. CASE n # 0
  <2>1. n - 1 \in Nat /\ (n + 1 - 1) = (n - 1) + 1
    BY <1>1, <1>4
  <2>2. \A k \in Nat : (k + 1) * d = k * d + d /\ k * d \in Nat
    BY <1>1
  <2>3. (n + 1 - 1) * d = (n - 1) * d + d /\ (n - 1) * d \in Nat
    BY <2>1, <2>2
  <2> QED BY <2>3, <1>1, <1>2, <1>4, SMTT(30) DEF c, d
<1> QED BY <1>1, <1>3, <1>4

FrameInv == FrameStates /\ FramePosition

(* A buffer read into a frame that has room for it counts in its place. *)
LEMMA ReadBufferKeepsFrame ==
    ASSUME TypeOK, NEW f, ReadBuffer(f),
           f \in [state : {"PRE", "MID", "END"}, reads : Nat, seqnum : Nat],
           NEW size, size = (IF f.seqnum = 0 THEN SAMPLES_LEN_PER_CAL_FRAME
                             ELSE SAMPLES_LEN_PER_DATA_FRAME),
           f.reads \in 1 .. size,
           Len(out) = (IF f.seqnum = 0 THEN 0
                       ELSE SAMPLES_LEN_PER_CAL_FRAME
                              + (f.seqnum - 1) * SAMPLES_LEN_PER_DATA_FRAME)
                        + size - f.reads
    PROVE  FrameInv'
<1>1. /\ size \in Nat /\ f.reads \in Nat /\ f.seqnum \in Nat
      /\ SAMPLES_LEN_PER_CAL_FRAME \in Nat /\ SAMPLES_LEN_PER_DATA_FRAME \in Nat
  BY SamplePipelineAssumption
<1>2. /\ frame'.state = IF f.reads = 1 THEN "END" ELSE "MID"
      /\ frame'.reads = f.reads - 1 /\ frame'.seqnum = f.seqnum
  BY DEF ReadBuffer
<1>3. Len(out') = Len(out) + 1 /\ Len(out) \in Nat
  BY MoveKeepsChain, ChainIsSeq DEF ReadBuffer, TypeOK
<1>4. FrameStates'
  BY <1>1, <1>2 DEF FrameStates
<1>5. FramePosition'
  <2> DEFINE base == IF f.seqnum = 0 THEN 0
                     ELSE SAMPLES_LEN_PER_CAL_FRAME
                            + (f.seqnum - 1) * SAMPLES_LEN_PER_DATA_FRAME
  <2>1. base \in Int
    <3>1. f.seqnum # 0 => (f.seqnum - 1) * SAMPLES_LEN_PER_DATA_FRAME \in Int
      BY <1>1
    <3> QED BY <3>1, <1>1
  <2>2. Len(out) = base + size - f.reads
    OBVIOUS
  <2>3. FramePosition' <=>
          Len(out') = base + size - (IF f.reads = 1 THEN 0 ELSE f.reads - 1)
    BY <1>2 DEF FramePosition
  <2>4. \A b \in Int : \A n \in Nat : \A r \in 1 .. n :
           b + n - r + 1 = b + n - (IF r = 1 THEN 0 ELSE r - 1)
    OBVIOUS
  <2> HIDE DEF base
  <2>5. Len(out') = base + size - f.reads + 1
    BY <2>2, <1>3
  <2>6. base + size - f.reads + 1
          = base + size - (IF f.reads = 1 THEN 0 ELSE f.reads - 1)
    BY <2>1, <2>4, <1>1
  <2> QED BY <2>3, <2>5, <2>6
<1> QED BY <1>4, <1>5 DEF FrameInv

(* StoreBuffer, from a frame under way or from the next one *)
LEMMA StoreBufferKeepsFrame ==
    ASSUME TypeOK, FrameInv, StoreBuffer PROVE FrameInv'
<1> USE SamplePipelineAssumption
<1>1. CASE frame.state = "END"
  <2> DEFINE f == [state |-> "PRE", reads |-> SAMPLES_LEN_PER_DATA_FRAME,
                   seqnum |-> frame.seqnum + 1]
             d == SAMPLES_LEN_PER_DATA_FRAME
  <2>1. ReadBuffer(f)
    BY <1>1 DEF StoreBuffer
  <2>2. /\ f \in [state : {"PRE", "MID", "END"}, reads : Nat, seqnum : Nat]
        /\ Len(out) = SAMPLES_LEN_PER_CAL_FRAME + (f.seqnum - 1) * d
    BY <1>1, NextFrameBegins DEF FrameInv
  <2>3. f.seqnum # 0 /\ f.reads = d /\ d \in Nat \ {0} /\ d \in 1 .. d
    BY DEF TypeOK
  <2>4. (f.seqnum - 1) * d \in Int
    BY <2>2, <2>3
  <2>5. Len(out) = SAMPLES_LEN_PER_CAL_FRAME + (f.seqnum - 1) * d + d - f.reads
    BY <2>2, <2>3, <2>4
  <2> HIDE DEF f
  <2> QED BY <2>1, <2>2, <2>3, <2>5, ReadBufferKeepsFrame
<1>2. CASE frame.state # "END"
  <2> DEFINE size == IF frame.seqnum = 0 THEN SAMPLES_LEN_PER_CAL_FRAME
                     ELSE SAMPLES_LEN_PER_DATA_FRAME
  <2>1. ReadBuffer(frame)
        /\ frame \in [state : {"PRE", "MID", "END"}, reads : Nat, seqnum : Nat]
    BY <1>2 DEF StoreBuffer, TypeOK
  <2>2. frame.reads \in 1 .. size
    BY <1>2, <2>1 DEF FrameInv, FrameStates
  <2>3. Len(out) = (IF frame.seqnum = 0 THEN 0
                    ELSE SAMPLES_LEN_PER_CAL_FRAME
                           + (frame.seqnum - 1) * SAMPLES_LEN_PER_DATA_FRAME)
                     + size - frame.reads
    BY <1>2 DEF FrameInv, FramePosition
  <2> QED BY <2>1, <2>2, <2>3, ReadBufferKeepsFrame
<1> QED BY <1>1, <1>2

(* The end of a frame *)
LEMMA NextFrameKeepsFrame ==
    ASSUME TypeOK, FrameInv, frame.state = "END", NextFrame, out' = out
    PROVE  FrameInv'
<1> DEFINE f == [state |-> "PRE", reads |-> SAMPLES_LEN_PER_DATA_FRAME,
                 seqnum |-> frame.seqnum + 1]
           d == SAMPLES_LEN_PER_DATA_FRAME
<1>1. /\ frame' = f /\ f.state = "PRE" /\ f.reads = d /\ f.seqnum # 0
      /\ f.seqnum \in Nat /\ d \in Nat /\ SAMPLES_LEN_PER_CAL_FRAME \in Nat
  BY SamplePipelineAssumption DEF NextFrame, TypeOK
<1>2. Len(out) = SAMPLES_LEN_PER_CAL_FRAME + (f.seqnum - 1) * d
  BY NextFrameBegins DEF FrameInv
<1> HIDE DEF f
<1>3. (f.seqnum - 1) * d \in Int
  BY <1>1
<1>4. Len(out) = SAMPLES_LEN_PER_CAL_FRAME + (f.seqnum - 1) * d + d - d
  BY <1>1, <1>2, <1>3
<1>5. FramePosition'
  BY <1>1, <1>4 DEF FramePosition
<1>6. FrameStates'
  BY <1>1 DEF FrameStates
<1> QED BY <1>5, <1>6 DEF FrameInv

(* A frame at its start, with nothing sent *)
LEMMA FirstFrameInv ==
    ASSUME frame = FirstFrame, out = <<>> PROVE FrameInv
<1>1. Len(out) = 0 /\ SAMPLES_LEN_PER_CAL_FRAME \in Nat
  BY SamplePipelineAssumption
<1> QED BY <1>1 DEF FrameInv, FrameStates, FramePosition, FirstFrame

(* samples_uart_write *)
LEMMA UartWriteKeepsFrame ==
    ASSUME TypeOK, FrameInv, UartWrite PROVE FrameInv'
<1>1. CASE UNCHANGED <<frame, out>>
  BY <1>1 DEF FrameInv, FrameStates, FramePosition
<1>2. CASE /\ frame.state = "PRE" /\ frame' = [frame EXCEPT !.state = "MID"]
           /\ UNCHANGED out
  <2>1. /\ frame'.state = "MID" /\ frame'.reads = frame.reads
        /\ frame'.seqnum = frame.seqnum
    BY <1>2 DEF TypeOK
  <2>2. FramePosition'
    BY <1>2, <2>1 DEF FrameInv, FramePosition
  <2>3. FrameStates'
    BY <1>2, <2>1, SamplePipelineAssumption DEF FrameInv, FrameStates
  <2> QED BY <2>2, <2>3 DEF FrameInv
<1>3. CASE frame.state = "MID" /\ ReadBuffer(frame)
  <2> DEFINE size == IF frame.seqnum = 0 THEN SAMPLES_LEN_PER_CAL_FRAME
                     ELSE SAMPLES_LEN_PER_DATA_FRAME
  <2>1. frame \in [state : {"PRE", "MID", "END"}, reads : Nat, seqnum : Nat]
    BY DEF TypeOK
  <2>2. frame.reads \in 1 .. size
    BY <1>3 DEF FrameInv, FrameStates
  <2>3. Len(out) = (IF frame.seqnum = 0 THEN 0
                    ELSE SAMPLES_LEN_PER_CAL_FRAME
                           + (frame.seqnum - 1) * SAMPLES_LEN_PER_DATA_FRAME)
                     + size - frame.reads
    BY <1>3 DEF FrameInv, FramePosition
  <2> QED BY <1>3, <2>1, <2>2, <2>3, ReadBufferKeepsFrame
<1>4. CASE frame.state = "END" /\ NextFrame /\ UNCHANGED out
  BY <1>4, NextFrameKeepsFrame
<1> QED BY <1>1, <1>2, <1>3, <1>4 DEF UartWrite

LEMMA StoreNothingKeepsFrame ==
    ASSUME TypeOK, FrameInv, StoreNothing PROVE FrameInv'
<1>1. CASE frame.state = "END"
  BY <1>1, NextFrameKeepsFrame DEF StoreNothing
<1>2. CASE frame.state # "END"
  BY <1>2 DEF StoreNothing, FrameInv, FrameStates, FramePosition
<1> QED BY <1>1, <1>2

-----------------------------------------------------------------------------
(* Types *)

FrameType == [state : {"PRE", "MID", "END"}, reads : Nat, seqnum : Nat]

(* What samples_uart_write and samples_store_write may do to the samples:   *)
(* they stay one sequence, and a frame only ends when it is complete.       *)
MovesOn ==
    /\ Chain' = Chain
    /\ out' \in Seq(Contents) /\ ring' \in Seq(Contents)
    /\ Len(ring') <= RING_LEN /\ frame' \in FrameType
    /\ \/ writes_remaining' = writes_remaining
       \/ frame.state = "END" /\ writes_remaining' = SAMPLES_LEN_PER_DATA_FRAME

LEMMA ReadBufferMoves ==
    ASSUME TypeOK, NEW f \in FrameType, f.reads # 0, ReadBuffer(f)
    PROVE  /\ Chain' = Chain
           /\ out' \in Seq(Contents) /\ ring' \in Seq(Contents)
           /\ Len(ring') <= RING_LEN /\ frame' \in FrameType
<1>1. out \in Seq(Contents) /\ ring \in Seq(Contents) /\ Len(ring) <= RING_LEN
      /\ ring # <<>>
  BY DEF TypeOK, ReadBuffer
<1> HIDE DEF Contents
<1>2. /\ out' \in Seq(Contents) /\ ring' \in Seq(Contents)
      /\ Len(ring') = Len(ring) - 1 /\ Chain' = Chain
  BY <1>1, MoveKeepsChain DEF ReadBuffer, Chain
<1>3. Len(ring') <= RING_LEN
  BY <1>1, <1>2, LenProperties, SamplePipelineAssumption
<1>4. frame' \in FrameType
  <2>1. f.reads - 1 \in Nat
    BY DEF FrameType
  <2>2. frame' = [f EXCEPT !.state = IF f.reads = 1 THEN "END" ELSE "MID",
                           !.reads = f.reads - 1]
    BY DEF ReadBuffer
  <2> QED BY <2>1, <2>2 DEF FrameType
<1> QED BY <1>2, <1>3, <1>4

LEMMA NextFrameMoves ==
    ASSUME TypeOK, frame.state = "END", NextFrame, UNCHANGED <<ring, out>>
    PROVE  MovesOn
<1>1. Chain' = Chain
  BY DEF Chain
<1>2. frame' \in FrameType
  BY SamplePipelineAssumption DEF NextFrame, TypeOK, FrameType
<1> QED BY <1>1, <1>2 DEF MovesOn, TypeOK, NextFrame

LEMMA StoreBufferMoves ==
    ASSUME TypeOK, FrameInv, StoreBuffer PROVE MovesOn
<1>1. CASE frame.state = "END"
  <2> DEFINE f == [state |-> "PRE", reads |-> SAMPLES_LEN_PER_DATA_FRAME,
                   seqnum |-> frame.seqnum + 1]
  <2>1. f \in FrameType /\ f.reads # 0
    BY SamplePipelineAssumption DEF TypeOK, FrameType
  <2>2. ReadBuffer(f) /\ writes_remaining' = SAMPLES_LEN_PER_DATA_FRAME
    BY <1>1 DEF StoreBuffer
  <2> HIDE DEF f
  <2> QED BY <1>1, <2>1, <2>2, ReadBufferMoves DEF MovesOn
<1>2. CASE frame.state # "END"
  <2>1. frame \in FrameType /\ frame.reads # 0
    BY <1>2, SamplePipelineAssumption DEF TypeOK, FrameType, FrameInv, FrameStates
  <2>2. ReadBuffer(frame) /\ writes_remaining' = writes_remaining
    BY <1>2 DEF StoreBuffer
  <2> QED BY <2>1, <2>2, ReadBufferMoves DEF MovesOn
<1> QED BY <1>1, <1>2

LEMMA StoreNothingMoves ==
    ASSUME TypeOK, StoreNothing PROVE MovesOn
<1>1. UNCHANGED <<ring, out>>
  BY DEF StoreNothing
<1>2. CASE frame.state = "END"
  BY <1>1, <1>2, NextFrameMoves DEF StoreNothing
<1>3. CASE frame.state # "END"
  BY <1>1, <1>3 DEF StoreNothing, MovesOn, TypeOK, FrameType, Chain
<1> QED BY <1>2, <1>3

LEMMA StoreWaitMoves ==
    ASSUME TypeOK, StoreWait PROVE MovesOn /\ fs_busy' \in BOOLEAN
BY DEF StoreWait, MovesOn, TypeOK, FrameType, Chain

LEMMA UartWriteMoves ==
    ASSUME TypeOK, FrameInv, UartWrite PROVE MovesOn /\ tx_busy' \in BOOLEAN
<1>1. CASE UNCHANGED <<ring, frame, out, writes_remaining, tx_busy>>
  BY <1>1 DEF MovesOn, TypeOK, FrameType, Chain
<1>2. CASE /\ frame.state = "PRE" /\ frame' = [frame EXCEPT !.state = "MID"]
           /\ UNCHANGED <<ring, out, writes_remaining, tx_busy>>
  BY <1>2 DEF MovesOn, TypeOK, FrameType, Chain
<1>3. CASE frame.state = "MID" /\ ReadBuffer(frame) /\ tx_busy' = TRUE
           /\ UNCHANGED writes_remaining
  <2>1. frame \in FrameType /\ frame.reads # 0
    BY <1>3 DEF TypeOK, FrameType, FrameInv, FrameStates
  <2> QED BY <1>3, <2>1, ReadBufferMoves DEF MovesOn
<1>4. CASE frame.state = "END" /\ NextFrame /\ UNCHANGED <<ring, out, tx_busy>>
  BY <1>4, NextFrameMoves DEF TypeOK
<1> QED BY <1>1, <1>2, <1>3, <1>4 DEF UartWrite

(* A register holds one word of flags, or nothing. *)
IsRegister(reg) == reg = <<>> \/ (Len(reg) = 1 /\ reg[1] \subseteq Flags)

LEMMA WordIsRegister ==
    ASSUME NEW word \in SUBSET Flags
    PROVE  /\ IsRegister(<<word>>) /\ <<word>> # <<>> /\ <<word>>[1] = word
BY DEF IsRegister

TypeParts ==
    /\ sampling \in BOOLEAN /\ fill \in Channels /\ taken \in 0 .. MAX_TAKEN
    /\ adcb \in [Channels -> Contents]
    /\ g_interrupt \subseteq Flags
    /\ IsRegister(main_reg) /\ IsRegister(isr_reg)
    /\ pc \in Flags \cup {"sleep", "write", "rx", "drain", "halted"}
    /\ caller \in {"rx", "TIMER_MS"} /\ mode \in {"idle", "store", "stream"}
    /\ ring \in Seq(Contents) /\ Len(ring) <= RING_LEN
    /\ out \in Seq(Contents)
    /\ frame \in FrameType
    /\ writes_remaining \in Int /\ calibrated \in BOOLEAN /\ cal_end \in Nat
    /\ fs_busy \in BOOLEAN /\ tx_busy \in BOOLEAN
    /\ starts \in 0 .. MAX_STARTS /\ mishap \subseteq {"late", "raced", "stale"}

LEMMA PartsAreType == TypeOK <=> TypeParts
BY DEF TypeOK, TypeParts, IsRegister, FrameType

LEMMA FirstFrameType ==
    /\ FirstFrame \in FrameType /\ SAMPLES_LEN_PER_CAL_FRAME \in Int
    /\ <<>> \in Seq(Contents) /\ Len(<<>>) <= RING_LEN /\ IsRegister(<<>>)
    /\ [c \in Channels |-> {}] \in [Channels -> Contents]
BY SamplePipelineAssumption DEF FirstFrame, FrameType, Contents, IsRegister

LEMMA InitType == Init => TypeOK
<1> SUFFICES ASSUME Init PROVE TypeParts
  BY PartsAreType
<1>1. /\ fill \in Channels /\ {} \subseteq Flags
      /\ pc \in Flags \cup {"sleep", "write", "rx", "drain", "halted"}
  BY DEF Init, Channels
<1>2. taken \in 0 .. MAX_TAKEN /\ starts \in 0 .. MAX_STARTS /\ cal_end \in Nat
  BY SamplePipelineAssumption DEF Init
<1> QED BY <1>1, <1>2, FirstFrameType DEF Init, TypeParts

(* ClearLoad loads a word; so does returning to the timer's handlers. *)
LEMMA ClearLoadType ==
    ASSUME TypeParts, NEW flag, ClearLoad(flag) PROVE IsRegister(main_reg')
<1>1. g_interrupt \ {flag} \in SUBSET Flags
  BY DEF TypeParts
<1> QED BY <1>1, WordIsRegister DEF ClearLoad

LEMMA ReturnType ==
    ASSUME TypeParts, NEW from \in {"rx", "TIMER_MS"}, Return(from)
    PROVE  /\ pc' \in Flags \cup {"sleep", "write", "rx", "drain", "halted"}
           /\ IsRegister(main_reg')
BY ClearLoadType DEF Return, TypeParts, Flags, Channels

(* Every step keeps the types. *)
LEMMA TypeStep == ASSUME TypeOK, FrameInv, Next PROVE TypeOK'
<1> SUFFICES TypeParts'
  BY DEF TypeOK, TypeParts, IsRegister, FrameType
<1>1. TypeParts
  BY PartsAreType
<1>2. CASE DmaBurst
  <2>1. {taken + 1} \cup adcb[fill] \in Contents /\ {} \cup {taken + 1} \in Contents
    BY <1>1, <1>2, SamplePipelineAssumption DEF DmaBurst, TypeParts, Contents
  <2>2. adcb' \in [Channels -> Contents]
    BY <1>1, <1>2, <2>1 DEF DmaBurst, TypeParts
  <2> QED BY <1>1, <1>2, <2>2
          DEF DmaBurst, TypeParts, flagVars, frameVars, ioVars
<1>3. CASE DmaDone
  <2>1. taken + 1 \in 0 .. MAX_TAKEN /\ {taken + 1} \in Contents
    BY <1>1, <1>3, SamplePipelineAssumption DEF DmaDone, TypeParts, Contents
  <2>2. adcb' \in [Channels -> Contents] /\ fill' \in Channels
    BY <1>1, <1>3, <2>1 DEF DmaDone, TypeParts, Other, Channels
  <2>3. g_interrupt' \subseteq Flags /\ mishap' \subseteq {"late", "raced", "stale"}
        /\ pc' \in Flags \cup {"sleep", "write", "rx", "drain", "halted"}
    BY <1>1, <1>3 DEF DmaDone, TypeParts, Flags, Halt
  <2> QED BY <1>1, <1>3, <2>1, <2>2, <2>3
          DEF DmaDone, TypeParts, flagVars, frameVars, ioVars
<1>4. CASE TimerLoad
  <2>1. IsRegister(isr_reg')
    <3>1. g_interrupt \cup {"TIMER_MS"} \in SUBSET Flags
      BY <1>1 DEF TypeParts, Flags
    <3> QED BY <1>4, <3>1, WordIsRegister DEF TimerLoad
  <2> QED BY <1>1, <1>4, <2>1
          DEF TimerLoad, TypeParts, dmaVars, frameVars, ioVars
<1>5. CASE TimerStore
  <2>1. isr_reg[1] \subseteq Flags
    BY <1>1, <1>5 DEF TimerStore, TypeParts, IsRegister
  <2> QED BY <1>1, <1>5, <2>1, FirstFrameType
          DEF TimerStore, TypeParts, dmaVars, frameVars, ioVars, Raced
<1>6. CASE UartDone
  BY <1>1, <1>6 DEF UartDone, TypeParts, dmaVars, flagVars, frameVars
<1>7. CASE Wake \/ NotSet
  <2>1. pc' \in Flags \cup {"sleep", "write", "rx", "drain", "halted"}
    <3>1. NotSet => Handlers[pc] \in Flags \cup {"write"}
      BY DEF NotSet, Handlers, Flags, Channels
    <3> QED BY <1>7, <3>1 DEF Wake, NotSet, Flags
  <2> QED BY <1>1, <1>7, <2>1
          DEF Wake, NotSet, TypeParts, dmaVars, flagVars, frameVars, ioVars
<1>8. CASE ClearStore
  <2>1. main_reg[1] \subseteq Flags /\ Handlers[pc] \in Flags \cup {"write"}
    BY <1>1, <1>8 DEF ClearStore, TypeParts, IsRegister, Handlers, Flags, Channels
  <2> QED BY <1>1, <1>8, <2>1, FirstFrameType
          DEF ClearStore, TypeParts, dmaVars, frameVars, ioVars, Raced
<1>9. CASE Tick
  BY <1>1, <1>9, ClearLoadType DEF Tick, TypeParts, dmaVars, frameVars, ioVars
<1>10. CASE CopyBuffer
  <2>1. adcb[pc] \in Contents
    BY <1>1, <1>10 DEF CopyBuffer, TypeParts
  <2>2. /\ ring' \in Seq(Contents) /\ Len(ring') <= RING_LEN
        /\ IsRegister(main_reg')
        /\ pc' \in Flags \cup {"sleep", "write", "rx", "drain", "halted"}
    <3> HIDE DEF Contents
    <3>1. CASE Len(ring) < RING_LEN
      <4>1. ring \in Seq(Contents) /\ Len(ring) \in Nat /\ RING_LEN \in Nat
        BY <1>1, LenProperties, SamplePipelineAssumption DEF TypeParts
      <4>2. ring' = Append(ring, adcb[pc]) /\ ClearLoad(pc) /\ pc' = pc
        BY <1>10, <3>1 DEF CopyBuffer
      <4>3. ring' \in Seq(Contents) /\ Len(ring') = Len(ring) + 1
        BY <2>1, <4>1, <4>2, AppendToChain
      <4> QED BY <1>1, <3>1, <4>1, <4>2, <4>3, ClearLoadType DEF TypeParts
    <3>2. CASE ~(Len(ring) < RING_LEN)
      BY <1>1, <1>10, <3>2 DEF CopyBuffer, TypeParts, Halt
    <3> QED BY <3>1, <3>2
  <2>3. writes_remaining' \in Int /\ calibrated' \in BOOLEAN /\ cal_end' \in Nat
    BY <1>1, <1>10, SamplePipelineAssumption
       DEF CopyBuffer, TypeParts, EndsCalibration
  <2> QED BY <1>1, <1>10, <2>2, <2>3
          DEF CopyBuffer, TypeParts, dmaVars, ioVars
<1>11. CASE Write
  <2>1. CASE mode = "idle" /\ pc' = "rx" /\ UNCHANGED <<frameVars, ioVars>>
    BY <1>1, <1>11, <2>1 DEF Write, TypeParts, dmaVars, flagVars, frameVars, ioVars
  <2>2. CASE /\ mode = "stream" /\ UartWrite /\ pc' = "rx"
             /\ UNCHANGED <<calibrated, cal_end, fs_busy>>
    <3>1. MovesOn /\ tx_busy' \in BOOLEAN
      BY <2>2, UartWriteMoves
    <3> QED BY <1>1, <1>11, <2>2, <3>1, SamplePipelineAssumption
            DEF Write, TypeParts, dmaVars, flagVars, MovesOn
  <2>3. CASE /\ mode = "store" /\ (StoreWait \/ StoreNothing \/ StoreBuffer)
             /\ pc' \in {"rx", "halted"}
             /\ UNCHANGED <<calibrated, cal_end, tx_busy>>
    <3>1. MovesOn
      BY <2>3, StoreWaitMoves, StoreNothingMoves, StoreBufferMoves
    <3>2. fs_busy' \in BOOLEAN
      BY <1>1, <2>3 DEF StoreWait, StoreNothing, StoreBuffer, TypeParts
    <3> QED BY <1>1, <1>11, <2>3, <3>1, <3>2, SamplePipelineAssumption
            DEF Write, TypeParts, dmaVars, flagVars, MovesOn
  <2> QED BY <1>11, <2>1, <2>2, <2>3 DEF Write, StoreFails, Halt
<1>12. CASE Receive
  BY <1>1, <1>12 DEF Receive, TypeParts, dmaVars, flagVars, frameVars
<1>13. CASE \E m \in {"store", "stream"} : SamplesStart(m)
  <2>1. PICK m \in {"store", "stream"} : SamplesStart(m)
    BY <1>13
  <2>2. pc \in {"rx", "TIMER_MS"}
    BY <2>1 DEF SamplesStart, InHandler, Main
  <2>3. /\ IsRegister(main_reg')
        /\ pc' \in Flags \cup {"sleep", "write", "rx", "drain", "halted"}
    BY <1>1, <2>1, <2>2, ReturnType DEF SamplesStart, Halt, TypeParts
  <2>4. /\ ring' = <<>> /\ out' = <<>> /\ frame' = FirstFrame
        /\ writes_remaining' = SAMPLES_LEN_PER_CAL_FRAME
        /\ calibrated' = FALSE /\ cal_end' = 0
    BY <2>1 DEF SamplesStart, SamplesInit
  <2>5. starts' \in 0 .. MAX_STARTS
    BY <1>1, <2>1, SamplePipelineAssumption DEF SamplesStart, TypeParts
  <2>6. fill' \in Channels /\ taken' \in 0 .. MAX_TAKEN /\ m \in {"idle", "store", "stream"}
        /\ mishap' \subseteq {"late", "raced", "stale"}
    BY <2>1, SamplePipelineAssumption DEF SamplesStart, Channels
  <2> QED BY <1>1, <2>1, <2>3, <2>4, <2>5, <2>6, FirstFrameType
          DEF SamplesStart, TypeParts
<1>14. CASE SamplesStop
  <2>1. pc \in {"rx", "TIMER_MS"}
    BY <1>14 DEF SamplesStop, InHandler, Main
  <2>2. /\ IsRegister(main_reg') /\ caller' \in {"rx", "TIMER_MS"}
        /\ pc' \in Flags \cup {"sleep", "write", "rx", "drain", "halted"}
    BY <1>1, <1>14, <2>1, ReturnType DEF SamplesStop, TypeParts
  <2> QED BY <1>1, <1>14, <2>2 DEF SamplesStop, TypeParts, frameVars, ioVars
<1>15. CASE Drain
  <2>1. MovesOn
    BY <1>15, StoreWaitMoves, StoreBufferMoves DEF Drain, StoreFails
  <2>2. fs_busy' \in BOOLEAN
        /\ pc' \in Flags \cup {"sleep", "write", "rx", "drain", "halted"}
    BY <1>1, <1>15 DEF Drain, StoreFails, StoreWait, StoreBuffer, TypeParts, Halt
  <2> QED BY <1>1, <1>15, <2>1, <2>2, SamplePipelineAssumption
          DEF Drain, TypeParts, dmaVars, flagVars, MovesOn
<1>16. CASE Close
  <2>1. MovesOn
    BY <1>16, StoreNothingMoves DEF Close, Drained
  <2>2. /\ IsRegister(main_reg') /\ mode' \in {"idle", "store", "stream"}
        /\ pc' \in Flags \cup {"sleep", "write", "rx", "drain", "halted"}
    BY <1>1, <1>16, ReturnType DEF Close, Halt, TypeParts
  <2>3. fs_busy' = fs_busy
    BY <1>16 DEF Close, Drained, StoreNothing
  <2> QED BY <1>1, <1>16, <2>1, <2>2, <2>3, SamplePipelineAssumption
          DEF Close, TypeParts, dmaVars, MovesOn
<1>17. CASE Reset
  <2>1. /\ fill' \in Channels /\ taken' \in 0 .. MAX_TAKEN /\ g_interrupt' \subseteq Flags
        /\ cal_end' \in Nat /\ mishap' \subseteq {"late", "raced", "stale"}
    BY <1>17, SamplePipelineAssumption DEF Reset, Channels
  <2> QED BY <1>1, <1>17, <2>1, FirstFrameType DEF Reset, TypeParts
<1> QED BY <1>2, <1>3, <1>4, <1>5, <1>6, <1>7, <1>8, <1>9, <1>10, <1>11, <1>12,
          <1>13, <1>14, <1>15, <1>16, <1>17 DEF Next, MainStep

-----------------------------------------------------------------------------
(* The registers *)

LEMMA ClearLoadAgrees ==
    ASSUME TypeOK, NEW flag \in Flags, ClearLoad(flag), isr_reg' = <<>>,
           pc' = flag, flag \in g_interrupt, g_interrupt' = g_interrupt
    PROVE  RegistersAgree'
<1>1. g_interrupt \ {flag} \in SUBSET Flags
  BY DEF TypeOK
<1>2. main_reg'[1] = g_interrupt \ {flag}
  BY <1>1, WordIsRegister DEF ClearLoad
<1> QED BY <1>2 DEF RegistersAgree

(* With no handler running, and main between two flags, nothing is loaded. *)
LEMMA NothingLoaded ==
    ASSUME RegistersAgree, Running, pc \notin Flags PROVE main_reg = <<>>
BY DEF RegistersAgree

LEMMA ReturnAgrees ==
    ASSUME TypeOK, RegistersAgree, Running, isr_reg = <<>>, isr_reg' = <<>>,
           NEW from \in {"rx", "TIMER_MS"}, Return(from), main_reg = <<>>,
           UNCHANGED g_interrupt
    PROVE  RegistersAgree'
<1>1. CASE from = "rx"
  BY <1>1 DEF Return, RegistersAgree
<1>2. CASE from = "TIMER_MS"
  <2>1. g_interrupt \ {from} \in SUBSET Flags /\ from \notin Channels
    BY <1>2 DEF TypeOK, Channels
  <2>2. main_reg'[1] = g_interrupt \ {from} /\ pc' = from
    BY <1>2, <2>1, WordIsRegister DEF Return, ClearLoad
  <2> QED BY <1>2, <2>1, <2>2 DEF RegistersAgree, Flags
<1> QED BY <1>1, <1>2

LEMMA RegistersStep ==
    ASSUME TypeOK, RegistersAgree, Next PROVE RegistersAgree'
<1>1. CASE DmaBurst
  BY <1>1 DEF DmaBurst, RegistersAgree, Running, flagVars
<1>2. CASE DmaDone
  BY <1>2 DEF DmaDone, RegistersAgree, Running, Halt, Channels
<1>3. CASE TimerLoad
  <2>1. g_interrupt \cup {"TIMER_MS"} \in SUBSET Flags
    BY DEF TypeOK, Flags
  <2>2. isr_reg'[1] = g_interrupt \cup {"TIMER_MS"}
    BY <1>3, <2>1, WordIsRegister DEF TimerLoad
  <2> QED BY <1>3, <2>2 DEF TimerLoad, RegistersAgree, Running, Channels
<1>4. CASE TimerStore
  BY <1>4 DEF TimerStore, RegistersAgree, Running
<1>5. CASE UartDone \/ Receive
  <2>1. CASE UartDone
    BY <2>1 DEF UartDone, RegistersAgree, Running, flagVars
  <2>2. CASE Receive
    <3>1. main_reg = <<>> /\ isr_reg = <<>>
      BY <2>2, NothingLoaded DEF Receive, Main, Running, Flags, Channels
    <3> QED BY <2>2, <3>1 DEF Receive, RegistersAgree, flagVars
  <2> QED BY <1>5, <2>1, <2>2
<1>6. CASE Wake \/ NotSet
  BY <1>6, NothingLoaded
     DEF Wake, NotSet, Main, RegistersAgree, Running, flagVars, Flags, Channels
<1>7. CASE ClearStore
  BY <1>7 DEF ClearStore, Main, RegistersAgree
<1>8. CASE Tick
  BY <1>8, ClearLoadAgrees DEF Tick, Main, Flags
<1>9. CASE CopyBuffer
  <2>1. CASE Len(ring) < RING_LEN
    <3>1. pc \in Flags
      BY <1>9 DEF CopyBuffer, Flags
    <3> QED BY <1>9, <2>1, <3>1, ClearLoadAgrees DEF CopyBuffer, Main
  <2>2. CASE ~(Len(ring) < RING_LEN)
    BY <1>9, <2>2 DEF CopyBuffer, Halt, RegistersAgree, Running
  <2> QED BY <2>1, <2>2
<1>10. CASE Write
  <2>1. main_reg = <<>> /\ isr_reg = <<>>
    BY <1>10, NothingLoaded DEF Write, StoreFails, Main, Running, Flags, Channels
  <2>2. main_reg' = <<>> /\ isr_reg' = <<>>
    BY <1>10, <2>1 DEF Write, flagVars
  <2> QED BY <2>2 DEF RegistersAgree
<1>11. CASE \E m \in {"store", "stream"} : SamplesStart(m)
  <2>1. PICK m \in {"store", "stream"} : SamplesStart(m)
    BY <1>11
  <2>2. /\ pc \in {"rx", "TIMER_MS"} /\ Running /\ main_reg = <<>>
        /\ isr_reg = <<>> /\ isr_reg' = <<>> /\ UNCHANGED g_interrupt
    BY <2>1, NothingLoaded
       DEF SamplesStart, InHandler, Main, Running, Flags, Channels
  <2>3. CASE Return(pc)
    BY <2>2, <2>3, ReturnAgrees
  <2>4. CASE Halt
    BY <2>4 DEF Halt, RegistersAgree, Running
  <2> QED BY <2>1, <2>3, <2>4 DEF SamplesStart
<1>12. CASE SamplesStop
  <2>1. /\ pc \in {"rx", "TIMER_MS"} /\ Running /\ main_reg = <<>>
        /\ isr_reg = <<>> /\ isr_reg' = <<>> /\ UNCHANGED g_interrupt
    BY <1>12, NothingLoaded
       DEF SamplesStop, InHandler, Main, Running, Flags, Channels
  <2>2. CASE Return(pc)
    BY <2>1, <2>2, ReturnAgrees
  <2>3. CASE UNCHANGED main_reg
    BY <2>1, <2>3 DEF RegistersAgree
  <2> QED BY <1>12, <2>2, <2>3 DEF SamplesStop
<1>13. CASE Drain
  <2>1. main_reg = <<>> /\ isr_reg = <<>>
    BY <1>13, NothingLoaded DEF Drain, Main, Running, Flags, Channels
  <2>2. main_reg' = <<>> /\ isr_reg' = <<>>
    BY <1>13, <2>1 DEF Drain, flagVars
  <2> QED BY <2>2 DEF RegistersAgree
<1>14. CASE Close
  <2>1. /\ caller \in {"rx", "TIMER_MS"} /\ Running /\ main_reg = <<>>
        /\ isr_reg = <<>> /\ isr_reg' = <<>> /\ UNCHANGED g_interrupt
    BY <1>14, NothingLoaded DEF Close, Main, Running, Flags, Channels, TypeOK
  <2>2. CASE Return(caller)
    BY <2>1, <2>2, ReturnAgrees
  <2>3. CASE Halt
    BY <2>3 DEF Halt, RegistersAgree, Running
  <2> QED BY <1>14, <2>2, <2>3 DEF Close
<1>15. CASE Reset
  BY <1>15 DEF Reset, RegistersAgree
<1> QED BY <1>1, <1>2, <1>3, <1>4, <1>5, <1>6, <1>7, <1>8, <1>9, <1>10, <1>11,
          <1>12, <1>13, <1>14, <1>15 DEF Next, MainStep

(* The frame keeps its place in every step. *)
LEMMA FrameStep == ASSUME TypeOK, FrameInv, Next PROVE FrameInv'
<1>1. CASE UNCHANGED <<frame, out>>
  BY <1>1 DEF FrameInv, FrameStates, FramePosition
<1>2. CASE frame' = FirstFrame /\ out' = <<>>
  <2>1. Len(out') = 0 /\ SAMPLES_LEN_PER_CAL_FRAME \in Nat
    BY <1>2, SamplePipelineAssumption
  <2> QED BY <1>2, <2>1 DEF FrameInv, FrameStates, FramePosition, FirstFrame
<1>3. CASE Write
  BY <1>3, <1>1, UartWriteKeepsFrame, StoreNothingKeepsFrame, StoreBufferKeepsFrame
     DEF Write, StoreFails, StoreWait, frameVars
<1>4. CASE Drain
  BY <1>4, <1>1, StoreBufferKeepsFrame DEF Drain, StoreFails, StoreWait
<1>5. CASE Close
  BY <1>5, StoreNothingKeepsFrame DEF Close, Drained
<1>6. CASE (\E m \in {"store", "stream"} : SamplesStart(m)) \/ Reset
  BY <1>6, <1>2 DEF SamplesStart, SamplesInit, Reset
<1>7. CASE \/ DmaBurst \/ DmaDone \/ TimerLoad \/ TimerStore \/ UartDone \/ Wake
           \/ NotSet \/ ClearStore \/ Tick \/ CopyBuffer \/ Receive \/ SamplesStop
  BY <1>7, <1>1 DEF DmaBurst, DmaDone, TimerLoad, TimerStore, UartDone, Wake, NotSet,
     ClearStore, Tick, CopyBuffer, Receive, SamplesStop, frameVars
<1> QED BY <1>3, <1>4, <1>5, <1>6, <1>7 DEF Next, MainStep

-----------------------------------------------------------------------------
(* The samples *)

SamplesInv ==
    /\ NothingLost /\ InOrder /\ LastIsFlagged /\ AllCounted
    /\ CalibrationCounts /\ CalibrationEnds

(* A step that neither takes nor copies a buffer, nor clears a flag. *)
Quiet ==
    /\ Chain' = Chain /\ UNCHANGED <<taken, mishap>>
    /\ Running' =>
          /\ Running /\ UNCHANGED <<adcb, fill, calibrated, cal_end>>
          /\ Uncopied' = Uncopied
          /\ writes_remaining' = writes_remaining \/ calibrated

LEMMA QuietKeeps == ASSUME SamplesInv, Quiet PROVE SamplesInv'
<1>1. InOrder'
  BY DEF SamplesInv, Quiet, InOrder
<1>2. NothingLost' /\ LastIsFlagged' /\ AllCounted'
  <2>1. CASE Running'
    <3>1. NothingLost'
      BY <2>1 DEF SamplesInv, Quiet, NothingLost
    <3>2. LastIsFlagged'
      BY <2>1 DEF SamplesInv, Quiet, LastIsFlagged, OnTime
    <3>3. AllCounted'
      BY <2>1 DEF SamplesInv, Quiet, AllCounted
    <3> QED BY <3>1, <3>2, <3>3
  <2>2. CASE ~Running'
    BY <2>2 DEF NothingLost, LastIsFlagged, AllCounted
  <2> QED BY <2>1, <2>2
<1>3. CalibrationCounts' /\ CalibrationEnds'
  <2>1. CASE Running'
    <3>1. CalibrationCounts'
      BY <2>1 DEF SamplesInv, Quiet, CalibrationCounts
    <3>2. CalibrationEnds'
      BY <2>1 DEF SamplesInv, Quiet, CalibrationEnds
    <3> QED BY <3>1, <3>2
  <2>2. CASE ~Running'
    BY <2>2 DEF CalibrationCounts, CalibrationEnds
  <2> QED BY <2>1, <2>2
<1> QED BY <1>1, <1>2, <1>3 DEF SamplesInv

(* A frame can only be complete when the calibration is. *)
LEMMA EndIsCalibrated ==
    ASSUME TypeOK, FrameInv, CalibrationCounts, Running, frame.state = "END"
    PROVE  calibrated
<1> DEFINE c == SAMPLES_LEN_PER_CAL_FRAME
           d == SAMPLES_LEN_PER_DATA_FRAME
<1>1. c \in Nat \ {0} /\ d \in Nat \ {0} /\ frame.seqnum \in Nat
  BY SamplePipelineAssumption DEF TypeOK
<1>2. Len(out) = IF frame.seqnum = 0 THEN 0 + c - 0
                 ELSE c + (frame.seqnum - 1) * d + d - 0
  BY DEF FrameInv, FramePosition
<1>3. frame.seqnum # 0 => (frame.seqnum - 1) * d \in Nat
  BY <1>1
<1>4. Len(out) >= c
  BY <1>1, <1>2, <1>3
<1>5. Len(Chain) >= c
  BY <1>1, <1>4, ChainIsSeq
<1> HIDE DEF c
<1>6. ~(c - Len(Chain) > 0)
  BY <1>1, <1>5, ChainIsSeq
<1> QED BY <1>6 DEF CalibrationCounts, c, TypeOK

(* What comes to the main loop when it moves buffers on *)
LEMMA MovesOnIsQuiet ==
    ASSUME TypeOK, FrameInv, CalibrationCounts, Running, MovesOn,
           UNCHANGED <<taken, mishap, adcb, fill, calibrated, cal_end>>,
           Uncopied' = Uncopied
    PROVE  Quiet
BY EndIsCalibrated DEF MovesOn, Quiet

(* Between flags main holds no register, so that every flag is uncopied. *)
LEMMA UncopiedBetween ==
    (pc \notin Channels \/ main_reg = <<>>) =>
        Uncopied = Channels \cap g_interrupt
BY DEF Uncopied

(* The steps that are quiet *)
LEMMA QuietSteps ==
    ASSUME TypeOK, FrameInv, RegistersAgree, CalibrationCounts,
           \/ TimerLoad \/ UartDone \/ Wake \/ NotSet \/ Tick \/ Write
           \/ Receive \/ SamplesStop \/ Drain \/ Close
    PROVE  Quiet
<1>1. CASE TimerLoad \/ UartDone
  BY <1>1 DEF TimerLoad, UartDone, Quiet, Chain, Uncopied, Running, dmaVars, frameVars,
     flagVars
<1>2. CASE Wake \/ NotSet
  <2>1. Uncopied' = Uncopied
    BY <1>2, UncopiedBetween
       DEF Wake, NotSet, Main, Uncopied, flagVars, Channels
  <2> QED BY <1>2, <2>1 DEF Wake, NotSet, Main, Quiet, Chain, Running, dmaVars,
          frameVars, Flags, Channels
<1>3. CASE Tick
  <2>1. Uncopied' = Uncopied
    BY <1>3 DEF Tick, Main, Uncopied, Channels
  <2> QED BY <1>3, <2>1 DEF Tick, Quiet, Chain, Running, dmaVars, frameVars
<1>4. CASE Write
  <2>1. Uncopied' = Uncopied /\ Running
    BY <1>4 DEF Write, StoreFails, Main, Uncopied, flagVars, Halt, Channels, Running
  <2>2. UNCHANGED <<taken, mishap, adcb, fill, calibrated, cal_end>>
    BY <1>4 DEF Write, StoreFails, dmaVars, frameVars
  <2>3. CASE UNCHANGED frameVars
    BY <2>1, <2>2, <2>3 DEF Quiet, Chain, frameVars
  <2>4. CASE UartWrite \/ StoreWait \/ StoreNothing \/ StoreBuffer
    <3>1. MovesOn
      BY <2>4, UartWriteMoves, StoreWaitMoves, StoreNothingMoves, StoreBufferMoves
    <3> QED BY <2>1, <2>2, <3>1, MovesOnIsQuiet
  <2> QED BY <1>4, <2>3, <2>4 DEF Write, StoreFails
<1>5. CASE Receive
  BY <1>5 DEF Receive, Main, Quiet, Chain, Uncopied, Running, dmaVars, flagVars,
     frameVars, Channels
<1>6. CASE SamplesStop
  <2>1. pc \notin Channels /\ Running
    BY <1>6 DEF SamplesStop, InHandler, Main, Channels, Running
  <2>2. pc' \notin Channels
    BY <1>6, <2>1 DEF SamplesStop, Return, Channels
  <2>3. Uncopied' = Uncopied
    BY <1>6, <2>1, <2>2 DEF SamplesStop, Uncopied
  <2> QED BY <1>6, <2>1, <2>3 DEF SamplesStop, Quiet, Chain, frameVars
<1>7. CASE Drain
  <2>1. Uncopied' = Uncopied /\ Running
    BY <1>7 DEF Drain, StoreFails, Main, Uncopied, flagVars, Halt, Channels, Running
  <2>2. UNCHANGED <<taken, mishap, adcb, fill, calibrated, cal_end>>
    BY <1>7 DEF Drain, StoreFails, dmaVars
  <2>3. MovesOn
    BY <1>7, StoreWaitMoves, StoreBufferMoves DEF Drain, StoreFails
  <2> QED BY <2>1, <2>2, <2>3, MovesOnIsQuiet
<1>8. CASE Close
  <2>1. pc \notin Channels /\ Running
    BY <1>8 DEF Close, Main, Channels, Running
  <2>2. pc' \notin Channels
    BY <1>8, <2>1 DEF Close, Return, Halt, Channels, TypeOK
  <2>3. Uncopied' = Uncopied
    BY <1>8, <2>1, <2>2 DEF Close, Uncopied
  <2>4. UNCHANGED <<taken, mishap, adcb, fill, calibrated, cal_end>>
    BY <1>8 DEF Close, dmaVars
  <2>5. MovesOn
    BY <1>8, StoreNothingMoves DEF Close, Drained
  <2> QED BY <2>1, <2>3, <2>4, <2>5, MovesOnIsQuiet
<1> QED BY <1>1, <1>2, <1>3, <1>4, <1>5, <1>6, <1>7, <1>8

(* A buffer begins to fill. *)
LEMMA DmaBurstKeeps ==
    ASSUME TypeOK, RegistersAgree, SamplesInv, DmaBurst PROVE SamplesInv'
<1>1. /\ Chain' = Chain /\ Uncopied' = Uncopied /\ Running
      /\ UNCHANGED <<taken, mishap, fill, calibrated, cal_end,
                     writes_remaining, pc, ring, out>>
  BY DEF DmaBurst, Chain, Uncopied, frameVars, flagVars
<1>2. \A c \in Uncopied : adcb[c] \subseteq adcb'[c]
                          /\ (c # fill => adcb'[c] = adcb[c])
  BY DEF DmaBurst, TypeOK, Uncopied
<1>3. NothingLost'
  BY <1>1, <1>2 DEF SamplesInv, NothingLost, Running
<1>4. LastIsFlagged'
  <2>1. fill \in Channels /\ Other(fill) # fill
    BY DEF TypeOK, Other, Channels
  <2> QED BY <1>1, <1>2, <2>1 DEF SamplesInv, LastIsFlagged, OnTime, Running, Other
<1>5. InOrder' /\ AllCounted' /\ CalibrationCounts' /\ CalibrationEnds'
  BY <1>1 DEF SamplesInv, InOrder, AllCounted, CalibrationCounts,
              CalibrationEnds, Running
<1> QED BY <1>3, <1>4, <1>5 DEF SamplesInv

(* A buffer is full: its flag is set, or the firmware halts. *)
LEMMA DmaDoneKeeps ==
    ASSUME TypeOK, RegistersAgree, SamplesInv, DmaDone PROVE SamplesInv'
<1>1. /\ Chain' = Chain /\ Running /\ taken' = taken + 1 /\ taken \in Nat
      /\ UNCHANGED <<calibrated, cal_end, writes_remaining, main_reg>>
      /\ Len(Chain) \in Nat
  BY ChainIsSeq, SamplePipelineAssumption DEF DmaDone, Chain, frameVars, TypeOK
<1>2. InOrder'
  <2>1. mishap \subseteq mishap' /\ 1 .. taken \subseteq 1 .. taken'
    BY <1>1 DEF DmaDone
  <2> QED BY <1>1, <2>1 DEF SamplesInv, InOrder
<1>3. CASE fill \in g_interrupt
  <2>1. ~Running'
    BY <1>3 DEF DmaDone, DmaOverflow, Halt, Running
  <2> QED BY <1>2, <2>1 DEF SamplesInv, NothingLost, LastIsFlagged,
          AllCounted, CalibrationCounts, CalibrationEnds
<1>4. CASE fill \notin g_interrupt
  <2>1. /\ g_interrupt' = g_interrupt \cup {fill} /\ UNCHANGED pc
        /\ mishap' = mishap \cup (IF Other(fill) \in Uncopied THEN {"late"} ELSE {})
        /\ fill' = Other(fill) /\ adcb' = [adcb EXCEPT ![fill] = {taken + 1}]
        /\ fill \in Channels
    BY <1>4 DEF DmaDone, DmaOverflow, TypeOK
  <2>2. Uncopied' = Uncopied \cup {fill} /\ fill \notin Uncopied
    <3>1. pc # fill \/ main_reg = <<>>
      BY <1>1, <1>4, <2>1 DEF RegistersAgree
    <3> QED BY <1>1, <1>4, <2>1, <3>1 DEF Uncopied
  <2>3. \A c \in Uncopied : adcb'[c] = adcb[c]
    BY <2>1, <2>2 DEF TypeOK, Uncopied
  <2>4. adcb'[fill] = {taken + 1}
    BY <2>1 DEF TypeOK
  <2>5. Running' /\ calibrated' = calibrated
    BY <1>1, <2>1 DEF Running
  <2>6. NothingLost'
    <3>1. SUFFICES ASSUME "raced" \notin mishap', NEW n \in 1 .. taken'
                   PROVE  \/ \E i \in 1 .. Len(Chain) : n \in Chain[i]
                          \/ \E c \in Uncopied' : n \in adcb'[c]
      BY <1>1 DEF NothingLost
    <3>2. CASE n = taken + 1
      BY <2>2, <2>4, <3>2
    <3>3. CASE n \in 1 .. taken
      BY <1>1, <2>1, <2>2, <2>3, <3>1, <3>3 DEF SamplesInv, NothingLost
    <3> QED BY <1>1, <3>1, <3>2, <3>3
  <2>7. ASSUME OnTime'
        PROVE  /\ OnTime /\ Uncopied = {} /\ Uncopied' = {fill}
               /\ (mishap' = {} => mishap = {})
    <3>1. OnTime /\ Other(fill) \notin Uncopied /\ (mishap' = {} => mishap = {})
      BY <2>1, <2>7 DEF OnTime
    <3>2. Uncopied = {}
      BY <1>1, <3>1 DEF SamplesInv, LastIsFlagged
    <3> QED BY <2>2, <3>1, <3>2
  <2>8. LastIsFlagged'
    <3>1. SUFFICES ASSUME OnTime'
                   PROVE  /\ fill = Other(fill') /\ adcb'[fill] = {taken'}
                          /\ \A i \in 1 .. Len(Chain') :
                               \E m \in 1 .. taken' - 1 : Chain'[i] = {m}
      BY <2>7 DEF LastIsFlagged
    <3>2. OnTime /\ fill = Other(fill') /\ taken' - 1 = taken
      BY <1>1, <2>1, <2>7, <3>1 DEF Other, Channels
    <3>3. \A i \in 1 .. Len(Chain) : \E m \in 1 .. taken : Chain[i] = {m}
      BY <1>1, <3>2 DEF SamplesInv, InOrder, OnTime
    <3> QED BY <1>1, <2>4, <3>2, <3>3
  <2>9. AllCounted'
    <3>1. SUFFICES ASSUME mishap' = {} PROVE Len(Chain') = taken' - 1
      BY <2>7 DEF AllCounted, OnTime
    <3>2. mishap = {} /\ Uncopied = {}
      BY <2>7, <3>1 DEF OnTime
    <3> QED BY <1>1, <3>2 DEF SamplesInv, AllCounted
  <2>10. CalibrationCounts' /\ CalibrationEnds'
    BY <1>1, <2>5, <2>7 DEF SamplesInv, CalibrationCounts, CalibrationEnds, OnTime
  <2> QED BY <1>2, <2>6, <2>8, <2>9, <2>10 DEF SamplesInv
<1> QED BY <1>3, <1>4

(* A word is stored: flags that are up and copied may go, no flag comes.    *)
LEMMA StoreKeeps ==
    ASSUME SamplesInv, Chain' = Chain, Running, mishap \subseteq mishap',
           Uncopied' \subseteq Uncopied,
           "raced" \notin mishap' => Uncopied' = Uncopied,
           UNCHANGED <<taken, adcb, fill, calibrated, cal_end, writes_remaining>>
    PROVE  SamplesInv'
<1>1. NothingLost' /\ InOrder'
  BY DEF SamplesInv, NothingLost, InOrder
<1>2. LastIsFlagged'
  <2>1. OnTime' => OnTime
    BY DEF OnTime
  <2> QED BY <2>1 DEF SamplesInv, LastIsFlagged
<1>3. AllCounted'
  <2>1. mishap' = {} => mishap = {} /\ Uncopied' = Uncopied
    OBVIOUS
  <2> QED BY <2>1 DEF SamplesInv, AllCounted
<1>4. CalibrationCounts' /\ CalibrationEnds'
  <2>1. mishap' \cap {"late", "stale"} = {} => mishap \cap {"late", "stale"} = {}
    OBVIOUS
  <2> QED BY <2>1 DEF SamplesInv, CalibrationCounts, CalibrationEnds
<1> QED BY <1>1, <1>2, <1>3, <1>4 DEF SamplesInv

LEMMA TimerStoreKeeps ==
    ASSUME TypeOK, RegistersAgree, SamplesInv, TimerStore PROVE SamplesInv'
<1>1. /\ Chain' = Chain /\ Running /\ mishap' = mishap \cup Raced(isr_reg[1])
      /\ g_interrupt' = isr_reg[1] /\ UNCHANGED <<pc, main_reg>>
      /\ UNCHANGED <<taken, adcb, fill, calibrated, cal_end, writes_remaining>>
  BY DEF TimerStore, Chain, dmaVars, frameVars
<1>2. isr_reg[1] \cap Channels \subseteq g_interrupt
  BY DEF TimerStore, RegistersAgree
<1>3. Uncopied' \subseteq Uncopied
  BY <1>1, <1>2 DEF Uncopied
<1>4. "raced" \notin mishap' => Uncopied' = Uncopied
  <2>1. "raced" \notin mishap' => g_interrupt \cap Channels \subseteq isr_reg[1]
    BY <1>1 DEF Raced
  <2> QED BY <1>1, <1>3, <2>1 DEF Uncopied
<1> QED BY <1>1, <1>3, <1>4, StoreKeeps

LEMMA ClearStoreKeeps ==
    ASSUME TypeOK, RegistersAgree, SamplesInv, ClearStore PROVE SamplesInv'
<1>1. /\ Chain' = Chain /\ Running /\ pc \in Flags
      /\ mishap' = mishap \cup Raced(main_reg[1] \cup {pc})
      /\ g_interrupt' = main_reg[1] /\ main_reg # <<>> /\ main_reg' = <<>>
      /\ UNCHANGED <<taken, adcb, fill, calibrated, cal_end, writes_remaining>>
  BY DEF ClearStore, Main, Chain, dmaVars, frameVars, Running, Flags, Channels
<1>2. main_reg[1] \cap Channels \subseteq g_interrupt \ {pc}
  BY <1>1 DEF RegistersAgree
<1>3. Uncopied' = main_reg[1] \cap Channels
      /\ Uncopied = (g_interrupt \cap Channels) \ {pc}
  BY <1>1 DEF Uncopied
<1>4. "raced" \notin mishap' => g_interrupt \cap Channels \subseteq main_reg[1] \cup {pc}
  BY <1>1 DEF Raced
<1>5. Uncopied' \subseteq Uncopied /\ ("raced" \notin mishap' => Uncopied' = Uncopied)
  BY <1>2, <1>3, <1>4
<1> QED BY <1>1, <1>5, StoreKeeps

(* A flagged buffer is copied to the ring buffer, or the firmware halts. *)
LEMMA CopyBufferKeeps ==
    ASSUME TypeOK, RegistersAgree, SamplesInv, CopyBuffer PROVE SamplesInv'
<1>1. /\ UNCHANGED <<taken, adcb, fill, g_interrupt, mishap, out>>
      /\ pc \in Channels /\ pc \in g_interrupt /\ main_reg = <<>> /\ Running
      /\ taken \in Nat /\ Len(Chain) \in Nat /\ Chain \in Seq(Contents)
  BY ChainIsSeq, SamplePipelineAssumption
     DEF CopyBuffer, Main, dmaVars, TypeOK, Running, Channels
<1>2. CASE ~(Len(ring) < RING_LEN)
  <2>1. ~Running' /\ Chain' = Chain
    BY <1>1, <1>2 DEF CopyBuffer, Halt, Running, Chain
  <2>2. InOrder'
    BY <1>1, <2>1 DEF SamplesInv, InOrder
  <2> QED BY <2>1, <2>2 DEF SamplesInv, NothingLost, LastIsFlagged,
          AllCounted, CalibrationCounts, CalibrationEnds
<1>3. CASE Len(ring) < RING_LEN
  <2>1. ring' = Append(ring, adcb[pc]) /\ ClearLoad(pc) /\ pc' = pc
    BY <1>3 DEF CopyBuffer
  <2>2. /\ Len(Chain') = Len(Chain) + 1
        /\ \A i \in 1 .. Len(Chain) : Chain'[i] = Chain[i]
        /\ Chain'[Len(Chain) + 1] = adcb[pc]
    <3>1. out \in Seq(Contents) /\ ring \in Seq(Contents) /\ adcb[pc] \in Contents
      BY <1>1 DEF TypeOK
    <3> HIDE DEF Contents
    <3> QED BY <1>1, <2>1, <3>1, AppendToChain DEF Chain
  <2>3. Uncopied' = Uncopied \ {pc} /\ pc \in Uncopied
    <3>1. main_reg' # <<>>
      <4>1. g_interrupt \ {pc} \in SUBSET Flags
        BY DEF TypeOK
      <4> QED BY <2>1, <4>1, WordIsRegister DEF ClearLoad
    <3> QED BY <1>1, <2>1, <3>1 DEF Uncopied
  <2>4. NothingLost'
    <3>1. SUFFICES ASSUME "raced" \notin mishap, NEW n \in 1 .. taken
                   PROVE  \/ \E i \in 1 .. Len(Chain') : n \in Chain'[i]
                          \/ \E c \in Uncopied' : n \in adcb[c]
      BY <1>1 DEF NothingLost
    <3>2. CASE \E i \in 1 .. Len(Chain) : n \in Chain[i]
      BY <1>1, <2>2, <3>2
    <3>3. CASE \E c \in Uncopied : n \in adcb[c]
      BY <1>1, <2>2, <2>3, <3>3
    <3> QED BY <1>1, <3>1, <3>2, <3>3 DEF SamplesInv, NothingLost
  <2>5. ASSUME OnTime
        PROVE  /\ Uncopied' = {} /\ Chain'[Len(Chain) + 1] = {taken}
               /\ taken \in 1 .. taken
               /\ \A i \in 1 .. Len(Chain) :
                     \E m \in 1 .. taken - 1 : Chain'[i] = {m}
    <3>1. \A c \in Uncopied : c = Other(fill) /\ adcb[c] = {taken}
      BY <1>1, <2>5 DEF SamplesInv, LastIsFlagged
    <3>2. \A i \in 1 .. Len(Chain) : \E m \in 1 .. taken - 1 : Chain[i] = {m}
      BY <1>1, <2>3, <2>5 DEF SamplesInv, LastIsFlagged
    <3>3. adcb[pc] \in Contents /\ taken \in adcb[pc]
      BY <1>1, <2>3, <3>1 DEF TypeOK
    <3>4. taken \in 1 .. taken
      BY <1>1, <3>3, SamplePipelineAssumption DEF Contents
    <3> QED BY <2>2, <2>3, <3>1, <3>2, <3>4
  <2>6. InOrder'
    <3>1. SUFFICES ASSUME OnTime, NEW i \in 1 .. Len(Chain'), NEW j \in 1 .. Len(Chain'),
                          i <= j
                   PROVE  \E m, n \in 1 .. taken :
                            Chain'[i] = {m} /\ Chain'[j] = {n} /\ (i < j => m < n)
      BY <1>1 DEF InOrder, OnTime
    <3>2. CASE j \in 1 .. Len(Chain)
      <4>1. i \in 1 .. Len(Chain)
        BY <1>1, <2>2, <3>1, <3>2
      <4>2. \E m, n \in 1 .. taken :
              Chain[i] = {m} /\ Chain[j] = {n} /\ (i < j => m < n)
        BY <3>1, <3>2, <4>1 DEF SamplesInv, InOrder, OnTime
      <4> QED BY <2>2, <3>2, <4>1, <4>2
    <3>3. CASE j = Len(Chain) + 1 /\ i \in 1 .. Len(Chain)
      <4>1. PICK m \in 1 .. taken - 1 : Chain'[i] = {m}
        BY <2>5, <3>1, <3>3
      <4>2. m \in 1 .. taken /\ m < taken
        BY <1>1, <4>1
      <4> QED BY <2>5, <3>1, <3>3, <4>1, <4>2
    <3>4. CASE j = Len(Chain) + 1 /\ i = j
      BY <2>5, <3>1, <3>4
    <3> QED BY <1>1, <2>2, <3>1, <3>2, <3>3, <3>4, SMTT(30)
  <2>7. LastIsFlagged'
    BY <1>1, <2>5 DEF LastIsFlagged, OnTime
  <2>8. AllCounted'
    <3>1. SUFFICES ASSUME mishap = {} PROVE Len(Chain') = taken /\ Uncopied' = {}
      BY <1>1 DEF AllCounted
    <3>2. OnTime
      BY <3>1 DEF OnTime
    <3>3. Len(Chain) = taken - 1
      BY <1>1, <2>3, <3>1 DEF SamplesInv, AllCounted
    <3> QED BY <1>1, <2>2, <2>5, <3>2, <3>3
  <2>9. /\ writes_remaining' = writes_remaining - 1
        /\ calibrated' = (calibrated \/ EndsCalibration(writes_remaining - 1))
        /\ cal_end' = IF EndsCalibration(writes_remaining - 1) THEN taken ELSE cal_end
        /\ writes_remaining \in Int /\ SAMPLES_LEN_PER_CAL_FRAME \in Nat \ {0}
        /\ calibrated \in BOOLEAN
    BY SamplePipelineAssumption DEF CopyBuffer, TypeOK
  <2>10. CalibrationCounts'
    <3>1. SUFFICES ASSUME ~calibrated'
                   PROVE  /\ writes_remaining' = SAMPLES_LEN_PER_CAL_FRAME - Len(Chain')
                          /\ writes_remaining' > 0
      BY DEF CalibrationCounts
    <3>2. ~calibrated /\ writes_remaining - 1 # 0
      BY <2>9, <3>1 DEF EndsCalibration
    <3>3. /\ writes_remaining = SAMPLES_LEN_PER_CAL_FRAME - Len(Chain)
          /\ writes_remaining > 0
      BY <1>1, <3>2 DEF SamplesInv, CalibrationCounts
    <3> QED BY <1>1, <2>2, <2>9, <3>2, <3>3
  <2>11. CalibrationEnds'
    <3>1. SUFFICES ASSUME calibrated', OnTime
                   PROVE  /\ Len(Chain') >= SAMPLES_LEN_PER_CAL_FRAME
                          /\ Chain'[SAMPLES_LEN_PER_CAL_FRAME] = {cal_end'}
      BY <1>1 DEF CalibrationEnds, OnTime
    <3>2. CASE calibrated
      <4>1. /\ Len(Chain) >= SAMPLES_LEN_PER_CAL_FRAME
            /\ Chain[SAMPLES_LEN_PER_CAL_FRAME] = {cal_end}
        BY <1>1, <3>1, <3>2 DEF SamplesInv, CalibrationEnds, OnTime
      <4> QED BY <1>1, <2>2, <2>9, <3>2, <4>1 DEF EndsCalibration
    <3>3. CASE ~calibrated
      <4>1. writes_remaining = 1 /\ cal_end' = taken
        BY <2>9, <3>1, <3>3 DEF EndsCalibration
      <4>2. SAMPLES_LEN_PER_CAL_FRAME = Len(Chain) + 1
        BY <1>1, <2>9, <3>3, <4>1 DEF SamplesInv, CalibrationCounts
      <4> QED BY <1>1, <2>2, <2>5, <3>1, <4>1, <4>2
    <3> QED BY <3>2, <3>3
  <2> QED BY <2>4, <2>6, <2>7, <2>8, <2>10, <2>11 DEF SamplesInv
<1> QED BY <1>2, <1>3

(* samples_start and the reset begin with nothing. *)
LEMMA NothingYet ==
    ASSUME Chain = <<>>, taken = 0, ~calibrated,
           writes_remaining = SAMPLES_LEN_PER_CAL_FRAME,
           Uncopied # {} => "stale" \in mishap
    PROVE  SamplesInv
<1>1. Len(Chain) = 0 /\ SAMPLES_LEN_PER_CAL_FRAME \in Nat \ {0}
  BY SamplePipelineAssumption
<1> QED BY <1>1 DEF SamplesInv, NothingLost, InOrder, LastIsFlagged, OnTime,
        AllCounted, CalibrationCounts, CalibrationEnds

LEMMA BeginsAgain ==
    ASSUME Chain' = <<>>, taken' = 0, ~calibrated',
           writes_remaining' = SAMPLES_LEN_PER_CAL_FRAME,
           Uncopied' # {} => "stale" \in mishap'
    PROVE  SamplesInv'
<1>1. Len(<<>>) = 0 /\ SAMPLES_LEN_PER_CAL_FRAME \in Nat \ {0}
  BY SamplePipelineAssumption
<1> QED BY <1>1 DEF SamplesInv, NothingLost, InOrder, LastIsFlagged, OnTime,
        AllCounted, CalibrationCounts, CalibrationEnds

LEMMA SamplesStartKeeps ==
    ASSUME NEW m \in {"store", "stream"}, SamplesStart(m) PROVE SamplesInv'
<1>1. /\ Chain' = <<>> /\ taken' = 0 /\ ~calibrated'
      /\ writes_remaining' = SAMPLES_LEN_PER_CAL_FRAME
  BY DEF SamplesStart, SamplesInit, Chain
<1>2. pc \notin Channels /\ pc' \notin Channels /\ g_interrupt' = g_interrupt
  BY DEF SamplesStart, InHandler, Main, Return, Halt, Channels
<1>3. Uncopied' = Uncopied
  BY <1>2 DEF Uncopied
<1>4. Uncopied' # {} => "stale" \in mishap'
  BY <1>3 DEF SamplesStart
<1> QED BY <1>1, <1>4, BeginsAgain

LEMMA ResetKeeps == ASSUME Reset PROVE SamplesInv'
<1>1. /\ Chain' = <<>> /\ taken' = 0 /\ ~calibrated'
      /\ writes_remaining' = SAMPLES_LEN_PER_CAL_FRAME
  BY DEF Reset, Chain
<1>2. Uncopied' = {}
  BY DEF Reset, Uncopied
<1> QED BY <1>1, <1>2, BeginsAgain

LEMMA SamplesStep ==
    ASSUME TypeOK, FrameInv, RegistersAgree, SamplesInv, Next PROVE SamplesInv'
<1>1. CASE \/ TimerLoad \/ UartDone \/ Wake \/ NotSet \/ Tick \/ Write
           \/ Receive \/ SamplesStop \/ Drain \/ Close
  <2>1. CalibrationCounts
    BY DEF SamplesInv
  <2>2. Quiet
    BY <1>1, <2>1, QuietSteps
  <2> QED BY <2>2, QuietKeeps
<1>2. CASE DmaBurst
  BY <1>2, DmaBurstKeeps
<1>3. CASE DmaDone
  BY <1>3, DmaDoneKeeps
<1>4. CASE TimerStore
  BY <1>4, TimerStoreKeeps
<1>5. CASE ClearStore
  BY <1>5, ClearStoreKeeps
<1>6. CASE CopyBuffer
  BY <1>6, CopyBufferKeeps
<1>7. CASE \E m \in {"store", "stream"} : SamplesStart(m)
  BY <1>7, SamplesStartKeeps
<1>8. CASE Reset
  BY <1>8, ResetKeeps
<1> QED BY <1>1, <1>2, <1>3, <1>4, <1>5, <1>6, <1>7, <1>8 DEF Next, MainStep

-----------------------------------------------------------------------------
(* The inductive invariant, and the properties of the run *)

LEMMA InvParts == IInv <=> TypeOK /\ RegistersAgree /\ FrameInv /\ SamplesInv
BY DEF IInv, FrameInv, SamplesInv

LEMMA InitInv == ASSUME Init PROVE IInv
<1>1. TypeOK
  BY InitType
<1>2. RegistersAgree
  BY DEF Init, RegistersAgree
<1>3. FrameInv
  BY FirstFrameInv DEF Init
<1>4. SamplesInv
  <2>1. /\ Chain = <<>> /\ taken = 0 /\ ~calibrated /\ Uncopied = {}
        /\ writes_remaining = SAMPLES_LEN_PER_CAL_FRAME
    BY DEF Init, Chain, Uncopied
  <2> QED BY <2>1, NothingYet
<1> QED BY <1>1, <1>2, <1>3, <1>4, InvParts

LEMMA StutterKeeps == ASSUME IInv, UNCHANGED vars PROVE IInv'
<1>1. /\ UNCHANGED <<sampling, fill, adcb, taken, g_interrupt, main_reg, isr_reg>>
      /\ UNCHANGED <<pc, caller, mode, ring, frame, writes_remaining>>
      /\ UNCHANGED <<calibrated, cal_end, out, fs_busy, tx_busy, starts, mishap>>
  BY DEF vars, dmaVars, flagVars, frameVars, ioVars
<1>2. TypeOK' /\ RegistersAgree' /\ FrameStates' /\ FramePosition'
  <2>1. TypeOK'
    BY <1>1 DEF IInv, TypeOK
  <2>2. RegistersAgree'
    BY <1>1 DEF IInv, RegistersAgree, Running
  <2>3. FrameStates' /\ FramePosition'
    BY <1>1 DEF IInv, FrameStates, FramePosition
  <2> QED BY <2>1, <2>2, <2>3
<1>3. Chain' = Chain /\ Uncopied' = Uncopied
  BY <1>1 DEF Chain, Uncopied
<1>4. NothingLost' /\ InOrder' /\ LastIsFlagged' /\ AllCounted'
  BY <1>1, <1>3 DEF IInv, NothingLost, InOrder, LastIsFlagged, OnTime, AllCounted,
     Running
<1>5. CalibrationCounts' /\ CalibrationEnds'
  BY <1>1, <1>3 DEF IInv, CalibrationCounts, CalibrationEnds, Running
<1> QED BY <1>2, <1>4, <1>5 DEF IInv

(* Every reachable state satisfies the inductive invariant: the word main   *)
(* or the timer has loaded agrees with the flags, the flagged buffer is the *)
(* last one taken, and the counts of the frames agree with the chain.       *)
THEOREM Invariant == Spec => []IInv
<1>1. Init => IInv
  BY InitInv
<1>2. IInv /\ [Next]_vars => IInv'
  <2> SUFFICES ASSUME IInv, [Next]_vars PROVE IInv'
    OBVIOUS
  <2>1. CASE Next
    <3>1. TypeOK /\ RegistersAgree /\ FrameInv /\ SamplesInv
      BY InvParts
    <3>2. TypeOK' /\ RegistersAgree' /\ FrameInv' /\ SamplesInv'
      BY <2>1, <3>1, TypeStep, RegistersStep, FrameStep, SamplesStep
    <3> QED BY <3>2 DEF IInv, FrameInv, SamplesInv
  <2>2. CASE UNCHANGED vars
    BY <2>2, StutterKeeps
  <2> QED BY <2>1, <2>2
<1> QED BY <1>1, <1>2, PTL DEF Spec

(* Whatever the order of interrupts, buffers enter the FIFO whole and in    *)
(* the order the DMA took them, as long as main keeps up with it (main.c    *)
(* 63-81).                                                                  *)
THEOREM BuffersInOrder == Spec => []InOrder
<1>1. IInv => InOrder
  BY DEF IInv
<1> QED BY <1>1, Invariant, PTL

(* A buffer that was taken is on the FIFO or still flagged, unless a store  *)
(* to g_interrupt undid a flag (dma.c 23-52, interrupt.h 20-43).            *)
THEOREM NoBufferLost == Spec => []NothingLost
<1>1. IInv => NothingLost
  BY DEF IInv
<1> QED BY <1>1, Invariant, PTL

(* The inputs leave ground right after the buffer that completes the first  *)
(* frame (samples.c 160-167).                                               *)
THEOREM CalibrationIsFirstFrame == Spec => []CalibrationEnds
<1>1. IInv => CalibrationEnds
  BY DEF IInv
<1> QED BY <1>1, Invariant, PTL

(* Frames of any two lengths cut the samples where the download cuts them   *)
(* (samples.c 192-276, 397-420).                                            *)
THEOREM FramesInPlace == Spec => []FramePosition
<1>1. IInv => FramePosition
  BY DEF IInv
<1> QED BY <1>1, Invariant, PTL

LEMMA ClosingStep ==
    ASSUME IInv, [Next]_vars, pc = "drain", pc' \notin {"drain", "halted"}
    PROVE  Close
<1>1. \/ DmaBurst \/ DmaDone \/ TimerLoad \/ TimerStore \/ UartDone \/ MainStep
      \/ (\E m \in {"store", "stream"} : SamplesStart(m)) \/ SamplesStop \/ Reset
  BY DEF Next, vars
<1>2. ~(DmaBurst \/ DmaDone \/ TimerLoad \/ TimerStore \/ UartDone)
  BY DEF DmaBurst, DmaDone, TimerLoad, TimerStore, UartDone, Halt
<1>3. ~(Wake \/ NotSet \/ ClearStore \/ Tick \/ CopyBuffer \/ Write \/ Receive)
  BY DEF Wake, NotSet, ClearStore, Tick, CopyBuffer, Write, Receive, Main, Flags,
     Channels
<1>4. ~((\E m \in {"store", "stream"} : SamplesStart(m)) \/ SamplesStop \/ Reset)
  BY DEF SamplesStart, SamplesStop, Reset, InHandler, Main
<1>5. ~Drain
  BY DEF Drain, StoreFails, Halt
<1> QED BY <1>1, <1>2, <1>3, <1>4, <1>5 DEF MainStep

(* When samples_stop has drained the ring buffer and closes the file, the   *)
(* file has every buffer that was copied; without a mishap all that were    *)
(* taken but, at most, the one whose flag was up (samples.c 122-136).       *)
THEOREM ClosedFileIsWhole == Spec => CloseKeepsAllButOne
<1>1. ASSUME IInv, [Next]_vars, pc = "drain", pc' \notin {"drain", "halted"}
      PROVE  ring = <<>> /\ ~fs_busy /\ (mishap = {} => taken - Len(out) \in {0, 1})
  <2>1. ring = <<>> /\ ~fs_busy
    BY <1>1, ClosingStep DEF Close, Drained, StoreNothing
  <2>2. Len(Chain) = Len(out) /\ Len(out) \in Nat /\ taken \in Nat
    <3>1. TypeOK /\ Len(ring) = 0
      BY <1>1, <2>1 DEF IInv
    <3> QED BY <3>1, ChainIsSeq, SamplePipelineAssumption DEF TypeOK
  <2>3. mishap = {} => Len(Chain) = taken \/ Len(Chain) = taken - 1
    BY <1>1 DEF IInv, AllCounted, Running
  <2> QED BY <2>1, <2>2, <2>3
<1>2. IInv /\ [Next]_vars =>
        [(pc = "drain" /\ pc' \notin {"drain", "halted"}) =>
          /\ ring = <<>> /\ ~fs_busy
          /\ mishap = {} => taken - Len(out) \in {0, 1}]_vars
  BY <1>1
<1> QED BY <1>2, Invariant, PTL DEF Spec, CloseKeepsAllButOne

=============================================================================
