--------------------------- MODULE UartLinkProofs ---------------------------
(***************************************************************************)
(* Proofs about the firmware's end of the serial link: what its parser     *)
(* makes of a whole frame, whatever is in front of it and behind, that a   *)
(* frame is lost only behind one that came short, and that nothing but     *)
(* what the host sent is run when its UART gets no byte wrong.             *)
(***************************************************************************)
EXTENDS UartLink, WellFoundedInduction, SequenceTheorems, TLAPS

LEMMA Least ==
    ASSUME NEW T, T \subseteq Nat, T # {}
    PROVE  \E x \in T : \A y \in T : ~(y < x)
<1> DEFINE R == OpToRel(<, Nat)
<1>1. IsWellFoundedOn(R, Nat)
    BY NatLessThanWellFounded
<1>2. \E x \in T : \A y \in T : <<y, x>> \notin R
    <2> HIDE DEF R
    <2> QED BY <1>1, WFMin
<1>3. PICK x \in T : \A y \in T : <<y, x>> \notin R
    BY <1>2
<1>4. \A y \in T : ~(y < x)
    BY <1>3 DEF OpToRel
<1> QED BY <1>4

-----------------------------------------------------------------------------
(* The parsers, byte by byte *)

FwStart == [p |-> FwFresh, used |-> 0, keep |-> 0]

(* the firmware's parser at its next byte *)
FwNext(r, b, b_len) == IF r.p.end_found THEN r ELSE FwByte(r, b, b_len)

FwUpTo(f, n, bytes, b_len) ==
    f = [i \in 0 .. n |-> IF i = 0 THEN FwStart
                          ELSE FwNext(f[i - 1], bytes[i], b_len)]

(* The parser's states exist for as many bytes as there are. *)
LEMMA FwStatesExist ==
    ASSUME NEW bytes, NEW b_len, NEW m \in Nat
    PROVE  \E f : FwUpTo(f, m, bytes, b_len)
<1> DEFINE Bad == {n \in Nat : ~ \E f : FwUpTo(f, n, bytes, b_len)}
<1>1. SUFFICES ASSUME Bad # {} PROVE FALSE
    OBVIOUS
<1>2. PICK x \in Bad : \A y \in Bad : ~(y < x)
    <2> HIDE DEF Bad
    <2>1. Bad \subseteq Nat BY DEF Bad
    <2> QED BY <2>1, <1>1, Least
<1>3. x # 0
    <2>1. FwUpTo([i \in 0 .. 0 |-> FwStart], 0, bytes, b_len)
        BY DEF FwUpTo
    <2> QED BY <2>1
<1>4. x - 1 \in Nat /\ x - 1 \notin Bad
    BY <1>2, <1>3
<1>5. PICK f : FwUpTo(f, x - 1, bytes, b_len)
    BY <1>4
<1> DEFINE g == [i \in 0 .. x |-> IF i = x THEN FwNext(f[x - 1], bytes[x], b_len)
                                  ELSE f[i]]
<1>6. FwUpTo(g, x, bytes, b_len)
    <2>1. DOMAIN g = 0 .. x
        OBVIOUS
    <2>2. \A i \in 0 .. x : g[i] = IF i = 0 THEN FwStart
                                   ELSE FwNext(g[i - 1], bytes[i], b_len)
        <3> TAKE i \in 0 .. x
        <3>1. CASE i = x
            BY <3>1, <1>2, <1>3
        <3>2. CASE i # x
            <4>1. i \in 0 .. x - 1 /\ (i # 0 => i - 1 \in 0 .. x - 1)
                BY <3>2, <1>2
            <4>2. f[i] = IF i = 0 THEN FwStart
                         ELSE FwNext(f[i - 1], bytes[i], b_len)
                BY <1>5, <4>1 DEF FwUpTo
            <4> QED BY <4>1, <4>2, <3>2
        <3> QED BY <3>1, <3>2
    <2> HIDE DEF g
    <2>3. g = [i \in 0 .. x |-> g[i]]
        BY DEF g
    <2> QED BY <2>1, <2>2, <2>3 DEF FwUpTo
<1> QED BY <1>6

(* The firmware's parser takes one byte after the other. *)
LEMMA FwSteps ==
    ASSUME NEW bytes, Len(bytes) \in Nat, NEW b_len
    PROVE  /\ FwAfter(bytes, b_len)[0] = FwStart
           /\ \A i \in 1 .. Len(bytes) :
                FwAfter(bytes, b_len)[i]
                  = FwNext(FwAfter(bytes, b_len)[i - 1], bytes[i], b_len)
<1>1. PICK g : FwUpTo(g, Len(bytes), bytes, b_len)
    BY FwStatesExist
<1>2. FwUpTo(FwAfter(bytes, b_len), Len(bytes), bytes, b_len)
    BY <1>1 DEF FwUpTo, FwAfter, FwNext, FwStart
<1> HIDE DEF FwAfter
<1> QED BY <1>2 DEF FwUpTo

HostStart(h0) == [h |-> h0, used |-> 0]

(* the host's parser at the i-th byte *)
HostNext(r, b, i) ==
    IF HostDone(r.h) THEN r ELSE [h |-> HostByte(r.h, b), used |-> i]

HostUpTo(f, n, h0, bytes) ==
    f = [i \in 0 .. n |-> IF i = 0 THEN HostStart(h0)
                          ELSE HostNext(f[i - 1], bytes[i], i)]

LEMMA HostStatesExist ==
    ASSUME NEW h0, NEW bytes, NEW m \in Nat
    PROVE  \E f : HostUpTo(f, m, h0, bytes)
<1> DEFINE Bad == {n \in Nat : ~ \E f : HostUpTo(f, n, h0, bytes)}
<1>1. SUFFICES ASSUME Bad # {} PROVE FALSE
    OBVIOUS
<1>2. PICK x \in Bad : \A y \in Bad : ~(y < x)
    <2> HIDE DEF Bad
    <2>1. Bad \subseteq Nat BY DEF Bad
    <2> QED BY <2>1, <1>1, Least
<1>3. x # 0
    <2>1. HostUpTo([i \in 0 .. 0 |-> HostStart(h0)], 0, h0, bytes)
        BY DEF HostUpTo
    <2> QED BY <2>1
<1>4. x - 1 \in Nat /\ x - 1 \notin Bad
    BY <1>2, <1>3
<1>5. PICK f : HostUpTo(f, x - 1, h0, bytes)
    BY <1>4
<1> DEFINE g == [i \in 0 .. x |-> IF i = x THEN HostNext(f[x - 1], bytes[x], x)
                                  ELSE f[i]]
<1>6. HostUpTo(g, x, h0, bytes)
    <2>1. DOMAIN g = 0 .. x
        OBVIOUS
    <2>2. \A i \in 0 .. x : g[i] = IF i = 0 THEN HostStart(h0)
                                   ELSE HostNext(g[i - 1], bytes[i], i)
        <3> TAKE i \in 0 .. x
        <3>1. CASE i = x
            BY <3>1, <1>2, <1>3
        <3>2. CASE i # x
            <4>1. i \in 0 .. x - 1 /\ (i # 0 => i - 1 \in 0 .. x - 1)
                BY <3>2, <1>2
            <4>2. f[i] = IF i = 0 THEN HostStart(h0)
                         ELSE HostNext(f[i - 1], bytes[i], i)
                BY <1>5, <4>1 DEF HostUpTo
            <4> QED BY <4>1, <4>2, <3>2
        <3> QED BY <3>1, <3>2
    <2> HIDE DEF g
    <2>3. g = [i \in 0 .. x |-> g[i]]
        BY DEF g
    <2> QED BY <2>1, <2>2, <2>3 DEF HostUpTo
<1> QED BY <1>6

(* The host's parser takes one byte after the other. *)
LEMMA HostSteps ==
    ASSUME NEW h0, NEW bytes, Len(bytes) \in Nat
    PROVE  /\ HostAfter(h0, bytes)[0] = HostStart(h0)
           /\ \A i \in 1 .. Len(bytes) :
                HostAfter(h0, bytes)[i]
                  = HostNext(HostAfter(h0, bytes)[i - 1], bytes[i], i)
<1>1. PICK g : HostUpTo(g, Len(bytes), h0, bytes)
    BY HostStatesExist
<1>2. HostUpTo(HostAfter(h0, bytes), Len(bytes), h0, bytes)
    BY <1>1 DEF HostUpTo, HostAfter, HostNext, HostStart
<1> HIDE DEF HostAfter
<1> QED BY <1>2 DEF HostUpTo

-----------------------------------------------------------------------------
(* Sequences of pieces *)

Flat(f, fs, n) ==
    f = [i \in 1 .. n |-> IF i = 1 THEN fs[i] ELSE f[i - 1] \o fs[i]]

LEMMA FlatExists ==
    ASSUME NEW fs, NEW m \in Nat
    PROVE  \E f : Flat(f, fs, m)
<1> DEFINE Bad == {n \in Nat : ~ \E f : Flat(f, fs, n)}
<1>1. SUFFICES ASSUME Bad # {} PROVE FALSE
    OBVIOUS
<1>2. PICK x \in Bad : \A y \in Bad : ~(y < x)
    <2> HIDE DEF Bad
    <2>1. Bad \subseteq Nat BY DEF Bad
    <2> QED BY <2>1, <1>1, Least
<1>3. x # 0
    <2>1. Flat([i \in 1 .. 0 |-> fs[i]], fs, 0)
        BY DEF Flat
    <2> QED BY <2>1
<1>4. x - 1 \in Nat /\ x - 1 \notin Bad
    BY <1>2, <1>3
<1>5. PICK f : Flat(f, fs, x - 1)
    BY <1>4
<1> DEFINE g == [i \in 1 .. x |-> IF i # x THEN f[i]
                                  ELSE IF i = 1 THEN fs[i] ELSE f[i - 1] \o fs[i]]
<1>6. Flat(g, fs, x)
    <2>1. DOMAIN g = 1 .. x
        OBVIOUS
    <2>2. \A i \in 1 .. x : g[i] = IF i = 1 THEN fs[i] ELSE g[i - 1] \o fs[i]
        <3> TAKE i \in 1 .. x
        <3>1. CASE i = x
            BY <3>1, <1>2, <1>3
        <3>2. CASE i # x
            <4>1. i \in 1 .. x - 1 /\ (i # 1 => i - 1 \in 1 .. x - 1)
                BY <3>2, <1>2
            <4>2. f[i] = IF i = 1 THEN fs[i] ELSE f[i - 1] \o fs[i]
                BY <1>5, <4>1 DEF Flat
            <4> QED BY <4>1, <4>2, <3>2
        <3> QED BY <3>1, <3>2
    <2> HIDE DEF g
    <2>3. g = [i \in 1 .. x |-> g[i]]
        BY DEF g
    <2> QED BY <2>1, <2>2, <2>3 DEF Flat
<1> QED BY <1>6

LEMMA FlatValues ==
    ASSUME NEW fs, NEW m \in Nat, NEW f, Flat(f, fs, m)
    PROVE  /\ DOMAIN f = 1 .. m
           /\ \A i \in 1 .. m : i = 1 => f[i] = fs[i]
           /\ \A i \in 1 .. m : i # 1 => f[i] = f[i - 1] \o fs[i]
    BY DEF Flat

LEMMA FlatIsOne ==
    ASSUME NEW fs, NEW m \in Nat, NEW f, NEW g, Flat(f, fs, m), Flat(g, fs, m)
    PROVE  f = g
<1> DEFINE Bad == {n \in 1 .. m : f[n] # g[n]}
<1>f. /\ \A i \in 1 .. m : i = 1 => f[i] = fs[i]
      /\ \A i \in 1 .. m : i # 1 => f[i] = f[i - 1] \o fs[i]
    BY FlatValues
<1>g. /\ \A i \in 1 .. m : i = 1 => g[i] = fs[i]
      /\ \A i \in 1 .. m : i # 1 => g[i] = g[i - 1] \o fs[i]
    BY FlatValues
<1>1. Bad = {}
    <2> SUFFICES ASSUME Bad # {} PROVE FALSE
        OBVIOUS
    <2>1. PICK x \in Bad : \A y \in Bad : ~(y < x)
        <3> HIDE DEF Bad
        <3>1. Bad \subseteq Nat BY DEF Bad
        <3> QED BY <3>1, Least
    <2>2. x # 1
        BY <2>1, <1>f, <1>g
    <2>3. x - 1 \in 1 .. m /\ x - 1 \notin Bad
        BY <2>1, <2>2
    <2>4. f[x] = f[x - 1] \o fs[x] /\ g[x] = g[x - 1] \o fs[x]
        BY <2>1, <2>2, <1>f, <1>g
    <2> QED BY <2>1, <2>3, <2>4
<1>2. \A n \in 1 .. m : f[n] = g[n]
    BY <1>1
<1> QED BY <1>2 DEF Flat

LEMMA FlattenIs ==
    ASSUME NEW fs, Len(fs) \in Nat, Len(fs) # 0, NEW f, Flat(f, fs, Len(fs))
    PROVE  FlattenSeq(fs) = f[Len(fs)]
<1>1. \A g : Flat(g, fs, Len(fs)) => g = f
    BY FlatIsOne
<1> QED BY <1>1 DEF FlattenSeq, Flat

(* Pieces one behind the other are a sequence. *)
LEMMA FlattenType ==
    ASSUME NEW S, NEW fs, fs \in Seq(Seq(S))
    PROVE  /\ FlattenSeq(fs) \in Seq(S)
           /\ fs = <<>> => FlattenSeq(fs) = <<>>
<1>0. Len(fs) \in Nat /\ \A i \in 1 .. Len(fs) : fs[i] \in Seq(S)
    OBVIOUS
<1>1. CASE Len(fs) = 0
    <2>1. fs = <<>>
        BY <1>1
    <2> QED BY <1>1, <2>1 DEF FlattenSeq
<1>2. CASE Len(fs) # 0
    <2>1. PICK f : Flat(f, fs, Len(fs))
        BY <1>0, FlatExists
    <2>f. /\ \A i \in 1 .. Len(fs) : i = 1 => f[i] = fs[i]
          /\ \A i \in 1 .. Len(fs) : i # 1 => f[i] = f[i - 1] \o fs[i]
        BY <1>0, <2>1, FlatValues
    <2> DEFINE Bad == {n \in 1 .. Len(fs) : f[n] \notin Seq(S)}
    <2>2. Bad = {}
        <3> SUFFICES ASSUME Bad # {} PROVE FALSE
            OBVIOUS
        <3>1. PICK x \in Bad : \A y \in Bad : ~(y < x)
            <4> HIDE DEF Bad
            <4>1. Bad \subseteq Nat BY DEF Bad
            <4> QED BY <4>1, Least
        <3>2. x # 1
            BY <1>0, <2>f, <3>1
        <3>3. x - 1 \in 1 .. Len(fs) /\ x - 1 \notin Bad
            BY <1>0, <3>1, <3>2
        <3>4. f[x] = f[x - 1] \o fs[x]
            BY <1>0, <2>f, <3>1, <3>2
        <3>5. f[x - 1] \in Seq(S) /\ fs[x] \in Seq(S)
            BY <1>0, <3>1, <3>3
        <3>6. f[x - 1] \o fs[x] \in Seq(S)
            BY <3>5, ConcatProperties
        <3> QED BY <3>1, <3>4, <3>6
    <2>3. Len(fs) \in 1 .. Len(fs)
        BY <1>0, <1>2
    <2>4. f[Len(fs)] \in Seq(S)
        BY <2>2, <2>3
    <2>5. FlattenSeq(fs) = f[Len(fs)]
        BY <1>0, <1>2, <2>1, FlattenIs
    <2> QED BY <2>4, <2>5, <1>2
<1> QED BY <1>1, <1>2

LEMMA FlattenMore ==
    ASSUME NEW fs, NEW gs, NEW n \in Nat, n = Len(fs), n # 0, n + 1 = Len(gs),
           \A i \in 1 .. n : gs[i] = fs[i]
    PROVE  FlattenSeq(gs) = FlattenSeq(fs) \o gs[n + 1]
<1>0. PICK m \in Nat : m = n + 1 /\ m # 0
    OBVIOUS
<1>1. PICK g : Flat(g, gs, m)
    BY FlatExists
<1>2. FlattenSeq(gs) = g[n + 1]
    BY <1>0, <1>1, FlattenIs
<1>f. \A i \in 1 .. m : i = 1 => g[i] = gs[i]
    BY <1>1 DEF Flat
<1>g. \A i \in 1 .. m : i # 1 => g[i] = g[i - 1] \o gs[i]
    BY <1>1 DEF Flat
<1> DEFINE k == [i \in 1 .. n |-> g[i]]
<1>3. Flat(k, fs, n)
    <2>1. \A i \in 1 .. n : k[i] = IF i = 1 THEN fs[i] ELSE k[i - 1] \o fs[i]
        <3> TAKE i \in 1 .. n
        <3>1. CASE i = 1
            BY <3>1, <1>0, <1>f
        <3>2. CASE i # 1
            <4>1. i - 1 \in 1 .. n /\ i \in 1 .. m
                BY <3>2, <1>0
            <4>2. g[i] = g[i - 1] \o gs[i]
                BY <4>1, <3>2, <1>g
            <4> QED BY <4>1, <4>2, <3>2
        <3> QED BY <3>1, <3>2
    <2>2. DOMAIN k = 1 .. n /\ k = [i \in 1 .. n |-> k[i]]
        OBVIOUS
    <2> HIDE DEF k
    <2> QED BY <2>1, <2>2 DEF Flat
<1>4. k[n] = g[n]
    OBVIOUS
<1> HIDE DEF k
<1>5. FlattenSeq(fs) = g[n]
    BY <1>3, <1>4, FlattenIs
<1>6. g[n + 1] = g[n] \o gs[n + 1]
    <2>1. m \in 1 .. m /\ m # 1 /\ m - 1 = n
        BY <1>0
    <2> QED BY <1>0, <1>g, <2>1
<1> QED BY <1>2, <1>5, <1>6

(* A piece more *)
LEMMA FlattenAppend ==
    ASSUME NEW S, NEW fs, fs \in Seq(Seq(S)), NEW f, f \in Seq(S)
    PROVE  FlattenSeq(Append(fs, f)) = FlattenSeq(fs) \o f
<1>1. PICK gs : gs = Append(fs, f)
    OBVIOUS
<1>2. /\ Len(fs) \in Nat /\ Len(gs) = Len(fs) + 1
      /\ gs[Len(fs) + 1] = f /\ \A i \in 1 .. Len(fs) : gs[i] = fs[i]
    BY <1>1
<1>3. CASE Len(fs) = 0
    <2>1. fs = <<>>
        BY <1>3
    <2>2. FlattenSeq(fs) = <<>>
        BY <2>1, FlattenType
    <2>3. FlattenSeq(gs) = gs[1]
        <3>1. PICK m \in Nat : m = 1 /\ m = Len(gs)
            BY <1>2, <1>3
        <3>2. PICK g : Flat(g, gs, m)
            BY FlatExists
        <3>3. FlattenSeq(gs) = g[m]
            <4>1. m # 0
                BY <3>1
            <4>0. Len(gs) \in Nat /\ Len(gs) # 0
                BY <4>1, <3>1, Zenon
            <4>2. Flat(g, gs, Len(gs))
                BY <3>1, <3>2 DEF Flat
            <4> QED BY <4>0, <4>2, <3>1, FlattenIs
        <3>4. \A i \in 1 .. m : i = 1 => g[i] = gs[i]
            BY <3>2, FlatValues
        <3>5. 1 \in 1 .. m
            BY <3>1
        <3> QED BY <3>1, <3>3, <3>4, <3>5
    <2> QED BY <1>1, <1>2, <1>3, <2>2, <2>3
<1>4. CASE Len(fs) # 0
    BY <1>1, <1>2, <1>4, FlattenMore
<1> QED BY <1>3, <1>4

-----------------------------------------------------------------------------
(* Frames *)

LEMMA FromTo ==
    ASSUME NEW a \in Nat, NEW b \in Nat, NEW T,
           a \in T, \A n \in a .. b : n < b /\ n \in T => n + 1 \in T
    PROVE  \A n \in a .. b : n \in T
<1> DEFINE Bad == {n \in a .. b : n \notin T}
<1>1. SUFFICES ASSUME Bad # {} PROVE FALSE
    OBVIOUS
<1>2. PICK x \in Bad : \A y \in Bad : ~(y < x)
    <2> HIDE DEF Bad
    <2>1. Bad \subseteq Nat BY DEF Bad
    <2> QED BY <2>1, <1>1, Least
<1>3. x # a
    BY <1>2
<1>4. x - 1 \in a .. b /\ x - 1 < b /\ x - 1 \notin Bad
    BY <1>2, <1>3
<1> QED BY <1>2, <1>4

(* Where the two bytes of a message are in its frame *)
D1(m) == IF m[1] <= ESC THEN 4 ELSE 3
D2(m) == IF m[2] <= ESC THEN D1(m) + 2 ELSE D1(m) + 1

FrameLen(m) == D2(m) + 1

(* byte j of a frame of type t *)
FrameByte(t, m, j) ==
    CASE j = 1 -> START
      [] j = 2 -> t
      [] j = D1(m) -> m[1]
      [] j = D2(m) -> m[2]
      [] j = FrameLen(m) -> END
      [] OTHER -> ESC

(* The byte j escapes the next. *)
Marker(m, j) == j > 2 /\ j < D2(m) /\ j # D1(m)

LEMMA Layout ==
    ASSUME NEW m \in Messages
    PROVE  /\ m[1] \in Nat /\ m[2] \in Nat
           /\ D1(m) \in 3 .. 4 /\ D2(m) \in D1(m) + 1 .. D1(m) + 2
           /\ FrameLen(m) \in 5 .. 7
           /\ m[1] <= ESC <=> D1(m) = 4
           /\ m[2] <= ESC <=> D2(m) = D1(m) + 2
    BY DEF D1, D2, FrameLen, Messages, MSG_LEN

LEMMA EscapeIs ==
    ASSUME NEW m \in Messages
    PROVE  Escape(m) = Escaped(m[1]) \o Escaped(m[2])
<1>1. m[1] \in Nat /\ m[2] \in Nat /\ DOMAIN m = 1 .. 2
    BY DEF Messages, MSG_LEN
<1>2. Escaped(m[1]) \in Seq(Nat) /\ Escaped(m[2]) \in Seq(Nat)
    BY <1>1 DEF Escaped, ESC
<1>3. PICK a, b : a = Escaped(m[1]) /\ b = Escaped(m[2])
    OBVIOUS
<1>4. a \in Seq(Nat) /\ b \in Seq(Nat)
    BY <1>2, <1>3
<1>5. [i \in DOMAIN m |-> Escaped(m[i])] = <<a, b>>
    BY <1>1, <1>3
<1> DEFINE S == Seq(Nat)
<1>6. /\ <<>> \in Seq(S) /\ <<a>> \in Seq(S)
      /\ <<a>> = Append(<<>>, a) /\ <<a, b>> = Append(<<a>>, b)
    <2>1. a \in S /\ b \in S
        BY <1>4
    <2> HIDE DEF S
    <2> QED BY <2>1
<1>7. FlattenSeq(<<>>) = <<>>
    BY <1>6, FlattenType, Zenon
<1>8. FlattenSeq(<<a>>) = a
    <2>1. FlattenSeq(<<a>>) = FlattenSeq(<<>>) \o a
        BY <1>4, <1>6, FlattenAppend, Zenon
    <2>2. <<>> \o a = a
        BY <1>4
    <2> QED BY <2>1, <2>2, <1>7, Zenon
<1>9. FlattenSeq(<<a, b>>) = a \o b
    BY <1>4, <1>6, <1>8, FlattenAppend, ZenonT(60)
<1> QED BY <1>3, <1>5, <1>9 DEF Escape

(* A frame, byte by byte *)
LEMMA FrameBytes ==
    ASSUME NEW t \in Nat, NEW m \in Messages
    PROVE  /\ Frame(t, m) \in Seq(Nat)
           /\ Len(Frame(t, m)) = FrameLen(m)
           /\ DOMAIN Frame(t, m) = 1 .. FrameLen(m)
           /\ \A j \in 1 .. FrameLen(m) : Frame(t, m)[j] = FrameByte(t, m, j)
<1>1. PICK a \in Nat, b \in Nat : a = m[1] /\ b = m[2]
    BY DEF Messages, MSG_LEN
<1>2. Frame(t, m) = <<START, t>> \o (Escaped(a) \o Escaped(b)) \o <<END>>
    BY <1>1, EscapeIs DEF Frame
<1> DEFINE f == Frame(t, m)
<1>3. CASE a <= ESC /\ b <= ESC
    <2>1. Escaped(a) = <<ESC, a>> /\ Escaped(b) = <<ESC, b>>
        BY <1>3 DEF Escaped
    <2>2. /\ Len(f) = 7
          /\ f[1] = START /\ f[2] = t /\ f[3] = ESC /\ f[4] = a /\ f[5] = ESC
          /\ f[6] = b /\ f[7] = END
          /\ f \in Seq(Nat)
        BY <1>2, <2>1 DEF ESC, START, END
    <2> HIDE DEF f
    <2> QED BY <2>2, <1>1, <1>3 DEF FrameByte, FrameLen, D1, D2, ESC, START, END, f
<1>4. CASE a <= ESC /\ ~(b <= ESC)
    <2>1. Escaped(a) = <<ESC, a>> /\ Escaped(b) = <<b>>
        BY <1>4 DEF Escaped
    <2>2. /\ Len(f) = 6
          /\ f[1] = START /\ f[2] = t /\ f[3] = ESC /\ f[4] = a /\ f[5] = b
          /\ f[6] = END
          /\ f \in Seq(Nat)
        BY <1>2, <2>1 DEF ESC, START, END
    <2> HIDE DEF f
    <2> QED BY <2>2, <1>1, <1>4 DEF FrameByte, FrameLen, D1, D2, ESC, START, END, f
<1>5. CASE ~(a <= ESC) /\ b <= ESC
    <2>1. Escaped(a) = <<a>> /\ Escaped(b) = <<ESC, b>>
        BY <1>5 DEF Escaped
    <2>2. /\ Len(f) = 6
          /\ f[1] = START /\ f[2] = t /\ f[3] = a /\ f[4] = ESC /\ f[5] = b
          /\ f[6] = END
          /\ f \in Seq(Nat)
        BY <1>2, <2>1 DEF ESC, START, END
    <2> HIDE DEF f
    <2> QED BY <2>2, <1>1, <1>5 DEF FrameByte, FrameLen, D1, D2, ESC, START, END, f
<1>6. CASE ~(a <= ESC) /\ ~(b <= ESC)
    <2>1. Escaped(a) = <<a>> /\ Escaped(b) = <<b>>
        BY <1>6 DEF Escaped
    <2>2. /\ Len(f) = 5
          /\ f[1] = START /\ f[2] = t /\ f[3] = a /\ f[4] = b /\ f[5] = END
          /\ f \in Seq(Nat)
        BY <1>2, <2>1 DEF ESC, START, END
    <2> HIDE DEF f
    <2> QED BY <2>2, <1>1, <1>6 DEF FrameByte, FrameLen, D1, D2, ESC, START, END, f
<1> QED BY <1>3, <1>4, <1>5, <1>6

-----------------------------------------------------------------------------
(* The firmware's parser *)

FwStates ==
    [start_found : BOOLEAN, esc_last : BOOLEAN, start_last : BOOLEAN,
     bytes : Seq(Nat), end_found : BOOLEAN]

FwResults == [p : FwStates, used : Nat, keep : Nat]

(* p is its state j bytes into a whole frame. *)
FwIn(p, m, j) ==
    /\ p \in FwStates
    /\ p.start_found <=> j > 0
    /\ p.esc_last <=> Marker(m, j)
    /\ p.start_last <=> j = 1
    /\ p.bytes = IF j < D1(m) THEN <<>>
                 ELSE IF j < D2(m) THEN <<m[1]>> ELSE <<m[1], m[2]>>
    /\ p.end_found <=> j = FrameLen(m)

LEMMA FwInFresh ==
    ASSUME NEW m \in Messages
    PROVE  FwIn(FwFresh, m, 0)
    BY Layout DEF FwIn, FwFresh, Marker, FrameLen, FwStates

LEMMA BytesAre ==
    ASSUME NEW t \in Nat, NEW m \in Messages
    PROVE  /\ FrameByte(t, m, 1) = START /\ FrameByte(t, m, 2) = t
           /\ FrameByte(t, m, D1(m)) = m[1] /\ FrameByte(t, m, D2(m)) = m[2]
           /\ FrameByte(t, m, D2(m) + 1) = END
           /\ \A j \in Nat : Marker(m, j) => FrameByte(t, m, j) = ESC
    BY Layout DEF FrameByte, Marker, FrameLen, START, END, ESC

(* What the parser takes, and what it makes of it *)
LEMMA FitsIs ==
    ASSUME NEW p, NEW b, NEW b_len
    PROVE  /\ p.start_found = FALSE => (FwFits(p, b, b_len) <=> b = START)
           /\ p.start_found = TRUE /\ p.esc_last = TRUE =>
                (FwFits(p, b, b_len) <=> b <= ESC /\ Len(p.bytes) < b_len)
           /\ p.start_found = TRUE /\ p.esc_last = FALSE =>
                (FwFits(p, b, b_len) <=>
                   \/ b \in {ESC, END}
                   \/ b > ESC /\ (p.start_last \/ Len(p.bytes) < b_len))
<1>1. CASE p.start_found = FALSE
    BY <1>1 DEF FwFits, Takes
<1>2. CASE p.start_found = TRUE /\ p.esc_last = TRUE
    BY <1>2 DEF FwFits, Takes
<1>3. CASE p.start_found = TRUE /\ p.esc_last = FALSE
    BY <1>3 DEF FwFits, Takes
<1> QED BY <1>1, <1>2, <1>3

LEMMA AppendOne ==
    ASSUME NEW S, NEW x \in S, NEW y \in S
    PROVE  Append(<<x>>, y) = <<x, y>>
<1>1. PICK a, b : a = Append(<<x>>, y) /\ b = <<x, y>>
    OBVIOUS
<1>2. a \in Seq(S) /\ Len(a) = 2 /\ a[1] = x /\ a[2] = y
    BY <1>1
<1>3. b \in Seq(S) /\ Len(b) = 2 /\ b[1] = x /\ b[2] = y
    BY <1>1
<1>4. a = b
    BY <1>2, <1>3, SeqEqual
<1> QED BY <1>1, <1>4

(* Byte by byte, the parser takes a frame. *)
LEMMA FwInNext ==
    ASSUME NEW m \in Messages, NEW p \in FwStates, NEW j \in Nat,
           j < FrameLen(m), FwIn(p, m, j)
    PROVE  /\ FwFits(p, FrameByte(CONTROL, m, j + 1), MSG_LEN)
           /\ FwIn(FwAdvance(p, FrameByte(CONTROL, m, j + 1)), m, j + 1)
<1> DEFINE b == FrameByte(CONTROL, m, j + 1)
<1>1. /\ m[1] \in Nat /\ m[2] \in Nat
      /\ D1(m) \in 3 .. 4 /\ D2(m) \in D1(m) + 1 .. D1(m) + 2
      /\ FrameLen(m) = D2(m) + 1
      /\ m[1] <= ESC <=> D1(m) = 4
      /\ m[2] <= ESC <=> D2(m) = D1(m) + 2
    BY Layout DEF FrameLen
<1> USE DEF START, END, ESC, CONTROL
<1>2. CASE j = 0
    <2>1. b = START
        BY <1>1, <1>2, BytesAre DEF Marker
    <2>2. /\ p.start_found = FALSE /\ p.esc_last = FALSE
          /\ p.start_last = FALSE /\ p.bytes = <<>> /\ p.end_found = FALSE
        BY <1>1, <1>2 DEF FwIn, Marker, FwStates
    <2> HIDE DEF b
    <2>3. FwFits(p, b, MSG_LEN)
        BY <1>1, <1>2, <2>1, <2>2, FitsIs DEF MSG_LEN
    <2>4. PICK q : q = [p EXCEPT !.start_found = TRUE, !.start_last = TRUE]
        OBVIOUS
    <2>5. FwAdvance(p, b) = q
        BY <1>1, <1>2, <2>1, <2>2, <2>4 DEF FwAdvance
    <2>6. q \in FwStates
        <3>1. b \in Nat
            BY <1>1, <2>1
        <3>2. p.bytes \in Seq(Nat) /\ Append(p.bytes, b) \in Seq(Nat)
            BY <3>1 DEF FwStates
        <3> QED BY <3>2, <2>4 DEF FwStates
    <2>7. /\ q.start_found = TRUE /\ q.esc_last = FALSE
          /\ q.start_last = TRUE /\ q.bytes = <<>> /\ q.end_found = FALSE
        BY <2>1, <2>2, <2>4, <1>1, <1>2 DEF FwStates
    <2>8. FwIn(q, m, j + 1)
        BY <2>7, <2>6, <1>1, <1>2 DEF FwIn, Marker
    <2> QED BY <2>3, <2>5, <2>8 DEF b
<1>3. CASE j = 1
    <2>1. b = CONTROL
        BY <1>1, <1>3, BytesAre DEF Marker
    <2>2. /\ p.start_found = TRUE /\ p.esc_last = FALSE
          /\ p.start_last = TRUE /\ p.bytes = <<>> /\ p.end_found = FALSE
        BY <1>1, <1>3 DEF FwIn, Marker, FwStates
    <2> HIDE DEF b
    <2>3. FwFits(p, b, MSG_LEN)
        <3>1. b > ESC /\ p.start_last = TRUE
            BY <1>1, <1>3, <2>1, <2>2 DEF MSG_LEN
        <3> QED BY <2>2, <3>1, FitsIs
    <2>4. PICK q : q = [p EXCEPT !.start_last = FALSE]
        OBVIOUS
    <2>5. FwAdvance(p, b) = q
        BY <1>1, <1>3, <2>1, <2>2, <2>4 DEF FwAdvance
    <2>6. q \in FwStates
        <3>1. b \in Nat
            BY <1>1, <2>1
        <3>2. p.bytes \in Seq(Nat) /\ Append(p.bytes, b) \in Seq(Nat)
            BY <3>1 DEF FwStates
        <3> QED BY <3>2, <2>4 DEF FwStates
    <2>7. /\ q.start_found = TRUE /\ q.esc_last = FALSE
          /\ q.start_last = FALSE /\ q.bytes = <<>> /\ q.end_found = FALSE
        BY <2>1, <2>2, <2>4, <1>1, <1>3 DEF FwStates
    <2>8. FwIn(q, m, j + 1)
        BY <2>7, <2>6, <1>1, <1>3 DEF FwIn, Marker
    <2> QED BY <2>3, <2>5, <2>8 DEF b
<1>4. CASE j > 1 /\ j + 1 = D1(m) /\ m[1] <= ESC
    <2>1. b = m[1]
        BY <1>1, <1>4, BytesAre DEF Marker
    <2>2. /\ p.start_found = TRUE /\ p.esc_last = TRUE
          /\ p.start_last = FALSE /\ p.bytes = <<>> /\ p.end_found = FALSE
        BY <1>1, <1>4 DEF FwIn, Marker, FwStates
    <2> HIDE DEF b
    <2>3. FwFits(p, b, MSG_LEN)
        <3>1. b <= ESC /\ Len(p.bytes) < MSG_LEN
            BY <1>1, <1>4, <2>1, <2>2 DEF MSG_LEN
        <3> QED BY <2>2, <3>1, FitsIs
    <2>4. PICK q : q = [p EXCEPT !.bytes = Append(@, b), !.esc_last = FALSE]
        OBVIOUS
    <2>5. FwAdvance(p, b) = q
        BY <1>1, <1>4, <2>1, <2>2, <2>4 DEF FwAdvance
    <2>6. q \in FwStates
        <3>1. b \in Nat
            BY <1>1, <2>1
        <3>2. p.bytes \in Seq(Nat) /\ Append(p.bytes, b) \in Seq(Nat)
            BY <3>1 DEF FwStates
        <3> QED BY <3>2, <2>4 DEF FwStates
    <2>7. /\ q.start_found = TRUE /\ q.esc_last = FALSE
          /\ q.start_last = FALSE /\ q.bytes = <<m[1]>> /\ q.end_found = FALSE
        BY <2>1, <2>2, <2>4, <1>1, <1>4 DEF FwStates
    <2>8. FwIn(q, m, j + 1)
        BY <2>7, <2>6, <1>1, <1>4 DEF FwIn, Marker
    <2> QED BY <2>3, <2>5, <2>8 DEF b
<1>5. CASE j > 1 /\ j + 1 = D1(m) /\ ~(m[1] <= ESC)
    <2>1. b = m[1]
        BY <1>1, <1>5, BytesAre DEF Marker
    <2>2. /\ p.start_found = TRUE /\ p.esc_last = FALSE
          /\ p.start_last = FALSE /\ p.bytes = <<>> /\ p.end_found = FALSE
        BY <1>1, <1>5 DEF FwIn, Marker, FwStates
    <2> HIDE DEF b
    <2>3. FwFits(p, b, MSG_LEN)
        <3>1. b > ESC /\ Len(p.bytes) < MSG_LEN
            BY <1>1, <1>5, <2>1, <2>2 DEF MSG_LEN
        <3> QED BY <2>2, <3>1, FitsIs
    <2>4. PICK q : q = [p EXCEPT !.bytes = Append(@, b)]
        OBVIOUS
    <2>5. FwAdvance(p, b) = q
        BY <1>1, <1>5, <2>1, <2>2, <2>4 DEF FwAdvance
    <2>6. q \in FwStates
        <3>1. b \in Nat
            BY <1>1, <2>1
        <3>2. p.bytes \in Seq(Nat) /\ Append(p.bytes, b) \in Seq(Nat)
            BY <3>1 DEF FwStates
        <3> QED BY <3>2, <2>4 DEF FwStates
    <2>7. /\ q.start_found = TRUE /\ q.esc_last = FALSE
          /\ q.start_last = FALSE /\ q.bytes = <<m[1]>> /\ q.end_found = FALSE
        BY <2>1, <2>2, <2>4, <1>1, <1>5 DEF FwStates
    <2>8. FwIn(q, m, j + 1)
        BY <2>7, <2>6, <1>1, <1>5 DEF FwIn, Marker
    <2> QED BY <2>3, <2>5, <2>8 DEF b
<1>6. CASE j > 1 /\ j + 1 = D2(m) /\ m[2] <= ESC
    <2>1. b = m[2]
        BY <1>1, <1>6, BytesAre DEF Marker
    <2>2. /\ p.start_found = TRUE /\ p.esc_last = TRUE
          /\ p.start_last = FALSE /\ p.bytes = <<m[1]>> /\ p.end_found = FALSE
        BY <1>1, <1>6 DEF FwIn, Marker, FwStates
    <2> HIDE DEF b
    <2>3. FwFits(p, b, MSG_LEN)
        <3>1. b <= ESC /\ Len(p.bytes) < MSG_LEN
            BY <1>1, <1>6, <2>1, <2>2 DEF MSG_LEN
        <3> QED BY <2>2, <3>1, FitsIs
    <2>4. PICK q : q = [p EXCEPT !.bytes = Append(@, b), !.esc_last = FALSE]
        OBVIOUS
    <2>5. FwAdvance(p, b) = q
        BY <1>1, <1>6, <2>1, <2>2, <2>4 DEF FwAdvance
    <2>6. q \in FwStates
        <3>1. b \in Nat
            BY <1>1, <2>1
        <3>2. p.bytes \in Seq(Nat) /\ Append(p.bytes, b) \in Seq(Nat)
            BY <3>1 DEF FwStates
        <3> QED BY <3>2, <2>4 DEF FwStates
    <2>7. /\ q.start_found = TRUE /\ q.esc_last = FALSE
          /\ q.start_last = FALSE /\ q.bytes = <<m[1], m[2]>> /\ q.end_found = FALSE
        <3>2. Append(<<m[1]>>, m[2]) = <<m[1], m[2]>>
            BY <1>1, AppendOne
        <3> QED BY <3>2, <2>1, <2>2, <2>4, <1>1, <1>6 DEF FwStates
    <2>8. FwIn(q, m, j + 1)
        BY <2>7, <2>6, <1>1, <1>6 DEF FwIn, Marker
    <2> QED BY <2>3, <2>5, <2>8 DEF b
<1>7. CASE j > 1 /\ j + 1 = D2(m) /\ ~(m[2] <= ESC)
    <2>1. b = m[2]
        BY <1>1, <1>7, BytesAre DEF Marker
    <2>2. /\ p.start_found = TRUE /\ p.esc_last = FALSE
          /\ p.start_last = FALSE /\ p.bytes = <<m[1]>> /\ p.end_found = FALSE
        BY <1>1, <1>7, SMTT(60) DEF FwIn, Marker, FwStates
    <2> HIDE DEF b
    <2>3. FwFits(p, b, MSG_LEN)
        <3>1. b > ESC /\ Len(p.bytes) < MSG_LEN
            BY <1>1, <1>7, <2>1, <2>2 DEF MSG_LEN
        <3> QED BY <2>2, <3>1, FitsIs
    <2>4. PICK q : q = [p EXCEPT !.bytes = Append(@, b)]
        OBVIOUS
    <2>5. FwAdvance(p, b) = q
        BY <1>1, <1>7, <2>1, <2>2, <2>4 DEF FwAdvance
    <2>6. q \in FwStates
        <3>1. b \in Nat
            BY <1>1, <2>1
        <3>2. p.bytes \in Seq(Nat) /\ Append(p.bytes, b) \in Seq(Nat)
            BY <3>1 DEF FwStates
        <3> QED BY <3>2, <2>4 DEF FwStates
    <2>7. /\ q.start_found = TRUE /\ q.esc_last = FALSE
          /\ q.start_last = FALSE /\ q.bytes = <<m[1], m[2]>> /\ q.end_found = FALSE
        <3>2. Append(<<m[1]>>, m[2]) = <<m[1], m[2]>>
            BY <1>1, AppendOne
        <3> QED BY <3>2, <2>1, <2>2, <2>4, <1>1, <1>7 DEF FwStates
    <2>8. FwIn(q, m, j + 1)
        BY <2>7, <2>6, <1>1, <1>7 DEF FwIn, Marker
    <2> QED BY <2>3, <2>5, <2>8 DEF b
<1>8. CASE j = D2(m)
    <2>1. b = END
        BY <1>1, <1>8, BytesAre DEF Marker
    <2>2. /\ p.start_found = TRUE /\ p.esc_last = FALSE
          /\ p.start_last = FALSE /\ p.bytes = <<m[1], m[2]>> /\ p.end_found = FALSE
        BY <1>1, <1>8, SMTT(60) DEF FwIn, Marker, FwStates
    <2> HIDE DEF b
    <2>3. FwFits(p, b, MSG_LEN)
        BY <1>1, <1>8, <2>1, <2>2, FitsIs DEF MSG_LEN
    <2>4. PICK q : q = [p EXCEPT !.end_found = TRUE]
        OBVIOUS
    <2>5. FwAdvance(p, b) = q
        BY <1>1, <1>8, <2>1, <2>2, <2>4 DEF FwAdvance
    <2>6. q \in FwStates
        <3>1. b \in Nat
            BY <1>1, <2>1
        <3>2. p.bytes \in Seq(Nat) /\ Append(p.bytes, b) \in Seq(Nat)
            BY <3>1 DEF FwStates
        <3> QED BY <3>2, <2>4 DEF FwStates
    <2>7. /\ q.start_found = TRUE /\ q.esc_last = FALSE
          /\ q.start_last = FALSE /\ q.bytes = <<m[1], m[2]>> /\ q.end_found = TRUE
        BY <2>1, <2>2, <2>4, <1>1, <1>8 DEF FwStates
    <2>8. FwIn(q, m, j + 1)
        BY <2>7, <2>6, <1>1, <1>8 DEF FwIn, Marker
    <2> QED BY <2>3, <2>5, <2>8 DEF b
<1>9. CASE j = 2 /\ Marker(m, j + 1)
    <2>1. b = ESC
        BY <1>1, <1>9, BytesAre DEF Marker
    <2>2. /\ p.start_found = TRUE /\ p.esc_last = FALSE
          /\ p.start_last = FALSE /\ p.bytes = <<>> /\ p.end_found = FALSE
        BY <1>1, <1>9 DEF FwIn, Marker, FwStates
    <2> HIDE DEF b
    <2>3. FwFits(p, b, MSG_LEN)
        BY <1>1, <1>9, <2>1, <2>2, FitsIs DEF MSG_LEN
    <2>4. PICK q : q = [p EXCEPT !.esc_last = TRUE]
        OBVIOUS
    <2>5. FwAdvance(p, b) = q
        BY <1>1, <1>9, <2>1, <2>2, <2>4 DEF FwAdvance
    <2>6. q \in FwStates
        <3>1. b \in Nat
            BY <1>1, <2>1
        <3>2. p.bytes \in Seq(Nat) /\ Append(p.bytes, b) \in Seq(Nat)
            BY <3>1 DEF FwStates
        <3> QED BY <3>2, <2>4 DEF FwStates
    <2>7. /\ q.start_found = TRUE /\ q.esc_last = TRUE
          /\ q.start_last = FALSE /\ q.bytes = <<>> /\ q.end_found = FALSE
        BY <2>1, <2>2, <2>4, <1>1, <1>9 DEF FwStates
    <2>8. FwIn(q, m, j + 1)
        BY <2>7, <2>6, <1>1, <1>9 DEF FwIn, Marker
    <2> QED BY <2>3, <2>5, <2>8 DEF b
<1>10. CASE j > 2 /\ Marker(m, j + 1)
    <2>1. b = ESC
        BY <1>1, <1>10, BytesAre DEF Marker
    <2>2. /\ p.start_found = TRUE /\ p.esc_last = FALSE
          /\ p.start_last = FALSE /\ p.bytes = <<m[1]>> /\ p.end_found = FALSE
        BY <1>1, <1>10 DEF FwIn, Marker, FwStates
    <2> HIDE DEF b
    <2>3. FwFits(p, b, MSG_LEN)
        BY <1>1, <1>10, <2>1, <2>2, FitsIs DEF MSG_LEN
    <2>4. PICK q : q = [p EXCEPT !.esc_last = TRUE]
        OBVIOUS
    <2>5. FwAdvance(p, b) = q
        BY <1>1, <1>10, <2>1, <2>2, <2>4 DEF FwAdvance
    <2>6. q \in FwStates
        <3>1. b \in Nat
            BY <1>1, <2>1
        <3>2. p.bytes \in Seq(Nat) /\ Append(p.bytes, b) \in Seq(Nat)
            BY <3>1 DEF FwStates
        <3> QED BY <3>2, <2>4 DEF FwStates
    <2>7. /\ q.start_found = TRUE /\ q.esc_last = TRUE
          /\ q.start_last = FALSE /\ q.bytes = <<m[1]>> /\ q.end_found = FALSE
        BY <2>1, <2>2, <2>4, <1>1, <1>10 DEF FwStates
    <2>8. FwIn(q, m, j + 1)
        BY <2>7, <2>6, <1>1, <1>10 DEF FwIn, Marker
    <2> QED BY <2>3, <2>5, <2>8 DEF b
<1>11. \/ j = 0
       \/ j = 1
       \/ j > 1 /\ j + 1 = D1(m)
       \/ j > 1 /\ j + 1 = D2(m)
       \/ j = D2(m)
       \/ j > 1 /\ Marker(m, j + 1)
    BY <1>1 DEF Marker
<1> QED BY <1>2, <1>3, <1>4, <1>5, <1>6, <1>7, <1>8, <1>9, <1>10, <1>11

(* What the parser makes of a byte it takes: the fields that change *)
AdvanceFields(p, q, b) ==
    \/ /\ p.start_found = FALSE /\ b = START
       /\ q.start_last = TRUE /\ q.esc_last = FALSE /\ q.end_found = FALSE
       /\ q.bytes = p.bytes
    \/ /\ p.start_found = TRUE /\ p.esc_last = TRUE /\ b <= ESC
       /\ Len(p.bytes) < MSG_LEN
       /\ q.start_last = p.start_last /\ q.esc_last = FALSE
       /\ q.end_found = FALSE /\ q.bytes = Append(p.bytes, b)
    \/ /\ p.start_found = TRUE /\ p.esc_last = FALSE /\ b = ESC
       /\ q.start_last = p.start_last /\ q.esc_last = TRUE
       /\ q.end_found = FALSE /\ q.bytes = p.bytes
    \/ /\ p.start_found = TRUE /\ p.esc_last = FALSE /\ b = END
       /\ q.start_last = p.start_last /\ q.esc_last = FALSE
       /\ q.end_found = TRUE /\ q.bytes = p.bytes
    \/ /\ p.start_found = TRUE /\ p.esc_last = FALSE /\ b > ESC
       /\ p.start_last = TRUE
       /\ q.start_last = FALSE /\ q.esc_last = FALSE /\ q.end_found = FALSE
       /\ q.bytes = p.bytes
    \/ /\ p.start_found = TRUE /\ p.esc_last = FALSE /\ b > ESC
       /\ p.start_last = FALSE /\ Len(p.bytes) < MSG_LEN
       /\ q.start_last = FALSE /\ q.esc_last = FALSE /\ q.end_found = FALSE
       /\ q.bytes = Append(p.bytes, b)

LEMMA AdvanceIs ==
    ASSUME NEW p \in FwStates, NEW b \in Nat, p.end_found = FALSE,
           p.start_found = FALSE => p = FwFresh,
           FwFits(p, b, MSG_LEN)
    PROVE  /\ AdvanceFields(p, FwAdvance(p, b), b)
           /\ FwAdvance(p, b) \in FwStates
           /\ FwAdvance(p, b).start_found = TRUE
<1> USE DEF START, END, ESC
<1>0. /\ p.bytes \in Seq(Nat) /\ Append(p.bytes, b) \in Seq(Nat)
      /\ p.start_found \in BOOLEAN /\ p.esc_last \in BOOLEAN
      /\ p.start_last \in BOOLEAN
    BY DEF FwStates
<1>1. CASE p.start_found = FALSE
    <2>0. b = START
        BY <1>1, FitsIs
    <2>1. b = START /\ p.esc_last = FALSE /\ p.start_last = FALSE
        BY <1>1, <2>0 DEF FwFresh
    <2>2. PICK q : q = [p EXCEPT !.start_found = TRUE, !.start_last = TRUE]
        OBVIOUS
    <2>3. FwAdvance(p, b) = q
        BY <1>1, <2>2 DEF FwAdvance
    <2>4. q \in FwStates
        BY <1>0, <2>2 DEF FwStates
    <2>5. /\ q.start_found = TRUE /\ q.start_last = TRUE /\ q.esc_last = FALSE
          /\ q.end_found = FALSE /\ q.bytes = p.bytes
        BY <2>1, <2>2 DEF FwStates
    <2>6. AdvanceFields(p, q, b)
        BY <1>1, <2>1, <2>4, <2>5 DEF AdvanceFields
    <2> QED BY <2>3, <2>4, <2>5, <2>6
<1>2. CASE p.start_found = TRUE /\ p.esc_last = TRUE
    <2>1. b <= ESC /\ Len(p.bytes) < MSG_LEN
        BY <1>2, FitsIs
    <2>2. PICK q : q = [p EXCEPT !.bytes = Append(@, b), !.esc_last = FALSE]
        OBVIOUS
    <2>3. FwAdvance(p, b) = q
        BY <1>2, <2>2 DEF FwAdvance
    <2>4. q \in FwStates
        BY <1>0, <2>2 DEF FwStates
    <2>5. /\ q.start_found = TRUE /\ q.start_last = p.start_last
          /\ q.esc_last = FALSE
          /\ q.end_found = FALSE /\ q.bytes = Append(p.bytes, b)
        BY <1>2, <2>2 DEF FwStates
    <2>6. AdvanceFields(p, q, b)
        BY <1>0, <1>2, <2>1, <2>4, <2>5 DEF AdvanceFields
    <2> QED BY <2>3, <2>4, <2>5, <2>6
<1>3. CASE p.start_found = TRUE /\ p.esc_last = FALSE
    <2>0. b \in {ESC, END} \/ b > ESC
        BY <1>3, FitsIs
    <2>1. CASE b = ESC
        <3>2. PICK q : q = [p EXCEPT !.esc_last = TRUE]
            OBVIOUS
        <3>3. FwAdvance(p, b) = q
            BY <1>3, <2>1, <3>2 DEF FwAdvance
        <3>4. q \in FwStates
            BY <1>0, <3>2 DEF FwStates
        <3>5. /\ q.start_found = TRUE /\ q.start_last = p.start_last
              /\ q.esc_last = TRUE
              /\ q.end_found = FALSE /\ q.bytes = p.bytes
            BY <1>3, <3>2 DEF FwStates
        <3>6. AdvanceFields(p, q, b)
            BY <1>0, <1>3, <2>1, <3>4, <3>5 DEF AdvanceFields
        <3> QED BY <3>3, <3>4, <3>5, <3>6
    <2>2. CASE b = END
        <3>2. PICK q : q = [p EXCEPT !.end_found = TRUE]
            OBVIOUS
        <3>3. FwAdvance(p, b) = q
            BY <1>3, <2>2, <3>2 DEF FwAdvance
        <3>4. q \in FwStates
            BY <1>0, <3>2 DEF FwStates
        <3>5. /\ q.start_found = TRUE /\ q.start_last = p.start_last
              /\ q.esc_last = FALSE
              /\ q.end_found = TRUE /\ q.bytes = p.bytes
            BY <1>3, <3>2 DEF FwStates
        <3>6. AdvanceFields(p, q, b)
            BY <1>0, <1>3, <2>2, <3>4, <3>5 DEF AdvanceFields
        <3> QED BY <3>3, <3>4, <3>5, <3>6
    <2>3. CASE b > ESC /\ p.start_last = TRUE
        <3>2. PICK q : q = [p EXCEPT !.start_last = FALSE]
            OBVIOUS
        <3>3. FwAdvance(p, b) = q
            BY <1>3, <2>3, <3>2 DEF FwAdvance
        <3>4. q \in FwStates
            BY <1>0, <3>2 DEF FwStates
        <3>5. /\ q.start_found = TRUE /\ q.start_last = FALSE
              /\ q.esc_last = FALSE
              /\ q.end_found = FALSE /\ q.bytes = p.bytes
            BY <1>3, <3>2 DEF FwStates
        <3>6. AdvanceFields(p, q, b)
            BY <1>0, <1>3, <2>3, <3>4, <3>5 DEF AdvanceFields
        <3> QED BY <3>3, <3>4, <3>5, <3>6
    <2>4. CASE b > ESC /\ p.start_last = FALSE
        <3>1. Len(p.bytes) < MSG_LEN
            <4>1. ~(b \in {ESC, END})
                BY <2>4
            <4>2. FwFits(p, b, MSG_LEN) <=>
                        \/ b \in {ESC, END}
                        \/ b > ESC /\ (p.start_last \/ Len(p.bytes) < MSG_LEN)
                BY <1>3, FitsIs, Zenon
            <4>3. ~p.start_last
                BY <2>4
            <4> QED BY <4>1, <4>2, <4>3, Zenon
        <3>2. PICK q : q = [p EXCEPT !.bytes = Append(@, b)]
            OBVIOUS
        <3>3. FwAdvance(p, b) = q
            BY <1>3, <2>4, <3>2 DEF FwAdvance
        <3>4. q \in FwStates
            BY <1>0, <3>2 DEF FwStates
        <3>5. /\ q.start_found = TRUE /\ q.start_last = FALSE
              /\ q.esc_last = FALSE
              /\ q.end_found = FALSE /\ q.bytes = Append(p.bytes, b)
            BY <1>3, <2>4, <3>2 DEF FwStates
        <3>6. AdvanceFields(p, q, b)
            BY <1>0, <1>3, <2>4, <3>1, <3>4, <3>5 DEF AdvanceFields
        <3> QED BY <3>3, <3>4, <3>5, <3>6
    <2> QED BY <1>0, <2>0, <2>1, <2>2, <2>3, <2>4
<1> QED BY <1>0, <1>1, <1>2, <1>3


LEMMA ResetIs ==
    ASSUME NEW b \in Nat
    PROVE  /\ FwReset(b) \in FwStates
           /\ FwReset(b).esc_last = FALSE /\ FwReset(b).end_found = FALSE
           /\ FwReset(b).bytes = <<>>
           /\ FwReset(b).start_found = (b = START)
           /\ b # START => FwReset(b) = FwFresh
<1> USE DEF START, END, ESC
<1>1. /\ FwFresh.start_found = FALSE /\ FwFresh \in FwStates
      /\ FwFresh.esc_last = FALSE /\ FwFresh.end_found = FALSE
      /\ FwFresh.bytes = <<>>
    BY DEF FwFresh, FwStates
<1>3. CASE b = START
    <2>1. FwFits(FwFresh, b, 0)
        BY <1>1, <1>3, FitsIs
    <2>2. PICK q : q = [FwFresh EXCEPT !.start_found = TRUE, !.start_last = TRUE]
        OBVIOUS
    <2>3. FwAdvance(FwFresh, b) = q
        BY <1>1, <2>2 DEF FwAdvance
    <2>4. q \in FwStates
        BY <1>1, <2>2 DEF FwStates
    <2>5. /\ q.start_found = TRUE /\ q.esc_last = FALSE
          /\ q.end_found = FALSE /\ q.bytes = <<>>
        BY <1>1, <2>2 DEF FwStates
    <2>6. FwReset(b) = q
        BY <2>1, <2>3 DEF FwReset
    <2> QED BY <1>3, <2>4, <2>5, <2>6
<1>4. CASE b # START
    <2>0. ~FwFits(FwFresh, b, 0)
        BY <1>1, <1>4, FitsIs
    <2>1. FwReset(b) = FwFresh
        BY <2>0 DEF FwReset
    <2> QED BY <2>1, <1>1, <1>4
<1> QED BY <1>3, <1>4

(* A byte that fits, and one that does not *)
LEMMA Fitting ==
    ASSUME NEW r \in FwResults, NEW b, r.p.end_found = FALSE,
           FwFits(r.p, b, MSG_LEN)
    PROVE  /\ FwNext(r, b, MSG_LEN).p = FwAdvance(r.p, b)
           /\ FwNext(r, b, MSG_LEN).used = r.used + 1
           /\ FwNext(r, b, MSG_LEN).keep = r.keep
           /\ FwAdvance(r.p, b) \in FwStates => FwNext(r, b, MSG_LEN) \in FwResults
<1>1. FwNext(r, b, MSG_LEN) = [r EXCEPT !.p = FwAdvance(r.p, b), !.used = @ + 1]
    BY DEF FwNext, FwByte
<1>2. r.used + 1 \in Nat /\ r = [p |-> r.p, used |-> r.used, keep |-> r.keep]
    BY DEF FwResults
<1>3. FwNext(r, b, MSG_LEN) = [p |-> FwAdvance(r.p, b), used |-> r.used + 1,
                               keep |-> r.keep]
    BY <1>1, <1>2
<1>4. r.keep \in Nat
    BY DEF FwResults
<1> QED BY <1>2, <1>3, <1>4 DEF FwResults

LEMMA Resetting ==
    ASSUME NEW r \in FwResults, NEW b \in Nat, r.p.end_found = FALSE,
           ~FwFits(r.p, b, MSG_LEN)
    PROVE  /\ FwNext(r, b, MSG_LEN).p = FwReset(b)
           /\ FwNext(r, b, MSG_LEN).used = r.used + 1
           /\ FwNext(r, b, MSG_LEN).keep = r.used + 1
           /\ FwNext(r, b, MSG_LEN) \in FwResults
<1>1. FwNext(r, b, MSG_LEN) = [p |-> FwReset(b), used |-> r.used + 1, keep |-> r.used + 1]
    BY DEF FwNext, FwByte
<1>2. r.used \in Nat /\ FwReset(b) \in FwStates
    BY ResetIs DEF FwResults
<1> QED BY <1>1, <1>2 DEF FwResults

(* What holds behind byte i, whatever the bytes were *)
FwSound(r, i) ==
    /\ r \in FwResults
    /\ r.used <= i /\ r.keep <= r.used
    /\ r.p.end_found = FALSE => r.used = i
    /\ r.p.start_found = FALSE => r.p = FwFresh

LEMMA ByteIs ==
    ASSUME NEW r \in FwResults, NEW b \in Nat, r.p.end_found = FALSE,
           r.p.start_found = FALSE => r.p = FwFresh
    PROVE  /\ FwNext(r, b, MSG_LEN) \in FwResults
           /\ FwNext(r, b, MSG_LEN).used = r.used + 1
           /\ FwNext(r, b, MSG_LEN).p.start_found = FALSE
                => FwNext(r, b, MSG_LEN).p = FwFresh
           /\ \/ /\ FwNext(r, b, MSG_LEN).p = FwAdvance(r.p, b)
                 /\ AdvanceFields(r.p, FwNext(r, b, MSG_LEN).p, b)
                 /\ FwNext(r, b, MSG_LEN).p.start_found = TRUE
                 /\ FwNext(r, b, MSG_LEN).keep = r.keep
                 /\ FwFits(r.p, b, MSG_LEN)
              \/ /\ FwNext(r, b, MSG_LEN).p = FwReset(b)
                 /\ FwNext(r, b, MSG_LEN).keep = r.used + 1
                 /\ ~FwFits(r.p, b, MSG_LEN)
<1>0. r.p \in FwStates
    BY DEF FwResults
<1>1. CASE FwFits(r.p, b, MSG_LEN)
    <2>1. /\ AdvanceFields(r.p, FwAdvance(r.p, b), b)
          /\ FwAdvance(r.p, b) \in FwStates
          /\ FwAdvance(r.p, b).start_found = TRUE
        BY <1>0, <1>1, AdvanceIs
    <2>2. /\ FwNext(r, b, MSG_LEN).p = FwAdvance(r.p, b)
          /\ FwNext(r, b, MSG_LEN).used = r.used + 1
          /\ FwNext(r, b, MSG_LEN).keep = r.keep
          /\ FwNext(r, b, MSG_LEN) \in FwResults
        BY <1>1, <2>1, Fitting
    <2> QED BY <1>1, <2>1, <2>2
<1>2. CASE ~FwFits(r.p, b, MSG_LEN)
    <2>1. /\ FwNext(r, b, MSG_LEN).p = FwReset(b)
          /\ FwNext(r, b, MSG_LEN).used = r.used + 1
          /\ FwNext(r, b, MSG_LEN).keep = r.used + 1
          /\ FwNext(r, b, MSG_LEN) \in FwResults
        BY <1>2, Resetting
    <2>2. FwReset(b).start_found = FALSE => FwReset(b) = FwFresh
        <3>1. FwReset(b).start_found = (b = START) /\ (b # START => FwReset(b) = FwFresh)
            BY ResetIs
        <3> QED BY <3>1
    <2> QED BY <1>2, <2>1, <2>2
<1> QED BY <1>1, <1>2

LEMMA FwSoundNext ==
    ASSUME NEW i \in Nat, NEW r, FwSound(r, i), NEW b \in Nat
    PROVE  /\ FwSound(FwNext(r, b, MSG_LEN), i + 1)
           /\ r.p.end_found = FALSE => FwNext(r, b, MSG_LEN).used = i + 1
           /\ r.p.end_found = TRUE => FwNext(r, b, MSG_LEN) = r
<1>0. /\ r \in FwResults /\ r.p \in FwStates /\ r.p.end_found \in BOOLEAN
      /\ r.used \in Nat /\ r.keep \in Nat
    BY DEF FwSound, FwResults, FwStates
<1>1. CASE r.p.end_found = TRUE
    <2>1. FwNext(r, b, MSG_LEN) = r
        BY <1>1 DEF FwNext
    <2> QED BY <1>0, <1>1, <2>1 DEF FwSound
<1>2. CASE r.p.end_found = FALSE
    <2> PICK s : s = FwNext(r, b, MSG_LEN)
        OBVIOUS
    <2>0. r.used = i /\ r.keep <= r.used /\ (r.p.start_found = FALSE => r.p = FwFresh)
        BY <1>2 DEF FwSound
    <2>1. /\ s \in FwResults /\ s.used = i + 1
          /\ s.p.start_found = FALSE => s.p = FwFresh
          /\ s.keep = r.keep \/ s.keep = i + 1
        BY <1>0, <1>2, <2>0, ByteIs
    <2>2. s.keep <= s.used /\ s.used <= i + 1
        BY <1>0, <2>0, <2>1
    <2>3. FwSound(s, i + 1)
        BY <2>1, <2>2 DEF FwSound
    <2> QED BY <1>2, <2>1, <2>3
<1> QED BY <1>0, <1>1, <1>2

LEMMA FwSoundAll ==
    ASSUME NEW bytes \in Seq(Nat)
    PROVE  \A i \in 0 .. Len(bytes) : FwSound(FwAfter(bytes, MSG_LEN)[i], i)
<1>0. Len(bytes) \in Nat /\ \A i \in 1 .. Len(bytes) : bytes[i] \in Nat
    OBVIOUS
<1> DEFINE T == {i \in 0 .. Len(bytes) : FwSound(FwAfter(bytes, MSG_LEN)[i], i)}
<1>1. 0 \in T
    <2>1. FwAfter(bytes, MSG_LEN)[0] = FwStart
        BY <1>0, FwSteps
    <2>2. FwSound(FwStart, 0)
        BY DEF FwSound, FwStart, FwResults, FwStates, FwFresh
    <2> QED BY <1>0, <2>1, <2>2
<1>2. \A n \in 0 .. Len(bytes) : n < Len(bytes) /\ n \in T => n + 1 \in T
    <2> SUFFICES ASSUME NEW n \in 0 .. Len(bytes), n < Len(bytes), n \in T
                 PROVE  n + 1 \in T
        OBVIOUS
    <2>1. n + 1 \in 1 .. Len(bytes) /\ (n + 1) - 1 = n /\ n \in Nat
        BY <1>0
    <2>2. FwAfter(bytes, MSG_LEN)[n + 1]
            = FwNext(FwAfter(bytes, MSG_LEN)[n], bytes[n + 1], MSG_LEN)
        BY <1>0, <2>1, FwSteps
    <2>3. FwSound(FwNext(FwAfter(bytes, MSG_LEN)[n], bytes[n + 1], MSG_LEN), n + 1)
        BY <1>0, <2>1, FwSoundNext
    <2> QED BY <2>1, <2>2, <2>3
<1> HIDE DEF T
<1>3. \A n \in 0 .. Len(bytes) : n \in T
    BY <1>0, <1>1, <1>2, FromTo
<1> QED BY <1>3 DEF T

(* A frame once found stays. *)
LEMMA FwStays ==
    ASSUME NEW bytes \in Seq(Nat), NEW e \in 0 .. Len(bytes),
           FwAfter(bytes, MSG_LEN)[e].p.end_found = TRUE
    PROVE  \A i \in e .. Len(bytes) :
             FwAfter(bytes, MSG_LEN)[i] = FwAfter(bytes, MSG_LEN)[e]
<1>0. Len(bytes) \in Nat /\ \A i \in 1 .. Len(bytes) : bytes[i] \in Nat
    OBVIOUS
<1> DEFINE f == FwAfter(bytes, MSG_LEN)
<1> DEFINE T == {i \in e .. Len(bytes) : f[i] = f[e]}
<1>1. e \in T
    BY <1>0
<1>2. \A n \in e .. Len(bytes) : n < Len(bytes) /\ n \in T => n + 1 \in T
    <2> SUFFICES ASSUME NEW n \in e .. Len(bytes), n < Len(bytes), n \in T
                 PROVE  n + 1 \in T
        OBVIOUS
    <2>1. n + 1 \in 1 .. Len(bytes) /\ (n + 1) - 1 = n /\ n \in Nat
        BY <1>0
    <2>2. f[n + 1] = FwNext(f[n], bytes[n + 1], MSG_LEN)
        BY <1>0, <2>1, FwSteps
    <2>3. FwNext(f[n], bytes[n + 1], MSG_LEN) = f[n]
        BY DEF FwNext
    <2> QED BY <2>1, <2>2, <2>3
<1>3. \A n \in e .. Len(bytes) : n \in T
    <2> HIDE DEF T, f
    <2>1. e \in Nat
        BY <1>0
    <2> QED BY <1>0, <2>1, <1>1, <1>2, FromTo
<1> QED BY <1>3

(* the last byte of the frame it found *)
LEMMA FwEnd ==
    ASSUME NEW bytes \in Seq(Nat), NEW i \in 0 .. Len(bytes),
           FwAfter(bytes, MSG_LEN)[i].p.end_found = TRUE
    PROVE  \E e \in 1 .. i :
             /\ FwAfter(bytes, MSG_LEN)[e] = FwAfter(bytes, MSG_LEN)[i]
             /\ FwAfter(bytes, MSG_LEN)[i].used = e
             /\ \A n \in 0 .. e - 1 : FwAfter(bytes, MSG_LEN)[n].p.end_found = FALSE
<1>0. Len(bytes) \in Nat /\ \A k \in 1 .. Len(bytes) : bytes[k] \in Nat
    OBVIOUS
<1> DEFINE f == FwAfter(bytes, MSG_LEN)
<1> DEFINE T == {n \in 0 .. i : f[n].p.end_found = TRUE}
<1>1. PICK e \in T : \A n \in T : ~(n < e)
    <2>1. T \subseteq Nat /\ i \in T
        OBVIOUS
    <2> HIDE DEF T
    <2> QED BY <2>1, Least
<1>2. e \in 0 .. Len(bytes) /\ e <= i /\ f[e].p.end_found = TRUE
    BY <1>1
<1>3. e # 0
    <2>1. f[0] = FwStart
        BY <1>0, FwSteps
    <2> QED BY <1>2, <2>1 DEF FwStart, FwFresh
<1>4. f[i] = f[e]
    <2>1. i \in e .. Len(bytes)
        BY <1>0, <1>2
    <2> QED BY <1>2, <2>1, FwStays
<1>5. \A n \in 0 .. e - 1 : f[n].p.end_found = FALSE
    <2> SUFFICES ASSUME NEW n \in 0 .. e - 1 PROVE f[n].p.end_found = FALSE
        OBVIOUS
    <2>1. FwSound(f[n], n)
        BY <1>2, FwSoundAll
    <2>2. f[n].p.end_found \in BOOLEAN
        BY <2>1 DEF FwSound, FwResults, FwStates
    <2>3. f[n].p.end_found # TRUE
        <3>1. n < e /\ n \in 0 .. i
            BY <1>2
        <3>2. n \notin T
            <4> HIDE DEF T
            <4> QED BY <1>1, <3>1
        <3> QED BY <3>1, <3>2
    <2> QED BY <2>2, <2>3
<1>6. f[e].used = e
    <2>1. e \in 1 .. Len(bytes) /\ e - 1 \in Nat /\ (e - 1) + 1 = e /\ e - 1 \in 0 .. e - 1
        BY <1>2, <1>3
    <2>2. FwSound(f[e - 1], e - 1) /\ f[e - 1].p.end_found = FALSE
        BY <2>1, <1>5, FwSoundAll
    <2>3. f[e] = FwNext(f[e - 1], bytes[e], MSG_LEN)
        BY <1>0, <2>1, FwSteps
    <2>4. bytes[e] \in Nat
        BY <2>1
    <2>5. FwNext(f[e - 1], bytes[e], MSG_LEN).used = (e - 1) + 1
        BY <2>1, <2>2, <2>4, FwSoundNext
    <2> QED BY <2>1, <2>3, <2>5
<1> QED BY <1>2, <1>3, <1>4, <1>5, <1>6

(* What the parser can be in j bytes into a frame, whatever came before *)
Midway(p, m, j) ==
    /\ j < FrameLen(m) => p.end_found = FALSE
    /\ Marker(m, j) => p.esc_last = TRUE \/ p.start_found = FALSE
    /\ ~Marker(m, j) => p.esc_last = FALSE

(* It found a frame's end, or starts over. *)
Done(r, i) == r.p.end_found = TRUE \/ (r.p = FwFresh /\ r.keep = i)

LEMMA MidwayNext ==
    ASSUME NEW m \in Messages, NEW i \in Nat, NEW r, FwSound(r, i),
           r.p.end_found = FALSE,
           NEW j \in 1 .. FrameLen(m),
           j = 1 \/ r.p = FwFresh \/ Midway(r.p, m, j - 1)
    PROVE  /\ Midway(FwNext(r, FrameByte(CONTROL, m, j), MSG_LEN).p, m, j)
           /\ j = FrameLen(m)
                => Done(FwNext(r, FrameByte(CONTROL, m, j), MSG_LEN), i + 1)
<1> DEFINE b == FrameByte(CONTROL, m, j)
<1> PICK s : s = FwNext(r, b, MSG_LEN)
    OBVIOUS
<1> USE DEF START, END, ESC, CONTROL
<1>1. /\ m[1] \in Nat /\ m[2] \in Nat
      /\ D1(m) \in 3 .. 4 /\ D2(m) \in D1(m) + 1 .. D1(m) + 2
      /\ FrameLen(m) = D2(m) + 1
      /\ m[1] <= ESC <=> D1(m) = 4
      /\ m[2] <= ESC <=> D2(m) = D1(m) + 2
    BY Layout DEF FrameLen
<1>2. /\ r \in FwResults /\ r.p \in FwStates /\ r.used = i
      /\ r.p.start_found \in BOOLEAN /\ r.p.esc_last \in BOOLEAN
      /\ r.p.start_found = FALSE => r.p = FwFresh
    BY DEF FwSound, FwResults, FwStates
<1>3. \/ j = 1 /\ b = START
      \/ j = 2 /\ b = CONTROL
      \/ j = D1(m) /\ b = m[1]
      \/ j = D2(m) /\ b = m[2]
      \/ j = FrameLen(m) /\ b = END
      \/ Marker(m, j) /\ b = ESC
    BY <1>1 DEF FrameByte, Marker
<1>4. b \in Nat
    BY <1>1, <1>3
<1> HIDE DEF b
<1>5. /\ s \in FwResults
      /\ \/ AdvanceFields(r.p, s.p, b) /\ s.p.start_found = TRUE
         \/ s.p = FwReset(b) /\ s.keep = i + 1
    BY <1>2, <1>4, ByteIs
<1>6. /\ FwReset(b).esc_last = FALSE /\ FwReset(b).end_found = FALSE
      /\ FwReset(b).start_found = (b = START)
      /\ b # START => FwReset(b) = FwFresh
    BY <1>4, ResetIs
<1>7. FwFresh.esc_last = FALSE /\ FwFresh.start_found = FALSE
    BY DEF FwFresh
<1>8. CASE Marker(m, j) /\ b = ESC
    <2>1. j > 2 /\ j < FrameLen(m) /\ ~Marker(m, j - 1)
        BY <1>1, <1>8 DEF Marker
    <2>2. r.p.esc_last = FALSE
        BY <1>7, <2>1 DEF Midway
    <2>3. s.p.end_found = FALSE /\ (s.p.esc_last = TRUE \/ s.p.start_found = FALSE)
        <3>1. CASE AdvanceFields(r.p, s.p, b)
            BY <1>8, <2>2, <3>1 DEF AdvanceFields
        <3>2. CASE s.p = FwReset(b)
            BY <1>6, <1>7, <1>8, <3>2
        <3> QED BY <1>5, <3>1, <3>2
    <2> QED BY <1>8, <2>1, <2>3 DEF Midway, b
<1>9. CASE j = FrameLen(m) /\ b = END
    <2>1. j > 2 /\ ~Marker(m, j) /\ ~Marker(m, j - 1)
        BY <1>1, <1>9 DEF Marker
    <2>2. r.p.esc_last = FALSE
        BY <1>7, <2>1 DEF Midway
    <2>3. s.p.esc_last = FALSE /\ Done(s, i + 1)
        <3>1. CASE AdvanceFields(r.p, s.p, b)
            BY <1>9, <2>2, <3>1 DEF AdvanceFields, Done
        <3>2. CASE s.p = FwReset(b) /\ s.keep = i + 1
            BY <1>6, <1>9, <3>2 DEF Done
        <3> QED BY <1>5, <3>1, <3>2
    <2> QED BY <1>9, <2>1, <2>3 DEF Midway, b
<1>10. CASE j = 1 /\ b = START
    <2>1. j < FrameLen(m) /\ ~Marker(m, j)
        BY <1>1, <1>10 DEF Marker
    <2>3. s.p.end_found = FALSE /\ s.p.esc_last = FALSE
        <3>1. CASE AdvanceFields(r.p, s.p, b)
            BY <1>10, <3>1 DEF AdvanceFields
        <3>2. CASE s.p = FwReset(b)
            BY <1>6, <3>2
        <3> QED BY <1>5, <3>1, <3>2
    <2> QED BY <2>1, <2>3 DEF Midway, b
<1>11. CASE j = 2 /\ b = CONTROL
    <2>1. j < FrameLen(m) /\ ~Marker(m, j)
        BY <1>1, <1>11 DEF Marker
    <2>3. s.p.end_found = FALSE /\ s.p.esc_last = FALSE
        <3>1. CASE AdvanceFields(r.p, s.p, b)
            BY <1>11, <3>1 DEF AdvanceFields
        <3>2. CASE s.p = FwReset(b)
            BY <1>6, <3>2
        <3> QED BY <1>5, <3>1, <3>2
    <2> QED BY <2>1, <2>3 DEF Midway, b
<1>12. CASE j \in {D1(m), D2(m)} /\ (b <= ESC => Marker(m, j - 1))
    <2>1. j > 2 /\ j < FrameLen(m) /\ ~Marker(m, j)
        BY <1>1, <1>12 DEF Marker
    <2>2. b <= ESC => r.p.esc_last = TRUE \/ r.p.start_found = FALSE
        BY <1>7, <1>12, <2>1 DEF Midway
    <2>3. s.p.end_found = FALSE /\ s.p.esc_last = FALSE
        <3>1. CASE AdvanceFields(r.p, s.p, b)
            BY <1>4, <2>2, <3>1 DEF AdvanceFields
        <3>2. CASE s.p = FwReset(b)
            BY <1>6, <3>2
        <3> QED BY <1>5, <3>1, <3>2
    <2> QED BY <2>1, <2>3 DEF Midway, b
<1>13. /\ j = D1(m) /\ b = m[1] => (b <= ESC => Marker(m, j - 1))
       /\ j = D2(m) /\ b = m[2] => (b <= ESC => Marker(m, j - 1))
    BY <1>1 DEF Marker
<1> QED BY <1>3, <1>8, <1>9, <1>10, <1>11, <1>12, <1>13

(* bytes a .. c are those of a frame from its byte k on. *)
Carries(bytes, a, c, m, k) ==
    /\ a \in 1 .. Len(bytes) /\ c \in a .. Len(bytes)
    /\ k \in Nat /\ k >= 1 /\ k + (c - a) <= FrameLen(m)
    /\ \A i \in a .. c : bytes[i] = FrameByte(CONTROL, m, k + (i - a))

(* Behind a frame the parser starts over, but for one it found. *)
LEMMA MidwayAlong ==
    ASSUME NEW bytes \in Seq(Nat), NEW a, NEW c, NEW m \in Messages, NEW k,
           Carries(bytes, a, c, m, k),
           FwAfter(bytes, MSG_LEN)[a - 1].p.end_found = FALSE,
           k = 1 \/ FwAfter(bytes, MSG_LEN)[a - 1].p = FwFresh
    PROVE  \A i \in a .. c :
             /\ Midway(FwAfter(bytes, MSG_LEN)[i].p, m, k + (i - a))
             /\ k + (i - a) = FrameLen(m) => Done(FwAfter(bytes, MSG_LEN)[i], i)
<1>0. /\ Len(bytes) \in Nat /\ \A n \in 1 .. Len(bytes) : bytes[n] \in Nat
      /\ a \in 1 .. Len(bytes) /\ c \in a .. Len(bytes) /\ k \in Nat /\ k >= 1
      /\ k + (c - a) <= FrameLen(m) /\ FrameLen(m) \in Nat
    <2>1. FrameLen(m) \in 5 .. 7
        BY Layout
    <2> QED BY <2>1, SMTT(60) DEF Carries
<1> DEFINE f == FwAfter(bytes, MSG_LEN)
<1> DEFINE G(i) == /\ Midway(f[i].p, m, k + (i - a))
                   /\ k + (i - a) = FrameLen(m) => Done(f[i], i)
<1> DEFINE T == {i \in a .. c : G(i)}
<1>1. ASSUME NEW i \in a .. c, f[i - 1].p.end_found = FALSE,
             \/ k + (i - a) = 1 \/ f[i - 1].p = FwFresh
             \/ Midway(f[i - 1].p, m, (k + (i - a)) - 1)
      PROVE  G(i)
    <2>1. PICK n \in Nat : n = i - 1 /\ n + 1 = i /\ n \in 0 .. Len(bytes)
        BY <1>0
    <2>2. PICK j \in 1 .. FrameLen(m) : j = k + (i - a)
        BY <1>0
    <2>3. i \in 1 .. Len(bytes) /\ bytes[i] = FrameByte(CONTROL, m, j)
        BY <1>0, <2>2 DEF Carries
    <2>4. f[i] = FwNext(f[n], FrameByte(CONTROL, m, j), MSG_LEN)
        BY <1>0, <2>1, <2>3, FwSteps
    <2>5. FwSound(f[n], n)
        BY <2>1, FwSoundAll
    <2>6. f[n].p.end_found = FALSE
        BY <1>1, <2>1
    <2>7. j = 1 \/ f[n].p = FwFresh \/ Midway(f[n].p, m, j - 1)
        BY <1>1, <2>1, <2>2
    <2>8. /\ Midway(f[i].p, m, j)
          /\ j = FrameLen(m) => Done(f[i], i)
        <3> HIDE DEF f
        <3> QED BY <2>1, <2>4, <2>5, <2>6, <2>7, MidwayNext
    <2> QED BY <2>2, <2>8
<1>2. a \in T
    <2>1. a \in a .. c /\ k + (a - a) = k
        BY <1>0
    <2> QED BY <2>1, <1>1
<1>3. \A n \in a .. c : n < c /\ n \in T => n + 1 \in T
    <2> SUFFICES ASSUME NEW n \in a .. c, n < c, n \in T
                 PROVE  n + 1 \in T
        OBVIOUS
    <2>1. /\ n + 1 \in a .. c /\ (n + 1) - 1 = n
          /\ k + (n - a) < FrameLen(m)
          /\ (k + ((n + 1) - a)) - 1 = k + (n - a)
        BY <1>0
    <2>2. f[n].p.end_found = FALSE /\ Midway(f[n].p, m, k + (n - a))
        BY <2>1 DEF Midway
    <2>3. G(n + 1)
        <3> HIDE DEF f, G
        <3> QED BY <1>1, <2>1, <2>2
    <2> QED BY <2>1, <2>3
<1>4. \A n \in a .. c : n \in T
    <2> HIDE DEF T
    <2>1. a \in Nat /\ c \in Nat
        BY <1>0
    <2> QED BY <2>1, <1>2, <1>3, FromTo
<1> QED BY <1>4

(* From a fresh start, the parser takes a frame, and keeps what was before. *)
LEMMA FrameAlong ==
    ASSUME NEW bytes \in Seq(Nat), NEW a, NEW c, NEW m \in Messages,
           Carries(bytes, a, c, m, 1),
           FwAfter(bytes, MSG_LEN)[a - 1].p = FwFresh,
           FwAfter(bytes, MSG_LEN)[a - 1].keep = a - 1
    PROVE  \A i \in a .. c :
             /\ FwIn(FwAfter(bytes, MSG_LEN)[i].p, m, 1 + (i - a))
             /\ FwAfter(bytes, MSG_LEN)[i].keep = a - 1
<1>0. /\ Len(bytes) \in Nat /\ \A n \in 1 .. Len(bytes) : bytes[n] \in Nat
      /\ a \in 1 .. Len(bytes) /\ c \in a .. Len(bytes) /\ a \in Nat /\ c \in Nat
      /\ 1 + (c - a) <= FrameLen(m) /\ FrameLen(m) \in Nat
    <2>1. FrameLen(m) \in 5 .. 7
        BY Layout
    <2> QED BY <2>1, SMTT(60) DEF Carries
<1> DEFINE f == FwAfter(bytes, MSG_LEN)
<1> DEFINE G(i) == FwIn(f[i].p, m, 1 + (i - a)) /\ f[i].keep = a - 1
<1> DEFINE T == {i \in a .. c : G(i)}
<1>1. ASSUME NEW i \in a .. c, FwIn(f[i - 1].p, m, i - a), f[i - 1].keep = a - 1
      PROVE  G(i)
    <2>1. PICK n \in Nat : n = i - 1 /\ n + 1 = i /\ n \in 0 .. Len(bytes)
        BY <1>0
    <2>2. PICK j \in Nat : j = i - a /\ j < FrameLen(m) /\ j + 1 = 1 + (i - a)
        <3>1. i - a \in Nat /\ i - a < FrameLen(m) /\ (i - a) + 1 = 1 + (i - a)
            <4> HIDE DEF f, T
            <4> QED BY <1>0
        <3> QED BY <3>1
    <2>3. i \in 1 .. Len(bytes) /\ bytes[i] = FrameByte(CONTROL, m, j + 1)
        BY <1>0, <2>2 DEF Carries
    <2>4. f[i] = FwNext(f[n], FrameByte(CONTROL, m, j + 1), MSG_LEN)
        BY <1>0, <2>1, <2>3, FwSteps
    <2>5. f[n] \in FwResults /\ f[n].p \in FwStates
        <3>1. FwSound(f[n], n)
            BY <2>1, FwSoundAll
        <3> QED BY <3>1 DEF FwSound, FwResults
    <2>6. f[n].p.end_found = FALSE
        <3>1. FwIn(f[n].p, m, j) /\ f[n].p.end_found \in BOOLEAN
            BY <1>1, <2>1, <2>2, <2>5 DEF FwStates
        <3>2. j # FrameLen(m)
            BY <1>0, <2>2
        <3> QED BY <3>1, <3>2 DEF FwIn
    <2>7. /\ FwFits(f[n].p, FrameByte(CONTROL, m, j + 1), MSG_LEN)
          /\ FwIn(FwAdvance(f[n].p, FrameByte(CONTROL, m, j + 1)), m, j + 1)
        <3>1. FwIn(f[n].p, m, j)
            BY <1>1, <2>1, <2>2
        <3> HIDE DEF f
        <3> QED BY <2>2, <2>5, <3>1, FwInNext
    <2>8. f[i].p = FwAdvance(f[n].p, FrameByte(CONTROL, m, j + 1)) /\ f[i].keep = a - 1
        <3>1. f[n].keep = a - 1
            BY <1>1, <2>1
        <3> HIDE DEF f
        <3> PICK b : b = FrameByte(CONTROL, m, j + 1)
            OBVIOUS
        <3>2. FwFits(f[n].p, b, MSG_LEN)
            BY <2>7
        <3>3. /\ FwNext(f[n], b, MSG_LEN).p = FwAdvance(f[n].p, b)
              /\ FwNext(f[n], b, MSG_LEN).keep = f[n].keep
            BY <2>5, <2>6, <3>2, Fitting
        <3> QED BY <2>4, <3>1, <3>3
    <2> QED BY <2>2, <2>7, <2>8
<1>2. a \in T
    <2>1. a \in a .. c /\ a - a = 0
        BY <1>0
    <2>2. FwIn(f[a - 1].p, m, a - a) /\ f[a - 1].keep = a - 1
        BY <2>1, FwInFresh
    <2>3. G(a)
        <3> HIDE DEF f, G
        <3> QED BY <1>1, <2>1, <2>2
    <2> QED BY <2>1, <2>3
<1>3. \A n \in a .. c : n < c /\ n \in T => n + 1 \in T
    <2> SUFFICES ASSUME NEW n \in a .. c, n < c, n \in T
                 PROVE  n + 1 \in T
        OBVIOUS
    <2>1. n + 1 \in a .. c /\ (n + 1) - 1 = n /\ (n + 1) - a = 1 + (n - a)
        BY <1>0, SMTT(60)
    <2>2. G(n + 1)
        <3>1. FwIn(f[n].p, m, 1 + (n - a)) /\ f[n].keep = a - 1
            OBVIOUS
        <3> HIDE DEF f, G, T
        <3> QED BY <1>1, <2>1, <3>1
    <2> QED BY <2>1, <2>2
<1>4. \A n \in a .. c : n \in T
    <2> HIDE DEF T
    <2>1. a \in Nat /\ c \in Nat
        BY <1>0
    <2> QED BY <2>1, <1>2, <1>3, FromTo
<1> QED BY <1>4

(* how many of the message's bytes the first j of its frame hold *)
Data(m, j) == IF j < D1(m) THEN 0 ELSE IF j < D2(m) THEN 1 ELSE 2

(* A start inside a frame comes too late for a whole message. *)
LateStart(p, m, j) == p.start_found = TRUE => Len(p.bytes) < Data(m, j)

LEMMA LateStartNext ==
    ASSUME NEW m \in Messages, NEW i \in Nat, NEW r, FwSound(r, i),
           r.p.end_found = FALSE,
           NEW j \in 2 .. FrameLen(m),
           \/ r.p = FwFresh
           \/ j > 2 /\ Midway(r.p, m, j - 1) /\ LateStart(r.p, m, j - 1)
    PROVE  LateStart(FwNext(r, FrameByte(CONTROL, m, j), MSG_LEN).p, m, j)
<1> DEFINE b == FrameByte(CONTROL, m, j)
<1> PICK s : s = FwNext(r, b, MSG_LEN)
    OBVIOUS
<1> SUFFICES LateStart(s.p, m, j)
    OBVIOUS
<1> USE DEF START, END, ESC, CONTROL
<1>1. /\ m[1] \in Nat /\ m[2] \in Nat
      /\ D1(m) \in 3 .. 4 /\ D2(m) \in D1(m) + 1 .. D1(m) + 2
      /\ FrameLen(m) = D2(m) + 1
      /\ m[1] <= ESC <=> D1(m) = 4
      /\ m[2] <= ESC <=> D2(m) = D1(m) + 2
    BY Layout DEF FrameLen
<1>2. /\ r \in FwResults /\ r.p \in FwStates /\ r.used = i
      /\ r.p.start_found \in BOOLEAN /\ r.p.esc_last \in BOOLEAN
      /\ r.p.start_found = FALSE => r.p = FwFresh
      /\ r.p.bytes \in Seq(Nat)
    BY DEF FwSound, FwResults, FwStates
<1>3. \/ j = 2 /\ b = CONTROL
      \/ j = D1(m) /\ b = m[1]
      \/ j = D2(m) /\ b = m[2]
      \/ j = FrameLen(m) /\ b = END
      \/ Marker(m, j) /\ b = ESC
    BY <1>1 DEF FrameByte, Marker
<1>4. b \in Nat
    BY <1>1, <1>3
<1> HIDE DEF b
<1>5. /\ s \in FwResults
      /\ \/ AdvanceFields(r.p, s.p, b) /\ s.p.start_found = TRUE
         \/ s.p = FwReset(b) /\ s.keep = i + 1
    BY <1>2, <1>4, ByteIs
<1>6. /\ FwReset(b).start_found = (b = START)
      /\ FwReset(b).bytes = <<>>
    BY <1>4, ResetIs
<1>7. FwFresh.esc_last = FALSE /\ FwFresh.start_found = FALSE /\ FwFresh.bytes = <<>>
    BY DEF FwFresh
<1>8. /\ Len(r.p.bytes) \in Nat
      /\ Len(Append(r.p.bytes, b)) = Len(r.p.bytes) + 1
      /\ r.p.start_found = FALSE => Len(r.p.bytes) = 0
    BY <1>2, <1>4, <1>7
<1>9. s.p.bytes = r.p.bytes \/ s.p.bytes = Append(r.p.bytes, b) \/ Len(s.p.bytes) = 0
    BY <1>5, <1>6 DEF AdvanceFields
<1>10. CASE j \in {D1(m), D2(m)}
    <2>1. Data(m, j) = Data(m, j - 1) + 1 /\ Data(m, j) \in 1 .. 2 /\ j > 2
        BY <1>1, <1>10 DEF Data
    <2>2. r.p.start_found = TRUE => Len(r.p.bytes) < Data(m, j - 1)
        BY <1>7 DEF LateStart
    <2>3. CASE r.p.start_found = TRUE
        <3>1. Len(s.p.bytes) <= Len(r.p.bytes) + 1
            BY <1>8, <1>9
        <3>2. Len(s.p.bytes) \in Nat
            BY <1>8, <1>9
        <3>3. Data(m, j - 1) \in Nat
            BY DEF Data
        <3>4. Len(r.p.bytes) < Data(m, j - 1)
            BY <2>2, <2>3
        <3>5. Len(s.p.bytes) < Data(m, j)
            BY <1>8, <2>1, <3>1, <3>2, <3>3, <3>4
        <3> QED BY <3>5 DEF LateStart
    <2>4. CASE r.p.start_found = FALSE
        <3>1. Len(s.p.bytes) = 0
            BY <1>5, <1>6, <1>8, <2>4 DEF AdvanceFields
        <3> QED BY <2>1, <3>1 DEF LateStart
    <2> QED BY <1>2, <2>3, <2>4
<1>11. CASE j \notin {D1(m), D2(m)}
    <2>1. /\ Data(m, j) = Data(m, j - 1) /\ b # START
          /\ j = 2 \/ (b <= ESC /\ ~Marker(m, j - 1))
        BY <1>1, <1>3, <1>11 DEF Data, Marker
    <2>2. CASE r.p.start_found = FALSE
        <3>1. s.p.start_found = FALSE
            BY <1>5, <1>6, <2>1, <2>2 DEF AdvanceFields
        <3> QED BY <3>1 DEF LateStart
    <2>3. CASE r.p.start_found = TRUE
        <3>1. Midway(r.p, m, j - 1) /\ LateStart(r.p, m, j - 1) /\ j > 2
            BY <1>7, <2>3
        <3>2. b <= ESC /\ r.p.esc_last = FALSE
            BY <2>1, <3>1 DEF Midway
        <3>3. s.p.bytes = r.p.bytes \/ s.p.start_found = FALSE
            <4>1. CASE AdvanceFields(r.p, s.p, b)
                BY <1>4, <2>3, <3>2, <4>1 DEF AdvanceFields
            <4>2. CASE s.p = FwReset(b)
                BY <1>6, <2>1, <4>2
            <4> QED BY <1>5, <4>1, <4>2
        <3> QED BY <2>1, <2>3, <3>1, <3>3 DEF LateStart
    <2> QED BY <1>2, <2>2, <2>3
<1> QED BY <1>10, <1>11

LEMMA LateStartAlong ==
    ASSUME NEW bytes \in Seq(Nat), NEW a, NEW c, NEW m \in Messages, NEW k,
           Carries(bytes, a, c, m, k), k > 1,
           FwAfter(bytes, MSG_LEN)[a - 1].p = FwFresh
    PROVE  \A i \in a .. c : LateStart(FwAfter(bytes, MSG_LEN)[i].p, m, k + (i - a))
<1>0. /\ Len(bytes) \in Nat /\ \A n \in 1 .. Len(bytes) : bytes[n] \in Nat
      /\ a \in 1 .. Len(bytes) /\ c \in a .. Len(bytes) /\ k \in Nat /\ k > 1
      /\ k + (c - a) <= FrameLen(m) /\ FrameLen(m) \in Nat
    <2>1. FrameLen(m) \in 5 .. 7
        BY Layout
    <2> QED BY <2>1, SMTT(60) DEF Carries
<1> DEFINE f == FwAfter(bytes, MSG_LEN)
<1>m. \A i \in a .. c : Midway(f[i].p, m, k + (i - a))
    <2>1. f[a - 1].p.end_found = FALSE
        BY DEF FwFresh
    <2> QED BY <2>1, MidwayAlong
<1> DEFINE T == {i \in a .. c : LateStart(f[i].p, m, k + (i - a))}
<1>1. ASSUME NEW i \in a .. c, f[i - 1].p.end_found = FALSE,
             \/ f[i - 1].p = FwFresh
             \/ /\ k + (i - a) > 2 /\ Midway(f[i - 1].p, m, (k + (i - a)) - 1)
                /\ LateStart(f[i - 1].p, m, (k + (i - a)) - 1)
      PROVE  LateStart(f[i].p, m, k + (i - a))
    <2>1. PICK n \in Nat : n = i - 1 /\ n + 1 = i /\ n \in 0 .. Len(bytes)
        BY <1>0
    <2>2. PICK j \in 2 .. FrameLen(m) : j = k + (i - a)
        BY <1>0
    <2>3. i \in 1 .. Len(bytes) /\ bytes[i] = FrameByte(CONTROL, m, j)
        BY <1>0, <2>2 DEF Carries
    <2>4. f[i] = FwNext(f[n], FrameByte(CONTROL, m, j), MSG_LEN)
        BY <1>0, <2>1, <2>3, FwSteps
    <2>5. FwSound(f[n], n)
        BY <2>1, FwSoundAll
    <2>6. f[n].p.end_found = FALSE
        BY <1>1, <2>1
    <2>7. \/ f[n].p = FwFresh
          \/ j > 2 /\ Midway(f[n].p, m, j - 1) /\ LateStart(f[n].p, m, j - 1)
        BY <1>1, <2>1, <2>2
    <2>8. LateStart(f[i].p, m, j)
        <3> HIDE DEF f
        <3> QED BY <2>1, <2>4, <2>5, <2>6, <2>7, LateStartNext
    <2> QED BY <2>2, <2>8
<1>2. a \in T
    <2>1. a \in a .. c /\ k + (a - a) = k
        BY <1>0
    <2>2. f[a - 1].p.end_found = FALSE
        BY DEF FwFresh
    <2> QED BY <2>1, <2>2, <1>1
<1>3. \A n \in a .. c : n < c /\ n \in T => n + 1 \in T
    <2> SUFFICES ASSUME NEW n \in a .. c, n < c, n \in T
                 PROVE  n + 1 \in T
        OBVIOUS
    <2>1. /\ n + 1 \in a .. c /\ (n + 1) - 1 = n
          /\ k + (n - a) < FrameLen(m) /\ k + ((n + 1) - a) > 2
          /\ (k + ((n + 1) - a)) - 1 = k + (n - a)
        BY <1>0
    <2>2. f[n].p.end_found = FALSE /\ Midway(f[n].p, m, k + (n - a))
        BY <1>m, <2>1 DEF Midway
    <2>3. LateStart(f[n + 1].p, m, k + ((n + 1) - a))
        <3>1. LateStart(f[n].p, m, k + (n - a))
            OBVIOUS
        <3> HIDE DEF f, T
        <3> QED BY <1>1, <2>1, <2>2, <3>1
    <2> QED BY <2>1, <2>3
<1>4. \A n \in a .. c : n \in T
    <2> HIDE DEF T
    <2>1. a \in Nat /\ c \in Nat
        BY <1>0
    <2> QED BY <2>1, <1>2, <1>3, FromTo
<1> QED BY <1>4

-----------------------------------------------------------------------------
(* The bytes on their way to the firmware's parser *)

Lines == Seq(Nat \X Nat)

(* Each byte is one of its frame, pos says which. *)
OfFrames(s, pos, msgs) ==
    \A i \in 1 .. Len(s) :
        /\ s[i][2] \in 1 .. Len(msgs)
        /\ pos[i] \in 1 .. FrameLen(msgs[s[i][2]])
        /\ s[i][1] = FrameByte(CONTROL, msgs[s[i][2]], pos[i])

(* Byte i is not the last of its frame, and the next is the next of it; or  *)
(* a frame ends and one behind it starts: but for those in lost.            *)
Follows(s, pos, msgs, lost, i) ==
    \/ /\ s[i + 1][2] = s[i][2]
       /\ s[i][2] \notin lost => pos[i + 1] = pos[i] + 1
    \/ /\ s[i + 1][2] > s[i][2]
       /\ s[i][2] \notin lost => pos[i] = FrameLen(msgs[s[i][2]])
       /\ s[i + 1][2] \notin lost => pos[i + 1] = 1
       /\ \A k \in s[i][2] + 1 .. s[i + 1][2] - 1 : k \in lost

Ends(s, pos, msgs, lost) ==
    s # <<>> =>
        /\ s[Len(s)][2] \notin lost => pos[Len(s)] = FrameLen(msgs[s[Len(s)][2]])
        /\ \A k \in s[Len(s)][2] + 1 .. Len(msgs) : k \in lost

(* The line holds what the frames msgs are made of, in order and without a  *)
(* gap, but for a front that is gone and for bytes of the frames in lost.   *)
Placed(s, pos, msgs, lost) ==
    /\ OfFrames(s, pos, msgs)
    /\ \A i \in 1 .. Len(s) - 1 : Follows(s, pos, msgs, lost, i)
    /\ Ends(s, pos, msgs, lost)

LEMMA PlacedMoreLost ==
    ASSUME NEW s, NEW pos, NEW msgs, NEW lost, NEW more,
           Placed(s, pos, msgs, lost), lost \subseteq more
    PROVE  Placed(s, pos, msgs, more)
    BY DEF Placed, Ends, Follows

(* A front of the line is read. *)
LEMMA PlacedDrop ==
    ASSUME NEW s \in Lines, NEW pos, NEW msgs, NEW lost,
           Placed(s, pos, msgs, lost), NEW d \in 0 .. Len(s),
           NEW t \in Lines, Len(t) = Len(s) - d,
           \A i \in 1 .. Len(t) : t[i] = s[i + d]
    PROVE  Placed(t, [i \in 1 .. Len(t) |-> pos[i + d]], msgs, lost)
<1> PICK q : q = [i \in 1 .. Len(t) |-> pos[i + d]]
    OBVIOUS
<1>0. Len(s) \in Nat /\ Len(t) \in Nat /\ \A i \in 1 .. Len(t) : i + d \in 1 .. Len(s)
    BY DEF Lines
<1>1. OfFrames(t, q, msgs)
    <2>1. OfFrames(s, pos, msgs)
        BY DEF Placed
    <2> QED BY <1>0, <2>1 DEF OfFrames
<1>2. \A i \in 1 .. Len(t) - 1 : Follows(t, q, msgs, lost, i)
    <2> SUFFICES ASSUME NEW i \in 1 .. Len(t) - 1
                 PROVE  Follows(t, q, msgs, lost, i)
        OBVIOUS
    <2>1. /\ i \in 1 .. Len(t) /\ i + 1 \in 1 .. Len(t)
          /\ i + d \in 1 .. Len(s) - 1 /\ (i + 1) + d = (i + d) + 1
        BY <1>0
    <2>2. Follows(s, pos, msgs, lost, i + d)
        BY <2>1 DEF Placed
    <2>3. /\ t[i] = s[i + d] /\ t[i + 1] = s[(i + d) + 1]
          /\ q[i] = pos[i + d] /\ q[i + 1] = pos[(i + d) + 1]
        BY <2>1
    <2> QED BY <2>2, <2>3 DEF Follows
<1>3. Ends(t, q, msgs, lost)
    <2> SUFFICES ASSUME t # <<>> PROVE Ends(t, q, msgs, lost)
        BY DEF Ends
    <2>1. Len(t) \in 1 .. Len(t) /\ Len(t) + d = Len(s) /\ s # <<>>
        BY <1>0 DEF Lines
    <2>2. t[Len(t)] = s[Len(s)] /\ q[Len(t)] = pos[Len(s)]
        BY <2>1
    <2>3. Ends(s, pos, msgs, lost)
        BY DEF Placed
    <2> QED BY <2>1, <2>2, <2>3 DEF Ends
<1> QED BY <1>1, <1>2, <1>3 DEF Placed

LEMMA Across ==
    ASSUME NEW n \in Nat, NEW x \in Nat, NEW o \in Nat, NEW lost, x \in lost,
           x # n => x > n /\ n + 1 .. x - 1 \subseteq lost,
           o # x => o > x /\ x + 1 .. o - 1 \subseteq lost,
           o # n
    PROVE  o > n /\ n + 1 .. o - 1 \subseteq lost
    OBVIOUS

LEMMA FollowsAcross ==
    ASSUME NEW s \in Lines, NEW pos, NEW msgs \in Seq(Messages), NEW lost,
           Placed(s, pos, msgs, lost), NEW d \in 2 .. Len(s) - 1,
           s[d][2] \in lost
    PROVE  \/ s[d + 1][2] = s[d - 1][2] /\ s[d - 1][2] \in lost
           \/ /\ s[d + 1][2] > s[d - 1][2]
              /\ s[d - 1][2] \notin lost
                   => pos[d - 1] = FrameLen(msgs[s[d - 1][2]])
              /\ s[d + 1][2] \notin lost => pos[d + 1] = 1
              /\ \A k \in s[d - 1][2] + 1 .. s[d + 1][2] - 1 : k \in lost
<1>0. /\ d - 1 \in 1 .. Len(s) - 1 /\ d \in 1 .. Len(s) - 1 /\ (d - 1) + 1 = d
      /\ d - 1 \in 1 .. Len(s) /\ d \in 1 .. Len(s) /\ d + 1 \in 1 .. Len(s)
    BY SMTT(60) DEF Lines
<1>1. /\ s[d - 1][2] \in 1 .. Len(msgs) /\ s[d][2] \in 1 .. Len(msgs)
      /\ s[d + 1][2] \in 1 .. Len(msgs)
    BY <1>0 DEF Placed, OfFrames
<1>2. PICK n \in Nat : n = s[d - 1][2]
    BY <1>1
<1>3. PICK x \in Nat : x = s[d][2]
    BY <1>1
<1>4. PICK o \in Nat : o = s[d + 1][2]
    BY <1>1
<1>5. Follows(s, pos, msgs, lost, d - 1) /\ Follows(s, pos, msgs, lost, d)
    BY <1>0 DEF Placed
<1>6. x # n => /\ x > n
               /\ n \notin lost => pos[d - 1] = FrameLen(msgs[n])
               /\ n + 1 .. x - 1 \subseteq lost
    BY <1>0, <1>2, <1>3, <1>5, SMTT(60) DEF Follows
<1>7. o # x => /\ o > x
               /\ o \notin lost => pos[d + 1] = 1
               /\ x + 1 .. o - 1 \subseteq lost
    BY <1>3, <1>4, <1>5 DEF Follows
<1>8. x \in lost
    BY <1>3
<1>9. CASE o = n
    <2>1. x = n
        BY <1>6, <1>7, <1>9
    <2> QED BY <1>2, <1>4, <1>8, <1>9, <2>1
<1>10. CASE o # n
    <2>1. o > n /\ n + 1 .. o - 1 \subseteq lost
        <3>1. x # n => x > n /\ n + 1 .. x - 1 \subseteq lost
            BY <1>6
        <3>2. o # x => o > x /\ x + 1 .. o - 1 \subseteq lost
            BY <1>7
        <3> QED BY <1>8, <1>10, <3>1, <3>2, Across
    <2>2. n \notin lost => pos[d - 1] = FrameLen(msgs[n])
        BY <1>6, <1>8
    <2>3. o \notin lost => pos[d + 1] = 1
        BY <1>7, <1>8
    <2> QED BY <1>2, <1>4, <2>1, <2>2, <2>3
<1> QED BY <1>9, <1>10

(* One byte of the line is not received. *)
LEMMA PlacedSkip ==
    ASSUME NEW s \in Lines, NEW pos, NEW msgs \in Seq(Messages), NEW lost,
           Placed(s, pos, msgs, lost), NEW d \in 1 .. Len(s),
           s[d][2] \in lost,
           NEW t \in Lines, Len(t) = Len(s) - 1,
           \A i \in 1 .. Len(t) : t[i] = IF i < d THEN s[i] ELSE s[i + 1]
    PROVE  Placed(t, [i \in 1 .. Len(t) |-> IF i < d THEN pos[i] ELSE pos[i + 1]],
                  msgs, lost)
<1> PICK q : q = [i \in 1 .. Len(t) |-> IF i < d THEN pos[i] ELSE pos[i + 1]]
    OBVIOUS
<1>0. Len(s) \in Nat /\ Len(t) \in Nat /\ \A i \in 1 .. Len(t) : i + 1 \in 1 .. Len(s)
    BY SMTT(60) DEF Lines
<1>1. OfFrames(t, q, msgs)
    <2>1. OfFrames(s, pos, msgs)
        BY DEF Placed
    <2>2. \A i \in 1 .. Len(t) : i \in 1 .. Len(s) /\ i + 1 \in 1 .. Len(s)
        BY <1>0
    <2>3. \A i \in 1 .. Len(t) : \/ t[i] = s[i] /\ q[i] = pos[i]
                                 \/ t[i] = s[i + 1] /\ q[i] = pos[i + 1]
        BY <1>0
    <2> QED BY <2>1, <2>2, <2>3 DEF OfFrames
<1>t. \A i \in 1 .. Len(s) : s[i][2] \in 1 .. Len(msgs) /\ s[i][2] \in Nat
    <2>1. Len(msgs) \in Nat
        OBVIOUS
    <2> QED BY <2>1 DEF Placed, OfFrames
<1>2. \A i \in 1 .. Len(t) - 1 : Follows(t, q, msgs, lost, i)
    <2> SUFFICES ASSUME NEW i \in 1 .. Len(t) - 1
                 PROVE  Follows(t, q, msgs, lost, i)
        OBVIOUS
    <2>0. i \in 1 .. Len(t) /\ i + 1 \in 1 .. Len(t) /\ i \in Nat /\ d \in Nat
        BY <1>0
    <2>1. CASE i + 1 < d
        <3>1. i \in 1 .. Len(s) - 1
            BY <1>0, <2>0
        <3>2. Follows(s, pos, msgs, lost, i)
            BY <3>1 DEF Placed
        <3>3. /\ t[i] = s[i] /\ t[i + 1] = s[i + 1]
              /\ q[i] = pos[i] /\ q[i + 1] = pos[i + 1]
            BY <2>0, <2>1
        <3> QED BY <3>2, <3>3 DEF Follows
    <2>2. CASE ~(i < d)
        <3>1. i + 1 \in 1 .. Len(s) - 1
            BY <1>0, <2>0
        <3>2. Follows(s, pos, msgs, lost, i + 1)
            BY <3>1 DEF Placed
        <3>3. /\ t[i] = s[i + 1] /\ t[i + 1] = s[(i + 1) + 1]
              /\ q[i] = pos[i + 1] /\ q[i + 1] = pos[(i + 1) + 1]
            BY <2>0, <2>2
        <3> QED BY <3>2, <3>3 DEF Follows
    <2>3. CASE i + 1 = d
        <3>1. d \in 2 .. Len(s) - 1 /\ i = d - 1
            BY <1>0, <2>0, <2>3
        <3>3. /\ t[i] = s[d - 1] /\ t[i + 1] = s[d + 1]
              /\ q[i] = pos[d - 1] /\ q[i + 1] = pos[d + 1]
            BY <2>0, <2>3, <3>1
        <3>4. \/ s[d + 1][2] = s[d - 1][2] /\ s[d - 1][2] \in lost
              \/ /\ s[d + 1][2] > s[d - 1][2]
                 /\ s[d - 1][2] \notin lost
                      => pos[d - 1] = FrameLen(msgs[s[d - 1][2]])
                 /\ s[d + 1][2] \notin lost => pos[d + 1] = 1
                 /\ \A k \in s[d - 1][2] + 1 .. s[d + 1][2] - 1 : k \in lost
            BY <3>1, FollowsAcross
        <3> QED BY <3>3, <3>4 DEF Follows
    <2> QED BY <2>0, <2>1, <2>2, <2>3
<1>3. Ends(t, q, msgs, lost)
    <2> SUFFICES ASSUME t # <<>> PROVE Ends(t, q, msgs, lost)
        BY DEF Ends
    <2>0. /\ Len(t) \in 1 .. Len(t) /\ Len(t) + 1 = Len(s) /\ s # <<>>
          /\ Len(t) \in 1 .. Len(s) /\ Len(t) \in 1 .. Len(s) - 1 /\ Len(t) \in Nat
        <3>1. Len(t) # 0
            <4>1. t \in Seq(Nat \X Nat)
                BY DEF Lines
            <4> QED BY <4>1, EmptySeq
        <3>2. Len(s) # 0
            BY <1>0
        <3> QED BY <1>0, <3>1, <3>2
    <2>3. Ends(s, pos, msgs, lost)
        BY DEF Placed
    <2>1. CASE d # Len(s)
        <3>1. t[Len(t)] = s[Len(s)] /\ q[Len(t)] = pos[Len(s)]
            BY <1>0, <2>0, <2>1
        <3> QED BY <2>0, <2>3, <3>1 DEF Ends
    <2>2. CASE d = Len(s)
        <3>1. t[Len(t)] = s[Len(t)] /\ q[Len(t)] = pos[Len(t)]
            BY <1>0, <2>0, <2>2
        <3> PICK n, x : n = s[Len(t)][2] /\ x = s[d][2]
            OBVIOUS
        <3>2. n \in Nat /\ x \in Nat /\ x \in lost
            BY <1>t, <2>0
        <3>3. Follows(s, pos, msgs, lost, Len(t))
            BY <2>0 DEF Placed
        <3>4. \/ x = n
              \/ /\ x > n
                 /\ n \notin lost => pos[Len(t)] = FrameLen(msgs[n])
                 /\ \A k \in n + 1 .. x - 1 : k \in lost
            BY <2>0, <2>2, <3>3 DEF Follows
        <3>5. \A k \in x + 1 .. Len(msgs) : k \in lost
            BY <2>0, <2>2, <2>3 DEF Ends
        <3>6. \A k \in n + 1 .. Len(msgs) : k \in lost
            <4> SUFFICES ASSUME NEW k \in n + 1 .. Len(msgs) PROVE k \in lost
                OBVIOUS
            <4>1. Len(msgs) \in Nat
                OBVIOUS
            <4>2. k \in n + 1 .. x - 1 \/ k = x \/ k \in x + 1 .. Len(msgs)
                BY <3>2, <4>1, SMTT(60)
            <4>3. k \in n + 1 .. x - 1 => x # n
                BY <3>2, SMTT(60)
            <4> QED BY <3>2, <3>4, <3>5, <4>2, <4>3
        <3>7. n \notin lost => pos[Len(t)] = FrameLen(msgs[n])
            BY <3>2, <3>4
        <3> QED BY <3>1, <3>6, <3>7 DEF Ends
    <2> QED BY <2>1, <2>2
<1> QED BY <1>1, <1>2, <1>3 DEF Placed

(* t is s with frame number n, which carries m. *)
Extended(t, s, m, n) ==
    /\ Len(t) = Len(s) + FrameLen(m)
    /\ \A i \in 1 .. Len(s) : t[i] = s[i]
    /\ \A j \in 1 .. FrameLen(m) : t[Len(s) + j] = <<FrameByte(CONTROL, m, j), n>>

(* A frame is sent. *)
LEMMA PlacedAppend ==
    ASSUME NEW s \in Lines, NEW pos, NEW msgs \in Seq(Messages), NEW lost,
           Placed(s, pos, msgs, lost), NEW m \in Messages,
           NEW more \in Seq(Messages), more = Append(msgs, m),
           NEW t \in Lines, Extended(t, s, m, Len(more))
    PROVE  Placed(t, [i \in 1 .. Len(t) |->
                        IF i <= Len(s) THEN pos[i] ELSE i - Len(s)], more, lost)
<1>h. /\ Len(t) = Len(s) + FrameLen(m)
      /\ \A i \in 1 .. Len(s) : t[i] = s[i]
      /\ \A j \in 1 .. FrameLen(m) :
           t[Len(s) + j] = <<FrameByte(CONTROL, m, j), Len(more)>>
    BY DEF Extended
<1> USE <1>h
<1> PICK q : q = [i \in 1 .. Len(t) |-> IF i <= Len(s) THEN pos[i] ELSE i - Len(s)]
    OBVIOUS
<1>0. /\ Len(s) \in Nat /\ Len(t) \in Nat /\ FrameLen(m) \in 5 .. 7
      /\ Len(msgs) \in Nat /\ Len(more) = Len(msgs) + 1
      /\ more[Len(more)] = m /\ \A n \in 1 .. Len(msgs) : more[n] = msgs[n]
    BY Layout DEF Lines
<1> PICK f : f = FrameLen(m)
    OBVIOUS
<1>f. f \in Nat /\ f >= 5 /\ Len(t) = Len(s) + f
    BY <1>0
<1>o. \A i \in 1 .. Len(s) : /\ i \in 1 .. Len(t) /\ t[i] = s[i] /\ q[i] = pos[i]
                             /\ s[i][2] \in 1 .. Len(msgs)
                             /\ more[s[i][2]] = msgs[s[i][2]]
    <2>1. \A i \in 1 .. Len(s) : s[i][2] \in 1 .. Len(msgs)
        BY DEF Placed, OfFrames
    <2> QED BY <1>0, <1>f, <2>1
<1>n. \A i \in Len(s) + 1 .. Len(t) :
        /\ i \in 1 .. Len(t) /\ q[i] = i - Len(s) /\ i - Len(s) \in 1 .. f
        /\ t[i][1] = FrameByte(CONTROL, m, i - Len(s)) /\ t[i][2] = Len(more)
    <2> SUFFICES ASSUME NEW i \in Len(s) + 1 .. Len(t)
                 PROVE  /\ i \in 1 .. Len(t) /\ q[i] = i - Len(s)
                        /\ i - Len(s) \in 1 .. f
                        /\ t[i][1] = FrameByte(CONTROL, m, i - Len(s))
                        /\ t[i][2] = Len(more)
        OBVIOUS
    <2>1. /\ i \in 1 .. Len(t) /\ ~(i <= Len(s)) /\ i - Len(s) \in 1 .. f
          /\ Len(s) + (i - Len(s)) = i
        BY <1>0, <1>f
    <2>2. t[Len(s) + (i - Len(s))] = <<FrameByte(CONTROL, m, i - Len(s)), Len(more)>>
        BY <2>1
    <2> QED BY <2>1, <2>2
<1>1. OfFrames(t, q, more)
    <2> SUFFICES ASSUME NEW i \in 1 .. Len(t)
                 PROVE  /\ t[i][2] \in 1 .. Len(more)
                        /\ q[i] \in 1 .. FrameLen(more[t[i][2]])
                        /\ t[i][1] = FrameByte(CONTROL, more[t[i][2]], q[i])
        BY DEF OfFrames
    <2>1. CASE i <= Len(s)
        <3>1. i \in 1 .. Len(s)
            BY <1>0, <2>1
        <3>2. /\ s[i][2] \in 1 .. Len(msgs)
              /\ pos[i] \in 1 .. FrameLen(msgs[s[i][2]])
              /\ s[i][1] = FrameByte(CONTROL, msgs[s[i][2]], pos[i])
            BY <3>1 DEF Placed, OfFrames
        <3>3. s[i][2] \in 1 .. Len(more)
            BY <1>0, <3>2
        <3> QED BY <1>o, <3>1, <3>2, <3>3
    <2>2. CASE ~(i <= Len(s))
        <3>1. i \in Len(s) + 1 .. Len(t)
            BY <1>0, <2>2
        <3>2. t[i][2] = Len(more) /\ t[i][1] = FrameByte(CONTROL, m, i - Len(s))
            BY <1>n, <3>1
        <3>3. Len(more) \in 1 .. Len(more)
            BY <1>0
        <3> QED BY <1>0, <1>n, <3>1, <3>2, <3>3
    <2> QED BY <2>1, <2>2
<1>2. \A i \in 1 .. Len(t) - 1 : Follows(t, q, more, lost, i)
    <2> SUFFICES ASSUME NEW i \in 1 .. Len(t) - 1
                 PROVE  Follows(t, q, more, lost, i)
        OBVIOUS
    <2>1. CASE i < Len(s)
        <3>1. i \in 1 .. Len(s) /\ i + 1 \in 1 .. Len(s) /\ i \in 1 .. Len(s) - 1
            BY <1>0, <2>1
        <3>2. Follows(s, pos, msgs, lost, i)
            BY <3>1 DEF Placed
        <3>3. /\ t[i] = s[i] /\ t[i + 1] = s[i + 1]
              /\ q[i] = pos[i] /\ q[i + 1] = pos[i + 1]
              /\ more[s[i][2]] = msgs[s[i][2]]
            BY <1>o, <3>1
        <3> QED BY <3>2, <3>3 DEF Follows
    <2>2. CASE i = Len(s)
        <3>1. i \in 1 .. Len(s) /\ i + 1 \in Len(s) + 1 .. Len(t)
            BY <1>0, <2>2
        <3>2. /\ t[i + 1][2] = Len(more) /\ q[i + 1] = 1
            BY <1>0, <1>n, <2>2, <3>1
        <3>3. /\ t[i] = s[i] /\ q[i] = pos[i] /\ s[i][2] \in 1 .. Len(msgs)
              /\ more[s[i][2]] = msgs[s[i][2]]
            BY <1>o, <3>1
        <3>4. /\ s[i][2] \notin lost => pos[i] = FrameLen(msgs[s[i][2]])
              /\ \A k \in s[i][2] + 1 .. Len(msgs) : k \in lost
            <4>1. s # <<>>
                BY <3>1
            <4> QED BY <2>2, <4>1 DEF Placed, Ends
        <3>5. /\ Len(more) > s[i][2] /\ Len(more) - 1 = Len(msgs)
            BY <1>0, <3>3, SMTT(60)
        <3> QED BY <3>2, <3>3, <3>4, <3>5 DEF Follows
    <2>3. CASE i > Len(s)
        <3>1. i \in Len(s) + 1 .. Len(t) /\ i + 1 \in Len(s) + 1 .. Len(t)
            BY <1>0, <2>3, SMTT(60)
        <3>2. /\ t[i][2] = Len(more) /\ t[i + 1][2] = Len(more)
            BY <1>n, <3>1
        <3>3. q[i + 1] = (i + 1) - Len(s) /\ q[i] = i - Len(s)
            BY <1>n, <3>1
        <3>4. q[i + 1] = q[i] + 1
            BY <1>0, <3>1, <3>3
        <3> QED BY <3>2, <3>4 DEF Follows
    <2> QED BY <1>0, <2>1, <2>2, <2>3
<1>3. Ends(t, q, more, lost)
    <2>1. Len(t) \in Len(s) + 1 .. Len(t) /\ Len(t) - Len(s) = f
        BY <1>0, <1>f
    <2>2. q[Len(t)] = f /\ t[Len(t)][2] = Len(more)
        BY <1>n, <2>1
    <2>3. \A k \in Len(more) + 1 .. Len(more) : k \in lost
        BY <1>0
    <2> QED BY <1>0, <2>2, <2>3 DEF Ends
<1> QED BY <1>1, <1>2, <1>3 DEF Placed

(* The frames come in order. *)
LEMMA InOrder ==
    ASSUME NEW s \in Lines, NEW pos, NEW msgs \in Seq(Messages), NEW lost,
           Placed(s, pos, msgs, lost)
    PROVE  \A i \in 1 .. Len(s) : \A j \in i .. Len(s) : s[i][2] <= s[j][2]
<1>t. Len(s) \in Nat /\ \A i \in 1 .. Len(s) : s[i][2] \in Nat
    <2>1. Len(msgs) \in Nat
        OBVIOUS
    <2> QED BY <2>1 DEF Placed, OfFrames, Lines
<1> SUFFICES ASSUME NEW i \in 1 .. Len(s)
             PROVE  \A j \in i .. Len(s) : s[i][2] <= s[j][2]
    OBVIOUS
<1> DEFINE T == {j \in i .. Len(s) : s[i][2] <= s[j][2]}
<1>1. i \in T
    BY <1>t
<1>2. \A n \in i .. Len(s) : n < Len(s) /\ n \in T => n + 1 \in T
    <2> SUFFICES ASSUME NEW n \in i .. Len(s), n < Len(s), n \in T
                 PROVE  n + 1 \in T
        OBVIOUS
    <2>1. n \in 1 .. Len(s) - 1 /\ n \in 1 .. Len(s) /\ n + 1 \in 1 .. Len(s)
          /\ n + 1 \in i .. Len(s)
        BY <1>t
    <2>2. Follows(s, pos, msgs, lost, n)
        BY <2>1 DEF Placed
    <2>3. s[n + 1][2] >= s[n][2]
        BY <1>t, <2>1, <2>2 DEF Follows
    <2> QED BY <1>t, <2>1, <2>3
<1>3. \A n \in i .. Len(s) : n \in T
    <2> HIDE DEF T
    <2>1. i \in Nat
        BY <1>t
    <2> QED BY <1>t, <2>1, <1>1, <1>2, FromTo
<1> QED BY <1>3

(* Where the frame of byte e begins: what of it came stands in one piece. *)
LEMMA BlockBack ==
    ASSUME NEW s \in Lines, NEW pos, NEW msgs \in Seq(Messages), NEW lost,
           Placed(s, pos, msgs, lost), NEW e \in 1 .. Len(s), s[e][2] \notin lost
    PROVE  \E a \in 1 .. e :
             /\ \A i \in a .. e : s[i][2] = s[e][2] /\ pos[i] = pos[a] + (i - a)
             /\ \/ a = 1
                \/ /\ a > 1 /\ s[a - 1][2] < s[e][2] /\ pos[a] = 1
                   /\ Follows(s, pos, msgs, lost, a - 1)
<1>t. /\ Len(s) \in Nat /\ \A i \in 1 .. Len(s) : s[i][2] \in Nat
      /\ \A i \in 1 .. Len(s) : pos[i] \in Nat
    <2>1. Len(msgs) \in Nat
        OBVIOUS
    <2>2. \A i \in 1 .. Len(s) : s[i][2] \in 1 .. Len(msgs)
        BY DEF Placed, OfFrames
    <2>3. \A i \in 1 .. Len(s) : FrameLen(msgs[s[i][2]]) \in 5 .. 7
        <3> TAKE i \in 1 .. Len(s)
        <3>1. msgs[s[i][2]] \in Messages
            BY <2>1, <2>2
        <3> QED BY <3>1, Layout
    <2>4. \A i \in 1 .. Len(s) : pos[i] \in 1 .. FrameLen(msgs[s[i][2]])
        BY DEF Placed, OfFrames
    <2> QED BY <2>1, <2>2, <2>3, <2>4, SMTT(60) DEF Lines
<1> DEFINE B == {i \in 1 .. e : \A k \in i .. e : s[k][2] = s[e][2]}
<1>1. PICK a \in B : \A i \in B : ~(i < a)
    <2>1. B \subseteq Nat /\ e \in B
        BY <1>t
    <2> HIDE DEF B
    <2> QED BY <2>1, Least
<1>2. a \in 1 .. e /\ \A k \in a .. e : s[k][2] = s[e][2]
    BY <1>1
<1> DEFINE T == {i \in a .. e : pos[i] = pos[a] + (i - a)}
<1>3. a \in T
    BY <1>t, <1>2
<1>4. \A n \in a .. e : n < e /\ n \in T => n + 1 \in T
    <2> SUFFICES ASSUME NEW n \in a .. e, n < e, n \in T
                 PROVE  n + 1 \in T
        OBVIOUS
    <2>1. n \in 1 .. Len(s) - 1 /\ n \in 1 .. Len(s) /\ n + 1 \in 1 .. Len(s)
          /\ n + 1 \in a .. e
        BY <1>t, <1>2
    <2>2. Follows(s, pos, msgs, lost, n)
        BY <2>1 DEF Placed
    <2>3. s[n][2] = s[e][2] /\ s[n + 1][2] = s[e][2]
        BY <1>2, <2>1
    <2>4. pos[n + 1] = pos[n] + 1
        BY <1>t, <2>1, <2>2, <2>3 DEF Follows
    <2>5. pos[n] = pos[a] + (n - a)
        OBVIOUS
    <2>6. pos[a] \in Nat /\ pos[n] \in Nat /\ a \in Nat /\ n \in Nat
        BY <1>t, <1>2, <2>1
    <2> HIDE DEF B
    <2>7. pos[n + 1] = pos[a] + ((n + 1) - a)
        BY <2>4, <2>5, <2>6
    <2> QED BY <2>1, <2>7
<1>5. \A n \in a .. e : n \in T
    <2> HIDE DEF T
    <2>1. a \in Nat /\ e \in Nat
        BY <1>2
    <2> QED BY <2>1, <1>3, <1>4, FromTo
<1>6. CASE a > 1
    <2>1. a - 1 \in 1 .. e /\ a - 1 \in 1 .. Len(s) - 1 /\ (a - 1) + 1 = a
          /\ a - 1 \in 1 .. Len(s) /\ a \in 1 .. Len(s) /\ a \in a .. e
        BY <1>t, <1>2, <1>6
    <2>2. s[a - 1][2] # s[e][2]
        <3>1. a - 1 \notin B
            <4>1. a - 1 < a
                BY <1>2
            <4> HIDE DEF B
            <4> QED BY <1>1, <4>1
        <3>2. \A k \in a - 1 .. e : k = a - 1 \/ k \in a .. e
            BY <1>2
        <3> QED BY <1>2, <2>1, <3>1, <3>2
    <2>3. Follows(s, pos, msgs, lost, a - 1)
        BY <2>1 DEF Placed
    <2>4. s[a][2] = s[e][2]
        BY <1>2, <2>1
    <2>5. s[a - 1][2] < s[e][2] /\ pos[a] = 1
        BY <1>t, <2>1, <2>2, <2>3, <2>4 DEF Follows
    <2> QED BY <1>2, <1>5, <1>6, <2>3, <2>5
<1>7. CASE ~(a > 1)
    <2>1. a = 1
        BY <1>2, <1>7
    <2> QED BY <1>2, <1>5, <2>1
<1> QED BY <1>6, <1>7

(* What main parses is the front of the line. *)
FrontOf(bytes, s) ==
    /\ bytes \in Seq(Nat) /\ Len(bytes) <= Len(s)
    /\ \A i \in 1 .. Len(bytes) : bytes[i] = s[i][1]

LEMMA PlacedTypes ==
    ASSUME NEW s \in Lines, NEW pos, NEW msgs \in Seq(Messages), NEW lost,
           Placed(s, pos, msgs, lost)
    PROVE  /\ Len(s) \in Nat /\ Len(msgs) \in Nat
           /\ \A i \in 1 .. Len(s) :
                /\ s[i][2] \in 1 .. Len(msgs) /\ s[i][2] \in Nat
                /\ msgs[s[i][2]] \in Messages
                /\ FrameLen(msgs[s[i][2]]) \in 5 .. 7
                /\ pos[i] \in 1 .. FrameLen(msgs[s[i][2]]) /\ pos[i] \in Nat
                /\ s[i][1] = FrameByte(CONTROL, msgs[s[i][2]], pos[i])
<1>1. Len(s) \in Nat /\ Len(msgs) \in Nat
    BY DEF Lines
<1>2. SUFFICES ASSUME NEW i \in 1 .. Len(s)
      PROVE     /\ s[i][2] \in 1 .. Len(msgs) /\ s[i][2] \in Nat
                /\ msgs[s[i][2]] \in Messages
                /\ FrameLen(msgs[s[i][2]]) \in 5 .. 7
                /\ pos[i] \in 1 .. FrameLen(msgs[s[i][2]]) /\ pos[i] \in Nat
                /\ s[i][1] = FrameByte(CONTROL, msgs[s[i][2]], pos[i])
    BY <1>1
<1>3. s[i][2] \in 1 .. Len(msgs) /\ pos[i] \in 1 .. FrameLen(msgs[s[i][2]])
      /\ s[i][1] = FrameByte(CONTROL, msgs[s[i][2]], pos[i])
    BY DEF Placed, OfFrames
<1>4. msgs[s[i][2]] \in Messages
    BY <1>3
<1>5. FrameLen(msgs[s[i][2]]) \in 5 .. 7
    BY <1>4, Layout
<1> QED BY <1>1, <1>3, <1>4, <1>5

LEMMA BlockCarries ==
    ASSUME NEW s \in Lines, NEW pos, NEW msgs \in Seq(Messages), NEW lost,
           Placed(s, pos, msgs, lost), NEW bytes, FrontOf(bytes, s),
           NEW e \in 1 .. Len(bytes), NEW a \in 1 .. e,
           \A i \in a .. e : s[i][2] = s[e][2] /\ pos[i] = pos[a] + (i - a)
    PROVE  Carries(bytes, a, e, msgs[s[e][2]], pos[a])
<1>1. /\ Len(bytes) \in Nat /\ e \in 1 .. Len(s) /\ a \in 1 .. Len(s)
      /\ Len(bytes) <= Len(s) /\ Len(s) \in Nat /\ e \in a .. e /\ a \in a .. e
    <2>1. Len(s) \in Nat /\ Len(bytes) \in Nat /\ Len(bytes) <= Len(s)
        <3>1. bytes \in Seq(Nat) /\ Len(bytes) <= Len(s)
            BY DEF FrontOf
        <3>2. Len(s) \in Nat
            BY DEF Lines
        <3> QED BY <3>1, <3>2
    <2> QED BY <2>1
<1>2. /\ pos[a] \in Nat /\ pos[a] >= 1 /\ pos[e] = pos[a] + (e - a)
      /\ pos[e] <= FrameLen(msgs[s[e][2]])
    <2>1. pos[a] \in 1 .. FrameLen(msgs[s[a][2]]) /\ pos[a] \in Nat
        BY <1>1, PlacedTypes
    <2>2. pos[e] \in 1 .. FrameLen(msgs[s[e][2]]) /\ pos[e] \in Nat
        BY <1>1, PlacedTypes
    <2>3. FrameLen(msgs[s[e][2]]) \in 5 .. 7
        BY <1>1, PlacedTypes
    <2>4. FrameLen(msgs[s[a][2]]) \in 5 .. 7
        BY <1>1, PlacedTypes
    <2>5. PICK k \in Nat, y \in Nat, z \in Nat :
              /\ k = pos[a] /\ y = pos[e] /\ z = FrameLen(msgs[s[e][2]])
              /\ 1 <= k /\ y <= z
        BY <2>1, <2>2, <2>3, <2>4, SMTT(60)
    <2> QED BY <1>1, <2>5, SMTT(60)
<1>3. \A i \in a .. e : bytes[i] = FrameByte(CONTROL, msgs[s[e][2]], pos[a] + (i - a))
    <2> TAKE i \in a .. e
    <2>1. i \in 1 .. Len(bytes) /\ i \in 1 .. Len(s)
        BY <1>1
    <2>2. s[i][1] = FrameByte(CONTROL, msgs[s[i][2]], pos[i])
        BY <2>1 DEF Placed, OfFrames
    <2>3. bytes[i] = s[i][1]
        BY <2>1 DEF FrontOf
    <2> QED BY <2>2, <2>3
<1> QED BY <1>1, <1>2, <1>3 DEF Carries

Running(r) == r.p.end_found = FALSE

AtRest(r, e) == r.p = FwFresh /\ r.keep = e

(* Nothing is before byte e + 1 of the line, or the end of a frame that     *)
(* lost no byte.                                                            *)
Behind(s, pos, msgs, lost, e) ==
    e > 0 => s[e][2] \notin lost /\ pos[e] = FrameLen(msgs[s[e][2]])

(* There the parser starts over. *)
LEMMA RestBefore ==
    ASSUME NEW s \in Lines, NEW pos, NEW msgs \in Seq(Messages), NEW lost,
           Placed(s, pos, msgs, lost), NEW bytes, FrontOf(bytes, s),
           NEW e \in 0 .. Len(bytes),
           Running(FwAfter(bytes, MSG_LEN)[e]), Behind(s, pos, msgs, lost, e)
    PROVE  AtRest(FwAfter(bytes, MSG_LEN)[e], e)
<1> DEFINE f == FwAfter(bytes, MSG_LEN)
<1>0. /\ bytes \in Seq(Nat) /\ Len(bytes) \in Nat /\ Len(s) \in Nat
      /\ Len(bytes) <= Len(s) /\ f[0] = FwStart
    BY FwSteps DEF FrontOf, Lines
<1>1. CASE e = 0
    BY <1>0, <1>1 DEF FwStart, AtRest
<1>2. CASE e > 0
    <2>1. e \in 1 .. Len(bytes) /\ e \in 1 .. Len(s) /\ e \in 0 .. Len(bytes)
        BY <1>0, <1>2
    <2>2. s[e][2] \notin lost /\ pos[e] = FrameLen(msgs[s[e][2]])
        BY <1>2 DEF Behind
    <2>r. f[e].p.end_found = FALSE
        BY DEF Running
    <2>3. PICK b \in 1 .. e :
             /\ \A i \in b .. e : s[i][2] = s[e][2] /\ pos[i] = pos[b] + (i - b)
             /\ \/ b = 1
                \/ /\ b > 1 /\ s[b - 1][2] < s[e][2] /\ pos[b] = 1
                   /\ Follows(s, pos, msgs, lost, b - 1)
        BY <2>1, <2>2, BlockBack
    <2> PICK m : m = msgs[s[e][2]]
        OBVIOUS
    <2>4. m \in Messages
        BY <2>1, PlacedTypes
    <2>5. Carries(bytes, b, e, m, pos[b])
        BY <2>1, <2>3, BlockCarries
    <2>6. f[b - 1].p.end_found = FALSE
        <3>1. b - 1 \in 0 .. Len(bytes) /\ e \in b - 1 .. Len(bytes)
            BY <2>1
        <3>2. FwSound(f[b - 1], b - 1)
            BY <1>0, <3>1, FwSoundAll
        <3>3. f[b - 1].p.end_found \in BOOLEAN
            BY <3>2 DEF FwSound, FwResults, FwStates
        <3>4. f[b - 1].p.end_found = TRUE => f[e] = f[b - 1]
            BY <1>0, <3>1, FwStays
        <3> QED BY <2>r, <3>3, <3>4
    <2>7. pos[b] = 1 \/ f[b - 1].p = FwFresh
        BY <1>0, <2>3 DEF FwStart
    <2>8. \A i \in b .. e :
             pos[b] + (i - b) = FrameLen(m) => Done(f[i], i)
        BY <1>0, <2>4, <2>5, <2>6, <2>7, MidwayAlong
    <2>9. Done(f[e], e)
        <3>1. e \in b .. e /\ pos[b] + (e - b) = FrameLen(m)
            BY <2>1, <2>2, <2>3
        <3> QED BY <2>8, <3>1
    <2> QED BY <2>9, <2>r DEF Done, AtRest
<1> QED BY <1>1, <1>2

(* A frame of which no byte is lost stands in the line whole. *)
LEMMA BlockOn ==
    ASSUME NEW s \in Lines, NEW pos, NEW msgs \in Seq(Messages), NEW lost,
           Placed(s, pos, msgs, lost), NEW a \in 1 .. Len(s),
           s[a][2] \notin lost, pos[a] = 1,
           NEW c, c = (a + FrameLen(msgs[s[a][2]])) - 1
    PROVE  /\ c \in a .. Len(s)
           /\ \A i \in a .. c : s[i][2] = s[a][2] /\ pos[i] = 1 + (i - a)
<1> PICK n, l : n = s[a][2] /\ l = FrameLen(msgs[s[a][2]])
    OBVIOUS
<1>0. Len(s) \in Nat /\ l \in 5 .. 7 /\ n \in Nat /\ a \in Nat /\ c = (a + l) - 1
    BY PlacedTypes
<1> DEFINE T == {i \in a .. c : i <= Len(s) /\ s[i][2] = n /\ pos[i] = 1 + (i - a)}
<1>1. a \in T
    BY <1>0
<1>2. \A i \in a .. c : i < c /\ i \in T => i + 1 \in T
    <2> SUFFICES ASSUME NEW i \in a .. c, i < c, i \in T
                 PROVE  i + 1 \in T
        OBVIOUS
    <2>0. i \in 1 .. Len(s) /\ i + 1 \in a .. c /\ 1 + (i - a) # l
        BY <1>0, SMTT(60)
    <2>1. i \in 1 .. Len(s) /\ i + 1 \in a .. c /\ s[i][2] = n
          /\ pos[i] = 1 + (i - a) /\ pos[i] # l
        BY <2>0
    <2>2. i < Len(s)
        <3>1. CASE i = Len(s)
            <4>1. s # <<>>
                BY <2>1
            <4>2. pos[Len(s)] = FrameLen(msgs[s[Len(s)][2]])
                BY <2>1, <3>1, <4>1 DEF Placed, Ends
            <4> QED BY <2>1, <3>1, <4>2
        <3> QED BY <1>0, <2>1, <3>1
    <2>3. i \in 1 .. Len(s) - 1 /\ i + 1 <= Len(s)
        BY <1>0, <2>1, <2>2, SMTT(60)
    <2>4. Follows(s, pos, msgs, lost, i)
        BY <2>3 DEF Placed
    <2>5. s[i + 1][2] = n /\ pos[i + 1] = pos[i] + 1
        BY <2>1, <2>4 DEF Follows
    <2>6. pos[i + 1] = 1 + ((i + 1) - a)
        BY <1>0, <2>1, <2>5
    <2> QED BY <2>1, <2>3, <2>5, <2>6
<1>3. \A i \in a .. c : i \in T
    <2> HIDE DEF T
    <2>1. c \in Nat
        BY <1>0, SMTT(60)
    <2> QED BY <1>0, <2>1, <1>1, <1>2, FromTo
<1>4. c \in a .. c
    BY <1>0, SMTT(60)
<1> QED BY <1>0, <1>3, <1>4, SMTT(60)

LEMMA MessageIs ==
    ASSUME NEW m \in Messages
    PROVE  <<m[1], m[2]>> = m /\ m \in Seq(Nat) /\ Len(m) = MSG_LEN
<1>1. PICK a, b : a = m /\ b = <<m[1], m[2]>>
    OBVIOUS
<1>2. m[1] \in Nat /\ m[2] \in Nat
    BY DEF Messages, MSG_LEN
<1>3. b \in Seq(Nat) /\ Len(b) = 2 /\ b[1] = m[1] /\ b[2] = m[2]
    BY <1>1, <1>2
<1>4. m = [i \in 1 .. 2 |-> m[i]] /\ \A i \in 1 .. 2 : m[i] \in Nat
    BY DEF Messages, MSG_LEN
<1>5. m \in Seq(Nat) /\ Len(m) = 2
    <2>1. [i \in 1 .. 2 |-> m[i]] \in Seq(Nat) /\ Len([i \in 1 .. 2 |-> m[i]]) = 2
        <3>1. 2 \in Nat
            OBVIOUS
        <3> QED BY <3>1, <1>4
    <2> QED BY <1>4, <2>1
<1>6. a \in Seq(Nat) /\ Len(a) = 2
    BY <1>1, <1>5
<1>7. a = b
    BY <1>1, <1>3, <1>6, SeqEqual
<1> QED BY <1>1, <1>5, <1>7 DEF MSG_LEN

LEMMA FirstLast ==
    ASSUME NEW x \in Nat, NEW y \in Nat, x >= 1, y > x
    PROVE  x - 1 \in Nat /\ (x - 1) + 1 = x /\ y \in x .. y
    OBVIOUS

(* The parser found m in bytes keep + 1 .. used. *)
Parsed(r, m, keep, used) ==
    /\ r.p.end_found = TRUE /\ r.p.bytes = m /\ Len(r.p.bytes) = MSG_LEN
    /\ r.keep = keep /\ r.used = used

CarriesUpTo(bytes, a, c, m) ==
    \A e \in a .. Len(bytes) : e <= c => Carries(bytes, a, e, m, 1)

(* What the parser makes of a frame that starts where it is at rest *)
LEMMA FrameParsed ==
    ASSUME NEW bytes \in Seq(Nat), NEW m \in Messages,
           NEW a \in Nat, NEW c \in Nat, NEW l \in Nat,
           a >= 1, a <= l, Len(bytes) = l, 1 + (c - a) = FrameLen(m),
           AtRest(FwAfter(bytes, MSG_LEN)[a - 1], a - 1), CarriesUpTo(bytes, a, c, m)
    PROVE  \/ c <= l /\ Parsed(FwAfter(bytes, MSG_LEN)[l], m, a - 1, c)
           \/ /\ Running(FwAfter(bytes, MSG_LEN)[l])
              /\ FwAfter(bytes, MSG_LEN)[l].keep = a - 1
<1> DEFINE f == FwAfter(bytes, MSG_LEN)
<1>3. /\ D1(m) \in 3 .. 4 /\ D2(m) \in D1(m) + 1 .. D1(m) + 2
      /\ FrameLen(m) = D2(m) + 1 /\ FrameLen(m) \in 5 .. 7
    BY Layout DEF FrameLen
<1>4. c > a /\ c >= 1
    BY <1>3
<1>5. f[a - 1].p = FwFresh /\ f[a - 1].keep = a - 1
    BY DEF AtRest
<1>6. ASSUME NEW e \in a .. l, e <= c
      PROVE  FwIn(f[e].p, m, 1 + (e - a)) /\ f[e].keep = a - 1
    <2>1. Carries(bytes, a, e, m, 1)
        BY <1>6 DEF CarriesUpTo
    <2>2. \A i \in a .. e : FwIn(f[i].p, m, 1 + (i - a)) /\ f[i].keep = a - 1
        BY <1>5, <2>1, FrameAlong
    <2>3. e \in a .. e
        OBVIOUS
    <2> QED BY <2>2, <2>3
<1>7. ASSUME NEW i \in a .. l, i < c
      PROVE  f[i].p.end_found = FALSE /\ f[i].keep = a - 1
    <2>1. FwIn(f[i].p, m, 1 + (i - a)) /\ f[i].keep = a - 1
        BY <1>6, <1>7
    <2>2. 1 + (i - a) # FrameLen(m)
        BY <1>7
    <2>3. f[i].p.end_found \in BOOLEAN
        BY <2>1 DEF FwIn, FwStates
    <2> QED BY <2>1, <2>2, <2>3 DEF FwIn
<1>8. CASE c <= l
    <2>1. c \in a .. l
        BY <1>4, <1>8
    <2>2. FwIn(f[c].p, m, FrameLen(m)) /\ f[c].keep = a - 1
        BY <1>6, <2>1
    <2>3. f[c].p.end_found \in BOOLEAN
        BY <2>2 DEF FwIn, FwStates
    <2>4. f[c].p.end_found = TRUE
        BY <2>2, <2>3 DEF FwIn
    <2>5. f[c].p.bytes = <<m[1], m[2]>>
        <3>1. ~(FrameLen(m) < D1(m)) /\ ~(FrameLen(m) < D2(m))
            BY <1>3
        <3> QED BY <2>2, <3>1 DEF FwIn
    <2>6. f[c].used = c
        <3> PICK e : e = c - 1
            OBVIOUS
        <3>2. /\ e \in Nat /\ e + 1 = c /\ e \in a .. l /\ e < c
              /\ e \in 0 .. l /\ c \in 1 .. l
            BY <1>4, <1>8
        <3>3. f[e].p.end_found = FALSE
            BY <1>7, <3>2
        <3>4. FwSound(f[e], e)
            BY <3>2, FwSoundAll
        <3>5. f[c] = FwNext(f[c - 1], bytes[c], MSG_LEN)
            BY <3>2, FwSteps
        <3>6. bytes[c] \in Nat
            BY <3>2, ElementOfSeq
        <3>7. FwNext(f[e], bytes[c], MSG_LEN).used = e + 1
            <4> HIDE DEF f
            <4> QED BY <3>2, <3>3, <3>4, <3>6, FwSoundNext
        <3> QED BY <3>2, <3>5, <3>7
    <2>7. f[l] = f[c]
        <3>1. c \in 0 .. l /\ l \in c .. l
            BY <1>4, <2>1
        <3> QED BY <2>4, <3>1, FwStays
    <2>8. /\ f[c].p.bytes = m /\ Len(f[c].p.bytes) = MSG_LEN
        BY <2>5, MessageIs
    <2> QED BY <1>8, <2>2, <2>4, <2>6, <2>7, <2>8 DEF Parsed
<1>9. CASE ~(c <= l)
    <2>1. l \in a .. l /\ l < c
        BY <1>9
    <2> QED BY <1>7, <2>1 DEF Running
<1> QED BY <1>8, <1>9

LEMMA FrameMet ==
    ASSUME NEW bytes \in Seq(Nat), NEW m \in Messages,
           NEW a \in Nat, NEW c \in Nat,
           a >= 1, a <= Len(bytes), 1 + (c - a) = FrameLen(m),
           AtRest(FwAfter(bytes, MSG_LEN)[a - 1], a - 1), CarriesUpTo(bytes, a, c, m)
    PROVE  \/ Parsed(FwParse(bytes, MSG_LEN), m, a - 1, c)
           \/ Running(FwParse(bytes, MSG_LEN)) /\ FwParse(bytes, MSG_LEN).keep = a - 1
<1> PICK l \in Nat : l = Len(bytes)
    OBVIOUS
<1>1. FwAfter(bytes, MSG_LEN)[l] = FwParse(bytes, MSG_LEN)
    BY DEF FwParse
<1>2. \/ c <= l /\ Parsed(FwAfter(bytes, MSG_LEN)[l], m, a - 1, c)
      \/ /\ Running(FwAfter(bytes, MSG_LEN)[l])
         /\ FwAfter(bytes, MSG_LEN)[l].keep = a - 1
    BY FrameParsed
<1> QED BY <1>1, <1>2

LEMMA FrontTypes ==
    ASSUME NEW s \in Lines, NEW bytes, FrontOf(bytes, s)
    PROVE  /\ bytes \in Seq(Nat) /\ Len(bytes) \in Nat /\ Len(s) \in Nat
           /\ Len(bytes) <= Len(s)
<1>1. bytes \in Seq(Nat) /\ Len(bytes) <= Len(s)
    BY DEF FrontOf
<1>2. Len(s) \in Nat
    BY DEF Lines
<1> QED BY <1>1, <1>2

(* The frame of which byte a of the line is the first, as far as it goes *)
LEMMA BlockCarriesUpTo ==
    ASSUME NEW s \in Lines, NEW pos, NEW msgs \in Seq(Messages), NEW lost,
           Placed(s, pos, msgs, lost), NEW bytes, FrontOf(bytes, s),
           NEW a \in 1 .. Len(bytes), NEW c \in Nat, pos[a] = 1,
           \A i \in a .. c : s[i][2] = s[a][2] /\ pos[i] = 1 + (i - a)
    PROVE  CarriesUpTo(bytes, a, c, msgs[s[a][2]])
<1> SUFFICES ASSUME NEW e \in a .. Len(bytes), e <= c
             PROVE  Carries(bytes, a, e, msgs[s[a][2]], 1)
    BY DEF CarriesUpTo
<1>0. Len(bytes) \in Nat /\ a \in Nat /\ a >= 1
    BY FrontTypes
<1>1. e \in 1 .. Len(bytes) /\ a \in 1 .. e /\ e \in a .. c
    BY <1>0
<1>2. \A i \in a .. e : i \in a .. c
    BY <1>0
<1>3. s[e][2] = s[a][2]
    BY <1>1
<1>4. \A i \in a .. e : s[i][2] = s[e][2] /\ pos[i] = pos[a] + (i - a)
    BY <1>2, <1>3
<1>5. Carries(bytes, a, e, msgs[s[e][2]], pos[a])
    BY <1>1, <1>4, BlockCarries
<1> QED BY <1>3, <1>5

(* Main got frame n: bytes keep + 1 .. used are all of it. *)
Got(r, s, pos, msgs, n) ==
    /\ r.p.end_found = TRUE /\ r.p.bytes = msgs[n] /\ Len(r.p.bytes) = MSG_LEN
    /\ r.keep \in Nat /\ r.used \in r.keep + 1 .. Len(s)
    /\ \A i \in r.keep + 1 .. r.used : s[i][2] = n
    /\ pos[r.used] = FrameLen(msgs[n])

(* What main makes of a frame that starts where the parser starts over *)
LEMMA FrameRead ==
    ASSUME NEW s \in Lines, NEW pos, NEW msgs \in Seq(Messages), NEW lost,
           Placed(s, pos, msgs, lost), NEW bytes, FrontOf(bytes, s),
           NEW a \in Nat, a - 1 \in 0 .. Len(bytes), a \in 1 .. Len(bytes),
           s[a][2] \notin lost, pos[a] = 1,
           Running(FwAfter(bytes, MSG_LEN)[a - 1]),
           Behind(s, pos, msgs, lost, a - 1)
    PROVE  \/ /\ Got(FwParse(bytes, MSG_LEN), s, pos, msgs, s[a][2])
              /\ FwParse(bytes, MSG_LEN).keep = a - 1
           \/ /\ Running(FwParse(bytes, MSG_LEN))
              /\ FwParse(bytes, MSG_LEN).keep = a - 1
<1> PICK r : r = FwParse(bytes, MSG_LEN)
    OBVIOUS
<1> PICK m : m = msgs[s[a][2]]
    OBVIOUS
<1> PICK c : c = (a + FrameLen(m)) - 1
    OBVIOUS
<1>0. /\ bytes \in Seq(Nat) /\ Len(bytes) \in Nat /\ Len(s) \in Nat
      /\ Len(bytes) <= Len(s)
    BY FrontTypes
<1>1. a \in 1 .. Len(s) /\ a >= 1 /\ a <= Len(bytes)
    BY <1>0
<1>2. m \in Messages /\ FrameLen(m) \in 5 .. 7
    <2>1. msgs[s[a][2]] \in Messages
        BY <1>1, PlacedTypes
    <2> QED BY <2>1, Layout
<1>3. c \in Nat /\ 1 + (c - a) = FrameLen(m) /\ c > a
    BY <1>2, SMTT(60)
<1>4. /\ c \in a .. Len(s)
      /\ \A i \in a .. c : s[i][2] = s[a][2] /\ pos[i] = 1 + (i - a)
    <2>1. c = (a + FrameLen(msgs[s[a][2]])) - 1
        OBVIOUS
    <2> QED BY <1>1, <2>1, BlockOn
<1>5. AtRest(FwAfter(bytes, MSG_LEN)[a - 1], a - 1)
    BY RestBefore
<1>6. CarriesUpTo(bytes, a, c, m)
    <2>1. CarriesUpTo(bytes, a, c, msgs[s[a][2]])
        BY <1>3, <1>4, BlockCarriesUpTo
    <2> QED BY <2>1
<1>7. \/ Parsed(r, m, a - 1, c)
      \/ Running(r) /\ r.keep = a - 1
    <2>1. \/ Parsed(FwParse(bytes, MSG_LEN), m, a - 1, c)
          \/ /\ Running(FwParse(bytes, MSG_LEN))
             /\ FwParse(bytes, MSG_LEN).keep = a - 1
        BY <1>0, <1>1, <1>2, <1>3, <1>5, <1>6, FrameMet
    <2> QED BY <2>1
<1>8. Parsed(r, m, a - 1, c) => Got(r, s, pos, msgs, s[a][2])
    <2> HAVE Parsed(r, m, a - 1, c)
    <2>1. /\ r.p.end_found = TRUE /\ r.p.bytes = m /\ Len(r.p.bytes) = MSG_LEN
          /\ r.keep = a - 1 /\ r.used = c
        BY DEF Parsed
    <2>2. a - 1 \in Nat /\ (a - 1) + 1 = a /\ c \in a .. c
        BY <1>1, <1>3, FirstLast
    <2>3. pos[c] = FrameLen(m)
        BY <1>3, <1>4, <2>2
    <2> QED BY <1>4, <2>1, <2>2, <2>3 DEF Got
<1>9. Parsed(r, m, a - 1, c) => r.keep = a - 1
    BY DEF Parsed
<1> QED BY <1>7, <1>8, <1>9

(* The frame before one of which no byte is lost, if it lost none either *)
LEMMA BehindIs ==
    ASSUME NEW s \in Lines, NEW pos, NEW msgs \in Seq(Messages), NEW lost,
           Placed(s, pos, msgs, lost), NEW e \in 1 .. Len(s) - 1,
           s[e][2] < s[e + 1][2], s[e + 1][2] - 1 \notin lost
    PROVE  Behind(s, pos, msgs, lost, e)
<1>0. Len(s) \in Nat
    BY DEF Lines
<1>1. e \in 1 .. Len(s) /\ e + 1 \in 1 .. Len(s)
    BY <1>0
<1>2. PICK y \in Nat, n \in Nat : y = s[e][2] /\ n = s[e + 1][2]
    <2>1. s[e][2] \in Nat
        BY <1>1, PlacedTypes
    <2>2. s[e + 1][2] \in Nat
        BY <1>1, PlacedTypes
    <2> QED BY <2>1, <2>2
<1>3. Follows(s, pos, msgs, lost, e)
    BY DEF Placed
<1>4. /\ y < n
      /\ y \notin lost => pos[e] = FrameLen(msgs[s[e][2]])
      /\ \A k \in y + 1 .. n - 1 : k \in lost
    BY <1>2, <1>3 DEF Follows
<1>5. y = n - 1
    <2>1. n - 1 \notin lost
        BY <1>2
    <2>2. n - 1 \notin y + 1 .. n - 1
        BY <1>4, <2>1
    <2> QED BY <1>4, <2>2
<1> QED BY <1>2, <1>4, <1>5 DEF Behind

(* Where the frame of byte e of the line begins, when neither it nor the    *)
(* one before lost a byte                                                   *)
Begins(s, pos, msgs, lost, e, a) ==
    /\ a \in 1 .. e /\ pos[a] = 1 /\ s[a][2] = s[e][2]
    /\ Behind(s, pos, msgs, lost, a - 1)

LEMMA BeginsAt ==
    ASSUME NEW s \in Lines, NEW pos, NEW msgs \in Seq(Messages), NEW lost,
           Placed(s, pos, msgs, lost), NEW e \in 1 .. Len(s),
           s[e][2] \notin lost, s[e][2] - 1 \notin lost,
           s[1][2] = s[e][2] => pos[1] = 1
    PROVE  \E a \in 1 .. e : Begins(s, pos, msgs, lost, e, a)
<1>0. Len(s) \in Nat
    BY DEF Lines
<1>1. PICK a \in 1 .. e :
        /\ \A i \in a .. e : s[i][2] = s[e][2] /\ pos[i] = pos[a] + (i - a)
        /\ \/ a = 1
           \/ /\ a > 1 /\ s[a - 1][2] < s[e][2] /\ pos[a] = 1
              /\ Follows(s, pos, msgs, lost, a - 1)
    BY BlockBack
<1>2. s[a][2] = s[e][2]
    <2>1. a \in a .. e
        BY <1>0
    <2> QED BY <1>1, <2>1
<1>3. pos[a] = 1
    BY <1>1, <1>2
<1>4. Behind(s, pos, msgs, lost, a - 1)
    <2>1. CASE a = 1
        BY <2>1 DEF Behind
    <2>2. CASE a # 1
        <3> PICK b : b = a - 1
            OBVIOUS
        <3>1. b \in 1 .. Len(s) - 1 /\ b + 1 = a
            BY <1>0, <2>2
        <3>2. s[b][2] < s[b + 1][2] /\ s[b + 1][2] - 1 \notin lost
            BY <1>1, <1>2, <2>2, <3>1
        <3>3. Behind(s, pos, msgs, lost, b)
            BY <3>1, <3>2, BehindIs
        <3> QED BY <3>3
    <2> QED BY <2>1, <2>2
<1> QED BY <1>2, <1>3, <1>4 DEF Begins

(* What main takes of the line stops short of byte a, or takes it all. *)
LEMMA ParsedTo ==
    ASSUME NEW bytes \in Seq(Nat), NEW r, r = FwParse(bytes, MSG_LEN)
    PROVE  /\ FwSound(r, Len(bytes)) /\ r.used \in Nat /\ r.keep \in Nat
           /\ FwConsumed(r) \in 0 .. Len(bytes) /\ r.p.end_found \in BOOLEAN
<1>1. Len(bytes) \in Nat
    OBVIOUS
<1>2. FwSound(r, Len(bytes))
    <2>1. Len(bytes) \in 0 .. Len(bytes)
        BY <1>1
    <2> QED BY <2>1, FwSoundAll DEF FwParse
<1>3. /\ r.used \in Nat /\ r.keep \in Nat /\ r.used <= Len(bytes) /\ r.keep <= r.used
      /\ r.p.end_found \in BOOLEAN
    BY <1>2 DEF FwSound, FwResults, FwStates
<1>4. r.used \in 0 .. Len(bytes) /\ r.keep \in 0 .. Len(bytes)
    BY <1>1, <1>3
<1> QED BY <1>2, <1>3, <1>4 DEF FwConsumed

LEMMA RunningBefore ==
    ASSUME NEW bytes \in Seq(Nat), NEW r, r = FwParse(bytes, MSG_LEN),
           NEW b \in 0 .. Len(bytes), b < FwConsumed(r)
    PROVE  Running(FwAfter(bytes, MSG_LEN)[b])
<1> PICK q : q = FwAfter(bytes, MSG_LEN)[b]
    OBVIOUS
<1>0. Len(bytes) \in Nat /\ Len(bytes) \in b .. Len(bytes)
    OBVIOUS
<1>1. FwSound(q, b)
    BY FwSoundAll
<1>2. q.used \in Nat /\ q.used <= b /\ q.p.end_found \in BOOLEAN
    BY <1>1 DEF FwSound, FwResults, FwStates
<1>3. ASSUME q.p.end_found = TRUE
      PROVE  FALSE
    <2>1. r = q
        <3>1. FwAfter(bytes, MSG_LEN)[b].p.end_found = TRUE
            BY <1>3
        <3>2. \A i \in b .. Len(bytes) :
                FwAfter(bytes, MSG_LEN)[i] = FwAfter(bytes, MSG_LEN)[b]
            BY <3>1, FwStays
        <3> QED BY <1>0, <3>2 DEF FwParse
    <2>2. FwConsumed(r) = q.used
        BY <1>3, <2>1 DEF FwConsumed
    <2> QED BY <1>2, <2>2
<1> QED BY <1>2, <1>3 DEF Running

(* A frame that lost nothing, behind one that lost nothing, is got. *)
LEMMA FrameTaken ==
    ASSUME NEW s \in Lines, NEW pos, NEW msgs \in Seq(Messages), NEW lost,
           Placed(s, pos, msgs, lost), NEW bytes, FrontOf(bytes, s),
           NEW e \in Nat, e >= 1, e <= FwConsumed(FwParse(bytes, MSG_LEN)),
           s[e][2] \notin lost, s[e][2] - 1 \notin lost,
           s[1][2] = s[e][2] => pos[1] = 1
    PROVE  Got(FwParse(bytes, MSG_LEN), s, pos, msgs, s[e][2])
<1> PICK r : r = FwParse(bytes, MSG_LEN)
    OBVIOUS
<1>0. /\ bytes \in Seq(Nat) /\ Len(bytes) \in Nat /\ Len(s) \in Nat
      /\ Len(bytes) <= Len(s)
    BY FrontTypes
<1>1. FwConsumed(r) \in 0 .. Len(bytes)
    BY <1>0, ParsedTo
<1>2. e \in 1 .. Len(s)
    BY <1>0, <1>1
<1>3. PICK a \in 1 .. e : Begins(s, pos, msgs, lost, e, a)
    BY <1>2, BeginsAt
<1>4. /\ a \in Nat /\ a - 1 \in 0 .. Len(bytes) /\ a \in 1 .. Len(bytes)
      /\ a - 1 < FwConsumed(r)
    BY <1>0, <1>1
<1>5. /\ s[a][2] = s[e][2] /\ s[a][2] \notin lost /\ pos[a] = 1
      /\ Behind(s, pos, msgs, lost, a - 1)
    BY <1>3 DEF Begins
<1>6. Running(FwAfter(bytes, MSG_LEN)[a - 1])
    BY <1>0, <1>4, RunningBefore
<1>7. \/ Got(FwParse(bytes, MSG_LEN), s, pos, msgs, s[a][2])
      \/ /\ Running(FwParse(bytes, MSG_LEN))
         /\ FwParse(bytes, MSG_LEN).keep = a - 1
    BY <1>4, <1>5, <1>6, FrameRead
<1>8. ~(Running(r) /\ r.keep = a - 1)
    <2>1. Running(r) => FwConsumed(r) = r.keep
        BY DEF Running, FwConsumed
    <2> QED BY <1>4, <2>1
<1> QED BY <1>5, <1>7, <1>8

(* t is s without its first d bytes. *)
Dropped(t, s, d) ==
    /\ d \in 0 .. Len(s) /\ Len(t) = Len(s) - d
    /\ \A i \in 1 .. Len(t) : t[i] = s[i + d]

(* t is s without byte d. *)
Skipped(t, s, d) ==
    /\ Len(t) = Len(s) - 1
    /\ \A i \in 1 .. Len(t) : t[i] = IF i < d THEN s[i] ELSE s[i + 1]

(* A frame that lost nothing, behind one that lost nothing, is in the line  *)
(* from its first byte on, or not at all; then it was run.                  *)
FirstWhole(s, pos, lost) ==
    /\ s # <<>> /\ s[1][2] \notin lost /\ s[1][2] - 1 \notin lost
    => pos[1] = 1

Tags(s) == {s[i][2] : i \in 1 .. Len(s)}

RunOnceGone(s, msgs, lost, runs) ==
    \A n \in 1 .. Len(msgs) :
        n \notin Tags(s) /\ n \notin lost /\ n - 1 \notin lost =>
            \E i \in 1 .. Len(runs) : runs[i].from = {n}

Kept(s, msgs, lost, runs) ==
    /\ \E pos : Placed(s, pos, msgs, lost) /\ FirstWhole(s, pos, lost)
    /\ RunOnceGone(s, msgs, lost, runs)

LEMMA DroppedTypes ==
    ASSUME NEW s \in Lines, NEW t \in Lines, NEW d, Dropped(t, s, d)
    PROVE  /\ Len(s) \in Nat /\ Len(t) \in Nat /\ d \in Nat /\ d <= Len(s)
           /\ Len(t) = Len(s) - d
           /\ t # <<>> => 1 \in 1 .. Len(t) /\ d + 1 \in 1 .. Len(s) /\ t[1] = s[d + 1]
<1>1. Len(s) \in Nat /\ Len(t) \in Nat
    BY DEF Lines
<1>2. d \in Nat /\ d <= Len(s) /\ Len(t) = Len(s) - d
    BY <1>1 DEF Dropped
<1>3. ASSUME t # <<>>
      PROVE  1 \in 1 .. Len(t) /\ d + 1 \in 1 .. Len(s) /\ t[1] = s[d + 1]
    <2>1. Len(t) # 0
        BY <1>3, EmptySeq DEF Lines
    <2>2. 1 \in 1 .. Len(t) /\ d + 1 \in 1 .. Len(s)
        BY <1>1, <1>2, <2>1
    <2>3. t[1] = s[1 + d] /\ 1 + d = d + 1
        BY <1>2, <2>2 DEF Dropped
    <2> QED BY <2>2, <2>3
<1> QED BY <1>1, <1>2, <1>3

LEMMA PlacedDropped ==
    ASSUME NEW s \in Lines, NEW pos, NEW msgs, NEW lost,
           Placed(s, pos, msgs, lost), NEW t \in Lines, NEW d, Dropped(t, s, d)
    PROVE  Placed(t, [i \in 1 .. Len(t) |-> pos[i + d]], msgs, lost)
    BY PlacedDrop DEF Dropped

(* The front of the line is gone; its frames are harmed. *)
LEMMA KeptDrop ==
    ASSUME NEW s \in Lines, NEW msgs \in Seq(Messages), NEW lost, NEW runs,
           Kept(s, msgs, lost, runs),
           NEW t \in Lines, NEW d, Dropped(t, s, d),
           NEW more, lost \subseteq more, \A i \in 1 .. d : s[i][2] \in more
    PROVE  Kept(t, msgs, more, runs)
<1>0. /\ Len(s) \in Nat /\ Len(t) \in Nat /\ d \in Nat /\ d <= Len(s)
      /\ t # <<>> => 1 \in 1 .. Len(t) /\ d + 1 \in 1 .. Len(s) /\ t[1] = s[d + 1]
    BY DroppedTypes
<1>1. PICK pos : Placed(s, pos, msgs, lost) /\ FirstWhole(s, pos, lost)
    BY DEF Kept
<1> PICK q : q = [i \in 1 .. Len(t) |-> pos[i + d]]
    OBVIOUS
<1>2. Placed(t, q, msgs, more)
    BY <1>1, PlacedDropped, PlacedMoreLost
<1>3. FirstWhole(t, q, more)
    <2> SUFFICES ASSUME t # <<>>, t[1][2] \notin more, t[1][2] - 1 \notin more
                 PROVE  q[1] = 1
        BY DEF FirstWhole
    <2>1. q[1] = pos[d + 1] /\ t[1] = s[d + 1] /\ d + 1 \in 1 .. Len(s)
        BY <1>0
    <2>2. CASE d = 0
        <3>1. s # <<>>
            BY <1>0, <2>1 DEF Lines
        <3>2. s[1][2] \notin lost /\ s[1][2] - 1 \notin lost
            BY <2>1, <2>2
        <3> QED BY <1>1, <2>1, <2>2, <3>1, <3>2 DEF FirstWhole
    <2>3. CASE d # 0
        <3>1. d \in 1 .. Len(s) - 1 /\ d \in 1 .. d
            BY <1>0, <2>1, <2>3
        <3>2. s[d][2] \in more /\ s[d + 1][2] \notin more
            BY <2>1, <3>1
        <3>3. Follows(s, pos, msgs, lost, d)
            BY <1>1, <3>1 DEF Placed
        <3> QED BY <2>1, <3>2, <3>3 DEF Follows
    <2> QED BY <2>2, <2>3
<1>4. RunOnceGone(t, msgs, more, runs)
    <2> SUFFICES ASSUME NEW n \in 1 .. Len(msgs), n \notin Tags(t),
                        n \notin more, n - 1 \notin more
                 PROVE  \E i \in 1 .. Len(runs) : runs[i].from = {n}
        BY DEF RunOnceGone
    <2>1. n \notin Tags(s)
        <3> SUFFICES ASSUME NEW i \in 1 .. Len(s), s[i][2] = n
                     PROVE  FALSE
            BY DEF Tags
        <3>1. ~(i <= d)
            BY <1>0
        <3>2. i - d \in 1 .. Len(t) /\ t[i - d] = s[(i - d) + d] /\ (i - d) + d = i
            BY <1>0, <3>1 DEF Dropped
        <3> QED BY <3>2 DEF Tags
    <2> QED BY <2>1 DEF Kept, RunOnceGone
<1> QED BY <1>2, <1>3, <1>4 DEF Kept

(* One byte is not received; its frame is harmed. *)
LEMMA KeptSkip ==
    ASSUME NEW s \in Lines, NEW msgs \in Seq(Messages), NEW lost, NEW runs,
           Kept(s, msgs, lost, runs), NEW d \in 1 .. Len(s),
           NEW t \in Lines, Skipped(t, s, d),
           NEW more, more = lost \cup {s[d][2]}
    PROVE  Kept(t, msgs, more, runs)
<1>s. /\ Len(t) = Len(s) - 1
      /\ \A i \in 1 .. Len(t) : t[i] = IF i < d THEN s[i] ELSE s[i + 1]
    BY DEF Skipped
<1> USE <1>s
<1>0. Len(s) \in Nat /\ Len(t) \in Nat /\ d \in Nat /\ d >= 1 /\ d <= Len(s)
    BY SMTT(60) DEF Lines
<1>1. PICK pos : Placed(s, pos, msgs, lost) /\ FirstWhole(s, pos, lost)
    BY DEF Kept
<1> PICK q : q = [i \in 1 .. Len(t) |-> IF i < d THEN pos[i] ELSE pos[i + 1]]
    OBVIOUS
<1>2. Placed(t, q, msgs, more)
    <2>1. Placed(s, pos, msgs, more)
        BY <1>1, PlacedMoreLost
    <2>2. s[d][2] \in more
        OBVIOUS
    <2> QED BY <2>1, <2>2, PlacedSkip, ZenonT(60)
<1>3. FirstWhole(t, q, more)
    <2> SUFFICES ASSUME t # <<>>, t[1][2] \notin more, t[1][2] - 1 \notin more
                 PROVE  q[1] = 1
        BY DEF FirstWhole
    <2>0. Len(t) # 0
        BY EmptySeq DEF Lines
    <2>1. 1 \in 1 .. Len(t) /\ Len(s) >= 2 /\ s # <<>>
        BY <1>0, <2>0 DEF Lines
    <2>2. CASE d > 1
        <3>1. q[1] = pos[1] /\ t[1] = s[1]
            BY <1>0, <2>1, <2>2
        <3> QED BY <1>1, <2>1, <3>1 DEF FirstWhole
    <2>3. CASE d = 1
        <3>1. q[1] = pos[2] /\ t[1] = s[2]
            BY <1>0, <2>1, <2>3
        <3>2. 1 \in 1 .. Len(s) - 1 /\ 1 + 1 = 2
            BY <1>0, <2>1
        <3>3. Follows(s, pos, msgs, lost, 1)
            BY <1>1, <3>2 DEF Placed
        <3>4. s[2][2] \notin lost /\ s[2][2] # s[1][2]
            BY <2>3, <3>1
        <3> QED BY <3>1, <3>2, <3>3, <3>4 DEF Follows
    <2> QED BY <1>0, <2>2, <2>3
<1>4. RunOnceGone(t, msgs, more, runs)
    <2> SUFFICES ASSUME NEW n \in 1 .. Len(msgs), n \notin Tags(t),
                        n \notin more, n - 1 \notin more
                 PROVE  \E i \in 1 .. Len(runs) : runs[i].from = {n}
        BY DEF RunOnceGone
    <2>1. n \notin Tags(s)
        <3> SUFFICES ASSUME NEW i \in 1 .. Len(s), s[i][2] = n
                     PROVE  FALSE
            BY DEF Tags
        <3>1. i # d
            OBVIOUS
        <3>2. CASE i < d
            <4>1. i \in 1 .. Len(t) /\ t[i] = s[i]
                BY <1>0, <3>2
            <4> QED BY <4>1 DEF Tags
        <3>3. CASE ~(i < d)
            <4>1. i - 1 \in 1 .. Len(t) /\ ~(i - 1 < d) /\ (i - 1) + 1 = i
                BY <1>0, <3>1, <3>3
            <4>2. t[i - 1] = s[i]
                BY <4>1
            <4> QED BY <4>1, <4>2 DEF Tags
        <3> QED BY <3>2, <3>3
    <2> QED BY <2>1 DEF Kept, RunOnceGone
<1> QED BY <1>2, <1>3, <1>4 DEF Kept

(* A frame is sent. *)
LEMMA KeptAppend ==
    ASSUME NEW s \in Lines, NEW msgs \in Seq(Messages), NEW lost, NEW runs,
           Kept(s, msgs, lost, runs), NEW m \in Messages,
           NEW more \in Seq(Messages), more = Append(msgs, m),
           NEW t \in Lines, Extended(t, s, m, Len(more))
    PROVE  Kept(t, more, lost, runs)
<1>h. /\ Len(t) = Len(s) + FrameLen(m)
      /\ \A i \in 1 .. Len(s) : t[i] = s[i]
      /\ \A j \in 1 .. FrameLen(m) :
           t[Len(s) + j] = <<FrameByte(CONTROL, m, j), Len(more)>>
    BY DEF Extended
<1>0. /\ Len(s) \in Nat /\ Len(t) \in Nat /\ FrameLen(m) \in 5 .. 7
      /\ Len(msgs) \in Nat /\ Len(more) = Len(msgs) + 1
    BY <1>h, Layout DEF Lines
<1>1. PICK pos : Placed(s, pos, msgs, lost) /\ FirstWhole(s, pos, lost)
    BY DEF Kept
<1> PICK q : q = [i \in 1 .. Len(t) |-> IF i <= Len(s) THEN pos[i] ELSE i - Len(s)]
    OBVIOUS
<1>2. Placed(t, q, more, lost)
    BY <1>1, PlacedAppend
<1>3. FirstWhole(t, q, lost)
    <2> SUFFICES ASSUME t # <<>>, t[1][2] \notin lost, t[1][2] - 1 \notin lost
                 PROVE  q[1] = 1
        BY DEF FirstWhole
    <2>0. 1 \in 1 .. Len(t)
        BY <1>0, <1>h
    <2>1. CASE s = <<>>
        <3>1. Len(s) = 0
            BY <2>1
        <3> QED BY <1>0, <1>h, <2>0, <3>1
    <2>2. CASE s # <<>>
        <3>1. Len(s) # 0
            BY <2>2, EmptySeq DEF Lines
        <3>2. 1 \in 1 .. Len(s) /\ 1 <= Len(s)
            BY <1>0, <1>h, <3>1
        <3>3. q[1] = pos[1] /\ t[1] = s[1]
            BY <1>h, <2>0, <3>2
        <3> QED BY <1>1, <2>2, <3>3 DEF FirstWhole
    <2> QED BY <2>1, <2>2
<1>4. RunOnceGone(t, more, lost, runs)
    <2> SUFFICES ASSUME NEW n \in 1 .. Len(more), n \notin Tags(t),
                        n \notin lost, n - 1 \notin lost
                 PROVE  \E i \in 1 .. Len(runs) : runs[i].from = {n}
        BY DEF RunOnceGone
    <2>1. n \notin Tags(s)
        <3> SUFFICES ASSUME NEW i \in 1 .. Len(s), s[i][2] = n
                     PROVE  FALSE
            BY DEF Tags
        <3>1. i \in 1 .. Len(t) /\ t[i] = s[i]
            BY <1>0, <1>h
        <3> QED BY <3>1 DEF Tags
    <2>2. n # Len(more)
        <3>1. Len(s) + 1 \in 1 .. Len(t) /\ 1 \in 1 .. FrameLen(m)
            BY <1>0, <1>h
        <3>2. t[Len(s) + 1][2] = Len(more)
            BY <1>h, <3>1
        <3> QED BY <3>1, <3>2 DEF Tags
    <2>3. n \in 1 .. Len(msgs)
        BY <1>0, <1>h, <2>2
    <2> QED BY <2>1, <2>3 DEF Kept, RunOnceGone
<1> QED BY <1>2, <1>3, <1>4 DEF Kept

(* The frames of which main took bytes for the message it found *)
Between(s, k, l) == {s[i][2] : i \in k + 1 .. l}

From(r, s) == Between(s, r.keep, FwConsumed(r))

LEMMA GotFrom ==
    ASSUME NEW r, NEW s \in Lines, NEW pos, NEW msgs, NEW n,
           Got(r, s, pos, msgs, n)
    PROVE  /\ Whole(r) /\ FwConsumed(r) = r.used /\ From(r, s) = {n}
           /\ r.p.bytes = msgs[n]
<1>0. Len(s) \in Nat
    BY DEF Lines
<1>1. /\ Whole(r) /\ FwConsumed(r) = r.used /\ r.p.bytes = msgs[n]
    BY DEF Got, Whole, FwConsumed
<1>2. PICK k \in Nat, u \in Nat : k = r.keep /\ u = r.used /\ u \in k + 1 .. u
    BY <1>0 DEF Got
<1>3. \A i \in k + 1 .. u : s[i][2] = n
    BY <1>2 DEF Got
<1>4. {s[i][2] : i \in k + 1 .. u} = {n}
    BY <1>2, <1>3
<1> QED BY <1>1, <1>2, <1>4 DEF From, Between

Recorded(more, runs, r, s) ==
    /\ Whole(r) => /\ Len(more) = Len(runs) + 1
                   /\ \A i \in 1 .. Len(runs) : more[i] = runs[i]
                   /\ more[Len(more)].from = From(r, s)
    /\ ~Whole(r) => more = runs

(* Main takes what it parsed, and runs the frame it found. *)
LEMMA KeptTake ==
    ASSUME NEW s \in Lines, NEW msgs \in Seq(Messages), NEW lost,
           NEW runs, Len(runs) \in Nat, Kept(s, msgs, lost, runs),
           NEW bytes, FrontOf(bytes, s), NEW r, r = FwParse(bytes, MSG_LEN),
           NEW t \in Lines, Dropped(t, s, FwConsumed(r)),
           NEW more,
           Recorded(more, runs, r, s)
    PROVE  Kept(t, msgs, lost, more)
<1> PICK d : d = FwConsumed(r)
    OBVIOUS
<1>d. Dropped(t, s, d)
    OBVIOUS
<1>0. /\ Len(s) \in Nat /\ Len(t) \in Nat /\ d \in Nat /\ d <= Len(s)
      /\ t # <<>> => 1 \in 1 .. Len(t) /\ d + 1 \in 1 .. Len(s) /\ t[1] = s[d + 1]
    BY <1>d, DroppedTypes
<1>1. PICK pos : Placed(s, pos, msgs, lost) /\ FirstWhole(s, pos, lost)
    BY DEF Kept
<1> PICK q : q = [i \in 1 .. Len(t) |-> pos[i + d]]
    OBVIOUS
<1>2. Placed(t, q, msgs, lost)
    BY <1>d, <1>1, PlacedDropped
<1>g. ASSUME NEW e \in 1 .. Len(s), e <= d, s[e][2] \notin lost, s[e][2] - 1 \notin lost
      PROVE  Got(r, s, pos, msgs, s[e][2])
    <2>1. s # <<>>
        BY <1>0
    <2>2. s[1][2] = s[e][2] => pos[1] = 1
        BY <1>g, <1>1, <2>1 DEF FirstWhole
    <2>3. e \in Nat /\ e >= 1 /\ e <= FwConsumed(FwParse(bytes, MSG_LEN))
        BY <1>0, <1>g
    <2>4. Got(FwParse(bytes, MSG_LEN), s, pos, msgs, s[e][2])
        BY <1>1, <1>g, <2>2, <2>3, FrameTaken
    <2> QED BY <2>4
<1>3. FirstWhole(t, q, lost)
    <2> SUFFICES ASSUME t # <<>>, t[1][2] \notin lost, t[1][2] - 1 \notin lost
                 PROVE  q[1] = 1
        BY DEF FirstWhole
    <2>1. q[1] = pos[d + 1] /\ t[1] = s[d + 1] /\ d + 1 \in 1 .. Len(s)
        BY <1>0
    <2>2. CASE d = 0
        <3>1. s # <<>>
            BY <1>0, <2>1 DEF Lines
        <3>2. s[1][2] \notin lost /\ s[1][2] - 1 \notin lost
            BY <2>1, <2>2
        <3> QED BY <1>1, <2>1, <2>2, <3>1, <3>2 DEF FirstWhole
    <2>3. CASE d # 0
        <3>1. d \in 1 .. Len(s) - 1 /\ d \in 1 .. Len(s)
            BY <1>0, <2>1, <2>3
        <3>2. Follows(s, pos, msgs, lost, d)
            BY <1>1, <3>1 DEF Placed
        <3>3. CASE s[d + 1][2] = s[d][2]
            <4>1. s[d][2] \notin lost /\ s[d][2] - 1 \notin lost
                BY <2>1, <3>3
            <4>2. Got(r, s, pos, msgs, s[d][2])
                BY <1>0, <1>g, <3>1, <4>1
            <4>3. pos[d] = FrameLen(msgs[s[d][2]])
                BY <4>2 DEF Got, FwConsumed
            <4>4. pos[d + 1] = pos[d] + 1
                <5>1. s[d][2] \in Nat
                    BY <1>1, <3>1, PlacedTypes
                <5> QED BY <3>2, <3>3, <4>1, <5>1 DEF Follows
            <4>5. /\ pos[d + 1] \in 1 .. FrameLen(msgs[s[d + 1][2]])
                  /\ FrameLen(msgs[s[d + 1][2]]) \in 5 .. 7
                BY <1>1, <2>1, PlacedTypes
            <4> QED BY <3>3, <4>3, <4>4, <4>5
        <3>4. CASE s[d + 1][2] # s[d][2]
            BY <2>1, <3>2, <3>4 DEF Follows
        <3> QED BY <3>3, <3>4
    <2> QED BY <2>2, <2>3
<1>4. RunOnceGone(t, msgs, lost, more)
    <2> SUFFICES ASSUME NEW n \in 1 .. Len(msgs), n \notin Tags(t),
                        n \notin lost, n - 1 \notin lost
                 PROVE  \E i \in 1 .. Len(more) : more[i].from = {n}
        BY DEF RunOnceGone
    <2>1. CASE n \notin Tags(s)
        <3>1. PICK i \in 1 .. Len(runs) : runs[i].from = {n}
            BY <2>1 DEF Kept, RunOnceGone
        <3>2. i \in 1 .. Len(more) /\ more[i] = runs[i]
            BY <3>1 DEF Recorded
        <3> QED BY <3>1, <3>2
    <2>2. CASE n \in Tags(s)
        <3>1. PICK e \in 1 .. Len(s) : s[e][2] = n
            BY <2>2 DEF Tags
        <3>2. e <= d
            <4> SUFFICES ASSUME ~(e <= d) PROVE FALSE
                OBVIOUS
            <4>1. e - d \in 1 .. Len(t) /\ t[e - d] = s[(e - d) + d] /\ (e - d) + d = e
                BY <1>0, <1>d, SMTT(60) DEF Dropped
            <4> QED BY <3>1, <4>1 DEF Tags
        <3>3. Got(r, s, pos, msgs, n)
            BY <1>g, <3>1, <3>2
        <3>4. Whole(r) /\ From(r, s) = {n}
            BY <3>3, GotFrom
        <3>5. Len(more) \in 1 .. Len(more) /\ more[Len(more)].from = {n}
            BY <3>4 DEF Recorded
        <3> QED BY <3>5
    <2> QED BY <2>1, <2>2
<1> QED BY <1>2, <1>3, <1>4 DEF Kept

(* The line is what the ring holds and what is on its way to it. *)
LEMMA LineIs ==
    ASSUME NEW a \in Lines, NEW b \in Lines
    PROVE  /\ a \o b \in Lines /\ Len(a) \in Nat /\ Len(b) \in Nat
           /\ Len(a \o b) = Len(a) + Len(b)
           /\ \A i \in 1 .. Len(a) + Len(b) :
                (a \o b)[i] = IF i <= Len(a) THEN a[i] ELSE b[i - Len(a)]
    BY ConcatProperties DEF Lines

LEMMA OwnersAre ==
    ASSUME NEW a \in Lines
    PROVE  Owners(a) = Tags(a) /\ Owners(a) \in SUBSET Nat
<1>1. DOMAIN a = 1 .. Len(a) /\ \A i \in 1 .. Len(a) : a[i] \in Nat \X Nat
    BY DEF Lines
<1> QED BY <1>1 DEF Owners, Tags

LEMMA HeadTail ==
    ASSUME NEW b \in Lines, b # <<>>
    PROVE  /\ Head(b) = b[1] /\ Head(b) \in Nat \X Nat /\ Tail(b) \in Lines
           /\ Len(b) \in Nat \ {0} /\ Len(Tail(b)) = Len(b) - 1
           /\ \A i \in 1 .. Len(Tail(b)) : Tail(b)[i] = b[i + 1]
<1>1. /\ Head(b) \in Nat \X Nat /\ Tail(b) \in Lines /\ Len(Tail(b)) = Len(b) - 1
      /\ \A i \in 1 .. Len(Tail(b)) : Tail(b)[i] = b[i + 1]
    BY HeadTailProperties DEF Lines
<1>2. Len(b) \in Nat /\ Len(b) # 0
    BY EmptySeq DEF Lines
<1> QED BY <1>1, <1>2

(* A byte comes into the ring. *)
LEMMA LineReceived ==
    ASSUME NEW a \in Lines, NEW b \in Lines, b # <<>>
    PROVE  /\ Append(a, Head(b)) \in Lines
           /\ Append(a, Head(b)) \o Tail(b) = a \o b
<1>0. /\ Head(b) = b[1] /\ Head(b) \in Nat \X Nat /\ Tail(b) \in Lines
      /\ Len(b) \in Nat \ {0} /\ Len(Tail(b)) = Len(b) - 1
      /\ \A i \in 1 .. Len(Tail(b)) : Tail(b)[i] = b[i + 1]
    BY HeadTail
<1> PICK c : c = Append(a, Head(b))
    OBVIOUS
<1>1. c \in Lines /\ Len(c) = Len(a) + 1 /\ Len(a) \in Nat
      /\ \A i \in 1 .. Len(a) + 1 : c[i] = IF i <= Len(a) THEN a[i] ELSE b[1]
    BY <1>0, AppendProperties DEF Lines
<1>2. /\ c \o Tail(b) \in Lines /\ Len(c \o Tail(b)) = Len(c) + Len(Tail(b))
      /\ \A i \in 1 .. Len(c) + Len(Tail(b)) :
           (c \o Tail(b))[i] = IF i <= Len(c) THEN c[i] ELSE Tail(b)[i - Len(c)]
    BY <1>0, <1>1, LineIs
<1>3. /\ a \o b \in Lines /\ Len(a \o b) = Len(a) + Len(b)
      /\ \A i \in 1 .. Len(a) + Len(b) :
           (a \o b)[i] = IF i <= Len(a) THEN a[i] ELSE b[i - Len(a)]
    BY LineIs
<1> PICK x, y : x = c \o Tail(b) /\ y = a \o b
    OBVIOUS
<1>4. Len(x) = Len(y) /\ Len(y) = Len(a) + Len(b) /\ Len(x) = Len(c) + Len(Tail(b))
    BY <1>0, <1>1, <1>2, <1>3
<1>5. ASSUME NEW i \in 1 .. Len(a) + Len(b)
      PROVE  x[i] = y[i]
    <2>1. CASE i <= Len(a)
        <3>1. i \in 1 .. Len(a) + 1 /\ i <= Len(c) /\ i \in 1 .. Len(c) + Len(Tail(b))
            BY <1>0, <1>1, <1>4, <2>1
        <3> QED BY <1>1, <1>2, <1>3, <2>1, <3>1
    <2>2. CASE i = Len(a) + 1
        <3>1. /\ i \in 1 .. Len(a) + 1 /\ i <= Len(c) /\ i \in 1 .. Len(c) + Len(Tail(b))
              /\ ~(i <= Len(a)) /\ i - Len(a) = 1
            BY <1>0, <1>1, <1>4, <2>2
        <3> QED BY <1>1, <1>2, <1>3, <3>1
    <2>3. CASE i > Len(a) + 1
        <3>1. /\ ~(i <= Len(c)) /\ i \in 1 .. Len(c) + Len(Tail(b)) /\ ~(i <= Len(a))
              /\ i - Len(c) \in 1 .. Len(Tail(b)) /\ (i - Len(c)) + 1 = i - Len(a)
            BY <1>0, <1>1, <1>4, <2>3
        <3> QED BY <1>0, <1>2, <1>3, <3>1
    <2> QED BY <1>1, <2>1, <2>2, <2>3
<1>6. x \in Seq(Nat \X Nat) /\ y \in Seq(Nat \X Nat)
    BY <1>2, <1>3 DEF Lines
<1>7. x = y
    BY <1>4, <1>5, <1>6, SeqEqual
<1> QED BY <1>1, <1>7

(* A byte is not received. *)
LEMMA LineSkipped ==
    ASSUME NEW a \in Lines, NEW b \in Lines, b # <<>>
    PROVE  /\ a \o Tail(b) \in Lines /\ Skipped(a \o Tail(b), a \o b, Len(a) + 1)
           /\ Len(a) + 1 \in 1 .. Len(a \o b) /\ (a \o b)[Len(a) + 1] = Head(b)
<1>0. /\ Head(b) = b[1] /\ Tail(b) \in Lines
      /\ Len(b) \in Nat \ {0} /\ Len(Tail(b)) = Len(b) - 1
      /\ \A i \in 1 .. Len(Tail(b)) : Tail(b)[i] = b[i + 1]
    BY HeadTail
<1>1. /\ a \o Tail(b) \in Lines /\ Len(a) \in Nat
      /\ Len(a \o Tail(b)) = Len(a) + Len(Tail(b))
      /\ \A i \in 1 .. Len(a) + Len(Tail(b)) :
           (a \o Tail(b))[i] = IF i <= Len(a) THEN a[i] ELSE Tail(b)[i - Len(a)]
    BY <1>0, LineIs
<1>2. /\ Len(a \o b) = Len(a) + Len(b)
      /\ \A i \in 1 .. Len(a) + Len(b) :
           (a \o b)[i] = IF i <= Len(a) THEN a[i] ELSE b[i - Len(a)]
    BY LineIs
<1>3. ASSUME NEW i \in 1 .. Len(a \o Tail(b))
      PROVE  (a \o Tail(b))[i] = IF i < Len(a) + 1 THEN (a \o b)[i] ELSE (a \o b)[i + 1]
    <2>1. CASE i <= Len(a)
        <3>1. i < Len(a) + 1 /\ i \in 1 .. Len(a) + Len(b)
            BY <1>0, <1>1, <2>1
        <3> QED BY <1>1, <1>2, <2>1, <3>1
    <2>2. CASE ~(i <= Len(a))
        <3>1. /\ ~(i < Len(a) + 1) /\ i + 1 \in 1 .. Len(a) + Len(b) /\ ~(i + 1 <= Len(a))
              /\ i - Len(a) \in 1 .. Len(Tail(b)) /\ (i - Len(a)) + 1 = (i + 1) - Len(a)
            BY <1>0, <1>1, <2>2
        <3>2. (a \o b)[i + 1] = b[(i + 1) - Len(a)]
            BY <1>2, <3>1
        <3>3. (a \o Tail(b))[i] = Tail(b)[i - Len(a)]
            BY <1>1, <2>2
        <3> QED BY <1>0, <3>1, <3>2, <3>3
    <2> QED BY <2>1, <2>2
<1>4. Len(a) + 1 \in 1 .. Len(a \o b) /\ (a \o b)[Len(a) + 1] = Head(b)
    <2>1. /\ Len(a) + 1 \in 1 .. Len(a) + Len(b) /\ ~(Len(a) + 1 <= Len(a))
          /\ (Len(a) + 1) - Len(a) = 1
        BY <1>0, <1>1
    <2> QED BY <1>0, <1>2, <2>1
<1>5. Len(a \o Tail(b)) = Len(a \o b) - 1
    BY <1>0, <1>1, <1>2
<1> QED BY <1>1, <1>3, <1>4, <1>5 DEF Skipped

(* The ring's first d bytes are read. *)
LEMMA LineTaken ==
    ASSUME NEW a \in Lines, NEW b \in Lines, NEW d \in 0 .. Len(a)
    PROVE  /\ SubSeq(a, d + 1, Len(a)) \in Lines
           /\ SubSeq(a, d + 1, Len(a)) \o b \in Lines
           /\ Dropped(SubSeq(a, d + 1, Len(a)) \o b, a \o b, d)
<1> PICK c : c = SubSeq(a, d + 1, Len(a))
    OBVIOUS
<1>0. Len(a) \in Nat /\ Len(b) \in Nat /\ \A i \in 1 .. Len(a) : a[i] \in Nat \X Nat
    BY DEF Lines
<1>1. /\ c \in Lines /\ Len(c) = Len(a) - d
      /\ \A i \in 1 .. Len(c) : c[i] = a[i + d]
    <2>1. d + 1 \in Int /\ Len(a) \in Int /\ \A i \in d + 1 .. Len(a) : a[i] \in Nat \X Nat
        BY <1>0
    <2>2. /\ c \in Seq(Nat \X Nat)
          /\ Len(c) = IF d + 1 <= Len(a) THEN Len(a) - (d + 1) + 1 ELSE 0
          /\ \A i \in 1 .. Len(a) - (d + 1) + 1 : c[i] = a[(d + 1) + i - 1]
        BY <2>1, SubSeqProperties
    <2>3. Len(c) = Len(a) - d
        BY <1>0, <2>2
    <2>4. \A i \in 1 .. Len(c) : c[i] = a[i + d]
        <3> TAKE i \in 1 .. Len(c)
        <3>1. i \in 1 .. Len(a) - (d + 1) + 1 /\ (d + 1) + i - 1 = i + d
            BY <1>0, <2>3
        <3> QED BY <2>2, <3>1
    <2> QED BY <2>2, <2>3, <2>4 DEF Lines
<1>2. /\ c \o b \in Lines /\ Len(c \o b) = Len(c) + Len(b)
      /\ \A i \in 1 .. Len(c) + Len(b) :
           (c \o b)[i] = IF i <= Len(c) THEN c[i] ELSE b[i - Len(c)]
    BY <1>1, LineIs
<1>3. /\ Len(a \o b) = Len(a) + Len(b)
      /\ \A i \in 1 .. Len(a) + Len(b) :
           (a \o b)[i] = IF i <= Len(a) THEN a[i] ELSE b[i - Len(a)]
    BY LineIs
<1>n. /\ d \in Nat /\ d <= Len(a) /\ Len(c) \in Nat /\ Len(c) = Len(a) - d
      /\ Len(a) \in Nat /\ Len(b) \in Nat
    BY <1>0, <1>1
<1>4. ASSUME NEW i \in 1 .. Len(c \o b)
      PROVE  (c \o b)[i] = (a \o b)[i + d]
    <2>0. i \in 1 .. Len(c) + Len(b) /\ i + d \in 1 .. Len(a) + Len(b)
        BY <1>n, <1>2
    <2>1. CASE i <= Len(c)
        <3>1. i \in 1 .. Len(c) /\ i + d <= Len(a)
            BY <1>0, <1>1, <2>0, <2>1
        <3> QED BY <1>1, <1>2, <1>3, <2>0, <2>1, <3>1
    <2>2. CASE ~(i <= Len(c))
        <3>1. ~(i + d <= Len(a)) /\ i - Len(c) = (i + d) - Len(a)
            <4>1. i \in Nat
                BY <2>0
            <4>2. PICK x \in Nat, y \in Nat : x = Len(a) /\ y = Len(c) /\ y = x - d
                BY <1>n
            <4>3. ~(i <= y) /\ d \in Nat
                BY <1>n, <2>2, <4>2
            <4>4. ~(i + d <= x) /\ i - y = (i + d) - x
                <5>1. y = x - d
                    BY <4>2
                <5> QED BY <4>1, <4>3, <5>1
            <4> QED BY <4>2, <4>4
        <3>2. (c \o b)[i] = b[i - Len(c)]
            BY <1>2, <2>0, <2>2
        <3>3. (a \o b)[i + d] = b[(i + d) - Len(a)]
            BY <1>3, <2>0, <3>1
        <3> QED BY <3>1, <3>2, <3>3
    <2> QED BY <2>1, <2>2
<1>5. d \in 0 .. Len(a \o b) /\ Len(c \o b) = Len(a \o b) - d
    <2>1. Len(a \o b) = Len(a) + Len(b) /\ Len(c \o b) = Len(c) + Len(b)
        BY <1>2, <1>3
    <2> QED BY <1>n, <2>1
<1> QED BY <1>1, <1>2, <1>4, <1>5 DEF Dropped

LEMMA LineTakenAll ==
    ASSUME NEW a \in Lines, NEW b \in Lines
    PROVE  <<>> \in Lines /\ <<>> \o b = b /\ Dropped(b, a \o b, Len(a))
<1>1. b \in Seq(Nat \X Nat) /\ <<>> \in Lines
    BY DEF Lines
<1>2. <<>> \o b = b
    BY <1>1, ConcatEmptySeq
<1>3. Len(a) \in Nat /\ Len(b) \in Nat
    BY DEF Lines
<1>4. /\ Len(a \o b) = Len(a) + Len(b)
      /\ \A i \in 1 .. Len(a) + Len(b) :
           (a \o b)[i] = IF i <= Len(a) THEN a[i] ELSE b[i - Len(a)]
    BY LineIs
<1>5. Len(a) \in 0 .. Len(a \o b) /\ Len(b) = Len(a \o b) - Len(a)
    BY <1>3, <1>4
<1>6. ASSUME NEW i \in 1 .. Len(b)
      PROVE  b[i] = (a \o b)[i + Len(a)]
    <2>1. /\ i + Len(a) \in 1 .. Len(a) + Len(b) /\ ~(i + Len(a) <= Len(a))
          /\ (i + Len(a)) - Len(a) = i
        BY <1>3
    <2> QED BY <1>4, <2>1
<1> QED BY <1>1, <1>2, <1>5, <1>6 DEF Dropped

(* The ring runs over: what it holds is gone, and the byte that came. *)
LEMMA LineOverrun ==
    ASSUME NEW a \in Lines, NEW b \in Lines, b # <<>>
    PROVE  /\ Dropped(Tail(b), a \o b, Len(a) + 1)
           /\ \A i \in 1 .. Len(a) + 1 :
                (a \o b)[i][2] \in Owners(a) \cup {Head(b)[2]}
<1>0. /\ Head(b) = b[1] /\ Tail(b) \in Lines
      /\ Len(b) \in Nat \ {0} /\ Len(Tail(b)) = Len(b) - 1 /\ Len(a) \in Nat
      /\ \A i \in 1 .. Len(Tail(b)) : Tail(b)[i] = b[i + 1]
    BY HeadTail DEF Lines
<1>1. /\ Len(a \o b) = Len(a) + Len(b)
      /\ \A i \in 1 .. Len(a) + Len(b) :
           (a \o b)[i] = IF i <= Len(a) THEN a[i] ELSE b[i - Len(a)]
    BY LineIs
<1>2. Len(a) + 1 \in 0 .. Len(a \o b) /\ Len(Tail(b)) = Len(a \o b) - (Len(a) + 1)
    BY <1>0, <1>1
<1>3. ASSUME NEW i \in 1 .. Len(Tail(b))
      PROVE  Tail(b)[i] = (a \o b)[i + (Len(a) + 1)]
    <2>1. /\ i + (Len(a) + 1) \in 1 .. Len(a) + Len(b) /\ ~(i + (Len(a) + 1) <= Len(a))
          /\ (i + (Len(a) + 1)) - Len(a) = i + 1
        BY <1>0
    <2> QED BY <1>0, <1>1, <2>1
<1>4. ASSUME NEW i \in 1 .. Len(a) + 1
      PROVE  (a \o b)[i][2] \in Owners(a) \cup {Head(b)[2]}
    <2>0. i \in 1 .. Len(a) + Len(b)
        BY <1>0
    <2>1. CASE i <= Len(a)
        <3>1. (a \o b)[i] = a[i] /\ i \in 1 .. Len(a)
            BY <1>0, <1>1, <2>0, <2>1
        <3>2. a[i][2] \in Tags(a)
            BY <3>1 DEF Tags
        <3> QED BY <3>1, <3>2, OwnersAre
    <2>2. CASE ~(i <= Len(a))
        <3>1. i - Len(a) = 1
            BY <1>0, <2>2
        <3>2. (a \o b)[i] = Head(b)
            BY <1>0, <1>1, <2>0, <2>2, <3>1
        <3> QED BY <3>2
    <2> QED BY <2>1, <2>2
<1> QED BY <1>2, <1>3, <1>4 DEF Dropped

(* What main parses *)
LEMMA LineFront ==
    ASSUME NEW a \in Lines, NEW b \in Lines
    PROVE  FrontOf(Values(a), a \o b) /\ Len(Values(a)) = Len(a)
<1>0. /\ Len(a) \in Nat /\ Len(b) \in Nat /\ DOMAIN a = 1 .. Len(a)
      /\ \A i \in 1 .. Len(a) : a[i] \in Nat \X Nat
    BY DEF Lines
<1>1. /\ Len(a \o b) = Len(a) + Len(b)
      /\ \A i \in 1 .. Len(a) + Len(b) :
           (a \o b)[i] = IF i <= Len(a) THEN a[i] ELSE b[i - Len(a)]
    BY LineIs
<1> PICK v : v = Values(a)
    OBVIOUS
<1>2. v = [i \in 1 .. Len(a) |-> a[i][1]] /\ \A i \in 1 .. Len(a) : a[i][1] \in Nat
    BY <1>0 DEF Values
<1>3. /\ v \in Seq(Nat) /\ Len(v) = Len(a) /\ \A i \in 1 .. Len(v) : v[i] = a[i][1]
    BY <1>0, <1>2
<1>4. ASSUME NEW i \in 1 .. Len(v)
      PROVE  v[i] = (a \o b)[i][1]
    <2>1. i <= Len(a) /\ i \in 1 .. Len(a) + Len(b)
        BY <1>0, <1>3
    <2> QED BY <1>1, <1>3, <2>1
<1>5. Len(v) <= Len(a \o b)
    BY <1>0, <1>1, <1>3
<1> QED BY <1>3, <1>4, <1>5 DEF FrontOf

LEMMA LinesAssociative ==
    ASSUME NEW a \in Lines, NEW b \in Lines, NEW c \in Lines
    PROVE  a \o (b \o c) = (a \o b) \o c
<1> PICK S : S = Nat \X Nat
    OBVIOUS
<1>1. a \in Seq(S) /\ b \in Seq(S) /\ c \in Seq(S)
    BY DEF Lines
<1>2. (a \o b) \o c = a \o (b \o c)
    BY ONLY <1>1, ConcatAssociative
<1> QED BY ONLY <1>2

(* A frame is sent. *)
LEMMA LineExtended ==
    ASSUME NEW a \in Lines, NEW b \in Lines, NEW m \in Messages, NEW n \in Nat,
           NEW c, c = [i \in DOMAIN Frame(CONTROL, m) |-> <<Frame(CONTROL, m)[i], n>>]
    PROVE  /\ b \o c \in Lines /\ a \o (b \o c) \in Lines
           /\ Extended(a \o (b \o c), a \o b, m, n)
<1>0. /\ Len(a) \in Nat /\ Len(b) \in Nat
      /\ FrameLen(m) \in Nat
    <2>1. Len(a) \in Nat /\ Len(b) \in Nat
        BY DEF Lines
    <2>2. FrameLen(m) \in 5 .. 7
        BY Layout
    <2> QED BY <2>1, <2>2
<1>1. /\ Frame(CONTROL, m) \in Seq(Nat) /\ DOMAIN Frame(CONTROL, m) = 1 .. FrameLen(m)
      /\ Len(Frame(CONTROL, m)) = FrameLen(m)
      /\ \A j \in 1 .. FrameLen(m) : Frame(CONTROL, m)[j] = FrameByte(CONTROL, m, j)
    BY FrameBytes DEF CONTROL
<1>2. /\ c = [i \in 1 .. FrameLen(m) |-> <<Frame(CONTROL, m)[i], n>>]
      /\ \A i \in 1 .. FrameLen(m) : Frame(CONTROL, m)[i] \in Nat
    BY <1>1
<1>3. /\ c \in Lines /\ Len(c) = FrameLen(m)
      /\ \A j \in 1 .. FrameLen(m) : c[j] = <<FrameByte(CONTROL, m, j), n>>
    <2>1. c \in Seq(Nat \X Nat) /\ Len(c) = FrameLen(m)
        <3>1. \A i \in 1 .. FrameLen(m) : <<Frame(CONTROL, m)[i], n>> \in Nat \X Nat
            BY <1>2
        <3> QED BY <1>0, <1>2, <3>1
    <2>2. \A j \in 1 .. FrameLen(m) : c[j] = <<FrameByte(CONTROL, m, j), n>>
        BY <1>1, <1>2
    <2> QED BY <2>1, <2>2 DEF Lines
<1>4. /\ b \o c \in Lines /\ a \o b \in Lines /\ a \o (b \o c) = (a \o b) \o c
      /\ a \o (b \o c) \in Lines /\ Len(a \o b) \in Nat
    <2>1. c \in Lines
        BY <1>3
    <2>2. b \o c \in Lines /\ a \o b \in Lines
        BY <2>1, LineIs
    <2>3. a \o (b \o c) \in Lines /\ Len(a \o b) \in Nat
        BY <2>2, LineIs
    <2>4. a \o (b \o c) = (a \o b) \o c
        BY <2>1, LinesAssociative, ZenonT(60)
    <2> QED BY <2>2, <2>3, <2>4
<1> PICK s, t : s = a \o b /\ t = a \o (b \o c)
    OBVIOUS
<1>5. /\ Len(t) = Len(s) + FrameLen(m) /\ Len(s) \in Nat
      /\ \A i \in 1 .. Len(s) + FrameLen(m) : t[i] = IF i <= Len(s) THEN s[i] ELSE c[i - Len(s)]
    <2>1. s \in Lines /\ c \in Lines /\ t = s \o c /\ Len(c) = FrameLen(m)
        BY <1>3, <1>4
    <2>2. /\ Len(s) \in Nat /\ Len(s \o c) = Len(s) + Len(c)
          /\ \A i \in 1 .. Len(s) + Len(c) :
               (s \o c)[i] = IF i <= Len(s) THEN s[i] ELSE c[i - Len(s)]
        BY <2>1, LineIs
    <2> QED BY <2>1, <2>2
<1>6. \A i \in 1 .. Len(s) : t[i] = s[i]
    BY <1>0, <1>5
<1>7. ASSUME NEW j \in 1 .. FrameLen(m)
      PROVE  t[Len(s) + j] = <<FrameByte(CONTROL, m, j), n>>
    <2>1. /\ Len(s) + j \in 1 .. Len(s) + FrameLen(m) /\ ~(Len(s) + j <= Len(s))
          /\ (Len(s) + j) - Len(s) = j
        BY <1>0, <1>5
    <2> QED BY <1>3, <1>5, <2>1
<1> QED BY <1>4, <1>5, <1>6, <1>7 DEF Extended

LEMMA FromIs ==
    ASSUME NEW a \in Lines, NEW b \in Lines, NEW k \in Nat, NEW l \in Nat,
           l <= Len(a)
    PROVE  Owners(SubSeq(a, k + 1, l)) = Between(a \o b, k, l)
<1> PICK c, s : c = SubSeq(a, k + 1, l) /\ s = a \o b
    OBVIOUS
<1>0. Len(a) \in Nat /\ Len(b) \in Nat /\ \A i \in 1 .. Len(a) : a[i] \in Nat \X Nat
    BY DEF Lines
<1>1. /\ c \in Lines /\ Len(c) = (IF k + 1 <= l THEN l - (k + 1) + 1 ELSE 0)
      /\ \A i \in 1 .. l - (k + 1) + 1 : c[i] = a[(k + 1) + i - 1]
    <2>1. k + 1 \in Int /\ l \in Int /\ \A i \in k + 1 .. l : a[i] \in Nat \X Nat
        BY <1>0
    <2> QED BY <2>1, SubSeqProperties DEF Lines
<1>2. \A i \in 1 .. Len(a) : s[i] = a[i]
    <2>1. \A i \in 1 .. Len(a) + Len(b) : s[i] = IF i <= Len(a) THEN a[i] ELSE b[i - Len(a)]
        BY LineIs
    <2> QED BY <1>0, <2>1
<1>3. ASSUME NEW i \in k + 1 .. l
      PROVE  s[i][2] \in Tags(c)
    <2>1. /\ i - k \in 1 .. l - (k + 1) + 1 /\ i - k \in 1 .. Len(c)
          /\ (k + 1) + (i - k) - 1 = i /\ i \in 1 .. Len(a)
        BY <1>0, <1>1
    <2>2. c[i - k] = s[i]
        BY <1>1, <1>2, <2>1
    <2> QED BY <2>1, <2>2 DEF Tags
<1>4. ASSUME NEW j \in 1 .. Len(c)
      PROVE  \E i \in k + 1 .. l : s[i][2] = c[j][2]
    <2>1. /\ j \in 1 .. l - (k + 1) + 1 /\ (k + 1) + j - 1 = k + j
          /\ k + j \in k + 1 .. l /\ k + j \in 1 .. Len(a)
        BY <1>0, <1>1
    <2>2. c[j] = s[k + j]
        BY <1>1, <1>2, <2>1
    <2> QED BY <2>1, <2>2
<1>5. Tags(c) = Between(s, k, l)
    <2>1. Tags(c) \subseteq Between(s, k, l)
        BY <1>4 DEF Tags, Between
    <2>2. Between(s, k, l) \subseteq Tags(c)
        BY <1>3 DEF Between
    <2> QED BY <2>1, <2>2
<1> QED BY <1>1, <1>5, OwnersAre

-----------------------------------------------------------------------------
(* What the variables hold *)

Ran == [msg : Seq(Nat), from : SUBSET Nat]

LinkType ==
    /\ received \in Lines /\ to_fw \in Lines
    /\ sent \in Seq(Messages) /\ ran \in Seq(Ran)
    /\ host \in [pc : {"send", "listen", "read"}, msg : 1 .. Len(Session)]

Line == received \o to_fw

LEMMA Parse ==
    ASSUME LinkType, NEW r, r = FwParse(Values(received), MSG_LEN)
    PROVE  /\ FrontOf(Values(received), Line) /\ r.p.bytes \in Seq(Nat)
           /\ r.keep \in Nat /\ r.used \in Nat /\ r.p.end_found \in BOOLEAN
           /\ FwConsumed(r) \in 0 .. Len(received) /\ Len(received) \in Nat
           /\ Owners(SubSeq(received, r.keep + 1, FwConsumed(r))) = From(r, Line)
           /\ From(r, Line) \in SUBSET Nat
           /\ SubSeq(received, FwConsumed(r) + 1, Len(received)) \in Lines
           /\ Dropped(SubSeq(received, FwConsumed(r) + 1, Len(received)) \o to_fw,
                      Line, FwConsumed(r))
<1>0. received \in Lines /\ to_fw \in Lines
    BY DEF LinkType
<1>1. FrontOf(Values(received), Line) /\ Len(Values(received)) = Len(received)
    BY <1>0, LineFront DEF Line
<1>2. Values(received) \in Seq(Nat)
    BY <1>1 DEF FrontOf
<1>3. /\ FwSound(r, Len(Values(received))) /\ r.used \in Nat /\ r.keep \in Nat
      /\ FwConsumed(r) \in 0 .. Len(Values(received)) /\ r.p.end_found \in BOOLEAN
    BY <1>2, ParsedTo
<1>4. r.p.bytes \in Seq(Nat)
    BY <1>3 DEF FwSound, FwResults, FwStates
<1>5. FwConsumed(r) \in 0 .. Len(received) /\ Len(received) \in Nat
    BY <1>0, <1>1, <1>3 DEF Lines
<1>6. /\ SubSeq(received, FwConsumed(r) + 1, Len(received)) \in Lines
      /\ Dropped(SubSeq(received, FwConsumed(r) + 1, Len(received)) \o to_fw,
                 received \o to_fw, FwConsumed(r))
    BY <1>0, <1>5, LineTaken
<1>7. Owners(SubSeq(received, r.keep + 1, FwConsumed(r))) = From(r, Line)
    <2>1. FwConsumed(r) \in Nat /\ FwConsumed(r) <= Len(received)
        BY <1>5
    <2>2. Owners(SubSeq(received, r.keep + 1, FwConsumed(r)))
            = Between(received \o to_fw, r.keep, FwConsumed(r))
        BY <1>0, <1>3, <2>1, FromIs, SMTT(60)
    <2> QED BY <2>2 DEF From, Line
<1>8. From(r, Line) \in SUBSET Nat
    <2>1. /\ Line \in Lines /\ Len(Line) = Len(received) + Len(to_fw)
          /\ Len(to_fw) \in Nat
        BY <1>0, LineIs DEF Line
    <2>2. \A i \in 1 .. Len(Line) : Line[i] \in Nat \X Nat
        BY <2>1 DEF Lines
    <2>3. \A i \in r.keep + 1 .. FwConsumed(r) : i \in 1 .. Len(Line)
        BY <1>3, <1>5, <2>1
    <2> QED BY <2>2, <2>3 DEF From, Between
<1> QED BY <1>1, <1>3, <1>4, <1>5, <1>6, <1>7, <1>8 DEF Line

LEMMA SessionMessages ==
    ASSUME LinkType
    PROVE  Message \in Messages
<1>1. host.msg \in 1 .. Len(Session)
    BY DEF LinkType
<1> QED BY <1>1, UartLinkAssumption DEF Message

LEMMA LinkTypeInit == Init => LinkType
<1> SUFFICES ASSUME Init PROVE LinkType
    OBVIOUS
<1>1. <<>> \in Lines
    BY DEF Lines
<1>2. Len(Session) \in Nat /\ Len(Session) # 0
    BY EmptySeq, UartLinkAssumption
<1>3. 1 \in 1 .. Len(Session)
    BY <1>2
<1> QED BY <1>1, <1>3 DEF Init, LinkType

LEMMA LinkTypeNext ==
    ASSUME LinkType, [Next]_vars
    PROVE  LinkType'
<1> USE DEF LinkType
<1>0. received \in Lines /\ to_fw \in Lines /\ <<>> \in Lines
    BY DEF Lines
<1>1. CASE Receive
    <2>1. to_fw # <<>> /\ to_fw' = Tail(to_fw) /\ received' = Stored(received, Head(to_fw))
          /\ sent' = sent /\ ran' = ran /\ host' = host
        BY <1>1 DEF Receive, hostVars
    <2>2. Append(received, Head(to_fw)) \in Lines
        BY <1>0, <2>1, LineReceived
    <2>3. Tail(to_fw) \in Lines
        BY <1>0, <2>1, HeadTail
    <2> QED BY <1>0, <2>1, <2>2, <2>3 DEF Stored
<1>2. CASE ReceiveError
    <2>1. Tail(to_fw) \in Lines
        BY <1>0, <1>2, HeadTail DEF ReceiveError
    <2> QED BY <1>2, <2>1 DEF ReceiveError, hostVars
<1>3. CASE GotUartBytes
    <2> PICK r : r = FwParse(Values(received), MSG_LEN)
        OBVIOUS
    <2>1. /\ r.p.bytes \in Seq(Nat) /\ From(r, Line) \in SUBSET Nat
          /\ Owners(SubSeq(received, r.keep + 1, FwConsumed(r))) = From(r, Line)
          /\ SubSeq(received, FwConsumed(r) + 1, Len(received)) \in Lines
        BY Parse
    <2>2. /\ received' = SubSeq(received, FwConsumed(r) + 1, Len(received))
          /\ to_fw' = to_fw /\ sent' = sent /\ host' = host
          /\ \/ ran' = ran
             \/ ran' = Append(ran, [msg |-> r.p.bytes,
                   from |-> Owners(SubSeq(received, r.keep + 1, FwConsumed(r)))])
        BY <1>3 DEF GotUartBytes, hostVars
    <2>3. [msg |-> r.p.bytes,
           from |-> Owners(SubSeq(received, r.keep + 1, FwConsumed(r)))] \in Ran
        BY <2>1 DEF Ran
    <2>4. ran' \in Seq(Ran)
        <3> PICK x : x = [msg |-> r.p.bytes,
                 from |-> Owners(SubSeq(received, r.keep + 1, FwConsumed(r)))]
            OBVIOUS
        <3>1. x \in Ran /\ ran \in Seq(Ran)
            BY <2>3
        <3>2. Append(ran, x) \in Seq(Ran)
            BY ONLY <3>1, AppendProperties
        <3> QED BY <2>2, <3>1, <3>2
    <2> QED BY <2>1, <2>2, <2>4
<1>4. CASE Ack
    BY <1>4 DEF Ack, hostVars
<1>5. CASE Flush
    BY <1>0, <1>5 DEF Flush, hostVars
<1>6. CASE StreamPiece
    BY <1>6 DEF StreamPiece, hostVars
<1>7. CASE Send
    <2> PICK m : m = Message
        OBVIOUS
    <2>1. m \in Messages /\ Len(sent) + 1 \in Nat
        BY SessionMessages
    <2> PICK c : c = [i \in DOMAIN Frame(CONTROL, m) |-> <<Frame(CONTROL, m)[i], Len(sent) + 1>>]
        OBVIOUS
    <2>2. to_fw \o c \in Lines
        BY <1>0, <2>1, LineExtended
    <2>3. /\ to_fw' = to_fw \o c /\ sent' = Append(sent, m) /\ received' = received
          /\ ran' = ran /\ host' = [host EXCEPT !.pc = "listen"]
        BY <1>7 DEF Send
    <2>4. sent' \in Seq(Messages)
        BY <2>1, <2>3
    <2> QED BY <2>2, <2>3, <2>4
<1>8. CASE Listen
    <2>1. host' \in [pc : {"send", "listen", "read"}, msg : 1 .. Len(Session)]
        <3>1. /\ host.msg \in 1 .. Len(Session) /\ Len(Session) \in Nat
              /\ host' = NextCall(host) \/ host' = [host EXCEPT !.pc = "send"]
            BY <1>8, UartLinkAssumption DEF Listen
        <3>2. host.msg < Len(Session) => host.msg + 1 \in 1 .. Len(Session)
            BY <3>1
        <3>3. NextCall(host) \in [pc : {"send", "listen", "read"}, msg : 1 .. Len(Session)]
            BY <3>1, <3>2 DEF NextCall
        <3> QED BY <3>1, <3>3
    <2> QED BY <1>8, <2>1 DEF Listen
<1>9. CASE ReadStream
    BY <1>9 DEF ReadStream
<1>10. CASE Timeout
    BY <1>10 DEF Timeout, AfterTimeout
<1>11. CASE UNCHANGED vars
    BY <1>11 DEF vars, hostVars
<1> QED BY <1>1, <1>2, <1>3, <1>4, <1>5, <1>6, <1>7, <1>8, <1>9, <1>10, <1>11
       DEF Next, FwMain, HostStep

-----------------------------------------------------------------------------
(* A frame is lost only behind one that did not come whole *)

KeptInv == LinkType /\ Kept(Line, sent, harmed, ran)

LEMMA KeptInit == Init => KeptInv
<1> SUFFICES ASSUME Init PROVE KeptInv
    OBVIOUS
<1>1. /\ received = <<>> /\ to_fw = <<>> /\ sent = <<>> /\ LinkType
      /\ <<>> \in Lines
    BY LinkTypeInit DEF Init, Lines
<1>2. Line = <<>>
    <2>1. <<>> \o to_fw = to_fw
        BY <1>1, LineTakenAll
    <2> QED BY <1>1, <2>1 DEF Line
<1>3. Len(<<>>) = 0
    OBVIOUS
<1>4. Placed(<<>>, <<>>, <<>>, harmed)
    BY <1>3 DEF Placed, OfFrames, Ends
<1>5. FirstWhole(<<>>, <<>>, harmed) /\ RunOnceGone(<<>>, <<>>, harmed, ran)
    BY <1>3 DEF FirstWhole, RunOnceGone
<1> QED BY <1>1, <1>2, <1>4, <1>5 DEF KeptInv, Kept

LEMMA KeptReceive ==
    ASSUME KeptInv, Receive, LinkType'
    PROVE  Kept(Line', sent', harmed', ran')
<1>0. /\ received \in Lines /\ to_fw \in Lines /\ to_fw # <<>> /\ sent \in Seq(Messages)
      /\ Kept(Line, sent, harmed, ran)
    BY DEF KeptInv, LinkType, Receive
<1>1. sent' = sent /\ ran' = ran /\ to_fw' = Tail(to_fw)
    BY DEF Receive
<1>2. CASE Len(received) + 1 = UART_RX_BUFFER_LEN
    <2>1. /\ received' = <<>>
          /\ harmed' = harmed \cup Owners(received) \cup {Head(to_fw)[2]}
        BY <1>2 DEF Receive, Stored
    <2>2. Tail(to_fw) \in Lines
        BY <1>0, HeadTail
    <2>3. Line' = Tail(to_fw)
        <3>1. <<>> \o Tail(to_fw) = Tail(to_fw)
            BY <2>2, LineTakenAll
        <3> QED BY <1>1, <2>1, <3>1 DEF Line
    <2>4. /\ Dropped(Tail(to_fw), Line, Len(received) + 1)
          /\ \A i \in 1 .. Len(received) + 1 :
               Line[i][2] \in Owners(received) \cup {Head(to_fw)[2]}
        BY <1>0, LineOverrun DEF Line
    <2>5. /\ harmed \subseteq harmed'
          /\ \A i \in 1 .. Len(received) + 1 : Line[i][2] \in harmed'
        BY <2>1, <2>4
    <2>6. Line \in Lines
        BY <1>0, LineIs DEF Line
    <2>7. Kept(Tail(to_fw), sent, harmed', ran)
        BY <1>0, <2>2, <2>4, <2>5, <2>6, KeptDrop
    <2> QED BY <1>1, <2>3, <2>7
<1>3. CASE Len(received) + 1 # UART_RX_BUFFER_LEN
    <2>1. received' = Append(received, Head(to_fw))
        BY <1>3 DEF Receive, Stored
    <2>2. received' # <<>>
        <3>1. Len(received) \in Nat /\ Head(to_fw) \in Nat \X Nat
            BY <1>0, HeadTail DEF Lines
        <3>2. Len(received') = Len(received) + 1
            BY <1>0, <2>1, <3>1 DEF Lines
        <3> QED BY <3>1, <3>2
    <2>3. harmed' = harmed
        BY <2>2 DEF Receive
    <2>4. Line' = Line
        BY <1>0, <1>1, <2>1, LineReceived DEF Line
    <2> QED BY <1>0, <1>1, <2>3, <2>4
<1> QED BY <1>2, <1>3

LEMMA KeptError ==
    ASSUME KeptInv, ReceiveError
    PROVE  Kept(Line', sent', harmed', ran')
<1>0. /\ received \in Lines /\ to_fw \in Lines /\ to_fw # <<>> /\ sent \in Seq(Messages)
      /\ Kept(Line, sent, harmed, ran)
    BY DEF KeptInv, LinkType, ReceiveError
<1>1. /\ sent' = sent /\ ran' = ran /\ to_fw' = Tail(to_fw) /\ received' = received
      /\ harmed' = harmed \cup {Head(to_fw)[2]}
    BY DEF ReceiveError
<1>2. /\ received \o Tail(to_fw) \in Lines
      /\ Skipped(received \o Tail(to_fw), Line, Len(received) + 1)
      /\ Len(received) + 1 \in 1 .. Len(Line)
      /\ Line[Len(received) + 1] = Head(to_fw)
    BY <1>0, LineSkipped DEF Line
<1>3. Line \in Lines /\ harmed' = harmed \cup {Line[Len(received) + 1][2]}
    BY <1>0, <1>1, <1>2, LineIs DEF Line
<1>4. Kept(received \o Tail(to_fw), sent, harmed', ran)
    BY <1>0, <1>2, <1>3, KeptSkip
<1> QED BY <1>1, <1>4 DEF Line

LEMMA KeptGot ==
    ASSUME KeptInv, GotUartBytes
    PROVE  Kept(Line', sent', harmed', ran')
<1>0. /\ received \in Lines /\ to_fw \in Lines /\ sent \in Seq(Messages)
      /\ Kept(Line, sent, harmed, ran) /\ LinkType
    BY DEF KeptInv, LinkType
<1> PICK r : r = FwParse(Values(received), MSG_LEN)
    OBVIOUS
<1> PICK d : d = FwConsumed(r)
    OBVIOUS
<1>1. /\ FrontOf(Values(received), Line) /\ r.p.bytes \in Seq(Nat)
      /\ Owners(SubSeq(received, r.keep + 1, d)) = From(r, Line)
      /\ From(r, Line) \in SUBSET Nat
      /\ SubSeq(received, d + 1, Len(received)) \in Lines
      /\ Dropped(SubSeq(received, d + 1, Len(received)) \o to_fw, Line, FwConsumed(r))
    BY <1>0, Parse
<1>2. /\ received' = SubSeq(received, d + 1, Len(received))
      /\ to_fw' = to_fw /\ sent' = sent /\ harmed' = harmed
      /\ Whole(r) => ran' = Append(ran, [msg |-> r.p.bytes,
                               from |-> Owners(SubSeq(received, r.keep + 1, d))])
      /\ ~Whole(r) => ran' = ran
    BY DEF GotUartBytes
<1>3. Line' \in Lines /\ Line \in Lines
    BY <1>0, <1>1, <1>2, LineIs DEF Line
<1>4. Dropped(Line', Line, FwConsumed(r))
    BY <1>1, <1>2 DEF Line
<1>5. Len(ran) \in Nat /\ Recorded(ran', ran, r, Line)
    <2> PICK x : x = [msg |-> r.p.bytes, from |-> From(r, Line)]
        OBVIOUS
    <2>1. x \in Ran /\ ran \in Seq(Ran)
        BY <1>0, <1>1 DEF Ran, LinkType
    <2>2. /\ Len(ran) \in Nat /\ Len(Append(ran, x)) = Len(ran) + 1
          /\ \A i \in 1 .. Len(ran) : Append(ran, x)[i] = ran[i]
          /\ Append(ran, x)[Len(ran) + 1] = x
        BY ONLY <2>1, AppendProperties
    <2>3. Whole(r) => ran' = Append(ran, x)
        BY <1>1, <1>2
    <2>4. x.from = From(r, Line)
        OBVIOUS
    <2> QED BY <1>2, <2>2, <2>3, <2>4 DEF Recorded
<1>6. Kept(Line', sent, harmed, ran')
    BY <1>0, <1>1, <1>3, <1>4, <1>5, KeptTake
<1> QED BY <1>2, <1>6

LEMMA KeptFlush ==
    ASSUME KeptInv, Flush
    PROVE  Kept(Line', sent', harmed', ran')
<1>0. /\ received \in Lines /\ to_fw \in Lines /\ sent \in Seq(Messages)
      /\ Kept(Line, sent, harmed, ran)
    BY DEF KeptInv, LinkType
<1>1. /\ received' = <<>> /\ to_fw' = to_fw /\ sent' = sent /\ ran' = ran
      /\ harmed \subseteq harmed' /\ Owners(received) \subseteq harmed'
    BY DEF Flush
<1>2. Line' = to_fw /\ Dropped(to_fw, Line, Len(received))
    BY <1>0, <1>1, LineTakenAll DEF Line
<1>3. \A i \in 1 .. Len(received) : Line[i][2] \in harmed'
    <2> TAKE i \in 1 .. Len(received)
    <2>1. i \in 1 .. Len(received) + Len(to_fw) /\ i <= Len(received)
        BY <1>0 DEF Lines
    <2>2. Line[i] = received[i]
        BY <1>0, <2>1, LineIs DEF Line
    <2>3. received[i][2] \in Owners(received)
        BY <1>0, OwnersAre DEF Tags
    <2> QED BY <1>1, <2>2, <2>3
<1>4. Line \in Lines
    BY <1>0, LineIs DEF Line
<1>5. Kept(to_fw, sent, harmed', ran)
    BY <1>0, <1>1, <1>2, <1>3, <1>4, KeptDrop
<1> QED BY <1>1, <1>2, <1>5

LEMMA KeptSend ==
    ASSUME KeptInv, Send
    PROVE  Kept(Line', sent', harmed', ran')
<1>0. /\ received \in Lines /\ to_fw \in Lines /\ sent \in Seq(Messages)
      /\ Kept(Line, sent, harmed, ran)
    BY DEF KeptInv, LinkType
<1> PICK m : m = Message
    OBVIOUS
<1> PICK c : c = [i \in DOMAIN Frame(CONTROL, m) |->
                    <<Frame(CONTROL, m)[i], Len(sent) + 1>>]
    OBVIOUS
<1>1. m \in Messages /\ Len(sent) + 1 \in Nat
    BY <1>0, SessionMessages DEF KeptInv
<1>2. /\ to_fw' = to_fw \o c /\ sent' = Append(sent, m) /\ received' = received
      /\ ran' = ran /\ harmed' = harmed
    BY DEF Send
<1>3. /\ received \o (to_fw \o c) \in Lines
      /\ Extended(received \o (to_fw \o c), Line, m, Len(sent) + 1)
    BY <1>0, <1>1, LineExtended DEF Line
<1>4. sent' \in Seq(Messages) /\ Len(sent') = Len(sent) + 1
    BY <1>0, <1>1, <1>2
<1>5. Line \in Lines /\ Line' = received \o (to_fw \o c)
    BY <1>0, <1>2, LineIs DEF Line
<1>6. Line' \in Lines /\ Extended(Line', Line, m, Len(sent'))
    BY <1>3, <1>4, <1>5
<1>7. Kept(Line', sent', harmed, ran)
    BY <1>0, <1>1, <1>2, <1>4, <1>5, <1>6, KeptAppend
<1> QED BY <1>2, <1>7

LEMMA KeptNext ==
    ASSUME KeptInv, [Next]_vars
    PROVE  KeptInv'
<1>1. LinkType'
    BY LinkTypeNext DEF KeptInv
<1>2. Kept(Line', sent', harmed', ran')
    <2>1. CASE UNCHANGED <<received, to_fw, sent, harmed, ran>>
        <3>1. Line' = Line
            BY <2>1 DEF Line
        <3> QED BY <2>1, <3>1 DEF KeptInv
    <2>2. CASE Receive
        BY <1>1, <2>2, KeptReceive
    <2>3. CASE ReceiveError
        BY <2>3, KeptError
    <2>4. CASE GotUartBytes
        BY <2>4, KeptGot
    <2>5. CASE Flush
        BY <2>5, KeptFlush
    <2>6. CASE Send
        BY <2>6, KeptSend
    <2>7. CASE Ack
        BY <2>1, <2>7 DEF Ack
    <2>8. CASE StreamPiece
        BY <2>1, <2>8 DEF StreamPiece
    <2>9. CASE Listen
        BY <2>1, <2>9 DEF Listen
    <2>10. CASE ReadStream
        BY <2>1, <2>10 DEF ReadStream
    <2>11. CASE Timeout
        BY <2>1, <2>11 DEF Timeout
    <2>12. CASE UNCHANGED vars
        BY <2>1, <2>12 DEF vars
    <2> QED BY <2>2, <2>3, <2>4, <2>5, <2>6, <2>7, <2>8, <2>9, <2>10, <2>11, <2>12
            DEF Next, FwMain, HostStep
<1> QED BY <1>1, <1>2 DEF KeptInv

LEMMA KeptImplies == KeptInv => LostBehindHarmed
<1> SUFFICES ASSUME KeptInv, NEW n \in DOMAIN sent,
                    ParsedPast(n), n \notin harmed, n - 1 \notin harmed
             PROVE  \E i \in DOMAIN ran : ran[i].from = {n}
    BY DEF LostBehindHarmed, ParsedPast
<1>0. /\ received \in Lines /\ to_fw \in Lines /\ sent \in Seq(Messages) /\ ran \in Seq(Ran)
      /\ RunOnceGone(Line, sent, harmed, ran)
    BY DEF KeptInv, LinkType, Kept
<1>1. n \notin Tags(Line)
    <2> SUFFICES ASSUME NEW i \in 1 .. Len(Line), Line[i][2] = n
                 PROVE  FALSE
        BY DEF Tags
    <2>1. n \notin Tags(received) /\ n \notin Tags(to_fw)
        BY <1>0, OwnersAre DEF ParsedPast
    <2>2. /\ Len(received) \in Nat /\ Len(to_fw) \in Nat
          /\ Len(Line) = Len(received) + Len(to_fw)
          /\ \A k \in 1 .. Len(received) + Len(to_fw) :
               Line[k] = IF k <= Len(received) THEN received[k]
                         ELSE to_fw[k - Len(received)]
        BY <1>0, LineIs DEF Line
    <2>3. CASE i <= Len(received)
        <3>1. i \in 1 .. Len(received) /\ Line[i] = received[i]
            BY <2>2, <2>3
        <3> QED BY <2>1, <3>1 DEF Tags
    <2>4. CASE ~(i <= Len(received))
        <3>1. i - Len(received) \in 1 .. Len(to_fw) /\ Line[i] = to_fw[i - Len(received)]
            BY <2>2, <2>4
        <3> QED BY <2>1, <3>1 DEF Tags
    <2> QED BY <2>3, <2>4
<1>2. n \in 1 .. Len(sent) /\ DOMAIN ran = 1 .. Len(ran)
    BY <1>0
<1> QED BY <1>0, <1>1, <1>2 DEF RunOnceGone

(* What the variables hold *)
THEOREM LinkTypeOK == Spec => []LinkType
<1>1. LinkType /\ [Next]_vars => LinkType'
    BY LinkTypeNext
<1> QED BY LinkTypeInit, <1>1, PTL DEF Spec

(* A frame of which every byte came, behind one of which every byte came,   *)
(* is run (uart.c 262-269), whatever the flushes, the overruns of the ring  *)
(* and the framing errors before it, and wherever the calls of the parser   *)
(* cut the stream.                                                          *)
THEOREM FramesKept == Spec => []LostBehindHarmed
<1>1. KeptInv /\ [Next]_vars => KeptInv'
    BY KeptNext
<1> QED BY KeptInit, <1>1, KeptImplies, PTL DEF Spec

-----------------------------------------------------------------------------
(* Without framing errors the firmware runs only messages that were sent *)

LEMMA NotLess ==
    ASSUME NEW x, NEW y \in 0 .. 2, x < y, x = 2
    PROVE  FALSE
    OBVIOUS

LEMMA LessThrough ==
    ASSUME NEW x \in Nat, NEW y \in Nat, NEW z \in Nat, y > x, y <= z
    PROVE  x < z
    OBVIOUS

(* A message found at the front of a line that lost nothing is a frame's:   *)
(* one that starts late comes short.                                        *)
LEMMA WholeIsGot ==
    ASSUME NEW s \in Lines, NEW pos, NEW msgs \in Seq(Messages),
           NEW lost, \A x : x \notin lost,
           Placed(s, pos, msgs, lost), NEW bytes, FrontOf(bytes, s),
           NEW r, r = FwParse(bytes, MSG_LEN), Whole(r)
    PROVE  \E n \in 1 .. Len(msgs) : Got(r, s, pos, msgs, n)
<1>0. /\ bytes \in Seq(Nat) /\ Len(bytes) \in Nat /\ Len(s) \in Nat
      /\ Len(bytes) <= Len(s)
    BY FrontTypes
<1>w. r.p.end_found \in BOOLEAN /\ r.p.end_found = TRUE /\ Len(r.p.bytes) = MSG_LEN
    BY <1>0, ParsedTo DEF Whole
<1>1. PICK e \in 1 .. Len(bytes) :
        FwAfter(bytes, MSG_LEN)[e] = r /\ r.used = e
    <2>1. Len(bytes) \in 0 .. Len(bytes)
        BY <1>0
    <2>2. FwAfter(bytes, MSG_LEN)[Len(bytes)] = r
        BY DEF FwParse
    <2>3. FwAfter(bytes, MSG_LEN)[Len(bytes)].p.end_found = TRUE
        BY <1>w, <2>2
    <2>4. \E e \in 1 .. Len(bytes) :
            /\ FwAfter(bytes, MSG_LEN)[e] = FwAfter(bytes, MSG_LEN)[Len(bytes)]
            /\ FwAfter(bytes, MSG_LEN)[Len(bytes)].used = e
        BY <1>0, <2>1, <2>3, FwEnd
    <2> QED BY <2>2, <2>4
<1>2. FwConsumed(r) = e
    BY <1>w, <1>1 DEF FwConsumed
<1>3. e \in 1 .. Len(s) /\ e \in Nat /\ e >= 1
    BY <1>0
<1>4. s[e][2] \in 1 .. Len(msgs)
    BY <1>3 DEF Placed, OfFrames
<1>5. CASE s[1][2] = s[e][2] => pos[1] = 1
    <2>1. e <= FwConsumed(FwParse(bytes, MSG_LEN))
        BY <1>2, <1>3
    <2>2. s[e][2] \notin lost /\ s[e][2] - 1 \notin lost
        OBVIOUS
    <2>3. Got(FwParse(bytes, MSG_LEN), s, pos, msgs, s[e][2])
        BY <1>3, <1>5, <2>1, <2>2, FrameTaken
    <2>4. Got(r, s, pos, msgs, s[e][2])
        BY <2>3
    <2> QED BY <1>4, <2>4
<1>6. CASE ~(s[1][2] = s[e][2] => pos[1] = 1)
    <2>0. s[e][2] \notin lost
        OBVIOUS
    <2>1. PICK a \in 1 .. e :
             /\ \A i \in a .. e : s[i][2] = s[e][2] /\ pos[i] = pos[a] + (i - a)
             /\ \/ a = 1
                \/ /\ a > 1 /\ s[a - 1][2] < s[e][2] /\ pos[a] = 1
                   /\ Follows(s, pos, msgs, lost, a - 1)
        BY <1>3, <2>0, BlockBack
    <2>2. a = 1
        <3> SUFFICES ASSUME a # 1 PROVE FALSE
            OBVIOUS
        <3>1. a - 1 \in 1 .. Len(s) /\ 1 \in 1 .. Len(s)
            BY <1>3
        <3>2. s[1][2] <= s[a - 1][2]
            BY <3>1, InOrder
        <3>3. s[1][2] \in Nat
            BY <3>1, PlacedTypes
        <3>4. s[a - 1][2] \in Nat
            BY <3>1, PlacedTypes
        <3> QED BY <1>6, <2>1, <3>2, <3>3, <3>4
    <2> PICK m : m = msgs[s[e][2]]
        OBVIOUS
    <2>3. m \in Messages
        BY <1>3, PlacedTypes
    <2>4. Carries(bytes, 1, e, m, pos[1]) /\ pos[1] > 1
        <3>1. Carries(bytes, a, e, msgs[s[e][2]], pos[a])
            BY <2>1, BlockCarries
        <3>2. pos[1] \in Nat /\ pos[1] >= 1
            BY <2>2, <3>1 DEF Carries
        <3> QED BY <1>6, <2>2, <3>1, <3>2
    <2>5. FwAfter(bytes, MSG_LEN)[1 - 1].p = FwFresh
        BY <1>0, FwSteps DEF FwStart
    <2>6. \A i \in 1 .. e : LateStart(FwAfter(bytes, MSG_LEN)[i].p, m, pos[1] + (i - 1))
        BY <1>0, <2>3, <2>4, <2>5, LateStartAlong
    <2>7. LateStart(r.p, m, pos[1] + (e - 1))
        <3>1. e \in 1 .. e
            BY <1>3
        <3> QED BY <1>1, <2>6, <3>1
    <2>8. r.p.start_found = TRUE
        <3>1. FwSound(r, Len(bytes))
            BY <1>0, ParsedTo
        <3>2. r.p.start_found \in BOOLEAN
            BY <3>1 DEF FwSound, FwResults, FwStates
        <3>3. r.p.start_found # FALSE
            <4>1. FwFresh.end_found = FALSE
                BY DEF FwFresh
            <4>2. r.p.start_found = FALSE => r.p = FwFresh
                BY <3>1 DEF FwSound
            <4> QED BY <1>w, <4>1, <4>2
        <3> QED BY <3>2, <3>3
    <2>9. Len(r.p.bytes) < Data(m, pos[1] + (e - 1))
        BY <2>7, <2>8 DEF LateStart
    <2>10. Data(m, pos[1] + (e - 1)) \in 0 .. 2
        BY DEF Data
    <2> QED BY <1>w, <2>9, <2>10, NotLess DEF MSG_LEN
<1> QED BY <1>5, <1>6

(* The frames run, each once, are before those in the line. *)
RanFrames(s, msgs, runs) ==
    /\ \A i \in 1 .. Len(runs) : \E n \in 1 .. Len(msgs) :
         /\ runs[i].from = {n} /\ runs[i].msg = msgs[n]
         /\ \A k \in Tags(s) : n < k
    /\ \A i, j \in 1 .. Len(runs) : runs[i].from = runs[j].from => i = j

Unbroken(s, msgs, runs) ==
    /\ \E pos : Placed(s, pos, msgs, {})
    /\ RanFrames(s, msgs, runs)

LEMMA TagsDropped ==
    ASSUME NEW s \in Lines, NEW t \in Lines, NEW d, Dropped(t, s, d)
    PROVE  Tags(t) \subseteq Tags(s)
<1>0. Len(s) \in Nat /\ Len(t) \in Nat /\ d \in Nat /\ Len(t) = Len(s) - d
    BY DroppedTypes
<1> SUFFICES ASSUME NEW i \in 1 .. Len(t)
             PROVE  t[i][2] \in Tags(s)
    BY DEF Tags
<1>1. i + d \in 1 .. Len(s)
    BY <1>0
<1>2. t[i] = s[i + d]
    BY DEF Dropped
<1> QED BY <1>1, <1>2 DEF Tags

LEMMA UnbrokenDrop ==
    ASSUME NEW s \in Lines, NEW msgs, NEW runs, Unbroken(s, msgs, runs),
           NEW t \in Lines, NEW d, Dropped(t, s, d)
    PROVE  Unbroken(t, msgs, runs)
<1>1. PICK pos : Placed(s, pos, msgs, {})
    BY DEF Unbroken
<1>2. Placed(t, [i \in 1 .. Len(t) |-> pos[i + d]], msgs, {})
    BY <1>1, PlacedDropped
<1>3. RanFrames(t, msgs, runs)
    <2>1. RanFrames(s, msgs, runs) /\ Tags(t) \subseteq Tags(s)
        BY TagsDropped DEF Unbroken
    <2> QED BY <2>1 DEF RanFrames
<1> QED BY <1>2, <1>3 DEF Unbroken

LEMMA UnbrokenAppend ==
    ASSUME NEW s \in Lines, NEW msgs \in Seq(Messages), NEW runs,
           Unbroken(s, msgs, runs), NEW m \in Messages,
           NEW more \in Seq(Messages), more = Append(msgs, m),
           NEW t \in Lines, Extended(t, s, m, Len(more))
    PROVE  Unbroken(t, more, runs)
<1>1. PICK pos : Placed(s, pos, msgs, {})
    BY DEF Unbroken
<1>2. Placed(t, [i \in 1 .. Len(t) |-> IF i <= Len(s) THEN pos[i] ELSE i - Len(s)],
             more, {})
    BY <1>1, PlacedAppend
<1>3. /\ Len(msgs) \in Nat /\ Len(more) = Len(msgs) + 1
      /\ \A n \in 1 .. Len(msgs) : more[n] = msgs[n]
    OBVIOUS
<1>4. Tags(t) \subseteq Tags(s) \cup {Len(more)}
    <2>0. Len(s) \in Nat /\ FrameLen(m) \in 5 .. 7
        BY Layout DEF Lines
    <2>1. /\ Len(t) = Len(s) + FrameLen(m)
          /\ \A i \in 1 .. Len(s) : t[i] = s[i]
          /\ \A j \in 1 .. FrameLen(m) :
               t[Len(s) + j] = <<FrameByte(CONTROL, m, j), Len(more)>>
        BY DEF Extended
    <2> SUFFICES ASSUME NEW i \in 1 .. Len(t)
                 PROVE  t[i][2] \in Tags(s) \cup {Len(more)}
        BY DEF Tags
    <2>2. CASE i <= Len(s)
        <3>1. i \in 1 .. Len(s)
            BY <2>0, <2>2
        <3> QED BY <2>1, <3>1 DEF Tags
    <2>3. CASE ~(i <= Len(s))
        <3>1. i - Len(s) \in 1 .. FrameLen(m) /\ Len(s) + (i - Len(s)) = i
            BY <2>0, <2>1, <2>3
        <3>2. t[Len(s) + (i - Len(s))][2] = Len(more)
            BY <2>1, <3>1
        <3> QED BY <3>1, <3>2
    <2> QED BY <2>2, <2>3
<1>5. RanFrames(t, more, runs)
    <2>1. \A i \in 1 .. Len(runs) : \E n \in 1 .. Len(more) :
             /\ runs[i].from = {n} /\ runs[i].msg = more[n]
             /\ \A k \in Tags(t) : n < k
        <3> TAKE i \in 1 .. Len(runs)
        <3>1. PICK n \in 1 .. Len(msgs) :
                 /\ runs[i].from = {n} /\ runs[i].msg = msgs[n]
                 /\ \A k \in Tags(s) : n < k
            BY DEF Unbroken, RanFrames
        <3>2. n \in 1 .. Len(more) /\ n < Len(more) /\ more[n] = msgs[n]
            BY <1>3
        <3>3. \A k \in Tags(t) : n < k
            BY <1>4, <3>1, <3>2
        <3> QED BY <3>1, <3>2, <3>3
    <2> QED BY <2>1 DEF Unbroken, RanFrames
<1> QED BY <1>2, <1>5 DEF Unbroken

(* What is left of the line behind a frame that was got *)
LEMMA BehindGot ==
    ASSUME NEW s \in Lines, NEW pos, NEW msgs \in Seq(Messages),
           Placed(s, pos, msgs, {}), NEW r, NEW n \in Nat, Got(r, s, pos, msgs, n),
           NEW t \in Lines, Dropped(t, s, FwConsumed(r))
    PROVE  n \in Tags(s) /\ \A k \in Tags(t) : n < k
<1>0. /\ Len(s) \in Nat /\ FwConsumed(r) = r.used
    <2>1. Len(s) \in Nat
        BY DEF Lines
    <2>2. FwConsumed(r) = r.used
        BY GotFrom
    <2> QED BY <2>1, <2>2
<1>1. PICK u \in 1 .. Len(s) : u = r.used
    BY <1>0 DEF Got
<1>2. s[u][2] = n /\ pos[u] = FrameLen(msgs[n]) /\ u \in Nat
    <2>1. r.keep \in Nat /\ u \in r.keep + 1 .. u
        BY <1>0, <1>1 DEF Got
    <2> QED BY <1>1, <2>1 DEF Got
<1>3. n \in Tags(s)
    BY <1>1, <1>2 DEF Tags
<1>4. ASSUME NEW i \in 1 .. Len(t)
      PROVE  n < t[i][2]
    <2>1. Dropped(t, s, u)
        BY <1>0, <1>1
    <2>2. /\ Len(t) \in Nat /\ Len(t) = Len(s) - u
        BY <2>1, DroppedTypes
    <2>3. t[i] = s[i + u]
        BY <2>1 DEF Dropped
    <2>4. /\ u \in 1 .. Len(s) - 1 /\ u + 1 \in 1 .. Len(s)
          /\ i + u \in u + 1 .. Len(s) /\ i + u \in 1 .. Len(s)
        BY <1>0, <1>2, <2>2
    <2>5. Follows(s, pos, msgs, {}, u)
        BY <2>4 DEF Placed
    <2>6. s[u + 1][2] # n
        <3> SUFFICES ASSUME s[u + 1][2] = n PROVE FALSE
            OBVIOUS
        <3>1. pos[u + 1] = pos[u] + 1
            BY <1>2, <2>5 DEF Follows
        <3>2. /\ pos[u + 1] \in 1 .. FrameLen(msgs[s[u + 1][2]])
              /\ FrameLen(msgs[s[u + 1][2]]) \in 5 .. 7
            BY <2>4, PlacedTypes
        <3> QED BY <1>2, <3>1, <3>2
    <2>7. s[u + 1][2] > n
        BY <1>2, <2>5, <2>6 DEF Follows
    <2>8. s[u + 1][2] <= s[i + u][2]
        BY <2>4, InOrder
    <2>9. s[u + 1][2] \in Nat
        BY <2>4, PlacedTypes
    <2>10. s[i + u][2] \in Nat
        BY <2>4, PlacedTypes
    <2>11. n < s[i + u][2]
        BY <2>7, <2>8, <2>9, <2>10, LessThrough
    <2> QED BY <2>3, <2>11
<1> QED BY <1>3, <1>4 DEF Tags

LEMMA UnbrokenTake ==
    ASSUME NEW s \in Lines, NEW msgs \in Seq(Messages),
           NEW runs, Len(runs) \in Nat, Unbroken(s, msgs, runs),
           NEW bytes, FrontOf(bytes, s), NEW r, r = FwParse(bytes, MSG_LEN),
           NEW t \in Lines, Dropped(t, s, FwConsumed(r)),
           NEW more, Recorded(more, runs, r, s),
           Whole(r) => more[Len(more)].msg = r.p.bytes
    PROVE  Unbroken(t, msgs, more)
<1>1. PICK pos : Placed(s, pos, msgs, {})
    BY DEF Unbroken
<1>2. Unbroken(t, msgs, runs)
    BY UnbrokenDrop
<1>3. CASE ~Whole(r)
    BY <1>2, <1>3 DEF Recorded
<1>4. CASE Whole(r)
    <2>1. PICK n \in 1 .. Len(msgs) : Got(r, s, pos, msgs, n)
        <3>1. \A x : x \notin {}
            OBVIOUS
        <3> QED BY <1>1, <1>4, <3>1, WholeIsGot
    <2>2. n \in Nat /\ Len(msgs) \in Nat
        OBVIOUS
    <2>3. From(r, s) = {n} /\ r.p.bytes = msgs[n]
        BY <2>1, GotFrom
    <2>4. n \in Tags(s) /\ \A k \in Tags(t) : n < k
        BY <1>1, <2>1, <2>2, BehindGot
    <2>5. /\ Len(more) = Len(runs) + 1 /\ Len(more) \in Nat
          /\ \A i \in 1 .. Len(runs) : more[i] = runs[i]
          /\ more[Len(more)].from = {n} /\ more[Len(more)].msg = msgs[n]
        BY <1>4, <2>3 DEF Recorded
    <2>6. \A i \in 1 .. Len(more) : i = Len(more) \/ i \in 1 .. Len(runs)
        BY <2>5
    <2>7. ASSUME NEW i \in 1 .. Len(more)
          PROVE  \E k \in 1 .. Len(msgs) :
                    /\ more[i].from = {k} /\ more[i].msg = msgs[k]
                    /\ \A x \in Tags(t) : k < x
        <3>1. CASE i = Len(more)
            BY <2>4, <2>5, <3>1
        <3>2. CASE i \in 1 .. Len(runs)
            <4>1. \E k \in 1 .. Len(msgs) :
                    /\ runs[i].from = {k} /\ runs[i].msg = msgs[k]
                    /\ \A x \in Tags(t) : k < x
                BY <1>2, <3>2 DEF Unbroken, RanFrames
            <4> QED BY <2>5, <3>2, <4>1
        <3> QED BY <2>6, <3>1, <3>2
    <2>8. ASSUME NEW i \in 1 .. Len(runs)
          PROVE  runs[i].from # {n}
        <3>1. PICK k \in 1 .. Len(msgs) :
                 runs[i].from = {k} /\ \A x \in Tags(s) : k < x
            BY DEF Unbroken, RanFrames
        <3>2. k < n /\ k \in Nat
            BY <2>2, <2>4, <3>1
        <3>3. k # n
            BY <2>2, <3>2
        <3> QED BY <3>1, <3>3
    <2>9. ASSUME NEW i \in 1 .. Len(more), NEW j \in 1 .. Len(more),
                 more[i].from = more[j].from
          PROVE  i = j
        <3>1. CASE i = Len(more) /\ j = Len(more)
            BY <3>1
        <3>2. CASE i = Len(more) /\ j \in 1 .. Len(runs)
            BY <2>5, <2>8, <2>9, <3>2
        <3>3. CASE i \in 1 .. Len(runs) /\ j = Len(more)
            BY <2>5, <2>8, <2>9, <3>3
        <3>4. CASE i \in 1 .. Len(runs) /\ j \in 1 .. Len(runs)
            <4>1. runs[i].from = runs[j].from
                BY <2>5, <2>9, <3>4
            <4> QED BY <3>4, <4>1 DEF Unbroken, RanFrames
        <3> QED BY <2>6, <3>1, <3>2, <3>3, <3>4
    <2>10. RanFrames(t, msgs, more)
        BY <2>7, <2>9 DEF RanFrames
    <2> QED BY <1>2, <2>10 DEF Unbroken
<1> QED BY <1>3, <1>4

RunInv == LinkType /\ Unbroken(Line, sent, ran)

LEMMA RunInit == Init => RunInv
<1> SUFFICES ASSUME Init PROVE RunInv
    OBVIOUS
<1>1. KeptInv /\ received = <<>> /\ to_fw = <<>> /\ sent = <<>> /\ ran = <<>>
    BY KeptInit DEF Init
<1>2. Line = <<>> /\ <<>> \in Lines
    <2>1. <<>> \in Lines
        BY DEF Lines
    <2> QED BY <1>1, <2>1, LineTakenAll DEF Line
<1>3. Len(<<>>) = 0
    OBVIOUS
<1>4. Placed(<<>>, <<>>, <<>>, {})
    BY <1>3 DEF Placed, OfFrames, Ends
<1>5. RanFrames(<<>>, <<>>, <<>>)
    BY <1>3 DEF RanFrames
<1>6. Unbroken(Line, sent, ran)
    BY <1>1, <1>2, <1>4, <1>5 DEF Unbroken
<1> QED BY <1>1, <1>6 DEF RunInv, KeptInv

LEMMA RunNext ==
    ASSUME RunInv, [Next]_vars, [~ReceiveError]_vars
    PROVE  RunInv'
<1>0. /\ received \in Lines /\ to_fw \in Lines /\ sent \in Seq(Messages)
      /\ ran \in Seq(Ran) /\ LinkType /\ Unbroken(Line, sent, ran)
    BY DEF RunInv, LinkType
<1>l. Line \in Lines
    BY <1>0, LineIs DEF Line
<1>t. LinkType'
    BY <1>0, LinkTypeNext
<1>1. CASE UNCHANGED <<received, to_fw, sent, ran>>
    <2>1. Line' = Line
        BY <1>1 DEF Line
    <2> QED BY <1>0, <1>1, <1>t, <2>1 DEF RunInv
<1>2. CASE Receive
    <2>1. sent' = sent /\ ran' = ran /\ to_fw' = Tail(to_fw) /\ to_fw # <<>>
        BY <1>2 DEF Receive
    <2>2. Tail(to_fw) \in Lines
        BY <1>0, <2>1, HeadTail
    <2>3. CASE received' = <<>>
        <3>1. Line' = Tail(to_fw)
            BY <2>1, <2>2, <2>3, LineTakenAll DEF Line
        <3>2. Dropped(Tail(to_fw), Line, Len(received) + 1)
            BY <1>0, <2>1, LineOverrun DEF Line
        <3>3. Unbroken(Tail(to_fw), sent, ran)
            BY <1>0, <1>l, <2>2, <3>2, UnbrokenDrop
        <3> QED BY <1>t, <2>1, <3>1, <3>3 DEF RunInv
    <2>4. CASE received' = Append(received, Head(to_fw))
        <3>1. Line' = Line
            BY <1>0, <2>1, <2>4, LineReceived DEF Line
        <3> QED BY <1>0, <1>t, <2>1, <3>1 DEF RunInv
    <2> QED BY <1>2, <2>3, <2>4 DEF Receive, Stored
<1>3. CASE GotUartBytes
    <2> PICK r : r = FwParse(Values(received), MSG_LEN)
        OBVIOUS
    <2> PICK d : d = FwConsumed(r)
        OBVIOUS
    <2>1. /\ FrontOf(Values(received), Line) /\ r.p.bytes \in Seq(Nat)
          /\ Owners(SubSeq(received, r.keep + 1, d)) = From(r, Line)
          /\ From(r, Line) \in SUBSET Nat
          /\ SubSeq(received, d + 1, Len(received)) \in Lines
          /\ Dropped(SubSeq(received, d + 1, Len(received)) \o to_fw, Line, FwConsumed(r))
        BY <1>0, Parse
    <2>2. /\ received' = SubSeq(received, d + 1, Len(received))
          /\ to_fw' = to_fw /\ sent' = sent
          /\ Whole(r) => ran' = Append(ran, [msg |-> r.p.bytes,
                                   from |-> Owners(SubSeq(received, r.keep + 1, d))])
          /\ ~Whole(r) => ran' = ran
        BY <1>3 DEF GotUartBytes
    <2>3. Line' \in Lines /\ Dropped(Line', Line, FwConsumed(r))
        BY <1>0, <2>1, <2>2, LineIs DEF Line
    <2>4. /\ Len(ran) \in Nat /\ Recorded(ran', ran, r, Line)
          /\ Whole(r) => ran'[Len(ran')].msg = r.p.bytes
        <3> PICK x : x = [msg |-> r.p.bytes, from |-> From(r, Line)]
            OBVIOUS
        <3>1. x \in Ran /\ ran \in Seq(Ran)
            BY <1>0, <2>1 DEF Ran
        <3>2. /\ Len(ran) \in Nat /\ Len(Append(ran, x)) = Len(ran) + 1
              /\ \A i \in 1 .. Len(ran) : Append(ran, x)[i] = ran[i]
              /\ Append(ran, x)[Len(ran) + 1] = x
            BY ONLY <3>1, AppendProperties
        <3>3. Whole(r) => ran' = Append(ran, x)
            BY <2>1, <2>2
        <3>4. x.from = From(r, Line) /\ x.msg = r.p.bytes
            OBVIOUS
        <3> QED BY <2>2, <3>2, <3>3, <3>4 DEF Recorded
    <2>5. Unbroken(Line', sent, ran')
        BY <1>0, <1>l, <2>1, <2>3, <2>4, UnbrokenTake
    <2> QED BY <1>t, <2>2, <2>5 DEF RunInv
<1>4. CASE Flush
    <2>1. received' = <<>> /\ to_fw' = to_fw /\ sent' = sent /\ ran' = ran
        BY <1>4 DEF Flush
    <2>2. Line' = to_fw /\ Dropped(to_fw, Line, Len(received))
        BY <1>0, <2>1, LineTakenAll DEF Line
    <2>3. Unbroken(to_fw, sent, ran)
        BY <1>0, <1>l, <2>2, UnbrokenDrop
    <2> QED BY <1>t, <2>1, <2>2, <2>3 DEF RunInv
<1>5. CASE Send
    <2> PICK m : m = Message
        OBVIOUS
    <2> PICK c : c = [i \in DOMAIN Frame(CONTROL, m) |->
                        <<Frame(CONTROL, m)[i], Len(sent) + 1>>]
        OBVIOUS
    <2>1. m \in Messages /\ Len(sent) + 1 \in Nat
        BY <1>0, SessionMessages
    <2>2. /\ to_fw' = to_fw \o c /\ sent' = Append(sent, m) /\ received' = received
          /\ ran' = ran
        BY <1>5 DEF Send
    <2>3. /\ received \o (to_fw \o c) \in Lines
          /\ Extended(received \o (to_fw \o c), Line, m, Len(sent) + 1)
        BY <1>0, <2>1, LineExtended DEF Line
    <2>4. sent' \in Seq(Messages) /\ Len(sent') = Len(sent) + 1
        BY <1>0, <2>1, <2>2
    <2>5. Line' = received \o (to_fw \o c)
        BY <2>2 DEF Line
    <2>6. Line' \in Lines /\ Extended(Line', Line, m, Len(sent'))
        BY <2>3, <2>4, <2>5
    <2>7. Unbroken(Line', sent', ran)
        BY <1>0, <1>l, <2>1, <2>2, <2>4, <2>6, UnbrokenAppend
    <2> QED BY <1>t, <2>2, <2>7 DEF RunInv
<1>6. CASE Ack
    BY <1>1, <1>6 DEF Ack
<1>7. CASE StreamPiece
    BY <1>1, <1>7 DEF StreamPiece
<1>8. CASE Listen
    BY <1>1, <1>8 DEF Listen
<1>9. CASE ReadStream
    BY <1>1, <1>9 DEF ReadStream
<1>10. CASE Timeout
    BY <1>1, <1>10 DEF Timeout
<1>11. CASE UNCHANGED vars
    BY <1>1, <1>11 DEF vars
<1> QED BY <1>2, <1>3, <1>4, <1>5, <1>6, <1>7, <1>8, <1>9, <1>10, <1>11
       DEF Next, FwMain, HostStep

LEMMA RunImplies == RunInv => RunsOnlySent
<1> SUFFICES ASSUME RunInv PROVE RunsOnlySent
    OBVIOUS
<1>1. /\ DOMAIN ran = 1 .. Len(ran) /\ DOMAIN sent = 1 .. Len(sent)
      /\ RanFrames(Line, sent, ran)
    BY DEF RunInv, LinkType, Unbroken
<1> QED BY <1>1 DEF RanFrames, RunsOnlySent

(* As long as the UART gets no byte wrong, the firmware runs only messages  *)
(* that were sent, each frame once (control.c 40-44), however its ring runs *)
(* over and its flushes cut the frames: no message is put together from     *)
(* two, and none is found inside another.                                   *)
THEOREM OnlySentRuns == Spec /\ [][~ReceiveError]_vars => []RunsOnlySent
<1>1. RunInv /\ [Next]_vars /\ [~ReceiveError]_vars => RunInv'
    BY RunNext
<1> QED BY RunInit, <1>1, RunImplies, PTL DEF Spec

=============================================================================
