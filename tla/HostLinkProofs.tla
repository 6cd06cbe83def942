--------------------------- MODULE HostLinkProofs ---------------------------
(***************************************************************************)
(* Proofs about the host's end of the serial link: what its parser makes   *)
(* of the acknowledgements and the pieces of the stream, in step with the  *)
(* frames or not, that it reads the stream as it was sent, and that an     *)
(* acknowledgement it takes means that its message was run.                *)
(***************************************************************************)
EXTENDS UartLinkProofs

-----------------------------------------------------------------------------
(* The host's parser at a byte *)

HostStates ==
    [start_found : BOOLEAN, end_found : BOOLEAN, esc_last : BOOLEAN,
     start_last : BOOLEAN, type : Nat, n : 0 .. MSG_LEN, buf : Messages]

(* q is g with b stored, as long as there is room. *)
StoredAs(q, g, b) ==
    /\ g.n < 2 => /\ q.n = g.n + 1 /\ q.buf[g.n + 1] = b
                  /\ \A i \in 1 .. 2 : i # g.n + 1 => q.buf[i] = g.buf[i]
    /\ g.n = 2 => q.n = g.n /\ q.buf = g.buf

LEMMA StoredIs ==
    ASSUME NEW g \in HostStates, NEW b \in Nat
    PROVE  /\ HostStored(g, b) \in HostStates
           /\ StoredAs(HostStored(g, b), g, b)
           /\ HostStored(g, b).start_found = g.start_found
           /\ HostStored(g, b).end_found = g.end_found
           /\ HostStored(g, b).esc_last = g.esc_last
           /\ HostStored(g, b).start_last = g.start_last
           /\ HostStored(g, b).type = g.type
<1>1. g.buf \in Messages /\ g.n \in 0 .. 2
    BY DEF HostStates, MSG_LEN
<1>2. Len(g.buf) = 2
    BY <1>1, MessageIs DEF MSG_LEN
<1>3. CASE g.n < 2
    <2> PICK c : c = [g.buf EXCEPT ![g.n + 1] = b]
        OBVIOUS
    <2>1. /\ c \in Messages /\ c[g.n + 1] = b
          /\ \A i \in 1 .. 2 : i # g.n + 1 => c[i] = g.buf[i]
        BY <1>1, <1>3 DEF Messages, MSG_LEN
    <2> PICK q : q = [g EXCEPT !.buf[g.n + 1] = b, !.n = @ + 1]
        OBVIOUS
    <2>2. HostStored(g, b) = q
        BY <1>2, <1>3 DEF HostStored
    <2>7. q = [g EXCEPT !.buf = c, !.n = g.n + 1] /\ g.n + 1 \in 0 .. MSG_LEN
        BY <1>1, <1>3 DEF HostStates, MSG_LEN
    <2>3. q.buf = c /\ q.n = g.n + 1 /\ q.n \in 0 .. 2
        BY <1>1, <1>3 DEF HostStates
    <2>4. /\ q.start_found = g.start_found /\ q.end_found = g.end_found
          /\ q.esc_last = g.esc_last /\ q.start_last = g.start_last /\ q.type = g.type
        BY DEF HostStates
    <2>5. q \in HostStates
        BY <2>1, <2>7 DEF HostStates
    <2>6. StoredAs(q, g, b)
        BY <1>3, <2>1, <2>3 DEF StoredAs
    <2> QED BY <2>2, <2>4, <2>5, <2>6
<1>4. CASE ~(g.n < 2)
    <2>1. HostStored(g, b) = g
        BY <1>2, <1>4 DEF HostStored
    <2> QED BY <1>4, <2>1 DEF StoredAs
<1> QED BY <1>3, <1>4

(* q and g differ in what was stored at most *)
SameButStore(q, g) ==
    /\ q.start_found = g.start_found /\ q.end_found = g.end_found
    /\ q.start_last = g.start_last /\ q.type = g.type

SameStore(q, g) == q.n = g.n /\ q.buf = g.buf

LEMMA HostAtEscaped ==
    ASSUME NEW g \in HostStates, NEW b \in Nat, g.esc_last = TRUE,
           NEW q, q = HostByte(g, b)
    PROVE  /\ q \in HostStates /\ q.esc_last = FALSE
           /\ SameButStore(q, g) /\ StoredAs(q, g, b)
<1> PICK c : c = HostStored(g, b)
    OBVIOUS
<1>1. /\ c \in HostStates /\ StoredAs(c, g, b)
      /\ c.start_found = g.start_found /\ c.end_found = g.end_found
      /\ c.start_last = g.start_last /\ c.type = g.type
    BY StoredIs
<1> PICK d : d = [c EXCEPT !.esc_last = FALSE]
    OBVIOUS
<1>2. q = d
    BY DEF HostByte
<1>3. /\ d.start_found = c.start_found /\ d.end_found = c.end_found
      /\ d.start_last = c.start_last /\ d.type = c.type /\ d.n = c.n /\ d.buf = c.buf
      /\ d.esc_last = FALSE /\ d \in HostStates
    BY <1>1 DEF HostStates
<1>4. StoredAs(d, g, b) /\ SameButStore(d, g)
    BY <1>1, <1>3 DEF StoredAs, SameButStore
<1> QED BY <1>2, <1>3, <1>4

LEMMA HostAtEsc ==
    ASSUME NEW g \in HostStates, g.esc_last = FALSE,
           NEW q, q = HostByte(g, ESC)
    PROVE  /\ q \in HostStates /\ q.esc_last = TRUE
           /\ SameButStore(q, g) /\ SameStore(q, g)
<1> PICK d : d = [g EXCEPT !.esc_last = TRUE]
    OBVIOUS
<1>1. q = d
    BY DEF HostByte, START, END, ESC
<1>2. /\ d.start_found = g.start_found /\ d.end_found = g.end_found
      /\ d.start_last = g.start_last /\ d.type = g.type /\ d.n = g.n /\ d.buf = g.buf
      /\ d.esc_last = TRUE /\ d \in HostStates
    BY DEF HostStates
<1> QED BY <1>1, <1>2 DEF SameButStore, SameStore

LEMMA HostAtStart ==
    ASSUME NEW g \in HostStates, g.esc_last = FALSE,
           NEW q, q = HostByte(g, START)
    PROVE  /\ q \in HostStates /\ q.esc_last = FALSE
           /\ q.start_found = TRUE /\ q.start_last = TRUE /\ q.n = 0
           /\ q.end_found = g.end_found /\ q.type = g.type /\ q.buf = g.buf
<1> PICK d : d = [g EXCEPT !.start_found = TRUE, !.start_last = TRUE, !.n = 0]
    OBVIOUS
<1>1. q = d
    BY DEF HostByte, START, END, ESC
<1>2. /\ d.start_found = TRUE /\ d.start_last = TRUE /\ d.n = 0
      /\ d.end_found = g.end_found /\ d.type = g.type /\ d.buf = g.buf
      /\ d.esc_last = FALSE
    BY DEF HostStates
<1>3. d \in HostStates
    <2>1. 0 \in 0 .. MSG_LEN
        BY DEF MSG_LEN
    <2> QED BY <2>1 DEF HostStates
<1> QED BY <1>1, <1>2, <1>3

LEMMA HostAtEnd ==
    ASSUME NEW g \in HostStates, g.esc_last = FALSE,
           NEW q, q = HostByte(g, END)
    PROVE  /\ q \in HostStates /\ q.esc_last = FALSE
           /\ q.end_found = TRUE /\ q.start_found = g.start_found
           /\ q.start_last = g.start_last /\ q.type = g.type /\ SameStore(q, g)
<1> PICK d : d = [g EXCEPT !.end_found = TRUE]
    OBVIOUS
<1>1. q = d
    BY DEF HostByte, START, END, ESC
<1>2. /\ d.start_found = g.start_found /\ d.end_found = TRUE
      /\ d.start_last = g.start_last /\ d.type = g.type /\ d.n = g.n /\ d.buf = g.buf
      /\ d.esc_last = FALSE /\ d \in HostStates
    BY DEF HostStates
<1> QED BY <1>1, <1>2 DEF SameStore

(* The byte is the type of the frame. *)
TypeNext(g, b) == b > ESC /\ g.esc_last = FALSE /\ g.start_last = TRUE

TypeTaken(q, g, b) ==
    /\ q.type = b /\ q.start_last = FALSE /\ SameStore(q, g)
    /\ q.start_found = g.start_found /\ q.end_found = g.end_found

LEMMA HostAtType ==
    ASSUME NEW g \in HostStates, NEW b \in Nat, TypeNext(g, b),
           NEW q, q = HostByte(g, b)
    PROVE  /\ q \in HostStates /\ q.esc_last = FALSE
           /\ TypeTaken(q, g, b)
<1> PICK d : d = [g EXCEPT !.type = b, !.start_last = FALSE]
    OBVIOUS
<1>1. q = d
    BY DEF HostByte, START, END, ESC, TypeNext
<1>2. /\ d.start_found = g.start_found /\ d.end_found = g.end_found
      /\ d.start_last = FALSE /\ d.type = b /\ d.n = g.n /\ d.buf = g.buf
      /\ d.esc_last = FALSE /\ d \in HostStates
    BY DEF HostStates, TypeNext
<1> QED BY <1>1, <1>2 DEF SameStore, TypeTaken

LEMMA HostAtData ==
    ASSUME NEW g \in HostStates, NEW b \in Nat, b > ESC,
           g.esc_last = FALSE, g.start_last = FALSE, NEW q, q = HostByte(g, b)
    PROVE  /\ q \in HostStates /\ q.esc_last = FALSE /\ SameButStore(q, g)
           /\ g.start_found = TRUE => StoredAs(q, g, b)
           /\ g.start_found = FALSE => SameStore(q, g)
<1> PICK c : c = HostStored(g, b)
    OBVIOUS
<1>1. /\ c \in HostStates /\ StoredAs(c, g, b)
      /\ c.start_found = g.start_found /\ c.end_found = g.end_found
      /\ c.start_last = g.start_last /\ c.type = g.type
      /\ c.esc_last = g.esc_last
    BY StoredIs
<1>2. q = IF g.start_found THEN c ELSE g
    BY DEF HostByte, START, END, ESC
<1>3. CASE g.start_found = TRUE
    <2>1. q = c
        BY <1>2, <1>3
    <2> QED BY <1>1, <1>3, <2>1 DEF SameButStore
<1>4. CASE g.start_found = FALSE
    <2>1. q = g
        BY <1>2, <1>4
    <2> QED BY <1>4, <2>1 DEF SameButStore, SameStore
<1>5. g.start_found \in BOOLEAN
    BY DEF HostStates
<1> QED BY <1>3, <1>4, <1>5

(* A byte of a message, behind its escape byte if it has one *)
LEMMA HostStores ==
    ASSUME NEW g \in HostStates, NEW b \in Nat, g.esc_last = TRUE <=> b <= ESC,
           g.start_last = FALSE, g.start_found = TRUE, NEW q, q = HostByte(g, b)
    PROVE  /\ q \in HostStates /\ q.esc_last = FALSE
           /\ SameButStore(q, g) /\ StoredAs(q, g, b)
<1>1. CASE g.esc_last = TRUE
    BY <1>1, HostAtEscaped
<1>2. CASE g.esc_last = FALSE
    <2>1. b > ESC
        BY <1>2 DEF ESC
    <2> QED BY <1>2, <2>1, HostAtData
<1>3. g.esc_last \in BOOLEAN
    BY DEF HostStates
<1> QED BY <1>1, <1>2, <1>3

(* g has stored the first x bytes of m *)
Stores(g, m, x) ==
    /\ g.n = x
    /\ x >= 1 => g.buf[1] = m[1]
    /\ x >= 2 => g.buf[2] = m[2]

LEMMA StoresNext ==
    ASSUME NEW g \in HostStates, NEW q \in HostStates, NEW m, NEW x \in 0 .. 1,
           Stores(g, m, x), StoredAs(q, g, m[x + 1])
    PROVE  Stores(q, m, x + 1)
<1>1. CASE x = 0
    BY <1>1 DEF Stores, StoredAs
<1>2. CASE x = 1
    BY <1>2 DEF Stores, StoredAs
<1> QED BY <1>1, <1>2

LEMMA StoresSame ==
    ASSUME NEW g, NEW q, NEW m, NEW x, Stores(g, m, x), SameStore(q, g)
    PROVE  Stores(q, m, x)
    BY DEF Stores, SameStore

(* Where in a frame its bytes are, and how many of the message are before *)
LEMMA Places ==
    ASSUME NEW m \in Messages, NEW j \in 1 .. FrameLen(m)
    PROVE  /\ \/ j = 1 \/ j = 2 \/ Marker(m, j) \/ j = D1(m) \/ j = D2(m)
              \/ j = FrameLen(m)
           /\ j = 1 => ~Marker(m, 0) /\ ~Marker(m, 1) /\ Data(m, 0) = 0 /\ Data(m, 1) = 0
           /\ j = 2 => ~Marker(m, 1) /\ ~Marker(m, 2) /\ Data(m, 1) = 0 /\ Data(m, 2) = 0
           /\ Marker(m, j) => /\ ~Marker(m, j - 1) /\ Data(m, j) = Data(m, j - 1)
                              /\ j > 2 /\ j < FrameLen(m)
           /\ j = D1(m) => /\ Marker(m, j - 1) <=> m[1] <= ESC
                           /\ ~Marker(m, j) /\ Data(m, j - 1) = 0 /\ Data(m, j) = 1
                           /\ j > 2 /\ j < FrameLen(m)
           /\ j = D2(m) => /\ Marker(m, j - 1) <=> m[2] <= ESC
                           /\ ~Marker(m, j) /\ Data(m, j - 1) = 1 /\ Data(m, j) = 2
                           /\ j > 2 /\ j < FrameLen(m)
           /\ j = FrameLen(m) => /\ ~Marker(m, j - 1) /\ ~Marker(m, j)
                                 /\ Data(m, j - 1) = 2 /\ Data(m, j) = 2
                                 /\ j > 2 /\ ~(j < FrameLen(m))
<1>1. /\ D1(m) \in 3 .. 4 /\ D2(m) \in D1(m) + 1 .. D1(m) + 2
      /\ m[1] <= ESC <=> D1(m) = 4
      /\ m[2] <= ESC <=> D2(m) = D1(m) + 2
      /\ FrameLen(m) = D2(m) + 1
    BY Layout DEF FrameLen
<1> QED BY <1>1 DEF Marker, Data

-----------------------------------------------------------------------------
(* In step with the frames *)

(* g is the host's parser j bytes into a whole frame. *)
Hears(g, t, m, j) ==
    /\ g \in HostStates
    /\ g.start_found = TRUE <=> j > 0
    /\ g.end_found = TRUE <=> j = FrameLen(m)
    /\ g.esc_last = TRUE <=> Marker(m, j)
    /\ g.start_last = TRUE <=> j = 1
    /\ j > 1 => g.type = t
    /\ Stores(g, m, Data(m, j))

(* Byte by byte, the host's parser takes a frame. *)
LEMMA HearsNext ==
    ASSUME NEW m \in Messages, NEW t \in Nat, t > ESC, NEW j \in Nat,
           j < FrameLen(m), NEW g, Hears(g, t, m, j),
           NEW q, q = HostByte(g, FrameByte(t, m, j + 1))
    PROVE  Hears(q, t, m, j + 1)
<1>0. /\ g \in HostStates /\ FrameLen(m) \in 5 .. 7 /\ m[1] \in Nat /\ m[2] \in Nat
      /\ g.start_found \in BOOLEAN /\ g.end_found \in BOOLEAN
      /\ g.esc_last \in BOOLEAN /\ g.start_last \in BOOLEAN
    BY Layout DEF Hears, HostStates
<1>1. j + 1 \in 1 .. FrameLen(m) /\ (j + 1) - 1 = j
    BY <1>0
<1>2. g.end_found = FALSE /\ g \in HostStates
    BY <1>0 DEF Hears
<1>3. CASE j + 1 = 1
    <2>1. g.esc_last = FALSE /\ FrameByte(t, m, j + 1) = START /\ j = 0
        BY <1>0, <1>1, <1>3, Places, BytesAre DEF Hears
    <2>2. /\ q \in HostStates /\ q.esc_last = FALSE
          /\ q.start_found = TRUE /\ q.start_last = TRUE /\ q.n = 0
          /\ q.end_found = g.end_found
        BY <1>0, <2>1, HostAtStart
    <2>3. Data(m, j + 1) = 0 /\ ~Marker(m, j + 1)
        BY <1>1, <1>3, Places
    <2>4. Stores(q, m, Data(m, j + 1))
        BY <2>2, <2>3 DEF Stores
    <2> QED BY <1>0, <1>2, <1>3, <2>2, <2>3, <2>4 DEF Hears
<1>4. CASE j + 1 = 2
    <2>1. g.esc_last = FALSE /\ FrameByte(t, m, j + 1) = t /\ g.start_last = TRUE
        BY <1>0, <1>1, <1>4, Places, BytesAre DEF Hears
    <2>2. /\ q \in HostStates /\ q.esc_last = FALSE
          /\ q.type = t /\ q.start_last = FALSE /\ SameStore(q, g)
          /\ q.start_found = g.start_found /\ q.end_found = g.end_found
        <3>1. q = HostByte(g, t) /\ TypeNext(g, t)
            BY <2>1 DEF TypeNext
        <3>2. q \in HostStates /\ q.esc_last = FALSE /\ TypeTaken(q, g, t)
            BY <1>2, <3>1, HostAtType
        <3> QED BY <3>2 DEF TypeTaken
    <2>3. Data(m, j + 1) = Data(m, j) /\ ~Marker(m, j + 1)
        BY <1>1, <1>4, Places
    <2>4. Stores(q, m, Data(m, j + 1))
        BY <2>2, <2>3, StoresSame DEF Hears
    <2>5. g.start_found = TRUE
        BY <1>1, <1>4 DEF Hears
    <2> QED BY <1>0, <1>2, <1>4, <2>2, <2>3, <2>4, <2>5 DEF Hears
<1>5. CASE Marker(m, j + 1)
    <2>1. /\ ~Marker(m, j) /\ Data(m, j + 1) = Data(m, j) /\ j + 1 > 2
          /\ j + 1 < FrameLen(m)
        BY <1>1, <1>5, Places
    <2>2. g.esc_last = FALSE /\ FrameByte(t, m, j + 1) = ESC
        BY <1>0, <1>1, <1>5, <2>1, BytesAre DEF Hears
    <2>3. q \in HostStates /\ q.esc_last = TRUE /\ SameButStore(q, g) /\ SameStore(q, g)
        BY <1>0, <2>2, HostAtEsc
    <2>4. Stores(q, m, Data(m, j + 1))
        BY <2>1, <2>3, StoresSame DEF Hears
    <2>5. g.start_found = TRUE /\ g.start_last = FALSE /\ g.type = t
        BY <1>0, <2>1 DEF Hears
    <2> QED BY <1>0, <1>2, <1>5, <2>1, <2>3, <2>4, <2>5 DEF Hears, SameButStore
<1>6. CASE j + 1 = D1(m)
    <2>1. /\ Marker(m, j) <=> m[1] <= ESC
          /\ ~Marker(m, j + 1) /\ Data(m, j) = 0 /\ Data(m, j + 1) = 1
          /\ j + 1 > 2 /\ j + 1 < FrameLen(m)
        BY <1>1, <1>6, Places
    <2>2. FrameByte(t, m, j + 1) = m[1] /\ (g.esc_last = TRUE <=> m[1] <= ESC)
        BY <1>0, <1>6, <2>1, BytesAre DEF Hears
    <2>3. g.start_found = TRUE /\ g.start_last = FALSE /\ g.type = t
        BY <1>0, <2>1 DEF Hears
    <2>4. q \in HostStates /\ q.esc_last = FALSE /\ SameButStore(q, g) /\ StoredAs(q, g, m[1])
        BY <1>0, <2>2, <2>3, HostStores
    <2>5. Stores(q, m, Data(m, j + 1))
        <3>1. Stores(g, m, 0)
            BY <2>1 DEF Hears
        <3>2. Stores(q, m, 0 + 1)
            BY <1>0, <2>4, <3>1, StoresNext
        <3> QED BY <2>1, <3>2
    <2> QED BY <1>0, <1>2, <2>1, <2>3, <2>4, <2>5 DEF Hears, SameButStore
<1>7. CASE j + 1 = D2(m)
    <2>1. /\ Marker(m, j) <=> m[2] <= ESC
          /\ ~Marker(m, j + 1) /\ Data(m, j) = 1 /\ Data(m, j + 1) = 2
          /\ j + 1 > 2 /\ j + 1 < FrameLen(m)
        BY <1>1, <1>7, Places
    <2>2. FrameByte(t, m, j + 1) = m[2] /\ (g.esc_last = TRUE <=> m[2] <= ESC)
        BY <1>0, <1>7, <2>1, BytesAre DEF Hears
    <2>3. g.start_found = TRUE /\ g.start_last = FALSE /\ g.type = t
        BY <1>0, <2>1 DEF Hears
    <2>4. q \in HostStates /\ q.esc_last = FALSE /\ SameButStore(q, g) /\ StoredAs(q, g, m[2])
        BY <1>0, <2>2, <2>3, HostStores
    <2>5. Stores(q, m, Data(m, j + 1))
        <3>1. Stores(g, m, 1)
            BY <2>1 DEF Hears
        <3>2. Stores(q, m, 1 + 1)
            BY <1>0, <2>4, <3>1, StoresNext
        <3> QED BY <2>1, <3>2
    <2> QED BY <1>0, <1>2, <2>1, <2>3, <2>4, <2>5 DEF Hears, SameButStore
<1>8. CASE j + 1 = FrameLen(m)
    <2>1. /\ ~Marker(m, j) /\ ~Marker(m, j + 1) /\ Data(m, j) = 2 /\ Data(m, j + 1) = 2
          /\ j + 1 > 2
        BY <1>1, <1>8, Places
    <2>2. g.esc_last = FALSE /\ FrameByte(t, m, j + 1) = END
        BY <1>0, <1>8, <2>1, BytesAre DEF Hears, FrameLen
    <2>3. /\ q \in HostStates /\ q.esc_last = FALSE
          /\ q.end_found = TRUE /\ q.start_found = g.start_found
          /\ q.start_last = g.start_last /\ q.type = g.type /\ SameStore(q, g)
        BY <1>0, <2>2, HostAtEnd
    <2>4. Stores(q, m, Data(m, j + 1))
        BY <2>1, <2>3, StoresSame DEF Hears
    <2>5. g.start_found = TRUE /\ g.start_last = FALSE /\ g.type = t
        BY <1>0, <2>1 DEF Hears
    <2> QED BY <1>0, <1>8, <2>1, <2>3, <2>4, <2>5 DEF Hears
<1> QED BY <1>1, <1>3, <1>4, <1>5, <1>6, <1>7, <1>8, Places

-----------------------------------------------------------------------------
(* In step with the frames or not *)

(* What the host takes for the ack of a message of type x *)
IsAck(g, x) == g.type = CONTROL_ACK /\ g.buf[1] = x

(* The pieces of a sample frame are sent one by one, and an ack may come    *)
(* between them.                                                            *)
PieceBegin(t, m, j) ==
    j = 1 \/ (t = SAMPLES /\ j \in {D1(m) + 1, D2(m) + 1})

PieceEnd(t, m, j) ==
    j = FrameLen(m) \/ (t = SAMPLES /\ j \in {D1(m), D2(m)})

(* The host's parser before byte j of a frame, of which it may have missed  *)
(* the start: only an ack of which it has the start can give it type and    *)
(* value of one.                                                            *)
Meets(g, t, m, j, x) ==
    /\ g \in HostStates
    /\ g.start_found = FALSE \/ g.end_found = FALSE
    /\ g.esc_last = TRUE <=> Marker(m, j - 1)
    /\ g.start_last = TRUE <=> g.start_found = TRUE /\ j = 2
    /\ g.start_found = TRUE /\ (j = 1 \/ (t = SAMPLES /\ j > 2)) => g.type = SAMPLES
    /\ g.start_found = TRUE /\ t = CONTROL_ACK /\ j > 1 =>
         /\ Stores(g, m, Data(m, j - 1))
         /\ j > 2 => g.type = CONTROL_ACK
    /\ ~(g.start_found = TRUE /\ t = CONTROL_ACK /\ j > 2) => ~IsAck(g, x)

(* It is before a piece. *)
Idle(g, x) ==
    /\ g \in HostStates
    /\ g.start_found = FALSE \/ g.end_found = FALSE
    /\ g.esc_last = FALSE /\ g.start_last = FALSE
    /\ g.start_found = TRUE => g.type = SAMPLES
    /\ ~IsAck(g, x)

LEMMA IdleMeets ==
    ASSUME NEW g, NEW x, Idle(g, x), NEW m \in Messages, NEW t,
           NEW j \in 1 .. FrameLen(m), PieceBegin(t, m, j)
    PROVE  Meets(g, t, m, j, x)
<1>1. /\ D1(m) \in 3 .. 4 /\ D2(m) \in D1(m) + 1 .. D1(m) + 2
      /\ FrameLen(m) = D2(m) + 1
    BY Layout DEF FrameLen
<1>2. ~Marker(m, j - 1)
    BY <1>1 DEF PieceBegin, Marker
<1>3. j # 2 /\ (j > 1 => t = SAMPLES)
    BY <1>1 DEF PieceBegin
<1>4. t = SAMPLES => t # CONTROL_ACK
    BY DEF SAMPLES, CONTROL_ACK
<1>5. ~(g.start_found = TRUE /\ t = CONTROL_ACK /\ j > 1)
    BY <1>3, <1>4
<1>6. j > 2 => j > 1
    BY <1>1
<1> QED BY <1>2, <1>3, <1>5, <1>6 DEF Meets, Idle

(* A start that was answered to before: the rest of the frame *)
LEMMA RestMeets ==
    ASSUME NEW g, NEW x, Idle(g, x), g.start_found = FALSE,
           NEW m \in Messages, NEW t
    PROVE  Meets(g, t, m, 2, x)
<1>1. /\ D1(m) \in 3 .. 4 /\ D2(m) \in D1(m) + 1 .. D1(m) + 2
      /\ FrameLen(m) = D2(m) + 1
    BY Layout DEF FrameLen
<1>2. ~Marker(m, 2 - 1)
    BY <1>1 DEF Marker
<1> QED BY <1>2 DEF Meets, Idle

(* What becomes of it at the byte: an answer is at the end of an ack, with  *)
(* all of it; a call that returns does so behind a start or an end.         *)
Met(q, t, m, j, x) ==
    /\ q \in HostStates
    /\ HostDone(q) => /\ j \in {1, FrameLen(m)}
                      /\ IsAck(q, x) => /\ t = CONTROL_ACK /\ j = FrameLen(m)
                                         /\ Stores(q, m, 2)
    /\ ~HostDone(q) => /\ j < FrameLen(m) => Meets(q, t, m, j + 1, x)
                       /\ PieceEnd(t, m, j) => Idle(q, x)

LEMMA DoneIs ==
    ASSUME NEW g \in HostStates
    PROVE  HostDone(g) <=> g.start_found = TRUE /\ g.end_found = TRUE
    BY DEF HostDone, HostStates

(* Nothing of an ack is stored but what is escaped, unless its start came. *)
LEMMA NotTaken ==
    ASSUME NEW g \in HostStates, NEW q \in HostStates, NEW b \in Nat, NEW x,
           x > ESC, ~IsAck(g, x), b <= ESC,
           StoredAs(q, g, b), q.type = g.type
    PROVE  ~IsAck(q, x)
<1>1. g.n \in 0 .. 2
    BY DEF HostStates, MSG_LEN
<1>2. CASE g.n = 0
    <2>1. q.buf[1] = b
        BY <1>2 DEF StoredAs
    <2>2. b # x
        BY DEF ESC
    <2> QED BY <2>1, <2>2 DEF IsAck
<1>3. CASE g.n = 1
    BY <1>3 DEF StoredAs, IsAck
<1>4. CASE g.n = 2
    BY <1>4 DEF StoredAs, IsAck
<1> QED BY <1>1, <1>2, <1>3, <1>4

LEMMA MeetsData ==
    ASSUME NEW m \in Messages, NEW t \in {CONTROL_ACK, SAMPLES}, NEW x, x > ESC,
           NEW j \in Nat, j > 2, NEW g, Meets(g, t, m, j, x),
           NEW d \in 0 .. 1, Data(m, j - 1) = d, Data(m, j) = d + 1,
           NEW b \in Nat, b = m[d + 1], Marker(m, j - 1) <=> b <= ESC, ~Marker(m, j),
           NEW q, q = HostByte(g, b)
    PROVE  /\ q \in HostStates /\ ~HostDone(q)
           /\ Meets(q, t, m, j + 1, x)
           /\ t = SAMPLES => Idle(q, x)
<1>0. /\ g \in HostStates /\ g.start_found \in BOOLEAN /\ g.end_found \in BOOLEAN
      /\ g.esc_last \in BOOLEAN /\ g.start_last \in BOOLEAN
      /\ j # 2 /\ j > 1 /\ j # 1 /\ j + 1 # 2 /\ j + 1 > 2 /\ j + 1 > 1 /\ j + 1 # 1
      /\ (j + 1) - 1 = j
    BY DEF Meets, HostStates
<1>1. g.start_last = FALSE /\ (g.esc_last = TRUE <=> b <= ESC)
    BY <1>0 DEF Meets
<1>t. t = SAMPLES <=> t # CONTROL_ACK
    BY DEF SAMPLES, CONTROL_ACK
<1>2. CASE g.start_found = TRUE
    <2>1. q \in HostStates /\ q.esc_last = FALSE /\ SameButStore(q, g) /\ StoredAs(q, g, b)
        BY <1>0, <1>1, <1>2, HostStores
    <2>2. /\ q.start_found = TRUE /\ q.end_found = FALSE /\ q.start_last = FALSE
          /\ q.type = g.type
        BY <1>0, <1>1, <1>2, <2>1 DEF SameButStore, Meets
    <2>3. ~HostDone(q)
        BY <2>1, <2>2, DoneIs
    <2>4. t = SAMPLES => q.type = SAMPLES /\ ~IsAck(q, x)
        <3>1. t = SAMPLES => g.type = SAMPLES
            BY <1>0, <1>2 DEF Meets
        <3> QED BY <2>2, <3>1 DEF IsAck, SAMPLES, CONTROL_ACK
    <2>5. t = CONTROL_ACK => q.type = CONTROL_ACK /\ Stores(q, m, Data(m, j))
        <3> SUFFICES ASSUME t = CONTROL_ACK
                     PROVE  q.type = CONTROL_ACK /\ Stores(q, m, Data(m, j))
            OBVIOUS
        <3>1. Stores(g, m, d) /\ g.type = CONTROL_ACK
            BY <1>0, <1>2 DEF Meets
        <3>2. Stores(q, m, d + 1)
            BY <1>0, <2>1, <3>1, StoresNext
        <3> QED BY <2>2, <3>1, <3>2
    <2>6. Meets(q, t, m, j + 1, x)
        BY <1>0, <1>t, <2>1, <2>2, <2>4, <2>5 DEF Meets
    <2>7. t = SAMPLES => Idle(q, x)
        BY <2>1, <2>2, <2>4 DEF Idle
    <2> QED BY <2>1, <2>3, <2>6, <2>7
<1>3. CASE g.start_found = FALSE
    <2>0. ~IsAck(g, x)
        BY <1>3 DEF Meets
    <2>1. /\ q \in HostStates /\ q.esc_last = FALSE /\ SameButStore(q, g)
          /\ ~IsAck(q, x)
        <3>1. CASE g.esc_last = TRUE
            <4>1. /\ q \in HostStates /\ q.esc_last = FALSE /\ SameButStore(q, g)
                  /\ StoredAs(q, g, b)
                BY <1>0, <3>1, HostAtEscaped
            <4>2. q.type = g.type /\ b <= ESC
                BY <1>1, <3>1, <4>1 DEF SameButStore
            <4> QED BY <1>0, <2>0, <4>1, <4>2, NotTaken
        <3>2. CASE g.esc_last = FALSE
            <4>1. b > ESC
                BY <1>1, <3>2 DEF ESC
            <4>2. /\ q \in HostStates /\ q.esc_last = FALSE /\ SameButStore(q, g)
                  /\ SameStore(q, g)
                BY <1>0, <1>1, <1>3, <3>2, <4>1, HostAtData
            <4> QED BY <2>0, <4>2 DEF SameStore, SameButStore, IsAck
        <3> QED BY <1>0, <3>1, <3>2
    <2>2. q.start_found = FALSE /\ q.start_last = FALSE
        BY <1>1, <1>3, <2>1 DEF SameButStore
    <2>3. ~HostDone(q)
        BY <2>1, <2>2, DoneIs
    <2>4. Meets(q, t, m, j + 1, x)
        BY <1>0, <2>1, <2>2 DEF Meets
    <2>5. Idle(q, x)
        BY <2>1, <2>2 DEF Idle
    <2> QED BY <2>1, <2>3, <2>4, <2>5
<1> QED BY <1>0, <1>2, <1>3

LEMMA MeetsNext ==
    ASSUME NEW m \in Messages, NEW t \in {CONTROL_ACK, SAMPLES}, NEW x, x > ESC,
           NEW j \in 1 .. FrameLen(m), NEW g, Meets(g, t, m, j, x),
           NEW q, q = HostByte(g, FrameByte(t, m, j))
    PROVE  Met(q, t, m, j, x)
<1>0. /\ g \in HostStates /\ g.start_found \in BOOLEAN /\ g.end_found \in BOOLEAN
      /\ g.esc_last \in BOOLEAN /\ g.start_last \in BOOLEAN
    BY DEF Meets, HostStates
<1>l. /\ D1(m) \in 3 .. 4 /\ D2(m) \in D1(m) + 1 .. D1(m) + 2
      /\ FrameLen(m) = D2(m) + 1 /\ m[1] \in Nat /\ m[2] \in Nat
    BY Layout DEF FrameLen
<1>t. /\ t = SAMPLES <=> t # CONTROL_ACK
      /\ t \in Nat /\ t > ESC
    BY DEF SAMPLES, CONTROL_ACK, ESC
<1>1. CASE j = 1
    <2>1. g.esc_last = FALSE /\ FrameByte(t, m, j) = START
        BY <1>0, <1>1, <1>t, Places, BytesAre DEF Meets
    <2>2. /\ q \in HostStates /\ q.esc_last = FALSE
          /\ q.start_found = TRUE /\ q.start_last = TRUE /\ q.n = 0
          /\ q.end_found = g.end_found /\ q.type = g.type /\ q.buf = g.buf
        BY <1>0, <2>1, HostAtStart
    <2>3. ~IsAck(q, x)
        BY <1>1, <2>2 DEF Meets, IsAck
    <2>4. Data(m, 1) = 0 /\ ~Marker(m, 1)
        BY <1>1, Places
    <2>5. Stores(q, m, Data(m, 1))
        BY <2>2, <2>4 DEF Stores
    <2>6. ~HostDone(q) => q.end_found = FALSE
        BY <1>0, <2>2, DoneIs
    <2>7. ~HostDone(q) => Meets(q, t, m, 1 + 1, x)
        BY <2>2, <2>3, <2>4, <2>5, <2>6 DEF Meets
    <2>8. ~PieceEnd(t, m, j)
        BY <1>l, <1>1 DEF PieceEnd
    <2> QED BY <1>1, <2>2, <2>3, <2>7, <2>8 DEF Met
<1>2. CASE j = 2
    <2>1. g.esc_last = FALSE /\ FrameByte(t, m, j) = t /\ ~IsAck(g, x)
        BY <1>0, <1>2, <1>t, Places, BytesAre DEF Meets
    <2>4. Data(m, 1) = 0 /\ Data(m, 2) = 0 /\ ~Marker(m, 2) /\ (2 + 1) - 1 = 2
        BY <1>2, Places
    <2>8. ~PieceEnd(t, m, j)
        BY <1>l, <1>2 DEF PieceEnd
    <2>9. q = HostByte(g, t)
        BY <2>1
    <2>2. CASE g.start_found = TRUE
        <3>1. g.start_last = TRUE /\ g.end_found = FALSE
            BY <1>0, <1>2, <2>2 DEF Meets
        <3>2. /\ q \in HostStates /\ q.esc_last = FALSE
              /\ q.type = t /\ q.start_last = FALSE /\ SameStore(q, g)
              /\ q.start_found = g.start_found /\ q.end_found = g.end_found
            <4>1. TypeNext(g, t) /\ g \in HostStates
                BY <1>0, <1>t, <2>1, <3>1 DEF TypeNext
            <4>2. q \in HostStates /\ q.esc_last = FALSE /\ TypeTaken(q, g, t)
                BY <1>t, <2>9, <4>1, HostAtType
            <4> QED BY <4>2 DEF TypeTaken
        <3>3. ~HostDone(q)
            BY <3>1, <3>2, DoneIs
        <3>4. t = SAMPLES => ~IsAck(q, x)
            BY <3>2 DEF IsAck, SAMPLES, CONTROL_ACK
        <3>5. t = CONTROL_ACK => Stores(q, m, Data(m, 2))
            <4>1. t = CONTROL_ACK => Stores(g, m, Data(m, 2 - 1))
                BY <1>2, <2>2 DEF Meets
            <4> QED BY <2>4, <3>2, <4>1, StoresSame
        <3>6. Meets(q, t, m, 2 + 1, x)
            BY <1>t, <2>2, <2>4, <3>1, <3>2, <3>4, <3>5 DEF Meets
        <3> QED BY <1>2, <2>8, <3>2, <3>3, <3>6 DEF Met
    <2>3. CASE g.start_found = FALSE
        <3>1. g.start_last = FALSE
            BY <1>0, <2>3 DEF Meets
        <3>2. /\ q \in HostStates /\ q.esc_last = FALSE /\ SameButStore(q, g)
              /\ SameStore(q, g)
            <4>1. g.esc_last = FALSE
                BY <2>1
            <4> QED BY ONLY <1>0, <1>t, <2>3, <2>9, <3>1, <4>1, HostAtData
        <3>3. q.start_found = FALSE /\ q.start_last = FALSE /\ ~IsAck(q, x)
            BY <2>1, <2>3, <3>1, <3>2 DEF SameButStore, SameStore, IsAck
        <3>4. ~HostDone(q)
            BY <3>2, <3>3, DoneIs
        <3>5. Meets(q, t, m, 2 + 1, x)
            BY <2>4, <3>2, <3>3 DEF Meets
        <3> QED BY <1>2, <2>8, <3>2, <3>4, <3>5 DEF Met
    <2> QED BY <1>0, <2>2, <2>3
<1>3. CASE Marker(m, j)
    <2>1. /\ ~Marker(m, j - 1) /\ Data(m, j) = Data(m, j - 1) /\ j > 2
          /\ j < FrameLen(m)
        BY <1>3, Places
    <2>2. g.esc_last = FALSE /\ FrameByte(t, m, j) = ESC
        BY <1>0, <1>3, <1>t, <2>1, BytesAre DEF Meets
    <2>3. q \in HostStates /\ q.esc_last = TRUE /\ SameButStore(q, g) /\ SameStore(q, g)
        BY <1>0, <2>2, HostAtEsc
    <2>4. /\ q.start_found = g.start_found /\ q.end_found = g.end_found
          /\ q.start_last = FALSE /\ q.type = g.type /\ q.buf = g.buf
        BY <1>0, <2>1, <2>3 DEF SameButStore, SameStore, Meets
    <2>5. /\ j + 1 # 2 /\ j + 1 > 2 /\ j + 1 # 1 /\ j + 1 > 1 /\ j > 1 /\ (j + 1) - 1 = j
        BY <2>1
    <2>6. IsAck(q, x) <=> IsAck(g, x)
        BY <2>4 DEF IsAck
    <2>7. ~HostDone(q)
        <3>1. ~(g.start_found = TRUE /\ g.end_found = TRUE)
            BY <1>0 DEF Meets
        <3> QED BY <2>3, <2>4, <3>1, DoneIs
    <2>8. ~PieceEnd(t, m, j)
        BY <1>l, <1>3, <2>1 DEF PieceEnd, Marker
    <2>9. Stores(g, m, Data(m, j - 1)) => Stores(q, m, Data(m, j))
        BY <2>1, <2>3, StoresSame
    <2>10. Meets(q, t, m, j + 1, x)
        BY <1>3, <2>1, <2>3, <2>4, <2>5, <2>6, <2>9 DEF Meets
    <2> QED BY <2>3, <2>7, <2>8, <2>10 DEF Met
<1>4. CASE j = D1(m)
    <2>1. /\ Marker(m, j - 1) <=> m[1] <= ESC
          /\ ~Marker(m, j) /\ Data(m, j - 1) = 0 /\ Data(m, j) = 0 + 1
          /\ j > 2 /\ j < FrameLen(m)
        BY <1>4, Places
    <2>2. FrameByte(t, m, j) = m[0 + 1] /\ m[0 + 1] \in Nat
        BY <1>4, <1>t, <1>l, BytesAre
    <2>3. /\ q \in HostStates /\ ~HostDone(q) /\ Meets(q, t, m, j + 1, x)
          /\ t = SAMPLES => Idle(q, x)
        BY <2>1, <2>2, MeetsData
    <2>4. PieceEnd(t, m, j) => t = SAMPLES
        BY <2>1 DEF PieceEnd
    <2> QED BY <2>3, <2>4 DEF Met
<1>5. CASE j = D2(m)
    <2>1. /\ Marker(m, j - 1) <=> m[2] <= ESC
          /\ ~Marker(m, j) /\ Data(m, j - 1) = 1 /\ Data(m, j) = 1 + 1
          /\ j > 2 /\ j < FrameLen(m)
        BY <1>5, Places
    <2>2. FrameByte(t, m, j) = m[1 + 1] /\ m[1 + 1] \in Nat /\ m[2] = m[1 + 1]
        BY <1>5, <1>t, <1>l, BytesAre
    <2>3. /\ q \in HostStates /\ ~HostDone(q) /\ Meets(q, t, m, j + 1, x)
          /\ t = SAMPLES => Idle(q, x)
        BY <2>1, <2>2, MeetsData
    <2>4. PieceEnd(t, m, j) => t = SAMPLES
        BY <2>1 DEF PieceEnd
    <2> QED BY <2>3, <2>4 DEF Met
<1>6. CASE j = FrameLen(m)
    <2>1. /\ ~Marker(m, j - 1) /\ Data(m, j - 1) = 2 /\ j > 2 /\ ~(j < FrameLen(m))
          /\ j > 1 /\ j # 2
        BY <1>6, Places
    <2>2. g.esc_last = FALSE /\ g.start_last = FALSE /\ FrameByte(t, m, j) = END
        BY <1>0, <1>6, <1>t, <2>1, BytesAre DEF Meets, FrameLen
    <2>3. /\ q \in HostStates /\ q.esc_last = FALSE
          /\ q.end_found = TRUE /\ q.start_found = g.start_found
          /\ q.start_last = g.start_last /\ q.type = g.type /\ SameStore(q, g)
        BY <1>0, <2>2, HostAtEnd
    <2>4. IsAck(q, x) <=> IsAck(g, x)
        BY <2>3 DEF IsAck, SameStore
    <2>5. HostDone(q) /\ IsAck(q, x) => t = CONTROL_ACK /\ Stores(q, m, 2)
        <3>1. HostDone(q) => g.start_found = TRUE
            BY <2>3, DoneIs
        <3>2. g.start_found = TRUE /\ t = SAMPLES => ~IsAck(g, x)
            BY <1>t, <2>1 DEF Meets
        <3>3. g.start_found = TRUE /\ t = CONTROL_ACK => Stores(g, m, 2)
            BY <2>1 DEF Meets
        <3> QED BY <1>t, <2>3, <2>4, <3>1, <3>2, <3>3, StoresSame
    <2>6. ~HostDone(q) => Idle(q, x)
        <3>1. ~HostDone(q) => q.start_found = FALSE
            BY <1>0, <2>3, DoneIs
        <3>2. g.start_found = FALSE => ~IsAck(g, x)
            BY DEF Meets
        <3> QED BY <2>2, <2>3, <2>4, <3>1, <3>2 DEF Idle
    <2> QED BY <1>6, <2>1, <2>3, <2>5, <2>6 DEF Met
<1> QED BY <1>1, <1>2, <1>3, <1>4, <1>5, <1>6, Places


-----------------------------------------------------------------------------
(* What the host's parser takes of the bytes that have come *)

LEMMA HostByteType ==
    ASSUME NEW g \in HostStates, NEW b \in Nat
    PROVE  HostByte(g, b) \in HostStates
<1> PICK q : q = HostByte(g, b)
    OBVIOUS
<1>0. g.esc_last \in BOOLEAN /\ g.start_last \in BOOLEAN
    BY DEF HostStates
<1>1. CASE g.esc_last = TRUE
    BY <1>1, HostAtEscaped
<1>2. CASE g.esc_last = FALSE /\ b = ESC
    BY <1>2, HostAtEsc
<1>3. CASE g.esc_last = FALSE /\ b = START
    BY <1>3, HostAtStart
<1>4. CASE g.esc_last = FALSE /\ b = END
    BY <1>4, HostAtEnd
<1>5. CASE g.esc_last = FALSE /\ b > ESC
    <2>1. CASE g.start_last = TRUE
        <3>1. TypeNext(g, b)
            BY <1>5, <2>1 DEF TypeNext
        <3> QED BY <3>1, HostAtType
    <2>2. CASE g.start_last = FALSE
        BY <1>5, <2>2, HostAtData
    <2> QED BY <1>0, <2>1, <2>2
<1>6. b = ESC \/ b = START \/ b = END \/ b > ESC
    BY DEF START, END, ESC
<1> QED BY <1>0, <1>1, <1>2, <1>3, <1>4, <1>5, <1>6

(* g is the host's parser after each of the first e bytes of s. *)
Reads(g, h0, s, e) ==
    /\ g[0] = h0
    /\ \A i \in 0 .. e : g[i] \in HostStates
    /\ \A i \in 0 .. e : i < e => ~HostDone(g[i]) /\ g[i + 1] = HostByte(g[i], s[i + 1])

(* r is what a call of its uart_rx_bytes makes of s: it takes e bytes. *)
Took(r, h0, s, g, e) ==
    /\ Reads(g, h0, s, e) /\ e \in 0 .. Len(s)
    /\ r.h = g[e] /\ r.left = SubSeq(s, e + 1, Len(s))
    /\ HostDone(g[e]) \/ e = Len(s)

(* The parser has taken the first r.used of i bytes. *)
HostSound(r, f, i) ==
    /\ r.used \in 0 .. i /\ f[r.used] = r /\ r.h \in HostStates
    /\ \A k \in 0 .. i : k < r.used => ~HostDone(f[k].h)
    /\ HostDone(r.h) \/ r.used = i

LEMMA HostSoundNext ==
    ASSUME NEW f, NEW i \in Nat, NEW b \in Nat, HostSound(f[i], f, i),
           f[i + 1] = HostNext(f[i], b, i + 1)
    PROVE  HostSound(f[i + 1], f, i + 1)
<1>1. CASE HostDone(f[i].h)
    <2>1. f[i + 1] = f[i]
        BY <1>1 DEF HostNext
    <2> QED BY <1>1, <2>1 DEF HostSound
<1>2. CASE ~HostDone(f[i].h)
    <2> PICK q : q = HostByte(f[i].h, b)
        OBVIOUS
    <2>1. f[i + 1] = [h |-> q, used |-> i + 1]
        BY <1>2 DEF HostNext
    <2>2. f[i + 1].h = q /\ f[i + 1].used = i + 1
        BY <2>1
    <2>3. q \in HostStates
        BY HostByteType DEF HostSound
    <2>4. f[i].used = i /\ \A k \in 0 .. i : k < i => ~HostDone(f[k].h)
        BY <1>2 DEF HostSound
    <2>5. \A k \in 0 .. i + 1 : k < i + 1 => ~HostDone(f[k].h)
        <3> TAKE k \in 0 .. i + 1
        <3> HAVE k < i + 1
        <3>1. k \in 0 .. i /\ (k < i \/ k = i)
            OBVIOUS
        <3> QED BY <1>2, <2>4, <3>1
    <2> QED BY <2>2, <2>3, <2>5 DEF HostSound
<1> QED BY <1>1, <1>2

LEMMA HostSoundAll ==
    ASSUME NEW h0 \in HostStates, NEW s \in Seq(Nat)
    PROVE  \A i \in 0 .. Len(s) : HostSound(HostAfter(h0, s)[i], HostAfter(h0, s), i)
<1> PICK f : f = HostAfter(h0, s)
    OBVIOUS
<1>1. /\ f[0] = HostStart(h0)
      /\ \A i \in 1 .. Len(s) : f[i] = HostNext(f[i - 1], s[i], i)
    BY HostSteps
<1> DEFINE T == {i \in 0 .. Len(s) : HostSound(f[i], f, i)}
<1>2. 0 \in T
    <2>1. f[0].h = h0 /\ f[0].used = 0
        BY <1>1 DEF HostStart
    <2> QED BY <2>1 DEF HostSound
<1>3. \A i \in 0 .. Len(s) : i < Len(s) /\ i \in T => i + 1 \in T
    <2> TAKE i \in 0 .. Len(s)
    <2> HAVE i < Len(s) /\ i \in T
    <2>1. /\ i \in Nat /\ i + 1 \in 1 .. Len(s) /\ (i + 1) - 1 = i
          /\ i + 1 \in 0 .. Len(s) /\ HostSound(f[i], f, i)
        OBVIOUS
    <2>2. f[i + 1] = HostNext(f[i], s[i + 1], i + 1) /\ s[i + 1] \in Nat
        BY <1>1, <2>1
    <2>3. HostSound(f[i + 1], f, i + 1)
        BY <2>1, <2>2, HostSoundNext
    <2> QED BY <2>1, <2>3
<1> HIDE DEF T
<1>4. \A i \in 0 .. Len(s) : i \in T
    <2>1. Len(s) \in Nat
        OBVIOUS
    <2> QED BY <1>2, <1>3, <2>1, FromTo
<1> QED BY <1>4 DEF T

(* A call takes the bytes one by one until a frame is done. *)
LEMMA HostTakes ==
    ASSUME NEW h0 \in HostStates, NEW s \in Seq(Nat), NEW r, r = HostParse(h0, s)
    PROVE  \E e \in 0 .. Len(s) : \E g : Took(r, h0, s, g, e)
<1> PICK f : f = HostAfter(h0, s)
    OBVIOUS
<1> PICK e : e = f[Len(s)].used
    OBVIOUS
<1> DEFINE g == [i \in 0 .. Len(s) |-> f[i].h]
<1>1. /\ f[0] = HostStart(h0)
      /\ \A i \in 1 .. Len(s) : f[i] = HostNext(f[i - 1], s[i], i)
    BY HostSteps
<1>2. \A i \in 0 .. Len(s) : HostSound(f[i], f, i)
    BY HostSoundAll
<1>3. Len(s) \in Nat /\ Len(s) \in 0 .. Len(s) /\ 0 \in 0 .. Len(s)
    OBVIOUS
<1>4. HostSound(f[Len(s)], f, Len(s))
    BY <1>2, <1>3
<1>5. /\ e \in 0 .. Len(s) /\ f[e] = f[Len(s)]
      /\ \A k \in 0 .. Len(s) : k < e => ~HostDone(f[k].h)
      /\ HostDone(f[e].h) \/ e = Len(s)
    BY <1>4 DEF HostSound
<1>6. r.h = f[e].h /\ r.left = SubSeq(s, e + 1, Len(s))
    BY <1>5 DEF HostParse
<1>7. \A i \in 0 .. Len(s) : g[i] = f[i].h /\ g[i] \in HostStates
    BY <1>2 DEF HostSound
<1> HIDE DEF g
<1>8. g[0] = h0
    BY <1>1, <1>3, <1>7 DEF HostStart
<1>9. \A i \in 0 .. e : i < e => ~HostDone(g[i]) /\ g[i + 1] = HostByte(g[i], s[i + 1])
    <2> TAKE i \in 0 .. e
    <2> HAVE i < e
    <2>1. i \in 0 .. Len(s) /\ i + 1 \in 1 .. Len(s) /\ i + 1 \in 0 .. Len(s) /\ (i + 1) - 1 = i
        BY <1>5
    <2>2. ~HostDone(f[i].h)
        BY <1>5, <2>1
    <2>3. f[i + 1] = HostNext(f[i], s[i + 1], i + 1)
        BY <1>1, <2>1
    <2>4. f[i + 1].h = HostByte(f[i].h, s[i + 1])
        BY <2>2, <2>3 DEF HostNext
    <2> QED BY <1>7, <2>1, <2>2, <2>4
<1>10. Reads(g, h0, s, e)
    <2>1. \A i \in 0 .. e : i \in 0 .. Len(s)
        BY <1>5
    <2> QED BY <1>7, <1>8, <1>9, <2>1 DEF Reads
<1>11. Took(r, h0, s, g, e)
    BY <1>5, <1>6, <1>7, <1>10 DEF Took
<1> QED BY <1>5, <1>11

-----------------------------------------------------------------------------
(* The bytes on their way to the host *)

(* What a byte is: its frame, where in it, how many frames of the stream    *)
(* were sent before, and whether this is before the ack that starts the     *)
(* stream (0), that ack (1), or behind it (2).                              *)
Roles == [type : {CONTROL_ACK, SAMPLES}, msg : Messages, at : Nat,
          count : Nat, on : 0 .. 2]

Opens(p)  == PieceBegin(p.type, p.msg, p.at)
Closes(p) == PieceEnd(p.type, p.msg, p.at)

AtEnd(p)   == p.at = FrameLen(p.msg)

(* q is the byte behind p in the same frame. *)
Continues(p, q) ==
    /\ q.type = p.type /\ q.msg = p.msg /\ q.count = p.count /\ q.on = p.on
    /\ q.at = p.at + 1

Role(p, b) ==
    /\ p \in Roles /\ p.at \in 1 .. FrameLen(p.msg)
    /\ b = FrameByte(p.type, p.msg, p.at)

(* The pieces of frames, each whole, but for the first, which may be a      *)
(* frame without its first byte.                                            *)
OnWire(s, pl) ==
    /\ \A i \in 1 .. Len(s) : Role(pl[i], s[i])
    /\ \A i \in 1 .. Len(s) : i < Len(s) =>
         \/ Continues(pl[i], pl[i + 1])
         \/ Closes(pl[i]) /\ Opens(pl[i + 1])
    /\ Len(s) > 0 => /\ Opens(pl[1]) \/ pl[1].at = 2
                     /\ Closes(pl[Len(s)])

(* Whole frames, but for what the last one lacks *)
Frames(s, pl) ==
    /\ Len(s) > 0 => pl[1].at = 1
    /\ \A i \in 1 .. Len(s) : i < Len(s) =>
         \/ Continues(pl[i], pl[i + 1])
         \/ AtEnd(pl[i]) /\ pl[i + 1].at = 1

LEMMA RoleIs ==
    ASSUME NEW p, NEW b, Role(p, b)
    PROVE  /\ p.type \in {CONTROL_ACK, SAMPLES} /\ p.type \in Nat /\ p.type > ESC
           /\ p.msg \in Messages /\ p.at \in 1 .. FrameLen(p.msg) /\ p.at \in Nat
           /\ p.count \in Nat /\ p.on \in 0 .. 2
           /\ FrameLen(p.msg) \in 5 .. 7
           /\ b = FrameByte(p.type, p.msg, p.at)
<1>1. p \in Roles /\ p.at \in 1 .. FrameLen(p.msg) /\ b = FrameByte(p.type, p.msg, p.at)
    BY DEF Role
<1>2. /\ p.type \in {CONTROL_ACK, SAMPLES} /\ p.msg \in Messages /\ p.at \in Nat
      /\ p.count \in Nat /\ p.on \in 0 .. 2
    BY <1>1 DEF Roles
<1>3. p.type \in Nat /\ p.type > ESC
    BY <1>2 DEF CONTROL_ACK, SAMPLES, ESC
<1>4. FrameLen(p.msg) \in 5 .. 7
    BY <1>2, Layout
<1> QED BY <1>1, <1>2, <1>3, <1>4

(* g is before the byte of role p, or behind it. *)
MeetsRole(g, p, x) == Meets(g, p.type, p.msg, p.at, x)
MetRole(g, p, x)   == Met(g, p.type, p.msg, p.at, x)

LEMMA RoleMet ==
    ASSUME NEW p, NEW b, Role(p, b), NEW x, x > ESC, NEW g, MeetsRole(g, p, x),
           NEW q, q = HostByte(g, b)
    PROVE  MetRole(q, p, x)
<1>1. /\ p.type \in {CONTROL_ACK, SAMPLES} /\ p.msg \in Messages
      /\ p.at \in 1 .. FrameLen(p.msg) /\ b = FrameByte(p.type, p.msg, p.at)
    BY RoleIs
<1> PICK t, m, j : t = p.type /\ m = p.msg /\ j = p.at
    OBVIOUS
<1>2. /\ t \in {CONTROL_ACK, SAMPLES} /\ m \in Messages /\ j \in 1 .. FrameLen(m)
      /\ q = HostByte(g, FrameByte(t, m, j)) /\ Meets(g, t, m, j, x)
    BY <1>1 DEF MeetsRole
<1>3. Met(q, t, m, j, x)
    BY <1>2, MeetsNext
<1> QED BY <1>3 DEF MetRole

LEMMA OpensMet ==
    ASSUME NEW p, NEW b, Role(p, b), NEW x, NEW g, Idle(g, x), Opens(p)
    PROVE  MeetsRole(g, p, x)
<1>1. /\ p.msg \in Messages /\ p.at \in 1 .. FrameLen(p.msg)
    BY RoleIs
<1> PICK t, m, j : t = p.type /\ m = p.msg /\ j = p.at
    OBVIOUS
<1>2. m \in Messages /\ j \in 1 .. FrameLen(m) /\ PieceBegin(t, m, j)
    BY <1>1 DEF Opens
<1>3. Meets(g, t, m, j, x)
    BY <1>2, IdleMeets
<1> QED BY <1>3 DEF MeetsRole

LEMMA RestMet ==
    ASSUME NEW p, NEW b, Role(p, b), NEW x, NEW g, Idle(g, x),
           g.start_found = FALSE, p.at = 2
    PROVE  MeetsRole(g, p, x)
<1>1. p.msg \in Messages
    BY RoleIs
<1> PICK t, m : t = p.type /\ m = p.msg
    OBVIOUS
<1>2. Meets(g, t, m, 2, x)
    BY <1>1, RestMeets
<1> QED BY <1>2 DEF MeetsRole

LEMMA MetOn ==
    ASSUME NEW p, NEW b, Role(p, b), NEW q, NEW c, Role(q, c),
           Continues(p, q) \/ (Closes(p) /\ Opens(q)),
           NEW x, NEW g, MetRole(g, p, x), ~HostDone(g)
    PROVE  MeetsRole(g, q, x)
<1>1. CASE Continues(p, q)
    <2>1. p.at \in Nat /\ q.at \in 1 .. FrameLen(q.msg) /\ FrameLen(q.msg) \in 5 .. 7
        BY RoleIs
    <2>2. q.type = p.type /\ q.msg = p.msg /\ q.at = p.at + 1
        BY <1>1 DEF Continues
    <2>3. p.at < FrameLen(p.msg)
        BY <2>1, <2>2
    <2> QED BY <2>2, <2>3 DEF MetRole, Met, MeetsRole
<1>2. CASE Closes(p) /\ Opens(q)
    <2>1. Idle(g, x)
        BY <1>2 DEF MetRole, Met, Closes
    <2> QED BY <1>2, <2>1, OpensMet
<1> QED BY <1>1, <1>2

(* Whatever pieces come: the parser at each byte it takes *)
LEMMA MetAlong ==
    ASSUME NEW s \in Seq(Nat), NEW pl, OnWire(s, pl), NEW x, x > ESC,
           NEW h0, Idle(h0, x), h0.start_found = FALSE,
           NEW g, NEW e \in 1 .. Len(s), Reads(g, h0, s, e)
    PROVE  \A i \in 1 .. e : MetRole(g[i], pl[i], x)
<1> DEFINE T == {i \in 1 .. e : MetRole(g[i], pl[i], x)}
<1>0. Len(s) \in Nat /\ e \in Nat /\ 1 \in Nat /\ 1 \in 1 .. e /\ 1 \in 1 .. Len(s)
    OBVIOUS
<1>1. 1 \in T
    <2>1. Role(pl[1], s[1]) /\ (Opens(pl[1]) \/ pl[1].at = 2)
        BY <1>0 DEF OnWire
    <2>2. MeetsRole(h0, pl[1], x)
        BY <2>1, OpensMet, RestMet
    <2>3. g[1] = HostByte(h0, s[1])
        <3>1. 0 \in 0 .. e /\ 0 < e /\ 0 + 1 = 1
            BY <1>0
        <3> QED BY <3>1 DEF Reads
    <2>4. MetRole(g[1], pl[1], x)
        BY <2>1, <2>2, <2>3, RoleMet
    <2> QED BY <1>0, <2>4
<1>2. \A i \in 1 .. e : i < e /\ i \in T => i + 1 \in T
    <2> TAKE i \in 1 .. e
    <2> HAVE i < e /\ i \in T
    <2>1. /\ i \in 0 .. e /\ i < e /\ i \in 1 .. Len(s) /\ i + 1 \in 1 .. Len(s)
          /\ i < Len(s) /\ i + 1 \in 1 .. e /\ MetRole(g[i], pl[i], x)
        BY <1>0
    <2>2. ~HostDone(g[i]) /\ g[i + 1] = HostByte(g[i], s[i + 1])
        BY <2>1 DEF Reads
    <2>3. /\ Role(pl[i], s[i]) /\ Role(pl[i + 1], s[i + 1])
          /\ Continues(pl[i], pl[i + 1]) \/ (Closes(pl[i]) /\ Opens(pl[i + 1]))
        BY <2>1 DEF OnWire
    <2>4. MeetsRole(g[i], pl[i + 1], x)
        BY <2>1, <2>2, <2>3, MetOn
    <2>5. MetRole(g[i + 1], pl[i + 1], x)
        BY <2>2, <2>3, <2>4, RoleMet
    <2> QED BY <2>1, <2>5
<1> HIDE DEF T
<1>3. \A i \in 1 .. e : i \in T
    BY <1>0, <1>1, <1>2, FromTo
<1> QED BY <1>3 DEF T

(* A call whose buffer holds no answer yet returns with one only at the end *)
(* of such an ack, and it returns behind a start or at an end of a frame.   *)
LEMMA TakenAstray ==
    ASSUME NEW s \in Seq(Nat), NEW pl, OnWire(s, pl), NEW x, x > ESC,
           NEW h0, Idle(h0, x), h0.start_found = FALSE,
           NEW r, NEW g, NEW e, Took(r, h0, s, g, e)
    PROVE  /\ HostDone(r.h) => /\ e >= 1 /\ e \in 1 .. Len(s)
                               /\ pl[e].at = 1 \/ AtEnd(pl[e])
                               /\ IsAck(r.h, x) =>
                                    /\ pl[e].type = CONTROL_ACK
                                    /\ Stores(r.h, pl[e].msg, 2)
           /\ ~HostDone(r.h) => r.left = <<>> /\ ~IsAck(r.h, x)
<1>1. /\ Reads(g, h0, s, e) /\ e \in 0 .. Len(s) /\ Len(s) \in Nat
      /\ r.h = g[e] /\ r.left = SubSeq(s, e + 1, Len(s))
      /\ HostDone(g[e]) \/ e = Len(s)
    BY DEF Took
<1>2. CASE e = 0
    <2>1. r.h = h0
        BY <1>1, <1>2 DEF Reads
    <2>2. ~HostDone(r.h) /\ ~IsAck(r.h, x)
        BY <2>1, DoneIs DEF Idle
    <2>3. Len(s) = 0
        BY <1>1, <1>2, <2>1, <2>2
    <2> QED BY <1>1, <1>2, <2>2, <2>3
<1>3. CASE e # 0
    <2>1. e \in 1 .. Len(s) /\ e \in 1 .. e /\ e >= 1
        BY <1>1, <1>3
    <2>2. MetRole(r.h, pl[e], x)
        BY <1>1, <2>1, MetAlong
    <2>3. HostDone(r.h) => pl[e].at = 1 \/ AtEnd(pl[e])
        BY <2>2 DEF MetRole, Met, AtEnd
    <2>4. HostDone(r.h) /\ IsAck(r.h, x) =>
            pl[e].type = CONTROL_ACK /\ Stores(r.h, pl[e].msg, 2)
        BY <2>2 DEF MetRole, Met
    <2>5. ~HostDone(r.h) => r.left = <<>> /\ ~IsAck(r.h, x)
        <3> SUFFICES ASSUME ~HostDone(r.h) PROVE r.left = <<>> /\ ~IsAck(r.h, x)
            OBVIOUS
        <3>1. e = Len(s)
            BY <1>1
        <3>2. Closes(pl[e])
            BY <2>1, <3>1 DEF OnWire
        <3>3. Idle(r.h, x)
            BY <2>2, <3>2 DEF MetRole, Met, Closes
        <3> QED BY <1>1, <3>1, <3>3 DEF Idle
    <2> QED BY <2>1, <2>3, <2>4, <2>5
<1> QED BY <1>2, <1>3

(* The parser as a call of uart_rx_bytes begins *)
Fresh(g) ==
    /\ g \in HostStates /\ g.start_found = FALSE /\ g.end_found = FALSE
    /\ g.esc_last = FALSE /\ g.start_last = FALSE /\ g.n = 0

SameFrame(p, q) ==
    q.type = p.type /\ q.msg = p.msg /\ q.count = p.count /\ q.on = p.on

HearsRole(g, p) == Hears(g, p.type, p.msg, p.at)

LEMMA FreshHears ==
    ASSUME NEW g, Fresh(g), NEW m \in Messages, NEW t
    PROVE  Hears(g, t, m, 0)
<1>1. FrameLen(m) \in 5 .. 7 /\ 1 \in 1 .. FrameLen(m)
    BY Layout
<1>2. ~Marker(m, 0) /\ Data(m, 0) = 0
    BY <1>1, Places
<1>3. Stores(g, m, 0)
    BY DEF Fresh, Stores
<1> QED BY <1>1, <1>2, <1>3 DEF Hears, Fresh

LEMMA HearsOn ==
    ASSUME NEW p, NEW b, Role(p, b), NEW j \in Nat, p.at = j + 1,
           NEW g, Hears(g, p.type, p.msg, j), NEW q, q = HostByte(g, b)
    PROVE  HearsRole(q, p)
<1>1. /\ p.type \in Nat /\ p.type > ESC /\ p.msg \in Messages
      /\ p.at \in 1 .. FrameLen(p.msg) /\ FrameLen(p.msg) \in 5 .. 7
      /\ b = FrameByte(p.type, p.msg, p.at)
    BY RoleIs
<1> PICK t, m : t = p.type /\ m = p.msg
    OBVIOUS
<1>2. /\ t \in Nat /\ t > ESC /\ m \in Messages /\ j < FrameLen(m)
      /\ Hears(g, t, m, j) /\ q = HostByte(g, FrameByte(t, m, j + 1))
    BY <1>1
<1>3. Hears(q, t, m, j + 1)
    BY <1>2, HearsNext
<1> QED BY <1>3 DEF HearsRole

LEMMA HearsDone ==
    ASSUME NEW p, NEW b, Role(p, b), NEW g, HearsRole(g, p)
    PROVE  /\ HostDone(g) <=> AtEnd(p)
           /\ AtEnd(p) => g.type = p.type /\ Stores(g, p.msg, 2)
<1>1. /\ p.msg \in Messages /\ p.at \in 1 .. FrameLen(p.msg)
      /\ FrameLen(p.msg) \in 5 .. 7
    BY RoleIs
<1>2. /\ g \in HostStates /\ g.start_found = TRUE
      /\ g.end_found = TRUE <=> p.at = FrameLen(p.msg)
      /\ p.at > 1 => g.type = p.type
      /\ Stores(g, p.msg, Data(p.msg, p.at))
    BY <1>1 DEF HearsRole, Hears
<1>3. HostDone(g) <=> AtEnd(p)
    BY <1>2, DoneIs DEF AtEnd
<1>4. AtEnd(p) => Data(p.msg, p.at) = 2 /\ p.at > 1
    BY <1>1, Places DEF AtEnd
<1> QED BY <1>2, <1>3, <1>4

(* Of whole frames it hears the first. *)
LEMMA HeardAlong ==
    ASSUME NEW s \in Seq(Nat), NEW pl, OnWire(s, pl), Frames(s, pl),
           NEW h0, Fresh(h0), NEW g, NEW e \in 1 .. Len(s), Reads(g, h0, s, e)
    PROVE  \A i \in 1 .. e : /\ HearsRole(g[i], pl[i])
                             /\ SameFrame(pl[1], pl[i]) /\ pl[i].at = i
<1> DEFINE At(i) == /\ HearsRole(g[i], pl[i])
                    /\ SameFrame(pl[1], pl[i]) /\ pl[i].at = i
           T == {i \in 1 .. e : At(i)}
<1>0. Len(s) \in Nat /\ e \in Nat /\ 1 \in Nat /\ 1 \in 1 .. e /\ 1 \in 1 .. Len(s)
      /\ Len(s) > 0
    OBVIOUS
<1>1. At(1)
    <2>1. Role(pl[1], s[1]) /\ pl[1].at = 1
        BY <1>0 DEF OnWire, Frames
    <2>2. pl[1].msg \in Messages
        BY <2>1, RoleIs
    <2>3. Hears(h0, pl[1].type, pl[1].msg, 0)
        BY <2>2, FreshHears
    <2>4. g[1] = HostByte(h0, s[1])
        <3>1. 0 \in 0 .. e /\ 0 < e /\ 0 + 1 = 1
            BY <1>0
        <3> QED BY <3>1 DEF Reads
    <2>5. pl[1].at = 0 + 1
        BY <2>1
    <2>6. HearsRole(g[1], pl[1])
        BY <2>1, <2>3, <2>4, <2>5, HearsOn
    <2> QED BY <2>1, <2>6 DEF SameFrame
<1>2. \A i \in 1 .. e : i < e /\ At(i) => At(i + 1)
    <2> TAKE i \in 1 .. e
    <2> HAVE i < e /\ At(i)
    <2> HIDE DEF At
    <2>1. /\ i \in 0 .. e /\ i < e /\ i \in 1 .. Len(s) /\ i + 1 \in 1 .. Len(s)
          /\ i < Len(s) /\ i + 1 \in 1 .. e /\ i \in Nat
        BY <1>0
    <2>a. HearsRole(g[i], pl[i]) /\ SameFrame(pl[1], pl[i]) /\ pl[i].at = i
        BY DEF At
    <2>2. ~HostDone(g[i]) /\ g[i + 1] = HostByte(g[i], s[i + 1])
        BY <2>1 DEF Reads
    <2>3. Role(pl[i], s[i]) /\ Role(pl[i + 1], s[i + 1])
        BY <2>1 DEF OnWire
    <2>4. ~AtEnd(pl[i])
        BY <2>2, <2>3, <2>a, HearsDone
    <2>5. Continues(pl[i], pl[i + 1])
        BY <2>1, <2>4 DEF Frames
    <2>6. Hears(g[i], pl[i + 1].type, pl[i + 1].msg, i) /\ pl[i + 1].at = i + 1
        BY <2>5, <2>a DEF HearsRole, Continues
    <2>7. HearsRole(g[i + 1], pl[i + 1])
        BY <2>1, <2>2, <2>3, <2>6, HearsOn
    <2>8. SameFrame(pl[1], pl[i + 1])
        BY <2>5, <2>a DEF SameFrame, Continues
    <2> QED BY <2>6, <2>7, <2>8 DEF At
<1> HIDE DEF At
<1>3. 1 \in T
    BY <1>0, <1>1
<1>4. \A i \in 1 .. e : i < e /\ i \in T => i + 1 \in T
    <2> TAKE i \in 1 .. e
    <2> HAVE i < e /\ i \in T
    <2>1. i + 1 \in 1 .. e
        BY <1>0
    <2> QED BY <1>2, <2>1
<1> HIDE DEF T
<1>5. \A i \in 1 .. e : i \in T
    BY <1>0, <1>3, <1>4, FromTo
<1> QED BY <1>5 DEF At, T

LEMMA TakenInOrder ==
    ASSUME NEW s \in Seq(Nat), NEW pl, OnWire(s, pl), Frames(s, pl),
           NEW h0, Fresh(h0), NEW r, NEW g, NEW e, Took(r, h0, s, g, e)
    PROVE  /\ HostDone(r.h) =>
                /\ e >= 1 /\ e \in 1 .. Len(s) /\ AtEnd(pl[e]) /\ SameFrame(pl[1], pl[e])
                /\ r.h.type = pl[e].type /\ Stores(r.h, pl[e].msg, 2)
           /\ ~HostDone(r.h) =>
                /\ r.left = <<>> /\ (Len(s) = 0 => r.h = h0)
                /\ Len(s) > 0 => ~AtEnd(pl[Len(s)]) /\ SameFrame(pl[1], pl[Len(s)])
<1>1. /\ Reads(g, h0, s, e) /\ e \in 0 .. Len(s) /\ Len(s) \in Nat
      /\ r.h = g[e] /\ r.left = SubSeq(s, e + 1, Len(s))
      /\ HostDone(g[e]) \/ e = Len(s)
    BY DEF Took
<1>2. CASE e = 0
    <2>1. r.h = h0
        BY <1>1, <1>2 DEF Reads
    <2>2. ~HostDone(r.h)
        BY <2>1, DoneIs DEF Fresh
    <2>3. Len(s) = 0
        BY <1>1, <1>2, <2>1, <2>2
    <2> QED BY <1>1, <1>2, <2>1, <2>2, <2>3
<1>3. CASE e # 0
    <2>1. e \in 1 .. Len(s) /\ e \in 1 .. e /\ e >= 1
        BY <1>1, <1>3
    <2>2. HearsRole(r.h, pl[e]) /\ SameFrame(pl[1], pl[e])
        BY <1>1, <2>1, HeardAlong
    <2>3. Role(pl[e], s[e])
        BY <2>1 DEF OnWire
    <2>4. /\ HostDone(r.h) <=> AtEnd(pl[e])
          /\ AtEnd(pl[e]) => r.h.type = pl[e].type /\ Stores(r.h, pl[e].msg, 2)
        BY <2>2, <2>3, HearsDone
    <2>5. ~HostDone(r.h) => e = Len(s) /\ Len(s) # 0 /\ r.left = <<>>
        BY <1>1, <1>3
    <2> QED BY <2>1, <2>2, <2>4, <2>5
<1> QED BY <1>2, <1>3

-----------------------------------------------------------------------------
(* Bytes leave at the front and come at the back *)

(* t and its roles pm are what is left of s and pl behind the first e. *)
Rest(t, pm, s, pl, e) ==
    /\ e \in 1 .. Len(s) /\ t \in Seq(Nat) /\ Len(t) = Len(s) - e
    /\ \A i \in 1 .. Len(t) : t[i] = s[i + e] /\ pm[i] = pl[i + e]

LEMMA RestIs ==
    ASSUME NEW s \in Seq(Nat), NEW pl, NEW e \in 1 .. Len(s),
           NEW t, t = SubSeq(s, e + 1, Len(s))
    PROVE  \E pm : Rest(t, pm, s, pl, e)
<1>1. t \in Seq(Nat) /\ Len(t) = Len(s) - e
    OBVIOUS
<1>2. \A i \in 1 .. Len(t) : t[i] = s[i + e]
    <2> TAKE i \in 1 .. Len(t)
    <2>1. i \in 1 .. Len(s) - e /\ (e + 1) + (i - 1) = i + e
        BY <1>1
    <2> QED BY SMTT(60), <2>1
<1> DEFINE pm == [i \in 1 .. Len(t) |-> pl[i + e]]
<1>3. \A i \in 1 .. Len(t) : pm[i] = pl[i + e]
    OBVIOUS
<1> HIDE DEF pm
<1> QED BY <1>1, <1>2, <1>3 DEF Rest

LEMMA RestTypes ==
    ASSUME NEW s \in Seq(Nat), NEW t, NEW pm, NEW pl, NEW e, Rest(t, pm, s, pl, e)
    PROVE  /\ Len(s) \in Nat /\ Len(t) \in Nat /\ e \in Nat /\ e >= 1 /\ e <= Len(s)
           /\ e \in 1 .. Len(s) /\ Len(t) = Len(s) - e
           /\ \A i \in 1 .. Len(t) :
                i + e \in 1 .. Len(s) /\ t[i] = s[i + e] /\ pm[i] = pl[i + e]
           /\ Len(t) > 0 => /\ pm[1] = pl[e + 1] /\ pm[Len(t)] = pl[Len(s)]
                            /\ e + 1 \in 1 .. Len(s) /\ e < Len(s)
                            /\ 1 \in 1 .. Len(t) /\ Len(t) \in 1 .. Len(t)
<1>1. /\ Len(s) \in Nat /\ e \in 1 .. Len(s) /\ t \in Seq(Nat) /\ Len(t) \in Nat
      /\ Len(t) = Len(s) - e
      /\ \A i \in 1 .. Len(t) : t[i] = s[i + e] /\ pm[i] = pl[i + e]
    BY DEF Rest
<1> PICK x \in Nat, y \in Nat : x = Len(s) /\ y = Len(t)
    BY <1>1
<1>2. y = x - e /\ e \in 1 .. x
    BY <1>1
<1>3. \A i \in 1 .. y : i + e \in 1 .. x
    BY <1>2
<1>4. y > 0 => /\ 1 \in 1 .. y /\ y \in 1 .. y /\ 1 + e = e + 1 /\ y + e = x
               /\ e + 1 \in 1 .. x /\ e < x
    BY <1>2
<1> QED BY <1>1, <1>2, <1>3, <1>4

LEMMA LastEnds ==
    ASSUME NEW p, NEW b, Role(p, b), NEW q, NEW c, Role(q, c), AtEnd(p)
    PROVE  ~Continues(p, q)
<1>1. p.at \in Nat /\ q.at \in 1 .. FrameLen(q.msg) /\ FrameLen(q.msg) \in 5 .. 7
    BY RoleIs
<1> QED BY <1>1 DEF AtEnd, Continues

LEMMA RestOnWire ==
    ASSUME NEW s \in Seq(Nat), NEW pl, OnWire(s, pl),
           NEW t, NEW pm, NEW e, Rest(t, pm, s, pl, e), pl[e].at = 1 \/ AtEnd(pl[e])
    PROVE  /\ OnWire(t, pm)
           /\ Frames(s, pl) /\ AtEnd(pl[e]) => Frames(t, pm)
           /\ Len(t) > 0 => Role(pl[e], s[e]) /\ Role(pm[1], t[1])
           /\ AtEnd(pl[e]) /\ Frames(s, pl) /\ Len(t) > 0 => ~Continues(pl[e], pm[1])
<1>0. /\ Len(s) \in Nat /\ Len(t) \in Nat /\ e \in Nat /\ e >= 1 /\ e <= Len(s)
      /\ e \in 1 .. Len(s) /\ Len(t) = Len(s) - e
      /\ \A i \in 1 .. Len(t) :
           i + e \in 1 .. Len(s) /\ t[i] = s[i + e] /\ pm[i] = pl[i + e]
      /\ Len(t) > 0 => /\ pm[1] = pl[e + 1] /\ pm[Len(t)] = pl[Len(s)]
                       /\ e + 1 \in 1 .. Len(s) /\ e < Len(s)
                       /\ 1 \in 1 .. Len(t) /\ Len(t) \in 1 .. Len(t)
    BY RestTypes
<1>1. \A i \in 1 .. Len(s) : Role(pl[i], s[i])
    BY DEF OnWire
<1>2. \A i \in 1 .. Len(t) : Role(pm[i], t[i])
    BY <1>0, <1>1
<1>3. \A i \in 1 .. Len(t) : i < Len(t) =>
        /\ i + e \in 1 .. Len(s) /\ i + e < Len(s)
        /\ pm[i] = pl[i + e] /\ pm[i + 1] = pl[(i + e) + 1]
    <2> TAKE i \in 1 .. Len(t)
    <2> HAVE i < Len(t)
    <2> PICK x \in Nat, y \in Nat : x = Len(s) /\ y = Len(t)
        BY <1>0
    <2>1. y = x - e /\ e \in Nat /\ i \in 1 .. y /\ i < y
        BY <1>0
    <2>2. i + 1 \in 1 .. y /\ (i + 1) + e = (i + e) + 1 /\ i + e < x
        BY ONLY x \in Nat, y \in Nat, <2>1
    <2>3. i + 1 \in 1 .. Len(t) /\ i + e < Len(s)
        BY <2>2
    <2>4. /\ i + e \in 1 .. Len(s) /\ pm[i] = pl[i + e]
          /\ pm[i + 1] = pl[(i + 1) + e]
        BY <1>0, <2>3
    <2> QED BY <2>2, <2>3, <2>4
<1>4. Len(t) > 0 => /\ Continues(pl[e], pm[1]) \/ (Closes(pl[e]) /\ Opens(pm[1]))
                    /\ Closes(pm[Len(t)])
    <2>1. Len(t) > 0 => /\ Continues(pl[e], pl[e + 1])
                             \/ (Closes(pl[e]) /\ Opens(pl[e + 1]))
                        /\ Closes(pl[Len(s)])
        BY <1>0 DEF OnWire
    <2> QED BY <1>0, <2>1
<1>5. Len(t) > 0 => Role(pl[e], s[e]) /\ Role(pm[1], t[1])
    BY <1>0, <1>1, <1>2
<1>6. Len(t) > 0 => Opens(pm[1]) \/ pm[1].at = 2
    <2> SUFFICES ASSUME Len(t) > 0, Continues(pl[e], pm[1]) PROVE pm[1].at = 2
        BY <1>4
    <2>1. ~AtEnd(pl[e])
        BY <1>5, LastEnds
    <2> QED BY <2>1 DEF Continues
<1>7. OnWire(t, pm)
    <2>1. \A i \in 1 .. Len(t) : i < Len(t) =>
            Continues(pm[i], pm[i + 1]) \/ (Closes(pm[i]) /\ Opens(pm[i + 1]))
        BY <1>3 DEF OnWire
    <2> QED BY <1>2, <1>4, <1>6, <2>1 DEF OnWire
<1>8. AtEnd(pl[e]) /\ Len(t) > 0 => ~Continues(pl[e], pm[1])
    BY <1>5, LastEnds
<1>9. Frames(s, pl) /\ AtEnd(pl[e]) => Frames(t, pm)
    <2> SUFFICES ASSUME Frames(s, pl), AtEnd(pl[e]) PROVE Frames(t, pm)
        OBVIOUS
    <2>1. \A i \in 1 .. Len(t) : i < Len(t) =>
            Continues(pm[i], pm[i + 1]) \/ (AtEnd(pm[i]) /\ pm[i + 1].at = 1)
        <3> TAKE i \in 1 .. Len(t)
        <3> HAVE i < Len(t)
        <3> PICK k : k = i + e
            OBVIOUS
        <3>1. k \in 1 .. Len(s) /\ k < Len(s) /\ pm[i] = pl[k] /\ pm[i + 1] = pl[k + 1]
            BY <1>3
        <3> QED BY <3>1 DEF Frames
    <2>2. Len(t) > 0 => pm[1].at = 1
        <3>1. Len(t) > 0 => Continues(pl[e], pl[e + 1])
                              \/ (AtEnd(pl[e]) /\ pl[e + 1].at = 1)
            BY <1>0 DEF Frames
        <3> QED BY <1>0, <1>8, <3>1
    <2> QED BY <2>1, <2>2 DEF Frames
<1> QED BY <1>5, <1>7, <1>8, <1>9

(* bytes are n bytes of a frame from p on, a piece of it. *)
Piece(bytes, p, n) ==
    /\ n \in Nat /\ n >= 1 /\ bytes \in Seq(Nat) /\ Len(bytes) = n
    /\ p \in Roles /\ p.at >= 1 /\ p.at + n <= FrameLen(p.msg) + 1
    /\ \A i \in 1 .. n : bytes[i] = FrameByte(p.type, p.msg, (p.at + i) - 1)
    /\ Opens(p) /\ PieceEnd(p.type, p.msg, (p.at + n) - 1)

(* t and pm are s and pl with n bytes of a frame from p on. *)
Adds(t, pm, s, pl, p, n) ==
    /\ p \in Roles
    /\ n \in Nat /\ n >= 1 /\ t \in Seq(Nat) /\ Len(t) = Len(s) + n
    /\ \A i \in 1 .. Len(s) : t[i] = s[i] /\ pm[i] = pl[i]
    /\ \A i \in Len(s) + 1 .. Len(t) :
         /\ Role(pm[i], t[i]) /\ SameFrame(p, pm[i])
         /\ pm[i].at = (p.at + (i - Len(s))) - 1
    /\ Opens(p) /\ Closes(pm[Len(t)])

LEMMA PieceRole ==
    ASSUME NEW bytes, NEW p, NEW n, Piece(bytes, p, n), NEW i \in 1 .. n,
           NEW q, q = [p EXCEPT !.at = (p.at + i) - 1]
    PROVE  /\ Role(q, bytes[i]) /\ SameFrame(p, q) /\ q.at = (p.at + i) - 1
<1>1. /\ n \in Nat /\ p \in Roles /\ p.at \in Nat /\ p.at >= 1
      /\ p.at + n <= FrameLen(p.msg) + 1 /\ p.msg \in Messages
      /\ bytes[i] = FrameByte(p.type, p.msg, (p.at + i) - 1)
    BY DEF Piece, Roles
<1>2. FrameLen(p.msg) \in 5 .. 7
    BY <1>1, Layout
<1>3. (p.at + i) - 1 \in 1 .. FrameLen(p.msg)
    BY <1>1, <1>2
<1>4. (p.at + i) - 1 \in Nat
    BY <1>1
<1>5. q \in Roles
    BY <1>1, <1>4 DEF Roles
<1>6. /\ q.at = (p.at + i) - 1 /\ q.type = p.type /\ q.msg = p.msg
      /\ q.count = p.count /\ q.on = p.on
    BY <1>1 DEF Roles
<1> QED BY <1>1, <1>3, <1>5, <1>6 DEF Role, SameFrame

LEMMA JoinedIs ==
    ASSUME NEW a \in Seq(Nat), NEW b \in Seq(Nat)
    PROVE  /\ a \o b \in Seq(Nat) /\ Len(a) \in Nat /\ Len(b) \in Nat
           /\ Len(a \o b) = Len(a) + Len(b)
           /\ \A i \in 1 .. Len(a) : (a \o b)[i] = a[i]
           /\ \A i \in Len(a) + 1 .. Len(a) + Len(b) :
                i - Len(a) \in 1 .. Len(b) /\ (a \o b)[i] = b[i - Len(a)]
<1>1. /\ a \o b \in Seq(Nat) /\ Len(a) \in Nat /\ Len(b) \in Nat
      /\ Len(a \o b) = Len(a) + Len(b)
      /\ \A i \in 1 .. Len(a) + Len(b) :
           (a \o b)[i] = IF i <= Len(a) THEN a[i] ELSE b[i - Len(a)]
    OBVIOUS
<1> QED BY <1>1

LEMMA AddsIs ==
    ASSUME NEW s \in Seq(Nat), NEW pl, NEW bytes, NEW p, NEW n, Piece(bytes, p, n),
           NEW t, t = s \o bytes
    PROVE  \E pm : Adds(t, pm, s, pl, p, n)
<1>1. /\ n \in Nat /\ n >= 1 /\ bytes \in Seq(Nat) /\ Len(bytes) = n /\ Opens(p)
      /\ p \in Roles
    BY DEF Piece
<1>2. /\ t \in Seq(Nat) /\ Len(t) = Len(s) + n /\ Len(s) \in Nat
      /\ \A i \in 1 .. Len(s) : t[i] = s[i]
      /\ \A i \in Len(s) + 1 .. Len(t) : i - Len(s) \in 1 .. n /\ t[i] = bytes[i - Len(s)]
    <2>1. /\ s \o bytes \in Seq(Nat) /\ Len(s) \in Nat
          /\ Len(s \o bytes) = Len(s) + Len(bytes)
          /\ \A i \in 1 .. Len(s) : (s \o bytes)[i] = s[i]
          /\ \A i \in Len(s) + 1 .. Len(s) + Len(bytes) :
               i - Len(s) \in 1 .. Len(bytes) /\ (s \o bytes)[i] = bytes[i - Len(s)]
        BY <1>1, JoinedIs
    <2> QED BY <1>1, <2>1
<1> DEFINE Of(k) == [p EXCEPT !.at = (p.at + k) - 1]
           pm == [i \in 1 .. Len(t) |-> IF i <= Len(s) THEN pl[i] ELSE Of(i - Len(s))]
<1>3. /\ \A i \in 1 .. Len(s) : pm[i] = pl[i]
      /\ \A i \in Len(s) + 1 .. Len(t) : pm[i] = Of(i - Len(s))
    <2> HIDE DEF Of
    <2> QED BY <1>1, <1>2
<1> HIDE DEF pm
<1>4. \A i \in Len(s) + 1 .. Len(t) :
        /\ Role(pm[i], t[i]) /\ SameFrame(p, pm[i])
        /\ pm[i].at = (p.at + (i - Len(s))) - 1
    <2> TAKE i \in Len(s) + 1 .. Len(t)
    <2> PICK k : k = i - Len(s)
        OBVIOUS
    <2>1. k \in 1 .. n /\ t[i] = bytes[k] /\ pm[i] = Of(k)
        BY <1>2, <1>3
    <2>2. Role(Of(k), bytes[k]) /\ SameFrame(p, Of(k)) /\ Of(k).at = (p.at + k) - 1
        BY <2>1, PieceRole
    <2> HIDE DEF Of
    <2> QED BY <2>1, <2>2
<1>5. Closes(pm[Len(t)])
    <2>1. Len(t) \in Len(s) + 1 .. Len(t) /\ Len(t) - Len(s) = n
        BY <1>1, <1>2
    <2>2. SameFrame(p, pm[Len(t)]) /\ pm[Len(t)].at = (p.at + n) - 1
        BY <1>4, <2>1
    <2> QED BY <2>2 DEF SameFrame, Closes, Piece
<1> QED BY <1>1, <1>2, <1>3, <1>4, <1>5 DEF Adds

LEMMA AddsTypes ==
    ASSUME NEW s \in Seq(Nat), NEW pl, NEW t, NEW pm, NEW p, NEW n,
           Adds(t, pm, s, pl, p, n)
    PROVE  /\ Len(s) \in Nat /\ Len(t) \in Nat /\ n \in Nat /\ n >= 1
           /\ Len(t) = Len(s) + n /\ Len(t) > 0
           /\ Len(s) + 1 \in Len(s) + 1 .. Len(t) /\ Len(t) \in Len(s) + 1 .. Len(t)
           /\ \A i \in 1 .. Len(t) : i \in 1 .. Len(s) \/ i \in Len(s) + 1 .. Len(t)
           /\ \A i \in 1 .. Len(t) : i < Len(t) =>
                \/ i \in 1 .. Len(s) /\ i < Len(s) /\ i + 1 \in 1 .. Len(s)
                \/ i \in 1 .. Len(s) /\ i = Len(s) /\ Len(s) > 0
                \/ i \in Len(s) + 1 .. Len(t) /\ i + 1 \in Len(s) + 1 .. Len(t)
           /\ 1 \in 1 .. Len(s) \/ Len(s) = 0
           /\ SameFrame(p, pm[Len(s) + 1]) /\ pm[Len(s) + 1].at = p.at
           /\ SameFrame(p, pm[Len(t)]) /\ pm[Len(t)].at = (p.at + n) - 1
           /\ Role(pm[Len(s) + 1], t[Len(s) + 1]) /\ Role(pm[Len(t)], t[Len(t)])
<1>1. /\ Len(s) \in Nat /\ n \in Nat /\ n >= 1 /\ Len(t) \in Nat /\ Len(t) = Len(s) + n
      /\ \A i \in Len(s) + 1 .. Len(t) :
           /\ Role(pm[i], t[i]) /\ SameFrame(p, pm[i])
           /\ pm[i].at = (p.at + (i - Len(s))) - 1
    BY DEF Adds
<1> PICK x \in Nat, y \in Nat : x = Len(s) /\ y = Len(t)
    BY <1>1
<1>2. y = x + n /\ y > 0 /\ x + 1 \in x + 1 .. y /\ y \in x + 1 .. y
    BY <1>1
<1>3. /\ \A i \in 1 .. y : i \in 1 .. x \/ i \in x + 1 .. y
      /\ \A i \in 1 .. y : i < y =>
           \/ i \in 1 .. x /\ i < x /\ i + 1 \in 1 .. x
           \/ i \in 1 .. x /\ i = x /\ x > 0
           \/ i \in x + 1 .. y /\ i + 1 \in x + 1 .. y
      /\ 1 \in 1 .. x \/ x = 0
    BY <1>1, <1>2
<1>4. /\ Role(pm[x + 1], t[x + 1]) /\ SameFrame(p, pm[x + 1])
      /\ pm[x + 1].at = (p.at + ((x + 1) - x)) - 1
    BY <1>1, <1>2
<1>5. pm[x + 1].at \in Nat
    BY <1>4, RoleIs
<1>6. /\ Role(pm[y], t[y]) /\ SameFrame(p, pm[y]) /\ pm[y].at = (p.at + (y - x)) - 1
    BY <1>1, <1>2
<1>7. /\ pm[x + 1].at = p.at /\ pm[y].at = (p.at + n) - 1
    <2>1. p \in Roles
        BY DEF Adds
    <2>2. p.at \in Nat
        BY <2>1 DEF Roles
    <2>3. (p.at + ((x + 1) - x)) - 1 = p.at /\ y - x = n
        BY <1>1, <1>2, <2>2
    <2> QED BY <1>4, <1>6, <2>3
<1> QED BY <1>1, <1>2, <1>3, <1>4, <1>6, <1>7

LEMMA AddsOnWire ==
    ASSUME NEW s \in Seq(Nat), NEW pl, OnWire(s, pl),
           NEW t, NEW pm, NEW p, NEW n, Adds(t, pm, s, pl, p, n)
    PROVE  /\ OnWire(t, pm)
           /\ /\ Frames(s, pl)
              /\ Len(s) = 0 => p.at = 1
              /\ Len(s) > 0 => \/ AtEnd(pl[Len(s)]) /\ p.at = 1
                               \/ Continues(pl[Len(s)], p)
              => Frames(t, pm)
<1>0. /\ Len(s) \in Nat /\ Len(t) \in Nat /\ n \in Nat /\ n >= 1
      /\ Len(t) = Len(s) + n /\ Len(t) > 0
      /\ Len(s) + 1 \in Len(s) + 1 .. Len(t) /\ Len(t) \in Len(s) + 1 .. Len(t)
      /\ \A i \in 1 .. Len(t) : i \in 1 .. Len(s) \/ i \in Len(s) + 1 .. Len(t)
      /\ \A i \in 1 .. Len(t) : i < Len(t) =>
           \/ i \in 1 .. Len(s) /\ i < Len(s) /\ i + 1 \in 1 .. Len(s)
           \/ i \in 1 .. Len(s) /\ i = Len(s) /\ Len(s) > 0
           \/ i \in Len(s) + 1 .. Len(t) /\ i + 1 \in Len(s) + 1 .. Len(t)
      /\ 1 \in 1 .. Len(s) \/ Len(s) = 0
      /\ SameFrame(p, pm[Len(s) + 1]) /\ pm[Len(s) + 1].at = p.at
    BY AddsTypes
<1>1. /\ \A i \in 1 .. Len(s) : t[i] = s[i] /\ pm[i] = pl[i]
      /\ \A i \in Len(s) + 1 .. Len(t) :
           /\ Role(pm[i], t[i]) /\ SameFrame(p, pm[i])
           /\ pm[i].at = (p.at + (i - Len(s))) - 1
      /\ Opens(p) /\ Closes(pm[Len(t)]) /\ p \in Roles
    BY DEF Adds
<1>2. \A i \in 1 .. Len(t) : Role(pm[i], t[i])
    <2> TAKE i \in 1 .. Len(t)
    <2>1. CASE i \in 1 .. Len(s)
        BY <1>1, <2>1 DEF OnWire
    <2>2. CASE i \in Len(s) + 1 .. Len(t)
        BY <1>1, <2>2
    <2> QED BY <1>0, <2>1, <2>2
<1>3. \A i \in Len(s) + 1 .. Len(t) : i + 1 \in Len(s) + 1 .. Len(t) =>
        Continues(pm[i], pm[i + 1])
    <2> TAKE i \in Len(s) + 1 .. Len(t)
    <2> HAVE i + 1 \in Len(s) + 1 .. Len(t)
    <2>1. /\ SameFrame(p, pm[i]) /\ pm[i].at = (p.at + (i - Len(s))) - 1
          /\ SameFrame(p, pm[i + 1]) /\ pm[i + 1].at = (p.at + ((i + 1) - Len(s))) - 1
        BY <1>1
    <2>2. p.at \in Nat
        BY <1>1 DEF Roles
    <2> PICK x \in Nat, a \in Nat : x = Len(s) /\ a = p.at
        BY <1>0, <2>2
    <2>3. (a + ((i + 1) - x)) - 1 = ((a + (i - x)) - 1) + 1
        BY SMTT(60), <1>0
    <2>4. pm[i + 1].at = pm[i].at + 1
        BY <2>1, <2>3
    <2> QED BY <2>1, <2>4 DEF Continues, SameFrame
<1>4. Opens(pm[Len(s) + 1])
    BY <1>0, <1>1 DEF SameFrame, Opens
<1>5. OnWire(t, pm)
    <2>1. \A i \in 1 .. Len(t) : i < Len(t) =>
            Continues(pm[i], pm[i + 1]) \/ (Closes(pm[i]) /\ Opens(pm[i + 1]))
        <3> TAKE i \in 1 .. Len(t)
        <3> HAVE i < Len(t)
        <3>1. CASE i \in 1 .. Len(s) /\ i < Len(s) /\ i + 1 \in 1 .. Len(s)
            BY <1>1, <3>1 DEF OnWire
        <3>2. CASE i \in 1 .. Len(s) /\ i = Len(s) /\ Len(s) > 0
            <4>1. Closes(pl[Len(s)]) /\ pm[i] = pl[i]
                BY <1>1, <3>2 DEF OnWire
            <4> QED BY <1>4, <3>2, <4>1
        <3>3. CASE i \in Len(s) + 1 .. Len(t) /\ i + 1 \in Len(s) + 1 .. Len(t)
            BY <1>3, <3>3
        <3> QED BY <1>0, <3>1, <3>2, <3>3
    <2>2. Opens(pm[1]) \/ pm[1].at = 2
        <3>1. CASE 1 \in 1 .. Len(s)
            <4>1. pm[1] = pl[1] /\ Len(s) > 0
                BY <1>0, <1>1, <3>1
            <4> QED BY <4>1 DEF OnWire
        <3>2. CASE Len(s) = 0
            <4>1. Len(s) + 1 = 1
                BY <3>2
            <4> QED BY <1>4, <4>1
        <3> QED BY <1>0, <3>1, <3>2
    <2> QED BY <1>1, <1>2, <2>1, <2>2 DEF OnWire
<1>6. SUFFICES ASSUME Frames(s, pl), Len(s) = 0 => p.at = 1,
                      Len(s) > 0 => \/ AtEnd(pl[Len(s)]) /\ p.at = 1
                                    \/ Continues(pl[Len(s)], p)
               PROVE  Frames(t, pm)
    BY <1>5
<1>7. \A i \in 1 .. Len(t) : i < Len(t) =>
        Continues(pm[i], pm[i + 1]) \/ (AtEnd(pm[i]) /\ pm[i + 1].at = 1)
    <2> TAKE i \in 1 .. Len(t)
    <2> HAVE i < Len(t)
    <2>1. CASE i \in 1 .. Len(s) /\ i < Len(s) /\ i + 1 \in 1 .. Len(s)
        BY SMTT(60), <1>1, <1>6, <2>1 DEF Frames
    <2>2. CASE i \in 1 .. Len(s) /\ i = Len(s) /\ Len(s) > 0
        <3>1. pm[i] = pl[Len(s)] /\ pm[i + 1] = pm[Len(s) + 1]
            BY <1>1, <2>2
        <3>2. CASE AtEnd(pl[Len(s)]) /\ p.at = 1
            BY <1>0, <3>1, <3>2
        <3>3. CASE Continues(pl[Len(s)], p)
            <4>1. Continues(pl[Len(s)], pm[Len(s) + 1])
                BY <1>0, <3>3 DEF Continues, SameFrame
            <4> QED BY <3>1, <4>1
        <3> QED BY <1>6, <2>2, <3>2, <3>3
    <2>3. CASE i \in Len(s) + 1 .. Len(t) /\ i + 1 \in Len(s) + 1 .. Len(t)
        BY <1>3, <2>3
    <2> QED BY <1>0, <2>1, <2>2, <2>3
<1>8. pm[1].at = 1
    <2>1. CASE 1 \in 1 .. Len(s)
        <3>1. pm[1] = pl[1] /\ Len(s) > 0
            BY <1>0, <1>1, <2>1
        <3> QED BY <1>6, <3>1 DEF Frames
    <2>2. CASE Len(s) = 0
        <3>1. Len(s) + 1 = 1
            BY <2>2
        <3> QED BY <1>0, <1>6, <2>2, <3>1
    <2> QED BY <1>0, <2>1, <2>2
<1> QED BY <1>7, <1>8 DEF Frames

-----------------------------------------------------------------------------
(* What the firmware sends *)

LEMMA EscapedIs ==
    ASSUME NEW b \in Nat
    PROVE  /\ Escaped(b) \in Seq(Nat)
           /\ b <= ESC => /\ Len(Escaped(b)) = 2
                          /\ Escaped(b)[1] = ESC /\ Escaped(b)[2] = b
           /\ ~(b <= ESC) => Len(Escaped(b)) = 1 /\ Escaped(b)[1] = b
    BY DEF Escaped, ESC

LEMMA AckPiece ==
    ASSUME NEW p \in Roles, p.type = CONTROL_ACK, p.at = 1
    PROVE  Piece(Frame(CONTROL_ACK, p.msg), p, FrameLen(p.msg))
<1> PICK m \in Messages : m = p.msg
    BY DEF Roles
<1>1. FrameLen(m) \in 5 .. 7
    BY Layout
<1>2. CONTROL_ACK \in Nat
    BY DEF CONTROL_ACK
<1>3. /\ Frame(CONTROL_ACK, m) \in Seq(Nat)
      /\ Len(Frame(CONTROL_ACK, m)) = FrameLen(m)
      /\ \A j \in 1 .. FrameLen(m) : Frame(CONTROL_ACK, m)[j] = FrameByte(CONTROL_ACK, m, j)
    BY <1>2, FrameBytes
<1>4. Opens(p)
    BY DEF Opens, PieceBegin
<1>5. (p.at + FrameLen(m)) - 1 = FrameLen(m) /\ p.at + FrameLen(m) <= FrameLen(m) + 1
    BY <1>1
<1>6. PieceEnd(p.type, m, (p.at + FrameLen(m)) - 1)
    BY <1>5 DEF PieceEnd
<1>7. \A i \in 1 .. FrameLen(m) : Frame(CONTROL_ACK, m)[i] = FrameByte(p.type, m, (p.at + i) - 1)
    <2> TAKE i \in 1 .. FrameLen(m)
    <2>1. (p.at + i) - 1 = i
        BY <1>1
    <2> QED BY <1>3, <2>1
<1> QED BY <1>1, <1>3, <1>4, <1>5, <1>6, <1>7 DEF Piece

LEMMA PiecePre ==
    ASSUME NEW p \in Roles, p.type = SAMPLES, p.at = 1
    PROVE  Piece(<<START, SAMPLES>> \o Escaped(p.msg[1]), p, D1(p.msg))
<1> PICK m \in Messages : m = p.msg
    BY DEF Roles
<1> PICK bytes : bytes = <<START, SAMPLES>> \o Escaped(m[1])
    OBVIOUS
<1>1. /\ m[1] \in Nat /\ D1(m) \in 3 .. 4 /\ (m[1] <= ESC <=> D1(m) = 4)
      /\ D2(m) \in D1(m) + 1 .. D1(m) + 2 /\ FrameLen(m) = D2(m) + 1
    BY Layout DEF FrameLen
<1>2. /\ Escaped(m[1]) \in Seq(Nat)
      /\ m[1] <= ESC => /\ Len(Escaped(m[1])) = 2
                        /\ Escaped(m[1])[1] = ESC /\ Escaped(m[1])[2] = m[1]
      /\ ~(m[1] <= ESC) => Len(Escaped(m[1])) = 1 /\ Escaped(m[1])[1] = m[1]
    BY <1>1, EscapedIs
<1>3. /\ <<START, SAMPLES>> \in Seq(Nat) /\ Len(<<START, SAMPLES>>) = 2
      /\ <<START, SAMPLES>>[1] = START /\ <<START, SAMPLES>>[2] = SAMPLES
    BY DEF START, SAMPLES
<1>4. /\ bytes \in Seq(Nat) /\ Len(bytes) = 2 + Len(Escaped(m[1]))
      /\ bytes[1] = START /\ bytes[2] = SAMPLES
      /\ \A i \in 3 .. 2 + Len(Escaped(m[1])) : bytes[i] = Escaped(m[1])[i - 2]
    BY <1>2, <1>3, JoinedIs
<1>5. Len(bytes) = D1(m)
    <2>1. CASE D1(m) = 4
        <3>1. Len(Escaped(m[1])) = 2
            BY <1>1, <1>2, <2>1
        <3> QED BY <1>4, <2>1, <3>1
    <2>2. CASE D1(m) = 3
        <3>1. ~(m[1] <= ESC)
            BY <1>1, <2>2
        <3>2. Len(Escaped(m[1])) = 1
            BY <1>2, <3>1
        <3> QED BY <1>4, <2>2, <3>2
    <2>3. D1(m) = 3 \/ D1(m) = 4
        BY <1>1
    <2> QED BY <2>1, <2>2, <2>3
<1>6. /\ FrameByte(SAMPLES, m, 1) = START /\ FrameByte(SAMPLES, m, 2) = SAMPLES
      /\ FrameByte(SAMPLES, m, D1(m)) = m[1]
      /\ \A j \in Nat : Marker(m, j) => FrameByte(SAMPLES, m, j) = ESC
    BY BytesAre DEF SAMPLES
<1>7. \A i \in 1 .. D1(m) : bytes[i] = FrameByte(p.type, m, (p.at + i) - 1)
    <2> TAKE i \in 1 .. D1(m)
    <2>1. (p.at + i) - 1 = i /\ (i = 1 \/ i = 2 \/ i = 3 \/ i = 4)
        BY <1>1
    <2>2. CASE D1(m) = 3
        <3>1. bytes[3] = m[1]
            BY <1>1, <1>2, <1>4, <2>2
        <3>2. i = 1 \/ i = 2 \/ i = 3
            BY <2>2
        <3>3. FrameByte(SAMPLES, m, 3) = m[1]
            BY <1>6, <2>2
        <3> QED BY <1>4, <1>6, <2>1, <3>1, <3>2, <3>3
    <2>3. CASE D1(m) = 4
        <3>1. bytes[3] = ESC /\ bytes[4] = m[1]
            BY <1>1, <1>2, <1>4, <2>3
        <3>2. Marker(m, 3)
            BY <1>1, <2>3 DEF Marker
        <3>3. FrameByte(SAMPLES, m, 3) = ESC
            BY <1>6, <3>2
        <3>4. FrameByte(SAMPLES, m, 4) = m[1]
            BY <1>6, <2>3
        <3>5. /\ bytes[1] = FrameByte(SAMPLES, m, 1) /\ bytes[2] = FrameByte(SAMPLES, m, 2)
              /\ bytes[3] = FrameByte(SAMPLES, m, 3) /\ bytes[4] = FrameByte(SAMPLES, m, 4)
            BY <1>4, <1>6, <3>1, <3>3, <3>4
        <3>6. bytes[i] = FrameByte(SAMPLES, m, i)
            BY <2>1, <3>5
        <3> QED BY <2>1, <3>6
    <2>4. D1(m) = 3 \/ D1(m) = 4
        BY <1>1
    <2> QED BY <2>2, <2>3, <2>4
<1>8. Opens(p)
    BY DEF Opens, PieceBegin
<1>9. /\ D1(m) \in Nat /\ D1(m) >= 1 /\ (p.at + D1(m)) - 1 = D1(m)
      /\ p.at + D1(m) <= FrameLen(m) + 1
    BY <1>1
<1>10. PieceEnd(p.type, m, (p.at + D1(m)) - 1)
    BY <1>9 DEF PieceEnd
<1> QED BY <1>4, <1>5, <1>7, <1>8, <1>9, <1>10 DEF Piece

LEMMA PieceMid ==
    ASSUME NEW p \in Roles, p.type = SAMPLES, p.at = D1(p.msg) + 1
    PROVE  Piece(Escaped(p.msg[2]), p, D2(p.msg) - D1(p.msg))
<1> PICK m \in Messages : m = p.msg
    BY DEF Roles
<1>1. /\ m[2] \in Nat /\ D1(m) \in 3 .. 4 /\ (m[2] <= ESC <=> D2(m) = D1(m) + 2)
      /\ D2(m) \in D1(m) + 1 .. D1(m) + 2 /\ FrameLen(m) = D2(m) + 1
    BY Layout DEF FrameLen
<1>2. /\ Escaped(m[2]) \in Seq(Nat)
      /\ m[2] <= ESC => /\ Len(Escaped(m[2])) = 2
                        /\ Escaped(m[2])[1] = ESC /\ Escaped(m[2])[2] = m[2]
      /\ ~(m[2] <= ESC) => Len(Escaped(m[2])) = 1 /\ Escaped(m[2])[1] = m[2]
    BY <1>1, EscapedIs
<1>3. Len(Escaped(m[2])) = D2(m) - D1(m)
    <2> PICK x \in Nat, y \in Nat : x = D1(m) /\ y = D2(m)
        BY <1>1
    <2>1. (y = x + 2 \/ y = x + 1) /\ (y = x + 2 => y - x = 2) /\ (y = x + 1 => y - x = 1)
        BY <1>1
    <2>2. CASE y = x + 2
        <3>1. Len(Escaped(m[2])) = 2
            BY <1>1, <1>2, <2>2
        <3> QED BY <2>1, <2>2, <3>1
    <2>3. CASE y = x + 1
        <3>1. ~(m[2] <= ESC)
            BY <1>1, <2>3
        <3>2. Len(Escaped(m[2])) = 1
            BY <1>2, <3>1
        <3> QED BY <2>1, <2>3, <3>2
    <2> QED BY <2>1, <2>2, <2>3
<1>4. /\ FrameByte(SAMPLES, m, D2(m)) = m[2]
      /\ \A j \in Nat : Marker(m, j) => FrameByte(SAMPLES, m, j) = ESC
    BY BytesAre DEF SAMPLES
<1>5. \A i \in 1 .. D2(m) - D1(m) :
        Escaped(m[2])[i] = FrameByte(p.type, m, (p.at + i) - 1)
    <2> TAKE i \in 1 .. D2(m) - D1(m)
    <2>1. (p.at + i) - 1 = D1(m) + i /\ (i = 1 \/ i = 2)
        BY <1>1
    <2>2. CASE D2(m) = D1(m) + 1
        <3>1. i = 1 /\ D1(m) + i = D2(m)
            BY <1>1, <2>1, <2>2
        <3> QED BY SMTT(60), <1>1, <1>2, <1>4, <2>1, <2>2, <3>1
    <2>3. CASE D2(m) = D1(m) + 2
        <3>1. Marker(m, D1(m) + 1) /\ D1(m) + 1 \in Nat
            BY <1>1, <2>3 DEF Marker
        <3>2. FrameByte(SAMPLES, m, D1(m) + 1) = ESC
            BY <1>4, <3>1
        <3> QED BY <1>1, <1>2, <1>4, <2>1, <2>3, <3>2
    <2> QED BY <1>1, <2>2, <2>3
<1>6. Opens(p)
    BY DEF Opens, PieceBegin
<1>7. /\ D2(m) - D1(m) \in Nat /\ D2(m) - D1(m) >= 1
      /\ (p.at + (D2(m) - D1(m))) - 1 = D2(m)
      /\ p.at >= 1 /\ p.at + (D2(m) - D1(m)) <= FrameLen(m) + 1
    BY <1>1
<1>8. PieceEnd(p.type, m, (p.at + (D2(m) - D1(m))) - 1)
    BY <1>7 DEF PieceEnd
<1> QED BY <1>2, <1>3, <1>5, <1>6, <1>7, <1>8 DEF Piece

LEMMA PieceLast ==
    ASSUME NEW p \in Roles, p.type = SAMPLES, p.at = D2(p.msg) + 1
    PROVE  Piece(<<END>>, p, 1)
<1> PICK m \in Messages : m = p.msg
    BY DEF Roles
<1>1. /\ D1(m) \in 3 .. 4 /\ D2(m) \in D1(m) + 1 .. D1(m) + 2
      /\ FrameLen(m) = D2(m) + 1
    BY Layout DEF FrameLen
<1>2. FrameByte(SAMPLES, m, D2(m) + 1) = END
    BY BytesAre DEF SAMPLES
<1>3. <<END>> \in Seq(Nat) /\ Len(<<END>>) = 1 /\ <<END>>[1] = END
    BY DEF END
<1>4. /\ (p.at + 1) - 1 = D2(m) + 1 /\ p.at >= 1 /\ p.at + 1 <= FrameLen(m) + 1
    BY <1>1
<1>5. \A i \in 1 .. 1 : <<END>>[i] = FrameByte(p.type, m, (p.at + i) - 1)
    BY <1>2, <1>3, <1>4
<1>6. Opens(p) /\ PieceEnd(p.type, m, (p.at + 1) - 1)
    BY <1>1, <1>4 DEF Opens, PieceBegin, PieceEnd
<1> QED BY <1>3, <1>4, <1>5, <1>6 DEF Piece

LEMMA PairIs ==
    ASSUME NEW a \in Nat, NEW b \in Nat
    PROVE  /\ <<a, b>> \in Messages /\ <<a, b>>[1] = a /\ <<a, b>>[2] = b
    BY DEF Messages, MSG_LEN

LEMMA MessagesEqual ==
    ASSUME NEW a \in Messages, NEW b \in Messages, a[1] = b[1], a[2] = b[2]
    PROVE  a = b
<1>1. <<a[1], a[2]>> = a /\ <<b[1], b[2]>> = b
    BY MessageIs
<1> QED BY <1>1

-----------------------------------------------------------------------------
(* What the variables hold *)

FwMains ==
    [pc : {"main", "ack", "flush"}, frame : {"none", "PRE", "MID", "END"},
     seqnum : Nat, msg : Seq(Nat)]

HostType ==
    /\ LinkType
    /\ Fresh(h) /\ to_host \in Seq(Nat) /\ faults \in Nat
    /\ fw \in FwMains /\ (fw.pc = "ack" => Len(fw.msg) = MSG_LEN)
    /\ got \in Seq(Seq(Nat))
    /\ acked \in Seq([msg : Messages, value : Nat])

LEMMA FreshIs ==
    ASSUME NEW g \in HostStates
    PROVE  /\ Fresh(HostFresh(g))
           /\ HostFresh(g).type = g.type /\ HostFresh(g).buf = g.buf
           /\ Fresh(FreshLocals(g)) /\ FreshLocals(g).type = SAMPLES
<1> PICK q : q = HostFresh(g)
    OBVIOUS
<1>0. 0 \in 0 .. MSG_LEN
    BY DEF MSG_LEN
<1>1. /\ q.start_found = FALSE /\ q.end_found = FALSE /\ q.esc_last = FALSE
      /\ q.start_last = FALSE /\ q.n = 0 /\ q.type = g.type /\ q.buf = g.buf
      /\ q \in HostStates
    BY <1>0 DEF HostFresh, HostStates
<1> PICK c : c = [i \in 1 .. MSG_LEN |-> 0]
    OBVIOUS
<1> PICK d : d = FreshLocals(g)
    OBVIOUS
<1>2. c \in Messages
    BY DEF Messages
<1>3. d = [q EXCEPT !.type = CONTROL_ACK + 1, !.buf = c]
    BY DEF FreshLocals
<1>4. CONTROL_ACK + 1 = SAMPLES /\ SAMPLES \in Nat
    BY DEF CONTROL_ACK, SAMPLES
<1>5. /\ d.start_found = FALSE /\ d.end_found = FALSE /\ d.esc_last = FALSE
      /\ d.start_last = FALSE /\ d.n = 0 /\ d.type = SAMPLES
      /\ d \in HostStates
    BY <1>1, <1>2, <1>3, <1>4 DEF HostStates
<1> QED BY <1>1, <1>5 DEF Fresh

LEMMA ParseType ==
    ASSUME NEW g \in HostStates, NEW s \in Seq(Nat), NEW r, r = HostParse(g, s)
    PROVE  r.h \in HostStates /\ r.left \in Seq(Nat)
<1>1. PICK e, f : e \in 0 .. Len(s) /\ Took(r, g, s, f, e)
    BY HostTakes
<1>2. r.h = f[e] /\ r.left = SubSeq(s, e + 1, Len(s)) /\ Reads(f, g, s, e)
    BY <1>1 DEF Took
<1>3. e \in 0 .. e
    BY <1>1
<1> QED BY <1>2, <1>3 DEF Reads

LEMMA Sends ==
    ASSUME HostType, NEW bytes \in Seq(Nat), Transmit(bytes)
    PROVE  /\ to_host' \in Seq(Nat) /\ faults' \in Nat
           /\ faults' = faults => to_host' = to_host \o bytes
<1>1. to_host \in Seq(Nat) /\ faults \in Nat /\ CUT_WEIGHT \in Nat \ {0}
    BY UartLinkAssumption DEF HostType
<1>2. CASE to_host' = to_host \o bytes /\ UNCHANGED faults
    BY <1>1, <1>2
<1>3. CASE /\ faults >= CUT_WEIGHT /\ faults' = faults - CUT_WEIGHT
           /\ \E n \in 0 .. Len(bytes) - 1 : to_host' = to_host \o SubSeq(bytes, 1, n)
    <2>1. faults' \in Nat /\ faults' # faults
        BY <1>1, <1>3
    <2> PICK n \in 0 .. Len(bytes) - 1 : to_host' = to_host \o SubSeq(bytes, 1, n)
        BY <1>3
    <2>2. SubSeq(bytes, 1, n) \in Seq(Nat)
        OBVIOUS
    <2>3. to_host' \in Seq(Nat)
        BY <1>1, <2>2
    <2> QED BY <2>1, <2>3
<1> QED BY <1>2, <1>3 DEF Transmit

(* The role of a byte of the stream's frame, of which x bytes were sent *)
SampleRole(f, x) ==
    [type |-> SAMPLES, msg |-> SampleFrame(f.seqnum), at |-> x + 1,
     count |-> f.seqnum, on |-> 2]

(* Bytes of the current frame that were sent *)
Before(f) ==
    CASE f.frame = "MID" -> D1(SampleFrame(f.seqnum))
      [] f.frame = "END" -> D2(SampleFrame(f.seqnum))
      [] OTHER -> 0

LEMMA SampleFrameType ==
    ASSUME NEW k \in Nat
    PROVE  /\ SampleFrame(k) \in Messages
           /\ SampleFrame(k)[1] = k /\ SampleFrame(k)[2] = k
    BY PairIs DEF SampleFrame

Sampled(p, f, x) ==
    /\ p \in Roles /\ p.type = SAMPLES /\ p.msg = SampleFrame(f.seqnum)
    /\ p.at = x + 1 /\ p.count = f.seqnum /\ p.on = 2

LEMMA SampleRoleType ==
    ASSUME NEW f \in FwMains, NEW x \in Nat
    PROVE  Sampled(SampleRole(f, x), f, x)
<1> PICK p : p = SampleRole(f, x)
    OBVIOUS
<1>1. f.seqnum \in Nat /\ SampleFrame(f.seqnum) \in Messages /\ x + 1 \in Nat
    BY SampleFrameType DEF FwMains
<1>2. /\ p.type = SAMPLES /\ p.msg = SampleFrame(f.seqnum)
      /\ p.at = x + 1 /\ p.count = f.seqnum /\ p.on = 2
    BY DEF SampleRole
<1>3. p \in Roles
    BY <1>1 DEF SampleRole, Roles
<1> QED BY <1>2, <1>3 DEF Sampled

(* The n bytes are the piece of the frame that is due. *)
SendsPiece(bytes, n) ==
    /\ to_host' = to_host \o bytes
    /\ Piece(bytes, SampleRole(fw, Before(fw)), n)
    /\ Before(fw) + n = IF fw.frame = "END" THEN FrameLen(SampleFrame(fw.seqnum))
                        ELSE Before(fw')

(* StreamPiece sends a piece of the frame and takes note of it. *)
LEMMA PieceSent ==
    ASSUME HostType, StreamPiece
    PROVE  /\ to_host' \in Seq(Nat) /\ faults' \in Nat /\ fw' \in FwMains
           /\ fw.pc = "main" /\ fw'.pc = "main"
           /\ fw.frame # "none" /\ fw'.frame # "none"
           /\ odd' = odd \cup (IF WasCut THEN {"cut"} ELSE {})
           /\ fw.frame \in {"PRE", "MID"} => fw'.seqnum = fw.seqnum
           /\ fw.frame = "PRE" => fw'.frame = "MID"
           /\ fw.frame = "MID" => fw'.frame = "END"
           /\ fw.frame = "END" => fw'.frame = "PRE" /\ fw'.seqnum = fw.seqnum + 1
           /\ Before(fw) \in Nat
           /\ "cut" \notin odd' => \E bytes, n : SendsPiece(bytes, n)
<1> PICK f : f = fw
    OBVIOUS
<1> PICK m : m = SampleFrame(f.seqnum)
    OBVIOUS
<1>0. /\ f \in FwMains /\ to_host \in Seq(Nat) /\ faults \in Nat /\ f.seqnum \in Nat
      /\ m \in Messages /\ m[1] \in Nat /\ m[2] \in Nat
      /\ m[1] = SampleFrame(fw.seqnum)[1] /\ m[2] = SampleFrame(fw.seqnum)[2]
    BY SampleFrameType DEF HostType, FwMains
<1>1. /\ D1(m) \in 3 .. 4 /\ D2(m) \in D1(m) + 1 .. D1(m) + 2
      /\ FrameLen(m) = D2(m) + 1
    BY <1>0, Layout DEF FrameLen
<1>2. /\ fw.pc = "main" /\ odd' = odd \cup (IF WasCut THEN {"cut"} ELSE {})
    BY DEF StreamPiece
<1>3. "cut" \notin odd' => faults' = faults
    BY <1>2 DEF WasCut
<1>4. CASE f.frame = "PRE"
    <2> PICK bytes : bytes = <<START, SAMPLES>> \o Escaped(m[1])
        OBVIOUS
    <2>1. Transmit(bytes) /\ fw' = [f EXCEPT !.frame = "MID"]
        BY <1>0, <1>4 DEF StreamPiece
    <2> PICK p : p = SampleRole(f, 0)
        OBVIOUS
    <2>s. Sampled(p, f, 0)
        BY <1>0, SampleRoleType
    <2>2. p \in Roles /\ p.type = SAMPLES /\ p.msg = m /\ p.at = 1
        BY <2>s DEF Sampled
    <2>3. Piece(bytes, p, D1(m))
        BY <2>2, PiecePre
    <2>4. bytes \in Seq(Nat)
        BY <2>3 DEF Piece
    <2>5. to_host' \in Seq(Nat) /\ faults' \in Nat /\ (faults' = faults => to_host' = to_host \o bytes)
        BY <2>1, <2>4, Sends
    <2>6. fw' \in FwMains /\ fw'.pc = "main" /\ fw'.frame = "MID" /\ fw'.seqnum = f.seqnum
        BY <1>0, <1>2, <2>1 DEF FwMains
    <2>7. Before(f) = 0 /\ Before(fw') = D1(m) /\ D1(m) \in Nat /\ 0 + D1(m) = D1(m)
        BY <1>1, <1>4, <2>6 DEF Before
    <2>8. "cut" \notin odd' => SendsPiece(bytes, D1(m))
        BY <1>3, <1>4, <2>3, <2>5, <2>7 DEF SendsPiece
    <2> QED BY <1>2, <1>4, <2>5, <2>6, <2>7, <2>8
<1>5. CASE f.frame = "MID"
    <2> PICK bytes : bytes = Escaped(m[2])
        OBVIOUS
    <2>1. to_host' = to_host \o bytes /\ faults' = faults /\ fw' = [f EXCEPT !.frame = "END"]
        BY <1>0, <1>5 DEF StreamPiece
    <2>b. D1(m) \in Nat /\ D2(m) - D1(m) \in Nat /\ D1(m) + (D2(m) - D1(m)) = D2(m)
        BY <1>1
    <2> PICK p : p = SampleRole(f, D1(m))
        OBVIOUS
    <2>s. Sampled(p, f, D1(m))
        BY <1>0, <2>b, SampleRoleType
    <2>2. p \in Roles /\ p.type = SAMPLES /\ p.msg = m /\ p.at = D1(m) + 1
        BY <2>s DEF Sampled
    <2>3. Piece(bytes, p, D2(m) - D1(m))
        BY <2>2, PieceMid
    <2>4. bytes \in Seq(Nat)
        BY <2>3 DEF Piece
    <2>5. to_host' \in Seq(Nat) /\ faults' \in Nat
        BY <1>0, <2>1, <2>4
    <2>6. fw' \in FwMains /\ fw'.pc = "main" /\ fw'.frame = "END" /\ fw'.seqnum = f.seqnum
        BY <1>0, <1>2, <2>1 DEF FwMains
    <2>7. Before(f) = D1(m) /\ Before(fw') = D2(m)
        BY <1>5, <2>6 DEF Before
    <2>8. SendsPiece(bytes, D2(m) - D1(m))
        BY <1>5, <2>1, <2>b, <2>3, <2>7 DEF SendsPiece
    <2> QED BY <1>2, <1>5, <2>b, <2>5, <2>6, <2>7, <2>8
<1>6. CASE f.frame = "END"
    <2>1. Transmit(<<END>>) /\ fw' = [f EXCEPT !.frame = "PRE", !.seqnum = f.seqnum + 1]
        BY <1>6 DEF StreamPiece, NextFrame
    <2>b. D2(m) \in Nat /\ D2(m) + 1 = FrameLen(m) /\ f.seqnum + 1 \in Nat
        BY SMTT(60), <1>0, <1>1
    <2> PICK p : p = SampleRole(f, D2(m))
        OBVIOUS
    <2>s. Sampled(p, f, D2(m))
        BY <1>0, <2>b, SampleRoleType
    <2>2. p \in Roles /\ p.type = SAMPLES /\ p.msg = m /\ p.at = D2(m) + 1
        BY <2>s DEF Sampled
    <2>3. Piece(<<END>>, p, 1)
        BY <2>2, PieceLast
    <2>4. <<END>> \in Seq(Nat)
        BY <2>3 DEF Piece
    <2>5. to_host' \in Seq(Nat) /\ faults' \in Nat /\ (faults' = faults => to_host' = to_host \o <<END>>)
        BY <2>1, <2>4, Sends
    <2>6. fw' \in FwMains /\ fw'.pc = "main" /\ fw'.frame = "PRE" /\ fw'.seqnum = f.seqnum + 1
        BY <1>0, <1>2, <2>1, <2>b DEF FwMains
    <2>7. Before(f) = D2(m)
        BY <1>6 DEF Before
    <2>8. "cut" \notin odd' => SendsPiece(<<END>>, 1)
        BY <1>3, <1>6, <2>b, <2>3, <2>5, <2>7 DEF SendsPiece
    <2> QED BY <1>2, <1>6, <2>b, <2>5, <2>6, <2>7, <2>8
<1> QED BY <1>4, <1>5, <1>6 DEF StreamPiece

AckBytes == Frame(CONTROL_ACK, AckOf(fw.msg))

LEMMA AckSent ==
    ASSUME HostType, Ack
    PROVE  /\ to_host' \in Seq(Nat) /\ faults' \in Nat /\ fw' \in FwMains
           /\ fw.pc = "ack" /\ fw'.pc = "flush" /\ fw'.frame = fw.frame
           /\ fw'.seqnum = fw.seqnum /\ fw'.msg = fw.msg
           /\ AckOf(fw.msg) \in Messages /\ AckOf(fw.msg)[1] = fw.msg[1]
           /\ AckOf(fw.msg)[2] = fw.msg[2]
           /\ fw.frame \in {"MID", "END"} => "torn" \in odd'
           /\ odd \subseteq odd'
           /\ "cut" \notin odd' => to_host' = to_host \o AckBytes
<1>0. fw.pc = "ack" /\ fw.msg \in Seq(Nat) /\ Len(fw.msg) = 2 /\ fw \in FwMains
    BY DEF HostType, Ack, FwMains, MSG_LEN
<1>1. fw.msg[1] \in Nat /\ fw.msg[2] \in Nat
    BY <1>0
<1>2. /\ AckOf(fw.msg) \in Messages /\ AckOf(fw.msg)[1] = fw.msg[1]
      /\ AckOf(fw.msg)[2] = fw.msg[2]
    BY <1>1, PairIs DEF AckOf
<1>3. CONTROL_ACK \in Nat
    BY DEF CONTROL_ACK
<1>4. AckBytes \in Seq(Nat)
    BY <1>2, <1>3, FrameBytes DEF AckBytes
<1>5. Transmit(AckBytes) /\ fw' = [fw EXCEPT !.pc = "flush"]
    BY DEF Ack, AckBytes
<1>6. /\ to_host' \in Seq(Nat) /\ faults' \in Nat
      /\ faults' = faults => to_host' = to_host \o AckBytes
    BY <1>4, <1>5, Sends
<1>7. /\ fw' \in FwMains /\ fw'.pc = "flush" /\ fw'.frame = fw.frame
      /\ fw'.seqnum = fw.seqnum /\ fw'.msg = fw.msg
    BY <1>0, <1>5 DEF FwMains
<1>8. odd' = odd \cup (IF fw.frame \in {"MID", "END"} THEN {"torn"} ELSE {})
                 \cup (IF WasCut THEN {"cut"} ELSE {})
    BY DEF Ack
<1>9. /\ fw.frame \in {"MID", "END"} => "torn" \in odd'
      /\ odd \subseteq odd'
    BY <1>8
<1>10. "cut" \notin odd' => faults' = faults
    BY <1>8 DEF WasCut
<1> QED BY <1>0, <1>2, <1>6, <1>7, <1>9, <1>10

(* GotUartBytes, as far as the host's end goes *)
LEMMA GotSent ==
    ASSUME HostType, GotUartBytes
    PROVE  /\ UNCHANGED <<host, h, acked, got, to_host, faults>> /\ fw' \in FwMains
           /\ \/ UNCHANGED <<fw, odd, ran>>
              \/ /\ fw.pc = "main" /\ fw'.pc = "ack"
                 /\ fw'.msg \in Seq(Nat) /\ Len(fw'.msg) = MSG_LEN
                 /\ Sampling(fw'.msg) => fw'.frame = "PRE" /\ fw'.seqnum = 0
                 /\ ~Sampling(fw'.msg) => fw'.frame = fw.frame /\ fw'.seqnum = fw.seqnum
                 /\ Sampling(fw'.msg) /\ fw.frame # "none" => odd' # {}
                 /\ odd \subseteq odd' /\ ("cut" \in odd' => "cut" \in odd)
                 /\ \E x : ran' = Append(ran, x) /\ x \in Ran /\ x.msg = fw'.msg
<1> PICK r : r = FwParse(Values(received), MSG_LEN)
    OBVIOUS
<1>0. UNCHANGED <<host, h, acked, got, to_host, faults>> /\ fw \in FwMains /\ fw.pc = "main"
    BY DEF HostType, GotUartBytes, hostVars
<1>1. /\ r.p.bytes \in Seq(Nat)
      /\ Owners(SubSeq(received, r.keep + 1, FwConsumed(r))) = From(r, Line)
      /\ From(r, Line) \in SUBSET Nat
    BY Parse DEF HostType
<1>2. CASE ~Whole(r)
    BY <1>0, <1>2 DEF GotUartBytes
<1>3. CASE Whole(r)
    <2> PICK msg : msg = r.p.bytes
        OBVIOUS
    <2> PICK x : x = [msg |-> msg,
                      from |-> Owners(SubSeq(received, r.keep + 1, FwConsumed(r)))]
        OBVIOUS
    <2>1. /\ fw' = [fw EXCEPT !.pc = "ack", !.msg = msg,
                         !.frame = IF Sampling(msg) THEN "PRE" ELSE fw.frame,
                         !.seqnum = IF Sampling(msg) THEN 0 ELSE fw.seqnum]
          /\ ran' = Append(ran, x)
          /\ odd' = IF Sampling(msg) /\ fw.frame # "none"
                    THEN odd \cup {"restarted"} ELSE odd
        BY <1>3 DEF GotUartBytes
    <2>2. msg \in Seq(Nat) /\ Len(msg) = MSG_LEN
        BY <1>1, <1>3 DEF Whole
    <2>3. x \in Ran /\ x.msg = msg
        BY <1>1 DEF Ran
    <2>4. /\ fw'.pc = "ack" /\ fw'.msg = msg
          /\ fw'.frame = IF Sampling(msg) THEN "PRE" ELSE fw.frame
          /\ fw'.seqnum = IF Sampling(msg) THEN 0 ELSE fw.seqnum
        BY <1>0, <2>1 DEF FwMains
    <2>5. fw' \in FwMains
        <3>1. fw.frame \in {"none", "PRE", "MID", "END"} /\ fw.seqnum \in Nat
            BY <1>0 DEF FwMains
        <3> PICK y, z : /\ y = (IF Sampling(msg) THEN "PRE" ELSE fw.frame)
                        /\ z = (IF Sampling(msg) THEN 0 ELSE fw.seqnum)
            OBVIOUS
        <3>2. y \in {"none", "PRE", "MID", "END"} /\ z \in Nat
            BY <3>1
        <3>3. fw' = [fw EXCEPT !.pc = "ack", !.msg = msg, !.frame = y, !.seqnum = z]
            BY <2>1
        <3> QED BY <1>0, <2>2, <3>2, <3>3 DEF FwMains
    <2>6. /\ Sampling(msg) /\ fw.frame # "none" => odd' # {}
          /\ odd \subseteq odd' /\ ("cut" \in odd' => "cut" \in odd)
        BY <2>1
    <2> QED BY <1>0, <2>1, <2>2, <2>3, <2>4, <2>5, <2>6
<1> QED BY <1>2, <1>3

(* A call of the host's uart_rx_bytes *)
LEMMA CallType ==
    ASSUME HostType, NEW r, r = HostParse(h, to_host)
    PROVE  /\ r.h \in HostStates /\ r.left \in Seq(Nat)
           /\ Fresh(HostFresh(r.h)) /\ HostFresh(r.h).type = r.h.type
           /\ HostFresh(r.h).buf = r.h.buf
           /\ Fresh(FreshLocals(r.h)) /\ FreshLocals(r.h).type = SAMPLES
           /\ r.h.buf \in Messages /\ r.h.buf[2] \in Nat
<1>1. h \in HostStates /\ to_host \in Seq(Nat)
    BY DEF HostType, Fresh
<1>2. r.h \in HostStates /\ r.left \in Seq(Nat)
    BY <1>1, ParseType
<1>3. r.h.buf \in Messages
    BY <1>2 DEF HostStates
<1>4. r.h.buf[2] \in Nat
    BY <1>3 DEF Messages, MSG_LEN
<1> QED BY <1>2, <1>3, <1>4, FreshIs

LEMMA HostTypeInit == Init => HostType
<1> SUFFICES ASSUME Init PROVE HostType
    OBVIOUS
<1>1. LinkType
    BY LinkTypeInit
<1> PICK c : c = [i \in 1 .. MSG_LEN |-> 0]
    OBVIOUS
<1>2. c \in Messages /\ 0 \in 0 .. MSG_LEN /\ CONTROL_ACK + 1 \in Nat
    BY DEF Messages, MSG_LEN, CONTROL_ACK
<1>3. h = [start_found |-> FALSE, end_found |-> FALSE, esc_last |-> FALSE,
           start_last |-> FALSE, type |-> CONTROL_ACK + 1, n |-> 0, buf |-> c]
    BY DEF Init
<1>4. Fresh(h)
    BY <1>2, <1>3 DEF Fresh, HostStates
<1>5. fw \in FwMains /\ fw.pc # "ack"
    BY DEF Init, FwMains
<1> QED BY <1>1, <1>4, <1>5, UartLinkAssumption DEF Init, HostType

LEMMA HostTypeNext ==
    ASSUME HostType, [Next]_vars
    PROVE  HostType'
<1>0. /\ LinkType /\ Fresh(h) /\ to_host \in Seq(Nat) /\ faults \in Nat
      /\ fw \in FwMains /\ (fw.pc = "ack" => Len(fw.msg) = MSG_LEN)
      /\ got \in Seq(Seq(Nat)) /\ acked \in Seq([msg : Messages, value : Nat])
    BY DEF HostType
<1>t. LinkType'
    BY <1>0, LinkTypeNext
<1> PICK r : r = HostParse(h, to_host)
    OBVIOUS
<1>c. /\ r.h \in HostStates /\ r.left \in Seq(Nat)
      /\ Fresh(HostFresh(r.h)) /\ Fresh(FreshLocals(r.h))
      /\ r.h.buf \in Messages /\ r.h.buf[2] \in Nat
    BY CallType
<1>1. CASE Receive
    BY <1>0, <1>1, <1>t DEF Receive, hostVars, HostType
<1>2. CASE ReceiveError
    <2>1. faults' \in Nat
        BY <1>0, <1>2 DEF ReceiveError
    <2> QED BY <1>0, <1>2, <1>t, <2>1 DEF ReceiveError, hostVars, HostType
<1>3. CASE GotUartBytes
    <2>1. /\ UNCHANGED <<h, acked, got, to_host, faults>> /\ fw' \in FwMains
          /\ UNCHANGED fw \/ Len(fw'.msg) = MSG_LEN
        BY <1>3, GotSent
    <2> QED BY <1>0, <1>t, <2>1 DEF HostType
<1>4. CASE Ack
    <2>1. /\ to_host' \in Seq(Nat) /\ faults' \in Nat /\ fw' \in FwMains
          /\ fw'.pc = "flush"
        BY <1>4, AckSent
    <2>2. UNCHANGED <<h, acked, got>>
        BY <1>4 DEF Ack, hostVars
    <2> QED BY <1>0, <1>t, <2>1, <2>2 DEF HostType
<1>5. CASE Flush
    <2>1. fw' = [fw EXCEPT !.pc = "main", !.msg = <<>>] /\ UNCHANGED <<h, acked, got, to_host, faults>>
        BY <1>5 DEF Flush, hostVars
    <2>2. fw' \in FwMains /\ fw'.pc = "main"
        <3>1. <<>> \in Seq(Nat)
            OBVIOUS
        <3> PICK e \in Seq(Nat) : e = <<>>
            BY <3>1
        <3>2. fw' = [fw EXCEPT !.pc = "main", !.msg = e]
            BY <2>1
        <3> QED BY <1>0, <3>2 DEF FwMains
    <2> QED BY <1>0, <1>t, <2>1, <2>2 DEF HostType
<1>6. CASE StreamPiece
    <2>1. /\ to_host' \in Seq(Nat) /\ faults' \in Nat /\ fw' \in FwMains
          /\ fw'.pc = "main"
        BY <1>6, PieceSent
    <2>2. UNCHANGED <<h, acked, got>>
        BY <1>6 DEF StreamPiece, hostVars
    <2> QED BY <1>0, <1>t, <2>1, <2>2 DEF HostType
<1>7. CASE Send
    <2>1. h' = HostFresh(h) /\ UNCHANGED <<to_host, fw, faults, acked, got>>
        BY <1>7 DEF Send
    <2>2. Fresh(h')
        BY <1>0, <2>1, FreshIs DEF Fresh
    <2> QED BY <1>0, <1>t, <2>1, <2>2 DEF HostType
<1>8. CASE Listen
    <2>1. /\ to_host' = r.left /\ UNCHANGED <<fw, faults, got>>
          /\ \/ /\ acked' = Append(acked, [msg |-> Message, value |-> r.h.buf[2]])
                /\ h' = FreshLocals(r.h)
             \/ h' = HostFresh(r.h) /\ UNCHANGED acked
        BY <1>8 DEF Listen
    <2> PICK a : a = [msg |-> Message, value |-> r.h.buf[2]]
        OBVIOUS
    <2>2. a \in [msg : Messages, value : Nat]
        BY <1>0, <1>c, SessionMessages
    <2>3. acked' \in Seq([msg : Messages, value : Nat])
        <3>1. Append(acked, a) \in Seq([msg : Messages, value : Nat])
            BY <1>0, <2>2, AppendProperties
        <3> QED BY <1>0, <2>1, <3>1
    <2> QED BY <1>0, <1>c, <1>t, <2>1, <2>3 DEF HostType
<1>9. CASE ReadStream
    <2>1. /\ to_host' = r.left /\ h' = HostFresh(r.h) /\ UNCHANGED <<fw, faults, acked>>
          /\ got' = Append(got, SubSeq(r.h.buf, 1, r.h.n)) \/ got' = got
        BY <1>9 DEF ReadStream
    <2> PICK a : a = SubSeq(r.h.buf, 1, r.h.n)
        OBVIOUS
    <2>2. a \in Seq(Nat)
        <3>1. r.h.buf \in Seq(Nat) /\ Len(r.h.buf) = 2 /\ r.h.n \in 0 .. 2
            BY <1>c, MessageIs DEF HostStates, MSG_LEN
        <3> PICK b \in Seq(Nat) : b = r.h.buf /\ Len(b) = 2
            BY <3>1
        <3> PICK k \in 0 .. Len(b) : k = r.h.n
            BY <3>1
        <3>2. SubSeq(b, 1, k) \in Seq(Nat)
            BY SMTT(60)
        <3> QED BY <3>2
    <2>3. Append(got, a) \in Seq(Seq(Nat))
        BY <1>0, <2>2, AppendProperties
    <2>4. got' \in Seq(Seq(Nat))
        BY <1>0, <2>1, <2>3
    <2> QED BY <1>0, <1>c, <1>t, <2>1, <2>4 DEF HostType
<1>10. CASE Timeout
    <2>1. /\ h' = HostFresh(r.h) /\ to_host' = <<>> /\ UNCHANGED <<fw, acked, got>>
          /\ faults' = faults \/ (faults > 0 /\ faults' = faults - 1)
        BY <1>10 DEF Timeout
    <2>2. faults' \in Nat /\ to_host' \in Seq(Nat)
        BY <1>0, <2>1
    <2> QED BY <1>0, <1>c, <1>t, <2>1, <2>2 DEF HostType
<1>11. CASE UNCHANGED vars
    BY <1>0, <1>11, <1>t DEF vars, hostVars, HostType
<1> QED BY <1>1, <1>2, <1>3, <1>4, <1>5, <1>6, <1>7, <1>8, <1>9, <1>10, <1>11
       DEF Next, FwMain, HostStep

-----------------------------------------------------------------------------
(* The acks on their way, when none was cut *)

(* The acks are of messages that were run; up to the start of the stream    *)
(* there are only whole acks.                                               *)
AckRoles(s, pl, frame, runs) ==
    /\ OnWire(s, pl)
    /\ \A i \in 1 .. Len(s) : pl[i].type = CONTROL_ACK =>
         \E x \in 1 .. Len(runs) : pl[i].msg = runs[x].msg
    /\ frame = "none" => Frames(s, pl) /\ \A i \in 1 .. Len(s) : pl[i].type = CONTROL_ACK

AcksOnWire(s, frame, runs) == \E pl : AckRoles(s, pl, frame, runs)

LEMMA NoAcks ==
    ASSUME NEW frame, NEW runs
    PROVE  AcksOnWire(<<>>, frame, runs)
<1>1. Len(<<>>) = 0
    OBVIOUS
<1>2. AckRoles(<<>>, <<>>, frame, runs)
    BY <1>1 DEF AckRoles, OnWire, Frames
<1> QED BY <1>2 DEF AcksOnWire

LEMMA AcksLater ==
    ASSUME NEW s, NEW frame, NEW runs, AcksOnWire(s, frame, runs),
           NEW later, later = frame \/ later # "none",
           NEW more, Len(runs) \in Nat, Len(more) \in Nat, Len(more) >= Len(runs),
           \A x \in 1 .. Len(runs) : more[x] = runs[x]
    PROVE  AcksOnWire(s, later, more)
<1> PICK pl : AckRoles(s, pl, frame, runs)
    BY DEF AcksOnWire
<1>1. \A x \in 1 .. Len(runs) : x \in 1 .. Len(more) /\ more[x].msg = runs[x].msg
    OBVIOUS
<1>2. AckRoles(s, pl, later, more)
    BY <1>1 DEF AckRoles
<1> QED BY <1>2 DEF AcksOnWire

(* Before the last byte of an ack there is no end of a piece. *)
LEMMA AckCloses ==
    ASSUME NEW p, p.type = CONTROL_ACK, Closes(p)
    PROVE  AtEnd(p)
    BY DEF Closes, PieceEnd, AtEnd, CONTROL_ACK, SAMPLES

(* A call finds pieces of which it may have missed the first byte. *)
Clear(g, x) == Fresh(g) /\ x > ESC /\ ~IsAck(g, x)

Caught(r, s, pl, e, x) ==
    /\ HostDone(r.h) => /\ e >= 1 /\ e \in 1 .. Len(s)
                        /\ pl[e].at = 1 \/ AtEnd(pl[e])
                        /\ IsAck(r.h, x) => /\ pl[e].type = CONTROL_ACK
                                            /\ Stores(r.h, pl[e].msg, 2)
    /\ ~HostDone(r.h) => r.left = <<>> /\ ~IsAck(r.h, x)

LEMMA CaughtIs ==
    ASSUME NEW s \in Seq(Nat), NEW pl, OnWire(s, pl), NEW h0, NEW x, Clear(h0, x),
           NEW r, NEW g, NEW e, Took(r, h0, s, g, e)
    PROVE  Caught(r, s, pl, e, x)
<1>1. x > ESC /\ h0.start_found = FALSE /\ Idle(h0, x)
    BY DEF Clear, Fresh, Idle
<1>2. /\ HostDone(r.h) => /\ e >= 1 /\ e \in 1 .. Len(s)
                          /\ pl[e].at = 1 \/ AtEnd(pl[e])
                          /\ IsAck(r.h, x) => /\ pl[e].type = CONTROL_ACK
                                              /\ Stores(r.h, pl[e].msg, 2)
      /\ ~HostDone(r.h) => r.left = <<>> /\ ~IsAck(r.h, x)
    BY <1>1, TakenAstray
<1> QED BY <1>2 DEF Caught

(* A call that returns leaves pieces of acks and frames behind, and an      *)
(* answer is the ack of a message that was run.                             *)
LEMMA AckTaken ==
    ASSUME NEW s \in Seq(Nat), NEW frame, NEW runs, AcksOnWire(s, frame, runs),
           NEW h0, Fresh(h0), NEW x, ~IsAck(h0, x), frame = "none" \/ x > ESC,
           NEW r, r = HostParse(h0, s)
    PROVE  /\ HostDone(r.h) =>
                /\ AcksOnWire(r.left, frame, runs)
                /\ IsAck(r.h, x) => \E k \in 1 .. Len(runs) :
                     r.h.buf[1] = runs[k].msg[1] /\ r.h.buf[2] = runs[k].msg[2]
           /\ ~HostDone(r.h) => ~IsAck(r.h, x)
<1> PICK pl : AckRoles(s, pl, frame, runs)
    BY DEF AcksOnWire
<1>1. h0 \in HostStates
    BY DEF Fresh
<1>2. PICK e, g : e \in 0 .. Len(s) /\ Took(r, h0, s, g, e)
    BY <1>1, HostTakes
<1>3. /\ OnWire(s, pl)
      /\ \A i \in 1 .. Len(s) : pl[i].type = CONTROL_ACK =>
           \E k \in 1 .. Len(runs) : pl[i].msg = runs[k].msg
      /\ frame = "none" => Frames(s, pl) /\ \A i \in 1 .. Len(s) : pl[i].type = CONTROL_ACK
    BY DEF AckRoles
<1>4. /\ HostDone(r.h) =>
           /\ e \in 1 .. Len(s) /\ (pl[e].at = 1 \/ AtEnd(pl[e]))
           /\ frame = "none" => AtEnd(pl[e])
           /\ IsAck(r.h, x) => pl[e].type = CONTROL_ACK /\ Stores(r.h, pl[e].msg, 2)
      /\ ~HostDone(r.h) => ~IsAck(r.h, x)
    <2>1. CASE frame = "none"
        <3>1. /\ HostDone(r.h) => /\ e \in 1 .. Len(s) /\ AtEnd(pl[e])
                                  /\ r.h.type = pl[e].type /\ Stores(r.h, pl[e].msg, 2)
              /\ ~HostDone(r.h) => /\ Len(s) = 0 => r.h = h0
                                   /\ Len(s) > 0 => ~AtEnd(pl[Len(s)])
            BY <1>2, <1>3, <2>1, TakenInOrder
        <3>2. IsAck(r.h, x) => r.h.type = CONTROL_ACK
            BY DEF IsAck
        <3>3. Len(s) > 0 => AtEnd(pl[Len(s)])
            <4> SUFFICES ASSUME Len(s) > 0 PROVE AtEnd(pl[Len(s)])
                OBVIOUS
            <4>1. Len(s) \in 1 .. Len(s)
                OBVIOUS
            <4>2. Closes(pl[Len(s)]) /\ pl[Len(s)].type = CONTROL_ACK
                BY <1>3, <2>1, <4>1 DEF OnWire
            <4> QED BY <4>2, AckCloses
        <3>4. Len(s) = 0 \/ Len(s) > 0
            OBVIOUS
        <3> QED BY <3>1, <3>2, <3>3, <3>4
    <2>2. CASE frame # "none"
        <3>1. Clear(h0, x)
            BY <2>2 DEF Clear
        <3>2. OnWire(s, pl)
            BY <1>3
        <3>3. Caught(r, s, pl, e, x)
            BY <1>2, <3>1, <3>2, CaughtIs
        <3> QED BY <2>2, <3>3 DEF Caught
    <2> QED BY <2>1, <2>2
<1>5. ASSUME HostDone(r.h)
      PROVE  AcksOnWire(r.left, frame, runs)
    <2> PICK left : left = r.left
        OBVIOUS
    <2>1. left = SubSeq(s, e + 1, Len(s)) /\ e \in 1 .. Len(s)
        BY <1>2, <1>4, <1>5 DEF Took
    <2>2. PICK pm : Rest(left, pm, s, pl, e)
        BY <2>1, RestIs
    <2>3. /\ OnWire(left, pm)
          /\ Frames(s, pl) /\ AtEnd(pl[e]) => Frames(left, pm)
        BY <1>3, <1>4, <1>5, <2>2, RestOnWire
    <2>4. \A i \in 1 .. Len(left) : i + e \in 1 .. Len(s) /\ pm[i] = pl[i + e]
        BY <2>2, RestTypes
    <2>5. \A i \in 1 .. Len(left) : pm[i].type = CONTROL_ACK =>
            \E k \in 1 .. Len(runs) : pm[i].msg = runs[k].msg
        <3> TAKE i \in 1 .. Len(left)
        <3> PICK j : j = i + e
            OBVIOUS
        <3>1. j \in 1 .. Len(s) /\ pm[i] = pl[j]
            BY <2>4
        <3> QED BY <1>3, <3>1
    <2>6. frame = "none" => \A i \in 1 .. Len(left) : pm[i].type = CONTROL_ACK
        BY <1>3, <2>4
    <2>7. AckRoles(left, pm, frame, runs)
        BY <1>3, <1>4, <1>5, <2>3, <2>5, <2>6 DEF AckRoles
    <2> QED BY <2>7 DEF AcksOnWire
<1>6. ASSUME HostDone(r.h), IsAck(r.h, x)
      PROVE  \E k \in 1 .. Len(runs) :
               r.h.buf[1] = runs[k].msg[1] /\ r.h.buf[2] = runs[k].msg[2]
    <2>1. e \in 1 .. Len(s) /\ pl[e].type = CONTROL_ACK /\ Stores(r.h, pl[e].msg, 2)
        BY <1>4, <1>6
    <2>2. PICK k \in 1 .. Len(runs) : pl[e].msg = runs[k].msg
        BY <1>3, <2>1
    <2>3. r.h.buf[1] = pl[e].msg[1] /\ r.h.buf[2] = pl[e].msg[2]
        BY <2>1 DEF Stores
    <2> QED BY <2>2, <2>3
<1> QED BY <1>4, <1>5, <1>6

(* A piece comes behind them. *)
LEMMA AcksMore ==
    ASSUME NEW s \in Seq(Nat), NEW frame, NEW runs, AcksOnWire(s, frame, runs),
           NEW bytes, NEW p, NEW n, Piece(bytes, p, n),
           frame = "none" => p.type = CONTROL_ACK /\ p.at = 1,
           p.type = CONTROL_ACK => \E x \in 1 .. Len(runs) : p.msg = runs[x].msg
    PROVE  AcksOnWire(s \o bytes, frame, runs)
<1> PICK t : t = s \o bytes
    OBVIOUS
<1> PICK pl : AckRoles(s, pl, frame, runs)
    BY DEF AcksOnWire
<1>1. /\ OnWire(s, pl)
      /\ \A i \in 1 .. Len(s) : pl[i].type = CONTROL_ACK =>
           \E k \in 1 .. Len(runs) : pl[i].msg = runs[k].msg
      /\ frame = "none" => Frames(s, pl) /\ \A i \in 1 .. Len(s) : pl[i].type = CONTROL_ACK
    BY DEF AckRoles
<1>2. PICK pm : Adds(t, pm, s, pl, p, n)
    BY AddsIs
<1>3. /\ \A i \in 1 .. Len(s) : pm[i] = pl[i]
      /\ \A i \in Len(s) + 1 .. Len(t) : SameFrame(p, pm[i])
    BY <1>2 DEF Adds
<1>4. \A i \in 1 .. Len(t) : i \in 1 .. Len(s) \/ i \in Len(s) + 1 .. Len(t)
    BY <1>2, AddsTypes
<1>5. \A i \in 1 .. Len(t) : pm[i].type = CONTROL_ACK =>
        \E k \in 1 .. Len(runs) : pm[i].msg = runs[k].msg
    <2> TAKE i \in 1 .. Len(t)
    <2>1. CASE i \in 1 .. Len(s)
        BY <1>1, <1>3, <2>1
    <2>2. CASE i \in Len(s) + 1 .. Len(t)
        <3>1. pm[i].type = p.type /\ pm[i].msg = p.msg
            BY <1>3, <2>2 DEF SameFrame
        <3> QED BY <3>1
    <2> QED BY <1>4, <2>1, <2>2
<1>6. frame = "none" => \A i \in 1 .. Len(t) : pm[i].type = CONTROL_ACK
    <2> SUFFICES ASSUME frame = "none", NEW i \in 1 .. Len(t)
                 PROVE  pm[i].type = CONTROL_ACK
        OBVIOUS
    <2>1. CASE i \in 1 .. Len(s)
        BY <1>1, <1>3, <2>1
    <2>2. CASE i \in Len(s) + 1 .. Len(t)
        BY <1>3, <2>2 DEF SameFrame
    <2> QED BY <1>4, <2>1, <2>2
<1>7. frame = "none" => (Len(s) > 0 => AtEnd(pl[Len(s)]) /\ p.at = 1)
    <2> SUFFICES ASSUME frame = "none", Len(s) > 0 PROVE AtEnd(pl[Len(s)])
        OBVIOUS
    <2>1. Len(s) \in 1 .. Len(s)
        OBVIOUS
    <2>2. Closes(pl[Len(s)]) /\ pl[Len(s)].type = CONTROL_ACK
        BY <1>1, <2>1 DEF OnWire
    <2> QED BY <2>2, AckCloses
<1>8. OnWire(t, pm) /\ (frame = "none" => Frames(t, pm))
    BY <1>1, <1>2, <1>7, AddsOnWire
<1>9. AckRoles(t, pm, frame, runs)
    BY <1>5, <1>6, <1>8 DEF AckRoles
<1> QED BY <1>9 DEF AcksOnWire

-----------------------------------------------------------------------------
(* An acknowledgement the host takes means that its message was run *)

(* The host has sent what it is at, or has been. *)
SentOfSession(msgs, x) ==
    \A n \in 1 .. Len(msgs) : \E k \in 1 .. Len(Session) : k <= x /\ msgs[n] = Session[k]

AckedRun(calls, runs) ==
    \A i \in 1 .. Len(calls) :
        /\ calls[i].value = calls[i].msg[2]
        /\ \E j \in 1 .. Len(runs) : runs[j].msg = calls[i].msg

AckInv ==
    /\ HostType /\ RunInv
    /\ SentOfSession(sent, host.msg)
    /\ fw.pc = "ack" => \E x \in 1 .. Len(ran) : fw.msg = ran[x].msg
    /\ fw.frame # "none" => host.msg = Len(Session)
    /\ "cut" \notin odd =>
         /\ AckedRun(acked, ran)
         /\ host.pc # "read" => ~IsAck(h, Message[1])
         /\ AcksOnWire(to_host, fw.frame, ran)

(* What is run is of the session. *)
LEMMA RanOfSession ==
    ASSUME RunInv, SentOfSession(sent, host.msg), NEW i \in 1 .. Len(ran)
    PROVE  /\ ran[i].msg \in Messages
           /\ \E k \in 1 .. Len(Session) : k <= host.msg /\ ran[i].msg = Session[k]
<1>1. /\ DOMAIN ran = 1 .. Len(ran) /\ DOMAIN sent = 1 .. Len(sent)
    BY DEF RunInv, LinkType
<1>2. PICK n \in 1 .. Len(sent) : ran[i].msg = sent[n]
    BY <1>1, RunImplies DEF RunsOnlySent
<1>3. PICK k \in 1 .. Len(Session) : k <= host.msg /\ sent[n] = Session[k]
    BY DEF SentOfSession
<1>4. Session[k] \in Messages
    BY UartLinkAssumption
<1> QED BY <1>2, <1>3, <1>4

LEMMA AckedLater ==
    ASSUME NEW calls, NEW runs, AckedRun(calls, runs),
           NEW more, Len(runs) \in Nat, Len(more) \in Nat, Len(more) >= Len(runs),
           \A x \in 1 .. Len(runs) : more[x] = runs[x]
    PROVE  AckedRun(calls, more)
<1>1. \A x \in 1 .. Len(runs) : x \in 1 .. Len(more) /\ more[x].msg = runs[x].msg
    OBVIOUS
<1> QED BY <1>1 DEF AckedRun

LEMMA AckedOne ==
    ASSUME NEW S, NEW calls \in Seq(S), NEW runs, AckedRun(calls, runs), NEW c \in S,
           c.value = c.msg[2], \E j \in 1 .. Len(runs) : runs[j].msg = c.msg
    PROVE  AckedRun(Append(calls, c), runs)
<1> PICK more : more = Append(calls, c)
    OBVIOUS
<1>1. /\ Len(calls) \in Nat /\ Len(more) = Len(calls) + 1
      /\ \A i \in 1 .. Len(calls) : more[i] = calls[i]
      /\ more[Len(calls) + 1] = c
    BY AppendProperties
<1>2. \A i \in 1 .. Len(more) : i \in 1 .. Len(calls) \/ i = Len(calls) + 1
    BY <1>1
<1>3. \A i \in 1 .. Len(more) :
        /\ more[i].value = more[i].msg[2]
        /\ \E j \in 1 .. Len(runs) : runs[j].msg = more[i].msg
    <2> TAKE i \in 1 .. Len(more)
    <2>1. CASE i \in 1 .. Len(calls)
        BY <1>1, <2>1 DEF AckedRun
    <2>2. CASE i = Len(calls) + 1
        BY <1>1, <2>2
    <2> QED BY <1>2, <2>1, <2>2
<1> QED BY <1>3 DEF AckedRun

LEMMA AckInit == Init => AckInv
<1> SUFFICES ASSUME Init PROVE AckInv
    OBVIOUS
<1>1. HostType /\ RunInv
    BY HostTypeInit, RunInit
<1>2. /\ sent = <<>> /\ acked = <<>> /\ to_host = <<>> /\ fw.pc = "main" /\ fw.frame = "none"
      /\ h.type = CONTROL_ACK + 1
    BY DEF Init
<1>3. Len(<<>>) = 0
    OBVIOUS
<1>4. SentOfSession(sent, host.msg) /\ AckedRun(acked, ran)
    BY <1>2, <1>3 DEF SentOfSession, AckedRun
<1>5. ~IsAck(h, Message[1])
    BY <1>2 DEF IsAck, CONTROL_ACK
<1>6. AcksOnWire(to_host, fw.frame, ran)
    BY <1>2, NoAcks
<1> QED BY <1>1, <1>2, <1>4, <1>5, <1>6 DEF AckInv

(* A step of which the host's end knows nothing *)
LEMMA AckKept ==
    ASSUME AckInv, HostType', RunInv',
           UNCHANGED <<sent, host, h, acked, to_host, ran>>,
           fw'.frame = fw.frame, fw'.pc = "ack" => UNCHANGED fw,
           "cut" \in odd => "cut" \in odd'
    PROVE  AckInv'
<1>1. Message' = Message
    BY DEF Message
<1>2. fw'.pc = "ack" => \E x \in 1 .. Len(ran') : fw'.msg = ran'[x].msg
    BY DEF AckInv
<1> QED BY <1>1, <1>2 DEF AckInv

LEMMA AckGot ==
    ASSUME AckInv, GotUartBytes, HostType', RunInv'
    PROVE  AckInv'
<1>0. HostType /\ RunInv /\ SentOfSession(sent, host.msg)
    BY DEF AckInv
<1>1. /\ UNCHANGED <<host, h, acked, got, to_host, faults>>
      /\ \/ UNCHANGED <<fw, odd, ran>>
         \/ /\ fw.pc = "main" /\ fw'.pc = "ack"
            /\ Sampling(fw'.msg) => fw'.frame = "PRE"
            /\ ~Sampling(fw'.msg) => fw'.frame = fw.frame
            /\ odd \subseteq odd' /\ ("cut" \in odd' => "cut" \in odd)
            /\ \E x : ran' = Append(ran, x) /\ x \in Ran /\ x.msg = fw'.msg
    BY <1>0, GotSent
<1>2. UNCHANGED sent
    BY DEF GotUartBytes
<1>3. CASE UNCHANGED <<fw, odd, ran>>
    BY <1>1, <1>2, <1>3, AckKept
<1>4. ASSUME /\ fw.pc = "main" /\ fw'.pc = "ack"
             /\ Sampling(fw'.msg) => fw'.frame = "PRE"
             /\ ~Sampling(fw'.msg) => fw'.frame = fw.frame
             /\ odd \subseteq odd' /\ ("cut" \in odd' => "cut" \in odd),
             NEW x \in Ran, ran' = Append(ran, x), x.msg = fw'.msg
      PROVE  AckInv'
    <2>1. ran \in Seq(Ran)
        BY <1>0 DEF RunInv, LinkType
    <2>2. /\ Len(ran) \in Nat /\ Len(ran') = Len(ran) + 1
          /\ \A i \in 1 .. Len(ran) : ran'[i] = ran[i]
          /\ ran'[Len(ran) + 1] = x
        BY <1>4, <2>1, AppendProperties
    <2>3. /\ Len(ran') \in Nat /\ Len(ran') >= Len(ran) /\ Len(ran') \in 1 .. Len(ran')
          /\ ran'[Len(ran')].msg = fw'.msg
        BY <1>4, <2>2
    <2>4. SentOfSession(sent', host'.msg)
        BY <1>0, <1>1, <1>2
    <2>5. \E k \in 1 .. Len(Session) : k <= host.msg /\ fw'.msg = Session[k]
        <3> PICK i \in 1 .. Len(ran') : i = Len(ran')
            BY <2>3
        <3>0. i \in 1 .. Len(ran')
            OBVIOUS
        <3>1. DOMAIN ran' = 1 .. Len(ran') /\ DOMAIN sent' = 1 .. Len(sent')
            BY DEF RunInv, LinkType
        <3>2. RunInv' => RunsOnlySent'
            BY RunImplies, PTL
        <3>3. \E n \in 1 .. Len(sent') : ran'[i].msg = sent'[n]
            BY <3>0, <3>1, <3>2 DEF RunsOnlySent
        <3> QED BY <1>1, <2>3, <2>4, <3>3 DEF SentOfSession
    <2>6. Sampling(fw'.msg) => host.msg = Len(Session)
        <3> SUFFICES ASSUME Sampling(fw'.msg) PROVE host.msg = Len(Session)
            OBVIOUS
        <3> PICK k \in 1 .. Len(Session) : k <= host.msg /\ fw'.msg = Session[k]
            BY <2>5
        <3>1. Session[k][1] = Session[Len(Session)][1]
            BY UartLinkAssumption DEF Sampling
        <3>2. k = Len(Session)
            <4>1. Session \in Seq(Messages) /\ Len(Session) \in 1 .. Len(Session)
                BY EmptySeq, UartLinkAssumption
            <4>2. DOMAIN Session = 1 .. Len(Session)
                BY <4>1
            <4> QED BY <3>1, <4>1, <4>2, UartLinkAssumption
        <3>3. host.msg \in 1 .. Len(Session) /\ Len(Session) \in Nat
            BY <1>0, UartLinkAssumption DEF RunInv, LinkType
        <3> QED BY <3>2, <3>3
    <2>7. fw'.frame = fw.frame \/ fw'.frame # "none"
        BY <1>4
    <2>8. Message' = Message
        BY <1>1 DEF Message
    <2>9. "cut" \notin odd' =>
            /\ AckedRun(acked', ran')
            /\ host'.pc # "read" => ~IsAck(h', Message'[1])
            /\ AcksOnWire(to_host', fw'.frame, ran')
        <3> SUFFICES ASSUME "cut" \notin odd'
                     PROVE  /\ AckedRun(acked', ran')
                            /\ host'.pc # "read" => ~IsAck(h', Message'[1])
                            /\ AcksOnWire(to_host', fw'.frame, ran')
            OBVIOUS
        <3>1. /\ AckedRun(acked, ran) /\ (host.pc # "read" => ~IsAck(h, Message[1]))
              /\ AcksOnWire(to_host, fw.frame, ran)
            BY <1>4 DEF AckInv
        <3>2. AckedRun(acked, ran')
            BY <2>2, <2>3, <3>1, AckedLater
        <3>3. AcksOnWire(to_host, fw'.frame, ran')
            BY <2>2, <2>3, <2>7, <3>1, AcksLater
        <3> QED BY <1>1, <2>8, <3>1, <3>2, <3>3
    <2>10. fw'.frame # "none" => host'.msg = Len(Session)
        BY <1>1, <1>4, <2>6 DEF AckInv
    <2> QED BY <2>3, <2>4, <2>9, <2>10 DEF AckInv
<1> QED BY <1>1, <1>3, <1>4

LEMMA AckAck ==
    ASSUME AckInv, Ack, HostType', RunInv'
    PROVE  AckInv'
<1>0. HostType /\ RunInv /\ SentOfSession(sent, host.msg)
    BY DEF AckInv
<1>1. /\ fw.pc = "ack" /\ fw'.pc = "flush" /\ fw'.frame = fw.frame
      /\ AckOf(fw.msg) \in Messages /\ odd \subseteq odd'
      /\ "cut" \notin odd' => to_host' = to_host \o AckBytes
    BY <1>0, AckSent
<1>2. UNCHANGED <<sent, host, h, acked, ran>>
    BY DEF Ack, hostVars
<1>3. Message' = Message
    BY <1>2 DEF Message
<1>4. ASSUME "cut" \notin odd'
      PROVE  AcksOnWire(to_host', fw'.frame, ran')
    <2>1. AcksOnWire(to_host, fw.frame, ran) /\ to_host \in Seq(Nat)
        BY <1>1, <1>4 DEF AckInv, HostType
    <2> PICK x \in 1 .. Len(ran) : fw.msg = ran[x].msg
        BY <1>1 DEF AckInv
    <2>2. fw.msg \in Messages
        BY <1>0, RanOfSession
    <2>3. AckOf(fw.msg) = fw.msg
        BY <2>2, MessageIs DEF AckOf
    <2> PICK p : p = [type |-> CONTROL_ACK, msg |-> AckOf(fw.msg), at |-> 1,
                      count |-> 0, on |-> 0]
        OBVIOUS
    <2>4. /\ p \in Roles /\ p.type = CONTROL_ACK /\ p.at = 1 /\ p.msg = fw.msg
          /\ p.msg = AckOf(fw.msg)
        BY <1>1, <2>3 DEF Roles
    <2>5. Piece(AckBytes, p, FrameLen(p.msg))
        BY <2>4, AckPiece DEF AckBytes
    <2>6. AcksOnWire(to_host \o AckBytes, fw.frame, ran)
        BY <2>1, <2>4, <2>5, AcksMore
    <2> QED BY <1>1, <1>2, <1>4, <2>6
<1> QED BY <1>0, <1>1, <1>2, <1>3, <1>4 DEF AckInv

LEMMA AckPieceSent ==
    ASSUME AckInv, StreamPiece, HostType', RunInv'
    PROVE  AckInv'
<1>0. HostType /\ RunInv /\ SentOfSession(sent, host.msg)
    BY DEF AckInv
<1>1. /\ fw'.pc = "main" /\ fw.frame # "none" /\ fw'.frame # "none"
      /\ odd' = odd \cup (IF WasCut THEN {"cut"} ELSE {})
      /\ Before(fw) \in Nat
      /\ "cut" \notin odd' => \E bytes, n : SendsPiece(bytes, n)
    BY <1>0, PieceSent
<1>2. UNCHANGED <<sent, host, h, acked, ran>>
    BY DEF StreamPiece, hostVars
<1>3. Message' = Message
    BY <1>2 DEF Message
<1>4. odd \subseteq odd'
    BY <1>1
<1>5. ASSUME "cut" \notin odd'
      PROVE  AcksOnWire(to_host', fw'.frame, ran')
    <2>1. AcksOnWire(to_host, fw.frame, ran) /\ to_host \in Seq(Nat)
        BY <1>4, <1>5 DEF AckInv, HostType
    <2> PICK bytes, n : SendsPiece(bytes, n)
        BY <1>1, <1>5
    <2> PICK p : p = SampleRole(fw, Before(fw))
        OBVIOUS
    <2>2. to_host' = to_host \o bytes /\ Piece(bytes, p, n)
        BY DEF SendsPiece
    <2>3. p.type # CONTROL_ACK
        BY DEF SampleRole, SAMPLES, CONTROL_ACK
    <2>4. AcksOnWire(to_host \o bytes, fw.frame, ran)
        BY <1>1, <2>1, <2>2, <2>3, AcksMore
    <2>5. /\ Len(ran) \in Nat /\ \A x \in 1 .. Len(ran) : ran[x] = ran[x]
          /\ Len(ran) >= Len(ran)
        BY <1>0 DEF RunInv, LinkType
    <2>6. AcksOnWire(to_host \o bytes, fw'.frame, ran)
        BY <1>1, <2>4, <2>5, AcksLater
    <2> QED BY <1>2, <2>2, <2>6
<1> QED BY <1>0, <1>1, <1>2, <1>3, <1>4, <1>5 DEF AckInv

LEMMA AckSend ==
    ASSUME AckInv, Send, HostType', RunInv'
    PROVE  AckInv'
<1>0. HostType /\ RunInv /\ SentOfSession(sent, host.msg)
    BY DEF AckInv
<1>1. /\ host.pc = "send" /\ sent' = Append(sent, Message)
      /\ host' = [host EXCEPT !.pc = "listen"] /\ h' = HostFresh(h)
      /\ UNCHANGED <<to_host, fw, ran, acked, odd>>
    BY DEF Send
<1>2. sent \in Seq(Messages) /\ Message \in Messages /\ host.msg \in 1 .. Len(Session)
    BY <1>0, SessionMessages DEF RunInv, LinkType
<1>3. host'.msg = host.msg /\ Message' = Message
    <2>1. host'.msg = host.msg
        BY <1>0, <1>1 DEF RunInv, LinkType
    <2> QED BY <2>1 DEF Message
<1>4. SentOfSession(sent', host.msg)
    <2>1. /\ Len(sent) \in Nat /\ Len(sent') = Len(sent) + 1
          /\ \A i \in 1 .. Len(sent) : sent'[i] = sent[i]
          /\ sent'[Len(sent) + 1] = Message
        BY <1>1, <1>2, AppendProperties
    <2>2. \A i \in 1 .. Len(sent') : i \in 1 .. Len(sent) \/ i = Len(sent) + 1
        BY <2>1
    <2>3. Message = Session[host.msg] /\ host.msg <= host.msg
        BY <1>2 DEF Message
    <2> QED BY <1>0, <1>2, <2>1, <2>2, <2>3 DEF SentOfSession
<1>5. h'.type = h.type /\ h'.buf = h.buf
    BY <1>0, <1>1, FreshIs DEF HostType, Fresh
<1>6. IsAck(h', Message[1]) <=> IsAck(h, Message[1])
    BY <1>5 DEF IsAck
<1> QED BY <1>0, <1>1, <1>3, <1>4, <1>6 DEF AckInv

(* Of a call of uart_rx_bytes in control() *)
LEMMA AckCall ==
    ASSUME AckInv, "cut" \notin odd, host.pc = "listen",
           NEW r, r = HostParse(h, to_host)
    PROVE  /\ HostDone(r.h) =>
                /\ AcksOnWire(r.left, fw.frame, ran)
                /\ IsAck(r.h, Message[1]) => \E k \in 1 .. Len(ran) :
                     r.h.buf[2] = Message[2] /\ ran[k].msg = Message
           /\ ~HostDone(r.h) => ~IsAck(r.h, Message[1])
<1>0. HostType /\ RunInv /\ SentOfSession(sent, host.msg)
    BY DEF AckInv
<1> PICK x : x = Message[1]
    OBVIOUS
<1>1. /\ to_host \in Seq(Nat) /\ Fresh(h) /\ AcksOnWire(to_host, fw.frame, ran)
      /\ ~IsAck(h, x)
    BY DEF AckInv, HostType
<1>2. fw.frame = "none" \/ x > ESC
    <2> SUFFICES ASSUME fw.frame # "none" PROVE x > ESC
        OBVIOUS
    <2>1. host.msg = Len(Session)
        BY DEF AckInv
    <2> QED BY <2>1, UartLinkAssumption DEF Message
<1>3. /\ HostDone(r.h) =>
           /\ AcksOnWire(r.left, fw.frame, ran)
           /\ IsAck(r.h, x) => \E k \in 1 .. Len(ran) :
                r.h.buf[1] = ran[k].msg[1] /\ r.h.buf[2] = ran[k].msg[2]
      /\ ~HostDone(r.h) => ~IsAck(r.h, x)
    BY <1>1, <1>2, AckTaken
<1>4. ASSUME HostDone(r.h), IsAck(r.h, x)
      PROVE  \E k \in 1 .. Len(ran) : r.h.buf[2] = Message[2] /\ ran[k].msg = Message
    <2> PICK k \in 1 .. Len(ran) :
               r.h.buf[1] = ran[k].msg[1] /\ r.h.buf[2] = ran[k].msg[2]
        BY <1>3, <1>4
    <2> PICK j \in 1 .. Len(Session) : j <= host.msg /\ ran[k].msg = Session[j]
        BY <1>0, RanOfSession
    <2>1. host.msg \in 1 .. Len(Session) /\ DOMAIN Session = 1 .. Len(Session)
        BY <1>0, UartLinkAssumption DEF RunInv, LinkType
    <2>2. Session[j][1] = Session[host.msg][1]
        BY <1>4 DEF IsAck, Message
    <2>3. j = host.msg
        BY <2>1, <2>2, UartLinkAssumption
    <2> QED BY <2>3 DEF Message
<1> QED BY <1>3, <1>4

LEMMA NextCallIs ==
    ASSUME HostType
    PROVE  /\ NextCall(host).msg \in 1 .. Len(Session) /\ host.msg \in 1 .. Len(Session)
           /\ host.msg <= NextCall(host).msg
           /\ host.msg = Len(Session) => /\ NextCall(host).pc = "read"
                                         /\ NextCall(host).msg = host.msg
           /\ host.msg < Len(Session) => NextCall(host).pc = "send"
<1>1. host.msg \in 1 .. Len(Session) /\ Len(Session) \in Nat
    BY UartLinkAssumption DEF HostType, LinkType
<1>2. CASE host.msg < Len(Session)
    <2>1. NextCall(host).pc = "send" /\ NextCall(host).msg = host.msg + 1
        BY <1>2 DEF NextCall
    <2> QED BY <1>1, <1>2, <2>1
<1>3. CASE ~(host.msg < Len(Session))
    <2>1. NextCall(host).pc = "read" /\ NextCall(host).msg = host.msg
        BY <1>3 DEF NextCall
    <2> QED BY <1>1, <1>3, <2>1
<1> QED BY <1>2, <1>3

LEMMA SentSoFar ==
    ASSUME NEW msgs, NEW x \in Nat, NEW y \in Nat, x <= y, SentOfSession(msgs, x)
    PROVE  SentOfSession(msgs, y)
<1>1. Len(Session) \in Nat
    BY UartLinkAssumption
<1>2. \A k \in 1 .. Len(Session) : k <= x => k <= y
    BY <1>1
<1> QED BY <1>2 DEF SentOfSession

(* What a step of Listen is *)
LEMMA ListenIs ==
    ASSUME Listen, NEW r, r = HostParse(h, to_host)
    PROVE  /\ host.pc = "listen" /\ HostDone(r.h) /\ to_host' = r.left
           /\ UNCHANGED <<fw, sent, ran, got, odd>>
           /\ IsAck(r.h, Message[1]) =>
                /\ acked' = Append(acked, [msg |-> Message, value |-> r.h.buf[2]])
                /\ host' = NextCall(host) /\ h' = FreshLocals(r.h)
           /\ ~IsAck(r.h, Message[1]) =>
                /\ host' = [host EXCEPT !.pc = "send"]
                /\ h' = HostFresh(r.h) /\ acked' = acked
    BY DEF Listen, Returns, Answers, IsAck

LEMMA AckListen ==
    ASSUME AckInv, Listen, HostType', RunInv'
    PROVE  AckInv'
<1>0. HostType /\ RunInv /\ SentOfSession(sent, host.msg)
    BY DEF AckInv
<1> PICK r : r = HostParse(h, to_host)
    OBVIOUS
<1>1. /\ host.pc = "listen" /\ HostDone(r.h) /\ to_host' = r.left
      /\ UNCHANGED <<fw, sent, ran, got, odd>>
      /\ IsAck(r.h, Message[1]) =>
           /\ acked' = Append(acked, [msg |-> Message, value |-> r.h.buf[2]])
           /\ host' = NextCall(host) /\ h' = FreshLocals(r.h)
      /\ ~IsAck(r.h, Message[1]) =>
           /\ host' = [host EXCEPT !.pc = "send"]
           /\ h' = HostFresh(r.h) /\ acked' = acked
    BY ListenIs
<1>2. "cut" \notin odd =>
        /\ AcksOnWire(r.left, fw.frame, ran)
        /\ IsAck(r.h, Message[1]) => \E k \in 1 .. Len(ran) :
             r.h.buf[2] = Message[2] /\ ran[k].msg = Message
    BY <1>1, AckCall
<1>3. /\ HostFresh(r.h).type = r.h.type /\ HostFresh(r.h).buf = r.h.buf
      /\ FreshLocals(r.h).type = SAMPLES /\ r.h.buf[2] \in Nat
    BY <1>0, CallType
<1>4. CASE IsAck(r.h, Message[1])
    <2>1. /\ acked' = Append(acked, [msg |-> Message, value |-> r.h.buf[2]])
          /\ host' = NextCall(host) /\ h' = FreshLocals(r.h)
        BY <1>1, <1>4
    <2>2. /\ host'.msg \in Nat /\ host.msg \in Nat /\ host.msg <= host'.msg
          /\ host.msg = Len(Session) => host'.msg = host.msg
        BY <1>0, <2>1, NextCallIs
    <2>3. SentOfSession(sent', host'.msg)
        BY <1>0, <1>1, <2>2, SentSoFar
    <2>4. ~IsAck(h', Message'[1])
        BY <1>3, <2>1 DEF IsAck, SAMPLES, CONTROL_ACK
    <2>5. "cut" \notin odd' => AckedRun(acked', ran')
        <3> SUFFICES ASSUME "cut" \notin odd PROVE AckedRun(acked', ran)
            BY <1>1
        <3> PICK a : a = [msg |-> Message, value |-> r.h.buf[2]]
            OBVIOUS
        <3>1. a \in [msg : Messages, value : Nat] /\ a.msg = Message /\ a.value = r.h.buf[2]
            BY <1>0, <1>3, SessionMessages DEF RunInv
        <3>2. a.value = a.msg[2] /\ \E k \in 1 .. Len(ran) : ran[k].msg = a.msg
            BY <1>2, <1>4, <3>1
        <3>3. AckedRun(acked, ran) /\ acked \in Seq([msg : Messages, value : Nat])
            BY <1>0 DEF AckInv, HostType
        <3>4. AckedRun(Append(acked, a), ran)
            BY <3>1, <3>2, <3>3, AckedOne
        <3> QED BY <2>1, <3>4
    <2>6. "cut" \notin odd' => AcksOnWire(to_host', fw'.frame, ran')
        BY <1>1, <1>2
    <2> QED BY <1>1, <2>2, <2>3, <2>4, <2>5, <2>6 DEF AckInv
<1>5. CASE ~IsAck(r.h, Message[1])
    <2>1. /\ host' = [host EXCEPT !.pc = "send"] /\ h' = HostFresh(r.h) /\ acked' = acked
        BY <1>1, <1>5
    <2>2. host'.msg = host.msg
        BY <1>0, <2>1 DEF RunInv, LinkType
    <2>3. Message' = Message
        BY <2>2 DEF Message
    <2>4. ~IsAck(h', Message'[1])
        BY <1>3, <1>5, <2>1, <2>3 DEF IsAck
    <2>5. "cut" \notin odd' => AcksOnWire(to_host', fw'.frame, ran')
        BY <1>1, <1>2
    <2> QED BY <1>0, <1>1, <2>1, <2>2, <2>4, <2>5 DEF AckInv
<1> QED BY <1>4, <1>5

LEMMA AckRead ==
    ASSUME AckInv, ReadStream, HostType', RunInv'
    PROVE  AckInv'
<1>0. HostType /\ RunInv /\ SentOfSession(sent, host.msg)
    BY DEF AckInv
<1> PICK r : r = HostParse(h, to_host)
    OBVIOUS
<1>1. /\ host.pc = "read" /\ HostDone(r.h) /\ to_host' = r.left
      /\ UNCHANGED <<host, fw, sent, ran, acked, odd>>
    BY DEF ReadStream, Returns
<1>2. Fresh(h) /\ to_host \in Seq(Nat)
    BY <1>0 DEF HostType
<1> PICK y \in Nat : y = h.buf[1]
    BY <1>2 DEF Fresh, HostStates, Messages, MSG_LEN
<1> PICK x \in Nat : x = y + 3
    OBVIOUS
<1>3. x > ESC /\ ~IsAck(h, x)
    BY DEF ESC, IsAck
<1>4. "cut" \notin odd => AcksOnWire(r.left, fw.frame, ran)
    <2> SUFFICES ASSUME "cut" \notin odd PROVE AcksOnWire(r.left, fw.frame, ran)
        OBVIOUS
    <2>1. AcksOnWire(to_host, fw.frame, ran)
        BY DEF AckInv
    <2> QED BY <1>1, <1>2, <1>3, <2>1, AckTaken
<1> QED BY <1>1, <1>4 DEF AckInv

LEMMA AckTimeout ==
    ASSUME AckInv, Timeout, HostType', RunInv'
    PROVE  AckInv'
<1>0. HostType /\ RunInv /\ SentOfSession(sent, host.msg)
    BY DEF AckInv
<1> PICK r : r = HostParse(h, to_host)
    OBVIOUS
<1>1. /\ host.pc = "listen" /\ ~HostDone(r.h) /\ to_host' = <<>>
      /\ h' = HostFresh(r.h) /\ host' = [host EXCEPT !.pc = AfterTimeout]
      /\ UNCHANGED <<fw, sent, ran, acked, odd>>
    BY DEF Timeout, Returns
<1>2. /\ host'.msg = host.msg
    BY <1>0, <1>1 DEF RunInv, LinkType
<1>3. Message' = Message
    BY <1>2 DEF Message
<1>4. "cut" \notin odd => ~IsAck(r.h, Message[1])
    BY <1>1, AckCall
<1>5. h'.type = r.h.type /\ h'.buf = r.h.buf
    BY <1>0, <1>1, CallType
<1>6. "cut" \notin odd => ~IsAck(h', Message[1])
    BY <1>4, <1>5 DEF IsAck
<1>7. AcksOnWire(to_host', fw'.frame, ran')
    BY <1>1, NoAcks
<1> QED BY <1>0, <1>1, <1>2, <1>3, <1>6, <1>7 DEF AckInv

LEMMA AckNext ==
    ASSUME AckInv, [Next]_vars, [~ReceiveError]_vars
    PROVE  AckInv'
<1>0. HostType' /\ RunInv'
    BY HostTypeNext, RunNext DEF AckInv
<1>1. CASE Receive
    <2>1. UNCHANGED <<sent, host, h, acked, to_host, ran, fw, odd>>
        BY <1>1 DEF Receive, hostVars
    <2> QED BY <1>0, <2>1, AckKept
<1>2. CASE ReceiveError
    <2>1. UNCHANGED <<sent, host, h, acked, to_host, ran, fw, odd>>
        BY <1>2 DEF ReceiveError, hostVars
    <2> QED BY <1>0, <2>1, AckKept
<1>3. CASE GotUartBytes
    BY <1>0, <1>3, AckGot
<1>4. CASE Ack
    BY <1>0, <1>4, AckAck
<1>5. CASE Flush
    <2>1. /\ UNCHANGED <<sent, host, h, acked, to_host, ran, odd>>
          /\ fw' = [fw EXCEPT !.pc = "main", !.msg = <<>>]
        BY <1>5 DEF Flush, hostVars
    <2>2. fw'.frame = fw.frame /\ fw'.pc = "main"
        BY <2>1 DEF AckInv, HostType, FwMains
    <2> QED BY <1>0, <2>1, <2>2, AckKept
<1>6. CASE StreamPiece
    BY <1>0, <1>6, AckPieceSent
<1>7. CASE Send
    BY <1>0, <1>7, AckSend
<1>8. CASE Listen
    BY <1>0, <1>8, AckListen
<1>9. CASE ReadStream
    BY <1>0, <1>9, AckRead
<1>10. CASE Timeout
    BY <1>0, <1>10, AckTimeout
<1>11. CASE UNCHANGED vars
    <2>1. UNCHANGED <<sent, host, h, acked, to_host, ran, fw, odd>>
        BY <1>11 DEF vars, hostVars
    <2> QED BY <1>0, <2>1, AckKept
<1> QED BY <1>1, <1>2, <1>3, <1>4, <1>5, <1>6, <1>7, <1>8, <1>9, <1>10, <1>11
       DEF Next, FwMain, HostStep

LEMMA AckImplies == AckInv => AckMeansRun
<1> SUFFICES ASSUME AckInv, "cut" \notin odd, NEW i \in DOMAIN acked
             PROVE  /\ acked[i].value = AckOf(acked[i].msg)[2]
                    /\ \E j \in DOMAIN ran : ran[j].msg = acked[i].msg
    BY DEF AckMeansRun
<1>1. /\ acked \in Seq([msg : Messages, value : Nat]) /\ ran \in Seq(Ran)
      /\ AckedRun(acked, ran)
    BY DEF AckInv, HostType, RunInv, LinkType
<1>2. i \in 1 .. Len(acked) /\ DOMAIN ran = 1 .. Len(ran)
    BY <1>1
<1>3. /\ acked[i].value = acked[i].msg[2]
      /\ \E j \in 1 .. Len(ran) : ran[j].msg = acked[i].msg
    BY <1>1, <1>2 DEF AckedRun
<1>4. AckOf(acked[i].msg)[2] = acked[i].msg[2]
    BY DEF AckOf
<1> QED BY <1>2, <1>3, <1>4

(* As long as the UART gets no byte wrong, a control() call that returns    *)
(* tells of its own message, which was run, and returns the value the       *)
(* firmware answered with (sw/control.c 15-40): not of the call before, of  *)
(* which late acks may be on their way, and not of a frame of the stream.   *)
THEOREM AcksMeanRun == Spec /\ [][~ReceiveError]_vars => []AckMeansRun
<1>1. AckInv /\ [Next]_vars /\ [~ReceiveError]_vars => AckInv'
    BY AckNext
<1> QED BY AckInit, <1>1, AckImplies, PTL DEF Spec

-----------------------------------------------------------------------------
(* The stream on its way, with the acks between its frames *)

(* Frames of the stream that were sent when this one was *)
After(p) == IF p.type = SAMPLES THEN p.count + 1 ELSE p.count

Proper(p) ==
    /\ p.type = SAMPLES => p.msg = SampleFrame(p.count) /\ p.on = 2
    /\ p.type = CONTROL_ACK => (p.msg[1] = START_SAMPLING <=> p.on = 1)

(* q is of the frame behind the one of p. *)
Leads(p, q) ==
    /\ q.count = After(p)
    /\ p.on = 0 => q.on \in {0, 1}
    /\ p.on # 0 => q.on = 2

Stream(s, pl) ==
    /\ OnWire(s, pl) /\ Frames(s, pl)
    /\ \A i \in 1 .. Len(s) : Proper(pl[i])
    /\ \A i \in 1 .. Len(s) : i < Len(s) =>
         Continues(pl[i], pl[i + 1]) \/ Leads(pl[i], pl[i + 1])

LEMMA EmptyStream == OnWire(<<>>, <<>>) /\ Stream(<<>>, <<>>)
<1>1. Len(<<>>) = 0
    OBVIOUS
<1> QED BY <1>1 DEF OnWire, Frames, Stream

(* Stream with a piece behind it *)
Added(t, pm, s, pl, p, n) ==
    /\ Stream(t, pm) /\ Len(t) > 0
    /\ Len(s) > 0 => pm[1] = pl[1]
    /\ Len(s) = 0 => SameFrame(p, pm[1])
    /\ SameFrame(p, pm[Len(t)]) /\ pm[Len(t)].at = (p.at + n) - 1

LEMMA ProperSame ==
    ASSUME NEW p, NEW q, SameFrame(p, q), Proper(p)
    PROVE  Proper(q)
    BY DEF SameFrame, Proper

(* A piece from p on may come behind it. *)
MayCome(s, pl, p) ==
    /\ Len(s) = 0 => p.at = 1
    /\ Len(s) > 0 => \/ AtEnd(pl[Len(s)]) /\ p.at = 1 /\ Leads(pl[Len(s)], p)
                     \/ Continues(pl[Len(s)], p)

LEMMA StreamAdds ==
    ASSUME NEW s \in Seq(Nat), NEW pl, Stream(s, pl), NEW t, NEW pm,
           NEW p, NEW n, Adds(t, pm, s, pl, p, n), Proper(p), MayCome(s, pl, p)
    PROVE  Added(t, pm, s, pl, p, n)
<1>1. /\ OnWire(s, pl) /\ Frames(s, pl)
      /\ \A i \in 1 .. Len(s) : Proper(pl[i])
      /\ \A i \in 1 .. Len(s) : i < Len(s) =>
           Continues(pl[i], pl[i + 1]) \/ Leads(pl[i], pl[i + 1])
    BY DEF Stream
<1>3. /\ \A i \in 1 .. Len(s) : pm[i] = pl[i]
      /\ \A i \in Len(s) + 1 .. Len(t) : SameFrame(p, pm[i])
    BY DEF Adds
<1>m. /\ Len(s) = 0 => p.at = 1
      /\ Len(s) > 0 => \/ AtEnd(pl[Len(s)]) /\ p.at = 1 /\ Leads(pl[Len(s)], p)
                       \/ Continues(pl[Len(s)], p)
    BY DEF MayCome
<1>4. OnWire(t, pm) /\ Frames(t, pm)
    BY <1>1, <1>m, AddsOnWire
<1>5. /\ Len(s) \in Nat /\ Len(t) \in Nat /\ n \in Nat /\ n >= 1
      /\ Len(t) = Len(s) + n /\ Len(t) > 0
      /\ Len(s) + 1 \in Len(s) + 1 .. Len(t) /\ Len(t) \in Len(s) + 1 .. Len(t)
      /\ \A i \in 1 .. Len(t) : i \in 1 .. Len(s) \/ i \in Len(s) + 1 .. Len(t)
      /\ \A i \in 1 .. Len(t) : i < Len(t) =>
           \/ i \in 1 .. Len(s) /\ i < Len(s) /\ i + 1 \in 1 .. Len(s)
           \/ i \in 1 .. Len(s) /\ i = Len(s) /\ Len(s) > 0
           \/ i \in Len(s) + 1 .. Len(t) /\ i + 1 \in Len(s) + 1 .. Len(t)
      /\ 1 \in 1 .. Len(s) \/ Len(s) = 0
      /\ SameFrame(p, pm[Len(s) + 1]) /\ pm[Len(s) + 1].at = p.at
      /\ SameFrame(p, pm[Len(t)]) /\ pm[Len(t)].at = (p.at + n) - 1
      /\ Role(pm[Len(s) + 1], t[Len(s) + 1]) /\ Role(pm[Len(t)], t[Len(t)])
    BY AddsTypes
<1>6. \A i \in 1 .. Len(t) : Proper(pm[i])
    <2> TAKE i \in 1 .. Len(t)
    <2>1. CASE i \in 1 .. Len(s)
        BY <1>1, <1>3, <2>1
    <2>2. CASE i \in Len(s) + 1 .. Len(t)
        BY <1>3, <2>2, ProperSame
    <2> QED BY <1>5, <2>1, <2>2
<1>7. \A i \in 1 .. Len(t) : i < Len(t) =>
        Continues(pm[i], pm[i + 1]) \/ Leads(pm[i], pm[i + 1])
    <2> TAKE i \in 1 .. Len(t)
    <2> HAVE i < Len(t)
    <2>1. CASE i \in 1 .. Len(s) /\ i < Len(s) /\ i + 1 \in 1 .. Len(s)
        BY <1>1, <1>3, <2>1
    <2>2. CASE i \in 1 .. Len(s) /\ i = Len(s) /\ Len(s) > 0
        <3> PICK q : q = pm[i + 1]
            OBVIOUS
        <3>1. SameFrame(p, q) /\ q.at = p.at /\ pm[i] = pl[i]
            BY <1>3, <1>5, <2>2
        <3>2. CASE Leads(pl[i], p)
            BY <3>1, <3>2 DEF SameFrame, Leads
        <3>3. CASE Continues(pl[i], p)
            BY <3>1, <3>3 DEF SameFrame, Continues
        <3> QED BY <1>m, <2>2, <3>2, <3>3
    <2>3. CASE i \in Len(s) + 1 .. Len(t) /\ i + 1 \in Len(s) + 1 .. Len(t)
        <3>1. SameFrame(p, pm[i]) /\ SameFrame(p, pm[i + 1])
            BY <1>3, <2>3
        <3>2. pm[i + 1].at = pm[i].at + 1
            <4>1. /\ pm[i].at = (p.at + (i - Len(s))) - 1
                  /\ pm[i + 1].at = (p.at + ((i + 1) - Len(s))) - 1 /\ p \in Roles
                BY <2>3 DEF Adds
            <4>2. p.at \in Nat
                BY <4>1 DEF Roles
            <4> PICK x \in Nat, a \in Nat : x = Len(s) /\ a = p.at
                BY <1>5, <4>2
            <4>3. (a + ((i + 1) - x)) - 1 = ((a + (i - x)) - 1) + 1
                OBVIOUS
            <4> QED BY <4>1, <4>3
        <3> QED BY <3>1, <3>2 DEF SameFrame, Continues
    <2> QED BY <1>5, <2>1, <2>2, <2>3
<1>8. /\ Len(s) > 0 => pm[1] = pl[1]
      /\ Len(s) = 0 => SameFrame(p, pm[1])
    BY <1>3, <1>5
<1>9. Stream(t, pm)
    BY <1>4, <1>6, <1>7 DEF Stream
<1> QED BY <1>5, <1>8, <1>9 DEF Added

LEMMA StreamMore ==
    ASSUME NEW s \in Seq(Nat), NEW pl, Stream(s, pl),
           NEW bytes, NEW p, NEW n, Piece(bytes, p, n), Proper(p), MayCome(s, pl, p),
           NEW t, t = s \o bytes
    PROVE  \E pm : Added(t, pm, s, pl, p, n)
<1>1. PICK pm : Adds(t, pm, s, pl, p, n)
    BY AddsIs
<1>2. Added(t, pm, s, pl, p, n)
    BY <1>1, StreamAdds
<1> QED BY <1>2

(* A call took the first frame, which ends with q. *)
Gone(t, pm, s, pl, q, r) ==
    /\ Stream(t, pm) /\ t \in Seq(Nat) /\ Len(s) > 0 /\ q \in Roles
    /\ Proper(q) /\ AtEnd(q) /\ SameFrame(pl[1], q)
    /\ r.h.type = q.type /\ Stores(r.h, q.msg, 2)
    /\ Len(t) = 0 => q = pl[Len(s)]
    /\ Len(t) > 0 => Leads(q, pm[1]) /\ pm[Len(t)] = pl[Len(s)]

LEMMA StreamRest ==
    ASSUME NEW s \in Seq(Nat), NEW pl, Stream(s, pl),
           NEW t, NEW pm, NEW e, Rest(t, pm, s, pl, e), AtEnd(pl[e])
    PROVE  /\ Stream(t, pm) /\ t \in Seq(Nat) /\ Len(s) > 0
           /\ pl[e] \in Roles /\ Proper(pl[e])
           /\ Len(t) = 0 => pl[e] = pl[Len(s)]
           /\ Len(t) > 0 => Leads(pl[e], pm[1]) /\ pm[Len(t)] = pl[Len(s)]
<1>2. /\ OnWire(s, pl) /\ Frames(s, pl)
      /\ \A i \in 1 .. Len(s) : Proper(pl[i])
      /\ \A i \in 1 .. Len(s) : i < Len(s) =>
           Continues(pl[i], pl[i + 1]) \/ Leads(pl[i], pl[i + 1])
    BY DEF Stream
<1>6. /\ OnWire(t, pm) /\ Frames(t, pm)
      /\ Len(t) > 0 => ~Continues(pl[e], pm[1])
    BY <1>2, RestOnWire
<1>7. /\ Len(s) \in Nat /\ Len(t) \in Nat /\ e \in Nat /\ e >= 1 /\ e <= Len(s)
      /\ e \in 1 .. Len(s) /\ Len(t) = Len(s) - e
      /\ \A i \in 1 .. Len(t) :
           i + e \in 1 .. Len(s) /\ t[i] = s[i + e] /\ pm[i] = pl[i + e]
      /\ Len(t) > 0 => /\ pm[1] = pl[e + 1] /\ pm[Len(t)] = pl[Len(s)]
                       /\ e + 1 \in 1 .. Len(s) /\ e < Len(s)
                       /\ 1 \in 1 .. Len(t) /\ Len(t) \in 1 .. Len(t)
    BY RestTypes
<1>8. \A i \in 1 .. Len(t) : Proper(pm[i])
    BY <1>2, <1>7
<1>9. \A i \in 1 .. Len(t) : i < Len(t) =>
        Continues(pm[i], pm[i + 1]) \/ Leads(pm[i], pm[i + 1])
    <2> TAKE i \in 1 .. Len(t)
    <2> HAVE i < Len(t)
    <2> PICK x \in Nat, y \in Nat : x = Len(s) /\ y = Len(t)
        BY <1>7
    <2>1. y = x - e /\ e \in Nat /\ i \in 1 .. y /\ i < y
        BY <1>7
    <2> PICK k : k = i + e
        OBVIOUS
    <2>2. i + 1 \in 1 .. y /\ (i + 1) + e = k + 1 /\ k < x
        BY ONLY x \in Nat, y \in Nat, k = i + e, <2>1
    <2>3. k \in 1 .. Len(s) /\ k < Len(s) /\ pm[i] = pl[k] /\ pm[i + 1] = pl[k + 1]
        BY <1>7, <2>2
    <2> QED BY <1>2, <2>3
<1>10. Len(t) > 0 => Leads(pl[e], pm[1]) /\ pm[Len(t)] = pl[Len(s)]
    BY <1>2, <1>6, <1>7
<1>11. Len(t) = 0 => pl[e] = pl[Len(s)]
    <2> SUFFICES ASSUME Len(t) = 0 PROVE e = Len(s)
        OBVIOUS
    <2> QED BY <1>7
<1>12. Stream(t, pm)
    BY <1>6, <1>8, <1>9 DEF Stream
<1>13. pl[e] \in Roles /\ Proper(pl[e]) /\ Len(s) > 0 /\ t \in Seq(Nat)
    <2>1. Role(pl[e], s[e])
        BY <1>2, <1>7 DEF OnWire
    <2> QED BY <1>2, <1>7, <2>1 DEF Role, Rest
<1> QED BY <1>10, <1>11, <1>12, <1>13

LEMMA StreamTaken ==
    ASSUME NEW s \in Seq(Nat), NEW pl, Stream(s, pl),
           NEW h0, Fresh(h0), NEW r, r = HostParse(h0, s), HostDone(r.h)
    PROVE  \E pm, q : Gone(r.left, pm, s, pl, q, r)
<1>0. h0 \in HostStates
    BY DEF Fresh
<1>1. PICK e, g : e \in 0 .. Len(s) /\ Took(r, h0, s, g, e)
    BY <1>0, HostTakes
<1>2. OnWire(s, pl) /\ Frames(s, pl)
    BY DEF Stream
<1>3. /\ e >= 1 /\ e \in 1 .. Len(s) /\ AtEnd(pl[e]) /\ SameFrame(pl[1], pl[e])
      /\ r.h.type = pl[e].type /\ Stores(r.h, pl[e].msg, 2)
    BY <1>1, <1>2, TakenInOrder
<1> PICK t : t = r.left
    OBVIOUS
<1>4. t = SubSeq(s, e + 1, Len(s))
    BY <1>1 DEF Took
<1>5. PICK pm : Rest(t, pm, s, pl, e)
    BY <1>3, <1>4, RestIs
<1>6. /\ Stream(t, pm) /\ t \in Seq(Nat) /\ Len(s) > 0
      /\ pl[e] \in Roles /\ Proper(pl[e])
      /\ Len(t) = 0 => pl[e] = pl[Len(s)]
      /\ Len(t) > 0 => Leads(pl[e], pm[1]) /\ pm[Len(t)] = pl[Len(s)]
    BY <1>3, <1>5, StreamRest
<1>7. Gone(t, pm, s, pl, pl[e], r)
    BY <1>3, <1>6 DEF Gone
<1> QED BY <1>7

(* Behind the ack that starts it, there is no other. *)
LEMMA OnceStarted ==
    ASSUME NEW s \in Seq(Nat), NEW pl, Stream(s, pl), Len(s) > 0 => pl[1].on = 2
    PROVE  \A i \in 1 .. Len(s) : pl[i].on = 2
<1> DEFINE T == {i \in 1 .. Len(s) : pl[i].on = 2}
<1>1. Len(s) \in Nat
    OBVIOUS
<1>2. CASE Len(s) > 0
    <2>1. 1 \in T
        BY <1>1, <1>2
    <2>2. \A i \in 1 .. Len(s) : i < Len(s) /\ i \in T => i + 1 \in T
        <3> TAKE i \in 1 .. Len(s)
        <3> HAVE i < Len(s) /\ i \in T
        <3>1. i + 1 \in 1 .. Len(s) /\ pl[i].on = 2
            BY <1>1
        <3>2. Continues(pl[i], pl[i + 1]) \/ Leads(pl[i], pl[i + 1])
            BY DEF Stream
        <3>3. pl[i + 1].on = 2
            BY <3>1, <3>2 DEF Continues, Leads
        <3> QED BY <3>1, <3>3
    <2>3. 1 \in Nat /\ Len(s) \in Nat
        BY <1>1
    <2> HIDE DEF T
    <2>4. \A i \in 1 .. Len(s) : i \in T
        BY <2>1, <2>2, <2>3, FromTo
    <2> QED BY <2>4 DEF T
<1>3. CASE ~(Len(s) > 0)
    BY <1>1, <1>3
<1> QED BY <1>2, <1>3

-----------------------------------------------------------------------------
(* The two ends of the stream *)

(* The ack that starts the stream was sent. *)
Streaming(f) == f.frame # "none" /\ (f.pc = "ack" => ~Sampling(f.msg))

(* p is of the frame the host is at, when it has read n frames, ... *)
Starts(p, pc, n) ==
    /\ p.count = n
    /\ pc = "read" => p.on = 2
    /\ pc # "read" => p.on # 2

(* ... and q is where the firmware is. *)
Stops(q, f) ==
    /\ q.on # 0 <=> Streaming(f)
    /\ f.frame \in {"none", "PRE"} => AtEnd(q) /\ f.seqnum = After(q)
    /\ f.frame \in {"MID", "END"} =>
         q.type = SAMPLES /\ q.count = f.seqnum /\ q.at = Before(f)

(* Between the two is what was sent: every frame in its turn, and one ack   *)
(* of START_SAMPLING before them, if the host is not behind it.             *)
Ahead(s, pl, f, pc, n) ==
    /\ Stream(s, pl)
    /\ Len(s) > 0 => Starts(pl[1], pc, n) /\ Stops(pl[Len(s)], f)
    /\ Len(s) = 0 => /\ f.frame \in {"none", "PRE"} /\ f.seqnum = n
                     /\ pc = "read" <=> Streaming(f)

(* A control() call before START_SAMPLING's has taken that ack: there comes *)
(* no other, and the host never starts to read.                             *)
Astray(s, pl, f, pc) ==
    /\ OnWire(s, pl) /\ pc # "read" /\ Streaming(f)
    /\ \A i \in 1 .. Len(s) : pl[i].type = CONTROL_ACK => pl[i].msg[1] # START_SAMPLING

LEMMA AheadStays ==
    ASSUME NEW s, NEW pl, NEW f, NEW pc, NEW n, Ahead(s, pl, f, pc, n),
           NEW g, g.seqnum = f.seqnum, Streaming(g) <=> Streaming(f),
           g.frame = f.frame \/ (f.frame = "none" /\ g.frame = "PRE"),
           NEW qc, qc = "read" <=> pc = "read"
    PROVE  Ahead(s, pl, g, qc, n)
<1>1. Before(g) = Before(f) \/ (f.frame = "none" /\ g.frame = "PRE")
    BY DEF Before
<1>2. Len(s) > 0 => Starts(pl[1], qc, n) /\ Stops(pl[Len(s)], g)
    <2> SUFFICES ASSUME Len(s) > 0 PROVE Starts(pl[1], qc, n) /\ Stops(pl[Len(s)], g)
        OBVIOUS
    <2>1. Starts(pl[1], pc, n) /\ Stops(pl[Len(s)], f)
        BY DEF Ahead
    <2>2. Starts(pl[1], qc, n)
        BY <2>1 DEF Starts
    <2>3. Stops(pl[Len(s)], g)
        BY <1>1, <2>1 DEF Stops
    <2> QED BY <2>2, <2>3
<1> QED BY <1>2 DEF Ahead

(* p is the role of what the firmware sends next. *)
Due(p, f) ==
    /\ p.count = f.seqnum
    /\ Streaming(f) => p.on = 2
    /\ ~Streaming(f) => p.on \in {0, 1}
    /\ f.frame \in {"none", "PRE"} => p.at = 1
    /\ f.frame \in {"MID", "END"} => /\ p.type = SAMPLES /\ p.at = Before(f) + 1
                                     /\ p.msg = SampleFrame(f.seqnum)

(* Behind the k bytes it is where g says. *)
StopsWith(p, k, g) ==
    \A q : SameFrame(p, q) /\ q.at = (p.at + k) - 1 => Stops(q, g)

LEMMA AheadMore ==
    ASSUME NEW s \in Seq(Nat), NEW pl, NEW f \in FwMains, NEW pc, NEW n,
           Ahead(s, pl, f, pc, n),
           NEW bytes, NEW p, NEW k, Piece(bytes, p, k), Proper(p), Due(p, f),
           NEW g, StopsWith(p, k, g),
           NEW t, t = s \o bytes
    PROVE  \E pm : Ahead(t, pm, g, pc, n)
<1>1. f.frame \in {"none", "PRE", "MID", "END"}
    BY DEF FwMains
<1>2. Stream(s, pl)
    BY DEF Ahead
<1>3. Len(s) \in Nat
    OBVIOUS
<1>4. Len(s) > 0 => \/ AtEnd(pl[Len(s)]) /\ p.at = 1 /\ Leads(pl[Len(s)], p)
                    \/ Continues(pl[Len(s)], p)
    <2> SUFFICES ASSUME Len(s) > 0
                 PROVE  \/ AtEnd(pl[Len(s)]) /\ p.at = 1 /\ Leads(pl[Len(s)], p)
                        \/ Continues(pl[Len(s)], p)
        OBVIOUS
    <2> PICK q : q = pl[Len(s)]
        OBVIOUS
    <2>0. Len(s) \in 1 .. Len(s)
        BY <1>3
    <2>1. Stops(q, f) /\ Proper(q)
        BY <1>2, <2>0 DEF Ahead, Stream
    <2>2. CASE f.frame \in {"none", "PRE"}
        <3>1. AtEnd(q) /\ f.seqnum = After(q) /\ (q.on # 0 <=> Streaming(f)) /\ p.at = 1
            BY <2>1, <2>2 DEF Stops, Due
        <3>2. Leads(q, p)
            BY <3>1 DEF Due, Leads
        <3> QED BY <3>1, <3>2
    <2>3. CASE f.frame \in {"MID", "END"}
        <3>1. q.type = SAMPLES /\ q.count = f.seqnum /\ q.at = Before(f)
            BY <2>1, <2>3 DEF Stops
        <3>2. q.msg = SampleFrame(f.seqnum) /\ q.on = 2
            BY <2>1, <3>1 DEF Proper
        <3>3. Streaming(f)
            BY <2>1, <3>2 DEF Stops
        <3>4. Continues(q, p)
            BY <2>3, <3>1, <3>2, <3>3 DEF Due, Continues
        <3> QED BY <3>4
    <2> QED BY <1>1, <2>2, <2>3
<1>5. MayCome(s, pl, p)
    <2>1. Len(s) = 0 => p.at = 1
        BY DEF Ahead, Due
    <2> QED BY <1>4, <2>1 DEF MayCome
<1>6. PICK pm : Added(t, pm, s, pl, p, k)
    BY <1>2, <1>5, StreamMore
<1>7. /\ Stream(t, pm) /\ Len(t) > 0
      /\ Len(s) > 0 => pm[1] = pl[1]
      /\ Len(s) = 0 => SameFrame(p, pm[1])
      /\ SameFrame(p, pm[Len(t)]) /\ pm[Len(t)].at = (p.at + k) - 1
    BY <1>6 DEF Added
<1>8. Stops(pm[Len(t)], g)
    BY <1>7 DEF StopsWith
<1>9. Starts(pm[1], pc, n)
    <2>1. CASE Len(s) > 0
        BY <1>7, <2>1 DEF Ahead
    <2>2. CASE Len(s) = 0
        <3>1. SameFrame(p, pm[1]) /\ f.seqnum = n /\ (pc = "read" <=> Streaming(f))
            BY <1>7, <2>2 DEF Ahead
        <3>2. /\ p.count = f.seqnum /\ (Streaming(f) => p.on = 2)
              /\ ~Streaming(f) => p.on # 2
            BY DEF Due
        <3> QED BY <3>1, <3>2 DEF SameFrame, Starts
    <2> QED BY <1>3, <2>1, <2>2
<1>10. ~(Len(t) = 0)
    BY <1>7
<1>11. Ahead(t, pm, g, pc, n)
    BY <1>7, <1>8, <1>9, <1>10 DEF Ahead
<1> QED BY <1>11

LEMMA AstrayMore ==
    ASSUME NEW s \in Seq(Nat), NEW pl, NEW f, NEW pc, Astray(s, pl, f, pc),
           NEW bytes, NEW p, NEW k, Piece(bytes, p, k),
           p.type = CONTROL_ACK => p.msg[1] # START_SAMPLING,
           NEW g, Streaming(g),
           NEW t, t = s \o bytes
    PROVE  \E pm : Astray(t, pm, g, pc)
<1>1. /\ OnWire(s, pl) /\ pc # "read"
      /\ \A i \in 1 .. Len(s) : pl[i].type = CONTROL_ACK => pl[i].msg[1] # START_SAMPLING
    BY DEF Astray
<1>2. PICK pm : Adds(t, pm, s, pl, p, k)
    BY AddsIs
<1>3. /\ \A i \in 1 .. Len(s) : pm[i] = pl[i]
      /\ \A i \in Len(s) + 1 .. Len(t) : SameFrame(p, pm[i])
    BY <1>2 DEF Adds
<1>4. OnWire(t, pm)
    BY <1>1, <1>2, AddsOnWire
<1>5. \A i \in 1 .. Len(t) : i \in 1 .. Len(s) \/ i \in Len(s) + 1 .. Len(t)
    BY <1>2, AddsTypes
<1>6. \A i \in 1 .. Len(t) : pm[i].type = CONTROL_ACK => pm[i].msg[1] # START_SAMPLING
    <2> TAKE i \in 1 .. Len(t)
    <2>1. CASE i \in 1 .. Len(s)
        BY <1>1, <1>3, <2>1
    <2>2. CASE i \in Len(s) + 1 .. Len(t)
        BY <1>3, <2>2 DEF SameFrame
    <2> QED BY <1>5, <2>1, <2>2
<1>7. Astray(t, pm, g, pc)
    BY <1>1, <1>4, <1>6 DEF Astray
<1> QED BY <1>7

(* The firmware stands still inside a frame only. *)
LEMMA BeforeEnd ==
    ASSUME NEW f \in FwMains, f.frame \in {"MID", "END"}
    PROVE  Before(f) # FrameLen(SampleFrame(f.seqnum))
<1> PICK m : m = SampleFrame(f.seqnum)
    OBVIOUS
<1>1. m \in Messages
    BY SampleFrameType DEF FwMains
<1>2. /\ D1(m) \in 3 .. 4 /\ D2(m) \in D1(m) + 1 .. D1(m) + 2
      /\ FrameLen(m) = D2(m) + 1
    BY <1>1, Layout DEF FrameLen
<1>3. Before(f) = D1(m) \/ Before(f) = D2(m)
    BY DEF Before
<1> QED BY <1>2, <1>3

LEMMA AheadGone ==
    ASSUME NEW s, NEW pl, NEW f \in FwMains, NEW pc, NEW n, Ahead(s, pl, f, pc, n),
           NEW t, NEW pm, NEW q, NEW r, Gone(t, pm, s, pl, q, r),
           NEW qc, qc = "read" <=> q.on # 0
    PROVE  Ahead(t, pm, f, qc, After(q))
<1>1. /\ Stream(t, pm) /\ t \in Seq(Nat) /\ Len(s) > 0 /\ Proper(q) /\ AtEnd(q)
      /\ Len(t) = 0 => q = pl[Len(s)]
      /\ Len(t) > 0 => Leads(q, pm[1]) /\ pm[Len(t)] = pl[Len(s)]
    BY DEF Gone
<1>2. Stops(pl[Len(s)], f)
    BY <1>1 DEF Ahead
<1>3. Len(t) > 0 => Starts(pm[1], qc, After(q)) /\ Stops(pm[Len(t)], f)
    <2> SUFFICES ASSUME Len(t) > 0
                 PROVE  Starts(pm[1], qc, After(q)) /\ Stops(pm[Len(t)], f)
        OBVIOUS
    <2>1. Leads(q, pm[1]) /\ pm[Len(t)] = pl[Len(s)]
        BY <1>1
    <2>2. Starts(pm[1], qc, After(q))
        BY <2>1 DEF Leads, Starts
    <2> QED BY <1>2, <2>1, <2>2
<1>4. Len(t) = 0 => /\ f.frame \in {"none", "PRE"} /\ f.seqnum = After(q)
                    /\ qc = "read" <=> Streaming(f)
    <2> SUFFICES ASSUME Len(t) = 0
                 PROVE  /\ f.frame \in {"none", "PRE"} /\ f.seqnum = After(q)
                        /\ qc = "read" <=> Streaming(f)
        OBVIOUS
    <2>1. Stops(q, f)
        BY <1>1, <1>2
    <2>2. f.frame \notin {"MID", "END"}
        <3> SUFFICES ASSUME f.frame \in {"MID", "END"} PROVE FALSE
            OBVIOUS
        <3>1. q.type = SAMPLES /\ q.count = f.seqnum /\ q.at = Before(f)
            BY <2>1 DEF Stops
        <3>2. q.msg = SampleFrame(f.seqnum) /\ q.at = FrameLen(q.msg)
            BY <1>1, <3>1 DEF Proper, AtEnd
        <3> QED BY <3>1, <3>2, BeforeEnd
    <2>3. f.frame \in {"none", "PRE"}
        BY <2>2 DEF FwMains
    <2> QED BY <2>1, <2>3 DEF Stops
<1> QED BY <1>1, <1>3, <1>4 DEF Ahead

LEMMA AheadLost ==
    ASSUME NEW s, NEW pl, NEW f, NEW pc, NEW n, Ahead(s, pl, f, pc, n),
           NEW t, NEW pm, NEW q, NEW r, Gone(t, pm, s, pl, q, r),
           q.on # 0, NEW qc, qc # "read"
    PROVE  Astray(t, pm, f, qc)
<1>1. /\ Stream(t, pm) /\ t \in Seq(Nat) /\ Len(s) > 0
      /\ Len(t) = 0 => q = pl[Len(s)]
      /\ Len(t) > 0 => Leads(q, pm[1]) /\ pm[Len(t)] = pl[Len(s)]
    BY DEF Gone
<1>2. Len(t) > 0 => pm[1].on = 2
    BY <1>1 DEF Leads
<1>3. \A i \in 1 .. Len(t) : pm[i].on = 2
    BY <1>1, <1>2, OnceStarted
<1>4. \A i \in 1 .. Len(t) : pm[i].type = CONTROL_ACK => pm[i].msg[1] # START_SAMPLING
    BY <1>1, <1>3 DEF Stream, Proper
<1>5. Streaming(f)
    <2>1. Stops(pl[Len(s)], f) /\ Len(t) \in Nat
        BY <1>1 DEF Ahead
    <2>2. pl[Len(s)].on # 0
        <3>1. CASE Len(t) = 0
            BY <1>1, <3>1
        <3>2. CASE Len(t) > 0
            <4>1. Len(t) \in 1 .. Len(t)
                BY <2>1, <3>2
            <4> QED BY <1>1, <1>3, <3>2, <4>1
        <3> QED BY <2>1, <3>1, <3>2
    <2> QED BY <2>1, <2>2 DEF Stops
<1>6. OnWire(t, pm)
    BY <1>1 DEF Stream
<1> QED BY <1>4, <1>5, <1>6 DEF Astray

LEMMA AstrayRest ==
    ASSUME NEW s \in Seq(Nat), NEW pl, NEW f, NEW pc, Astray(s, pl, f, pc),
           NEW t, NEW pm, NEW e, Rest(t, pm, s, pl, e), OnWire(t, pm)
    PROVE  Astray(t, pm, f, pc)
<1>1. \A i \in 1 .. Len(t) : i + e \in 1 .. Len(s) /\ pm[i] = pl[i + e]
    BY SMTT(60), RestTypes
<1>2. \A i \in 1 .. Len(t) : pm[i].type = CONTROL_ACK => pm[i].msg[1] # START_SAMPLING
    BY <1>1 DEF Astray
<1> QED BY <1>2 DEF Astray

(* A call that listens, not in step with the stream *)
LEMMA AstrayTaken ==
    ASSUME NEW s \in Seq(Nat), NEW pl, NEW f, NEW pc, Astray(s, pl, f, pc),
           NEW h0, Fresh(h0), NEW x, x > ESC, ~IsAck(h0, x),
           NEW r, r = HostParse(h0, s)
    PROVE  /\ HostDone(r.h) => /\ \E pm : Astray(r.left, pm, f, pc)
                               /\ x = START_SAMPLING => ~IsAck(r.h, x)
           /\ ~HostDone(r.h) => ~IsAck(r.h, x)
<1>0. h0 \in HostStates /\ Clear(h0, x)
    BY DEF Fresh, Clear
<1>1. PICK e, g : e \in 0 .. Len(s) /\ Took(r, h0, s, g, e)
    BY <1>0, HostTakes
<1>2. /\ OnWire(s, pl) /\ pc # "read" /\ Streaming(f)
      /\ \A i \in 1 .. Len(s) : pl[i].type = CONTROL_ACK => pl[i].msg[1] # START_SAMPLING
    BY DEF Astray
<1>3. /\ HostDone(r.h) => /\ e >= 1 /\ e \in 1 .. Len(s)
                          /\ pl[e].at = 1 \/ AtEnd(pl[e])
                          /\ IsAck(r.h, x) =>
                               /\ pl[e].type = CONTROL_ACK
                               /\ Stores(r.h, pl[e].msg, 2)
      /\ ~HostDone(r.h) => r.left = <<>> /\ ~IsAck(r.h, x)
    <2>1. Caught(r, s, pl, e, x)
        BY <1>0, <1>1, <1>2, CaughtIs
    <2> QED BY <2>1 DEF Caught
<1>4. ASSUME HostDone(r.h)
      PROVE  \E pm : Astray(r.left, pm, f, pc)
    <2> PICK t : t = r.left
        OBVIOUS
    <2>1. t = SubSeq(s, e + 1, Len(s)) /\ e \in 1 .. Len(s)
        BY <1>1, <1>3, <1>4 DEF Took
    <2>2. PICK pm : Rest(t, pm, s, pl, e)
        BY <2>1, RestIs
    <2>3. OnWire(t, pm)
        BY <1>2, <1>3, <1>4, <2>2, RestOnWire
    <2>6. Astray(t, pm, f, pc)
        BY <2>2, <2>3, AstrayRest
    <2> QED BY <2>6
<1>5. ASSUME HostDone(r.h), x = START_SAMPLING, IsAck(r.h, x)
      PROVE  FALSE
    <2>1. /\ e \in 1 .. Len(s) /\ pl[e].type = CONTROL_ACK
          /\ Stores(r.h, pl[e].msg, 2)
        BY <1>3, <1>5
    <2>2. r.h.buf[1] = pl[e].msg[1] /\ r.h.buf[1] = START_SAMPLING
        BY <1>5, <2>1 DEF Stores, IsAck
    <2> QED BY <1>2, <2>1, <2>2
<1> QED BY <1>3, <1>4, <1>5

(* A call that listens, in step with it, finds nothing or all of an ack. *)
LEMMA AheadListens ==
    ASSUME NEW s \in Seq(Nat), NEW pl, NEW f, NEW pc, NEW n, Ahead(s, pl, f, pc, n),
           pc # "read", NEW h0, Fresh(h0), NEW r, r = HostParse(h0, s), ~HostDone(r.h)
    PROVE  s = <<>>
<1>0. h0 \in HostStates
    BY DEF Fresh
<1>1. PICK e, g : e \in 0 .. Len(s) /\ Took(r, h0, s, g, e)
    BY <1>0, HostTakes
<1>2. Stream(s, pl)
    BY DEF Ahead
<1>3. OnWire(s, pl) /\ Frames(s, pl)
    BY <1>2 DEF Stream
<1>4. Len(s) > 0 => ~AtEnd(pl[Len(s)]) /\ SameFrame(pl[1], pl[Len(s)])
    BY <1>1, <1>3, TakenInOrder
<1>5. ~(Len(s) > 0)
    <2> SUFFICES ASSUME Len(s) > 0 PROVE FALSE
        OBVIOUS
    <2> PICK q : q = pl[Len(s)]
        OBVIOUS
    <2>0. Len(s) \in 1 .. Len(s)
        OBVIOUS
    <2>1. Role(q, s[Len(s)]) /\ Closes(q) /\ Proper(q)
        BY <1>2, <1>3, <2>0 DEF Stream, OnWire
    <2>2. q.on # 2
        BY <1>4 DEF Ahead, Starts, SameFrame
    <2>3. q.type \in {CONTROL_ACK, SAMPLES}
        BY <2>1, RoleIs
    <2>4. q.type = CONTROL_ACK
        BY <2>1, <2>2, <2>3 DEF Proper
    <2>5. AtEnd(q)
        BY <2>1, <2>4, AckCloses
    <2> QED BY <1>4, <2>5
<1> QED BY <1>5

-----------------------------------------------------------------------------
(* The host reads the stream as it was sent *)

(* The host knows of no start of the stream. *)
NotTold == host.msg = Len(Session) => ~IsAck(h, START_SAMPLING)

HostAhead  == \E pl : Ahead(to_host, pl, fw, host.pc, Len(got))
HostAstray == NotTold /\ \E pl : Astray(to_host, pl, fw, host.pc)

StreamOk ==
    /\ fw.frame = "none" => fw.seqnum = 0
    /\ fw.pc = "ack" /\ Sampling(fw.msg) => fw.frame = "PRE"
    /\ host.pc # "read" => got = <<>>
    /\ \A k \in 1 .. Len(got) : got[k] = SampleFrame(k - 1)
    /\ HostAhead \/ HostAstray

StreamInv == HostType /\ (odd = {} => StreamOk)

LEMMA StreamInit == Init => StreamInv
<1> SUFFICES ASSUME Init PROVE StreamInv
    OBVIOUS
<1>1. HostType
    BY HostTypeInit
<1>2. /\ to_host = <<>> /\ got = <<>> /\ fw.pc = "main" /\ fw.frame = "none"
      /\ fw.seqnum = 0 /\ host.pc = "send"
    BY DEF Init
<1>3. Len(<<>>) = 0
    OBVIOUS
<1>4. Ahead(<<>>, <<>>, fw, host.pc, 0)
    BY <1>2, <1>3, EmptyStream DEF Ahead, Streaming
<1>5. HostAhead
    BY <1>2, <1>3, <1>4 DEF HostAhead
<1>6. StreamOk
    BY <1>2, <1>3, <1>5 DEF StreamOk
<1> QED BY <1>1, <1>6 DEF StreamInv

(* A step of main that sends nothing *)
LEMMA StreamStays ==
    ASSUME StreamOk, UNCHANGED <<host, h, got, to_host>>,
           fw'.seqnum = fw.seqnum, Streaming(fw)' <=> Streaming(fw),
           fw'.frame = fw.frame \/ (fw.frame = "none" /\ fw'.frame = "PRE"),
           fw'.pc = "ack" /\ Sampling(fw'.msg) => fw'.frame = "PRE"
    PROVE  StreamOk'
<1>1. NotTold' <=> NotTold
    BY DEF NotTold, IsAck
<1> PICK g : g = fw'
    OBVIOUS
<1>2. Streaming(g) <=> Streaming(fw)
    BY DEF Streaming
<1>3. g.seqnum = fw.seqnum /\ (g.frame = fw.frame \/ (fw.frame = "none" /\ g.frame = "PRE"))
    OBVIOUS
<1>4. HostAhead => HostAhead'
    <2> SUFFICES ASSUME HostAhead PROVE HostAhead'
        OBVIOUS
    <2> PICK pl : Ahead(to_host, pl, fw, host.pc, Len(got))
        BY DEF HostAhead
    <2>1. Ahead(to_host, pl, g, host.pc, Len(got))
        BY <1>2, <1>3, AheadStays
    <2> QED BY <2>1 DEF HostAhead
<1>5. HostAstray => HostAstray'
    <2> SUFFICES ASSUME HostAstray PROVE HostAstray'
        OBVIOUS
    <2> PICK pl : Astray(to_host, pl, fw, host.pc)
        BY DEF HostAstray
    <2>1. Astray(to_host, pl, g, host.pc)
        BY <1>2 DEF Astray
    <2> QED BY <1>1, <2>1 DEF HostAstray
<1>6. /\ fw'.frame = "none" => fw'.seqnum = 0
      /\ host'.pc # "read" => got' = <<>>
      /\ \A k \in 1 .. Len(got') : got'[k] = SampleFrame(k - 1)
      /\ HostAhead \/ HostAstray
    BY DEF StreamOk
<1> QED BY <1>4, <1>5, <1>6 DEF StreamOk

LEMMA StreamGot ==
    ASSUME StreamInv, GotUartBytes, HostType'
    PROVE  StreamInv'
<1>0. HostType /\ fw \in FwMains
    BY DEF StreamInv, HostType
<1>1. /\ UNCHANGED <<host, h, acked, got, to_host, faults>> /\ fw' \in FwMains
      /\ \/ UNCHANGED <<fw, odd, ran>>
         \/ /\ fw.pc = "main" /\ fw'.pc = "ack"
            /\ Sampling(fw'.msg) => fw'.frame = "PRE" /\ fw'.seqnum = 0
            /\ ~Sampling(fw'.msg) => fw'.frame = fw.frame /\ fw'.seqnum = fw.seqnum
            /\ Sampling(fw'.msg) /\ fw.frame # "none" => odd' # {}
            /\ odd \subseteq odd'
    BY <1>0, GotSent
<1> SUFFICES ASSUME odd' = {} PROVE StreamOk'
    BY DEF StreamInv
<1>2. StreamOk
    BY <1>1 DEF StreamInv
<1>3. CASE UNCHANGED <<fw, odd, ran>>
    BY <1>1, <1>2, <1>3, StreamStays DEF StreamOk, Streaming
<1>4. CASE fw.pc = "main" /\ fw'.pc = "ack" /\ Sampling(fw'.msg) /\ fw'.frame = "PRE"
           /\ fw'.seqnum = 0 /\ fw.frame = "none"
    <2>1. fw'.seqnum = fw.seqnum
        BY <1>2, <1>4 DEF StreamOk
    <2>2. Streaming(fw)' <=> Streaming(fw)
        BY <1>4 DEF Streaming
    <2> QED BY <1>1, <1>2, <1>4, <2>1, <2>2, StreamStays
<1>5. CASE /\ fw.pc = "main" /\ fw'.pc = "ack" /\ ~Sampling(fw'.msg)
           /\ fw'.frame = fw.frame /\ fw'.seqnum = fw.seqnum
    <2>1. Streaming(fw)' <=> Streaming(fw)
        BY <1>5 DEF Streaming
    <2> QED BY <1>1, <1>2, <1>5, <2>1, StreamStays
<1> QED BY <1>1, <1>3, <1>4, <1>5

(* A step of main that sends a piece *)
LEMMA AheadSends ==
    ASSUME HostAhead, fw \in FwMains, to_host \in Seq(Nat),
           NEW bytes, NEW p, NEW k, Piece(bytes, p, k), Proper(p), Due(p, fw),
           NEW g, g = fw', StopsWith(p, k, g),
           UNCHANGED <<host, got>>, to_host' = to_host \o bytes
    PROVE  HostAhead'
<1> PICK pl : Ahead(to_host, pl, fw, host.pc, Len(got))
    BY DEF HostAhead
<1> PICK t : t = to_host \o bytes
    OBVIOUS
<1>1. \E pm : Ahead(t, pm, g, host.pc, Len(got))
    BY AheadMore
<1> QED BY <1>1 DEF HostAhead

LEMMA AstraySends ==
    ASSUME HostAstray, to_host \in Seq(Nat),
           NEW bytes, NEW p, NEW k, Piece(bytes, p, k),
           p.type = CONTROL_ACK => p.msg[1] # START_SAMPLING,
           NEW g, g = fw', Streaming(g),
           UNCHANGED <<host, h>>, to_host' = to_host \o bytes
    PROVE  HostAstray'
<1> PICK pl : Astray(to_host, pl, fw, host.pc)
    BY DEF HostAstray
<1> PICK t : t = to_host \o bytes
    OBVIOUS
<1>1. \E pm : Astray(t, pm, g, host.pc)
    BY AstrayMore
<1>2. NotTold'
    BY DEF HostAstray, NotTold, IsAck
<1> QED BY <1>1, <1>2 DEF HostAstray

LEMMA StreamAck ==
    ASSUME StreamInv, Ack, HostType'
    PROVE  StreamInv'
<1>0. HostType /\ fw \in FwMains /\ to_host \in Seq(Nat)
    BY DEF StreamInv, HostType
<1>1. /\ fw' \in FwMains /\ fw.pc = "ack" /\ fw'.pc = "flush" /\ fw'.frame = fw.frame
      /\ fw'.seqnum = fw.seqnum
      /\ AckOf(fw.msg) \in Messages /\ AckOf(fw.msg)[1] = fw.msg[1]
      /\ fw.frame \in {"MID", "END"} => "torn" \in odd'
      /\ odd \subseteq odd'
      /\ "cut" \notin odd' => to_host' = to_host \o AckBytes
    BY <1>0, AckSent
<1> SUFFICES ASSUME odd' = {} PROVE StreamOk'
    BY DEF StreamInv
<1>2. StreamOk /\ UNCHANGED <<host, h, got>>
    BY <1>1 DEF StreamInv, Ack, hostVars
<1>3. to_host' = to_host \o AckBytes /\ fw.frame \in {"none", "PRE"}
    BY <1>0, <1>1 DEF FwMains
<1> PICK on \in 0 .. 2 : on = IF Sampling(fw.msg) THEN 1 ELSE IF Streaming(fw) THEN 2 ELSE 0
    OBVIOUS
<1>4. \E p \in Roles : /\ p.type = CONTROL_ACK /\ p.msg = AckOf(fw.msg) /\ p.at = 1
                       /\ p.count = fw.seqnum /\ p.on = on
    <2> PICK p : p = [type |-> CONTROL_ACK, msg |-> AckOf(fw.msg), at |-> 1,
                      count |-> fw.seqnum, on |-> on]
        OBVIOUS
    <2>1. fw.seqnum \in Nat
        BY <1>0 DEF FwMains
    <2>2. p \in Roles
        BY <1>1, <2>1 DEF Roles
    <2> QED BY <2>2
<1> PICK p \in Roles : /\ p.type = CONTROL_ACK /\ p.msg = AckOf(fw.msg) /\ p.at = 1
                       /\ p.count = fw.seqnum /\ p.on = on
    BY <1>4
<1>6. Piece(AckBytes, p, FrameLen(p.msg))
    <2>1. Piece(Frame(CONTROL_ACK, p.msg), p, FrameLen(p.msg))
        BY AckPiece
    <2> QED BY <2>1 DEF AckBytes
<1>7. Sampling(fw.msg) => ~Streaming(fw) /\ fw.frame = "PRE"
    BY <1>1, <1>2 DEF Streaming, StreamOk
<1>8. Proper(p)
    <2>1. Sampling(fw.msg) <=> on = 1
        OBVIOUS
    <2> QED BY <1>1, <2>1 DEF Proper, Sampling, SAMPLES, CONTROL_ACK
<1>9. Due(p, fw)
    BY <1>3, <1>7 DEF Due
<1> PICK g : g = fw'
    OBVIOUS
<1>10. Streaming(g) <=> on # 0
    BY <1>1, <1>7 DEF Streaming
<1>11. StopsWith(p, FrameLen(p.msg), g)
    <2> SUFFICES ASSUME NEW q, SameFrame(p, q), q.at = (p.at + FrameLen(p.msg)) - 1
                 PROVE  Stops(q, g)
        BY DEF StopsWith
    <2>1. /\ q.type = CONTROL_ACK /\ q.msg = p.msg /\ q.count = fw.seqnum /\ q.on = on
        BY <1>4 DEF SameFrame
    <2>2. FrameLen(p.msg) \in 5 .. 7
        BY <1>1, Layout
    <2>3. AtEnd(q)
        BY <2>1, <2>2 DEF AtEnd
    <2>4. After(q) = g.seqnum
        BY <1>1, <2>1 DEF After, SAMPLES, CONTROL_ACK
    <2>5. g.frame \in {"none", "PRE"}
        BY <1>1, <1>3
    <2> QED BY <1>10, <2>1, <2>3, <2>4, <2>5 DEF Stops
<1> PICK k : k = FrameLen(p.msg)
    OBVIOUS
<1> PICK bytes : bytes = AckBytes
    OBVIOUS
<1>p. Piece(bytes, p, k) /\ StopsWith(p, k, g) /\ to_host' = to_host \o bytes
    BY <1>3, <1>6, <1>11
<1>12. HostAhead => HostAhead'
    BY <1>0, <1>2, <1>p, <1>8, <1>9, AheadSends
<1>13. HostAstray => HostAstray'
    <2> SUFFICES ASSUME HostAstray PROVE HostAstray'
        OBVIOUS
    <2>1. Streaming(fw)
        BY DEF HostAstray, Astray
    <2>2. ~Sampling(fw.msg)
        BY <1>7, <2>1
    <2>3. Streaming(g)
        BY <1>10, <2>1, <2>2
    <2>4. p.msg[1] # START_SAMPLING
        BY <1>1, <2>2 DEF Sampling
    <2> QED BY <1>0, <1>2, <1>p, <2>3, <2>4, AstraySends
<1> QED BY <1>1, <1>2, <1>12, <1>13 DEF StreamOk

LEMMA StreamSent ==
    ASSUME StreamInv, StreamPiece, HostType'
    PROVE  StreamInv'
<1>0. HostType /\ fw \in FwMains /\ to_host \in Seq(Nat)
    BY DEF StreamInv, HostType
<1>1. /\ fw' \in FwMains /\ fw.pc = "main" /\ fw'.pc = "main"
      /\ fw.frame # "none" /\ fw'.frame # "none"
      /\ odd' = odd \cup (IF WasCut THEN {"cut"} ELSE {})
      /\ fw.frame \in {"PRE", "MID"} => fw'.seqnum = fw.seqnum
      /\ fw.frame = "PRE" => fw'.frame = "MID"
      /\ fw.frame = "MID" => fw'.frame = "END"
      /\ fw.frame = "END" => fw'.frame = "PRE" /\ fw'.seqnum = fw.seqnum + 1
      /\ Before(fw) \in Nat
      /\ "cut" \notin odd' => \E bytes, n : SendsPiece(bytes, n)
    BY <1>0, PieceSent
<1> SUFFICES ASSUME odd' = {} PROVE StreamOk'
    BY DEF StreamInv
<1>2. StreamOk /\ UNCHANGED <<host, h, got>>
    BY <1>1 DEF StreamInv, StreamPiece, hostVars
<1> PICK bytes, n : SendsPiece(bytes, n)
    BY <1>1
<1> PICK p : p = SampleRole(fw, Before(fw))
    OBVIOUS
<1> PICK g : g = fw'
    OBVIOUS
<1>3. /\ to_host' = to_host \o bytes /\ Piece(bytes, p, n)
      /\ Before(fw) + n = IF fw.frame = "END" THEN FrameLen(SampleFrame(fw.seqnum))
                          ELSE Before(g)
    BY DEF SendsPiece
<1>4. /\ p \in Roles /\ p.type = SAMPLES /\ p.msg = SampleFrame(fw.seqnum)
      /\ p.at = Before(fw) + 1 /\ p.count = fw.seqnum /\ p.on = 2
    <2>1. Sampled(p, fw, Before(fw))
        BY <1>0, <1>1, SampleRoleType
    <2> QED BY <2>1 DEF Sampled
<1>5. Streaming(fw) /\ Streaming(g)
    BY <1>1 DEF Streaming
<1>6. Proper(p)
    BY <1>4 DEF Proper, SAMPLES, CONTROL_ACK
<1>7. Due(p, fw)
    <2>1. fw.frame = "PRE" => p.at = 1
        BY <1>4 DEF Before
    <2> QED BY <1>1, <1>4, <1>5, <2>1 DEF Due
<1>8. StopsWith(p, n, g)
    <2> SUFFICES ASSUME NEW q, SameFrame(p, q), q.at = (p.at + n) - 1
                 PROVE  Stops(q, g)
        BY DEF StopsWith
    <2>1. /\ q.type = SAMPLES /\ q.msg = SampleFrame(fw.seqnum) /\ q.count = fw.seqnum
          /\ q.on = 2
        BY <1>4 DEF SameFrame
    <2>2. q.at = Before(fw) + n
        <3>1. n \in Nat
            BY <1>3 DEF Piece
        <3> PICK b \in Nat, x \in Nat : b = Before(fw) /\ x = n
            BY <1>1, <3>1
        <3>2. ((b + 1) + x) - 1 = b + x
            OBVIOUS
        <3> QED BY <1>4, <3>2
    <2>3. CASE fw.frame = "END"
        <3>1. AtEnd(q)
            BY <1>3, <2>1, <2>2, <2>3 DEF AtEnd
        <3>2. g.frame = "PRE" /\ g.seqnum = After(q)
            BY <1>1, <2>1, <2>3 DEF After
        <3> QED BY <1>5, <2>1, <3>1, <3>2 DEF Stops
    <2>4. CASE fw.frame \in {"PRE", "MID"}
        <3>1. g.frame \in {"MID", "END"} /\ g.seqnum = fw.seqnum /\ q.at = Before(g)
            BY <1>1, <1>3, <2>2, <2>4
        <3> QED BY <1>5, <2>1, <3>1 DEF Stops
    <2> QED BY <1>0, <1>1, <2>3, <2>4 DEF FwMains
<1>9. HostAhead => HostAhead'
    BY <1>0, <1>2, <1>3, <1>6, <1>7, <1>8, AheadSends
<1>10. HostAstray => HostAstray'
    <2>1. p.type # CONTROL_ACK
        BY <1>4 DEF SAMPLES, CONTROL_ACK
    <2> QED BY <1>0, <1>2, <1>3, <1>5, <2>1, AstraySends
<1> QED BY <1>1, <1>2, <1>9, <1>10 DEF StreamOk

LEMMA StreamSend ==
    ASSUME StreamInv, Send, HostType'
    PROVE  StreamInv'
<1>0. HostType
    BY DEF StreamInv
<1>1. /\ host.pc = "send" /\ host' = [host EXCEPT !.pc = "listen"] /\ h' = HostFresh(h)
      /\ UNCHANGED <<to_host, fw, got, odd>>
    BY DEF Send
<1> SUFFICES ASSUME odd' = {} PROVE StreamOk'
    BY DEF StreamInv
<1>2. StreamOk
    BY <1>1 DEF StreamInv
<1>3. host'.pc = "listen" /\ host'.msg = host.msg
    BY <1>0, <1>1 DEF HostType, LinkType
<1>4. h'.type = h.type /\ h'.buf = h.buf
    BY <1>0, <1>1, FreshIs DEF HostType, Fresh
<1>5. NotTold' <=> NotTold
    BY <1>3, <1>4 DEF NotTold, IsAck
<1>6. HostAhead => HostAhead'
    <2> SUFFICES ASSUME HostAhead PROVE HostAhead'
        OBVIOUS
    <2> PICK pl : Ahead(to_host, pl, fw, host.pc, Len(got))
        BY DEF HostAhead
    <2>1. Ahead(to_host, pl, fw, "listen", Len(got))
        BY <1>1, AheadStays
    <2> QED BY <1>1, <1>3, <2>1 DEF HostAhead
<1>7. HostAstray => HostAstray'
    <2> SUFFICES ASSUME HostAstray PROVE HostAstray'
        OBVIOUS
    <2> PICK pl : Astray(to_host, pl, fw, host.pc)
        BY DEF HostAstray
    <2>1. Astray(to_host, pl, fw, "listen")
        BY DEF Astray
    <2> QED BY <1>1, <1>3, <1>5, <2>1 DEF HostAstray
<1> QED BY <1>1, <1>2, <1>3, <1>6, <1>7 DEF StreamOk

(* START_SAMPLING is the type of the last message, and of no other. *)
LEMMA LastStarts ==
    ASSUME HostType
    PROVE  Message[1] = START_SAMPLING <=> host.msg = Len(Session)
<1>1. host.msg \in 1 .. Len(Session) /\ DOMAIN Session = 1 .. Len(Session)
      /\ Len(Session) \in 1 .. Len(Session)
    <2>1. Session \in Seq(Messages) /\ Len(Session) \in 1 .. Len(Session)
        BY EmptySeq, UartLinkAssumption
    <2> QED BY <2>1 DEF HostType, LinkType
<1>2. Session[Len(Session)][1] = START_SAMPLING
    BY UartLinkAssumption
<1> QED BY <1>1, <1>2, UartLinkAssumption DEF Message

(* A value for an ack that the host's buffer does not hold *)
LEMMA NotYet ==
    ASSUME HostType, NotTold
    PROVE  \E x : /\ x > ESC /\ ~IsAck(h, x)
                  /\ host.msg = Len(Session) => x = START_SAMPLING
<1>1. CASE host.msg = Len(Session)
    BY <1>1, UartLinkAssumption DEF NotTold
<1>2. CASE host.msg # Len(Session)
    <2> PICK y \in Nat : y = h.buf[1]
        BY DEF HostType, Fresh, HostStates, Messages, MSG_LEN
    <2> PICK x \in Nat : x = y + 3
        OBVIOUS
    <2>1. x > ESC /\ ~IsAck(h, x)
        BY DEF ESC, IsAck
    <2> QED BY <1>2, <2>1
<1> QED BY <1>1, <1>2

LEMMA StreamListen ==
    ASSUME StreamInv, Listen, HostType'
    PROVE  StreamInv'
<1>0. HostType /\ fw \in FwMains /\ to_host \in Seq(Nat) /\ Fresh(h)
    BY DEF StreamInv, HostType
<1> PICK r : r = HostParse(h, to_host)
    OBVIOUS
<1>1. /\ host.pc = "listen" /\ HostDone(r.h) /\ to_host' = r.left
      /\ UNCHANGED <<fw, sent, ran, got, odd>>
      /\ IsAck(r.h, Message[1]) =>
           /\ acked' = Append(acked, [msg |-> Message, value |-> r.h.buf[2]])
           /\ host' = NextCall(host) /\ h' = FreshLocals(r.h)
      /\ ~IsAck(r.h, Message[1]) =>
           /\ host' = [host EXCEPT !.pc = "send"]
           /\ h' = HostFresh(r.h) /\ acked' = acked
    BY ListenIs
<1> SUFFICES ASSUME odd' = {} PROVE StreamOk'
    BY DEF StreamInv
<1>2. StreamOk
    BY <1>1 DEF StreamInv
<1>3. got = <<>> /\ Len(got) = 0
    <2>1. Len(<<>>) = 0
        OBVIOUS
    <2> QED BY <1>1, <1>2, <2>1 DEF StreamOk
<1>4. /\ HostFresh(r.h).type = r.h.type /\ HostFresh(r.h).buf = r.h.buf
      /\ FreshLocals(r.h).type = SAMPLES
    BY <1>0, CallType
<1>5. /\ host.msg = Len(Session) => /\ NextCall(host).pc = "read"
                                    /\ NextCall(host).msg = host.msg
      /\ host.msg # Len(Session) => NextCall(host).pc = "send"
    <2>1. /\ host.msg \in 1 .. Len(Session)
          /\ host.msg = Len(Session) => /\ NextCall(host).pc = "read"
                                        /\ NextCall(host).msg = host.msg
          /\ host.msg < Len(Session) => NextCall(host).pc = "send"
        BY <1>0, NextCallIs
    <2>2. Len(Session) \in Nat
        BY UartLinkAssumption
    <2> QED BY <2>1, <2>2
<1>6. IsAck(r.h, Message[1]) =>
        /\ host'.pc = (IF host.msg = Len(Session) THEN "read" ELSE "send")
        /\ NotTold'
    <2>1. CONTROL_ACK # SAMPLES
        BY DEF CONTROL_ACK, SAMPLES
    <2> QED BY <1>1, <1>4, <1>5, <2>1 DEF NotTold, IsAck
<1>7. ~IsAck(r.h, Message[1]) =>
        /\ host'.pc = "send" /\ host'.msg = host.msg
        /\ h'.type = r.h.type /\ h'.buf = r.h.buf
    BY <1>0, <1>1, <1>4 DEF HostType, LinkType
<1>8. Message[1] = START_SAMPLING <=> host.msg = Len(Session)
    BY <1>0, LastStarts
<1> PICK t : t = r.left
    OBVIOUS
<1>9. (HostAhead \/ HostAstray)' /\ (host'.pc # "read" => got' = <<>>)
    <2>1. CASE HostAhead
        <3> PICK pl : Ahead(to_host, pl, fw, host.pc, Len(got))
            BY <2>1 DEF HostAhead
        <3>1. Stream(to_host, pl)
            BY DEF Ahead
        <3>2. \E pm, q : Gone(r.left, pm, to_host, pl, q, r)
            BY <1>0, <1>1, <3>1, StreamTaken
        <3> PICK pm, q : Gone(t, pm, to_host, pl, q, r)
            BY <3>2
        <3>3. /\ Len(to_host) > 0 /\ q \in Roles /\ Proper(q) /\ SameFrame(pl[1], q)
              /\ r.h.type = q.type /\ Stores(r.h, q.msg, 2)
            BY DEF Gone
        <3>4. Starts(pl[1], host.pc, Len(got))
            BY <3>3 DEF Ahead
        <3>5. q.count = 0 /\ q.on \in {0, 1}
            <4>1. q.on # 2 /\ q.count = Len(got)
                BY <1>1, <3>3, <3>4 DEF Starts, SameFrame
            <4>2. q.on \in 0 .. 2
                BY <3>3 DEF Roles
            <4> QED BY <1>3, <4>1, <4>2
        <3>6. q.type = CONTROL_ACK
            BY <3>3, <3>5 DEF Roles, Proper
        <3>7. After(q) = Len(got)
            BY <1>3, <3>5, <3>6 DEF After, CONTROL_ACK, SAMPLES
        <3>8. IsAck(r.h, Message[1]) <=> q.msg[1] = Message[1]
            BY <3>3, <3>6 DEF IsAck, Stores
        <3>9. q.msg[1] = START_SAMPLING <=> q.on = 1
            BY <3>3, <3>6 DEF Proper
        <3>10. CASE q.on = 1 /\ host.msg # Len(Session)
            <4>1. host'.pc = "send" /\ host'.msg = host.msg
                BY <1>7, <1>8, <3>8, <3>9, <3>10
            <4>2. q.on # 0 /\ "send" # "read"
                BY <3>10
            <4>3. Astray(t, pm, fw, "send")
                BY <4>2, AheadLost
            <4>4. NotTold'
                BY <3>10, <4>1 DEF NotTold
            <4>5. HostAstray'
                BY <1>1, <4>1, <4>3, <4>4 DEF HostAstray
            <4> QED BY <1>1, <1>3, <4>5
        <3>11. CASE ~(q.on = 1 /\ host.msg # Len(Session))
            <4>1. host'.pc = "read" <=> q.on # 0
                <5>1. CASE q.on = 0
                    <6>1. IsAck(r.h, Message[1]) => host.msg # Len(Session)
                        BY <1>8, <3>8, <3>9, <5>1
                    <6> QED BY <1>6, <1>7, <5>1, <6>1
                <5>2. CASE q.on = 1 /\ host.msg = Len(Session)
                    <6>1. IsAck(r.h, Message[1])
                        BY <1>8, <3>8, <3>9, <5>2
                    <6> QED BY <1>6, <5>2, <6>1
                <5> QED BY <3>5, <3>11, <5>1, <5>2
            <4> PICK qc : qc = host'.pc
                OBVIOUS
            <4>2. Ahead(t, pm, fw, qc, After(q))
                BY <1>0, <4>1, AheadGone
            <4>3. HostAhead'
                BY <1>1, <3>7, <4>2 DEF HostAhead
            <4> QED BY <1>1, <1>3, <4>3
        <3> QED BY <3>10, <3>11
    <2>2. CASE HostAstray
        <3> PICK pl : Astray(to_host, pl, fw, host.pc)
            BY <2>2 DEF HostAstray
        <3> PICK x : /\ x > ESC /\ ~IsAck(h, x)
                     /\ host.msg = Len(Session) => x = START_SAMPLING
            BY <1>0, <2>2, NotYet DEF HostAstray
        <3>1. /\ \E pm : Astray(r.left, pm, fw, host.pc)
              /\ x = START_SAMPLING => ~IsAck(r.h, x)
            BY <1>0, <1>1, AstrayTaken
        <3>2. host.msg = Len(Session) =>
                ~IsAck(r.h, START_SAMPLING) /\ ~IsAck(r.h, Message[1])
            BY <1>8, <3>1
        <3>3. host'.pc = "send"
            BY <1>6, <1>7, <3>2
        <3>4. NotTold'
            <4>1. CASE IsAck(r.h, Message[1])
                BY <1>6, <4>1
            <4>2. CASE ~IsAck(r.h, Message[1])
                BY <1>7, <3>2, <4>2 DEF NotTold, IsAck
            <4> QED BY <4>1, <4>2
        <3> PICK pm : Astray(t, pm, fw, host.pc)
            BY <3>1
        <3>5. Astray(t, pm, fw, "send")
            BY DEF Astray
        <3>6. HostAstray'
            BY <1>1, <3>3, <3>4, <3>5 DEF HostAstray
        <3> QED BY <1>1, <1>3, <3>6
    <2> QED BY <1>2, <2>1, <2>2 DEF StreamOk
<1> QED BY <1>1, <1>2, <1>9 DEF StreamOk

(* What the host reads of a frame of the stream *)
LEMMA FrameIsRead ==
    ASSUME NEW g \in HostStates, NEW m \in Messages, Stores(g, m, 2)
    PROVE  SubSeq(g.buf, 1, g.n) = m
<1> PICK b : b = g.buf
    OBVIOUS
<1>1. b \in Messages /\ g.n = 2 /\ b[1] = m[1] /\ b[2] = m[2]
    BY DEF HostStates, Stores
<1>2. b = m
    BY <1>1, MessagesEqual
<1>3. m \in Seq(Nat) /\ Len(m) = 2
    BY MessageIs DEF MSG_LEN
<1> PICK s \in Seq(Nat) : s = m /\ Len(s) = 2
    BY <1>3
<1>4. SubSeq(s, 1, Len(s)) = s
    OBVIOUS
<1> QED BY <1>1, <1>2, <1>4

LEMMA StreamRead ==
    ASSUME StreamInv, ReadStream, HostType'
    PROVE  StreamInv'
<1>0. HostType /\ fw \in FwMains /\ to_host \in Seq(Nat) /\ Fresh(h)
    BY DEF StreamInv, HostType
<1> PICK r : r = HostParse(h, to_host)
    OBVIOUS
<1>1. /\ host.pc = "read" /\ HostDone(r.h) /\ to_host' = r.left
      /\ UNCHANGED <<host, fw, odd>>
      /\ got' = IF r.h.type = SAMPLES
                THEN Append(got, SubSeq(r.h.buf, 1, r.h.n)) ELSE got
    BY DEF ReadStream, Returns
<1> SUFFICES ASSUME odd' = {} PROVE StreamOk'
    BY DEF StreamInv
<1>2. StreamOk
    BY <1>1 DEF StreamInv
<1>3. HostAhead
    BY <1>1, <1>2 DEF StreamOk, HostAstray, Astray
<1> PICK pl : Ahead(to_host, pl, fw, host.pc, Len(got))
    BY <1>3 DEF HostAhead
<1>4. Stream(to_host, pl)
    BY DEF Ahead
<1>5. \E pm, q : Gone(r.left, pm, to_host, pl, q, r)
    BY <1>0, <1>1, <1>4, StreamTaken
<1> PICK t : t = r.left
    OBVIOUS
<1> PICK pm, q : Gone(t, pm, to_host, pl, q, r)
    BY <1>5
<1>6. /\ Len(to_host) > 0 /\ q \in Roles /\ Proper(q) /\ SameFrame(pl[1], q)
      /\ r.h.type = q.type /\ Stores(r.h, q.msg, 2)
    BY DEF Gone
<1>7. q.on = 2 /\ q.count = Len(got)
    <2>1. Starts(pl[1], host.pc, Len(got))
        BY <1>6 DEF Ahead
    <2> QED BY <1>1, <1>6, <2>1 DEF Starts, SameFrame
<1>8. Ahead(t, pm, fw, host.pc, After(q))
    <2>1. host.pc = "read" <=> q.on # 0
        BY <1>1, <1>7
    <2> QED BY <1>0, <2>1, AheadGone
<1>9. Len(got') = After(q) /\ \A k \in 1 .. Len(got') : got'[k] = SampleFrame(k - 1)
    <2>0. \A k \in 1 .. Len(got) : got[k] = SampleFrame(k - 1)
        BY <1>2 DEF StreamOk
    <2>1. CASE q.type = SAMPLES
        <3> PICK a : a = SubSeq(r.h.buf, 1, r.h.n)
            OBVIOUS
        <3>1. got' = Append(got, a)
            BY <1>1, <1>6, <2>1
        <3>2. a = q.msg /\ q.msg \in Seq(Nat)
            <4>1. r.h \in HostStates
                BY <1>0, CallType
            <4>2. q.msg \in Messages
                BY <1>6 DEF Roles
            <4>3. SubSeq(r.h.buf, 1, r.h.n) = q.msg
                BY <1>6, <4>1, <4>2, FrameIsRead
            <4>4. q.msg \in Seq(Nat)
                BY <4>2, MessageIs
            <4> QED BY <4>3, <4>4
        <3>3. a = SampleFrame(Len(got))
            BY <1>6, <1>7, <2>1, <3>2 DEF Proper
        <3>4. got \in Seq(Seq(Nat)) /\ a \in Seq(Nat)
            BY <1>0, <3>2 DEF HostType
        <3>5. /\ Len(got) \in Nat /\ Len(got') = Len(got) + 1
              /\ \A k \in 1 .. Len(got) : got'[k] = got[k]
              /\ got'[Len(got) + 1] = a
            BY <3>1, <3>4, AppendProperties
        <3>6. \A k \in 1 .. Len(got') : got'[k] = SampleFrame(k - 1)
            <4> TAKE k \in 1 .. Len(got')
            <4>1. CASE k \in 1 .. Len(got)
                BY <2>0, <3>5, <4>1
            <4>2. CASE k = Len(got) + 1
                <5>1. k - 1 = Len(got)
                    BY <3>5, <4>2
                <5> QED BY <3>3, <3>5, <4>2, <5>1
            <4>3. k \in 1 .. Len(got) \/ k = Len(got) + 1
                BY <3>5
            <4> QED BY <4>1, <4>2, <4>3
        <3>7. Len(got') = After(q)
            BY <1>7, <2>1, <3>5 DEF After
        <3> QED BY <3>6, <3>7
    <2>2. CASE q.type # SAMPLES
        <3>1. got' = got
            BY <1>1, <1>6, <2>2
        <3>2. Len(got') = After(q)
            BY <1>7, <2>2, <3>1 DEF After
        <3> QED BY <2>0, <3>1, <3>2
    <2> QED BY <2>1, <2>2
<1>10. Ahead(t, pm, fw, host.pc, Len(got'))
    BY <1>8, <1>9
<1>11. HostAhead'
    BY <1>1, <1>10 DEF HostAhead
<1> QED BY <1>1, <1>2, <1>9, <1>11 DEF StreamOk

LEMMA StreamTimeout ==
    ASSUME StreamInv, Timeout, HostType'
    PROVE  StreamInv'
<1>0. HostType /\ fw \in FwMains /\ to_host \in Seq(Nat) /\ Fresh(h)
    BY DEF StreamInv, HostType
<1> PICK r : r = HostParse(h, to_host)
    OBVIOUS
<1>1. /\ host.pc = "listen" /\ ~HostDone(r.h) /\ to_host' = <<>>
      /\ h' = HostFresh(r.h) /\ host' = [host EXCEPT !.pc = "send"]
      /\ UNCHANGED <<fw, got, odd>>
    BY DEF Timeout, Returns, AfterTimeout
<1> SUFFICES ASSUME odd' = {} PROVE StreamOk'
    BY DEF StreamInv
<1>2. StreamOk
    BY <1>1 DEF StreamInv
<1>3. host'.pc = "send" /\ host'.msg = host.msg
    BY <1>0, <1>1 DEF HostType, LinkType
<1>4. h'.type = r.h.type /\ h'.buf = r.h.buf
    BY <1>0, <1>1, CallType
<1>5. HostAhead => HostAhead'
    <2> SUFFICES ASSUME HostAhead PROVE HostAhead'
        OBVIOUS
    <2> PICK pl : Ahead(to_host, pl, fw, host.pc, Len(got))
        BY DEF HostAhead
    <2>1. host.pc # "read"
        BY <1>1
    <2>2. to_host = <<>>
        BY <1>0, <1>1, <2>1, AheadListens
    <2>3. Ahead(to_host, pl, fw, "send", Len(got))
        BY <2>1, AheadStays
    <2> QED BY <1>1, <1>3, <2>2, <2>3 DEF HostAhead
<1>6. HostAstray => HostAstray'
    <2> SUFFICES ASSUME HostAstray PROVE HostAstray'
        OBVIOUS
    <2> PICK pl : Astray(to_host, pl, fw, host.pc)
        BY DEF HostAstray
    <2> PICK x : /\ x > ESC /\ ~IsAck(h, x)
                 /\ host.msg = Len(Session) => x = START_SAMPLING
        BY <1>0, NotYet DEF HostAstray
    <2>1. ~IsAck(r.h, x)
        BY <1>0, <1>1, AstrayTaken
    <2>2. NotTold'
        BY <1>3, <1>4, <2>1 DEF NotTold, IsAck
    <2>3. Len(<<>>) = 0
        OBVIOUS
    <2>4. Astray(<<>>, <<>>, fw, "send")
        BY <2>3, EmptyStream DEF Astray
    <2> QED BY <1>1, <1>3, <2>2, <2>4 DEF HostAstray
<1> QED BY <1>1, <1>2, <1>3, <1>5, <1>6 DEF StreamOk

LEMMA StreamNext ==
    ASSUME StreamInv, [Next]_vars
    PROVE  StreamInv'
<1>0. HostType' /\ HostType
    BY HostTypeNext DEF StreamInv
<1>1. CASE UNCHANGED <<host, h, got, to_host, fw, odd>>
    <2>1. StreamOk => StreamOk'
        BY <1>1, StreamStays DEF StreamOk, Streaming
    <2> QED BY <1>0, <1>1, <2>1 DEF StreamInv
<1>2. CASE Receive \/ ReceiveError \/ UNCHANGED vars
    BY <1>1, <1>2 DEF Receive, ReceiveError, vars, hostVars
<1>3. CASE GotUartBytes
    BY <1>0, <1>3, StreamGot
<1>4. CASE Ack
    BY <1>0, <1>4, StreamAck
<1>5. CASE Flush
    <2>1. /\ UNCHANGED <<host, h, got, to_host, odd>> /\ fw.pc = "flush"
          /\ fw' = [fw EXCEPT !.pc = "main", !.msg = <<>>]
        BY <1>5 DEF Flush, hostVars
    <2>2. fw'.frame = fw.frame /\ fw'.pc = "main" /\ fw'.seqnum = fw.seqnum
        BY <1>0, <2>1 DEF HostType, FwMains
    <2>3. Streaming(fw)' <=> Streaming(fw)
        BY <2>1, <2>2 DEF Streaming
    <2>4. StreamOk => StreamOk'
        BY <2>1, <2>2, <2>3, StreamStays
    <2> QED BY <1>0, <2>1, <2>4 DEF StreamInv
<1>6. CASE StreamPiece
    BY <1>0, <1>6, StreamSent
<1>7. CASE Send
    BY <1>0, <1>7, StreamSend
<1>8. CASE Listen
    BY <1>0, <1>8, StreamListen
<1>9. CASE ReadStream
    BY <1>0, <1>9, StreamRead
<1>10. CASE Timeout
    BY <1>0, <1>10, StreamTimeout
<1> QED BY <1>2, <1>3, <1>4, <1>5, <1>6, <1>7, <1>8, <1>9, <1>10
       DEF Next, FwMain, HostStep

LEMMA StreamImplies == StreamInv => StreamAsSent
<1> SUFFICES ASSUME StreamInv, odd = {}, NEW k \in DOMAIN got
             PROVE  got[k] = SampleFrame(k - 1)
    BY DEF StreamAsSent
<1>1. got \in Seq(Seq(Nat)) /\ \A i \in 1 .. Len(got) : got[i] = SampleFrame(i - 1)
    BY DEF StreamInv, HostType, StreamOk
<1>2. k \in 1 .. Len(got)
    BY <1>1
<1> QED BY <1>1, <1>2

(* The host reads the frames of the stream as they were sent and in order,  *)
(* from the first on, whichever acks come between them (sw/uart.c 49-147,   *)
(* fw/samples.c 192-276), whatever happened to the messages before, as long *)
(* as nothing was cut, no ack tore a frame, and the stream started once.    *)
THEOREM StreamInOrder == Spec => []StreamAsSent
<1>1. StreamInv /\ [Next]_vars => StreamInv'
    BY StreamNext
<1> QED BY StreamInit, <1>1, StreamImplies, PTL DEF Spec

=============================================================================
