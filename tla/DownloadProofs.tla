--------------------------- MODULE DownloadProofs ---------------------------
(***************************************************************************)
(* Proofs about the download and the recording for it, for every length of *)
(* the files and of the frames, every number of tries, sessions and        *)
(* faults: what a session prints is a run of the file it asked for, its    *)
(* time stamp is that file's, and it gives up only when it has to: on the  *)
(* BattOr only after one fault less than it has tries.                     *)
(***************************************************************************)
EXTENDS Download, WellFoundedInduction, TLAPS

-----------------------------------------------------------------------------
(* Types *)

Kinds == {"download", "buffer"}
Types == Acked \cup Tried \cup {"READ_SD_UART"}
Data  == Seq(Nat \X Nat)

Requests == [type : Types, file : Nat, seq : Nat]
ReplyTypes == {"cut", "stray", "empty", "hash", "eeprom", "ack", "rtc", "frame"}
Ofs == Types \cup ReplyTypes \cup {""}
Replies  == [type : ReplyTypes, of : Ofs, num : Nat, data : Data]
Hosts ==
    [pc : {"off", "ask", "wait"}, kind : Kinds, file : Nat, step : 1 .. 6,
     tries : Nat, next : Nat, got : Data, stamp : Int, warned : BOOLEAN,
     end : {"none", "killed", "done", "failed", "mismatch", "usb", "not found"},
     clean : BOOLEAN, kept : BOOLEAN]
Firmwares ==
    [mode : {"usb", "portable"}, inited : BOOLEAN, recording : BOOLEAN,
     open : Nat, pc : {"idle", "send"}, seq : Nat, todo : Data, sent : Data,
     headless : BOOLEAN]
Lengths == 0 .. WORD - 1
Cards   == [skips : SUBSET Nat, full : BOOLEAN, portable : BOOLEAN]

TypeOK ==
    /\ host \in Hosts /\ fw \in Firmwares
    /\ files \in Seq(Lengths) /\ card \in Cards
    /\ to_fw \in Seq(Requests) /\ to_host \in Seq(Replies)
    /\ sessions \in Nat /\ faults \in Nat

-----------------------------------------------------------------------------
(* Numbers and sequences *)

(* A set of naturals that has an element has a least one. *)
LEMMA Least ==
    ASSUME NEW T \in SUBSET Nat, T # {}
    PROVE  \E x \in T : \A y \in T : x <= y
<1> DEFINE R == OpToRel(<, Nat)
<1>1. \E x \in T : \A y \in T : <<y, x>> \notin R
    <2>1. IsWellFoundedOn(R, Nat)
        BY NatLessThanWellFounded
    <2> HIDE DEF R
    <2> QED
        BY <2>1, WFMin
<1>2. PICK x \in T : \A y \in T : <<y, x>> \notin R
    BY <1>1
<1>3. \A y \in T : ~(y < x)
    BY <1>2 DEF OpToRel
<1> QED
    BY <1>3

(* The calls of the two sessions, each of a type of its own. *)
LEMMA CallsAre ==
    /\ \A kind \in Kinds : Len(Calls(kind)) = 6 /\ \A k \in 1 .. 6 : Calls(kind)[k] \in Types
    /\ Calls("download")[1] = "GET_GIT_HASH" /\ Calls("download")[2] = "SET_RTC"
    /\ Calls("download")[3] = "READ_EEPROM" /\ Calls("download")[4] = "GET_MODE_PORTABLE"
    /\ Calls("download")[5] = "GET_RTC" /\ Calls("download")[6] = "READ_SD_UART"
    /\ Calls("buffer")[1] = "GET_GIT_HASH" /\ Calls("buffer")[2] = "SET_RTC"
    /\ Calls("buffer")[3] = "INIT" /\ Calls("buffer")[4] = "READ_EEPROM"
    /\ Calls("buffer")[5] = "GAIN_SET" /\ Calls("buffer")[6] = "START_SAMPLING_SD"
<1> DEFINE d == Calls("download")
           b == Calls("buffer")
<1>1. /\ Len(d) = 6 /\ d[1] = "GET_GIT_HASH" /\ d[2] = "SET_RTC" /\ d[3] = "READ_EEPROM"
      /\ d[4] = "GET_MODE_PORTABLE" /\ d[5] = "GET_RTC" /\ d[6] = "READ_SD_UART"
    BY DEF Calls
<1>2. /\ Len(b) = 6 /\ b[1] = "GET_GIT_HASH" /\ b[2] = "SET_RTC" /\ b[3] = "INIT"
      /\ b[4] = "READ_EEPROM" /\ b[5] = "GAIN_SET" /\ b[6] = "START_SAMPLING_SD"
    BY DEF Calls
<1> HIDE DEF d, b
<1>3. \A k \in 1 .. 6 : d[k] \in Types /\ b[k] \in Types
    <2> TAKE k \in 1 .. 6
    <2>1. k = 1 \/ k = 2 \/ k = 3 \/ k = 4 \/ k = 5 \/ k = 6
        OBVIOUS
    <2> QED
        BY <1>1, <1>2, <2>1 DEF Types, Acked, Tried
<1>4. \A kind \in Kinds : Calls(kind) = d \/ Calls(kind) = b
    BY DEF Kinds, d, b
<1>5. \A kind \in Kinds : Len(Calls(kind)) = 6 /\ \A k \in 1 .. 6 : Calls(kind)[k] \in Types
    BY <1>1, <1>2, <1>3, <1>4
<1> QED
    BY <1>1, <1>2, <1>5 DEF d, b

(* Adding at the end of a sequence and taking from its front. *)
LEMMA AppendIs ==
    ASSUME NEW S, NEW s \in Seq(S), NEW x \in S
    PROVE  /\ Append(s, x) \in Seq(S) /\ Len(Append(s, x)) = Len(s) + 1
           /\ \A i \in 1 .. Len(s) : Append(s, x)[i] = s[i]
           /\ Append(s, x)[Len(s) + 1] = x
    OBVIOUS

LEMMA TailIs ==
    ASSUME NEW S, NEW s \in Seq(S), s # <<>>
    PROVE  /\ Head(s) \in S /\ Head(s) = s[1]
           /\ Tail(s) \in Seq(S) /\ Len(Tail(s)) = Len(s) - 1 /\ Len(s) > 0
           /\ \A i \in 1 .. Len(s) - 1 : Tail(s)[i] = s[i + 1]
    OBVIOUS

LEMMA EmptyIs ==
    ASSUME NEW S
    PROVE  <<>> \in Seq(S) /\ Len(<<>>) = 0
    OBVIOUS

LEMMA OneIs ==
    ASSUME NEW S, NEW x \in S
    PROVE  <<x>> \in Seq(S) /\ Len(<<x>>) = 1 /\ <<x>>[1] = x
    OBVIOUS

(* What is left of a sequence behind its place i. *)
LEMMA RestIs ==
    ASSUME NEW S, NEW s \in Seq(S), NEW i \in 1 .. Len(s)
    PROVE  /\ SubSeq(s, i + 1, Len(s)) \in Seq(S)
           /\ Len(SubSeq(s, i + 1, Len(s))) = Len(s) - i
           /\ \A j \in 1 .. Len(s) - i : SubSeq(s, i + 1, Len(s))[j] = s[j + i]
    OBVIOUS

LEMMA JoinIs ==
    ASSUME NEW S, NEW s \in Seq(S), NEW t \in Seq(S)
    PROVE  /\ s \o t \in Seq(S) /\ Len(s \o t) = Len(s) + Len(t)
           /\ \A i \in 1 .. Len(s) : (s \o t)[i] = s[i]
           /\ \A i \in 1 .. Len(t) : (s \o t)[i + Len(s)] = t[i]
    OBVIOUS

-----------------------------------------------------------------------------
(* Frames *)

LEMMA ModSmall ==
    ASSUME NEW a \in Nat, NEW m \in Nat, a < m
    PROVE  a % m = a
    OBVIOUS

LEMMA FrameStartType ==
    ASSUME NEW n \in Nat
    PROVE  /\ FrameStart(n) \in Nat
           /\ n = 0 => FrameStart(n) = 0 /\ FrameStart(n + 1) = SAMPLES_LEN_PER_CAL_FRAME
           /\ n > 0 => /\ FrameStart(n) > 0
                       /\ FrameStart(n + 1) = FrameStart(n) + SAMPLES_LEN_PER_DATA_FRAME
<1> DEFINE c == SAMPLES_LEN_PER_CAL_FRAME
           d == SAMPLES_LEN_PER_DATA_FRAME
<1>1. c \in Nat /\ c > 0 /\ d \in Nat /\ d > 0
    BY DownloadAssumption
<1>2. FrameStart(n) = (IF n = 0 THEN 0 ELSE c + ((n - 1) * d))
    BY DEF FrameStart
<1>3. FrameStart(n + 1) = c + (n * d)
    BY DEF FrameStart
<1> HIDE DEF c, d
<1>4. CASE n = 0
    <2>1. n * d = 0
        BY <1>1, <1>4
    <2> QED
        BY <1>1, <1>2, <1>3, <1>4, <2>1 DEF c, d
<1>5. CASE n > 0
    <2>1. (n - 1) * d \in Nat
        BY <1>1, <1>5
    <2>2. n * d = ((n - 1) * d) + d
        BY <1>1, <1>5
    <2> DEFINE e == (n - 1) * d
    <2>3. FrameStart(n) = c + e /\ FrameStart(n + 1) = c + (e + d) /\ e \in Nat
        BY <1>2, <1>3, <1>5, <2>1, <2>2
    <2> HIDE DEF e
    <2> QED
        BY <1>1, <1>5, <2>3 DEF c, d
<1> QED
    BY <1>4, <1>5

(* The size of a frame, from the length of the file. *)
FrameSize(len, n) ==
    IF n = 0
    THEN IF len < SAMPLES_LEN_PER_CAL_FRAME THEN 0 ELSE SAMPLES_LEN_PER_CAL_FRAME
    ELSE IF len - FrameStart(n) < SAMPLES_LEN_PER_DATA_FRAME
         THEN len - FrameStart(n) ELSE SAMPLES_LEN_PER_DATA_FRAME

(* A frame has buffers from its start on, as many as its size says; none    *)
(* when it starts behind the end.                                           *)
LEMMA FrameIs ==
    ASSUME NEW file \in Nat, NEW len \in Lengths, NEW n \in Nat
    PROVE  /\ Frame(file, len, n) \in Data
           /\ FrameStart(n) > len => Frame(file, len, n) = <<>>
           /\ FrameStart(n) <= len =>
                 /\ FrameSize(len, n) \in Nat
                 /\ FrameStart(n) + FrameSize(len, n) <= len
                 /\ Frame(file, len, n) =
                      [i \in 1 .. FrameSize(len, n) |-> <<file, FrameStart(n) + i>>]
<1> DEFINE st == FrameStart(n)
           sz == FrameSize(len, n)
           c == SAMPLES_LEN_PER_CAL_FRAME
           d == SAMPLES_LEN_PER_DATA_FRAME
<1>1. c \in Nat /\ d \in Nat /\ WORD \in Nat /\ len \in Nat /\ len < WORD
    BY DownloadAssumption DEF Lengths
<1>2. st \in Nat /\ (n = 0 => st = 0)
    BY FrameStartType
<1>3. CASE st > len
    <2>1. Frame(file, len, n) = <<>>
        BY <1>3 DEF Frame
    <2> QED
        BY <1>1, <1>2, <1>3, <2>1, EmptyIs DEF Data
<1>4. CASE st <= len
    <2>1. len - st \in Nat /\ (len - st) % WORD = len - st
        BY <1>1, <1>2, <1>4, ModSmall
    <2>2. /\ sz = (IF n = 0 THEN IF len < c THEN 0 ELSE c
                   ELSE IF len - st < d THEN len - st ELSE d)
        BY DEF FrameSize
    <2>3. Frame(file, len, n) = [i \in 1 .. sz |-> <<file, st + i>>]
        <3> DEFINE left == (len - st) % WORD
                   size == CASE n = 0 -> IF left < c THEN 0 ELSE c
                             [] n > 0 /\ left < d -> left
                             [] OTHER -> d
        <3>1. Frame(file, len, n) =
                IF st > len THEN <<>> ELSE [i \in 1 .. size |-> <<file, st + i>>]
            BY DEF Frame
        <3>2. left = len - st
            BY <2>1
        <3> HIDE DEF left
        <3>3. ASSUME n = 0 PROVE size = sz
            <4>1. size = IF left < c THEN 0 ELSE c
                BY <3>3
            <4>2. left = len
                BY <1>1, <1>2, <3>2, <3>3
            <4>3. size = sz
                BY <2>2, <3>3, <4>1, <4>2
            <4> QED
                BY <4>3
        <3>4. ASSUME n # 0 PROVE size = sz
            <4>1. n > 0
                BY <3>4
            <4>2. size = IF left < d THEN left ELSE d
                BY <3>4, <4>1
            <4>3. size = sz
                BY <2>2, <3>2, <3>4, <4>2
            <4> QED
                BY <4>3
        <3>5. size = sz
            BY <3>3, <3>4
        <3>6. ~(st > len)
            BY <1>1, <1>2, <1>4
        <3> HIDE DEF size, st, sz
        <3> QED
            BY <3>1, <3>5, <3>6
    <2>4. sz \in Nat /\ st + sz <= len
        BY <1>1, <1>2, <1>4, <2>1, <2>2
    <2> HIDE DEF st, sz
    <2>5. [i \in 1 .. sz |-> <<file, st + i>>] \in Seq(Nat \X Nat)
        BY <1>2, <2>4
    <2>6. Frame(file, len, n) \in Data
        BY <2>3, <2>5 DEF Data
    <2> QED
        BY <1>4, <2>3, <2>4, <2>6, <1>1, <1>2 DEF st, sz
<1> QED
    BY <1>1, <1>2, <1>3, <1>4

Shorter(a, b) == IF a < b THEN a ELSE b

LEMMA BuffersIs ==
    ASSUME NEW file \in Nat, NEW n \in Nat
    PROVE  /\ Buffers(file, n) \in Data /\ Len(Buffers(file, n)) = n
           /\ \A i \in 1 .. n : Buffers(file, n)[i] = <<file, i>>
    BY DEF Buffers, Data

(* The start of a file and the frame behind it are the start up to the next *)
(* frame; a frame behind the first that has none is at the end.             *)
LEMMA FrameJoins ==
    ASSUME NEW file \in Nat, NEW len \in Lengths, NEW n \in Nat
    PROVE  /\ Frame(file, len, n) # <<>> =>
                 /\ len > 0
                 /\ Buffers(file, Shorter(FrameStart(n), len)) \o Frame(file, len, n)
                      = Buffers(file, Shorter(FrameStart(n + 1), len))
           /\ Frame(file, len, n) = <<>> =>
                 /\ n > 0 => len <= FrameStart(n)
                 /\ n = 0 => len < SAMPLES_LEN_PER_CAL_FRAME
<1> DEFINE st == FrameStart(n)
           sz == FrameSize(len, n)
           fr == Frame(file, len, n)
           c == SAMPLES_LEN_PER_CAL_FRAME
           d == SAMPLES_LEN_PER_DATA_FRAME
<1>1. c \in Nat /\ c > 0 /\ d \in Nat /\ d > 0 /\ len \in Nat
    BY DownloadAssumption DEF Lengths
<1>2. /\ st \in Nat /\ (n = 0 => st = 0 /\ FrameStart(n + 1) = c)
      /\ n > 0 => FrameStart(n + 1) = st + d
    BY FrameStartType
<1>3. /\ st > len => fr = <<>>
      /\ st <= len => /\ sz \in Nat /\ st + sz <= len
                      /\ fr = [i \in 1 .. sz |-> <<file, st + i>>]
    BY FrameIs
<1>4. sz = IF n = 0 THEN IF len < c THEN 0 ELSE c
           ELSE IF len - st < d THEN len - st ELSE d
    BY DEF FrameSize
<1> HIDE DEF st, sz, fr, c, d
<1>5. st <= len => Len(fr) = sz /\ (fr = <<>> <=> sz = 0)
    BY <1>3
<1>6. ASSUME fr # <<>>
      PROVE  len > 0 /\ Buffers(file, Shorter(st, len)) \o fr
                          = Buffers(file, Shorter(FrameStart(n + 1), len))
    <2>1. st <= len /\ sz > 0
        BY <1>1, <1>2, <1>3, <1>5, <1>6
    <2>2. Shorter(st, len) = st
        BY <2>1, <1>1, <1>2 DEF Shorter
    <2>3. Shorter(FrameStart(n + 1), len) = st + sz
        <3>1. CASE n = 0
            BY <3>1, <2>1, <1>1, <1>2, <1>4 DEF Shorter
        <3>2. CASE n # 0
            BY <3>2, <2>1, <1>1, <1>2, <1>4 DEF Shorter
        <3> QED
            BY <3>1, <3>2
    <2>4. [i \in 1 .. st |-> <<file, i>>] \o [i \in 1 .. sz |-> <<file, st + i>>]
             = [i \in 1 .. st + sz |-> <<file, i>>]
        BY <1>2, <1>3, <2>1
    <2>5. Buffers(file, st) \o fr = Buffers(file, st + sz)
        BY <2>1, <2>4, <1>3 DEF Buffers
    <2> QED
        BY <2>1, <2>2, <2>3, <2>5, <1>1, <1>2, <1>3
<1>7. ASSUME fr = <<>>
      PROVE  (n > 0 => len <= st) /\ (n = 0 => len < c)
    <2>1. st > len \/ sz = 0
        BY <1>1, <1>2, <1>5, <1>7
    <2> QED
        BY <2>1, <1>1, <1>2, <1>3, <1>4
<1> QED
    BY <1>6, <1>7 DEF st, fr, c

-----------------------------------------------------------------------------
(* The firmware's file *)

FileInv ==
    /\ fw.open \in 0 .. Len(files)
    /\ fw.pc = "idle" => fw.todo = <<>> /\ fw.sent = <<>> /\ ~fw.headless
    /\ fw.pc = "send" =>
          /\ fw.open > 0 /\ ~fw.recording
          /\ fw.sent \o fw.todo = Frame(fw.open, files[fw.open], fw.seq)

LEMMA FwFields ==
    ASSUME NEW f \in Firmwares
    PROVE  /\ f.mode \in {"usb", "portable"} /\ f.inited \in BOOLEAN
           /\ f.recording \in BOOLEAN /\ f.open \in Nat /\ f.pc \in {"idle", "send"}
           /\ f.seq \in Nat /\ f.todo \in Data /\ f.sent \in Data /\ f.headless \in BOOLEAN
    BY DEF Firmwares

LEMMA HostFields ==
    ASSUME NEW h \in Hosts
    PROVE  /\ h.pc \in {"off", "ask", "wait"} /\ h.kind \in Kinds /\ h.file \in Nat
           /\ h.step \in 1 .. 6 /\ h.tries \in Nat /\ h.next \in Nat /\ h.got \in Data
           /\ h.stamp \in Int /\ h.warned \in BOOLEAN
           /\ h.end \in {"none", "killed", "done", "failed", "mismatch", "usb", "not found"}
           /\ h.clean \in BOOLEAN /\ h.kept \in BOOLEAN
    BY DEF Hosts

LEMMA RequestFields ==
    ASSUME NEW r \in Requests
    PROVE  r.type \in Types /\ r.file \in Nat /\ r.seq \in Nat
    BY DEF Requests

LEMMA ReplyFields ==
    ASSUME NEW r \in Replies
    PROVE  /\ r.type \in ReplyTypes /\ r.of \in Ofs /\ r.num \in Nat /\ r.data \in Data
    BY DEF Replies

LEMMA NoData == <<>> \in Data
    BY DEF Data

(* The replies the parties make up. *)
LEMMA ReplyIs ==
    /\ STRAY \in Replies /\ STRAY.type = "stray"
    /\ \A r \in Replies : Cut(r) \in Replies /\ Cut(r).type = "cut" /\ Cut(r).of = r.type
    /\ EMPTY \in Replies /\ EMPTY.type = "empty" /\ EMPTY.of = "" /\ EMPTY.data = <<>>
    /\ \A type \in ReplyTypes, of \in Ofs, num \in Nat, data \in Data :
          /\ Reply(type, of, num, data) \in Replies
          /\ Reply(type, of, num, data).type = type /\ Reply(type, of, num, data).of = of
          /\ Reply(type, of, num, data).num = num /\ Reply(type, of, num, data).data = data
<1>1. ASSUME NEW type \in ReplyTypes, NEW of \in Ofs, NEW num \in Nat,
             NEW data \in Data
      PROVE  /\ Reply(type, of, num, data) \in Replies
             /\ Reply(type, of, num, data).type = type /\ Reply(type, of, num, data).of = of
             /\ Reply(type, of, num, data).num = num /\ Reply(type, of, num, data).data = data
    BY DEF Reply, Replies
<1>2. {"cut", "stray", "empty"} \subseteq ReplyTypes
    BY DEF ReplyTypes
<1>3. /\ STRAY \in Replies /\ STRAY.type = "stray"
      /\ EMPTY \in Replies /\ EMPTY.type = "empty" /\ EMPTY.of = "" /\ EMPTY.data = <<>>
    BY <1>2, NoData DEF STRAY, EMPTY, Reply, Replies, Ofs
<1>4. \A r \in Replies : Cut(r) \in Replies /\ Cut(r).type = "cut" /\ Cut(r).of = r.type
    <2> TAKE r \in Replies
    <2>1. r.type \in Ofs /\ "cut" \in ReplyTypes /\ 0 \in Nat
        BY ReplyFields DEF Ofs, ReplyTypes
    <2> QED
        BY <1>1, <2>1, NoData DEF Cut
<1> QED
    BY <1>1, <1>3, <1>4

(* A card that was formatted, without files. *)
LEMMA FormattedIs ==
    ASSUME CardIs(Formatted, <<>>)
    PROVE  /\ files' = <<>> /\ files' \in Seq(Lengths) /\ Len(files') = 0
           /\ card' \in Cards /\ card'.full = FALSE
<1>1. files' = <<>> /\ card' = Formatted
    BY DEF CardIs
<1>2. Formatted \in Cards /\ Formatted.full = FALSE
    BY DEF Formatted, Cards
<1> QED
    BY <1>1, <1>2, EmptyIs

(* The firmware after a boot. *)
LEMMA BootedIs ==
    ASSUME NEW fs \in Seq(Lengths), NEW mode \in {"usb", "portable"}
    PROVE  LET f == FwBooted(mode, fs) IN
           /\ f \in Firmwares /\ f.mode = mode /\ f.open = Len(fs) /\ f.pc = "idle"
           /\ f.todo = <<>> /\ f.sent = <<>> /\ f.headless = FALSE /\ f.recording = FALSE
<1>1. Len(fs) \in Nat /\ <<>> \in Data
    BY NoData
<1> HIDE DEF Data
<1> QED
    BY <1>1 DEF FwBooted, Firmwares

(* stop_sampling leaves no recording, and all else but the open file. *)
LEMMA StoppedIs ==
    ASSUME TypeOK, fw.open \in 0 .. Len(files), NEW len \in RECORDED, NEW full \in BOOLEAN
    PROVE  LET f  == Stopped(fw)
               fs == FilesAfter(len)
               c  == CardAfter(full)
           IN  /\ c \in Cards /\ (~fw.recording => c = card)
               /\ fs \in Seq(Lengths) /\ f \in Firmwares /\ f.recording = FALSE
               /\ f.open \in 0 .. Len(fs) /\ f.pc = fw.pc /\ f.mode = fw.mode
               /\ f.todo = fw.todo /\ f.sent = fw.sent /\ f.headless = fw.headless
               /\ fw.recording => f.open = 0
               /\ ~fw.recording => f.open = fw.open /\ fs = files
<1>1. fw \in Firmwares /\ files \in Seq(Lengths) /\ len \in Lengths
    BY DownloadAssumption DEF TypeOK, Lengths
<1>2. FilesAfter(len) \in Seq(Lengths)
    BY <1>1 DEF FilesAfter
<1>3. Len(FilesAfter(len)) \in Nat
    BY <1>2
<1>4. ~fw.recording => FilesAfter(len) = files
    BY DEF FilesAfter
<1>7. CardAfter(full) \in Cards /\ (~fw.recording => CardAfter(full) = card)
    <2> DEFINE n == Len(files) + 1
               points == (n - 1) % FS_FILE_SKIP_LEN = 0 /\ n > FS_FILE_SKIP_LEN
               new == IF points THEN {n - FS_FILE_SKIP_LEN} ELSE {}
    <2>1. card \in Cards /\ n \in Nat /\ FS_FILE_SKIP_LEN \in Nat
        BY <1>1, DownloadAssumption DEF TypeOK
    <2>2. CardAfter(full) = IF ~fw.recording THEN card
                            ELSE [card EXCEPT !.full = full, !.skips = card.skips \cup new]
        BY DEF CardAfter
    <2>3. new \in SUBSET Nat
        <3>1. n > FS_FILE_SKIP_LEN => n - FS_FILE_SKIP_LEN \in Nat
            BY <2>1
        <3> HIDE DEF n
        <3> QED
            BY <3>1
    <2> HIDE DEF new
    <2> QED
        BY <2>1, <2>2, <2>3 DEF Cards
<1> HIDE DEF Data, Lengths
<1>5. /\ Stopped(fw) \in Firmwares /\ Stopped(fw).recording = FALSE
      /\ Stopped(fw).pc = fw.pc /\ Stopped(fw).mode = fw.mode
      /\ Stopped(fw).todo = fw.todo /\ Stopped(fw).sent = fw.sent
      /\ Stopped(fw).headless = fw.headless
      /\ Stopped(fw).open = IF fw.recording THEN 0 ELSE fw.open
    BY <1>1 DEF Stopped, Firmwares
<1>6. Stopped(fw).open \in 0 .. Len(FilesAfter(len))
    <2>1. CASE fw.recording
        BY <2>1, <1>3, <1>5
    <2>2. CASE ~fw.recording
        BY <2>2, <1>4, <1>5
    <2> QED
        BY <2>1, <2>2
<1> QED
    BY <1>2, <1>4, <1>5, <1>6, <1>7

(* fs_open finds a file that is on the card, or none: the one with the      *)
(* number, unless it is hidden, or without one the file that is open or the *)
(* last.  After a search that does not format, it has come to the end of    *)
(* the files or to the one it looks for.                                    *)
LEMMA OpenIs ==
    ASSUME NEW f \in Firmwares, NEW c \in Cards, NEW fs \in Seq(Lengths),
           f.open \in 0 .. Len(fs), NEW n \in Nat
    PROVE  /\ FsOpen(f, c, fs, n) \in 0 .. Len(fs) /\ FsOpen(f, c, fs, n) \in Nat
           /\ Len(fs) \in Nat
           /\ n > 0 => FsOpen(f, c, fs, n) = IF Found(c, fs, n) THEN n ELSE 0
           /\ n = 0 => FsOpen(f, c, fs, n) = IF Quick(f, fs, 0) THEN f.open
                                             ELSE IF c.full THEN 0 ELSE Len(fs)
           /\ Quick(f, fs, n) => n = 0 /\ f.open > 0
           /\ Wipes(f, c, fs, n) => FsOpen(f, c, fs, n) = 0
           /\ ~Wipes(f, c, fs, n) /\ FsOpen(f, c, fs, n) = 0 => ~c.full
<1>1. (Quick(f, fs, n) => n = 0 /\ f.open > 0) /\ Len(fs) \in Nat
    BY DEF Quick
<1>2. Found(c, fs, n) => n > 0 /\ n \in 0 .. Len(fs)
    BY <1>1 DEF Found
<1>3. CASE n > 0
    <2>1. ~Quick(f, fs, n) /\ n # 0
        BY <1>1, <1>3
    <2>2. FsOpen(f, c, fs, n) = IF Found(c, fs, n) THEN n ELSE 0
        BY <2>1 DEF FsOpen
    <2>3. Wipes(f, c, fs, n) <=> c.full /\ ~Found(c, fs, n)
        BY <2>1 DEF Wipes
    <2> QED
        BY <1>1, <1>2, <1>3, <2>2, <2>3
<1>4. CASE n = 0
    <2>1. ~Found(c, fs, n)
        BY <1>2, <1>4
    <2>2. CASE Quick(f, fs, n)
        <3>1. FsOpen(f, c, fs, n) = f.open
            BY <2>1, <2>2 DEF FsOpen
        <3>2. ~Wipes(f, c, fs, n)
            BY <2>2 DEF Wipes
        <3> QED
            BY <1>1, <1>4, <2>2, <3>1, <3>2
    <2>3. CASE ~Quick(f, fs, n)
        <3>1. FsOpen(f, c, fs, n) = IF c.full THEN 0 ELSE Len(fs)
            BY <1>4, <2>1, <2>3 DEF FsOpen
        <3>2. Wipes(f, c, fs, n) <=> c.full
            BY <2>1, <2>3 DEF Wipes
        <3>3. c.full \in BOOLEAN
            BY DEF Cards
        <3> QED
            BY <1>1, <1>4, <2>3, <3>1, <3>2, <3>3
    <2> QED
        BY <2>2, <2>3
<1> QED
    BY <1>3, <1>4

-----------------------------------------------------------------------------
(* The steps of the firmware *)

(* An answer is the reply or what is left of it, at the cost of a fault. *)
LEMMA AnswerIs ==
    ASSUME TypeOK, NEW r \in Replies, Answer(r)
    PROVE  /\ to_host' \in Seq(Replies) /\ faults' \in Nat /\ faults' >= faults
           /\ \/ to_host' = Append(to_host, r) /\ faults' = faults
              \/ to_host' = Append(to_host, Cut(r)) /\ faults' = faults + 1
<1>1. to_host \in Seq(Replies) /\ faults \in Nat /\ Cut(r) \in Replies
    BY ReplyIs DEF TypeOK
<1>2. CASE Send(r) /\ UNCHANGED faults
    <2>1. to_host' = Append(to_host, r) /\ faults' = faults
        BY <1>2 DEF Send
    <2> QED
        BY <1>1, <2>1, AppendIs
<1>3. CASE faults < MAX_FAULTS /\ faults' = faults + 1 /\ Send(Cut(r))
    <2>1. to_host' = Append(to_host, Cut(r)) /\ faults' = faults + 1
        BY <1>3 DEF Send
    <2> QED
        BY <1>1, <2>1, AppendIs
<1> QED
    BY <1>2, <1>3 DEF Answer

(* The firmware is idle and has a request. *)
LEMMA HandlesIs ==
    ASSUME TypeOK, FileInv, NEW type, Handles(type)
    PROVE  /\ to_fw # <<>> /\ Head(to_fw) \in Requests /\ Head(to_fw).type = type
           /\ Head(to_fw) = to_fw[1] /\ Tail(to_fw) \in Seq(Requests) /\ Len(to_fw) > 0
           /\ fw.pc = "idle" /\ fw.todo = <<>> /\ fw.sent = <<>> /\ fw.headless = FALSE
<1>1. to_fw # <<>> /\ to_fw \in Seq(Requests) /\ fw.headless \in BOOLEAN
    BY FwFields DEF Handles, TypeOK
<1> QED
    BY <1>1, TailIs DEF Handles, FileInv

(* f, with card c and files fs, is what stop_sampling leaves. *)
Stops(f, c, fs) ==
    /\ f \in Firmwares /\ fs \in Seq(Lengths) /\ c \in Cards /\ f.open \in 0 .. Len(fs)
    /\ f.recording = FALSE /\ f.pc = "idle" /\ f.mode = fw.mode
    /\ f.todo = <<>> /\ f.sent = <<>> /\ f.headless = FALSE
    /\ fw.recording => f.open = 0
    /\ ~fw.recording => f.open = fw.open /\ fs = files /\ c = card

(* The firmware has opened file for a request and waits for the next one. *)
Opens(file) ==
    /\ fw' \in Firmwares /\ fw'.open = file /\ fw'.recording = FALSE
    /\ fw'.pc = "idle" /\ fw'.mode = fw.mode
    /\ fw'.todo = <<>> /\ fw'.sent = <<>> /\ fw'.headless = FALSE

LEMMA StopsIs ==
    ASSUME TypeOK, FileInv, fw.pc = "idle", NEW len \in RECORDED, NEW full \in BOOLEAN
    PROVE  Stops(Stopped(fw), CardAfter(full), FilesAfter(len))
<1>1. fw.open \in 0 .. Len(files) /\ fw.todo = <<>> /\ fw.sent = <<>> /\ fw.headless = FALSE
    BY FwFields DEF FileInv, TypeOK
<1> QED
    BY <1>1, StoppedIs DEF Stops

(* The card after a search: as it was, unless there was no file to open. *)
LEMMA CardStays ==
    ASSUME NEW f, NEW c, NEW fs, Stops(f, c, fs), NEW n \in Nat,
           Opening(f, c, fs, n) \/ CardIs(c, fs)
    PROVE  /\ files' \in Seq(Lengths) /\ Len(files') \in Nat /\ card' \in Cards
           /\ FsOpen(f, c, fs, n) \in 0 .. Len(files') /\ FsOpen(f, c, fs, n) \in Nat
           /\ FsOpen(f, c, fs, n) > 0 => CardIs(c, fs)
           /\ files' = fs \/ files' = <<>>
           /\ ~c.full => CardIs(c, fs)
           /\ Opening(f, c, fs, n) /\ FsOpen(f, c, fs, n) = 0 => ~card'.full
<1>1. /\ f \in Firmwares /\ fs \in Seq(Lengths) /\ c \in Cards /\ f.open \in 0 .. Len(fs)
      /\ Len(fs) \in Nat
    BY DEF Stops
<1>2. /\ FsOpen(f, c, fs, n) \in 0 .. Len(fs)
      /\ Wipes(f, c, fs, n) => FsOpen(f, c, fs, n) = 0
      /\ ~Wipes(f, c, fs, n) /\ FsOpen(f, c, fs, n) = 0 => ~c.full
    BY <1>1, OpenIs
<1>3. Wipes(f, c, fs, n) => c.full
    BY DEF Wipes
<1>4. CASE CardIs(c, fs)
    <2>1. files' = fs /\ card' = c
        BY <1>4 DEF CardIs
    <2>2. Opening(f, c, fs, n) /\ Wipes(f, c, fs, n) => card' = Formatted
        BY DEF Opening, CardIs
    <2>3. Formatted.full = FALSE
        BY DEF Formatted
    <2> QED
        BY <1>1, <1>2, <1>4, <2>1, <2>2, <2>3
<1>5. CASE Opening(f, c, fs, n) /\ Wipes(f, c, fs, n)
    <2>1. /\ files' = <<>> /\ files' \in Seq(Lengths) /\ Len(files') = 0
          /\ card' \in Cards /\ card'.full = FALSE
        BY <1>5, FormattedIs DEF Opening
    <2> QED
        BY <1>2, <1>3, <1>5, <2>1
<1>6. CASE Opening(f, c, fs, n) /\ ~Wipes(f, c, fs, n)
    <2>1. CardIs(c, fs)
        BY <1>6 DEF Opening
    <2> QED
        BY <1>4, <2>1
<1> QED
    BY <1>4, <1>5, <1>6

LEMMA GetRtcIs ==
    ASSUME TypeOK, FileInv, FwGetRtc
    PROVE  /\ Handles("GET_RTC") /\ to_fw' = Tail(to_fw)
           /\ faults' \in Nat /\ faults' >= faults
           /\ \E f \in Firmwares, c \in Cards, fs \in Seq(Lengths), r \in Replies :
                 LET q    == Head(to_fw).file
                     file == FsOpen(f, c, fs, q)
                 IN  /\ Stops(f, c, fs) /\ to_host' = Append(to_host, r)
                     /\ \/ /\ Opening(f, c, fs, q) /\ Opens(file)
                           /\ \/ faults' > faults /\ r.type = "cut"
                              \/ faults' = faults /\ r.type = "rtc" /\ r.num = file
                        \/ /\ CardIs(c, fs) /\ Opens(0) /\ ~Quick(f, fs, q)
                           /\ faults' > faults /\ r.type = "rtc" /\ r.num = 0
<1> DEFINE f    == Stopped(fw)
           q    == Head(to_fw).file
<1>1. PICK len \in RECORDED, full \in BOOLEAN :
         LET fs   == FilesAfter(len)
             c    == CardAfter(full)
             file == FsOpen(f, c, fs, q)
         IN  \/ /\ Answer(Reply("rtc", "", file, <<>>))
                /\ Opening(f, c, fs, q) /\ fw' = [f EXCEPT !.open = file]
             \/ /\ faults < MAX_FAULTS /\ faults' = faults + 1
                /\ ~Quick(f, fs, q) /\ CardIs(c, fs)
                /\ Send(Reply("rtc", "", 0, <<>>))
                /\ fw' = [f EXCEPT !.open = 0]
    BY DEF FwGetRtc
<1> DEFINE fs   == FilesAfter(len)
           c    == CardAfter(full)
           file == FsOpen(f, c, fs, q)
<1>2. Handles("GET_RTC") /\ to_fw' = Tail(to_fw) /\ fw.pc = "idle"
    BY DEF FwGetRtc, Handles
<1>3. Stops(f, c, fs)
    BY <1>2, StopsIs
<1>4. q \in Nat
    BY <1>2, HandlesIs, RequestFields
<1>5. file \in Nat
    <2>1. f \in Firmwares /\ fs \in Seq(Lengths) /\ c \in Cards /\ f.open \in 0 .. Len(fs)
        BY <1>3 DEF Stops
    <2> HIDE DEF f, fs, c, q
    <2> QED
        BY <1>4, <2>1, OpenIs
<1>6. \A n \in Nat : /\ Reply("rtc", "", n, <<>>) \in Replies
                    /\ Reply("rtc", "", n, <<>>).type = "rtc"
                    /\ Reply("rtc", "", n, <<>>).num = n
    <2>1. "rtc" \in ReplyTypes /\ "" \in Ofs /\ <<>> \in Data
        BY NoData DEF ReplyTypes, Ofs
    <2> QED
        BY <2>1 DEF Reply, Replies
<1>7. \A n \in Nat : fw' = [f EXCEPT !.open = n] => Opens(n)
    BY <1>3 DEF Stops, Opens, Firmwares
<1>8. f \in Firmwares /\ c \in Cards /\ fs \in Seq(Lengths) /\ faults \in Nat
    BY <1>3 DEF Stops, TypeOK
<1>9. CASE /\ Answer(Reply("rtc", "", file, <<>>))
           /\ Opening(f, c, fs, q) /\ fw' = [f EXCEPT !.open = file]
    <2>1. Opens(file)
        BY <1>5, <1>7, <1>9
    <2>2. PICK r \in Replies : r = Reply("rtc", "", file, <<>>) /\ r.type = "rtc" /\ r.num = file
        BY <1>5, <1>6
    <2>5. Opening(f, c, fs, q)
        BY <1>9
    <2> HIDE DEF f, q, file, c, fs
    <2>3. /\ faults' \in Nat /\ faults' >= faults
          /\ \/ to_host' = Append(to_host, r) /\ faults' = faults
             \/ to_host' = Append(to_host, Cut(r)) /\ faults' = faults + 1
        BY <1>9, <2>2, AnswerIs
    <2>4. faults' = faults + 1 => faults' > faults
        BY <1>8, <2>3
    <2>6. Cut(r) \in Replies /\ Cut(r).type = "cut"
        BY ReplyIs
    <2> QED
        BY <1>2, <1>3, <1>8, <2>1, <2>2, <2>3, <2>4, <2>5, <2>6 DEF file, q
<1>10. CASE /\ faults < MAX_FAULTS /\ faults' = faults + 1
            /\ ~Quick(f, fs, q) /\ CardIs(c, fs)
            /\ Send(Reply("rtc", "", 0, <<>>))
            /\ fw' = [f EXCEPT !.open = 0]
    <2>1. Opens(0)
        BY <1>7, <1>10
    <2>2. PICK r \in Replies : r = Reply("rtc", "", 0, <<>>) /\ r.type = "rtc" /\ r.num = 0
        BY <1>6
    <2>3. faults' \in Nat /\ faults' >= faults /\ faults' > faults
        <3>1. faults' = faults + 1 /\ faults \in Nat
            BY <1>8, <1>10
        <3> QED
            BY ONLY <3>1
    <2>4. to_host' = Append(to_host, r)
        BY <1>10, <2>2 DEF Send
    <2> HIDE DEF f, file, c, fs
    <2> QED
        BY <1>2, <1>3, <1>8, <1>10, <2>1, <2>2, <2>3, <2>4 DEF file, q
<1> QED
    BY <1>1, <1>9, <1>10

(* The firmware starts on frame seq of the file. *)
Starts(file, seq) ==
    /\ fw' \in Firmwares /\ fw'.open = file /\ fw'.recording = FALSE
    /\ fw'.pc = "send" /\ fw'.mode = fw.mode /\ fw'.seq = seq
    /\ fw'.todo = Frame(file, files'[file], seq) /\ fw'.sent = <<>> /\ fw'.headless = FALSE

LEMMA ReadIs ==
    ASSUME TypeOK, FileInv, FwRead
    PROVE  /\ Handles("READ_SD_UART") /\ to_fw' = Tail(to_fw) /\ to_host' \in Seq(Replies)
           /\ faults' \in Nat /\ faults' >= faults
           /\ \E f \in Firmwares, c \in Cards, fs \in Seq(Lengths) :
                 LET q    == Head(to_fw).file
                     seq  == Head(to_fw).seq
                     file == FsOpen(f, c, fs, q)
                 IN  /\ Stops(f, c, fs)
                     /\ \/ /\ Opening(f, c, fs, q) /\ Opens(file)
                           /\ file > 0 => Frame(file, files'[file], seq) = <<>>
                           /\ \/ /\ faults' > faults
                                 /\ \E r \in Replies : r.type = "cut"
                                                     /\ to_host' = Append(to_host, r)
                              \/ to_host' = Append(to_host,
                                              Reply("frame", "", EofSeqnum(file, seq), <<>>))
                                 /\ faults' = faults
                        \/ /\ CardIs(c, fs) /\ Starts(file, seq) /\ file > 0 /\ faults' = faults
                           /\ to_host' = to_host
                        \/ /\ CardIs(c, fs) /\ Opens(0) /\ ~Quick(f, fs, q) /\ faults' > faults
                           /\ to_host' = Append(to_host, Reply("frame", "", 0, <<>>))
                        \/ /\ CardIs(c, fs) /\ Opens(f.open) /\ faults' > faults
                           /\ to_host' = to_host
<1> DEFINE f    == Stopped(fw)
           q    == Head(to_fw).file
           seq  == Head(to_fw).seq
           eof(n) == Reply("frame", "", EofSeqnum(n, seq), <<>>)
<1>1. PICK len \in RECORDED, full \in BOOLEAN :
         LET fs   == FilesAfter(len)
             c    == CardAfter(full)
             file == FsOpen(f, c, fs, q)
             todo == IF file = 0 THEN <<>> ELSE Frame(file, fs[file], seq)
         IN  \/ /\ todo = <<>> /\ Answer(eof(file))
                /\ Opening(f, c, fs, q) /\ fw' = [f EXCEPT !.open = file]
             \/ /\ todo # <<>> /\ UNCHANGED <<to_host, faults>>
                /\ CardIs(c, fs)
                /\ fw' = [f EXCEPT !.open = file, !.pc = "send", !.seq = seq,
                                   !.todo = todo, !.sent = <<>>]
             \/ /\ faults < MAX_FAULTS /\ faults' = faults + 1
                /\ CardIs(c, fs)
                /\ \/ ~Quick(f, fs, q) /\ Send(eof(0)) /\ fw' = [f EXCEPT !.open = 0]
                   \/ UNCHANGED to_host /\ fw' = f
    BY DEF FwRead
<1> DEFINE fs   == FilesAfter(len)
           c    == CardAfter(full)
           file == FsOpen(f, c, fs, q)
           todo == IF file = 0 THEN <<>> ELSE Frame(file, fs[file], seq)
<1>2. Handles("READ_SD_UART") /\ to_fw' = Tail(to_fw) /\ fw.pc = "idle"
    BY DEF FwRead, Handles
<1>3. Stops(f, c, fs)
    BY <1>2, StopsIs
<1>4. q \in Nat /\ seq \in Nat
    BY <1>2, HandlesIs, RequestFields
<1>5. file \in 0 .. Len(fs) /\ file \in Nat /\ todo \in Data
    <2>1. f \in Firmwares /\ fs \in Seq(Lengths) /\ c \in Cards /\ f.open \in 0 .. Len(fs)
        BY <1>3 DEF Stops
    <2> HIDE DEF f, q, seq, c, fs
    <2>2. file \in 0 .. Len(fs) /\ file \in Nat /\ Len(fs) \in Nat
        BY <1>4, <2>1, OpenIs
    <2> HIDE DEF file
    <2>3. file # 0 => fs[file] \in Lengths
        BY <2>1, <2>2
    <2> QED
        BY <1>4, <2>2, <2>3, NoData, FrameIs
<1>6. \A n \in Nat : eof(n) \in Replies
    <2>1. "frame" \in ReplyTypes /\ "" \in Ofs /\ <<>> \in Data
        BY NoData DEF ReplyTypes, Ofs
    <2> QED
        BY <1>4, <2>1 DEF Reply, Replies, EofSeqnum
<1>7. \A n \in Nat : fw' = [f EXCEPT !.open = n] => Opens(n)
    BY <1>3 DEF Stops, Opens, Firmwares
<1>8. /\ f \in Firmwares /\ c \in Cards /\ fs \in Seq(Lengths)
      /\ faults \in Nat /\ to_host \in Seq(Replies)
    BY <1>3 DEF Stops, TypeOK
<1> DEFINE Goal ==
       /\ faults' \in Nat /\ faults' >= faults /\ to_host' \in Seq(Replies)
       /\ \/ /\ Opening(f, c, fs, q) /\ Opens(file)
             /\ file > 0 => Frame(file, files'[file], seq) = <<>>
             /\ \/ /\ faults' > faults
                   /\ \E r \in Replies : r.type = "cut" /\ to_host' = Append(to_host, r)
                \/ to_host' = Append(to_host, eof(file)) /\ faults' = faults
          \/ /\ CardIs(c, fs) /\ Starts(file, seq) /\ file > 0 /\ faults' = faults
             /\ to_host' = to_host
          \/ /\ CardIs(c, fs) /\ Opens(0) /\ ~Quick(f, fs, q) /\ faults' > faults
             /\ to_host' = Append(to_host, eof(0))
          \/ /\ CardIs(c, fs) /\ Opens(f.open) /\ faults' > faults /\ to_host' = to_host
<1>9. ASSUME todo = <<>>, Answer(eof(file)), Opening(f, c, fs, q),
             fw' = [f EXCEPT !.open = file]
      PROVE  Goal
    <2>1. Opens(file)
        BY <1>5, <1>7, <1>9
    <2>2. file > 0 => Frame(file, files'[file], seq) = <<>>
        <3>1. todo = <<>> /\ Opening(f, c, fs, q)
            BY <1>9
        <3> HIDE DEF f, c, fs, q, seq
        <3>2. file > 0 => CardIs(c, fs)
            BY <1>3, <1>4, <3>1, CardStays
        <3> HIDE DEF file
        <3> QED
            BY <3>1, <3>2 DEF CardIs
    <2>3. eof(file) \in Replies
        BY <1>5, <1>6
    <2>4. /\ faults' \in Nat /\ faults' >= faults /\ to_host' \in Seq(Replies)
          /\ \/ to_host' = Append(to_host, eof(file)) /\ faults' = faults
             \/ to_host' = Append(to_host, Cut(eof(file))) /\ faults' = faults + 1
        BY <1>9, <2>3, AnswerIs
    <2>5. faults' = faults + 1 => faults' > faults
        <3>1. faults \in Nat
            BY <1>8
        <3> QED
            BY ONLY <3>1
    <2>6. Cut(eof(file)) \in Replies /\ Cut(eof(file)).type = "cut"
        BY <2>3, ReplyIs
    <2>7. Opening(f, c, fs, q)
        BY <1>9
    <2> HIDE DEF f, q, seq, file, eof, c, fs
    <2> QED
        BY <2>1, <2>2, <2>4, <2>5, <2>6, <2>7
<1>10. ASSUME todo # <<>>, UNCHANGED <<to_host, faults>>, CardIs(c, fs),
              fw' = [f EXCEPT !.open = file, !.pc = "send", !.seq = seq,
                              !.todo = todo, !.sent = <<>>]
       PROVE  Goal
    <2>1. file > 0 /\ todo = Frame(file, fs[file], seq)
        BY <1>5, <1>10
    <2>4. files' = fs
        BY <1>10 DEF CardIs
    <2>2. Starts(file, seq)
        <3>1. /\ f \in Firmwares /\ f.recording = FALSE /\ f.mode = fw.mode
              /\ f.headless = FALSE
            BY <1>3 DEF Stops
        <3> HIDE DEF f, seq, file, todo, c, fs
        <3> QED
            BY <1>4, <1>5, <1>10, <2>1, <2>4, <3>1, NoData DEF Starts, Firmwares
    <2>3. to_host' = to_host /\ faults' = faults /\ CardIs(c, fs)
        BY <1>10
    <2> HIDE DEF f, q, seq, file, eof, c, fs
    <2> QED
        BY <1>8, <2>1, <2>2, <2>3
<1>11. ASSUME faults < MAX_FAULTS, faults' = faults + 1, CardIs(c, fs),
              \/ ~Quick(f, fs, q) /\ Send(eof(0)) /\ fw' = [f EXCEPT !.open = 0]
              \/ UNCHANGED to_host /\ fw' = f
       PROVE  Goal
    <2>2. faults' \in Nat /\ faults' >= faults /\ faults' > faults
        <3>1. faults' = faults + 1 /\ faults \in Nat
            BY <1>8, <1>11
        <3> QED
            BY ONLY <3>1
    <2>3. eof(0) \in Replies
        BY <1>6
    <2>7. CardIs(c, fs)
        BY <1>11
    <2>4. CASE ~Quick(f, fs, q) /\ Send(eof(0)) /\ fw' = [f EXCEPT !.open = 0]
        <3>1. Opens(0)
            BY <1>7, <2>4
        <3> HIDE DEF f, file, eof, c, fs, q, seq
        <3>2. to_host' = Append(to_host, eof(0))
            BY <2>4 DEF Send
        <3>3. to_host' \in Seq(Replies)
            BY <1>8, <2>3, <3>2, AppendIs
        <3> QED
            BY <2>2, <2>4, <2>7, <3>1, <3>2, <3>3
    <2>5. CASE UNCHANGED to_host /\ fw' = f
        <3>1. Opens(f.open)
            BY <1>3, <2>5 DEF Opens, Stops
        <3> HIDE DEF f, file, eof, c, fs, q, seq
        <3> QED
            BY <1>8, <2>2, <2>5, <2>7, <3>1
    <2> QED
        BY <1>11, <2>4, <2>5
<1>12. Goal
    BY <1>1, <1>9, <1>10, <1>11
<1>13. eof(0) = Reply("frame", "", 0, <<>>)
    BY DEF EofSeqnum
<1> HIDE DEF f, c, fs
<1> QED
    BY <1>2, <1>3, <1>8, <1>12, <1>13

(* What it has opened then. *)
LEMMA ReadOpens ==
    ASSUME TypeOK, FileInv, FwRead
    PROVE  \E f \in Firmwares, c \in Cards, fs \in Seq(Lengths) :
              LET q    == Head(to_fw).file
                  file == FsOpen(f, c, fs, q)
              IN  /\ Stops(f, c, fs)
                  /\ \/ Opening(f, c, fs, q) /\ Opens(file)
                     \/ CardIs(c, fs) /\ (Opens(0) \/ Opens(f.open))
                     \/ CardIs(c, fs) /\ Starts(file, Head(to_fw).seq) /\ file > 0
<1> DEFINE q   == Head(to_fw).file
           seq == Head(to_fw).seq
<1>1. PICK f \in Firmwares, c \in Cards, fs \in Seq(Lengths) :
         LET file == FsOpen(f, c, fs, q) IN
         /\ Stops(f, c, fs)
         /\ \/ /\ Opening(f, c, fs, q) /\ Opens(file)
               /\ file > 0 => Frame(file, files'[file], seq) = <<>>
               /\ \/ /\ faults' > faults
                     /\ \E r \in Replies : r.type = "cut"
                                         /\ to_host' = Append(to_host, r)
                  \/ to_host' = Append(to_host,
                                  Reply("frame", "", EofSeqnum(file, seq), <<>>))
                     /\ faults' = faults
            \/ /\ CardIs(c, fs) /\ Starts(file, seq) /\ file > 0 /\ faults' = faults
               /\ to_host' = to_host
            \/ /\ CardIs(c, fs) /\ Opens(0) /\ ~Quick(f, fs, q) /\ faults' > faults
               /\ to_host' = Append(to_host, Reply("frame", "", 0, <<>>))
            \/ /\ CardIs(c, fs) /\ Opens(f.open) /\ faults' > faults
               /\ to_host' = to_host
    BY ReadIs
<1>2. \/ Opening(f, c, fs, q) /\ Opens(FsOpen(f, c, fs, q))
      \/ CardIs(c, fs) /\ (Opens(0) \/ Opens(f.open))
      \/ CardIs(c, fs) /\ Starts(FsOpen(f, c, fs, q), seq) /\ FsOpen(f, c, fs, q) > 0
    BY <1>1
<1> QED
    BY <1>1, <1>2

(* The answers without a file: one reply, and the firmware stays idle. *)
LEMMA TellIs ==
    ASSUME TypeOK, FileInv, FwTell
    PROVE  /\ to_fw' = Tail(to_fw) /\ fw' = fw /\ files' = files /\ card' = card
           /\ faults' \in Nat /\ faults' >= faults
           /\ \/ Handles("GET_GIT_HASH") \/ Handles("READ_EEPROM")
           /\ \E r \in Replies :
                 /\ to_host' = Append(to_host, r)
                 /\ \/ r.type = "cut" /\ faults' = faults + 1
                    \/ r.type = "hash" /\ Handles("GET_GIT_HASH") /\ faults' = faults
                    \/ r.type = "eeprom" /\ Handles("READ_EEPROM") /\ faults' = faults
<1>1. to_fw' = Tail(to_fw) /\ fw' = fw /\ files' = files /\ card' = card
    BY DEF FwTell
<1>2. \A type \in {"hash", "eeprom"} :
         /\ Reply(type, "", 0, <<>>) \in Replies /\ Reply(type, "", 0, <<>>).type = type
    BY NoData DEF Reply, Replies, ReplyTypes, Ofs
<1>3. \A r \in Replies : Cut(r) \in Replies /\ Cut(r).type = "cut"
    BY ReplyIs
<1>4. CASE Handles("GET_GIT_HASH") /\ Answer(Reply("hash", "", 0, <<>>))
    <2>1. PICK r \in Replies : r = Reply("hash", "", 0, <<>>) /\ r.type = "hash"
        BY <1>2
    <2> QED
        BY <1>1, <1>3, <1>4, <2>1, AnswerIs
<1>5. CASE Handles("READ_EEPROM") /\ Answer(Reply("eeprom", "", 0, <<>>))
    <2>1. PICK r \in Replies : r = Reply("eeprom", "", 0, <<>>) /\ r.type = "eeprom"
        BY <1>2
    <2> QED
        BY <1>1, <1>3, <1>5, <2>1, AnswerIs
<1> QED
    BY <1>4, <1>5 DEF FwTell

(* An ack, or what is left of it; what was received meanwhile is gone. *)
AckSent(type) ==
    /\ to_fw' = <<>> /\ faults' \in Nat /\ faults' >= faults
    /\ \E r \in Replies :
          /\ to_host' = Append(to_host, r)
          /\ \/ r.type = "cut" /\ faults' = faults + 1
             \/ r.type = "ack" /\ r.of = type /\ faults' = faults

LEMMA AckIs ==
    ASSUME TypeOK, NEW type \in Types, NEW value \in Nat, Ack(type, value)
    PROVE  AckSent(type)
<1>1. PICK r \in Replies :
         r = Reply("ack", type, value, <<>>) /\ r.type = "ack" /\ r.of = type
    <2>1. /\ Reply("ack", type, value, <<>>) \in Replies
          /\ Reply("ack", type, value, <<>>).type = "ack"
          /\ Reply("ack", type, value, <<>>).of = type
        BY NoData DEF Reply, Replies, ReplyTypes, Ofs
    <2> QED
        BY <2>1
<1>2. Cut(r) \in Replies /\ Cut(r).type = "cut"
    BY ReplyIs
<1>3. to_fw' = <<>> /\ Answer(r)
    BY <1>1 DEF Ack
<1> QED
    BY <1>1, <1>2, <1>3, AnswerIs DEF AckSent

LEMMA SetIs ==
    ASSUME TypeOK, FileInv, FwSet
    PROVE  /\ fw' = fw /\ files' = files /\ card' = card
           /\ \E type \in {"SET_RTC", "GAIN_SET", "GET_MODE_PORTABLE"} :
                 Handles(type) /\ AckSent(type)
<1>1. fw' = fw /\ files' = files /\ card' = card
    BY DEF FwSet
<1>2. "SET_RTC" \in Types /\ "GAIN_SET" \in Types /\ "GET_MODE_PORTABLE" \in Types
    BY DEF Types, Acked
<1>3. CASE \E type \in {"SET_RTC", "GAIN_SET"} : Handles(type) /\ Ack(type, 0)
    BY <1>1, <1>2, <1>3, AckIs
<1>4. CASE /\ Handles("GET_MODE_PORTABLE")
           /\ Ack("GET_MODE_PORTABLE", IF fw.mode = "portable" THEN 1 ELSE 0)
    <2>1. PICK v \in Nat : Ack("GET_MODE_PORTABLE", v)
        <3> DEFINE v == IF fw.mode = "portable" THEN 1 ELSE 0
        <3>1. v \in Nat
            OBVIOUS
        <3> QED
            BY <1>4, <3>1
    <2>2. AckSent("GET_MODE_PORTABLE")
        BY <1>2, <2>1, AckIs
    <2> QED
        BY <1>1, <1>4, <2>2
<1> QED
    BY <1>3, <1>4 DEF FwSet

(* A boot, on the card as it was or without files. *)
Boots ==
    /\ fw' \in Firmwares /\ fw'.open = Len(files') /\ fw'.pc = "idle"
    /\ fw'.todo = <<>> /\ fw'.sent = <<>> /\ fw'.headless = FALSE
    /\ fw'.recording = FALSE
    /\ files' \in Seq(Lengths) /\ card' \in Cards
    /\ to_fw' = <<>> /\ to_host' = to_host

LEMMA ResetIs ==
    ASSUME TypeOK, Reset
    PROVE  Boots
<1>1. files \in Seq(Lengths) /\ card \in Cards
    BY DEF TypeOK
<1>2. files' \in Seq(Lengths) /\ card' \in Cards
    <2>1. CASE card.full
        BY <2>1, FormattedIs DEF Reset
    <2>2. CASE ~card.full
        BY <1>1, <2>2 DEF Reset
    <2> QED
        BY <2>1, <2>2
<1> DEFINE mode == IF card.portable THEN "portable" ELSE "usb"
<1>3. mode \in {"usb", "portable"} /\ fw' = FwBooted(mode, files')
    BY DEF Reset
<1> HIDE DEF mode
<1> QED
    BY <1>2, <1>3, BootedIs DEF Reset, Boots

LEMMA InitStepIs ==
    ASSUME TypeOK, FileInv, FwInit
    PROVE  /\ Handles("INIT")
           /\ fw' \in Firmwares /\ fw'.pc = "idle" /\ fw'.todo = <<>> /\ fw'.sent = <<>>
           /\ fw'.headless = FALSE
           /\ \/ Boots /\ faults' = faults
              \/ AckSent("INIT") /\ fw'.open = fw.open /\ files' = files /\ card' = card
<1>1. Handles("INIT")
    BY DEF FwInit
<1>2. CASE Reset /\ UNCHANGED faults
    BY <1>1, <1>2, ResetIs DEF Boots
<1>3. CASE Ack("INIT", 0) /\ fw' = [fw EXCEPT !.inited = TRUE] /\ UNCHANGED <<files, card>>
    <2>1. AckSent("INIT")
        BY <1>3, AckIs DEF Types, Acked
    <2>2. fw \in Firmwares
        BY DEF TypeOK
    <2>3. fw.pc = "idle" /\ fw.todo = <<>> /\ fw.sent = <<>> /\ fw.headless = FALSE
        BY <1>1, HandlesIs
    <2>4. /\ fw' \in Firmwares /\ fw'.pc = fw.pc /\ fw'.todo = fw.todo /\ fw'.sent = fw.sent
          /\ fw'.headless = fw.headless /\ fw'.open = fw.open
        BY <1>3, <2>2 DEF Firmwares
    <2> QED
        BY <1>1, <1>3, <2>1, <2>3, <2>4
<1> QED
    BY <1>2, <1>3 DEF FwInit

LEMMA StartStepIs ==
    ASSUME TypeOK, FileInv, FwStart
    PROVE  /\ Handles("START_SAMPLING_SD") /\ files' \in Seq(Lengths) /\ card' \in Cards
           /\ fw' \in Firmwares /\ fw'.pc = "idle" /\ fw'.todo = <<>> /\ fw'.sent = <<>>
           /\ fw'.headless = FALSE
           /\ \/ Boots /\ faults' = faults
              \/ AckSent("START_SAMPLING_SD") /\ fw'.open = 0
<1>1. Handles("START_SAMPLING_SD")
    BY DEF FwStart
<1>2. CASE Reset /\ UNCHANGED faults
    BY <1>1, <1>2, ResetIs DEF Boots
<1>3. CASE /\ Ack("START_SAMPLING_SD", 0)
           /\ fw' = [fw EXCEPT !.mode = "usb", !.recording = TRUE, !.open = 0]
           /\ IF fw.mode = "portable" \/ card.full THEN CardIs(Formatted, <<>>)
              ELSE UNCHANGED <<card, files>>
    <2>1. AckSent("START_SAMPLING_SD")
        BY <1>3, AckIs DEF Types, Acked
    <2>2. fw \in Firmwares /\ files \in Seq(Lengths) /\ card \in Cards
        BY DEF TypeOK
    <2>3. fw.pc = "idle" /\ fw.todo = <<>> /\ fw.sent = <<>> /\ fw.headless = FALSE
        BY <1>1, HandlesIs
    <2>4. /\ fw' \in Firmwares /\ fw'.pc = fw.pc /\ fw'.todo = fw.todo /\ fw'.sent = fw.sent
          /\ fw'.headless = fw.headless /\ fw'.open = 0
        BY <1>3, <2>2 DEF Firmwares
    <2>5. files' \in Seq(Lengths) /\ card' \in Cards
        <3>1. CASE fw.mode = "portable" \/ card.full
            BY <1>3, <3>1, FormattedIs
        <3>2. CASE ~(fw.mode = "portable" \/ card.full)
            BY <1>3, <2>2, <3>2
        <3> QED
            BY <3>1, <3>2
    <2> QED
        BY <1>1, <2>1, <2>3, <2>4, <2>5
<1> QED
    BY <1>2, <1>3 DEF FwStart

(* A halt while recording. *)
LEMMA HaltIs ==
    ASSUME TypeOK, FwHalt
    PROVE  /\ Boots /\ fw.recording /\ fw.pc = "idle" /\ host' = host /\ sessions' = sessions
           /\ faults' \in Nat /\ faults' = faults + 1 /\ faults' > faults
<1>1. Boots
    BY ResetIs DEF FwHalt
<1>2. faults \in Nat /\ faults' = faults + 1
    BY DEF FwHalt, TypeOK
<1>3. faults' \in Nat /\ faults' > faults
    BY ONLY <1>2
<1> QED
    BY <1>1, <1>2, <1>3 DEF FwHalt

LEMMA SendBufferIs ==
    ASSUME TypeOK, FileInv, FwSendBuffer
    PROVE  /\ fw.pc = "send" /\ fw' \in Firmwares /\ fw'.open = fw.open /\ fw'.pc = "send"
           /\ fw'.recording = fw.recording /\ fw'.seq = fw.seq
           /\ fw'.headless = fw.headless /\ fw'.sent # <<>>
           /\ fw'.sent \o fw'.todo = fw.sent \o fw.todo
           /\ files' = files /\ card' = card
           /\ to_fw' = to_fw /\ to_host' = to_host /\ faults' = faults
<1>1. fw \in Firmwares /\ fw.todo # <<>> /\ fw.todo \in Data /\ fw.sent \in Data
    BY FwFields DEF TypeOK, FwSendBuffer
<1>2. /\ Tail(fw.todo) \in Data /\ Append(fw.sent, Head(fw.todo)) \in Data
      /\ Append(fw.sent, Head(fw.todo)) # <<>>
      /\ Append(fw.sent, Head(fw.todo)) \o Tail(fw.todo) = fw.sent \o fw.todo
    <2> DEFINE S == Nat \X Nat
               s == fw.sent
               t == fw.todo
    <2>1. s \in Seq(S) /\ t \in Seq(S) /\ t # <<>>
        BY <1>1 DEF Data
    <2> HIDE DEF S, s, t
    <2>2. Tail(t) \in Seq(S) /\ Append(s, Head(t)) \in Seq(S) /\ Append(s, Head(t)) # <<>>
        BY <2>1
    <2>3. Append(s, Head(t)) \o Tail(t) = s \o t
        BY <2>1
    <2> QED
        BY <2>2, <2>3 DEF S, s, t, Data
<1>3. fw' = [fw EXCEPT !.todo = Tail(fw.todo), !.sent = Append(fw.sent, Head(fw.todo))]
    BY DEF FwSendBuffer
<1>4. /\ fw' \in Firmwares /\ fw'.open = fw.open /\ fw'.pc = fw.pc
      /\ fw'.recording = fw.recording /\ fw'.seq = fw.seq /\ fw'.headless = fw.headless
      /\ fw'.todo = Tail(fw.todo) /\ fw'.sent = Append(fw.sent, Head(fw.todo))
    <2> HIDE DEF Data
    <2> QED
        BY <1>1, <1>2, <1>3 DEF Firmwares
<1> QED
    BY <1>2, <1>4 DEF FwSendBuffer

(* The frame is done with. *)
Sends ==
    /\ fw.pc = "send"
    /\ fw' \in Firmwares /\ fw'.open = fw.open /\ fw'.recording = fw.recording
    /\ fw'.pc = "idle" /\ fw'.todo = <<>> /\ fw'.sent = <<>> /\ fw'.headless = FALSE
    /\ files' = files /\ card' = card /\ to_fw' = to_fw

LEMMA SendDoneIs ==
    ASSUME TypeOK, fw.pc = "send", fw' = SendDone, files' = files, card' = card,
           to_fw' = to_fw
    PROVE  Sends
<1>1. fw \in Firmwares
    BY DEF TypeOK
<1> HIDE DEF Data
<1> QED
    BY <1>1, NoData DEF SendDone, Firmwares, Sends

LEMMA AbortIs ==
    ASSUME TypeOK, FileInv, FwAbort
    PROVE  /\ Sends /\ faults' \in Nat /\ faults' >= faults
           /\ \/ to_host' = to_host
              \/ \E r \in Replies : r.type = "cut" /\ to_host' = Append(to_host, r)
<1>1. Sends
    BY SendDoneIs DEF FwAbort
<1>2. faults' \in Nat /\ faults' >= faults
    BY DEF FwAbort, TypeOK
<1> DEFINE broken == Reply("cut", "frame", 0, <<>>)
<1>3. to_host' = to_host \/ to_host' = Append(to_host, broken)
    BY DEF FwAbort
<1>4. broken \in Replies /\ broken.type = "cut"
    <2>1. "cut" \in ReplyTypes /\ "frame" \in Ofs /\ 0 \in Nat
        BY DEF ReplyTypes, Ofs
    <2> QED
        BY <2>1, NoData DEF Reply, Replies
<1> HIDE DEF broken
<1> QED
    BY <1>1, <1>2, <1>3, <1>4

LEMMA SendEndIs ==
    ASSUME TypeOK, FileInv, FwSendEnd
    PROVE  /\ Sends /\ faults' \in Nat /\ faults' >= faults
           /\ \E r \in Replies :
                 /\ to_host' = Append(to_host, r)
                 /\ \/ r.type = "cut" \/ r = STRAY
                    \/ /\ ~fw.headless /\ r.type = "frame" /\ r.num = fw.seq
                       /\ r.data = Frame(fw.open, files[fw.open], fw.seq)
<1>1. Sends
    BY SendDoneIs DEF FwSendEnd
<1>2. fw.todo = <<>> /\ fw.pc = "send" /\ fw.sent \in Data /\ fw.seq \in Nat
    BY FwFields DEF FwSendEnd, TypeOK
<1>3. fw.sent = Frame(fw.open, files[fw.open], fw.seq)
    <2>1. fw.sent \o <<>> = fw.sent
        BY <1>2 DEF Data
    <2> QED
        BY <1>2, <2>1 DEF FileInv
<1>4. CASE fw.headless
    <2>1. to_host' = Append(to_host, STRAY) /\ faults' = faults
        BY <1>4 DEF FwSendEnd, Send
    <2>2. faults \in Nat /\ STRAY \in Replies
        BY ReplyIs DEF TypeOK
    <2> QED
        BY <1>1, <2>1, <2>2
<1>5. CASE ~fw.headless
    <2>1. PICK r \in Replies :
             r = Reply("frame", "", fw.seq, fw.sent)
             /\ r.type = "frame" /\ r.num = fw.seq /\ r.data = fw.sent
        <3>1. /\ Reply("frame", "", fw.seq, fw.sent) \in Replies
              /\ Reply("frame", "", fw.seq, fw.sent).type = "frame"
              /\ Reply("frame", "", fw.seq, fw.sent).num = fw.seq
              /\ Reply("frame", "", fw.seq, fw.sent).data = fw.sent
            BY <1>2 DEF Reply, Replies, ReplyTypes, Ofs
        <3> QED
            BY <3>1
    <2>2. Answer(r)
        BY <1>5, <2>1 DEF FwSendEnd
    <2>3. /\ faults' \in Nat /\ faults' >= faults
          /\ to_host' = Append(to_host, r) \/ to_host' = Append(to_host, Cut(r))
        BY <2>1, <2>2, AnswerIs
    <2>4. Cut(r) \in Replies /\ Cut(r).type = "cut"
        BY <2>1, ReplyIs
    <2>5. r.data = Frame(fw.open, files[fw.open], fw.seq)
        BY <1>3, <2>1
    <2> QED
        BY <1>1, <1>5, <2>1, <2>3, <2>4, <2>5
<1> QED
    BY <1>4, <1>5

(* What is received grows and shrinks within its type. *)
LEMMA LinkTypes ==
    ASSUME TypeOK
    PROVE  /\ \A r \in Replies : Append(to_host, r) \in Seq(Replies)
           /\ to_fw # <<>> => Tail(to_fw) \in Seq(Requests)
           /\ <<>> \in Seq(Requests) /\ <<>> \in Seq(Replies) /\ <<>> \in Seq(Lengths)
<1>1. to_host \in Seq(Replies) /\ to_fw \in Seq(Requests)
    BY DEF TypeOK
<1> QED
    BY <1>1, AppendIs, TailIs, EmptyIs

LEMMA LinkLengths ==
    ASSUME TypeOK
    PROVE  /\ to_fw \in Seq(Requests) /\ to_host \in Seq(Replies)
           /\ Len(to_fw) \in Nat /\ Len(to_host) \in Nat
<1>1. to_fw \in Seq(Requests) /\ to_host \in Seq(Replies)
    BY DEF TypeOK
<1> QED
    BY ONLY <1>1

(* The types, and the file that is being sent, through a step of the        *)
(* firmware.                                                                *)
LEMMA BootKeepsTypes ==
    ASSUME TypeOK, Boots, host' = host, sessions' = sessions, faults' \in Nat
    PROVE  TypeOK' /\ FileInv'
<1>1. /\ files' \in Seq(Lengths) /\ card' \in Cards /\ fw' \in Firmwares
      /\ fw'.open = Len(files') /\ fw'.pc = "idle" /\ fw'.todo = <<>> /\ fw'.sent = <<>>
      /\ fw'.headless = FALSE /\ to_fw' = <<>> /\ to_host' = to_host
    BY DEF Boots
<1>2. fw'.open \in 0 .. Len(files')
    <2>1. Len(files') \in Nat
        BY <1>1
    <2> QED
        BY <1>1, <2>1
<1>3. TypeOK'
    BY <1>1, EmptyIs DEF TypeOK
<1>4. FileInv'
    BY <1>1, <1>2 DEF FileInv
<1> QED
    BY <1>3, <1>4

LEMMA FwStepKeepsTypes ==
    ASSUME TypeOK, FileInv, FwStep
    PROVE  TypeOK' /\ FileInv'
<1>1. /\ host \in Hosts /\ host' = host /\ fw \in Firmwares /\ files \in Seq(Lengths)
      /\ card \in Cards
      /\ to_fw \in Seq(Requests) /\ to_host \in Seq(Replies)
      /\ sessions \in Nat /\ sessions' = sessions /\ Len(files) \in Nat
      /\ fw.open \in 0 .. Len(files)
    BY DEF TypeOK, FwStep, FileInv
<1>2. STRAY \in Replies
    BY ReplyIs
<1> DEFINE Idle == fw'.pc = "idle" /\ fw'.todo = <<>> /\ fw'.sent = <<>> /\ fw'.headless = FALSE
<1>3. ASSUME fw' \in Firmwares, files' \in Seq(Lengths), to_fw' \in Seq(Requests),
             to_host' \in Seq(Replies), faults' \in Nat, Idle, fw'.open \in 0 .. Len(files'),
             card' \in Cards
      PROVE  TypeOK' /\ FileInv'
    BY <1>1, <1>3 DEF TypeOK, FileInv
<1>4. \A type : AckSent(type) =>
         to_fw' \in Seq(Requests) /\ to_host' \in Seq(Replies) /\ faults' \in Nat
    BY LinkTypes DEF AckSent
<1>5. CASE FwTell
    <2>1. to_fw # <<>> /\ Idle
        BY <1>5, TellIs, HandlesIs
    <2> HIDE DEF Idle
    <2>2. to_host' \in Seq(Replies) /\ to_fw' \in Seq(Requests)
        BY <1>5, <2>1, TellIs, LinkTypes
    <2> QED
        BY <1>1, <1>3, <1>5, <2>1, <2>2, TellIs
<1>6. CASE FwSet
    <2>1. Idle
        BY <1>6, SetIs, HandlesIs
    <2> HIDE DEF Idle
    <2> QED
        BY <1>1, <1>3, <1>4, <1>6, <2>1, SetIs
<1>7. CASE FwInit
    <2>1. CASE Boots /\ faults' = faults
        BY <1>1, <2>1, BootKeepsTypes DEF TypeOK
    <2>2. CASE AckSent("INIT") /\ fw'.open = fw.open /\ files' = files /\ card' = card
        <3>1. fw' \in Firmwares /\ Idle
            BY <1>7, InitStepIs
        <3> QED
            BY <1>1, <1>3, <1>4, <2>2, <3>1
    <2> QED
        BY <1>7, <2>1, <2>2, InitStepIs
<1>8. CASE FwStart
    <2>1. CASE Boots /\ faults' = faults
        BY <1>1, <2>1, BootKeepsTypes DEF TypeOK
    <2>2. CASE AckSent("START_SAMPLING_SD") /\ fw'.open = 0
        <3>1. fw' \in Firmwares /\ Idle /\ files' \in Seq(Lengths) /\ card' \in Cards
            BY <1>8, StartStepIs
        <3>2. 0 \in 0 .. Len(files')
            <4>1. Len(files') \in Nat
                BY <3>1
            <4> QED
                BY <4>1
        <3> QED
            BY <1>3, <1>4, <2>2, <3>1, <3>2
    <2> QED
        BY <1>8, <2>1, <2>2, StartStepIs
<1>9. CASE FwGetRtc
    <2> DEFINE q == Head(to_fw).file
    <2>1. PICK f \in Firmwares, c \in Cards, fs \in Seq(Lengths), r \in Replies :
             /\ Stops(f, c, fs) /\ to_host' = Append(to_host, r)
             /\ \/ Opening(f, c, fs, q) /\ Opens(FsOpen(f, c, fs, q))
                \/ CardIs(c, fs) /\ Opens(0)
        BY <1>9, GetRtcIs
    <2>2. /\ to_fw # <<>> /\ to_fw' = Tail(to_fw) /\ faults' \in Nat /\ q \in Nat
        BY <1>9, GetRtcIs, HandlesIs, RequestFields
    <2> HIDE DEF q
    <2>3. /\ FsOpen(f, c, fs, q) \in 0 .. Len(files') /\ card' \in Cards
          /\ files' \in Seq(Lengths) /\ Len(files') \in Nat
        BY <2>1, <2>2, CardStays
    <2>4. fw' \in Firmwares /\ Idle /\ fw'.open \in 0 .. Len(files')
        BY <2>1, <2>3 DEF Opens
    <2> QED
        BY <1>3, <2>1, <2>2, <2>3, <2>4, LinkTypes
<1>10. CASE FwRead
    <2> DEFINE q   == Head(to_fw).file
               seq == Head(to_fw).seq
    <2>1. PICK f \in Firmwares, c \in Cards, fs \in Seq(Lengths) :
             LET file == FsOpen(f, c, fs, q) IN
             /\ Stops(f, c, fs)
             /\ \/ Opening(f, c, fs, q) /\ Opens(file)
                \/ CardIs(c, fs) /\ (Opens(0) \/ Opens(f.open))
                \/ CardIs(c, fs) /\ Starts(file, seq) /\ file > 0
        BY <1>10, ReadOpens
    <2>2. /\ to_fw # <<>> /\ to_fw' = Tail(to_fw) /\ faults' \in Nat
          /\ q \in Nat /\ seq \in Nat
        BY <1>10, ReadIs, HandlesIs, RequestFields
    <2>4. to_host' \in Seq(Replies) /\ to_fw' \in Seq(Requests)
        BY <1>10, <2>2, ReadIs, LinkTypes
    <2> DEFINE file == FsOpen(f, c, fs, q)
    <2> HIDE DEF q, seq
    <2>3. /\ file \in 0 .. Len(files') /\ files' \in Seq(Lengths) /\ Len(files') \in Nat
          /\ card' \in Cards /\ (CardIs(c, fs) => f.open \in 0 .. Len(files'))
        <3>1. CardIs(c, fs) => f.open \in 0 .. Len(files')
            BY <2>1 DEF Stops, CardIs
        <3> QED
            BY <2>1, <2>2, <3>1, CardStays
    <2>5. CASE Opens(file) \/ (CardIs(c, fs) /\ (Opens(0) \/ Opens(f.open)))
        <3>1. fw' \in Firmwares /\ Idle /\ fw'.open \in 0 .. Len(files')
            BY <2>3, <2>5 DEF Opens
        <3> QED
            BY <1>3, <2>2, <2>3, <2>4, <3>1
    <2>6. CASE Starts(file, seq) /\ file > 0
        <3> HIDE DEF file
        <3>1. /\ fw' \in Firmwares /\ fw'.open = file /\ fw'.pc = "send" /\ fw'.seq = seq
              /\ fw'.recording = FALSE /\ fw'.sent = <<>>
              /\ fw'.todo = Frame(file, files'[file], seq)
            BY <2>6 DEF Starts
        <3>2. fw'.sent \o fw'.todo = fw'.todo
            BY <3>1, FwFields DEF Data
        <3>3. TypeOK'
            BY <1>1, <2>2, <2>3, <2>4, <3>1 DEF TypeOK
        <3>4. FileInv'
            BY <2>3, <2>6, <3>1, <3>2 DEF FileInv
        <3> QED
            BY <3>3, <3>4
    <2> QED
        BY <2>1, <2>5, <2>6
<1>11. CASE FwSendBuffer
    <2>1. TypeOK'
        BY <1>1, <1>11, SendBufferIs DEF TypeOK
    <2>2. FileInv'
        BY <1>1, <1>11, SendBufferIs DEF FileInv
    <2> QED
        BY <2>1, <2>2
<1>12. CASE FwAbort \/ FwSendEnd
    <2>1. Sends /\ faults' \in Nat
        BY <1>12, AbortIs, SendEndIs
    <2>2. to_host' \in Seq(Replies)
        BY <1>1, <1>2, <1>12, AbortIs, SendEndIs, LinkTypes
    <2> QED
        BY <1>1, <1>3, <2>1, <2>2 DEF Sends
<1> QED
    BY <1>5, <1>6, <1>7, <1>8, <1>9, <1>10, <1>11, <1>12 DEF FwStep

-----------------------------------------------------------------------------
(* The steps of the host *)

(* h is the session, with nothing more printed. *)
SameAs(h) ==
    /\ h \in Hosts /\ h.kind = host.kind /\ h.file = host.file
    /\ h.clean = host.clean /\ h.kept = host.kept
    /\ h.next = host.next /\ h.got = host.got

Retries(h) ==
    /\ SameAs(h) /\ h.pc = "ask" /\ h.step = host.step /\ h.tries = host.tries
    /\ h.stamp = host.stamp /\ h.warned = host.warned /\ h.end = host.end

Ends(h, how) ==
    /\ SameAs(h) /\ h.pc = "off" /\ h.step = host.step /\ h.end = how

Proceeds(h) ==
    IF host.step = 6 THEN Ends(h, "done") ELSE
    /\ SameAs(h) /\ h.pc = "ask" /\ h.step = host.step + 1 /\ h.tries = 0
    /\ h.end = host.end

LEMMA CallIs ==
    ASSUME TypeOK
    PROVE  /\ Call \in Types /\ Len(Calls(host.kind)) = 6 /\ host.step \in 1 .. 6
           /\ Call = Calls(host.kind)[host.step] /\ host.kind \in Kinds
    BY CallsAre, HostFields DEF TypeOK, Call

LEMMA AgainIs ==
    ASSUME TypeOK
    PROVE  Retries(Again)
<1> HIDE DEF Data, Kinds
<1> QED
    BY DEF TypeOK, Again, Retries, SameAs, Hosts

LEMMA OverIs ==
    ASSUME TypeOK, NEW how \in {"killed", "done", "failed", "mismatch", "usb", "not found"}
    PROVE  /\ Ends(Over(how), how) /\ Over(how).stamp = host.stamp
           /\ Over(how).warned = host.warned
<1> HIDE DEF Data, Kinds
<1> QED
    BY DEF TypeOK, Over, Ends, SameAs, Hosts

LEMMA NextCallIs ==
    ASSUME TypeOK
    PROVE  /\ Proceeds(NextCall) /\ NextCall.stamp = host.stamp
           /\ NextCall.warned = host.warned
<1>1. Len(Calls(host.kind)) = 6 /\ host.step \in 1 .. 6
    BY CallIs
<1>2. CASE host.step = 6
    BY <1>1, <1>2, OverIs DEF NextCall, Proceeds
<1>3. CASE host.step # 6
    <2>1. NextCall = [host EXCEPT !.pc = "ask", !.step = host.step + 1, !.tries = 0]
        BY <1>1, <1>3 DEF NextCall
    <2>2. host.step + 1 \in 1 .. 6
        BY <1>1, <1>3
    <2> HIDE DEF Data, Kinds
    <2> QED
        BY <1>3, <2>1, <2>2 DEF TypeOK, Proceeds, SameAs, Hosts
<1> QED
    BY <1>2, <1>3

(* The outcomes of a call that counts its tries. *)
LEMMA AfterTriesIs ==
    ASSUME TypeOK, NEW ok \in BOOLEAN
    PROVE  \/ ~OutOfTries /\ ok /\ AfterTries(ok) = NextCall
           \/ ~OutOfTries /\ ~ok /\ AfterTries(ok) = Again
           \/ OutOfTries /\ AfterTries(ok) = Over("failed")
    BY DEF AfterTries

LEMMA StampedIs ==
    ASSUME TypeOK, host.step < 6, NEW st \in Int, NEW warned \in BOOLEAN
    PROVE  LET h == [NextCall EXCEPT !.stamp = st, !.warned = warned] IN
           Proceeds(h) /\ h.stamp = st /\ h.warned = warned
<1>1. Proceeds(NextCall)
    BY NextCallIs
<1>2. host.step # 6
    BY CallIs
<1> HIDE DEF Data, Kinds
<1> QED
    BY <1>1, <1>2 DEF Proceeds, SameAs, Hosts

LEMMA TimedIs ==
    ASSUME TypeOK, host.step < 6, NEW st \in Int
    PROVE  LET h == [NextCall EXCEPT !.stamp = st] IN
           Proceeds(h) /\ h.stamp = st /\ h.warned = host.warned
<1>1. Proceeds(NextCall) /\ NextCall.warned = host.warned
    BY NextCallIs
<1>2. host.step # 6
    BY CallIs
<1> HIDE DEF Data, Kinds
<1> QED
    BY <1>1, <1>2 DEF Proceeds, SameAs, Hosts

(* The outcomes of a reply, call by call. *)
LEMMA AfterAcked ==
    ASSUME TypeOK, Call \in Acked, NEW r \in Replies
    PROVE  \/ (r.type # "ack" \/ r.of # Call) /\ After(r) = Again
           \/ /\ Call = "GET_MODE_PORTABLE" /\ r.type = "ack" /\ r.of = Call
              /\ After(r) = Over("usb")
           \/ r.type = "ack" /\ r.of = Call /\ After(r) = NextCall
<1>1. Call \notin {"GET_GIT_HASH", "READ_EEPROM", "GET_RTC", "READ_SD_UART"}
    BY DEF Acked
<1>2. After(r) =
        CASE r.type # "ack" \/ r.of # Call -> Again
          [] r.type = "ack" /\ r.of = Call /\ Call = "GET_MODE_PORTABLE"
               /\ r.num = 0 /\ host.file > 0 -> Over("usb")
          [] OTHER -> NextCall
    BY <1>1 DEF After
<1> QED
    BY <1>2

LEMMA AfterHash ==
    ASSUME TypeOK, Call = "GET_GIT_HASH", NEW r \in Replies
    PROVE  \/ HasBytes(r, 7) /\ r.type # "hash" /\ After(r) = Over("mismatch")
           \/ After(r) = AfterTries(r.type = "hash")
<1>1. CASE HasBytes(r, 7) /\ r.type # "hash"
    BY <1>1 DEF After, Acked
<1>2. CASE ~(HasBytes(r, 7) /\ r.type # "hash")
    BY <1>2 DEF After, Acked
<1> QED
    BY <1>1, <1>2

LEMMA AfterEeprom ==
    ASSUME TypeOK, Call = "READ_EEPROM", NEW r \in Replies
    PROVE  After(r) = AfterTries(IsEeprom(r))
    BY DEF After, Acked

LEMMA AfterRtc ==
    ASSUME TypeOK, Call = "GET_RTC", NEW r \in Replies
    PROVE  /\ OutOfTries =>
                 After(r) = [NextCall EXCEPT !.stamp = StampLeft(r), !.warned = TRUE]
           /\ ~OutOfTries /\ IsRtc(r) =>
                 After(r) = [NextCall EXCEPT !.stamp = IF r.type = "rtc" THEN r.num ELSE -1]
           /\ ~OutOfTries /\ ~IsRtc(r) => After(r) = Again
<1>1. CASE OutOfTries
    BY <1>1 DEF After, Acked
<1>2. CASE ~OutOfTries
    <2>1. After(r) = IF IsRtc(r)
                     THEN [NextCall EXCEPT !.stamp = IF r.type = "rtc" THEN r.num ELSE -1]
                     ELSE Again
        BY <1>2 DEF After, Acked
    <2> QED
        BY <1>2, <2>1
<1> QED
    BY <1>1, <1>2

LEMMA AfterRead ==
    ASSUME TypeOK, Call = "READ_SD_UART", NEW r \in Replies
    PROVE  After(r) = AfterFrame(r)
    BY DEF After, Acked

LEMMA GetRtcStep ==
    ASSUME TypeOK, Call = "GET_RTC"
    PROVE  host.kind = "download" /\ host.step = 5
<1>1. Call = Calls(host.kind)[host.step] /\ host.kind \in Kinds /\ host.step \in 1 .. 6
    BY CallIs
<1>2. \A k \in 1 .. 6 : k = 1 \/ k = 2 \/ k = 3 \/ k = 4 \/ k = 5 \/ k = 6
    OBVIOUS
<1>3. host.kind = "download"
    BY <1>1, <1>2, CallsAre DEF Kinds
<1> QED
    BY <1>1, <1>2, <1>3, CallsAre

LEMMA ReadStep ==
    ASSUME TypeOK, Call = "READ_SD_UART"
    PROVE  host.kind = "download" /\ host.step = 6
<1>1. Call = Calls(host.kind)[host.step] /\ host.kind \in Kinds /\ host.step \in 1 .. 6
    BY CallIs
<1>2. \A k \in 1 .. 6 : k = 1 \/ k = 2 \/ k = 3 \/ k = 4 \/ k = 5 \/ k = 6
    OBVIOUS
<1>3. host.kind = "download"
    BY <1>1, <1>2, CallsAre DEF Kinds
<1> QED
    BY <1>1, <1>2, <1>3, CallsAre

(* A frame that was asked for is printed, or ends the session. *)
Prints(h, r) ==
    /\ r.type = "frame" /\ r.num = host.next /\ r.data # <<>>
    /\ h \in Hosts /\ h.kind = host.kind /\ h.file = host.file
    /\ h.clean = host.clean /\ h.kept = host.kept
    /\ h.pc = "ask" /\ h.step = host.step /\ h.tries = host.tries
    /\ h.stamp = host.stamp /\ h.warned = host.warned /\ h.end = host.end
    /\ h.next = host.next + 1 /\ h.got = host.got \o r.data

LEMMA AfterFrameIs ==
    ASSUME TypeOK, NEW r \in Replies
    PROVE  \/ Prints(AfterFrame(r), r)
           \/ /\ r.type = "frame" /\ r.num = host.next /\ r.data = <<>> /\ host.next = 0
              /\ AfterFrame(r) = Over("not found")
           \/ /\ r.type = "frame" /\ r.num = host.next /\ r.data = <<>> /\ host.next # 0
              /\ AfterFrame(r) = Over("done")
           \/ AfterFrame(r) = Again
<1>1. CASE r.type = "frame" /\ r.num = host.next /\ r.data # <<>>
    <2>1. AfterFrame(r) =
            [host EXCEPT !.pc = "ask", !.next = host.next + 1, !.got = host.got \o r.data]
        BY <1>1 DEF AfterFrame
    <2>2. host \in Hosts /\ host.got \o r.data \in Data /\ host.next + 1 \in Nat
        <3>1. host \in Hosts /\ host.got \in Data /\ r.data \in Data /\ host.next \in Nat
            BY HostFields, ReplyFields DEF TypeOK
        <3>2. host.got \o r.data \in Data
            BY <3>1, JoinIs DEF Data
        <3> QED
            BY <3>1, <3>2
    <2> HIDE DEF Data, Kinds
    <2>3. Prints(AfterFrame(r), r)
        BY <1>1, <2>1, <2>2 DEF Prints, Hosts
    <2> QED
        BY <2>3
<1>2. CASE r.type = "frame" /\ r.num = host.next /\ r.data = <<>>
    <2>1. AfterFrame(r) = IF host.next = 0 THEN Over("not found") ELSE Over("done")
        BY <1>2 DEF AfterFrame
    <2> QED
        BY <1>2, <2>1
<1>3. CASE ~(r.type = "frame" /\ r.num = host.next)
    BY <1>3 DEF AfterFrame
<1> QED
    BY <1>1, <1>2, <1>3

(* Whatever a reply is, the session goes on with the call or the next one,  *)
(* prints it or ends.                                                       *)
LEMMA AfterIs ==
    ASSUME TypeOK, NEW r \in Replies
    PROVE  /\ After(r) \in Hosts /\ After(r).kind = host.kind /\ After(r).file = host.file
           /\ After(r).clean = host.clean /\ After(r).kept = host.kept
           /\ \/ After(r).step = host.step
              \/ /\ host.step < 6 /\ After(r).step = host.step + 1
                 /\ Call \in Acked => r.type = "ack" /\ r.of = Call
<1> DEFINE Fits(h) ==
       /\ h \in Hosts /\ h.kind = host.kind /\ h.file = host.file
       /\ h.clean = host.clean /\ h.kept = host.kept
       /\ \/ h.step = host.step
          \/ /\ host.step < 6 /\ h.step = host.step + 1
             /\ Call \in Acked => r.type = "ack" /\ r.of = Call
<1>1. Call \in Types /\ host.step \in 1 .. 6
    BY CallIs
<1>2. Fits(Again)
    BY AgainIs DEF Retries, SameAs
<1>3. \A how \in {"failed", "mismatch", "usb", "not found", "done"} : Fits(Over(how))
    BY OverIs, ZenonT(60) DEF Ends, SameAs
<1>4. \A h : Proceeds(h) /\ (Call \in Acked => r.type = "ack" /\ r.of = Call) => Fits(h)
    BY <1>1 DEF Proceeds, Ends, SameAs
<1>5. Proceeds(NextCall)
    BY NextCallIs
<1>6. \A ok \in BOOLEAN : Call \notin Acked => Fits(AfterTries(ok))
    <2> SUFFICES ASSUME NEW ok \in BOOLEAN, Call \notin Acked
                 PROVE  Fits(AfterTries(ok))
        OBVIOUS
    <2> HIDE DEF Fits
    <2> QED
        BY <1>2, <1>3, <1>4, <1>5, AfterTriesIs
<1>7. CASE Call \in Acked
    <2> HIDE DEF Fits
    <2>1. Fits(After(r))
        BY <1>2, <1>3, <1>4, <1>5, <1>7, AfterAcked
    <2> QED
        BY <2>1 DEF Fits
<1>8. CASE Call = "GET_GIT_HASH"
    <2>1. Call \notin Acked
        BY <1>8 DEF Acked
    <2> HIDE DEF Fits
    <2>2. Fits(After(r))
        BY <1>3, <1>6, <1>8, <2>1, AfterHash
    <2> QED
        BY <2>2 DEF Fits
<1>9. CASE Call = "READ_EEPROM"
    <2>1. Call \notin Acked
        BY <1>9 DEF Acked
    <2> HIDE DEF Fits
    <2>2. Fits(After(r))
        BY <1>6, <1>9, <2>1, AfterEeprom DEF IsEeprom
    <2> QED
        BY <2>2 DEF Fits
<1>10. CASE Call = "GET_RTC"
    <2>1. Call \notin Acked
        BY <1>10 DEF Acked
    <2>2. (IF r.type = "rtc" THEN r.num ELSE -1) \in Int /\ StampLeft(r) \in Int
        BY ReplyFields DEF StampLeft
    <2>3. \A st \in Int : /\ Proceeds([NextCall EXCEPT !.stamp = st])
                          /\ Proceeds([NextCall EXCEPT !.stamp = st, !.warned = TRUE])
        <3> TAKE st \in Int
        <3>1. host.step < 6
            BY <1>10, GetRtcStep
        <3>2. Proceeds([NextCall EXCEPT !.stamp = st])
            BY <3>1, TimedIs
        <3>3. Proceeds([NextCall EXCEPT !.stamp = st, !.warned = TRUE])
            BY <3>1, StampedIs
        <3> QED
            BY <3>2, <3>3
    <2> HIDE DEF Fits
    <2>4. \A st \in Int : /\ Fits([NextCall EXCEPT !.stamp = st])
                          /\ Fits([NextCall EXCEPT !.stamp = st, !.warned = TRUE])
        BY <1>4, <2>1, <2>3
    <2>6. Fits(After(r))
        <3>1. CASE OutOfTries
            BY <1>10, <2>2, <2>4, <3>1, AfterRtc
        <3>2. CASE ~OutOfTries /\ IsRtc(r)
            <4>1. After(r) = [NextCall EXCEPT !.stamp = IF r.type = "rtc" THEN r.num ELSE -1]
                BY <1>10, <3>2, AfterRtc
            <4> QED
                BY <2>2, <2>4, <4>1
        <3>3. CASE ~OutOfTries /\ ~IsRtc(r)
            BY <1>2, <1>10, <3>3, AfterRtc
        <3> QED
            BY <3>1, <3>2, <3>3
    <2> QED
        BY <2>6 DEF Fits
<1>11. CASE Call = "READ_SD_UART"
    <2>1. Prints(AfterFrame(r), r) => Fits(AfterFrame(r))
        BY DEF Prints
    <2> HIDE DEF Fits
    <2>2. Fits(AfterFrame(r))
        BY <1>2, <1>3, <2>1, AfterFrameIs
    <2>3. Fits(After(r))
        BY <1>11, <2>2, AfterRead
    <2> QED
        BY <2>3 DEF Fits
<1> QED
    BY <1>1, <1>7, <1>8, <1>9, <1>10, <1>11 DEF Types, Tried

(* The front of what comes is gone, and perhaps a stray end is in its place. *)
Drops(d) ==
    /\ d \in 0 .. Len(to_host) /\ to_host' \in Seq(Replies)
    /\ Len(to_host') = Len(to_host) - d
    /\ \A j \in 1 .. Len(to_host) - d :
          to_host'[j] = to_host[j + d] \/ (to_host'[j] = STRAY /\ j = 1)

(* The first reply that is heard is at place i; all before it is broken. *)
LEMMA HearIs ==
    ASSUME TypeOK, Hear
    PROVE  \E i \in 1 .. Len(to_host) :
             /\ i \in Heard /\ \A j \in Heard : i <= j
             /\ \/ /\ i > 1 /\ to_host[i - 1] = STRAY /\ host' = After(EMPTY)
                   /\ Drops(i) \/ Drops(i - 1)
                \/ /\ ~(i > 1 /\ to_host[i - 1] = STRAY)
                   /\ Whole(to_host[i]) /\ host' = After(to_host[i])
                   /\ to_host' = SubSeq(to_host, i + 1, Len(to_host)) /\ Drops(i)
<1>1. to_host \in Seq(Replies) /\ Heard \in SUBSET Nat /\ Heard # {}
    <2>1. Heard \subseteq 1 .. Len(to_host)
        BY DEF Heard
    <2>2. to_host \in Seq(Replies) /\ Len(to_host) \in Nat
        BY DEF TypeOK
    <2>3. Heard # {}
        BY DEF Hear
    <2> QED
        BY <2>1, <2>2, <2>3
<1>2. \E i \in Heard : \A j \in Heard : i <= j
    BY <1>1, Least
<1> DEFINE i == CHOOSE i \in Heard : \A j \in Heard : i <= j
           rest == SubSeq(to_host, i + 1, Len(to_host))
<1>3. i \in Heard /\ \A j \in Heard : i <= j
    BY <1>2
<1>4. IF i > 1 /\ to_host[i - 1] = STRAY
      THEN /\ host' = After(EMPTY)
           /\ to_host' = IF Whole(to_host[i]) THEN <<STRAY>> \o rest ELSE rest
      ELSE host' = After(to_host[i]) /\ to_host' = rest
    BY DEF Hear
<1> HIDE DEF i
<1>5. /\ i \in 1 .. Len(to_host)
      /\ Whole(to_host[i]) \/ (i > 1 /\ to_host[i - 1] = STRAY)
    BY <1>3 DEF Heard
<1>6. /\ rest \in Seq(Replies) /\ Len(rest) = Len(to_host) - i /\ Len(to_host) \in Nat
      /\ \A j \in 1 .. Len(to_host) - i : rest[j] = to_host[j + i]
    BY <1>1, <1>5, RestIs
<1> HIDE DEF rest
<1>7. to_host' = rest => Drops(i)
    BY <1>5, <1>6 DEF Drops
<1>8. ASSUME i > 1, to_host' = <<STRAY>> \o rest
      PROVE  Drops(i - 1)
    <2>1. STRAY \in Replies
        BY ReplyIs
    <2>2. <<STRAY>> \in Seq(Replies) /\ Len(<<STRAY>>) = 1 /\ <<STRAY>>[1] = STRAY
        BY <2>1, OneIs
    <2> DEFINE s == <<STRAY>>
    <2> HIDE DEF s
    <2>3. /\ s \o rest \in Seq(Replies) /\ Len(s \o rest) = 1 + Len(rest)
          /\ (s \o rest)[1] = STRAY
          /\ \A k \in 1 .. Len(rest) : (s \o rest)[k + 1] = rest[k]
        BY <1>6, <2>2, JoinIs DEF s
    <2>4. /\ to_host' \in Seq(Replies) /\ Len(to_host') = Len(to_host) - (i - 1)
          /\ i - 1 \in 0 .. Len(to_host) /\ to_host'[1] = STRAY
        BY <1>5, <1>6, <1>8, <2>3 DEF s
    <2>5. ASSUME NEW j \in 1 .. Len(to_host) - (i - 1), j # 1
          PROVE  to_host'[j] = to_host[j + (i - 1)]
        <3>1. j - 1 \in 1 .. Len(rest) /\ (j - 1) + 1 = j /\ (j - 1) + i = j + (i - 1)
            BY <1>5, <1>6, <2>5
        <3>2. to_host'[j] = rest[j - 1]
            <4>1. (s \o rest)[(j - 1) + 1] = rest[j - 1]
                BY <2>3, <3>1
            <4> QED
                BY <1>8, <3>1, <4>1 DEF s
        <3> QED
            BY <1>6, <3>1, <3>2
    <2> QED
        BY <2>4, <2>5 DEF Drops
<1>9. CASE i > 1 /\ to_host[i - 1] = STRAY
    BY <1>3, <1>4, <1>5, <1>7, <1>8, <1>9
<1>10. CASE ~(i > 1 /\ to_host[i - 1] = STRAY)
    BY <1>3, <1>4, <1>5, <1>7, <1>10 DEF rest
<1> QED
    BY <1>9, <1>10

(* An answer of the host's parser and what it leaves of the replies. *)
LEMMA HostHears ==
    ASSUME TypeOK, Hear \/ TimesOut
    PROVE  /\ fw' = fw /\ files' = files /\ card' = card
           /\ to_fw' = to_fw /\ sessions' = sessions
           /\ faults' \in Nat /\ faults' >= faults
           /\ host.pc = "wait" /\ to_host' \in Seq(Replies)
           /\ \E r \in Replies, d \in 0 .. Len(to_host) :
                 /\ host' = After(r) /\ Drops(d)
                 /\ \/ r = EMPTY
                    \/ d > 0 /\ r = to_host[d] /\ r.type \notin {"cut", "stray"}
                    \/ /\ TimesOut /\ to_host' = <<>> /\ r.type = "cut"
                       /\ \E i \in 1 .. Len(to_host) : r = to_host[i]
<1>1. /\ to_host \in Seq(Replies) /\ faults \in Nat /\ EMPTY \in Replies
      /\ <<>> \in Seq(Replies) /\ Len(to_host) \in Nat
    <2>1. to_host \in Seq(Replies) /\ faults \in Nat
        BY DEF TypeOK
    <2>2. Len(to_host) \in Nat
        BY <2>1
    <2>3. <<>> \in Seq(Replies)
        OBVIOUS
    <2> QED
        BY <2>1, <2>2, <2>3, ReplyIs
<1>2. CASE Hear
    <2>1. PICK i \in 1 .. Len(to_host) :
             \/ host' = After(EMPTY) /\ (Drops(i) \/ Drops(i - 1))
             \/ Whole(to_host[i]) /\ host' = After(to_host[i]) /\ Drops(i)
        BY <1>2, HearIs
    <2>2. to_host[i] \in Replies /\ i > 0 /\ i \in 0 .. Len(to_host) /\ i - 1 \in 0 .. Len(to_host)
        BY <1>1
    <2>3. /\ fw' = fw /\ files' = files /\ card' = card
          /\ to_fw' = to_fw /\ sessions' = sessions
          /\ faults' = faults /\ host.pc = "wait"
        BY <1>2 DEF Hear
    <2>4. \A d : Drops(d) => to_host' \in Seq(Replies)
        BY DEF Drops
    <2>5. Whole(to_host[i]) => to_host[i].type \notin {"cut", "stray"}
        BY DEF Whole
    <2>6. faults' \in Nat /\ faults' >= faults
        BY <1>1, <2>3
    <2> QED
        BY <1>1, <2>1, <2>2, <2>3, <2>4, <2>5, <2>6
<1>3. CASE TimesOut
    <2>1. /\ to_host' = <<>>
          /\ \/ host' = After(EMPTY)
             \/ \E i \in 1 .. Len(to_host) :
                   to_host[i].type = "cut" /\ host' = After(to_host[i])
        BY <1>3 DEF TimesOut
    <2>2. Drops(Len(to_host))
        BY <1>1, <2>1 DEF Drops
    <2>3. Len(to_host) \in 0 .. Len(to_host)
        BY <1>1
    <2>4. /\ fw' = fw /\ files' = files /\ card' = card
          /\ to_fw' = to_fw /\ sessions' = sessions /\ host.pc = "wait"
          /\ faults' \in Nat /\ faults' >= faults
        <3>1. faults' = faults \/ faults' = faults + 1
            BY <1>3 DEF TimesOut
        <3> QED
            BY <1>1, <1>3, <3>1 DEF TimesOut
    <2>5. \A i \in 1 .. Len(to_host) : to_host[i] \in Replies
        BY <1>1
    <2>6. CASE host' = After(EMPTY)
        BY <1>1, <2>1, <2>2, <2>3, <2>4, <2>6
    <2>7. ASSUME NEW i \in 1 .. Len(to_host), to_host[i].type = "cut", host' = After(to_host[i])
          PROVE  \E r \in Replies, d \in 0 .. Len(to_host) :
                    /\ host' = After(r) /\ Drops(d)
                    /\ TimesOut /\ to_host' = <<>> /\ r.type = "cut"
                    /\ \E k \in 1 .. Len(to_host) : r = to_host[k]
        BY <1>3, <2>1, <2>2, <2>3, <2>5, <2>7
    <2> QED
        BY <1>1, <2>1, <2>4, <2>6, <2>7
<1> QED
    BY <1>2, <1>3

LEMMA AskIs ==
    ASSUME TypeOK, Ask
    PROVE  /\ SameAs(host') /\ host.pc = "ask" /\ host'.pc = "wait" /\ host'.step = host.step
           /\ host'.tries = (IF Call \in Tried THEN host.tries + 1 ELSE host.tries)
           /\ host'.stamp = host.stamp /\ host'.warned = host.warned /\ host'.end = host.end
           /\ fw' = fw /\ files' = files /\ card' = card /\ to_host' = to_host /\ sessions' = sessions
           /\ faults' \in Nat /\ faults' >= faults
           /\ \/ /\ faults' = faults
                 /\ \E q \in Requests :
                       /\ to_fw' = Append(to_fw, q)
                       /\ q.type = Call /\ q.file = host.file
              \/ faults' = faults + 1 /\ to_fw' = to_fw
<1>1. host \in Hosts /\ host.tries \in Nat /\ host.next \in Nat /\ host.file \in Nat
      /\ SEQ_LIMIT \in Nat \ {0} /\ faults \in Nat /\ Call \in Types
    BY HostFields, CallIs, DownloadAssumption DEF TypeOK
<1>2. host' = [host EXCEPT !.pc = "wait",
                           !.tries = IF Call \in Tried THEN host.tries + 1 ELSE host.tries]
    BY DEF Ask
<1>3. (IF Call \in Tried THEN host.tries + 1 ELSE host.tries) \in Nat
    BY <1>1
<1>4. /\ SameAs(host') /\ host'.pc = "wait" /\ host'.step = host.step
      /\ host'.tries = (IF Call \in Tried THEN host.tries + 1 ELSE host.tries)
      /\ host'.stamp = host.stamp /\ host'.warned = host.warned /\ host'.end = host.end
    <2> HIDE DEF Data, Kinds
    <2> QED
        BY <1>1, <1>2, <1>3 DEF SameAs, Hosts
<1> DEFINE q == [type |-> Call, file |-> host.file, seq |-> host.next % SEQ_LIMIT]
<1>5. q \in Requests /\ q.type = Call /\ q.file = host.file
    BY <1>1 DEF Requests
<1>6. /\ host.pc = "ask" /\ fw' = fw /\ files' = files /\ card' = card /\ to_host' = to_host
      /\ sessions' = sessions
      /\ \/ to_fw' = Append(to_fw, q) /\ faults' = faults
         \/ faults' = faults + 1 /\ to_fw' = to_fw
    BY DEF Ask
<1> HIDE DEF q
<1> QED
    BY <1>1, <1>4, <1>5, <1>6

LEMMA BeginIs ==
    ASSUME TypeOK, NEW kind \in Kinds, NEW file \in Nat, Begin(kind, file)
    PROVE  /\ host' \in Hosts /\ host'.pc = "ask" /\ host'.kind = kind /\ host'.file = file
           /\ host'.step = 1 /\ host'.tries = 0 /\ host'.next = 0 /\ host'.got = <<>>
           /\ host'.stamp = 0 /\ host'.warned = FALSE /\ host'.end = "none"
           /\ host'.clean = (fw.pc = "idle" /\ to_fw = <<>> /\ to_host = <<>>)
           /\ host'.kept = (\/ fw.open \notin {0, Len(files)}
                            \/ \E i \in 1 .. Len(to_fw) : to_fw[i].file > 0)
           /\ fw' \in Firmwares /\ fw'.open = fw.open /\ fw'.recording = fw.recording
           /\ fw'.pc = fw.pc /\ fw'.todo = fw.todo /\ fw'.sent = fw.sent /\ fw'.seq = fw.seq
           /\ fw'.headless = (fw.sent # <<>>)
           /\ files' = files /\ card' = card
           /\ to_fw' = to_fw /\ faults' = 0 /\ sessions' = sessions + 1
           /\ \/ to_host' = <<>>
              \/ to_host # <<>> /\ to_host' = <<STRAY>>
<1> DEFINE clean == fw.pc = "idle" /\ to_fw = <<>> /\ to_host = <<>>
           kept  == \/ fw.open \notin {0, Len(files)}
                    \/ \E i \in 1 .. Len(to_fw) : to_fw[i].file > 0
<1>1. host' = [HostOff EXCEPT !.pc = "ask", !.kind = kind, !.file = file,
                 !.clean = clean, !.kept = kept]
    BY DEF Begin
<1>2. clean \in BOOLEAN /\ kept \in BOOLEAN /\ (fw.sent # <<>>) \in BOOLEAN
    OBVIOUS
<1>3. fw \in Firmwares /\ fw' = [fw EXCEPT !.headless = fw.sent # <<>>]
    BY DEF TypeOK, Begin
<1>4. /\ fw' \in Firmwares /\ fw'.open = fw.open /\ fw'.recording = fw.recording
      /\ fw'.pc = fw.pc /\ fw'.todo = fw.todo /\ fw'.sent = fw.sent /\ fw'.seq = fw.seq
      /\ fw'.headless = (fw.sent # <<>>)
    <2> DEFINE headless == fw.sent # <<>>
    <2> HIDE DEF headless, Data
    <2>1. headless \in BOOLEAN /\ fw' = [fw EXCEPT !.headless = headless]
        BY <1>2, <1>3 DEF headless
    <2> QED
        BY <1>3, <2>1 DEF Firmwares, headless
<1> HIDE DEF clean, kept
<1>5. /\ host' \in Hosts /\ host'.pc = "ask" /\ host'.kind = kind /\ host'.file = file
      /\ host'.step = 1 /\ host'.tries = 0 /\ host'.next = 0 /\ host'.got = <<>>
      /\ host'.stamp = 0 /\ host'.warned = FALSE /\ host'.end = "none"
      /\ host'.clean = clean /\ host'.kept = kept
    <2>1. host' = [pc |-> "ask", kind |-> kind, file |-> file, step |-> 1, tries |-> 0,
                   next |-> 0, got |-> <<>>, stamp |-> 0, warned |-> FALSE, end |-> "none",
                   clean |-> clean, kept |-> kept]
        BY <1>1 DEF HostOff
    <2> HIDE DEF Data, Kinds
    <2> QED
        BY <1>2, <2>1, NoData DEF Hosts
<1>6. /\ files' = files /\ card' = card
      /\ to_fw' = to_fw /\ faults' = 0 /\ sessions' = sessions + 1
      /\ \/ to_host' = <<>>
         \/ to_host # <<>> /\ to_host' = <<STRAY>>
    BY DEF Begin
<1> QED
    BY <1>4, <1>5, <1>6 DEF clean, kept

LEMMA KillIs ==
    ASSUME TypeOK, Kill
    PROVE  /\ SameAs(host') /\ host'.pc = "off" /\ host'.step = host.step
           /\ host'.end = "killed" /\ host'.stamp = host.stamp /\ host'.warned = host.warned
           /\ fw' = fw /\ files' = files /\ card' = card /\ to_fw' = to_fw /\ to_host' = to_host
           /\ sessions' = sessions /\ faults' = faults
<1> HIDE DEF Data, Kinds
<1> QED
    BY DEF Kill, SameAs, Hosts, TypeOK

(* The types through a step of the host, and from one session to the next.  *)
LEMMA HostStepKeepsTypes ==
    ASSUME TypeOK, FileInv, HostStep \/ Kill
    PROVE  TypeOK' /\ FileInv'
<1>1. /\ host \in Hosts /\ fw \in Firmwares /\ files \in Seq(Lengths) /\ card \in Cards
      /\ to_fw \in Seq(Requests) /\ to_host \in Seq(Replies)
      /\ sessions \in Nat /\ faults \in Nat
    BY DEF TypeOK
<1>2. ASSUME fw' = fw, files' = files
      PROVE  FileInv'
    BY <1>2 DEF FileInv
<1>3. CASE Hear \/ TimesOut
    <2>1. PICK r \in Replies : host' = After(r)
        BY <1>3, HostHears
    <2>2. host' \in Hosts
        BY <2>1, AfterIs
    <2> QED
        BY <1>1, <1>2, <1>3, <2>2, HostHears DEF TypeOK
<1>4. CASE Ask
    <2>1. to_fw' \in Seq(Requests)
        BY <1>1, <1>4, AskIs, AppendIs
    <2> QED
        BY <1>1, <1>2, <1>4, <2>1, AskIs DEF TypeOK, SameAs
<1>5. CASE Kill
    BY <1>1, <1>2, <1>5, KillIs DEF TypeOK, SameAs
<1> QED
    BY <1>3, <1>4, <1>5 DEF HostStep

LEMMA BeginKeepsTypes ==
    ASSUME TypeOK, FileInv, NEW kind \in Kinds, NEW file \in Nat, Begin(kind, file)
    PROVE  TypeOK' /\ FileInv'
<1>1. /\ files \in Seq(Lengths) /\ card \in Cards
      /\ to_fw \in Seq(Requests) /\ to_host \in Seq(Replies)
      /\ sessions \in Nat /\ STRAY \in Replies
    BY ReplyIs DEF TypeOK
<1>2. to_host' \in Seq(Replies)
    <2>1. to_host' = <<>> \/ to_host' = <<STRAY>>
        BY BeginIs
    <2>2. <<STRAY>> \in Seq(Replies)
        BY <1>1
    <2> QED
        BY <2>1, <2>2, LinkTypes
<1>3. TypeOK'
    <2>1. /\ host' \in Hosts /\ fw' \in Firmwares /\ files' = files /\ to_fw' = to_fw
          /\ card' = card /\ faults' = 0 /\ sessions' = sessions + 1
        BY BeginIs
    <2> QED
        BY <1>1, <1>2, <2>1 DEF TypeOK
<1>4. FileInv'
    BY BeginIs DEF FileInv
<1> QED
    BY <1>3, <1>4

LEMMA InitTypes ==
    ASSUME Init
    PROVE  TypeOK /\ FileInv
<1>1. host = HostOff /\ files = FILES /\ to_fw = <<>> /\ to_host = <<>> /\ sessions = 0
      /\ faults = 0
    BY DEF Init
<1>2. files \in Seq(Lengths) /\ Len(files) \in Nat
    BY <1>1, DownloadAssumption DEF Lengths
<1>3. host \in Hosts
    <2> HIDE DEF Data
    <2> QED
        BY <1>1, NoData DEF HostOff, Hosts, Kinds
<1>10. card \in Cards
    <2>1. PICK portable \in BOOLEAN,
               skips \in SUBSET {n \in 1 .. Len(FILES) - FS_FILE_SKIP_LEN :
                                   (n - 1) % FS_FILE_SKIP_LEN = 0} :
             card = [Formatted EXCEPT !.skips = skips, !.portable = portable]
        BY DEF Init
    <2>2. 1 .. Len(FILES) - FS_FILE_SKIP_LEN \subseteq Nat
        BY <1>1, <1>2, DownloadAssumption
    <2>3. skips \in SUBSET Nat
        BY <2>2
    <2>4. card = [skips |-> skips, full |-> FALSE, portable |-> portable]
        BY <2>1 DEF Formatted
    <2> QED
        BY <2>3, <2>4 DEF Cards
<1> DEFINE mode == IF card.portable THEN "portable" ELSE "usb"
           f    == FwBooted(mode, FILES)
<1>4. PICK recording \in BOOLEAN :
         fw = [f EXCEPT !.recording = recording, !.open = IF recording THEN 0 ELSE @]
    BY DEF Init
<1>11. mode \in {"usb", "portable"}
    OBVIOUS
<1>5. /\ f \in Firmwares /\ f.open = Len(files) /\ f.pc = "idle"
      /\ f.todo = <<>> /\ f.sent = <<>> /\ f.headless = FALSE
    <2> HIDE DEF mode
    <2> QED
        BY <1>1, <1>2, <1>11, BootedIs
<1>6. fw = [f EXCEPT !.recording = recording, !.open = IF recording THEN 0 ELSE f.open]
    BY <1>4
<1> HIDE DEF f
<1>7. /\ fw \in Firmwares /\ fw.open \in 0 .. Len(files) /\ fw.pc = "idle"
      /\ fw.todo = <<>> /\ fw.sent = <<>> /\ fw.headless = FALSE
    <2> DEFINE open == IF recording THEN 0 ELSE f.open
    <2>1. open \in 0 .. Len(files) /\ open \in Nat
        BY <1>2, <1>5
    <2> HIDE DEF open
    <2>2. fw = [f EXCEPT !.recording = recording, !.open = open]
        BY <1>6 DEF open
    <2> HIDE DEF Data
    <2> QED
        BY <1>5, <2>1, <2>2 DEF Firmwares
<1>8. TypeOK
    BY <1>1, <1>2, <1>3, <1>7, <1>10, EmptyIs DEF TypeOK
<1>9. FileInv
    BY <1>7 DEF FileInv
<1> QED
    BY <1>8, <1>9

-----------------------------------------------------------------------------
(* The last file *)

(* In a session without a number, and with no file left open by number, the *)
(* last file is open or none.                                               *)
LastInv ==
    host.file = 0 /\ ~host.kept =>
        /\ fw.open \in {0, Len(files)}
        /\ \A i \in 1 .. Len(to_fw) : to_fw[i].file = 0

LEMMA OpenLast ==
    ASSUME NEW f, NEW c, NEW fs, Stops(f, c, fs), fw.open \in {0, Len(files)},
           Opening(f, c, fs, 0) \/ CardIs(c, fs)
    PROVE  /\ FsOpen(f, c, fs, 0) \in {0, Len(files')}
           /\ CardIs(c, fs) => f.open \in {0, Len(files')}
<1>1. /\ f \in Firmwares /\ c \in Cards /\ fs \in Seq(Lengths)
      /\ f.open \in 0 .. Len(fs)
    BY DEF Stops
<1>2. /\ FsOpen(f, c, fs, 0) = IF Quick(f, fs, 0) THEN f.open
                               ELSE IF c.full THEN 0 ELSE Len(fs)
      /\ FsOpen(f, c, fs, 0) \in Nat
    BY <1>1, OpenIs
<1>3. fw.recording => f.open = 0
    BY DEF Stops
<1>4. ~fw.recording => f.open = fw.open /\ fs = files
    BY DEF Stops
<1>5. FsOpen(f, c, fs, 0) > 0 => CardIs(c, fs)
    BY CardStays
<1>6. CardIs(c, fs) => files' = fs
    BY DEF CardIs
<1>7. FsOpen(f, c, fs, 0) \in {0, Len(fs)}
    BY <1>2, <1>3, <1>4
<1> QED
    BY <1>2, <1>3, <1>4, <1>5, <1>6, <1>7

LEMMA FwStepKeepsLast ==
    ASSUME TypeOK, FileInv, LastInv, FwStep
    PROVE  LastInv'
<1> SUFFICES ASSUME host.file = 0, ~host.kept
             PROVE  /\ fw'.open \in {0, Len(files')}
                    /\ \A i \in 1 .. Len(to_fw') : to_fw'[i].file = 0
    BY DEF LastInv, FwStep
<1>1. /\ fw.open \in {0, Len(files)} /\ \A i \in 1 .. Len(to_fw) : to_fw[i].file = 0
      /\ to_fw \in Seq(Requests)
    BY DEF LastInv, TypeOK
<1>2. to_fw' = <<>> => \A i \in 1 .. Len(to_fw') : to_fw'[i].file = 0
    OBVIOUS
<1>3. to_fw' = to_fw => \A i \in 1 .. Len(to_fw') : to_fw'[i].file = 0
    BY <1>1
<1>4. ASSUME to_fw # <<>>, to_fw' = Tail(to_fw)
      PROVE  /\ \A i \in 1 .. Len(to_fw') : to_fw'[i].file = 0
             /\ Head(to_fw).file = 0
    <2>1. /\ Head(to_fw) = to_fw[1] /\ Len(to_fw') = Len(to_fw) - 1 /\ Len(to_fw) > 0
          /\ \A i \in 1 .. Len(to_fw) - 1 : to_fw'[i] = to_fw[i + 1]
          /\ Len(to_fw) \in Nat
        BY <1>1, <1>4, TailIs
    <2>2. \A i \in 1 .. Len(to_fw) - 1 : i + 1 \in 1 .. Len(to_fw)
        BY <2>1
    <2>3. 1 \in 1 .. Len(to_fw)
        BY <2>1
    <2> QED
        BY <1>1, <2>1, <2>2, <2>3
<1>5. CASE FwTell
    BY <1>1, <1>4, <1>5, TellIs, HandlesIs
<1>6. CASE FwSet
    BY <1>1, <1>2, <1>6, SetIs DEF AckSent
<1>7. CASE FwInit
    BY <1>1, <1>2, <1>7, InitStepIs DEF AckSent, Boots
<1>8. CASE FwStart
    BY <1>1, <1>2, <1>8, StartStepIs DEF AckSent, Boots
<1>9. CASE FwGetRtc
    <2>1. /\ \A i \in 1 .. Len(to_fw') : to_fw'[i].file = 0
          /\ Head(to_fw).file = 0
        BY <1>4, <1>9, GetRtcIs, HandlesIs
    <2>2. PICK f \in Firmwares, c \in Cards, fs \in Seq(Lengths) :
             /\ Stops(f, c, fs)
             /\ \/ Opening(f, c, fs, 0) /\ Opens(FsOpen(f, c, fs, 0))
                \/ CardIs(c, fs) /\ Opens(0)
        BY <1>9, <2>1, GetRtcIs
    <2>3. FsOpen(f, c, fs, 0) \in {0, Len(files')}
        BY <1>1, <2>2, OpenLast
    <2> QED
        BY <2>1, <2>2, <2>3 DEF Opens
<1>10. CASE FwRead
    <2>1. /\ \A i \in 1 .. Len(to_fw') : to_fw'[i].file = 0
          /\ Head(to_fw).file = 0
        BY <1>4, <1>10, ReadIs, HandlesIs
    <2>2. PICK f \in Firmwares, c \in Cards, fs \in Seq(Lengths) :
             /\ Stops(f, c, fs)
             /\ \/ Opening(f, c, fs, 0) /\ Opens(FsOpen(f, c, fs, 0))
                \/ CardIs(c, fs) /\ (Opens(0) \/ Opens(f.open))
                \/ CardIs(c, fs) /\ Starts(FsOpen(f, c, fs, 0), Head(to_fw).seq)
        BY <1>10, <2>1, ReadOpens
    <2>3. /\ FsOpen(f, c, fs, 0) \in {0, Len(files')}
          /\ CardIs(c, fs) => f.open \in {0, Len(files')}
        BY <1>1, <2>2, OpenLast
    <2> QED
        BY <2>1, <2>2, <2>3 DEF Opens, Starts
<1>11. CASE FwSendBuffer
    BY <1>1, <1>3, <1>11, SendBufferIs
<1>12. CASE FwAbort \/ FwSendEnd
    BY <1>1, <1>3, <1>12, AbortIs, SendEndIs DEF Sends
<1> QED
    BY <1>5, <1>6, <1>7, <1>8, <1>9, <1>10, <1>11, <1>12 DEF FwStep

LEMMA BootKeepsLast ==
    ASSUME LastInv, Boots, host' = host
    PROVE  LastInv'
    BY DEF LastInv, Boots

LEMMA HostKeepsLast ==
    ASSUME TypeOK, FileInv, LastInv, HostStep \/ Kill
    PROVE  LastInv'
<1>1. CASE Hear \/ TimesOut
    <2>1. PICK r \in Replies : host' = After(r)
        BY <1>1, HostHears
    <2>2. host'.file = host.file /\ host'.kept = host.kept
        BY <2>1, AfterIs
    <2> QED
        BY <1>1, <2>2, HostHears DEF LastInv
<1>2. CASE Ask
    <2>1. host'.file = host.file /\ host'.kept = host.kept /\ fw' = fw /\ files' = files
        BY <1>2, AskIs DEF SameAs
    <2>2. CASE to_fw' = to_fw
        BY <2>1, <2>2 DEF LastInv
    <2>3. CASE \E q \in Requests : to_fw' = Append(to_fw, q) /\ q.file = host.file
        <3>1. PICK q \in Requests : to_fw' = Append(to_fw, q) /\ q.file = host.file
            BY <2>3
        <3>2. to_fw \in Seq(Requests)
            BY DEF TypeOK
        <3>3. /\ Len(to_fw') = Len(to_fw) + 1 /\ Len(to_fw) \in Nat
              /\ \A i \in 1 .. Len(to_fw) : to_fw'[i] = to_fw[i]
              /\ to_fw'[Len(to_fw) + 1] = q
            BY <3>1, <3>2, AppendIs
        <3>4. \A i \in 1 .. Len(to_fw') : i \in 1 .. Len(to_fw) \/ i = Len(to_fw) + 1
            BY <3>3
        <3> QED
            BY <2>1, <3>1, <3>3, <3>4 DEF LastInv
    <2> QED
        BY <1>2, <2>2, <2>3, AskIs
<1>3. CASE Kill
    BY <1>3, KillIs DEF LastInv, SameAs
<1> QED
    BY <1>1, <1>2, <1>3 DEF HostStep

LEMMA BeginKeepsLast ==
    ASSUME TypeOK, FileInv, NEW kind \in Kinds, NEW file \in Nat, Begin(kind, file)
    PROVE  LastInv'
<1>1. /\ fw'.open = fw.open /\ files' = files /\ to_fw' = to_fw
      /\ host'.kept = (\/ fw.open \notin {0, Len(files)}
                       \/ \E i \in 1 .. Len(to_fw) : to_fw[i].file > 0)
    BY BeginIs
<1>2. \A i \in 1 .. Len(to_fw) : to_fw[i].file \in Nat
    BY RequestFields DEF TypeOK
<1> QED
    BY <1>1, <1>2 DEF LastInv

-----------------------------------------------------------------------------
(* The file a session gets *)

(* The file a request of the session is answered from. *)
Target == FsOpen(fw, card, files, host.file)

OwnFrame(num) == Frame(Target, files[Target], num)

LEMMA TargetIs ==
    ASSUME TypeOK, FileInv
    PROVE  /\ Target \in 0 .. Len(files) /\ Target \in Nat /\ Len(files) \in Nat
           /\ Target > 0 => files[Target] \in Lengths
<1>1. /\ fw \in Firmwares /\ files \in Seq(Lengths) /\ fw.open \in 0 .. Len(files)
      /\ card \in Cards /\ host.file \in Nat
    BY HostFields DEF TypeOK, FileInv
<1>2. FsOpen(fw, card, files, host.file) \in 0 .. Len(files)
    BY <1>1, OpenIs
<1>3. Len(files) \in Nat
    BY <1>1
<1> QED
    BY <1>1, <1>2, <1>3 DEF Target

(* The file is missing, or has no first frame; all of the card was searched *)
(* for it.                                                                  *)
NoneFound ==
    /\ ~fw.recording /\ (Target > 0 => OwnFrame(0) = <<>>)
    /\ Target = 0 => ~card.full

(* While nothing is recorded, the file stays, and the end of the files has  *)
(* been come to if it was before.                                           *)
Steady ==
    ~fw.recording =>
        /\ ~fw'.recording /\ Target' = Target
        /\ Target > 0 => files' = files
        /\ ~card.full => ~card'.full

(* A request of the session leaves its file open, or none. *)
LEMMA OpenedTarget ==
    ASSUME NEW f, NEW c, NEW fs, Stops(f, c, fs), fw' \in Firmwares,
           host \in Hosts, host'.file = host.file, NEW n, n = host.file,
           \/ Opening(f, c, fs, n) /\ fw'.open = FsOpen(f, c, fs, n)
           \/ CardIs(c, fs) /\ fw'.open = FsOpen(f, c, fs, n)
           \/ CardIs(c, fs) /\ fw'.open = 0 /\ ~Quick(f, fs, n)
           \/ CardIs(c, fs) /\ fw'.open = f.open
    PROVE  /\ Target' = FsOpen(f, c, fs, n)
           /\ ~fw'.recording => Steady
<1>1. n \in Nat
    BY HostFields
<1>2. /\ f \in Firmwares /\ c \in Cards /\ fs \in Seq(Lengths) /\ f.open \in 0 .. Len(fs)
      /\ Len(fs) \in Nat
    BY DEF Stops
<1> DEFINE file == FsOpen(f, c, fs, n)
<1>3. /\ file \in 0 .. Len(fs) /\ file \in Nat
      /\ n > 0 => file = IF Found(c, fs, n) THEN n ELSE 0
      /\ n = 0 => file = IF Quick(f, fs, 0) THEN f.open ELSE IF c.full THEN 0 ELSE Len(fs)
      /\ Wipes(f, c, fs, n) => file = 0
    <2>1. /\ file \in 0 .. Len(fs) /\ file \in Nat
          /\ Wipes(f, c, fs, n) => file = 0
        BY <1>1, <1>2, OpenIs
    <2>2. n > 0 => file = IF Found(c, fs, n) THEN n ELSE 0
        BY <1>1, <1>2, OpenIs
    <2>3. n = 0 => file = IF Quick(f, fs, 0) THEN f.open ELSE IF c.full THEN 0 ELSE Len(fs)
        BY <1>1, <1>2, OpenIs
    <2> QED
        BY <2>1, <2>2, <2>3
<1>4. /\ file > 0 => CardIs(c, fs)
      /\ ~c.full => CardIs(c, fs)
    BY <1>1, CardStays
<1>5. Target' = FsOpen(fw', card', files', n)
    BY DEF Target
<1>6. f.open = fw.open => Quick(f, fs, n) = Quick(fw, fs, n)
    BY DEF Quick
<1>7. ~fw.recording => fs = files /\ c = card /\ f.open = fw.open
    BY DEF Stops
<1>8. ~fw.recording => file = Target
    BY <1>6, <1>7 DEF Target, FsOpen
<1> HIDE DEF file
<1>9. ASSUME CardIs(c, fs),
             fw'.open = file \/ fw'.open = f.open \/ (fw'.open = 0 /\ ~Quick(f, fs, n))
      PROVE  Target' = file
    <2>1. fw'.open \in 0 .. Len(fs) /\ card' = c /\ files' = fs
        BY <1>2, <1>3, <1>9 DEF CardIs
    <2> DEFINE g == fw'
    <2>2. Target' = FsOpen(g, c, fs, n)
        BY <1>5, <2>1
    <2>3. g \in Firmwares /\ g.open \in 0 .. Len(fs) /\ g.open = fw'.open
        BY <2>1
    <2> HIDE DEF g
    <2>4. CASE n > 0
        <3>1. FsOpen(g, c, fs, n) = IF Found(c, fs, n) THEN n ELSE 0
            BY <1>1, <1>2, <2>3, <2>4, OpenIs
        <3> QED
            BY <1>3, <2>2, <2>4, <3>1
    <2>5. n = 0 => FsOpen(g, c, fs, n) = IF Quick(g, fs, 0) THEN g.open
                                         ELSE IF c.full THEN 0 ELSE Len(fs)
        <3>1. \A h \in Firmwares : h.open \in 0 .. Len(fs) =>
                 FsOpen(h, c, fs, 0) = IF Quick(h, fs, 0) THEN h.open
                                       ELSE IF c.full THEN 0 ELSE Len(fs)
            BY <1>2, OpenIs
        <3> QED
            BY <2>3, <3>1
    <2>6. CASE n = 0 /\ Quick(f, fs, 0)
        <3>1. g.open = f.open
            BY <1>3, <1>9, <2>3, <2>6
        <3>2. Quick(g, fs, 0)
            BY <2>6, <3>1 DEF Quick
        <3> QED
            BY <1>3, <2>2, <2>5, <2>6, <3>1, <3>2
    <2>7. CASE n = 0 /\ ~Quick(f, fs, 0)
        <3>1. file = IF c.full THEN 0 ELSE Len(fs)
            BY <1>3, <2>7
        <3>2. Quick(g, fs, 0) => g.open > 0 /\ g.open # f.open
            BY <2>7 DEF Quick
        <3>3. Quick(g, fs, 0) => g.open = file
            BY <1>9, <2>3, <3>2
        <3> QED
            BY <2>2, <2>5, <2>7, <3>1, <3>3
    <2> QED
        BY <1>1, <2>4, <2>6, <2>7
<1>10. ASSUME Opening(f, c, fs, n), fw'.open = file, ~CardIs(c, fs)
       PROVE  Target' = file
    <2>1. CardIs(Formatted, <<>>) /\ Wipes(f, c, fs, n)
        BY <1>10 DEF Opening
    <2>2. /\ files' \in Seq(Lengths) /\ Len(files') = 0 /\ card' \in Cards /\ file = 0
          /\ fw'.open \in 0 .. Len(files')
        BY <1>3, <1>10, <2>1, FormattedIs
    <2> DEFINE g == fw'
               d == card'
               gs == files'
    <2>3. g \in Firmwares /\ d \in Cards /\ gs \in Seq(Lengths) /\ g.open \in 0 .. Len(gs)
          /\ Target' = FsOpen(g, d, gs, n) /\ Len(gs) = 0
        BY <1>5, <2>2
    <2> HIDE DEF g, d, gs
    <2>4. FsOpen(g, d, gs, n) \in 0 .. Len(gs)
        BY <1>1, <2>3, OpenIs
    <2> QED
        BY <2>2, <2>3, <2>4
<1>11. Target' = file
    BY <1>9, <1>10 DEF file, Opening
<1>12. ASSUME ~fw'.recording
       PROVE  Steady
    <2>1. CardIs(c, fs) => card' = c /\ files' = fs
        BY DEF CardIs
    <2> QED
        BY <1>4, <1>7, <1>8, <1>11, <1>12, <2>1 DEF Steady, file
<1> QED
    BY <1>11, <1>12 DEF file

-----------------------------------------------------------------------------
(* What is on its way belongs to the session *)

(* Reply r is to a request the session made from call lo on. *)
OwnReply(r, lo) ==
    \/ r.type \in {"cut", "stray"}
    \/ r.type \in {"hash", "eeprom"} /\ lo = 1
    \/ r.type = "ack" /\ \E k \in lo .. host.step : r.of = Calls("download")[k]
    \/ r.type = "rtc" /\ host.step >= 5
         /\ (r.num > 0 => ~fw.recording /\ r.num = Target)
    \/ /\ r.type = "frame" /\ host.step = 6
       /\ (r.data # <<>> \/ r.num > 0) =>
             /\ ~fw.recording /\ Target > 0 /\ r.data = OwnFrame(r.num)
       /\ (r.data = <<>> /\ r.num = 0 /\ faults = 0) => NoneFound

OwnReplies(lo)  == {r \in Replies : OwnReply(r, lo)}
OwnRequests(lo) ==
    {q \in Requests : /\ q.file = host.file
                      /\ \E k \in lo .. host.step : q.type = Calls("download")[k]}

(* Behind place i, all that is on its way is from call lo on. *)
Behind(i, lo) ==
    /\ \A j \in i + 1 .. Len(to_host) : to_host[j] \in OwnReplies(lo)
    /\ \A j \in 1 .. Len(to_fw) : to_fw[j] \in OwnRequests(lo)

(* The ack to a call of this type has flushed what came before. *)
Fence(type, lo) ==
    \A i \in 1 .. Len(to_host) :
        to_host[i].type = "ack" /\ to_host[i].of = type =>
            Behind(i, lo) /\ fw.pc = "idle"

(* A frame under way is of the session's file, and is asked for. *)
OwnSend ==
    fw.pc = "send" => host.step = 6 /\ fw.open = Target /\ fw.headless = FALSE

LinkInv ==
    host.kind = "download" =>
        /\ host.step < 3 => Fence("SET_RTC", 1)
        /\ host.step = 4 => Fence("GET_MODE_PORTABLE", 4)
        /\ host.step \in {3, 4} => Behind(0, 1)
        /\ host.step >= 5 => Behind(0, 4)
        /\ host.step >= 3 => OwnSend

(* That there is nothing in the file stays as it is. *)
LEMMA NoneStays ==
    ASSUME Steady, NoneFound
    PROVE  NoneFound'
<1>1. ~fw.recording
    BY DEF NoneFound
<1>2. ~fw'.recording /\ Target' = Target
    BY <1>1 DEF Steady
<1>3. Target' > 0 => files' = files /\ Frame(Target', files'[Target'], 0) = <<>>
    BY <1>1, <1>2 DEF Steady, NoneFound, OwnFrame
<1>4. Target' = 0 => ~card'.full
    BY <1>1, <1>2 DEF Steady, NoneFound
<1> QED
    BY <1>2, <1>3, <1>4 DEF NoneFound, OwnFrame

(* A reply stays the session's. *)
LEMMA OwnStays ==
    ASSUME TypeOK, host'.step \in 1 .. 6, host'.step >= host.step,
           faults' \in Nat, faults' >= faults,
           host.step < 5 \/ Steady, NEW lo
    PROVE  OwnReplies(lo) \subseteq OwnReplies(lo)'
<1> SUFFICES ASSUME NEW r \in Replies, OwnReply(r, lo)
             PROVE  r \in OwnReplies(lo)'
    BY DEF OwnReplies
<1>1. host.step \in 1 .. 6 /\ faults \in Nat
    BY HostFields DEF TypeOK
<1>2. CASE r.type \in {"cut", "stray"} \/ (r.type \in {"hash", "eeprom"} /\ lo = 1)
    BY <1>2 DEF OwnReplies, OwnReply
<1>3. CASE r.type = "ack" /\ \E k \in lo .. host.step : r.of = Calls("download")[k]
    <2>1. PICK k \in lo .. host.step : r.of = Calls("download")[k]
        BY <1>3
    <2>2. k \in lo .. host'.step
        BY <1>1, <2>1
    <2> QED
        BY <1>3, <2>1, <2>2 DEF OwnReplies, OwnReply
<1>4. CASE r.type = "rtc" /\ host.step >= 5
             /\ (r.num > 0 => ~fw.recording /\ r.num = Target)
    <2>1. host'.step >= 5 /\ Steady
        BY <1>1, <1>4
    <2>2. r.num > 0 => ~fw'.recording /\ r.num = Target'
        BY <1>4, <2>1 DEF Steady
    <2> QED
        BY <1>4, <2>1, <2>2 DEF OwnReplies, OwnReply
<1>5. CASE /\ r.type = "frame" /\ host.step = 6
           /\ (r.data # <<>> \/ r.num > 0) =>
                 /\ ~fw.recording /\ Target > 0 /\ r.data = OwnFrame(r.num)
           /\ (r.data = <<>> /\ r.num = 0 /\ faults = 0) => NoneFound
    <2>1. host'.step = 6 /\ Steady
        BY <1>1, <1>5
    <2>2. faults' = 0 => faults = 0
        BY <1>1
    <2>3. (r.data # <<>> \/ r.num > 0) =>
             /\ ~fw'.recording /\ Target' > 0 /\ r.data = Frame(Target', files'[Target'], r.num)
        BY <1>5, <2>1 DEF Steady, OwnFrame
    <2>4. (r.data = <<>> /\ r.num = 0 /\ faults' = 0) => NoneFound'
        BY <1>5, <2>1, <2>2, NoneStays
    <2> QED
        BY <1>5, <2>1, <2>3, <2>4 DEF OwnReplies, OwnReply, OwnFrame
<1> QED
    BY <1>2, <1>3, <1>4, <1>5 DEF OwnReply

(* The requests are the session's, from call lo on, and so is a frame that  *)
(* is under way.                                                            *)
OwnLink(lo) ==
    /\ host.kind = "download" /\ host \in Hosts
    /\ (lo = 1 /\ host.step < 5) \/ (lo = 4 /\ host.step >= 4)
    /\ \A j \in 1 .. Len(to_fw) : to_fw[j] \in OwnRequests(lo)
    /\ OwnSend

(* The call a request is for. *)
LEMMA OwnCall ==
    ASSUME TypeOK, FileInv, NEW lo, OwnLink(lo), NEW type, Handles(type)
    PROVE  /\ Head(to_fw).file = host.file
           /\ type \notin {"INIT", "START_SAMPLING_SD", "GAIN_SET"}
           /\ type \in {"GET_GIT_HASH", "READ_EEPROM", "SET_RTC"} => lo = 1
           /\ type = "GET_RTC" => host.step >= 5
           /\ type = "READ_SD_UART" => host.step = 6
           /\ \E k \in lo .. host.step : type = Calls("download")[k]
<1>1. Head(to_fw) = to_fw[1] /\ Head(to_fw).type = type /\ Len(to_fw) > 0 /\ Len(to_fw) \in Nat
    BY HandlesIs, LinkLengths
<1>2. Head(to_fw) \in OwnRequests(lo)
    BY <1>1 DEF OwnLink
<1>3. PICK k \in lo .. host.step : type = Calls("download")[k]
    BY <1>1, <1>2 DEF OwnRequests
<1>4. /\ host.step \in 1 .. 6 /\ k \in 1 .. 6 /\ k <= host.step /\ lo <= k
      /\ (lo = 1 \/ lo = 4)
    <2>1. (lo = 1 \/ lo = 4) /\ host.step \in 1 .. 6
        BY HostFields DEF OwnLink
    <2> QED
        BY <2>1
<1>5. k = 1 \/ k = 2 \/ k = 3 \/ k = 4 \/ k = 5 \/ k = 6
    BY <1>4
<1> DEFINE d == Calls("download")
<1>6. /\ d[1] = "GET_GIT_HASH" /\ d[2] = "SET_RTC" /\ d[3] = "READ_EEPROM"
      /\ d[4] = "GET_MODE_PORTABLE" /\ d[5] = "GET_RTC" /\ d[6] = "READ_SD_UART"
    BY CallsAre
<1>7. type = d[k]
    BY <1>3
<1> HIDE DEF d
<1>8. /\ type \notin {"INIT", "START_SAMPLING_SD", "GAIN_SET"}
      /\ type = "GET_RTC" => k = 5
      /\ type = "READ_SD_UART" => k = 6
      /\ type \in {"GET_GIT_HASH", "READ_EEPROM", "SET_RTC"} => k < 4
    BY <1>5, <1>6, <1>7
<1>9. /\ type = "GET_RTC" => host.step >= 5
      /\ type = "READ_SD_UART" => host.step = 6
      /\ type \in {"GET_GIT_HASH", "READ_EEPROM", "SET_RTC"} => lo = 1
    BY <1>4, <1>8
<1> QED
    BY <1>2, <1>3, <1>8, <1>9 DEF OwnRequests

(* Requests go, and replies of the session come. *)
Flows(lo) ==
    /\ host' = host /\ faults' \in Nat /\ faults' >= faults
    /\ Steady
    /\ \/ to_host' = to_host
       \/ \E r \in OwnReplies(lo)' : to_host' = Append(to_host, r)
    /\ \/ to_fw' = to_fw \/ to_fw' = <<>>
       \/ to_fw # <<>> /\ to_fw' = Tail(to_fw)
    /\ OwnSend'

LEMMA OwnBroken ==
    ASSUME NEW lo, NEW r \in Replies, r.type \in {"cut", "stray"}
    PROVE  r \in OwnReplies(lo)'
    BY DEF OwnReplies, OwnReply

LEMMA SameFile ==
    ASSUME host'.file = host.file, fw'.open = fw.open, files' = files, card' = card
    PROVE  Target' = Target
    BY DEF Target, FsOpen, Quick

LEMMA SameSend ==
    ASSUME host'.file = host.file, host'.step = host.step, fw' = fw, files' = files,
           card' = card, OwnSend
    PROVE  OwnSend'
<1>1. Target' = Target
    BY SameFile
<1> QED
    BY <1>1 DEF OwnSend

LEMMA FwFlows ==
    ASSUME TypeOK, FileInv, NEW lo, OwnLink(lo), FwStep
    PROVE  Flows(lo)
<1>1. host' = host /\ host \in Hosts /\ host.step \in 1 .. 6 /\ host'.file = host.file
    BY HostFields DEF TypeOK, FwStep
<1>2. /\ \A r \in Replies : r.type \in {"cut", "stray"} => r \in OwnReplies(lo)'
      /\ STRAY \in OwnReplies(lo)'
    BY OwnBroken, ReplyIs
<1>3. ASSUME fw'.open = fw.open, fw'.recording = fw.recording, files' = files, card' = card
      PROVE  Steady /\ Target' = Target
    BY <1>1, <1>3, SameFile DEF Steady
<1>4. fw'.pc = "idle" => OwnSend'
    BY DEF OwnSend
<1>5. CASE FwTell
    <2>1. /\ fw' = fw /\ files' = files /\ card' = card
          /\ to_fw' = Tail(to_fw) /\ to_fw # <<>>
          /\ fw.pc = "idle" /\ faults' \in Nat /\ faults' >= faults
        BY <1>5, TellIs, HandlesIs
    <2>2. PICK r \in Replies :
             /\ to_host' = Append(to_host, r)
             /\ \/ r.type = "cut"
                \/ r.type \in {"hash", "eeprom"}
        BY <1>5, TellIs
    <2>3. lo = 1
        BY <1>5, TellIs, OwnCall
    <2>4. r \in OwnReplies(lo)'
        BY <1>2, <2>2, <2>3 DEF OwnReplies, OwnReply
    <2> QED
        BY <1>1, <1>3, <1>4, <2>1, <2>2, <2>4 DEF Flows
<1>6. CASE FwSet
    <2>1. PICK type \in {"SET_RTC", "GAIN_SET", "GET_MODE_PORTABLE"} :
             Handles(type) /\ AckSent(type)
        BY <1>6, SetIs
    <2>2. fw' = fw /\ files' = files /\ card' = card /\ fw.pc = "idle"
        BY <1>6, <2>1, SetIs, HandlesIs
    <2>3. PICK r \in Replies :
             /\ to_host' = Append(to_host, r)
             /\ r.type = "cut" \/ (r.type = "ack" /\ r.of = type)
        BY <2>1 DEF AckSent
    <2>4. \E k \in lo .. host.step : type = Calls("download")[k]
        BY <2>1, OwnCall
    <2>5. r \in OwnReplies(lo)'
        BY <1>1, <1>2, <2>3, <2>4 DEF OwnReplies, OwnReply
    <2> QED
        BY <1>1, <1>3, <1>4, <2>1, <2>2, <2>3, <2>5 DEF Flows, AckSent
<1>7. CASE FwInit \/ FwStart
    BY <1>7, InitStepIs, StartStepIs, OwnCall
<1>8. CASE FwGetRtc
    <2>1. /\ Handles("GET_RTC") /\ to_fw' = Tail(to_fw) /\ faults' \in Nat /\ faults' >= faults
          /\ to_fw # <<>> /\ Head(to_fw).file = host.file /\ host.step >= 5
        BY <1>8, GetRtcIs, HandlesIs, OwnCall
    <2> DEFINE q == Head(to_fw).file
    <2>2. PICK f \in Firmwares, c \in Cards, fs \in Seq(Lengths), r \in Replies :
             LET file == FsOpen(f, c, fs, q) IN
             /\ Stops(f, c, fs) /\ to_host' = Append(to_host, r)
             /\ \/ /\ Opening(f, c, fs, q) /\ Opens(file)
                   /\ \/ faults' > faults /\ r.type = "cut"
                      \/ faults' = faults /\ r.type = "rtc" /\ r.num = file
                \/ /\ CardIs(c, fs) /\ Opens(0) /\ ~Quick(f, fs, q)
                   /\ faults' > faults /\ r.type = "rtc" /\ r.num = 0
        BY <1>8, GetRtcIs
    <2> DEFINE file == FsOpen(f, c, fs, q)
    <2>3. fw' \in Firmwares /\ fw'.recording = FALSE /\ fw'.pc = "idle"
        BY <2>2 DEF Opens
    <2>9. q = host.file
        BY <2>1
    <2> HIDE DEF q
    <2>4. Target' = file /\ Steady
        <3>1. \/ Opening(f, c, fs, q) /\ fw'.open = FsOpen(f, c, fs, q)
              \/ CardIs(c, fs) /\ fw'.open = 0 /\ ~Quick(f, fs, q)
            BY <2>2 DEF Opens
        <3> QED
            BY <1>1, <2>2, <2>3, <2>9, <3>1, OpenedTarget
    <2>7. r \in OwnReplies(lo)'
        <3>1. r.num > 0 => r.type = "cut" \/ r.num = Target'
            BY <2>2, <2>4
        <3>2. r.type = "cut" \/ r.type = "rtc"
            BY <2>2
        <3> QED
            BY <1>1, <1>2, <2>1, <2>3, <3>1, <3>2 DEF OwnReplies, OwnReply
    <2> QED
        BY <1>1, <1>4, <2>1, <2>2, <2>3, <2>4, <2>7 DEF Flows
<1>9. CASE FwRead
    <2> DEFINE q   == Head(to_fw).file
               seq == Head(to_fw).seq
    <2>1. /\ Handles("READ_SD_UART") /\ to_fw' = Tail(to_fw)
          /\ faults' \in Nat /\ faults' >= faults
          /\ to_fw # <<>> /\ q = host.file /\ host.step = 6
          /\ seq \in Nat /\ q \in Nat /\ faults \in Nat
        BY <1>9, ReadIs, HandlesIs, OwnCall, RequestFields DEF TypeOK
    <2>2. PICK f \in Firmwares, c \in Cards, fs \in Seq(Lengths) :
             LET file == FsOpen(f, c, fs, q) IN
             /\ Stops(f, c, fs)
             /\ \/ /\ Opening(f, c, fs, q) /\ Opens(file)
                   /\ file > 0 => Frame(file, files'[file], seq) = <<>>
                   /\ \/ /\ faults' > faults
                         /\ \E r \in Replies : r.type = "cut"
                                             /\ to_host' = Append(to_host, r)
                      \/ to_host' = Append(to_host,
                                      Reply("frame", "", EofSeqnum(file, seq), <<>>))
                         /\ faults' = faults
                \/ /\ CardIs(c, fs) /\ Starts(file, seq) /\ file > 0 /\ faults' = faults
                   /\ to_host' = to_host
                \/ /\ CardIs(c, fs) /\ Opens(0) /\ ~Quick(f, fs, q) /\ faults' > faults
                   /\ to_host' = Append(to_host, Reply("frame", "", 0, <<>>))
                \/ /\ CardIs(c, fs) /\ Opens(f.open) /\ faults' > faults
                   /\ to_host' = to_host
        BY <1>9, ReadIs
    <2> DEFINE file == FsOpen(f, c, fs, q)
    <2>3. fw' \in Firmwares /\ fw'.recording = FALSE
        BY <2>2 DEF Opens, Starts
    <2> HIDE DEF q, seq
    <2>4. Target' = file /\ Steady
        <3>1. \/ Opening(f, c, fs, q) /\ fw'.open = FsOpen(f, c, fs, q)
              \/ CardIs(c, fs) /\ fw'.open = FsOpen(f, c, fs, q)
              \/ CardIs(c, fs) /\ fw'.open = 0 /\ ~Quick(f, fs, q)
              \/ CardIs(c, fs) /\ fw'.open = f.open
            BY <2>2 DEF Opens, Starts
        <3> QED
            BY <1>1, <2>1, <2>2, <2>3, <3>1, OpenedTarget
    <2>7. \A n \in Nat :
             /\ Reply("frame", "", n, <<>>) \in Replies
             /\ Reply("frame", "", n, <<>>).type = "frame"
             /\ Reply("frame", "", n, <<>>).num = n
             /\ Reply("frame", "", n, <<>>).data = <<>>
        BY NoData DEF Reply, Replies, ReplyTypes, Ofs
    <2>8. file \in Nat /\ (Opening(f, c, fs, q) /\ file = 0 => ~card'.full)
        <3>1. Opening(f, c, fs, q) \/ CardIs(c, fs)
            BY <2>2
        <3> QED
            BY <2>1, <2>2, <3>1, CardStays
    <2> HIDE DEF file
    <2>9. CASE /\ Opening(f, c, fs, q) /\ Opens(file)
               /\ file > 0 => Frame(file, files'[file], seq) = <<>>
               /\ to_host' = Append(to_host, Reply("frame", "", EofSeqnum(file, seq), <<>>))
        <3> DEFINE n == EofSeqnum(file, seq)
        <3>1. n \in Nat /\ (n > 0 => file > 0) /\ (file > 0 => n = seq)
            BY <2>1, <2>8 DEF EofSeqnum
        <3> HIDE DEF n
        <3>2. PICK r \in Replies : /\ r = Reply("frame", "", n, <<>>) /\ r.type = "frame"
                                   /\ r.num = n /\ r.data = <<>>
            BY <2>7, <3>1
        <3>3. r.num > 0 => Target' > 0 /\ r.data = Frame(Target', files'[Target'], r.num)
            BY <2>4, <2>9, <3>1, <3>2
        <3>4. r.num = 0 => NoneFound'
            <4>1. r.num = 0 => (Target' > 0 => Frame(Target', files'[Target'], 0) = <<>>)
                BY <2>4, <2>9, <3>1, <3>2
            <4>2. Target' = 0 => ~card'.full
                BY <2>4, <2>8, <2>9
            <4> QED
                BY <2>3, <4>1, <4>2 DEF NoneFound, OwnFrame
        <3>5. r \in OwnReplies(lo)'
            BY <1>1, <2>1, <2>3, <3>2, <3>3, <3>4 DEF OwnReplies, OwnReply, OwnFrame
        <3>6. fw'.pc = "idle" /\ to_host' = Append(to_host, r)
            BY <2>9, <3>2 DEF Opens, n
        <3> QED
            BY <1>1, <1>4, <2>1, <2>4, <3>5, <3>6 DEF Flows
    <2>10. ASSUME Opens(file),
                  NEW r \in Replies, r.type = "cut", to_host' = Append(to_host, r)
           PROVE  Flows(lo)
        <3>1. r \in OwnReplies(lo)' /\ fw'.pc = "idle"
            BY <1>2, <2>10 DEF Opens
        <3> QED
            BY <1>1, <1>4, <2>1, <2>4, <2>10, <3>1 DEF Flows
    <2>11. CASE Starts(file, seq) /\ to_host' = to_host
        <3>1. OwnSend'
            BY <1>1, <2>1, <2>4, <2>11 DEF OwnSend, Starts
        <3> QED
            BY <1>1, <2>1, <2>4, <2>11, <3>1 DEF Flows
    <2>12. CASE /\ Opens(0) /\ faults' > faults
                /\ to_host' = Append(to_host, Reply("frame", "", 0, <<>>))
        <3>1. PICK r \in Replies : /\ r = Reply("frame", "", 0, <<>>) /\ r.type = "frame"
                                   /\ r.num = 0 /\ r.data = <<>>
            BY <2>7
        <3>2. faults' # 0
            <4>1. faults' \in Nat /\ faults \in Nat /\ faults' > faults
                BY <2>1, <2>12
            <4> QED
                BY ONLY <4>1
        <3>3. r \in OwnReplies(lo)'
            <4>1. host'.step = 6 /\ ~(r.num > 0) /\ ~(r.data # <<>>)
                <5>1. r.num = 0 /\ r.data = <<>>
                    BY <3>1
                <5>2. ~(r.num > 0)
                    BY ONLY <5>1
                <5> QED
                    BY <1>1, <2>1, <5>1, <5>2
            <4> QED
                BY <3>1, <3>2, <4>1 DEF OwnReplies, OwnReply
        <3> QED
            BY <1>1, <1>4, <2>1, <2>4, <2>12, <3>1, <3>3 DEF Flows, Opens
    <2>13. CASE Opens(f.open) /\ to_host' = to_host
        BY <1>1, <1>4, <2>1, <2>4, <2>13 DEF Flows, Opens
    <2>14. \/ /\ Opening(f, c, fs, q) /\ Opens(file)
              /\ file > 0 => Frame(file, files'[file], seq) = <<>>
              /\ \/ \E r \in Replies : r.type = "cut" /\ to_host' = Append(to_host, r)
                 \/ to_host' = Append(to_host,
                                 Reply("frame", "", EofSeqnum(file, seq), <<>>))
           \/ Starts(file, seq) /\ to_host' = to_host
           \/ /\ Opens(0) /\ faults' > faults
              /\ to_host' = Append(to_host, Reply("frame", "", 0, <<>>))
           \/ Opens(f.open) /\ to_host' = to_host
        BY <2>2 DEF file
    <2> QED
        BY <2>9, <2>10, <2>11, <2>12, <2>13, <2>14
<1>10. CASE FwSendBuffer
    <2>1. Steady /\ Target' = Target /\ faults' \in Nat /\ faults' >= faults
        BY <1>3, <1>10, SendBufferIs DEF TypeOK
    <2>2. OwnSend'
        BY <1>1, <1>10, <2>1, SendBufferIs DEF OwnSend, OwnLink
    <2> QED
        BY <1>1, <1>10, <2>1, <2>2, SendBufferIs DEF Flows
<1>11. CASE FwAbort
    <2>1. Steady /\ fw'.pc = "idle" /\ to_fw' = to_fw /\ faults' \in Nat /\ faults' >= faults
        BY <1>3, <1>11, AbortIs DEF Sends
    <2>2. to_host' = to_host \/ \E r \in OwnReplies(lo)' : to_host' = Append(to_host, r)
        BY <1>2, <1>11, AbortIs
    <2> QED
        BY <1>1, <1>4, <2>1, <2>2 DEF Flows
<1>12. CASE FwSendEnd
    <2>1. Steady /\ Target' = Target /\ fw'.pc = "idle" /\ fw'.recording = fw.recording
          /\ files' = files
        BY <1>3, <1>12, SendEndIs DEF Sends
    <2>2. /\ fw.pc = "send" /\ host.step = 6 /\ fw.open = Target /\ fw.open > 0 /\ ~fw.recording
        BY <1>12, SendEndIs DEF Sends, OwnLink, OwnSend, FileInv
    <2>3. PICK r \in Replies :
             /\ to_host' = Append(to_host, r)
             /\ \/ r.type = "cut" \/ r = STRAY
                \/ /\ r.type = "frame" /\ r.num = fw.seq
                   /\ r.data = Frame(fw.open, files[fw.open], fw.seq)
        BY <1>12, SendEndIs
    <2>4. ASSUME r.type = "frame", r.num = fw.seq,
                 r.data = Frame(fw.open, files[fw.open], fw.seq)
          PROVE  r \in OwnReplies(lo)'
        <3>1. ~fw'.recording /\ Target' > 0 /\ r.data = Frame(Target', files'[Target'], r.num)
            BY <2>1, <2>2, <2>4
        <3>2. r.num = 0 /\ r.data = <<>> => NoneFound'
            <4>1. Target' # 0
                BY <2>1, <2>2
            <4> QED
                BY <3>1, <4>1 DEF NoneFound, OwnFrame
        <3> QED
            BY <1>1, <2>2, <2>4, <3>1, <3>2 DEF OwnReplies, OwnReply, OwnFrame
    <2>5. r \in OwnReplies(lo)'
        BY <1>2, <2>3, <2>4
    <2> QED
        BY <1>1, <1>4, <1>12, <2>1, <2>3, <2>5, SendEndIs DEF Flows, Sends
<1> QED
    BY <1>5, <1>6, <1>7, <1>8, <1>9, <1>10, <1>11, <1>12 DEF FwStep

(* What was behind a place is behind it still. *)
LEMMA FlowsBehind ==
    ASSUME TypeOK, NEW lo, Flows(lo), NEW i \in 0 .. Len(to_host), Behind(i, lo)
    PROVE  /\ \A j \in i + 1 .. Len(to_host') : to_host'[j] \in OwnReplies(lo)'
           /\ \A j \in 1 .. Len(to_fw') : to_fw'[j] \in OwnRequests(lo)'
<1>1. /\ to_host \in Seq(Replies) /\ to_fw \in Seq(Requests) /\ host' = host
      /\ host.step \in 1 .. 6 /\ Len(to_host) \in Nat /\ Len(to_fw) \in Nat
    BY HostFields, LinkLengths DEF TypeOK, Flows
<1>2. OwnReplies(lo) \subseteq OwnReplies(lo)'
    BY <1>1, OwnStays DEF Flows
<1>3. OwnRequests(lo)' = OwnRequests(lo)
    BY <1>1 DEF OwnRequests
<1>4. /\ \A j \in i + 1 .. Len(to_host) : to_host[j] \in OwnReplies(lo)'
      /\ \A j \in 1 .. Len(to_fw) : to_fw[j] \in OwnRequests(lo)
    BY <1>2 DEF Behind
<1>5. \A j \in i + 1 .. Len(to_host') : to_host'[j] \in OwnReplies(lo)'
    <2>1. CASE to_host' = to_host
        BY <1>4, <2>1
    <2>2. ASSUME NEW r \in OwnReplies(lo)', to_host' = Append(to_host, r)
          PROVE  \A j \in i + 1 .. Len(to_host') : to_host'[j] \in OwnReplies(lo)'
        <3>1. r \in Replies
            BY DEF OwnReplies
        <3>2. /\ Len(to_host') = Len(to_host) + 1
              /\ \A j \in 1 .. Len(to_host) : to_host'[j] = to_host[j]
              /\ to_host'[Len(to_host) + 1] = r
            BY <1>1, <2>2, <3>1, AppendIs
        <3> TAKE j \in i + 1 .. Len(to_host')
        <3>3. j = Len(to_host) + 1 \/ (j \in i + 1 .. Len(to_host) /\ j \in 1 .. Len(to_host))
            BY <1>1, <3>2
        <3> QED
            BY <1>4, <2>2, <3>2, <3>3
    <2> QED
        BY <2>1, <2>2 DEF Flows
<1>6. \A j \in 1 .. Len(to_fw') : to_fw'[j] \in OwnRequests(lo)
    <2>1. CASE to_fw' = to_fw \/ to_fw' = <<>>
        BY <1>4, <2>1
    <2>2. CASE to_fw # <<>> /\ to_fw' = Tail(to_fw)
        <3>1. /\ Len(to_fw') = Len(to_fw) - 1
              /\ \A j \in 1 .. Len(to_fw) - 1 : to_fw'[j] = to_fw[j + 1]
            BY <1>1, <2>2, TailIs
        <3>2. \A j \in 1 .. Len(to_fw) - 1 : j + 1 \in 1 .. Len(to_fw)
            BY <1>1
        <3> QED
            BY <1>4, <3>1, <3>2
    <2> QED
        BY <2>1, <2>2 DEF Flows
<1> QED
    BY <1>3, <1>5, <1>6

(* An ack is the last reply, and leaves nothing behind it. *)
LEMMA NewReply ==
    ASSUME TypeOK, FileInv, FwStep
    PROVE  \/ to_host' = to_host
           \/ \E r \in Replies :
                 /\ to_host' = Append(to_host, r)
                 /\ r.type = "ack" => to_fw' = <<>> /\ fw'.pc = "idle"
<1>1. STRAY.type = "stray"
    BY ReplyIs
<1>2. \A n \in Nat : /\ Reply("frame", "", n, <<>>) \in Replies
                    /\ Reply("frame", "", n, <<>>).type = "frame"
    BY NoData DEF Reply, Replies, ReplyTypes, Ofs
<1>3. CASE FwTell
    BY <1>1, <1>3, TellIs
<1>4. CASE FwSet
    BY <1>4, SetIs, HandlesIs DEF AckSent
<1>5. CASE FwInit
    BY <1>5, InitStepIs DEF AckSent, Boots
<1>6. CASE FwStart
    BY <1>6, StartStepIs DEF AckSent, Boots
<1>7. CASE FwGetRtc
    BY <1>7, GetRtcIs
<1>8. CASE FwRead
    <2>1. Head(to_fw).file \in Nat /\ Head(to_fw).seq \in Nat
        BY <1>8, ReadIs, HandlesIs, RequestFields
    <2> DEFINE q   == Head(to_fw).file
               seq == Head(to_fw).seq
    <2>2. PICK f \in Firmwares, c \in Cards, fs \in Seq(Lengths) :
             LET file == FsOpen(f, c, fs, q) IN
             /\ Stops(f, c, fs)
             /\ \/ /\ Opening(f, c, fs, q) /\ Opens(file)
                   /\ file > 0 => Frame(file, files'[file], seq) = <<>>
                   /\ \/ /\ faults' > faults
                         /\ \E r \in Replies : r.type = "cut"
                                             /\ to_host' = Append(to_host, r)
                      \/ to_host' = Append(to_host,
                                      Reply("frame", "", EofSeqnum(file, seq), <<>>))
                         /\ faults' = faults
                \/ /\ CardIs(c, fs) /\ Starts(file, seq) /\ file > 0 /\ faults' = faults
                   /\ to_host' = to_host
                \/ /\ CardIs(c, fs) /\ Opens(0) /\ ~Quick(f, fs, q) /\ faults' > faults
                   /\ to_host' = Append(to_host, Reply("frame", "", 0, <<>>))
                \/ /\ CardIs(c, fs) /\ Opens(f.open) /\ faults' > faults
                   /\ to_host' = to_host
        BY <1>8, ReadIs
    <2> DEFINE n == EofSeqnum(FsOpen(f, c, fs, q), seq)
    <2>3. n \in Nat
        BY <2>1 DEF EofSeqnum
    <2>4. \/ to_host' = to_host
          \/ \E r \in Replies : r.type = "cut" /\ to_host' = Append(to_host, r)
          \/ to_host' = Append(to_host, Reply("frame", "", n, <<>>))
          \/ to_host' = Append(to_host, Reply("frame", "", 0, <<>>))
        BY <2>2
    <2> HIDE DEF n
    <2> QED
        BY <1>2, <2>3, <2>4
<1>9. CASE FwSendBuffer
    BY <1>9, SendBufferIs
<1>10. CASE FwAbort
    BY <1>10, AbortIs
<1>11. CASE FwSendEnd
    BY <1>1, <1>11, SendEndIs
<1> QED
    BY <1>3, <1>4, <1>5, <1>6, <1>7, <1>8, <1>9, <1>10, <1>11 DEF FwStep

LEMMA FwKeepsFence ==
    ASSUME TypeOK, FileInv, FwStep, host.kind = "download",
           NEW type, NEW lo, Fence(type, lo),
           (lo = 1 /\ host.step < 3) \/ (lo = 4 /\ host.step = 4)
    PROVE  Fence(type, lo)'
<1> SUFFICES ASSUME NEW i \in 1 .. Len(to_host'),
                    to_host'[i].type = "ack", to_host'[i].of = type
             PROVE  /\ \A j \in i + 1 .. Len(to_host') : to_host'[j] \in OwnReplies(lo)'
                    /\ \A j \in 1 .. Len(to_fw') : to_fw'[j] \in OwnRequests(lo)'
                    /\ fw'.pc = "idle"
    BY DEF Fence, Behind
<1>1. /\ host' = host /\ host \in Hosts /\ host.step \in 1 .. 6 /\ Len(to_host) \in Nat
      /\ to_host \in Seq(Replies)
    BY HostFields, LinkLengths DEF TypeOK, FwStep
<1>2. CASE i \in 1 .. Len(to_host) /\ to_host'[i] = to_host[i]
    <2>1. Behind(i, lo) /\ fw.pc = "idle"
        BY <1>2 DEF Fence
    <2>2. OwnLink(lo)
        BY <1>1, <2>1 DEF OwnLink, OwnSend, Behind
    <2>3. Flows(lo)
        BY <2>2, FwFlows
    <2>4. i \in 0 .. Len(to_host)
        BY <1>1, <1>2
    <2>5. fw'.pc = "idle"
        <3>1. fw'.pc \in {"idle", "send"}
            BY FwStepKeepsTypes, FwFields DEF TypeOK
        <3>2. OwnSend'
            BY <2>3 DEF Flows
        <3> QED
            BY <1>1, <3>1, <3>2 DEF OwnSend
    <2> QED
        BY <2>1, <2>3, <2>4, <2>5, FlowsBehind
<1>3. CASE to_host' = to_host
    BY <1>2, <1>3
<1>4. ASSUME NEW r \in Replies, to_host' = Append(to_host, r),
             r.type = "ack" => to_fw' = <<>> /\ fw'.pc = "idle"
      PROVE  /\ \A j \in i + 1 .. Len(to_host') : to_host'[j] \in OwnReplies(lo)'
             /\ \A j \in 1 .. Len(to_fw') : to_fw'[j] \in OwnRequests(lo)'
             /\ fw'.pc = "idle"
    <2>1. /\ Len(to_host') = Len(to_host) + 1 /\ to_host'[Len(to_host) + 1] = r
          /\ \A j \in 1 .. Len(to_host) : to_host'[j] = to_host[j]
        BY <1>1, <1>4, AppendIs
    <2>2. CASE i = Len(to_host) + 1
        <3>1. to_fw' = <<>> /\ fw'.pc = "idle"
            BY <1>4, <2>1, <2>2
        <3>2. i + 1 > Len(to_host')
            BY <1>1, <2>1, <2>2
        <3>3. (i + 1 .. Len(to_host')) = {}
            BY <1>1, <2>1, <3>2
        <3>4. (1 .. Len(to_fw')) = {}
            BY <3>1
        <3> QED
            BY <3>1, <3>3, <3>4
    <2>3. CASE i # Len(to_host) + 1
        BY <1>1, <1>2, <2>1, <2>3
    <2> QED
        BY <2>2, <2>3
<1> QED
    BY <1>3, <1>4, NewReply

LEMMA FwStepKeepsLink ==
    ASSUME TypeOK, FileInv, LinkInv, FwStep
    PROVE  LinkInv'
<1> SUFFICES ASSUME host.kind = "download"
             PROVE  /\ host.step < 3 => Fence("SET_RTC", 1)'
                    /\ host.step = 4 => Fence("GET_MODE_PORTABLE", 4)'
                    /\ host.step \in {3, 4} => Behind(0, 1)'
                    /\ host.step >= 5 => Behind(0, 4)'
                    /\ host.step >= 3 => OwnSend'
    BY DEF LinkInv, FwStep
<1>1. /\ host' = host /\ host \in Hosts /\ host.step \in 1 .. 6 /\ 0 \in 0 .. Len(to_host)
    <2>1. Len(to_host) \in Nat
        BY LinkLengths
    <2>2. 0 \in 0 .. Len(to_host)
        BY ONLY <2>1
    <2> QED
        BY <2>2, HostFields DEF TypeOK, FwStep
<1>2. host.step < 3 => Fence("SET_RTC", 1)'
    BY FwKeepsFence DEF LinkInv
<1>3. host.step = 4 => Fence("GET_MODE_PORTABLE", 4)'
    BY FwKeepsFence DEF LinkInv
<1>4. ASSUME host.step \in {3, 4}
      PROVE  Behind(0, 1)' /\ OwnSend'
    <2>1. Behind(0, 1) /\ OwnSend
        BY <1>1, <1>4 DEF LinkInv
    <2>2. OwnLink(1)
        BY <1>1, <1>4, <2>1 DEF OwnLink, Behind
    <2>3. Flows(1)
        BY <2>2, FwFlows
    <2>4. /\ \A j \in 0 + 1 .. Len(to_host') : to_host'[j] \in OwnReplies(1)'
          /\ \A j \in 1 .. Len(to_fw') : to_fw'[j] \in OwnRequests(1)'
        BY <1>1, <2>1, <2>3, FlowsBehind
    <2> QED
        BY <2>3, <2>4 DEF Flows, Behind
<1>5. ASSUME host.step >= 5
      PROVE  Behind(0, 4)' /\ OwnSend'
    <2>1. Behind(0, 4) /\ OwnSend
        BY <1>1, <1>5 DEF LinkInv
    <2>2. OwnLink(4)
        BY <1>1, <1>5, <2>1 DEF OwnLink, Behind
    <2>3. Flows(4)
        BY <2>2, FwFlows
    <2>4. /\ \A j \in 0 + 1 .. Len(to_host') : to_host'[j] \in OwnReplies(4)'
          /\ \A j \in 1 .. Len(to_fw') : to_fw'[j] \in OwnRequests(4)'
        BY <1>1, <2>1, <2>3, FlowsBehind
    <2> QED
        BY <2>3, <2>4 DEF Flows, Behind
<1> QED
    BY <1>1, <1>2, <1>3, <1>4, <1>5

(* A halt while recording takes the requests with it. *)
LEMMA HaltFlows ==
    ASSUME TypeOK, FwHalt, NEW lo
    PROVE  Flows(lo)
<1>1. /\ fw.recording /\ host' = host /\ faults' \in Nat /\ faults' >= faults
      /\ to_fw' = <<>> /\ to_host' = to_host /\ fw'.pc = "idle"
    <2>1. faults \in Nat /\ faults' = faults + 1
        BY HaltIs DEF TypeOK
    <2>2. faults' >= faults
        BY ONLY <2>1
    <2> QED
        BY <2>2, HaltIs DEF Boots
<1> QED
    BY <1>1 DEF Flows, Steady, OwnSend

LEMMA HaltKeepsLink ==
    ASSUME TypeOK, FileInv, LinkInv, FwHalt
    PROVE  LinkInv'
<1>1. /\ host' = host /\ to_host' = to_host /\ fw'.pc = "idle"
      /\ Len(to_host) \in Nat /\ OwnSend'
    BY HaltIs, LinkLengths DEF Boots, OwnSend
<1>2. ASSUME NEW lo, NEW i \in 0 .. Len(to_host), Behind(i, lo)
      PROVE  /\ \A j \in i + 1 .. Len(to_host') : to_host'[j] \in OwnReplies(lo)'
             /\ \A j \in 1 .. Len(to_fw') : to_fw'[j] \in OwnRequests(lo)'
    BY <1>2, HaltFlows, FlowsBehind
<1>3. ASSUME NEW type, NEW lo, Fence(type, lo)
      PROVE  Fence(type, lo)'
    <2> SUFFICES ASSUME NEW i \in 1 .. Len(to_host),
                        to_host[i].type = "ack", to_host[i].of = type
                 PROVE  /\ \A j \in i + 1 .. Len(to_host') : to_host'[j] \in OwnReplies(lo)'
                        /\ \A j \in 1 .. Len(to_fw') : to_fw'[j] \in OwnRequests(lo)'
                        /\ fw'.pc = "idle"
        BY <1>1 DEF Fence, Behind
    <2>1. Behind(i, lo) /\ i \in 0 .. Len(to_host)
        BY <1>1, <1>3 DEF Fence
    <2> QED
        BY <1>1, <1>2, <2>1
<1>4. ASSUME NEW lo, Behind(0, lo)
      PROVE  Behind(0, lo)'
    <2>1. 0 \in 0 .. Len(to_host)
        BY <1>1
    <2>2. /\ \A j \in 0 + 1 .. Len(to_host') : to_host'[j] \in OwnReplies(lo)'
          /\ \A j \in 1 .. Len(to_fw') : to_fw'[j] \in OwnRequests(lo)'
        BY <1>2, <1>4, <2>1
    <2> QED
        BY <2>2 DEF Behind
<1> QED
    BY <1>1, <1>3, <1>4 DEF LinkInv

LEMMA AskKeepsBehind ==
    ASSUME TypeOK, Ask, host.kind = "download",
           NEW lo \in 1 .. host.step, NEW i, Behind(i, lo)
    PROVE  /\ \A j \in i + 1 .. Len(to_host') : to_host'[j] \in OwnReplies(lo)'
           /\ \A j \in 1 .. Len(to_fw') : to_fw'[j] \in OwnRequests(lo)'
<1>1. /\ host'.step = host.step /\ host'.file = host.file /\ fw' = fw /\ files' = files
      /\ card' = card /\ to_host' = to_host /\ faults' \in Nat /\ faults' >= faults
      /\ host.step \in 1 .. 6 /\ Len(to_fw) \in Nat /\ to_fw \in Seq(Requests)
    BY AskIs, HostFields, LinkLengths DEF SameAs, TypeOK
<1>2. Steady
    BY <1>1, SameFile DEF Steady
<1>3. OwnReplies(lo) \subseteq OwnReplies(lo)'
    BY <1>1, <1>2, OwnStays
<1>4. OwnRequests(lo)' = OwnRequests(lo)
    BY <1>1 DEF OwnRequests
<1>5. \A j \in i + 1 .. Len(to_host') : to_host'[j] \in OwnReplies(lo)'
    BY <1>1, <1>3 DEF Behind
<1>6. \A j \in 1 .. Len(to_fw) : to_fw[j] \in OwnRequests(lo)
    BY DEF Behind
<1>7. CASE to_fw' = to_fw
    BY <1>4, <1>5, <1>6, <1>7
<1>8. ASSUME NEW q \in Requests, to_fw' = Append(to_fw, q), q.type = Call, q.file = host.file
      PROVE  \A j \in 1 .. Len(to_fw') : to_fw'[j] \in OwnRequests(lo)'
    <2>1. q \in OwnRequests(lo)
        <3>1. Call = Calls("download")[host.step]
            BY CallIs
        <3>2. host.step \in lo .. host.step
            BY <1>1
        <3> QED
            BY <1>8, <3>1, <3>2 DEF OwnRequests
    <2>2. /\ Len(to_fw') = Len(to_fw) + 1 /\ to_fw'[Len(to_fw) + 1] = q
          /\ \A j \in 1 .. Len(to_fw) : to_fw'[j] = to_fw[j]
        BY <1>1, <1>8, AppendIs
    <2>3. \A j \in 1 .. Len(to_fw') : j \in 1 .. Len(to_fw) \/ j = Len(to_fw) + 1
        BY <1>1, <2>2
    <2> QED
        BY <1>4, <1>6, <2>1, <2>2, <2>3
<1> QED
    BY <1>4, <1>5, <1>7, <1>8, AskIs

LEMMA AskKeepsLink ==
    ASSUME TypeOK, FileInv, LinkInv, Ask
    PROVE  LinkInv'
<1>1. /\ host'.step = host.step /\ host'.file = host.file /\ host'.kind = host.kind
      /\ fw' = fw /\ files' = files /\ card' = card /\ to_host' = to_host
      /\ host.step \in 1 .. 6
    BY AskIs, HostFields DEF SameAs, TypeOK
<1> SUFFICES ASSUME host.kind = "download"
             PROVE  /\ host.step < 3 => Fence("SET_RTC", 1)'
                    /\ host.step = 4 => Fence("GET_MODE_PORTABLE", 4)'
                    /\ host.step \in {3, 4} => Behind(0, 1)'
                    /\ host.step >= 5 => Behind(0, 4)'
                    /\ host.step >= 3 => OwnSend'
    BY <1>1 DEF LinkInv
<1>2. ASSUME NEW lo, NEW i, lo \in {1, 4}, lo <= host.step, Behind(i, lo)
      PROVE  /\ \A j \in i + 1 .. Len(to_host') : to_host'[j] \in OwnReplies(lo)'
             /\ \A j \in 1 .. Len(to_fw') : to_fw'[j] \in OwnRequests(lo)'
    <2>1. lo \in 1 .. host.step
        BY <1>1, <1>2
    <2> QED
        BY <1>2, <2>1, AskKeepsBehind
<1>3. ASSUME NEW type, NEW lo, lo \in {1, 4}, lo <= host.step, Fence(type, lo)
      PROVE  Fence(type, lo)'
    <2> SUFFICES ASSUME NEW i \in 1 .. Len(to_host),
                        to_host[i].type = "ack", to_host[i].of = type
                 PROVE  /\ \A j \in i + 1 .. Len(to_host') : to_host'[j] \in OwnReplies(lo)'
                        /\ \A j \in 1 .. Len(to_fw') : to_fw'[j] \in OwnRequests(lo)'
                        /\ fw'.pc = "idle"
        BY <1>1 DEF Fence, Behind
    <2>1. Behind(i, lo) /\ fw.pc = "idle"
        BY <1>3 DEF Fence
    <2> QED
        BY <1>1, <1>2, <1>3, <2>1
<1>4. host.step < 3 => Fence("SET_RTC", 1)'
    BY <1>1, <1>3 DEF LinkInv
<1>5. host.step = 4 => Fence("GET_MODE_PORTABLE", 4)'
    BY <1>1, <1>3 DEF LinkInv
<1>6. host.step \in {3, 4} => Behind(0, 1)'
    <2>1. host.step \in {3, 4} => Behind(0, 1) /\ 1 <= host.step
        BY <1>1 DEF LinkInv
    <2>2. host.step \in {3, 4} =>
             /\ \A j \in 0 + 1 .. Len(to_host') : to_host'[j] \in OwnReplies(1)'
             /\ \A j \in 1 .. Len(to_fw') : to_fw'[j] \in OwnRequests(1)'
        BY <1>2, <2>1
    <2> QED
        BY <2>2 DEF Behind
<1>7. host.step >= 5 => Behind(0, 4)'
    <2>1. host.step >= 5 => Behind(0, 4) /\ 4 <= host.step
        BY <1>1 DEF LinkInv
    <2>2. host.step >= 5 =>
             /\ \A j \in 0 + 1 .. Len(to_host') : to_host'[j] \in OwnReplies(4)'
             /\ \A j \in 1 .. Len(to_fw') : to_fw'[j] \in OwnRequests(4)'
        BY <1>2, <2>1
    <2> QED
        BY <2>2 DEF Behind
<1>8. host.step >= 3 => OwnSend'
    BY <1>1, SameSend DEF LinkInv
<1> QED
    BY <1>4, <1>5, <1>6, <1>7, <1>8

(* What was behind the replies that are gone is behind nothing now. *)
LEMMA DropsBehind ==
    ASSUME TypeOK, NEW lo, NEW d, Drops(d), to_fw' = to_fw,
           OwnReplies(lo) \subseteq OwnReplies(lo)', OwnRequests(lo) \subseteq OwnRequests(lo)',
           NEW i \in Nat, Behind(i + d, lo)
    PROVE  /\ \A j \in i + 1 .. Len(to_host') : to_host'[j] \in OwnReplies(lo)'
           /\ \A j \in 1 .. Len(to_fw') : to_fw'[j] \in OwnRequests(lo)'
<1>1. Len(to_host) \in Nat /\ d \in 0 .. Len(to_host) /\ d \in Nat
      /\ Len(to_host') = Len(to_host) - d
    BY LinkLengths DEF Drops
<1>2. STRAY \in OwnReplies(lo)'
    BY ReplyIs, OwnBroken
<1>3. ASSUME NEW j \in i + 1 .. Len(to_host')
      PROVE  to_host'[j] \in OwnReplies(lo)'
    <2>1. j \in 1 .. Len(to_host) - d /\ j + d \in (i + d) + 1 .. Len(to_host)
        BY <1>1
    <2>2. to_host'[j] = to_host[j + d] \/ to_host'[j] = STRAY
        BY <2>1 DEF Drops
    <2>3. to_host[j + d] \in OwnReplies(lo)
        BY <2>1 DEF Behind
    <2> QED
        BY <1>2, <2>2, <2>3
<1> QED
    BY <1>3 DEF Behind

LEMMA HearKeepsLink ==
    ASSUME TypeOK, FileInv, LinkInv, Hear \/ TimesOut
    PROVE  LinkInv'
<1>1. /\ fw' = fw /\ files' = files /\ card' = card /\ to_fw' = to_fw
      /\ faults' \in Nat /\ faults' >= faults
    BY HostHears
<1>2. PICK r \in Replies, d \in 0 .. Len(to_host) :
         /\ host' = After(r) /\ Drops(d)
         /\ \/ r.type # "ack"
            \/ d > 0 /\ r = to_host[d]
    <2>1. PICK r \in Replies, d \in 0 .. Len(to_host) :
             /\ host' = After(r) /\ Drops(d)
             /\ \/ r = EMPTY
                \/ d > 0 /\ r = to_host[d] /\ r.type \notin {"cut", "stray"}
                \/ /\ TimesOut /\ to_host' = <<>> /\ r.type = "cut"
                   /\ \E i \in 1 .. Len(to_host) : r = to_host[i]
        BY HostHears
    <2>2. r.type # "ack" \/ (d > 0 /\ r = to_host[d])
        BY <2>1, ReplyIs
    <2> QED
        BY <2>1, <2>2
<1>3. /\ host'.kind = host.kind /\ host'.file = host.file
      /\ \/ host'.step = host.step
         \/ /\ host.step < 6 /\ host'.step = host.step + 1
            /\ Call \in Acked => r.type = "ack" /\ r.of = Call
    BY <1>2, AfterIs
<1>4. /\ host.step \in 1 .. 6 /\ d \in Nat /\ Len(to_host) \in Nat
      /\ d > 0 => d \in 1 .. Len(to_host)
    <2>1. host.step \in 1 .. 6
        BY HostFields DEF TypeOK
    <2>2. Len(to_host) \in Nat
        BY LinkLengths
    <2>3. d \in 0 .. Len(to_host)
        OBVIOUS
    <2>4. d \in Nat /\ (d > 0 => d \in 1 .. Len(to_host))
        BY ONLY <2>2, <2>3
    <2> QED
        BY <2>1, <2>2, <2>4
<1> SUFFICES ASSUME host.kind = "download"
             PROVE  /\ host'.step < 3 => Fence("SET_RTC", 1)'
                    /\ host'.step = 4 => Fence("GET_MODE_PORTABLE", 4)'
                    /\ host'.step \in {3, 4} => Behind(0, 1)'
                    /\ host'.step >= 5 => Behind(0, 4)'
                    /\ host'.step >= 3 => OwnSend'
    BY <1>3 DEF LinkInv
<1>5. Steady /\ host'.step \in 1 .. 6 /\ host'.step >= host.step
    BY <1>1, <1>3, <1>4, SameFile DEF Steady
<1>6. \A lo : OwnReplies(lo) \subseteq OwnReplies(lo)'
    BY <1>1, <1>5, OwnStays
<1>7. ASSUME NEW lo
      PROVE  OwnRequests(lo) \subseteq OwnRequests(lo)'
    <2>1. \A k \in lo .. host.step : k \in lo .. host'.step
        BY <1>4, <1>5
    <2> QED
        BY <1>3, <2>1 DEF OwnRequests
<1>8. ASSUME NEW lo, NEW i \in Nat, Behind(i + d, lo)
      PROVE  /\ \A j \in i + 1 .. Len(to_host') : to_host'[j] \in OwnReplies(lo)'
             /\ \A j \in 1 .. Len(to_fw') : to_fw'[j] \in OwnRequests(lo)'
    BY <1>1, <1>2, <1>6, <1>7, <1>8, DropsBehind
<1>9. \A lo : Behind(d, lo) =>
         /\ \A j \in 0 + 1 .. Len(to_host') : to_host'[j] \in OwnReplies(lo)'
         /\ \A j \in 1 .. Len(to_fw') : to_fw'[j] \in OwnRequests(lo)'
    <2>1. 0 + d = d
        BY <1>4
    <2> QED
        BY <1>8, <2>1
<1>10. \A lo : Behind(0, lo) => Behind(d, lo)
    BY <1>4 DEF Behind
<1>11. ASSUME NEW i \in 1 .. Len(to_host'), to_host'[i].type = "ack"
       PROVE  i + d \in 1 .. Len(to_host) /\ to_host'[i] = to_host[i + d] /\ i \in Nat
    <2>1. Len(to_host') = Len(to_host) - d
        BY <1>2 DEF Drops
    <2>2. i \in 1 .. Len(to_host) - d
        BY <2>1
    <2>3. to_host'[i] = to_host[i + d] \/ to_host'[i] = STRAY
        BY <1>2, <2>2 DEF Drops
    <2> QED
        <3>1. to_host'[i] = to_host[i + d]
            BY <1>11, <2>3, ReplyIs
        <3>2. i + d \in 1 .. Len(to_host) /\ i \in Nat
            BY ONLY <1>4, <2>2
        <3> QED
            BY <3>1, <3>2
<1>12. ASSUME NEW type, NEW lo, Fence(type, lo)
       PROVE  Fence(type, lo)'
    <2> SUFFICES ASSUME NEW i \in 1 .. Len(to_host'),
                        to_host'[i].type = "ack", to_host'[i].of = type
                 PROVE  /\ \A j \in i + 1 .. Len(to_host') : to_host'[j] \in OwnReplies(lo)'
                        /\ \A j \in 1 .. Len(to_fw') : to_fw'[j] \in OwnRequests(lo)'
                        /\ fw'.pc = "idle"
        BY DEF Fence, Behind
    <2>1. Behind(i + d, lo) /\ fw.pc = "idle" /\ i \in Nat
        BY <1>11, <1>12 DEF Fence
    <2> QED
        BY <1>1, <1>8, <2>1
<1>13. \A type \in Acked : \A lo : r.type = "ack" /\ r.of = type /\ Fence(type, lo) =>
          Behind(d, lo) /\ fw.pc = "idle"
    BY <1>2, <1>4 DEF Fence
<1>14. Call = Calls("download")[host.step]
    BY CallIs
<1>15. fw.pc = "idle" => OwnSend'
    BY <1>1 DEF OwnSend
<1>16. fw.pc \in {"idle", "send"}
    BY FwFields DEF TypeOK
<1>17. CASE host'.step < 3
    BY <1>3, <1>4, <1>12, <1>17 DEF LinkInv
<1>18. CASE host'.step = 3
    <2>1. Behind(d, 1) /\ OwnSend'
        <3>1. CASE host.step = 3
            BY <1>1, <1>3, <1>10, <1>18, <3>1, SameSend DEF LinkInv
        <3>2. CASE host.step = 2
            <4>1. Call = "SET_RTC" /\ Call \in Acked
                BY <1>14, <3>2, CallsAre DEF Acked
            <4>2. Fence("SET_RTC", 1)
                BY <3>2 DEF LinkInv
            <4> QED
                BY <1>3, <1>13, <1>15, <1>18, <3>2, <4>1, <4>2
        <3> QED
            BY <1>3, <1>4, <1>18, <3>1, <3>2
    <2>2. Behind(0, 1)'
        BY <1>9, <2>1 DEF Behind
    <2> QED
        BY <1>18, <2>1, <2>2
<1>19. CASE host'.step = 4
    <2>1. Behind(0, 1) /\ OwnSend /\ host.step \in {3, 4}
        BY <1>3, <1>4, <1>19 DEF LinkInv
    <2>2. Behind(0, 1)'
        BY <1>9, <1>10, <2>1 DEF Behind
    <2>3. fw.pc = "idle"
        BY <1>16, <2>1 DEF OwnSend
    <2>4. Fence("GET_MODE_PORTABLE", 4)'
        <3>1. CASE host.step = 4
            BY <1>12, <3>1 DEF LinkInv
        <3>2. CASE host.step = 3
            <4>1. ASSUME NEW i \in 1 .. Len(to_host'),
                         to_host'[i].type = "ack", to_host'[i].of = "GET_MODE_PORTABLE"
                  PROVE  FALSE
                <5>1. i + d \in 0 + 1 .. Len(to_host) /\ to_host'[i] = to_host[i + d]
                    BY <1>11, <4>1
                <5>2. to_host'[i] \in OwnReplies(1)
                    BY <2>1, <5>1 DEF Behind
                <5>3. PICK k \in 1 .. 3 : to_host'[i].of = Calls("download")[k]
                    BY <3>2, <4>1, <5>2 DEF OwnReplies, OwnReply
                <5>4. k = 1 \/ k = 2 \/ k = 3
                    BY <5>3
                <5> QED
                    BY <4>1, <5>3, <5>4, CallsAre
            <4> QED
                BY <4>1 DEF Fence
        <3> QED
            BY <2>1, <3>1, <3>2
    <2> QED
        BY <1>15, <1>19, <2>2, <2>3, <2>4
<1>20. CASE host'.step >= 5
    <2>1. Behind(d, 4) /\ (host'.step = 5 => OwnSend')
        <3>1. CASE host.step >= 5
            <4>1. Behind(d, 4) /\ OwnSend
                BY <1>4, <1>10, <3>1 DEF LinkInv
            <4>2. host'.step = 5 => host'.step = host.step
                BY <1>3, <1>4, <3>1
            <4> QED
                BY <1>1, <1>3, <4>1, <4>2, SameSend
        <3>2. CASE host.step = 4
            <4>1. Call = "GET_MODE_PORTABLE" /\ Call \in Acked
                BY <1>14, <3>2, CallsAre DEF Acked
            <4>2. Fence("GET_MODE_PORTABLE", 4)
                BY <3>2 DEF LinkInv
            <4> QED
                BY <1>3, <1>13, <1>15, <1>20, <3>2, <4>1, <4>2
        <3> QED
            BY <1>3, <1>4, <1>20, <3>1, <3>2
    <2>2. OwnSend'
        <3>1. CASE host'.step = 5
            BY <2>1, <3>1
        <3>2. CASE host'.step = 6 /\ host.step = 6
            BY <1>1, <1>3, <3>2, SameSend DEF LinkInv
        <3>3. CASE host'.step = 6 /\ host.step = 5
            <4>1. fw.pc = "idle"
                BY <1>16, <3>3 DEF LinkInv, OwnSend
            <4> QED
                BY <1>15, <4>1
        <3> QED
            BY <1>3, <1>4, <1>5, <1>20, <3>1, <3>2, <3>3
    <2>3. Behind(0, 4)'
        BY <1>9, <2>1 DEF Behind
    <2>4. /\ ~(host'.step < 3) /\ host'.step # 4 /\ host'.step \notin {3, 4}
          /\ host'.step >= 3
        BY ONLY <1>5, <1>20
    <2> QED
        BY <2>2, <2>3, <2>4
<1> QED
    BY <1>5, <1>17, <1>18, <1>19, <1>20

LEMMA KillKeepsLink ==
    ASSUME TypeOK, LinkInv, Kill
    PROVE  LinkInv'
<1>1. /\ host'.step = host.step /\ host'.file = host.file /\ host'.kind = host.kind
      /\ fw' = fw /\ files' = files /\ card' = card
      /\ to_host' = to_host /\ to_fw' = to_fw /\ faults' = faults
    BY KillIs DEF SameAs
<1>2. Target' = Target
    BY <1>1, SameFile
<1>3. \A lo : OwnReplies(lo)' = OwnReplies(lo) /\ OwnRequests(lo)' = OwnRequests(lo)
    BY <1>1, <1>2 DEF OwnReplies, OwnReply, NoneFound, OwnFrame, OwnRequests
<1>4. OwnSend => OwnSend'
    BY <1>1, SameSend
<1> QED
    BY <1>1, <1>3, <1>4 DEF LinkInv, Fence, Behind

LEMMA BeginKeepsLink ==
    ASSUME TypeOK, NEW kind \in Kinds, NEW file \in Nat, Begin(kind, file)
    PROVE  LinkInv'
<1>1. host'.step = 1 /\ (to_host' = <<>> \/ to_host' = <<STRAY>>)
    BY BeginIs
<1>2. \A i \in 1 .. Len(to_host') : to_host'[i] = STRAY
    BY <1>1
<1>3. Fence("SET_RTC", 1)'
    BY <1>2, ReplyIs DEF Fence
<1>4. ~(host'.step = 4) /\ ~(host'.step \in {3, 4}) /\ ~(host'.step >= 5) /\ ~(host'.step >= 3)
    BY ONLY <1>1
<1> QED
    BY <1>3, <1>4 DEF LinkInv

LEMMA InitLink ==
    ASSUME Init
    PROVE  LinkInv
    BY DEF Init, HostOff, LinkInv, Fence

-----------------------------------------------------------------------------
(* What the session has *)

(* A session has printed the start of its file, and ends with all of it;    *)
(* the time stamp is that file's.                                           *)
GotInv ==
    /\ host.pc # "off" => host.end = "none"
    /\ IF host.kind = "download" /\ host.step = 6
       THEN /\ ~host.warned =>
                  /\ host.stamp >= 0
                  /\ host.stamp > 0 => ~fw.recording /\ host.stamp = Target
            /\ host.next = 0 => host.got = <<>>
            /\ host.next > 0 =>
                  /\ ~fw.recording /\ Target > 0 /\ files[Target] > 0
                  /\ host.got = Buffers(Target,
                                        Shorter(FrameStart(host.next), files[Target]))
            /\ host.end = "done" =>
                  host.next > 0 /\ files[Target] <= FrameStart(host.next)
            /\ host.end = "not found" /\ faults = 0 => NoneFound
       ELSE /\ host.next = 0 /\ host.got = <<>> /\ host.stamp = 0
            /\ host.end # "not found" /\ (host.kind = "download" => host.end # "done")

LEMMA SteadyKeepsGot ==
    ASSUME GotInv, host' = host, faults \in Nat,
           host.kind = "download" /\ host.step = 6 =>
               Steady /\ faults' \in Nat /\ faults' >= faults
    PROVE  GotInv'
<1>1. CASE ~(host.kind = "download" /\ host.step = 6)
    BY <1>1 DEF GotInv
<1>2. CASE host.kind = "download" /\ host.step = 6
    <2>1. Steady /\ faults' \in Nat /\ faults' >= faults /\ faults \in Nat
        BY <1>2
    <2>2. faults' = 0 => faults = 0
        BY ONLY <2>1
    <2>3. ~host.warned =>
             /\ host.stamp >= 0
             /\ host.stamp > 0 => ~fw'.recording /\ host.stamp = Target'
        BY <1>2, <2>1 DEF GotInv, Steady
    <2>4. host.next > 0 =>
             /\ ~fw'.recording /\ Target' > 0 /\ files'[Target'] > 0
             /\ host.got = Buffers(Target', Shorter(FrameStart(host.next), files'[Target']))
        BY <1>2, <2>1 DEF GotInv, Steady
    <2>5. host.end = "done" =>
             host.next > 0 /\ files'[Target'] <= FrameStart(host.next)
        BY <1>2, <2>1 DEF GotInv, Steady
    <2>6. host.end = "not found" /\ faults' = 0 => NoneFound'
        BY <1>2, <2>1, <2>2, NoneStays DEF GotInv
    <2> QED
        BY <1>2, <2>3, <2>4, <2>5, <2>6 DEF GotInv
<1> QED
    BY <1>1, <1>2

LEMMA FwStepKeepsGot ==
    ASSUME TypeOK, FileInv, LinkInv, GotInv, FwStep
    PROVE  GotInv'
<1>1. host' = host /\ faults \in Nat
    BY DEF FwStep, TypeOK
<1>2. ASSUME host.kind = "download", host.step = 6
      PROVE  Steady /\ faults' \in Nat /\ faults' >= faults
    <2>1. OwnLink(4)
        BY <1>2 DEF LinkInv, OwnLink, Behind, TypeOK
    <2> QED
        BY <2>1, FwFlows DEF Flows
<1> QED
    BY <1>1, <1>2, SteadyKeepsGot

LEMMA HaltKeepsGot ==
    ASSUME TypeOK, FileInv, GotInv, FwHalt
    PROVE  GotInv'
<1>1. Flows(1) /\ faults \in Nat
    BY HaltFlows DEF TypeOK
<1> QED
    BY <1>1, SteadyKeepsGot DEF Flows

(* A call before the last prints nothing, and only GET_RTC gives the time. *)
Early(h, r) ==
    /\ h.next = host.next /\ h.got = host.got
    /\ h.pc # "off" => h.end = host.end
    /\ h.end # "not found" \/ h.end = host.end
    /\ host.step = 6 \/ h.end # "done" \/ h.end = host.end
    /\ \/ h.stamp = host.stamp
       \/ /\ Call = "GET_RTC" /\ h.step = 6
          /\ h.warned \/ (IsRtc(r) /\ h.stamp = IF r.type = "rtc" THEN r.num ELSE -1)

LEMMA AfterEarly ==
    ASSUME TypeOK, NEW r \in Replies, Call # "READ_SD_UART"
    PROVE  Early(After(r), r)
<1>1. Call \in Types /\ host.step \in 1 .. 6
    BY CallIs
<1>2. Early(Again, r)
    BY AgainIs DEF Retries, SameAs, Early
<1>3. \A how \in {"failed", "mismatch", "usb"} : Early(Over(how), r)
    BY OverIs, ZenonT(60) DEF Ends, SameAs, Early
<1>4. Early(NextCall, r)
    BY NextCallIs DEF Proceeds, Ends, SameAs, Early
<1>5. ASSUME Call = "GET_RTC", NEW h, Proceeds(h),
             h.warned \/ (IsRtc(r) /\ h.stamp = IF r.type = "rtc" THEN r.num ELSE -1)
      PROVE  Early(h, r)
    <2>1. host.step = 5
        BY <1>5, GetRtcStep
    <2>2. SameAs(h) /\ h.step = 6 /\ h.end = host.end
        BY <1>5, <2>1 DEF Proceeds
    <2> QED
        BY <1>5, <2>2 DEF SameAs, Early
<1>6. \A ok \in BOOLEAN : Early(AfterTries(ok), r)
    BY <1>2, <1>3, <1>4, AfterTriesIs
<1>7. CASE Call \in Acked
    BY <1>2, <1>3, <1>4, <1>7, AfterAcked
<1>8. CASE Call = "GET_GIT_HASH"
    BY <1>3, <1>6, <1>8, AfterHash
<1>9. CASE Call = "READ_EEPROM"
    BY <1>6, <1>9, AfterEeprom DEF IsEeprom
<1>10. CASE Call = "GET_RTC"
    <2>1. /\ (IF r.type = "rtc" THEN r.num ELSE -1) \in Int /\ StampLeft(r) \in Int
          /\ host.step < 6
        BY <1>10, ReplyFields, GetRtcStep DEF StampLeft
    <2>2. CASE OutOfTries
        <3> DEFINE h == [NextCall EXCEPT !.stamp = StampLeft(r), !.warned = TRUE]
        <3>1. Proceeds(h) /\ h.warned
            BY <2>1, StampedIs
        <3>2. After(r) = h
            BY <1>10, <2>2, AfterRtc
        <3> HIDE DEF h
        <3> QED
            BY <1>5, <1>10, <3>1, <3>2
    <2>3. CASE ~OutOfTries /\ IsRtc(r)
        <3> DEFINE h == [NextCall EXCEPT !.stamp = IF r.type = "rtc" THEN r.num ELSE -1]
        <3>1. Proceeds(h) /\ h.stamp = IF r.type = "rtc" THEN r.num ELSE -1
            BY <2>1, TimedIs
        <3>2. After(r) = h
            BY <1>10, <2>3, AfterRtc
        <3> HIDE DEF h
        <3> QED
            BY <1>5, <1>10, <2>3, <3>1, <3>2
    <2>4. CASE ~OutOfTries /\ ~IsRtc(r)
        BY <1>2, <1>10, <2>4, AfterRtc
    <2> QED
        BY <2>2, <2>3, <2>4
<1> QED
    BY <1>1, <1>7, <1>8, <1>9, <1>10 DEF Types, Tried

(* A reply a session hears once it is past its first calls is its own. *)
LEMMA HeardIsOwn ==
    ASSUME TypeOK, LinkInv, host.kind = "download", host.step >= 5,
           NEW r \in Replies, NEW d \in 0 .. Len(to_host), d > 0, r = to_host[d]
    PROVE  r \in OwnReplies(4)
<1>1. Behind(0, 4) /\ Len(to_host) \in Nat
    BY LinkLengths DEF LinkInv
<1>2. d \in 0 + 1 .. Len(to_host)
    BY <1>1
<1> QED
    BY <1>1, <1>2 DEF Behind

LEMMA HearKeepsGot ==
    ASSUME TypeOK, FileInv, LinkInv, GotInv, Hear \/ TimesOut
    PROVE  GotInv'
<1>1. /\ fw' = fw /\ files' = files /\ card' = card /\ host.pc = "wait" /\ faults \in Nat
      /\ faults' \in Nat /\ faults' >= faults
    BY HostHears DEF TypeOK
<1>2. PICK r \in Replies, d \in 0 .. Len(to_host) :
         /\ host' = After(r)
         /\ \/ r = EMPTY \/ r.type = "cut"
            \/ d > 0 /\ r = to_host[d] /\ r.type \notin {"cut", "stray"}
    <2>1. PICK r \in Replies, d \in 0 .. Len(to_host) :
             /\ host' = After(r) /\ Drops(d)
             /\ \/ r = EMPTY
                \/ d > 0 /\ r = to_host[d] /\ r.type \notin {"cut", "stray"}
                \/ /\ TimesOut /\ to_host' = <<>> /\ r.type = "cut"
                   /\ \E i \in 1 .. Len(to_host) : r = to_host[i]
        BY HostHears
    <2> QED
        BY <2>1
<1>3. /\ host'.kind = host.kind /\ host'.file = host.file
      /\ \/ host'.step = host.step
         \/ host.step < 6 /\ host'.step = host.step + 1
    BY <1>2, AfterIs
<1>4. host.step \in 1 .. 6 /\ host.next \in Nat /\ host.end = "none" /\ host \in Hosts
    BY <1>1, HostFields DEF TypeOK, GotInv
<1>5. Target' = Target
    BY <1>1, <1>3, SameFile
<1>6. faults' = 0 => faults = 0
    BY ONLY <1>1
<1>7. CASE Call # "READ_SD_UART"
    <2>1. Early(host', r)
        BY <1>2, <1>7, AfterEarly
    <2>2. ~(host.kind = "download" /\ host.step = 6)
        BY <1>7, CallIs, CallsAre
    <2>3. /\ host.next = 0 /\ host.got = <<>> /\ host.stamp = 0
        BY <2>2 DEF GotInv
    <2>4. /\ host'.next = 0 /\ host'.got = <<>> /\ host'.end # "not found"
          /\ host.kind = "download" => host'.end # "done"
          /\ host'.pc # "off" => host'.end = "none"
        BY <1>4, <2>1, <2>2, <2>3 DEF Early
    <2>5. CASE host'.stamp = 0
        <3>1. host'.stamp >= 0 /\ ~(host'.stamp > 0) /\ ~(host'.next > 0)
            <4>1. host'.next = 0
                BY <2>4
            <4> QED
                BY ONLY <2>5, <4>1
        <3> QED
            BY <1>3, <2>4, <2>5, <3>1 DEF GotInv
    <2>6. CASE host'.stamp # 0
        <3>1. /\ Call = "GET_RTC" /\ host'.step = 6
              /\ ~host'.warned => IsRtc(r) /\ host'.stamp = IF r.type = "rtc" THEN r.num ELSE -1
            BY <2>1, <2>3, <2>6 DEF Early
        <3>2. host.kind = "download" /\ host.step = 5
            BY <3>1, GetRtcStep
        <3>7. ASSUME ~host'.warned
              PROVE  /\ host'.stamp >= 0
                     /\ host'.stamp > 0 => ~fw'.recording /\ host'.stamp = Target'
            <4>1. r # EMPTY /\ r.type # "cut"
                BY <3>1, <3>7, ReplyIs DEF IsRtc, HasBytes
            <4>2. r \in OwnReplies(4) /\ r.type \notin {"cut", "stray"}
                BY <1>2, <3>2, <4>1, HeardIsOwn
            <4>3. r.type = "rtc" /\ (r.num > 0 => ~fw.recording /\ r.num = Target)
                BY <3>1, <3>2, <3>7, <4>2 DEF OwnReplies, OwnReply, IsRtc, HasBytes
            <4>4. host'.stamp = r.num /\ r.num \in Nat
                BY <3>1, <3>7, <4>3, ReplyFields
            <4> QED
                BY <1>1, <1>5, <4>3, <4>4
        <3>8. ~(host'.next > 0) /\ host'.kind = "download" /\ host'.end # "done"
            <4>1. ~(host'.next > 0)
                <5>1. host'.next = 0
                    BY <2>4
                <5> QED
                    BY ONLY <5>1
            <4> QED
                BY <1>3, <2>4, <3>2, <4>1
        <3> QED
            BY <2>4, <3>1, <3>7, <3>8 DEF GotInv
    <2> QED
        BY <2>5, <2>6
<1>8. CASE Call = "READ_SD_UART"
    <2>1. host.kind = "download" /\ host.step = 6 /\ host'.step = 6
        BY <1>3, <1>4, <1>8, ReadStep
    <2>2. host' = AfterFrame(r)
        BY <1>2, <1>8, AfterRead
    <2>3. r.type = "frame" => r \in OwnReplies(4)
        <3>1. r.type = "frame" => r # EMPTY /\ r.type # "cut"
            BY ReplyIs
        <3>2. host.step >= 5
            BY ONLY <2>1
        <3> QED
            BY <1>2, <2>1, <3>1, <3>2, HeardIsOwn
    <2>4. r.type = "frame" =>
             /\ (r.data # <<>> \/ r.num > 0) =>
                   /\ ~fw.recording /\ Target > 0 /\ r.data = OwnFrame(r.num)
             /\ (r.data = <<>> /\ r.num = 0 /\ faults = 0) => NoneFound
        BY <2>3 DEF OwnReplies, OwnReply
    <2>5. /\ Target \in Nat /\ (Target > 0 => files[Target] \in Lengths)
        BY TargetIs
    <2>6. CASE Prints(host', r)
        <3>1. /\ ~fw.recording /\ Target > 0 /\ r.data = Frame(Target, files[Target], host.next)
              /\ r.data # <<>> /\ files[Target] \in Lengths
            BY <2>4, <2>5, <2>6 DEF Prints, OwnFrame
        <3>2. /\ files[Target] > 0
              /\ Buffers(Target, Shorter(FrameStart(host.next), files[Target])) \o r.data
                   = Buffers(Target, Shorter(FrameStart(host.next + 1), files[Target]))
            BY <1>4, <2>5, <3>1, FrameJoins
        <3>3. host.got = Buffers(Target, Shorter(FrameStart(host.next), files[Target]))
            <4>1. CASE host.next > 0
                BY <2>1, <4>1 DEF GotInv
            <4>2. CASE host.next = 0
                <5>1. Shorter(FrameStart(host.next), files[Target]) = 0
                    BY <3>2, <4>2 DEF Shorter, FrameStart
                <5>2. Buffers(Target, 0) = <<>>
                    BY DEF Buffers
                <5> QED
                    BY <2>1, <4>2, <5>1, <5>2 DEF GotInv
            <4> QED
                BY <1>4, <4>1, <4>2
        <3>4. /\ host'.got = Buffers(Target, Shorter(FrameStart(host'.next), files[Target]))
              /\ host'.next > 0 /\ host'.next # 0 /\ host'.end = "none"
              /\ host'.stamp = host.stamp /\ host'.warned = host.warned
            <4>1. /\ host'.next = host.next + 1 /\ host'.got = host.got \o r.data
                  /\ host'.end = "none" /\ host'.stamp = host.stamp
                  /\ host'.warned = host.warned
                BY <1>4, <2>6 DEF Prints
            <4>2. host'.next > 0 /\ host'.next # 0
                BY ONLY <1>4, <4>1
            <4> QED
                BY <3>2, <3>3, <4>1, <4>2
        <3>5. ~host.warned =>
                 /\ host.stamp >= 0
                 /\ host.stamp > 0 => ~fw.recording /\ host.stamp = Target
            BY <2>1 DEF GotInv
        <3> QED
            BY <1>1, <1>3, <1>5, <2>1, <3>1, <3>2, <3>4, <3>5 DEF GotInv
    <2>7. CASE \E how \in {"done", "not found"} :
                  /\ host' = Over(how) /\ r.type = "frame" /\ r.num = host.next /\ r.data = <<>>
                  /\ host.next = 0 <=> how = "not found"
        <3>1. PICK how \in {"done", "not found"} :
                  /\ host' = Over(how) /\ r.type = "frame" /\ r.num = host.next /\ r.data = <<>>
                  /\ host.next = 0 <=> how = "not found"
            BY <2>7
        <3>2. /\ host'.pc = "off" /\ host'.next = host.next /\ host'.got = host.got
              /\ host'.stamp = host.stamp /\ host'.warned = host.warned /\ host'.end = how
            BY <3>1, OverIs, ZenonT(60) DEF Ends, SameAs
        <3>3. how = "done" =>
                 host.next > 0 /\ files[Target] <= FrameStart(host.next)
            <4>1. how = "done" => host.next > 0
                BY <1>4, <3>1
            <4>2. host.next > 0 => Target > 0 /\ Frame(Target, files[Target], host.next) = <<>>
                BY <2>4, <3>1 DEF OwnFrame
            <4> QED
                BY <1>4, <2>5, <4>1, <4>2, FrameJoins
        <3>4. how = "not found" /\ faults' = 0 => NoneFound
            BY <1>6, <2>4, <3>1
        <3>5. NoneFound' = NoneFound
            BY <1>1, <1>5 DEF NoneFound, OwnFrame
        <3> QED
            BY <1>1, <1>3, <1>5, <2>1, <3>2, <3>3, <3>4, <3>5 DEF GotInv
    <2>8. CASE host' = Again
        <3>1. /\ host'.pc = "ask" /\ host'.next = host.next /\ host'.got = host.got
              /\ host'.stamp = host.stamp /\ host'.warned = host.warned /\ host'.end = "none"
            BY <1>4, <2>8, AgainIs DEF Retries, SameAs
        <3> QED
            BY <1>1, <1>3, <1>5, <2>1, <3>1 DEF GotInv
    <2> QED
        BY <2>2, <2>6, <2>7, <2>8, AfterFrameIs
<1> QED
    BY <1>7, <1>8

LEMMA AskKeepsGot ==
    ASSUME TypeOK, FileInv, GotInv, Ask
    PROVE  GotInv'
<1>1. /\ host'.step = host.step /\ host'.file = host.file /\ host'.kind = host.kind
      /\ host'.next = host.next /\ host'.got = host.got /\ host'.stamp = host.stamp
      /\ host'.warned = host.warned
      /\ fw' = fw /\ files' = files /\ card' = card /\ host.pc = "ask" /\ host'.end = host.end
    BY AskIs DEF SameAs
<1>2. host.end = "none"
    BY <1>1 DEF GotInv
<1>3. Target' = Target
    BY <1>1, SameFile
<1> QED
    BY <1>1, <1>2, <1>3 DEF GotInv

LEMMA KillKeepsGot ==
    ASSUME TypeOK, FileInv, GotInv, Kill
    PROVE  GotInv'
<1>1. /\ host'.step = host.step /\ host'.file = host.file /\ host'.kind = host.kind
      /\ host'.next = host.next /\ host'.got = host.got /\ host'.stamp = host.stamp
      /\ host'.warned = host.warned
      /\ fw' = fw /\ files' = files /\ card' = card /\ host'.pc = "off" /\ host'.end = "killed"
    BY KillIs DEF SameAs
<1>2. Target' = Target
    BY <1>1, SameFile
<1> QED
    BY <1>1, <1>2 DEF GotInv

LEMMA BeginKeepsGot ==
    ASSUME TypeOK, NEW kind \in Kinds, NEW file \in Nat, Begin(kind, file)
    PROVE  GotInv'
<1>1. /\ host'.step = 1 /\ host'.next = 0 /\ host'.got = <<>> /\ host'.stamp = 0
      /\ host'.end = "none"
    BY BeginIs
<1>2. host'.step # 6
    BY ONLY <1>1
<1> QED
    BY <1>1, <1>2 DEF GotInv

LEMMA InitGot ==
    ASSUME Init
    PROVE  GotInv /\ LastInv
    BY DEF Init, HostOff, GotInv, LastInv, FwBooted

-----------------------------------------------------------------------------
(* Theorems about what is downloaded *)

SessionInv == TypeOK /\ FileInv /\ LastInv /\ LinkInv /\ GotInv

LEMMA StepKeepsSession ==
    ASSUME SessionInv, [Next]_vars
    PROVE  SessionInv'
<1> USE DEF SessionInv
<1>1. CASE FwStep
    BY <1>1, FwStepKeepsTypes, FwStepKeepsLast, FwStepKeepsLink, FwStepKeepsGot
<1>2. CASE Hear \/ TimesOut
    BY <1>2, HostStepKeepsTypes, HostKeepsLast, HearKeepsLink, HearKeepsGot DEF HostStep
<1>3. CASE Ask
    BY <1>3, HostStepKeepsTypes, HostKeepsLast, AskKeepsLink, AskKeepsGot DEF HostStep
<1>4. CASE Kill
    BY <1>4, HostStepKeepsTypes, HostKeepsLast, KillKeepsLink, KillKeepsGot
<1>5. ASSUME NEW kind \in Kinds, NEW file \in Nat, Begin(kind, file)
      PROVE  SessionInv'
    BY <1>5, BeginKeepsTypes, BeginKeepsLast, BeginKeepsLink, BeginKeepsGot
<1>6. CASE UNCHANGED vars
    <2>1. /\ host' = host /\ fw' = fw /\ files' = files /\ card' = card
          /\ to_fw' = to_fw /\ to_host' = to_host /\ sessions' = sessions /\ faults' = faults
        BY <1>6 DEF vars
    <2>2. TypeOK' /\ FileInv' /\ LastInv'
        BY <2>1 DEF TypeOK, FileInv, LastInv
    <2>3. Target' = Target
        BY <2>1 DEF Target
    <2>4. \A lo : OwnReplies(lo)' = OwnReplies(lo) /\ OwnRequests(lo)' = OwnRequests(lo)
        BY <2>1, <2>3 DEF OwnReplies, OwnReply, NoneFound, OwnFrame, OwnRequests
    <2>5. LinkInv'
        BY <2>1, <2>3, <2>4 DEF LinkInv, Fence, Behind, OwnSend
    <2>6. GotInv'
        BY <2>1, <2>3 DEF GotInv, NoneFound, OwnFrame
    <2> QED
        BY <2>2, <2>5, <2>6
<1>7. /\ "download" \in Kinds /\ "buffer" \in Kinds /\ 0 \in Nat
      /\ \A file \in 0 .. Len(FILES) + 1 : file \in Nat
    BY DEF Kinds
<1>8. CASE FwHalt
    <2>1. Boots /\ host' = host /\ sessions' = sessions /\ faults' \in Nat
        BY <1>8, HaltIs
    <2> QED
        BY <1>8, <2>1, BootKeepsTypes, BootKeepsLast, HaltKeepsLink, HaltKeepsGot
<1> QED
    BY <1>1, <1>2, <1>3, <1>4, <1>5, <1>6, <1>7, <1>8 DEF Next, HostStep

(* Every state of the download keeps what is on its way apart from what was *)
(* for an earlier session, and what is printed to one file.                 *)
THEOREM SessionIsOwn == Spec => []SessionInv
<1>1. Init => SessionInv
    BY InitTypes, InitLink, InitGot DEF SessionInv
<1>2. SessionInv /\ [Next]_vars => SessionInv'
    BY StepKeepsSession
<1> QED
    BY <1>1, <1>2, PTL DEF Spec

(* The file a session gets is the one it asked for. *)
LEMMA TargetRequested ==
    ASSUME TypeOK, FileInv, LastInv, Target > 0
    PROVE  Target \in 1 .. Len(files) /\ IsRequested(Target)
<1>1. /\ fw \in Firmwares /\ files \in Seq(Lengths) /\ fw.open \in 0 .. Len(files)
      /\ card \in Cards /\ host.file \in Nat
    BY HostFields DEF TypeOK, FileInv
<1>2. Target \in 1 .. Len(files)
    BY TargetIs
<1>3. CASE host.file > 0
    <2>1. Target = IF Found(card, files, host.file) THEN host.file ELSE 0
        BY <1>1, <1>3, OpenIs DEF Target
    <2> QED
        BY <1>2, <1>3, <2>1 DEF IsRequested
<1>4. CASE host.file = 0 /\ ~host.kept
    <2>1. Target = IF Quick(fw, files, 0) THEN fw.open
                   ELSE IF card.full THEN 0 ELSE Len(files)
        BY <1>1, <1>4, OpenIs DEF Target
    <2>2. fw.open = 0 \/ fw.open = Len(files)
        BY <1>4 DEF LastInv
    <2>3. Target = Len(files)
        BY <1>2, <2>1, <2>2
    <2> QED
        BY <1>2, <1>4, <2>3 DEF IsRequested
<1>5. CASE host.file = 0 /\ host.kept
    BY <1>2, <1>5 DEF IsRequested
<1> QED
    BY <1>1, <1>3, <1>4, <1>5

LEMMA TargetMissing ==
    ASSUME TypeOK, FileInv, Target = 0, ~card.full
    PROVE  host.file > Len(files) \/ files = <<>> \/ Hidden(card, host.file)
<1>1. /\ fw \in Firmwares /\ files \in Seq(Lengths) /\ fw.open \in 0 .. Len(files)
      /\ card \in Cards /\ host.file \in Nat
    BY HostFields DEF TypeOK, FileInv
<1>2. CASE host.file > 0
    <2>1. Target = IF Found(card, files, host.file) THEN host.file ELSE 0
        BY <1>1, <1>2, OpenIs DEF Target
    <2>2. Len(files) \in Nat
        BY <1>1
    <2>3. ~Found(card, files, host.file)
        BY <1>2, <2>1
    <2> QED
        BY <1>1, <1>2, <2>2, <2>3 DEF Found
<1>3. CASE host.file = 0
    <2>1. Target = IF Quick(fw, files, 0) THEN fw.open
                   ELSE IF card.full THEN 0 ELSE Len(files)
        BY <1>1, <1>3, OpenIs DEF Target
    <2>2. Quick(fw, files, 0) => fw.open > 0
        BY DEF Quick
    <2>3. Len(files) = 0
        BY <2>1, <2>2
    <2> QED
        BY <1>1, <2>3
<1> QED
    BY <1>1, <1>2, <1>3

(* What was downloaded is a run of the requested file from its start, all   *)
(* of it when the download ended as if it was, and "not found" is true, or  *)
(* a skip pointer hides the file (DownloadIsFile), whatever the lengths of  *)
(* files and frames, however many sessions there were before and whatever   *)
(* was lost or late on the way.                                             *)
THEOREM DownloadsTheFile == Spec => []DownloadIsFile
<1>1. SessionInv => DownloadIsFile
    <2> SUFFICES ASSUME SessionInv
                 PROVE  DownloadIsFile
        OBVIOUS
    <2> USE DEF SessionInv
    <2>1. /\ Target \in Nat /\ (Target > 0 => files[Target] \in Lengths)
          /\ Target > 0 => Target \in 1 .. Len(files) /\ IsRequested(Target)
        BY TargetIs, TargetRequested
    <2>2. host.next \in Nat /\ WORD \in Nat /\ host.got \in Data /\ Len(host.got) \in Nat
        <3>1. host.next \in Nat /\ WORD \in Nat /\ host.got \in Data
            BY HostFields, DownloadAssumption DEF TypeOK
        <3> QED
            BY <3>1 DEF Data
    <2> DEFINE n == Len(host.got)
    <2>3. ASSUME n > 0
          PROVE  \E file \in 1 .. Len(files) :
                    /\ IsRequested(file) /\ host.got = Buffers(file, n)
                    /\ host.end = "done" => n = files[file]
        <3>1. host.got # <<>>
            BY <2>3
        <3>2. host.kind = "download" /\ host.step = 6 /\ host.next # 0
            BY <3>1 DEF GotInv
        <3> DEFINE len == files[Target]
                   st  == FrameStart(host.next)
                   m   == Shorter(st, len)
        <3>3. host.next > 0
            BY ONLY <2>2, <3>2
        <3>4. /\ Target > 0 /\ host.got = Buffers(Target, m)
              /\ host.end = "done" => len <= st
            BY <3>2, <3>3 DEF GotInv
        <3>5. len \in Nat /\ st \in Nat /\ m \in Nat
            <4>1. st \in Nat
                BY <2>2, FrameStartType
            <4>2. len \in Nat
                BY <2>1, <2>2, <3>4 DEF Lengths
            <4> HIDE DEF len, st
            <4> QED
                BY <4>1, <4>2 DEF Shorter
        <3>6. n = m
            <4> HIDE DEF m
            <4> QED
                BY <2>1, <3>4, <3>5, BuffersIs
        <3>7. host.end = "done" => m = len
            BY <3>4, <3>5 DEF Shorter
        <3> HIDE DEF m, len, st
        <3>8. host.got = Buffers(Target, n) /\ (host.end = "done" => n = len)
            BY <3>4, <3>6, <3>7
        <3> QED
            BY <2>1, <3>4, <3>8 DEF len
    <2>4. ASSUME host.end = "not found", faults = 0
          PROVE  \/ host.file > Len(files) \/ files = <<>> \/ Hidden(card, host.file)
                 \/ \E file \in 1 .. Len(files) :
                       IsRequested(file) /\ files[file] < SAMPLES_LEN_PER_CAL_FRAME
        <3>1. /\ Target > 0 => OwnFrame(0) = <<>>
              /\ Target = 0 => ~card.full
            BY <2>4 DEF GotInv, NoneFound
        <3>2. CASE Target > 0
            <4>1. Frame(Target, files[Target], 0) = <<>> /\ files[Target] \in Lengths
                BY <2>1, <3>1, <3>2 DEF OwnFrame
            <4>2. files[Target] < SAMPLES_LEN_PER_CAL_FRAME
                BY <2>1, <4>1, FrameJoins
            <4> QED
                BY <2>1, <3>2, <4>2
        <3>3. CASE Target = 0
            BY <3>1, <3>3, TargetMissing
        <3> QED
            BY <2>1, <3>2, <3>3
    <2> QED
        BY <2>3, <2>4 DEF DownloadIsFile
<1> QED
    BY <1>1, SessionIsOwn, PTL

(* The time stamps come from the file that is printed, or there are none,   *)
(* unless the host has warned that it got no time (RtcOfFile): a late reply *)
(* to another call or session never passes for the reply to GET_RTC.        *)
THEOREM StampsTheFile == Spec => []RtcOfFile
<1>1. SessionInv => RtcOfFile
    <2> SUFFICES ASSUME SessionInv
                 PROVE  RtcOfFile
        OBVIOUS
    <2> USE DEF SessionInv
    <2>1. /\ Target \in Nat /\ (Target > 0 => files[Target] \in Lengths)
          /\ host.next \in Nat /\ WORD \in Nat /\ host.got \in Data
        BY TargetIs, HostFields, DownloadAssumption DEF TypeOK
    <2>2. host.stamp # -1 \/ host.warned
        <3>1. host.stamp = 0 \/ host.stamp >= 0 \/ host.warned
            BY DEF GotInv
        <3>2. host.stamp \in Int
            BY HostFields DEF TypeOK
        <3>3. host.stamp = 0 \/ host.stamp >= 0 => host.stamp # -1
            BY ONLY <3>2
        <3> QED
            BY <3>1, <3>3
    <2>3. ASSUME ~host.warned, host.stamp > 0, host.got # <<>>
          PROVE  host.got[1][1] = host.stamp
        <3>1. host.kind = "download" /\ host.step = 6 /\ host.next # 0
            BY <2>3 DEF GotInv
        <3>2. host.next > 0
            BY ONLY <2>1, <3>1
        <3> DEFINE m == Shorter(FrameStart(host.next), files[Target])
        <3>3. Target > 0 /\ host.got = Buffers(Target, m) /\ host.stamp = Target
            BY <2>3, <3>1, <3>2 DEF GotInv
        <3>4. m \in Nat
            BY <2>1, <3>3, FrameStartType DEF Lengths, Shorter
        <3> HIDE DEF m
        <3>5. m # 0
            BY <2>3, <3>3 DEF Buffers
        <3>6. 1 \in 1 .. m
            BY ONLY <3>4, <3>5
        <3>7. host.got[1] = <<Target, 1>>
            BY <2>1, <3>3, <3>4, <3>6, BuffersIs
        <3> QED
            BY <3>3, <3>7
    <2> QED
        BY <2>2, <2>3 DEF RtcOfFile
<1> QED
    BY <1>1, SessionIsOwn, PTL

-----------------------------------------------------------------------------
(* The tries of a session that finds the link quiet: every try it loses,    *)
(* and every late answer that takes the place of one it waits for, has cost *)
(* a fault.                                                                 *)

(* The session has calls ahead that it gives up on, the last one being      *)
(* READ_EEPROM.                                                             *)
LastTried == IF host.kind = "download" THEN 3 ELSE 4
Trying    == host.clean /\ host.pc # "off" /\ host.step <= LastTried

(* The replies the running call takes. *)
Good == {r \in Replies :
           \/ Call = "GET_GIT_HASH" /\ r.type = "hash"
           \/ Call = "READ_EEPROM" /\ IsEeprom(r)
           \/ Call \in Acked /\ r.type = "ack" /\ r.of = Call}

Asked   == {Calls(host.kind)[k] : k \in 1 .. host.step}
Answers == IF host.step = 1 THEN {"cut", "hash"} ELSE {"cut", "hash", "ack", "eeprom"}

Waits   == IF host.pc = "wait" THEN 1 ELSE 0
Cuts    == IF \E i \in 1 .. Len(to_host) : to_host[i].type = "cut" THEN 1 ELSE 0
Pending == Len(to_host) + Len(to_fw)

(* At most the first b of what is on its way are not for the running call. *)
Stale(b) ==
    /\ \A i \in 1 .. Len(to_host) :
          i > b => to_host[i].type = "cut" \/ to_host[i] \in Good
    /\ \A i \in 1 .. Len(to_fw) : i + Len(to_host) > b => to_fw[i].type = Call

(* What the session knows of the link. *)
Quiet ==
    /\ fw.pc = "idle"
    /\ \A i \in 1 .. Len(to_fw) : to_fw[i].type \in Asked
    /\ \A i \in 1 .. Len(to_host) : to_host[i].type \in Answers

(* Every try that is lost and every stale answer has cost a fault. *)
Budgets == {b \in Nat :
              /\ b <= Pending /\ Stale(b)
              /\ host.tries + b + Cuts <= faults + Waits
              /\ Pending + Cuts <= faults + Waits}

TriesInv ==
    Trying =>
        /\ Quiet /\ Budgets # {}
        /\ Call \in Acked => host.tries = 0
        /\ host.pc = "wait" /\ Pending = 0 => host.tries <= faults

-----------------------------------------------------------------------------
(* The parts *)

LEMMA CutsIs == Cuts \in {0, 1} /\ Waits \in {0, 1} /\ (Waits = 1 <=> host.pc = "wait")
    BY DEF Cuts, Waits

(* The calls a session gives up on, and when. *)
LEMMA TryingCalls ==
    ASSUME TypeOK
    PROVE  /\ Call \in Asked /\ Call \in Types
           /\ Trying => Call \in {"GET_GIT_HASH", "SET_RTC", "READ_EEPROM", "INIT"}
           /\ Trying => Asked \subseteq {"GET_GIT_HASH", "SET_RTC", "READ_EEPROM", "INIT"}
           /\ host.step = 1 => Call = "GET_GIT_HASH" /\ Asked = {"GET_GIT_HASH"}
           /\ Trying /\ Call = "GET_GIT_HASH" => host.step = 1
           /\ Call \in {"GET_GIT_HASH", "READ_EEPROM"} => host.step <= LastTried
           /\ "INIT" \in Asked /\ Trying => Call = "INIT" \/ Call = "READ_EEPROM"
<1>1. host.step \in 1 .. 6 /\ host.kind \in Kinds /\ Call = Calls(host.kind)[host.step]
      /\ Call \in Types
    BY CallIs
<1>2. host.kind = "download" \/ host.kind = "buffer"
    BY <1>1 DEF Kinds
<1>3. Call \in Asked
    BY <1>1 DEF Asked
<1> DEFINE s == host.step
<1>4. s = 1 \/ s = 2 \/ s = 3 \/ s = 4 \/ s = 5 \/ s = 6
    BY <1>1
<1>5. host.step = 1 => Call = "GET_GIT_HASH" /\ Asked = {"GET_GIT_HASH"}
    BY <1>1, <1>2, CallsAre DEF Asked
<1>6. CASE host.kind = "download"
    <2>1. LastTried = 3
        BY <1>6 DEF LastTried
    <2>2. Trying => Asked \subseteq {"GET_GIT_HASH", "SET_RTC", "READ_EEPROM"}
        <3> SUFFICES ASSUME Trying, NEW k \in 1 .. host.step
                     PROVE  Calls("download")[k] \in {"GET_GIT_HASH", "SET_RTC", "READ_EEPROM"}
            BY <1>6 DEF Asked
        <3>1. k = 1 \/ k = 2 \/ k = 3
            BY <1>1, <2>1 DEF Trying
        <3> QED
            BY <3>1, CallsAre
    <2>3. Trying /\ Call = "GET_GIT_HASH" => host.step = 1
        BY <1>1, <1>4, <1>6, CallsAre
    <2>4. Call \in {"GET_GIT_HASH", "READ_EEPROM"} => host.step <= LastTried
        BY <1>1, <1>4, <1>6, <2>1, CallsAre
    <2> QED
        BY <1>1, <1>3, <1>5, <2>2, <2>3, <2>4
<1>7. CASE host.kind = "buffer"
    <2>1. LastTried = 4
        BY <1>7 DEF LastTried
    <2>2. Trying => Asked \subseteq {"GET_GIT_HASH", "SET_RTC", "READ_EEPROM", "INIT"}
        <3> SUFFICES ASSUME Trying, NEW k \in 1 .. host.step
                     PROVE  Calls("buffer")[k] \in {"GET_GIT_HASH", "SET_RTC", "READ_EEPROM", "INIT"}
            BY <1>7 DEF Asked
        <3>1. k = 1 \/ k = 2 \/ k = 3 \/ k = 4
            BY <1>1, <2>1 DEF Trying
        <3> QED
            BY <3>1, CallsAre
    <2>3. Trying /\ Call = "GET_GIT_HASH" => host.step = 1
        BY <1>1, <1>4, <1>7, CallsAre
    <2>4. Call \in {"GET_GIT_HASH", "READ_EEPROM"} => host.step <= LastTried
        BY <1>1, <1>4, <1>7, <2>1, CallsAre
    <2>5. "INIT" \in Asked /\ Trying => Call = "INIT" \/ Call = "READ_EEPROM"
        <3> SUFFICES ASSUME NEW k \in 1 .. host.step, Calls("buffer")[k] = "INIT", Trying
                     PROVE  Call = "INIT" \/ Call = "READ_EEPROM"
            BY <1>7 DEF Asked
        <3>1. k = 1 \/ k = 2 \/ k = 3 \/ k = 4
            BY <1>1, <2>1 DEF Trying
        <3>2. k = 3
            BY <3>1, CallsAre
        <3>3. host.step = 3 \/ host.step = 4
            BY <1>1, <2>1, <3>2 DEF Trying
        <3> QED
            BY <1>1, <1>7, <3>3, CallsAre
    <2> QED
        BY <1>1, <1>3, <1>5, <2>2, <2>3, <2>4, <2>5
<1> QED
    BY <1>2, <1>6, <1>7

-----------------------------------------------------------------------------
(* The firmware *)

(* The host sees nothing of a step of the firmware but its answer. *)
LEMMA SameSession ==
    ASSUME host' = host
    PROVE  /\ Call' = Call /\ Waits' = Waits /\ Trying' = Trying /\ Asked' = Asked
           /\ Answers' = Answers /\ Good' = Good
    BY DEF Call, Waits, Trying, LastTried, Asked, Answers, Good

(* A request is answered: the answer stands where the request did. *)
LEMMA AnswerKeepsTries ==
    ASSUME TypeOK, TriesInv, Trying, host' = host, fw'.pc = "idle", to_fw # <<>>,
           to_fw' = Tail(to_fw) \/ to_fw' = <<>>,
           faults' \in Nat, faults' >= faults,
           NEW r \in Replies, to_host' = Append(to_host, r), r.type \in Answers,
           \/ r.type = "cut" /\ faults' = faults + 1
           \/ r.type # "cut" /\ (to_fw[1].type = Call => r \in Good)
    PROVE  TriesInv'
<1>1. /\ to_fw \in Seq(Requests) /\ to_host \in Seq(Replies)
      /\ Len(to_fw) \in Nat /\ Len(to_host) \in Nat
    BY LinkLengths
<1> DEFINE n == Len(to_host)
           m == Len(to_fw)
           k == Len(to_fw')
<1>2. /\ Len(to_host') = n + 1 /\ to_host'[n + 1] = r
      /\ \A i \in 1 .. n : to_host'[i] = to_host[i]
    BY <1>1, AppendIs
<1>3. /\ k \in Nat /\ k < m
      /\ \A i \in 1 .. k : i + 1 \in 1 .. m /\ to_fw'[i] = to_fw[i + 1]
    <2>1. m > 0 /\ \A i \in 1 .. m - 1 : i + 1 \in 1 .. m
        BY <1>1, TailIs
    <2>2. CASE to_fw' = <<>>
        BY <1>1, <2>1, <2>2, EmptyIs
    <2>3. CASE to_fw' = Tail(to_fw)
        <3>1. k = m - 1 /\ \A i \in 1 .. m - 1 : to_fw'[i] = to_fw[i + 1]
            BY <1>1, <2>3, TailIs
        <3> HIDE DEF k, m
        <3> QED
            BY <1>1, <2>1, <3>1 DEF m
    <2> QED
        BY <2>2, <2>3
<1>4. /\ Call' = Call /\ Waits' = Waits /\ Trying' = Trying /\ Asked' = Asked
      /\ Answers' = Answers /\ Good' = Good
    BY SameSession
<1>5. PICK b \in Nat : b \in Budgets
    BY DEF TriesInv, Budgets
<1>6. /\ n \in Nat /\ m \in Nat /\ faults \in Nat /\ host.tries \in Nat
      /\ Waits \in Nat /\ Cuts \in Nat /\ Cuts <= 1 /\ Cuts' \in Nat /\ Cuts' <= 1
    <2>1. faults \in Nat /\ host.tries \in Nat
        BY HostFields DEF TypeOK
    <2>2. Waits \in Nat /\ Cuts \in Nat /\ Cuts <= 1
        BY CutsIs
    <2>3. Cuts' \in Nat /\ Cuts' <= 1
        BY DEF Cuts
    <2> QED
        BY <1>1, <2>1, <2>2, <2>3
<1>7. PICK c \in Nat : c <= n + 1 + k /\ c <= b /\ (c = b \/ c = n + 1 + k)
    <2>1. b <= n + 1 + k \/ n + 1 + k <= b
        BY <1>3, <1>6
    <2>2. n + 1 + k \in Nat /\ b <= b /\ n + 1 + k <= n + 1 + k
        BY <1>3, <1>6
    <2> QED
        BY <2>1, <2>2
<1>8. Pending = n + m /\ Pending' = n + 1 + k
    <2>1. Pending' = Len(to_host') + k
        BY DEF Pending
    <2> QED
        BY <1>2, <2>1 DEF Pending
<1>9. r.type # "cut" => Cuts' <= Cuts
    <2> SUFFICES ASSUME r.type # "cut", Cuts' # 0
                 PROVE  Cuts = 1
        BY <1>6
    <2>1. PICK i \in 1 .. n + 1 : to_host'[i].type = "cut"
        BY <1>2 DEF Cuts
    <2>2. i # n + 1
        BY <1>2, <2>1
    <2>3. i \in 1 .. n
        BY <1>1, <2>1, <2>2
    <2> QED
        BY <1>2, <2>1, <2>3 DEF Cuts
<1>10. faults' + Cuts >= faults + Cuts'
    <2>1. \/ faults' = faults + 1
          \/ Cuts' <= Cuts /\ faults' >= faults
        BY <1>9
    <2>2. \A f, g, u, v \in Nat : v <= 1 /\ (g = f + 1 \/ (v <= u /\ g >= f)) => g + u >= f + v
        OBVIOUS
    <2> HIDE DEF n, m, k
    <2> QED
        BY <1>6, <2>1, <2>2
<1>11. Stale(c)'
    <2>1. ASSUME NEW i \in 1 .. n + 1, i > c
          PROVE  to_host'[i].type = "cut" \/ to_host'[i] \in Good
        <3>1. i > b
            BY <1>3, <1>6, <1>7, <2>1
        <3>2. CASE i \in 1 .. n
            BY <1>2, <1>4, <1>5, <3>1, <3>2 DEF Budgets, Stale
        <3>3. CASE i = n + 1
            <4>1. 1 \in 1 .. m /\ 1 + n > b
                BY <1>3, <1>6, <3>1, <3>3
            <4>2. to_fw[1].type = Call
                BY <1>5, <4>1 DEF Budgets, Stale
            <4> QED
                BY <1>2, <1>4, <3>3, <4>2
        <3> QED
            BY <1>1, <3>2, <3>3
    <2>2. ASSUME NEW i \in 1 .. k, i + (n + 1) > c
          PROVE  to_fw'[i].type = Call
        <3>1. (i + 1) + n > b
            BY <1>3, <1>6, <1>7, <2>2
        <3>2. i + 1 \in 1 .. m /\ to_fw'[i] = to_fw[i + 1]
            BY <1>3
        <3> QED
            BY <1>5, <3>1, <3>2 DEF Budgets, Stale
    <2>3. Len(to_host') = n + 1
        BY <1>2
    <2>4. \A i \in 1 .. Len(to_host') :
             i > c => to_host'[i].type = "cut" \/ to_host'[i] \in Good'
        BY <1>4, <2>1, <2>3
    <2>5. \A i \in 1 .. Len(to_fw') : i + Len(to_host') > c => to_fw'[i].type = Call'
        BY <1>4, <2>2, <2>3
    <2> QED
        BY <2>4, <2>5 DEF Stale
<1>12. host.tries + b + Cuts <= faults + Waits /\ Pending + Cuts <= faults + Waits
    BY <1>5 DEF Budgets
<1>13. /\ c \in Nat /\ c <= Pending' /\ c <= b /\ Pending' <= Pending /\ Pending' > 0
    BY <1>3, <1>6, <1>8, <1>7, SMTT(30)
<1>14. c \in Budgets'
    <2> HIDE DEF n, m, k
    <2>1. host.tries + c + Cuts' <= faults' + Waits /\ Pending' + Cuts' <= faults' + Waits
        <3>1. Pending \in Nat /\ Pending' \in Nat
            BY <1>3, <1>6, <1>8
        <3>2. \A f, g, u, v, t, w, p, q \in Nat :
                 /\ g + u >= f + v /\ t + b + u <= f + w /\ p + u <= f + w
                 /\ c <= b /\ q <= p
                 => t + c + v <= g + w /\ q + v <= g + w
            OBVIOUS
        <3> QED
            BY <1>6, <1>10, <1>12, <1>13, <3>1, <3>2, ZenonT(60)
    <2>2. host'.tries + c + Cuts' <= faults' + Waits' /\ Pending' + Cuts' <= faults' + Waits'
        BY <1>4, <2>1
    <2> QED
        BY <1>11, <1>13, <2>2 DEF Budgets
<1>15. Quiet'
    <2>1. \A i \in 1 .. k : to_fw'[i].type \in Asked
        BY <1>3 DEF TriesInv, Quiet
    <2>2. ASSUME NEW i \in 1 .. n + 1
          PROVE  to_host'[i].type \in Answers
        <3>1. i \in 1 .. n \/ i = n + 1
            BY <1>1
        <3> QED
            BY <1>2, <3>1 DEF TriesInv, Quiet
    <2> QED
        BY <1>2, <1>4, <2>1, <2>2 DEF Quiet
<1>16. c \in Nat /\ ~(Pending' = 0) /\ (Call' \in Acked => host'.tries = 0)
    BY <1>4, <1>13 DEF TriesInv
<1> QED
    BY <1>14, <1>15, <1>16 DEF TriesInv

(* A reset drops what was received; what is missed for it is stale. *)
LEMMA ResetKeepsTries ==
    ASSUME TypeOK, FileInv, TriesInv, Trying, Handles("INIT"), host' = host, fw'.pc = "idle",
           to_fw' = <<>>, to_host' = to_host, faults' = faults
    PROVE  TriesInv'
<1>1. /\ to_fw \in Seq(Requests) /\ to_host \in Seq(Replies)
      /\ Len(to_fw) \in Nat /\ Len(to_host) \in Nat
    BY LinkLengths
<1> DEFINE n == Len(to_host)
           m == Len(to_fw)
<1>2. Len(to_fw') = 0 /\ to_fw[1].type = "INIT" /\ m > 0
    BY EmptyIs, HandlesIs
<1>3. /\ Call' = Call /\ Waits' = Waits /\ Trying' = Trying /\ Asked' = Asked
      /\ Answers' = Answers /\ Good' = Good
    BY SameSession
<1>4. PICK b \in Nat : b \in Budgets
    BY DEF TriesInv, Budgets
<1>5. /\ n \in Nat /\ m \in Nat /\ faults \in Nat /\ host.tries \in Nat
      /\ Waits \in Nat /\ Waits <= 1 /\ Cuts \in Nat /\ Cuts' = Cuts
    <2>1. faults \in Nat /\ host.tries \in Nat
        BY HostFields DEF TypeOK
    <2>2. Waits \in Nat /\ Waits <= 1 /\ Cuts \in Nat
        BY CutsIs
    <2>3. Cuts' = Cuts
        BY DEF Cuts
    <2> QED
        BY <1>1, <2>1, <2>2, <2>3
<1>6. Pending = n + m /\ Pending' = n
    <2>1. Pending' = n + Len(to_fw')
        BY DEF Pending
    <2> QED
        BY <1>2, <1>5, <2>1 DEF Pending
<1>7. PICK c \in Nat : c <= n /\ c <= b /\ (c = b \/ c = n)
    <2>1. b <= n \/ n <= b
        BY <1>5
    <2> QED
        BY <1>5, <2>1
<1>8. host.tries + b + Cuts <= faults + Waits /\ Pending + Cuts <= faults + Waits /\ Stale(b)
    BY <1>4 DEF Budgets
<1>9. Stale(c)'
    <2>1. ASSUME NEW i \in 1 .. n, i > c
          PROVE  to_host[i].type = "cut" \/ to_host[i] \in Good
        <3>1. i > b
            BY <1>5, <1>7, <2>1
        <3> QED
            BY <1>8, <3>1 DEF Stale
    <2>2. \A i \in 1 .. Len(to_host') :
             i > c => to_host'[i].type = "cut" \/ to_host'[i] \in Good'
        BY <1>3, <2>1
    <2>3. \A i \in 1 .. Len(to_fw') : i + Len(to_host') > c => to_fw'[i].type = Call'
        BY <1>2
    <2> QED
        BY <2>2, <2>3 DEF Stale
<1>10. c \in Budgets'
    <2> HIDE DEF n, m
    <2>1. host.tries + c + Cuts <= faults + Waits /\ Pending' + Cuts <= faults + Waits
        BY <1>5, <1>6, <1>7, <1>8
    <2>2. /\ host'.tries + c + Cuts' <= faults' + Waits' /\ Pending' + Cuts' <= faults' + Waits'
          /\ c <= Pending'
        BY <1>3, <1>5, <1>6, <1>7, <2>1
    <2> QED
        BY <1>9, <2>2 DEF Budgets
<1>11. Quiet'
    <2>1. \A i \in 1 .. Len(to_fw') : to_fw'[i].type \in Asked'
        BY <1>2
    <2>2. \A i \in 1 .. Len(to_host') : to_host'[i].type \in Answers'
        BY <1>3 DEF TriesInv, Quiet
    <2> QED
        BY <2>1, <2>2 DEF Quiet
<1>12. ASSUME n = 0
       PROVE  host.tries <= faults
    <2>1. 1 \in 1 .. m /\ "INIT" \in Asked
        BY <1>2, <1>5 DEF TriesInv, Quiet
    <2>2. CASE Call = "INIT"
        BY <1>5, <2>2 DEF TriesInv, Acked
    <2>3. CASE Call = "READ_EEPROM"
        <3>1. ~(1 + n > b)
            BY <1>2, <1>8, <2>1, <2>3 DEF Stale
        <3> HIDE DEF n, m
        <3> QED
            BY <1>5, <1>8, <1>12, <3>1
    <2> QED
        BY <2>1, <2>2, <2>3, TryingCalls
<1>13. /\ Call' \in Acked => host'.tries = 0
       /\ host'.pc = "wait" /\ Pending' = 0 => host'.tries <= faults'
    <2>1. Call \in Acked => host.tries = 0
        BY DEF TriesInv
    <2> QED
        BY <1>3, <1>6, <1>12, <2>1
<1> QED
    BY <1>10, <1>11, <1>13 DEF TriesInv

LEMMA FwStepKeepsTries ==
    ASSUME TypeOK, FileInv, TriesInv, FwStep
    PROVE  TriesInv'
<1>1. host' = host
    BY DEF FwStep
<1>2. CASE ~Trying
    BY <1>1, <1>2, SameSession DEF TriesInv
<1>3. CASE Trying
    <2>1. /\ Asked \subseteq {"GET_GIT_HASH", "SET_RTC", "READ_EEPROM", "INIT"}
          /\ host.step = 1 => Asked = {"GET_GIT_HASH"}
          /\ fw.pc = "idle"
        BY <1>3, TryingCalls DEF TriesInv, Quiet
    <2>2. ASSUME NEW type, Handles(type)
          PROVE  /\ to_fw # <<>> /\ type \in Asked /\ to_fw[1].type = type
                 /\ type # "GET_GIT_HASH" => Answers = {"cut", "hash", "ack", "eeprom"}
        <3>1. to_fw # <<>> /\ to_fw[1].type = type /\ Len(to_fw) > 0 /\ Len(to_fw) \in Nat
            BY <2>2, HandlesIs, LinkLengths
        <3>2. 1 \in 1 .. Len(to_fw)
            BY <3>1
        <3>3. type \in Asked
            BY <1>3, <3>1, <3>2 DEF TriesInv, Quiet
        <3>4. type # "GET_GIT_HASH" => host.step # 1
            BY <2>1, <3>3
        <3> QED
            BY <3>1, <3>3, <3>4 DEF Answers
    <2>3. "cut" \in Answers /\ "hash" \in Answers
        BY DEF Answers
    <2>4. CASE FwTell
        <3>1. /\ fw' = fw /\ faults' \in Nat /\ faults' >= faults /\ to_fw' = Tail(to_fw)
              /\ Handles("GET_GIT_HASH") \/ Handles("READ_EEPROM")
            BY <2>4, TellIs
        <3>2. to_fw # <<>>
            BY <2>2, <3>1
        <3>3. PICK r \in Replies :
                 /\ to_host' = Append(to_host, r)
                 /\ \/ r.type = "cut" /\ faults' = faults + 1
                    \/ r.type = "hash" /\ Handles("GET_GIT_HASH") /\ faults' = faults
                    \/ r.type = "eeprom" /\ Handles("READ_EEPROM") /\ faults' = faults
            BY <2>4, TellIs
        <3>4. CASE r.type = "cut" /\ faults' = faults + 1
            BY <1>1, <1>3, <2>1, <2>3, <3>1, <3>2, <3>3, <3>4, ReplyIs,
               AnswerKeepsTries, ZenonT(60)
        <3>5. CASE r.type = "hash" /\ Handles("GET_GIT_HASH")
            <4>1. to_fw[1].type = Call => r \in Good
                BY <2>2, <3>5 DEF Good
            <4> QED
                BY <1>1, <1>3, <2>1, <2>3, <3>1, <3>2, <3>3, <3>5, <4>1, AnswerKeepsTries
        <3>6. CASE r.type = "eeprom" /\ Handles("READ_EEPROM")
            <4>1. (to_fw[1].type = Call => r \in Good) /\ "eeprom" \in Answers
                BY <2>2, <3>6 DEF Good, IsEeprom
            <4> QED
                BY <1>1, <1>3, <2>1, <3>1, <3>2, <3>3, <3>6, <4>1, AnswerKeepsTries
        <3> QED
            BY <3>3, <3>4, <3>5, <3>6
    <2>5. ASSUME NEW type \in Acked, Handles(type), AckSent(type), fw'.pc = "idle"
          PROVE  TriesInv'
        <3>1. to_fw' = <<>> /\ faults' \in Nat /\ faults' >= faults
            BY <2>5 DEF AckSent
        <3>2. PICK r \in Replies :
                 /\ to_host' = Append(to_host, r)
                 /\ \/ r.type = "cut" /\ faults' = faults + 1
                    \/ r.type = "ack" /\ r.of = type /\ faults' = faults
            BY <2>5 DEF AckSent
        <3>3. to_fw # <<>> /\ to_fw[1].type = type /\ "ack" \in Answers
            BY <2>2, <2>5 DEF Acked
        <3>4. CASE r.type = "cut" /\ faults' = faults + 1
            BY <1>1, <1>3, <2>3, <2>5, <3>1, <3>2, <3>3, <3>4, ReplyIs, AnswerKeepsTries
        <3>5. CASE r.type = "ack" /\ r.of = type
            <4>1. to_fw[1].type = Call => r \in Good
                BY <2>5, <3>3, <3>5 DEF Good
            <4> QED
                BY <1>1, <1>3, <2>5, <3>1, <3>2, <3>3, <3>5, <4>1, AnswerKeepsTries
        <3> QED
            BY <3>2, <3>4, <3>5
    <2>6. CASE FwSet
        <3>1. PICK type \in {"SET_RTC", "GAIN_SET", "GET_MODE_PORTABLE"} :
                 Handles(type) /\ AckSent(type)
            BY <2>6, SetIs
        <3>2. fw' = fw /\ type \in Acked
            BY <2>6, SetIs DEF Acked
        <3> QED
            BY <2>1, <2>5, <3>1, <3>2
    <2>7. CASE FwInit
        <3>1. Handles("INIT") /\ fw'.pc = "idle" /\ "INIT" \in Acked
            BY <2>7, InitStepIs DEF Acked
        <3>2. \/ to_fw' = <<>> /\ to_host' = to_host /\ faults' = faults
              \/ AckSent("INIT")
            BY <2>7, InitStepIs DEF Boots
        <3> QED
            BY <1>1, <1>3, <2>5, <3>1, <3>2, ResetKeepsTries
    <2>8. CASE FwStart
        <3>1. Handles("START_SAMPLING_SD")
            BY <2>8, StartStepIs
        <3> QED
            BY <2>1, <2>2, <3>1
    <2>9. CASE FwGetRtc
        <3>1. Handles("GET_RTC")
            BY <2>9, GetRtcIs
        <3> QED
            BY <2>1, <2>2, <3>1
    <2>10. CASE FwRead
        <3>1. Handles("READ_SD_UART")
            BY <2>10, ReadIs
        <3> QED
            BY <2>1, <2>2, <3>1
    <2>11. CASE FwSendBuffer \/ FwAbort \/ FwSendEnd
        BY <2>1, <2>11 DEF FwSendBuffer, FwAbort, FwSendEnd
    <2> QED
        BY <2>4, <2>6, <2>7, <2>8, <2>9, <2>10, <2>11 DEF FwStep
<1> QED
    BY <1>2, <1>3

(* A halt drops what was received, for a fault. *)
LEMMA HaltKeepsTries ==
    ASSUME TypeOK, TriesInv, FwHalt
    PROVE  TriesInv'
<1>1. /\ host' = host /\ fw'.pc = "idle" /\ to_fw' = <<>> /\ to_host' = to_host
      /\ faults' = faults + 1
    BY HaltIs DEF Boots
<1>2. /\ Call' = Call /\ Waits' = Waits /\ Trying' = Trying /\ Asked' = Asked
      /\ Answers' = Answers /\ Good' = Good
    BY <1>1, SameSession
<1>3. CASE ~Trying
    BY <1>2, <1>3 DEF TriesInv
<1>4. CASE Trying
    <2> DEFINE n == Len(to_host)
               m == Len(to_fw)
    <2>1. PICK b \in Nat : b \in Budgets
        BY <1>4 DEF TriesInv, Budgets
    <2>2. /\ b <= Pending /\ Stale(b) /\ host.tries + b + Cuts <= faults + Waits
          /\ Pending + Cuts <= faults + Waits
        BY <2>1 DEF Budgets
    <2>3. n \in Nat /\ m \in Nat /\ faults \in Nat /\ host.tries \in Nat /\ Waits \in Nat
          /\ Waits <= 1 /\ Cuts \in Nat /\ Cuts' = Cuts
        <3>1. faults \in Nat /\ host.tries \in Nat
            BY HostFields DEF TypeOK
        <3>2. Waits \in Nat /\ Waits <= 1 /\ Cuts \in Nat
            BY CutsIs
        <3>3. Cuts' = Cuts
            BY <1>1 DEF Cuts
        <3> QED
            BY <3>1, <3>2, <3>3, LinkLengths
    <2>4. Len(to_fw') = 0 /\ Len(to_host') = n
        BY <1>1, EmptyIs
    <2>5. Pending = n + m /\ Pending' = n
        BY <2>3, <2>4 DEF Pending
    <2>6. PICK c \in Nat : c <= n /\ c <= b /\ (c = b \/ c = n)
        <3>1. b <= n \/ n <= b
            BY <2>3
        <3> QED
            BY <2>3, <3>1
    <2>7. Stale(c)'
        <3>1. ASSUME NEW i \in 1 .. n, i > c
              PROVE  to_host[i].type = "cut" \/ to_host[i] \in Good
            <4>1. i > b
                BY <2>3, <2>6, <3>1
            <4> QED
                BY <2>2, <4>1 DEF Stale
        <3>2. \A i \in 1 .. Len(to_host') :
                 i > c => to_host'[i].type = "cut" \/ to_host'[i] \in Good'
            BY <1>1, <1>2, <3>1
        <3>3. \A i \in 1 .. Len(to_fw') : i + Len(to_host') > c => to_fw'[i].type = Call'
            BY <2>4
        <3> QED
            BY <3>2, <3>3 DEF Stale
    <2>8. /\ host.tries + c + Cuts <= (faults + 1) + Waits /\ n + Cuts <= (faults + 1) + Waits
          /\ host.tries <= faults + 1
        <3>1. host.tries + b + Cuts <= faults + Waits /\ (n + m) + Cuts <= faults + Waits
            BY <2>2, <2>5
        <3> HIDE DEF n, m
        <3> QED
            BY ONLY <2>3, <2>6, <3>1
    <2>9. c \in Budgets'
        <3>1. /\ host'.tries + c + Cuts' <= faults' + Waits'
              /\ Pending' + Cuts' <= faults' + Waits' /\ c <= Pending'
            BY <1>1, <1>2, <2>3, <2>5, <2>6, <2>8
        <3> QED
            BY <2>7, <3>1 DEF Budgets
    <2>10. Quiet'
        <3>1. \A i \in 1 .. Len(to_fw') : to_fw'[i].type \in Asked'
            BY <2>4
        <3>2. \A i \in 1 .. Len(to_host') : to_host'[i].type \in Answers'
            BY <1>1, <1>2, <1>4 DEF TriesInv, Quiet
        <3> QED
            BY <1>1, <3>1, <3>2 DEF Quiet
    <2>11. /\ Call' \in Acked => host'.tries = 0
           /\ host'.pc = "wait" /\ Pending' = 0 => host'.tries <= faults'
        BY <1>1, <1>2, <1>4, <2>8 DEF TriesInv
    <2> QED
        BY <2>9, <2>10, <2>11 DEF TriesInv
<1> QED
    BY <1>3, <1>4

-----------------------------------------------------------------------------
(* The host *)

(* A message that is sent is the last of what is on its way; one that is    *)
(* lost has cost a fault.                                                   *)
LEMMA AskKeepsTries ==
    ASSUME TypeOK, TriesInv, Ask
    PROVE  TriesInv'
<1>1. /\ host.pc = "ask" /\ host'.pc = "wait" /\ host'.step = host.step
      /\ host'.kind = host.kind /\ host'.clean = host.clean
      /\ host'.tries = (IF Call \in Tried THEN host.tries + 1 ELSE host.tries)
      /\ fw' = fw /\ to_host' = to_host /\ faults' \in Nat
      /\ \/ faults' = faults /\ \E q \in Requests : to_fw' = Append(to_fw, q) /\ q.type = Call
         \/ faults' = faults + 1 /\ to_fw' = to_fw
    BY AskIs DEF SameAs
<1>2. /\ Call' = Call /\ Waits = 0 /\ Waits' = 1 /\ Trying' = Trying /\ Asked' = Asked
      /\ Answers' = Answers /\ Good' = Good /\ Cuts' = Cuts
    BY <1>1 DEF Call, Waits, Trying, LastTried, Asked, Answers, Good, Cuts
<1>3. CASE ~Trying
    BY <1>2, <1>3 DEF TriesInv
<1>4. CASE Trying
    <2>1. /\ to_fw \in Seq(Requests) /\ to_host \in Seq(Replies)
          /\ Len(to_fw) \in Nat /\ Len(to_host) \in Nat
        BY LinkLengths
    <2> DEFINE n == Len(to_host)
               m == Len(to_fw)
    <2>2. faults \in Nat /\ host.tries \in Nat /\ Cuts \in Nat
        <3>1. faults \in Nat /\ host.tries \in Nat
            BY HostFields DEF TypeOK
        <3>2. Cuts \in Nat
            BY CutsIs
        <3> QED
            BY <3>1, <3>2
    <2>3. PICK b \in Nat : b \in Budgets
        BY <1>4 DEF TriesInv, Budgets
    <2>4. /\ b <= Pending /\ Stale(b) /\ host.tries + b + Cuts <= faults
          /\ Pending + Cuts <= faults
        <3>1. /\ b <= Pending /\ Stale(b) /\ host.tries + b + Cuts <= faults + Waits
              /\ Pending + Cuts <= faults + Waits
            BY <2>3 DEF Budgets
        <3> QED
            BY <1>2, <2>2, <3>1
    <2>5. /\ Call \in Acked => host.tries = 0 /\ Call \notin Tried
          /\ host'.tries \in Nat /\ host'.tries <= host.tries + 1
        <3>1. Call \in Acked => host.tries = 0
            BY <1>4 DEF TriesInv
        <3>2. Call \in Acked => Call \notin Tried
            BY DEF Acked, Tried
        <3> QED
            BY <1>1, <2>2, <3>1, <3>2
    <2>6. Pending = n + m /\ Pending' = n + Len(to_fw')
        BY <1>1 DEF Pending
    <2>7. CASE faults' = faults /\ \E q \in Requests : to_fw' = Append(to_fw, q) /\ q.type = Call
        <3>1. PICK q \in Requests : to_fw' = Append(to_fw, q) /\ q.type = Call
            BY <2>7
        <3>2. Len(to_fw') = m + 1 /\ to_fw'[m + 1] = q /\ \A i \in 1 .. m : to_fw'[i] = to_fw[i]
            BY <2>1, <3>1, AppendIs
        <3>3. ASSUME NEW i \in 1 .. m + 1
              PROVE  /\ i + n > b => to_fw'[i].type = Call
                     /\ to_fw'[i].type \in Asked
            <4>1. CASE i \in 1 .. m
                BY <1>4, <2>4, <3>2, <4>1 DEF Stale, TriesInv, Quiet
            <4>2. CASE i = m + 1
                BY <3>1, <3>2, <4>2, TryingCalls
            <4> QED
                BY <2>1, <4>1, <4>2
        <3>4. Stale(b)'
            <4>1. \A i \in 1 .. Len(to_host') :
                     i > b => to_host'[i].type = "cut" \/ to_host'[i] \in Good'
                BY <1>1, <1>2, <2>4 DEF Stale
            <4>2. \A i \in 1 .. Len(to_fw') : i + Len(to_host') > b => to_fw'[i].type = Call'
                BY <1>1, <1>2, <3>2, <3>3
            <4> QED
                BY <4>1, <4>2 DEF Stale
        <3>5. Quiet'
            <4>1. \A i \in 1 .. Len(to_fw') : to_fw'[i].type \in Asked'
                BY <1>2, <3>2, <3>3
            <4>2. \A i \in 1 .. Len(to_host') : to_host'[i].type \in Answers'
                BY <1>1, <1>2, <1>4 DEF TriesInv, Quiet
            <4> QED
                BY <1>1, <1>4, <4>1, <4>2 DEF TriesInv, Quiet
        <3>6. /\ b <= Pending' /\ Pending' > 0
              /\ host'.tries + b + Cuts' <= faults' + Waits' /\ Pending' + Cuts' <= faults' + Waits'
            <4>1. Pending \in Nat /\ Pending' = Pending + 1 /\ faults' = faults
                BY <2>1, <2>6, <2>7, <3>2
            <4>2. \A t, u, p, c, f \in Nat :
                     /\ t + b + c <= f /\ p + c <= f /\ u <= t + 1 /\ b <= p
                     => /\ u + b + c <= f + 1 /\ (p + 1) + c <= f + 1
                        /\ b <= p + 1 /\ p + 1 > 0
                OBVIOUS
            <4> QED
                BY <1>2, <2>2, <2>4, <2>5, <4>1, <4>2
        <3>7. b \in Budgets'
            BY <3>4, <3>6 DEF Budgets
        <3>8. /\ Call' \in Acked => host'.tries = 0
              /\ ~(Pending' = 0)
            <4>1. ~(Pending' = 0)
                BY <3>6
            <4> QED
                BY <1>1, <1>2, <2>5, <4>1
        <3> QED
            BY <3>5, <3>7, <3>8 DEF TriesInv
    <2>8. CASE faults' = faults + 1 /\ to_fw' = to_fw
        <3>1. Stale(b)' /\ Quiet' /\ Pending' = Pending
            BY <1>1, <1>2, <1>4, <2>4, <2>6, <2>8 DEF Stale, Quiet, TriesInv
        <3>2. /\ host'.tries + b + Cuts' <= faults' + Waits' /\ Pending' + Cuts' <= faults' + Waits'
              /\ host'.tries <= faults'
            <4>1. \A t, u, p, c, f \in Nat :
                     /\ t + b + c <= f /\ p + c <= f /\ u <= t + 1 /\ b <= p
                     => /\ u + b + c <= (f + 1) + 1 /\ p + c <= (f + 1) + 1 /\ u <= f + 1
                OBVIOUS
            <4>2. Pending \in Nat
                BY <2>1, <2>6
            <4> QED
                BY <1>2, <2>2, <2>4, <2>5, <2>8, <3>1, <4>1, <4>2
        <3>3. b \in Budgets'
            BY <2>4, <3>1, <3>2 DEF Budgets
        <3>4. Call' \in Acked => host'.tries = 0
            BY <1>1, <1>2, <2>5
        <3> QED
            BY <3>1, <3>2, <3>3, <3>4 DEF TriesInv
    <2> QED
        BY <1>1, <2>7, <2>8
<1> QED
    BY <1>3, <1>4

(* What becomes of a call with a reply to this or an earlier one. *)
LEMMA AfterTrying ==
    ASSUME TypeOK, Trying, NEW r \in Replies, r.type \in Answers \cup {"empty"}
    PROVE  \/ Retries(After(r)) /\ r \notin Good
           \/ Proceeds(After(r)) /\ r \in Good /\ host.step < 6
           \/ Ends(After(r), "failed") /\ OutOfTries
<1>1. host.step < 6
    <2>1. LastTried <= 4 /\ host.step \in 1 .. 6
        BY CallIs DEF LastTried
    <2> QED
        BY <2>1 DEF Trying, LastTried
<1>2. ASSUME NEW ok \in BOOLEAN, ok = (r \in Good), After(r) = AfterTries(ok), Call # "GET_RTC"
      PROVE  \/ Retries(After(r)) /\ r \notin Good
             \/ Proceeds(After(r)) /\ r \in Good
             \/ Ends(After(r), "failed") /\ OutOfTries
    <2>1. \/ ~OutOfTries /\ ok /\ AfterTries(ok) = NextCall
          \/ ~OutOfTries /\ ~ok /\ AfterTries(ok) = Again
          \/ OutOfTries /\ AfterTries(ok) = Over("failed")
        BY <1>2, AfterTriesIs
    <2>2. Retries(Again) /\ Proceeds(NextCall) /\ Ends(Over("failed"), "failed")
        BY AgainIs, NextCallIs, OverIs
    <2> QED
        BY <1>2, <2>1, <2>2
<1>3. CASE Call = "GET_GIT_HASH"
    <2>1. r.type \in {"cut", "hash", "empty"}
        BY <1>3, TryingCalls DEF Answers
    <2>2. ~(HasBytes(r, 7) /\ r.type # "hash")
        BY <2>1 DEF HasBytes
    <2>3. After(r) = AfterTries(r.type = "hash")
        BY <1>3, <2>2, AfterHash
    <2>4. (r.type = "hash") = (r \in Good)
        BY <1>3 DEF Good, Acked
    <2> DEFINE ok == r.type = "hash"
    <2>5. ok \in BOOLEAN
        OBVIOUS
    <2> QED
        BY <1>1, <1>2, <1>3, <2>3, <2>4, <2>5
<1>4. CASE Call = "READ_EEPROM"
    <2>1. After(r) = AfterTries(IsEeprom(r))
        BY <1>4, AfterEeprom
    <2>2. IsEeprom(r) = (r \in Good)
        BY <1>4 DEF Good, Acked, IsEeprom
    <2>3. IsEeprom(r) \in BOOLEAN
        BY DEF IsEeprom
    <2> QED
        BY <1>1, <1>2, <1>4, <2>1, <2>2, <2>3
<1>5. CASE Call \in {"SET_RTC", "INIT"}
    <2>1. Call \in Acked /\ Call # "GET_MODE_PORTABLE"
        BY <1>5 DEF Acked
    <2>2. \/ ~(r.type = "ack" /\ r.of = Call) /\ After(r) = Again
          \/ r.type = "ack" /\ r.of = Call /\ After(r) = NextCall
        BY <2>1, AfterAcked
    <2>3. (r.type = "ack" /\ r.of = Call) <=> r \in Good
        BY <1>5, <2>1 DEF Good
    <2> QED
        BY <1>1, <2>2, <2>3, AgainIs, NextCallIs
<1> QED
    BY <1>3, <1>4, <1>5, TryingCalls

(* No session is over that gave up too early, and none goes on after it. *)
GaveUp == host.clean /\ host.end \in {"failed", "mismatch"} =>
              host.pc = "off" /\ CONTROL_ATTEMPTS <= faults + 1

(* The host takes a reply at the end of the first d, or hears nothing: the  *)
(* rest, and what it has lost, stay within the faults there were.           *)
LEMMA ReplyKeepsTries ==
    ASSUME TypeOK, TriesInv, Trying, host.end = "none", fw' = fw, to_fw' = to_fw,
           NEW d \in 0 .. Len(to_host), Len(to_host') = Len(to_host) - d,
           \A i \in 1 .. Len(to_host) - d : to_host'[i] = to_host[i + d],
           NEW r \in Replies, r.type \in Answers \cup {"empty"}, host' = After(r),
           NEW b \in Nat, Stale(b), NEW c \in Nat, c = b - d \/ (c = 0 /\ b <= d),
           c <= Len(to_host) - d + Len(to_fw), faults' \in Nat,
           Pending' + Cuts' <= faults',
           r \notin Good => host.tries + c + Cuts' <= faults',
           host.tries <= faults' + 1
    PROVE  TriesInv' /\ GaveUp'
<1>1. /\ to_fw \in Seq(Requests) /\ to_host \in Seq(Replies)
      /\ Len(to_fw) \in Nat /\ Len(to_host) \in Nat
    BY LinkLengths
<1> DEFINE n == Len(to_host)
           m == Len(to_fw)
<1>2. Pending' = (n - d) + m
    BY DEF Pending
<1>3. \/ Retries(host') /\ r \notin Good
      \/ Proceeds(host') /\ r \in Good /\ host.step < 6
      \/ Ends(host', "failed") /\ OutOfTries
    BY AfterTrying
<1>4. /\ host.clean /\ host.step \in 1 .. 6 /\ CONTROL_ATTEMPTS \in Nat /\ host.tries \in Nat
      /\ Cuts' \in Nat
    <2>1. host.tries \in Nat
        BY HostFields DEF TypeOK
    <2>2. CONTROL_ATTEMPTS \in Nat
        BY DownloadAssumption
    <2>3. Cuts' \in Nat
        BY DEF Cuts
    <2> QED
        BY <2>1, <2>2, <2>3, CallIs DEF Trying
<1>5. /\ n - d \in Nat /\ m \in Nat
      /\ \A i \in 1 .. n - d : i + d \in 1 .. n
    BY <1>1
<1>6. /\ \A i \in 1 .. m : to_fw[i].type \in Asked
      /\ \A i \in 1 .. n - d : to_host'[i].type \in Answers
    BY <1>5 DEF TriesInv, Quiet
<1>7. CASE Retries(host') /\ r \notin Good
    <2>1. /\ host'.kind = host.kind /\ host'.clean = host.clean /\ host'.pc = "ask"
          /\ host'.step = host.step /\ host'.tries = host.tries /\ host'.end = host.end
        BY <1>7 DEF Retries, SameAs
    <2>2. /\ Call' = Call /\ Waits' = 0 /\ Asked' = Asked /\ Answers' = Answers /\ Good' = Good
        BY <2>1 DEF Call, Waits, Asked, Answers, Good
    <2>3. Stale(c)'
        <3>1. ASSUME NEW i \in 1 .. n - d, i > c
              PROVE  to_host'[i].type = "cut" \/ to_host'[i] \in Good
            <4>1. i + d > b
                BY <1>5, <3>1, SMTT(30)
            <4> QED
                BY <1>5, <4>1 DEF Stale
        <3>2. ASSUME NEW i \in 1 .. m, i + (n - d) > c
              PROVE  to_fw[i].type = Call
            <4>1. i + n > b
                BY <1>1, <3>2, SMTT(30)
            <4> QED
                BY <4>1 DEF Stale
        <3>3. \A i \in 1 .. Len(to_host') :
                 i > c => to_host'[i].type = "cut" \/ to_host'[i] \in Good'
            BY <2>2, <3>1
        <3>4. \A i \in 1 .. Len(to_fw') : i + Len(to_host') > c => to_fw'[i].type = Call'
            BY <2>2, <3>2
        <3> QED
            BY <3>3, <3>4 DEF Stale
    <2>4. c \in Budgets'
        <3>1. /\ c <= Pending' /\ host'.tries + c + Cuts' <= faults' + Waits'
              /\ Pending' + Cuts' <= faults' + Waits'
            <4>1. \A x \in Nat : x + 0 = x
                OBVIOUS
            <4>2. faults' + Waits' = faults'
                BY <2>2, <4>1
            <4> QED
                BY <1>2, <1>7, <2>1, <4>2
        <3> QED
            BY <2>3, <3>1 DEF Budgets
    <2>5. Quiet'
        <3>1. \A i \in 1 .. Len(to_fw') : to_fw'[i].type \in Asked'
            BY <1>6, <2>2
        <3>2. \A i \in 1 .. Len(to_host') : to_host'[i].type \in Answers'
            BY <1>6, <2>2
        <3> QED
            BY <3>1, <3>2 DEF TriesInv, Quiet
    <2>6. Call' \in Acked => host'.tries = 0
        BY <2>1, <2>2 DEF TriesInv
    <2>7. ~(host'.pc = "wait") /\ ~(host'.end \in {"failed", "mismatch"})
        BY <2>1
    <2> QED
        BY <2>4, <2>5, <2>6, <2>7 DEF TriesInv, GaveUp
<1>8. CASE Proceeds(host') /\ host.step < 6
    <2>1. /\ host'.kind = host.kind /\ host'.clean = host.clean /\ host'.pc = "ask"
          /\ host'.step = host.step + 1 /\ host'.tries = 0 /\ host'.end = host.end
        BY <1>8 DEF Proceeds, SameAs
    <2>2. Waits' = 0
        BY <2>1 DEF Waits
    <2>3. Asked \subseteq Asked' /\ Answers \subseteq Answers'
        <3>1. Answers \subseteq Answers'
            BY <1>4, <2>1, SMTT(30) DEF Answers
        <3>2. \A k \in 1 .. host.step : k \in 1 .. host.step + 1
            BY ONLY <1>4
        <3> QED
            BY <2>1, <3>1, <3>2 DEF Asked
    <2>4. PICK p \in Nat : p = Pending'
        <3>1. \A x, y \in Nat : x + y \in Nat
            OBVIOUS
        <3>2. (n - d) + m \in Nat
            BY <1>5, <3>1
        <3> HIDE DEF n, m
        <3> QED
            BY <1>2, <3>2, Zenon
    <2>5. Stale(p)'
        <3>1. p = (n - d) + m
            BY <1>2, <2>4
        <3>2. ASSUME NEW i \in 1 .. Len(to_host')
              PROVE  ~(i > p)
            BY <1>5, <3>1, <3>2
        <3>3. ASSUME NEW i \in 1 .. Len(to_fw')
              PROVE  ~(i + Len(to_host') > p)
            BY <1>5, <3>1, <3>3
        <3> QED
            BY <3>2, <3>3 DEF Stale
    <2>6. p \in Budgets'
        <3>1. host'.tries + p + Cuts' <= faults' + Waits' /\ Pending' + Cuts' <= faults' + Waits'
            BY <1>4, <2>1, <2>2, <2>4, SMTT(30)
        <3>2. p <= Pending'
            BY <2>4
        <3> QED
            BY <2>5, <3>1, <3>2 DEF Budgets
    <2>7. Quiet'
        <3>1. \A i \in 1 .. Len(to_fw') : to_fw'[i].type \in Asked'
            BY <1>6, <2>3
        <3>2. \A i \in 1 .. Len(to_host') : to_host'[i].type \in Answers'
            BY <1>6, <2>3
        <3> QED
            BY <3>1, <3>2 DEF TriesInv, Quiet
    <2>8. ~(host'.pc = "wait") /\ ~(host'.end \in {"failed", "mismatch"})
        BY <2>1
    <2> QED
        BY <2>1, <2>6, <2>7, <2>8 DEF TriesInv, GaveUp
<1>9. CASE Ends(host', "failed") /\ OutOfTries
    <2>1. host'.pc = "off" /\ ~Trying'
        BY <1>9 DEF Ends, Trying
    <2>2. CONTROL_ATTEMPTS <= faults' + 1
        <3>1. CONTROL_ATTEMPTS <= host.tries /\ host.tries <= faults' + 1
            BY <1>4, <1>9 DEF OutOfTries
        <3>2. \A x, y, z \in Nat : x <= y /\ y <= z + 1 => x <= z + 1
            OBVIOUS
        <3> QED
            BY <1>4, <3>1, <3>2
    <2> QED
        BY <2>1, <2>2 DEF TriesInv, GaveUp
<1> QED
    BY <1>3, <1>7, <1>8, <1>9

(* Nothing of what is left of the replies broke off that had not before. *)
LEMMA CutsStay ==
    ASSUME NEW d \in Nat, Len(to_host) \in Nat, Len(to_host') = Len(to_host) - d,
           \A i \in 1 .. Len(to_host) - d : to_host'[i] = to_host[i + d]
    PROVE  Cuts' <= Cuts
<1>1. Cuts \in Nat /\ (Cuts' = 0 \/ Cuts' = 1) /\ (Cuts = 0 \/ Cuts = 1)
    BY DEF Cuts
<1>2. CASE Cuts' = 1
    <2>1. PICK i \in 1 .. Len(to_host') : to_host'[i].type = "cut"
        BY <1>2 DEF Cuts
    <2>2. i + d \in 1 .. Len(to_host) /\ to_host[i + d].type = "cut"
        BY <2>1
    <2>3. Cuts = 1
        BY <2>2 DEF Cuts
    <2> QED
        BY <1>2, <2>3
<1> QED
    BY <1>1, <1>2

LEMMA HearKeepsTries ==
    ASSUME TypeOK, TriesInv, Trying, host.end = "none", Hear
    PROVE  TriesInv' /\ GaveUp'
<1>1. /\ to_fw \in Seq(Requests) /\ to_host \in Seq(Replies)
      /\ Len(to_fw) \in Nat /\ Len(to_host) \in Nat
    BY LinkLengths
<1> DEFINE n == Len(to_host)
           m == Len(to_fw)
<1>2. PICK i \in 1 .. n :
         \/ i > 1 /\ to_host[i - 1] = STRAY
         \/ /\ Whole(to_host[i]) /\ host' = After(to_host[i])
            /\ to_host' = SubSeq(to_host, i + 1, n)
    BY HearIs
<1>3. /\ fw' = fw /\ to_fw' = to_fw /\ faults' = faults /\ host.pc = "wait"
    BY DEF Hear
<1>4. \A j \in 1 .. n : to_host[j].type \in Answers /\ to_host[j] \in Replies
    BY <1>1 DEF TriesInv, Quiet
<1>5. ~(i > 1 /\ to_host[i - 1] = STRAY)
    <2>1. \A j \in 1 .. n : to_host[j].type # "stray"
        BY <1>4 DEF Answers
    <2>2. i > 1 => i - 1 \in 1 .. n
        BY <1>1
    <2> QED
        BY <2>1, <2>2, ReplyIs
<1> DEFINE r == to_host[i]
<1>6. /\ Len(to_host') = n - i /\ host' = After(r) /\ r.type # "cut"
      /\ \A j \in 1 .. n - i : to_host'[j] = to_host[j + i]
    BY <1>1, <1>2, <1>5, RestIs DEF Whole
<1>7. PICK b \in Nat : b \in Budgets
    BY DEF TriesInv, Budgets
<1>8. b <= Pending /\ Stale(b) /\ host.tries + b + Cuts <= faults + Waits
      /\ Pending + Cuts <= faults + Waits
    BY <1>7 DEF Budgets
<1>9. r \notin Good => i <= b
    <2>1. i > b => r \in Good
        BY <1>6, <1>8 DEF Stale
    <2> QED
        BY <1>1, <2>1
<1>10. PICK c \in Nat : (c = b - i \/ (c = 0 /\ b <= i)) /\ (i <= b => c = b - i)
    <2>1. CASE i <= b
        <3>1. b - i \in Nat
            BY <1>1, <2>1
        <3> QED
            BY <3>1
    <2>2. CASE ~(i <= b)
        <3>1. b <= i
            BY <1>1, <2>2
        <3> QED
            BY <2>2, <3>1
    <2> QED
        BY <2>1, <2>2
<1>11. /\ Waits = 1 /\ host.tries \in Nat /\ faults \in Nat /\ Cuts \in Nat /\ Cuts' \in Nat
       /\ Cuts' <= Cuts
    <2>1. host.tries \in Nat /\ faults \in Nat
        BY HostFields DEF TypeOK
    <2>2. Waits = 1 /\ Cuts \in Nat
        BY <1>3, CutsIs
    <2>3. Cuts' \in Nat
        BY DEF Cuts
    <2>4. i \in Nat
        BY <1>1
    <2>5. Cuts' <= Cuts
        BY <1>1, <1>6, <2>4, CutsStay
    <2> QED
        BY <2>1, <2>2, <2>3, <2>5
<1>12. Pending = n + m /\ Pending' = (n - i) + m /\ i \in 0 .. n /\ c <= n - i + m
    <2>1. Pending = n + m /\ Pending' = (n - i) + m
        BY <1>3, <1>6 DEF Pending
    <2>2. n \in Nat /\ m \in Nat /\ b <= n + m
        BY <1>1, <1>8, <2>1
    <2> HIDE DEF n, m
    <2> QED
        BY <1>10, <2>1, <2>2
<1>13. /\ Pending' + Cuts' <= faults' /\ host.tries <= faults' + 1
       /\ r \notin Good => host.tries + c + Cuts' <= faults'
    <2> DEFINE p == Pending
    <2>1. p \in Nat /\ Pending' = p - i /\ p - i \in Nat
        BY <1>1, <1>12
    <2>2. p + Cuts <= faults + 1 /\ host.tries + b + Cuts <= faults + 1
        BY <1>8, <1>11
    <2>3. \A t, u, v, f \in Nat : v <= u /\ p + u <= f + 1 /\ t + b + u <= f + 1 =>
             /\ (p - i) + v <= f /\ t <= f + 1
             /\ c = b - i => t + c + v <= f
        <3> HIDE DEF p
        <3>1. i \in Nat /\ i > 0
            BY <1>1
        <3> QED
            BY <2>1, <3>1
    <2>4. r \notin Good => c = b - i
        BY <1>9, <1>10
    <2> HIDE DEF p, r
    <2> QED
        BY <1>3, <1>11, <2>1, <2>2, <2>3, <2>4
<1>14. faults' \in Nat /\ r \in Replies /\ r.type \in Answers \cup {"empty"}
    BY <1>3, <1>4, <1>11
<1> HIDE DEF r, n, m
<1> QED
    BY <1>3, <1>6, <1>8, <1>10, <1>12, <1>13, <1>14, ReplyKeepsTries DEF n, m

(* Hearing nothing costs a fault, or something had broken off, or the       *)
(* message was lost.                                                        *)
LEMMA TimeoutKeepsTries ==
    ASSUME TypeOK, TriesInv, Trying, host.end = "none", TimesOut
    PROVE  TriesInv' /\ GaveUp'
<1>1. /\ to_fw \in Seq(Requests) /\ to_host \in Seq(Replies)
      /\ Len(to_fw) \in Nat /\ Len(to_host) \in Nat
    BY LinkLengths
<1> DEFINE n == Len(to_host)
           m == Len(to_fw)
<1>2. /\ fw' = fw /\ to_fw' = to_fw /\ host.pc = "wait" /\ to_host' = <<>> /\ Heard = {}
      /\ \/ to_fw = <<>> /\ faults' = faults
         \/ faults' = faults + 1
    BY DEF TimesOut, NothingComes
<1>3. PICK b \in Nat : b \in Budgets
    BY DEF TriesInv, Budgets
<1>4. b <= Pending /\ Stale(b) /\ host.tries + b + Cuts <= faults + Waits
      /\ Pending + Cuts <= faults + Waits
    BY <1>3 DEF Budgets
<1>5. /\ Waits = 1 /\ host.tries \in Nat /\ faults \in Nat /\ Cuts \in Nat
      /\ Cuts' = 0 /\ Len(to_host') = 0
    <2>1. host.tries \in Nat /\ faults \in Nat
        BY HostFields DEF TypeOK
    <2>2. Waits = 1 /\ Cuts \in Nat
        BY <1>2, CutsIs
    <2>3. Len(to_host') = 0
        BY <1>2
    <2>4. Cuts' = 0
        BY <2>3 DEF Cuts
    <2> QED
        BY <2>1, <2>2, <2>3, <2>4
<1>6. Pending = n + m /\ Pending' = m
    <2>1. Pending' = Len(to_host') + m
        BY <1>2 DEF Pending
    <2> QED
        BY <1>1, <1>5, <2>1 DEF Pending
<1>7. PICK c \in Nat : (c = b - n \/ (c = 0 /\ b <= n)) /\ c <= b /\ c <= m
    <2>1. b <= n + m /\ n \in Nat /\ m \in Nat
        BY <1>1, <1>4, <1>6
    <2> HIDE DEF n, m
    <2>2. CASE n <= b
        <3>1. b - n \in Nat /\ b - n <= b /\ b - n <= m
            BY <2>1, <2>2
        <3> QED
            BY <3>1
    <2>3. CASE ~(n <= b)
        <3>1. b <= n /\ 0 <= b /\ 0 <= m
            BY <2>1, <2>3
        <3> QED
            BY <3>1
    <2> QED
        BY <2>2, <2>3
<1>8. faults' = faults => host.tries <= faults /\ m = 0 /\ c = 0
    <2> SUFFICES ASSUME faults' = faults
                 PROVE  host.tries <= faults /\ m = 0 /\ c = 0
        OBVIOUS
    <2>1. to_fw = <<>> /\ m = 0
        <3>1. ~(faults' = faults + 1)
            BY <1>5
        <3> QED
            BY <1>2, <3>1, EmptyIs
    <2>2. c = 0
        BY <1>7, <2>1
    <2>3. CASE n = 0
        <3>1. Pending = 0
            BY <1>6, <2>1, <2>3
        <3> QED
            BY <1>2, <2>1, <2>2, <3>1 DEF TriesInv
    <2>4. CASE n # 0
        <3>1. 1 \in 1 .. n
            BY <1>1, <2>4
        <3>2. ~Whole(to_host[1])
            BY <1>2, <3>1 DEF Heard
        <3>3. to_host[1].type \in Answers
            BY <3>1 DEF TriesInv, Quiet
        <3>4. to_host[1].type = "cut"
            BY <3>2, <3>3 DEF Whole, Answers
        <3>5. Cuts = 1
            BY <3>1, <3>4 DEF Cuts
        <3>6. \A t, f \in Nat : t + b + 1 <= f + 1 => t <= f
            OBVIOUS
        <3>7. host.tries + b + 1 <= faults + 1
            BY <1>4, <1>5, <3>5
        <3> QED
            BY <1>5, <2>1, <2>2, <3>6, <3>7
    <2> QED
        BY <2>3, <2>4
<1>9. /\ faults' \in Nat /\ Pending' + Cuts' <= faults' /\ host.tries <= faults' + 1
      /\ host.tries + c + Cuts' <= faults'
    <2>1. n \in Nat /\ m \in Nat
        BY <1>1
    <2>2. \A t, f, u \in Nat : (n + m) + u <= f + 1 /\ t + b + u <= f + 1
             => /\ f + 1 \in Nat /\ m + 0 <= f + 1 /\ t <= (f + 1) + 1 /\ t + c + 0 <= f + 1
                /\ t <= f /\ m = 0 /\ c = 0 =>
                      m + 0 <= f /\ t <= f + 1 /\ t + c + 0 <= f
        <3> HIDE DEF n, m
        <3> QED
            BY <1>7, <2>1
    <2>3. (n + m) + Cuts <= faults + 1 /\ host.tries + b + Cuts <= faults + 1
        BY <1>4, <1>5, <1>6
    <2>4. faults' = faults \/ faults' = faults + 1
        BY <1>2
    <2> HIDE DEF n, m
    <2>5. CASE faults' = faults
        BY <1>5, <1>6, <1>8, <2>2, <2>3, <2>5
    <2>6. CASE faults' = faults + 1
        BY <1>5, <1>6, <2>2, <2>3, <2>6
    <2> QED
        BY <2>4, <2>5, <2>6
<1>10. /\ n \in 0 .. n /\ Len(to_host') = n - n /\ c <= n - n + m
       /\ \A i \in 1 .. n - n : to_host'[i] = to_host[i + n]
    BY <1>1, <1>5, <1>7
<1>11. PICK r \in Replies : r.type \in Answers \cup {"empty"} /\ host' = After(r)
    <2>1. host' = After(EMPTY) \/ \E i \in 1 .. n : host' = After(to_host[i])
        BY DEF TimesOut
    <2>2. EMPTY \in Replies /\ EMPTY.type = "empty"
        BY ReplyIs
    <2>3. \A i \in 1 .. n : to_host[i] \in Replies /\ to_host[i].type \in Answers
        BY <1>1 DEF TriesInv, Quiet
    <2> QED
        BY <2>1, <2>2, <2>3
<1> HIDE DEF n, m
<1> QED
    BY <1>2, <1>4, <1>7, <1>9, <1>10, <1>11, ReplyKeepsTries DEF n, m

(* A session that begins with a quiet link owes nothing. *)
LEMMA BeginKeepsTries ==
    ASSUME TypeOK, NEW kind \in Kinds, NEW file \in Nat, Begin(kind, file)
    PROVE  TriesInv' /\ GaveUp'
<1>1. /\ host'.pc = "ask" /\ host'.step = 1 /\ host'.tries = 0 /\ host'.end = "none"
      /\ host'.clean = (fw.pc = "idle" /\ to_fw = <<>> /\ to_host = <<>>)
      /\ fw'.pc = fw.pc /\ to_fw' = to_fw /\ faults' = 0
      /\ \/ to_host' = <<>>
         \/ to_host # <<>> /\ to_host' = <<STRAY>>
      /\ host' \in Hosts
    BY BeginIs
<1>2. GaveUp'
    BY <1>1 DEF GaveUp
<1>3. ASSUME host'.clean
      PROVE  TriesInv'
    <2>1. fw'.pc = "idle" /\ to_fw' = <<>> /\ to_host' = <<>>
        BY <1>1, <1>3
    <2>2. Len(to_fw') = 0 /\ Len(to_host') = 0
        BY <2>1
    <2>3. Pending' = 0 /\ Cuts' = 0 /\ Waits' = 0
        BY <1>1, <2>2 DEF Pending, Cuts, Waits
    <2>4. Stale(0)'
        BY <2>2 DEF Stale
    <2>5. 0 \in Budgets'
        BY <1>1, <2>3, <2>4 DEF Budgets
    <2>6. Quiet'
        BY <2>1, <2>2 DEF Quiet
    <2> QED
        BY <1>1, <2>5, <2>6 DEF TriesInv
<1>4. ASSUME ~host'.clean
      PROVE  TriesInv'
    BY <1>4 DEF TriesInv, Trying
<1> QED
    BY <1>2, <1>3, <1>4

-----------------------------------------------------------------------------
(* A session that goes on with nothing left to give up on. *)
LEMMA LateCalls ==
    ASSUME TypeOK, ~Trying, host.clean, host.pc # "off", host.end = "none",
           NEW r \in Replies, host' = After(r)
    PROVE  TriesInv' /\ GaveUp'
<1>1. Call \notin {"GET_GIT_HASH", "READ_EEPROM"} /\ Call \in Types /\ host.step > LastTried
    <2>1. host.step > LastTried
        <3>1. ~(host.step <= LastTried) /\ host.step \in 1 .. 6 /\ LastTried \in Nat
            BY CallIs DEF Trying, LastTried
        <3> QED
            BY <3>1
    <2>2. host.step \in 1 .. 6 /\ LastTried \in Nat
        BY CallIs DEF LastTried
    <2>3. ~(host.step <= LastTried)
        BY <2>1, <2>2
    <2> QED
        BY <2>1, <2>3, TryingCalls
<1> DEFINE Fits(h) == h.end \notin {"failed", "mismatch"}
<1>2. Fits(Again) /\ \A how \in {"usb", "not found", "done"} : Fits(Over(how))
    BY AgainIs, OverIs DEF Retries, Ends
<1>3. \A h : Proceeds(h) => Fits(h)
    BY DEF Proceeds, Ends
<1>4. Proceeds(NextCall)
    BY NextCallIs
<1>5. ASSUME Call \in Acked
      PROVE  Fits(After(r))
    BY <1>2, <1>3, <1>4, <1>5, AfterAcked
<1>6. ASSUME Call = "GET_RTC"
      PROVE  Fits(After(r))
    <2>1. host.step < 6 /\ r.num \in Int /\ -1 \in Int /\ 0 \in Int
        BY <1>6, GetRtcStep, ReplyFields
    <2>2. \A st \in Int :
             /\ Fits([NextCall EXCEPT !.stamp = st])
             /\ Fits([NextCall EXCEPT !.stamp = st, !.warned = TRUE])
        BY <1>3, <2>1, StampedIs, TimedIs
    <2> DEFINE st == IF r.type = "rtc" THEN r.num ELSE -1
    <2>3. st \in Int /\ StampLeft(r) \in Int
        BY <2>1 DEF StampLeft
    <2>4. \/ After(r) = [NextCall EXCEPT !.stamp = StampLeft(r), !.warned = TRUE]
          \/ After(r) = [NextCall EXCEPT !.stamp = st]
          \/ After(r) = Again
        BY <1>6, AfterRtc
    <2> HIDE DEF st, Fits
    <2> QED
        BY <1>2, <2>2, <2>3, <2>4
<1>7. ASSUME Call = "READ_SD_UART"
      PROVE  Fits(After(r))
    <2>1. Prints(AfterFrame(r), r) => Fits(AfterFrame(r))
        BY DEF Prints
    <2> QED
        BY <1>2, <1>7, <2>1, AfterRead, AfterFrameIs
<1>8. Fits(host')
    <2>1. Call \in Acked \/ Call = "GET_RTC" \/ Call = "READ_SD_UART"
        BY <1>1 DEF Types, Tried
    <2> HIDE DEF Fits
    <2> QED
        BY <1>5, <1>6, <1>7, <2>1
<1>9. ~Trying'
    <2>1. LastTried' = LastTried /\ host.step \in Nat /\ LastTried \in Nat
        <3>1. host'.kind = host.kind
            BY AfterIs
        <3>2. host.step \in Nat
            BY CallIs
        <3> QED
            BY <3>1, <3>2 DEF LastTried
    <2>2. host'.step = host.step \/ host'.step = host.step + 1
        BY AfterIs
    <2>3. ~(host'.step <= LastTried)
        BY <1>1, <2>1, <2>2
    <2> QED
        BY <2>1, <2>3 DEF Trying
<1> QED
    BY <1>8, <1>9 DEF TriesInv, GaveUp

-----------------------------------------------------------------------------
(* The theorem *)

LEMMA StepKeepsTries ==
    ASSUME SessionInv, TriesInv, GaveUp, [Next]_vars
    PROVE  TriesInv' /\ GaveUp'
<1> USE DEF SessionInv
<1>1. TypeOK /\ FileInv /\ (host.pc # "off" => host.end = "none")
    BY DEF GotInv
<1>2. faults \in Nat /\ CONTROL_ATTEMPTS \in Nat
    BY DownloadAssumption DEF TypeOK
<1>3. ASSUME faults' \in Nat, faults' >= faults, host'.end = host.end, host'.clean = host.clean,
             host'.pc = host.pc
      PROVE  GaveUp'
    <2>1. \A c, f, g \in Nat : c <= f + 1 /\ g >= f => c <= g + 1
        OBVIOUS
    <2>2. CONTROL_ATTEMPTS <= faults + 1 => CONTROL_ATTEMPTS <= faults' + 1
        BY <1>2, <1>3, <2>1
    <2> QED
        BY <1>3, <2>2 DEF GaveUp
<1>4. CASE FwStep
    <2>1. host' = host /\ faults' \in Nat /\ faults' >= faults
        <3>1. host' = host
            BY <1>4 DEF FwStep
        <3>2. faults' \in Nat
            BY <1>1, <1>4, FwStepKeepsTypes DEF TypeOK
        <3>3. faults' = faults \/ faults' >= faults
            BY <1>1, <1>4, TellIs, SetIs, InitStepIs, StartStepIs, GetRtcIs, ReadIs,
               SendBufferIs, AbortIs, SendEndIs DEF FwStep, AckSent
        <3> QED
            BY <1>2, <3>1, <3>2, <3>3
    <2> QED
        BY <1>1, <1>3, <1>4, <2>1, FwStepKeepsTries
<1>5. CASE Hear \/ TimesOut
    <2>1. host.pc = "wait" /\ host.end = "none"
        BY <1>1, <1>5, HostHears
    <2>2. CASE Trying
        BY <1>1, <1>5, <2>1, <2>2, HearKeepsTries, TimeoutKeepsTries
    <2>3. PICK r \in Replies : host' = After(r)
        BY <1>1, <1>5, HostHears
    <2>4. CASE ~Trying /\ host.clean
        BY <1>1, <2>1, <2>3, <2>4, LateCalls
    <2>5. CASE ~host.clean
        <3>1. ~host'.clean
            BY <1>1, <2>3, <2>5, AfterIs
        <3> QED
            BY <3>1 DEF TriesInv, GaveUp, Trying
    <2> QED
        BY <2>2, <2>4, <2>5
<1>6. CASE Ask
    <2>1. /\ host.pc = "ask" /\ host'.end = host.end /\ host.end = "none"
        BY <1>1, <1>6, AskIs
    <2>2. GaveUp'
        BY <2>1 DEF GaveUp
    <2> QED
        BY <1>1, <1>6, <2>2, AskKeepsTries
<1>7. CASE Kill
    BY <1>1, <1>7, KillIs DEF TriesInv, Trying, GaveUp
<1>8. ASSUME NEW kind \in Kinds, NEW file \in Nat, Begin(kind, file)
      PROVE  TriesInv' /\ GaveUp'
    BY <1>1, <1>8, BeginKeepsTries
<1>9. CASE UNCHANGED vars
    <2>1. host' = host /\ fw' = fw /\ to_fw' = to_fw /\ to_host' = to_host /\ faults' = faults
        BY <1>9 DEF vars
    <2>2. /\ Call' = Call /\ Waits' = Waits /\ Trying' = Trying /\ Asked' = Asked
          /\ Answers' = Answers /\ Good' = Good
        BY <2>1, SameSession
    <2>3. Pending' = Pending /\ Cuts' = Cuts /\ Quiet' = Quiet
        BY <2>1, <2>2 DEF Pending, Cuts, Quiet
    <2>4. Budgets' = Budgets
        BY <2>1, <2>2, <2>3 DEF Budgets, Stale
    <2> QED
        BY <2>1, <2>2, <2>3, <2>4 DEF TriesInv, GaveUp
<1>10. /\ "download" \in Kinds /\ "buffer" \in Kinds /\ 0 \in Nat
       /\ \A file \in 0 .. Len(FILES) + 1 : file \in Nat
    BY DEF Kinds
<1>11. CASE FwHalt
    <2>1. host' = host /\ faults' \in Nat /\ faults' >= faults
        <3>1. host' = host /\ faults' \in Nat /\ faults' > faults
            BY <1>1, <1>11, HaltIs
        <3> QED
            BY <1>2, <3>1
    <2> QED
        BY <1>1, <1>3, <1>11, <2>1, HaltKeepsTries
<1> QED
    BY <1>4, <1>5, <1>6, <1>7, <1>8, <1>9, <1>10, <1>11 DEF Next, HostStep

(* A session that finds the link quiet gives up on the BattOr only after    *)
(* one fault less than it has tries (CleanSessionSucceeds), for every       *)
(* number of tries and whatever the faults are: every lost try and every    *)
(* answer that comes too late to be its own has cost one.                   *)
THEOREM CleanSessionsSucceed == Spec => []CleanSessionSucceeds
<1>1. Init => SessionInv /\ TriesInv /\ GaveUp
    <2> SUFFICES ASSUME Init
                 PROVE  SessionInv /\ TriesInv /\ GaveUp
        OBVIOUS
    <2>1. SessionInv
        BY InitTypes, InitLink, InitGot DEF SessionInv
    <2>2. host.pc = "off" /\ host.end = "none"
        BY DEF Init, HostOff
    <2> QED
        BY <2>1, <2>2 DEF TriesInv, Trying, GaveUp
<1>2. SessionInv /\ TriesInv /\ GaveUp /\ [Next]_vars => SessionInv' /\ TriesInv' /\ GaveUp'
    BY StepKeepsSession, StepKeepsTries
<1>3. SessionInv /\ GaveUp => CleanSessionSucceeds
    <2> SUFFICES ASSUME SessionInv, GaveUp, host.clean, host.end \in {"failed", "mismatch"}
                 PROVE  faults >= CONTROL_ATTEMPTS - 1
        BY DEF CleanSessionSucceeds
    <2>1. faults \in Nat /\ CONTROL_ATTEMPTS \in Nat
        BY DownloadAssumption DEF SessionInv, TypeOK
    <2>2. CONTROL_ATTEMPTS <= faults + 1
        BY DEF GaveUp
    <2> QED
        BY ONLY <2>1, <2>2
<1> QED
    BY <1>1, <1>2, <1>3, PTL DEF Spec

==============================================================================
