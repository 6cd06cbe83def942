-------------------------- MODULE FileSystemProofs --------------------------
(***************************************************************************)
(* Proofs about the file system, for every block length, card, payload,    *)
(* skip length and sequence of calls.                                      *)
(***************************************************************************)
EXTENDS FileSystemProperties, TLAPS

-----------------------------------------------------------------------------
(* The inductive invariant *)

Files == 1 .. Len(log)
Cards == 0 .. CAPACITY - 1
Records == [start : Nat, len : Nat, rtc : Nat, tag : Tag \cup {NoTag}]

(* The files follow each other on the card. *)
Ordered ==
    /\ log # <<>> => Formatted(disk[0])
    /\ \A i, j \in Files : i < j => log[i].start < log[j].start

(* No startblock is from a later formatting, or numbered past the last file. *)
Numbered ==
    \A b \in Cards : disk[b].kind = "start" =>
        /\ Formatted(disk[0])
        /\ disk[b].fmt_iter <= FmtIter
        /\ disk[b].fmt_iter = FmtIter => disk[b].seq <= Len(log)

IsSkip(i) == i % FS_FILE_SKIP_LEN = 1

SkipInv ==
    \A i \in Files :
        disk[log[i].start].skip # 0 =>
            /\ IsSkip(i)
            /\ i + FS_FILE_SKIP_LEN \in Files
            /\ disk[log[i].start].skip = log[i + FS_FILE_SKIP_LEN].start

CardInv == Ordered /\ FilesOnDisk /\ Numbered /\ SkipInv

(* The skip file before file s, if any, is the one that was passed last. *)
PrevSkip(idx, s) ==
    \/ idx = -1
    \/ \E i \in Files : /\ idx = log[i].start /\ IsSkip(i)
                        /\ i < s /\ s <= i + FS_FILE_SKIP_LEN

(* What prev holds when the scan looks for file s *)
PrevFile(p, s) ==
    \/ p.idx = -1 /\ (s = 1 \/ s \in Files)
    \/ /\ s - 1 \in Files
       /\ p = [idx |-> log[s - 1].start, len |-> log[s - 1].len,
               rtc |-> log[s - 1].rtc]

(* The scan stands before the place of file g_fs_file_seq. *)
ScanInv ==
    pc = "scan" =>
        /\ fs_fmt_iter = FmtIter
        /\ g_fs_file_seq \in 1 .. Len(log) + 1
        /\ block_idx \in Nat /\ block_idx + 1 = StartOf(g_fs_file_seq)
        /\ op.create => Formatted(disk[0])
        /\ PrevSkip(file_prev_skip_startblock_idx, g_fs_file_seq)
        /\ PrevFile(prev, g_fs_file_seq)

AtStart == /\ g_fs_file_seq = 1 /\ block_idx = 0
           /\ file_prev_skip_startblock_idx = -1

FormatInv ==
    /\ (pc \in {"fmt_read", "fmt_super", "fmt_ones"} /\ op.then = "scan") =>
          prev = NoPrev
    /\ pc = "fmt_super" =>
          /\ block \in Superblocks /\ block.fmt_iter = NextFmtIter
          /\ fs_fmt_iter = NextFmtIter /\ AtStart
    /\ pc = "fmt_ones" =>
          /\ block = Ones /\ log = <<>> /\ Formatted(disk[0])
          /\ fs_fmt_iter = FmtIter /\ AtStart

(* The recording goes to the place behind the last file. *)
RecordingInv ==
    (rec.open /\ pc # "halted") =>
        /\ Formatted(disk[0]) /\ fs_fmt_iter = FmtIter
        /\ file_startblock_idx = ChainEnd
        /\ ChainEnd <= CAPACITY - FS_LAST_FILE_BLOCKS
        /\ g_fs_file_seq = Len(log) + 1
        /\ PrevSkip(file_prev_skip_startblock_idx, g_fs_file_seq)
        /\ (pc \in {"idle", "close_drain"} /\ file_byte_idx # 0) =>
              block.kind = "data"

CloseInv ==
    /\ pc \in {"close_drain", "close_end", "close_start"} => rec.open
    /\ pc \in {"scan", "fmt_read", "fmt_super", "fmt_ones", "reopen", "read",
               "close_skip"} => ~rec.open
    /\ pc = "close_start" =>
          block = [kind |-> "start", fmt_iter |-> fs_fmt_iter,
                   seq |-> g_fs_file_seq, byte_len |-> file_byte_idx,
                   skip |-> 0, rtc |-> file_rtc]
    /\ pc = "close_skip" =>
          \E i \in Files :
              /\ IsSkip(i) /\ i + FS_FILE_SKIP_LEN = Len(log)
              /\ file_prev_skip_startblock_idx = log[i].start
              /\ file_startblock_idx = log[Len(log)].start
    /\ pc = "read" => file_startblock_idx > 0

IInv == TypeOK /\ CardInv /\ ScanInv /\ FormatInv /\ RecordingInv /\ CloseInv

-----------------------------------------------------------------------------
(* Arithmetic *)

(* A length takes a whole number of blocks. *)
LEMMA BlocksNat ==
    ASSUME NEW n \in Nat PROVE BYTES_TO_BLOCKS(n) \in Nat
BY FileSystemAssumption DEF BYTES_TO_BLOCKS

(* The place in the last block is in the block. *)
LEMMA OffsetInBlock ==
    ASSUME NEW n \in Nat PROVE BYTES_IN_LAST_BLOCK(n) \in Offsets
BY FileSystemAssumption DEF BYTES_IN_LAST_BLOCK, Offsets

(* The end of a file is behind its startblock. *)
LEMMA EndBehindStart ==
    ASSUME NEW f \in Records PROVE EndOf(f) \in Nat /\ EndOf(f) > f.start
BY BlocksNat DEF EndOf, Records

(* Two skip files are a skip length apart at least; and the file a skip      *)
(* length behind a skip file is one.                                         *)
LEMMA SkipGap ==
    ASSUME NEW i \in Nat, NEW j \in Nat, IsSkip(i), IsSkip(j), i < j
    PROVE  i + FS_FILE_SKIP_LEN <= j
<1> DEFINE n == FS_FILE_SKIP_LEN
<1>1. n \in Nat \ {0}
    BY FileSystemAssumption
<1>2. i = n * (i \div n) + 1 /\ j = n * (j \div n) + 1
    BY <1>1 DEF IsSkip
<1>3. i \div n \in Int /\ j \div n \in Int
    BY <1>1
<1> DEFINE p == i \div n
           q == j \div n
<1>4. q >= p + 1
    BY <1>1, <1>2, <1>3
<1>5. n * q >= n * (p + 1)
    <2> HIDE DEF p, q
    <2>1. \A a, b \in Int, c \in Nat : a >= b => c * a >= c * b
        OBVIOUS
    <2> QED BY <2>1, <1>1, <1>3, <1>4 DEF p, q
<1>6. n * (p + 1) = n * p + n
    <2> HIDE DEF p, q
    <2> QED BY <1>1, <1>3 DEF p
<1> QED
    BY <1>1, <1>2, <1>3, <1>5, <1>6

LEMMA SkipNext ==
    ASSUME NEW i \in Nat, IsSkip(i) PROVE IsSkip(i + FS_FILE_SKIP_LEN)
<1> DEFINE n == FS_FILE_SKIP_LEN
           p == i \div n
           q == (i + n) \div n
           r == (i + n) % n
<1>1. n \in Nat /\ n > 1
    BY FileSystemAssumption
<1>2. p \in Int /\ q \in Int /\ r \in 0 .. n - 1
    BY <1>1
<1>3. i = n * p + 1 /\ i + n = n * q + r
    BY <1>1 DEF IsSkip
<1> HIDE DEF n, p, q, r
<1>4. n * (q - p - 1) = 1 - r
    <2>1. n * (q - p - 1) = n * q - n * p - n
        BY <1>1, <1>2
    <2> QED BY <2>1, <1>1, <1>2, <1>3
<1>5. \A k \in Int : k >= 1 => n * k >= n
    BY <1>1
<1>6. \A k \in Int : k <= -1 => n * k <= -n
    BY <1>1
<1>7. q - p - 1 = 0
    <2>1. q - p - 1 \in Int
        BY <1>2
    <2>2. ~(q - p - 1 >= 1)
        BY <2>1, <1>1, <1>2, <1>4, <1>5
    <2>3. ~(q - p - 1 <= -1)
        BY <2>1, <1>1, <1>2, <1>4, <1>6
    <2> QED BY <1>2, <2>1, <2>2, <2>3
<1>8. r = 1
    <2>1. n * 0 = 0
        BY <1>1
    <2> QED BY <2>1, <1>2, <1>4, <1>7
<1> QED
    BY <1>8 DEF IsSkip, r, n

-----------------------------------------------------------------------------
(* Blocks *)

LEMMA KindOfBlock ==
    ASSUME NEW b \in Blocks
    PROVE  /\ Formatted(b) => b \in Superblocks
           /\ b.kind = "start" => b \in Startblocks
           /\ b.kind = "data" => b \in Datablocks
BY DEF Blocks, Superblocks, Startblocks, Datablocks, Other, Ones, Formatted

LEMMA BytesOfBlock ==
    ASSUME NEW b \in Blocks PROVE BytesOf(b) \in [Offsets -> Byte]
<1>1. Junk \in Byte
    BY DEF Junk, Byte
<1>2. CASE b.kind = "data"
    BY <1>2, KindOfBlock DEF BytesOf, Datablocks
<1>3. CASE b.kind # "data"
    BY <1>1, <1>3 DEF BytesOf
<1> QED BY <1>2, <1>3

LEMMA FmtIterNat ==
    ASSUME TypeOK
    PROVE  /\ disk[0] \in Blocks
           /\ FmtIter \in Nat /\ NextFmtIter \in Nat
           /\ Formatted(disk[0]) => disk[0].fmt_iter = FmtIter
<1>1. disk[0] \in Blocks
    BY FileSystemAssumption DEF TypeOK
<1> QED
    BY <1>1, KindOfBlock DEF FmtIter, NextFmtIter, Superblocks

-----------------------------------------------------------------------------
(* Every variable keeps its type. *)

(* TypeOK in parts, by what the provers can take together *)
NumberTypes ==
    /\ fs_fmt_iter \in Nat /\ file_startblock_idx \in Int
    /\ file_byte_idx \in Nat /\ file_byte_len \in Nat
    /\ file_prev_skip_startblock_idx \in Int /\ file_rtc \in Nat
    /\ g_fs_file_seq \in Nat /\ block_idx \in Int
    /\ write_buf \in Nat /\ write_len \in Nat /\ want \in Nat

FlagTypes ==
    /\ write_in_progress \in BOOLEAN /\ sd_write_in_progress \in BOOLEAN
    /\ rd_ok \in BOOLEAN

StepTypes ==
    /\ pc \in {"off", "idle", "scan", "fmt_read", "fmt_super", "fmt_ones",
               "reopen", "close_drain", "close_end", "close_start",
               "close_skip", "read", "halted"}
    /\ ret \in {"NONE", "EOF", "NO_EXISTING_FILE", "FILE_TOO_LONG",
                "SD_WRITE_IN_PROGRESS", "SD_MULTI_BLOCK_OUT_OF_ORDER"}

CardTypes ==
    /\ disk \in [Cards -> Blocks] /\ block \in Blocks
    /\ card \in [busy : BOOLEAN, multi : BOOLEAN, last : Nat]

FileTypes ==
    /\ out \in Seq(Byte) /\ log \in Seq(Records)
    /\ prev \in [idx : Int, len : Nat, rtc : Nat]

OpType == op \in [create : BOOLEAN, seq : Nat, portable : BOOLEAN,
                  then : {"idle", "scan", "reopen"}]

RecType == rec \in [open : BOOLEAN, tag : Tag \cup {NoTag}, accepted : Nat]

Parts == NumberTypes /\ FlagTypes /\ StepTypes /\ CardTypes /\ FileTypes
         /\ OpType /\ RecType

LEMMA TypeParts == (TypeOK <=> Parts) /\ (TypeOK' <=> Parts')
BY DEF TypeOK, Parts, NumberTypes, FlagTypes, StepTypes, CardTypes,
       FileTypes, OpType, RecType, Cards, Records

LEMMA OpenType ==
    ASSUME TypeOK, NEW create \in BOOLEAN, NEW seq \in Nat,
           OpenSuperblock(create, seq)
    PROVE  TypeOK'
<1>1. disk[0] \in Blocks /\ (Formatted(disk[0]) => disk[0].fmt_iter \in Nat)
    BY FmtIterNat, KindOfBlock DEF Superblocks
<1>2. NumberTypes'
    BY <1>1 DEF OpenSuperblock, FsInit, NoRead, NumberTypes
<1>3. FlagTypes'
    BY DEF OpenSuperblock, FsInit, NoRead, FlagTypes
<1>4. StepTypes'
    BY DEF OpenSuperblock, StepTypes
<1>5. CardTypes'
    BY <1>1, TypeParts DEF Parts, OpenSuperblock, FsInit, CardTypes
<1>6. FileTypes'
    BY TypeParts DEF Parts, OpenSuperblock, NoRead, NoPrev, FileTypes
<1>7. OpType' /\ RecType'
    <2>1. OpType'
        <3>1. \E t \in {"idle", "scan"} :
                 op' = [create |-> create, seq |-> seq, portable |-> FALSE,
                        then |-> t]
            BY DEF OpenSuperblock
        <3> QED BY <3>1 DEF OpType
    <2>2. RecType'
        BY DEF OpenSuperblock, NoRec, RecType
    <2> QED BY <2>1, <2>2
<1> QED BY <1>2, <1>3, <1>4, <1>5, <1>6, <1>7, TypeParts DEF Parts

LEMMA ScanCandidate ==
    ASSUME TypeOK, ScanInv, Scanning
    PROVE  /\ block_idx \in Nat /\ block_idx + 1 \in Cards
           /\ Candidate \in Blocks
           /\ Matches => Candidate \in Startblocks
<1>1. block_idx \in Nat /\ block_idx + 1 \in Cards
    BY FileSystemAssumption DEF TypeOK, ScanInv, Scanning, Cards
<1>2. Candidate \in Blocks
    BY <1>1 DEF TypeOK, Candidate, Cards
<1> QED BY <1>1, <1>2, KindOfBlock DEF Matches, IsFile

LEMMA ScanType ==
    ASSUME TypeOK, ScanInv, Scan PROVE TypeOK'
<1>1. CASE ScanRequested
    <2>0. block_idx \in Nat /\ Candidate \in Blocks /\ Candidate \in Startblocks
        BY <1>1, ScanCandidate DEF ScanRequested, ReadCandidate
    <2>1. NumberTypes'
        BY <1>1, <2>0 DEF TypeOK, ScanRequested, ScanUnchanged, NumberTypes,
           Startblocks, writeVars, readVars
    <2>2. FlagTypes' /\ StepTypes'
        BY <1>1, <2>0 DEF TypeOK, ScanRequested, ScanUnchanged, FlagTypes,
           StepTypes, Return, writeVars, readVars
    <2>3. CardTypes'
        BY <1>1, <2>0 DEF TypeOK, ScanRequested, ScanUnchanged, CardTypes,
           Cards, ReadCandidate
    <2>4. FileTypes'
        BY <1>1, <2>0 DEF TypeOK, ScanRequested, ScanUnchanged, FileTypes,
           Records, NoPrev, readVars
    <2>5. OpType' /\ RecType'
        BY <1>1, <2>0 DEF TypeOK, ScanRequested, ScanUnchanged, OpType,
           RecType, NoOp, ReadCandidate
    <2> QED BY <2>1, <2>2, <2>3, <2>4, <2>5, TypeParts DEF Parts
<1>2. CASE ScanSkip
    <2>0. block_idx \in Nat /\ Candidate \in Blocks /\ Candidate \in Startblocks
        BY <1>2, ScanCandidate DEF ScanSkip, ReadCandidate
    <2>1. NumberTypes'
        BY <1>2, <2>0, FileSystemAssumption, SMTT(30)
           DEF TypeOK, ScanSkip,
           ScanUnchanged, NumberTypes, Startblocks, writeVars, readVars,
           PassSkipFile
    <2>2. FlagTypes' /\ StepTypes'
        BY <1>2, <2>0 DEF TypeOK, ScanSkip, ScanUnchanged, FlagTypes,
           StepTypes, writeVars, readVars
    <2>3. CardTypes'
        BY <1>2, <2>0 DEF TypeOK, ScanSkip, ScanUnchanged, CardTypes, Cards,
           ReadCandidate
    <2>4. FileTypes'
        BY <1>2, <2>0 DEF TypeOK, ScanSkip, ScanUnchanged, FileTypes, Records,
           NoPrev, readVars
    <2>5. OpType' /\ RecType'
        BY <1>2, <2>0 DEF TypeOK, ScanSkip, ScanUnchanged, OpType, RecType,
           NoOp, ReadCandidate
    <2> QED BY <2>1, <2>2, <2>3, <2>4, <2>5, TypeParts DEF Parts
<1>3. CASE ScanNext
    <2>0. block_idx \in Nat /\ Candidate \in Blocks /\ Candidate \in Startblocks
        BY <1>3, ScanCandidate DEF ScanNext, ReadCandidate
    <2>1. NumberTypes'
        BY <1>3, <2>0, FileSystemAssumption, BlocksNat, SMTT(30)
           DEF TypeOK, ScanNext,
           ScanUnchanged, NumberTypes, Startblocks, writeVars, readVars,
           PassSkipFile, AfterFile
    <2>2. FlagTypes' /\ StepTypes'
        BY <1>3, <2>0 DEF TypeOK, ScanNext, ScanUnchanged, FlagTypes,
           StepTypes, writeVars, readVars
    <2>3. CardTypes'
        BY <1>3, <2>0 DEF TypeOK, ScanNext, ScanUnchanged, CardTypes, Cards,
           ReadCandidate
    <2>4. FileTypes'
        BY <1>3, <2>0 DEF TypeOK, ScanNext, ScanUnchanged, FileTypes, Records,
           NoPrev, readVars, Startblocks
    <2>5. OpType' /\ RecType'
        BY <1>3, <2>0 DEF TypeOK, ScanNext, ScanUnchanged, OpType, RecType,
           NoOp, ReadCandidate
    <2> QED BY <2>1, <2>2, <2>3, <2>4, <2>5, TypeParts DEF Parts
<1>4. CASE ScanCreate
    <2>0. block_idx \in Nat /\ Candidate \in Blocks
        BY <1>4, ScanCandidate DEF ScanCreate, ReadCandidate
    <2>1. NumberTypes'
        BY <1>4, <2>0 DEF TypeOK, ScanCreate, ScanUnchanged, NumberTypes,
           writeVars, readVars
    <2>2. FlagTypes' /\ StepTypes'
        BY <1>4, <2>0 DEF TypeOK, ScanCreate, ScanUnchanged, FlagTypes,
           StepTypes, Return, writeVars, readVars
    <2>3. CardTypes'
        BY <1>4, <2>0 DEF TypeOK, ScanCreate, ScanUnchanged, CardTypes, Cards
    <2>4. FileTypes'
        BY <1>4, <2>0 DEF TypeOK, ScanCreate, ScanUnchanged, FileTypes,
           Records, NoPrev, readVars
    <2>5. OpType' /\ RecType'
        BY <1>4, <2>0 DEF TypeOK, ScanCreate, ScanUnchanged, OpType, RecType,
           NoOp
    <2> QED BY <2>1, <2>2, <2>3, <2>4, <2>5, TypeParts DEF Parts
<1>5. CASE ScanLast
    <2>0. block_idx \in Nat /\ Candidate \in Blocks
        BY <1>5, ScanCandidate DEF ScanLast, ReadCandidate
    <2>1. NumberTypes'
        BY <1>5, <2>0 DEF TypeOK, ScanLast, ScanUnchanged, NumberTypes,
           writeVars, readVars
    <2>2. FlagTypes' /\ StepTypes'
        BY <1>5, <2>0 DEF TypeOK, ScanLast, ScanUnchanged, FlagTypes,
           StepTypes, Return, writeVars, readVars
    <2>3. CardTypes'
        BY <1>5, <2>0 DEF TypeOK, ScanLast, ScanUnchanged, CardTypes, Cards,
           ReadCandidate
    <2>4. FileTypes'
        BY <1>5, <2>0 DEF TypeOK, ScanLast, ScanUnchanged, FileTypes, Records,
           NoPrev, readVars
    <2>5. OpType' /\ RecType'
        BY <1>5, <2>0 DEF TypeOK, ScanLast, ScanUnchanged, OpType, RecType,
           NoOp, ReadCandidate
    <2> QED BY <2>1, <2>2, <2>3, <2>4, <2>5, TypeParts DEF Parts
<1>6. CASE ScanMissing
    <2>0. block_idx \in Nat /\ Candidate \in Blocks
        BY <1>6, ScanCandidate DEF ScanMissing, ReadCandidate
    <2>1. NumberTypes'
        BY <1>6, <2>0 DEF TypeOK, ScanMissing, ScanUnchanged, NumberTypes,
           fileVars, writeVars, readVars
    <2>2. FlagTypes' /\ StepTypes'
        BY <1>6, <2>0 DEF TypeOK, ScanMissing, ScanUnchanged, FlagTypes,
           StepTypes, Return, writeVars, readVars
    <2>3. CardTypes'
        BY <1>6, <2>0 DEF TypeOK, ScanMissing, ScanUnchanged, CardTypes,
           Cards, ReadCandidate
    <2>4. FileTypes'
        BY <1>6, <2>0 DEF TypeOK, ScanMissing, ScanUnchanged, FileTypes,
           Records, NoPrev, readVars
    <2>5. OpType' /\ RecType'
        BY <1>6, <2>0 DEF TypeOK, ScanMissing, ScanUnchanged, OpType, RecType,
           NoOp, ReadCandidate
    <2> QED BY <2>1, <2>2, <2>3, <2>4, <2>5, TypeParts DEF Parts
<1>7. CASE ScanFull
    <2>1. NumberTypes'
        BY <1>7 DEF TypeOK, ScanFull, ScanUnchanged, NumberTypes, fileVars,
           writeVars, readVars
    <2>2. FlagTypes' /\ StepTypes'
        BY <1>7 DEF TypeOK, ScanFull, ScanUnchanged, FlagTypes, StepTypes,
           writeVars, readVars
    <2>3. CardTypes'
        BY <1>7 DEF TypeOK, ScanFull, ScanUnchanged, CardTypes, Cards
    <2>4. FileTypes'
        BY <1>7 DEF TypeOK, ScanFull, ScanUnchanged, FileTypes, Records,
           NoPrev, readVars
    <2>5. OpType' /\ RecType'
        BY <1>7 DEF TypeOK, ScanFull, ScanUnchanged, OpType, RecType, NoOp
    <2> QED BY <2>1, <2>2, <2>3, <2>4, <2>5, TypeParts DEF Parts
<1> QED BY <1>1, <1>2, <1>3, <1>4, <1>5, <1>6, <1>7 DEF Scan

LEMMA HaltType ==
    ASSUME TypeOK, SdHalt PROVE TypeOK'
<1>1. NumberTypes'
    BY DEF TypeOK, SdHalt, NumberTypes, fsVars, fileVars, writeVars, readVars
<1>2. FlagTypes' /\ StepTypes'
    BY DEF TypeOK, SdHalt, Halt, FlagTypes, StepTypes, fsVars, writeVars,
           readVars
<1>3. CardTypes' /\ FileTypes' /\ OpType' /\ RecType'
    BY DEF TypeOK, SdHalt, CardTypes, FileTypes, OpType, RecType, Cards,
           Records, fsVars, readVars
<1> QED BY <1>1, <1>2, <1>3, TypeParts DEF Parts

LEMMA FormatBodyType ==
    ASSUME TypeOK, NEW portable \in BOOLEAN, FormatBody(portable),
           OpType', RecType', ret' \in {ret, "NONE"}
    PROVE  TypeOK'
<1>1. NextFmtIter \in Nat
    BY FmtIterNat
<1>2. [kind |-> "super", fmt_iter |-> NextFmtIter, portable |-> portable]
         \in Superblocks
    BY <1>1 DEF Superblocks
<1>3. NumberTypes'
    BY <1>1 DEF FormatBody, FsInit, NoRead, NumberTypes
<1>4. FlagTypes' /\ StepTypes'
    BY DEF TypeOK, FormatBody, FsInit, NoRead, FlagTypes, StepTypes
<1>5. CardTypes'
    BY <1>2 DEF TypeOK, FormatBody, FsInit, CardTypes, Cards, Blocks
<1>6. FileTypes'
    BY DEF TypeOK, FormatBody, NoRead, FileTypes, Records
<1> QED BY <1>3, <1>4, <1>5, <1>6, TypeParts DEF Parts

LEMMA FormatType ==
    ASSUME TypeOK, Format PROVE TypeOK'
<1>1. CASE FormatRead
    <2>1. OpType' /\ RecType' /\ ret' = ret /\ op.portable \in BOOLEAN
        BY <1>1 DEF TypeOK, FormatRead, OpType, RecType
    <2> QED BY <1>1, <2>1, FormatBodyType DEF FormatRead
<1>2. CASE FormatSuper /\ ~SdHalt
    <2>1. NumberTypes'
        BY <1>2, ZenonT(60)
           DEF TypeOK, FormatSuper, NumberTypes, fileVars, writeVars,
           readVars
    <2>2. FlagTypes' /\ StepTypes'
        BY <1>2 DEF TypeOK, FormatSuper, FlagTypes, StepTypes, writeVars,
           readVars
    <2>3. CardTypes'
        BY <1>2 DEF TypeOK, FormatSuper, SdWriteBlock, CardTypes, Cards,
           Blocks, Ones
    <2>4. FileTypes'
        <3>1. log' = <<>> /\ prev' = prev /\ out' = out
            BY <1>2 DEF FormatSuper, readVars
        <3> QED BY <3>1 DEF TypeOK, FileTypes
    <2>5. OpType' /\ RecType'
        BY <1>2 DEF TypeOK, FormatSuper, OpType, RecType
    <2> QED BY <2>1, <2>2, <2>3, <2>4, <2>5, TypeParts DEF Parts
<1>3. CASE FormatOnes /\ ~SdHalt
    <2>1. NumberTypes'
        BY <1>3, ZenonT(60)
           DEF TypeOK, FormatOnes, NumberTypes, fsVars, fileVars,
           writeVars, readVars
    <2>2. FlagTypes' /\ StepTypes'
        BY <1>3 DEF TypeOK, FormatOnes, FlagTypes, StepTypes, fsVars,
           writeVars, readVars
    <2>3. CardTypes'
        BY <1>3 DEF TypeOK, FormatOnes, SdWriteBlock, CardTypes, Cards, fsVars
    <2>4. FileTypes' /\ RecType'
        BY <1>3 DEF TypeOK, FormatOnes, FileTypes, RecType, Records, readVars
    <2>5. OpType'
        <3>1. op' = NoOp \/ op' = op
            BY <1>3 DEF FormatOnes
        <3>2. OpType
            BY TypeParts DEF Parts
        <3>3. NoOp \in [create : BOOLEAN, seq : Nat, portable : BOOLEAN,
                        then : {"idle", "scan", "reopen"}]
            BY DEF NoOp
        <3> QED BY <3>1, <3>2, <3>3 DEF OpType
    <2> QED BY <2>1, <2>2, <2>3, <2>4, <2>5, TypeParts DEF Parts
<1>4. CASE SdHalt
    BY <1>4, HaltType
<1> QED BY <1>1, <1>2, <1>3, <1>4 DEF Format, FormatSuper, FormatOnes

-----------------------------------------------------------------------------
LEMMA CopiedFits ==
    ASSUME TypeOK
    PROVE  /\ BlockByte \in Offsets
           /\ BytesCopied \in 0 .. write_len
           /\ BlockByte + BytesCopied <= SD_BLOCK_LEN
           /\ FilledBlock \in Datablocks
<1>1. BlockByte \in Offsets
    BY OffsetInBlock DEF TypeOK, BlockByte
<1>2. BytesCopied \in 0 .. write_len /\ BlockByte + BytesCopied <= SD_BLOCK_LEN
    BY <1>1, FileSystemAssumption DEF TypeOK, BytesCopied, Offsets
<1>3. BytesOf(block) \in [Offsets -> Byte]
    BY BytesOfBlock DEF TypeOK
<1>4. ASSUME NEW o \in Offsets, o \in BlockByte .. BlockByte + BytesCopied - 1
      PROVE  <<rec.tag, write_buf + (o - BlockByte)>> \in Byte
    BY <1>1, <1>2, <1>4 DEF TypeOK, Byte, Offsets
<1> DEFINE bytes == [o \in Offsets |->
                       IF o \in BlockByte .. BlockByte + BytesCopied - 1
                       THEN <<rec.tag, write_buf + (o - BlockByte)>>
                       ELSE BytesOf(block)[o]]
<1>5. bytes \in [Offsets -> Byte]
    BY <1>3, <1>4
<1>6. FilledBlock = [kind |-> "data", bytes |-> bytes]
    BY DEF FilledBlock
<1>7. FilledBlock \in Datablocks
    <2> HIDE DEF bytes
    <2> QED BY <1>5, <1>6 DEF Datablocks
<1> QED BY <1>1, <1>2, <1>7

LEMMA WriteType ==
    ASSUME TypeOK, NEW len \in WriteLens, FsWrite(len) PROVE TypeOK'
<1>1. len \in Nat
    BY FileSystemAssumption
<1>2. NumberTypes'
    BY <1>1 DEF TypeOK, FsWrite, NumberTypes, fileVars, readVars
<1>3. FlagTypes' /\ StepTypes'
    BY DEF TypeOK, FsWrite, FlagTypes, StepTypes, readVars
<1>4. CardTypes' /\ FileTypes' /\ OpType'
    BY DEF TypeOK, FsWrite, CardTypes, FileTypes, OpType, Cards, Records,
           readVars
<1>5. RecType'
    <2>1. rec.accepted + len \in Nat
        BY <1>1 DEF TypeOK
    <2>2. rec' = [rec EXCEPT !.accepted = rec.accepted + len]
        BY DEF FsWrite
    <2> QED BY <2>1, <2>2 DEF TypeOK, RecType
<1> QED BY <1>2, <1>3, <1>4, <1>5, TypeParts DEF Parts

LEMMA PollType ==
    ASSUME TypeOK, NEW done \in BOOLEAN, UpdatePoll(done) PROVE TypeOK'
<1>1. NumberTypes' /\ StepTypes'
    BY DEF TypeOK, UpdatePoll, NumberTypes, StepTypes, fileVars, readVars
<1>2. FlagTypes'
    BY DEF TypeOK, UpdatePoll, FlagTypes, readVars
<1>3. CardTypes'
    BY DEF TypeOK, UpdatePoll, CardTypes, Cards
<1>4. FileTypes' /\ OpType' /\ RecType'
    BY DEF TypeOK, UpdatePoll, FileTypes, OpType, RecType, Records, readVars
<1> QED BY <1>1, <1>2, <1>3, <1>4, TypeParts DEF Parts

LEMMA UpdateType ==
    ASSUME TypeOK, UpdateCopy \/ UpdateBlock \/ UpdateDrop,
           file_startblock_idx \in Nat
    PROVE  TypeOK'
<1>1. CopyBytes
    BY DEF UpdateCopy, UpdateBlock, UpdateDrop
<1>2. NumberTypes'
    <2>1. NumberTypes
        BY TypeParts DEF Parts
    <2>2. /\ write_buf' = write_buf + BytesCopied
          /\ write_len' = write_len - BytesCopied
          /\ file_byte_idx' = file_byte_idx + BytesCopied
        BY <1>1 DEF CopyBytes
    <2> QED
        BY <1>1, <2>1, <2>2, CopiedFits DEF CopyBytes, NumberTypes, readVars
<1>3. FlagTypes'
    <2>1. write_in_progress' \in BOOLEAN
        BY DEF TypeOK, UpdateCopy, UpdateBlock, UpdateDrop, WriteDone
    <2>2. sd_write_in_progress' \in BOOLEAN
        BY DEF TypeOK, UpdateCopy, UpdateBlock, UpdateDrop
    <2> QED BY <1>1, <2>1, <2>2 DEF TypeOK, CopyBytes, FlagTypes, readVars
<1>4. StepTypes'
    BY DEF TypeOK, UpdateCopy, UpdateBlock, UpdateDrop, Halt, SdMultiError,
           StepTypes
<1>5. CardTypes'
    <2>1. block' \in Blocks
        BY <1>1, CopiedFits DEF CopyBytes, Blocks
    <2>2. CASE UNCHANGED <<disk, card>>
        BY <2>1, <2>2 DEF TypeOK, CardTypes, Cards
    <2>3. CASE SdWriteMulti(BlockToWrite, FilledBlock, FALSE) /\ UpdateBlock
        <3>1. BlockToWrite \in Nat
            <4>1. file_byte_idx + BytesCopied \in Nat
                BY CopiedFits DEF TypeOK
            <4> QED BY <4>1, BlocksNat DEF BlockToWrite
        <3> QED
            BY <2>1, <2>3, <3>1, CopiedFits
               DEF TypeOK, SdWriteMulti, CardTypes, Cards, Blocks
    <2> QED BY <2>2, <2>3 DEF UpdateCopy, UpdateBlock, UpdateDrop
<1>6. FileTypes' /\ OpType' /\ RecType'
    BY <1>1 DEF TypeOK, CopyBytes, FileTypes, OpType, RecType, Records,
       readVars
<1> QED BY <1>2, <1>3, <1>4, <1>5, <1>6, TypeParts DEF Parts

LEMMA LogType ==
    ASSUME TypeOK
    PROVE  /\ log \in Seq(Records) /\ Len(log) \in Nat
           /\ DOMAIN log = Files
           /\ \A i \in Files : log[i] \in Records
<1>1. log \in Seq(Records)
    BY DEF TypeOK, Records
<1> QED BY <1>1 DEF Files

LEMMA StartOfNat ==
    ASSUME TypeOK, NEW s \in 1 .. Len(log) + 1
    PROVE  StartOf(s) \in Nat \ {0}
<1>1. CASE s = 1
    BY <1>1 DEF StartOf
<1>2. CASE s # 1
    <2>1. log[s - 1] \in Records
        BY <1>2, LogType DEF Files
    <2>2. log[s - 1].start \in Nat
        BY <2>1 DEF Records
    <2> QED BY <1>2, <2>1, <2>2, EndBehindStart DEF StartOf
<1> QED BY <1>1, <1>2

LEMMA ChainEndNat ==
    ASSUME TypeOK PROVE ChainEnd \in Nat \ {0} /\ Len(log) \in Nat
<1>1. Len(log) \in Nat
    BY DEF TypeOK
<1> QED BY <1>1, StartOfNat DEF ChainEnd

(* The startblock of a file is on the card, as a startblock. *)
LEMMA FileStart ==
    ASSUME TypeOK, FilesOnDisk, NEW i \in Files
    PROVE  /\ log[i] \in Records
           /\ log[i].start = StartOf(i) /\ log[i].start \in Cards \ {0}
           /\ disk[log[i].start] \in Startblocks
           /\ IsFile(disk[log[i].start], FmtIter, i)
           /\ disk[log[i].start].byte_len = log[i].len
           /\ disk[log[i].start].rtc = log[i].rtc
<1>1. log[i] \in Records /\ DOMAIN log = Files
    BY LogType
<1>2. /\ log[i].start = StartOf(i)
      /\ log[i].start <= CAPACITY - FS_LAST_FILE_BLOCKS
      /\ IsFile(disk[log[i].start], FmtIter, i)
      /\ disk[log[i].start].byte_len = log[i].len
      /\ disk[log[i].start].rtc = log[i].rtc
    BY <1>1 DEF FilesOnDisk
<1>3. StartOf(i) \in Nat \ {0}
    BY StartOfNat, SMTT(30) DEF Files, TypeOK
<1>4. log[i].start \in Cards \ {0}
    BY <1>2, <1>3, FileSystemAssumption DEF Cards
<1>5. disk[log[i].start] \in Blocks
    BY <1>4 DEF TypeOK, Cards
<1> QED BY <1>1, <1>2, <1>4, <1>5, KindOfBlock DEF IsFile

LEMMA CloseType ==
    ASSUME TypeOK, FilesOnDisk, RecordingInv, CloseInv, Close
    PROVE  TypeOK'
<1>1. CASE (ClosePartial \/ CloseWhole \/ CloseTooLong)
    <2>1. UNCHANGED <<fsVars, op, prev, readVars, rec, log>>
        BY <1>1 DEF ClosePartial, CloseWhole, CloseTooLong
    <2>2. NumberTypes' /\ FlagTypes' /\ FileTypes' /\ OpType' /\ RecType'
        BY <2>1, TypeParts
           DEF Parts, NumberTypes, FlagTypes, FileTypes, OpType, RecType,
               fsVars, fileVars, writeVars, readVars
    <2>3. StepTypes'
        BY <1>1 DEF TypeOK, ClosePartial, CloseWhole, CloseTooLong, Halt,
                    SdMultiError, StepTypes
    <2>4. CardTypes'
        <3>1. CASE UNCHANGED <<disk, card>>
            BY <2>1, <3>1 DEF TypeOK, CardTypes, Cards, fsVars
        <3>2. CASE SdWriteMulti(LastBlock, block, TRUE) /\ ClosePartial
            <4>1. file_startblock_idx \in Nat /\ file_byte_idx \in Nat
                BY <3>2, ChainEndNat
                   DEF TypeOK, ClosePartial, Drained, CloseInv, RecordingInv
            <4>2. LastBlock \in Nat
                BY <4>1, BlocksNat DEF LastBlock
            <4> QED
                BY <2>1, <3>2, <4>2
                   DEF TypeOK, SdWriteMulti, CardTypes, Cards, fsVars
        <3> QED BY <1>1, <3>1, <3>2 DEF ClosePartial, CloseWhole, CloseTooLong
    <2> QED BY <2>2, <2>3, <2>4, TypeParts DEF Parts
<1>2. CASE CloseEnd
    <2>1. NumberTypes' /\ FlagTypes'
        BY <1>2, TypeParts DEF Parts, CloseEnd, NumberTypes, FlagTypes,
           fileVars, writeVars, readVars
    <2>2. StepTypes'
        BY <1>2 DEF TypeOK, CloseEnd, StepTypes
    <2>3. CardTypes'
        <3>1. block' \in Startblocks
            BY <1>2 DEF TypeOK, CloseEnd, Startblocks
        <3> QED
            BY <1>2, <3>1 DEF TypeOK, CloseEnd, SdMultiEnd, CardIdle,
               CardTypes, Cards, Blocks
    <2>4. FileTypes' /\ OpType' /\ RecType'
        BY <1>2, TypeParts DEF Parts, CloseEnd, FileTypes, OpType, RecType,
           readVars
    <2> QED BY <2>1, <2>2, <2>3, <2>4, TypeParts DEF Parts
<1>3. CASE CloseStart /\ ~SdHalt
    <2>0. file_startblock_idx \in Nat
        BY <1>3, ChainEndNat DEF CloseStart, CloseInv, RecordingInv
    <2>1. NumberTypes' /\ FlagTypes'
        <3>1. FsInit(0, -1, Other) \/ UNCHANGED fsVars
            BY <1>3 DEF CloseStart
        <3>2. UNCHANGED readVars
            BY <1>3 DEF CloseStart
        <3>3. NumberTypes'
            BY <3>1, <3>2, TypeParts
               DEF Parts, FsInit, NumberTypes, fsVars, fileVars, writeVars,
                   readVars
        <3>4. FlagTypes'
            BY <3>1, <3>2, TypeParts
               DEF Parts, FsInit, FlagTypes, fsVars, writeVars, readVars
        <3> QED BY <3>3, <3>4
    <2>2. StepTypes'
        BY <1>3 DEF TypeOK, CloseStart, Return, StepTypes
    <2>3. CardTypes'
        <3>1. block' \in Blocks
            BY <1>3 DEF TypeOK, CloseStart, FsInit, fsVars, Other, Blocks
        <3> QED
            BY <1>3, <2>0, <3>1, SMTT(30)
               DEF TypeOK, CloseStart, SdWriteBlock,
               CardTypes, Cards
    <2>4. FileTypes'
        <3>1. ClosedFile \in Records
            BY <2>0 DEF TypeOK, ClosedFile, Records
        <3>2. log' = Append(log, ClosedFile)
            BY <1>3 DEF CloseStart
        <3>3. log' \in Seq(Records)
            BY <3>1, <3>2 DEF TypeOK, Records
        <3> QED BY <1>3, <3>3 DEF TypeOK, CloseStart, FileTypes, readVars
    <2>5. OpType' /\ RecType'
        <3>1. OpType'
            BY <1>3, TypeParts DEF Parts, CloseStart, OpType
        <3>2. RecType'
            <4>1. rec' = NoRec
                BY <1>3 DEF CloseStart
            <4> QED BY <4>1 DEF RecType, NoRec
        <3> QED BY <3>1, <3>2
    <2> QED BY <2>1, <2>2, <2>3, <2>4, <2>5, TypeParts DEF Parts
<1>4. CASE CloseSkip /\ ~SdHalt
    <2>1. NumberTypes' /\ FlagTypes'
        <3>1. FsInit(0, -1, Other) /\ UNCHANGED readVars
            BY <1>4 DEF CloseSkip
        <3>2. NumberTypes'
            BY <3>1, TypeParts DEF Parts, FsInit, NumberTypes, readVars
        <3>3. FlagTypes'
            BY <3>1, TypeParts DEF Parts, FsInit, FlagTypes, readVars
        <3> QED BY <3>2, <3>3
    <2>2. StepTypes'
        BY <1>4 DEF TypeOK, CloseSkip, Return, StepTypes
    <2>3. CardTypes'
        <3> DEFINE p == file_prev_skip_startblock_idx
        <3>1. PICK i \in Files : p = log[i].start
                                 /\ file_startblock_idx = log[Len(log)].start
            BY <1>4 DEF CloseSkip, CloseInv
        <3>2. p \in Cards /\ disk[p] \in Startblocks
            BY <3>1, FileStart
        <3>3. file_startblock_idx \in Nat
            <4>1. Len(log) \in Files
                BY <3>1 DEF TypeOK, Files
            <4> QED BY <3>1, <4>1, FileStart DEF Cards
        <3>4. [disk[p] EXCEPT !.skip = file_startblock_idx] \in Startblocks
            BY <3>2, <3>3 DEF Startblocks
        <3>5. disk' \in [Cards -> Blocks]
            BY <1>4, <3>2, <3>4
               DEF TypeOK, CloseSkip, SdWriteBlock, Cards, Blocks
        <3> QED
            BY <1>4, <3>5 DEF TypeOK, CloseSkip, SdWriteBlock, FsInit, Other,
               CardTypes, Blocks
    <2>4. FileTypes' /\ OpType' /\ RecType'
        BY <1>4, TypeParts DEF Parts, CloseSkip, FileTypes, OpType, RecType,
           readVars
    <2> QED BY <2>1, <2>2, <2>3, <2>4, TypeParts DEF Parts
<1>5. CASE SdHalt
    BY <1>5, HaltType
<1> QED BY <1>1, <1>2, <1>3, <1>4, <1>5 DEF Close, CloseStart, CloseSkip

LEMMA ToReadFits ==
    ASSUME TypeOK, file_byte_idx < file_byte_len
    PROVE  /\ ToRead \in 0 .. want
           /\ BYTES_IN_LAST_BLOCK(file_byte_idx) + ToRead <= SD_BLOCK_LEN
<1>1. BYTES_IN_LAST_BLOCK(file_byte_idx) \in Offsets
    BY OffsetInBlock DEF TypeOK
<1>2. file_byte_idx \in Nat /\ file_byte_len \in Nat /\ want \in Nat
    BY DEF TypeOK
<1> QED BY <1>1, <1>2, FileSystemAssumption DEF ToRead, MinOf, Offsets

LEMMA ReadType ==
    ASSUME TypeOK, CloseInv, ReadStep PROVE TypeOK'
<1>1. /\ file_startblock_idx \in Nat /\ file_byte_idx \in Nat
      /\ want \in Nat /\ ToRead \in 0 .. want
      /\ BYTES_IN_LAST_BLOCK(file_byte_idx) \in Offsets
    BY ToReadFits, OffsetInBlock, SMTT(30) DEF TypeOK, ReadStep, CloseInv
<1>2. BlockToRead \in Nat
    BY <1>1, BlocksNat DEF BlockToRead
<1>3. block' \in Blocks
    <2>1. disk \in [Cards -> Blocks] /\ block \in Blocks
        BY TypeParts DEF Parts, CardTypes
    <2>2. \/ block' = block
          \/ BlockToRead < CAPACITY /\ block' = disk[BlockToRead]
        BY DEF ReadStep
    <2>3. BlockToRead < CAPACITY => BlockToRead \in Cards
        BY <1>2, FileSystemAssumption DEF Cards
    <2> QED BY <2>1, <2>2, <2>3
<1>4. Copied(block') \in Seq(Byte)
    <2>1. BytesOf(block') \in [Offsets -> Byte]
        BY <1>3, BytesOfBlock
    <2>2. \A k \in 1 .. ToRead :
             BYTES_IN_LAST_BLOCK(file_byte_idx) + k - 1 \in Offsets
        BY <1>1, ToReadFits, FileSystemAssumption DEF ReadStep, Offsets
    <2>3. \A k \in 1 .. ToRead :
             BytesOf(block')[BYTES_IN_LAST_BLOCK(file_byte_idx) + k - 1]
                \in Byte
        BY <2>1, <2>2
    <2> QED BY <1>1, <2>3 DEF Copied
<1>5. out' \in Seq(Byte)
    BY <1>4 DEF TypeOK, ReadStep
<1>6. NumberTypes'
    <2>1. /\ block_idx' = BlockToRead /\ want' = want - ToRead
          /\ file_byte_idx' = file_byte_idx + ToRead
        BY DEF ReadStep
    <2>2. NumberTypes
        BY TypeParts DEF Parts
    <2> QED BY <1>1, <1>2, <2>1, <2>2 DEF ReadStep, NumberTypes, writeVars
<1>7. FlagTypes' /\ StepTypes'
    BY DEF TypeOK, ReadStep, FlagTypes, StepTypes, writeVars
<1>8. CardTypes' /\ FileTypes' /\ OpType' /\ RecType'
    BY <1>3, <1>5, TypeParts
       DEF Parts, ReadStep, CardTypes, FileTypes, OpType, RecType
<1> QED BY <1>6, <1>7, <1>8, TypeParts DEF Parts

LEMMA CrashType ==
    ASSUME TypeOK, Crash PROVE TypeOK'
<1>1. NumberTypes' /\ FlagTypes' /\ StepTypes'
    <2>1. NumberTypes'
        BY DEF Crash, NoRead, NumberTypes
    <2>2. FlagTypes'
        BY DEF Crash, NoRead, FlagTypes
    <2>3. StepTypes'
        BY DEF Crash, StepTypes
    <2> QED BY <2>1, <2>2, <2>3
<1>2. CardTypes'
    BY DEF TypeOK, Crash, CardIdle, CardTypes, Cards, Other, Blocks
<1>3. FileTypes'
    BY DEF TypeOK, Crash, NoRead, NoPrev, FileTypes, Records
<1>4. OpType'
    BY DEF Crash, NoOp, OpType
<1>5. RecType'
    BY DEF Crash, NoRec, RecType
<1> QED BY <1>1, <1>2, <1>3, <1>4, <1>5, TypeParts DEF Parts

(* The calls that change a few numbers only. *)
LEMMA CallType ==
    ASSUME TypeOK,
           \/ FsOpenQuick \/ FsClose \/ ReadDone
           \/ \E now \in Times : FsRtcSet(now)
           \/ \E byte \in 0 .. MAX_FILE_LEN : FsSeek(byte)
           \/ \E len \in ReadLens : FsRead(len)
    PROVE  TypeOK'
<1>1. UNCHANGED <<disk, card, block, log, rec>>
    BY DEF FsOpenQuick, FsClose, ReadDone, FsRtcSet, FsSeek, FsRead, fsVars
<1>2. NumberTypes'
    <2>1. NumberTypes /\ Times \subseteq Nat /\ ReadLens \subseteq Nat
        BY FileSystemAssumption, TypeParts DEF Parts
    <2>2. CASE FsOpenQuick
        BY <2>1, <2>2 DEF FsOpenQuick, NumberTypes, writeVars
    <2>3. CASE FsClose \/ ReadDone
        <3>1. want' = 0 /\ UNCHANGED fsVars
            BY <2>3 DEF FsClose, ReadDone, NoRead
        <3> QED
            BY <2>1, <3>1 DEF NumberTypes, fsVars, fileVars, writeVars
    <2>4. ASSUME NEW now \in Times, FsRtcSet(now) PROVE NumberTypes'
        BY <2>1, <2>4 DEF FsRtcSet, NumberTypes, writeVars, readVars
    <2>5. ASSUME NEW byte \in 0 .. MAX_FILE_LEN, FsSeek(byte)
          PROVE  NumberTypes'
        BY <2>1, <2>5, FileSystemAssumption DEF FsSeek, NumberTypes, writeVars
    <2>6. ASSUME NEW len \in ReadLens, FsRead(len) PROVE NumberTypes'
        BY <2>1, <2>6 DEF FsRead, NumberTypes, fsVars, fileVars, writeVars
    <2> QED BY <2>2, <2>3, <2>4, <2>5, <2>6
<1>3. FlagTypes'
    BY TypeParts
       DEF Parts, FsOpenQuick, FsClose, ReadDone, FsRtcSet, FsSeek, FsRead,
           NoRead, FlagTypes, fsVars, writeVars, readVars
<1>4. StepTypes'
    BY TypeParts
       DEF Parts, FsOpenQuick, FsClose, ReadDone, FsRtcSet, FsSeek, FsRead,
           Return, StepTypes
<1>5. CardTypes' /\ RecType'
    BY <1>1, TypeParts DEF Parts, CardTypes, RecType
<1>6. FileTypes'
    <2>1. out' = <<>> \/ out' = out
        BY DEF FsOpenQuick, FsClose, ReadDone, FsRtcSet, FsSeek, FsRead,
               NoRead, readVars
    <2>2. prev' = prev
        BY DEF FsOpenQuick, FsClose, ReadDone, FsRtcSet, FsSeek, FsRead
    <2>3. out' \in Seq(Byte)
        <3>1. out \in Seq(Byte)
            BY DEF TypeOK
        <3>2. <<>> \in Seq(Byte)
            OBVIOUS
        <3> QED BY <2>1, <3>1, <3>2
    <2> QED BY <1>1, <2>2, <2>3, TypeParts DEF Parts, FileTypes
<1>7. OpType'
    <2>1. op' = NoOp \/ op' = op
        BY DEF FsOpenQuick, FsClose, ReadDone, FsRtcSet, FsSeek, FsRead
    <2>2. NoOp \in [create : BOOLEAN, seq : Nat, portable : BOOLEAN,
                    then : {"idle", "scan", "reopen"}]
        BY DEF NoOp
    <2> QED BY <2>1, <2>2, TypeParts DEF Parts, OpType
<1> QED BY <1>2, <1>3, <1>4, <1>5, <1>6, <1>7, TypeParts DEF Parts

LEMMA FormatCallType ==
    ASSUME TypeOK, NEW portable \in BOOLEAN, FsFormat(portable) PROVE TypeOK'
<1>1. OpType'
    <2>1. op' = [create |-> FALSE, seq |-> 0, portable |-> portable,
                 then |-> "idle"]
        BY DEF FsFormat, NoOp
    <2> QED BY <2>1 DEF OpType
<1>2. RecType'
    BY DEF FsFormat, RecType, NoRec
<1> QED BY <1>1, <1>2, FormatBodyType DEF FsFormat

-----------------------------------------------------------------------------
(* The files on the card are kept. *)

LEMMA StartsBelow ==
    ASSUME TypeOK, CardInv, NEW i \in Files PROVE log[i].start < ChainEnd
<1> DEFINE n == Len(log)
<1>1. n \in Files /\ n \in Nat
    BY LogType DEF Files
<1>2. log[n] \in Records /\ ChainEnd = EndOf(log[n])
    BY <1>1, LogType DEF ChainEnd, StartOf, Files
<1>3. ChainEnd > log[n].start /\ ChainEnd \in Nat /\ log[n].start \in Nat
    BY <1>2, EndBehindStart DEF Records
<1>4. log[i].start \in Nat
    BY LogType DEF Records
<1>5. i < n => log[i].start < log[n].start
    BY <1>1 DEF CardInv, Ordered
<1> QED BY <1>1, <1>3, <1>4, <1>5, LogType DEF Files

(* A data block behind the last file disturbs nothing. *)
LEMMA DataWritten ==
    ASSUME TypeOK, CardInv, NEW idx \in Nat, idx >= ChainEnd,
           NEW b \in Datablocks, disk' = [disk EXCEPT ![idx] = b], log' = log
    PROVE  CardInv' /\ disk'[0] = disk[0]
<1>1. disk'[0] = disk[0] /\ FmtIter' = FmtIter
    BY ChainEndNat DEF FmtIter, TypeOK
<1>2. \A i \in Files : disk'[log[i].start] = disk[log[i].start]
    <2> TAKE i \in Files
    <2>1. log[i].start < ChainEnd /\ log[i].start \in Cards
        BY StartsBelow, FileStart DEF CardInv
    <2>2. log[i].start # idx
        BY <2>1, ChainEndNat DEF Cards
    <2> QED BY <2>1, <2>2 DEF TypeOK, Cards
<1>3. Ordered' /\ SkipInv'
    BY <1>1, <1>2 DEF CardInv, Ordered, SkipInv, Files
<1>4. FilesOnDisk'
    BY <1>1, <1>2, LogType DEF CardInv, FilesOnDisk, StartOf
<1>5. Numbered'
    <2>1. ASSUME NEW k \in Cards, disk'[k].kind = "start"
          PROVE  disk'[k] = disk[k]
        BY <2>1 DEF TypeOK, Cards, Datablocks
    <2> QED BY <1>1, <2>1 DEF CardInv, Numbered, Cards
<1> QED BY <1>1, <1>3, <1>4, <1>5 DEF CardInv

LEMMA CardFrame ==
    ASSUME CardInv, UNCHANGED <<disk, log>> PROVE CardInv'
BY DEF CardInv, Ordered, FilesOnDisk, Numbered, SkipInv, Files, FmtIter,
       StartOf, EndOf

(* A format takes the next number: all older startblocks are void. *)
LEMMA SuperWritten ==
    ASSUME TypeOK, CardInv, NEW b \in Superblocks, b.fmt_iter = NextFmtIter,
           disk' = [disk EXCEPT ![0] = b], log' = <<>>
    PROVE  CardInv' /\ Formatted(disk'[0]) /\ FmtIter' = b.fmt_iter
<1>1. disk'[0] = b /\ Formatted(disk'[0]) /\ FmtIter' = b.fmt_iter
    BY FileSystemAssumption DEF TypeOK, Superblocks, Formatted, FmtIter
<1>2. Files' = {}
    BY DEF Files
<1>3. Ordered' /\ SkipInv'
    BY <1>2 DEF Ordered, SkipInv
<1>4. FilesOnDisk'
    BY DEF FilesOnDisk
<1>5. Numbered'
    <2> SUFFICES ASSUME NEW k \in Cards, disk'[k].kind = "start"
                 PROVE  /\ disk'[k].fmt_iter < FmtIter'
                        /\ disk'[k].fmt_iter \in Nat
        BY <1>1, FmtIterNat DEF Numbered
    <2>1. k # 0
        BY <1>1 DEF Superblocks
    <2>2. disk'[k] = disk[k] /\ disk[k] \in Blocks
        BY <2>1 DEF TypeOK, Cards
    <2>3. disk[k].fmt_iter \in Nat
        BY <2>2, KindOfBlock DEF Startblocks
    <2>4. Formatted(disk[0]) /\ disk[k].fmt_iter <= FmtIter
        BY <2>2 DEF CardInv, Numbered
    <2>5. NextFmtIter = FmtIter + 1
        BY <2>4 DEF NextFmtIter, FmtIter
    <2> QED BY <1>1, <2>2, <2>3, <2>4, <2>5, FmtIterNat
<1> QED BY <1>1, <1>3, <1>4, <1>5 DEF CardInv

LEMMA OnesWritten ==
    ASSUME TypeOK, CardInv, log = <<>>, log' = <<>>,
           disk' = [disk EXCEPT ![1] = Ones]
    PROVE  CardInv' /\ disk'[0] = disk[0]
<1>1. disk'[0] = disk[0] /\ FmtIter' = FmtIter
    BY DEF TypeOK, FmtIter
<1>2. Files' = {}
    BY DEF Files
<1>3. Ordered' /\ SkipInv' /\ FilesOnDisk'
    BY <1>2 DEF Ordered, SkipInv, FilesOnDisk
<1>4. Numbered'
    <2>1. ASSUME NEW k \in Cards, disk'[k].kind = "start"
          PROVE  disk'[k] = disk[k]
        BY <2>1 DEF TypeOK, Cards, Ones
    <2> QED BY <1>1, <2>1 DEF CardInv, Numbered, Cards
<1> QED BY <1>1, <1>3, <1>4 DEF CardInv

(* The startblock of the next file makes it the last one. *)
LEMMA FileSaved ==
    ASSUME TypeOK, CardInv, Formatted(disk[0]),
           ChainEnd <= CAPACITY - FS_LAST_FILE_BLOCKS,
           NEW f \in Records, f.start = ChainEnd, NEW b \in Startblocks,
           IsFile(b, FmtIter, Len(log) + 1),
           b.byte_len = f.len, b.rtc = f.rtc, b.skip = 0,
           disk' = [disk EXCEPT ![ChainEnd] = b], log' = Append(log, f)
    PROVE  CardInv' /\ disk'[0] = disk[0]
<1> DEFINE n == Len(log)
<1>0. n \in Nat /\ ChainEnd \in Cards \ {0} /\ disk \in [Cards -> Blocks]
    BY ChainEndNat, FileSystemAssumption, SMTT(30) DEF TypeOK, Cards
<1>1. disk'[0] = disk[0] /\ FmtIter' = FmtIter /\ disk'[ChainEnd] = b
    BY <1>0 DEF FmtIter, Cards
<1>2. /\ Len(log') = n + 1 /\ log'[n + 1] = f
      /\ \A i \in Files : log'[i] = log[i]
    BY LogType DEF Files
<1>3. Files' = 1 .. n + 1 /\ DOMAIN log' = 1 .. n + 1
    BY <1>2, LogType DEF Files
<1>4. \A i \in Files : /\ disk'[log[i].start] = disk[log[i].start]
                       /\ log[i].start < ChainEnd
    <2> TAKE i \in Files
    <2>1. log[i].start < ChainEnd /\ log[i].start \in Cards
        BY StartsBelow, FileStart DEF CardInv
    <2>2. log[i].start # ChainEnd
        BY <1>0, <2>1 DEF Cards
    <2> QED BY <1>0, <2>1, <2>2
<1>5. \A i \in 1 .. n + 1 : StartOf(i)' = StartOf(i)
    <2> TAKE i \in 1 .. n + 1
    <2>1. i # 1 => i - 1 \in Files
        BY <1>0 DEF Files
    <2> QED BY <1>2, <2>1 DEF StartOf, EndOf
<1>6. Ordered'
    <2> SUFFICES ASSUME NEW i \in 1 .. n + 1, NEW k \in 1 .. n + 1, i < k
                 PROVE  log'[i].start < log'[k].start
        BY <1>1, <1>3 DEF Ordered
    <2>1. i \in Files
        BY <1>0 DEF Files
    <2>2. CASE k = n + 1
        BY <1>2, <1>4, <2>1, <2>2
    <2>3. CASE k # n + 1
        <3>1. k \in Files
            BY <1>0, <2>3 DEF Files
        <3> QED BY <1>2, <2>1, <3>1 DEF CardInv, Ordered
    <2> QED BY <2>2, <2>3
<1>7. FilesOnDisk'
    <2> SUFFICES ASSUME NEW i \in 1 .. n + 1
                 PROVE  /\ log'[i].start = StartOf(i)
                        /\ log'[i].start <= CAPACITY - FS_LAST_FILE_BLOCKS
                        /\ IsFile(disk'[log'[i].start], FmtIter, i)
                        /\ disk'[log'[i].start].byte_len = log'[i].len
                        /\ disk'[log'[i].start].rtc = log'[i].rtc
        BY <1>1, <1>3, <1>5 DEF FilesOnDisk
    <2>1. CASE i = n + 1
        BY <1>1, <1>2, <2>1 DEF ChainEnd
    <2>2. CASE i # n + 1
        <3>1. i \in Files
            BY <1>0, <2>2 DEF Files
        <3> QED BY <1>2, <1>4, <3>1, LogType DEF CardInv, FilesOnDisk
    <2> QED BY <2>1, <2>2
<1>8. Numbered'
    <2> SUFFICES ASSUME NEW k \in Cards, disk'[k].kind = "start"
                 PROVE  /\ disk'[k].fmt_iter <= FmtIter
                        /\ disk'[k].fmt_iter = FmtIter =>
                              disk'[k].seq <= n + 1
        BY <1>1, <1>2 DEF Numbered, Cards
    <2>1. CASE k = ChainEnd
        BY <1>0, <1>1, <2>1, FmtIterNat DEF IsFile
    <2>2. CASE k # ChainEnd
        <3>1. disk'[k] = disk[k] /\ disk[k] \in Blocks
            BY <1>0, <2>2
        <3>2. disk[k] \in Startblocks
            BY <3>1, KindOfBlock
        <3>3. /\ disk[k].fmt_iter <= FmtIter
              /\ disk[k].fmt_iter = FmtIter => disk[k].seq <= n
            BY <3>1 DEF CardInv, Numbered
        <3>4. disk[k].seq \in Nat
            BY <3>2 DEF Startblocks
        <3> QED BY <1>0, <3>1, <3>3, <3>4
    <2> QED BY <2>1, <2>2
<1>9. SkipInv'
    <2> SUFFICES ASSUME NEW i \in 1 .. n + 1, disk'[log'[i].start].skip # 0
                 PROVE  /\ IsSkip(i) /\ i + FS_FILE_SKIP_LEN \in 1 .. n + 1
                        /\ disk'[log'[i].start].skip
                              = log'[i + FS_FILE_SKIP_LEN].start
        BY <1>3 DEF SkipInv, IsSkip
    <2>1. i # n + 1
        BY <1>1, <1>2
    <2>2. i \in Files
        BY <1>0, <2>1 DEF Files
    <2>3. /\ IsSkip(i) /\ i + FS_FILE_SKIP_LEN \in Files
          /\ disk[log[i].start].skip = log[i + FS_FILE_SKIP_LEN].start
        BY <1>2, <1>4, <2>2 DEF CardInv, SkipInv
    <2> QED BY <1>0, <1>2, <1>4, <2>2, <2>3 DEF Files
<1> QED BY <1>1, <1>6, <1>7, <1>8, <1>9 DEF CardInv

(* The pointer to the last file, in the skip file before it *)
LEMMA SkipSaved ==
    ASSUME TypeOK, CardInv, NEW i \in Files, IsSkip(i),
           i + FS_FILE_SKIP_LEN = Len(log), log' = log,
           disk' = [disk EXCEPT ![log[i].start] =
                      [disk[log[i].start] EXCEPT
                         !.skip = log[Len(log)].start]]
    PROVE  CardInv' /\ disk'[0] = disk[0]
<1> DEFINE p == log[i].start
           q == log[Len(log)].start
<1>1. p \in Cards \ {0} /\ disk[p] \in Startblocks
    BY FileStart DEF CardInv
<1>2. disk'[p] = [disk[p] EXCEPT !.skip = q]
    BY <1>1 DEF TypeOK, Cards
<1>3. /\ disk'[p].kind = "start" /\ disk'[p].fmt_iter = disk[p].fmt_iter
      /\ disk'[p].seq = disk[p].seq /\ disk'[p].byte_len = disk[p].byte_len
      /\ disk'[p].rtc = disk[p].rtc /\ disk'[p].skip = q
    BY <1>1, <1>2 DEF Startblocks
<1>4. \A k \in Cards : k # p => disk'[k] = disk[k]
    BY DEF TypeOK, Cards
<1>5. disk'[0] = disk[0] /\ FmtIter' = FmtIter
    BY <1>1, <1>4, FileSystemAssumption DEF FmtIter, Cards
<1>6. \A k \in Files : k # i => disk'[log[k].start] = disk[log[k].start]
    <2> TAKE k \in Files
    <2> HAVE k # i
    <2>1. k < i \/ i < k
        BY LogType DEF Files
    <2>2. log[k].start \in Cards /\ log[k].start # p
        BY <1>1, <2>1, FileStart DEF CardInv, Ordered, Cards
    <2> QED BY <1>4, <2>2
<1>7. Ordered'
    BY <1>5 DEF CardInv, Ordered, Files
<1>8. FilesOnDisk'
    <2> SUFFICES ASSUME NEW k \in Files
                 PROVE  /\ IsFile(disk'[log[k].start], FmtIter, k)
                        /\ disk'[log[k].start].byte_len = log[k].len
                        /\ disk'[log[k].start].rtc = log[k].rtc
        BY <1>5, LogType, SMTT(30)
           DEF CardInv, FilesOnDisk, StartOf
    <2>1. /\ IsFile(disk[log[k].start], FmtIter, k)
          /\ disk[log[k].start].byte_len = log[k].len
          /\ disk[log[k].start].rtc = log[k].rtc
        BY FileStart DEF CardInv
    <2>2. CASE k = i
        BY <1>3, <2>1, <2>2 DEF IsFile
    <2>3. CASE k # i
        BY <1>6, <2>1, <2>3
    <2> QED BY <2>2, <2>3
<1>9. Numbered'
    <2> SUFFICES ASSUME NEW k \in Cards, disk'[k].kind = "start"
                 PROVE  /\ Formatted(disk[0]) /\ disk'[k].fmt_iter <= FmtIter
                        /\ disk'[k].fmt_iter = FmtIter =>
                              disk'[k].seq <= Len(log)
        BY <1>5 DEF Numbered, Cards
    <2>1. CASE k = p
        BY <1>1, <1>3, <2>1 DEF CardInv, Numbered, Startblocks
    <2>2. CASE k # p
        BY <1>4, <2>2 DEF CardInv, Numbered
    <2> QED BY <2>1, <2>2
<1>10. SkipInv'
    <2> SUFFICES ASSUME NEW k \in Files, disk'[log[k].start].skip # 0
                 PROVE  /\ IsSkip(k) /\ k + FS_FILE_SKIP_LEN \in Files
                        /\ disk'[log[k].start].skip
                              = log[k + FS_FILE_SKIP_LEN].start
        BY DEF SkipInv, Files, IsSkip
    <2>1. CASE k = i
        BY <1>3, <2>1, LogType DEF Files
    <2>2. CASE k # i
        BY <1>6, <2>2 DEF CardInv, SkipInv
    <2> QED BY <2>1, <2>2
<1> QED BY <1>5, <1>7, <1>8, <1>9, <1>10 DEF CardInv

(* Behind the last file there is no startblock the scan would take. *)
LEMMA NothingStale ==
    ASSUME TypeOK, CardInv PROVE NoStaleFile
<1> SUFFICES ASSUME ChainEnd < CAPACITY,
                    IsFile(disk[ChainEnd], FmtIter, Len(log) + 1)
             PROVE  FALSE
    BY DEF NoStaleFile
<1>1. ChainEnd \in Cards /\ Len(log) \in Nat
    BY ChainEndNat, FileSystemAssumption DEF Cards
<1> QED BY <1>1 DEF CardInv, Numbered, IsFile

-----------------------------------------------------------------------------
(* The steps of the calls *)

(* What the invariant says of the card's files is the same while neither the *)
(* card's files nor the log change.                                          *)
LEMMA Same ==
    ASSUME disk'[0] = disk[0], log' = log
    PROVE  /\ FmtIter' = FmtIter /\ NextFmtIter' = NextFmtIter
           /\ ChainEnd' = ChainEnd /\ Files' = Files
           /\ Formatted(disk[0])' = Formatted(disk[0])
           /\ \A s : StartOf(s)' = StartOf(s)
           /\ \A idx, s : PrevSkip(idx, s)' = PrevSkip(idx, s)
           /\ \A p, s : PrevFile(p, s)' = PrevFile(p, s)
BY DEF FmtIter, NextFmtIter, ChainEnd, Files, StartOf, EndOf, PrevSkip,
       PrevFile

LEMMA InitType ==
    ASSUME Init PROVE TypeOK
<1>1. NumberTypes
    BY DEF Init, NumberTypes
<1>2. FlagTypes
    BY DEF Init, FlagTypes
<1>3. StepTypes
    BY DEF Init, StepTypes
<1>4. CardTypes
    BY DEF Init, CardIdle, CardTypes, Cards, Other, Blocks
<1>5. FileTypes
    BY DEF Init, NoPrev, FileTypes, Records
<1>6. OpType
    BY DEF Init, NoOp, OpType
<1>7. RecType
    BY DEF Init, NoRec, RecType
<1> QED BY <1>1, <1>2, <1>3, <1>4, <1>5, <1>6, <1>7, TypeParts DEF Parts

LEMMA InitInv == Init => IInv
<1> SUFFICES ASSUME Init PROVE IInv
    OBVIOUS
<1>1. TypeOK
    BY InitType
<1>2. log = <<>> /\ Files = {} /\ pc = "off" /\ rec.open = FALSE
    BY DEF Init, Files, NoRec
<1>3. Numbered
    <2>1. \A k \in Cards : disk[k].kind = "other"
        BY DEF Init, Cards, Other
    <2> QED BY <2>1 DEF Numbered
<1>4. CardInv
    BY <1>2, <1>3 DEF CardInv, Ordered, FilesOnDisk, SkipInv
<1> QED
    BY <1>1, <1>2, <1>4
       DEF IInv, ScanInv, FormatInv, RecordingInv, CloseInv

LEMMA OpenInv ==
    ASSUME TypeOK, CardInv, NEW create \in BOOLEAN, NEW seq \in Nat,
           OpenSuperblock(create, seq)
    PROVE  IInv'
<1>1. TypeOK' /\ CardInv'
    BY OpenType, CardFrame DEF OpenSuperblock
<1>2. rec'.open = FALSE /\ pc' \in {"scan", "fmt_read"} /\ prev' = NoPrev
    BY DEF OpenSuperblock, NoRec
<1>3. /\ g_fs_file_seq' = 1 /\ block_idx' = 0
      /\ file_prev_skip_startblock_idx' = -1
      /\ pc' = "scan" => fs_fmt_iter' = FmtIter
      /\ op'.create = create /\ (pc' = "scan" /\ create => Formatted(disk[0]))
    BY DEF OpenSuperblock, FsInit, FmtIter
<1>4. ScanInv'
    <2>1. StartOf(1)' = 1
        BY DEF StartOf
    <2>2. PrevSkip(-1, 1)' /\ PrevFile(NoPrev, 1)'
        BY DEF PrevSkip, PrevFile, NoPrev
    <2>3. Len(log') \in Nat /\ disk' = disk /\ log' = log
        BY LogType DEF OpenSuperblock
    <2> QED BY <1>2, <1>3, <2>1, <2>2, <2>3, Same DEF ScanInv
<1>5. FormatInv' /\ RecordingInv' /\ CloseInv'
    BY <1>2 DEF FormatInv, RecordingInv, CloseInv
<1> QED BY <1>1, <1>4, <1>5 DEF IInv

LEMMA HaltInv ==
    ASSUME TypeOK, CardInv, SdHalt PROVE IInv'
<1>1. TypeOK' /\ CardInv' /\ pc' = "halted"
    BY HaltType, CardFrame DEF SdHalt, Halt
<1> QED BY <1>1 DEF IInv, ScanInv, FormatInv, RecordingInv, CloseInv

LEMMA FormatBodyInv ==
    ASSUME TypeOK', TypeOK, CardInv, NEW portable \in BOOLEAN,
           FormatBody(portable), rec'.open = FALSE,
           op'.then = "scan" => prev = NoPrev
    PROVE  IInv'
<1>1. CardInv' /\ disk' = disk /\ log' = log /\ pc' = "fmt_super"
    BY CardFrame DEF FormatBody
<1>2. FormatInv'
    <2>1. /\ block' = [kind |-> "super", fmt_iter |-> NextFmtIter,
                      portable |-> portable]
          /\ fs_fmt_iter' = NextFmtIter /\ g_fs_file_seq' = 1
          /\ block_idx' = 0 /\ file_prev_skip_startblock_idx' = -1
          /\ prev' = prev
        BY DEF FormatBody, FsInit
    <2>2. block' \in Superblocks /\ block'.fmt_iter = NextFmtIter
        BY <2>1, FmtIterNat DEF Superblocks
    <2> QED BY <1>1, <2>1, <2>2, Same DEF FormatInv, AtStart
<1> QED BY <1>1, <1>2 DEF IInv, ScanInv, RecordingInv, CloseInv

LEMMA FormatInvStep ==
    ASSUME IInv, Format PROVE IInv'
<1> USE DEF IInv
<1>0. TypeOK'
    BY FormatType
<1>1. CASE FormatRead
    <2>1. rec'.open = FALSE /\ op' = op /\ op.portable \in BOOLEAN
        BY <1>1 DEF FormatRead, CloseInv, TypeOK
    <2>2. op.then = "scan" => prev = NoPrev
        BY <1>1 DEF FormatRead, FormatInv
    <2> QED BY <1>0, <1>1, <2>1, <2>2, FormatBodyInv DEF FormatRead
<1>2. CASE FormatSuper /\ ~SdHalt
    <2>1. /\ pc = "fmt_super" /\ pc' = "fmt_ones" /\ rec' = rec
          /\ disk' = [disk EXCEPT ![0] = block] /\ log' = <<>>
          /\ block' = Ones /\ op' = op /\ prev' = prev
          /\ fs_fmt_iter' = fs_fmt_iter /\ g_fs_file_seq' = g_fs_file_seq
          /\ block_idx' = block_idx
          /\ file_prev_skip_startblock_idx' = file_prev_skip_startblock_idx
        BY <1>2 DEF FormatSuper, SdWriteBlock, fileVars
    <2>2. /\ block \in Superblocks /\ block.fmt_iter = NextFmtIter
          /\ fs_fmt_iter = NextFmtIter /\ AtStart /\ rec.open = FALSE
        BY <2>1 DEF FormatInv, CloseInv, TypeOK
    <2>3. CardInv' /\ Formatted(disk'[0]) /\ FmtIter' = NextFmtIter
        BY <2>1, <2>2, SuperWritten
    <2>4. FormatInv'
        BY <2>1, <2>2, <2>3 DEF FormatInv, AtStart
    <2>5. ScanInv' /\ RecordingInv' /\ CloseInv'
        BY <2>1, <2>2 DEF ScanInv, RecordingInv, CloseInv
    <2> QED BY <1>0, <2>3, <2>4, <2>5
<1>3. CASE FormatOnes /\ ~SdHalt
    <2>1. /\ pc = "fmt_ones" /\ pc' = op.then /\ rec' = rec
          /\ disk' = [disk EXCEPT ![1] = block] /\ log' = log
          /\ prev' = prev /\ (pc' = "scan" => op' = op)
          /\ UNCHANGED fsVars
        BY <1>3 DEF FormatOnes, SdWriteBlock
    <2>2. /\ block = Ones /\ log = <<>> /\ Formatted(disk[0])
          /\ fs_fmt_iter = FmtIter /\ AtStart /\ rec.open = FALSE
          /\ op.then = "scan" => prev = NoPrev
          /\ op.then \in {"idle", "scan", "reopen"}
        BY <2>1 DEF FormatInv, CloseInv, TypeOK
    <2>3. CardInv' /\ disk'[0] = disk[0]
        BY <2>1, <2>2, OnesWritten
    <2>4. ScanInv'
        <3> SUFFICES ASSUME pc' = "scan" PROVE ScanInv'
            BY DEF ScanInv
        <3>1. StartOf(1)' = 1 /\ PrevSkip(-1, 1)' /\ PrevFile(NoPrev, 1)'
            BY DEF StartOf, PrevSkip, PrevFile, NoPrev
        <3>2. /\ g_fs_file_seq' = 1 /\ block_idx' = 0 /\ prev' = NoPrev
              /\ file_prev_skip_startblock_idx' = -1
              /\ fs_fmt_iter' = FmtIter
            <4>1. /\ g_fs_file_seq' = g_fs_file_seq
                  /\ block_idx' = block_idx /\ fs_fmt_iter' = fs_fmt_iter
                  /\ file_prev_skip_startblock_idx'
                        = file_prev_skip_startblock_idx
                BY <2>1 DEF fsVars, fileVars
            <4>2. op.then = "scan"
                BY <2>1
            <4> QED BY <2>1, <2>2, <4>1, <4>2 DEF AtStart
        <3>3. Len(log') = 0
            BY <2>1, <2>2
        <3> QED BY <2>1, <2>2, <2>3, <3>1, <3>2, <3>3, Same DEF ScanInv
    <2>5. FormatInv' /\ RecordingInv' /\ CloseInv'
        BY <2>1, <2>2 DEF FormatInv, RecordingInv, CloseInv
    <2> QED BY <1>0, <2>3, <2>4, <2>5
<1>4. CASE SdHalt
    BY <1>4, HaltInv
<1> QED BY <1>1, <1>2, <1>3, <1>4 DEF Format, FormatSuper, FormatOnes

(* The scan takes the block before it for a file when it is one. *)
LEMMA ScanLook ==
    ASSUME TypeOK, CardInv, ScanInv, Scanning
    PROVE  /\ g_fs_file_seq \in Nat /\ Len(log) \in Nat
           /\ Matches => g_fs_file_seq \in Files
           /\ g_fs_file_seq \in Files =>
                 /\ log[g_fs_file_seq] \in Records
                 /\ block_idx + 1 = log[g_fs_file_seq].start
                 /\ Candidate \in Startblocks
                 /\ Candidate.byte_len = log[g_fs_file_seq].len
                 /\ Candidate.rtc = log[g_fs_file_seq].rtc
                 /\ Matches
           /\ ~Matches => /\ g_fs_file_seq = Len(log) + 1
                          /\ block_idx + 1 = ChainEnd
<1> DEFINE g == g_fs_file_seq
<1>1. /\ g \in 1 .. Len(log) + 1 /\ Len(log) \in Nat
      /\ block_idx + 1 = StartOf(g) /\ fs_fmt_iter = FmtIter
    BY LogType DEF ScanInv, Scanning
<1>2. block_idx + 1 \in Cards
    BY ScanCandidate
<1>3. CASE g \in Files
    <2>1. /\ log[g] \in Records /\ log[g].start = StartOf(g)
          /\ disk[log[g].start] \in Startblocks
          /\ IsFile(disk[log[g].start], FmtIter, g)
          /\ disk[log[g].start].byte_len = log[g].len
          /\ disk[log[g].start].rtc = log[g].rtc
        BY <1>3, FileStart DEF CardInv
    <2> QED BY <1>1, <1>3, <2>1 DEF Candidate, Matches
<1>4. CASE g \notin Files
    <2>1. g = Len(log) + 1 /\ block_idx + 1 = ChainEnd
        BY <1>1, <1>4 DEF Files, ChainEnd
    <2>2. ChainEnd < CAPACITY
        BY <1>2, <2>1, FileSystemAssumption DEF Cards
    <2>3. ~IsFile(disk[ChainEnd], FmtIter, Len(log) + 1)
        BY <2>2, NothingStale DEF NoStaleFile
    <2>4. ~Matches
        BY <1>1, <2>1, <2>3 DEF Candidate, Matches
    <2> QED BY <1>1, <1>4, <2>1, <2>4
<1> QED BY <1>3, <1>4

LEMMA ScanInvStep ==
    ASSUME IInv, Scan PROVE IInv'
<1> USE DEF IInv
<1> DEFINE g == g_fs_file_seq
<1>0. /\ TypeOK' /\ CardInv' /\ disk' = disk /\ log' = log /\ pc = "scan"
      /\ fs_fmt_iter' = fs_fmt_iter
    BY ScanType, CardFrame
       DEF Scan, ScanRequested, ScanSkip, ScanNext, ScanCreate, ScanLast,
           ScanMissing, ScanFull, ReadCandidate, Scanning, ScanUnchanged
<1>1. CASE ScanRequested \/ ScanLast \/ ScanMissing
    <2>1. pc' = "idle" /\ rec'.open = FALSE
        BY <1>1 DEF ScanRequested, ScanLast, ScanMissing, ReadCandidate,
                    Return, Scanning, CloseInv, TypeOK
    <2> QED
        BY <1>0, <2>1 DEF ScanInv, FormatInv, RecordingInv, CloseInv
<1>2. CASE ScanSkip
    <2>1. /\ Scanning /\ Matches /\ Candidate.skip > 0 /\ rec' = rec
          /\ g' = g + FS_FILE_SKIP_LEN /\ block_idx' = Candidate.skip - 1
          /\ prev' = NoPrev /\ pc' = pc /\ op' = op
          /\ PassSkipFile
        BY <1>2 DEF ScanSkip, ReadCandidate
    <2>2. /\ g \in Files /\ g \in Nat /\ block_idx + 1 = log[g].start
          /\ Candidate = disk[log[g].start]
        BY <2>1, ScanLook DEF Candidate
    <2>3. /\ IsSkip(g) /\ g' \in Files
          /\ block_idx' + 1 = log[g'].start
        BY <2>1, <2>2, FileStart, FileSystemAssumption
           DEF CardInv, SkipInv, Startblocks
    <2>4. block_idx' \in Nat /\ block_idx' + 1 = StartOf(g')
        <3> DEFINE k == g'
        <3>1. k \in Files
            BY <2>3
        <3> HIDE DEF k
        <3>2. log[k].start \in Cards \ {0} /\ log[k].start = StartOf(k)
            BY <3>1, FileStart DEF CardInv
        <3>3. block_idx' + 1 = log[k].start /\ block_idx' \in Int
            BY <1>0, <2>3 DEF k, TypeOK
        <3>4. block_idx' \in Nat /\ block_idx' + 1 = StartOf(k)
            BY <3>2, <3>3, FileSystemAssumption DEF Cards
        <3> QED BY <3>4 DEF k
    <2>5. PrevSkip(file_prev_skip_startblock_idx', g')
        BY <2>1, <2>2, <2>3, FileSystemAssumption
           DEF PassSkipFile, IsSkip, PrevSkip
    <2>6. PrevFile(prev', g')
        BY <2>1, <2>3 DEF PrevFile, NoPrev
    <2>7. ScanInv'
        BY <1>0, <2>1, <2>3, <2>4, <2>5, <2>6, Same, LogType
           DEF ScanInv, Files
    <2>8. rec.open = FALSE
        BY <1>0 DEF CloseInv, TypeOK
    <2> QED
        BY <1>0, <2>1, <2>7, <2>8 DEF FormatInv, RecordingInv, CloseInv
<1>3. CASE ScanNext
    <2>1. /\ Scanning /\ Matches /\ rec' = rec /\ g' = g + 1
          /\ block_idx' = AfterFile(block_idx + 1, Candidate.byte_len)
          /\ prev' = [idx |-> block_idx + 1, len |-> Candidate.byte_len,
                      rtc |-> Candidate.rtc]
          /\ pc' = pc /\ op' = op /\ PassSkipFile
        BY <1>3 DEF ScanNext, ReadCandidate
    <2>2. /\ g \in Files /\ g \in Nat /\ log[g] \in Records
          /\ block_idx + 1 = log[g].start
          /\ Candidate.byte_len = log[g].len /\ Candidate.rtc = log[g].rtc
        BY <2>1, ScanLook
    <2>3. g' \in 1 .. Len(log) + 1 /\ g' - 1 = g /\ g' # 1
        BY <2>1, <2>2, LogType DEF Files
    <2>4. block_idx' \in Nat /\ block_idx' + 1 = StartOf(g')
        <3>1. block_idx' = log[g].start + BYTES_TO_BLOCKS(log[g].len)
            BY <2>1, <2>2 DEF AfterFile
        <3>2. log[g].start \in Nat /\ BYTES_TO_BLOCKS(log[g].len) \in Nat
            BY <2>2, BlocksNat DEF Records
        <3>3. StartOf(g') = log[g].start + 1 + BYTES_TO_BLOCKS(log[g].len)
            BY <2>3 DEF StartOf, EndOf
        <3> QED BY <3>1, <3>2, <3>3
    <2>5. PrevSkip(file_prev_skip_startblock_idx', g')
        <3>1. CASE IsSkip(g)
            BY <2>1, <2>2, <3>1, FileSystemAssumption
               DEF PassSkipFile, IsSkip, PrevSkip
        <3>2. CASE ~IsSkip(g)
            <4>1. /\ file_prev_skip_startblock_idx'
                        = file_prev_skip_startblock_idx
                  /\ PrevSkip(file_prev_skip_startblock_idx, g)
                BY <1>0, <2>1, <3>2 DEF PassSkipFile, IsSkip, ScanInv
            <4>2. \A i \in Files : IsSkip(i) => g # i + FS_FILE_SKIP_LEN
                BY <3>2, SkipNext DEF Files
            <4>3. CASE file_prev_skip_startblock_idx = -1
                BY <4>1, <4>3 DEF PrevSkip
            <4>4. CASE file_prev_skip_startblock_idx # -1
                <5>1. PICK i \in Files :
                         /\ file_prev_skip_startblock_idx = log[i].start
                         /\ IsSkip(i) /\ i < g /\ g <= i + FS_FILE_SKIP_LEN
                    BY <4>1, <4>4 DEF PrevSkip
                <5>2. g # i + FS_FILE_SKIP_LEN
                    BY <4>2, <5>1
                <5>3. i \in Nat /\ g \in Nat /\ FS_FILE_SKIP_LEN \in Nat
                    BY <2>2, FileSystemAssumption DEF Files
                <5>4. i < g + 1 /\ g + 1 <= i + FS_FILE_SKIP_LEN
                    BY <5>1, <5>2, <5>3
                <5> QED BY <2>1, <4>1, <5>1, <5>4 DEF PrevSkip
            <4> QED BY <4>3, <4>4
        <3> QED BY <3>1, <3>2
    <2>6. PrevFile(prev', g')
        BY <2>1, <2>2, <2>3 DEF PrevFile
    <2>7. ScanInv'
        BY <1>0, <2>1, <2>3, <2>4, <2>5, <2>6, Same DEF ScanInv
    <2>8. rec.open = FALSE
        BY <1>0 DEF CloseInv, TypeOK
    <2> QED
        BY <1>0, <2>1, <2>7, <2>8 DEF FormatInv, RecordingInv, CloseInv
<1>4. CASE ScanCreate
    <2>1. /\ Scanning /\ ~Matches /\ op.create
          /\ file_startblock_idx' = block_idx + 1
          /\ file_byte_idx' = 0 /\ pc' = "idle"
          /\ UNCHANGED <<file_prev_skip_startblock_idx, g_fs_file_seq>>
        BY <1>4 DEF ScanCreate, Return
    <2>2. /\ g = Len(log) + 1 /\ block_idx + 1 = ChainEnd
        BY <2>1, ScanLook
    <2>3. ChainEnd <= CAPACITY - FS_LAST_FILE_BLOCKS
        BY <2>1, <2>2, FileSystemAssumption DEF Scanning, TypeOK
    <2>4. /\ Formatted(disk[0]) /\ fs_fmt_iter = FmtIter
          /\ PrevSkip(file_prev_skip_startblock_idx, g)
        BY <1>0, <2>1 DEF ScanInv
    <2>5. RecordingInv'
        BY <1>0, <2>1, <2>2, <2>3, <2>4, Same DEF RecordingInv
    <2> QED BY <1>0, <2>1, <2>5 DEF ScanInv, FormatInv, CloseInv
<1>5. CASE ScanFull
    <2>1. pc' = "fmt_read" /\ op'.then = "reopen" /\ rec' = rec
        BY <1>5 DEF ScanFull, TypeOK
    <2>2. rec.open = FALSE
        BY <1>0 DEF CloseInv, TypeOK
    <2> QED
        BY <1>0, <2>1, <2>2 DEF ScanInv, FormatInv, RecordingInv, CloseInv
<1> QED BY <1>1, <1>2, <1>3, <1>4, <1>5 DEF Scan

(* The calls that leave the files on the card and the recording as they are. *)
LEMMA WorkKept ==
    ASSUME IInv, TypeOK', CardInv', disk'[0] = disk[0], log' = log,
           rec.open, rec'.open, pc \in {"idle", "close_drain"},
           pc' \in {"idle", "close_drain", "close_end", "halted"},
           UNCHANGED <<fs_fmt_iter, file_startblock_idx, g_fs_file_seq,
                       file_prev_skip_startblock_idx>>,
           \/ block'.kind = "data"
           \/ UNCHANGED <<file_byte_idx, block>>
    PROVE  IInv'
<1>1. RecordingInv'
    <2>1. RecordingInv /\ pc # "halted"
        BY DEF IInv
    <2>2. (pc' \in {"idle", "close_drain"} /\ file_byte_idx' # 0) =>
              block'.kind = "data"
        BY <2>1 DEF RecordingInv
    <2>3. ChainEnd' = ChainEnd /\ FmtIter' = FmtIter
          /\ Formatted(disk[0])' = Formatted(disk[0])
          /\ PrevSkip(file_prev_skip_startblock_idx, g_fs_file_seq)'
                = PrevSkip(file_prev_skip_startblock_idx, g_fs_file_seq)
        BY Same DEF PrevSkip
    <2> QED BY <2>1, <2>2, <2>3 DEF RecordingInv
<1>2. ScanInv' /\ FormatInv' /\ CloseInv'
    BY DEF ScanInv, FormatInv, CloseInv
<1> QED BY <1>1, <1>2 DEF IInv

LEMMA FormatCallInv ==
    ASSUME IInv, NEW portable \in BOOLEAN, FsFormat(portable) PROVE IInv'
<1>1. TypeOK'
    BY FormatCallType DEF IInv
<1>2. rec'.open = FALSE /\ op'.then = "idle"
    BY DEF FsFormat, NoRec, NoOp
<1> QED BY <1>1, <1>2, FormatBodyInv DEF IInv, FsFormat

(* fs_write, fs_rtc_set, fs_close and the polling of fs_update *)
LEMMA WriteInv ==
    ASSUME IInv,
           \/ \E len \in WriteLens : FsWrite(len)
           \/ \E now \in Times : FsRtcSet(now)
           \/ FsClose
           \/ \E done \in BOOLEAN : UpdatePoll(done)
    PROVE  IInv'
<1>1. TypeOK'
    BY WriteType, CallType, PollType DEF IInv
<1>2. UNCHANGED <<disk, log, fs_fmt_iter, file_startblock_idx, g_fs_file_seq,
                  file_prev_skip_startblock_idx, file_byte_idx, block>>
    BY DEF FsWrite, FsRtcSet, FsClose, UpdatePoll, fsVars, fileVars
<1>3. CardInv'
    BY <1>2, CardFrame DEF IInv
<1>4. pc \in {"idle", "close_drain"} /\ pc' \in {"idle", "close_drain"}
    BY DEF FsWrite, FsRtcSet, FsClose, UpdatePoll, Updating
<1>5. rec.open /\ rec'.open
    BY DEF FsWrite, FsRtcSet, FsClose, UpdatePoll, Updating, IInv, TypeOK
<1> QED BY <1>1, <1>2, <1>3, <1>4, <1>5, WorkKept

(* The copying of fs_update: a block is written behind the last file. *)
LEMMA UpdateInv ==
    ASSUME IInv, UpdateCopy \/ UpdateBlock \/ UpdateDrop PROVE IInv'
<1> USE DEF IInv
<1>1. /\ CopyBytes /\ rec.open /\ rec' = rec
      /\ pc \in {"idle", "close_drain"} /\ pc' \in {pc, "halted"}
      /\ block' = FilledBlock /\ log' = log
      /\ UNCHANGED <<fs_fmt_iter, file_startblock_idx, g_fs_file_seq,
                     file_prev_skip_startblock_idx>>
    BY DEF UpdateCopy, UpdateBlock, UpdateDrop, CopyBytes, Updating, Halt
<1>2. file_startblock_idx = ChainEnd /\ ChainEnd \in Nat
    BY <1>1, ChainEndNat DEF RecordingInv
<1>3. TypeOK'
    BY <1>2, UpdateType
<1>4. block'.kind = "data"
    BY <1>1 DEF FilledBlock
<1>5. CardInv' /\ disk'[0] = disk[0]
    <2>1. CASE disk' = disk
        BY <1>1, <2>1, CardFrame
    <2>2. CASE disk' = [disk EXCEPT ![BlockToWrite] = FilledBlock]
        <3>1. file_byte_idx + BytesCopied \in Nat
            BY CopiedFits DEF TypeOK
        <3>2. BlockToWrite \in Nat /\ BlockToWrite >= ChainEnd
            BY <1>2, <3>1, BlocksNat DEF BlockToWrite
        <3> QED BY <1>1, <2>2, <3>2, CopiedFits, DataWritten
    <2> QED
        BY <2>1, <2>2
           DEF UpdateCopy, UpdateBlock, UpdateDrop, SdWriteMulti
<1> QED BY <1>1, <1>3, <1>4, <1>5, WorkKept

(* A closed file is complete before its startblock makes it exist. *)
LEMMA CloseInvStep ==
    ASSUME IInv, Close PROVE IInv'
<1> USE DEF IInv
<1>0. TypeOK'
    BY CloseType DEF CardInv
<1>1. CASE ClosePartial \/ CloseWhole
    <2>1. /\ pc = "close_drain" /\ pc' \in {"close_end", "halted"}
          /\ rec.open /\ rec' = rec /\ log' = log
          /\ UNCHANGED <<fs_fmt_iter, file_startblock_idx, g_fs_file_seq,
                         file_prev_skip_startblock_idx, file_byte_idx, block>>
        BY <1>1 DEF ClosePartial, CloseWhole, Drained, Halt, CloseInv,
                    fsVars, fileVars
    <2>2. CardInv' /\ disk'[0] = disk[0]
        <3>1. CASE disk' = disk
            BY <2>1, <3>1, CardFrame
        <3>2. CASE disk' = [disk EXCEPT ![LastBlock] = block] /\ Partial
            <4>1. file_byte_idx \in Nat /\ block \in Blocks
                BY DEF TypeOK
            <4>2. file_byte_idx # 0
                <5>1. 0 % SD_BLOCK_LEN = 0
                    BY FileSystemAssumption
                <5> QED BY <3>2, <5>1 DEF Partial, BYTES_IN_LAST_BLOCK
            <4>3. block \in Datablocks
                BY <2>1, <4>1, <4>2, KindOfBlock DEF RecordingInv
            <4>4. LastBlock \in Nat /\ LastBlock >= ChainEnd
                <5>1. file_startblock_idx = ChainEnd /\ ChainEnd \in Nat
                    BY <2>1, ChainEndNat DEF RecordingInv
                <5> QED BY <4>1, <5>1, BlocksNat DEF LastBlock
            <4> QED BY <2>1, <3>2, <4>3, <4>4, DataWritten
        <3> QED
            BY <1>1, <3>1, <3>2 DEF ClosePartial, CloseWhole, SdWriteMulti
    <2> QED BY <1>0, <2>1, <2>2, WorkKept
<1>2. CASE CloseTooLong
    <2>1. pc' = "halted" /\ CardInv'
        BY <1>2, CardFrame DEF CloseTooLong, Halt
    <2> QED
        BY <1>0, <2>1 DEF ScanInv, FormatInv, RecordingInv, CloseInv
<1>3. CASE CloseEnd
    <2>1. /\ pc = "close_end" /\ pc' = "close_start" /\ rec' = rec
          /\ UNCHANGED <<disk, log, fs_fmt_iter, file_startblock_idx,
                         g_fs_file_seq, file_prev_skip_startblock_idx,
                         file_byte_idx, file_rtc>>
          /\ block' = [kind |-> "start", fmt_iter |-> fs_fmt_iter,
                       seq |-> g_fs_file_seq, byte_len |-> file_byte_idx,
                       skip |-> 0, rtc |-> file_rtc]
        BY <1>3 DEF CloseEnd, fileVars
    <2>2. rec.open /\ CardInv'
        BY <2>1, CardFrame DEF CloseInv
    <2>3. RecordingInv'
        <3>1. PrevSkip(file_prev_skip_startblock_idx, g_fs_file_seq)'
                 = PrevSkip(file_prev_skip_startblock_idx, g_fs_file_seq)
            BY <2>1 DEF PrevSkip, Files
        <3> QED BY <2>1, <2>2, <3>1, Same DEF RecordingInv
    <2> QED BY <1>0, <2>1, <2>2, <2>3 DEF ScanInv, FormatInv, CloseInv
<1>4. CASE CloseStart /\ ~SdHalt
    <2> DEFINE n == Len(log)
    <2>1. /\ pc = "close_start" /\ rec' = NoRec
          /\ disk' = [disk EXCEPT ![file_startblock_idx] = block]
          /\ log' = Append(log, ClosedFile)
          /\ IF IsSkipFile THEN pc' = "close_skip" /\ UNCHANGED fsVars
                           ELSE pc' = "idle"
        BY <1>4 DEF CloseStart, SdWriteBlock, Return
    <2>2. /\ Formatted(disk[0]) /\ fs_fmt_iter = FmtIter
          /\ file_startblock_idx = ChainEnd
          /\ ChainEnd <= CAPACITY - FS_LAST_FILE_BLOCKS
          /\ g_fs_file_seq = n + 1
          /\ PrevSkip(file_prev_skip_startblock_idx, g_fs_file_seq)
        BY <2>1 DEF RecordingInv, CloseInv
    <2>3. /\ block \in Startblocks /\ IsFile(block, FmtIter, n + 1)
          /\ block.byte_len = file_byte_idx /\ block.rtc = file_rtc
          /\ block.skip = 0
        BY <2>1, <2>2, SMTT(30) DEF CloseInv, TypeOK, Startblocks, IsFile
    <2>4. /\ ClosedFile \in Records /\ ClosedFile.start = ChainEnd
          /\ ClosedFile.len = file_byte_idx /\ ClosedFile.rtc = file_rtc
        BY <2>2, ChainEndNat DEF ClosedFile, Records, TypeOK
    <2>5. CardInv' /\ disk'[0] = disk[0]
        BY <2>1, <2>2, <2>3, <2>4, FileSaved
    <2>6. CloseInv'
        <3>1. CASE ~IsSkipFile
            BY <2>1, <3>1 DEF CloseInv, NoRec
        <3>2. CASE IsSkipFile
            <4>1. PICK i \in Files :
                     /\ file_prev_skip_startblock_idx = log[i].start
                     /\ IsSkip(i) /\ i < n + 1
                     /\ n + 1 <= i + FS_FILE_SKIP_LEN
                BY <2>2, <3>2 DEF PrevSkip, IsSkipFile
            <4>2. i \in Nat /\ n \in Nat
                BY LogType DEF Files
            <4>3. IsSkip(n + 1)
                BY <2>2, <3>2 DEF IsSkipFile, IsSkip
            <4>4. i + FS_FILE_SKIP_LEN = n + 1
                BY <4>1, <4>2, <4>3, SkipGap, FileSystemAssumption
            <4>5. /\ Len(log') = n + 1 /\ log'[n + 1] = ClosedFile
                  /\ log'[i] = log[i] /\ i \in Files'
                BY <2>1, <4>1, <4>2, LogType DEF Files
            <4>6. /\ pc' = "close_skip"
                  /\ file_prev_skip_startblock_idx'
                        = file_prev_skip_startblock_idx
                  /\ file_startblock_idx' = file_startblock_idx
                  /\ rec'.open = FALSE
                BY <2>1, <3>2 DEF fsVars, fileVars, NoRec
            <4>7. \E k \in Files' :
                     /\ IsSkip(k)' /\ k + FS_FILE_SKIP_LEN = Len(log')
                     /\ file_prev_skip_startblock_idx' = log'[k].start
                     /\ file_startblock_idx' = log'[Len(log')].start
                BY <2>2, <2>4, <4>1, <4>4, <4>5, <4>6 DEF IsSkip
            <4> QED BY <4>6, <4>7 DEF CloseInv
        <3> QED BY <3>1, <3>2
    <2>7. ScanInv' /\ FormatInv' /\ RecordingInv'
        BY <2>1 DEF ScanInv, FormatInv, RecordingInv, NoRec
    <2> QED BY <1>0, <2>5, <2>6, <2>7
<1>5. CASE CloseSkip /\ ~SdHalt
    <2> DEFINE p == file_prev_skip_startblock_idx
    <2>1. /\ pc = "close_skip" /\ pc' = "idle" /\ rec' = rec /\ log' = log
          /\ disk' = [disk EXCEPT ![p] =
                        [disk[p] EXCEPT !.skip = file_startblock_idx]]
        BY <1>5 DEF CloseSkip, SdWriteBlock, Return
    <2>2. PICK i \in Files :
             /\ IsSkip(i) /\ i + FS_FILE_SKIP_LEN = Len(log)
             /\ p = log[i].start
             /\ file_startblock_idx = log[Len(log)].start
        BY <2>1 DEF CloseInv
    <2>3. CardInv'
        BY <2>1, <2>2, SkipSaved
    <2>4. rec'.open = FALSE
        BY <2>1 DEF CloseInv, TypeOK
    <2> QED
        BY <1>0, <2>1, <2>3, <2>4
           DEF ScanInv, FormatInv, RecordingInv, CloseInv
<1>6. CASE SdHalt
    BY <1>6, HaltInv
<1> QED
    BY <1>1, <1>2, <1>3, <1>4, <1>5, <1>6 DEF Close, CloseStart, CloseSkip

(* Reads change nothing on the card. *)
LEMMA ReadInv ==
    ASSUME IInv,
           \/ FsOpenQuick \/ ReadStep \/ ReadDone
           \/ \E byte \in 0 .. MAX_FILE_LEN : FsSeek(byte)
           \/ \E len \in ReadLens : FsRead(len)
    PROVE  IInv'
<1> USE DEF IInv
<1>1. TypeOK'
    BY ReadType, CallType
<1>2. /\ UNCHANGED <<disk, log, rec, file_startblock_idx>>
      /\ pc \in {"idle", "read"} /\ pc' \in {"idle", "read"}
    BY DEF FsOpenQuick, ReadStep, ReadDone, FsSeek, FsRead, MayOpen,
           Readable, Return, fsVars, fileVars
<1>3. CardInv'
    BY <1>2, CardFrame
<1>4. /\ rec.open = FALSE \/ FsOpenQuick
      /\ pc' = "read" => file_startblock_idx > 0
    BY DEF FsOpenQuick, ReadStep, ReadDone, FsSeek, FsRead, Readable, MayOpen,
           Return, CloseInv, TypeOK
<1>5. CASE rec.open = FALSE
    BY <1>1, <1>2, <1>3, <1>4, <1>5
       DEF ScanInv, FormatInv, RecordingInv, CloseInv
<1>6. CASE FsOpenQuick /\ rec.open
    <2>1. file_byte_idx' = 0 /\ pc' = "idle"
          /\ UNCHANGED <<fs_fmt_iter, g_fs_file_seq,
                         file_prev_skip_startblock_idx>>
        BY <1>6 DEF FsOpenQuick, MayOpen
    <2>2. RecordingInv'
        <3>1. PrevSkip(file_prev_skip_startblock_idx, g_fs_file_seq)'
                 = PrevSkip(file_prev_skip_startblock_idx, g_fs_file_seq)
            BY <1>2, <2>1 DEF PrevSkip, Files
        <3>2. RecordingInv /\ pc # "halted"
            BY <1>2
        <3> QED BY <1>2, <1>6, <2>1, <3>1, <3>2, Same DEF RecordingInv
    <2> QED
        BY <1>1, <1>2, <1>3, <2>1, <2>2 DEF ScanInv, FormatInv, CloseInv
<1>7. rec.open \in BOOLEAN
    BY DEF TypeOK
<1> QED BY <1>4, <1>5, <1>6, <1>7

LEMMA CrashInv == ASSUME IInv, Crash PROVE IInv'
<1>1. TypeOK' /\ CardInv'
    BY CrashType, CardFrame DEF IInv, Crash
<1>2. pc' = "off" /\ rec'.open = FALSE
    BY DEF Crash, NoRec
<1> QED BY <1>1, <1>2 DEF IInv, ScanInv, FormatInv, RecordingInv, CloseInv

(* Every step keeps the invariant. *)
LEMMA StepInv ==
    ASSUME IInv, [Next]_vars PROVE IInv'
<1>1. ASSUME NEW create \in BOOLEAN, NEW seq \in OpenSeqs, FsOpen(create, seq)
      PROVE  IInv'
    BY <1>1, OpenInv, FileSystemAssumption DEF FsOpen, IInv
<1>2. CASE FsOpenRetry \/ Boot
    <2>1. op.create \in BOOLEAN /\ op.seq \in Nat
        BY DEF IInv, TypeOK
    <2> QED BY <1>2, <2>1, OpenInv DEF FsOpenRetry, Boot, IInv
<1>3. CASE \E portable \in BOOLEAN : FsFormat(portable)
    BY <1>3, FormatCallInv
<1>4. CASE \/ \E len \in WriteLens : FsWrite(len)
           \/ \E now \in Times : FsRtcSet(now)
           \/ FsClose
    BY <1>4, WriteInv
<1>5. CASE FsUpdate
    BY <1>5, WriteInv, UpdateInv DEF FsUpdate
<1>6. CASE \/ FsOpenQuick \/ ReadStep \/ ReadDone
           \/ \E byte \in 0 .. MAX_FILE_LEN : FsSeek(byte)
           \/ \E len \in ReadLens : FsRead(len)
    BY <1>6, ReadInv
<1>7. CASE Scan \/ Format \/ Close
    BY <1>7, ScanInvStep, FormatInvStep, CloseInvStep
<1>8. CASE Crash
    BY <1>8, CrashInv
<1>9. CASE UNCHANGED vars
    <2>1. TypeOK'
        BY <1>9 DEF vars, fsVars, fileVars, writeVars, readVars, IInv, TypeOK
    <2>2. CardInv'
        BY <1>9, CardFrame DEF vars, IInv
    <2>3. /\ UNCHANGED <<disk, log, pc, op, prev, rec, block, block_idx,
                         fs_fmt_iter, g_fs_file_seq, file_startblock_idx,
                         file_byte_idx, file_rtc,
                         file_prev_skip_startblock_idx>>
        BY <1>9 DEF vars, fsVars, fileVars
    <2>4. ScanInv' /\ FormatInv'
        BY <2>3 DEF IInv, ScanInv, FormatInv, AtStart, FmtIter, NextFmtIter,
                    StartOf, EndOf, PrevSkip, PrevFile, Files
    <2>5. RecordingInv' /\ CloseInv'
        BY <2>3 DEF IInv, RecordingInv, CloseInv, FmtIter, ChainEnd, StartOf,
                    EndOf, PrevSkip, Files, IsSkip
    <2> QED BY <2>1, <2>2, <2>4, <2>5 DEF IInv
<1> QED
    BY <1>1, <1>2, <1>3, <1>4, <1>5, <1>6, <1>7, <1>8, <1>9
       DEF Next, Call, Step

(* fs_open returns from the scan, in one of four ways. *)
LEMMA ReturnOfScan ==
    ASSUME [Next]_vars, OpenReturns
    PROVE  ScanRequested \/ ScanCreate \/ ScanLast \/ ScanMissing
<1>1. Scan
    BY DEF OpenReturns, Next, Call, Step, FsOpen, FsOpenQuick, FsFormat,
           MayOpen, FsWrite, FsRtcSet, FsClose, FsSeek, FsRead, Readable,
           Boot, FsOpenRetry, Format, FormatRead, FormatSuper, FormatOnes,
           FsUpdate, UpdatePoll, UpdateCopy, UpdateBlock, UpdateDrop,
           CopyBytes, Updating, Close, ClosePartial, CloseWhole, CloseTooLong,
           Drained, CloseEnd, CloseStart, CloseSkip, ReadStep, ReadDone,
           Crash, vars
<1> QED BY <1>1 DEF Scan, ScanSkip, ScanNext, ScanFull, OpenReturns

-----------------------------------------------------------------------------
(* The theorems *)

(* The inductive invariant: in every state of every execution the files of  *)
(* the log are on the card as fs_close wrote them, no other block passes    *)
(* for one, and the scan of fs_open, a format and a close stand where the   *)
(* card says.                                                               *)
THEOREM Invariant == Spec => []IInv
<1>1. Init => IInv
    BY InitInv
<1>2. IInv /\ [Next]_vars => IInv'
    BY StepInv
<1> QED BY <1>1, <1>2, PTL DEF Spec

(* Every variable of fs.c and of the SD driver keeps to its values.         *)
THEOREM TypeCorrect == Spec => []TypeOK
<1>1. IInv => TypeOK
    BY DEF IInv
<1> QED BY <1>1, Invariant, PTL

(* A file fs_close has closed stays on the card with its number, length and *)
(* time, for any sequence of calls and crashes until the next format.       *)
THEOREM FilesStayOnDisk == Spec => []FilesOnDisk
<1>1. IInv => FilesOnDisk
    BY DEF IInv, CardInv
<1> QED BY <1>1, Invariant, PTL

(* Behind the last file fs_open never meets a block it would take for the   *)
(* next one: stale startblocks carry an older fmt_iter or a lower number.   *)
THEOREM NothingStalePasses == Spec => []NoStaleFile
<1>1. IInv => NoStaleFile
    BY NothingStale DEF IInv
<1> QED BY <1>1, Invariant, PTL

(* The skip pointers fs_close writes lead fs_open to the right file.        *)
THEOREM SkipsLeadToFiles == Spec => []SkipsSound
<1>1. IInv => SkipsSound
    BY LogType DEF IInv, CardInv, SkipInv, SkipsSound
<1> QED BY <1>1, Invariant, PTL

(* fs_open(1, 0) always finds the first free place and number: the new file *)
(* overwrites no closed one, also where the scan took skip pointers.        *)
THEOREM NewFileIsBehindLast == Spec => NewFileFollows
<1>1. ASSUME IInv, [Next]_vars, OpenReturns, op.create
      PROVE  /\ ret' = "NONE" /\ file_startblock_idx' = ChainEnd
             /\ g_fs_file_seq' = Len(log) + 1
             /\ file_startblock_idx' <= CAPACITY - FS_LAST_FILE_BLOCKS
    <2>1. ScanCreate
        BY <1>1, ReturnOfScan
           DEF ScanRequested, Requested, ScanLast, ScanMissing
    <2>2. Scanning /\ ~Matches
        BY <2>1 DEF ScanCreate
    <2>3. g_fs_file_seq = Len(log) + 1 /\ block_idx + 1 = ChainEnd
        BY <1>1, <2>2, ScanLook DEF IInv
    <2>4. block_idx + 1 <= CAPACITY - FS_LAST_FILE_BLOCKS
        BY <1>1, <2>2, FileSystemAssumption DEF Scanning, IInv, TypeOK
    <2> QED BY <2>1, <2>3, <2>4 DEF ScanCreate, Return
<1> QED BY <1>1, Invariant, PTL DEF Spec, NewFileFollows

(* fs_open(0, 0) finds the newest file, with its length and time, or that   *)
(* there is none.                                                           *)
THEOREM LastFileIsFound == Spec => OpenLastFindsLast
<1>1. ASSUME IInv, [Next]_vars, OpenReturns, ~op.create, op.seq = 0
      PROVE  /\ g_fs_file_seq' = Len(log) + 1
             /\ IF log = <<>> THEN ret' = "NO_EXISTING_FILE"
                ELSE LET f == log[Len(log)]
                     IN  /\ ret' = "NONE" /\ file_startblock_idx' = f.start
                         /\ file_byte_len' = f.len /\ file_rtc' = f.rtc
    <2>1. ScanLast \/ ScanMissing
        BY <1>1, ReturnOfScan DEF ScanRequested, Requested, ScanCreate
    <2>2. Scanning /\ ~Matches
        BY <2>1 DEF ScanLast, ScanMissing, ReadCandidate
    <2>3. g_fs_file_seq = Len(log) + 1 /\ Len(log) \in Nat
        BY <1>1, <2>2, ScanLook DEF IInv
    <2>4. PrevFile(prev, Len(log) + 1)
        BY <1>1, <2>2, <2>3 DEF IInv, ScanInv, Scanning
    <2>5. g_fs_file_seq' = g_fs_file_seq
        BY <2>1 DEF ScanLast, ScanMissing
    <2>6. CASE prev.idx >= 0
        <3>1. ScanLast
            BY <1>1, <2>1, <2>6 DEF ScanMissing
        <3>2. /\ Len(log) \in Files
              /\ prev = [idx |-> log[Len(log)].start,
                         len |-> log[Len(log)].len,
                         rtc |-> log[Len(log)].rtc]
            BY <2>3, <2>4, <2>6 DEF PrevFile
        <3>3. log # <<>>
            BY <3>2 DEF Files
        <3> QED BY <2>3, <2>5, <3>1, <3>2, <3>3 DEF ScanLast, Return
    <2>7. CASE ~(prev.idx >= 0)
        <3>1. ScanMissing
            BY <2>1, <2>7 DEF ScanLast
        <3>2. ~(Len(log) \in Files /\ prev.idx = log[Len(log)].start)
            BY <1>1, <2>7, LogType DEF IInv, Records
        <3>3. Len(log) = 0
            BY <2>3, <2>4, <3>2 DEF PrevFile, Files
        <3>4. log = <<>>
            BY <1>1, <3>3, LogType DEF IInv
        <3> QED BY <2>3, <2>5, <3>1, <3>4 DEF ScanMissing, Return
    <2> QED BY <2>6, <2>7
<1> QED BY <1>1, Invariant, PTL DEF Spec, OpenLastFindsLast

-----------------------------------------------------------------------------
(* Opening a file by its number *)

(* A scan for a file that no skip pointer leads past has not passed it.     *)
NotPassed ==
    (pc = "scan" /\ ~op.create /\ op.seq \in Files \ SkippedOver) =>
        g_fs_file_seq <= op.seq

LEMMA SameSkips ==
    ASSUME disk' = disk, log' = log
    PROVE  SkippedOver' = SkippedOver /\ Files' = Files
BY DEF SkippedOver, Files

(* Where the scan takes a skip pointer or goes to the next file, the file   *)
(* asked for lies further on.                                               *)
LEMMA ScanNotPassed ==
    ASSUME IInv, NotPassed, Scan PROVE NotPassed'
<1> SUFFICES ASSUME pc' = "scan", ~op'.create,
                    op'.seq \in Files' \ SkippedOver'
             PROVE  g_fs_file_seq' <= op'.seq
    BY DEF NotPassed
<1> DEFINE g == g_fs_file_seq
<1>1. ScanSkip \/ ScanNext
    BY DEF Scan, ScanRequested, ScanCreate, ScanLast, ScanMissing, ScanFull,
           Return
<1>2. /\ op' = op /\ disk' = disk /\ log' = log /\ pc = "scan"
      /\ Scanning /\ Matches /\ ~Requested
    BY <1>1 DEF ScanSkip, ScanNext, ScanUnchanged, ReadCandidate, Scanning
<1>3. op.seq \in Files \ SkippedOver /\ ~op.create
    BY <1>2, SameSkips
<1>4. /\ g \in Files /\ Candidate \in Startblocks
      /\ block_idx + 1 = log[g].start /\ Candidate.seq = g
    BY <1>2, ScanLook DEF IInv, Matches, IsFile
<1>5. g \in Nat /\ op.seq \in Nat \ {0} /\ g <= op.seq
    BY <1>2, <1>3, <1>4 DEF NotPassed, Files
<1>6. g < op.seq
    BY <1>2, <1>3, <1>4, <1>5 DEF Requested
<1>7. CASE ScanSkip
    <2>1. g' = g + FS_FILE_SKIP_LEN /\ Candidate.skip > 0
        BY <1>7 DEF ScanSkip
    <2>2. disk[log[g].start].skip # 0
        BY <1>4, <2>1 DEF Candidate
    <2>3. ~(op.seq < g + FS_FILE_SKIP_LEN)
        BY <1>3, <1>4, <1>6, <2>2, LogType DEF SkippedOver, IInv
    <2> QED BY <1>2, <1>5, <2>1, <2>3, FileSystemAssumption
<1>8. CASE ScanNext
    <2>1. g' = g + 1
        BY <1>8 DEF ScanNext
    <2> QED BY <1>2, <1>5, <1>6, <2>1
<1> QED BY <1>1, <1>7, <1>8

(* A scan starts at file 1. *)
LEMMA StepNotPassed ==
    ASSUME IInv, NotPassed, [Next]_vars PROVE NotPassed'
<1> SUFFICES ASSUME pc' = "scan", op'.seq \in Files', ~Scan,
                    ~UNCHANGED vars
             PROVE  g_fs_file_seq' <= op'.seq
    <2>1. CASE Scan
        BY <2>1, ScanNotPassed
    <2>2. CASE UNCHANGED vars
        BY <2>2, SameSkips DEF NotPassed, vars, fsVars
    <2> QED BY <2>1, <2>2 DEF NotPassed
<1>1. op'.seq \in Nat /\ op'.seq >= 1
    <2>1. Len(log') \in Nat
        BY StepInv, LogType DEF IInv, TypeOK
    <2> QED BY <2>1 DEF Files
<1>2. g_fs_file_seq' = 1
    <2>1. \/ FsOpenRetry \/ Boot \/ FormatOnes
          \/ \E create \in BOOLEAN, seq \in OpenSeqs : FsOpen(create, seq)
        BY DEF Next, Call, Step, FsOpenQuick, MayOpen, FsFormat, FormatBody,
               FsWrite, FsRtcSet, FsClose, FsSeek, FsRead, Readable, Format,
               FormatRead, FormatSuper, FsUpdate, UpdatePoll, UpdateCopy,
               UpdateBlock, UpdateDrop, CopyBytes, Updating, Close,
               ClosePartial, CloseWhole, CloseTooLong, CloseEnd, Drained,
               CloseStart, CloseSkip, SdHalt, Halt, Return, ReadStep,
               ReadDone, Crash
    <2>2. CASE FormatOnes
        BY <2>2 DEF FormatOnes, SdHalt, Halt, fsVars, IInv, FormatInv, AtStart
    <2>3. CASE ~FormatOnes
        BY <2>1, <2>3 DEF FsOpenRetry, Boot, FsOpen, OpenSuperblock, FsInit
    <2> QED BY <2>2, <2>3
<1> QED BY <1>1, <1>2

(* fs_open(0, n) opens file n, with its length and time, when no skip       *)
(* pointer leads the scan past it.                                          *)
THEOREM NumberIsFound == Spec => OpenByNumberUnlessSkipped
<1>1. ASSUME IInv, NotPassed, [Next]_vars, OpenReturns, ~op.create,
             op.seq \in DOMAIN log \ SkippedOver
      PROVE  LET f == log[op.seq]
             IN  /\ ret' = "NONE" /\ file_startblock_idx' = f.start
                 /\ file_byte_len' = f.len /\ file_rtc' = f.rtc
    <2>1. op.seq \in Files /\ op.seq > 0 /\ g_fs_file_seq <= op.seq
        BY <1>1, LogType DEF IInv, NotPassed, OpenReturns, Files
    <2>2. ScanRequested \/ ScanLast \/ ScanMissing
        BY <1>1, ReturnOfScan DEF ScanCreate
    <2>3. Scanning
        BY <2>2 DEF ScanRequested, ScanLast, ScanMissing, ReadCandidate
    <2>4. Matches
        BY <1>1, <2>1, <2>3, ScanLook DEF IInv, Files
    <2>5. ScanRequested
        BY <2>2, <2>4 DEF ScanLast, ScanMissing
    <2>6. Candidate.seq = op.seq /\ Candidate.seq = g_fs_file_seq
        BY <2>4, <2>5 DEF ScanRequested, Requested, Matches, IsFile
    <2>7. /\ block_idx + 1 = log[op.seq].start
          /\ Candidate.byte_len = log[op.seq].len
          /\ Candidate.rtc = log[op.seq].rtc
        BY <1>1, <2>1, <2>3, <2>6, ScanLook DEF IInv
    <2> QED BY <2>5, <2>7 DEF ScanRequested, Return
<1>2. Init => NotPassed
    BY DEF Init, NotPassed
<1>3. IInv /\ NotPassed /\ [Next]_vars => NotPassed'
    BY StepNotPassed
<1> QED BY <1>1, <1>2, <1>3, Invariant, PTL
        DEF Spec, OpenByNumberUnlessSkipped

=============================================================================
