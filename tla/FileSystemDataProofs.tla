------------------------ MODULE FileSystemDataProofs ------------------------
(***************************************************************************)
(* Proofs about the data of the file system: the order of the SD card's    *)
(* block writes, the bytes of the files, what fs_read hands out, and that  *)
(* it implements the trace store.                                          *)
(***************************************************************************)
EXTENDS FileSystemProofs, WellFoundedInduction

-----------------------------------------------------------------------------
(* The inductive invariants *)

(* blocks of the recording that are complete *)
FullBlocks == file_byte_idx \div SD_BLOCK_LEN
CompleteBytes == SD_BLOCK_LEN * FullBlocks

(* The card and the file system agree on the write in progress, and the card *)
(* is idle when no recording is.                                             *)
DriverInv ==
    /\ SdProtocol
    /\ card.busy = sd_write_in_progress
    /\ (~rec.open \/ pc = "close_start") => SdIdle
    /\ pc = "off" => ~rec.open
    /\ pc = "close_end" => ~Busy
    /\ (rec.open \/ pc \in {"scan", "fmt_super", "fmt_ones"}) =>
          file_byte_len = 0
    /\ (card.multi /\ pc \in {"idle", "close_drain"}) =>
          \/ card.last = file_startblock_idx + FullBlocks
          \/ file_startblock_idx + FullBlocks >= CAPACITY

(* What is left of a write is what was accepted and not yet copied. *)
CopyInv ==
    /\ pc \in {"scan", "fmt_super", "fmt_ones"} => ~write_in_progress
    /\ rec.open /\ pc # "halted" =>
          IF write_in_progress
          THEN write_buf = file_byte_idx /\ write_buf + write_len = rec.accepted
          ELSE file_byte_idx = rec.accepted

BlockOf(start, p) == start + BYTES_TO_BLOCKS(p + 1)

(* byte p of a recording in block b *)
Has(b, tag, p) == BytesOf(b)[BYTES_IN_LAST_BLOCK(p)] = <<tag, p>>

(* The first n bytes of the file at start are on the card. *)
OnCard(start, tag, n) ==
    \A p \in 0 .. n - 1 :
        BlockOf(start, p) < CAPACITY => Has(disk[BlockOf(start, p)], tag, p)

(* The bytes of the blocks that are complete are on the card, the others in *)
(* RAM until fs_close has written their block too.                          *)
BytesInv ==
    rec.open =>
        /\ pc \in {"idle", "close_drain"} =>
              /\ OnCard(file_startblock_idx, rec.tag, CompleteBytes)
              /\ \A p \in CompleteBytes .. file_byte_idx - 1 :
                    Has(block, rec.tag, p)
        /\ pc \in {"close_end", "close_start"} =>
              OnCard(file_startblock_idx, rec.tag, file_byte_idx)

FilesOnCard == \A i \in Files : OnCard(log[i].start, log[i].tag, log[i].len)

DataInv == CopyInv /\ BytesInv /\ FilesOnCard

Reading == ~rec.open /\ pc \in {"idle", "read"} /\ file_startblock_idx > 0

(* A file that is open to be read is one of the log, the buffer is the block *)
(* it is said to be, and what was read are bytes of that file.               *)
OpenFile(i) ==
    /\ log[i].start = file_startblock_idx /\ log[i].len = file_byte_len
    /\ rd_ok => /\ block_idx \in Cards /\ block = disk[block_idx]
                /\ \A k \in DOMAIN out :
                     out[k] = <<log[i].tag, file_byte_idx - Len(out) + k - 1>>

ReadingInv ==
    /\ pc \in {"scan", "fmt_super", "fmt_ones"} => file_startblock_idx = -1
    /\ Reading => \E i \in Files : OpenFile(i)
    /\ out # <<>> => Reading

-----------------------------------------------------------------------------
(* Arithmetic of blocks *)

(* A number of bytes in blocks: the complete ones and a rest. *)
LEMMA BlockParts ==
    ASSUME NEW n \in Nat
    PROVE  /\ n \div SD_BLOCK_LEN \in Nat /\ n % SD_BLOCK_LEN \in Offsets
           /\ n = SD_BLOCK_LEN * (n \div SD_BLOCK_LEN) + (n % SD_BLOCK_LEN)
BY FileSystemAssumption DEF Offsets

(* The parts are told by the sum. *)
LEMMA BlockDivision ==
    ASSUME NEW q \in Int, NEW r \in Offsets, NEW n \in Nat,
           n = SD_BLOCK_LEN * q + r
    PROVE  n \div SD_BLOCK_LEN = q /\ n % SD_BLOCK_LEN = r
<1> DEFINE m == SD_BLOCK_LEN
           a == n \div SD_BLOCK_LEN
           b == n % SD_BLOCK_LEN
<1>1. m \in Nat /\ m > 0 /\ r \in 0 .. m - 1
    BY FileSystemAssumption DEF Offsets
<1>2. a \in Int /\ b \in 0 .. m - 1 /\ n = m * a + b
    BY BlockParts DEF Offsets
<1> HIDE DEF m, a, b
<1>3. n = m * q + r
    BY DEF m
<1>4. m * (a - q) = r - b
    <2>1. m * (a - q) = m * a - m * q
        BY <1>1, <1>2
    <2> QED BY <1>1, <1>2, <1>3, <2>1
<1>5. \A k \in Int : k >= 1 => m * k >= m
    BY <1>1
<1>6. \A k \in Int : k <= -1 => m * k <= -m
    BY <1>1
<1>7. a - q = 0
    <2>1. a - q \in Int
        BY <1>2
    <2>2. ~(a - q >= 1)
        BY <2>1, <1>1, <1>2, <1>4, <1>5
    <2>3. ~(a - q <= -1)
        BY <2>1, <1>1, <1>2, <1>4, <1>6
    <2> QED BY <1>2, <2>1, <2>2, <2>3
<1>8. b = r
    <2>1. m * 0 = 0
        BY <1>1
    <2> QED BY <2>1, <1>1, <1>2, <1>4, <1>7
<1> QED BY <1>2, <1>7, <1>8 DEF a, b

(* Byte p is in the block behind those that are complete before it. *)
LEMMA BlockOfByte ==
    ASSUME NEW p \in Nat
    PROVE  BYTES_TO_BLOCKS(p + 1) = p \div SD_BLOCK_LEN + 1
<1> DEFINE m == SD_BLOCK_LEN
           q == p \div SD_BLOCK_LEN
           r == p % SD_BLOCK_LEN
<1>1. m \in Nat /\ m > 0
    BY FileSystemAssumption
<1>2. q \in Nat /\ r \in 0 .. m - 1 /\ p = m * q + r
    BY BlockParts DEF Offsets
<1> HIDE DEF m, q, r
<1>3. CASE r + 1 < m
    <2>1. p + 1 = m * q + (r + 1) /\ r + 1 \in 0 .. m - 1
        BY <1>1, <1>2, <1>3
    <2>2. (p + 1) \div SD_BLOCK_LEN = q /\ (p + 1) % SD_BLOCK_LEN = r + 1
        <3>1. r + 1 \in Offsets /\ p + 1 \in Nat
            BY <2>1 DEF Offsets, m
        <3> QED BY <1>2, <2>1, <3>1, BlockDivision DEF m
    <2>3. r + 1 > 0
        BY <1>2
    <2> QED BY <2>2, <2>3 DEF BYTES_TO_BLOCKS, q
<1>4. CASE r + 1 = m
    <2>1. p + 1 = m * (q + 1) + 0
        <3>1. m * (q + 1) = m * q + m
            BY <1>1, <1>2
        <3> QED BY <1>1, <1>2, <1>4, <3>1
    <2>2. (p + 1) \div SD_BLOCK_LEN = q + 1 /\ (p + 1) % SD_BLOCK_LEN = 0
        <3>1. 0 \in Offsets /\ p + 1 \in Nat /\ q + 1 \in Int
            BY <1>1, <1>2 DEF Offsets, m
        <3> QED BY <2>1, <3>1, BlockDivision DEF m
    <2>3. q + 1 + 0 = q + 1
        BY <1>2
    <2> QED BY <2>2, <2>3 DEF BYTES_TO_BLOCKS, q
<1> QED BY <1>1, <1>2, <1>3, <1>4

-----------------------------------------------------------------------------
(* The order of the block writes *)

LEMMA OpenDriver ==
    ASSUME TypeOK, SdIdle, NEW create, NEW seq, OpenSuperblock(create, seq)
    PROVE  DriverInv'
<1>1. card.busy = FALSE /\ card.multi = FALSE
    BY DEF TypeOK, SdIdle
<1>2. /\ UNCHANGED card /\ rec'.open = FALSE /\ sd_write_in_progress' = FALSE
      /\ file_byte_len' = 0 /\ ret' = "NONE" /\ pc' \in {"scan", "fmt_read"}
    BY DEF OpenSuperblock, FsInit, NoRec
<1> QED BY <1>1, <1>2 DEF DriverInv, SdProtocol, SdIdle

LEMMA FormatBodyDriver ==
    ASSUME TypeOK, SdIdle, NEW portable, FormatBody(portable),
           rec'.open = FALSE, ret' = "NONE" \/ (ret' = ret /\ SdProtocol)
    PROVE  DriverInv'
<1>1. card.busy = FALSE /\ card.multi = FALSE
    BY DEF TypeOK, SdIdle
<1>2. /\ UNCHANGED card /\ sd_write_in_progress' = FALSE
      /\ file_byte_len' = 0 /\ pc' = "fmt_super"
    BY DEF FormatBody, FsInit
<1> QED BY <1>1, <1>2 DEF DriverInv, SdProtocol, SdIdle

LEMMA FormatDriver ==
    ASSUME IInv, DriverInv, Format PROVE DriverInv'
<1>1. SdIdle /\ ~rec.open /\ (rec.open = FALSE) /\ SdProtocol
    BY DEF Format, FormatRead, FormatSuper, FormatOnes, IInv, TypeOK, CloseInv,
           DriverInv
<1>2. CASE FormatRead
    BY <1>1, <1>2, FormatBodyDriver DEF FormatRead, IInv
<1>3. CASE FormatSuper
    <2>1. /\ pc' = "fmt_ones" /\ UNCHANGED <<card, ret, rec>>
          /\ UNCHANGED sd_write_in_progress /\ UNCHANGED file_byte_len
          /\ pc = "fmt_super"
        BY <1>1, <1>3 DEF FormatSuper, SdHalt, SdWriteBlock, writeVars, fileVars
    <2> QED BY <1>1, <2>1 DEF DriverInv, SdProtocol, SdIdle
<1>4. CASE FormatOnes
    <2>1. /\ pc' \in {"idle", "scan", "reopen"} /\ UNCHANGED <<card, ret, rec>>
          /\ UNCHANGED sd_write_in_progress /\ UNCHANGED file_byte_len
          /\ pc = "fmt_ones"
        BY <1>1, <1>4 DEF FormatOnes, SdHalt, SdWriteBlock, fsVars, writeVars,
                          fileVars, IInv, TypeOK
    <2> QED BY <1>1, <2>1 DEF DriverInv, SdProtocol, SdIdle
<1> QED BY <1>2, <1>3, <1>4 DEF Format

LEMMA ScanDriver ==
    ASSUME IInv, DriverInv, Scan PROVE DriverInv'
<1>1. /\ pc = "scan" /\ SdIdle /\ ~rec.open /\ SdProtocol
      /\ card.busy = sd_write_in_progress /\ file_byte_len = 0
    BY DEF Scan, ScanRequested, ScanSkip, ScanNext, ScanCreate, ScanLast,
           ScanMissing, ScanFull, ReadCandidate, Scanning, IInv, CloseInv,
           DriverInv
<1>2. UNCHANGED card /\ UNCHANGED sd_write_in_progress
    BY DEF Scan, ScanRequested, ScanSkip, ScanNext, ScanCreate, ScanLast,
           ScanMissing, ScanFull, ScanUnchanged, writeVars
<1>3. /\ ret' = ret \/ ret' \in {"NONE", "NO_EXISTING_FILE"}
      /\ pc' \in {"idle", "scan", "fmt_read"}
    BY <1>1 DEF Scan, ScanRequested, ScanSkip, ScanNext, ScanCreate, ScanLast,
           ScanMissing, ScanFull, Return
<1>4. (rec'.open \/ pc' = "scan") => file_byte_len' = 0
    BY <1>1 DEF Scan, ScanRequested, ScanSkip, ScanNext, ScanCreate, ScanLast,
           ScanMissing, ScanFull, ReadCandidate, fileVars, Return
<1> QED BY <1>1, <1>2, <1>3, <1>4 DEF DriverInv, SdProtocol, SdIdle

(* The calls and steps that leave the card alone. *)
LEMMA QuietDriver ==
    ASSUME IInv, DriverInv,
           \/ FsOpenQuick \/ ReadStep \/ ReadDone \/ FsClose
           \/ \E len \in WriteLens : FsWrite(len)
           \/ \E now \in Times : FsRtcSet(now)
           \/ \E byte \in 0 .. MAX_FILE_LEN : FsSeek(byte)
           \/ \E len \in ReadLens : FsRead(len)
    PROVE  DriverInv'
<1>1. CASE FsOpenQuick
    <2>1. SdIdle /\ ~rec.open
        BY <1>1 DEF FsOpenQuick, MayOpen, AlreadyOpen, DriverInv
    <2> QED BY <1>1, <2>1 DEF FsOpenQuick, writeVars, DriverInv, SdProtocol,
                              SdIdle, MayOpen
<1>2. CASE ReadStep \/ ReadDone
    <2>1. /\ UNCHANGED <<card, rec, sd_write_in_progress, file_byte_len>>
          /\ pc = "read" /\ pc' \in {"read", "idle"}
          /\ ret' = ret \/ ret' = "NONE"
        BY <1>2 DEF ReadStep, ReadDone, Return, fsVars, fileVars, writeVars
    <2>2. SdIdle /\ ~rec.open
        BY <2>1 DEF IInv, CloseInv, DriverInv
    <2> QED BY <2>1, <2>2 DEF DriverInv, SdProtocol, SdIdle
<1>3. CASE FsClose
    <2>1. /\ UNCHANGED <<card, rec, sd_write_in_progress, file_byte_len,
                         file_startblock_idx, file_byte_idx>>
          /\ pc = "idle" /\ pc' = "close_drain" /\ ret' = "NONE" /\ rec.open
        BY <1>3 DEF FsClose, fsVars, fileVars, writeVars
    <2> QED BY <2>1 DEF DriverInv, SdProtocol, SdIdle, FullBlocks
<1>4. ASSUME NEW len \in WriteLens, FsWrite(len)
      PROVE  DriverInv'
    <2>1. /\ UNCHANGED <<card, file_byte_len, file_startblock_idx, file_byte_idx>>
          /\ pc = "idle" /\ pc' = "idle" /\ ret' = "NONE" /\ rec.open
          /\ sd_write_in_progress' = FALSE /\ sd_write_in_progress = FALSE
          /\ rec'.open = rec.open
        BY <1>4 DEF FsWrite, Busy, fileVars, IInv, TypeOK
    <2> QED BY <2>1 DEF DriverInv, SdProtocol, SdIdle, FullBlocks
<1>5. ASSUME NEW now \in Times, FsRtcSet(now)
      PROVE  DriverInv'
    <2>1. /\ UNCHANGED <<card, rec, sd_write_in_progress, file_byte_len,
                         file_startblock_idx, file_byte_idx>>
          /\ pc = "idle" /\ pc' = "idle" /\ ret' = "NONE" /\ rec.open
        BY <1>5 DEF FsRtcSet, writeVars
    <2> QED BY <2>1 DEF DriverInv, SdProtocol, SdIdle, FullBlocks
<1>6. ASSUME NEW byte \in 0 .. MAX_FILE_LEN, FsSeek(byte)
      PROVE  DriverInv'
    BY <1>6 DEF FsSeek, Readable, writeVars, DriverInv, SdProtocol, SdIdle
<1>7. ASSUME NEW len \in ReadLens, FsRead(len)
      PROVE  DriverInv'
    <2>1. /\ UNCHANGED <<card, rec, sd_write_in_progress, file_byte_len>>
          /\ pc = "idle" /\ pc' \in {"read", "idle"} /\ ~rec.open
          /\ ret' \in {"NONE", "EOF"}
        BY <1>7 DEF FsRead, Readable, Return, fsVars, fileVars, writeVars
    <2> QED BY <2>1 DEF DriverInv, SdProtocol, SdIdle
<1> QED BY <1>1, <1>2, <1>3, <1>4, <1>5, <1>6, <1>7

(* A copy stays in the block, and completes it or not. *)
LEMMA CopyBlocks ==
    ASSUME TypeOK
    PROVE  /\ BytesCopied \in Nat /\ BytesCopied <= write_len
           /\ FullBlocks \in Nat /\ BlockByte \in Offsets
           /\ file_byte_idx = SD_BLOCK_LEN * FullBlocks + BlockByte
           /\ BlockByte + BytesCopied <= SD_BLOCK_LEN
           /\ ~BlockComplete =>
                 (file_byte_idx + BytesCopied) \div SD_BLOCK_LEN = FullBlocks
           /\ BlockComplete =>
                 /\ (file_byte_idx + BytesCopied) \div SD_BLOCK_LEN = FullBlocks + 1
                 /\ file_byte_idx + BytesCopied = SD_BLOCK_LEN * (FullBlocks + 1)
                 /\ BlockToWrite = file_startblock_idx + FullBlocks + 1
<1> DEFINE m == SD_BLOCK_LEN
           n == file_byte_idx
           c == BytesCopied
           q == FullBlocks
           r == BlockByte
<1>1. m \in Nat /\ m > 0 /\ n \in Nat /\ write_len \in Nat
      /\ file_startblock_idx \in Int
    BY FileSystemAssumption DEF TypeOK
<1>2. q \in Nat /\ r \in 0 .. m - 1 /\ n = m * q + r
    BY <1>1, BlockParts DEF Offsets, FullBlocks, BlockByte, BYTES_IN_LAST_BLOCK
<1>3. c \in Nat /\ c <= write_len /\ r + c <= m
    BY <1>1, <1>2 DEF BytesCopied
<1>4. BlockComplete <=> r + c = m
    BY DEF BlockComplete
<1> HIDE DEF m, n, c, q, r
<1>5. CASE r + c < m
    <2>1. n + c \in Nat /\ r + c \in 0 .. m - 1 /\ n + c = m * q + (r + c)
        BY <1>1, <1>2, <1>3, <1>5
    <2>2. (n + c) \div SD_BLOCK_LEN = q
        BY <1>2, <2>1, BlockDivision DEF Offsets, m
    <2> QED BY <1>1, <1>2, <1>3, <1>4, <1>5, <2>2 DEF m, n, c, q, r, Offsets
<1>6. CASE r + c = m
    <2>1. n + c \in Nat /\ n + c = m * (q + 1)
        <3>1. m * (q + 1) = m * q + m
            BY <1>1, <1>2
        <3> QED BY <1>1, <1>2, <1>3, <1>6, <3>1
    <2>2. (n + c) \div SD_BLOCK_LEN = q + 1 /\ (n + c) % SD_BLOCK_LEN = 0
        <3>1. m * (q + 1) \in Nat /\ m * (q + 1) + 0 = m * (q + 1)
            BY <2>1
        <3>2. 0 \in Offsets /\ q + 1 \in Int /\ n + c = SD_BLOCK_LEN * (q + 1) + 0
            BY <1>1, <1>2, <2>1, <3>1 DEF Offsets, m
        <3> QED BY <2>1, <3>2, BlockDivision
    <2>3. BYTES_TO_BLOCKS(n + c) = q + 1
        BY <1>2, <2>2 DEF BYTES_TO_BLOCKS
    <2>4. BlockToWrite = file_startblock_idx + (q + 1)
        BY <2>3 DEF BlockToWrite, n, c
    <2>5. BlockToWrite = file_startblock_idx + q + 1
        BY <1>1, <1>2, <2>4
    <2> QED BY <1>1, <1>2, <1>3, <1>4, <1>6, <2>1, <2>2, <2>5
               DEF m, n, c, q, r, Offsets
<1> QED BY <1>1, <1>2, <1>3, <1>5, <1>6

(* The next block fs_update writes is the one behind the last, for the card. *)
LEMMA UpdateDriver ==
    ASSUME IInv, DriverInv, FsUpdate PROVE DriverInv'
<1>1. ASSUME NEW done \in BOOLEAN, UpdatePoll(done)
      PROVE  DriverInv'
    <2>1. /\ card' = [card EXCEPT !.busy = ~done] /\ sd_write_in_progress' = ~done
          /\ UNCHANGED <<rec, pc, ret, file_byte_len, file_startblock_idx,
                         file_byte_idx>>
          /\ pc \in {"idle", "close_drain"} /\ rec.open
        BY <1>1 DEF UpdatePoll, Updating, fileVars
    <2>2. card'.busy = ~done /\ card'.multi = card.multi /\ card'.last = card.last
        BY <2>1 DEF IInv, TypeOK
    <2> HIDE DEF UpdatePoll
    <2> QED BY <2>1, <2>2 DEF DriverInv, SdProtocol, SdIdle, FullBlocks
<1>2. ASSUME CopyBytes
      PROVE  /\ rec' = rec /\ rec.open /\ pc \in {"idle", "close_drain"}
             /\ UNCHANGED <<file_byte_len, file_startblock_idx>>
             /\ file_byte_idx' = file_byte_idx + BytesCopied
             /\ FullBlocks' = (file_byte_idx + BytesCopied) \div SD_BLOCK_LEN
             /\ sd_write_in_progress = FALSE /\ card.busy = FALSE
             /\ FullBlocks \in Nat /\ file_startblock_idx \in Int
             /\ card \in [busy : BOOLEAN, multi : BOOLEAN, last : Nat]
    BY <1>2, CopyBlocks DEF CopyBytes, Updating, FullBlocks, IInv, TypeOK,
                            DriverInv
<1>3. CASE UpdateCopy
    <2>1. FullBlocks' = FullBlocks
        BY <1>2, <1>3, CopyBlocks DEF UpdateCopy, IInv
    <2>2. UNCHANGED <<card, pc, ret, sd_write_in_progress>>
        BY <1>3 DEF UpdateCopy
    <2> QED BY <1>2, <1>3, <2>1, <2>2 DEF UpdateCopy, DriverInv, SdProtocol, SdIdle
<1>4. CASE UpdateBlock
    <2>1. /\ BlockToWrite = file_startblock_idx + FullBlocks + 1
          /\ FullBlocks' = FullBlocks + 1 /\ BlockToWrite < CAPACITY
        BY <1>2, <1>4, CopyBlocks DEF UpdateBlock, IInv
    <2>2. card.multi => card.last = file_startblock_idx + FullBlocks
        BY <1>2, <1>4, <2>1, FileSystemAssumption DEF UpdateBlock, DriverInv
    <2>3. SdMultiInOrder(BlockToWrite)
        BY <1>2, <1>4, <2>1, <2>2 DEF UpdateBlock, SdMultiInOrder
    <2>4. /\ card' = [busy |-> TRUE, multi |-> TRUE, last |-> BlockToWrite]
          /\ sd_write_in_progress' = TRUE /\ UNCHANGED <<pc, ret>>
        BY <1>4, <2>3 DEF UpdateBlock, SdWriteMulti
    <2>5. /\ card'.busy = TRUE
          /\ card'.last = file_startblock_idx' + FullBlocks'
        BY <1>2, <1>4, <2>1, <2>4 DEF UpdateBlock
    <2> QED BY <1>2, <1>4, <2>4, <2>5 DEF UpdateBlock, DriverInv, SdProtocol, SdIdle
<1>5. CASE UpdateDrop
    <2>1. file_startblock_idx' + FullBlocks' >= CAPACITY
        BY <1>2, <1>5, CopyBlocks, FileSystemAssumption DEF UpdateDrop, IInv
    <2>2. UNCHANGED <<card, pc, ret, sd_write_in_progress>>
        BY <1>5 DEF UpdateDrop
    <2> QED BY <1>2, <1>5, <2>1, <2>2 DEF UpdateDrop, DriverInv, SdProtocol, SdIdle
<1> QED BY <1>1, <1>3, <1>4, <1>5 DEF FsUpdate

LEMMA PartialBlock ==
    ASSUME TypeOK, Partial
    PROVE  LastBlock = file_startblock_idx + FullBlocks + 1
<1>1. BYTES_IN_LAST_BLOCK(file_byte_idx) > 0 /\ FullBlocks \in Nat
    BY BlockParts, SMTT(30)
       DEF TypeOK, Partial, BYTES_IN_LAST_BLOCK, Offsets, FullBlocks
<1>2. BYTES_TO_BLOCKS(file_byte_idx) = FullBlocks + 1
    BY <1>1 DEF BYTES_TO_BLOCKS, BYTES_IN_LAST_BLOCK, FullBlocks
<1> QED BY <1>1, <1>2 DEF LastBlock, TypeOK

(* The partial last block is in order too. *)
LEMMA LastInOrder ==
    ASSUME IInv, DriverInv, Drained, Partial, LastBlock < CAPACITY
    PROVE  SdMultiInOrder(LastBlock)
<1>1. /\ LastBlock = file_startblock_idx + FullBlocks + 1
      /\ FullBlocks \in Nat /\ file_startblock_idx \in Int
    BY PartialBlock, BlockParts DEF IInv, TypeOK, FullBlocks
<1>2. ~card.busy /\ pc = "close_drain"
    BY DEF Drained, Busy, DriverInv
<1>3. card.multi => card.last = file_startblock_idx + FullBlocks
    BY <1>1, <1>2, FileSystemAssumption DEF DriverInv
<1> QED BY <1>1, <1>2, <1>3 DEF SdMultiInOrder

LEMMA CloseDriver ==
    ASSUME IInv, DriverInv, Close PROVE DriverInv'
<1>1. CASE ClosePartial
    <2>1. /\ card' = [busy |-> FALSE, multi |-> TRUE, last |-> LastBlock]
          /\ pc' = "close_end" /\ UNCHANGED ret
        BY <1>1, LastInOrder DEF ClosePartial, SdWriteMulti
    <2>2. /\ UNCHANGED <<rec, file_byte_len, write_in_progress,
                         sd_write_in_progress>>
          /\ rec.open /\ ~Busy /\ sd_write_in_progress = FALSE
        BY <1>1 DEF ClosePartial, fsVars, fileVars, writeVars, Drained, Busy,
                    IInv, TypeOK, CloseInv
    <2> QED BY <2>1, <2>2 DEF DriverInv, SdProtocol, SdIdle, Busy
<1>2. CASE CloseWhole
    <2>1. /\ UNCHANGED <<card, ret, rec, file_byte_len, write_in_progress,
                         sd_write_in_progress>>
          /\ rec.open /\ ~Busy /\ pc' = "close_end"
        BY <1>2 DEF CloseWhole, fsVars, fileVars, writeVars, Drained, IInv,
                    CloseInv
    <2> QED BY <2>1 DEF DriverInv, SdProtocol, SdIdle, Busy
<1>3. CASE CloseTooLong
    <2>1. /\ UNCHANGED <<card, rec, file_byte_len, sd_write_in_progress>>
          /\ rec.open /\ pc' = "halted" /\ ret' = "FILE_TOO_LONG"
        BY <1>3 DEF CloseTooLong, fsVars, fileVars, writeVars, Drained, IInv,
                    CloseInv, Halt
    <2> QED BY <2>1 DEF DriverInv, SdProtocol, SdIdle
<1>4. CASE CloseEnd
    <2>1. /\ UNCHANGED <<rec, ret, file_byte_len, sd_write_in_progress>>
          /\ card'.busy = FALSE /\ card'.multi = FALSE
          /\ rec.open /\ pc' = "close_start" /\ sd_write_in_progress = FALSE
        BY <1>4 DEF CloseEnd, SdMultiEnd, CardIdle, fileVars, writeVars, IInv,
                    TypeOK, CloseInv, DriverInv, Busy
    <2> QED BY <2>1 DEF DriverInv, SdProtocol, SdIdle
<1>5. CASE CloseStart \/ CloseSkip
    <2>1. SdIdle /\ card.busy = FALSE
        BY <1>5 DEF CloseStart, CloseSkip, SdHalt, DriverInv, IInv, TypeOK,
                    CloseInv, SdIdle
    <2>2. /\ UNCHANGED card /\ rec'.open = FALSE
          /\ sd_write_in_progress' = sd_write_in_progress
                \/ sd_write_in_progress' = FALSE
          /\ pc' \in {"close_skip", "idle"} /\ ret' \in {ret, "NONE"}
        <3>1. CASE CloseStart
            <4>1. /\ UNCHANGED card /\ rec' = NoRec
                  /\ \/ pc' = "close_skip" /\ UNCHANGED <<fsVars, ret>>
                     \/ Return("NONE") /\ FsInit(0, -1, Other)
                BY <2>1, <3>1 DEF CloseStart, SdHalt, SdWriteBlock
            <4>2. rec'.open = FALSE
                BY <4>1 DEF NoRec
            <4> QED BY <4>1, <4>2 DEF FsInit, Return, fsVars, writeVars
        <3>2. CASE CloseSkip
            <4>1. /\ UNCHANGED card /\ rec' = rec
                  /\ Return("NONE") /\ FsInit(0, -1, Other)
                BY <2>1, <3>2 DEF CloseSkip, SdHalt, SdWriteBlock
            <4>2. rec.open = FALSE
                BY <3>2 DEF CloseSkip, SdHalt, IInv, TypeOK, CloseInv
            <4> QED BY <4>1, <4>2 DEF FsInit, Return
        <3> QED BY <1>5, <3>1, <3>2
    <2> QED BY <2>1, <2>2 DEF DriverInv, SdProtocol, SdIdle
<1> QED BY <1>1, <1>2, <1>3, <1>4, <1>5 DEF Close

LEMMA DriverStep ==
    ASSUME IInv, DriverInv, [Next]_vars PROVE DriverInv'
<1>1. CASE \E create \in BOOLEAN, seq \in OpenSeqs :
              (create => seq = 0) /\ FsOpen(create, seq)
    BY <1>1, OpenDriver DEF FsOpen, MayOpen, IInv
<1>2. CASE FsOpenRetry \/ Boot
    <2>1. SdIdle
        BY <1>2 DEF FsOpenRetry, Boot, IInv, CloseInv, DriverInv
    <2> QED BY <1>2, <2>1, OpenDriver DEF FsOpenRetry, Boot, IInv
<1>3. ASSUME NEW portable \in BOOLEAN, FsFormat(portable)
      PROVE  DriverInv'
    <2>1. rec'.open = FALSE /\ ret' = "NONE" /\ SdIdle /\ FormatBody(portable)
        BY <1>3 DEF FsFormat, MayOpen, NoRec
    <2> QED BY <2>1, FormatBodyDriver DEF IInv
<1>4. CASE Crash
    <2>1. /\ rec'.open = FALSE /\ card'.busy = FALSE /\ card'.multi = FALSE
          /\ sd_write_in_progress' = FALSE /\ pc' = "off" /\ ret' = "NONE"
        BY <1>4 DEF Crash, NoRec, CardIdle
    <2> QED BY <2>1 DEF DriverInv, SdProtocol, SdIdle
<1>5. CASE UNCHANGED vars
    <2>1. UNCHANGED <<card, rec, ret, pc, sd_write_in_progress,
                      write_in_progress, file_byte_len, file_byte_idx,
                      file_startblock_idx>>
        BY <1>5 DEF vars, fsVars, fileVars, writeVars
    <2> QED BY <2>1 DEF DriverInv, SdProtocol, SdIdle, Busy, FullBlocks
<1> QED
    BY <1>1, <1>2, <1>3, <1>4, <1>5, QuietDriver, ScanDriver, FormatDriver,
       UpdateDriver, CloseDriver
       DEF Next, Call, Step

-----------------------------------------------------------------------------
(* The bytes of the files *)

LEMMA BlocksMonotone ==
    ASSUME NEW a \in Nat, NEW b \in Nat, a <= b
    PROVE  a \div SD_BLOCK_LEN <= b \div SD_BLOCK_LEN
<1> DEFINE m == SD_BLOCK_LEN
           q == a \div m
           r == b \div m
           d == a % m
           e == b % m
<1>1. /\ m \in Nat /\ m > 0 /\ q \in Nat /\ r \in Nat
      /\ d \in 0 .. m - 1 /\ e \in 0 .. m - 1
      /\ a = m * q + d /\ b = m * r + e
    BY BlockParts, FileSystemAssumption DEF Offsets
<1> HIDE DEF m, q, r, d, e
<1>2. m * (q - r) < m
    <2>1. m * (q - r) = m * q - m * r
        BY <1>1
    <2> QED BY <1>1, <2>1
<1>3. \A k \in Int : k >= 1 => m * k >= m
    BY <1>1
<1>4. ~(q - r >= 1)
    BY <1>1, <1>2, <1>3
<1>5. q <= r
    BY <1>1, <1>4
<1> QED BY <1>5 DEF q, r, m

(* The bytes of a closed file are behind its startblock and before the place *)
(* of the next file.                                                         *)
LEMMA BytesBelow ==
    ASSUME TypeOK, CardInv, NEW i \in Files, NEW p \in 0 .. log[i].len - 1
    PROVE  /\ BlockOf(log[i].start, p) \in Nat
           /\ BlockOf(log[i].start, p) > log[i].start
           /\ BlockOf(log[i].start, p) < ChainEnd
<1>1. log[i] \in Records /\ log[i].start \in Nat /\ log[i].len \in Nat
      /\ i \in Nat /\ Len(log) \in Nat /\ i <= Len(log)
    BY FileStart, LogType DEF CardInv, Records, Files
<1>2. p \in Nat /\ log[i].len - 1 \in Nat /\ p <= log[i].len - 1
    BY <1>1
<1>3. /\ BYTES_TO_BLOCKS(p + 1) = p \div SD_BLOCK_LEN + 1
      /\ BYTES_TO_BLOCKS(log[i].len) = (log[i].len - 1) \div SD_BLOCK_LEN + 1
    <2>1. log[i].len - 1 + 1 = log[i].len
        BY <1>1
    <2>2. BYTES_TO_BLOCKS(log[i].len - 1 + 1)
             = (log[i].len - 1) \div SD_BLOCK_LEN + 1
        BY <1>2, BlockOfByte
    <2> QED BY <1>2, <2>1, <2>2, BlockOfByte
<1>4. /\ p \div SD_BLOCK_LEN \in Nat /\ (log[i].len - 1) \div SD_BLOCK_LEN \in Nat
      /\ p \div SD_BLOCK_LEN <= (log[i].len - 1) \div SD_BLOCK_LEN
    BY <1>2, BlocksMonotone, BlockParts
<1>5. /\ BlockOf(log[i].start, p) \in Nat /\ BlockOf(log[i].start, p) > log[i].start
      /\ BlockOf(log[i].start, p) < EndOf(log[i])
    <2> DEFINE q == p \div SD_BLOCK_LEN
               r == (log[i].len - 1) \div SD_BLOCK_LEN
    <2>1. q \in Nat /\ r \in Nat /\ q <= r
        BY <1>4
    <2>2. /\ BlockOf(log[i].start, p) = log[i].start + (q + 1)
          /\ EndOf(log[i]) = log[i].start + 1 + (r + 1)
        BY <1>3 DEF BlockOf, EndOf
    <2> HIDE DEF q, r
    <2> QED BY <1>1, <2>1, <2>2
<1>6. EndOf(log[i]) <= ChainEnd
    <2>1. CASE i = Len(log)
        <3>1. EndOf(log[i]) \in Nat /\ ChainEnd = EndOf(log[i])
            <4>1. Len(log) + 1 # 1 /\ Len(log) + 1 - 1 = i
                BY <1>1, <2>1 DEF Files
            <4> QED BY <1>1, <4>1, EndBehindStart DEF ChainEnd, StartOf
        <3> QED BY <3>1
    <2>2. CASE i # Len(log)
        <3>1. i + 1 \in Files
            BY <1>1, <2>2 DEF Files
        <3>2. log[i + 1].start = StartOf(i + 1) /\ log[i + 1].start < ChainEnd
            BY <3>1, FileStart, StartsBelow DEF CardInv
        <3>3. StartOf(i + 1) = EndOf(log[i])
            BY <1>1 DEF StartOf, Files
        <3>4. EndOf(log[i]) \in Nat /\ ChainEnd \in Nat
            BY <1>1, EndBehindStart, ChainEndNat
        <3> QED BY <3>2, <3>3, <3>4
    <2> QED BY <2>1, <2>2
<1>7. EndOf(log[i]) \in Nat /\ ChainEnd \in Nat
    BY <1>1, EndBehindStart, ChainEndNat
<1> QED BY <1>5, <1>6, <1>7

(* A write behind the files, or one that changes no data, keeps their bytes. *)
LEMMA FilesKept ==
    ASSUME TypeOK, CardInv, FilesOnCard, log' = log,
           \A b \in Cards : b < ChainEnd => BytesOf(disk'[b]) = BytesOf(disk[b])
    PROVE  FilesOnCard'
<1> SUFFICES ASSUME NEW i \in Files, NEW p \in 0 .. log[i].len - 1,
                    BlockOf(log[i].start, p) < CAPACITY
             PROVE  Has(disk'[BlockOf(log[i].start, p)], log[i].tag, p)
    BY DEF FilesOnCard, OnCard, Files
<1>1. BlockOf(log[i].start, p) \in Cards /\ BlockOf(log[i].start, p) < ChainEnd
    BY BytesBelow, FileSystemAssumption DEF Cards
<1>2. Has(disk[BlockOf(log[i].start, p)], log[i].tag, p)
    BY DEF FilesOnCard, OnCard
<1> QED BY <1>1, <1>2 DEF Has

(* Where byte p of a recording is, for the bytes of complete blocks and for  *)
(* those of the block in RAM.                                                *)
LEMMA RecordingBlocks ==
    ASSUME TypeOK, NEW p \in Nat
    PROVE  /\ CompleteBytes \in Nat /\ FullBlocks \in Nat
           /\ p < CompleteBytes =>
                 /\ BlockOf(file_startblock_idx, p) > file_startblock_idx
                 /\ BlockOf(file_startblock_idx, p)
                       < file_startblock_idx + FullBlocks + 1
           /\ (CompleteBytes <= p /\ p < CompleteBytes + SD_BLOCK_LEN) =>
                 /\ BlockOf(file_startblock_idx, p)
                       = file_startblock_idx + FullBlocks + 1
                 /\ BYTES_IN_LAST_BLOCK(p) = p - CompleteBytes
<1> DEFINE m == SD_BLOCK_LEN
           q == FullBlocks
           u == p \div SD_BLOCK_LEN
           v == p % SD_BLOCK_LEN
<1>1. /\ m \in Nat /\ m > 0 /\ q \in Nat /\ file_startblock_idx \in Int
      /\ u \in Nat /\ v \in 0 .. m - 1 /\ p = m * u + v
    <2>1. m \in Nat /\ m > 0
        BY FileSystemAssumption
    <2>2. u \in Nat /\ v \in 0 .. m - 1 /\ p = m * u + v
        BY BlockParts DEF Offsets
    <2>3. q \in Nat /\ file_startblock_idx \in Int
        BY BlockParts DEF TypeOK, FullBlocks
    <2> QED BY <2>1, <2>2, <2>3
<1>2. /\ BlockOf(file_startblock_idx, p) = file_startblock_idx + (u + 1)
      /\ CompleteBytes = m * q /\ BYTES_IN_LAST_BLOCK(p) = v
    BY BlockOfByte DEF BlockOf, CompleteBytes, BYTES_IN_LAST_BLOCK
<1> HIDE DEF m, q, u, v
<1>3. m * q \in Nat /\ m * u \in Nat
    BY <1>1
<1>4. CASE p < m * q
    <2>1. m * (u - q) < 0
        <3>1. m * (u - q) = m * u - m * q
            BY <1>1
        <3> QED BY <1>1, <1>3, <1>4, <3>1
    <2>2. \A k \in Int : k >= 0 => m * k >= 0
        BY <1>1
    <2>3. u < q
        BY <1>1, <2>1, <2>2
    <2> QED BY <1>1, <1>2, <1>3, <1>4, <2>3 DEF q
<1>5. CASE ~(p < m * q) /\ p < m * q + m
    <2>1. p - m * q \in Offsets /\ p = m * q + (p - m * q)
        BY <1>1, <1>3, <1>5 DEF Offsets, m
    <2>2. u = q /\ v = p - m * q
        <3> DEFINE w == p - m * q
        <3>1. w \in Offsets /\ q \in Int /\ p \in Nat /\ p = SD_BLOCK_LEN * q + w
            BY <1>1, <2>1 DEF m
        <3> HIDE DEF w
        <3>2. p \div SD_BLOCK_LEN = q /\ p % SD_BLOCK_LEN = w
            BY <3>1, BlockDivision
        <3> QED BY <3>2 DEF u, v, w
    <2> QED BY <1>1, <1>2, <1>3, <1>5, <2>2 DEF q, m
<1>6. CASE ~(p < m * q + m)
    BY <1>1, <1>2, <1>3, <1>6 DEF q, m
<1> QED BY <1>4, <1>5, <1>6

(* What fs_update copies joins what is in the block. *)
LEMMA FilledHas ==
    ASSUME TypeOK, CopyBytes, CopyInv, BytesInv,
           NEW p \in CompleteBytes .. file_byte_idx + BytesCopied - 1
    PROVE  Has(FilledBlock, rec.tag, p)
<1>1. /\ rec.open /\ pc \in {"idle", "close_drain"} /\ pc # "halted"
      /\ write_in_progress /\ write_buf = file_byte_idx
    BY DEF CopyBytes, Updating, Busy, CopyInv
<1>2. /\ BytesCopied \in Nat /\ BlockByte \in Nat /\ FullBlocks \in Nat
      /\ BlockByte + BytesCopied <= SD_BLOCK_LEN /\ SD_BLOCK_LEN \in Nat
      /\ file_byte_idx \in Nat
      /\ file_byte_idx = CompleteBytes + BlockByte
    BY CopyBlocks, FileSystemAssumption DEF TypeOK, CompleteBytes, Offsets
<1>3. CompleteBytes \in Nat
    BY <1>2, RecordingBlocks
<1>4. p \in Nat /\ CompleteBytes <= p /\ p < CompleteBytes + SD_BLOCK_LEN
    BY <1>2, <1>3
<1>5. BYTES_IN_LAST_BLOCK(p) = p - CompleteBytes
    BY <1>4, RecordingBlocks
<1> DEFINE o == p - CompleteBytes
<1>6. o \in Offsets
    BY <1>2, <1>3, <1>4 DEF Offsets
<1>7. BytesOf(FilledBlock)[o]
         = IF o \in BlockByte .. BlockByte + BytesCopied - 1
           THEN <<rec.tag, write_buf + (o - BlockByte)>> ELSE BytesOf(block)[o]
    BY <1>6 DEF BytesOf, FilledBlock
<1>8. CASE p < file_byte_idx
    <2>1. Has(block, rec.tag, p)
        BY <1>1, <1>2, <1>3, <1>4, <1>8 DEF BytesInv
    <2>2. o \notin BlockByte .. BlockByte + BytesCopied - 1
        BY <1>2, <1>3, <1>4, <1>8
    <2> QED BY <1>5, <1>7, <2>1, <2>2 DEF Has
<1>9. CASE ~(p < file_byte_idx)
    <2>1. o \in BlockByte .. BlockByte + BytesCopied - 1
        BY <1>2, <1>3, <1>4, <1>9
    <2>2. write_buf + (o - BlockByte) = p
        BY <1>1, <1>2, <1>3, <1>4
    <2> QED BY <1>5, <1>7, <2>1, <2>2 DEF Has
<1> QED BY <1>8, <1>9

(* A block of the recording goes to its place, or beyond the card. *)
LEMMA BlockSaved ==
    ASSUME TypeOK, NEW tag, NEW b, NEW n \in Nat,
           n <= CompleteBytes + SD_BLOCK_LEN, file_startblock_idx \in Nat,
           OnCard(file_startblock_idx, tag, CompleteBytes),
           \A p \in CompleteBytes .. n - 1 : Has(b, tag, p),
           NEW w, w = file_startblock_idx + FullBlocks + 1,
           \/ disk' = [disk EXCEPT ![w] = b]
           \/ w >= CAPACITY /\ disk' = disk
    PROVE  \A p \in 0 .. n - 1 : BlockOf(file_startblock_idx, p) < CAPACITY =>
              Has(disk'[BlockOf(file_startblock_idx, p)], tag, p)
<1> SUFFICES ASSUME NEW p \in 0 .. n - 1,
                    BlockOf(file_startblock_idx, p) < CAPACITY
             PROVE  Has(disk'[BlockOf(file_startblock_idx, p)], tag, p)
    OBVIOUS
<1> DEFINE x == BlockOf(file_startblock_idx, p)
<1>1. /\ p \in Nat /\ CompleteBytes \in Nat /\ FullBlocks \in Nat
      /\ SD_BLOCK_LEN \in Nat /\ CAPACITY \in Nat
    BY RecordingBlocks, FileSystemAssumption
<1>2. DOMAIN disk = Cards
    BY DEF TypeOK, Cards
<1>3. CASE p < CompleteBytes
    <2>1. x > file_startblock_idx /\ x < w
        BY <1>1, <1>3, RecordingBlocks
    <2>2. Has(disk[x], tag, p)
        BY <1>1, <1>3 DEF OnCard
    <2>3. disk'[x] = disk[x]
        <3>1. x \in Int
            BY <1>1, BlocksNat DEF BlockOf
        <3>2. x # w
            BY <1>1, <2>1, <3>1
        <3>3. x \in Cards
            BY <1>1, <2>1, <3>1 DEF Cards
        <3> HIDE DEF x
        <3> QED BY <1>2, <3>2, <3>3
    <2> QED BY <2>2, <2>3
<1>4. CASE ~(p < CompleteBytes)
    <2>1. x = w
        BY <1>1, <1>4, RecordingBlocks
    <2>2. Has(b, tag, p)
        BY <1>1, <1>4
    <2>3. w \in Cards
        BY <1>1, <2>1 DEF Cards
    <2>4. disk' = [disk EXCEPT ![w] = b]
        BY <1>1, <2>1
    <2>5. disk'[w] = b
        BY <1>2, <2>3, <2>4
    <2> QED BY <2>1, <2>2, <2>5
<1> QED BY <1>3, <1>4

(* fs_update copies into the block, and starts its write when it is full. *)
LEMMA UpdateData ==
    ASSUME IInv, DriverInv, DataInv, FsUpdate PROVE DataInv'
<1> USE DEF IInv, DataInv
<1>1. ASSUME NEW done \in BOOLEAN, UpdatePoll(done)
      PROVE  DataInv'
    <2>1. UNCHANGED <<disk, log, rec, pc, block, write_in_progress, write_buf,
                      write_len, file_byte_idx, file_startblock_idx>>
        BY <1>1 DEF UpdatePoll, fileVars
    <2>2. CopyInv' /\ BytesInv'
        BY <2>1 DEF CopyInv, BytesInv, OnCard, CompleteBytes, FullBlocks
    <2>3. FilesOnCard'
        BY <2>1 DEF FilesOnCard, OnCard, Files
    <2> QED BY <2>2, <2>3
<1>2. ASSUME CopyBytes
      PROVE  /\ rec' = rec /\ rec.open /\ pc \in {"idle", "close_drain"}
             /\ log' = log /\ block' = FilledBlock
             /\ file_startblock_idx' = file_startblock_idx
             /\ file_startblock_idx \in Nat /\ file_startblock_idx = ChainEnd
             /\ write_in_progress
             /\ write_buf' = file_byte_idx' /\ write_buf' + write_len' = rec.accepted
             /\ file_byte_idx' = file_byte_idx + BytesCopied
             /\ file_byte_idx' \in Nat /\ write_len' \in Nat
             /\ FullBlocks' = (file_byte_idx + BytesCopied) \div SD_BLOCK_LEN
             /\ CompleteBytes' = SD_BLOCK_LEN * FullBlocks'
    <2>1. /\ rec' = rec /\ rec.open /\ pc \in {"idle", "close_drain"}
          /\ log' = log /\ block' = FilledBlock
          /\ file_startblock_idx' = file_startblock_idx
          /\ write_in_progress /\ pc # "halted"
          /\ write_buf' = write_buf + BytesCopied
          /\ write_len' = write_len - BytesCopied
          /\ file_byte_idx' = file_byte_idx + BytesCopied
        BY <1>2 DEF CopyBytes, Updating, Busy
    <2>2. file_startblock_idx \in Nat /\ file_startblock_idx = ChainEnd
        BY <2>1, ChainEndNat DEF RecordingInv
    <2>3. write_buf = file_byte_idx /\ write_buf + write_len = rec.accepted
        BY <2>1 DEF CopyInv
    <2>4. /\ BytesCopied \in Nat /\ BytesCopied <= write_len
          /\ write_len \in Nat /\ file_byte_idx \in Nat
        BY CopyBlocks DEF TypeOK
    <2> QED BY <2>1, <2>2, <2>3, <2>4 DEF FullBlocks, CompleteBytes
<1>3. ASSUME CopyBytes, WriteDone \/ UNCHANGED write_in_progress,
             pc' = pc
      PROVE  CopyInv'
    <2>1. write_len' = 0 \/ write_in_progress'
        <3>1. write_in_progress
            BY <1>2, <1>3, Zenon
        <3>2. write_in_progress' = (write_len' # 0) \/ write_in_progress' = write_in_progress
            BY <1>3, Zenon DEF WriteDone
        <3> QED BY <3>1, <3>2, Zenon
    <2>2. write_len' = 0 => file_byte_idx' = rec.accepted
        BY <1>2, <1>3
    <2> QED BY <1>2, <1>3, <2>1, <2>2 DEF CopyInv
<1>4. ASSUME CopyBytes
      PROVE  \A p \in CompleteBytes .. file_byte_idx' - 1 :
                Has(FilledBlock, rec.tag, p)
    <2>1. file_byte_idx' - 1 = file_byte_idx + BytesCopied - 1
        <3>1. file_byte_idx' = file_byte_idx + BytesCopied
            BY <1>2, <1>4, Zenon
        <3>2. file_byte_idx \in Nat /\ BytesCopied \in Nat
            BY CopyBlocks DEF TypeOK
        <3> QED BY <3>1, <3>2
    <2>2. TypeOK /\ CopyInv /\ BytesInv
        OBVIOUS
    <2> QED BY ONLY <1>4, <2>1, <2>2, FilledHas
<1>5. CASE UpdateCopy
    <2>1. CopyInv'
        BY <1>3, <1>5 DEF UpdateCopy
    <2>2. UNCHANGED <<disk, pc>> /\ FullBlocks' = FullBlocks
        BY <1>2, <1>5, CopyBlocks DEF UpdateCopy
    <2>3. CompleteBytes' = CompleteBytes
        BY <1>2, <1>5, <2>2 DEF UpdateCopy, CompleteBytes
    <2>4. \A p \in CompleteBytes' .. file_byte_idx' - 1 : Has(block', rec'.tag, p)
        BY <1>2, <1>5, <1>4, <2>3 DEF UpdateCopy
    <2>5. OnCard(file_startblock_idx, rec.tag, CompleteBytes)
        BY <1>2, <1>5 DEF UpdateCopy, BytesInv
    <2>6. BytesInv'
        BY <1>2, <1>5, <2>2, <2>3, <2>4, <2>5 DEF UpdateCopy, BytesInv, OnCard
    <2>7. FilesOnCard'
        BY <1>2, <1>5, <2>2 DEF UpdateCopy, FilesOnCard, OnCard, Files
    <2> QED BY <2>1, <2>6, <2>7
<1>6. CASE UpdateBlock \/ UpdateDrop
    <2>0. CopyBytes
        BY <1>6 DEF UpdateBlock, UpdateDrop
    <2>1. /\ BlockToWrite = file_startblock_idx + FullBlocks + 1
          /\ FullBlocks' = FullBlocks + 1
          /\ file_byte_idx' = SD_BLOCK_LEN * (FullBlocks + 1)
          /\ FullBlocks \in Nat
        BY <1>2, <1>6, CopyBlocks DEF UpdateBlock, UpdateDrop
    <2>2. CompleteBytes' = file_byte_idx'
        BY <1>2, <2>0, <2>1
    <2>3. /\ pc' = pc
          /\ \/ disk' = [disk EXCEPT ![BlockToWrite] = FilledBlock]
             \/ BlockToWrite >= CAPACITY /\ disk' = disk
        <3>1. CASE UpdateBlock
            <4>1. SdProtocol'
                BY <3>1, UpdateDriver DEF FsUpdate, DriverInv
            <4>2. SdMultiInOrder(BlockToWrite)
                BY <3>1, <4>1 DEF UpdateBlock, Halt, SdMultiError, SdProtocol
            <4> QED BY <3>1, <4>2 DEF UpdateBlock, SdWriteMulti
        <3>2. CASE UpdateDrop
            BY <3>2 DEF UpdateDrop
        <3> QED BY <1>6, <3>1, <3>2
    <2>4. CopyInv'
        BY <1>3, <1>6, <2>0, <2>3 DEF UpdateBlock, UpdateDrop
    <2>5. /\ \A p \in CompleteBytes .. file_byte_idx' - 1 : Has(FilledBlock, rec.tag, p)
          /\ OnCard(file_startblock_idx, rec.tag, CompleteBytes)
        BY <1>2, <1>4, <2>0 DEF BytesInv
    <2>6. file_byte_idx' <= CompleteBytes + SD_BLOCK_LEN
        <3>1. SD_BLOCK_LEN * (FullBlocks + 1) = SD_BLOCK_LEN * FullBlocks + SD_BLOCK_LEN
            BY <2>1, FileSystemAssumption
        <3> QED BY <2>1, <3>1, RecordingBlocks, FileSystemAssumption
                   DEF CompleteBytes
    <2>7. OnCard(file_startblock_idx, rec.tag, CompleteBytes)'
        <3>1. \A p \in 0 .. file_byte_idx' - 1 :
                 BlockOf(file_startblock_idx, p) < CAPACITY =>
                    Has(disk'[BlockOf(file_startblock_idx, p)], rec.tag, p)
            BY <1>2, <2>0, <2>1, <2>3, <2>5, <2>6, BlockSaved
        <3> QED BY <1>2, <2>0, <2>2, <3>1 DEF OnCard
    <2>8. CompleteBytes' .. file_byte_idx' - 1 = {}
        BY <1>2, <2>0, <2>2
    <2>9. BytesInv'
        BY <1>2, <2>0, <2>3, <2>7, <2>8 DEF BytesInv
    <2>10. FilesOnCard'
        <3>1. \A b \in Cards : b < ChainEnd => disk'[b] = disk[b]
            <4>1. BlockToWrite > ChainEnd /\ ChainEnd \in Nat /\ BlockToWrite \in Nat
                BY <1>2, <2>0, <2>1
            <4>2. DOMAIN disk = Cards /\ \A b \in Cards : b \in Nat
                BY FileSystemAssumption DEF TypeOK, Cards
            <4>3. \A b \in Cards : b < ChainEnd => b # BlockToWrite
                BY <4>1, <4>2
            <4> QED BY <2>3, <4>2, <4>3
        <3> QED BY <1>2, <2>0, <3>1, FilesKept
    <2> QED BY <2>4, <2>9, <2>10
<1> QED BY <1>1, <1>5, <1>6 DEF FsUpdate

(* Where no recording is open, only the files matter. *)
LEMMA NoRecordingData ==
    ASSUME rec'.open = FALSE, FilesOnCard',
           pc' \in {"scan", "fmt_super", "fmt_ones"} => ~write_in_progress'
    PROVE  DataInv'
BY DEF DataInv, CopyInv, BytesInv

LEMMA FilesFrame ==
    ASSUME FilesOnCard, UNCHANGED <<disk, log>> PROVE FilesOnCard'
BY DEF FilesOnCard, OnCard, Files

LEMMA NoFiles == ASSUME log' = <<>> PROVE FilesOnCard'
BY DEF FilesOnCard, Files

LEMMA OpenData ==
    ASSUME FilesOnCard, NEW create, NEW seq, OpenSuperblock(create, seq)
    PROVE  DataInv'
<1>1. rec'.open = FALSE /\ ~write_in_progress' /\ UNCHANGED <<disk, log>>
    BY DEF OpenSuperblock, FsInit, NoRec
<1> QED BY <1>1, FilesFrame, NoRecordingData

LEMMA FormatBodyData ==
    ASSUME FilesOnCard, NEW portable, FormatBody(portable), rec'.open = FALSE
    PROVE  DataInv'
<1>1. ~write_in_progress' /\ UNCHANGED <<disk, log>>
    BY DEF FormatBody, FsInit
<1> QED BY <1>1, FilesFrame, NoRecordingData

LEMMA FormatData ==
    ASSUME IInv, DriverInv, DataInv, Format PROVE DataInv'
<1>1. SdIdle /\ ~rec.open /\ rec.open = FALSE
    BY DEF Format, FormatRead, FormatSuper, FormatOnes, IInv, TypeOK, CloseInv,
           DriverInv
<1>2. CASE FormatRead
    BY <1>1, <1>2, FormatBodyData DEF FormatRead, DataInv
<1>3. CASE FormatSuper
    <2>1. /\ pc = "fmt_super" /\ pc' = "fmt_ones" /\ rec' = rec /\ log' = <<>>
          /\ UNCHANGED write_in_progress
        BY <1>1, <1>3 DEF FormatSuper, SdHalt, SdWriteBlock, writeVars
    <2>2. ~write_in_progress
        BY <2>1 DEF DataInv, CopyInv
    <2> QED BY <1>1, <2>1, <2>2, NoFiles, NoRecordingData
<1>4. CASE FormatOnes
    <2>1. /\ pc = "fmt_ones" /\ rec' = rec /\ log' = log
          /\ UNCHANGED write_in_progress
        BY <1>1, <1>4 DEF FormatOnes, SdHalt, SdWriteBlock, fsVars, writeVars
    <2>2. ~write_in_progress /\ log = <<>>
        BY <2>1 DEF DataInv, CopyInv, IInv, FormatInv
    <2> QED BY <1>1, <2>1, <2>2, NoFiles, NoRecordingData
<1> QED BY <1>2, <1>3, <1>4 DEF Format

LEMMA ScanData ==
    ASSUME IInv, DriverInv, DataInv, Scan PROVE DataInv'
<1>1. pc = "scan" /\ rec.open = FALSE /\ ~write_in_progress
    BY DEF Scan, ScanRequested, ScanSkip, ScanNext, ScanCreate, ScanLast,
           ScanMissing, ScanFull, ReadCandidate, Scanning, IInv, TypeOK,
           CloseInv, DataInv, CopyInv
<1>2. UNCHANGED <<disk, log>> /\ UNCHANGED write_in_progress
    BY DEF Scan, ScanRequested, ScanSkip, ScanNext, ScanCreate, ScanLast,
           ScanMissing, ScanFull, ScanUnchanged, writeVars
<1>3. FilesOnCard'
    BY <1>2, FilesFrame DEF DataInv
<1>4. CASE ScanCreate
    <2>1. /\ pc' = "idle" /\ file_byte_idx' = 0
          /\ \E t \in Tag : rec' = [open |-> TRUE, tag |-> t, accepted |-> 0]
        BY <1>4 DEF ScanCreate, Return
    <2>2. rec'.accepted = 0
        BY <2>1
    <2>3. FullBlocks' = 0 /\ CompleteBytes' = 0
        <3>1. 0 \div SD_BLOCK_LEN = 0 /\ SD_BLOCK_LEN * 0 = 0
            BY FileSystemAssumption
        <3> QED BY <2>1, <3>1 DEF FullBlocks, CompleteBytes
    <2>4. CopyInv'
        BY <1>1, <1>2, <2>1, <2>2 DEF CopyInv
    <2>5. BytesInv'
        BY <2>1, <2>3 DEF BytesInv, OnCard
    <2> QED BY <1>3, <2>4, <2>5 DEF DataInv
<1>5. CASE ~ScanCreate
    <2>1. rec' = rec
        BY <1>5 DEF Scan, ScanRequested, ScanSkip, ScanNext, ScanLast,
                    ScanMissing, ScanFull, ReadCandidate
    <2> QED BY <1>1, <1>2, <1>3, <2>1, NoRecordingData
<1> QED BY <1>4, <1>5

(* The calls that write no block. *)
LEMMA QuietData ==
    ASSUME IInv, DriverInv, DataInv,
           \/ FsOpenQuick \/ ReadStep \/ ReadDone \/ FsClose
           \/ \E len \in WriteLens : FsWrite(len)
           \/ \E now \in Times : FsRtcSet(now)
           \/ \E byte \in 0 .. MAX_FILE_LEN : FsSeek(byte)
           \/ \E len \in ReadLens : FsRead(len)
    PROVE  DataInv'
<1> USE DEF DataInv
<1>1. CASE \/ FsOpenQuick \/ ReadStep \/ ReadDone
           \/ \E byte \in 0 .. MAX_FILE_LEN : FsSeek(byte)
           \/ \E len \in ReadLens : FsRead(len)
    <2>1. UNCHANGED <<disk, log, rec>> /\ pc' \in {"idle", "read"}
        BY <1>1 DEF FsOpenQuick, MayOpen, ReadStep, ReadDone, FsSeek, FsRead,
                    Readable, Return
    <2>2. rec.open = FALSE
        BY <1>1 DEF FsOpenQuick, AlreadyOpen, ReadStep, ReadDone, FsSeek, FsRead,
                    Readable, IInv, TypeOK, CloseInv, DriverInv
    <2> QED BY <2>1, <2>2, FilesFrame, NoRecordingData
<1>2. CASE FsClose \/ \E now \in Times : FsRtcSet(now)
    <2>1. /\ UNCHANGED <<disk, log, rec, block, write_in_progress, write_buf,
                         write_len, file_byte_idx, file_startblock_idx>>
          /\ pc = "idle" /\ pc' \in {"idle", "close_drain"}
        BY <1>2 DEF FsClose, FsRtcSet, fsVars, fileVars, writeVars
    <2>2. CopyInv' /\ BytesInv'
        BY <2>1 DEF CopyInv, BytesInv, OnCard, CompleteBytes, FullBlocks
    <2> QED BY <2>1, <2>2, FilesFrame
<1>3. ASSUME NEW len \in WriteLens, FsWrite(len)
      PROVE  DataInv'
    <2>1. /\ UNCHANGED <<disk, log, block, file_byte_idx, file_startblock_idx, pc>>
          /\ pc = "idle" /\ rec.open /\ ~write_in_progress /\ write_in_progress'
          /\ write_buf' = rec.accepted /\ write_len' = len
          /\ rec' = [rec EXCEPT !.accepted = @ + len]
        BY <1>3 DEF FsWrite, Busy, fileVars
    <2>2. rec'.open = rec.open /\ rec'.tag = rec.tag
          /\ rec'.accepted = rec.accepted + len
        BY <2>1 DEF IInv, TypeOK
    <2>3. file_byte_idx = rec.accepted
        BY <2>1 DEF CopyInv
    <2>4. CopyInv'
        BY <2>1, <2>2, <2>3 DEF CopyInv
    <2>5. BytesInv'
        BY <2>1, <2>2 DEF BytesInv, OnCard, CompleteBytes, FullBlocks
    <2> QED BY <2>1, <2>4, <2>5, FilesFrame
<1> QED BY <1>1, <1>2, <1>3

(* fs_close writes the rest of the recording, then its startblock in front   *)
(* of it, then the pointer to it.                                            *)
LEMMA DrainData ==
    ASSUME IInv, DriverInv, DataInv, ClosePartial \/ CloseWhole \/ CloseTooLong
    PROVE  DataInv'
<1>1. /\ pc = "close_drain" /\ rec.open /\ ~write_in_progress
      /\ UNCHANGED <<rec, log, block, write_in_progress, file_byte_idx,
                     file_startblock_idx>>
    BY DEF ClosePartial, CloseWhole, CloseTooLong, Drained, Busy, fsVars,
           fileVars, writeVars, IInv, CloseInv
<1>2. /\ file_byte_idx = rec.accepted
      /\ OnCard(file_startblock_idx, rec.tag, CompleteBytes)
      /\ \A p \in CompleteBytes .. file_byte_idx - 1 : Has(block, rec.tag, p)
      /\ FilesOnCard
    BY <1>1 DEF DataInv, CopyInv, BytesInv
<1>3. /\ file_startblock_idx \in Nat /\ file_startblock_idx = ChainEnd
      /\ FullBlocks \in Nat /\ CompleteBytes \in Nat /\ file_byte_idx \in Nat
    <2>1. file_startblock_idx \in Nat /\ file_startblock_idx = ChainEnd
        BY <1>1, ChainEndNat DEF IInv, RecordingInv
    <2>2. file_byte_idx \in Nat
        BY DEF IInv, TypeOK
    <2> QED BY <2>1, <2>2, RecordingBlocks DEF IInv
<1>4. CopyInv'
    BY <1>1, <1>2 DEF ClosePartial, CloseWhole, CloseTooLong, Halt, CopyInv
<1>5. CASE ClosePartial
    <2>1. LastBlock = file_startblock_idx + FullBlocks + 1
        BY <1>5, PartialBlock DEF ClosePartial, IInv
    <2>2. /\ pc' = "close_end" /\ disk' = [disk EXCEPT ![LastBlock] = block]
        BY <1>5, LastInOrder DEF ClosePartial, SdWriteMulti
    <2>3. file_byte_idx <= CompleteBytes + SD_BLOCK_LEN
        BY <1>3, BlockParts, FileSystemAssumption
           DEF CompleteBytes, FullBlocks, Offsets
    <2>4. \A p \in 0 .. file_byte_idx - 1 :
             BlockOf(file_startblock_idx, p) < CAPACITY =>
                Has(disk'[BlockOf(file_startblock_idx, p)], rec.tag, p)
        <3>1. TypeOK
            BY DEF IInv
        <3> QED BY <1>2, <1>3, <2>1, <2>2, <2>3, <3>1, BlockSaved
    <2>5. BytesInv'
        BY <1>1, <2>2, <2>4 DEF BytesInv, OnCard
    <2>6. FilesOnCard'
        <3>1. LastBlock > ChainEnd /\ ChainEnd \in Nat /\ LastBlock \in Nat
            BY <1>3, <2>1
        <3>2. DOMAIN disk = Cards /\ \A b \in Cards : b \in Nat
            BY FileSystemAssumption DEF IInv, TypeOK, Cards
        <3>3. \A b \in Cards : b < ChainEnd => b # LastBlock
            BY <3>1, <3>2
        <3>4. \A b \in Cards : b < ChainEnd => disk'[b] = disk[b]
            BY <2>2, <3>2, <3>3
        <3> QED BY <1>1, <1>2, <3>4, FilesKept DEF IInv
    <2> QED BY <1>4, <2>5, <2>6 DEF DataInv
<1>6. CASE CloseWhole
    <2>1. UNCHANGED disk /\ pc' = "close_end"
        BY <1>6 DEF CloseWhole
    <2>2. CompleteBytes = file_byte_idx
        BY <1>3, <1>6, BlockParts, FileSystemAssumption
           DEF CloseWhole, Partial, BYTES_IN_LAST_BLOCK, CompleteBytes, FullBlocks
    <2>3. BytesInv'
        BY <1>1, <1>2, <2>1, <2>2 DEF BytesInv, OnCard
    <2> QED BY <1>1, <1>2, <1>4, <2>1, <2>3, FilesFrame DEF DataInv
<1>7. CASE CloseTooLong
    <2>1. UNCHANGED disk /\ pc' = "halted"
        BY <1>7 DEF CloseTooLong, Halt
    <2>2. BytesInv'
        BY <2>1 DEF BytesInv
    <2> QED BY <1>1, <1>2, <1>4, <2>1, <2>2, FilesFrame DEF DataInv
<1> QED BY <1>5, <1>6, <1>7

LEMMA CloseStartData ==
    ASSUME IInv, DriverInv, DataInv, CloseStart PROVE DataInv'
<1>1. /\ pc = "close_start" /\ rec.open /\ SdIdle
    BY DEF CloseStart, SdHalt, IInv, CloseInv, DriverInv
<1>2. /\ disk' = [disk EXCEPT ![file_startblock_idx] = block]
      /\ log' = Append(log, ClosedFile) /\ rec' = NoRec
      /\ pc' \in {"close_skip", "idle"}
    BY <1>1 DEF CloseStart, SdHalt, SdWriteBlock, Return
<1>3. file_startblock_idx = ChainEnd /\ ChainEnd \in Nat /\ Len(log) \in Nat
      /\ file_byte_idx \in Nat
    BY <1>1, ChainEndNat DEF IInv, RecordingInv, TypeOK
<1>4. DOMAIN disk = Cards /\ \A b \in Cards : b \in Nat
    BY FileSystemAssumption DEF IInv, TypeOK, Cards
<1>5. \A b \in Cards : b # ChainEnd => disk'[b] = disk[b]
    BY <1>2, <1>3, <1>4
<1>6. log \in Seq(Records)
    BY LogType DEF IInv
<1>7. /\ Len(log') = Len(log) + 1
      /\ \A i \in Files : log'[i] = log[i]
      /\ log'[Len(log) + 1] = ClosedFile
    BY <1>2, <1>6 DEF Files
<1>8. ASSUME NEW i \in Files
      PROVE  OnCard(log[i].start, log[i].tag, log[i].len)'
    <2> SUFFICES ASSUME NEW p \in 0 .. log'[i].len - 1,
                        BlockOf(log'[i].start, p) < CAPACITY
                 PROVE  Has(disk'[BlockOf(log'[i].start, p)], log'[i].tag, p)
        BY DEF OnCard
    <2>1. log'[i] = log[i]
        BY <1>7
    <2>2. p \in 0 .. log[i].len - 1
        BY <2>1
    <2>3. /\ BlockOf(log[i].start, p) \in Nat /\ BlockOf(log[i].start, p) < ChainEnd
        BY <2>2, BytesBelow DEF IInv
    <2>4. disk'[BlockOf(log[i].start, p)] = disk[BlockOf(log[i].start, p)]
        <3>1. BlockOf(log[i].start, p) \in Cards
            BY <2>1, <2>3, FileSystemAssumption DEF Cards
        <3> QED BY <1>3, <1>5, <2>3, <3>1
    <2>5. Has(disk[BlockOf(log[i].start, p)], log[i].tag, p)
        BY <2>1, <2>2 DEF DataInv, FilesOnCard, OnCard
    <2> QED BY <2>1, <2>4, <2>5
<1>9. OnCard(ClosedFile.start, ClosedFile.tag, ClosedFile.len)
    BY <1>1 DEF DataInv, BytesInv, ClosedFile
<1>10. ASSUME NEW p \in 0 .. file_byte_idx - 1,
              BlockOf(file_startblock_idx, p) < CAPACITY
       PROVE  Has(disk'[BlockOf(file_startblock_idx, p)], rec.tag, p)
    <2>1. Has(disk[BlockOf(file_startblock_idx, p)], rec.tag, p)
        BY <1>9, <1>10 DEF OnCard, ClosedFile
    <2>2. /\ BlockOf(file_startblock_idx, p) \in Nat
          /\ BlockOf(file_startblock_idx, p) > file_startblock_idx
        <3>1. p \in Nat /\ p \div SD_BLOCK_LEN \in Nat
            BY <1>3, BlockParts
        <3>2. BlockOf(file_startblock_idx, p)
                 = file_startblock_idx + (p \div SD_BLOCK_LEN + 1)
            BY <3>1, BlockOfByte DEF BlockOf
        <3> QED BY <1>3, <3>1, <3>2
    <2>3. BlockOf(file_startblock_idx, p) \in Cards
        BY <1>10, <2>2, FileSystemAssumption DEF Cards
    <2> QED BY <1>3, <1>5, <2>1, <2>2, <2>3
<1>11. FilesOnCard'
    <2> SUFFICES ASSUME NEW i \in 1 .. Len(log) + 1
                 PROVE  OnCard(log[i].start, log[i].tag, log[i].len)'
        BY <1>7 DEF FilesOnCard, Files
    <2>1. CASE i \in Files
        BY <1>8, <2>1
    <2>2. CASE i = Len(log) + 1
        <3>1. log'[i] = ClosedFile
            BY <1>7, <2>2
        <3> QED BY <1>10, <3>1 DEF OnCard, ClosedFile
    <2> QED BY <1>3, <2>1, <2>2 DEF Files
<1> QED BY <1>2, <1>11, NoRecordingData DEF NoRec

LEMMA CloseData ==
    ASSUME IInv, DriverInv, DataInv, Close PROVE DataInv'
<1>1. CASE CloseEnd
    <2>1. /\ UNCHANGED <<disk, log, rec, write_in_progress, write_buf,
                         write_len, file_byte_idx, file_startblock_idx>>
          /\ pc = "close_end" /\ pc' = "close_start"
        BY <1>1 DEF CloseEnd, fileVars, writeVars
    <2>2. CopyInv' /\ BytesInv'
        BY <2>1 DEF DataInv, CopyInv, BytesInv, OnCard
    <2> QED BY <2>1, <2>2, FilesFrame DEF DataInv
<1>2. CASE CloseSkip
    <2>1. SdIdle /\ pc = "close_skip" /\ rec.open = FALSE
        BY <1>2 DEF CloseSkip, SdHalt, IInv, TypeOK, CloseInv, DriverInv
    <2> DEFINE x == file_prev_skip_startblock_idx
    <2>2. /\ disk' = [disk EXCEPT ![x] = [disk[x] EXCEPT !.skip = file_startblock_idx]]
          /\ log' = log /\ rec' = rec /\ pc' = "idle"
        BY <1>2, <2>1 DEF CloseSkip, SdHalt, SdWriteBlock, Return
    <2>3. disk[x] \in Startblocks /\ x \in Cards
        <3>1. PICK i \in Files : x = log[i].start
            BY <2>1 DEF IInv, CloseInv
        <3> QED BY <3>1, FileStart DEF IInv, CardInv
    <2>4. BytesOf(disk'[x]) = BytesOf(disk[x])
        <3>1. disk'[x] = [disk[x] EXCEPT !.skip = file_startblock_idx]
            BY <2>2, <2>3 DEF IInv, TypeOK, Cards
        <3>2. disk[x].kind = "start" /\ disk'[x].kind = "start"
            BY <2>3, <3>1 DEF Startblocks
        <3> HIDE DEF x
        <3> QED BY <3>2 DEF BytesOf
    <2>5. \A b \in Cards : BytesOf(disk'[b]) = BytesOf(disk[b])
        <3> SUFFICES ASSUME NEW b \in Cards
                     PROVE  BytesOf(disk'[b]) = BytesOf(disk[b])
            OBVIOUS
        <3>1. CASE b # x
            <4>1. disk'[b] = disk[b]
                BY <2>2, <3>1 DEF IInv, TypeOK, Cards
            <4> QED BY <4>1
        <3> QED BY <2>4, <3>1
    <2>6. FilesOnCard'
        BY <2>2, <2>5, FilesKept DEF IInv, DataInv
    <2> QED BY <2>1, <2>2, <2>6, NoRecordingData
<1> QED BY <1>1, <1>2, DrainData, CloseStartData DEF Close

LEMMA DataStep ==
    ASSUME IInv, DriverInv, DataInv, [Next]_vars PROVE DataInv'
<1>1. CASE \/ \E create \in BOOLEAN, seq \in OpenSeqs :
                 (create => seq = 0) /\ FsOpen(create, seq)
           \/ FsOpenRetry \/ Boot
    BY <1>1, OpenData DEF FsOpen, FsOpenRetry, Boot, DataInv
<1>2. ASSUME NEW portable \in BOOLEAN, FsFormat(portable)
      PROVE  DataInv'
    <2>1. rec'.open = FALSE /\ FormatBody(portable)
        BY <1>2 DEF FsFormat, NoRec
    <2> QED BY <2>1, FormatBodyData DEF DataInv
<1>3. CASE Crash
    <2>1. rec'.open = FALSE /\ pc' = "off" /\ UNCHANGED <<disk, log>>
        BY <1>3 DEF Crash, NoRec
    <2> QED BY <2>1, FilesFrame, NoRecordingData DEF DataInv
<1>4. CASE UNCHANGED vars
    <2>1. UNCHANGED <<disk, log, rec, pc, block, write_in_progress, write_buf,
                      write_len, file_byte_idx, file_startblock_idx>>
        BY <1>4 DEF vars, fsVars, fileVars, writeVars
    <2>2. CopyInv' /\ BytesInv'
        BY <2>1 DEF DataInv, CopyInv, BytesInv, OnCard, CompleteBytes, FullBlocks
    <2> QED BY <2>1, <2>2, FilesFrame DEF DataInv
<1> QED
    BY <1>1, <1>2, <1>3, <1>4, QuietData, ScanData, FormatData, UpdateData,
       CloseData
       DEF Next, Call, Step

LEMMA InitDriver == Init => DriverInv
<1> SUFFICES ASSUME Init PROVE DriverInv
    OBVIOUS
<1>1. /\ card.busy = FALSE /\ card.multi = FALSE /\ rec.open = FALSE
      /\ sd_write_in_progress = FALSE /\ pc = "off" /\ ret = "NONE"
      /\ file_byte_len = 0
    BY DEF Init, CardIdle, NoRec
<1> QED BY <1>1 DEF DriverInv, SdProtocol, SdIdle

LEMMA InitData == Init => DataInv
<1> SUFFICES ASSUME Init PROVE DataInv
    OBVIOUS
<1>1. rec.open = FALSE /\ pc = "off" /\ log = <<>>
    BY DEF Init, NoRec
<1> QED BY <1>1 DEF DataInv, CopyInv, BytesInv, FilesOnCard, Files

-----------------------------------------------------------------------------
(* What fs_read hands out *)

(* One step of fs_read takes bytes of one block of the file. *)
LEMMA ReadBlocks ==
    ASSUME TypeOK, file_byte_idx < file_byte_len, NEW j \in 1 .. ToRead
    PROVE  LET p == file_byte_idx + (j - 1)
           IN  /\ p \in 0 .. file_byte_len - 1
               /\ BlockOf(file_startblock_idx, p) = BlockToRead
               /\ BYTES_IN_LAST_BLOCK(p) = BYTES_IN_LAST_BLOCK(file_byte_idx) + j - 1
<1> DEFINE m == SD_BLOCK_LEN
           n == file_byte_idx
           q == n \div m
           r == n % m
           t == ToRead
<1>1. /\ m \in Nat /\ m > 0 /\ n \in Nat /\ want \in Nat
      /\ file_byte_len \in Nat /\ file_startblock_idx \in Int
    BY FileSystemAssumption DEF TypeOK
<1>2. q \in Nat /\ r \in 0 .. m - 1 /\ n = m * q + r
    BY <1>1, BlockParts DEF Offsets
<1>3. t \in Nat /\ t >= 1 /\ r + t <= m /\ j \in 1 .. t /\ n + t <= file_byte_len
    <2>1. ToRead \in 0 .. want /\ BYTES_IN_LAST_BLOCK(file_byte_idx) + ToRead <= SD_BLOCK_LEN
        BY ToReadFits
    <2>2. ToRead <= file_byte_len - file_byte_idx
        <3>1. BYTES_IN_LAST_BLOCK(file_byte_idx) \in Int
            BY <1>1, <1>2 DEF BYTES_IN_LAST_BLOCK
        <3> QED BY <1>1, <3>1 DEF ToRead, MinOf
    <2>3. t \in Nat /\ t >= 1 /\ j \in 1 .. t
        BY <1>1, <2>1
    <2> QED BY <1>1, <2>1, <2>2, <2>3 DEF BYTES_IN_LAST_BLOCK
<1> HIDE DEF m, n, q, r, t
<1>4. ASSUME NEW k \in 0 .. t - 1
      PROVE  /\ n + k \in Nat
             /\ (n + k) \div SD_BLOCK_LEN = q /\ (n + k) % SD_BLOCK_LEN = r + k
    <2>1. n + k \in Nat /\ r + k \in 0 .. m - 1 /\ n + k = m * q + (r + k)
        BY <1>1, <1>2, <1>3
    <2>2. r + k \in Offsets /\ q \in Int /\ n + k = SD_BLOCK_LEN * q + (r + k)
        BY <1>2, <2>1 DEF Offsets, m
    <2> DEFINE a == n + k
               b == r + k
    <2>3. a \in Nat /\ b \in Offsets /\ q \in Int /\ a = SD_BLOCK_LEN * q + b
        BY <2>1, <2>2
    <2> HIDE DEF a, b
    <2>4. a \div SD_BLOCK_LEN = q /\ a % SD_BLOCK_LEN = b
        BY <2>3, BlockDivision
    <2> QED BY <2>1, <2>4 DEF a, b
<1>5. j - 1 \in 0 .. t - 1 /\ t - 1 \in 0 .. t - 1 /\ n + (t - 1) + 1 = n + t
    BY <1>1, <1>3
<1>6. BYTES_TO_BLOCKS(n + (j - 1) + 1) = q + 1
    BY <1>4, <1>5, BlockOfByte
<1>7. BYTES_TO_BLOCKS(n + t) = q + 1
    <2>1. BYTES_TO_BLOCKS(n + (t - 1) + 1) = q + 1
        BY <1>4, <1>5, BlockOfByte
    <2> QED BY <1>5, <2>1
<1>8. BlockOf(file_startblock_idx, n + (j - 1)) = BlockToRead
    BY <1>6, <1>7 DEF BlockOf, BlockToRead, n, t
<1>9. BYTES_IN_LAST_BLOCK(n + (j - 1)) = r + (j - 1)
    BY <1>4, <1>5 DEF BYTES_IN_LAST_BLOCK
<1>10. BYTES_IN_LAST_BLOCK(n) + j - 1 = r + (j - 1)
    BY <1>1, <1>2, <1>3 DEF BYTES_IN_LAST_BLOCK, r, m
<1>11. n + (j - 1) \in 0 .. file_byte_len - 1
    BY <1>1, <1>3
<1> QED BY <1>8, <1>9, <1>10, <1>11 DEF n

(* Where the elements of two sequences stand when one follows the other. *)
LEMMA Appended ==
    ASSUME NEW s \in Seq(Byte), NEW c \in Seq(Byte)
    PROVE  /\ Len(s \o c) = Len(s) + Len(c)
           /\ \A k \in 1 .. Len(s) : (s \o c)[k] = s[k]
           /\ \A k \in 1 .. Len(c) : (s \o c)[Len(s) + k] = c[k]
<1>1. Len(s) \in Nat /\ Len(c) \in Nat /\ Len(s \o c) = Len(s) + Len(c)
    OBVIOUS
<1>2. ASSUME NEW k \in 1 .. Len(s) PROVE (s \o c)[k] = s[k]
    BY <1>1
<1>3. ASSUME NEW k \in 1 .. Len(c) PROVE (s \o c)[Len(s) + k] = c[k]
    BY <1>1
<1> QED BY <1>1, <1>2, <1>3

LEMMA ReadStepReading ==
    ASSUME IInv, DriverInv, FilesOnCard, ReadingInv, ReadStep
    PROVE  ReadingInv'
<1>1. /\ pc = "read" /\ pc' = "read" /\ file_startblock_idx > 0
      /\ file_byte_idx < file_byte_len
      /\ UNCHANGED <<disk, log, rec, file_startblock_idx, file_byte_len>>
      /\ block_idx' = BlockToRead /\ out' = out \o Copied(block')
      /\ file_byte_idx' = file_byte_idx + ToRead
    BY DEF ReadStep, IInv, CloseInv
<1>2. Reading /\ Reading'
    BY <1>1 DEF Reading, IInv, CloseInv
<1>3. PICK i \in Files : OpenFile(i)
    BY <1>2 DEF ReadingInv
<1>4. TypeOK /\ TypeOK'
    BY ReadType DEF IInv
<1>5. ToRead \in Nat
    <2>1. want \in Nat /\ ToRead \in 0 .. want
        BY <1>1, <1>4, ToReadFits DEF TypeOK
    <2> QED BY <2>1
<1>6. ASSUME rd_ok'
      PROVE  /\ rd_ok /\ block_idx' \in Cards /\ block' = disk[block_idx']
    <2>1. \/ BlockToRead = block_idx /\ UNCHANGED <<block, rd_ok>>
          \/ BlockToRead < CAPACITY /\ block' = disk[BlockToRead] /\ UNCHANGED rd_ok
        BY <1>6 DEF ReadStep
    <2>2. rd_ok
        BY <1>6, <2>1
    <2>3. BlockToRead \in Nat
        <3> DEFINE t == file_byte_idx + ToRead
        <3>1. t \in Nat /\ file_startblock_idx \in Nat
            BY <1>1, <1>4, <1>5 DEF TypeOK
        <3> HIDE DEF t
        <3>2. BYTES_TO_BLOCKS(t) \in Nat
            BY <3>1, BlocksNat
        <3> QED BY <3>1, <3>2 DEF BlockToRead, t
    <2>4. BlockToRead < CAPACITY => BlockToRead \in Cards
        BY <2>3, FileSystemAssumption DEF Cards
    <2> QED BY <1>1, <1>3, <2>1, <2>2, <2>4 DEF OpenFile
<1>7. ASSUME rd_ok', NEW j \in 1 .. ToRead
      PROVE  Copied(block')[j] = <<log[i].tag, file_byte_idx + (j - 1)>>
    <2> DEFINE p == file_byte_idx + (j - 1)
    <2>1. /\ p \in 0 .. file_byte_len - 1
          /\ BlockOf(file_startblock_idx, p) = BlockToRead
          /\ BYTES_IN_LAST_BLOCK(p) = BYTES_IN_LAST_BLOCK(file_byte_idx) + j - 1
        BY <1>1, <1>4, ReadBlocks
    <2>2. log[i].start = file_startblock_idx /\ log[i].len = file_byte_len
        BY <1>3 DEF OpenFile
    <2>3. BlockToRead < CAPACITY /\ block' = disk[BlockToRead]
        BY <1>1, <1>6, <1>7, FileSystemAssumption DEF Cards
    <2> HIDE DEF p
    <2>4. Has(block', log[i].tag, p)
        BY <2>1, <2>2, <2>3 DEF FilesOnCard, OnCard
    <2>5. Copied(block')[j]
             = BytesOf(block')[BYTES_IN_LAST_BLOCK(file_byte_idx) + j - 1]
        BY DEF Copied
    <2>6. Copied(block')[j] = <<log[i].tag, p>>
        BY <2>1, <2>4, <2>5 DEF Has
    <2> QED BY <2>6 DEF p
<1>8. out \in Seq(Byte) /\ out' \in Seq(Byte)
    BY <1>4 DEF TypeOK
<1>9. /\ Len(out') = Len(out) + ToRead
      /\ \A k \in 1 .. Len(out) : out'[k] = out[k]
      /\ \A k \in 1 .. ToRead : out'[Len(out) + k] = Copied(block')[k]
    <2> DEFINE c == Copied(block')
    <2>1. c \in Seq(Byte) /\ Len(c) = ToRead
        <3>1. \A k \in 1 .. ToRead : c[k] \in Byte
            <4>1. block' \in Blocks
                BY <1>4 DEF TypeOK
            <4>2. BytesOf(block') \in [Offsets -> Byte]
                BY <4>1, BytesOfBlock
            <4>3. BYTES_IN_LAST_BLOCK(file_byte_idx) \in Offsets
                BY <1>4, OffsetInBlock DEF TypeOK
            <4>4. \A k \in 1 .. ToRead :
                     BYTES_IN_LAST_BLOCK(file_byte_idx) + k - 1 \in Offsets
                BY <1>1, <1>4, <1>5, <4>3, ToReadFits, FileSystemAssumption DEF Offsets
            <4> QED BY <4>2, <4>4 DEF Copied
        <3> QED BY <1>5, <3>1 DEF Copied
    <2>2. out' = out \o c
        BY <1>1
    <2> HIDE DEF c
    <2> QED BY <1>8, <2>1, <2>2, Appended DEF c
<1>10. ASSUME rd_ok', NEW k \in DOMAIN out'
       PROVE  out'[k] = <<log[i].tag, file_byte_idx' - Len(out') + k - 1>>
    <2>1. /\ k \in 1 .. Len(out') /\ Len(out) \in Nat /\ file_byte_idx \in Nat
          /\ Len(out') = Len(out) + ToRead
        BY <1>4, <1>8, <1>9 DEF TypeOK
    <2>2. CASE k <= Len(out)
        <3>1. k \in DOMAIN out
            BY <1>8, <2>1, <2>2
        <3>2. out[k] = <<log[i].tag, file_byte_idx - Len(out) + k - 1>>
            BY <1>3, <1>6, <1>10, <3>1 DEF OpenFile
        <3>3. file_byte_idx - Len(out) + k - 1 = file_byte_idx' - Len(out') + k - 1
            BY <1>1, <1>5, <2>1
        <3>4. out'[k] = out[k]
            BY <1>9, <2>1, <2>2
        <3> QED BY <3>2, <3>3, <3>4
    <2>3. CASE ~(k <= Len(out))
        <3> DEFINE j == k - Len(out)
        <3>1. j \in 1 .. ToRead /\ Len(out) + j = k
            BY <1>5, <2>1, <2>3
        <3>2. out'[Len(out) + j] = Copied(block')[j]
            BY <1>9, <3>1
        <3>3. Copied(block')[j] = <<log[i].tag, file_byte_idx + (j - 1)>>
            BY <1>7, <1>10, <3>1
        <3>4. file_byte_idx + (j - 1) = file_byte_idx' - Len(out') + k - 1
            BY <1>1, <1>5, <2>1
        <3> HIDE DEF j
        <3> QED BY <3>1, <3>2, <3>3, <3>4
    <2> QED BY <2>2, <2>3
<1>11. OpenFile(i)'
    BY <1>1, <1>3, <1>6, <1>10 DEF OpenFile, Cards
<1> QED BY <1>1, <1>2, <1>11 DEF ReadingInv, Files

(* Nothing is open to be read and nothing was read. *)
LEMMA NothingOpen ==
    ASSUME out' = <<>>, ~Reading',
           pc' \in {"scan", "fmt_super", "fmt_ones"} => file_startblock_idx' = -1
    PROVE  ReadingInv'
BY DEF ReadingInv

(* A file is open and nothing of it was read yet. *)
LEMMA NothingRead ==
    ASSUME NEW i \in Files, log' = log, out' = <<>>, pc' \in {"idle", "read"},
           log[i].start = file_startblock_idx', log[i].len = file_byte_len',
           rd_ok' => block_idx' \in Cards /\ block' = disk'[block_idx']
    PROVE  ReadingInv'
<1>1. i \in Files'
    BY DEF Files
<1>2. DOMAIN out' = {}
    OBVIOUS
<1>3. OpenFile(i)'
    BY <1>2 DEF OpenFile, Cards
<1> QED BY <1>1, <1>3 DEF ReadingInv

(* Outside of reading nothing was read. *)
LEMMA OutEmpty ==
    ASSUME ReadingInv, rec.open \/ pc \notin {"idle", "read"} PROVE out = <<>>
BY DEF ReadingInv, Reading

LEMMA OpenReading ==
    ASSUME NEW create, NEW seq, OpenSuperblock(create, seq) PROVE ReadingInv'
<1>1. out' = <<>> /\ file_startblock_idx' = -1
    BY DEF OpenSuperblock, NoRead, FsInit
<1>2. ~Reading'
    BY <1>1 DEF Reading
<1> QED BY <1>1, <1>2, NothingOpen

LEMMA FormatBodyReading ==
    ASSUME NEW portable, FormatBody(portable) PROVE ReadingInv'
<1>1. out' = <<>> /\ file_startblock_idx' = -1
    BY DEF FormatBody, NoRead, FsInit
<1>2. ~Reading'
    BY <1>1 DEF Reading
<1> QED BY <1>1, <1>2, NothingOpen

LEMMA FormatReading ==
    ASSUME ReadingInv, Format PROVE ReadingInv'
<1>1. CASE FormatRead
    BY <1>1, FormatBodyReading DEF FormatRead
<1>2. CASE FormatSuper \/ FormatOnes
    <2>1. pc \in {"fmt_super", "fmt_ones"}
        BY <1>2 DEF FormatSuper, FormatOnes
    <2>2. out = <<>> /\ file_startblock_idx = -1
        BY <2>1, OutEmpty DEF ReadingInv
    <2>3. UNCHANGED <<out, file_startblock_idx>>
        BY <1>2 DEF FormatSuper, FormatOnes, SdHalt, fsVars, fileVars, readVars
    <2>4. ~Reading'
        BY <2>2, <2>3 DEF Reading
    <2> QED BY <2>2, <2>3, <2>4, NothingOpen
<1> QED BY <1>1, <1>2 DEF Format

LEMMA ScanReading ==
    ASSUME IInv, ReadingInv, Scan PROVE ReadingInv'
<1>1. /\ pc = "scan" /\ log' = log /\ disk' = disk /\ out' = out
    BY DEF Scan, ScanRequested, ScanSkip, ScanNext, ScanCreate, ScanLast,
           ScanMissing, ScanFull, ReadCandidate, Scanning, ScanUnchanged, readVars
<1>2. out = <<>> /\ file_startblock_idx = -1
    BY <1>1, OutEmpty DEF ReadingInv
<1>3. CASE ScanSkip \/ ScanNext \/ ScanMissing \/ ScanFull
    <2>1. file_startblock_idx' = file_startblock_idx
        BY <1>3 DEF ScanSkip, ScanNext, ScanMissing, ScanFull, fileVars
    <2>2. ~Reading'
        BY <1>2, <2>1 DEF Reading
    <2> QED BY <1>1, <1>2, <2>1, <2>2, NothingOpen
<1>4. CASE ScanCreate
    <2>1. rec'.open /\ pc' = "idle"
        BY <1>4 DEF ScanCreate, Return
    <2>2. ~Reading'
        BY <2>1 DEF Reading
    <2> QED BY <1>1, <1>2, <2>1, <2>2, NothingOpen
<1>5. ASSUME ScanRequested \/ ScanLast
      PROVE  /\ Scanning /\ pc' = "idle"
             /\ block_idx' \in Cards /\ block' = disk'[block_idx']
    <2>1. /\ Scanning /\ pc' = "idle"
          /\ block_idx' = block_idx + 1 /\ block' = Candidate
        BY <1>5 DEF ScanRequested, ScanLast, ReadCandidate, Return
    <2>2. block_idx + 1 \in Cards
        BY <2>1, ScanCandidate DEF IInv
    <2> QED BY <1>1, <2>1, <2>2 DEF Candidate
<1>6. CASE ScanRequested
    <2>1. /\ Matches /\ file_startblock_idx' = block_idx + 1
          /\ file_byte_len' = Candidate.byte_len
        BY <1>6 DEF ScanRequested
    <2>2. /\ g_fs_file_seq \in Files
          /\ log[g_fs_file_seq].start = file_startblock_idx'
          /\ log[g_fs_file_seq].len = file_byte_len'
        BY <1>5, <1>6, <2>1, ScanLook DEF IInv
    <2> QED BY <1>1, <1>2, <1>5, <1>6, <2>2, NothingRead
<1>7. CASE ScanLast
    <2>1. /\ prev.idx >= 0 /\ file_startblock_idx' = prev.idx
          /\ file_byte_len' = prev.len
        BY <1>7 DEF ScanLast
    <2> DEFINE s == g_fs_file_seq - 1
    <2>2. /\ s \in Files
          /\ prev = [idx |-> log[s].start, len |-> log[s].len, rtc |-> log[s].rtc]
        BY <1>1, <2>1 DEF IInv, ScanInv, PrevFile
    <2>3. log[s].start = file_startblock_idx' /\ log[s].len = file_byte_len'
        BY <2>1, <2>2
    <2> HIDE DEF s
    <2> QED BY <1>1, <1>2, <1>5, <1>7, <2>2, <2>3, NothingRead
<1> QED BY <1>3, <1>4, <1>6, <1>7 DEF Scan

(* The calls on a file that is open: opening it again, fs_seek and fs_read. *)
LEMMA FileCallReading ==
    ASSUME IInv, DriverInv, ReadingInv,
           \/ FsOpenQuick
           \/ \E byte \in 0 .. MAX_FILE_LEN : FsSeek(byte)
           \/ \E len \in ReadLens : FsRead(len)
    PROVE  ReadingInv'
<1>1. /\ pc = "idle" /\ file_startblock_idx > 0
      /\ pc' \in {"idle", "read"} /\ out' = <<>>
      /\ UNCHANGED <<disk, log, file_startblock_idx, file_byte_len, block,
                     block_idx, rd_ok>>
    BY DEF FsOpenQuick, FsSeek, FsRead, AlreadyOpen, MayOpen, Readable, Return,
           fsVars, fileVars
<1>2. ~rec.open
    <2>1. CASE FsOpenQuick
        BY <2>1 DEF FsOpenQuick, AlreadyOpen, DriverInv
    <2> QED BY <2>1 DEF FsSeek, FsRead, Readable
<1>3. PICK i \in Files : OpenFile(i)
    BY <1>1, <1>2 DEF ReadingInv, Reading
<1> QED BY <1>1, <1>3, NothingRead DEF OpenFile

LEMMA ReadDoneReading ==
    ASSUME IInv, ReadingInv, ReadDone PROVE ReadingInv'
<1>1. /\ pc = "read" /\ pc' = "idle"
      /\ UNCHANGED <<disk, log, rec, file_startblock_idx, file_byte_len,
                     file_byte_idx, block, block_idx, out, rd_ok>>
    BY DEF ReadDone, Return, fsVars, fileVars
<1>2. Reading /\ Reading'
    BY <1>1 DEF Reading, IInv, CloseInv
<1>3. PICK i \in Files : OpenFile(i)
    BY <1>2 DEF ReadingInv
<1>4. OpenFile(i)'
    BY <1>1, <1>3 DEF OpenFile, Cards
<1> QED BY <1>1, <1>2, <1>3, <1>4 DEF ReadingInv, Files

(* While a recording is open, nothing is read. *)
LEMMA RecordReading ==
    ASSUME IInv, ReadingInv,
           \/ FsClose \/ FsUpdate \/ Close
           \/ \E len \in WriteLens : FsWrite(len)
           \/ \E now \in Times : FsRtcSet(now)
    PROVE  ReadingInv'
<1>1. CASE CloseSkip \/ CloseStart
    <2>1. pc \in {"close_start", "close_skip"} /\ out' = out
        BY <1>1 DEF CloseSkip, CloseStart, SdHalt, readVars
    <2>2. \/ pc' \in {"close_skip", "halted"}
          \/ pc' = "idle" /\ file_startblock_idx' = -1
        BY <1>1 DEF CloseSkip, CloseStart, SdHalt, Halt, Return, FsInit
    <2>3. out = <<>>
        BY <2>1, OutEmpty
    <2>4. ~Reading'
        BY <2>2 DEF Reading
    <2> QED BY <2>1, <2>2, <2>3, <2>4, NothingOpen
<1>2. CASE \/ FsClose \/ FsUpdate
           \/ ClosePartial \/ CloseWhole \/ CloseTooLong \/ CloseEnd
           \/ \E len \in WriteLens : FsWrite(len)
           \/ \E now \in Times : FsRtcSet(now)
    <2>1. rec.open /\ pc \in {"idle", "close_drain", "close_end"}
        BY <1>2
           DEF FsClose, FsUpdate, UpdatePoll, UpdateCopy, UpdateBlock, UpdateDrop,
               CopyBytes, Updating, ClosePartial, CloseWhole, CloseTooLong,
               CloseEnd, Drained, FsWrite, FsRtcSet, IInv, CloseInv
    <2>2. out = <<>>
        BY <2>1, OutEmpty
    <2>3. out' \in {out, <<>>}
        BY <1>2
           DEF FsClose, FsUpdate, UpdatePoll, UpdateCopy, UpdateBlock, UpdateDrop,
               CopyBytes, ClosePartial, CloseWhole, CloseTooLong, CloseEnd,
               FsWrite, FsRtcSet, NoRead, readVars
    <2>4. rec'.open
        <3>1. CASE \E len \in WriteLens : FsWrite(len)
            BY <2>1, <3>1 DEF FsWrite, IInv, TypeOK
        <3>2. CASE ~\E len \in WriteLens : FsWrite(len)
            <4>1. rec' = rec
                BY <1>2, <3>2
                   DEF FsClose, FsUpdate, UpdatePoll, UpdateCopy, UpdateBlock,
                       UpdateDrop, CopyBytes, ClosePartial, CloseWhole,
                       CloseTooLong, CloseEnd, FsRtcSet
            <4> QED BY <2>1, <4>1
        <3> QED BY <3>1, <3>2
    <2>5. pc' \in {"idle", "close_drain", "close_end", "close_start", "halted"}
        BY <1>2, <2>1
           DEF FsClose, FsUpdate, UpdatePoll, UpdateCopy, UpdateBlock, UpdateDrop,
               CopyBytes, ClosePartial, CloseWhole, CloseTooLong, CloseEnd,
               FsWrite, FsRtcSet, Halt
    <2>6. ~Reading'
        BY <2>4 DEF Reading
    <2> QED BY <2>2, <2>3, <2>5, <2>6, NothingOpen
<1> QED BY <1>1, <1>2 DEF Close

LEMMA ReadingStep ==
    ASSUME IInv, DriverInv, FilesOnCard, ReadingInv, [Next]_vars
    PROVE  ReadingInv'
<1>1. CASE \/ \E create \in BOOLEAN, seq \in OpenSeqs :
                 (create => seq = 0) /\ FsOpen(create, seq)
           \/ FsOpenRetry \/ Boot
    BY <1>1, OpenReading DEF FsOpen, FsOpenRetry, Boot
<1>2. CASE \E portable \in BOOLEAN : FsFormat(portable)
    BY <1>2, FormatBodyReading DEF FsFormat
<1>3. CASE Crash
    <2>1. out' = <<>> /\ pc' = "off"
        BY <1>3 DEF Crash, NoRead
    <2>2. ~Reading'
        BY <2>1 DEF Reading
    <2> QED BY <2>1, <2>2, NothingOpen
<1>4. CASE UNCHANGED vars
    BY <1>4 DEF vars, fsVars, fileVars, readVars, ReadingInv, Reading, OpenFile,
                Files, Cards
<1> QED
    BY <1>1, <1>2, <1>3, <1>4, FormatReading, ScanReading, FileCallReading,
       ReadStepReading, ReadDoneReading, RecordReading
       DEF Next, Call, Step

LEMMA InitReading == Init => ReadingInv
BY DEF Init, ReadingInv, Reading

-----------------------------------------------------------------------------
(* The theorems *)

LEMMA DataInvariant == Spec => [](IInv /\ DriverInv /\ DataInv /\ ReadingInv)
<1> DEFINE Inv == IInv /\ DriverInv /\ DataInv /\ ReadingInv
<1>1. Init => Inv
    BY InitInv, InitDriver, InitData, InitReading
<1>2. Inv /\ [Next]_vars => Inv'
    BY StepInv, DriverStep, DataStep, ReadingStep DEF DataInv
<1> QED BY <1>1, <1>2, PTL DEF Spec

(* The order in which the callers make their calls never trips the halts of *)
(* the SD driver (fw/drivers/sd.c): no block write starts inside another,   *)
(* and the blocks of a recording go to the card one behind the other.       *)
THEOREM WritesInOrder == Spec => []SdProtocol
<1>1. DriverInv => SdProtocol
    BY DEF DriverInv
<1> QED BY <1>1, DataInvariant, PTL

(* The card holds every byte that the recording of a closed file wrote, in  *)
(* order, as far as the card reaches: fs_update fills the blocks, fs_close  *)
(* adds the partial last one, and no later recording, format cut short or   *)
(* skip pointer touches them.                                               *)
THEOREM BytesStayOnDisk == Spec => []ContentIntact
<1>1. ASSUME IInv, FilesOnCard PROVE ContentIntact
    <2>1. DOMAIN log = Files
        BY LogType DEF IInv, Files
    <2>2. ASSUME NEW i \in Files, NEW p \in 0 .. log[i].len - 1,
                 BlockOf(log[i].start, p) < CAPACITY
          PROVE  Has(disk[BlockOf(log[i].start, p)], log[i].tag, p)
        BY <1>1, <2>2 DEF FilesOnCard, OnCard
    <2> QED BY <2>1, <2>2 DEF ContentIntact, BlockOf, Has
<1>2. IInv /\ DataInv => ContentIntact
    BY <1>1 DEF DataInv
<1> QED BY <1>2, DataInvariant, PTL

(* fs_read hands out the bytes the recording wrote at that place of the     *)
(* file that is open, whatever block the buffer held when the read began.   *)
THEOREM ReadsReturnFile == Spec => []ReadBack
<1>1. ASSUME IInv, ReadingInv, rd_ok, out # <<>>
      PROVE  \E i \in DOMAIN log :
                /\ log[i].start = file_startblock_idx
                /\ \A k \in DOMAIN out :
                     out[k] = <<log[i].tag, file_byte_idx - Len(out) + k - 1>>
    <2>1. DOMAIN log = Files
        BY <1>1, LogType DEF IInv, Files
    <2>2. PICK i \in Files : OpenFile(i)
        BY <1>1 DEF ReadingInv
    <2> QED BY <1>1, <2>1, <2>2 DEF OpenFile
<1>2. IInv /\ ReadingInv => ReadBack
    BY <1>1 DEF ReadBack
<1> QED BY <1>2, DataInvariant, PTL

-----------------------------------------------------------------------------
(* The trace store: the traces of the log, and what a new recording needs *)

Saved(i) == [len |-> log[i].len, rtc |-> log[i].rtc]

(* the traces from file i on *)
SavedFrom(i) == [k \in 1 .. Len(log) + 1 - i |-> Saved(i + k - 1)]
Traces == [k \in 1 .. Len(log) |-> Saved(k)]

(* A file is created with no time: fs_init has cleared it.                  *)
NoTimeYet == pc \in {"scan", "fmt_super", "fmt_ones"} => file_rtc = 0

(* The startblock is written when every byte has been copied.               *)
AllCopied == pc = "close_start" => ~write_in_progress

-----------------------------------------------------------------------------
(* The function that reads the traces off the card *)

(* One file at block b, if it is file s, and what follows it *)
From(f, b, s) ==
    IF b < CAPACITY /\ IsFile(disk[b], FmtIter, s)
    THEN <<[len |-> disk[b].byte_len, rtc |-> disk[b].rtc]>>
           \o f[<<b + 1 + BYTES_TO_BLOCKS(disk[b].byte_len), s + 1>>]
    ELSE <<>>

(* f reads the files from the blocks of S on. *)
ReadsFrom(f, S) == f = [x \in S \X Nat |-> From(f, x[1], x[2])]

(* the last n blocks of the card, and what lies beyond *)
LastBlocks(n) == {b \in Nat : b >= CAPACITY - n}

(* A set of naturals that is not empty has a least element. *)
LEMMA Smallest ==
    ASSUME NEW T \in SUBSET Nat, T # {}
    PROVE  \E x \in T : \A y \in T : x <= y
<1> DEFINE R == OpToRel(<, Nat)
<1>1. IsWellFoundedOn(R, Nat)
    BY NatLessThanWellFounded
<1>2. \E x \in T : \A y \in T : <<y, x>> \notin R
    <2> HIDE DEF R
    <2> QED BY <1>1, WFMin
<1>3. PICK x \in T : \A y \in T : <<y, x>> \notin R
    BY <1>2
<1>4. \A y \in T : ~(y < x)
    BY <1>3 DEF OpToRel
<1> QED BY <1>4

(* A file leads to a block behind it. *)
LEMMA NextFile ==
    ASSUME TypeOK, NEW b \in Nat, NEW s \in Nat,
           b < CAPACITY, IsFile(disk[b], FmtIter, s)
    PROVE  /\ b + 1 + BYTES_TO_BLOCKS(disk[b].byte_len) \in Nat
           /\ b + 1 + BYTES_TO_BLOCKS(disk[b].byte_len) > b
<1>1. b \in Cards
    BY FileSystemAssumption DEF Cards
<1>2. disk[b] \in Blocks
    BY <1>1 DEF TypeOK, Cards
<1>3. disk[b].byte_len \in Nat
    BY <1>2, KindOfBlock DEF IsFile, Startblocks
<1> QED BY <1>3, BlocksNat

(* What is read from block b on depends on the blocks behind b alone. *)
LEMMA FromBehind ==
    ASSUME TypeOK, NEW b \in Nat, NEW s \in Nat, NEW f, NEW g,
           \A c, t \in Nat : c > b => f[<<c, t>>] = g[<<c, t>>]
    PROVE  From(f, b, s) = From(g, b, s)
<1>1. CASE b < CAPACITY /\ IsFile(disk[b], FmtIter, s)
    <2> DEFINE c == b + 1 + BYTES_TO_BLOCKS(disk[b].byte_len)
    <2>1. c \in Nat /\ c > b /\ s + 1 \in Nat
        BY <1>1, NextFile
    <2> HIDE DEF c
    <2>2. f[<<c, s + 1>>] = g[<<c, s + 1>>]
        BY <2>1
    <2> QED BY <1>1, <2>2 DEF From, c
<1>2. CASE ~(b < CAPACITY /\ IsFile(disk[b], FmtIter, s))
    BY <1>2 DEF From
<1> QED BY <1>1, <1>2

(* A function that reads the files from the last n blocks on extends to one *)
(* block more.                                                              *)
LEMMA OneBlockMore ==
    ASSUME TypeOK, NEW n \in Nat, NEW f, ReadsFrom(f, LastBlocks(n))
    PROVE  \E g : ReadsFrom(g, LastBlocks(n + 1))
<1> DEFINE g == [x \in LastBlocks(n + 1) \X Nat |-> From(f, x[1], x[2])]
<1>1. \A b \in LastBlocks(n), s \in Nat : g[<<b, s>>] = f[<<b, s>>]
    <2>1. TAKE b \in LastBlocks(n), s \in Nat
    <2>2. b \in LastBlocks(n + 1)
        BY <2>1, FileSystemAssumption DEF LastBlocks
    <2>3. f[<<b, s>>] = From(f, b, s)
        BY <2>1 DEF ReadsFrom
    <2> QED BY <2>1, <2>2, <2>3
<1>2. ASSUME NEW b \in LastBlocks(n + 1), NEW s \in Nat
      PROVE  From(f, b, s) = From(g, b, s)
    <2>1. b \in Nat /\ b >= CAPACITY - (n + 1)
        BY DEF LastBlocks
    <2>2. \A c \in Nat : c > b => c \in LastBlocks(n)
        BY <2>1, FileSystemAssumption DEF LastBlocks
    <2> HIDE DEF g
    <2>3. \A c, t \in Nat : c > b => f[<<c, t>>] = g[<<c, t>>]
        BY <1>1, <2>2
    <2> QED BY <2>1, <2>3, FromBehind
<1>3. g = [x \in LastBlocks(n + 1) \X Nat |-> From(g, x[1], x[2])]
    <2> DEFINE h == [x \in LastBlocks(n + 1) \X Nat |-> From(g, x[1], x[2])]
    <2>1. \A b \in LastBlocks(n + 1), s \in Nat : From(f, b, s) = From(g, b, s)
        BY <1>2
    <2> HIDE DEF g
    <2> SUFFICES [x \in LastBlocks(n + 1) \X Nat |-> From(f, x[1], x[2])] = h
        BY DEF g
    <2> QED BY <2>1
<1> HIDE DEF g
<1>4. ReadsFrom(g, LastBlocks(n + 1))
    BY <1>3 DEF ReadsFrom
<1> QED BY <1>4

(* There is a function that reads the files from every block on. *)
LEMMA ReaderExists ==
    ASSUME TypeOK
    PROVE  \E f : ReadsFrom(f, Nat)
<1> DEFINE T == {n \in Nat : ~ \E f : ReadsFrom(f, LastBlocks(n))}
<1>1. 0 \notin T
    <2> DEFINE f == [x \in LastBlocks(0) \X Nat |-> <<>>]
    <2>1. \A b \in LastBlocks(0) : ~(b < CAPACITY)
        BY FileSystemAssumption DEF LastBlocks
    <2>2. \A b \in LastBlocks(0), s \in Nat : From(f, b, s) = <<>>
        BY <2>1 DEF From
    <2>3. ReadsFrom(f, LastBlocks(0))
        <3> DEFINE h == [x \in LastBlocks(0) \X Nat |-> From(f, x[1], x[2])]
        <3> HIDE DEF f
        <3> SUFFICES [x \in LastBlocks(0) \X Nat |-> <<>>] = h
            BY DEF f, ReadsFrom
        <3> QED BY <2>2
    <2> QED BY <2>3
<1>2. T = {}
    <2> SUFFICES ASSUME T # {} PROVE FALSE
        OBVIOUS
    <2>1. PICK n \in T : \A m \in T : n <= m
        BY Smallest
    <2>2. n \in Nat \ {0} /\ n - 1 \in Nat /\ n - 1 \notin T
        BY <1>1, <2>1
    <2>3. PICK f : ReadsFrom(f, LastBlocks(n - 1))
        BY <2>2
    <2>4. (n - 1) + 1 = n
        BY <2>2
    <2>5. \E g : ReadsFrom(g, LastBlocks(n))
        BY <2>2, <2>3, <2>4, OneBlockMore
    <2> QED BY <2>1, <2>5
<1>3. LastBlocks(CAPACITY) = Nat
    BY FileSystemAssumption DEF LastBlocks
<1> QED BY <1>2, <1>3, FileSystemAssumption

(* The traces on the card are what such a function reads from block 1 on. *)
LEMMA TracesRead ==
    ASSUME TypeOK
    PROVE  \E f : ReadsFrom(f, Nat) /\ TracesOnDisk = f[<<1, 1>>]
<1> DEFINE P(f) == f = [x \in Nat \X Nat |-> From(f, x[1], x[2])]
           h == CHOOSE f : P(f)
<1>1. \E f : P(f)
    BY ReaderExists DEF ReadsFrom
<1>2. P(h)
    <2> HIDE DEF P
    <2> QED BY <1>1
<1>3. TracesOnDisk = h[<<1, 1>>]
    BY DEF TracesOnDisk, From
<1> HIDE DEF h
<1> QED BY <1>2, <1>3 DEF ReadsFrom

-----------------------------------------------------------------------------
(* What is read are the files of the log. *)

(* One more element in front of a function on 1 .. n *)
LEMMA Prepend ==
    ASSUME NEW n \in Nat, NEW S, NEW e \in S, NEW t \in [1 .. n -> S],
           NEW r \in [1 .. n + 1 -> S],
           r[1] = e, \A k \in 1 .. n : r[k + 1] = t[k]
    PROVE  <<e>> \o t = r
<1>1. t \in Seq(S) /\ Len(t) = n /\ r \in Seq(S) /\ Len(r) = n + 1
    OBVIOUS
<1>2. <<e>> \o t \in Seq(S) /\ Len(<<e>> \o t) = n + 1
    BY <1>1
<1>3. ASSUME NEW k \in 1 .. n + 1 PROVE (<<e>> \o t)[k] = r[k]
    <2>1. CASE k = 1
        BY <1>1, <2>1
    <2>2. CASE k # 1
        <3>1. k - 1 \in 1 .. n /\ (k - 1) + 1 = k
            BY <2>2
        <3>2. (<<e>> \o t)[k] = t[k - 1]
            BY <1>1, <3>1
        <3> QED BY <3>1, <3>2
    <2> QED BY <2>1, <2>2
<1> QED BY <1>1, <1>2, <1>3

(* and one more behind it *)
LEMMA OneMore ==
    ASSUME NEW n \in Nat, NEW S, NEW e \in S, NEW t \in [1 .. n -> S],
           NEW r \in [1 .. n + 1 -> S],
           r[n + 1] = e, \A k \in 1 .. n : r[k] = t[k]
    PROVE  r = t \o <<e>>
<1>1. t \in Seq(S) /\ Len(t) = n /\ r \in Seq(S) /\ Len(r) = n + 1
    OBVIOUS
<1>2. t \o <<e>> \in Seq(S) /\ Len(t \o <<e>>) = n + 1
    BY <1>1
<1>3. ASSUME NEW k \in 1 .. n + 1 PROVE (t \o <<e>>)[k] = r[k]
    BY <1>1
<1> QED BY <1>1, <1>2, <1>3

(* Behind the last file nothing is read, and each file in front is itself   *)
(* followed by what is read behind it.                                      *)
LEMMA LogRead ==
    ASSUME TypeOK, CardInv, NEW f, ReadsFrom(f, Nat)
    PROVE  f[<<1, 1>>] = Traces
<1>0. Len(log) \in Nat
    BY LogType
<1> DEFINE n == Len(log)
           T == {d \in 0 .. n : f[<<StartOf(n + 1 - d), n + 1 - d>>]
                                   # SavedFrom(n + 1 - d)}
<1>1. \A b, s \in Nat : f[<<b, s>>] = From(f, b, s)
    BY DEF ReadsFrom
<1>2. 0 \notin T
    <2>1. ChainEnd \in Nat /\ ChainEnd = StartOf(n + 1)
        BY ChainEndNat DEF ChainEnd
    <2>2. ~(ChainEnd < CAPACITY /\ IsFile(disk[ChainEnd], FmtIter, n + 1))
        BY NothingStale DEF NoStaleFile
    <2>3. f[<<ChainEnd, n + 1>>] = <<>>
        <3>1. f[<<ChainEnd, n + 1>>] = From(f, ChainEnd, n + 1)
            BY <1>0, <1>1, <2>1
        <3> QED BY <2>2, <3>1 DEF From
    <2>4. SavedFrom(n + 1) = <<>>
        BY <1>0 DEF SavedFrom
    <2> QED BY <1>0, <2>1, <2>3, <2>4
<1>3. ASSUME NEW i \in 1 .. n,
             f[<<StartOf(i + 1), i + 1>>] = SavedFrom(i + 1)
      PROVE  f[<<StartOf(i), i>>] = SavedFrom(i)
    <2>1. /\ log[i] \in Records
          /\ log[i].start = StartOf(i) /\ log[i].start \in Cards \ {0}
          /\ IsFile(disk[log[i].start], FmtIter, i)
          /\ disk[log[i].start].byte_len = log[i].len
          /\ disk[log[i].start].rtc = log[i].rtc
        BY FileStart DEF CardInv, Files
    <2>2. StartOf(i + 1) = StartOf(i) + 1 + BYTES_TO_BLOCKS(log[i].len)
        BY <1>0, <2>1 DEF StartOf, EndOf
    <2>3. f[<<StartOf(i), i>>] = <<Saved(i)>> \o SavedFrom(i + 1)
        <3>1. f[<<StartOf(i), i>>] = From(f, StartOf(i), i)
            BY <1>0, <1>1, <2>1 DEF Cards
        <3>2. StartOf(i) < CAPACITY
            BY <2>1, FileSystemAssumption DEF Cards
        <3> QED BY <1>3, <2>1, <2>2, <3>1, <3>2 DEF From, Saved
    <2>4. \A k \in Files : Saved(k) \in [len : Nat, rtc : Nat]
        BY LogType DEF Saved, Records
    <2>5. SavedFrom(i + 1) \in [1 .. n - i -> [len : Nat, rtc : Nat]]
        <3>1. n + 1 - (i + 1) = n - i
            BY <1>0
        <3>2. \A k \in 1 .. n - i : i + 1 + k - 1 \in Files
            BY <1>0 DEF Files
        <3> QED BY <2>4, <3>1, <3>2 DEF SavedFrom
    <2>6. SavedFrom(i) \in [1 .. (n - i) + 1 -> [len : Nat, rtc : Nat]]
        <3>1. n + 1 - i = (n - i) + 1
            BY <1>0
        <3>2. \A k \in 1 .. (n - i) + 1 : i + k - 1 \in Files
            BY <1>0 DEF Files
        <3> QED BY <2>4, <3>1, <3>2 DEF SavedFrom
    <2>7. SavedFrom(i)[1] = Saved(i)
        BY <1>0 DEF SavedFrom
    <2>8. ASSUME NEW k \in 1 .. n - i
          PROVE  SavedFrom(i)[k + 1] = SavedFrom(i + 1)[k]
        <3>1. /\ k + 1 \in 1 .. n + 1 - i /\ k \in 1 .. n + 1 - (i + 1)
              /\ i + (k + 1) - 1 = i + 1 + k - 1
            BY <1>0
        <3> QED BY <3>1 DEF SavedFrom
    <2>9. n - i \in Nat /\ Saved(i) \in [len : Nat, rtc : Nat]
        BY <1>0, <2>4 DEF Files
    <2> QED BY <2>3, <2>5, <2>6, <2>7, <2>8, <2>9, Prepend, SMTT(30)
<1>4. T = {}
    <2> SUFFICES ASSUME T # {} PROVE FALSE
        OBVIOUS
    <2>1. PICK d \in T : \A e \in T : d <= e
        <3>1. T \in SUBSET Nat
            BY <1>0
        <3> HIDE DEF T
        <3> QED BY <3>1, Smallest
    <2>2. d \in 1 .. n /\ d - 1 \in 0 .. n /\ d - 1 \notin T
        BY <1>0, <1>2, <2>1
    <2>3. n + 1 - d \in 1 .. n /\ n + 1 - (d - 1) = (n + 1 - d) + 1
        BY <1>0, <2>2
    <2>4. f[<<StartOf(n + 1 - d), n + 1 - d>>] = SavedFrom(n + 1 - d)
        BY <1>3, <2>2, <2>3
    <2> QED BY <2>1, <2>4
<1>5. f[<<StartOf(1), 1>>] = SavedFrom(1)
    <2>1. n \in 0 .. n /\ n + 1 - n = 1
        BY <1>0
    <2> QED BY <1>4, <2>1
<1>6. SavedFrom(1) = Traces
    <2>1. n + 1 - 1 = n /\ \A k \in 1 .. n : 1 + k - 1 = k
        BY <1>0
    <2> QED BY <2>1 DEF SavedFrom, Traces
<1> QED BY <1>5, <1>6 DEF StartOf

(* The traces on the card are those of the log. *)
LEMMA TracesAre == IInv => TracesOnDisk = Traces
BY TracesRead, LogRead DEF IInv

-----------------------------------------------------------------------------
(* A new file has no time. *)

LEMMA ResetTime ==
    ASSUME NEW iter, NEW idx, NEW b, FsInit(iter, idx, b) PROVE NoTimeYet'
BY DEF FsInit, NoTimeYet

LEMMA TimeStep ==
    ASSUME NoTimeYet, [Next]_vars PROVE NoTimeYet'
<1>1. CASE Scan
    BY <1>1 DEF NoTimeYet, Scan, ScanRequested, ScanSkip, ScanNext, ScanCreate,
                ScanLast, ScanMissing, ScanFull, ReadCandidate, Scanning,
                Return, fileVars
<1>2. CASE Format \/ \E portable \in BOOLEAN : FsFormat(portable)
    BY <1>2, ResetTime
       DEF NoTimeYet, Format, FormatRead, FormatSuper, FormatOnes, FsFormat,
           FormatBody, SdHalt, Halt, fsVars, fileVars
<1>3. CASE \/ FsOpenRetry \/ Boot
           \/ \E create \in BOOLEAN, seq \in OpenSeqs : FsOpen(create, seq)
    BY <1>3, ResetTime DEF FsOpenRetry, Boot, FsOpen, OpenSuperblock
<1>4. CASE \/ FsOpenQuick \/ FsClose \/ Crash \/ ReadStep \/ ReadDone
           \/ \E len \in WriteLens : FsWrite(len)
           \/ \E now \in Times : FsRtcSet(now)
           \/ \E byte \in 0 .. MAX_FILE_LEN : FsSeek(byte)
           \/ \E len \in ReadLens : FsRead(len)
    BY <1>4 DEF NoTimeYet, FsOpenQuick, MayOpen, FsClose, Crash, ReadStep,
                ReadDone, FsWrite, FsRtcSet, FsSeek, FsRead, Readable, Return
<1>5. CASE FsUpdate
    BY <1>5 DEF NoTimeYet, FsUpdate, UpdatePoll, UpdateCopy, UpdateBlock,
                UpdateDrop, CopyBytes, Updating, Halt
<1>6. CASE Close
    BY <1>6, ResetTime
       DEF NoTimeYet, Close, ClosePartial, CloseWhole, CloseTooLong, Drained,
           CloseEnd, CloseStart, CloseSkip, SdHalt, Halt, Return, fsVars,
           fileVars
<1>7. CASE UNCHANGED vars
    BY <1>7 DEF NoTimeYet, vars, fsVars, fileVars
<1> QED BY <1>1, <1>2, <1>3, <1>4, <1>5, <1>6, <1>7 DEF Next, Call, Step

(* fs_close puts the startblock together when no write is left. *)
LEMMA CopiedStep ==
    ASSUME TypeOK, DriverInv, AllCopied, [Next]_vars PROVE AllCopied'
<1> SUFFICES ASSUME pc' = "close_start" PROVE ~write_in_progress'
    BY DEF AllCopied
<1>1. CloseEnd \/ UNCHANGED vars
    <2>1. ~Scan
        BY DEF Scan, ScanRequested, ScanSkip, ScanNext, ScanCreate, ScanLast,
               ScanMissing, ScanFull, ReadCandidate, Scanning, Return
    <2>2. ~Format /\ ~\E portable \in BOOLEAN : FsFormat(portable)
        BY DEF TypeOK, Format, FormatRead, FormatSuper, FormatOnes, FsFormat,
               FormatBody, SdHalt, Halt
    <2> QED
        BY <2>1, <2>2
           DEF Next, Call, Step, FsOpen, OpenSuperblock, FsOpenQuick, MayOpen,
               FsWrite, FsRtcSet, FsClose, FsSeek, FsRead, Readable, Boot,
               FsOpenRetry, FsUpdate, UpdatePoll, UpdateCopy, UpdateBlock,
               UpdateDrop, CopyBytes, Updating, Close, ClosePartial,
               CloseWhole, CloseTooLong, Drained, CloseStart, CloseSkip,
               SdHalt, Halt, Return, ReadStep, ReadDone, Crash
<1>2. CASE CloseEnd
    BY <1>2 DEF CloseEnd, DriverInv, Busy, writeVars
<1>3. CASE UNCHANGED vars
    BY <1>3 DEF AllCopied, vars, fsVars, writeVars
<1> QED BY <1>1, <1>2, <1>3

-----------------------------------------------------------------------------
(* Every step is one of the store. *)

(* The recording alone is lost, or there was none. *)
LEMMA RecordingLost ==
    ASSUME rec' = NoRec, Traces' = Traces, TracesOnDisk = Traces,
           TracesOnDisk' = Traces'
    PROVE  [Store!Next]_Store!vars
<1>1. Recording' = <<>>
    BY DEF Recording, NoRec
<1> QED BY <1>1 DEF Store!Next, Store!Lose, Store!vars

(* Nothing that counts has changed. *)
LEMMA RecordingKept ==
    ASSUME rec' = rec, rec.open => file_rtc' = file_rtc, log' = log,
           TracesOnDisk = Traces, TracesOnDisk' = Traces'
    PROVE  UNCHANGED Store!vars
<1>1. Recording' = Recording
    BY DEF Recording
<1>2. Traces' = Traces
    BY DEF Traces, Saved
<1> QED BY <1>1, <1>2 DEF Store!vars

(* fs_open creates a file: the recording starts empty.                      *)
LEMMA CreateStarts ==
    ASSUME NoTimeYet, ScanCreate, TracesOnDisk = Traces,
           TracesOnDisk' = Traces'
    PROVE  Store!Start
<1>1. rec'.open /\ rec'.accepted = 0 /\ file_rtc' = 0 /\ log' = log
    BY DEF ScanCreate, Scanning, ScanUnchanged, NoTimeYet
<1>2. Recording' = <<[len |-> 0, rtc |-> 0]>>
    BY <1>1 DEF Recording
<1>3. Traces' = Traces
    BY <1>1 DEF Traces, Saved
<1> QED BY <1>2, <1>3 DEF Store!Start

(* fs_write extends the recording by what it accepts.                       *)
LEMMA WriteExtends ==
    ASSUME TypeOK, NEW len \in WriteLens, FsWrite(len), TracesOnDisk = Traces,
           TracesOnDisk' = Traces'
    PROVE  [Store!Next]_Store!vars
<1>1. /\ rec.open /\ rec' = [rec EXCEPT !.accepted = rec.accepted + len]
      /\ file_rtc' = file_rtc /\ log' = log
    BY DEF FsWrite, fileVars
<1>2. len \in Nat /\ rec.accepted \in Nat
    BY FileSystemAssumption DEF TypeOK
<1>3. rec'.open /\ rec'.accepted = rec.accepted + len
    BY <1>1 DEF TypeOK
<1>4. /\ Recording = <<[len |-> rec.accepted, rtc |-> file_rtc]>>
      /\ Recording' = <<[len |-> rec.accepted + len, rtc |-> file_rtc]>>
    BY <1>1, <1>3 DEF Recording
<1>5. Traces' = Traces
    BY <1>1 DEF Traces, Saved
<1>6. CASE len = 0
    BY <1>2, <1>4, <1>5, <1>6 DEF Store!vars
<1>7. CASE len # 0
    <2>1. Recording'[1].len > Recording[1].len
        BY <1>2, <1>4, <1>7
    <2>2. Recording' = <<[Recording[1] EXCEPT !.len = Recording'[1].len]>>
        BY <1>4
    <2> QED BY <1>4, <1>5, <2>1, <2>2 DEF Store!Next, Store!Extend
<1> QED BY <1>6, <1>7

(* fs_rtc_set stamps the recording.                                         *)
LEMMA RtcStamps ==
    ASSUME NEW now \in Times, FsRtcSet(now), TracesOnDisk = Traces,
           TracesOnDisk' = Traces'
    PROVE  Store!Stamp
<1>1. rec.open /\ rec' = rec /\ file_rtc' = now /\ log' = log
    BY DEF FsRtcSet
<1>2. /\ Recording = <<[len |-> rec.accepted, rtc |-> file_rtc]>>
      /\ Recording' = <<[len |-> rec.accepted, rtc |-> now]>>
    BY <1>1 DEF Recording
<1>3. Traces' = Traces
    BY <1>1 DEF Traces, Saved
<1> QED BY <1>2, <1>3 DEF Store!Stamp

(* The write of the startblock saves the recording, whole: everything that  *)
(* fs_write accepted has been copied by then.                               *)
LEMMA CloseSaves ==
    ASSUME IInv, AllCopied, DataInv, CloseStart, ~SdHalt,
           TracesOnDisk = Traces, TracesOnDisk' = Traces'
    PROVE  Store!Save
<1>1. log' = Append(log, ClosedFile) /\ rec' = NoRec /\ pc = "close_start"
    BY DEF CloseStart
<1>2. rec.open /\ file_byte_idx = rec.accepted
    <2>1. rec.open
        BY <1>1 DEF IInv, CloseInv
    <2> QED BY <1>1, <2>1 DEF AllCopied, DataInv, CopyInv
<1>3. Recording = <<[len |-> file_byte_idx, rtc |-> file_rtc]>>
      /\ Recording' = <<>>
    BY <1>1, <1>2 DEF Recording, NoRec
<1>4. Traces' = Traces \o Recording
    <2> DEFINE e == [len |-> file_byte_idx, rtc |-> file_rtc]
               n == Len(log)
               S == [len : Nat, rtc : Nat]
    <2>1. /\ log \in Seq(Records) /\ n \in Nat
          /\ \A k \in 1 .. n : log[k] \in Records
        BY LogType DEF IInv, Files
    <2>2. e \in S /\ ClosedFile.len = e.len /\ ClosedFile.rtc = e.rtc
        BY DEF IInv, TypeOK, ClosedFile
    <2>3. /\ Len(log') = n + 1 /\ log'[n + 1] = ClosedFile
          /\ \A k \in 1 .. n : log'[k] = log[k]
        BY <1>1, <2>1
    <2>4. Traces \in [1 .. n -> S]
        BY <2>1 DEF Traces, Saved, Records
    <2>5. /\ Traces' \in [1 .. n + 1 -> S] /\ Traces'[n + 1] = e
          /\ \A k \in 1 .. n : Traces'[k] = Traces[k]
        <3>1. Traces' = [k \in 1 .. n + 1 |->
                            [len |-> log'[k].len, rtc |-> log'[k].rtc]]
            BY <2>3 DEF Traces, Saved
        <3>2. \A k \in 1 .. n : k \in 1 .. n + 1
            BY <2>1
        <3>3. \A k \in 1 .. n + 1 : k \in 1 .. n \/ k = n + 1
            BY <2>1
        <3>4. n + 1 \in 1 .. n + 1
            BY <2>1
        <3>5. ASSUME NEW k \in 1 .. n
              PROVE  Traces'[k] = Traces[k]
            BY <2>3, <3>1, <3>2 DEF Traces, Saved
        <3>6. Traces'[n + 1] = e
            BY <2>2, <2>3, <3>1, <3>4
        <3>7. \A k \in 1 .. n + 1 : Traces'[k] \in S
            BY <2>2, <2>4, <3>3, <3>5, <3>6
        <3> QED BY <3>1, <3>5, <3>6, <3>7
    <2> HIDE DEF e
    <2> QED BY <1>3, <2>1, <2>2, <2>4, <2>5, OneMore DEF e
<1> QED BY <1>3, <1>4 DEF Store!Save

(* The write of the superblock takes all traces.                            *)
LEMMA FormatErases ==
    ASSUME IInv, FormatSuper, ~SdHalt, TracesOnDisk = Traces,
           TracesOnDisk' = Traces'
    PROVE  Store!Erase
<1>1. log' = <<>> /\ rec' = rec /\ pc = "fmt_super"
    BY DEF FormatSuper
<1>2. Recording = <<>> /\ Recording' = <<>>
    BY <1>1 DEF Recording, IInv, CloseInv
<1>3. Traces' = <<>>
    BY <1>1 DEF Traces
<1> QED BY <1>2, <1>3 DEF Store!Erase

(* The other steps keep the recording, or lose it.                          *)
LEMMA QuietSteps ==
    ASSUME IInv, [Next]_vars, ~ScanCreate,
           ~\E len \in WriteLens : FsWrite(len),
           ~\E now \in Times : FsRtcSet(now),
           CloseStart => SdHalt, FormatSuper => SdHalt
    PROVE  /\ log' = log
           /\ \/ rec' = NoRec
              \/ rec' = rec /\ (rec.open => file_rtc' = file_rtc)
<1>1. CASE Scan
    <2>1. pc = "scan" /\ ~rec.open
        BY <1>1 DEF Scan, ScanRequested, ScanSkip, ScanNext, ScanCreate,
                    ScanLast, ScanMissing, ScanFull, ReadCandidate, Scanning,
                    IInv, CloseInv
    <2> QED
        BY <1>1, <2>1
           DEF Scan, ScanRequested, ScanSkip, ScanNext, ScanLast, ScanMissing,
               ScanFull, ReadCandidate, ScanUnchanged
<1>2. CASE Format \/ \E portable \in BOOLEAN : FsFormat(portable)
    <2>1. CASE FormatRead
        BY <2>1 DEF FormatRead, FormatBody, IInv, CloseInv
    <2>2. CASE FormatSuper \/ FormatOnes
        BY <2>2 DEF FormatOnes, SdHalt, fsVars, fileVars
    <2>3. CASE \E portable \in BOOLEAN : FsFormat(portable)
        BY <2>3 DEF FsFormat, FormatBody
    <2> QED BY <1>2, <2>1, <2>2, <2>3 DEF Format
<1>3. CASE \/ FsOpenRetry \/ Boot
           \/ \E create \in BOOLEAN, seq \in OpenSeqs : FsOpen(create, seq)
    BY <1>3 DEF FsOpenRetry, Boot, FsOpen, OpenSuperblock
<1>4. CASE \/ FsOpenQuick \/ FsClose \/ Crash \/ ReadStep \/ ReadDone
           \/ \E byte \in 0 .. MAX_FILE_LEN : FsSeek(byte)
           \/ \E len \in ReadLens : FsRead(len)
    BY <1>4 DEF FsOpenQuick, FsClose, Crash, ReadStep, ReadDone, FsSeek,
                FsRead, fsVars, fileVars
<1>5. CASE FsUpdate
    BY <1>5 DEF FsUpdate, UpdatePoll, UpdateCopy, UpdateBlock, UpdateDrop,
                CopyBytes, fileVars
<1>6. CASE Close
    <2>1. CASE CloseStart
        BY <2>1 DEF SdHalt, fsVars, fileVars
    <2>2. CASE CloseSkip
        BY <2>2 DEF CloseSkip, SdHalt, fsVars, fileVars, IInv, CloseInv
    <2>3. CASE ClosePartial \/ CloseWhole \/ CloseTooLong \/ CloseEnd
        BY <2>3 DEF ClosePartial, CloseWhole, CloseTooLong, CloseEnd, fsVars,
                    fileVars
    <2> QED BY <1>6, <2>1, <2>2, <2>3 DEF Close
<1>7. CASE UNCHANGED vars
    BY <1>7 DEF vars, fsVars, fileVars
<1> QED BY <1>1, <1>2, <1>3, <1>4, <1>5, <1>6, <1>7 DEF Next, Call, Step

StoreInv == IInv /\ DriverInv /\ DataInv /\ NoTimeYet /\ AllCopied

LEMMA StoreStep ==
    ASSUME StoreInv, [Next]_vars, TracesOnDisk = Traces,
           TracesOnDisk' = Traces'
    PROVE  [Store!Next]_Store!vars
<1>1. CASE ScanCreate
    BY <1>1, CreateStarts DEF StoreInv, Store!Next
<1>2. CASE \E len \in WriteLens : FsWrite(len)
    BY <1>2, WriteExtends DEF StoreInv, IInv
<1>3. CASE \E now \in Times : FsRtcSet(now)
    BY <1>3, RtcStamps DEF Store!Next
<1>4. CASE CloseStart /\ ~SdHalt
    BY <1>4, CloseSaves DEF StoreInv, Store!Next
<1>5. CASE FormatSuper /\ ~SdHalt
    BY <1>5, FormatErases DEF StoreInv, Store!Next
<1>6. CASE /\ ~ScanCreate /\ ~\E len \in WriteLens : FsWrite(len)
           /\ ~\E now \in Times : FsRtcSet(now)
           /\ CloseStart => SdHalt
           /\ FormatSuper => SdHalt
    <2>1. /\ log' = log
          /\ \/ rec' = NoRec
             \/ rec' = rec /\ (rec.open => file_rtc' = file_rtc)
        BY <1>6, QuietSteps DEF StoreInv
    <2>2. Traces' = Traces
        BY <2>1 DEF Traces, Saved
    <2>3. CASE rec' = NoRec
        BY <2>2, <2>3, RecordingLost
    <2>4. CASE rec' = rec /\ (rec.open => file_rtc' = file_rtc)
        BY <2>1, <2>4, RecordingKept
    <2> QED BY <2>1, <2>3, <2>4
<1> QED BY <1>1, <1>2, <1>3, <1>4, <1>5, <1>6

-----------------------------------------------------------------------------
(* The theorem *)

LEMMA StoreInvariant == Spec => []StoreInv
<1>1. Init => NoTimeYet /\ AllCopied
    BY DEF Init, NoTimeYet, AllCopied
<1>2. IInv /\ DriverInv /\ NoTimeYet /\ AllCopied /\ [Next]_vars
        => NoTimeYet' /\ AllCopied'
    BY TimeStep, CopiedStep DEF IInv
<1>3. StoreInv <=> IInv /\ DriverInv /\ DataInv /\ NoTimeYet /\ AllCopied
    BY DEF StoreInv
<1> QED BY <1>1, <1>2, <1>3, DataInvariant, PTL DEF Spec

(* The file system implements the trace store: fs_open(1, 0) starts a       *)
(* recording, fs_write and fs_rtc_set add to it, the write of the           *)
(* startblock in fs_close saves it whole, a format takes all traces, and    *)
(* nothing else, no crash between any two block writes either, changes what *)
(* a reader of the card finds.                                              *)
THEOREM StoreImplemented == Spec => ImplementsStore
<1>1. Init => Store!Init
    <2> SUFFICES ASSUME Init PROVE Store!Init
        OBVIOUS
    <2>1. TracesOnDisk = Traces
        BY InitInv, TracesAre
    <2>2. Traces = <<>> /\ Recording = <<>>
        BY DEF Init, NoRec, Traces, Recording
    <2> QED BY <2>1, <2>2 DEF Store!Init
<1>2. (IInv => TracesOnDisk = Traces)'
    BY TracesAre, PTL
<1>3. StoreInv /\ StoreInv' /\ [Next]_vars => [Store!Next]_Store!vars
    BY <1>2, TracesAre, StoreStep DEF StoreInv
<1> QED BY <1>1, <1>3, StoreInvariant, PTL
        DEF Spec, ImplementsStore, Store!Spec

=============================================================================
