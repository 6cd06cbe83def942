----------------------------- MODULE FileSystem -----------------------------
(***************************************************************************)
(* The trace file system of the BattOr firmware (fw/fs.c) over its SD card *)
(* driver (fw/drivers/sd.c).                                               *)
(*                                                                         *)
(* The card is a row of blocks.  Block 0 is the superblock, whose fmt_iter *)
(* numbers the formatting.  The files of the current formatting follow     *)
(* each other from block 1: a startblock, then the data blocks.  A file    *)
(* exists when its startblock carries the current fmt_iter and the next    *)
(* file number, and that block is written last, by fs_close.               *)
(*                                                                         *)
(* Every block write is a step of its own, so that Crash may come between  *)
(* any two of them.  A block write is atomic, and the card accepts every   *)
(* command for a block it has.  The bytes of a recording are pairs         *)
(* <<tag, position>>: two recordings with different tags share no byte,    *)
(* and the payload never imitates a startblock.                            *)
(***************************************************************************)
EXTENDS Integers, Sequences, FiniteSets

CONSTANTS
    SD_BLOCK_LEN,          \* bytes in a block (512 in the firmware)
    CAPACITY,              \* fs_capacity: blocks on the card
    FS_LAST_FILE_BLOCKS,   \* no file starts in the last of these (50000)
    FS_FILE_SKIP_LEN,      \* files a skip pointer jumps over (250)
    Tag, NoTag,            \* payloads of recordings; a byte of no recording
    Times,                 \* the values timer_rtc_get may return
    OpenSeqs,              \* bound: the file numbers callers ask for
    WriteLens, ReadLens,   \* bound: the lengths callers write and read
    MAX_FILE_LEN,          \* bound: bytes in a recording
    MAX_FMT_ITER           \* bound: formattings of the card

ASSUME FileSystemAssumption ==
    /\ SD_BLOCK_LEN \in Nat \ {0}
    /\ FS_LAST_FILE_BLOCKS \in Nat \ {0}
    /\ CAPACITY \in Nat /\ CAPACITY > FS_LAST_FILE_BLOCKS + 1
    /\ FS_FILE_SKIP_LEN \in Nat /\ FS_FILE_SKIP_LEN > 1
    /\ NoTag \notin Tag
    /\ Times \subseteq Nat
    /\ OpenSeqs \subseteq Nat /\ WriteLens \subseteq Nat /\ ReadLens \subseteq Nat
    /\ MAX_FILE_LEN \in Nat /\ MAX_FMT_ITER \in Nat

VARIABLES
    disk,                           \* the blocks of the card
    card,                           \* sd.c: the state of its block writes
    fs_fmt_iter,
    file_startblock_idx, file_byte_idx, file_byte_len,
    file_prev_skip_startblock_idx, file_rtc,
    g_fs_file_seq,
    block, block_idx,               \* the RAM copy of a block, and which
    write_in_progress, sd_write_in_progress, write_buf, write_len,
    pc,                             \* where the running call stands
    op,                             \* its arguments
    prev,                           \* fs_open's *_prev locals
    ret,                            \* what the last call returned
    want, out,                      \* fs_read: bytes still to copy; copied
    rec,                            \* history: the recording being written
    log,                            \* history: the files that were closed
    rd_ok                           \* history: no block read was refused

fileVars  == <<file_startblock_idx, file_byte_idx, file_byte_len,
               file_prev_skip_startblock_idx, file_rtc>>
writeVars == <<write_in_progress, sd_write_in_progress, write_buf, write_len>>
readVars  == <<want, out, rd_ok>>
fsVars    == <<fs_fmt_iter, fileVars, g_fs_file_seq, block, block_idx,
               writeVars>>
vars == <<disk, card, fsVars, pc, op, prev, ret, readVars, rec, log>>

-----------------------------------------------------------------------------
(* Blocks *)

Offsets == 0 .. SD_BLOCK_LEN - 1
Byte    == (Tag \cup {NoTag}) \X Nat
Junk    == <<NoTag, 0>>

Superblocks == [kind : {"super"}, fmt_iter : Nat, portable : BOOLEAN]
Startblocks == [kind : {"start"}, fmt_iter : Nat, seq : Nat, byte_len : Nat,
                skip : Nat, rtc : Nat]
Datablocks  == [kind : {"data"}, bytes : [Offsets -> Byte]]
Other       == [kind |-> "other"]    \* none of these, as on a new card
Ones        == [kind |-> "ones"]
Blocks      == Superblocks \cup Startblocks \cup Datablocks \cup {Other, Ones}

BYTES_TO_BLOCKS(n) ==
    (n \div SD_BLOCK_LEN) + (IF n % SD_BLOCK_LEN > 0 THEN 1 ELSE 0)
BYTES_IN_LAST_BLOCK(n) == n % SD_BLOCK_LEN

Formatted(b) == b.kind = "super"
BytesOf(b) == IF b.kind = "data" THEN b.bytes ELSE [o \in Offsets |-> Junk]

(* b is the startblock of file s of formatting iter *)
IsFile(b, iter, s) == b.kind = "start" /\ b.fmt_iter = iter /\ b.seq = s

-----------------------------------------------------------------------------
(* Initially: a card this file system never formatted, the firmware not up. *)

NoRec   == [open |-> FALSE, tag |-> NoTag, accepted |-> 0]
NoPrev  == [idx |-> -1, len |-> 0, rtc |-> 0]
NoOp    == [create |-> FALSE, seq |-> 0, portable |-> FALSE, then |-> "idle"]
CardIdle == [busy |-> FALSE, multi |-> FALSE, last |-> 0]

Init ==
    /\ disk = [b \in 0 .. CAPACITY - 1 |-> Other]
    /\ card = CardIdle
    /\ fs_fmt_iter = 0
    /\ file_startblock_idx = 0 /\ file_byte_idx = 0 /\ file_byte_len = 0
    /\ file_prev_skip_startblock_idx = 0 /\ file_rtc = 0
    /\ g_fs_file_seq = 0
    /\ block = Other /\ block_idx = 0
    /\ write_in_progress = FALSE /\ sd_write_in_progress = FALSE
    /\ write_buf = 0 /\ write_len = 0
    /\ pc = "off" /\ op = NoOp /\ prev = NoPrev /\ ret = "NONE"
    /\ want = 0 /\ out = <<>> /\ rd_ok = TRUE
    /\ rec = NoRec /\ log = <<>>

(* fs_init, with what its caller then gives fmt_iter, block_idx and block. *)
FsInit(iter, idx, b) ==
    /\ fs_fmt_iter' = iter /\ block_idx' = idx /\ block' = b
    /\ file_startblock_idx' = -1 /\ file_byte_idx' = 0 /\ file_byte_len' = 0
    /\ file_prev_skip_startblock_idx' = -1 /\ file_rtc' = 0
    /\ g_fs_file_seq' = 1
    /\ write_in_progress' = FALSE /\ sd_write_in_progress' = FALSE
    /\ write_buf' = 0 /\ write_len' = 0

Return(code) == pc' = "idle" /\ ret' = code
Halt(code)   == pc' = "halted" /\ ret' = code
Busy == write_in_progress \/ sd_write_in_progress
NoRead == want' = 0 /\ out' = <<>> /\ rd_ok' = TRUE

-----------------------------------------------------------------------------
(* sd.c: a block write and the polling that completes it, where the caller  *)
(* polls to the end before it goes on.                                      *)

SdIdle == ~card.busy /\ ~card.multi

(* sd_write_block_start; while (sd_write_block_update() < 0) *)
SdWriteBlock(idx, b) ==
    SdIdle /\ disk' = [disk EXCEPT ![idx] = b] /\ UNCHANGED card

(* sd_write_block_start halts while another write is open *)
SdHalt == /\ ~SdIdle
          /\ Halt("SD_WRITE_IN_PROGRESS")
          /\ UNCHANGED <<disk, card, fsVars, op, prev, readVars, rec, log>>

SdMultiInOrder(idx) == ~card.busy /\ (card.multi => idx = card.last + 1)

(* sd_write_multi_block_start, done says whether the card has finished *)
SdWriteMulti(idx, b, done) ==
    /\ disk' = [disk EXCEPT ![idx] = b]
    /\ card' = [busy |-> ~done, multi |-> TRUE, last |-> idx]

(* Mutant: the multi-block write is never ended. *)
MutSdMultiEnd == UNCHANGED card

(* sd_write_multi_block_end *)
SdMultiEnd == card' = CardIdle

SdMultiError ==
    IF card.busy THEN "SD_WRITE_IN_PROGRESS" ELSE "SD_MULTI_BLOCK_OUT_OF_ORDER"

-----------------------------------------------------------------------------
(* fs_open *)

(* The callers open and format only between recordings (a new file that     *)
(* was not written to may be abandoned).                                    *)
MayOpen == pc = "idle" /\ ~Busy /\ SdIdle

(* The bound on formattings: an open may format, and a boot finds a full    *)
(* card only after an open has filled it.                                   *)
FormatsLeft ==
    Formatted(disk[0]) => disk[0].fmt_iter < MAX_FMT_ITER

AlreadyOpen(create, seq) ==
    ~create /\ file_startblock_idx > 0 /\ seq = 0 /\ file_byte_len > 0

FsOpenQuick ==
    /\ MayOpen /\ AlreadyOpen(FALSE, 0)
    /\ file_byte_idx' = 0
    /\ op' = NoOp
    /\ ret' = "NONE" /\ want' = 0 /\ out' = <<>>
    /\ UNCHANGED <<disk, card, fs_fmt_iter, file_startblock_idx, file_byte_len,
                   file_prev_skip_startblock_idx, file_rtc, g_fs_file_seq,
                   block, block_idx, writeVars, pc, prev, rd_ok, rec, log>>

(* fs_open from the reset of the state to the superblock.  A card that was  *)
(* never formatted is formatted when a file is created.                     *)
OpenSuperblock(create, seq) ==
    /\ rec' = NoRec /\ prev' = NoPrev /\ NoRead
    /\ UNCHANGED <<disk, card, log>>
    /\ \/ /\ Formatted(disk[0])
          /\ FsInit(disk[0].fmt_iter, 0, disk[0])
          /\ pc' = "scan" /\ ret' = "NONE"
          /\ op' = [create |-> create, seq |-> seq, portable |-> FALSE,
                    then |-> "idle"]
       \/ /\ ~Formatted(disk[0])
          /\ FsInit(0, 0, disk[0])
          /\ pc' = (IF create THEN "fmt_read" ELSE "scan") /\ ret' = "NONE"
          /\ op' = [create |-> create, seq |-> seq, portable |-> FALSE,
                    then |-> "scan"]

FsOpen(create, seq) ==
    /\ MayOpen /\ ~AlreadyOpen(create, seq) /\ FormatsLeft
    /\ OpenSuperblock(create, seq)

(* fs_format was called by fs_open because the card is full: retry *)
FsOpenRetry == pc = "reopen" /\ OpenSuperblock(op.create, op.seq)

(* main calls fs_info, which opens the last file and ignores the result *)
Boot == pc = "off" /\ OpenSuperblock(FALSE, 0)

Scanning == pc = "scan" /\ block_idx < CAPACITY - FS_LAST_FILE_BLOCKS
Candidate == disk[block_idx + 1]

(* Mutant: a startblock of an earlier formatting passes. *)
MutMatches == Candidate.kind = "start" /\ Candidate.seq = g_fs_file_seq

Matches == IsFile(Candidate, fs_fmt_iter, g_fs_file_seq)

(* Mutant: the files are numbered from 0. *)
MutRequested == ~op.create /\ op.seq > 0 /\ Candidate.seq + 1 = op.seq

Requested == ~op.create /\ op.seq > 0 /\ Candidate.seq = op.seq

ReadCandidate == Scanning /\ block' = Candidate /\ rec' = rec
ScanUnchanged == UNCHANGED <<disk, card, fs_fmt_iter, writeVars, readVars, log>>

(* Mutant: the partial last block is not counted. *)
MutAfterFile(idx, len) == idx + (len \div SD_BLOCK_LEN)

(* where the scan stands behind a file of len bytes that starts at idx *)
AfterFile(idx, len) == idx + BYTES_TO_BLOCKS(len)

PassSkipFile ==
    file_prev_skip_startblock_idx' =
        IF g_fs_file_seq % FS_FILE_SKIP_LEN = 1
        THEN block_idx + 1 ELSE file_prev_skip_startblock_idx

ScanRequested ==
    /\ ReadCandidate /\ Matches /\ Requested
    /\ block_idx' = block_idx + 1
    /\ file_startblock_idx' = block_idx + 1
    /\ file_byte_len' = Candidate.byte_len
    /\ file_byte_idx' = 0
    /\ file_rtc' = Candidate.rtc
    /\ Return("NONE") /\ op' = NoOp /\ prev' = NoPrev
    /\ UNCHANGED <<file_prev_skip_startblock_idx, g_fs_file_seq>>
    /\ ScanUnchanged

ScanSkip ==
    /\ ReadCandidate /\ Matches /\ ~Requested /\ Candidate.skip > 0
    /\ PassSkipFile
    /\ block_idx' = Candidate.skip - 1
    /\ g_fs_file_seq' = g_fs_file_seq + FS_FILE_SKIP_LEN
    /\ prev' = NoPrev
    /\ UNCHANGED <<file_startblock_idx, file_byte_idx, file_byte_len, file_rtc,
                   pc, op, ret>>
    /\ ScanUnchanged

ScanNext ==
    /\ ReadCandidate /\ Matches /\ ~Requested /\ Candidate.skip = 0
    /\ PassSkipFile
    /\ block_idx' = AfterFile(block_idx + 1, Candidate.byte_len)
    /\ g_fs_file_seq' = g_fs_file_seq + 1
    /\ prev' = [idx |-> block_idx + 1, len |-> Candidate.byte_len,
                rtc |-> Candidate.rtc]
    /\ UNCHANGED <<file_startblock_idx, file_byte_idx, file_byte_len, file_rtc,
                   pc, op, ret>>
    /\ ScanUnchanged

ScanCreate ==
    /\ Scanning /\ ~Matches /\ op.create
    /\ block' = Candidate
    /\ block_idx' = block_idx + 1
    /\ file_startblock_idx' = block_idx + 1
    /\ file_byte_idx' = 0
    /\ \E t \in Tag : rec' = [open |-> TRUE, tag |-> t, accepted |-> 0]
    /\ Return("NONE") /\ op' = NoOp /\ prev' = NoPrev
    /\ UNCHANGED <<file_byte_len, file_prev_skip_startblock_idx, file_rtc,
                   g_fs_file_seq>>
    /\ ScanUnchanged

ScanLast ==
    /\ ReadCandidate /\ ~Matches
    /\ ~op.create /\ op.seq = 0 /\ prev.idx >= 0
    /\ block_idx' = block_idx + 1
    /\ file_startblock_idx' = prev.idx
    /\ file_byte_len' = prev.len
    /\ file_byte_idx' = 0
    /\ file_rtc' = prev.rtc
    /\ Return("NONE") /\ op' = NoOp /\ prev' = NoPrev
    /\ UNCHANGED <<file_prev_skip_startblock_idx, g_fs_file_seq>>
    /\ ScanUnchanged

ScanMissing ==
    /\ ReadCandidate /\ ~Matches
    /\ ~op.create /\ ~(op.seq = 0 /\ prev.idx >= 0)
    /\ block_idx' = block_idx + 1
    /\ Return("NO_EXISTING_FILE") /\ op' = NoOp /\ prev' = NoPrev
    /\ UNCHANGED <<fileVars, g_fs_file_seq>>
    /\ ScanUnchanged

(* Mutant: retry without the format. *)
MutScanFull ==
    /\ pc = "scan" /\ block_idx >= CAPACITY - FS_LAST_FILE_BLOCKS
    /\ pc' = "reopen"
    /\ UNCHANGED <<fileVars, g_fs_file_seq, block, block_idx, op, prev, ret, rec>>
    /\ ScanUnchanged

(* the only free blocks are near the end of the card: format it and retry *)
ScanFull ==
    /\ pc = "scan" /\ block_idx >= CAPACITY - FS_LAST_FILE_BLOCKS
    /\ pc' = "fmt_read"
    /\ op' = [op EXCEPT !.portable = FALSE, !.then = "reopen"]
    /\ UNCHANGED <<fileVars, g_fs_file_seq, block, block_idx, prev, ret, rec>>
    /\ ScanUnchanged

Scan == \/ ScanRequested \/ ScanSkip \/ ScanNext \/ ScanCreate \/ ScanLast
        \/ ScanMissing \/ ScanFull

-----------------------------------------------------------------------------
(* fs_format *)

(* Mutant: a format reuses the number of the last one. *)
MutNextFmtIter == IF Formatted(disk[0]) THEN disk[0].fmt_iter ELSE 0

NextFmtIter == IF Formatted(disk[0]) THEN disk[0].fmt_iter + 1 ELSE 0

(* fs_format up to the write of the superblock *)
FormatBody(portable) ==
    /\ FsInit(NextFmtIter, 0, [kind |-> "super", fmt_iter |-> NextFmtIter,
                               portable |-> portable])
    /\ pc' = "fmt_super" /\ NoRead
    /\ UNCHANGED <<disk, card, prev, log>>

FsFormat(portable) ==
    /\ MayOpen /\ FormatsLeft
    /\ op' = [NoOp EXCEPT !.portable = portable]
    /\ rec' = NoRec /\ ret' = "NONE"
    /\ FormatBody(portable)

FormatRead ==
    /\ pc = "fmt_read"
    /\ FormatBody(op.portable)
    /\ UNCHANGED <<op, ret, rec>>

FormatSuper ==
    /\ pc = "fmt_super"
    /\ \/ /\ SdWriteBlock(0, block)
          /\ block' = Ones
          /\ log' = <<>>
          /\ pc' = "fmt_ones"
          /\ UNCHANGED <<fs_fmt_iter, fileVars, g_fs_file_seq, block_idx,
                         writeVars, op, prev, ret, readVars, rec>>
       \/ SdHalt

(* The first file block is made invalid; then on with the caller, if any. *)
FormatOnes ==
    /\ pc = "fmt_ones"
    /\ \/ /\ SdWriteBlock(1, block)
          /\ pc' = op.then
          /\ op' = (IF op.then = "idle" THEN NoOp ELSE op)
          /\ UNCHANGED <<fsVars, prev, ret, readVars, rec, log>>
       \/ SdHalt

Format == FormatRead \/ FormatSuper \/ FormatOnes

-----------------------------------------------------------------------------
(* fs_write, fs_update and fs_rtc_set *)

(* The caller never writes while fs_busy (samples_store_write). *)
FsWrite(len) ==
    /\ pc = "idle" /\ rec.open /\ ~Busy
    /\ rec.accepted + len <= MAX_FILE_LEN
    /\ write_buf' = rec.accepted /\ write_len' = len
    /\ write_in_progress' = TRUE /\ sd_write_in_progress' = FALSE
    /\ rec' = [rec EXCEPT !.accepted = @ + len]
    /\ ret' = "NONE"
    /\ UNCHANGED <<disk, card, fs_fmt_iter, fileVars, g_fs_file_seq, block,
                   block_idx, pc, op, prev, readVars, log>>

Updating == pc \in {"idle", "close_drain"} /\ rec.open /\ Busy

(* fs_update polls the card: the block is written or not yet *)
UpdatePoll(done) ==
    /\ Updating /\ sd_write_in_progress
    /\ sd_write_in_progress' = ~done
    /\ card' = [card EXCEPT !.busy = ~done]
    /\ UNCHANGED <<disk, fs_fmt_iter, fileVars, g_fs_file_seq, block, block_idx,
                   write_in_progress, write_buf, write_len, pc, op, prev, ret,
                   readVars, rec, log>>

BlockByte   == BYTES_IN_LAST_BLOCK(file_byte_idx)

(* Mutant: the rest of the block is filled, whatever is left to write. *)
MutBytesCopied == SD_BLOCK_LEN - BlockByte

BytesCopied == IF write_len < SD_BLOCK_LEN - BlockByte
               THEN write_len ELSE SD_BLOCK_LEN - BlockByte

(* Mutant: the bytes are copied to the front of the block. *)
MutFilledBlock ==
    [kind |-> "data",
     bytes |-> [o \in Offsets |-> IF o < BytesCopied
                                  THEN <<rec.tag, write_buf + o>>
                                  ELSE BytesOf(block)[o]]]

FilledBlock ==
    [kind |-> "data",
     bytes |-> [o \in Offsets |->
                  IF o \in BlockByte .. BlockByte + BytesCopied - 1
                  THEN <<rec.tag, write_buf + (o - BlockByte)>>
                  ELSE BytesOf(block)[o]]]

CopyBytes ==
    /\ Updating /\ ~sd_write_in_progress
    /\ block' = FilledBlock
    /\ write_buf' = write_buf + BytesCopied
    /\ write_len' = write_len - BytesCopied
    /\ file_byte_idx' = file_byte_idx + BytesCopied
    /\ UNCHANGED <<fs_fmt_iter, file_startblock_idx, file_byte_len,
                   file_prev_skip_startblock_idx, file_rtc, g_fs_file_seq,
                   block_idx, op, prev, readVars, rec, log>>

BlockComplete == BlockByte + BytesCopied = SD_BLOCK_LEN
BlockToWrite  == file_startblock_idx + BYTES_TO_BLOCKS(file_byte_idx + BytesCopied)

(* Mutant: a write never counts as done. *)
MutWriteDone == UNCHANGED write_in_progress

WriteDone     == write_in_progress' = (write_len' # 0)

UpdateCopy ==
    /\ CopyBytes /\ ~BlockComplete
    /\ WriteDone
    /\ UNCHANGED <<disk, card, sd_write_in_progress, pc, ret>>

UpdateBlock ==
    /\ CopyBytes /\ BlockComplete
    /\ BlockToWrite < CAPACITY
    /\ sd_write_in_progress' = TRUE
    /\ WriteDone
    /\ IF SdMultiInOrder(BlockToWrite)
       THEN SdWriteMulti(BlockToWrite, FilledBlock, FALSE) /\ UNCHANGED <<pc, ret>>
       ELSE Halt(SdMultiError) /\ UNCHANGED <<disk, card>>

(* past the end of the card: the block is dropped *)
UpdateDrop ==
    /\ CopyBytes /\ BlockComplete
    /\ BlockToWrite >= CAPACITY
    /\ UNCHANGED <<disk, card, write_in_progress, sd_write_in_progress, pc, ret>>

FsUpdate == \/ \E done \in BOOLEAN : UpdatePoll(done)
            \/ UpdateCopy \/ UpdateBlock \/ UpdateDrop

(* samples_start stamps the file it just created *)
FsRtcSet(now) ==
    /\ pc = "idle" /\ rec.open
    /\ file_rtc' = now
    /\ ret' = "NONE"
    /\ UNCHANGED <<disk, card, fs_fmt_iter, file_startblock_idx, file_byte_idx,
                   file_byte_len, file_prev_skip_startblock_idx, g_fs_file_seq,
                   block, block_idx, writeVars, pc, op, prev, readVars, rec, log>>

-----------------------------------------------------------------------------
(* fs_close *)

FsClose ==
    /\ pc = "idle" /\ rec.open
    /\ pc' = "close_drain"
    /\ ret' = "NONE" /\ NoRead
    /\ UNCHANGED <<disk, card, fsVars, op, prev, rec, log>>

(* Mutant: fs_close does not wait for the write in progress. *)
MutDrained == pc = "close_drain"

Drained == pc = "close_drain" /\ ~Busy
Partial == BYTES_IN_LAST_BLOCK(file_byte_idx) # 0
LastBlock == file_startblock_idx + BYTES_TO_BLOCKS(file_byte_idx)

(* the write of the partial last block, polled to its end *)
ClosePartial ==
    /\ Drained /\ Partial /\ LastBlock < CAPACITY
    /\ IF SdMultiInOrder(LastBlock)
       THEN SdWriteMulti(LastBlock, block, TRUE) /\ pc' = "close_end"
            /\ UNCHANGED ret
       ELSE Halt(SdMultiError) /\ UNCHANGED <<disk, card>>
    /\ UNCHANGED <<fsVars, op, prev, readVars, rec, log>>

CloseWhole ==
    /\ Drained /\ ~Partial
    /\ pc' = "close_end"
    /\ UNCHANGED <<disk, card, fsVars, op, prev, ret, readVars, rec, log>>

(* fs_close fails, and samples_stop halts *)
CloseTooLong ==
    /\ Drained /\ Partial /\ LastBlock >= CAPACITY
    /\ Halt("FILE_TOO_LONG")
    /\ UNCHANGED <<disk, card, fsVars, op, prev, readVars, rec, log>>

(* the end of the multi-block write, and the startblock put together *)
CloseEnd ==
    /\ pc = "close_end"
    /\ SdMultiEnd
    /\ block' = [kind |-> "start", fmt_iter |-> fs_fmt_iter,
                 seq |-> g_fs_file_seq, byte_len |-> file_byte_idx,
                 skip |-> 0, rtc |-> file_rtc]
    /\ pc' = "close_start"
    /\ UNCHANGED <<disk, fs_fmt_iter, fileVars, g_fs_file_seq, block_idx,
                   writeVars, op, prev, ret, readVars, rec, log>>

(* Mutant: every file is pointed to, not each FS_FILE_SKIP_LEN-th. *)
MutIsSkipFile == file_prev_skip_startblock_idx > 0

IsSkipFile == g_fs_file_seq % FS_FILE_SKIP_LEN = 1
              /\ file_prev_skip_startblock_idx > 0

ClosedFile == [start |-> file_startblock_idx, len |-> file_byte_idx,
               rtc |-> file_rtc, tag |-> rec.tag]

(* The write that makes the file exist. *)
CloseStart ==
    /\ pc = "close_start"
    /\ \/ /\ SdWriteBlock(file_startblock_idx, block)
          /\ log' = Append(log, ClosedFile)
          /\ rec' = NoRec
          /\ IF IsSkipFile
             THEN pc' = "close_skip" /\ UNCHANGED <<fsVars, ret>>
             ELSE Return("NONE") /\ FsInit(0, -1, Other)
          /\ UNCHANGED <<op, prev, readVars>>
       \/ SdHalt

(* the previous skip file is pointed to this one *)
CloseSkip ==
    /\ pc = "close_skip"
    /\ \/ /\ SdWriteBlock(file_prev_skip_startblock_idx,
                          [disk[file_prev_skip_startblock_idx]
                              EXCEPT !.skip = file_startblock_idx])
          /\ Return("NONE") /\ FsInit(0, -1, Other)
          /\ UNCHANGED <<op, prev, readVars, rec, log>>
       \/ SdHalt

Close == ClosePartial \/ CloseWhole \/ CloseTooLong \/ CloseEnd \/ CloseStart
         \/ CloseSkip

-----------------------------------------------------------------------------
(* fs_seek and fs_read *)

Readable == pc = "idle" /\ ~rec.open /\ file_startblock_idx > 0

FsSeek(byte) ==
    /\ Readable /\ byte < file_byte_len
    /\ file_byte_idx' = byte
    /\ ret' = "NONE" /\ want' = 0 /\ out' = <<>>
    /\ UNCHANGED <<disk, card, fs_fmt_iter, file_startblock_idx, file_byte_len,
                   file_prev_skip_startblock_idx, file_rtc, g_fs_file_seq,
                   block, block_idx, writeVars, pc, op, prev, rd_ok, rec, log>>

FsRead(len) ==
    /\ Readable
    /\ out' = <<>>
    /\ \/ file_byte_idx < file_byte_len /\ pc' = "read" /\ want' = len
          /\ ret' = "NONE"
       \/ file_byte_idx >= file_byte_len /\ Return("EOF") /\ want' = 0
    /\ UNCHANGED <<disk, card, fsVars, op, prev, rd_ok, rec, log>>

MinOf(a, b) == IF a < b THEN a ELSE b
ToRead == MinOf(MinOf(want, file_byte_len - file_byte_idx),
                SD_BLOCK_LEN - BYTES_IN_LAST_BLOCK(file_byte_idx))

(* Mutant: the block where the last read ended. *)
MutBlockToRead == file_startblock_idx + BYTES_TO_BLOCKS(file_byte_idx)

BlockToRead == file_startblock_idx + BYTES_TO_BLOCKS(file_byte_idx + ToRead)
Copied(b) == [k \in 1 .. ToRead |->
                 BytesOf(b)[BYTES_IN_LAST_BLOCK(file_byte_idx) + k - 1]]

(* One block's share of the read.  The result of sd_read_block is ignored:  *)
(* past the end of the card the bytes come from the block read before.      *)
ReadStep ==
    /\ pc = "read" /\ want > 0 /\ file_byte_idx < file_byte_len
    /\ block_idx' = BlockToRead
    /\ \/ BlockToRead = block_idx /\ UNCHANGED <<block, rd_ok>>
       \/ BlockToRead # block_idx /\ BlockToRead < CAPACITY
          /\ block' = disk[BlockToRead] /\ UNCHANGED rd_ok
       \/ BlockToRead # block_idx /\ BlockToRead >= CAPACITY
          /\ rd_ok' = FALSE /\ UNCHANGED block
    /\ out' = out \o Copied(block')
    /\ want' = want - ToRead
    /\ file_byte_idx' = file_byte_idx + ToRead
    /\ UNCHANGED <<disk, card, fs_fmt_iter, file_startblock_idx, file_byte_len,
                   file_prev_skip_startblock_idx, file_rtc, g_fs_file_seq,
                   writeVars, pc, op, prev, ret, rec, log>>

ReadDone ==
    /\ pc = "read" /\ ~(want > 0 /\ file_byte_idx < file_byte_len)
    /\ Return("NONE") /\ want' = 0
    /\ UNCHANGED <<disk, card, fsVars, op, prev, out, rd_ok, rec, log>>

-----------------------------------------------------------------------------
(* A reset, a halt of the firmware or the loss of power: the card stays.    *)
Crash ==
    /\ pc # "off"
    /\ pc' = "off" /\ op' = NoOp /\ prev' = NoPrev /\ ret' = "NONE"
    /\ card' = CardIdle /\ rec' = NoRec /\ NoRead
    /\ fs_fmt_iter' = 0
    /\ file_startblock_idx' = 0 /\ file_byte_idx' = 0 /\ file_byte_len' = 0
    /\ file_prev_skip_startblock_idx' = 0 /\ file_rtc' = 0
    /\ g_fs_file_seq' = 0
    /\ block' = Other /\ block_idx' = 0
    /\ write_in_progress' = FALSE /\ sd_write_in_progress' = FALSE
    /\ write_buf' = 0 /\ write_len' = 0
    /\ UNCHANGED <<disk, log>>

Call == \/ \E create \in BOOLEAN, seq \in OpenSeqs :
              (create => seq = 0) /\ FsOpen(create, seq)
        \/ FsOpenQuick
        \/ \E portable \in BOOLEAN : FsFormat(portable)
        \/ \E len \in WriteLens : FsWrite(len)
        \/ \E now \in Times : FsRtcSet(now)
        \/ FsClose
        \/ \E byte \in 0 .. MAX_FILE_LEN : FsSeek(byte)
        \/ \E len \in ReadLens : FsRead(len)
        \/ Boot

Step == \/ FsOpenRetry \/ Scan \/ Format \/ FsUpdate \/ Close
        \/ ReadStep \/ ReadDone

Next == Call \/ Step \/ Crash

(* A call, once made, runs, and the card finishes every block it accepted.  *)
Fairness == /\ WF_vars(FsOpenRetry \/ Scan \/ Format)
            /\ WF_vars(Close \/ UpdateCopy \/ UpdateBlock \/ UpdateDrop)
            /\ WF_vars(UpdatePoll(TRUE))
            /\ WF_vars(ReadStep \/ ReadDone)

Spec == Init /\ [][Next]_vars
FairSpec == Spec /\ Fairness

=============================================================================
