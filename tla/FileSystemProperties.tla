------------------------ MODULE FileSystemProperties ------------------------
(***************************************************************************)
(* The correctness of the file system of fw/fs.c.                          *)
(***************************************************************************)
EXTENDS FileSystem

TypeOK ==
    /\ disk \in [0 .. CAPACITY - 1 -> Blocks]
    /\ card \in [busy : BOOLEAN, multi : BOOLEAN, last : Nat]
    /\ fs_fmt_iter \in Nat
    /\ file_startblock_idx \in Int
    /\ file_byte_idx \in Nat /\ file_byte_len \in Nat
    /\ file_prev_skip_startblock_idx \in Int /\ file_rtc \in Nat
    /\ g_fs_file_seq \in Nat
    /\ block \in Blocks /\ block_idx \in Int
    /\ write_in_progress \in BOOLEAN /\ sd_write_in_progress \in BOOLEAN
    /\ write_buf \in Nat /\ write_len \in Nat
    /\ pc \in {"off", "idle", "scan", "fmt_read", "fmt_super", "fmt_ones",
               "reopen", "close_drain", "close_end", "close_start",
               "close_skip", "read", "halted"}
    /\ op \in [create : BOOLEAN, seq : Nat, portable : BOOLEAN,
               then : {"idle", "scan", "reopen"}]
    /\ prev \in [idx : Int, len : Nat, rtc : Nat]
    /\ ret \in {"NONE", "EOF", "NO_EXISTING_FILE", "FILE_TOO_LONG",
                "SD_WRITE_IN_PROGRESS", "SD_MULTI_BLOCK_OUT_OF_ORDER"}
    /\ want \in Nat /\ out \in Seq(Byte) /\ rd_ok \in BOOLEAN
    /\ rec \in [open : BOOLEAN, tag : Tag \cup {NoTag}, accepted : Nat]
    /\ log \in Seq([start : Nat, len : Nat, rtc : Nat, tag : Tag \cup {NoTag}])

-----------------------------------------------------------------------------
(* What is on the card *)

FmtIter == IF Formatted(disk[0]) THEN disk[0].fmt_iter ELSE 0
EndOf(f) == f.start + 1 + BYTES_TO_BLOCKS(f.len)
StartOf(i) == IF i = 1 THEN 1 ELSE EndOf(log[i - 1])
ChainEnd == StartOf(Len(log) + 1)

(* Every closed file stays where it was written: its startblock follows the *)
(* previous file, with its number, length and time, through crashes at any  *)
(* block write of later files, the rewrite of skip pointers and formats cut *)
(* short.                                                                   *)
FilesOnDisk ==
    \A i \in DOMAIN log :
        /\ log[i].start = StartOf(i)
        /\ log[i].start <= CAPACITY - FS_LAST_FILE_BLOCKS
        /\ IsFile(disk[log[i].start], FmtIter, i)
        /\ disk[log[i].start].byte_len = log[i].len
        /\ disk[log[i].start].rtc = log[i].rtc

(* The bytes of every closed file are those its recording wrote, in order,  *)
(* as far as the card reaches (fs_update drops what lies beyond).           *)
ContentIntact ==
    \A i \in DOMAIN log : \A p \in 0 .. log[i].len - 1 :
        LET b == log[i].start + BYTES_TO_BLOCKS(p + 1)
        IN  b < CAPACITY =>
              BytesOf(disk[b])[BYTES_IN_LAST_BLOCK(p)] = <<log[i].tag, p>>

(* No block left by an earlier formatting, a lost recording or an           *)
(* interrupted format ever passes for the next file: where the last file    *)
(* ends, the scan of fs_open stops.                                         *)
NoStaleFile ==
    ChainEnd < CAPACITY => ~IsFile(disk[ChainEnd], FmtIter, Len(log) + 1)

(* A skip pointer leads to the startblock FS_FILE_SKIP_LEN files further on. *)
SkipsSound ==
    \A i \in DOMAIN log :
        disk[log[i].start].skip # 0 =>
            /\ i + FS_FILE_SKIP_LEN \in DOMAIN log
            /\ disk[log[i].start].skip = log[i + FS_FILE_SKIP_LEN].start

(* The calls the callers make in their order never trip the halts of the SD *)
(* driver: a block write inside another, a multi-block write out of order.  *)
SdProtocol == ret \notin {"SD_WRITE_IN_PROGRESS", "SD_MULTI_BLOCK_OUT_OF_ORDER"}

(* What fs_read hands out is what the recording wrote at that place of that *)
(* file, whatever block the buffer held before (while every block read is   *)
(* on the card).                                                            *)
ReadBack ==
    (rd_ok /\ out # <<>>) =>
        \E i \in DOMAIN log :
            /\ log[i].start = file_startblock_idx
            /\ \A k \in DOMAIN out :
                 out[k] = <<log[i].tag, file_byte_idx - Len(out) + k - 1>>

-----------------------------------------------------------------------------
(* What fs_open finds *)

OpenReturns == pc = "scan" /\ pc' = "idle"

(* fs_open(0, 0), run on the card, opens the newest file, with its length   *)
(* and time, and fails only when there is none; main then reads the number  *)
(* of the next file from g_fs_file_seq.                                     *)
OpenLastFindsLast ==
    [][(OpenReturns /\ ~op.create /\ op.seq = 0) =>
         /\ g_fs_file_seq' = Len(log) + 1
         /\ IF log = <<>> THEN ret' = "NO_EXISTING_FILE"
            ELSE LET f == log[Len(log)]
                 IN  /\ ret' = "NONE" /\ file_startblock_idx' = f.start
                     /\ file_byte_len' = f.len /\ file_rtc' = f.rtc]_vars

(* A new file goes right behind the last one and gets the next number: it   *)
(* overwrites no closed file and leaves no gap the scan would stop at.      *)
NewFileFollows ==
    [][(OpenReturns /\ op.create) =>
         /\ ret' = "NONE"
         /\ file_startblock_idx' = ChainEnd /\ g_fs_file_seq' = Len(log) + 1
         /\ file_startblock_idx' <= CAPACITY - FS_LAST_FILE_BLOCKS]_vars

(* fs_open(0, n) opens file n when there is one (README.md: "fill in the    *)
(* file number").                                                           *)
OpenByNumberFinds ==
    [][(OpenReturns /\ ~op.create /\ op.seq \in DOMAIN log) =>
         ret' = "NONE" /\ file_startblock_idx' = log[op.seq].start]_vars

(* the files that the skip pointer of an earlier one leads past *)
SkippedOver ==
    {n \in DOMAIN log :
        \E i \in DOMAIN log : /\ i < n /\ n < i + FS_FILE_SKIP_LEN
                              /\ disk[log[i].start].skip # 0}

(* It does for every file that no skip pointer leads past, and gives the    *)
(* length and time of that file (fs_get_rtc answers for it).                *)
OpenByNumberUnlessSkipped ==
    [][(OpenReturns /\ ~op.create /\ op.seq \in DOMAIN log \ SkippedOver) =>
         LET f == log[op.seq]
         IN  /\ ret' = "NONE" /\ file_startblock_idx' = f.start
             /\ file_byte_len' = f.len /\ file_rtc' = f.rtc]_vars

(* fs_open(0, 0) answered from RAM opens the last file too                  *)
(* (sw/battor.c: "download last file or <file number>").                    *)
QuickOpenIsLast ==
    [][FsOpenQuick => file_startblock_idx = log[Len(log)].start]_vars

(* Opening a file to read it keeps the traces (README.md: "To end buffering *)
(* and download the trace").                                                *)
OpenToReadKeepsTraces ==
    [][(pc = "fmt_super" /\ op.then # "idle" /\ ~op.create) => log' = log]_vars

-----------------------------------------------------------------------------
(* Progress *)

(* fs_open returns: the scan, the format of a full card and the retry that  *)
(* follows do not go on for ever.                                           *)
OpenReturnsEventually ==
    (pc \in {"scan", "reopen", "fmt_read"}) ~> (pc \in {"idle", "off", "halted"})

(* fs_close returns, whatever was still to be written, also at the end of   *)
(* the card where blocks are dropped.                                       *)
CloseReturnsEventually ==
    (pc = "close_drain") ~> (pc \in {"idle", "off", "halted"})

-----------------------------------------------------------------------------
(* The file system implements the trace store.  The traces are read off the *)
(* card, file by file from block 1, as far as the numbers go up.            *)

TracesOnDisk ==
    LET from[place \in Nat \X Nat] ==
          LET b == place[1]
              s == place[2]
          IN  IF b < CAPACITY /\ IsFile(disk[b], FmtIter, s)
              THEN <<[len |-> disk[b].byte_len, rtc |-> disk[b].rtc]>>
                   \o from[<<b + 1 + BYTES_TO_BLOCKS(disk[b].byte_len), s + 1>>]
              ELSE <<>>
    IN  from[<<1, 1>>]

Recording == IF rec.open THEN <<[len |-> rec.accepted, rtc |-> file_rtc]>>
             ELSE <<>>

Store == INSTANCE TraceStore WITH traces <- TracesOnDisk, cur <- Recording

(* A recording becomes a trace whole, with everything fs_write accepted, in *)
(* the one step that writes its startblock, and no other step changes the   *)
(* traces but a format.                                                     *)
ImplementsStore == Store!Spec

=============================================================================
