------------------------------ MODULE Download ------------------------------
(***************************************************************************)
(* Downloading a file from the card over the UART, and recording for it:   *)
(* the host's sessions (sw/battor.c, params.c, control.c, samples.c)       *)
(* against the firmware's answers (fw/control.c, and                       *)
(* samples_store_read_uart_frame in fw/samples.c).                         *)
(*                                                                         *)
(* Messages are whole; module UartLink has the bytes.  What is left of it  *)
(* here are a reply that breaks off (Cut, which the next START hides, but  *)
(* whose bytes are in the host's buffer when it times out) and the end of  *)
(* a frame whose start was flushed (STRAY): to the host's parser that is   *)
(* the end of whatever begins next, so that the next frame reads as an     *)
(* empty one and leaves its own end behind.                                *)
(*                                                                         *)
(* Requests and replies may be lost and timeouts premature, up to a bound  *)
(* per session; a session may be killed and another one started while the  *)
(* firmware still answers the first.  A timeout falls between two frames:  *)
(* the firmware never stops for a second inside one.  Files are counted in *)
(* buffers of samples; (file, i) is the i-th buffer of a file.             *)
(*                                                                         *)
(* Of the card (module FileSystem has its blocks) there are the lengths of *)
(* its files, the skip pointers fs_open follows past the file it looks     *)
(* for, and whether the last file ends so near the end of the card that    *)
(* the next search formats it.                                             *)
(***************************************************************************)
EXTENDS Integers, Sequences

CONSTANTS
    SAMPLES_LEN_PER_CAL_FRAME, SAMPLES_LEN_PER_DATA_FRAME,  \* in buffers (5, 50)
    CONTROL_ATTEMPTS,  \* tries for a call that has no ack (5)
    SEQ_LIMIT,         \* a request has the sequence number modulo this (2^16)
    WORD,              \* lengths are computed modulo this (2^32 bytes)
    FS_FILE_SKIP_LEN,  \* files from one skip pointer to the next
    FILES,             \* lengths of the files on the card
    RECORDED,          \* bound: lengths a recording may have
    MAX_FAULTS,        \* bound: faults in a session
    MAX_SESSIONS       \* bound: sessions

ASSUME DownloadAssumption ==
    /\ SAMPLES_LEN_PER_CAL_FRAME \in Nat \ {0}
    /\ SAMPLES_LEN_PER_DATA_FRAME \in Nat \ {0}
    /\ CONTROL_ATTEMPTS \in Nat \ {0} /\ SEQ_LIMIT \in Nat \ {0}
    /\ WORD \in Nat \ {0}    \* the length of a file is a uint32_t
    /\ FS_FILE_SKIP_LEN \in Nat \ {0, 1}
    /\ FILES \in Seq(0 .. WORD - 1) /\ RECORDED \subseteq 0 .. WORD - 1
    /\ MAX_FAULTS \in Nat /\ MAX_SESSIONS \in Nat

VARIABLES
    host,       \* the session: see HostOff
    fw,         \* the firmware: see FwBooted
    files,      \* lengths of the files on the card
    card,       \* the rest of it: see Formatted
    to_fw,      \* requests in the firmware's receive ring
    to_host,    \* replies on their way
    sessions, faults

vars == <<host, fw, files, card, to_fw, to_host, sessions, faults>>

(* The calls of a session, in order. *)
Calls(kind) ==
    IF kind = "download"
    THEN <<"GET_GIT_HASH", "SET_RTC", "READ_EEPROM", "GET_MODE_PORTABLE",
           "GET_RTC", "READ_SD_UART">>
    ELSE <<"GET_GIT_HASH", "SET_RTC", "INIT", "READ_EEPROM", "GAIN_SET",
           "START_SAMPLING_SD">>

Acked == {"SET_RTC", "GET_MODE_PORTABLE", "INIT", "GAIN_SET", "START_SAMPLING_SD"}
Tried == {"GET_GIT_HASH", "READ_EEPROM", "GET_RTC"}

Reply(type, of, num, data) == [type |-> type, of |-> of, num |-> num, data |-> data]
Cut(r) == Reply("cut", r.type, 0, <<>>)    \* what is left of r
STRAY == Reply("stray", "", 0, <<>>)
EMPTY == Reply("empty", "", 0, <<>>)

-----------------------------------------------------------------------------
(* The firmware *)

(* The skip pointers (of which files: to the one FS_FILE_SKIP_LEN on), that *)
(* the last file ends near the end, and what the superblock says.           *)
Formatted == [skips |-> {}, full |-> FALSE, portable |-> FALSE]

(* The firmware after a boot, on a card with files fs: fs_info opens the    *)
(* last one.                                                                *)
FwBooted(mode, fs) ==
    [mode |-> mode, inited |-> FALSE, recording |-> FALSE, open |-> Len(fs),
     pc |-> "idle", seq |-> 0, todo |-> <<>>, sent |-> <<>>, headless |-> FALSE]

(* stop_sampling: a recording becomes the last file, and the first of every *)
(* FS_FILE_SKIP_LEN files is pointed to from the first of those before.     *)
Stopped(f)      == [f EXCEPT !.recording = FALSE, !.open = IF f.recording THEN 0 ELSE @]
FilesAfter(len) == IF fw.recording THEN Append(files, len) ELSE files

CardAfter(full) ==
    LET n == Len(files) + 1
        points == (n - 1) % FS_FILE_SKIP_LEN = 0 /\ n > FS_FILE_SKIP_LEN
    IN  IF ~fw.recording THEN card
        ELSE [card EXCEPT !.full = full,
                          !.skips = @ \cup IF points THEN {n - FS_FILE_SKIP_LEN} ELSE {}]

(* A skip pointer leads past file n. *)
Hidden(c, n) ==
    LET skip == n - ((n - 1) % FS_FILE_SKIP_LEN) IN skip < n /\ skip \in c.skips

Found(c, fs, n) == n \in 1 .. Len(fs) /\ ~Hidden(c, n)

(* fs_open(0, n) on card c with files fs: whether it goes without the card, *)
(* the file it opens, 0 for none, and whether its search comes to the end   *)
(* of a full card, which is formatted.                                      *)
Quick(f, fs, n) == n = 0 /\ f.open > 0 /\ fs[f.open] > 0
FsOpen(f, c, fs, n) ==
    CASE Quick(f, fs, n)                             -> f.open
      [] ~Quick(f, fs, n) /\ Found(c, fs, n)         -> n
      [] ~Quick(f, fs, n) /\ n = 0 /\ ~c.full        -> Len(fs)
      [] OTHER                                       -> 0
Wipes(f, c, fs, n) == c.full /\ ~Quick(f, fs, n) /\ ~Found(c, fs, n)

CardIs(c, fs) == card' = c /\ files' = fs
Opening(f, c, fs, n) ==
    IF Wipes(f, c, fs, n) THEN CardIs(Formatted, <<>>) ELSE CardIs(c, fs)

(* Mutant: the calibration frame is not counted. *)
MutFrameStart(seq) ==
    IF seq = 0 THEN 0 ELSE (seq - 1) * SAMPLES_LEN_PER_DATA_FRAME

FrameStart(seq) ==
    IF seq = 0 THEN 0
    ELSE SAMPLES_LEN_PER_CAL_FRAME + (seq - 1) * SAMPLES_LEN_PER_DATA_FRAME

(* The buffers frame seq of a file has; the length left is unsigned, and a  *)
(* start behind the end is only noticed by fs_seek.                         *)
Frame(file, len, seq) ==
    LET start == FrameStart(seq)
        left  == (len - start) % WORD
        size  == CASE seq = 0 -> IF left < SAMPLES_LEN_PER_CAL_FRAME THEN 0
                                 ELSE SAMPLES_LEN_PER_CAL_FRAME
                   [] seq > 0 /\ left < SAMPLES_LEN_PER_DATA_FRAME -> left
                   [] OTHER -> SAMPLES_LEN_PER_DATA_FRAME
    IN  IF start > len THEN <<>> ELSE [i \in 1 .. size |-> <<file, start + i>>]

(* Mutant: the end of a file has sequence number 0, like a missing file. *)
MutEofSeqnum(file, seq) == 0

(* A missing file is answered before seqnum is set from the request. *)
EofSeqnum(file, seq) == IF file = 0 THEN 0 ELSE seq

Send(r) == to_host' = Append(to_host, r)

(* The handler answers at once; the reply may be lost. *)
Answer(r) ==
    \/ Send(r) /\ UNCHANGED faults
    \/ faults < MAX_FAULTS /\ faults' = faults + 1 /\ Send(Cut(r))

(* reset, on purpose or from halt: a recording and what was received go; *)
(* the boot looks for the last file.                                     *)
Reset ==
    /\ IF card.full THEN CardIs(Formatted, <<>>) ELSE UNCHANGED <<card, files>>
    /\ fw' = FwBooted(IF card.portable THEN "portable" ELSE "usb", files')
    /\ to_fw' = <<>> /\ UNCHANGED to_host

Handles(type) == fw.pc = "idle" /\ to_fw # <<>> /\ Head(to_fw).type = type

(* GET_GIT_HASH and READ_EEPROM *)
FwTell ==
    /\ \/ Handles("GET_GIT_HASH") /\ Answer(Reply("hash", "", 0, <<>>))
       \/ Handles("READ_EEPROM") /\ Answer(Reply("eeprom", "", 0, <<>>))
    /\ to_fw' = Tail(to_fw)
    /\ UNCHANGED <<fw, files, card>>

(* The ack, and the flush of what came in meanwhile. *)
Ack(type, value) == Answer(Reply("ack", type, value, <<>>)) /\ to_fw' = <<>>

FwSet ==
    /\ \/ \E type \in {"SET_RTC", "GAIN_SET"} : Handles(type) /\ Ack(type, 0)
       \/ /\ Handles("GET_MODE_PORTABLE")
          /\ Ack("GET_MODE_PORTABLE", IF fw.mode = "portable" THEN 1 ELSE 0)
    /\ UNCHANGED <<fw, files, card>>

FwInit ==
    /\ Handles("INIT")
    /\ \/ fw.inited /\ Reset /\ UNCHANGED faults
       \/ /\ ~fw.inited /\ Ack("INIT", 0)
          /\ fw' = [fw EXCEPT !.inited = TRUE] /\ UNCHANGED <<files, card>>

(* START_SAMPLING_SD: a portable card is formatted, and so is a full one by *)
(* the search for the end of its files.  While a recording is running the   *)
(* driver may halt before the ack, or after it: see FwHalt.                 *)
FwStart ==
    /\ Handles("START_SAMPLING_SD")
    /\ \/ /\ Ack("START_SAMPLING_SD", 0)
          /\ fw' = [fw EXCEPT !.mode = "usb", !.recording = TRUE, !.open = 0]
          /\ IF fw.mode = "portable" \/ card.full THEN CardIs(Formatted, <<>>)
             ELSE UNCHANGED <<card, files>>
       \/ fw.recording /\ Reset /\ UNCHANGED faults

(* A recording halts the firmware: started over another one, its driver at  *)
(* the first block; the ring is full; closed past the end of the card.      *)
FwHalt ==
    /\ fw.recording /\ fw.pc = "idle"
    /\ faults < MAX_FAULTS /\ faults' = faults + 1
    /\ Reset /\ UNCHANGED <<host, sessions>>

(* GET_RTC: the file's time, or zeros when it cannot be opened; the card    *)
(* may fail to be read.                                                     *)
FwGetRtc ==
    /\ Handles("GET_RTC")
    /\ \E len \in RECORDED, full \in BOOLEAN :
         LET f    == Stopped(fw)
             fs   == FilesAfter(len)
             c    == CardAfter(full)
             n    == Head(to_fw).file
             file == FsOpen(f, c, fs, n)
         IN  \/ /\ Answer(Reply("rtc", "", file, <<>>))
                /\ Opening(f, c, fs, n) /\ fw' = [f EXCEPT !.open = file]
             \/ /\ faults < MAX_FAULTS /\ faults' = faults + 1
                /\ ~Quick(f, fs, n) /\ CardIs(c, fs)
                /\ Send(Reply("rtc", "", 0, <<>>))
                /\ fw' = [f EXCEPT !.open = 0]
    /\ to_fw' = Tail(to_fw)

(* READ_SD_UART up to the loop over the buffers: a frame with no buffers is *)
(* sent at once; the card may fail here too, and when the UART stays busy   *)
(* nothing is opened or sent.                                               *)
FwRead ==
    /\ Handles("READ_SD_UART")
    /\ \E len \in RECORDED, full \in BOOLEAN :
         LET f    == Stopped(fw)
             fs   == FilesAfter(len)
             c    == CardAfter(full)
             n    == Head(to_fw).file
             seq  == Head(to_fw).seq
             file == FsOpen(f, c, fs, n)
             todo == IF file = 0 THEN <<>> ELSE Frame(file, fs[file], seq)
             eof(k) == Reply("frame", "", EofSeqnum(k, seq), <<>>)
         IN  \/ /\ todo = <<>> /\ Answer(eof(file))
                /\ Opening(f, c, fs, n) /\ fw' = [f EXCEPT !.open = file]
             \/ /\ todo # <<>> /\ UNCHANGED <<to_host, faults>>
                /\ CardIs(c, fs)
                /\ fw' = [f EXCEPT !.open = file, !.pc = "send", !.seq = seq,
                                   !.todo = todo, !.sent = <<>>]
             \/ /\ faults < MAX_FAULTS /\ faults' = faults + 1
                /\ CardIs(c, fs)
                /\ \/ ~Quick(f, fs, n) /\ Send(eof(0)) /\ fw' = [f EXCEPT !.open = 0]
                   \/ UNCHANGED to_host /\ fw' = f
    /\ to_fw' = Tail(to_fw)

SendDone == [fw EXCEPT !.pc = "idle", !.todo = <<>>, !.sent = <<>>, !.headless = FALSE]

(* The next buffer goes into the frame. *)
FwSendBuffer ==
    /\ fw.pc = "send" /\ to_fw = <<>> /\ fw.todo # <<>>
    /\ fw' = [fw EXCEPT !.todo = Tail(@), !.sent = Append(@, Head(fw.todo))]
    /\ UNCHANGED <<files, card, to_fw, to_host, faults>>

(* Something was received: the frame is left as it is.  So it is when the   *)
(* UART stays busy.                                                         *)
FwAbort ==
    /\ fw.pc = "send" /\ fw.todo # <<>>
    /\ \/ to_fw # <<>> /\ UNCHANGED faults
       \/ to_fw = <<>> /\ faults < MAX_FAULTS /\ faults' = faults + 1
    /\ fw' = SendDone
    /\ to_host' = IF fw.sent = <<>> \/ fw.headless THEN to_host
                  ELSE Append(to_host, Reply("cut", "frame", 0, <<>>))
    /\ UNCHANGED <<files, card, to_fw>>

FwSendEnd ==
    /\ fw.pc = "send" /\ fw.todo = <<>>
    /\ fw' = SendDone
    /\ IF fw.headless THEN Send(STRAY) /\ UNCHANGED faults
       ELSE Answer(Reply("frame", "", fw.seq, fw.sent))
    /\ UNCHANGED <<files, card, to_fw>>

FwStep ==
    /\ \/ FwTell \/ FwSet \/ FwInit \/ FwStart \/ FwGetRtc \/ FwRead
       \/ FwSendBuffer \/ FwAbort \/ FwSendEnd
    /\ UNCHANGED <<host, sessions>>

-----------------------------------------------------------------------------
(* The host *)

HostOff ==
    [pc |-> "off", kind |-> "download", file |-> 0, step |-> 1, tries |-> 0,
     next |-> 0, got |-> <<>>, stamp |-> 0, warned |-> FALSE, end |-> "none",
     clean |-> TRUE, kept |-> FALSE]    \* history: see Begin

Call == Calls(host.kind)[host.step]

(* uart_init flushes what was received; a frame may be half in.  clean:     *)
(* nothing is under way; kept: a file is open by number, or will be.        *)
Begin(kind, file) ==
    /\ host.pc = "off" /\ sessions < MAX_SESSIONS
    /\ host' = [HostOff EXCEPT !.pc = "ask", !.kind = kind, !.file = file,
                  !.clean = fw.pc = "idle" /\ to_fw = <<>> /\ to_host = <<>>,
                  !.kept = \/ fw.open \notin {0, Len(files)}
                           \/ \E i \in 1 .. Len(to_fw) : to_fw[i].file > 0]
    /\ sessions' = sessions + 1 /\ faults' = 0
    /\ fw' = [fw EXCEPT !.headless = fw.sent # <<>>]
    /\ \/ to_host' = <<>>
       \/ to_host # <<>> /\ to_host' = <<STRAY>>
    /\ UNCHANGED <<files, card, to_fw>>

Kill ==
    /\ host.pc # "off" /\ sessions < MAX_SESSIONS
    /\ host' = [host EXCEPT !.pc = "off", !.end = "killed"]
    /\ UNCHANGED <<fw, files, card, to_fw, to_host, sessions, faults>>

(* control sends a message. *)
Ask ==
    /\ host.pc = "ask"
    /\ host' = [host EXCEPT !.pc = "wait",
                            !.tries = IF Call \in Tried THEN @ + 1 ELSE @]
    /\ \/ /\ to_fw' = Append(to_fw, [type |-> Call, file |-> host.file,
                                     seq |-> host.next % SEQ_LIMIT])
          /\ UNCHANGED faults
       \/ faults < MAX_FAULTS /\ faults' = faults + 1 /\ UNCHANGED to_fw
    /\ UNCHANGED <<fw, files, card, to_host, sessions>>

Again    == [host EXCEPT !.pc = "ask"]
Over(how) == [host EXCEPT !.pc = "off", !.end = how]
NextCall ==
    IF host.step = Len(Calls(host.kind)) THEN Over("done")
    ELSE [host EXCEPT !.pc = "ask", !.step = @ + 1, !.tries = 0]

(* Mutant: one try less. *)
MutOutOfTries == host.tries >= CONTROL_ATTEMPTS - 1

(* tries++ < CONTROL_ATTEMPTS, then tries >= CONTROL_ATTEMPTS: a reply to   *)
(* the last try counts as none.                                             *)
OutOfTries == host.tries >= CONTROL_ATTEMPTS

AfterTries(ok) ==
    CASE OutOfTries        -> Over("failed")
      [] ~OutOfTries /\ ok  -> NextCall
      [] ~OutOfTries /\ ~ok -> Again

(* Replies of at least n bytes; the rest is not looked at. *)
HasBytes(r, n) ==
    \/ r.type \in {"rtc", "eeprom"} \/ (r.type = "frame" /\ r.data # <<>>)
    \/ r.type = "hash" /\ n <= 7

(* Mutant: the length of the reply is not looked at. *)
MutIsRtc(r) == TRUE

IsRtc(r) == HasBytes(r, 8)

(* The EEPROM's parameters, or enough of them: only the magic at their      *)
(* start is looked at.                                                      *)
IsEeprom(r) == r.type = "eeprom" \/ (r.type = "cut" /\ r.of = "eeprom")

(* The time stamp the last try for it leaves, behind "Warning: Could not    *)
(* fetch RTC timestamp for file, starting at 0": what was received, without *)
(* its first byte, since sizeof(rtc) is that of the local char rtc.  An ack *)
(* has its value behind that; in all else but zeros the rest is not the     *)
(* time of a file.                                                          *)
StampLeft(r) ==
    IF r = EMPTY \/ (r.type \in {"rtc", "ack"} /\ r.num = 0) THEN 0 ELSE -1

(* samples_print_loop on a frame: -2 and 0 ask again, -1 ends *)
AfterFrame(r) ==
    CASE r.type = "frame" /\ r.num = host.next /\ r.data # <<>> ->
            [host EXCEPT !.pc = "ask", !.next = @ + 1, !.got = @ \o r.data]
      [] r.type = "frame" /\ r.num = host.next /\ r.data = <<>> ->
            IF host.next = 0 THEN Over("not found") ELSE Over("done")
      [] OTHER -> Again

(* What the host does on reply r to its call.  A reply that broke off before *)
(* a timeout counts as none, but for its bytes.                              *)
After(r) ==
    CASE Call = "GET_GIT_HASH" /\ HasBytes(r, 7) /\ r.type # "hash" -> Over("mismatch")
      [] Call = "GET_GIT_HASH" /\ ~(HasBytes(r, 7) /\ r.type # "hash") ->
            AfterTries(r.type = "hash")
      [] Call = "READ_EEPROM" -> AfterTries(IsEeprom(r))
      [] Call = "GET_RTC" /\ OutOfTries ->
            [NextCall EXCEPT !.stamp = StampLeft(r), !.warned = TRUE]
      [] Call = "GET_RTC" /\ ~OutOfTries ->
            IF IsRtc(r)
            THEN [NextCall EXCEPT !.stamp = IF r.type = "rtc" THEN r.num ELSE -1]
            ELSE Again
      [] Call = "READ_SD_UART" -> AfterFrame(r)
      [] Call \in Acked ->
            CASE r.type # "ack" \/ r.of # Call -> Again
              [] r.type = "ack" /\ r.of = Call /\ Call = "GET_MODE_PORTABLE"
                   /\ r.num = 0 /\ host.file > 0 -> Over("usb")
              [] OTHER -> NextCall

(* uart_rx_bytes on the replies there are: what it returns and leaves *)
Whole(r) == r.type \notin {"cut", "stray"}
Heard ==
    {i \in 1 .. Len(to_host) :
        Whole(to_host[i]) \/ (i > 1 /\ to_host[i - 1] = STRAY)}

Hear ==
    /\ host.pc = "wait" /\ Heard # {}
    /\ LET i    == CHOOSE i \in Heard : \A j \in Heard : i <= j
           rest == SubSeq(to_host, i + 1, Len(to_host))
       IN  IF i > 1 /\ to_host[i - 1] = STRAY
           THEN /\ host' = After(EMPTY)
                /\ to_host' = IF Whole(to_host[i]) THEN <<STRAY>> \o rest ELSE rest
           ELSE host' = After(to_host[i]) /\ to_host' = rest
    /\ UNCHANGED <<fw, files, card, to_fw, sessions, faults>>

(* Nothing is heard for long enough; unless nothing is coming, too early.   *)
(* Replies that broke off may have left bytes.                              *)
NothingComes == fw.pc = "idle" /\ to_fw = <<>>

TimesOut ==
    /\ host.pc = "wait" /\ Heard = {} /\ fw.sent = <<>>
    /\ \/ NothingComes /\ UNCHANGED faults
       \/ ~NothingComes /\ faults < MAX_FAULTS /\ faults' = faults + 1
    /\ \/ host' = After(EMPTY)
       \/ \E i \in 1 .. Len(to_host) :
             to_host[i].type = "cut" /\ host' = After(to_host[i])
    /\ to_host' = <<>>
    /\ UNCHANGED <<fw, files, card, to_fw, sessions>>

HostStep == Ask \/ Hear \/ TimesOut

-----------------------------------------------------------------------------

Init ==
    /\ host = HostOff /\ files = FILES
    /\ \E portable \in BOOLEAN,
          skips \in SUBSET {n \in 1 .. Len(FILES) - FS_FILE_SKIP_LEN :
                               (n - 1) % FS_FILE_SKIP_LEN = 0} :
         card = [Formatted EXCEPT !.skips = skips, !.portable = portable]
    /\ \E recording \in BOOLEAN :
         fw = [FwBooted(IF card.portable THEN "portable" ELSE "usb", FILES)
                 EXCEPT !.recording = recording, !.open = IF recording THEN 0 ELSE @]
    /\ to_fw = <<>> /\ to_host = <<>> /\ sessions = 0 /\ faults = 0

Next ==
    \/ FwStep \/ FwHalt \/ HostStep \/ Kill
    \/ \E file \in 0 .. Len(FILES) + 1 : Begin("download", file)
    \/ Begin("buffer", 0)

(* The firmware's loop goes on, and so does a session that is not killed. *)
Spec     == Init /\ [][Next]_vars
FairSpec == Spec /\ WF_vars(FwStep) /\ WF_vars(HostStep)

-----------------------------------------------------------------------------
(* Properties *)

Buffers(file, n) == [i \in 1 .. n |-> <<file, i>>]

(* The file a download is of; without a number the last one, unless another *)
(* one was left open before.                                                *)
IsRequested(file) ==
    CASE host.file > 0 -> file = host.file
      [] host.file = 0 /\ ~host.kept -> file = Len(files)
      [] OTHER -> file \in 1 .. Len(files)

(* What was downloaded is a run of the requested file from its start, all   *)
(* of it when the download ended as if it was; "not found" is true, or the  *)
(* file is shorter than the calibration, a skip pointer leads past it, or   *)
(* the card could not be read (samples.c 324-485, sw/samples.c 111-186).    *)
(* No files are also what the search leaves of a full card.                 *)
DownloadIsFile ==
    LET n == Len(host.got) IN
    /\ n > 0 => \E file \in 1 .. Len(files) :
         /\ IsRequested(file) /\ host.got = Buffers(file, n)
         /\ host.end = "done" => n = files[file]
    /\ host.end = "not found" /\ faults = 0 =>
         \/ host.file > Len(files) \/ files = <<>> \/ Hidden(card, host.file)
         \/ \E file \in 1 .. Len(files) :
               IsRequested(file) /\ files[file] < SAMPLES_LEN_PER_CAL_FRAME

(* The time stamps come from the file that is printed, or there are none    *)
(* (params.c 23-44), unless the host has warned that it starts at zero: a   *)
(* late reply to something else never passes for one.                       *)
RtcOfFile ==
    ~host.warned =>
        /\ host.stamp # -1
        /\ host.stamp > 0 /\ host.got # <<>> => host.got[1][1] = host.stamp

(* A session that finds the link quiet gives up on the BattOr only after    *)
(* one fault less than it has tries (params.c 36, 66, 127).                 *)
CleanSessionSucceeds ==
    host.clean /\ host.end \in {"failed", "mismatch"} =>
        faults >= CONTROL_ATTEMPTS - 1

(* Files so long that the sequence number comes round before their end. *)
TooLong ==
    \E i \in 1 .. Len(files) :
        files[i] > SAMPLES_LEN_PER_CAL_FRAME
                     + (SEQ_LIMIT - 2) * SAMPLES_LEN_PER_DATA_FRAME

(* A session ends, whatever is lost or late on the way; but a download of a *)
(* file whose sequence numbers come round does not.                         *)
DownloadEnds ==
    [](host.pc # "off" =>
         <>(host.pc = "off" \/ (TooLong /\ host.next >= SEQ_LIMIT)))

=============================================================================
