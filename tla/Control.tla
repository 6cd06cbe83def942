------------------------------ MODULE Control ------------------------------
(***************************************************************************)
(* The modes of the BattOr (fw/control.c, and the boot in main.c): what    *)
(* the host's control messages and the button make it do, how it boots,    *)
(* and what the LED tells the user.                                        *)
(*                                                                         *)
(* Each handler runs to its end before the main loop goes on, so that it   *)
(* is a function of the firmware's state s; a handler that halts ends      *)
(* there.  The file system is the one of module FileSystem, reduced to the *)
(* number of files of the current formatting, whether a file is being      *)
(* recorded, and whether the card has a multi-block write open.            *)
(***************************************************************************)
EXTENDS Panel, Sequences

CONSTANTS
    MAX_FILES,     \* the files the card has room for
    MAX_LATE       \* bound: the ms that may pass between two updates

ASSUME ControlAssumption == MAX_FILES \in Nat \ {0} /\ MAX_LATE \in Nat \ {0}

VARIABLES
    fw,         \* the firmware: see FwType
    card,       \* what is on the card
    blink, button,
    is_down,    \* the button itself
    odd,        \* history: what happened that a caller should avoid
    acted       \* history: the button did something and was not seen up since

vars == <<fw, card, blink, button, is_down, odd, acted>>

UsbModes  == {"USB_IDLE", "USB_STORE"}
PortModes == {"PORT_IDLE", "PORT_STORE"}
Storing(s) == s.mode \in {"USB_STORE", "PORT_STORE"}

(* The whole state a handler works on. *)
Now == [mode |-> fw.mode, inited |-> fw.inited, gain |-> fw.gain,
        sampling |-> fw.sampling, file |-> fw.file, seq |-> fw.seq,
        multi |-> fw.multi, too_long |-> fw.too_long,
        halt |-> fw.halt, reset |-> FALSE,
        was_full |-> FALSE, card |-> card, blink |-> blink]

Halt(s, why) == [s EXCEPT !.halt = why]
Up(s) == s.halt = "no" /\ ~s.reset

-----------------------------------------------------------------------------
(* The file system and the pipeline, as control.c sees them *)

(* fs_init *)
FsInit(s) == [s EXCEPT !.file = FALSE, !.seq = 1, !.too_long = FALSE]

(* fs_format: the driver halts, or reads fail, in an open multi-block write *)
FsFormat(s, portable) ==
    IF ~Up(s) THEN s
    ELSE IF s.multi THEN Halt(s, "card in use")
    ELSE [FsInit(s) EXCEPT !.card = [formatted |-> TRUE, portable |-> portable,
                                     files |-> 0]]

(* fs_open formats a card on which no file can start any more, for USB. *)
Full(c)  == c.formatted /\ c.files = MAX_FILES
UsbCard  == [formatted |-> TRUE, portable |-> FALSE, files |-> 0]

(* fs_open(1, 0).  The card may refuse to read in a multi-block write. *)
FsCreate(s, refused) ==
    LET c == IF s.card.formatted /\ ~Full(s.card) THEN s.card ELSE UsbCard
    IN  IF s.multi /\ (refused \/ c # s.card)
        THEN Halt(FsInit(s), "card in use")
        ELSE [s EXCEPT !.file = TRUE, !.seq = c.files + 1, !.card = c,
                       !.too_long = FALSE, !.was_full = Full(s.card)]

(* fs_open(0, n): the last file for n = 0, which may still be open (quick). *)
(* A file that a skip pointer leads past is searched for like one that is   *)
(* not there: FileSystem has the pointers.                                  *)
FsOpenOld(s, n, quick) ==
    CASE ~Up(s) \/ (n = 0 /\ quick) -> s
      [] Up(s) /\ n \in 1 .. s.card.files ->
            [FsInit(s) EXCEPT !.seq = n]
      [] Up(s) /\ n \notin 1 .. s.card.files /\ ~(n = 0 /\ quick) ->
            IF s.multi /\ Full(s.card) THEN Halt(s, "card in use")
            ELSE LET c == IF Full(s.card) THEN UsbCard ELSE s.card IN
                 [FsInit(s) EXCEPT !.seq = c.files + 1, !.card = c,
                           !.was_full = Full(s.card)]

(* Mutant: the multi-block write is not ended. *)
MutFsClose(s) ==
    IF ~s.file \/ s.too_long THEN Halt(s, "close failed")
    ELSE [FsInit(s) EXCEPT !.card.files = @ + 1]

(* fs_close, through fs_init.  FS_ERROR_FILE_TOO_LONG leaves the file and   *)
(* the multi-block write as they are.                                       *)
FsClose(s) ==
    IF ~s.file \/ s.too_long THEN Halt(s, "close failed")
    ELSE [FsInit(s) EXCEPT !.multi = FALSE, !.card.files = @ + 1]

(* samples_start *)
SamplesStart(s, refused) ==
    IF ~Up(s) THEN s
    ELSE LET s1 == IF Storing(s) THEN FsCreate(s, refused) ELSE s IN
         IF ~Up(s1) THEN s1
         ELSE IF s1.gain = "bad" THEN Halt(s1, "gain")
         ELSE [s1 EXCEPT !.sampling = TRUE]

(* samples_stop *)
SamplesStop(s) ==
    LET s1 == [s EXCEPT !.sampling = FALSE] IN
    IF Storing(s) THEN FsClose(s1) ELSE s1

-----------------------------------------------------------------------------
(* The handlers *)

(* Mutant: after a portable recording the mode stays. *)
MutIdleMode(mode) == IF mode = "USB_STORE" THEN "USB_IDLE" ELSE mode

IdleMode(mode) == CASE mode = "USB_STORE" -> "USB_IDLE"
                    [] mode = "PORT_STORE" -> "PORT_IDLE"
                    [] OTHER -> mode

(* Mutant: the count is set after the file was closed. *)
MutStopSampling(s) ==
    LET s1 == SamplesStop([s EXCEPT !.blink = SetLed(s.blink)]) IN
    IF ~Up(s1) THEN s1
    ELSE [s1 EXCEPT !.mode = IdleMode(s.mode),
                    !.blink = IF s.mode = "PORT_STORE"
                              THEN SetStrobeCount(@, s1.seq + 1) ELSE @]

(* stop_sampling *)
StopSampling(s) ==
    LET b  == IF s.mode = "PORT_STORE" THEN SetStrobeCount(s.blink, s.seq + 1)
              ELSE s.blink
        s1 == SamplesStop([s EXCEPT !.blink = SetLed(b)])
    IN  IF Up(s1) THEN [s1 EXCEPT !.mode = IdleMode(s.mode)] ELSE s1

ShowFile(s) ==
    IF Up(s) THEN [s EXCEPT !.blink = SetStrobeCount(@, s.seq)] ELSE s

Start(s, mode, refused) ==
    IF ~Up(s) THEN s
    ELSE SamplesStart([s EXCEPT !.mode = mode,
                                !.blink = SetStrobeCount(SetLed(@), 1)], refused)

Press(s, refused) ==
    CASE s.mode = "PORT_IDLE" ->
            ShowFile(SamplesStart([s EXCEPT !.mode = "PORT_STORE",
                                            !.blink = SetLed(@)], refused))
      [] s.mode = "PORT_STORE" -> StopSampling(s)
      [] OTHER -> s

Hold(s) ==
    LET s1 == FsFormat(StopSampling(s), TRUE) IN
    IF Up(s1) THEN ShowFile([s1 EXCEPT !.mode = "PORT_IDLE"]) ELSE s1

(* Mutant: a portable card is not formatted for USB. *)
MutStartSd(s, refused) == Start(s, "USB_STORE", refused)

StartSd(s, refused) ==
    Start(IF s.mode \in PortModes THEN FsFormat(s, FALSE) ELSE s,
          "USB_STORE", refused)

(* fs_self_test formats for USB, and ends with a formatting and a file. *)
SelfTest(s) ==
    IF s.multi THEN Halt(s, "card in use")
    ELSE [FsFormat(s, FALSE) EXCEPT !.card.files = 1]

(* control_run_message *)
Run(s, m) ==
    CASE m.type = "INIT" -> IF s.inited THEN [s EXCEPT !.reset = TRUE]
                            ELSE [s EXCEPT !.inited = TRUE]
      [] m.type = "RESET" -> [s EXCEPT !.reset = TRUE]
      [] m.type = "GAIN_SET" -> [s EXCEPT !.gain = m.gain]
      [] m.type = "START_SAMPLING_UART" -> Start(s, "STREAM", m.refused)
      [] m.type = "START_SAMPLING_SD" -> StartSd(s, m.refused)
      [] m.type \in {"READ_SD_UART", "GET_RTC"} -> FsOpenOld(StopSampling(s), m.file, m.quick)
      [] m.type = "SELF_TEST" -> SelfTest(s)

Messages ==
    [type : {"INIT", "RESET", "SELF_TEST"}]
    \cup [type : {"GAIN_SET"}, gain : {"ok", "bad"}]
    \cup [type : {"START_SAMPLING_UART", "START_SAMPLING_SD"}, refused : BOOLEAN]
    \cup [type : {"READ_SD_UART", "GET_RTC"}, file : 0 .. MAX_FILES,
          quick : {FALSE}]
    \cup [type : {"READ_SD_UART", "GET_RTC"}, file : {0}, quick : {TRUE}]

-----------------------------------------------------------------------------
(* Steps *)

(* The handler's result s; before: what its message does that is odd. *)
Store(s, before) ==
    /\ fw' = [mode |-> s.mode, inited |-> s.inited, gain |-> s.gain,
              sampling |-> s.sampling, file |-> s.file, seq |-> s.seq,
              multi |-> s.multi, too_long |-> s.too_long,
              halt |-> IF s.reset THEN "reset" ELSE s.halt]
    /\ card' = s.card /\ blink' = s.blink
    /\ odd' = odd \cup before \cup (IF s.was_full THEN {"full"} ELSE {})

(* main, from the reset to its loop.  garbage: what a card that was never   *)
(* formatted has where a superblock says whether it is portable; fs_info    *)
(* does not look at the magic.                                              *)
BootState(c, garbage) ==
    LET portable == IF c.formatted THEN c.portable ELSE garbage
    IN  [mode |-> IF portable THEN "PORT_IDLE" ELSE "USB_IDLE",
         inited |-> FALSE, gain |-> "ok", sampling |-> FALSE, file |-> FALSE,
         seq |-> IF Full(c) THEN 1 ELSE c.files + 1, multi |-> FALSE,
         too_long |-> FALSE, halt |-> "no"]

Booted(f, b) ==
    IF f.mode = "PORT_IDLE" THEN SetStrobeCount(b, f.seq) ELSE b

Init ==
    /\ card = [formatted |-> FALSE, portable |-> FALSE, files |-> 0]
    /\ \E garbage \in BOOLEAN :
         /\ fw = BootState(card, garbage)
         /\ odd = IF garbage THEN {"foreign"} ELSE {}
    /\ blink = Booted(fw, BlinkInit)
    /\ button = ButtonUp /\ is_down = FALSE /\ acted = FALSE

Boot ==
    /\ fw.halt # "no"
    /\ \E garbage \in BOOLEAN :
         /\ fw' = BootState(card, garbage)
         /\ odd' = (IF ~card.formatted /\ garbage THEN {"foreign"} ELSE {})
                     \cup (IF Full(card) THEN {"full"} ELSE {})
    /\ card' = IF Full(card) THEN UsbCard ELSE card    \* fs_info's fs_open(0, 0)
    /\ blink' = Booted(fw', BlinkInit)
    /\ button' = ButtonUp /\ acted' = FALSE
    /\ UNCHANGED is_down

Running == fw.halt = "no"

(* What a message does that its sender should have avoided. *)
Oddity(m) ==
    CASE m.type = "SELF_TEST" -> {"tested"}
      [] m.type = "START_SAMPLING_UART" ->
            (IF Storing(fw) THEN {"restarted"} ELSE {})
            \cup (IF fw.mode \in PortModes THEN {"streamed"} ELSE {})
      [] m.type = "START_SAMPLING_SD" ->
            IF Storing(fw) THEN {"restarted"} ELSE {}
      [] OTHER -> {}

(* control_got_uart_bytes *)
GotMessage(m) ==
    /\ Running
    /\ Store(Run(Now, m), Oddity(m))
    /\ UNCHANGED <<button, is_down, acted>>

(* A block of the recording goes to the card, or past its end: then the     *)
(* data is dropped, and there may be no place for the last, partial block.  *)
StoreBlock ==
    /\ Running /\ Storing(fw) /\ fw.sampling
    /\ IF fw.file
       THEN \E past \in BOOLEAN : fw' = [fw EXCEPT !.multi = TRUE, !.too_long = past]
       ELSE fw' = [fw EXCEPT !.halt = "write failed"]
    /\ UNCHANGED <<card, blink, button, is_down, odd, acted>>

(* A file opened while the multi-block write of another was never ended. *)
OutOfOrder ==
    /\ Running /\ Storing(fw) /\ fw.multi /\ "restarted" \in odd
    /\ fw' = [fw EXCEPT !.halt = "card in use"]
    /\ UNCHANGED <<card, blink, button, is_down, odd, acted>>

ButtonMoves ==
    /\ is_down' = ~is_down
    /\ UNCHANGED <<fw, card, blink, button, odd, acted>>

(* The timer's handlers: the LED, then the button. *)
Tick(d, refused) ==
    /\ Running
    /\ LET u == ButtonUpdate(button, is_down, d)
           s == [Now EXCEPT !.blink = BlinkUpdate(@, d)]
       IN  /\ button' = u.to
           /\ Store(CASE u.call = "press" -> Press(s, refused)
                      [] u.call = "hold" -> Hold(s)
                      [] u.call = "none" -> s, {})
           /\ acted' = IF ~is_down THEN FALSE ELSE acted \/ u.call # "none"
    /\ UNCHANGED is_down

Next ==
    \/ \E m \in Messages : GotMessage(m)
    \/ \E d \in 1 .. MAX_LATE, refused \in BOOLEAN : Tick(d, refused)
    \/ StoreBlock \/ OutOfOrder \/ ButtonMoves \/ Boot

Spec == Init /\ [][Next]_vars

-----------------------------------------------------------------------------
(* Properties *)

FwType == [mode : UsbModes \cup PortModes \cup {"STREAM"}, inited : BOOLEAN,
           gain : {"ok", "bad"}, sampling : BOOLEAN, file : BOOLEAN,
           seq : 1 .. MAX_FILES + 1, multi : BOOLEAN, too_long : BOOLEAN,
           halt : {"no", "reset", "gain", "card in use", "close failed",
                   "write failed"}]
BlinkType == [first : BOOLEAN, ms : 0 .. BLINK_WRAP - 1,
              state : {"FIRST", "WAIT_FOR_LED_ON", "LED_ON", "LED_OFF"},
              strobe_ms : 0 .. BLINK_ON + BLINK_OFF, idx : Nat,
              count : Nat \ {0}, led : BOOLEAN, pulses : Nat]

TypeOK ==
    /\ fw \in FwType /\ blink \in BlinkType
    /\ card \in [formatted : BOOLEAN, portable : BOOLEAN, files : 0 .. MAX_FILES]
    /\ button \in [state : {"IDLE", "HOLDING", "HELD"},
                   down_ms : 0 .. BUTTON_HOLD_MS]
    /\ is_down \in BOOLEAN /\ acted \in BOOLEAN
    /\ odd \subseteq {"tested", "restarted", "streamed", "foreign", "full"}

(* In portable mode the LED counts out the file being recorded, or the next *)
(* one (control.c 20, 195, 215 and main.c 34), over any history of presses, *)
(* holds, messages and boots; a self test, and an open that found the card  *)
(* full, format the card without telling the LED.                           *)
StrobeShowsFile ==
    Running /\ odd \cap {"tested", "full"} = {} =>
        /\ fw.mode \in PortModes => blink.count = card.files + 1
        /\ fw.mode = "PORT_STORE" => fw.seq = card.files + 1

(* A recording mode has a file open and samples coming (control.c 185-201), *)
(* unless a self test went over the file system meanwhile.                  *)
RecordingHasFile ==
    Running /\ Storing(fw) /\ "tested" \notin odd => fw.file /\ fw.sampling

(* The firmware does not bring itself to a halt: the driver finds a write   *)
(* open, the file system finds no file, only after sampling was started     *)
(* while recording, or after a self test (control.c 90-110, sd.c 260).  But *)
(* a recording that came to the end of the card may halt when it is closed  *)
(* (fs.c 350 and 369, samples.c 133).                                       *)
HaltNeedsRestart ==
    fw.halt \in {"card in use", "close failed", "write failed"} =>
        \/ odd \cap {"restarted", "tested"} # {}
        \/ fw.halt = "close failed" /\ fw.too_long

(* The mode is the one the card would boot into (control.c 101, main.c 25), *)
(* but for a card booted unformatted, a self test, an open that found the   *)
(* card full, and a stream that was started in portable mode: a recording   *)
(* for USB then goes on the portable card.                                  *)
ModeMatchesCard ==
    Running /\ card.formatted /\ odd \cap {"foreign", "tested", "full"} = {} =>
        /\ fw.mode \in PortModes => card.portable
        /\ fw.mode \in UsbModes /\ "streamed" \notin odd => ~card.portable

(* The button does one thing each time it is pressed (button.c 40-79): one  *)
(* that was held and formatted the card does not start a recording when it  *)
(* is let go, nor format it twice.                                          *)
OncePerPress ==
    [][(Running /\ button.state = "HOLDING" /\ button'.state # "HOLDING")
         => ~acted]_vars

(* A row of pulses that is not cut short has as many as the count, and      *)
(* leaves the LED off (blink.c 56-86), however late its updates come.       *)
RowShowsCount ==
    [][(Running /\ ~blink.first /\ blink.state # "FIRST" /\ blink'.state = "FIRST")
         => blink.pulses = blink.count /\ ~blink.led]_vars

=============================================================================
