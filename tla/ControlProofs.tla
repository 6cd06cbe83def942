--------------------------- MODULE ControlProofs ---------------------------
(***************************************************************************)
(* The modes and the front panel, for every length of a hold and of a row  *)
(* of pulses, any number of files, and updates that come any time late.    *)
(* The properties of a handler are stated of the state it works on and of  *)
(* the oddities so far, so that they carry from one call to the next       *)
(* inside the handler.                                                     *)
(***************************************************************************)
EXTENDS Control, TLAPS

CardType == [formatted : BOOLEAN, portable : BOOLEAN, files : 0 .. MAX_FILES]
Modes    == UsbModes \cup PortModes \cup {"STREAM"}
Halts    == {"no", "reset", "gain", "card in use", "close failed", "write failed"}

StateType ==
    [mode : Modes, inited : BOOLEAN, gain : {"ok", "bad"},
     sampling : BOOLEAN, file : BOOLEAN, seq : 1 .. MAX_FILES + 1,
     multi : BOOLEAN, too_long : BOOLEAN, halt : Halts, reset : BOOLEAN, was_full : BOOLEAN,
     card : CardType, blink : BlinkType]

(* A row of pulses that was begun: how many it has had. *)
RowState(b) ==
    ~b.first =>
        /\ b.state = "WAIT_FOR_LED_ON" =>
              b.pulses = b.idx /\ b.idx <= b.count /\ ~b.led
        /\ b.state = "LED_ON" => b.pulses = b.idx + 1 /\ b.idx < b.count
        /\ b.state = "LED_OFF" =>
              b.pulses = b.idx + 1 /\ b.idx < b.count /\ ~b.led

(* What holds of the card, the open file and the LED, halted or not. *)
Steady(s) ==
    /\ s \in StateType
    /\ ~s.card.formatted => s.card.files = 0 /\ ~s.card.portable
    /\ s.file => /\ s.card.formatted
                 /\ s.seq = s.card.files + 1
                 /\ s.card.files < MAX_FILES
    /\ RowState(s.blink)

(* Each part of the state a handler may be called in; o: the oddities. *)
Careless(o) == o \cap {"restarted", "tested"} # {}
Shows(s, o) ==
    o \cap {"tested", "full"} = {} =>
        /\ s.mode \in PortModes => s.blink.count = s.card.files + 1
        /\ s.mode = "PORT_STORE" => s.seq = s.card.files + 1
Records(s, o) == Storing(s) /\ "tested" \notin o => s.file /\ s.sampling
Matches(s, o) ==
    o \cap {"foreign", "tested", "full"} = {} =>
        /\ s.mode \in PortModes => s.card.formatted /\ s.card.portable
        /\ s.mode \notin PortModes /\ "streamed" \notin o => ~s.card.portable
WritesFile(s, o) == s.multi /\ ~Careless(o) => Storing(s)
Alive(s, o) == Shows(s, o) /\ Records(s, o) /\ Matches(s, o) /\ WritesFile(s, o)

HaltedRightly(s, o) ==
    s.halt \in {"card in use", "close failed", "write failed"} =>
        Careless(o) \/ (s.halt = "close failed" /\ s.too_long)

Sound(s, o) == Steady(s) /\ HaltedRightly(s, o) /\ (Up(s) => Alive(s, o))

(* Only a button that is held may have acted. *)
ActedIsHeld == acted => button.state = "HELD"

IInv == TypeOK /\ Sound(Now, odd) /\ ActedIsHeld

-----------------------------------------------------------------------------
(* The LED *)

LEMMA Limits ==
    /\ 0 \in 0 .. BLINK_WRAP - 1 /\ BLINK_INTERVAL \in 0 .. BLINK_WRAP - 1
    /\ 0 \in 0 .. BLINK_ON + BLINK_OFF
    /\ \A n \in 0 .. BLINK_WRAP - 1, d \in Nat \ {0} :
          (n + d) % BLINK_WRAP \in 0 .. BLINK_WRAP - 1
    /\ \A n \in 0 .. BLINK_ON + BLINK_OFF, d \in Nat \ {0} :
          UpTo(BLINK_ON + BLINK_OFF, n + d) \in 0 .. BLINK_ON + BLINK_OFF
  BY PanelAssumption DEF UpTo

(* Setting what the LED shows ends the row, and begins no other. *)
LEMMA SetBlink ==
    ASSUME NEW b \in BlinkType, NEW n \in Nat \ {0}
    PROVE  /\ SetLed(b) \in BlinkType /\ RowState(SetLed(b))
           /\ SetLed(b).count = b.count /\ SetLed(b).state = b.state
           /\ SetStrobeCount(b, n) \in BlinkType /\ RowState(SetStrobeCount(b, n))
           /\ SetStrobeCount(b, n).count = n
           /\ SetStrobeCount(b, n).state = b.state
<1>1. SetLed(b) \in BlinkType /\ SetStrobeCount(b, n) \in BlinkType
  BY DEF SetLed, SetStrobeCount, BlinkType
<1>2. SetLed(b).first = TRUE /\ SetStrobeCount(b, n).first = TRUE
  BY DEF SetLed, SetStrobeCount, BlinkType
<1>3. RowState(SetLed(b)) /\ RowState(SetStrobeCount(b, n))
  BY <1>2 DEF RowState
<1>4. SetLed(b).count = b.count /\ SetLed(b).state = b.state
  BY DEF SetLed, BlinkType
<1>5. SetStrobeCount(b, n).count = n /\ SetStrobeCount(b, n).state = b.state
  BY DEF SetStrobeCount, BlinkType
<1> QED BY <1>1, <1>3, <1>4, <1>5

(* A row about to begin; the LED may still be lit from the one cut short. *)
Fresh(b) == /\ b.ms >= BLINK_INTERVAL /\ b.state = "WAIT_FOR_LED_ON"
            /\ b.idx = 0 /\ b.pulses = 0

(* The steps of a row, as changes of the record. *)
LEMMA RowSteps ==
    ASSUME NEW b \in BlinkType
    PROVE  /\ [b EXCEPT !.idx = 0, !.state = "WAIT_FOR_LED_ON", !.pulses = 0]
                  \in BlinkType
           /\ [b EXCEPT !.led = TRUE, !.strobe_ms = 0, !.state = "LED_ON",
                        !.pulses = b.pulses + 1] \in BlinkType
           /\ [b EXCEPT !.state = "WAIT_FOR_LED_ON", !.idx = b.idx + 1]
                  \in BlinkType
<1>1. /\ b.pulses + 1 \in Nat /\ b.idx + 1 \in Nat
      /\ 0 \in 0 .. BLINK_ON + BLINK_OFF
  BY Limits DEF BlinkType
<1>2. [b EXCEPT !.idx = 0, !.state = "WAIT_FOR_LED_ON", !.pulses = 0]
         \in BlinkType
  BY DEF BlinkType
<1>3. [b EXCEPT !.led = TRUE, !.strobe_ms = 0, !.state = "LED_ON",
               !.pulses = b.pulses + 1] \in BlinkType
  BY <1>1 DEF BlinkType
<1>4. [b EXCEPT !.state = "WAIT_FOR_LED_ON", !.idx = b.idx + 1] \in BlinkType
  BY <1>1 DEF BlinkType
<1> QED BY <1>2, <1>3, <1>4

(* An update that comes goes on with a row, or begins one. *)
LEMMA BlinkDueKeepsRow ==
    ASSUME NEW b \in BlinkType, RowState(b), NEW d \in Nat \ {0},
           NEW c, c = BlinkDue(b, d)
    PROVE  /\ c \in BlinkType /\ c.count = b.count /\ c.first = FALSE
           /\ c.state = "FIRST" => c.ms < BLINK_INTERVAL
           /\ RowState(c) \/ Fresh(c)
           /\ (~b.first /\ b.state # "FIRST" =>
                 /\ c.state = b.state /\ c.idx = b.idx
                 /\ c.pulses = b.pulses /\ c.led = b.led)
<1> DEFINE b0 == IF b.first
                 THEN [b EXCEPT !.ms = BLINK_INTERVAL, !.strobe_ms = 0,
                                !.state = "FIRST", !.first = FALSE]
                 ELSE [b EXCEPT !.ms = (b.ms + d) % BLINK_WRAP,
                                !.strobe_ms = UpTo(BLINK_ON + BLINK_OFF,
                                                   b.strobe_ms + d)]
<1>1. /\ b0 \in BlinkType /\ b0.count = b.count /\ b0.first = FALSE
      /\ b.first => b0.state = "FIRST"
      /\ ~b.first => /\ b0.state = b.state /\ b0.idx = b.idx
                     /\ b0.pulses = b.pulses /\ b0.led = b.led
  <2>1. CASE b.first
    <3>1. b0 = [b EXCEPT !.ms = BLINK_INTERVAL, !.strobe_ms = 0,
                         !.state = "FIRST", !.first = FALSE]
      BY <2>1
    <3> HIDE DEF b0
    <3>2. b0 \in BlinkType
      BY <3>1, Limits DEF BlinkType
    <3>3. b0.count = b.count /\ b0.first = FALSE /\ b0.state = "FIRST"
      BY <3>1 DEF BlinkType
    <3> QED BY <2>1, <3>2, <3>3
  <2>2. CASE ~b.first
    <3>1. b0 = [b EXCEPT !.ms = (b.ms + d) % BLINK_WRAP,
                         !.strobe_ms = UpTo(BLINK_ON + BLINK_OFF, b.strobe_ms + d)]
      BY <2>2
    <3> HIDE DEF b0
    <3>2. b0 \in BlinkType
      BY <3>1, Limits DEF BlinkType
    <3>3. /\ b0.count = b.count /\ b0.first = b.first
          /\ b0.state = b.state /\ b0.idx = b.idx
          /\ b0.pulses = b.pulses /\ b0.led = b.led
      BY <3>1 DEF BlinkType
    <3>4. b0.first = FALSE
      BY <2>2, <3>2, <3>3 DEF BlinkType
    <3> QED BY <2>2, <3>2, <3>3, <3>4
  <2> QED BY <2>1, <2>2
<1>2. c = IF b0.state = "FIRST" /\ b0.ms >= BLINK_INTERVAL
          THEN [b0 EXCEPT !.idx = 0, !.state = "WAIT_FOR_LED_ON", !.pulses = 0]
          ELSE b0
  BY DEF BlinkDue
<1> HIDE DEF b0
<1>3. b0 \in BlinkType
  BY <1>1
<1>4. b0.state = "FIRST" \/ (~b.first /\ b.state # "FIRST")
  BY <1>1
<1>5. CASE ~(b0.state = "FIRST" /\ b0.ms >= BLINK_INTERVAL)
  <2>1. c = b0
    BY <1>2, <1>5
  <2>2. RowState(c)
    BY <1>1, <1>4, <2>1 DEF RowState
  <2>3. c.state = "FIRST" => c.ms < BLINK_INTERVAL
    BY <1>3, <1>5, <2>1, PanelAssumption DEF BlinkType
  <2> QED BY <1>1, <2>1, <2>2, <2>3
<1>6. CASE b0.state = "FIRST" /\ b0.ms >= BLINK_INTERVAL
  <2>1. c = [b0 EXCEPT !.idx = 0, !.state = "WAIT_FOR_LED_ON", !.pulses = 0]
    BY <1>2, <1>6
  <2>2. c \in BlinkType
    BY <1>3, <2>1, RowSteps
  <2>3. /\ c.count = b0.count /\ c.first = b0.first /\ c.ms = b0.ms
        /\ c.idx = 0 /\ c.state = "WAIT_FOR_LED_ON" /\ c.pulses = 0
    BY <1>1, <2>1 DEF BlinkType
  <2> QED BY <1>1, <1>6, <2>2, <2>3 DEF Fresh
<1> QED BY <1>5, <1>6

(* An update that ends a row leaves it with as many pulses as the count. *)
LEMMA BlinkUpdateKeepsRow ==
    ASSUME NEW b \in BlinkType, RowState(b), NEW d \in Nat \ {0},
           NEW e, e = BlinkUpdate(b, d)
    PROVE  /\ e \in BlinkType /\ RowState(e) /\ e.count = b.count
           /\ (~b.first /\ b.state # "FIRST" /\ e.state = "FIRST"
                 => b.pulses = b.count /\ ~b.led)
<1> DEFINE c == BlinkDue(b, d)
<1>1. /\ c \in BlinkType /\ c.count = b.count /\ c.first = FALSE
      /\ c.state = "FIRST" => c.ms < BLINK_INTERVAL
      /\ RowState(c) \/ Fresh(c)
      /\ (~b.first /\ b.state # "FIRST" =>
            /\ c.state = b.state /\ c.idx = b.idx
            /\ c.pulses = b.pulses /\ c.led = b.led)
  BY BlinkDueKeepsRow, ZenonT(60)
<1>2. e = CASE c.ms < BLINK_INTERVAL -> c
            [] c.ms >= BLINK_INTERVAL /\ ~RowGoesOn(c) ->
                  [c EXCEPT !.ms = 0, !.state = "FIRST"]
            [] c.ms >= BLINK_INTERVAL /\ RowGoesOn(c) ->
                  CASE c.state = "WAIT_FOR_LED_ON" ->
                          [c EXCEPT !.led = TRUE, !.strobe_ms = 0,
                                    !.state = "LED_ON", !.pulses = c.pulses + 1]
                    [] c.state = "LED_ON" /\ c.strobe_ms >= BLINK_ON ->
                          [c EXCEPT !.led = FALSE, !.strobe_ms = 0,
                                    !.state = "LED_OFF"]
                    [] c.state = "LED_OFF" /\ c.strobe_ms >= BLINK_OFF ->
                          [c EXCEPT !.state = "WAIT_FOR_LED_ON", !.idx = c.idx + 1]
                    [] OTHER -> c
  BY DEF BlinkUpdate
<1> HIDE DEF c
<1>3. c \in BlinkType
  BY <1>1
<1>4. /\ c.ms \in Int /\ c.idx \in Nat /\ c.count \in Nat \ {0} /\ c.pulses \in Nat
      /\ c.state \in {"FIRST", "WAIT_FOR_LED_ON", "LED_ON", "LED_OFF"}
      /\ c.ms < BLINK_INTERVAL <=> ~(c.ms >= BLINK_INTERVAL)
  BY <1>1, PanelAssumption DEF BlinkType
<1>5. CASE c.ms < BLINK_INTERVAL
  <2>1. ~(c.ms >= BLINK_INTERVAL)
    BY <1>4, <1>5, PanelAssumption
  <2>2. e = c
    BY <1>2, <1>5, <2>1
  <2>3. RowState(c)
    BY <1>1, <2>1 DEF Fresh
  <2> QED BY <1>1, <2>2, <2>3
<1>6. CASE c.ms >= BLINK_INTERVAL /\ ~RowGoesOn(c)
  <2>1. e = [c EXCEPT !.ms = 0, !.state = "FIRST"]
    BY <1>2, <1>4, <1>6, PanelAssumption
  <2>2. e \in BlinkType
    BY <1>3, <2>1, Limits DEF BlinkType
  <2>3. e.count = c.count /\ e.state = "FIRST"
    BY <1>1, <2>1 DEF BlinkType
  <2>4. RowState(e)
    BY <2>3 DEF RowState
  <2>5. ~(c.idx < c.count) /\ c.state # "FIRST"
    BY <1>1, <1>4, <1>6, PanelAssumption DEF RowGoesOn
  <2>6. RowState(c)
    BY <1>1, <1>4, <2>5 DEF Fresh
  <2>7. c.pulses = c.count /\ ~c.led
    BY <1>1, <1>4, <2>5, <2>6 DEF RowState
  <2> QED BY <1>1, <2>2, <2>3, <2>4, <2>7
<1>7. CASE c.ms >= BLINK_INTERVAL /\ RowGoesOn(c)
  <2>1. c.idx < c.count /\ c.state # "FIRST" /\ ~(c.ms < BLINK_INTERVAL)
    BY <1>1, <1>4, <1>7, PanelAssumption DEF RowGoesOn
  <2>2. CASE c.state = "WAIT_FOR_LED_ON"
    <3>1. e = [c EXCEPT !.led = TRUE, !.strobe_ms = 0, !.state = "LED_ON",
                        !.pulses = c.pulses + 1]
      BY <1>2, <1>7, <2>1, <2>2
    <3>2. e \in BlinkType
      BY <1>3, <3>1, RowSteps
    <3>3. /\ e.count = c.count /\ e.state = "LED_ON" /\ e.idx = c.idx
          /\ e.pulses = c.pulses + 1
      BY <1>1, <3>1 DEF BlinkType
    <3>4. c.pulses = c.idx
      BY <1>1, <2>2 DEF RowState, Fresh
    <3>5. RowState(e)
      BY <3>3, <3>4, <2>1 DEF RowState
    <3> QED BY <1>1, <3>2, <3>3, <3>5
  <2>3. CASE c.state = "LED_ON" /\ c.strobe_ms >= BLINK_ON
    <3>1. e = [c EXCEPT !.led = FALSE, !.strobe_ms = 0, !.state = "LED_OFF"]
      BY <1>2, <1>7, <2>1, <2>3
    <3>2. e \in BlinkType
      BY <1>3, <3>1, Limits DEF BlinkType
    <3>3. /\ e.count = c.count /\ e.state = "LED_OFF" /\ e.idx = c.idx
          /\ e.pulses = c.pulses /\ e.led = FALSE
      BY <1>1, <3>1 DEF BlinkType
    <3>4. c.pulses = c.idx + 1
      BY <1>1, <2>3 DEF RowState, Fresh
    <3>5. RowState(e)
      BY <3>3, <3>4, <2>1 DEF RowState
    <3> QED BY <1>1, <3>2, <3>3, <3>5
  <2>4. CASE c.state = "LED_OFF" /\ c.strobe_ms >= BLINK_OFF
    <3>1. e = [c EXCEPT !.state = "WAIT_FOR_LED_ON", !.idx = c.idx + 1]
      BY <1>2, <1>7, <2>1, <2>4
    <3>2. e \in BlinkType
      BY <1>3, <3>1, RowSteps
    <3>3. /\ e.count = c.count /\ e.state = "WAIT_FOR_LED_ON"
          /\ e.idx = c.idx + 1 /\ e.pulses = c.pulses /\ e.led = c.led
      BY <1>1, <3>1 DEF BlinkType
    <3>4. c.pulses = c.idx + 1 /\ ~c.led
      BY <1>1, <2>4 DEF RowState, Fresh
    <3>5. RowState(e)
      BY <3>3, <3>4, <2>1, <1>4 DEF RowState
    <3> QED BY <1>1, <3>2, <3>3, <3>5
  <2>5. CASE /\ c.state # "WAIT_FOR_LED_ON"
             /\ ~(c.state = "LED_ON" /\ c.strobe_ms >= BLINK_ON)
             /\ ~(c.state = "LED_OFF" /\ c.strobe_ms >= BLINK_OFF)
    <3>1. e = c
      BY <1>2, <1>7, <2>1, <2>5
    <3>2. RowState(c)
      BY <1>1, <2>5 DEF Fresh
    <3> QED BY <1>1, <2>1, <3>1, <3>2
  <2> QED BY <2>2, <2>3, <2>4, <2>5
<1> QED BY <1>4, <1>5, <1>6, <1>7

-----------------------------------------------------------------------------
(* The file system and the pipeline *)

LEMMA Cards ==
    /\ UsbCard \in CardType /\ 1 \in 1 .. MAX_FILES + 1
    /\ \A p \in BOOLEAN : [formatted |-> TRUE, portable |-> p, files |-> 0] \in CardType
    /\ \A c \in CardType :
          /\ c.files + 1 \in 1 .. MAX_FILES + 1
          /\ (c.files < MAX_FILES => [c EXCEPT !.files = @ + 1] \in CardType)
  BY ControlAssumption DEF UsbCard, CardType

(* A halt changes nothing else. *)
LEMMA HaltEffect ==
    ASSUME NEW s, Steady(s), NEW why \in Halts, NEW t, t = [s EXCEPT !.halt = why]
    PROVE  /\ Steady(t) /\ t.halt = why
           /\ t.mode = s.mode /\ t.blink = s.blink /\ t.was_full = s.was_full
           /\ t.reset = s.reset /\ t.multi = s.multi /\ t.card = s.card
           /\ t.seq = s.seq /\ t.sampling = s.sampling /\ t.file = s.file
           /\ t.too_long = s.too_long
<1>1. /\ t.halt = why
      /\ t.mode = s.mode /\ t.blink = s.blink /\ t.was_full = s.was_full
      /\ t.reset = s.reset /\ t.multi = s.multi /\ t.card = s.card
      /\ t.seq = s.seq /\ t.sampling = s.sampling /\ t.file = s.file
      /\ t.too_long = s.too_long
  BY DEF Steady, StateType
<1>2. t \in StateType
  BY DEF Steady, StateType
<1> QED BY <1>1, <1>2 DEF Steady

(* fs_init forgets the open file. *)
LEMMA FsInitEffect ==
    ASSUME NEW s, Steady(s), NEW t, t = FsInit(s)
    PROVE  /\ Steady(t) /\ t.file = FALSE /\ t.seq = 1
           /\ t.mode = s.mode /\ t.blink = s.blink /\ t.was_full = s.was_full
           /\ t.reset = s.reset /\ t.multi = s.multi /\ t.card = s.card
           /\ t.halt = s.halt /\ t.sampling = s.sampling
<1>1. /\ t.file = FALSE /\ t.seq = 1
      /\ t.mode = s.mode /\ t.blink = s.blink /\ t.was_full = s.was_full
      /\ t.reset = s.reset /\ t.multi = s.multi /\ t.card = s.card
      /\ t.halt = s.halt /\ t.sampling = s.sampling
  BY DEF FsInit, Steady, StateType
<1>2. t \in StateType
  BY Cards DEF FsInit, Steady, StateType
<1> QED BY <1>1, <1>2 DEF Steady

(* With no file open the card may be replaced. *)
LEMMA SetCard ==
    ASSUME NEW s, Steady(s), ~s.file, NEW c \in CardType, c.formatted, 
           NEW t, t = [s EXCEPT !.card = c]
    PROVE  /\ Steady(t) /\ t.card = c
           /\ t.mode = s.mode /\ t.blink = s.blink /\ t.was_full = s.was_full
           /\ t.reset = s.reset /\ t.multi = s.multi /\ t.file = s.file
           /\ t.halt = s.halt /\ t.sampling = s.sampling /\ t.seq = s.seq
<1>1. /\ t.card = c
      /\ t.mode = s.mode /\ t.blink = s.blink /\ t.was_full = s.was_full
      /\ t.reset = s.reset /\ t.multi = s.multi /\ t.file = s.file
      /\ t.halt = s.halt /\ t.sampling = s.sampling /\ t.seq = s.seq
  BY DEF Steady, StateType
<1>2. t \in StateType
  BY DEF Steady, StateType
<1> QED BY <1>1, <1>2 DEF Steady

(* fs_format, on a card that is free. *)
Formatted(s, p, t) ==
    /\ Steady(t) /\ t.mode = s.mode /\ t.blink = s.blink
    /\ t.was_full = s.was_full /\ t.reset = s.reset /\ t.multi = s.multi
    /\ s.multi => t.halt = "card in use"
    /\ ~s.multi => /\ t.halt = "no" /\ t.file = FALSE /\ t.seq = 1
                   /\ t.card = [formatted |-> TRUE, portable |-> p, files |-> 0]

LEMMA FsFormatEffect ==
    ASSUME NEW s, Steady(s), Up(s), NEW p \in BOOLEAN, NEW t, t = FsFormat(s, p)
    PROVE  Formatted(s, p, t)
<1>1. CASE s.multi
  <2> DEFINE why == "card in use"
  <2>1. t = [s EXCEPT !.halt = why] /\ why \in Halts
    BY <1>1 DEF FsFormat, Halt, Halts
  <2> HIDE DEF why
  <2>2. /\ Steady(t) /\ t.halt = why
        /\ t.mode = s.mode /\ t.blink = s.blink /\ t.was_full = s.was_full
        /\ t.reset = s.reset /\ t.multi = s.multi
    BY <2>1, HaltEffect
  <2> QED BY <1>1, <2>2 DEF why, Formatted
<1>2. CASE ~s.multi
  <2> DEFINE i == FsInit(s)
             c == [formatted |-> TRUE, portable |-> p, files |-> 0]
  <2>1. /\ Steady(i) /\ i.file = FALSE /\ i.seq = 1
        /\ i.mode = s.mode /\ i.blink = s.blink /\ i.was_full = s.was_full
        /\ i.reset = s.reset /\ i.multi = s.multi /\ i.halt = s.halt
    BY FsInitEffect
  <2>2. t = [i EXCEPT !.card = c]
    BY <1>2 DEF FsFormat
  <2>3. c \in CardType /\ c.formatted
    BY Cards
  <2>4. s.halt = "no"
    BY DEF Up
  <2> HIDE DEF i, c
  <2>5. /\ Steady(t) /\ t.card = c
        /\ t.mode = i.mode /\ t.blink = i.blink /\ t.was_full = i.was_full
        /\ t.reset = i.reset /\ t.multi = i.multi /\ t.file = i.file
        /\ t.halt = i.halt /\ t.seq = i.seq
    BY <2>1, <2>2, <2>3, SetCard
  <2> QED BY <1>2, <2>1, <2>4, <2>5 DEF c, Formatted
<1> QED BY <1>1, <1>2

(* fs_open(1, 0): the file follows the last one, on the card as it was
   unless the card was full or not formatted. *)
Created(s, t) ==
    /\ Steady(t) /\ t.mode = s.mode /\ t.blink = s.blink
    /\ t.reset = s.reset /\ t.multi = s.multi
    /\ \/ t.halt = "card in use" /\ s.multi
       \/ /\ t.halt = "no" /\ t.file /\ t.seq = t.card.files + 1
          /\ s.card.formatted /\ ~t.was_full => t.card = s.card
          /\ ~s.card.formatted => t.card = UsbCard

LEMMA FsCreateEffect ==
    ASSUME NEW s, Steady(s), Up(s), NEW refused \in BOOLEAN,
           NEW t, t = FsCreate(s, refused)
    PROVE  Created(s, t)
<1> DEFINE c == IF s.card.formatted /\ ~Full(s.card) THEN s.card ELSE UsbCard
<1>1. s.card \in CardType /\ s.halt = "no"
  BY DEF Steady, StateType, Up
<1>2. /\ c \in CardType /\ c.formatted /\ c.files < MAX_FILES
      /\ s.card.formatted /\ ~Full(s.card) => c = s.card
      /\ ~s.card.formatted => c = UsbCard
  <2>1. CASE s.card.formatted /\ ~Full(s.card)
    <3>1. c = s.card /\ s.card.files # MAX_FILES
      BY <2>1 DEF Full
    <3>2. s.card.files < MAX_FILES
      BY <1>1, <3>1, ControlAssumption DEF CardType
    <3> QED BY <1>1, <2>1, <3>1, <3>2
  <2>2. CASE ~(s.card.formatted /\ ~Full(s.card))
    <3>1. c = UsbCard
      BY <2>2
    <3> QED BY <2>2, <3>1, Cards, ControlAssumption DEF UsbCard
  <2> QED BY <2>1, <2>2
<1>3. t = IF s.multi /\ (refused \/ c # s.card)
          THEN Halt(FsInit(s), "card in use")
          ELSE [s EXCEPT !.file = TRUE, !.seq = c.files + 1, !.card = c,
                         !.too_long = FALSE, !.was_full = Full(s.card)]
  BY DEF FsCreate
<1> HIDE DEF c
<1>4. CASE s.multi /\ (refused \/ c # s.card)
  <2> DEFINE i == FsInit(s)
  <2>1. /\ Steady(i) /\ i.mode = s.mode /\ i.blink = s.blink
        /\ i.reset = s.reset /\ i.multi = s.multi
    BY FsInitEffect
  <2> DEFINE why == "card in use"
  <2>2. t = [i EXCEPT !.halt = why] /\ why \in Halts
    BY <1>3, <1>4 DEF Halt, Halts
  <2> HIDE DEF i
  <2> HIDE DEF why
  <2>4. /\ Steady(t) /\ t.halt = why
        /\ t.mode = i.mode /\ t.blink = i.blink
        /\ t.reset = i.reset /\ t.multi = i.multi
    BY <2>1, <2>2, HaltEffect
  <2> QED BY <1>4, <2>1, <2>4 DEF why, Created
<1>5. CASE ~(s.multi /\ (refused \/ c # s.card))
  <2>1. t = [s EXCEPT !.file = TRUE, !.seq = c.files + 1, !.card = c,
                      !.too_long = FALSE, !.was_full = Full(s.card)]
    BY <1>3, <1>5
  <2>2. /\ t.mode = s.mode /\ t.blink = s.blink /\ t.halt = s.halt
        /\ t.reset = s.reset /\ t.multi = s.multi
        /\ t.file = TRUE /\ t.seq = c.files + 1 /\ t.card = c
        /\ t.was_full = Full(s.card)
    BY <2>1 DEF Steady, StateType
  <2>3. Full(s.card) \in BOOLEAN /\ c.files + 1 \in 1 .. MAX_FILES + 1
    BY <1>1, <1>2, Cards DEF Full, CardType
  <2>4. t \in StateType
    BY <1>2, <2>1, <2>3, ZenonT(60) DEF Steady, StateType
  <2>5. Steady(t)
    BY <1>2, <2>2, <2>4 DEF Steady
  <2> QED BY <1>1, <1>2, <2>2, <2>5 DEF Created
<1> QED BY <1>4, <1>5

(* fs_close adds the open file to the card. *)
LEMMA FsCloseEffect ==
    ASSUME NEW s, Steady(s), Up(s), NEW t, t = FsClose(s)
    PROVE  /\ Steady(t) /\ t.mode = s.mode /\ t.blink = s.blink
           /\ t.was_full = s.was_full /\ t.reset = s.reset
           /\ ~s.file \/ s.too_long =>
                 t.halt = "close failed" /\ t.too_long = s.too_long
           /\ s.file /\ ~s.too_long =>
                 /\ t.halt = "no" /\ ~t.file /\ ~t.multi
                 /\ t.card.formatted /\ t.card.portable = s.card.portable
                 /\ t.card.files = s.card.files + 1
                 /\ s.seq = s.card.files + 1
<1>1. CASE ~s.file \/ s.too_long
  <2> DEFINE why == "close failed"
  <2>1. t = [s EXCEPT !.halt = why] /\ why \in Halts
    BY <1>1 DEF FsClose, Halt, Halts
  <2> HIDE DEF why
  <2>2. /\ Steady(t) /\ t.halt = why
        /\ t.mode = s.mode /\ t.blink = s.blink /\ t.was_full = s.was_full
        /\ t.reset = s.reset /\ t.too_long = s.too_long
    BY <2>1, HaltEffect
  <2> QED BY <1>1, <2>2 DEF why
<1>2. CASE s.file /\ ~s.too_long
  <2> DEFINE i == FsInit(s)
  <2>1. /\ Steady(i) /\ i.file = FALSE /\ i.seq = 1 /\ i.card = s.card
        /\ i.mode = s.mode /\ i.blink = s.blink /\ i.was_full = s.was_full
        /\ i.reset = s.reset /\ i.halt = s.halt
    BY FsInitEffect
  <2>2. t = [i EXCEPT !.multi = FALSE, !.card.files = @ + 1]
    BY <1>2 DEF FsClose
  <2> HIDE DEF i
  <2>3. /\ s.card \in CardType /\ s.card.formatted /\ s.card.files < MAX_FILES
        /\ s.seq = s.card.files + 1 /\ i.card \in CardType /\ s.halt = "no"
    BY <1>2, <2>1 DEF Steady, StateType, Up
  <2>4. [i.card EXCEPT !.files = @ + 1] \in CardType
    BY <2>1, <2>3, Cards
  <2>5. t = [i EXCEPT !.multi = FALSE, !.card = [i.card EXCEPT !.files = @ + 1]]
    BY <2>1, <2>2 DEF Steady, StateType, CardType
  <2>6. t \in StateType
    BY <2>1, <2>4, <2>5 DEF Steady, StateType
  <2>7. /\ t.mode = i.mode /\ t.blink = i.blink /\ t.was_full = i.was_full
        /\ t.reset = i.reset /\ t.halt = i.halt /\ t.file = i.file
        /\ t.multi = FALSE /\ t.card = [i.card EXCEPT !.files = @ + 1]
    BY <2>1, <2>5 DEF Steady, StateType
  <2>8. /\ t.card.formatted = s.card.formatted
        /\ t.card.portable = s.card.portable
        /\ t.card.files = s.card.files + 1
    BY <2>1, <2>3, <2>7 DEF CardType
  <2>9. Steady(t)
    BY <1>2, <2>1, <2>3, <2>6, <2>7, <2>8 DEF Steady
  <2> QED BY <1>2, <2>1, <2>3, <2>7, <2>8, <2>9
<1> QED BY <1>1, <1>2

(* The pipeline is switched on or off. *)
LEMMA SetSampling ==
    ASSUME NEW s, Steady(s), NEW b \in BOOLEAN, NEW t, t = [s EXCEPT !.sampling = b]
    PROVE  /\ Steady(t) /\ t.sampling = b
           /\ t.mode = s.mode /\ t.blink = s.blink /\ t.was_full = s.was_full
           /\ t.reset = s.reset /\ t.multi = s.multi /\ t.card = s.card
           /\ t.halt = s.halt /\ t.file = s.file /\ t.seq = s.seq
           /\ t.too_long = s.too_long
<1>1. /\ t.sampling = b
      /\ t.mode = s.mode /\ t.blink = s.blink /\ t.was_full = s.was_full
      /\ t.reset = s.reset /\ t.multi = s.multi /\ t.card = s.card
      /\ t.halt = s.halt /\ t.file = s.file /\ t.seq = s.seq
      /\ t.too_long = s.too_long
  BY DEF Steady, StateType
<1>2. t \in StateType
  BY DEF Steady, StateType
<1> QED BY <1>1, <1>2 DEF Steady

(* A handler sets the mode, and what the LED shows. *)
InMode(s, m, b) == [s EXCEPT !.mode = m, !.blink = b]

LEMMA SetMode ==
    ASSUME NEW s, Steady(s), NEW m \in Modes, NEW b \in BlinkType, RowState(b),
           NEW t, t = InMode(s, m, b)
    PROVE  /\ Steady(t) /\ t.mode = m /\ t.blink = b
           /\ t.sampling = s.sampling /\ t.was_full = s.was_full
           /\ t.reset = s.reset /\ t.multi = s.multi /\ t.card = s.card
           /\ t.halt = s.halt /\ t.file = s.file /\ t.seq = s.seq
<1>1. /\ t.mode = m /\ t.blink = b
      /\ t.sampling = s.sampling /\ t.was_full = s.was_full
      /\ t.reset = s.reset /\ t.multi = s.multi /\ t.card = s.card
      /\ t.halt = s.halt /\ t.file = s.file /\ t.seq = s.seq
  BY DEF Steady, StateType, InMode
<1>2. t \in StateType
  BY DEF Steady, StateType, InMode
<1> QED BY <1>1, <1>2 DEF Steady

(* samples_start: a recording has a file, or the firmware has halted. *)
Started(s, t) ==
    /\ Steady(t) /\ t.mode = s.mode /\ t.blink = s.blink
    /\ t.reset = s.reset /\ t.multi = s.multi
    /\ t.halt \in {"no", "gain", "card in use"}
    /\ t.halt = "card in use" => s.multi
    /\ ~Storing(s) => t.card = s.card
    /\ t.halt = "no" => t.sampling
    /\ t.halt = "no" /\ Storing(s) =>
          /\ t.file /\ t.seq = t.card.files + 1
          /\ s.card.formatted /\ ~t.was_full => t.card = s.card
          /\ ~s.card.formatted => t.card = UsbCard

LEMMA SamplesStartEffect ==
    ASSUME NEW s, Steady(s), Up(s), NEW refused \in BOOLEAN,
           NEW t, t = SamplesStart(s, refused)
    PROVE  Started(s, t)
<1> DEFINE u == IF Storing(s) THEN FsCreate(s, refused) ELSE s
<1>1. t = IF ~Up(u) THEN u
          ELSE IF u.gain = "bad" THEN Halt(u, "gain")
          ELSE [u EXCEPT !.sampling = TRUE]
  BY DEF SamplesStart
<1>2. s.halt = "no" /\ ~s.reset
  BY DEF Up
<1>3. /\ Steady(u) /\ u.mode = s.mode /\ u.blink = s.blink
      /\ u.reset = s.reset /\ u.multi = s.multi
      /\ u.halt \in {"no", "card in use"}
      /\ u.halt = "card in use" => s.multi
      /\ ~Storing(s) => u.card = s.card
      /\ u.halt = "no" /\ Storing(s) =>
            /\ u.file /\ u.seq = u.card.files + 1
            /\ s.card.formatted /\ ~u.was_full => u.card = s.card
            /\ ~s.card.formatted => u.card = UsbCard
  <2>1. CASE Storing(s)
    <3>1. u = FsCreate(s, refused)
      BY <2>1
    <3> HIDE DEF u
    <3>2. Created(s, u)
      BY <3>1, FsCreateEffect
    <3> QED BY <2>1, <3>2 DEF Created
  <2>2. CASE ~Storing(s)
    BY <2>2, <1>2
  <2> QED BY <2>1, <2>2
<1> HIDE DEF u
<1>4. Steady(u)
  BY <1>3
<1>5. CASE ~Up(u)
  <2>1. t = u /\ u.halt # "no"
    BY <1>1, <1>2, <1>3, <1>5 DEF Up
  <2> QED BY <1>3, <2>1 DEF Started
<1>6. CASE Up(u) /\ u.gain = "bad"
  <2> DEFINE why == "gain"
  <2>1. t = [u EXCEPT !.halt = why] /\ why \in Halts
    BY <1>1, <1>6 DEF Halt, Halts
  <2> HIDE DEF why
  <2>2. /\ Steady(t) /\ t.halt = why
        /\ t.mode = u.mode /\ t.blink = u.blink /\ t.reset = u.reset
        /\ t.multi = u.multi /\ t.card = u.card
    BY <1>4, <2>1, HaltEffect
  <2> QED BY <1>3, <2>2 DEF why, Started
<1>7. CASE Up(u) /\ u.gain # "bad"
  <2>1. t = [u EXCEPT !.sampling = TRUE] /\ u.halt = "no"
    BY <1>1, <1>7 DEF Up
  <2> DEFINE b == TRUE
  <2>2. b \in BOOLEAN /\ t = [u EXCEPT !.sampling = b]
    BY <2>1
  <2> HIDE DEF b
  <2>3. /\ Steady(t) /\ t.sampling = b
        /\ t.mode = u.mode /\ t.blink = u.blink /\ t.was_full = u.was_full
        /\ t.reset = u.reset /\ t.multi = u.multi /\ t.card = u.card
        /\ t.halt = u.halt /\ t.file = u.file /\ t.seq = u.seq
    BY <1>4, <2>2, SetSampling
  <2> QED BY <1>3, <2>1, <2>3 DEF b, Started
<1> QED BY <1>5, <1>6, <1>7

(* samples_stop: a recording's file is on the card, if there was one. *)
Stopped(s, t) ==
    /\ Steady(t) /\ t.mode = s.mode /\ t.blink = s.blink
    /\ t.was_full = s.was_full /\ t.reset = s.reset
    /\ t.halt \in {"no", "close failed"}
    /\ t.halt = "close failed" => Storing(s) /\ (~s.file \/ t.too_long)
    /\ ~Storing(s) => t.card = s.card /\ t.multi = s.multi
    /\ Storing(s) /\ t.halt = "no" =>
          /\ ~t.multi
          /\ t.card.formatted /\ s.card.formatted
          /\ t.card.portable = s.card.portable
          /\ t.card.files = s.card.files + 1
          /\ s.seq = s.card.files + 1

LEMMA SamplesStopEffect ==
    ASSUME NEW s, Steady(s), Up(s), NEW t, t = SamplesStop(s)
    PROVE  Stopped(s, t)
<1> DEFINE b == FALSE
           u == [s EXCEPT !.sampling = b]
<1>1. b \in BOOLEAN /\ s.halt = "no" /\ ~s.reset
  BY DEF Up
<1>2. t = IF Storing(s) THEN FsClose(u) ELSE u
  BY DEF SamplesStop
<1> HIDE DEF b
<1>3. /\ Steady(u)
      /\ u.mode = s.mode /\ u.blink = s.blink /\ u.was_full = s.was_full
      /\ u.reset = s.reset /\ u.multi = s.multi /\ u.card = s.card
      /\ u.halt = s.halt /\ u.file = s.file /\ u.seq = s.seq
  BY <1>1, SetSampling
<1> HIDE DEF u
<1>4. CASE Storing(s)
  <2>1. t = FsClose(u) /\ Up(u)
    BY <1>1, <1>2, <1>3, <1>4 DEF Up
  <2>2. /\ Steady(t) /\ t.mode = u.mode /\ t.blink = u.blink
        /\ t.was_full = u.was_full /\ t.reset = u.reset
        /\ ~u.file \/ u.too_long =>
              t.halt = "close failed" /\ t.too_long = u.too_long
        /\ u.file /\ ~u.too_long =>
              /\ t.halt = "no" /\ ~t.file /\ ~t.multi
              /\ t.card.formatted /\ t.card.portable = u.card.portable
              /\ t.card.files = u.card.files + 1
              /\ u.seq = u.card.files + 1
    BY <1>3, <2>1, FsCloseEffect
  <2>3. u.file => s.card.formatted
    BY <1>3 DEF Steady
  <2> QED BY <1>3, <1>4, <2>2, <2>3 DEF Stopped
<1>5. CASE ~Storing(s)
  BY <1>1, <1>2, <1>3, <1>5 DEF Stopped
<1> QED BY <1>4, <1>5

(* The mode after a recording is of the same kind, and no recording. *)
LEMMA IdleModes ==
    ASSUME NEW m \in Modes
    PROVE  /\ IdleMode(m) \in Modes \ {"USB_STORE", "PORT_STORE"}
           /\ IdleMode(m) \in PortModes <=> m \in PortModes
  BY DEF IdleMode, Modes, UsbModes, PortModes

(* stop_sampling leaves a state in which nothing is recorded. *)
LEMMA StopSamplingSound ==
    ASSUME NEW s, NEW o, Sound(s, o), Up(s), NEW t, t = StopSampling(s)
    PROVE  /\ Sound(t, o) /\ t.was_full = s.was_full
           /\ t.blink.state = s.blink.state
           /\ Up(t) => ~Storing(t)
<1>1. /\ Steady(s) /\ Alive(s, o) /\ s.halt = "no" /\ s.reset = FALSE
      /\ s.blink \in BlinkType /\ RowState(s.blink) /\ s.mode \in Modes
      /\ s.seq \in Nat \ {0} /\ s.card.files \in Nat
  BY ControlAssumption DEF Sound, Up, Steady, StateType, CardType
<1> DEFINE b == IF s.mode = "PORT_STORE" THEN SetStrobeCount(s.blink, s.seq + 1)
                ELSE s.blink
           l == SetLed(b)
           u == [s EXCEPT !.blink = l]
           v == SamplesStop(u)
<1>2. /\ b \in BlinkType /\ b.state = s.blink.state
      /\ b.count = IF s.mode = "PORT_STORE" THEN s.seq + 1 ELSE s.blink.count
  <2>1. s.seq + 1 \in Nat \ {0}
    BY <1>1
  <2>2. CASE s.mode = "PORT_STORE"
    BY <1>1, <2>1, <2>2, SetBlink
  <2>3. CASE s.mode # "PORT_STORE"
    BY <1>1, <2>3
  <2> QED BY <2>2, <2>3
<1>3. t = IF Up(v) THEN [v EXCEPT !.mode = IdleMode(s.mode)] ELSE v
  BY DEF StopSampling
<1> HIDE DEF b
<1>4. /\ l \in BlinkType /\ RowState(l) /\ l.state = s.blink.state
      /\ l.count = IF s.mode = "PORT_STORE" THEN s.seq + 1 ELSE s.blink.count
  BY <1>2, SetBlink
<1> HIDE DEF l
<1>5. /\ Steady(u) /\ u.mode = s.mode /\ u.blink = l
      /\ u.was_full = s.was_full /\ u.reset = s.reset /\ u.multi = s.multi
      /\ u.card = s.card /\ u.halt = s.halt /\ u.file = s.file /\ u.seq = s.seq
  <2>1. u = InMode(s, s.mode, l)
    BY <1>1 DEF Steady, StateType, InMode
  <2>2. Steady(s) /\ s.mode \in Modes
    BY <1>1
  <2>3. l \in BlinkType /\ RowState(l)
    BY <1>4
  <2> HIDE DEF u
  <2> QED BY <2>1, <2>2, <2>3, SetMode
<1>6. Up(u) /\ (Storing(u) <=> Storing(s))
  BY <1>1, <1>5 DEF Up, Storing
<1> HIDE DEF u
<1>7. Steady(u)
  BY <1>5
<1>8. Stopped(u, v)
  BY <1>6, <1>7, SamplesStopEffect
<1>9. /\ Steady(v) /\ v.mode = s.mode /\ v.blink = l
      /\ v.was_full = s.was_full /\ v.reset = FALSE
      /\ v.halt \in {"no", "close failed"}
      /\ v.halt = "close failed" => Storing(s) /\ (~s.file \/ v.too_long)
      /\ ~Storing(s) => v.card = s.card /\ v.multi = s.multi
      /\ Storing(s) /\ v.halt = "no" =>
            /\ ~v.multi
            /\ v.card.formatted /\ s.card.formatted
            /\ v.card.portable = s.card.portable
            /\ v.card.files = s.card.files + 1
            /\ s.seq = s.card.files + 1
  BY <1>1, <1>5, <1>6, <1>8 DEF Stopped
<1> HIDE DEF v
<1>10. CASE v.halt # "no"
  <2>1. t = v /\ v.halt = "close failed"
    BY <1>3, <1>9, <1>10 DEF Up
  <2>2. Careless(o) \/ t.too_long
    BY <1>1, <1>9, <2>1 DEF Alive, Records, Careless
  <2> QED BY <1>4, <1>9, <2>1, <2>2 DEF Sound, HaltedRightly, Up
<1>11. CASE v.halt = "no"
  <2>1. t = [v EXCEPT !.mode = IdleMode(s.mode)]
    BY <1>3, <1>9, <1>11 DEF Up
  <2>2. t = InMode(v, IdleMode(s.mode), l)
    BY <1>9, <2>1 DEF Steady, StateType, InMode
  <2> DEFINE m == IdleMode(s.mode)
  <2>3. /\ m \in Modes \ {"USB_STORE", "PORT_STORE"}
        /\ m \in PortModes <=> s.mode \in PortModes
    BY <1>1, IdleModes
  <2> HIDE DEF m
  <2>4. /\ Steady(t) /\ t.mode = m /\ t.blink = l
        /\ t.was_full = v.was_full /\ t.reset = v.reset /\ t.multi = v.multi
        /\ t.card = v.card /\ t.halt = v.halt
    <3>1. Steady(v) /\ m \in Modes /\ t = InMode(v, m, l)
      BY <1>9, <2>2, <2>3 DEF m
    <3>2. l \in BlinkType /\ RowState(l)
      BY <1>4
    <3> QED BY <3>1, <3>2, SetMode
  <2>5. ~Storing(t)
    BY <2>3, <2>4 DEF Storing
  <2>6. Shows(t, o)
    <3> SUFFICES ASSUME o \cap {"tested", "full"} = {}, m \in PortModes
                 PROVE  l.count = v.card.files + 1
      BY <2>3, <2>4 DEF Shows
    <3>1. /\ s.mode \in PortModes /\ s.blink.count = s.card.files + 1
      BY <1>1, <2>3 DEF Alive, Shows
    <3>2. CASE s.mode = "PORT_STORE"
      <4>1. Storing(s)
        BY <3>2 DEF Storing
      <4> QED BY <1>4, <1>9, <1>11, <3>2, <4>1
    <3>3. CASE s.mode # "PORT_STORE"
      <4>1. ~Storing(s)
        BY <3>1, <3>3 DEF Storing, PortModes
      <4> QED BY <1>4, <1>9, <1>11, <3>1, <3>3, <4>1
    <3> QED BY <3>2, <3>3
  <2>7. Matches(t, o)
    BY <1>1, <1>9, <1>11, <2>3, <2>4 DEF Alive, Matches
  <2>8. WritesFile(t, o)
    BY <1>1, <1>9, <1>11, <2>4 DEF Alive, WritesFile
  <2> QED BY <1>4, <1>9, <1>11, <2>4, <2>5, <2>6, <2>7, <2>8
          DEF Sound, HaltedRightly, Alive, Records
<1> QED BY <1>10, <1>11

-----------------------------------------------------------------------------
(* The handlers *)

(* The oddities with what the handler met. *)
Seen(o, s) == o \cup (IF s.was_full THEN {"full"} ELSE {})

(* A handler may halt for a write left open only where the caller is to blame. *)
Begun(s, o) ==
    /\ Steady(s) /\ s.halt = "no" /\ s.reset = FALSE /\ s.was_full = FALSE
    /\ s.multi => Careless(o)

(* Outside a recording the card is free, but for what the caller did. *)
LEMMA SoundIsBegun ==
    ASSUME NEW s, NEW o, Sound(s, o), Up(s), ~s.was_full,
           ~Storing(s) \/ Careless(o)
    PROVE  Begun(s, o)
  BY DEF Sound, Alive, WritesFile, Begun, Up, Steady, StateType

(* A file opened for reading changes nothing that the parts look at. *)
LEMMA NotStoring ==
    ASSUME NEW s, NEW o, Begun(s, o), Alive(s, o), ~Storing(s),
           NEW t, Steady(t), t.mode = s.mode, t.blink = s.blink, t.card = s.card,
           t.multi = s.multi, t.halt = s.halt
    PROVE  Sound(t, o)
<1>1. ~Storing(t) /\ t.halt = "no" /\ (t.multi => Careless(o))
  BY DEF Storing, Begun
<1>2. Shows(t, o)
  BY <1>1 DEF Alive, Shows, Storing
<1>3. Matches(t, o)
  BY DEF Alive, Matches
<1> QED BY <1>1, <1>2, <1>3
        DEF Sound, HaltedRightly, Alive, Records, WritesFile

(* A file opened for reading, and a card that is formatted by it. *)
LEMMA FsOpenOldSound ==
    ASSUME NEW s, NEW o, Sound(s, o), Up(s), ~s.was_full, ~Storing(s),
           NEW n \in 0 .. MAX_FILES, NEW quick \in BOOLEAN,
           NEW t, t = FsOpenOld(s, n, quick)
    PROVE  Sound(t, Seen(o, t)) /\ t.blink.state = s.blink.state
<1>1. Begun(s, o) /\ Alive(s, o) /\ s.card \in CardType /\ s.mode \in Modes
  BY SoundIsBegun DEF Sound, Steady, StateType
<1>2. CASE n = 0 /\ quick
  <2>1. t = s
    BY <1>2 DEF FsOpenOld
  <2>2. Seen(o, s) = o
    BY DEF Seen
  <2> QED BY <2>1, <2>2
<1>3. CASE ~(n = 0 /\ quick) /\ n \in 1 .. s.card.files
  <2> DEFINE i == FsInit(s)
  <2>1. t = [i EXCEPT !.seq = n]
    BY <1>3 DEF FsOpenOld
  <2>6. /\ Steady(i) /\ i.file = FALSE /\ i.mode = s.mode /\ i.blink = s.blink
        /\ i.was_full = s.was_full /\ i.reset = s.reset /\ i.multi = s.multi
        /\ i.card = s.card /\ i.halt = s.halt
    BY <1>1, FsInitEffect DEF Begun
  <2> HIDE DEF i
  <2>2. n \in 1 .. MAX_FILES + 1
    BY <1>1, <1>3, ControlAssumption DEF CardType
  <2>3. t \in StateType
    BY <2>1, <2>2, <2>6 DEF Steady, StateType
  <2>4. /\ t.file = FALSE /\ t.mode = s.mode /\ t.blink = s.blink /\ t.card = s.card
        /\ t.multi = s.multi /\ t.halt = s.halt /\ t.reset = s.reset
        /\ t.was_full = s.was_full
    BY <2>1, <2>6 DEF Steady, StateType
  <2>5. Steady(t) /\ Seen(o, t) = o
    BY <1>1, <2>3, <2>4 DEF Begun, Steady, Seen
  <2> QED BY <1>1, <2>4, <2>5, NotStoring
<1>4. CASE ~(n = 0 /\ quick) /\ n \notin 1 .. s.card.files /\ s.multi /\ Full(s.card)
  <2> DEFINE why == "card in use"
  <2>1. t = [s EXCEPT !.halt = why] /\ why \in Halts
    BY <1>4 DEF FsOpenOld, Halt, Halts
  <2>2. Steady(s) /\ Careless(o)
    BY <1>1, <1>4 DEF Begun
  <2> HIDE DEF why
  <2>3. Steady(t) /\ t.halt = why /\ t.blink = s.blink /\ t.was_full = s.was_full
    BY <2>1, <2>2, HaltEffect
  <2>4. Seen(o, t) = o
    BY <1>1, <2>3 DEF Begun, Seen
  <2>5. ~Up(t)
    BY <2>3 DEF why, Up
  <2> QED BY <2>2, <2>3, <2>4, <2>5 DEF Sound, HaltedRightly
<1>5. CASE /\ ~(n = 0 /\ quick) /\ n \notin 1 .. s.card.files
           /\ ~(s.multi /\ Full(s.card))
  <2> DEFINE c == IF Full(s.card) THEN UsbCard ELSE s.card
  <2> DEFINE i == FsInit(s)
  <2>1. t = [i EXCEPT !.seq = c.files + 1, !.card = c, !.was_full = Full(s.card)]
    BY <1>5, <1>1 DEF FsOpenOld
  <2>9. /\ Steady(i) /\ i.file = FALSE /\ i.mode = s.mode /\ i.blink = s.blink
        /\ i.reset = s.reset /\ i.multi = s.multi /\ i.halt = s.halt
    BY <1>1, FsInitEffect DEF Begun
  <2> HIDE DEF i
  <2>2. /\ c \in CardType /\ Full(s.card) \in BOOLEAN
        /\ ~c.formatted => c.files = 0 /\ ~c.portable
        /\ ~Full(s.card) => c = s.card
    BY <1>1, Cards DEF Full, UsbCard, Begun, Steady, StateType, CardType
  <2> HIDE DEF c
  <2>3. c.files + 1 \in 1 .. MAX_FILES + 1
    BY <2>2, Cards
  <2>4. t \in StateType
    BY <2>1, <2>2, <2>3, <2>9 DEF Steady, StateType
  <2>5. /\ t.file = FALSE /\ t.mode = s.mode /\ t.blink = s.blink /\ t.card = c
        /\ t.multi = s.multi /\ t.halt = s.halt /\ t.reset = s.reset
        /\ t.was_full = Full(s.card)
    BY <2>1, <2>9 DEF Steady, StateType
  <2>6. Steady(t)
    BY <1>1, <2>2, <2>4, <2>5 DEF Begun, Steady
  <2>7. CASE ~Full(s.card)
    <3>1. t.card = s.card /\ Seen(o, t) = o
      BY <2>2, <2>5, <2>7 DEF Seen
    <3> QED BY <1>1, <2>5, <2>6, <3>1, NotStoring
  <2>8. CASE Full(s.card)
    <3>1. "full" \in Seen(o, t) /\ (Careless(o) => Careless(Seen(o, t)))
      BY <2>5, <2>8 DEF Seen, Careless
    <3>2. ~Storing(t) /\ t.halt = "no" /\ (t.multi => Careless(o))
      BY <1>1, <2>5 DEF Storing, Begun
    <3> QED BY <2>5, <2>6, <3>1, <3>2
            DEF Sound, HaltedRightly, Alive, Shows, Records, Matches, WritesFile
  <2> QED BY <2>7, <2>8
<1> QED BY <1>2, <1>3, <1>4, <1>5

(* A start over the link, whatever went on before. *)
LEMMA StartSound ==
    ASSUME NEW s, NEW o, Begun(s, o), NEW mode \in {"STREAM", "USB_STORE"},
           /\ o \cap {"foreign", "tested", "full"} = {} /\ "streamed" \notin o
               => ~s.card.portable,
           NEW refused \in BOOLEAN, NEW t, t = Start(s, mode, refused)
    PROVE  Sound(t, Seen(o, t)) /\ t.blink.state = s.blink.state
<1> DEFINE l == SetLed(s.blink)
           b == SetStrobeCount(l, 1)
           u == InMode(s, mode, b)
<1>1. Steady(s) /\ s.blink \in BlinkType /\ mode \in Modes \ PortModes
  BY DEF Begun, Steady, StateType, Modes, UsbModes, PortModes
<1>2. l \in BlinkType /\ l.state = s.blink.state
  BY <1>1, SetBlink
<1> HIDE DEF l
<1>3. b \in BlinkType /\ RowState(b) /\ b.state = s.blink.state
  <2>1. 1 \in Nat \ {0}
    OBVIOUS
  <2> QED BY <1>2, <2>1, SetBlink
<1>4. t = SamplesStart(u, refused)
  <2>1. Up(s)
    BY DEF Begun, Up
  <2>2. t = SamplesStart([s EXCEPT !.mode = mode,
                                   !.blink = SetStrobeCount(SetLed(@), 1)], refused)
    BY <2>1 DEF Start
  <2>3. [s EXCEPT !.mode = mode, !.blink = SetStrobeCount(SetLed(@), 1)] = u
    BY <1>1 DEF InMode, l, Steady, StateType
  <2> QED BY <2>2, <2>3
<1> HIDE DEF b, u
<1>5. /\ Steady(u) /\ u.mode = mode /\ u.blink = b /\ u.was_full = s.was_full
      /\ u.reset = s.reset /\ u.multi = s.multi /\ u.card = s.card /\ u.halt = s.halt
  BY <1>1, <1>3, SetMode DEF u
<1>6. Up(u) /\ Steady(u)
  BY <1>5 DEF Begun, Up
<1>7. Started(u, t)
  BY <1>4, <1>6, SamplesStartEffect
<1>8. t.mode = mode /\ t.blink = b /\ Steady(t)
  BY <1>5, <1>7 DEF Started
<1>9. HaltedRightly(t, Seen(o, t))
  BY <1>5, <1>7 DEF Started, Begun, HaltedRightly, Careless, Seen
<1>10. ASSUME Up(t) PROVE Alive(t, Seen(o, t))
  <2>1. t.halt = "no" /\ t.sampling
    BY <1>7, <1>10 DEF Up, Started
  <2>2. Shows(t, Seen(o, t))
    BY <1>1, <1>8 DEF Shows, PortModes
  <2>3. Records(t, Seen(o, t))
    BY <1>5, <1>7, <1>8, <2>1 DEF Records, Storing, Started
  <2>4. WritesFile(t, Seen(o, t))
    BY <1>5, <1>7 DEF WritesFile, Started, Begun, Careless, Seen
  <2>5. Matches(t, Seen(o, t))
    <3> SUFFICES ASSUME Seen(o, t) \cap {"foreign", "tested", "full"} = {},
                        "streamed" \notin Seen(o, t)
                 PROVE  ~t.card.portable
      BY <1>1, <1>8 DEF Matches
    <3>1. ~s.card.portable /\ ~t.was_full
      BY DEF Seen
    <3>2. CASE ~Storing(u)
      BY <1>5, <1>7, <3>1, <3>2 DEF Started
    <3>3. CASE Storing(u) /\ s.card.formatted
      BY <1>5, <1>7, <2>1, <3>1, <3>3 DEF Started
    <3>4. CASE Storing(u) /\ ~s.card.formatted
      BY <1>5, <1>7, <2>1, <3>1, <3>4 DEF Started, UsbCard
    <3> QED BY <3>2, <3>3, <3>4
  <2> QED BY <2>2, <2>3, <2>4, <2>5 DEF Alive
<1> QED BY <1>3, <1>8, <1>9, <1>10 DEF Sound

(* More oddities excuse more. *)
LEMMA SoundGrows ==
    ASSUME NEW s, NEW o, NEW p, o \subseteq p, Sound(s, o)
    PROVE  Sound(s, p)
<1>1. Careless(o) => Careless(p)
  BY DEF Careless
<1>2. Shows(s, o) => Shows(s, p)
  BY DEF Shows
<1>3. Records(s, o) => Records(s, p)
  BY DEF Records
<1>4. Matches(s, o) => Matches(s, p)
  BY DEF Matches
<1>5. WritesFile(s, o) => WritesFile(s, p)
  BY <1>1 DEF WritesFile
<1>6. Alive(s, o) => Alive(s, p)
  BY <1>2, <1>3, <1>4, <1>5 DEF Alive
<1> QED BY <1>1, <1>6 DEF Sound, HaltedRightly

(* The LED is set to count out the file. *)
Shown(s, t) ==
    /\ Steady(t) /\ t.blink.count = s.seq /\ t.blink.state = s.blink.state
    /\ t.mode = s.mode /\ t.card = s.card /\ t.file = s.file /\ t.seq = s.seq
    /\ t.sampling = s.sampling /\ t.multi = s.multi /\ t.was_full = s.was_full
    /\ t.halt = s.halt

LEMMA ShowFileEffect ==
    ASSUME NEW s, Steady(s), Up(s), NEW t, t = ShowFile(s)
    PROVE  Shown(s, t)
<1>1. s.blink \in BlinkType /\ s.seq \in Nat \ {0} /\ s.mode \in Modes
  BY ControlAssumption DEF Steady, StateType
<1> DEFINE b == SetStrobeCount(s.blink, s.seq)
<1>2. t = InMode(s, s.mode, b)
  BY <1>1 DEF ShowFile, InMode, Steady, StateType
<1>3. b \in BlinkType /\ RowState(b) /\ b.count = s.seq /\ b.state = s.blink.state
  BY <1>1, SetBlink
<1> HIDE DEF b
<1>4. /\ Steady(t) /\ t.mode = s.mode /\ t.blink = b
      /\ t.sampling = s.sampling /\ t.was_full = s.was_full
      /\ t.multi = s.multi /\ t.card = s.card
      /\ t.halt = s.halt /\ t.file = s.file /\ t.seq = s.seq
  BY <1>1, <1>2, <1>3, SetMode
<1> QED BY <1>3, <1>4 DEF Shown

(* A press of the button starts or ends a recording. *)
LEMMA PressSound ==
    ASSUME NEW s, NEW o, Sound(s, o), Up(s), ~s.was_full,
           NEW refused \in BOOLEAN, NEW t, t = Press(s, refused)
    PROVE  Sound(t, Seen(o, t)) /\ t.blink.state = s.blink.state
<1>1. CASE s.mode = "PORT_IDLE"
  <2> DEFINE l == SetLed(s.blink)
             m == "PORT_STORE"
             u == InMode(s, m, l)
             v == SamplesStart(u, refused)
  <2>1. /\ Begun(s, o) /\ Alive(s, o) /\ Steady(s) /\ m \in Modes
        /\ s.blink \in BlinkType
    <3>1. ~Storing(s)
      BY <1>1 DEF Storing
    <3> QED BY <3>1, SoundIsBegun
            DEF Sound, Steady, StateType, Modes, PortModes
  <2>2. t = ShowFile(v)
    <3>1. [s EXCEPT !.mode = "PORT_STORE", !.blink = SetLed(@)] = u
      BY <2>1 DEF InMode, Steady, StateType
    <3>2. t = ShowFile(SamplesStart([s EXCEPT !.mode = "PORT_STORE",
                                              !.blink = SetLed(@)], refused))
      BY <1>1 DEF Press
    <3> QED BY <3>1, <3>2
  <2>3. l \in BlinkType /\ RowState(l) /\ l.state = s.blink.state
    BY <2>1, SetBlink
  <2> HIDE DEF l, m, v
  <2>4. /\ Steady(u) /\ u.mode = m /\ u.blink = l
        /\ u.reset = s.reset /\ u.multi = s.multi /\ u.card = s.card
        /\ u.halt = s.halt
    BY <2>1, <2>3, SetMode
  <2> HIDE DEF u
  <2>5. Up(u) /\ Storing(u)
    BY <2>1, <2>4 DEF Begun, Up, Storing, m
  <2>6. Started(u, v)
    <3>1. v = SamplesStart(u, refused) /\ Steady(u)
      BY <2>4 DEF v
    <3> QED BY <3>1, <2>5, SamplesStartEffect
  <2>7. CASE ~Up(v)
    <3>1. t = v
      BY <2>2, <2>7 DEF ShowFile
    <3>2. v.halt = "card in use" => Careless(Seen(o, v))
      BY <2>1, <2>4, <2>6 DEF Started, Begun, Careless, Seen
    <3>3. v.halt \notin {"close failed", "write failed"} /\ Steady(v)
          /\ v.blink = l
      BY <2>4, <2>6 DEF Started
    <3> QED BY <2>3, <2>7, <3>1, <3>2, <3>3 DEF Sound, HaltedRightly
  <2>8. CASE Up(v)
    <3>1. Steady(v) /\ v.halt = "no"
      BY <2>6, <2>8 DEF Started, Up
    <3>2. Shown(v, t)
      BY <2>2, <2>8, <3>1, ShowFileEffect
    <3>3. /\ v.mode = m /\ v.blink = l /\ v.sampling /\ v.file
          /\ v.seq = v.card.files + 1
          /\ s.card.formatted /\ ~v.was_full => v.card = s.card
      BY <2>4, <2>5, <2>6, <3>1 DEF Started
    <3>4. t.mode = "PORT_STORE" /\ t.was_full = v.was_full /\ t.card = v.card
      BY <3>2, <3>3 DEF Shown, m
    <3>5. Shows(t, Seen(o, t))
      BY <3>2, <3>3 DEF Shows, Shown
    <3>6. Records(t, Seen(o, t)) /\ WritesFile(t, Seen(o, t))
      BY <3>2, <3>3, <3>4 DEF Records, WritesFile, Shown, Storing
    <3>7. Matches(t, Seen(o, t))
      <4> SUFFICES ASSUME Seen(o, t) \cap {"foreign", "tested", "full"} = {}
                   PROVE  t.card.formatted /\ t.card.portable
        BY <3>4 DEF Matches, PortModes
      <4>1. o \cap {"foreign", "tested", "full"} = {} /\ ~t.was_full
        BY DEF Seen
      <4>2. s.card.formatted /\ s.card.portable
        BY <1>1, <2>1, <4>1 DEF Alive, Matches, PortModes
      <4> QED BY <3>3, <3>4, <4>1, <4>2
    <3>8. Steady(t) /\ t.halt = "no" /\ t.blink.state = s.blink.state
      BY <2>3, <3>1, <3>2, <3>3 DEF Shown
    <3> QED BY <3>5, <3>6, <3>7, <3>8 DEF Sound, HaltedRightly, Alive
  <2> QED BY <2>7, <2>8
<1>2. CASE s.mode = "PORT_STORE"
  <2>1. t = StopSampling(s)
    BY <1>2 DEF Press
  <2>2. Sound(t, o) /\ t.was_full = s.was_full /\ t.blink.state = s.blink.state
    BY <2>1, StopSamplingSound
  <2>3. Seen(o, t) = o
    BY <2>2 DEF Seen
  <2> QED BY <2>2, <2>3
<1>3. CASE s.mode \notin {"PORT_IDLE", "PORT_STORE"}
  <2>1. t = s
    BY <1>3 DEF Press
  <2>2. Seen(o, s) = o
    BY DEF Seen
  <2> QED BY <2>1, <2>2
<1> QED BY <1>1, <1>2, <1>3

(* A hold ends what goes on and formats the card. *)
LEMMA HoldSound ==
    ASSUME NEW s, NEW o, Sound(s, o), Up(s), ~s.was_full, NEW t, t = Hold(s)
    PROVE  Sound(t, Seen(o, t)) /\ t.blink.state = s.blink.state
<1> DEFINE u == StopSampling(s)
           v == FsFormat(u, TRUE)
<1>1. /\ Sound(u, o) /\ u.was_full = s.was_full /\ u.blink.state = s.blink.state
      /\ Up(u) => ~Storing(u)
  BY StopSamplingSound
<1>2. t = IF Up(v) THEN ShowFile([v EXCEPT !.mode = "PORT_IDLE"]) ELSE v
  BY DEF Hold
<1>3. v = FsFormat(u, TRUE)
  OBVIOUS
<1> HIDE DEF u, v
<1>4. CASE ~Up(u)
  <2>1. v = u
    BY <1>3, <1>4 DEF FsFormat
  <2>2. t = u
    BY <1>2, <1>4, <2>1
  <2>3. Seen(o, u) = o
    BY <1>1 DEF Seen
  <2> QED BY <1>1, <2>2, <2>3
<1>5. CASE Up(u)
  <2>1. Begun(u, o) /\ Steady(u)
    BY <1>1, <1>5, SoundIsBegun DEF Sound
  <2> DEFINE p == TRUE
  <2>2. v = FsFormat(u, p) /\ p \in BOOLEAN
    BY <1>3
  <2> HIDE DEF p
  <2>3. Formatted(u, p, v)
    BY <1>5, <2>1, <2>2, FsFormatEffect
  <2>4. v.was_full = FALSE /\ v.reset = FALSE /\ Steady(v) /\ v.blink = u.blink
    BY <2>1, <2>3 DEF Formatted, Begun
  <2>5. CASE u.multi
    <3>1. v.halt = "card in use" /\ Careless(o)
      BY <2>1, <2>3, <2>5 DEF Formatted, Begun
    <3>2. t = v /\ ~Up(v)
      BY <1>2, <3>1 DEF Up
    <3>3. Seen(o, v) = o
      BY <2>4 DEF Seen
    <3> QED BY <1>1, <2>4, <3>1, <3>2, <3>3 DEF Sound, HaltedRightly
  <2>6. CASE ~u.multi
    <3> DEFINE m == "PORT_IDLE"
               w == InMode(v, m, v.blink)
    <3>1. /\ v.halt = "no" /\ v.seq = 1 /\ ~v.multi
          /\ v.card = [formatted |-> TRUE, portable |-> p, files |-> 0]
      BY <2>3, <2>6 DEF Formatted
    <3>2. t = ShowFile(w)
      <4>1. t = ShowFile([v EXCEPT !.mode = "PORT_IDLE"])
        BY <1>2, <2>4, <3>1 DEF Up
      <4>2. [v EXCEPT !.mode = "PORT_IDLE"] = w
        BY <2>4 DEF InMode, Steady, StateType
      <4> QED BY <4>1, <4>2
    <3>3. m \in Modes /\ v.blink \in BlinkType /\ RowState(v.blink)
      BY <2>4 DEF Modes, PortModes, Steady, StateType
    <3> HIDE DEF m
    <3>4. /\ Steady(w) /\ w.mode = m /\ w.blink = v.blink /\ w.was_full = v.was_full
          /\ w.reset = v.reset /\ w.multi = v.multi /\ w.card = v.card
          /\ w.halt = v.halt /\ w.seq = v.seq
      BY <2>4, <3>3, SetMode
    <3> HIDE DEF w
    <3>5. Up(w) /\ Steady(w)
      BY <2>4, <3>1, <3>4 DEF Up
    <3>6. Shown(w, t)
      BY <3>2, <3>5, ShowFileEffect
    <3>7. /\ t.mode = "PORT_IDLE" /\ t.blink.count = 1 /\ t.card.files = 0
          /\ t.card.formatted /\ t.card.portable /\ ~t.multi /\ ~Storing(t)
          /\ t.halt = "no" /\ Steady(t) /\ t.was_full = FALSE
          /\ t.blink.state = s.blink.state
      BY <1>1, <2>4, <3>1, <3>4, <3>6 DEF Shown, m, p, Storing
    <3>8. Shows(t, o) /\ Records(t, o) /\ WritesFile(t, o)
      BY <3>7 DEF Shows, Records, WritesFile
    <3>9. Matches(t, o)
      BY <3>7 DEF Matches, PortModes
    <3>10. Seen(o, t) = o
      BY <3>7 DEF Seen
    <3> QED BY <3>7, <3>8, <3>9, <3>10 DEF Sound, HaltedRightly, Alive
  <2> QED BY <2>5, <2>6
<1> QED BY <1>4, <1>5

(* A start to the card formats a portable one first. *)
LEMMA StartSdSound ==
    ASSUME NEW s, NEW o, Sound(s, o), Up(s), ~s.was_full,
           ~Storing(s) \/ Careless(o),
           NEW refused \in BOOLEAN, NEW t, t = StartSd(s, refused)
    PROVE  Sound(t, Seen(o, t)) /\ t.blink.state = s.blink.state
<1> DEFINE u == IF s.mode \in PortModes THEN FsFormat(s, FALSE) ELSE s
           m == "USB_STORE"
<1>1. t = Start(u, m, refused) /\ m \in {"STREAM", "USB_STORE"}
  BY DEF StartSd
<1>2. Begun(s, o) /\ Alive(s, o) /\ Steady(s)
  BY SoundIsBegun DEF Sound
<1>3. CASE s.mode \notin PortModes
  <2>1. u = s
    BY <1>3
  <2>2. /\ o \cap {"foreign", "tested", "full"} = {} /\ "streamed" \notin o
        => ~s.card.portable
    BY <1>2, <1>3 DEF Alive, Matches
  <2> HIDE DEF m, u
  <2> QED BY <1>1, <1>2, <2>1, <2>2, StartSound
<1>4. CASE s.mode \in PortModes
  <2> DEFINE p == FALSE
  <2>1. u = FsFormat(s, p) /\ p \in BOOLEAN
    BY <1>4
  <2> HIDE DEF p, m, u
  <2>2. Formatted(s, p, u)
    BY <1>2, <2>1, FsFormatEffect
  <2>3. /\ Steady(u) /\ u.blink = s.blink /\ u.was_full = FALSE /\ u.reset = FALSE
        /\ u.multi = s.multi
    BY <1>2, <2>2 DEF Formatted, Begun
  <2>4. CASE s.multi
    <3>1. u.halt = "card in use" /\ Careless(o)
      BY <1>2, <2>2, <2>4 DEF Formatted, Begun
    <3>2. ~Up(u)
      BY <3>1 DEF Up
    <3>3. t = u
      BY <1>1, <3>2 DEF Start
    <3>4. Seen(o, u) = o
      BY <2>3 DEF Seen
    <3> QED BY <2>3, <3>1, <3>2, <3>3, <3>4 DEF Sound, HaltedRightly
  <2>5. CASE ~s.multi
    <3>1. /\ u.halt = "no" /\ ~u.multi
          /\ u.card = [formatted |-> TRUE, portable |-> p, files |-> 0]
      BY <2>2, <2>3, <2>5 DEF Formatted
    <3>2. u.card.portable = FALSE
      BY <3>1 DEF p
    <3>3. Begun(u, o) /\ ~u.card.portable
      BY <2>3, <3>1, <3>2 DEF Begun
    <3>4. Sound(t, Seen(o, t)) /\ t.blink.state = u.blink.state
      BY <1>1, <3>3, StartSound
    <3> QED BY <2>3, <3>4
  <2> QED BY <2>4, <2>5
<1> QED BY <1>3, <1>4

(* A self test is an oddity that excuses the rest. *)
LEMMA SelfTestSound ==
    ASSUME NEW s, NEW o, Sound(s, o), Up(s), ~s.was_full, "tested" \in o,
           NEW t, t = SelfTest(s)
    PROVE  Sound(t, Seen(o, t)) /\ t.blink.state = s.blink.state
<1>1. Careless(o) /\ Steady(s)
  BY DEF Careless, Sound
<1>2. ASSUME Steady(t), t.was_full = s.was_full PROVE Sound(t, Seen(o, t))
  <2>1. Seen(o, t) = o
    BY <1>2 DEF Seen
  <2>2. Shows(t, o) /\ Records(t, o) /\ Matches(t, o) /\ WritesFile(t, o)
    BY <1>1 DEF Shows, Records, Matches, WritesFile
  <2> QED BY <1>1, <1>2, <2>1, <2>2 DEF Sound, HaltedRightly, Alive
<1>3. CASE s.multi
  <2> DEFINE why == "card in use"
  <2>1. t = [s EXCEPT !.halt = why] /\ why \in Halts
    BY <1>3 DEF SelfTest, Halt, Halts
  <2> HIDE DEF why
  <2>2. Steady(t) /\ t.blink = s.blink /\ t.was_full = s.was_full
    BY <1>1, <2>1, HaltEffect
  <2> QED BY <1>2, <2>2
<1>4. CASE ~s.multi
  <2> DEFINE p == FALSE
             u == FsFormat(s, p)
             c == [u.card EXCEPT !.files = 1]
  <2>1. p \in BOOLEAN /\ t = [u EXCEPT !.card.files = 1]
    BY <1>4 DEF SelfTest
  <2> HIDE DEF p
  <2>2. Formatted(s, p, u)
    BY <1>1, <2>1, FsFormatEffect
  <2> HIDE DEF u
  <2>3. /\ Steady(u) /\ u.blink = s.blink /\ u.was_full = s.was_full
        /\ u.file = FALSE /\ u.mode = s.mode
        /\ u.card = [formatted |-> TRUE, portable |-> p, files |-> 0]
    BY <1>4, <2>2 DEF Formatted
  <2>4. t = [u EXCEPT !.card = c]
    BY <2>1, <2>3 DEF Steady, StateType
  <2>5. c \in CardType /\ c.formatted
    <3> DEFINE d == u.card
    <3>1. d \in CardType /\ d.formatted
      <4>1. Steady(u)
        BY <2>3
      <4>2. d \in CardType
        BY <4>1 DEF Steady, StateType
      <4>3. d = [formatted |-> TRUE, portable |-> p, files |-> 0]
        BY <2>3
      <4> HIDE DEF d
      <4>4. d.formatted
        BY <4>3
      <4> QED BY <4>2, <4>4
    <3>2. 1 \in 0 .. MAX_FILES
      BY ControlAssumption
    <3> HIDE DEF d
    <3>3. [d EXCEPT !.files = 1] \in CardType /\ [d EXCEPT !.files = 1].formatted
      BY <3>1, <3>2 DEF CardType
    <3> QED BY <3>3 DEF d
  <2> HIDE DEF c
  <2>6. Steady(u) /\ ~u.file
    BY <2>3
  <2>7. Steady(t) /\ t.blink = u.blink /\ t.was_full = u.was_full
    BY <2>4, <2>5, <2>6, SetCard
  <2> QED BY <1>2, <2>3, <2>7
<1> QED BY <1>3, <1>4

(* What no part looks at may change. *)
Alike(s, t) ==
    /\ t.mode = s.mode /\ t.sampling = s.sampling /\ t.file = s.file
    /\ t.seq = s.seq /\ t.multi = s.multi /\ t.halt = s.halt /\ t.reset = s.reset
    /\ t.was_full = s.was_full /\ t.card = s.card /\ t.blink = s.blink
    /\ t.too_long = s.too_long

LEMMA AlikeIsSound ==
    ASSUME NEW s, NEW o, Sound(s, o), ~s.was_full,
           NEW t \in StateType, Alike(s, t)
    PROVE  Sound(t, Seen(o, t)) /\ t.blink.state = s.blink.state
<1>1. Steady(t) /\ HaltedRightly(t, o) /\ (Up(t) <=> Up(s)) /\ Seen(o, t) = o
  BY DEF Sound, Steady, HaltedRightly, Up, Alike, Seen
<1>2. /\ Shows(s, o) => Shows(t, o)
      /\ Records(s, o) => Records(t, o)
      /\ Matches(s, o) => Matches(t, o)
      /\ WritesFile(s, o) => WritesFile(t, o)
  BY DEF Shows, Records, Matches, WritesFile, Storing, Alike
<1> QED BY <1>1, <1>2 DEF Sound, Alive, Alike

(* What a message does to a sound state is sound, with what is odd about it. *)
LEMMA RunSound ==
    ASSUME Sound(Now, odd), Running, NEW m \in Messages, NEW t, t = Run(Now, m)
    PROVE  /\ Sound(t, Seen(odd \cup Oddity(m), t))
           /\ t.blink.state = blink.state
<1> DEFINE s == Now
           o == odd \cup Oddity(m)
<1>1. /\ Sound(s, o) /\ Up(s) /\ s.was_full = FALSE /\ s.blink = blink
      /\ s.mode = fw.mode /\ s.inited = fw.inited /\ s.halt = "no"
  <2>1. /\ Up(s) /\ s.was_full = FALSE /\ s.blink = blink /\ s.mode = fw.mode
        /\ s.inited = fw.inited /\ s.halt = "no"
    BY DEF Now, Up, Running
  <2> QED BY <2>1, SoundGrows
<1>2. Storing(s) <=> Storing(fw)
  BY <1>1 DEF Storing
<1>3. Steady(s) /\ Alive(s, o) /\ Seen(o, s) = o
  BY <1>1 DEF Sound, Seen
<1> HIDE DEF s
<1>4. CASE m.type = "INIT" \/ m.type = "RESET"
  <2>1. t \in {s, [s EXCEPT !.reset = TRUE], [s EXCEPT !.inited = TRUE]}
    BY <1>4 DEF Run, s
  <2>2. CASE t = s
    BY <1>1, <1>3, <2>2
  <2>3. CASE t = [s EXCEPT !.reset = TRUE]
    <3>1. t \in StateType
      BY <1>3, <2>3 DEF Steady, StateType
    <3>2. /\ t.reset = TRUE /\ t.halt = s.halt /\ t.was_full = s.was_full
          /\ t.file = s.file /\ t.seq = s.seq /\ t.card = s.card /\ t.blink = s.blink
      BY <1>3, <2>3 DEF Steady, StateType
    <3> QED BY <1>1, <1>3, <3>1, <3>2 DEF Sound, Steady, HaltedRightly, Up
  <2>4. CASE t = [s EXCEPT !.inited = TRUE]
    <3>1. t \in StateType
      BY <1>3, <2>4 DEF Steady, StateType
    <3>2. Alike(s, t)
      BY <1>3, <2>4 DEF Alike, Steady, StateType
    <3> HIDE DEF o
    <3> QED BY <1>1, <3>1, <3>2, AlikeIsSound DEF o
  <2> QED BY <2>1, <2>2, <2>3, <2>4
<1>5. CASE m.type = "GAIN_SET"
  <2>1. t = [s EXCEPT !.gain = m.gain] /\ m.gain \in {"ok", "bad"}
    BY <1>5 DEF Run, Messages, s
  <2>2. t \in StateType
    BY <1>3, <2>1 DEF Steady, StateType
  <2>3. Alike(s, t)
    BY <1>3, <2>1 DEF Alike, Steady, StateType
  <2> HIDE DEF o
  <2> QED BY <1>1, <2>2, <2>3, AlikeIsSound DEF o
<1>6. CASE m.type = "START_SAMPLING_UART"
  <2>1. t = Start(s, "STREAM", m.refused) /\ m.refused \in BOOLEAN
    BY <1>6 DEF Run, Messages, s
  <2>2. Begun(s, o)
    <3>1. ~Storing(s) \/ Careless(o)
      BY <1>2, <1>6 DEF Oddity, Careless
    <3> QED BY <1>1, <3>1, SoundIsBegun
  <2>3. /\ o \cap {"foreign", "tested", "full"} = {} /\ "streamed" \notin o
        => ~s.card.portable
    <3>1. s.mode \in PortModes => "streamed" \in o
      BY <1>1, <1>6 DEF Oddity
    <3> QED BY <1>3, <3>1 DEF Alive, Matches
  <2> DEFINE mode == "STREAM"
  <2>4. mode \in {"STREAM", "USB_STORE"} /\ t = Start(s, mode, m.refused)
    BY <2>1
  <2> HIDE DEF mode, o
  <2> QED BY <1>1, <2>1, <2>2, <2>3, <2>4, StartSound DEF o
<1>7. CASE m.type = "START_SAMPLING_SD"
  <2>1. t = StartSd(s, m.refused) /\ m.refused \in BOOLEAN
    BY <1>7 DEF Run, Messages, s
  <2>2. ~Storing(s) \/ Careless(o)
    BY <1>2, <1>7 DEF Oddity, Careless
  <2> HIDE DEF o
  <2> QED BY <1>1, <2>1, <2>2, StartSdSound DEF o
<1>8. CASE m.type \in {"READ_SD_UART", "GET_RTC"}
  <2> DEFINE u == StopSampling(s)
  <2>1. /\ t = FsOpenOld(u, m.file, m.quick)
        /\ m.file \in 0 .. MAX_FILES /\ m.quick \in BOOLEAN
    <3>1. t = FsOpenOld(u, m.file, m.quick)
      BY <1>8 DEF Run, s
    <3>2. \/ m \in [type : {"READ_SD_UART", "GET_RTC"}, file : 0 .. MAX_FILES,
                    quick : {FALSE}]
          \/ m \in [type : {"READ_SD_UART", "GET_RTC"}, file : {0}, quick : {TRUE}]
      BY <1>8 DEF Messages
    <3>3. 0 \in 0 .. MAX_FILES
      BY ControlAssumption
    <3> QED BY <3>1, <3>2, <3>3
  <2> HIDE DEF o
  <2>2. /\ Sound(u, o) /\ u.was_full = s.was_full
        /\ u.blink.state = s.blink.state /\ (Up(u) => ~Storing(u))
    BY <1>1, StopSamplingSound
  <2> HIDE DEF u
  <2>3. CASE Up(u)
    BY <1>1, <2>1, <2>2, <2>3, FsOpenOldSound DEF o
  <2>4. CASE ~Up(u)
    <3>1. t = u /\ Seen(o, u) = o
      BY <1>1, <2>1, <2>2, <2>4 DEF FsOpenOld, Seen
    <3> QED BY <1>1, <2>2, <3>1 DEF o
  <2> QED BY <2>3, <2>4
<1>9. CASE m.type = "SELF_TEST"
  <2>1. t = SelfTest(s) /\ "tested" \in o
    BY <1>9 DEF Run, Oddity, s
  <2> HIDE DEF o
  <2> QED BY <1>1, <2>1, SelfTestSound DEF o
<1>10. m.type \in {"INIT", "RESET", "GAIN_SET", "START_SAMPLING_UART",
                   "START_SAMPLING_SD", "READ_SD_UART", "GET_RTC", "SELF_TEST"}
  BY DEF Messages
<1> QED BY <1>4, <1>5, <1>6, <1>7, <1>8, <1>9, <1>10

-----------------------------------------------------------------------------
(* Steps *)

(* The state a handler works on, from what the variables hold. *)
Whole(f, c, b) ==
    [mode |-> f.mode, inited |-> f.inited, gain |-> f.gain,
     sampling |-> f.sampling, file |-> f.file, seq |-> f.seq,
     multi |-> f.multi, too_long |-> f.too_long, halt |-> f.halt, reset |-> FALSE,
     was_full |-> FALSE, card |-> c, blink |-> b]

(* A state put together from the variables has what they have. *)
Of(f, c, b, r) ==
    /\ r \in StateType
    /\ r.mode = f.mode /\ r.sampling = f.sampling /\ r.file = f.file
    /\ r.seq = f.seq /\ r.multi = f.multi /\ r.halt = f.halt
    /\ r.too_long = f.too_long
    /\ r.reset = FALSE /\ r.was_full = FALSE /\ r.card = c /\ r.blink = b

LEMMA WholeIsState ==
    ASSUME NEW f \in FwType, NEW c \in CardType, NEW b \in BlinkType,
           NEW r, r = Whole(f, c, b)
    PROVE  Of(f, c, b, r)
  BY ZenonT(60) DEF Whole, Of, StateType, FwType, Modes, Halts

(* The firmware after a boot. *)
Ready(f, c, b, r, o) ==
    f \in FwType /\ b \in BlinkType /\ c \in CardType /\ Sound(r, o)

(* What the card says at boot is the mode, and the next file. *)
LEMMA BootSound ==
    ASSUME NEW c \in CardType, ~c.formatted => c.files = 0 /\ ~c.portable,
           NEW garbage \in BOOLEAN, NEW o,
           ~c.formatted /\ garbage => "foreign" \in o,
           Full(c) => "full" \in o,
           NEW f, f = BootState(c, garbage),
           NEW b, b = Booted(f, BlinkInit),
           NEW d, d = IF Full(c) THEN UsbCard ELSE c,
           NEW r, r = Whole(f, d, b)
    PROVE  Ready(f, d, b, r, o)
<1> DEFINE portable == IF c.formatted THEN c.portable ELSE garbage
           q == IF Full(c) THEN 1 ELSE c.files + 1
           m == IF portable THEN "PORT_IDLE" ELSE "USB_IDLE"
<1>1. /\ q \in 1 .. MAX_FILES + 1 /\ q \in Nat \ {0}
      /\ m \in {"PORT_IDLE", "USB_IDLE"}
      /\ d \in CardType /\ q = d.files + 1
      /\ ~d.formatted => d.files = 0 /\ ~d.portable
      /\ ~Full(c) => d = c
  <2>1. CASE Full(c)
    BY <2>1, Cards, ControlAssumption DEF UsbCard
  <2>2. CASE ~Full(c)
    BY <2>2, Cards, ControlAssumption DEF CardType
  <2> QED BY <2>1, <2>2
<1>2. f = [mode |-> m, inited |-> FALSE, gain |-> "ok", sampling |-> FALSE,
           file |-> FALSE, seq |-> q, multi |-> FALSE,
           too_long |-> FALSE, halt |-> "no"]
  BY DEF BootState
<1>3. m = "PORT_IDLE" => portable = TRUE
  BY DEF CardType
<1>4. m = "USB_IDLE" => portable = FALSE
  BY DEF CardType
<1> HIDE DEF m, q
<1>5. f \in FwType /\ f.halt = "no" /\ f.mode = m /\ f.seq = q /\ f.multi = FALSE
      /\ f.file = FALSE
  BY <1>1, <1>2 DEF FwType, UsbModes, PortModes
<1>6. /\ BlinkInit \in BlinkType /\ RowState(BlinkInit)
  BY Limits DEF BlinkInit, BlinkType, RowState
<1>7. b \in BlinkType /\ RowState(b) /\ (m = "PORT_IDLE" => b.count = q)
  <2>1. CASE m = "PORT_IDLE"
    <3>1. b = SetStrobeCount(BlinkInit, q)
      BY <1>5, <2>1 DEF Booted
    <3>2. BlinkInit \in BlinkType /\ q \in Nat \ {0}
      BY <1>1, <1>6
    <3> QED BY <3>1, <3>2, SetBlink
  <2>2. CASE m # "PORT_IDLE"
    BY <1>5, <1>6, <2>2 DEF Booted
  <2> QED BY <2>1, <2>2
<1>8. /\ r \in StateType
      /\ r.mode = m /\ r.file = FALSE /\ r.seq = q /\ r.multi = FALSE
      /\ r.halt = "no" /\ r.card = d /\ r.blink = b
  <2>1. Of(f, d, b, r)
    <3>1. f \in FwType /\ d \in CardType /\ b \in BlinkType
      BY <1>1, <1>5, <1>7
    <3> QED BY <3>1, WholeIsState
  <2> QED BY <1>5, <2>1 DEF Of
<1>9. Steady(r) /\ ~Storing(r)
  BY <1>1, <1>7, <1>8 DEF Steady, Storing
<1>10. Shows(r, o)
  BY <1>1, <1>7, <1>8 DEF Shows, PortModes
<1>11. Matches(r, o)
  <2> SUFFICES ASSUME o \cap {"foreign", "tested", "full"} = {}
               PROVE  /\ m \in PortModes => d.formatted /\ d.portable
                      /\ m \notin PortModes => ~d.portable
    BY <1>8 DEF Matches
  <2>1. d = c /\ (c.formatted \/ ~garbage)
    BY <1>1
  <2>2. CASE m = "PORT_IDLE"
    <3>1. portable
      BY <1>3, <2>2
    <3> QED BY <2>1, <2>2, <3>1 DEF PortModes
  <2>3. CASE m = "USB_IDLE"
    <3>1. ~portable
      BY <1>4, <2>3
    <3> QED BY <2>1, <2>3, <3>1 DEF PortModes
  <2> QED BY <1>1, <2>2, <2>3
<1> QED BY <1>1, <1>5, <1>7, <1>8, <1>9, <1>10, <1>11
        DEF Sound, HaltedRightly, Alive, Records, WritesFile, Ready

(* What a handler returns is stored as it is, but for a reset. *)
LEMMA StoreSound ==
    ASSUME NEW t, NEW before, Store(t, before),
           Sound(t, Seen(odd \cup before, t)),
           odd \subseteq {"tested", "restarted", "streamed", "foreign", "full"},
           before \subseteq {"tested", "restarted", "streamed", "foreign", "full"}
    PROVE  /\ fw' \in FwType /\ card' \in CardType /\ blink' \in BlinkType
           /\ odd' \subseteq {"tested", "restarted", "streamed", "foreign", "full"}
           /\ Sound(Now', odd')
<1> DEFINE f == [mode |-> t.mode, inited |-> t.inited, gain |-> t.gain,
                 sampling |-> t.sampling, file |-> t.file, seq |-> t.seq,
                 multi |-> t.multi, too_long |-> t.too_long,
                 halt |-> IF t.reset THEN "reset" ELSE t.halt]
           o == Seen(odd \cup before, t)
<1>1. fw' = f /\ card' = t.card /\ blink' = t.blink /\ odd' = o
  BY DEF Store, Seen
<1>2. Steady(t) /\ t \in StateType /\ HaltedRightly(t, o)
  BY DEF Sound, Steady
<1>3. t.card \in CardType /\ t.blink \in BlinkType
  BY <1>2 DEF StateType
<1>4. f \in FwType
  <2>1. (IF t.reset THEN "reset" ELSE t.halt) \in Halts
    BY <1>2 DEF StateType, Halts
  <2> QED BY <1>2, <2>1 DEF StateType, FwType, Modes, Halts
<1>5. /\ f.mode = t.mode /\ f.sampling = t.sampling /\ f.file = t.file
      /\ f.seq = t.seq /\ f.multi = t.multi /\ f.too_long = t.too_long
      /\ f.halt = IF t.reset THEN "reset" ELSE t.halt
  OBVIOUS
<1> HIDE DEF f
<1> DEFINE r == Whole(f, t.card, t.blink)
<1>6. Now' = r
  BY <1>1 DEF Now, Whole
<1>7. /\ r \in StateType
      /\ r.mode = t.mode /\ r.sampling = t.sampling /\ r.file = t.file
      /\ r.seq = t.seq /\ r.multi = t.multi /\ r.too_long = t.too_long
      /\ r.halt = (IF t.reset THEN "reset" ELSE t.halt)
      /\ r.reset = FALSE /\ r.card = t.card /\ r.blink = t.blink
  <2>1. Of(f, t.card, t.blink, r)
    BY <1>3, <1>4, WholeIsState
  <2> QED BY <1>5, <2>1 DEF Of
<1> HIDE DEF r, o
<1>8. Steady(r)
  BY <1>2, <1>7 DEF Steady
<1>9. HaltedRightly(r, o)
  BY <1>2, <1>7 DEF HaltedRightly
<1>10. ASSUME Up(r) PROVE Alive(r, o)
  <2>1. Up(t)
    BY <1>2, <1>7, <1>10 DEF Up
  <2>2. Shows(t, o) /\ Records(t, o) /\ Matches(t, o) /\ WritesFile(t, o)
    BY <2>1 DEF Sound, Alive, o
  <2>3. Shows(r, o) /\ Records(r, o) /\ Matches(r, o) /\ WritesFile(r, o)
    BY <1>7, <2>2 DEF Shows, Records, Matches, WritesFile, Storing
  <2> QED BY <2>3 DEF Alive
<1>11. o \subseteq {"tested", "restarted", "streamed", "foreign", "full"}
  BY DEF o, Seen
<1> QED BY <1>1, <1>3, <1>4, <1>6, <1>8, <1>9, <1>10, <1>11 DEF Sound

(* The button after a boot. *)
LEMMA ButtonUpType ==
    ButtonUp \in [state : {"IDLE", "HOLDING", "HELD"}, down_ms : 0 .. BUTTON_HOLD_MS]
<1>1. 0 \in 0 .. BUTTON_HOLD_MS
  BY PanelAssumption
<1> QED BY <1>1 DEF ButtonUp

(* A first boot, with a card that was never formatted. *)
LEMMA InitSound == Init => IInv
<1> SUFFICES ASSUME Init PROVE IInv
  OBVIOUS
<1>1. PICK garbage \in BOOLEAN :
         fw = BootState(card, garbage) /\ odd = IF garbage THEN {"foreign"} ELSE {}
  BY DEF Init
<1>2. card = [formatted |-> FALSE, portable |-> FALSE, files |-> 0]
      /\ blink = Booted(fw, BlinkInit)
  BY DEF Init
<1>3. /\ card \in CardType /\ ~card.formatted /\ card.files = 0 /\ ~card.portable
      /\ ~Full(card)
  <2>1. 0 \in 0 .. MAX_FILES
    BY ControlAssumption
  <2>2. card \in CardType
    BY <1>2, <2>1 DEF CardType
  <2>3. card.formatted = FALSE /\ card.portable = FALSE /\ card.files = 0
    BY <1>2
  <2> QED BY <2>2, <2>3 DEF Full
<1> DEFINE r == Whole(fw, card, blink)
<1>4. Now = r
  BY DEF Now, Whole
<1> HIDE DEF r
<1>5. /\ fw \in FwType /\ blink \in BlinkType /\ Sound(r, odd)
  <2>1. garbage => "foreign" \in odd
    BY <1>1
  <2>2. card = IF Full(card) THEN UsbCard ELSE card
    BY <1>3
  <2>3. r = Whole(fw, card, blink)
    BY DEF r
  <2>4. Ready(fw, card, blink, r, odd)
    BY <1>1, <1>2, <1>3, <2>1, <2>2, <2>3, BootSound
  <2> QED BY <2>4 DEF Ready
<1>6. odd \subseteq {"tested", "restarted", "streamed", "foreign", "full"}
  BY <1>1
<1>7. /\ button \in [state : {"IDLE", "HOLDING", "HELD"},
                      down_ms : 0 .. BUTTON_HOLD_MS]
      /\ is_down \in BOOLEAN /\ acted \in BOOLEAN /\ ActedIsHeld
  BY ButtonUpType DEF Init, ActedIsHeld
<1> QED BY <1>3, <1>4, <1>5, <1>6, <1>7 DEF IInv, TypeOK, CardType

(* A boot after a halt or a reset. *)
LEMMA BootStep == IInv /\ Boot => IInv'
<1> SUFFICES ASSUME IInv, Boot PROVE IInv'
  OBVIOUS
<1>1. PICK garbage \in BOOLEAN :
        /\ fw' = BootState(card, garbage)
        /\ odd' = (IF ~card.formatted /\ garbage THEN {"foreign"} ELSE {})
                     \cup (IF Full(card) THEN {"full"} ELSE {})
  BY DEF Boot
<1>2. /\ card' = IF Full(card) THEN UsbCard ELSE card
      /\ blink' = Booted(fw', BlinkInit)
  BY DEF Boot
<1>3. card \in CardType /\ (~card.formatted => card.files = 0 /\ ~card.portable)
  <2>1. card \in CardType /\ Steady(Now)
    BY DEF IInv, TypeOK, CardType, Sound
  <2>2. Now.card = card
    BY DEF Now
  <2> QED BY <2>1, <2>2 DEF Steady
<1> DEFINE r == Whole(fw', card', blink')
<1>4. Now' = r
  BY DEF Now, Whole
<1>5. r = Whole(fw', card', blink')
  OBVIOUS
<1> HIDE DEF r
<1>6. ~card.formatted /\ garbage => "foreign" \in odd'
  BY <1>1
<1>7. Full(card) => "full" \in odd'
  BY <1>1
<1>8. fw' \in FwType /\ blink' \in BlinkType /\ card' \in CardType /\ Sound(r, odd')
  <2>1. Ready(fw', card', blink', r, odd')
    BY <1>1, <1>2, <1>3, <1>5, <1>6, <1>7, BootSound
  <2> QED BY <2>1 DEF Ready
<1>9. odd' \subseteq {"tested", "restarted", "streamed", "foreign", "full"}
  BY <1>1
<1>10. /\ button' \in [state : {"IDLE", "HOLDING", "HELD"},
                       down_ms : 0 .. BUTTON_HOLD_MS]
       /\ is_down' \in BOOLEAN /\ acted' \in BOOLEAN /\ ActedIsHeld'
  BY ButtonUpType DEF Boot, ActedIsHeld, IInv, TypeOK
<1> QED BY <1>4, <1>8, <1>9, <1>10 DEF IInv, TypeOK, CardType

(* A message, which does not touch the row of pulses that is shown. *)
LEMMA MessageStep ==
    ASSUME IInv, NEW m \in Messages, GotMessage(m)
    PROVE  IInv' /\ blink'.state = blink.state
<1> DEFINE t == Run(Now, m)
<1>1. Sound(Now, odd) /\ Running /\ Store(t, Oddity(m))
  BY DEF IInv, GotMessage
<1>2. Sound(t, Seen(odd \cup Oddity(m), t)) /\ t.blink.state = blink.state
  BY <1>1, RunSound
<1>3. /\ Oddity(m) \subseteq {"tested", "restarted", "streamed", "foreign", "full"}
      /\ odd \subseteq {"tested", "restarted", "streamed", "foreign", "full"}
  BY DEF Oddity, IInv, TypeOK
<1>4. blink' = t.blink
  BY <1>1 DEF Store
<1> HIDE DEF t
<1>5. /\ fw' \in FwType /\ card' \in CardType /\ blink' \in BlinkType
      /\ odd' \subseteq {"tested", "restarted", "streamed", "foreign", "full"}
      /\ Sound(Now', odd')
  BY <1>1, <1>2, <1>3, StoreSound
<1> QED BY <1>2, <1>4, <1>5 DEF GotMessage, IInv, TypeOK, CardType, ActedIsHeld

(* A button that acts while it is down is held from then on. *)
LEMMA ButtonUpdateKeeps ==
    ASSUME NEW b \in [state : {"IDLE", "HOLDING", "HELD"},
                      down_ms : 0 .. BUTTON_HOLD_MS],
           NEW down \in BOOLEAN, NEW d \in Nat \ {0},
           NEW u, u = ButtonUpdate(b, down, d)
    PROVE  /\ u.to \in [state : {"IDLE", "HOLDING", "HELD"},
                         down_ms : 0 .. BUTTON_HOLD_MS]
           /\ u.call \in {"none", "press", "hold"}
           /\ down /\ u.call # "none" => u.to.state = "HELD"
           /\ down /\ b.state = "HELD" => u.to.state = "HELD"
<1> DEFINE ms == UpTo(BUTTON_HOLD_MS, b.down_ms + d)
<1>1. ms \in 0 .. BUTTON_HOLD_MS /\ 0 \in 0 .. BUTTON_HOLD_MS
      /\ b.state \in {"IDLE", "HOLDING", "HELD"}
  BY PanelAssumption DEF UpTo
<1> HIDE DEF ms
<1>2. CASE b.state = "IDLE" /\ down
  BY <1>1, <1>2 DEF ButtonUpdate
<1>3. CASE b.state = "HOLDING" /\ down
  BY <1>1, <1>3 DEF ButtonUpdate, ms
<1>4. CASE b.state = "HOLDING" /\ ~down
  BY <1>1, <1>4 DEF ButtonUpdate, ButtonUp
<1>5. CASE b.state = "HELD" /\ ~down
  BY <1>1, <1>5 DEF ButtonUpdate, ButtonUp
<1>6. CASE (b.state = "IDLE" /\ ~down) \/ (b.state = "HELD" /\ down)
  BY <1>1, <1>6 DEF ButtonUpdate
<1> QED BY <1>1, <1>2, <1>3, <1>4, <1>5, <1>6

(* What the invariant says of the variables. *)
LEMMA NowParts ==
    ASSUME IInv
    PROVE  /\ Sound(Now, odd) /\ Steady(Now) /\ Of(fw, card, blink, Now)
           /\ fw \in FwType /\ card \in CardType /\ blink \in BlinkType
           /\ RowState(blink)
           /\ odd \subseteq {"tested", "restarted", "streamed", "foreign", "full"}
<1>1. Sound(Now, odd) /\ Steady(Now)
  BY DEF IInv, Sound
<1>2. fw \in FwType /\ card \in CardType /\ blink \in BlinkType
  BY DEF IInv, TypeOK, CardType
<1>3. Now = Whole(fw, card, blink)
  BY DEF Now, Whole
<1>4. Of(fw, card, blink, Now)
  BY <1>2, <1>3, WholeIsState
<1>5. RowState(blink)
  BY <1>1, <1>4 DEF Steady, Of
<1>6. odd \subseteq {"tested", "restarted", "streamed", "foreign", "full"}
  BY DEF IInv, TypeOK
<1> QED BY <1>1, <1>2, <1>4, <1>5, <1>6

(* The LED's update leaves the rest alone. *)
LEMMA TickSound ==
    ASSUME NEW s, NEW o, Sound(s, o), NEW b \in BlinkType, RowState(b),
           b.count = s.blink.count,
           NEW t, t = [s EXCEPT !.blink = b]
    PROVE  /\ Sound(t, o) /\ t.was_full = s.was_full /\ t.blink = b
           /\ t.halt = s.halt /\ t.reset = s.reset
<1>1. Steady(s)
  BY DEF Sound
<1>2. t \in StateType
  BY <1>1 DEF Steady, StateType
<1>3. /\ t.mode = s.mode /\ t.sampling = s.sampling /\ t.file = s.file
      /\ t.seq = s.seq /\ t.multi = s.multi /\ t.halt = s.halt
      /\ t.too_long = s.too_long
      /\ t.reset = s.reset /\ t.was_full = s.was_full /\ t.card = s.card
      /\ t.blink = b
  BY <1>1 DEF Steady, StateType
<1>4. Steady(t) /\ HaltedRightly(t, o) /\ (Up(t) <=> Up(s))
  BY <1>1, <1>2, <1>3 DEF Sound, Steady, HaltedRightly, Up
<1>5. /\ Shows(s, o) => Shows(t, o)
      /\ Records(s, o) => Records(t, o)
      /\ Matches(s, o) => Matches(t, o)
      /\ WritesFile(s, o) => WritesFile(t, o)
  BY <1>3 DEF Shows, Records, Matches, WritesFile, Storing
<1> QED BY <1>3, <1>4, <1>5 DEF Sound, Alive

(* An update of the LED and the button, and what the button then does. *)
LEMMA TickStep ==
    ASSUME IInv, NEW d \in 1 .. MAX_LATE, NEW refused \in BOOLEAN, Tick(d, refused)
    PROVE  /\ IInv'
           /\ (~blink.first /\ blink.state # "FIRST" /\ blink'.state = "FIRST"
                 => blink.pulses = blink.count /\ ~blink.led)
<1> DEFINE u == ButtonUpdate(button, is_down, d)
           e == BlinkUpdate(blink, d)
           s == [Now EXCEPT !.blink = e]
           t == CASE u.call = "press" -> Press(s, refused)
                  [] u.call = "hold" -> Hold(s)
                  [] u.call = "none" -> s
           before == {}
<1>1. d \in Nat \ {0} /\ Running
  BY ControlAssumption DEF Tick
<1>2. /\ Sound(Now, odd) /\ Of(fw, card, blink, Now) /\ blink \in BlinkType
      /\ RowState(blink) /\ Steady(Now)
  BY NowParts
<1>3. /\ e \in BlinkType /\ RowState(e) /\ e.count = blink.count
      /\ (~blink.first /\ blink.state # "FIRST" /\ e.state = "FIRST"
            => blink.pulses = blink.count /\ ~blink.led)
  BY <1>1, <1>2, BlinkUpdateKeepsRow
<1>4. Store(t, before)
  <2>1. [Now EXCEPT !.blink = BlinkUpdate(@, d)] = s
    BY <1>2 DEF Steady, StateType, Of
  <2> QED BY <2>1 DEF Tick
<1>5. /\ button' = u.to /\ is_down' = is_down
       /\ acted' = IF ~is_down THEN FALSE ELSE acted \/ u.call # "none"
  BY DEF Tick
<1> HIDE DEF e
<1>6. /\ Sound(s, odd) /\ s.was_full = FALSE /\ s.blink = e
      /\ s.halt = "no" /\ s.reset = FALSE
  <2>1. e.count = Now.blink.count /\ Now.was_full = FALSE /\ Now.halt = "no"
        /\ Now.reset = FALSE
    BY <1>1, <1>2, <1>3 DEF Of, Running
  <2>2. Sound(s, odd) /\ s.was_full = Now.was_full /\ s.blink = e
        /\ s.halt = Now.halt /\ s.reset = Now.reset
    BY <1>2, <1>3, <2>1, TickSound
  <2> QED BY <2>1, <2>2
<1>7. Up(s)
  BY <1>6 DEF Up
<1>8. /\ button' \in [state : {"IDLE", "HOLDING", "HELD"},
                      down_ms : 0 .. BUTTON_HOLD_MS]
      /\ u.call \in {"none", "press", "hold"}
      /\ is_down' \in BOOLEAN /\ acted' \in BOOLEAN /\ ActedIsHeld'
  <2>1. /\ u.to \in [state : {"IDLE", "HOLDING", "HELD"},
                     down_ms : 0 .. BUTTON_HOLD_MS]
        /\ u.call \in {"none", "press", "hold"}
        /\ is_down /\ u.call # "none" => u.to.state = "HELD"
        /\ is_down /\ button.state = "HELD" => u.to.state = "HELD"
    BY <1>1, ButtonUpdateKeeps DEF IInv, TypeOK
  <2>2. is_down \in BOOLEAN /\ acted \in BOOLEAN /\ (acted => button.state = "HELD")
    BY DEF IInv, TypeOK, ActedIsHeld
  <2> HIDE DEF u
  <2>3. button' = u.to /\ is_down' \in BOOLEAN
    BY <1>5, <2>2
  <2>4. acted' = IF ~is_down THEN FALSE ELSE acted \/ u.call # "none"
    BY <1>5
  <2>5. acted' \in BOOLEAN
    BY <2>4, Zenon
  <2>6. acted' => is_down /\ (acted \/ u.call # "none")
    BY <2>4, Zenon
  <2>7. acted' => u.to.state = "HELD"
    BY <2>1, <2>2, <2>6
  <2>8. ActedIsHeld'
    BY <2>3, <2>7 DEF ActedIsHeld
  <2> QED BY <2>1, <2>3, <2>5, <2>8
<1> HIDE DEF u, s
<1>9. Sound(t, Seen(odd, t)) /\ t.blink.state = e.state
  <2>1. CASE u.call = "press"
    <3>1. t = Press(s, refused)
      BY <2>1
    <3> HIDE DEF t
    <3> QED BY <1>6, <1>7, <3>1, PressSound
  <2>2. CASE u.call = "hold"
    <3>1. t = Hold(s)
      BY <2>2
    <3> HIDE DEF t
    <3> QED BY <1>6, <1>7, <3>1, HoldSound
  <2>3. CASE u.call = "none"
    <3>1. t = s
      BY <2>3
    <3>2. Seen(odd, s) = odd
      BY <1>6 DEF Seen
    <3> HIDE DEF t
    <3> QED BY <1>6, <3>1, <3>2
  <2> QED BY <1>8, <2>1, <2>2, <2>3
<1> HIDE DEF t
<1>10. /\ Sound(t, Seen(odd \cup before, t))
      /\ before \subseteq {"tested", "restarted", "streamed", "foreign", "full"}
      /\ odd \subseteq {"tested", "restarted", "streamed", "foreign", "full"}
  <2>1. odd \cup before = odd
    OBVIOUS
  <2> QED BY <1>9, <2>1, NowParts
<1>11. blink' = t.blink
  BY <1>4 DEF Store
<1> HIDE DEF before
<1>12. /\ fw' \in FwType /\ card' \in CardType /\ blink' \in BlinkType
       /\ odd' \subseteq {"tested", "restarted", "streamed", "foreign", "full"}
       /\ Sound(Now', odd')
  BY <1>4, <1>10, StoreSound
<1>13. IInv'
  BY <1>8, <1>12 DEF IInv, TypeOK, CardType
<1> QED BY <1>3, <1>9, <1>11, <1>13

(* The card's steps change only whether a write is open, or halt. *)
LEMMA CardStep ==
    ASSUME IInv, StoreBlock \/ OutOfOrder
    PROVE  IInv' /\ blink' = blink
<1>1. /\ Sound(Now, odd) /\ Of(fw, card, blink, Now) /\ fw \in FwType
      /\ card \in CardType /\ blink \in BlinkType /\ Steady(Now)
  BY NowParts
<1>2. /\ card' = card /\ blink' = blink /\ odd' = odd /\ Running /\ Storing(fw)
      /\ UNCHANGED <<button, is_down, acted>>
  BY DEF StoreBlock, OutOfOrder
<1>3. Now.halt = "no" /\ Now.reset = FALSE /\ Alive(Now, odd) /\ Storing(Now)
  <2>1. Now.halt = "no" /\ Now.reset = FALSE /\ Storing(Now)
    BY <1>1, <1>2 DEF Of, Running, Storing
  <2> QED BY <1>1, <2>1 DEF Up, Sound
<1>4. /\ fw' \in FwType
      /\ fw'.mode = fw.mode /\ fw'.sampling = fw.sampling /\ fw'.file = fw.file
      /\ fw'.seq = fw.seq
      /\ \/ fw'.halt = "no"
         \/ fw'.halt \in {"write failed", "card in use"} /\ Careless(odd)
  <2>1. CASE StoreBlock /\ ~fw.file
    <3>1. fw' = [fw EXCEPT !.halt = "write failed"]
      BY <2>1 DEF StoreBlock
    <3>2. "tested" \in odd
      BY <1>1, <1>3, <2>1 DEF Of, Alive, Records
    <3>3. Careless(odd)
      BY <3>2 DEF Careless
    <3> QED BY <1>1, <3>1, <3>3 DEF FwType
  <2>2. CASE StoreBlock /\ fw.file
    <3>1. \E past \in BOOLEAN :
             fw' = [fw EXCEPT !.multi = TRUE, !.too_long = past]
      BY <2>2 DEF StoreBlock
    <3> QED BY <1>1, <1>2, <3>1 DEF FwType, Running
  <2>3. CASE OutOfOrder
    <3>1. fw' = [fw EXCEPT !.halt = "card in use"] /\ Careless(odd)
      BY <2>3 DEF OutOfOrder, Careless
    <3> QED BY <1>1, <3>1 DEF FwType
  <2> QED BY <2>1, <2>2, <2>3
<1> DEFINE r == Whole(fw', card', blink')
<1>5. Now' = r
  BY <1>2 DEF Now, Whole
<1>6. r = Whole(fw', card', blink') /\ card' \in CardType /\ blink' \in BlinkType
  BY <1>1, <1>2
<1> HIDE DEF r
<1>7. Of(fw', card', blink', r)
  BY <1>4, <1>6, WholeIsState
<1>8. /\ r \in StateType
      /\ r.mode = Now.mode /\ r.sampling = Now.sampling /\ r.file = Now.file
      /\ r.seq = Now.seq /\ r.card = Now.card /\ r.blink = Now.blink
      /\ r.halt = fw'.halt
  BY <1>1, <1>2, <1>4, <1>7 DEF Of
<1>9. Steady(r) /\ Storing(r)
  BY <1>1, <1>3, <1>8 DEF Steady, Storing
<1>10. HaltedRightly(r, odd)
  BY <1>4, <1>8 DEF HaltedRightly
<1>11. /\ Shows(r, odd) /\ Records(r, odd) /\ Matches(r, odd)
       /\ WritesFile(r, odd)
  BY <1>3, <1>8, <1>9 DEF Alive, Shows, Records, Matches, WritesFile, Storing
<1>12. Sound(Now', odd')
  BY <1>2, <1>5, <1>9, <1>10, <1>11 DEF Sound, Alive
<1> QED BY <1>2, <1>4, <1>6, <1>12 DEF IInv, TypeOK, CardType, ActedIsHeld

(* The button itself moves, or nothing does. *)
LEMMA ButtonStep ==
    ASSUME IInv, ButtonMoves \/ UNCHANGED vars
    PROVE  IInv' /\ blink' = blink
<1>1. /\ UNCHANGED <<fw, card, blink, button, odd, acted>>
      /\ is_down' \in BOOLEAN
  BY DEF ButtonMoves, vars, IInv, TypeOK
<1>2. Now' = Now
  BY <1>1 DEF Now
<1> QED BY <1>1, <1>2 DEF IInv, TypeOK, ActedIsHeld

(* Every step keeps the invariant. *)
LEMMA NextStep == IInv /\ [Next]_vars => IInv'
<1> SUFFICES ASSUME IInv, [Next]_vars PROVE IInv'
  OBVIOUS
<1>1. ASSUME NEW m \in Messages, GotMessage(m) PROVE IInv'
  BY <1>1, MessageStep
<1>2. ASSUME NEW d \in 1 .. MAX_LATE, NEW refused \in BOOLEAN, Tick(d, refused)
      PROVE  IInv'
  BY <1>2, TickStep
<1>3. CASE StoreBlock \/ OutOfOrder
  BY <1>3, CardStep
<1>4. CASE ButtonMoves \/ UNCHANGED vars
  BY <1>4, ButtonStep
<1>5. CASE Boot
  BY <1>5, BootStep
<1> QED BY <1>1, <1>2, <1>3, <1>4, <1>5 DEF Next

(* The parts that make the properties hold agree, in every reachable state. *)
THEOREM Invariant == Spec => []IInv
  BY InitSound, NextStep, PTL DEF Spec

(* The state of the firmware, the card and the panel keeps its type: the    *)
(* numbers of files stay within the card's room (control.c 90-201).         *)
THEOREM TypeCorrect == Spec => []TypeOK
<1>1. IInv => TypeOK
  BY DEF IInv
<1> QED BY <1>1, Invariant, PTL

(* What the invariant says of a firmware that runs. *)
LEMMA NowAlive ==
    ASSUME IInv
    PROVE  /\ Of(fw, card, blink, Now) /\ HaltedRightly(Now, odd)
           /\ Running => Alive(Now, odd)
<1>1. Sound(Now, odd) /\ Of(fw, card, blink, Now)
  BY NowParts
<1>2. Running => Up(Now)
  BY <1>1 DEF Of, Up, Running
<1> QED BY <1>1, <1>2 DEF Sound

(* In portable mode the LED counts out the file being recorded, or the next *)
(* one, with any number of files (control.c 20, 195, 215 and main.c 34).    *)
THEOREM LedShowsFile == Spec => []StrobeShowsFile
<1>1. IInv => StrobeShowsFile
  BY NowAlive DEF Alive, Shows, Of, StrobeShowsFile
<1> QED BY <1>1, Invariant, PTL

(* A recording mode has a file open and samples coming, however the modes   *)
(* were reached (control.c 185-201).                                        *)
THEOREM RecordingIsStored == Spec => []RecordingHasFile
<1>1. IInv => RecordingHasFile
  BY NowAlive DEF Alive, Records, Storing, Of, RecordingHasFile
<1> QED BY <1>1, Invariant, PTL

(* The firmware halts of its own only after a start while recording, after  *)
(* a self test, or closing a recording that came to the end of the card     *)
(* (control.c 90-110, sd.c 260, fs.c 350 and 369).                          *)
THEOREM HaltsOnlyWhenRestarted == Spec => []HaltNeedsRestart
<1>1. IInv => HaltNeedsRestart
  BY NowAlive DEF HaltedRightly, Careless, Of, HaltNeedsRestart
<1> QED BY <1>1, Invariant, PTL

(* The mode is the one the card would boot into, but for the named oddities *)
(* (control.c 101, main.c 25).                                              *)
THEOREM ModeIsOfCard == Spec => []ModeMatchesCard
<1>1. UsbModes \cap PortModes = {}
  BY DEF UsbModes, PortModes
<1>2. IInv => ModeMatchesCard
  BY <1>1, NowAlive DEF Alive, Matches, Of, ModeMatchesCard
<1> QED BY <1>2, Invariant, PTL

(* However late the button's updates come, it acts once each time it is     *)
(* pressed (button.c 40-79).                                                *)
THEOREM ActsOncePerPress == Spec => OncePerPress
<1>1. IInv /\ [Next]_vars =>
        [(Running /\ button.state = "HOLDING" /\ button'.state # "HOLDING")
          => ~acted]_vars
  BY DEF IInv, ActedIsHeld
<1> QED BY <1>1, Invariant, PTL DEF Spec, OncePerPress

(* A row of pulses that is not cut short has as many as the count, however  *)
(* late the updates come and however long the pulses are (blink.c 56-86).   *)
THEOREM FullRowShowsCount == Spec => RowShowsCount
<1>1. ASSUME IInv, [Next]_vars, Running, ~blink.first, blink.state # "FIRST",
             blink'.state = "FIRST"
      PROVE  blink.pulses = blink.count /\ ~blink.led
  <2>1. ASSUME NEW m \in Messages, GotMessage(m) PROVE FALSE
    BY <1>1, <2>1, MessageStep
  <2>2. ASSUME NEW d \in 1 .. MAX_LATE, NEW refused \in BOOLEAN, Tick(d, refused)
        PROVE  blink.pulses = blink.count /\ ~blink.led
    BY <1>1, <2>2, TickStep
  <2>3. ~(StoreBlock \/ OutOfOrder)
    BY <1>1, CardStep
  <2>4. ~(ButtonMoves \/ UNCHANGED vars)
    BY <1>1, ButtonStep
  <2>5. ~Boot
    BY <1>1 DEF Boot, Running
  <2> QED BY <1>1, <2>1, <2>2, <2>3, <2>4, <2>5 DEF Next
<1>2. IInv /\ [Next]_vars =>
        [(Running /\ ~blink.first /\ blink.state # "FIRST" /\ blink'.state = "FIRST")
          => blink.pulses = blink.count /\ ~blink.led]_vars
  BY <1>1
<1> QED BY <1>2, Invariant, PTL DEF Spec, RowShowsCount

=============================================================================
