------------------------------- MODULE Panel -------------------------------
(***************************************************************************)
(* The front panel of the BattOr: the button (drivers/button.c) and the    *)
(* blinking LED (blink.c), as pure functions of their state.  Both are     *)
(* updated by the main loop after timer interrupts; several interrupts may *)
(* fall together, so that an update comes d milliseconds after the one     *)
(* before.  Times are in units of the LED's on and off times; counters     *)
(* that are only compared with a limit stop at it, but for blink_ms, whose *)
(* wrap makes a long row of pulses pause.                                  *)
(***************************************************************************)
EXTENDS Integers

CONSTANTS
    BUTTON_HOLD_MS,       \* down this long is a hold (2000 ms)
    BLINK_INTERVAL,       \* from one row of pulses to the next (2000 ms)
    BLINK_ON, BLINK_OFF,  \* length of a pulse, and of the gap after it
    BLINK_WRAP            \* where blink_ms wraps (2^16 ms)

ASSUME PanelAssumption ==
    /\ BUTTON_HOLD_MS \in Nat \ {0} /\ BLINK_INTERVAL \in Nat \ {0}
    /\ BLINK_ON \in Nat \ {0} /\ BLINK_OFF \in Nat \ {0}
    /\ BLINK_WRAP \in Nat /\ BLINK_WRAP > BLINK_INTERVAL

UpTo(limit, n) == IF n < limit THEN n ELSE limit

-----------------------------------------------------------------------------
(* The button *)

ButtonUp == [state |-> "IDLE", down_ms |-> 0]

(* Mutant: after a hold the button counts as up. *)
MutButtonUpdate(b, is_down, d) ==
    LET down == UpTo(BUTTON_HOLD_MS, b.down_ms + d) IN
    CASE b.state = "IDLE" /\ is_down ->
            [to |-> [state |-> "HOLDING", down_ms |-> 0], call |-> "none"]
      [] b.state = "HOLDING" /\ is_down /\ down < BUTTON_HOLD_MS ->
            [to |-> [state |-> "HOLDING", down_ms |-> down], call |-> "none"]
      [] b.state = "HOLDING" /\ is_down /\ down = BUTTON_HOLD_MS ->
            [to |-> ButtonUp, call |-> "hold"]
      [] b.state = "HOLDING" /\ ~is_down -> [to |-> ButtonUp, call |-> "press"]
      [] OTHER -> [to |-> b, call |-> "none"]

(* button_ms_timer_update, d ms after the update before: the new state, and *)
(* the handler it calls.                                                    *)
ButtonUpdate(b, is_down, d) ==
    LET down == UpTo(BUTTON_HOLD_MS, b.down_ms + d) IN
    CASE b.state = "IDLE" /\ is_down ->
            [to |-> [state |-> "HOLDING", down_ms |-> 0], call |-> "none"]
      [] b.state = "HOLDING" /\ is_down ->
            [to |-> [state |-> IF down = BUTTON_HOLD_MS THEN "HELD" ELSE "HOLDING",
                     down_ms |-> down],
             call |-> IF down = BUTTON_HOLD_MS THEN "hold" ELSE "none"]
      [] b.state = "HOLDING" /\ ~is_down -> [to |-> ButtonUp, call |-> "press"]
      [] b.state = "HELD" /\ ~is_down -> [to |-> ButtonUp, call |-> "none"]
      [] OTHER -> [to |-> b, call |-> "none"]

-----------------------------------------------------------------------------
(* The LED.  led tells whether it is lit; pulses counts those of this row. *)

(* blink_init *)
BlinkInit == [first |-> TRUE, state |-> "FIRST", ms |-> 0, strobe_ms |-> 0,
              idx |-> 0, count |-> 1, led |-> FALSE, pulses |-> 0]

(* blink_set_led: the LED blinking so far goes off *)
SetLed(b) == [b EXCEPT !.first = TRUE, !.led = FALSE]

(* blink_set_strobe_count *)
SetStrobeCount(b, n) ==
    IF n > 0 THEN [b EXCEPT !.count = n, !.first = TRUE] ELSE b

(* blink_ms_timer_update up to its switch: the row may be due, or, after a *)
(* wrap of blink_ms in the middle of it, pause.  strobe_ms is the time      *)
(* since the LED was switched, the pause included.                          *)
BlinkDue(b, d) ==
    LET b0 == IF b.first
              THEN [b EXCEPT !.ms = BLINK_INTERVAL, !.strobe_ms = 0,
                             !.state = "FIRST", !.first = FALSE]
              ELSE [b EXCEPT !.ms = (b.ms + d) % BLINK_WRAP,
                             !.strobe_ms = UpTo(BLINK_ON + BLINK_OFF, b.strobe_ms + d)]
    IN  IF b0.state = "FIRST" /\ b0.ms >= BLINK_INTERVAL
        THEN [b0 EXCEPT !.idx = 0, !.state = "WAIT_FOR_LED_ON", !.pulses = 0]
        ELSE b0

(* Mutant: the row goes on until the index has passed the count. *)
MutRowGoesOn(b) == b.idx <= b.count

RowGoesOn(b) == b.idx < b.count

(* blink_ms_timer_update *)
BlinkUpdate(b, d) ==
    LET b1 == BlinkDue(b, d) IN
    CASE b1.ms < BLINK_INTERVAL -> b1
      [] b1.ms >= BLINK_INTERVAL /\ ~RowGoesOn(b1) ->
            [b1 EXCEPT !.ms = 0, !.state = "FIRST"]
      [] b1.ms >= BLINK_INTERVAL /\ RowGoesOn(b1) ->
            CASE b1.state = "WAIT_FOR_LED_ON" ->
                    [b1 EXCEPT !.led = TRUE, !.strobe_ms = 0,
                               !.state = "LED_ON", !.pulses = b1.pulses + 1]
              [] b1.state = "LED_ON" /\ b1.strobe_ms >= BLINK_ON ->
                    [b1 EXCEPT !.led = FALSE, !.strobe_ms = 0, !.state = "LED_OFF"]
              [] b1.state = "LED_OFF" /\ b1.strobe_ms >= BLINK_OFF ->
                    [b1 EXCEPT !.state = "WAIT_FOR_LED_ON", !.idx = b1.idx + 1]
              [] OTHER -> b1

=============================================================================
