---------------------------- MODULE UartParsers ----------------------------
(***************************************************************************)
(* The frames on the UART, and the two parsers that find them in a stream  *)
(* of bytes: uart_rx_bytes of the firmware (fw/drivers/uart.c), which      *)
(* starts over at the byte that does not fit, and the one of the host      *)
(* (sw/uart.c), which never gives up a frame but at a timeout.             *)
(***************************************************************************)
EXTENDS Integers, SequencesExt

START == 0
END   == 1
ESC   == 2

CONTROL     == 3
CONTROL_ACK == 4
SAMPLES     == 5

Escaped(b) == IF b <= ESC THEN <<ESC, b>> ELSE <<b>>

(* uart_tx_bytes_prepare; the host's uart_tx_bytes escapes the same bytes. *)
Escape(payload) == FlattenSeq([i \in DOMAIN payload |-> Escaped(payload[i])])

Frame(type, payload) == <<START, type>> \o Escape(payload) \o <<END>>

-----------------------------------------------------------------------------
(* The firmware's parser *)

FwFresh == [start_found |-> FALSE, esc_last |-> FALSE, start_last |-> FALSE,
            bytes |-> <<>>, end_found |-> FALSE]

Takes(p, b_len) == Len(p.bytes) < b_len

(* The bytes the parser takes in state p; any other resets it. *)
FwFits(p, b, b_len) ==
    CASE ~p.start_found -> b = START
      [] p.start_found /\ p.esc_last -> b <= ESC /\ Takes(p, b_len)
      [] p.start_found /\ ~p.esc_last ->
            \/ b \in {ESC, END}
            \/ b > ESC /\ (p.start_last \/ Takes(p, b_len))

FwAdvance(p, b) ==
    CASE ~p.start_found -> [p EXCEPT !.start_found = TRUE, !.start_last = TRUE]
      [] p.start_found /\ p.esc_last ->
            [p EXCEPT !.bytes = Append(@, b), !.esc_last = FALSE]
      [] p.start_found /\ ~p.esc_last /\ b = ESC -> [p EXCEPT !.esc_last = TRUE]
      [] p.start_found /\ ~p.esc_last /\ b = END -> [p EXCEPT !.end_found = TRUE]
      [] p.start_found /\ ~p.esc_last /\ b > ESC ->
            IF p.start_last THEN [p EXCEPT !.start_last = FALSE]
            ELSE [p EXCEPT !.bytes = Append(@, b)]

(* Mutant: the byte that did not fit is not tried again. *)
MutFwReset(b) == FwFresh

(* parser_begin, where the byte that did not fit is tried once more *)
FwReset(b) ==
    IF FwFits(FwFresh, b, 0) THEN FwAdvance(FwFresh, b) ELSE FwFresh

(* One byte: used counts those taken, keep those before parser_begin.  A   *)
(* byte tried again counts as before parser_begin.                         *)
FwByte(r, b, b_len) ==
    IF FwFits(r.p, b, b_len)
    THEN [r EXCEPT !.p = FwAdvance(r.p, b), !.used = @ + 1]
    ELSE [p |-> FwReset(b), used |-> r.used + 1, keep |-> r.used + 1]

(* uart_rx_bytes after each of the first bytes received: nothing more is    *)
(* taken behind the end of a frame.                                         *)
FwAfter(received, b_len) ==
    LET after[i \in 0 .. Len(received)] ==
            IF i = 0 THEN [p |-> FwFresh, used |-> 0, keep |-> 0]
            ELSE LET r == after[i - 1]
                 IN  IF r.p.end_found THEN r ELSE FwByte(r, received[i], b_len)
    IN  after

(* uart_rx_bytes on the bytes received so far *)
FwParse(received, b_len) == FwAfter(received, b_len)[Len(received)]

(* Mutant: the index moves past a frame that is not complete. *)
MutFwConsumed(r) == r.used

(* How far the read index moves: not past a frame that is not complete. *)
FwConsumed(r) == IF r.p.end_found THEN r.used ELSE r.keep

-----------------------------------------------------------------------------
(* uart_self_test: each test is what arrives before each of its calls, and  *)
(* the payloads they return, in order.                                      *)

(* A call of uart_rx_bytes when piece has arrived behind what is left. *)
FwCall(c, piece, b_len) ==
    LET received == c.left \o piece
        r        == FwParse(received, b_len)
    IN  [left    |-> SubSeq(received, FwConsumed(r) + 1, Len(received)),
         returns |-> IF r.p.end_found THEN Append(c.returns, r.p.bytes)
                     ELSE c.returns]

FwReturns(pieces, b_len) ==
    FoldLeft(LAMBDA c, piece : FwCall(c, piece, b_len),
             [left |-> <<>>, returns |-> <<>>], pieces).returns

Zeros == <<0, 0, 0, 0, 0>>
SelfTests ==
    { [pieces |-> <<Frame(CONTROL, <<0, 1, 0, 2, 2>>)>>,
       returns |-> <<<<0, 1, 0, 2, 2>>>>],
      [pieces |-> <<<<255, END>> \o Frame(CONTROL, <<0, 1, 1, 0, 1>>)>>,
       returns |-> <<<<0, 1, 1, 0, 1>>>>],
      [pieces |-> <<<<START>> \o Frame(CONTROL, <<0, 1, 2, 2, 1>>)>>,
       returns |-> <<<<0, 1, 2, 2, 1>>>>],
      [pieces |-> <<Frame(CONTROL, Zeros)
                      \o SubSeq(Frame(CONTROL, Zeros), 1, 6)
                      \o Frame(CONTROL, <<0, 1, 1, 2, 2>>), <<>>>>,
       returns |-> <<Zeros, <<0, 1, 1, 2, 2>>>>],
      [pieces |-> <<SubSeq(Frame(CONTROL, <<0, 2, 2, 1, 1>>), 1, 6),
                    SubSeq(Frame(CONTROL, <<0, 2, 2, 1, 1>>), 7, 13)>>,
       returns |-> <<<<0, 2, 2, 1, 1>>>>] }

-----------------------------------------------------------------------------
(* The host's parser.  It stores into its caller's buffer, which keeps what *)
(* an earlier call left in it; n counts the bytes stored by this call.      *)

HostFresh(h) == [h EXCEPT !.start_found = FALSE, !.end_found = FALSE,
                          !.esc_last = FALSE, !.start_last = FALSE, !.n = 0]

HostStored(h, b) ==
    IF h.n < Len(h.buf) THEN [h EXCEPT !.buf[h.n + 1] = b, !.n = @ + 1] ELSE h

HostByte(h, b) ==
    CASE h.esc_last -> [HostStored(h, b) EXCEPT !.esc_last = FALSE]
      [] ~h.esc_last /\ b = ESC -> [h EXCEPT !.esc_last = TRUE]
      [] ~h.esc_last /\ b = START ->
            [h EXCEPT !.start_found = TRUE, !.start_last = TRUE, !.n = 0]
      [] ~h.esc_last /\ b = END -> [h EXCEPT !.end_found = TRUE]
      [] ~h.esc_last /\ b > ESC ->
            IF h.start_last THEN [h EXCEPT !.type = b, !.start_last = FALSE]
            ELSE IF h.start_found THEN HostStored(h, b) ELSE h

HostDone(h) == h.start_found /\ h.end_found

(* uart_rx_bytes after each of the first bytes received, and how many of    *)
(* them it took                                                             *)
HostAfter(h, received) ==
    LET after[i \in 0 .. Len(received)] ==
            IF i = 0 THEN [h |-> h, used |-> 0]
            ELSE LET r == after[i - 1]
                 IN  IF HostDone(r.h) THEN r
                     ELSE [h |-> HostByte(r.h, received[i]), used |-> i]
    IN  after

(* uart_rx_bytes on what has come in; left is what it did not get to. *)
HostParse(h, received) ==
    LET r == HostAfter(h, received)[Len(received)]
    IN  [h |-> r.h, left |-> SubSeq(received, r.used + 1, Len(received))]

=============================================================================
