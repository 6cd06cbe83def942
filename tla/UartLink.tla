------------------------------ MODULE UartLink ------------------------------
(***************************************************************************)
(* The serial link, byte by byte: the host's control() (sw/control.c) with *)
(* its resends, and its reading of a stream; the firmware's receive        *)
(* interrupt and ring (fw/drivers/uart.c), which main parses and flushes   *)
(* (fw/control.c), and the frames it sends, acknowledgements between the   *)
(* pieces of a sample frame included.                                      *)
(*                                                                         *)
(* A byte to the firmware carries the number of the frame it belongs to,   *)
(* which is history.  The interrupt comes between any two steps of main;   *)
(* the parser itself, which only looks at bytes that are there when it     *)
(* asks for them, is one step.                                             *)
(***************************************************************************)
EXTENDS UartParsers, FiniteSets

CONSTANTS
    Session,             \* the messages of the host's control() calls
    START_SAMPLING,      \* the control type that starts the stream
    UART_RX_BUFFER_LEN,  \* cells of the firmware's receive ring (200)
    MAX_FRAMES,          \* bound: frames of a stream
    MAX_FAULTS,          \* bound: bytes the firmware's UART gets wrong, writes
                         \* it gives up, timeouts while an answer is due
    CUT_WEIGHT           \* as how many of these a write given up counts

MSG_LEN == 2             \* type and value, in a message and in its ack

Messages == [1 .. MSG_LEN -> Nat]

(* The calls of a stream that wait for their ack are of different types,    *)
(* and the last one starts it: INIT, GAIN_SET, START_SAMPLING_UART, a type  *)
(* that takes no escape byte (fw/control.h 8-14).                           *)
ASSUME UartLinkAssumption ==
    /\ Session \in Seq(Messages) /\ Session # <<>>
    /\ \A i, j \in DOMAIN Session : Session[i][1] = Session[j][1] => i = j
    /\ Session[Len(Session)][1] = START_SAMPLING
    /\ START_SAMPLING \in Nat /\ START_SAMPLING > ESC
    /\ UART_RX_BUFFER_LEN \in Nat \ {0} /\ CUT_WEIGHT \in Nat \ {0}
    /\ MAX_FAULTS \in Nat

VARIABLES
    host, h,                  \* host: pc, message of Session; its parser
    to_fw, to_host,           \* bytes on the way
    received,                 \* what the firmware's ring has between its
                              \* read and its write index
    fw,                       \* main: pc, message run, stream state, seqnum
    faults,                   \* how many may still happen
    sent, ran, harmed,        \* history: frames sent, run, not whole
    acked, got, odd           \* history: what control() and the reader return

hostVars  == <<host, h, acked, got>>
vars == <<hostVars, to_fw, to_host, received, fw, faults, sent, ran, harmed, odd>>

Init ==
    /\ host = [pc |-> "send", msg |-> 1]
    /\ h = [start_found |-> FALSE, end_found |-> FALSE, esc_last |-> FALSE,
            start_last |-> FALSE, type |-> CONTROL_ACK + 1, n |-> 0,
            buf |-> [i \in 1 .. MSG_LEN |-> 0]]
    /\ to_fw = <<>> /\ to_host = <<>>
    /\ received = <<>>
    /\ fw = [pc |-> "main", frame |-> "none", seqnum |-> 0, msg |-> <<>>]
    /\ faults = MAX_FAULTS
    /\ sent = <<>> /\ ran = <<>> /\ harmed = {}
    /\ acked = <<>> /\ got = <<>> /\ odd = {}

-----------------------------------------------------------------------------
(* The firmware's receive ring *)

Owners(bytes) == {bytes[i][2] : i \in DOMAIN bytes}
Values(bytes) == [i \in DOMAIN bytes |-> bytes[i][1]]

uart_rx_is_pending == received # <<>>

(* There is no test for a full ring: the byte that brings the write index   *)
(* to the read index makes all of it look read.                             *)
Stored(bytes, b) ==
    IF Len(bytes) + 1 = UART_RX_BUFFER_LEN THEN <<>> ELSE Append(bytes, b)

(* ISR(USARTD0_RXC_vect) *)
Receive ==
    /\ to_fw # <<>>
    /\ received' = Stored(received, Head(to_fw))
    /\ to_fw' = Tail(to_fw)
    /\ harmed' = IF received' = <<>>
                 THEN harmed \cup Owners(received) \cup {Head(to_fw)[2]} ELSE harmed
    /\ UNCHANGED <<hostVars, to_host, fw, faults, sent, ran, odd>>

(* A framing error: the byte is skipped. *)
ReceiveError ==
    /\ to_fw # <<>> /\ faults > 0
    /\ to_fw' = Tail(to_fw)
    /\ faults' = faults - 1
    /\ harmed' = harmed \cup {Head(to_fw)[2]}
    /\ UNCHANGED <<hostVars, to_host, received, fw, sent, ran, odd>>

-----------------------------------------------------------------------------
(* The firmware's main loop *)

(* Mutant: a message that came short is run. *)
MutWhole(r) == r.p.end_found /\ r.p.bytes # <<>>

Whole(r) == r.p.end_found /\ Len(r.p.bytes) = MSG_LEN

Sampling(msg) == msg[1] = START_SAMPLING

(* control_got_uart_bytes, up to the answer of control_run_message.         *)
(* samples_start, for a stream, starts its frames over.                     *)
GotUartBytes ==
    /\ fw.pc = "main" /\ uart_rx_is_pending
    /\ LET r   == FwParse(Values(received), MSG_LEN)
           len == FwConsumed(r)
           msg == r.p.bytes
       IN  /\ received' = SubSeq(received, len + 1, Len(received))
           /\ IF Whole(r)
              THEN /\ fw' = [fw EXCEPT !.pc = "ack", !.msg = msg,
                               !.frame = IF Sampling(msg) THEN "PRE" ELSE @,
                               !.seqnum = IF Sampling(msg) THEN 0 ELSE @]
                   /\ ran' = Append(ran, [msg |-> msg,
                               from |-> Owners(SubSeq(received, r.keep + 1, len))])
                   /\ odd' = IF Sampling(msg) /\ fw.frame # "none"
                             THEN odd \cup {"restarted"} ELSE odd
              ELSE UNCHANGED <<fw, ran, odd>>
    /\ UNCHANGED <<hostVars, to_fw, to_host, faults, sent, harmed>>

(* uart_tx: every byte, or those before it timed out on the flow control *)
Transmit(bytes) ==
    \/ to_host' = to_host \o bytes /\ UNCHANGED faults
    \/ /\ faults >= CUT_WEIGHT
       /\ faults' = faults - CUT_WEIGHT
       /\ \E n \in 0 .. Len(bytes) - 1 : to_host' = to_host \o SubSeq(bytes, 1, n)

WasCut == faults' # faults

(* The value of an ack, which the firmware makes up as it runs the message. *)
AckOf(msg) == <<msg[1], msg[2]>>

Ack ==
    /\ fw.pc = "ack"
    /\ Transmit(Frame(CONTROL_ACK, AckOf(fw.msg)))
    /\ fw' = [fw EXCEPT !.pc = "flush"]
    /\ odd' = odd \cup (IF fw.frame \in {"MID", "END"} THEN {"torn"} ELSE {})
                  \cup (IF WasCut THEN {"cut"} ELSE {})
    /\ UNCHANGED <<hostVars, to_fw, received, sent, ran, harmed>>

(* uart_rx_flush *)
Flush ==
    /\ fw.pc = "flush"
    /\ fw' = [fw EXCEPT !.pc = "main", !.msg = <<>>]
    /\ received' = <<>>
    /\ harmed' = harmed \cup Owners(received) \cup
                   (IF to_fw = <<>> THEN {} ELSE {Head(to_fw)[2]})
    /\ UNCHANGED <<hostVars, to_fw, to_host, faults, sent, ran, odd>>

SampleFrame(k) == <<k, k>>    \* sequence number and samples

(* Mutant: the sequence number stays. *)
MutNextFrame(f) == [f EXCEPT !.frame = "PRE"]

NextFrame(f) == [f EXCEPT !.frame = "PRE", !.seqnum = @ + 1]

(* samples_uart_write(0): a piece of the frame at a time *)
StreamPiece ==
    /\ fw.pc = "main" /\ fw.seqnum < MAX_FRAMES
    /\ \/ /\ fw.frame = "PRE"
          /\ Transmit(<<START, SAMPLES>> \o Escaped(SampleFrame(fw.seqnum)[1]))
          /\ fw' = [fw EXCEPT !.frame = "MID"]
       \/ /\ fw.frame = "MID"      \* the DMA, which the flow control pauses
          /\ to_host' = to_host \o Escaped(SampleFrame(fw.seqnum)[2])
          /\ fw' = [fw EXCEPT !.frame = "END"]
          /\ UNCHANGED faults
       \/ /\ fw.frame = "END"
          /\ Transmit(<<END>>)
          /\ fw' = NextFrame(fw)
    /\ odd' = odd \cup (IF WasCut THEN {"cut"} ELSE {})
    /\ UNCHANGED <<hostVars, to_fw, received, sent, ran, harmed>>

-----------------------------------------------------------------------------
(* The host *)

Message == Session[host.msg]

(* control(), from the top of its loop *)
Send ==
    /\ host.pc = "send"
    /\ sent' = Append(sent, Message)
    /\ to_fw' = to_fw \o [i \in DOMAIN Frame(CONTROL, Message) |->
                            <<Frame(CONTROL, Message)[i], Len(sent) + 1>>]
    /\ host' = [host EXCEPT !.pc = "listen"]
    /\ h' = HostFresh(h)
    /\ UNCHANGED <<to_host, received, fw, faults, ran, harmed, acked, got, odd>>

(* Mutant: the type in the ack is not compared. *)
MutAnswers(r) == r.type = CONTROL_ACK

(* The condition of control()'s loop, of a call that did not time out: the *)
(* length is not looked at.                                                *)
Answers(r) == r.type = CONTROL_ACK /\ r.buf[1] = Message[1]

NextCall(host0) ==
    IF host0.msg < Len(Session)
    THEN [pc |-> "send", msg |-> host0.msg + 1]
    ELSE [pc |-> "read", msg |-> host0.msg]

(* control()'s locals, as the next call finds them *)
FreshLocals(r) == [HostFresh(r) EXCEPT !.type = CONTROL_ACK + 1,
                                       !.buf = [i \in 1 .. MSG_LEN |-> 0]]

(* uart_rx_bytes takes its bytes as they come; nothing shows before it      *)
(* returns, so that they are left on the way until then.                    *)
Returns == HostDone(HostParse(h, to_host).h)

Listen ==
    /\ host.pc = "listen" /\ Returns
    /\ LET r == HostParse(h, to_host) IN
       /\ to_host' = r.left
       /\ IF Answers(r.h)
          THEN /\ acked' = Append(acked, [msg |-> Message, value |-> r.h.buf[2]])
               /\ host' = NextCall(host) /\ h' = FreshLocals(r.h)
          ELSE /\ host' = [host EXCEPT !.pc = "send"]
               /\ h' = HostFresh(r.h) /\ UNCHANGED acked
    /\ UNCHANGED <<to_fw, received, fw, faults, sent, ran, harmed, got, odd>>

(* samples_read: frames of another type are passed over. *)
ReadStream ==
    /\ host.pc = "read" /\ Returns
    /\ LET r == HostParse(h, to_host) IN
       /\ to_host' = r.left /\ h' = HostFresh(r.h)
       /\ got' = IF r.h.type = SAMPLES
                 THEN Append(got, SubSeq(r.h.buf, 1, r.h.n)) ELSE got
    /\ UNCHANGED <<host, to_fw, received, fw, faults, sent, ran, harmed, acked,
                   odd>>

(* When main has something to do *)
FwCanRun ==
    \/ fw.pc # "main"
    \/ fw.frame # "none" /\ fw.seqnum < MAX_FRAMES
    \/ LET r == FwParse(Values(received), MSG_LEN)
       IN  r.p.end_found \/ r.keep > 0

(* Nothing is on its way that could still become an answer. *)
NothingDue == to_fw = <<>> /\ ~FwCanRun

(* Mutant: a call that timed out is given up. *)
MutAfterTimeout == "exit"

AfterTimeout == "send"

(* UART_RX_ATTEMPTS reads found nothing: uart_rx_bytes returns -1. *)
Timeout ==
    /\ host.pc = "listen" /\ ~Returns
    /\ IF NothingDue THEN UNCHANGED faults
       ELSE faults > 0 /\ faults' = faults - 1
    /\ host' = [host EXCEPT !.pc = AfterTimeout]
    /\ h' = HostFresh(HostParse(h, to_host).h) /\ to_host' = <<>>
    /\ UNCHANGED <<to_fw, received, fw, sent, ran, harmed, acked, got, odd>>

FwMain   == GotUartBytes \/ Ack \/ Flush \/ StreamPiece
HostStep == Send \/ Listen \/ ReadStream \/ Timeout

Next == Receive \/ ReceiveError \/ FwMain \/ HostStep

Spec == Init /\ [][Next]_vars

(* When the host has something to do *)
HostCanRun ==
    CASE host.pc = "send" -> TRUE
      [] host.pc = "listen" -> Returns \/ NothingDue \/ faults > 0
      [] host.pc = "read" -> Returns
      [] OTHER -> FALSE

(* Bytes arrive, and both programs run; nothing makes a fault happen.  The  *)
(* last two conjuncts are WF_vars(FwMain) and WF_vars(HostStep), with their *)
(* enabling conditions spelled out.                                         *)
FairSpec ==
    /\ Spec /\ WF_vars(Receive)
    /\ []<>~FwCanRun \/ []<><<FwMain>>_vars
    /\ []<>~HostCanRun \/ []<><<HostStep>>_vars

-----------------------------------------------------------------------------
(* Properties *)

(* The parser passes the tests of uart_self_test (uart.c 396-603). *)
SelfTestPasses ==
    sent = <<>> => \A t \in SelfTests : FwReturns(t.pieces, 200) = t.returns

(* The firmware runs only messages the host sent, and each frame at most    *)
(* once (control.c 40-44), whichever few bytes its UART loses and however   *)
(* the ring runs over: it puts no message together from pieces of two.  A   *)
(* frame has no checksum: were the back of one frame and the front of the   *)
(* next lost, the two would pass for one.                                   *)
RunsOnlySent ==
    /\ \A i \in DOMAIN ran : \E n \in DOMAIN sent :
         ran[i].from = {n} /\ ran[i].msg = sent[n]
    /\ \A i, j \in DOMAIN ran : ran[i].from = ran[j].from => i = j

(* When control() returns, the firmware has run its message, and the value  *)
(* is the one it answered with (sw/control.c 15-40), in spite of resends    *)
(* and late acks of the call before.  An ack cut behind an escape byte is   *)
(* another matter: the next START then counts as its type or its value.     *)
AckMeansRun ==
    "cut" \notin odd =>
        \A i \in DOMAIN acked :
            /\ acked[i].value = AckOf(acked[i].msg)[2]
            /\ \E j \in DOMAIN ran : ran[j].msg = acked[i].msg

ParsedPast(n) == n \in DOMAIN sent /\ n \notin Owners(received) \cup Owners(to_fw)

(* A frame that came whole is lost only behind one that did not (uart.c     *)
(* 262-269): a break in the stream of bytes costs at most the next frame.   *)
LostBehindHarmed ==
    \A n \in DOMAIN sent :
        ParsedPast(n) /\ n \notin harmed /\ n - 1 \notin harmed =>
            \E i \in DOMAIN ran : ran[i].from = {n}

(* The host reads the stream's frames as they were sent and in order, as    *)
(* long as none was cut, no ack was sent in the middle of one, and the      *)
(* stream was started once (sw/uart.c 49-147, fw/samples.c 192-276).        *)
StreamAsSent ==
    odd = {} => \A k \in DOMAIN got : got[k] = SampleFrame(k - 1)

(* A frame that came whole is run: one that broke off before it does not    *)
(* cost it (the case "frame, partial frame, frame" of uart_self_test).      *)
FrameAfterPartialRuns ==
    \A n \in DOMAIN sent :
        ParsedPast(n) /\ n \notin harmed => \E i \in DOMAIN ran : ran[i].from = {n}

(* The host gets through its session (sw/control.c 16): every message is    *)
(* acknowledged in the end, however the resends and the flushes fall, when  *)
(* bytes are lost and acks are cut finitely often.                          *)
SessionEnds == <>(host.pc = "read")

=============================================================================
