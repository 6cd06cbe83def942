----------------------------- MODULE MCUartLink -----------------------------
(* A small instance of the serial link: a session of two messages, of which *)
(* the second starts the stream.  Bytes of both must be escaped.            *)
EXTENDS UartLink

MCSession == <<<<0, 4>>, <<5, 1>>>>
=============================================================================
