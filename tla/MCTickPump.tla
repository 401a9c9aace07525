----------------------------- MODULE MCTickPump -----------------------------
(* A tape with two shared milliseconds, and a second that holds more prints *)
(* than a request asks for.                                                 *)
EXTENDS TickPump

MCMs == <<1, 2, 2, 10, 11, 12, 12, 12, 13, 15, 15, 21, 22>>
=============================================================================
