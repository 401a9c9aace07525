---------------------------- MODULE MCHistoryRun ----------------------------
(* Six prints in three sessions, and presses for a session or for two hours. *)
EXTENDS HistoryRun
MCThree == <<1, 2, 12, 13, 23, 24>>
MCReaches == {[kind |-> "sessions", n |-> 1], [kind |-> "hours", n |-> 2]}
=============================================================================
