-------------------------- MODULE MCMetaTraderTape --------------------------
(* Five prints, a night between the second and the third, and a millisecond *)
(* that the last two share.                                                 *)
EXTENDS MetaTraderTape
MCTape == <<1, 2, 11, 12, 12>>
=============================================================================
