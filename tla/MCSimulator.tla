---------------------------- MODULE MCSimulator ----------------------------
(* A small instance of the paper simulator: four prices, two pairs, a ladder   *)
(* of two parts and a one-sided ladder, and orders of one and two units on  *)
(* both sides.                                                              *)
EXTENDS Simulator

MCPrices == 1 .. 4

P(qty, stop, target) == [qty |-> qty, stop |-> stop, target |-> target]
StopOnly == <<P(Unset, 2, Unset)>>
Target   == <<P(Unset, Unset, 2)>>
Ladder   == <<P(1, 1, 3), P(1, 1, 4)>>
Short    == <<P(1, 4, 1), P(Unset, Unset, 2)>>
MCBrackets == {<<>>, StopOnly, Target, Ladder, Short}

E(side, kind, price, qty, bracket, cancel, flat) ==
  [side |-> side, kind |-> kind, price |-> price, qty |-> qty,
   bracket |-> bracket, cancel |-> cancel, flat |-> flat]
MCEntries ==
  { E("Buy", "Market", Unset, 2, Ladder, Unset, FALSE),
    E("Sell", "Market", Unset, 2, Short, Unset, FALSE),
    E("Buy", "Limit", 1, 1, <<>>, 3, TRUE),
    E("Buy", "Limit", 1, 1, Target, Unset, FALSE),
    E("Buy", "Limit", 3, 1, StopOnly, Unset, FALSE),
    E("Sell", "Stop", 2, 3, <<>>, Unset, FALSE) }
=============================================================================
