-------------------------- MODULE MCArmedStrategies --------------------------
(* Two panes with a drawing each, a buyer that re-arms itself and takes     *)
(* retests and a seller that fires once, four prices, one target that the   *)
(* tape can outrun either way, and a trader with a market order and a       *)
(* resting one.                                                             *)
EXTENDS ArmedStrategies

MCPrices   == 1 .. 4
MCDrawings == <<{"d1"}, {"d2"}>>

Target == <<[qty |-> Unset, stop |-> Unset, target |-> 3]>>
MCBrackets == {<<>>, Target}
MCPresets ==
  { [side |-> "Buy", qty |-> 1, auto |-> TRUE, retest |-> TRUE],
    [side |-> "Sell", qty |-> 1, auto |-> FALSE, retest |-> FALSE] }
MCSetups == { [edge |-> e, bracket |-> Target] : e \in {Unset, 1} }

E(side, kind, price, bracket) ==
  [side |-> side, kind |-> kind, price |-> price, qty |-> 1,
   bracket |-> bracket, cancel |-> Unset, flat |-> FALSE]
MCEntries == { E("Sell", "Market", Unset, Target), E("Buy", "Limit", 2, <<>>) }
=============================================================================
