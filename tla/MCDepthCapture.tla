--------------------------- MODULE MCDepthCapture ---------------------------
(* Two price levels, three venue updates, both markets; two captures asked  *)
(* for, restarted or dropped with their feed, each reconnecting once.      *)
EXTENDS DepthCapture

MCLevels == {"p", "q"}
MCMarkets == {"Spot", "UsdM"}
=============================================================================
