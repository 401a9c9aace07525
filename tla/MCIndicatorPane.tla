-------------------------- MODULE MCIndicatorPane --------------------------
(* One pane with two slots and a command channel of one place, so that      *)
(* commands park and fold; a source that fails on its second bar and one    *)
(* that does not compile.                                                   *)
EXTENDS IndicatorPane

MCSlots   == {0, 1}
MCSources == {"stops", "broken"}
MCBroken  == {"broken"}
MCFailsAt == [src \in MCSources |-> IF src = "stops" THEN 2 ELSE 0]
MCBarSizes == {1, 2}
MCSeeds   == {<<101, 102, 103>>}
MCBackfills == {0, 2}
MCRungs   == {0, 3}
=============================================================================
