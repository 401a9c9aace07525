----------------------------- MODULE BookMirror -----------------------------
(***************************************************************************)
(* What the order-book pipeline promises its reader                        *)
(* (crates/orderbook/src/stream.rs, crates/orderflow/src/history.rs): the  *)
(* book on display is the venue's book at some update id and only moves    *)
(* forward, or it is visibly lost.  Nothing is shown across a gap: after   *)
(* one, display starts again from a whole image.                           *)
(*                                                                         *)
(* Every venue update sets one price level, to a quantity named by the     *)
(* update's id; quantity zero is a level never set.                        *)
(***************************************************************************)
EXTENDS Integers, Sequences, FiniteSetsExt

CONSTANTS
  Levels,   \* price levels
  MaxId,    \* bound: the venue's updates
  Lost      \* "no book on display"

VARIABLES
  venue,    \* the level each update set, by update id
  view      \* the book on display

mirrorVars == <<venue, view>>
Ids == 0 .. MaxId
Now == Len(venue)

(* The venue's book after update n. *)
Truth(n) == [l \in Levels |-> Max({0} \cup {i \in 1 .. n : venue[i] = l})]
Image(n) == [id |-> n, levels |-> Truth(n)]

MirrorInit == venue = <<>> /\ view = Lost

Change(l) ==
  /\ Now < MaxId
  /\ venue' = Append(venue, l)
  /\ UNCHANGED view

Show    == /\ view = Lost
           /\ \E n \in 0 .. Now : view' = Image(n)
           /\ UNCHANGED venue
Advance == /\ view # Lost
           /\ \E n \in view.id + 1 .. Now : view' = Image(n)
           /\ UNCHANGED venue
Lose    == /\ view # Lost /\ view' = Lost
           /\ UNCHANGED venue

MirrorNext == (\E l \in Levels : Change(l)) \/ Show \/ Advance \/ Lose
MirrorSpec == MirrorInit /\ [][MirrorNext]_mirrorVars
=============================================================================
