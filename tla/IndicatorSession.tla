-------------------------- MODULE IndicatorSession --------------------------
(* The indicator worker's own logic (indicator-session): which commands may *)
(* be folded while they wait, how one batch is reduced against the host,    *)
(* and which deltas are then published to the chart.                        *)
(*                                                                          *)
(* A bar is the sequence of its prints, and a plot column is the bars it    *)
(* was evaluated over: an instance replays every committed bar when it is   *)
(* added or replaced (indicators/src/host.rs), so what it holds is a        *)
(* function of its source and of the committed bars.  A forming bar or a    *)
(* preview of << >> is None in the code.                                    *)
EXTENDS Naturals, Sequences, FiniteSets, SequencesExt

CONSTANTS Slots,      \* slot ids, in the order the chart allocates them
          Sources,    \* what a slot can be asked to run
          Broken,     \* sources that do not compile
          FailsAt,    \* the bar at which a source's evaluation fails, 0 for never
          Default,    \* the declared input values
          None

(* --- what the host holds for one source ------------------------------- *)

Failed(src, bars) == FailsAt[src] > 0 /\ Len(bars) >= FailsAt[src]

Column(src, bars) == IF Failed(src, bars) THEN SubSeq(bars, 1, FailsAt[src] - 1) ELSE bars

(* --- the superseding rule for parked commands -------------------------- *)

Clears(c)  == c.op = "PartialUpdated" /\ (c.partial = << >> \/ c.rungs = 0)
Extends(c) == c.op = "PartialUpdated" /\ ~Clears(c)
Replays(c) == c.op \in {"Backfilled", "Rebuild"}

(* Faulty variant: a clearing update supersedes whatever waits. *)
SupersedesAnything(newer, older) == Clears(newer) \/ (Replays(older) /\ Replays(newer))

Supersedes(newer, older) ==
  \/ older.op = "PartialUpdated" /\ Clears(newer)
  \/ older.op = "SetInputs" /\ newer.op = "SetInputs" /\ older.slot = newer.slot
  \/ Replays(older) /\ Replays(newer)

FoldParked(older, newer) ==
  IF Supersedes(newer, older) THEN <<newer>>
  ELSE IF Extends(older) /\ Extends(newer)
  THEN <<[newer EXCEPT !.run = older.run \o @]>>
  ELSE <<older, newer>>

(* --- one command against the session ----------------------------------- *)

(* A fresh mirror: the chart has been sent nothing of this shape yet. *)
Mirror(loaded, src, values) ==
  [loaded |-> loaded, src |-> src, values |-> values, known |-> 0,
   synced |-> ~loaded, told |-> ~loaded, stale |-> FALSE]

NewSession == [bars |-> << >>, partial |-> << >>, run |-> << >>, slots |-> << >>]

(* The fold over one batch: the session, the last partial and rung budget   *)
(* asked for, whether everything was replayed, and the events sent so far.  *)
BeginBatch(s) ==
  [s |-> s, partial |-> None, rungs |-> None, rebuilt |-> FALSE, out |-> << >>]

(* The members of a finite set of slots, in the order of their numbers. *)
InOrder(S) ==
  CHOOSE s \in [1 .. Cardinality(S) -> S] : \A i, j \in DOMAIN s : i < j => s[i] < s[j]

With(f, k, v) == [x \in DOMAIN f \cup {k} |-> IF x = k THEN v ELSE f[x]]
Without(f, k) == [x \in DOMAIN f \ {k} |-> f[x]]

CutLane(a) == [a EXCEPT !.s.run = << >>, !.partial = None, !.rungs = None]

Replay(a, bars, partial) ==
  [CutLane(a) EXCEPT !.s.bars = bars, !.s.partial = partial, !.rebuilt = TRUE]

CloseBar(a, bar) ==
  [CutLane(a) EXCEPT !.s.bars = Append(@, bar), !.s.partial = << >>]

UpdatePartial(a, c) ==
  [a EXCEPT !.s.run = IF Clears(c) THEN << >> ELSE @ \o c.run,
            !.partial = c.partial, !.rungs = c.rungs]

(* A source that does not load still has its slot, carrying its error. *)
AddSlot(a, slot, src) ==
  IF src \notin Broken
  THEN [a EXCEPT !.s.slots = With(@, slot, Mirror(TRUE, src, Default))]
  ELSE [a EXCEPT !.s.slots = With(@, slot, Mirror(FALSE, src, None)),
                 !.out = @ \o <<[ev |-> "Rebuilt", slot |-> slot, src |-> src, rows |-> << >>,
                                 inputs |-> None, stale |-> FALSE],
                                [ev |-> "Error", slot |-> slot]>>]

(* Values for a slot that never loaded are kept for its first good reload. *)
SetInputs(a, slot, values) ==
  IF slot \notin DOMAIN a.s.slots THEN a
  ELSE IF ~a.s.slots[slot].loaded THEN [a EXCEPT !.s.slots[slot].values = values]
  ELSE [a EXCEPT !.s.slots[slot] =
         [@ EXCEPT !.values = values, !.known = 0, !.synced = FALSE, !.told = FALSE]]

Rebound(values) == IF values = None THEN Default ELSE values

Reload(a, slot, src) ==
  IF slot \notin DOMAIN a.s.slots THEN a
  ELSE IF src \in Broken
  THEN [a EXCEPT !.s.slots[slot].stale = TRUE,
                 !.out = Append(@, [ev |-> "ReloadFailed", slot |-> slot])]
  ELSE [a EXCEPT !.s.slots[slot] = Mirror(TRUE, src, Rebound(@.values))]

RemoveSlot(a, slot) == [a EXCEPT !.s.slots = Without(@, slot)]

ApplyCommand(a, c) ==
  CASE c.op = "Backfilled"     -> Replay(a, c.bars, << >>)
    [] c.op = "Rebuild"        -> Replay(a, c.bars, c.partial)
    [] c.op = "BarClosed"      -> CloseBar(a, c.bar)
    [] c.op = "PartialUpdated" -> UpdatePartial(a, c)
    [] c.op = "Add"            -> AddSlot(a, c.slot, c.src)
    [] c.op = "SetInputs"      -> SetInputs(a, c.slot, c.values)
    [] c.op = "Reload"         -> Reload(a, c.slot, c.src)
    [] c.op = "Remove"         -> RemoveSlot(a, c.slot)

(* Of the input changes of one batch only the newest of each slot runs, in  *)
(* its own place.                                                           *)
Keeps(batch, i) ==
  batch[i].op = "SetInputs" =>
    ~\E j \in i + 1 .. Len(batch) : batch[j].op = "SetInputs" /\ batch[j].slot = batch[i].slot

ApplyBatch(s, batch) ==
  LET after[i \in 0 .. Len(batch)] ==
        IF i = 0 THEN BeginBatch(s)
        ELSE IF Keeps(batch, i) THEN ApplyCommand(after[i - 1], batch[i]) ELSE after[i - 1]
  IN  after[Len(batch)]

(* The last partial of the batch is the only one previewed. *)
FinishApplying(a) == IF a.partial = None THEN a ELSE [a EXCEPT !.s.partial = a.partial]

(* --- publication --------------------------------------------------------- *)

(* The ladder: prefixes of the forming run, the last of them the whole run. *)
Ladder(a) == IF a.rungs = None \/ a.rungs = 0 THEN << >> ELSE a.s.run

(* The rows the chart lacks, or all of them after a replay or a rebinding. *)
RowEvents(a, slot) ==
  LET m    == a.s.slots[slot]
      rows == Column(m.src, a.s.bars)
  IN  IF a.rebuilt \/ ~m.synced
      THEN <<[ev |-> "Rebuilt", slot |-> slot, src |-> m.src, rows |-> rows,
              inputs |-> m.values, stale |-> m.stale]>>
      ELSE [i \in 1 .. Len(rows) - m.known |->
             [ev |-> "Appended", slot |-> slot, row |-> rows[m.known + i]]]

Deltas(a, slot) ==
  LET m      == a.s.slots[slot]
      failed == Failed(m.src, a.s.bars)
      told   == m.told /\ m.synced /\ ~a.rebuilt
  IN  RowEvents(a, slot)
      \o (IF failed /\ ~told THEN <<[ev |-> "Error", slot |-> slot]>> ELSE << >>)
      \o <<[ev |-> "Preview", slot |-> slot, frame |-> IF failed THEN << >> ELSE a.s.partial],
           [ev |-> "Lane", slot |-> slot, samples |-> IF failed THEN << >> ELSE Ladder(a)]>>

Loaded(a) == {slot \in DOMAIN a.s.slots : a.s.slots[slot].loaded}

(* What the worker then knows the chart to have. *)
Published(a, m) ==
  [m EXCEPT !.known = Len(Column(m.src, a.s.bars)), !.synced = TRUE,
            !.told = Failed(m.src, a.s.bars)]

(* The deltas of one slot after another, behind what was sent before. *)
Sent(a) ==
  LET slots == InOrder(Loaded(a))
      upto[i \in 0 .. Len(slots)] ==
        IF i = 0 THEN a.out ELSE upto[i - 1] \o Deltas(a, slots[i])
  IN  upto[Len(slots)]

Publish(a) ==
  [s   |-> [a.s EXCEPT !.slots =
             [slot \in DOMAIN a.s.slots |->
               IF slot \in Loaded(a) THEN Published(a, a.s.slots[slot]) ELSE a.s.slots[slot]]],
   out |-> Sent(a)]

(* One batch, from the first command to the last delta; a set of one, so    *)
(* that TLC computes it once.                                               *)
Reductions(s, batch) == {Publish(a) : a \in {FinishApplying(ApplyBatch(s, batch))}}

=============================================================================
