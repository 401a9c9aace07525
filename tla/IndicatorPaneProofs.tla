------------------------ MODULE IndicatorPaneProofs ------------------------
(* That the remove always wins in a chart pane, that a pane which has       *)
(* settled shows what the user and the chart say, and that a repair has a   *)
(* cause.                                                                   *)
(*                                                                          *)
(* The first argument does not look at the worker at all.  An event can     *)
(* fill a slot the views already hold or await and nothing else, so a whole *)
(* queue of them, folded, leaves the set of held and awaited slots as it    *)
(* was; a removal takes its slot out of the views in the handler that asks  *)
(* for it; and a slot's number is never given out twice, so no answer of a  *)
(* removed slot can pass for one of a slot added later.                     *)
(*                                                                          *)
(* The second looks at everything on its way.  What a queue of commands or  *)
(* of events says is read off it one at a time, from where the reader is:   *)
(* of one slot's binding, of the series, of one slot's view, and of whether *)
(* anything replays it all.  The invariant (PaneKept) is that the commands  *)
(* in flight, read from what the worker holds, end at what the user and the *)
(* chart say, and that the events in flight, read from what a view shows,   *)
(* end at what the worker holds.  Parking and folding a command, skipping a *)
(* superseded one, running a batch and publishing its deltas each leave     *)
(* those readings where they were; a pane that has settled has nothing left *)
(* to read.                                                                 *)
EXTENDS IndicatorPane, FiniteSetTheorems, SequenceTheorems, WellFoundedInduction, TLAPS

-----------------------------------------------------------------------------
(* Numbers and finite sets. *)

(* Numbers have a least one, in every set of them. *)
LEMMA LeastNumber ==
  ASSUME NEW T, T \subseteq Nat, T # {}
  PROVE \E x \in T : \A y \in T : x <= y
<1> DEFINE R == {ss \in Nat \X Nat : ss[1] < ss[2]}
<1>1. IsWellFoundedOn(R, Nat)
  BY NatLessThanWellFounded DEF OpToRel
<1> HIDE DEF R
<1>2. PICK x \in T : \A y \in T : ~(<<y, x>> \in R)
  BY <1>1, WFMin
<1>3. \A y \in T : ~(y < x)
  BY <1>2 DEF R
<1> QED BY <1>2, <1>3

(* What holds of 0 and is carried from each number to the next, up to a     *)
(* bound, holds up to the bound: G is the set of those it holds of.         *)
LEMMA Upward ==
  ASSUME NEW L \in Nat, NEW G, 0 \in G, \A n \in 1 .. L : n - 1 \in G => n \in G
  PROVE \A n \in 0 .. L : n \in G
<1> DEFINE Bad == {n \in 0 .. L : n \notin G}
<1>1. CASE Bad # {}
  <2>0. Bad \subseteq Nat
    OBVIOUS
  <2>1. PICK n \in Bad : \A i \in Bad : n <= i
    <3> HIDE DEF Bad
    <3> QED BY <1>1, <2>0, LeastNumber
  <2>2. n \in 1 .. L /\ n - 1 \in 0 .. L
    BY <2>1
  <2>3. n - 1 \in G
    BY <2>1, <2>2
  <2> QED BY <2>1, <2>2, <2>3
<1>2. CASE Bad = {}
  BY <1>2
<1> QED BY <1>1, <1>2

(* Max picks a member of any finite set of numbers. *)
LEMMA MaxPicks ==
  ASSUME NEW S, NEW n \in Nat, S \subseteq 0 .. n, S # {}
  PROVE Max(S) \in S
<1> DEFINE T == {n - x : x \in S}
<1>1. T \subseteq Nat /\ T # {}
  OBVIOUS
<1>2. PICK y \in T : \A z \in T : y <= z
  BY <1>1, LeastNumber
<1>3. PICK x \in S : y = n - x
  BY <1>2
<1>4. \A z \in S : z <= x
  BY <1>2, <1>3
<1>5. \E z \in S : \A w \in S : z >= w
  BY <1>4
<1> QED BY <1>5 DEF Max

(* The sizes of a finite set's parts, and of a part less one of its members. *)
LEMMA Sizes ==
  ASSUME NEW D, IsFiniteSet(D)
  PROVE /\ Cardinality(D) \in Nat
        /\ \A s \in SUBSET D :
             /\ Cardinality(s) \in 0 .. Cardinality(D)
             /\ Cardinality(s) = 0 <=> s = {}
             /\ \A x \in s : /\ s \ {x} \in SUBSET D
                             /\ Cardinality(s \ {x}) = Cardinality(s) - 1
<1>1. Cardinality(D) \in Nat
  BY FS_CardinalityType
<1>2. ASSUME NEW s \in SUBSET D
      PROVE /\ Cardinality(s) \in 0 .. Cardinality(D)
            /\ Cardinality(s) = 0 <=> s = {}
            /\ \A x \in s : /\ s \ {x} \in SUBSET D
                            /\ Cardinality(s \ {x}) = Cardinality(s) - 1
  <2>1. IsFiniteSet(s) /\ Cardinality(s) <= Cardinality(D)
    BY FS_Subset
  <2>2. Cardinality(s) \in Nat /\ (Cardinality(s) = 0 <=> s = {})
    BY <2>1, FS_CardinalityType, FS_EmptySet
  <2>3. \A x \in s : Cardinality(s \ {x}) = Cardinality(s) - 1
    BY <2>1, FS_RemoveElement
  <2> QED BY <1>1, <2>1, <2>2, <2>3
<1> QED BY <1>1, <1>2

-----------------------------------------------------------------------------
(* Folds. *)

(* apply_indicator_events: one event after another. *)
EventFold(v) ==
  CHOOSE f : f = [s \in SUBSET DOMAIN events |->
                   IF s = {} THEN v ELSE ApplyEvent(f[s \ {Max(s)}], events[Max(s)])]

(* The community fold is the function the definition chooses. *)
LEMMA EventsFolded == ASSUME NEW v PROVE ApplyEvents(v) = EventFold(v)[DOMAIN events]
BY DEF ApplyEvents, FoldLeft, MapThenFoldSet, EventFold

(* And such a function exists over a finite queue: built one size of set at *)
(* a time, so it steps as its definition says.                              *)
LEMMA EventFoldExists ==
  ASSUME NEW v, IsFiniteSet(DOMAIN events),
         \A s \in SUBSET DOMAIN events : s # {} => Max(s) \in s
  PROVE \A s \in SUBSET DOMAIN events :
          EventFold(v)[s] = IF s = {} THEN v
                      ELSE ApplyEvent(EventFold(v)[s \ {Max(s)}], events[Max(s)])
<1> DEFINE D == DOMAIN events
           pick(s) == Max(s)
           step(a, x) == ApplyEvent(a, events[x])
           body(g) == [s \in SUBSET D |-> IF s = {} THEN v
                                         ELSE step(g[s \ {pick(s)}], pick(s))]
           fold == CHOOSE g : g = body(g)
           L == Cardinality(D)
           Upto(n, g) == \A s \in SUBSET D : Cardinality(s) <= n => g[s] = body(g)[s]
           G == {n \in 0 .. L : \E g : Upto(n, g)}
<1>1. \A s \in SUBSET D : s # {} => pick(s) \in s
  OBVIOUS
<1>2. fold = EventFold(v)
  BY DEF EventFold
<1> HIDE DEF D, pick, step
<1>3. L \in Nat /\ \A s \in SUBSET D :
        /\ Cardinality(s) \in 0 .. L
        /\ Cardinality(s) = 0 <=> s = {}
        /\ s # {} => /\ s \ {pick(s)} \in SUBSET D
                     /\ Cardinality(s \ {pick(s)}) = Cardinality(s) - 1
  BY <1>1, Sizes DEF D
<1>10. \A s \in SUBSET D : Cardinality(s) <= L /\ (Cardinality(s) <= 0 => s = {})
  <2> SUFFICES ASSUME NEW s \in SUBSET D
               PROVE Cardinality(s) <= L /\ (Cardinality(s) <= 0 => s = {})
    OBVIOUS
  <2> HIDE DEF L
  <2>1. L \in Nat /\ Cardinality(s) \in 0 .. L /\ (Cardinality(s) = 0 => s = {})
    BY <1>3
  <2> QED BY <2>1
<1>4. 0 \in G
  <2>1. Upto(0, [s \in SUBSET D |-> v])
    <3> HIDE DEF L
    <3> QED BY <1>10
  <2> HIDE DEF Upto
  <2> QED BY <1>3, <2>1
<1>5. \A n \in 1 .. L : n - 1 \in G => n \in G
  <2> SUFFICES ASSUME NEW n \in 1 .. L, n - 1 \in G PROVE n \in G
    OBVIOUS
  <2>1. PICK g : Upto(n - 1, g)
    OBVIOUS
  <2> DEFINE h == body(g)
  <2>2. \A s \in SUBSET D : Cardinality(s) <= n - 1 => h[s] = g[s]
    BY <2>1
  <2>3. \A s \in SUBSET D : Cardinality(s) <= n => h[s] = body(h)[s]
    <3> SUFFICES ASSUME NEW s \in SUBSET D, Cardinality(s) <= n PROVE h[s] = body(h)[s]
      OBVIOUS
    <3>1. CASE s = {}
      BY <3>1
    <3>2. CASE s # {}
      <4>1. s \ {pick(s)} \in SUBSET D /\ Cardinality(s \ {pick(s)}) <= n - 1
        <5>1. /\ s \ {pick(s)} \in SUBSET D /\ Cardinality(s) \in 0 .. L
              /\ Cardinality(s \ {pick(s)}) = Cardinality(s) - 1
          <6> HIDE DEF L
          <6> QED BY <1>3, <3>2
        <5> QED BY <1>3, <3>2, <5>1
      <4>2. h[s \ {pick(s)}] = g[s \ {pick(s)}]
        BY <2>2, <4>1
      <4>3. h[s] = step(g[s \ {pick(s)}], pick(s))
        BY <3>2
      <4>4. body(h)[s] = step(h[s \ {pick(s)}], pick(s))
        <5> HIDE DEF h
        <5> QED BY <3>2
      <4> HIDE DEF h, body
      <4> QED BY <4>2, <4>3, <4>4
    <3> QED BY <3>1, <3>2
  <2>4. Upto(n, h)
    <3> HIDE DEF h, body
    <3> QED BY <2>3
  <2> HIDE DEF Upto, h
  <2> QED BY <1>3, <2>4
<1>6. PICK g : Upto(L, g)
  <2>1. \A n \in 0 .. L : n \in G
    <3> HIDE DEF G, L
    <3> QED BY <1>3, <1>4, <1>5, Upward
  <2>2. L \in G
    <3> HIDE DEF G, L
    <3> QED BY <1>3, <2>1
  <2> QED BY <2>2
<1>7. \E f : f = body(f)
  <2> DEFINE f == [s \in SUBSET D |-> g[s]]
  <2>1. \A s \in SUBSET D : g[s] = body(g)[s]
    <3> HIDE DEF body, L
    <3> QED BY <1>6, <1>10
  <2>2. body(f) = body(g)
    <3>1. \A s \in SUBSET D : s \ {pick(s)} \in SUBSET D
      OBVIOUS
    <3>2. \A s \in SUBSET D : f[s \ {pick(s)}] = g[s \ {pick(s)}]
      BY <3>1
    <3> HIDE DEF f
    <3> QED BY <3>2
  <2>3. f = body(g)
    <3> HIDE DEF f
    <3>1. f = [s \in SUBSET D |-> g[s]]
      BY DEF f
    <3>2. body(g) = [s \in SUBSET D |-> body(g)[s]]
      OBVIOUS
    <3> HIDE DEF body
    <3> QED BY <2>1, <3>1, <3>2
  <2> HIDE DEF f, body
  <2> QED BY <2>2, <2>3
<1>8. fold = body(fold)
  <2> HIDE DEF body
  <2> QED BY <1>7
<1>9. \A s \in SUBSET D : fold[s] = IF s = {} THEN v
                                    ELSE step(fold[s \ {pick(s)}], pick(s))
  <2> DEFINE f == fold
  <2>1. f = body(f)
    BY <1>8
  <2> HIDE DEF f
  <2>2. \A s \in SUBSET D : f[s] = IF s = {} THEN v
                                   ELSE step(f[s \ {pick(s)}], pick(s))
    BY <2>1
  <2> QED BY <2>2 DEF f
<1> QED BY <1>2, <1>9 DEF D, pick, step

-----------------------------------------------------------------------------
(* Sequences of anything.  What a bar or a value is plays no part below, so *)
(* a sequence is one of its own elements.                                   *)

Elems(s) == {s[i] : i \in DOMAIN s}
Seqn(s)  == s \in Seq(Elems(s))

(* A sequence has a length and a finite domain. *)
LEMMA SeqIs ==
  ASSUME NEW s
  PROVE /\ (\E S : s \in Seq(S)) => Seqn(s)
        /\ Seqn(s) => /\ Len(s) \in Nat /\ DOMAIN s = 1 .. Len(s) /\ IsFiniteSet(DOMAIN s)
                      /\ \A t \in SUBSET DOMAIN s : t # {} => Max(t) \in t
<1>1. (\E S : s \in Seq(S)) => Seqn(s)
  BY DEF Seqn, Elems
<1>2. ASSUME Seqn(s)
      PROVE /\ Len(s) \in Nat /\ DOMAIN s = 1 .. Len(s) /\ IsFiniteSet(DOMAIN s)
            /\ \A t \in SUBSET DOMAIN s : t # {} => Max(t) \in t
  <2>1. Len(s) \in Nat /\ DOMAIN s = 1 .. Len(s)
    BY <1>2 DEF Seqn
  <2>2. IsFiniteSet(1 .. Len(s))
    BY <2>1, FS_Interval
  <2>3. ASSUME NEW t \in SUBSET DOMAIN s, t # {} PROVE Max(t) \in t
    <3>1. t \subseteq 0 .. Len(s)
      BY <2>1
    <3> QED BY <2>1, <2>3, <3>1, MaxPicks
  <2> QED BY <2>1, <2>2, <2>3
<1> QED BY <1>1, <1>2

(* The empty queue. *)
LEMMA NothingIsSeqn == ASSUME NEW s, s = << >> PROVE Seqn(s)
<1>1. s \in Seq(Nat)
  OBVIOUS
<1> QED BY <1>1, SeqIs

(* One more of anything. *)
LEMMA SeqAppend ==
  ASSUME NEW s, NEW x, Seqn(s)
  PROVE Seqn(Append(s, x))
<1> DEFINE T == Elems(s) \cup {x}
<1>1. s \in Seq(T) /\ x \in T
  BY DEF Seqn
<1> HIDE DEF T
<1>2. Append(s, x) \in Seq(T)
  BY <1>1
<1> QED BY <1>2, SeqIs

-----------------------------------------------------------------------------
(* The views and what the user wants. *)

(* A view stays where an event lands: the slots a chart shows or awaits are *)
(* the same after any event, and none is both.                              *)
Tracked(v) == DOMAIN v.shown \cup v.pending
Apart(v)   == DOMAIN v.shown \cap v.pending = {}
ViewsOK(v) ==
  v = [shown |-> v.shown, pending |-> v.pending, answered |-> v.answered, next |-> v.next]

(* IndicatorViews::apply: one event neither adds a slot nor takes one away. *)
LEMMA EventKeepsSlots ==
  ASSUME NEW v, NEW e, ViewsOK(v), Apart(v)
  PROVE LET w == ApplyEvent(v, e) IN
        ViewsOK(w) /\ Apart(w) /\ Tracked(w) = Tracked(v) /\ w.next = v.next
<1>1. CASE e.ev = "Rebuilt" /\ Born(v, e.slot)
  <2> DEFINE w == [shown |-> With(v.shown, e.slot, NewView(e)),
                   pending |-> v.pending \ {e.slot}, answered |-> v.answered, next |-> v.next]
  <2>1. ApplyEvent(v, e) = w
    BY <1>1 DEF ApplyEvent, ViewsOK
  <2>2. DOMAIN With(v.shown, e.slot, NewView(e)) = DOMAIN v.shown \cup {e.slot}
    BY DEF With
  <2>3. e.slot \in DOMAIN v.shown \/ e.slot \in v.pending
    BY <1>1 DEF Born
  <2> QED BY <2>1, <2>2, <2>3 DEF ViewsOK, Apart, Tracked
<1>2. CASE e.ev # "Rebuilt" /\ e.slot \in DOMAIN v.shown
  <2> DEFINE s == [v.shown EXCEPT ![e.slot] = ApplyToView(@, e)]
             w == [shown |-> s, pending |-> v.pending, answered |-> v.answered,
                   next |-> v.next]
  <2>1. ApplyEvent(v, e) = w
    BY <1>2 DEF ApplyEvent, ViewsOK
  <2>2. DOMAIN s = DOMAIN v.shown
    OBVIOUS
  <2> HIDE DEF s
  <2> QED BY <2>1, <2>2 DEF ViewsOK, Apart, Tracked
<1>3. CASE ~(e.ev = "Rebuilt" /\ Born(v, e.slot))
           /\ ~(e.ev # "Rebuilt" /\ e.slot \in DOMAIN v.shown)
  <2>1. ApplyEvent(v, e) = v
    BY <1>3 DEF ApplyEvent
  <2> QED BY <2>1
<1> QED BY <1>1, <1>2, <1>3

(* apply_indicator_events: nor does a whole queue of them. *)
LEMMA EventsKeepSlots ==
  ASSUME NEW v, ViewsOK(v), Apart(v), Seqn(events)
  PROVE LET w == ApplyEvents(v) IN
        ViewsOK(w) /\ Apart(w) /\ Tracked(w) = Tracked(v) /\ w.next = v.next
<1> DEFINE D == DOMAIN events
           L == Cardinality(D)
           f == EventFold(v)
           Same(w) == ViewsOK(w) /\ Apart(w) /\ Tracked(w) = Tracked(v) /\ w.next = v.next
           G == {n \in 0 .. L : \A s \in SUBSET D : Cardinality(s) = n => Same(f[s])}
<1>1. IsFiniteSet(D) /\ \A s \in SUBSET D : s # {} => Max(s) \in s
  BY SeqIs
<1>2. \A s \in SUBSET D :
        f[s] = IF s = {} THEN v ELSE ApplyEvent(f[s \ {Max(s)}], events[Max(s)])
  BY <1>1, EventFoldExists
<1>3. L \in Nat /\ \A s \in SUBSET D :
        /\ Cardinality(s) \in 0 .. L
        /\ Cardinality(s) = 0 <=> s = {}
        /\ \A x \in s : s \ {x} \in SUBSET D /\ Cardinality(s \ {x}) = Cardinality(s) - 1
  BY <1>1, Sizes
<1>4. Same(v)
  OBVIOUS
<1>5. ASSUME NEW w, NEW e, Same(w) PROVE Same(ApplyEvent(w, e))
  BY <1>5, EventKeepsSlots
<1> HIDE DEF D, f, Same, L
<1>6. 0 \in G
  BY <1>2, <1>3, <1>4
<1>7. \A n \in 1 .. L : n - 1 \in G => n \in G
  <2> SUFFICES ASSUME NEW n \in 1 .. L, n - 1 \in G,
                      NEW s \in SUBSET D, Cardinality(s) = n
               PROVE Same(f[s])
    BY <1>3
  <2>1. s # {}
    BY <1>3
  <2>2. Max(s) \in s
    BY <1>1, <2>1
  <2>3. s \ {Max(s)} \in SUBSET D /\ Cardinality(s \ {Max(s)}) = n - 1
    BY <1>3, <2>2
  <2>4. Same(f[s \ {Max(s)}])
    BY <2>3
  <2> QED BY <1>2, <1>5, <2>1, <2>4
<1>8. L \in G
  <2>1. \A n \in 0 .. L : n \in G
    <3> HIDE DEF G
    <3> QED BY <1>3, <1>6, <1>7, Upward
  <2> QED BY <1>3, <2>1
<1>9. Same(f[D])
  BY <1>8 DEF L
<1> QED BY <1>9, EventsFolded DEF Same, f, D

(* row_drift and its answer only ever touch what was answered. *)
LEMMA RecalledKeepsSlots ==
  ASSUME NEW v, ViewsOK(v), Apart(v)
  PROVE LET w == Recalled(v) IN
        ViewsOK(w) /\ Apart(w) /\ Tracked(w) = Tracked(v) /\ w.next = v.next
<1> DEFINE w == [shown |-> v.shown, pending |-> v.pending,
                 answered |-> {slot \in v.answered : ~InStep(v, slot)}, next |-> v.next]
<1>1. Recalled(v) = w
  BY DEF Recalled, ViewsOK
<1> QED BY <1>1 DEF ViewsOK, Apart, Tracked

(* What RemoveWins rests on: a slot's number is never given out twice, and  *)
(* the event channel is a queue of whatever the worker sent.                *)
PaneInv ==
  /\ ViewsOK(views) /\ views.next \in Nat
  /\ Apart(views) /\ Tracked(views) = DOMAIN wanted
  /\ \A slot \in DOMAIN wanted : slot \in Nat /\ slot < views.next
  /\ Seqn(events)

(* A pane opens awaiting the one slot its layout restores. *)
LEMMA PaneInitial == PaneInit => PaneInv
<1> SUFFICES ASSUME PaneInit PROVE PaneInv
  OBVIOUS
<1>1. views = [shown |-> << >>, pending |-> {0}, answered |-> {}, next |-> 1]
  BY DEF PaneInit
<1>2. DOMAIN wanted = {0}
  BY DEF PaneInit
<1>3. DOMAIN views.shown = {} /\ views.pending = {0} /\ views.next = 1 /\ ViewsOK(views)
  BY <1>1 DEF ViewsOK
<1>4. events = << >>
  BY DEF PaneInit
<1>5. Seqn(events)
  BY <1>4, NothingIsSeqn
<1> QED BY <1>2, <1>3, <1>5 DEF PaneInv, Apart, Tracked

(* Most steps leave the slots alone. *)
LEMMA SlotsUntouched ==
  ASSUME PaneInv, DOMAIN wanted' = DOMAIN wanted, Seqn(events'),
         ViewsOK(views'), Apart(views'), Tracked(views') = Tracked(views),
         views'.next = views.next
  PROVE PaneInv'
BY DEF PaneInv

(* What the user and the feed do: a slot is asked for under a new number,   *)
(* and one that is taken away leaves the views with the wish for it.        *)
LEMMA UserStepKeeps == ASSUME PaneInv, UserStep PROVE PaneInv'
<1>0. Seqn(events')
  BY DEF UserStep, PaneInv
<1>V. views = [shown |-> views.shown, pending |-> views.pending,
               answered |-> views.answered, next |-> views.next]
  BY DEF PaneInv, ViewsOK
<1>S. ASSUME UNCHANGED views, DOMAIN wanted' = DOMAIN wanted PROVE PaneInv'
  BY <1>0, <1>S DEF PaneInv, ViewsOK, Apart, Tracked
<1>F. ASSUME NEW slots, views' = Forgotten(slots), DOMAIN wanted' = DOMAIN wanted \ slots
      PROVE PaneInv'
  <2> DEFINE w == [shown |-> [s \in DOMAIN views.shown \ slots |-> views.shown[s]],
                   pending |-> views.pending \ slots, answered |-> views.answered,
                   next |-> views.next]
  <2>1. views' = w
    BY <1>V, <1>F DEF Forgotten
  <2>2. /\ ViewsOK(views') /\ views'.next = views.next
        /\ DOMAIN views'.shown = DOMAIN views.shown \ slots
        /\ views'.pending = views.pending \ slots
    BY <2>1 DEF ViewsOK
  <2>3. Apart(views') /\ Tracked(views') = DOMAIN wanted'
    BY <2>2, <1>F DEF PaneInv, Apart, Tracked
  <2>4. \A slot \in DOMAIN wanted' : slot \in Nat /\ slot < views'.next
    BY <2>2, <1>F DEF PaneInv
  <2> QED BY <1>0, <2>2, <2>3, <2>4 DEF PaneInv
<1>1. ASSUME NEW src \in Sources, AddIndicator(src) PROVE PaneInv'
  <2> DEFINE slot == views.next
             w == [shown |-> views.shown, pending |-> views.pending \cup {slot},
                   answered |-> views.answered, next |-> slot + 1]
  <2>1. views' = w /\ wanted' = With(wanted, slot, Asked(src))
    BY <1>1, <1>V DEF AddIndicator
  <2>2. /\ ViewsOK(views') /\ views'.next = slot + 1 /\ views'.shown = views.shown
        /\ views'.pending = views.pending \cup {slot}
    BY <2>1 DEF ViewsOK
  <2>3. DOMAIN wanted' = DOMAIN wanted \cup {slot}
    BY <2>1 DEF With
  <2>4. slot \in Nat /\ slot \notin DOMAIN wanted
    BY DEF PaneInv
  <2>5. Apart(views') /\ Tracked(views') = DOMAIN wanted'
    BY <2>2, <2>3, <2>4 DEF PaneInv, Apart, Tracked
  <2>6. views'.next \in Nat /\ \A s \in DOMAIN wanted' : s \in Nat /\ s < views'.next
    <3>1. \A s \in DOMAIN wanted : s \in Nat /\ s < slot
      BY DEF PaneInv
    <3> HIDE DEF slot, w
    <3> QED BY <2>2, <2>3, <2>4, <3>1
  <2> QED BY <1>0, <2>2, <2>5, <2>6 DEF PaneInv
<1>2. ASSUME NEW slot, NEW v, ApplyInputs(slot, v) PROVE PaneInv'
  BY <1>2, <1>S DEF ApplyInputs
<1>3. ASSUME NEW slot, NEW src, ReloadScript(slot, src) PROVE PaneInv'
  <2>1. UNCHANGED views /\ DOMAIN wanted' = DOMAIN wanted
    BY <1>3 DEF ReloadScript
  <2> QED BY <2>1, <1>S
<1>4. ASSUME NEW slot, RemoveIndicator(slot) PROVE PaneInv'
  <2>1. views' = Forgotten({slot}) /\ DOMAIN wanted' = DOMAIN wanted \ {slot}
    BY <1>4 DEF RemoveIndicator, Without
  <2> QED BY <2>1, <1>F
<1>5. ASSUME ClearIndicators PROVE PaneInv'
  <2> DEFINE slots == DOMAIN views.shown
  <2>1. views' = Forgotten(slots) /\ wanted' = [s \in DOMAIN wanted \ slots |-> wanted[s]]
    BY <1>5 DEF ClearIndicators
  <2>2. DOMAIN wanted' = DOMAIN wanted \ slots
    BY <2>1
  <2> HIDE DEF slots
  <2> QED BY <2>1, <2>2, <1>F
<1>6. ASSUME NEW n, PrependHistory(n) PROVE PaneInv'
  <2> DEFINE added == Len(Bars([chart EXCEPT !.trades = Fresh(n) \o @])) - Len(Bars(chart))
             w == [shown |-> [s \in DOMAIN views.shown |-> Shifted(views.shown[s], added)],
                   pending |-> views.pending, answered |-> views.answered,
                   next |-> views.next]
  <2>1. (views' = views \/ views' = w) /\ wanted' = wanted
    <3> DEFINE sh == [s \in DOMAIN views.shown |-> Shifted(views.shown[s], added)]
    <3>1. wanted' = wanted
      BY <1>6 DEF PrependHistory
    <3>2. views' = views \/ views' = [views EXCEPT !.shown = sh]
      <4> HIDE DEF w
      <4> QED BY <1>6 DEF PrependHistory
    <3>3. [views EXCEPT !.shown = sh]
            = [shown |-> sh, pending |-> views.pending, answered |-> views.answered,
               next |-> views.next]
      <4> HIDE DEF sh
      <4> QED BY <1>V
    <3> QED BY <3>1, <3>2, <3>3
  <2>2. CASE views' = w
    <3>1. ViewsOK(w) /\ DOMAIN w.shown = DOMAIN views.shown /\ w.pending = views.pending
          /\ w.next = views.next
      BY DEF ViewsOK
    <3> HIDE DEF w
    <3>2. ViewsOK(views') /\ DOMAIN views'.shown = DOMAIN views.shown
          /\ views'.pending = views.pending /\ views'.next = views.next
      BY <2>2, <3>1 DEF ViewsOK
    <3> QED BY <1>0, <2>1, <3>2 DEF PaneInv, Apart, Tracked
  <2> QED BY <2>1, <2>2, <1>S
<1>7. ASSUME UNCHANGED <<views, wanted>> PROVE PaneInv'
  BY <1>7, <1>S
<1>8. CASE \/ \E n \in Backfills : IngestBackfill(n)
           \/ \E n \in 1 .. 2 : IngestLive(n)
           \/ \E size \in BarSizes : SetSpec(size)
           \/ SwitchFeed
           \/ ResetMarketState
           \/ \E rungs \in Rungs : SetRungs(rungs)
  <2>1. UNCHANGED <<views, wanted>>
    BY <1>8 DEF IngestBackfill, IngestLive, SetSpec, SwitchFeed, ResetMarketState, SetRungs
  <2> QED BY <2>1, <1>7
<1> QED BY <1>1, <1>2, <1>3, <1>4, <1>5, <1>6, <1>8 DEF UserStep

(* What the frame does: the queue is taken in, and a drift answered.        *)
LEMMA FrameStepKeeps == ASSUME PaneInv, FrameStep PROVE PaneInv'
<1>A. /\ ViewsOK(ApplyEvents(views)) /\ Apart(ApplyEvents(views))
      /\ Tracked(ApplyEvents(views)) = Tracked(views)
      /\ ApplyEvents(views).next = views.next
  BY EventsKeepSlots DEF PaneInv
<1> DEFINE a == ApplyEvents(views)
           r == Recalled(a)
<1>R. ViewsOK(r) /\ Apart(r) /\ Tracked(r) = Tracked(views) /\ r.next = views.next
  <2> HIDE DEF a
  <2> QED BY <1>A, RecalledKeepsSlots DEF a
<1>E. ASSUME NEW s, s = << >> PROVE Seqn(s)
  BY <1>E, NothingIsSeqn
<1>1. CASE SendCommand
  <2>1. UNCHANGED <<views, wanted, events>>
    BY <1>1 DEF SendCommand
  <2> QED BY <2>1 DEF PaneInv, ViewsOK, Apart, Tracked
<1>2. CASE DrainEvents
  <2>1. views' = r /\ wanted' = wanted /\ events' = << >>
    BY <1>2 DEF DrainEvents
  <2> HIDE DEF r, a
  <2>2. ViewsOK(views') /\ Apart(views') /\ Tracked(views') = Tracked(views)
        /\ views'.next = views.next
    BY <2>1, <1>R
  <2>4. Seqn(events')
    BY <2>1, <1>E
  <2> QED BY <2>1, <2>2, <2>4, SlotsUntouched
<1>3. CASE ReadProgress
  <2>1. UNCHANGED <<views, wanted, events>>
    BY <1>3 DEF ReadProgress, userVars
  <2> QED BY <2>1 DEF PaneInv, ViewsOK, Apart, Tracked
<1>4. CASE AnswerDrift
  <2> DEFINE w == [r EXCEPT !.answered = @ \cup Drifted(r)]
  <2>1. (views' = r \/ views' = w) /\ wanted' = wanted /\ events' = << >>
    BY <1>4 DEF AnswerDrift
  <2> HIDE DEF r
  <2>2. ViewsOK(w) /\ Apart(w) /\ Tracked(w) = Tracked(r) /\ w.next = r.next
    <3> DEFINE u == [shown |-> r.shown, pending |-> r.pending,
                     answered |-> r.answered \cup Drifted(r), next |-> r.next]
    <3>1. w = u
      BY <1>R DEF ViewsOK
    <3>2. ViewsOK(u) /\ u.shown = r.shown /\ u.pending = r.pending /\ u.next = r.next
      BY DEF ViewsOK
    <3> HIDE DEF u, w
    <3> QED BY <1>R, <3>1, <3>2 DEF Apart, Tracked
  <2> HIDE DEF w, a
  <2>3. ViewsOK(views') /\ Apart(views') /\ Tracked(views') = Tracked(views)
        /\ views'.next = views.next
    BY <2>1, <2>2, <1>R
  <2>4. Seqn(events')
    BY <2>1, <1>E
  <2> QED BY <2>1, <2>3, <2>4, SlotsUntouched
<1> QED BY <1>1, <1>2, <1>3, <1>4 DEF FrameStep

(* What the worker does reaches the views only through the queue. *)
LEMMA WorkerStepKeeps == ASSUME PaneInv, WorkerStep PROVE PaneInv'
<1>1. UNCHANGED <<views, wanted>>
  BY DEF WorkerStep, TakeCommand, RunTaken, SendEvent, FinishBatch, userVars
<1>2. events' = events \/ events' = Append(events, Head(out))
  BY DEF WorkerStep, TakeCommand, RunTaken, SendEvent, FinishBatch
<1>3. Seqn(events')
  BY <1>2, SeqAppend DEF PaneInv
<1> QED BY <1>1, <1>3 DEF PaneInv, ViewsOK, Apart, Tracked

(* Slots are numbered upward, a removed one is never numbered again, and    *)
(* the views hold exactly the slots the user wants, in every state.         *)
THEOREM PaneInvariant == PaneSpec => []PaneInv
<1>1. PaneInit => PaneInv
  BY PaneInitial
<1>2. ASSUME PaneInv, [PaneNext]_paneVars PROVE PaneInv'
  <2>1. CASE UserStep
    BY <1>2, <2>1, UserStepKeeps
  <2>2. CASE FrameStep
    BY <1>2, <2>2, FrameStepKeeps
  <2>3. CASE WorkerStep
    BY <1>2, <2>3, WorkerStepKeeps
  <2>4. CASE UNCHANGED paneVars
    <3>1. UNCHANGED <<views, wanted, events>>
      BY <2>4 DEF paneVars
    <3> QED BY <1>2, <3>1 DEF PaneInv, ViewsOK, Apart, Tracked
  <2> QED BY <1>2, <2>1, <2>2, <2>3, <2>4 DEF PaneNext
<1> QED BY <1>1, <1>2, PTL DEF PaneSpec

(* The remove always wins (IndicatorViews::apply), for any number of slots, *)
(* commands parked, events in transit and batches in the worker: an answer  *)
(* still on its way never brings back a slot that was taken away, and a     *)
(* slot is never both shown and awaited.                                    *)
THEOREM RemoveAlwaysWins == PaneSpec => []RemoveWins
<1>1. PaneInv => RemoveWins
  BY DEF PaneInv, RemoveWins, Apart, Tracked
<1> QED BY <1>1, PaneInvariant, PTL

-----------------------------------------------------------------------------
(* What is in flight, read one at a time. *)

(* What the user's commands say of one slot, run one after another; Blank   *)
(* where it does not exist.                                                 *)
Blank == [there |-> FALSE, loaded |-> FALSE, src |-> None, values |-> None, stale |-> FALSE]
Bound(loaded, src, values, stale) ==
  [there |-> TRUE, loaded |-> loaded, src |-> src, values |-> values, stale |-> stale]
Known(f, slot) ==
  IF slot \in DOMAIN f
  THEN Bound(f[slot].loaded, f[slot].src, f[slot].values, f[slot].stale) ELSE Blank
About(slot, c) == c.op \in {"Add", "SetInputs", "Reload", "Remove"} /\ c.slot = slot
BindStep(slot, b, c) ==
  IF ~About(slot, c) THEN b
  ELSE CASE c.op = "Add" ->
              Bound(c.src \notin Broken, c.src, IF c.src \in Broken THEN None ELSE Default, FALSE)
         [] c.op = "SetInputs" -> IF b.there THEN Bound(b.loaded, b.src, c.values, b.stale) ELSE b
         [] c.op = "Reload" ->
              IF ~b.there THEN b
              ELSE IF c.src \in Broken THEN Bound(b.loaded, b.src, b.values, TRUE)
              ELSE Bound(TRUE, c.src, Rebound(b.values), FALSE)
         [] c.op = "Remove" -> Blank

(* What they say of the series. *)
SeriesOf(bars, partial, run) == [bars |-> bars, partial |-> partial, run |-> run]
Series(s) == SeriesOf(s.bars, s.partial, s.run)
SeriesStep(x, c) ==
  CASE c.op = "Backfilled"     -> SeriesOf(c.bars, << >>, << >>)
    [] c.op = "Rebuild"        -> SeriesOf(c.bars, c.partial, << >>)
    [] c.op = "BarClosed"      -> SeriesOf(Append(x.bars, c.bar), << >>, << >>)
    [] c.op = "PartialUpdated" ->
         SeriesOf(x.bars, c.partial, IF Clears(c) THEN << >> ELSE x.run \o c.run)
    [] OTHER -> x

(* What the worker's events make of the view of one slot. *)
View(src, rows, inputs, stale, preview, ladder, error) ==
  [src |-> src, rows |-> rows, inputs |-> inputs, stale |-> stale, preview |-> preview,
   lane |-> ladder, error |-> error]
NoView == View(None, << >>, None, FALSE, << >>, << >>, FALSE)
Seen(v, slot) ==
  IF slot \in DOMAIN v.shown THEN [there |-> "yes", view |-> v.shown[slot]]
  ELSE [there |-> "no", view |-> NoView]
ViewStep(slot, w, e) ==
  IF e.slot # slot THEN w
  ELSE IF e.ev = "Rebuilt" THEN [there |-> "yes", view |-> NewView(e)]
  ELSE IF w.there = "no" THEN w ELSE [there |-> "yes", view |-> ApplyToView(w.view, e)]

(* The readings, by name: these three, whether anything replays all of it,  *)
(* and the worker's own two loops.                                          *)
SeriesKind     == [of |-> "series"]
BindKind(slot) == [of |-> "binding", slot |-> slot]
ViewKind(slot) == [of |-> "view", slot |-> slot]
BatchKind(bat) == [of |-> "batch", batch |-> bat]
ReplayKind     == [of |-> "replays"]
SentKind(a, q) == [of |-> "sent", a |-> a, slots |-> q]
Step(k, x, c) ==
  CASE k.of = "series"  -> SeriesStep(x, c)
    [] k.of = "binding" -> BindStep(k.slot, x, c)
    [] k.of = "replays" -> IF Replays(c) THEN "yes" ELSE x
    [] k.of = "view"    -> ViewStep(k.slot, x, c)
    [] k.of = "batch"   -> IF Keeps(k.batch, c) THEN ApplyCommand(x, k.batch[c]) ELSE x
    [] k.of = "sent"    -> x \o Deltas(k.a, k.slots[c])

(* One reading from x along cs, and where it ends. *)
Trail(k, x, cs, t) == t[0] = x /\ \A n \in 1 .. Len(cs) : t[n] = Step(k, t[n - 1], cs[n])
End(k, x, cs)      == (CHOOSE t : Trail(k, x, cs, t))[Len(cs)]

(* There is a trail along any sequence. *)
LEMMA TrailExists ==
  ASSUME NEW k, NEW x, NEW cs, Len(cs) \in Nat
  PROVE \E t : Trail(k, x, cs, t)
<1> DEFINE L == Len(cs)
           Upto(n, t) == t[0] = x /\ \A m \in 1 .. n : t[m] = Step(k, t[m - 1], cs[m])
           G == {n \in 0 .. L : \E t : Upto(n, t)}
<1>1. 0 \in G
  <2> DEFINE t == [m \in 0 .. 0 |-> x]
  <2>1. Upto(0, t)
    OBVIOUS
  <2> HIDE DEF t, Upto
  <2> QED BY <2>1
<1>2. \A n \in 1 .. L : n - 1 \in G => n \in G
  <2> SUFFICES ASSUME NEW n \in 1 .. L, n - 1 \in G PROVE n \in G
    OBVIOUS
  <2>1. PICK t : Upto(n - 1, t)
    OBVIOUS
  <2> DEFINE u == [m \in 0 .. n |-> IF m = n THEN Step(k, t[n - 1], cs[n]) ELSE t[m]]
  <2>2. \A m \in 1 .. n : u[m] = Step(k, u[m - 1], cs[m])
    <3> SUFFICES ASSUME NEW m \in 1 .. n PROVE u[m] = Step(k, u[m - 1], cs[m])
      OBVIOUS
    <3>1. u[m - 1] = t[m - 1]
      OBVIOUS
    <3>2. CASE m = n
      <4>1. u[m] = Step(k, t[m - 1], cs[m])
        BY <3>2
      <4> HIDE DEF u
      <4> QED BY <3>1, <4>1
    <3>3. CASE m # n
      <4>1. u[m] = t[m] /\ m \in 1 .. n - 1
        BY <3>3
      <4> HIDE DEF u
      <4> QED BY <2>1, <3>1, <4>1
    <3> QED BY <3>2, <3>3
  <2>3. u[0] = x
    BY <2>1
  <2> HIDE DEF u
  <2>4. Upto(n, u)
    BY <2>2, <2>3
  <2> HIDE DEF Upto
  <2> QED BY <2>4
<1>3. L \in G
  <2> HIDE DEF G
  <2>1. \A n \in 0 .. L : n \in G
    BY <1>1, <1>2, Upward
  <2> QED BY <2>1
<1>4. PICK t : Upto(L, t)
  BY <1>3
<1> QED BY <1>4 DEF Trail

(* The end is the end of any trail: two of them along one sequence agree. *)
LEMMA EndIs ==
  ASSUME NEW k, NEW x, NEW cs, Len(cs) \in Nat, NEW t, Trail(k, x, cs, t)
  PROVE End(k, x, cs) = t[Len(cs)]
<1> DEFINE u == CHOOSE u : Trail(k, x, cs, u)
           L == Len(cs)
           G == {n \in 0 .. L : u[n] = t[n]}
<1>1. Trail(k, x, cs, u)
  BY TrailExists
<1>2. End(k, x, cs) = u[L]
  BY DEF End
<1> HIDE DEF u, L
<1>3. L \in Nat /\ 0 \in G
  BY <1>1 DEF Trail, L
<1>4. \A n \in 1 .. L : n - 1 \in G => n \in G
  <2>1. \A n \in 1 .. L : u[n] = Step(k, u[n - 1], cs[n])
    BY <1>1 DEF Trail, L
  <2>2. \A n \in 1 .. L : t[n] = Step(k, t[n - 1], cs[n])
    BY DEF Trail, L
  <2> QED BY <1>3, <2>1, <2>2
<1> HIDE DEF G
<1>5. \A n \in 0 .. L : n \in G
  BY <1>3, <1>4, Upward
<1>6. u[L] = t[L]
  BY <1>3, <1>5 DEF G
<1> QED BY <1>2, <1>6 DEF L

(* Nothing ends where it began. *)
LEMMA EndNone == ASSUME NEW k, NEW x, NEW cs, cs = << >> PROVE End(k, x, cs) = x
<1>1. PICK t : Trail(k, x, cs, t)
  BY TrailExists
<1>2. Len(cs) = 0
  OBVIOUS
<1> QED BY <1>1, <1>2, EndIs DEF Trail

(* One sequence behind another is a sequence, and so are its parts. *)
LEMMA SeqnCat ==
  ASSUME NEW cs, NEW ds, Seqn(cs), Seqn(ds)
  PROVE /\ Seqn(cs \o ds) /\ Len(cs) \in Nat /\ Len(ds) \in Nat
        /\ Len(cs \o ds) = Len(cs) + Len(ds) /\ Len(cs \o ds) \in Nat
        /\ \A n \in 1 .. Len(cs) : (cs \o ds)[n] = cs[n]
        /\ \A n \in 1 .. Len(ds) : (cs \o ds)[Len(cs) + n] = ds[n]
<1> DEFINE S == Elems(cs) \cup Elems(ds)
<1>1. cs \in Seq(S) /\ ds \in Seq(S)
  BY DEF Seqn
<1> HIDE DEF S
<1>2. cs \o ds \in Seq(S)
  BY <1>1
<1>3. Seqn(cs \o ds)
  BY <1>2, SeqIs
<1> QED BY <1>1, <1>3

(* Of one thing. *)
LEMMA SeqnOne == ASSUME NEW c PROVE Seqn(<<c>>) /\ Len(<<c>>) = 1 /\ <<c>>[1] = c
<1> DEFINE S == {c}
<1>1. <<c>> \in Seq(S)
  OBVIOUS
<1>2. Seqn(<<c>>)
  BY <1>1, SeqIs
<1> QED BY <1>2

(* One sequence behind another. *)
LEMMA EndCat ==
  ASSUME NEW k, NEW x, NEW cs, NEW ds, Seqn(cs), Seqn(ds)
  PROVE End(k, x, cs \o ds) = End(k, End(k, x, cs), ds)
<1> DEFINE es == cs \o ds
           L == Len(cs)
           M == Len(ds)
<1>1. /\ L \in Nat /\ M \in Nat /\ Len(es) = L + M /\ Len(es) \in Nat
      /\ \A n \in 1 .. L : es[n] = cs[n]
      /\ \A n \in 1 .. M : es[L + n] = ds[n]
  BY SeqnCat
<1> HIDE DEF es
<1>2. PICK t : Trail(k, x, es, t)
  BY <1>1, TrailExists
<1>3. End(k, x, es) = t[L + M]
  <2>1. Len(es) \in Nat /\ Len(es) = L + M
    BY <1>1
  <2>2. End(k, x, es) = t[Len(es)]
    BY <1>2, <2>1, EndIs
  <2> QED BY <2>1, <2>2
<1>4. Trail(k, x, cs, t)
  BY <1>1, <1>2 DEF Trail
<1>5. End(k, x, cs) = t[L]
  BY <1>1, <1>4, EndIs
<1> DEFINE u == [n \in 0 .. M |-> t[L + n]]
<1>6. Trail(k, t[L], ds, u)
  <2>0. u[0] = t[L]
    BY <1>1
  <2> SUFFICES ASSUME NEW n \in 1 .. M PROVE u[n] = Step(k, u[n - 1], ds[n])
    <3> HIDE DEF u
    <3> QED BY <2>0 DEF Trail
  <2>1. u[n] = t[L + n] /\ u[n - 1] = t[L + (n - 1)]
    BY <1>1
  <2>2. L + n \in 1 .. Len(es) /\ (L + n) - 1 = L + (n - 1)
    BY <1>1
  <2>3. t[L + n] = Step(k, t[(L + n) - 1], es[L + n])
    BY <1>2, <2>2 DEF Trail
  <2> HIDE DEF u
  <2> QED BY <1>1, <2>1, <2>2, <2>3
<1>7. u[M] = t[L + M]
  BY <1>1
<1> HIDE DEF u
<1>8. End(k, t[L], ds) = u[M]
  BY <1>1, <1>6, EndIs
<1> QED BY <1>3, <1>5, <1>7, <1>8 DEF es

(* One command. *)
LEMMA EndOne ==
  ASSUME NEW k, NEW x, NEW c PROVE End(k, x, <<c>>) = Step(k, x, c)
<1> DEFINE cs == <<c>>
<1>1. Len(cs) = 1 /\ cs[1] = c
  BY SeqnOne
<1> HIDE DEF cs
<1>2. Len(cs) \in Nat /\ 1 - 1 = 0
  BY <1>1
<1>3. PICK t : Trail(k, x, cs, t)
  BY <1>2, TrailExists
<1>4. t[1] = Step(k, t[1 - 1], cs[1]) /\ t[0] = x
  BY <1>1, <1>3 DEF Trail
<1>5. End(k, x, cs) = t[1]
  BY <1>1, <1>2, <1>3, EndIs
<1>6. End(k, x, cs) = Step(k, x, c)
  BY <1>1, <1>2, <1>4, <1>5
<1> QED BY <1>6 DEF cs

(* One command more. *)
LEMMA EndAppend ==
  ASSUME NEW k, NEW x, NEW cs, NEW c, Seqn(cs)
  PROVE End(k, x, Append(cs, c)) = Step(k, End(k, x, cs), c)
<1>1. Append(cs, c) = cs \o <<c>>
  <2> DEFINE S == Elems(cs) \cup {c}
  <2>1. cs \in Seq(S) /\ c \in S
    BY DEF Seqn
  <2> HIDE DEF S
  <2> QED BY <2>1
<1>2. End(k, x, cs \o <<c>>) = End(k, End(k, x, cs), <<c>>)
  BY SeqnOne, EndCat
<1>3. End(k, End(k, x, cs), <<c>>) = Step(k, End(k, x, cs), c)
  BY EndOne
<1> QED BY <1>1, <1>2, <1>3

(* The first of several. *)
LEMMA EndHead ==
  ASSUME NEW k, NEW x, NEW cs, Seqn(cs), cs # << >>
  PROVE /\ Seqn(Tail(cs)) /\ cs = <<Head(cs)>> \o Tail(cs)
        /\ End(k, x, cs) = End(k, Step(k, x, Head(cs)), Tail(cs))
<1> DEFINE S == Elems(cs)
<1>1. cs \in Seq(S)
  BY DEF Seqn
<1> HIDE DEF S
<1>2. Tail(cs) \in Seq(S) /\ cs = <<Head(cs)>> \o Tail(cs)
  BY <1>1
<1>3. Seqn(Tail(cs))
  BY <1>2, SeqIs
<1> DEFINE ds == <<Head(cs)>>
           es == Tail(cs)
<1>4. Seqn(ds)
  BY SeqnOne
<1>5. End(k, x, ds) = Step(k, x, Head(cs))
  BY EndOne
<1> HIDE DEF ds, es
<1>6. End(k, x, ds \o es) = End(k, End(k, x, ds), es)
  BY <1>3, <1>4, EndCat DEF es
<1>7. cs = ds \o es
  BY <1>2 DEF ds, es
<1> QED BY <1>2, <1>3, <1>5, <1>6, <1>7 DEF es

(* The beginnings of a sequence, one after another. *)
LEMMA UptoNext ==
  ASSUME NEW S, NEW cs \in Seq(S), NEW n \in 1 .. Len(cs)
  PROVE /\ SubSeq(cs, 1, n - 1) \in Seq(S)
        /\ SubSeq(cs, 1, n) = Append(SubSeq(cs, 1, n - 1), cs[n])
<1> DEFINE p == SubSeq(cs, 1, n - 1)
           q == SubSeq(cs, 1, n)
           c == cs[n]
           r == Append(p, c)
<1>0. /\ n \in Nat \ {0} /\ n <= Len(cs) /\ Len(cs) \in Nat
      /\ p \in Seq(S) /\ Len(p) = n - 1 /\ \A i \in 1 .. n - 1 : p[i] = cs[i]
      /\ c \in S
  OBVIOUS
<1>1. q \in Seq(S) /\ Len(q) = n /\ \A i \in 1 .. n : q[i] = cs[i]
  BY <1>0
<1> HIDE DEF p
<1>2. r \in Seq(S) /\ Len(r) = n /\ r[n] = c /\ \A i \in 1 .. n - 1 : r[i] = p[i]
  BY <1>0
<1>3. \A i \in 1 .. n : q[i] = r[i]
  <2> SUFFICES ASSUME NEW i \in 1 .. n PROVE q[i] = r[i]
    OBVIOUS
  <2> HIDE DEF q, r
  <2>1. CASE i = n
    BY <1>0, <1>1, <1>2, <2>1 DEF c
  <2>2. CASE i # n
    BY <1>0, <1>1, <1>2, <2>2
  <2> QED BY <2>1, <2>2
<1> HIDE DEF q, r
<1>4. q = r
  BY <1>1, <1>2, <1>3, SeqEqual
<1> QED BY <1>0, <1>4 DEF p, q, r

(* And the readings of them. *)
LEMMA EndNext ==
  ASSUME NEW k, NEW x, NEW cs, Seqn(cs), NEW n \in 1 .. Len(cs)
  PROVE End(k, x, SubSeq(cs, 1, n)) = Step(k, End(k, x, SubSeq(cs, 1, n - 1)), cs[n])
<1> DEFINE S == Elems(cs)
           p == SubSeq(cs, 1, n - 1)
           c == cs[n]
<1>0. cs \in Seq(S)
  BY DEF Seqn
<1> HIDE DEF S
<1>1. p \in Seq(S) /\ SubSeq(cs, 1, n) = Append(p, c)
  BY <1>0, UptoNext
<1> HIDE DEF p, c
<1>2. Seqn(p)
  BY <1>1, SeqIs
<1>3. End(k, x, Append(p, c)) = Step(k, End(k, x, p), c)
  BY <1>2, EndAppend
<1> QED BY <1>1, <1>3 DEF p, c

(* None of it is where it began, and all of it is all of it. *)
LEMMA EndEnds ==
  ASSUME NEW k, NEW x, NEW cs, Seqn(cs)
  PROVE End(k, x, SubSeq(cs, 1, 0)) = x /\ SubSeq(cs, 1, Len(cs)) = cs
<1> DEFINE S == Elems(cs)
<1>0. cs \in Seq(S)
  BY DEF Seqn
<1> HIDE DEF S
<1>1. SubSeq(cs, 1, 0) = << >> /\ SubSeq(cs, 1, Len(cs)) = cs
  BY <1>0
<1> QED BY <1>1, EndNone

(* What no command changes stays. *)
LEMMA EndStays ==
  ASSUME NEW k, NEW x, NEW cs, Len(cs) \in Nat,
         \A n \in 1 .. Len(cs) : Step(k, x, cs[n]) = x
  PROVE End(k, x, cs) = x
<1> DEFINE t == [n \in 0 .. Len(cs) |-> x]
<1>2. Trail(k, x, cs, t)
  <2>1. \A n \in 1 .. Len(cs) : t[n] = x /\ t[n - 1] = x
    OBVIOUS
  <2>2. t[0] = x
    OBVIOUS
  <2> HIDE DEF t
  <2> QED BY <2>1, <2>2 DEF Trail
<1>3. t[Len(cs)] = x
  OBVIOUS
<1> HIDE DEF t
<1> QED BY <1>2, <1>3, EndIs

(* What every command keeps within X stays there. *)
LEMMA EndWithin ==
  ASSUME NEW k, NEW X, NEW x \in X, NEW cs, Len(cs) \in Nat,
         \A y \in X : \A n \in 1 .. Len(cs) : Step(k, y, cs[n]) \in X
  PROVE End(k, x, cs) \in X
<1>2. PICK t : Trail(k, x, cs, t)
  BY TrailExists
<1> DEFINE G == {n \in 0 .. Len(cs) : t[n] \in X}
<1>3. 0 \in G
  BY <1>2 DEF Trail
<1>4. \A n \in 1 .. Len(cs) : n - 1 \in G => n \in G
  BY <1>2 DEF Trail
<1> DEFINE L == Len(cs)
<1> HIDE DEF G
<1>5. \A n \in 0 .. L : n \in G
  <2> HIDE DEF L
  <2> QED BY <1>3, <1>4, Upward DEF L
<1>6. t[Len(cs)] \in X
  BY <1>5 DEF G
<1> QED BY <1>2, <1>6, EndIs

-----------------------------------------------------------------------------
(* Commands in flight. *)

Prints == Seq(Nat)
Cuts   == Seq(Seq(Nat))
Sers   == [bars : Cuts, partial : Prints, run : Prints]

(* What can be on its way to the worker of a chart that has numbered n slots. *)
Cmds(n) ==
  [op : {"Backfilled"}, bars : Cuts]
  \cup [op : {"Rebuild"}, bars : Cuts, partial : Prints]
  \cup [op : {"BarClosed"}, bar : Prints]
  \cup [op : {"PartialUpdated"}, partial : Prints, rungs : Nat, run : Prints]
  \cup [op : {"Add"}, slot : 0 .. n - 1, src : Sources]
  \cup [op : {"SetInputs"}, slot : Nat, values : Values]
  \cup [op : {"Reload"}, slot : Nat, src : Sources]
  \cup [op : {"Remove"}, slot : Nat]

(* What a reading of them may start from. *)
Reads(k, x) ==
  \/ k = SeriesKind /\ x \in Sers
  \/ k = ReplayKind
  \/ \E slot : k = BindKind(slot)

(* One command is one of the eight. *)
LEMMA CmdIs ==
  ASSUME NEW n, NEW c \in Cmds(n)
  PROVE /\ c.op \in {"Backfilled", "Rebuild", "BarClosed", "PartialUpdated",
                     "Add", "SetInputs", "Reload", "Remove"}
        /\ c.op \in {"Backfilled", "Rebuild"} => c.bars \in Cuts
        /\ c.op \in {"PartialUpdated", "Rebuild"} => c.partial \in Prints
        /\ c.op = "BarClosed" => c.bar \in Prints
        /\ c.op = "PartialUpdated" =>
             /\ c.rungs \in Nat /\ c.run \in Prints
             /\ c = [op |-> "PartialUpdated", partial |-> c.partial, rungs |-> c.rungs,
                     run |-> c.run]
        /\ c.op = "Add" => c.slot \in 0 .. n - 1 /\ c.src \in Sources
        /\ c.op = "SetInputs" => c.slot \in Nat /\ c.values \in Values
        /\ c.op = "Reload" => c.slot \in Nat /\ c.src \in Sources
        /\ c.op = "Remove" => c.slot \in Nat
BY DEF Cmds

(* A series stays one. *)
LEMMA SeriesTyped ==
  ASSUME NEW n, NEW c \in Cmds(n), NEW x \in Sers
  PROVE SeriesStep(x, c) \in Sers
<1> HIDE DEF Prints, Cuts
<1>1. x.bars \in Cuts /\ x.partial \in Prints /\ x.run \in Prints
  BY DEF Sers
<1>2. << >> \in Prints /\ << >> \in Cuts
  BY DEF Prints, Cuts
<1>3. \A b \in Cuts, p \in Prints : Append(b, p) \in Cuts
  BY DEF Prints, Cuts
<1>4. \A p, q \in Prints : p \o q \in Prints
  BY DEF Prints
<1>5. ASSUME NEW b \in Cuts, NEW p \in Prints, NEW r \in Prints PROVE SeriesOf(b, p, r) \in Sers
  BY DEF SeriesOf, Sers
<1>6. CASE c.op = "BarClosed"
  <2>1. c.bar \in Prints
    BY <1>6, CmdIs
  <2>2. Append(x.bars, c.bar) \in Cuts
    BY <1>1, <1>3, <2>1
  <2>3. SeriesStep(x, c) = SeriesOf(Append(x.bars, c.bar), << >>, << >>)
    BY <1>6 DEF SeriesStep
  <2> QED BY <1>2, <1>5, <2>2, <2>3
<1>7. CASE c.op = "PartialUpdated"
  <2>1. c.run \in Prints /\ c.partial \in Prints
    BY <1>7, CmdIs
  <2>2. x.run \o c.run \in Prints
    BY <1>1, <1>4, <2>1
  <2>3. SeriesStep(x, c) = SeriesOf(x.bars, c.partial, IF Clears(c) THEN << >> ELSE x.run \o c.run)
    BY <1>7 DEF SeriesStep
  <2> HIDE DEF Clears
  <2>4. (IF Clears(c) THEN << >> ELSE x.run \o c.run) \in Prints
    BY <1>2, <2>2
  <2> QED BY <1>1, <1>5, <2>1, <2>3, <2>4
<1>8. CASE c.op = "Backfilled"
  <2>1. c.bars \in Cuts
    BY <1>8, CmdIs
  <2>2. SeriesStep(x, c) = SeriesOf(c.bars, << >>, << >>)
    BY <1>8 DEF SeriesStep
  <2> QED BY <1>2, <1>5, <2>1, <2>2
<1>9. CASE c.op = "Rebuild"
  <2>1. c.bars \in Cuts /\ c.partial \in Prints
    BY <1>9, CmdIs
  <2>2. SeriesStep(x, c) = SeriesOf(c.bars, c.partial, << >>)
    BY <1>9 DEF SeriesStep
  <2> QED BY <1>2, <1>5, <2>1, <2>2
<1>10. CASE c.op \notin {"BarClosed", "PartialUpdated", "Backfilled", "Rebuild"}
  <2>1. SeriesStep(x, c) = x
    BY <1>10 DEF SeriesStep
  <2> QED BY <2>1
<1> QED BY <1>6, <1>7, <1>8, <1>9, <1>10

(* So a reading can go on from where one ends. *)
LEMMA ReadsOn ==
  ASSUME NEW n, NEW cs \in Seq(Cmds(n)), NEW k, NEW x, Reads(k, x)
  PROVE Reads(k, End(k, x, cs)) /\ Seqn(cs)
<1>0. Seqn(cs) /\ Len(cs) \in Nat /\ \A i \in 1 .. Len(cs) : cs[i] \in Cmds(n)
  BY SeqIs
<1>1. CASE k = SeriesKind /\ x \in Sers
  <2>1. ASSUME NEW y \in Sers, NEW i \in 1 .. Len(cs) PROVE Step(k, y, cs[i]) \in Sers
    <3>1. SeriesStep(y, cs[i]) \in Sers
      BY <1>0, SeriesTyped
    <3>2. Step(k, y, cs[i]) = SeriesStep(y, cs[i])
      BY <1>1 DEF Step, SeriesKind
    <3> QED BY <3>1, <3>2
  <2>2. End(k, x, cs) \in Sers
    BY <1>0, <1>1, <2>1, EndWithin
  <2> QED BY <1>0, <1>1, <2>2 DEF Reads
<1>2. CASE ~(k = SeriesKind /\ x \in Sers)
  BY <1>0, <1>2 DEF Reads
<1> QED BY <1>1, <1>2

(* What a command says of a slot, by name. *)
LEMMA BindIs ==
  ASSUME NEW slot, NEW x, NEW c PROVE Step(BindKind(slot), x, c) = BindStep(slot, x, c)
BY DEF Step, BindKind

(* And the others. *)
LEMMA StepIs ==
  ASSUME NEW x, NEW c
  PROVE /\ Step(SeriesKind, x, c) = SeriesStep(x, c)
        /\ Step(ReplayKind, x, c) = IF Replays(c) THEN "yes" ELSE x
        /\ \A slot : Step(ViewKind(slot), x, c) = ViewStep(slot, x, c)
BY DEF Step, SeriesKind, ReplayKind, ViewKind

(* FoldParked: what is folded says what the two said. *)
LEMMA FoldedSays ==
  ASSUME NEW n, NEW a \in Cmds(n), NEW b \in Cmds(n)
  PROVE /\ FoldParked(a, b) \in Seq(Cmds(n))
        /\ \A k, x : Reads(k, x) =>
             End(k, x, FoldParked(a, b)) = Step(k, Step(k, x, a), b)
<1> DEFINE C == Cmds(n)
<1>T. <<b>> \in Seq(C) /\ <<a, b>> \in Seq(C)
  OBVIOUS
<1>P. \A k, x : Step(k, x, b) = End(k, x, <<b>>)
  BY EndOne
<1>1. CASE Supersedes(b, a)
  <2>1. FoldParked(a, b) = <<b>>
    BY <1>1 DEF FoldParked
  <2>2. ASSUME NEW k, NEW x, Reads(k, x)
        PROVE Step(k, x, b) = Step(k, Step(k, x, a), b)
    <3>1. CASE k = SeriesKind /\ x \in Sers
      <4>1. CASE a.op = "SetInputs"
        <5>1. SeriesStep(x, a) = x
          BY <4>1 DEF SeriesStep
        <5> QED BY <5>1, <3>1, StepIs
      <4>2. CASE a.op = "PartialUpdated" /\ Clears(b)
        <5>1. SeriesStep(x, a).bars = x.bars
          BY <4>2 DEF SeriesStep, SeriesOf
        <5>2. SeriesStep(x, b) = SeriesOf(x.bars, b.partial, << >>)
          BY <4>2 DEF SeriesStep, Clears
        <5>3. \A y : SeriesStep(y, b) = SeriesOf(y.bars, b.partial, << >>)
          BY <4>2 DEF SeriesStep, Clears
        <5>4. SeriesStep(SeriesStep(x, a), b) = SeriesStep(x, b)
          BY <5>1, <5>3
        <5> QED BY <5>4, <3>1, StepIs
      <4>3. CASE Replays(a) /\ Replays(b)
        <5>1. \A y, z : SeriesStep(y, b) = SeriesStep(z, b)
          BY <4>3 DEF Replays, SeriesStep
        <5>2. SeriesStep(SeriesStep(x, a), b) = SeriesStep(x, b)
          BY <5>1
        <5> QED BY <5>2, <3>1, StepIs
      <4> QED BY <1>1, <4>1, <4>2, <4>3 DEF Supersedes
    <3>2. CASE k = ReplayKind
      BY <1>1, <3>2, StepIs DEF Supersedes, Clears, Replays
    <3>3. ASSUME NEW slot, k = BindKind(slot) PROVE Step(k, x, b) = Step(k, Step(k, x, a), b)
      <4>1. BindStep(slot, x, b) = BindStep(slot, BindStep(slot, x, a), b)
        <5>1. CASE a.op = "SetInputs" /\ b.op = "SetInputs" /\ a.slot = b.slot
          BY <5>1 DEF BindStep, About, Bound
        <5>2. CASE ~(a.op = "SetInputs" /\ b.op = "SetInputs" /\ a.slot = b.slot)
          <6>1. a.op \notin {"Add", "SetInputs", "Reload", "Remove"}
            BY <1>1, <5>2 DEF Supersedes, Replays
          <6>2. BindStep(slot, x, a) = x
            BY <6>1 DEF BindStep, About
          <6> QED BY <6>2
        <5> QED BY <5>1, <5>2
      <4>2. \A y, e : Step(k, y, e) = BindStep(slot, y, e)
        <5>1. \A y, e : Step(BindKind(slot), y, e) = BindStep(slot, y, e)
          BY BindIs
        <5> QED BY <5>1, <3>3
      <4> QED BY <4>1, <4>2
    <3> QED BY <2>2, <3>1, <3>2, <3>3 DEF Reads
  <2> QED BY <1>T, <1>P, <2>1, <2>2
<1>2. CASE ~Supersedes(b, a) /\ Extends(a) /\ Extends(b)
  <2> DEFINE m == [op |-> "PartialUpdated", partial |-> b.partial, rungs |-> b.rungs,
                   run |-> a.run \o b.run]
  <2>0. /\ a.op = "PartialUpdated" /\ b.op = "PartialUpdated" /\ ~Clears(b) /\ ~Clears(a)
        /\ b = [op |-> "PartialUpdated", partial |-> b.partial, rungs |-> b.rungs,
                run |-> b.run]
        /\ a.run \in Prints /\ b.run \in Prints /\ b.partial \in Prints /\ b.rungs \in Nat
    BY <1>2, CmdIs DEF Extends
  <2>1. FoldParked(a, b) = <<m>>
    <3>1. [b EXCEPT !.run = a.run \o @] = m
      <4> DEFINE r == a.run \o b.run
                 bb == [op |-> "PartialUpdated", partial |-> b.partial, rungs |-> b.rungs,
                        run |-> b.run]
      <4>1. [b EXCEPT !.run = a.run \o @] = [b EXCEPT !.run = r]
        OBVIOUS
      <4>2. b = bb
        BY <2>0
      <4> HIDE DEF r
      <4>3. [bb EXCEPT !.run = r] = [op |-> "PartialUpdated", partial |-> b.partial,
                                     rungs |-> b.rungs, run |-> r]
        OBVIOUS
      <4> HIDE DEF bb
      <4> QED BY <4>1, <4>2, <4>3 DEF r
    <3> QED BY <1>2, <3>1 DEF FoldParked
  <2>2. m \in C
    BY <2>0 DEF Cmds, Prints
  <2>3. m.op = "PartialUpdated" /\ ~Clears(m) /\ ~Replays(m)
    BY <2>0 DEF Clears, Replays
  <2>M. m.partial = b.partial /\ m.run = a.run \o b.run
    OBVIOUS
  <2> HIDE DEF m
  <2>4. ASSUME NEW k, NEW x, Reads(k, x)
        PROVE Step(k, x, m) = Step(k, Step(k, x, a), b)
    <3>1. CASE k = SeriesKind /\ x \in Sers
      <4>0. \A y, z, w : SeriesOf(y, z, w).bars = y /\ SeriesOf(y, z, w).run = w
        BY DEF SeriesOf
      <4>1. SeriesStep(x, a) = SeriesOf(x.bars, a.partial, x.run \o a.run)
        BY <2>0 DEF SeriesStep
      <4>2. \A y : SeriesStep(y, b) = SeriesOf(y.bars, b.partial, y.run \o b.run)
        BY <2>0 DEF SeriesStep
      <4>3. SeriesStep(x, m) = SeriesOf(x.bars, b.partial, x.run \o (a.run \o b.run))
        BY <2>3, <2>M DEF SeriesStep
      <4>4. (x.run \o a.run) \o b.run = x.run \o (a.run \o b.run)
        <5>1. x.run \in Prints /\ a.run \in Prints /\ b.run \in Prints
          BY <3>1, <2>0 DEF Sers
        <5>2. \A r, s, t \in Prints : (r \o s) \o t = r \o (s \o t)
          BY ConcatAssociative DEF Prints
        <5> QED BY <5>1, <5>2
      <4>5. SeriesStep(SeriesStep(x, a), b) = SeriesStep(x, m)
        <5>1. SeriesStep(x, a).bars = x.bars /\ SeriesStep(x, a).run = x.run \o a.run
          <6> DEFINE r == x.run \o a.run
          <6> HIDE DEF r
          <6>1. SeriesStep(x, a) = SeriesOf(x.bars, a.partial, r)
            BY <4>1 DEF r
          <6>2. SeriesStep(x, a).bars = x.bars /\ SeriesStep(x, a).run = r
            BY <4>0, <6>1
          <6> QED BY <6>2 DEF r
        <5>2. SeriesStep(SeriesStep(x, a), b)
                = SeriesOf(x.bars, b.partial, (x.run \o a.run) \o b.run)
          BY <4>2, <5>1
        <5> QED BY <5>2, <4>3, <4>4
      <4> QED BY <4>5, <3>1, StepIs
    <3>2. CASE k = ReplayKind
      <4>1. ~Replays(a) /\ ~Replays(b)
        BY <2>0 DEF Replays
      <4> QED BY <3>2, <4>1, <2>3, StepIs
    <3>3. ASSUME NEW slot, k = BindKind(slot) PROVE Step(k, x, m) = Step(k, Step(k, x, a), b)
      <4>1. \A y : BindStep(slot, y, b) = y /\ BindStep(slot, y, a) = y /\ BindStep(slot, y, m) = y
        BY <2>0, <2>3 DEF BindStep, About
      <4>2. \A y, e : Step(k, y, e) = BindStep(slot, y, e)
        <5>1. \A y, e : Step(BindKind(slot), y, e) = BindStep(slot, y, e)
          BY BindIs
        <5> QED BY <5>1, <3>3
      <4> QED BY <4>1, <4>2
    <3> QED BY <2>4, <3>1, <3>2, <3>3 DEF Reads
  <2>5. <<m>> \in Seq(C)
    BY <2>2
  <2>6. \A k, x : End(k, x, <<m>>) = Step(k, x, m)
    BY EndOne
  <2> QED BY <2>1, <2>4, <2>5, <2>6
<1>3. CASE ~Supersedes(b, a) /\ ~(Extends(a) /\ Extends(b))
  <2>1. FoldParked(a, b) = <<a, b>>
    BY <1>3 DEF FoldParked
  <2>2. <<a, b>> = Append(<<a>>, b)
    OBVIOUS
  <2>3. ASSUME NEW k, NEW x PROVE End(k, x, <<a, b>>) = Step(k, Step(k, x, a), b)
    <3> DEFINE one == <<a>>
    <3>1. Seqn(one) /\ End(k, x, one) = Step(k, x, a)
      BY SeqnOne, EndOne
    <3> HIDE DEF one
    <3>2. End(k, x, Append(one, b)) = Step(k, End(k, x, one), b)
      BY <3>1, EndAppend
    <3> QED BY <2>2, <3>1, <3>2 DEF one
  <2> QED BY <1>T, <2>1, <2>3
<1> QED BY <1>1, <1>2, <1>3

(* The link: what waits in the channel and in front of it. *)
LinkOK(n, q) ==
  /\ q = [chan |-> q.chan, parked |-> q.parked]
  /\ q.chan \in Seq(Cmds(n)) /\ q.parked \in Seq(Cmds(n))
  /\ Len(q.chan) <= CommandCap
Waiting(q) == q.chan \o q.parked

(* One behind another behind another. *)
LEMMA Behind ==
  ASSUME NEW C
  PROVE /\ \A s, t, u \in Seq(C) : (s \o t) \o u = s \o (t \o u)
        /\ \A s, t \in Seq(C) : s \o t \in Seq(C) /\ Len(s \o t) = Len(s) + Len(t)
BY ConcatAssociative

(* A sequence cut in two. *)
LEMMA CutInTwo ==
  ASSUME NEW C, NEW p \in Seq(C), NEW m \in 0 .. Len(p)
  PROVE /\ SubSeq(p, 1, m) \in Seq(C) /\ SubSeq(p, m + 1, Len(p)) \in Seq(C)
        /\ Len(SubSeq(p, 1, m)) = m
        /\ SubSeq(p, 1, m) \o SubSeq(p, m + 1, Len(p)) = p
<1>1. /\ SubSeq(p, 1, m) \in Seq(C) /\ SubSeq(p, m + 1, Len(p)) \in Seq(C)
      /\ Len(SubSeq(p, 1, m)) = m
  OBVIOUS
<1>2. 1 \in 1 .. Len(p) + 1 /\ m \in 1 - 1 .. Len(p) /\ Len(p) \in m .. Len(p)
  OBVIOUS
<1>3. SubSeq(p, 1, m) \o SubSeq(p, m + 1, Len(p)) = SubSeq(p, 1, Len(p))
  BY <1>2, ConcatAdjacentSubSeq
<1>4. SubSeq(p, 1, Len(p)) = p
  BY SubSeqFull
<1> QED BY <1>1, <1>3, <1>4

(* drain_events: the parked commands only move. *)
LEMMA Drained ==
  ASSUME NEW n, NEW q, LinkOK(n, q)
  PROVE LET d == B!Drain(q) IN
        /\ LinkOK(n, d) /\ Waiting(d) = Waiting(q)
        /\ Len(d.chan) = Len(q.chan) + B!Entering(q) /\ B!Entering(q) \in Nat
<1> DEFINE C == Cmds(n)
           c == q.chan
           p == q.parked
           m == B!Entering(q)
           A == c \o SubSeq(p, 1, m)
           Z == SubSeq(p, m + 1, Len(p))
           d == [chan |-> A, parked |-> Z]
<1>3. B!Drain(q) = d
  BY DEF B!Drain
<1>e. m = B!Least(CommandCap - Len(c), Len(p))
  BY DEF B!Entering
<1>1. c \in Seq(C) /\ p \in Seq(C) /\ Len(c) <= CommandCap /\ Waiting(q) = c \o p
  BY DEF LinkOK, Waiting
<1> HIDE DEF m, c, p, C
<1>2. m \in 0 .. Len(p) /\ Len(c) + m <= CommandCap /\ m \in Nat
  <2>1. CommandCap \in Nat
    BY PaneAssumption
  <2>2. Len(c) \in Nat /\ Len(p) \in Nat
    BY <1>1
  <2>3. \A x, y \in Int : B!Least(x, y) = IF x < y THEN x ELSE y
    BY DEF B!Least
  <2>4. CommandCap - Len(c) \in Int /\ Len(p) \in Int
    BY <2>1, <2>2
  <2>5. m = IF CommandCap - Len(c) < Len(p) THEN CommandCap - Len(c) ELSE Len(p)
    BY <1>e, <2>3, <2>4
  <2> QED BY <1>1, <2>1, <2>2, <2>5
<1>4. A \in Seq(C) /\ Len(A) = Len(c) + m /\ Z \in Seq(C) /\ A \o Z = c \o p
  <2> DEFINE X == SubSeq(p, 1, m)
  <2>1. c \in Seq(C) /\ p \in Seq(C) /\ m \in 0 .. Len(p)
    BY <1>1, <1>2
  <2>2. X \in Seq(C) /\ Z \in Seq(C) /\ Len(X) = m /\ X \o Z = p
    <3>1. X \in Seq(C) /\ Z \in Seq(C)
      BY <2>1, CutInTwo
    <3>2. Len(X) = m
      BY <2>1, CutInTwo
    <3>3. X \o Z = p
      BY <2>1, CutInTwo
    <3> HIDE DEF X, Z
    <3> QED BY <3>1, <3>2, <3>3
  <2>5. A = c \o X
    OBVIOUS
  <2> HIDE DEF X, A, Z
  <2>3. c \o X \in Seq(C) /\ Len(c \o X) = Len(c) + Len(X)
    BY <2>1, <2>2, Behind
  <2>4. (c \o X) \o Z = c \o (X \o Z)
    <3>1. c \in Seq(C)
      BY <2>1
    <3>2. X \in Seq(C) /\ Z \in Seq(C)
      BY <2>2
    <3>3. \A s, t, u \in Seq(C) : (s \o t) \o u = s \o (t \o u)
      BY Behind
    <3> QED BY <3>1, <3>2, <3>3, Zenon
  <2>6. A \o Z = c \o p
    BY <2>2, <2>4, <2>5, Zenon
  <2>7. A \in Seq(C) /\ Len(A) = Len(c) + m /\ Z \in Seq(C)
    BY <2>2, <2>3, <2>5, Zenon
  <2> QED BY <2>6, <2>7, Zenon
<1> HIDE DEF A, Z
<1>5. LinkOK(n, d) /\ Waiting(d) = c \o p /\ Len(d.chan) = Len(c) + m
  BY <1>2, <1>4 DEF LinkOK, Waiting, C
<1> QED BY <1>1, <1>2, <1>3, <1>5 DEF m, c

(* Backlog::offer: a command goes behind all that waits, or is folded into   *)
(* the last of it.                                                           *)
LEMMA Offered ==
  ASSUME NEW n, NEW q, LinkOK(n, q), NEW c \in Cmds(n)
  PROVE LET o == B!Offer(q, c) IN
        /\ LinkOK(n, o)
        /\ Len(o.chan) = Len(q.chan) + B!Entering(q) + (IF B!Queues(q) THEN 1 ELSE 0)
        /\ B!Entering(q) \in Nat
        /\ \A k, x : Reads(k, x) =>
             End(k, x, Waiting(o)) = Step(k, End(k, x, Waiting(q)), c)
<1> DEFINE C == Cmds(n)
           d == B!Drain(q)
           o == B!Offer(q, c)
<1>1. /\ LinkOK(n, d) /\ Waiting(d) = Waiting(q)
      /\ Len(d.chan) = Len(q.chan) + B!Entering(q) /\ B!Entering(q) \in Nat
  BY Drained
<1> HIDE DEF C, d
<1>2. /\ d = [chan |-> d.chan, parked |-> d.parked]
      /\ d.chan \in Seq(C) /\ d.parked \in Seq(C) /\ Len(d.chan) <= CommandCap
      /\ c \in C
  BY <1>1 DEF LinkOK, C
<1>W. Waiting(q) \in Seq(C)
  <2>1. d.chan \o d.parked \in Seq(C)
    BY <1>2
  <2> QED BY <2>1, <1>1 DEF Waiting
<1>3. CASE B!Queues(q)
  <2>1. d.parked = << >> /\ Len(d.chan) < CommandCap
    BY <1>3 DEF B!Queues, d
  <2>2. o = [chan |-> Append(d.chan, c), parked |-> d.parked]
    <3>1. o = [d EXCEPT !.chan = Append(@, c)]
      BY <1>3 DEF B!Offer, d
    <3> QED BY <3>1, <1>2
  <2>3. Append(d.chan, c) \in Seq(C) /\ Len(Append(d.chan, c)) = Len(d.chan) + 1
    BY <1>2
  <2>4. LinkOK(n, o) /\ Len(o.chan) = Len(d.chan) + 1
    BY <1>2, <2>1, <2>2, <2>3, PaneAssumption DEF LinkOK, C
  <2>5. Waiting(o) = Append(Waiting(q), c)
    <3>1. Waiting(o) = Append(d.chan, c) \o << >>
      BY <2>1, <2>2 DEF Waiting
    <3>2. Append(d.chan, c) \o << >> = Append(d.chan, c) /\ d.chan \o << >> = d.chan
      BY <1>2, <2>3, ConcatEmptySeq
    <3>3. Waiting(q) = d.chan
      BY <1>1, <2>1, <3>2 DEF Waiting
    <3> QED BY <3>1, <3>2, <3>3
  <2>6. ASSUME NEW k, NEW x PROVE End(k, x, Waiting(o)) = Step(k, End(k, x, Waiting(q)), c)
    <3>1. Seqn(Waiting(q))
      BY <1>W, SeqIs
    <3>2. End(k, x, Append(Waiting(q), c)) = Step(k, End(k, x, Waiting(q)), c)
      BY <3>1, EndAppend
    <3> QED BY <3>2, <2>5
  <2> QED BY <1>1, <1>3, <2>4, <2>6
<1>4. CASE ~B!Queues(q)
  <2> DEFINE p == IF d.parked = << >> THEN <<c>>
                  ELSE Front(d.parked) \o FoldParked(Last(d.parked), c)
  <2>1. o = [chan |-> d.chan, parked |-> p]
    <3>1. o = B!Park(d, c)
      BY <1>4 DEF B!Offer, d
    <3>2. \A e : B!Park(e, c) = [e EXCEPT !.parked =
                    IF e.parked = << >> THEN <<c>>
                    ELSE Front(e.parked) \o FoldParked(Last(e.parked), c)]
      BY DEF B!Park, B!Front, B!Last, Front, Last
    <3>4. B!Park(d, c) = [d EXCEPT !.parked = p]
      BY <3>2
    <3> HIDE DEF p
    <3>3. [d EXCEPT !.parked = p] = [chan |-> d.chan, parked |-> p]
      BY <1>2
    <3> QED BY <3>1, <3>4, <3>3
  <2>2. p \in Seq(C) /\ \A k, x : Reads(k, x) => End(k, x, p) = Step(k, End(k, x, d.parked), c)
    <3>1. CASE d.parked = << >>
      <4>1. p = <<c>> /\ <<c>> \in Seq(C)
        BY <3>1, <1>2
      <4>2. \A k, x : End(k, x, d.parked) = x /\ End(k, x, <<c>>) = Step(k, x, c)
        BY <3>1, EndNone, EndOne
      <4> QED BY <4>1, <4>2
    <3>2. CASE d.parked # << >>
      <4> DEFINE f == Front(d.parked)
                 l == Last(d.parked)
                 m == FoldParked(l, c)
      <4>1. f \in Seq(C) /\ l \in C /\ d.parked = Append(f, l)
        <5>1. PICK s \in Seq(C), e \in C : d.parked = Append(s, e)
          BY <1>2, <3>2, SequenceEmptyOrAppend
        <5>2. Len(d.parked) = Len(s) + 1 /\ Len(s) \in Nat
          BY <5>1
        <5>3. l = e
          BY <5>1, <5>2 DEF Last
        <5>4. f = s
          <6> DEFINE ds == d.parked
          <6>0. ds \in Seq(C) /\ Len(ds) = Len(s) + 1 /\ \A i \in 1 .. Len(s) : ds[i] = s[i]
            BY <1>2, <5>1, <5>2
          <6> HIDE DEF ds
          <6>1. f = SubSeq(ds, 1, Len(s))
            BY <5>2 DEF Front, ds
          <6> HIDE DEF f
          <6>2. f \in Seq(C) /\ Len(f) = Len(s) /\ \A i \in 1 .. Len(s) : f[i] = ds[i]
            BY <6>0, <6>1, <5>2
          <6>3. \A i \in 1 .. Len(f) : f[i] = s[i]
            BY <6>0, <6>2
          <6> QED BY <6>2, <6>3, SeqEqual
        <5> QED BY <5>1, <5>3, <5>4
      <4> HIDE DEF f, l
      <4>2. m \in Seq(C) /\ \A k, x : Reads(k, x) => End(k, x, m) = Step(k, Step(k, x, l), c)
        BY <4>1, <1>2, FoldedSays DEF C
      <4> HIDE DEF m
      <4>3. p = f \o m
        BY <3>2 DEF f, l, m
      <4>4. f \o m \in Seq(C)
        BY <4>1, <4>2
      <4>5. ASSUME NEW k, NEW x, Reads(k, x)
            PROVE End(k, x, f \o m) = Step(k, End(k, x, d.parked), c)
        <5>1. Seqn(f) /\ Seqn(m) /\ Reads(k, End(k, x, f))
          BY <4>1, <4>2, <4>5, ReadsOn, SeqIs DEF C
        <5>2. End(k, x, f \o m) = End(k, End(k, x, f), m)
          BY <5>1, EndCat
        <5>3. End(k, End(k, x, f), m) = Step(k, Step(k, End(k, x, f), l), c)
          BY <5>1, <4>2
        <5>4. End(k, x, Append(f, l)) = Step(k, End(k, x, f), l)
          BY <5>1, EndAppend
        <5> QED BY <5>2, <5>3, <5>4, <4>1
      <4> HIDE DEF p
      <4> QED BY <4>3, <4>4, <4>5
    <3> QED BY <3>1, <3>2
  <2> HIDE DEF p
  <2>3. LinkOK(n, o) /\ Len(o.chan) = Len(d.chan) /\ Waiting(o) = d.chan \o p
    BY <1>2, <2>1, <2>2 DEF LinkOK, C, Waiting
  <2>4. ASSUME NEW k, NEW x, Reads(k, x)
        PROVE End(k, x, d.chan \o p) = Step(k, End(k, x, Waiting(q)), c)
    <3>1. Seqn(d.chan) /\ Seqn(p) /\ Seqn(d.parked) /\ Reads(k, End(k, x, d.chan))
      BY <1>2, <2>2, <2>4, ReadsOn, SeqIs DEF C
    <3>2. End(k, x, d.chan \o p) = End(k, End(k, x, d.chan), p)
      BY <3>1, EndCat
    <3>3. End(k, x, d.chan \o d.parked) = End(k, End(k, x, d.chan), d.parked)
      BY <3>1, EndCat
    <3>4. End(k, End(k, x, d.chan), p) = Step(k, End(k, End(k, x, d.chan), d.parked), c)
      BY <3>1, <2>2
    <3> QED BY <1>1, <3>2, <3>3, <3>4 DEF Waiting
  <2> QED BY <1>1, <1>4, <2>3, <2>4
<1> QED BY <1>3, <1>4

-----------------------------------------------------------------------------
(* The chart's own series. *)

ChartOK(c) ==
  /\ c = [trades |-> c.trades, size |-> c.size, opened |-> c.opened]
  /\ c.trades \in Prints /\ c.size \in Nat \ {0} /\ c.opened \in BOOLEAN

(* What the series is cut into: how many whole bars there are, and where    *)
(* the last of them ends.                                                   *)
LEMMA Division ==
  ASSUME NEW N \in Nat, NEW s \in Nat \ {0}
  PROVE /\ N \div s \in Nat /\ (N \div s) * s \in Nat /\ (N \div s) * s <= N
        /\ 0 \div s = 0
        /\ \A n \in Nat : N \div s <= (N + n) \div s
        /\ \A q \in Nat : \A i \in 1 .. q :
             /\ i * s <= q * s /\ (i - 1) * s + 1 \in Nat /\ 1 <= (i - 1) * s + 1
             /\ i * s \in Nat
<1>1. N \div s \in Nat /\ (N \div s) * s \in Nat
  OBVIOUS
<1>2. (N \div s) * s <= N
  OBVIOUS
<1>3. 0 \div s = 0
  OBVIOUS
<1>4. \A n \in Nat : N \div s <= (N + n) \div s
  OBVIOUS
<1>5. \A q \in Nat : \A i \in 1 .. q :
        /\ i * s <= q * s /\ (i - 1) * s + 1 \in Nat /\ 1 <= (i - 1) * s + 1
        /\ i * s \in Nat
  OBVIOUS
<1> QED BY <1>1, <1>2, <1>3, <1>4, <1>5

(* Bars and the forming bar are what they are called. *)
LEMMA SeriesIs ==
  ASSUME NEW c, ChartOK(c)
  PROVE LET N == Len(c.trades) q == N \div c.size b == q * c.size F == Forming(c) IN
        /\ N \in Nat /\ q \in Nat /\ b \in 0 .. N
        /\ Bars(c) \in Cuts /\ Len(Bars(c)) = q
        /\ \A i \in 1 .. q : Bars(c)[i] = SubSeq(c.trades, (i - 1) * c.size + 1, i * c.size)
        /\ F \in Prints /\ Len(F) = N - b /\ \A i \in 1 .. N - b : F[i] = c.trades[b + i]
<1> DEFINE T == c.trades
           N == Len(T)
           s == c.size
           q == N \div s
           b == q * s
           Z == Seq(Nat)
           f(i) == SubSeq(T, (i - 1) * s + 1, i * s)
<1>1. T \in Seq(Nat) /\ N \in Nat /\ s \in Nat \ {0}
  BY DEF ChartOK, Prints
<1> HIDE DEF T, s
<1>2. q \in Nat /\ b \in Nat /\ b <= N
  BY <1>1, Division
<1>3. \A i \in 1 .. q : f(i) \in Z
  <2> SUFFICES ASSUME NEW i \in 1 .. q PROVE f(i) \in Z
    OBVIOUS
  <2> DEFINE l == (i - 1) * s + 1
             r == i * s
  <2>1. i * s <= q * s /\ l \in Nat /\ 1 <= l /\ r \in Nat
    BY <1>1, <1>2, Division
  <2> HIDE DEF l, r
  <2>2. r <= N
    BY <1>1, <1>2, <2>1 DEF r
  <2>3. \A j \in l .. r : T[j] \in Nat
    BY <1>1, <2>1, <2>2
  <2>4. SubSeq(T, l, r) \in Seq(Nat)
    BY <2>1, <2>3, SubSeqProperties
  <2> QED BY <2>4 DEF l, r
<1>4. Bars(c) = [i \in 1 .. q |-> f(i)]
  BY DEF Bars, T, s
<1> HIDE DEF q, f, Z
<1>5. [i \in 1 .. q |-> f(i)] \in Seq(Z) /\ Len([i \in 1 .. q |-> f(i)]) = q
      /\ \A i \in 1 .. q : [j \in 1 .. q |-> f(j)][i] = f(i)
  <2>1. [i \in 1 .. q |-> f(i)] \in Seq(Z)
    BY <1>2, <1>3, IsASeq
  <2> QED BY <1>2, <2>1
<1>6. Forming(c) = SubSeq(T, b + 1, N)
  BY DEF Forming, T, s, q
<1> HIDE DEF b
<1>7. /\ SubSeq(T, b + 1, N) \in Seq(Nat) /\ Len(SubSeq(T, b + 1, N)) = N - b
      /\ \A i \in 1 .. N - b : SubSeq(T, b + 1, N)[i] = T[b + i]
  <2>1. \A i \in b + 1 .. N : T[i] \in Nat
    BY <1>1, <1>2
  <2>2. b + 1 \in Int /\ N \in Int
    BY <1>1, <1>2
  <2> DEFINE U == SubSeq(T, b + 1, N)
             l == b + 1
  <2>3. l \in Int /\ l = b + 1
    BY <2>2
  <2> HIDE DEF l
  <2>4. /\ SubSeq(T, l, N) \in Seq(Nat)
        /\ Len(SubSeq(T, l, N)) = IF l <= N THEN N - l + 1 ELSE 0
        /\ \A i \in 1 .. N - l + 1 : SubSeq(T, l, N)[i] = T[l + i - 1]
    BY <2>1, <2>2, <2>3, SubSeqProperties
  <2>5. Len(SubSeq(T, l, N)) = N - b
    BY <1>1, <1>2, <2>3, <2>4
  <2>6. N - l + 1 = N - b /\ \A i \in 1 .. N - b : l + i - 1 = b + i
    BY <1>1, <1>2, <2>3
  <2>7. \A i \in 1 .. N - b : SubSeq(T, l, N)[i] = T[b + i]
    BY <2>4, <2>6
  <2> QED BY <2>4, <2>5, <2>7 DEF l
<1> DEFINE F == Forming(c)
<1>8. F \in Seq(Nat) /\ Len(F) = N - b /\ \A i \in 1 .. N - b : F[i] = T[b + i]
  BY <1>6, <1>7, Zenon
<1>9. Bars(c) \in Seq(Z) /\ Len(Bars(c)) = q /\ \A i \in 1 .. q : Bars(c)[i] = f(i)
  BY <1>4, <1>5, Zenon
<1> QED BY <1>1, <1>2, <1>8, <1>9 DEF T, s, q, b, f, Z, Prints, Cuts

(* A prefix of the forming bar, told from the prints. *)
LEMMA LaneRun ==
  ASSUME NEW c, ChartOK(c), NEW sent \in Nat
  PROVE LET F == Forming(c) n == Len(F) m == B!Least(sent, n) N == Len(c.trades) IN
        /\ n \in Nat /\ m \in 0 .. n
        /\ SubSeq(c.trades, N - n + m + 1, N) = SubSeq(F, m + 1, n)
        /\ SubSeq(F, 1, m) \o SubSeq(F, m + 1, n) = F
        /\ SubSeq(F, m + 1, n) \in Prints
<1> DEFINE T == c.trades
           N == Len(T)
           F == Forming(c)
           b == (N \div c.size) * c.size
           n == Len(F)
           m == B!Least(sent, n)
<1>1. /\ N \in Nat /\ b \in 0 .. N /\ F \in Seq(Nat) /\ n = N - b
      /\ \A i \in 1 .. N - b : F[i] = T[b + i]
  BY SeriesIs DEF Prints
<1>2. T \in Seq(Nat)
  BY DEF ChartOK, Prints
<1>3. \A x, y \in Nat : B!Least(x, y) \in 0 .. y
  BY DEF B!Least
<1> HIDE DEF T, F, b
<1>4. n \in Nat /\ m \in 0 .. n
  <2>1. n \in Nat
    BY <1>1
  <2> HIDE DEF n
  <2>2. B!Least(sent, n) \in 0 .. n
    BY <1>3, <2>1
  <2> QED BY <2>1, <2>2
<1> HIDE DEF m
<1>5. SubSeq(F, 1, m) \o SubSeq(F, m + 1, n) = F /\ SubSeq(F, m + 1, n) \in Seq(Nat)
  BY <1>1, <1>4, CutInTwo
<1>6. SubSeq(T, N - n + m + 1, N) = SubSeq(F, m + 1, n)
  <2> DEFINE l == N - n + m + 1
             k == m + 1
             U == SubSeq(T, l, N)
             V == SubSeq(F, k, n)
  <2>1. l = b + k /\ l \in 1 .. N + 1 /\ k \in 1 .. n + 1 /\ n = N - b
    BY <1>1, <1>4
  <2> HIDE DEF l, k, n
  <2>2. \A i \in l .. N : T[i] \in Nat
    BY <1>2, <2>1
  <2>3. \A i \in k .. n : F[i] \in Nat
    BY <1>1, <2>1 DEF n
  <2>4. /\ U \in Seq(Nat) /\ Len(U) = (IF l <= N THEN N - l + 1 ELSE 0)
        /\ \A i \in 1 .. N - l + 1 : U[i] = T[l + i - 1]
    BY <1>1, <2>1, <2>2, SubSeqProperties
  <2>5. /\ V \in Seq(Nat) /\ Len(V) = (IF k <= n THEN n - k + 1 ELSE 0)
        /\ \A i \in 1 .. n - k + 1 : V[i] = F[k + i - 1]
    BY <1>4, <2>1, <2>3, SubSeqProperties
  <2> HIDE DEF U, V
  <2>6. Len(U) = Len(V) /\ Len(U) = N - l + 1 /\ N - l + 1 = n - k + 1
    BY <1>1, <2>1, <2>4, <2>5
  <2>7. ASSUME NEW i \in 1 .. Len(U) PROVE U[i] = V[i]
    <3>1. i \in 1 .. N - l + 1 /\ i \in 1 .. n - k + 1 /\ k + i - 1 \in 1 .. N - b
          /\ l + i - 1 = b + (k + i - 1)
      BY <1>1, <2>1, <2>6
    <3>2. U[i] = T[l + i - 1] /\ V[i] = F[k + i - 1]
      BY <2>4, <2>5, <3>1
    <3>3. F[k + i - 1] = T[b + (k + i - 1)]
      BY <1>1, <3>1
    <3> QED BY <3>1, <3>2, <3>3
  <2>8. U = V
    BY <2>4, <2>5, <2>6, <2>7, SeqEqual
  <2> QED BY <2>8 DEF U, V, l, k
<1> QED BY <1>4, <1>5, <1>6 DEF T, F, m, Prints

(* LaneTransport::command: a forming-bar update leaves the worker with the  *)
(* forming bar, and with all of it in the lane's run where there is a lane. *)
LEMMA PartialSays ==
  ASSUME NEW c, ChartOK(c), NEW rungs \in Nat, NEW sent \in Nat, NEW x \in Sers, NEW n,
         rungs > 0 /\ Forming(c) # << >> =>
           x.run = SubSeq(Forming(c), 1, B!Least(sent, Len(Forming(c))))
  PROVE /\ PartialCommand(c, rungs, sent) \in Cmds(n)
        /\ ~Replays(PartialCommand(c, rungs, sent))
        /\ PartialCommand(c, rungs, sent).op = "PartialUpdated"
        /\ SeriesStep(x, PartialCommand(c, rungs, sent))
             = SeriesOf(x.bars, Forming(c), IF rungs = 0 THEN << >> ELSE Forming(c))
<1> DEFINE F == Forming(c)
           p == PartialCommand(c, rungs, sent)
           u == Unsent(c, rungs)
           N == Len(c.trades)
           run == SubSeq(c.trades, N - u + B!Least(sent, u) + 1, N)
<1>1. p = [op |-> "PartialUpdated", partial |-> F, rungs |-> rungs, run |-> run]
  BY DEF PartialCommand
<1>2. F \in Prints /\ N \in Nat
  BY SeriesIs
<1>3. run \in Prints
  <2>1. CASE rungs = 0
    <3>1. u = 0 /\ B!Least(sent, u) = 0
      BY <2>1 DEF Unsent, B!Least
    <3>2. run = SubSeq(c.trades, N - 0 + 0 + 1, N)
      BY <3>1
    <3>3. N - 0 + 0 + 1 = N + 1 /\ N + 1 \in Int /\ N \in Int /\ N < N + 1
      BY <1>2
    <3>4. SubSeq(c.trades, N + 1, N) = << >>
      <4> HIDE DEF N
      <4> QED BY <3>3, SubSeqEmpty
    <3>5. << >> \in Prints
      BY DEF Prints
    <3> HIDE DEF run
    <3> QED BY <3>2, <3>3, <3>4, <3>5
  <2>2. CASE rungs # 0
    <3>1. u = Len(F)
      BY <2>2 DEF Unsent
    <3> QED BY <3>1, LaneRun
  <2> QED BY <2>1, <2>2
<1>4. rungs # 0 /\ F # << >> => x.run \o run = F
  <2> SUFFICES ASSUME rungs # 0, F # << >> PROVE x.run \o run = F
    OBVIOUS
  <2>1. u = Len(F)
    BY DEF Unsent
  <2>2. x.run = SubSeq(F, 1, B!Least(sent, Len(F)))
    OBVIOUS
  <2>3. run = SubSeq(F, B!Least(sent, Len(F)) + 1, Len(F))
    BY <2>1, LaneRun
  <2>4. SubSeq(F, 1, B!Least(sent, Len(F))) \o SubSeq(F, B!Least(sent, Len(F)) + 1, Len(F)) = F
    BY LaneRun
  <2> QED BY <2>2, <2>3, <2>4, Zenon
<1> HIDE DEF F, run
<1>5. p.op = "PartialUpdated" /\ p.partial = F /\ p.rungs = rungs /\ p.run = run
  BY <1>1
<1>6. p \in Cmds(n)
  BY <1>1, <1>2, <1>3 DEF Cmds
<1>7. Clears(p) <=> (F = << >> \/ rungs = 0)
  BY <1>5 DEF Clears
<1>8. SeriesStep(x, p) = SeriesOf(x.bars, F, IF Clears(p) THEN << >> ELSE x.run \o run)
  BY <1>5 DEF SeriesStep
<1>9. (IF Clears(p) THEN << >> ELSE x.run \o run) = (IF rungs = 0 THEN << >> ELSE F)
  BY <1>4, <1>7
<1>10. ~Replays(p)
  BY <1>5 DEF Replays
<1> QED BY <1>5, <1>6, <1>8, <1>9, <1>10 DEF F

(* A list of bars, as the commands that close them one by one.               *)
Closings(closed) ==
  [i \in 1 .. Len(closed) |-> [op |-> "BarClosed", bar |-> closed[i]]]

(* BarClosed, one after another: the bars are behind those already held, and *)
(* whatever was forming is gone.                                             *)
LEMMA ClosedSays ==
  ASSUME NEW closed \in Cuts, NEW x \in Sers, NEW n
  PROVE /\ Closings(closed) \in Seq(Cmds(n)) /\ Len(Closings(closed)) = Len(closed)
        /\ \A i \in 1 .. Len(closed) : Closings(closed)[i].op = "BarClosed"
        /\ End(SeriesKind, x, Closings(closed))
             = IF closed = << >> THEN x ELSE SeriesOf(x.bars \o closed, << >>, << >>)
<1> DEFINE L == Len(closed)
           Z == Seq(Nat)
           C == Cmds(n)
           bc == Closings(closed)
           f(i) == [op |-> "BarClosed", bar |-> closed[i]]
           y(m) == End(SeriesKind, x, SubSeq(bc, 1, m))
           z(m) == IF m = 0 THEN x
                   ELSE SeriesOf(x.bars \o SubSeq(closed, 1, m), << >>, << >>)
           G == {m \in 0 .. L : y(m) = z(m)}
<1>1. closed \in Seq(Z) /\ L \in Nat /\ x.bars \in Seq(Z)
  BY DEF Cuts, Sers
<1>2. \A i \in 1 .. L : f(i) \in C
  <2>1. \A i \in 1 .. L : closed[i] \in Prints
    BY <1>1 DEF Prints
  <2> HIDE DEF L
  <2> QED BY <2>1 DEF Cmds
<1>3. bc = [i \in 1 .. L |-> f(i)]
  BY DEF Closings
<1>e. \A i \in 1 .. L : f(i).op = "BarClosed" /\ f(i).bar = closed[i]
  OBVIOUS
<1> HIDE DEF L, f, bc, Z, C
<1>4. bc \in Seq(C) /\ Len(bc) = L /\ \A i \in 1 .. L : bc[i] = f(i)
  <2>1. [i \in 1 .. L |-> f(i)] \in Seq(C)
    BY <1>1, <1>2, IsASeq
  <2> QED BY <1>1, <1>3, <2>1
<1>5. Seqn(bc)
  BY <1>4, SeqIs
<1>6. y(0) = x /\ SubSeq(bc, 1, Len(bc)) = bc
      /\ \A m \in 1 .. Len(bc) : y(m) = Step(SeriesKind, y(m - 1), bc[m])
  <2>1. y(0) = x
    BY <1>5, EndEnds
  <2>2. SubSeq(bc, 1, Len(bc)) = bc
    BY <1>5, EndEnds
  <2>3. \A m \in 1 .. Len(bc) : y(m) = Step(SeriesKind, y(m - 1), bc[m])
    BY <1>5, EndNext
  <2> HIDE DEF y
  <2> QED BY <2>1, <2>2, <2>3
<1> HIDE DEF y
<1>7. 0 \in G
  BY <1>1, <1>6
<1>8. \A m \in 1 .. L : m - 1 \in G => m \in G
  <2> SUFFICES ASSUME NEW m \in 1 .. L, m - 1 \in G PROVE y(m) = z(m)
    BY <1>1
  <2>1. y(m) = SeriesStep(y(m - 1), f(m))
    BY <1>4, <1>6, StepIs
  <2>2. y(m) = SeriesOf(Append(y(m - 1).bars, closed[m]), << >>, << >>)
    BY <2>1, <1>e DEF SeriesStep
  <2> DEFINE p == SubSeq(closed, 1, m - 1)
             e == closed[m]
             q == SubSeq(closed, 1, m)
  <2>3. p \in Seq(Z) /\ e \in Z /\ q = Append(p, e)
    <3>1. m \in 1 .. Len(closed)
      BY DEF L
    <3>2. e \in Z
      BY <1>1, <3>1
    <3>3. p \in Seq(Z) /\ q = Append(p, e)
      BY <1>1, <3>1, UptoNext
    <3> QED BY <3>2, <3>3
  <2>4. y(m - 1).bars = x.bars \o p
    <3>0. \A a, b, c : SeriesOf(a, b, c).bars = a
      BY DEF SeriesOf
    <3>1. y(m - 1) = z(m - 1)
      OBVIOUS
    <3>2. CASE m = 1
      <4>1. y(m - 1) = x
        BY <3>1, <3>2
      <4>2. p = << >>
        BY <3>2, <1>1
      <4>3. x.bars \o << >> = x.bars
        BY <1>1, ConcatEmptySeq
      <4> QED BY <4>1, <4>2, <4>3
    <3>3. CASE m # 1
      <4>1. m - 1 # 0
        BY <1>1, <3>3
      <4>2. y(m - 1) = SeriesOf(x.bars \o p, << >>, << >>)
        BY <3>1, <4>1
      <4> HIDE DEF p
      <4> DEFINE xp == x.bars \o p
      <4> HIDE DEF xp
      <4>3. y(m - 1) = SeriesOf(xp, << >>, << >>)
        BY <4>2 DEF xp
      <4> QED BY <3>0, <4>3 DEF xp
    <3> QED BY <3>2, <3>3
  <2> HIDE DEF p, e, q
  <2>5. Append(x.bars \o p, e) = x.bars \o q
    <3>1. \A s \in Seq(Z) : Append(s, e) = s \o <<e>>
      BY <2>3, AppendIsConcat
    <3> DEFINE X == x.bars
               E == <<e>>
    <3>0. X \in Seq(Z) /\ E \in Seq(Z)
      BY <1>1, <2>3
    <3> HIDE DEF X, E
    <3>2. X \o p \in Seq(Z)
      BY <3>0, <2>3
    <3>3. \A t, u \in Seq(Z) : (X \o t) \o u = X \o (t \o u)
      BY <3>0, ConcatAssociative
    <3>4. (X \o p) \o E = X \o (p \o E)
      BY <2>3, <3>0, <3>3
    <3>5. Append(X \o p, e) = (X \o p) \o E
      BY <3>1, <3>2 DEF E
    <3>6. q = p \o E
      BY <2>3, <3>1 DEF E
    <3>7. Append(X \o p, e) = X \o q
      BY <3>4, <3>5, <3>6, Zenon
    <3> QED BY <3>7 DEF X
  <2>6. m # 0
    BY <1>1
  <2>7. y(m) = SeriesOf(x.bars \o q, << >>, << >>)
    BY <2>2, <2>4, <2>5 DEF e
  <2> QED BY <2>6, <2>7 DEF q
<1>9. L \in G
  <2>1. \A m \in 0 .. L : m \in G
    <3> HIDE DEF G
    <3> QED BY <1>1, <1>7, <1>8, Upward
  <2> QED BY <1>1, <2>1
<1>10. End(SeriesKind, x, bc) = z(L)
  <2>1. y(L) = z(L)
    BY <1>9
  <2>2. y(L) = End(SeriesKind, x, bc)
    BY <1>4, <1>6 DEF y
  <2> QED BY <2>1, <2>2
<1>11. z(L) = IF closed = << >> THEN x ELSE SeriesOf(x.bars \o closed, << >>, << >>)
  <2>1. SubSeq(closed, 1, Len(closed)) = closed
    BY <1>1, SubSeqFull
  <2>2. L = 0 <=> closed = << >>
    BY <1>1 DEF L
  <2> QED BY <2>1, <2>2 DEF L
<1> QED BY <1>4, <1>e, <1>10, <1>11 DEF bc, C, L

(* IngestLive: prints behind the others close bars behind the others, and   *)
(* where they close none the forming bar only grows.                        *)
LEMMA Extended ==
  ASSUME NEW c, ChartOK(c), NEW new \in Prints,
         NEW d, d = [trades |-> c.trades \o new, size |-> c.size, opened |-> c.opened],
         NEW closed, closed = SubSeq(Bars(d), Len(Bars(c)) + 1, Len(Bars(d)))
  PROVE /\ ChartOK(d) /\ closed \in Cuts /\ Bars(d) = Bars(c) \o closed
        /\ closed = << >> =>
             SubSeq(Forming(d), 1, B!Least(Len(Forming(c)), Len(Forming(d)))) = Forming(c)
<1> DEFINE T == c.trades
           N == Len(T)
           s == c.size
           U == T \o new
           M == Len(U)
           q == N \div s
           r == M \div s
           Z == Seq(Nat)
           A == Bars(c)
           D == Bars(d)
           f(i) == SubSeq(T, (i - 1) * s + 1, i * s)
           g(i) == SubSeq(U, (i - 1) * s + 1, i * s)
<1>1. T \in Seq(Nat) /\ new \in Seq(Nat) /\ s \in Nat \ {0}
  BY DEF ChartOK, Prints
<1>2. ChartOK(d) /\ d.trades = U /\ d.size = s
  <2>1. U \in Prints
    BY <1>1 DEF Prints
  <2> HIDE DEF U
  <2> QED BY <2>1 DEF ChartOK, U
<1>3. /\ N \in Nat /\ q \in Nat /\ q * s \in 0 .. N
      /\ A \in Seq(Z) /\ Len(A) = q /\ \A i \in 1 .. q : A[i] = f(i)
      /\ Forming(c) \in Seq(Nat) /\ Len(Forming(c)) = N - q * s
      /\ \A i \in 1 .. N - q * s : Forming(c)[i] = T[q * s + i]
  BY SeriesIs DEF Prints, Cuts
<1>4. /\ M \in Nat /\ r \in Nat /\ r * s \in 0 .. M
      /\ D \in Seq(Z) /\ Len(D) = r /\ \A i \in 1 .. r : D[i] = g(i)
      /\ Forming(d) \in Seq(Nat) /\ Len(Forming(d)) = M - r * s
      /\ \A i \in 1 .. M - r * s : Forming(d)[i] = U[r * s + i]
  <2> HIDE DEF U, s
  <2> QED BY <1>2, SeriesIs DEF Prints, Cuts
<1>5. M = N + Len(new) /\ Len(new) \in Nat /\ \A i \in 1 .. N : U[i] = T[i]
  <2> HIDE DEF T
  <2> QED BY <1>1
<1>6. q <= r
  <2> HIDE DEF T, s, U, N, M
  <2> QED BY <1>1, <1>3, <1>5, Division
<1>7. \A i \in 1 .. q : f(i) = g(i)
  <2> SUFFICES ASSUME NEW i \in 1 .. q PROVE f(i) = g(i)
    OBVIOUS
  <2> DEFINE l == (i - 1) * s + 1
             m == i * s
  <2> HIDE DEF T, s, q
  <2>1. m <= q * s /\ l \in Nat /\ 1 <= l /\ m \in Nat
    BY <1>1, <1>3, Division
  <2>2. l <= m
    BY <1>1, <1>3
  <2> HIDE DEF l, m
  <2>3. m <= N
    BY <1>1, <1>3, <2>1
  <2>4. l \in 1 .. N /\ m \in 1 .. N
    BY <1>3, <2>1, <2>2, <2>3
  <2>5. SubSeq(T \o new, l, m) = SubSeq(T, l, m)
    BY <1>1, <2>4, SubSeqOfConcat1
  <2> QED BY <2>5 DEF l, m
<1>8. D = A \o closed /\ closed \in Seq(Z) /\ Len(closed) = r - q
  <2> HIDE DEF A, D, f, g, q, r, Z
  <2>1. q \in 0 .. Len(D)
    BY <1>3, <1>4, <1>6
  <2> DEFINE P == SubSeq(D, 1, q)
  <2>2. P \in Seq(Z) /\ SubSeq(D, q + 1, Len(D)) \in Seq(Z) /\ Len(P) = q
        /\ P \o SubSeq(D, q + 1, Len(D)) = D
    BY <1>4, <2>1, CutInTwo
  <2>3. \A i \in 1 .. q : P[i] = D[i]
    BY <1>4, <2>1
  <2>4. closed = SubSeq(D, q + 1, Len(D))
    BY <1>3 DEF A, D
  <2> HIDE DEF P
  <2>5. \A i \in 1 .. Len(P) : P[i] = A[i]
    BY <1>3, <1>4, <1>6, <1>7, <2>2, <2>3
  <2>6. P = A
    BY <1>3, <2>2, <2>5, SeqEqual
  <2>7. D = A \o closed /\ closed \in Seq(Z)
    BY <2>2, <2>4, <2>6
  <2>a. A \in Seq(Z) /\ Len(A) = q /\ q \in Nat
    BY <1>3
  <2>b. closed \in Seq(Z)
    BY <2>7
  <2>8. Len(A \o closed) = Len(A) + Len(closed) /\ Len(closed) \in Nat
    <3>1. \A s1, s2 \in Seq(Z) : Len(s1 \o s2) = Len(s1) + Len(s2) /\ Len(s2) \in Nat
      BY Behind
    <3> QED BY <2>a, <2>b, <3>1
  <2>9. Len(D) = r /\ r \in Nat
    BY <1>4
  <2>10. Len(D) = Len(A) + Len(closed)
    BY <2>7, <2>8, Zenon
  <2>11. Len(closed) = r - q
    BY <2>8, <2>a, <2>9, <2>10
  <2> QED BY <2>7, <2>11
<1>9. ASSUME closed = << >>
      PROVE SubSeq(Forming(d), 1, B!Least(Len(Forming(c)), Len(Forming(d)))) = Forming(c)
  <2> DEFINE F == Forming(c)
             H == Forming(d)
             b == q * s
  <2>1. r = q
    <3>1. Len(closed) = 0 /\ Len(closed) = r - q
      BY <1>8, <1>9
    <3>2. r \in Nat /\ q \in Nat
      BY <1>3, <1>4
    <3> HIDE DEF q, r
    <3> QED BY <3>1, <3>2
  <2> HIDE DEF F, H, T, U, q, r, s
  <2>2. r * s = b
    BY <2>1
  <2> HIDE DEF b
  <2>3. /\ F \in Seq(Nat) /\ Len(F) = N - b /\ \A i \in 1 .. N - b : F[i] = T[b + i]
        /\ H \in Seq(Nat) /\ Len(H) = M - b /\ \A i \in 1 .. M - b : H[i] = U[b + i]
        /\ b \in 0 .. N /\ N \in Nat /\ M \in Nat /\ N <= M
    <3>1. /\ F \in Seq(Nat) /\ Len(F) = N - b /\ \A i \in 1 .. N - b : F[i] = T[b + i]
          /\ b \in 0 .. N /\ N \in Nat
      BY <1>3 DEF F, b
    <3>2. /\ H \in Seq(Nat) /\ Len(H) = M - r * s
          /\ \A i \in 1 .. M - r * s : H[i] = U[r * s + i] /\ M \in Nat
      BY <1>4 DEF H
    <3>3. H \in Seq(Nat) /\ Len(H) = M - b /\ \A i \in 1 .. M - b : H[i] = U[b + i]
      BY <2>2, <3>2
    <3>4. N <= M /\ M \in Nat
      <4> HIDE DEF N, M
      <4> QED BY <1>3, <1>4, <1>5
    <3> QED BY <3>1, <3>3, <3>4
  <2>4. B!Least(Len(F), Len(H)) = N - b
    <3>1. Len(F) \in Nat /\ Len(H) \in Nat /\ Len(F) <= Len(H)
      BY <2>3
    <3>2. \A x, y \in Nat : x <= y => B!Least(x, y) = x
      BY DEF B!Least
    <3> QED BY <2>3, <3>1, <3>2
  <2> DEFINE K == SubSeq(H, 1, N - b)
  <2>5. K \in Seq(Nat) /\ Len(K) = N - b /\ \A i \in 1 .. N - b : K[i] = H[i]
    <3> DEFINE n == N - b
    <3>1. n \in 0 .. Len(H) /\ H \in Seq(Nat)
      BY <2>3
    <3> HIDE DEF n
    <3>2. SubSeq(H, 1, n) \in Seq(Nat) /\ Len(SubSeq(H, 1, n)) = n
          /\ \A i \in 1 .. n : SubSeq(H, 1, n)[i] = H[i]
      BY <3>1
    <3> QED BY <3>2 DEF n
  <2> HIDE DEF K
  <2>6. \A i \in 1 .. Len(K) : K[i] = F[i]
    <3> SUFFICES ASSUME NEW i \in 1 .. N - b PROVE K[i] = F[i]
      BY <2>5
    <3>1. i \in 1 .. M - b /\ b + i \in 1 .. N
      BY <2>3
    <3>2. K[i] = H[i] /\ H[i] = U[b + i] /\ U[b + i] = T[b + i] /\ F[i] = T[b + i]
      BY <1>5, <2>3, <2>5, <3>1
    <3> QED BY <3>2
  <2>7. K = F
    BY <2>3, <2>5, <2>6, SeqEqual
  <2> QED BY <2>4, <2>7 DEF K, F, H
<1> QED BY <1>2, <1>8, <1>9 DEF Cuts

-----------------------------------------------------------------------------
(* Slots in the order of their numbers. *)

(* A bounded set of numbers has a greatest. *)
LEMMA Greatest ==
  ASSUME NEW S, NEW n \in Nat, S \subseteq 0 .. n, S # {}
  PROVE \E x \in S : \A y \in S : y <= x
<1> DEFINE T == {n - x : x \in S}
<1>1. T \subseteq Nat /\ T # {}
  <2>1. \A x \in S : n - x \in Nat
    OBVIOUS
  <2>2. PICK x \in S : TRUE
    OBVIOUS
  <2> QED BY <2>1, <2>2
<1>2. PICK y \in T : \A z \in T : y <= z
  BY <1>1, LeastNumber
<1>3. PICK x \in S : y = n - x
  BY <1>2
<1>4. \A z \in S : z <= x
  BY <1>2, <1>3
<1> QED BY <1>4

(* It can be written down upward, and so every member of it is written down. *)
LEMMA Ordered ==
  ASSUME NEW S, NEW n \in Nat, S \subseteq 0 .. n
  PROVE /\ Cardinality(S) \in Nat
        /\ InOrder(S) \in [1 .. Cardinality(S) -> S]
        /\ \A i, j \in 1 .. Cardinality(S) : i < j => InOrder(S)[i] < InOrder(S)[j]
        /\ \A x \in S : \E i \in 1 .. Cardinality(S) : InOrder(S)[i] = x
<1> DEFINE N == Cardinality(S)
           Up(s, k) == \A i, j \in 1 .. k : i < j => s[i] < s[j]
           G == {k \in 0 .. N : \A T \in SUBSET S : Cardinality(T) = k =>
                                  \E s \in [1 .. k -> T] : Up(s, k)}
<1>0. IsFiniteSet(S)
  <2>1. IsFiniteSet(0 .. n)
    BY FS_Interval
  <2> QED BY <2>1, FS_Subset
<1>1. N \in Nat /\ \A T \in SUBSET S :
        /\ Cardinality(T) \in 0 .. N
        /\ Cardinality(T) = 0 <=> T = {}
        /\ \A x \in T : T \ {x} \in SUBSET S /\ Cardinality(T \ {x}) = Cardinality(T) - 1
  BY <1>0, Sizes
<1> HIDE DEF N
<1>2. 0 \in G
  <2> SUFFICES ASSUME NEW T \in SUBSET S, Cardinality(T) = 0
               PROVE \E s \in [1 .. 0 -> T] : Up(s, 0)
    BY <1>1
  <2> DEFINE s == [i \in 1 .. 0 |-> i]
  <2>1. s \in [1 .. 0 -> T] /\ Up(s, 0)
    OBVIOUS
  <2> QED BY <2>1
<1>3. \A k \in 1 .. N : k - 1 \in G => k \in G
  <2> SUFFICES ASSUME NEW k \in 1 .. N, k - 1 \in G, NEW T \in SUBSET S, Cardinality(T) = k
               PROVE \E s \in [1 .. k -> T] : Up(s, k)
    BY <1>1
  <2>1. T # {} /\ T \subseteq 0 .. n
    BY <1>1
  <2>2. PICK m \in T : \A y \in T : y <= m
    BY <2>1, Greatest
  <2> DEFINE R == T \ {m}
  <2>3. R \in SUBSET S /\ Cardinality(R) = k - 1
    BY <1>1
  <2>4. PICK s \in [1 .. k - 1 -> R] : Up(s, k - 1)
    <3> HIDE DEF R, Up
    <3> QED BY <2>3
  <2> DEFINE u == [i \in 1 .. k |-> IF i = k THEN m ELSE s[i]]
  <2>5. u[k] = m /\ \A i \in 1 .. k - 1 : u[i] = s[i] /\ s[i] \in T /\ s[i] # m
    BY <2>4
  <2>6. u \in [1 .. k -> T]
    BY <2>4
  <2> HIDE DEF u
  <2>7. Up(u, k)
    <3> SUFFICES ASSUME NEW i \in 1 .. k, NEW j \in 1 .. k, i < j PROVE u[i] < u[j]
      OBVIOUS
    <3>1. i \in 1 .. k - 1
      OBVIOUS
    <3>2. CASE j = k
      <4> DEFINE y == s[i]
      <4>1. y \in T /\ y # m /\ u[i] = y
        BY <2>5, <3>1
      <4> HIDE DEF y
      <4>2. y <= m /\ y \in Nat /\ m \in Nat
        BY <2>1, <2>2, <4>1
      <4>3. y < m /\ u[j] = m
        BY <2>5, <3>2, <4>1, <4>2
      <4> QED BY <4>1, <4>3
    <3>3. CASE j # k
      <4>1. j \in 1 .. k - 1
        BY <3>3
      <4> QED BY <2>4, <2>5, <3>1, <4>1
    <3> QED BY <3>2, <3>3
  <2> QED BY <2>6, <2>7
<1>4. \E s \in [1 .. N -> S] : Up(s, N)
  <2>1. \A k \in 0 .. N : k \in G
    <3> HIDE DEF G
    <3> QED BY <1>1, <1>2, <1>3, Upward
  <2>2. N \in G
    BY <1>1, <2>1
  <2> HIDE DEF Up
  <2> QED BY <2>2 DEF N
<1> DEFINE q == InOrder(S)
<1>5. q \in [1 .. N -> S] /\ Up(q, N)
  <2>1. \A s \in [1 .. N -> S] : DOMAIN s = 1 .. N
    OBVIOUS
  <2>2. \E s \in [1 .. N -> S] : \A i, j \in DOMAIN s : i < j => s[i] < s[j]
    BY <1>4
  <2> DEFINE r == CHOOSE s \in [1 .. N -> S] : \A i, j \in DOMAIN s : i < j => s[i] < s[j]
  <2>3. r \in [1 .. N -> S] /\ \A i, j \in DOMAIN r : i < j => r[i] < r[j]
    BY <2>2
  <2>4. q = r
    BY DEF InOrder, N
  <2> HIDE DEF r, q
  <2> QED BY <2>1, <2>3, <2>4
<1> HIDE DEF q
<1>6. q \in Injection(1 .. N, S)
  <2>1. \A i, j \in 1 .. N : q[i] = q[j] => i = j
    <3> SUFFICES ASSUME NEW i \in 1 .. N, NEW j \in 1 .. N, q[i] = q[j] PROVE i = j
      OBVIOUS
    <3>0. q[i] \in S /\ q[j] \in S
      BY <1>5
    <3>1. q[i] \in Nat /\ q[j] \in Nat
      <4>1. \A y \in S : y \in Nat
        OBVIOUS
      <4> QED BY <3>0, <4>1
    <3>2. ~(i < j) /\ ~(j < i)
      BY <1>5, <3>1
    <3> QED BY <1>1, <3>2
  <2> QED BY <1>5, <2>1 DEF Injection, IsInjective
<1>7. q \in Surjection(1 .. N, S)
  <2>1. Cardinality(1 .. N) = N
    <3>1. \A a, b \in Int : Cardinality(a .. b) = IF a > b THEN 0 ELSE b - a + 1
      BY FS_Interval
    <3> QED BY <1>1, <3>1
  <2>2. Cardinality(1 .. N) = Cardinality(S)
    BY <2>1 DEF N
  <2> QED BY <1>0, <1>6, <2>2, FS_Injection
<1>8. \A x \in S : \E i \in 1 .. N : q[i] = x
  BY <1>7 DEF Surjection
<1> QED BY <1>1, <1>5, <1>8 DEF q, N

-----------------------------------------------------------------------------
(* What is true of a chart pane and its worker while nothing has settled:   *)
(* the commands on their way leave the worker with what the user and the    *)
(* chart say, and the events on their way leave the views with what the     *)
(* worker says.                                                             *)

Flight == worker.batch \o (Waiting(link) \o todo)
Coming == events \o out

Mirrors ==
  [loaded : BOOLEAN, src : Sources, values : Values \cup {Default, None}, known : Nat,
   synced : BOOLEAN, told : BOOLEAN, stale : BOOLEAN]
SlotsOK(n, f) ==
  /\ f = [slot \in DOMAIN f |-> f[slot]] /\ DOMAIN f \subseteq 0 .. n - 1
  /\ \A slot \in DOMAIN f : f[slot] \in Mirrors
HostOK(n, s) ==
  /\ s = [bars |-> s.bars, partial |-> s.partial, run |-> s.run, slots |-> s.slots]
  /\ s.bars \in Cuts /\ s.partial \in Prints /\ s.run \in Prints
  /\ SlotsOK(n, s.slots)
EventKinds == {"Rebuilt", "Appended", "Preview", "Lane", "Error", "ReloadFailed"}
Evs(cs)    == Seqn(cs) /\ \A i \in 1 .. Len(cs) : cs[i].ev \in EventKinds
IsView(v)  == v = View(v.src, v.rows, v.inputs, v.stale, v.preview, v.lane, v.error)

(* Every part has its shape. *)
WorkerOK(n, w) ==
  /\ w = [phase |-> w.phase, batch |-> w.batch, session |-> w.session]
  /\ w.phase \in {"idle", "publishing"} /\ w.batch \in Seq(Cmds(n)) /\ HostOK(n, w.session)
LaneOK(l) == l = [rungs |-> l.rungs, sent |-> l.sent] /\ l.rungs \in Nat
ShownOK   == \A slot \in DOMAIN views.shown : IsView(views.shown[slot])
PaneTyped ==
  /\ ChartOK(chart) /\ LaneOK(lane) /\ used.prints \in Nat
  /\ LinkOK(views.next, link) /\ WorkerOK(views.next, worker) /\ todo \in Seq(Cmds(views.next))
  /\ Evs(events) /\ Evs(out)
  /\ SlotsOK(views.next, wanted) /\ ShownOK

(* What is counted, and what each phase rules out. *)
PhasesKept ==
  /\ counts = [queued |-> counts.queued, inflight |-> counts.inflight,
               deferred |-> counts.deferred]
  /\ counts.queued = Len(link.chan) + Len(worker.batch)
  /\ worker.phase = "publishing" => (worker.batch = << >> /\ counts.inflight > 0)
  /\ counts.inflight \in Nat
  /\ worker.phase = "idle" => out = << >>
  /\ ui # "free" => todo = << >>
  /\ ui = "settled" => Quiet

(* The commands in flight leave each slot as the user wants it. *)
BindingsKept ==
  \A slot \in DOMAIN wanted :
    End(BindKind(slot), Known(worker.session.slots, slot), Flight) = Known(wanted, slot)

(* They leave the worker with the chart's series, or with whatever it was   *)
(* before the feed was switched.                                            *)
SeriesTrue(c, l, x) ==
  /\ x.bars = Bars(c) \/ (~c.opened /\ c.trades = << >>)
  /\ x.partial = Forming(c)
  /\ x.run = IF l.rungs = 0 THEN << >> ELSE Forming(c)
SeriesKept ==
  /\ SeriesTrue(chart, lane, End(SeriesKind, Series(worker.session), Flight))
  /\ lane.sent = Unsent(chart, lane.rungs)

(* The events on their way leave each view with what its slot runs.         *)
Follows(m, w) ==
  /\ w.there = "yes" /\ w.view.src = m.src /\ w.view.stale = m.stale
  /\ IF m.loaded THEN w.view.inputs = m.values ELSE w.view.error
Shown(slot)   == End(ViewKind(slot), Seen(views, slot), Coming)
ViewsFollow ==
  \A slot \in DOMAIN wanted \cap DOMAIN worker.session.slots :
    Follows(worker.session.slots[slot], Shown(slot))

(* And, where nothing on its way replays it all, with its rows.             *)
Agrees(m, s, w) ==
  /\ w.view.rows = Column(m.src, s.bars) /\ w.view.error = Failed(m.src, s.bars)
  /\ IF Failed(m.src, s.bars) THEN w.view.preview = << >> /\ w.view.lane = << >>
     ELSE w.view.preview = s.partial /\ w.view.lane \in {<< >>, s.run}
RowsFollow ==
  End(ReplayKind, "no", Flight) = "no" =>
    \A slot \in DOMAIN wanted \cap DOMAIN worker.session.slots :
      worker.session.slots[slot].loaded =>
        Agrees(worker.session.slots[slot], worker.session, Shown(slot))

(* The worker knows what it has sent. *)
InSync(m, s) ==
  m.loaded => m.synced /\ m.known = Len(Column(m.src, s.bars)) /\ m.told = Failed(m.src, s.bars)
HostSynced == \A slot \in DOMAIN worker.session.slots :
                InSync(worker.session.slots[slot], worker.session)

PaneKept ==
  /\ PaneInv /\ PaneTyped /\ PhasesKept
  /\ BindingsKept /\ SeriesKept /\ ViewsFollow /\ RowsFollow /\ HostSynced

-----------------------------------------------------------------------------
(* What leads nowhere else. *)

(* A command about a slot says nothing of the series, and the other way     *)
(* round.                                                                   *)
LEMMA BindSaysNoSeries ==
  ASSUME NEW c, c.op \in {"Add", "SetInputs", "Reload", "Remove"}, NEW x
  PROVE SeriesStep(x, c) = x /\ ~Replays(c)
BY DEF SeriesStep, Replays

(* A series command says nothing of any slot. *)
LEMMA SeriesSaysNoBinding ==
  ASSUME NEW c, c.op \in {"Backfilled", "Rebuild", "BarClosed", "PartialUpdated"}, NEW x, NEW slot
  PROVE BindStep(slot, x, c) = x
BY DEF BindStep, About

(* What once replays everything goes on doing so. *)
LEMMA ReplaysStay ==
  ASSUME NEW cs, Seqn(cs), NEW x, End(ReplayKind, x, cs) = "no"
  PROVE x # "yes"
<1>1. Len(cs) \in Nat
  BY SeqIs
<1>2. \A n \in 1 .. Len(cs) : Step(ReplayKind, "yes", cs[n]) = "yes"
  BY StepIs
<1>3. End(ReplayKind, "yes", cs) = "yes"
  BY <1>1, <1>2, EndStays
<1> QED BY <1>3

(* A reading of replays from "no" ends at one of the two. *)
LEMMA ReplaysIs ==
  ASSUME NEW cs, Seqn(cs), NEW x \in {"no", "yes"}
  PROVE End(ReplayKind, x, cs) \in {"no", "yes"}
<1>1. Len(cs) \in Nat
  BY SeqIs
<1> DEFINE X == {"no", "yes"}
<1>2. \A y \in X : \A n \in 1 .. Len(cs) : Step(ReplayKind, y, cs[n]) \in X
  BY StepIs
<1>3. x \in X
  OBVIOUS
<1> HIDE DEF X
<1>4. End(ReplayKind, x, cs) \in X
  BY <1>1, <1>2, <1>3, EndWithin
<1> QED BY <1>4 DEF X

(* The flight, typed. *)
LEMMA FlightIs ==
  ASSUME PaneTyped
  PROVE /\ worker.batch \in Seq(Cmds(views.next)) /\ Waiting(link) \in Seq(Cmds(views.next))
        /\ todo \in Seq(Cmds(views.next))
        /\ Waiting(link) \o todo \in Seq(Cmds(views.next))
        /\ Flight \in Seq(Cmds(views.next)) /\ Seqn(Flight)
        /\ Series(worker.session) \in Sers
        /\ End(SeriesKind, Series(worker.session), Flight) \in Sers
<1> DEFINE C == Cmds(views.next)
           a == worker.batch
           b == Waiting(link)
<1>1. a \in Seq(C) /\ todo \in Seq(C) /\ link.chan \in Seq(C) /\ link.parked \in Seq(C)
  BY DEF PaneTyped, WorkerOK, LinkOK
<1> HIDE DEF C
<1>2. b \in Seq(C)
  <2>1. \A s, t \in Seq(C) : s \o t \in Seq(C)
    BY Behind
  <2> QED BY <1>1, <2>1 DEF Waiting
<1> HIDE DEF a, b
<1>3. b \o todo \in Seq(C)
  BY <1>1, <1>2
<1>4. a \o (b \o todo) \in Seq(C)
  BY <1>1, <1>3
<1>5. Flight \in Seq(C)
  BY <1>4 DEF Flight, a, b
<1>6. Seqn(Flight)
  BY <1>5, SeqIs
<1>7. Series(worker.session) \in Sers
  BY DEF PaneTyped, WorkerOK, HostOK, Series, SeriesOf, Sers
<1>8. End(SeriesKind, Series(worker.session), Flight) \in Sers
  <2> DEFINE k == SeriesKind
             x == Series(worker.session)
             e == End(k, x, Flight)
  <2>1. Reads(k, x)
    BY <1>7 DEF Reads
  <2>2. Reads(k, e)
    BY <1>5, <2>1, ReadsOn DEF C
  <2>3. ReplayKind # SeriesKind /\ \A slot : BindKind(slot) # SeriesKind
    <3>1. SeriesKind.of = "series" /\ ReplayKind.of = "replays"
          /\ \A slot : BindKind(slot).of = "binding"
      BY DEF SeriesKind, ReplayKind, BindKind
    <3> QED BY <3>1
  <2> HIDE DEF e
  <2> QED BY <2>2, <2>3 DEF Reads, e
<1> QED BY <1>1, <1>2, <1>3, <1>5, <1>6, <1>7, <1>8 DEF C, a, b

(* A handler's commands go behind all that is on its way. *)
LEMMA FlightGrows ==
  ASSUME PaneTyped, todo = << >>, UNCHANGED <<worker, link>>, NEW m, todo' \in Seq(Cmds(m)),
         NEW k, NEW x
  PROVE End(k, x, Flight') = End(k, End(k, x, Flight), todo')
<1> DEFINE a == worker.batch
           b == Waiting(link)
           t == todo'
<1>1. Seqn(a) /\ Seqn(b) /\ Seqn(t) /\ Flight' = a \o (b \o t)
  <2>1. Flight' = a \o (b \o t)
    BY DEF Flight, Waiting
  <2> QED BY <2>1, FlightIs, SeqIs
<1> DEFINE z == << >>
<1>2. Flight = a \o (b \o z)
  BY DEF Flight
<1>z. Seqn(z) /\ \A y : End(k, y, z) = y
  BY NothingIsSeqn, EndNone
<1> HIDE DEF a, b, t, z
<1>3. Seqn(b \o t) /\ Seqn(b \o z)
  BY <1>1, <1>z, SeqnCat
<1>4. End(k, x, a \o (b \o t)) = End(k, End(k, x, a), b \o t)
  BY <1>1, <1>3, EndCat
<1>5. End(k, End(k, x, a), b \o t) = End(k, End(k, End(k, x, a), b), t)
  BY <1>1, EndCat
<1>6. End(k, x, a \o (b \o z)) = End(k, End(k, x, a), b \o z)
  BY <1>1, <1>3, EndCat
<1>7. End(k, End(k, x, a), b \o z) = End(k, End(k, End(k, x, a), b), z)
  BY <1>1, <1>z, EndCat
<1>8. End(k, End(k, End(k, x, a), b), z) = End(k, End(k, x, a), b)
  BY <1>z
<1> QED BY <1>1, <1>2, <1>4, <1>5, <1>6, <1>7, <1>8 DEF t

-----------------------------------------------------------------------------
(* What a handler's commands say. *)

(* Two commands, and three. *)
LEMMA EndTwo ==
  ASSUME NEW k, NEW x, NEW a, NEW b
  PROVE End(k, x, <<a, b>>) = Step(k, Step(k, x, a), b)
<1> DEFINE one == <<a>>
<1>1. Seqn(one) /\ End(k, x, one) = Step(k, x, a)
  BY SeqnOne, EndOne
<1>2. <<a, b>> = Append(one, b)
  OBVIOUS
<1> HIDE DEF one
<1>3. End(k, x, Append(one, b)) = Step(k, End(k, x, one), b)
  BY <1>1, EndAppend
<1> QED BY <1>1, <1>2, <1>3

(* Three. *)
LEMMA EndThree ==
  ASSUME NEW k, NEW x, NEW a, NEW b, NEW c
  PROVE End(k, x, <<a, b, c>>) = Step(k, Step(k, Step(k, x, a), b), c)
<1> DEFINE two == <<a, b>>
           S == {a, b}
<1>0. two \in Seq(S)
  OBVIOUS
<1>1. Seqn(two) /\ End(k, x, two) = Step(k, Step(k, x, a), b)
  <2>1. Seqn(two)
    BY <1>0, SeqIs
  <2>2. End(k, x, two) = Step(k, Step(k, x, a), b)
    BY EndTwo
  <2> HIDE DEF two
  <2> QED BY <2>1, <2>2
<1> DEFINE all == <<a, b, c>>
<1>2. all = Append(two, c)
  OBVIOUS
<1> HIDE DEF two, all
<1>3. End(k, x, Append(two, c)) = Step(k, End(k, x, two), c)
  BY <1>1, EndAppend
<1>4. End(k, x, all) = Step(k, Step(k, Step(k, x, a), b), c)
  BY <1>1, <1>2, <1>3, Zenon
<1> QED BY <1>4 DEF all

(* A chart that numbers more slots can have more on its way. *)
LEMMA CmdsGrow ==
  ASSUME NEW n \in Nat, NEW m \in Nat, n <= m
  PROVE Cmds(n) \subseteq Cmds(m)
<1>1. [op : {"Add"}, slot : 0 .. n - 1, src : Sources]
        \subseteq [op : {"Add"}, slot : 0 .. m - 1, src : Sources]
  OBVIOUS
<1> DEFINE A == [op : {"Backfilled"}, bars : Cuts]
           BB == [op : {"Rebuild"}, bars : Cuts, partial : Prints]
           CC == [op : {"BarClosed"}, bar : Prints]
           D == [op : {"PartialUpdated"}, partial : Prints, rungs : Nat, run : Prints]
           E1 == [op : {"Add"}, slot : 0 .. n - 1, src : Sources]
           E2 == [op : {"Add"}, slot : 0 .. m - 1, src : Sources]
           F == [op : {"SetInputs"}, slot : Nat, values : Values]
           G == [op : {"Reload"}, slot : Nat, src : Sources]
           H == [op : {"Remove"}, slot : Nat]
<1>2. Cmds(n) = A \cup BB \cup CC \cup D \cup E1 \cup F \cup G \cup H
      /\ Cmds(m) = A \cup BB \cup CC \cup D \cup E2 \cup F \cup G \cup H
  BY DEF Cmds
<1> HIDE DEF A, BB, CC, D, F, G, H
<1>3. E1 \subseteq E2
  BY <1>1
<1> HIDE DEF E1, E2
<1> QED BY <1>2, <1>3

(* So do the parts that are told from what can be on its way. *)
LEMMA PartsGrow ==
  ASSUME NEW n \in Nat, NEW m \in Nat, n <= m
  PROVE /\ \A q : LinkOK(n, q) => LinkOK(m, q)
        /\ \A w : WorkerOK(n, w) => WorkerOK(m, w)
        /\ \A f : SlotsOK(n, f) => SlotsOK(m, f)
<1>1. \A s : s \in Seq(Cmds(n)) => s \in Seq(Cmds(m))
  <2> DEFINE C == Cmds(n)
             D == Cmds(m)
  <2>1. C \subseteq D
    BY CmdsGrow
  <2> HIDE DEF C, D
  <2>2. \A s \in Seq(C) : s \in Seq(D)
    BY <2>1
  <2> QED BY <2>2 DEF C, D
<1>2. 0 .. n - 1 \subseteq 0 .. m - 1
  OBVIOUS
<1>3. \A f : SlotsOK(n, f) => SlotsOK(m, f)
  BY <1>2 DEF SlotsOK
<1>4. \A w : WorkerOK(n, w) => WorkerOK(m, w)
  BY <1>1, <1>3 DEF WorkerOK, HostOK
<1> QED BY <1>1, <1>3, <1>4 DEF LinkOK

(* The commands a series handler sends say nothing of any slot, and those   *)
(* of a slot's handler nothing of the series.                               *)
SeriesOps == {"Backfilled", "Rebuild", "BarClosed", "PartialUpdated"}
SlotOps   == {"Add", "SetInputs", "Reload", "Remove"}
Only(ops, cs) == \A i \in 1 .. Len(cs) : cs[i].op \in ops

(* Commands of the series alone leave every slot. *)
LEMMA SeriesOpsStay ==
  ASSUME NEW cs, Len(cs) \in Nat, Only(SeriesOps, cs), NEW slot, NEW x
  PROVE End(BindKind(slot), x, cs) = x
<1>1. \A i \in 1 .. Len(cs) : Step(BindKind(slot), x, cs[i]) = x
  <2> SUFFICES ASSUME NEW i \in 1 .. Len(cs) PROVE Step(BindKind(slot), x, cs[i]) = x
    OBVIOUS
  <2>1. BindStep(slot, x, cs[i]) = x
    BY SeriesSaysNoBinding DEF Only, SeriesOps
  <2> QED BY <2>1, BindIs
<1> QED BY <1>1, EndStays

(* Commands of slots alone leave the series. *)
LEMMA SlotOpsStay ==
  ASSUME NEW cs, Len(cs) \in Nat, Only(SlotOps, cs), NEW x
  PROVE End(SeriesKind, x, cs) = x /\ End(ReplayKind, x, cs) = x
<1>1. \A i \in 1 .. Len(cs) : Step(SeriesKind, x, cs[i]) = x
  <2> SUFFICES ASSUME NEW i \in 1 .. Len(cs) PROVE Step(SeriesKind, x, cs[i]) = x
    OBVIOUS
  <2>1. SeriesStep(x, cs[i]) = x
    BY BindSaysNoSeries DEF Only, SlotOps
  <2> QED BY <2>1, StepIs
<1>2. \A i \in 1 .. Len(cs) : Step(ReplayKind, x, cs[i]) = x
  <2> SUFFICES ASSUME NEW i \in 1 .. Len(cs) PROVE Step(ReplayKind, x, cs[i]) = x
    OBVIOUS
  <2>1. ~Replays(cs[i])
    BY BindSaysNoSeries DEF Only, SlotOps
  <2> QED BY <2>1, StepIs
<1>3. End(SeriesKind, x, cs) = x
  BY <1>1, EndStays
<1>4. End(ReplayKind, x, cs) = x
  BY <1>2, EndStays
<1> QED BY <1>3, <1>4

-----------------------------------------------------------------------------
(* What the user and the feed do. *)

(* The worker stands still while a handler runs. *)
Undisturbed ==
  /\ ui = "free" /\ todo = << >> /\ used'.prints \in Nat
  /\ UNCHANGED <<link, counts, worker, out, events, ui>>
  /\ views.next \in Nat /\ views'.next \in Nat /\ views.next <= views'.next
HandlerRuns == Undisturbed /\ todo' \in Seq(Cmds(views'.next))

(* A handler that leaves the parts their shape leaves the phases too. *)
LEMMA HandlerShape ==
  ASSUME PaneKept, HandlerRuns, ChartOK(chart'), LaneOK(lane'),
         SlotsOK(views'.next, wanted'), ShownOK'
  PROVE PaneTyped' /\ PhasesKept' /\ HostSynced'
<1>1. LinkOK(views'.next, link') /\ WorkerOK(views'.next, worker')
  BY PartsGrow DEF HandlerRuns, Undisturbed, PaneKept, PaneTyped
<1>2. Evs(events') /\ Evs(out')
  BY DEF HandlerRuns, Undisturbed, PaneKept, PaneTyped
<1>3. PaneTyped'
  BY <1>1, <1>2 DEF PaneTyped, HandlerRuns, Undisturbed
<1>4. PhasesKept'
  BY DEF PhasesKept, HandlerRuns, Undisturbed, PaneKept
<1>5. HostSynced'
  BY DEF HostSynced, HandlerRuns, Undisturbed, PaneKept
<1> QED BY <1>3, <1>4, <1>5

(* Where nothing on its way replays, nothing did before. *)
LEMMA NothingReplayed ==
  ASSUME PaneTyped, HandlerRuns, End(ReplayKind, "no", Flight') = "no"
  PROVE End(ReplayKind, "no", Flight) = "no"
<1> DEFINE x == End(ReplayKind, "no", Flight)
<1>1. End(ReplayKind, "no", Flight') = End(ReplayKind, x, todo')
  BY FlightGrows DEF HandlerRuns, Undisturbed
<1>2. x \in {"no", "yes"}
  BY FlightIs, ReplaysIs
<1> HIDE DEF x
<1>3. Seqn(todo')
  BY SeqIs DEF HandlerRuns, Undisturbed
<1>4. x # "yes"
  BY <1>1, <1>3, ReplaysStay
<1> QED BY <1>2, <1>4 DEF x

(* Views that are left alone go on following. *)
LEMMA ViewsLeft ==
  ASSUME PaneKept, HandlerRuns,
         \A slot \in DOMAIN wanted' \cap DOMAIN worker.session.slots :
           slot \in DOMAIN wanted /\ Seen(views', slot) = Seen(views, slot)
  PROVE ViewsFollow' /\ RowsFollow'
<1>1. ASSUME NEW slot \in DOMAIN wanted' \cap DOMAIN worker.session.slots
      PROVE slot \in DOMAIN wanted \cap DOMAIN worker.session.slots /\ Shown(slot)' = Shown(slot)
  <2>1. Coming' = Coming
    BY DEF HandlerRuns, Undisturbed, Coming
  <2>2. Seen(views', slot) = Seen(views, slot)
    BY <1>1
  <2> QED BY <1>1, <2>1, <2>2 DEF Shown
<1>2. worker' = worker
  BY DEF HandlerRuns, Undisturbed
<1>3. ViewsFollow'
  BY <1>1, <1>2 DEF ViewsFollow, PaneKept
<1>4. RowsFollow'
  BY <1>1, <1>2, NothingReplayed DEF RowsFollow, PaneKept
<1> QED BY <1>3, <1>4

(* A handler of the series. *)
LEMMA SeriesHandler ==
  ASSUME PaneKept, PaneInv', HandlerRuns, ChartOK(chart'), LaneOK(lane'), ShownOK',
         UNCHANGED wanted, views'.next = views.next, Only(SeriesOps, todo'),
         ViewsFollow', RowsFollow', lane'.sent = Unsent(chart', lane'.rungs),
         SeriesTrue(chart', lane',
                    End(SeriesKind, End(SeriesKind, Series(worker.session), Flight), todo'))
  PROVE PaneKept'
<1>1. PaneTyped' /\ PhasesKept' /\ HostSynced'
  <2>1. SlotsOK(views'.next, wanted')
    BY DEF PaneKept, PaneTyped
  <2> QED BY <2>1, HandlerShape
<1>2. BindingsKept'
  <2> SUFFICES ASSUME NEW slot \in DOMAIN wanted
               PROVE End(BindKind(slot), Known(worker.session.slots, slot), Flight')
                       = Known(wanted, slot)
    BY DEF BindingsKept, HandlerRuns, Undisturbed
  <2> DEFINE k == BindKind(slot)
             x == Known(worker.session.slots, slot)
  <2>0. End(k, x, Flight) = Known(wanted, slot)
    BY DEF BindingsKept, PaneKept
  <2>1. End(k, x, Flight') = End(k, End(k, x, Flight), todo')
    <3> HIDE DEF k, x
    <3> QED BY FlightGrows DEF HandlerRuns, Undisturbed, PaneKept
  <2>2. \A y : End(k, y, todo') = y
    <3>1. Len(todo') \in Nat
      BY DEF HandlerRuns, Undisturbed
    <3> QED BY <3>1, SeriesOpsStay
  <2> QED BY <2>0, <2>1, <2>2
<1>3. SeriesKept'
  <2> DEFINE k == SeriesKind
             x == Series(worker.session)
  <2>1. End(k, x, Flight') = End(k, End(k, x, Flight), todo')
    <3> HIDE DEF k, x
    <3> QED BY FlightGrows DEF HandlerRuns, Undisturbed, PaneKept
  <2>2. worker' = worker
    BY DEF HandlerRuns, Undisturbed
  <2> QED BY <2>1, <2>2 DEF SeriesKept
<1> QED BY <1>1, <1>2, <1>3 DEF PaneKept

(* A handler of one or more slots. *)
LEMMA SlotHandler ==
  ASSUME PaneKept, PaneInv', HandlerRuns, UNCHANGED <<chart, lane>>, ShownOK',
         SlotsOK(views'.next, wanted'), Only(SlotOps, todo'),
         \A slot \in DOMAIN wanted' : \A x :
           (slot \in DOMAIN wanted => x = Known(wanted, slot)) =>
             End(BindKind(slot), x, todo') = Known(wanted', slot),
         \A slot \in DOMAIN wanted' \cap DOMAIN worker.session.slots :
           slot \in DOMAIN wanted /\ Seen(views', slot) = Seen(views, slot)
  PROVE PaneKept'
<1>1. PaneTyped' /\ PhasesKept' /\ HostSynced'
  BY HandlerShape DEF PaneKept, PaneTyped
<1>2. ViewsFollow' /\ RowsFollow'
  BY ViewsLeft
<1>3. BindingsKept'
  <2> SUFFICES ASSUME NEW slot \in DOMAIN wanted'
               PROVE End(BindKind(slot), Known(worker.session.slots, slot), Flight')
                       = Known(wanted', slot)
    BY DEF BindingsKept, HandlerRuns, Undisturbed
  <2> DEFINE k == BindKind(slot)
             x == Known(worker.session.slots, slot)
             y == End(k, x, Flight)
  <2>0. slot \in DOMAIN wanted => y = Known(wanted, slot)
    BY DEF BindingsKept, PaneKept
  <2>1. End(k, x, Flight') = End(k, y, todo')
    <3> HIDE DEF k, x
    <3> QED BY FlightGrows DEF HandlerRuns, Undisturbed, PaneKept
  <2> HIDE DEF x, y
  <2>2. End(k, y, todo') = Known(wanted', slot)
    BY <2>0
  <2> QED BY <2>1, <2>2 DEF x
<1>4. SeriesKept'
  <2> DEFINE k == SeriesKind
             x == Series(worker.session)
  <2>1. End(k, x, Flight') = End(k, End(k, x, Flight), todo')
    <3> HIDE DEF k, x
    <3> QED BY FlightGrows DEF HandlerRuns, Undisturbed, PaneKept
  <2>2. worker' = worker
    BY DEF HandlerRuns, Undisturbed
  <2>3. \A y : End(k, y, todo') = y
    <3>1. Len(todo') \in Nat
      BY DEF HandlerRuns, Undisturbed
    <3> QED BY <3>1, SlotOpsStay
  <2> QED BY <2>1, <2>2, <2>3 DEF SeriesKept, PaneKept
<1> QED BY <1>1, <1>2, <1>3, <1>4 DEF PaneKept

(* Two series in one shape are one series. *)
LEMMA SeriesFields ==
  ASSUME NEW a, NEW b, NEW c
  PROVE /\ SeriesOf(a, b, c).bars = a /\ SeriesOf(a, b, c).partial = b
        /\ SeriesOf(a, b, c).run = c
BY DEF SeriesOf

(* A reading of the series ends at a series. *)
LEMMA SeriesEnds ==
  ASSUME NEW n, NEW cs \in Seq(Cmds(n)), NEW x \in Sers
  PROVE End(SeriesKind, x, cs) \in Sers /\ Seqn(cs)
<1>1. Seqn(cs) /\ Len(cs) \in Nat /\ \A i \in 1 .. Len(cs) : cs[i] \in Cmds(n)
  BY SeqIs
<1>2. ASSUME NEW y \in Sers, NEW i \in 1 .. Len(cs) PROVE Step(SeriesKind, y, cs[i]) \in Sers
  <2>1. SeriesStep(y, cs[i]) \in Sers
    BY <1>1, SeriesTyped
  <2> QED BY <2>1, StepIs
<1>3. End(SeriesKind, x, cs) \in Sers
  BY <1>1, <1>2, EndWithin
<1> QED BY <1>1, <1>3

(* What a handler that re-cuts, extends or empties the series leaves to be  *)
(* sent, closed by a forming-bar update.                                    *)
LEMMA Issued ==
  ASSUME NEW c, ChartOK(c), LaneOK(lane), NEW n, NEW cs \in Seq(Cmds(n)), NEW sent \in Nat,
         Issue(c, cs, sent), Only(SeriesOps, cs), NEW x \in Sers, NEW y, y = End(SeriesKind, x, cs),
         y.bars = Bars(c) \/ (~c.opened /\ c.trades = << >>),
         lane.rungs > 0 /\ Forming(c) # << >> =>
           y.run = SubSeq(Forming(c), 1, B!Least(sent, Len(Forming(c))))
  PROVE /\ ChartOK(chart') /\ LaneOK(lane') /\ lane'.sent = Unsent(chart', lane'.rungs)
        /\ todo' \in Seq(Cmds(n)) /\ Only(SeriesOps, todo')
        /\ SeriesTrue(chart', lane', End(SeriesKind, x, todo'))
<1> DEFINE C == Cmds(n)
           p == PartialCommand(c, lane.rungs, sent)
           r == lane.rungs
           u == Unsent(c, r)
           F == Forming(c)
           z == SeriesOf(y.bars, F, IF r = 0 THEN << >> ELSE F)
<1>1. y \in Sers /\ Seqn(cs) /\ r \in Nat
  BY SeriesEnds DEF LaneOK
<1>2. p \in C /\ p.op = "PartialUpdated" /\ SeriesStep(y, p) = z
  <2>1. PartialCommand(c, lane.rungs, sent) \in Cmds(n)
    BY <1>1, PartialSays
  <2>2. PartialCommand(c, lane.rungs, sent).op = "PartialUpdated"
    BY <1>1, PartialSays
  <2>3. SeriesStep(y, PartialCommand(c, lane.rungs, sent))
          = SeriesOf(y.bars, Forming(c), IF lane.rungs = 0 THEN << >> ELSE Forming(c))
    BY <1>1, PartialSays
  <2> QED BY <2>1, <2>2, <2>3
<1>3. chart' = c /\ todo' = Append(cs, p)
  BY DEF Issue
<1>4. lane' = [rungs |-> r, sent |-> u]
  <2>1. lane' = [lane EXCEPT !.sent = u]
    BY DEF Issue
  <2>2. lane = [rungs |-> lane.rungs, sent |-> lane.sent]
    BY DEF LaneOK
  <2> HIDE DEF u
  <2> QED BY <2>1, <2>2
<1> HIDE DEF p, r, u, F, C
<1>5. todo' \in Seq(C) /\ Len(todo') = Len(cs) + 1 /\ Len(cs) \in Nat
      /\ todo'[Len(cs) + 1] = p /\ \A i \in 1 .. Len(cs) : todo'[i] = cs[i]
  <2>1. cs \in Seq(C) /\ p \in C
    BY <1>2 DEF C
  <2> QED BY <1>3, <2>1
<1>6. Only(SeriesOps, todo')
  <2> SUFFICES ASSUME NEW i \in 1 .. Len(cs) + 1 PROVE todo'[i].op \in SeriesOps
    BY <1>5 DEF Only
  <2>1. CASE i = Len(cs) + 1
    BY <1>2, <1>5, <2>1 DEF SeriesOps
  <2>2. CASE i # Len(cs) + 1
    <3>1. i \in 1 .. Len(cs)
      BY <1>5, <2>2
    <3> QED BY <1>5, <3>1 DEF Only
  <2> QED BY <2>1, <2>2
<1>7. End(SeriesKind, x, todo') = z
  <2>1. End(SeriesKind, x, Append(cs, p)) = Step(SeriesKind, y, p)
    <3> HIDE DEF z
    <3> QED BY <1>1, EndAppend
  <2> HIDE DEF z
  <2> QED BY <1>2, <1>3, <2>1, StepIs
<1>8. LaneOK(lane') /\ lane'.rungs = r /\ lane'.sent = u
  BY <1>1, <1>4 DEF LaneOK
<1>9. lane'.sent = Unsent(chart', lane'.rungs)
  BY <1>3, <1>8 DEF u
<1>10. SeriesTrue(c, lane', z)
  BY <1>8, SeriesFields DEF SeriesTrue, F
<1> QED BY <1>3, <1>5, <1>6, <1>7, <1>8, <1>9, <1>10 DEF C

(* A handler that touches neither views nor what the user wants. *)
LEMMA ChartHandler ==
  ASSUME PaneKept, PaneInv', HandlerRuns, ChartOK(chart'), LaneOK(lane'),
         UNCHANGED <<views, wanted>>, Only(SeriesOps, todo'),
         lane'.sent = Unsent(chart', lane'.rungs),
         SeriesTrue(chart', lane',
                    End(SeriesKind, End(SeriesKind, Series(worker.session), Flight), todo'))
  PROVE PaneKept'
<1>1. ShownOK'
  BY DEF PaneKept, PaneTyped, ShownOK
<1>2. ViewsFollow' /\ RowsFollow'
  <2>1. \A slot \in DOMAIN wanted' \cap DOMAIN worker.session.slots :
          slot \in DOMAIN wanted /\ Seen(views', slot) = Seen(views, slot)
    BY DEF Seen
  <2> QED BY <2>1, ViewsLeft
<1> QED BY <1>1, <1>2, SeriesHandler

(* A handler that issues: as ChartHandler. *)
LEMMA IssuingHandler ==
  ASSUME PaneKept, PaneInv', Undisturbed, UNCHANGED <<views, wanted>>,
         NEW c, ChartOK(c), NEW cs \in Seq(Cmds(views.next)), NEW sent \in Nat,
         Issue(c, cs, sent), Only(SeriesOps, cs), NEW y,
         y = End(SeriesKind, End(SeriesKind, Series(worker.session), Flight), cs),
         y.bars = Bars(c) \/ (~c.opened /\ c.trades = << >>),
         lane.rungs > 0 /\ Forming(c) # << >> =>
           y.run = SubSeq(Forming(c), 1, B!Least(sent, Len(Forming(c))))
  PROVE PaneKept'
<1> DEFINE x == End(SeriesKind, Series(worker.session), Flight)
<1>1. x \in Sers
  BY FlightIs DEF PaneKept
<1>2. LaneOK(lane)
  BY DEF PaneKept, PaneTyped
<1>3. y = End(SeriesKind, x, cs)
  OBVIOUS
<1> HIDE DEF x
<1>4. /\ ChartOK(chart') /\ LaneOK(lane') /\ lane'.sent = Unsent(chart', lane'.rungs)
      /\ todo' \in Seq(Cmds(views.next)) /\ Only(SeriesOps, todo')
      /\ SeriesTrue(chart', lane', End(SeriesKind, x, todo'))
  BY <1>1, <1>2, <1>3, Issued
<1>5. HandlerRuns
  BY <1>4 DEF HandlerRuns
<1> QED BY <1>4, <1>5, ChartHandler DEF x

WorkerStands == UNCHANGED <<link, counts, worker, out, events, ui>>

(* What every handler starts from. *)
LEMMA HandlerBegins ==
  ASSUME PaneKept, UiFree, WorkerStands, NEW n \in Nat, Spend(n),
         views'.next \in Nat, views.next <= views'.next
  PROVE Undisturbed
<1>1. used'.prints = used.prints + n
  BY DEF Spend
<1>2. used.prints \in Nat /\ views.next \in Nat
  BY DEF PaneKept, PaneTyped, PaneInv, ViewsOK
<1>3. used'.prints \in Nat
  BY <1>1, <1>2
<1> QED BY <1>2, <1>3 DEF Undisturbed, UiFree, WorkerStands

(* And a handler of the series. *)
LEMMA ChartHandlerBegins ==
  ASSUME PaneKept, UiFree, WorkerStands, NEW n \in Nat, Spend(n), views'.next = views.next
  PROVE Undisturbed /\ views.next \in Nat
<1>1. views.next \in Nat
  BY DEF PaneKept, PaneTyped, PaneInv, ViewsOK
<1>2. views'.next \in Nat /\ views.next <= views'.next
  BY <1>1
<1> QED BY <1>1, <1>2, HandlerBegins

(* The series as the flight leaves it. *)
LEMMA Ahead ==
  ASSUME PaneKept
  PROVE LET x == End(SeriesKind, Series(worker.session), Flight) IN
        /\ x \in Sers /\ SeriesTrue(chart, lane, x) /\ lane.sent = Unsent(chart, lane.rungs)
        /\ ChartOK(chart) /\ LaneOK(lane)
BY FlightIs DEF PaneKept, SeriesKept, PaneTyped

(* A field of a chart replaced. *)
LEMMA ChartWith ==
  ASSUME NEW c, ChartOK(c), NEW t, NEW s
  PROVE /\ [c EXCEPT !.trades = t] = [trades |-> t, size |-> c.size, opened |-> c.opened]
        /\ [c EXCEPT !.size = s] = [trades |-> c.trades, size |-> s, opened |-> c.opened]
<1> DEFINE a == c.trades
           b == c.size
           d == c.opened
           e == [trades |-> a, size |-> b, opened |-> d]
<1>1. c = e
  BY DEF ChartOK
<1> HIDE DEF a, b, d
<1>2. [e EXCEPT !.trades = t] = [trades |-> t, size |-> b, opened |-> d]
  OBVIOUS
<1>3. [e EXCEPT !.size = s] = [trades |-> a, size |-> s, opened |-> d]
  OBVIOUS
<1> HIDE DEF e
<1>5. [c EXCEPT !.trades = t] = [trades |-> t, size |-> b, opened |-> d]
  BY <1>1, <1>2
<1>6. [c EXCEPT !.size = s] = [trades |-> a, size |-> s, opened |-> d]
  BY <1>1, <1>3
<1> QED BY <1>5, <1>6 DEF a, b, d

(* Two of them. *)
LEMMA ChartReopened ==
  ASSUME NEW c, ChartOK(c), NEW t, NEW o
  PROVE [c EXCEPT !.trades = t, !.opened = o] = [trades |-> t, size |-> c.size, opened |-> o]
<1> DEFINE f == [trades |-> t, size |-> c.size, opened |-> c.opened]
<1>1. [c EXCEPT !.trades = t] = f
  BY ChartWith
<1>2. [c EXCEPT !.trades = t, !.opened = o] = [[c EXCEPT !.trades = t] EXCEPT !.opened = o]
  OBVIOUS
<1>3. [f EXCEPT !.opened = o] = [trades |-> t, size |-> c.size, opened |-> o]
  OBVIOUS
<1> HIDE DEF f
<1> QED BY <1>1, <1>2, <1>3

(* A chart with other prints, or other bars, is a chart. *)
LEMMA Recut ==
  ASSUME ChartOK(chart), NEW trades \in Prints, NEW size \in Nat \ {0}, NEW opened \in BOOLEAN
  PROVE LET c == [trades |-> trades, size |-> size, opened |-> opened] IN
        ChartOK(c) /\ Bars(c) \in Cuts /\ Forming(c) \in Prints
<1> DEFINE c == [trades |-> trades, size |-> size, opened |-> opened]
<1>1. ChartOK(c)
  BY DEF ChartOK
<1> HIDE DEF c
<1>2. Bars(c) \in Cuts /\ Forming(c) \in Prints
  BY <1>1, SeriesIs
<1> QED BY <1>1, <1>2 DEF c

(* The prints a handler brings. *)
LEMMA FreshIs ==
  ASSUME PaneKept, NEW n \in Nat PROVE Fresh(n) \in Prints
<1>1. used.prints \in Nat
  BY DEF PaneKept, PaneTyped
<1>2. \A i \in 1 .. n : used.prints + i \in Nat
  BY <1>1
<1>3. [i \in 1 .. n |-> used.prints + i] \in Seq(Nat)
  BY <1>2, IsASeq
<1> QED BY <1>3 DEF Fresh, Prints

(* One command that replays everything, and the forming bar behind it.      *)
LEMMA OneReplay ==
  ASSUME PaneKept, PaneInv', Undisturbed, UNCHANGED <<views, wanted>>,
         NEW c, ChartOK(c), NEW cmd, cmd.op \in {"Backfilled", "Rebuild"}, cmd \in Cmds(views.next),
         cmd.bars = Bars(c), Issue(c, <<cmd>>, 0)
  PROVE PaneKept'
<1> DEFINE x == End(SeriesKind, Series(worker.session), Flight)
           cs == <<cmd>>
           y == End(SeriesKind, x, cs)
           C == Cmds(views.next)
<1>1. y = SeriesStep(x, cmd)
  BY EndOne, StepIs
<1>2. y.bars = Bars(c) /\ y.run = << >>
  <2>1. CASE cmd.op = "Backfilled"
    <3>1. y = SeriesOf(cmd.bars, << >>, << >>)
      BY <1>1, <2>1 DEF SeriesStep
    <3> QED BY <3>1, SeriesFields
  <2>2. CASE cmd.op = "Rebuild"
    <3>1. y = SeriesOf(cmd.bars, cmd.partial, << >>)
      BY <1>1, <2>2 DEF SeriesStep
    <3> QED BY <3>1, SeriesFields
  <2> QED BY <2>1, <2>2
<1>3. cs \in Seq(C) /\ Only(SeriesOps, cs)
  <2>1. cs \in Seq(C)
    OBVIOUS
  <2>2. Len(cs) = 1 /\ cs[1] = cmd
    BY SeqnOne
  <2> HIDE DEF cs
  <2> QED BY <2>1, <2>2 DEF Only, SeriesOps
<1>4. SubSeq(Forming(c), 1, B!Least(0, Len(Forming(c)))) = << >>
  <2> DEFINE F == Forming(c)
  <2>1. Forming(c) \in Prints /\ Len(Forming(c)) \in Nat
    <3>1. Forming(c) \in Prints
      BY SeriesIs
    <3> QED BY <3>1 DEF Prints
  <2>2. B!Least(0, Len(Forming(c))) = 0
    <3>1. \A a \in Nat : B!Least(0, a) = 0
      BY DEF B!Least
    <3> QED BY <2>1, <3>1
  <2>3. SubSeq(Forming(c), 1, 0) = << >>
    BY <2>1 DEF Prints
  <2> QED BY <2>2, <2>3
<1>5. Issue(c, cs, 0)
  OBVIOUS
<1> HIDE DEF cs, x
<1> HIDE DEF y
<1>6. y = End(SeriesKind, End(SeriesKind, Series(worker.session), Flight), cs)
  BY DEF y, x
<1> QED BY <1>2, <1>3, <1>4, <1>5, <1>6, IssuingHandler DEF C

(* Every bar cut anew. *)
LEMMA RebuildIs ==
  ASSUME NEW c, ChartOK(c), NEW n
  PROVE /\ RebuildCommand(c) \in Cmds(n) /\ RebuildCommand(c).op = "Rebuild"
        /\ RebuildCommand(c).bars = Bars(c)
<1>1. Bars(c) \in Cuts /\ Forming(c) \in Prints
  BY SeriesIs
<1> QED BY <1>1 DEF RebuildCommand, Cmds

(* The feed's one backfill. *)
LEMMA BackfillKeeps ==
  ASSUME PaneKept, PaneInv', WorkerStands, NEW n \in Nat, IngestBackfill(n)
  PROVE PaneKept'
<1> DEFINE T == chart.trades \o Fresh(n)
           c == [trades |-> T, size |-> chart.size, opened |-> TRUE]
           cmd == [op |-> "Backfilled", bars |-> Bars(c)]
<1>0. chart = [trades |-> chart.trades, size |-> chart.size, opened |-> chart.opened]
      /\ chart.trades \in Prints /\ chart.size \in Nat \ {0}
  BY Ahead DEF ChartOK
<1>1. T \in Prints
  <2>1. \A s, t \in Prints : s \o t \in Prints
    BY DEF Prints
  <2> QED BY <1>0, <2>1, FreshIs
<1>2. [chart EXCEPT !.trades = @ \o Fresh(n), !.opened = TRUE] = c
  <2>1. [chart EXCEPT !.trades = @ \o Fresh(n), !.opened = TRUE]
          = [chart EXCEPT !.trades = T, !.opened = TRUE]
    OBVIOUS
  <2> HIDE DEF T
  <2>0. ChartOK(chart)
    BY Ahead
  <2>2. [chart EXCEPT !.trades = T, !.opened = TRUE] = c
    BY <2>0, ChartReopened
  <2> QED BY <2>1, <2>2
<1> HIDE DEF T
<1>3. ChartOK(c) /\ Bars(c) \in Cuts
  BY <1>0, <1>1, Recut, Ahead
<1> HIDE DEF c
<1>4. /\ UiFree /\ Spend(n) /\ UNCHANGED <<views, wanted>>
      /\ Issue(c, <<cmd>>, 0)
  BY <1>2 DEF IngestBackfill
<1>5. cmd.op = "Backfilled" /\ cmd.bars = Bars(c) /\ cmd \in Cmds(views.next)
  BY <1>3 DEF Cmds
<1> HIDE DEF cmd
<1>6. Undisturbed
  BY <1>4, ChartHandlerBegins
<1> QED BY <1>3, <1>4, <1>5, <1>6, OneReplay

(* Another bar size. *)
LEMMA SpecKeeps ==
  ASSUME PaneKept, PaneInv', WorkerStands, NEW size \in Nat \ {0}, SetSpec(size)
  PROVE PaneKept'
<1> DEFINE c == [trades |-> chart.trades, size |-> size, opened |-> chart.opened]
           cmd == RebuildCommand(c)
<1>0. chart = [trades |-> chart.trades, size |-> chart.size, opened |-> chart.opened]
      /\ chart.trades \in Prints /\ chart.opened \in BOOLEAN
  BY Ahead DEF ChartOK
<1>2. [chart EXCEPT !.size = size] = c
  BY ChartWith, Ahead
<1>3. ChartOK(c)
  BY <1>0, Recut, Ahead
<1> HIDE DEF c
<1>4. /\ UiFree /\ Spend(0) /\ UNCHANGED <<views, wanted>>
      /\ Issue(c, <<cmd>>, 0)
  BY <1>2 DEF SetSpec, Rebuilds
<1>5. cmd.op = "Rebuild" /\ cmd.bars = Bars(c) /\ cmd \in Cmds(views.next)
  BY <1>3, RebuildIs
<1> HIDE DEF cmd
<1>6. Undisturbed
  BY <1>4, ChartHandlerBegins
<1> QED BY <1>3, <1>4, <1>5, <1>6, OneReplay

(* An emptied series has nothing forming. *)
LEMMA EmptiedIs ==
  ASSUME PaneKept, NEW c, c = [chart EXCEPT !.trades = << >>, !.opened = FALSE]
  PROVE ChartOK(c) /\ ~c.opened /\ c.trades = << >> /\ Forming(c) = << >>
<1> DEFINE d == [trades |-> << >>, size |-> chart.size, opened |-> FALSE]
<1>1. c = d
  BY ChartReopened, Ahead
<1>2. << >> \in Prints /\ chart.size \in Nat \ {0}
  BY Ahead DEF ChartOK, Prints
<1>3. ChartOK(d)
  BY <1>2, Recut, Ahead
<1>4. d.trades = << >> /\ ~d.opened
  OBVIOUS
<1> HIDE DEF d
<1>5. ChartOK(c) /\ ~c.opened /\ c.trades = << >>
  BY <1>1, <1>3, <1>4
<1>6. Forming(c) = << >>
  <2>1. Len(c.trades) = 0
    BY <1>5
  <2>2. Forming(c) \in Prints
    BY <1>5, SeriesIs
  <2>3. Len(Forming(c)) = Len(c.trades) - (Len(c.trades) \div c.size) * c.size
    BY <1>5, SeriesIs
  <2>4. (Len(c.trades) \div c.size) * c.size \in 0 .. Len(c.trades)
    BY <1>5, SeriesIs
  <2> DEFINE b == (Len(c.trades) \div c.size) * c.size
             F == Forming(c)
  <2>5. F \in Seq(Nat) /\ Len(F) = 0 - b /\ b \in 0 .. 0
    BY <2>1, <2>2, <2>3, <2>4 DEF Prints
  <2> HIDE DEF b, F
  <2>6. F = << >>
    BY <2>5
  <2> QED BY <2>6 DEF F
<1> QED BY <1>5, <1>6

(* The feed is switched. *)
LEMMA SwitchKeeps ==
  ASSUME PaneKept, PaneInv', WorkerStands, SwitchFeed
  PROVE PaneKept'
<1> DEFINE c == [chart EXCEPT !.trades = << >>, !.opened = FALSE]
           x == End(SeriesKind, Series(worker.session), Flight)
           cs == << >>
<1>1. ChartOK(c) /\ ~c.opened /\ c.trades = << >> /\ Forming(c) = << >>
  BY EmptiedIs
<1>2. UiFree /\ Spend(0) /\ UNCHANGED <<views, wanted>> /\ Issue(c, cs, 0)
  BY DEF SwitchFeed
<1>3. Undisturbed
  BY <1>2, ChartHandlerBegins
<1>4. cs \in Seq(Cmds(views.next)) /\ Only(SeriesOps, cs)
  BY DEF Only
<1>5. x = End(SeriesKind, x, cs)
  <2> HIDE DEF x
  <2> QED BY EndNone
<1> HIDE DEF c, cs
<1> QED BY <1>1, <1>2, <1>3, <1>4, <1>5, IssuingHandler

(* The source rewound. *)
LEMMA ResetKeeps ==
  ASSUME PaneKept, PaneInv', WorkerStands, ResetMarketState
  PROVE PaneKept'
<1> DEFINE c == [chart EXCEPT !.trades = << >>, !.opened = FALSE]
           x == End(SeriesKind, Series(worker.session), Flight)
           p == PartialCommand(c, lane.rungs, 0)
           r == RebuildCommand(c)
           cs == <<p, r>>
           y == End(SeriesKind, x, cs)
           C == Cmds(views.next)
<1>1. ChartOK(c) /\ ~c.opened /\ c.trades = << >> /\ Forming(c) = << >>
  BY EmptiedIs
<1>2. UiFree /\ Spend(0) /\ UNCHANGED <<views, wanted>> /\ Issue(c, cs, 0)
  BY DEF ResetMarketState
<1>3. Undisturbed
  BY <1>2, ChartHandlerBegins
<1>4. p \in C /\ p.op = "PartialUpdated"
  <2>1. x \in Sers /\ lane.rungs \in Nat
    BY Ahead DEF LaneOK
  <2> HIDE DEF c, x
  <2>2. PartialCommand(c, lane.rungs, 0) \in Cmds(views.next)
    BY <1>1, <2>1, PartialSays
  <2>3. PartialCommand(c, lane.rungs, 0).op = "PartialUpdated"
    BY <1>1, <2>1, PartialSays
  <2> QED BY <2>2, <2>3
<1>5. r \in C /\ r.op = "Rebuild" /\ r.bars = Bars(c)
  <2> HIDE DEF c
  <2> QED BY <1>1, RebuildIs
<1>6. y = Step(SeriesKind, Step(SeriesKind, x, p), r)
  <2> HIDE DEF p, r, x
  <2> QED BY EndTwo
<1> HIDE DEF p, r, C
<1>7. cs \in Seq(C) /\ Only(SeriesOps, cs)
  <2>1. cs \in Seq(C) /\ Len(cs) = 2 /\ cs[1] = p /\ cs[2] = r
    BY <1>4, <1>5
  <2> HIDE DEF cs
  <2>2. \A i \in 1 .. Len(cs) : i = 1 \/ i = 2
    BY <2>1
  <2> QED BY <1>4, <1>5, <2>1, <2>2 DEF Only, SeriesOps
<1>8. y.bars = Bars(c)
  <2> HIDE DEF y, c, x
  <2>1. \A z : SeriesStep(z, r) = SeriesOf(r.bars, r.partial, << >>)
    BY <1>5 DEF SeriesStep
  <2>2. y = SeriesOf(r.bars, r.partial, << >>)
    BY <1>6, <2>1, StepIs
  <2> QED BY <1>5, <2>2, SeriesFields
<1> HIDE DEF c, cs, y
<1>9. y = End(SeriesKind, End(SeriesKind, Series(worker.session), Flight), cs)
  BY DEF y
<1> HIDE DEF x
<1> QED BY <1>1, <1>2, <1>3, <1>7, <1>8, <1>9, IssuingHandler DEF C

(* The lane has another budget. *)
LEMMA RungsKeeps ==
  ASSUME PaneKept, PaneInv', WorkerStands, NEW rungs \in Nat, SetRungs(rungs)
  PROVE PaneKept'
<1> DEFINE sent == IF rungs = 0 THEN 0 ELSE lane.sent
           p == PartialCommand(chart, rungs, sent)
           x == End(SeriesKind, Series(worker.session), Flight)
           u == Unsent(chart, rungs)
           F == Forming(chart)
           cs == <<p>>
<1>1. UiFree /\ Spend(0) /\ UNCHANGED <<views, wanted, chart>>
      /\ todo' = <<p>> /\ lane' = [rungs |-> rungs, sent |-> u]
  BY DEF SetRungs
<1>2. Undisturbed /\ views.next \in Nat
  BY <1>1, ChartHandlerBegins
<1>3. /\ x \in Sers /\ ChartOK(chart) /\ F \in Prints /\ Len(F) \in Nat
      /\ x.bars = Bars(chart) \/ (~chart.opened /\ chart.trades = << >>)
      /\ x.partial = F /\ x.run = IF lane.rungs = 0 THEN << >> ELSE F
      /\ lane.sent = (IF lane.rungs = 0 THEN 0 ELSE Len(F))
  <2>1. F \in Prints
    BY Ahead, SeriesIs
  <2>2. Len(F) \in Nat
    BY <2>1 DEF Prints
  <2> QED BY <2>1, <2>2, Ahead DEF SeriesTrue, Unsent
<1>4. sent \in Nat
  BY <1>3
<1>5. rungs > 0 => x.run = SubSeq(F, 1, B!Least(sent, Len(F)))
  <2> HIDE DEF F, x
  <2>0. \A a \in Nat : B!Least(0, a) = 0 /\ B!Least(a, a) = a
    BY DEF B!Least
  <2>1. SubSeq(F, 1, 0) = << >> /\ SubSeq(F, 1, Len(F)) = F
    BY <1>3 DEF Prints
  <2>2. CASE lane.rungs = 0
    <3>1. x.run = << >> /\ B!Least(sent, Len(F)) = 0
      BY <1>3, <2>0, <2>2
    <3> QED BY <2>1, <3>1
  <2>3. CASE lane.rungs # 0 /\ rungs > 0
    <3>1. x.run = F /\ sent = Len(F)
      BY <1>3, <2>3
    <3>2. B!Least(sent, Len(F)) = Len(F)
      BY <1>3, <2>0, <3>1
    <3> QED BY <2>1, <3>1, <3>2
  <2> QED BY <2>2, <2>3
<1> DEFINE z == SeriesOf(x.bars, F, IF rungs = 0 THEN << >> ELSE F)
<1>6. p \in Cmds(views.next) /\ p.op = "PartialUpdated" /\ SeriesStep(x, p) = z
  <2> HIDE DEF x, sent
  <2>1. PartialCommand(chart, rungs, sent) \in Cmds(views.next)
    BY <1>3, <1>4, <1>5, PartialSays DEF F
  <2>2. PartialCommand(chart, rungs, sent).op = "PartialUpdated"
    BY <1>3, <1>4, <1>5, PartialSays DEF F
  <2>3. SeriesStep(x, PartialCommand(chart, rungs, sent))
          = SeriesOf(x.bars, Forming(chart), IF rungs = 0 THEN << >> ELSE Forming(chart))
    BY <1>3, <1>4, <1>5, PartialSays DEF F
  <2> QED BY <2>1, <2>2, <2>3
<1> HIDE DEF p, sent
<1>7. End(SeriesKind, x, cs) = z
  <2> HIDE DEF x, z
  <2> QED BY <1>6, EndOne, StepIs
<1>8. cs \in Seq(Cmds(views.next)) /\ Only(SeriesOps, cs)
  <2>1. cs \in Seq(Cmds(views.next))
    BY <1>6
  <2>2. Len(cs) = 1 /\ cs[1] = p
    BY SeqnOne
  <2> HIDE DEF cs
  <2> QED BY <1>6, <2>1, <2>2 DEF Only, SeriesOps
<1>9. lane'.rungs = rungs /\ lane'.sent = u /\ LaneOK(lane')
  BY <1>1 DEF LaneOK
<1>10. SeriesTrue(chart', lane', z)
  <2>0. chart' = chart
    BY <1>1
  <2> HIDE DEF u, x
  <2>1. z.bars = x.bars /\ z.partial = F /\ z.run = IF rungs = 0 THEN << >> ELSE F
    BY SeriesFields
  <2> HIDE DEF z
  <2> QED BY <1>3, <1>9, <2>0, <2>1 DEF SeriesTrue, F
<1>11. todo' = cs
  BY <1>1
<1> HIDE DEF cs, z
<1>12. /\ SeriesTrue(chart', lane', End(SeriesKind, x, todo')) /\ Only(SeriesOps, todo')
       /\ ChartOK(chart') /\ lane'.sent = Unsent(chart', lane'.rungs) /\ HandlerRuns
       /\ UNCHANGED <<views, wanted>>
  <2>1. lane'.sent = Unsent(chart', lane'.rungs)
    BY <1>1, <1>9
  <2>2. HandlerRuns
    BY <1>1, <1>2, <1>8, <1>11 DEF HandlerRuns
  <2>3. SeriesTrue(chart', lane', End(SeriesKind, x, todo'))
    <3> HIDE DEF x
    <3> QED BY <1>7, <1>10, <1>11
  <2>4. ChartOK(chart') /\ Only(SeriesOps, todo')
    BY <1>1, <1>3, <1>8, <1>11
  <2> QED BY <1>1, <2>1, <2>2, <2>3, <2>4
<1> QED BY <1>9, <1>12, ChartHandler

(* Live prints: the bars they close, one by one, and the forming bar. *)
LEMMA LiveKeeps ==
  ASSUME PaneKept, PaneInv', WorkerStands, NEW n \in Nat, IngestLive(n)
  PROVE PaneKept'
<1> DEFINE c == [chart EXCEPT !.trades = @ \o Fresh(n)]
           d == [trades |-> chart.trades \o Fresh(n), size |-> chart.size,
                 opened |-> chart.opened]
           closed == SubSeq(Bars(c), Len(Bars(chart)) + 1, Len(Bars(c)))
           cs == Closings(closed)
           sent == IF closed = << >> THEN lane.sent ELSE 0
           x == End(SeriesKind, Series(worker.session), Flight)
           y == End(SeriesKind, x, cs)
           F == Forming(chart)
           G == Forming(c)
<1>1. /\ UiFree /\ chart.opened /\ Spend(n) /\ UNCHANGED <<views, wanted>>
      /\ Issue(c, cs, sent)
  BY DEF IngestLive, Closings
<1>2. Undisturbed /\ views.next \in Nat
  BY <1>1, ChartHandlerBegins
<1>3. /\ x \in Sers /\ ChartOK(chart) /\ LaneOK(lane) /\ F \in Seq(Nat)
      /\ x.bars = Bars(chart) /\ Bars(chart) \in Cuts
      /\ x.partial = F /\ x.run = (IF lane.rungs = 0 THEN << >> ELSE F)
      /\ lane.sent = (IF lane.rungs = 0 THEN 0 ELSE Len(F))
  <2>1. F \in Seq(Nat) /\ Bars(chart) \in Cuts
    BY Ahead, SeriesIs DEF Prints
  <2> QED BY <1>1, <2>1, Ahead DEF SeriesTrue, Unsent
<1>4. c = d
  <2> DEFINE t == chart.trades \o Fresh(n)
  <2>1. c = [chart EXCEPT !.trades = t]
    OBVIOUS
  <2> HIDE DEF t
  <2>2. [chart EXCEPT !.trades = t]
          = [trades |-> t, size |-> chart.size, opened |-> chart.opened]
    BY <1>3, ChartWith
  <2> HIDE DEF c
  <2> QED BY <2>1, <2>2 DEF t
<1> HIDE DEF c
<1> HIDE DEF closed
<1>5. /\ ChartOK(c) /\ closed \in Cuts /\ Bars(c) = Bars(chart) \o closed
      /\ (closed = << >> => SubSeq(G, 1, B!Least(Len(F), Len(G))) = F)
  <2> DEFINE new == Fresh(n)
  <2>1. new \in Prints
    BY FreshIs
  <2>2. c = [trades |-> chart.trades \o new, size |-> chart.size, opened |-> chart.opened]
    BY <1>4
  <2>3. closed = SubSeq(Bars(c), Len(Bars(chart)) + 1, Len(Bars(c)))
    BY DEF closed
  <2> HIDE DEF new
  <2> QED BY <1>3, <2>1, <2>2, <2>3, Extended
<1>6. /\ cs \in Seq(Cmds(views.next)) /\ Only(SeriesOps, cs)
      /\ y = IF closed = << >> THEN x ELSE SeriesOf(x.bars \o closed, << >>, << >>)
  <2> HIDE DEF x
  <2>1. cs \in Seq(Cmds(views.next)) /\ Len(cs) = Len(closed)
    BY <1>3, <1>5, ClosedSays
  <2>2. \A i \in 1 .. Len(closed) : cs[i].op = "BarClosed"
    BY <1>3, <1>5, ClosedSays
  <2>3. y = IF closed = << >> THEN x ELSE SeriesOf(x.bars \o closed, << >>, << >>)
    BY <1>3, <1>5, ClosedSays
  <2>4. Only(SeriesOps, cs)
    BY <2>1, <2>2 DEF Only, SeriesOps
  <2> QED BY <2>1, <2>3, <2>4
<1> HIDE DEF cs, y
<1>7. G \in Seq(Nat) /\ Len(G) \in Nat /\ sent \in Nat
  <2>1. G \in Seq(Nat)
    BY <1>5, SeriesIs DEF Prints
  <2>2. Len(F) \in Nat
    BY <1>3
  <2> QED BY <1>3, <2>1, <2>2
<1>8. y.bars = Bars(c) /\ (lane.rungs > 0 => y.run = SubSeq(G, 1, B!Least(sent, Len(G))))
  <2> HIDE DEF x, F, G
  <2>1. CASE closed = << >>
    <3>1. Bars(chart) \o << >> = Bars(chart)
      <4> DEFINE A == Bars(chart)
                 Z == Seq(Nat)
      <4>1. A \in Seq(Z)
        BY <1>3 DEF Cuts
      <4> HIDE DEF A, Z
      <4>2. A \o << >> = A
        BY <4>1
      <4> QED BY <4>2 DEF A
    <3>2. y = x
      BY <1>6, <2>1
    <3>3. y.bars = Bars(c)
      BY <1>3, <1>5, <2>1, <3>1, <3>2
    <3>4. lane.rungs > 0 => y.run = F /\ sent = Len(F)
      BY <1>3, <2>1, <3>2 DEF LaneOK
    <3>5. lane.rungs > 0 => y.run = SubSeq(G, 1, B!Least(sent, Len(G)))
      BY <1>5, <2>1, <3>4
    <3> QED BY <3>3, <3>5
  <2>2. CASE closed # << >>
    <3> DEFINE q == x.bars \o closed
    <3>1. y = SeriesOf(q, << >>, << >>)
      BY <1>6, <2>2
    <3>2. q = Bars(c)
      BY <1>3, <1>5
    <3> HIDE DEF q
    <3>3. y.bars = Bars(c) /\ y.run = << >>
      BY <3>1, <3>2, SeriesFields
    <3>4. sent = 0
      BY <2>2
    <3>5. B!Least(sent, Len(G)) = 0
      <4>1. \A a \in Nat : B!Least(0, a) = 0
        BY DEF B!Least
      <4> QED BY <1>7, <3>4, <4>1
    <3>6. SubSeq(G, 1, 0) = << >>
      BY <1>7
    <3> QED BY <3>3, <3>5, <3>6
  <2> QED BY <2>1, <2>2
<1>9. y = End(SeriesKind, End(SeriesKind, Series(worker.session), Flight), cs)
  BY DEF y
<1> HIDE DEF x, sent
<1> QED BY <1>1, <1>2, <1>5, <1>6, <1>7, <1>8, <1>9, IssuingHandler DEF G

-----------------------------------------------------------------------------
(* Views. *)

Yes == TRUE

(* The fields of a view. *)
LEMMA ViewFields ==
  ASSUME NEW a, NEW b, NEW c, NEW d, NEW e, NEW f, NEW g
  PROVE /\ View(a, b, c, d, e, f, g).src = a /\ View(a, b, c, d, e, f, g).rows = b
        /\ View(a, b, c, d, e, f, g).inputs = c /\ View(a, b, c, d, e, f, g).stale = d
        /\ View(a, b, c, d, e, f, g).preview = e /\ View(a, b, c, d, e, f, g).lane = f
        /\ View(a, b, c, d, e, f, g).error = g /\ IsView(View(a, b, c, d, e, f, g))
BY DEF View, IsView

(* A view with other rows, another staleness, preview, lane or error. *)
LEMMA WithRows ==
  ASSUME NEW a, NEW b, NEW c, NEW d, NEW p, NEW l, NEW f, NEW x
  PROVE [View(a, b, c, d, p, l, f) EXCEPT !.rows = x] = View(a, x, c, d, p, l, f)
BY DEF View

(* Another staleness. *)
LEMMA WithStale ==
  ASSUME NEW a, NEW b, NEW c, NEW d, NEW p, NEW l, NEW f, NEW x
  PROVE [View(a, b, c, d, p, l, f) EXCEPT !.stale = x] = View(a, b, c, x, p, l, f)
BY DEF View

(* Another preview. *)
LEMMA WithPreview ==
  ASSUME NEW a, NEW b, NEW c, NEW d, NEW p, NEW l, NEW f, NEW x
  PROVE [View(a, b, c, d, p, l, f) EXCEPT !.preview = x] = View(a, b, c, d, x, l, f)
BY DEF View

(* Another lane. *)
LEMMA WithLane ==
  ASSUME NEW a, NEW b, NEW c, NEW d, NEW p, NEW l, NEW f, NEW x
  PROVE [View(a, b, c, d, p, l, f) EXCEPT !.lane = x] = View(a, b, c, d, p, x, f)
BY DEF View

(* Another error. *)
LEMMA WithError ==
  ASSUME NEW a, NEW b, NEW c, NEW d, NEW p, NEW l, NEW f, NEW x
  PROVE [View(a, b, c, d, p, l, f) EXCEPT !.error = x] = View(a, b, c, d, p, l, x)
BY DEF View

(* One event on a view, field by field. *)
LEMMA EventOnView ==
  ASSUME NEW v, IsView(v), NEW e, e.ev \in EventKinds \ {"Rebuilt"}, NEW w, w = ApplyToView(v, e)
  PROVE /\ IsView(w) /\ w.src = v.src /\ w.inputs = v.inputs
        /\ w.rows = IF e.ev = "Appended" THEN Append(v.rows, e.row) ELSE v.rows
        /\ IF e.ev = "ReloadFailed" THEN w.stale = Yes ELSE w.stale = v.stale
        /\ w.preview = IF e.ev \in {"Appended", "Error"} THEN << >>
                       ELSE IF e.ev = "Preview" THEN e.frame ELSE v.preview
        /\ w.lane = IF e.ev \in {"Appended", "Error"} THEN << >>
                    ELSE IF e.ev = "Lane" THEN e.samples ELSE v.lane
        /\ IF e.ev = "Error" THEN w.error = Yes ELSE w.error = v.error
<1> DEFINE a == v.src
           b == v.rows
           c == v.inputs
           d == v.stale
           p == v.preview
           l == v.lane
           f == v.error
           u == View(a, b, c, d, p, l, f)
<1>1. v = u
  BY DEF IsView
<1> HIDE DEF a, b, c, d, p, l, f
<1>2. CASE e.ev = "Appended"
  <2> DEFINE r == Append(b, e.row)
  <2>1. u.rows = b
    BY ViewFields
  <2>2. ApplyToView(u, e) = [u EXCEPT !.rows = Append(@, e.row), !.preview = << >>, !.lane = << >>]
    <3> HIDE DEF u
    <3> QED BY <1>2 DEF ApplyToView
  <2>3. [u EXCEPT !.rows = Append(@, e.row), !.preview = << >>, !.lane = << >>]
          = [u EXCEPT !.rows = r, !.preview = << >>, !.lane = << >>]
    <3> HIDE DEF u
    <3> QED BY <2>1
  <2> HIDE DEF r
  <2>4. [u EXCEPT !.rows = r, !.preview = << >>, !.lane = << >>] = View(a, r, c, d, << >>, << >>, f)
    <3>1. [u EXCEPT !.rows = r, !.preview = << >>, !.lane = << >>]
            = [[[u EXCEPT !.rows = r] EXCEPT !.preview = << >>] EXCEPT !.lane = << >>]
      <4> HIDE DEF u
      <4> QED OBVIOUS
    <3>2. [u EXCEPT !.rows = r] = View(a, r, c, d, p, l, f)
      BY WithRows, WithStale, WithPreview, WithLane, WithError
    <3>3. [View(a, r, c, d, p, l, f) EXCEPT !.preview = << >>] = View(a, r, c, d, << >>, l, f)
      BY WithRows, WithStale, WithPreview, WithLane, WithError
    <3>4. [View(a, r, c, d, << >>, l, f) EXCEPT !.lane = << >>]
            = View(a, r, c, d, << >>, << >>, f)
      BY WithRows, WithStale, WithPreview, WithLane, WithError
    <3> HIDE DEF u
    <3> QED BY <3>1, <3>2, <3>3, <3>4
  <2> HIDE DEF u
  <2>5. ApplyToView(v, e) = View(a, r, c, d, << >>, << >>, f)
    BY <1>1, <2>2, <2>3, <2>4
  <2>6. w = View(a, r, c, d, << >>, << >>, f)
    BY <2>5
  <2>7. /\ w.src = a /\ w.rows = r /\ w.inputs = c /\ w.stale = d
        /\ w.preview = << >> /\ w.lane = << >> /\ w.error = f /\ IsView(w)
    BY <2>6, ViewFields
  <2> QED BY <1>2, <2>7 DEF a, b, c, d, p, l, f, r
<1>3. CASE e.ev = "Preview"
  <2> DEFINE r == e.frame
  <2>1. ApplyToView(u, e) = [u EXCEPT !.preview = r]
    <3> HIDE DEF u
    <3> QED BY <1>3 DEF ApplyToView
  <2> HIDE DEF r
  <2>2. [u EXCEPT !.preview = r] = View(a, b, c, d, r, l, f)
    BY DEF View
  <2> HIDE DEF u
  <2>3. ApplyToView(v, e) = View(a, b, c, d, r, l, f)
    BY <1>1, <2>1, <2>2
  <2> QED BY <1>3, <2>3, ViewFields DEF a, b, c, d, p, l, f, r
<1>4. CASE e.ev = "Lane"
  <2> DEFINE r == e.samples
  <2>1. ApplyToView(u, e) = [u EXCEPT !.lane = r]
    <3> HIDE DEF u
    <3> QED BY <1>4 DEF ApplyToView
  <2> HIDE DEF r
  <2>2. [u EXCEPT !.lane = r] = View(a, b, c, d, p, r, f)
    BY DEF View
  <2> HIDE DEF u
  <2>3. ApplyToView(v, e) = View(a, b, c, d, p, r, f)
    BY <1>1, <2>1, <2>2
  <2> QED BY <1>4, <2>3, ViewFields DEF a, b, c, d, p, l, f, r
<1>5. CASE e.ev = "Error"
  <2>1. ApplyToView(u, e) = [u EXCEPT !.error = Yes, !.preview = << >>, !.lane = << >>]
    <3> HIDE DEF u
    <3> QED BY <1>5 DEF ApplyToView, Yes
  <2>2. [u EXCEPT !.error = Yes, !.preview = << >>, !.lane = << >>]
          = View(a, b, c, d, << >>, << >>, Yes)
    <3>1. [u EXCEPT !.error = Yes, !.preview = << >>, !.lane = << >>]
            = [[[u EXCEPT !.error = Yes] EXCEPT !.preview = << >>] EXCEPT !.lane = << >>]
      <4> HIDE DEF u
      <4> QED OBVIOUS
    <3>2. [u EXCEPT !.error = Yes] = View(a, b, c, d, p, l, Yes)
      BY WithRows, WithStale, WithPreview, WithLane, WithError
    <3>3. [View(a, b, c, d, p, l, Yes) EXCEPT !.preview = << >>]
            = View(a, b, c, d, << >>, l, Yes)
      BY WithRows, WithStale, WithPreview, WithLane, WithError
    <3>4. [View(a, b, c, d, << >>, l, Yes) EXCEPT !.lane = << >>]
            = View(a, b, c, d, << >>, << >>, Yes)
      BY WithRows, WithStale, WithPreview, WithLane, WithError
    <3> HIDE DEF u
    <3> QED BY <3>1, <3>2, <3>3, <3>4
  <2> HIDE DEF u
  <2>3. ApplyToView(v, e) = View(a, b, c, d, << >>, << >>, Yes)
    BY <1>1, <2>1, <2>2
  <2>6. w = View(a, b, c, d, << >>, << >>, Yes)
    BY <2>3
  <2>7. /\ w.src = a /\ w.rows = b /\ w.inputs = c /\ w.stale = d
        /\ w.preview = << >> /\ w.lane = << >> /\ w.error = Yes /\ IsView(w)
    BY <2>6, ViewFields
  <2> QED BY <1>5, <2>7 DEF Yes, a, b, c, d, p, l, f
<1>6. CASE e.ev = "ReloadFailed"
  <2>1. ApplyToView(u, e) = [u EXCEPT !.stale = Yes]
    <3> HIDE DEF u
    <3> QED BY <1>6 DEF ApplyToView, Yes
  <2>2. [u EXCEPT !.stale = Yes] = View(a, b, c, Yes, p, l, f)
    BY WithRows, WithStale, WithPreview, WithLane, WithError
  <2> HIDE DEF u
  <2>3. ApplyToView(v, e) = View(a, b, c, Yes, p, l, f)
    BY <1>1, <2>1, <2>2
  <2>6. w = View(a, b, c, Yes, p, l, f)
    BY <2>3
  <2>7. /\ w.src = a /\ w.rows = b /\ w.inputs = c /\ w.stale = Yes
        /\ w.preview = p /\ w.lane = l /\ w.error = f /\ IsView(w)
    BY <2>6, ViewFields
  <2> QED BY <1>6, <2>7 DEF Yes, a, b, c, d, p, l, f
<1> QED BY <1>2, <1>3, <1>4, <1>5, <1>6 DEF EventKinds

(* A view made anew. *)
LEMMA NewViewIs ==
  ASSUME NEW e, NEW w, w = NewView(e)
  PROVE /\ IsView(w) /\ w.src = e.src /\ w.rows = e.rows /\ w.inputs = e.inputs
        /\ w.stale = e.stale /\ w.preview = << >> /\ w.lane = << >> /\ w.error = ~Yes
BY DEF NewView, IsView, View, Yes

(* A view as it is seen. *)
Viewed(w) ==
  /\ w = [there |-> w.there, view |-> w.view] /\ w.there \in {"yes", "no"} /\ IsView(w.view)

(* What is seen of a slot is a view. *)
LEMMA SeenIs ==
  ASSUME ShownOK, NEW slot PROVE Viewed(Seen(views, slot))
<1>1. IsView(NoView)
  BY DEF NoView, View, IsView
<1>2. CASE slot \in DOMAIN views.shown
  <2>1. IsView(views.shown[slot])
    BY <1>2 DEF ShownOK
  <2> DEFINE u == views.shown[slot]
             w == [there |-> "yes", view |-> u]
  <2>2. Seen(views, slot) = w
    BY <1>2 DEF Seen
  <2> HIDE DEF u
  <2>3. w.there = "yes" /\ w.view = u /\ w = [there |-> w.there, view |-> w.view]
    OBVIOUS
  <2> HIDE DEF w
  <2>4. Viewed(w)
    BY <2>1, <2>3 DEF Viewed, u
  <2> QED BY <2>2, <2>4
<1>3. CASE slot \notin DOMAIN views.shown
  <2> DEFINE u == NoView
             w == [there |-> "no", view |-> u]
  <2>2. Seen(views, slot) = w
    BY <1>3 DEF Seen
  <2> HIDE DEF u
  <2>3. w.there = "no" /\ w.view = u /\ w = [there |-> w.there, view |-> w.view]
    OBVIOUS
  <2> HIDE DEF w
  <2>4. Viewed(w)
    BY <1>1, <2>3 DEF Viewed, u
  <2> QED BY <2>2, <2>4
<1> QED BY <1>2, <1>3

(* One event on what is seen of a slot. *)
LEMMA ViewStepIs ==
  ASSUME NEW slot, NEW w, Viewed(w), NEW e, e.ev \in EventKinds, NEW z, z = ViewStep(slot, w, e)
  PROVE /\ Viewed(z)
        /\ e.slot # slot => z = w
        /\ e.slot = slot /\ e.ev = "Rebuilt" => z.there = "yes" /\ z.view = NewView(e)
        /\ e.slot = slot /\ e.ev # "Rebuilt" /\ w.there = "no" => z = w
        /\ e.slot = slot /\ e.ev # "Rebuilt" /\ w.there = "yes" =>
             z.there = "yes" /\ z.view = ApplyToView(w.view, e)
<1>1. CASE e.slot # slot
  BY <1>1 DEF ViewStep
<1>2. CASE e.slot = slot /\ e.ev = "Rebuilt"
  <2> DEFINE v == NewView(e)
             u == [there |-> "yes", view |-> v]
  <2>1. z = u
    BY <1>2 DEF ViewStep
  <2>2. IsView(v)
    BY NewViewIs
  <2> HIDE DEF v
  <2>3. u.there = "yes" /\ u.view = v /\ u = [there |-> u.there, view |-> u.view]
    OBVIOUS
  <2> HIDE DEF u
  <2>4. Viewed(u)
    BY <2>2, <2>3 DEF Viewed
  <2> QED BY <1>2, <2>1, <2>3, <2>4 DEF v
<1>3. CASE e.slot = slot /\ e.ev # "Rebuilt" /\ w.there = "no"
  BY <1>3 DEF ViewStep
<1>4. CASE e.slot = slot /\ e.ev # "Rebuilt" /\ w.there = "yes"
  <2> DEFINE v == ApplyToView(w.view, e)
             u == [there |-> "yes", view |-> v]
  <2>1. z = u
    BY <1>4 DEF ViewStep
  <2>2. IsView(v)
    BY <1>4, EventOnView DEF Viewed
  <2> HIDE DEF v
  <2>3. u.there = "yes" /\ u.view = v /\ u = [there |-> u.there, view |-> u.view]
    OBVIOUS
  <2> HIDE DEF u
  <2>4. Viewed(u)
    BY <2>2, <2>3 DEF Viewed
  <2> QED BY <1>4, <2>1, <2>3, <2>4 DEF v
<1>5. w.there \in {"yes", "no"}
  BY DEF Viewed
<1> QED BY <1>1, <1>2, <1>3, <1>4, <1>5

(* Two views that differ at most in their rows, and in what is drawn over   *)
(* them, stay so whatever comes.                                            *)
Alike(w, z) ==
  /\ Viewed(w) /\ Viewed(z) /\ w.there = z.there
  /\ w.view.src = z.view.src /\ w.view.stale = z.view.stale
  /\ w.view.inputs = z.view.inputs /\ w.view.error = z.view.error

(* By one event. *)
LEMMA AlikeStep ==
  ASSUME NEW slot, NEW w, NEW z, Alike(w, z), NEW e, e.ev \in EventKinds
  PROVE Alike(ViewStep(slot, w, e), ViewStep(slot, z, e))
<1> DEFINE a == ViewStep(slot, w, e)
           b == ViewStep(slot, z, e)
           p == w.view
           q == z.view
<1>0. Viewed(w) /\ Viewed(z) /\ w.there = z.there /\ w.there \in {"yes", "no"}
  BY DEF Alike, Viewed
<1>1. a = ViewStep(slot, w, e) /\ b = ViewStep(slot, z, e)
  OBVIOUS
<1> HIDE DEF a, b
<1>2. Viewed(a) /\ Viewed(b)
  BY <1>0, <1>1, ViewStepIs
<1>3. CASE e.slot # slot
  <2>1. a = w /\ b = z
    BY <1>0, <1>1, <1>3, ViewStepIs
  <2> QED BY <2>1 DEF a, b
<1>4. CASE e.slot = slot /\ e.ev = "Rebuilt"
  <2>1. a.there = "yes" /\ a.view = NewView(e) /\ b.there = "yes" /\ b.view = NewView(e)
    BY <1>0, <1>1, <1>4, ViewStepIs
  <2>2. a.there = b.there
    BY <2>1
  <2> QED BY <1>2, <2>1, <2>2 DEF Alike, a, b
<1>5. CASE e.slot = slot /\ e.ev # "Rebuilt" /\ w.there = "no"
  <2>z. z.there = "no"
    BY <1>0, <1>5
  <2>a. a = w
    BY <1>0, <1>1, <1>5, ViewStepIs
  <2>b. b = z
    BY <1>0, <1>1, <1>5, <2>z, ViewStepIs
  <2>1. a = w /\ b = z
    BY <2>a, <2>b
  <2> QED BY <2>1 DEF a, b
<1>6. CASE e.slot = slot /\ e.ev # "Rebuilt" /\ w.there = "yes"
  <2>z. z.there = "yes"
    BY <1>0, <1>6
  <2>a. a.there = "yes" /\ a.view = ApplyToView(w.view, e)
    BY <1>0, <1>1, <1>6, ViewStepIs
  <2>b. b.there = "yes" /\ b.view = ApplyToView(z.view, e)
    BY <1>0, <1>1, <1>6, <2>z, ViewStepIs
  <2>1. /\ a.there = "yes" /\ a.view = ApplyToView(p, e)
        /\ b.there = "yes" /\ b.view = ApplyToView(q, e)
    BY <2>a, <2>b
  <2>2. a.there = b.there
    BY <2>1
  <2>3. e.ev \in EventKinds \ {"Rebuilt"}
    BY <1>6
  <2>4. IsView(p) /\ IsView(q)
    BY <1>0 DEF Viewed
  <2>5. /\ a.view.src = p.src /\ a.view.inputs = p.inputs
        /\ IF e.ev = "ReloadFailed" THEN a.view.stale = Yes ELSE a.view.stale = p.stale
        /\ IF e.ev = "Error" THEN a.view.error = Yes ELSE a.view.error = p.error
    BY <2>1, <2>3, <2>4, EventOnView
  <2>6. /\ b.view.src = q.src /\ b.view.inputs = q.inputs
        /\ IF e.ev = "ReloadFailed" THEN b.view.stale = Yes ELSE b.view.stale = q.stale
        /\ IF e.ev = "Error" THEN b.view.error = Yes ELSE b.view.error = q.error
    BY <2>1, <2>3, <2>4, EventOnView
  <2>7. p.src = q.src /\ p.stale = q.stale /\ p.inputs = q.inputs /\ p.error = q.error
    BY DEF Alike
  <2> QED BY <1>2, <2>2, <2>5, <2>6, <2>7 DEF Alike, a, b
<1> QED BY <1>0, <1>3, <1>4, <1>5, <1>6

(* By all that is to come. *)
LEMMA AlikeEnds ==
  ASSUME NEW slot, NEW w, NEW z, Alike(w, z), NEW cs, Evs(cs)
  PROVE Alike(End(ViewKind(slot), w, cs), End(ViewKind(slot), z, cs))
<1> DEFINE k == ViewKind(slot)
           L == Len(cs)
           a(n) == End(k, w, SubSeq(cs, 1, n))
           b(n) == End(k, z, SubSeq(cs, 1, n))
           G == {n \in 0 .. L : Alike(a(n), b(n))}
<1>1. Seqn(cs) /\ L \in Nat /\ \A i \in 1 .. L : cs[i].ev \in EventKinds
  BY SeqIs DEF Evs
<1>2. a(0) = w /\ b(0) = z /\ a(L) = End(k, w, cs) /\ b(L) = End(k, z, cs)
  BY <1>1, EndEnds
<1>3. \A n \in 1 .. L : a(n) = ViewStep(slot, a(n - 1), cs[n])
                        /\ b(n) = ViewStep(slot, b(n - 1), cs[n])
  <2> SUFFICES ASSUME NEW n \in 1 .. L
               PROVE a(n) = ViewStep(slot, a(n - 1), cs[n])
                     /\ b(n) = ViewStep(slot, b(n - 1), cs[n])
    OBVIOUS
  <2>1. a(n) = Step(k, a(n - 1), cs[n])
    BY <1>1, EndNext
  <2>2. b(n) = Step(k, b(n - 1), cs[n])
    BY <1>1, EndNext
  <2> HIDE DEF a, b
  <2>3. \A x, e : Step(k, x, e) = ViewStep(slot, x, e)
    BY StepIs
  <2> HIDE DEF k
  <2> QED BY <2>1, <2>2, <2>3
<1> HIDE DEF a, b
<1>4. 0 \in G
  BY <1>1, <1>2
<1>5. \A n \in 1 .. L : n - 1 \in G => n \in G
  <2> SUFFICES ASSUME NEW n \in 1 .. L, Alike(a(n - 1), b(n - 1)) PROVE Alike(a(n), b(n))
    BY <1>1
  <2>1. cs[n].ev \in EventKinds
    BY <1>1
  <2> QED BY <1>3, <2>1, AlikeStep
<1>6. \A n \in 0 .. L : n \in G
  <2> HIDE DEF G
  <2> QED BY <1>1, <1>4, <1>5, Upward
<1>7. Alike(a(L), b(L))
  BY <1>1, <1>6
<1> QED BY <1>2, <1>7

(* Events behind events. *)
LEMMA EvsCat == ASSUME NEW a, NEW b, Evs(a), Evs(b) PROVE Evs(a \o b)
<1> DEFINE c == a \o b
<1>0. Seqn(a) /\ Seqn(b)
  BY DEF Evs
<1>1. /\ Seqn(c) /\ Len(c) = Len(a) + Len(b) /\ Len(a) \in Nat /\ Len(b) \in Nat
      /\ \A i \in 1 .. Len(a) : c[i] = a[i]
      /\ \A i \in 1 .. Len(b) : c[Len(a) + i] = b[i]
  BY <1>0, SeqnCat
<1> HIDE DEF c
<1>2. ASSUME NEW i \in 1 .. Len(c) PROVE c[i].ev \in EventKinds
  <2>1. CASE i <= Len(a)
    BY <1>1, <2>1 DEF Evs
  <2>2. CASE i > Len(a)
    <3>1. i - Len(a) \in 1 .. Len(b) /\ i = Len(a) + (i - Len(a))
      BY <1>1, <2>2
    <3>2. c[i] = b[i - Len(a)]
      BY <1>1, <3>1
    <3> QED BY <3>1, <3>2 DEF Evs
  <2> QED BY <1>1, <2>1, <2>2
<1> QED BY <1>1, <1>2 DEF Evs, c

(* A nudged view keeps everything but its rows and what is drawn over them. *)
LEMMA ShiftedIs ==
  ASSUME NEW v, IsView(v), NEW added, NEW w, w = Shifted(v, added)
  PROVE /\ IsView(w) /\ w.src = v.src /\ w.stale = v.stale
        /\ w.inputs = v.inputs /\ w.error = v.error
<1> DEFINE a == v.src
           b == v.rows
           c == v.inputs
           d == v.stale
           p == v.preview
           l == v.lane
           f == v.error
           u == View(a, b, c, d, p, l, f)
           r == [i \in 1 .. added |-> None] \o b
<1>1. v = u
  BY DEF IsView
<1>2. w = [[v EXCEPT !.rows = r] EXCEPT !.preview = << >>]
  <2>1. w = [v EXCEPT !.rows = [i \in 1 .. added |-> None] \o @, !.preview = << >>]
    BY DEF Shifted
  <2>2. [v EXCEPT !.rows = [i \in 1 .. added |-> None] \o @, !.preview = << >>]
          = [v EXCEPT !.rows = r, !.preview = << >>]
    OBVIOUS
  <2> HIDE DEF r
  <2>3. [v EXCEPT !.rows = r, !.preview = << >>]
          = [[v EXCEPT !.rows = r] EXCEPT !.preview = << >>]
    OBVIOUS
  <2> QED BY <2>1, <2>2, <2>3
<1> HIDE DEF a, b, c, d, p, l, f, r
<1>3. [u EXCEPT !.rows = r] = View(a, r, c, d, p, l, f)
  BY WithRows
<1>4. [View(a, r, c, d, p, l, f) EXCEPT !.preview = << >>] = View(a, r, c, d, << >>, l, f)
  BY WithPreview
<1> HIDE DEF u
<1>5. w = View(a, r, c, d, << >>, l, f)
  BY <1>1, <1>2, <1>3, <1>4
<1>6. IsView(w) /\ w.src = a /\ w.stale = d /\ w.inputs = c /\ w.error = f
  BY <1>5, ViewFields
<1> QED BY <1>6 DEF a, c, d, f

(* Older prints: the views are nudged and everything is sent again. *)
LEMMA PrependKeeps ==
  ASSUME PaneKept, PaneInv', WorkerStands, NEW n \in Nat, PrependHistory(n)
  PROVE PaneKept'
<1> DEFINE T == Fresh(n) \o chart.trades
           c == [chart EXCEPT !.trades = Fresh(n) \o @]
           d == [trades |-> T, size |-> chart.size, opened |-> chart.opened]
           added == Len(Bars(c)) - Len(Bars(chart))
           x == End(SeriesKind, Series(worker.session), Flight)
           r == RebuildCommand(c)
           cs == <<r>>
<1>1. /\ UiFree /\ Spend(n) /\ wanted' = wanted /\ Issue(c, cs, 0)
      /\ \/ views' = views
         \/ views' = [views EXCEPT !.shown = [s \in DOMAIN @ |-> Shifted(@[s], added)]]
  BY DEF PrependHistory, Rebuilds
<1>2. ChartOK(c)
  <2>1. c = [chart EXCEPT !.trades = T]
    OBVIOUS
  <2>2. chart.trades \in Prints /\ chart.size \in Nat \ {0} /\ chart.opened \in BOOLEAN
        /\ ChartOK(chart)
    BY Ahead DEF ChartOK
  <2>3. T \in Prints
    <3>1. \A s, t \in Prints : s \o t \in Prints
      BY DEF Prints
    <3> QED BY <2>2, <3>1, FreshIs
  <2> HIDE DEF T
  <2>4. [chart EXCEPT !.trades = T] = d
    BY <2>2, ChartWith
  <2>5. ChartOK(d)
    BY <2>2, <2>3, Recut
  <2> QED BY <2>1, <2>4, <2>5
<1> HIDE DEF c, added
<1>3. /\ views'.next = views.next /\ DOMAIN views'.shown = DOMAIN views.shown
      /\ \A s \in DOMAIN views.shown :
           views'.shown[s] = views.shown[s] \/ views'.shown[s] = Shifted(views.shown[s], added)
  <2> DEFINE sh == [s \in DOMAIN views.shown |-> Shifted(views.shown[s], added)]
  <2>1. views = [shown |-> views.shown, pending |-> views.pending,
                 answered |-> views.answered, next |-> views.next]
    BY DEF PaneKept, PaneInv, ViewsOK
  <2>2. [views EXCEPT !.shown = [s \in DOMAIN @ |-> Shifted(@[s], added)]]
          = [views EXCEPT !.shown = sh]
    OBVIOUS
  <2>3. DOMAIN sh = DOMAIN views.shown
        /\ \A s \in DOMAIN views.shown : sh[s] = Shifted(views.shown[s], added)
    OBVIOUS
  <2> HIDE DEF sh
  <2>4. [views EXCEPT !.shown = sh].shown = sh /\ [views EXCEPT !.shown = sh].next = views.next
    BY <2>1
  <2> QED BY <1>1, <2>2, <2>3, <2>4
<1>4. Undisturbed /\ views.next \in Nat
  BY <1>1, <1>3, ChartHandlerBegins
<1>5. r \in Cmds(views.next) /\ r.op = "Rebuild" /\ r.bars = Bars(c)
  BY <1>2, RebuildIs
<1> HIDE DEF r
<1>6. cs \in Seq(Cmds(views.next)) /\ Only(SeriesOps, cs) /\ Seqn(cs)
  <2>1. cs \in Seq(Cmds(views.next))
    BY <1>5
  <2>2. Len(cs) = 1 /\ cs[1] = r /\ Seqn(cs)
    BY SeqnOne
  <2> HIDE DEF cs
  <2> QED BY <1>5, <2>1, <2>2 DEF Only, SeriesOps
<1>7. \A y : End(SeriesKind, y, cs) = SeriesOf(Bars(c), r.partial, << >>)
  <2> SUFFICES ASSUME NEW y
               PROVE End(SeriesKind, y, cs) = SeriesOf(Bars(c), r.partial, << >>)
    OBVIOUS
  <2>1. End(SeriesKind, y, cs) = SeriesStep(y, r)
    BY EndOne, StepIs
  <2> QED BY <1>5, <2>1 DEF SeriesStep
<1>8. \A y : End(ReplayKind, y, cs) = "yes"
  <2> SUFFICES ASSUME NEW y PROVE End(ReplayKind, y, cs) = "yes"
    OBVIOUS
  <2>1. End(ReplayKind, y, cs) = IF Replays(r) THEN "yes" ELSE y
    BY EndOne, StepIs
  <2> QED BY <1>5, <2>1 DEF Replays
<1> HIDE DEF cs
<1>9. SubSeq(Forming(c), 1, B!Least(0, Len(Forming(c)))) = << >>
  <2>1. Forming(c) \in Seq(Nat)
    BY <1>2, SeriesIs DEF Prints
  <2>2. \A a \in Nat : B!Least(0, a) = 0
    BY DEF B!Least
  <2> DEFINE F == Forming(c)
  <2> HIDE DEF F
  <2>3. Len(F) \in Nat /\ SubSeq(F, 1, 0) = << >>
    BY <2>1 DEF F
  <2>4. B!Least(0, Len(F)) = 0
    BY <2>2, <2>3
  <2> QED BY <2>3, <2>4 DEF F
<1> DEFINE y == End(SeriesKind, x, cs)
<1>10. y.bars = Bars(c) /\ y.run = << >>
  BY <1>7, SeriesFields
<1>11. /\ ChartOK(chart') /\ LaneOK(lane') /\ lane'.sent = Unsent(chart', lane'.rungs)
       /\ todo' \in Seq(Cmds(views.next)) /\ Only(SeriesOps, todo')
       /\ SeriesTrue(chart', lane', End(SeriesKind, x, todo'))
  <2>1. x \in Sers /\ LaneOK(lane)
    BY Ahead
  <2>2. y = End(SeriesKind, x, cs)
    OBVIOUS
  <2>3. /\ y.bars = Bars(c) \/ (~c.opened /\ c.trades = << >>)
        /\ lane.rungs > 0 /\ Forming(c) # << >> =>
             y.run = SubSeq(Forming(c), 1, B!Least(0, Len(Forming(c))))
    BY <1>9, <1>10
  <2> HIDE DEF y, x
  <2> QED BY <1>1, <1>2, <1>6, <2>1, <2>2, <2>3, Issued
<1>12. HandlerRuns
  BY <1>3, <1>4, <1>11 DEF HandlerRuns
<1>13. ShownOK'
  <2> SUFFICES ASSUME NEW s \in DOMAIN views.shown PROVE IsView(views'.shown[s])
    BY <1>3 DEF ShownOK
  <2>1. IsView(views.shown[s])
    BY DEF PaneKept, PaneTyped, ShownOK
  <2>2. IsView(Shifted(views.shown[s], added))
    BY <2>1, ShiftedIs
  <2> QED BY <1>3, <2>1, <2>2
<1>14. ViewsFollow'
  <2>0. worker' = worker /\ Coming' = Coming /\ Evs(Coming)
    <3>1. worker' = worker /\ Coming' = Coming
      BY <1>4 DEF Undisturbed, Coming
    <3>2. Evs(events) /\ Evs(out)
      BY DEF PaneKept, PaneTyped
    <3>3. Evs(Coming)
      BY <3>2, EvsCat DEF Coming
    <3> QED BY <3>1, <3>3
  <2> SUFFICES ASSUME NEW slot \in DOMAIN wanted \cap DOMAIN worker.session.slots
               PROVE Follows(worker.session.slots[slot], Shown(slot)')
    BY <1>1, <2>0 DEF ViewsFollow
  <2> DEFINE k == ViewKind(slot)
             w == Seen(views, slot)
             z == Seen(views', slot)
             m == worker.session.slots[slot]
  <2>1. Follows(m, End(k, w, Coming))
    BY DEF PaneKept, ViewsFollow, Shown
  <2>2. Alike(w, z)
    <3>1. CASE slot \notin DOMAIN views.shown
      <4>1. w = z
        BY <1>3, <3>1 DEF Seen
      <4>2. Viewed(w)
        BY SeenIs DEF PaneKept, PaneTyped
      <4> QED BY <4>1, <4>2 DEF Alike
    <3>2. CASE slot \in DOMAIN views.shown
      <4> DEFINE p == views.shown[slot]
                 q == views'.shown[slot]
      <4>1. IsView(p)
        BY <3>2 DEF PaneKept, PaneTyped, ShownOK
      <4>2. IsView(q) /\ q.src = p.src /\ q.stale = p.stale /\ q.inputs = p.inputs
            /\ q.error = p.error
        BY <1>3, <3>2, <4>1, ShiftedIs
      <4>3. w = [there |-> "yes", view |-> p] /\ z = [there |-> "yes", view |-> q]
        BY <1>3, <3>2 DEF Seen
      <4> HIDE DEF p, q, w, z
      <4>4. w.there = "yes" /\ w.view = p /\ w = [there |-> w.there, view |-> w.view]
        BY <4>3
      <4>5. z.there = "yes" /\ z.view = q /\ z = [there |-> z.there, view |-> z.view]
        BY <4>3
      <4> QED BY <4>1, <4>2, <4>4, <4>5 DEF Alike, Viewed
    <3> QED BY <3>1, <3>2
  <2>3. Alike(End(k, w, Coming), End(k, z, Coming))
    <3> HIDE DEF w, z
    <3> QED BY <2>0, <2>2, AlikeEnds
  <2>4. Shown(slot)' = End(k, z, Coming)
    BY <2>0 DEF Shown
  <2> HIDE DEF w, z
  <2>5. Follows(m, End(k, z, Coming))
    BY <2>1, <2>3 DEF Follows, Alike
  <2> QED BY <2>4, <2>5
<1>15. RowsFollow'
  <2>1. End(ReplayKind, "no", Flight') = "yes"
    <3> DEFINE y0 == End(ReplayKind, "no", Flight)
               p == PartialCommand(c, lane.rungs, 0)
    <3>1. End(ReplayKind, "no", Flight') = End(ReplayKind, y0, todo')
      BY <1>12, FlightGrows DEF HandlerRuns, Undisturbed, PaneKept
    <3> HIDE DEF y0
    <3>2. todo' = Append(cs, p)
      BY <1>1 DEF Issue
    <3> HIDE DEF p
    <3>3. End(ReplayKind, y0, Append(cs, p)) = Step(ReplayKind, End(ReplayKind, y0, cs), p)
      BY <1>6, EndAppend
    <3>4. Step(ReplayKind, "yes", p) = "yes"
      BY StepIs
    <3> QED BY <1>8, <3>1, <3>2, <3>3, <3>4
  <2> QED BY <2>1 DEF RowsFollow
<1> HIDE DEF x
<1> QED BY <1>1, <1>3, <1>11, <1>12, <1>13, <1>14, <1>15, SeriesHandler DEF x

-----------------------------------------------------------------------------
(* The handlers of a slot. *)

(* What is known of a slot that is there, and of one that is not. *)
LEMMA KnownIs ==
  ASSUME NEW f, NEW slot
  PROVE /\ slot \in DOMAIN f =>
             Known(f, slot) = Bound(f[slot].loaded, f[slot].src, f[slot].values, f[slot].stale)
        /\ slot \notin DOMAIN f => Known(f, slot) = Blank
BY DEF Known

(* The fields of a binding. *)
LEMMA BoundIs ==
  ASSUME NEW a, NEW b, NEW c, NEW d
  PROVE /\ Bound(a, b, c, d).there /\ Bound(a, b, c, d).loaded = a /\ Bound(a, b, c, d).src = b
        /\ Bound(a, b, c, d).values = c /\ Bound(a, b, c, d).stale = d
BY DEF Bound

(* A handler that sends one command of one slot. *)
LEMMA OneSlot ==
  ASSUME PaneKept, PaneInv', Undisturbed, UNCHANGED <<chart, lane>>, ShownOK',
         NEW c \in Cmds(views'.next), c.op \in SlotOps, todo' = <<c>>,
         SlotsOK(views'.next, wanted'),
         \A slot \in DOMAIN wanted' : \A x :
           (slot \in DOMAIN wanted => x = Known(wanted, slot)) =>
             BindStep(slot, x, c) = Known(wanted', slot),
         \A slot \in DOMAIN wanted' \cap DOMAIN worker.session.slots :
           slot \in DOMAIN wanted /\ Seen(views', slot) = Seen(views, slot)
  PROVE PaneKept'
<1> DEFINE cs == <<c>>
<1>1. cs \in Seq(Cmds(views'.next)) /\ Only(SlotOps, cs)
  <2>1. cs \in Seq(Cmds(views'.next))
    OBVIOUS
  <2>2. Len(cs) = 1 /\ cs[1] = c
    BY SeqnOne
  <2> HIDE DEF cs
  <2> QED BY <2>1, <2>2 DEF Only
<1>2. \A slot, x : End(BindKind(slot), x, cs) = BindStep(slot, x, c)
  <2> SUFFICES ASSUME NEW slot, NEW x PROVE End(BindKind(slot), x, cs) = BindStep(slot, x, c)
    OBVIOUS
  <2>1. End(BindKind(slot), x, cs) = Step(BindKind(slot), x, c)
    BY EndOne
  <2> HIDE DEF cs
  <2> QED BY <2>1, BindIs
<1>3. todo' = cs
  OBVIOUS
<1> HIDE DEF cs
<1>4. HandlerRuns
  BY <1>1, <1>3 DEF HandlerRuns
<1>5. \A slot \in DOMAIN wanted' : \A x :
        (slot \in DOMAIN wanted => x = Known(wanted, slot)) =>
          End(BindKind(slot), x, todo') = Known(wanted', slot)
  BY <1>2, <1>3
<1> QED BY <1>1, <1>3, <1>4, <1>5, SlotHandler

(* What a user asks of a slot for the first time. *)
LEMMA AskedIs ==
  ASSUME NEW src \in Sources
  PROVE /\ Asked(src) \in Mirrors
        /\ Asked(src).loaded = (src \notin Broken) /\ Asked(src).src = src
        /\ Asked(src).values = (IF src \in Broken THEN None ELSE Default)
        /\ Asked(src).stale = FALSE
BY DEF Asked, Mirror, Mirrors

(* A slot asked for. *)
LEMMA AddKeeps ==
  ASSUME PaneKept, PaneInv', WorkerStands, NEW src \in Sources, AddIndicator(src)
  PROVE PaneKept'
<1> DEFINE slot == views.next
           c == AddCommand(slot, src)
           a == Asked(src)
<1>1. /\ UiFree /\ Spend(0) /\ todo' = <<c>> /\ wanted' = With(wanted, slot, a)
      /\ UNCHANGED <<chart, lane>>
      /\ views' = [views EXCEPT !.next = @ + 1, !.pending = @ \cup {slot}]
  BY DEF AddIndicator
<1>2. views'.next = slot + 1 /\ views'.shown = views.shown /\ slot \in Nat
  <2>1. views = [shown |-> views.shown, pending |-> views.pending,
                 answered |-> views.answered, next |-> views.next]
        /\ slot \in Nat
    BY DEF PaneKept, PaneInv, ViewsOK
  <2> QED BY <1>1, <2>1
<1>3. SlotsOK(slot, wanted) /\ DOMAIN worker.session.slots \subseteq 0 .. slot - 1
  BY DEF PaneKept, PaneTyped, WorkerOK, HostOK, SlotsOK
<1>4. c.op = "Add" /\ c.slot = slot /\ c.src = src /\ c \in Cmds(slot + 1)
  <2> HIDE DEF slot
  <2>1. c = [op |-> "Add", slot |-> slot, src |-> src]
    BY DEF AddCommand
  <2>2. slot \in 0 .. (slot + 1) - 1
    BY <1>2
  <2> QED BY <2>1, <2>2 DEF Cmds
<1> HIDE DEF c, a, slot
<1>5. /\ DOMAIN wanted' = DOMAIN wanted \cup {slot} /\ wanted'[slot] = a
      /\ \A s \in DOMAIN wanted : s # slot /\ wanted'[s] = wanted[s]
      /\ wanted' = [s \in DOMAIN wanted' |-> wanted'[s]]
  <2>1. slot \notin DOMAIN wanted
    BY <1>2, <1>3 DEF SlotsOK
  <2> QED BY <1>1, <2>1 DEF With
<1>6. SlotsOK(slot + 1, wanted')
  <2>1. a \in Mirrors
    BY AskedIs DEF a
  <2>2. DOMAIN wanted' \subseteq 0 .. (slot + 1) - 1
    BY <1>2, <1>3, <1>5 DEF SlotsOK
  <2> QED BY <1>3, <1>5, <2>1, <2>2 DEF SlotsOK
<1>7. Undisturbed
  BY <1>1, <1>2, HandlerBegins DEF slot
<1>8. ShownOK'
  BY <1>2 DEF PaneKept, PaneTyped, ShownOK
<1>9. ASSUME NEW s \in DOMAIN wanted', NEW x, s \in DOMAIN wanted => x = Known(wanted, s)
      PROVE BindStep(s, x, c) = Known(wanted', s)
  <2>1. CASE s = slot
    <3>1. BindStep(s, x, c) = Bound(c.src \notin Broken, c.src,
                                    IF c.src \in Broken THEN None ELSE Default, FALSE)
      BY <1>4, <2>1 DEF BindStep, About
    <3>2. Known(wanted', s) = Bound(a.loaded, a.src, a.values, a.stale)
      BY <1>5, <2>1 DEF Known
    <3> QED BY <1>4, <3>1, <3>2, AskedIs DEF a
  <2>2. CASE s # slot
    <3>1. BindStep(s, x, c) = x
      BY <1>4, <2>2 DEF BindStep, About
    <3>2. Known(wanted', s) = Known(wanted, s) /\ s \in DOMAIN wanted
      BY <1>5, <2>2 DEF Known
    <3> QED BY <1>9, <3>1, <3>2
  <2> QED BY <2>1, <2>2
<1>10. ASSUME NEW s \in DOMAIN wanted' \cap DOMAIN worker.session.slots
       PROVE s \in DOMAIN wanted /\ Seen(views', s) = Seen(views, s)
  <2>1. s # slot
    BY <1>2, <1>3
  <2> QED BY <1>2, <1>5, <2>1 DEF Seen
<1>11. c.op \in SlotOps
  BY <1>4 DEF SlotOps
<1> QED BY <1>1, <1>2, <1>4, <1>6, <1>7, <1>8, <1>9, <1>10, <1>11, OneSlot

(* A handler that leaves the views alone. *)
LEMMA OneSlotUnseen ==
  ASSUME PaneKept, PaneInv', UiFree, Spend(0), WorkerStands, UNCHANGED <<chart, lane, views>>,
         NEW c, c \in Cmds(views.next), c.op \in SlotOps, todo' = <<c>>,
         SlotsOK(views.next, wanted'), DOMAIN wanted' = DOMAIN wanted,
         \A slot \in DOMAIN wanted : BindStep(slot, Known(wanted, slot), c) = Known(wanted', slot)
  PROVE PaneKept'
<1>1. Undisturbed
  BY ChartHandlerBegins
<1>2. ShownOK'
  BY DEF PaneKept, PaneTyped, ShownOK
<1>3. \A slot \in DOMAIN wanted' \cap DOMAIN worker.session.slots :
        slot \in DOMAIN wanted /\ Seen(views', slot) = Seen(views, slot)
  BY DEF Seen
<1> QED BY <1>1, <1>2, <1>3, OneSlot

(* What was asked of one slot, replaced. *)
LEMMA Replaced ==
  ASSUME NEW n, SlotsOK(n, wanted), NEW slot \in DOMAIN wanted, NEW m \in Mirrors,
         wanted' = [wanted EXCEPT ![slot] = m]
  PROVE /\ SlotsOK(n, wanted') /\ DOMAIN wanted' = DOMAIN wanted /\ wanted'[slot] = m
        /\ \A s \in DOMAIN wanted : s # slot => wanted'[s] = wanted[s]
        /\ \A s \in DOMAIN wanted : s # slot => Known(wanted', s) = Known(wanted, s)
<1>1. /\ wanted' = [s \in DOMAIN wanted' |-> wanted'[s]]
      /\ DOMAIN wanted' = DOMAIN wanted /\ wanted'[slot] = m
      /\ \A s \in DOMAIN wanted : s # slot => wanted'[s] = wanted[s]
  BY DEF SlotsOK
<1> QED BY <1>1 DEF SlotsOK, Known

(* A mirror with other values, or a stale one. *)
LEMMA MirrorIs ==
  ASSUME NEW m \in Mirrors, NEW v \in Values, NEW w, w = [m EXCEPT !.values = v]
  PROVE /\ w \in Mirrors /\ w.loaded = m.loaded /\ w.src = m.src
        /\ w.values = v /\ w.stale = m.stale
BY DEF Mirrors

(* A stale one. *)
LEMMA StaleMirrorIs ==
  ASSUME NEW m \in Mirrors, NEW w, w = [m EXCEPT !.stale = TRUE]
  PROVE /\ w \in Mirrors /\ w.loaded = m.loaded /\ w.src = m.src
        /\ w.values = m.values /\ w.stale = TRUE
BY DEF Mirrors

(* And its fields. *)
LEMMA MirrorFields ==
  ASSUME NEW m \in Mirrors
  PROVE /\ m.src \in Sources /\ m.values \in Values \cup {Default, None}
        /\ m.loaded \in BOOLEAN /\ m.stale \in BOOLEAN
BY DEF Mirrors

(* A mirror just made. *)
LEMMA FreshMirrorIs ==
  ASSUME NEW src \in Sources, NEW values \in Values \cup {Default, None}
  PROVE LET w == Mirror(TRUE, src, values) IN
        /\ w \in Mirrors /\ w.loaded = TRUE /\ w.src = src
        /\ w.values = values /\ w.stale = FALSE
BY DEF Mirror, Mirrors

(* Inputs set. *)
LEMMA InputsKeeps ==
  ASSUME PaneKept, PaneInv', WorkerStands, NEW slot, NEW v \in Values, ApplyInputs(slot, v)
  PROVE PaneKept'
<1> DEFINE c == [op |-> "SetInputs", slot |-> slot, values |-> v]
           m == [wanted[slot] EXCEPT !.values = v]
<1>1. /\ UiFree /\ Spend(0) /\ todo' = <<c>> /\ UNCHANGED <<chart, lane, views>>
      /\ slot \in DOMAIN views.shown /\ wanted' = [wanted EXCEPT ![slot].values = v]
  BY DEF ApplyInputs
<1>2. slot \in DOMAIN wanted
  BY <1>1 DEF PaneKept, PaneInv, Tracked
<1>3. SlotsOK(views.next, wanted) /\ wanted[slot] \in Mirrors /\ slot \in Nat
  BY <1>2 DEF PaneKept, PaneTyped, SlotsOK, PaneInv
<1>4. m \in Mirrors /\ m.loaded = wanted[slot].loaded /\ m.src = wanted[slot].src
      /\ m.values = v /\ m.stale = wanted[slot].stale
  <2> DEFINE w == wanted[slot]
  <2>1. w \in Mirrors /\ m = [w EXCEPT !.values = v]
    BY <1>3
  <2> HIDE DEF w, m
  <2>2. m \in Mirrors /\ m.loaded = w.loaded /\ m.src = w.src /\ m.values = v /\ m.stale = w.stale
    BY <2>1, MirrorIs
  <2> QED BY <2>2 DEF w
<1>5. wanted' = [wanted EXCEPT ![slot] = m]
  BY <1>1
<1>6. c.op = "SetInputs" /\ c.slot = slot /\ c.values = v /\ c \in Cmds(views.next)
  BY <1>3 DEF Cmds
<1> HIDE DEF c, m
<1>7. /\ SlotsOK(views.next, wanted') /\ DOMAIN wanted' = DOMAIN wanted /\ wanted'[slot] = m
      /\ \A s \in DOMAIN wanted : s # slot => Known(wanted', s) = Known(wanted, s)
  BY <1>2, <1>3, <1>4, <1>5, Replaced
<1>8. ASSUME NEW s \in DOMAIN wanted PROVE BindStep(s, Known(wanted, s), c) = Known(wanted', s)
  <2>1. CASE s = slot
    <3> DEFINE b == Known(wanted, s)
               w == wanted[slot]
    <3>1. b = Bound(w.loaded, w.src, w.values, w.stale)
      BY <1>2, <2>1, KnownIs
    <3>2. b.there /\ b.loaded = w.loaded /\ b.src = w.src /\ b.stale = w.stale
      BY <3>1, BoundIs
    <3> HIDE DEF b
    <3>3. BindStep(s, b, c) = Bound(b.loaded, b.src, v, b.stale)
      BY <1>6, <2>1, <3>2 DEF BindStep, About
    <3>4. Known(wanted', s) = Bound(m.loaded, m.src, m.values, m.stale)
      BY <1>2, <1>7, <2>1, KnownIs
    <3> QED BY <1>4, <3>2, <3>3, <3>4 DEF b
  <2>2. CASE s # slot
    <3>1. \A x : BindStep(s, x, c) = x
      BY <1>6, <2>2 DEF BindStep, About
    <3> QED BY <1>7, <2>2, <3>1
  <2> QED BY <2>1, <2>2
<1>9. c.op \in SlotOps
  BY <1>6 DEF SlotOps
<1> QED BY <1>1, <1>6, <1>7, <1>8, <1>9, OneSlotUnseen

(* A source reloaded. *)
LEMMA ReloadKeeps ==
  ASSUME PaneKept, PaneInv', WorkerStands, NEW slot, NEW src \in Sources, ReloadScript(slot, src)
  PROVE PaneKept'
<1> DEFINE c == [op |-> "Reload", slot |-> slot, src |-> src]
           w == wanted[slot]
           m == IF src \in Broken THEN [w EXCEPT !.stale = TRUE]
                ELSE Mirror(TRUE, src, Rebound(w.values))
<1>1. /\ UiFree /\ Spend(0) /\ todo' = <<c>> /\ UNCHANGED <<chart, lane, views>>
      /\ slot \in DOMAIN wanted
      /\ wanted' = [wanted EXCEPT ![slot] = IF src \in Broken THEN [@ EXCEPT !.stale = TRUE]
                                            ELSE Mirror(TRUE, src, Rebound(@.values))]
  BY DEF ReloadScript
<1>2. slot \in DOMAIN wanted
  BY <1>1
<1>3. SlotsOK(views.next, wanted) /\ w \in Mirrors /\ slot \in Nat
  BY <1>1 DEF PaneKept, PaneTyped, SlotsOK, PaneInv
<1>5. wanted' = [wanted EXCEPT ![slot] = m]
  BY <1>1
<1>6. c.op = "Reload" /\ c.slot = slot /\ c.src = src /\ c \in Cmds(views.next)
  BY <1>3 DEF Cmds
<1> HIDE DEF c, w
<1>4. /\ m \in Mirrors
      /\ (src \in Broken => m.loaded = w.loaded /\ m.src = w.src /\ m.values = w.values
                            /\ m.stale = TRUE)
      /\ (src \notin Broken => m.loaded = TRUE /\ m.src = src /\ m.values = Rebound(w.values)
                               /\ m.stale = FALSE)
  <2>1. CASE src \in Broken
    <3>1. m = [w EXCEPT !.stale = TRUE]
      BY <2>1
    <3> HIDE DEF m
    <3> QED BY <1>3, <2>1, <3>1, StaleMirrorIs
  <2>2. CASE src \notin Broken
    <3> DEFINE r == Rebound(w.values)
    <3>1. r \in Values \cup {Default, None}
      BY <1>3, MirrorFields DEF Rebound
    <3> HIDE DEF r
    <3>2. Mirror(TRUE, src, r) \in Mirrors /\ Mirror(TRUE, src, r).loaded = TRUE
          /\ Mirror(TRUE, src, r).src = src /\ Mirror(TRUE, src, r).values = r
          /\ Mirror(TRUE, src, r).stale = FALSE
      BY <3>1, FreshMirrorIs
    <3> QED BY <2>2, <3>2 DEF r
  <2> QED BY <2>1, <2>2
<1> HIDE DEF m
<1>7. /\ SlotsOK(views.next, wanted') /\ DOMAIN wanted' = DOMAIN wanted /\ wanted'[slot] = m
      /\ \A s \in DOMAIN wanted : s # slot => Known(wanted', s) = Known(wanted, s)
  BY <1>2, <1>3, <1>4, <1>5, Replaced
<1>8. ASSUME NEW s \in DOMAIN wanted PROVE BindStep(s, Known(wanted, s), c) = Known(wanted', s)
  <2>1. CASE s = slot
    <3> DEFINE b == Known(wanted, s)
    <3>1. b = Bound(w.loaded, w.src, w.values, w.stale)
      BY <1>2, <2>1, KnownIs DEF w
    <3>2. b.there /\ b.loaded = w.loaded /\ b.src = w.src /\ b.stale = w.stale
          /\ b.values = w.values
      BY <3>1, BoundIs
    <3> HIDE DEF b
    <3>3. BindStep(s, b, c) = IF src \in Broken THEN Bound(b.loaded, b.src, b.values, TRUE)
                              ELSE Bound(TRUE, src, Rebound(b.values), FALSE)
      BY <1>6, <2>1, <3>2 DEF BindStep, About
    <3>4. Known(wanted', s) = Bound(m.loaded, m.src, m.values, m.stale)
      BY <1>2, <1>7, <2>1, KnownIs
    <3> QED BY <1>4, <3>2, <3>3, <3>4 DEF b
  <2>2. CASE s # slot
    <3>1. \A x : BindStep(s, x, c) = x
      BY <1>6, <2>2 DEF BindStep, About
    <3> QED BY <1>7, <2>2, <3>1
  <2> QED BY <2>1, <2>2
<1>9. c.op \in SlotOps
  BY <1>6 DEF SlotOps
<1> QED BY <1>1, <1>6, <1>7, <1>8, <1>9, OneSlotUnseen

(* Slots taken away. *)
LEMMA Taken ==
  ASSUME PaneKept, NEW slots, views' = Forgotten(slots),
         wanted' = [s \in DOMAIN wanted \ slots |-> wanted[s]]
  PROVE /\ views'.next = views.next /\ ShownOK' /\ SlotsOK(views.next, wanted')
        /\ DOMAIN wanted' = DOMAIN wanted \ slots
        /\ \A s \in DOMAIN wanted' : Known(wanted', s) = Known(wanted, s)
        /\ \A s \in DOMAIN wanted' : s \in DOMAIN wanted /\ Seen(views', s) = Seen(views, s)
<1> DEFINE w == [shown |-> [s \in DOMAIN views.shown \ slots |-> views.shown[s]],
                 pending |-> views.pending \ slots, answered |-> views.answered,
                 next |-> views.next]
<1>0. views = [shown |-> views.shown, pending |-> views.pending,
               answered |-> views.answered, next |-> views.next]
  BY DEF PaneKept, PaneInv, ViewsOK
<1>1. views' = w
  BY <1>0 DEF Forgotten
<1>2. views'.next = views.next
      /\ DOMAIN views'.shown = DOMAIN views.shown \ slots
      /\ \A s \in DOMAIN views.shown \ slots : views'.shown[s] = views.shown[s]
  BY <1>1
<1>3. /\ DOMAIN wanted' = DOMAIN wanted \ slots
      /\ \A s \in DOMAIN wanted \ slots : wanted'[s] = wanted[s]
      /\ wanted' = [k \in DOMAIN wanted' |-> wanted'[k]]
  OBVIOUS
<1>4. ShownOK'
  BY <1>2 DEF PaneKept, PaneTyped, ShownOK
<1>5. SlotsOK(views.next, wanted')
  BY <1>3 DEF PaneKept, PaneTyped, SlotsOK
<1>6. \A s \in DOMAIN wanted' : Known(wanted', s) = Known(wanted, s)
  BY <1>3 DEF Known
<1>7. \A s \in DOMAIN wanted' : s \in DOMAIN wanted /\ Seen(views', s) = Seen(views, s)
  BY <1>2, <1>3 DEF Seen
<1> QED BY <1>2, <1>3, <1>4, <1>5, <1>6, <1>7

(* One slot taken away. *)
LEMMA RemoveKeeps ==
  ASSUME PaneKept, PaneInv', WorkerStands, NEW slot \in Nat, RemoveIndicator(slot)
  PROVE PaneKept'
<1> DEFINE c == [op |-> "Remove", slot |-> slot]
           slots == {slot}
<1>1. /\ UiFree /\ Spend(0) /\ todo' = <<c>> /\ UNCHANGED <<chart, lane>>
      /\ views' = Forgotten(slots) /\ wanted' = [s \in DOMAIN wanted \ slots |-> wanted[s]]
  BY DEF RemoveIndicator, Without
<1>2. c.op = "Remove" /\ c.slot = slot /\ c \in Cmds(views.next) /\ c.op \in SlotOps
  BY DEF Cmds, SlotOps
<1> HIDE DEF c, slots
<1>3. /\ views'.next = views.next /\ ShownOK' /\ SlotsOK(views.next, wanted')
      /\ DOMAIN wanted' = DOMAIN wanted \ slots
      /\ \A s \in DOMAIN wanted' : Known(wanted', s) = Known(wanted, s)
      /\ \A s \in DOMAIN wanted' : s \in DOMAIN wanted /\ Seen(views', s) = Seen(views, s)
  <2>1. views'.next = views.next /\ ShownOK' /\ SlotsOK(views.next, wanted')
        /\ DOMAIN wanted' = DOMAIN wanted \ slots
    BY <1>1, Taken
  <2>2. \A s \in DOMAIN wanted' : Known(wanted', s) = Known(wanted, s)
    BY <1>1, Taken
  <2>3. \A s \in DOMAIN wanted' : s \in DOMAIN wanted /\ Seen(views', s) = Seen(views, s)
    BY <1>1, Taken
  <2> QED BY <2>1, <2>2, <2>3
<1>4. Undisturbed
  BY <1>1, <1>3, ChartHandlerBegins
<1>5. ASSUME NEW s \in DOMAIN wanted', NEW x, s \in DOMAIN wanted => x = Known(wanted, s)
      PROVE BindStep(s, x, c) = Known(wanted', s)
  <2>1. s # slot
    BY <1>3 DEF slots
  <2>2. BindStep(s, x, c) = x
    BY <1>2, <2>1 DEF BindStep, About
  <2> QED BY <1>3, <1>5, <2>2
<1> QED BY <1>1, <1>2, <1>3, <1>4, <1>5, OneSlot

(* All that are shown taken away. *)
LEMMA ClearKeeps ==
  ASSUME PaneKept, PaneInv', WorkerStands, ClearIndicators
  PROVE PaneKept'
<1> DEFINE slots == DOMAIN views.shown
           N == Cardinality(slots)
           f(i) == [op |-> "Remove", slot |-> InOrder(slots)[i]]
           cs == [i \in 1 .. N |-> f(i)]
           C == Cmds(views.next)
<1>1. /\ UiFree /\ Spend(0) /\ todo' = cs /\ UNCHANGED <<chart, lane>>
      /\ views' = Forgotten(slots) /\ wanted' = [s \in DOMAIN wanted \ slots |-> wanted[s]]
  BY DEF ClearIndicators
<1>2. slots \subseteq 0 .. views.next /\ views.next \in Nat
  BY DEF PaneKept, PaneInv, Tracked, ViewsOK
<1> HIDE DEF slots
<1>3. N \in Nat /\ \A i \in 1 .. N : InOrder(slots)[i] \in slots
  <2>1. N \in Nat /\ InOrder(slots) \in [1 .. N -> slots]
    BY <1>2, Ordered
  <2> QED BY <2>1
<1>4. \A i \in 1 .. N : f(i) \in C /\ f(i).op = "Remove" /\ f(i).slot \in slots
  <2>1. ASSUME NEW i \in 1 .. N PROVE f(i) \in C
    <3> DEFINE s == InOrder(slots)[i]
    <3>0. s \in slots
      BY <1>3
    <3> HIDE DEF s
    <3>1. s \in Nat
      BY <1>2, <3>0
    <3>2. [op |-> "Remove", slot |-> s] \in C
      BY <3>1 DEF Cmds
    <3> QED BY <3>2 DEF s
  <2>2. \A i \in 1 .. N : f(i).op = "Remove" /\ f(i).slot \in slots
    BY <1>3
  <2> HIDE DEF f
  <2> QED BY <2>1, <2>2
<1> HIDE DEF f, C, N
<1>5. cs \in Seq(C) /\ Len(cs) = N /\ \A i \in 1 .. N : cs[i] = f(i)
  <2>1. cs \in Seq(C)
    BY <1>3, <1>4, IsASeq
  <2> QED BY <1>3, <2>1
<1> HIDE DEF cs
<1>6. Only(SlotOps, cs) /\ Len(cs) \in Nat
  BY <1>3, <1>4, <1>5 DEF Only, SlotOps
<1>7. /\ views'.next = views.next /\ ShownOK' /\ SlotsOK(views.next, wanted')
      /\ DOMAIN wanted' = DOMAIN wanted \ slots
      /\ \A s \in DOMAIN wanted' : Known(wanted', s) = Known(wanted, s)
      /\ \A s \in DOMAIN wanted' : s \in DOMAIN wanted /\ Seen(views', s) = Seen(views, s)
  <2>1. views'.next = views.next /\ ShownOK' /\ SlotsOK(views.next, wanted')
        /\ DOMAIN wanted' = DOMAIN wanted \ slots
    BY <1>1, Taken
  <2>2. \A s \in DOMAIN wanted' : Known(wanted', s) = Known(wanted, s)
    BY <1>1, Taken
  <2>3. \A s \in DOMAIN wanted' : s \in DOMAIN wanted /\ Seen(views', s) = Seen(views, s)
    BY <1>1, Taken
  <2> QED BY <2>1, <2>2, <2>3
<1>8. Undisturbed
  BY <1>1, <1>7, ChartHandlerBegins
<1>9. HandlerRuns
  BY <1>1, <1>5, <1>7, <1>8 DEF HandlerRuns, C
<1>10. ASSUME NEW s \in DOMAIN wanted', NEW x, s \in DOMAIN wanted => x = Known(wanted, s)
       PROVE End(BindKind(s), x, todo') = Known(wanted', s)
  <2>1. \A i \in 1 .. Len(cs) : Step(BindKind(s), x, cs[i]) = x
    <3> SUFFICES ASSUME NEW i \in 1 .. Len(cs) PROVE Step(BindKind(s), x, cs[i]) = x
      OBVIOUS
    <3>1. cs[i].op = "Remove" /\ cs[i].slot # s
      BY <1>4, <1>5, <1>7
    <3>2. BindStep(s, x, cs[i]) = x
      BY <3>1 DEF BindStep, About
    <3> QED BY <3>2, BindIs
  <2>2. End(BindKind(s), x, cs) = x
    BY <1>6, <2>1, EndStays
  <2> QED BY <1>1, <1>7, <1>10, <2>2
<1> QED BY <1>1, <1>6, <1>7, <1>9, <1>10, SlotHandler

(* Whatever the user or the feed does. *)
LEMMA UserKeeps == ASSUME PaneKept, UserStep PROVE PaneKept'
<1>1. PaneInv'
  BY UserStepKeeps DEF PaneKept
<1>2. WorkerStands
  BY DEF UserStep, WorkerStands
<1>3. ASSUME NEW src \in Sources, AddIndicator(src) PROVE PaneKept'
  BY <1>1, <1>2, <1>3, AddKeeps
<1>4. ASSUME NEW slot \in Slots, NEW v \in Values, ApplyInputs(slot, v) PROVE PaneKept'
  BY <1>1, <1>2, <1>4, InputsKeeps
<1>5. ASSUME NEW slot \in Slots, NEW src \in Sources, ReloadScript(slot, src) PROVE PaneKept'
  BY <1>1, <1>2, <1>5, ReloadKeeps
<1>6. ASSUME NEW slot \in Slots, RemoveIndicator(slot) PROVE PaneKept'
  BY <1>1, <1>2, <1>6, RemoveKeeps, PaneAssumption
<1>7. CASE ClearIndicators
  BY <1>1, <1>2, <1>7, ClearKeeps
<1>8. ASSUME NEW n \in Backfills, IngestBackfill(n) PROVE PaneKept'
  BY <1>1, <1>2, <1>8, BackfillKeeps, PaneAssumption
<1>9. ASSUME NEW n \in 1 .. 2, IngestLive(n) PROVE PaneKept'
  BY <1>1, <1>2, <1>9, LiveKeeps
<1>10. CASE PrependHistory(1)
  BY <1>1, <1>2, <1>10, PrependKeeps
<1>11. ASSUME NEW size \in BarSizes, SetSpec(size) PROVE PaneKept'
  BY <1>1, <1>2, <1>11, SpecKeeps, PaneAssumption
<1>12. CASE SwitchFeed
  BY <1>1, <1>2, <1>12, SwitchKeeps
<1>13. CASE ResetMarketState
  BY <1>1, <1>2, <1>13, ResetKeeps
<1>14. ASSUME NEW rungs \in Rungs, SetRungs(rungs) PROVE PaneKept'
  BY <1>1, <1>2, <1>14, RungsKeeps, PaneAssumption
<1> QED BY <1>3, <1>4, <1>5, <1>6, <1>7, <1>8, <1>9, <1>10, <1>11, <1>12, <1>13, <1>14
        DEF UserStep

-----------------------------------------------------------------------------
(* A pane opens. *)

(* What the layout restores is asked for, and where the pane is seeded the  *)
(* whole series is.                                                         *)
LEMMA Opens ==
  ASSUME PaneInit
  PROVE /\ todo \in Seq(Cmds(1)) /\ ChartOK(chart)
        /\ \A slot \in {0} : End(BindKind(slot), Blank, todo) = Known(wanted, slot)
        /\ SeriesTrue(chart, lane, End(SeriesKind, SeriesOf(<< >>, << >>, << >>), todo))
        /\ SlotsOK(1, wanted) /\ DOMAIN wanted = {0}
<1> DEFINE x == SeriesOf(<< >>, << >>, << >>)
           p == PartialCommand(chart, 0, 0)
           r == RebuildCommand(chart)
           C == Cmds(1)
<1>1. PICK src \in Sources :
        /\ wanted = [slot \in {0} |-> Asked(src)]
        /\ \/ /\ chart \in [trades : {<< >>}, size : BarSizes, opened : {FALSE}]
              /\ todo = <<AddCommand(0, src)>>
           \/ /\ chart \in [trades : Seeds, size : BarSizes, opened : {TRUE}]
              /\ todo = <<AddCommand(0, src), r, p>>
  BY DEF PaneInit
<1>2. ChartOK(chart)
  <2>1. << >> \in Prints /\ Seeds \subseteq Prints
    BY PaneAssumption DEF Prints
  <2> QED BY <1>1, <2>1, PaneAssumption DEF ChartOK
<1>3. lane.rungs = 0
  BY DEF PaneInit
<1> DEFINE a == AddCommand(0, src)
<1>4. a \in C /\ a.op = "Add" /\ a.slot = 0 /\ a.src = src
  BY DEF AddCommand, Cmds
<1> HIDE DEF a, C, p, r
<1>5. x \in Sers /\ x.run = << >> /\ x.bars = << >> /\ x.partial = << >>
  BY DEF SeriesOf, Sers, Cuts, Prints
<1> HIDE DEF x
<1>6. Step(SeriesKind, x, a) = x /\ ~Replays(a)
  BY <1>4, StepIs, BindSaysNoSeries
<1>7. Known(wanted, 0)
        = Bound(src \notin Broken, src, IF src \in Broken THEN None ELSE Default, FALSE)
  <2>1. 0 \in DOMAIN wanted /\ wanted[0] = Asked(src)
    BY <1>1
  <2> DEFINE m == Asked(src)
  <2>2. m.loaded = (src \notin Broken) /\ m.src = src
        /\ m.values = (IF src \in Broken THEN None ELSE Default) /\ m.stale = FALSE
    BY AskedIs
  <2> HIDE DEF m
  <2>3. wanted[0] = m
    BY <2>1 DEF m
  <2> QED BY <2>1, <2>2, <2>3 DEF Known
<1>8. Step(BindKind(0), Blank, a) = Known(wanted, 0)
  <2>1. BindStep(0, Blank, a) = Bound(src \notin Broken, src,
                                      IF src \in Broken THEN None ELSE Default, FALSE)
    BY <1>4 DEF BindStep, About
  <2> QED BY <1>7, <2>1, BindIs
<1>9. SlotsOK(1, wanted) /\ DOMAIN wanted = {0}
  <2> DEFINE m == Asked(src)
  <2>1. m \in Mirrors
    BY AskedIs
  <2> HIDE DEF m
  <2>2. wanted = [slot \in {0} |-> m]
    BY <1>1 DEF m
  <2> QED BY <2>1, <2>2 DEF SlotsOK
<1>10. CASE /\ chart \in [trades : {<< >>}, size : BarSizes, opened : {FALSE}]
            /\ todo = <<a>>
  <2>1. todo \in Seq(C)
    BY <1>4, <1>10
  <2>2. End(BindKind(0), Blank, todo) = Known(wanted, 0)
    BY <1>8, <1>10, EndOne
  <2>3. End(SeriesKind, x, todo) = x
    BY <1>6, <1>10, EndOne
  <2>4. chart.trades = << >> /\ ~chart.opened
    BY <1>10
  <2>5. Forming(chart) = << >>
    <3>1. Len(chart.trades) = 0
      BY <2>4
    <3>2. Forming(chart) \in Prints /\ Len(Forming(chart)) = 0
      BY <1>2, <3>1, SeriesIs, Division DEF ChartOK
    <3> QED BY <3>2 DEF Prints
  <2>6. SeriesTrue(chart, lane, x)
    BY <1>3, <1>5, <2>4, <2>5 DEF SeriesTrue
  <2> QED BY <1>2, <1>9, <2>1, <2>2, <2>3, <2>6 DEF C
<1>11. CASE todo = <<a, r, p>>
  <2>1. r \in C /\ r.op = "Rebuild" /\ r.bars = Bars(chart)
    BY <1>2, RebuildIs DEF r, C
  <2>2. p \in C /\ p.op = "PartialUpdated"
    BY <1>2, <1>5, PartialSays DEF p, C
  <2>3. todo \in Seq(C)
    BY <1>4, <1>11, <2>1, <2>2
  <2>4. End(BindKind(0), Blank, todo) = Known(wanted, 0)
    <3> DEFINE k == BindKind(0)
               b == Known(wanted, 0)
    <3>1. End(k, Blank, todo) = Step(k, Step(k, Step(k, Blank, a), r), p)
      BY <1>11, EndThree
    <3>2. Step(k, b, r) = b
      BY <2>1, BindIs, SeriesSaysNoBinding
    <3>3. Step(k, b, p) = b
      BY <2>2, BindIs, SeriesSaysNoBinding
    <3>4. Step(k, Blank, a) = b
      BY <1>8
    <3> QED BY <3>1, <3>2, <3>3, <3>4
  <2>5. End(SeriesKind, x, todo) = SeriesStep(SeriesStep(x, r), p)
    BY <1>6, <1>11, EndThree, StepIs
  <2> DEFINE y == SeriesStep(x, r)
  <2>6. y \in Sers /\ y.bars = Bars(chart)
    BY <1>5, <2>1, SeriesTyped, SeriesFields DEF SeriesStep, C
  <2> HIDE DEF y
  <2>7. SeriesStep(y, p) = SeriesOf(y.bars, Forming(chart), << >>)
    BY <1>2, <2>6, PartialSays DEF p
  <2>8. SeriesTrue(chart, lane, End(SeriesKind, x, todo))
    BY <1>3, <2>5, <2>6, <2>7, SeriesFields DEF SeriesTrue, y
  <2> QED BY <1>2, <1>9, <2>3, <2>4, <2>8 DEF C
<1> QED BY <1>1, <1>10, <1>11 DEF a, x

(* A pane opens with everything it shows still to come. *)
LEMMA PaneBegins == ASSUME PaneInit PROVE PaneKept
<1>1. PaneInv
  BY PaneInitial
<1>2. todo \in Seq(Cmds(1)) /\ ChartOK(chart) /\ SlotsOK(1, wanted) /\ DOMAIN wanted = {0}
  BY Opens
<1>I. /\ link = B!NoLink /\ lane = [rungs |-> 0, sent |-> 0]
      /\ counts = [queued |-> 0, inflight |-> 0, deferred |-> FALSE]
      /\ worker = [phase |-> "idle", batch |-> << >>, session |-> NewSession]
      /\ out = << >> /\ events = << >> /\ ui = "free"
      /\ views = [shown |-> << >>, pending |-> {0}, answered |-> {}, next |-> 1]
      /\ used = [prints |-> 0, ops |-> 0]
  BY DEF PaneInit
<1> DEFINE s == worker.session
           C == Cmds(1)
<1>3. s.bars = << >> /\ s.partial = << >> /\ s.run = << >> /\ s.slots = << >>
      /\ DOMAIN s.slots = {}
      /\ s = [bars |-> s.bars, partial |-> s.partial, run |-> s.run, slots |-> s.slots]
  BY <1>I DEF NewSession
<1>4. link = [chan |-> link.chan, parked |-> link.parked]
      /\ link.chan = << >> /\ link.parked = << >>
  BY <1>I DEF B!NoLink
<1>5. worker.batch = << >> /\ worker.phase = "idle" /\ views.next = 1 /\ used.prints = 0
      /\ DOMAIN views.shown = {} /\ lane.rungs = 0 /\ lane.sent = 0
  BY <1>I
<1>6. Evs(events) /\ Evs(out)
  BY <1>I, NothingIsSeqn DEF Evs
<1>7. LinkOK(1, link)
  BY <1>4, PaneAssumption DEF LinkOK
<1>8. HostOK(1, s)
  <2>1. SlotsOK(1, s.slots)
    BY <1>3 DEF SlotsOK
  <2>2. s.bars \in Cuts /\ s.partial \in Prints /\ s.run \in Prints
    BY <1>3 DEF Cuts, Prints
  <2> QED BY <1>3, <2>1, <2>2 DEF HostOK
<1>9. WorkerOK(1, worker)
  BY <1>I, <1>5, <1>8 DEF WorkerOK
<1>10. PaneTyped
  <2>1. LaneOK(lane) /\ ShownOK
    BY <1>I, <1>5 DEF LaneOK, ShownOK
  <2> QED BY <1>2, <1>5, <1>6, <1>7, <1>9, <2>1 DEF PaneTyped
<1>11. PhasesKept
  BY <1>I DEF PhasesKept, B!NoLink
<1>12. Flight = todo
  <2>1. Waiting(link) = << >>
    BY <1>4 DEF Waiting
  <2> DEFINE t == todo
  <2>2. \A q \in Seq(C) : << >> \o (<< >> \o q) = q
    BY ConcatEmptySeq
  <2> HIDE DEF C
  <2> QED BY <1>2, <1>5, <2>1, <2>2 DEF Flight, C
<1>13. BindingsKept
  <2>1. \A slot : Known(s.slots, slot) = Blank
    BY <1>3, KnownIs
  <2> QED BY <1>2, <1>12, <2>1, Opens DEF BindingsKept
<1>14. SeriesKept
  <2>1. Series(s) = SeriesOf(<< >>, << >>, << >>)
    BY <1>3 DEF Series
  <2>2. lane.sent = Unsent(chart, lane.rungs)
    BY <1>5 DEF Unsent
  <2> QED BY <1>12, <2>1, <2>2, Opens DEF SeriesKept
<1>15. ViewsFollow /\ RowsFollow /\ HostSynced
  BY <1>3 DEF ViewsFollow, RowsFollow, HostSynced
<1> QED BY <1>1, <1>10, <1>11, <1>13, <1>14, <1>15 DEF PaneKept

-----------------------------------------------------------------------------
(* Commands and events on their way. *)

(* The flight, read part by part. *)
LEMMA CatReads ==
  ASSUME NEW S, NEW a \in Seq(S), NEW b \in Seq(S), NEW c \in Seq(S), NEW k, NEW x
  PROVE End(k, x, a \o (b \o c)) = End(k, End(k, End(k, x, a), b), c)
<1>1. Seqn(a) /\ Seqn(b) /\ Seqn(c) /\ Seqn(b \o c)
  BY Behind, SeqIs
<1>3. End(k, x, a \o (b \o c)) = End(k, End(k, x, a), b \o c)
  BY <1>1, EndCat
<1>4. End(k, End(k, x, a), b \o c) = End(k, End(k, End(k, x, a), b), c)
  BY <1>1, EndCat
<1> QED BY <1>3, <1>4

(* A step that changes neither what is said nor what is meant. *)
LEMMA FlightSeen ==
  ASSUME PaneKept, UNCHANGED <<chart, lane, wanted>>, worker'.session = worker.session,
         \A slot \in DOMAIN wanted : Shown(slot)' = Shown(slot),
         \A k, x : Reads(k, x) => End(k, x, Flight') = End(k, x, Flight)
  PROVE BindingsKept' /\ SeriesKept' /\ ViewsFollow' /\ RowsFollow' /\ HostSynced'
<1>1. \A slot, x : End(BindKind(slot), x, Flight') = End(BindKind(slot), x, Flight)
  BY DEF Reads
<1>2. BindingsKept'
  BY <1>1 DEF BindingsKept, PaneKept
<1>3. SeriesKept'
  <2> DEFINE x == Series(worker.session)
  <2>1. x \in Sers
    BY FlightIs DEF PaneKept
  <2> HIDE DEF x
  <2>2. End(SeriesKind, x, Flight') = End(SeriesKind, x, Flight)
    BY <2>1 DEF Reads
  <2> QED BY <2>2 DEF SeriesKept, PaneKept, x
<1>4. ViewsFollow'
  BY DEF ViewsFollow, PaneKept
<1>5. RowsFollow'
  <2>2. End(ReplayKind, "no", Flight') = End(ReplayKind, "no", Flight)
    BY DEF Reads
  <2> QED BY <2>2 DEF RowsFollow, PaneKept
<1>6. HostSynced'
  BY DEF HostSynced, PaneKept
<1> QED BY <1>2, <1>3, <1>4, <1>5, <1>6

(* Nor what is shown. *)
LEMMA FlightSame ==
  ASSUME PaneKept, UNCHANGED <<chart, lane, wanted, views>>,
         worker'.session = worker.session, Coming' = Coming,
         \A k, x : Reads(k, x) => End(k, x, Flight') = End(k, x, Flight)
  PROVE BindingsKept' /\ SeriesKept' /\ ViewsFollow' /\ RowsFollow' /\ HostSynced'
<1>1. \A slot \in DOMAIN wanted : Shown(slot)' = Shown(slot)
  BY DEF Shown
<1> QED BY <1>1, FlightSeen

(* A command offered. *)
LEMMA SendKeeps == ASSUME PaneKept, SendCommand PROVE PaneKept'
<1> DEFINE C == Cmds(views.next)
           c == Head(todo)
           t == Tail(todo)
<1>1. PaneInv'
  BY FrameStepKeeps DEF PaneKept, FrameStep
<1>2. /\ todo # << >> /\ link' = B!Offer(link, c) /\ todo' = t
      /\ counts' = [counts EXCEPT !.queued = @ + (B!Entering(link)
                                                  + (IF B!Queues(link) THEN 1 ELSE 0)),
                                  !.deferred = @ \/ ~B!Queues(link)]
      /\ UNCHANGED <<chart, lane, worker, out, events, views, ui, wanted, used>>
  BY DEF SendCommand
<1>3. todo \in Seq(C) /\ LinkOK(views.next, link) /\ worker.batch \in Seq(C)
  BY DEF PaneKept, PaneTyped, WorkerOK
<1>4. c \in C /\ t \in Seq(C) /\ Seqn(todo) /\ Seqn(t)
  <2>1. c \in C /\ t \in Seq(C)
    BY <1>2, <1>3
  <2> QED BY <1>3, <2>1, SeqIs
<1> HIDE DEF c, t
<1>5. /\ LinkOK(views.next, link')
      /\ Len(link'.chan) = Len(link.chan) + B!Entering(link) + (IF B!Queues(link) THEN 1 ELSE 0)
      /\ B!Entering(link) \in Nat
  BY <1>2, <1>3, <1>4, Offered DEF C
<1>6. \A k, x : Reads(k, x) => End(k, x, Waiting(link')) = Step(k, End(k, x, Waiting(link)), c)
  BY <1>2, <1>3, <1>4, Offered DEF C
<1>7. PaneTyped'
  BY <1>2, <1>4, <1>5 DEF PaneKept, PaneTyped, ShownOK, C
<1>8. PhasesKept'
  <2>1. ui = "free" /\ ui' = "free"
    BY <1>2 DEF PaneKept, PhasesKept
  <2>2. counts = [queued |-> counts.queued, inflight |-> counts.inflight,
                  deferred |-> counts.deferred]
        /\ counts.queued = Len(link.chan) + Len(worker.batch)
    BY DEF PaneKept, PhasesKept
  <2>3. link.chan \in Seq(C)
    BY <1>3 DEF LinkOK, C
  <2>4. Len(link.chan) \in Nat /\ Len(worker.batch) \in Nat
    BY <1>3, <2>3
  <2>5. counts' = [queued |-> counts'.queued, inflight |-> counts'.inflight,
                   deferred |-> counts'.deferred]
        /\ counts'.queued = counts.queued + (B!Entering(link)
                                             + (IF B!Queues(link) THEN 1 ELSE 0))
        /\ counts'.inflight = counts.inflight
    <3> DEFINE m == counts.queued + (B!Entering(link) + (IF B!Queues(link) THEN 1 ELSE 0))
               d == counts.deferred \/ ~B!Queues(link)
    <3>1. counts' = [queued |-> m, inflight |-> counts.inflight, deferred |-> d]
      BY <1>2, <2>2
    <3> HIDE DEF m, d
    <3>2. counts' = [queued |-> counts'.queued, inflight |-> counts'.inflight,
                     deferred |-> counts'.deferred]
          /\ counts'.queued = m /\ counts'.inflight = counts.inflight
      BY <3>1
    <3> QED BY <3>2 DEF m
  <2>6. counts'.queued = Len(link'.chan) + Len(worker'.batch)
    <3> DEFINE e == B!Entering(link)
               h == IF B!Queues(link) THEN 1 ELSE 0
    <3>1. e \in Nat /\ h \in Nat
      BY <1>5
    <3>2. Len(link'.chan) = Len(link.chan) + e + h /\ counts'.queued = counts.queued + (e + h)
      BY <1>5, <2>5
    <3>3. worker' = worker
      BY <1>2
    <3>4. counts.queued = Len(link.chan) + Len(worker.batch)
      BY <2>2
    <3> DEFINE a == Len(link.chan)
               b == Len(worker.batch)
               n == Len(link'.chan)
               p == counts.queued
               q == counts'.queued
    <3> HIDE DEF e, h
    <3>5. a \in Nat /\ b \in Nat /\ n = a + e + h /\ q = p + (e + h) /\ p = a + b
      BY <2>4, <3>2, <3>4
    <3> HIDE DEF a, b, n, p, q
    <3>6. q = n + b
      BY <3>1, <3>5
    <3> QED BY <3>3, <3>6 DEF b, n, q
  <2>7. worker' = worker /\ out' = out
    BY <1>2
  <2>8. /\ worker.phase = "publishing" => (worker.batch = << >> /\ counts'.inflight > 0)
        /\ counts'.inflight \in Nat
        /\ worker.phase = "idle" => out = << >>
    BY <2>5 DEF PaneKept, PhasesKept
  <2> QED BY <2>1, <2>5, <2>6, <2>7, <2>8 DEF PhasesKept
<1>9. ASSUME NEW k, NEW x, Reads(k, x) PROVE End(k, x, Flight') = End(k, x, Flight)
  <2> DEFINE y == End(k, x, worker.batch)
             z == End(k, y, Waiting(link))
  <2>1. Reads(k, y)
    BY <1>3, <1>9, ReadsOn DEF C
  <2>2. End(k, x, Flight) = End(k, z, todo)
    BY FlightIs, CatReads DEF PaneKept, Flight
  <2>3. worker' = worker /\ todo' = t
    BY <1>2
  <2>4. End(k, x, Flight') = End(k, End(k, y, Waiting(link')), t)
    <3>1. Waiting(link') \in Seq(C)
      <4>1. link'.chan \in Seq(C) /\ link'.parked \in Seq(C)
        BY <1>5 DEF LinkOK, C
      <4> HIDE DEF C
      <4> QED BY <4>1, Behind DEF Waiting
    <3>2. Flight' = worker.batch \o (Waiting(link') \o t)
      BY <2>3 DEF Flight, Waiting
    <3> DEFINE a == worker.batch
               b == Waiting(link')
    <3>4. a \in Seq(C) /\ b \in Seq(C)
      BY <1>3, <3>1
    <3> HIDE DEF a, b, C
    <3>3. End(k, x, a \o (b \o t)) = End(k, End(k, End(k, x, a), b), t)
      BY <1>4, <3>4, CatReads
    <3> QED BY <3>2, <3>3 DEF a, b
  <2>5. End(k, z, todo) = End(k, Step(k, z, c), t)
    BY <1>2, <1>4, EndHead DEF c, t
  <2> HIDE DEF z, y
  <2>6. End(k, y, Waiting(link')) = Step(k, End(k, y, Waiting(link)), c)
    BY <1>6, <2>1
  <2> QED BY <2>2, <2>4, <2>5, <2>6 DEF z
<1>10. worker'.session = worker.session /\ Coming' = Coming
       /\ UNCHANGED <<chart, lane, wanted, views>>
  BY <1>2 DEF Coming
<1>11. BindingsKept' /\ SeriesKept' /\ ViewsFollow' /\ RowsFollow' /\ HostSynced'
  BY <1>9, <1>10, FlightSame
<1> QED BY <1>1, <1>7, <1>8, <1>11 DEF PaneKept

(* The head of one sequence, moved to the end of the one before it. *)
LEMMA HeadMoves ==
  ASSUME NEW S, NEW a \in Seq(S), NEW b \in Seq(S), b # << >>
  PROVE /\ Append(a, Head(b)) \in Seq(S) /\ Tail(b) \in Seq(S) /\ Head(b) \in S
        /\ Append(a, Head(b)) \o Tail(b) = a \o b
        /\ Len(Append(a, Head(b))) = Len(a) + 1 /\ Len(Tail(b)) = Len(b) - 1
<1>1. Head(b) \in S /\ Tail(b) \in Seq(S) /\ b = <<Head(b)>> \o Tail(b)
      /\ Len(Tail(b)) = Len(b) - 1
  OBVIOUS
<1> DEFINE h == <<Head(b)>>
           t == Tail(b)
<1>2. h \in Seq(S) /\ t \in Seq(S) /\ b = h \o t /\ Append(a, Head(b)) = a \o h
  BY <1>1
<1>3. Append(a, Head(b)) \in Seq(S) /\ Len(Append(a, Head(b))) = Len(a) + 1
  BY <1>1
<1> HIDE DEF h
<1>4. (a \o h) \o t = a \o (h \o t)
  BY <1>2, ConcatAssociative
<1>5. Append(a, Head(b)) \o t = a \o b
  BY <1>2, <1>4, Zenon
<1> QED BY <1>1, <1>3, <1>5

(* One sequence behind another, by name. *)
Cat(s, t) == s \o t

(* Whichever way the parts are bracketed. *)
LEMMA CatIs ==
  ASSUME NEW C
  PROVE /\ \A s, t, u \in Seq(C) : Cat(Cat(s, t), u) = Cat(s, Cat(t, u))
        /\ \A s, t \in Seq(C) : Cat(s, t) \in Seq(C)
BY Behind DEF Cat

(* What moves from one sequence to the one before it leaves all four, read  *)
(* one after another, what they were.                                       *)
LEMMA MovesWithin ==
  ASSUME NEW C, NEW a \in Seq(C), NEW b \in Seq(C), NEW p \in Seq(C), NEW u \in Seq(C),
         NEW ta \in Seq(C), NEW tb \in Seq(C), Cat(ta, tb) = Cat(a, b)
  PROVE Cat(ta, Cat(Cat(tb, p), u)) = Cat(a, Cat(Cat(b, p), u))
<1>1. /\ \A s, t, v \in Seq(C) : Cat(Cat(s, t), v) = Cat(s, Cat(t, v))
      /\ \A s, t \in Seq(C) : Cat(s, t) \in Seq(C)
  BY CatIs
<1> QED BY <1>1

(* One command taken off the channel. *)
LEMMA TakeKeeps == ASSUME PaneKept, TakeCommand PROVE PaneKept'
<1> DEFINE C == Cmds(views.next)
           a == worker.batch
           b == link.chan
           p == link.parked
           ta == Append(a, Head(b))
           tb == Tail(b)
<1>1. PaneInv'
  BY WorkerStepKeeps DEF PaneKept, WorkerStep
<1>2. /\ worker.phase = "idle" /\ b # << >>
      /\ worker' = [worker EXCEPT !.batch = ta] /\ link' = [link EXCEPT !.chan = tb]
      /\ UNCHANGED <<chart, lane, todo, views, wanted, used, counts, out, events, ui>>
  BY DEF TakeCommand, userVars
<1>3. /\ worker = [phase |-> worker.phase, batch |-> a, session |-> worker.session]
      /\ link = [chan |-> b, parked |-> p]
      /\ a \in Seq(C) /\ b \in Seq(C) /\ p \in Seq(C) /\ todo \in Seq(C) /\ Len(b) <= CommandCap
      /\ HostOK(views.next, worker.session)
  BY DEF PaneKept, PaneTyped, WorkerOK, LinkOK
<1>4. /\ ta \in Seq(C) /\ tb \in Seq(C) /\ Len(ta) = Len(a) + 1 /\ Len(tb) = Len(b) - 1
      /\ ta \o tb = a \o b /\ Len(a) \in Nat /\ Len(b) \in Nat
  <2>1. a \in Seq(C) /\ b \in Seq(C) /\ b # << >>
    BY <1>2, <1>3
  <2> HIDE DEF C, a, b
  <2>2. ta \in Seq(C) /\ tb \in Seq(C) /\ Len(ta) = Len(a) + 1 /\ Len(tb) = Len(b) - 1
    BY <2>1, HeadMoves
  <2>3. ta \o tb = a \o b
    BY <2>1, HeadMoves
  <2>4. Len(a) \in Nat /\ Len(b) \in Nat
    BY <2>1
  <2> QED BY <2>2, <2>3, <2>4
<1> HIDE DEF ta, tb
<1>5. /\ worker'.phase = "idle" /\ worker'.batch = ta /\ worker'.session = worker.session
      /\ worker' = [phase |-> worker'.phase, batch |-> worker'.batch, session |-> worker'.session]
      /\ link'.chan = tb /\ link'.parked = p
      /\ link' = [chan |-> link'.chan, parked |-> link'.parked]
  BY <1>2, <1>3
<1>6. PaneTyped'
  <2>1. LinkOK(views.next, link')
    <3>1. Len(tb) <= CommandCap
      BY <1>3, <1>4, PaneAssumption
    <3> QED BY <1>3, <1>4, <1>5, <3>1 DEF LinkOK
  <2>2. WorkerOK(views.next, worker')
    BY <1>3, <1>4, <1>5 DEF WorkerOK
  <2> QED BY <1>2, <2>1, <2>2 DEF PaneKept, PaneTyped, ShownOK
<1>7. PhasesKept'
  <2>1. counts' = counts /\ ui' = ui /\ out' = out /\ todo' = todo
    BY <1>2
  <2>2. counts.queued = Len(b) + Len(a)
    BY DEF PaneKept, PhasesKept
  <2>3. counts.queued = Len(tb) + Len(ta)
    <3>1. Len(ta) = Len(a) + 1 /\ Len(tb) = Len(b) - 1 /\ Len(a) \in Nat /\ Len(b) \in Nat
      BY <1>4
    <3> DEFINE q == counts.queued
               i == Len(a)
               j == Len(b)
               k == Len(ta)
               l == Len(tb)
    <3>2. q = j + i /\ k = i + 1 /\ l = j - 1 /\ i \in Nat /\ j \in Nat
      BY <2>2, <3>1
    <3> HIDE DEF q, i, j, k, l
    <3>3. q = l + k
      BY <3>2
    <3> QED BY <3>3 DEF q, k, l
  <2>4. ui # "settled"
    BY <1>2, <1>3 DEF PaneKept, PhasesKept, Quiet, B!NoLink
  <2> QED BY <1>2, <1>5, <2>1, <2>3, <2>4 DEF PaneKept, PhasesKept
<1>8. Flight' = Flight
  <2> DEFINE u == todo
  <2>2. Flight' = Cat(ta, Cat(Cat(tb, p), u))
    BY <1>2, <1>5 DEF Flight, Waiting, Cat
  <2>3. Flight = Cat(a, Cat(Cat(b, p), u))
    BY DEF Flight, Waiting, Cat
  <2> HIDE DEF u, a, b, p
  <2>4. /\ u \in Seq(C) /\ a \in Seq(C) /\ b \in Seq(C) /\ p \in Seq(C)
        /\ ta \in Seq(C) /\ tb \in Seq(C) /\ Cat(ta, tb) = Cat(a, b)
    BY <1>3, <1>4 DEF u, a, b, p, Cat
  <2> HIDE DEF C
  <2>6. Cat(ta, Cat(Cat(tb, p), u)) = Cat(a, Cat(Cat(b, p), u))
    BY <2>4, MovesWithin
  <2> QED BY <2>2, <2>3, <2>6
<1>9. Coming' = Coming /\ UNCHANGED <<chart, lane, wanted, views>>
  BY <1>2 DEF Coming
<1>10. BindingsKept' /\ SeriesKept' /\ ViewsFollow' /\ RowsFollow' /\ HostSynced'
  BY <1>5, <1>8, <1>9, FlightSame
<1> QED BY <1>1, <1>6, <1>7, <1>10 DEF PaneKept

(* One event into the channel. *)
LEMMA EventKeeps == ASSUME PaneKept, SendEvent PROVE PaneKept'
<1> DEFINE a == events
           b == out
           ta == Append(a, Head(b))
           tb == Tail(b)
           S == Elems(a) \cup Elems(b)
<1>1. PaneInv'
  BY WorkerStepKeeps DEF PaneKept, WorkerStep
<1>2. /\ worker.phase = "publishing" /\ b # << >> /\ events' = ta /\ out' = tb
      /\ UNCHANGED <<chart, lane, todo, views, wanted, used, counts, link, worker, ui>>
  BY DEF SendEvent, userVars
<1>3. Evs(a) /\ Evs(b)
  BY DEF PaneKept, PaneTyped
<1>4. a \in Seq(S) /\ b \in Seq(S)
  BY <1>3 DEF Evs, Seqn
<1>5. /\ ta \in Seq(S) /\ tb \in Seq(S) /\ Len(ta) = Len(a) + 1 /\ Len(tb) = Len(b) - 1
      /\ ta \o tb = a \o b
  <2> HIDE DEF S
  <2> QED BY <1>2, <1>4, HeadMoves
<1>6. Evs(ta) /\ Evs(tb)
  <2>1. \A i \in 1 .. Len(ta) : ta[i].ev \in EventKinds
    BY <1>2, <1>3, <1>4, <1>5 DEF Evs
  <2>2. \A i \in 1 .. Len(tb) : tb[i].ev \in EventKinds
    BY <1>2, <1>3, <1>4, <1>5 DEF Evs
  <2> HIDE DEF S, ta, tb
  <2> QED BY <1>5, <2>1, <2>2, SeqIs DEF Evs
<1>7. Coming' = Coming
  BY <1>2, <1>5 DEF Coming
<1> HIDE DEF ta, tb
<1>8. PaneTyped'
  BY <1>2, <1>6 DEF PaneKept, PaneTyped, ShownOK
<1>9. PhasesKept'
  <2>1. ui # "settled"
    BY <1>2 DEF PaneKept, PhasesKept, Quiet
  <2> QED BY <1>2, <2>1 DEF PaneKept, PhasesKept
<1>10. Flight' = Flight /\ UNCHANGED <<chart, lane, wanted, views>> /\ worker' = worker
  BY <1>2 DEF Flight, Waiting
<1>11. BindingsKept' /\ SeriesKept' /\ ViewsFollow' /\ RowsFollow' /\ HostSynced'
  BY <1>7, <1>10, FlightSame
<1> QED BY <1>1, <1>8, <1>9, <1>11 DEF PaneKept

(* A batch is done with. *)
LEMMA FinishKeeps == ASSUME PaneKept, FinishBatch PROVE PaneKept'
<1>1. PaneInv'
  BY WorkerStepKeeps DEF PaneKept, WorkerStep
<1>2. /\ worker.phase = "publishing" /\ out = << >>
      /\ worker' = [worker EXCEPT !.phase = "idle"] /\ counts' = [counts EXCEPT !.inflight = 0]
      /\ UNCHANGED <<chart, lane, todo, views, wanted, used, link, out, events, ui>>
  BY DEF FinishBatch, userVars
<1>3. worker = [phase |-> worker.phase, batch |-> worker.batch, session |-> worker.session]
      /\ worker.batch \in Seq(Cmds(views.next)) /\ HostOK(views.next, worker.session)
  BY DEF PaneKept, PaneTyped, WorkerOK
<1>4. /\ worker'.phase = "idle" /\ worker'.batch = worker.batch /\ worker'.session = worker.session
      /\ worker' = [phase |-> worker'.phase, batch |-> worker'.batch, session |-> worker'.session]
  BY <1>2, <1>3
<1>5. PaneTyped'
  <2>1. WorkerOK(views.next, worker')
    BY <1>3, <1>4 DEF WorkerOK
  <2> QED BY <1>2, <2>1 DEF PaneKept, PaneTyped, ShownOK
<1>6. PhasesKept'
  <2>1. ui # "settled"
    BY <1>2 DEF PaneKept, PhasesKept, Quiet
  <2>2. counts = [queued |-> counts.queued, inflight |-> counts.inflight,
                  deferred |-> counts.deferred]
        /\ counts.queued = Len(link.chan) + Len(worker.batch)
    BY DEF PaneKept, PhasesKept
  <2>3. counts' = [queued |-> counts.queued, inflight |-> 0, deferred |-> counts.deferred]
    BY <1>2, <2>2
  <2>4. /\ counts' = [queued |-> counts'.queued, inflight |-> counts'.inflight,
                      deferred |-> counts'.deferred]
        /\ counts'.queued = counts.queued /\ counts'.inflight = 0
    BY <2>3
  <2>5. link' = link /\ out' = << >> /\ ui' = ui /\ todo' = todo
    BY <1>2
  <2>6. ui # "free" => todo = << >>
    BY DEF PaneKept, PhasesKept
  <2>7. counts'.queued = Len(link'.chan) + Len(worker'.batch) /\ counts'.inflight \in Nat
    BY <1>4, <2>2, <2>4, <2>5
  <2>8. worker'.phase # "publishing" /\ ui' # "settled" /\ (ui' # "free" => todo' = << >>)
    BY <1>4, <2>1, <2>5, <2>6
  <2> QED BY <2>4, <2>5, <2>7, <2>8 DEF PhasesKept
<1>7. Flight' = Flight /\ Coming' = Coming /\ UNCHANGED <<chart, lane, wanted, views>>
  BY <1>2, <1>4 DEF Flight, Waiting, Coming
<1>8. BindingsKept' /\ SeriesKept' /\ ViewsFollow' /\ RowsFollow' /\ HostSynced'
  BY <1>4, <1>7, FlightSame
<1> QED BY <1>1, <1>5, <1>6, <1>8 DEF PaneKept

(* The progress snapshot does not lie: idle is quiet. *)
LEMMA ReadKeeps == ASSUME PaneKept, ReadProgress PROVE PaneKept'
<1>1. PaneInv'
  BY FrameStepKeeps DEF PaneKept, FrameStep
<1>2. /\ ui = "drift" /\ ui' = (IF Idle THEN "settled" ELSE "free")
      /\ UNCHANGED <<chart, lane, todo, views, wanted, used, link, counts, worker, out, events>>
  BY DEF ReadProgress, userVars
<1>3. PaneTyped'
  BY <1>2 DEF PaneKept, PaneTyped, ShownOK
<1>4. Idle => Quiet
  <2> SUFFICES ASSUME Idle PROVE Quiet
    OBVIOUS
  <2>1. counts.queued = 0 /\ counts.inflight = 0 /\ link.parked = << >>
    BY DEF Idle
  <2>2. worker.phase = "idle" /\ out = << >> /\ todo = << >>
    <3>1. worker.phase \in {"idle", "publishing"}
      BY DEF PaneKept, PaneTyped, WorkerOK
    <3> QED BY <1>2, <2>1, <3>1 DEF PaneKept, PhasesKept
  <2> DEFINE C == Cmds(views.next)
  <2>3. link.chan \in Seq(C) /\ worker.batch \in Seq(C)
        /\ link = [chan |-> link.chan, parked |-> link.parked]
    BY DEF PaneKept, PaneTyped, WorkerOK, LinkOK
  <2>4. Len(link.chan) + Len(worker.batch) = 0
    BY <2>1 DEF PaneKept, PhasesKept
  <2>5. link.chan = << >> /\ worker.batch = << >>
    <3> HIDE DEF C
    <3>1. Len(link.chan) = 0 /\ Len(worker.batch) = 0
      BY <2>3, <2>4
    <3> QED BY <2>3, <3>1
  <2> QED BY <2>1, <2>2, <2>3, <2>5 DEF Quiet, B!NoLink
<1>5. PhasesKept'
  <2>1. ui' = "settled" => Quiet'
    BY <1>2, <1>4 DEF Quiet
  <2>2. todo' = << >>
    BY <1>2 DEF PaneKept, PhasesKept
  <2> QED BY <1>2, <2>1, <2>2 DEF PaneKept, PhasesKept
<1>6. Flight' = Flight /\ Coming' = Coming /\ worker' = worker
      /\ UNCHANGED <<chart, lane, wanted, views>>
  BY <1>2 DEF Flight, Waiting, Coming
<1>7. BindingsKept' /\ SeriesKept' /\ ViewsFollow' /\ RowsFollow' /\ HostSynced'
  BY <1>6, FlightSame
<1> QED BY <1>1, <1>3, <1>5, <1>7 DEF PaneKept

-----------------------------------------------------------------------------
(* The frame takes in the events. *)

(* IndicatorViews::apply, seen from one slot. *)
LEMMA EventSeen ==
  ASSUME NEW v, ViewsOK(v), NEW e, NEW slot \in Tracked(v)
  PROVE Seen(ApplyEvent(v, e), slot) = ViewStep(slot, Seen(v, slot), e)
<1> DEFINE w == ApplyEvent(v, e)
<1>1. CASE e.ev = "Rebuilt" /\ ~Born(v, e.slot)
  <2>1. e.slot # slot
    BY <1>1 DEF Born, Tracked
  <2>2. w = v
    BY <1>1 DEF ApplyEvent
  <2> QED BY <2>1, <2>2 DEF ViewStep
<1>2. CASE e.ev = "Rebuilt" /\ Born(v, e.slot)
  <2> DEFINE s == With(v.shown, e.slot, NewView(e))
  <2>1. w = [shown |-> s, pending |-> v.pending \ {e.slot}, answered |-> v.answered,
             next |-> v.next]
    BY <1>2 DEF ApplyEvent, ViewsOK
  <2>2. w.shown = s
    BY <2>1
  <2>3. DOMAIN s = DOMAIN v.shown \cup {e.slot} /\ s[e.slot] = NewView(e)
        /\ \A x \in DOMAIN v.shown : x # e.slot => s[x] = v.shown[x]
    BY DEF With
  <2> HIDE DEF s, w
  <2> QED BY <1>2, <2>2, <2>3 DEF Seen, ViewStep, w
<1>3. CASE e.ev # "Rebuilt" /\ e.slot \notin DOMAIN v.shown
  <2>1. w = v
    BY <1>3 DEF ApplyEvent
  <2>2. e.slot = slot => Seen(v, slot).there = "no"
    BY <1>3 DEF Seen
  <2> HIDE DEF w
  <2> QED BY <1>3, <2>1, <2>2 DEF ViewStep, w
<1>4. CASE e.ev # "Rebuilt" /\ e.slot \in DOMAIN v.shown
  <2> DEFINE s == [v.shown EXCEPT ![e.slot] = ApplyToView(@, e)]
  <2>1. w = [shown |-> s, pending |-> v.pending, answered |-> v.answered, next |-> v.next]
    BY <1>4 DEF ApplyEvent, ViewsOK
  <2>2. w.shown = s
    BY <2>1
  <2>3. DOMAIN s = DOMAIN v.shown /\ s[e.slot] = ApplyToView(v.shown[e.slot], e)
        /\ \A x \in DOMAIN v.shown : x # e.slot => s[x] = v.shown[x]
    BY <1>4
  <2> HIDE DEF s, w
  <2>4. CASE e.slot = slot
    <3>1. Seen(w, slot) = [there |-> "yes", view |-> ApplyToView(v.shown[slot], e)]
      BY <1>4, <2>2, <2>3, <2>4 DEF Seen
    <3>2. Seen(v, slot).there = "yes" /\ Seen(v, slot).view = v.shown[slot]
      BY <1>4, <2>4 DEF Seen
    <3> QED BY <1>4, <2>4, <3>1, <3>2 DEF ViewStep, w
  <2>5. CASE e.slot # slot
    <3>1. Seen(w, slot) = Seen(v, slot)
      BY <2>2, <2>3, <2>5 DEF Seen
    <3> QED BY <2>5, <3>1 DEF ViewStep, w
  <2> QED BY <2>4, <2>5
<1> QED BY <1>1, <1>2, <1>3, <1>4

(* The last of the first n is n. *)
LEMMA MaxOfFirst ==
  ASSUME NEW n \in Nat, n # 0
  PROVE Max(1 .. n) = n /\ (1 .. n) \ {n} = 1 .. n - 1
<1>1. n \in 1 .. n /\ \A y \in 1 .. n : n >= y
  OBVIOUS
<1>2. Max(1 .. n) \in 1 .. n /\ \A y \in 1 .. n : Max(1 .. n) >= y
  BY <1>1 DEF Max
<1>3. Max(1 .. n) = n
  BY <1>1, <1>2
<1>4. (1 .. n) \ {n} = 1 .. n - 1
  OBVIOUS
<1> QED BY <1>3, <1>4

(* apply_indicator_events, seen from one slot: its events, one after        *)
(* another.                                                                 *)
LEMMA EventsSeen ==
  ASSUME ViewsOK(views), Apart(views), Evs(events)
  PROVE /\ \A slot \in Tracked(views) :
             Seen(ApplyEvents(views), slot) = End(ViewKind(slot), Seen(views, slot), events)
        /\ ViewsOK(ApplyEvents(views)) /\ Apart(ApplyEvents(views))
        /\ Tracked(ApplyEvents(views)) = Tracked(views) /\ ApplyEvents(views).next = views.next
<1> DEFINE D == DOMAIN events
           L == Len(events)
           f == EventFold(views)
           g(n) == f[1 .. n]
           Like(w) == ViewsOK(w) /\ Apart(w) /\ Tracked(w) = Tracked(views)
           Ends(n) == \A slot \in Tracked(views) :
                        Seen(g(n), slot)
                          = End(ViewKind(slot), Seen(views, slot), SubSeq(events, 1, n))
           G == {n \in 0 .. L : Like(g(n)) /\ Ends(n)}
<1>0. Seqn(events)
  BY DEF Evs
<1>1. /\ L \in Nat /\ D = 1 .. L /\ IsFiniteSet(D)
      /\ \A s \in SUBSET D : s # {} => Max(s) \in s
  BY <1>0, SeqIs
<1>2. \A s \in SUBSET D :
        f[s] = IF s = {} THEN views ELSE ApplyEvent(f[s \ {Max(s)}], events[Max(s)])
  BY <1>1, EventFoldExists
<1>3. ApplyEvents(views) = f[D]
  BY EventsFolded
<1> HIDE DEF f
<1>4. g(0) = views
  <2>1. 1 .. 0 = {} /\ 1 .. 0 \in SUBSET D
    OBVIOUS
  <2> QED BY <1>2, <2>1
<1>5. \A n \in 1 .. L : g(n) = ApplyEvent(g(n - 1), events[n])
  <2> TAKE n \in 1 .. L
  <2>1. n \in Nat /\ n # 0 /\ 1 .. n \in SUBSET D /\ 1 .. n # {}
    <3>1. L \in Nat /\ D = 1 .. L
      BY <1>1
    <3> HIDE DEF L, D
    <3> QED BY <3>1
  <2>2. Max(1 .. n) = n /\ (1 .. n) \ {n} = 1 .. n - 1
    BY <2>1, MaxOfFirst
  <2>3. f[1 .. n] = ApplyEvent(f[(1 .. n) \ {Max(1 .. n)}], events[Max(1 .. n)])
    BY <1>2, <2>1
  <2> QED BY <2>2, <2>3
<1> HIDE DEF g
<1>6. 0 \in G
  <2>1. \A slot : Seen(g(0), slot) = End(ViewKind(slot), Seen(views, slot), SubSeq(events, 1, 0))
    BY <1>0, <1>4, EndEnds
  <2> QED BY <1>1, <1>4, <2>1
<1>7. ASSUME NEW n \in 1 .. L, n - 1 \in G PROVE n \in G
  <2> DEFINE w == g(n - 1)
             e == events[n]
  <2>1. ViewsOK(w) /\ Apart(w) /\ Tracked(w) = Tracked(views) /\ g(n) = ApplyEvent(w, e)
    BY <1>5, <1>7
  <2>2. Ends(n - 1)
    BY <1>7
  <2> HIDE DEF w, e
  <2>3. Like(g(n))
    BY <2>1, EventKeepsSlots
  <2>4. ASSUME NEW slot \in Tracked(views)
        PROVE Seen(g(n), slot) = End(ViewKind(slot), Seen(views, slot), SubSeq(events, 1, n))
    <3> DEFINE k == ViewKind(slot)
               x == Seen(views, slot)
               y == End(k, x, SubSeq(events, 1, n - 1))
    <3>1. Seen(g(n), slot) = ViewStep(slot, Seen(w, slot), e)
      BY <2>1, <2>4, EventSeen
    <3>2. Seen(w, slot) = y
      BY <2>2, <2>4 DEF w
    <3>3. End(k, x, SubSeq(events, 1, n)) = Step(k, y, e)
      BY <1>0, EndNext DEF e
    <3> HIDE DEF y
    <3>4. Step(k, y, e) = ViewStep(slot, y, e)
      BY StepIs
    <3> QED BY <3>1, <3>2, <3>3, <3>4
  <2> QED BY <2>3, <2>4
<1>8. \A n \in 0 .. L : n \in G
  <2> HIDE DEF G
  <2> QED BY <1>1, <1>6, <1>7, Upward
<1>9. L \in G
  BY <1>1, <1>8
<1>10. SubSeq(events, 1, L) = events /\ ApplyEvents(views) = g(L)
  BY <1>0, <1>1, <1>3, EndEnds DEF g
<1> QED BY <1>0, <1>9, <1>10, EventsKeepSlots

(* Nothing before a sequence. *)
LEMMA NothingBefore == ASSUME NEW s, Seqn(s) PROVE << >> \o s = s
<1>1. s \in Seq(Elems(s))
  BY DEF Seqn
<1> DEFINE S == Elems(s)
<1> HIDE DEF S
<1> QED BY <1>1, ConcatEmptySeq DEF S

(* drain_events, on its own. *)
LEMMA PumpIs ==
  ASSUME PaneKept, Pump, worker' = worker
  PROVE /\ LinkOK(views.next, link') /\ Waiting(link') = Waiting(link)
        /\ counts' = [queued |-> counts'.queued, inflight |-> counts'.inflight,
                      deferred |-> counts'.deferred]
        /\ counts'.queued = Len(link'.chan) + Len(worker'.batch)
        /\ counts'.inflight = counts.inflight
        /\ B!Entering(link) = 0 => counts'.queued = counts.queued
<1> DEFINE n == B!Entering(link)
           a == Len(link.chan)
           b == Len(worker.batch)
           c == Len(link'.chan)
           p == counts.queued
           q == counts'.queued
<1>1. LinkOK(views.next, link) /\ worker.batch \in Seq(Cmds(views.next))
  BY DEF PaneKept, PaneTyped, WorkerOK
<1>2. link' = B!Drain(link) /\ counts' = [counts EXCEPT !.queued = @ + B!Entering(link)]
  BY DEF Pump
<1>3. LinkOK(views.next, link') /\ Waiting(link') = Waiting(link) /\ c = a + n /\ n \in Nat
  BY <1>1, <1>2, Drained
<1>4. counts = [queued |-> counts.queued, inflight |-> counts.inflight,
                deferred |-> counts.deferred] /\ p = a + b
  BY DEF PaneKept, PhasesKept
<1>5. a \in Nat /\ b \in Nat
  <2> DEFINE C == Cmds(views.next)
  <2>1. link.chan \in Seq(C) /\ worker.batch \in Seq(C)
    BY <1>1 DEF LinkOK
  <2> HIDE DEF C
  <2> QED BY <2>1
<1>6. counts' = [queued |-> p + n, inflight |-> counts.inflight, deferred |-> counts.deferred]
  BY <1>2, <1>4
<1>7. counts' = [queued |-> counts'.queued, inflight |-> counts'.inflight,
                 deferred |-> counts'.deferred]
      /\ q = p + n /\ counts'.inflight = counts.inflight
  <2> DEFINE m == p + n
  <2> HIDE DEF m
  <2>1. counts' = [queued |-> m, inflight |-> counts.inflight, deferred |-> counts.deferred]
    BY <1>6 DEF m
  <2>2. counts' = [queued |-> counts'.queued, inflight |-> counts'.inflight,
                   deferred |-> counts'.deferred]
        /\ counts'.queued = m /\ counts'.inflight = counts.inflight
    BY <2>1
  <2> QED BY <2>2 DEF m
<1>8. q = c + b
  <2>1. q = p + n /\ p = a + b /\ c = a + n
    BY <1>3, <1>4, <1>7
  <2> HIDE DEF a, b, c, n, p, q
  <2> QED BY <1>3, <1>5, <2>1
<1>9. n = 0 => q = p
  <2>1. q = p + n /\ p = a + b
    BY <1>4, <1>7
  <2> HIDE DEF a, b, n, p, q
  <2> QED BY <1>5, <2>1
<1> QED BY <1>3, <1>7, <1>8, <1>9

(* The queue taken in: what will be shown stays what it was to be. *)
LEMMA TakenIn ==
  ASSUME PaneKept, NEW v, v.shown = ApplyEvents(views).shown, views' = v, events' = << >>,
         out' = out
  PROVE /\ ShownOK' /\ Evs(events')
        /\ \A slot \in DOMAIN wanted : Shown(slot)' = Shown(slot)
        /\ \A slot \in DOMAIN wanted :
             Seen(v, slot) = End(ViewKind(slot), Seen(views, slot), events)
<1> DEFINE w == ApplyEvents(views)
<1>1. ViewsOK(views) /\ Apart(views) /\ Evs(events) /\ Evs(out) /\ ShownOK
      /\ Tracked(views) = DOMAIN wanted
  BY DEF PaneKept, PaneInv, PaneTyped
<1>2. /\ \A slot \in Tracked(views) :
           Seen(w, slot) = End(ViewKind(slot), Seen(views, slot), events)
      /\ Tracked(w) = Tracked(views)
  <2>1. \A slot \in Tracked(views) :
           Seen(w, slot) = End(ViewKind(slot), Seen(views, slot), events)
    BY <1>1, EventsSeen
  <2>2. Tracked(w) = Tracked(views)
    BY <1>1, EventsSeen
  <2> QED BY <2>1, <2>2
<1> HIDE DEF w
<1>3. \A slot : Seen(v, slot) = Seen(w, slot)
  BY DEF Seen, w
<1>4. \A slot \in DOMAIN wanted : Seen(v, slot) = End(ViewKind(slot), Seen(views, slot), events)
  BY <1>1, <1>2, <1>3
<1>5. ASSUME NEW slot, NEW x, Viewed(x) PROVE Viewed(End(ViewKind(slot), x, events))
  <2> DEFINE z == End(ViewKind(slot), x, events)
  <2>1. Alike(x, x)
    BY <1>5 DEF Alike
  <2>2. Alike(z, z)
    BY <1>1, <2>1, AlikeEnds
  <2> QED BY <2>2 DEF Alike
<1>6. ShownOK'
  <2> SUFFICES ASSUME NEW slot \in DOMAIN v.shown PROVE IsView(v.shown[slot])
    BY DEF ShownOK
  <2>1. slot \in DOMAIN wanted
    <3>1. slot \in DOMAIN w.shown
      BY DEF w
    <3> QED BY <1>1, <1>2, <3>1 DEF Tracked
  <2>2. Viewed(Seen(v, slot))
    <3>1. Viewed(Seen(views, slot))
      BY <1>1, SeenIs
    <3> QED BY <1>4, <1>5, <2>1, <3>1
  <2>3. Seen(v, slot).view = v.shown[slot]
    BY DEF Seen
  <2> QED BY <2>2, <2>3 DEF Viewed
<1>7. Evs(events')
  BY NothingIsSeqn DEF Evs
<1>8. ASSUME NEW slot \in DOMAIN wanted PROVE Shown(slot)' = Shown(slot)
  <2> DEFINE k == ViewKind(slot)
             x == Seen(views, slot)
  <2>1. Shown(slot) = End(k, End(k, x, events), out)
    <3>1. Seqn(events) /\ Seqn(out)
      BY <1>1 DEF Evs
    <3> QED BY <3>1, EndCat DEF Shown, Coming
  <2>2. Shown(slot)' = End(k, Seen(v, slot), out)
    <3>1. << >> \o out = out
      BY <1>1, NothingBefore DEF Evs
    <3> QED BY <3>1 DEF Shown, Coming
  <2> QED BY <1>4, <1>8, <2>1, <2>2
<1> QED BY <1>4, <1>6, <1>7, <1>8

(* The frame drains and applies. *)
LEMMA DrainKeeps == ASSUME PaneKept, DrainEvents PROVE PaneKept'
<1>1. PaneInv'
  BY FrameStepKeeps DEF PaneKept, FrameStep
<1> DEFINE v == Recalled(ApplyEvents(views))
<1>2. /\ todo = << >> /\ Pump /\ views' = v /\ ui' \in {"free", "drift"} /\ events' = << >>
      /\ UNCHANGED <<chart, lane, todo, worker, out, wanted, used>>
  BY DEF DrainEvents
<1>3. v.shown = ApplyEvents(views).shown /\ v.next = views.next
  <2> DEFINE a == ApplyEvents(views)
  <2>1. ViewsOK(a) /\ a.next = views.next
    BY EventsKeepSlots DEF PaneKept, PaneInv
  <2> HIDE DEF a
  <2>2. Recalled(a).shown = a.shown /\ Recalled(a).next = a.next
    BY <2>1 DEF Recalled, ViewsOK
  <2> QED BY <2>1, <2>2 DEF a
<1> HIDE DEF v
<1>4. ShownOK' /\ Evs(events') /\ \A slot \in DOMAIN wanted : Shown(slot)' = Shown(slot)
  <2>1. ShownOK' /\ Evs(events')
    BY <1>2, <1>3, TakenIn
  <2>2. \A slot \in DOMAIN wanted : Shown(slot)' = Shown(slot)
    BY <1>2, <1>3, TakenIn
  <2> QED BY <2>1, <2>2
<1>5. /\ LinkOK(views.next, link') /\ Waiting(link') = Waiting(link)
      /\ counts' = [queued |-> counts'.queued, inflight |-> counts'.inflight,
                    deferred |-> counts'.deferred]
      /\ counts'.queued = Len(link'.chan) + Len(worker'.batch)
      /\ counts'.inflight = counts.inflight
  BY <1>2, PumpIs
<1>6. PaneTyped'
  BY <1>2, <1>3, <1>4, <1>5 DEF PaneKept, PaneTyped
<1>7. PhasesKept'
  <2>1. worker' = worker /\ out' = out /\ ui' # "settled" /\ todo' = << >>
    BY <1>2
  <2>2. /\ worker.phase = "publishing" => (worker.batch = << >> /\ counts'.inflight > 0)
        /\ counts'.inflight \in Nat
        /\ worker.phase = "idle" => out = << >>
    BY <1>5 DEF PaneKept, PhasesKept
  <2> QED BY <1>5, <2>1, <2>2 DEF PhasesKept
<1>8. Flight' = Flight
  BY <1>2, <1>5 DEF Flight
<1>9. BindingsKept' /\ SeriesKept' /\ ViewsFollow' /\ RowsFollow' /\ HostSynced'
  BY <1>2, <1>4, <1>8, FlightSeen
<1> QED BY <1>1, <1>6, <1>7, <1>9 DEF PaneKept

(* Nothing is on its way: the worker is where the user and the chart want   *)
(* it, and what will be shown is what the events in the channel leave.      *)
LEMMA Quieted ==
  ASSUME PaneKept, Quiet
  PROVE /\ Flight = << >> /\ Waiting(link) = << >> /\ Coming = events
        /\ \A k, x : End(k, x, Flight) = x
        /\ B!Entering(link) = 0 /\ B!Drain(link) = link
<1>1. todo = << >> /\ link.chan = << >> /\ link.parked = << >> /\ worker.batch = << >>
      /\ out = << >> /\ link = [chan |-> << >>, parked |-> << >>]
  BY DEF Quiet, B!NoLink
<1>2. Waiting(link) = << >>
  BY <1>1 DEF Waiting
<1>3. Flight = << >>
  BY <1>1, <1>2 DEF Flight
<1>4. Coming = events
  <2>1. Seqn(events)
    BY DEF PaneKept, PaneInv
  <2> DEFINE S == Elems(events)
  <2>2. events \in Seq(S)
    BY <2>1 DEF Seqn
  <2> HIDE DEF S
  <2>3. events \o << >> = events
    BY <2>2, ConcatEmptySeq
  <2> QED BY <1>1, <2>3 DEF Coming
<1>5. \A k, x : End(k, x, Flight) = x
  BY <1>3, EndNone
<1>6. B!Entering(link) = 0
  BY <1>1, PaneAssumption DEF B!Entering, B!Least
<1>7. B!Drain(link) = link
  BY <1>1, <1>6 DEF B!Drain
<1> QED BY <1>2, <1>3, <1>4, <1>5, <1>6, <1>7

(* A repair: the whole series once more, behind nothing.                    *)
LEMMA RepairKeeps ==
  ASSUME PaneKept, PaneInv', Quiet, Rebuilds(chart),
         UNCHANGED <<link, counts, worker, out, wanted, used>>,
         views'.next = views.next, ShownOK', Evs(events'), ui' = "free",
         \A slot \in DOMAIN wanted : Shown(slot)' = Shown(slot)
  PROVE PaneKept'
<1> DEFINE C == Cmds(views.next)
           r == RebuildCommand(chart)
           p == PartialCommand(chart, lane.rungs, 0)
           cs == <<r>>
           x == Series(worker.session)
           y == End(SeriesKind, x, cs)
           F == Forming(chart)
<1>1. Issue(chart, cs, 0) /\ chart' = chart
  BY DEF Rebuilds, Issue
<1>2. /\ ChartOK(chart) /\ LaneOK(lane) /\ x \in Sers /\ todo = << >>
  BY FlightIs DEF PaneKept, PaneTyped, Quiet
<1>3. r \in C /\ r.op = "Rebuild" /\ r.bars = Bars(chart)
  BY <1>2, RebuildIs
<1> HIDE DEF C, r
<1>4. cs \in Seq(C) /\ Only(SeriesOps, cs)
  BY <1>3 DEF Only, SeriesOps
<1>5. y = SeriesStep(x, r)
  BY EndOne, StepIs
<1>6. y = SeriesOf(Bars(chart), r.partial, << >>)
  BY <1>3, <1>5 DEF SeriesStep
<1>7. y.bars = Bars(chart) /\ y.run = << >>
  BY <1>6, SeriesFields
<1>8. SubSeq(F, 1, B!Least(0, Len(F))) = << >>
  <2>1. F \in Prints /\ Len(F) \in Nat
    BY <1>2, SeriesIs DEF Prints
  <2>2. B!Least(0, Len(F)) = 0
    BY <2>1 DEF B!Least
  <2> HIDE DEF F
  <2> QED BY <2>1, <2>2 DEF Prints
<1> HIDE DEF cs, x
<1>9. /\ LaneOK(lane') /\ lane'.sent = Unsent(chart', lane'.rungs)
      /\ todo' \in Seq(C) /\ Only(SeriesOps, todo')
      /\ SeriesTrue(chart', lane', End(SeriesKind, x, todo'))
  <2>1. lane.rungs > 0 /\ Forming(chart) # << >> =>
          y.run = SubSeq(Forming(chart), 1, B!Least(0, Len(Forming(chart))))
    BY <1>7, <1>8
  <2>2. y = End(SeriesKind, x, cs)
    OBVIOUS
  <2>3. 0 \in Nat
    OBVIOUS
  <2>4. y.bars = Bars(chart) \/ (~chart.opened /\ chart.trades = << >>)
    BY <1>7
  <2> HIDE DEF y
  <2> QED BY <1>1, <1>2, <1>4, <2>1, <2>2, <2>3, <2>4, Issued DEF C
<1>10. PaneTyped'
  BY <1>1, <1>2, <1>9 DEF PaneKept, PaneTyped, C
<1>11. PhasesKept'
  BY DEF PaneKept, PhasesKept
<1>12. ASSUME NEW k, NEW z PROVE End(k, z, Flight') = End(k, z, todo')
  <2>1. End(k, z, Flight') = End(k, End(k, z, Flight), todo')
    BY <1>2, <1>9, FlightGrows DEF PaneKept, C
  <2> QED BY <2>1, Quieted
<1>13. BindingsKept'
  <2> SUFFICES ASSUME NEW slot \in DOMAIN wanted
               PROVE End(BindKind(slot), Known(worker.session.slots, slot), Flight')
                       = Known(wanted, slot)
    BY DEF BindingsKept
  <2> DEFINE z == Known(worker.session.slots, slot)
  <2>1. z = Known(wanted, slot)
    BY Quieted DEF PaneKept, BindingsKept
  <2>2. Len(todo') \in Nat
    <3> HIDE DEF C
    <3> QED BY <1>9
  <2> HIDE DEF z
  <2>3. End(BindKind(slot), z, todo') = z
    BY <1>9, <2>2, SeriesOpsStay
  <2> QED BY <1>12, <2>1, <2>3 DEF z
<1>14. SeriesKept'
  <2>1. Series(worker'.session) = x
    BY DEF x
  <2> QED BY <1>9, <1>12, <2>1 DEF SeriesKept
<1>15. ViewsFollow'
  BY DEF ViewsFollow, PaneKept
<1>16. RowsFollow'
  <2>1. End(ReplayKind, "no", todo') = "yes"
    <3> DEFINE k == ReplayKind
    <3>1. todo' = Append(cs, p)
      BY <1>1 DEF Issue
    <3>2. Seqn(cs)
      BY <1>4, SeqIs
    <3> HIDE DEF p
    <3>3. End(k, "no", todo') = Step(k, End(k, "no", cs), p)
      BY <3>1, <3>2, EndAppend
    <3>4. End(k, "no", cs) = Step(k, "no", r)
      BY EndOne DEF cs
    <3>5. Step(k, "no", r) = "yes"
      BY <1>3, StepIs DEF Replays
    <3>6. Step(k, "yes", p) = "yes"
      BY StepIs
    <3> QED BY <3>3, <3>4, <3>5, <3>6
  <2> QED BY <1>12, <2>1 DEF RowsFollow
<1>17. HostSynced'
  BY DEF HostSynced, PaneKept
<1> QED BY <1>10, <1>11, <1>13, <1>14, <1>15, <1>16, <1>17 DEF PaneKept

(* A drift answered, or found to be none. *)
LEMMA AnswerKeeps == ASSUME PaneKept, AnswerDrift PROVE PaneKept'
<1>1. PaneInv'
  BY FrameStepKeeps DEF PaneKept, FrameStep
<1> DEFINE a == ApplyEvents(views)
           v == Recalled(a)
           drift == Unanswered(v) # {}
<1>2. /\ ui = "settled" /\ Pump /\ events' = << >>
      /\ views' = (IF drift THEN [v EXCEPT !.answered = @ \cup Drifted(v)] ELSE v)
      /\ IF drift THEN Rebuilds(chart) ELSE UNCHANGED <<chart, lane, todo>>
      /\ ui' = "free" /\ UNCHANGED <<worker, out, wanted, used>>
  BY DEF AnswerDrift
<1>3. views'.shown = a.shown /\ views'.next = views.next
  <2>1. ViewsOK(a) /\ a.next = views.next
    BY EventsKeepSlots DEF PaneKept, PaneInv
  <2> HIDE DEF a
  <2>2. v = [shown |-> a.shown, pending |-> a.pending,
             answered |-> {slot \in a.answered : ~InStep(a, slot)}, next |-> a.next]
    BY <2>1 DEF Recalled, ViewsOK
  <2>3. v.shown = a.shown /\ v.next = a.next
        /\ v = [shown |-> v.shown, pending |-> v.pending, answered |-> v.answered,
                next |-> v.next]
    BY <2>2
  <2>4. \A z : [v EXCEPT !.answered = z].shown = v.shown /\ [v EXCEPT !.answered = z].next = v.next
    BY <2>3
  <2>5. views' = v \/ \E z : views' = [v EXCEPT !.answered = z]
    BY <1>2
  <2> HIDE DEF v
  <2> QED BY <2>1, <2>3, <2>4, <2>5
<1>4. Quiet
  BY <1>2 DEF PaneKept, PhasesKept
<1>5. ShownOK' /\ Evs(events') /\ \A slot \in DOMAIN wanted : Shown(slot)' = Shown(slot)
  <2> DEFINE w == views'
  <2>1. w.shown = ApplyEvents(views).shown /\ views' = w /\ events' = << >> /\ out' = out
    BY <1>2, <1>3
  <2> HIDE DEF w
  <2>2. ShownOK' /\ Evs(events')
    BY <2>1, TakenIn
  <2>3. \A slot \in DOMAIN wanted : Shown(slot)' = Shown(slot)
    BY <2>1, TakenIn
  <2> QED BY <2>2, <2>3
<1>6. link' = link /\ counts' = counts
  <2>1. B!Entering(link) = 0 /\ B!Drain(link) = link
    BY <1>4, Quieted
  <2>2. counts = [queued |-> counts.queued, inflight |-> counts.inflight,
                  deferred |-> counts.deferred]
        /\ counts.queued = Len(link.chan) + Len(worker.batch)
    BY DEF PaneKept, PhasesKept
  <2>3. counts.queued \in Nat
    <3>1. Len(link.chan) = 0 /\ Len(worker.batch) = 0
      BY <1>4 DEF Quiet, B!NoLink
    <3> QED BY <2>2, <3>1
  <2>4. link' = link /\ counts' = [counts EXCEPT !.queued = @ + 0]
    BY <1>2, <2>1 DEF Pump
  <2>5. counts.queued + 0 = counts.queued
    BY <2>3
  <2>6. counts' = [counts EXCEPT !.queued = counts.queued]
    BY <2>4, <2>5
  <2>7. [counts EXCEPT !.queued = counts.queued] = counts
    BY <2>2
  <2> QED BY <2>4, <2>6, <2>7
<1> HIDE DEF drift
<1>7. CASE drift
  <2>1. Rebuilds(chart)
    BY <1>2, <1>7
  <2>2. UNCHANGED <<link, counts, worker, out, wanted, used>> /\ ui' = "free"
    BY <1>2, <1>6
  <2> QED BY <1>1, <1>3, <1>4, <1>5, <2>1, <2>2, RepairKeeps
<1>8. CASE ~drift
  <2>1. UNCHANGED <<chart, lane, todo, link, counts, worker, out, wanted, used>> /\ ui' = "free"
    BY <1>2, <1>6, <1>8
  <2>2. PaneTyped'
    BY <1>3, <1>5, <2>1 DEF PaneKept, PaneTyped
  <2>3. PhasesKept'
    BY <2>1 DEF PaneKept, PhasesKept
  <2>4. Flight' = Flight
    BY <2>1 DEF Flight, Waiting
  <2>5. BindingsKept' /\ SeriesKept' /\ ViewsFollow' /\ RowsFollow' /\ HostSynced'
    BY <1>5, <2>1, <2>4, FlightSeen
  <2> QED BY <1>1, <2>2, <2>3, <2>5 DEF PaneKept
<1> QED BY <1>7, <1>8

-----------------------------------------------------------------------------
(* One batch. *)

(* A function that takes each value from the one before it exists, and is   *)
(* the one such a definition chooses.                                       *)
Stepped(k, x, cs, g) ==
  [i \in 0 .. Len(cs) |-> IF i = 0 THEN x ELSE Step(k, g[i - 1], cs[i])]

Chosen(k, x, cs) == CHOOSE g : g = Stepped(k, x, cs, g)
(* It steps as its definition says. *)
LEMMA ChosenSteps ==
  ASSUME NEW k, NEW x, NEW cs, Len(cs) \in Nat, NEW f,
         f = Chosen(k, x, cs)
  PROVE f[0] = x /\ \A n \in 1 .. Len(cs) : f[n] = Step(k, f[n - 1], cs[n])
<1> DEFINE L == Len(cs)
<1>1. PICK t : Trail(k, x, cs, t)
  BY TrailExists
<1> DEFINE h == [i \in 0 .. L |-> t[i]]
<1>2. h = Stepped(k, x, cs, h)
  <2>1. \A i \in 0 .. L : h[i] = IF i = 0 THEN x ELSE Step(k, h[i - 1], cs[i])
    BY <1>1 DEF Trail
  <2> QED BY <2>1 DEF Stepped
<1> HIDE DEF h
<1>3. f = Stepped(k, x, cs, f)
  BY <1>2 DEF Chosen
<1>4. \A i \in 0 .. L : Stepped(k, x, cs, f)[i] = IF i = 0 THEN x ELSE Step(k, f[i - 1], cs[i])
  BY DEF Stepped
<1> DEFINE e == Stepped(k, x, cs, f)
<1>5. e = f
  BY <1>3
<1> HIDE DEF e
<1>6. \A i \in 0 .. L : f[i] = IF i = 0 THEN x ELSE Step(k, f[i - 1], cs[i])
  BY <1>4, <1>5 DEF e
<1> QED BY <1>6

(* drain_taken: one command after another, superseded inputs left out.      *)
LEMMA BatchSteps ==
  ASSUME NEW s, NEW q, Len(q) \in Nat
  PROVE \E t : /\ t[0] = BeginBatch(s) /\ ApplyBatch(s, q) = t[Len(q)]
               /\ \A n \in 1 .. Len(q) :
                    t[n] = IF Keeps(q, n) THEN ApplyCommand(t[n - 1], q[n]) ELSE t[n - 1]
<1> DEFINE L == Len(q)
           k == BatchKind(q)
           x == BeginBatch(s)
           ix == [i \in 1 .. L |-> i]
           f == CHOOSE g : g = [i \in 0 .. L |->
                  IF i = 0 THEN x
                  ELSE IF Keeps(q, i) THEN ApplyCommand(g[i - 1], q[i]) ELSE g[i - 1]]
<1>1. ApplyBatch(s, q) = f[L]
  BY DEF ApplyBatch
<1>2. Len(ix) = L /\ \A i \in 1 .. L : ix[i] = i
  OBVIOUS
<1> HIDE DEF ix
<1>3. \A z, i : Step(k, z, i) = IF Keeps(q, i) THEN ApplyCommand(z, q[i]) ELSE z
  BY DEF Step, BatchKind
<1> HIDE DEF k, x
<1>4. \A g : [i \in 0 .. L |-> IF i = 0 THEN x ELSE IF Keeps(q, i) THEN ApplyCommand(g[i - 1], q[i])
                                                    ELSE g[i - 1]]
               = Stepped(k, x, ix, g)
  BY <1>2, <1>3 DEF Stepped
<1>5. f = Chosen(k, x, ix)
  BY <1>4 DEF Chosen
<1> HIDE DEF f
<1>6. f[0] = x /\ \A n \in 1 .. L : f[n] = Step(k, f[n - 1], ix[n])
  BY <1>2, <1>5, ChosenSteps
<1> QED BY <1>1, <1>2, <1>3, <1>6 DEF x

(* drain_taken: the deltas of one slot after another.                       *)
LEMMA SentSteps ==
  ASSUME NEW a, Len(InOrder(Loaded(a))) \in Nat
  PROVE \E t : /\ t[0] = a.out /\ Sent(a) = t[Len(InOrder(Loaded(a)))]
               /\ \A n \in 1 .. Len(InOrder(Loaded(a))) :
                    t[n] = t[n - 1] \o Deltas(a, InOrder(Loaded(a))[n])
<1> DEFINE slots == InOrder(Loaded(a))
           L == Len(slots)
           k == SentKind(a, slots)
           x == a.out
           join(z, i) == z \o Deltas(a, slots[i])
           ix == [i \in 1 .. L |-> i]
           f == CHOOSE g : g = [i \in 0 .. L |-> IF i = 0 THEN x ELSE join(g[i - 1], i)]
<1>1. Sent(a) = f[L]
  BY DEF Sent
<1>7. \A z, i : join(z, i) = z \o Deltas(a, slots[i])
  OBVIOUS
<1>3. \A z, i : Step(k, z, i) = join(z, i)
  BY DEF Step, SentKind
<1> HIDE DEF slots, join
<1>2. Len(ix) = L /\ \A i \in 1 .. L : ix[i] = i
  OBVIOUS
<1> HIDE DEF ix
<1> HIDE DEF k, x
<1>4. \A g : [i \in 0 .. L |-> IF i = 0 THEN x ELSE join(g[i - 1], i)] = Stepped(k, x, ix, g)
  BY <1>2, <1>3 DEF Stepped
<1>5. f = Chosen(k, x, ix)
  BY <1>4 DEF Chosen
<1> HIDE DEF f
<1>8. Len(ix) \in Nat
  BY <1>2 DEF slots
<1>6. f[0] = x /\ \A n \in 1 .. Len(ix) : f[n] = Step(k, f[n - 1], ix[n])
  <2> HIDE DEF L
  <2> QED BY <1>5, <1>8, ChosenSteps
<1>9. \A n \in 1 .. L : f[n] = join(f[n - 1], n)
  BY <1>2, <1>3, <1>6
<1>10. \A n \in 1 .. L : f[n] = f[n - 1] \o Deltas(a, slots[n])
  BY <1>7, <1>9, Zenon
<1> HIDE DEF L
<1>11. f[0] = a.out /\ Sent(a) = f[L] /\ \A n \in 1 .. L : f[n] = f[n - 1] \o Deltas(a, slots[n])
  BY <1>1, <1>6, <1>10, Zenon DEF x
<1> QED BY <1>11, Zenon DEF L, slots

-----------------------------------------------------------------------------
(* The fold of a batch, field by field. *)
Host(bars, partial, run, slots) ==
  [bars |-> bars, partial |-> partial, run |-> run, slots |-> slots]
Acc(s, partial, rungs, rebuilt, sent) ==
  [s |-> s, partial |-> partial, rungs |-> rungs, rebuilt |-> rebuilt, out |-> sent]

(* Their fields. *)
LEMMA HostFields ==
  ASSUME NEW b, NEW p, NEW r, NEW f
  PROVE /\ Host(b, p, r, f).bars = b /\ Host(b, p, r, f).partial = p
        /\ Host(b, p, r, f).run = r /\ Host(b, p, r, f).slots = f
BY DEF Host

(* Of the fold. *)
LEMMA AccFields ==
  ASSUME NEW s, NEW P, NEW R, NEW B1, NEW O
  PROVE /\ Acc(s, P, R, B1, O).s = s /\ Acc(s, P, R, B1, O).partial = P
        /\ Acc(s, P, R, B1, O).rungs = R /\ Acc(s, P, R, B1, O).rebuilt = B1
        /\ Acc(s, P, R, B1, O).out = O
BY DEF Acc

(* One field replaced. *)
LEMMA HostBars ==
  ASSUME NEW b, NEW p, NEW r, NEW f, NEW x
  PROVE [Host(b, p, r, f) EXCEPT !.bars = x] = Host(x, p, r, f)
BY DEF Host

(* The forming bar. *)
LEMMA HostPartial ==
  ASSUME NEW b, NEW p, NEW r, NEW f, NEW x
  PROVE [Host(b, p, r, f) EXCEPT !.partial = x] = Host(b, x, r, f)
BY DEF Host

(* The lane's run. *)
LEMMA HostRun ==
  ASSUME NEW b, NEW p, NEW r, NEW f, NEW x
  PROVE [Host(b, p, r, f) EXCEPT !.run = x] = Host(b, p, x, f)
BY DEF Host

(* The slots. *)
LEMMA HostSlots ==
  ASSUME NEW b, NEW p, NEW r, NEW f, NEW x
  PROVE [Host(b, p, r, f) EXCEPT !.slots = x] = Host(b, p, r, x)
BY DEF Host

(* The host. *)
LEMMA AccHost ==
  ASSUME NEW s, NEW P, NEW R, NEW B1, NEW O, NEW x
  PROVE [Acc(s, P, R, B1, O) EXCEPT !.s = x] = Acc(x, P, R, B1, O)
BY DEF Acc

(* The last forming bar. *)
LEMMA AccPartial ==
  ASSUME NEW s, NEW P, NEW R, NEW B1, NEW O, NEW x
  PROVE [Acc(s, P, R, B1, O) EXCEPT !.partial = x] = Acc(s, x, R, B1, O)
BY DEF Acc

(* The last budget. *)
LEMMA AccRungs ==
  ASSUME NEW s, NEW P, NEW R, NEW B1, NEW O, NEW x
  PROVE [Acc(s, P, R, B1, O) EXCEPT !.rungs = x] = Acc(s, P, x, B1, O)
BY DEF Acc

(* Whether everything was replayed. *)
LEMMA AccRebuilt ==
  ASSUME NEW s, NEW P, NEW R, NEW B1, NEW O, NEW x
  PROVE [Acc(s, P, R, B1, O) EXCEPT !.rebuilt = x] = Acc(s, P, R, x, O)
BY DEF Acc

(* What was sent. *)
LEMMA AccOut ==
  ASSUME NEW s, NEW P, NEW R, NEW B1, NEW O, NEW x
  PROVE [Acc(s, P, R, B1, O) EXCEPT !.out = x] = Acc(s, P, R, B1, x)
BY DEF Acc

(* CutLane. *)
LEMMA CutIs ==
  ASSUME NEW b, NEW p, NEW r, NEW f, NEW P, NEW R, NEW B1, NEW O
  PROVE CutLane(Acc(Host(b, p, r, f), P, R, B1, O))
          = Acc(Host(b, p, << >>, f), None, None, B1, O)
<1> DEFINE a0 == Acc(Host(b, p, r, f), P, R, B1, O)
           n == << >>
           a1 == [a0 EXCEPT !.s.run = n]
           a2 == [a1 EXCEPT !.partial = None]
<1>1. CutLane(a0) = [a2 EXCEPT !.rungs = None]
  BY DEF CutLane
<1>2. a1 = [a0 EXCEPT !.s = [a0.s EXCEPT !.run = n]]
  OBVIOUS
<1> HIDE DEF n
<1>3. a1 = Acc(Host(b, p, n, f), P, R, B1, O)
  BY <1>2, HostBars, HostPartial, HostRun, HostSlots, AccHost, AccFields
<1> HIDE DEF a1
<1>4. a2 = Acc(Host(b, p, n, f), None, R, B1, O)
  BY <1>3, AccPartial, AccRungs, AccRebuilt
<1> HIDE DEF a2
<1> QED BY <1>1, <1>4, AccPartial, AccRungs, AccRebuilt DEF n

(* Replay. *)
LEMMA ReplayIs ==
  ASSUME NEW b, NEW p, NEW r, NEW f, NEW P, NEW R, NEW B1, NEW O, NEW x, NEW y
  PROVE Replay(Acc(Host(b, p, r, f), P, R, B1, O), x, y)
          = Acc(Host(x, y, << >>, f), None, None, Yes, O)
<1> DEFINE a0 == CutLane(Acc(Host(b, p, r, f), P, R, B1, O))
           n == << >>
           a1 == [a0 EXCEPT !.s.bars = x]
           a2 == [a1 EXCEPT !.s.partial = y]
<1>1. Replay(Acc(Host(b, p, r, f), P, R, B1, O), x, y) = [a2 EXCEPT !.rebuilt = Yes]
  BY DEF Replay, Yes
<1>2. a1 = [a0 EXCEPT !.s = [a0.s EXCEPT !.bars = x]]
      /\ a2 = [a1 EXCEPT !.s = [a1.s EXCEPT !.partial = y]]
  OBVIOUS
<1>3. a0 = Acc(Host(b, p, n, f), None, None, B1, O)
  BY CutIs
<1> HIDE DEF n, a0, a1, a2
<1>4. a1 = Acc(Host(x, p, n, f), None, None, B1, O)
  BY <1>2, <1>3, HostBars, HostPartial, HostRun, HostSlots, AccHost, AccFields
<1>8. a1.s = Host(x, p, n, f)
  BY <1>4, AccFields
<1>5. a2 = Acc(Host(x, y, n, f), None, None, B1, O)
  <2> DEFINE e == [a1.s EXCEPT !.partial = y]
  <2>1. e = Host(x, y, n, f)
    BY <1>8, HostPartial
  <2>2. a2 = [a1 EXCEPT !.s = e]
    BY <1>2
  <2> HIDE DEF e
  <2>3. a2 = [Acc(Host(x, p, n, f), None, None, B1, O) EXCEPT !.s = e]
    BY <1>4, <2>2
  <2> QED BY <2>1, <2>3, AccHost
<1>6. [a2 EXCEPT !.rebuilt = Yes] = Acc(Host(x, y, n, f), None, None, Yes, O)
  BY <1>5, AccPartial, AccRungs, AccRebuilt
<1> QED BY <1>1, <1>6 DEF n

(* CloseBar. *)
LEMMA CloseIs ==
  ASSUME NEW b, NEW p, NEW r, NEW f, NEW P, NEW R, NEW B1, NEW O, NEW x
  PROVE CloseBar(Acc(Host(b, p, r, f), P, R, B1, O), x)
          = Acc(Host(Append(b, x), << >>, << >>, f), None, None, B1, O)
<1> DEFINE a0 == CutLane(Acc(Host(b, p, r, f), P, R, B1, O))
           n == << >>
           c == Append(b, x)
           a1 == [a0 EXCEPT !.s.bars = c]
           a2 == [a1 EXCEPT !.s.partial = n]
<1>3. a0 = Acc(Host(b, p, n, f), None, None, B1, O)
  BY CutIs
<1>7. a0.s.bars = b
  <2> HIDE DEF a0, n
  <2> QED BY <1>3, AccFields, HostFields
<1>1. CloseBar(Acc(Host(b, p, r, f), P, R, B1, O), x) = a2
  BY <1>7 DEF CloseBar
<1>2. a1 = [a0 EXCEPT !.s = [a0.s EXCEPT !.bars = c]]
      /\ a2 = [a1 EXCEPT !.s = [a1.s EXCEPT !.partial = n]]
  OBVIOUS
<1> HIDE DEF n, a0, a1, a2, c
<1>4. a1 = Acc(Host(c, p, n, f), None, None, B1, O)
  BY <1>2, <1>3, HostBars, HostPartial, HostRun, HostSlots, AccHost, AccFields
<1>8. a1.s = Host(c, p, n, f)
  BY <1>4, AccFields
<1>5. a2 = Acc(Host(c, n, n, f), None, None, B1, O)
  <2> DEFINE e == [a1.s EXCEPT !.partial = n]
  <2>1. e = Host(c, n, n, f)
    BY <1>8, HostPartial
  <2>2. a2 = [a1 EXCEPT !.s = e]
    BY <1>2
  <2> HIDE DEF e
  <2>3. a2 = [Acc(Host(c, p, n, f), None, None, B1, O) EXCEPT !.s = e]
    BY <1>4, <2>2
  <2> QED BY <2>1, <2>3, AccHost
<1> QED BY <1>1, <1>5 DEF n, c

(* UpdatePartial. *)
LEMMA UpdateIs ==
  ASSUME NEW b, NEW p, NEW r, NEW f, NEW P, NEW R, NEW B1, NEW O, NEW c
  PROVE UpdatePartial(Acc(Host(b, p, r, f), P, R, B1, O), c)
          = Acc(Host(b, p, IF Clears(c) THEN << >> ELSE r \o c.run, f), c.partial, c.rungs, B1, O)
<1> DEFINE a0 == Acc(Host(b, p, r, f), P, R, B1, O)
           n == IF Clears(c) THEN << >> ELSE r \o c.run
           a1 == [a0 EXCEPT !.s.run = n]
           a2 == [a1 EXCEPT !.partial = c.partial]
<1>7. a0.s.run = r
  BY AccFields, HostFields
<1>1. UpdatePartial(a0, c) = [a2 EXCEPT !.rungs = c.rungs]
  BY <1>7 DEF UpdatePartial
<1>2. a1 = [a0 EXCEPT !.s = [a0.s EXCEPT !.run = n]]
  OBVIOUS
<1> HIDE DEF n
<1>3. a1 = Acc(Host(b, p, n, f), P, R, B1, O)
  BY <1>2, HostBars, HostPartial, HostRun, HostSlots, AccHost, AccFields
<1> HIDE DEF a1
<1>4. a2 = Acc(Host(b, p, n, f), c.partial, R, B1, O)
  BY <1>3, AccPartial, AccRungs, AccRebuilt
<1> HIDE DEF a2
<1>5. [a2 EXCEPT !.rungs = c.rungs] = Acc(Host(b, p, n, f), c.partial, c.rungs, B1, O)
  BY <1>4, AccPartial, AccRungs, AccRebuilt
<1> QED BY <1>1, <1>5 DEF n

(* Other slots, and with them other events. *)
LEMMA SlotsWith ==
  ASSUME NEW b, NEW p, NEW r, NEW f, NEW P, NEW R, NEW B1, NEW O, NEW g
  PROVE [Acc(Host(b, p, r, f), P, R, B1, O) EXCEPT !.s.slots = g]
          = Acc(Host(b, p, r, g), P, R, B1, O)
<1> DEFINE a0 == Acc(Host(b, p, r, f), P, R, B1, O)
<1>1. [a0 EXCEPT !.s.slots = g] = [a0 EXCEPT !.s = [a0.s EXCEPT !.slots = g]]
  OBVIOUS
<1> QED BY <1>1, HostBars, HostPartial, HostRun, HostSlots, AccHost, AccFields

(* The slots a host holds, one of them put in, replaced or taken out.       *)
OtherwiseSame(f, g, slot) ==
  /\ DOMAIN g \ {slot} = DOMAIN f \ {slot}
  /\ \A k \in DOMAIN f : k # slot => g[k] = f[k]

(* Put in. *)
LEMMA PutIn ==
  ASSUME NEW n, NEW f, SlotsOK(n, f), NEW slot \in 0 .. n - 1, NEW m \in Mirrors,
         NEW g, g = With(f, slot, m)
  PROVE /\ SlotsOK(n, g) /\ OtherwiseSame(f, g, slot)
        /\ slot \in DOMAIN g /\ g[slot] = m
<1> DEFINE M == Mirrors
<1>1. DOMAIN g = DOMAIN f \cup {slot} /\ g[slot] = m
      /\ \A k \in DOMAIN f : k # slot => g[k] = f[k]
  BY DEF With
<1>2. g = [k \in DOMAIN g |-> g[k]]
  BY DEF With
<1>3. DOMAIN f \subseteq 0 .. n - 1 /\ \A k \in DOMAIN f : f[k] \in M
  BY DEF SlotsOK
<1> HIDE DEF M
<1>4. \A k \in DOMAIN g : g[k] \in M
  BY <1>1, <1>3 DEF M
<1> QED BY <1>1, <1>2, <1>3, <1>4 DEF SlotsOK, OtherwiseSame, M

(* Replaced. *)
LEMMA PutOver ==
  ASSUME NEW n, NEW f, SlotsOK(n, f), NEW slot \in DOMAIN f, NEW m \in Mirrors,
         NEW g, g = [f EXCEPT ![slot] = m]
  PROVE /\ SlotsOK(n, g) /\ OtherwiseSame(f, g, slot)
        /\ slot \in DOMAIN g /\ g[slot] = m
<1> DEFINE M == Mirrors
<1>1. DOMAIN g = DOMAIN f /\ \A k \in DOMAIN f : k # slot => g[k] = f[k]
  OBVIOUS
<1>5. g[slot] = m
  OBVIOUS
<1>2. g = [k \in DOMAIN g |-> g[k]]
  OBVIOUS
<1>3. DOMAIN f \subseteq 0 .. n - 1 /\ \A k \in DOMAIN f : f[k] \in M
  BY DEF SlotsOK
<1> HIDE DEF M
<1>4. \A k \in DOMAIN g : g[k] \in M
  BY <1>1, <1>3, <1>5 DEF M
<1> QED BY <1>1, <1>2, <1>3, <1>4, <1>5 DEF SlotsOK, OtherwiseSame, M

(* Taken out. *)
LEMMA TakenOut ==
  ASSUME NEW n, NEW f, SlotsOK(n, f), NEW slot, NEW g, g = Without(f, slot)
  PROVE SlotsOK(n, g) /\ OtherwiseSame(f, g, slot) /\ slot \notin DOMAIN g
<1>1. DOMAIN g = DOMAIN f \ {slot} /\ \A k \in DOMAIN g : g[k] = f[k]
  BY DEF Without
<1>2. g = [k \in DOMAIN g |-> g[k]]
  BY DEF Without
<1> QED BY <1>1, <1>2 DEF SlotsOK, OtherwiseSame

(* The fold so far is well formed. *)
IsAcc(n, a) ==
  /\ a = Acc(a.s, a.partial, a.rungs, a.rebuilt, a.out) /\ HostOK(n, a.s)
  /\ a.partial \in Prints \cup {None} /\ a.rebuilt \in BOOLEAN /\ Evs(a.out)

(* So are its parts. *)
LEMMA AccParts ==
  ASSUME NEW n, NEW a, IsAcc(n, a)
  PROVE /\ a = Acc(Host(a.s.bars, a.s.partial, a.s.run, a.s.slots), a.partial, a.rungs,
                   a.rebuilt, a.out)
        /\ a.s = Host(a.s.bars, a.s.partial, a.s.run, a.s.slots)
        /\ a.s.bars \in Cuts /\ a.s.partial \in Prints /\ a.s.run \in Prints
        /\ SlotsOK(n, a.s.slots)
        /\ a.partial \in Prints \cup {None} /\ a.rebuilt \in BOOLEAN /\ Evs(a.out)
<1>1. a.s = Host(a.s.bars, a.s.partial, a.s.run, a.s.slots)
  BY DEF IsAcc, HostOK, Host
<1>2. a = Acc(a.s, a.partial, a.rungs, a.rebuilt, a.out)
  BY DEF IsAcc
<1>3. a = Acc(Host(a.s.bars, a.s.partial, a.s.run, a.s.slots), a.partial, a.rungs,
                   a.rebuilt, a.out)
  BY <1>1, <1>2, Zenon
<1> QED BY <1>1, <1>3 DEF IsAcc, HostOK

(* And what is made of such parts is well formed. *)
LEMMA AccMade ==
  ASSUME NEW n, NEW b \in Cuts, NEW p \in Prints, NEW r \in Prints, NEW f, SlotsOK(n, f),
         NEW P \in Prints \cup {None}, NEW R, NEW B1 \in BOOLEAN, NEW O, Evs(O),
         NEW z, z = Acc(Host(b, p, r, f), P, R, B1, O)
  PROVE /\ IsAcc(n, z) /\ z.s.bars = b /\ z.s.partial = p /\ z.s.run = r /\ z.s.slots = f
        /\ z.partial = P /\ z.rungs = R /\ z.rebuilt = B1 /\ z.out = O
<1> DEFINE h == Host(b, p, r, f)
<1>1. h.bars = b /\ h.partial = p /\ h.run = r /\ h.slots = f
  BY HostFields
<1>2. h = [bars |-> h.bars, partial |-> h.partial, run |-> h.run, slots |-> h.slots]
  BY DEF Host
<1> HIDE DEF h
<1>3. HostOK(n, h)
  BY <1>1, <1>2 DEF HostOK
<1>4. z.s = h /\ z.partial = P /\ z.rungs = R /\ z.rebuilt = B1 /\ z.out = O
  BY AccFields DEF h
<1>5. z = Acc(z.s, z.partial, z.rungs, z.rebuilt, z.out)
  BY <1>4, Zenon DEF h
<1>6. IsAcc(n, z)
  BY <1>3, <1>4, <1>5 DEF IsAcc
<1> QED BY <1>1, <1>4, <1>6

-----------------------------------------------------------------------------
(* One command of a batch. *)

(* The series a batch has reached: the last forming bar it was told of      *)
(* counts, though it is only put in place at the end.                       *)
Held(a) == SeriesOf(a.s.bars, IF a.partial = None THEN a.s.partial ELSE a.partial, a.s.run)

(* Bars behind those there were. *)
Grown(b, c) == Len(b) <= Len(c) /\ \A i \in 1 .. Len(b) : c[i] = b[i]

(* A forming bar is told from none. *)
LEMMA PrintsAreTold == None \notin Prints
BY PaneAssumption DEF Prints

(* Bars are a prefix of themselves, and of themselves and one more. *)
LEMMA GrownIs ==
  ASSUME NEW b \in Cuts, NEW x \in Prints
  PROVE Grown(b, b) /\ Grown(b, Append(b, x)) /\ Append(b, x) \in Cuts
<1> DEFINE P == Prints
<1>1. b \in Seq(P) /\ x \in P
  BY DEF Cuts, Prints
<1> HIDE DEF P
<1>2. Len(Append(b, x)) = Len(b) + 1 /\ (\A i \in 1 .. Len(b) : Append(b, x)[i] = b[i])
      /\ Append(b, x) \in Seq(P) /\ Len(b) \in Nat
  BY <1>1
<1>3. Append(b, x) \in Cuts
  BY <1>2 DEF P, Cuts, Prints
<1> QED BY <1>2, <1>3 DEF Grown

(* And a prefix of a prefix is one. *)
LEMMA GrownOn ==
  ASSUME NEW b \in Cuts, NEW c \in Cuts, NEW d \in Cuts, Grown(b, c), Grown(c, d)
  PROVE Grown(b, d)
<1> DEFINE P == Prints
<1>1. b \in Seq(P) /\ c \in Seq(P) /\ d \in Seq(P)
  BY DEF Cuts, Prints
<1> HIDE DEF P
<1>2. Len(b) \in Nat /\ Len(c) \in Nat /\ Len(d) \in Nat
  BY <1>1
<1>3. Len(b) <= Len(c) /\ Len(c) <= Len(d) /\ (\A i \in 1 .. Len(b) : c[i] = b[i])
      /\ (\A i \in 1 .. Len(c) : d[i] = c[i])
  BY DEF Grown
<1>4. \A i \in 1 .. Len(b) : d[i] = b[i]
  BY <1>2, <1>3
<1> QED BY <1>2, <1>3, <1>4 DEF Grown

(* What a command of the series leaves of the fold. *)
SeriesDone(n, a, z, c) ==
  /\ IsAcc(n, z) /\ z.s.slots = a.s.slots /\ z.out = a.out /\ Held(z) = SeriesStep(Held(a), c)
  /\ IF Replays(c) THEN z.rebuilt = Yes ELSE z.rebuilt = a.rebuilt /\ Grown(a.s.bars, z.s.bars)

(* Backfilled and Rebuild. *)
LEMMA ReplayDoes ==
  ASSUME NEW n, NEW a, IsAcc(n, a), NEW c \in Cmds(n), c.op \in {"Backfilled", "Rebuild"},
         NEW z, z = ApplyCommand(a, c)
  PROVE SeriesDone(n, a, z, c)
<1> DEFINE p == IF c.op = "Backfilled" THEN << >> ELSE c.partial
           e == << >>
           b == c.bars
<1>1. z = Replay(a, b, p)
  BY DEF ApplyCommand
<1>2. b \in Cuts /\ p \in Prints /\ e \in Prints
  BY CmdIs DEF Prints
<1>3. SeriesStep(Held(a), c) = SeriesOf(b, p, e) /\ Replays(c)
  BY DEF SeriesStep, Replays
<1>4. z = Acc(Host(b, p, e, a.s.slots), None, None, Yes, a.out)
  <2>1. a = Acc(Host(a.s.bars, a.s.partial, a.s.run, a.s.slots), a.partial, a.rungs,
                a.rebuilt, a.out)
    BY AccParts, Zenon
  <2> HIDE DEF p, b
  <2> QED BY <1>1, <2>1, ReplayIs DEF e
<1>5. SlotsOK(n, a.s.slots) /\ Evs(a.out)
  BY AccParts
<1>6. Yes \in BOOLEAN
  BY DEF Yes
<1> HIDE DEF p, e, b
<1>7. /\ IsAcc(n, z) /\ z.s.bars = b /\ z.s.partial = p /\ z.s.run = e /\ z.s.slots = a.s.slots
      /\ z.partial = None /\ z.rungs = None /\ z.rebuilt = Yes /\ z.out = a.out
  BY <1>2, <1>4, <1>5, <1>6, AccMade
<1>8. Held(z) = SeriesOf(b, p, e)
  BY <1>7 DEF Held
<1> QED BY <1>3, <1>7, <1>8 DEF SeriesDone

(* BarClosed. *)
LEMMA CloseDoes ==
  ASSUME NEW n, NEW a, IsAcc(n, a), NEW c \in Cmds(n), c.op = "BarClosed",
         NEW z, z = ApplyCommand(a, c)
  PROVE SeriesDone(n, a, z, c)
<1> DEFINE e == << >>
           b == Append(a.s.bars, c.bar)
<1>1. z = CloseBar(a, c.bar)
  BY DEF ApplyCommand
<1>9. SlotsOK(n, a.s.slots) /\ Evs(a.out) /\ a.s.bars \in Cuts /\ a.rebuilt \in BOOLEAN
  BY AccParts
<1>2. b \in Cuts /\ e \in Prints /\ Grown(a.s.bars, b)
  BY <1>9, CmdIs, GrownIs DEF Prints
<1>3. SeriesStep(Held(a), c) = SeriesOf(b, e, e) /\ ~Replays(c)
  <2>1. Held(a).bars = a.s.bars
    BY SeriesFields DEF Held
  <2> QED BY <2>1 DEF SeriesStep, Replays
<1>4. z = Acc(Host(b, e, e, a.s.slots), None, None, a.rebuilt, a.out)
  <2>1. a = Acc(Host(a.s.bars, a.s.partial, a.s.run, a.s.slots), a.partial, a.rungs,
                a.rebuilt, a.out)
    BY AccParts, Zenon
  <2> QED BY <1>1, <2>1, CloseIs
<1> HIDE DEF e, b
<1>7. /\ IsAcc(n, z) /\ z.s.bars = b /\ z.s.partial = e /\ z.s.run = e /\ z.s.slots = a.s.slots
      /\ z.partial = None /\ z.rungs = None /\ z.rebuilt = a.rebuilt /\ z.out = a.out
  BY <1>2, <1>4, <1>9, AccMade
<1>8. Held(z) = SeriesOf(b, e, e)
  BY <1>7 DEF Held
<1> QED BY <1>2, <1>3, <1>7, <1>8 DEF SeriesDone

(* PartialUpdated. *)
LEMMA UpdateDoes ==
  ASSUME NEW n, NEW a, IsAcc(n, a), NEW c \in Cmds(n), c.op = "PartialUpdated",
         NEW z, z = ApplyCommand(a, c)
  PROVE SeriesDone(n, a, z, c)
<1> DEFINE r == IF Clears(c) THEN << >> ELSE a.s.run \o c.run
           p == c.partial
           b == a.s.bars
<1>1. z = UpdatePartial(a, c)
  BY DEF ApplyCommand
<1>9. /\ SlotsOK(n, a.s.slots) /\ Evs(a.out) /\ b \in Cuts /\ a.rebuilt \in BOOLEAN
      /\ a.s.run \in Prints /\ a.s.partial \in Prints
  BY AccParts
<1>2. r \in Prints /\ p \in Prints /\ p # None
  BY <1>9, CmdIs, PrintsAreTold DEF Prints
<1>3. SeriesStep(Held(a), c) = SeriesOf(b, p, r) /\ ~Replays(c)
  <2>1. Held(a).bars = b /\ Held(a).run = a.s.run
    BY SeriesFields DEF Held
  <2> QED BY <2>1 DEF SeriesStep, Replays
<1>4. z = Acc(Host(b, a.s.partial, r, a.s.slots), p, c.rungs, a.rebuilt, a.out)
  <2>1. a = Acc(Host(b, a.s.partial, a.s.run, a.s.slots), a.partial, a.rungs,
                a.rebuilt, a.out)
    BY AccParts, Zenon
  <2> QED BY <1>1, <2>1, UpdateIs
<1>5. Grown(b, b)
  BY <1>2, <1>9, GrownIs
<1> HIDE DEF r, p, b
<1>7. /\ IsAcc(n, z) /\ z.s.bars = b /\ z.s.partial = a.s.partial /\ z.s.run = r
      /\ z.s.slots = a.s.slots
      /\ z.partial = p /\ z.rungs = c.rungs /\ z.rebuilt = a.rebuilt /\ z.out = a.out
  BY <1>2, <1>4, <1>9, AccMade
<1>8. Held(z) = SeriesOf(b, p, r)
  BY <1>2, <1>7 DEF Held
<1> QED BY <1>3, <1>5, <1>7, <1>8 DEF SeriesDone, b

(* Halfway through a batch, whose bars were b before it, with the events    *)
(* sent so far taken in: a slot that did not load says so, and one the      *)
(* worker has not touched is as it was.                                     *)
UpToDate(m, w, b, still) ==
  /\ Follows(m, w) /\ m.known = Len(Column(m.src, b)) /\ m.told = Failed(m.src, b)
  /\ still = "no" => w.view.rows = Column(m.src, b) /\ w.view.error = Failed(m.src, b)
Halfway(m, w, b, still) ==
  IF ~m.loaded THEN Follows(m, w) ELSE m.synced => UpToDate(m, w, b, still)
HalfShown(f, slot, w, b, still) ==
  Viewed(w) /\ (slot \in DOMAIN f => Halfway(f[slot], w, b, still))

(* Events of one slot. *)
Of(slot, d) == Evs(d) /\ \A i \in 1 .. Len(d) : d[i].slot = slot

(* What a command of a slot leaves of the fold. *)
SlotDone(n, a, z, c) ==
  /\ IsAcc(n, z) /\ Held(z) = Held(a) /\ z.rebuilt = a.rebuilt /\ z.s.bars = a.s.bars
  /\ OtherwiseSame(a.s.slots, z.s.slots, c.slot)
  /\ Known(z.s.slots, c.slot) = BindStep(c.slot, Known(a.s.slots, c.slot), c)
  /\ \E d : /\ Of(c.slot, d) /\ z.out = Cat(a.out, d)
            /\ \A w, b, still : HalfShown(a.s.slots, c.slot, w, b, still) =>
                 HalfShown(z.s.slots, c.slot, End(ViewKind(c.slot), w, d), b, still)

(* Nothing sent. *)
LEMMA OfNone ==
  ASSUME NEW slot, NEW O, Evs(O)
  PROVE /\ Of(slot, << >>) /\ O = Cat(O, << >>)
        /\ \A k, w : End(k, w, << >>) = w
<1>1. Evs(<< >>) /\ Len(<< >>) = 0
  BY NothingIsSeqn DEF Evs
<1>2. O = O \o << >>
  <2>1. O \in Seq(Elems(O))
    BY DEF Evs, Seqn
  <2> DEFINE C == Elems(O)
  <2> HIDE DEF C
  <2>2. O \in Seq(C)
    BY <2>1 DEF C
  <2> QED BY <2>2
<1>3. \A k, w : End(k, w, << >>) = w
  BY EndNone
<1> QED BY <1>1, <1>2, <1>3 DEF Of, Cat

(* Other slots, in a fold that is otherwise the same. *)
LEMMA SlotMade ==
  ASSUME NEW n, NEW a, IsAcc(n, a), NEW g, SlotsOK(n, g), NEW O, Evs(O), NEW z,
         z = Acc(Host(a.s.bars, a.s.partial, a.s.run, g), a.partial, a.rungs, a.rebuilt, O)
  PROVE /\ IsAcc(n, z) /\ Held(z) = Held(a) /\ z.rebuilt = a.rebuilt /\ z.s.bars = a.s.bars
        /\ z.s.slots = g /\ z.out = O
<1> DEFINE b == a.s.bars
           p == a.s.partial
           r == a.s.run
           P == a.partial
           R == a.rungs
           B1 == a.rebuilt
<1>1. b \in Cuts /\ p \in Prints /\ r \in Prints /\ P \in Prints \cup {None} /\ B1 \in BOOLEAN
  BY AccParts
<1>2. z = Acc(Host(b, p, r, g), P, R, B1, O)
  OBVIOUS
<1>4. Held(a) = SeriesOf(b, IF P = None THEN p ELSE P, r)
  BY DEF Held
<1> HIDE DEF b, p, r, P, R, B1
<1>3. /\ IsAcc(n, z) /\ z.s.bars = b /\ z.s.partial = p /\ z.s.run = r /\ z.s.slots = g
      /\ z.partial = P /\ z.rungs = R /\ z.rebuilt = B1 /\ z.out = O
  BY <1>1, <1>2, AccMade
<1>5. Held(z) = Held(a)
  BY <1>3, <1>4 DEF Held
<1> QED BY <1>3, <1>5 DEF b, B1

(* And nothing sent. *)
SlotsPut(a, g) == [a EXCEPT !.s.slots = g]
(* The fold is otherwise the same. *)
LEMMA SlotMadeSame ==
  ASSUME NEW n, NEW a, IsAcc(n, a), NEW g, SlotsOK(n, g), NEW z, z = SlotsPut(a, g)
  PROVE /\ IsAcc(n, z) /\ Held(z) = Held(a) /\ z.rebuilt = a.rebuilt /\ z.s.bars = a.s.bars
        /\ z.s.slots = g /\ z.out = a.out /\ Evs(a.out)
<1> DEFINE O == a.out
<1>1. Evs(O)
  BY AccParts
<1>2. z = Acc(Host(a.s.bars, a.s.partial, a.s.run, g), a.partial, a.rungs, a.rebuilt, O)
  <2>1. a = Acc(Host(a.s.bars, a.s.partial, a.s.run, a.s.slots), a.partial, a.rungs,
                a.rebuilt, O)
    BY AccParts, Zenon
  <2> QED BY <2>1, SlotsWith DEF SlotsPut
<1> HIDE DEF O
<1> QED BY <1>1, <1>2, SlotMade DEF O

(* The same, with nothing sent. *)
LEMMA SlotMadeQuietly ==
  ASSUME NEW n, NEW a, IsAcc(n, a), NEW g, SlotsOK(n, g), NEW slot, NEW c, c.slot = slot,
         NEW z, z = SlotsPut(a, g), OtherwiseSame(a.s.slots, g, slot),
         Known(g, slot) = BindStep(slot, Known(a.s.slots, slot), c),
         \A w, b, still : HalfShown(a.s.slots, slot, w, b, still)
                            => HalfShown(g, slot, w, b, still)
  PROVE SlotDone(n, a, z, c)
<1> DEFINE e == << >>
<1>0. Evs(a.out)
  BY AccParts
<1>1. Of(slot, e) /\ a.out = Cat(a.out, e) /\ \A k, w : End(k, w, e) = w
  BY <1>0, OfNone
<1> HIDE DEF e
<1>3. /\ IsAcc(n, z) /\ Held(z) = Held(a) /\ z.rebuilt = a.rebuilt /\ z.s.bars = a.s.bars
      /\ z.s.slots = g /\ z.out = Cat(a.out, e)
  BY <1>1, SlotMadeSame
<1>4. \A w, b, still : HalfShown(a.s.slots, slot, w, b, still) =>
        HalfShown(z.s.slots, slot, End(ViewKind(slot), w, e), b, still)
  BY <1>1, <1>3
<1> QED BY <1>1, <1>3, <1>4 DEF SlotDone

(* SetInputs: the values are bound, or kept for the first good reload.      *)
LEMMA InputsDo ==
  ASSUME NEW n, NEW a, IsAcc(n, a), NEW c \in Cmds(n), c.op = "SetInputs",
         NEW z, z = ApplyCommand(a, c)
  PROVE SlotDone(n, a, z, c)
<1> DEFINE slot == c.slot
           v == c.values
           f == a.s.slots
           m == f[slot]
           u == IF m.loaded
                THEN [m EXCEPT !.values = v, !.known = 0, !.synced = FALSE, !.told = FALSE]
                ELSE [m EXCEPT !.values = v]
           g == IF slot \in DOMAIN f THEN [f EXCEPT ![slot] = u] ELSE f
<1>1. z = SetInputs(a, slot, v)
  BY DEF ApplyCommand
<1>2. SlotsOK(n, f) /\ v \in Values
  BY AccParts, CmdIs
<1>3. a = [a EXCEPT !.s.slots = f]
  <2>1. a = Acc(Host(a.s.bars, a.s.partial, a.s.run, a.s.slots), a.partial, a.rungs,
                a.rebuilt, a.out)
    BY AccParts, Zenon
  <2> QED BY <2>1, SlotsWith
<1>4. z = [a EXCEPT !.s.slots = g]
  <2>1. CASE slot \notin DOMAIN f
    BY <1>1, <1>3, <2>1 DEF SetInputs
  <2>2. CASE slot \in DOMAIN f /\ ~m.loaded
    BY <1>1, <2>2 DEF SetInputs
  <2>3. CASE slot \in DOMAIN f /\ m.loaded
    BY <1>1, <2>3 DEF SetInputs
  <2> QED BY <2>1, <2>2, <2>3
<1>5. slot \in DOMAIN f => /\ u \in Mirrors /\ u.loaded = m.loaded /\ u.src = m.src
                           /\ u.values = v /\ u.stale = m.stale
                           /\ m.loaded => ~u.synced
  <2>1. SUFFICES ASSUME slot \in DOMAIN f PROVE
               /\ u \in Mirrors /\ u.loaded = m.loaded /\ u.src = m.src
               /\ u.values = v /\ u.stale = m.stale /\ (m.loaded => ~u.synced)
    OBVIOUS
  <2>2. m \in Mirrors
    BY <1>2, <2>1 DEF SlotsOK
  <2>3. CASE m.loaded
    <3> DEFINE u1 == [m EXCEPT !.values = v]
               u2 == [u1 EXCEPT !.known = 0]
               u3 == [u2 EXCEPT !.synced = FALSE]
    <3>1. u = [u3 EXCEPT !.told = FALSE]
      BY <2>3
    <3>2. u1 \in Mirrors /\ u1.loaded = m.loaded /\ u1.src = m.src /\ u1.values = v
          /\ u1.stale = m.stale
      BY <1>2, <2>2, MirrorIs
    <3> HIDE DEF u1, v, m, u
    <3>3. u2 \in Mirrors /\ u2.loaded = m.loaded /\ u2.src = m.src /\ u2.values = v
          /\ u2.stale = m.stale
      BY <3>2 DEF Mirrors
    <3> HIDE DEF u2
    <3>4. u3 \in Mirrors /\ u3.loaded = m.loaded /\ u3.src = m.src /\ u3.values = v
          /\ u3.stale = m.stale /\ u3.synced = FALSE
      BY <3>3 DEF Mirrors
    <3> HIDE DEF u3
    <3> QED BY <3>1, <3>4 DEF Mirrors
  <2>4. CASE ~m.loaded
    BY <1>2, <2>2, <2>4, MirrorIs
  <2> QED BY <2>3, <2>4
<1> HIDE DEF u, m, f, v, slot
<1>6. SlotsOK(n, g) /\ OtherwiseSame(f, g, slot)
      /\ (slot \in DOMAIN f => slot \in DOMAIN g /\ g[slot] = u)
      /\ (slot \notin DOMAIN f => g = f)
  <2>1. CASE slot \in DOMAIN f
    <3>1. g = [f EXCEPT ![slot] = u]
      BY <2>1
    <3> HIDE DEF g
    <3> QED BY <1>2, <1>5, <2>1, <3>1, PutOver
  <2>2. CASE slot \notin DOMAIN f
    BY <1>2, <2>2 DEF OtherwiseSame
  <2> QED BY <2>1, <2>2
<1> HIDE DEF g
<1>7. Known(g, slot) = BindStep(slot, Known(f, slot), c)
  <2> DEFINE b == Known(f, slot)
  <2>1. CASE slot \in DOMAIN f
    <3>1. b = Bound(m.loaded, m.src, m.values, m.stale)
      BY <2>1, KnownIs DEF m
    <3>2. b.there /\ b.loaded = m.loaded /\ b.src = m.src /\ b.stale = m.stale
      BY <3>1, BoundIs
    <3> HIDE DEF b
    <3>3. BindStep(slot, b, c) = Bound(b.loaded, b.src, v, b.stale)
      BY <3>2 DEF BindStep, About, v, slot
    <3>4. Known(g, slot) = Bound(u.loaded, u.src, u.values, u.stale)
      BY <1>6, <2>1, KnownIs
    <3> QED BY <1>5, <2>1, <3>2, <3>3, <3>4 DEF b
  <2>2. CASE slot \notin DOMAIN f
    <3>1. b = Blank /\ ~b.there
      BY <2>2, KnownIs DEF Blank
    <3> HIDE DEF b
    <3>2. BindStep(slot, b, c) = b
      BY <3>1 DEF BindStep, About, slot
    <3> QED BY <1>6, <2>2, <3>2 DEF b
  <2> QED BY <2>1, <2>2
<1>8. ASSUME NEW w, NEW b, NEW still, HalfShown(f, slot, w, b, still)
      PROVE HalfShown(g, slot, w, b, still)
  <2>1. CASE slot \in DOMAIN f /\ m.loaded
    BY <1>5, <1>6, <1>8, <2>1 DEF HalfShown, Halfway
  <2>2. CASE slot \in DOMAIN f /\ ~m.loaded
    BY <1>5, <1>6, <1>8, <2>2 DEF HalfShown, Halfway, Follows, m
  <2>3. CASE slot \notin DOMAIN f
    BY <1>6, <1>8, <2>3
  <2> QED BY <2>1, <2>2, <2>3
<1>9. c.slot = slot
  BY DEF slot
<1>10. z = SlotsPut(a, g)
  BY <1>4 DEF SlotsPut
<1> QED BY <1>6, <1>7, <1>8, <1>9, <1>10, SlotMadeQuietly DEF f

(* Remove. *)
LEMMA RemoveDoes ==
  ASSUME NEW n, NEW a, IsAcc(n, a), NEW c \in Cmds(n), c.op = "Remove",
         NEW z, z = ApplyCommand(a, c)
  PROVE SlotDone(n, a, z, c)
<1> DEFINE slot == c.slot
           f == a.s.slots
           g == Without(f, slot)
<1>1. z = SlotsPut(a, g)
  BY DEF ApplyCommand, RemoveSlot, SlotsPut
<1>2. SlotsOK(n, f)
  BY AccParts
<1>3. c.slot = slot
  OBVIOUS
<1>7. \A b : BindStep(slot, b, c) = Blank
  BY DEF BindStep, About
<1> HIDE DEF f, slot
<1>4. SlotsOK(n, g) /\ OtherwiseSame(f, g, slot) /\ slot \notin DOMAIN g
  BY <1>2, TakenOut
<1> HIDE DEF g
<1>5. Known(g, slot) = BindStep(slot, Known(f, slot), c)
  BY <1>4, <1>7, KnownIs
<1>6. \A w, b, still : HalfShown(f, slot, w, b, still) => HalfShown(g, slot, w, b, still)
  BY <1>4 DEF HalfShown
<1> QED BY <1>1, <1>3, <1>4, <1>5, <1>6, SlotMadeQuietly DEF f

(* A mirror just made, of a source that loads or of one that does not.      *)
LEMMA MadeIs ==
  ASSUME NEW src \in Sources, NEW values \in Values \cup {Default, None}
  PROVE /\ ~Mirror(TRUE, src, values).synced /\ Mirror(TRUE, src, values).loaded
        /\ src \in Broken => Asked(src) = Mirror(FALSE, src, None) /\ ~Asked(src).loaded
        /\ src \notin Broken => Asked(src) = Mirror(TRUE, src, Default)
BY DEF Mirror, Asked

(* Reload of a source that compiles: everything is to be sent again.        *)
LEMMA ReloadDoes ==
  ASSUME NEW n, NEW a, IsAcc(n, a), NEW c \in Cmds(n), c.op = "Reload",
         c.slot \notin DOMAIN a.s.slots \/ c.src \notin Broken,
         NEW z, z = ApplyCommand(a, c)
  PROVE SlotDone(n, a, z, c)
<1> DEFINE slot == c.slot
           src == c.src
           f == a.s.slots
           m == f[slot]
           r == Rebound(m.values)
           u == Mirror(TRUE, src, r)
           g == IF slot \in DOMAIN f THEN [f EXCEPT ![slot] = u] ELSE f
<1>1. z = Reload(a, slot, src)
  BY DEF ApplyCommand
<1>2. SlotsOK(n, f) /\ src \in Sources
  BY AccParts, CmdIs
<1>3. a = [a EXCEPT !.s.slots = f]
  <2>1. a = Acc(Host(a.s.bars, a.s.partial, a.s.run, a.s.slots), a.partial, a.rungs,
                a.rebuilt, a.out)
    BY AccParts, Zenon
  <2> QED BY <2>1, SlotsWith
<1>4. z = SlotsPut(a, g)
  <2>1. CASE slot \notin DOMAIN f
    BY <1>1, <1>3, <2>1 DEF Reload, SlotsPut
  <2>2. CASE slot \in DOMAIN f
    <3>1. src \notin Broken
      BY <2>2
    <3> QED BY <1>1, <2>2, <3>1 DEF Reload, SlotsPut
  <2> QED BY <2>1, <2>2
<1>5. slot \in DOMAIN f => /\ u \in Mirrors /\ u.loaded = TRUE /\ u.src = src
                           /\ u.values = r /\ u.stale = FALSE /\ ~u.synced
  <2>1. SUFFICES ASSUME slot \in DOMAIN f PROVE
               /\ u \in Mirrors /\ u.loaded = TRUE /\ u.src = src
               /\ u.values = r /\ u.stale = FALSE /\ ~u.synced
    OBVIOUS
  <2>2. m \in Mirrors
    BY <1>2, <2>1 DEF SlotsOK
  <2>3. r \in Values \cup {Default, None}
    BY <2>2, MirrorFields DEF Rebound
  <2> HIDE DEF r, src
  <2> QED BY <1>2, <2>3, FreshMirrorIs, MadeIs
<1>10. c.slot = slot /\ c.src = src /\ (slot \in DOMAIN f => src \notin Broken)
  OBVIOUS
<1> HIDE DEF u, f, slot, src
<1>6. SlotsOK(n, g) /\ OtherwiseSame(f, g, slot)
      /\ (slot \in DOMAIN f => slot \in DOMAIN g /\ g[slot] = u)
      /\ (slot \notin DOMAIN f => g = f)
  <2>1. CASE slot \in DOMAIN f
    <3>1. g = [f EXCEPT ![slot] = u]
      BY <2>1
    <3> HIDE DEF g
    <3> QED BY <1>2, <1>5, <2>1, <3>1, PutOver
  <2>2. CASE slot \notin DOMAIN f
    BY <1>2, <2>2 DEF OtherwiseSame
  <2> QED BY <2>1, <2>2
<1> HIDE DEF g
<1>7. Known(g, slot) = BindStep(slot, Known(f, slot), c)
  <2> DEFINE b == Known(f, slot)
  <2>1. CASE slot \in DOMAIN f
    <3>1. b = Bound(m.loaded, m.src, m.values, m.stale)
      BY <2>1, KnownIs
    <3>2. b.there /\ b.values = m.values
      BY <3>1, BoundIs
    <3> HIDE DEF b, m
    <3>3. BindStep(slot, b, c) = Bound(TRUE, src, Rebound(b.values), FALSE)
      BY <1>10, <2>1, <3>2 DEF BindStep, About
    <3>4. Known(g, slot) = Bound(u.loaded, u.src, u.values, u.stale)
      BY <1>6, <2>1, KnownIs
    <3> QED BY <1>5, <2>1, <3>2, <3>3, <3>4 DEF b
  <2>2. CASE slot \notin DOMAIN f
    <3>1. b = Blank /\ ~b.there
      BY <2>2, KnownIs DEF Blank
    <3> HIDE DEF b
    <3>2. BindStep(slot, b, c) = b
      BY <1>10, <3>1 DEF BindStep, About
    <3> QED BY <1>6, <2>2, <3>2 DEF b
  <2> QED BY <2>1, <2>2
<1>8. ASSUME NEW w, NEW b, NEW still, HalfShown(f, slot, w, b, still)
      PROVE HalfShown(g, slot, w, b, still)
  <2>1. CASE slot \in DOMAIN f
    BY <1>5, <1>6, <1>8, <2>1 DEF HalfShown, Halfway
  <2>3. CASE slot \notin DOMAIN f
    BY <1>6, <1>8, <2>3
  <2> QED BY <2>1, <2>3
<1> QED BY <1>4, <1>6, <1>7, <1>8, <1>10, SlotMadeQuietly DEF f

(* Add of a source that compiles. *)
LEMMA AddDoes ==
  ASSUME NEW n, NEW a, IsAcc(n, a), NEW c \in Cmds(n), c.op = "Add", c.src \notin Broken,
         NEW z, z = ApplyCommand(a, c)
  PROVE SlotDone(n, a, z, c)
<1> DEFINE slot == c.slot
           src == c.src
           f == a.s.slots
           u == Asked(src)
           g == With(f, slot, u)
<1>2. SlotsOK(n, f) /\ src \in Sources /\ slot \in 0 .. n - 1
  BY AccParts, CmdIs
<1>5. u \in Mirrors /\ u.loaded /\ u.src = src /\ u.values = Default /\ u.stale = FALSE
      /\ ~u.synced
  <2>1. u = Mirror(TRUE, src, Default)
    BY <1>2, MadeIs
  <2>2. ~Mirror(TRUE, src, Default).synced
    BY <1>2, MadeIs
  <2>3. u \in Mirrors /\ u.src = src /\ u.stale = FALSE /\ u.values = Default /\ u.loaded
    BY <1>2, AskedIs
  <2>4. ~u.synced
    BY <2>1, <2>2
  <2> QED BY <2>1, <2>3, <2>4
<1>1. z = SlotsPut(a, g)
  BY <1>2, MadeIs DEF ApplyCommand, AddSlot, SlotsPut
<1>10. c.slot = slot /\ c.src = src
  OBVIOUS
<1>9. g = With(f, slot, u)
  OBVIOUS
<1> HIDE DEF u, f, slot, src, g
<1>6. SlotsOK(n, g) /\ OtherwiseSame(f, g, slot) /\ slot \in DOMAIN g /\ g[slot] = u
  BY <1>2, <1>5, <1>9, PutIn
<1>7. Known(g, slot) = BindStep(slot, Known(f, slot), c)
  <2>1. Known(g, slot) = Bound(u.loaded, u.src, u.values, u.stale)
    BY <1>6, KnownIs
  <2>2. BindStep(slot, Known(f, slot), c) = Bound(c.src \notin Broken, src, Default, FALSE)
    BY <1>10 DEF BindStep, About
  <2>3. u.loaded = (c.src \notin Broken)
    BY <1>2, <1>10, AskedIs DEF u
  <2> QED BY <1>5, <2>1, <2>2, <2>3
<1>8. \A w, b, still : HalfShown(f, slot, w, b, still) => HalfShown(g, slot, w, b, still)
  BY <1>5, <1>6 DEF HalfShown, Halfway
<1> QED BY <1>1, <1>6, <1>7, <1>8, <1>10, SlotMadeQuietly DEF f

(* A command of a slot that sends something at once. *)
OutMore(a, d) == [a EXCEPT !.out = Cat(@, d)]
(* The fold is otherwise the same. *)
LEMMA SlotSent ==
  ASSUME NEW n, NEW a, IsAcc(n, a), NEW g, SlotsOK(n, g), NEW d, Evs(d),
         NEW z, z = OutMore(SlotsPut(a, g), d)
  PROVE /\ IsAcc(n, z) /\ Held(z) = Held(a) /\ z.rebuilt = a.rebuilt /\ z.s.bars = a.s.bars
        /\ z.s.slots = g /\ z.out = Cat(a.out, d)
<1> DEFINE a1 == SlotsPut(a, g)
           O == Cat(a.out, d)
           h == Host(a.s.bars, a.s.partial, a.s.run, g)
<1>1. a1 = Acc(h, a.partial, a.rungs, a.rebuilt, a.out)
  <2>1. a = Acc(Host(a.s.bars, a.s.partial, a.s.run, a.s.slots), a.partial, a.rungs,
                a.rebuilt, a.out)
    BY AccParts, Zenon
  <2> QED BY <2>1, SlotsWith DEF SlotsPut
<1>2. Evs(O)
  <2>1. Evs(a.out)
    BY AccParts
  <2> QED BY <2>1, EvsCat DEF Cat
<1> HIDE DEF a1, h
<1>3. a1.out = a.out
  BY <1>1, AccFields
<1>4. z = [a1 EXCEPT !.out = O]
  BY <1>3 DEF OutMore, a1
<1> HIDE DEF O
<1>5. z = Acc(h, a.partial, a.rungs, a.rebuilt, O)
  BY <1>1, <1>4, AccOut
<1>6. z = Acc(Host(a.s.bars, a.s.partial, a.s.run, g), a.partial, a.rungs, a.rebuilt, O)
  BY <1>5, Zenon DEF h
<1>7. /\ IsAcc(n, z) /\ Held(z) = Held(a) /\ z.rebuilt = a.rebuilt /\ z.s.bars = a.s.bars
      /\ z.s.slots = g /\ z.out = O
  BY <1>2, <1>6, SlotMade
<1> QED BY <1>7 DEF O

(* The two events of a source that does not load: a view of its own, and    *)
(* its error.                                                               *)
Bare(slot, src)  == [ev |-> "Rebuilt", slot |-> slot, src |-> src, rows |-> << >>,
                     inputs |-> None, stale |-> FALSE]
Errs(slot)       == [ev |-> "Error", slot |-> slot]
(* They leave a view of a slot that did not load. *)
LEMMA BareSaysSo ==
  ASSUME NEW slot, NEW src \in Sources, src \in Broken, NEW d, d = <<Bare(slot, src), Errs(slot)>>
  PROVE /\ Of(slot, d)
        /\ \A w : Viewed(w) => LET x == End(ViewKind(slot), w, d) IN
                               Viewed(x) /\ Follows(Asked(src), x)
<1> DEFINE E1 == Bare(slot, src)
           E2 == Errs(slot)
<1>1. /\ E1.ev = "Rebuilt" /\ E1.slot = slot /\ E1.src = src /\ E1.stale = FALSE
      /\ E2.ev = "Error" /\ E2.slot = slot
  BY DEF Bare, Errs
<1> HIDE DEF E1, E2
<1>2. Evs(d) /\ Len(d) = 2 /\ d[1] = E1 /\ d[2] = E2
  <2>1. d = <<E1, E2>>
    BY DEF E1, E2
  <2>2. d \in Seq({E1, E2}) /\ Len(d) = 2 /\ d[1] = E1 /\ d[2] = E2
    BY <2>1
  <2>3. Seqn(d)
    BY <2>2, SeqIs
  <2>4. \A i \in 1 .. Len(d) : i = 1 \/ i = 2
    BY <2>2
  <2>5. \A i \in 1 .. Len(d) : d[i].ev \in EventKinds
    BY <1>1, <2>2, <2>4 DEF EventKinds
  <2> QED BY <2>2, <2>3, <2>5 DEF Evs
<1>3. Of(slot, d)
  BY <1>1, <1>2 DEF Of
<1>4. ASSUME NEW w, Viewed(w), NEW x, x = End(ViewKind(slot), w, d)
      PROVE Viewed(x) /\ Follows(Asked(src), x)
  <2> DEFINE y == ViewStep(slot, w, E1)
             z == ViewStep(slot, y, E2)
             v == NewView(E1)
  <2>1. x = z
    <3>1. d = <<E1, E2>>
      BY DEF E1, E2
    <3>2. x = Step(ViewKind(slot), Step(ViewKind(slot), w, E1), E2)
      BY <1>4, <3>1, EndTwo
    <3>3. \A p, e : Step(ViewKind(slot), p, e) = ViewStep(slot, p, e)
      BY StepIs
    <3> QED BY <3>2, <3>3
  <2>2. y = ViewStep(slot, w, E1) /\ z = ViewStep(slot, y, E2)
    OBVIOUS
  <2> HIDE DEF y, z
  <2>3. Viewed(y) /\ y.there = "yes" /\ y.view = v
    BY <1>1, <1>4, <2>2, ViewStepIs DEF EventKinds
  <2>4. IsView(v) /\ v.src = src /\ v.stale = FALSE
    BY <1>1, NewViewIs
  <2> HIDE DEF v
  <2>5. Viewed(z) /\ z.there = "yes" /\ z.view = ApplyToView(v, E2)
    BY <1>1, <2>2, <2>3, ViewStepIs DEF EventKinds
  <2> DEFINE u == ApplyToView(v, E2)
  <2>6. u = ApplyToView(v, E2)
    OBVIOUS
  <2> HIDE DEF u
  <2>7. u.src = v.src /\ u.stale = v.stale /\ u.error = Yes
    <3>1. E2.ev \in EventKinds \ {"Rebuilt"}
      BY <1>1 DEF EventKinds
    <3> QED BY <1>1, <2>4, <2>6, <3>1, EventOnView
  <2>8. z.view = u
    BY <2>5, <2>6
  <2>9. Asked(src).src = src /\ Asked(src).stale = FALSE /\ ~Asked(src).loaded
    BY AskedIs
  <2> QED BY <2>1, <2>4, <2>5, <2>7, <2>8, <2>9 DEF Follows, Yes
<1> QED BY <1>3, <1>4

(* Add of a source that does not compile. *)
LEMMA BrokenAddDoes ==
  ASSUME NEW n, NEW a, IsAcc(n, a), NEW c \in Cmds(n), c.op = "Add", c.src \in Broken,
         NEW z, z = ApplyCommand(a, c)
  PROVE SlotDone(n, a, z, c)
<1> DEFINE slot == c.slot
           src == c.src
           f == a.s.slots
           u == Asked(src)
           g == With(f, slot, u)
           d == <<Bare(slot, src), Errs(slot)>>
<1>2. SlotsOK(n, f) /\ src \in Sources /\ slot \in 0 .. n - 1 /\ src \in Broken
  BY AccParts, CmdIs
<1>1. z = OutMore(SlotsPut(a, g), d)
  <2>1. u = Mirror(FALSE, src, None)
    BY <1>2, MadeIs
  <2>2. z = [a EXCEPT !.s.slots = With(@, slot, Mirror(FALSE, src, None)), !.out = @ \o d]
    BY <1>2 DEF ApplyCommand, AddSlot, Bare, Errs
  <2> HIDE DEF d, slot, src
  <2>3. z = [a EXCEPT !.s.slots = g, !.out = @ \o d]
    BY <2>1, <2>2
  <2> QED BY <2>3 DEF OutMore, SlotsPut, Cat
<1>5. u \in Mirrors /\ ~u.loaded /\ u.src = src /\ u.values = None /\ u.stale = FALSE
  BY <1>2, AskedIs
<1>9. c.slot = slot /\ c.src = src /\ g = With(f, slot, u)
  OBVIOUS
<1>3. Of(slot, d) /\ \A w : Viewed(w) => LET x == End(ViewKind(slot), w, d) IN
                                         Viewed(x) /\ Follows(u, x)
  <2> HIDE DEF slot, src
  <2> QED BY <1>2, BareSaysSo
<1> HIDE DEF u, f, slot, src, g, d
<1>6. SlotsOK(n, g) /\ OtherwiseSame(f, g, slot) /\ slot \in DOMAIN g /\ g[slot] = u
  BY <1>2, <1>5, <1>9, PutIn
<1>7. Known(g, slot) = BindStep(slot, Known(f, slot), c)
  <2>1. Known(g, slot) = Bound(u.loaded, u.src, u.values, u.stale)
    BY <1>6, KnownIs
  <2>2. BindStep(slot, Known(f, slot), c) = Bound(c.src \notin Broken, src, None, FALSE)
    BY <1>9 DEF BindStep, About
  <2>3. u.loaded = (c.src \notin Broken)
    BY <1>2, <1>9, AskedIs DEF u
  <2> QED BY <1>5, <2>1, <2>2, <2>3
<1>8. \A w, b, still : HalfShown(f, slot, w, b, still)
                         => HalfShown(g, slot, End(ViewKind(slot), w, d), b, still)
  BY <1>3, <1>5, <1>6 DEF HalfShown, Halfway
<1>4. Evs(d)
  BY <1>3 DEF Of
<1>10. /\ IsAcc(n, z) /\ Held(z) = Held(a) /\ z.rebuilt = a.rebuilt /\ z.s.bars = a.s.bars
       /\ z.s.slots = g /\ z.out = Cat(a.out, d)
  BY <1>1, <1>4, <1>6, SlotSent
<1> QED BY <1>3, <1>6, <1>7, <1>8, <1>9, <1>10 DEF SlotDone, f

(* The one event of a reload that failed: what runs is no longer what the   *)
(* file says.                                                               *)
Fails(slot) == [ev |-> "ReloadFailed", slot |-> slot]
(* It leaves the view stale and otherwise as it was. *)
LEMMA FailureSaysSo ==
  ASSUME NEW slot, NEW d, d = <<Fails(slot)>>, NEW m \in Mirrors,
         NEW u, u = [m EXCEPT !.stale = TRUE],
         NEW w, Viewed(w), NEW b, NEW still, Halfway(m, w, b, still),
         NEW x, x = End(ViewKind(slot), w, d)
  PROVE Viewed(x) /\ Halfway(u, x, b, still)
<1> DEFINE E1 == Fails(slot)
<1>1. E1.ev = "ReloadFailed" /\ E1.slot = slot /\ E1.ev \in EventKinds
  BY DEF Fails, EventKinds
<1>2. x = ViewStep(slot, w, E1)
  <2>1. \A p, e : Step(ViewKind(slot), p, e) = ViewStep(slot, p, e)
    BY StepIs
  <2> HIDE DEF E1
  <2>2. d = <<E1>>
    BY DEF E1
  <2>3. x = Step(ViewKind(slot), w, E1)
    BY <2>2, EndOne
  <2> QED BY <2>1, <2>3
<1> HIDE DEF E1
<1>3. Viewed(x)
  BY <1>1, <1>2, ViewStepIs
<1>4. /\ u.loaded = m.loaded /\ u.src = m.src /\ u.values = m.values /\ u.stale = TRUE
      /\ u.known = m.known /\ u.synced = m.synced /\ u.told = m.told
  BY DEF Mirrors
<1>5. ASSUME w.there = "yes"
      PROVE /\ x.there = "yes" /\ x.view.src = w.view.src /\ x.view.inputs = w.view.inputs
            /\ x.view.rows = w.view.rows /\ x.view.stale = Yes /\ x.view.error = w.view.error
  <2> DEFINE v == ApplyToView(w.view, E1)
  <2>1. x.there = "yes" /\ x.view = v
    BY <1>1, <1>2, <1>5, ViewStepIs
  <2>2. IsView(w.view) /\ E1.ev \in EventKinds \ {"Rebuilt"}
    BY <1>1 DEF Viewed
  <2>3. v = ApplyToView(w.view, E1)
    OBVIOUS
  <2> HIDE DEF v
  <2>4. /\ v.src = w.view.src /\ v.inputs = w.view.inputs /\ v.rows = w.view.rows
        /\ v.stale = Yes /\ v.error = w.view.error
    BY <1>1, <2>2, <2>3, EventOnView
  <2> QED BY <2>1, <2>4
<1>6. ASSUME Follows(m, w) PROVE Follows(u, x)
  <2>1. w.there = "yes" /\ w.view.src = m.src
        /\ IF m.loaded THEN w.view.inputs = m.values ELSE w.view.error
    BY <1>6 DEF Follows
  <2> QED BY <1>4, <1>5, <2>1 DEF Follows, Yes
<1>7. CASE ~m.loaded
  BY <1>3, <1>4, <1>6, <1>7 DEF Halfway
<1>8. CASE m.loaded /\ ~m.synced
  BY <1>3, <1>4, <1>8 DEF Halfway
<1>9. CASE m.loaded /\ m.synced
  <2>1. UpToDate(m, w, b, still)
    BY <1>9 DEF Halfway
  <2>2. w.there = "yes"
    BY <2>1 DEF UpToDate, Follows
  <2>3. UpToDate(u, x, b, still)
    BY <1>4, <1>5, <1>6, <2>1, <2>2 DEF UpToDate
  <2> QED BY <1>3, <1>4, <1>9, <2>3 DEF Halfway
<1> QED BY <1>7, <1>8, <1>9

(* Reload of a source that does not compile: the instance that runs stays.  *)
LEMMA BrokenReloadDoes ==
  ASSUME NEW n, NEW a, IsAcc(n, a), NEW c \in Cmds(n), c.op = "Reload",
         c.slot \in DOMAIN a.s.slots, c.src \in Broken,
         NEW z, z = ApplyCommand(a, c)
  PROVE SlotDone(n, a, z, c)
<1> DEFINE slot == c.slot
           src == c.src
           f == a.s.slots
           m == f[slot]
           u == [m EXCEPT !.stale = TRUE]
           g == [f EXCEPT ![slot] = u]
           d == <<Fails(slot)>>
<1>2. SlotsOK(n, f) /\ src \in Sources /\ src \in Broken /\ slot \in DOMAIN f
  BY AccParts, CmdIs
<1>1. z = OutMore(SlotsPut(a, g), d)
  <2>1. z = [a EXCEPT !.s.slots[slot].stale = TRUE, !.out = Append(@, Fails(slot))]
    BY <1>2 DEF ApplyCommand, Reload, Fails
  <2>2. [a EXCEPT !.s.slots[slot].stale = TRUE] = SlotsPut(a, g)
    BY DEF SlotsPut
  <2> DEFINE a1 == SlotsPut(a, g)
             e == Fails(slot)
  <2>3. z = [a1 EXCEPT !.out = Append(@, e)]
    BY <2>1, <2>2
  <2>4. Append(a1.out, e) = Cat(a1.out, d)
    <3>1. a1.out = a.out
      <4>1. a = Acc(Host(a.s.bars, a.s.partial, a.s.run, a.s.slots), a.partial, a.rungs,
                    a.rebuilt, a.out)
        BY AccParts, Zenon
      <4>2. a1 = Acc(Host(a.s.bars, a.s.partial, a.s.run, g), a.partial, a.rungs, a.rebuilt, a.out)
        <5> HIDE DEF g
        <5> QED BY <4>1, SlotsWith DEF SlotsPut
      <4> HIDE DEF a1
      <4> QED BY <4>2, AccFields
    <3>2. a.out \in Seq(Elems(a.out))
      BY AccParts DEF Evs, Seqn
    <3> DEFINE O == a.out
               S == Elems(O) \cup {e}
    <3>3. O \in Seq(S)
      BY <3>2
    <3> HIDE DEF O, S, e
    <3>4. e \in S
      BY DEF S
    <3>5. Append(O, e) = O \o <<e>>
      BY <3>3, <3>4
    <3> QED BY <3>1, <3>5 DEF O, Cat, e
  <2> HIDE DEF a1, e
  <2>5. z = [a1 EXCEPT !.out = Append(a1.out, e)]
    BY <2>3
  <2>6. z = [a1 EXCEPT !.out = Cat(a1.out, d)]
    BY <2>4, <2>5, Zenon
  <2> QED BY <2>6 DEF OutMore, a1
<1>9. m \in Mirrors /\ c.slot = slot /\ c.src = src
  BY <1>2 DEF SlotsOK
<1>5. u \in Mirrors /\ u.loaded = m.loaded /\ u.src = m.src /\ u.values = m.values /\ u.stale = TRUE
  BY <1>9, StaleMirrorIs
<1>3. Of(slot, d)
  <2> DEFINE e == Fails(slot)
  <2>1. e.ev \in EventKinds /\ e.slot = slot
    BY DEF Fails, EventKinds
  <2> HIDE DEF e
  <2>2. Seqn(<<e>>) /\ Len(<<e>>) = 1 /\ <<e>>[1] = e
    BY SeqnOne
  <2>3. d = <<e>>
    BY DEF e
  <2> HIDE DEF d
  <2> QED BY <2>1, <2>2, <2>3 DEF Of, Evs
<1>11. u = [m EXCEPT !.stale = TRUE] /\ g = [f EXCEPT ![slot] = u] /\ d = <<Fails(slot)>>
  OBVIOUS
<1> HIDE DEF u, f, slot, src, g, d, m
<1>6. SlotsOK(n, g) /\ OtherwiseSame(f, g, slot) /\ slot \in DOMAIN g /\ g[slot] = u
  <2>1. g = [f EXCEPT ![slot] = u]
    BY <1>11
  <2> QED BY <1>2, <1>5, <2>1, PutOver
<1>7. Known(g, slot) = BindStep(slot, Known(f, slot), c)
  <2> DEFINE b == Known(f, slot)
  <2>1. b = Bound(m.loaded, m.src, m.values, m.stale)
    BY <1>2, KnownIs DEF m
  <2>2. b.there /\ b.values = m.values /\ b.loaded = m.loaded /\ b.src = m.src
    BY <2>1, BoundIs
  <2> HIDE DEF b
  <2>3. BindStep(slot, b, c) = Bound(b.loaded, b.src, b.values, TRUE)
    BY <1>2, <1>9, <2>2 DEF BindStep, About
  <2>4. Known(g, slot) = Bound(u.loaded, u.src, u.values, u.stale)
    BY <1>6, KnownIs
  <2> QED BY <1>5, <2>2, <2>3, <2>4 DEF b
<1>8. ASSUME NEW w, NEW b, NEW still, HalfShown(f, slot, w, b, still)
      PROVE HalfShown(g, slot, End(ViewKind(slot), w, d), b, still)
  <2>1. Viewed(w) /\ Halfway(m, w, b, still)
    BY <1>2, <1>8 DEF HalfShown, m
  <2> DEFINE x == End(ViewKind(slot), w, d)
  <2>2. x = End(ViewKind(slot), w, d)
    OBVIOUS
  <2> HIDE DEF x
  <2>3. Viewed(x) /\ Halfway(u, x, b, still)
    BY <1>9, <1>11, <2>1, <2>2, FailureSaysSo
  <2> QED BY <1>6, <2>3 DEF HalfShown, x
<1>4. Evs(d)
  BY <1>3 DEF Of
<1>10. /\ IsAcc(n, z) /\ Held(z) = Held(a) /\ z.rebuilt = a.rebuilt /\ z.s.bars = a.s.bars
       /\ z.s.slots = g /\ z.out = Cat(a.out, d)
  BY <1>1, <1>4, <1>6, SlotSent
<1> QED BY <1>3, <1>6, <1>7, <1>8, <1>9, <1>10 DEF SlotDone, f

(* One command after the others. *)
LEMMA CommandDoes ==
  ASSUME NEW n, NEW a, IsAcc(n, a), NEW c \in Cmds(n), NEW z, z = ApplyCommand(a, c)
  PROVE /\ c.op \in SeriesOps \cup SlotOps
        /\ c.op \in SeriesOps => SeriesDone(n, a, z, c)
        /\ c.op \in SlotOps => SlotDone(n, a, z, c)
<1>1. c.op \in {"Backfilled", "Rebuild", "BarClosed", "PartialUpdated",
                "Add", "SetInputs", "Reload", "Remove"}
  BY CmdIs
<1>2. CASE c.op \in {"Backfilled", "Rebuild"}
  BY <1>2, ReplayDoes DEF SeriesOps, SlotOps
<1>3. CASE c.op = "BarClosed"
  BY <1>3, CloseDoes DEF SeriesOps, SlotOps
<1>4. CASE c.op = "PartialUpdated"
  BY <1>4, UpdateDoes DEF SeriesOps, SlotOps
<1>5. CASE c.op = "Add"
  BY <1>5, AddDoes, BrokenAddDoes DEF SeriesOps, SlotOps
<1>6. CASE c.op = "SetInputs"
  BY <1>6, InputsDo DEF SeriesOps, SlotOps
<1>7. CASE c.op = "Reload"
  BY <1>7, ReloadDoes, BrokenReloadDoes DEF SeriesOps, SlotOps
<1>8. CASE c.op = "Remove"
  BY <1>8, RemoveDoes DEF SeriesOps, SlotOps
<1> QED BY <1>1, <1>2, <1>3, <1>4, <1>5, <1>6, <1>7, <1>8

-----------------------------------------------------------------------------
(* The batch. *)
BatchTrail(s, q, t) ==
  /\ t[0] = BeginBatch(s)
  /\ \A n \in 1 .. Len(q) :
       t[n] = IF Keeps(q, n) THEN ApplyCommand(t[n - 1], q[n]) ELSE t[n - 1]

(* It begins with what the host holds. *)
LEMMA BatchBegins ==
  ASSUME NEW n, NEW s, HostOK(n, s), NEW a, a = BeginBatch(s)
  PROVE /\ IsAcc(n, a) /\ a.s = s /\ a.partial = None /\ a.out = << >> /\ ~a.rebuilt
        /\ Held(a) = Series(s)
<1>1. a.s = s /\ a.partial = None /\ a.rungs = None /\ a.out = << >> /\ a.rebuilt = FALSE
  BY DEF BeginBatch
<1>2. a = Acc(a.s, a.partial, a.rungs, a.rebuilt, a.out)
  BY <1>1 DEF BeginBatch, Acc
<1>3. Evs(a.out)
  <2> DEFINE O == a.out
  <2>1. O = << >>
    BY <1>1
  <2> HIDE DEF O
  <2>2. Seqn(O)
    BY <2>1, NothingIsSeqn
  <2>3. Len(O) = 0
    BY <2>1
  <2>4. Evs(O)
    BY <2>2, <2>3 DEF Evs
  <2> QED BY <2>4 DEF O
<1>4. IsAcc(n, a)
  BY <1>1, <1>2, <1>3 DEF IsAcc
<1>5. Held(a) = Series(s)
  BY <1>1 DEF Held, Series
<1> QED BY <1>1, <1>4, <1>5

(* Where a command is skipped it is a change of inputs. *)
LEMMA SkippedIs ==
  ASSUME NEW q, NEW i, ~Keeps(q, i)
  PROVE /\ q[i].op = "SetInputs"
        /\ \E j \in i + 1 .. Len(q) : q[j].op = "SetInputs" /\ q[j].slot = q[i].slot
BY DEF Keeps

(* The series a batch has reached, and whether it was replayed on the way.  *)
SeriesReached(s, a, x, r) ==
  /\ Held(a) = x
  /\ \/ a.rebuilt /\ r = "yes"
     \/ ~a.rebuilt /\ r = "no" /\ Grown(s.bars, a.s.bars)

(* One command more. *)
LEMMA SeriesReachedOn ==
  ASSUME NEW n, NEW s, HostOK(n, s), NEW a, IsAcc(n, a), NEW x, NEW r, SeriesReached(s, a, x, r),
         NEW c \in Cmds(n), NEW z,
         z = ApplyCommand(a, c) \/ (z = a /\ c.op = "SetInputs")
  PROVE /\ IsAcc(n, z)
        /\ SeriesReached(s, z, SeriesStep(x, c), IF Replays(c) THEN "yes" ELSE r)
<1>1. s.bars \in Cuts /\ a.s.bars \in Cuts
  BY AccParts DEF HostOK
<1>2. CASE z = a /\ c.op = "SetInputs"
  <2>1. SeriesStep(x, c) = x /\ ~Replays(c)
    BY <1>2, BindSaysNoSeries
  <2> QED BY <1>2, <2>1
<1>3. CASE z = ApplyCommand(a, c)
  <2>0. /\ c.op \in SeriesOps \cup SlotOps
        /\ c.op \in SeriesOps => SeriesDone(n, a, z, c)
        /\ c.op \in SlotOps => SlotDone(n, a, z, c)
    BY <1>3, CommandDoes
  <2>1. CASE c.op \in SlotOps
    <3>1. SeriesStep(x, c) = x /\ ~Replays(c)
      BY <2>1, BindSaysNoSeries DEF SlotOps
    <3>2. IsAcc(n, z) /\ Held(z) = Held(a) /\ z.rebuilt = a.rebuilt /\ z.s.bars = a.s.bars
      BY <2>0, <2>1 DEF SlotDone
    <3> QED BY <3>1, <3>2 DEF SeriesReached
  <2>2. CASE c.op \in SeriesOps
    <3>1. /\ IsAcc(n, z) /\ Held(z) = SeriesStep(Held(a), c)
          /\ IF Replays(c) THEN z.rebuilt = Yes
             ELSE z.rebuilt = a.rebuilt /\ Grown(a.s.bars, z.s.bars)
      BY <2>0, <2>2 DEF SeriesDone
    <3>2. z.s.bars \in Cuts
      BY <3>1, AccParts
    <3>3. Held(z) = SeriesStep(x, c)
      BY <3>1 DEF SeriesReached
    <3>4. CASE Replays(c)
      BY <3>1, <3>3, <3>4 DEF SeriesReached, Yes
    <3>5. CASE ~Replays(c)
      <4>1. z.rebuilt = a.rebuilt /\ Grown(a.s.bars, z.s.bars)
        BY <3>1, <3>5
      <4>2. Grown(s.bars, a.s.bars) => Grown(s.bars, z.s.bars)
        BY <1>1, <3>2, <4>1, GrownOn
      <4> QED BY <3>1, <3>3, <3>5, <4>1, <4>2 DEF SeriesReached
    <3> QED BY <3>4, <3>5
  <2> QED BY <2>0, <2>1, <2>2
<1> QED BY <1>2, <1>3

(* drain_taken: all along the batch. *)
LEMMA BatchReaches ==
  ASSUME NEW n, NEW s, HostOK(n, s), NEW q \in Seq(Cmds(n)), NEW t, BatchTrail(s, q, t)
  PROVE \A i \in 0 .. Len(q) :
          /\ IsAcc(n, t[i])
          /\ SeriesReached(s, t[i], End(SeriesKind, Series(s), SubSeq(q, 1, i)),
                           End(ReplayKind, "no", SubSeq(q, 1, i)))
<1> DEFINE L == Len(q)
           C == Cmds(n)
           x(i) == End(SeriesKind, Series(s), SubSeq(q, 1, i))
           r(i) == End(ReplayKind, "no", SubSeq(q, 1, i))
           G == {i \in 0 .. L : IsAcc(n, t[i]) /\ SeriesReached(s, t[i], x(i), r(i))}
<1>1. L \in Nat /\ (\A i \in 1 .. L : q[i] \in C) /\ Seqn(q)
  <2> HIDE DEF C
  <2>1. q \in Seq(C)
    BY DEF C
  <2> QED BY <2>1, SeqIs
<1>2. x(0) = Series(s) /\ r(0) = "no"
  BY <1>1, EndEnds
<1>3. \A i \in 1 .. L : x(i) = SeriesStep(x(i - 1), q[i])
  <2>1. \A i \in 1 .. L : x(i) = Step(SeriesKind, x(i - 1), q[i])
    BY <1>1, EndNext
  <2> HIDE DEF x
  <2> QED BY <2>1, StepIs
<1>4. \A i \in 1 .. L : r(i) = IF Replays(q[i]) THEN "yes" ELSE r(i - 1)
  <2>1. \A i \in 1 .. L : r(i) = Step(ReplayKind, r(i - 1), q[i])
    BY <1>1, EndNext
  <2> HIDE DEF r
  <2> QED BY <2>1, StepIs
<1> HIDE DEF x, r
<1>5. 0 \in G
  <2> DEFINE a == t[0]
  <2>1. IsAcc(n, a) /\ a.s = s /\ ~a.rebuilt /\ Held(a) = Series(s)
    BY BatchBegins DEF BatchTrail
  <2>2. Grown(s.bars, s.bars)
    BY DEF Grown, HostOK, Cuts
  <2> HIDE DEF a
  <2>3. SeriesReached(s, a, x(0), r(0))
    BY <1>2, <2>1, <2>2 DEF SeriesReached
  <2> QED BY <1>1, <2>1, <2>3 DEF a
<1>6. ASSUME NEW i \in 1 .. L, i - 1 \in G PROVE i \in G
  <2> DEFINE a == t[i - 1]
             z == t[i]
             c == q[i]
  <2>1. IsAcc(n, a) /\ SeriesReached(s, a, x(i - 1), r(i - 1)) /\ c \in Cmds(n)
    BY <1>1, <1>6
  <2>2. z = ApplyCommand(a, c) \/ (z = a /\ c.op = "SetInputs")
    BY SkippedIs DEF BatchTrail
  <2>3. x(i) = SeriesStep(x(i - 1), c) /\ r(i) = IF Replays(c) THEN "yes" ELSE r(i - 1)
    BY <1>3, <1>4
  <2> HIDE DEF a, z, c
  <2>4. IsAcc(n, z) /\ SeriesReached(s, z, x(i), r(i))
    BY <2>1, <2>2, <2>3, SeriesReachedOn
  <2> QED BY <2>4 DEF z
<1> HIDE DEF G
<1>7. \A i \in 0 .. L : i \in G
  BY <1>1, <1>5, <1>6, Upward
<1> QED BY <1>7 DEF G, x, r

(* A command run on the host does to each slot what the user meant by it.   *)
LEMMA KnownStep ==
  ASSUME NEW n, NEW a, IsAcc(n, a), NEW c \in Cmds(n), NEW z, z = ApplyCommand(a, c), NEW slot
  PROVE Known(z.s.slots, slot) = BindStep(slot, Known(a.s.slots, slot), c)
<1>0. /\ c.op \in SeriesOps \cup SlotOps
      /\ c.op \in SeriesOps => SeriesDone(n, a, z, c)
      /\ c.op \in SlotOps => SlotDone(n, a, z, c)
  BY CommandDoes
<1>1. CASE c.op \in SeriesOps
  <2>1. z.s.slots = a.s.slots
    BY <1>0, <1>1 DEF SeriesDone
  <2>2. \A x : BindStep(slot, x, c) = x
    BY <1>1, SeriesSaysNoBinding DEF SeriesOps
  <2> QED BY <2>1, <2>2
<1>2. CASE c.op \in SlotOps /\ c.slot = slot
  BY <1>0, <1>2 DEF SlotDone
<1>3. CASE c.op \in SlotOps /\ c.slot # slot
  <2>1. OtherwiseSame(a.s.slots, z.s.slots, c.slot)
    BY <1>0, <1>3 DEF SlotDone
  <2>2. \A x : BindStep(slot, x, c) = x
    BY <1>3 DEF BindStep, About
  <2> DEFINE f == a.s.slots
             g == z.s.slots
  <2>3. slot \in DOMAIN f <=> slot \in DOMAIN g
    BY <1>3, <2>1 DEF OtherwiseSame
  <2>4. slot \in DOMAIN f => g[slot] = f[slot]
    BY <1>3, <2>1 DEF OtherwiseSame
  <2> HIDE DEF f, g
  <2>5. Known(g, slot) = Known(f, slot)
    BY <2>3, <2>4, KnownIs
  <2> QED BY <2>2, <2>5 DEF f, g
<1> QED BY <1>0, <1>1, <1>2, <1>3

(* A slot is as the user's commands leave it, but for values that a later   *)
(* command of the batch replaces.                                           *)
Nearly(b, z, slot, q, i) ==
  \/ b = z
  \/ /\ \E l, src, v, u, st : b = Bound(l, src, v, st) /\ z = Bound(l, src, u, st)
     /\ \E j \in i + 1 .. Len(q) : q[j].op = "SetInputs" /\ q[j].slot = slot
IsBinding(z) == z = Blank \/ z = Bound(z.loaded, z.src, z.values, z.stale)

(* What is known of a slot is a binding. *)
LEMMA KnownBinds ==
  ASSUME NEW f, NEW slot PROVE IsBinding(Known(f, slot))
<1>1. CASE slot \in DOMAIN f
  <2> DEFINE l == f[slot].loaded
             r == f[slot].src
             v == f[slot].values
             t == f[slot].stale
             z == Known(f, slot)
  <2>1. z = Bound(l, r, v, t)
    BY <1>1, KnownIs
  <2> HIDE DEF l, r, v, t, z
  <2>2. z.loaded = l /\ z.src = r /\ z.values = v /\ z.stale = t
    BY <2>1, BoundIs
  <2> QED BY <2>1, <2>2 DEF IsBinding, z
<1>2. CASE slot \notin DOMAIN f
  BY <1>2, KnownIs DEF IsBinding
<1> QED BY <1>1, <1>2

(* One command more, run. *)
LEMMA NearlyOn ==
  ASSUME NEW b, NEW z, NEW slot, NEW n, NEW q \in Seq(Cmds(n)), NEW i \in 1 .. Len(q),
         Nearly(b, z, slot, q, i - 1), Keeps(q, i)
  PROVE Nearly(BindStep(slot, b, q[i]), BindStep(slot, z, q[i]), slot, q, i)
<1> DEFINE c == q[i]
           x == BindStep(slot, b, c)
           y == BindStep(slot, z, c)
<1>1. CASE b = z
  BY <1>1 DEF Nearly
<1>2. CASE b # z
  <2>1. PICK l, src, v, u, st : b = Bound(l, src, v, st) /\ z = Bound(l, src, u, st)
    BY <1>2 DEF Nearly
  <2>2. PICK j \in (i - 1) + 1 .. Len(q) : q[j].op = "SetInputs" /\ q[j].slot = slot
    BY <1>2 DEF Nearly
  <2>3. /\ b.there /\ b.loaded = l /\ b.src = src /\ b.stale = st /\ b.values = v
        /\ z.there /\ z.loaded = l /\ z.src = src /\ z.stale = st /\ z.values = u
    BY <2>1, BoundIs
  <2>4. Len(q) \in Nat /\ c \in Cmds(n)
    <3> DEFINE C == Cmds(n)
    <3>1. q \in Seq(C)
      OBVIOUS
    <3> HIDE DEF C
    <3>2. Len(q) \in Nat /\ c \in C
      BY <3>1
    <3> QED BY <3>2 DEF C
  <2>5. CASE ~About(slot, c)
    <3>1. x = b /\ y = z
      BY <2>5 DEF BindStep
    <3>2. j # i
      BY <2>2, <2>5 DEF About
    <3>3. j \in i + 1 .. Len(q)
      BY <2>4, <3>2
    <3> QED BY <2>1, <2>2, <3>1, <3>3 DEF Nearly
  <2>6. CASE About(slot, c) /\ c.op = "SetInputs"
    <3> HIDE DEF c
    <3>1. /\ x = Bound(b.loaded, b.src, c.values, b.stale)
          /\ y = Bound(z.loaded, z.src, c.values, z.stale)
      BY <2>3, <2>6 DEF BindStep
    <3>2. x = y
      BY <2>3, <3>1
    <3> QED BY <3>2 DEF Nearly, c
  <2>7. CASE About(slot, c) /\ c.op \in {"Add", "Remove"}
    <3>1. x = y
      BY <2>7 DEF BindStep
    <3> QED BY <3>1 DEF Nearly
  <2>8. CASE About(slot, c) /\ c.op = "Reload"
    <3>1. j # i
      BY <2>2, <2>8
    <3>2. j \in i + 1 .. Len(q)
      BY <2>4, <3>1
    <3> HIDE DEF c, x, y
    <3>3. CASE c.src \in Broken
      <4> DEFINE st2 == Yes
      <4>1. x = Bound(b.loaded, b.src, b.values, st2)
        BY <2>3, <2>8, <3>3 DEF BindStep, x, Yes
      <4>2. y = Bound(z.loaded, z.src, z.values, st2)
        BY <2>3, <2>8, <3>3 DEF BindStep, y, Yes
      <4> HIDE DEF st2
      <4>3. x = Bound(l, src, v, st2) /\ y = Bound(l, src, u, st2)
        BY <2>3, <4>1, <4>2
      <4> QED BY <2>2, <3>2, <4>3 DEF Nearly, c, x, y
    <3>4. CASE c.src \notin Broken
      <4> DEFINE l2 == Yes
                 st2 == ~Yes
                 s2 == c.src
                 v2 == Rebound(b.values)
                 u2 == Rebound(z.values)
      <4>1. x = Bound(l2, s2, v2, st2)
        BY <2>3, <2>8, <3>4 DEF BindStep, x, Yes
      <4>2. y = Bound(l2, s2, u2, st2)
        BY <2>3, <2>8, <3>4 DEF BindStep, y, Yes
      <4> HIDE DEF l2, st2, s2, v2, u2
      <4> QED BY <2>2, <3>2, <4>1, <4>2 DEF Nearly, c, x, y
    <3> QED BY <3>3, <3>4
  <2>9. About(slot, c) => c.op \in {"Add", "SetInputs", "Reload", "Remove"}
    BY DEF About
  <2> QED BY <2>5, <2>6, <2>7, <2>8, <2>9
<1> QED BY <1>1, <1>2

(* One command more, skipped. *)
LEMMA NearlySkipped ==
  ASSUME NEW b, NEW z, IsBinding(z), NEW slot, NEW n, NEW q \in Seq(Cmds(n)), NEW i \in 1 .. Len(q),
         Nearly(b, z, slot, q, i - 1), ~Keeps(q, i)
  PROVE Nearly(BindStep(slot, b, q[i]), z, slot, q, i)
<1> DEFINE c == q[i]
           x == BindStep(slot, b, c)
<1>1. c.op = "SetInputs" /\ \E j \in i + 1 .. Len(q) : q[j].op = "SetInputs" /\ q[j].slot = c.slot
  BY SkippedIs
<1>2. CASE c.slot = slot
  <2>0. \E j \in i + 1 .. Len(q) : q[j].op = "SetInputs" /\ q[j].slot = slot
    BY <1>1, <1>2
  <2>1. x = IF b.there THEN Bound(b.loaded, b.src, c.values, b.stale) ELSE b
    BY <1>1, <1>2 DEF BindStep, About
  <2>2. CASE b = z /\ ~b.there
    BY <2>1, <2>2 DEF Nearly
  <2>3. CASE b = z /\ b.there
    <3>1. z # Blank
      BY <2>3 DEF Blank
    <3>2. z = Bound(z.loaded, z.src, z.values, z.stale)
      BY <3>1 DEF IsBinding
    <3>3. x = Bound(z.loaded, z.src, c.values, z.stale)
      BY <2>1, <2>3
    <3> DEFINE l == z.loaded
               r == z.src
               v == c.values
               u == z.values
               t == z.stale
    <3>4. z = Bound(l, r, u, t) /\ x = Bound(l, r, v, t)
      BY <3>2, <3>3
    <3> HIDE DEF l, r, v, u, t, x, c
    <3> QED BY <2>0, <3>4 DEF Nearly, x, c
  <2>4. CASE b # z
    <3>1. PICK l, src, v, u, st : b = Bound(l, src, v, st) /\ z = Bound(l, src, u, st)
      BY <2>4 DEF Nearly
    <3>2. b.there /\ b.loaded = l /\ b.src = src /\ b.stale = st
      BY <3>1, BoundIs
    <3> DEFINE w == c.values
    <3>3. x = Bound(l, src, w, st)
      BY <2>1, <3>2
    <3> HIDE DEF w, x, c
    <3> QED BY <2>0, <3>1, <3>3 DEF Nearly, x, c
  <2> QED BY <2>2, <2>3, <2>4
<1>3. CASE c.slot # slot
  <2>1. x = b
    BY <1>3 DEF BindStep, About
  <2>2. CASE b = z
    BY <2>1, <2>2 DEF Nearly
  <2>3. CASE b # z
    <3>1. PICK j \in (i - 1) + 1 .. Len(q) : q[j].op = "SetInputs" /\ q[j].slot = slot
      BY <2>3 DEF Nearly
    <3>2. Len(q) \in Nat
      <4> DEFINE C == Cmds(n)
      <4>1. q \in Seq(C)
        OBVIOUS
      <4> HIDE DEF C
      <4> QED BY <4>1
    <3>3. j \in i + 1 .. Len(q)
      BY <1>3, <3>1, <3>2
    <3> QED BY <2>1, <2>3, <3>1, <3>3 DEF Nearly
  <2> QED BY <2>2, <2>3
<1> QED BY <1>2, <1>3

(* drain_taken: skipping superseded inputs loses nothing. *)
LEMMA BatchBinds ==
  ASSUME NEW n, NEW s, HostOK(n, s), NEW q \in Seq(Cmds(n)), NEW t, BatchTrail(s, q, t), NEW slot
  PROVE Known(t[Len(q)].s.slots, slot) = End(BindKind(slot), Known(s.slots, slot), q)
<1> DEFINE L == Len(q)
           C == Cmds(n)
           b(i) == End(BindKind(slot), Known(s.slots, slot), SubSeq(q, 1, i))
           z(i) == Known(t[i].s.slots, slot)
           G == {i \in 0 .. L : Nearly(b(i), z(i), slot, q, i)}
<1>1. L \in Nat /\ (\A i \in 1 .. L : q[i] \in C) /\ Seqn(q)
  <2> HIDE DEF C
  <2>1. q \in Seq(C)
    BY DEF C
  <2> QED BY <2>1, SeqIs
<1>2. b(0) = Known(s.slots, slot) /\ b(L) = End(BindKind(slot), Known(s.slots, slot), q)
  BY <1>1, EndEnds
<1>3. \A i \in 1 .. L : b(i) = BindStep(slot, b(i - 1), q[i])
  <2>1. \A i \in 1 .. L : b(i) = Step(BindKind(slot), b(i - 1), q[i])
    BY <1>1, EndNext
  <2> HIDE DEF b
  <2> QED BY <2>1, BindIs
<1>4. z(0) = Known(s.slots, slot)
  <2> DEFINE a == t[0]
  <2>1. a.s = s
    BY BatchBegins DEF BatchTrail
  <2> HIDE DEF a
  <2> QED BY <2>1 DEF a
<1>5. \A i \in 1 .. L : z(i) = IF Keeps(q, i) THEN BindStep(slot, z(i - 1), q[i]) ELSE z(i - 1)
  <2> SUFFICES ASSUME NEW i \in 1 .. L
               PROVE z(i) = IF Keeps(q, i) THEN BindStep(slot, z(i - 1), q[i]) ELSE z(i - 1)
    OBVIOUS
  <2> DEFINE a == t[i - 1]
             y == t[i]
             c == q[i]
  <2>1. IsAcc(n, a)
    <3>1. i - 1 \in 0 .. L
      BY <1>1
    <3> QED BY <3>1, BatchReaches
  <2>2. y = IF Keeps(q, i) THEN ApplyCommand(a, c) ELSE a
    BY DEF BatchTrail
  <2>3. c \in Cmds(n)
    BY <1>1
  <2> HIDE DEF a, y, c
  <2>4. CASE Keeps(q, i)
    <3>1. Known(y.s.slots, slot) = BindStep(slot, Known(a.s.slots, slot), c)
      BY <2>1, <2>2, <2>3, <2>4, KnownStep
    <3> QED BY <2>4, <3>1 DEF a, y, c
  <2>5. CASE ~Keeps(q, i)
    BY <2>2, <2>5 DEF a, y
  <2> QED BY <2>4, <2>5
<1>6. \A i : IsBinding(z(i))
  BY KnownBinds
<1> HIDE DEF b, z
<1>7. 0 \in G
  BY <1>1, <1>2, <1>4 DEF Nearly
<1>8. ASSUME NEW i \in 1 .. L, i - 1 \in G PROVE i \in G
  <2>1. Nearly(b(i - 1), z(i - 1), slot, q, i - 1)
    BY <1>8
  <2>2. CASE Keeps(q, i)
    <3>1. Nearly(BindStep(slot, b(i - 1), q[i]), BindStep(slot, z(i - 1), q[i]), slot, q, i)
      BY <2>1, <2>2, NearlyOn
    <3> QED BY <1>3, <1>5, <2>2, <3>1
  <2>3. CASE ~Keeps(q, i)
    <3>1. Nearly(BindStep(slot, b(i - 1), q[i]), z(i - 1), slot, q, i)
      BY <1>6, <2>1, <2>3, NearlySkipped
    <3> QED BY <1>3, <1>5, <2>3, <3>1
  <2> QED BY <2>2, <2>3
<1> HIDE DEF G
<1>9. \A i \in 0 .. L : i \in G
  BY <1>1, <1>7, <1>8, Upward
<1>10. Nearly(b(L), z(L), slot, q, L)
  BY <1>1, <1>9 DEF G
<1>11. b(L) = z(L)
  BY <1>1, <1>10 DEF Nearly
<1> QED BY <1>2, <1>11 DEF z

(* What a command sends at once leaves the views halfway. *)
LEMMA HalfwayOn ==
  ASSUME NEW n, NEW a, IsAcc(n, a), NEW c \in Cmds(n), NEW z, z = ApplyCommand(a, c), NEW slot,
         NEW w, NEW b, NEW still,
         HalfShown(a.s.slots, slot, End(ViewKind(slot), w, a.out), b, still)
  PROVE HalfShown(z.s.slots, slot, End(ViewKind(slot), w, z.out), b, still)
<1> DEFINE k == ViewKind(slot)
           x == End(k, w, a.out)
<1>0. /\ c.op \in SeriesOps \cup SlotOps
      /\ c.op \in SeriesOps => SeriesDone(n, a, z, c)
      /\ c.op \in SlotOps => SlotDone(n, a, z, c)
  BY CommandDoes
<1>1. CASE c.op \in SeriesOps
  BY <1>0, <1>1 DEF SeriesDone
<1>2. CASE c.op \in SlotOps
  <2>1. OtherwiseSame(a.s.slots, z.s.slots, c.slot)
    BY <1>0, <1>2 DEF SlotDone
  <2>2. PICK d : /\ Of(c.slot, d) /\ z.out = Cat(a.out, d)
                 /\ \A y, b1, s1 : HalfShown(a.s.slots, c.slot, y, b1, s1) =>
                      HalfShown(z.s.slots, c.slot, End(ViewKind(c.slot), y, d), b1, s1)
    BY <1>0, <1>2 DEF SlotDone
  <2>3. End(k, w, z.out) = End(k, x, d)
    <3>1. Seqn(a.out) /\ Seqn(d)
      BY <2>2, AccParts DEF Evs, Of
    <3> QED BY <2>2, <3>1, EndCat DEF Cat
  <2>4. CASE c.slot = slot
    BY <2>2, <2>3, <2>4
  <2>5. CASE c.slot # slot
    <3>1. End(k, x, d) = x
      <4>1. Len(d) \in Nat
        BY <2>2, SeqIs DEF Of, Evs
      <4>2. \A y, e : Step(k, y, e) = ViewStep(slot, y, e)
        BY StepIs
      <4> HIDE DEF x, k
      <4>3. \A i \in 1 .. Len(d) : Step(k, x, d[i]) = x
        BY <2>2, <2>5, <4>2 DEF Of, ViewStep
      <4> QED BY <4>1, <4>3, EndStays
    <3>2. slot \in DOMAIN z.s.slots =>
            slot \in DOMAIN a.s.slots /\ z.s.slots[slot] = a.s.slots[slot]
      BY <2>1, <2>5 DEF OtherwiseSame
    <3> HIDE DEF x
    <3> QED BY <2>3, <3>1, <3>2 DEF HalfShown, x
  <2> QED BY <2>4, <2>5
<1> QED BY <1>0, <1>1, <1>2

(* All along the batch. *)
LEMMA BatchShows ==
  ASSUME NEW n, NEW s, HostOK(n, s), NEW q \in Seq(Cmds(n)), NEW t, BatchTrail(s, q, t), NEW slot,
         NEW w, NEW still, HalfShown(s.slots, slot, w, s.bars, still)
  PROVE LET a == t[Len(q)] IN
        HalfShown(a.s.slots, slot, End(ViewKind(slot), w, a.out), s.bars, still)
<1> DEFINE L == Len(q)
           C == Cmds(n)
           k == ViewKind(slot)
           H(a) == HalfShown(a.s.slots, slot, End(k, w, a.out), s.bars, still)
           G == {i \in 0 .. L : H(t[i])}
<1>1. L \in Nat /\ \A i \in 1 .. L : q[i] \in C
  <2> HIDE DEF C
  <2>1. q \in Seq(C)
    BY DEF C
  <2> QED BY <2>1
<1>2. 0 \in G
  <2> DEFINE a == t[0]
  <2>1. a.s = s /\ a.out = << >>
    BY BatchBegins DEF BatchTrail
  <2> HIDE DEF a
  <2>2. End(k, w, a.out) = w
    BY <2>1, EndNone
  <2>3. H(a)
    BY <2>1, <2>2
  <2> QED BY <1>1, <2>3 DEF a
<1>3. ASSUME NEW i \in 1 .. L, i - 1 \in G PROVE i \in G
  <2> DEFINE a == t[i - 1]
             y == t[i]
             c == q[i]
  <2>1. IsAcc(n, a)
    <3>1. i - 1 \in 0 .. L
      BY <1>1
    <3> QED BY <3>1, BatchReaches
  <2>2. y = IF Keeps(q, i) THEN ApplyCommand(a, c) ELSE a
    BY DEF BatchTrail
  <2>3. c \in Cmds(n) /\ H(a)
    BY <1>1, <1>3
  <2> HIDE DEF a, y, c
  <2>4. CASE Keeps(q, i)
    <3>1. H(y)
      BY <2>1, <2>2, <2>3, <2>4, HalfwayOn
    <3> QED BY <3>1 DEF y
  <2>5. CASE ~Keeps(q, i)
    BY <2>2, <2>3, <2>5 DEF y
  <2> QED BY <2>4, <2>5
<1> HIDE DEF G
<1>4. \A i \in 0 .. L : i \in G
  BY <1>1, <1>2, <1>3, Upward
<1> QED BY <1>1, <1>4 DEF G

(* The end of a batch: the last forming bar it was told of is put in place. *)
LEMMA Finished ==
  ASSUME NEW n, NEW a, IsAcc(n, a)
  PROVE LET z == FinishApplying(a) IN
        /\ IsAcc(n, z) /\ Series(z.s) = Held(a) /\ z.s.bars = a.s.bars
        /\ z.s.slots = a.s.slots /\ z.rebuilt = a.rebuilt /\ z.out = a.out
<1> DEFINE b == a.s.bars
           p == a.s.partial
           r == a.s.run
           f == a.s.slots
           P == a.partial
           R == a.rungs
           B1 == a.rebuilt
           O == a.out
           p2 == IF P = None THEN p ELSE P
           z == FinishApplying(a)
<1>1. /\ b \in Cuts /\ p \in Prints /\ r \in Prints /\ P \in Prints \cup {None}
      /\ B1 \in BOOLEAN /\ SlotsOK(n, f) /\ Evs(O)
  BY AccParts
<1>2. a = Acc(Host(b, p, r, f), P, R, B1, O)
  BY AccParts, Zenon
<1>3. z = IF P = None THEN a ELSE [a EXCEPT !.s.partial = P]
  BY DEF FinishApplying
<1>4. Held(a) = SeriesOf(b, p2, r)
  BY DEF Held
<1>5. [a EXCEPT !.s.partial = P] = [a EXCEPT !.s = [a.s EXCEPT !.partial = P]]
  OBVIOUS
<1> HIDE DEF b, p, r, f, P, R, B1, O, z
<1>6. z = Acc(Host(b, p2, r, f), P, R, B1, O)
  <2>1. CASE P = None
    BY <1>2, <1>3, <2>1
  <2>2. CASE P # None
    <3> DEFINE e == [a.s EXCEPT !.partial = P]
    <3>1. a.s = Host(b, p, r, f)
      BY <1>2, AccFields
    <3>2. e = Host(b, P, r, f)
      BY <3>1, HostPartial
    <3>3. z = [a EXCEPT !.s = e]
      BY <1>3, <1>5, <2>2
    <3> HIDE DEF e
    <3>4. z = Acc(e, P, R, B1, O)
      BY <1>2, <3>3, AccHost
    <3> QED BY <2>2, <3>2, <3>4
  <2> QED BY <2>1, <2>2
<1>7. p2 \in Prints
  BY <1>1
<1> HIDE DEF p2
<1>8. /\ IsAcc(n, z) /\ z.s.bars = b /\ z.s.partial = p2 /\ z.s.run = r /\ z.s.slots = f
      /\ z.partial = P /\ z.rungs = R /\ z.rebuilt = B1 /\ z.out = O
  <2> DEFINE h == Host(b, p2, r, f)
  <2>1. h.bars = b /\ h.partial = p2 /\ h.run = r /\ h.slots = f
    BY HostFields
  <2>2. z = Acc(h, P, R, B1, O)
    BY <1>6
  <2> HIDE DEF h
  <2>3. z.s = h /\ z.partial = P /\ z.rungs = R /\ z.rebuilt = B1 /\ z.out = O
    BY <2>2, AccFields
  <2>4. IsAcc(n, z)
    BY <1>1, <1>6, <1>7, AccMade
  <2> QED BY <2>1, <2>3, <2>4
<1>9. Series(z.s) = Held(a)
  BY <1>4, <1>8 DEF Series
<1> QED BY <1>8, <1>9 DEF b, f, B1, O, z

-----------------------------------------------------------------------------
(* What is published of one slot. *)

(* A column is a beginning of the bars, and a column of more bars begins    *)
(* with the one of fewer.                                                   *)
LEMMA ColumnIs ==
  ASSUME NEW src \in Sources, NEW b \in Cuts
  PROVE Column(src, b) \in Cuts /\ Failed(src, b) \in BOOLEAN
<1> DEFINE P == Prints
           k == FailsAt[src]
<1>1. b \in Seq(P) /\ k \in Nat
  BY PaneAssumption DEF Cuts, Prints
<1>2. Failed(src, b) => k > 0 /\ Len(b) >= k
  BY DEF Failed
<1> HIDE DEF P, k
<1>3. Failed(src, b) => SubSeq(b, 1, k - 1) \in Seq(P)
  <2> SUFFICES ASSUME Failed(src, b) PROVE SubSeq(b, 1, k - 1) \in Seq(P)
    OBVIOUS
  <2>1. k - 1 \in 0 .. Len(b)
    BY <1>1, <1>2
  <2> QED BY <1>1, <2>1, CutInTwo
<1>4. Column(src, b) = IF Failed(src, b) THEN SubSeq(b, 1, k - 1) ELSE b
  BY DEF Column, k
<1>5. Column(src, b) \in Seq(P)
  BY <1>1, <1>3, <1>4
<1> QED BY <1>5 DEF P, Cuts, Prints, Failed

(* More bars, a longer column. *)
LEMMA ColumnGrows ==
  ASSUME NEW src \in Sources, NEW b \in Cuts, NEW c \in Cuts, Grown(b, c)
  PROVE /\ Failed(src, b) => Failed(src, c)
        /\ Len(Column(src, b)) \in 0 .. Len(Column(src, c))
        /\ Column(src, b) = SubSeq(Column(src, c), 1, Len(Column(src, b)))
<1> DEFINE P == Prints
           k == FailsAt[src]
           x == Column(src, b)
           y == Column(src, c)
<1>1. b \in Seq(P) /\ c \in Seq(P) /\ k \in Nat
  BY PaneAssumption DEF Cuts, Prints
<1>2. /\ Failed(src, b) <=> (k > 0 /\ Len(b) >= k)
      /\ Failed(src, c) <=> (k > 0 /\ Len(c) >= k)
  BY DEF Failed
<1>3. /\ x = IF Failed(src, b) THEN SubSeq(b, 1, k - 1) ELSE b
      /\ y = IF Failed(src, c) THEN SubSeq(c, 1, k - 1) ELSE c
  BY DEF Column
<1>4. Len(b) <= Len(c) /\ \A i \in 1 .. Len(b) : c[i] = b[i]
  BY DEF Grown
<1> HIDE DEF P, k, x, y
<1>5. Len(b) \in Nat /\ Len(c) \in Nat
  BY <1>1
<1>6. Failed(src, b) => Failed(src, c)
  BY <1>1, <1>2, <1>4, <1>5
<1> DEFINE cut(s) == SubSeq(s, 1, k - 1)
<1>7. \A s \in Seq(P) : (k > 0 /\ Len(s) >= k) =>
        cut(s) \in Seq(P) /\ Len(cut(s)) = k - 1 /\ \A i \in 1 .. k - 1 : cut(s)[i] = s[i]
  <2> SUFFICES ASSUME NEW s \in Seq(P), k > 0, Len(s) >= k
               PROVE /\ cut(s) \in Seq(P) /\ Len(cut(s)) = k - 1
                     /\ \A i \in 1 .. k - 1 : cut(s)[i] = s[i]
    OBVIOUS
  <2>1. k - 1 \in 0 .. Len(s)
    BY <1>1
  <2>2. SubSeq(s, 1, k - 1) \in Seq(P) /\ Len(SubSeq(s, 1, k - 1)) = k - 1
    BY <2>1, CutInTwo
  <2>3. \A i \in 1 .. k - 1 : SubSeq(s, 1, k - 1)[i] = s[i]
    BY <2>1, <1>1
  <2> QED BY <2>2, <2>3
<1> HIDE DEF cut
<1>8. /\ x = IF Failed(src, b) THEN cut(b) ELSE b
      /\ y = IF Failed(src, c) THEN cut(c) ELSE c
  BY <1>3 DEF cut
<1>9. /\ x \in Seq(P) /\ y \in Seq(P)
      /\ Len(x) = IF Failed(src, b) THEN k - 1 ELSE Len(b)
      /\ Len(y) = IF Failed(src, c) THEN k - 1 ELSE Len(c)
      /\ \A i \in 1 .. Len(x) : x[i] = b[i]
      /\ \A i \in 1 .. Len(y) : y[i] = c[i]
  BY <1>1, <1>2, <1>7, <1>8
<1>10. Len(x) <= Len(y)
  BY <1>1, <1>2, <1>4, <1>5, <1>6, <1>9
<1>11. Len(x) <= Len(b)
  BY <1>1, <1>2, <1>5, <1>9
<1>12. \A i \in 1 .. Len(x) : y[i] = x[i]
  BY <1>4, <1>5, <1>9, <1>10, <1>11
<1>13. Len(x) \in 0 .. Len(y)
  BY <1>9, <1>10
<1> DEFINE z == SubSeq(y, 1, Len(x))
<1>14. z \in Seq(P) /\ Len(z) = Len(x)
  BY <1>9, <1>13, CutInTwo
<1>15. \A i \in 1 .. Len(x) : z[i] = y[i]
  BY <1>9, <1>13
<1> HIDE DEF z
<1>16. x = z
  BY <1>9, <1>12, <1>14, <1>15, SeqEqual
<1> QED BY <1>6, <1>13, <1>16 DEF x, y, z

(* One row sent. *)
Row(slot, row) == [ev |-> "Appended", slot |-> slot, row |-> row]

(* What a view keeps while rows are appended to it. *)
Same(v, w) ==
  /\ Viewed(w) /\ w.there = "yes" /\ w.view.src = v.view.src /\ w.view.inputs = v.view.inputs
  /\ w.view.stale = v.view.stale /\ w.view.error = v.view.error

(* One element more. *)
OneMore(s, x) == Append(s, x)

(* A row on a view. *)
LEMMA RowOnView ==
  ASSUME NEW v, IsView(v), NEW e, e.ev = "Appended", NEW w, w = ApplyToView(v, e)
  PROVE /\ w.src = v.src /\ w.inputs = v.inputs /\ w.stale = v.stale
        /\ w.error = v.error /\ w.rows = OneMore(v.rows, e.row)
BY DEF OneMore, IsView, ApplyToView, View

(* And on what is seen of a slot. *)
LEMMA RowSeen ==
  ASSUME NEW slot, NEW v, NEW w, Same(v, w), NEW e, NEW row, e = Row(slot, row),
         NEW x, x = ViewStep(slot, w, e)
  PROVE Same(v, x) /\ x.view.rows = OneMore(w.view.rows, row)
<1>1. e.ev = "Appended" /\ e.slot = slot /\ e.row = row /\ e.ev \in EventKinds
      /\ e.ev \in EventKinds \ {"Rebuilt"}
  BY DEF Row, EventKinds
<1>2. Viewed(w) /\ w.there = "yes" /\ IsView(w.view)
  BY DEF Same, Viewed
<1> DEFINE p == w.view
           u == ApplyToView(p, e)
<1>3. Viewed(x) /\ x.there = "yes" /\ x.view = u
  BY <1>1, <1>2, ViewStepIs
<1>4. u = ApplyToView(p, e) /\ IsView(p)
  BY <1>2
<1> HIDE DEF u, p
<1>6. e.ev \in EventKinds \ {"Rebuilt"} /\ e.ev = "Appended"
  BY <1>1
<1>5. /\ u.src = p.src /\ u.inputs = p.inputs /\ u.stale = p.stale
      /\ u.error = p.error /\ u.rows = OneMore(p.rows, e.row)
  BY <1>4, <1>6, RowOnView
<1> QED BY <1>1, <1>3, <1>5 DEF Same, p

(* The row itself. *)
LEMMA RowPut ==
  ASSUME NEW slot, NEW w, Viewed(w), w.there = "yes", NEW e, NEW row, e = Row(slot, row),
         NEW x, x = ViewStep(slot, w, e)
  PROVE x.view.rows = OneMore(w.view.rows, row)
<1>1. Same(w, w)
  BY DEF Same
<1> QED BY <1>1, RowSeen

(* The rows a chart lacks. *)
RowsFrom(slot, rows, k) == [i \in 1 .. Len(rows) - k |-> Row(slot, rows[k + i])]
(* They go on from what it has. *)
LEMMA RowsSeen ==
  ASSUME NEW slot, NEW rows \in Cuts, NEW k \in 0 .. Len(rows), NEW d,
         d = RowsFrom(slot, rows, k),
         NEW v, Viewed(v), v.there = "yes", NEW x, x = End(ViewKind(slot), v, d)
  PROVE /\ Of(slot, d) /\ Same(v, x)
        /\ v.view.rows = SubSeq(rows, 1, k) => x.view.rows = rows
<1> DEFINE P == Prints
           L == Len(rows) - k
           kind == ViewKind(slot)
<1>1. rows \in Seq(P) /\ Len(rows) \in Nat /\ k \in Nat /\ L \in Nat
  <2>1. rows \in Seq(P)
    BY DEF Cuts, Prints
  <2> HIDE DEF P
  <2>2. Len(rows) \in Nat
    BY <2>1
  <2> QED BY <2>1, <2>2
<1> HIDE DEF P
<1>2. Len(d) = L /\ (\A i \in 1 .. L : d[i] = Row(slot, rows[k + i])) /\ Seqn(d)
  <2> DEFINE f(i) == Row(slot, rows[k + i])
             S == {f(i) : i \in 1 .. L}
  <2>1. d = [i \in 1 .. L |-> f(i)] /\ \A i \in 1 .. L : f(i) \in S
    BY DEF RowsFrom
  <2>0. \A i \in 1 .. L : f(i) = Row(slot, rows[k + i])
    OBVIOUS
  <2> HIDE DEF L, f, S
  <2>2. [i \in 1 .. L |-> f(i)] \in Seq(S)
    BY <1>1, <2>1, IsASeq
  <2>3. d \in Seq(S) /\ Len(d) = L /\ \A i \in 1 .. L : d[i] = f(i)
    BY <1>1, <2>1, <2>2
  <2>5. Seqn(d)
    BY <2>3, SeqIs
  <2> QED BY <2>0, <2>3, <2>5
<1>3. Of(slot, d)
  <2>1. \A i \in 1 .. L : d[i].ev \in EventKinds /\ d[i].slot = slot
    <3>1. \A row : Row(slot, row).ev \in EventKinds /\ Row(slot, row).slot = slot
      BY DEF Row, EventKinds
    <3> HIDE DEF L
    <3> QED BY <1>2, <3>1
  <2> HIDE DEF L
  <2> QED BY <1>2, <2>1 DEF Of, Evs
<1> HIDE DEF L
<1>4. PICK t : Trail(kind, v, d, t)
  BY <1>1, <1>2, TrailExists
<1>5. x = t[L] /\ t[0] = v /\ \A i \in 1 .. L : t[i] = ViewStep(slot, t[i - 1], d[i])
  <2>1. x = t[L]
    BY <1>1, <1>2, <1>4, EndIs
  <2>2. \A y, e : Step(kind, y, e) = ViewStep(slot, y, e)
    BY StepIs
  <2> HIDE DEF kind
  <2> QED BY <1>2, <1>4, <2>1, <2>2 DEF Trail
<1> DEFINE full == v.view.rows = SubSeq(rows, 1, k)
           G == {i \in 0 .. L : Same(v, t[i]) /\ (full => t[i].view.rows = SubSeq(rows, 1, k + i))}
<1>6. 0 \in G
  <2> DEFINE z == t[0]
  <2>1. z = v
    BY <1>5
  <2> HIDE DEF z
  <2>2. Same(v, z)
    BY <2>1 DEF Same
  <2>3. full => z.view.rows = SubSeq(rows, 1, k + 0)
    BY <1>1, <2>1
  <2> HIDE DEF full
  <2> QED BY <1>1, <2>2, <2>3 DEF z
<1>7. ASSUME NEW i \in 1 .. L, i - 1 \in G PROVE i \in G
  <2> DEFINE y == t[i - 1]
             z == t[i]
             e == d[i]
             row == rows[k + i]
             j == k + i
  <2>1. Same(v, y) /\ (full => y.view.rows = SubSeq(rows, 1, k + (i - 1)))
    BY <1>7
  <2>2. z = ViewStep(slot, y, e) /\ e = Row(slot, row)
    BY <1>2, <1>5
  <2>3. j \in 1 .. Len(rows) /\ k + (i - 1) = j - 1
    BY <1>1 DEF L
  <2>4. SubSeq(rows, 1, j) = Append(SubSeq(rows, 1, j - 1), rows[j])
    BY <1>1, <2>3, UptoNext
  <2> HIDE DEF y, z, e, full, row
  <2>5. Same(v, z) /\ z.view.rows = OneMore(y.view.rows, row)
    <3>1. Same(v, y)
      BY <2>1
    <3>2. Same(v, z)
      BY <2>2, <3>1, RowSeen
    <3>4. Viewed(y) /\ y.there = "yes"
      BY <3>1 DEF Same
    <3>3. z.view.rows = OneMore(y.view.rows, row)
      BY <2>2, <3>4, RowPut
    <3> QED BY <3>2, <3>3
  <2>6. full => z.view.rows = SubSeq(rows, 1, j)
    <3>1. full => y.view.rows = SubSeq(rows, 1, j - 1)
      BY <2>1, <2>3
    <3>2. Append(SubSeq(rows, 1, j - 1), rows[j]) = Append(SubSeq(rows, 1, j - 1), row)
      BY DEF row
    <3> DEFINE a == SubSeq(rows, 1, j - 1)
    <3> HIDE DEF a
    <3>3. full => y.view.rows = a
      BY <3>1 DEF a
    <3>4. SubSeq(rows, 1, j) = Append(a, row)
      BY <2>4, <3>2 DEF a
    <3> HIDE DEF j
    <3> QED BY <2>5, <3>3, <3>4 DEF OneMore
  <2>7. Same(v, t[i])
    BY <2>5 DEF z
  <2>8. full => t[i].view.rows = SubSeq(rows, 1, k + i)
    BY <2>6 DEF z
  <2> HIDE DEF full
  <2> QED BY <1>1, <2>7, <2>8
<1> HIDE DEF G
<1>8. \A i \in 0 .. L : i \in G
  BY <1>1, <1>6, <1>7, Upward
<1>9. Same(v, x) /\ (full => x.view.rows = SubSeq(rows, 1, k + L))
  <2>1. L \in G
    BY <1>1, <1>8
  <2> HIDE DEF full
  <2> QED BY <1>5, <2>1 DEF G
<1>10. k + L = Len(rows) /\ SubSeq(rows, 1, Len(rows)) = rows
  <2>1. k + L = Len(rows)
    BY <1>1 DEF L
  <2>2. SubSeq(rows, 1, Len(rows)) = rows
    <3>1. Seqn(rows)
      BY <1>1, SeqIs
    <3> QED BY <3>1, EndEnds
  <2> QED BY <2>1, <2>2
<1>11. full => x.view.rows = rows
  BY <1>9, <1>10
<1> QED BY <1>3, <1>9, <1>11

(* The preview and the lane, behind everything else. *)
LastTwo(slot, frame, samples) ==
  <<[ev |-> "Preview", slot |-> slot, frame |-> frame],
    [ev |-> "Lane", slot |-> slot, samples |-> samples]>>
(* Both shown, and nothing else. *)
LEMMA LastSeen ==
  ASSUME NEW slot, NEW frame, NEW samples, NEW d, d = LastTwo(slot, frame, samples),
         NEW v, Viewed(v), v.there = "yes", NEW x, x = End(ViewKind(slot), v, d)
  PROVE /\ Of(slot, d) /\ Same(v, x) /\ x.view.rows = v.view.rows
        /\ x.view.preview = frame /\ x.view.lane = samples
<1> DEFINE E1 == [ev |-> "Preview", slot |-> slot, frame |-> frame]
           E2 == [ev |-> "Lane", slot |-> slot, samples |-> samples]
<1>1. /\ E1.ev = "Preview" /\ E1.slot = slot /\ E1.frame = frame /\ E1.ev \in EventKinds
      /\ E2.ev = "Lane" /\ E2.slot = slot /\ E2.samples = samples /\ E2.ev \in EventKinds
      /\ E1.ev \in EventKinds \ {"Rebuilt"} /\ E2.ev \in EventKinds \ {"Rebuilt"}
  BY DEF EventKinds
<1>2. d = <<E1, E2>>
  BY DEF LastTwo
<1> HIDE DEF E1, E2
<1>3. Seqn(d) /\ Len(d) = 2 /\ d[1] = E1 /\ d[2] = E2 /\ \A i \in 1 .. Len(d) : i = 1 \/ i = 2
  <2>1. d \in Seq({E1, E2}) /\ Len(d) = 2 /\ d[1] = E1 /\ d[2] = E2
    BY <1>2
  <2>2. Seqn(d)
    BY <2>1, SeqIs
  <2> QED BY <2>1, <2>2
<1>4. Of(slot, d)
  BY <1>1, <1>3 DEF Of, Evs
<1> DEFINE y == ViewStep(slot, v, E1)
           z == ViewStep(slot, y, E2)
           p == ApplyToView(v.view, E1)
           q == ApplyToView(p, E2)
<1>5. x = z
  <2>1. x = Step(ViewKind(slot), Step(ViewKind(slot), v, E1), E2)
    BY <1>2, EndTwo
  <2>2. \A u, e : Step(ViewKind(slot), u, e) = ViewStep(slot, u, e)
    BY StepIs
  <2> QED BY <2>1, <2>2
<1>6. /\ y = ViewStep(slot, v, E1) /\ z = ViewStep(slot, y, E2)
      /\ p = ApplyToView(v.view, E1) /\ q = ApplyToView(p, E2)
  OBVIOUS
<1> HIDE DEF y, z, p, q
<1>7. Viewed(y) /\ y.there = "yes" /\ y.view = p
  BY <1>1, <1>6, ViewStepIs
<1>8. IsView(v.view)
  BY DEF Viewed
<1>9. /\ IsView(p) /\ p.src = v.view.src /\ p.inputs = v.view.inputs /\ p.stale = v.view.stale
      /\ p.error = v.view.error /\ p.rows = v.view.rows /\ p.preview = frame
  BY <1>1, <1>6, <1>8, EventOnView
<1>10. Viewed(z) /\ z.there = "yes" /\ z.view = q
  BY <1>1, <1>6, <1>7, ViewStepIs
<1>11. /\ q.src = p.src /\ q.inputs = p.inputs /\ q.stale = p.stale
       /\ q.error = p.error /\ q.rows = p.rows /\ q.preview = p.preview /\ q.lane = samples
  BY <1>1, <1>6, <1>9, EventOnView
<1> QED BY <1>4, <1>5, <1>9, <1>10, <1>11 DEF Same

(* The one event of a slot that is shown anew. *)
Whole(slot, m, rows) ==
  [ev |-> "Rebuilt", slot |-> slot, src |-> m.src, rows |-> rows, inputs |-> m.values,
   stale |-> m.stale]

(* Whether it is, whether its evaluation has failed, and whether the chart  *)
(* has been told so.                                                        *)
Anew(a, m)  == a.rebuilt \/ ~m.synced
Broke(a, m) == Failed(m.src, a.s.bars)
Told(a, m)  == m.told /\ m.synced /\ ~a.rebuilt
ErrorEvents(slot, failed, told) == IF failed /\ ~told THEN <<Errs(slot)>> ELSE << >>

(* slot_deltas: the rows, the error, the preview and the lane. *)
Tip(a, slot, m) ==
  LastTwo(slot, IF Broke(a, m) THEN << >> ELSE a.s.partial,
          IF Broke(a, m) THEN << >> ELSE Ladder(a))
(* The four parts, and the first of them. *)
LEMMA DeltasAre ==
  ASSUME NEW a, NEW slot, NEW m, m = a.s.slots[slot]
  PROVE /\ Deltas(a, slot) = Cat(Cat(RowEvents(a, slot),
                                     ErrorEvents(slot, Broke(a, m), Told(a, m))), Tip(a, slot, m))
        /\ RowEvents(a, slot) = IF Anew(a, m) THEN <<Whole(slot, m, Column(m.src, a.s.bars))>>
                                ELSE RowsFrom(slot, Column(m.src, a.s.bars), m.known)
<1>1. Deltas(a, slot) = Cat(Cat(RowEvents(a, slot),
                                     ErrorEvents(slot, Broke(a, m), Told(a, m))), Tip(a, slot, m))
  BY DEF Deltas, Cat, ErrorEvents, Errs, Broke, Told, Tip, LastTwo
<1>2. RowEvents(a, slot) = IF Anew(a, m) THEN <<Whole(slot, m, Column(m.src, a.s.bars))>>
                                ELSE RowsFrom(slot, Column(m.src, a.s.bars), m.known)
  BY DEF RowEvents, Anew, Whole, RowsFrom, Row
<1> QED BY <1>1, <1>2

(* The bindings of a slot, as its view shows them. *)
Bears(m, w) ==
  /\ Viewed(w) /\ w.there = "yes"
  /\ w.view.src = m.src /\ w.view.inputs = m.values /\ w.view.stale = m.stale

(* Shown anew, it has its bindings, its rows and no error. *)
LEMMA WholeSeen ==
  ASSUME NEW slot, NEW m, NEW rows, NEW d, d = <<Whole(slot, m, rows)>>,
         NEW w, Viewed(w), NEW x, x = End(ViewKind(slot), w, d)
  PROVE /\ Of(slot, d) /\ Bears(m, x) /\ x.view.rows = rows /\ x.view.error = ~Yes
<1> DEFINE e == Whole(slot, m, rows)
<1>1. /\ e.ev = "Rebuilt" /\ e.slot = slot /\ e.src = m.src /\ e.rows = rows
      /\ e.inputs = m.values /\ e.stale = m.stale /\ e.ev \in EventKinds
  BY DEF Whole, EventKinds
<1>2. d = <<e>>
  OBVIOUS
<1> HIDE DEF e
<1>3. Seqn(d) /\ Len(d) = 1 /\ d[1] = e
  BY <1>2, SeqnOne
<1>4. Of(slot, d)
  BY <1>1, <1>3 DEF Of, Evs
<1>5. x = ViewStep(slot, w, e)
  <2>1. x = Step(ViewKind(slot), w, e)
    BY <1>2, EndOne
  <2>2. \A u, f : Step(ViewKind(slot), u, f) = ViewStep(slot, u, f)
    BY StepIs
  <2> QED BY <2>1, <2>2
<1>6. Viewed(x) /\ x.there = "yes" /\ x.view = NewView(e)
  BY <1>1, <1>5, ViewStepIs
<1> DEFINE u == NewView(e)
<1>7. u = NewView(e)
  OBVIOUS
<1> HIDE DEF u
<1>8. /\ u.src = e.src /\ u.rows = e.rows /\ u.inputs = e.inputs
      /\ u.stale = e.stale /\ u.error = ~Yes
  BY <1>7, NewViewIs
<1> QED BY <1>1, <1>4, <1>6, <1>8 DEF Bears, u

(* What one error does to a view. *)
LEMMA ErrorSeen ==
  ASSUME NEW slot, NEW m, NEW failed \in BOOLEAN, NEW told \in BOOLEAN, NEW d,
         d = ErrorEvents(slot, failed, told),
         NEW w, Bears(m, w), NEW x, x = End(ViewKind(slot), w, d)
  PROVE /\ Of(slot, d) /\ Bears(m, x) /\ x.view.rows = w.view.rows
        /\ IF failed /\ ~told THEN x.view.error = Yes ELSE x.view.error = w.view.error
<1> DEFINE e == Errs(slot)
<1>1. e.ev = "Error" /\ e.slot = slot /\ e.ev \in EventKinds /\ e.ev \in EventKinds \ {"Rebuilt"}
  BY DEF Errs, EventKinds
<1>2. CASE ~(failed /\ ~told)
  <2>1. d = << >>
    BY <1>2 DEF ErrorEvents
  <2>2. x = w
    BY <2>1, EndNone
  <2>3. Of(slot, d)
    <3>1. Seqn(d) /\ Len(d) = 0
      BY <2>1, NothingIsSeqn
    <3> QED BY <3>1 DEF Of, Evs
  <2> QED BY <1>2, <2>2, <2>3
<1>3. CASE failed /\ ~told
  <2>1. d = <<e>>
    BY <1>3 DEF ErrorEvents
  <2> HIDE DEF e
  <2>2. Seqn(d) /\ Len(d) = 1 /\ d[1] = e
    BY <2>1, SeqnOne
  <2>3. Of(slot, d)
    BY <1>1, <2>2 DEF Of, Evs
  <2>4. x = ViewStep(slot, w, e)
    <3>1. x = Step(ViewKind(slot), w, e)
      BY <2>1, EndOne
    <3>2. \A u, f : Step(ViewKind(slot), u, f) = ViewStep(slot, u, f)
      BY StepIs
    <3> QED BY <3>1, <3>2
  <2>5. Viewed(w) /\ w.there = "yes" /\ IsView(w.view)
    BY DEF Bears, Viewed
  <2> DEFINE u == ApplyToView(w.view, e)
  <2>6. Viewed(x) /\ x.there = "yes" /\ x.view = u
    BY <1>1, <2>4, <2>5, ViewStepIs
  <2>7. u = ApplyToView(w.view, e)
    OBVIOUS
  <2> HIDE DEF u
  <2>8. /\ u.src = w.view.src /\ u.inputs = w.view.inputs /\ u.rows = w.view.rows
        /\ u.stale = w.view.stale /\ u.error = Yes
    BY <1>1, <2>5, <2>7, EventOnView
  <2> QED BY <1>3, <2>3, <2>6, <2>8 DEF Bears
<1> QED BY <1>2, <1>3

(* What a slot shows once the rows it lacked are sent. *)
RowsLeft(a, m, still, b, x) ==
  /\ Bears(m, x)
  /\ Anew(a, m) \/ still = "no" => x.view.rows = Column(m.src, a.s.bars)
  /\ IF Anew(a, m) THEN x.view.error = ~Yes
     ELSE m.told = Failed(m.src, b) /\ (still = "no" => x.view.error = Failed(m.src, b))

(* The rows sent: all of them, or those behind what the chart had. *)
LEMMA RowsSent ==
  ASSUME NEW n, NEW a, IsAcc(n, a), NEW slot, NEW m \in Mirrors, m = a.s.slots[slot], m.loaded,
         NEW b \in Cuts, a.rebuilt \/ Grown(b, a.s.bars), NEW still, NEW w, Viewed(w),
         Halfway(m, w, b, still), NEW d, d = RowEvents(a, slot),
         NEW x, x = End(ViewKind(slot), w, d)
  PROVE Of(slot, d) /\ RowsLeft(a, m, still, b, x)
<1> DEFINE rows == Column(m.src, a.s.bars)
<1>1. m.src \in Sources /\ a.s.bars \in Cuts
  BY AccParts, MirrorFields
<1>2. rows \in Cuts
  BY <1>1, ColumnIs
<1>3. d = IF Anew(a, m) THEN <<Whole(slot, m, rows)>> ELSE RowsFrom(slot, rows, m.known)
  BY DeltasAre
<1>4. CASE Anew(a, m)
  <2> HIDE DEF rows
  <2>1. d = <<Whole(slot, m, rows)>>
    BY <1>3, <1>4
  <2>2. Of(slot, d) /\ Bears(m, x) /\ x.view.rows = rows /\ x.view.error = ~Yes
    BY <2>1, WholeSeen
  <2> QED BY <1>4, <2>2 DEF RowsLeft, rows
<1>5. CASE ~Anew(a, m)
  <2> DEFINE k == m.known
             old == Column(m.src, b)
  <2>1. ~a.rebuilt /\ m.synced /\ Grown(b, a.s.bars)
    BY <1>5 DEF Anew
  <2>2. UpToDate(m, w, b, still)
    BY <2>1 DEF Halfway
  <2>3. /\ w.there = "yes" /\ w.view.src = m.src /\ w.view.stale = m.stale
        /\ w.view.inputs = m.values /\ k = Len(old) /\ m.told = Failed(m.src, b)
        /\ still = "no" => w.view.rows = old /\ w.view.error = Failed(m.src, b)
    BY <2>2 DEF UpToDate, Follows
  <2>4. Len(old) \in 0 .. Len(rows) /\ old = SubSeq(rows, 1, Len(old))
    BY <1>1, <2>1, ColumnGrows
  <2>5. d = RowsFrom(slot, rows, k)
    BY <1>3, <1>5
  <2> HIDE DEF rows, old, k
  <2>6. k \in 0 .. Len(rows) /\ (still = "no" => w.view.rows = SubSeq(rows, 1, k))
    BY <2>3, <2>4
  <2>7. Of(slot, d) /\ Same(w, x)
    BY <1>2, <2>3, <2>5, <2>6, RowsSeen
  <2>8. w.view.rows = SubSeq(rows, 1, k) => x.view.rows = rows
    BY <1>2, <2>3, <2>5, <2>6, RowsSeen
  <2>9. Bears(m, x) /\ x.view.error = w.view.error
    BY <2>3, <2>7 DEF Same, Bears
  <2> QED BY <1>5, <2>3, <2>6, <2>7, <2>8, <2>9 DEF RowsLeft, rows
<1> QED BY <1>4, <1>5

(* Events of one slot behind events of it. *)
LEMMA OfCat ==
  ASSUME NEW slot, NEW q, Of(slot, q), NEW p, Of(slot, p)
  PROVE Of(slot, Cat(q, p))
<1>1. Evs(Cat(q, p)) /\ Seqn(q) /\ Seqn(p)
  BY EvsCat DEF Cat, Of, Evs
<1> SUFFICES ASSUME NEW i \in 1 .. Len(Cat(q, p)) PROVE Cat(q, p)[i].slot = slot
  BY <1>1 DEF Of
<1>2. /\ Len(q) \in Nat /\ Len(p) \in Nat /\ Len(Cat(q, p)) = Len(q) + Len(p)
      /\ \A j \in 1 .. Len(q) : Cat(q, p)[j] = q[j]
      /\ \A j \in 1 .. Len(p) : Cat(q, p)[Len(q) + j] = p[j]
  BY <1>1, SeqnCat DEF Cat
<1>3. CASE i \in 1 .. Len(q)
  BY <1>2, <1>3 DEF Of
<1>4. CASE i \notin 1 .. Len(q)
  <2>1. i - Len(q) \in 1 .. Len(p) /\ Len(q) + (i - Len(q)) = i
    BY <1>2, <1>4
  <2>2. Cat(q, p)[i] = p[i - Len(q)]
    BY <1>2, <2>1
  <2> QED BY <2>1, <2>2 DEF Of
<1> QED BY <1>3, <1>4

(* What a slot shows once all of its deltas are. *)
AllLeft(a, m, still, x) ==
  /\ Bears(m, x)
  /\ Anew(a, m) \/ still = "no" => Agrees(m, a.s, x)

(* slot_deltas: the bindings always, and the rows, the error, the preview   *)
(* and the lane wherever they are known to have been in step.               *)
LEMMA DeltasSeen ==
  ASSUME NEW n, NEW a, IsAcc(n, a), NEW slot, NEW m \in Mirrors, m = a.s.slots[slot], m.loaded,
         NEW b \in Cuts, a.rebuilt \/ Grown(b, a.s.bars), NEW still, NEW w, Viewed(w),
         Halfway(m, w, b, still), NEW d, d = Deltas(a, slot),
         NEW x, x = End(ViewKind(slot), w, d)
  PROVE Of(slot, d) /\ AllLeft(a, m, still, x)
<1> DEFINE kind == ViewKind(slot)
           failed == Broke(a, m)
           told == Told(a, m)
           R == RowEvents(a, slot)
           E == ErrorEvents(slot, failed, told)
           P == Tip(a, slot, m)
           y == End(kind, w, R)
           z == End(kind, y, E)
           u == End(kind, z, P)
<1>1. m.src \in Sources /\ a.s.bars \in Cuts /\ m.told \in BOOLEAN /\ m.synced \in BOOLEAN
      /\ a.rebuilt \in BOOLEAN
  <2>1. m.src \in Sources
    BY MirrorFields
  <2>2. m.told \in BOOLEAN /\ m.synced \in BOOLEAN
    BY DEF Mirrors
  <2>3. a.s.bars \in Cuts /\ a.rebuilt \in BOOLEAN
    BY AccParts
  <2> QED BY <2>1, <2>2, <2>3
<1>2. failed \in BOOLEAN /\ told \in BOOLEAN
  BY <1>1, ColumnIs DEF Broke, Told
<1>3. d = Cat(Cat(R, E), P)
  BY DeltasAre
<1>4. Of(slot, R) /\ RowsLeft(a, m, still, b, y)
  BY RowsSent
<1>5. Bears(m, y)
  BY <1>4 DEF RowsLeft
<1>6. Of(slot, E) /\ Bears(m, z) /\ z.view.rows = y.view.rows
      /\ IF failed /\ ~told THEN z.view.error = Yes ELSE z.view.error = y.view.error
  <2>1. E = ErrorEvents(slot, failed, told) /\ z = End(ViewKind(slot), y, E)
    OBVIOUS
  <2> HIDE DEF E, z, failed, told, y
  <2> QED BY <1>2, <1>5, <2>1, ErrorSeen
<1> DEFINE frame == IF failed THEN << >> ELSE a.s.partial
           samples == IF failed THEN << >> ELSE Ladder(a)
<1>7. Of(slot, P) /\ Same(z, u) /\ u.view.rows = z.view.rows
      /\ u.view.preview = frame /\ u.view.lane = samples
  <2>1. P = LastTwo(slot, frame, samples) /\ u = End(ViewKind(slot), z, P)
    BY DEF Tip
  <2>2. Viewed(z) /\ z.there = "yes"
    BY <1>6 DEF Bears
  <2> HIDE DEF P, u, z, frame, samples
  <2> QED BY <2>1, <2>2, LastSeen
<1>8. x = u /\ Of(slot, d)
  <2>1. Evs(R) /\ Evs(E) /\ Evs(P)
    BY <1>4, <1>6, <1>7 DEF Of
  <2>2. Evs(Cat(R, E)) /\ Seqn(R) /\ Seqn(E) /\ Seqn(P)
    BY <2>1, EvsCat DEF Cat, Evs
  <2> HIDE DEF R, E, P, kind
  <2>3. End(kind, w, Cat(Cat(R, E), P)) = End(kind, End(kind, w, Cat(R, E)), P)
    BY <2>1, <2>2, EndCat DEF Cat, Evs
  <2>4. End(kind, w, Cat(R, E)) = End(kind, y, E)
    BY <2>2, EndCat DEF Cat
  <2>5. x = u
    BY <1>3, <2>3, <2>4 DEF kind
  <2>6. Of(slot, Cat(R, E))
    BY <1>4, <1>6, OfCat
  <2> DEFINE q == Cat(R, E)
  <2>7. d = Cat(q, P) /\ Of(slot, q)
    BY <1>3, <2>6
  <2> HIDE DEF q
  <2>8. Of(slot, Cat(q, P))
    BY <1>7, <2>7, OfCat
  <2> QED BY <2>5, <2>7, <2>8
<1>9. Bears(m, x)
  BY <1>6, <1>7, <1>8 DEF Bears, Same
<1>10. ASSUME Anew(a, m) \/ still = "no" PROVE Agrees(m, a.s, x)
  <2> DEFINE rows == Column(m.src, a.s.bars)
             then == Failed(m.src, b)
  <2>1. y.view.rows = rows
    BY <1>4, <1>10 DEF RowsLeft
  <2>2. x.view.rows = rows /\ x.view.preview = frame /\ x.view.lane = samples
        /\ x.view.error = z.view.error
    BY <1>6, <1>7, <1>8, <2>1 DEF Same
  <2>3. z.view.error = failed
    <3>1. CASE Anew(a, m)
      <4>1. y.view.error = ~Yes /\ ~told
        BY <1>4, <3>1 DEF RowsLeft, Told, Anew
      <4> HIDE DEF failed, told, y, z
      <4>2. CASE failed
        BY <1>2, <1>6, <4>1, <4>2 DEF Yes
      <4>3. CASE ~failed
        BY <1>2, <1>6, <4>1, <4>3 DEF Yes
      <4> QED BY <4>2, <4>3
    <3>2. CASE ~Anew(a, m)
      <4>1. y.view.error = then /\ m.told = then /\ told = m.told
        BY <1>1, <1>4, <1>10, <3>2 DEF RowsLeft, Told, Anew
      <4>2. then \in BOOLEAN /\ (then => failed)
        <5>1. Grown(b, a.s.bars)
          BY <1>1, <3>2 DEF Anew
        <5> QED BY <1>1, <5>1, ColumnGrows, ColumnIs DEF Broke
      <4> HIDE DEF failed, told, y, z, then
      <4>3. CASE then
        BY <1>2, <1>6, <4>1, <4>2, <4>3
      <4>4. CASE ~then
        BY <1>2, <1>6, <4>1, <4>2, <4>4 DEF Yes
      <4> QED BY <4>3, <4>4
    <3> QED BY <3>1, <3>2
  <2>4. samples \in {<< >>, a.s.run} /\ (failed => samples = << >>)
    BY DEF Ladder
  <2>5. Failed(m.src, a.s.bars) = failed
    BY DEF Broke
  <2> HIDE DEF failed, samples, z, y, told, u, P, R, E
  <2> QED BY <2>2, <2>3, <2>4, <2>5 DEF Agrees, frame
<1> QED BY <1>8, <1>9, <1>10 DEF AllLeft

-----------------------------------------------------------------------------
(* The deltas of all slots. *)

(* Events of another slot leave a view alone. *)
LEMMA OthersPass ==
  ASSUME NEW slot, NEW other, other # slot, NEW d, Of(other, d), NEW w
  PROVE End(ViewKind(slot), w, d) = w
<1>1. Len(d) \in Nat /\ \A i \in 1 .. Len(d) : d[i].slot = other
  BY SeqIs DEF Of, Evs
<1>2. \A i \in 1 .. Len(d) : Step(ViewKind(slot), w, d[i]) = w
  <2>1. \A e : Step(ViewKind(slot), w, e) = ViewStep(slot, w, e)
    BY StepIs
  <2>2. \A e : e.slot # slot => ViewStep(slot, w, e) = w
    BY DEF ViewStep
  <2> QED BY <1>1, <2>1, <2>2
<1> QED BY <1>1, <1>2, EndStays

(* drain_taken: the deltas of each loaded slot are sent once. *)
LEMMA SentIs ==
  ASSUME NEW n \in Nat, NEW a, IsAcc(n, a), \A s \in Loaded(a) : Of(s, Deltas(a, s)),
         NEW slot, NEW w
  PROVE /\ Evs(Sent(a))
        /\ End(ViewKind(slot), w, Sent(a))
             = IF slot \in Loaded(a)
               THEN End(ViewKind(slot), End(ViewKind(slot), w, a.out), Deltas(a, slot))
               ELSE End(ViewKind(slot), w, a.out)
<1> DEFINE S == Loaded(a)
           o == InOrder(S)
           L == Cardinality(S)
           k == ViewKind(slot)
           before == End(k, w, a.out)
           after == End(k, before, Deltas(a, slot))
<1>1. /\ L \in Nat /\ o \in [1 .. L -> S]
      /\ \A i, j \in 1 .. L : i < j => o[i] < o[j]
      /\ \A x \in S : \E i \in 1 .. L : o[i] = x
  <2>1. S \subseteq 0 .. n
    <3>1. SlotsOK(n, a.s.slots)
      BY AccParts
    <3> QED BY <3>1 DEF Loaded, SlotsOK
  <2> HIDE DEF S
  <2> QED BY <2>1, Ordered
<1>2. Len(o) = L /\ \A i \in 1 .. L : o[i] \in S /\ o[i] \in Int
  <2>1. S \subseteq 0 .. n
    <3>1. SlotsOK(n, a.s.slots)
      BY AccParts
    <3> QED BY <3>1 DEF Loaded, SlotsOK
  <2> HIDE DEF S, o, L
  <2>2. o \in Seq(S) /\ Len(o) = L
    BY <1>1
  <2>3. \A i \in 1 .. L : o[i] \in S
    BY <1>1
  <2>4. \A y \in S : y \in Int
    BY <2>1
  <2> QED BY <2>2, <2>3, <2>4
<1>3. PICK t : /\ t[0] = a.out /\ Sent(a) = t[L]
               /\ \A i \in 1 .. L : t[i] = t[i - 1] \o Deltas(a, o[i])
  <2>1. Len(InOrder(Loaded(a))) \in Nat /\ Len(InOrder(Loaded(a))) = L
    BY <1>1, <1>2
  <2> QED BY <2>1, SentSteps
<1>4. Evs(a.out)
  BY AccParts
<1> DEFINE Passed(i) == \E j \in 1 .. i : o[j] = slot
           G == {i \in 0 .. L : Evs(t[i]) /\ End(k, w, t[i]) = IF Passed(i) THEN after ELSE before}
<1> HIDE DEF S, o, L, k
<1>5. 0 \in G
  <2>1. ~Passed(0)
    OBVIOUS
  <2> HIDE DEF Passed, before, after
  <2>2. End(k, w, t[0]) = before
    BY <1>3 DEF before
  <2> QED BY <1>1, <1>3, <1>4, <2>1, <2>2
<1>6. ASSUME NEW i \in 1 .. L, i - 1 \in G PROVE i \in G
  <2> DEFINE d == Deltas(a, o[i])
             p == t[i - 1]
  <2>1. Of(o[i], d)
    BY <1>2 DEF S
  <2>2. Evs(p) /\ End(k, w, p) = IF Passed(i - 1) THEN after ELSE before
    BY <1>6
  <2>3. t[i] = p \o d
    BY <1>3
  <2> HIDE DEF p, d, before, after
  <2>4. Evs(t[i]) /\ End(k, w, t[i]) = End(k, End(k, w, p), d)
    <3>1. Evs(d) /\ Seqn(d) /\ Seqn(p)
      BY <2>1, <2>2 DEF Of, Evs
    <3> QED BY <2>2, <2>3, <3>1, EvsCat, EndCat
  <2>5. CASE o[i] = slot
    <3>1. ~Passed(i - 1)
      <4> SUFFICES ASSUME NEW j \in 1 .. i - 1, o[j] = slot PROVE FALSE
        OBVIOUS
      <4>1. j \in 1 .. L /\ j < i
        BY <1>1
      <4>2. o[j] < o[i] /\ o[i] \in Int
        BY <1>1, <1>2, <4>1
      <4> QED BY <2>5, <4>2
    <3>2. Passed(i)
      BY <2>5
    <3> HIDE DEF Passed
    <3>3. End(k, End(k, w, p), d) = after
      BY <2>2, <2>5, <3>1 DEF after, d
    <3> QED BY <1>1, <2>4, <3>2, <3>3
  <2>6. CASE o[i] # slot
    <3>1. Passed(i) <=> Passed(i - 1)
      <4>1. \A j \in 1 .. i : j \in 1 .. i - 1 \/ j = i
        BY <1>1
      <4>2. \A j \in 1 .. i - 1 : j \in 1 .. i
        BY <1>1
      <4> QED BY <2>6, <4>1, <4>2
    <3> HIDE DEF Passed
    <3>2. End(k, End(k, w, p), d) = End(k, w, p)
      BY <2>1, <2>6, OthersPass DEF k
    <3> QED BY <1>1, <2>2, <2>4, <3>1, <3>2
  <2> QED BY <2>5, <2>6
<1> HIDE DEF G
<1>7. \A i \in 0 .. L : i \in G
  BY <1>1, <1>5, <1>6, Upward
<1>8. Evs(t[L]) /\ End(k, w, t[L]) = IF Passed(L) THEN after ELSE before
  <2>1. L \in G
    BY <1>1, <1>7
  <2> HIDE DEF Passed, before, after
  <2> QED BY <2>1 DEF G
<1>9. Passed(L) <=> slot \in S
  BY <1>1, <1>2
<1> HIDE DEF Passed
<1> QED BY <1>3, <1>8, <1>9 DEF S, before, after, k

-----------------------------------------------------------------------------
(* A whole batch, from the first command to the last delta. *)

(* What the fold over a batch ends at. *)
Folded(s, q) == FinishApplying(ApplyBatch(s, q))
(* The series it holds, and whether it was replayed. *)
LEMMA FoldedIs ==
  ASSUME NEW n, NEW s, HostOK(n, s), NEW q \in Seq(Cmds(n)), NEW z, z = Folded(s, q)
  PROVE /\ IsAcc(n, z) /\ Series(z.s) = End(SeriesKind, Series(s), q)
        /\ \/ z.rebuilt /\ End(ReplayKind, "no", q) = "yes"
           \/ ~z.rebuilt /\ End(ReplayKind, "no", q) = "no" /\ Grown(s.bars, z.s.bars)
<1> DEFINE C == Cmds(n)
           L == Len(q)
<1>1. L \in Nat /\ SubSeq(q, 1, L) = q
  <2>1. q \in Seq(C)
    OBVIOUS
  <2> HIDE DEF C
  <2>2. Seqn(q) /\ Len(q) \in Nat
    BY <2>1, SeqIs
  <2> QED BY <2>2, EndEnds
<1>2. PICK t : BatchTrail(s, q, t) /\ ApplyBatch(s, q) = t[L]
  BY <1>1, BatchSteps DEF BatchTrail
<1> DEFINE a == t[L]
<1>3. /\ IsAcc(n, a)
      /\ SeriesReached(s, a, End(SeriesKind, Series(s), q), End(ReplayKind, "no", q))
  <2>1. L \in 0 .. L
    BY <1>1
  <2>2. /\ IsAcc(n, t[L])
        /\ SeriesReached(s, t[L], End(SeriesKind, Series(s), SubSeq(q, 1, L)),
                           End(ReplayKind, "no", SubSeq(q, 1, L)))
    BY <1>2, <2>1, BatchReaches
  <2> QED BY <1>1, <2>2
<1> HIDE DEF a
<1>4. z = FinishApplying(a)
  BY <1>2 DEF Folded, a
<1>5. IsAcc(n, z) /\ Series(z.s) = Held(a) /\ z.s.bars = a.s.bars /\ z.rebuilt = a.rebuilt
  BY <1>3, <1>4, Finished
<1> QED BY <1>3, <1>5 DEF SeriesReached

(* What is then known of a slot, and shown of it. *)
LEMMA FoldedBinds ==
  ASSUME NEW n, NEW s, HostOK(n, s), NEW q \in Seq(Cmds(n)), NEW z, z = Folded(s, q), NEW slot
  PROVE Known(z.s.slots, slot) = End(BindKind(slot), Known(s.slots, slot), q)
<1> DEFINE C == Cmds(n)
           L == Len(q)
<1>1. L \in Nat
  <2>1. q \in Seq(C)
    OBVIOUS
  <2> HIDE DEF C
  <2> QED BY <2>1
<1>2. PICK t : BatchTrail(s, q, t) /\ ApplyBatch(s, q) = t[L]
  BY <1>1, BatchSteps DEF BatchTrail
<1> DEFINE a == t[L]
<1>3. IsAcc(n, a)
  <2>1. L \in 0 .. L
    BY <1>1
  <2> QED BY <1>2, <2>1, BatchReaches
<1>4. Known(a.s.slots, slot) = End(BindKind(slot), Known(s.slots, slot), q)
  BY <1>2, BatchBinds
<1> HIDE DEF a
<1>5. z = FinishApplying(a)
  BY <1>2 DEF Folded, a
<1>6. z.s.slots = a.s.slots
  BY <1>3, <1>5, Finished
<1> QED BY <1>4, <1>6

(* Shown, as far as the batch went. *)
LEMMA FoldedShows ==
  ASSUME NEW n, NEW s, HostOK(n, s), NEW q \in Seq(Cmds(n)), NEW z, z = Folded(s, q), NEW slot,
         NEW w, NEW still, HalfShown(s.slots, slot, w, s.bars, still)
  PROVE HalfShown(z.s.slots, slot, End(ViewKind(slot), w, z.out), s.bars, still)
<1> DEFINE C == Cmds(n)
           L == Len(q)
<1>1. L \in Nat
  <2>1. q \in Seq(C)
    OBVIOUS
  <2> HIDE DEF C
  <2> QED BY <2>1
<1>2. PICK t : BatchTrail(s, q, t) /\ ApplyBatch(s, q) = t[L]
  BY <1>1, BatchSteps DEF BatchTrail
<1> DEFINE a == t[L]
<1>3. IsAcc(n, a)
  <2>1. L \in 0 .. L
    BY <1>1
  <2> QED BY <1>2, <2>1, BatchReaches
<1>4. HalfShown(a.s.slots, slot, End(ViewKind(slot), w, a.out), s.bars, still)
  BY <1>2, BatchShows
<1> HIDE DEF a
<1>5. z = FinishApplying(a)
  BY <1>2 DEF Folded, a
<1>6. z.s.slots = a.s.slots /\ z.out = a.out
  BY <1>3, <1>5, Finished
<1> QED BY <1>4, <1>6

(* A view that is in step with what the worker knows of it. *)
LEMMA InStepView ==
  ASSUME NEW s, NEW m \in Mirrors, InSync(m, s)
  PROVE \E w : Viewed(w) /\ Halfway(m, w, s.bars, "no")
<1> DEFINE b == s.bars
           col == Column(m.src, b)
           err == IF m.loaded THEN Failed(m.src, b) ELSE Yes
           v == View(m.src, col, m.values, m.stale, << >>, << >>, err)
           w == [there |-> "yes", view |-> v]
<1>1. /\ v.src = m.src /\ v.rows = col /\ v.inputs = m.values /\ v.stale = m.stale
      /\ v.error = err /\ IsView(v)
  <2> HIDE DEF col, err
  <2> QED BY ViewFields
<1> HIDE DEF v
<1>2. w.there = "yes" /\ w.view = v /\ w = [there |-> w.there, view |-> w.view]
  OBVIOUS
<1> HIDE DEF w
<1>3. Viewed(w)
  BY <1>1, <1>2 DEF Viewed
<1>4. Follows(m, w)
  BY <1>1, <1>2 DEF Follows, Yes
<1>5. m.loaded => m.known = Len(col) /\ m.told = Failed(m.src, b)
  BY DEF InSync
<1>6. m.loaded => w.view.rows = col /\ w.view.error = Failed(m.src, b)
  BY <1>1, <1>2
<1>7. Halfway(m, w, b, "no")
  BY <1>4, <1>5, <1>6 DEF Halfway, UpToDate
<1> QED BY <1>3, <1>7

(* So what is published of each slot is of that slot. *)
LEMMA DeltasAreOf ==
  ASSUME NEW n, NEW s, HostOK(n, s), \A k \in DOMAIN s.slots : InSync(s.slots[k], s),
         NEW q \in Seq(Cmds(n)), NEW z, z = Folded(s, q), NEW slot \in Loaded(z)
  PROVE Of(slot, Deltas(z, slot))
<1>1. PICK w : HalfShown(s.slots, slot, w, s.bars, "no")
  <2>1. CASE slot \in DOMAIN s.slots
    <3>1. s.slots[slot] \in Mirrors /\ InSync(s.slots[slot], s)
      BY <2>1 DEF HostOK, SlotsOK
    <3>2. \E w : Viewed(w) /\ Halfway(s.slots[slot], w, s.bars, "no")
      BY <3>1, InStepView
    <3> QED BY <2>1, <3>2 DEF HalfShown
  <2>2. CASE slot \notin DOMAIN s.slots
    <3> DEFINE w == [there |-> "no", view |-> NoView]
    <3>1. IsView(NoView)
      BY ViewFields DEF NoView
    <3>2. Viewed(w)
      BY <3>1 DEF Viewed
    <3> HIDE DEF w
    <3>3. HalfShown(s.slots, slot, w, s.bars, "no")
      BY <2>2, <3>2 DEF HalfShown
    <3> QED BY <3>3
  <2> QED BY <2>1, <2>2
<1> DEFINE x == End(ViewKind(slot), w, z.out)
           m == z.s.slots[slot]
<1>2. HalfShown(z.s.slots, slot, x, s.bars, "no")
  BY <1>1, FoldedShows
<1>3. IsAcc(n, z) /\ (z.rebuilt \/ Grown(s.bars, z.s.bars))
  BY FoldedIs
<1>4. slot \in DOMAIN z.s.slots /\ m.loaded
  BY DEF Loaded
<1>5. m \in Mirrors /\ s.bars \in Cuts
  <2>1. SlotsOK(n, z.s.slots)
    BY <1>3, AccParts
  <2> QED BY <1>4, <2>1 DEF SlotsOK, HostOK
<1> HIDE DEF x
<1>6. Viewed(x) /\ Halfway(m, x, s.bars, "no")
  BY <1>2, <1>4 DEF HalfShown
<1> DEFINE d == Deltas(z, slot)
           u == End(ViewKind(slot), x, d)
           still == "no"
<1>7. m = z.s.slots[slot] /\ d = Deltas(z, slot) /\ u = End(ViewKind(slot), x, d)
      /\ Halfway(m, x, s.bars, still)
  BY <1>6
<1> HIDE DEF m, d, u, still
<1>8. Of(slot, d)
  BY <1>3, <1>4, <1>5, <1>6, <1>7, DeltasSeen
<1> QED BY <1>8 DEF d

(* What the worker knows of a slot it has just published. *)
LEMMA PublishedIs ==
  ASSUME NEW n, NEW a, IsAcc(n, a), NEW m \in Mirrors, NEW u, u = Published(a, m)
  PROVE /\ u \in Mirrors /\ u.loaded = m.loaded /\ u.src = m.src /\ u.values = m.values
        /\ u.stale = m.stale /\ u.synced /\ u.known = Len(Column(m.src, a.s.bars))
        /\ u.told = Failed(m.src, a.s.bars)
<1> DEFINE k == Len(Column(m.src, a.s.bars))
           f == Failed(m.src, a.s.bars)
<1>1. k \in Nat /\ f \in BOOLEAN
  <2>1. m.src \in Sources /\ a.s.bars \in Cuts
    BY MirrorFields, AccParts
  <2>2. Column(m.src, a.s.bars) \in Cuts /\ f \in BOOLEAN
    BY <2>1, ColumnIs
  <2>3. \A c \in Cuts : Len(c) \in Nat
    <3> DEFINE P == Seq(Nat)
    <3> HIDE DEF P
    <3>1. \A c \in Seq(P) : Len(c) \in Nat
      OBVIOUS
    <3> QED BY <3>1 DEF Cuts, P
  <2> QED BY <2>2, <2>3
<1>2. u = [m EXCEPT !.known = k, !.synced = TRUE, !.told = f]
  BY DEF Published
<1> HIDE DEF k, f
<1>3. u \in Mirrors /\ u.known = k /\ u.synced /\ u.told = f
  BY <1>1, <1>2 DEF Mirrors
<1>4. u.loaded = m.loaded /\ u.src = m.src /\ u.values = m.values /\ u.stale = m.stale
  BY <1>2 DEF Mirrors
<1> QED BY <1>3, <1>4 DEF k, f

(* The slots once everything is published. *)
Posted(a, slot) == IF slot \in Loaded(a) THEN Published(a, a.s.slots[slot]) ELSE a.s.slots[slot]
(* The rest of the host is as the batch left it. *)
LEMMA PublishIs ==
  ASSUME NEW n, NEW a, IsAcc(n, a), NEW z, z = Publish(a)
  PROVE /\ z.out = Sent(a) /\ HostOK(n, z.s) /\ Series(z.s) = Series(a.s)
        /\ z.s.bars = a.s.bars /\ z.s.partial = a.s.partial /\ z.s.run = a.s.run
        /\ DOMAIN z.s.slots = DOMAIN a.s.slots
        /\ \A slot \in DOMAIN a.s.slots : z.s.slots[slot] = Posted(a, slot)
<1> DEFINE f == a.s.slots
           g == [slot \in DOMAIN f |-> Posted(a, slot)]
           h == Host(a.s.bars, a.s.partial, a.s.run, f)
           b == a.s.bars
           p == a.s.partial
           r == a.s.run
<1>1. a.s = h /\ b \in Cuts /\ p \in Prints /\ r \in Prints /\ SlotsOK(n, f)
  BY AccParts
<1>2. [a.s EXCEPT !.slots = g] = Host(b, p, r, g)
  <2> HIDE DEF g, f, b, p, r
  <2>1. [h EXCEPT !.slots = g] = Host(b, p, r, g)
    BY HostSlots DEF f, b, p, r
  <2> HIDE DEF h
  <2> QED BY <1>1, <2>1
<1>3. z.out = Sent(a) /\ z.s = [a.s EXCEPT !.slots = g]
  BY DEF Publish, Posted
<1>4. DOMAIN g = DOMAIN f /\ g = [slot \in DOMAIN g |-> g[slot]]
      /\ \A slot \in DOMAIN f : g[slot] = Posted(a, slot)
  OBVIOUS
<1>5. \A slot \in DOMAIN f : Posted(a, slot) \in Mirrors
  <2> SUFFICES ASSUME NEW slot \in DOMAIN f PROVE Posted(a, slot) \in Mirrors
    OBVIOUS
  <2>1. f[slot] \in Mirrors
    BY <1>1 DEF SlotsOK
  <2>2. Published(a, f[slot]) \in Mirrors
    BY <2>1, PublishedIs
  <2> QED BY <2>1, <2>2 DEF Posted
<1> HIDE DEF g
<1>6. SlotsOK(n, g)
  BY <1>1, <1>4, <1>5 DEF SlotsOK
<1> HIDE DEF h, f, b, p, r
<1>7. z.s = Host(b, p, r, g)
  BY <1>2, <1>3
<1>8. z.s.bars = b /\ z.s.partial = p /\ z.s.run = r /\ z.s.slots = g
  BY <1>7, HostFields
<1>9. HostOK(n, z.s)
  BY <1>1, <1>6, <1>7, <1>8 DEF HostOK, Host
<1>10. Series(z.s) = Series(a.s)
  BY <1>8 DEF Series, b, p, r
<1> QED BY <1>3, <1>4, <1>8, <1>9, <1>10 DEF b, p, r, f

(* drain_taken, on the host: it knows what it has sent, it holds the series *)
(* the commands leave, and each slot as they leave it.                      *)
LEMMA Reduced ==
  ASSUME NEW n, NEW s, HostOK(n, s), NEW q \in Seq(Cmds(n)),
         NEW z, z = Publish(Folded(s, q))
  PROVE /\ HostOK(n, z.s) /\ Series(z.s) = End(SeriesKind, Series(s), q)
        /\ \A k \in DOMAIN z.s.slots : InSync(z.s.slots[k], z.s)
        /\ \A k : Known(z.s.slots, k) = End(BindKind(k), Known(s.slots, k), q)
<1> DEFINE a == Folded(s, q)
<1>1. a = Folded(s, q) /\ z = Publish(a)
  OBVIOUS
<1> HIDE DEF a
<1>2. IsAcc(n, a) /\ Series(a.s) = End(SeriesKind, Series(s), q)
  BY <1>1, FoldedIs
<1>3. /\ HostOK(n, z.s) /\ Series(z.s) = Series(a.s)
      /\ z.s.bars = a.s.bars /\ DOMAIN z.s.slots = DOMAIN a.s.slots
      /\ \A slot \in DOMAIN a.s.slots : z.s.slots[slot] = Posted(a, slot)
  BY <1>1, <1>2, PublishIs
<1>4. \A k \in DOMAIN a.s.slots : a.s.slots[k] \in Mirrors
  BY <1>2, AccParts DEF SlotsOK
<1>5. ASSUME NEW k \in DOMAIN z.s.slots PROVE InSync(z.s.slots[k], z.s)
  <2> DEFINE m == a.s.slots[k]
             u == z.s.slots[k]
  <2>1. u = Posted(a, k) /\ m \in Mirrors /\ k \in DOMAIN a.s.slots
    BY <1>3, <1>4
  <2>2. CASE k \in Loaded(a)
    <3>1. u = Published(a, m)
      BY <2>1, <2>2 DEF Posted
    <3> HIDE DEF u, m
    <3>2. u.synced /\ u.src = m.src /\ u.known = Len(Column(m.src, a.s.bars))
          /\ u.told = Failed(m.src, a.s.bars)
      BY <1>2, <2>1, <3>1, PublishedIs
    <3>3. u.synced /\ u.known = Len(Column(u.src, z.s.bars)) /\ u.told = Failed(u.src, z.s.bars)
      BY <1>3, <3>2
    <3> QED BY <3>3 DEF InSync, u
  <2>3. CASE k \notin Loaded(a)
    <3>1. ~u.loaded
      BY <2>1, <2>3 DEF Posted, Loaded
    <3> QED BY <3>1 DEF InSync
  <2> QED BY <2>2, <2>3
<1>6. ASSUME NEW k PROVE Known(z.s.slots, k) = End(BindKind(k), Known(s.slots, k), q)
  <2> DEFINE f == a.s.slots
             g == z.s.slots
  <2>1. Known(f, k) = End(BindKind(k), Known(s.slots, k), q)
    BY <1>1, FoldedBinds
  <2>2. Known(g, k) = Known(f, k)
    <3>1. CASE k \in DOMAIN f
      <4>1. g[k] = Posted(a, k) /\ f[k] \in Mirrors /\ k \in DOMAIN g
        BY <1>3, <1>4, <3>1
      <4>2. /\ g[k].loaded = f[k].loaded /\ g[k].src = f[k].src
            /\ g[k].values = f[k].values /\ g[k].stale = f[k].stale
        <5>1. CASE k \in Loaded(a)
          <6> DEFINE m == f[k]
                     u == g[k]
          <6>1. u = Published(a, m) /\ m \in Mirrors
            BY <4>1, <5>1 DEF Posted
          <6> HIDE DEF m, u
          <6>2. u.loaded = m.loaded /\ u.src = m.src /\ u.values = m.values /\ u.stale = m.stale
            BY <1>2, <6>1, PublishedIs
          <6> QED BY <6>2 DEF m, u
        <5>2. CASE k \notin Loaded(a)
          BY <4>1, <5>2 DEF Posted
        <5> QED BY <5>1, <5>2
      <4> HIDE DEF f, g
      <4> QED BY <3>1, <4>1, <4>2 DEF Known
    <3>2. CASE k \notin DOMAIN f
      <4>1. k \notin DOMAIN g
        BY <1>3, <3>2
      <4> QED BY <3>2, <4>1 DEF Known
    <3> QED BY <3>1, <3>2
  <2> QED BY <2>1, <2>2
<1> QED BY <1>2, <1>3, <1>5, <1>6

(* What a batch sends are events, each loaded slot's at the end. *)
BatchSeen(a, slot, w) ==
  LET y == End(ViewKind(slot), w, a.out) IN
  IF slot \in Loaded(a) THEN End(ViewKind(slot), y, Deltas(a, slot)) ELSE y
(* For each slot in its turn. *)
LEMMA ReducedSends ==
  ASSUME NEW n \in Nat, NEW s, HostOK(n, s), \A k \in DOMAIN s.slots : InSync(s.slots[k], s),
         NEW q \in Seq(Cmds(n)), NEW z, z = Publish(Folded(s, q)), NEW slot, NEW w
  PROVE Evs(z.out) /\ End(ViewKind(slot), w, z.out) = BatchSeen(Folded(s, q), slot, w)
<1> DEFINE a == Folded(s, q)
<1>1. a = Folded(s, q) /\ z = Publish(a)
  OBVIOUS
<1>2. IsAcc(n, a)
  BY <1>1, FoldedIs
<1>3. \A k \in Loaded(a) : Of(k, Deltas(a, k))
  <2> SUFFICES ASSUME NEW k \in Loaded(a) PROVE Of(k, Deltas(a, k))
    OBVIOUS
  <2> HIDE DEF a
  <2> QED BY <1>1, DeltasAreOf
<1> HIDE DEF a
<1>4. z.out = Sent(a)
  BY <1>1, <1>2, PublishIs
<1>5. Evs(Sent(a))
  BY <1>2, <1>3, SentIs
<1>6. End(ViewKind(slot), w, Sent(a)) = BatchSeen(a, slot, w)
  BY <1>2, <1>3, SentIs DEF BatchSeen
<1> QED BY <1>1, <1>4, <1>5, <1>6 DEF a

(* drain_taken, on the views: each slot shows what it runs, and its rows    *)
(* too where the batch replayed everything or nothing was to be replayed.   *)
LEMMA ReducedShows ==
  ASSUME NEW n \in Nat, NEW s, HostOK(n, s), \A k \in DOMAIN s.slots : InSync(s.slots[k], s),
         NEW q \in Seq(Cmds(n)), NEW z, z = Publish(Folded(s, q)),
         NEW slot \in DOMAIN z.s.slots, NEW w, NEW still,
         HalfShown(s.slots, slot, w, s.bars, still),
         NEW x, x = End(ViewKind(slot), w, z.out), NEW u, u = z.s.slots[slot]
  PROVE /\ Follows(u, x)
        /\ u.loaded /\ (End(ReplayKind, "no", q) = "yes" \/ still = "no") => Agrees(u, z.s, x)
<1> DEFINE a == Folded(s, q)
           m == a.s.slots[slot]
           y == End(ViewKind(slot), w, a.out)
           d == Deltas(a, slot)
<1>1. a = Folded(s, q) /\ z = Publish(a)
  OBVIOUS
<1>2. x = IF slot \in Loaded(a) THEN End(ViewKind(slot), y, d) ELSE y
  <2>1. x = BatchSeen(a, slot, w)
    BY ReducedSends
  <2> HIDE DEF a
  <2> QED BY <2>1 DEF BatchSeen
<1>3. HalfShown(a.s.slots, slot, y, s.bars, still)
  BY FoldedShows
<1> HIDE DEF a
<1>4. /\ IsAcc(n, a)
      /\ \/ a.rebuilt /\ End(ReplayKind, "no", q) = "yes"
         \/ ~a.rebuilt /\ End(ReplayKind, "no", q) = "no" /\ Grown(s.bars, a.s.bars)
  BY <1>1, FoldedIs
<1>5. /\ slot \in DOMAIN a.s.slots /\ u = Posted(a, slot)
      /\ z.s.bars = a.s.bars /\ z.s.partial = a.s.partial /\ z.s.run = a.s.run
  BY <1>1, <1>4, PublishIs
<1>6. m \in Mirrors /\ Viewed(y) /\ Halfway(m, y, s.bars, still) /\ s.bars \in Cuts
  <2>1. SlotsOK(n, a.s.slots)
    BY <1>4, AccParts
  <2>2. m \in Mirrors
    BY <1>5, <2>1 DEF SlotsOK
  <2> QED BY <1>3, <1>5, <2>2 DEF HalfShown, HostOK
<1>7. CASE slot \in Loaded(a)
  <2>1. m.loaded /\ u = Published(a, m) /\ x = End(ViewKind(slot), y, d)
    BY <1>2, <1>5, <1>7 DEF Loaded, Posted
  <2>2. m = a.s.slots[slot] /\ d = Deltas(a, slot)
    OBVIOUS
  <2>3. a.rebuilt \/ Grown(s.bars, a.s.bars)
    BY <1>4
  <2> HIDE DEF m, d, y
  <2>4. u.loaded = m.loaded /\ u.src = m.src /\ u.values = m.values /\ u.stale = m.stale
    <3>1. IsAcc(n, a) /\ m \in Mirrors
      BY <1>4, <1>6 DEF m
    <3>2. u = Published(a, m)
      BY <2>1
    <3> QED BY <3>1, <3>2, PublishedIs
  <2>5. AllLeft(a, m, still, x)
    <3>1. s.bars \in Cuts /\ IsAcc(n, a)
      BY <1>4, <1>6
    <3> QED BY <1>6, <2>1, <2>2, <2>3, <3>1, DeltasSeen
  <2>6. Follows(u, x)
    BY <2>1, <2>4, <2>5 DEF AllLeft, Bears, Follows
  <2>7. ASSUME End(ReplayKind, "no", q) = "yes" \/ still = "no" PROVE Agrees(u, z.s, x)
    <3>1. Anew(a, m) \/ still = "no"
      BY <1>4, <2>7 DEF Anew
    <3>2. Agrees(m, a.s, x)
      BY <2>5, <3>1 DEF AllLeft
    <3> QED BY <1>5, <2>4, <3>2 DEF Agrees
  <2> QED BY <2>6, <2>7
<1>8. CASE slot \notin Loaded(a)
  <2>1. ~m.loaded /\ u = m /\ x = y
    BY <1>2, <1>5, <1>8 DEF Loaded, Posted
  <2>2. Follows(m, y)
    BY <1>6, <2>1 DEF Halfway
  <2> QED BY <2>1, <2>2
<1> QED BY <1>7, <1>8

-----------------------------------------------------------------------------
(* The worker runs what it has taken. *)

(* What the step does, by name. *)
Ran == Publish(Folded(worker.session, worker.batch))
(* RunTaken is that step. *)
LEMMA RunIs ==
  ASSUME RunTaken
  PROVE /\ worker.phase = "idle" /\ worker.batch # << >> /\ link.chan = << >>
        /\ worker' = [phase |-> "publishing", batch |-> << >>, session |-> Ran.s]
        /\ out' = Ran.out
        /\ counts' = [counts EXCEPT !.queued = @ - Len(worker.batch),
                                     !.inflight = Len(worker.batch)]
        /\ UNCHANGED <<chart, lane, todo, views, wanted, used, link, events, ui>>
<1>1. Reductions(worker.session, worker.batch) = {Ran}
  BY DEF Reductions, Ran, Folded
<1>2. PICK ran \in Reductions(worker.session, worker.batch) :
       /\ worker' = [phase |-> "publishing", batch |-> << >>, session |-> ran.s]
       /\ out' = ran.out
  BY DEF RunTaken
<1>3. ran = Ran
  BY <1>1, <1>2
<1>4. /\ worker' = [phase |-> "publishing", batch |-> << >>, session |-> Ran.s]
      /\ out' = Ran.out
  BY <1>2, <1>3
<1> QED BY <1>4 DEF RunTaken, userVars

(* What the session and the flight are before it. *)
LEMMA RunBegins ==
  ASSUME PaneKept
  PROVE /\ views.next \in Nat /\ HostOK(views.next, worker.session)
        /\ worker.batch \in Seq(Cmds(views.next))
        /\ \A k \in DOMAIN worker.session.slots :
             InSync(worker.session.slots[k], worker.session)
        /\ Seqn(Waiting(link) \o todo)
        /\ \A k, x : End(k, x, Flight) = End(k, End(k, x, worker.batch), Waiting(link) \o todo)
<1>1. views.next \in Nat /\ PaneTyped /\ HostSynced
  BY DEF PaneKept, PaneInv
<1>2. HostOK(views.next, worker.session) /\ worker.batch \in Seq(Cmds(views.next))
  BY <1>1 DEF PaneTyped, WorkerOK
<1>3. Seqn(worker.batch) /\ Seqn(Waiting(link) \o todo)
  <2> DEFINE C == Cmds(views.next)
             r == Waiting(link) \o todo
  <2>1. worker.batch \in Seq(C) /\ r \in Seq(C)
    BY <1>1, FlightIs
  <2> HIDE DEF C, r
  <2>2. Seqn(worker.batch) /\ Seqn(r)
    BY <2>1, SeqIs
  <2> QED BY <2>2 DEF r
<1>4. \A k, x : End(k, x, Flight) = End(k, End(k, x, worker.batch), Waiting(link) \o todo)
  BY <1>3, EndCat DEF Flight
<1> QED BY <1>1, <1>2, <1>3, <1>4 DEF HostSynced

(* The views, while they wait for the batch: what was sent before is as the *)
(* worker knows it to be.                                                   *)
LEMMA RunShows ==
  ASSUME PaneKept, NEW slot \in DOMAIN wanted,
         NEW still, still = End(ReplayKind, "no", Flight)
  PROVE HalfShown(worker.session.slots, slot, Shown(slot), worker.session.bars, still)
<1> DEFINE s == worker.session
           w == Shown(slot)
<1>1. Viewed(w)
  <2> DEFINE v == Seen(views, slot)
  <2>1. Viewed(v)
    BY SeenIs DEF PaneKept, PaneTyped
  <2>2. Evs(Coming)
    BY EvsCat DEF PaneKept, PaneTyped, Coming
  <2>3. Alike(v, v)
    BY <2>1 DEF Alike
  <2>4. Alike(w, w)
    BY <2>2, <2>3, AlikeEnds DEF Shown
  <2> QED BY <2>4 DEF Alike
<1>2. ASSUME slot \in DOMAIN s.slots PROVE Halfway(s.slots[slot], w, s.bars, still)
  <2> DEFINE m == s.slots[slot]
  <2>1. Follows(m, w) /\ InSync(m, s)
    BY <1>2 DEF PaneKept, ViewsFollow, HostSynced
  <2>2. m.loaded /\ still = "no" => Agrees(m, s, w)
    BY <1>2 DEF PaneKept, RowsFollow
  <2> DEFINE b == s.bars
             col == Column(m.src, b)
             err == Failed(m.src, b)
  <2>3. m.loaded => m.known = Len(col) /\ m.told = err
    BY <2>1 DEF InSync
  <2>4. m.loaded /\ still = "no" => w.view.rows = col /\ w.view.error = err
    BY <2>2 DEF Agrees
  <2> HIDE DEF m, w, s, b, col, err
  <2>5. m.loaded => UpToDate(m, w, b, still)
    BY <2>1, <2>3, <2>4 DEF UpToDate, col, err
  <2>6. Halfway(m, w, b, still)
    BY <2>1, <2>5 DEF Halfway
  <2> QED BY <2>6 DEF m, b
<1> QED BY <1>1, <1>2 DEF HalfShown

(* A batch, reduced and published. *)
LEMMA RunKeeps == ASSUME PaneKept, RunTaken PROVE PaneKept'
<1> DEFINE n == views.next
           s == worker.session
           q == worker.batch
           r == Waiting(link) \o todo
           z == Ran
<1>1. PaneInv'
  BY WorkerStepKeeps DEF PaneKept, WorkerStep
<1>2. /\ worker.phase = "idle" /\ q # << >> /\ link.chan = << >>
      /\ worker' = [phase |-> "publishing", batch |-> << >>, session |-> z.s]
      /\ out' = z.out
      /\ counts' = [counts EXCEPT !.queued = @ - Len(q), !.inflight = Len(q)]
      /\ UNCHANGED <<chart, lane, todo, views, wanted, used, link, events, ui>>
  BY RunIs
<1>3. z = Publish(Folded(s, q))
  BY DEF Ran
<1>4. /\ n \in Nat /\ HostOK(n, s) /\ q \in Seq(Cmds(n)) /\ Seqn(r)
      /\ \A k \in DOMAIN s.slots : InSync(s.slots[k], s)
      /\ \A k, x : End(k, x, Flight) = End(k, End(k, x, q), r)
  BY RunBegins
<1> HIDE DEF z
<1>5. HostOK(n, z.s) /\ Series(z.s) = End(SeriesKind, Series(s), q)
  BY <1>3, <1>4, Reduced
<1>6. \A k \in DOMAIN z.s.slots : InSync(z.s.slots[k], z.s)
  BY <1>3, <1>4, Reduced
<1>7. \A k : Known(z.s.slots, k) = End(BindKind(k), Known(s.slots, k), q)
  BY <1>3, <1>4, Reduced
<1>8. Evs(z.out)
  BY <1>3, <1>4, ReducedSends
<1>9. Flight' = r
  <2>1. worker'.batch = << >> /\ Waiting(link)' = Waiting(link) /\ todo' = todo
    BY <1>2 DEF Waiting
  <2>2. << >> \o r = r
    BY <1>4, NothingBefore
  <2> QED BY <2>1, <2>2 DEF Flight
<1>10. worker'.phase = "publishing" /\ worker'.batch = << >> /\ worker'.session = z.s
  BY <1>2
<1>11. PaneTyped'
  <2>1. WorkerOK(n, worker')
    <3>1. << >> \in Seq(Cmds(n))
      <4> DEFINE C == Cmds(n)
      <4> HIDE DEF C
      <4>1. << >> \in Seq(C)
        OBVIOUS
      <4> QED BY <4>1 DEF C
    <3> QED BY <1>2, <1>5, <1>10, <3>1 DEF WorkerOK
  <2>2. /\ ChartOK(chart) /\ LaneOK(lane) /\ used.prints \in Nat
        /\ LinkOK(n, link) /\ todo \in Seq(Cmds(n))
        /\ Evs(events) /\ SlotsOK(n, wanted) /\ ShownOK
    BY DEF PaneKept, PaneTyped
  <2>3. views' = views /\ chart' = chart /\ lane' = lane /\ used' = used /\ link' = link
        /\ todo' = todo /\ events' = events /\ wanted' = wanted /\ out' = z.out
    BY <1>2
  <2> HIDE DEF s, q, r
  <2> QED BY <1>8, <2>1, <2>2, <2>3 DEF PaneTyped, ShownOK
<1>12. PhasesKept'
  <2>1. ui # "settled"
    BY <1>2 DEF PaneKept, PhasesKept, Quiet
  <2>2. /\ counts = [queued |-> counts.queued, inflight |-> counts.inflight,
                     deferred |-> counts.deferred]
        /\ counts.queued = Len(link.chan) + Len(q)
        /\ ui # "free" => todo = << >>
    BY DEF PaneKept, PhasesKept
  <2>3. Len(q) \in Nat /\ Len(q) > 0
    <3> DEFINE C == Cmds(n)
    <3>1. q \in Seq(C) /\ q # << >>
      BY <1>2, <1>4
    <3> HIDE DEF C, q
    <3> QED BY <3>1
  <2>4. Len(link.chan) = 0
    BY <1>2
  <2>5. /\ counts' = [queued |-> counts'.queued, inflight |-> counts'.inflight,
                      deferred |-> counts'.deferred]
        /\ counts'.queued = counts.queued - Len(q) /\ counts'.inflight = Len(q)
    BY <1>2, <2>2
  <2>6. counts'.queued = Len(link'.chan) + Len(worker'.batch)
    <3>1. link' = link /\ Len(worker'.batch) = 0
      BY <1>2, <1>10
    <3> QED BY <2>2, <2>3, <2>4, <2>5, <3>1
  <2>7. /\ worker'.phase = "publishing" => (worker'.batch = << >> /\ counts'.inflight > 0)
        /\ counts'.inflight \in Nat /\ worker'.phase # "idle"
    BY <1>10, <2>3, <2>5
  <2>8. ui' = ui /\ todo' = todo
    BY <1>2
  <2> QED BY <2>1, <2>2, <2>5, <2>6, <2>7, <2>8 DEF PhasesKept
<1>13. BindingsKept'
  <2> SUFFICES ASSUME NEW slot \in DOMAIN wanted
               PROVE End(BindKind(slot), Known(z.s.slots, slot), r) = Known(wanted, slot)
    BY <1>2, <1>9, <1>10 DEF BindingsKept
  <2>1. End(BindKind(slot), Known(s.slots, slot), Flight) = Known(wanted, slot)
    BY DEF PaneKept, BindingsKept
  <2> HIDE DEF s, q, r
  <2> QED BY <1>4, <1>7, <2>1
<1>14. SeriesKept'
  <2>1. /\ SeriesTrue(chart, lane, End(SeriesKind, Series(s), Flight))
        /\ lane.sent = Unsent(chart, lane.rungs)
    BY DEF PaneKept, SeriesKept
  <2>2. End(SeriesKind, Series(z.s), r) = End(SeriesKind, Series(s), Flight)
    <3> HIDE DEF s, q, r
    <3> QED BY <1>4, <1>5
  <2>3. chart' = chart /\ lane' = lane
    BY <1>2
  <2> QED BY <1>9, <1>10, <2>1, <2>2, <2>3 DEF SeriesKept
<1>15. HostSynced'
  BY <1>6, <1>10 DEF HostSynced
<1> DEFINE still == End(ReplayKind, "no", Flight)
<1>16. ASSUME NEW slot \in DOMAIN wanted
       PROVE Shown(slot)' = End(ViewKind(slot), Shown(slot), z.out)
  <2>1. out = << >> /\ Seqn(events) /\ Seqn(z.out) /\ views' = views /\ events' = events
    BY <1>2, <1>8 DEF PaneKept, PhasesKept, PaneTyped, Evs
  <2> DEFINE k == ViewKind(slot)
             x == Seen(views, slot)
  <2>2. Shown(slot) = End(k, x, events)
    <3>1. Seqn(out)
      BY <2>1, NothingIsSeqn
    <3> HIDE DEF k, x
    <3>4. Seqn(events)
      BY <2>1
    <3>2. End(k, x, events \o out) = End(k, End(k, x, events), out)
      BY <3>1, <3>4, EndCat
    <3>3. End(k, End(k, x, events), out) = End(k, x, events)
      BY <2>1, EndNone
    <3> QED BY <3>2, <3>3 DEF Shown, Coming, k, x
  <2>3. Shown(slot)' = End(k, x, events \o z.out)
    BY <1>2 DEF Shown, Coming
  <2>4. End(k, x, events \o z.out) = End(k, End(k, x, events), z.out)
    BY <2>1, EndCat
  <2> QED BY <2>2, <2>3, <2>4
<1>17. ASSUME NEW slot \in DOMAIN wanted \cap DOMAIN z.s.slots
       PROVE /\ Follows(z.s.slots[slot], Shown(slot)')
             /\ z.s.slots[slot].loaded /\ (End(ReplayKind, "no", q) = "yes" \/ still = "no")
                  => Agrees(z.s.slots[slot], z.s, Shown(slot)')
  <2> DEFINE w == Shown(slot)
             x == End(ViewKind(slot), w, z.out)
             u == z.s.slots[slot]
  <2>1. HalfShown(s.slots, slot, w, s.bars, still)
    BY RunShows
  <2>2. x = End(ViewKind(slot), w, z.out) /\ u = z.s.slots[slot] /\ Shown(slot)' = x
    BY <1>16
  <2> HIDE DEF s, q, still, w, x, u
  <2>3. Follows(u, x)
    BY <1>3, <1>4, <2>1, <2>2, ReducedShows
  <2>4. u.loaded /\ (End(ReplayKind, "no", q) = "yes" \/ still = "no") => Agrees(u, z.s, x)
    BY <1>3, <1>4, <2>1, <2>2, ReducedShows
  <2> QED BY <2>2, <2>3, <2>4
<1>18. ViewsFollow'
  BY <1>2, <1>10, <1>17 DEF ViewsFollow
<1>19. RowsFollow'
  <2> SUFFICES ASSUME End(ReplayKind, "no", r) = "no",
                      NEW slot \in DOMAIN wanted \cap DOMAIN z.s.slots, z.s.slots[slot].loaded
               PROVE Agrees(z.s.slots[slot], z.s, Shown(slot)')
    BY <1>2, <1>9, <1>10 DEF RowsFollow
  <2>1. End(ReplayKind, "no", q) \in {"no", "yes"}
    <3>1. Seqn(q)
      BY <1>4, SeqIs
    <3> QED BY <3>1, ReplaysIs
  <2>2. End(ReplayKind, "no", q) = "no" => still = "no"
    <3>1. still = End(ReplayKind, End(ReplayKind, "no", q), r)
      BY <1>4
    <3> HIDE DEF still, q, r
    <3> QED BY <3>1
  <2> HIDE DEF still, q, r, s
  <2> QED BY <1>17, <2>1, <2>2
<1> QED BY <1>1, <1>11, <1>12, <1>13, <1>14, <1>15, <1>18, <1>19 DEF PaneKept

-----------------------------------------------------------------------------
(* All of it holds in every state. *)
LEMMA PaneStutters == ASSUME PaneKept, UNCHANGED paneVars PROVE PaneKept'
<1>1. /\ UNCHANGED <<chart, lane, todo, link, counts, worker>>
      /\ UNCHANGED <<out, events, views, ui, wanted, used>>
  BY DEF paneVars
<1>2. PaneInv'
  BY <1>1 DEF PaneKept, PaneInv, ViewsOK, Apart, Tracked
<1>3. PaneTyped'
  BY <1>1 DEF PaneKept, PaneTyped, ShownOK
<1>4. PhasesKept'
  BY <1>1 DEF PaneKept, PhasesKept, Quiet
<1>5. Flight' = Flight /\ Coming' = Coming
  BY <1>1 DEF Flight, Waiting, Coming
<1>6. BindingsKept' /\ SeriesKept' /\ ViewsFollow' /\ RowsFollow' /\ HostSynced'
  BY <1>1, <1>5, FlightSame
<1> QED BY <1>2, <1>3, <1>4, <1>6 DEF PaneKept

(* What is on its way leaves the pane with what the user and the chart say, *)
(* for any number of slots, commands parked or folded, batches and events.  *)
THEOREM PaneIsKept == PaneSpec => []PaneKept
<1>1. PaneInit => PaneKept
  BY PaneBegins
<1>2. ASSUME PaneKept, [PaneNext]_paneVars PROVE PaneKept'
  <2>1. CASE UserStep
    BY <1>2, <2>1, UserKeeps
  <2>2. CASE FrameStep
    <3>1. CASE SendCommand
      BY <1>2, <3>1, SendKeeps
    <3>2. CASE DrainEvents
      BY <1>2, <3>2, DrainKeeps
    <3>3. CASE ReadProgress
      BY <1>2, <3>3, ReadKeeps
    <3>4. CASE AnswerDrift
      BY <1>2, <3>4, AnswerKeeps
    <3> QED BY <2>2, <3>1, <3>2, <3>3, <3>4 DEF FrameStep
  <2>3. CASE WorkerStep
    <3>1. CASE TakeCommand
      BY <1>2, <3>1, TakeKeeps
    <3>2. CASE RunTaken
      BY <1>2, <3>2, RunKeeps
    <3>3. CASE SendEvent
      BY <1>2, <3>3, EventKeeps
    <3>4. CASE FinishBatch
      BY <1>2, <3>4, FinishKeeps
    <3> QED BY <2>3, <3>1, <3>2, <3>3, <3>4 DEF WorkerStep
  <2>4. CASE UNCHANGED paneVars
    BY <1>2, <2>4, PaneStutters
  <2> QED BY <1>2, <2>1, <2>2, <2>3, <2>4 DEF PaneNext
<1> QED BY <1>1, <1>2, PTL DEF PaneSpec

-----------------------------------------------------------------------------
(* What that says of a pane that has settled. *)

(* With nothing on its way, what the worker holds of a slot is what the     *)
(* user wants of it, and what it holds of the series the chart's.           *)
LEMMA QuietSays ==
  ASSUME PaneKept, Quiet, NEW slot \in DOMAIN wanted
  PROVE /\ slot \in DOMAIN worker.session.slots
        /\ worker.session.slots[slot].loaded = wanted[slot].loaded
        /\ worker.session.slots[slot].src = wanted[slot].src
        /\ worker.session.slots[slot].values = wanted[slot].values
        /\ worker.session.slots[slot].stale = wanted[slot].stale
        /\ Follows(worker.session.slots[slot], Shown(slot))
        /\ worker.session.slots[slot].loaded =>
             Agrees(worker.session.slots[slot], worker.session, Shown(slot))
<1> DEFINE s == worker.session
           f == s.slots
           m == f[slot]
           want == wanted[slot]
<1>1. \A k, x : End(k, x, Flight) = x
  BY Quieted
<1>2. Known(f, slot) = Known(wanted, slot)
  BY <1>1 DEF PaneKept, BindingsKept
<1>3. Known(wanted, slot) = Bound(want.loaded, want.src, want.values, want.stale)
  BY DEF Known
<1>4. slot \in DOMAIN f
  <2> SUFFICES ASSUME slot \notin DOMAIN f PROVE FALSE
    OBVIOUS
  <2>1. Known(f, slot) = Blank
    BY KnownIs
  <2>2. ~Blank.there /\ Known(wanted, slot).there
    <3>1. ~Blank.there
      BY DEF Blank
    <3>2. Bound(want.loaded, want.src, want.values, want.stale).there
      BY BoundIs
    <3> QED BY <1>3, <3>1, <3>2
  <2> QED BY <1>2, <2>1, <2>2
<1>5. Known(f, slot) = Bound(m.loaded, m.src, m.values, m.stale)
  BY <1>4, KnownIs
<1>6. m.loaded = want.loaded /\ m.src = want.src /\ m.values = want.values /\ m.stale = want.stale
  <2> DEFINE a == Known(f, slot)
  <2>1. a.loaded = m.loaded /\ a.src = m.src /\ a.values = m.values /\ a.stale = m.stale
    BY <1>5, BoundIs
  <2>2. a.loaded = want.loaded /\ a.src = want.src /\ a.values = want.values /\ a.stale = want.stale
    BY <1>2, <1>3, BoundIs
  <2> HIDE DEF a, m, want
  <2> QED BY <2>1, <2>2
<1>7. Follows(m, Shown(slot))
  BY <1>4 DEF PaneKept, ViewsFollow
<1>8. m.loaded => Agrees(m, s, Shown(slot))
  <2>1. End(ReplayKind, "no", Flight) = "no"
    BY <1>1
  <2> QED BY <1>4, <2>1 DEF PaneKept, RowsFollow
<1> QED BY <1>4, <1>6, <1>7, <1>8

(* And of the series. *)
LEMMA QuietSeries ==
  ASSUME PaneKept, Quiet
  PROVE /\ ChartOK(chart) /\ worker.session.bars \in Cuts
        /\ worker.session.bars = Bars(chart) \/ (~chart.opened /\ chart.trades = << >>)
        /\ worker.session.partial = Forming(chart)
        /\ worker.session.run = IF lane.rungs = 0 THEN << >> ELSE Forming(chart)
<1> DEFINE s == worker.session
<1>1. \A k, x : End(k, x, Flight) = x
  BY Quieted
<1>2. SeriesTrue(chart, lane, Series(s))
  BY <1>1 DEF PaneKept, SeriesKept
<1>3. Series(s).bars = s.bars /\ Series(s).partial = s.partial /\ Series(s).run = s.run
  BY SeriesFields DEF Series
<1>4. ChartOK(chart) /\ s.bars \in Cuts
  BY DEF PaneKept, PaneTyped, WorkerOK, HostOK
<1> QED BY <1>2, <1>3, <1>4 DEF SeriesTrue

(* What is shown, once what was sent is taken in. *)
LEMMA QuietShown ==
  ASSUME PaneKept, Quiet, events = << >>, NEW slot
  PROVE Shown(slot) = Seen(views, slot)
<1>1. Coming = << >>
  BY Quieted
<1> QED BY <1>1, EndNone DEF Shown

(* Bars of one series are as many as those of another only where they are   *)
(* both none, or the same.                                                  *)
LEMMA NoBars ==
  ASSUME NEW c, ChartOK(c), c.trades = << >>, NEW b \in Cuts, Len(b) = Len(Bars(c))
  PROVE b = Bars(c)
<1>1. Len(Bars(c)) = 0 /\ Bars(c) \in Cuts
  <2>1. Len(c.trades) = 0 /\ c.size \in Nat \ {0}
    BY DEF ChartOK
  <2>2. Len(Bars(c)) = Len(c.trades) \div c.size /\ Bars(c) \in Cuts
    BY SeriesIs
  <2>3. 0 \div c.size = 0
    BY <2>1, Division
  <2> QED BY <2>1, <2>2, <2>3
<1> DEFINE P == Seq(Nat)
           d == Bars(c)
<1>2. b \in Seq(P) /\ d \in Seq(P) /\ Len(b) = 0 /\ Len(d) = 0
  BY <1>1 DEF Cuts
<1> HIDE DEF P, d
<1>3. b = << >> /\ d = << >>
  BY <1>2
<1> QED BY <1>3 DEF d

(* Each slot shows the source, the inputs and the staleness the user's      *)
(* commands, run one at a time, would leave.                                *)
LEMMA BindingsSettle == ASSUME PaneKept PROVE SettledBindings
<1> SUFFICES ASSUME Settled
             PROVE /\ DOMAIN views.shown = DOMAIN wanted
                   /\ \A slot \in DOMAIN wanted :
                        LET view == views.shown[slot] want == wanted[slot] IN
                        /\ view.src = want.src /\ view.stale = want.stale
                        /\ IF want.loaded THEN view.inputs = want.values ELSE view.error
  BY DEF SettledBindings
<1>1. Quiet /\ events = << >>
  BY DEF Settled
<1>2. ASSUME NEW slot \in DOMAIN wanted
      PROVE LET view == views.shown[slot] want == wanted[slot] IN
            /\ slot \in DOMAIN views.shown
            /\ view.src = want.src /\ view.stale = want.stale
            /\ IF want.loaded THEN view.inputs = want.values ELSE view.error
  <2> DEFINE m == worker.session.slots[slot]
             want == wanted[slot]
             w == Seen(views, slot)
  <2>1. /\ m.loaded = want.loaded /\ m.src = want.src
        /\ m.values = want.values /\ m.stale = want.stale
    BY <1>1, QuietSays
  <2>2. Follows(m, w)
    BY <1>1, QuietSays, QuietShown
  <2>3. w.there = "yes" => slot \in DOMAIN views.shown /\ w.view = views.shown[slot]
    BY DEF Seen
  <2> HIDE DEF m, w
  <2> QED BY <2>1, <2>2, <2>3 DEF Follows
<1>3. DOMAIN views.shown \subseteq DOMAIN wanted
  BY DEF PaneKept, PaneInv, Tracked
<1> QED BY <1>2, <1>3

(* A healthy view in step with the chart shows every bar of it and nothing  *)
(* else, and no rung of a bar already closed.                               *)
LEMMA RowsSettle == ASSUME PaneKept PROVE SettledRows
<1> SUFFICES ASSUME Settled, NEW slot \in DOMAIN views.shown \ Drifted(views),
                    wanted[slot].loaded
             PROVE LET view == views.shown[slot] IN
                   IF view.error THEN view.preview = << >> /\ view.lane = << >>
                   ELSE /\ view.rows = Bars(chart)
                        /\ view.preview = Forming(chart)
                        /\ view.lane \in {<< >>, Forming(chart)}
                        /\ lane.rungs = 0 => view.lane = << >>
  BY DEF SettledRows
<1> DEFINE s == worker.session
           m == s.slots[slot]
           view == views.shown[slot]
           w == Seen(views, slot)
<1>1. Quiet /\ events = << >>
  BY DEF Settled
<1>2. slot \in DOMAIN wanted
  BY DEF PaneKept, PaneInv, Tracked
<1>3. Agrees(m, s, w)
  <2>1. m.loaded
    BY <1>1, <1>2, QuietSays
  <2>2. m.loaded => Agrees(m, s, Shown(slot))
    BY <1>1, <1>2, QuietSays
  <2>3. Shown(slot) = w
    BY <1>1, QuietShown
  <2> QED BY <2>1, <2>2, <2>3
<1>4. w.view = view
  BY DEF Seen
<1>5. /\ ChartOK(chart) /\ s.bars \in Cuts
      /\ s.bars = Bars(chart) \/ (~chart.opened /\ chart.trades = << >>)
      /\ s.partial = Forming(chart)
      /\ s.run = IF lane.rungs = 0 THEN << >> ELSE Forming(chart)
  BY <1>1, QuietSeries
<1>6. CASE view.error
  <2>1. Failed(m.src, s.bars)
    BY <1>3, <1>4, <1>6 DEF Agrees
  <2> QED BY <1>3, <1>4, <1>6, <2>1 DEF Agrees
<1>7. CASE ~view.error
  <2>1. ~Failed(m.src, s.bars)
    BY <1>3, <1>4, <1>7 DEF Agrees
  <2>2. view.rows = s.bars /\ view.preview = s.partial /\ view.lane \in {<< >>, s.run}
    BY <1>3, <1>4, <2>1 DEF Agrees, Column
  <2>3. Len(view.rows) = Len(Bars(chart))
    BY <1>7 DEF Drifted, InStep
  <2>4. s.bars = Bars(chart)
    <3>1. CASE chart.trades = << >>
      <4> HIDE DEF s
      <4> QED BY <1>5, <2>2, <2>3, <3>1, NoBars
    <3>2. CASE chart.trades # << >>
      BY <1>5, <3>2
    <3> QED BY <3>1, <3>2
  <2> QED BY <1>5, <1>7, <2>2, <2>4
<1> QED BY <1>6, <1>7

(* Once everything has settled the views are what the user and the chart    *)
(* say, however the commands were parked, folded and batched and however    *)
(* the deltas came through.                                                 *)
THEOREM PaneSettlesTruly == PaneSpec => []SettledPane
<1>1. PaneKept => SettledPane
  BY BindingsSettle, RowsSettle DEF SettledPane
<1> QED BY <1>1, PaneIsKept, PTL

(* A repair is spent on a real disagreement.                                *)
LEMMA RepairEarned ==
  ASSUME PaneKept, AnswerDrift, todo' # << >>
  PROVE Len(worker.session.bars) # Len(Bars(chart))
<1> DEFINE a == ApplyEvents(views)
           v == Recalled(a)
           s == worker.session
<1>1. Quiet /\ todo = << >>
  BY DEF AnswerDrift, PaneKept, PhasesKept, Quiet
<1>2. Unanswered(v) # {}
  BY <1>1 DEF AnswerDrift
<1>3. ViewsOK(a) /\ Tracked(a) = Tracked(views)
      /\ \A k \in Tracked(views) : Seen(a, k) = End(ViewKind(k), Seen(views, k), events)
  <2>1. ViewsOK(views) /\ Apart(views) /\ Evs(events)
    BY DEF PaneKept, PaneInv, PaneTyped
  <2>2. \A k \in Tracked(views) : Seen(a, k) = End(ViewKind(k), Seen(views, k), events)
    BY <2>1, EventsSeen
  <2>3. ViewsOK(a) /\ Tracked(a) = Tracked(views)
    BY <2>1, EventsSeen
  <2> QED BY <2>2, <2>3
<1> HIDE DEF a
<1>4. v.shown = a.shown
  BY <1>3 DEF Recalled, ViewsOK
<1>5. PICK slot \in DOMAIN v.shown : ~v.shown[slot].error /\ ~InStep(v, slot)
  BY <1>2 DEF Unanswered, Drifted
<1> HIDE DEF v
<1>6. Len(a.shown[slot].rows) # Len(Bars(chart)) /\ ~a.shown[slot].error /\ slot \in DOMAIN a.shown
  BY <1>4, <1>5 DEF InStep
<1>7. slot \in Tracked(views) /\ slot \in DOMAIN wanted
  BY <1>3, <1>6 DEF Tracked, PaneKept, PaneInv
<1>8. Seen(a, slot) = Shown(slot)
  BY <1>1, <1>3, <1>7, Quieted DEF Shown
<1>9. Seen(a, slot).view = a.shown[slot]
  BY <1>6 DEF Seen
<1> DEFINE m == s.slots[slot]
           w == Shown(slot)
<1>10. Follows(m, w)
  BY <1>1, <1>7, QuietSays
<1>11. m.loaded => Agrees(m, s, w)
  BY <1>1, <1>7, QuietSays
<1>12. ~w.view.error /\ Len(w.view.rows) # Len(Bars(chart))
  BY <1>6, <1>8, <1>9
<1> HIDE DEF m, w, s
<1>13. m.loaded
  BY <1>10, <1>12 DEF Follows
<1>14. ~Failed(m.src, s.bars) /\ w.view.rows = Column(m.src, s.bars)
  BY <1>11, <1>12, <1>13 DEF Agrees
<1>15. w.view.rows = s.bars
  BY <1>14 DEF Column
<1> QED BY <1>12, <1>15 DEF s

(* IndicatorViews::row_drift: whatever was parked, folded, skipped or still *)
(* to be taken in, the pane replays its whole series only where the         *)
(* worker's host itself holds another number of bars.                       *)
THEOREM RepairsHaveACause == PaneSpec => RepairsAreEarned
<1> DEFINE A == AnswerDrift /\ todo' # << >>
                  => Len(worker.session.bars) # Len(Bars(chart))
<1>1. PaneKept => A
  BY RepairEarned
<1>2. [][A]_paneVars <=> RepairsAreEarned
  BY PTL DEF RepairsAreEarned
<1> HIDE DEF A
<1> QED BY <1>1, <1>2, PaneIsKept, PTL DEF PaneSpec
=============================================================================
