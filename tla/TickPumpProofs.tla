-------------------------- MODULE TickPumpProofs --------------------------
(***************************************************************************)
(* What the live pump forwards, for any tape, any request sizes and any    *)
(* number of rounds, wherever the tape grows and a round fails.            *)
(*                                                                         *)
(* A print has no identity on the wire, so the pump counts: the invariant  *)
(* relates its cursor to the count of the newest millisecond's prints on   *)
(* the wire, bounds each millisecond's count by the tape's own, and says   *)
(* that no millisecond behind the cursor was passed over (PumpInv).  A     *)
(* round keeps it because the answer is a run of the tape that reaches     *)
(* back to the cursor's second: RoundInv follows the walk over the answer  *)
(* print by print, with the prints met of the cursor's millisecond.        *)
(***************************************************************************)
EXTENDS TickPump, FiniteSetTheorems, WellFoundedInduction, TLAPS

-----------------------------------------------------------------------------
(* Numbers and stamps. *)

(* Numbers have a least one, in every set of them. *)
LEMMA LeastNumber ==
  ASSUME NEW T, T \subseteq Nat, T # {}
  PROVE \E x \in T : \A y \in T : x <= y
<1> DEFINE R == {ss \in Nat \X Nat : ss[1] < ss[2]}
<1>1. IsWellFoundedOn(R, Nat)
  BY NatLessThanWellFounded DEF OpToRel
<1> HIDE DEF R
<1>2. PICK x \in T : \A y \in T : ~(<<y, x>> \in R)
  BY <1>1, WFMin
<1>3. \A y \in T : ~(y < x)
  BY <1>2 DEF R
<1> QED BY <1>2, <1>3

(* What holds of 0 and is carried from each number to the next, up to a     *)
(* bound, holds up to the bound: G is the set of those it holds of.         *)
LEMMA Upward ==
  ASSUME NEW L \in Nat, NEW G, 0 \in G, \A n \in 1 .. L : n - 1 \in G => n \in G
  PROVE \A n \in 0 .. L : n \in G
<1> DEFINE Bad == {n \in 0 .. L : n \notin G}
<1>1. CASE Bad # {}
  <2>0. Bad \subseteq Nat
    OBVIOUS
  <2>1. PICK n \in Bad : \A i \in Bad : n <= i
    <3> HIDE DEF Bad
    <3> QED BY <1>1, <2>0, LeastNumber
  <2>2. n \in 1 .. L /\ n - 1 \in 0 .. L
    BY <2>1
  <2>3. n - 1 \in G
    BY <2>1, <2>2
  <2> QED BY <2>1, <2>2, <2>3
<1>2. CASE Bad = {}
  BY <1>2
<1> QED BY <1>1, <1>2

(* The tape's stamps are numbers, and climb from any print to any later one. *)
LEMMA Stamps ==
  /\ Len(Ms) \in Nat
  /\ \A i \in Prints : Ms[i] \in Nat
  /\ \A i, j \in Prints : i <= j => Ms[i] <= Ms[j]
<1>1. Len(Ms) \in Nat /\ \A i \in Prints : Ms[i] \in Nat
  BY PumpAssumption DEF Prints
<1>2. ASSUME NEW i \in Prints, NEW j \in Prints, i <= j PROVE Ms[i] <= Ms[j]
  <2> DEFINE G == {n \in 0 .. j - i : Ms[i] <= Ms[i + n]}
  <2>1. j - i \in Nat /\ i + (j - i) = j /\ i \in Nat /\ j \in Nat
    BY <1>1, <1>2 DEF Prints
  <2>2. 0 \in G
    BY <1>1, <2>1
  <2>3. \A n \in 1 .. j - i : n - 1 \in G => n \in G
    <3> SUFFICES ASSUME NEW n \in 1 .. j - i, n - 1 \in G PROVE n \in G
      OBVIOUS
    <3>1. i + n \in 2 .. Len(Ms) /\ i + n - 1 = i + (n - 1) /\ i + (n - 1) \in Prints
          /\ i + n \in Prints
      BY <1>1, <2>1 DEF Prints
    <3>2. Ms[(i + n) - 1] <= Ms[i + n]
      <4> DEFINE m == i + n
      <4>1. m \in 2 .. Len(Ms)
        BY <3>1
      <4> HIDE DEF m
      <4>2. Ms[m - 1] <= Ms[m]
        BY <4>1, PumpAssumption
      <4> QED BY <4>2 DEF m
    <3>3. Ms[i] <= Ms[i + (n - 1)]
      OBVIOUS
    <3>9. i + (n - 1) = (i + n) - 1
      BY <2>1
    <3>4. Ms[i] \in Nat /\ Ms[i + n] \in Nat /\ Ms[i + (n - 1)] \in Nat
      BY <1>1, <3>1
    <3>5. Ms[i] <= Ms[i + n]
      BY <3>2, <3>3, <3>4, <3>9
    <3> QED BY <3>5
  <2>4. \A n \in 0 .. j - i : n \in G
    <3> HIDE DEF G
    <3> QED BY <2>1, <2>2, <2>3, Upward
  <2>5. j - i \in G
    BY <2>1, <2>4
  <2> QED BY <2>1, <2>5
<1> QED BY <1>1, <1>2

(* A request's floor is a whole second, and seconds climb with the stamps. *)
LEMMA Seconds ==
  ASSUME NEW a \in Nat, NEW b \in Nat, a <= b
  PROVE a \div Second \in Nat /\ b \div Second \in Nat /\ a \div Second <= b \div Second
BY PumpAssumption

-----------------------------------------------------------------------------
(* Counting. *)

(* How often a millisecond is on a wire, and among the prints from..to.     *)
On(w, ms) == Cardinality({n \in DOMAIN w : Ms[w[n]] = ms})
Met(from, to, ms) == Cardinality({i \in from .. to : Ms[i] = ms})

LEMMA OnNumber ==
  ASSUME NEW w \in Seq(Prints), NEW ms
  PROVE On(w, ms) \in Nat /\ (On(w, ms) = 0 <=> \A n \in DOMAIN w : Ms[w[n]] # ms)
<1> DEFINE A == {n \in DOMAIN w : Ms[w[n]] = ms}
<1>0. DOMAIN w = 1 .. Len(w) /\ Len(w) \in Nat
  OBVIOUS
<1>1. IsFiniteSet(DOMAIN w) /\ A \subseteq DOMAIN w
  BY <1>0, FS_Interval
<1>2. IsFiniteSet(A)
  <2> HIDE DEF A
  <2> QED BY <1>1, FS_Subset
<1>3. Cardinality(A) \in Nat /\ (Cardinality(A) = 0 <=> A = {})
  <2> HIDE DEF A
  <2> QED BY <1>2, FS_CardinalityType, FS_EmptySet
<1>4. On(w, ms) = Cardinality(A)
  BY DEF On
<1>5. A = {} <=> \A n \in DOMAIN w : Ms[w[n]] # ms
  OBVIOUS
<1> HIDE DEF A
<1> QED BY <1>3, <1>4, <1>5

(* A print sent counts once more at its own millisecond and at no other. *)
LEMMA OnAppend ==
  ASSUME NEW w \in Seq(Prints), NEW i \in Prints, NEW ms
  PROVE On(Append(w, i), ms) = On(w, ms) + (IF Ms[i] = ms THEN 1 ELSE 0)
<1> DEFINE A == {n \in DOMAIN w : Ms[w[n]] = ms}
           B == {n \in DOMAIN Append(w, i) : Ms[Append(w, i)[n]] = ms}
           L == Len(w) + 1
<1>1. DOMAIN Append(w, i) = DOMAIN w \cup {L} /\ L \notin DOMAIN w
      /\ Append(w, i)[L] = i /\ \A n \in DOMAIN w : Append(w, i)[n] = w[n]
  OBVIOUS
<1>0. DOMAIN w = 1 .. Len(w) /\ Len(w) \in Nat
  OBVIOUS
<1>2. IsFiniteSet(DOMAIN w) /\ A \subseteq DOMAIN w
  BY <1>0, FS_Interval
<1>3. IsFiniteSet(A)
  <2> HIDE DEF A
  <2> QED BY <1>2, FS_Subset
<1>4. Cardinality(A) \in Nat /\ L \notin A
  <2>1. L \notin A
    BY <1>1
  <2> HIDE DEF A
  <2> QED BY <1>3, <2>1, FS_CardinalityType
<1>5. CASE Ms[i] = ms
  <2>1. B = A \cup {L}
    <3> HIDE DEF L
    <3> QED BY <1>1, <1>5
  <2>2. Cardinality(B) = Cardinality(A) + 1
    <3> HIDE DEF A, B, L
    <3> QED BY <1>3, <1>4, <2>1, FS_AddElement
  <2> QED BY <1>5, <2>2 DEF On
<1>6. CASE Ms[i] # ms
  <2>1. B = A
    <3> HIDE DEF L
    <3> QED BY <1>1, <1>6
  <2>2. Cardinality(B) = Cardinality(A) + 0
    <3> HIDE DEF A, B, L
    <3> QED BY <1>4, <2>1
  <2> QED BY <1>6, <2>2 DEF On
<1> QED BY <1>5, <1>6

(* The same of the prints met along the tape. *)
LEMMA MetNext ==
  ASSUME NEW from \in Nat, NEW to \in Nat, to + 1 >= from, NEW ms
  PROVE /\ Met(from, to, ms) \in Nat
        /\ Met(from, to + 1, ms) = Met(from, to, ms) + (IF Ms[to + 1] = ms THEN 1 ELSE 0)
<1> DEFINE A == {i \in from .. to : Ms[i] = ms}
           B == {i \in from .. to + 1 : Ms[i] = ms}
<1>1. from .. to + 1 = (from .. to) \cup {to + 1} /\ to + 1 \notin from .. to
  OBVIOUS
<1>2. IsFiniteSet(from .. to) /\ A \subseteq from .. to
  BY FS_Interval
<1>3. IsFiniteSet(A)
  <2> HIDE DEF A
  <2> QED BY <1>2, FS_Subset
<1>4. Cardinality(A) \in Nat /\ to + 1 \notin A
  <2>1. to + 1 \notin A
    BY <1>1
  <2> HIDE DEF A
  <2> QED BY <1>3, <2>1, FS_CardinalityType
<1>5. CASE Ms[to + 1] = ms
  <2>1. B = A \cup {to + 1}
    BY <1>1, <1>5
  <2>2. Cardinality(B) = Cardinality(A) + 1
    <3> HIDE DEF A, B
    <3> QED BY <1>3, <1>4, <2>1, FS_AddElement
  <2> QED BY <1>4, <1>5, <2>2 DEF Met
<1>6. CASE Ms[to + 1] # ms
  <2>1. B = A
    BY <1>1, <1>6
  <2>2. Cardinality(B) = Cardinality(A) + 0
    <3> HIDE DEF A, B
    <3> QED BY <1>4, <2>1
  <2> QED BY <1>4, <1>6, <2>2 DEF Met
<1> QED BY <1>5, <1>6

(* What is met of an answer is held by the tape. *)
LEMMA MetOfTheTape ==
  ASSUME NEW from \in Nat, NEW to \in Nat, NEW last \in Nat, NEW ms, to <= last, from >= 1
  PROVE /\ Met(from, to, ms) \in Nat /\ Met(1, last, ms) \in Nat
        /\ Met(from, to, ms) <= Met(1, last, ms)
<1> DEFINE A == {i \in from .. to : Ms[i] = ms}
           B == {i \in 1 .. last : Ms[i] = ms}
<1>1. A \subseteq B /\ B \subseteq 1 .. last /\ IsFiniteSet(1 .. last)
  BY FS_Interval
<1> HIDE DEF A, B
<1>2. IsFiniteSet(A) /\ IsFiniteSet(B)
  BY <1>1, FS_Subset
<1>3. Cardinality(A) \in Nat /\ Cardinality(B) \in Nat /\ Cardinality(A) <= Cardinality(B)
  BY <1>1, <1>2, FS_CardinalityType, FS_Subset
<1> QED BY <1>3 DEF Met, A, B

-----------------------------------------------------------------------------
(* The walk over an answer. *)

(* Where a pass stands after some prints of an answer. *)
Standing == [ms : Nat, sent : Nat, seen : Nat, out : Seq(Prints)]

(* What one print of the answer does to it, case by case. *)
LEMMA ForwardIs ==
  ASSUME NEW p \in Standing, NEW i \in Prints
  PROVE /\ Forward(p, i) \in Standing
        /\ Ms[i] < p.ms => Forward(p, i) = p
        /\ Ms[i] = p.ms /\ p.seen < p.sent => Forward(p, i) = [p EXCEPT !.seen = p.seen + 1]
        /\ Ms[i] = p.ms /\ p.seen >= p.sent
             => Forward(p, i) = [p EXCEPT !.seen = p.seen + 1, !.sent = p.sent + 1,
                                          !.out = Append(p.out, i)]
        /\ Ms[i] > p.ms
             => Forward(p, i) = [ms |-> Ms[i], sent |-> 1, seen |-> 0, out |-> Append(p.out, i)]
<1>1. Ms[i] \in Nat /\ p.ms \in Nat /\ p.seen \in Nat /\ p.sent \in Nat /\ p.out \in Seq(Prints)
  BY Stamps DEF Standing
<1>2. CASE Ms[i] < p.ms
  <2>1. Forward(p, i) = p
    BY <1>1, <1>2 DEF Forward
  <2> QED BY <1>1, <1>2, <2>1
<1>3. CASE Ms[i] = p.ms /\ p.seen < p.sent
  <2>1. Forward(p, i) = [p EXCEPT !.seen = p.seen + 1]
    BY <1>1, <1>3 DEF Forward
  <2>2. p.seen + 1 \in Nat
    BY <1>1
  <2>3. [p EXCEPT !.seen = p.seen + 1] \in Standing
    BY <2>2 DEF Standing
  <2> QED BY <1>1, <1>3, <2>1, <2>3
<1>4. CASE Ms[i] = p.ms /\ p.seen >= p.sent
  <2>1. Forward(p, i) = [p EXCEPT !.seen = p.seen + 1, !.sent = p.sent + 1,
                                  !.out = Append(p.out, i)]
    BY <1>1, <1>4 DEF Forward
  <2>2. p.seen + 1 \in Nat /\ p.sent + 1 \in Nat /\ Append(p.out, i) \in Seq(Prints)
    BY <1>1
  <2>3. [p EXCEPT !.seen = p.seen + 1, !.sent = p.sent + 1, !.out = Append(p.out, i)]
          \in Standing
    BY <2>2 DEF Standing
  <2> QED BY <1>1, <1>4, <2>1, <2>3
<1>5. CASE Ms[i] > p.ms
  <2>1. Forward(p, i) = [ms |-> Ms[i], sent |-> 1, seen |-> 0, out |-> Append(p.out, i)]
    BY <1>1, <1>5 DEF Forward
  <2>2. Append(p.out, i) \in Seq(Prints)
    BY <1>1
  <2>3. Forward(p, i) \in Standing
    BY <1>1, <2>1, <2>2 DEF Standing
  <2> QED BY <1>1, <1>5, <2>1, <2>3
<1> QED BY <1>1, <1>2, <1>3, <1>4, <1>5

Start == [ms |-> cursor.ms, sent |-> cursor.sent, seen |-> 0, out |-> << >>]

(* The walk goes through a standing after each print of the answer, the     *)
(* first before any, the last the round's.                                  *)
Walks(at, answer) ==
  /\ at[0] = Start
  /\ \A n \in 1 .. Len(answer) : at[n] = Forward(at[n - 1], answer[n])
  /\ Forwarded(answer) = at[Len(answer)]

LEMMA WalkExists ==
  ASSUME NEW answer \in Seq(Prints)
  PROVE \E at : Walks(at, answer)
<1> DEFINE L == Len(answer)
           S == 0 .. L
           body(g) == [n \in 0 .. L |-> IF n = 0 THEN Start
                        ELSE CHOOSE end \in {Forward(p, answer[n]) : p \in {g[n - 1]}} : TRUE]
           at == CHOOSE g : g = body(g)
           Upto(m, g) == g[0] = Start /\ \A k \in 1 .. m : g[k] = Forward(g[k - 1], answer[k])
           G == {m \in 0 .. L : \E g : Upto(m, g)}
<1>1. L \in Nat
  OBVIOUS
<1>2. \A g : \A n : (CHOOSE end \in {Forward(p, answer[n]) : p \in {g[n - 1]}} : TRUE)
                      = Forward(g[n - 1], answer[n])
  OBVIOUS
<1>3. 0 \in G
  <2>1. Upto(0, [k \in {0} |-> Start])
    OBVIOUS
  <2> HIDE DEF Upto
  <2> QED BY <1>1, <2>1
<1>4. \A m \in 1 .. L : m - 1 \in G => m \in G
  <2> SUFFICES ASSUME NEW m \in 1 .. L, m - 1 \in G PROVE m \in G
    OBVIOUS
  <2>1. PICK g : Upto(m - 1, g)
    OBVIOUS
  <2> DEFINE h == [k \in 0 .. m |-> IF k = m THEN Forward(g[m - 1], answer[m]) ELSE g[k]]
  <2>2. h[0] = Start /\ \A k \in 0 .. m - 1 : h[k] = g[k]
    BY <1>1, <2>1
  <2>3. h[m] = Forward(g[m - 1], answer[m]) /\ h[m - 1] = g[m - 1]
    BY <1>1
  <2>4. \A k \in 1 .. m : h[k] = Forward(h[k - 1], answer[k])
    <3> SUFFICES ASSUME NEW k \in 1 .. m PROVE h[k] = Forward(h[k - 1], answer[k])
      OBVIOUS
    <3>1. CASE k = m
      <4> HIDE DEF h
      <4> QED BY <2>3, <3>1
    <3>2. CASE k # m
      <4>1. k \in 1 .. m - 1 /\ k \in 0 .. m - 1 /\ k - 1 \in 0 .. m - 1
        BY <1>1, <3>2
      <4> HIDE DEF h
      <4> QED BY <2>1, <2>2, <4>1
    <3> QED BY <3>1, <3>2
  <2>5. Upto(m, h)
    <3> HIDE DEF h
    <3> QED BY <2>2, <2>4
  <2> HIDE DEF h, Upto
  <2> QED BY <1>1, <2>5
<1>5. PICK g : Upto(L, g)
  <2>1. \A n \in 0 .. L : n \in G
    <3> HIDE DEF G, L
    <3> QED BY <1>1, <1>3, <1>4, Upward
  <2>2. L \in G
    <3> HIDE DEF G, L
    <3> QED BY <1>1, <2>1
  <2> QED BY <2>2
<1> DEFINE f == [n \in 0 .. L |-> g[n]]
<1>6. f = body(f)
  <2>1. \A n \in 0 .. L : f[n] = body(f)[n]
    <3> SUFFICES ASSUME NEW n \in 0 .. L PROVE f[n] = body(f)[n]
      OBVIOUS
    <3>1. CASE n = 0
      <4> HIDE DEF L
      <4> QED BY <1>5, <3>1
    <3>2. CASE n # 0
      <4>1. n \in 1 .. L /\ n - 1 \in 0 .. L
        <5> HIDE DEF L
        <5> QED BY <1>1, <3>2
      <4>2. f[n] = g[n] /\ f[n - 1] = g[n - 1] /\ g[n] = Forward(g[n - 1], answer[n])
        <5> HIDE DEF L
        <5> QED BY <1>5, <4>1
      <4>3. body(f)[n] = Forward(f[n - 1], answer[n])
        <5> HIDE DEF L, f
        <5> QED BY <1>2, <3>2, <4>1
      <4> QED BY <4>2, <4>3
    <3> QED BY <3>1, <3>2
  <2>2. \A a : body(a) = [n \in 0 .. L |-> body(a)[n]]
    <3> HIDE DEF L
    <3> QED OBVIOUS
  <2>3. f = [n \in 0 .. L |-> f[n]]
    <3> HIDE DEF L
    <3> QED OBVIOUS
  <2> HIDE DEF body, f
  <2> QED BY <2>1, <2>2, <2>3
<1>7. at = body(at)
  <2> HIDE DEF body, f
  <2> QED BY <1>6
<1>8. at[0] = Start /\ \A n \in 1 .. L : at[n] = Forward(at[n - 1], answer[n])
  <2> DEFINE a == at
  <2>1. a = body(a)
    BY <1>7
  <2> HIDE DEF a, L
  <2>2. a[0] = Start
    BY <1>1, <2>1
  <2>3. \A n \in 1 .. L : a[n] = Forward(a[n - 1], answer[n])
    BY <1>1, <1>2, <2>1
  <2> QED BY <2>2, <2>3 DEF a
<1>9. Forwarded(answer) = at[L]
  BY DEF Forwarded, Start
<1> HIDE DEF at
<1> QED BY <1>8, <1>9 DEF Walks

-----------------------------------------------------------------------------
(* The books: a wire w, a cursor ms and its count, over a tape of last      *)
(* prints.                                                                  *)

Books(w, ms, sent, last) ==
  /\ w \in Seq(Prints) /\ Len(w) >= 1
  /\ \A n \in DOMAIN w : w[n] <= last
  /\ \A m, n \in DOMAIN w : m <= n => Ms[w[m]] <= Ms[w[n]]
  /\ ms = Ms[w[Len(w)]] /\ sent = On(w, ms)
  /\ \A i \in 1 .. last : On(w, Ms[i]) <= Met(1, last, Ms[i])
  /\ \A i \in 1 .. last : Ms[i] <= ms => \E n \in DOMAIN w : Ms[w[n]] = Ms[i]

(* Nothing on the wire is stamped past the cursor. *)
LEMMA WireEnds ==
  ASSUME NEW w, NEW ms, NEW sent, NEW last \in Prints, Books(w, ms, sent, last)
  PROVE /\ ms \in Nat /\ sent \in Nat
        /\ \A n \in DOMAIN w : Ms[w[n]] \in Nat /\ Ms[w[n]] <= ms
<1>1. w \in Seq(Prints) /\ Len(w) >= 1 /\ Len(w) \in DOMAIN w /\ \A n \in DOMAIN w : w[n] \in Prints
  BY DEF Books
<1>2. \A n \in DOMAIN w : n <= Len(w)
  BY <1>1
<1>3. ms = Ms[w[Len(w)]] /\ sent = On(w, ms)
      /\ \A m, n \in DOMAIN w : m <= n => Ms[w[m]] <= Ms[w[n]]
  BY DEF Books
<1>4. ms \in Nat /\ \A n \in DOMAIN w : Ms[w[n]] \in Nat
  BY <1>1, <1>3, Stamps
<1>5. sent \in Nat
  BY <1>1, <1>3, OnNumber
<1> QED BY <1>1, <1>2, <1>3, <1>4, <1>5

(* What appending a print does to the order and to the stamps seen. *)
LEMMA OneMore ==
  ASSUME NEW w \in Seq(Prints), NEW i \in Prints
  PROVE LET v == Append(w, i) IN
        /\ v \in Seq(Prints) /\ Len(v) >= 1 /\ v[Len(v)] = i
        /\ \A n \in DOMAIN v : (n \in DOMAIN w /\ v[n] = w[n]) \/ (n = Len(v) /\ v[n] = i)
        /\ \A n \in DOMAIN w : n \in DOMAIN v /\ v[n] = w[n] /\ n < Len(v)
        /\ Len(v) \in DOMAIN v
<1> DEFINE v == Append(w, i)
           L == Len(w)
<1>1. L \in Nat /\ DOMAIN w = 1 .. L
  OBVIOUS
<1>2. v \in Seq(Prints) /\ Len(v) = L + 1 /\ v[L + 1] = i /\ DOMAIN v = 1 .. L + 1
  OBVIOUS
<1>3. \A n \in 1 .. L : v[n] = w[n]
  OBVIOUS
<1> HIDE DEF v, L
<1>4. \A n \in DOMAIN v : (n \in DOMAIN w /\ v[n] = w[n]) \/ (n = Len(v) /\ v[n] = i)
  <2> SUFFICES ASSUME NEW n \in DOMAIN v
               PROVE (n \in DOMAIN w /\ v[n] = w[n]) \/ (n = Len(v) /\ v[n] = i)
    OBVIOUS
  <2>1. n \in 1 .. L \/ n = L + 1
    BY <1>1, <1>2
  <2> QED BY <1>1, <1>2, <1>3, <2>1
<1>5. \A n \in DOMAIN w : n \in DOMAIN v /\ v[n] = w[n] /\ n < Len(v)
  BY <1>1, <1>2, <1>3
<1>6. Len(v) >= 1 /\ v[Len(v)] = i /\ Len(v) \in DOMAIN v
  BY <1>1, <1>2
<1>7. /\ v \in Seq(Prints) /\ Len(v) >= 1 /\ v[Len(v)] = i
      /\ \A n \in DOMAIN v : (n \in DOMAIN w /\ v[n] = w[n]) \/ (n = Len(v) /\ v[n] = i)
      /\ \A n \in DOMAIN w : n \in DOMAIN v /\ v[n] = w[n] /\ n < Len(v)
      /\ Len(v) \in DOMAIN v
  BY <1>2, <1>4, <1>5, <1>6
<1> QED BY <1>7 DEF v

(* What is appended to the round's prints is appended to the wire. *)
LEMMA AppendLast ==
  ASSUME NEW w \in Seq(Prints), NEW s \in Seq(Prints), NEW i \in Prints
  PROVE w \o Append(s, i) = Append(w \o s, i)
<1> DEFINE a == w \o Append(s, i)
           b == Append(w \o s, i)
           N == Len(w) + Len(s) + 1
<1>1. Len(w) \in Nat /\ Len(s) \in Nat
  OBVIOUS
<1>2. a \in Seq(Prints) /\ Len(a) = N
  OBVIOUS
<1>3. b \in Seq(Prints) /\ Len(b) = N
  OBVIOUS
<1>4. \A k \in 1 .. N : a[k] = b[k]
  OBVIOUS
<1> HIDE DEF a, b, N
<1>5. a = b
  BY <1>1, <1>2, <1>3, <1>4
<1> QED BY <1>5 DEF a, b

(* A print of the cursor's millisecond keeps the books, where the tape has  *)
(* one more of them than went out.                                          *)
LEMMA SendSame ==
  ASSUME NEW w, NEW ms, NEW sent, NEW last \in Prints, Books(w, ms, sent, last),
         NEW i \in 1 .. last, Ms[i] = ms, sent + 1 <= Met(1, last, ms)
  PROVE Books(Append(w, i), ms, sent + 1, last)
<1> DEFINE v == Append(w, i)
<1>1. w \in Seq(Prints) /\ i \in Prints /\ last \in Nat
  BY DEF Books, Prints
<1>2. /\ v \in Seq(Prints) /\ Len(v) >= 1 /\ v[Len(v)] = i
      /\ \A n \in DOMAIN v : (n \in DOMAIN w /\ v[n] = w[n]) \/ (n = Len(v) /\ v[n] = i)
      /\ \A n \in DOMAIN w : n \in DOMAIN v /\ v[n] = w[n] /\ n < Len(v)
      /\ Len(v) \in DOMAIN v
  BY <1>1, OneMore
<1>3. /\ ms \in Nat /\ sent \in Nat
      /\ \A n \in DOMAIN w : Ms[w[n]] \in Nat /\ Ms[w[n]] <= ms
  BY WireEnds
<1>4. \A x : On(v, x) = On(w, x) + (IF Ms[i] = x THEN 1 ELSE 0)
  BY <1>1, OnAppend
<1> HIDE DEF v
<1>5. \A n \in DOMAIN v : v[n] <= last
  BY <1>1, <1>2 DEF Books
<1>6. \A m, n \in DOMAIN v : m <= n => Ms[v[m]] <= Ms[v[n]]
  <2> SUFFICES ASSUME NEW m \in DOMAIN v, NEW n \in DOMAIN v, m <= n
               PROVE Ms[v[m]] <= Ms[v[n]]
    OBVIOUS
  <2>0. Len(v) \in Nat /\ m \in Nat /\ n \in Nat
    BY <1>2
  <2>1. CASE n \in DOMAIN w /\ v[n] = w[n]
    <3>1. n < Len(v)
      BY <1>2, <2>1
    <3>2. m \in DOMAIN w /\ v[m] = w[m]
      BY <1>2, <2>0, <3>1
    <3> QED BY <2>1, <3>2 DEF Books
  <2>2. CASE n = Len(v) /\ v[n] = i
    BY <1>2, <1>3, <2>2
  <2> QED BY <1>2, <2>1, <2>2
<1>7. ms = Ms[v[Len(v)]] /\ sent + 1 = On(v, ms)
  BY <1>2, <1>4 DEF Books
<1>8. \A j \in 1 .. last : On(v, Ms[j]) <= Met(1, last, Ms[j])
  <2> SUFFICES ASSUME NEW j \in 1 .. last PROVE On(v, Ms[j]) <= Met(1, last, Ms[j])
    OBVIOUS
  <2>1. CASE Ms[j] = ms
    BY <1>7, <2>1
  <2>2. CASE Ms[j] # ms
    <3>1. On(v, Ms[j]) = On(w, Ms[j]) + 0 /\ On(w, Ms[j]) \in Nat
      BY <1>1, <1>4, <2>2, OnNumber
    <3>2. On(w, Ms[j]) <= Met(1, last, Ms[j])
      BY DEF Books
    <3> QED BY <3>1, <3>2
  <2> QED BY <2>1, <2>2
<1>9. \A j \in 1 .. last : Ms[j] <= ms => \E n \in DOMAIN v : Ms[v[n]] = Ms[j]
  <2> SUFFICES ASSUME NEW j \in 1 .. last, Ms[j] <= ms PROVE \E n \in DOMAIN v : Ms[v[n]] = Ms[j]
    OBVIOUS
  <2>1. PICK n \in DOMAIN w : Ms[w[n]] = Ms[j]
    BY DEF Books
  <2> QED BY <1>2, <2>1
<1> QED BY <1>2, <1>5, <1>6, <1>7, <1>8, <1>9 DEF Books, v

(* So does the first print past the cursor, which it moves. *)
LEMMA SendNext ==
  ASSUME NEW w, NEW ms, NEW sent, NEW last \in Prints, Books(w, ms, sent, last),
         NEW i \in 1 .. last, Ms[i] > ms, \A j \in 1 .. last : Ms[j] > ms => i <= j
  PROVE Books(Append(w, i), Ms[i], 1, last)
<1> DEFINE v == Append(w, i)
<1>1. w \in Seq(Prints) /\ i \in Prints /\ last \in Nat /\ 1 .. last \subseteq Prints
  BY Stamps DEF Books, Prints
<1>2. /\ v \in Seq(Prints) /\ Len(v) >= 1 /\ v[Len(v)] = i
      /\ \A n \in DOMAIN v : (n \in DOMAIN w /\ v[n] = w[n]) \/ (n = Len(v) /\ v[n] = i)
      /\ \A n \in DOMAIN w : n \in DOMAIN v /\ v[n] = w[n] /\ n < Len(v)
      /\ Len(v) \in DOMAIN v
  BY <1>1, OneMore
<1>3. /\ ms \in Nat /\ sent \in Nat /\ Ms[i] \in Nat
      /\ \A n \in DOMAIN w : Ms[w[n]] \in Nat /\ Ms[w[n]] <= ms
  BY <1>1, WireEnds, Stamps
<1>4. \A x : On(v, x) = On(w, x) + (IF Ms[i] = x THEN 1 ELSE 0)
  BY <1>1, OnAppend
<1> HIDE DEF v
<1>5. \A n \in DOMAIN v : v[n] <= last
  BY <1>1, <1>2 DEF Books
<1>6. \A m, n \in DOMAIN v : m <= n => Ms[v[m]] <= Ms[v[n]]
  <2> SUFFICES ASSUME NEW m \in DOMAIN v, NEW n \in DOMAIN v, m <= n
               PROVE Ms[v[m]] <= Ms[v[n]]
    OBVIOUS
  <2>0. Len(v) \in Nat /\ m \in Nat /\ n \in Nat
    BY <1>2
  <2>1. CASE n \in DOMAIN w /\ v[n] = w[n]
    <3>1. n < Len(v)
      BY <1>2, <2>1
    <3>2. m \in DOMAIN w /\ v[m] = w[m]
      BY <1>2, <2>0, <3>1
    <3> QED BY <2>1, <3>2 DEF Books
  <2>2. CASE n = Len(v) /\ v[n] = i
    <3>1. CASE v[m] = i
      BY <1>3, <2>2, <3>1
    <3>2. CASE m \in DOMAIN w /\ v[m] = w[m]
      <4>1. Ms[w[m]] \in Nat /\ Ms[w[m]] <= ms
        BY <1>3, <3>2
      <4> QED BY <1>3, <2>2, <3>2, <4>1
    <3> QED BY <1>2, <3>1, <3>2
  <2> QED BY <1>2, <2>1, <2>2
<1>7. On(w, Ms[i]) = 0 /\ Ms[i] = Ms[v[Len(v)]]
  <2>1. \A n \in DOMAIN w : Ms[w[n]] # Ms[i]
    BY <1>3
  <2> QED BY <1>1, <1>2, <2>1, OnNumber
<1>8. 1 = On(v, Ms[i])
  BY <1>4, <1>7
<1>9. \A j \in 1 .. last : On(v, Ms[j]) <= Met(1, last, Ms[j])
  <2> SUFFICES ASSUME NEW j \in 1 .. last PROVE On(v, Ms[j]) <= Met(1, last, Ms[j])
    OBVIOUS
  <2>1. CASE Ms[j] = Ms[i]
    <3>1. 1 <= Met(1, last, Ms[i])
      <4> DEFINE A == {k \in 1 .. last : Ms[k] = Ms[i]}
      <4>0. i \in A
        OBVIOUS
      <4>3. IsFiniteSet(1 .. last)
        BY <1>1, FS_Interval
      <4>4. A \subseteq 1 .. last
        OBVIOUS
      <4>1. A \subseteq 1 .. last /\ IsFiniteSet(1 .. last) /\ A # {}
        BY <4>0, <4>3, <4>4
      <4> HIDE DEF A
      <4>2. Cardinality(A) \in Nat /\ Cardinality(A) # 0
        BY <4>1, FS_Subset, FS_CardinalityType, FS_EmptySet
      <4>5. 1 <= Cardinality(A)
        BY <4>2
      <4> QED BY <4>5 DEF Met, A
    <3> QED BY <1>8, <2>1, <3>1
  <2>2. CASE Ms[j] # Ms[i]
    <3>1. On(v, Ms[j]) = On(w, Ms[j]) + 0 /\ On(w, Ms[j]) \in Nat
      BY <1>1, <1>4, <2>2, OnNumber
    <3>2. On(w, Ms[j]) <= Met(1, last, Ms[j])
      BY DEF Books
    <3> QED BY <3>1, <3>2
  <2> QED BY <2>1, <2>2
<1>10. \A j \in 1 .. last : Ms[j] <= Ms[i] => \E n \in DOMAIN v : Ms[v[n]] = Ms[j]
  <2> SUFFICES ASSUME NEW j \in 1 .. last, Ms[j] <= Ms[i]
               PROVE \E n \in DOMAIN v : Ms[v[n]] = Ms[j]
    OBVIOUS
  <2>0. Ms[j] \in Nat /\ j \in Prints
    BY <1>1, Stamps
  <2>1. CASE Ms[j] <= ms
    <3>1. PICK n \in DOMAIN w : Ms[w[n]] = Ms[j]
      BY <2>1 DEF Books
    <3> QED BY <1>2, <3>1
  <2>2. CASE Ms[j] > ms
    <3>1. i <= j
      BY <2>2
    <3>2. Ms[i] <= Ms[j]
      BY <1>1, <2>0, <3>1, Stamps
    <3>3. Ms[j] = Ms[v[Len(v)]]
      BY <1>2, <1>3, <2>0, <3>2
    <3> QED BY <1>2, <3>3
  <2> QED BY <1>3, <2>0, <2>1, <2>2
<1> QED BY <1>2, <1>5, <1>6, <1>7, <1>8, <1>9, <1>10 DEF Books, v

(* And a tape that grows behind the cursor: its new print is stamped no     *)
(* earlier than any before it.                                              *)
LEMMA TapeGrows ==
  ASSUME NEW w, NEW ms, NEW sent, NEW last \in Prints, Books(w, ms, sent, last),
         last + 1 \in Prints
  PROVE Books(w, ms, sent, last + 1)
<1>1. w \in Seq(Prints) /\ last \in Nat /\ Len(w) \in DOMAIN w
      /\ \A n \in DOMAIN w : w[n] \in Prints /\ w[n] <= last
      /\ ms = Ms[w[Len(w)]]
  BY DEF Books, Prints
<1>2. \A n \in DOMAIN w : w[n] <= last + 1
  BY <1>1 DEF Prints
<1>3. \A i \in 1 .. last + 1 : On(w, Ms[i]) <= Met(1, last + 1, Ms[i])
  <2> SUFFICES ASSUME NEW i \in 1 .. last + 1
               PROVE On(w, Ms[i]) <= Met(1, last + 1, Ms[i])
    OBVIOUS
  <2>1. /\ Met(1, last, Ms[i]) \in Nat
        /\ Met(1, last + 1, Ms[i]) = Met(1, last, Ms[i]) + (IF Ms[last + 1] = Ms[i] THEN 1 ELSE 0)
    BY <1>1, MetNext
  <2>2. On(w, Ms[i]) \in Nat
        /\ (On(w, Ms[i]) = 0 <=> \A n \in DOMAIN w : Ms[w[n]] # Ms[i])
    BY <1>1, OnNumber
  <2>3. On(w, Ms[i]) <= Met(1, last, Ms[i])
    <3>1. CASE i \in 1 .. last
      BY <3>1 DEF Books
    <3>2. CASE i = last + 1 /\ On(w, Ms[i]) = 0
      BY <2>1, <3>2
    <3>3. CASE i = last + 1 /\ On(w, Ms[i]) # 0
      <4>1. PICK n \in DOMAIN w : Ms[w[n]] = Ms[i]
        BY <2>2, <3>3
      <4>2. w[n] \in 1 .. last
        BY <1>1 DEF Prints
      <4>3. On(w, Ms[w[n]]) <= Met(1, last, Ms[w[n]])
        BY <4>2 DEF Books
      <4> QED BY <4>1, <4>3
    <3> QED BY <1>1, <3>1, <3>2, <3>3
  <2> QED BY <2>1, <2>2, <2>3
<1>4. \A i \in 1 .. last + 1 : Ms[i] <= ms => \E n \in DOMAIN w : Ms[w[n]] = Ms[i]
  <2> SUFFICES ASSUME NEW i \in 1 .. last + 1, Ms[i] <= ms
               PROVE \E n \in DOMAIN w : Ms[w[n]] = Ms[i]
    OBVIOUS
  <2>1. CASE i \in 1 .. last
    BY <2>1 DEF Books
  <2>2. CASE i = last + 1
    <3>1. w[Len(w)] \in Prints /\ w[Len(w)] <= last + 1 /\ w[Len(w)] \in Nat
      BY <1>1, <1>2 DEF Prints
    <3>2. ms <= Ms[last + 1]
      BY <1>1, <3>1, Stamps
    <3>3. ms \in Nat /\ Ms[last + 1] \in Nat
      BY <1>1, Stamps
    <3>4. Ms[w[Len(w)]] = Ms[i]
      BY <1>1, <2>2, <3>2, <3>3
    <3> QED BY <1>1, <3>4
  <2> QED BY <1>1, <2>1, <2>2
<1> QED BY <1>2, <1>3, <1>4 DEF Books

-----------------------------------------------------------------------------
(* The round. *)

(* A print stamped no earlier than the cursor is in no second before the    *)
(* cursor's, so what the request passes over is stamped before it, and the  *)
(* answer is the run of the tape from there on.                             *)
LEMMA AnswerIsARun ==
  ASSUME printed \in Prints, NEW ms \in Nat, NEW count \in Nat
  PROVE /\ Passed(ms) \in 0 .. printed
        /\ \A i \in 1 .. Passed(ms) : Ms[i] < ms
        /\ CopyTicksFrom(ms, count) \in Seq(Prints)
        /\ Passed(ms) + Len(CopyTicksFrom(ms, count)) <= printed
        /\ \A n \in 1 .. Len(CopyTicksFrom(ms, count)) :
             CopyTicksFrom(ms, count)[n] = Passed(ms) + n
<1> DEFINE S == {i \in 1 .. printed : Ms[i] \div Second < ms \div Second}
           K == Cardinality(S)
<1>1. printed \in Nat /\ 1 .. printed \subseteq Prints /\ \A i \in Prints : Ms[i] \in Nat
  BY Stamps DEF Prints
<1>2. \A i, j \in 1 .. printed : i <= j /\ j \in S => i \in S
  <2> SUFFICES ASSUME NEW i \in 1 .. printed, NEW j \in 1 .. printed, i <= j, j \in S
               PROVE i \in S
    OBVIOUS
  <2>1. Ms[i] <= Ms[j] /\ Ms[i] \in Nat /\ Ms[j] \in Nat
    BY <1>1, Stamps
  <2>2. /\ Ms[i] \div Second \in Nat /\ Ms[j] \div Second \in Nat
        /\ Ms[i] \div Second <= Ms[j] \div Second
    BY <2>1, Seconds
  <2>3. ms \div Second \in Nat
    BY Seconds
  <2> QED BY <2>2, <2>3
<1>3. K \in Nat /\ K <= printed /\ S = 1 .. K
  <2>1. S \subseteq 1 .. printed /\ IsFiniteSet(1 .. printed) /\ Cardinality(1 .. printed) = printed
    BY <1>1, FS_Interval
  <2> DEFINE G == {n \in 0 .. printed : \E k \in 0 .. n : S \cap (1 .. n) = 1 .. k}
  <2>2. 0 \in G
    <3>1. S \cap (1 .. 0) = 1 .. 0
      OBVIOUS
    <3> QED BY <1>1, <3>1
  <2>3. \A n \in 1 .. printed : n - 1 \in G => n \in G
    <3> SUFFICES ASSUME NEW n \in 1 .. printed, n - 1 \in G PROVE n \in G
      OBVIOUS
    <3>1. PICK k \in 0 .. n - 1 : S \cap (1 .. n - 1) = 1 .. k
      OBVIOUS
    <3>2. 1 .. n = (1 .. n - 1) \cup {n}
      BY <1>1
    <3>3. CASE n \in S
      <4>1. \A i \in 1 .. n - 1 : i \in S
        <5> HIDE DEF S
        <5> QED BY <1>1, <1>2, <3>3
      <4>2. S \cap (1 .. n) = 1 .. n
        <5> HIDE DEF S
        <5> QED BY <3>2, <3>3, <4>1
      <4> HIDE DEF S
      <4> QED BY <1>1, <4>2
    <3>4. CASE n \notin S
      <4>1. S \cap (1 .. n) = 1 .. k /\ k \in 0 .. n
        <5> HIDE DEF S
        <5> QED BY <1>1, <3>1, <3>2, <3>4
      <4> HIDE DEF S
      <4> QED BY <1>1, <4>1
    <3> QED BY <3>3, <3>4
  <2>4. printed \in G
    <3>1. \A n \in 0 .. printed : n \in G
      <4> HIDE DEF G
      <4> QED BY <1>1, <2>2, <2>3, Upward
    <3> HIDE DEF G
    <3> QED BY <1>1, <3>1
  <2>5. PICK k \in 0 .. printed : S \cap (1 .. printed) = 1 .. k
    BY <2>4
  <2>6. S = 1 .. k
    BY <2>1, <2>5
  <2>7. K = k
    <3>1. k \in Nat /\ Cardinality(1 .. k) = k
      <4>1. k \in Nat
        BY <1>1
      <4>2. Cardinality(1 .. k) = IF 1 <= k THEN k - 1 + 1 ELSE 0
        BY <4>1, FS_Interval
      <4> QED BY <4>1, <4>2
    <3> HIDE DEF S
    <3> QED BY <2>6, <3>1
  <2> QED BY <1>1, <2>6, <2>7
<1>4. Passed(ms) = K
  BY DEF Passed
<1>5. \A i \in 1 .. K : Ms[i] < ms
  <2> SUFFICES ASSUME NEW i \in 1 .. K PROVE Ms[i] < ms
    OBVIOUS
  <2>1. i \in S
    <3> HIDE DEF K, S
    <3> QED BY <1>3
  <2>2. Ms[i] \in Nat /\ Ms[i] \div Second < ms \div Second
    BY <1>1, <2>1
  <2>3. Ms[i] >= ms => Ms[i] \div Second >= ms \div Second
    BY <2>2, Seconds
  <2>4. Ms[i] \div Second \in Nat /\ ms \div Second \in Nat
    BY <2>2, Seconds
  <2> QED BY <2>2, <2>3, <2>4
<1> HIDE DEF K, S
<1> DEFINE N == IF printed - K < count THEN printed - K ELSE count
           A == CopyTicksFrom(ms, count)
<1>6. A = [n \in 1 .. N |-> K + n] /\ N \in Nat /\ K + N <= printed
  BY <1>1, <1>3, <1>4 DEF CopyTicksFrom
<1> HIDE DEF A, N
<1>7. \A n \in 1 .. N : K + n \in Prints
  BY <1>1, <1>3, <1>6
<1>8. A \in Seq(Prints) /\ Len(A) = N /\ \A n \in 1 .. N : A[n] = K + n
  BY <1>6, <1>7
<1>9. A = CopyTicksFrom(ms, count)
  BY DEF A
<1> QED BY <1>1, <1>3, <1>4, <1>5, <1>6, <1>8, <1>9

(* After n prints of the answer: the books hold of what went out so far, no *)
(* print met is stamped past the cursor, and of the cursor's millisecond no *)
(* more were seen than were met.                                            *)
RoundInv(p, n, from) ==
  /\ p \in Standing
  /\ Books(wire \o p.out, p.ms, p.sent, printed)
  /\ p.ms >= cursor.ms
  /\ \A i \in from + 1 .. from + n : Ms[i] <= p.ms
  /\ p.seen <= Met(from + 1, from + n, p.ms)

LEMMA ForwardKeeps ==
  ASSUME printed \in Prints, wire \in Seq(Prints), NEW from \in Nat, NEW n \in Nat, NEW p,
         from + n + 1 <= printed, cursor.ms \in Nat,
         \A i \in 1 .. from : Ms[i] < cursor.ms, RoundInv(p, n, from)
  PROVE RoundInv(Forward(p, from + n + 1), n + 1, from)
<1> DEFINE i == from + n + 1
           q == Forward(p, i)
           to == from + n
<1>1. /\ p \in Standing /\ i \in Prints /\ i \in 1 .. printed /\ Ms[i] \in Nat
      /\ p.ms \in Nat /\ p.seen \in Nat /\ p.sent \in Nat /\ p.out \in Seq(Prints)
      /\ printed \in Nat /\ 1 .. printed \subseteq Prints
  BY Stamps DEF RoundInv, Standing, Prints
<1>2. /\ q \in Standing
      /\ Ms[i] < p.ms => q = p
      /\ Ms[i] = p.ms /\ p.seen < p.sent => q = [p EXCEPT !.seen = p.seen + 1]
      /\ Ms[i] = p.ms /\ p.seen >= p.sent
           => q = [p EXCEPT !.seen = p.seen + 1, !.sent = p.sent + 1, !.out = Append(p.out, i)]
      /\ Ms[i] > p.ms
           => q = [ms |-> Ms[i], sent |-> 1, seen |-> 0, out |-> Append(p.out, i)]
  BY <1>1, ForwardIs
<1>3. /\ Books(wire \o p.out, p.ms, p.sent, printed) /\ p.ms >= cursor.ms
      /\ \A j \in from + 1 .. to : Ms[j] <= p.ms
      /\ p.seen <= Met(from + 1, to, p.ms)
  BY DEF RoundInv
<1>0. to \in Nat /\ i = to + 1 /\ from + 1 \in Nat /\ from + (n + 1) = to + 1 /\ from <= to
  OBVIOUS
<1>4. /\ to \in Nat /\ i = to + 1 /\ from + 1 \in Nat /\ from + (n + 1) = to + 1
      /\ from + 1 .. to + 1 = (from + 1 .. to) \cup {to + 1}
  <2> HIDE DEF to, i
  <2> QED BY <1>0
<1>5. \A x : /\ Met(from + 1, to, x) \in Nat
             /\ Met(from + 1, to + 1, x) = Met(from + 1, to, x) + (IF Ms[to + 1] = x THEN 1 ELSE 0)
  BY <1>4, MetNext
<1>6. wire \o Append(p.out, i) = Append(wire \o p.out, i)
  BY <1>1, AppendLast
<1>7. SUFFICES /\ Books(wire \o q.out, q.ms, q.sent, printed) /\ q.ms >= cursor.ms
               /\ \A j \in from + 1 .. to + 1 : Ms[j] <= q.ms
               /\ q.seen <= Met(from + 1, to + 1, q.ms)
  BY <1>2, <1>4 DEF RoundInv
<1> HIDE DEF i, q, to
<1>8. CASE Ms[i] < p.ms
  BY <1>1, <1>2, <1>3, <1>4, <1>5, <1>8
<1>9. CASE Ms[i] = p.ms /\ p.seen < p.sent
  <2>1. q.out = p.out /\ q.ms = p.ms /\ q.sent = p.sent /\ q.seen = p.seen + 1
    BY <1>1, <1>2, <1>9 DEF Standing
  <2>2. Met(from + 1, to + 1, p.ms) = Met(from + 1, to, p.ms) + 1
    BY <1>4, <1>5, <1>9
  <2>3. q.seen <= Met(from + 1, to + 1, q.ms)
    BY <1>1, <1>3, <1>5, <2>1, <2>2
  <2>4. \A j \in from + 1 .. to + 1 : Ms[j] <= q.ms
    BY <1>1, <1>3, <1>4, <1>9, <2>1
  <2> QED BY <1>3, <2>1, <2>3, <2>4
<1>10. CASE Ms[i] = p.ms /\ p.seen >= p.sent
  <2>1. q.out = Append(p.out, i) /\ q.ms = p.ms /\ q.sent = p.sent + 1 /\ q.seen = p.seen + 1
    BY <1>1, <1>2, <1>10 DEF Standing
  <2>2. Met(from + 1, to + 1, p.ms) = Met(from + 1, to, p.ms) + 1
    BY <1>4, <1>5, <1>10
  <2>3. q.seen <= Met(from + 1, to + 1, q.ms)
    BY <1>1, <1>3, <1>5, <2>1, <2>2
  <2>4. \A j \in from + 1 .. to + 1 : Ms[j] <= q.ms
    BY <1>1, <1>3, <1>4, <1>10, <2>1
  <2>5. p.sent + 1 <= Met(1, printed, p.ms)
    <3>1. to + 1 <= printed /\ to + 1 \in Nat
      BY <1>1, <1>4
    <3>2. /\ Met(from + 1, to + 1, p.ms) \in Nat /\ Met(1, printed, p.ms) \in Nat
          /\ Met(from + 1, to + 1, p.ms) <= Met(1, printed, p.ms)
      <4> DEFINE a == from + 1
                 b == to + 1
      <4>1. a \in Nat /\ b \in Nat /\ a >= 1 /\ b <= printed
        BY <1>4, <3>1
      <4> HIDE DEF a, b
      <4>2. /\ Met(a, b, p.ms) \in Nat /\ Met(1, printed, p.ms) \in Nat
            /\ Met(a, b, p.ms) <= Met(1, printed, p.ms)
        BY <1>1, <4>1, MetOfTheTape
      <4> QED BY <4>2 DEF a, b
    <3> QED BY <1>1, <1>3, <1>5, <1>10, <2>2, <3>2
  <2>6. Books(Append(wire \o p.out, i), p.ms, p.sent + 1, printed)
    BY <1>1, <1>3, <1>10, <2>5, SendSame
  <2> QED BY <1>3, <1>6, <2>1, <2>3, <2>4, <2>6
<1>11. CASE Ms[i] > p.ms
  <2>1. q.out = Append(p.out, i) /\ q.ms = Ms[i] /\ q.sent = 1 /\ q.seen = 0
    BY <1>2, <1>11
  <2>2. \A j \in 1 .. printed : Ms[j] > p.ms => i <= j
    <3> SUFFICES ASSUME NEW j \in 1 .. printed, Ms[j] > p.ms, ~(i <= j) PROVE FALSE
      OBVIOUS
    <3>1. j \in 1 .. from \/ j \in from + 1 .. to
      BY <1>1, <1>4
    <3>2. Ms[j] \in Nat
      BY <1>1, Stamps
    <3>3. CASE j \in 1 .. from
      <4>1. Ms[j] < cursor.ms
        BY <3>3
      <4> QED BY <1>1, <1>3, <3>2, <4>1
    <3>4. CASE j \in from + 1 .. to
      <4>1. Ms[j] <= p.ms
        BY <1>3, <3>4
      <4> QED BY <1>1, <3>2, <4>1
    <3> QED BY <3>1, <3>3, <3>4
  <2>3. Books(Append(wire \o p.out, i), Ms[i], 1, printed)
    BY <1>1, <1>3, <1>11, <2>2, SendNext
  <2>4. \A j \in from + 1 .. to + 1 : Ms[j] <= q.ms
    <3> SUFFICES ASSUME NEW j \in from + 1 .. to + 1 PROVE Ms[j] <= q.ms
      OBVIOUS
    <3>1. j \in Prints /\ j <= i
      BY <1>1, <1>4
    <3>2. Ms[j] <= Ms[i]
      BY <1>1, <3>1, Stamps
    <3> QED BY <2>1, <3>2
  <2>5. q.ms >= cursor.ms /\ q.seen <= Met(from + 1, to + 1, q.ms)
    <3>1. Met(from + 1, to + 1, q.ms) \in Nat
      BY <1>5
    <3> QED BY <1>1, <1>3, <1>11, <2>1, <3>1
  <2> QED BY <1>6, <2>1, <2>3, <2>4, <2>5
<1> QED BY <1>1, <1>8, <1>9, <1>10, <1>11

(* A walk keeps the books from the first print of the answer to the last.   *)
LEMMA RoundKeeps ==
  ASSUME printed \in Prints, NEW count \in Nat,
         Books(wire, cursor.ms, cursor.sent, printed)
  PROVE LET end == Forwarded(CopyTicksFrom(cursor.ms, count)) IN
        /\ end \in Standing
        /\ Books(wire \o end.out, end.ms, end.sent, printed)
<1> DEFINE from == Passed(cursor.ms)
           answer == CopyTicksFrom(cursor.ms, count)
           L == Len(answer)
<1>1. cursor.ms \in Nat /\ cursor.sent \in Nat /\ wire \in Seq(Prints)
  BY WireEnds DEF Books
<1>2. /\ from \in 0 .. printed /\ \A i \in 1 .. from : Ms[i] < cursor.ms
      /\ answer \in Seq(Prints) /\ from + L <= printed
      /\ \A n \in 1 .. L : answer[n] = from + n
  BY <1>1, AnswerIsARun
<1>3. from \in Nat /\ L \in Nat /\ printed \in Nat
  BY <1>2 DEF Prints
<1> HIDE DEF from, answer
<1>4. PICK at : Walks(at, answer)
  BY <1>2, WalkExists
<1>5. /\ at[0] = Start /\ Forwarded(answer) = at[L]
      /\ \A n \in 1 .. L : at[n] = Forward(at[n - 1], answer[n])
  BY <1>4 DEF Walks
<1> DEFINE G == {n \in 0 .. L : RoundInv(at[n], n, from)}
<1>6. 0 \in G
  <2>1. Start \in Standing
    BY <1>1 DEF Start, Standing
  <2>2. wire \o << >> = wire
    BY <1>1
  <2>3. Books(wire \o Start.out, Start.ms, Start.sent, printed)
    BY <2>2 DEF Start
  <2>4. Start.seen <= Met(from + 1, from + 0, Start.ms)
    <3>1. from + 1 \in Nat /\ from + 0 \in Nat /\ (from + 0) + 1 >= from + 1
      BY <1>3
    <3>2. Met(from + 1, from + 0, Start.ms) \in Nat
      BY <3>1, MetNext
    <3> QED BY <3>2 DEF Start
  <2>5. from + 1 .. from + 0 = {} /\ Start.ms = cursor.ms
    BY <1>3 DEF Start
  <2>6. RoundInv(Start, 0, from)
    BY <1>1, <2>1, <2>3, <2>4, <2>5 DEF RoundInv
  <2> QED BY <1>3, <1>5, <2>6
<1>7. \A n \in 1 .. L : n - 1 \in G => n \in G
  <2> SUFFICES ASSUME NEW n \in 1 .. L, n - 1 \in G PROVE n \in G
    OBVIOUS
  <2>1. RoundInv(at[n - 1], n - 1, from)
    OBVIOUS
  <2>2. n - 1 \in Nat /\ from + (n - 1) + 1 = from + n /\ (n - 1) + 1 = n /\ from + n <= printed
    BY <1>2, <1>3
  <2>3. RoundInv(Forward(at[n - 1], from + (n - 1) + 1), (n - 1) + 1, from)
    BY <1>1, <1>2, <1>3, <2>1, <2>2, ForwardKeeps
  <2>4. at[n] = Forward(at[n - 1], from + n)
    BY <1>2, <1>5
  <2>5. RoundInv(at[n], n, from)
    BY <2>2, <2>3, <2>4
  <2> QED BY <1>3, <2>5
<1>8. RoundInv(at[L], L, from)
  <2>1. \A n \in 0 .. L : n \in G
    <3> HIDE DEF G, L
    <3> QED BY <1>3, <1>6, <1>7, Upward
  <2>2. L \in G
    <3> HIDE DEF G, L
    <3> QED BY <1>3, <2>1
  <2> QED BY <2>2
<1> QED BY <1>5, <1>8 DEF RoundInv, answer

-----------------------------------------------------------------------------
(* The invariant. *)

PumpInv ==
  /\ printed \in Prints
  /\ Books(wire, cursor.ms, cursor.sent, printed)
  /\ cursor = [ms |-> cursor.ms, sent |-> cursor.sent]
  /\ pass \in [rounds : Nat, count : Nat]

(* The opening block is the tape so far, and leaves the cursor at its end.  *)
LEMMA PumpInitInv == PumpInit => PumpInv
<1> SUFFICES ASSUME PumpInit PROVE PumpInv
  OBVIOUS
<1> USE DEF PumpInit
<1>1. /\ printed \in Prints /\ printed \in Nat /\ printed >= 1 /\ 1 .. printed \subseteq Prints
      /\ wire = [i \in 1 .. printed |-> i]
  BY Stamps DEF Prints
<1>2. /\ wire \in Seq(Prints) /\ Len(wire) = printed /\ DOMAIN wire = 1 .. printed
      /\ \A n \in 1 .. printed : wire[n] = n
  BY <1>1
<1>3. \A x : On(wire, x) = Met(1, printed, x)
  <2> SUFFICES ASSUME NEW x PROVE On(wire, x) = Met(1, printed, x)
    OBVIOUS
  <2>1. {n \in DOMAIN wire : Ms[wire[n]] = x} = {i \in 1 .. printed : Ms[i] = x}
    BY <1>2
  <2> QED BY <2>1 DEF On, Met
<1>4. cursor.ms = Ms[printed] /\ cursor.sent = Met(1, printed, Ms[printed])
      /\ cursor = [ms |-> cursor.ms, sent |-> cursor.sent]
  BY DEF Met
<1>5. \A m, n \in 1 .. printed : m <= n => Ms[m] <= Ms[n]
  BY <1>1, Stamps
<1>6. \A n \in 1 .. printed : Met(1, printed, Ms[n]) \in Nat
  BY <1>1, MetOfTheTape
<1>7. pass \in [rounds : Nat, count : Nat]
  BY DEF NoPass
<1>8. Books(wire, cursor.ms, cursor.sent, printed)
  <2>1. wire[Len(wire)] = printed
    BY <1>1, <1>2
  <2>2. \A n \in DOMAIN wire : wire[n] <= printed
    BY <1>1, <1>2
  <2>3. \A m, n \in DOMAIN wire : m <= n => Ms[wire[m]] <= Ms[wire[n]]
    BY <1>2, <1>5
  <2>4. \A i \in 1 .. printed : On(wire, Ms[i]) <= Met(1, printed, Ms[i])
    BY <1>3, <1>6
  <2>5. \A i \in 1 .. printed : \E n \in DOMAIN wire : Ms[wire[n]] = Ms[i]
    BY <1>2
  <2>6. cursor.ms = Ms[wire[Len(wire)]] /\ cursor.sent = On(wire, cursor.ms)
    BY <1>3, <1>4, <2>1
  <2> QED BY <1>1, <1>2, <2>2, <2>3, <2>4, <2>5, <2>6 DEF Books
<1> QED BY <1>1, <1>4, <1>7, <1>8 DEF PumpInv

(* Every step keeps it: a round sends on, the venue prints, and a failed    *)
(* round leaves the cursor where it was.                                    *)
LEMMA PumpNextInv == PumpInv /\ [PumpNext]_pumpVars => PumpInv'
<1> SUFFICES ASSUME PumpInv, [PumpNext]_pumpVars PROVE PumpInv'
  OBVIOUS
<1>1. /\ printed \in Prints /\ Books(wire, cursor.ms, cursor.sent, printed)
      /\ cursor = [ms |-> cursor.ms, sent |-> cursor.sent]
      /\ pass \in [rounds : Nat, count : Nat]
  BY DEF PumpInv
<1>2. CASE BeginPass
  <2>1. printed' = printed /\ cursor' = cursor /\ wire' = wire
        /\ pass' \in [rounds : Nat, count : Nat]
    BY <1>2, PumpAssumption DEF BeginPass
  <2> QED BY <1>1, <2>1 DEF PumpInv
<1>3. CASE Round
  <2> DEFINE answer == CopyTicksFrom(cursor.ms, pass.count)
             end == Forwarded(answer)
  <2>1. /\ wire' = wire \o end.out /\ cursor' = [ms |-> end.ms, sent |-> end.sent]
        /\ pass' = IF PassEnds(answer, end.out) THEN NoPass
                   ELSE [rounds |-> pass.rounds + 1, count |-> Deeper(end.out)]
        /\ printed' = printed
    BY <1>3 DEF Round
  <2>2. pass.count \in Nat /\ pass.rounds \in Nat
    BY <1>1
  <2>3. end \in Standing /\ Books(wire \o end.out, end.ms, end.sent, printed)
    BY <1>1, <2>2, RoundKeeps
  <2> HIDE DEF answer, end
  <2>4. Deeper(end.out) \in Nat
    BY <2>2, PumpAssumption DEF Deeper
  <2>5. pass' \in [rounds : Nat, count : Nat]
    BY <2>1, <2>2, <2>4 DEF NoPass
  <2>6. cursor'.ms = end.ms /\ cursor'.sent = end.sent
        /\ cursor' = [ms |-> cursor'.ms, sent |-> cursor'.sent]
    BY <2>1
  <2>7. Books(wire', cursor'.ms, cursor'.sent, printed')
    BY <2>1, <2>3, <2>6
  <2>8. Books(wire, cursor.ms, cursor.sent, printed)'
    BY <2>7
  <2> QED BY <1>1, <2>1, <2>5, <2>6, <2>8 DEF PumpInv
<1>4. CASE RoundFails
  <2>1. printed' = printed /\ cursor' = cursor /\ wire' = wire
        /\ pass' \in [rounds : Nat, count : Nat]
    BY <1>4 DEF RoundFails, NoPass
  <2> QED BY <1>1, <2>1 DEF PumpInv
<1>5. CASE Trade
  <2>1. printed' = printed + 1 /\ cursor' = cursor /\ wire' = wire /\ pass' = pass
        /\ printed + 1 \in Prints
    BY <1>1, <1>5, Stamps DEF Trade, Prints
  <2>2. Books(wire, cursor.ms, cursor.sent, printed + 1)
    BY <1>1, <2>1, TapeGrows
  <2>3. Books(wire', cursor'.ms, cursor'.sent, printed')
    BY <2>1, <2>2
  <2> QED BY <1>1, <2>1, <2>3 DEF PumpInv
<1>6. CASE UNCHANGED pumpVars
  BY <1>1, <1>6 DEF PumpInv, pumpVars
<1> QED BY <1>2, <1>3, <1>4, <1>5, <1>6 DEF PumpNext

(* The books hold at every step of the pump.                                *)
THEOREM PumpInvariant == PumpSpec => []PumpInv
BY PumpInitInv, PumpNextInv, PTL DEF PumpSpec

(* "Exactly once" where a print can be told from the others (pump_ticks):   *)
(* the wire is in time order, never holds more prints of a millisecond than *)
(* the tape, and a print with its millisecond to itself is on it exactly    *)
(* once when the cursor has reached it, whatever the tape, the request      *)
(* sizes and the rounds.                                                    *)
THEOREM SoleTicksGoOnce == PumpSpec => []SoleTicksOnce
<1>1. PumpInv => SoleTicksOnce
  <2> SUFFICES ASSUME PumpInv PROVE SoleTicksOnce
    OBVIOUS
  <2>1. /\ printed \in Prints /\ printed \in Nat /\ Books(wire, cursor.ms, cursor.sent, printed)
        /\ cursor = [ms |-> cursor.ms, sent |-> cursor.sent] /\ 1 .. printed \subseteq Prints
    BY Stamps DEF PumpInv, Prints
  <2>2. wire \in Seq(Prints) /\ Len(wire) \in Nat /\ Len(wire) >= 1 /\ DOMAIN wire = 1 .. Len(wire)
    BY <2>1 DEF Books
  <2>3. \A n \in 2 .. Len(wire) : Ms[wire[n - 1]] <= Ms[wire[n]]
    <3> SUFFICES ASSUME NEW n \in 2 .. Len(wire) PROVE Ms[wire[n - 1]] <= Ms[wire[n]]
      OBVIOUS
    <3>1. n - 1 \in DOMAIN wire /\ n \in DOMAIN wire /\ n - 1 <= n
      BY <2>2
    <3> QED BY <2>1, <3>1 DEF Books
  <2>4. Last(wire) = wire[Len(wire)]
    BY DEF Last
  <2>5. \A x : Sent(x) = On(wire, x) /\ Held(x) = Met(1, printed, x)
    BY DEF Sent, Held, On, Met
  <2>6. cursor = [ms |-> Ms[Last(wire)], sent |-> Sent(Ms[Last(wire)])]
    BY <2>1, <2>4, <2>5 DEF Books
  <2>7. ASSUME NEW i \in 1 .. printed
        PROVE Sent(Ms[i]) <= Held(Ms[i])
              /\ (Held(Ms[i]) = 1 /\ Ms[i] <= cursor.ms => Sent(Ms[i]) = 1)
    <3>1. On(wire, Ms[i]) <= Met(1, printed, Ms[i])
      BY <2>1 DEF Books
    <3>2. On(wire, Ms[i]) \in Nat
          /\ (On(wire, Ms[i]) = 0 <=> \A n \in DOMAIN wire : Ms[wire[n]] # Ms[i])
      BY <2>2, OnNumber
    <3>3. Ms[i] <= cursor.ms => \E n \in DOMAIN wire : Ms[wire[n]] = Ms[i]
      BY <2>1 DEF Books
    <3>4. Ms[i] <= cursor.ms => On(wire, Ms[i]) # 0
      BY <3>2, <3>3
    <3> QED BY <2>5, <3>1, <3>2, <3>4
  <2> QED BY <2>3, <2>6, <2>7 DEF SoleTicksOnce
<1> QED BY <1>1, PumpInvariant, PTL

=============================================================================
