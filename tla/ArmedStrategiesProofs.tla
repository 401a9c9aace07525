------------------------ MODULE ArmedStrategiesProofs ------------------------
(***************************************************************************)
(* The paper simulator and the strategies armed on it, for any prices,     *)
(* orders, brackets, panes and drawings.                                   *)
(*                                                                         *)
(* A print is a fold of folds over one book: the position's pair, the      *)
(* legs, the queued actions, the resting entries, each of which may open,  *)
(* average, net, reverse or close a position and install or sweep a ladder *)
(* of legs.  The first part of the module gives a fold the path of books   *)
(* it goes through.  What every piece of a call keeps is its Account: the  *)
(* book is tidy, what was reported so far adds up to what is held, each    *)
(* entry that left has had its one word, exits came before entries, and    *)
(* a pair whose leg filled is spent.  SimInv is what calls begin with.     *)
(*                                                                         *)
(* The strategies' part follows each order a strategy placed.  ArmedInv    *)
(* says that an instance that fired has its order working, or the word     *)
(* that it is gone still to hear: in the events buffered since the last    *)
(* print while the account listens, or in the batch under evaluation while *)
(* its own delivery is on the agenda.                                      *)
(***************************************************************************)
EXTENDS ArmedStrategies, FiniteSetTheorems, SequenceTheorems, WellFoundedInduction, TLAPS

-----------------------------------------------------------------------------
(* Folds and the paths they take. *)
(* Numbers have a least one, in every set of them. *)
LEMMA LeastNumber ==
  ASSUME NEW T, T \subseteq Nat, T # {}
  PROVE \E x \in T : \A y \in T : x <= y
<1> DEFINE R == {ss \in Nat \X Nat : ss[1] < ss[2]}
<1>1. IsWellFoundedOn(R, Nat)
  BY NatLessThanWellFounded DEF OpToRel
<1> HIDE DEF R
<1>2. PICK x \in T : \A y \in T : ~(<<y, x>> \in R)
  BY <1>1, WFMin
<1>3. \A y \in T : ~(y < x)
  BY <1>2 DEF R
<1> QED BY <1>2, <1>3

(* What holds of 0 and is carried from each number to the next, up to a     *)
(* bound, holds up to the bound: G is the set of those it holds of.         *)
LEMMA Upward ==
  ASSUME NEW L \in Nat, NEW G, 0 \in G, \A n \in 1 .. L : n - 1 \in G => n \in G
  PROVE \A n \in 0 .. L : n \in G
<1> DEFINE Bad == {n \in 0 .. L : n \notin G}
<1>1. CASE Bad # {}
  <2>0. Bad \subseteq Nat
    OBVIOUS
  <2>1. PICK n \in Bad : \A i \in Bad : n <= i
    <3> HIDE DEF Bad
    <3> QED BY <1>1, <2>0, LeastNumber
  <2>2. n \in 1 .. L /\ n - 1 \in 0 .. L
    BY <2>1
  <2>3. n - 1 \in G
    BY <2>1, <2>2
  <2> QED BY <2>1, <2>2, <2>3
<1>2. CASE Bad = {}
  BY <1>2
<1> QED BY <1>1, <1>2

(* Max picks a member of any finite set of numbers. *)
LEMMA MaxPicks ==
  ASSUME NEW S, NEW n \in Nat, S \subseteq 0 .. n, S # {}
  PROVE Max(S) \in S
<1> DEFINE T == {n - x : x \in S}
<1>1. T \subseteq Nat /\ T # {}
  OBVIOUS
<1>2. PICK y \in T : \A z \in T : y <= z
  BY <1>1, LeastNumber
<1>3. PICK x \in S : y = n - x
  BY <1>2
<1>4. \A z \in S : z <= x
  BY <1>2, <1>3
<1>5. \E z \in S : \A w \in S : z >= w
  BY <1>4
<1> QED BY <1>5 DEF Max

(* The sizes of a finite set's parts, and of a part less one of its members. *)
LEMMA Sizes ==
  ASSUME NEW D, IsFiniteSet(D)
  PROVE /\ Cardinality(D) \in Nat
        /\ \A s \in SUBSET D :
             /\ Cardinality(s) \in 0 .. Cardinality(D)
             /\ Cardinality(s) = 0 <=> s = {}
             /\ \A x \in s : /\ s \ {x} \in SUBSET D
                             /\ Cardinality(s \ {x}) = Cardinality(s) - 1
<1>1. Cardinality(D) \in Nat
  BY FS_CardinalityType
<1>2. ASSUME NEW s \in SUBSET D
      PROVE /\ Cardinality(s) \in 0 .. Cardinality(D)
            /\ Cardinality(s) = 0 <=> s = {}
            /\ \A x \in s : /\ s \ {x} \in SUBSET D
                            /\ Cardinality(s \ {x}) = Cardinality(s) - 1
  <2>1. IsFiniteSet(s) /\ Cardinality(s) <= Cardinality(D)
    BY FS_Subset
  <2>2. Cardinality(s) \in Nat /\ (Cardinality(s) = 0 <=> s = {})
    BY <2>1, FS_CardinalityType, FS_EmptySet
  <2>3. \A x \in s : Cardinality(s \ {x}) = Cardinality(s) - 1
    BY <2>1, FS_RemoveElement
  <2> QED BY <1>1, <2>1, <2>2, <2>3
<1> QED BY <1>1, <1>2

(* The greatest of the first n numbers, and what is left without it. *)
LEMMA MaxOfUpto ==
  ASSUME NEW n \in Nat, n # 0
  PROVE Max(1 .. n) = n /\ (1 .. n) \ {n} = 1 .. (n - 1)
<1>1. \E x \in 1 .. n : \A y \in 1 .. n : x >= y
  OBVIOUS
<1>2. Max(1 .. n) \in 1 .. n /\ \A y \in 1 .. n : Max(1 .. n) >= y
  BY <1>1 DEF Max
<1>3. Max(1 .. n) = n
  <2> DEFINE m == Max(1 .. n)
  <2>1. m \in 1 .. n /\ m >= n
    BY <1>2
  <2> HIDE DEF m
  <2>2. m = n
    BY <2>1
  <2> QED BY <2>2 DEF m
<1> QED BY <1>3

(* The parts of an initial run of numbers: finite, with a greatest member. *)
LEMMA PartsOfUpto ==
  ASSUME NEW L \in Nat
  PROVE /\ IsFiniteSet(1 .. L)
        /\ \A s \in SUBSET (1 .. L) : s # {} => Max(s) \in s
<1>1. IsFiniteSet(1 .. L)
  BY FS_Interval
<1>2. ASSUME NEW s \in SUBSET (1 .. L), s # {} PROVE Max(s) \in s
  <2>1. s \subseteq 0 .. L
    OBVIOUS
  <2> QED BY <1>2, <2>1, MaxPicks
<1> QED BY <1>1, <1>2

(* A fold over the places of a sequence, whose step takes a member of X at  *)
(* each place to one of X: the function it is defined by exists.            *)
Folding(L, X, b, step) ==
  {f \in [SUBSET (1 .. L) -> X] :
     \A s \in SUBSET (1 .. L) :
       f[s] = IF s = {} THEN b ELSE step[Max(s)][f[s \ {Max(s)}]]}

(* There is one for every length, by counting up the parts of the list.     *)
LEMMA FoldingExists ==
  ASSUME NEW L \in Nat, NEW X, NEW b \in X, NEW step \in [1 .. L -> [X -> X]]
  PROVE Folding(L, X, b, step) # {}
<1> DEFINE D == 1 .. L
           Upto(n, g) == \A s \in SUBSET D : Cardinality(s) <= n =>
                           g[s] = IF s = {} THEN b ELSE step[Max(s)][g[s \ {Max(s)}]]
           G == {n \in 0 .. L : \E g \in [SUBSET D -> X] : Upto(n, g)}
<1>1. \A s \in SUBSET D : s # {} => Max(s) \in s
  BY PartsOfUpto
<1>2. Cardinality(D) = L
  BY FS_Interval
<1>3. \A s \in SUBSET D :
        /\ Cardinality(s) \in 0 .. L /\ (Cardinality(s) = 0 <=> s = {})
        /\ s # {} => /\ s \ {Max(s)} \in SUBSET D
                     /\ Cardinality(s \ {Max(s)}) = Cardinality(s) - 1
  <2> SUFFICES ASSUME NEW s \in SUBSET D
               PROVE /\ Cardinality(s) \in 0 .. L /\ (Cardinality(s) = 0 <=> s = {})
                     /\ s # {} => /\ s \ {Max(s)} \in SUBSET D
                                  /\ Cardinality(s \ {Max(s)}) = Cardinality(s) - 1
    OBVIOUS
  <2>1. /\ Cardinality(s) \in 0 .. Cardinality(D) /\ (Cardinality(s) = 0 <=> s = {})
        /\ \A x \in s : /\ s \ {x} \in SUBSET D
                        /\ Cardinality(s \ {x}) = Cardinality(s) - 1
    <3>1. IsFiniteSet(D)
      BY PartsOfUpto
    <3> HIDE DEF D
    <3> QED BY <3>1, Sizes
  <2>2. s # {} => Max(s) \in s
    BY <1>1
  <2> HIDE DEF D
  <2> QED BY <1>2, <2>1, <2>2
<1>p. \A s \in SUBSET D : Cardinality(s) <= L /\ (Cardinality(s) <= 0 => s = {})
  <2> HIDE DEF D
  <2> SUFFICES ASSUME NEW s \in SUBSET D
               PROVE Cardinality(s) <= L /\ (Cardinality(s) <= 0 => s = {})
    OBVIOUS
  <2>1. Cardinality(s) \in 0 .. L /\ (Cardinality(s) = 0 <=> s = {})
    BY <1>3
  <2> QED BY <2>1
<1>s. \A s \in SUBSET D : s # {} => Max(s) \in 1 .. L
  BY <1>1
<1> HIDE DEF D
<1>4. 0 \in G
  <2> DEFINE g == [s \in SUBSET D |-> b]
  <2>1. g \in [SUBSET D -> X]
    OBVIOUS
  <2>2. Upto(0, g)
    BY <1>p
  <2> HIDE DEF g, Upto
  <2> QED BY <2>1, <2>2
<1>5. \A n \in 1 .. L : n - 1 \in G => n \in G
  <2> SUFFICES ASSUME NEW n \in 1 .. L, n - 1 \in G PROVE n \in G
    OBVIOUS
  <2>1. PICK g \in [SUBSET D -> X] : Upto(n - 1, g)
    OBVIOUS
  <2> DEFINE h == [s \in SUBSET D |-> IF s = {} THEN b ELSE step[Max(s)][g[s \ {Max(s)}]]]
  <2>2. h \in [SUBSET D -> X]
    <3>1. ASSUME NEW s \in SUBSET D, s # {} PROVE step[Max(s)][g[s \ {Max(s)}]] \in X
      <4>1. s \ {Max(s)} \in SUBSET D /\ Max(s) \in 1 .. L
        BY <1>3, <1>s, <3>1
      <4> QED BY <4>1
    <3> QED BY <3>1
  <2>3. \A s \in SUBSET D : Cardinality(s) <= n - 1 => h[s] = g[s]
    BY <2>1
  <2>4. Upto(n, h)
    <3> SUFFICES ASSUME NEW s \in SUBSET D, Cardinality(s) <= n
                 PROVE h[s] = IF s = {} THEN b ELSE step[Max(s)][h[s \ {Max(s)}]]
      OBVIOUS
    <3>1. CASE s = {}
      BY <3>1
    <3>2. CASE s # {}
      <4> DEFINE r == s \ {Max(s)}
      <4>1. r \in SUBSET D /\ Cardinality(r) = Cardinality(s) - 1 /\ Cardinality(s) \in 0 .. L
        BY <1>3, <3>2
      <4>2. h[s] = step[Max(s)][g[r]]
        BY <3>2
      <4> HIDE DEF r, h
      <4>3. h[r] = g[r]
        BY <2>3, <4>1
      <4> QED BY <3>2, <4>2, <4>3 DEF r
    <3> QED BY <3>1, <3>2
  <2> HIDE DEF h, Upto
  <2> QED BY <2>2, <2>4
<1>6. L \in G
  <2> HIDE DEF G
  <2>1. \A n \in 0 .. L : n \in G
    BY <1>4, <1>5, Upward
  <2> QED BY <2>1
<1>7. PICK g \in [SUBSET D -> X] : Upto(L, g)
  BY <1>6
<1>8. \A s \in SUBSET D : g[s] = IF s = {} THEN b ELSE step[Max(s)][g[s \ {Max(s)}]]
  BY <1>p, <1>7
<1> QED BY <1>8 DEF Folding, D

(* The way such a fold takes, one place of the sequence after another.      *)
Paths(L, X, b, step) ==
  {t \in [0 .. L -> X] : t[0] = b /\ \A n \in 1 .. L : t[n] = step[n][t[n - 1]]}

(* What steps like such a fold, as long as it stays within X.               *)
FoldsLike(g, L, X, b, step) ==
  /\ g[{}] = b
  /\ \A s \in SUBSET (1 .. L) :
       s # {} /\ g[s \ {Max(s)}] \in X => g[s] = step[Max(s)][g[s \ {Max(s)}]]

(* The path ends where the function ends that the fold is defined by.       *)
LEMMA FoldingPath ==
  ASSUME NEW L \in Nat, NEW X, NEW b \in X, NEW step \in [1 .. L -> [X -> X]],
         NEW g, FoldsLike(g, L, X, b, step)
  PROVE \E t \in Paths(L, X, b, step) : t[L] = g[1 .. L]
<1> DEFINE t == [n \in 0 .. L |-> g[1 .. n]]
           G == {n \in 0 .. L : t[n] \in X}
<1>1. t[0] = b
  <2>1. 1 .. 0 = {} /\ g[{}] = b
    BY DEF FoldsLike
  <2> QED BY <2>1
<1>2. ASSUME NEW n \in 1 .. L, t[n - 1] \in X PROVE t[n] = step[n][t[n - 1]]
  <2>1. Max(1 .. n) = n /\ (1 .. n) \ {n} = 1 .. (n - 1)
    BY MaxOfUpto
  <2>i. n \in 0 .. L /\ n - 1 \in 0 .. L
    OBVIOUS
  <2>2. 1 .. n \in SUBSET (1 .. L) /\ 1 .. n # {}
    <3>1. n \in 1 .. n
      OBVIOUS
    <3>2. \A m \in 1 .. n : m \in 1 .. L
      OBVIOUS
    <3> QED BY <3>1, <3>2
  <2>3. t[n] = g[1 .. n] /\ t[n - 1] = g[1 .. (n - 1)]
    <3>1. \A m \in 0 .. L : t[m] = g[1 .. m]
      OBVIOUS
    <3> HIDE DEF t
    <3> QED BY <2>i, <3>1
  <2> DEFINE s == 1 .. n
  <2>4. s # {} /\ g[s \ {Max(s)}] \in X => g[s] = step[Max(s)][g[s \ {Max(s)}]]
    BY <2>2 DEF FoldsLike
  <2>5. Max(s) = n /\ g[s \ {Max(s)}] = t[n - 1] /\ g[s] = t[n] /\ s # {}
    BY <2>1, <2>2, <2>3
  <2> HIDE DEF t, s
  <2> QED BY <1>2, <2>4, <2>5
<1>3. 0 \in G
  BY <1>1
<1>4. \A n \in 1 .. L : n - 1 \in G => n \in G
  <2> SUFFICES ASSUME NEW n \in 1 .. L, n - 1 \in G PROVE n \in G
    OBVIOUS
  <2> HIDE DEF t
  <2>1. t[n] = step[n][t[n - 1]] /\ t[n - 1] \in X
    BY <1>2
  <2> QED BY <2>1
<1>5. \A n \in 0 .. L : t[n] \in X
  <2>1. \A n \in 0 .. L : n \in G
    <3> HIDE DEF G
    <3> QED BY <1>3, <1>4, Upward
  <2> QED BY <2>1
<1>6. t[L] = g[1 .. L]
  OBVIOUS
<1>7. t \in [0 .. L -> X]
  BY <1>5
<1> HIDE DEF t
<1>8. \A n \in 1 .. L : t[n] = step[n][t[n - 1]]
  BY <1>2, <1>5
<1> QED BY <1>1, <1>6, <1>7, <1>8 DEF Paths

(* A path exists.                                                           *)
LEMMA PathExists ==
  ASSUME NEW L \in Nat, NEW X, NEW b \in X, NEW step \in [1 .. L -> [X -> X]]
  PROVE Paths(L, X, b, step) # {}
<1>1. PICK f \in Folding(L, X, b, step) : TRUE
  BY FoldingExists
<1>2. f[{}] = b /\ \A s \in SUBSET (1 .. L) : s # {} => f[s] = step[Max(s)][f[s \ {Max(s)}]]
  BY <1>1 DEF Folding
<1>3. FoldsLike(f, L, X, b, step)
  BY <1>2 DEF FoldsLike
<1>4. \E t \in Paths(L, X, b, step) : t[L] = f[1 .. L]
  BY <1>3, FoldingPath
<1> QED BY <1>4

(* What steps like a path, as long as it stays within X.                    *)
StepsLike(g, L, X, b, step) ==
  g[0] = b /\ \A n \in 1 .. L : g[n - 1] \in X => g[n] = step[n][g[n - 1]]

(* It is a path.                                                            *)
LEMMA PathOf ==
  ASSUME NEW L \in Nat, NEW X, NEW b \in X, NEW step \in [1 .. L -> [X -> X]],
         NEW g, StepsLike(g, L, X, b, step)
  PROVE \E t \in Paths(L, X, b, step) : \A n \in 0 .. L : t[n] = g[n]
<1> DEFINE t == [n \in 0 .. L |-> g[n]]
           G == {n \in 0 .. L : t[n] \in X}
<1>s. g[0] = b /\ \A n \in 1 .. L : g[n - 1] \in X => g[n] = step[n][g[n - 1]]
  BY DEF StepsLike
<1>1. 0 \in G
  BY <1>s
<1>2. \A n \in 1 .. L : n - 1 \in G => n \in G
  <2> SUFFICES ASSUME NEW n \in 1 .. L, n - 1 \in G PROVE n \in G
    OBVIOUS
  <2>1. g[n - 1] \in X
    OBVIOUS
  <2>2. g[n] = step[n][g[n - 1]]
    BY <1>s, <2>1
  <2> QED BY <2>1, <2>2
<1>3. \A n \in 0 .. L : n \in G
  <2> HIDE DEF G
  <2> QED BY <1>1, <1>2, Upward
<1>4. t \in [0 .. L -> X]
  BY <1>3
<1>5. \A n \in 1 .. L : t[n] = step[n][t[n - 1]]
  <2> SUFFICES ASSUME NEW n \in 1 .. L PROVE t[n] = step[n][t[n - 1]]
    OBVIOUS
  <2>1. n - 1 \in 0 .. L
    OBVIOUS
  <2>2. g[n - 1] \in X
    BY <1>4, <2>1
  <2> QED BY <1>s, <2>1, <2>2
<1>6. t[0] = b /\ \A n \in 0 .. L : t[n] = g[n]
  BY <1>s
<1> HIDE DEF t
<1> QED BY <1>4, <1>5, <1>6 DEF Paths

(* What a path carries from place to place: G is a set of states of it.     *)
LEMMA AlongPath ==
  ASSUME NEW L \in Nat, NEW X, NEW b, NEW step, NEW t \in Paths(L, X, b, step),
         NEW P, <<0, b>> \in P,
         \A n \in 1 .. L : \A x \in X : <<n - 1, x>> \in P => <<n, step[n][x]>> \in P
  PROVE \A n \in 0 .. L : t[n] \in X /\ <<n, t[n]>> \in P
<1> DEFINE G == {n \in 0 .. L : <<n, t[n]>> \in P}
<1>1. t \in [0 .. L -> X] /\ t[0] = b /\ \A n \in 1 .. L : t[n] = step[n][t[n - 1]]
  BY DEF Paths
<1>2. 0 \in G
  BY <1>1
<1>3. \A n \in 1 .. L : n - 1 \in G => n \in G
  <2> SUFFICES ASSUME NEW n \in 1 .. L, n - 1 \in G PROVE n \in G
    OBVIOUS
  <2>1. n - 1 \in 0 .. L /\ t[n - 1] \in X /\ <<n - 1, t[n - 1]>> \in P
    BY <1>1
  <2>2. <<n, step[n][t[n - 1]]>> \in P
    BY <2>1
  <2> QED BY <1>1, <2>2
<1>4. \A n \in 0 .. L : n \in G
  <2> HIDE DEF G
  <2> QED BY <1>2, <1>3, Upward
<1> QED BY <1>1, <1>4

-----------------------------------------------------------------------------
(* Filters. *)

(* Retained keeps the members at the kept places, each once and in order.   *)
Picks(at, r, s, kept) ==
  /\ at \in [1 .. Len(r) -> kept \cap (1 .. Len(s))]
  /\ \A j \in 1 .. Len(r) : r[j] = s[at[j]]
  /\ \A i, j \in 1 .. Len(r) : i < j => at[i] < at[j]
  /\ \A k \in kept \cap (1 .. Len(s)) : \E j \in 1 .. Len(r) : at[j] = k

(* Of any list, Retained picks the members in their order.                  *)
LEMMA RetainedPicks ==
  ASSUME NEW S, NEW s \in Seq(S), NEW kept
  PROVE /\ Retained(s, kept) \in Seq(S)
        /\ \E at : Picks(at, Retained(s, kept), s, kept)
<1> DEFINE L == Len(s)
           step == [n \in 1 .. L |-> [r \in Seq(S) |-> IF n \in kept THEN Append(r, s[n]) ELSE r]]
           body(g) == [k \in 0 .. L |-> IF k = 0 THEN <<>>
                         ELSE IF k \in kept THEN Append(g[k - 1], s[k]) ELSE g[k - 1]]
           upto == CHOOSE g : g = body(g)
           Good(n, r) == \E at : /\ at \in [1 .. Len(r) -> kept \cap (1 .. n)]
                                 /\ \A j \in 1 .. Len(r) : r[j] = s[at[j]]
                                 /\ \A i, j \in 1 .. Len(r) : i < j => at[i] < at[j]
                                 /\ \A k \in kept \cap (1 .. n) : \E j \in 1 .. Len(r) : at[j] = k
           P == {p \in (0 .. L) \X Seq(S) : Good(p[1], p[2])}
<1>1. L \in Nat /\ \A n \in 1 .. L : s[n] \in S
  OBVIOUS
<1>2. Retained(s, kept) = upto[L]
  BY DEF Retained
<1>3. step \in [1 .. L -> [Seq(S) -> Seq(S)]]
  BY <1>1
<1>4. <<>> \in Seq(S)
  OBVIOUS
<1> HIDE DEF L
<1>5. \A n \in 1 .. L : \A r \in Seq(S) : step[n][r] = IF n \in kept THEN Append(r, s[n]) ELSE r
  OBVIOUS
<1>6. \E g : g = body(g)
  <2>1. PICK t \in Paths(L, Seq(S), <<>>, step) : TRUE
    <3> HIDE DEF step
    <3> QED BY <1>1, <1>3, <1>4, PathExists
  <2>2. t \in [0 .. L -> Seq(S)] /\ t[0] = <<>> /\ \A n \in 1 .. L : t[n] = step[n][t[n - 1]]
    BY <2>1 DEF Paths
  <2> HIDE DEF step
  <2>3. \A k \in 0 .. L : k # 0 => k \in 1 .. L /\ k - 1 \in 0 .. L
    BY <1>1
  <2>4. \A k \in 0 .. L : k # 0 =>
          t[k] = IF k \in kept THEN Append(t[k - 1], s[k]) ELSE t[k - 1]
    <3>1. ASSUME NEW k \in 0 .. L, k # 0
          PROVE k \in 1 .. L /\ t[k] = step[k][t[k - 1]] /\ t[k - 1] \in Seq(S)
      BY <2>2, <2>3, <3>1
    <3> QED BY <1>5, <3>1
  <2>5. t = body(t)
    BY <2>2, <2>4
  <2> QED BY <2>5
<1>7. upto = body(upto)
  BY <1>6
<1>8. upto[0] = <<>> /\ \A n \in 1 .. L : upto[n - 1] \in Seq(S) => upto[n] = step[n][upto[n - 1]]
  <2> HIDE DEF upto, step
  <2>1. \A k \in 0 .. L : upto[k] = body(upto)[k]
    BY <1>7
  <2>2. \A n \in 1 .. L : n \in 0 .. L /\ n # 0
    BY <1>1
  <2>3. 0 \in 0 .. L
    BY <1>1
  <2> QED BY <1>5, <2>1, <2>2, <2>3
<1> HIDE DEF upto, body, Good
<1>9. PICK t \in Paths(L, Seq(S), <<>>, step) : \A n \in 0 .. L : t[n] = upto[n]
  <2> HIDE DEF step
  <2>1. StepsLike(upto, L, Seq(S), <<>>, step)
    BY <1>8 DEF StepsLike
  <2>2. \E t \in Paths(L, Seq(S), <<>>, step) : \A n \in 0 .. L : t[n] = upto[n]
    <3> DEFINE X == Seq(S)
               b == <<>>
    <3>1. L \in Nat /\ b \in X /\ step \in [1 .. L -> [X -> X]] /\ StepsLike(upto, L, X, b, step)
      BY <1>1, <1>3, <1>4, <2>1
    <3> HIDE DEF X, b
    <3>2. \E t \in Paths(L, X, b, step) : \A n \in 0 .. L : t[n] = upto[n]
      BY <3>1, PathOf
    <3> QED BY <3>2 DEF X, b
  <2> QED BY <2>2
<1>10. <<0, <<>> >> \in P
  <2>1. Good(0, <<>>)
    <3> DEFINE at == [j \in 1 .. 0 |-> 0]
               r == <<>>
    <3>1. at \in [1 .. 0 -> kept \cap (1 .. 0)] /\ Len(r) = 0
      OBVIOUS
    <3> HIDE DEF at, r
    <3>2. 1 .. Len(r) = {} /\ kept \cap (1 .. 0) = {} /\ 1 .. Len(r) = 1 .. 0
      BY <3>1
    <3>3. Good(0, r)
      BY <3>1, <3>2 DEF Good
    <3> QED BY <3>3 DEF r
  <2>2. 0 \in 0 .. L
    BY <1>1
  <2> QED BY <1>4, <2>1, <2>2
<1>11. ASSUME NEW n \in 1 .. L, NEW r \in Seq(S), <<n - 1, r>> \in P
       PROVE <<n, step[n][r]>> \in P
  <2>1. Good(n - 1, r)
    BY <1>11
  <2>2. PICK at : /\ at \in [1 .. Len(r) -> kept \cap (1 .. n - 1)]
                  /\ \A j \in 1 .. Len(r) : r[j] = s[at[j]]
                  /\ \A i, j \in 1 .. Len(r) : i < j => at[i] < at[j]
                  /\ \A k \in kept \cap (1 .. n - 1) : \E j \in 1 .. Len(r) : at[j] = k
    BY <2>1 DEF Good
  <2>3. n \in 0 .. L /\ s[n] \in S /\ n \in Nat /\ Len(r) \in Nat
    BY <1>1
  <2>4. CASE n \in kept
    <3> DEFINE q == Append(r, s[n])
               bt == [j \in 1 .. Len(r) + 1 |-> IF j = Len(r) + 1 THEN n ELSE at[j]]
    <3>1. /\ q \in Seq(S) /\ Len(q) = Len(r) + 1 /\ q[Len(r) + 1] = s[n]
          /\ \A j \in 1 .. Len(r) : q[j] = r[j]
      BY <2>3
    <3>2. bt \in [1 .. Len(r) + 1 -> kept \cap (1 .. n)]
      BY <2>2, <2>3, <2>4
    <3>3. bt[Len(r) + 1] = n /\ \A j \in 1 .. Len(r) : bt[j] = at[j]
      BY <2>3
    <3> HIDE DEF q, bt
    <3>4. \A j \in 1 .. Len(q) : q[j] = s[bt[j]]
      BY <2>2, <2>3, <3>1, <3>3
    <3>5. \A j \in 1 .. Len(r) : at[j] < n
      BY <2>2, <2>3
    <3>6. \A i, j \in 1 .. Len(q) : i < j => bt[i] < bt[j]
      <4> SUFFICES ASSUME NEW i \in 1 .. Len(q), NEW j \in 1 .. Len(q), i < j
                   PROVE bt[i] < bt[j]
        OBVIOUS
      <4>1. i \in 1 .. Len(r)
        BY <2>3, <3>1
      <4>2. CASE j = Len(r) + 1
        BY <3>3, <3>5, <4>1, <4>2
      <4>3. CASE j # Len(r) + 1
        <5>1. j \in 1 .. Len(r)
          BY <2>3, <3>1, <4>3
        <5> QED BY <2>2, <3>3, <4>1, <5>1
      <4> QED BY <4>2, <4>3
    <3>7. \A k \in kept \cap (1 .. n) : \E j \in 1 .. Len(q) : bt[j] = k
      <4> SUFFICES ASSUME NEW k \in kept \cap (1 .. n) PROVE \E j \in 1 .. Len(q) : bt[j] = k
        OBVIOUS
      <4>1. CASE k = n
        BY <2>3, <3>1, <3>3, <4>1
      <4>2. CASE k # n
        <5>1. k \in kept \cap (1 .. n - 1)
          BY <2>3, <4>2
        <5>2. PICK j \in 1 .. Len(r) : at[j] = k
          BY <2>2, <5>1
        <5> QED BY <2>3, <3>1, <3>3, <5>2
      <4> QED BY <4>1, <4>2
    <3>8. Good(n, q)
      BY <3>1, <3>2, <3>4, <3>6, <3>7 DEF Good
    <3> QED BY <1>5, <2>3, <2>4, <3>1, <3>8 DEF q
  <2>5. CASE n \notin kept
    <3>1. kept \cap (1 .. n) = kept \cap (1 .. n - 1)
      BY <2>3, <2>5
    <3>2. Good(n, r)
      BY <2>2, <3>1 DEF Good
    <3> QED BY <1>5, <2>3, <2>5, <3>2
  <2> QED BY <2>4, <2>5
<1>12. \A n \in 0 .. L : t[n] \in Seq(S) /\ <<n, t[n]>> \in P
  <2> HIDE DEF P, step
  <2> QED BY <1>1, <1>9, <1>10, <1>11, AlongPath
<1>13. upto[L] \in Seq(S) /\ Good(L, upto[L])
  <2>1. L \in 0 .. L
    BY <1>1
  <2>2. t[L] = upto[L] /\ t[L] \in Seq(S) /\ <<L, t[L]>> \in P
    BY <1>9, <1>12, <2>1
  <2> QED BY <2>2
<1> QED BY <1>2, <1>13 DEF Good, Picks, L

(* The same, of steps that carry P from each place to the next.             *)
Carries(P, L, X, step) ==
  \A n \in 1 .. L : \A x \in X : <<n - 1, x>> \in P => <<n, step[n][x]>> \in P

(* What each step carries on holds all along the path.                      *)
LEMMA AlongCarries ==
  ASSUME NEW L \in Nat, NEW X, NEW b, NEW step, NEW t \in Paths(L, X, b, step),
         NEW P, <<0, b>> \in P, Carries(P, L, X, step)
  PROVE \A n \in 0 .. L : t[n] \in X /\ <<n, t[n]>> \in P
<1> DEFINE G == {n \in 0 .. L : <<n, t[n]>> \in P}
<1>1. t \in [0 .. L -> X] /\ t[0] = b /\ \A n \in 1 .. L : t[n] = step[n][t[n - 1]]
  BY DEF Paths
<1>c. \A n \in 1 .. L : \A x \in X : <<n - 1, x>> \in P => <<n, step[n][x]>> \in P
  BY DEF Carries
<1>2. 0 \in G
  BY <1>1
<1>3. \A n \in 1 .. L : n - 1 \in G => n \in G
  <2> SUFFICES ASSUME NEW n \in 1 .. L, n - 1 \in G PROVE n \in G
    OBVIOUS
  <2>1. n - 1 \in 0 .. L /\ t[n - 1] \in X /\ <<n - 1, t[n - 1]>> \in P
    BY <1>1
  <2>2. <<n, step[n][t[n - 1]]>> \in P
    BY <1>c, <2>1
  <2> QED BY <1>1, <2>2
<1>4. \A n \in 0 .. L : n \in G
  <2> HIDE DEF G
  <2> QED BY <1>2, <1>3, Upward
<1> QED BY <1>1, <1>4

-----------------------------------------------------------------------------
(* What the simulator's state is made of. *)

Words == {"Filled", "Placed", "Cancelled", "PriceTouched", "AccountOccupied",
          "BracketDropped", "Rejected"}
Roles == {"Entry", "TakeProfit", "StopLoss", "Close", "Reset"}

Orders == [id : Nat, side : Sides, role : {"Entry", "TakeProfit", "StopLoss"},
           kind : {"Market", "Limit", "Stop"}, price : Levels, qty : Nat \ {0},
           bracket : Seq(Parts), cancel : Levels, flat : BOOLEAN, oco : Nat]
Happenings == [what : Words, role : Roles, side : Sides, qty : Nat, id : Nat, oco : Nat]
Positions  == [side : Sides, qty : Nat \ {0}, stop : Levels, target : Levels] \cup {Flat}
Books == [position : Positions, resting : Seq(Orders), kept : Seq(Orders), placed : Nat,
          touched : Nat, ids : Nat, ocos : Nat, events : Seq(Happenings)]
Actions == [action : {"Entry"}, order : Orders] \cup [action : {"Close"}]
             \cup [action : {"ClosePartial"}, qty : Nat \ {0}]

(* The numbers a level may be. *)
LEMMA LevelsAreNat == Levels \subseteq Nat /\ Unset \in Levels /\ Unset = 0
BY SimulatorAssumption DEF Levels, Unset

(* An open position has a quantity, and only it. *)
LEMMA PositionIs ==
  ASSUME NEW p \in Positions
  PROVE /\ p.side \in Sides /\ p.qty \in Nat /\ p.stop \in Levels /\ p.target \in Levels
        /\ p = Flat <=> p.qty = 0
        /\ p # Flat => p \in [side : Sides, qty : Nat \ {0}, stop : Levels, target : Levels]
BY LevelsAreNat DEF Positions, Flat, Sides

(* The members of a sequence longer by one, and of two sequences in a row.  *)
LEMMA Appended ==
  ASSUME NEW S, NEW s \in Seq(S), NEW x \in S
  PROVE /\ Append(s, x) \in Seq(S) /\ Len(Append(s, x)) = Len(s) + 1
        /\ Append(s, x)[Len(s) + 1] = x
        /\ \A i \in 1 .. Len(s) : Append(s, x)[i] = s[i]
        /\ DOMAIN Append(s, x) = 1 .. Len(s) + 1 /\ DOMAIN s = 1 .. Len(s) /\ Len(s) \in Nat
OBVIOUS

(* And of two sequences in a row.                                           *)
LEMMA Joined ==
  ASSUME NEW S, NEW s \in Seq(S), NEW r \in Seq(S)
  PROVE /\ s \o r \in Seq(S) /\ Len(s \o r) = Len(s) + Len(r)
        /\ \A i \in 1 .. Len(s) : (s \o r)[i] = s[i]
        /\ \A i \in 1 .. Len(r) : (s \o r)[Len(s) + i] = r[i]
        /\ DOMAIN (s \o r) = 1 .. Len(s) + Len(r)
        /\ DOMAIN s = 1 .. Len(s) /\ DOMAIN r = 1 .. Len(r) /\ Len(s) \in Nat /\ Len(r) \in Nat
<1>1. s \o r \in Seq(S) /\ Len(s \o r) = Len(s) + Len(r)
  OBVIOUS
<1>2. \A i \in 1 .. Len(s) : (s \o r)[i] = s[i]
  OBVIOUS
<1>3. \A i \in 1 .. Len(r) : (s \o r)[Len(s) + i] = r[i]
  OBVIOUS
<1>4. /\ DOMAIN s = 1 .. Len(s) /\ DOMAIN r = 1 .. Len(r) /\ Len(s) \in Nat /\ Len(r) \in Nat
      /\ DOMAIN (s \o r) = 1 .. Len(s \o r)
  BY <1>1
<1> QED BY <1>1, <1>2, <1>3, <1>4

(* What is left of a sequence without its i-th member.                      *)
LEMMA WithoutIs ==
  ASSUME NEW S, NEW s \in Seq(S), NEW i \in 1 .. Len(s)
  PROVE /\ RemoveAt(s, i) \in Seq(S) /\ Len(RemoveAt(s, i)) = Len(s) - 1
        /\ \A j \in 1 .. Len(s) - 1 : RemoveAt(s, i)[j] = s[IF j < i THEN j ELSE j + 1]
        /\ DOMAIN RemoveAt(s, i) = 1 .. Len(s) - 1 /\ DOMAIN s = 1 .. Len(s) /\ Len(s) \in Nat
<1> DEFINE n == Len(s)
           a == SubSeq(s, 1, i - 1)
           b == SubSeq(s, i + 1, n)
<1>1. n \in Nat /\ i \in 1 .. n /\ DOMAIN s = 1 .. n /\ \A j \in 1 .. n : s[j] \in S
  OBVIOUS
<1>2. a \in Seq(S) /\ Len(a) = i - 1 /\ \A j \in 1 .. i - 1 : a[j] = s[j]
  <2>1. i - 1 \in Nat /\ \A j \in 1 .. i - 1 : j \in 1 .. n
    BY <1>1
  <2> QED BY <2>1, <1>1
<1>3. b \in Seq(S) /\ Len(b) = n - i /\ \A j \in 1 .. n - i : b[j] = s[i + j]
  <2>1. i + 1 \in Nat /\ n - (i + 1) + 1 = n - i /\ n - i \in Nat
    BY <1>1
  <2>2. b \in Seq(S) /\ Len(b) = n - i
    <3> HIDE DEF n
    <3>0. \A j \in i + 1 .. n : j \in 1 .. n
      BY <1>1
    <3>1. \A j \in i + 1 .. n : s[j] \in S
      BY <1>1, <3>0
    <3>2. i + 1 \in Int /\ n \in Int /\ (IF i + 1 <= n THEN n - (i + 1) + 1 ELSE 0) = n - i
      BY <1>1
    <3> QED BY <3>1, <3>2, SubSeqProperties DEF b
  <2>3. \A j \in 1 .. n - i : b[j] = s[(i + 1) + j - 1] /\ (i + 1) + j - 1 = i + j
    BY <1>1, <2>1
  <2> QED BY <2>2, <2>3
<1>4. RemoveAt(s, i) = a \o b
  BY DEF RemoveAt
<1> HIDE DEF n, a, b
<1>5. /\ a \o b \in Seq(S) /\ Len(a \o b) = n - 1
      /\ \A j \in 1 .. i - 1 : (a \o b)[j] = s[j]
      /\ \A j \in 1 .. n - i : (a \o b)[(i - 1) + j] = s[i + j]
      /\ DOMAIN (a \o b) = 1 .. n - 1
  <2>1. /\ a \o b \in Seq(S) /\ Len(a \o b) = Len(a) + Len(b)
        /\ \A j \in 1 .. Len(a) : (a \o b)[j] = a[j]
        /\ \A j \in 1 .. Len(b) : (a \o b)[Len(a) + j] = b[j]
        /\ DOMAIN (a \o b) = 1 .. Len(a) + Len(b)
    <3>1. a \in Seq(S) /\ b \in Seq(S)
      BY <1>2, <1>3
    <3> QED BY <3>1, Joined
  <2>2. Len(a) + Len(b) = n - 1
    BY <1>1, <1>2, <1>3
  <2> QED BY <1>2, <1>3, <2>1, <2>2
<1>6. \A j \in 1 .. n - 1 : (a \o b)[j] = s[IF j < i THEN j ELSE j + 1]
  <2> SUFFICES ASSUME NEW j \in 1 .. n - 1
               PROVE (a \o b)[j] = s[IF j < i THEN j ELSE j + 1]
    OBVIOUS
  <2>1. CASE j < i
    BY <1>1, <1>5, <2>1
  <2>2. CASE ~(j < i)
    <3>1. j - i + 1 \in 1 .. n - i /\ (i - 1) + (j - i + 1) = j /\ i + (j - i + 1) = j + 1
      BY <1>1, <2>2
    <3> QED BY <1>5, <2>2, <3>1
  <2> QED BY <2>1, <2>2
<1> QED BY <1>1, <1>4, <1>5, <1>6 DEF n

-----------------------------------------------------------------------------
(* What a call reports, and what it leaves resting. *)

(* fs goes on from es with events that are no fills and name none of E.     *)
Mute(E, es, fs) ==
  /\ fs \in Seq(Happenings) /\ Len(es) <= Len(fs)
  /\ \A i \in 1 .. Len(es) : fs[i] = es[i]
  /\ \A i \in Len(es) + 1 .. Len(fs) : ~IsFill(fs[i]) /\ fs[i].id \notin E

(* Nothing said is nothing filled, and saying more of the same is the same. *)
LEMMA MuteSame == ASSUME NEW E, NEW es \in Seq(Happenings) PROVE Mute(E, es, es)
BY DEF Mute

(* One more word of something else is mute.                                 *)
LEMMA MuteMore ==
  ASSUME NEW E, NEW es \in Seq(Happenings), NEW fs, NEW e \in Happenings,
         Mute(E, es, fs), ~IsFill(e), e.id \notin E
  PROVE Mute(E, es, Append(fs, e))
<1>1. fs \in Seq(Happenings) /\ Len(fs) \in Nat /\ Len(es) \in Nat
  BY DEF Mute
<1>2. /\ Append(fs, e) \in Seq(Happenings) /\ Len(Append(fs, e)) = Len(fs) + 1
      /\ Append(fs, e)[Len(fs) + 1] = e /\ \A i \in 1 .. Len(fs) : Append(fs, e)[i] = fs[i]
  BY <1>1, Appended
<1> DEFINE gs == Append(fs, e)
<1> HIDE DEF gs
<1>3. \A i \in Len(es) + 1 .. Len(gs) : ~IsFill(gs[i]) /\ gs[i].id \notin E
  <2> SUFFICES ASSUME NEW i \in Len(es) + 1 .. Len(gs)
               PROVE ~IsFill(gs[i]) /\ gs[i].id \notin E
    OBVIOUS
  <2>1. CASE i = Len(fs) + 1
    BY <1>2, <2>1 DEF gs
  <2>2. CASE i # Len(fs) + 1
    <3>1. i \in Len(es) + 1 .. Len(fs) /\ i \in 1 .. Len(fs)
      BY <1>1, <1>2, <2>2 DEF gs
    <3> QED BY <1>2, <3>1 DEF gs, Mute
  <2> QED BY <2>1, <2>2
<1>4. gs \in Seq(Happenings) /\ Len(es) <= Len(gs) /\ \A i \in 1 .. Len(es) : gs[i] = es[i]
  BY <1>1, <1>2 DEF gs, Mute
<1> QED BY <1>3, <1>4 DEF gs, Mute

(* So is any list of such words.                                            *)
LEMMA MuteJoin ==
  ASSUME NEW E, NEW es \in Seq(Happenings), NEW fs, NEW gs \in Seq(Happenings),
         Mute(E, es, fs), \A i \in 1 .. Len(gs) : ~IsFill(gs[i]) /\ gs[i].id \notin E
  PROVE Mute(E, es, fs \o gs)
<1>1. fs \in Seq(Happenings) /\ Len(fs) \in Nat /\ Len(es) \in Nat /\ Len(gs) \in Nat
  BY DEF Mute
<1> DEFINE hs == fs \o gs
<1>2. /\ hs \in Seq(Happenings) /\ Len(hs) = Len(fs) + Len(gs)
      /\ \A i \in 1 .. Len(fs) : hs[i] = fs[i]
      /\ \A i \in 1 .. Len(gs) : hs[Len(fs) + i] = gs[i]
  BY <1>1, Joined
<1> HIDE DEF hs
<1>3. \A i \in Len(es) + 1 .. Len(hs) : ~IsFill(hs[i]) /\ hs[i].id \notin E
  <2> SUFFICES ASSUME NEW i \in Len(es) + 1 .. Len(hs)
               PROVE ~IsFill(hs[i]) /\ hs[i].id \notin E
    OBVIOUS
  <2>1. CASE i <= Len(fs)
    <3>1. i \in Len(es) + 1 .. Len(fs) /\ i \in 1 .. Len(fs)
      BY <1>1, <1>2, <2>1
    <3> QED BY <1>2, <3>1 DEF Mute
  <2>2. CASE ~(i <= Len(fs))
    <3>1. i - Len(fs) \in 1 .. Len(gs) /\ Len(fs) + (i - Len(fs)) = i
      BY <1>1, <1>2, <2>2
    <3>2. hs[i] = gs[i - Len(fs)]
      BY <1>2, <3>1
    <3> QED BY <3>1, <3>2
  <2> QED BY <2>1, <2>2
<1>4. Len(es) <= Len(hs) /\ \A i \in 1 .. Len(es) : hs[i] = es[i]
  BY <1>1, <1>2 DEF Mute
<1> QED BY <1>2, <1>3, <1>4 DEF hs, Mute

(* And mute upon mute.                                                      *)
LEMMA MuteOn ==
  ASSUME NEW E, NEW es \in Seq(Happenings), NEW fs, NEW gs, Mute(E, es, fs), Mute(E, fs, gs)
  PROVE Mute(E, es, gs)
<1>1. /\ fs \in Seq(Happenings) /\ Len(fs) \in Nat /\ Len(es) \in Nat
      /\ gs \in Seq(Happenings) /\ Len(gs) \in Nat /\ Len(es) <= Len(fs) /\ Len(fs) <= Len(gs)
  BY DEF Mute
<1>2. \A i \in Len(es) + 1 .. Len(gs) : ~IsFill(gs[i]) /\ gs[i].id \notin E
  <2> SUFFICES ASSUME NEW i \in Len(es) + 1 .. Len(gs)
               PROVE ~IsFill(gs[i]) /\ gs[i].id \notin E
    OBVIOUS
  <2>1. CASE i <= Len(fs)
    <3>1. i \in Len(es) + 1 .. Len(fs) /\ i \in 1 .. Len(fs)
      BY <1>1, <2>1
    <3> QED BY <3>1 DEF Mute
  <2>2. CASE ~(i <= Len(fs))
    <3>1. i \in Len(fs) + 1 .. Len(gs)
      BY <1>1, <2>2
    <3> QED BY <3>1 DEF Mute
  <2> QED BY <2>1, <2>2
<1>3. \A i \in 1 .. Len(es) : gs[i] = es[i]
  BY <1>1 DEF Mute
<1> QED BY <1>1, <1>2, <1>3 DEF Mute

(* The resting list: ids are given out in turn and never twice; a leg, and  *)
(* only a leg, is of a pair; a pair has two legs at most; and none of the   *)
(* entries in E is a leg.                                                   *)
Tidy(E, b) ==
  /\ E \subseteq 1 .. b.ids
  /\ \A i \in 1 .. Len(b.resting) : b.resting[i].id \in 1 .. b.ids
  /\ \A i, j \in 1 .. Len(b.resting) : b.resting[i].id = b.resting[j].id => i = j
  /\ \A i \in 1 .. Len(b.resting) :
       /\ b.resting[i].oco \in 0 .. b.ocos
       /\ Protective(b.resting[i]) => b.resting[i].oco # 0 /\ b.resting[i].id \notin E
       /\ ~Protective(b.resting[i]) => b.resting[i].oco = 0
  /\ \A i, j, k \in 1 .. Len(b.resting) :
       /\ b.resting[i].oco # 0
       /\ b.resting[i].oco = b.resting[j].oco /\ b.resting[j].oco = b.resting[k].oco
       => i = j \/ j = k \/ i = k

(* The entries of a list, and those of b that c still has: all of them.     *)
EntriesIn(s) == {s[i] : i \in {i \in 1 .. Len(s) : ~Protective(s[i])}}

(* From b to c nothing was filled and no entry touched; legs come and go,   *)
(* but never a new one of an old pair.                                      *)
Settles(E, b, c) ==
  /\ c \in Books /\ Tidy(E, c)
  /\ b.ids <= c.ids /\ b.ocos <= c.ocos
  /\ c.kept = b.kept /\ c.placed = b.placed /\ c.touched = b.touched
  /\ EntriesIn(c.resting) = EntriesIn(b.resting)
  /\ \A i \in 1 .. Len(c.resting) :
       c.resting[i].oco \in 1 .. b.ocos =>
         \E j \in 1 .. Len(b.resting) : b.resting[j].oco = c.resting[i].oco
  /\ Mute(E, b.events, c.events)

(* Nothing done settles, and settling twice is settling.                    *)
LEMMA SettlesSame ==
  ASSUME NEW E, NEW b \in Books, Tidy(E, b) PROVE Settles(E, b, b)
<1>1. b.events \in Seq(Happenings) /\ b.ids \in Nat /\ b.ocos \in Nat
  BY DEF Books
<1> QED BY <1>1, MuteSame DEF Settles

(* And settling twice is settling.                                          *)
LEMMA SettlesOn ==
  ASSUME NEW E, NEW b \in Books, NEW c, NEW d, Settles(E, b, c), Settles(E, c, d)
  PROVE Settles(E, b, d)
<1>1. /\ b.events \in Seq(Happenings) /\ b.resting \in Seq(Orders)
      /\ b.ids \in Nat /\ b.ocos \in Nat
      /\ c.events \in Seq(Happenings) /\ c.resting \in Seq(Orders)
      /\ c.ids \in Nat /\ c.ocos \in Nat
      /\ d.events \in Seq(Happenings) /\ d.resting \in Seq(Orders)
      /\ d.ids \in Nat /\ d.ocos \in Nat
  BY DEF Books, Settles
<1>2. Mute(E, b.events, d.events)
  BY <1>1, MuteOn DEF Settles
<1>3. \A i \in 1 .. Len(d.resting) :
        d.resting[i].oco \in 1 .. b.ocos =>
          \E j \in 1 .. Len(b.resting) : b.resting[j].oco = d.resting[i].oco
  <2> SUFFICES ASSUME NEW i \in 1 .. Len(d.resting), d.resting[i].oco \in 1 .. b.ocos
               PROVE \E j \in 1 .. Len(b.resting) : b.resting[j].oco = d.resting[i].oco
    OBVIOUS
  <2>1. b.ocos <= c.ocos
    BY DEF Settles
  <2>2. d.resting[i].oco \in 1 .. c.ocos
    BY <1>1, <2>1
  <2>3. PICK k \in 1 .. Len(c.resting) : c.resting[k].oco = d.resting[i].oco
    BY <2>2 DEF Settles
  <2> QED BY <2>3 DEF Settles
<1>4. b.ids <= d.ids /\ b.ocos <= d.ocos
  BY <1>1 DEF Settles
<1> QED BY <1>2, <1>3, <1>4 DEF Settles

-----------------------------------------------------------------------------
(* Legs come. *)

LegRoles == {"TakeProfit", "StopLoss"}

(* What one call of make_leg adds to the book.                              *)
WithLeg(b, leg) == [b EXCEPT !.ids = @ + 1, !.resting = Append(@, leg),
                             !.events = Append(@, About("Placed", leg))]

(* What an event says of its order.                                         *)
LEMMA AboutIs ==
  ASSUME NEW o \in Orders, NEW what \in Words
  PROVE /\ About(what, o) \in Happenings /\ About(what, o).id = o.id
        /\ IsFill(About(what, o)) = (what = "Filled")
        /\ About(what, o).what = what /\ About(what, o).oco = o.oco
        /\ About(what, o).role = o.role /\ About(what, o).side = o.side
        /\ About(what, o).qty = o.qty
BY DEF About, Happenings, Orders, Roles, IsFill

(* make_leg adds one leg, or none for an absent level.                      *)
LEMMA LegAdded ==
  ASSUME NEW b \in Books, NEW role \in LegRoles, NEW side \in Sides, NEW level \in Levels,
         NEW qty \in Nat \ {0}
  PROVE \/ level = Unset /\ AddLeg(b, role, side, level, qty) = b
        \/ /\ level # Unset
           /\ \E leg \in Orders :
                /\ leg.id = b.ids + 1 /\ Protective(leg) /\ leg.oco = b.ocos /\ leg.qty = qty
                /\ leg.side = Opposite(side)
                /\ AddLeg(b, role, side, level, qty) = WithLeg(b, leg)
<1>1. CASE level = Unset
  BY <1>1 DEF AddLeg
<1>2. CASE level # Unset
  <2> DEFINE leg == [id |-> b.ids + 1, side |-> Opposite(side), role |-> role,
                     kind |-> IF role = "TakeProfit" THEN "Limit" ELSE "Stop",
                     price |-> level, qty |-> qty, bracket |-> <<>>, cancel |-> Unset,
                     flat |-> FALSE, oco |-> b.ocos]
  <2>1. /\ leg \in Orders /\ leg.id = b.ids + 1 /\ Protective(leg) /\ leg.oco = b.ocos
        /\ leg.qty = qty /\ leg.side = Opposite(side)
    <3>1. b.ids + 1 \in Nat /\ b.ocos \in Nat
      BY DEF Books
    <3>2. Opposite(side) \in Sides /\ Unset \in Levels
      BY LevelsAreNat DEF Opposite, Sides
    <3>3. <<>> \in Seq(Parts)
      OBVIOUS
    <3> QED BY <3>1, <3>2, <3>3 DEF Orders, LegRoles, Protective
  <2>2. AddLeg(b, role, side, level, qty)
          = Emit([b EXCEPT !.ids = @ + 1, !.resting = Append(@, leg)], About("Placed", leg))
    BY <1>2 DEF AddLeg
  <2> HIDE DEF leg
  <2>3. Emit([b EXCEPT !.ids = @ + 1, !.resting = Append(@, leg)], About("Placed", leg))
          = WithLeg(b, leg)
    BY DEF Emit, WithLeg, Books
  <2> QED BY <1>2, <2>1, <2>2, <2>3
<1> QED BY <1>1, <1>2

(* At most one working leg is of the pair last numbered.                    *)
RoomInPair(b) ==
  /\ b.ocos # 0
  /\ \A i, j \in 1 .. Len(b.resting) :
       b.resting[i].oco = b.ocos /\ b.resting[j].oco = b.ocos => i = j

(* A book stays one under new orders, ids and events.                       *)
LEMMA BookWith ==
  ASSUME NEW b \in Books, NEW n \in Nat, NEW rs \in Seq(Orders), NEW es \in Seq(Happenings)
  PROVE /\ [b EXCEPT !.ids = n, !.resting = rs, !.events = es] \in Books
        /\ [b EXCEPT !.resting = rs, !.events = es] \in Books
        /\ [b EXCEPT !.resting = rs] \in Books
        /\ [b EXCEPT !.events = es] \in Books
BY DEF Books

(* The entries of a list, place by place.                                   *)
LEMMA EntriesAre ==
  ASSUME NEW s, NEW x
  PROVE x \in EntriesIn(s) <=> \E i \in 1 .. Len(s) : ~Protective(s[i]) /\ x = s[i]
BY DEF EntriesIn

(* A leg of the pair under way keeps the book tidy, and no entry notices.   *)
LEMMA LegSettles ==
  ASSUME NEW E, NEW b \in Books, Tidy(E, b), RoomInPair(b), NEW leg \in Orders,
         leg.id = b.ids + 1, Protective(leg), leg.oco = b.ocos
  PROVE LET c == WithLeg(b, leg) IN
        /\ c \in Books /\ Tidy(E, c) /\ c.position = b.position
        /\ c.ids = b.ids + 1 /\ c.ocos = b.ocos
        /\ c.kept = b.kept /\ c.placed = b.placed /\ c.touched = b.touched
        /\ c.resting = Append(b.resting, leg)
        /\ EntriesIn(c.resting) = EntriesIn(b.resting)
        /\ Mute(E, b.events, c.events)
<1> DEFINE c == WithLeg(b, leg)
           s == b.resting
           L == Len(b.resting)
<1>1. /\ s \in Seq(Orders) /\ b.ids \in Nat /\ b.ocos \in Nat /\ b.events \in Seq(Happenings)
      /\ L \in Nat
  BY DEF Books
<1>2. About("Placed", leg) \in Happenings /\ About("Placed", leg).id = leg.id
      /\ ~IsFill(About("Placed", leg))
  BY AboutIs DEF Words
<1>3. leg.id \notin E
  BY <1>1 DEF Tidy
<1>4. Mute(E, b.events, Append(b.events, About("Placed", leg)))
  BY <1>1, <1>2, <1>3, MuteSame, MuteMore
<1>5. /\ Append(s, leg) \in Seq(Orders) /\ Len(Append(s, leg)) = L + 1
      /\ Append(s, leg)[L + 1] = leg /\ \A i \in 1 .. L : Append(s, leg)[i] = s[i]
  BY <1>1, Appended
<1>6. /\ c.position = b.position /\ c.ids = b.ids + 1 /\ c.ocos = b.ocos
      /\ c.kept = b.kept /\ c.placed = b.placed /\ c.touched = b.touched
      /\ c.resting = Append(s, leg) /\ c.events = Append(b.events, About("Placed", leg))
  BY DEF WithLeg, Books
<1>7. c \in Books
  <2>1. Append(b.events, About("Placed", leg)) \in Seq(Happenings)
    BY <1>1, <1>2, Appended
  <2> DEFINE n == b.ids + 1
             rs == Append(b.resting, leg)
             es == Append(b.events, About("Placed", leg))
  <2>2. c = [b EXCEPT !.ids = n, !.resting = rs, !.events = es]
    BY DEF WithLeg
  <2>3. n \in Nat /\ rs \in Seq(Orders) /\ es \in Seq(Happenings)
    BY <1>1, <1>5, <2>1
  <2> HIDE DEF c, n, rs, es
  <2> QED BY <2>2, <2>3, BookWith
<1> DEFINE r == c.resting
<1> HIDE DEF c, s, L, r
<1>8. Len(s) = L /\ Len(r) = L + 1 /\ r[L + 1] = leg /\ \A i \in 1 .. L : r[i] = s[i]
  BY <1>5, <1>6 DEF r, s, L
<1>9. \A i \in 1 .. Len(r) : i = L + 1 \/ i \in 1 .. L
  BY <1>1, <1>8
<1>10. /\ E \subseteq 1 .. b.ids
       /\ \A i \in 1 .. L : s[i].id \in 1 .. b.ids
       /\ \A i, j \in 1 .. L : s[i].id = s[j].id => i = j
       /\ \A i \in 1 .. L : /\ s[i].oco \in 0 .. b.ocos
                            /\ Protective(s[i]) => s[i].oco # 0 /\ s[i].id \notin E
                            /\ ~Protective(s[i]) => s[i].oco = 0
       /\ \A i, j, k \in 1 .. L :
            s[i].oco # 0 /\ s[i].oco = s[j].oco /\ s[j].oco = s[k].oco => i = j \/ j = k \/ i = k
       /\ b.ocos # 0 /\ \A i, j \in 1 .. L : s[i].oco = b.ocos /\ s[j].oco = b.ocos => i = j
  BY DEF Tidy, RoomInPair, s, L
<1>11. Tidy(E, c)
  <2>1. E \subseteq 1 .. c.ids
    BY <1>1, <1>6, <1>10
  <2>2. \A i \in 1 .. Len(r) : r[i].id \in 1 .. c.ids
    <3> SUFFICES ASSUME NEW i \in 1 .. Len(r) PROVE r[i].id \in 1 .. c.ids
      OBVIOUS
    <3>1. CASE i = L + 1
      BY <1>1, <1>6, <1>8, <3>1
    <3>2. CASE i \in 1 .. L
      <4>1. s[i].id \in 1 .. b.ids /\ r[i] = s[i]
        BY <1>8, <1>10, <3>2
      <4> QED BY <1>1, <1>6, <4>1
    <3> QED BY <1>9, <3>1, <3>2
  <2>3. \A i, j \in 1 .. Len(r) : r[i].id = r[j].id => i = j
    BY <1>1, <1>8, <1>9, <1>10
  <2>4. \A i \in 1 .. Len(r) :
          /\ r[i].oco \in 0 .. c.ocos
          /\ Protective(r[i]) => r[i].oco # 0 /\ r[i].id \notin E
          /\ ~Protective(r[i]) => r[i].oco = 0
    <3> SUFFICES ASSUME NEW i \in 1 .. Len(r)
                 PROVE /\ r[i].oco \in 0 .. c.ocos
                       /\ Protective(r[i]) => r[i].oco # 0 /\ r[i].id \notin E
                       /\ ~Protective(r[i]) => r[i].oco = 0
      OBVIOUS
    <3>1. CASE i = L + 1
      <4>1. r[i].oco = b.ocos /\ b.ocos # 0 /\ b.ocos \in 0 .. c.ocos /\ Protective(r[i])
            /\ r[i].id \notin E
        BY <1>1, <1>3, <1>6, <1>8, <1>10, <3>1
      <4> QED BY <4>1
    <3>2. CASE i \in 1 .. L
      <4>1. /\ s[i].oco \in 0 .. b.ocos /\ r[i] = s[i]
            /\ Protective(s[i]) => s[i].oco # 0 /\ s[i].id \notin E
            /\ ~Protective(s[i]) => s[i].oco = 0
        BY <1>8, <1>10, <3>2
      <4> QED BY <1>1, <1>6, <4>1
    <3> QED BY <1>9, <3>1, <3>2
  <2>5. \A i, j, k \in 1 .. Len(r) :
          r[i].oco # 0 /\ r[i].oco = r[j].oco /\ r[j].oco = r[k].oco => i = j \/ j = k \/ i = k
    <3> SUFFICES ASSUME NEW i \in 1 .. Len(r), NEW j \in 1 .. Len(r), NEW k \in 1 .. Len(r),
                        r[i].oco # 0, r[i].oco = r[j].oco, r[j].oco = r[k].oco
                 PROVE i = j \/ j = k \/ i = k
      OBVIOUS
    <3>1. CASE i = L + 1 \/ j = L + 1 \/ k = L + 1
      BY <1>8, <1>9, <1>10, <3>1
    <3>2. CASE ~(i = L + 1 \/ j = L + 1 \/ k = L + 1)
      BY <1>8, <1>9, <1>10, <3>2
    <3> QED BY <3>1, <3>2
  <2> QED BY <2>1, <2>2, <2>3, <2>4, <2>5 DEF Tidy, r
<1>12. EntriesIn(r) = EntriesIn(s)
  <2>1. ASSUME NEW x \in EntriesIn(r) PROVE x \in EntriesIn(s)
    <3>1. PICK i \in 1 .. Len(r) : ~Protective(r[i]) /\ x = r[i]
      BY <2>1, EntriesAre
    <3>2. i \in 1 .. L /\ r[i] = s[i]
      BY <1>8, <1>9, <3>1
    <3> QED BY <1>8, <3>1, <3>2, EntriesAre
  <2>2. ASSUME NEW x \in EntriesIn(s) PROVE x \in EntriesIn(r)
    <3>1. PICK i \in 1 .. L : ~Protective(s[i]) /\ x = s[i]
      BY <1>8, <2>2, EntriesAre
    <3>2. i \in 1 .. Len(r) /\ r[i] = s[i]
      BY <1>1, <1>8, <3>1
    <3> QED BY <3>1, <3>2, EntriesAre
  <2> QED BY <2>1, <2>2
<1> QED BY <1>4, <1>6, <1>7, <1>11, <1>12 DEF c, r, s

(* A pair under way: what was there before it is of older pairs.            *)
Growing(E, b, c) ==
  /\ c \in Books /\ Tidy(E, c) /\ c.position = b.position
  /\ b.ids <= c.ids /\ c.ocos = b.ocos + 1
  /\ c.kept = b.kept /\ c.placed = b.placed /\ c.touched = b.touched
  /\ EntriesIn(c.resting) = EntriesIn(b.resting)
  /\ \A i \in 1 .. Len(c.resting) :
       c.resting[i].oco \in 1 .. b.ocos =>
         \E j \in 1 .. Len(b.resting) : b.resting[j].oco = c.resting[i].oco
  /\ Mute(E, b.events, c.events)

(* A pair grows by a leg.                                                   *)
LEMMA GrowingOn ==
  ASSUME NEW E, NEW b \in Books, NEW c, Growing(E, b, c), RoomInPair(c), NEW leg \in Orders,
         leg.id = c.ids + 1, Protective(leg), leg.oco = c.ocos
  PROVE Growing(E, b, WithLeg(c, leg))
<1> DEFINE d == WithLeg(c, leg)
<1>1. /\ c \in Books /\ Tidy(E, c) /\ b.ocos \in Nat /\ b.ids \in Nat /\ c.ids \in Nat
      /\ c.resting \in Seq(Orders) /\ b.events \in Seq(Happenings) /\ c.events \in Seq(Happenings)
  BY DEF Growing, Books
<1>2. /\ d \in Books /\ Tidy(E, d) /\ d.position = c.position
      /\ d.ids = c.ids + 1 /\ d.ocos = c.ocos
      /\ d.kept = c.kept /\ d.placed = c.placed /\ d.touched = c.touched
      /\ d.resting = Append(c.resting, leg)
      /\ EntriesIn(d.resting) = EntriesIn(c.resting)
      /\ Mute(E, c.events, d.events)
  BY <1>1, LegSettles
<1> HIDE DEF d
<1>3. Mute(E, b.events, d.events)
  BY <1>1, <1>2, MuteOn DEF Growing
<1>4. /\ Len(d.resting) = Len(c.resting) + 1 /\ d.resting[Len(c.resting) + 1] = leg
      /\ \A i \in 1 .. Len(c.resting) : d.resting[i] = c.resting[i]
      /\ Len(c.resting) \in Nat
  BY <1>1, <1>2, Appended
<1>5. ASSUME NEW i \in 1 .. Len(d.resting), d.resting[i].oco \in 1 .. b.ocos
      PROVE \E j \in 1 .. Len(b.resting) : b.resting[j].oco = d.resting[i].oco
  <2>1. c.ocos = b.ocos + 1 /\ leg.oco = c.ocos
    BY DEF Growing
  <2>2. i # Len(c.resting) + 1
    BY <1>1, <1>4, <1>5, <2>1
  <2>3. i \in 1 .. Len(c.resting) /\ d.resting[i] = c.resting[i]
    BY <1>4, <2>2
  <2> QED BY <1>5, <2>3 DEF Growing
<1>6. d.position = b.position /\ b.ids <= d.ids /\ d.ocos = b.ocos + 1 /\ d.kept = b.kept
      /\ d.placed = b.placed /\ d.touched = b.touched
      /\ EntriesIn(d.resting) = EntriesIn(b.resting)
  BY <1>1, <1>2 DEF Growing
<1> QED BY <1>2, <1>3, <1>5, <1>6 DEF Growing, d

(* The two legs of one part.                                                *)
PairAdded(side, b, p) ==
  IF p.qty = Unset THEN b
  ELSE AddLeg(AddLeg([b EXCEPT !.ocos = @ + 1], "TakeProfit", side, p.target, p.qty),
              "StopLoss", side, p.stop, p.qty)

AnyPart == [qty : Nat, stop : Levels, target : Levels]

(* A part becomes a pair of legs, and nothing else changes.                 *)
LEMMA PairSettles ==
  ASSUME NEW E, NEW b \in Books, Tidy(E, b), NEW side \in Sides, NEW p \in AnyPart
  PROVE Settles(E, b, PairAdded(side, b, p)) /\ PairAdded(side, b, p).position = b.position
<1>0. /\ b.resting \in Seq(Orders) /\ b.ids \in Nat /\ b.ocos \in Nat
      /\ b.events \in Seq(Happenings)
      /\ Len(b.resting) \in Nat
  BY DEF Books
<1>1. CASE p.qty = Unset
  BY <1>1, SettlesSame DEF PairAdded
<1>2. CASE p.qty # Unset
  <2> DEFINE z == [b EXCEPT !.ocos = @ + 1]
             a == AddLeg(z, "TakeProfit", side, p.target, p.qty)
             c == AddLeg(a, "StopLoss", side, p.stop, p.qty)
  <2>1. PairAdded(side, b, p) = c
    BY <1>2 DEF PairAdded
  <2>2. p.qty \in Nat \ {0} /\ p.target \in Levels /\ p.stop \in Levels
    BY <1>2 DEF AnyPart, Unset
  <2>3. /\ z \in Books /\ z.ocos = b.ocos + 1 /\ z.position = b.position /\ z.ids = b.ids
        /\ z.kept = b.kept /\ z.placed = b.placed /\ z.touched = b.touched
        /\ z.resting = b.resting /\ z.events = b.events
    <3> DEFINE n == b.ocos + 1
    <3>1. n \in Nat /\ z = [b EXCEPT !.ocos = n]
      BY <1>0
    <3> HIDE DEF n, z
    <3>2. /\ z \in Books /\ z.ocos = n /\ z.position = b.position /\ z.ids = b.ids
          /\ z.kept = b.kept /\ z.placed = b.placed /\ z.touched = b.touched
          /\ z.resting = b.resting /\ z.events = b.events
      BY <3>1 DEF Books
    <3> QED BY <3>2 DEF n
  <2> HIDE DEF z
  <2>4. \A i \in 1 .. Len(z.resting) : z.resting[i].oco \in 0 .. b.ocos
    BY <2>3 DEF Tidy
  <2>5. Tidy(E, z)
    <3>1. \A i \in 1 .. Len(z.resting) :
            /\ z.resting[i].oco \in 0 .. z.ocos
            /\ Protective(z.resting[i]) => z.resting[i].oco # 0 /\ z.resting[i].id \notin E
            /\ ~Protective(z.resting[i]) => z.resting[i].oco = 0
      <4> SUFFICES ASSUME NEW i \in 1 .. Len(z.resting)
                   PROVE /\ z.resting[i].oco \in 0 .. z.ocos
                         /\ Protective(z.resting[i]) =>
                              z.resting[i].oco # 0 /\ z.resting[i].id \notin E
                         /\ ~Protective(z.resting[i]) => z.resting[i].oco = 0
        OBVIOUS
      <4>1. z.resting[i].oco \in 0 .. z.ocos
        BY <1>0, <2>3, <2>4
      <4>2. i \in 1 .. Len(b.resting) /\ z.resting[i] = b.resting[i]
        BY <2>3
      <4> QED BY <4>1, <4>2 DEF Tidy
    <3> QED BY <2>3, <3>1 DEF Tidy
  <2>6. RoomInPair(z)
    <3>1. \A i \in 1 .. Len(z.resting) : z.resting[i].oco # z.ocos
      BY <1>0, <2>3, <2>4
    <3>2. z.ocos # 0
      BY <1>0, <2>3
    <3> QED BY <3>1, <3>2 DEF RoomInPair
  <2>7. Growing(E, b, z)
    <3>1. Mute(E, b.events, z.events)
      BY <1>0, <2>3, MuteSame
    <3> QED BY <1>0, <2>3, <2>5, <3>1 DEF Growing
  <2>8. Growing(E, b, a) /\ RoomInPair(a)
    <3>1. \/ a = z
          \/ \E leg \in Orders :
               /\ leg.id = z.ids + 1 /\ Protective(leg) /\ leg.oco = z.ocos
               /\ a = WithLeg(z, leg)
      BY <2>2, <2>3, LegAdded DEF LegRoles
    <3> HIDE DEF a
    <3>2. CASE a = z
      BY <2>6, <2>7, <3>2
    <3>3. ASSUME NEW leg \in Orders, leg.id = z.ids + 1, Protective(leg), leg.oco = z.ocos,
                 a = WithLeg(z, leg)
          PROVE Growing(E, b, a) /\ RoomInPair(a)
      <4>1. Growing(E, b, a)
        BY <2>6, <2>7, <3>3, GrowingOn
      <4>2. a.resting = Append(z.resting, leg) /\ a.ocos = z.ocos
        BY <2>3, <3>3 DEF WithLeg, Books
      <4>3. /\ Len(a.resting) = Len(z.resting) + 1 /\ Len(z.resting) \in Nat
            /\ \A i \in 1 .. Len(z.resting) : a.resting[i] = z.resting[i]
        BY <1>0, <2>3, <4>2, Appended
      <4>4. \A i \in 1 .. Len(a.resting) : a.resting[i].oco = a.ocos => i = Len(z.resting) + 1
        <5> SUFFICES ASSUME NEW i \in 1 .. Len(a.resting), i # Len(z.resting) + 1
                     PROVE a.resting[i].oco # a.ocos
          OBVIOUS
        <5>1. i \in 1 .. Len(z.resting) /\ a.resting[i] = z.resting[i]
          BY <4>3
        <5>2. z.resting[i].oco \in 0 .. b.ocos /\ a.ocos = b.ocos + 1
          BY <2>3, <2>4, <4>2, <5>1
        <5> QED BY <1>0, <5>1, <5>2
      <4>5. a.ocos # 0
        BY <1>0, <2>3, <4>2
      <4> QED BY <4>1, <4>4, <4>5 DEF RoomInPair
    <3> QED BY <3>1, <3>2, <3>3
  <2>9. Growing(E, b, c)
    <3>1. a \in Books
      BY <2>8 DEF Growing
    <3> HIDE DEF a
    <3>2. \/ c = a
          \/ \E leg \in Orders :
               /\ leg.id = a.ids + 1 /\ Protective(leg) /\ leg.oco = a.ocos
               /\ c = WithLeg(a, leg)
      BY <2>2, <3>1, LegAdded DEF LegRoles
    <3> HIDE DEF c
    <3>3. CASE c = a
      BY <2>8, <3>3
    <3>4. ASSUME NEW leg \in Orders, leg.id = a.ids + 1, Protective(leg), leg.oco = a.ocos,
                 c = WithLeg(a, leg)
          PROVE Growing(E, b, c)
      BY <2>8, <3>4, GrowingOn
    <3> QED BY <3>2, <3>3, <3>4
  <2> HIDE DEF c
  <2>10. Settles(E, b, c) /\ c.position = b.position
    <3>1. b.ocos <= c.ocos
      BY <1>0, <2>9 DEF Growing
    <3> QED BY <2>9, <3>1 DEF Growing, Settles
  <2> QED BY <2>1, <2>10
<1> QED BY <1>1, <1>2

-----------------------------------------------------------------------------
(* The ladder of a bracket. *)

(* The lesser of two numbers.                                               *)
LEMMA LesserIs ==
  ASSUME NEW x \in Nat, NEW y \in Nat
  PROVE /\ Min({x, y}) \in Nat /\ Min({x, y}) <= x /\ Min({x, y}) <= y
        /\ Min({x, y}) \in {x, y}
<1>1. \E z \in {x, y} : \A w \in {x, y} : z <= w
  OBVIOUS
<1>2. Min({x, y}) \in {x, y} /\ \A w \in {x, y} : Min({x, y}) <= w
  BY <1>1 DEF Min
<1> QED BY <1>2

(* A part's share is of what is left.                                       *)
LEMMA ShareIs ==
  ASSUME NEW b \in Seq(AnyPart), NEW i \in 1 .. Len(b), NEW total \in Nat, NEW l \in Nat
  PROVE Share(b, i, total, l) \in Nat /\ Share(b, i, total, l) <= l
<1> DEFINE q == IF b[i].qty = Unset THEN total ELSE b[i].qty
<1>1. b[i] \in AnyPart
  OBVIOUS
<1>2. q \in Nat
  BY <1>1 DEF AnyPart
<1> HIDE DEF q
<1>3. Min({q, l}) \in Nat /\ Min({q, l}) <= l
  BY <1>2, LesserIs
<1>4. Share(b, i, total, l) = IF i = Len(b) THEN l ELSE Min({q, l})
  BY DEF Share, q
<1> QED BY <1>3, <1>4

(* The parts as they are fitted are parts still, though one may be empty.   *)
LEMMA FittedAre ==
  ASSUME NEW b \in Seq(AnyPart), b # <<>>, NEW total \in Nat
  PROVE FittedParts(b, total) \in Seq(AnyPart)
<1> DEFINE L == Len(b)
           step == [n \in 1 .. L |-> [x \in Nat |-> x - Share(b, n, total, x)]]
           body(g) == [i \in 1 .. L |-> IF i = 1 THEN total
                                        ELSE g[i - 1] - Share(b, i - 1, total, g[i - 1])]
           left == CHOOSE g : g = body(g)
<1>1. L \in Nat \ {0} /\ DOMAIN b = 1 .. L
  OBVIOUS
<1>2. FittedParts(b, total) = [i \in 1 .. L |-> [b[i] EXCEPT !.qty = Share(b, i, total, left[i])]]
  BY <1>1 DEF FittedParts
<1>3. step \in [1 .. L -> [Nat -> Nat]]
  <2> SUFFICES ASSUME NEW n \in 1 .. L, NEW x \in Nat PROVE x - Share(b, n, total, x) \in Nat
    OBVIOUS
  <2>1. Share(b, n, total, x) \in Nat /\ Share(b, n, total, x) <= x
    BY ShareIs
  <2> QED BY <2>1
<1>4. \A n \in 1 .. L : \A x \in Nat : step[n][x] = x - Share(b, n, total, x)
  OBVIOUS
<1> HIDE DEF L, step
<1>5. PICK t \in Paths(L, Nat, total, step) : TRUE
  <2> DEFINE X == Nat
  <2>1. L \in Nat /\ total \in X /\ step \in [1 .. L -> [X -> X]]
    BY <1>1, <1>3
  <2> HIDE DEF X
  <2>2. Paths(L, X, total, step) # {}
    BY <2>1, PathExists
  <2> QED BY <2>2 DEF X
<1>6. t \in [0 .. L -> Nat] /\ t[0] = total /\ \A n \in 1 .. L : t[n] = step[n][t[n - 1]]
  BY <1>5 DEF Paths
<1>7. \E g : g = body(g)
  <2> DEFINE g == [i \in 1 .. L |-> t[i - 1]]
  <2>1. \A i \in 1 .. L : g[i] = t[i - 1]
    OBVIOUS
  <2>2. \A i \in 1 .. L :
          g[i] = IF i = 1 THEN total ELSE g[i - 1] - Share(b, i - 1, total, g[i - 1])
    <3>0. \A i \in 1 .. L : i = 1 => g[i] = total
      BY <1>6, <2>1
    <3> SUFFICES ASSUME NEW i \in 1 .. L, i # 1
                 PROVE g[i] = g[i - 1] - Share(b, i - 1, total, g[i - 1])
      <4> HIDE DEF g
      <4> QED BY <3>0
    <3>1. i - 1 \in 1 .. L /\ (i - 1) - 1 \in 0 .. L
      BY <1>1
    <3>2. g[i - 1] = t[(i - 1) - 1] /\ g[i - 1] \in Nat
      BY <1>6, <2>1, <3>1
    <3>3. t[i - 1] = step[i - 1][t[(i - 1) - 1]]
      BY <1>6, <3>1
    <3> HIDE DEF g
    <3> QED BY <1>4, <2>1, <3>1, <3>2, <3>3
  <2>3. g = body(g)
    <3> HIDE DEF g
    <3>1. g = [i \in 1 .. L |-> g[i]]
      BY DEF g
    <3> QED BY <2>2, <3>1
  <2> QED BY <2>3
<1>8. left = body(left)
  BY <1>7
<1> HIDE DEF left
<1>9. \A i \in 1 .. L :
        left[i] = IF i = 1 THEN total ELSE left[i - 1] - Share(b, i - 1, total, left[i - 1])
  BY <1>8
<1>10. \A i \in 1 .. L : left[i] \in Nat
  <2> DEFINE G == {n \in 0 .. L - 1 : left[n + 1] \in Nat}
  <2>1. 0 \in G
    BY <1>1, <1>9
  <2>2. \A n \in 1 .. L - 1 : n - 1 \in G => n \in G
    <3> SUFFICES ASSUME NEW n \in 1 .. L - 1, n - 1 \in G PROVE left[n + 1] \in Nat
      OBVIOUS
    <3>1. n \in 1 .. L /\ n + 1 \in 1 .. L /\ n + 1 # 1 /\ (n + 1) - 1 = n /\ (n - 1) + 1 = n
      BY <1>1
    <3>2. left[n] \in Nat
      BY <3>1
    <3>3. Share(b, n, total, left[n]) \in Nat /\ Share(b, n, total, left[n]) <= left[n]
      BY <3>1, <3>2, ShareIs DEF L
    <3>4. left[n + 1] = left[n] - Share(b, n, total, left[n])
      BY <1>9, <3>1
    <3> QED BY <3>2, <3>3, <3>4
  <2> HIDE DEF G
  <2>3. \A n \in 0 .. L - 1 : n \in G
    <3>1. L - 1 \in Nat
      BY <1>1
    <3> HIDE DEF L
    <3> QED BY <2>1, <2>2, <3>1, Upward
  <2>4. ASSUME NEW i \in 1 .. L PROVE left[i] \in Nat
    <3>1. i - 1 \in 0 .. L - 1 /\ (i - 1) + 1 = i
      BY <1>1
    <3> QED BY <2>3, <3>1 DEF G
  <2> QED BY <2>4
<1>11. \A i \in 1 .. L : [b[i] EXCEPT !.qty = Share(b, i, total, left[i])] \in AnyPart
  <2> SUFFICES ASSUME NEW i \in 1 .. L
               PROVE [b[i] EXCEPT !.qty = Share(b, i, total, left[i])] \in AnyPart
    OBVIOUS
  <2>1. Share(b, i, total, left[i]) \in Nat
    BY <1>10, ShareIs DEF L
  <2>2. b[i] \in AnyPart
    BY DEF L
  <2> QED BY <2>1, <2>2 DEF AnyPart
<1> DEFINE fit(i) == [b[i] EXCEPT !.qty = Share(b, i, total, left[i])]
<1>12. [i \in 1 .. L |-> fit(i)] \in Seq(AnyPart)
  <2>1. \A i \in 1 .. L : fit(i) \in AnyPart
    BY <1>11
  <2> HIDE DEF fit
  <2> QED BY <1>1, <2>1
<1> QED BY <1>2, <1>12

(* A ladder is installed pair by pair, and stays where every pair stays.    *)
Laid(side, b, parts) == FoldLeft(LAMBDA c, p : PairAdded(side, c, p), b, parts)

(* What holds before a ladder and is kept by each pair holds after it.      *)
LEMMA LadderStays ==
  ASSUME NEW X, NEW b \in X, NEW side, NEW parts \in Seq(AnyPart),
         \A n \in 1 .. Len(parts) : \A c \in X : PairAdded(side, c, parts[n]) \in X
  PROVE Laid(side, b, parts) \in X
<1> DEFINE L == Len(parts)
           D == 1 .. L
           step == [n \in 1 .. L |-> [c \in X |-> PairAdded(side, c, parts[n])]]
           body(g) == [s \in SUBSET D |-> IF s = {} THEN b
                         ELSE PairAdded(side, g[s \ {Max(s)}], parts[Max(s)])]
           iter == CHOOSE g : g = body(g)
<1>1. L \in Nat /\ DOMAIN parts = D
  OBVIOUS
<1>2. Laid(side, b, parts) = iter[D]
  BY <1>1 DEF Laid, FoldLeft, MapThenFoldSet
<1>s. \A s \in SUBSET D : s # {} => Max(s) \in D
  BY <1>1, PartsOfUpto
<1>d. step \in [1 .. L -> [X -> X]]
  OBVIOUS
<1>5. \A n \in D : \A c \in X : step[n][c] = PairAdded(side, c, parts[n])
  OBVIOUS
<1> HIDE DEF L, step
<1>3. PICK f \in Folding(L, X, b, step) : TRUE
  BY <1>1, <1>d, FoldingExists
<1>4. /\ f \in [SUBSET D -> X]
      /\ \A s \in SUBSET D : f[s] = IF s = {} THEN b ELSE step[Max(s)][f[s \ {Max(s)}]]
  BY <1>3 DEF Folding
<1> HIDE DEF D
<1>6. \A s \in SUBSET D : f[s] = IF s = {} THEN b
                                 ELSE PairAdded(side, f[s \ {Max(s)}], parts[Max(s)])
  <2> SUFFICES ASSUME NEW s \in SUBSET D, s # {}
               PROVE f[s] = PairAdded(side, f[s \ {Max(s)}], parts[Max(s)])
    BY <1>4
  <2>1. Max(s) \in D /\ f[s \ {Max(s)}] \in X
    BY <1>4, <1>s
  <2> QED BY <1>4, <1>5, <2>1
<1>7. f = body(f)
  BY <1>4, <1>6
<1>8. iter = body(iter)
  BY <1>7
<1> HIDE DEF iter
<1>9. FoldsLike(iter, L, X, b, step)
  <2>1. iter[{}] = b
    BY <1>8
  <2>2. ASSUME NEW s \in SUBSET D, s # {}, iter[s \ {Max(s)}] \in X
        PROVE iter[s] = step[Max(s)][iter[s \ {Max(s)}]]
    <3>1. iter[s] = PairAdded(side, iter[s \ {Max(s)}], parts[Max(s)])
      BY <1>8, <2>2
    <3> QED BY <1>5, <1>s, <2>2, <3>1
  <2> QED BY <2>1, <2>2 DEF FoldsLike, D
<1>10. PICK t \in Paths(L, X, b, step) : t[L] = iter[1 .. L]
  BY <1>1, <1>9, <1>d, FoldingPath
<1>11. t[L] \in X
  BY <1>1, <1>10 DEF Paths
<1> QED BY <1>2, <1>10, <1>11 DEF D

(* install_protection settles, whatever the bracket.                        *)
LEMMA ProtectionSettles ==
  ASSUME NEW E, NEW b \in Books, Tidy(E, b), NEW side \in Sides, NEW qty \in Nat,
         NEW bracket \in Seq(AnyPart)
  PROVE /\ Settles(E, b, InstallProtection(b, side, qty, bracket))
        /\ InstallProtection(b, side, qty, bracket).position = b.position
<1>1. CASE ~Laddered(bracket)
  BY <1>1, SettlesSame DEF InstallProtection
<1>2. CASE Laddered(bracket)
  <2> DEFINE parts == FittedParts(bracket, qty)
             X == {c \in Books : Settles(E, b, c) /\ c.position = b.position}
  <2>1. InstallProtection(b, side, qty, bracket) = Laid(side, b, parts)
    BY <1>2 DEF InstallProtection, PairAdded, Laid
  <2>2. parts \in Seq(AnyPart)
    BY <1>2, FittedAre DEF Laddered
  <2> HIDE DEF parts
  <2>3. \A n \in 1 .. Len(parts) : parts[n] \in AnyPart
    BY <2>2
  <2>4. ASSUME NEW n \in 1 .. Len(parts), NEW c \in X
        PROVE PairAdded(side, c, parts[n]) \in X
    <3>1. Tidy(E, c) /\ parts[n] \in AnyPart /\ c \in Books
      BY <2>3 DEF Settles
    <3>2. Settles(E, c, PairAdded(side, c, parts[n]))
          /\ PairAdded(side, c, parts[n]).position = c.position
      BY <3>1, PairSettles
    <3>3. Settles(E, b, PairAdded(side, c, parts[n]))
      BY <3>1, <3>2, SettlesOn
    <3> QED BY <3>2, <3>3 DEF Settles
  <2>5. b \in X
    BY SettlesSame
  <2> HIDE DEF X
  <2>s. \A n \in 1 .. Len(parts) : \A c \in X : PairAdded(side, c, parts[n]) \in X
    BY <2>4
  <2>6. Laid(side, b, parts) \in X
    BY <2>2, <2>s, <2>5, LadderStays
  <2> QED BY <2>1, <2>6 DEF X
<1> QED BY <1>1, <1>2

-----------------------------------------------------------------------------
(* Legs go. *)

(* A tidy list stays tidy when some of it is dropped.                       *)
LEMMA TidyPicks ==
  ASSUME NEW E, NEW b \in Books, Tidy(E, b), NEW c \in Books, c.ids = b.ids, c.ocos = b.ocos,
         NEW at, NEW kept, Picks(at, c.resting, b.resting, kept)
  PROVE Tidy(E, c)
<1> DEFINE r == c.resting
           s == b.resting
<1>1. /\ r \in Seq(Orders) /\ s \in Seq(Orders) /\ Len(r) \in Nat /\ Len(s) \in Nat
      /\ b.ids \in Nat /\ b.ocos \in Nat
  BY DEF Books
<1> HIDE DEF r, s
<1>2. /\ \A j \in 1 .. Len(r) : at[j] \in 1 .. Len(s)
      /\ \A j \in 1 .. Len(r) : r[j] = s[at[j]]
      /\ \A i, j \in 1 .. Len(r) : i < j => at[i] < at[j]
  BY DEF Picks, r, s
<1>3. \A i, j \in 1 .. Len(r) : at[i] = at[j] => i = j
  <2> SUFFICES ASSUME NEW i \in 1 .. Len(r), NEW j \in 1 .. Len(r), i # j PROVE at[i] # at[j]
    OBVIOUS
  <2>1. CASE i < j
    BY <1>1, <1>2, <2>1
  <2>2. CASE j < i
    BY <1>1, <1>2, <2>2
  <2> QED BY <1>1, <2>1, <2>2
<1>4. /\ E \subseteq 1 .. b.ids
      /\ \A i \in 1 .. Len(s) : s[i].id \in 1 .. b.ids
      /\ \A i, j \in 1 .. Len(s) : s[i].id = s[j].id => i = j
      /\ \A i \in 1 .. Len(s) : /\ s[i].oco \in 0 .. b.ocos
                                /\ Protective(s[i]) => s[i].oco # 0 /\ s[i].id \notin E
                                /\ ~Protective(s[i]) => s[i].oco = 0
      /\ \A i, j, k \in 1 .. Len(s) :
           s[i].oco # 0 /\ s[i].oco = s[j].oco /\ s[j].oco = s[k].oco => i = j \/ j = k \/ i = k
  BY DEF Tidy, s
<1>5. \A i, j \in 1 .. Len(r) : r[i].id = r[j].id => i = j
  BY <1>2, <1>3, <1>4
<1>6. \A i, j, k \in 1 .. Len(r) :
        r[i].oco # 0 /\ r[i].oco = r[j].oco /\ r[j].oco = r[k].oco => i = j \/ j = k \/ i = k
  <2> SUFFICES ASSUME NEW i \in 1 .. Len(r), NEW j \in 1 .. Len(r), NEW k \in 1 .. Len(r),
                      r[i].oco # 0, r[i].oco = r[j].oco, r[j].oco = r[k].oco
               PROVE i = j \/ j = k \/ i = k
    OBVIOUS
  <2>1. /\ at[i] \in 1 .. Len(s) /\ at[j] \in 1 .. Len(s) /\ at[k] \in 1 .. Len(s)
        /\ r[i] = s[at[i]] /\ r[j] = s[at[j]] /\ r[k] = s[at[k]]
    BY <1>2
  <2>2. s[at[i]].oco # 0 /\ s[at[i]].oco = s[at[j]].oco /\ s[at[j]].oco = s[at[k]].oco
    BY <2>1
  <2>3. at[i] = at[j] \/ at[j] = at[k] \/ at[i] = at[k]
    BY <1>4, <2>1, <2>2
  <2> QED BY <1>3, <2>3
<1>7. \A i \in 1 .. Len(r) :
        /\ r[i].id \in 1 .. c.ids
        /\ r[i].oco \in 0 .. c.ocos
        /\ Protective(r[i]) => r[i].oco # 0 /\ r[i].id \notin E
        /\ ~Protective(r[i]) => r[i].oco = 0
  BY <1>2, <1>4
<1>8. E \subseteq 1 .. c.ids
  BY <1>4
<1> QED BY <1>5, <1>6, <1>7, <1>8 DEF Tidy, r

(* A list of cancels about legs is mute of entries.                         *)
Cancels(os) == [i \in DOMAIN os |-> About("Cancelled", os[i])]

(* They are events, one for each order.                                     *)
LEMMA CancelsAre ==
  ASSUME NEW os \in Seq(Orders)
  PROVE /\ Cancels(os) \in Seq(Happenings) /\ Len(Cancels(os)) = Len(os)
        /\ \A i \in 1 .. Len(os) : /\ ~IsFill(Cancels(os)[i])
                                   /\ Cancels(os)[i].id = os[i].id
                                   /\ Cancels(os)[i].what = "Cancelled"
<1> DEFINE L == Len(os)
           r == [i \in 1 .. L |-> About("Cancelled", os[i])]
<1>1. L \in Nat /\ DOMAIN os = 1 .. L /\ \A i \in 1 .. L : os[i] \in Orders
  OBVIOUS
<1>2. Cancels(os) = r
  BY <1>1 DEF Cancels
<1>3. \A i \in 1 .. L : /\ About("Cancelled", os[i]) \in Happenings
                        /\ About("Cancelled", os[i]).id = os[i].id
                        /\ ~IsFill(About("Cancelled", os[i]))
                        /\ About("Cancelled", os[i]).what = "Cancelled"
  BY <1>1, AboutIs DEF Words
<1> HIDE DEF L
<1>4. r \in Seq(Happenings) /\ Len(r) = L /\ \A i \in 1 .. L : r[i] = About("Cancelled", os[i])
  BY <1>1, <1>3
<1> HIDE DEF r
<1> QED BY <1>2, <1>3, <1>4 DEF L

(* Sweeping settles the book, and leaves no leg.                            *)
LEMMA SweepSettles ==
  ASSUME NEW E, NEW b \in Books, Tidy(E, b)
  PROVE /\ Settles(E, b, Sweep(b)) /\ Sweep(b).position = b.position
        /\ \A i \in 1 .. Len(Sweep(b).resting) : ~Protective(Sweep(b).resting[i])
        /\ Sweep(b).ids = b.ids /\ Sweep(b).ocos = b.ocos
<1> DEFINE s == b.resting
           legs == Legs(s)
           keep == DOMAIN s \ legs
           r == Retained(s, keep)
           out == Retained(s, legs)
           es == b.events \o Cancels(out)
           c == [b EXCEPT !.resting = r, !.events = es]
<1>1. /\ s \in Seq(Orders) /\ Len(s) \in Nat /\ DOMAIN s = 1 .. Len(s)
      /\ b.ids \in Nat /\ b.ocos \in Nat /\ b.events \in Seq(Happenings)
  BY DEF Books
<1>2. Sweep(b) = c
  BY DEF Sweep, CancelEach, Cancels, Books
<1> HIDE DEF s
<1>3. r \in Seq(Orders) /\ \E at : Picks(at, r, s, keep)
  BY <1>1, RetainedPicks
<1>4. out \in Seq(Orders) /\ \E at : Picks(at, out, s, legs)
  BY <1>1, RetainedPicks
<1>5. legs = {i \in 1 .. Len(s) : Protective(s[i])}
      /\ keep = {i \in 1 .. Len(s) : ~Protective(s[i])}
  BY <1>1 DEF Legs
<1> HIDE DEF legs, keep, r, out
<1>6. PICK at : Picks(at, r, s, keep)
  BY <1>3
<1>7. PICK to : Picks(to, out, s, legs)
  BY <1>4
<1>8. \A i \in 1 .. Len(out) : out[i].id \notin E
  <2> SUFFICES ASSUME NEW i \in 1 .. Len(out) PROVE out[i].id \notin E
    OBVIOUS
  <2>1. to[i] \in 1 .. Len(s) /\ Protective(s[to[i]]) /\ out[i] = s[to[i]]
    BY <1>5, <1>7 DEF Picks
  <2> QED BY <2>1 DEF Tidy, s
<1>9. Cancels(out) \in Seq(Happenings)
      /\ \A i \in 1 .. Len(Cancels(out)) : ~IsFill(Cancels(out)[i]) /\ Cancels(out)[i].id \notin E
  BY <1>4, <1>8, CancelsAre
<1>10. Mute(E, b.events, es)
  BY <1>1, <1>9, MuteSame, MuteJoin
<1>11. es \in Seq(Happenings)
  BY <1>10 DEF Mute
<1> HIDE DEF es
<1>12. c \in Books
  BY <1>3, <1>11, BookWith
<1>13. /\ c.position = b.position /\ c.resting = r /\ c.kept = b.kept /\ c.placed = b.placed
       /\ c.touched = b.touched /\ c.ids = b.ids /\ c.ocos = b.ocos /\ c.events = es
  BY DEF Books
<1> HIDE DEF c
<1>14. Tidy(E, c)
  BY <1>6, <1>12, <1>13, TidyPicks DEF s
<1>15. \A i \in 1 .. Len(r) : at[i] \in 1 .. Len(s) /\ ~Protective(s[at[i]]) /\ r[i] = s[at[i]]
  BY <1>5, <1>6 DEF Picks
<1>16. EntriesIn(r) = EntriesIn(s)
  <2>1. ASSUME NEW x \in EntriesIn(r) PROVE x \in EntriesIn(s)
    <3>1. PICK i \in 1 .. Len(r) : ~Protective(r[i]) /\ x = r[i]
      BY <2>1, EntriesAre
    <3> QED BY <1>15, <3>1, EntriesAre
  <2>2. ASSUME NEW x \in EntriesIn(s) PROVE x \in EntriesIn(r)
    <3>1. PICK i \in 1 .. Len(s) : ~Protective(s[i]) /\ x = s[i]
      BY <2>2, EntriesAre
    <3>2. i \in keep \cap (1 .. Len(s))
      BY <1>5, <3>1
    <3>3. PICK j \in 1 .. Len(r) : at[j] = i
      BY <1>6, <3>2 DEF Picks
    <3> QED BY <1>15, <3>1, <3>3, EntriesAre
  <2> QED BY <2>1, <2>2
<1>17. \A i \in 1 .. Len(c.resting) :
         c.resting[i].oco \in 1 .. b.ocos =>
           \E j \in 1 .. Len(b.resting) : b.resting[j].oco = c.resting[i].oco
  BY <1>13, <1>15 DEF s
<1>18. Settles(E, b, c)
  BY <1>1, <1>10, <1>12, <1>13, <1>14, <1>16, <1>17 DEF Settles, s
<1> QED BY <1>2, <1>13, <1>15, <1>18

-----------------------------------------------------------------------------
(* Entries. *)

(* A new position settles the book it is written in.                        *)
LEMMA Positioned ==
  ASSUME NEW E, NEW b \in Books, Tidy(E, b), NEW p \in Positions
  PROVE LET z == [b EXCEPT !.position = p] IN
        /\ z \in Books /\ Tidy(E, z) /\ Settles(E, b, z) /\ z.position = p
        /\ z.resting = b.resting /\ z.events = b.events /\ z.ids = b.ids /\ z.ocos = b.ocos
<1> DEFINE z == [b EXCEPT !.position = p]
<1>1. /\ z \in Books /\ z.position = p /\ z.resting = b.resting /\ z.events = b.events
      /\ z.ids = b.ids /\ z.ocos = b.ocos /\ z.kept = b.kept /\ z.placed = b.placed
      /\ z.touched = b.touched
  BY DEF Books
<1> HIDE DEF z
<1>2. Tidy(E, z)
  BY <1>1 DEF Tidy
<1>3. b.events \in Seq(Happenings) /\ b.ids \in Nat /\ b.ocos \in Nat
  BY DEF Books
<1>4. Settles(E, b, z)
  BY <1>1, <1>2, <1>3, MuteSame DEF Settles
<1> QED BY <1>1, <1>2, <1>4 DEF z

(* The pair a bracket gives its position.                                   *)
LEMMA PairIs ==
  ASSUME NEW bracket \in Seq(AnyPart)
  PROVE StopOf(bracket) \in Levels /\ TargetOf(bracket) \in Levels
<1>1. CASE Whole(bracket)
  <2>1. bracket[1] \in AnyPart
    <3>1. Len(bracket) = 1
      BY <1>1 DEF Whole
    <3> QED BY <3>1
  <2> QED BY <1>1, <2>1 DEF AnyPart, StopOf, TargetOf
<1>2. CASE ~Whole(bracket)
  BY <1>2, LevelsAreNat DEF StopOf, TargetOf
<1> QED BY <1>1, <1>2

(* A position opens with its protection, and no entry notices.              *)
LEMMA OpeningSettles ==
  ASSUME NEW E, NEW b \in Books, Tidy(E, b), NEW side \in Sides, NEW qty \in Nat \ {0},
         NEW bracket \in Seq(AnyPart)
  PROVE LET c == OpenPosition(b, side, qty, bracket) IN
        Settles(E, b, c) /\ c.position.side = side /\ c.position.qty = qty
<1> DEFINE p == [side |-> side, qty |-> qty, stop |-> StopOf(bracket),
                 target |-> TargetOf(bracket)]
           z == [b EXCEPT !.position = p]
<1>1. p \in Positions /\ p.side = side /\ p.qty = qty
  BY PairIs DEF Positions
<1>2. OpenPosition(b, side, qty, bracket) = InstallProtection(z, side, qty, bracket)
  BY DEF OpenPosition
<1> HIDE DEF p
<1>3. z \in Books /\ Tidy(E, z) /\ Settles(E, b, z) /\ z.position = p
  BY <1>1, Positioned
<1> HIDE DEF z
<1>4. /\ Settles(E, z, InstallProtection(z, side, qty, bracket))
      /\ InstallProtection(z, side, qty, bracket).position = z.position
  BY <1>3, ProtectionSettles
<1> QED BY <1>1, <1>2, <1>3, <1>4, SettlesOn

(* Averaging in: the same side, and more of it.                             *)
LEMMA AveragingSettles ==
  ASSUME NEW E, NEW b \in Books, Tidy(E, b), b.position # Flat, NEW o \in Orders,
         NEW bracket \in Seq(AnyPart)
  PROVE LET c == AverageIn(b, o, bracket) IN
        /\ Settles(E, b, c) /\ c.position.side = b.position.side
        /\ c.position.qty = b.position.qty + o.qty
<1> DEFINE p == b.position
           n == p.qty + o.qty
           q == [side |-> p.side, qty |-> n,
                 stop   |-> IF StopOf(bracket) # Unset THEN StopOf(bracket) ELSE p.stop,
                 target |-> IF TargetOf(bracket) # Unset THEN TargetOf(bracket) ELSE p.target]
           z == [b EXCEPT !.position = q]
           y == Sweep(z)
<1>1. /\ p \in Positions /\ p.side \in Sides /\ p.qty \in Nat \ {0} /\ p.stop \in Levels
      /\ p.target \in Levels
  <2>1. p \in Positions
    BY DEF Books
  <2> QED BY <2>1, PositionIs
<1>2. o.qty \in Nat \ {0} /\ o.side \in Sides
  BY DEF Orders
<1>3. n \in Nat \ {0}
  BY <1>1, <1>2
<1> HIDE DEF n
<1>4. q \in Positions /\ q.side = p.side /\ q.qty = n
  BY <1>1, <1>3, PairIs DEF Positions
<1>5. AverageIn(b, o, bracket) = IF Laddered(bracket)
                                 THEN InstallProtection(y, o.side, n, bracket) ELSE z
  BY DEF AverageIn, n
<1> HIDE DEF q, p
<1>6. z \in Books /\ Tidy(E, z) /\ Settles(E, b, z) /\ z.position = q
  BY <1>4, Positioned
<1> HIDE DEF z
<1>7. Settles(E, z, y) /\ y.position = q
  BY <1>6, SweepSettles
<1> HIDE DEF y
<1>8. y \in Books /\ Tidy(E, y)
  BY <1>7 DEF Settles
<1> DEFINE w == InstallProtection(y, o.side, n, bracket)
<1>9. Settles(E, y, w) /\ w.position = q
  BY <1>2, <1>3, <1>7, <1>8, ProtectionSettles
<1> HIDE DEF w
<1>10. Settles(E, b, w)
  <2>1. Settles(E, b, y)
    BY <1>6, <1>7, SettlesOn
  <2> QED BY <1>9, <2>1, SettlesOn
<1> QED BY <1>4, <1>5, <1>6, <1>9, <1>10 DEF w, n, p

(* Netting: what the order has over the position is opened the other way.   *)
LEMMA NettingSettles ==
  ASSUME NEW E, NEW b \in Books, Tidy(E, b), b.position # Flat, NEW o \in Orders,
         NEW bracket \in Seq(AnyPart)
  PROVE LET c == Net(b, o, bracket) IN
        /\ Settles(E, b, c)
        /\ \/ /\ c.position.side = b.position.side
              /\ o.qty < b.position.qty /\ c.position.qty = b.position.qty - o.qty
           \/ c.position.qty = 0 /\ o.qty = b.position.qty
           \/ /\ c.position.side = o.side
              /\ o.qty > b.position.qty /\ c.position.qty = o.qty - b.position.qty
<1> DEFINE p == b.position
           n == p.qty - o.qty
           m == o.qty - p.qty
           q == [p EXCEPT !.qty = n]
           z == [b EXCEPT !.position = q]
           y == [b EXCEPT !.position = Flat]
           x == Sweep(y)
           w == OpenPosition(x, o.side, m, bracket)
<1>1. /\ p \in Positions /\ p.side \in Sides /\ p.qty \in Nat \ {0}
      /\ p \in [side : Sides, qty : Nat \ {0}, stop : Levels, target : Levels]
  <2>1. p \in Positions
    BY DEF Books
  <2> QED BY <2>1, PositionIs
<1>2. o.qty \in Nat \ {0} /\ o.side \in Sides
  BY DEF Orders
<1>3. Net(b, o, bracket) = IF p.qty > o.qty THEN z ELSE IF o.qty > p.qty THEN w ELSE x
  <2>1. [b EXCEPT !.position.qty = @ - o.qty] = z
    BY DEF Books
  <2>2. x.position = Flat
    <3>1. y \in Books /\ Tidy(E, y) /\ y.position = Flat
      <4>1. Flat \in Positions
        BY DEF Positions
      <4> QED BY <4>1, Positioned
    <3> HIDE DEF y
    <3> QED BY <3>1, SweepSettles
  <2>3. OpensRemainder(b, o) = (o.qty > p.qty) /\ Remainder(b, o) = m
    BY DEF OpensRemainder, Remainder
  <2> HIDE DEF y, z, w
  <2> QED BY <2>1, <2>3 DEF Net, w, y
<1>4. CASE p.qty > o.qty
  <2>1. n \in Nat \ {0}
    BY <1>1, <1>2, <1>4
  <2> HIDE DEF n
  <2>2. q \in Positions /\ q.side = p.side /\ q.qty = n
    BY <1>1, <2>1 DEF Positions
  <2> HIDE DEF q, p
  <2>3. Settles(E, b, z) /\ z.position = q
    BY <2>2, Positioned
  <2> HIDE DEF z
  <2> QED BY <1>1, <1>2, <1>3, <1>4, <2>2, <2>3 DEF n, p
<1>5. CASE ~(p.qty > o.qty)
  <2>1. y \in Books /\ Tidy(E, y) /\ Settles(E, b, y) /\ y.position = Flat
    <3>1. Flat \in Positions
      BY DEF Positions
    <3> QED BY <3>1, Positioned
  <2> HIDE DEF y
  <2>2. Settles(E, y, x) /\ x.position = Flat
    BY <2>1, SweepSettles
  <2> HIDE DEF x
  <2>3. x \in Books /\ Tidy(E, x) /\ Settles(E, b, x)
    <3>1. Settles(E, b, x)
      BY <2>1, <2>2, SettlesOn
    <3> QED BY <3>1 DEF Settles
  <2>4. CASE o.qty > p.qty
    <3>1. m \in Nat \ {0}
      BY <1>1, <1>2, <2>4
    <3> HIDE DEF m, p
    <3>2. Settles(E, x, w) /\ w.position.side = o.side /\ w.position.qty = m
      BY <1>2, <2>3, <3>1, OpeningSettles
    <3> HIDE DEF w
    <3>3. Settles(E, b, w)
      BY <2>3, <3>2, SettlesOn
    <3> QED BY <1>1, <1>2, <1>3, <1>5, <2>4, <3>2, <3>3 DEF m, p
  <2>5. CASE ~(o.qty > p.qty)
    <3>1. Net(b, o, bracket) = x /\ o.qty = p.qty
      BY <1>1, <1>2, <1>3, <1>5, <2>5
    <3>2. x.position.qty = 0
      BY <2>2 DEF Flat
    <3> QED BY <2>3, <3>1, <3>2 DEF p
  <2> QED BY <2>4, <2>5
<1> QED BY <1>4, <1>5

(* What is left of a bracket at the fill is a bracket.                      *)
LEMMA AdmissibleIs ==
  ASSUME NEW s \in Sides, NEW at, NEW b \in Seq(AnyPart)
  PROVE Admissible(s, at, b) \in Seq(AnyPart)
<1> DEFINE honest(p) == [p EXCEPT !.stop = IF @ # Unset /\ Below(s, at, @) THEN Unset ELSE @,
                           !.target = IF @ # Unset /\ Below(s, @, at) THEN Unset ELSE @]
           h == [i \in DOMAIN b |-> honest(b[i])]
           kept == {i \in DOMAIN b : ~Empty(honest(b[i]))}
           L == Len(b)
<1>1. Admissible(s, at, b) = Retained(h, kept)
  BY DEF Admissible
<1>2. L \in Nat /\ DOMAIN b = 1 .. L /\ \A i \in 1 .. L : b[i] \in AnyPart
  OBVIOUS
<1>3. \A i \in 1 .. L : honest(b[i]) \in AnyPart
  <2> SUFFICES ASSUME NEW i \in 1 .. L PROVE honest(b[i]) \in AnyPart
    OBVIOUS
  <2>1. b[i] \in AnyPart
    BY <1>2
  <2> QED BY <2>1, LevelsAreNat DEF AnyPart
<1> HIDE DEF honest, L
<1>4. h = [i \in 1 .. L |-> honest(b[i])]
  BY <1>2
<1>5. h \in Seq(AnyPart)
  BY <1>2, <1>3, <1>4
<1> HIDE DEF h, kept
<1> QED BY <1>1, <1>5, RetainedPicks

(* The signed holding, as sides and quantities go.                          *)
LEMMA SignedIs ==
  ASSUME NEW side \in Sides, NEW qty \in Nat
  PROVE /\ Signed(side, qty) \in Int
        /\ Signed(Opposite(side), qty) = -Signed(side, qty)
        /\ Signed(side, qty) = 0 <=> qty = 0
        /\ Opposite(side) \in Sides
        /\ \A o \in Sides : o # side => o = Opposite(side)
        /\ Signed(side, qty) = IF side = "Sell" THEN -qty ELSE qty
BY DEF Signed, Opposite, Sides

(* The book as the fill of an entry is reported.                            *)
Told(b, o) == Emit(b, About("Filled", o))

(* An event told leaves the rest of the book alone.                         *)
LEMMA TellingKeeps ==
  ASSUME NEW E, NEW b \in Books, Tidy(E, b), NEW e \in Happenings
  PROVE LET c == Emit(b, e) IN
        /\ c \in Books /\ Tidy(E, c) /\ c.position = b.position /\ c.ids = b.ids
        /\ c.ocos = b.ocos /\ c.kept = b.kept /\ c.placed = b.placed /\ c.touched = b.touched
        /\ c.resting = b.resting /\ c.events = Append(b.events, e)
        /\ (~IsFill(e) /\ e.id \notin E => Settles(E, b, c))
<1> DEFINE es == Append(b.events, e)
           c == [b EXCEPT !.events = es]
<1>1. b.events \in Seq(Happenings) /\ b.ids \in Nat /\ b.ocos \in Nat
  BY DEF Books
<1>2. es \in Seq(Happenings)
  BY <1>1, Appended
<1>m. ~IsFill(e) /\ e.id \notin E => Mute(E, b.events, es)
  BY <1>1, MuteSame, MuteMore
<1> HIDE DEF es
<1>3. c \in Books
  <2>1. b.resting \in Seq(Orders)
    BY DEF Books
  <2> QED BY <1>1, <1>2, <2>1, BookWith
<1>4. /\ c.position = b.position /\ c.ids = b.ids
      /\ c.ocos = b.ocos /\ c.kept = b.kept /\ c.placed = b.placed /\ c.touched = b.touched
      /\ c.resting = b.resting /\ c.events = es
  BY DEF Books
<1> HIDE DEF c
<1>5. Tidy(E, c)
  BY <1>4 DEF Tidy
<1>6. ~IsFill(e) /\ e.id \notin E => Settles(E, b, c)
  BY <1>1, <1>3, <1>4, <1>5, <1>m DEF Settles
<1>7. Emit(b, e) = c
  BY DEF Emit, c, es
<1> QED BY <1>3, <1>4, <1>5, <1>6, <1>7 DEF es

(* A fill of an entry is told first, and then the book settles; the holding *)
(* has moved by it.                                                         *)
LEMMA EntryFills ==
  ASSUME NEW E, NEW b \in Books, Tidy(E, b), NEW o \in Orders, NEW at,
         o.bracket \in Seq(AnyPart)
  PROVE LET c == FillEntry(b, o, at) IN
        /\ Settles(E, Told(b, o), c)
        /\ Holding(c) = Holding(b) + Signed(o.side, o.qty)
<1> DEFINE bracket == Admissible(o.side, at, o.bracket)
           entered == Told(b, o)
           filled == IF bracket = o.bracket THEN entered
                     ELSE Emit(entered, Remark("BracketDropped"))
           c == FillEntry(b, o, at)
<1>1. o.side \in Sides /\ o.qty \in Nat \ {0} /\ About("Filled", o) \in Happenings
  <2>1. About("Filled", o) \in Happenings
    BY AboutIs DEF Words
  <2> QED BY <2>1 DEF Orders
<1>2. bracket \in Seq(AnyPart)
  BY <1>1, AdmissibleIs
<1>3. entered \in Books /\ Tidy(E, entered) /\ entered.position = b.position
  BY <1>1, TellingKeeps DEF Told
<1>4. c = IF b.position = Flat THEN OpenPosition(filled, o.side, o.qty, bracket)
          ELSE IF b.position.side = o.side THEN AverageIn(filled, o, bracket)
          ELSE Net(filled, o, bracket)
  BY DEF FillEntry, Told
<1> HIDE DEF entered, bracket, c
<1>5. filled \in Books /\ Tidy(E, filled) /\ filled.position = b.position
      /\ Settles(E, entered, filled)
  <2>1. CASE bracket = o.bracket
    BY <1>3, <2>1, SettlesSame
  <2>2. CASE bracket # o.bracket
    <3> DEFINE e == Remark("BracketDropped")
    <3>1. e \in Happenings /\ ~IsFill(e) /\ e.id = 0
      BY DEF Remark, Happenings, Words, Roles, Sides, Unset, IsFill
    <3>2. 0 \notin E
      <4>1. E \subseteq 1 .. b.ids /\ b.ids \in Nat
        BY DEF Tidy, Books
      <4> QED BY <4>1
    <3> HIDE DEF e
    <3>3. /\ Emit(entered, e) \in Books /\ Tidy(E, Emit(entered, e))
          /\ Emit(entered, e).position = entered.position
          /\ Settles(E, entered, Emit(entered, e))
      BY <1>3, <3>1, <3>2, TellingKeeps
    <3>4. filled = Emit(entered, e)
      BY <2>2 DEF e
    <3> HIDE DEF filled
    <3> QED BY <1>3, <3>3, <3>4
  <2> QED BY <2>1, <2>2
<1> HIDE DEF filled
<1>6. b.position \in Positions
  BY DEF Books
<1>7. /\ b.position.side \in Sides /\ b.position.qty \in Nat
      /\ b.position = Flat <=> b.position.qty = 0
  BY <1>6, PositionIs
<1>8. CASE b.position = Flat
  <2>1. Settles(E, filled, c) /\ c.position.side = o.side /\ c.position.qty = o.qty
    BY <1>1, <1>2, <1>4, <1>5, <1>8, OpeningSettles
  <2>2. Holding(b) = 0 /\ Signed(o.side, o.qty) \in Int /\ Holding(c) = Signed(o.side, o.qty)
    BY <1>1, <1>7, <1>8, <2>1, SignedIs DEF Holding
  <2>3. Settles(E, entered, c)
    BY <1>3, <1>5, <2>1, SettlesOn
  <2> QED BY <2>2, <2>3 DEF entered, c
<1>9. CASE b.position # Flat /\ b.position.side = o.side
  <2>1. c = AverageIn(filled, o, bracket)
    BY <1>4, <1>9
  <2>2. /\ Settles(E, filled, c) /\ c.position.side = b.position.side
        /\ c.position.qty = b.position.qty + o.qty
    BY <1>2, <1>5, <1>9, <2>1, AveragingSettles
  <2>3. Holding(c) = Holding(b) + Signed(o.side, o.qty)
    BY <1>1, <1>7, <1>9, <2>2 DEF Holding, Signed
  <2>4. Settles(E, entered, c)
    BY <1>3, <1>5, <2>2, SettlesOn
  <2> QED BY <2>3, <2>4 DEF entered, c
<1>10. CASE b.position # Flat /\ b.position.side # o.side
  <2>1. c = Net(filled, o, bracket)
    BY <1>4, <1>10
  <2>2. /\ Settles(E, filled, c)
        /\ \/ /\ c.position.side = b.position.side
              /\ o.qty < b.position.qty /\ c.position.qty = b.position.qty - o.qty
           \/ c.position.qty = 0 /\ o.qty = b.position.qty
           \/ /\ c.position.side = o.side
              /\ o.qty > b.position.qty /\ c.position.qty = o.qty - b.position.qty
    BY <1>2, <1>5, <1>10, <2>1, NettingSettles
  <2>3. Holding(c) = Holding(b) + Signed(o.side, o.qty)
    <3>1. \/ b.position.side = "Buy" /\ o.side = "Sell"
          \/ b.position.side = "Sell" /\ o.side = "Buy"
      BY <1>1, <1>7, <1>10 DEF Sides
    <3>2. o.qty \in Nat
      BY <1>1
    <3>3. CASE c.position.side = b.position.side /\ c.position.qty = b.position.qty - o.qty
      BY <1>7, <3>1, <3>2, <3>3 DEF Holding, Signed
    <3>4. CASE c.position.qty = 0 /\ o.qty = b.position.qty
      BY <1>7, <3>1, <3>2, <3>4 DEF Holding, Signed
    <3>5. CASE c.position.side = o.side /\ c.position.qty = o.qty - b.position.qty
      BY <1>7, <3>1, <3>2, <3>5 DEF Holding, Signed
    <3> QED BY <2>2, <3>3, <3>4, <3>5
  <2>4. Settles(E, entered, c)
    BY <1>3, <1>5, <2>2, SettlesOn
  <2> QED BY <2>3, <2>4 DEF entered, c
<1> QED BY <1>8, <1>9, <1>10

-----------------------------------------------------------------------------
(* Exits. *)

(* A close reduces what is held, and says by how much; of a flat account it *)
(* is nothing.                                                              *)
Closes(E, b, role, oco, c) ==
  /\ \E e \in Happenings :
       /\ e.what = "Filled" /\ e.role = role /\ e.id = 0 /\ e.oco = oco
       /\ e.side = Opposite(b.position.side)
       /\ e.qty > 0 /\ e.qty <= b.position.qty
       /\ c.events = Append(b.events, e)
       /\ Holding(c) = Holding(b) + Signed(e.side, e.qty)
  /\ c \in Books /\ Tidy(E, c) /\ c.ids = b.ids /\ c.ocos = b.ocos
  /\ c.kept = b.kept /\ c.placed = b.placed /\ c.touched = b.touched
  /\ c.resting = b.resting

(* close_quantity_at does one of these two.                                 *)
LEMMA CloseIs ==
  ASSUME NEW E, NEW b \in Books, Tidy(E, b), NEW qty \in Nat \ {0},
         NEW role \in Roles, NEW oco \in Nat
  PROVE LET c == CloseQuantity(b, qty, role, oco) IN
        IF b.position = Flat THEN c = b ELSE Closes(E, b, role, oco, c)
<1> DEFINE p == b.position
           n == Closable(b, qty)
           e == Fill(role, Opposite(p.side), n, oco)
           f == Emit(b, e)
           m == p.qty - n
           q == [p EXCEPT !.qty = m]
           c == CloseQuantity(b, qty, role, oco)
<1>1. CASE p = Flat
  BY <1>1 DEF CloseQuantity
<1>2. CASE p # Flat
  <2>1. /\ p \in Positions /\ p.side \in Sides /\ p.qty \in Nat \ {0}
        /\ p \in [side : Sides, qty : Nat \ {0}, stop : Levels, target : Levels]
    <3>1. p \in Positions
      BY DEF Books
    <3> QED BY <1>2, <3>1, PositionIs
  <2>2. n \in Nat \ {0} /\ n <= p.qty
    <3>1. n \in {p.qty, qty} /\ n <= p.qty
      BY <2>1, LesserIs DEF Closable
    <3> QED BY <2>1, <3>1
  <2>3. c = IF p.qty > n THEN [f EXCEPT !.position.qty = @ - n] ELSE [f EXCEPT !.position = Flat]
    BY <1>2 DEF CloseQuantity
  <2> HIDE DEF n
  <2>4. Opposite(p.side) \in Sides
    BY <2>1, SignedIs
  <2>5. /\ e \in Happenings /\ e.what = "Filled" /\ e.role = role /\ e.id = 0 /\ e.oco = oco
        /\ e.side = Opposite(p.side) /\ e.qty = n
    BY <2>2, <2>4 DEF Fill, Happenings, Words, Unset
  <2> HIDE DEF e, c
  <2>6. /\ f \in Books /\ Tidy(E, f) /\ f.position = p /\ f.ids = b.ids
        /\ f.ocos = b.ocos /\ f.kept = b.kept /\ f.placed = b.placed /\ f.touched = b.touched
        /\ f.resting = b.resting /\ f.events = Append(b.events, e)
    BY <2>5, TellingKeeps
  <2> HIDE DEF f, p
  <2>7. ASSUME NEW z \in Positions, c = [f EXCEPT !.position = z]
        PROVE /\ c \in Books /\ Tidy(E, c) /\ c.ids = b.ids /\ c.ocos = b.ocos
              /\ c.kept = b.kept /\ c.placed = b.placed /\ c.touched = b.touched
              /\ c.resting = b.resting /\ c.position = z /\ c.events = Append(b.events, e)
    <3>1. /\ c \in Books /\ Tidy(E, c) /\ Settles(E, f, c) /\ c.position = z
          /\ c.resting = f.resting /\ c.events = f.events /\ c.ids = f.ids /\ c.ocos = f.ocos
      BY <2>6, <2>7, Positioned
    <3> QED BY <2>6, <3>1 DEF Settles
  <2>8. CASE p.qty > n
    <3>1. m \in Nat \ {0}
      BY <2>1, <2>2, <2>8
    <3> HIDE DEF m
    <3>2. q \in Positions /\ q.side = p.side /\ q.qty = m
      BY <2>1, <3>1 DEF Positions
    <3>3. c = [f EXCEPT !.position = q]
      <4>1. [f EXCEPT !.position.qty = @ - n] = [f EXCEPT !.position = q]
        BY <2>6 DEF m
      <4> QED BY <2>3, <2>8, <4>1
    <3> HIDE DEF q
    <3>4. /\ c \in Books /\ Tidy(E, c) /\ c.ids = b.ids /\ c.ocos = b.ocos
          /\ c.kept = b.kept /\ c.placed = b.placed /\ c.touched = b.touched
          /\ c.resting = b.resting /\ c.position = q /\ c.events = Append(b.events, e)
      BY <2>7, <3>2, <3>3
    <3>5. Holding(c) = Holding(b) + Signed(e.side, e.qty)
      BY <2>1, <2>2, <2>5, <3>2, <3>4 DEF Holding, Signed, Opposite, Sides, p, m
    <3> QED BY <1>2, <2>2, <2>5, <3>4, <3>5 DEF c, p, Closes
  <2>9. CASE ~(p.qty > n)
    <3>1. n = p.qty
      BY <2>1, <2>2, <2>9
    <3>2. Flat \in Positions
      BY DEF Positions
    <3>3. c = [f EXCEPT !.position = Flat]
      BY <2>3, <2>9
    <3>4. /\ c \in Books /\ Tidy(E, c) /\ c.ids = b.ids /\ c.ocos = b.ocos
          /\ c.kept = b.kept /\ c.placed = b.placed /\ c.touched = b.touched
          /\ c.resting = b.resting /\ c.position = Flat /\ c.events = Append(b.events, e)
      BY <2>7, <3>2, <3>3
    <3>5. Holding(c) = Holding(b) + Signed(e.side, e.qty)
      BY <2>1, <2>2, <2>5, <3>1, <3>4 DEF Holding, Signed, Opposite, Sides, p, Flat
    <3> QED BY <1>2, <2>2, <2>5, <3>4, <3>5 DEF c, p, Closes
  <2> QED BY <2>8, <2>9
<1> QED BY <1>1, <1>2 DEF p

-----------------------------------------------------------------------------
(* What the fills of a call add up to. *)

(* The holding after each event, from h before the first.                   *)
Running(h, es) ==
  {T \in [0 .. Len(es) -> Int] : T[0] = h /\ \A k \in 1 .. Len(es) : T[k] = Moved(T[k - 1], es[k])}

(* One event moves the holding by its fill, or not at all.                  *)
LEMMA MovedIs ==
  ASSUME NEW n \in Int, NEW e \in Happenings
  PROVE /\ Moved(n, e) \in Int
        /\ ~IsFill(e) => Moved(n, e) = n
        /\ IsFill(e) => Moved(n, e) = n + Signed(e.side, e.qty)
<1>1. e.side \in Sides /\ e.qty \in Nat
  BY DEF Happenings
<1>2. Signed(e.side, e.qty) \in Int
  BY <1>1, SignedIs
<1> QED BY <1>2 DEF Moved

(* The tally of a list is where some running holding ends.                  *)
LEMMA TallyEnds ==
  ASSUME NEW h \in Int, NEW es \in Seq(Happenings)
  PROVE \E T \in Running(h, es) : T[Len(es)] = Tally(h, es)
<1> DEFINE L == Len(es)
           D == 1 .. L
           X == Int
           step == [n \in 1 .. L |-> [x \in X |-> Moved(x, es[n])]]
           body(g) == [s \in SUBSET D |-> IF s = {} THEN h
                                          ELSE Moved(g[s \ {Max(s)}], es[Max(s)])]
           iter == CHOOSE g : g = body(g)
<1>1. L \in Nat /\ DOMAIN es = D /\ \A n \in 1 .. L : es[n] \in Happenings
  OBVIOUS
<1>2. Tally(h, es) = iter[D]
  BY <1>1 DEF Tally, FoldLeft, MapThenFoldSet
<1>s. \A s \in SUBSET D : s # {} => Max(s) \in D
  BY <1>1, PartsOfUpto
<1>d. step \in [1 .. L -> [X -> X]]
  BY <1>1, MovedIs
<1>5. \A n \in D : \A x \in X : step[n][x] = Moved(x, es[n])
  OBVIOUS
<1>h. h \in X
  OBVIOUS
<1> HIDE DEF L, step, X
<1>3. PICK f \in Folding(L, X, h, step) : TRUE
  BY <1>1, <1>d, <1>h, FoldingExists
<1>4. /\ f \in [SUBSET D -> X]
      /\ \A s \in SUBSET D : f[s] = IF s = {} THEN h ELSE step[Max(s)][f[s \ {Max(s)}]]
  BY <1>3 DEF Folding
<1>d2. D = 1 .. L
  OBVIOUS
<1> HIDE DEF D
<1>6. \A s \in SUBSET D : f[s] = IF s = {} THEN h ELSE Moved(f[s \ {Max(s)}], es[Max(s)])
  <2> SUFFICES ASSUME NEW s \in SUBSET D, s # {}
               PROVE f[s] = Moved(f[s \ {Max(s)}], es[Max(s)])
    BY <1>4
  <2>1. Max(s) \in D /\ f[s \ {Max(s)}] \in X
    BY <1>4, <1>s
  <2> QED BY <1>4, <1>5, <2>1
<1>7. f = body(f)
  BY <1>4, <1>6
<1>8. iter = body(iter)
  BY <1>7
<1> HIDE DEF iter
<1>9. FoldsLike(iter, L, X, h, step)
  <2>1. iter[{}] = h
    BY <1>8
  <2>2. ASSUME NEW s \in SUBSET D, s # {}, iter[s \ {Max(s)}] \in X
        PROVE iter[s] = step[Max(s)][iter[s \ {Max(s)}]]
    <3>1. iter[s] = Moved(iter[s \ {Max(s)}], es[Max(s)])
      BY <1>8, <2>2
    <3> QED BY <1>5, <1>s, <2>2, <3>1
  <2> QED BY <2>1, <2>2 DEF FoldsLike, D
<1>10. PICK t \in Paths(L, X, h, step) : t[L] = iter[1 .. L]
  BY <1>1, <1>9, <1>d, <1>h, FoldingPath
<1>11. t \in [0 .. L -> X] /\ t[0] = h /\ \A n \in 1 .. L : t[n] = step[n][t[n - 1]]
  BY <1>10 DEF Paths
<1>12. \A n \in 1 .. L : t[n] = Moved(t[n - 1], es[n])
  <2> SUFFICES ASSUME NEW n \in 1 .. L PROVE t[n] = Moved(t[n - 1], es[n])
    OBVIOUS
  <2>1. n - 1 \in 0 .. L /\ n \in D
    BY <1>1, <1>d2
  <2> QED BY <1>5, <1>11, <2>1
<1>13. t \in Running(h, es)
  BY <1>11, <1>12 DEF Running, L, X
<1> QED BY <1>2, <1>10, <1>13, <1>d2 DEF L

(* Running holdings agree as far as their events do.                        *)
LEMMA RunningIs ==
  ASSUME NEW h, NEW es \in Seq(Happenings), NEW fs \in Seq(Happenings), Len(es) <= Len(fs),
         \A i \in 1 .. Len(es) : es[i] = fs[i],
         NEW T \in Running(h, es), NEW U \in Running(h, fs)
  PROVE \A k \in 0 .. Len(es) : T[k] = U[k]
<1> DEFINE L == Len(es)
           G == {k \in 0 .. L : T[k] = U[k]}
<1>1. L \in Nat /\ Len(fs) \in Nat /\ L <= Len(fs)
  OBVIOUS
<1>2. /\ T[0] = h /\ \A k \in 1 .. L : T[k] = Moved(T[k - 1], es[k])
      /\ U[0] = h /\ \A k \in 1 .. Len(fs) : U[k] = Moved(U[k - 1], fs[k])
  BY DEF Running
<1>3. 0 \in G
  BY <1>1, <1>2
<1>4. \A k \in 1 .. L : k - 1 \in G => k \in G
  <2> SUFFICES ASSUME NEW k \in 1 .. L, k - 1 \in G PROVE T[k] = U[k]
    OBVIOUS
  <2>1. k \in 1 .. Len(fs) /\ es[k] = fs[k] /\ T[k - 1] = U[k - 1]
    BY <1>1
  <2> QED BY <1>2, <2>1
<1> HIDE DEF G, L
<1>5. \A k \in 0 .. L : k \in G
  BY <1>1, <1>3, <1>4, Upward
<1> QED BY <1>5 DEF G, L

(* So the tally of the first k events is the running holding after k.       *)
LEMMA TallyRuns ==
  ASSUME NEW h \in Int, NEW es \in Seq(Happenings), NEW T \in Running(h, es),
         NEW k \in 0 .. Len(es)
  PROVE Tally(h, SubSeq(es, 1, k)) = T[k]
<1> DEFINE fs == SubSeq(es, 1, k)
<1>1. Len(es) \in Nat /\ k \in Nat /\ k <= Len(es) /\ \A i \in 1 .. Len(es) : es[i] \in Happenings
  OBVIOUS
<1>2. fs \in Seq(Happenings) /\ Len(fs) = k /\ \A i \in 1 .. k : fs[i] = es[i]
  <2>0. \A i \in 1 .. k : i \in 1 .. Len(es)
    BY <1>1
  <2>1. \A i \in 1 .. k : es[i] \in Happenings
    BY <1>1, <2>0
  <2>2. 1 \in Int /\ k \in Int /\ (IF 1 <= k THEN k - 1 + 1 ELSE 0) = k
    BY <1>1
  <2>3. fs \in Seq(Happenings) /\ Len(fs) = k /\ \A i \in 1 .. Len(fs) : fs[i] = es[1 + i - 1]
    BY <2>1, <2>2, SubSeqProperties
  <2>4. \A i \in 1 .. k : 1 + i - 1 = i
    OBVIOUS
  <2> QED BY <2>3, <2>4
<1> HIDE DEF fs
<1>3. PICK U \in Running(h, fs) : U[Len(fs)] = Tally(h, fs)
  BY <1>2, TallyEnds
<1>4. \A j \in 0 .. Len(fs) : U[j] = T[j]
  BY <1>1, <1>2, RunningIs, SMTT(20)
<1> QED BY <1>1, <1>2, <1>3, <1>4 DEF fs

(* How the holding went from h to n: no exit took more than was held, and   *)
(* none of Z was filled but into a flat account.                            *)
Explained(h, Z, es, n) ==
  \E T \in Running(h, es) :
    /\ T[Len(es)] = n
    /\ \A i \in 1 .. Len(es) : IsFill(es[i]) =>
         /\ es[i].role # "Entry" =>
              /\ es[i].qty > 0
              /\ es[i].qty <= (IF es[i].side = "Sell" THEN T[i - 1] ELSE -T[i - 1])
         /\ es[i].id \in Z => T[i - 1] = 0

(* Nothing happened, nothing moved.                                         *)
LEMMA ExplainedNone ==
  ASSUME NEW h \in Int, NEW Z, NEW es, es = <<>> PROVE Explained(h, Z, es, h)
<1> DEFINE T == [k \in 0 .. 0 |-> h]
<1>1. Len(es) = 0
  OBVIOUS
<1>2. T \in Running(h, es) /\ T[Len(es)] = h
  BY <1>1 DEF Running
<1> HIDE DEF T
<1> QED BY <1>1, <1>2 DEF Explained

(* One event more.                                                          *)
LEMMA ExplainedMore ==
  ASSUME NEW h \in Int, NEW Z, NEW es \in Seq(Happenings), NEW n, Explained(h, Z, es, n),
         NEW e \in Happenings,
         IsFill(e) /\ e.role # "Entry" => e.qty > 0 /\ e.qty <= (IF e.side = "Sell" THEN n ELSE -n),
         IsFill(e) /\ e.id \in Z => n = 0
  PROVE Explained(h, Z, Append(es, e), Moved(n, e)) /\ n \in Int
<1> DEFINE L == Len(es)
           fs == Append(es, e)
<1>1. /\ L \in Nat /\ fs \in Seq(Happenings) /\ Len(fs) = L + 1 /\ fs[L + 1] = e
      /\ \A i \in 1 .. L : fs[i] = es[i]
  BY Appended
<1>2. PICK T \in Running(h, es) :
        /\ T[L] = n
        /\ \A i \in 1 .. L : IsFill(es[i]) =>
             /\ es[i].role # "Entry" =>
                  /\ es[i].qty > 0
                  /\ es[i].qty <= (IF es[i].side = "Sell" THEN T[i - 1] ELSE -T[i - 1])
             /\ es[i].id \in Z => T[i - 1] = 0
  BY DEF Explained
<1> HIDE DEF fs
<1>3. T \in [0 .. L -> Int] /\ T[0] = h /\ \A k \in 1 .. L : T[k] = Moved(T[k - 1], es[k])
  BY DEF Running
<1> HIDE DEF L
<1>4. n \in Int /\ Moved(n, e) \in Int
  BY <1>1, <1>2, <1>3, MovedIs
<1> DEFINE m == Moved(n, e)
           U == [k \in 0 .. L + 1 |-> IF k = L + 1 THEN m ELSE T[k]]
<1> HIDE DEF m
<1>5. U \in [0 .. L + 1 -> Int] /\ U[L + 1] = m /\ \A k \in 0 .. L : U[k] = T[k]
  <2>1. \A k \in 0 .. L + 1 : k = L + 1 \/ k \in 0 .. L
    BY <1>1
  <2>2. L + 1 \in 0 .. L + 1 /\ \A k \in 0 .. L : k \in 0 .. L + 1 /\ k # L + 1
    BY <1>1
  <2> QED BY <1>3, <1>4, <2>1, <2>2 DEF m
<1> HIDE DEF U
<1>6. U[0] = h
  BY <1>1, <1>3, <1>5
<1>7. \A k \in 1 .. L + 1 : U[k] = Moved(U[k - 1], fs[k])
  <2> SUFFICES ASSUME NEW k \in 1 .. L + 1 PROVE U[k] = Moved(U[k - 1], fs[k])
    OBVIOUS
  <2>1. k - 1 \in 0 .. L
    BY <1>1
  <2>2. CASE k = L + 1
    <3>1. U[k - 1] = n /\ fs[k] = e /\ U[k] = m
      BY <1>1, <1>2, <1>5, <2>1, <2>2
    <3> QED BY <3>1 DEF m
  <2>3. CASE k # L + 1
    <3>1. k \in 1 .. L /\ k \in 0 .. L
      BY <1>1, <2>3
    <3> QED BY <1>1, <1>3, <1>5, <2>1, <3>1
  <2> QED BY <2>2, <2>3
<1>8. U \in Running(h, fs)
  BY <1>1, <1>5, <1>6, <1>7 DEF Running
<1>9. \A i \in 1 .. L + 1 : IsFill(fs[i]) =>
        /\ fs[i].role # "Entry" =>
             /\ fs[i].qty > 0
             /\ fs[i].qty <= (IF fs[i].side = "Sell" THEN U[i - 1] ELSE -U[i - 1])
        /\ fs[i].id \in Z => U[i - 1] = 0
  <2> SUFFICES ASSUME NEW i \in 1 .. L + 1, IsFill(fs[i])
               PROVE /\ fs[i].role # "Entry" =>
                          /\ fs[i].qty > 0
                          /\ fs[i].qty <= (IF fs[i].side = "Sell" THEN U[i - 1] ELSE -U[i - 1])
                     /\ fs[i].id \in Z => U[i - 1] = 0
    OBVIOUS
  <2>1. i - 1 \in 0 .. L /\ U[i - 1] = T[i - 1]
    BY <1>1, <1>5
  <2>2. CASE i = L + 1
    <3>1. fs[i] = e /\ U[i - 1] = n
      BY <1>1, <1>2, <2>1, <2>2
    <3> QED BY <3>1
  <2>3. CASE i # L + 1
    <3>1. i \in 1 .. L /\ fs[i] = es[i]
      BY <1>1, <2>3
    <3> QED BY <1>2, <2>1, <3>1
  <2> QED BY <2>2, <2>3
<1>10. Explained(h, Z, fs, m)
  BY <1>1, <1>5, <1>8, <1>9 DEF Explained
<1> QED BY <1>4, <1>10 DEF fs, m

(* Events that fill nothing.                                                *)
LEMMA ExplainedMute ==
  ASSUME NEW h \in Int, NEW Z, NEW E, NEW es \in Seq(Happenings), NEW fs, NEW n,
         Explained(h, Z, es, n), Mute(E, es, fs)
  PROVE Explained(h, Z, fs, n)
<1> DEFINE L == Len(es)
           M == Len(fs)
           f(k) == IF k <= L THEN k ELSE L
<1>1. L \in Nat /\ M \in Nat /\ L <= M /\ fs \in Seq(Happenings)
  BY DEF Mute
<1>m. \A i \in L + 1 .. M : ~IsFill(fs[i])
  BY DEF Mute
<1>e. \A i \in 1 .. L : fs[i] = es[i]
  BY DEF Mute
<1>2. PICK T \in Running(h, es) :
        /\ T[L] = n
        /\ \A i \in 1 .. L : IsFill(es[i]) =>
             /\ es[i].role # "Entry" =>
                  /\ es[i].qty > 0
                  /\ es[i].qty <= (IF es[i].side = "Sell" THEN T[i - 1] ELSE -T[i - 1])
             /\ es[i].id \in Z => T[i - 1] = 0
  BY DEF Explained
<1>3. T \in [0 .. L -> Int] /\ T[0] = h /\ \A k \in 1 .. L : T[k] = Moved(T[k - 1], es[k])
  BY DEF Running
<1> DEFINE U == [k \in 0 .. M |-> T[f(k)]]
<1> HIDE DEF L, M
<1>5. U \in [0 .. M -> Int] /\ U[M] = n /\ \A k \in 0 .. L : U[k] = T[k]
  BY <1>1, <1>2, <1>3
<1>6. \A k \in L + 1 .. M : U[k] = n /\ U[k - 1] = n
  <2> SUFFICES ASSUME NEW k \in L + 1 .. M PROVE U[k] = n /\ U[k - 1] = n
    OBVIOUS
  <2>1. k \in 0 .. M /\ k - 1 \in 0 .. M /\ f(k) = L /\ f(k - 1) = L
    BY <1>1
  <2> QED BY <1>2, <2>1
<1> HIDE DEF U
<1>7. \A k \in 1 .. M : U[k] = Moved(U[k - 1], fs[k])
  <2> SUFFICES ASSUME NEW k \in 1 .. M PROVE U[k] = Moved(U[k - 1], fs[k])
    OBVIOUS
  <2>1. CASE k <= L
    <3>1. k \in 1 .. L /\ k \in 0 .. L /\ k - 1 \in 0 .. L
      BY <1>1, <2>1
    <3> QED BY <1>e, <1>3, <1>5, <3>1
  <2>2. CASE ~(k <= L)
    <3>1. k \in L + 1 .. M
      BY <1>1, <2>2
    <3> QED BY <1>m, <1>6, <3>1 DEF Moved
  <2> QED BY <2>1, <2>2
<1>8. U \in Running(h, fs)
  BY <1>1, <1>3, <1>5, <1>7 DEF Running, M
<1>9. \A i \in 1 .. M : IsFill(fs[i]) =>
        /\ fs[i].role # "Entry" =>
             /\ fs[i].qty > 0
             /\ fs[i].qty <= (IF fs[i].side = "Sell" THEN U[i - 1] ELSE -U[i - 1])
        /\ fs[i].id \in Z => U[i - 1] = 0
  <2> SUFFICES ASSUME NEW i \in 1 .. M, IsFill(fs[i])
               PROVE /\ fs[i].role # "Entry" =>
                          /\ fs[i].qty > 0
                          /\ fs[i].qty <= (IF fs[i].side = "Sell" THEN U[i - 1] ELSE -U[i - 1])
                     /\ fs[i].id \in Z => U[i - 1] = 0
    OBVIOUS
  <2>1. i \in 1 .. L /\ i - 1 \in 0 .. L
    BY <1>1, <1>m
  <2>2. fs[i] = es[i] /\ U[i - 1] = T[i - 1]
    BY <1>e, <1>5, <2>1
  <2> QED BY <1>2, <2>1, <2>2
<1> QED BY <1>5, <1>8, <1>9 DEF Explained, M

-----------------------------------------------------------------------------
(* What a call has said so far. *)

Leavings == {"Filled", "Cancelled", "PriceTouched", "AccountOccupied"}

(* Of the orders in E, those in W have not been spoken of, and each of the  *)
(* others has had one word, that it is gone.                                *)
Spoken(E, W, es) ==
  \A id \in E :
    /\ id \in W => \A i \in 1 .. Len(es) : es[i].id # id
    /\ id \notin W => \E i \in 1 .. Len(es) : /\ es[i].id = id /\ es[i].what \in Leavings
                                              /\ \A j \in 1 .. Len(es) : es[j].id = id => j = i

(* Mute events leave the words about entries as they are.                   *)
LEMMA SpokenMute ==
  ASSUME NEW E, NEW W, NEW es \in Seq(Happenings), NEW fs, Mute(E, es, fs), Spoken(E, W, es)
  PROVE Spoken(E, W, fs)
<1>1. /\ Len(es) \in Nat /\ Len(fs) \in Nat /\ Len(es) <= Len(fs)
      /\ \A i \in 1 .. Len(es) : fs[i] = es[i]
  BY DEF Mute
<1>2. \A i \in 1 .. Len(fs) : fs[i].id \in E => i \in 1 .. Len(es)
  <2> SUFFICES ASSUME NEW i \in 1 .. Len(fs), i \notin 1 .. Len(es) PROVE fs[i].id \notin E
    OBVIOUS
  <2>1. i \in Len(es) + 1 .. Len(fs)
    BY <1>1
  <2> QED BY <2>1 DEF Mute
<1>3. ASSUME NEW id \in E, id \in W, NEW i \in 1 .. Len(fs) PROVE fs[i].id # id
  BY <1>1, <1>2, <1>3 DEF Spoken
<1>4. ASSUME NEW id \in E, id \notin W
      PROVE \E i \in 1 .. Len(fs) : /\ fs[i].id = id /\ fs[i].what \in Leavings
                                    /\ \A j \in 1 .. Len(fs) : fs[j].id = id => j = i
  <2>1. PICK i \in 1 .. Len(es) : /\ es[i].id = id /\ es[i].what \in Leavings
                                  /\ \A j \in 1 .. Len(es) : es[j].id = id => j = i
    BY <1>4 DEF Spoken
  <2>2. i \in 1 .. Len(fs) /\ fs[i] = es[i]
    BY <1>1
  <2>3. \A j \in 1 .. Len(fs) : fs[j].id = id => j = i
    BY <1>1, <1>2, <2>1
  <2> QED BY <2>1, <2>2, <2>3
<1> QED BY <1>3, <1>4 DEF Spoken

(* An order that was not spoken of goes.                                    *)
LEMMA SpokenMore ==
  ASSUME NEW E, NEW W, NEW es \in Seq(Happenings), Spoken(E, W, es), NEW e \in Happenings,
         e.id \in W, e.what \in Leavings
  PROVE Spoken(E, W \ {e.id}, Append(es, e))
<1> DEFINE L == Len(es)
           fs == Append(es, e)
<1>1. /\ L \in Nat /\ fs \in Seq(Happenings) /\ Len(fs) = L + 1 /\ fs[L + 1] = e
      /\ \A i \in 1 .. L : fs[i] = es[i]
  BY Appended
<1> HIDE DEF fs, L
<1>2. \A i \in 1 .. L + 1 : i = L + 1 \/ i \in 1 .. L
  BY <1>1
<1>s. \A id \in E :
        /\ id \in W => \A i \in 1 .. L : es[i].id # id
        /\ id \notin W => \E i \in 1 .. L : /\ es[i].id = id /\ es[i].what \in Leavings
                                            /\ \A j \in 1 .. L : es[j].id = id => j = i
  BY DEF Spoken, L
<1>3. ASSUME NEW id \in E, id \in W \ {e.id}, NEW i \in 1 .. L + 1 PROVE fs[i].id # id
  BY <1>1, <1>2, <1>3, <1>s
<1>4. ASSUME NEW id \in E, id \notin W \ {e.id}
      PROVE \E i \in 1 .. L + 1 : /\ fs[i].id = id /\ fs[i].what \in Leavings
                                  /\ \A j \in 1 .. L + 1 : fs[j].id = id => j = i
  <2>1. CASE id = e.id
    <3>1. L + 1 \in 1 .. L + 1
      BY <1>1
    <3>2. \A j \in 1 .. L + 1 : fs[j].id = id => j = L + 1
      BY <1>1, <1>2, <1>s, <2>1
    <3> QED BY <1>1, <2>1, <3>1, <3>2
  <2>2. CASE id # e.id
    <3>1. PICK i \in 1 .. L : /\ es[i].id = id /\ es[i].what \in Leavings
                              /\ \A j \in 1 .. L : es[j].id = id => j = i
      BY <1>4, <1>s, <2>2
    <3>2. i \in 1 .. L + 1 /\ fs[i] = es[i]
      BY <1>1
    <3>3. \A j \in 1 .. L + 1 : fs[j].id = id => j = i
      BY <1>1, <1>2, <2>2, <3>1
    <3> QED BY <3>1, <3>2, <3>3
  <2> QED BY <2>1, <2>2
<1>5. \A id \in E :
        /\ id \in W \ {e.id} => \A i \in 1 .. L + 1 : fs[i].id # id
        /\ id \notin W \ {e.id} =>
             \E i \in 1 .. L + 1 : /\ fs[i].id = id /\ fs[i].what \in Leavings
                                   /\ \A j \in 1 .. L + 1 : fs[j].id = id => j = i
  BY <1>3, <1>4
<1> QED BY <1>1, <1>5 DEF Spoken, fs

(* Nor does an event that names none of them change what was said.          *)
LEMMA SpokenAside ==
  ASSUME NEW E, NEW W, NEW es \in Seq(Happenings), Spoken(E, W, es), NEW e \in Happenings,
         e.id \notin E
  PROVE Spoken(E, W, Append(es, e))
<1> DEFINE L == Len(es)
           fs == Append(es, e)
<1>1. /\ L \in Nat /\ fs \in Seq(Happenings) /\ Len(fs) = L + 1 /\ fs[L + 1] = e
      /\ \A i \in 1 .. L : fs[i] = es[i]
  BY Appended
<1> HIDE DEF fs, L
<1>2. \A i \in 1 .. Len(fs) : fs[i].id \in E => i \in 1 .. L
  BY <1>1
<1>s. \A id \in E :
        /\ id \in W => \A i \in 1 .. L : es[i].id # id
        /\ id \notin W => \E i \in 1 .. L : /\ es[i].id = id /\ es[i].what \in Leavings
                                            /\ \A j \in 1 .. L : es[j].id = id => j = i
  BY DEF Spoken, L
<1>3. ASSUME NEW id \in E, id \in W, NEW i \in 1 .. Len(fs) PROVE fs[i].id # id
  BY <1>1, <1>2, <1>3, <1>s
<1>4. ASSUME NEW id \in E, id \notin W
      PROVE \E i \in 1 .. Len(fs) : /\ fs[i].id = id /\ fs[i].what \in Leavings
                                    /\ \A j \in 1 .. Len(fs) : fs[j].id = id => j = i
  <2>1. PICK i \in 1 .. L : /\ es[i].id = id /\ es[i].what \in Leavings
                            /\ \A j \in 1 .. L : es[j].id = id => j = i
    BY <1>4, <1>s
  <2>2. i \in 1 .. Len(fs) /\ fs[i] = es[i]
    BY <1>1
  <2>3. \A j \in 1 .. Len(fs) : fs[j].id = id => j = i
    BY <1>1, <1>2, <2>1
  <2> QED BY <2>1, <2>2, <2>3
<1> QED BY <1>3, <1>4 DEF Spoken, fs

(* No exit of the position's protection comes after an entry's fill.        *)
Ordered(es) ==
  \A i, j \in 1 .. Len(es) :
    i < j /\ IsFill(es[i]) /\ es[i].role = "Entry" /\ IsFill(es[j]) => es[j].role \notin LegRoles
NoEntryYet(es) == \A i \in 1 .. Len(es) : IsFill(es[i]) => es[i].role # "Entry"

(* Mute events fill nothing.                                                *)
LEMMA OrderedMute ==
  ASSUME NEW E, NEW es \in Seq(Happenings), NEW fs, Mute(E, es, fs)
  PROVE /\ Ordered(es) => Ordered(fs)
        /\ NoEntryYet(es) => NoEntryYet(fs)
<1>1. /\ Len(es) \in Nat /\ Len(fs) \in Nat /\ Len(es) <= Len(fs)
      /\ \A i \in 1 .. Len(es) : fs[i] = es[i]
  BY DEF Mute
<1>2. \A i \in 1 .. Len(fs) : IsFill(fs[i]) => i \in 1 .. Len(es)
  <2> SUFFICES ASSUME NEW i \in 1 .. Len(fs), i \notin 1 .. Len(es) PROVE ~IsFill(fs[i])
    OBVIOUS
  <2>1. i \in Len(es) + 1 .. Len(fs)
    BY <1>1
  <2> QED BY <2>1 DEF Mute
<1> QED BY <1>1, <1>2 DEF Ordered, NoEntryYet

(* An exit before any entry filled keeps the order.                         *)
LEMMA OrderedMore ==
  ASSUME NEW es \in Seq(Happenings), NEW e \in Happenings
  PROVE /\ Ordered(es) /\ (IsFill(e) /\ e.role \in LegRoles => NoEntryYet(es))
             => Ordered(Append(es, e))
        /\ NoEntryYet(es) /\ (IsFill(e) => e.role # "Entry") => NoEntryYet(Append(es, e))
<1> DEFINE L == Len(es)
           fs == Append(es, e)
<1>1. /\ L \in Nat /\ fs \in Seq(Happenings) /\ Len(fs) = L + 1 /\ fs[L + 1] = e
      /\ \A i \in 1 .. L : fs[i] = es[i]
  BY Appended
<1> HIDE DEF fs, L
<1>2. \A i \in 1 .. L + 1 : i = L + 1 \/ i \in 1 .. L
  BY <1>1
<1>3. ASSUME Ordered(es), IsFill(e) /\ e.role \in LegRoles => NoEntryYet(es) PROVE Ordered(fs)
  <2> SUFFICES ASSUME NEW i \in 1 .. L + 1, NEW j \in 1 .. L + 1, i < j, IsFill(fs[i]),
                      fs[i].role = "Entry", IsFill(fs[j])
               PROVE fs[j].role \notin LegRoles
    BY <1>1 DEF Ordered
  <2>1. i \in 1 .. L
    BY <1>1
  <2>2. CASE j = L + 1
    BY <1>1, <1>3, <2>1, <2>2 DEF NoEntryYet, L
  <2>3. CASE j # L + 1
    BY <1>1, <1>2, <1>3, <2>1, <2>3 DEF Ordered, L
  <2> QED BY <2>2, <2>3
<1>4. ASSUME NoEntryYet(es), IsFill(e) => e.role # "Entry" PROVE NoEntryYet(fs)
  BY <1>1, <1>2, <1>4 DEF NoEntryYet, L
<1> QED BY <1>3, <1>4 DEF fs

(* The pairs whose leg has filled: numbered already, none of Q, none with a *)
(* leg in rs, and none filled twice.                                        *)
Spent(Q, es, ocos, rs) ==
  \A i \in 1 .. Len(es) : IsFill(es[i]) /\ es[i].oco # 0 =>
    /\ es[i].oco \in 1 .. ocos /\ es[i].oco \notin Q
    /\ \A j \in 1 .. Len(rs) : rs[j].oco # es[i].oco
    /\ \A j \in 1 .. Len(es) : IsFill(es[j]) /\ es[j].oco = es[i].oco => j = i

(* What settles spends no pair.                                             *)
LEMMA SpentSettled ==
  ASSUME NEW E, NEW Q, NEW b \in Books, NEW c, Settles(E, b, c),
         Spent(Q, b.events, b.ocos, b.resting)
  PROVE Spent(Q, c.events, c.ocos, c.resting)
<1> DEFINE es == b.events
           fs == c.events
<1>1. /\ es \in Seq(Happenings) /\ b.ocos \in Nat /\ c.ocos \in Nat /\ b.ocos <= c.ocos
      /\ fs \in Seq(Happenings) /\ Mute(E, es, fs)
  BY DEF Books, Settles
<1>2. /\ Len(es) \in Nat /\ Len(fs) \in Nat /\ Len(es) <= Len(fs)
      /\ \A i \in 1 .. Len(es) : fs[i] = es[i]
  BY <1>1 DEF Mute
<1> HIDE DEF es, fs
<1>3. \A i \in 1 .. Len(fs) : IsFill(fs[i]) => i \in 1 .. Len(es)
  <2> SUFFICES ASSUME NEW i \in 1 .. Len(fs), i \notin 1 .. Len(es) PROVE ~IsFill(fs[i])
    OBVIOUS
  <2>1. i \in Len(es) + 1 .. Len(fs)
    BY <1>2
  <2> QED BY <1>1, <2>1 DEF Mute
<1> SUFFICES ASSUME NEW i \in 1 .. Len(fs), IsFill(fs[i]), fs[i].oco # 0
             PROVE /\ fs[i].oco \in 1 .. c.ocos /\ fs[i].oco \notin Q
                   /\ \A j \in 1 .. Len(c.resting) : c.resting[j].oco # fs[i].oco
                   /\ \A j \in 1 .. Len(fs) : IsFill(fs[j]) /\ fs[j].oco = fs[i].oco => j = i
  BY DEF Spent, fs
<1>4. i \in 1 .. Len(es) /\ fs[i] = es[i]
  BY <1>2, <1>3
<1>5. /\ es[i].oco \in 1 .. b.ocos /\ es[i].oco \notin Q
      /\ \A j \in 1 .. Len(b.resting) : b.resting[j].oco # es[i].oco
      /\ \A j \in 1 .. Len(es) : IsFill(es[j]) /\ es[j].oco = es[i].oco => j = i
  BY <1>4 DEF Spent, es
<1>6. fs[i].oco \in 1 .. c.ocos
  BY <1>1, <1>4, <1>5
<1>7. \A j \in 1 .. Len(c.resting) : c.resting[j].oco # fs[i].oco
  BY <1>4, <1>5 DEF Settles
<1>8. \A j \in 1 .. Len(fs) : IsFill(fs[j]) /\ fs[j].oco = fs[i].oco => j = i
  BY <1>2, <1>3, <1>4, <1>5
<1> QED BY <1>4, <1>5, <1>6, <1>7, <1>8

(* One event more that spends no pair.                                      *)
LEMMA SpentMore ==
  ASSUME NEW Q, NEW es \in Seq(Happenings), NEW ocos, NEW rs, Spent(Q, es, ocos, rs),
         NEW e \in Happenings, IsFill(e) => e.oco = 0
  PROVE Spent(Q, Append(es, e), ocos, rs)
<1> DEFINE L == Len(es)
           fs == Append(es, e)
<1>1. /\ L \in Nat /\ fs \in Seq(Happenings) /\ Len(fs) = L + 1 /\ fs[L + 1] = e
      /\ \A i \in 1 .. L : fs[i] = es[i]
  BY Appended
<1> HIDE DEF fs, L
<1>2. \A i \in 1 .. L + 1 : i = L + 1 \/ i \in 1 .. L
  BY <1>1
<1>3. \A i \in 1 .. L + 1 : IsFill(fs[i]) /\ fs[i].oco # 0 => i \in 1 .. L /\ fs[i] = es[i]
  BY <1>1, <1>2
<1> QED BY <1>1, <1>3 DEF Spent, fs, L

(* A call under way: its book is tidy, its events explain how the holding   *)
(* went from h to n, of the orders in E those in W are still to leave, and  *)
(* the pairs in Q are unspent.                                              *)
Account(E, W, h, Z, Q, c, n) ==
  /\ c \in Books /\ Tidy(E, c)
  /\ Explained(h, Z, c.events, n) /\ Spoken(E, W, c.events)
  /\ Ordered(c.events) /\ Spent(Q, c.events, c.ocos, c.resting)

(* A call goes on by what settles.                                          *)
LEMMA AccountSettles ==
  ASSUME NEW E, NEW W, NEW h \in Int, NEW Z, NEW Q, NEW b, NEW c, NEW n,
         Account(E, W, h, Z, Q, b, n), Settles(E, b, c)
  PROVE Account(E, W, h, Z, Q, c, n)
<1>1. b \in Books /\ b.events \in Seq(Happenings) /\ Mute(E, b.events, c.events)
  BY DEF Account, Books, Settles
<1>2. Explained(h, Z, c.events, n)
  BY <1>1, ExplainedMute DEF Account
<1>3. Spoken(E, W, c.events) /\ Ordered(c.events)
  BY <1>1, SpokenMute, OrderedMute DEF Account
<1>4. Spent(Q, c.events, c.ocos, c.resting)
  BY <1>1, SpentSettled DEF Account
<1> QED BY <1>2, <1>3, <1>4 DEF Account, Settles

(* An order in W leaves, without a fill or with one.                        *)
LEMMA AccountLeaves ==
  ASSUME NEW E, NEW W, NEW h \in Int, NEW Z, NEW Q, NEW b, NEW n,
         Account(E, W, h, Z, Q, b, n), NEW o \in Orders, o.id \in W,
         NEW what \in Leavings \ {"Filled"}
  PROVE Account(E, W \ {o.id}, h, Z, Q, Emit(b, About(what, o)), n)
<1> DEFINE e == About(what, o)
           c == Emit(b, e)
<1>1. b \in Books /\ b.events \in Seq(Happenings) /\ Tidy(E, b)
  BY DEF Account, Books
<1>2. e \in Happenings /\ e.id = o.id /\ ~IsFill(e) /\ e.what = what
  <2>1. what \in Words /\ what # "Filled"
    BY DEF Leavings, Words
  <2> QED BY <2>1, AboutIs
<1> HIDE DEF e
<1>3. /\ c \in Books /\ Tidy(E, c) /\ c.ocos = b.ocos /\ c.resting = b.resting
      /\ c.events = Append(b.events, e)
  BY <1>1, <1>2, TellingKeeps
<1> HIDE DEF c
<1>4. Explained(h, Z, c.events, n)
  <2>1. Explained(h, Z, Append(b.events, e), Moved(n, e)) /\ n \in Int
    BY <1>1, <1>2, ExplainedMore DEF Account
  <2>2. Moved(n, e) = n
    BY <1>2, <2>1, MovedIs
  <2> QED BY <1>3, <2>1, <2>2
<1>5. Spoken(E, W \ {o.id}, c.events)
  BY <1>1, <1>2, <1>3, SpokenMore DEF Account
<1>6. Ordered(c.events)
  BY <1>1, <1>2, <1>3, OrderedMore DEF Account
<1>7. Spent(Q, c.events, c.ocos, c.resting)
  BY <1>1, <1>2, <1>3, SpentMore DEF Account
<1> QED BY <1>3, <1>4, <1>5, <1>6, <1>7 DEF Account, c, e

(* And by the fill of an entry that is working.                             *)
LEMMA AccountTold ==
  ASSUME NEW E, NEW W, NEW h \in Int, NEW Z, NEW Q, NEW b, NEW n,
         Account(E, W, h, Z, Q, b, n), NEW o \in Orders, o.id \in W,
         o.role = "Entry", o.oco = 0, o.id \in Z => n = 0
  PROVE Account(E, W \ {o.id}, h, Z, Q, Told(b, o), n + Signed(o.side, o.qty))
<1> DEFINE e == About("Filled", o)
           c == Emit(b, e)
<1>1. b \in Books /\ b.events \in Seq(Happenings) /\ Tidy(E, b)
  BY DEF Account, Books
<1>2. /\ e \in Happenings /\ e.id = o.id /\ IsFill(e) /\ e.what = "Filled" /\ e.oco = 0
      /\ e.role = "Entry" /\ e.side = o.side /\ e.qty = o.qty
  BY AboutIs DEF Words
<1> HIDE DEF e
<1>3. /\ c \in Books /\ Tidy(E, c) /\ c.ocos = b.ocos /\ c.resting = b.resting
      /\ c.events = Append(b.events, e)
  BY <1>1, <1>2, TellingKeeps
<1> HIDE DEF c
<1>4. Explained(h, Z, c.events, n + Signed(o.side, o.qty))
  <2>1. Explained(h, Z, Append(b.events, e), Moved(n, e)) /\ n \in Int
    BY <1>1, <1>2, ExplainedMore DEF Account
  <2>2. Moved(n, e) = n + Signed(o.side, o.qty)
    BY <1>2, <2>1, MovedIs
  <2> QED BY <1>3, <2>1, <2>2
<1>5. Spoken(E, W \ {o.id}, c.events)
  BY <1>1, <1>2, <1>3, SpokenMore DEF Account, Leavings
<1>6. Ordered(c.events)
  BY <1>1, <1>2, <1>3, OrderedMore DEF Account, LegRoles
<1>7. Spent(Q, c.events, c.ocos, c.resting)
  BY <1>1, <1>2, <1>3, SpentMore DEF Account
<1>8. c = Told(b, o)
  BY DEF c, e, Told
<1> QED BY <1>3, <1>4, <1>5, <1>6, <1>7, <1>8 DEF Account

(* A position is closed, in part or whole: no word about an entry.          *)
Steady(b, c) ==
  /\ EntriesIn(c.resting) = EntriesIn(b.resting)
  /\ c.kept = b.kept /\ c.placed = b.placed /\ c.touched = b.touched
  /\ b.ids <= c.ids /\ b.ocos <= c.ocos

(* CloseQuantity keeps the account of the call.                             *)
LEMMA AccountCloses ==
  ASSUME NEW E, NEW W, NEW h \in Int, NEW Z, 0 \notin Z, NEW Q, NEW b,
         Account(E, W, h, Z, Q, b, Holding(b)), NEW qty \in Nat \ {0}, NEW role \in Roles,
         role # "Entry", role \in LegRoles => NoEntryYet(b.events)
  PROVE LET c == CloseQuantity(b, qty, role, Unset) IN
        /\ Account(E, W, h, Z, Q, c, Holding(c)) /\ Steady(b, c)
        /\ NoEntryYet(b.events) => NoEntryYet(c.events)
        /\ b.position = Flat => c = b
        /\ c.resting = b.resting
<1> DEFINE c == CloseQuantity(b, qty, role, Unset)
<1>1. b \in Books /\ b.events \in Seq(Happenings) /\ Tidy(E, b) /\ b.ids \in Nat /\ b.ocos \in Nat
      /\ b.position \in Positions
  BY DEF Account, Books
<1>2. IF b.position = Flat THEN c = b ELSE Closes(E, b, role, Unset, c)
  <2>1. Unset \in Nat
    BY DEF Unset
  <2> QED BY <1>1, <2>1, CloseIs
<1> HIDE DEF c
<1>3. CASE b.position = Flat
  <2>1. c = b
    BY <1>2, <1>3
  <2> QED BY <1>1, <2>1 DEF Steady, c
<1>4. CASE b.position # Flat
  <2>0. /\ c \in Books /\ Tidy(E, c) /\ c.ids = b.ids /\ c.ocos = b.ocos
        /\ c.kept = b.kept /\ c.placed = b.placed /\ c.touched = b.touched
        /\ c.resting = b.resting
    BY <1>2, <1>4 DEF Closes
  <2>1. PICK e \in Happenings :
          /\ e.what = "Filled" /\ e.role = role /\ e.id = 0 /\ e.oco = Unset
          /\ e.side = Opposite(b.position.side)
          /\ e.qty > 0 /\ e.qty <= b.position.qty
          /\ c.events = Append(b.events, e)
          /\ Holding(c) = Holding(b) + Signed(e.side, e.qty)
    BY <1>2, <1>4 DEF Closes
  <2>2. IsFill(e) /\ e.oco = 0
    BY <2>1 DEF IsFill, Unset
  <2>3. b.position.side \in Sides /\ b.position.qty \in Nat
    BY <1>1, PositionIs
  <2>4. e.qty <= (IF e.side = "Sell" THEN Holding(b) ELSE -Holding(b))
    BY <2>1, <2>3 DEF Holding, Signed, Opposite, Sides
  <2>5. Explained(h, Z, c.events, Holding(c))
    <3>1. Explained(h, Z, Append(b.events, e), Moved(Holding(b), e)) /\ Holding(b) \in Int
      BY <1>1, <2>1, <2>2, <2>4, ExplainedMore DEF Account
    <3>2. Moved(Holding(b), e) = Holding(c)
      BY <2>1, <2>2, <3>1, MovedIs
    <3> QED BY <2>1, <3>1, <3>2
  <2>6. Spoken(E, W, c.events)
    <3>1. e.id \notin E
      <4>1. E \subseteq 1 .. b.ids
        BY <1>1 DEF Tidy
      <4> QED BY <1>1, <2>1, <4>1
    <3> QED BY <1>1, <2>1, <3>1, SpokenAside DEF Account
  <2>7. Ordered(c.events) /\ (NoEntryYet(b.events) => NoEntryYet(c.events))
    BY <1>1, <2>1, OrderedMore DEF Account
  <2>8. Spent(Q, c.events, c.ocos, c.resting)
    BY <1>1, <2>0, <2>1, <2>2, SpentMore DEF Account
  <2>9. Account(E, W, h, Z, Q, c, Holding(c))
    BY <2>0, <2>5, <2>6, <2>7, <2>8 DEF Account
  <2>10. Steady(b, c)
    BY <1>1, <2>0 DEF Steady
  <2> QED BY <1>4, <2>0, <2>7, <2>9, <2>10 DEF c
<1> QED BY <1>3, <1>4

-----------------------------------------------------------------------------
(* Legs fire. *)

(* The first of some places is one of them.                                 *)
LEMMA FirstIs ==
  ASSUME NEW L \in Nat, NEW I \in SUBSET (1 .. L)
  PROVE I # {} => Min(I) \in I
<1> SUFFICES ASSUME I # {} PROVE Min(I) \in I
  OBVIOUS
<1>1. I \subseteq Nat
  OBVIOUS
<1>2. \E x \in I : \A y \in I : x <= y
  BY <1>1, LeastNumber
<1> QED BY <1>2 DEF Min

(* The leg a print fires next, and the other one of its pair.               *)
ReachedAt(c, price) == SelectInSeq(c.resting, LAMBDA x : LegReached(x, price))
SiblingAt(c, oco) == SelectInSeq(c.resting, LAMBDA o : o.oco = oco)

(* The scan finds a leg the print reaches, or none.                         *)
LEMMA ReachedIs ==
  ASSUME NEW c \in Books, NEW price
  PROVE \/ ReachedAt(c, price) = 0
        \/ /\ ReachedAt(c, price) \in 1 .. Len(c.resting)
           /\ LegReached(c.resting[ReachedAt(c, price)], price)
<1> DEFINE I == {j \in 1 .. Len(c.resting) : LegReached(c.resting[j], price)}
<1>1. ReachedAt(c, price) = IF I # {} THEN Min(I) ELSE 0
  BY DEF ReachedAt, SelectInSeq
<1>2. Len(c.resting) \in Nat
  BY DEF Books
<1>3. I # {} => Min(I) \in I
  <2>1. I \in SUBSET (1 .. Len(c.resting))
    OBVIOUS
  <2> HIDE DEF I
  <2> QED BY <1>2, <2>1, FirstIs
<1> QED BY <1>1, <1>3

(* The sibling found is of the pair, or the pair is gone.                   *)
LEMMA SiblingIs ==
  ASSUME NEW c \in Books, NEW oco
  PROVE \/ SiblingAt(c, oco) = 0 /\ \A j \in 1 .. Len(c.resting) : c.resting[j].oco # oco
        \/ /\ SiblingAt(c, oco) \in 1 .. Len(c.resting)
           /\ c.resting[SiblingAt(c, oco)].oco = oco
<1> DEFINE I == {j \in 1 .. Len(c.resting) : c.resting[j].oco = oco}
<1>1. SiblingAt(c, oco) = IF I # {} THEN Min(I) ELSE 0
  BY DEF SiblingAt, SelectInSeq
<1>2. Len(c.resting) \in Nat
  BY DEF Books
<1>3. I # {} => Min(I) \in I
  <2>1. I \in SUBSET (1 .. Len(c.resting))
    OBVIOUS
  <2> HIDE DEF I
  <2> QED BY <1>2, <2>1, FirstIs
<1> QED BY <1>1, <1>3

(* A list without its i-th member is a filter of it.                        *)
LEMMA RemovedPicks ==
  ASSUME NEW S, NEW s \in Seq(S), NEW i \in 1 .. Len(s)
  PROVE /\ RemoveAt(s, i) \in Seq(S)
        /\ \E at : Picks(at, RemoveAt(s, i), s, (1 .. Len(s)) \ {i})
<1> DEFINE L == Len(s)
           r == RemoveAt(s, i)
           at == [j \in 1 .. Len(r) |-> IF j < i THEN j ELSE j + 1]
           kept == (1 .. L) \ {i}
<1>1. L \in Nat /\ i \in 1 .. L
  OBVIOUS
<1>2. r \in Seq(S) /\ Len(r) = L - 1
      /\ \A j \in 1 .. L - 1 : r[j] = s[IF j < i THEN j ELSE j + 1]
  BY WithoutIs
<1> HIDE DEF r, L
<1>3. /\ at \in [1 .. Len(r) -> kept \cap (1 .. L)]
      /\ \A j \in 1 .. Len(r) : r[j] = s[at[j]]
      /\ \A j, k \in 1 .. Len(r) : j < k => at[j] < at[k]
  BY <1>1, <1>2
<1>4. ASSUME NEW m \in 1 .. L, m # i PROVE \E j \in 1 .. Len(r) : at[j] = m
  <2>1. CASE m < i
    <3>1. m \in 1 .. Len(r)
      BY <1>1, <1>2, <2>1
    <3> QED BY <2>1, <3>1
  <2>2. CASE ~(m < i)
    <3>1. m - 1 \in 1 .. Len(r) /\ ~(m - 1 < i) /\ (m - 1) + 1 = m
      BY <1>1, <1>2, <1>4, <2>2
    <3> QED BY <2>2, <3>1
  <2> QED BY <2>1, <2>2
<1> HIDE DEF at
<1>5. Picks(at, r, s, kept)
  BY <1>3, <1>4 DEF Picks, L
<1> QED BY <1>2, <1>5 DEF r, L

(* A leg taken off the list.                                                *)
Shorter(b, i) == [b EXCEPT !.resting = RemoveAt(@, i)]

(* What is left of the book then.                                           *)
LEMMA LegRemoved ==
  ASSUME NEW E, NEW b \in Books, Tidy(E, b), NEW i \in 1 .. Len(b.resting)
  PROVE LET c == Shorter(b, i) IN
        /\ c \in Books /\ Tidy(E, c) /\ c.position = b.position /\ c.events = b.events
        /\ c.ids = b.ids /\ c.ocos = b.ocos /\ c.kept = b.kept /\ c.placed = b.placed
        /\ c.touched = b.touched
        /\ \A j \in 1 .. Len(c.resting) :
             \E m \in 1 .. Len(b.resting) : m # i /\ c.resting[j] = b.resting[m]
        /\ \A m \in 1 .. Len(b.resting) : m # i =>
             \E j \in 1 .. Len(c.resting) : c.resting[j] = b.resting[m]
        /\ Protective(b.resting[i]) => EntriesIn(c.resting) = EntriesIn(b.resting)
<1> DEFINE s == b.resting
           L == Len(s)
           r == RemoveAt(s, i)
           c == [b EXCEPT !.resting = r]
           kept == (1 .. L) \ {i}
<1>0. Shorter(b, i) = c
  BY DEF Shorter
<1>1. /\ s \in Seq(Orders) /\ L \in Nat /\ i \in 1 .. L /\ b.ids \in Nat
      /\ b.events \in Seq(Happenings)
  BY DEF Books
<1> HIDE DEF s
<1>2. r \in Seq(Orders)
  BY <1>1, RemovedPicks
<1>5. PICK at : Picks(at, r, s, kept)
  BY <1>1, RemovedPicks
<1> HIDE DEF r, L, kept
<1>3. /\ \A j \in 1 .. Len(r) : at[j] \in (1 .. L) \ {i} /\ r[j] = s[at[j]]
      /\ \A m \in 1 .. L : m # i => \E j \in 1 .. Len(r) : at[j] = m
  BY <1>5 DEF Picks, L, kept
<1>6. c \in Books
  BY <1>1, <1>2, BookWith
<1>7. /\ c.position = b.position /\ c.events = b.events
      /\ c.ids = b.ids /\ c.ocos = b.ocos /\ c.kept = b.kept /\ c.placed = b.placed
      /\ c.touched = b.touched /\ c.resting = r
  BY DEF Books
<1> HIDE DEF c
<1>8. Tidy(E, c)
  BY <1>5, <1>6, <1>7, TidyPicks DEF s
<1>9. \A j \in 1 .. Len(r) : \E m \in 1 .. L : m # i /\ r[j] = s[m]
  BY <1>3
<1>10. \A m \in 1 .. L : m # i => \E j \in 1 .. Len(r) : r[j] = s[m]
  BY <1>3
<1>11. ASSUME Protective(s[i]) PROVE EntriesIn(r) = EntriesIn(s)
  <2>1. ASSUME NEW x \in EntriesIn(r) PROVE x \in EntriesIn(s)
    <3>1. PICK j \in 1 .. Len(r) : ~Protective(r[j]) /\ x = r[j]
      BY <2>1, EntriesAre
    <3> QED BY <1>9, <3>1, EntriesAre DEF L
  <2>2. ASSUME NEW x \in EntriesIn(s) PROVE x \in EntriesIn(r)
    <3>1. PICK m \in 1 .. L : ~Protective(s[m]) /\ x = s[m]
      BY <2>2, EntriesAre DEF L
    <3>2. m # i
      BY <1>11, <3>1
    <3> QED BY <1>10, <3>1, <3>2, EntriesAre
  <2> QED BY <2>1, <2>2
<1> QED BY <1>0, <1>6, <1>7, <1>8, <1>9, <1>10, <1>11 DEF s, L

(* What the scan of a print does at each of its turns.                      *)
FiredOne(c, price) ==
  IF c.position = Flat \/ ReachedAt(c, price) = 0 THEN c
  ELSE LET leg == c.resting[ReachedAt(c, price)] IN
       CancelSibling(CloseQuantity(Shorter(c, ReachedAt(c, price)), leg.qty, leg.role, leg.oco),
                     leg.oco)

(* A turn of the scan keeps the account of the call.                        *)
LEMMA FiringKeeps ==
  ASSUME NEW E, NEW W, NEW h \in Int, NEW Z, 0 \notin Z, NEW b,
         Account(E, W, h, Z, {}, b, Holding(b)), NoEntryYet(b.events), NEW price
  PROVE LET c == FiredOne(b, price) IN
        /\ Account(E, W, h, Z, {}, c, Holding(c)) /\ NoEntryYet(c.events)
        /\ Steady(b, c) /\ (b.position = Flat => c = b)
<1> DEFINE i == ReachedAt(b, price)
           leg == b.resting[i]
           d == Shorter(b, i)
           f == CloseQuantity(d, leg.qty, leg.role, leg.oco)
           k == SiblingAt(f, leg.oco)
           c == CancelSibling(f, leg.oco)
<1>1. /\ b \in Books /\ b.events \in Seq(Happenings) /\ Tidy(E, b) /\ b.ids \in Nat
      /\ b.ocos \in Nat /\ b.position \in Positions /\ b.resting \in Seq(Orders)
  BY DEF Account, Books
<1>2. CASE b.position = Flat \/ i = 0
  BY <1>1, <1>2 DEF FiredOne, Steady
<1>3. CASE ~(b.position = Flat \/ i = 0)
  <2>1. i \in 1 .. Len(b.resting) /\ LegReached(leg, price)
    BY <1>1, <1>3, ReachedIs
  <2>2. FiredOne(b, price) = c
    BY <1>3 DEF FiredOne
  <2> HIDE DEF i
  <2>3. leg \in Orders /\ leg.role \in LegRoles /\ Protective(leg)
    <3>1. leg \in Orders
      BY <1>1, <2>1
    <3> QED BY <2>1, <3>1 DEF LegReached, LegRoles, Protective
  <2>4. leg.qty \in Nat \ {0} /\ leg.role \in Roles /\ leg.oco \in Nat
    BY <2>3 DEF Orders, Roles
  <2>5. leg.oco # 0 /\ leg.id \notin E /\ leg.oco \in 1 .. b.ocos
    <3>1. leg.oco # 0 /\ leg.id \notin E /\ leg.oco \in 0 .. b.ocos
      BY <1>1, <2>1, <2>3 DEF Tidy
    <3> QED BY <1>1, <3>1
  <2>6. /\ d \in Books /\ Tidy(E, d) /\ d.position = b.position /\ d.events = b.events
        /\ d.ids = b.ids /\ d.ocos = b.ocos /\ d.kept = b.kept /\ d.placed = b.placed
        /\ d.touched = b.touched /\ EntriesIn(d.resting) = EntriesIn(b.resting)
    BY <1>1, <2>1, <2>3, LegRemoved
  <2>7. \A j \in 1 .. Len(d.resting) :
          \E m \in 1 .. Len(b.resting) : m # i /\ d.resting[j] = b.resting[m]
    BY <1>1, <2>1, LegRemoved
  <2> DEFINE oco == leg.oco
  <2>8. oco = leg.oco
    OBVIOUS
  <2> HIDE DEF d, oco
  <2>9. /\ \E e \in Happenings :
             /\ e.what = "Filled" /\ e.role = leg.role /\ e.id = 0 /\ e.oco = leg.oco
             /\ e.side = Opposite(d.position.side)
             /\ e.qty > 0 /\ e.qty <= d.position.qty
             /\ f.events = Append(d.events, e)
             /\ Holding(f) = Holding(d) + Signed(e.side, e.qty)
        /\ f \in Books /\ Tidy(E, f) /\ f.ids = d.ids /\ f.ocos = d.ocos
        /\ f.kept = d.kept /\ f.placed = d.placed /\ f.touched = d.touched
        /\ f.resting = d.resting
    <3>1. d.position # Flat
      BY <1>3, <2>6
    <3>2. d \in Books /\ Tidy(E, d)
      BY <2>6
    <3>3. Closes(E, d, leg.role, leg.oco, f)
      BY <2>4, <3>1, <3>2, CloseIs
    <3> QED BY <3>3 DEF Closes
  <2>10. PICK e \in Happenings :
             /\ e.what = "Filled" /\ e.role = leg.role /\ e.id = 0 /\ e.oco = leg.oco
             /\ e.side = Opposite(d.position.side)
             /\ e.qty > 0 /\ e.qty <= d.position.qty
             /\ f.events = Append(d.events, e)
             /\ Holding(f) = Holding(d) + Signed(e.side, e.qty)
    BY <2>9
  <2> HIDE DEF f
  <2>11. c = IF k = 0 THEN f ELSE Emit(Shorter(f, k), About("Cancelled", f.resting[k]))
    BY DEF CancelSibling, Shorter, SiblingAt
  <2>12. \/ k = 0 /\ \A j \in 1 .. Len(f.resting) : f.resting[j].oco # oco
         \/ k \in 1 .. Len(f.resting) /\ f.resting[k].oco = oco
    BY <2>8, <2>9, SiblingIs
  <2> HIDE DEF k, c
  <2>13. \A j \in 1 .. Len(f.resting) :
           \E m \in 1 .. Len(b.resting) : m # i /\ f.resting[j] = b.resting[m]
    BY <2>7, <2>9
  <2>14. /\ c \in Books /\ Tidy(E, c) /\ Steady(b, c) /\ Holding(c) = Holding(f)
         /\ Mute(E, f.events, c.events) /\ c.ocos = b.ocos
         /\ \A j \in 1 .. Len(c.resting) :
              \E m \in 1 .. Len(b.resting) : c.resting[j] = b.resting[m]
         /\ \A j \in 1 .. Len(c.resting) : c.resting[j].oco # oco
    <3>0. f.events \in Seq(Happenings) /\ f.resting \in Seq(Orders)
      BY <2>9 DEF Books
    <3>1. CASE k = 0
      <4>1. c = f
        BY <2>11, <3>1
      <4>2. \A j \in 1 .. Len(f.resting) : f.resting[j].oco # oco
        BY <2>12, <3>1
      <4>3. Steady(b, f)
        BY <1>1, <2>6, <2>9 DEF Steady
      <4>4. Mute(E, f.events, f.events)
        BY <3>0, MuteSame
      <4> QED BY <2>6, <2>9, <2>13, <4>1, <4>2, <4>3, <4>4
    <3>2. CASE k # 0
      <4> DEFINE g == Shorter(f, k)
                 o == f.resting[k]
      <4>1. k \in 1 .. Len(f.resting) /\ o.oco = oco
        BY <2>12, <3>2
      <4>2. o \in Orders
        BY <3>0, <4>1
      <4>3. o.oco # 0
        BY <2>5, <2>8, <4>1
      <4>4. Protective(o) /\ o.id \notin E
        BY <2>9, <4>1, <4>3 DEF Tidy
      <4>5. /\ g \in Books /\ Tidy(E, g) /\ g.position = f.position /\ g.events = f.events
            /\ g.ids = f.ids /\ g.ocos = f.ocos /\ g.kept = f.kept /\ g.placed = f.placed
            /\ g.touched = f.touched /\ EntriesIn(g.resting) = EntriesIn(f.resting)
        BY <2>9, <4>1, <4>4, LegRemoved
      <4>6. \A j \in 1 .. Len(g.resting) :
              \E m \in 1 .. Len(f.resting) : m # k /\ g.resting[j] = f.resting[m]
        BY <2>9, <4>1, LegRemoved
      <4> DEFINE w == About("Cancelled", o)
      <4>7. w \in Happenings /\ ~IsFill(w) /\ w.id = o.id
        BY <4>2, AboutIs DEF Words
      <4>c. c = Emit(g, w)
        BY <2>11, <3>2
      <4> HIDE DEF g, w
      <4>8. /\ c \in Books /\ Tidy(E, c) /\ c.position = g.position /\ c.ids = g.ids
            /\ c.ocos = g.ocos /\ c.kept = g.kept /\ c.placed = g.placed /\ c.touched = g.touched
            /\ c.resting = g.resting /\ Settles(E, g, c)
        BY <4>4, <4>5, <4>7, <4>c, TellingKeeps
      <4>9. Mute(E, f.events, c.events)
        BY <4>5, <4>8 DEF Settles
      <4>10. Steady(b, c)
        BY <1>1, <2>6, <2>9, <4>5, <4>8 DEF Steady
      <4>11. Holding(c) = Holding(f)
        BY <4>5, <4>8 DEF Holding
      <4>12. ASSUME NEW j \in 1 .. Len(c.resting)
             PROVE /\ c.resting[j].oco # oco
                   /\ \E m \in 1 .. Len(b.resting) : c.resting[j] = b.resting[m]
        <5>1. PICK m \in 1 .. Len(f.resting) : m # k /\ c.resting[j] = f.resting[m]
          BY <4>6, <4>8
        <5>2. PICK x \in 1 .. Len(b.resting) : x # i /\ f.resting[m] = b.resting[x]
          BY <2>13
        <5>3. PICK y \in 1 .. Len(b.resting) : y # i /\ f.resting[k] = b.resting[y]
          BY <2>13, <4>1
        <5>4. ASSUME c.resting[j].oco = oco PROVE FALSE
          <6>1. b.resting[x].oco = oco /\ b.resting[y].oco = oco /\ b.resting[i].oco = oco
            BY <2>8, <4>1, <5>1, <5>2, <5>3, <5>4
          <6>2. x = y
            BY <1>1, <2>1, <2>5, <2>8, <5>2, <5>3, <6>1 DEF Tidy
          <6>3. f.resting[m].id = f.resting[k].id
            BY <5>2, <5>3, <6>2
          <6> QED BY <2>9, <4>1, <5>1, <6>3 DEF Tidy
        <5> QED BY <5>1, <5>2, <5>4
      <4> QED BY <2>6, <2>9, <4>5, <4>8, <4>9, <4>10, <4>11, <4>12
    <3> QED BY <3>1, <3>2
  <2>15. b.position.side \in Sides /\ b.position.qty \in Nat
    BY <1>1, PositionIs
  <2>16. IsFill(e) /\ e.role # "Entry"
    BY <2>3, <2>10 DEF IsFill, LegRoles
  <2>17. e.qty <= (IF e.side = "Sell" THEN Holding(b) ELSE -Holding(b))
    BY <2>6, <2>10, <2>15 DEF Holding, Signed, Opposite, Sides
  <2>18. f.events = Append(b.events, e) /\ f.events \in Seq(Happenings)
    BY <1>1, <2>6, <2>10, Appended
  <2>19. Explained(h, Z, c.events, Holding(c))
    <3>1. Explained(h, Z, Append(b.events, e), Moved(Holding(b), e)) /\ Holding(b) \in Int
      BY <1>1, <2>10, <2>16, <2>17, ExplainedMore DEF Account
    <3>2. Moved(Holding(b), e) = Holding(b) + Signed(e.side, e.qty)
      BY <2>16, <3>1, MovedIs
    <3>3. Holding(d) = Holding(b)
      BY <2>6 DEF Holding
    <3>4. Explained(h, Z, f.events, Holding(f))
      BY <2>10, <2>18, <3>1, <3>2, <3>3
    <3> QED BY <2>14, <2>18, <3>4, ExplainedMute
  <2>20. Spoken(E, W, c.events)
    <3>1. e.id \notin E
      <4>1. E \subseteq 1 .. b.ids
        BY <1>1 DEF Tidy
      <4> QED BY <1>1, <2>10, <4>1
    <3>2. Spoken(E, W, f.events)
      BY <1>1, <2>18, <3>1, SpokenAside DEF Account
    <3> QED BY <2>14, <2>18, <3>2, SpokenMute
  <2>21. Ordered(c.events) /\ NoEntryYet(c.events)
    <3>1. Ordered(f.events) /\ NoEntryYet(f.events)
      BY <1>1, <2>16, <2>18, OrderedMore DEF Account
    <3> QED BY <2>14, <2>18, <3>1, OrderedMute
  <2>22. Spent({}, c.events, c.ocos, c.resting)
    <3> DEFINE L == Len(b.events)
               es == c.events
    <3>1. /\ L \in Nat /\ Len(f.events) = L + 1 /\ f.events[L + 1] = e
          /\ \A j \in 1 .. L : f.events[j] = b.events[j]
      BY <1>1, <2>18, Appended
    <3>2. Len(es) \in Nat /\ L + 1 <= Len(es)
      BY <2>14, <3>1 DEF Mute
    <3>3. es[L + 1] = e /\ \A j \in 1 .. L : es[j] = b.events[j]
      <4>1. \A j \in 1 .. L + 1 : es[j] = f.events[j]
        BY <2>14, <3>1 DEF Mute
      <4> QED BY <3>1, <4>1
    <3>4. \A j \in L + 2 .. Len(es) : ~IsFill(es[j])
      <4>1. L + 2 = Len(f.events) + 1
        BY <3>1
      <4> QED BY <2>14, <4>1 DEF Mute
    <3> HIDE DEF L, es
    <3>5. \A j \in 1 .. Len(es) : IsFill(es[j]) => j = L + 1 \/ j \in 1 .. L
      <4> SUFFICES ASSUME NEW j \in 1 .. Len(es), ~(j = L + 1 \/ j \in 1 .. L)
                   PROVE ~IsFill(es[j])
        OBVIOUS
      <4>1. j \in L + 2 .. Len(es)
        BY <3>1, <3>2
      <4> QED BY <3>4, <4>1
    <3>6. ASSUME NEW j \in 1 .. L, IsFill(b.events[j]), b.events[j].oco # 0
          PROVE /\ b.events[j].oco \in 1 .. b.ocos
                /\ \A m \in 1 .. Len(b.resting) : b.resting[m].oco # b.events[j].oco
                /\ \A m \in 1 .. L :
                     IsFill(b.events[m]) /\ b.events[m].oco = b.events[j].oco => m = j
      BY <3>6 DEF Account, Spent, L
    <3> SUFFICES ASSUME NEW j \in 1 .. Len(es), IsFill(es[j]), es[j].oco # 0
                 PROVE /\ es[j].oco \in 1 .. c.ocos
                       /\ \A m \in 1 .. Len(c.resting) : c.resting[m].oco # es[j].oco
                       /\ \A m \in 1 .. Len(es) : IsFill(es[m]) /\ es[m].oco = es[j].oco => m = j
      BY DEF Spent, es
    <3>7. CASE j = L + 1
      <4>1. es[j].oco = oco
        BY <2>8, <2>10, <3>3, <3>7
      <4>2. \A m \in 1 .. L : IsFill(es[m]) => es[m].oco # oco
        <5> SUFFICES ASSUME NEW m \in 1 .. L, IsFill(es[m]), es[m].oco = oco PROVE FALSE
          OBVIOUS
        <5>1. IsFill(b.events[m]) /\ b.events[m].oco = oco /\ oco # 0
          BY <2>5, <2>8, <3>3
        <5>2. b.resting[i].oco # b.events[m].oco
          BY <2>1, <3>6, <5>1
        <5> QED BY <2>8, <5>1, <5>2
      <4>3. \A m \in 1 .. Len(es) : IsFill(es[m]) /\ es[m].oco = es[j].oco => m = j
        BY <3>5, <3>7, <4>1, <4>2
      <4> QED BY <2>5, <2>8, <2>14, <4>1, <4>3
    <3>8. CASE j \in 1 .. L
      <4>1. es[j] = b.events[j] /\ IsFill(b.events[j]) /\ b.events[j].oco # 0
        BY <3>3, <3>8
      <4>2. /\ es[j].oco \in 1 .. c.ocos
            /\ \A m \in 1 .. Len(b.resting) : b.resting[m].oco # es[j].oco
            /\ \A m \in 1 .. L : IsFill(es[m]) /\ es[m].oco = es[j].oco => m = j
        BY <2>14, <3>3, <3>6, <3>8, <4>1
      <4>3. \A m \in 1 .. Len(c.resting) : c.resting[m].oco # es[j].oco
        BY <2>14, <4>2
      <4>4. es[L + 1].oco # es[j].oco
        BY <2>1, <2>8, <2>10, <3>3, <4>2
      <4>5. \A m \in 1 .. Len(es) : IsFill(es[m]) /\ es[m].oco = es[j].oco => m = j
        BY <3>5, <4>2, <4>4
      <4> QED BY <4>2, <4>3, <4>5
    <3> QED BY <3>5, <3>7, <3>8
  <2>23. Account(E, W, h, Z, {}, c, Holding(c))
    BY <2>14, <2>19, <2>20, <2>21, <2>22 DEF Account
  <2> QED BY <1>3, <2>2, <2>14, <2>21, <2>23
<1> QED BY <1>2, <1>3

-----------------------------------------------------------------------------
(* One print, phase by phase. *)

(* What a print does with a queued action, and with a resting order.        *)
Ran(c, a, price) ==
  CASE a.action = "Entry"        -> FillEntry(c, a.order, price)
    [] a.action = "Close"        -> CloseQuantity(c, c.position.qty, "Close", Unset)
    [] a.action = "ClosePartial" -> CloseQuantity(c, a.qty, "Close", Unset)

Outrun(o, price) == o.cancel # Unset /\ AtOrBelow(o.side, o.cancel, price)
LimitMet(o, price) == o.kind = "Limit" /\ AtOrBelow(o.side, price, o.price)
StopMet(o, price) == o.kind = "Stop" /\ AtOrBelow(o.side, o.price, price)
Kept(c, o) == [c EXCEPT !.kept = Append(@, o)]
Walked(c, o, price) ==
  CASE Protective(o) -> Kept(c, o)
    [] ~Protective(o) /\ Outrun(o, price) -> Emit(c, About("PriceTouched", o))
    [] ~Protective(o) /\ ~Outrun(o, price) /\ (LimitMet(o, price) \/ StopMet(o, price))
         /\ StandsDown(c, o) -> Emit(c, About("AccountOccupied", o))
    [] ~Protective(o) /\ ~Outrun(o, price) /\ (LimitMet(o, price) \/ StopMet(o, price))
         /\ ~StandsDown(c, o) -> FillEntry(c, o, IF LimitMet(o, price) THEN o.price ELSE price)
    [] OTHER -> Kept(c, o)

(* The scan for legs, turn by turn.                                         *)
Firing(price, b, s) == FoldLeft(LAMBDA c, x : FiredOne(c, price), b, s)
FiringSteps(price, X, s, step) ==
  /\ step \in [1 .. Len(s) -> [X -> X]]
  /\ \A n \in 1 .. Len(s) : \A c \in X : step[n][c] = FiredOne(c, price)

(* It is the end of a path.                                                 *)
LEMMA FiringPath ==
  ASSUME NEW price, NEW X, NEW b \in X, NEW S, NEW s \in Seq(S), NEW step,
         FiringSteps(price, X, s, step)
  PROVE \E t \in Paths(Len(s), X, b, step) : t[Len(s)] = Firing(price, b, s)
<1> DEFINE L == Len(s)
           D == 1 .. L
           body(g) == [z \in SUBSET D |-> IF z = {} THEN b ELSE FiredOne(g[z \ {Max(z)}], price)]
           iter == CHOOSE g : g = body(g)
<1>1. L \in Nat /\ DOMAIN s = D
  OBVIOUS
<1>2. Firing(price, b, s) = iter[D]
  BY <1>1 DEF Firing, FoldLeft, MapThenFoldSet
<1>s. \A z \in SUBSET D : z # {} => Max(z) \in D
  BY <1>1, PartsOfUpto
<1>d. step \in [1 .. L -> [X -> X]]
  BY DEF FiringSteps
<1>5. \A n \in D : \A c \in X : step[n][c] = FiredOne(c, price)
  BY DEF FiringSteps
<1>d2. D = 1 .. L
  OBVIOUS
<1> HIDE DEF L
<1>3. PICK f \in Folding(L, X, b, step) : TRUE
  BY <1>1, <1>d, FoldingExists
<1>4. /\ f \in [SUBSET D -> X]
      /\ \A z \in SUBSET D : f[z] = IF z = {} THEN b ELSE step[Max(z)][f[z \ {Max(z)}]]
  BY <1>3 DEF Folding
<1> HIDE DEF D
<1>6. \A z \in SUBSET D : f[z] = IF z = {} THEN b ELSE FiredOne(f[z \ {Max(z)}], price)
  <2> SUFFICES ASSUME NEW z \in SUBSET D, z # {} PROVE f[z] = FiredOne(f[z \ {Max(z)}], price)
    BY <1>4
  <2>1. Max(z) \in D /\ f[z \ {Max(z)}] \in X
    BY <1>4, <1>s
  <2> QED BY <1>4, <1>5, <2>1
<1>7. f = body(f)
  BY <1>4, <1>6
<1>8. iter = body(iter)
  BY <1>7
<1> HIDE DEF iter
<1>9. FoldsLike(iter, L, X, b, step)
  <2>1. iter[{}] = b
    BY <1>8
  <2>2. ASSUME NEW z \in SUBSET D, z # {}, iter[z \ {Max(z)}] \in X
        PROVE iter[z] = step[Max(z)][iter[z \ {Max(z)}]]
    <3>1. iter[z] = FiredOne(iter[z \ {Max(z)}], price)
      BY <1>8, <2>2
    <3> QED BY <1>5, <1>s, <2>2, <3>1
  <2> QED BY <2>1, <2>2 DEF FoldsLike, D
<1>10. \E t \in Paths(L, X, b, step) : t[L] = iter[1 .. L]
  BY <1>1, <1>9, <1>d, FoldingPath
<1> QED BY <1>2, <1>10, <1>d2 DEF L

(* The queue, action by action.                                             *)
Queued(price, b, s) == FoldLeft(LAMBDA c, x : Ran(c, x, price), b, s)
QueuedSteps(price, X, s, step) ==
  /\ step \in [1 .. Len(s) -> [X -> X]]
  /\ \A n \in 1 .. Len(s) : \A c \in X : step[n][c] = Ran(c, s[n], price)

(* The run of the queue is the end of a path.                               *)
LEMMA QueuedPath ==
  ASSUME NEW price, NEW X, NEW b \in X, NEW S, NEW s \in Seq(S), NEW step,
         QueuedSteps(price, X, s, step)
  PROVE \E t \in Paths(Len(s), X, b, step) : t[Len(s)] = Queued(price, b, s)
<1> DEFINE L == Len(s)
           D == 1 .. L
           body(g) == [z \in SUBSET D |-> IF z = {} THEN b
                                         ELSE Ran(g[z \ {Max(z)}], s[Max(z)], price)]
           iter == CHOOSE g : g = body(g)
<1>1. L \in Nat /\ DOMAIN s = D
  OBVIOUS
<1>2. Queued(price, b, s) = iter[D]
  BY <1>1 DEF Queued, FoldLeft, MapThenFoldSet
<1>s. \A z \in SUBSET D : z # {} => Max(z) \in D
  BY <1>1, PartsOfUpto
<1>d. step \in [1 .. L -> [X -> X]]
  BY DEF QueuedSteps
<1>5. \A n \in D : \A c \in X : step[n][c] = Ran(c, s[n], price)
  BY DEF QueuedSteps
<1>d2. D = 1 .. L
  OBVIOUS
<1> HIDE DEF L
<1>3. PICK f \in Folding(L, X, b, step) : TRUE
  BY <1>1, <1>d, FoldingExists
<1>4. /\ f \in [SUBSET D -> X]
      /\ \A z \in SUBSET D : f[z] = IF z = {} THEN b ELSE step[Max(z)][f[z \ {Max(z)}]]
  BY <1>3 DEF Folding
<1> HIDE DEF D
<1>6. \A z \in SUBSET D : f[z] = IF z = {} THEN b ELSE Ran(f[z \ {Max(z)}], s[Max(z)], price)
  <2> SUFFICES ASSUME NEW z \in SUBSET D, z # {} PROVE f[z] = Ran(f[z \ {Max(z)}], s[Max(z)], price)
    BY <1>4
  <2>1. Max(z) \in D /\ f[z \ {Max(z)}] \in X
    BY <1>4, <1>s
  <2> QED BY <1>4, <1>5, <2>1
<1>7. f = body(f)
  BY <1>4, <1>6
<1>8. iter = body(iter)
  BY <1>7
<1> HIDE DEF iter
<1>9. FoldsLike(iter, L, X, b, step)
  <2>1. iter[{}] = b
    BY <1>8
  <2>2. ASSUME NEW z \in SUBSET D, z # {}, iter[z \ {Max(z)}] \in X
        PROVE iter[z] = step[Max(z)][iter[z \ {Max(z)}]]
    <3>1. iter[z] = Ran(iter[z \ {Max(z)}], s[Max(z)], price)
      BY <1>8, <2>2
    <3> QED BY <1>5, <1>s, <2>2, <3>1
  <2> QED BY <2>1, <2>2 DEF FoldsLike, D
<1>10. \E t \in Paths(L, X, b, step) : t[L] = iter[1 .. L]
  BY <1>1, <1>9, <1>d, FoldingPath
<1> QED BY <1>2, <1>10, <1>d2 DEF L

(* The resting list, order by order.                                        *)
Walking(price, b, s) == FoldLeft(LAMBDA c, x : Walked(c, x, price), b, s)
WalkingSteps(price, X, s, step) ==
  /\ step \in [1 .. Len(s) -> [X -> X]]
  /\ \A n \in 1 .. Len(s) : \A c \in X : step[n][c] = Walked(c, s[n], price)

(* The walk of the resting entries is the end of a path.                    *)
LEMMA WalkingPath ==
  ASSUME NEW price, NEW X, NEW b \in X, NEW S, NEW s \in Seq(S), NEW step,
         WalkingSteps(price, X, s, step)
  PROVE \E t \in Paths(Len(s), X, b, step) : t[Len(s)] = Walking(price, b, s)
<1> DEFINE L == Len(s)
           D == 1 .. L
           body(g) == [z \in SUBSET D |-> IF z = {} THEN b
                                         ELSE Walked(g[z \ {Max(z)}], s[Max(z)], price)]
           iter == CHOOSE g : g = body(g)
<1>1. L \in Nat /\ DOMAIN s = D
  OBVIOUS
<1>2. Walking(price, b, s) = iter[D]
  BY <1>1 DEF Walking, FoldLeft, MapThenFoldSet
<1>s. \A z \in SUBSET D : z # {} => Max(z) \in D
  BY <1>1, PartsOfUpto
<1>d. step \in [1 .. L -> [X -> X]]
  BY DEF WalkingSteps
<1>5. \A n \in D : \A c \in X : step[n][c] = Walked(c, s[n], price)
  BY DEF WalkingSteps
<1>d2. D = 1 .. L
  OBVIOUS
<1> HIDE DEF L
<1>3. PICK f \in Folding(L, X, b, step) : TRUE
  BY <1>1, <1>d, FoldingExists
<1>4. /\ f \in [SUBSET D -> X]
      /\ \A z \in SUBSET D : f[z] = IF z = {} THEN b ELSE step[Max(z)][f[z \ {Max(z)}]]
  BY <1>3 DEF Folding
<1> HIDE DEF D
<1>6. \A z \in SUBSET D : f[z] = IF z = {} THEN b ELSE Walked(f[z \ {Max(z)}], s[Max(z)], price)
  <2> SUFFICES ASSUME NEW z \in SUBSET D, z # {}
               PROVE f[z] = Walked(f[z \ {Max(z)}], s[Max(z)], price)
    BY <1>4
  <2>1. Max(z) \in D /\ f[z \ {Max(z)}] \in X
    BY <1>4, <1>s
  <2> QED BY <1>4, <1>5, <2>1
<1>7. f = body(f)
  BY <1>4, <1>6
<1>8. iter = body(iter)
  BY <1>7
<1> HIDE DEF iter
<1>9. FoldsLike(iter, L, X, b, step)
  <2>1. iter[{}] = b
    BY <1>8
  <2>2. ASSUME NEW z \in SUBSET D, z # {}, iter[z \ {Max(z)}] \in X
        PROVE iter[z] = step[Max(z)][iter[z \ {Max(z)}]]
    <3>1. iter[z] = Walked(iter[z \ {Max(z)}], s[Max(z)], price)
      BY <1>8, <2>2
    <3> QED BY <1>5, <1>s, <2>2, <3>1
  <2> QED BY <2>1, <2>2 DEF FoldsLike, D
<1>10. \E t \in Paths(L, X, b, step) : t[L] = iter[1 .. L]
  BY <1>1, <1>9, <1>d, FoldingPath
<1> QED BY <1>2, <1>10, <1>d2 DEF L

(* The phases of a print, as their folds.                                   *)
LEMMA PhasesAre ==
  ASSUME NEW b, NEW price
  PROVE /\ FireLegs(b, price) = Firing(price, b, b.resting)
        /\ RunQueue(b, price) = Queued(price, b, queue)
<1>1. FireLegs(b, price) = Firing(price, b, b.resting)
  BY DEF FireLegs, Firing, FiredOne, ReachedAt, Shorter
<1>2. RunQueue(b, price) = Queued(price, b, queue)
  BY DEF RunQueue, Queued, Ran
<1> QED BY <1>1, <1>2

(* And its walk.                                                            *)
LEMMA WalkIs ==
  ASSUME NEW b, NEW price
  PROVE WalkResting(b, price) =
          LET walked == Walking(price, [b EXCEPT !.resting = <<>>], b.resting)
          IN  [walked EXCEPT !.resting = walked.kept \o @, !.kept = <<>>]
BY DEF WalkResting, Walking, Walked, Outrun, LimitMet, StopMet, Kept

(* The scan fires legs, and says nothing of an entry.                       *)
LEMMA ScanKeeps ==
  ASSUME NEW E, NEW W, NEW h \in Int, NEW Z, 0 \notin Z, NEW b,
         Account(E, W, h, Z, {}, b, Holding(b)), NoEntryYet(b.events), NEW price
  PROVE LET c == FireLegs(b, price) IN
        /\ Account(E, W, h, Z, {}, c, Holding(c)) /\ NoEntryYet(c.events)
        /\ Steady(b, c) /\ (b.position = Flat => c = b)
<1> DEFINE Good(c) == /\ Account(E, W, h, Z, {}, c, Holding(c)) /\ NoEntryYet(c.events)
                      /\ Steady(b, c) /\ (b.position = Flat => c = b)
           X == {c \in Books : Good(c)}
           s == b.resting
           step == [n \in 1 .. Len(s) |-> [c \in X |-> FiredOne(c, price)]]
<1>1. /\ b \in Books /\ b.resting \in Seq(Orders) /\ b.ids \in Nat /\ b.ocos \in Nat
  BY DEF Account, Books
<1>2. b \in X
  BY <1>1 DEF Steady
<1>3. ASSUME NEW c \in X PROVE FiredOne(c, price) \in X
  <2> DEFINE d == FiredOne(c, price)
  <2>1. Good(c) /\ c.ids \in Nat /\ c.ocos \in Nat
    BY DEF Books
  <2>2. /\ Account(E, W, h, Z, {}, d, Holding(d)) /\ NoEntryYet(d.events)
        /\ Steady(c, d) /\ (c.position = Flat => d = c)
    BY <2>1, FiringKeeps
  <2> HIDE DEF d
  <2>3. d \in Books /\ d.ids \in Nat /\ d.ocos \in Nat
    BY <2>2 DEF Account, Books
  <2>4. Steady(b, d)
    BY <1>1, <2>1, <2>2, <2>3 DEF Steady
  <2>5. b.position = Flat => d = b
    BY <2>1, <2>2
  <2> QED BY <2>2, <2>3, <2>4, <2>5 DEF d
<1>4. s \in Seq(Orders)
  BY <1>1
<1> HIDE DEF X, s
<1>5. FiringSteps(price, X, s, step)
  BY <1>3 DEF FiringSteps
<1> HIDE DEF step
<1>6. PICK t \in Paths(Len(s), X, b, step) : t[Len(s)] = Firing(price, b, s)
  BY <1>2, <1>4, <1>5, FiringPath
<1>7. t[Len(s)] \in X
  <2>1. Len(s) \in Nat
    BY <1>4
  <2> QED BY <1>6, <2>1 DEF Paths
<1>8. FireLegs(b, price) \in X
  BY <1>6, <1>7, PhasesAre DEF s
<1> QED BY <1>8 DEF X

(* So does the position's own pair.                                         *)
LEMMA PairKeeps ==
  ASSUME NEW E, NEW W, NEW h \in Int, NEW Z, 0 \notin Z, NEW b,
         Account(E, W, h, Z, {}, b, Holding(b)), NoEntryYet(b.events), NEW price
  PROVE LET c == FirePair(b, price) IN
        /\ Account(E, W, h, Z, {}, c, Holding(c)) /\ NoEntryYet(c.events)
        /\ Steady(b, c) /\ (b.position = Flat => c = b)
<1>1. b \in Books /\ b.ids \in Nat /\ b.ocos \in Nat /\ b.position \in Positions
  BY DEF Account, Books
<1>2. \/ FirePair(b, price) = b
      \/ /\ b.position # Flat
         /\ FirePair(b, price) = CloseQuantity(b, b.position.qty, "StopLoss", Unset)
      \/ /\ b.position # Flat
         /\ FirePair(b, price) = CloseQuantity(b, b.position.qty, "TakeProfit", Unset)
  BY DEF FirePair
<1>3. CASE FirePair(b, price) = b
  BY <1>1, <1>3 DEF Steady
<1>4. ASSUME NEW role \in LegRoles, b.position # Flat,
             FirePair(b, price) = CloseQuantity(b, b.position.qty, role, Unset)
      PROVE LET c == FirePair(b, price) IN
            /\ Account(E, W, h, Z, {}, c, Holding(c)) /\ NoEntryYet(c.events)
            /\ Steady(b, c) /\ (b.position = Flat => c = b)
  <2>1. b.position.qty \in Nat \ {0}
    BY <1>1, <1>4, PositionIs
  <2>2. role \in Roles /\ role # "Entry"
    BY DEF LegRoles, Roles
  <2> QED BY <1>4, <2>1, <2>2, AccountCloses
<1> QED BY <1>2, <1>3, <1>4 DEF LegRoles

(* The queue's entries that are still to run.                               *)
Queues(q, n) == {q[i].order.id : i \in {i \in n + 1 .. Len(q) : q[i].action = "Entry"}}

(* A queue of orders nobody else has, each once.                            *)
Queueable(q, R, Z, b) ==
  /\ q \in Seq(Actions)
  /\ \A i \in 1 .. Len(q) : q[i].action = "Entry" =>
       /\ q[i].order.role = "Entry" /\ q[i].order.oco = 0 /\ q[i].order.id \notin R
       /\ q[i].order.id \in Z => i = 1 /\ b.position = Flat
       /\ \A j \in 1 .. Len(q) : q[j].action = "Entry" /\ q[j].order.id = q[i].order.id => i = j

(* The orders of a queue from place n on.                                   *)
LEMMA QueuesAre ==
  ASSUME NEW q, NEW n, NEW id
  PROVE id \in Queues(q, n) <=>
          \E i \in n + 1 .. Len(q) : q[i].action = "Entry" /\ id = q[i].order.id
BY DEF Queues

(* A part is a part of any kind.                                            *)
LEMMA PartsAre == Seq(Parts) \subseteq Seq(AnyPart)
<1>1. Parts \subseteq AnyPart
  BY DEF Parts, AnyPart
<1> QED BY <1>1

(* The queue runs: each entry in it fills, once.                            *)
LEMMA QueueKeeps ==
  ASSUME NEW E, NEW R, NEW h \in Int, NEW Z, 0 \notin Z, NEW b,
         Account(E, R \cup Queues(queue, 0), h, Z, {}, b, Holding(b)),
         Queueable(queue, R, Z, b), NEW price
  PROVE LET c == RunQueue(b, price) IN
        /\ Account(E, R, h, Z, {}, c, Holding(c)) /\ Steady(b, c)
<1> DEFINE q == queue
           L == Len(q)
           X == {c \in Books : Tidy(E, c)}
           step == [n \in 1 .. L |-> [c \in X |-> Ran(c, q[n], price)]]
           Good(n, c) == /\ Account(E, R \cup Queues(q, n), h, Z, {}, c, Holding(c))
                         /\ Steady(b, c) /\ (n = 0 => c = b)
           P == {p \in (0 .. L) \X X : Good(p[1], p[2])}
<1>1. /\ b \in Books /\ b.ids \in Nat /\ b.ocos \in Nat /\ Tidy(E, b)
  BY DEF Account, Books
<1>2. b \in X
  BY <1>1
<1>3. q \in Seq(Actions) /\ L \in Nat /\ \A n \in 1 .. L : q[n] \in Actions
  BY DEF Queueable
<1>4. \A n \in 1 .. L :
        \/ q[n].action = "Entry" /\ q[n].order \in Orders
        \/ q[n].action = "Close"
        \/ q[n].action = "ClosePartial" /\ q[n].qty \in Nat \ {0}
  <2> SUFFICES ASSUME NEW n \in 1 .. L
               PROVE \/ q[n].action = "Entry" /\ q[n].order \in Orders
                     \/ q[n].action = "Close"
                     \/ q[n].action = "ClosePartial" /\ q[n].qty \in Nat \ {0}
    OBVIOUS
  <2>1. q[n] \in Actions
    BY <1>3
  <2> HIDE DEF q
  <2> QED BY <2>1 DEF Actions
<1> HIDE DEF q, L
<1>5. ASSUME NEW n \in 1 .. L, NEW c \in X
      PROVE /\ Ran(c, q[n], price) \in X
            /\ q[n].action # "Entry" => \/ Ran(c, q[n], price) = c
                                        \/ \E m \in Nat \ {0} :
                                             Ran(c, q[n], price) = CloseQuantity(c, m, "Close", Unset)
  <2>1. c \in Books /\ Tidy(E, c) /\ c.position \in Positions
    BY DEF Books
  <2>2. CASE q[n].action = "Entry"
    <3> DEFINE o == q[n].order
               d == FillEntry(c, o, price)
    <3>1. o \in Orders /\ o.bracket \in Seq(AnyPart)
      <4>1. o \in Orders
        BY <1>4, <2>2
      <4> HIDE DEF o
      <4> QED BY <4>1, PartsAre DEF Orders
    <3>2. Ran(c, q[n], price) = d
      BY <2>2 DEF Ran
    <3> HIDE DEF o
    <3>3. Settles(E, Told(c, o), d)
      BY <2>1, <3>1, EntryFills
    <3> QED BY <2>2, <3>2, <3>3 DEF Settles
  <2>3. ASSUME NEW m \in Nat, q[n].action # "Entry", m = 0 => c.position = Flat,
               Ran(c, q[n], price) = CloseQuantity(c, m, "Close", Unset)
        PROVE /\ Ran(c, q[n], price) \in X
              /\ \/ Ran(c, q[n], price) = c
                 \/ \E k \in Nat \ {0} : Ran(c, q[n], price) = CloseQuantity(c, k, "Close", Unset)
    <3>1. CASE c.position = Flat
      <4>1. CloseQuantity(c, m, "Close", Unset) = c
        BY <3>1 DEF CloseQuantity
      <4> QED BY <2>3, <4>1
    <3>2. CASE c.position # Flat
      <4>1. m \in Nat \ {0} /\ "Close" \in Roles /\ Unset \in Nat
        BY <2>3, <3>2 DEF Roles, Unset
      <4>2. Closes(E, c, "Close", Unset, CloseQuantity(c, m, "Close", Unset))
        BY <2>1, <3>2, <4>1, CloseIs
      <4> QED BY <2>3, <4>1, <4>2 DEF Closes
    <3> QED BY <3>1, <3>2
  <2>4. CASE q[n].action = "Close"
    <3>1. c.position.qty \in Nat /\ (c.position.qty = 0 => c.position = Flat)
      BY <2>1, PositionIs
    <3>2. Ran(c, q[n], price) = CloseQuantity(c, c.position.qty, "Close", Unset)
      BY <2>4 DEF Ran
    <3> QED BY <2>3, <2>4, <3>1, <3>2
  <2>5. CASE q[n].action = "ClosePartial" /\ q[n].qty \in Nat \ {0}
    <3>1. Ran(c, q[n], price) = CloseQuantity(c, q[n].qty, "Close", Unset)
      BY <2>5 DEF Ran
    <3> QED BY <2>3, <2>5, <3>1
  <2> QED BY <1>4, <2>2, <2>4, <2>5
<1>6. QueuedSteps(price, X, q, step)
  BY <1>5 DEF QueuedSteps, L
<1>7. <<0, b>> \in P
  <2>1. Good(0, b)
    BY <1>1 DEF Steady, q
  <2> HIDE DEF Good
  <2> QED BY <1>2, <1>3, <2>1
<1>8. ASSUME NEW n \in 1 .. L, NEW c \in X, <<n - 1, c>> \in P PROVE <<n, step[n][c]>> \in P
  <2> DEFINE d == Ran(c, q[n], price)
  <2>1. /\ Account(E, R \cup Queues(q, n - 1), h, Z, {}, c, Holding(c))
        /\ Steady(b, c) /\ (n - 1 = 0 => c = b) /\ d \in X /\ step[n][c] = d
    BY <1>5, <1>8
  <2>2. c \in Books /\ Tidy(E, c) /\ c.ids \in Nat /\ c.ocos \in Nat
    BY DEF Books
  <2>3. Account(E, R \cup Queues(q, n), h, Z, {}, d, Holding(d)) /\ Steady(c, d)
    <3>1. CASE q[n].action = "Entry"
      <4> DEFINE o == q[n].order
      <4>1. /\ o.role = "Entry" /\ o.oco = 0 /\ o.id \notin R
            /\ (o.id \in Z => n = 1 /\ b.position = Flat)
            /\ \A j \in 1 .. L : q[j].action = "Entry" /\ q[j].order.id = o.id => n = j
        BY <3>1 DEF Queueable, q, L
      <4>2. o \in Orders /\ o.bracket \in Seq(AnyPart)
        <5>1. o \in Orders
          BY <1>4, <3>1
        <5> HIDE DEF o
        <5> QED BY <5>1, PartsAre DEF Orders
      <4>3. d = FillEntry(c, o, price)
        BY <3>1 DEF Ran
      <4>4. o.id \in Queues(q, n - 1)
        <5>1. n \in (n - 1) + 1 .. Len(q)
          BY <1>3 DEF L
        <5> QED BY <3>1, <5>1, QueuesAre
      <4>5. (R \cup Queues(q, n - 1)) \ {o.id} = R \cup Queues(q, n)
        <5>1. ASSUME NEW x \in Queues(q, n - 1), x # o.id PROVE x \in Queues(q, n)
          <6>1. PICK i \in (n - 1) + 1 .. Len(q) : q[i].action = "Entry" /\ x = q[i].order.id
            BY QueuesAre
          <6>2. i # n
            BY <5>1, <6>1
          <6>3. i \in n + 1 .. Len(q)
            BY <1>3, <6>2 DEF L
          <6> QED BY <6>1, <6>3, QueuesAre
        <5>2. ASSUME NEW x \in Queues(q, n) PROVE x \in Queues(q, n - 1) /\ x # o.id
          <6>1. PICK i \in n + 1 .. Len(q) : q[i].action = "Entry" /\ x = q[i].order.id
            BY QueuesAre
          <6>2. i \in (n - 1) + 1 .. Len(q) /\ i \in 1 .. L /\ i # n
            BY <1>3 DEF L
          <6> QED BY <4>1, <6>1, <6>2, QueuesAre
        <5> QED BY <4>1, <5>1, <5>2
      <4>6. o.id \in Z => Holding(c) = 0
        <5> SUFFICES ASSUME o.id \in Z PROVE Holding(c) = 0
          OBVIOUS
        <5>1. c = b /\ b.position = Flat
          BY <2>1, <4>1
        <5> QED BY <5>1 DEF Holding, Signed, Flat
      <4> HIDE DEF o, d
      <4>7. Account(E, R \cup Queues(q, n), h, Z, {}, Told(c, o), Holding(c) + Signed(o.side, o.qty))
        <5> DEFINE W == R \cup Queues(q, n - 1)
        <5>1. o.id \in W
          BY <4>4
        <5>2. Account(E, W, h, Z, {}, c, Holding(c))
          BY <2>1
        <5>3. W \ {o.id} = R \cup Queues(q, n)
          BY <4>5
        <5> HIDE DEF W
        <5>4. Account(E, W \ {o.id}, h, Z, {}, Told(c, o), Holding(c) + Signed(o.side, o.qty))
          BY <4>1, <4>2, <4>6, <5>1, <5>2, AccountTold
        <5> QED BY <5>3, <5>4
      <4>8. Settles(E, Told(c, o), d) /\ Holding(d) = Holding(c) + Signed(o.side, o.qty)
        BY <2>2, <4>2, <4>3, EntryFills
      <4>9. Account(E, R \cup Queues(q, n), h, Z, {}, d, Holding(d))
        BY <4>7, <4>8, AccountSettles
      <4>10. Steady(c, d)
        <5>1. /\ Told(c, o).ids = c.ids /\ Told(c, o).ocos = c.ocos
              /\ Told(c, o).kept = c.kept /\ Told(c, o).placed = c.placed
              /\ Told(c, o).touched = c.touched /\ Told(c, o).resting = c.resting
          <6>1. About("Filled", o) \in Happenings
            BY <4>2, AboutIs DEF Words
          <6> QED BY <2>2, <6>1, TellingKeeps DEF Told
        <5> QED BY <4>8, <5>1 DEF Steady, Settles
      <4> QED BY <4>9, <4>10
    <3>2. CASE q[n].action # "Entry"
      <4>1. Queues(q, n) = Queues(q, n - 1)
        <5>1. ASSUME NEW x \in Queues(q, n - 1) PROVE x \in Queues(q, n)
          <6>1. PICK i \in (n - 1) + 1 .. Len(q) : q[i].action = "Entry" /\ x = q[i].order.id
            BY QueuesAre
          <6>2. i \in n + 1 .. Len(q)
            BY <1>3, <3>2, <6>1 DEF L
          <6> QED BY <6>1, <6>2, QueuesAre
        <5>2. ASSUME NEW x \in Queues(q, n) PROVE x \in Queues(q, n - 1)
          <6>1. PICK i \in n + 1 .. Len(q) : q[i].action = "Entry" /\ x = q[i].order.id
            BY QueuesAre
          <6>2. i \in (n - 1) + 1 .. Len(q)
            BY <1>3 DEF L
          <6> QED BY <6>1, <6>2, QueuesAre
        <5> QED BY <5>1, <5>2
      <4>2. d = c \/ \E m \in Nat \ {0} : d = CloseQuantity(c, m, "Close", Unset)
        BY <1>5, <3>2
      <4> HIDE DEF d
      <4>3. CASE d = c
        BY <2>1, <2>2, <4>1, <4>3 DEF Steady
      <4>4. ASSUME NEW m \in Nat \ {0}, d = CloseQuantity(c, m, "Close", Unset)
            PROVE Account(E, R \cup Queues(q, n), h, Z, {}, d, Holding(d)) /\ Steady(c, d)
        <5>1. "Close" \in Roles /\ "Close" # "Entry" /\ "Close" \notin LegRoles
          BY DEF Roles, LegRoles
        <5>2. Account(E, R \cup Queues(q, n), h, Z, {}, c, Holding(c))
          BY <2>1, <4>1
        <5> QED BY <4>4, <5>1, <5>2, AccountCloses
      <4> QED BY <4>2, <4>3, <4>4
    <3> QED BY <3>1, <3>2
  <2> HIDE DEF d
  <2>4. d \in Books
    BY <2>3 DEF Account
  <2>5. d.ids \in Nat /\ d.ocos \in Nat
    BY <2>4 DEF Books
  <2>6. Steady(b, d)
    BY <1>1, <2>1, <2>2, <2>3, <2>5 DEF Steady
  <2>7. n # 0 /\ n \in 0 .. L
    BY <1>3
  <2> HIDE DEF X
  <2> QED BY <2>1, <2>3, <2>6, <2>7
<1> HIDE DEF X, step, P
<1>9. PICK t \in Paths(Len(q), X, b, step) : t[Len(q)] = Queued(price, b, q)
  BY <1>2, <1>3, <1>6, QueuedPath
<1>10. \A n \in 0 .. L : t[n] \in X /\ <<n, t[n]>> \in P
  <2>1. Carries(P, L, X, step)
    BY <1>8 DEF Carries
  <2>2. t \in Paths(L, X, b, step)
    BY <1>9 DEF L
  <2>3. L \in Nat
    BY <1>3
  <2> QED BY <1>7, <2>1, <2>2, <2>3, AlongCarries
<1>11. t[L] = RunQueue(b, price)
  BY <1>9, PhasesAre DEF q, L
<1>12. Good(L, RunQueue(b, price))
  <2>1. L \in 0 .. L
    BY <1>3
  <2> QED BY <1>10, <1>11, <2>1 DEF P
<1>13. Queues(q, L) = {}
  BY <1>3 DEF Queues, L
<1> QED BY <1>12, <1>13

(* Less is claimed of fewer entries.                                        *)
LEMMA SettlesLess ==
  ASSUME NEW E, NEW F, E \subseteq F, NEW b, NEW c, Settles(F, b, c)
  PROVE Settles(E, b, c)
<1>1. Tidy(E, c)
  BY DEF Settles, Tidy
<1>2. Mute(E, b.events, c.events)
  BY DEF Settles, Mute
<1> QED BY <1>1, <1>2 DEF Settles

(* One place more is kept.                                                  *)
LEMMA PicksMore ==
  ASSUME NEW S, NEW s \in Seq(S), NEW r \in Seq(S), NEW n \in 1 .. Len(s), NEW K,
         K \subseteq 1 .. n - 1, NEW at, Picks(at, r, s, K)
  PROVE \E bt : Picks(bt, Append(r, s[n]), s, K \cup {n})
<1> DEFINE q == Append(r, s[n])
           bt == [j \in 1 .. Len(r) + 1 |-> IF j = Len(r) + 1 THEN n ELSE at[j]]
           L == Len(s)
<1>1. Len(r) \in Nat /\ L \in Nat /\ n \in 1 .. L /\ s[n] \in S
  OBVIOUS
<1>2. /\ q \in Seq(S) /\ Len(q) = Len(r) + 1 /\ q[Len(r) + 1] = s[n]
      /\ \A j \in 1 .. Len(r) : q[j] = r[j]
  BY <1>1, Appended
<1>3. /\ at \in [1 .. Len(r) -> K \cap (1 .. L)]
      /\ \A j \in 1 .. Len(r) : r[j] = s[at[j]]
      /\ \A i, j \in 1 .. Len(r) : i < j => at[i] < at[j]
      /\ \A k \in K \cap (1 .. L) : \E j \in 1 .. Len(r) : at[j] = k
  BY DEF Picks
<1> HIDE DEF L, q
<1>4. bt \in [1 .. Len(r) + 1 -> (K \cup {n}) \cap (1 .. L)]
  BY <1>1, <1>3
<1>5. bt[Len(r) + 1] = n /\ \A j \in 1 .. Len(r) : bt[j] = at[j]
  BY <1>1
<1> HIDE DEF bt
<1>6. \A j \in 1 .. Len(q) : q[j] = s[bt[j]]
  BY <1>1, <1>2, <1>3, <1>5
<1>7. \A j \in 1 .. Len(r) : at[j] < n
  BY <1>1, <1>3
<1>8. \A i, j \in 1 .. Len(q) : i < j => bt[i] < bt[j]
  <2> SUFFICES ASSUME NEW i \in 1 .. Len(q), NEW j \in 1 .. Len(q), i < j
               PROVE bt[i] < bt[j]
    OBVIOUS
  <2>1. i \in 1 .. Len(r)
    BY <1>1, <1>2
  <2>2. CASE j = Len(r) + 1
    BY <1>5, <1>7, <2>1, <2>2
  <2>3. CASE j # Len(r) + 1
    <3>1. j \in 1 .. Len(r)
      BY <1>1, <1>2, <2>3
    <3> QED BY <1>3, <1>5, <2>1, <3>1
  <2> QED BY <2>2, <2>3
<1>9. \A k \in (K \cup {n}) \cap (1 .. L) : \E j \in 1 .. Len(q) : bt[j] = k
  <2> SUFFICES ASSUME NEW k \in (K \cup {n}) \cap (1 .. L) PROVE \E j \in 1 .. Len(q) : bt[j] = k
    OBVIOUS
  <2>1. CASE k = n
    BY <1>1, <1>2, <1>5, <2>1
  <2>2. CASE k # n
    <3>1. PICK j \in 1 .. Len(r) : at[j] = k
      BY <1>3, <2>2
    <3> QED BY <1>1, <1>2, <1>5, <3>1
  <2> QED BY <2>1, <2>2
<1>10. bt \in [1 .. Len(q) -> (K \cup {n}) \cap (1 .. L)]
  BY <1>2, <1>4
<1>11. Picks(bt, q, s, K \cup {n})
  BY <1>6, <1>8, <1>9, <1>10 DEF Picks, L
<1> QED BY <1>11 DEF q

(* The entries at places M of a list, and the pairs of its legs.            *)
IdsAt(s, M) == {s[i].id : i \in {i \in M : ~Protective(s[i])}}
PairsIn(s)  == {s[i].oco : i \in 1 .. Len(s)}

(* What is installed while the list of b is walked: legs of new pairs.      *)
Fresh(b, c) ==
  \A i \in 1 .. Len(c.resting) : Protective(c.resting[i]) /\ c.resting[i].oco > b.ocos

(* The ids of the entries at places in M.                                   *)
LEMMA IdsAre ==
  ASSUME NEW s, NEW M, NEW id
  PROVE id \in IdsAt(s, M) <=> \E i \in M : ~Protective(s[i]) /\ id = s[i].id
BY DEF IdsAt

(* What settles stays fresh.                                                *)
LEMMA FreshStays ==
  ASSUME NEW F, NEW b \in Books, NEW c \in Books, NEW d, Fresh(b, c), b.ocos <= c.ocos,
         Settles(F, c, d)
  PROVE Fresh(b, d)
<1>1. /\ d \in Books /\ Tidy(F, d) /\ EntriesIn(d.resting) = EntriesIn(c.resting)
      /\ \A i \in 1 .. Len(d.resting) :
           d.resting[i].oco \in 1 .. c.ocos =>
             \E j \in 1 .. Len(c.resting) : c.resting[j].oco = d.resting[i].oco
  BY DEF Settles
<1>2. b.ocos \in Nat /\ c.ocos \in Nat /\ d.ocos \in Nat
  BY <1>1 DEF Books
<1> SUFFICES ASSUME NEW i \in 1 .. Len(d.resting)
             PROVE Protective(d.resting[i]) /\ d.resting[i].oco > b.ocos
  BY DEF Fresh
<1> DEFINE x == d.resting[i]
<1>3. Protective(x)
  <2> SUFFICES ASSUME ~Protective(x) PROVE FALSE
    OBVIOUS
  <2>1. x \in EntriesIn(c.resting)
    BY <1>1, EntriesAre
  <2>2. PICK j \in 1 .. Len(c.resting) : ~Protective(c.resting[j]) /\ x = c.resting[j]
    BY <2>1, EntriesAre
  <2> QED BY <2>2 DEF Fresh
<1>4. x.oco \in 0 .. d.ocos /\ x.oco # 0
  BY <1>1, <1>3 DEF Tidy
<1>5. CASE x.oco \in 1 .. c.ocos
  <2>1. PICK j \in 1 .. Len(c.resting) : c.resting[j].oco = x.oco
    BY <1>1, <1>5
  <2>2. c.resting[j].oco > b.ocos
    BY DEF Fresh
  <2> QED BY <1>3, <2>1, <2>2
<1>6. CASE x.oco \notin 1 .. c.ocos
  <2> HIDE DEF x
  <2>1. x.oco > b.ocos
    BY <1>2, <1>4, <1>6
  <2> QED BY <1>3, <2>1 DEF x
<1> QED BY <1>5, <1>6

(* The walk of the list of b, at place n with book c.                       *)
UnderWay(E, h, Z, b, n, c) ==
  /\ \E K \in SUBSET (1 .. n) :
       /\ \E at : Picks(at, c.kept, b.resting, K)
       /\ Account(E, IdsAt(b.resting, K \cup (n + 1 .. Len(b.resting))), h, Z,
                  PairsIn(b.resting), c, Holding(c))
  /\ Tidy(1 .. b.ids, c) /\ Fresh(b, c)
  /\ b.ids <= c.ids /\ b.ocos <= c.ocos /\ c.placed = b.placed /\ c.touched = b.touched

(* How to show that a walk is under way.                                    *)
LEMMA UnderWayIs ==
  ASSUME NEW E, NEW h, NEW Z, NEW b, NEW n, NEW c, NEW K \in SUBSET (1 .. n),
         \E at : Picks(at, c.kept, b.resting, K),
         Account(E, IdsAt(b.resting, K \cup (n + 1 .. Len(b.resting))), h, Z,
                 PairsIn(b.resting), c, Holding(c)),
         Tidy(1 .. b.ids, c), Fresh(b, c), b.ids <= c.ids, b.ocos <= c.ocos,
         c.placed = b.placed, c.touched = b.touched
  PROVE UnderWay(E, h, Z, b, n, c)
BY DEF UnderWay

(* A list to walk: what is in Z asks for a flat account.                    *)
Walkable(E, Z, b) ==
  /\ b \in Books /\ Tidy(E, b)
  /\ \A i \in 1 .. Len(b.resting) :
       ~Protective(b.resting[i]) /\ b.resting[i].id \in Z => b.resting[i].flat

(* One place of the walk.                                                   *)
LEMMA WalkedKeeps ==
  ASSUME NEW E, NEW h \in Int, NEW Z, NEW b, Walkable(E, Z, b), NEW n \in 1 .. Len(b.resting),
         NEW c, UnderWay(E, h, Z, b, n - 1, c), NEW price
  PROVE UnderWay(E, h, Z, b, n, Walked(c, b.resting[n], price))
<1> DEFINE s == b.resting
           L == Len(s)
           o == s[n]
           d == Walked(c, o, price)
           F == 1 .. b.ids
           Q == PairsIn(s)
<1>1. /\ b \in Books /\ s \in Seq(Orders) /\ L \in Nat /\ n \in 1 .. L /\ o \in Orders
      /\ b.ids \in Nat /\ b.ocos \in Nat
  BY DEF Walkable, Books
<1>2. E \subseteq F /\ \A i, j \in 1 .. L : s[i].id = s[j].id => i = j
  BY DEF Walkable, Tidy
<1>3. PICK K \in SUBSET (1 .. n - 1) :
        /\ \E at : Picks(at, c.kept, s, K)
        /\ Account(E, IdsAt(s, K \cup ((n - 1) + 1 .. L)), h, Z, Q, c, Holding(c))
  BY DEF UnderWay
<1>4. PICK at : Picks(at, c.kept, s, K)
  BY <1>3
<1>5. /\ Tidy(F, c) /\ Fresh(b, c) /\ c \in Books /\ c.kept \in Seq(Orders)
      /\ b.ids <= c.ids /\ b.ocos <= c.ocos /\ c.placed = b.placed /\ c.touched = b.touched
  BY <1>3 DEF UnderWay, Account, Books
<1>f. /\ ~Protective(o) => o.oco = 0 /\ o.role = "Entry"
      /\ o.bracket \in Seq(AnyPart) /\ (~Protective(o) /\ o.id \in Z => o.flat)
  <2>1. o.bracket \in Seq(AnyPart)
    BY <1>1, PartsAre DEF Orders
  <2>2. ~Protective(o) => o.oco = 0 /\ o.role = "Entry"
    BY <1>1 DEF Walkable, Tidy, Protective
  <2> QED BY <1>1, <2>1, <2>2 DEF Walkable
<1> DEFINE A == K \cup (n .. L)
           B == K \cup (n + 1 .. L)
           V == IdsAt(s, A)
           W == IdsAt(s, B)
<1> HIDE DEF s, L, o, F
<1>v. Account(E, V, h, Z, Q, c, Holding(c))
  <2>1. (n - 1) + 1 = n
    BY <1>1
  <2> QED BY <1>3, <2>1
<1> HIDE DEF Q
<1>6. V = IdsAt(s, (K \cup {n}) \cup (n + 1 .. L))
  <2>1. A = (K \cup {n}) \cup (n + 1 .. L)
    BY <1>1
  <2> QED BY <2>1
<1>a. n \in A /\ (\A i \in A : i # n => i \in B) /\ \A i \in B : i \in A /\ i \in 1 .. L /\ i # n
  BY <1>1
<1> HIDE DEF A, B
<1>7. ~Protective(o) => o.id \in V /\ V \ {o.id} = W
  <2> SUFFICES ASSUME ~Protective(o) PROVE o.id \in V /\ V \ {o.id} = W
    OBVIOUS
  <2>1. o.id \in V
    BY <1>a, IdsAre DEF o
  <2>2. ASSUME NEW x \in V, x # o.id PROVE x \in W
    <3>1. PICK i \in A : ~Protective(s[i]) /\ x = s[i].id
      BY IdsAre
    <3>2. i \in B
      BY <1>a, <2>2, <3>1 DEF o
    <3> QED BY <3>1, <3>2, IdsAre
  <2>3. ASSUME NEW x \in W PROVE x \in V /\ x # o.id
    <3>1. PICK i \in B : ~Protective(s[i]) /\ x = s[i].id
      BY IdsAre
    <3>2. i \in A /\ i \in 1 .. L /\ i # n
      BY <1>a
    <3> QED BY <1>1, <1>2, <3>1, <3>2, IdsAre DEF o
  <2> QED BY <2>1, <2>2, <2>3
<1> HIDE DEF V, W
<1>8. K \in SUBSET (1 .. n) /\ K \cup {n} \in SUBSET (1 .. n)
  BY <1>1
<1>9. CASE d = Kept(c, o)
  <2> DEFINE e == Append(c.kept, o)
  <2>1. e \in Seq(Orders)
    BY <1>1, <1>5
  <2>2. \E bt : Picks(bt, e, s, K \cup {n})
    BY <1>1, <1>4, <1>5, PicksMore DEF o, L
  <2>3. d = [c EXCEPT !.kept = e]
    BY <1>9 DEF Kept
  <2> HIDE DEF e, d
  <2>4. /\ d \in Books /\ d.kept = e /\ d.position = c.position /\ d.resting = c.resting
        /\ d.ids = c.ids /\ d.ocos = c.ocos /\ d.events = c.events
        /\ d.placed = c.placed /\ d.touched = c.touched
    BY <1>5, <2>1, <2>3 DEF Books
  <2>5. Holding(d) = Holding(c)
    BY <2>4 DEF Holding
  <2>6. Tidy(F, d) /\ Tidy(E, d) /\ Fresh(b, d)
    BY <1>5, <1>v, <2>4 DEF Tidy, Fresh, Account
  <2>7. Account(E, V, h, Z, Q, d, Holding(d))
    BY <1>v, <2>4, <2>5, <2>6 DEF Account
  <2>8. Account(E, IdsAt(s, (K \cup {n}) \cup (n + 1 .. L)), h, Z, Q, d, Holding(d))
    BY <1>6, <2>7
  <2> DEFINE M == K \cup {n}
  <2>9. /\ M \in SUBSET (1 .. n) /\ \E bt : Picks(bt, d.kept, s, M)
        /\ Account(E, IdsAt(s, M \cup (n + 1 .. L)), h, Z, Q, d, Holding(d))
    BY <1>8, <2>2, <2>4, <2>8
  <2> HIDE DEF M
  <2>10. UnderWay(E, h, Z, b, n, d)
    BY <1>5, <2>4, <2>6, <2>9, UnderWayIs DEF s, L, F, Q
  <2> QED BY <2>10 DEF d, o, s
<1>10. ASSUME ~Protective(o), NEW what \in {"PriceTouched", "AccountOccupied"},
              d = Emit(c, About(what, o))
       PROVE UnderWay(E, h, Z, b, n, d)
  <2>1. /\ About(what, o) \in Happenings /\ ~IsFill(About(what, o))
        /\ what \in Leavings \ {"Filled"}
    BY <1>1, <1>10, AboutIs DEF Words, Leavings
  <2>2. /\ d \in Books /\ Tidy(F, d) /\ d.position = c.position /\ d.ids = c.ids
        /\ d.ocos = c.ocos /\ d.kept = c.kept /\ d.placed = c.placed /\ d.touched = c.touched
        /\ d.resting = c.resting
    BY <1>5, <1>10, <2>1, TellingKeeps
  <2>3. Account(E, V \ {o.id}, h, Z, Q, d, Holding(c))
    BY <1>1, <1>7, <1>10, <1>v, <2>1, AccountLeaves
  <2>4. Holding(d) = Holding(c) /\ Fresh(b, d)
    BY <1>5, <2>2 DEF Holding, Fresh
  <2>5. Account(E, W, h, Z, Q, d, Holding(d))
    BY <1>7, <1>10, <2>3, <2>4
  <2> HIDE DEF d
  <2> QED BY <1>4, <1>5, <1>8, <2>2, <2>4, <2>5, UnderWayIs DEF s, L, F, Q, W, B
<1>11. ASSUME ~Protective(o), ~StandsDown(c, o), NEW at2, d = FillEntry(c, o, at2)
       PROVE UnderWay(E, h, Z, b, n, d)
  <2> DEFINE t == Told(c, o)
  <2> HIDE DEF d
  <2>1. Settles(F, t, d) /\ Holding(d) = Holding(c) + Signed(o.side, o.qty)
    BY <1>1, <1>5, <1>f, <1>11, EntryFills
  <2>2. Settles(E, t, d)
    BY <1>2, <2>1, SettlesLess
  <2>3. About("Filled", o) \in Happenings
    BY <1>1, AboutIs DEF Words
  <2>4. /\ t \in Books /\ t.ids = c.ids /\ t.ocos = c.ocos /\ t.kept = c.kept
        /\ t.placed = c.placed /\ t.touched = c.touched /\ t.resting = c.resting
    BY <1>5, <2>3, TellingKeeps DEF Told
  <2>5. o.id \in Z => Holding(c) = 0
    BY <1>f, <1>11 DEF StandsDown, Holding, Signed, Flat
  <2>6. Account(E, V \ {o.id}, h, Z, Q, t, Holding(c) + Signed(o.side, o.qty))
    BY <1>1, <1>7, <1>f, <1>11, <1>v, <2>5, AccountTold
  <2> HIDE DEF t
  <2>7. Account(E, W, h, Z, Q, d, Holding(d))
    BY <1>7, <1>11, <2>1, <2>2, <2>6, AccountSettles
  <2>8. Fresh(b, d)
    <3>1. Fresh(b, t)
      BY <1>5, <2>4 DEF Fresh
    <3> QED BY <1>1, <1>5, <2>1, <2>4, <3>1, FreshStays
  <2>9. /\ Tidy(F, d) /\ t.ids <= d.ids /\ t.ocos <= d.ocos
        /\ d.kept = t.kept /\ d.placed = t.placed /\ d.touched = t.touched /\ d \in Books
    BY <2>1 DEF Settles
  <2>10. b.ids <= d.ids /\ b.ocos <= d.ocos
    <3>1. c.ids \in Nat /\ c.ocos \in Nat /\ d.ids \in Nat /\ d.ocos \in Nat
      BY <1>5, <2>9 DEF Books
    <3> QED BY <1>1, <1>5, <2>4, <2>9, <3>1
  <2> QED BY <1>4, <1>5, <1>8, <2>4, <2>7, <2>8, <2>9, <2>10, UnderWayIs DEF s, L, F, Q, W, B
<1>12. \/ d = Kept(c, o)
       \/ ~Protective(o) /\ d = Emit(c, About("PriceTouched", o))
       \/ ~Protective(o) /\ d = Emit(c, About("AccountOccupied", o))
       \/ /\ ~Protective(o) /\ ~StandsDown(c, o)
          /\ d = FillEntry(c, o, IF LimitMet(o, price) THEN o.price ELSE price)
  BY DEF Walked
<1>13. UnderWay(E, h, Z, b, n, d)
  <2>0. CASE d = Kept(c, o)
    BY <1>9, <2>0 DEF o, s
  <2> DEFINE at2 == IF LimitMet(o, price) THEN o.price ELSE price
  <2>1. \/ d = Kept(c, o)
        \/ ~Protective(o) /\ d = Emit(c, About("PriceTouched", o))
        \/ ~Protective(o) /\ d = Emit(c, About("AccountOccupied", o))
        \/ ~Protective(o) /\ ~StandsDown(c, o) /\ d = FillEntry(c, o, at2)
    BY <1>12
  <2> HIDE DEF d, at2
  <2>2. CASE ~Protective(o) /\ ~StandsDown(c, o) /\ d = FillEntry(c, o, at2)
    BY <1>11, <2>2
  <2>3. CASE ~Protective(o) /\ d = Emit(c, About("PriceTouched", o))
    BY <1>10, <2>3
  <2>4. CASE ~Protective(o) /\ d = Emit(c, About("AccountOccupied", o))
    BY <1>10, <2>4
  <2> QED BY <2>0, <2>1, <2>2, <2>3, <2>4
<1> QED BY <1>13 DEF d, o, s

(* A book of a walk is taken to one.                                        *)
LEMMA WalkedIn ==
  ASSUME NEW F, NEW c \in Books, Tidy(F, c), NEW o \in Orders,
         NEW price
  PROVE Walked(c, o, price) \in Books /\ Tidy(F, Walked(c, o, price))
<1> DEFINE d == Walked(c, o, price)
<1>1. o.bracket \in Seq(AnyPart)
  BY PartsAre DEF Orders
<1>2. CASE d = Kept(c, o)
  <2>1. c.kept \in Seq(Orders)
    BY DEF Books
  <2> DEFINE e == Append(c.kept, o)
  <2>2. e \in Seq(Orders)
    BY <2>1
  <2>3. d = [c EXCEPT !.kept = e]
    BY <1>2 DEF Kept
  <2> HIDE DEF e, d
  <2>4. d \in Books /\ d.resting = c.resting /\ d.ids = c.ids /\ d.ocos = c.ocos
    BY <2>2, <2>3 DEF Books
  <2>5. Tidy(F, d)
    BY <2>4 DEF Tidy
  <2> QED BY <2>4, <2>5 DEF d
<1>3. ASSUME NEW what \in {"PriceTouched", "AccountOccupied"}, d = Emit(c, About(what, o))
      PROVE d \in Books /\ Tidy(F, d)
  <2>1. About(what, o) \in Happenings
    BY AboutIs DEF Words
  <2> QED BY <1>3, <2>1, TellingKeeps
<1>4. ASSUME NEW at2, d = FillEntry(c, o, at2) PROVE d \in Books /\ Tidy(F, d)
  <2>1. Settles(F, Told(c, o), d)
    BY <1>1, <1>4, EntryFills
  <2> QED BY <2>1 DEF Settles
<1> DEFINE at2 == IF LimitMet(o, price) THEN o.price ELSE price
<1>5. \/ d = Kept(c, o)
      \/ d = Emit(c, About("PriceTouched", o))
      \/ d = Emit(c, About("AccountOccupied", o))
      \/ d = FillEntry(c, o, at2)
  BY DEF Walked
<1>6. CASE d = FillEntry(c, o, at2)
  <2> HIDE DEF at2
  <2> QED BY <1>4, <1>6
<1>7. CASE d = Emit(c, About("PriceTouched", o))
  BY <1>3, <1>7
<1>8. CASE d = Emit(c, About("AccountOccupied", o))
  BY <1>3, <1>8
<1> QED BY <1>2, <1>5, <1>6, <1>7, <1>8

(* The walk begins with nothing kept and nothing installed.                 *)
LEMMA WalkBegins ==
  ASSUME NEW E, NEW h \in Int, NEW Z, NEW b, Walkable(E, Z, b), b.kept = <<>>,
         Account(E, IdsAt(b.resting, 1 .. Len(b.resting)), h, Z, {}, b, Holding(b))
  PROVE LET c == [b EXCEPT !.resting = <<>>] IN
        c \in Books /\ Tidy(1 .. b.ids, c) /\ UnderWay(E, h, Z, b, 0, c)
<1> DEFINE c == [b EXCEPT !.resting = <<>>]
           F == 1 .. b.ids
           none == {}
           L == Len(b.resting)
           r == <<>>
<1>0. r \in Seq(Orders) /\ Len(r) = 0 /\ 1 .. Len(r) = {} /\ b.kept = r
  OBVIOUS
<1>1. /\ b \in Books /\ b.ids \in Nat /\ b.ocos \in Nat /\ E \subseteq F
      /\ b.resting \in Seq(Orders) /\ L \in Nat
  BY DEF Walkable, Books, Tidy
<1> HIDE DEF r
<1>2. /\ c \in Books /\ c.resting = r /\ c.kept = r /\ c.ids = b.ids /\ c.ocos = b.ocos
      /\ c.placed = b.placed /\ c.touched = b.touched /\ c.events = b.events
      /\ c.position = b.position
  <2>1. c = [b EXCEPT !.resting = r]
    BY DEF r
  <2> HIDE DEF c
  <2> QED BY <1>0, <1>1, <2>1 DEF Books
<1> HIDE DEF c
<1>3. Tidy(F, c) /\ Tidy(E, c) /\ Fresh(b, c)
  BY <1>0, <1>1, <1>2 DEF Tidy, Fresh
<1>4. Spent(PairsIn(b.resting), c.events, c.ocos, c.resting)
  BY <1>0, <1>2 DEF Account, Spent, PairsIn
<1>5. Holding(c) = Holding(b)
  BY <1>2 DEF Holding
<1>6. Account(E, IdsAt(b.resting, 1 .. L), h, Z, PairsIn(b.resting), c, Holding(c))
  BY <1>2, <1>3, <1>4, <1>5 DEF Account
<1>7. none \in SUBSET (1 .. 0) /\ none \cup (0 + 1 .. L) = 1 .. L
  BY <1>1
<1>8. \E at : Picks(at, c.kept, b.resting, none)
  <2> DEFINE at == [j \in 1 .. Len(r) |-> 0]
  <2>1. at \in [1 .. Len(r) -> none \cap (1 .. L)]
    BY <1>0
  <2> HIDE DEF at
  <2>2. \A k \in none \cap (1 .. L) : FALSE
    OBVIOUS
  <2> HIDE DEF none
  <2>3. Picks(at, r, b.resting, none)
    BY <1>0, <2>1, <2>2 DEF Picks
  <2> QED BY <1>2, <2>3
<1>9. Account(E, IdsAt(b.resting, none \cup (0 + 1 .. L)), h, Z, PairsIn(b.resting), c, Holding(c))
  BY <1>6, <1>7
<1>10. b.ids <= c.ids /\ b.ocos <= c.ocos
  BY <1>1, <1>2
<1> HIDE DEF none
<1>11. UnderWay(E, h, Z, b, 0, c)
  BY <1>2, <1>3, <1>7, <1>8, <1>9, <1>10, UnderWayIs
<1> QED BY <1>2, <1>3, <1>11 DEF c

(* It ends with what was kept before what was installed.                    *)
LEMMA WalkEnds ==
  ASSUME NEW E, NEW h \in Int, NEW Z, NEW b, Walkable(E, Z, b), NEW w,
         UnderWay(E, h, Z, b, Len(b.resting), w)
  PROVE LET c == [w EXCEPT !.resting = w.kept \o @, !.kept = <<>>] IN
        /\ Account(E, IdsAt(c.resting, 1 .. Len(c.resting)), h, Z, {}, c, Holding(c))
        /\ c.kept = <<>> /\ c.placed = b.placed /\ c.touched = b.touched
        /\ b.ids <= c.ids /\ b.ocos <= c.ocos
        /\ EntriesIn(c.resting) \subseteq EntriesIn(b.resting)
<1> DEFINE s == b.resting
           L == Len(s)
           r == w.kept
           f == w.resting
           rs == r \o f
           c == [w EXCEPT !.resting = w.kept \o @, !.kept = <<>>]
           F == 1 .. b.ids
           Q == PairsIn(s)
           no == <<>>
<1>1. PICK K \in SUBSET (1 .. L) :
        /\ \E at : Picks(at, r, s, K)
        /\ Account(E, IdsAt(s, K \cup (L + 1 .. L)), h, Z, Q, w, Holding(w))
  BY DEF UnderWay
<1>2. PICK at : Picks(at, r, s, K)
  BY <1>1
<1>3. /\ b \in Books /\ s \in Seq(Orders) /\ L \in Nat /\ b.ids \in Nat /\ b.ocos \in Nat
      /\ w \in Books /\ r \in Seq(Orders) /\ f \in Seq(Orders) /\ w.ids \in Nat /\ w.ocos \in Nat
      /\ E \subseteq F
  BY <1>1 DEF Walkable, Books, Account, Tidy
<1>4. /\ Tidy(F, w) /\ Fresh(b, w) /\ b.ids <= w.ids /\ b.ocos <= w.ocos
      /\ w.placed = b.placed /\ w.touched = b.touched
  BY DEF UnderWay
<1>5. /\ at \in [1 .. Len(r) -> K \cap (1 .. L)]
      /\ \A j \in 1 .. Len(r) : r[j] = s[at[j]]
      /\ \A i, j \in 1 .. Len(r) : i < j => at[i] < at[j]
      /\ \A k \in K \cap (1 .. L) : \E j \in 1 .. Len(r) : at[j] = k
  BY <1>2 DEF Picks
<1> HIDE DEF r, f
<1>6. /\ rs \in Seq(Orders) /\ Len(rs) = Len(r) + Len(f)
      /\ \A i \in 1 .. Len(r) : rs[i] = r[i]
      /\ \A i \in 1 .. Len(f) : rs[Len(r) + i] = f[i]
      /\ Len(r) \in Nat /\ Len(f) \in Nat
  BY <1>3, Joined
<1>n. no \in Seq(Orders)
  OBVIOUS
<1> HIDE DEF rs, no
<1>7. /\ c \in Books /\ c.resting = rs /\ c.kept = no /\ c.ids = w.ids /\ c.ocos = w.ocos
      /\ c.placed = w.placed /\ c.touched = w.touched /\ c.events = w.events
      /\ c.position = w.position
  <2>1. c = [w EXCEPT !.resting = rs, !.kept = no]
    BY DEF no, rs, r, f
  <2> HIDE DEF c
  <2> QED BY <1>3, <1>6, <1>n, <2>1 DEF Books
<1> HIDE DEF c
<1>8. \A i \in 1 .. Len(rs) :
        \/ i \in 1 .. Len(r) /\ rs[i] = s[at[i]] /\ at[i] \in 1 .. L /\ at[i] \in K
        \/ i - Len(r) \in 1 .. Len(f) /\ rs[i] = f[i - Len(r)]
  <2> SUFFICES ASSUME NEW i \in 1 .. Len(rs)
               PROVE \/ i \in 1 .. Len(r) /\ rs[i] = s[at[i]] /\ at[i] \in 1 .. L /\ at[i] \in K
                     \/ i - Len(r) \in 1 .. Len(f) /\ rs[i] = f[i - Len(r)]
    OBVIOUS
  <2>1. CASE i \in 1 .. Len(r)
    BY <1>5, <1>6, <2>1
  <2>2. CASE i \notin 1 .. Len(r)
    <3>1. i - Len(r) \in 1 .. Len(f) /\ Len(r) + (i - Len(r)) = i
      BY <1>6, <2>2
    <3>2. rs[Len(r) + (i - Len(r))] = f[i - Len(r)]
      BY <1>6, <3>1
    <3> QED BY <3>1, <3>2
  <2> QED BY <2>1, <2>2
<1>9. \A i, j \in 1 .. Len(r) : at[i] = at[j] => i = j
  <2> SUFFICES ASSUME NEW i \in 1 .. Len(r), NEW j \in 1 .. Len(r), at[i] = at[j], i # j
               PROVE FALSE
    OBVIOUS
  <2>1. i < j \/ j < i
    BY <1>6
  <2>2. at[i] \in Nat /\ at[j] \in Nat
    BY <1>3, <1>5
  <2>3. at[i] < at[j] \/ at[j] < at[i]
    BY <1>5, <2>1
  <2> QED BY <2>2, <2>3
<1>10. /\ \A i \in 1 .. L : s[i].id \in F /\ s[i].oco \in 0 .. b.ocos
       /\ \A i, j \in 1 .. L : s[i].id = s[j].id => i = j
       /\ \A i \in 1 .. L : /\ Protective(s[i]) => s[i].oco # 0 /\ s[i].id \notin E
                            /\ ~Protective(s[i]) => s[i].oco = 0
       /\ \A i, j, k \in 1 .. L : s[i].oco # 0 /\ s[i].oco = s[j].oco /\ s[j].oco = s[k].oco
            => i = j \/ j = k \/ i = k
  BY DEF Walkable, Tidy
<1>11. /\ \A i \in 1 .. Len(f) : /\ f[i].id \in 1 .. w.ids /\ f[i].id \notin F
                                 /\ f[i].oco \in 0 .. w.ocos /\ f[i].oco > b.ocos
                                 /\ Protective(f[i]) /\ f[i].oco # 0 /\ f[i].id \notin E
       /\ \A i, j \in 1 .. Len(f) : f[i].id = f[j].id => i = j
       /\ \A i, j, k \in 1 .. Len(f) : f[i].oco # 0 /\ f[i].oco = f[j].oco /\ f[j].oco = f[k].oco
            => i = j \/ j = k \/ i = k
  <2>1. \A i \in 1 .. Len(f) : Protective(f[i]) /\ f[i].oco > b.ocos
    BY <1>4 DEF Fresh, f
  <2>2. \A i \in 1 .. Len(f) : /\ f[i].id \in 1 .. w.ids /\ f[i].id \notin F
                               /\ f[i].oco \in 0 .. w.ocos /\ f[i].oco # 0
    BY <1>4, <2>1 DEF Tidy, f
  <2>3. /\ \A i, j \in 1 .. Len(f) : f[i].id = f[j].id => i = j
        /\ \A i, j, k \in 1 .. Len(f) : f[i].oco # 0 /\ f[i].oco = f[j].oco /\ f[j].oco = f[k].oco
             => i = j \/ j = k \/ i = k
    BY <1>4 DEF Tidy, f
  <2> QED BY <1>3, <2>1, <2>2, <2>3
<1> HIDE DEF L, F, s, Q
<1>12. \A i \in 1 .. Len(rs) :
         /\ rs[i].id \in 1 .. w.ids /\ rs[i].oco \in 0 .. w.ocos
         /\ Protective(rs[i]) => rs[i].oco # 0 /\ rs[i].id \notin E
         /\ ~Protective(rs[i]) => rs[i].oco = 0
  <2> SUFFICES ASSUME NEW i \in 1 .. Len(rs)
               PROVE /\ rs[i].id \in 1 .. w.ids /\ rs[i].oco \in 0 .. w.ocos
                     /\ Protective(rs[i]) => rs[i].oco # 0 /\ rs[i].id \notin E
                     /\ ~Protective(rs[i]) => rs[i].oco = 0
    OBVIOUS
  <2>1. CASE i \in 1 .. Len(r) /\ rs[i] = s[at[i]] /\ at[i] \in 1 .. L
    <3>1. s[at[i]].id \in F /\ s[at[i]].oco \in 0 .. b.ocos
      BY <1>10, <2>1
    <3>2. s[at[i]].id \in 1 .. w.ids /\ s[at[i]].oco \in 0 .. w.ocos
      <4> DEFINE x == s[at[i]].id
                 y == s[at[i]].oco
      <4>1. x \in 1 .. b.ids /\ y \in 0 .. b.ocos
        BY <3>1 DEF F
      <4> HIDE DEF x, y
      <4>2. x \in 1 .. w.ids /\ y \in 0 .. w.ocos
        BY <1>3, <1>4, <4>1
      <4> QED BY <4>2 DEF x, y
    <3> QED BY <1>10, <2>1, <3>2
  <2>2. CASE i - Len(r) \in 1 .. Len(f) /\ rs[i] = f[i - Len(r)]
    BY <1>11, <2>2
  <2> QED BY <1>8, <2>1, <2>2
<1>13. \A i, j \in 1 .. Len(rs) : rs[i].id = rs[j].id => i = j
  <2> SUFFICES ASSUME NEW i \in 1 .. Len(rs), NEW j \in 1 .. Len(rs), rs[i].id = rs[j].id
               PROVE i = j
    OBVIOUS
  <2>1. CASE i \in 1 .. Len(r) /\ rs[i] = s[at[i]] /\ at[i] \in 1 .. L
    <3>1. rs[i].id \in F
      BY <1>10, <2>1
    <3>2. j \in 1 .. Len(r) /\ rs[j] = s[at[j]] /\ at[j] \in 1 .. L
      BY <1>8, <1>11, <3>1
    <3> QED BY <1>9, <1>10, <2>1, <3>2
  <2>2. CASE i - Len(r) \in 1 .. Len(f) /\ rs[i] = f[i - Len(r)]
    <3>1. rs[i].id \notin F
      BY <1>11, <2>2
    <3>2. j - Len(r) \in 1 .. Len(f) /\ rs[j] = f[j - Len(r)]
      BY <1>8, <1>10, <3>1
    <3>3. i - Len(r) = j - Len(r)
      BY <1>11, <2>2, <3>2
    <3> QED BY <1>6, <3>3
  <2> QED BY <1>8, <2>1, <2>2
<1>14. ASSUME NEW i \in 1 .. Len(rs), NEW j \in 1 .. Len(rs), NEW k \in 1 .. Len(rs),
              rs[i].oco # 0, rs[i].oco = rs[j].oco, rs[j].oco = rs[k].oco
       PROVE i = j \/ j = k \/ i = k
  <2>1. CASE i \in 1 .. Len(r) /\ rs[i] = s[at[i]] /\ at[i] \in 1 .. L
    <3>1. rs[i].oco \in 0 .. b.ocos
      BY <1>10, <2>1
    <3>2. ~(rs[i].oco > b.ocos)
      <4> DEFINE x == rs[i].oco
      <4>1. x \in 0 .. b.ocos
        BY <3>1
      <4> HIDE DEF x
      <4>2. ~(x > b.ocos)
        BY <1>3, <4>1
      <4> QED BY <4>2 DEF x
    <3>3. j \in 1 .. Len(r) /\ rs[j] = s[at[j]] /\ at[j] \in 1 .. L
      <4>1. ~(rs[j].oco > b.ocos)
        BY <1>14, <3>2
      <4>2. ASSUME j - Len(r) \in 1 .. Len(f), rs[j] = f[j - Len(r)] PROVE FALSE
        BY <1>11, <4>1, <4>2
      <4> QED BY <1>8, <4>2
    <3>4. k \in 1 .. Len(r) /\ rs[k] = s[at[k]] /\ at[k] \in 1 .. L
      <4>1. ~(rs[k].oco > b.ocos)
        BY <1>14, <3>2
      <4>2. ASSUME k - Len(r) \in 1 .. Len(f), rs[k] = f[k - Len(r)] PROVE FALSE
        BY <1>11, <4>1, <4>2
      <4> QED BY <1>8, <4>2
    <3>5. at[i] = at[j] \/ at[j] = at[k] \/ at[i] = at[k]
      BY <1>10, <1>14, <2>1, <3>3, <3>4
    <3> QED BY <1>9, <2>1, <3>3, <3>4, <3>5
  <2>2. CASE i - Len(r) \in 1 .. Len(f) /\ rs[i] = f[i - Len(r)]
    <3>1. rs[i].oco > b.ocos
      BY <1>11, <2>2
    <3>2. rs[i].oco \notin 0 .. b.ocos
      <4> DEFINE x == rs[i].oco
      <4>1. x > b.ocos
        BY <3>1
      <4> HIDE DEF x
      <4>2. x \notin 0 .. b.ocos
        BY <1>3, <4>1
      <4> QED BY <4>2 DEF x
    <3>3. j - Len(r) \in 1 .. Len(f) /\ rs[j] = f[j - Len(r)]
      BY <1>8, <1>10, <1>14, <3>2
    <3>4. k - Len(r) \in 1 .. Len(f) /\ rs[k] = f[k - Len(r)]
      BY <1>8, <1>10, <1>14, <3>2
    <3>5. i - Len(r) = j - Len(r) \/ j - Len(r) = k - Len(r) \/ i - Len(r) = k - Len(r)
      BY <1>11, <1>14, <2>2, <3>3, <3>4
    <3> QED BY <1>6, <3>5
  <2> QED BY <1>8, <2>1, <2>2
<1>15. Tidy(E, c)
  <2>1. E \subseteq 1 .. w.ids
    BY <1>3, <1>4 DEF F
  <2> QED BY <1>7, <1>12, <1>13, <1>14, <2>1 DEF Tidy
<1>16. EntriesIn(rs) \subseteq EntriesIn(s)
  <2> SUFFICES ASSUME NEW x \in EntriesIn(rs) PROVE x \in EntriesIn(s)
    OBVIOUS
  <2>1. PICK i \in 1 .. Len(rs) : ~Protective(rs[i]) /\ x = rs[i]
    BY EntriesAre
  <2>2. rs[i] = s[at[i]] /\ at[i] \in 1 .. L
    BY <1>8, <1>11, <2>1
  <2> QED BY <2>1, <2>2, EntriesAre DEF L
<1> DEFINE A == K \cup (L + 1 .. L)
           B == 1 .. Len(rs)
<1>a. \A i : i \in A <=> i \in K
  BY <1>3
<1>b. \A i : i \in B <=> i \in 1 .. Len(rs)
  OBVIOUS
<1>w. Account(E, IdsAt(s, A), h, Z, Q, w, Holding(w))
  BY <1>1 DEF s, L, Q
<1> HIDE DEF A, B
<1>17. IdsAt(rs, B) = IdsAt(s, A)
  <2>1. ASSUME NEW x \in IdsAt(rs, B) PROVE x \in IdsAt(s, A)
    <3>1. PICK i \in B : ~Protective(rs[i]) /\ x = rs[i].id
      BY IdsAre
    <3>2. rs[i] = s[at[i]] /\ at[i] \in K
      BY <1>8, <1>11, <1>b, <3>1
    <3> QED BY <1>a, <3>1, <3>2, IdsAre
  <2>2. ASSUME NEW x \in IdsAt(s, A) PROVE x \in IdsAt(rs, B)
    <3>1. PICK k \in A : ~Protective(s[k]) /\ x = s[k].id
      BY IdsAre
    <3>2. PICK j \in 1 .. Len(r) : at[j] = k
      BY <1>1, <1>5, <1>a, <3>1 DEF L, s
    <3>3. j \in 1 .. Len(rs) /\ rs[j] = s[k]
      BY <1>5, <1>6, <3>2
    <3> QED BY <1>b, <3>1, <3>3, IdsAre
  <2> QED BY <2>1, <2>2
<1>18. Spent({}, c.events, c.ocos, c.resting)
  <2> DEFINE es == w.events
  <2>1. Spent(Q, es, w.ocos, f)
    BY <1>1 DEF Account, f, Q, s
  <2> SUFFICES ASSUME NEW i \in 1 .. Len(es), IsFill(es[i]), es[i].oco # 0
               PROVE /\ es[i].oco \in 1 .. w.ocos
                     /\ \A j \in 1 .. Len(rs) : rs[j].oco # es[i].oco
                     /\ \A j \in 1 .. Len(es) : IsFill(es[j]) /\ es[j].oco = es[i].oco => j = i
    BY <1>7 DEF Spent
  <2> HIDE DEF es
  <2>2. /\ es[i].oco \in 1 .. w.ocos /\ es[i].oco \notin Q
        /\ \A j \in 1 .. Len(f) : f[j].oco # es[i].oco
        /\ \A j \in 1 .. Len(es) : IsFill(es[j]) /\ es[j].oco = es[i].oco => j = i
    BY <2>1 DEF Spent
  <2>3. \A j \in 1 .. L : s[j].oco \in Q
    BY DEF Q, PairsIn, L
  <2> QED BY <1>8, <2>2, <2>3
<1>19. Holding(c) = Holding(w)
  BY <1>7 DEF Holding
<1>20. Account(E, IdsAt(c.resting, 1 .. Len(c.resting)), h, Z, {}, c, Holding(c))
  <2>1. IdsAt(c.resting, 1 .. Len(c.resting)) = IdsAt(s, A)
    BY <1>7, <1>17 DEF B
  <2> QED BY <1>w, <1>7, <1>15, <1>18, <1>19, <2>1 DEF Account
<1> QED BY <1>4, <1>7, <1>16, <1>20 DEF c, no, s

(* Between two phases of a print: the entries at rest are those to leave.   *)
AtRest(E, h, Z, b) ==
  Account(E, IdsAt(b.resting, 1 .. Len(b.resting)), h, Z, {}, b, Holding(b)) /\ b.kept = <<>>

(* The walk of the resting list: each entry fills, goes or stays, once.     *)
LEMMA WalkKeeps ==
  ASSUME NEW E, NEW h \in Int, NEW Z, NEW b, Walkable(E, Z, b), AtRest(E, h, Z, b), NEW price
  PROVE LET c == WalkResting(b, price) IN
        /\ AtRest(E, h, Z, c) /\ c.placed = b.placed /\ c.touched = b.touched
        /\ b.ids <= c.ids /\ b.ocos <= c.ocos
        /\ EntriesIn(c.resting) \subseteq EntriesIn(b.resting)
<1> DEFINE s == b.resting
           L == Len(s)
           b0 == [b EXCEPT !.resting = <<>>]
           F == 1 .. b.ids
           X == {c \in Books : Tidy(F, c)}
           step == [n \in 1 .. L |-> [c \in X |-> Walked(c, s[n], price)]]
           P == {p \in (0 .. L) \X X : UnderWay(E, h, Z, b, p[1], p[2])}
<1>1. s \in Seq(Orders) /\ L \in Nat /\ \A n \in 1 .. L : s[n] \in Orders
  BY DEF Walkable, Books
<1>2. b0 \in Books /\ Tidy(F, b0) /\ UnderWay(E, h, Z, b, 0, b0)
  BY WalkBegins DEF AtRest
<1> HIDE DEF b0, F
<1>3. b0 \in X
  BY <1>2
<1>4. ASSUME NEW n \in 1 .. L, NEW c \in X PROVE Walked(c, s[n], price) \in X
  <2> DEFINE o == s[n]
             d == Walked(c, o, price)
  <2>1. o \in Orders /\ c \in Books /\ Tidy(F, c)
    BY <1>1
  <2> HIDE DEF o
  <2>2. d \in Books /\ Tidy(F, d)
    BY <2>1, WalkedIn
  <2> QED BY <2>2 DEF o
<1> HIDE DEF L
<1>5. WalkingSteps(price, X, s, step)
  BY <1>4 DEF WalkingSteps, L
<1>6. <<0, b0>> \in P
  BY <1>1, <1>2, <1>3
<1>7. ASSUME NEW n \in 1 .. L, NEW c \in X, <<n - 1, c>> \in P PROVE <<n, step[n][c]>> \in P
  <2> DEFINE d == Walked(c, s[n], price)
  <2>1. UnderWay(E, h, Z, b, n - 1, c) /\ d \in X /\ step[n][c] = d
    BY <1>4, <1>7
  <2>2. UnderWay(E, h, Z, b, n, d)
    BY <2>1, WalkedKeeps DEF L
  <2>3. n \in 0 .. L
    BY <1>1
  <2> HIDE DEF X, d
  <2> QED BY <2>1, <2>2, <2>3
<1> HIDE DEF X, step, P
<1>8. PICK t \in Paths(Len(s), X, b0, step) : t[Len(s)] = Walking(price, b0, s)
  BY <1>1, <1>3, <1>5, WalkingPath
<1>9. \A n \in 0 .. L : t[n] \in X /\ <<n, t[n]>> \in P
  <2>1. Carries(P, L, X, step)
    BY <1>7 DEF Carries
  <2>2. t \in Paths(L, X, b0, step)
    BY <1>8 DEF L
  <2> QED BY <1>1, <1>6, <2>1, <2>2, AlongCarries
<1> DEFINE w == Walking(price, b0, s)
<1>10. UnderWay(E, h, Z, b, Len(s), w)
  <2>1. L \in 0 .. L
    BY <1>1
  <2>2. <<L, w>> \in P
    BY <1>8, <1>9, <2>1 DEF L
  <2> QED BY <2>2 DEF P, L
<1>11. WalkResting(b, price) = [w EXCEPT !.resting = w.kept \o @, !.kept = <<>>]
  BY WalkIs DEF b0
<1> HIDE DEF w
<1> DEFINE c == [w EXCEPT !.resting = w.kept \o @, !.kept = <<>>]
<1>12. /\ Account(E, IdsAt(c.resting, 1 .. Len(c.resting)), h, Z, {}, c, Holding(c))
       /\ c.kept = <<>> /\ c.placed = b.placed /\ c.touched = b.touched
       /\ b.ids <= c.ids /\ b.ocos <= c.ocos
       /\ EntriesIn(c.resting) \subseteq EntriesIn(b.resting)
  BY <1>10, WalkEnds
<1> HIDE DEF c
<1>13. WalkResting(b, price) = c
  BY <1>11 DEF c
<1> QED BY <1>12, <1>13 DEF AtRest

(* The ids of a list's entries.                                             *)
EntryIds(s) == IdsAt(s, 1 .. Len(s))

(* Lists with the same entries have the same ids.                           *)
LEMMA EntryIdsAre ==
  ASSUME NEW s, NEW r, EntriesIn(s) = EntriesIn(r)
  PROVE EntryIds(s) = EntryIds(r)
<1>1. ASSUME NEW x, NEW y, EntriesIn(x) = EntriesIn(y), NEW id \in EntryIds(x)
      PROVE id \in EntryIds(y)
  <2>1. PICK i \in 1 .. Len(x) : ~Protective(x[i]) /\ id = x[i].id
    BY IdsAre DEF EntryIds
  <2>2. x[i] \in EntriesIn(y)
    BY <1>1, <2>1, EntriesAre
  <2>3. PICK j \in 1 .. Len(y) : ~Protective(y[j]) /\ x[i] = y[j]
    BY <2>2, EntriesAre
  <2> QED BY <2>1, <2>3, IdsAre DEF EntryIds
<1> QED BY <1>1

(* What the simulator's calls find: orders of distinct ids, queued or       *)
(* resting; those in Z wait for a flat account.                             *)
Ready(b, q, Z) ==
  /\ b \in Books /\ Tidy(Working(b, q), b) /\ b.kept = <<>>
  /\ Queueable(q, EntryIds(b.resting), Z, b)
  /\ \A i \in 1 .. Len(b.resting) :
       ~Protective(b.resting[i]) /\ b.resting[i].id \in Z => b.resting[i].flat

(* What works rests or is queued.                                           *)
LEMMA WorkingIs ==
  ASSUME NEW b \in Books, NEW q \in Seq(Actions)
  PROVE Working(b, q) = EntryIds(b.resting) \cup Queues(q, 0)
<1>1. b.resting \in Seq(Orders)
  BY DEF Books
<1>2. DOMAIN b.resting = 1 .. Len(b.resting) /\ DOMAIN q = 0 + 1 .. Len(q)
  BY <1>1
<1> QED BY <1>2 DEF Working, EntryIds, IdsAt, Queues

(* A call begins with nothing said.                                         *)
LEMMA CallBegins ==
  ASSUME NEW E, NEW b \in Books, Tidy(E, b), NEW Z
  PROVE LET c == [b EXCEPT !.events = <<>>] IN
        /\ Account(E, E, Holding(b), Z, {}, c, Holding(c)) /\ NoEntryYet(c.events)
        /\ Holding(c) = Holding(b) /\ Holding(b) \in Int
        /\ c.position = b.position /\ c.resting = b.resting /\ c.kept = b.kept
        /\ c.placed = b.placed /\ c.touched = b.touched /\ c.ids = b.ids /\ c.ocos = b.ocos
        /\ c.events = <<>>
<1> DEFINE no == <<>>
           c == [b EXCEPT !.events = no]
<1>1. no \in Seq(Happenings) /\ Len(no) = 0 /\ 1 .. Len(no) = {}
  OBVIOUS
<1>n. no = <<>>
  OBVIOUS
<1> HIDE DEF no
<1>2. /\ c \in Books /\ c.position = b.position /\ c.resting = b.resting /\ c.kept = b.kept
      /\ c.placed = b.placed /\ c.touched = b.touched /\ c.ids = b.ids /\ c.ocos = b.ocos
      /\ c.events = no
  BY <1>1 DEF Books
<1> HIDE DEF c
<1>3. Tidy(E, c)
  BY <1>2 DEF Tidy
<1>4. Holding(c) = Holding(b) /\ Holding(b) \in Int
  <2>1. b.position.side \in Sides /\ b.position.qty \in Nat
    BY PositionIs DEF Books
  <2> QED BY <1>2, <2>1, SignedIs DEF Holding
<1>5. Explained(Holding(b), Z, no, Holding(b))
  BY <1>4, <1>n, ExplainedNone
<1>6. Spoken(E, E, no) /\ Ordered(no) /\ NoEntryYet(no) /\ Spent({}, no, c.ocos, c.resting)
  BY <1>1 DEF Spoken, Ordered, NoEntryYet, Spent
<1>7. Account(E, E, Holding(b), Z, {}, c, Holding(c)) /\ NoEntryYet(c.events)
  BY <1>2, <1>3, <1>4, <1>5, <1>6 DEF Account
<1> QED BY <1>2, <1>4, <1>7 DEF c, no

(* What a call makes of a ready book.                                       *)
Accounted(b, q, Z, c, r) ==
  /\ Account(Working(b, q), Working(c, r), Holding(b), Z, {}, c, Holding(c))
  /\ c.kept = <<>> /\ b.ids <= c.ids

(* One print.                                                               *)
LEMMA PrintKeeps ==
  ASSUME NEW Z, 0 \notin Z, Ready(book, queue, Z), NEW price
  PROVE LET c == SweepOrphans(WalkResting(ProtectionFirst(Quiet, price), price)) IN
        /\ Accounted(book, queue, Z, c, <<>>) /\ c.placed = book.placed
        /\ c.touched = book.touched
        /\ EntriesIn(c.resting) \subseteq EntriesIn(book.resting)
<1> DEFINE E == Working(book, queue)
           h == Holding(book)
           R == EntryIds(book.resting)
           c1 == FirePair(Quiet, price)
           c2 == FireLegs(c1, price)
           c3 == RunQueue(c2, price)
           c4 == WalkResting(c3, price)
           c5 == SweepOrphans(c4)
<1>1. /\ book \in Books /\ Tidy(E, book) /\ book.kept = <<>> /\ queue \in Seq(Actions)
      /\ book.ids \in Nat /\ book.ocos \in Nat
  BY DEF Ready, Queueable, Books
<1>2. E = R \cup Queues(queue, 0)
  BY <1>1, WorkingIs
<1> DEFINE c0 == [book EXCEPT !.events = <<>>]
<1>c. Quiet = c0
  BY DEF Quiet
<1> HIDE DEF E, c0
<1>3. /\ Account(E, E, h, Z, {}, c0, Holding(c0)) /\ NoEntryYet(c0.events)
      /\ h \in Int /\ c0.position = book.position /\ c0.resting = book.resting
      /\ c0.kept = book.kept /\ c0.placed = book.placed /\ c0.touched = book.touched
      /\ c0.ids = book.ids
  BY <1>1, CallBegins DEF c0
<1> HIDE DEF h
<1>4. /\ Account(E, E, h, Z, {}, c1, Holding(c1)) /\ NoEntryYet(c1.events)
      /\ Steady(c0, c1) /\ (c0.position = Flat => c1 = c0)
  BY <1>3, <1>c, PairKeeps
<1> HIDE DEF c1
<1>5. /\ Account(E, E, h, Z, {}, c2, Holding(c2)) /\ NoEntryYet(c2.events)
      /\ Steady(c1, c2) /\ (c1.position = Flat => c2 = c1)
  BY <1>3, <1>4, ScanKeeps
<1> HIDE DEF c2
<1>6. Queueable(queue, R, Z, c2)
  <2>1. Queueable(queue, R, Z, book)
    BY DEF Ready
  <2>2. book.position = Flat => c2.position = Flat
    BY <1>3, <1>4, <1>5
  <2> QED BY <2>1, <2>2 DEF Queueable
<1>7. Account(E, R, h, Z, {}, c3, Holding(c3)) /\ Steady(c2, c3)
  <2> HIDE DEF R
  <2> QED BY <1>2, <1>3, <1>5, <1>6, QueueKeeps
<1> HIDE DEF c3
<1>8. /\ EntriesIn(c3.resting) = EntriesIn(book.resting) /\ c3.kept = <<>>
      /\ c3.placed = book.placed /\ c3.touched = book.touched /\ book.ids <= c3.ids
      /\ c3.ids \in Nat
  <2>1. c1.ids \in Nat /\ c2.ids \in Nat /\ c3.ids \in Nat
    BY <1>4, <1>5, <1>7 DEF Account, Books
  <2> QED BY <1>1, <1>3, <1>4, <1>5, <1>7, <2>1 DEF Steady
<1>9. Walkable(E, Z, c3)
  <2>1. c3 \in Books /\ Tidy(E, c3)
    BY <1>7 DEF Account
  <2>2. ASSUME NEW i \in 1 .. Len(c3.resting), ~Protective(c3.resting[i]), c3.resting[i].id \in Z
        PROVE c3.resting[i].flat
    <3>1. c3.resting[i] \in EntriesIn(book.resting)
      BY <1>8, <2>2, EntriesAre
    <3>2. PICK j \in 1 .. Len(book.resting) :
            ~Protective(book.resting[j]) /\ c3.resting[i] = book.resting[j]
      BY <3>1, EntriesAre
    <3> QED BY <2>2, <3>2 DEF Ready
  <2> QED BY <2>1, <2>2 DEF Walkable
<1>10. R = EntryIds(c3.resting)
  BY <1>8, EntryIdsAre
<1>11. /\ Account(E, EntryIds(c4.resting), h, Z, {}, c4, Holding(c4))
       /\ c4.kept = <<>> /\ c4.placed = c3.placed /\ c4.touched = c3.touched
       /\ c3.ids <= c4.ids
       /\ EntriesIn(c4.resting) \subseteq EntriesIn(c3.resting)
  <2>1. h \in Int /\ Walkable(E, Z, c3)
    BY <1>3, <1>9
  <2>2. AtRest(E, h, Z, c3)
    BY <1>7, <1>8, <1>10 DEF AtRest, EntryIds
  <2>3. /\ AtRest(E, h, Z, c4) /\ c4.placed = c3.placed /\ c4.touched = c3.touched
        /\ c3.ids <= c4.ids
        /\ EntriesIn(c4.resting) \subseteq EntriesIn(c3.resting)
    BY <2>1, <2>2, WalkKeeps
  <2> QED BY <2>3 DEF AtRest, EntryIds
<1> HIDE DEF c4
<1>12. c4 \in Books /\ Tidy(E, c4) /\ c4.ids \in Nat
  BY <1>11 DEF Account, Books
<1>13. Settles(E, c4, c5) /\ c5.position = c4.position
  BY <1>12, SweepSettles, SettlesSame DEF SweepOrphans
<1> HIDE DEF c5
<1>14. Account(E, EntryIds(c4.resting), h, Z, {}, c5, Holding(c5))
  <2>1. Holding(c5) = Holding(c4)
    BY <1>13 DEF Holding
  <2> QED BY <1>3, <1>11, <1>13, <2>1, AccountSettles
<1>15. /\ EntriesIn(c5.resting) = EntriesIn(c4.resting) /\ c5.kept = c4.kept
       /\ c5.placed = c4.placed /\ c5.touched = c4.touched /\ c4.ids <= c5.ids
       /\ c5 \in Books /\ c5.ids \in Nat
  BY <1>13 DEF Settles, Books
<1>16. Working(c5, <<>>) = EntryIds(c4.resting)
  <2> DEFINE no == <<>>
  <2>1. no \in Seq(Actions) /\ Queues(no, 0) = {}
    BY DEF Queues
  <2> HIDE DEF no
  <2>2. Working(c5, no) = EntryIds(c5.resting)
    BY <1>15, <2>1, WorkingIs
  <2>3. EntryIds(c5.resting) = EntryIds(c4.resting)
    BY <1>15, EntryIdsAre
  <2> QED BY <2>2, <2>3 DEF no
<1>17. book.ids <= c5.ids
  BY <1>1, <1>8, <1>11, <1>12, <1>15
<1>18. Accounted(book, queue, Z, c5, <<>>)
  BY <1>11, <1>14, <1>15, <1>16, <1>17 DEF Accounted, E, h
<1>19. SweepOrphans(WalkResting(ProtectionFirst(Quiet, price), price)) = c5
  BY DEF ProtectionFirst, c1, c2, c3, c4, c5
<1> QED BY <1>8, <1>11, <1>15, <1>18, <1>19

-----------------------------------------------------------------------------
(* The commands. *)

(* A tidy book is tidy of fewer orders.                                     *)
LEMMA TidyLess ==
  ASSUME NEW E, NEW F, E \subseteq F, NEW c, Tidy(F, c)
  PROVE Tidy(E, c)
BY DEF Tidy

(* Nothing said of E, and nothing gone of it.                               *)
LEMMA SpokenNothing ==
  ASSUME NEW E, NEW W, E \subseteq W, NEW es, \A i \in 1 .. Len(es) : es[i].id \notin E
  PROVE Spoken(E, W, es)
BY DEF Spoken

(* A command fills nothing, and leaves c and r of b and q.                  *)
Commanded(b, q, Y, c, r) ==
  /\ c \in Books /\ c.kept = <<>> /\ b.ids <= c.ids /\ Holding(c) = Holding(b)
  /\ Tidy(Working(b, q) \cup Working(c, r), c)
  /\ Queueable(r, EntryIds(c.resting), Y, c)
  /\ \A i \in 1 .. Len(c.resting) :
       ~Protective(c.resting[i]) /\ c.resting[i].id \in Y => c.resting[i].flat
  /\ \A i \in 1 .. Len(c.events) : ~IsFill(c.events[i])
  /\ Spoken(Working(b, q), Working(c, r), c.events)
  /\ \A id \in Working(c, r) : id \in Working(b, q) \/ b.ids < id

(* All of it, where the entries working are named.                          *)
LEMMA CommandedIs ==
  ASSUME NEW b, NEW q, NEW Y, NEW c, NEW r, NEW E, NEW W, NEW F,
         E = Working(b, q), W = Working(c, r), F = E \cup W,
         c \in Books, c.kept = <<>>, b.ids <= c.ids, Holding(c) = Holding(b), Tidy(F, c),
         Queueable(r, EntryIds(c.resting), Y, c),
         \A i \in 1 .. Len(c.resting) :
           ~Protective(c.resting[i]) /\ c.resting[i].id \in Y => c.resting[i].flat,
         \A i \in 1 .. Len(c.events) : ~IsFill(c.events[i]), Spoken(E, W, c.events),
         \A id \in W : id \in E \/ b.ids < id
  PROVE Commanded(b, q, Y, c, r)
BY DEF Commanded

(* A command leaves the account ready, and accounts for itself.             *)
LEMMA CommandProceeds ==
  ASSUME NEW b \in Books, NEW q, NEW Y, NEW c, NEW r, Commanded(b, q, Y, c, r), NEW Z
  PROVE Ready(c, r, Y) /\ Accounted(b, q, Z, c, r)
<1> DEFINE E == Working(b, q)
           W == Working(c, r)
           h == Holding(b)
           es == c.events
           no == <<>>
<1>1. /\ c \in Books /\ c.kept = no /\ b.ids <= c.ids /\ Holding(c) = h
      /\ Tidy(E \cup W, c) /\ Spoken(E, W, es)
      /\ \A i \in 1 .. Len(es) : ~IsFill(es[i])
  BY DEF Commanded
<1>2. es \in Seq(Happenings) /\ Len(es) \in Nat
  BY <1>1 DEF Books
<1>3. Tidy(E, c) /\ Tidy(W, c)
  <2>1. E \subseteq E \cup W /\ W \subseteq E \cup W
    OBVIOUS
  <2> HIDE DEF E, W
  <2> DEFINE F == E \cup W
  <2>2. Tidy(F, c) /\ E \subseteq F /\ W \subseteq F
    BY <1>1, <2>1
  <2> HIDE DEF F
  <2> QED BY <2>2, TidyLess
<1>4. h \in Int
  <2>1. b.position.side \in Sides /\ b.position.qty \in Nat
    BY PositionIs DEF Books
  <2> QED BY <2>1, SignedIs DEF Holding
<1>5. Explained(h, Z, es, h)
  <2>1. no \in Seq(Happenings) /\ Len(no) = 0
    OBVIOUS
  <2>2. Explained(h, Z, no, h)
    BY <1>4, ExplainedNone
  <2> HIDE DEF no, h, es
  <2>3. Mute({}, no, es)
    BY <1>1, <1>2, <2>1 DEF Mute
  <2> QED BY <1>4, <2>1, <2>2, <2>3, ExplainedMute
<1>6. Ordered(es) /\ Spent({}, es, c.ocos, c.resting)
  BY <1>1 DEF Ordered, Spent
<1>7. Account(E, W, h, Z, {}, c, Holding(c))
  <2> HIDE DEF E, W, h
  <2> QED BY <1>1, <1>3, <1>5, <1>6 DEF Account
<1>8. Accounted(b, q, Z, c, r)
  BY <1>1, <1>7 DEF Accounted
<1>9. Ready(c, r, Y)
  BY <1>1, <1>3 DEF Ready, Commanded
<1> QED BY <1>8, <1>9

(* What every command starts from.                                          *)
LEMMA Quieted ==
  ASSUME NEW Z, Ready(book, queue, Z)
  PROVE /\ Quiet \in Books /\ Quiet.position = book.position /\ Quiet.resting = book.resting
        /\ Quiet.kept = <<>> /\ Quiet.placed = book.placed /\ Quiet.touched = book.touched
        /\ Quiet.ids = book.ids /\ Quiet.ocos = book.ocos /\ Quiet.events = <<>>
        /\ Tidy(Working(book, queue), Quiet) /\ Holding(Quiet) = Holding(book)
        /\ Holding(book) \in Int
        /\ book \in Books /\ Tidy(Working(book, queue), book) /\ queue \in Seq(Actions)
        /\ book.ids \in Nat /\ book.ocos \in Nat /\ book.resting \in Seq(Orders)
        /\ Working(book, queue) = EntryIds(book.resting) \cup Queues(queue, 0)
        /\ Working(book, queue) \subseteq 1 .. book.ids
<1> DEFINE E == Working(book, queue)
           c == [book EXCEPT !.events = <<>>]
<1>1. /\ book \in Books /\ Tidy(E, book) /\ book.kept = <<>> /\ queue \in Seq(Actions)
      /\ book.ids \in Nat /\ book.ocos \in Nat /\ book.resting \in Seq(Orders)
  BY DEF Ready, Queueable, Books
<1>2. E = EntryIds(book.resting) \cup Queues(queue, 0) /\ E \subseteq 1 .. book.ids
  BY <1>1, WorkingIs DEF Tidy
<1> HIDE DEF E
<1>3. /\ Account(E, E, Holding(book), Z, {}, c, Holding(c))
      /\ Holding(c) = Holding(book) /\ Holding(book) \in Int
      /\ c.position = book.position /\ c.resting = book.resting /\ c.kept = book.kept
      /\ c.placed = book.placed /\ c.touched = book.touched /\ c.ids = book.ids
      /\ c.ocos = book.ocos /\ c.events = <<>>
  BY <1>1, CallBegins
<1> HIDE DEF c
<1>4. Quiet = c
  BY DEF Quiet, c
<1> QED BY <1>1, <1>2, <1>3, <1>4 DEF Account, E

(* The ids of a queue longer by one.                                        *)
LEMMA QueuesMore ==
  ASSUME NEW q \in Seq(Actions), NEW a \in Actions
  PROVE /\ a.action # "Entry" => Queues(Append(q, a), 0) = Queues(q, 0)
        /\ a.action = "Entry" => Queues(Append(q, a), 0) = Queues(q, 0) \cup {a.order.id}
<1> DEFINE r == Append(q, a)
           zero == 0
<1>1. /\ Len(r) = Len(q) + 1 /\ r[Len(q) + 1] = a /\ Len(q) \in Nat
      /\ \A i \in 1 .. Len(q) : r[i] = q[i]
  BY Appended
<1>2. \A i \in zero + 1 .. Len(r) : i = Len(q) + 1 \/ i \in zero + 1 .. Len(q)
  BY <1>1
<1>3. \A i \in zero + 1 .. Len(q) : i \in zero + 1 .. Len(r) /\ r[i] = q[i]
  BY <1>1
<1>4. Len(q) + 1 \in zero + 1 .. Len(r)
  BY <1>1
<1> HIDE DEF r, zero
<1>5. ASSUME NEW id \in Queues(r, zero)
      PROVE id \in Queues(q, zero) \/ (a.action = "Entry" /\ id = a.order.id)
  <2>1. PICK i \in zero + 1 .. Len(r) : r[i].action = "Entry" /\ id = r[i].order.id
    BY QueuesAre
  <2>2. CASE i = Len(q) + 1
    BY <1>1, <2>1, <2>2
  <2>3. CASE i \in zero + 1 .. Len(q)
    <3>1. q[i].action = "Entry" /\ id = q[i].order.id
      BY <1>3, <2>1, <2>3
    <3>2. id \in Queues(q, zero)
      BY <2>3, <3>1 DEF Queues
    <3> QED BY <3>2
  <2> QED BY <1>2, <2>2, <2>3
<1>6. ASSUME NEW id \in Queues(q, zero) PROVE id \in Queues(r, zero)
  <2>1. PICK i \in zero + 1 .. Len(q) : q[i].action = "Entry" /\ id = q[i].order.id
    BY QueuesAre
  <2> QED BY <1>3, <2>1, QueuesAre
<1>7. a.action = "Entry" => a.order.id \in Queues(r, zero)
  BY <1>1, <1>4, QueuesAre
<1> QED BY <1>5, <1>6, <1>7 DEF r, zero

(* A queue longer by one can still run.                                     *)
LEMMA QueueableMore ==
  ASSUME NEW q, NEW R, NEW Z, NEW b, Queueable(q, R, Z, b), NEW a \in Actions, NEW c,
         c.position = b.position,
         a.action = "Entry" => /\ a.order.role = "Entry" /\ a.order.oco = 0
                               /\ a.order.id \notin R /\ a.order.id \notin Queues(q, 0)
                               /\ a.order.id \in Z => q = <<>> /\ b.position = Flat
  PROVE Queueable(Append(q, a), R, Z, c)
<1> DEFINE r == Append(q, a)
           zero == 0
<1>0. q \in Seq(Actions) /\ (q = <<>> => Len(q) = 0)
  BY DEF Queueable
<1>1. /\ r \in Seq(Actions) /\ Len(r) = Len(q) + 1 /\ r[Len(q) + 1] = a /\ Len(q) \in Nat
      /\ \A i \in 1 .. Len(q) : r[i] = q[i]
  BY <1>0, Appended
<1>2. \A i \in 1 .. Len(r) : i = Len(q) + 1 \/ i \in 1 .. Len(q)
  BY <1>1
<1>z. a.action = "Entry" => a.order.id \notin Queues(q, zero)
  OBVIOUS
<1>y. \A i \in 1 .. Len(q) : i \in zero + 1 .. Len(q)
  OBVIOUS
<1> HIDE DEF r, zero
<1>3. \A i \in 1 .. Len(q) : q[i].action = "Entry" =>
        /\ q[i].order.role = "Entry" /\ q[i].order.oco = 0 /\ q[i].order.id \notin R
        /\ q[i].order.id \in Z => i = 1 /\ b.position = Flat
        /\ \A j \in 1 .. Len(q) : q[j].action = "Entry" /\ q[j].order.id = q[i].order.id => i = j
  BY DEF Queueable
<1>4. ASSUME a.action = "Entry", NEW i \in 1 .. Len(q), q[i].action = "Entry"
      PROVE q[i].order.id # a.order.id
  <2>1. q[i].order.id \in Queues(q, zero)
    BY <1>4, <1>y, QueuesAre
  <2> QED BY <1>4, <1>z, <2>1
<1>5. ASSUME NEW i \in 1 .. Len(r), r[i].action = "Entry"
      PROVE /\ r[i].order.role = "Entry" /\ r[i].order.oco = 0 /\ r[i].order.id \notin R
            /\ r[i].order.id \in Z => i = 1 /\ c.position = Flat
            /\ \A j \in 1 .. Len(r) : r[j].action = "Entry" /\ r[j].order.id = r[i].order.id => i = j
  <2>1. CASE i = Len(q) + 1
    <3>1. r[i] = a
      BY <1>1, <2>1
    <3>2. \A j \in 1 .. Len(r) : r[j].action = "Entry" /\ r[j].order.id = r[i].order.id => i = j
      BY <1>1, <1>2, <1>4, <1>5, <2>1, <3>1
    <3>3. r[i].order.id \in Z => i = 1 /\ c.position = Flat
      BY <1>0, <1>1, <1>5, <2>1, <3>1
    <3> QED BY <1>5, <3>1, <3>2, <3>3
  <2>2. CASE i \in 1 .. Len(q)
    <3>1. r[i] = q[i]
      BY <1>1, <2>2
    <3>2. \A j \in 1 .. Len(r) : r[j].action = "Entry" /\ r[j].order.id = r[i].order.id => i = j
      BY <1>1, <1>2, <1>3, <1>4, <1>5, <2>2, <3>1
    <3> QED BY <1>3, <1>5, <2>2, <3>1, <3>2
  <2> QED BY <1>2, <2>1, <2>2
<1> QED BY <1>1, <1>5 DEF Queueable, r

(* The mark moves.                                                          *)
LEMMA SeedKeeps ==
  ASSUME NEW Y, Ready(book, queue, Y), NEW price, Seed(price)
  PROVE Commanded(book, queue, Y, book', queue')
<1> DEFINE E == Working(book, queue)
<1>1. book' = Quiet /\ queue' = queue
  BY DEF Seed
<1>2. /\ Quiet \in Books /\ Quiet.position = book.position /\ Quiet.resting = book.resting
      /\ Quiet.kept = <<>> /\ Quiet.ids = book.ids /\ Quiet.events = <<>>
      /\ Tidy(E, Quiet) /\ Holding(Quiet) = Holding(book) /\ book.ids \in Nat
  BY Quieted
<1>3. Working(Quiet, queue) = E
  BY <1>2 DEF Working
<1>4. 1 .. Len(Quiet.events) = {}
  BY <1>2
<1>5. Spoken(E, E, Quiet.events) /\ \A i \in 1 .. Len(Quiet.events) : ~IsFill(Quiet.events[i])
  BY <1>4, SpokenNothing
<1>6. E = E \cup E /\ book.ids <= Quiet.ids
  BY <1>2
<1>7. Queueable(queue, EntryIds(Quiet.resting), Y, Quiet)
  BY <1>2 DEF Ready, Queueable
<1>8. \A i \in 1 .. Len(Quiet.resting) :
        ~Protective(Quiet.resting[i]) /\ Quiet.resting[i].id \in Y => Quiet.resting[i].flat
  BY <1>2 DEF Ready
<1> DEFINE c == Quiet
<1>9. E = Working(book, queue) /\ E = Working(c, queue) /\ E = E \cup E
  BY <1>3
<1> HIDE DEF E, c
<1>10. Commanded(book, queue, Y, c, queue)
  BY <1>2, <1>5, <1>6, <1>7, <1>8, <1>9, CommandedIs DEF c
<1> QED BY <1>1, <1>10 DEF c

(* A close is queued.                                                       *)
LEMMA CloseQueues ==
  ASSUME NEW Y, Ready(book, queue, Y), NEW a \in Actions, a.action # "Entry", Close(a)
  PROVE Commanded(book, queue, Y, book', queue')
<1> DEFINE E == Working(book, queue)
           r == Append(queue, a)
<1>1. book' = Quiet /\ queue' = r
  BY DEF Close
<1>2. /\ Quiet \in Books /\ Quiet.position = book.position /\ Quiet.resting = book.resting
      /\ Quiet.kept = <<>> /\ Quiet.ids = book.ids /\ Quiet.events = <<>>
      /\ Tidy(E, Quiet) /\ Holding(Quiet) = Holding(book) /\ book.ids \in Nat
      /\ queue \in Seq(Actions) /\ E = EntryIds(book.resting) \cup Queues(queue, 0)
  BY Quieted
<1>r. r \in Seq(Actions)
  BY <1>2
<1>3. Working(Quiet, r) = E
  <2>1. Queues(r, 0) = Queues(queue, 0)
    BY <1>2, QueuesMore
  <2>2. Working(Quiet, r) = EntryIds(Quiet.resting) \cup Queues(r, 0)
    BY <1>2, <1>r, WorkingIs
  <2> QED BY <1>2, <2>1, <2>2
<1>4. 1 .. Len(Quiet.events) = {}
  BY <1>2
<1>5. Spoken(E, E, Quiet.events) /\ \A i \in 1 .. Len(Quiet.events) : ~IsFill(Quiet.events[i])
  BY <1>4, SpokenNothing
<1>6. E = E \cup E /\ book.ids <= Quiet.ids
  BY <1>2
<1>7. Queueable(r, EntryIds(Quiet.resting), Y, Quiet)
  <2>1. Queueable(queue, EntryIds(Quiet.resting), Y, book)
    BY <1>2 DEF Ready
  <2> QED BY <1>2, <2>1, QueueableMore
<1>8. \A i \in 1 .. Len(Quiet.resting) :
        ~Protective(Quiet.resting[i]) /\ Quiet.resting[i].id \in Y => Quiet.resting[i].flat
  BY <1>2 DEF Ready
<1> DEFINE c == Quiet
<1>9. E = Working(book, queue) /\ E = Working(c, r) /\ E = E \cup E
  BY <1>3
<1> HIDE DEF E, c, r
<1>10. Commanded(book, queue, Y, c, r)
  BY <1>2, <1>5, <1>6, <1>7, <1>8, <1>9, CommandedIs DEF c
<1> QED BY <1>1, <1>10 DEF c

(* Orders that are not there can be said to be anybody's.                   *)
LEMMA ReadyOf ==
  ASSUME NEW b, NEW q, NEW Z, NEW Y, Ready(b, q, Z), \A id \in Y : id \in 1 .. b.ids => id \in Z
  PROVE Ready(b, q, Y)
<1>1. /\ b \in Books /\ Tidy(Working(b, q), b) /\ q \in Seq(Actions) /\ b.ids \in Nat
      /\ b.resting \in Seq(Orders)
  BY DEF Ready, Queueable, Books
<1>2. \A id \in Working(b, q) : id \in Y => id \in Z
  BY <1>1 DEF Tidy
<1>3. ASSUME NEW i \in 1 .. Len(q), q[i].action = "Entry", q[i].order.id \in Y
      PROVE q[i].order.id \in Z
  <2>1. i \in DOMAIN q
    BY <1>1
  <2>2. q[i].order.id \in Working(b, q)
    BY <1>3, <2>1 DEF Working
  <2> QED BY <1>2, <1>3, <2>2
<1>4. ASSUME NEW i \in 1 .. Len(b.resting), ~Protective(b.resting[i]), b.resting[i].id \in Y
      PROVE b.resting[i].flat
  <2>1. i \in DOMAIN b.resting
    BY <1>1
  <2>2. b.resting[i].id \in Working(b, q)
    BY <1>4, <2>1 DEF Working
  <2> QED BY <1>2, <1>4, <2>2 DEF Ready
<1>5. Queueable(q, EntryIds(b.resting), Z, b)
  BY DEF Ready
<1>6. Queueable(q, EntryIds(b.resting), Y, b)
  BY <1>3, <1>5 DEF Queueable
<1> QED BY <1>4, <1>6 DEF Ready

(* The entries that may be asked for.                                       *)
Asked == [side : Sides, kind : {"Market", "Limit", "Stop"}, price : Levels, qty : Nat \ {0},
          bracket : Brackets, cancel : Levels, flat : BOOLEAN]

(* An order is given the next id, and nothing else is said.                 *)
LEMMA PlacedIs ==
  ASSUME NEW Y, Ready(book, queue, Y), NEW e \in Asked
  PROVE LET o == Order(e)
            c == Placed(e)
            E == Working(book, queue)
        IN  /\ o \in Orders /\ o.id = book.ids + 1 /\ o.role = "Entry" /\ o.oco = 0
            /\ o.flat = e.flat /\ o.kind = e.kind
            /\ c \in Books /\ c.position = book.position /\ c.resting = book.resting
            /\ c.kept = <<>> /\ c.ids = book.ids + 1 /\ c.ocos = book.ocos
            /\ c.placed = book.placed + 1 /\ c.touched = book.touched
            /\ c.events \in Seq(Happenings) /\ Len(c.events) = 1
            /\ c.events[1] = About("Placed", o) /\ ~IsFill(c.events[1])
            /\ c.events[1].id = book.ids + 1
            /\ Tidy(E \cup {book.ids + 1}, c) /\ book.ids + 1 \notin E
            /\ Holding(c) = Holding(book)
<1> DEFINE o == Order(e)
           c == Placed(e)
           E == Working(book, queue)
           n == book.ids + 1
           m == book.placed + 1
           v == About("Placed", o)
           es == <<v>>
<1>1. /\ Quiet \in Books /\ Quiet.position = book.position /\ Quiet.resting = book.resting
      /\ Quiet.kept = <<>> /\ Quiet.placed = book.placed /\ Quiet.touched = book.touched
      /\ Quiet.ids = book.ids /\ Quiet.ocos = book.ocos /\ Quiet.events = <<>>
      /\ Tidy(E, Quiet) /\ Holding(Quiet) = Holding(book)
      /\ book.ids \in Nat /\ book.ocos \in Nat /\ book.resting \in Seq(Orders)
      /\ E \subseteq 1 .. book.ids
  BY Quieted
<1>2. book.placed \in Nat
  BY <1>1 DEF Books
<1>3. n \in Nat /\ m \in Nat /\ n \notin 1 .. book.ids /\ n \notin E
  BY <1>1, <1>2
<1>4. /\ o.id = n /\ o.role = "Entry" /\ o.oco = 0 /\ o.flat = e.flat /\ o.kind = e.kind
      /\ o \in Orders
  <2>1. e.bracket \in Seq(Parts)
    BY SimulatorAssumption DEF Asked
  <2>2. /\ e.side \in Sides /\ e.kind \in {"Market", "Limit", "Stop"} /\ e.price \in Levels
        /\ e.qty \in Nat \ {0} /\ e.cancel \in Levels /\ e.flat \in BOOLEAN
    BY DEF Asked
  <2>3. Unset \in Nat /\ Unset = 0
    BY DEF Unset
  <2>4. o = [id |-> n, side |-> e.side, role |-> "Entry", kind |-> e.kind,
             price |-> e.price, qty |-> e.qty, bracket |-> e.bracket, cancel |-> e.cancel,
             flat |-> e.flat, oco |-> Unset]
    BY DEF Order
  <2> HIDE DEF n, o
  <2> QED BY <1>3, <2>1, <2>2, <2>3, <2>4 DEF Orders
<1> HIDE DEF o
<1>5. v \in Happenings /\ v.id = n /\ ~IsFill(v)
  BY <1>4, AboutIs DEF Words
<1> HIDE DEF v
<1>6. es \in Seq(Happenings) /\ Len(es) = 1 /\ es[1] = v
  BY <1>5
<1>7. Append(<<>>, v) = es
  OBVIOUS
<1> HIDE DEF es
<1>8. c = [Quiet EXCEPT !.ids = n, !.placed = m, !.events = es]
  <2>1. c = [[Quiet EXCEPT !.ids = @ + 1, !.placed = @ + 1] EXCEPT !.events = Append(@, v)]
    BY DEF Placed, Emit, v, o
  <2> HIDE DEF c
  <2>2. c = [[Quiet EXCEPT !.ids = n, !.placed = m] EXCEPT !.events = Append(@, v)]
    BY <1>1, <2>1
  <2> HIDE DEF n, m
  <2> QED BY <1>1, <1>7, <2>2 DEF Books
<1> HIDE DEF c, n, m
<1>9. /\ c \in Books /\ c.position = book.position /\ c.resting = book.resting
      /\ c.kept = <<>> /\ c.ids = n /\ c.ocos = book.ocos
      /\ c.placed = m /\ c.touched = book.touched /\ c.events = es
  BY <1>1, <1>3, <1>6, <1>8 DEF Books
<1>10. Holding(c) = Holding(book)
  BY <1>9 DEF Holding
<1>11. \A x \in 1 .. book.ids : x \in 1 .. n /\ x # n
  BY <1>1 DEF n
<1>12. Tidy(E \cup {n}, c)
  <2>1. E \cup {n} \subseteq 1 .. n
    <3>1. n \in 1 .. n
      BY <1>1 DEF n
    <3> QED BY <1>1, <1>11, <3>1
  <2>2. \A i \in 1 .. Len(book.resting) : book.resting[i].id \in 1 .. book.ids
    BY <1>1 DEF Tidy
  <2>3. \A i \in 1 .. Len(book.resting) : book.resting[i].id \in 1 .. n /\ book.resting[i].id # n
    BY <1>11, <2>2
  <2> HIDE DEF E
  <2> DEFINE s == book.resting
             F == E \cup {n}
  <2>4. /\ \A i, j \in 1 .. Len(s) : s[i].id = s[j].id => i = j
        /\ \A i \in 1 .. Len(s) :
             /\ s[i].oco \in 0 .. book.ocos
             /\ Protective(s[i]) => s[i].oco # 0 /\ s[i].id \notin E
             /\ ~Protective(s[i]) => s[i].oco = 0
        /\ \A i, j, k \in 1 .. Len(s) :
             s[i].oco # 0 /\ s[i].oco = s[j].oco /\ s[j].oco = s[k].oco => i = j \/ j = k \/ i = k
    <3> DEFINE q == Quiet
    <3>1. Tidy(E, q) /\ q.resting = book.resting /\ q.ocos = book.ocos
      BY <1>1
    <3> HIDE DEF q, s
    <3>2. q.resting = s
      BY <3>1 DEF s
    <3>3. \A i, j \in 1 .. Len(s) : s[i].id = s[j].id => i = j
      BY <3>1, <3>2 DEF Tidy
    <3>4. \A i \in 1 .. Len(s) :
            /\ s[i].oco \in 0 .. book.ocos
            /\ Protective(s[i]) => s[i].oco # 0 /\ s[i].id \notin E
            /\ ~Protective(s[i]) => s[i].oco = 0
      BY <3>1, <3>2 DEF Tidy
    <3>5. \A i, j, k \in 1 .. Len(s) :
            s[i].oco # 0 /\ s[i].oco = s[j].oco /\ s[j].oco = s[k].oco
              => i = j \/ j = k \/ i = k
      BY <3>1, <3>2 DEF Tidy
    <3> QED BY <3>3, <3>4, <3>5
  <2>5. \A i \in 1 .. Len(s) : Protective(s[i]) => s[i].id \notin F
    BY <2>3, <2>4
  <2>6. F \subseteq 1 .. n
    BY <2>1
  <2>7. c.resting = s /\ c.ids = n /\ c.ocos = book.ocos
    BY <1>9
  <2>8. \A i \in 1 .. Len(s) : s[i].id \in 1 .. n
    BY <2>3
  <2> HIDE DEF s, F
  <2>9. Tidy(F, c)
    BY <2>4, <2>5, <2>6, <2>7, <2>8 DEF Tidy
  <2> QED BY <2>9 DEF F
<1>p. m = book.placed + 1 /\ n = book.ids + 1
  BY DEF m, n
<1> QED BY <1>3, <1>4, <1>5, <1>6, <1>9, <1>10, <1>12, <1>p DEF c, o, v

(* A market order is queued.                                                *)
LEMMA MarketQueues ==
  ASSUME NEW Y, Ready(book, queue, Y), NEW e \in Asked, PlaceMarket(e),
         book.ids + 1 \in Y => queue = <<>> /\ book.position = Flat
  PROVE Commanded(book, queue, Y, book', queue')
<1> DEFINE o == Order(e)
           c == Placed(e)
           E == Working(book, queue)
           n == book.ids + 1
           a == [action |-> "Entry", order |-> o]
           r == Append(queue, a)
           F == E \cup {n}
<1>0. book' = c /\ queue' = r
  BY DEF PlaceMarket
<1>1. /\ o \in Orders /\ o.id = n /\ o.role = "Entry" /\ o.oco = 0
      /\ c \in Books /\ c.position = book.position /\ c.resting = book.resting
      /\ c.kept = <<>> /\ c.ids = n
      /\ Len(c.events) = 1 /\ ~IsFill(c.events[1]) /\ c.events[1].id = n
      /\ Tidy(F, c) /\ n \notin E /\ Holding(c) = Holding(book)
  BY PlacedIs
<1>2. /\ queue \in Seq(Actions) /\ E = EntryIds(book.resting) \cup Queues(queue, 0)
      /\ book.ids \in Nat
  BY Quieted
<1>3. a \in Actions /\ a.action = "Entry" /\ a.order = o
  BY <1>1 DEF Actions
<1>v. \A id \in F : id \in E \/ book.ids < id
  BY <1>2
<1> HIDE DEF o, c, E, a, n
<1>r. r \in Seq(Actions)
  BY <1>2, <1>3
<1>4. Working(c, r) = F
  <2>1. Queues(r, 0) = Queues(queue, 0) \cup {n}
    BY <1>1, <1>2, <1>3, QueuesMore
  <2>2. Working(c, r) = EntryIds(c.resting) \cup Queues(r, 0)
    BY <1>1, <1>r, WorkingIs
  <2> QED BY <1>1, <1>2, <2>1, <2>2
<1>5. \A i \in 1 .. Len(c.events) : i = 1
  BY <1>1
<1>6. Spoken(E, F, c.events) /\ \A i \in 1 .. Len(c.events) : ~IsFill(c.events[i])
  <2>1. \A i \in 1 .. Len(c.events) : c.events[i].id \notin E /\ ~IsFill(c.events[i])
    BY <1>1, <1>5
  <2> QED BY <2>1, SpokenNothing
<1>7. Queueable(r, EntryIds(c.resting), Y, c)
  <2>1. Queueable(queue, EntryIds(c.resting), Y, book)
    BY <1>1 DEF Ready
  <2>2. o.id \in Y => queue = <<>> /\ book.position = Flat
    BY <1>1 DEF n
  <2>3. o.id \notin EntryIds(c.resting) /\ o.id \notin Queues(queue, 0)
    BY <1>1, <1>2
  <2> QED BY <1>1, <1>3, <2>1, <2>2, <2>3, QueueableMore
<1>8. \A i \in 1 .. Len(c.resting) :
        ~Protective(c.resting[i]) /\ c.resting[i].id \in Y => c.resting[i].flat
  BY <1>1 DEF Ready
<1>9. E = Working(book, queue) /\ F = Working(c, r) /\ F = E \cup F /\ book.ids <= c.ids
  BY <1>1, <1>2, <1>4 DEF E, n
<1> HIDE DEF F, r
<1>10. Commanded(book, queue, Y, c, r)
  BY <1>1, <1>6, <1>7, <1>8, <1>9, <1>v, CommandedIs
<1> QED BY <1>0, <1>10 DEF c, r, a, o

(* The ids of a list longer by one.                                         *)
LEMMA EntryIdsMore ==
  ASSUME NEW s \in Seq(Orders), NEW o \in Orders, ~Protective(o)
  PROVE EntryIds(Append(s, o)) = EntryIds(s) \cup {o.id}
<1> DEFINE r == Append(s, o)
           M == 1 .. Len(r)
           N == 1 .. Len(s)
<1>1. /\ Len(r) = Len(s) + 1 /\ r[Len(s) + 1] = o /\ Len(s) \in Nat
      /\ \A i \in 1 .. Len(s) : r[i] = s[i]
  BY Appended
<1>2. /\ \A i \in M : i = Len(s) + 1 \/ i \in N
      /\ \A i \in N : i \in M
      /\ Len(s) + 1 \in M
  BY <1>1
<1>3. EntryIds(r) = IdsAt(r, M) /\ EntryIds(s) = IdsAt(s, N) /\ \A i \in N : r[i] = s[i]
  BY <1>1 DEF EntryIds
<1> HIDE DEF r, M, N
<1>4. ASSUME NEW id \in IdsAt(r, M), id # o.id PROVE id \in IdsAt(s, N)
  <2>1. PICK i \in M : ~Protective(r[i]) /\ id = r[i].id
    BY IdsAre
  <2>2. i \in N
    BY <1>1, <1>2, <1>4, <2>1
  <2> QED BY <1>3, <2>1, <2>2, IdsAre
<1>5. ASSUME NEW id \in IdsAt(s, N) PROVE id \in IdsAt(r, M)
  <2>1. PICK i \in N : ~Protective(s[i]) /\ id = s[i].id
    BY IdsAre
  <2> QED BY <1>2, <1>3, <2>1, IdsAre
<1>6. o.id \in IdsAt(r, M)
  BY <1>1, <1>2, IdsAre
<1> QED BY <1>3, <1>4, <1>5, <1>6 DEF r

(* An entry is placed to rest.                                              *)
LEMMA RestingRests ==
  ASSUME NEW Y, Ready(book, queue, Y), NEW e \in Asked, PlaceResting(e),
         book.ids + 1 \in Y => e.flat
  PROVE Commanded(book, queue, Y, book', queue')
<1> DEFINE o == Order(e)
           d == Placed(e)
           E == Working(book, queue)
           n == book.ids + 1
           s == book.resting
           rs == Append(s, o)
           c == [d EXCEPT !.resting = rs]
           F == E \cup {n}
<1>1. /\ o \in Orders /\ o.id = n /\ o.role = "Entry" /\ o.oco = 0 /\ o.flat = e.flat
      /\ d \in Books /\ d.position = book.position /\ d.resting = s
      /\ d.kept = <<>> /\ d.ids = n /\ d.ocos = book.ocos
      /\ Len(d.events) = 1 /\ ~IsFill(d.events[1]) /\ d.events[1].id = n
      /\ Tidy(F, d) /\ n \notin E /\ Holding(d) = Holding(book)
  BY PlacedIs
<1>0. book' = c /\ queue' = queue
  BY <1>1 DEF PlaceResting
<1>2. /\ queue \in Seq(Actions) /\ E = EntryIds(s) \cup Queues(queue, 0)
      /\ book.ids \in Nat /\ book.ocos \in Nat /\ s \in Seq(Orders) /\ E \subseteq 1 .. book.ids
  BY Quieted
<1>p. ~Protective(o)
  BY <1>1 DEF Protective
<1>v. \A id \in F : id \in E \/ book.ids < id
  BY <1>2
<1> HIDE DEF o, d, E, n, s
<1>3. /\ rs \in Seq(Orders) /\ Len(rs) = Len(s) + 1 /\ rs[Len(s) + 1] = o /\ Len(s) \in Nat
      /\ \A i \in 1 .. Len(s) : rs[i] = s[i]
  BY <1>1, <1>2, Appended
<1>4. \A i \in 1 .. Len(rs) : i = Len(s) + 1 \/ i \in 1 .. Len(s)
  BY <1>3
<1>i. EntryIds(rs) = EntryIds(s) \cup {n}
  BY <1>1, <1>2, <1>p, EntryIdsMore
<1> HIDE DEF rs
<1>5. /\ c \in Books /\ c.position = book.position /\ c.resting = rs /\ c.kept = <<>>
      /\ c.ids = n /\ c.ocos = book.ocos /\ c.events = d.events
  BY <1>1, <1>3 DEF Books
<1> HIDE DEF c
<1>6. Holding(c) = Holding(book)
  BY <1>1, <1>5 DEF Holding
<1>7. Working(c, queue) = F
  <2>1. Working(c, queue) = EntryIds(c.resting) \cup Queues(queue, 0)
    BY <1>2, <1>5, WorkingIs
  <2> QED BY <1>2, <1>5, <1>i, <2>1
<1>8. Tidy(F, c)
  <2>1. /\ F \subseteq 1 .. n
        /\ \A i \in 1 .. Len(s) : s[i].id \in 1 .. n
        /\ \A i, j \in 1 .. Len(s) : s[i].id = s[j].id => i = j
        /\ \A i \in 1 .. Len(s) :
             /\ s[i].oco \in 0 .. book.ocos
             /\ Protective(s[i]) => s[i].oco # 0 /\ s[i].id \notin F
             /\ ~Protective(s[i]) => s[i].oco = 0
        /\ \A i, j, k \in 1 .. Len(s) :
             s[i].oco # 0 /\ s[i].oco = s[j].oco /\ s[j].oco = s[k].oco => i = j \/ j = k \/ i = k
    <3>1. Tidy(F, d) /\ d.resting = s /\ d.ids = n /\ d.ocos = book.ocos
      BY <1>1
    <3> HIDE DEF F
    <3>2. /\ F \subseteq 1 .. d.ids
          /\ \A i \in 1 .. Len(d.resting) : d.resting[i].id \in 1 .. d.ids
          /\ \A i, j \in 1 .. Len(d.resting) : d.resting[i].id = d.resting[j].id => i = j
      BY <3>1 DEF Tidy
    <3>3. \A i \in 1 .. Len(d.resting) :
            /\ d.resting[i].oco \in 0 .. d.ocos
            /\ Protective(d.resting[i]) => d.resting[i].oco # 0 /\ d.resting[i].id \notin F
            /\ ~Protective(d.resting[i]) => d.resting[i].oco = 0
      BY <3>1 DEF Tidy
    <3>4. \A i, j, k \in 1 .. Len(d.resting) :
            /\ d.resting[i].oco # 0 /\ d.resting[i].oco = d.resting[j].oco
            /\ d.resting[j].oco = d.resting[k].oco
            => i = j \/ j = k \/ i = k
      BY <3>1 DEF Tidy
    <3> QED BY <3>1, <3>2, <3>3, <3>4
  <2>2. \A i \in 1 .. Len(s) : s[i].id # n
    <3>1. \A i \in 1 .. Len(book.resting) : book.resting[i].id \in 1 .. book.ids
      BY DEF Ready, Tidy
    <3>2. \A x \in 1 .. book.ids : x # n
      BY <1>2 DEF n
    <3> QED BY <3>1, <3>2 DEF s
  <2>3. n \in 1 .. n /\ 0 \in 0 .. book.ocos
    BY <1>2 DEF n
  <2>4. \A i \in 1 .. Len(rs) :
          /\ rs[i].id \in 1 .. n /\ rs[i].oco \in 0 .. book.ocos
          /\ Protective(rs[i]) => rs[i].oco # 0 /\ rs[i].id \notin F
          /\ ~Protective(rs[i]) => rs[i].oco = 0
    BY <1>1, <1>3, <1>4, <1>p, <2>1, <2>3
  <2>5. \A i, j \in 1 .. Len(rs) : rs[i].id = rs[j].id => i = j
    BY <1>1, <1>3, <1>4, <2>1, <2>2
  <2>6. \A i \in 1 .. Len(rs) : rs[i].oco # 0 => i \in 1 .. Len(s) /\ rs[i] = s[i]
    BY <1>1, <1>3, <1>4
  <2>7. ASSUME NEW i \in 1 .. Len(rs), NEW j \in 1 .. Len(rs), NEW k \in 1 .. Len(rs),
               rs[i].oco # 0, rs[i].oco = rs[j].oco, rs[j].oco = rs[k].oco
        PROVE i = j \/ j = k \/ i = k
    <3>1. /\ i \in 1 .. Len(s) /\ j \in 1 .. Len(s) /\ k \in 1 .. Len(s)
          /\ rs[i] = s[i] /\ rs[j] = s[j] /\ rs[k] = s[k]
      BY <2>6, <2>7
    <3> QED BY <2>1, <2>7, <3>1
  <2> QED BY <1>5, <2>1, <2>4, <2>5, <2>7 DEF Tidy
<1>9. Spoken(E, F, c.events) /\ \A i \in 1 .. Len(c.events) : ~IsFill(c.events[i])
  <2>1. \A i \in 1 .. Len(c.events) : i = 1
    <3>1. Len(c.events) = 1
      BY <1>1, <1>5
    <3> QED BY <3>1
  <2>2. \A i \in 1 .. Len(c.events) : c.events[i].id \notin E /\ ~IsFill(c.events[i])
    BY <1>1, <1>5, <2>1
  <2> QED BY <2>2, SpokenNothing
<1>10. Queueable(queue, EntryIds(c.resting), Y, c)
  <2>1. Queueable(queue, EntryIds(s), Y, book)
    BY DEF Ready, s
  <2>2. \A i \in 1 .. Len(queue) : queue[i].action = "Entry" => queue[i].order.id # n
    <3> SUFFICES ASSUME NEW i \in 1 .. Len(queue), queue[i].action = "Entry"
                 PROVE queue[i].order.id # n
      OBVIOUS
    <3>1. i \in 0 + 1 .. Len(queue)
      OBVIOUS
    <3>2. queue[i].order.id \in Queues(queue, 0)
      BY <3>1 DEF Queues
    <3> QED BY <1>1, <1>2, <3>2
  <2> QED BY <1>5, <1>i, <2>1, <2>2 DEF Queueable
<1>11. \A i \in 1 .. Len(c.resting) :
        ~Protective(c.resting[i]) /\ c.resting[i].id \in Y => c.resting[i].flat
  <2>1. \A i \in 1 .. Len(s) : ~Protective(s[i]) /\ s[i].id \in Y => s[i].flat
    BY DEF Ready, s
  <2>2. n \in Y => o.flat
    BY <1>1 DEF n
  <2> QED BY <1>1, <1>3, <1>4, <1>5, <2>1, <2>2
<1>12. E = Working(book, queue) /\ F = Working(c, queue) /\ F = E \cup F /\ book.ids <= c.ids
  BY <1>2, <1>5, <1>7 DEF E, n
<1> HIDE DEF F
<1>13. Commanded(book, queue, Y, c, queue)
  BY <1>5, <1>6, <1>8, <1>9, <1>10, <1>11, <1>12, <1>v, CommandedIs
<1> QED BY <1>0, <1>13 DEF c, d, rs, s, o

(* A resting order is amended: neither its id nor what it waits for.        *)
LEMMA AmendKeeps ==
  ASSUME NEW Y, Ready(book, queue, Y), NEW i \in 1 .. Len(book.resting), NEW o \in Orders,
         o.id = book.resting[i].id, o.role = book.resting[i].role, o.oco = book.resting[i].oco,
         o.flat = book.resting[i].flat
  PROVE Commanded(book, queue, Y,
          [Quiet EXCEPT !.resting = [@ EXCEPT ![i] = o], !.touched = @ + 1], queue)
<1> DEFINE E == Working(book, queue)
           s == book.resting
           rs == [s EXCEPT ![i] = o]
           n == Quiet.touched + 1
           c == [Quiet EXCEPT !.resting = [@ EXCEPT ![i] = o], !.touched = @ + 1]
<1>1. /\ Quiet \in Books /\ Quiet.position = book.position /\ Quiet.resting = s
      /\ Quiet.kept = <<>> /\ Quiet.ids = book.ids /\ Quiet.ocos = book.ocos
      /\ Quiet.events = <<>> /\ Tidy(E, book) /\ Holding(Quiet) = Holding(book)
      /\ book.ids \in Nat /\ book.ocos \in Nat /\ s \in Seq(Orders) /\ queue \in Seq(Actions)
      /\ E = EntryIds(s) \cup Queues(queue, 0)
  BY Quieted
<1>2. n \in Nat
  BY <1>1 DEF Books
<1>3. /\ rs \in Seq(Orders) /\ Len(rs) = Len(s) /\ DOMAIN rs = DOMAIN s
      /\ \A j \in 1 .. Len(s) : /\ rs[j].id = s[j].id /\ rs[j].role = s[j].role
                                /\ rs[j].oco = s[j].oco /\ rs[j].flat = s[j].flat
  <2> HIDE DEF s
  <2>1. rs \in Seq(Orders) /\ Len(rs) = Len(s) /\ DOMAIN rs = DOMAIN s /\ i \in 1 .. Len(s)
    BY <1>1 DEF s
  <2>2. \A j \in 1 .. Len(s) : rs[j] = IF j = i THEN o ELSE s[j]
    BY <1>1
  <2>3. o.id = s[i].id /\ o.role = s[i].role /\ o.oco = s[i].oco /\ o.flat = s[i].flat
    BY DEF s
  <2> HIDE DEF rs
  <2> QED BY <2>1, <2>2, <2>3
<1>4. c = [Quiet EXCEPT !.resting = rs, !.touched = n]
  BY <1>1
<1> HIDE DEF rs, n, c, s, E
<1>5. /\ c \in Books /\ c.position = book.position /\ c.resting = rs /\ c.kept = <<>>
      /\ c.ids = book.ids /\ c.ocos = book.ocos /\ c.events = <<>>
  BY <1>1, <1>2, <1>3, <1>4 DEF Books
<1>6. Holding(c) = Holding(book)
  BY <1>1, <1>5 DEF Holding
<1>7. \A j \in 1 .. Len(s) : Protective(rs[j]) = Protective(s[j])
  BY <1>3 DEF Protective
<1>8. Tidy(E, c)
  <2>1. /\ E \subseteq 1 .. book.ids
        /\ \A k \in 1 .. Len(s) : s[k].id \in 1 .. book.ids
        /\ \A k, j \in 1 .. Len(s) : s[k].id = s[j].id => k = j
        /\ \A k \in 1 .. Len(s) :
             /\ s[k].oco \in 0 .. book.ocos
             /\ Protective(s[k]) => s[k].oco # 0 /\ s[k].id \notin E
             /\ ~Protective(s[k]) => s[k].oco = 0
        /\ \A x, j, k \in 1 .. Len(s) :
             s[x].oco # 0 /\ s[x].oco = s[j].oco /\ s[j].oco = s[k].oco => x = j \/ j = k \/ x = k
    BY <1>1 DEF Tidy, s
  <2>2. \A k \in 1 .. Len(rs) : rs[k].id \in 1 .. book.ids
    BY <1>3, <2>1
  <2>3. \A k, j \in 1 .. Len(rs) : rs[k].id = rs[j].id => k = j
    BY <1>3, <2>1
  <2>4. \A k \in 1 .. Len(rs) :
             /\ rs[k].oco \in 0 .. book.ocos
             /\ Protective(rs[k]) => rs[k].oco # 0 /\ rs[k].id \notin E
             /\ ~Protective(rs[k]) => rs[k].oco = 0
    BY <1>3, <1>7, <2>1
  <2>5. \A x, j, k \in 1 .. Len(rs) :
             rs[x].oco # 0 /\ rs[x].oco = rs[j].oco /\ rs[j].oco = rs[k].oco
               => x = j \/ j = k \/ x = k
    BY <1>3, <2>1
  <2> QED BY <1>5, <2>1, <2>2, <2>3, <2>4, <2>5 DEF Tidy
<1>9. EntryIds(rs) = EntryIds(s)
  <2> DEFINE M == 1 .. Len(s)
  <2>1. /\ \A j \in M : rs[j].id = s[j].id /\ Protective(rs[j]) = Protective(s[j])
        /\ EntryIds(rs) = IdsAt(rs, M) /\ EntryIds(s) = IdsAt(s, M)
    BY <1>3, <1>7 DEF EntryIds
  <2> HIDE DEF M
  <2> QED BY <2>1 DEF IdsAt
<1>10. Working(c, queue) = E
  BY <1>1, <1>5, <1>9, WorkingIs
<1>11. Queueable(queue, EntryIds(c.resting), Y, c)
  <2>1. Queueable(queue, EntryIds(s), Y, book)
    BY DEF Ready, s
  <2> QED BY <1>5, <1>9, <2>1 DEF Queueable
<1>12. \A k \in 1 .. Len(c.resting) :
        ~Protective(c.resting[k]) /\ c.resting[k].id \in Y => c.resting[k].flat
  <2>1. \A k \in 1 .. Len(s) : ~Protective(s[k]) /\ s[k].id \in Y => s[k].flat
    BY DEF Ready, s
  <2> QED BY <1>3, <1>5, <1>7, <2>1
<1>13. Spoken(E, E, c.events) /\ \A k \in 1 .. Len(c.events) : ~IsFill(c.events[k])
  <2>1. 1 .. Len(c.events) = {}
    BY <1>5
  <2> QED BY <2>1, SpokenNothing
<1>14. E = Working(book, queue) /\ E = Working(c, queue) /\ E = E \cup E /\ book.ids <= c.ids
  BY <1>1, <1>5, <1>10 DEF E
<1>15. Commanded(book, queue, Y, c, queue)
  BY <1>5, <1>6, <1>8, <1>11, <1>12, <1>13, <1>14, CommandedIs
<1> QED BY <1>15 DEF c

(* An amended price, and an amended bracket.                                *)
LEMMA AmendsKeep ==
  ASSUME NEW Y, Ready(book, queue, Y), NEW i \in 1 .. Len(book.resting),
         \/ \E price \in Prices : ModifyOrder(i, price)
         \/ \E b \in Brackets : SetOrderBracket(i, b)
  PROVE Commanded(book, queue, Y, book', queue')
<1> DEFINE o == book.resting[i]
<1>1. book.resting \in Seq(Orders) /\ Quiet \in Books /\ Quiet.resting = book.resting
  BY Quieted
<1>2. o \in Orders
  BY <1>1
<1>3. ASSUME NEW price \in Prices, ModifyOrder(i, price)
      PROVE Commanded(book, queue, Y, book', queue')
  <2> DEFINE x == [o EXCEPT !.price = price]
  <2>1. x \in Orders /\ x.id = o.id /\ x.role = o.role /\ x.oco = o.oco /\ x.flat = o.flat
    <3> HIDE DEF o
    <3> QED BY <1>2 DEF Orders, Levels
  <2>2. /\ book' = [Quiet EXCEPT !.resting = [@ EXCEPT ![i] = x], !.touched = @ + 1]
        /\ queue' = queue
    BY <1>1, <1>3 DEF ModifyOrder, Books
  <2> HIDE DEF x
  <2> QED BY <2>1, <2>2, AmendKeeps
<1>4. ASSUME NEW b \in Brackets, SetOrderBracket(i, b)
      PROVE Commanded(book, queue, Y, book', queue')
  <2> DEFINE x == [o EXCEPT !.bracket = b]
  <2>0. b \in Seq(Parts)
    BY SimulatorAssumption
  <2>1. x \in Orders /\ x.id = o.id /\ x.role = o.role /\ x.oco = o.oco /\ x.flat = o.flat
    <3> HIDE DEF o
    <3> QED BY <1>2, <2>0 DEF Orders
  <2>2. /\ book' = [Quiet EXCEPT !.resting = [@ EXCEPT ![i] = x], !.touched = @ + 1]
        /\ queue' = queue
    BY <1>1, <1>4 DEF SetOrderBracket, Books
  <2> HIDE DEF x
  <2> QED BY <2>1, <2>2, AmendKeeps
<1> QED BY <1>3, <1>4

-----------------------------------------------------------------------------
(* What cancels orders: K and M are the places that stay.                   *)
Drops(b, q, c, r, K, M) ==
  /\ c \in Books /\ c.kept = <<>> /\ c.ids = b.ids /\ c.ocos = b.ocos
  /\ (b.position = Flat => c.position = Flat)
  /\ \E at : Picks(at, c.resting, b.resting, K)
  /\ r \in Seq(Actions) /\ \E bt : Picks(bt, r, q, M)

(* The entry id is left by such a filter.                                   *)
Left(id, b, q, K, M) ==
  \/ \E k \in K \cap (1 .. Len(b.resting)) :
       ~Protective(b.resting[k]) /\ id = b.resting[k].id
  \/ \E k \in M \cap (1 .. Len(q)) : q[k].action = "Entry" /\ id = q[k].order.id

(* The entries of a filtered list.                                          *)
LEMMA IdsLeft ==
  ASSUME NEW s, NEW t, NEW K, NEW at, Picks(at, t, s, K), NEW id
  PROVE id \in EntryIds(t) <=>
          \E k \in K \cap (1 .. Len(s)) : ~Protective(s[k]) /\ id = s[k].id
<1> DEFINE M == 1 .. Len(t)
<1>1. /\ \A j \in M : at[j] \in K \cap (1 .. Len(s)) /\ t[j] = s[at[j]]
      /\ \A k \in K \cap (1 .. Len(s)) : \E j \in M : at[j] = k
      /\ EntryIds(t) = IdsAt(t, M)
  BY DEF Picks, EntryIds
<1> HIDE DEF M
<1>2. id \in IdsAt(t, M) <=> \E j \in M : ~Protective(t[j]) /\ id = t[j].id
  BY IdsAre
<1> QED BY <1>1, <1>2

(* The entries of a filtered queue.                                         *)
LEMMA QueuedLeft ==
  ASSUME NEW q, NEW r, NEW M, NEW bt, Picks(bt, r, q, M), NEW id
  PROVE id \in Queues(r, 0) <=>
          \E k \in M \cap (1 .. Len(q)) : q[k].action = "Entry" /\ id = q[k].order.id
<1> DEFINE zero == 0
           N == zero + 1 .. Len(r)
<1>1. /\ \A j \in 1 .. Len(r) : bt[j] \in M \cap (1 .. Len(q)) /\ r[j] = q[bt[j]]
      /\ \A k \in M \cap (1 .. Len(q)) : \E j \in 1 .. Len(r) : bt[j] = k
  BY DEF Picks
<1>2. N = 1 .. Len(r)
  OBVIOUS
<1>3. id \in Queues(r, zero) <=> \E j \in N : r[j].action = "Entry" /\ id = r[j].order.id
  <2> HIDE DEF zero
  <2> QED BY QueuesAre
<1> HIDE DEF N
<1>4. id \in Queues(r, zero) <=> \E j \in 1 .. Len(r) : r[j].action = "Entry" /\ id = r[j].order.id
  BY <1>2, <1>3
<1> HIDE DEF zero
<1>5. id \in Queues(r, zero) <=>
        \E k \in M \cap (1 .. Len(q)) : q[k].action = "Entry" /\ id = q[k].order.id
  BY <1>1, <1>4
<1> QED BY <1>5 DEF zero

(* A filtered queue can still run.                                          *)
LEMMA QueueableLess ==
  ASSUME NEW q, NEW r \in Seq(Actions), NEW M, NEW bt, Picks(bt, r, q, M),
         NEW R, NEW T, T \subseteq R, NEW Y, NEW b, NEW c,
         b.position = Flat => c.position = Flat, Queueable(q, R, Y, b)
  PROVE Queueable(r, T, Y, c)
<1>1. /\ \A j \in 1 .. Len(r) : bt[j] \in 1 .. Len(q) /\ r[j] = q[bt[j]]
      /\ \A i, j \in 1 .. Len(r) : i < j => bt[i] < bt[j]
  BY DEF Picks
<1>2. \A i \in 1 .. Len(q) : q[i].action = "Entry" =>
        /\ q[i].order.role = "Entry" /\ q[i].order.oco = 0 /\ q[i].order.id \notin R
        /\ q[i].order.id \in Y => i = 1 /\ b.position = Flat
        /\ \A j \in 1 .. Len(q) : q[j].action = "Entry" /\ q[j].order.id = q[i].order.id => i = j
  BY DEF Queueable
<1>3. ASSUME NEW i \in 1 .. Len(r), r[i].action = "Entry"
      PROVE /\ r[i].order.role = "Entry" /\ r[i].order.oco = 0 /\ r[i].order.id \notin T
            /\ r[i].order.id \in Y => i = 1 /\ c.position = Flat
            /\ \A j \in 1 .. Len(r) : r[j].action = "Entry" /\ r[j].order.id = r[i].order.id => i = j
  <2>1. bt[i] \in 1 .. Len(q) /\ r[i] = q[bt[i]] /\ q[bt[i]].action = "Entry"
    BY <1>1, <1>3
  <2>2. r[i].order.role = "Entry" /\ r[i].order.oco = 0 /\ r[i].order.id \notin T
    BY <1>2, <2>1
  <2>3. ASSUME r[i].order.id \in Y PROVE i = 1 /\ c.position = Flat
    <3>1. bt[i] = 1 /\ b.position = Flat
      BY <1>2, <2>1, <2>3
    <3>2. ASSUME i # 1 PROVE FALSE
      <4>1. 1 \in 1 .. Len(r) /\ 1 < i
        BY <3>2
      <4>2. bt[1] < bt[i] /\ bt[1] \in 1 .. Len(q)
        BY <1>1, <4>1
      <4> QED BY <3>1, <4>2
    <3> QED BY <3>1, <3>2
  <2>4. ASSUME NEW j \in 1 .. Len(r), r[j].action = "Entry", r[j].order.id = r[i].order.id
        PROVE i = j
    <3>1. bt[j] \in 1 .. Len(q) /\ r[j] = q[bt[j]]
      BY <1>1
    <3>2. bt[i] = bt[j]
      BY <1>2, <2>1, <2>4, <3>1
    <3>3. i < j \/ j < i \/ i = j
      OBVIOUS
    <3> QED BY <1>1, <2>1, <3>1, <3>2, <3>3
  <2> QED BY <2>2, <2>3, <2>4
<1> QED BY <1>3 DEF Queueable

(* What a book that is ready makes of it.                                   *)
LEMMA DropKeeps ==
  ASSUME NEW b, NEW q, NEW Y, Ready(b, q, Y), NEW c, NEW r, NEW K, NEW M,
         Drops(b, q, c, r, K, M)
  PROVE /\ Ready(c, r, Y) /\ Tidy(Working(b, q), c) /\ Working(c, r) \subseteq Working(b, q)
        /\ Queueable(r, EntryIds(c.resting), Y, c)
        /\ \A i \in 1 .. Len(c.resting) :
             ~Protective(c.resting[i]) /\ c.resting[i].id \in Y => c.resting[i].flat
        /\ \A id : id \in Working(c, r) <=> Left(id, b, q, K, M)
        /\ \A id : id \in Working(b, q) <=> Left(id, b, q, 1 .. Len(b.resting), 1 .. Len(q))
<1> DEFINE E == Working(b, q)
           s == b.resting
           t == c.resting
<1>1. /\ c \in Books /\ c.kept = <<>> /\ c.ids = b.ids /\ c.ocos = b.ocos
      /\ (b.position = Flat => c.position = Flat)
      /\ r \in Seq(Actions)
      /\ b \in Books /\ Tidy(E, b) /\ q \in Seq(Actions) /\ Queueable(q, EntryIds(s), Y, b)
  BY DEF Drops, Ready, Queueable
<1>2. PICK at : Picks(at, t, s, K)
  BY DEF Drops
<1>3. PICK bt : Picks(bt, r, q, M)
  BY DEF Drops
<1>4. Tidy(E, c)
  BY <1>1, <1>2, TidyPicks
<1>5. \A id : id \in Working(c, r) <=> Left(id, b, q, K, M)
  <2> SUFFICES ASSUME NEW id PROVE id \in Working(c, r) <=> Left(id, b, q, K, M)
    OBVIOUS
  <2>1. Working(c, r) = EntryIds(t) \cup Queues(r, 0)
    BY <1>1, WorkingIs
  <2>2. id \in EntryIds(t) <=> \E k \in K \cap (1 .. Len(s)) : ~Protective(s[k]) /\ id = s[k].id
    BY <1>2, IdsLeft
  <2>3. id \in Queues(r, 0) <=>
          \E k \in M \cap (1 .. Len(q)) : q[k].action = "Entry" /\ id = q[k].order.id
    BY <1>3, QueuedLeft
  <2> QED BY <2>1, <2>2, <2>3 DEF Left
<1>6. \A id : id \in E <=> Left(id, b, q, 1 .. Len(s), 1 .. Len(q))
  <2> SUFFICES ASSUME NEW id PROVE id \in E <=> Left(id, b, q, 1 .. Len(s), 1 .. Len(q))
    OBVIOUS
  <2>1. E = EntryIds(s) \cup Queues(q, 0)
    BY <1>1, WorkingIs
  <2> DEFINE zero == 0
             A == 1 .. Len(s)
             B == zero + 1 .. Len(q)
  <2>2. /\ EntryIds(s) = IdsAt(s, A) /\ A = A \cap (1 .. Len(s))
        /\ B = (1 .. Len(q)) \cap (1 .. Len(q))
    BY DEF EntryIds
  <2> HIDE DEF A
  <2>3. id \in IdsAt(s, A) <=> \E k \in A : ~Protective(s[k]) /\ id = s[k].id
    BY IdsAre
  <2>4. id \in Queues(q, zero) <=> \E k \in B : q[k].action = "Entry" /\ id = q[k].order.id
    <3> HIDE DEF zero
    <3> QED BY QueuesAre
  <2> HIDE DEF B
  <2>5. id \in Queues(q, 0) <=>
          \E k \in (1 .. Len(q)) \cap (1 .. Len(q)) : q[k].action = "Entry" /\ id = q[k].order.id
    BY <2>2, <2>4
  <2> QED BY <2>1, <2>2, <2>3, <2>5 DEF Left, A
<1>7. Working(c, r) \subseteq E
  BY <1>5, <1>6 DEF Left
<1>8. Queueable(r, EntryIds(t), Y, c)
  <2>1. EntryIds(t) \subseteq EntryIds(s)
    <3> SUFFICES ASSUME NEW id \in EntryIds(t) PROVE id \in EntryIds(s)
      OBVIOUS
    <3>1. PICK k \in K \cap (1 .. Len(s)) : ~Protective(s[k]) /\ id = s[k].id
      BY <1>2, IdsLeft
    <3> DEFINE A == 1 .. Len(s)
    <3>2. EntryIds(s) = IdsAt(s, A) /\ k \in A
      BY DEF EntryIds
    <3> HIDE DEF A
    <3> QED BY <3>1, <3>2, IdsAre
  <2> HIDE DEF s, t
  <2> QED BY <1>1, <1>3, <2>1, QueueableLess
<1>9. \A i \in 1 .. Len(t) : ~Protective(t[i]) /\ t[i].id \in Y => t[i].flat
  <2>1. \A i \in 1 .. Len(s) : ~Protective(s[i]) /\ s[i].id \in Y => s[i].flat
    BY DEF Ready
  <2>2. \A i \in 1 .. Len(t) : \E k \in 1 .. Len(s) : t[i] = s[k]
    BY <1>2 DEF Picks
  <2> QED BY <2>1, <2>2
<1>10. Tidy(Working(c, r), c)
  BY <1>4, <1>7, TidyLess
<1> QED BY <1>1, <1>4, <1>5, <1>6, <1>7, <1>8, <1>9, <1>10 DEF Ready

(* A command that cancels.                                                  *)
LEMMA DropCommands ==
  ASSUME NEW b, NEW q, NEW Y, Ready(b, q, Y), NEW c, NEW r, NEW K, NEW M,
         Drops(b, q, c, r, K, M), Holding(c) = Holding(b),
         \A i \in 1 .. Len(c.events) : ~IsFill(c.events[i]),
         Spoken(Working(b, q), Working(c, r), c.events)
  PROVE Commanded(b, q, Y, c, r)
<1> DEFINE E == Working(b, q)
           W == Working(c, r)
           F == E \cup W
<1>1. /\ Tidy(E, c) /\ W \subseteq E /\ Queueable(r, EntryIds(c.resting), Y, c)
      /\ \A i \in 1 .. Len(c.resting) :
           ~Protective(c.resting[i]) /\ c.resting[i].id \in Y => c.resting[i].flat
  BY DropKeeps
<1>2. c \in Books /\ c.kept = <<>> /\ b.ids <= c.ids
  <2>1. b \in Books /\ b.ids \in Nat
    BY DEF Ready, Books
  <2> QED BY <2>1 DEF Drops
<1>3. F = E
  BY <1>1
<1>4. Tidy(F, c) /\ E = Working(b, q) /\ W = Working(c, r) /\ F = E \cup W
  BY <1>1, <1>3
<1>5. Spoken(E, W, c.events) /\ \A i \in 1 .. Len(c.events) : ~IsFill(c.events[i])
  OBVIOUS
<1> HIDE DEF E, W, F
<1> QED BY <1>1, <1>2, <1>4, <1>5, CommandedIs

(* One word about one order.                                                *)
LEMMA OneWord ==
  ASSUME NEW E, NEW W, NEW v, v.what \in Leavings, v.id \in E => v.id \notin W,
         \A id \in E : id \notin W => id = v.id, NEW es, Len(es) = 1, es[1] = v
  PROVE Spoken(E, W, es)
<1>1. 1 \in 1 .. Len(es) /\ \A i \in 1 .. Len(es) : i = 1
  OBVIOUS
<1>2. ASSUME NEW id \in E, id \in W PROVE \A i \in 1 .. Len(es) : es[i].id # id
  BY <1>1, <1>2
<1>3. ASSUME NEW id \in E, id \notin W
      PROVE \E i \in 1 .. Len(es) : /\ es[i].id = id /\ es[i].what \in Leavings
                                    /\ \A j \in 1 .. Len(es) : es[j].id = id => j = i
  BY <1>1, <1>3
<1> QED BY <1>2, <1>3 DEF Spoken

(* All of a list stays.                                                     *)
LEMMA AllPicked ==
  ASSUME NEW S, NEW s \in Seq(S)
  PROVE \E at : Picks(at, s, s, 1 .. Len(s))
<1> DEFINE at == [i \in 1 .. Len(s) |-> i]
<1>1. Picks(at, s, s, 1 .. Len(s))
  BY DEF Picks
<1> QED BY <1>1

(* None of it does.                                                         *)
LEMMA NonePicked ==
  ASSUME NEW s
  PROVE \E at : Picks(at, <<>>, s, {})
<1> DEFINE no == <<>>
           at == [i \in 1 .. Len(no) |-> i]
<1>1. 1 .. Len(no) = {}
  OBVIOUS
<1>2. Picks(at, no, s, {})
  BY <1>1 DEF Picks
<1> QED BY <1>2

(* A book with a word more, and one touch more.                             *)
Touched(rs, o) ==
  Emit([Quiet EXCEPT !.resting = rs, !.touched = @ + 1], About("Cancelled", o))

(* It is the book but for that.                                             *)
LEMMA TouchedIs ==
  ASSUME NEW Y, Ready(book, queue, Y), NEW rs \in Seq(Orders), NEW o \in Orders, NEW c,
         c = Touched(rs, o)
  PROVE /\ c \in Books /\ c.position = book.position /\ c.resting = rs /\ c.kept = <<>>
        /\ c.ids = book.ids /\ c.ocos = book.ocos /\ Holding(c) = Holding(book)
        /\ Len(c.events) = 1 /\ c.events[1] = About("Cancelled", o)
        /\ \A i \in 1 .. Len(c.events) : ~IsFill(c.events[i])
<1> DEFINE v == About("Cancelled", o)
           n == Quiet.touched + 1
           es == <<v>>
<1>1. /\ Quiet \in Books /\ Quiet.position = book.position
      /\ Quiet.kept = <<>> /\ Quiet.ids = book.ids /\ Quiet.ocos = book.ocos
      /\ Quiet.events = <<>>
  BY Quieted
<1>2. n \in Nat
  BY <1>1 DEF Books
<1>3. v \in Happenings /\ ~IsFill(v)
  BY AboutIs DEF Words
<1> HIDE DEF v
<1>4. es \in Seq(Happenings) /\ Len(es) = 1 /\ es[1] = v /\ Append(<<>>, v) = es
  BY <1>3
<1>5. c = [Quiet EXCEPT !.resting = rs, !.touched = n, !.events = es]
  <2>1. c = [[Quiet EXCEPT !.resting = rs, !.touched = @ + 1] EXCEPT !.events = Append(@, v)]
    BY DEF Touched, Emit, v
  <2>2. c = [[Quiet EXCEPT !.resting = rs, !.touched = n] EXCEPT !.events = Append(@, v)]
    BY <1>1, <2>1
  <2> HIDE DEF n, es
  <2> QED BY <1>1, <1>4, <2>2 DEF Books
<1> HIDE DEF n, es
<1>6. /\ c \in Books /\ c.position = book.position /\ c.resting = rs /\ c.kept = <<>>
      /\ c.ids = book.ids /\ c.ocos = book.ocos /\ c.events = es
  BY <1>1, <1>2, <1>4, <1>5 DEF Books
<1>7. Holding(c) = Holding(book)
  BY <1>6 DEF Holding
<1>8. \A i \in 1 .. Len(es) : ~IsFill(es[i])
  <2>1. \A i \in 1 .. Len(es) : i = 1
    BY <1>4
  <2> QED BY <1>3, <1>4, <2>1
<1> QED BY <1>4, <1>6, <1>7, <1>8 DEF v

(* An order at rest is cancelled by hand.                                   *)
LEMMA RestingCancels ==
  ASSUME NEW Y, Ready(book, queue, Y), NEW i \in 1 .. Len(book.resting), CancelResting(i)
  PROVE Commanded(book, queue, Y, book', queue')
<1> DEFINE E == Working(book, queue)
           s == book.resting
           o == s[i]
           rs == RemoveAt(s, i)
           K == (1 .. Len(s)) \ {i}
           M == 1 .. Len(queue)
           c == book'
           W == Working(c, queue)
<1>1. /\ Quiet.resting = s /\ s \in Seq(Orders) /\ queue \in Seq(Actions) /\ o \in Orders
      /\ (book.position = Flat => book.position = Flat)
  BY Quieted
<1>2. queue' = queue /\ c = Touched(rs, o)
  <2>1. [Quiet EXCEPT !.resting = RemoveAt(@, i), !.touched = @ + 1]
          = [Quiet EXCEPT !.resting = rs, !.touched = @ + 1]
    BY <1>1, Quieted DEF Books
  <2> QED BY <2>1 DEF CancelResting, Touched
<1>3. rs \in Seq(Orders) /\ \E at : Picks(at, rs, s, K)
  BY <1>1, RemovedPicks
<1> HIDE DEF rs, c
<1>4. /\ c \in Books /\ c.position = book.position /\ c.resting = rs /\ c.kept = <<>>
      /\ c.ids = book.ids /\ c.ocos = book.ocos /\ Holding(c) = Holding(book)
      /\ Len(c.events) = 1 /\ c.events[1] = About("Cancelled", o)
      /\ \A k \in 1 .. Len(c.events) : ~IsFill(c.events[k])
  <2> HIDE DEF o
  <2> QED BY <1>1, <1>2, <1>3, TouchedIs
<1>5. \E bt : Picks(bt, queue, queue, M)
  BY <1>1, AllPicked
<1>6. Drops(book, queue, c, queue, K, M)
  <2> HIDE DEF K, M
  <2> QED BY <1>1, <1>3, <1>4, <1>5 DEF Drops, s
<1>7. /\ \A id : id \in W <=> Left(id, book, queue, K, M)
      /\ \A id : id \in E <=> Left(id, book, queue, 1 .. Len(s), M)
      /\ W \subseteq E
  <2> HIDE DEF K
  <2> QED BY <1>6, DropKeeps DEF s
<1>8. /\ \A k, j \in 1 .. Len(s) : s[k].id = s[j].id => k = j
      /\ Protective(o) => o.id \notin E
  BY Quieted DEF Tidy
<1>9. \A k \in 1 .. Len(queue) : queue[k].action = "Entry" => queue[k].order.id \notin EntryIds(s)
  BY DEF Ready, Queueable
<1>10. ~Protective(o) => o.id \in EntryIds(s)
  <2> DEFINE A == 1 .. Len(s)
  <2>1. EntryIds(s) = IdsAt(s, A) /\ i \in A
    BY DEF EntryIds
  <2> HIDE DEF A
  <2> QED BY <2>1, IdsAre
<1>11. o.id \in E => o.id \notin W
  <2> SUFFICES ASSUME o.id \in E, o.id \in W PROVE FALSE
    OBVIOUS
  <2>1. ~Protective(o)
    BY <1>8
  <2>2. CASE \E k \in K \cap (1 .. Len(s)) : ~Protective(s[k]) /\ o.id = s[k].id
    BY <1>8, <2>2
  <2>3. CASE \E k \in M \cap (1 .. Len(queue)) : queue[k].action = "Entry" /\ o.id = queue[k].order.id
    BY <1>9, <1>10, <2>1, <2>3
  <2> QED BY <1>7, <2>2, <2>3 DEF Left
<1>12. ASSUME NEW id \in E, id \notin W PROVE id = o.id
  <2>1. Left(id, book, queue, 1 .. Len(s), M) /\ ~Left(id, book, queue, K, M)
    BY <1>7, <1>12
  <2> QED BY <2>1 DEF Left
<1>13. About("Cancelled", o).id = o.id /\ About("Cancelled", o).what \in Leavings
  BY <1>1, AboutIs DEF Words, Leavings
<1>14. Spoken(E, W, c.events)
  <2> HIDE DEF E, W, o
  <2> QED BY <1>4, <1>11, <1>12, <1>13, OneWord
<1>15. Commanded(book, queue, Y, c, queue)
  <2> HIDE DEF K, M
  <2> QED BY <1>4, <1>6, <1>14, DropCommands
<1> QED BY <1>2, <1>15 DEF c

(* A queued entry is cancelled by hand.                                     *)
LEMMA QueuedCancels ==
  ASSUME NEW Y, Ready(book, queue, Y), NEW i \in 1 .. Len(queue), CancelQueued(i)
  PROVE Commanded(book, queue, Y, book', queue')
<1> DEFINE E == Working(book, queue)
           s == book.resting
           o == queue[i].order
           r == RemoveAt(queue, i)
           K == 1 .. Len(s)
           M == (1 .. Len(queue)) \ {i}
           c == book'
           W == Working(c, r)
<1>1. /\ Quiet.resting = s /\ s \in Seq(Orders) /\ queue \in Seq(Actions)
      /\ queue[i].action = "Entry" /\ Quiet \in Books
  BY Quieted DEF CancelQueued
<1>o. o \in Orders
  <2>1. queue[i] \in Actions
    BY <1>1
  <2> QED BY <1>1, <2>1 DEF Actions
<1>2. queue' = r /\ c = Touched(s, o)
  <2>1. [Quiet EXCEPT !.touched = @ + 1] = [Quiet EXCEPT !.resting = s, !.touched = @ + 1]
    BY <1>1 DEF Books
  <2> QED BY <2>1 DEF CancelQueued, Touched
<1>3. r \in Seq(Actions) /\ \E bt : Picks(bt, r, queue, M)
  BY <1>1, RemovedPicks
<1> HIDE DEF r, c
<1>4. /\ c \in Books /\ c.position = book.position /\ c.resting = s /\ c.kept = <<>>
      /\ c.ids = book.ids /\ c.ocos = book.ocos /\ Holding(c) = Holding(book)
      /\ Len(c.events) = 1 /\ c.events[1] = About("Cancelled", o)
      /\ \A k \in 1 .. Len(c.events) : ~IsFill(c.events[k])
  <2> HIDE DEF o, s
  <2> QED BY <1>1, <1>2, <1>o, TouchedIs
<1>5. \E at : Picks(at, s, s, K)
  BY <1>1, AllPicked
<1>6. Drops(book, queue, c, r, K, M)
  <2> HIDE DEF K, M
  <2> QED BY <1>1, <1>3, <1>4, <1>5 DEF Drops, s
<1>7. /\ \A id : id \in W <=> Left(id, book, queue, K, M)
      /\ \A id : id \in E <=> Left(id, book, queue, K, 1 .. Len(queue))
      /\ W \subseteq E
  <2> HIDE DEF M
  <2> QED BY <1>6, DropKeeps DEF s
<1>8. \A k \in 1 .. Len(queue) : queue[k].action = "Entry" =>
        /\ queue[k].order.id \notin EntryIds(s)
        /\ queue[k].order.id = o.id => i = k
  BY <1>1 DEF Ready, Queueable
<1>9. \A k \in 1 .. Len(s) : ~Protective(s[k]) => s[k].id \in EntryIds(s)
  <2> DEFINE A == 1 .. Len(s)
  <2>1. EntryIds(s) = IdsAt(s, A)
    BY DEF EntryIds
  <2> HIDE DEF A
  <2>2. \A k \in A : ~Protective(s[k]) => s[k].id \in EntryIds(s)
    BY <2>1, IdsAre
  <2> QED BY <2>2 DEF A
<1>11. o.id \notin W
  <2> SUFFICES ASSUME o.id \in W PROVE FALSE
    OBVIOUS
  <2>1. o.id \notin EntryIds(s)
    BY <1>1, <1>8
  <2>2. CASE \E k \in K \cap (1 .. Len(s)) : ~Protective(s[k]) /\ o.id = s[k].id
    BY <1>9, <2>1, <2>2
  <2>3. CASE \E k \in M \cap (1 .. Len(queue)) : queue[k].action = "Entry" /\ o.id = queue[k].order.id
    BY <1>8, <2>3
  <2> QED BY <1>7, <2>2, <2>3 DEF Left
<1>12. ASSUME NEW id \in E, id \notin W PROVE id = o.id
  <2>1. Left(id, book, queue, K, 1 .. Len(queue)) /\ ~Left(id, book, queue, K, M)
    BY <1>7, <1>12
  <2> QED BY <2>1 DEF Left
<1>13. About("Cancelled", o).id = o.id /\ About("Cancelled", o).what \in Leavings
  BY <1>o, AboutIs DEF Words, Leavings
<1>14. Spoken(E, W, c.events)
  <2> HIDE DEF E, W, o
  <2> QED BY <1>4, <1>11, <1>12, <1>13, OneWord
<1>15. Commanded(book, queue, Y, c, r)
  <2> HIDE DEF K, M
  <2> QED BY <1>4, <1>6, <1>14, DropCommands
<1> QED BY <1>2, <1>15 DEF c

(* What a command leaves is ready for one close more.                       *)
LEMMA CommandedClosing ==
  ASSUME NEW b, NEW q, NEW Y, NEW c, NEW r, Commanded(b, q, Y, c, r),
         NEW a \in Actions, a.action # "Entry"
  PROVE Commanded(b, q, Y, c, Append(r, a))
<1> DEFINE E == Working(b, q)
           W == Working(c, r)
           F == E \cup W
           ra == Append(r, a)
<1>1. /\ c \in Books /\ c.kept = <<>> /\ b.ids <= c.ids /\ Holding(c) = Holding(b)
      /\ Tidy(F, c) /\ Queueable(r, EntryIds(c.resting), Y, c)
      /\ \A i \in 1 .. Len(c.resting) :
           ~Protective(c.resting[i]) /\ c.resting[i].id \in Y => c.resting[i].flat
      /\ \A i \in 1 .. Len(c.events) : ~IsFill(c.events[i])
      /\ Spoken(E, W, c.events) /\ \A id \in W : id \in E \/ b.ids < id
  BY DEF Commanded
<1>2. r \in Seq(Actions)
  BY <1>1 DEF Queueable
<1>3. ra \in Seq(Actions)
  BY <1>2
<1>4. Queueable(ra, EntryIds(c.resting), Y, c)
  BY <1>1, QueueableMore
<1>5. Working(c, ra) = W
  <2>1. Queues(ra, 0) = Queues(r, 0)
    BY <1>2, QueuesMore
  <2> HIDE DEF ra
  <2>2. Working(c, ra) = EntryIds(c.resting) \cup Queues(ra, 0)
    BY <1>1, <1>3, WorkingIs
  <2>3. Working(c, r) = EntryIds(c.resting) \cup Queues(r, 0)
    BY <1>1, <1>2, WorkingIs
  <2> QED BY <2>1, <2>2, <2>3
<1>6. E = Working(b, q) /\ W = Working(c, ra) /\ F = E \cup W
  BY <1>5
<1> HIDE DEF E, W, F, ra
<1>7. Commanded(b, q, Y, c, ra)
  BY <1>1, <1>4, <1>6, CommandedIs
<1> QED BY <1>7 DEF ra

(* The entries that wait in a queue, in its order.                          *)
QueuedOrders(q) ==
  LET entries == Retained(q, {i \in DOMAIN q : q[i].action = "Entry"})
  IN  [i \in DOMAIN entries |-> entries[i].order]

(* Those are w, at the places at.                                           *)
Waits(at, w, q) ==
  /\ at \in [1 .. Len(w) -> 1 .. Len(q)]
  /\ \A j \in 1 .. Len(w) : q[at[j]].action = "Entry" /\ w[j] = q[at[j]].order
  /\ \A i, j \in 1 .. Len(w) : at[i] = at[j] => i = j
  /\ \A k \in 1 .. Len(q) : q[k].action = "Entry" => \E j \in 1 .. Len(w) : at[j] = k

(* Place by place.                                                          *)
LEMMA QueuedAre ==
  ASSUME NEW q \in Seq(Actions)
  PROVE QueuedOrders(q) \in Seq(Orders) /\ \E at : Waits(at, QueuedOrders(q), q)
<1> DEFINE M == {i \in DOMAIN q : q[i].action = "Entry"}
           entries == Retained(q, M)
           os == [i \in DOMAIN entries |-> entries[i].order]
<1>1. QueuedOrders(q) = os
  BY DEF QueuedOrders
<1>2. entries \in Seq(Actions) /\ \E at : Picks(at, entries, q, M)
  BY RetainedPicks
<1>3. DOMAIN q = 1 .. Len(q) /\ \A i \in 1 .. Len(q) : q[i] \in Actions
  OBVIOUS
<1>4. \A i \in M : i \in 1 .. Len(q) /\ q[i].action = "Entry" /\ q[i].order \in Orders
  BY <1>3 DEF Actions
<1>5. \A i \in 1 .. Len(q) : q[i].action = "Entry" => i \in M \cap (1 .. Len(q))
  BY <1>3
<1> HIDE DEF M, entries
<1>6. PICK at : Picks(at, entries, q, M)
  BY <1>2
<1>7. DOMAIN entries = 1 .. Len(entries) /\ Len(entries) \in Nat
  BY <1>2
<1>8. /\ \A j \in 1 .. Len(entries) : at[j] \in M /\ entries[j] = q[at[j]]
      /\ \A i, j \in 1 .. Len(entries) : i < j => at[i] < at[j]
      /\ \A k \in M \cap (1 .. Len(q)) : \E j \in 1 .. Len(entries) : at[j] = k
      /\ at \in [1 .. Len(entries) -> M \cap (1 .. Len(q))]
  BY <1>6 DEF Picks
<1>9. \A j \in 1 .. Len(entries) : entries[j].order \in Orders
  BY <1>4, <1>8
<1>10. os \in Seq(Orders) /\ Len(os) = Len(entries)
       /\ \A j \in 1 .. Len(entries) : os[j] = q[at[j]].order
  BY <1>7, <1>8, <1>9
<1>11. \A i, j \in 1 .. Len(entries) : at[i] = at[j] => i = j
  <2> SUFFICES ASSUME NEW i \in 1 .. Len(entries), NEW j \in 1 .. Len(entries), at[i] = at[j]
               PROVE i = j
    OBVIOUS
  <2>1. i < j \/ j < i \/ i = j
    BY <1>7
  <2>2. at[i] \in Int /\ at[j] \in Int
    BY <1>4, <1>8
  <2> QED BY <1>8, <2>1, <2>2
<1>12. at \in [1 .. Len(entries) -> 1 .. Len(q)]
  BY <1>8
<1> HIDE DEF os
<1> DEFINE N == 1 .. Len(os)
<1>13. /\ at \in [N -> 1 .. Len(q)]
       /\ \A j \in N : q[at[j]].action = "Entry" /\ os[j] = q[at[j]].order
       /\ \A i, j \in N : at[i] = at[j] => i = j
       /\ \A k \in 1 .. Len(q) : q[k].action = "Entry" => \E j \in N : at[j] = k
  <2>1. N = 1 .. Len(entries)
    BY <1>10
  <2> HIDE DEF N
  <2>2. \A j \in N : q[at[j]].action = "Entry" /\ os[j] = q[at[j]].order
    BY <1>4, <1>8, <1>10, <2>1
  <2>3. \A k \in 1 .. Len(q) : q[k].action = "Entry" => \E j \in N : at[j] = k
    BY <1>5, <1>8, <2>1
  <2> QED BY <1>11, <1>12, <2>1, <2>2, <2>3
<1>14. Waits(at, os, q)
  BY <1>13 DEF Waits
<1> QED BY <1>1, <1>10, <1>14

(* Every entry named once, and none left: os lists what waited in q, and    *)
(* then what rested.                                                        *)
LEMMA AllSpoken ==
  ASSUME NEW b, NEW q, NEW Y, Ready(b, q, Y)
  PROVE LET os == QueuedOrders(q) \o b.resting IN
        os \in Seq(Orders) /\ Spoken(Working(b, q), {}, Cancels(os))
<1> DEFINE E == Working(b, q)
           s == b.resting
           w == QueuedOrders(q)
           os == w \o s
           es == Cancels(os)
<1>1. /\ b \in Books /\ Tidy(E, b) /\ q \in Seq(Actions) /\ s \in Seq(Orders)
      /\ Queueable(q, EntryIds(s), Y, b) /\ E = EntryIds(s) \cup Queues(q, 0)
  BY WorkingIs DEF Ready, Queueable, Books
<1>2. w \in Seq(Orders)
  BY <1>1, QueuedAre
<1>p. PICK at : Waits(at, w, q)
  BY <1>1, QueuedAre
<1> HIDE DEF s, w
<1>3. /\ at \in [1 .. Len(w) -> 1 .. Len(q)]
      /\ \A j \in 1 .. Len(w) : q[at[j]].action = "Entry" /\ w[j] = q[at[j]].order
      /\ \A i, j \in 1 .. Len(w) : at[i] = at[j] => i = j
      /\ \A k \in 1 .. Len(q) : q[k].action = "Entry" => \E j \in 1 .. Len(w) : at[j] = k
  BY <1>p DEF Waits
<1>4. /\ os \in Seq(Orders) /\ Len(os) = Len(w) + Len(s)
      /\ \A i \in 1 .. Len(w) : os[i] = w[i]
      /\ \A i \in 1 .. Len(s) : os[Len(w) + i] = s[i]
      /\ Len(w) \in Nat /\ Len(s) \in Nat
  BY <1>1, <1>2, Joined
<1>5. /\ \A i \in 1 .. Len(os) : i \in 1 .. Len(w) \/ (i - Len(w)) \in 1 .. Len(s)
      /\ \A i \in 1 .. Len(w) : i \in 1 .. Len(os)
      /\ \A i \in 1 .. Len(s) : Len(w) + i \in 1 .. Len(os)
      /\ \A i \in 1 .. Len(os) : Len(w) + (i - Len(w)) = i
  BY <1>4
<1> HIDE DEF os
<1>6. /\ Len(es) = Len(os)
      /\ \A i \in 1 .. Len(os) : es[i].id = os[i].id /\ es[i].what \in Leavings
  BY <1>4, CancelsAre DEF Leavings
<1> HIDE DEF es, E
<1>7. /\ \A i, j \in 1 .. Len(s) : s[i].id = s[j].id => i = j
      /\ \A i \in 1 .. Len(s) : Protective(s[i]) => s[i].id \notin E
  BY <1>1 DEF Tidy, s
<1>8. \A k \in 1 .. Len(q) : q[k].action = "Entry" =>
        /\ q[k].order.id \notin EntryIds(s)
        /\ \A j \in 1 .. Len(q) : q[j].action = "Entry" /\ q[j].order.id = q[k].order.id => k = j
  BY <1>1 DEF Queueable
<1>9. \A id : id \in EntryIds(s) <=> \E k \in 1 .. Len(s) : ~Protective(s[k]) /\ id = s[k].id
  <2> DEFINE A == 1 .. Len(s)
  <2>1. EntryIds(s) = IdsAt(s, A)
    BY DEF EntryIds
  <2> HIDE DEF A
  <2>2. \A id : id \in EntryIds(s) <=> \E k \in A : ~Protective(s[k]) /\ id = s[k].id
    BY <2>1, IdsAre
  <2> QED BY <2>2 DEF A
<1>10. \A id : id \in Queues(q, 0) <=>
         \E k \in 1 .. Len(q) : q[k].action = "Entry" /\ id = q[k].order.id
  <2> DEFINE zero == 0
             B == zero + 1 .. Len(q)
  <2>1. B = 1 .. Len(q)
    OBVIOUS
  <2>2. \A id : id \in Queues(q, zero) <=> \E k \in B : q[k].action = "Entry" /\ id = q[k].order.id
    <3> HIDE DEF zero
    <3> QED BY QueuesAre
  <2> HIDE DEF B
  <2> QED BY <2>1, <2>2
<1>11. \A j \in 1 .. Len(w) : w[j].id \in E /\ w[j].id \notin EntryIds(s)
  BY <1>1, <1>3, <1>8, <1>10
<1>12. \A i, j \in 1 .. Len(w) : w[i].id = w[j].id => i = j
  BY <1>3, <1>8
<1>13. ASSUME NEW id \in E
       PROVE \E i \in 1 .. Len(os) : os[i].id = id /\ \A j \in 1 .. Len(os) : os[j].id = id => j = i
  <2>1. CASE id \in EntryIds(s)
    <3>1. PICK k \in 1 .. Len(s) : ~Protective(s[k]) /\ id = s[k].id
      BY <1>9, <2>1
    <3>2. Len(w) + k \in 1 .. Len(os) /\ os[Len(w) + k].id = id
      BY <1>4, <1>5, <3>1
    <3>3. ASSUME NEW j \in 1 .. Len(os), os[j].id = id PROVE j = Len(w) + k
      <4>1. CASE j \in 1 .. Len(w)
        BY <1>4, <1>11, <2>1, <3>3, <4>1
      <4>2. CASE (j - Len(w)) \in 1 .. Len(s)
        <5>1. os[j] = s[j - Len(w)]
          BY <1>4, <1>5, <4>2
        <5>2. j - Len(w) = k
          BY <1>7, <3>1, <3>3, <4>2, <5>1
        <5> QED BY <1>4, <5>2
      <4> QED BY <1>5, <4>1, <4>2
    <3> QED BY <3>2, <3>3
  <2>2. CASE id \in Queues(q, 0)
    <3>1. PICK k \in 1 .. Len(q) : q[k].action = "Entry" /\ id = q[k].order.id
      BY <1>10, <2>2
    <3>2. PICK i \in 1 .. Len(w) : at[i] = k
      BY <1>3, <3>1
    <3>3. w[i].id = id /\ i \in 1 .. Len(os) /\ os[i].id = id
      BY <1>3, <1>4, <1>5, <3>1, <3>2
    <3>4. ASSUME NEW j \in 1 .. Len(os), os[j].id = id PROVE j = i
      <4>1. CASE j \in 1 .. Len(w)
        BY <1>4, <1>12, <3>3, <3>4, <4>1
      <4>2. CASE (j - Len(w)) \in 1 .. Len(s)
        <5>1. s[j - Len(w)].id = id
          BY <1>4, <1>5, <3>4, <4>2
        <5>2. id \notin EntryIds(s)
          BY <1>8, <3>1
        <5> QED BY <1>7, <1>9, <4>2, <5>1, <5>2
      <4> QED BY <1>5, <4>1, <4>2
    <3> QED BY <3>3, <3>4
  <2> QED BY <1>1, <2>1, <2>2
<1>14. ASSUME NEW id \in E
       PROVE \E i \in 1 .. Len(es) : /\ es[i].id = id /\ es[i].what \in Leavings
                                     /\ \A j \in 1 .. Len(es) : es[j].id = id => j = i
  BY <1>6, <1>13
<1>15. Spoken(E, {}, es)
  BY <1>14 DEF Spoken
<1> QED BY <1>4, <1>15 DEF es, os, E, w, s

(* Everything is cancelled.                                                 *)
LEMMA CancelAllDrops ==
  ASSUME NEW Y, Ready(book, queue, Y)
  PROVE LET c == CancelAll(Quiet) IN
        /\ Commanded(book, queue, Y, c, <<>>) /\ c.resting = <<>> /\ c.position = book.position
<1> DEFINE os == QueuedOrders(queue) \o book.resting
           es == Cancels(os)
           no == <<>>
           c == [Quiet EXCEPT !.resting = no, !.events = es]
           E == Working(book, queue)
           W == Working(c, no)
<1>1. /\ Quiet \in Books /\ Quiet.position = book.position /\ Quiet.resting = book.resting
      /\ Quiet.kept = <<>> /\ Quiet.ids = book.ids /\ Quiet.ocos = book.ocos
      /\ Quiet.events = no /\ book.resting \in Seq(Orders)
  BY Quieted
<1>2. os \in Seq(Orders) /\ Spoken(E, {}, es)
  BY AllSpoken
<1>3. es \in Seq(Happenings) /\ \A i \in 1 .. Len(es) : ~IsFill(es[i])
  <2> HIDE DEF os
  <2> QED BY <1>2, CancelsAre
<1>4. CancelAll(Quiet) = c
  <2>1. CancelAll(Quiet) = [[Quiet EXCEPT !.resting = <<>>] EXCEPT !.events = @ \o es]
    BY <1>1 DEF CancelAll, CancelEach, QueuedOrders, Cancels
  <2>2. no \o es = es
    BY <1>3
  <2> HIDE DEF es, no
  <2>3. [[Quiet EXCEPT !.resting = no] EXCEPT !.events = @ \o es]
          = [Quiet EXCEPT !.resting = no, !.events = @ \o es]
    BY <1>1 DEF Books
  <2>4. [Quiet EXCEPT !.resting = no, !.events = @ \o es]
          = [Quiet EXCEPT !.resting = no, !.events = es]
    BY <1>1, <2>2 DEF Books
  <2>5. [[Quiet EXCEPT !.resting = <<>>] EXCEPT !.events = @ \o es]
          = [[Quiet EXCEPT !.resting = no] EXCEPT !.events = @ \o es]
    BY DEF no
  <2> QED BY <2>1, <2>3, <2>4, <2>5
<1>5. no \in Seq(Orders) /\ no \in Seq(Actions)
      /\ \E at : Picks(at, no, book.resting, {})
      /\ \E bt : Picks(bt, no, queue, {})
  <2>1. no \in Seq(Orders) /\ no \in Seq(Actions)
    OBVIOUS
  <2>2. (\E at : Picks(at, no, book.resting, {})) /\ \E bt : Picks(bt, no, queue, {})
    BY NonePicked
  <2> QED BY <2>1, <2>2
<1>n. no = <<>>
  OBVIOUS
<1> HIDE DEF no, es, os
<1>6. /\ c \in Books /\ c.position = book.position /\ c.resting = no /\ c.kept = <<>>
      /\ c.ids = book.ids /\ c.ocos = book.ocos /\ c.events = es
  BY <1>1, <1>3, <1>5 DEF Books
<1> HIDE DEF c
<1>7. Holding(c) = Holding(book)
  BY <1>6 DEF Holding
<1>8. Drops(book, queue, c, no, {}, {})
  BY <1>5, <1>6 DEF Drops
<1>9. W = {}
  <2>1. \A id : id \in W <=> Left(id, book, queue, {}, {})
    BY <1>8, DropKeeps
  <2> HIDE DEF W
  <2> QED BY <2>1 DEF Left
<1>10. Spoken(E, W, c.events)
  BY <1>2, <1>6, <1>9
<1>11. Commanded(book, queue, Y, c, no)
  BY <1>3, <1>6, <1>7, <1>8, <1>10, DropCommands
<1>12. Commanded(book, queue, Y, c, <<>>) /\ c.resting = <<>> /\ c.position = book.position
  BY <1>6, <1>11, <1>n
<1> QED BY <1>4, <1>12

(* A close of everything.                                                   *)
LEMMA FlattenKeeps ==
  ASSUME NEW Y, Ready(book, queue, Y), Flatten
  PROVE Commanded(book, queue, Y, book', queue')
<1> DEFINE no == <<>>
           a == [action |-> "Close"]
<1>1. a \in Actions /\ a.action # "Entry" /\ Append(no, a) = <<a>>
  BY DEF Actions
<1>2. Commanded(book, queue, Y, CancelAll(Quiet), no)
  BY CancelAllDrops
<1>3. book' = CancelAll(Quiet) /\ (queue' = no \/ queue' = Append(no, a))
  BY <1>1 DEF Flatten
<1> HIDE DEF no, a
<1>4. Commanded(book, queue, Y, CancelAll(Quiet), Append(no, a))
  BY <1>1, <1>2, CommandedClosing
<1> QED BY <1>2, <1>3, <1>4

(* The account is reset: what is held is closed at the last mark.           *)
LEMMA ResetKeeps ==
  ASSUME NEW Z, 0 \notin Z, NEW Y, Ready(book, queue, Y), Reset
  PROVE /\ Ready(book', queue', Y) /\ Accounted(book, queue, Z, book', queue')
        /\ Working(book', queue') = {}
<1> DEFINE b == CancelAll(Quiet)
           c == CloseQuantity(b, book.position.qty, "Reset", Unset)
           no == <<>>
           E == Working(book, queue)
           W == Working(b, no)
           h == Holding(book)
<1>0. book' = c /\ queue' = no
  BY DEF Reset
<1>1. /\ Commanded(book, queue, Y, b, no) /\ b.resting = no /\ b.position = book.position
  BY CancelAllDrops
<1>2. book \in Books /\ book.ids \in Nat /\ h \in Int
  BY Quieted
<1>3. Ready(b, no, Y) /\ Accounted(book, queue, Z, b, no)
  BY <1>1, <1>2, CommandProceeds
<1> HIDE DEF b
<1>4. /\ Account(E, W, h, Z, {}, b, Holding(b)) /\ b.kept = no /\ book.ids <= b.ids
      /\ b \in Books /\ b.ids \in Nat
  BY <1>3 DEF Accounted, Ready, Books
<1> HIDE DEF h, E, W
<1>5. /\ Account(E, W, h, Z, {}, c, Holding(c)) /\ c.resting = no /\ c.kept = no
      /\ b.ids <= c.ids
  <2>1. CASE book.position = Flat
    <3>1. c = b
      BY <1>1, <2>1 DEF CloseQuantity
    <3> QED BY <1>1, <1>4, <3>1
  <2>2. CASE book.position # Flat
    <3>1. book.position.qty \in Nat \ {0}
      BY <1>2, <2>2 DEF Books, Positions
    <3>2. "Reset" \in Roles /\ "Reset" # "Entry" /\ "Reset" \notin LegRoles
      BY DEF Roles, LegRoles
    <3>3. ASSUME NEW m \in Nat \ {0}, NEW role \in Roles, role # "Entry", role \notin LegRoles,
                 c = CloseQuantity(b, m, role, Unset)
          PROVE Account(E, W, h, Z, {}, c, Holding(c)) /\ Steady(b, c) /\ c.resting = b.resting
      <4> HIDE DEF c, no
      <4>1. Account(E, W, h, Z, {}, b, Holding(b)) /\ h \in Int
        BY <1>2, <1>4
      <4> QED BY <3>3, <4>1, AccountCloses
    <3>4. Account(E, W, h, Z, {}, c, Holding(c)) /\ Steady(b, c) /\ c.resting = b.resting
      <4> DEFINE role == "Reset"
      <4>1. role \in Roles /\ role # "Entry" /\ role \notin LegRoles
        BY <3>2
      <4>2. c = CloseQuantity(b, book.position.qty, role, Unset)
        OBVIOUS
      <4> HIDE DEF role, c
      <4> QED BY <3>1, <3>3, <4>1, <4>2
    <3> HIDE DEF c
    <3> QED BY <1>1, <1>4, <3>4 DEF Steady
  <2> QED BY <2>1, <2>2
<1>6. no \in Seq(Actions) /\ no \in Seq(Orders) /\ 1 .. Len(no) = {} /\ DOMAIN no = {}
  OBVIOUS
<1> HIDE DEF c
<1>7. c \in Books /\ c.ids \in Nat
  BY <1>5 DEF Account, Books
<1> HIDE DEF no
<1>8. Working(c, no) = W
  BY <1>1, <1>5 DEF Working, W
<1>9. W = {}
  BY <1>1, <1>6 DEF Working, W
<1>10. Accounted(book, queue, Z, c, no)
  <2>1. book.ids <= c.ids
    BY <1>2, <1>4, <1>5, <1>7
  <2> QED BY <1>5, <1>8, <2>1 DEF Accounted, E, h, no
<1>11. Ready(c, no, Y)
  <2>1. Tidy(W, c)
    BY <1>5, <1>6, <1>7, <1>9 DEF Tidy
  <2>2. Queueable(no, EntryIds(c.resting), Y, c)
    BY <1>6 DEF Queueable
  <2>3. \A i \in 1 .. Len(c.resting) :
          ~Protective(c.resting[i]) /\ c.resting[i].id \in Y => c.resting[i].flat
    BY <1>5, <1>6
  <2> QED BY <1>5, <1>7, <1>8, <2>1, <2>2, <2>3 DEF Ready, no
<1> QED BY <1>0, <1>8, <1>9, <1>10, <1>11

(* The position's own pair is set anew, and its ladder swept.               *)
LEMMA SetBracketKeeps ==
  ASSUME NEW Y, Ready(book, queue, Y), NEW bracket \in Brackets, SetBracket(bracket)
  PROVE Commanded(book, queue, Y, book', queue')
<1> DEFINE E == Working(book, queue)
           p == [book.position EXCEPT !.stop = StopOf(bracket), !.target = TargetOf(bracket)]
           d == [Quiet EXCEPT !.position = p]
           c == Sweep(d)
<1>1. /\ Quiet \in Books /\ Quiet.position = book.position /\ Quiet.resting = book.resting
      /\ Quiet.kept = <<>> /\ Quiet.ids = book.ids /\ Quiet.ocos = book.ocos
      /\ Quiet.events = <<>> /\ Tidy(E, Quiet) /\ Holding(Quiet) = Holding(book)
      /\ queue \in Seq(Actions) /\ book \in Books /\ book.ids \in Nat
  BY Quieted
<1>2. book' = c /\ queue' = queue /\ book.position # Flat
  <2>1. [Quiet EXCEPT !.position.stop = StopOf(bracket), !.position.target = TargetOf(bracket)] = d
    BY <1>1 DEF Books
  <2> QED BY <2>1 DEF SetBracket
<1>3. StopOf(bracket) \in Levels /\ TargetOf(bracket) \in Levels
  <2>1. bracket \in Seq(Parts)
    BY SimulatorAssumption
  <2>2. Unset \in Levels
    BY DEF Levels
  <2>3. Whole(bracket) => bracket[1] \in Parts
    <3> DEFINE S == Parts
    <3>1. bracket \in Seq(S)
      BY <2>1
    <3> HIDE DEF S
    <3>2. Len(bracket) = 1 => bracket[1] \in S
      BY <3>1
    <3> QED BY <3>2 DEF Whole, S
  <2> QED BY <2>2, <2>3 DEF StopOf, TargetOf, Parts
<1>4. p \in Positions /\ p.side = book.position.side /\ p.qty = book.position.qty
  <2>1. book.position \in [side : Sides, qty : Nat \ {0}, stop : Levels, target : Levels]
    BY <1>1, <1>2 DEF Books, Positions
  <2> DEFINE x == StopOf(bracket)
             y == TargetOf(bracket)
  <2> HIDE DEF x, y
  <2>2. p = [book.position EXCEPT !.stop = x, !.target = y] /\ x \in Levels /\ y \in Levels
    BY <1>3 DEF x, y
  <2> HIDE DEF p
  <2> QED BY <2>1, <2>2 DEF Positions
<1> HIDE DEF p
<1>5. /\ d \in Books /\ d.position = p /\ d.resting = book.resting /\ d.kept = <<>>
      /\ d.ids = book.ids /\ d.ocos = book.ocos /\ d.events = <<>>
  BY <1>1, <1>4 DEF Books
<1> HIDE DEF d, E
<1>6. Tidy(E, d)
  BY <1>1, <1>5 DEF Tidy
<1>7. Settles(E, d, c) /\ c.position = d.position
  BY <1>5, <1>6, SweepSettles
<1> HIDE DEF c
<1>8. /\ c \in Books /\ Tidy(E, c) /\ c.kept = <<>> /\ book.ids <= c.ids
      /\ EntriesIn(c.resting) = EntriesIn(book.resting) /\ Mute(E, <<>>, c.events)
  BY <1>5, <1>7 DEF Settles
<1>9. Holding(c) = Holding(book)
  BY <1>4, <1>5, <1>7 DEF Holding
<1>10. EntryIds(c.resting) = EntryIds(book.resting)
  BY <1>8, EntryIdsAre
<1>11. Working(c, queue) = E
  <2>1. Working(c, queue) = EntryIds(c.resting) \cup Queues(queue, 0)
    BY <1>1, <1>8, WorkingIs
  <2>2. E = EntryIds(book.resting) \cup Queues(queue, 0)
    BY <1>1, WorkingIs DEF E
  <2> QED BY <1>10, <2>1, <2>2
<1>12. \A i \in 1 .. Len(c.events) : ~IsFill(c.events[i]) /\ c.events[i].id \notin E
  <2>1. \A i \in Len(<<>>) + 1 .. Len(c.events) : ~IsFill(c.events[i]) /\ c.events[i].id \notin E
    BY <1>8 DEF Mute
  <2>2. Len(<<>>) + 1 = 1
    OBVIOUS
  <2> QED BY <2>1, <2>2
<1>13. Spoken(E, E, c.events)
  BY <1>12, SpokenNothing
<1>14. Queueable(queue, EntryIds(c.resting), Y, c)
  <2>1. Queueable(queue, EntryIds(book.resting), Y, book)
    BY DEF Ready
  <2> QED BY <1>2, <1>10, <2>1 DEF Queueable
<1>15. \A i \in 1 .. Len(c.resting) :
         ~Protective(c.resting[i]) /\ c.resting[i].id \in Y => c.resting[i].flat
  <2> SUFFICES ASSUME NEW i \in 1 .. Len(c.resting), ~Protective(c.resting[i]),
                      c.resting[i].id \in Y
               PROVE c.resting[i].flat
    OBVIOUS
  <2>1. c.resting[i] \in EntriesIn(book.resting)
    BY <1>8, EntriesAre
  <2>2. PICK j \in 1 .. Len(book.resting) :
          ~Protective(book.resting[j]) /\ c.resting[i] = book.resting[j]
    BY <2>1, EntriesAre
  <2> QED BY <2>2 DEF Ready
<1>16. E = Working(book, queue) /\ E = Working(c, queue) /\ E = E \cup E
  BY <1>11 DEF E
<1>17. Commanded(book, queue, Y, c, queue)
  BY <1>8, <1>9, <1>12, <1>13, <1>14, <1>15, <1>16, CommandedIs
<1> QED BY <1>2, <1>17

-----------------------------------------------------------------------------
(* The simulator as a whole. *)

(* What a hand may ask for.                                                 *)
LEMMA EntriesAsked == Entries \subseteq Asked
BY SimulatorAssumption DEF Asked

(* Any command.                                                             *)
LEMMA CommandKeeps ==
  ASSUME NEW Y, Ready(book, queue, Y), book.ids + 1 \notin Y, Command
  PROVE Commanded(book, queue, Y, book', queue')
<1>1. book.resting \in Seq(Orders) /\ queue \in Seq(Actions)
  BY Quieted
<1>2. DOMAIN book.resting = 1 .. Len(book.resting) /\ DOMAIN queue = 1 .. Len(queue)
  BY <1>1
<1>3. ASSUME NEW e \in Entries, PlaceMarket(e) PROVE Commanded(book, queue, Y, book', queue')
  BY <1>3, EntriesAsked, MarketQueues
<1>4. ASSUME NEW e \in Entries, PlaceResting(e) PROVE Commanded(book, queue, Y, book', queue')
  BY <1>4, EntriesAsked, RestingRests
<1>5. ASSUME NEW i \in DOMAIN book.resting,
             \/ \E price \in Prices : ModifyOrder(i, price)
             \/ \E b \in Brackets : SetOrderBracket(i, b)
      PROVE Commanded(book, queue, Y, book', queue')
  BY <1>2, <1>5, AmendsKeep
<1>6. ASSUME NEW i \in DOMAIN book.resting, CancelResting(i)
      PROVE Commanded(book, queue, Y, book', queue')
  BY <1>2, <1>6, RestingCancels
<1>7. ASSUME NEW i \in DOMAIN queue, CancelQueued(i)
      PROVE Commanded(book, queue, Y, book', queue')
  BY <1>2, <1>7, QueuedCancels
<1>8. ASSUME NEW b \in Brackets, SetBracket(b) PROVE Commanded(book, queue, Y, book', queue')
  BY <1>8, SetBracketKeeps
<1>9. ASSUME ClosePosition PROVE Commanded(book, queue, Y, book', queue')
  <2>1. [action |-> "Close"] \in Actions /\ [action |-> "Close"].action # "Entry"
    BY DEF Actions
  <2> QED BY <1>9, <2>1, CloseQueues DEF ClosePosition
<1>10. ASSUME NEW qty \in Quantities, ClosePartial(qty)
       PROVE Commanded(book, queue, Y, book', queue')
  <2> DEFINE a == [action |-> "ClosePartial", qty |-> qty]
  <2>1. qty \in Nat \ {0}
    BY SimulatorAssumption
  <2>2. a \in Actions /\ a.action # "Entry"
    BY <2>1 DEF Actions
  <2>3. Close(a)
    BY <1>10 DEF ClosePartial
  <2> HIDE DEF a
  <2> QED BY <2>2, <2>3, CloseQueues
<1>11. ASSUME Flatten PROVE Commanded(book, queue, Y, book', queue')
  BY <1>11, FlattenKeeps
<1> QED BY <1>3, <1>4, <1>5, <1>6, <1>7, <1>8, <1>9, <1>10, <1>11 DEF Command

(* A print leaves a book that is ready.                                     *)
LEMMA PrintReady ==
  ASSUME NEW Z, 0 \notin Z, Ready(book, queue, Z), NEW price, OnTrade(price)
  PROVE /\ Ready(book', queue', Z) /\ Accounted(book, queue, Z, book', queue')
        /\ book'.placed = book.placed /\ book'.touched = book.touched
        /\ Working(book', queue') \subseteq Working(book, queue)
<1> DEFINE c == SweepOrphans(WalkResting(ProtectionFirst(Quiet, price), price))
           no == <<>>
           E == Working(book, queue)
<1>0. book' = c /\ queue' = no
  BY DEF OnTrade
<1>1. /\ Accounted(book, queue, Z, c, no) /\ c.placed = book.placed
      /\ c.touched = book.touched /\ EntriesIn(c.resting) \subseteq EntriesIn(book.resting)
  BY PrintKeeps
<1> HIDE DEF c
<1>2. c \in Books /\ Tidy(E, c) /\ c.kept = no
  BY <1>1 DEF Accounted, Account
<1>3. E = EntryIds(book.resting) \cup Queues(queue, 0)
  BY Quieted
<1>4. no \in Seq(Actions) /\ 1 .. Len(no) = {} /\ Queues(no, 0) = {}
  BY DEF Queues
<1>n. no = <<>>
  OBVIOUS
<1> HIDE DEF no
<1>5. \A i \in 1 .. Len(c.resting) : ~Protective(c.resting[i]) =>
        \E j \in 1 .. Len(book.resting) :
          ~Protective(book.resting[j]) /\ c.resting[i] = book.resting[j]
  <2> SUFFICES ASSUME NEW i \in 1 .. Len(c.resting), ~Protective(c.resting[i])
               PROVE \E j \in 1 .. Len(book.resting) :
                       ~Protective(book.resting[j]) /\ c.resting[i] = book.resting[j]
    OBVIOUS
  <2>1. c.resting[i] \in EntriesIn(book.resting)
    BY <1>1, EntriesAre
  <2> QED BY <2>1, EntriesAre
<1>6. EntryIds(c.resting) \subseteq EntryIds(book.resting)
  <2> DEFINE s == c.resting
             t == book.resting
             A == 1 .. Len(s)
             B == 1 .. Len(t)
  <2>1. \A i \in A : ~Protective(s[i]) => \E j \in B : ~Protective(t[j]) /\ s[i] = t[j]
    BY <1>5
  <2>2. EntryIds(s) = IdsAt(s, A) /\ EntryIds(t) = IdsAt(t, B)
    BY DEF EntryIds
  <2> HIDE DEF A, B, s, t
  <2>3. \A id \in IdsAt(s, A) : id \in IdsAt(t, B)
    <3> SUFFICES ASSUME NEW id \in IdsAt(s, A) PROVE id \in IdsAt(t, B)
      OBVIOUS
    <3>1. PICK i \in A : ~Protective(s[i]) /\ id = s[i].id
      BY IdsAre
    <3>2. PICK j \in B : ~Protective(t[j]) /\ s[i] = t[j]
      BY <2>1, <3>1
    <3> QED BY <3>1, <3>2, IdsAre
  <2> QED BY <2>2, <2>3 DEF s, t
<1>7. Working(c, no) \subseteq E
  <2>1. Working(c, no) = EntryIds(c.resting) \cup Queues(no, 0)
    BY <1>2, <1>4, WorkingIs
  <2> QED BY <1>3, <1>4, <1>6, <2>1
<1>8. Tidy(Working(c, no), c)
  BY <1>2, <1>7, TidyLess
<1>9. Queueable(no, EntryIds(c.resting), Z, c)
  BY <1>4 DEF Queueable
<1>10. \A i \in 1 .. Len(c.resting) :
         ~Protective(c.resting[i]) /\ c.resting[i].id \in Z => c.resting[i].flat
  BY <1>5 DEF Ready
<1>11. Ready(c, no, Z)
  BY <1>2, <1>8, <1>9, <1>10, <1>n DEF Ready
<1> QED BY <1>0, <1>1, <1>7, <1>11

(* The inductive invariant of the simulator: what its calls find.           *)
SimInv == mark \in Levels /\ Ready(book, queue, {})

(* It holds at first.                                                       *)
LEMMA SimStarts == Init => SimInv /\ book.ids = 0
<1> SUFFICES ASSUME Init PROVE SimInv /\ book.ids = 0
  OBVIOUS
<1> DEFINE no == <<>>
<1>1. no \in Seq(Orders) /\ no \in Seq(Happenings) /\ no \in Seq(Actions)
      /\ DOMAIN no = {} /\ 1 .. Len(no) = {} /\ no = <<>>
  OBVIOUS
<1>2. queue = no /\ mark = Unset
      /\ book = [position |-> Flat, resting |-> no, kept |-> no, placed |-> 0,
                 touched |-> 0, ids |-> 0, ocos |-> 0, events |-> no]
  BY DEF Init
<1> HIDE DEF no
<1>3. book \in Books /\ book.resting = no /\ book.kept = no /\ book.ids = 0
  BY <1>1, <1>2 DEF Books, Positions
<1>4. Working(book, queue) = {}
  BY <1>1, <1>2, <1>3 DEF Working
<1>5. Tidy({}, book)
  BY <1>1, <1>3 DEF Tidy
<1>6. Queueable(queue, EntryIds(book.resting), {}, book)
  BY <1>1, <1>2 DEF Queueable
<1>7. Ready(book, queue, {})
  BY <1>1, <1>3, <1>4, <1>5, <1>6 DEF Ready
<1> QED BY <1>2, <1>3, <1>7 DEF SimInv, Levels

(* No command moves the mark.                                               *)
LEMMA MarkStays ==
  ASSUME Command
  PROVE mark' = mark
<1>1. CASE \E e \in Entries : PlaceMarket(e) \/ PlaceResting(e)
  BY <1>1 DEF PlaceMarket, PlaceResting
<1>2. CASE \E i \in DOMAIN book.resting :
             \/ \E price \in Prices : ModifyOrder(i, price)
             \/ \E b \in Brackets : SetOrderBracket(i, b)
             \/ CancelResting(i)
  BY <1>2 DEF ModifyOrder, SetOrderBracket, CancelResting
<1>3. CASE \E i \in DOMAIN queue : CancelQueued(i)
  BY <1>3 DEF CancelQueued
<1>4. CASE \E b \in Brackets : SetBracket(b)
  BY <1>4 DEF SetBracket
<1>5. CASE ClosePosition \/ \E qty \in Quantities : ClosePartial(qty)
  BY <1>5 DEF ClosePosition, ClosePartial, Close
<1>6. CASE Flatten
  BY <1>6 DEF Flatten
<1> QED BY <1>1, <1>2, <1>3, <1>4, <1>5, <1>6 DEF Command

(* Every step of it is a call that is accounted for, and leaves it.         *)
LEMMA SimSteps ==
  ASSUME SimInv, Next
  PROVE SimInv' /\ Accounted(book, queue, {}, book', queue')
<1>1. mark \in Levels /\ Ready(book, queue, {}) /\ book \in Books /\ 0 \notin {}
  BY Quieted DEF SimInv
<1>2. ASSUME Commanded(book, queue, {}, book', queue')
      PROVE Ready(book', queue', {}) /\ Accounted(book, queue, {}, book', queue')
  BY <1>1, <1>2, CommandProceeds
<1>3. ASSUME NEW price \in Prices, OnTrade(price)
      PROVE /\ Ready(book', queue', {}) /\ Accounted(book, queue, {}, book', queue')
            /\ mark' \in Levels
  <2>1. mark' \in Levels
    BY <1>3 DEF OnTrade, Levels
  <2> QED BY <1>1, <1>3, <2>1, PrintReady
<1>4. ASSUME NEW price \in Prices, Seed(price)
      PROVE /\ Ready(book', queue', {}) /\ Accounted(book, queue, {}, book', queue')
            /\ mark' \in Levels
  <2>1. mark' \in Levels
    BY <1>4 DEF Seed, Levels
  <2>2. Commanded(book, queue, {}, book', queue')
    BY <1>1, <1>4, SeedKeeps
  <2> QED BY <1>2, <2>1, <2>2
<1>5. ASSUME Command
      PROVE /\ Ready(book', queue', {}) /\ Accounted(book, queue, {}, book', queue')
            /\ mark' \in Levels
  <2>1. mark' \in Levels
    BY <1>1, <1>5, MarkStays
  <2>2. Commanded(book, queue, {}, book', queue')
    BY <1>1, <1>5, CommandKeeps
  <2>3. Ready(book', queue', {}) /\ Accounted(book, queue, {}, book', queue')
    BY <1>2, <2>2
  <2> QED BY <2>1, <2>3
<1>6. ASSUME Reset
      PROVE /\ Ready(book', queue', {}) /\ Accounted(book, queue, {}, book', queue')
            /\ mark' \in Levels
  <2>1. mark' \in Levels
    BY <1>6 DEF Reset, Levels
  <2> QED BY <1>1, <1>6, <2>1, ResetKeeps
<1>7. /\ Ready(book', queue', {}) /\ Accounted(book, queue, {}, book', queue')
      /\ mark' \in Levels
  BY <1>3, <1>4, <1>5, <1>6 DEF Next
<1> QED BY <1>7 DEF SimInv

(* The books, the orders in them and the mark stay what the calls expect,   *)
(* for any prices, orders and protections: ids are never reused, every leg  *)
(* belongs to a pair of at most two, and nothing is both queued and         *)
(* resting.                                                                 *)
THEOREM SimulatorInvariant == Spec => []SimInv
<1>1. Init => SimInv
  BY SimStarts
<1>2. SimInv /\ [Next]_vars => SimInv'
  <2>1. SimInv /\ UNCHANGED vars => SimInv'
    BY DEF vars, SimInv, Ready, Queueable, Working, Tidy, EntryIds, IdsAt
  <2>2. SimInv /\ Next => SimInv'
    BY SimSteps
  <2> QED BY <2>1, <2>2
<1> QED BY <1>1, <1>2, PTL DEF Spec

(* The account of a call, as its tallies give it.                           *)
LEMMA AccountTallies ==
  ASSUME NEW E, NEW W, NEW h \in Int, NEW Z, NEW Q, NEW c, NEW n, Account(E, W, h, Z, Q, c, n)
  PROVE LET es == c.events IN
        /\ n = Tally(h, SubSeq(es, 1, Len(es))) /\ Len(es) \in Nat /\ DOMAIN es = 1 .. Len(es)
        /\ \A i \in 1 .. Len(es) : IsFill(es[i]) =>
             LET held == Tally(h, SubSeq(es, 1, i - 1)) IN
             /\ es[i].role # "Entry" =>
                  /\ es[i].qty > 0
                  /\ es[i].qty <= (IF es[i].side = "Sell" THEN held ELSE -held)
             /\ es[i].id \in Z => held = 0
<1> DEFINE es == c.events
<1>1. c \in Books /\ Explained(h, Z, es, n)
  BY DEF Account
<1>2. es \in Seq(Happenings) /\ Len(es) \in Nat /\ DOMAIN es = 1 .. Len(es)
  BY <1>1 DEF Books
<1> HIDE DEF es
<1>3. PICK T \in Running(h, es) :
        /\ T[Len(es)] = n
        /\ \A i \in 1 .. Len(es) : IsFill(es[i]) =>
             /\ es[i].role # "Entry" =>
                  /\ es[i].qty > 0
                  /\ es[i].qty <= (IF es[i].side = "Sell" THEN T[i - 1] ELSE -T[i - 1])
             /\ es[i].id \in Z => T[i - 1] = 0
  BY <1>1 DEF Explained
<1>4. \A k \in 0 .. Len(es) : Tally(h, SubSeq(es, 1, k)) = T[k]
  BY <1>2, TallyRuns
<1>5. Len(es) \in 0 .. Len(es) /\ \A i \in 1 .. Len(es) : i - 1 \in 0 .. Len(es)
  BY <1>2
<1>6. n = Tally(h, SubSeq(es, 1, Len(es)))
  BY <1>3, <1>4, <1>5
<1>7. ASSUME NEW i \in 1 .. Len(es), IsFill(es[i])
      PROVE LET held == Tally(h, SubSeq(es, 1, i - 1)) IN
             /\ es[i].role # "Entry" =>
                  /\ es[i].qty > 0
                  /\ es[i].qty <= (IF es[i].side = "Sell" THEN held ELSE -held)
             /\ es[i].id \in Z => held = 0
  <2>1. Tally(h, SubSeq(es, 1, i - 1)) = T[i - 1]
    BY <1>4, <1>5
  <2> QED BY <1>3, <1>7, <2>1
<1> QED BY <1>2, <1>6, <1>7 DEF es

(* The position moves by exactly the fills each call reports, through       *)
(* averaging, netting, reversal, ladders, hand closes and resets, and no    *)
(* exit closes more than is held at its moment: for any prices, quantities  *)
(* and protections, and however many orders a print fills.                  *)
THEOREM FillsAreThePosition == Spec => FillsExplainPosition
<1> DEFINE A == /\ Holding(book') = HoldingBefore(Len(Happened) + 1)
                /\ \A i \in DOMAIN Happened : LET e == Happened[i] IN
                     IsFill(e) /\ e.role # "Entry" =>
                       /\ e.qty > 0
                       /\ e.qty <= (IF e.side = "Sell" THEN HoldingBefore(i) ELSE -HoldingBefore(i))
<1>1. SimInv /\ Next => A
  <2> SUFFICES ASSUME SimInv, Next PROVE A
    OBVIOUS
  <2> DEFINE h == Holding(book)
             c == book'
             es == c.events
             E == Working(book, queue)
             W == Working(book', queue')
  <2>1. Account(E, W, h, {}, {}, c, Holding(c))
    BY SimSteps DEF Accounted
  <2>2. h \in Int
    BY Quieted DEF SimInv
  <2> HIDE DEF E, W, h, c
  <2>3. /\ Holding(c) = Tally(h, SubSeq(es, 1, Len(es))) /\ Len(es) \in Nat
        /\ DOMAIN es = 1 .. Len(es)
        /\ \A i \in 1 .. Len(es) : IsFill(es[i]) =>
             LET held == Tally(h, SubSeq(es, 1, i - 1)) IN
             /\ es[i].role # "Entry" =>
                  /\ es[i].qty > 0
                  /\ es[i].qty <= (IF es[i].side = "Sell" THEN held ELSE -held)
             /\ es[i].id \in {} => held = 0
    BY <2>1, <2>2, AccountTallies
  <2>4. Happened = es /\ (Len(es) + 1) - 1 = Len(es)
    BY <2>3 DEF Happened, c
  <2> HIDE DEF es
  <2>5. \A i : HoldingBefore(i) = Tally(h, SubSeq(es, 1, i - 1))
    BY <2>4 DEF HoldingBefore, h
  <2> QED BY <2>3, <2>4, <2>5 DEF c
<1>2. [][A]_vars <=> FillsExplainPosition
  BY PTL DEF FillsExplainPosition
<1> HIDE DEF A
<1> QED BY <1>1, <1>2, SimulatorInvariant, PTL DEF Spec

(* Protection exits come before every entry fill of a print, whatever it    *)
(* fills, so that no position is stopped out by the print that opened it.   *)
THEOREM ProtectionWaits == Spec => ProtectionArmsNextPrint
<1> DEFINE A == \A i, j \in DOMAIN Happened :
                  i < j /\ IsFill(Happened[i]) /\ Happened[i].role = "Entry"
                        /\ IsFill(Happened[j])
                  => Happened[j].role \notin {"StopLoss", "TakeProfit"}
<1>1. SimInv /\ Next => A
  <2> SUFFICES ASSUME SimInv, Next PROVE A
    OBVIOUS
  <2>1. book' \in Books /\ Ordered(book'.events)
    BY SimSteps DEF Accounted, Account
  <2>2. book'.events \in Seq(Happenings)
    BY <2>1 DEF Books
  <2>3. DOMAIN book'.events = 1 .. Len(book'.events)
    BY <2>2
  <2> QED BY <2>1, <2>3 DEF Happened, Ordered, LegRoles
<1>2. [][A]_vars <=> ProtectionArmsNextPrint
  BY PTL DEF ProtectionArmsNextPrint
<1> HIDE DEF A
<1> QED BY <1>1, <1>2, SimulatorInvariant, PTL DEF Spec

(* Places with one member, or none.                                         *)
LEMMA CountedOnce ==
  ASSUME NEW L \in Nat, NEW M, M \subseteq 1 .. L
  PROVE /\ (\A i \in 1 .. L : i \notin M) => Cardinality(M) = 0
        /\ (\E i \in M : \A j \in M : j = i) => Cardinality(M) = 1
<1>1. ASSUME \A i \in 1 .. L : i \notin M PROVE Cardinality(M) = 0
  <2>1. M = {}
    BY <1>1
  <2> QED BY <2>1, FS_EmptySet
<1>2. ASSUME NEW i \in M, \A j \in M : j = i PROVE Cardinality(M) = 1
  <2>1. M = {i}
    BY <1>2
  <2> QED BY <2>1, FS_Singleton
<1> QED BY <1>1, <1>2

(* An entry order leaves with one word about it, and none while it works;   *)
(* a pair whose leg has filled is spent.  For any book, any queue and any   *)
(* list of orders a print goes through.                                     *)
THEOREM OrdersAreAccounted == Spec => OrdersLeaveOnce
<1> DEFINE A == /\ \A id \in Working(book, queue) :
                     Cardinality({i \in DOMAIN Happened : Happened[i].id = id})
                       = IF id \in Working(book', queue') THEN 0 ELSE 1
                /\ \A i \in DOMAIN Happened : LET spent == Happened[i].oco IN
                     IsFill(Happened[i]) /\ spent # Unset =>
                       /\ \A j \in DOMAIN book'.resting : book'.resting[j].oco # spent
                       /\ \A j \in DOMAIN Happened :
                            IsFill(Happened[j]) /\ Happened[j].oco = spent => i = j
<1>1. SimInv /\ Next => A
  <2> SUFFICES ASSUME SimInv, Next PROVE A
    OBVIOUS
  <2> DEFINE c == book'
             es == c.events
             E == Working(book, queue)
             W == Working(book', queue')
  <2>1. c \in Books /\ Spoken(E, W, es) /\ Spent({}, es, c.ocos, c.resting)
    BY SimSteps DEF Accounted, Account
  <2> HIDE DEF c, E, W
  <2>2. es \in Seq(Happenings) /\ c.resting \in Seq(Orders)
    BY <2>1 DEF Books
  <2>3. /\ DOMAIN es = 1 .. Len(es) /\ Len(es) \in Nat
        /\ DOMAIN c.resting = 1 .. Len(c.resting)
    BY <2>2
  <2>4. Happened = es
    BY DEF Happened, c
  <2> HIDE DEF es
  <2>5. ASSUME NEW id \in E
        PROVE Cardinality({i \in DOMAIN es : es[i].id = id}) = IF id \in W THEN 0 ELSE 1
    <3> DEFINE M == {i \in DOMAIN es : es[i].id = id}
    <3>1. M \subseteq 1 .. Len(es) /\ \A i \in 1 .. Len(es) : i \in M <=> es[i].id = id
      BY <2>3
    <3> HIDE DEF M
    <3>2. CASE id \in W
      <4>1. \A i \in 1 .. Len(es) : i \notin M
        BY <2>1, <3>1, <3>2 DEF Spoken
      <4> QED BY <2>3, <3>1, <3>2, <4>1, CountedOnce DEF M
    <3>3. CASE id \notin W
      <4>1. PICK i \in 1 .. Len(es) : /\ es[i].id = id
                                      /\ \A j \in 1 .. Len(es) : es[j].id = id => j = i
        BY <2>1, <3>3 DEF Spoken
      <4>2. i \in M /\ \A j \in M : j = i
        BY <3>1, <4>1
      <4>3. Cardinality(M) = 1
        BY <2>3, <3>1, <4>2, CountedOnce
      <4> QED BY <3>3, <4>3 DEF M
    <3> QED BY <3>2, <3>3
  <2>6. ASSUME NEW i \in DOMAIN es, IsFill(es[i]), es[i].oco # Unset
        PROVE /\ \A j \in DOMAIN c.resting : c.resting[j].oco # es[i].oco
              /\ \A j \in DOMAIN es : IsFill(es[j]) /\ es[j].oco = es[i].oco => i = j
    <3>1. es[i].oco # 0 /\ i \in 1 .. Len(es)
      BY <2>3, <2>6 DEF Unset
    <3> QED BY <2>1, <2>3, <2>6, <3>1 DEF Spent
  <2> QED BY <2>4, <2>5, <2>6 DEF c, E, W
<1>2. [][A]_vars <=> OrdersLeaveOnce
  BY PTL DEF OrdersLeaveOnce
<1> HIDE DEF A
<1> QED BY <1>1, <1>2, SimulatorInvariant, PTL DEF Spec

-----------------------------------------------------------------------------
(* The armed strategies. *)

(* What an instance makes of a batch, event by event.                       *)
Hearing(b, s) == FoldLeft(LAMBDA c, x : Hear(c, x), b, s)
HearingSteps(X, s, step) ==
  /\ step \in [1 .. Len(s) -> [X -> X]]
  /\ \A n \in 1 .. Len(s) : \A c \in X : step[n][c] = Hear(c, s[n])

(* It is the end of a path.                                                 *)
LEMMA HearingPath ==
  ASSUME NEW X, NEW b \in X, NEW S, NEW s \in Seq(S), NEW step,
         HearingSteps(X, s, step)
  PROVE \E t \in Paths(Len(s), X, b, step) : t[Len(s)] = Hearing(b, s)
<1> DEFINE L == Len(s)
           D == 1 .. L
           body(g) == [z \in SUBSET D |-> IF z = {} THEN b ELSE Hear(g[z \ {Max(z)}], s[Max(z)])]
           iter == CHOOSE g : g = body(g)
<1>1. L \in Nat /\ DOMAIN s = D
  OBVIOUS
<1>2. Hearing(b, s) = iter[D]
  BY <1>1 DEF Hearing, FoldLeft, MapThenFoldSet
<1>s. \A z \in SUBSET D : z # {} => Max(z) \in D
  BY <1>1, PartsOfUpto
<1>d. step \in [1 .. L -> [X -> X]]
  BY DEF HearingSteps
<1>5. \A n \in D : \A c \in X : step[n][c] = Hear(c, s[n])
  BY DEF HearingSteps
<1>d2. D = 1 .. L
  OBVIOUS
<1> HIDE DEF L
<1>3. PICK f \in Folding(L, X, b, step) : TRUE
  BY <1>1, <1>d, FoldingExists
<1>4. /\ f \in [SUBSET D -> X]
      /\ \A z \in SUBSET D : f[z] = IF z = {} THEN b ELSE step[Max(z)][f[z \ {Max(z)}]]
  BY <1>3 DEF Folding
<1> HIDE DEF D
<1>6. \A z \in SUBSET D : f[z] = IF z = {} THEN b ELSE Hear(f[z \ {Max(z)}], s[Max(z)])
  <2> SUFFICES ASSUME NEW z \in SUBSET D, z # {} PROVE f[z] = Hear(f[z \ {Max(z)}], s[Max(z)])
    BY <1>4
  <2>1. Max(z) \in D /\ f[z \ {Max(z)}] \in X
    BY <1>4, <1>s
  <2> QED BY <1>4, <1>5, <2>1
<1>7. f = body(f)
  BY <1>4, <1>6
<1>8. iter = body(iter)
  BY <1>7
<1> HIDE DEF iter
<1>9. FoldsLike(iter, L, X, b, step)
  <2>1. iter[{}] = b
    BY <1>8
  <2>2. ASSUME NEW z \in SUBSET D, z # {}, iter[z \ {Max(z)}] \in X
        PROVE iter[z] = step[Max(z)][iter[z \ {Max(z)}]]
    <3>1. iter[z] = Hear(iter[z \ {Max(z)}], s[Max(z)])
      BY <1>8, <2>2
    <3> QED BY <1>5, <1>s, <2>2, <3>1
  <2> QED BY <2>1, <2>2 DEF FoldsLike, D
<1>10. \E t \in Paths(L, X, b, step) : t[L] = iter[1 .. L]
  BY <1>1, <1>9, <1>d, FoldingPath
<1> QED BY <1>2, <1>10, <1>d2 DEF L

(* The parts of a list of lists, in one list.                               *)
LEMMA FlattenIs ==
  ASSUME NEW S, NEW ss \in Seq(Seq(S))
  PROVE /\ FlattenSeq(ss) \in Seq(S)
        /\ \A x : (\E j \in 1 .. Len(FlattenSeq(ss)) : FlattenSeq(ss)[j] = x) <=>
                    \E n \in 1 .. Len(ss) : \E m \in 1 .. Len(ss[n]) : ss[n][m] = x
<1> DEFINE L == Len(ss)
           X == Seq(S)
           no == <<>>
           step == [n \in 1 .. L |-> [r \in X |-> r \o ss[n]]]
           body(g) == [i \in 1 .. L |-> IF i = 1 THEN ss[i] ELSE g[i - 1] \o ss[i]]
           flat == CHOOSE g : g = body(g)
           upto == [k \in 0 .. L |-> IF k = 0 THEN no ELSE flat[k]]
           Good(n, r) == \A x : (\E j \in 1 .. Len(r) : r[j] = x) <=>
                                  \E k \in 1 .. n : \E m \in 1 .. Len(ss[k]) : ss[k][m] = x
           P == {p \in (0 .. L) \X X : Good(p[1], p[2])}
<1>1. L \in Nat /\ (\A n \in 1 .. L : ss[n] \in X) /\ no \in X /\ Len(no) = 0
      /\ \A s \in X : no \o s = s
  OBVIOUS
<1>z. L = 0 => ss = no
  OBVIOUS
<1>2. FlattenSeq(ss) = IF L = 0 THEN ss ELSE flat[L]
  BY DEF FlattenSeq
<1>x. \A r, s \in X : r \o s \in X
  OBVIOUS
<1>j. \A r, s \in X : /\ Len(r) \in Nat /\ Len(s) \in Nat /\ Len(r \o s) = Len(r) + Len(s)
                      /\ \A i \in 1 .. Len(r) : (r \o s)[i] = r[i]
                      /\ \A i \in 1 .. Len(s) : (r \o s)[Len(r) + i] = s[i]
  OBVIOUS
<1> HIDE DEF L, X, no
<1>3. step \in [1 .. L -> [X -> X]]
  BY <1>1, <1>x
<1>5. \A n \in 1 .. L : \A r \in X : step[n][r] = r \o ss[n]
  OBVIOUS
<1>6. \E g : g = body(g)
  <2>1. PICK t \in Paths(L, X, no, step) : TRUE
    <3> HIDE DEF step
    <3> QED BY <1>1, <1>3, PathExists, SMTT(20)
  <2>2. t \in [0 .. L -> X] /\ t[0] = no /\ \A n \in 1 .. L : t[n] = step[n][t[n - 1]]
    BY <2>1 DEF Paths
  <2> HIDE DEF step
  <2> DEFINE g == [i \in 1 .. L |-> t[i]]
  <2>3. \A i \in 1 .. L : i \in 0 .. L /\ i - 1 \in 0 .. L /\ (i # 1 => i - 1 \in 1 .. L)
    BY <1>1
  <2>4. \A i \in 1 .. L : g[i] = t[i - 1] \o ss[i] /\ t[i - 1] \in X
    BY <1>5, <2>2, <2>3
  <2>5. \A i \in 1 .. L : i # 1 => g[i - 1] = t[i - 1]
    BY <2>3
  <2> HIDE DEF g
  <2>6. ASSUME NEW i \in 1 .. L, i = 1 PROVE g[i] = ss[i]
    <3>1. i - 1 = 0
      BY <2>6
    <3>2. g[i] = no \o ss[i] /\ ss[i] \in X
      BY <1>1, <2>2, <2>4, <3>1
    <3> QED BY <1>1, <3>2
  <2>7. g = body(g)
    <3>1. \A i \in 1 .. L : g[i] = IF i = 1 THEN ss[i] ELSE g[i - 1] \o ss[i]
      <4>1. ASSUME NEW i \in 1 .. L, i # 1 PROVE g[i] = g[i - 1] \o ss[i]
        BY <2>4, <2>5, <4>1
      <4> QED BY <2>6, <4>1
    <3> QED BY <3>1 DEF g
  <2> QED BY <2>7
<1>7. flat = body(flat)
  BY <1>6
<1>8. upto[0] = no /\ \A n \in 1 .. L : upto[n - 1] \in X => upto[n] = step[n][upto[n - 1]]
  <2> HIDE DEF flat, step
  <2>1. \A k \in 1 .. L : flat[k] = body(flat)[k]
    BY <1>7
  <2>2. \A n \in 1 .. L : n \in 0 .. L /\ n # 0 /\ n - 1 \in 0 .. L /\ (n # 1 => n - 1 # 0)
    BY <1>1
  <2>3. 0 \in 0 .. L
    BY <1>1
  <2>4. ASSUME NEW n \in 1 .. L, upto[n - 1] \in X PROVE upto[n] = upto[n - 1] \o ss[n]
    <3>1. flat[n] = IF n = 1 THEN ss[n] ELSE flat[n - 1] \o ss[n]
      BY <2>1
    <3>2. CASE n = 1
      <4>1. upto[n - 1] = no /\ upto[n] = ss[n] /\ ss[n] \in X
        BY <1>1, <2>2, <2>3, <3>1, <3>2
      <4> QED BY <1>1, <4>1
    <3>3. CASE n # 1
      BY <2>2, <3>1, <3>3
    <3> QED BY <3>2, <3>3
  <2> QED BY <1>5, <2>3, <2>4
<1> HIDE DEF upto, flat, body, Good
<1>9. PICK t \in Paths(L, X, no, step) : \A n \in 0 .. L : t[n] = upto[n]
  <2> HIDE DEF step
  <2>1. StepsLike(upto, L, X, no, step)
    BY <1>8 DEF StepsLike
  <2> QED BY <1>1, <1>3, <2>1, PathOf, SMTT(20)
<1>10. <<0, no>> \in P
  <2>1. 1 .. Len(no) = {} /\ 1 .. 0 = {}
    BY <1>1
  <2>2. Good(0, no)
    BY <2>1 DEF Good
  <2> QED BY <1>1, <2>2
<1>11. ASSUME NEW n \in 1 .. L, NEW r \in X, <<n - 1, r>> \in P
       PROVE <<n, step[n][r]>> \in P
  <2> DEFINE s == ss[n]
             q == r \o s
  <2>1. Good(n - 1, r) /\ s \in X /\ q \in X /\ n \in 0 .. L /\ n \in Nat /\ n >= 1
    BY <1>1, <1>11, <1>x
  <2>2. /\ Len(r) \in Nat /\ Len(s) \in Nat /\ Len(q) = Len(r) + Len(s)
        /\ \A i \in 1 .. Len(r) : q[i] = r[i]
        /\ \A i \in 1 .. Len(s) : q[Len(r) + i] = s[i]
    BY <1>j, <2>1
  <2> HIDE DEF q
  <2>3. /\ \A j \in 1 .. Len(q) : j \in 1 .. Len(r) \/ (j - Len(r)) \in 1 .. Len(s)
        /\ \A j \in 1 .. Len(q) : Len(r) + (j - Len(r)) = j
        /\ \A j \in 1 .. Len(r) : j \in 1 .. Len(q)
        /\ \A j \in 1 .. Len(s) : Len(r) + j \in 1 .. Len(q)
    BY <2>2
  <2>4. /\ \A k \in 1 .. n : k \in 1 .. n - 1 \/ k = n
        /\ \A k \in 1 .. n - 1 : k \in 1 .. n
        /\ n \in 1 .. n
    BY <2>1
  <2>5. ASSUME NEW x
        PROVE (\E j \in 1 .. Len(q) : q[j] = x) <=>
                \E k \in 1 .. n : \E m \in 1 .. Len(ss[k]) : ss[k][m] = x
    <3>1. (\E j \in 1 .. Len(r) : r[j] = x) <=>
            \E k \in 1 .. n - 1 : \E m \in 1 .. Len(ss[k]) : ss[k][m] = x
      BY <2>1 DEF Good
    <3>2. (\E j \in 1 .. Len(q) : q[j] = x) <=>
            (\E j \in 1 .. Len(r) : r[j] = x) \/ \E j \in 1 .. Len(s) : s[j] = x
      <4>1. ASSUME NEW j \in 1 .. Len(q)
            PROVE (\E k \in 1 .. Len(r) : r[k] = q[j]) \/ \E k \in 1 .. Len(s) : s[k] = q[j]
        BY <2>2, <2>3
      <4>2. ASSUME NEW j \in 1 .. Len(r) PROVE \E k \in 1 .. Len(q) : q[k] = r[j]
        BY <2>2, <2>3
      <4>3. ASSUME NEW j \in 1 .. Len(s) PROVE \E k \in 1 .. Len(q) : q[k] = s[j]
        BY <2>2, <2>3
      <4> QED BY <4>1, <4>2, <4>3
    <3>3. (\E k \in 1 .. n : \E m \in 1 .. Len(ss[k]) : ss[k][m] = x) <=>
            (\E k \in 1 .. n - 1 : \E m \in 1 .. Len(ss[k]) : ss[k][m] = x)
              \/ \E m \in 1 .. Len(ss[n]) : ss[n][m] = x
      BY <2>4
    <3> QED BY <3>1, <3>2, <3>3
  <2>6. Good(n, q)
    BY <2>5 DEF Good
  <2>7. step[n][r] = q
    BY <1>5 DEF q
  <2> HIDE DEF step
  <2> QED BY <2>1, <2>6, <2>7
<1>12. \A n \in 0 .. L : t[n] \in X /\ <<n, t[n]>> \in P
  <2> HIDE DEF P, step
  <2>1. Carries(P, L, X, step)
    BY <1>11 DEF Carries
  <2> QED BY <1>1, <1>9, <1>10, <2>1, AlongCarries
<1>13. upto[L] \in X /\ Good(L, upto[L])
  <2>1. L \in 0 .. L
    BY <1>1
  <2>2. t[L] = upto[L] /\ t[L] \in X /\ <<L, t[L]>> \in P
    BY <1>9, <1>12, <2>1
  <2> QED BY <2>2
<1>14. FlattenSeq(ss) = upto[L]
  <2>1. L \in 0 .. L
    BY <1>1
  <2> HIDE DEF L
  <2> QED BY <1>2, <1>z, <2>1 DEF upto
<1> QED BY <1>13, <1>14 DEF Good, L, X

-----------------------------------------------------------------------------
(* The instances, and the calls of an evaluation. *)

Instances == [drawing : UNION Range(Drawings), preset : Presets, phase : Phases, order : Nat]
Callings  == [kind : {"deliver", "judge"}, pane : Panes, at : Nat] \cup [kind : {"listen"}]

(* The calls to make: each is of an instance there, but the last.           *)
Timely(ag, an) ==
  /\ ag \in Seq(Callings)
  /\ \A j \in 1 .. Len(ag) :
       /\ (ag[j].kind = "listen") = (j = Len(ag))
       /\ ag[j].kind # "listen" => ag[j].pane \in Panes /\ ag[j].at \in 1 .. Len(an[ag[j].pane])

(* The instance hears of the batch yet.                                     *)
Hearsay(ag, p, i) ==
  \E j \in 1 .. Len(ag) : ag[j].kind = "deliver" /\ ag[j].pane = p /\ ag[j].at = i

(* The panes are numbered.                                                  *)
LEMMA PanesAre ==
  /\ Len(Drawings) \in Nat /\ Panes = 1 .. Len(Drawings)
  /\ \A p \in Panes : Drawings[p] \subseteq UNION Range(Drawings)
<1>1. Drawings \in Seq(SUBSET UNION Range(Drawings))
  BY ArmedAssumption
<1> DEFINE S == SUBSET UNION Range(Drawings)
<1>2. Drawings \in Seq(S)
  BY <1>1
<1> HIDE DEF S
<1>3. Len(Drawings) \in Nat /\ DOMAIN Drawings = 1 .. Len(Drawings)
      /\ \A p \in DOMAIN Drawings : Drawings[p] \in S
  BY <1>2
<1> QED BY <1>3 DEF Panes, S

(* One call of each instance of a pane, in creation order.                  *)
Turns(kind, p) == [i \in DOMAIN anchors[p] |-> [kind |-> kind, pane |-> p, at |-> i]]
TurnsOf(closed, p) == Turns("deliver", p) \o (IF p \in closed THEN Turns("judge", p) ELSE <<>>)
Rounds(closed) == [p \in Panes |-> TurnsOf(closed, p)]
Judgings == [kind : {"deliver", "judge"}, pane : Panes, at : Nat]

(* These are the calls of pane p, and every instance is to hear.            *)
CallsOf(p, f) ==
  /\ \A m \in 1 .. Len(f) : /\ f[m].kind # "listen" /\ f[m].pane = p
                            /\ f[m].at \in 1 .. Len(anchors[p])
  /\ \A i \in 1 .. Len(anchors[p]) :
       \E m \in 1 .. Len(f) : f[m] = [kind |-> "deliver", pane |-> p, at |-> i]

(* One call of each instance.                                               *)
LEMMA TurnsAre ==
  ASSUME anchors \in [Panes -> Seq(Instances)], NEW p \in Panes,
         NEW kind \in {"deliver", "judge"}
  PROVE /\ Turns(kind, p) \in Seq(Judgings) /\ Len(Turns(kind, p)) = Len(anchors[p])
        /\ \A i \in 1 .. Len(anchors[p]) :
             Turns(kind, p)[i] = [kind |-> kind, pane |-> p, at |-> i]
<1> DEFINE s == anchors[p]
           S == Judgings
<1>1. s \in Seq(Instances)
  OBVIOUS
<1> HIDE DEF s
<1>2. Len(s) \in Nat /\ DOMAIN s = 1 .. Len(s)
  BY <1>1
<1>3. \A i \in 1 .. Len(s) : [kind |-> kind, pane |-> p, at |-> i] \in S
  BY <1>2 DEF Judgings
<1> HIDE DEF S
<1> DEFINE e(i) == [kind |-> kind, pane |-> p, at |-> i]
<1>4. \A i \in 1 .. Len(s) : e(i) \in S
  BY <1>3
<1> HIDE DEF e
<1> DEFINE t == [i \in 1 .. Len(s) |-> e(i)]
<1>5. t \in Seq(S) /\ Len(t) = Len(s) /\ \A i \in 1 .. Len(s) : t[i] = e(i)
  BY <1>2, <1>4
<1>6. t = Turns(kind, p)
  BY <1>2 DEF Turns, e, s
<1> HIDE DEF t
<1> QED BY <1>5, <1>6 DEF S, s, e

(* The calls of one pane.                                                   *)
LEMMA TurnsOfAre ==
  ASSUME anchors \in [Panes -> Seq(Instances)], NEW p \in Panes, NEW closed
  PROVE TurnsOf(closed, p) \in Seq(Judgings) /\ CallsOf(p, TurnsOf(closed, p))
<1> DEFINE S == Judgings
           d == Turns("deliver", p)
           no == <<>>
           j == IF p \in closed THEN Turns("judge", p) ELSE no
           f == d \o j
           n == Len(anchors[p])
<1>0. TurnsOf(closed, p) = f
  BY DEF TurnsOf
<1>1. /\ d \in Seq(S) /\ Len(d) = n
      /\ \A i \in 1 .. n : d[i] = [kind |-> "deliver", pane |-> p, at |-> i]
  BY TurnsAre
<1>2. /\ j \in Seq(S)
      /\ \A i \in 1 .. Len(j) : i \in 1 .. n /\ j[i] = [kind |-> "judge", pane |-> p, at |-> i]
  <2>1. CASE p \in closed
    <3>1. j = Turns("judge", p)
      BY <2>1
    <3> HIDE DEF j
    <3> QED BY <3>1, TurnsAre
  <2>2. CASE p \notin closed
    <3>1. no \in Seq(S) /\ 1 .. Len(no) = {}
      OBVIOUS
    <3>2. j = no
      BY <2>2
    <3> HIDE DEF no, j, S
    <3> QED BY <3>1, <3>2
  <2> QED BY <2>1, <2>2
<1> HIDE DEF d, j, S, n
<1>3. /\ f \in Seq(S) /\ Len(f) = Len(d) + Len(j) /\ Len(d) \in Nat /\ Len(j) \in Nat
      /\ \A i \in 1 .. Len(d) : f[i] = d[i]
      /\ \A i \in 1 .. Len(j) : f[Len(d) + i] = j[i]
  <2>1. d \in Seq(S) /\ j \in Seq(S)
    BY <1>1, <1>2
  <2>2. /\ d \o j \in Seq(S) /\ Len(d \o j) = Len(d) + Len(j)
        /\ \A i \in 1 .. Len(d) : (d \o j)[i] = d[i]
        /\ \A i \in 1 .. Len(j) : (d \o j)[Len(d) + i] = j[i]
        /\ Len(d) \in Nat /\ Len(j) \in Nat
    BY <2>1, Joined
  <2> QED BY <2>2
<1>4. /\ \A m \in 1 .. Len(f) : m \in 1 .. Len(d) \/ (m - Len(d)) \in 1 .. Len(j)
      /\ \A m \in 1 .. Len(f) : Len(d) + (m - Len(d)) = m
      /\ \A m \in 1 .. Len(d) : m \in 1 .. Len(f)
  BY <1>3
<1> HIDE DEF f
<1>5. ASSUME NEW m \in 1 .. Len(f)
      PROVE f[m].kind # "listen" /\ f[m].pane = p /\ f[m].at \in 1 .. n
  <2>1. CASE m \in 1 .. Len(d)
    <3>1. f[m] = [kind |-> "deliver", pane |-> p, at |-> m] /\ m \in 1 .. n
      BY <1>1, <1>3, <2>1
    <3> QED BY <3>1
  <2>2. CASE (m - Len(d)) \in 1 .. Len(j)
    <3> DEFINE k == m - Len(d)
    <3>1. f[m] = j[k] /\ k \in 1 .. Len(j)
      BY <1>3, <1>4, <2>2
    <3> HIDE DEF k
    <3>2. f[m] = [kind |-> "judge", pane |-> p, at |-> k] /\ k \in 1 .. n
      BY <1>2, <3>1
    <3> QED BY <3>2
  <2> QED BY <1>4, <2>1, <2>2
<1>6. ASSUME NEW i \in 1 .. n
      PROVE \E m \in 1 .. Len(f) : f[m] = [kind |-> "deliver", pane |-> p, at |-> i]
  <2>1. f[i] = [kind |-> "deliver", pane |-> p, at |-> i] /\ i \in 1 .. Len(f)
    BY <1>1, <1>3, <1>4
  <2> QED BY <2>1
<1>7. CallsOf(p, f)
  BY <1>5, <1>6 DEF CallsOf, n
<1> QED BY <1>0, <1>3, <1>7 DEF S

(* The calls of the panes, one after the other.                             *)
LEMMA RoundsAre ==
  ASSUME anchors \in [Panes -> Seq(Instances)], NEW closed
  PROVE /\ FlattenSeq(Rounds(closed)) \in Seq(Judgings)
        /\ \A x : (\E j \in 1 .. Len(FlattenSeq(Rounds(closed))) : FlattenSeq(Rounds(closed))[j] = x)
                   <=> \E p \in Panes : \E m \in 1 .. Len(TurnsOf(closed, p)) :
                         TurnsOf(closed, p)[m] = x
<1> DEFINE T == Seq(Judgings)
           ss == Rounds(closed)
           e(p) == TurnsOf(closed, p)
           L == Len(Drawings)
<1>1. \A p \in Panes : e(p) \in T
  BY TurnsOfAre
<1>2. L \in Nat /\ Panes = 1 .. L
  BY PanesAre
<1>3. ss = [p \in Panes |-> e(p)]
  BY DEF Rounds
<1> HIDE DEF T, L, e, ss
<1>4. ss \in Seq(T) /\ Len(ss) = L /\ \A p \in Panes : ss[p] = e(p)
  BY <1>1, <1>2, <1>3
<1>5. ss \in Seq(Seq(Judgings))
  BY <1>4 DEF T
<1>6. /\ FlattenSeq(ss) \in Seq(Judgings)
      /\ \A x : (\E j \in 1 .. Len(FlattenSeq(ss)) : FlattenSeq(ss)[j] = x) <=>
                  \E n \in 1 .. Len(ss) : \E m \in 1 .. Len(ss[n]) : ss[n][m] = x
  BY <1>5, FlattenIs
<1>7. \A x : (\E n \in 1 .. Len(ss) : \E m \in 1 .. Len(ss[n]) : ss[n][m] = x) <=>
               \E p \in Panes : \E m \in 1 .. Len(e(p)) : e(p)[m] = x
  BY <1>2, <1>4
<1> QED BY <1>6, <1>7 DEF ss, e

(* What an evaluation has to do.                                            *)
LEMMA CallsAre ==
  ASSUME anchors \in [Panes -> Seq(Instances)], NEW closed
  PROVE /\ Timely(Calls(closed), anchors)
        /\ \A p \in Panes : \A i \in 1 .. Len(anchors[p]) : Hearsay(Calls(closed), p, i)
<1> DEFINE last == [kind |-> "listen"]
           r == FlattenSeq(Rounds(closed))
           ag == r \o <<last>>
           S == Judgings
           C == Callings
<1>0. Calls(closed) = ag
  BY DEF Calls, Rounds, TurnsOf, Turns
<1>5. /\ r \in Seq(S)
      /\ \A x : (\E j \in 1 .. Len(r) : r[j] = x) <=>
                  \E p \in Panes : \E m \in 1 .. Len(TurnsOf(closed, p)) :
                    TurnsOf(closed, p)[m] = x
  BY RoundsAre
<1>3. \A p \in Panes : CallsOf(p, TurnsOf(closed, p))
  BY TurnsOfAre
<1>9. last \in C /\ last.kind = "listen" /\ S \subseteq C
  BY DEF Callings, Judgings
<1> HIDE DEF r, S, C, last
<1>7. ASSUME NEW j \in 1 .. Len(r)
      PROVE /\ r[j].kind # "listen" /\ r[j].pane \in Panes
            /\ r[j].at \in 1 .. Len(anchors[r[j].pane])
  <2> DEFINE x == r[j]
  <2>1. \E i \in 1 .. Len(r) : r[i] = x
    OBVIOUS
  <2> HIDE DEF x
  <2>2. PICK p \in Panes : \E m \in 1 .. Len(TurnsOf(closed, p)) : TurnsOf(closed, p)[m] = x
    BY <1>5, <2>1
  <2>3. x.kind # "listen" /\ x.pane = p /\ x.at \in 1 .. Len(anchors[p])
    BY <1>3, <2>2 DEF CallsOf
  <2> QED BY <2>3 DEF x
<1>8. ASSUME NEW p \in Panes, NEW i \in 1 .. Len(anchors[p])
      PROVE \E j \in 1 .. Len(r) : r[j] = [kind |-> "deliver", pane |-> p, at |-> i]
  <2> DEFINE x == [kind |-> "deliver", pane |-> p, at |-> i]
  <2>1. \E m \in 1 .. Len(TurnsOf(closed, p)) : TurnsOf(closed, p)[m] = x
    BY <1>3 DEF CallsOf
  <2> HIDE DEF x
  <2>2. \E j \in 1 .. Len(r) : r[j] = x
    BY <1>5, <2>1
  <2> QED BY <2>2 DEF x
<1>10. /\ ag \in Seq(C) /\ Len(ag) = Len(r) + 1 /\ ag[Len(r) + 1] = last /\ Len(r) \in Nat
       /\ \A j \in 1 .. Len(r) : ag[j] = r[j]
  BY <1>5, <1>9
<1> HIDE DEF ag
<1>11. /\ \A j \in 1 .. Len(ag) : j \in 1 .. Len(r) \/ j = Len(ag)
       /\ \A j \in 1 .. Len(r) : j # Len(ag) /\ j \in 1 .. Len(ag)
  BY <1>10
<1>12. Timely(ag, anchors)
  <2>1. ASSUME NEW j \in 1 .. Len(ag)
        PROVE /\ (ag[j].kind = "listen") = (j = Len(ag))
              /\ ag[j].kind # "listen" =>
                   ag[j].pane \in Panes /\ ag[j].at \in 1 .. Len(anchors[ag[j].pane])
    <3>1. CASE j \in 1 .. Len(r)
      <4>1. ag[j] = r[j] /\ j # Len(ag)
        BY <1>10, <1>11, <3>1
      <4> QED BY <1>7, <3>1, <4>1
    <3>2. CASE j = Len(ag)
      <4>1. ag[j] = last
        BY <1>10, <3>2
      <4> QED BY <1>9, <3>2, <4>1
    <3> QED BY <1>11, <3>1, <3>2
  <2> QED BY <1>10, <2>1 DEF Timely, C
<1>13. ASSUME NEW p \in Panes, NEW i \in 1 .. Len(anchors[p]) PROVE Hearsay(ag, p, i)
  <2>1. PICK j \in 1 .. Len(r) : r[j] = [kind |-> "deliver", pane |-> p, at |-> i]
    BY <1>8
  <2>2. ag[j] = [kind |-> "deliver", pane |-> p, at |-> i] /\ j \in 1 .. Len(ag)
    BY <1>10, <1>11, <2>1
  <2> QED BY <2>2 DEF Hearsay
<1> QED BY <1>0, <1>12, <1>13

-----------------------------------------------------------------------------
(* What an instance makes of a batch. *)

Ears == [bot : Instances, filled : BOOLEAN, closes : BOOLEAN]

(* An instance has an order exactly while it is fired.                      *)
Sound(b) == b \in Instances /\ (b.phase = "Fired") = (b.order # 0)

(* The word that order id is gone.                                          *)
Farewell(e, id) == e.id = id /\ e.what \in Leavings
Parted(es, id) == \E i \in 1 .. Len(es) : Farewell(es[i], id)

(* After n events of es the instance that b was is still fired, over the    *)
(* same order, only where none of them said that it is gone.                *)
Heeds(h, b, es, n) ==
  /\ h \in Ears /\ Sound(h.bot) /\ h.bot.drawing = b.drawing /\ h.bot.preset = b.preset
  /\ h.bot.phase = "Fired" => h.bot = b
  /\ h.bot.phase = "Fired" => \A i \in 1 .. n : ~Farewell(es[i], b.order)

(* An instance is changed in its phase and its order.                       *)
LEMMA Rephased ==
  ASSUME NEW h \in Ears, NEW phase \in Phases
  PROVE /\ Leaves(h, phase) \in Ears /\ Leaves(h, phase).bot.phase = phase
        /\ Leaves(h, phase).bot.order = 0
        /\ Leaves(h, phase).bot.drawing = h.bot.drawing
        /\ Leaves(h, phase).bot.preset = h.bot.preset
        /\ Leaves(h, phase).bot \in Instances
<1>1. h = [bot |-> h.bot, filled |-> h.filled, closes |-> h.closes] /\ h.bot \in Instances
      /\ h.filled \in BOOLEAN /\ h.closes \in BOOLEAN
  BY DEF Ears
<1>2. h.bot = [drawing |-> h.bot.drawing, preset |-> h.bot.preset, phase |-> h.bot.phase,
               order |-> h.bot.order]
      /\ h.bot.drawing \in UNION Range(Drawings) /\ h.bot.preset \in Presets
  BY <1>1 DEF Instances
<1> DEFINE b == h.bot
           c == [[b EXCEPT !.phase = phase] EXCEPT !.order = 0]
<1>3. Leaves(h, phase) = [h EXCEPT !.bot = c]
  <2>1. [h EXCEPT !.bot.phase = phase].bot = [b EXCEPT !.phase = phase]
    BY <1>1
  <2>2. [h EXCEPT !.bot.phase = phase] = [h EXCEPT !.bot = [b EXCEPT !.phase = phase]]
    OBVIOUS
  <2>3. \A x : [[h EXCEPT !.bot = x] EXCEPT !.bot.order = 0] = [h EXCEPT !.bot = [x EXCEPT !.order = 0]]
    BY <1>1
  <2> QED BY <2>2, <2>3 DEF Leaves, Unset
<1>4. /\ c \in Instances /\ c.phase = phase /\ c.order = 0
      /\ c.drawing = b.drawing /\ c.preset = b.preset
  BY <1>1, <1>2 DEF Instances
<1> HIDE DEF c
<1>5. [h EXCEPT !.bot = c] \in Ears /\ [h EXCEPT !.bot = c].bot = c
  BY <1>4 DEF Ears
<1> QED BY <1>3, <1>4, <1>5

(* One event.                                                               *)
LEMMA HearOne ==
  ASSUME NEW h \in Ears, Sound(h.bot), NEW e \in Happenings
  PROVE /\ Hear(h, e) \in Ears /\ Sound(Hear(h, e).bot)
        /\ Hear(h, e).bot.drawing = h.bot.drawing /\ Hear(h, e).bot.preset = h.bot.preset
        /\ Hear(h, e).bot.phase = "Fired" =>
             Hear(h, e).bot = h.bot /\ ~Farewell(e, h.bot.order)
<1> DEFINE b == h.bot
           g == Hear(h, e)
           Good(c) == /\ c \in Ears /\ Sound(c.bot)
                      /\ c.bot.drawing = b.drawing /\ c.bot.preset = b.preset
                      /\ c.bot.phase = "Fired" => c.bot = b /\ ~Farewell(e, b.order)
<1>1. ~Waiting(b)
  BY DEF Waiting, Sound, Unset
<1>f. Awaits(b, e) => b.phase # "InPosition"
  BY DEF Awaits
<1>2. \A phase \in Phases \ {"Fired"} : Good(Leaves(h, phase))
  BY Rephased DEF Sound
<1>p. {"Disarmed", "InPosition", "Armed", "Done"} \subseteq Phases \ {"Fired"}
  BY DEF Phases, Watching
<1>3. \A c \in Ears : /\ [c EXCEPT !.filled = TRUE] \in Ears
                      /\ [c EXCEPT !.filled = TRUE].bot = c.bot
                      /\ [c EXCEPT !.closes = TRUE] \in Ears
                      /\ [c EXCEPT !.closes = TRUE].bot = c.bot
  BY DEF Ears
<1>4. CASE Awaits(b, e) /\ e.what = "Filled"
  <2>1. g = [Leaves(h, "InPosition") EXCEPT !.filled = TRUE]
    BY <1>1, <1>f, <1>4 DEF Hear
  <2>2. Good(Leaves(h, "InPosition"))
    BY <1>2, <1>p
  <2> QED BY <1>3, <2>1, <2>2
<1>5. CASE Awaits(b, e) /\ e.what = "Cancelled"
  <2>1. g = Leaves(h, "Disarmed")
    BY <1>1, <1>f, <1>5 DEF Hear
  <2> QED BY <1>2, <1>p, <2>1
<1>6. CASE Awaits(b, e) /\ e.what \in {"PriceTouched", "AccountOccupied"}
  <2>1. g = Leaves(h, IF b.preset.auto THEN "Armed" ELSE "Disarmed")
    BY <1>1, <1>f, <1>6 DEF Hear
  <2>2. (IF b.preset.auto THEN "Armed" ELSE "Disarmed") \in Phases \ {"Fired"}
    BY <1>p
  <2> QED BY <1>2, <2>1, <2>2
<1>7. CASE ~(Awaits(b, e) /\ e.what \in Leavings) /\ b.phase = "InPosition" /\ DropIsMine(h.filled, e)
  <2>1. g = [Leaves(h, "Disarmed") EXCEPT !.closes = TRUE]
    BY <1>1, <1>7 DEF Hear, Awaits
  <2>2. Good(Leaves(h, "Disarmed"))
    BY <1>2, <1>p
  <2> QED BY <1>3, <2>1, <2>2
<1>8. CASE ~(Awaits(b, e) /\ e.what \in Leavings) /\ ~(b.phase = "InPosition" /\ DropIsMine(h.filled, e))
  <2>1. g = h
    BY <1>1, <1>8 DEF Hear, Leavings
  <2>2. b.phase = "Fired" => b.order # 0
    BY DEF Sound
  <2>3. b.phase = "Fired" => ~Farewell(e, b.order)
    BY <1>8, <2>2 DEF Awaits, Farewell, Unset
  <2> QED BY <2>1, <2>3
<1> QED BY <1>4, <1>5, <1>6, <1>7, <1>8 DEF Leavings

(* A whole batch.                                                           *)
LEMMA HearKeeps ==
  ASSUME NEW b, Sound(b), NEW es \in Seq(Happenings)
  PROVE Heeds(OnSimEvents(b, es), b, es, Len(es))
<1> DEFINE L == Len(es)
           X == {h \in Ears : Sound(h.bot)}
           no == [bot |-> b, filled |-> FALSE, closes |-> FALSE]
           step == [n \in 1 .. L |-> [c \in X |-> Hear(c, es[n])]]
           P == {p \in (0 .. L) \X X : Heeds(p[2], b, es, p[1])}
<1>1. L \in Nat /\ \A n \in 1 .. L : es[n] \in Happenings
  OBVIOUS
<1>2. no \in X /\ no.bot = b
  BY DEF Ears, Sound
<1>3. OnSimEvents(b, es) = Hearing(no, es)
  BY DEF OnSimEvents, Hearing, FoldLeft, MapThenFoldSet
<1>4. \A n \in 1 .. L : \A c \in X : Hear(c, es[n]) \in X
  BY <1>1, HearOne
<1> HIDE DEF X, L, no
<1>5. step \in [1 .. L -> [X -> X]] /\ \A n \in 1 .. L : \A c \in X : step[n][c] = Hear(c, es[n])
  BY <1>4
<1>6. HearingSteps(X, es, step)
  BY <1>5 DEF HearingSteps, L
<1> HIDE DEF step
<1>7. PICK t \in Paths(L, X, no, step) : t[L] = Hearing(no, es)
  BY <1>2, <1>6, HearingPath DEF L
<1>8. <<0, no>> \in P
  <2>1. Heeds(no, b, es, 0)
    BY <1>2 DEF Heeds, X, no, Ears
  <2> QED BY <1>1, <1>2, <2>1
<1>9. ASSUME NEW n \in 1 .. L, NEW c \in X, <<n - 1, c>> \in P PROVE <<n, step[n][c]>> \in P
  <2> DEFINE g == Hear(c, es[n])
  <2>1. Heeds(c, b, es, n - 1) /\ c \in Ears /\ Sound(c.bot) /\ es[n] \in Happenings
        /\ n \in 0 .. L /\ g \in X
    BY <1>1, <1>4, <1>9 DEF X
  <2>2. /\ g \in Ears /\ Sound(g.bot)
        /\ g.bot.drawing = c.bot.drawing /\ g.bot.preset = c.bot.preset
        /\ g.bot.phase = "Fired" => g.bot = c.bot /\ ~Farewell(es[n], c.bot.order)
    BY <2>1, HearOne
  <2> HIDE DEF g
  <2>3. \A i \in 1 .. n : i \in 1 .. n - 1 \/ i = n
    BY <1>1
  <2>4. Heeds(g, b, es, n)
    BY <2>1, <2>2, <2>3 DEF Heeds
  <2>5. step[n][c] = g
    BY <1>5 DEF g
  <2> QED BY <2>1, <2>4, <2>5
<1>10. Carries(P, L, X, step)
  <2> HIDE DEF P
  <2> QED BY <1>9 DEF Carries
<1>11. <<L, t[L]>> \in P
  <2> HIDE DEF P
  <2>1. L \in 0 .. L
    BY <1>1
  <2> QED BY <1>1, <1>2, <1>5, <1>7, <1>8, <1>10, <2>1, AlongCarries
<1>12. Heeds(t[L], b, es, L)
  BY <1>11
<1> QED BY <1>3, <1>7, <1>12 DEF L

(* A single event.                                                          *)
LEMMA EchoIs ==
  ASSUME NEW b \in Instances, NEW es \in Seq(Happenings), Len(es) = 1, b.phase = "Fired", b.order = 0
  PROVE /\ es[1].what = "Placed" => OnSimEvents(b, es).bot = [b EXCEPT !.order = es[1].id]
        /\ es[1].what = "Rejected" =>
             OnSimEvents(b, es).bot = [b EXCEPT !.phase = "Disarmed", !.order = 0]
<1> DEFINE no == [bot |-> b, filled |-> FALSE, closes |-> FALSE]
           g == Hear(no, es[1])
<1>1. OnSimEvents(b, es) = g
  <2> DEFINE D == 1 .. 1
             body(f) == [z \in SUBSET D |-> IF z = {} THEN no ELSE Hear(f[z \ {Max(z)}], es[Max(z)])]
             iter == CHOOSE f : f = body(f)
             one == {1}
  <2>1. DOMAIN es = D
    OBVIOUS
  <2>2. OnSimEvents(b, es) = iter[D]
    BY <2>1 DEF OnSimEvents, FoldLeft, MapThenFoldSet
  <2>3. D = one /\ Max(one) = 1 /\ one \ {1} = {} /\ one # {}
    BY DEF Max
  <2>4. \A z \in SUBSET D : z = {} \/ z = one
    BY <2>3
  <2>5. {} \in SUBSET D /\ one \in SUBSET D
    BY <2>3
  <2> DEFINE f == [z \in SUBSET D |-> IF z = {} THEN no ELSE g]
  <2> HIDE DEF g, no, D, one
  <2>6. \A z \in SUBSET D : f[z] = IF z = {} THEN no ELSE Hear(f[z \ {Max(z)}], es[Max(z)])
    <3>1. f[{}] = no /\ f[one] = g
      BY <2>3, <2>5
    <3>2. g = Hear(f[one \ {Max(one)}], es[Max(one)])
      BY <2>3, <3>1 DEF g
    <3> HIDE DEF f
    <3> QED BY <2>3, <2>4, <3>1, <3>2
  <2>7. f = body(f)
    BY <2>6
  <2>8. iter = body(iter)
    BY <2>7
  <2> HIDE DEF iter, f
  <2>9. iter[{}] = no
    BY <2>5, <2>8
  <2>10. iter[one] = Hear(iter[one \ {Max(one)}], es[Max(one)])
    BY <2>3, <2>5, <2>8
  <2>11. iter[one] = Hear(no, es[1])
    BY <2>3, <2>9, <2>10
  <2> QED BY <2>2, <2>3, <2>11 DEF g
<1>2. no.bot = b /\ Waiting(b)
  BY DEF Waiting, Unset
<1>3. es[1].what = "Placed" => g = [no EXCEPT !.bot.order = es[1].id]
  BY <1>2 DEF Hear
<1>4. es[1].what = "Rejected" => g = Leaves(no, "Disarmed")
  BY <1>2 DEF Hear, Awaits, DropIsMine
<1>5. Leaves(no, "Disarmed").bot = [b EXCEPT !.phase = "Disarmed", !.order = 0]
  BY DEF Leaves, Unset, Instances
<1>6. \A n : [no EXCEPT !.bot.order = n].bot = [b EXCEPT !.order = n]
  OBVIOUS
<1> HIDE DEF no, g
<1> QED BY <1>1, <1>3, <1>4, <1>5, <1>6

-----------------------------------------------------------------------------
(* What the account does next to its strategies. *)

(* The account goes from b and q to c and r: an entry that is no longer     *)
(* working has been parted with aloud, and a new one has a new id.          *)
Moves(b, q, Y, c, r) ==
  /\ Ready(c, r, Y) /\ b.ids <= c.ids
  /\ \A id \in Working(b, q) : id \in Working(c, r) \/ Parted(c.events, id)
  /\ \A id \in Working(c, r) : id \in Working(b, q) \/ b.ids < id

(* An entry spoken of that is not working has been parted with.             *)
LEMMA SpokenParts ==
  ASSUME NEW E, NEW W, NEW es, Spoken(E, W, es)
  PROVE \A id \in E : id \in W \/ Parted(es, id)
<1> SUFFICES ASSUME NEW id \in E, id \notin W PROVE Parted(es, id)
  OBVIOUS
<1>1. PICK i \in 1 .. Len(es) : es[i].id = id /\ es[i].what \in Leavings
  BY DEF Spoken
<1> QED BY <1>1 DEF Parted, Farewell

(* Any command.                                                             *)
LEMMA CommandMoves ==
  ASSUME NEW b \in Books, NEW q, NEW Y, NEW c, NEW r, Commanded(b, q, Y, c, r)
  PROVE Moves(b, q, Y, c, r)
<1>1. Ready(c, r, Y)
  BY CommandProceeds
<1>2. /\ b.ids <= c.ids /\ Spoken(Working(b, q), Working(c, r), c.events)
      /\ \A id \in Working(c, r) : id \in Working(b, q) \/ b.ids < id
  BY DEF Commanded
<1> QED BY <1>1, <1>2, SpokenParts DEF Moves

(* A print.                                                                 *)
LEMMA PrintMoves ==
  ASSUME NEW Z, 0 \notin Z, Ready(book, queue, Z), NEW price, OnTrade(price)
  PROVE Moves(book, queue, Z, book', queue')
<1>1. /\ Ready(book', queue', Z) /\ Accounted(book, queue, Z, book', queue')
      /\ Working(book', queue') \subseteq Working(book, queue)
  BY PrintReady
<1>2. book.ids <= book'.ids /\ Spoken(Working(book, queue), Working(book', queue'), book'.events)
  BY <1>1 DEF Accounted, Account
<1> QED BY <1>1, <1>2, SpokenParts DEF Moves

(* The answer to a cancel of each of ids.                                   *)
Answers(ids, W) ==
  [i \in DOMAIN ids |-> IF ids[i] \in W THEN [Remark("Cancelled") EXCEPT !.id = ids[i]]
                        ELSE Remark("Rejected")]

(* A withdrawn order that was working is told to have left.                 *)
LEMMA AnswersAre ==
  ASSUME NEW ids \in Seq(Nat), NEW W
  PROVE /\ Answers(ids, W) \in Seq(Happenings)
        /\ \A i \in 1 .. Len(ids) : ids[i] \in W => Parted(Answers(ids, W), ids[i])
        /\ \A i \in 1 .. Len(Answers(ids, W)) : ~IsFill(Answers(ids, W)[i])
<1> DEFINE L == Len(ids)
           e(i) == IF ids[i] \in W THEN [Remark("Cancelled") EXCEPT !.id = ids[i]]
                   ELSE Remark("Rejected")
           es == [i \in 1 .. L |-> e(i)]
<1>1. L \in Nat /\ DOMAIN ids = 1 .. L /\ \A i \in 1 .. L : ids[i] \in Nat
  OBVIOUS
<1>2. \A i \in 1 .. L : e(i) \in Happenings /\ ~IsFill(e(i))
  BY <1>1 DEF Happenings, Remark, Words, Roles, Sides, Unset, IsFill
<1>3. \A i \in 1 .. L : ids[i] \in W => Farewell(e(i), ids[i])
  BY DEF Farewell, Remark, Leavings
<1>4. Answers(ids, W) = es
  BY <1>1 DEF Answers
<1> HIDE DEF e, L
<1>5. es \in Seq(Happenings) /\ Len(es) = L /\ \A i \in 1 .. L : es[i] = e(i)
  <2> DEFINE H == Happenings
  <2>1. \A i \in 1 .. L : e(i) \in H
    BY <1>2
  <2> HIDE DEF H
  <2>2. es \in Seq(H) /\ Len(es) = L /\ \A i \in 1 .. L : es[i] = e(i)
    BY <1>1, <2>1
  <2> QED BY <2>2 DEF H
<1> HIDE DEF es
<1>6. \A i \in 1 .. L : ids[i] \in W => Parted(es, ids[i])
  BY <1>3, <1>5 DEF Parted
<1> QED BY <1>2, <1>4, <1>5, <1>6 DEF L

(* Cancels of orders by their ids, whoever holds them.                      *)
LEMMA WithdrawMoves ==
  ASSUME NEW Y, Ready(book, queue, Y), NEW ids \in Seq(Nat), Withdraw(ids)
  PROVE /\ Moves(book, queue, Y, book', queue') /\ mark' = mark
        /\ heard' = Buffered(book'.events) /\ book'.position = book.position
        /\ Working(book', queue') \subseteq Working(book, queue)
        /\ \A i \in 1 .. Len(ids) : ids[i] \notin Working(book', queue')
<1> DEFINE Named(id) == \E i \in DOMAIN ids : ids[i] = id
           s == book.resting
           K == {i \in DOMAIN s : ~Named(s[i].id)}
           M == {i \in DOMAIN queue : ~(queue[i].action = "Entry" /\ Named(queue[i].order.id))}
           W == Working(book, queue)
           es == Answers(ids, W)
           t == Retained(s, K)
           c == [[Quiet EXCEPT !.resting = t] EXCEPT !.events = es]
           r == Retained(queue, M)
<1>1. /\ Quiet \in Books /\ Quiet.position = book.position /\ Quiet.resting = s
      /\ Quiet.kept = <<>> /\ Quiet.ids = book.ids /\ Quiet.ocos = book.ocos
      /\ book \in Books /\ book.ids \in Nat /\ s \in Seq(Orders) /\ queue \in Seq(Actions)
  BY Quieted
<1>2. book' = c /\ queue' = r /\ mark' = mark /\ heard' = Buffered(book'.events)
  BY <1>1 DEF Withdraw, Answers
<1>3. t \in Seq(Orders) /\ \E at : Picks(at, t, s, K)
  BY <1>1, RetainedPicks
<1>4. r \in Seq(Actions) /\ \E bt : Picks(bt, r, queue, M)
  BY <1>1, RetainedPicks
<1>5. /\ es \in Seq(Happenings)
      /\ \A i \in 1 .. Len(ids) : ids[i] \in W => Parted(es, ids[i])
  BY AnswersAre
<1>d. /\ DOMAIN ids = 1 .. Len(ids) /\ DOMAIN s = 1 .. Len(s)
      /\ DOMAIN queue = 1 .. Len(queue)
  BY <1>1
<1> HIDE DEF t, r, es
<1>6. /\ c \in Books /\ c.kept = <<>> /\ c.ids = book.ids /\ c.ocos = book.ocos
      /\ c.position = book.position /\ c.resting = t /\ c.events = es
  BY <1>1, <1>3, <1>5 DEF Books
<1> HIDE DEF c, K, M
<1>7. Drops(book, queue, c, r, K, M)
  BY <1>3, <1>4, <1>6 DEF Drops
<1>8. /\ Ready(c, r, Y) /\ Working(c, r) \subseteq W
      /\ \A id : id \in Working(c, r) <=> Left(id, book, queue, K, M)
      /\ \A id : id \in W <=> Left(id, book, queue, 1 .. Len(s), 1 .. Len(queue))
  BY <1>7, DropKeeps
<1>9. ASSUME NEW id \in W, id \notin Working(c, r) PROVE Parted(es, id)
  <2>1. Left(id, book, queue, 1 .. Len(s), 1 .. Len(queue)) /\ ~Left(id, book, queue, K, M)
    BY <1>8, <1>9
  <2>2. CASE \E k \in 1 .. Len(s) : ~Protective(s[k]) /\ id = s[k].id
    <3>1. PICK k \in 1 .. Len(s) : ~Protective(s[k]) /\ id = s[k].id
      BY <2>2
    <3>2. k \notin K
      BY <2>1, <3>1 DEF Left
    <3>3. Named(id)
      BY <1>d, <3>1, <3>2 DEF K
    <3> QED BY <1>5, <1>d, <3>3
  <2>3. CASE \E k \in 1 .. Len(queue) : queue[k].action = "Entry" /\ id = queue[k].order.id
    <3>1. PICK k \in 1 .. Len(queue) : queue[k].action = "Entry" /\ id = queue[k].order.id
      BY <2>3
    <3>2. k \notin M
      BY <2>1, <3>1 DEF Left
    <3>3. Named(id)
      BY <1>d, <3>1, <3>2 DEF M
    <3> QED BY <1>5, <1>d, <3>3
  <2> QED BY <2>1, <2>2, <2>3 DEF Left
<1>10. ASSUME NEW i \in 1 .. Len(ids), ids[i] \in Working(c, r) PROVE FALSE
  <2>1. Named(ids[i])
    BY <1>d
  <2>2. Left(ids[i], book, queue, K, M)
    BY <1>8, <1>10
  <2>3. CASE \E k \in K \cap (1 .. Len(s)) : ~Protective(s[k]) /\ ids[i] = s[k].id
    BY <2>1, <2>3 DEF K
  <2>4. CASE \E k \in M \cap (1 .. Len(queue)) :
               queue[k].action = "Entry" /\ ids[i] = queue[k].order.id
    BY <2>1, <2>4 DEF M
  <2> QED BY <2>2, <2>3, <2>4 DEF Left
<1>11. book.ids <= c.ids
  BY <1>1, <1>6
<1>12. Moves(book, queue, Y, c, r)
  <2>1. \A id \in Working(book, queue) : id \in Working(c, r) \/ Parted(c.events, id)
    BY <1>6, <1>9
  <2> QED BY <1>8, <1>11, <2>1 DEF Moves
<1> QED BY <1>2, <1>6, <1>8, <1>10, <1>12

-----------------------------------------------------------------------------
(* The invariant of the armed strategies. *)

(* An instance that fired over an order awaits it, or the word of it.       *)
Pends(b, p, i) ==
  \/ b.order \in Working(book, queue)
  \/ Parted(heard, b.order)
  \/ Parted(batch, b.order) /\ Hearsay(agenda, p, i)

AccountInv ==
  /\ mark \in Levels /\ Ready(book, queue, botOrders) /\ botOrders \subseteq 1 .. book.ids
  /\ \A x, y \in botOrders \cap Working(book, queue) : x = y
DeskInv ==
  /\ anchors \in [Panes -> Seq(Instances)] /\ listening \in BOOLEAN
  /\ heard \in Seq(Happenings) /\ batch \in Seq(Happenings) /\ cleanup \in Seq(Nat)
  /\ Timely(agenda, anchors)
BadgeInv ==
  \A p \in Panes : \A i \in 1 .. Len(anchors[p]) :
    /\ Sound(anchors[p][i])
    /\ anchors[p][i].phase = "Fired" =>
         Pends(anchors[p][i], p, i) /\ (agenda = <<>> => listening)
ArmedInv == AccountInv /\ DeskInv /\ BadgeInv

(* What is heard of what an account reports.                                *)
LEMMA BufferedIs ==
  ASSUME heard \in Seq(Happenings), NEW es \in Seq(Happenings)
  PROVE /\ Buffered(es) \in Seq(Happenings)
        /\ \A id : Parted(heard, id) => Parted(Buffered(es), id)
        /\ listening => \A id : Parted(es, id) => Parted(Buffered(es), id)
<1> DEFINE H == Happenings
<1> HIDE DEF H
<1>1. heard \in Seq(H) /\ es \in Seq(H)
  BY DEF H
<1>2. CASE listening
  <2> DEFINE f == heard \o es
  <2>1. /\ f \in Seq(H) /\ Len(f) = Len(heard) + Len(es)
        /\ \A i \in 1 .. Len(heard) : f[i] = heard[i]
        /\ \A i \in 1 .. Len(es) : f[Len(heard) + i] = es[i]
        /\ Len(heard) \in Nat /\ Len(es) \in Nat
    BY <1>1, Joined
  <2>2. Buffered(es) = f
    BY <1>2 DEF Buffered
  <2> HIDE DEF f
  <2>3. /\ \A i \in 1 .. Len(heard) : i \in 1 .. Len(f)
        /\ \A i \in 1 .. Len(es) : Len(heard) + i \in 1 .. Len(f)
    BY <2>1
  <2>4. ASSUME NEW id, Parted(heard, id) PROVE Parted(f, id)
    BY <2>1, <2>3, <2>4 DEF Parted
  <2>5. ASSUME NEW id, Parted(es, id) PROVE Parted(f, id)
    BY <2>1, <2>3, <2>5 DEF Parted
  <2> QED BY <2>1, <2>2, <2>4, <2>5 DEF H
<1>3. CASE ~listening
  BY <1>3 DEF Buffered
<1> QED BY <1>2, <1>3

(* The orders to cancel are ids.                                            *)
LEMMA PendingAre ==
  ASSUME NEW bots \in Seq(Instances)
  PROVE Pending(bots) \in Seq(Nat)
<1> DEFINE S == Instances
           K == {i \in DOMAIN bots : bots[i].phase = "Fired"}
           owing == Retained(bots, K)
<1> HIDE DEF K
<1>1. owing \in Seq(Instances)
  BY RetainedPicks
<1>2. Pending(bots) = [i \in DOMAIN owing |-> owing[i].order]
  BY DEF Pending, K
<1> HIDE DEF owing
<1>3. /\ Len(owing) \in Nat /\ DOMAIN owing = 1 .. Len(owing)
      /\ \A i \in 1 .. Len(owing) : owing[i] \in S
  BY <1>1
<1>4. \A i \in 1 .. Len(owing) : owing[i].order \in Nat
  BY <1>3 DEF Instances
<1> QED BY <1>2, <1>3, <1>4

(* Of the instances in an, none is fired that was not.                      *)
Inherits(an) ==
  \A p \in Panes : \A i \in 1 .. Len(an[p]) :
    /\ Sound(an[p][i])
    /\ an[p][i].phase = "Fired" =>
         \E q \in Panes : \E j \in 1 .. Len(anchors[q]) : an[p][i] = anchors[q][j]

(* And those of one pane.                                                   *)
Inherit(s, p) ==
  \A i \in 1 .. Len(s) :
    /\ Sound(s[i])
    /\ s[i].phase = "Fired" => \E j \in 1 .. Len(anchors[p]) : s[i] = anchors[p][j]

(* As many as there were, or others, on one pane.                           *)
LEMMA PaneInherits ==
  ASSUME DeskInv, BadgeInv, NEW p \in Panes, NEW s \in Seq(Instances), Inherit(s, p)
  PROVE /\ [anchors EXCEPT ![p] = s] \in [Panes -> Seq(Instances)]
        /\ Inherits([anchors EXCEPT ![p] = s])
<1> DEFINE S == Seq(Instances)
           an == [anchors EXCEPT ![p] = s]
<1>1. anchors \in [Panes -> S] /\ s \in S
  BY DEF DeskInv
<1> HIDE DEF S
<1>2. an \in [Panes -> S] /\ \A q \in Panes : an[q] = IF q = p THEN s ELSE anchors[q]
  BY <1>1
<1> HIDE DEF an
<1>3. Inherits(an)
  <2> SUFFICES ASSUME NEW q \in Panes, NEW i \in 1 .. Len(an[q])
               PROVE /\ Sound(an[q][i])
                     /\ an[q][i].phase = "Fired" =>
                          \E x \in Panes : \E j \in 1 .. Len(anchors[x]) :
                            an[q][i] = anchors[x][j]
    BY DEF Inherits
  <2>1. CASE q = p
    BY <1>2, <2>1 DEF Inherit
  <2>2. CASE q # p
    <3>1. an[q] = anchors[q]
      BY <1>2, <2>2
    <3> QED BY <3>1 DEF BadgeInv
  <2> QED BY <2>1, <2>2
<1> QED BY <1>2, <1>3 DEF an, S

(* The others on a pane, and everyone there disarmed.                       *)
LEMMA PaneKeeps ==
  ASSUME DeskInv, BadgeInv, NEW p \in Panes
  PROVE /\ \A d : Others(p, d) \in Seq(Instances) /\ Inherit(Others(p, d), p)
        /\ \A d : Riding(p, d) \in Seq(Instances) /\ Owed(p, d) \in Seq(Nat)
        /\ anchors[p] \in Seq(Instances) /\ Pending(anchors[p]) \in Seq(Nat)
        /\ DisarmAll(p) \in Seq(Instances) /\ Inherit(DisarmAll(p), p)
        /\ \A i \in 1 .. Len(DisarmAll(p)) : DisarmAll(p)[i].phase # "Fired"
<1> DEFINE s == anchors[p]
<1>1. s \in Seq(Instances) /\ DOMAIN s = 1 .. Len(s) /\ Len(s) \in Nat
  BY DEF DeskInv
<1>2. \A i \in 1 .. Len(s) : Sound(s[i]) /\ s[i] \in Instances
  BY DEF BadgeInv, Sound
<1>3. ASSUME NEW d PROVE Others(p, d) \in Seq(Instances) /\ Inherit(Others(p, d), p)
  <2> DEFINE K == DOMAIN s \ On(p, d)
             r == Retained(s, K)
  <2>1. Others(p, d) = r
    BY DEF Others
  <2> HIDE DEF K, s
  <2>2. r \in Seq(Instances) /\ \E at : Picks(at, r, s, K)
    BY <1>1, RetainedPicks
  <2> HIDE DEF r
  <2>3. \A i \in 1 .. Len(r) : \E k \in 1 .. Len(s) : r[i] = s[k]
    BY <2>2 DEF Picks
  <2>4. Inherit(r, p)
    BY <1>2, <2>3 DEF Inherit, s
  <2> QED BY <2>1, <2>2, <2>4
<1>4. ASSUME NEW d PROVE Riding(p, d) \in Seq(Instances) /\ Owed(p, d) \in Seq(Nat)
  <2> DEFINE K == On(p, d)
             r == Retained(s, K)
  <2>1. Riding(p, d) = r
    BY DEF Riding
  <2> HIDE DEF K, s
  <2>2. r \in Seq(Instances)
    BY <1>1, RetainedPicks
  <2>3. Owed(p, d) = Pending(r)
    BY <2>1 DEF Owed
  <2> HIDE DEF r
  <2> QED BY <2>1, <2>2, <2>3, PendingAre
<1>5. Pending(s) \in Seq(Nat)
  <2> HIDE DEF s
  <2> QED BY <1>1, PendingAre
<1>6. /\ DisarmAll(p) \in Seq(Instances) /\ Inherit(DisarmAll(p), p)
      /\ \A i \in 1 .. Len(DisarmAll(p)) : DisarmAll(p)[i].phase # "Fired"
  <2> DEFINE e(i) == Disarmed(s[i])
             r == [i \in 1 .. Len(s) |-> e(i)]
             S == Instances
  <2>1. \A i \in 1 .. Len(s) : e(i) \in S /\ e(i).phase = "Disarmed" /\ e(i).order = 0
    BY <1>2 DEF Disarmed, Instances, Phases, Watching, Unset
  <2>2. \A i \in 1 .. Len(s) : Sound(e(i)) /\ e(i).phase # "Fired"
    BY <2>1 DEF Sound
  <2>3. DisarmAll(p) = r
    BY <1>1 DEF DisarmAll
  <2> HIDE DEF S, e, s
  <2>4. r \in Seq(S) /\ Len(r) = Len(s) /\ \A i \in 1 .. Len(s) : r[i] = e(i)
    BY <1>1, <2>1
  <2> HIDE DEF r
  <2>5. Inherit(r, p) /\ \A i \in 1 .. Len(r) : r[i].phase # "Fired"
    BY <2>2, <2>4 DEF Inherit
  <2> QED BY <2>3, <2>4, <2>5 DEF S
<1> QED BY <1>1, <1>3, <1>4, <1>5, <1>6

(* One instance of a pane becomes b.                                        *)
LEMMA OneInherits ==
  ASSUME DeskInv, BadgeInv, NEW p \in Panes, NEW i \in 1 .. Len(anchors[p]), NEW b, Sound(b),
         b.phase # "Fired"
  PROVE /\ [anchors EXCEPT ![p][i] = b] \in [Panes -> Seq(Instances)]
        /\ Inherits([anchors EXCEPT ![p][i] = b])
<1> DEFINE s == anchors[p]
           r == [s EXCEPT ![i] = b]
           S == Instances
<1>1. s \in Seq(S) /\ b \in S /\ \A j \in 1 .. Len(s) : Sound(s[j])
  BY DEF DeskInv, BadgeInv, Sound
<1>2. [anchors EXCEPT ![p][i] = b] = [anchors EXCEPT ![p] = r]
  OBVIOUS
<1> HIDE DEF S
<1>s. i \in 1 .. Len(s)
  OBVIOUS
<1> HIDE DEF s
<1>3. /\ r \in Seq(S) /\ Len(r) = Len(s)
      /\ \A j \in 1 .. Len(s) : r[j] = IF j = i THEN b ELSE s[j]
  BY <1>1, <1>s
<1> HIDE DEF r
<1>4. Inherit(r, p)
  BY <1>1, <1>3 DEF Inherit, s
<1>5. r \in Seq(Instances)
  BY <1>3 DEF S
<1> QED BY <1>2, <1>4, <1>5, PaneInherits

-----------------------------------------------------------------------------
(* Between prints. *)

(* What an instance could wait for, it still can.                           *)
Remembers ==
  \A id : id \in Working(book, queue) \/ Parted(heard, id)
            => id \in Working(book', queue') \/ Parted(heard', id)

(* The account moves, and whoever listens hears what it reports.            *)
LEMMA ReportsReach ==
  ASSUME DeskInv, listening, NEW Y, Moves(book, queue, Y, book', queue')
  PROVE \A id : id \in Working(book, queue) \/ Parted(heard, id)
                 => id \in Working(book', queue') \/ Parted(Buffered(book'.events), id)
<1>1. book'.events \in Seq(Happenings) /\ heard \in Seq(Happenings)
  BY DEF Moves, Ready, Books, DeskInv
<1>2. /\ \A id : Parted(heard, id) => Parted(Buffered(book'.events), id)
      /\ \A id : Parted(book'.events, id) => Parted(Buffered(book'.events), id)
  BY <1>1, BufferedIs
<1>3. \A id \in Working(book, queue) : id \in Working(book', queue') \/ Parted(book'.events, id)
  BY DEF Moves
<1> QED BY <1>2, <1>3

(* One entry of all the strategies' stays one.                              *)
LEMMA OneEntryStays ==
  ASSUME AccountInv, Moves(book, queue, botOrders, book', queue'), botOrders' = botOrders,
         mark' \in Levels
  PROVE AccountInv'
<1>1. /\ Ready(book', queue', botOrders) /\ book.ids <= book'.ids
      /\ \A id \in Working(book', queue') : id \in Working(book, queue) \/ book.ids < id
  BY DEF Moves
<1>2. book.ids \in Nat /\ book'.ids \in Nat
  BY <1>1 DEF AccountInv, Ready, Books
<1>3. \A id \in botOrders : id \in 1 .. book.ids
  BY DEF AccountInv
<1>4. botOrders' \subseteq 1 .. book'.ids
  BY <1>1, <1>2, <1>3
<1>5. \A id \in botOrders \cap Working(book', queue') : id \in Working(book, queue)
  BY <1>1, <1>2, <1>3
<1>6. \A x, y \in botOrders' \cap Working(book', queue') : x = y
  BY <1>5 DEF AccountInv
<1> QED BY <1>1, <1>4, <1>6 DEF AccountInv

(* Whatever else is done between prints.                                    *)
LEMMA QuietStep ==
  ASSUME ArmedInv, Quiescent, Moves(book, queue, botOrders, book', queue'),
         mark' \in Levels, heard' \in Seq(Happenings), cleanup' \in Seq(Nat), listening' \in BOOLEAN,
         anchors' \in [Panes -> Seq(Instances)], Inherits(anchors'),
         \A p \in Panes : \A i \in 1 .. Len(anchors'[p]) :
           anchors'[p][i].phase = "Fired" /\ listening => Remembers /\ listening'
  PROVE ArmedInv'
<1>1. /\ agenda = <<>> /\ agenda' = agenda /\ batch' = batch /\ botOrders' = botOrders
  BY DEF Quiescent
<1>2. AccountInv'
  BY <1>1, OneEntryStays DEF ArmedInv
<1>3. Timely(agenda', anchors')
  <2> DEFINE no == <<>>
  <2>1. no \in Seq(Callings) /\ 1 .. Len(no) = {}
    OBVIOUS
  <2>2. agenda' = no
    BY <1>1
  <2> HIDE DEF no
  <2> QED BY <2>1, <2>2 DEF Timely
<1>4. DeskInv'
  BY <1>1, <1>3 DEF ArmedInv, DeskInv
<1>h. \A p, i : ~Hearsay(agenda, p, i)
  <2> DEFINE no == <<>>
  <2>1. 1 .. Len(no) = {} /\ agenda = no
    BY <1>1
  <2> HIDE DEF no
  <2> QED BY <2>1 DEF Hearsay
<1>5. ASSUME NEW p \in Panes, NEW i \in 1 .. Len(anchors'[p]), anchors'[p][i].phase = "Fired"
      PROVE Pends(anchors[p][i], p, i)' /\ listening'
  <2> DEFINE b == anchors'[p][i]
  <2>0. PICK q \in Panes : \E j \in 1 .. Len(anchors[q]) : b = anchors[q][j]
    BY <1>5 DEF Inherits
  <2>1. PICK j \in 1 .. Len(anchors[q]) : b = anchors[q][j]
    BY <2>0
  <2>2. Pends(b, q, j) /\ listening
    BY <1>1, <1>5, <2>1 DEF ArmedInv, BadgeInv
  <2>3. b.order \in Working(book, queue) \/ Parted(heard, b.order)
    BY <1>h, <2>2 DEF Pends
  <2>4. Remembers /\ listening'
    BY <1>5, <2>2
  <2>5. b.order \in Working(book', queue') \/ Parted(heard', b.order)
    BY <2>3, <2>4 DEF Remembers
  <2> QED BY <2>4, <2>5 DEF Pends
<1>6. BadgeInv'
  BY <1>1, <1>5 DEF BadgeInv, Inherits
<1> QED BY <1>2, <1>4, <1>6 DEF ArmedInv

(* The account says what it does, and the instances stay as they are or     *)
(* are fewer.                                                               *)
LEMMA ReportedStep ==
  ASSUME ArmedInv, Quiescent, Moves(book, queue, botOrders, book', queue'),
         mark' \in Levels, heard' = Buffered(book'.events), cleanup' \in Seq(Nat),
         listening' = listening \/ listening' = TRUE,
         anchors' \in [Panes -> Seq(Instances)], Inherits(anchors')
  PROVE ArmedInv'
<1>1. book'.events \in Seq(Happenings) /\ heard \in Seq(Happenings) /\ listening \in BOOLEAN
  BY DEF Moves, Ready, Books, ArmedInv, DeskInv
<1>2. heard' \in Seq(Happenings) /\ listening' \in BOOLEAN
  BY <1>1, BufferedIs
<1>3. listening => Remembers /\ listening'
  BY ReportsReach DEF ArmedInv, Remembers
<1> QED BY <1>2, <1>3, QuietStep

(* Nothing is done to the account.                                          *)
LEMMA AsideStep ==
  ASSUME ArmedInv, Quiescent, UNCHANGED <<simVars, listening, heard>>, cleanup' \in Seq(Nat),
         anchors' \in [Panes -> Seq(Instances)], Inherits(anchors')
  PROVE ArmedInv'
<1>1. /\ mark' = mark /\ queue' = queue /\ book' = book
      /\ heard' = heard /\ listening' = listening
  BY DEF simVars
<1>2. /\ mark \in Levels /\ Ready(book, queue, botOrders) /\ book.ids \in Nat
      /\ heard \in Seq(Happenings) /\ listening \in BOOLEAN
  BY DEF ArmedInv, AccountInv, DeskInv, Ready, Books
<1>3. Moves(book, queue, botOrders, book', queue')
  BY <1>1, <1>2 DEF Moves
<1>4. Remembers
  BY <1>1 DEF Remembers
<1> QED BY <1>1, <1>2, <1>3, <1>4, QuietStep

(* The instances may stay.                                                  *)
LEMMA SameInherits ==
  ASSUME ArmedInv, anchors' = anchors
  PROVE anchors' \in [Panes -> Seq(Instances)] /\ Inherits(anchors')
BY DEF ArmedInv, DeskInv, BadgeInv, Inherits

(* The trader's commands, and a backfill.                                   *)
LEMMA TradeStep ==
  ASSUME ArmedInv, Trade
  PROVE ArmedInv'
<1>1. /\ Quiescent /\ Command /\ heard' = Buffered(book'.events)
      /\ anchors' = anchors /\ listening' = listening /\ cleanup' = cleanup
  BY DEF Trade, Idle
<1>2. /\ Ready(book, queue, botOrders) /\ mark \in Levels /\ cleanup \in Seq(Nat)
      /\ book \in Books /\ book.ids \in Nat /\ botOrders \subseteq 1 .. book.ids
  BY DEF ArmedInv, AccountInv, DeskInv, Ready, Books
<1>3. book.ids + 1 \notin botOrders
  BY <1>2
<1>4. Moves(book, queue, botOrders, book', queue')
  <2>1. Commanded(book, queue, botOrders, book', queue')
    BY <1>1, <1>2, <1>3, CommandKeeps
  <2> QED BY <1>2, <2>1, CommandMoves
<1>5. mark' = mark
  BY <1>1, MarkStays
<1> QED BY <1>1, <1>2, <1>4, <1>5, ReportedStep, SameInherits

(* A backfill moves the mark alone.                                         *)
LEMMA BackfillStep ==
  ASSUME ArmedInv, NEW price \in Prices, Backfill(price)
  PROVE ArmedInv'
<1>1. /\ Quiescent /\ Seed(price) /\ heard' = heard
      /\ anchors' = anchors /\ listening' = listening /\ cleanup' = cleanup
  BY DEF Backfill, Idle
<1>2. /\ Ready(book, queue, botOrders) /\ cleanup \in Seq(Nat) /\ book \in Books
      /\ heard \in Seq(Happenings) /\ listening \in BOOLEAN
  BY DEF ArmedInv, AccountInv, DeskInv, Ready, Books
<1>3. Moves(book, queue, botOrders, book', queue')
  BY <1>1, <1>2, SeedKeeps, CommandMoves
<1>4. mark' \in Levels
  BY <1>1 DEF Seed, Levels
<1>5. Working(book', queue') = Working(book, queue)
  <2>1. book' = Quiet /\ queue' = queue /\ Quiet.resting = book.resting
    BY <1>1, <1>2, Quieted DEF Seed
  <2> QED BY <2>1 DEF Working
<1>6. Remembers
  BY <1>1, <1>5 DEF Remembers
<1> QED BY <1>1, <1>2, <1>3, <1>4, <1>6, QuietStep, SameInherits

(* Arming.                                                                  *)
LEMMA ArmStep ==
  ASSUME ArmedInv, NEW p \in Panes, NEW d \in Drawings[p], NEW f \in Presets, Arm(p, d, f)
  PROVE ArmedInv'
<1> DEFINE b == [drawing |-> d, preset |-> f, phase |-> "Armed", order |-> Unset]
           s == Others(p, d)
           r == Append(s, b)
           S == Instances
<1>1. /\ Quiescent /\ anchors' = [anchors EXCEPT ![p] = r] /\ Withdraw(Owed(p, d))
      /\ listening' = TRUE /\ cleanup' = cleanup
  BY DEF Arm, Idle
<1>2. /\ Ready(book, queue, botOrders) /\ mark \in Levels /\ cleanup \in Seq(Nat)
      /\ DeskInv /\ BadgeInv
  BY DEF ArmedInv, AccountInv, DeskInv
<1>3. s \in Seq(S) /\ Inherit(s, p) /\ Owed(p, d) \in Seq(Nat)
  BY <1>2, PaneKeeps
<1>4. b \in S /\ Sound(b) /\ b.phase # "Fired"
  <2>1. d \in UNION Range(Drawings)
    BY PanesAre
  <2> QED BY <2>1 DEF Instances, Phases, Watching, Unset, Sound
<1>5. /\ Moves(book, queue, botOrders, book', queue') /\ mark' = mark
      /\ heard' = Buffered(book'.events)
  BY <1>1, <1>2, <1>3, WithdrawMoves
<1> HIDE DEF b, s, S
<1>6. /\ r \in Seq(S) /\ Len(r) = Len(s) + 1 /\ r[Len(s) + 1] = b /\ Len(s) \in Nat
      /\ \A i \in 1 .. Len(s) : r[i] = s[i]
  BY <1>3, <1>4
<1> HIDE DEF r
<1>7. \A i \in 1 .. Len(r) : i \in 1 .. Len(s) \/ i = Len(s) + 1
  BY <1>6
<1>8. Inherit(r, p)
  BY <1>3, <1>4, <1>6, <1>7 DEF Inherit
<1>9. anchors' \in [Panes -> Seq(Instances)] /\ Inherits(anchors')
  <2>1. r \in Seq(Instances)
    BY <1>6 DEF S
  <2> QED BY <1>1, <1>2, <1>8, <2>1, PaneInherits
<1> QED BY <1>1, <1>2, <1>5, <1>9, ReportedStep

(* The drawing menu and the drawing's deletion.                             *)
LEMMA ParkStep ==
  ASSUME ArmedInv, Quiescent, NEW p \in Panes, NEW d, Park(p, d),
         anchors' \in [Panes -> Seq(Instances)], Inherits(anchors')
  PROVE ArmedInv'
<1>1. cleanup' = cleanup \o Owed(p, d) /\ UNCHANGED <<simVars, listening, heard>>
  BY DEF Park
<1>2. DeskInv /\ BadgeInv /\ cleanup \in Seq(Nat)
  BY DEF ArmedInv, DeskInv
<1>3. Owed(p, d) \in Seq(Nat)
  BY <1>2, PaneKeeps
<1>4. cleanup' \in Seq(Nat)
  <2> DEFINE N == Nat
  <2>1. cleanup \in Seq(N) /\ Owed(p, d) \in Seq(N)
    BY <1>2, <1>3
  <2> HIDE DEF N
  <2>2. cleanup' \in Seq(N)
    BY <1>1, <2>1, Joined
  <2> QED BY <2>2 DEF N
<1> QED BY <1>1, <1>4, AsideStep

(* Disarming parks the cancel.                                              *)
LEMMA DisarmStep ==
  ASSUME ArmedInv, NEW p \in Panes, NEW i \in DOMAIN anchors[p], Disarm(p, i)
  PROVE ArmedInv'
<1> DEFINE b == Disarmed(anchors[p][i])
           d == anchors[p][i].drawing
<1>1. /\ Quiescent /\ anchors' = [anchors EXCEPT ![p][i] = b] /\ Park(p, d)
  BY DEF Disarm, Idle
<1>2. DeskInv /\ BadgeInv /\ i \in 1 .. Len(anchors[p])
  BY DEF ArmedInv, DeskInv
<1>3. Sound(b) /\ b.phase # "Fired"
  <2>1. anchors[p][i] \in Instances
    BY <1>2 DEF BadgeInv, Sound
  <2>2. b \in Instances /\ b.phase = "Disarmed" /\ b.order = 0
    BY <2>1 DEF Disarmed, Instances, Phases, Watching, Unset
  <2> QED BY <2>2 DEF Sound
<1> HIDE DEF b, d
<1>4. anchors' \in [Panes -> Seq(Instances)] /\ Inherits(anchors')
  BY <1>1, <1>2, <1>3, OneInherits
<1> QED BY <1>1, <1>4, ParkStep

(* So does deleting the drawing.                                            *)
LEMMA RemoveStep ==
  ASSUME ArmedInv, NEW p \in Panes, NEW d \in Drawings[p], RemoveForDrawing(p, d)
  PROVE ArmedInv'
<1>1. /\ Quiescent /\ anchors' = [anchors EXCEPT ![p] = Others(p, d)] /\ Park(p, d)
  BY DEF RemoveForDrawing, Idle
<1>2. DeskInv /\ BadgeInv
  BY DEF ArmedInv
<1>3. Others(p, d) \in Seq(Instances) /\ Inherit(Others(p, d), p)
  BY <1>2, PaneKeeps
<1>4. anchors' \in [Panes -> Seq(Instances)] /\ Inherits(anchors')
  BY <1>1, <1>2, <1>3, PaneInherits
<1> QED BY <1>1, <1>4, ParkStep

(* Rearming touches the badge alone.                                        *)
LEMMA RearmStep ==
  ASSUME ArmedInv, NEW p \in Panes, NEW i \in DOMAIN anchors[p], RearmInstance(p, i)
  PROVE ArmedInv'
<1> DEFINE b == [anchors[p][i] EXCEPT !.phase = "Armed"]
<1>1. /\ Quiescent /\ anchors' = [anchors EXCEPT ![p][i] = b]
      /\ UNCHANGED <<simVars, listening, heard, cleanup>> /\ anchors[p][i].phase \notin Watching
  BY DEF RearmInstance, Idle
<1>2. DeskInv /\ BadgeInv /\ i \in 1 .. Len(anchors[p]) /\ cleanup' \in Seq(Nat)
  BY <1>1 DEF ArmedInv, DeskInv
<1>3. Sound(b) /\ b.phase # "Fired"
  <2>1. anchors[p][i] \in Instances /\ anchors[p][i].order = 0
    BY <1>1, <1>2 DEF BadgeInv, Sound, Watching
  <2>2. b \in Instances /\ b.phase = "Armed" /\ b.order = 0
    BY <2>1 DEF Instances, Phases, Watching
  <2> QED BY <2>2 DEF Sound
<1> HIDE DEF b
<1>4. anchors' \in [Panes -> Seq(Instances)] /\ Inherits(anchors')
  BY <1>1, <1>2, <1>3, OneInherits
<1> QED BY <1>1, <1>2, <1>4, AsideStep

(* The end of the frame, and a change of the bars under the instances.      *)
LEMMA CleanupStep ==
  ASSUME ArmedInv, ApplyCleanup
  PROVE ArmedInv'
<1>1. /\ Quiescent /\ Withdraw(cleanup) /\ cleanup' = <<>>
      /\ anchors' = anchors /\ listening' = listening
  BY DEF ApplyCleanup, Idle
<1>2. Ready(book, queue, botOrders) /\ mark \in Levels /\ cleanup \in Seq(Nat)
  BY DEF ArmedInv, AccountInv, DeskInv
<1>3. /\ Moves(book, queue, botOrders, book', queue') /\ mark' = mark
      /\ heard' = Buffered(book'.events)
  BY <1>1, <1>2, WithdrawMoves
<1>4. cleanup' \in Seq(Nat)
  BY <1>1
<1> QED BY <1>1, <1>2, <1>3, <1>4, ReportedStep, SameInherits

(* A new bar rule withdraws what was pending.                               *)
LEMMA BarSpecStep ==
  ASSUME ArmedInv, NEW p \in Panes, ChangeBarSpec(p)
  PROVE ArmedInv'
<1>1. /\ Quiescent /\ anchors' = [anchors EXCEPT ![p] = DisarmAll(p)]
      /\ Withdraw(Pending(anchors[p])) /\ listening' = listening /\ cleanup' = cleanup
  BY DEF ChangeBarSpec, Idle
<1>2. /\ Ready(book, queue, botOrders) /\ mark \in Levels /\ cleanup \in Seq(Nat)
      /\ DeskInv /\ BadgeInv
  BY DEF ArmedInv, AccountInv, DeskInv
<1>3. /\ Pending(anchors[p]) \in Seq(Nat) /\ DisarmAll(p) \in Seq(Instances)
      /\ Inherit(DisarmAll(p), p)
  BY <1>2, PaneKeeps
<1>4. /\ Moves(book, queue, botOrders, book', queue') /\ mark' = mark
      /\ heard' = Buffered(book'.events)
  BY <1>1, <1>2, <1>3, WithdrawMoves
<1>5. anchors' \in [Panes -> Seq(Instances)] /\ Inherits(anchors')
  BY <1>1, <1>2, <1>3, PaneInherits
<1> QED BY <1>1, <1>2, <1>4, <1>5, ReportedStep

(* A recorded day disarms and withdraws nothing.                            *)
LEMMA RecordedDayStep ==
  ASSUME ArmedInv, NEW p \in Panes, LoadRecordedDay(p)
  PROVE ArmedInv'
<1>1. /\ Quiescent /\ anchors' = [anchors EXCEPT ![p] = DisarmAll(p)]
      /\ UNCHANGED <<simVars, listening, heard, cleanup>>
  BY DEF LoadRecordedDay
<1>2. DeskInv /\ BadgeInv /\ cleanup' \in Seq(Nat)
  BY <1>1 DEF ArmedInv, DeskInv
<1>3. DisarmAll(p) \in Seq(Instances) /\ Inherit(DisarmAll(p), p)
  BY <1>2, PaneKeeps
<1>5. anchors' \in [Panes -> Seq(Instances)] /\ Inherits(anchors')
  BY <1>1, <1>2, <1>3, PaneInherits
<1> QED BY <1>1, <1>2, <1>5, AsideStep

(* The market is reset.                                                     *)
LEMMA ResetMarketStep ==
  ASSUME ArmedInv, ResetMarket
  PROVE ArmedInv'
<1>1. /\ Quiescent /\ anchors' = [p \in Panes |-> DisarmAll(p)] /\ heard' = <<>>
      /\ listening' = listening /\ cleanup' = cleanup
      /\ IF mark = Unset THEN UNCHANGED simVars ELSE Reset
  BY DEF ResetMarket, Idle
<1>2. /\ Ready(book, queue, botOrders) /\ mark \in Levels /\ cleanup \in Seq(Nat)
      /\ DeskInv /\ BadgeInv /\ listening \in BOOLEAN /\ book.ids \in Nat /\ book \in Books
      /\ botOrders \subseteq 1 .. book.ids
  BY DEF ArmedInv, AccountInv, DeskInv, Ready, Books
<1>3. Moves(book, queue, botOrders, book', queue') /\ mark' \in Levels
  <2>1. CASE mark = Unset
    <3>1. book' = book /\ queue' = queue /\ mark' = mark
      BY <1>1, <2>1 DEF simVars
    <3> QED BY <1>2, <3>1 DEF Moves
  <2>2. CASE mark # Unset
    <3>1. Reset /\ 0 \notin botOrders
      BY <1>1, <1>2, <2>2
    <3>2. /\ Ready(book', queue', botOrders) /\ Accounted(book, queue, botOrders, book', queue')
          /\ Working(book', queue') = {}
      BY <1>2, <3>1, ResetKeeps
    <3>3. book.ids <= book'.ids /\ Spoken(Working(book, queue), Working(book', queue'), book'.events)
      BY <3>2 DEF Accounted, Account
    <3>4. mark' \in Levels
      BY <3>1, LevelsAreNat DEF Reset
    <3> QED BY <3>2, <3>3, <3>4, SpokenParts DEF Moves
  <2> QED BY <2>1, <2>2
<1>4. anchors' \in [Panes -> Seq(Instances)] /\ Inherits(anchors')
      /\ \A p \in Panes : \A i \in 1 .. Len(anchors'[p]) : anchors'[p][i].phase # "Fired"
  <2>1. \A p \in Panes : /\ DisarmAll(p) \in Seq(Instances) /\ Inherit(DisarmAll(p), p)
                         /\ \A i \in 1 .. Len(DisarmAll(p)) : DisarmAll(p)[i].phase # "Fired"
    BY <1>2, PaneKeeps
  <2> DEFINE T == Seq(Instances)
             e(p) == DisarmAll(p)
  <2> HIDE DEF T, e
  <2>2. anchors' = [p \in Panes |-> e(p)] /\ \A p \in Panes : e(p) \in T
    BY <1>1, <2>1 DEF e, T
  <2>3. anchors' \in [Panes -> T] /\ \A p \in Panes : anchors'[p] = DisarmAll(p)
    BY <2>2 DEF e
  <2>4. Inherits(anchors')
    BY <2>1, <2>3 DEF Inherits, Inherit
  <2> QED BY <2>1, <2>3, <2>4 DEF T
<1>5. heard' \in Seq(Happenings)
  BY <1>1
<1> QED BY <1>1, <1>2, <1>3, <1>4, <1>5, QuietStep

-----------------------------------------------------------------------------
(* The evaluation. *)

(* What is left to do, once the first call has made its instance b.         *)
LEMMA CallMade ==
  ASSUME DeskInv, NEW kind \in {"deliver", "judge"}, Due(kind), NEW b \in Instances, Becomes(b)
  PROVE LET p == Head(agenda).pane
            i == Head(agenda).at
        IN  /\ p \in Panes /\ i \in 1 .. Len(anchors[p]) /\ Called = anchors[p][i]
            /\ anchors' \in [Panes -> Seq(Instances)]
            /\ \A q \in Panes : Len(anchors'[q]) = Len(anchors[q])
            /\ \A q \in Panes : \A j \in 1 .. Len(anchors[q]) :
                 anchors'[q][j] = IF q = p /\ j = i THEN b ELSE anchors[q][j]
            /\ Timely(agenda', anchors') /\ agenda' # <<>>
            /\ \A q, j : /\ Hearsay(agenda, q, j)
                         /\ kind = "judge" \/ q # p \/ j # i
                         => Hearsay(agenda', q, j)
<1> DEFINE c == Head(agenda)
           p == c.pane
           i == c.at
           s == anchors[p]
           r == [s EXCEPT ![i] = b]
           C == Callings
           S == Instances
           T == Seq(S)
<1>1. /\ agenda \in Seq(C) /\ agenda # <<>> /\ c.kind = kind /\ Called = anchors[p][i]
      /\ anchors' = [anchors EXCEPT ![p][i] = b] /\ agenda' = Tail(agenda)
      /\ anchors \in [Panes -> T]
      /\ \A j \in 1 .. Len(agenda) :
           /\ (agenda[j].kind = "listen") = (j = Len(agenda))
           /\ agenda[j].kind # "listen" =>
                agenda[j].pane \in Panes /\ agenda[j].at \in 1 .. Len(anchors[agenda[j].pane])
  BY DEF Due, Becomes, DeskInv, Timely, Called
<1> HIDE DEF C, S
<1>2. /\ Len(agenda) \in Nat /\ Len(agenda) >= 1 /\ c = agenda[1]
      /\ agenda' \in Seq(C) /\ Len(agenda') = Len(agenda) - 1
      /\ \A j \in 1 .. Len(agenda') : agenda'[j] = agenda[j + 1]
  BY <1>1
<1> HIDE DEF c
<1>3. Len(agenda) # 1 /\ p \in Panes /\ i \in 1 .. Len(s)
  <2>0. kind # "listen"
    OBVIOUS
  <2>1. 1 \in 1 .. Len(agenda)
    BY <1>2
  <2>3. agenda[1] = c
    BY <1>2
  <2>4. agenda[1].kind = kind
    BY <1>1, <2>3
  <2>5. agenda[1].kind # "listen"
    BY <2>0, <2>4
  <2>2. /\ (agenda[1].kind = "listen") = (1 = Len(agenda))
        /\ agenda[1].pane \in Panes /\ agenda[1].at \in 1 .. Len(anchors[agenda[1].pane])
    BY <1>1, <2>1, <2>5
  <2> QED BY <2>1, <2>2, <2>3, <2>5
<1>4. /\ Len(agenda') \in Nat /\ Len(agenda') >= 1
      /\ \A j \in 1 .. Len(agenda') : j + 1 \in 1 .. Len(agenda)
      /\ \A j \in 1 .. Len(agenda') : (j = Len(agenda')) = (j + 1 = Len(agenda))
      /\ \A j \in 1 .. Len(agenda) : j = 1 \/ (j - 1 \in 1 .. Len(agenda') /\ (j - 1) + 1 = j)
  BY <1>2, <1>3
<1>5. s \in T /\ s \in Seq(S) /\ b \in S
  BY <1>1, <1>3 DEF S
<1> HIDE DEF s, p, i
<1>6. /\ r \in Seq(S) /\ Len(r) = Len(s)
      /\ \A j \in 1 .. Len(s) : r[j] = IF j = i THEN b ELSE s[j]
  BY <1>3, <1>5
<1>7. anchors' = [anchors EXCEPT ![p] = r]
  BY <1>1 DEF s
<1> HIDE DEF r
<1>8. /\ anchors' \in [Panes -> T]
      /\ \A q \in Panes : anchors'[q] = IF q = p THEN r ELSE anchors[q]
  BY <1>1, <1>3, <1>6, <1>7
<1>9. /\ \A q \in Panes : Len(anchors'[q]) = Len(anchors[q])
      /\ \A q \in Panes : \A j \in 1 .. Len(anchors[q]) :
           anchors'[q][j] = IF q = p /\ j = i THEN b ELSE anchors[q][j]
  BY <1>6, <1>8 DEF s
<1>10. Timely(agenda', anchors')
  <2>1. ASSUME NEW j \in 1 .. Len(agenda')
        PROVE /\ (agenda'[j].kind = "listen") = (j = Len(agenda'))
              /\ agenda'[j].kind # "listen" =>
                   /\ agenda'[j].pane \in Panes
                   /\ agenda'[j].at \in 1 .. Len(anchors'[agenda'[j].pane])
    <3>1. agenda'[j] = agenda[j + 1] /\ j + 1 \in 1 .. Len(agenda)
      BY <1>2, <1>4
    <3> QED BY <1>1, <1>4, <1>9, <3>1
  <2> QED BY <1>2, <2>1 DEF Timely, C
<1>11. agenda' # <<>>
  BY <1>2, <1>4
<1>12. ASSUME NEW q, NEW j, Hearsay(agenda, q, j), kind = "judge" \/ q # p \/ j # i
       PROVE Hearsay(agenda', q, j)
  <2>0. Hearsay(agenda, q, j)
    BY <1>12
  <2>1. PICK m \in 1 .. Len(agenda) :
          agenda[m].kind = "deliver" /\ agenda[m].pane = q /\ agenda[m].at = j
    BY <2>0 DEF Hearsay
  <2>2. m # 1
    <3> SUFFICES ASSUME m = 1 PROVE FALSE
      OBVIOUS
    <3>1. c.kind = "deliver" /\ c.pane = q /\ c.at = j
      BY <1>2, <2>1
    <3>2. kind = "deliver" /\ p = q /\ i = j
      BY <1>1, <3>1 DEF p, i, c
    <3> QED BY <1>12, <3>2
  <2>3. m - 1 \in 1 .. Len(agenda') /\ agenda'[m - 1] = agenda[m]
    BY <1>2, <1>4, <2>2
  <2> QED BY <2>1, <2>3 DEF Hearsay
<1>13. p \in Panes /\ i \in 1 .. Len(anchors[p]) /\ Called = anchors[p][i]
  BY <1>1, <1>3 DEF s
<1> QED BY <1>8, <1>9, <1>10, <1>11, <1>12, <1>13 DEF p, i, c, T, S

(* What an instance may wait for after a call.                              *)
LEMMA CallStep ==
  ASSUME ArmedInv, NEW kind \in {"deliver", "judge"}, Due(kind), NEW b, Sound(b), Becomes(b),
         AccountInv', heard' \in Seq(Happenings), Remembers,
         b.phase = "Fired" =>
           \/ b.order \in Working(book', queue') \/ Parted(heard', b.order)
           \/ /\ Parted(batch, b.order) /\ kind = "judge"
              /\ Hearsay(agenda, Head(agenda).pane, Head(agenda).at)
  PROVE ArmedInv'
<1> DEFINE p == Head(agenda).pane
           i == Head(agenda).at
<1>1. /\ p \in Panes /\ i \in 1 .. Len(anchors[p]) /\ Called = anchors[p][i]
      /\ anchors' \in [Panes -> Seq(Instances)]
      /\ \A q \in Panes : Len(anchors'[q]) = Len(anchors[q])
      /\ \A q \in Panes : \A j \in 1 .. Len(anchors[q]) :
           anchors'[q][j] = IF q = p /\ j = i THEN b ELSE anchors[q][j]
      /\ Timely(agenda', anchors') /\ agenda' # <<>>
      /\ \A q, j : /\ Hearsay(agenda, q, j)
                   /\ kind = "judge" \/ q # p \/ j # i
                   => Hearsay(agenda', q, j)
  BY CallMade DEF ArmedInv, Sound
<1>h. b.phase = "Fired" => \/ b.order \in Working(book', queue') \/ Parted(heard', b.order)
                           \/ Parted(batch, b.order) /\ kind = "judge" /\ Hearsay(agenda, p, i)
  OBVIOUS
<1> HIDE DEF p, i
<1>2. listening' = listening /\ batch' = batch /\ cleanup' = cleanup
  BY DEF Becomes
<1>3. DeskInv'
  BY <1>1, <1>2 DEF ArmedInv, DeskInv
<1>4. ASSUME NEW q \in Panes, NEW j \in 1 .. Len(anchors'[q])
      PROVE /\ Sound(anchors'[q][j])
            /\ anchors'[q][j].phase = "Fired" => Pends(anchors[q][j], q, j)'
  <2>1. j \in 1 .. Len(anchors[q])
    BY <1>1
  <2>2. CASE q = p /\ j = i
    <3>1. anchors'[q][j] = b
      BY <1>1, <2>1, <2>2
    <3>2. b.phase = "Fired" /\ kind = "judge" /\ Hearsay(agenda, p, i) => Hearsay(agenda', q, j)
      BY <1>1, <2>2
    <3> QED BY <1>2, <1>h, <3>1, <3>2 DEF Pends
  <2>3. CASE ~(q = p /\ j = i)
    <3>1. anchors'[q][j] = anchors[q][j]
      BY <1>1, <2>1, <2>3
    <3>2. Sound(anchors[q][j]) /\ (anchors[q][j].phase = "Fired" => Pends(anchors[q][j], q, j))
      BY <2>1 DEF ArmedInv, BadgeInv
    <3>3. Hearsay(agenda, q, j) => Hearsay(agenda', q, j)
      BY <1>1, <2>3
    <3>4. ASSUME Pends(anchors[q][j], q, j) PROVE Pends(anchors[q][j], q, j)'
      BY <1>2, <3>1, <3>3, <3>4 DEF Pends, Remembers
    <3> QED BY <3>1, <3>2, <3>4
  <2> QED BY <2>2, <2>3
<1>5. BadgeInv'
  BY <1>1, <1>4 DEF BadgeInv
<1> QED BY <1>3, <1>5 DEF ArmedInv

(* The instance that is called, and what it waits for.                      *)
LEMMA CalledIs ==
  ASSUME ArmedInv, NEW kind \in {"deliver", "judge"}, Due(kind)
  PROVE /\ Sound(Called) /\ Called \in Instances
        /\ Called.phase = "Fired" => Pends(Called, Head(agenda).pane, Head(agenda).at)
<1>1. /\ agenda \in Seq(Callings) /\ agenda # <<>> /\ Head(agenda).kind = kind
      /\ \A j \in 1 .. Len(agenda) : agenda[j].kind # "listen" =>
           agenda[j].pane \in Panes /\ agenda[j].at \in 1 .. Len(anchors[agenda[j].pane])
  BY DEF Due, ArmedInv, DeskInv, Timely
<1>2. 1 \in 1 .. Len(agenda) /\ Head(agenda) = agenda[1]
  <2> DEFINE C == Callings
  <2>1. agenda \in Seq(C)
    BY <1>1
  <2> HIDE DEF C
  <2> QED BY <1>1, <2>1
<1>3. Head(agenda).pane \in Panes /\ Head(agenda).at \in 1 .. Len(anchors[Head(agenda).pane])
  BY <1>1, <1>2
<1> QED BY <1>3 DEF Called, ArmedInv, BadgeInv, Sound

(* Nothing is done to the account.                                          *)
LEMMA AccountRests ==
  ASSUME AccountInv, UNCHANGED simVars, botOrders' = botOrders
  PROVE AccountInv' /\ Working(book', queue') = Working(book, queue)
BY DEF AccountInv, simVars

(* A refusal says nothing about an order.                                   *)
LEMMA RefusalIs == Refusal \in Seq(Happenings) /\ Len(Refusal) = 1 /\ Refusal[1].what = "Rejected"
<1>1. Remark("Rejected") \in Happenings /\ Remark("Rejected").what = "Rejected"
  BY DEF Happenings, Remark, Words, Roles, Sides, Unset
<1> DEFINE e == Remark("Rejected")
           H == Happenings
<1> HIDE DEF e, H
<1>2. <<e>> \in Seq(H) /\ Len(<<e>>) = 1 /\ <<e>>[1] = e
  BY <1>1 DEF e, H
<1> QED BY <1>1, <1>2 DEF Refusal, e, H

(* An instance hears the batch.                                             *)
LEMMA DeliverStep ==
  ASSUME ArmedInv, Deliver
  PROVE ArmedInv'
<1> DEFINE h == OnSimEvents(Called, batch)
<1>1. /\ Due("deliver") /\ Becomes(h.bot) /\ botOrders' = botOrders
      /\ IF h.closes /\ book.position # Flat
         THEN ClosePosition /\ UNCHANGED heard
         ELSE /\ heard' = IF h.closes THEN Buffered(Refusal) ELSE heard
              /\ UNCHANGED simVars
  BY DEF Deliver
<1>2. /\ Sound(Called) /\ batch \in Seq(Happenings) /\ heard \in Seq(Happenings)
      /\ Called.phase = "Fired" => Pends(Called, Head(agenda).pane, Head(agenda).at)
      /\ AccountInv
  BY <1>1, CalledIs DEF ArmedInv, DeskInv
<1>3. Heeds(h, Called, batch, Len(batch))
  BY <1>2, HearKeeps
<1> HIDE DEF h
<1>4. AccountInv' /\ heard' \in Seq(Happenings) /\ Remembers
  <2>1. CASE h.closes /\ book.position # Flat
    <3> DEFINE a == [action |-> "Close"]
    <3>1. Close(a) /\ heard' = heard /\ a \in Actions /\ a.action # "Entry"
      BY <1>1, <2>1 DEF ClosePosition, Actions
    <3>2. Ready(book, queue, botOrders) /\ mark \in Levels /\ book \in Books
      BY <1>2 DEF AccountInv, Ready
    <3>3. Commanded(book, queue, botOrders, book', queue')
      <4> HIDE DEF a
      <4> QED BY <3>1, <3>2, CloseQueues
    <3>4. Moves(book, queue, botOrders, book', queue')
      BY <3>2, <3>3, CommandMoves
    <3>5. mark' = mark /\ book'.events = <<>>
      BY <3>1, <3>2, Quieted DEF Close
    <3>6. AccountInv'
      BY <1>1, <1>2, <3>2, <3>4, <3>5, OneEntryStays
    <3>7. \A id : ~Parted(book'.events, id)
      <4> DEFINE no == <<>>
      <4>1. 1 .. Len(no) = {} /\ book'.events = no
        BY <3>5
      <4> HIDE DEF no
      <4> QED BY <4>1 DEF Parted
    <3>8. Remembers
      BY <3>1, <3>4, <3>7 DEF Remembers, Moves
    <3> QED BY <1>2, <3>1, <3>6, <3>8
  <2>2. CASE ~(h.closes /\ book.position # Flat)
    <3>1. /\ heard' = IF h.closes THEN Buffered(Refusal) ELSE heard
          /\ UNCHANGED simVars
      BY <1>1, <2>2
    <3>2. AccountInv' /\ Working(book', queue') = Working(book, queue)
      BY <1>1, <1>2, <3>1, AccountRests
    <3>3. heard' \in Seq(Happenings) /\ \A id : Parted(heard, id) => Parted(heard', id)
      BY <1>2, <3>1, BufferedIs, RefusalIs
    <3> QED BY <3>2, <3>3 DEF Remembers
  <2> QED BY <2>1, <2>2
<1>5. ASSUME h.bot.phase = "Fired"
      PROVE h.bot.order \in Working(book', queue') \/ Parted(heard', h.bot.order)
  <2>1. h.bot = Called /\ \A i \in 1 .. Len(batch) : ~Farewell(batch[i], Called.order)
    BY <1>3, <1>5 DEF Heeds
  <2>2. Pends(Called, Head(agenda).pane, Head(agenda).at) /\ ~Parted(batch, Called.order)
    BY <1>2, <1>5, <2>1 DEF Parted
  <2> QED BY <1>4, <2>1, <2>2 DEF Pends, Remembers
<1>6. Sound(h.bot)
  BY <1>3 DEF Heeds
<1> DEFINE b == h.bot
<1>7. /\ Due("deliver") /\ Becomes(b) /\ Sound(b)
      /\ b.phase = "Fired" => b.order \in Working(book', queue') \/ Parted(heard', b.order)
  BY <1>1, <1>5, <1>6
<1> HIDE DEF b
<1> QED BY <1>4, <1>7, CallStep

(* An instance judges a bar.                                                *)
LEMMA JudgedIs ==
  ASSUME NEW b, Sound(b)
  PROVE /\ Sound(Judged(b)) /\ Judged(b).preset = b.preset
        /\ Judged(b).phase = "Fired" => Judged(b) = b
        /\ b.phase # "Fired" => Judged(b).order = 0
<1>1. b \in Instances /\ (b.phase = "Fired") = (b.order # 0)
  BY DEF Sound
<1>2. CASE b.phase = "InPosition" /\ AccountFlat
  <2> DEFINE phase == IF b.preset.auto THEN "Armed" ELSE "Done"
             c == [b EXCEPT !.phase = phase]
  <2>1. Judged(b) = c
    BY <1>2 DEF Judged
  <2>2. phase \in Phases /\ phase # "Fired"
    BY DEF Phases, Watching
  <2> HIDE DEF phase
  <2>3. c \in Instances /\ c.phase = phase /\ c.order = b.order /\ c.preset = b.preset
    BY <1>1, <2>2 DEF Instances
  <2>4. b.order = 0
    BY <1>1, <1>2
  <2> QED BY <2>1, <2>2, <2>3, <2>4 DEF Sound
<1>3. CASE ~(b.phase = "InPosition" /\ AccountFlat)
  BY <1>1, <1>3 DEF Judged
<1> QED BY <1>2, <1>3

(* An instance that holds its fire only settles its phase.                  *)
LEMMA HoldStep ==
  ASSUME ArmedInv, Hold
  PROVE ArmedInv'
<1> DEFINE b == Judged(Called)
<1>1. /\ Due("judge") /\ Becomes(b) /\ UNCHANGED simVars
      /\ heard' = heard /\ botOrders' = botOrders
  BY DEF Hold
<1>2. /\ Sound(Called) /\ heard \in Seq(Happenings) /\ AccountInv
      /\ Called.phase = "Fired" => Pends(Called, Head(agenda).pane, Head(agenda).at)
  BY <1>1, CalledIs DEF ArmedInv, DeskInv
<1>3. Sound(b) /\ (b.phase = "Fired" => b = Called)
  BY <1>2, JudgedIs
<1> HIDE DEF b
<1>4. AccountInv' /\ Working(book', queue') = Working(book, queue)
  BY <1>1, <1>2, AccountRests
<1>5. Remembers
  BY <1>1, <1>4 DEF Remembers
<1>6. b.phase = "Fired" =>
        \/ b.order \in Working(book', queue') \/ Parted(heard', b.order)
        \/ /\ Parted(batch, b.order)
           /\ Hearsay(agenda, Head(agenda).pane, Head(agenda).at)
  BY <1>1, <1>2, <1>3, <1>4 DEF Pends
<1> QED BY <1>1, <1>2, <1>3, <1>4, <1>5, <1>6, CallStep

(* The evaluation is over.                                                  *)
LEMMA ListenStep ==
  ASSUME ArmedInv, SetBotListening
  PROVE ArmedInv'
<1>1. /\ agenda # <<>> /\ Head(agenda).kind = "listen" /\ listening' = SomeoneWatches
      /\ heard' = IF listening' THEN heard ELSE <<>>
      /\ batch' = <<>> /\ agenda' = <<>> /\ UNCHANGED simVars
      /\ anchors' = anchors /\ cleanup' = cleanup /\ botOrders' = botOrders
  BY DEF SetBotListening, Due
<1>2. /\ AccountInv /\ heard \in Seq(Happenings) /\ cleanup \in Seq(Nat)
      /\ anchors \in [Panes -> Seq(Instances)] /\ agenda \in Seq(Callings)
      /\ \A j \in 1 .. Len(agenda) : (agenda[j].kind = "listen") = (j = Len(agenda))
  BY DEF ArmedInv, DeskInv, Timely
<1>3. AccountInv' /\ Working(book', queue') = Working(book, queue)
  BY <1>1, <1>2, AccountRests
<1>4. \A p, i : ~Hearsay(agenda, p, i)
  <2> DEFINE C == Callings
  <2>1. agenda \in Seq(C)
    BY <1>2
  <2> HIDE DEF C
  <2>2. Len(agenda) \in Nat /\ 1 \in 1 .. Len(agenda) /\ Head(agenda) = agenda[1]
    BY <1>1, <2>1
  <2>3. 1 = Len(agenda)
    BY <1>1, <1>2, <2>2
  <2>4. \A j \in 1 .. Len(agenda) : j = Len(agenda)
    <3> DEFINE n == Len(agenda)
    <3>1. n \in Nat /\ n = 1
      BY <2>2, <2>3
    <3> HIDE DEF n
    <3>2. \A j \in 1 .. n : j = n
      BY <3>1
    <3> QED BY <3>2 DEF n
  <2>5. \A j \in 1 .. Len(agenda) : agenda[j].kind = "listen"
    BY <1>2, <2>4
  <2> QED BY <2>5 DEF Hearsay
<1>5. DeskInv'
  <2> DEFINE no == <<>>
  <2>1. no \in Seq(Callings) /\ no \in Seq(Happenings) /\ 1 .. Len(no) = {}
    OBVIOUS
  <2>2. agenda' = no /\ batch' = no /\ (heard' = heard \/ heard' = no)
    BY <1>1
  <2> HIDE DEF no
  <2>3. Timely(agenda', anchors')
    BY <2>1, <2>2 DEF Timely
  <2>4. listening' \in BOOLEAN
    BY <1>1 DEF SomeoneWatches, AnyIn
  <2> QED BY <1>1, <1>2, <2>1, <2>2, <2>3, <2>4 DEF DeskInv
<1>6. ASSUME NEW p \in Panes, NEW i \in 1 .. Len(anchors[p]), anchors[p][i].phase = "Fired"
      PROVE listening' /\ Pends(anchors[p][i], p, i)'
  <2>1. i \in DOMAIN anchors[p]
    BY <1>2
  <2>2. SomeoneWatches
    BY <1>6, <2>1 DEF SomeoneWatches, AnyIn, Watching
  <2>3. listening' /\ heard' = heard
    BY <1>1, <2>2
  <2>4. Pends(anchors[p][i], p, i)
    BY <1>6 DEF ArmedInv, BadgeInv
  <2> QED BY <1>1, <1>3, <1>4, <2>3, <2>4 DEF Pends
<1>7. BadgeInv'
  BY <1>1, <1>6 DEF ArmedInv, BadgeInv
<1> QED BY <1>3, <1>5, <1>7 DEF ArmedInv

(* A print.                                                                 *)
LEMMA IngestStep ==
  ASSUME ArmedInv, NEW price \in Prices, NEW closed, IngestTrade(price, closed)
  PROVE ArmedInv'
<1>1. /\ agenda = <<>> /\ OnTrade(price) /\ batch' = Buffered(book'.events) /\ heard' = <<>>
      /\ agenda' = Calls(closed) /\ anchors' = anchors /\ listening' = listening
      /\ cleanup' = cleanup /\ botOrders' = botOrders
  BY DEF IngestTrade
<1>2. /\ AccountInv /\ DeskInv /\ Ready(book, queue, botOrders) /\ 0 \notin botOrders
      /\ anchors \in [Panes -> Seq(Instances)] /\ listening \in BOOLEAN
      /\ heard \in Seq(Happenings) /\ cleanup \in Seq(Nat)
  <2>1. book.ids \in Nat /\ botOrders \subseteq 1 .. book.ids
    BY DEF ArmedInv, AccountInv, Ready, Books
  <2> QED BY <2>1 DEF ArmedInv, AccountInv, DeskInv
<1>3. Moves(book, queue, botOrders, book', queue')
  BY <1>1, <1>2, PrintMoves
<1>4. mark' \in Levels
  BY <1>1 DEF OnTrade, Levels
<1>5. AccountInv'
  BY <1>1, <1>2, <1>3, <1>4, OneEntryStays
<1>6. /\ Timely(agenda', anchors')
      /\ \A p \in Panes : \A i \in 1 .. Len(anchors[p]) : Hearsay(agenda', p, i)
  BY <1>1, <1>2, CallsAre
<1>7. DeskInv'
  <2>1. book'.events \in Seq(Happenings)
    BY <1>3 DEF Moves, Ready, Books
  <2>2. batch' \in Seq(Happenings) /\ heard' \in Seq(Happenings)
    BY <1>1, <1>2, <2>1, BufferedIs
  <2> QED BY <1>1, <1>2, <1>6, <2>2 DEF DeskInv
<1>h. \A p, i : ~Hearsay(agenda, p, i)
  <2> DEFINE no == <<>>
  <2>1. 1 .. Len(no) = {} /\ agenda = no
    BY <1>1
  <2> HIDE DEF no
  <2> QED BY <2>1 DEF Hearsay
<1>8. ASSUME NEW p \in Panes, NEW i \in 1 .. Len(anchors[p]), anchors[p][i].phase = "Fired"
      PROVE listening' /\ Pends(anchors[p][i], p, i)'
  <2> DEFINE b == anchors[p][i]
  <2>1. listening /\ Pends(b, p, i)
    BY <1>1, <1>8 DEF ArmedInv, BadgeInv
  <2>2. b.order \in Working(book, queue) \/ Parted(heard, b.order)
    BY <1>h, <2>1 DEF Pends
  <2>3. b.order \in Working(book', queue') \/ Parted(batch', b.order)
    BY <1>1, <1>2, <1>3, <2>1, <2>2, ReportsReach
  <2>4. Hearsay(agenda', p, i)
    BY <1>6
  <2> QED BY <1>1, <2>1, <2>3, <2>4 DEF Pends
<1>9. BadgeInv'
  BY <1>1, <1>8 DEF ArmedInv, BadgeInv
<1> QED BY <1>5, <1>7, <1>9 DEF ArmedInv

-----------------------------------------------------------------------------
(* An instance fires. *)

(* What an instance orders is what a hand could.                            *)
LEMMA EntryOfAsked ==
  ASSUME NEW f \in Presets, NEW s \in Setups
  PROVE /\ EntryOf(f, s) \in Asked
        /\ EntryOf(f, s).kind # "Market" => EntryOf(f, s).flat
<1>1. /\ f.side \in Sides /\ f.qty \in Nat \ {0}
      /\ s.edge \in Levels /\ s.bracket \in Brackets
  BY ArmedAssumption
<1>2. Unset \in Levels
  BY LevelsAreNat
<1>3. TargetOf(s.bracket) \in Levels
  <2>1. s.bracket \in Seq(Parts) /\ Len(s.bracket) <= 4
    BY <1>1, SimulatorAssumption
  <2>2. CASE Whole(s.bracket)
    <3> DEFINE S == Parts
    <3>1. s.bracket \in Seq(S) /\ Len(s.bracket) = 1
      BY <2>1, <2>2 DEF Whole
    <3> HIDE DEF S
    <3>2. s.bracket[1] \in S
      BY <3>1
    <3> QED BY <2>2, <3>2 DEF TargetOf, Parts, S
  <2>3. CASE ~Whole(s.bracket)
    BY <1>2, <2>3 DEF TargetOf
  <2> QED BY <2>2, <2>3
<1> DEFINE kind == IF s.edge = Unset THEN "Market" ELSE "Limit"
           cancel == IF s.edge = Unset THEN Unset ELSE TargetOf(s.bracket)
           flat == s.edge # Unset
           e == [side |-> f.side, kind |-> kind, price |-> s.edge, qty |-> f.qty,
                 bracket |-> s.bracket, cancel |-> cancel, flat |-> flat]
<1>4. EntryOf(f, s) = e
  BY DEF EntryOf
<1>5. kind \in {"Market", "Limit", "Stop"} /\ cancel \in Levels /\ flat \in BOOLEAN
      /\ (kind # "Market" => flat)
  BY <1>2, <1>3
<1> HIDE DEF kind, cancel, flat
<1>6. e \in Asked /\ e.kind = kind /\ e.flat = flat
  BY <1>1, <1>5 DEF Asked
<1> QED BY <1>4, <1>5, <1>6

(* A flat account has no entry working.                                     *)
LEMMA FlatIsIdle ==
  ASSUME AccountFlat
  PROVE Working(book, queue) = {}
<1>1. book.resting = <<>> /\ queue = <<>>
  BY DEF AccountFlat
<1> DEFINE no == <<>>
<1>2. DOMAIN no = {} /\ book.resting = no /\ queue = no
  BY <1>1
<1> HIDE DEF no
<1> QED BY <1>2 DEF Working

(* It gets its place.                                                       *)
LEMMA FirePlaces ==
  ASSUME AccountInv, NEW e \in Asked, e.kind # "Market" => e.flat, AccountFlat,
         PlaceMarket(e) \/ PlaceResting(e), botOrders' = botOrders \cup {book'.ids}
  PROVE /\ AccountInv' /\ book'.ids \in Working(book', queue') /\ book'.ids \in Nat \ {0}
        /\ book'.events \in Seq(Happenings) /\ Len(book'.events) = 1
        /\ book'.events[1].what = "Placed" /\ book'.events[1].id = book'.ids
<1> DEFINE n == book.ids + 1
           Y == botOrders \cup {n}
           o == Order(e)
           c == Placed(e)
<1>1. /\ Ready(book, queue, botOrders) /\ mark \in Levels /\ book.ids \in Nat /\ book \in Books
      /\ botOrders \subseteq 1 .. book.ids /\ queue \in Seq(Actions)
      /\ book.resting \in Seq(Orders)
  BY DEF AccountInv, Ready, Books, Queueable
<1>2. Ready(book, queue, Y)
  <2>1. \A id \in Y : id \in 1 .. book.ids => id \in botOrders
    BY <1>1
  <2> HIDE DEF Y
  <2> QED BY <1>1, <2>1, ReadyOf
<1>3. Working(book, queue) = {} /\ queue = <<>> /\ book.position = Flat
  BY FlatIsIdle DEF AccountFlat
<1> HIDE DEF Y
<1>4. Commanded(book, queue, Y, book', queue')
  <2>1. CASE PlaceMarket(e)
    BY <1>2, <1>3, <2>1, MarketQueues
  <2>2. CASE PlaceResting(e)
    <3>1. e.flat
      BY <2>2 DEF PlaceResting
    <3> QED BY <1>2, <2>2, <3>1, RestingRests
  <2> QED BY <2>1, <2>2
<1>5. /\ o \in Orders /\ o.id = n /\ o.role = "Entry" /\ c.ids = n /\ c.resting = book.resting
      /\ c.events \in Seq(Happenings) /\ Len(c.events) = 1
      /\ c.events[1] = About("Placed", o) /\ c.events[1].id = n
  BY <1>2, PlacedIs
<1>6. c \in Books
  BY <1>2, PlacedIs
<1> HIDE DEF o, c, n
<1>7. book'.ids = n /\ book'.events = c.events /\ mark' = mark
  <2>1. CASE PlaceMarket(e)
    BY <1>5, <2>1 DEF PlaceMarket, c
  <2>2. CASE PlaceResting(e)
    <3>1. book' = [c EXCEPT !.resting = Append(c.resting, o)] /\ mark' = mark
      BY <2>2 DEF PlaceResting, c, o
    <3>2. book'.ids = c.ids /\ book'.events = c.events
      BY <1>6, <3>1 DEF Books
    <3> QED BY <1>5, <3>1, <3>2
  <2> QED BY <2>1, <2>2
<1>8. n \in Working(book', queue')
  <2>1. CASE PlaceMarket(e)
    <3> DEFINE a == [action |-> "Entry", order |-> o]
               r == Append(queue, a)
    <3>1. queue' = r
      BY <2>1 DEF PlaceMarket, o
    <3>2. DOMAIN r = 1 .. Len(queue) + 1 /\ r[Len(queue) + 1] = a /\ Len(queue) \in Nat
      BY <1>1
    <3> HIDE DEF r
    <3>3. Len(queue) + 1 \in DOMAIN r
      BY <3>2
    <3>4. a.action = "Entry" /\ a.order = o
      OBVIOUS
    <3> HIDE DEF a
    <3> QED BY <1>5, <3>1, <3>2, <3>3, <3>4 DEF Working
  <2>2. CASE PlaceResting(e)
    <3> DEFINE s == book.resting
               r == Append(s, o)
    <3>1. book' = [c EXCEPT !.resting = Append(c.resting, o)]
      BY <2>2 DEF PlaceResting, c, o
    <3>2. book'.resting = r
      BY <1>5, <1>6, <3>1 DEF Books
    <3>3. DOMAIN r = 1 .. Len(s) + 1 /\ r[Len(s) + 1] = o /\ Len(s) \in Nat
      BY <1>1
    <3> HIDE DEF r
    <3>4. Len(s) + 1 \in DOMAIN r
      BY <3>3
    <3>5. ~Protective(o)
      BY <1>5 DEF Protective
    <3> QED BY <1>5, <3>2, <3>3, <3>4, <3>5 DEF Working
  <2> QED BY <2>1, <2>2
<1>9. /\ Ready(book', queue', Y)
      /\ \A id \in Working(book', queue') : id \in Working(book, queue) \/ book.ids < id
  BY <1>1, <1>4, CommandProceeds DEF Commanded
<1>10. \A id \in Working(book', queue') : id = n
  <2>1. book' \in Books /\ queue' \in Seq(Actions) /\ Working(book', queue') \subseteq 1 .. book'.ids
    BY <1>9 DEF Ready, Queueable, Tidy
  <2> QED BY <1>1, <1>3, <1>7, <1>9, <2>1 DEF n
<1>11. botOrders' = Y /\ Y \subseteq 1 .. n /\ n \in Nat \ {0}
  <2>1. botOrders' = Y
    BY <1>7 DEF Y
  <2>2. book.ids \in Nat /\ botOrders \subseteq 1 .. book.ids
    BY <1>1
  <2>3. n \in Nat \ {0} /\ 1 .. book.ids \subseteq 1 .. n /\ n \in 1 .. n
    BY <2>2 DEF n
  <2>4. Y \subseteq 1 .. n
    BY <2>2, <2>3 DEF Y
  <2> QED BY <2>1, <2>3, <2>4
<1>12. AccountInv'
  <2>1. \A x, y \in botOrders' \cap Working(book', queue') : x = y
    BY <1>10
  <2> QED BY <1>1, <1>7, <1>9, <1>11, <2>1 DEF AccountInv
<1>13. About("Placed", o).what = "Placed"
  BY DEF About
<1> QED BY <1>5, <1>7, <1>8, <1>11, <1>12, <1>13

(* An instance that fires hears its order before anything else runs.        *)
LEMMA FireStep ==
  ASSUME ArmedInv, NEW s \in Setups, Fire(s)
  PROVE ArmedInv'
<1> DEFINE b == Judged(Called)
           e == EntryOf(b.preset, s)
           fired == [b EXCEPT !.phase = "Fired"]
           Echo(es) == OnSimEvents(fired, es).bot
<1>1. /\ Due("judge") /\ b.phase = "Armed" /\ AccountFlat
      /\ \/ /\ PlaceMarket(e) \/ PlaceResting(e)
            /\ Becomes(Echo(book'.events))
            /\ botOrders' = botOrders \cup {book'.ids}
            /\ heard' = Buffered(book'.events)
         \/ /\ Becomes(Echo(Refusal))
            /\ heard' = Buffered(Refusal)
            /\ UNCHANGED <<simVars, botOrders>>
  BY DEF Fire
<1>2. Sound(Called) /\ heard \in Seq(Happenings) /\ AccountInv
  BY <1>1, CalledIs DEF ArmedInv, DeskInv
<1>3. Sound(b) /\ b.order = 0 /\ b \in Instances /\ b.preset \in Presets
  <2>1. Sound(b)
    BY <1>2, JudgedIs
  <2> QED BY <1>1, <2>1 DEF Sound, Instances
<1>4. e \in Asked /\ (e.kind # "Market" => e.flat)
  BY <1>3, EntryOfAsked
<1>5. fired \in Instances /\ fired.phase = "Fired" /\ fired.order = 0
  BY <1>3 DEF Instances, Phases, Watching
<1>6. Working(book, queue) = {}
  BY <1>1, FlatIsIdle
<1> HIDE DEF e, b, fired
<1>7. CASE /\ PlaceMarket(e) \/ PlaceResting(e)
           /\ Becomes(Echo(book'.events))
           /\ botOrders' = botOrders \cup {book'.ids}
           /\ heard' = Buffered(book'.events)
  <2> DEFINE es == book'.events
             g == [fired EXCEPT !.order = es[1].id]
  <2>1. /\ AccountInv' /\ book'.ids \in Working(book', queue') /\ book'.ids \in Nat \ {0}
        /\ es \in Seq(Happenings) /\ Len(es) = 1
        /\ es[1].what = "Placed" /\ es[1].id = book'.ids
    BY <1>1, <1>2, <1>4, <1>7, FirePlaces
  <2> HIDE DEF es
  <2>2. Echo(es) = g
    BY <1>5, <2>1, EchoIs
  <2>3. g \in Instances /\ g.phase = "Fired" /\ g.order = book'.ids
    BY <1>5, <2>1 DEF Instances
  <2>4. Sound(g)
    BY <2>1, <2>3 DEF Sound
  <2> HIDE DEF g
  <2>5. Becomes(g) /\ heard' = Buffered(es)
    BY <1>7, <2>2 DEF es
  <2>6. heard' \in Seq(Happenings) /\ \A id : Parted(heard, id) => Parted(heard', id)
    BY <1>2, <2>1, <2>5, BufferedIs
  <2>7. Remembers
    BY <1>6, <2>6 DEF Remembers
  <2> QED BY <1>1, <2>1, <2>3, <2>4, <2>5, <2>6, <2>7, CallStep
<1>8. CASE /\ Becomes(Echo(Refusal))
           /\ heard' = Buffered(Refusal)
           /\ UNCHANGED <<simVars, botOrders>>
  <2> DEFINE g == [fired EXCEPT !.phase = "Disarmed", !.order = 0]
  <2>1. Refusal \in Seq(Happenings) /\ Len(Refusal) = 1 /\ Refusal[1].what = "Rejected"
    BY RefusalIs
  <2>2. Echo(Refusal) = g
    BY <1>5, <2>1, EchoIs
  <2>3. g \in Instances /\ g.phase = "Disarmed" /\ g.order = 0
    BY <1>5 DEF Instances, Phases, Watching
  <2>4. Sound(g) /\ g.phase # "Fired"
    BY <2>3 DEF Sound
  <2> HIDE DEF g
  <2>5. Becomes(g)
    BY <1>8, <2>2
  <2>6. heard' \in Seq(Happenings) /\ \A id : Parted(heard, id) => Parted(heard', id)
    BY <1>2, <1>8, <2>1, BufferedIs
  <2>7. AccountInv' /\ Working(book', queue') = Working(book, queue)
    BY <1>2, <1>8, AccountRests
  <2>8. Remembers
    BY <2>6, <2>7 DEF Remembers
  <2> QED BY <1>1, <2>4, <2>5, <2>6, <2>7, <2>8, CallStep
<1> QED BY <1>1, <1>7, <1>8

-----------------------------------------------------------------------------
(* The account and its strategies start in order. *)
LEMMA ArmedStarts == ArmedInit => ArmedInv
<1> SUFFICES ASSUME ArmedInit PROVE ArmedInv
  OBVIOUS
<1> DEFINE no == <<>>
<1>1. /\ Init /\ anchors = [p \in Panes |-> no] /\ listening = FALSE /\ heard = no /\ batch = no
      /\ agenda = no /\ cleanup = no /\ botOrders = {}
  BY DEF ArmedInit
<1>2. SimInv /\ book.ids = 0
  BY <1>1, SimStarts
<1>3. no \in Seq(Happenings) /\ no \in Seq(Nat) /\ no \in Seq(Callings) /\ no \in Seq(Instances)
      /\ 1 .. Len(no) = {}
  OBVIOUS
<1> HIDE DEF no
<1>4. AccountInv
  BY <1>1, <1>2 DEF AccountInv, SimInv
<1>5. \A p \in Panes : anchors[p] = no
  BY <1>1
<1>6. DeskInv
  <2>1. Timely(agenda, anchors)
    BY <1>1, <1>3 DEF Timely
  <2>2. anchors \in [Panes -> Seq(Instances)]
    <3> DEFINE T == Seq(Instances)
    <3>1. no \in T
      BY <1>3
    <3> HIDE DEF T
    <3>2. anchors \in [Panes -> T]
      BY <1>1, <3>1
    <3> QED BY <3>2 DEF T
  <2> QED BY <1>1, <1>3, <2>1, <2>2 DEF DeskInv
<1>7. BadgeInv
  BY <1>3, <1>5 DEF BadgeInv
<1> QED BY <1>4, <1>6, <1>7 DEF ArmedInv

(* Every step keeps them so.                                                *)
LEMMA ArmedSteps ==
  ASSUME ArmedInv, [ArmedNext]_armedVars
  PROVE ArmedInv'
<1>1. ASSUME NEW price \in Prices, NEW closed \in SUBSET Panes, IngestTrade(price, closed)
      PROVE ArmedInv'
  BY <1>1, IngestStep
<1>2. CASE Deliver
  BY <1>2, DeliverStep
<1>3. CASE Hold
  BY <1>3, HoldStep
<1>4. CASE SetBotListening
  BY <1>4, ListenStep
<1>5. ASSUME NEW s \in Setups, Fire(s) PROVE ArmedInv'
  BY <1>5, FireStep
<1>6. CASE Trade
  BY <1>6, TradeStep
<1>7. ASSUME NEW price \in Prices, Backfill(price) PROVE ArmedInv'
  BY <1>7, BackfillStep
<1>8. ASSUME NEW p \in Panes, NEW d \in Drawings[p], RemoveForDrawing(p, d) PROVE ArmedInv'
  BY <1>8, RemoveStep
<1>9. ASSUME NEW p \in Panes, NEW d \in Drawings[p], NEW f \in Presets, Arm(p, d, f)
      PROVE ArmedInv'
  BY <1>9, ArmStep
<1>10. ASSUME NEW p \in Panes, NEW i \in DOMAIN anchors[p], Disarm(p, i) PROVE ArmedInv'
  BY <1>10, DisarmStep
<1>11. ASSUME NEW p \in Panes, NEW i \in DOMAIN anchors[p], RearmInstance(p, i) PROVE ArmedInv'
  BY <1>11, RearmStep
<1>12. ASSUME NEW p \in Panes, ChangeBarSpec(p) PROVE ArmedInv'
  BY <1>12, BarSpecStep
<1>13. ASSUME NEW p \in Panes, LoadRecordedDay(p) PROVE ArmedInv'
  BY <1>13, RecordedDayStep
<1>14. CASE ApplyCleanup
  BY <1>14, CleanupStep
<1>15. CASE ResetMarket
  BY <1>15, ResetMarketStep
<1>16. CASE UNCHANGED armedVars
  <2>1. /\ mark' = mark /\ queue' = queue /\ book' = book /\ anchors' = anchors
        /\ listening' = listening /\ heard' = heard /\ batch' = batch /\ agenda' = agenda
        /\ cleanup' = cleanup /\ botOrders' = botOrders
    BY <1>16 DEF armedVars, simVars, botVars
  <2>2. AccountInv' /\ DeskInv'
    BY <2>1 DEF ArmedInv, AccountInv, DeskInv
  <2>3. BadgeInv'
    BY <2>1 DEF ArmedInv, BadgeInv, Pends
  <2> QED BY <2>2, <2>3 DEF ArmedInv
<1> QED BY <1>1, <1>2, <1>3, <1>4, <1>5, <1>6, <1>7, <1>8, <1>9, <1>10, <1>11, <1>12, <1>13,
           <1>14, <1>15, <1>16 DEF ArmedNext

(* The account's ids and its strategies' state stay in order: type          *)
(* correctness, and the reason why a fired badge always has its order or    *)
(* the word that it is gone still to come.                                  *)
THEOREM ArmedInvariant == ArmedSpec => []ArmedInv
<1> QED BY ArmedStarts, ArmedSteps, PTL DEF ArmedSpec

(* Between evaluations no badge reads "fired" over nothing, and one entry   *)
(* of all the strategies' works at a time.                                  *)
THEOREM BadgesAreTrue == ArmedSpec => []FiredIsPending
<1>1. ArmedInv => FiredIsPending
  <2> SUFFICES ASSUME ArmedInv, Sleeping PROVE
        /\ \A b \in Bots : b.phase = "Fired" =>
             b.order \in Working(book, queue) \/ \E i \in DOMAIN heard : heard[i].id = b.order
        /\ Cardinality(botOrders \cap Working(book, queue)) <= 1
    BY DEF FiredIsPending
  <2>1. /\ DeskInv /\ BadgeInv /\ AccountInv /\ agenda = <<>>
    BY DEF ArmedInv, Sleeping
  <2>2. \A p, i : ~Hearsay(agenda, p, i)
    <3> DEFINE no == <<>>
    <3>1. 1 .. Len(no) = {} /\ agenda = no
      BY <2>1
    <3> HIDE DEF no
    <3> QED BY <3>1 DEF Hearsay
  <2>3. ASSUME NEW b \in Bots, b.phase = "Fired"
        PROVE b.order \in Working(book, queue) \/ \E i \in DOMAIN heard : heard[i].id = b.order
    <3>1. PICK p \in Panes : b \in Range(anchors[p])
      BY DEF Bots
    <3>2. anchors[p] \in Seq(Instances) /\ DOMAIN anchors[p] = 1 .. Len(anchors[p])
      BY <2>1 DEF DeskInv
    <3>3. PICK i \in 1 .. Len(anchors[p]) : b = anchors[p][i]
      BY <3>1, <3>2 DEF Range
    <3>4. Pends(b, p, i)
      BY <2>1, <2>3, <3>3 DEF BadgeInv
    <3>5. b.order \in Working(book, queue) \/ Parted(heard, b.order)
      BY <2>2, <3>4 DEF Pends
    <3>6. DOMAIN heard = 1 .. Len(heard)
      BY <2>1 DEF DeskInv
    <3> QED BY <3>5, <3>6 DEF Parted, Farewell
  <2>4. Cardinality(botOrders \cap Working(book, queue)) <= 1
    <3> DEFINE M == botOrders \cap Working(book, queue)
               L == book.ids
    <3>1. L \in Nat /\ M \subseteq 1 .. L /\ \A x, y \in M : x = y
      BY <2>1 DEF AccountInv, Ready, Books
    <3> HIDE DEF M, L
    <3>2. CASE M = {}
      <4>1. Cardinality(M) = 0
        BY <3>1, <3>2, CountedOnce
      <4> QED BY <4>1 DEF M
    <3>3. CASE M # {}
      <4>1. \E i \in M : \A j \in M : j = i
        BY <3>1, <3>3
      <4>2. Cardinality(M) = 1
        BY <3>1, <4>1, CountedOnce
      <4> QED BY <4>2 DEF M
    <3> QED BY <3>2, <3>3
  <2> QED BY <2>3, <2>4
<1> QED BY <1>1, ArmedInvariant, PTL

(* An entry of a strategy fills into a flat account only, for any prices,   *)
(* orders and protections of the traders', and any instances beside it.     *)
THEOREM BotsFillFlat == ArmedSpec => BotsNeverNet
<1> DEFINE A == Sleeping /\ agenda' # <<>> =>
                  \A i \in DOMAIN Happened :
                    IsFill(Happened[i]) /\ Happened[i].id \in botOrders => HoldingBefore(i) = 0
<1>1. ArmedInv /\ ArmedNext => A
  <2> SUFFICES ASSUME ArmedInv, ArmedNext, Sleeping, agenda' # <<>>
               PROVE \A i \in DOMAIN Happened :
                       IsFill(Happened[i]) /\ Happened[i].id \in botOrders => HoldingBefore(i) = 0
    OBVIOUS
  <2>1. agenda = <<>>
    BY DEF Sleeping
  <2>2. ~Idle /\ ~Quiescent
    BY <2>1 DEF Idle, Quiescent
  <2>3. \A kind : ~Due(kind)
    BY <2>1 DEF Due
  <2>4. PICK price \in Prices, closed \in SUBSET Panes : IngestTrade(price, closed)
    BY <2>2, <2>3 DEF ArmedNext, Deliver, Hold, SetBotListening, Fire, Trade, Backfill,
       RemoveForDrawing, Arm, Disarm, RearmInstance, ChangeBarSpec, LoadRecordedDay,
       ApplyCleanup, ResetMarket
  <2>5. OnTrade(price) /\ Ready(book, queue, botOrders)
    BY <2>4 DEF IngestTrade, ArmedInv, AccountInv
  <2>6. Accounted(book, queue, botOrders, book', queue')
    <3>1. 0 \notin botOrders
      BY DEF ArmedInv, AccountInv
    <3> QED BY <2>5, <3>1, PrintReady
  <2> DEFINE h == Holding(book)
             c == book'
             es == c.events
             E == Working(book, queue)
             W == Working(book', queue')
  <2>7. PICK Q, n : Account(E, W, h, botOrders, Q, c, n)
    BY <2>6 DEF Accounted
  <2>8. h \in Int
    BY <2>5, Quieted
  <2> HIDE DEF E, W, h, c
  <2>9. /\ DOMAIN es = 1 .. Len(es)
        /\ \A i \in 1 .. Len(es) : IsFill(es[i]) =>
             LET held == Tally(h, SubSeq(es, 1, i - 1)) IN
             /\ es[i].role # "Entry" =>
                  /\ es[i].qty > 0
                  /\ es[i].qty <= (IF es[i].side = "Sell" THEN held ELSE -held)
             /\ es[i].id \in botOrders => held = 0
    BY <2>7, <2>8, AccountTallies
  <2>10. Happened = es
    BY DEF Happened, c
  <2> HIDE DEF es
  <2>11. \A i : HoldingBefore(i) = Tally(h, SubSeq(es, 1, i - 1))
    BY <2>10 DEF HoldingBefore, h
  <2> QED BY <2>9, <2>10, <2>11
<1>2. [][A]_armedVars <=> BotsNeverNet
  BY PTL DEF BotsNeverNet
<1> HIDE DEF A
<1> QED BY <1>1, <1>2, ArmedInvariant, PTL DEF ArmedSpec
=============================================================================
