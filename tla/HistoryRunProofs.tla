---------------------------- MODULE HistoryRunProofs ----------------------------
(***************************************************************************)
(* What holds of the History button for every tape, target and limit: one  *)
(* request is out at a time and its page is judged by the run that asked,  *)
(* the chart stays in tape order, and a target reported as charted is, as  *)
(* long as no page is drawn behind the pages a tab retains and no feed     *)
(* begins anew without them.                                               *)
(***************************************************************************)
EXTENDS HistoryRun, WellFoundedInduction, FiniteSetTheorems, SequenceTheorems, TLAPS

Camps == [reach : Reaches, id : Nat \ {0}, oldest : Int, closes : Nat, traded : Int,
          open : Int, held : Nat, from : Int, pulled : Nat, pages : Nat, idle : Nat,
          asked : Nat, blind : BOOLEAN]
Prints == 1 .. N
Asks == [count : Nat \ {0}, id : Nat \ {0}]
Events == [t : {"prepended"}, prints : Seq(Prints), id : Nat]
     \cup [t : {"opening"}, prints : Seq(Prints), remaining : Nat]
Runs == [queued : Reaches \cup {NoReach}, camp : Camps \cup {NoCampaign},
         out : BOOLEAN, paused : BOOLEAN]
Tabs == [wait : Nat, opening : Nat, visible : BOOLEAN]
Pans == [kept : Nat, failed : BOOLEAN]
Feeds == [st : {"hello", "live"}, any : BOOLEAN, slices : Nat, floor : 1 .. N + 1,
          asks : Seq(Asks), pages : BOOLEAN]

Types ==
  /\ run \in Runs /\ tab \in Tabs /\ chart \in Seq(Prints) /\ feed \in Feeds
  /\ inbox \in Seq(Events) /\ presses \in Nat /\ outcome.end \in Ends
  /\ Queued => presses > 0
  /\ feed.slices < feed.floor /\ (~feed.any => feed.slices = 0 /\ feed.floor = N + 1)
  /\ panes \in Pans /\ panes.kept <= Len(chart) /\ (panes.failed => panes.kept > 0)
  /\ overtaken \in BOOLEAN /\ reopened \in BOOLEAN /\ (reopened => overtaken)

(* A reply to a request, and the block that opens a chart. *)
Own(m) == m.t = "prepended" /\ m.id # Unasked
First(m) == m.t = "prepended" /\ m.id = Unasked

(* The request that is out is with the feed, or its reply is on the way, and *)
(* it is the run's own.                                                      *)
OneOut ==
  /\ ~run.out => feed.asks = << >> /\ \A n \in 1 .. Len(inbox) : ~Own(inbox[n])
  /\ run.out =>
       \/ Len(feed.asks) = 1 /\ \A n \in 1 .. Len(inbox) : ~Own(inbox[n])
       \/ /\ feed.asks = << >>
          /\ \E n \in 1 .. Len(inbox) : Own(inbox[n])
          /\ \A n, k \in 1 .. Len(inbox) : Own(inbox[n]) /\ Own(inbox[k]) => n = k
  /\ Running =>
       /\ \A n \in 1 .. Len(inbox) : Own(inbox[n]) => inbox[n].id = run.camp.id
       /\ \A k \in 1 .. Len(feed.asks) : feed.asks[k].id = run.camp.id
  /\ ~foreign

(* The block that opens the chart comes before anything else. *)
OpensFirst ==
  /\ chart = << >> => ~Running /\ ~run.out
  /\ ~feed.any => chart = << >> /\ inbox = << >>
  /\ \A n \in 1 .. Len(inbox) : First(inbox[n]) => n = 1 /\ chart = << >>
  /\ feed.any /\ chart = << >> =>
       inbox # << >> /\ First(inbox[1]) /\ inbox[1].prints # << >>

(* A run waits for its reply, or for its tab to be seen. *)
Paused ==
  /\ Running => (run.paused <=> ~run.out)
  /\ run.paused => Running /\ tab.wait = 0
  /\ tab.wait <= 1

Single == OneOut /\ OpensFirst /\ Paused

Climbs(s) == \A j \in 1 .. Len(s) : \A i \in 1 .. j - 1 : s[i] < s[j]

(* What is on the way lies below the chart, each event below the one before *)
(* it, and the feed is asked for what lies below them all.                  *)
TapeOrder ==
  /\ Climbs(chart)
  /\ \A k \in 1 .. Len(chart) : feed.floor <= chart[k]
  /\ \A n \in 1 .. Len(inbox) :
       /\ Climbs(inbox[n].prints)
       /\ \A k \in 1 .. Len(inbox[n].prints) :
            /\ feed.floor <= inbox[n].prints[k]
            /\ \A j \in 1 .. Len(chart) : inbox[n].prints[k] < chart[j]
            /\ \A i \in 1 .. n - 1 : \A j \in 1 .. Len(inbox[i].prints) :
                 inbox[n].prints[k] < inbox[i].prints[j]

RunInv == Types /\ (reopened \/ Single) /\ (overtaken \/ TapeOrder)

(* What a campaign counts from: an hour's run from the oldest print it found, *)
(* a session's from the live edge.                                           *)
Base(c, s) == IF c.reach.kind = "hours" THEN c.from ELSE Stamp(s, 1)

(* The campaign has judged the m newest prints of a chart, and no target was *)
(* met on the way.                                                           *)
JudgedTo(c, s, m) ==
  /\ ~Met(c) /\ c.open = 0
  /\ c.oldest = Stamp(s, m) /\ c.oldest <= Base(c, s)
  /\ c.traded = TradedTo(s, Base(c, s))[m]
  /\ c.reach.kind = "sessions" => c.closes = ClosesIn(s, m)

(* A run that pages stands at the chart's oldest print, unless slices landed *)
(* behind it; a run that said its target is charted was right, and is.       *)
Paging(r, s) == r.camp # NoCampaign /\ ~r.camp.blind => JudgedTo(r.camp, s, Len(s))
Reported(o, s) ==
  o.end \in {"met", "already"} =>
    s # << >> /\ o.reach \in Reaches /\ o.from \in Int /\ (~o.blind => Charted(o, s))
ReachInv == overtaken \/ (Paging(run, chart) /\ Reported(outcome, chart))
-----------------------------------------------------------------------------
(* A set of naturals has a least member. *)
LEMMA LeastNumber ==
  ASSUME NEW T, T \subseteq Nat, T # {}
  PROVE \E x \in T : \A y \in T : x <= y
<1> DEFINE R == {ss \in Nat \X Nat : ss[1] < ss[2]}
<1>1. IsWellFoundedOn(R, Nat)
  BY NatLessThanWellFounded DEF OpToRel
<1> HIDE DEF R
<1>2. PICK x \in T : \A y \in T : ~(<<y, x>> \in R)
  BY <1>1, WFMin
<1>3. \A y \in T : ~(y < x)
  BY <1>2 DEF R
<1> QED BY <1>2, <1>3

(* What is carried from one place to the one before it is carried to the first. *)
LEMMA Backwards ==
  ASSUME NEW L \in Nat, NEW S, NEW g, g[L + 1] \in S,
         \A k \in 1 .. L : g[k + 1] \in S => g[k] \in S
  PROVE \A k \in 1 .. L + 1 : g[k] \in S
<1> DEFINE Bad == {j \in 0 .. L : g[L + 1 - j] \notin S}
<1>1. CASE Bad # {}
  <2>0. Bad \subseteq Nat
    OBVIOUS
  <2>1. PICK j \in Bad : \A i \in Bad : j <= i
    <3> HIDE DEF Bad
    <3> QED BY <1>1, <2>0, LeastNumber
  <2>2. j # 0
    BY <2>1
  <2>3. j - 1 \notin Bad /\ j - 1 \in 0 .. L
    BY <2>1, <2>2
  <2>4. g[L + 1 - (j - 1)] \in S
    BY <2>3
  <2>5. L + 1 - (j - 1) = (L + 1 - j) + 1 /\ L + 1 - j \in 1 .. L
    BY <2>1, <2>2
  <2>6. g[L + 1 - j] \in S
    BY <2>4, <2>5
  <2> QED BY <2>1, <2>6
<1>2. CASE Bad = {}
  <2> SUFFICES ASSUME NEW k \in 1 .. L + 1 PROVE g[k] \in S
    OBVIOUS
  <2>1. L + 1 - k \in 0 .. L /\ L + 1 - (L + 1 - k) = k
    OBVIOUS
  <2>2. g[L + 1 - (L + 1 - k)] \in S
    BY <1>2, <2>1
  <2> QED BY <2>1, <2>2
<1> QED BY <1>1, <1>2

Steps(L, S) == [1 .. L -> [S -> S]]
Solves(g, L, S, c, step) ==
  /\ g \in [1 .. L + 1 -> S]
  /\ g[L + 1] = c /\ \A k \in 1 .. L : g[k] = step[k][g[k + 1]]

(* A recursion from the last place to the first has a solution. *)
LEMMA Recursion ==
  ASSUME NEW L \in Nat, NEW S, NEW c \in S, NEW step \in Steps(L, S)
  PROVE \E g : Solves(g, L, S, c, step)
<1>s. step \in [1 .. L -> [S -> S]]
  BY DEF Steps
<1> DEFINE From(j) == \E g \in [L + 1 - j .. L + 1 -> S] :
                        g[L + 1] = c /\ \A k \in L + 1 - j .. L : g[k] = step[k][g[k + 1]]
           Bad == {j \in 0 .. L : ~From(j)}
<1>1. From(0)
  <2> DEFINE g == [k \in L + 1 - 0 .. L + 1 |-> c]
  <2>1. g \in [L + 1 - 0 .. L + 1 -> S] /\ g[L + 1] = c
    OBVIOUS
  <2>2. \A k \in L + 1 - 0 .. L : g[k] = step[k][g[k + 1]]
    OBVIOUS
  <2> QED BY <2>1, <2>2
<1>2. ASSUME NEW j \in 1 .. L, From(j - 1) PROVE From(j)
  <2> DEFINE m == L + 1 - j
  <2>1. PICK g \in [L + 1 - (j - 1) .. L + 1 -> S] :
               g[L + 1] = c /\ \A k \in L + 1 - (j - 1) .. L : g[k] = step[k][g[k + 1]]
    BY <1>2
  <2>2. m \in 1 .. L /\ L + 1 - (j - 1) = m + 1 /\ m \in Nat
    OBVIOUS
  <2> HIDE DEF m
  <2>3. g \in [m + 1 .. L + 1 -> S] /\ \A k \in m + 1 .. L : g[k] = step[k][g[k + 1]]
    BY <2>1, <2>2
  <2> DEFINE h == [k \in m .. L + 1 |-> IF k = m THEN step[m][g[m + 1]] ELSE g[k]]
  <2>4. g[m + 1] \in S /\ step[m][g[m + 1]] \in S
    BY <1>s, <2>2, <2>3
  <2>5. h \in [m .. L + 1 -> S]
    BY <2>2, <2>3, <2>4
  <2>6. h[L + 1] = c
    BY <2>1, <2>2
  <2>7. \A k \in m .. L : h[k] = step[k][h[k + 1]]
    BY <2>2, <2>3
  <2> QED BY <2>5, <2>6, <2>7 DEF m
<1> HIDE DEF From
<1>3. CASE Bad # {}
  <2>0. Bad \subseteq Nat
    OBVIOUS
  <2>1. PICK j \in Bad : \A i \in Bad : j <= i
    <3> HIDE DEF Bad
    <3> QED BY <1>3, <2>0, LeastNumber
  <2>2. j \in 1 .. L
    BY <1>1, <2>1
  <2>3. From(j - 1)
    BY <2>1, <2>2
  <2>4. From(j)
    BY <1>2, <2>2, <2>3
  <2> QED BY <2>1, <2>4
<1>4. CASE Bad = {}
  <2>1. From(L)
    BY <1>4
  <2> QED BY <2>1 DEF From, Solves
<1> QED BY <1>3, <1>4
-----------------------------------------------------------------------------
(* The campaign. *)

(* Lesser is one of the two. *)
LEMMA LesserIs ==
  ASSUME NEW a, NEW b
  PROVE Lesser(a, b) \in {a, b}
BY DEF Lesser

(* Stamps are numbers, and there are prints to stamp. *)
LEMMA Stamps == N \in Nat /\ N > 0 /\ \A i \in Prints : Ms[i] \in Nat
<1>1. Ms \in Seq(Nat \ {0}) /\ N > 0
  BY RunAssumption
<1> QED BY <1>1 DEF N, Prints

(* What a press may ask for is not what no press asked for. *)
LEMMA ReachFacts ==
  ASSUME NEW r \in Reaches
  PROVE r.kind \in {"hours", "sessions"} /\ r.n \in Nat /\ r # NoReach
<1>1. r \in [kind : {"hours", "sessions"}, n : Nat \ {0}]
  BY RunAssumption
<1> QED BY <1>1 DEF NoReach

(* A campaign is not the absence of one. *)
LEMMA CampFacts ==
  ASSUME NEW c \in Camps
  PROVE c # NoCampaign
<1>1. c.reach \in Reaches
  BY DEF Camps
<1>2. c.reach # NoReach
  BY <1>1, ReachFacts
<1> QED BY <1>2 DEF NoCampaign

(* Taking a print keeps the campaign's target and its owner. *)
LEMMA TakeKeeps ==
  ASSUME NEW c \in Camps, NEW i \in Prints, ~(Ms[i] > c.oldest)
  PROVE /\ Take(c, i) \in Camps /\ Take(c, i).reach = c.reach /\ Take(c, i).id = c.id
        /\ Take(c, i).blind = c.blind
<1>1. Ms[i] \in Nat /\ c.oldest \in Int /\ c.oldest - Ms[i] \in Nat
  BY Stamps DEF Camps
<1>2. PICK cl, tr, op, ol :
        /\ Take(c, i) = [c EXCEPT !.closes = cl, !.traded = tr, !.open = op, !.oldest = ol]
        /\ ol = Ms[i]
        /\ cl \in {c.closes, c.closes + 1}
        /\ tr \in {c.traded, c.traded + (c.oldest - Ms[i])}
        /\ op \in {c.open, c.oldest}
  BY DEF Take
<1>3. cl \in Nat /\ tr \in Int /\ op \in Int /\ ol \in Int
  BY <1>1, <1>2 DEF Camps
<1> DEFINE d == [c EXCEPT !.closes = cl, !.traded = tr, !.open = op, !.oldest = ol]
<1>4. d \in Camps
  BY <1>3 DEF Camps
<1>5. d.reach = c.reach /\ d.id = c.id /\ d.blind = c.blind
  BY DEF Camps
<1>6. Take(c, i) = d
  BY <1>2
<1> HIDE DEF d
<1> QED BY <1>4, <1>5, <1>6

(* Judging one print: nothing more once the target is met. *)
Judge(a, i) == IF Met(a) \/ Ms[i] > a.oldest THEN a ELSE Take(a, i)

(* Taking a page is taking its prints one by one, the newest first. *)
LEMMA TakeBackRuns ==
  ASSUME NEW c \in Camps, NEW prints \in Seq(Prints)
  PROVE \E after :
          /\ after[Len(prints) + 1] = c /\ TakeBack(c, prints) = after[1]
          /\ \A k \in 1 .. Len(prints) :
               after[k] = Judge(after[k + 1], prints[k])
<1> DEFINE L == Len(prints)
           S == Camps
           one(k, a) == Judge(a, prints[k])
           step == [k \in 1 .. L |-> [a \in S |-> one(k, a)]]
           body(g) == [k \in 1 .. L + 1 |-> IF k = L + 1 THEN c
                        ELSE CHOOSE d \in {one(k, a) : a \in {g[k + 1]}} : TRUE]
           after == CHOOSE g : g = body(g)
<1>1. L \in Nat /\ c \in S /\ \A k \in 1 .. L : prints[k] \in Prints
  OBVIOUS
<1>2. \A k \in 1 .. L : \A a \in S : one(k, a) \in S
  BY <1>1, TakeKeeps DEF Judge
<1>3. step \in [1 .. L -> [S -> S]]
  BY <1>2
<1>4. \A g : \A k : (CHOOSE d \in {one(k, a) : a \in {g[k + 1]}} : TRUE) = one(k, g[k + 1])
  <2> HIDE DEF one
  <2> QED OBVIOUS
<1>5. \E g : g = body(g)
  <2>1. PICK g \in [1 .. L + 1 -> S] :
               g[L + 1] = c /\ \A k \in 1 .. L : g[k] = step[k][g[k + 1]]
    <3> HIDE DEF L, S, step
    <3>1. L \in Nat /\ c \in S
      BY <1>1
    <3>2. step \in Steps(L, S)
      BY <1>3 DEF Steps
    <3>3. \E g : Solves(g, L, S, c, step)
      BY <3>1, <3>2, Recursion
    <3> QED BY <3>3 DEF Solves
  <2>2. \A k \in 1 .. L : g[k] = one(k, g[k + 1])
    <3> SUFFICES ASSUME NEW k \in 1 .. L PROVE g[k] = one(k, g[k + 1])
      OBVIOUS
    <3>1. k + 1 \in 1 .. L + 1 /\ g[k + 1] \in S
      <4> HIDE DEF S, L
      <4> QED BY <1>1, <2>1
    <3>2. step[k] = [a \in S |-> one(k, a)]
      <4> HIDE DEF one, S, L
      <4> QED OBVIOUS
    <3>3. g[k] = step[k][g[k + 1]]
      BY <2>1
    <3> HIDE DEF one, S, L, step
    <3> QED BY <3>1, <3>2, <3>3
  <2>3. \A k \in 1 .. L + 1 : g[k] = body(g)[k]
    <3> HIDE DEF one, S, L
    <3> QED BY <1>1, <1>4, <2>1, <2>2
  <2>4. g = body(g)
    <3>1. g = [k \in 1 .. L + 1 |-> g[k]]
      <4> HIDE DEF S, L
      <4> QED BY <2>1
    <3> HIDE DEF one, S, L
    <3> QED BY <2>3, <3>1
  <2> QED BY <2>4
<1>6. after = body(after)
  <2> HIDE DEF body
  <2> QED BY <1>5
<1>7. after[L + 1] = c /\ \A k \in 1 .. L : after[k] = one(k, after[k + 1])
  <2> DEFINE g == after
  <2>1. g = body(g)
    BY <1>6
  <2>2. \A k \in 1 .. L + 1 : body(g)[k] = IF k = L + 1 THEN c ELSE one(k, g[k + 1])
    <3> HIDE DEF g, one, L
    <3> QED BY <1>4
  <2>3. L + 1 \in 1 .. L + 1 /\ \A k \in 1 .. L : k \in 1 .. L + 1 /\ k # L + 1
    <3> HIDE DEF L
    <3> QED BY <1>1
  <2>4. \A k \in 1 .. L + 1 : g[k] = IF k = L + 1 THEN c ELSE one(k, g[k + 1])
    <3> HIDE DEF g, body, one, L
    <3> QED BY <2>1, <2>2
  <2> HIDE DEF g, one, L
  <2>5. g[L + 1] = c /\ \A k \in 1 .. L : g[k] = one(k, g[k + 1])
    BY <2>3, <2>4
  <2> QED BY <2>5 DEF g
<1>8. TakeBack(c, prints) = after[1]
  BY DEF TakeBack, Judge
<1> HIDE DEF after, one
<1>9. after[L + 1] = c /\ TakeBack(c, prints) = after[1]
      /\ \A k \in 1 .. L : after[k] = one(k, after[k + 1])
  BY <1>7, <1>8
<1> QED BY <1>9 DEF one

(* So does taking a page, to wherever the target is met. *)
LEMMA TakeBackKeeps ==
  ASSUME NEW c \in Camps, NEW prints \in Seq(Prints)
  PROVE /\ TakeBack(c, prints) \in Camps
        /\ TakeBack(c, prints).reach = c.reach /\ TakeBack(c, prints).id = c.id
        /\ TakeBack(c, prints).blind = c.blind
<1> DEFINE L == Len(prints)
           S == {d \in Camps : d.reach = c.reach /\ d.id = c.id /\ d.blind = c.blind}
<1>1. L \in Nat /\ c \in S /\ \A k \in 1 .. L : prints[k] \in Prints
  OBVIOUS
<1>2. PICK after :
        /\ after[L + 1] = c /\ TakeBack(c, prints) = after[1]
        /\ \A k \in 1 .. L : after[k] = Judge(after[k + 1], prints[k])
  BY TakeBackRuns
<1>3. \A k \in 1 .. L : after[k + 1] \in S => after[k] \in S
  <2>1. \A k \in 1 .. L : \A a \in S : Judge(a, prints[k]) \in S
    BY <1>1, TakeKeeps DEF Judge
  <2> HIDE DEF S, L
  <2> QED BY <1>2, <2>1
<1>4. \A k \in 1 .. L + 1 : after[k] \in S
  <2> HIDE DEF S, L
  <2> QED BY <1>1, <1>2, <1>3, Backwards
<1>5. after[1] \in S
  <2> HIDE DEF S
  <2> QED BY <1>1, <1>4
<1> QED BY <1>2, <1>5

(* A request is for some prints. *)
LEMMA RequestIsSome ==
  ASSUME NEW c \in Camps
  PROVE Request(c) \in Nat \ {0}
<1>1. c.reach \in Reaches /\ c.pulled \in Nat /\ c.held \in Nat
  BY DEF Camps
<1>2. /\ c.reach.n \in Nat /\ PerHour \in Nat /\ PerSession \in Nat
      /\ PageSize \in Nat /\ Ceiling \in Nat
  BY <1>1, ReachFacts, RunAssumption
<1>3. c.reach.n * PerHour \in Nat /\ (c.reach.n + 1) * PerSession \in Nat
  BY <1>2
<1>4. Budget(c.reach) \in Int
  BY <1>3 DEF Budget
<1> DEFINE one == Budget(c.reach) - c.pulled
           two == Ceiling - c.held - c.pulled
           room == Lesser(Lesser(PageSize, one), two)
<1>5. one \in Int /\ two \in Int
  BY <1>1, <1>2, <1>4
<1>6. room \in Int
  <2> HIDE DEF one, two
  <2> QED BY <1>2, <1>5 DEF Lesser
<1>7. Request(c) = IF room < 1 THEN 1 ELSE room
  BY DEF Request
<1> HIDE DEF room
<1> QED BY <1>6, <1>7

(* A run starts on a chart that has prints. *)
LEMMA StartedIs ==
  ASSUME chart \in Seq(Prints), chart # << >>, NEW reach \in Reaches, NEW id \in Nat \ {0}
  PROVE Started(reach, id) \in Camps /\ Started(reach, id).id = id
<1> DEFINE new == [reach |-> reach, id |-> id, oldest |-> Ms[chart[Len(chart)]], closes |-> 0,
                   traded |-> 0, open |-> 0, held |-> Len(chart), from |-> Ms[chart[1]],
                   pulled |-> 0, pages |-> 0, idle |-> 0, asked |-> 0, blind |-> FALSE]
           rest == SubSeq(chart, 1, Len(chart) - 1)
           over == IF reach.kind = "hours" THEN new ELSE TakeBack(new, rest)
<1>1. Len(chart) \in Nat /\ chart[1] \in Prints /\ chart[Len(chart)] \in Prints
  OBVIOUS
<1>2. Ms[chart[1]] \in Int /\ Ms[chart[Len(chart)]] \in Int
  BY <1>1, Stamps
<1>3. new \in Camps /\ new.id = id
  BY <1>1, <1>2 DEF Camps
<1>4. rest \in Seq(Prints)
  OBVIOUS
<1> HIDE DEF new, rest
<1>5. over \in Camps /\ over.id = id
  BY <1>3, <1>4, TakeBackKeeps
<1>6. Started(reach, id) = [over EXCEPT !.oldest = Ms[chart[1]]]
  BY DEF Started, new, rest
<1> HIDE DEF over
<1> QED BY <1>2, <1>5, <1>6 DEF Camps

(* A page changes neither the target of the run it is judged by nor whose it is. *)
LEMMA AdvancedIs ==
  ASSUME NEW c \in Camps, NEW page \in Seq(Prints)
  PROVE Advanced(c, page) \in Camps /\ Advanced(c, page).id = c.id
<1> DEFINE d == [c EXCEPT !.pulled = @ + Len(page)]
           taken == TakeBack(d, page)
           oldest == IF page = << >> THEN taken.oldest ELSE Lesser(taken.oldest, Ms[page[1]])
           idle == IF oldest < c.oldest THEN 0 ELSE c.idle + 1
<1>1. d \in Camps /\ d.id = c.id
  <2> DEFINE more == c.pulled + Len(page)
  <2>1. more \in Nat
    BY DEF Camps
  <2>2. d = [c EXCEPT !.pulled = more]
    OBVIOUS
  <2> HIDE DEF more
  <2> QED BY <2>1, <2>2 DEF Camps
<1> HIDE DEF d
<1>2. taken \in Camps /\ taken.id = c.id
  BY <1>1, TakeBackKeeps
<1> HIDE DEF taken
<1>3. taken.oldest \in Int /\ c.idle \in Nat
  BY <1>2 DEF Camps
<1>4. page # << >> => Ms[page[1]] \in Int
  BY Stamps
<1>5. oldest \in Int
  BY <1>3, <1>4 DEF Lesser
<1> HIDE DEF oldest
<1>6. idle \in Nat
  BY <1>3
<1>7. Advanced(c, page) = [taken EXCEPT !.oldest = oldest, !.idle = idle]
  BY DEF Advanced, d, taken, oldest
<1> HIDE DEF idle
<1> QED BY <1>2, <1>5, <1>6, <1>7 DEF Camps

-----------------------------------------------------------------------------
(* What a run may leave behind: a request on its way, or no run.            *)
Leaves(r, id, w) ==
  /\ run' \in Runs /\ run'.camp \in Camps /\ run'.camp.id = id
  /\ run'.out /\ run'.paused = r.paused /\ run'.queued \in {r.queued, NoReach}
  /\ tab' = [tab EXCEPT !.wait = w + 1]
  /\ \E ask \in Asks : ask.id = id /\ feed' = [feed EXCEPT !.asks = Append(@, ask)]
Quits(r, w) ==
  /\ run' \in Runs /\ run'.camp = NoCampaign
  /\ ~run'.out /\ ~run'.paused /\ run'.queued \in {r.queued, NoReach}
  /\ tab' \in {tab, [tab EXCEPT !.wait = w]} /\ feed' = feed

(* A run that sends its request has one out, or is over. *)
LEMMA SendIs ==
  ASSUME NEW r \in Runs, NEW c \in Camps, NEW w, Send(r, c, w)
  PROVE (Leaves(r, c.id, w) \/ Quits(r, w)) /\ outcome'.end \in {outcome.end, "refused"}
<1> DEFINE count == Request(c)
           sent == [c EXCEPT !.pages = @ + 1, !.asked = count]
           ask == [count |-> count, id |-> c.id]
<1>1. count \in Nat \ {0}
  BY RequestIsSome
<1> HIDE DEF count
<1>2. sent \in Camps /\ sent.id = c.id
  <2> DEFINE pages == c.pages + 1
  <2>1. pages \in Nat
    BY DEF Camps
  <2>2. sent = [c EXCEPT !.pages = pages, !.asked = count]
    OBVIOUS
  <2> HIDE DEF pages
  <2> QED BY <1>1, <2>1, <2>2 DEF Camps
<1>3. ask \in Asks /\ ask.id = c.id
  BY <1>1 DEF Asks, Camps
<1>4. CASE /\ run' = [r EXCEPT !.camp = sent, !.out = TRUE]
           /\ tab' = [tab EXCEPT !.wait = w + 1]
           /\ feed' = [feed EXCEPT !.asks = Append(@, ask)]
           /\ UNCHANGED outcome
  <2> HIDE DEF sent, ask
  <2>1. run' \in Runs
    BY <1>2, <1>4 DEF Runs
  <2>2. run'.camp = sent /\ run'.out /\ run'.paused = r.paused /\ run'.queued = r.queued
    BY <1>4 DEF Runs
  <2> QED BY <1>2, <1>3, <1>4, <2>1, <2>2 DEF Leaves
<1>5. CASE /\ run' = Unsent(r) /\ outcome' = Over(sent, "refused")
           /\ tab' = [tab EXCEPT !.wait = w] /\ UNCHANGED feed
  <2> HIDE DEF sent, ask
  <2>1. run' \in Runs /\ run'.camp = NoCampaign /\ ~run'.out /\ ~run'.paused
        /\ run'.queued = r.queued
    BY <1>5 DEF Runs, Unsent
  <2>2. outcome'.end = "refused"
    BY <1>5 DEF Over
  <2> QED BY <1>5, <2>1, <2>2 DEF Quits
<1> QED BY <1>4, <1>5 DEF Send, count

(* The run a press begins from: nothing queued, and not paused.             *)
Fresh == [run EXCEPT !.queued = NoReach, !.paused = FALSE]

(* It is a run like another. *)
LEMMA FreshIs ==
  ASSUME run \in Runs
  PROVE /\ Fresh \in Runs /\ Fresh.queued = NoReach /\ ~Fresh.paused
        /\ Fresh.camp = run.camp /\ Fresh.out = run.out
BY DEF Runs, Fresh

(* A press that begins has its request out, or is over at once. *)
LEMMA BeginIs ==
  ASSUME run \in Runs, ~run.out, run.camp = NoCampaign, chart \in Seq(Prints),
         NEW reach \in Reaches, NEW id \in Nat \ {0}, Begin(reach, id), outcome.end \in Ends
  PROVE /\ (chart # << >> /\ Leaves(Fresh, id, tab.wait)) \/ Quits(Fresh, tab.wait)
        /\ outcome'.end \in Ends
<1> DEFINE c == Started(reach, id)
<1>1. Fresh \in Runs /\ Fresh.queued = NoReach /\ ~Fresh.paused /\ Fresh.camp = NoCampaign
      /\ ~Fresh.out
  BY FreshIs
<1>2. chart # << >> => c \in Camps /\ c.id = id
  BY StartedIs
<1>3. CASE chart # << >> /\ Send(Fresh, c, tab.wait)
  <2> DEFINE w == tab.wait
  <2>1. Send(Fresh, c, w)
    BY <1>3
  <2> HIDE DEF c, w
  <2>2. (Leaves(Fresh, c.id, w) \/ Quits(Fresh, w)) /\ outcome'.end \in {outcome.end, "refused"}
    BY <1>1, <1>2, <1>3, <2>1, SendIs
  <2>3. outcome'.end \in Ends
    BY <2>2 DEF Ends
  <2>4. c.id = id
    BY <1>2, <1>3
  <2> QED BY <1>3, <2>2, <2>3, <2>4 DEF w
<1>4. CASE /\ run' = Fresh /\ UNCHANGED <<tab, feed>>
           /\ \/ outcome' = [end |-> "empty"]
              \/ outcome' = Over(c, "already") \/ outcome' = Over(c, "full")
  <2>1. outcome'.end \in Ends
    BY <1>4 DEF Over, Ends
  <2> HIDE DEF c
  <2>2. tab' = tab /\ feed' = feed
    BY <1>4
  <2> QED BY <1>1, <1>4, <2>1, <2>2 DEF Quits
<1>5. \/ chart # << >> /\ Send(Fresh, c, tab.wait)
      \/ /\ run' = Fresh /\ UNCHANGED <<tab, feed>>
         /\ \/ outcome' = [end |-> "empty"]
            \/ outcome' = Over(c, "already") \/ outcome' = Over(c, "full")
  BY DEF Begin, Fresh
<1> HIDE DEF c
<1> QED BY <1>3, <1>4, <1>5
-----------------------------------------------------------------------------
(* What a step of the tab does to the request that is out.                  *)
Sound ==
  /\ run' \in Runs /\ tab' \in Tabs /\ reopened' = reopened
  /\ outcome'.end \in Ends /\ presses' \in Nat /\ (Queued' => presses' > 0)
Kept == panes' \in Pans /\ panes'.kept = panes.kept /\ (panes'.failed => panes.kept > 0)
Shown == panes' \in Pans /\ panes'.kept = 0 /\ ~panes'.failed
Stops == run'.camp = NoCampaign /\ ~run'.paused
Stays == run'.camp = run.camp /\ run'.paused = run.paused /\ tab'.wait \in {0, tab.wait}
Asked == \E ask \in Asks : ask.id = run'.camp.id /\ feed' = [feed EXCEPT !.asks = Append(@, ask)]
AsksOne == run'.camp \in Camps /\ run'.out /\ ~run'.paused /\ Asked
Rests ==
  /\ UNCHANGED <<chart, feed, inbox, foreign, overtaken>> /\ Sound /\ (Kept \/ Shown)
  /\ Single => run'.out = run.out /\ tab'.wait <= 1 /\ (Stops \/ Stays)
Sends ==
  /\ UNCHANGED <<chart, inbox, foreign, overtaken>> /\ Sound /\ Kept /\ Asked
  /\ Single => ~run.out /\ chart # << >> /\ AsksOne /\ tab'.wait <= 1
Taken(page) ==
  /\ chart' \in Seq(Prints) /\ overtaken' \in BOOLEAN
  /\ panes' \in Pans /\ panes'.kept <= Len(chart') /\ (panes'.failed => panes'.kept > 0)
  /\ overtaken => overtaken'
  /\ ~overtaken' => chart' = page \o chart
  /\ chart' = << >> => page = << >> /\ chart = << >>
Hears ==
  LET m == Head(inbox) IN
  /\ inbox # << >> /\ m.t = "prepended" /\ inbox' = Tail(inbox)
  /\ Taken(m.prints) /\ Sound /\ (feed' = feed \/ Asked)
  /\ foreign' = (foreign \/ (Running /\ m.id # run.camp.id))
  /\ Single =>
       /\ tab'.wait <= 1
       /\ \/ ~run'.out /\ feed' = feed /\ Stops
          \/ Running /\ ~run'.out /\ feed' = feed /\ run'.paused /\ tab'.wait = 0
             /\ run'.camp \in Camps
          \/ Running /\ AsksOne
Fills ==
  LET m == Head(inbox) IN
  /\ inbox # << >> /\ m.t = "opening" /\ inbox' = Tail(inbox)
  /\ Taken(m.prints) /\ Sound
  /\ UNCHANGED <<feed, foreign>>
  /\ run'.out = run.out /\ run'.paused = run.paused /\ tab'.wait = tab.wait
  /\ \/ ~Running /\ run'.camp = NoCampaign
     \/ Running /\ run'.camp \in Camps /\ run'.camp.id = run.camp.id

(* What a run leaves behind is sound. *)
LEMMA LeavesSound ==
  ASSUME NEW r \in Runs, NEW id, NEW w \in Nat, tab \in Tabs, reopened' = reopened,
         r.queued # NoReach => presses' > 0, presses' \in Nat, outcome'.end \in Ends,
         Leaves(r, id, w)
  PROVE Sound /\ Asked /\ tab'.wait = w + 1 /\ (~r.paused => AsksOne)
<1>1. tab' \in Tabs /\ tab'.wait = w + 1
  BY DEF Leaves, Tabs
<1>2. run' \in Runs /\ (run'.queued # NoReach => presses' > 0)
  BY DEF Leaves
<1>3. Asked /\ (~r.paused => AsksOne)
  BY DEF Leaves, AsksOne, Asked
<1> QED BY <1>1, <1>2, <1>3 DEF Sound, Queued

(* So is what a run leaves that could not send or had nothing to ask. *)
LEMMA EndsSound ==
  ASSUME NEW r \in Runs, NEW w \in Nat, tab \in Tabs, reopened' = reopened,
         r.queued # NoReach => presses' > 0, presses' \in Nat, outcome'.end \in Ends,
         Quits(r, w)
  PROVE Sound /\ Stops /\ ~run'.out /\ feed' = feed /\ tab'.wait \in {tab.wait, w}
<1>1. tab' \in Tabs /\ tab'.wait \in {tab.wait, w}
  BY DEF Quits, Tabs
<1> QED BY <1>1 DEF Sound, Stops, Queued, Quits

(* A run that is over without a request out leaves everything else to rest. *)
LEMMA EndsRest ==
  ASSUME Types, Single => ~run.out, UNCHANGED <<chart, feed, inbox, foreign, overtaken>>, Sound,
         Kept, Stops, ~run'.out, Single => tab'.wait <= 1
  PROVE Rests
<1>1. run \in Runs /\ run' \in Runs
  BY DEF Types, Sound
<1>2. Single => run'.out = run.out
  BY <1>1 DEF Runs
<1> QED BY <1>2 DEF Rests

(* A press leaves the tab at rest, or sends the run's first request. *)
LEMMA PressIs ==
  ASSUME Types, Press
  PROVE Rests \/ Sends
<1>1. /\ run \in Runs /\ tab \in Tabs /\ chart \in Seq(Prints) /\ presses \in Nat
      /\ outcome.end \in Ends /\ panes \in Pans /\ tab.wait \in Nat
  BY DEF Types, Tabs
<1>2. /\ presses' = presses + 1 /\ UNCHANGED <<chart, inbox, foreign, overtaken>>
      /\ reopened' = reopened /\ panes' = [panes EXCEPT !.failed = FALSE]
  BY DEF Press
<1>3. presses' \in Nat /\ presses' > 0 /\ presses' \in Nat \ {0}
  BY <1>1, <1>2
<1>4. Kept
  BY <1>1, <1>2 DEF Kept, Pans
<1>w. Single => tab.wait <= 1
  BY DEF Single, Paused
<1>5. PICK reach \in Reaches :
        \/ Running /\ UNCHANGED <<run, tab, feed, outcome>>
        \/ ~Running /\ Idle /\ ~run.out /\ Begin(reach, presses')
        \/ /\ ~Running /\ run' = [run EXCEPT !.queued = reach]
           /\ UNCHANGED <<tab, feed, outcome>>
  BY DEF Press
<1>6. CASE Running /\ UNCHANGED <<run, tab, feed, outcome>>
  <2>1. run' = run /\ tab' = tab /\ feed' = feed /\ outcome' = outcome
    BY <1>6
  <2>2. Sound
    BY <1>1, <1>2, <1>3, <2>1 DEF Sound
  <2> QED BY <1>2, <1>4, <1>w, <2>1, <2>2 DEF Rests, Stays
<1>7. CASE ~Running /\ Idle /\ ~run.out /\ Begin(reach, presses')
  <2>1. run.camp = NoCampaign /\ tab.wait = 0
    BY <1>7 DEF Running, Idle
  <2> DEFINE id == presses'
             w == tab.wait
             ok == outcome'.end \in Ends
  <2>2. ((chart # << >> /\ Leaves(Fresh, id, w)) \/ Quits(Fresh, w)) /\ ok
    <3>1. id \in Nat \ {0} /\ Begin(reach, id)
      BY <1>3, <1>7
    <3> HIDE DEF id
    <3> QED BY <1>1, <1>7, <2>1, <3>1, BeginIs
  <2>3. Fresh \in Runs /\ Fresh.queued = NoReach /\ ~Fresh.paused
    BY <1>1, FreshIs
  <2>4. w \in Nat /\ w = 0 /\ reopened' = reopened
    BY <1>2, <2>1
  <2> HIDE DEF id, w
  <2>5. CASE chart # << >> /\ Leaves(Fresh, id, w)
    <3>1. Sound /\ Asked /\ tab'.wait = w + 1 /\ AsksOne
      BY <1>1, <1>3, <2>2, <2>3, <2>4, <2>5, LeavesSound
    <3>2. tab'.wait <= 1
      BY <2>4, <3>1
    <3> QED BY <1>2, <1>4, <1>7, <2>5, <3>1, <3>2 DEF Sends
  <2>6. CASE Quits(Fresh, w)
    <3>1. Sound /\ Stops /\ ~run'.out /\ feed' = feed /\ tab'.wait \in {tab.wait, w}
      BY <1>1, <1>3, <2>2, <2>3, <2>4, <2>6, EndsSound
    <3>2. tab'.wait <= 1
      BY <2>1, <2>4, <3>1
    <3> QED BY <1>2, <1>4, <1>7, <3>1, <3>2, EndsRest
  <2> QED BY <2>2, <2>5, <2>6
<1>8. CASE /\ ~Running /\ run' = [run EXCEPT !.queued = reach]
           /\ UNCHANGED <<tab, feed, outcome>>
  <2>1. run' \in Runs /\ run'.out = run.out /\ run'.camp = run.camp /\ run'.paused = run.paused
    BY <1>1, <1>8 DEF Runs
  <2>2. tab' = tab /\ feed' = feed /\ outcome' = outcome
    BY <1>8
  <2>3. Sound
    BY <1>1, <1>2, <1>3, <2>1, <2>2 DEF Sound
  <2> QED BY <1>2, <1>4, <1>w, <2>1, <2>2, <2>3 DEF Rests, Stays
<1> QED BY <1>5, <1>6, <1>7, <1>8

(* A frame sends the request of a queued or a paused run, or ends it. *)
LEMMA FrameIs ==
  ASSUME Types, Frame
  PROVE Rests \/ Sends
<1>1. /\ run \in Runs /\ tab \in Tabs /\ chart \in Seq(Prints) /\ presses \in Nat
      /\ outcome.end \in Ends /\ panes \in Pans /\ tab.wait \in Nat
      /\ (panes.failed => panes.kept > 0) /\ (Queued => presses > 0)
  BY DEF Types, Tabs
<1>2. /\ UNCHANGED <<chart, inbox, foreign, overtaken, presses>> /\ reopened' = reopened
      /\ presses' = presses /\ panes' = panes
  BY DEF Frame
<1>4. Kept
  BY <1>1, <1>2 DEF Kept, Pans
<1> DEFINE w == tab.wait
<1>w. w \in Nat /\ w = tab.wait /\ (Single => tab.wait <= 1)
  BY <1>1 DEF Single, Paused
<1> HIDE DEF w
<1>5. CASE PollBegins /\ Begin(run.queued, presses)
  <2>1. run.camp = NoCampaign /\ tab.wait = 0 /\ ~run.out /\ presses \in Nat \ {0}
    BY <1>1, <1>5 DEF Running, Idle, PollBegins
  <2>2. run.queued \in Reaches
    BY <1>1, <1>5 DEF Runs, PollBegins, Queued
  <2>3. ((chart # << >> /\ Leaves(Fresh, presses, w)) \/ Quits(Fresh, w)) /\ outcome'.end \in Ends
    <3> DEFINE reach == run.queued
    <3>1. reach \in Reaches /\ Begin(reach, presses)
      BY <1>5, <2>2
    <3> HIDE DEF reach
    <3> QED BY <1>1, <2>1, <3>1, BeginIs DEF w
  <2>4. Fresh \in Runs /\ Fresh.queued = NoReach /\ ~Fresh.paused /\ w = 0
    BY <1>1, <1>w, <2>1, FreshIs
  <2>5. CASE chart # << >> /\ Leaves(Fresh, presses, w)
    <3>1. Sound /\ Asked /\ tab'.wait = w + 1 /\ AsksOne
      BY <1>1, <1>2, <1>w, <2>3, <2>4, <2>5, LeavesSound
    <3>2. tab'.wait <= 1
      BY <2>4, <3>1
    <3> QED BY <1>2, <1>4, <2>1, <2>5, <3>1, <3>2 DEF Sends
  <2>6. CASE Quits(Fresh, w)
    <3>1. Sound /\ Stops /\ ~run'.out /\ feed' = feed /\ tab'.wait \in {tab.wait, w}
      BY <1>1, <1>2, <1>w, <2>3, <2>4, <2>6, EndsSound
    <3>2. tab'.wait <= 1
      BY <2>1, <2>4, <3>1
    <3> QED BY <1>2, <1>4, <2>1, <3>1, <3>2, EndsRest
  <2> QED BY <2>3, <2>5, <2>6
<1>6. CASE PollResumes /\ Send([run EXCEPT !.paused = FALSE], run.camp, tab.wait)
  <2> DEFINE r == [run EXCEPT !.paused = FALSE]
             c == run.camp
  <2>1. r \in Runs /\ ~r.paused /\ r.queued = run.queued /\ c \in Camps
    BY <1>1, <1>6 DEF Runs, PollResumes, Running
  <2>2. Single => tab.wait = 0 /\ ~run.out /\ chart # << >>
    BY <1>6 DEF PollResumes, Single, Paused, OpensFirst
  <2>3. Send(r, c, w)
    BY <1>6 DEF w
  <2> HIDE DEF r, c
  <2>4. (Leaves(r, c.id, w) \/ Quits(r, w)) /\ outcome'.end \in {outcome.end, "refused"}
    BY <2>1, <2>3, SendIs
  <2>5. outcome'.end \in Ends /\ presses' \in Nat /\ (r.queued # NoReach => presses' > 0)
    BY <1>1, <1>2, <2>1, <2>4 DEF Ends, Queued
  <2>6. CASE Leaves(r, c.id, w)
    <3>1. Sound /\ Asked /\ tab'.wait = w + 1 /\ AsksOne
      BY <1>1, <1>2, <1>w, <2>1, <2>5, <2>6, LeavesSound
    <3>2. Single => tab'.wait <= 1
      BY <1>w, <2>2, <3>1
    <3> QED BY <1>2, <1>4, <2>2, <3>1, <3>2 DEF Sends
  <2>7. CASE Quits(r, w)
    <3>1. Sound /\ Stops /\ ~run'.out /\ feed' = feed /\ tab'.wait \in {tab.wait, w}
      BY <1>1, <1>2, <1>w, <2>1, <2>5, <2>7, EndsSound
    <3>2. Single => tab'.wait <= 1
      BY <1>w, <3>1
    <3> QED BY <1>2, <1>4, <2>2, <3>1, <3>2, EndsRest
  <2> QED BY <2>4, <2>6, <2>7
<1> QED BY <1>5, <1>6 DEF Frame

(* What the trader and the panes do besides leaves a request where it is. *)
LEMMA QuietIs ==
  ASSUME Types, Cancel \/ Show \/ Hide \/ Rebuild \/ RebuildFails
  PROVE Rests
<1>1. /\ run \in Runs /\ tab \in Tabs /\ presses \in Nat /\ (Queued => presses > 0)
      /\ outcome.end \in Ends /\ panes \in Pans /\ (panes.failed => panes.kept > 0)
      /\ tab.wait \in Nat /\ panes.kept \in Nat
  BY DEF Types, Tabs, Pans
<1>2. /\ UNCHANGED <<chart, feed, inbox, foreign, overtaken, presses>> /\ reopened' = reopened
      /\ presses' = presses
  BY DEF Cancel, Show, Hide, Rebuild, RebuildFails
<1>w. Single => tab.wait <= 1
  BY DEF Single, Paused
<1>3. CASE Cancel
  <2>1. run' = Cancelled(run) /\ tab' = tab /\ outcome'.end \in Ends /\ panes' = panes
    BY <1>1, <1>3 DEF Cancel, Over, Ends
  <2>2. run' \in Runs /\ run'.out = run.out /\ Stops /\ run'.queued = NoReach
    BY <1>1, <2>1 DEF Cancelled, Runs, Stops
  <2>3. Sound /\ Kept
    BY <1>1, <1>2, <2>1, <2>2 DEF Sound, Queued, Kept
  <2> QED BY <1>2, <1>w, <2>1, <2>2, <2>3 DEF Rests
<1>4. CASE Show \/ Hide \/ Rebuild \/ RebuildFails
  <2>1. run' = run /\ outcome' = outcome
    BY <1>4 DEF Show, Hide, Rebuild, RebuildFails
  <2>2. tab' \in Tabs /\ tab'.wait \in {0, tab.wait} /\ (Kept \/ Shown)
    <3>1. CASE Show
      BY <1>1, <3>1 DEF Show, Tabs, Kept
    <3>2. CASE Hide
      BY <1>1, <3>2 DEF Hide, Tabs, Kept
    <3>3. CASE Rebuild
      <4>1. tab' = tab /\ panes' = [panes EXCEPT !.kept = 0] /\ ~panes.failed
        BY <3>3 DEF Rebuild, Rebuilding, Pending
      <4>2. Shown
        BY <1>1, <4>1 DEF Shown, Pans
      <4> QED BY <1>1, <4>1, <4>2
    <3>4. CASE RebuildFails
      <4>1. /\ tab' = [tab EXCEPT !.wait = 0] /\ panes' = [panes EXCEPT !.failed = TRUE]
            /\ panes.kept > 0
        BY <3>4 DEF RebuildFails, Rebuilding, Pending
      <4>2. Kept
        BY <1>1, <4>1 DEF Kept, Pans
      <4>3. tab' \in Tabs /\ tab'.wait = 0
        BY <1>1, <4>1 DEF Tabs
      <4> QED BY <4>2, <4>3
    <3> QED BY <1>4, <3>1, <3>2, <3>3, <3>4
  <2>3. Sound
    BY <1>1, <1>2, <2>1, <2>2 DEF Sound, Queued
  <2>4. Single => tab'.wait <= 1
    BY <1>w, <2>2
  <2> QED BY <1>2, <2>1, <2>2, <2>3, <2>4 DEF Rests, Stays
<1> QED BY <1>3, <1>4

(* The head and the tail of a sequence, by position. *)
LEMMA HeadAndTail ==
  ASSUME NEW S, NEW s \in Seq(S), s # << >>
  PROVE /\ Head(s) = s[1] /\ Head(s) \in S /\ Len(s) \in Nat /\ Len(s) >= 1
        /\ Tail(s) \in Seq(S) /\ Len(Tail(s)) = Len(s) - 1
        /\ \A i \in 1 .. Len(s) - 1 : Tail(s)[i] = s[i + 1]
OBVIOUS

(* What is retained and what is displayed make up the chart. *)
LEMMA CutIs ==
  ASSUME NEW s \in Seq(Prints), NEW k \in Nat, k <= Len(s)
  PROVE /\ SubSeq(s, 1, k) \in Seq(Prints) /\ Len(SubSeq(s, 1, k)) = k
        /\ SubSeq(s, k + 1, Len(s)) \in Seq(Prints)
        /\ Len(SubSeq(s, k + 1, Len(s))) = Len(s) - k
        /\ SubSeq(s, 1, k) \o SubSeq(s, k + 1, Len(s)) = s
<1>1. Len(s) \in Nat /\ \A i \in 1 .. Len(s) : s[i] \in Prints
  OBVIOUS
<1>2. SubSeq(s, 1, k) \in Seq(Prints) /\ Len(SubSeq(s, 1, k)) = k
  BY <1>1, SubSeqProperties
<1>3. SubSeq(s, k + 1, Len(s)) \in Seq(Prints) /\ Len(SubSeq(s, k + 1, Len(s))) = Len(s) - k
  BY <1>1, SubSeqProperties
<1>4. SubSeq(s, 1, k) \o SubSeq(s, k + 1, Len(s)) = SubSeq(s, 1, Len(s))
  <2>1. 1 \in 1 .. Len(s) + 1 /\ k \in 1 - 1 .. Len(s) /\ Len(s) \in k .. Len(s)
    BY <1>1
  <2> QED BY <2>1, ConcatAdjacentSubSeq
<1>5. SubSeq(s, 1, Len(s)) = s
  BY SubSeqFull
<1> QED BY <1>2, <1>3, <1>4, <1>5

(* What is displayed is a part of the chart, all of it while nothing is retained. *)
LEMMA DisplayedIs ==
  ASSUME Types
  PROVE /\ Displayed \in Seq(Prints) /\ Len(Displayed) = Len(chart) - panes.kept
        /\ (panes.kept = 0 => Displayed = chart)
        /\ SubSeq(chart, 1, panes.kept) \in Seq(Prints)
        /\ Len(SubSeq(chart, 1, panes.kept)) = panes.kept
        /\ SubSeq(chart, 1, panes.kept) \o Displayed = chart
<1> DEFINE k == panes.kept
<1>1. chart \in Seq(Prints) /\ k \in Nat /\ k <= Len(chart)
  BY DEF Types, Pans
<1> HIDE DEF k
<1>2. /\ SubSeq(chart, 1, k) \in Seq(Prints) /\ Len(SubSeq(chart, 1, k)) = k
      /\ SubSeq(chart, k + 1, Len(chart)) \in Seq(Prints)
      /\ Len(SubSeq(chart, k + 1, Len(chart))) = Len(chart) - k
      /\ SubSeq(chart, 1, k) \o SubSeq(chart, k + 1, Len(chart)) = chart
  BY <1>1, CutIs
<1>3. k = 0 => SubSeq(chart, k + 1, Len(chart)) = chart
  <2>1. k = 0 => k + 1 = 1
    OBVIOUS
  <2>2. SubSeq(chart, 1, Len(chart)) = chart
    BY <1>1, SubSeqFull
  <2> QED BY <2>1, <2>2
<1> QED BY <1>2, <1>3 DEF k, Displayed

(* A page that is retained goes before the chart; one that is drawn does, unless it is
   drawn behind what is retained. *)
LEMMA TakenIs ==
  ASSUME Types, NEW page \in Seq(Prints), Retain(page) \/ Draw(page)
  PROVE Taken(page)
<1>1. /\ chart \in Seq(Prints) /\ panes \in Pans /\ panes.kept \in Nat /\ overtaken \in BOOLEAN
      /\ panes.kept <= Len(chart) /\ (panes.failed => panes.kept > 0)
      /\ Len(chart) \in Nat /\ Len(page) \in Nat
  BY DEF Types, Pans
<1>2. CASE Retain(page)
  <2> DEFINE n == panes.kept + Len(page)
             s == page \o chart
  <2>1. panes' = [kept |-> n, failed |-> FALSE] /\ chart' = s /\ overtaken' = overtaken
    BY <1>2 DEF Retain
  <2>2. s \in Seq(Prints) /\ Len(s) = Len(page) + Len(chart)
    BY <1>1, ConcatProperties
  <2>3. n \in Nat /\ n <= Len(s)
    BY <1>1, <2>2
  <2>4. s = << >> => page = << >> /\ chart = << >>
    BY <1>1, ConcatEqualIffEmpty
  <2> HIDE DEF n
  <2>5. panes' \in Pans /\ panes'.kept = n /\ ~panes'.failed
    BY <2>1, <2>3 DEF Pans
  <2> QED BY <1>1, <2>1, <2>2, <2>3, <2>4, <2>5 DEF Taken
<1>3. CASE Draw(page)
  <2> DEFINE a == SubSeq(chart, 1, panes.kept)
             d == Displayed
             s == (a \o page) \o d
             late == panes.kept > 0 /\ page # << >>
  <2>1. panes' = panes /\ chart' = s /\ overtaken' = (overtaken \/ late)
    BY <1>3 DEF Draw
  <2>2. /\ a \in Seq(Prints) /\ d \in Seq(Prints) /\ a \o d = chart /\ Len(a) = panes.kept
        /\ Len(d) = Len(chart) - panes.kept /\ (panes.kept = 0 => d = chart)
    BY DisplayedIs
  <2> HIDE DEF a, d
  <2>3. a \o page \in Seq(Prints) /\ Len(a \o page) = panes.kept + Len(page)
    BY <2>2, ConcatProperties
  <2>4. s \in Seq(Prints) /\ Len(s) = Len(a \o page) + Len(d)
    BY <2>2, <2>3, ConcatProperties
  <2>5. panes.kept <= Len(s)
    <3> HIDE DEF s
    <3> QED BY <1>1, <2>2, <2>3, <2>4
  <2>6. ~late => s = page \o chart
    <3>1. CASE panes.kept = 0
      <4>1. a = << >>
        BY <2>2, <3>1
      <4>2. a \o page = page
        BY <4>1, ConcatEmptySeq
      <4> QED BY <2>2, <3>1, <4>2
    <3>2. CASE page = << >>
      <4>1. a \o page = a
        BY <2>2, <3>2, ConcatEmptySeq
      <4>2. page \o chart = chart
        BY <1>1, <3>2, ConcatEmptySeq
      <4> QED BY <2>2, <4>1, <4>2
    <3>3. late \/ panes.kept = 0 \/ page = << >>
      BY <1>1
    <3> QED BY <3>1, <3>2, <3>3
  <2>7. s = << >> => page = << >> /\ chart = << >>
    <3>1. s = << >> => a \o page = << >> /\ d = << >>
      BY <2>2, <2>3, ConcatEqualIffEmpty
    <3>2. a \o page = << >> => a = << >> /\ page = << >>
      BY <2>2, ConcatEqualIffEmpty
    <3>3. a = << >> /\ d = << >> => chart = << >>
      BY <2>2
    <3> HIDE DEF s
    <3> QED BY <3>1, <3>2, <3>3
  <2> HIDE DEF s, late
  <2> QED BY <1>1, <2>1, <2>4, <2>5, <2>6, <2>7 DEF Taken
<1> QED BY <1>2, <1>3

(* The event that is taken, and what is in it. *)
LEMMA HeadIs ==
  ASSUME Types, inbox # << >>
  PROVE /\ Head(inbox) \in Events /\ Head(inbox).prints \in Seq(Prints)
        /\ 1 \in 1 .. Len(inbox) /\ Head(inbox) = inbox[1]
        /\ (Head(inbox).t = "opening" => Head(inbox).remaining \in Nat)
<1>1. inbox \in Seq(Events)
  BY DEF Types
<1>2. Head(inbox) \in Events /\ Head(inbox) = inbox[1] /\ Len(inbox) \in Nat /\ Len(inbox) >= 1
  BY <1>1, HeadAndTail
<1> QED BY <1>2 DEF Events

(* A paused run hears no reply. *)
LEMMA PausedIsDeaf ==
  ASSUME Types, Single, inbox # << >>, Head(inbox).t = "prepended"
  PROVE ~run.paused
<1>1. CASE run.paused
  <2>1. ~run.out /\ chart # << >>
    BY <1>1 DEF Single, Paused, OpensFirst
  <2>2. 1 \in 1 .. Len(inbox) /\ Head(inbox) = inbox[1]
    BY HeadIs
  <2>3. ~First(inbox[1]) /\ ~Own(inbox[1])
    BY <2>1, <2>2 DEF Single, OneOut, OpensFirst
  <2> QED BY <2>2, <2>3 DEF First, Own
<1> QED BY <1>1

(* A reply is heard: a run that asked for it judges it, asks again, pauses or ends. *)
LEMMA PrependedIs ==
  ASSUME Types, OnPrepended
  PROVE Hears
<1>1. /\ run \in Runs /\ tab \in Tabs /\ chart \in Seq(Prints) /\ presses \in Nat
      /\ outcome.end \in Ends /\ inbox \in Seq(Events) /\ (Queued => presses > 0)
      /\ tab.wait \in Nat
  BY DEF Types, Tabs
<1> DEFINE page == Head(inbox).prints
           wait == IF tab.wait = 0 THEN 0 ELSE tab.wait - 1
           back == [run EXCEPT !.out = FALSE]
           c == Advanced(run.camp, page)
           next == Verdict(c, feed.pages)
<1>2. /\ inbox # << >> /\ Head(inbox).t = "prepended" /\ inbox' = Tail(inbox)
      /\ presses' = presses /\ reopened' = reopened
      /\ foreign' = (foreign \/ (Running /\ Head(inbox).id # run.camp.id))
      /\ Retain(page) \/ Draw(page)
      /\ \/ /\ ~Running
            /\ run' = back /\ tab' = [tab EXCEPT !.wait = wait]
            /\ UNCHANGED <<feed, outcome>>
         \/ Running /\ next = "ask" /\ tab.visible /\ Send(back, c, wait)
         \/ /\ Running /\ next = "ask" /\ ~tab.visible
            /\ run' = [back EXCEPT !.camp = c, !.paused = TRUE]
            /\ tab' = [tab EXCEPT !.wait = wait]
            /\ UNCHANGED <<feed, outcome>>
         \/ /\ Running /\ next # "ask"
            /\ run' = [back EXCEPT !.camp = NoCampaign]
            /\ outcome' = Over(c, next)
            /\ tab' = [tab EXCEPT !.wait = wait]
            /\ UNCHANGED feed
  BY DEF OnPrepended, Next1
<1>3. page \in Seq(Prints)
  BY <1>2, HeadIs
<1>t. Taken(page)
  BY <1>2, <1>3, TakenIs
<1>4. wait \in Nat /\ (Single => wait = 0)
  BY <1>1 DEF Single, Paused
<1>5. back \in Runs /\ ~back.out /\ back.paused = run.paused /\ back.camp = run.camp
      /\ back.queued = run.queued
  BY <1>1 DEF Runs
<1>p. Single => ~run.paused
  BY <1>2, PausedIsDeaf
<1> HIDE DEF wait, back, page
<1>6. Running => c \in Camps
  BY <1>1, <1>3, AdvancedIs DEF Running, Runs
<1>7. next # "ask" => next \in Ends
  BY DEF Verdict, Ends
<1> HIDE DEF c, next
<1>8. tab' = [tab EXCEPT !.wait = wait] => tab' \in Tabs /\ tab'.wait = wait
  BY <1>1, <1>4 DEF Tabs
<1>9. CASE /\ ~Running
           /\ run' = back /\ tab' = [tab EXCEPT !.wait = wait]
           /\ UNCHANGED <<feed, outcome>>
  <2>1. tab' \in Tabs /\ tab'.wait = wait
    BY <1>8, <1>9
  <2>2. Sound
    BY <1>1, <1>2, <1>5, <1>9, <2>1 DEF Sound, Queued
  <2>3. ~run'.out /\ feed' = feed /\ (Single => Stops)
    BY <1>5, <1>9, <1>p DEF Stops, Running
  <2>4. Single => tab'.wait <= 1
    BY <1>4, <2>1
  <2> QED BY <1>2, <1>t, <2>2, <2>3, <2>4 DEF Hears, page
<1>10. CASE Running /\ next = "ask" /\ tab.visible /\ Send(back, c, wait)
  <2>1. (Leaves(back, c.id, wait) \/ Quits(back, wait)) /\ outcome'.end \in {outcome.end, "refused"}
    BY <1>5, <1>6, <1>10, SendIs
  <2>2. outcome'.end \in Ends /\ presses' \in Nat /\ (back.queued # NoReach => presses' > 0)
    BY <1>1, <1>2, <1>5, <2>1 DEF Ends, Queued
  <2>3. CASE Leaves(back, c.id, wait)
    <3>1. Sound /\ Asked /\ tab'.wait = wait + 1 /\ (~back.paused => AsksOne)
      BY <1>1, <1>2, <1>4, <1>5, <2>2, <2>3, LeavesSound
    <3>2. Single => tab'.wait <= 1 /\ AsksOne
      BY <1>4, <1>5, <1>p, <3>1
    <3> QED BY <1>2, <1>10, <1>t, <3>1, <3>2 DEF Hears, page
  <2>4. CASE Quits(back, wait)
    <3>1. Sound /\ Stops /\ ~run'.out /\ feed' = feed /\ tab'.wait \in {tab.wait, wait}
      BY <1>1, <1>2, <1>4, <1>5, <2>2, <2>4, EndsSound
    <3>2. Single => tab'.wait <= 1
      BY <1>4, <3>1 DEF Single, Paused
    <3> QED BY <1>2, <1>t, <3>1, <3>2 DEF Hears, page
  <2> QED BY <2>1, <2>3, <2>4
<1>11. CASE /\ Running /\ next = "ask" /\ ~tab.visible
            /\ run' = [back EXCEPT !.camp = c, !.paused = TRUE]
            /\ tab' = [tab EXCEPT !.wait = wait]
            /\ UNCHANGED <<feed, outcome>>
  <2>1. tab' \in Tabs /\ tab'.wait = wait
    BY <1>8, <1>11
  <2>2. run' \in Runs /\ run'.camp = c /\ run'.paused /\ ~run'.out /\ run'.queued = run.queued
    BY <1>5, <1>6, <1>11 DEF Runs
  <2>3. Sound
    BY <1>1, <1>2, <1>11, <2>1, <2>2 DEF Sound, Queued
  <2>4. Single => tab'.wait = 0 /\ tab'.wait <= 1
    BY <1>4, <2>1
  <2> QED BY <1>2, <1>6, <1>11, <1>t, <2>2, <2>3, <2>4 DEF Hears, page
<1>12. CASE /\ Running /\ next # "ask"
            /\ run' = [back EXCEPT !.camp = NoCampaign]
            /\ outcome' = Over(c, next)
            /\ tab' = [tab EXCEPT !.wait = wait]
            /\ UNCHANGED feed
  <2>1. tab' \in Tabs /\ tab'.wait = wait
    BY <1>8, <1>12
  <2>2. run' \in Runs /\ run'.camp = NoCampaign /\ run'.paused = run.paused /\ ~run'.out
        /\ run'.queued = run.queued
    BY <1>5, <1>12 DEF Runs
  <2>3. outcome'.end \in Ends
    BY <1>7, <1>12 DEF Over
  <2>4. Sound
    BY <1>1, <1>2, <2>1, <2>2, <2>3 DEF Sound, Queued
  <2>5. Single => tab'.wait <= 1 /\ Stops
    BY <1>4, <1>p, <2>1, <2>2 DEF Stops
  <2> QED BY <1>2, <1>12, <1>t, <2>2, <2>4, <2>5 DEF Hears, page
<1> QED BY <1>2, <1>9, <1>10, <1>11, <1>12

(* A slice of the opening session fills the chart and is not judged. *)
LEMMA OpeningIs ==
  ASSUME Types, OnOpening
  PROVE Fills
<1>1. /\ run \in Runs /\ tab \in Tabs /\ chart \in Seq(Prints) /\ presses \in Nat
      /\ outcome.end \in Ends /\ inbox \in Seq(Events) /\ (Queued => presses > 0)
  BY DEF Types
<1> DEFINE page == Head(inbox).prints
           left == Head(inbox).remaining
<1>2. /\ inbox # << >> /\ Head(inbox).t = "opening" /\ inbox' = Tail(inbox)
      /\ Retain(page) \/ Draw(page)
      /\ tab' = [tab EXCEPT !.opening = left]
      /\ run' = IF Running THEN [run EXCEPT !.camp.blind = TRUE] ELSE run
      /\ feed' = feed /\ outcome' = outcome /\ foreign' = foreign /\ presses' = presses
      /\ reopened' = reopened
  BY DEF OnOpening, Next1
<1>3. left \in Nat /\ page \in Seq(Prints)
  BY <1>2, HeadIs
<1>t. Taken(page)
  BY <1>2, <1>3, TakenIs
<1> HIDE DEF page, left
<1>4. tab' \in Tabs /\ tab'.wait = tab.wait
  BY <1>1, <1>2, <1>3 DEF Tabs
<1>6. CASE Running
  <2> DEFINE c == [run.camp EXCEPT !.blind = TRUE]
  <2>1. run.camp \in Camps
    BY <1>1, <1>6 DEF Runs, Running
  <2>2. c \in Camps /\ c.id = run.camp.id
    BY <2>1 DEF Camps
  <2>3. run' = [run EXCEPT !.camp = c]
    BY <1>1, <1>2, <1>6 DEF Runs
  <2> HIDE DEF c
  <2>4. /\ run' \in Runs /\ run'.camp = c /\ run'.out = run.out /\ run'.paused = run.paused
        /\ run'.queued = run.queued
    BY <1>1, <2>2, <2>3 DEF Runs
  <2>5. Sound
    BY <1>1, <1>2, <1>4, <2>4 DEF Sound, Queued
  <2> QED BY <1>2, <1>4, <1>6, <1>t, <2>2, <2>4, <2>5 DEF Fills, page
<1>7. CASE ~Running
  <2>1. run' = run
    BY <1>2, <1>7
  <2>2. Sound
    BY <1>1, <1>2, <1>4, <2>1 DEF Sound, Queued
  <2> QED BY <1>2, <1>4, <1>7, <1>t, <2>1, <2>2 DEF Fills, Running, page
<1> QED BY <1>6, <1>7

(* Every step of the button is one of these. *)
LEMMA StepIs ==
  ASSUME Types, [RunNext]_runVars
  PROVE Rests \/ Sends \/ Hears \/ Fills
        \/ Block \/ LivePrint \/ Slice \/ Answer \/ Lose \/ Attach
<1>1. CASE UNCHANGED runVars
  <2>1. /\ UNCHANGED <<run, tab, chart, feed, inbox, foreign, overtaken>> /\ reopened' = reopened
        /\ run' = run /\ tab' = tab /\ outcome' = outcome /\ presses' = presses /\ panes' = panes
    BY <1>1 DEF runVars
  <2>2. Sound /\ Kept
    BY <2>1 DEF Types, Sound, Queued, Kept
  <2>3. Single => tab.wait <= 1
    BY DEF Single, Paused
  <2> QED BY <2>1, <2>2, <2>3 DEF Rests, Stays
<1> QED BY <1>1, PressIs, FrameIs, QuietIs, PrependedIs, OpeningIs
       DEF RunNext, TabStep, FeedStep

-----------------------------------------------------------------------------
(* The prints of a stretch of the tape. *)
LEMMA PlacesAre ==
  ASSUME NEW a \in Nat \ {0}, NEW b \in 0 .. N
  PROVE /\ Places(a, b) \in Seq(Prints)
        /\ \A k \in 1 .. Len(Places(a, b)) :
             Places(a, b)[k] = a + k - 1 /\ Places(a, b)[k] \in a .. b
        /\ a <= b => Places(a, b) # << >>
<1>1. N \in Nat
  BY Stamps
<1>2. CASE a <= b
  <2> DEFINE n == b - a + 1
  <2>1. n \in Nat /\ n >= 1
    BY <1>1, <1>2
  <2>2. \A k \in 1 .. n : a + k - 1 \in a .. b /\ a + k - 1 \in Prints
    BY <1>1, <1>2 DEF Prints
  <2>3. Places(a, b) = [k \in 1 .. n |-> a + k - 1]
    BY DEF Places
  <2> HIDE DEF n
  <2>4. Places(a, b) \in Seq(Prints) /\ Len(Places(a, b)) = n
    <3> DEFINE p == Places(a, b)
    <3>1. p \in [1 .. n -> Prints]
      BY <2>2, <2>3
    <3> HIDE DEF p
    <3> QED BY <2>1, <3>1 DEF p
  <2>5. Places(a, b) # << >>
    BY <2>1, <2>4
  <2> QED BY <2>2, <2>3, <2>4, <2>5
<1>3. CASE ~(a <= b)
  <2>1. 1 .. b - a + 1 = 1 .. 0
    BY <1>1, <1>3
  <2>2. Places(a, b) = [k \in 1 .. 0 |-> a + k - 1]
    BY <2>1 DEF Places
  <2>3. Places(a, b) = << >>
    BY <2>2
  <2> QED BY <1>3, <2>3
<1> QED BY <1>2, <1>3

(* What the feed answers with: the prints below its floor that were asked   *)
(* for.                                                                     *)
Reached == IF feed.floor > Head(feed.asks).count THEN feed.floor - Head(feed.asks).count ELSE 1

(* What a request reaches is the part of the tape right below the floor. *)
LEMMA ReachedIs ==
  ASSUME Types, feed.asks # << >>
  PROVE /\ Reached \in 1 .. N + 1 /\ Reached <= feed.floor /\ feed.floor - 1 \in 0 .. N
        /\ feed.floor \in 1 .. N + 1 /\ Reached \in Nat \ {0} /\ Reached + 1 \in Nat \ {0}
        /\ Head(feed.asks) \in Asks /\ Tail(feed.asks) \in Seq(Asks)
<1>1. feed.floor \in 1 .. N + 1 /\ feed.asks \in Seq(Asks)
  BY DEF Types, Feeds
<1>2. Head(feed.asks) \in Asks /\ Tail(feed.asks) \in Seq(Asks)
  BY <1>1, HeadAndTail
<1>3. Head(feed.asks).count \in Nat \ {0}
  BY <1>2 DEF Asks
<1>4. N \in Nat
  BY Stamps
<1> QED BY <1>1, <1>2, <1>3, <1>4 DEF Reached

(* What no step of the feed but a new one touches.                          *)
ours == <<run, tab, panes, chart, outcome, foreign, overtaken, reopened, presses>>

(* What one step of the feed puts on the way. *)
LEMMA AnswerIs ==
  ASSUME Types, Answer
  PROVE /\ feed.asks # << >> /\ UNCHANGED ours
        /\ feed.slices = 0
        /\ \E page \in Seq(Prints) :
             /\ inbox' = Append(inbox, Reply(page, Head(feed.asks).id))
             /\ Reply(page, Head(feed.asks).id) \in Events
             /\ Climbs(page)
             /\ feed' \in Feeds /\ feed'.asks = Tail(feed.asks) /\ feed'.any = feed.any
             /\ feed'.slices = 0 /\ feed'.floor <= feed.floor
             /\ feed.any \/ feed'.floor = feed.floor
             /\ \A k \in 1 .. Len(page) : feed'.floor <= page[k] /\ page[k] < feed.floor
<1> DEFINE id == Head(feed.asks).id
           rest == [feed EXCEPT !.asks = Tail(@)]
<1>1. /\ feed.asks # << >> /\ UNCHANGED ours
      /\ feed.slices = 0 /\ feed \in Feeds
  BY DEF Answer, Types, ours
<1>2. id \in Nat \ {0}
  BY <1>1, ReachedIs DEF Asks
<1>3. rest \in Feeds /\ rest.asks = Tail(feed.asks) /\ rest.any = feed.any /\ rest.slices = 0
      /\ rest.floor = feed.floor /\ rest.pages = feed.pages
  BY <1>1, ReachedIs DEF Feeds
<1>4. \/ feed.any /\ \E drop \in Drops, more \in BOOLEAN :
           /\ inbox' = Append(inbox, Reply(Places(IF drop THEN Reached + 1 ELSE Reached,
                                                  feed.floor - 1), id))
           /\ feed' = [rest EXCEPT !.floor = Reached, !.pages = @ /\ more]
      \/ inbox' = Append(inbox, Reply(<< >>, id)) /\ feed' = rest
  BY DEF Answer, Reached
<1> HIDE DEF id, rest
<1>5. \A page \in Seq(Prints) : Reply(page, id) \in Events
  BY <1>2 DEF Reply, Events
<1>6. CASE feed.any /\ \E drop \in Drops, more \in BOOLEAN :
             /\ inbox' = Append(inbox, Reply(Places(IF drop THEN Reached + 1 ELSE Reached,
                                                    feed.floor - 1), id))
             /\ feed' = [rest EXCEPT !.floor = Reached, !.pages = @ /\ more]
  <2>1. PICK from \in {Reached, Reached + 1}, pages \in BOOLEAN :
          /\ inbox' = Append(inbox, Reply(Places(from, feed.floor - 1), id))
          /\ feed' = [rest EXCEPT !.floor = Reached, !.pages = pages]
    <3>1. PICK drop \in Drops, more \in BOOLEAN :
             /\ inbox' = Append(inbox, Reply(Places(IF drop THEN Reached + 1 ELSE Reached,
                                                    feed.floor - 1), id))
             /\ feed' = [rest EXCEPT !.floor = Reached, !.pages = @ /\ more]
      BY <1>6
    <3> DEFINE from == IF drop THEN Reached + 1 ELSE Reached
               pages == rest.pages /\ more
    <3>2. from \in {Reached, Reached + 1} /\ pages \in BOOLEAN
      OBVIOUS
    <3>3. /\ inbox' = Append(inbox, Reply(Places(from, feed.floor - 1), id))
          /\ feed' = [rest EXCEPT !.floor = Reached, !.pages = pages]
      BY <1>3, <3>1 DEF Feeds
    <3> HIDE DEF from, pages
    <3> QED BY <3>2, <3>3
  <2> DEFINE page == Places(from, feed.floor - 1)
  <2>2. /\ page \in Seq(Prints)
        /\ \A k \in 1 .. Len(page) : page[k] = from + k - 1 /\ page[k] \in from .. feed.floor - 1
    BY <1>1, <2>1, PlacesAre, ReachedIs
  <2>3. Reached \in 1 .. N + 1 /\ Reached <= feed.floor /\ feed.floor \in 1 .. N + 1 /\ N \in Nat
    BY <1>1, ReachedIs, Stamps
  <2>4. /\ feed' \in Feeds /\ feed'.asks = Tail(feed.asks) /\ feed'.any = feed.any
        /\ feed'.slices = 0 /\ feed'.floor = Reached
    BY <1>3, <2>1, <2>3 DEF Feeds
  <2>5. inbox' = Append(inbox, Reply(page, id)) /\ Reply(page, id) \in Events
    BY <1>5, <2>1, <2>2
  <2> HIDE DEF page
  <2>6. \A k \in 1 .. Len(page) : Reached <= page[k] /\ page[k] < feed.floor
    BY <2>1, <2>2, <2>3
  <2>7. Climbs(page)
    <3>1. Len(page) \in Nat /\ from \in Int
      BY <2>1, <2>2, <2>3
    <3>2. SUFFICES ASSUME NEW j \in 1 .. Len(page), NEW i \in 1 .. j - 1
                   PROVE page[i] < page[j]
      BY DEF Climbs
    <3>3. i \in 1 .. Len(page) /\ j \in Int /\ i \in Int /\ i < j
      BY <3>1
    <3>4. page[i] = from + i - 1 /\ page[j] = from + j - 1
      BY <2>2, <3>3
    <3> QED BY <3>1, <3>3, <3>4
  <2> QED BY <1>1, <1>6, <2>2, <2>3, <2>4, <2>5, <2>6, <2>7 DEF id
<1>7. CASE inbox' = Append(inbox, Reply(<< >>, id)) /\ feed' = rest
  <2> DEFINE page == << >>
  <2>1. page \in Seq(Prints) /\ Len(page) = 0 /\ feed.floor \in Nat
    BY <1>1, ReachedIs
  <2>2. Reply(page, id) \in Events
    BY <1>5, <2>1
  <2>3. Climbs(page)
    BY <2>1 DEF Climbs
  <2> HIDE DEF page
  <2>4. inbox' = Append(inbox, Reply(page, id))
    BY <1>7 DEF page
  <2>5. /\ feed' \in Feeds /\ feed'.asks = Tail(feed.asks) /\ feed'.any = feed.any
        /\ feed'.slices = 0 /\ feed'.floor <= feed.floor /\ feed'.floor = feed.floor
    BY <1>3, <1>7, <2>1
  <2>6. \A k \in 1 .. Len(page) : feed'.floor <= page[k] /\ page[k] < feed.floor
    BY <2>1
  <2> QED BY <1>1, <2>1, <2>2, <2>3, <2>4, <2>5, <2>6 DEF id
<1> QED BY <1>4, <1>6, <1>7

(* What one step of the feed puts on the way to the tab. *)
Says(m) ==
  /\ m \in Events /\ inbox' = Append(inbox, m) /\ UNCHANGED ours
  /\ feed' \in Feeds /\ feed'.slices < feed'.floor /\ feed'.floor <= feed.floor
  /\ ~feed'.any => feed'.slices = 0 /\ feed'.floor = N + 1
  /\ Climbs(m.prints)
  /\ \A k \in 1 .. Len(m.prints) : feed'.floor <= m.prints[k] /\ m.prints[k] < feed.floor

Answers ==
  /\ feed.asks # << >> /\ feed'.asks = Tail(feed.asks) /\ feed'.any = feed.any
  /\ Single => feed.any
  /\ \E m : Says(m) /\ m.t = "prepended" /\ m.id = Head(feed.asks).id
SaysSlice ==
  feed'.asks = feed.asks /\ feed.any /\ feed'.any /\ \E m : Says(m) /\ m.t = "opening"
OpensChart ==
  /\ feed'.asks = feed.asks /\ ~feed.any /\ feed'.any
  /\ \E m : Says(m) /\ First(m) /\ m.prints # << >>
Skips == inbox' = inbox /\ feed' = [feed EXCEPT !.st = "live"] /\ UNCHANGED ours

(* A feed, field by field. *)
LEMMA FeedFields ==
  ASSUME NEW f \in Feeds
  PROVE /\ f.st \in {"hello", "live"} /\ f.any \in BOOLEAN /\ f.slices \in Nat
        /\ f.floor \in 1 .. N + 1 /\ f.asks \in Seq(Asks) /\ f.pages \in BOOLEAN
        /\ DOMAIN f = {"st", "any", "slices", "floor", "asks", "pages"}
BY DEF Feeds

(* An answer is a page below everything already on its way, for the request that is out. *)
LEMMA AnswersNow ==
  ASSUME Types, Answer
  PROVE Answers
<1>2. PICK page \in Seq(Prints) :
        /\ inbox' = Append(inbox, Reply(page, Head(feed.asks).id))
        /\ Reply(page, Head(feed.asks).id) \in Events
        /\ Climbs(page)
        /\ feed' \in Feeds /\ feed'.asks = Tail(feed.asks) /\ feed'.any = feed.any
        /\ feed'.slices = 0 /\ feed'.floor <= feed.floor
        /\ feed.any \/ feed'.floor = feed.floor
        /\ \A k \in 1 .. Len(page) : feed'.floor <= page[k] /\ page[k] < feed.floor
  BY AnswerIs
<1>3. feed.asks # << >> /\ UNCHANGED ours
  BY AnswerIs
<1>4. Single => feed.any
  BY <1>3 DEF Single, OpensFirst, OneOut
<1> DEFINE m == Reply(page, Head(feed.asks).id)
<1>5. m.prints = page /\ m.t = "prepended" /\ m.id = Head(feed.asks).id
  BY DEF Reply
<1>6. feed'.slices < feed'.floor
  BY <1>2, Stamps DEF Feeds
<1>9. ~feed'.any => feed'.slices = 0 /\ feed'.floor = N + 1
  BY <1>2 DEF Types
<1>7. inbox' = Append(inbox, m) /\ m \in Events
  BY <1>2
<1> HIDE DEF m
<1>8. Says(m)
  BY <1>2, <1>3, <1>5, <1>6, <1>7, <1>9 DEF Says
<1> QED BY <1>2, <1>3, <1>4, <1>5, <1>8 DEF Answers

(* A slice is the print right below the floor. *)
LEMMA SliceIs ==
  ASSUME Types, Slice
  PROVE SaysSlice
<1>1. feed \in Feeds /\ feed.slices < feed.floor /\ feed.any
  BY DEF Types, Slice
<1> DEFINE m == [t |-> "opening", prints |-> <<feed.floor - 1>>, remaining |-> feed.slices - 1]
<1>2. /\ feed.slices > 0 /\ inbox' = Append(inbox, m)
      /\ feed' = [feed EXCEPT !.slices = @ - 1, !.floor = @ - 1]
      /\ UNCHANGED ours
  BY DEF Slice, ours
<1>3. /\ feed.slices \in Nat /\ feed.floor \in 1 .. N + 1 /\ N \in Nat
      /\ feed.floor - 1 \in Prints /\ feed.slices - 1 \in Nat /\ feed.floor - 1 \in 1 .. N + 1
  BY <1>1, <1>2, Stamps DEF Feeds, Prints
<1>4. m \in Events /\ m.t = "opening" /\ m.prints = <<feed.floor - 1>>
  BY <1>3 DEF Events
<1> HIDE DEF m
<1>5. /\ feed' \in Feeds /\ feed'.slices = feed.slices - 1 /\ feed'.floor = feed.floor - 1
      /\ feed'.asks = feed.asks /\ feed'.any
  BY <1>1, <1>2, <1>3 DEF Feeds
<1>6. Climbs(m.prints)
  BY <1>4 DEF Climbs
<1>7. \A k \in 1 .. Len(m.prints) : feed'.floor <= m.prints[k] /\ m.prints[k] < feed.floor
  BY <1>3, <1>4, <1>5
<1>8. Says(m)
  BY <1>1, <1>2, <1>3, <1>4, <1>5, <1>6, <1>7 DEF Says
<1> QED BY <1>1, <1>4, <1>5, <1>8 DEF SaysSlice

(* The first block opens an empty chart, or is skipped. *)
LEMMA BlockIs ==
  ASSUME Types, Block
  PROVE OpensChart \/ Skips
<1>1. feed \in Feeds
  BY DEF Types
<1>2. CASE feed' = [feed EXCEPT !.st = "live"] /\ UNCHANGED inbox
  BY <1>2 DEF Block, Skips, ours
<1>3. CASE /\ ~feed.any
           /\ \E first \in 1 .. N, slices \in 0 .. 2 :
                /\ slices < first
                /\ inbox' = Append(inbox, Reply(Places(first, N), Unasked))
                /\ feed' = [feed EXCEPT !.st = "live", !.any = TRUE, !.slices = slices,
                                        !.floor = first]
  <2>1. PICK first \in 1 .. N, slices \in 0 .. 2 :
          /\ slices < first
          /\ inbox' = Append(inbox, Reply(Places(first, N), Unasked))
          /\ feed' = [feed EXCEPT !.st = "live", !.any = TRUE, !.slices = slices,
                                  !.floor = first]
    BY <1>3
  <2>2. N \in Nat /\ first \in Nat \ {0} /\ N \in 0 .. N /\ first <= N /\ feed.floor = N + 1
    BY <1>3, <2>1, Stamps DEF Types
  <2> DEFINE page == Places(first, N)
             m == Reply(page, Unasked)
  <2>3. /\ page \in Seq(Prints) /\ page # << >>
        /\ \A k \in 1 .. Len(page) : page[k] = first + k - 1 /\ page[k] \in first .. N
    BY <2>2, PlacesAre
  <2>4. inbox' = Append(inbox, m)
    BY <2>1
  <2>5. /\ feed' \in Feeds /\ feed'.any /\ feed'.slices = slices /\ feed'.floor = first
        /\ feed'.asks = feed.asks
    <3>1. first \in 1 .. N + 1 /\ slices \in Nat
      BY <2>1, <2>2
    <3>2. feed' = [st |-> "live", any |-> TRUE, slices |-> slices, floor |-> first,
                   asks |-> feed.asks, pages |-> feed.pages]
      BY <1>1, <2>1 DEF Feeds
    <3>3. /\ feed.st \in {"hello", "live"} /\ feed.any \in BOOLEAN /\ feed.slices \in Nat
          /\ feed.floor \in 1 .. N + 1 /\ feed.asks \in Seq(Asks) /\ feed.pages \in BOOLEAN
      BY <1>1, FeedFields
    <3> QED BY <3>1, <3>2, <3>3 DEF Feeds
  <2> HIDE DEF page
  <2>6. m \in Events /\ m.prints = page /\ First(m)
    BY <2>3 DEF Reply, Unasked, Events, First
  <2> HIDE DEF m
  <2>7. Climbs(page)
    <3>1. SUFFICES ASSUME NEW j \in 1 .. Len(page), NEW i \in 1 .. j - 1
                   PROVE page[i] < page[j]
      BY DEF Climbs
    <3>2. Len(page) \in Nat
      BY <2>3
    <3>3. i \in 1 .. Len(page) /\ j \in Int /\ i \in Int /\ i < j
      BY <3>1, <3>2
    <3>4. page[i] = first + i - 1 /\ page[j] = first + j - 1
      BY <2>3, <3>3
    <3> QED BY <2>2, <3>3, <3>4
  <2>8. \A k \in 1 .. Len(page) : feed'.floor <= page[k] /\ page[k] < feed.floor
    BY <2>2, <2>3, <2>5
  <2>9. UNCHANGED ours
    BY DEF Block, ours
  <2>10. Says(m)
    BY <2>1, <2>2, <2>4, <2>5, <2>6, <2>7, <2>8, <2>9 DEF Says
  <2> QED BY <1>3, <2>3, <2>5, <2>6, <2>10 DEF OpensChart
<1> QED BY <1>2, <1>3 DEF Block

-----------------------------------------------------------------------------
(* The types are kept. *)
LEMMA TypesStep ==
  ASSUME Types, [RunNext]_runVars
  PROVE Types'
<1>1. /\ run \in Runs /\ tab \in Tabs /\ chart \in Seq(Prints) /\ feed \in Feeds
      /\ inbox \in Seq(Events) /\ presses \in Nat /\ outcome.end \in Ends
      /\ (Queued => presses > 0)
      /\ feed.slices < feed.floor /\ (~feed.any => feed.slices = 0 /\ feed.floor = N + 1)
      /\ panes \in Pans /\ panes.kept <= Len(chart) /\ (panes.failed => panes.kept > 0)
      /\ overtaken \in BOOLEAN /\ reopened \in BOOLEAN /\ (reopened => overtaken)
  BY DEF Types
<1> DEFINE fed == /\ feed' \in Feeds /\ feed'.slices < feed'.floor
                  /\ (~feed'.any => feed'.slices = 0 /\ feed'.floor = N + 1)
<1>2. Asked \/ feed' = feed => fed
  <2>1. CASE Asked
    <3>1. PICK ask \in Asks : feed' = [feed EXCEPT !.asks = Append(@, ask)]
      BY <2>1 DEF Asked
    <3> DEFINE asks == Append(feed.asks, ask)
    <3>2. asks \in Seq(Asks)
      BY <1>1 DEF Feeds
    <3>3. feed' = [feed EXCEPT !.asks = asks]
      BY <3>1
    <3> HIDE DEF asks
    <3>4. /\ feed' \in Feeds /\ feed'.any = feed.any /\ feed'.slices = feed.slices
          /\ feed'.floor = feed.floor
      BY <1>1, <3>2, <3>3 DEF Feeds
    <3> QED BY <1>1, <3>4
  <2>2. CASE feed' = feed
    BY <1>1, <2>2
  <2> QED BY <2>1, <2>2
<1> HIDE DEF fed
<1>k. ASSUME Kept \/ Shown, chart' = chart
      PROVE panes' \in Pans /\ panes'.kept <= Len(chart') /\ (panes'.failed => panes'.kept > 0)
  BY <1>1, <1>k DEF Kept, Shown
<1>3. CASE Rests
  <2>1. fed /\ chart' = chart /\ inbox' = inbox /\ overtaken' = overtaken /\ Sound
    BY <1>2, <1>3 DEF Rests
  <2>2. panes' \in Pans /\ panes'.kept <= Len(chart') /\ (panes'.failed => panes'.kept > 0)
    BY <1>k, <1>3, <2>1 DEF Rests
  <2> QED BY <1>1, <2>1, <2>2 DEF Sound, Types, fed
<1>4. CASE Sends
  <2>1. fed /\ chart' = chart /\ inbox' = inbox /\ overtaken' = overtaken /\ Sound
    BY <1>2, <1>4 DEF Sends
  <2>2. panes' \in Pans /\ panes'.kept <= Len(chart') /\ (panes'.failed => panes'.kept > 0)
    BY <1>k, <1>4, <2>1 DEF Sends
  <2> QED BY <1>1, <2>1, <2>2 DEF Sound, Types, fed
<1>5. ASSUME inbox # << >>, inbox' = Tail(inbox), Taken(Head(inbox).prints), Sound, fed
      PROVE Types'
  <2>1. inbox' \in Seq(Events)
    BY <1>1, <1>5, HeadAndTail
  <2> QED BY <1>1, <1>5, <2>1 DEF Sound, Types, Taken, fed
<1>6. CASE Hears
  <2>1. fed
    BY <1>2, <1>6 DEF Hears
  <2> QED BY <1>5, <1>6, <2>1 DEF Hears
<1>7. CASE Fills
  <2>1. fed
    BY <1>2, <1>7 DEF Fills
  <2> QED BY <1>5, <1>7, <2>1 DEF Fills
<1>8. ASSUME NEW m, Says(m) PROVE Types'
  <2>1. Append(inbox, m) \in Seq(Events)
    BY <1>1, <1>8 DEF Says
  <2>2. /\ run' = run /\ tab' = tab /\ panes' = panes /\ chart' = chart /\ outcome' = outcome
        /\ overtaken' = overtaken /\ reopened' = reopened /\ presses' = presses
    BY <1>8 DEF Says, ours
  <2> QED BY <1>1, <1>8, <2>1, <2>2 DEF Says, Types, Queued
<1>9. CASE Answers \/ SaysSlice \/ OpensChart
  BY <1>8, <1>9 DEF Answers, SaysSlice, OpensChart
<1>10. CASE Skips
  <2>1. /\ feed' \in Feeds /\ feed'.slices = feed.slices /\ feed'.floor = feed.floor
        /\ feed'.any = feed.any
    BY <1>1, <1>10 DEF Skips, Feeds
  <2>2. /\ run' = run /\ tab' = tab /\ panes' = panes /\ chart' = chart /\ outcome' = outcome
        /\ overtaken' = overtaken /\ reopened' = reopened /\ presses' = presses /\ inbox' = inbox
    BY <1>10 DEF Skips, ours
  <2> QED BY <1>1, <2>1, <2>2 DEF Types, Queued
<1>11. CASE LivePrint
  <2>1. N \in Nat /\ N > 0 /\ <<N>> \in Seq(Prints)
    BY Stamps DEF Prints
  <2>2. feed.slices = 0
    BY <1>1, <1>11 DEF LivePrint
  <2>3. feed' \in Feeds /\ feed'.slices = feed.slices /\ feed'.floor = N /\ feed'.any
    <3>1. feed' = [st |-> feed.st, any |-> TRUE, slices |-> feed.slices, floor |-> N,
                   asks |-> feed.asks, pages |-> feed.pages]
      BY <1>1, <1>11 DEF LivePrint, Feeds
    <3>2. N \in 1 .. N + 1
      BY <2>1
    <3>3. /\ feed.st \in {"hello", "live"} /\ feed.any \in BOOLEAN /\ feed.slices \in Nat
          /\ feed.floor \in 1 .. N + 1 /\ feed.asks \in Seq(Asks) /\ feed.pages \in BOOLEAN
      BY <1>1, FeedFields
    <3> QED BY <3>1, <3>2, <3>3 DEF Feeds
  <2>4. /\ run' = run /\ tab' = tab /\ panes' = panes /\ outcome' = outcome /\ inbox' = inbox
        /\ overtaken' = overtaken /\ reopened' = reopened /\ presses' = presses
        /\ chart' = Append(chart, N)
    BY <1>11 DEF LivePrint
  <2>5. chart' \in Seq(Prints) /\ Len(chart') = Len(chart) + 1 /\ Len(chart) \in Nat
    BY <1>1, <2>1, <2>4 DEF Prints
  <2>6. panes.kept <= Len(chart')
    BY <1>1, <2>5 DEF Pans
  <2> QED BY <1>1, <2>1, <2>2, <2>3, <2>4, <2>5, <2>6 DEF Types, Queued
<1>12. CASE Lose
  <2> DEFINE over == [k \in DOMAIN feed.asks |-> Reply(<< >>, feed.asks[k].id)]
  <2>1. feed.asks \in Seq(Asks)
    BY <1>1 DEF Feeds
  <2>2. over \in Seq(Events)
    <3>1. \A k \in 1 .. Len(feed.asks) : Reply(<< >>, feed.asks[k].id) \in Events
      <4> SUFFICES ASSUME NEW k \in 1 .. Len(feed.asks)
                   PROVE Reply(<< >>, feed.asks[k].id) \in Events
        OBVIOUS
      <4>1. feed.asks[k].id \in Nat
        <5>1. feed.asks[k] \in Asks
          BY <2>1
        <5> QED BY <5>1 DEF Asks
      <4>2. << >> \in Seq(Prints)
        OBVIOUS
      <4> QED BY <4>1, <4>2 DEF Reply, Events
    <3>2. /\ over = [k \in 1 .. Len(feed.asks) |-> Reply(<< >>, feed.asks[k].id)]
          /\ Len(feed.asks) \in Nat
      BY <2>1
    <3> QED BY <3>1, <3>2
  <2>3. inbox' = inbox \o over
    BY <1>12 DEF Lose
  <2> HIDE DEF over
  <2>4. inbox' \in Seq(Events)
    BY <1>1, <2>2, <2>3
  <2>5. feed' \in Feeds /\ feed'.slices = 0 /\ feed'.floor = feed.floor /\ feed'.any = feed.any
    <3>1. feed' = [st |-> "hello", any |-> feed.any, slices |-> 0, floor |-> feed.floor,
                   asks |-> << >>, pages |-> TRUE]
      BY <1>1, <1>12 DEF Lose, Feeds
    <3>2. << >> \in Seq(Asks)
      OBVIOUS
    <3>3. /\ feed.st \in {"hello", "live"} /\ feed.any \in BOOLEAN /\ feed.slices \in Nat
          /\ feed.floor \in 1 .. N + 1 /\ feed.asks \in Seq(Asks) /\ feed.pages \in BOOLEAN
      BY <1>1, FeedFields
    <3> QED BY <3>1, <3>2, <3>3 DEF Feeds
  <2>6. feed'.slices < feed'.floor
    BY <1>1, <2>5, Stamps DEF Feeds
  <2>7. /\ run' = run /\ tab' = tab /\ panes' = panes /\ chart' = chart /\ outcome' = outcome
        /\ overtaken' = overtaken /\ reopened' = reopened /\ presses' = presses
    BY <1>12 DEF Lose
  <2> QED BY <1>1, <2>4, <2>5, <2>6, <2>7 DEF Types, Queued
<1>13. CASE Attach
  <2> DEFINE floor == IF Displayed = << >> THEN N + 1 ELSE Displayed[1]
             any == Displayed # << >>
  <2>1. floor \in 1 .. N + 1 /\ floor > 0 /\ (~any => floor = N + 1)
    <3>1. Displayed \in Seq(Prints)
      BY DisplayedIs
    <3>2. Displayed # << >> => Displayed[1] \in Prints
      BY <3>1
    <3> QED BY <3>2, Stamps DEF Prints
  <2>2. feed' = [feed EXCEPT !.st = "hello", !.slices = 0, !.asks = << >>, !.pages = TRUE,
                             !.floor = floor, !.any = any]
    BY <1>13 DEF Attach
  <2> HIDE DEF floor, any
  <2>a. any \in BOOLEAN
    BY DEF any
  <2>3. feed' \in Feeds /\ feed'.slices = 0 /\ feed'.floor = floor /\ feed'.any = any
    <3>1. feed' = [st |-> "hello", any |-> any, slices |-> 0, floor |-> floor,
                   asks |-> << >>, pages |-> TRUE]
      BY <1>1, <2>2 DEF Feeds
    <3>2. << >> \in Seq(Asks)
      OBVIOUS
    <3> QED BY <2>1, <2>a, <3>1, <3>2 DEF Feeds
  <2>4. run' \in Runs /\ run'.queued = NoReach
    <3>1. run' = [queued |-> NoReach, camp |-> NoCampaign, out |-> FALSE, paused |-> FALSE]
      BY <1>1, <1>13 DEF Attach, Runs
    <3> QED BY <3>1 DEF Runs
  <2>5. tab' \in Tabs
    <3>1. tab' = [tab EXCEPT !.wait = 0]
      BY <1>13 DEF Attach
    <3> QED BY <1>1, <3>1 DEF Tabs
  <2>6. /\ panes' = panes /\ chart' = chart /\ outcome' = outcome /\ presses' = presses
        /\ inbox' = << >>
    BY <1>13 DEF Attach
  <2>7. overtaken' \in BOOLEAN /\ reopened' \in BOOLEAN /\ (reopened' => overtaken')
    BY <1>1, <1>13 DEF Attach
  <2> QED BY <1>1, <2>1, <2>3, <2>4, <2>5, <2>6, <2>7 DEF Types, Queued
<1> QED BY <1>3, <1>4, <1>6, <1>7, <1>9, <1>10, <1>11, <1>12, <1>13,
           StepIs, BlockIs, SliceIs, AnswersNow
-----------------------------------------------------------------------------
(* What is at the end of a sequence, and what was there before.             *)
LEMMA Appended ==
  ASSUME NEW S, NEW s \in Seq(S), NEW e \in S
  PROVE /\ Len(Append(s, e)) = Len(s) + 1 /\ Len(s) \in Nat
        /\ Append(s, e)[Len(s) + 1] = e
        /\ \A i \in 1 .. Len(s) : Append(s, e)[i] = s[i]
OBVIOUS

(* Two sequences put together, by position. *)
LEMMA Joined ==
  ASSUME NEW S, NEW s \in Seq(S), NEW e \in Seq(S)
  PROVE /\ Len(s \o e) = Len(s) + Len(e) /\ Len(s) \in Nat /\ Len(e) \in Nat
        /\ \A i \in 1 .. Len(s) : (s \o e)[i] = s[i]
        /\ \A i \in 1 .. Len(e) : (s \o e)[Len(s) + i] = e[i]
OBVIOUS

(* A run is paused exactly while nothing of it is out. *)
LEMMA PausedStep ==
  ASSUME Types, Single, ~reopened', Types', [RunNext]_runVars
  PROVE Paused'
<1>1. /\ run \in Runs /\ tab \in Tabs /\ inbox \in Seq(Events) /\ run' \in Runs
  BY DEF Types
<1>2. /\ run.out \in BOOLEAN /\ run.paused \in BOOLEAN /\ run'.out \in BOOLEAN
      /\ run'.paused \in BOOLEAN
  BY <1>1 DEF Runs
<1>3. /\ Running => (run.paused <=> ~run.out)
      /\ run.paused => Running /\ tab.wait = 0
      /\ tab.wait <= 1
  BY DEF Single, Paused
<1>4. ASSUME UNCHANGED <<run, tab>> PROVE Paused'
  BY <1>3, <1>4 DEF Paused, Running
<1>5. CASE Rests
  <2>1. run'.out = run.out /\ tab'.wait <= 1 /\ (Stops \/ Stays)
    BY <1>5 DEF Rests
  <2>2. CASE Stops
    BY <2>1, <2>2 DEF Stops, Paused, Running
  <2>3. CASE Stays
    BY <1>2, <1>3, <2>1, <2>3 DEF Stays, Paused, Running
  <2> QED BY <2>1, <2>2, <2>3
<1>6. CASE Sends
  BY <1>2, <1>6 DEF Sends, AsksOne, Paused, Running
<1>7. CASE Hears
  BY <1>2, <1>7, CampFacts DEF Hears, AsksOne, Stops, Paused, Running
<1>8. CASE Fills
  BY <1>2, <1>3, <1>8, CampFacts DEF Fills, Paused, Running
<1>9. CASE Answers \/ SaysSlice \/ OpensChart \/ Skips
  BY <1>4, <1>9 DEF Answers, SaysSlice, OpensChart, Skips, Says, ours
<1>10. CASE LivePrint \/ Lose
  BY <1>4, <1>10 DEF LivePrint, Lose
<1>11. CASE Attach
  <2>1. run' = [run EXCEPT !.queued = NoReach, !.camp = NoCampaign, !.out = FALSE, !.paused = FALSE]
    BY <1>11 DEF Attach
  <2>2. run'.camp = NoCampaign /\ ~run'.paused
    BY <1>1, <2>1 DEF Runs
  <2>3. tab' = [tab EXCEPT !.wait = 0]
    BY <1>11 DEF Attach
  <2>4. tab'.wait = 0
    BY <1>1, <2>3 DEF Tabs
  <2> QED BY <2>2, <2>4 DEF Paused, Running
<1> QED BY <1>5, <1>6, <1>7, <1>8, <1>9, <1>10, <1>11, StepIs, BlockIs, SliceIs, AnswersNow

(* A chart is opened by its block before anything else is heard of. *)
LEMMA OpensFirstStep ==
  ASSUME Types, Single, ~reopened', [RunNext]_runVars
  PROVE OpensFirst'
<1>1. /\ run \in Runs /\ tab \in Tabs /\ inbox \in Seq(Events) /\ chart \in Seq(Prints)
      /\ feed \in Feeds
  BY DEF Types
<1>2. /\ chart = << >> => ~Running /\ ~run.out
      /\ ~feed.any => chart = << >> /\ inbox = << >>
      /\ \A n \in 1 .. Len(inbox) : First(inbox[n]) => n = 1 /\ chart = << >>
      /\ feed.any /\ chart = << >> =>
           inbox # << >> /\ First(inbox[1]) /\ inbox[1].prints # << >>
  BY DEF Single, OpensFirst
<1>3. AsksOne => feed'.any = feed.any
  BY <1>1 DEF AsksOne, Asked, Feeds
<1>4. Len(inbox) \in Nat /\ (inbox # << >> => Len(inbox) >= 1 /\ inbox[1] = Head(inbox))
  BY <1>1
<1>5. CASE Rests
  BY <1>1, <1>2, <1>5 DEF Rests, Stops, Stays, OpensFirst, Running
<1>6. CASE Sends
  BY <1>1, <1>2, <1>3, <1>6 DEF Sends, OpensFirst, Running
<1>7. ASSUME inbox # << >>, inbox' = Tail(inbox), Taken(Head(inbox).prints),
             run'.camp # NoCampaign \/ run'.out => Running \/ run.out,
             feed'.any = feed.any
      PROVE OpensFirst'
  <2>1. Tail(inbox) \in Seq(Events) /\ Len(Tail(inbox)) = Len(inbox) - 1
        /\ \A n \in 1 .. Len(inbox) - 1 : Tail(inbox)[n] = inbox[n + 1]
    BY <1>1, <1>7, HeadAndTail
  <2>2. \A n \in 1 .. Len(inbox') : ~First(inbox'[n])
    <3> SUFFICES ASSUME NEW n \in 1 .. Len(inbox') PROVE ~First(inbox'[n])
      OBVIOUS
    <3>1. n \in 1 .. Len(inbox) - 1 /\ n + 1 \in 1 .. Len(inbox) /\ n + 1 # 1
      BY <1>4, <1>7, <2>1
    <3>2. inbox'[n] = inbox[n + 1] /\ ~First(inbox[n + 1])
      BY <1>2, <1>7, <2>1, <3>1
    <3> QED BY <3>2
  <2>3. feed.any
    BY <1>2, <1>7
  <2>4. chart' # << >>
    <3>1. chart # << >> \/ Head(inbox).prints # << >>
      BY <1>2, <1>4, <1>7, <2>3
    <3> QED BY <1>7, <3>1 DEF Taken
  <2> QED BY <1>7, <2>2, <2>3, <2>4 DEF OpensFirst
<1>8. CASE Hears
  <2>1. feed'.any = feed.any
    BY <1>3, <1>8 DEF Hears
  <2>2. run'.camp # NoCampaign \/ run'.out => Running \/ run.out
    BY <1>8 DEF Hears, Stops
  <2> QED BY <1>7, <1>8, <2>1, <2>2 DEF Hears
<1>9. CASE Fills
  <2>1. run'.camp # NoCampaign \/ run'.out => Running \/ run.out
    BY <1>9 DEF Fills
  <2> QED BY <1>7, <1>9, <2>1 DEF Fills
<1>10. ASSUME NEW m, Says(m), feed.any, feed'.any, ~First(m) PROVE OpensFirst'
  <2>1. m \in Events /\ inbox' = Append(inbox, m) /\ UNCHANGED <<run, chart>> /\ feed'.any
    BY <1>10 DEF Says, ours
  <2>2. /\ Len(inbox') = Len(inbox) + 1 /\ inbox'[Len(inbox) + 1] = m
        /\ \A i \in 1 .. Len(inbox) : inbox'[i] = inbox[i]
    BY <1>1, <2>1, Appended
  <2>3. \A n \in 1 .. Len(inbox') : First(inbox'[n]) => n = 1 /\ chart' = << >>
    <3> SUFFICES ASSUME NEW n \in 1 .. Len(inbox'), First(inbox'[n]) PROVE n = 1 /\ chart' = << >>
      OBVIOUS
    <3>1. n \in 1 .. Len(inbox) \/ n = Len(inbox) + 1
      BY <1>4, <2>2
    <3>2. n \in 1 .. Len(inbox) /\ First(inbox[n])
      BY <1>10, <2>2, <3>1
    <3> QED BY <1>2, <2>1, <3>2
  <2>4. chart = << >> => inbox' # << >> /\ First(inbox'[1]) /\ inbox'[1].prints # << >>
    <3> SUFFICES ASSUME chart = << >>
                 PROVE inbox' # << >> /\ First(inbox'[1]) /\ inbox'[1].prints # << >>
      OBVIOUS
    <3>1. 1 \in 1 .. Len(inbox) /\ First(inbox[1]) /\ inbox[1].prints # << >>
      BY <1>2, <1>4, <1>10
    <3>2. inbox'[1] = inbox[1] /\ Len(inbox') > 0
      BY <1>4, <2>2, <3>1
    <3> QED BY <3>1, <3>2
  <2> QED BY <1>2, <2>1, <2>3, <2>4 DEF OpensFirst, Running
<1>11. CASE Answers
  <2>1. PICK m : Says(m) /\ m.t = "prepended" /\ m.id = Head(feed.asks).id
    BY <1>11 DEF Answers
  <2>2. feed.any /\ feed'.any /\ Head(feed.asks) \in Asks
    BY <1>1, <1>11, HeadAndTail DEF Answers, Feeds
  <2>3. m.id # Unasked
    BY <2>1, <2>2 DEF Asks, Unasked
  <2> QED BY <1>10, <2>1, <2>2, <2>3 DEF First
<1>12. CASE SaysSlice
  <2>1. PICK m : Says(m) /\ m.t = "opening"
    BY <1>12 DEF SaysSlice
  <2>2. ~First(m)
    BY <2>1 DEF First
  <2> QED BY <1>10, <1>12, <2>1, <2>2 DEF SaysSlice
<1>13. CASE OpensChart
  <2>1. PICK m : Says(m) /\ First(m) /\ m.prints # << >>
    BY <1>13 DEF OpensChart
  <2>2. inbox = << >> /\ chart = << >> /\ ~Running /\ ~run.out
    BY <1>2, <1>13 DEF OpensChart
  <2>3. inbox' = Append(inbox, m) /\ UNCHANGED <<run, chart>> /\ feed'.any /\ m \in Events
    BY <1>13, <2>1 DEF Says, OpensChart, ours
  <2>4. Len(inbox') = 1 /\ inbox'[1] = m /\ inbox' # << >>
    BY <1>1, <2>2, <2>3, Appended
  <2> QED BY <2>1, <2>2, <2>3, <2>4 DEF OpensFirst, Running
<1>14. CASE Skips
  <2>1. feed'.any = feed.any
    BY <1>1, <1>14 DEF Skips, Feeds
  <2> QED BY <1>2, <1>14, <2>1 DEF Skips, OpensFirst, Running, ours
<1>15. CASE LivePrint
  <2>1. inbox = << >> /\ inbox' = inbox /\ chart' = <<N>> /\ run' = run /\ ~feed.any
    <3>1. chart = << >> /\ chart' = Append(chart, N)
      BY <1>2, <1>15 DEF LivePrint
    <3>2. chart' = <<N>>
      BY <3>1
    <3> QED BY <1>2, <1>15, <3>2 DEF LivePrint
  <2>2. feed'.any /\ chart' # << >> /\ Len(inbox') = 0
    BY <1>1, <1>15, <2>1 DEF LivePrint, Feeds
  <2> QED BY <2>1, <2>2 DEF OpensFirst
<1>16. CASE Lose
  <2> DEFINE over == [k \in DOMAIN feed.asks |-> Reply(<< >>, feed.asks[k].id)]
  <2>1. inbox' = inbox \o over /\ UNCHANGED <<run, chart>>
    BY <1>16 DEF Lose
  <2>2. feed.asks \in Seq(Asks)
    BY <1>1 DEF Feeds
  <2>3. /\ over \in Seq(Events) /\ Len(over) = Len(feed.asks) /\ Len(over) \in Nat
        /\ \A k \in 1 .. Len(over) : ~First(over[k])
    <3>1. \A k \in 1 .. Len(feed.asks) :
             /\ Reply(<< >>, feed.asks[k].id) \in Events
             /\ ~First(Reply(<< >>, feed.asks[k].id))
      <4> SUFFICES ASSUME NEW k \in 1 .. Len(feed.asks)
                   PROVE /\ Reply(<< >>, feed.asks[k].id) \in Events
                         /\ ~First(Reply(<< >>, feed.asks[k].id))
        OBVIOUS
      <4>1. feed.asks[k] \in Asks
        BY <2>2
      <4>2. feed.asks[k].id \in Nat \ {0} /\ << >> \in Seq(Prints)
        BY <4>1 DEF Asks
      <4> QED BY <4>2 DEF Reply, Events, First, Unasked
    <3>2. /\ over = [k \in 1 .. Len(feed.asks) |-> Reply(<< >>, feed.asks[k].id)]
          /\ Len(feed.asks) \in Nat
      BY <2>2
    <3> HIDE DEF over
    <3> QED BY <3>1, <3>2
  <2>4. feed'.any = feed.any
    BY <1>1, <1>16 DEF Lose, Feeds
  <2>5. ~feed.any => over = << >>
    <3>1. ~feed.any => feed.asks = << >>
      BY <1>2 DEF Single, OneOut
    <3> HIDE DEF over
    <3> QED BY <2>3, <3>1
  <2> HIDE DEF over
  <2>6. /\ Len(inbox') = Len(inbox) + Len(over)
        /\ \A i \in 1 .. Len(inbox) : inbox'[i] = inbox[i]
        /\ \A i \in Len(inbox) + 1 .. Len(inbox') : inbox'[i] = over[i - Len(inbox)]
    <3>1. /\ Len(inbox') = Len(inbox) + Len(over)
          /\ \A i \in 1 .. Len(inbox) : inbox'[i] = inbox[i]
          /\ \A i \in 1 .. Len(over) : inbox'[Len(inbox) + i] = over[i]
      <4>1. inbox \in Seq(Events) /\ over \in Seq(Events)
        BY <1>1, <2>3
      <4>2. /\ Len(inbox \o over) = Len(inbox) + Len(over)
            /\ \A i \in 1 .. Len(inbox) : (inbox \o over)[i] = inbox[i]
            /\ \A i \in 1 .. Len(over) : (inbox \o over)[Len(inbox) + i] = over[i]
        BY <4>1, Joined
      <4> QED BY <2>1, <4>2
    <3>2. SUFFICES ASSUME NEW i \in Len(inbox) + 1 .. Len(inbox')
                   PROVE inbox'[i] = over[i - Len(inbox)]
      BY <3>1
    <3>3. i - Len(inbox) \in 1 .. Len(over) /\ Len(inbox) + (i - Len(inbox)) = i
      BY <1>4, <2>3, <3>1
    <3>4. inbox'[Len(inbox) + (i - Len(inbox))] = over[i - Len(inbox)]
      BY <3>1, <3>3
    <3> QED BY <3>3, <3>4
  <2>7. \A n \in 1 .. Len(inbox') : First(inbox'[n]) => n = 1 /\ chart' = << >>
    <3> SUFFICES ASSUME NEW n \in 1 .. Len(inbox'), First(inbox'[n]) PROVE n = 1 /\ chart' = << >>
      OBVIOUS
    <3>1. CASE n \in 1 .. Len(inbox)
      BY <1>2, <2>1, <2>6, <3>1
    <3>2. CASE n \in Len(inbox) + 1 .. Len(inbox')
      <4>1. n - Len(inbox) \in 1 .. Len(over)
        BY <1>4, <2>3, <2>6, <3>2
      <4> QED BY <2>3, <2>6, <3>2, <4>1
    <3> QED BY <1>4, <2>6, <3>1, <3>2
  <2>8. feed.any /\ chart = << >> => inbox' # << >> /\ First(inbox'[1]) /\ inbox'[1].prints # << >>
    <3> SUFFICES ASSUME feed.any, chart = << >>
                 PROVE inbox' # << >> /\ First(inbox'[1]) /\ inbox'[1].prints # << >>
      OBVIOUS
    <3>1. 1 \in 1 .. Len(inbox) /\ First(inbox[1]) /\ inbox[1].prints # << >>
      BY <1>2, <1>4
    <3>2. inbox'[1] = inbox[1] /\ Len(inbox') > 0
      BY <1>4, <2>3, <2>6, <3>1
    <3> QED BY <3>1, <3>2
  <2>9. ~feed.any => inbox' = << >>
    BY <1>2, <2>1, <2>5
  <2> QED BY <1>2, <2>1, <2>4, <2>7, <2>8, <2>9 DEF OpensFirst, Running
<1>17. CASE Attach
  <2>1. run' = [run EXCEPT !.queued = NoReach, !.camp = NoCampaign, !.out = FALSE, !.paused = FALSE]
        /\ inbox' = << >> /\ chart' = chart
    BY <1>17 DEF Attach
  <2>2. run'.camp = NoCampaign /\ ~run'.out
    BY <1>1, <2>1 DEF Runs
  <2>3. feed'.any <=> chart # << >>
    <3>1. feed'.any = (Displayed # << >>)
      BY <1>1, <1>17 DEF Attach, Feeds
    <3>2. panes.kept = 0 \/ Displayed # << >>
      <4>1. reopened' = (reopened \/ (panes.kept > 0 /\ Displayed = << >>))
        BY <1>17 DEF Attach
      <4>2. panes.kept = 0 \/ panes.kept > 0
        BY DEF Types, Pans
      <4> QED BY <4>1, <4>2
    <3>3. Displayed # << >> => chart # << >>
      <4>1. Len(Displayed) = Len(chart) - panes.kept /\ panes.kept \in Nat
        BY DisplayedIs DEF Types, Pans
      <4>2. Displayed \in Seq(Prints)
        BY DisplayedIs
      <4>3. chart = << >> => Len(chart) = 0
        OBVIOUS
      <4>4. Displayed # << >> => Len(Displayed) > 0
        BY <4>2
      <4> DEFINE n == Len(Displayed)
                 k == Len(chart)
      <4>5. n = k - panes.kept /\ (chart = << >> => k = 0) /\ (Displayed # << >> => n > 0)
        BY <4>1, <4>3, <4>4
      <4> HIDE DEF n, k
      <4> QED BY <4>1, <4>5
    <3>4. panes.kept = 0 => Displayed = chart
      BY DisplayedIs
    <3> QED BY <3>1, <3>2, <3>3, <3>4
  <2>4. Len(inbox') = 0
    BY <2>1
  <2> QED BY <2>1, <2>2, <2>3, <2>4 DEF OpensFirst, Running
<1> QED BY <1>5, <1>6, <1>8, <1>9, <1>11, <1>12, <1>13, <1>14, <1>15, <1>16, <1>17,
           StepIs, BlockIs, SliceIs, AnswersNow

-----------------------------------------------------------------------------
(* The request that is out. *)
NoReply(s) == \A n \in 1 .. Len(s) : ~Own(s[n])
SoleReply(s) == /\ \E n \in 1 .. Len(s) : Own(s[n])
                /\ \A n, k \in 1 .. Len(s) : Own(s[n]) /\ Own(s[k]) => n = k
Owned(s, id) == \A n \in 1 .. Len(s) : Own(s[n]) => s[n].id = id

(* Before a request is asked nothing of one is left anywhere. *)
LEMMA AskingStep ==
  ASSUME feed \in Feeds, feed.asks = << >>, NoReply(inbox'), AsksOne, ~foreign'
  PROVE OneOut'
<1>1. PICK ask \in Asks : ask.id = run'.camp.id /\ feed' = [feed EXCEPT !.asks = Append(@, ask)]
  BY DEF AsksOne, Asked
<1>2. feed'.asks = <<ask>>
  BY <1>1 DEF Feeds
<1>3. Len(feed'.asks) = 1 /\ feed'.asks[1] = ask
  BY <1>2
<1>4. run'.out
  BY DEF AsksOne
<1> QED BY <1>1, <1>3, <1>4 DEF OneOut, NoReply, Running

(* The head of the events is taken. *)
LEMMA TakenHead ==
  ASSUME inbox \in Seq(Events), inbox # << >>, inbox' = Tail(inbox)
  PROVE /\ 1 \in 1 .. Len(inbox) /\ Head(inbox) = inbox[1] /\ Len(inbox') = Len(inbox) - 1
        /\ Len(inbox) \in Nat
        /\ \A n \in 1 .. Len(inbox') : n + 1 \in 2 .. Len(inbox) /\ inbox'[n] = inbox[n + 1]
<1>1. /\ Head(inbox) = inbox[1] /\ Len(inbox) \in Nat /\ Len(inbox) >= 1
      /\ Len(Tail(inbox)) = Len(inbox) - 1
      /\ \A i \in 1 .. Len(inbox) - 1 : Tail(inbox)[i] = inbox[i + 1]
  BY HeadAndTail
<1> QED BY <1>1

(* An event is put at the end. *)
LEMMA PutLast ==
  ASSUME inbox \in Seq(Events), NEW m \in Events, inbox' = Append(inbox, m)
  PROVE /\ Len(inbox') = Len(inbox) + 1 /\ inbox'[Len(inbox) + 1] = m /\ Len(inbox) \in Nat
        /\ \A n \in 1 .. Len(inbox) : inbox'[n] = inbox[n]
        /\ \A n \in 1 .. Len(inbox') : n \in 1 .. Len(inbox) \/ n = Len(inbox) + 1
<1>1. /\ Len(Append(inbox, m)) = Len(inbox) + 1 /\ Len(inbox) \in Nat
      /\ Append(inbox, m)[Len(inbox) + 1] = m
      /\ \A i \in 1 .. Len(inbox) : Append(inbox, m)[i] = inbox[i]
  BY Appended
<1> QED BY <1>1

(* One request stays out at a time: the count of a run follows the feed and the channel. *)
LEMMA OneOutStep ==
  ASSUME Types, Single, ~reopened', [RunNext]_runVars
  PROVE OneOut'
<1>1. /\ run \in Runs /\ inbox \in Seq(Events) /\ feed \in Feeds /\ feed.asks \in Seq(Asks)
      /\ Len(inbox) \in Nat
  BY FeedFields DEF Types
<1>2. /\ ~run.out => feed.asks = << >> /\ NoReply(inbox)
      /\ run.out => \/ Len(feed.asks) = 1 /\ NoReply(inbox)
                    \/ feed.asks = << >> /\ SoleReply(inbox)
      /\ Running => Owned(inbox, run.camp.id)
      /\ Running => \A k \in 1 .. Len(feed.asks) : feed.asks[k].id = run.camp.id
      /\ ~foreign
  BY DEF Single, OneOut, NoReply, SoleReply, Owned
<1>3. /\ chart = << >> => ~Running /\ ~run.out
      /\ \A n \in 1 .. Len(inbox) : First(inbox[n]) => n = 1 /\ chart = << >>
  BY DEF Single, OpensFirst
<1>e. Len(feed.asks) = 1 => feed.asks # << >>
  OBVIOUS
<1>4. ASSUME UNCHANGED <<inbox, foreign>>, feed'.asks = feed.asks, run'.out = run.out,
             run'.camp # NoCampaign => run'.camp = run.camp
      PROVE OneOut'
  BY <1>2, <1>4 DEF OneOut, NoReply, SoleReply, Owned, Running
<1>5. CASE Rests
  BY <1>4, <1>5 DEF Rests, Stops, Stays
<1>6. CASE Sends
  <2>1. NoReply(inbox') /\ feed.asks = << >> /\ AsksOne /\ ~foreign'
    BY <1>2, <1>6 DEF Sends, NoReply
  <2> QED BY <1>1, <2>1, AskingStep
<1>7. CASE Hears
  <2> DEFINE m == Head(inbox)
  <2>1. m.t = "prepended" /\ inbox # << >> /\ inbox' = Tail(inbox)
    BY <1>7 DEF Hears
  <2>2. /\ 1 \in 1 .. Len(inbox) /\ m = inbox[1] /\ Len(inbox') = Len(inbox) - 1
        /\ \A n \in 1 .. Len(inbox') : n + 1 \in 2 .. Len(inbox) /\ inbox'[n] = inbox[n + 1]
    BY <1>1, <2>1, TakenHead
  <2>3. feed.asks = << >> /\ NoReply(inbox') /\ (Running => Own(m) /\ m.id = run.camp.id)
    <3>1. CASE Own(m)
      <4>1. ~NoReply(inbox)
        BY <2>2, <3>1 DEF NoReply
      <4>2. feed.asks = << >> /\ SoleReply(inbox)
        BY <1>2, <4>1
      <4>3. NoReply(inbox')
        <5> SUFFICES ASSUME NEW n \in 1 .. Len(inbox'), Own(inbox'[n]) PROVE FALSE
          BY DEF NoReply
        <5>1. n + 1 \in 1 .. Len(inbox) /\ Own(inbox[n + 1]) /\ n + 1 # 1
          BY <1>1, <2>2
        <5> QED BY <2>2, <3>1, <4>2, <5>1 DEF SoleReply
      <4>4. Running => m.id = run.camp.id
        BY <1>2, <2>2, <3>1 DEF Owned
      <4> QED BY <3>1, <4>2, <4>3, <4>4
    <3>2. CASE First(m)
      <4>1. ~run.out /\ ~Running
        BY <1>3, <2>2, <3>2
      <4>2. feed.asks = << >> /\ NoReply(inbox)
        BY <1>2, <4>1
      <4>3. NoReply(inbox')
        BY <1>1, <2>2, <4>2 DEF NoReply
      <4> QED BY <4>1, <4>2, <4>3
    <3> QED BY <2>1, <3>1, <3>2 DEF Own, First
  <2>4. ~foreign'
    BY <1>2, <1>7, <2>3 DEF Hears
  <2> HIDE DEF m
  <2>5. CASE AsksOne
    BY <1>1, <2>3, <2>4, <2>5, AskingStep
  <2>6. CASE ~run'.out /\ feed' = feed
    BY <2>3, <2>4, <2>6 DEF OneOut, NoReply
  <2> QED BY <1>7, <2>5, <2>6 DEF Hears
<1>8. CASE Fills
  <2> DEFINE m == Head(inbox)
  <2>1. m.t = "opening" /\ inbox # << >> /\ inbox' = Tail(inbox)
    BY <1>8 DEF Fills
  <2>2. /\ 1 \in 1 .. Len(inbox) /\ m = inbox[1] /\ Len(inbox') = Len(inbox) - 1
        /\ \A n \in 1 .. Len(inbox') : n + 1 \in 2 .. Len(inbox) /\ inbox'[n] = inbox[n + 1]
    BY <1>1, <2>1, TakenHead
  <2>3. ~Own(inbox[1])
    BY <2>1, <2>2 DEF Own
  <2>4. NoReply(inbox) => NoReply(inbox')
    BY <1>1, <2>2 DEF NoReply
  <2>5. SoleReply(inbox) => SoleReply(inbox')
    <3> SUFFICES ASSUME SoleReply(inbox) PROVE SoleReply(inbox')
      OBVIOUS
    <3>1. PICK n \in 1 .. Len(inbox) : Own(inbox[n])
      BY DEF SoleReply
    <3>2. n # 1 /\ n - 1 \in 1 .. Len(inbox') /\ n - 1 + 1 = n
      BY <1>1, <2>2, <2>3, <3>1
    <3>3. Own(inbox'[n - 1])
      BY <2>2, <3>1, <3>2
    <3>4. ASSUME NEW i \in 1 .. Len(inbox'), NEW k \in 1 .. Len(inbox'),
                 Own(inbox'[i]), Own(inbox'[k])
          PROVE i = k
      <4>1. i + 1 \in 1 .. Len(inbox) /\ k + 1 \in 1 .. Len(inbox)
            /\ Own(inbox[i + 1]) /\ Own(inbox[k + 1])
        BY <1>1, <2>2, <3>4
      <4>2. i + 1 = k + 1
        BY <4>1 DEF SoleReply
      <4>3. i \in Int /\ k \in Int
        BY <1>1, <2>2
      <4> QED BY <4>2, <4>3
    <3> QED BY <3>2, <3>3, <3>4 DEF SoleReply
  <2>6. Running => Owned(inbox', run.camp.id)
    <3> SUFFICES ASSUME Running, NEW n \in 1 .. Len(inbox'), Own(inbox'[n])
                 PROVE inbox'[n].id = run.camp.id
      BY DEF Owned
    <3>1. n + 1 \in 1 .. Len(inbox) /\ inbox'[n] = inbox[n + 1]
      BY <1>1, <2>2
    <3>2. Owned(inbox, run.camp.id) /\ Own(inbox[n + 1])
      BY <1>2, <3>1
    <3> QED BY <3>1, <3>2 DEF Owned
  <2>7. /\ run'.out = run.out /\ feed' = feed /\ foreign' = foreign
        /\ run'.camp # NoCampaign => Running /\ run'.camp.id = run.camp.id
    BY <1>8 DEF Fills
  <2> QED BY <1>2, <2>4, <2>5, <2>6, <2>7 DEF OneOut, NoReply, SoleReply, Owned, Running
<1>9. ASSUME NEW m, Says(m), ~Own(m), feed'.asks = feed.asks PROVE OneOut'
  <2>1. m \in Events /\ inbox' = Append(inbox, m) /\ UNCHANGED <<run, foreign>>
    BY <1>9 DEF Says, ours
  <2>2. /\ Len(inbox') = Len(inbox) + 1 /\ inbox'[Len(inbox) + 1] = m
        /\ \A n \in 1 .. Len(inbox) : inbox'[n] = inbox[n]
        /\ \A n \in 1 .. Len(inbox') : n \in 1 .. Len(inbox) \/ n = Len(inbox) + 1
    BY <1>1, <2>1, PutLast
  <2>3. \A n \in 1 .. Len(inbox') : Own(inbox'[n]) => n \in 1 .. Len(inbox) /\ Own(inbox[n])
    BY <1>9, <2>2
  <2>4. NoReply(inbox) => NoReply(inbox')
    BY <2>3 DEF NoReply
  <2>5. SoleReply(inbox) => SoleReply(inbox')
    <3> SUFFICES ASSUME SoleReply(inbox) PROVE SoleReply(inbox')
      OBVIOUS
    <3>1. PICK n \in 1 .. Len(inbox) : Own(inbox[n])
      BY DEF SoleReply
    <3>2. n \in 1 .. Len(inbox') /\ Own(inbox'[n])
      BY <1>1, <2>2, <3>1
    <3> QED BY <2>3, <3>2 DEF SoleReply
  <2>6. Running => Owned(inbox', run.camp.id)
    BY <1>2, <2>2, <2>3 DEF Owned
  <2> QED BY <1>2, <1>9, <2>1, <2>4, <2>5, <2>6 DEF OneOut, NoReply, SoleReply, Owned, Running
<1>10. CASE Answers
  <2>1. PICK m : Says(m) /\ m.t = "prepended" /\ m.id = Head(feed.asks).id
    BY <1>10 DEF Answers
  <2>2. m \in Events /\ inbox' = Append(inbox, m) /\ UNCHANGED <<run, foreign>>
    BY <2>1 DEF Says, ours
  <2>3. feed.asks # << >> /\ feed'.asks = Tail(feed.asks)
    BY <1>10 DEF Answers
  <2>4. run.out /\ Len(feed.asks) = 1 /\ NoReply(inbox)
    BY <1>2, <2>3
  <2>5. Head(feed.asks) = feed.asks[1] /\ feed.asks[1] \in Asks /\ feed'.asks = << >>
    <3>1. /\ Head(feed.asks) = feed.asks[1] /\ Tail(feed.asks) \in Seq(Asks)
          /\ Len(Tail(feed.asks)) = Len(feed.asks) - 1
      BY <1>1, <2>3, HeadAndTail
    <3>2. Len(feed'.asks) = 0 /\ feed'.asks \in Seq(Asks)
      BY <2>3, <2>4, <3>1
    <3>3. feed'.asks = << >>
      BY <3>2
    <3>4. 1 \in 1 .. Len(feed.asks)
      BY <2>4
    <3>5. feed.asks[1] \in Asks
      BY <1>1, <3>4
    <3> QED BY <3>1, <3>3, <3>5
  <2>6. Own(m)
    BY <2>1, <2>5 DEF Own, Unasked, Asks
  <2>7. /\ Len(inbox') = Len(inbox) + 1 /\ inbox'[Len(inbox) + 1] = m
        /\ \A n \in 1 .. Len(inbox) : inbox'[n] = inbox[n]
        /\ \A n \in 1 .. Len(inbox') : n \in 1 .. Len(inbox) \/ n = Len(inbox) + 1
    BY <1>1, <2>2, PutLast
  <2>8. \A n \in 1 .. Len(inbox') : Own(inbox'[n]) => n = Len(inbox) + 1
    BY <2>4, <2>7 DEF NoReply
  <2>9. SoleReply(inbox')
    <3>1. Len(inbox) + 1 \in 1 .. Len(inbox')
      BY <1>1, <2>7
    <3> QED BY <2>6, <2>7, <2>8, <3>1 DEF SoleReply
  <2>10. Running => Owned(inbox', run.camp.id)
    BY <1>2, <2>1, <2>4, <2>5, <2>7, <2>8 DEF Owned
  <2>11. Len(feed'.asks) = 0
    BY <2>5
  <2> QED BY <1>2, <2>2, <2>4, <2>5, <2>9, <2>10, <2>11 DEF OneOut, SoleReply, Owned, Running
<1>11. CASE SaysSlice \/ OpensChart
  <2>1. PICK m : Says(m) /\ (m.t = "opening" \/ First(m))
    BY <1>11 DEF SaysSlice, OpensChart
  <2>2. ~Own(m)
    BY <2>1 DEF Own, First
  <2> QED BY <1>9, <1>11, <2>1, <2>2 DEF SaysSlice, OpensChart
<1>12. CASE Skips
  <2>1. feed'.asks = feed.asks
    BY <1>1, <1>12 DEF Skips, Feeds
  <2> QED BY <1>4, <1>12, <2>1 DEF Skips, ours
<1>13. CASE LivePrint
  <2>1. feed'.asks = feed.asks
    BY <1>1, <1>13 DEF LivePrint, Feeds
  <2> QED BY <1>4, <1>13, <2>1 DEF LivePrint
<1>14. CASE Lose
  <2> DEFINE over == [k \in DOMAIN feed.asks |-> Reply(<< >>, feed.asks[k].id)]
  <2>1. inbox' = inbox \o over /\ UNCHANGED <<run, foreign>>
    BY <1>14 DEF Lose
  <2>2. feed'.asks = << >>
    BY <1>1, <1>14 DEF Lose, Feeds
  <2>3. CASE feed.asks = << >>
    <3>1. over = << >>
      BY <2>3
    <3> HIDE DEF over
    <3>2. inbox' = inbox
      BY <1>1, <2>1, <3>1
    <3> QED BY <1>4, <2>1, <2>2, <2>3, <3>2
  <2>4. CASE Len(feed.asks) = 1 /\ NoReply(inbox) /\ run.out
    <3> DEFINE m == Reply(<< >>, feed.asks[1].id)
    <3>1. feed.asks[1] \in Asks /\ DOMAIN feed.asks = 1 .. 1
      BY <1>1, <2>4
    <3>2. m \in Events /\ Own(m) /\ m.id = feed.asks[1].id
      <4>1. feed.asks[1].id \in Nat \ {0} /\ << >> \in Seq(Prints)
        BY <3>1 DEF Asks
      <4> QED BY <4>1 DEF Reply, Events, Own, Unasked
    <3>3. over = <<m>>
      BY <3>1
    <3> HIDE DEF over, m
    <3>4. inbox' = Append(inbox, m)
      BY <1>1, <2>1, <3>2, <3>3
    <3>5. /\ Len(inbox') = Len(inbox) + 1 /\ inbox'[Len(inbox) + 1] = m
          /\ \A n \in 1 .. Len(inbox) : inbox'[n] = inbox[n]
          /\ \A n \in 1 .. Len(inbox') : n \in 1 .. Len(inbox) \/ n = Len(inbox) + 1
      BY <1>1, <3>2, <3>4, PutLast
    <3>6. \A n \in 1 .. Len(inbox') : Own(inbox'[n]) => n = Len(inbox) + 1
      BY <2>4, <3>5 DEF NoReply
    <3>7. SoleReply(inbox')
      <4>1. Len(inbox) + 1 \in 1 .. Len(inbox')
        BY <1>1, <3>5
      <4> QED BY <3>2, <3>5, <3>6, <4>1 DEF SoleReply
    <3>8. Running => Owned(inbox', run.camp.id)
      BY <1>2, <2>4, <3>2, <3>5, <3>6 DEF Owned
    <3>9. Len(feed'.asks) = 0
      BY <2>2
    <3>10. run' = run /\ foreign' = foreign
      BY <2>1
    <3>11. run'.out /\ ~foreign'
      BY <1>2, <2>4, <3>10
    <3>12. Running' => /\ \A n \in 1 .. Len(inbox') : Own(inbox'[n]) => inbox'[n].id = run'.camp.id
                       /\ \A k \in 1 .. Len(feed'.asks) : feed'.asks[k].id = run'.camp.id
      <4> SUFFICES ASSUME Running'
          PROVE /\ \A n \in 1 .. Len(inbox') : Own(inbox'[n]) => inbox'[n].id = run'.camp.id
                /\ \A k \in 1 .. Len(feed'.asks) : feed'.asks[k].id = run'.camp.id
        OBVIOUS
      <4>1. Running
        BY <3>10 DEF Running
      <4>2. Owned(inbox', run.camp.id)
        BY <3>8, <4>1
      <4>3. \A n \in 1 .. Len(inbox') : Own(inbox'[n]) => inbox'[n].id = run.camp.id
        BY <4>2 DEF Owned
      <4>4. \A k \in 1 .. Len(feed'.asks) : FALSE
        BY <3>9
      <4> QED BY <3>10, <4>3, <4>4
    <3>13. /\ \E n \in 1 .. Len(inbox') : Own(inbox'[n])
           /\ \A n, k \in 1 .. Len(inbox') : Own(inbox'[n]) /\ Own(inbox'[k]) => n = k
      BY <3>7 DEF SoleReply
    <3> QED BY <2>2, <3>11, <3>12, <3>13 DEF OneOut
  <2> QED BY <1>2, <2>3, <2>4
<1>15. CASE Attach
  <2>1. run' = [run EXCEPT !.queued = NoReach, !.camp = NoCampaign, !.out = FALSE, !.paused = FALSE]
        /\ inbox' = << >> /\ foreign' = foreign
    BY <1>15 DEF Attach
  <2>2. run'.camp = NoCampaign /\ ~run'.out
    BY <1>1, <2>1 DEF Runs
  <2>3. feed'.asks = << >> /\ Len(inbox') = 0
    BY <1>1, <1>15, <2>1 DEF Attach, Feeds
  <2> QED BY <1>2, <2>1, <2>2, <2>3 DEF OneOut, Running
<1> QED BY <1>5, <1>6, <1>7, <1>8, <1>10, <1>11, <1>12, <1>13, <1>14, <1>15,
           StepIs, BlockIs, SliceIs, AnswersNow

-----------------------------------------------------------------------------
(* The order of the tape, part by part. *)
AtOrAbove(f, s) == \A k \in 1 .. Len(s) : f <= s[k]
Under(s, u) == \A k \in 1 .. Len(s) : \A j \in 1 .. Len(u) : s[k] < u[j]
InOrder(f, tape, events) ==
  /\ Climbs(tape) /\ AtOrAbove(f, tape)
  /\ \A n \in 1 .. Len(events) :
       /\ Climbs(events[n].prints) /\ AtOrAbove(f, events[n].prints)
       /\ Under(events[n].prints, tape)
       /\ \A i \in 1 .. n - 1 : Under(events[n].prints, events[i].prints)

(* TapeOrder, part by part. *)
LEMMA OrderIs ==
  TapeOrder <=> InOrder(feed.floor, chart, inbox)
<1>1. ASSUME TapeOrder PROVE InOrder(feed.floor, chart, inbox)
  BY <1>1 DEF TapeOrder, InOrder, AtOrAbove, Under
<1>2. ASSUME InOrder(feed.floor, chart, inbox) PROVE TapeOrder
  BY <1>2 DEF TapeOrder, InOrder, AtOrAbove, Under
<1> QED BY <1>1, <1>2

(* A page that lies below a tape goes before it. *)
LEMMA JoinedClimbs ==
  ASSUME NEW p \in Seq(Prints), NEW u \in Seq(Prints), Climbs(p), Climbs(u), Under(p, u)
  PROVE Climbs(p \o u)
<1>1. /\ Len(p \o u) = Len(p) + Len(u) /\ Len(p) \in Nat /\ Len(u) \in Nat
      /\ \A i \in 1 .. Len(p) : (p \o u)[i] = p[i]
      /\ \A i \in 1 .. Len(u) : (p \o u)[Len(p) + i] = u[i]
  BY Joined
<1> DEFINE s == p \o u
<1>2. SUFFICES ASSUME NEW j \in 1 .. Len(s), NEW i \in 1 .. j - 1 PROVE s[i] < s[j]
  BY DEF Climbs
<1>3. i \in Int /\ j \in Int /\ 1 <= i /\ i < j /\ j <= Len(p) + Len(u)
  BY <1>1, <1>2
<1>4. CASE j <= Len(p)
  <2>1. j \in 1 .. Len(p) /\ i \in 1 .. j - 1 /\ i \in 1 .. Len(p)
    BY <1>1, <1>3, <1>4
  <2>2. p[i] < p[j]
    BY <2>1 DEF Climbs
  <2> QED BY <1>1, <2>1, <2>2
<1>5. CASE j > Len(p) /\ i <= Len(p)
  <2>1. i \in 1 .. Len(p) /\ j - Len(p) \in 1 .. Len(u) /\ Len(p) + (j - Len(p)) = j
    BY <1>1, <1>3, <1>5
  <2>2. p[i] < u[j - Len(p)]
    BY <2>1 DEF Under
  <2>3. s[j] = u[j - Len(p)] /\ s[i] = p[i]
    BY <1>1, <2>1
  <2> QED BY <2>2, <2>3
<1>6. CASE i > Len(p)
  <2>1. /\ j - Len(p) \in 1 .. Len(u) /\ Len(p) + (j - Len(p)) = j
        /\ i - Len(p) \in 1 .. j - Len(p) - 1 /\ Len(p) + (i - Len(p)) = i
        /\ i - Len(p) \in 1 .. Len(u)
    BY <1>1, <1>3, <1>6
  <2>2. u[i - Len(p)] < u[j - Len(p)]
    BY <2>1 DEF Climbs
  <2>3. s[j] = u[j - Len(p)] /\ s[i] = u[i - Len(p)]
    BY <1>1, <2>1
  <2> QED BY <2>2, <2>3
<1> QED BY <1>1, <1>3, <1>4, <1>5, <1>6

(* What holds of every print of two tapes holds of the two put together. *)
LEMMA JoinedAt ==
  ASSUME NEW p \in Seq(Prints), NEW u \in Seq(Prints), NEW k \in 1 .. Len(p \o u)
  PROVE \/ \E i \in 1 .. Len(p) : (p \o u)[k] = p[i]
        \/ \E i \in 1 .. Len(u) : (p \o u)[k] = u[i]
<1>1. /\ Len(p \o u) = Len(p) + Len(u) /\ Len(p) \in Nat /\ Len(u) \in Nat
      /\ \A i \in 1 .. Len(p) : (p \o u)[i] = p[i]
      /\ \A i \in 1 .. Len(u) : (p \o u)[Len(p) + i] = u[i]
  BY Joined
<1>2. CASE k <= Len(p)
  BY <1>1, <1>2
<1>3. CASE k > Len(p)
  <2>1. k - Len(p) \in 1 .. Len(u) /\ Len(p) + (k - Len(p)) = k
    BY <1>1, <1>3
  <2> QED BY <1>1, <2>1
<1> QED BY <1>1, <1>2, <1>3

(* Taking the event at the head puts its prints before the chart's. *)
LEMMA TakenOrder ==
  ASSUME NEW f, NEW u \in Seq(Prints), NEW b \in Seq(Events), b # << >>, InOrder(f, u, b)
  PROVE InOrder(f, Head(b).prints \o u, Tail(b))
<1> DEFINE p == Head(b).prints
<1>1. /\ Head(b) = b[1] /\ Len(b) \in Nat /\ Len(b) >= 1 /\ Len(Tail(b)) = Len(b) - 1
      /\ b[1] \in Events
      /\ \A i \in 1 .. Len(b) - 1 : Tail(b)[i] = b[i + 1]
  <2>1. /\ Head(b) = b[1] /\ Len(b) \in Nat /\ Len(b) >= 1 /\ Len(Tail(b)) = Len(b) - 1
        /\ \A i \in 1 .. Len(b) - 1 : Tail(b)[i] = b[i + 1]
    BY HeadAndTail
  <2>2. 1 \in 1 .. Len(b)
    BY <2>1
  <2>3. b[1] \in Events
    BY <2>2
  <2> QED BY <2>1, <2>3
<1>2. p \in Seq(Prints) /\ 1 \in 1 .. Len(b)
  BY <1>1 DEF Events
<1>3. Climbs(p) /\ AtOrAbove(f, p) /\ Under(p, u)
  BY <1>1, <1>2 DEF InOrder
<1>p. p = b[1].prints
  BY <1>1
<1> HIDE DEF p
<1>4. Climbs(p \o u)
  BY <1>2, <1>3, JoinedClimbs DEF InOrder
<1>5. AtOrAbove(f, p \o u)
  <2> SUFFICES ASSUME NEW k \in 1 .. Len(p \o u) PROVE f <= (p \o u)[k]
    BY DEF AtOrAbove
  <2> QED BY <1>2, <1>3, JoinedAt DEF AtOrAbove, InOrder
<1>6. ASSUME NEW n \in 1 .. Len(Tail(b))
      PROVE /\ Climbs(Tail(b)[n].prints) /\ AtOrAbove(f, Tail(b)[n].prints)
            /\ Under(Tail(b)[n].prints, p \o u)
            /\ \A i \in 1 .. n - 1 : Under(Tail(b)[n].prints, Tail(b)[i].prints)
  <2>1. n + 1 \in 1 .. Len(b) /\ Tail(b)[n] = b[n + 1] /\ 1 \in 1 .. n + 1 - 1
    BY <1>1, <1>6
  <2> DEFINE e == b[n + 1].prints
  <2>2. /\ Climbs(e) /\ AtOrAbove(f, e) /\ Under(e, u)
        /\ \A i \in 1 .. n + 1 - 1 : Under(e, b[i].prints)
    BY <2>1 DEF InOrder
  <2>3. Under(e, p)
    BY <1>p, <2>1, <2>2
  <2>4. e = Tail(b)[n].prints
    BY <2>1
  <2>5. ASSUME NEW i \in 1 .. n - 1 PROVE Under(e, Tail(b)[i].prints)
    <3>1. i + 1 \in 1 .. n + 1 - 1 /\ i \in 1 .. Len(b) - 1
      BY <1>1, <1>6, <2>5
    <3>2. Tail(b)[i] = b[i + 1] /\ Under(e, b[i + 1].prints)
      BY <1>1, <2>2, <3>1
    <3> QED BY <3>2
  <2> HIDE DEF e
  <2>6. Under(e, p \o u)
    <3> SUFFICES ASSUME NEW k \in 1 .. Len(e), NEW j \in 1 .. Len(p \o u)
                 PROVE e[k] < (p \o u)[j]
      BY DEF Under
    <3> QED BY <1>2, <2>2, <2>3, JoinedAt DEF Under
  <2> QED BY <2>2, <2>4, <2>5, <2>6
<1>7. InOrder(f, p \o u, Tail(b))
  BY <1>4, <1>5, <1>6 DEF InOrder
<1> QED BY <1>7 DEF p

(* What is below everything on the way is put behind it. *)
LEMMA PutOrder ==
  ASSUME NEW f \in Int, NEW g \in Int, g <= f,
         NEW u \in Seq(Prints), NEW b \in Seq(Events), NEW m \in Events, InOrder(f, u, b),
         Climbs(m.prints), \A k \in 1 .. Len(m.prints) : g <= m.prints[k] /\ m.prints[k] < f
  PROVE InOrder(g, u, Append(b, m))
<1>1. /\ Len(Append(b, m)) = Len(b) + 1 /\ Len(b) \in Nat
      /\ Append(b, m)[Len(b) + 1] = m
      /\ \A i \in 1 .. Len(b) : Append(b, m)[i] = b[i]
  BY Appended
<1>2. m.prints \in Seq(Prints) /\ \A n \in 1 .. Len(b) : b[n].prints \in Seq(Prints)
  <2>1. \A n \in 1 .. Len(b) : b[n] \in Events
    OBVIOUS
  <2> QED BY <2>1 DEF Events
<1>3. ASSUME NEW s \in Seq(Prints), AtOrAbove(f, s) PROVE AtOrAbove(g, s) /\ Under(m.prints, s)
  <2>1. \A k \in 1 .. Len(s) : s[k] \in Int
    BY Stamps DEF Prints
  <2>2. \A k \in 1 .. Len(m.prints) : m.prints[k] \in Int
    BY <1>2, Stamps DEF Prints
  <2> QED BY <1>3, <2>1, <2>2 DEF AtOrAbove, Under
<1>4. Climbs(u) /\ AtOrAbove(g, u)
  BY <1>3 DEF InOrder
<1>5. ASSUME NEW n \in 1 .. Len(Append(b, m))
      PROVE /\ Climbs(Append(b, m)[n].prints) /\ AtOrAbove(g, Append(b, m)[n].prints)
            /\ Under(Append(b, m)[n].prints, u)
            /\ \A i \in 1 .. n - 1 : Under(Append(b, m)[n].prints, Append(b, m)[i].prints)
  <2>1. CASE n \in 1 .. Len(b)
    <3>1. \A i \in 1 .. n - 1 : i \in 1 .. Len(b)
      BY <1>1, <2>1
    <3> QED BY <1>1, <1>2, <1>3, <2>1, <3>1 DEF InOrder
  <2>2. CASE n = Len(b) + 1
    <3>1. Append(b, m)[n] = m /\ \A i \in 1 .. n - 1 : i \in 1 .. Len(b)
      BY <1>1, <2>2
    <3>2. AtOrAbove(g, m.prints)
      BY DEF AtOrAbove
    <3>3. Under(m.prints, u)
      BY <1>3 DEF InOrder
    <3>4. ASSUME NEW i \in 1 .. n - 1 PROVE Under(m.prints, Append(b, m)[i].prints)
      <4>1. i \in 1 .. Len(b)
        BY <3>1, <3>4
      <4>2. AtOrAbove(f, b[i].prints)
        BY <4>1 DEF InOrder
      <4> QED BY <1>1, <1>2, <1>3, <4>1, <4>2
    <3> QED BY <3>1, <3>2, <3>3, <3>4
  <2> QED BY <1>1, <1>5, <2>1, <2>2
<1> QED BY <1>4, <1>5 DEF InOrder

(* A session that ends leaves at most one empty reply. *)
LEMMA LoseIs ==
  ASSUME Types, Single, Lose
  PROVE /\ UNCHANGED <<run, tab, chart, foreign>> /\ feed' \in Feeds /\ feed'.floor = feed.floor
        /\ \/ inbox' = inbox
           \/ \E m \in Events : m.prints = << >> /\ inbox' = Append(inbox, m)
<1>1. /\ inbox \in Seq(Events) /\ feed \in Feeds /\ feed.asks \in Seq(Asks)
  BY FeedFields DEF Types
<1> DEFINE over == [k \in DOMAIN feed.asks |-> Reply(<< >>, feed.asks[k].id)]
<1>2. inbox' = inbox \o over /\ UNCHANGED <<run, tab, chart, foreign>>
  BY DEF Lose
<1>3. feed' \in Feeds /\ feed'.floor = feed.floor
  <2>1. feed' = [st |-> "hello", any |-> feed.any, slices |-> 0, floor |-> feed.floor,
                 asks |-> << >>, pages |-> TRUE]
    BY <1>1 DEF Lose, Feeds
  <2>2. << >> \in Seq(Asks)
    OBVIOUS
  <2>3. feed.any \in BOOLEAN /\ feed.floor \in 1 .. N + 1
    BY <1>1, FeedFields
  <2> QED BY <2>1, <2>2, <2>3 DEF Feeds
<1>4. feed.asks = << >> \/ Len(feed.asks) = 1
  BY DEF Single, OneOut
<1>5. CASE feed.asks = << >>
  <2>1. over = << >>
    BY <1>5
  <2> HIDE DEF over
  <2>2. inbox' = inbox
    BY <1>1, <1>2, <2>1
  <2> QED BY <1>2, <1>3, <2>2
<1>6. CASE Len(feed.asks) = 1
  <2> DEFINE m == Reply(<< >>, feed.asks[1].id)
  <2>1. feed.asks[1] \in Asks /\ DOMAIN feed.asks = 1 .. 1
    BY <1>1, <1>6
  <2>2. m \in Events /\ m.prints = << >>
    <3>1. feed.asks[1].id \in Nat /\ << >> \in Seq(Prints)
      BY <2>1 DEF Asks
    <3> QED BY <3>1 DEF Reply, Events
  <2>3. over = <<m>>
    BY <2>1
  <2> HIDE DEF over, m
  <2>4. inbox' = Append(inbox, m)
    BY <1>1, <1>2, <2>2, <2>3
  <2> QED BY <1>2, <1>3, <2>2, <2>4
<1> QED BY <1>4, <1>5, <1>6

(* The chart and what is on the way stay in the order of the tape. *)
LEMMA TapeOrderStep ==
  ASSUME Types, Single, TapeOrder, ~overtaken', [RunNext]_runVars
  PROVE TapeOrder'
<1>1. /\ run \in Runs /\ inbox \in Seq(Events) /\ feed \in Feeds /\ chart \in Seq(Prints)
      /\ feed.floor \in Int
  BY FeedFields, Stamps DEF Types
<1>2. InOrder(feed.floor, chart, inbox)
  BY OrderIs
<1>3. SUFFICES InOrder(feed'.floor, chart', inbox')
  <2>1. TapeOrder' <=> InOrder(feed'.floor, chart', inbox')
    <3>1. TapeOrder' => InOrder(feed'.floor, chart', inbox')
      BY DEF TapeOrder, InOrder, AtOrAbove, Under
    <3>2. InOrder(feed'.floor, chart', inbox') => TapeOrder'
      BY DEF TapeOrder, InOrder, AtOrAbove, Under
    <3> QED BY <3>1, <3>2
  <2> QED BY <2>1
<1>4. Asked => feed'.floor = feed.floor
  BY <1>1 DEF Asked, Feeds
<1>5. CASE Rests
  BY <1>2, <1>5 DEF Rests
<1>6. CASE Sends
  BY <1>2, <1>4, <1>6 DEF Sends
<1>7. CASE Hears \/ Fills
  <2>1. /\ inbox # << >> /\ inbox' = Tail(inbox) /\ chart' = Head(inbox).prints \o chart
        /\ feed'.floor = feed.floor
    BY <1>4, <1>7 DEF Hears, Fills, Taken
  <2>2. InOrder(feed.floor, Head(inbox).prints \o chart, Tail(inbox))
    BY <1>1, <1>2, <2>1, TakenOrder
  <2> QED BY <2>1, <2>2
<1>8. ASSUME NEW m, Says(m) PROVE InOrder(feed'.floor, chart', inbox')
  <2>1. /\ m \in Events /\ inbox' = Append(inbox, m) /\ chart' = chart /\ feed' \in Feeds
        /\ feed'.floor <= feed.floor /\ Climbs(m.prints)
        /\ \A k \in 1 .. Len(m.prints) : feed'.floor <= m.prints[k] /\ m.prints[k] < feed.floor
    BY <1>8 DEF Says, ours
  <2>2. feed'.floor \in Int
    BY <2>1, FeedFields, Stamps
  <2>3. InOrder(feed'.floor, chart, Append(inbox, m))
    BY <1>1, <1>2, <2>1, <2>2, PutOrder
  <2> QED BY <2>1, <2>3
<1>9. CASE Answers \/ SaysSlice \/ OpensChart
  BY <1>8, <1>9 DEF Answers, SaysSlice, OpensChart
<1>10. CASE Skips
  <2>1. feed'.floor = feed.floor
    BY <1>1, <1>10 DEF Skips, Feeds
  <2> QED BY <1>2, <1>10, <2>1 DEF Skips, ours
<1>11. CASE LivePrint
  <2>1. inbox = << >> /\ inbox' = inbox /\ chart' = <<N>>
    <3>1. chart = << >> /\ chart' = Append(chart, N)
      BY <1>11 DEF LivePrint, Single, OpensFirst
    <3>2. chart' = <<N>>
      BY <3>1
    <3> QED BY <1>11, <3>2 DEF LivePrint, Single, OpensFirst
  <2>2. feed'.floor = N /\ N \in Int
    BY <1>1, <1>11, Stamps DEF LivePrint, Feeds
  <2>3. Climbs(chart') /\ AtOrAbove(N, chart')
    BY <2>1, <2>2 DEF Climbs, AtOrAbove
  <2>4. Len(inbox') = 0
    BY <2>1
  <2> QED BY <2>2, <2>3, <2>4 DEF InOrder
<1>12. CASE Lose
  <2>1. /\ UNCHANGED <<run, tab, chart, foreign>> /\ feed'.floor = feed.floor
        /\ \/ inbox' = inbox
           \/ \E m \in Events : m.prints = << >> /\ inbox' = Append(inbox, m)
    BY <1>12, LoseIs
  <2>2. ASSUME NEW m \in Events, m.prints = << >>
        PROVE InOrder(feed.floor, chart, Append(inbox, m))
    <3>1. Climbs(m.prints) /\ Len(m.prints) = 0
      BY <2>2 DEF Climbs
    <3> QED BY <1>1, <1>2, <3>1, PutOrder
  <2> QED BY <1>2, <2>1, <2>2
<1>13. CASE Attach
  <2>1. inbox' = << >> /\ chart' = chart /\ Len(inbox') = 0
    BY <1>13 DEF Attach
  <2>2. feed'.floor = IF chart = << >> THEN N + 1 ELSE chart[1]
    <3>1. feed'.floor = IF Displayed = << >> THEN N + 1 ELSE Displayed[1]
      BY <1>1, <1>13 DEF Attach, Feeds
    <3>2. panes.kept = 0
      <4>1. overtaken' = (overtaken \/ panes.kept > 0)
        BY <1>13 DEF Attach
      <4>2. panes.kept = 0 \/ panes.kept > 0
        BY DEF Types, Pans
      <4> QED BY <4>1, <4>2
    <3>3. Displayed = chart
      BY <3>2, DisplayedIs
    <3> QED BY <3>1, <3>3
  <2>3. Climbs(chart)
    BY <1>2 DEF InOrder
  <2>4. AtOrAbove(feed'.floor, chart)
    <3> SUFFICES ASSUME NEW k \in 1 .. Len(chart) PROVE feed'.floor <= chart[k]
      BY DEF AtOrAbove
    <3>1. chart # << >> /\ Len(chart) \in Nat /\ 1 \in 1 .. Len(chart)
      BY <1>1
    <3>2. chart[1] \in Int /\ chart[k] \in Int
      BY <1>1, <3>1, Stamps DEF Prints
    <3>3. k = 1 \/ 1 \in 1 .. k - 1
      BY <3>1
    <3>4. k = 1 \/ chart[1] < chart[k]
      BY <2>3, <3>3 DEF Climbs
    <3> QED BY <2>2, <3>1, <3>2, <3>4
  <2> QED BY <2>1, <2>3, <2>4 DEF InOrder
<1> QED BY <1>5, <1>6, <1>7, <1>9, <1>10, <1>11, <1>12, <1>13,
           StepIs, BlockIs, SliceIs, AnswersNow

-----------------------------------------------------------------------------
(* An empty tab. *)
LEMMA RunInvInit ==
  ASSUME RunInit
  PROVE RunInv
<1>1. N \in Nat /\ N > 0
  BY Stamps
<1>2. /\ run = [queued |-> NoReach, camp |-> NoCampaign, out |-> FALSE, paused |-> FALSE]
      /\ tab = [wait |-> 1, opening |-> 0, visible |-> TRUE]
      /\ panes = [kept |-> 0, failed |-> FALSE]
      /\ chart = << >>
      /\ feed = [st |-> "hello", any |-> FALSE, slices |-> 0, floor |-> N + 1, asks |-> << >>,
                 pages |-> TRUE]
      /\ inbox = << >> /\ outcome = NoOutcome /\ foreign = FALSE /\ presses = 0
      /\ overtaken = FALSE /\ reopened = FALSE
  BY DEF RunInit
<1>3. ~Running /\ ~Queued /\ ~run.out /\ ~run.paused
  BY <1>2 DEF Running, Queued
<1>4. Len(inbox) = 0 /\ Len(chart) = 0 /\ feed.asks = << >> /\ tab.wait = 1
  BY <1>2
<1>5. Types
  <2>1. run \in Runs /\ tab \in Tabs
    BY <1>2 DEF Runs, Tabs
  <2>2. << >> \in Seq(Asks) /\ N + 1 \in 1 .. N + 1
    BY <1>1
  <2>3. feed \in Feeds
    BY <1>2, <2>2 DEF Feeds
  <2>4. inbox \in Seq(Events) /\ chart \in Seq(Prints)
    BY <1>2
  <2>5. outcome.end \in Ends
    BY <1>2 DEF NoOutcome, Ends
  <2>6. panes \in Pans /\ panes.kept <= Len(chart) /\ ~panes.failed
    BY <1>2, <1>4 DEF Pans
  <2>7. feed.slices = 0 /\ feed.floor = N + 1
    BY <1>2
  <2>8. presses \in Nat /\ ~Queued /\ overtaken = FALSE /\ reopened = FALSE
    BY <1>2, <1>3
  <2>9. feed.slices < feed.floor
    BY <1>1, <2>7
  <2> QED BY <2>1, <2>3, <2>4, <2>5, <2>6, <2>7, <2>8, <2>9 DEF Types
<1>6. OneOut
  BY <1>2, <1>3, <1>4 DEF OneOut
<1>7. OpensFirst
  BY <1>2, <1>3, <1>4 DEF OpensFirst
<1>8. Paused
  BY <1>3, <1>4 DEF Paused
<1>9. TapeOrder
  BY <1>4 DEF TapeOrder, Climbs
<1> QED BY <1>5, <1>6, <1>7, <1>8, <1>9 DEF RunInv, Single

(* A page that overtook another, or a feed that began anew, is not forgotten. *)
LEMMA NotForgotten ==
  ASSUME Types, [RunNext]_runVars
  PROVE (overtaken => overtaken') /\ (reopened => reopened')
<1>1. CASE Rests \/ Sends \/ Hears \/ Fills
  BY <1>1 DEF Rests, Sends, Hears, Fills, Sound, Taken
<1>2. CASE OpensChart \/ Skips \/ SaysSlice \/ Answers
  BY <1>2 DEF OpensChart, Skips, SaysSlice, Answers, Says, ours
<1>3. CASE LivePrint \/ Lose
  BY <1>3 DEF LivePrint, Lose
<1>4. CASE Attach
  <2>1. /\ overtaken' = (overtaken \/ panes.kept > 0)
        /\ reopened' = (reopened \/ (panes.kept > 0 /\ Displayed = << >>))
    BY <1>4 DEF Attach
  <2> QED BY <2>1
<1> QED BY <1>1, <1>2, <1>3, <1>4, StepIs, BlockIs, SliceIs, AnswersNow

(* Every step keeps the invariant. *)
LEMMA RunInvStep ==
  ASSUME RunInv, [RunNext]_runVars
  PROVE RunInv'
<1>1. Types /\ (reopened \/ Single) /\ (overtaken \/ TapeOrder) /\ (reopened => overtaken)
  BY DEF RunInv, Types
<1>2. Types'
  BY <1>1, TypesStep
<1>3. (overtaken => overtaken') /\ (reopened => reopened')
  BY <1>1, NotForgotten
<1>4. ASSUME ~reopened' PROVE Single'
  <2>1. Single
    BY <1>1, <1>3, <1>4
  <2>2. OneOut' /\ OpensFirst' /\ Paused'
    BY <1>1, <1>2, <1>4, <2>1, OneOutStep, OpensFirstStep, PausedStep
  <2> QED BY <2>2 DEF Single
<1>5. ASSUME ~overtaken' PROVE TapeOrder'
  <2>1. Single /\ TapeOrder
    BY <1>1, <1>3, <1>5
  <2> QED BY <1>1, <1>5, <2>1, TapeOrderStep
<1> QED BY <1>2, <1>4, <1>5 DEF RunInv

(* The request that is out is with the feed or on its way back, it is the run's own,
   and the block that opens the chart comes first, unless a feed began anew on a tab
   that retains prints and displays none; and the chart, with what is on its way to
   it, is in the order of the tape, unless a page was drawn behind a retained one or
   a feed resumed without it: for every tape, target and limit. *)
THEOREM RunInvariant == RunSpec => []RunInv
<1>1. RunInit => RunInv
  BY RunInvInit
<1>2. RunInv /\ [RunNext]_runVars => RunInv'
  BY RunInvStep
<1> QED BY <1>1, <1>2, PTL DEF RunSpec

(* The shape of the run, the tab, the panes and the chart: a run waits exactly while
   nothing of it is out and a tab waits for one reply, unless a feed began anew
   without the retained pages; a failed rebuild retains some; and the prints of the
   chart climb, unless a page was drawn behind them or a feed resumed without them
   (history_run.rs, tab/feed.rs, history_publication.rs). *)
THEOREM RunTypeCorrect == RunSpec => []RunTypeOK
<1>1. RunInv => RunTypeOK
  <2> SUFFICES ASSUME RunInv PROVE RunTypeOK
    OBVIOUS
  <2>1. run \in Runs /\ tab \in Tabs /\ chart \in Seq(Prints) /\ outcome.end \in Ends
        /\ panes \in Pans /\ panes.kept <= Len(chart) /\ (panes.failed => panes.kept > 0)
    BY DEF RunInv, Types
  <2>2. run.queued \in Reaches \cup {NoReach} /\ run.out \in BOOLEAN
    BY <2>1 DEF Runs
  <2>3. tab.wait \in Nat /\ tab.opening \in Nat /\ panes.kept \in 0 .. Len(chart)
    BY <2>1 DEF Tabs, Pans
  <2>4. reopened \/ /\ Running => (run.paused <=> ~run.out)
                    /\ run.paused => Running
                    /\ tab.wait <= 1
    BY DEF RunInv, Single, Paused
  <2>5. ASSUME ~overtaken, NEW k \in 2 .. Len(chart) PROVE chart[k - 1] < chart[k]
    <3>1. Len(chart) \in Nat
      BY <2>1
    <3>2. k \in 1 .. Len(chart) /\ k - 1 \in 1 .. k - 1
      BY <2>5, <3>1
    <3> QED BY <2>5, <3>2 DEF RunInv, TapeOrder, Climbs
  <2> QED BY <2>1, <2>2, <2>3, <2>4, <2>5 DEF RunTypeOK
<1> QED BY <1>1, RunInvariant, PTL

(* A run counts a request as out exactly while the feed owes its reply or the reply
   is on its way, and judges no page it did not ask for, unless a feed began anew on a
   tab that retains prints and displays none (history_run.rs: send_next,
   on_reply, cancel, attach). *)
THEOREM OneRequestOutHolds == RunSpec => []OneRequestOut
<1>1. RunInv => OneRequestOut
  <2> SUFFICES ASSUME RunInv, ~reopened PROVE OneRequestOut
    BY DEF OneRequestOut
  <2> DEFINE own == {n \in DOMAIN inbox : inbox[n].t = "prepended" /\ inbox[n].id # Unasked}
  <2>1. /\ inbox \in Seq(Events) /\ feed \in Feeds /\ run \in Runs /\ feed.asks \in Seq(Asks)
        /\ DOMAIN inbox = 1 .. Len(inbox) /\ run.out \in BOOLEAN
    <3>1. inbox \in Seq(Events) /\ feed \in Feeds /\ run \in Runs
      BY DEF RunInv, Types
    <3>2. feed.asks \in Seq(Asks) /\ run.out \in BOOLEAN
      BY <3>1 DEF Feeds, Runs
    <3> QED BY <3>1, <3>2
  <2>2. own = {n \in 1 .. Len(inbox) : Own(inbox[n])}
    BY <2>1 DEF Own
  <2> HIDE DEF own
  <2>3. NoReply(inbox) => Cardinality(own) = 0
    <3>1. NoReply(inbox) => own = {}
      BY <2>2 DEF NoReply
    <3> QED BY <3>1, FS_EmptySet
  <2>4. SoleReply(inbox) => Cardinality(own) = 1
    <3> SUFFICES ASSUME SoleReply(inbox) PROVE Cardinality(own) = 1
      OBVIOUS
    <3>1. PICK n \in 1 .. Len(inbox) : Own(inbox[n])
      BY DEF SoleReply
    <3>2. own = {n}
      BY <2>2, <3>1 DEF SoleReply
    <3> QED BY <3>2, FS_Singleton
  <2>5. /\ ~run.out => feed.asks = << >> /\ NoReply(inbox)
        /\ run.out => \/ Len(feed.asks) = 1 /\ NoReply(inbox)
                      \/ feed.asks = << >> /\ SoleReply(inbox)
        /\ ~foreign
    BY DEF RunInv, Single, OneOut, NoReply, SoleReply
  <2>6. OnTheWay = Len(feed.asks) + Cardinality(own)
    BY DEF OnTheWay, own
  <2>7. CASE ~run.out
    <3>1. Len(feed.asks) = 0 /\ Cardinality(own) = 0
      BY <2>3, <2>5, <2>7
    <3> QED BY <2>5, <2>6, <2>7, <3>1 DEF OneRequestOut
  <2>8. CASE run.out
    <3>1. \/ Len(feed.asks) = 1 /\ Cardinality(own) = 0
          \/ Len(feed.asks) = 0 /\ Cardinality(own) = 1
      BY <2>3, <2>4, <2>5, <2>8
    <3> DEFINE size == Cardinality(own)
    <3>2. OnTheWay = Len(feed.asks) + size
      BY <2>6
    <3>3. \/ Len(feed.asks) = 1 /\ size = 0
          \/ Len(feed.asks) = 0 /\ size = 1
      BY <3>1
    <3> HIDE DEF size
    <3>4. Len(feed.asks) + size = 1
      <4>1. CASE Len(feed.asks) = 1 /\ size = 0
        BY <4>1
      <4>2. CASE Len(feed.asks) = 0 /\ size = 1
        BY <4>2
      <4> QED BY <3>3, <4>1, <4>2
    <3>5. OnTheWay = 1
      BY <3>2, <3>4
    <3> QED BY <2>5, <2>8, <3>5 DEF OneRequestOut
  <2> QED BY <2>7, <2>8
<1> QED BY <1>1, RunInvariant, PTL

-----------------------------------------------------------------------------
(* Where the campaign stands on the chart. *)

(* The stamps of the tape do not fall. *)
LEMMA StampsRise ==
  \A i, j \in Prints : i <= j => Ms[i] <= Ms[j]
<1> SUFFICES ASSUME NEW i \in Prints, NEW j \in Prints, i <= j, ~(Ms[i] <= Ms[j]) PROVE FALSE
  OBVIOUS
<1>1. \A k \in Prints : k \in Nat /\ Ms[k] \in Nat
  BY Stamps DEF Prints
<1> DEFINE Bad == {k \in Prints : i <= k /\ ~(Ms[i] <= Ms[k])}
<1>2. PICK k \in Bad : \A l \in Bad : k <= l
  <2>1. Bad \subseteq Nat /\ Bad # {}
    BY <1>1
  <2> HIDE DEF Bad
  <2> QED BY <2>1, LeastNumber
<1>3. k # i /\ k \in Prints /\ i <= k
  BY <1>1, <1>2
<1>4. k \in 2 .. N /\ k - 1 \in Prints /\ i <= k - 1
  BY <1>1, <1>3, Stamps DEF Prints
<1>5. Ms[k - 1] <= Ms[k]
  BY <1>4, RunAssumption
<1>6. k - 1 \notin Bad
  BY <1>2, <1>4, <1>1
<1>7. Ms[i] <= Ms[k - 1]
  BY <1>4, <1>6
<1> QED BY <1>1, <1>2, <1>3, <1>4, <1>5, <1>7

(* The prints of a chart are stamped, the older no later than the newer. *)
LEMMA StampIs ==
  ASSUME NEW s \in Seq(Prints), Climbs(s)
  PROVE /\ \A j \in 1 .. Len(s) : Stamp(s, j) \in Nat \ {0}
        /\ \A j \in 1 .. Len(s) - 1 : Stamp(s, j + 1) <= Stamp(s, j)
<1>1. Len(s) \in Nat /\ \A k \in 1 .. Len(s) : s[k] \in Prints
  OBVIOUS
<1>2. \A i \in Prints : Ms[i] \in Nat \ {0}
  BY RunAssumption DEF N, Prints
<1>3. ASSUME NEW j \in 1 .. Len(s) PROVE Stamp(s, j) \in Nat \ {0}
  <2>1. Len(s) + 1 - j \in 1 .. Len(s)
    BY <1>1
  <2> QED BY <1>1, <1>2, <2>1 DEF Stamp
<1>4. ASSUME NEW j \in 1 .. Len(s) - 1 PROVE Stamp(s, j + 1) <= Stamp(s, j)
  <2> DEFINE k == Len(s) + 1 - j
  <2>1. k \in 1 .. Len(s) /\ k - 1 \in 1 .. Len(s) /\ k - 1 \in 1 .. k - 1
        /\ Len(s) + 1 - (j + 1) = k - 1
    BY <1>1
  <2>2. Stamp(s, j) = Ms[s[k]]
    BY DEF Stamp
  <2>3. Stamp(s, j + 1) = Ms[s[k - 1]]
    BY <2>1 DEF Stamp
  <2> HIDE DEF k
  <2>4. s[k - 1] < s[k]
    BY <2>1 DEF Climbs
  <2>5. s[k - 1] \in Prints /\ s[k] \in Prints
    BY <1>1, <2>1
  <2>6. s[k - 1] <= s[k]
    BY <2>4, <2>5, Stamps DEF Prints
  <2> QED BY <2>2, <2>3, <2>5, <2>6, StampsRise
<1> QED BY <1>3, <1>4

(* What is carried from one number to the next is carried to the last. *)
LEMMA Forwards ==
  ASSUME NEW L \in Nat, NEW P, 1 \in P,
         \A j \in 1 .. L - 1 : j \in P => j + 1 \in P
  PROVE \A j \in 1 .. L : j \in P
<1> SUFFICES ASSUME NEW i \in 1 .. L, i \notin P PROVE FALSE
  OBVIOUS
<1> DEFINE Bad == {j \in 1 .. L : j \notin P}
<1>1. PICK j \in Bad : \A l \in Bad : j <= l
  <2>1. Bad \subseteq Nat /\ Bad # {}
    OBVIOUS
  <2> HIDE DEF Bad
  <2> QED BY <2>1, LeastNumber
<1>2. j # 1 /\ j \in 1 .. L /\ j \notin P
  BY <1>1
<1>3. j - 1 \in 1 .. L - 1 /\ j - 1 \notin Bad /\ (j - 1) + 1 = j
  BY <1>1, <1>2
<1>4. j - 1 \in P
  BY <1>3
<1> QED BY <1>2, <1>3, <1>4

(* The traded time of one step between two prints. *)
StepTo(s, j) ==
  IF Stamp(s, j - 1) - Stamp(s, j) > SessionGap THEN 0 ELSE Stamp(s, j - 1) - Stamp(s, j)

(* The traded time is what its recursion says. *)
LEMMA TradedIs ==
  ASSUME NEW s \in Seq(Prints), Climbs(s), s # << >>, NEW from \in Int
  PROVE /\ \A j \in 1 .. Len(s) : TradedTo(s, from)[j] \in Int
        /\ TradedTo(s, from)[1] = 0
        /\ \A j \in 2 .. Len(s) :
             TradedTo(s, from)[j] =
               IF Stamp(s, j) >= from THEN 0 ELSE TradedTo(s, from)[j - 1] + StepTo(s, j)
<1> DEFINE n == Len(s)
           L == n - 1
           one(j, a) == IF Stamp(s, j) >= from THEN 0 ELSE a + StepTo(s, j)
           step == [k \in 1 .. L |-> [a \in Int |-> one(n + 1 - k, a)]]
           body(f) == [j \in 1 .. n |->
                         IF j = 1 \/ Stamp(s, j) >= from THEN 0
                         ELSE LET d == Stamp(s, j - 1) - Stamp(s, j)
                              IN  f[j - 1] + (IF d > SessionGap THEN 0 ELSE d)]
           t == CHOOSE f : f = body(f)
<1>1. n \in Nat /\ n >= 1 /\ L \in Nat /\ L + 1 = n
  OBVIOUS
<1>2. \A j \in 1 .. n : Stamp(s, j) \in Int
  BY StampIs
<1>3. \A j \in 2 .. n : StepTo(s, j) \in Int
  BY <1>1, <1>2 DEF StepTo
<1>4. \A j \in 2 .. n : \A a \in Int : one(j, a) \in Int
  BY <1>3
<1>5. step \in Steps(L, Int)
  <2>1. \A k \in 1 .. L : n + 1 - k \in 2 .. n
    BY <1>1
  <2> HIDE DEF one, n, L
  <2> QED BY <1>4, <2>1 DEF Steps
<1>6. \A f : \A j \in 2 .. n : body(f)[j] = one(j, f[j - 1])
  BY <1>1 DEF StepTo
<1>7. \E f : f = body(f)
  <2>1. PICK g : Solves(g, L, Int, 0, step)
    <3> HIDE DEF L, step
    <3> QED BY <1>1, <1>5, Recursion
  <2>2. g \in [1 .. n -> Int] /\ g[n] = 0 /\ \A k \in 1 .. L : g[k] = step[k][g[k + 1]]
    <3> HIDE DEF step, n, L
    <3> QED BY <1>1, <2>1 DEF Solves
  <2> DEFINE f == [j \in 1 .. n |-> g[n + 1 - j]]
  <2>3. \A j \in 2 .. n : f[j] = one(j, f[j - 1])
    <3> SUFFICES ASSUME NEW j \in 2 .. n PROVE f[j] = one(j, f[j - 1])
      OBVIOUS
    <3> DEFINE k == n + 1 - j
    <3>1. k \in 1 .. L /\ k + 1 = n + 1 - (j - 1) /\ k + 1 \in 1 .. n /\ j - 1 \in 1 .. n
          /\ j \in 1 .. n /\ n + 1 - k = j
      BY <1>1
    <3>2. f[j] = g[k] /\ f[j - 1] = g[k + 1]
      BY <3>1
    <3>3. g[k + 1] \in Int
      <4> HIDE DEF n, k
      <4> QED BY <2>2, <3>1
    <3>4. step[k] = [a \in Int |-> one(n + 1 - k, a)]
      <4> HIDE DEF one, n, L, k
      <4> QED BY <3>1
    <3>5. g[k] = step[k][g[k + 1]]
      BY <2>2, <3>1
    <3> HIDE DEF f, one, n, L, k, step
    <3> QED BY <3>1, <3>2, <3>3, <3>4, <3>5
  <2>4. f[1] = 0
    BY <1>1, <2>2
  <2>5. \A j \in 1 .. n : f[j] = body(f)[j]
    <3>1. body(f)[1] = 0
      BY <1>1
    <3>2. \A j \in 1 .. n : j = 1 \/ j \in 2 .. n
      BY <1>1
    <3> HIDE DEF f, body, n, one
    <3> QED BY <1>6, <2>3, <2>4, <3>1, <3>2
  <2>6. f = body(f)
    <3>1. f = [j \in 1 .. n |-> f[j]]
      OBVIOUS
    <3>2. body(f) = [j \in 1 .. n |-> body(f)[j]]
      OBVIOUS
    <3> HIDE DEF f, body, n
    <3> QED BY <2>5, <3>1, <3>2
  <2> QED BY <2>6
<1>8. t = body(t)
  <2> HIDE DEF body
  <2> QED BY <1>7
<1>9. TradedTo(s, from) = t
  BY DEF TradedTo
<1>10. body(t)[1] = 0
  BY <1>1
<1>11. t[1] = 0 /\ \A j \in 2 .. n : t[j] = one(j, t[j - 1])
  <2> HIDE DEF t, body, one, n
  <2> QED BY <1>6, <1>8, <1>10
<1>12. \A j \in 1 .. n : t[j] \in Int
  <2> DEFINE P == {j \in 1 .. n : t[j] \in Int}
  <2>1. 1 \in P
    <3> HIDE DEF t
    <3> QED BY <1>1, <1>11
  <2>2. \A j \in 1 .. n - 1 : j \in P => j + 1 \in P
    <3> SUFFICES ASSUME NEW j \in 1 .. n - 1, j \in P PROVE j + 1 \in P
      OBVIOUS
    <3>1. j + 1 \in 2 .. n /\ (j + 1) - 1 = j /\ j + 1 \in 1 .. n
      BY <1>1
    <3> HIDE DEF t, one, n
    <3>2. t[j + 1] = one(j + 1, t[j]) /\ t[j] \in Int
      BY <1>11, <3>1
    <3> QED BY <1>4, <3>1, <3>2
  <2>3. \A j \in 1 .. n : j \in P
    <3> HIDE DEF P, n
    <3> QED BY <1>1, <2>1, <2>2, Forwards
  <2> QED BY <2>3
<1>13. \A j \in 2 .. n : t[j] = IF Stamp(s, j) >= from THEN 0 ELSE t[j - 1] + StepTo(s, j)
  <2> HIDE DEF t
  <2> QED BY <1>11
<1> HIDE DEF t
<1> QED BY <1>9, <1>11, <1>12, <1>13

(* The steps of the traded time count forward. *)
LEMMA StepCounts ==
  ASSUME NEW s \in Seq(Prints), Climbs(s), NEW j \in 2 .. Len(s)
  PROVE StepTo(s, j) \in Nat
<1>1. j - 1 \in 1 .. Len(s) - 1 /\ (j - 1) + 1 = j /\ j - 1 \in 1 .. Len(s) /\ j \in 1 .. Len(s)
  OBVIOUS
<1>2. Stamp(s, j) <= Stamp(s, j - 1) /\ Stamp(s, j) \in Int /\ Stamp(s, j - 1) \in Int
  BY <1>1, StampIs
<1> QED BY <1>2 DEF StepTo

(* So the traded time does not shrink on the way back. *)
LEMMA TradedRises ==
  ASSUME NEW s \in Seq(Prints), Climbs(s), s # << >>, NEW from \in Int, NEW m \in 1 .. Len(s)
  PROVE TradedTo(s, from)[m] <= TradedTo(s, from)[Len(s)]
<1> DEFINE t == TradedTo(s, from)
           n == Len(s)
           P == {j \in 1 .. n : \A i \in 1 .. j : t[i] <= t[j] /\ 0 <= t[j]
                                                 /\ (Stamp(s, j) >= from => t[j] = 0)}
<1>1. n \in Nat /\ n >= 1
  OBVIOUS
<1>2. /\ \A j \in 1 .. n : t[j] \in Int
      /\ t[1] = 0
      /\ \A j \in 2 .. n : t[j] = IF Stamp(s, j) >= from THEN 0 ELSE t[j - 1] + StepTo(s, j)
  BY TradedIs
<1>3. \A j \in 1 .. n : Stamp(s, j) \in Int
  BY StampIs
<1> HIDE DEF t
<1>4. 1 \in P
  BY <1>1, <1>2
<1>5. \A j \in 1 .. n - 1 : j \in P => j + 1 \in P
  <2> SUFFICES ASSUME NEW j \in 1 .. n - 1, j \in P PROVE j + 1 \in P
    OBVIOUS
  <2>1. j + 1 \in 2 .. n /\ (j + 1) - 1 = j /\ j \in 1 .. n /\ j + 1 \in 1 .. n /\ j \in 1 .. j
    BY <1>1
  <2>2. t[j + 1] = IF Stamp(s, j + 1) >= from THEN 0 ELSE t[j] + StepTo(s, j + 1)
    BY <1>2, <2>1
  <2>3. StepTo(s, j + 1) \in Nat /\ Stamp(s, j + 1) <= Stamp(s, j)
    BY <2>1, StepCounts, StampIs
  <2>4. \A i \in 1 .. j : t[i] <= t[j] /\ 0 <= t[j] /\ (Stamp(s, j) >= from => t[j] = 0)
    OBVIOUS
  <2>5. t[j] \in Int /\ t[j + 1] \in Int /\ Stamp(s, j) \in Int /\ Stamp(s, j + 1) \in Int
    BY <1>2, <1>3, <2>1
  <2>6. t[j] <= t[j + 1] /\ 0 <= t[j + 1] /\ (Stamp(s, j + 1) >= from => t[j + 1] = 0)
    <3> HIDE DEF P, n
    <3> QED BY <2>1, <2>2, <2>3, <2>4, <2>5
  <2>7. ASSUME NEW i \in 1 .. j + 1 PROVE t[i] <= t[j + 1]
    <3>1. i = j + 1 \/ i \in 1 .. j
      BY <2>1
    <3>2. i \in 1 .. n
      BY <2>1
    <3>3. t[i] \in Int
      BY <1>2, <3>2
    <3> HIDE DEF P, n
    <3> QED BY <2>4, <2>5, <2>6, <3>1, <3>3
  <2> HIDE DEF n
  <2> QED BY <2>1, <2>6, <2>7
<1>6. n \in P
  <2> HIDE DEF P
  <2>1. \A j \in 1 .. n : j \in P
    BY <1>1, <1>4, <1>5, Forwards
  <2> QED BY <1>1, <2>1
<1> QED BY <1>6 DEF t

(* The opens behind a print count the print, when it opens a session itself. *)
LEMMA ClosesStep ==
  ASSUME NEW s \in Seq(Prints), NEW m \in 1 .. Len(s)
  PROVE /\ ClosesIn(s, m) \in Nat /\ ClosesIn(s, 1) = 0
        /\ ClosesIn(s, m + 1) = ClosesIn(s, m) + (IF m \in Opens(s) THEN 1 ELSE 0)
<1> DEFINE A == {i \in Opens(s) : i < m}
           B == {i \in Opens(s) : i < m + 1}
<1>1. Opens(s) \subseteq 1 .. Len(s)
  BY DEF Opens
<1>2. IsFiniteSet(A)
  <2>1. IsFiniteSet(1 .. Len(s))
    BY FS_Interval
  <2>2. A \subseteq 1 .. Len(s)
    BY <1>1
  <2> QED BY <2>1, <2>2, FS_Subset
<1>3. Cardinality(A) \in Nat
  BY <1>2, FS_CardinalityType
<1>4. m \notin A
  OBVIOUS
<1>o. ClosesIn(s, 1) = 0
  <2>1. {i \in Opens(s) : i < 1} = {}
    BY <1>1
  <2> QED BY <2>1, FS_EmptySet DEF ClosesIn
<1>5. CASE m \in Opens(s)
  <2>1. B = A \cup {m}
    BY <1>1, <1>5
  <2> HIDE DEF A, B
  <2>2. Cardinality(B) = Cardinality(A) + 1
    BY <1>2, <1>4, <2>1, FS_AddElement
  <2>3. ClosesIn(s, m) = Cardinality(A) /\ ClosesIn(s, m + 1) = Cardinality(B)
    BY DEF ClosesIn, A, B
  <2>4. ClosesIn(s, m) \in Nat /\ ClosesIn(s, m + 1) = ClosesIn(s, m) + 1
    BY <1>3, <2>2, <2>3
  <2> HIDE DEF ClosesIn
  <2> QED BY <1>5, <1>o, <2>4
<1>6. CASE m \notin Opens(s)
  <2>1. B = A
    BY <1>1, <1>6
  <2>2. ClosesIn(s, m) = Cardinality(A) /\ ClosesIn(s, m + 1) = Cardinality(B)
    BY DEF ClosesIn
  <2> HIDE DEF A, B
  <2>3. ClosesIn(s, m) \in Nat /\ ClosesIn(s, m + 1) = ClosesIn(s, m) + 0
    BY <1>3, <2>1, <2>2
  <2> QED BY <1>o, <1>6, <2>3
<1> QED BY <1>5, <1>6

(* What is put before a chart changes nothing of what lies above it. *)
LEMMA StampStays ==
  ASSUME NEW p \in Seq(Prints), NEW u \in Seq(Prints), NEW j \in 1 .. Len(u)
  PROVE Stamp(p \o u, j) = Stamp(u, j) /\ j \in 1 .. Len(p \o u)
<1>1. /\ Len(p \o u) = Len(p) + Len(u) /\ Len(p) \in Nat /\ Len(u) \in Nat
      /\ \A i \in 1 .. Len(u) : (p \o u)[Len(p) + i] = u[i]
  BY Joined
<1>2. Len(u) + 1 - j \in 1 .. Len(u) /\ Len(p \o u) + 1 - j = Len(p) + (Len(u) + 1 - j)
  BY <1>1
<1>3. (p \o u)[Len(p \o u) + 1 - j] = u[Len(u) + 1 - j]
  BY <1>1, <1>2
<1>4. j \in 1 .. Len(p \o u)
  BY <1>1
<1> QED BY <1>3, <1>4 DEF Stamp

(* Nor the traded time down to a print of the chart. *)
LEMMA TradedStays ==
  ASSUME NEW p \in Seq(Prints), NEW u \in Seq(Prints), Climbs(u), Climbs(p \o u), u # << >>,
         NEW from \in Int, NEW m \in 1 .. Len(u)
  PROVE TradedTo(p \o u, from)[m] = TradedTo(u, from)[m]
<1> DEFINE s == p \o u
           a == TradedTo(s, from)
           b == TradedTo(u, from)
           n == Len(u)
           P == {j \in 1 .. n : a[j] = b[j]}
<1>1. n \in Nat /\ n >= 1 /\ s \in Seq(Prints) /\ s # << >>
  BY Joined
<1>2. \A j \in 1 .. n : Stamp(s, j) = Stamp(u, j) /\ j \in 1 .. Len(s)
  BY StampStays
<1>3. /\ a[1] = 0
      /\ \A j \in 2 .. Len(s) : a[j] = IF Stamp(s, j) >= from THEN 0 ELSE a[j - 1] + StepTo(s, j)
  <2> HIDE DEF s
  <2> QED BY <1>1, TradedIs DEF s
<1>4. /\ b[1] = 0
      /\ \A j \in 2 .. n : b[j] = IF Stamp(u, j) >= from THEN 0 ELSE b[j - 1] + StepTo(u, j)
  BY TradedIs
<1> HIDE DEF a, b, s
<1>5. 1 \in P
  BY <1>1, <1>3, <1>4
<1>6. \A j \in 1 .. n - 1 : j \in P => j + 1 \in P
  <2> SUFFICES ASSUME NEW j \in 1 .. n - 1, j \in P PROVE j + 1 \in P
    OBVIOUS
  <2>1. j + 1 \in 2 .. n /\ (j + 1) - 1 = j /\ j \in 1 .. n /\ j + 1 \in 1 .. n
    BY <1>1
  <2> HIDE DEF n
  <2>2. /\ Stamp(s, j) = Stamp(u, j) /\ Stamp(s, j + 1) = Stamp(u, j + 1)
        /\ j + 1 \in 1 .. Len(s)
    BY <1>2, <2>1
  <2>3. j + 1 \in 2 .. Len(s)
    BY <1>1, <2>1, <2>2
  <2>4. StepTo(s, j + 1) = StepTo(u, j + 1)
    BY <2>1, <2>2 DEF StepTo
  <2>5. a[j + 1] = IF Stamp(s, j + 1) >= from THEN 0 ELSE a[j] + StepTo(s, j + 1)
    BY <1>3, <2>1, <2>3
  <2>6. b[j + 1] = IF Stamp(u, j + 1) >= from THEN 0 ELSE b[j] + StepTo(u, j + 1)
    BY <1>4, <2>1
  <2> QED BY <2>1, <2>2, <2>4, <2>5, <2>6
<1>7. m \in P
  <2> HIDE DEF P
  <2>1. \A j \in 1 .. n : j \in P
    <3> HIDE DEF n
    <3> QED BY <1>1, <1>5, <1>6, Forwards
  <2> QED BY <2>1
<1> QED BY <1>7 DEF a, b, s

(* Nor the sessions that closed above it. *)
LEMMA ClosesStay ==
  ASSUME NEW p \in Seq(Prints), NEW u \in Seq(Prints), NEW m \in 1 .. Len(u)
  PROVE /\ ClosesIn(p \o u, m) = ClosesIn(u, m)
        /\ m \in Opens(u) => m \in Opens(p \o u)
<1> DEFINE s == p \o u
<1>1. Len(s) = Len(p) + Len(u) /\ Len(p) \in Nat /\ Len(u) \in Nat
  BY Joined
<1>2. \A j \in 1 .. Len(u) : Stamp(s, j) = Stamp(u, j)
  BY StampStays
<1> HIDE DEF s
<1>3. \A j \in 1 .. Len(u) - 1 : j \in Opens(s) <=> j \in Opens(u)
  <2> SUFFICES ASSUME NEW j \in 1 .. Len(u) - 1 PROVE j \in Opens(s) <=> j \in Opens(u)
    OBVIOUS
  <2>1. j \in 1 .. Len(u) /\ j + 1 \in 1 .. Len(u) /\ j \in 1 .. Len(s) - 1
    BY <1>1
  <2>2. Stamp(s, j) = Stamp(u, j) /\ Stamp(s, j + 1) = Stamp(u, j + 1)
    BY <1>2, <2>1
  <2> QED BY <2>1, <2>2 DEF Opens
<1>4. Opens(s) \subseteq Nat /\ Opens(u) \subseteq 1 .. Len(u) - 1 /\ \A i \in Opens(s) : i >= 1
  BY DEF Opens
<1>5. {i \in Opens(s) : i < m} = {i \in Opens(u) : i < m}
  <2>1. \A i \in Nat : i >= 1 /\ i < m => i \in 1 .. Len(u) - 1
    BY <1>1
  <2>2. Opens(u) \subseteq Nat /\ \A i \in Opens(u) : i >= 1
    BY <1>4
  <2> QED BY <1>3, <1>4, <2>1, <2>2
<1> QED BY <1>3, <1>4, <1>5 DEF ClosesIn, s
-----------------------------------------------------------------------------
(* It is over and right, or has judged so many prints. *)
Stands(d, s, m) ==
  /\ Met(d) => Charted(d, s)
  /\ ~Met(d) => JudgedTo(d, s, m)

(* Of one run, whatever it has judged. *)
SameRun(c, d) == d.reach = c.reach /\ d.from = c.from /\ d.blind = c.blind

(* The numbers a target is measured with. *)
LEMMA Measures ==
  ASSUME NEW r \in Reaches
  PROVE /\ r.n * Day \in Nat /\ (r.n + 1) * Day \in Nat /\ r.n * Day <= (r.n + 1) * Day
        /\ r.n * Hour \in Nat /\ SessionGap \in Nat /\ r.n \in Nat
<1>1. r.n \in Nat /\ Day \in Nat /\ Hour \in Nat /\ SessionGap \in Nat
  BY ReachFacts, RunAssumption
<1> DEFINE n == r.n
<1>2. n \in Nat
  BY <1>1
<1> HIDE DEF n
<1>3. n * Day \in Nat /\ (n + 1) * Day = n * Day + Day /\ n * Hour \in Nat
  BY <1>1, <1>2
<1>4. (n + 1) * Day \in Nat /\ n * Day <= (n + 1) * Day
  BY <1>1, <1>3
<1> QED BY <1>1, <1>2, <1>3, <1>4 DEF n

(* The next print of a chart is taken, and the campaign stands one print further. *)
LEMMA JudgesOne ==
  ASSUME NEW c \in Camps, NEW s \in Seq(Prints), Climbs(s), NEW m \in 1 .. Len(s) - 1,
         NEW i \in Prints, Ms[i] = Stamp(s, m + 1), JudgedTo(c, s, m)
  PROVE ~(Ms[i] > c.oldest) /\ SameRun(c, Take(c, i)) /\ Stands(Take(c, i), s, m + 1)
<1> DEFINE d == Take(c, i)
           base == Base(c, s)
           t == TradedTo(s, base)
           gap == m \in Opens(s)
<1>1. /\ m \in 1 .. Len(s) /\ m + 1 \in 2 .. Len(s) /\ m + 1 \in 1 .. Len(s) /\ (m + 1) - 1 = m
      /\ s # << >> /\ 1 \in 1 .. Len(s) /\ Len(s) \in 1 .. Len(s)
  OBVIOUS
<1>2. /\ Stamp(s, m) \in Nat \ {0} /\ Stamp(s, m + 1) \in Nat /\ Stamp(s, m + 1) <= Stamp(s, m)
      /\ Stamp(s, 1) \in Nat
  BY <1>1, StampIs
<1>3. c.reach \in Reaches /\ c.closes \in Nat /\ c.traded \in Int /\ c.from \in Int
      /\ c.reach.kind \in {"hours", "sessions"}
  BY ReachFacts DEF Camps
<1>4. base \in Int
  BY <1>2, <1>3 DEF Base
<1>5. /\ ~Met(c) /\ c.open = 0 /\ c.oldest = Stamp(s, m) /\ c.oldest <= base /\ c.traded = t[m]
      /\ c.reach.kind = "sessions" => c.closes = ClosesIn(s, m)
  BY DEF JudgedTo
<1> HIDE DEF base
<1>6. /\ t[m] \in Int /\ t[m + 1] \in Int /\ t[m + 1] <= t[Len(s)] /\ t[Len(s)] \in Int
      /\ t[m + 1] = IF Stamp(s, m + 1) >= base THEN 0 ELSE t[m] + StepTo(s, m + 1)
      /\ m > 1 => t[m] = IF Stamp(s, m) >= base THEN 0 ELSE t[m - 1] + StepTo(s, m)
      /\ t[1] = 0
  <2>1. m > 1 => m \in 2 .. Len(s)
    BY <1>1
  <2> QED BY <1>1, <1>4, <2>1, TradedIs, TradedRises
<1> HIDE DEF t
<1>7. gap <=> Stamp(s, m) - Stamp(s, m + 1) > SessionGap
  BY DEF Opens
<1>8. SessionGap \in Nat
  BY <1>3, Measures
<1>9. StepTo(s, m + 1) = IF gap THEN 0 ELSE Stamp(s, m) - Stamp(s, m + 1)
  BY <1>1, <1>7 DEF StepTo
<1>10. t[m + 1] = t[m] + (IF gap THEN 0 ELSE Stamp(s, m) - Stamp(s, m + 1))
  <2>1. CASE Stamp(s, m + 1) >= base
    <3>1. Stamp(s, m) = Stamp(s, m + 1) /\ Stamp(s, m) >= base
      BY <1>2, <1>4, <1>5, <2>1
    <3>2. t[m] = 0
      <4>1. m = 1 \/ m > 1
        BY <1>1
      <4> QED BY <1>6, <3>1, <4>1
    <3>3. ~gap
      BY <1>2, <1>7, <1>8, <3>1
    <3> HIDE DEF gap
    <3> QED BY <1>2, <1>6, <2>1, <3>1, <3>2, <3>3
  <2>2. CASE ~(Stamp(s, m + 1) >= base)
    BY <1>6, <1>9, <2>2
  <2> QED BY <2>1, <2>2
<1> DEFINE step == c.oldest - Ms[i]
           opened == gap /\ c.reach.kind = "sessions" /\ c.closes + 1 = ClosesFor(c.reach)
           cl == IF gap THEN c.closes + 1 ELSE c.closes
           tr == IF gap THEN c.traded ELSE c.traded + step
           op == IF opened THEN c.oldest ELSE c.open
           ol == Ms[i]
<1>11. step > SessionGap <=> gap
  BY <1>5, <1>7
<1>12. d = [c EXCEPT !.closes = cl, !.traded = tr, !.open = op, !.oldest = ol]
  <2> HIDE DEF gap
  <2> QED BY <1>11 DEF Take
<1>13. tr = t[m + 1]
  <2> HIDE DEF gap
  <2> QED BY <1>5, <1>6, <1>10, <1>2
<1>14. c.reach.kind = "sessions" => cl = ClosesIn(s, m + 1)
  <2> HIDE DEF gap
  <2>1. ClosesIn(s, m) \in Nat /\ ClosesIn(s, m + 1) = ClosesIn(s, m) + (IF gap THEN 1 ELSE 0)
    <3>1. ClosesIn(s, m + 1) = ClosesIn(s, m) + (IF m \in Opens(s) THEN 1 ELSE 0)
      BY <1>1, ClosesStep
    <3> QED BY <1>1, <3>1, ClosesStep DEF gap
  <2> QED BY <1>3, <1>5, <2>1
<1>15. op = IF opened THEN Stamp(s, m) ELSE 0
  BY <1>5
<1>16. opened => m \in Opens(s) /\ c.reach.kind = "sessions" /\ ClosesIn(s, m) = c.reach.n
  <2>1. opened => c.closes + 1 = c.reach.n + 1 /\ c.closes = ClosesIn(s, m)
    BY <1>5 DEF ClosesFor
  <2>2. c.reach.n \in Nat
    BY <1>3, Measures
  <2>3. opened => m \in Opens(s) /\ c.reach.kind = "sessions"
    OBVIOUS
  <2> HIDE DEF opened
  <2> QED BY <1>3, <2>1, <2>2, <2>3
<1>17. ol = Stamp(s, m + 1) /\ ol <= base /\ ~(ol > c.oldest)
  BY <1>2, <1>4, <1>5
<1> HIDE DEF gap, opened, cl, tr, op, ol, step
<1>18. /\ d.closes = cl /\ d.traded = tr /\ d.open = op /\ d.oldest = ol
       /\ d.reach = c.reach /\ d.from = c.from /\ d.blind = c.blind
  <2> HIDE DEF d
  <2> QED BY <1>12 DEF Camps
<1> HIDE DEF d
<1>19. SameRun(c, d)
  BY <1>18 DEF SameRun
<1>20. Base(d, s) = base
  BY <1>18 DEF Base, base
<1>21. Met(d) => Charted(d, s)
  <2> SUFFICES ASSUME Met(d) PROVE Charted(d, s)
    OBVIOUS
  <2>1. CASE c.reach.kind = "hours"
    <3>1. d.traded >= d.reach.n * Hour /\ d.reach.kind = "hours"
      BY <1>18, <2>1 DEF Met
    <3>2. base = d.from /\ d.reach.n * Hour \in Nat
      BY <1>3, <1>18, <2>1, Measures DEF base, Base
    <3>3. t[Len(s)] >= d.reach.n * Hour
      BY <1>6, <1>13, <1>18, <3>1, <3>2
    <3> QED BY <3>1, <3>2, <3>3 DEF Charted, t
  <2>2. CASE c.reach.kind # "hours"
    <3>1. base = Stamp(s, 1) /\ d.reach.kind # "hours"
      BY <1>18, <2>2 DEF base, Base
    <3>2. /\ d.reach.n * Day \in Nat /\ (d.reach.n + 1) * Day \in Nat
          /\ d.reach.n * Day <= (d.reach.n + 1) * Day
      BY <1>3, <1>18, Measures
    <3>3. d.open # 0 \/ d.traded >= d.reach.n * Day \/ d.traded >= (d.reach.n + 1) * Day
      BY <3>1 DEF Met
    <3>4. CASE d.open # 0
      <4>1. opened
        BY <1>15, <1>18, <3>4
      <4>2. m \in Opens(s) /\ ClosesIn(s, m) = d.reach.n /\ d.open = Stamp(s, m)
        BY <1>15, <1>16, <1>18, <4>1
      <4> QED BY <3>1, <4>2 DEF Charted
    <3>5. CASE d.traded >= d.reach.n * Day \/ d.traded >= (d.reach.n + 1) * Day
      <4>1. d.traded = t[m + 1]
        BY <1>13, <1>18
      <4>2. t[Len(s)] >= d.reach.n * Day
        BY <1>6, <3>2, <3>5, <4>1
      <4> QED BY <3>1, <4>2 DEF Charted, t
    <3> QED BY <3>3, <3>4, <3>5
  <2> QED BY <2>1, <2>2
<1>22. ~Met(d) => JudgedTo(d, s, m + 1)
  <2> SUFFICES ASSUME ~Met(d) PROVE JudgedTo(d, s, m + 1)
    OBVIOUS
  <2>1. d.open = 0
    <3>1. ~opened
      <4>1. opened => d.open # 0 /\ d.reach.kind = "sessions"
        BY <1>2, <1>15, <1>16, <1>18
      <4> QED BY <4>1 DEF Met
    <3> QED BY <1>15, <1>18, <3>1
  <2> QED BY <1>13, <1>14, <1>17, <1>18, <1>20, <2>1 DEF JudgedTo, t
<1>23. ~(Ms[i] > c.oldest)
  BY <1>17 DEF ol
<1> QED BY <1>19, <1>21, <1>22, <1>23 DEF Stands, d

(* A chart is judged from a campaign's place down to its oldest print. *)
LEMMA JudgesAll ==
  ASSUME NEW c \in Camps, NEW s \in Seq(Prints), Climbs(s), NEW prints \in Seq(Prints),
         Len(prints) < Len(s), \A k \in 1 .. Len(prints) : s[k] = prints[k],
         JudgedTo(c, s, Len(s) - Len(prints))
  PROVE SameRun(c, TakeBack(c, prints)) /\ Stands(TakeBack(c, prints), s, Len(s))
<1> DEFINE L == Len(prints)
           n == Len(s)
           r == TakeBack(c, prints)
           P(k, a) == a \in Camps /\ SameRun(c, a) /\ Stands(a, s, n + 1 - k)
<1>1. L \in Nat /\ n \in Nat /\ L < n /\ \A k \in 1 .. L : prints[k] \in Prints
  OBVIOUS
<1>2. PICK after :
        /\ after[L + 1] = c /\ r = after[1]
        /\ \A k \in 1 .. L : after[k] = Judge(after[k + 1], prints[k])
  BY TakeBackRuns
<1> HIDE DEF r
<1>3. P(L + 1, c)
  <2>1. SameRun(c, c)
    BY DEF SameRun
  <2>2. n + 1 - (L + 1) = n - L
    BY <1>1
  <2>3. Stands(c, s, n - L)
    BY DEF Stands, JudgedTo
  <2> QED BY <2>1, <2>2, <2>3
<1>4. ASSUME NEW k \in 1 .. L, NEW a, P(k + 1, a) PROVE P(k, Judge(a, prints[k]))
  <2> DEFINE m == n - k
             i == prints[k]
  <2>1. /\ n + 1 - (k + 1) = m /\ n + 1 - k = m + 1 /\ m \in 1 .. n - 1 /\ i \in Prints
        /\ n + 1 - (m + 1) = k /\ s[k] = i
    BY <1>1
  <2>2. Ms[i] = Stamp(s, m + 1)
    BY <2>1 DEF Stamp
  <2>3. a \in Camps /\ SameRun(c, a) /\ Stands(a, s, m)
    BY <1>4, <2>1
  <2> HIDE DEF m, i
  <2>4. CASE Met(a)
    <3>1. Judge(a, i) = a
      BY <2>4 DEF Judge
    <3>2. Stands(a, s, m + 1)
      BY <2>3, <2>4 DEF Stands
    <3> QED BY <2>1, <2>3, <3>1, <3>2 DEF i
  <2>5. CASE ~Met(a)
    <3>1. JudgedTo(a, s, m)
      BY <2>3, <2>5 DEF Stands
    <3>2. ~(Ms[i] > a.oldest) /\ SameRun(a, Take(a, i)) /\ Stands(Take(a, i), s, m + 1)
      <4> HIDE DEF P
      <4> QED BY <2>1, <2>2, <2>3, <3>1, JudgesOne
    <3>3. Judge(a, i) = Take(a, i)
      BY <2>5, <3>2 DEF Judge
    <3>4. Take(a, i) \in Camps
      BY <2>1, <2>3, <3>2, TakeKeeps
    <3>5. SameRun(c, Take(a, i))
      BY <2>3, <3>2 DEF SameRun
    <3> QED BY <2>1, <3>2, <3>3, <3>4, <3>5 DEF i
  <2> QED BY <2>4, <2>5
<1> HIDE DEF P
<1>5. \A k \in 1 .. L + 1 : P(k, after[k])
  <2> DEFINE S == {1}
             g == [k \in 1 .. L + 1 |-> IF P(k, after[k]) THEN 1 ELSE 0]
  <2>1. g[L + 1] \in S
    BY <1>1, <1>2, <1>3
  <2>2. ASSUME NEW k \in 1 .. L, g[k + 1] \in S PROVE g[k] \in S
    <3>1. k + 1 \in 1 .. L + 1 /\ k \in 1 .. L + 1
      BY <1>1
    <3>2. P(k + 1, after[k + 1])
      BY <2>2, <3>1
    <3>3. P(k, after[k])
      BY <1>2, <1>4, <3>2
    <3> QED BY <3>1, <3>3
  <2>3. \A k \in 1 .. L + 1 : g[k] \in S
    <3> HIDE DEF S, g, L
    <3> QED BY <1>1, <2>1, <2>2, Backwards
  <2> QED BY <2>3
<1>6. P(1, after[1])
  <2>1. 1 \in 1 .. L + 1
    BY <1>1
  <2> QED BY <1>5, <2>1
<1>7. SameRun(c, r) /\ Stands(r, s, n + 1 - 1)
  BY <1>2, <1>6 DEF P
<1>8. n + 1 - 1 = n
  BY <1>1
<1> QED BY <1>7, <1>8 DEF r

(* What a campaign has measured, whatever it has asked for or seen last. *)
SameCount(d, e) ==
  /\ e.reach = d.reach /\ e.from = d.from
  /\ e.closes = d.closes /\ e.traded = d.traded /\ e.open = d.open

(* Campaigns that measured alike are judged alike. *)
LEMMA CountsAlike ==
  ASSUME NEW d, NEW e, SameCount(d, e), NEW s
  PROVE /\ Met(e) <=> Met(d)
        /\ Charted(d, s) => Charted(e, s)
        /\ \A m : JudgedTo(d, s, m) /\ e.oldest = d.oldest => JudgedTo(e, s, m)
<1>1. Met(e) <=> Met(d)
  BY DEF SameCount, Met
<1>2. Charted(d, s) => Charted(e, s)
  BY DEF SameCount, Charted
<1>3. Base(e, s) = Base(d, s)
  BY DEF SameCount, Base
<1> QED BY <1>1, <1>2, <1>3 DEF SameCount, JudgedTo

(* Where a campaign stood stays so when a page goes before the chart. *)
LEMMA JudgedStays ==
  ASSUME NEW c \in Camps, NEW p \in Seq(Prints), NEW u \in Seq(Prints), u # << >>,
         Climbs(u), Climbs(p \o u), NEW m \in 1 .. Len(u), JudgedTo(c, u, m)
  PROVE JudgedTo(c, p \o u, m)
<1> DEFINE s == p \o u
<1>1. 1 \in 1 .. Len(u) /\ m \in 1 .. Len(u)
  OBVIOUS
<1>2. Stamp(s, 1) = Stamp(u, 1) /\ Stamp(s, m) = Stamp(u, m) /\ Stamp(u, 1) \in Int
  BY <1>1, StampStays, StampIs
<1>3. Base(c, s) = Base(c, u) /\ Base(c, u) \in Int
  BY <1>2 DEF Base, Camps
<1>4. TradedTo(s, Base(c, u))[m] = TradedTo(u, Base(c, u))[m]
  BY <1>3, TradedStays
<1>5. ClosesIn(s, m) = ClosesIn(u, m)
  BY ClosesStay
<1> HIDE DEF s
<1>6. JudgedTo(c, s, m)
  BY <1>2, <1>3, <1>4, <1>5 DEF JudgedTo
<1> QED BY <1>6 DEF s

(* What was charted stays charted. *)
LEMMA ChartedStays ==
  ASSUME NEW o, o.reach \in Reaches, o.from \in Int, NEW p \in Seq(Prints),
         NEW u \in Seq(Prints), u # << >>, Climbs(u), Climbs(p \o u), Charted(o, u)
  PROVE Charted(o, p \o u)
<1> DEFINE s == p \o u
           n == Len(u)
<1>1. n \in 1 .. Len(u) /\ 1 \in 1 .. Len(u) /\ s \in Seq(Prints)
  OBVIOUS
<1>2. n \in 1 .. Len(s) /\ s # << >>
  <2>1. n \in 1 .. Len(s)
    BY <1>1, StampStays
  <2> QED BY <1>1, <2>1
<1>3. ASSUME NEW from \in Int PROVE TradedTo(u, from)[n] <= TradedTo(s, from)[Len(s)]
  <2>1. TradedTo(s, from)[n] = TradedTo(u, from)[n]
    BY <1>1, TradedStays
  <2>2. TradedTo(s, from)[n] <= TradedTo(s, from)[Len(s)]
    <3> HIDE DEF s, n
    <3> QED BY <1>1, <1>2, TradedRises DEF s
  <2> QED BY <2>1, <2>2
<1>4. Stamp(s, 1) = Stamp(u, 1) /\ Stamp(u, 1) \in Int
  BY <1>1, StampStays, StampIs
<1>5. ASSUME NEW from \in Int
      PROVE TradedTo(u, from)[n] \in Int /\ TradedTo(s, from)[Len(s)] \in Int
  <2>1. Len(s) \in 1 .. Len(s)
    BY <1>1, <1>2
  <2>2. TradedTo(u, from)[n] \in Int
    BY <1>1, TradedIs
  <2> HIDE DEF s
  <2> QED BY <1>1, <1>2, <2>1, <2>2, TradedIs DEF s
<1>6. o.reach.n * Hour \in Int /\ o.reach.n * Day \in Int
  BY Measures
<1>7. ASSUME NEW j \in Opens(u)
      PROVE j \in Opens(s) /\ ClosesIn(s, j) = ClosesIn(u, j) /\ Stamp(s, j) = Stamp(u, j)
  <2>1. j \in 1 .. Len(u)
    BY <1>1, <1>7 DEF Opens
  <2> QED BY <1>7, <2>1, ClosesStay, StampStays
<1>8. CASE o.reach.kind = "hours"
  <2>1. TradedTo(u, o.from)[n] >= o.reach.n * Hour
    BY <1>8 DEF Charted
  <2>2. TradedTo(s, o.from)[Len(s)] >= o.reach.n * Hour
    <3> DEFINE x == TradedTo(u, o.from)[n]
               y == TradedTo(s, o.from)[Len(s)]
    <3>1. x \in Int /\ y \in Int /\ x <= y
      BY <1>3, <1>5
    <3> HIDE DEF x, y
    <3>2. x >= o.reach.n * Hour => y >= o.reach.n * Hour
      BY <1>6, <3>1
    <3> QED BY <2>1, <3>2 DEF x, y
  <2> QED BY <1>8, <2>2 DEF Charted
<1>9. CASE o.reach.kind # "hours"
  <2>1. CASE TradedTo(u, Stamp(u, 1))[n] >= o.reach.n * Day
    <3> DEFINE x == TradedTo(u, Stamp(u, 1))[n]
               y == TradedTo(s, Stamp(u, 1))[Len(s)]
    <3>1. x \in Int /\ y \in Int /\ x <= y
      BY <1>3, <1>4, <1>5
    <3> HIDE DEF x, y
    <3>2. x >= o.reach.n * Day => y >= o.reach.n * Day
      BY <1>6, <3>1
    <3>3. TradedTo(s, Stamp(s, 1))[Len(s)] >= o.reach.n * Day
      BY <1>4, <2>1, <3>2 DEF x, y
    <3> QED BY <1>9, <3>3 DEF Charted
  <2>2. CASE \E j \in Opens(u) : ClosesIn(u, j) = o.reach.n /\ o.open = Stamp(u, j)
    <3>1. \E j \in Opens(s) : ClosesIn(s, j) = o.reach.n /\ o.open = Stamp(s, j)
      BY <1>7, <2>2
    <3> QED BY <1>9, <3>1 DEF Charted
  <2> QED BY <1>9, <2>1, <2>2 DEF Charted
<1> QED BY <1>8, <1>9

(* All but the newest print of a chart. *)
LEMMA RestIs ==
  ASSUME NEW s \in Seq(Prints), s # << >>
  PROVE  LET p == SubSeq(s, 1, Len(s) - 1) IN
         /\ p \in Seq(Prints) /\ Len(p) = Len(s) - 1 /\ Len(p) < Len(s)
         /\ Len(s) - Len(p) = 1 /\ \A k \in 1 .. Len(p) : s[k] = p[k]
<1> DEFINE L == Len(s) - 1
           p == SubSeq(s, 1, L)
<1>1. L \in Nat /\ Len(s) = L + 1 /\ \A k \in 1 .. L : s[k] \in Prints
  OBVIOUS
<1> HIDE DEF L
<1>2. p \in Seq(Prints) /\ Len(p) = L /\ \A k \in 1 .. L : p[k] = s[k]
  BY <1>1
<1> HIDE DEF p
<1>3. /\ p \in Seq(Prints) /\ Len(p) = Len(s) - 1 /\ Len(p) < Len(s)
      /\ Len(s) - Len(p) = 1 /\ \A k \in 1 .. Len(p) : s[k] = p[k]
  BY <1>1, <1>2
<1> QED BY <1>3 DEF p, L

(* A run that starts has judged the whole chart, or found its target there. *)
LEMMA StartedStands ==
  ASSUME chart \in Seq(Prints), chart # << >>, Climbs(chart), NEW reach \in Reaches,
         NEW id \in Nat \ {0}
  PROVE /\ Stands(Started(reach, id), chart, Len(chart))
        /\ Started(reach, id).reach = reach /\ ~Started(reach, id).blind
<1> DEFINE n == Len(chart)
           new == [reach |-> reach, id |-> id, oldest |-> Ms[chart[Len(chart)]], closes |-> 0,
                   traded |-> 0, open |-> 0, held |-> Len(chart), from |-> Ms[chart[1]],
                   pulled |-> 0, pages |-> 0, idle |-> 0, asked |-> 0, blind |-> FALSE]
           rest == SubSeq(chart, 1, Len(chart) - 1)
           over == IF reach.kind = "hours" THEN new ELSE TakeBack(new, rest)
           c == [over EXCEPT !.oldest = Ms[chart[1]]]
<1>1. /\ n \in Nat /\ n >= 1 /\ chart[1] \in Prints /\ chart[n] \in Prints
      /\ 1 \in 1 .. n /\ n \in 1 .. n
  OBVIOUS
<1>2. /\ Stamp(chart, 1) = Ms[chart[n]] /\ Stamp(chart, n) = Ms[chart[1]]
      /\ Ms[chart[1]] \in Int /\ Ms[chart[n]] \in Int
  <2>1. n + 1 - 1 = n /\ n + 1 - n = 1
    BY <1>1
  <2> QED BY <1>1, <2>1, Stamps DEF Stamp
<1>3. Started(reach, id) = c
  BY DEF Started
<1>4. new \in Camps
  BY <1>1, <1>2 DEF Camps
<1>5. /\ new.reach = reach /\ new.oldest = Ms[chart[n]] /\ new.closes = 0 /\ new.traded = 0
      /\ new.open = 0 /\ new.from = Ms[chart[1]] /\ new.blind = FALSE
  OBVIOUS
<1>6. reach.kind \in {"hours", "sessions"} /\ reach.n * Hour \in Nat /\ reach.n * Day \in Nat
  BY ReachFacts, Measures
<1> HIDE DEF new
<1>7. CASE reach.kind = "hours"
  <2>1. c = [new EXCEPT !.oldest = Ms[chart[1]]]
    BY <1>7
  <2> HIDE DEF c
  <2>2. /\ c.reach = reach /\ c.oldest = Ms[chart[1]] /\ c.closes = 0 /\ c.traded = 0
        /\ c.open = 0 /\ c.from = Ms[chart[1]] /\ c.blind = FALSE
    BY <1>4, <1>5, <2>1 DEF Camps
  <2>3. Base(c, chart) = Ms[chart[1]]
    BY <1>7, <2>2 DEF Base
  <2>4. TradedTo(chart, Ms[chart[1]])[n] = 0
    <3>1. n = 1 \/ n \in 2 .. n
      <4> HIDE DEF n
      <4> QED BY <1>1
    <3>2. Stamp(chart, n) >= Ms[chart[1]]
      BY <1>2
    <3> QED BY <1>2, <3>1, <3>2, TradedIs
  <2>5. Met(c) => Charted(c, chart)
    BY <1>7, <2>2, <2>4 DEF Met, Charted
  <2>6. ~Met(c) => JudgedTo(c, chart, n)
    BY <1>2, <1>7, <2>2, <2>3, <2>4 DEF JudgedTo
  <2> QED BY <1>3, <2>2, <2>5, <2>6 DEF Stands
<1>8. CASE reach.kind = "sessions"
  <2>1. over = TakeBack(new, rest)
    BY <1>8
  <2>2. ~Met(new)
    <3>1. reach.n \in Nat \ {0} /\ Day \in Nat \ {0}
      <4>1. reach \in [kind : {"hours", "sessions"}, n : Nat \ {0}]
        BY RunAssumption
      <4> QED BY <4>1, RunAssumption
    <3> DEFINE k == reach.n
    <3>2. k \in Nat \ {0}
      BY <3>1
    <3> HIDE DEF k
    <3>3. k * Day > 0 /\ (k + 1) * Day > 0
      BY <3>1, <3>2
    <3>4. ~(0 >= reach.n * Day) /\ ~(0 >= (reach.n + 1) * Day)
      <4>1. ~(0 >= k * Day) /\ ~(0 >= (k + 1) * Day)
        BY <3>1, <3>2, <3>3
      <4> QED BY <4>1 DEF k
    <3> QED BY <1>5, <1>8, <3>4 DEF Met
  <2>3. Base(new, chart) = Ms[chart[n]]
    BY <1>2, <1>5, <1>8 DEF Base
  <2>4. TradedTo(chart, Ms[chart[n]])[1] = 0 /\ ClosesIn(chart, 1) = 0
    BY <1>1, <1>2, TradedIs, ClosesStep
  <2>5. JudgedTo(new, chart, 1)
    BY <1>2, <1>5, <1>8, <2>2, <2>3, <2>4 DEF JudgedTo
  <2>6. /\ rest \in Seq(Prints) /\ Len(rest) = n - 1 /\ Len(rest) < n /\ n - Len(rest) = 1
        /\ \A k \in 1 .. Len(rest) : chart[k] = rest[k]
    BY <1>1, RestIs
  <2> HIDE DEF rest
  <2>7. SameRun(new, over) /\ Stands(over, chart, n)
    BY <1>4, <2>1, <2>5, <2>6, JudgesAll
  <2>8. over \in Camps
    BY <1>4, <2>1, <2>6, TakeBackKeeps
  <2> HIDE DEF over
  <2>9. c.oldest = Ms[chart[1]] /\ SameCount(over, c) /\ c.blind = over.blind
    BY <2>8 DEF Camps, SameCount
  <2> HIDE DEF c
  <2>10. Met(c) => Charted(c, chart)
    BY <2>7, <2>9, CountsAlike DEF Stands
  <2>11. ~Met(c) => JudgedTo(c, chart, n)
    <3>1. ~Met(c) => JudgedTo(over, chart, n)
      BY <2>7, <2>9, CountsAlike DEF Stands
    <3>2. JudgedTo(over, chart, n) => c.oldest = over.oldest
      BY <1>2, <2>9 DEF JudgedTo
    <3> QED BY <2>9, <3>1, <3>2, CountsAlike
  <2>12. c.reach = reach /\ ~c.blind
    BY <1>5, <2>7, <2>9 DEF SameRun, SameCount
  <2> QED BY <1>3, <2>10, <2>11, <2>12 DEF Stands
<1> QED BY <1>6, <1>7, <1>8

(* A page moves a run down the chart, to its oldest print or to its target. *)
LEMMA AdvancedStands ==
  ASSUME NEW c \in Camps, NEW page \in Seq(Prints), NEW u \in Seq(Prints), u # << >>,
         Climbs(u), Climbs(page \o u), JudgedTo(c, u, Len(u))
  PROVE /\ Stands(Advanced(c, page), page \o u, Len(page \o u))
        /\ SameRun(c, Advanced(c, page))
<1> DEFINE s == page \o u
           d == [c EXCEPT !.pulled = @ + Len(page)]
           taken == TakeBack(d, page)
           oldest == IF page = << >> THEN taken.oldest ELSE Lesser(taken.oldest, Ms[page[1]])
           idle == IF oldest < c.oldest THEN 0 ELSE c.idle + 1
           r == [taken EXCEPT !.oldest = oldest, !.idle = idle]
<1>1. /\ s \in Seq(Prints) /\ Len(s) = Len(page) + Len(u) /\ Len(page) \in Nat /\ Len(u) \in Nat
      /\ Len(u) >= 1 /\ \A k \in 1 .. Len(page) : s[k] = page[k]
  BY Joined
<1>2. Advanced(c, page) = r
  BY DEF Advanced
<1>3. d \in Camps /\ SameCount(c, d) /\ SameRun(c, d) /\ d.oldest = c.oldest
  <2> DEFINE more == c.pulled + Len(page)
  <2>1. more \in Nat
    BY DEF Camps
  <2>2. d = [c EXCEPT !.pulled = more]
    OBVIOUS
  <2> HIDE DEF more
  <2> QED BY <2>1, <2>2 DEF Camps, SameCount, SameRun
<1> HIDE DEF d
<1>4. JudgedTo(d, s, Len(u))
  <2>1. Len(u) \in 1 .. Len(u)
    BY <1>1
  <2>2. JudgedTo(c, s, Len(u))
    BY <2>1, JudgedStays
  <2> HIDE DEF s
  <2> QED BY <1>3, <2>2, CountsAlike
<1>5. SameRun(d, taken) /\ Stands(taken, s, Len(s))
  <2>1. Len(page) < Len(s) /\ Len(s) - Len(page) = Len(u)
    BY <1>1
  <2>2. Climbs(s)
    OBVIOUS
  <2> HIDE DEF s
  <2> QED BY <1>1, <1>3, <1>4, <2>1, <2>2, JudgesAll
<1>6. taken \in Camps
  BY <1>3, TakeBackKeeps
<1> HIDE DEF taken
<1>7. ~Met(taken) => oldest = taken.oldest
  <2> SUFFICES ASSUME ~Met(taken), page # << >>
               PROVE Lesser(taken.oldest, Ms[page[1]]) = taken.oldest
    OBVIOUS
  <2>1. taken.oldest = Stamp(s, Len(s))
    BY <1>5 DEF Stands, JudgedTo
  <2>2. Len(s) + 1 - Len(s) = 1 /\ 1 \in 1 .. Len(page)
    BY <1>1
  <2>3. Stamp(s, Len(s)) = Ms[page[1]]
    <3> HIDE DEF s
    <3> QED BY <1>1, <2>2 DEF Stamp
  <2> QED BY <2>1, <2>3 DEF Lesser
<1> HIDE DEF oldest, idle, s
<1>8. r.oldest = oldest /\ SameCount(taken, r) /\ r.blind = taken.blind
  BY <1>6 DEF Camps, SameCount
<1> HIDE DEF r
<1>9. SameRun(c, r)
  BY <1>3, <1>5, <1>8 DEF SameRun, SameCount
<1>10. Met(r) => Charted(r, s)
  BY <1>5, <1>8, CountsAlike DEF Stands
<1>11. ~Met(r) => JudgedTo(r, s, Len(s))
  <2>1. ~Met(r) => ~Met(taken)
    BY <1>8, CountsAlike
  <2> QED BY <1>5, <1>7, <1>8, <2>1, CountsAlike DEF Stands
<1> QED BY <1>2, <1>9, <1>10, <1>11 DEF Stands, s

(* A page does not change whether slices landed behind the run. *)
LEMMA AdvancedKeepsBlind ==
  ASSUME NEW c \in Camps, NEW page \in Seq(Prints)
  PROVE Advanced(c, page).blind = c.blind
<1> DEFINE d == [c EXCEPT !.pulled = @ + Len(page)]
           taken == TakeBack(d, page)
           oldest == IF page = << >> THEN taken.oldest ELSE Lesser(taken.oldest, Ms[page[1]])
           idle == IF oldest < c.oldest THEN 0 ELSE c.idle + 1
           r == [taken EXCEPT !.oldest = oldest, !.idle = idle]
<1>1. d \in Camps /\ d.blind = c.blind
  <2> DEFINE more == c.pulled + Len(page)
  <2>1. more \in Nat
    BY DEF Camps
  <2>2. d = [c EXCEPT !.pulled = more]
    OBVIOUS
  <2> HIDE DEF more
  <2> QED BY <2>1, <2>2 DEF Camps
<1> HIDE DEF d
<1>2. taken \in Camps /\ taken.blind = d.blind
  BY <1>1, TakeBackKeeps
<1>3. Advanced(c, page) = r
  BY DEF Advanced, d
<1> HIDE DEF taken, oldest, idle
<1>4. r.blind = taken.blind
  BY <1>2 DEF Camps
<1> QED BY <1>1, <1>2, <1>3, <1>4
-----------------------------------------------------------------------------
(* What a run reports when it is over. *)
LEMMA OverIs ==
  ASSUME NEW c \in Camps, NEW end, NEW s, s # << >>,
         end \in {"met", "already"} /\ ~c.blind => Charted(c, s)
  PROVE Reported(Over(c, end), s)
<1> DEFINE o == Over(c, end)
<1>1. /\ o.end = end /\ o.reach = c.reach /\ o.from = c.from /\ o.open = c.open
      /\ o.blind = c.blind
  BY DEF Over
<1> HIDE DEF o
<1>2. c.reach \in Reaches /\ c.from \in Int
  BY DEF Camps
<1>3. Charted(c, s) => Charted(o, s)
  BY <1>1 DEF Charted
<1>4. Reported(o, s)
  BY <1>1, <1>2, <1>3 DEF Reported
<1> QED BY <1>4 DEF o

(* A run that sends its request, or cannot, moves nothing. *)
LEMMA SendReach ==
  ASSUME NEW r \in Runs, NEW c \in Camps, NEW w, Send(r, c, w), NEW s, s # << >>,
         ~c.blind => JudgedTo(c, s, Len(s)), Reported(outcome, s)
  PROVE Paging(run', s) /\ Reported(outcome', s)
<1> DEFINE count == Request(c)
           sent == [c EXCEPT !.pages = @ + 1, !.asked = count]
<1>1. count \in Nat \ {0}
  BY RequestIsSome
<1> HIDE DEF count
<1>2. sent \in Camps /\ SameCount(c, sent) /\ sent.oldest = c.oldest /\ sent.blind = c.blind
  <2> DEFINE pages == c.pages + 1
  <2>1. pages \in Nat
    BY DEF Camps
  <2>2. sent = [c EXCEPT !.pages = pages, !.asked = count]
    OBVIOUS
  <2> HIDE DEF pages
  <2> QED BY <1>1, <2>1, <2>2 DEF Camps, SameCount
<1>3. \/ run' = [r EXCEPT !.camp = sent, !.out = TRUE] /\ UNCHANGED outcome
      \/ run' = Unsent(r) /\ outcome' = Over(sent, "refused")
  BY DEF Send, count
<1> HIDE DEF sent
<1>4. CASE run' = [r EXCEPT !.camp = sent, !.out = TRUE] /\ UNCHANGED outcome
  <2>1. run'.camp = sent
    BY <1>4 DEF Runs
  <2>2. ~sent.blind => JudgedTo(sent, s, Len(s))
    BY <1>2, CountsAlike
  <2> QED BY <1>4, <2>1, <2>2 DEF Paging
<1>5. CASE run' = Unsent(r) /\ outcome' = Over(sent, "refused")
  <2>1. run'.camp = NoCampaign
    BY <1>5 DEF Runs, Unsent
  <2>2. Reported(outcome', s)
    <3>1. Reported(Over(sent, "refused"), s)
      BY <1>2, OverIs
    <3> QED BY <1>5, <3>1
  <2> QED BY <2>1, <2>2 DEF Paging
<1> QED BY <1>3, <1>4, <1>5

(* A press that begins pages from the chart's oldest print, or was right. *)
LEMMA BeginReach ==
  ASSUME run \in Runs, run.camp = NoCampaign, chart \in Seq(Prints), Climbs(chart),
         NEW reach \in Reaches, NEW id \in Nat \ {0}, Begin(reach, id),
         Reported(outcome, chart)
  PROVE Paging(run', chart) /\ Reported(outcome', chart)
<1> DEFINE c == Started(reach, id)
           b == Fresh
           w == tab.wait
<1>1. b \in Runs /\ b.camp = NoCampaign
  BY FreshIs
<1>2. chart # << >> => c \in Camps /\ Stands(c, chart, Len(chart))
  BY StartedIs, StartedStands
<1>3. \/ run' = b /\ outcome' = [end |-> "empty"]
      \/ chart # << >> /\ Met(c) /\ run' = b /\ outcome' = Over(c, "already")
      \/ chart # << >> /\ run' = b /\ outcome' = Over(c, "full")
      \/ chart # << >> /\ ~Met(c) /\ Send(b, c, w)
  BY DEF Begin, Fresh
<1> HIDE DEF b, c, w
<1>4. CASE run' = b /\ outcome' = [end |-> "empty"]
  BY <1>1, <1>4 DEF Paging, Reported
<1>5. CASE chart # << >> /\ Met(c) /\ run' = b /\ outcome' = Over(c, "already")
  <2>1. Reported(Over(c, "already"), chart)
    BY <1>2, <1>5, OverIs DEF Stands
  <2> QED BY <1>1, <1>5, <2>1 DEF Paging
<1>6. CASE chart # << >> /\ run' = b /\ outcome' = Over(c, "full")
  <2>1. Reported(Over(c, "full"), chart)
    BY <1>2, <1>6, OverIs
  <2> QED BY <1>1, <1>6, <2>1 DEF Paging
<1>7. CASE chart # << >> /\ ~Met(c) /\ Send(b, c, w)
  <2>1. JudgedTo(c, chart, Len(chart))
    BY <1>2, <1>7 DEF Stands
  <2> QED BY <1>1, <1>2, <1>7, <2>1, SendReach
<1> QED BY <1>3, <1>4, <1>5, <1>6, <1>7

(* What was reported holds of a longer chart. *)
LEMMA ReportedStays ==
  ASSUME NEW o, NEW p \in Seq(Prints), NEW u \in Seq(Prints), Climbs(u), Climbs(p \o u),
         Reported(o, u)
  PROVE Reported(o, p \o u)
<1>1. u # << >> => p \o u # << >>
  <2>1. Len(p \o u) = Len(p) + Len(u) /\ Len(p) \in Nat /\ Len(u) \in Nat
    BY Joined
  <2>2. u # << >> => Len(u) >= 1
    OBVIOUS
  <2>3. p \o u = << >> => Len(p \o u) = 0
    OBVIOUS
  <2> QED BY <2>1, <2>2, <2>3
<1>2. u # << >> /\ o.reach \in Reaches /\ o.from \in Int /\ Charted(o, u) => Charted(o, p \o u)
  BY ChartedStays
<1> QED BY <1>1, <1>2 DEF Reported

(* The event at the head of the inbox goes before the chart in order. *)
LEMMA HeadClimbs ==
  ASSUME Types, TapeOrder, inbox # << >>
  PROVE /\ Head(inbox).prints \in Seq(Prints) /\ chart \in Seq(Prints) /\ Climbs(chart)
        /\ Climbs(Head(inbox).prints \o chart)
<1>1. inbox \in Seq(Events) /\ chart \in Seq(Prints)
  BY DEF Types
<1>2. InOrder(feed.floor, chart, inbox)
  BY OrderIs
<1>3. InOrder(feed.floor, Head(inbox).prints \o chart, Tail(inbox))
  BY <1>1, <1>2, TakenOrder
<1>4. Head(inbox) \in Events
  BY <1>1, HeadAndTail
<1>5. Head(inbox).prints \in Seq(Prints)
  BY <1>4 DEF Events
<1> QED BY <1>1, <1>2, <1>3, <1>5 DEF InOrder

(* While the chart is in order: its prints climb, a run that pages finds some, and
   what was counted and reported so far is right. *)
Ordered ==
  /\ Types /\ Single /\ TapeOrder /\ Climbs(chart)
  /\ Paging(run, chart) /\ Reported(outcome, chart)

(* A page that is taken while the chart stays in order goes before it. *)
LEMMA TakenFirst ==
  ASSUME Types, NEW page \in Seq(Prints), Retain(page) \/ Draw(page), ~overtaken'
  PROVE chart' = page \o chart
BY TakenIs DEF Taken

(* A reply: the run it belongs to stands further down, or is over and right. *)
LEMMA PrependedReach ==
  ASSUME Ordered, OnPrepended, ~overtaken'
  PROVE Paging(run', chart') /\ Reported(outcome', chart')
<1> DEFINE page == Head(inbox).prints
           wait == IF tab.wait = 0 THEN 0 ELSE tab.wait - 1
           back == [run EXCEPT !.out = FALSE]
           c == Advanced(run.camp, page)
           next == Verdict(c, feed.pages)
           s == page \o chart
<1>1. /\ inbox # << >> /\ (Retain(page) \/ Draw(page))
      /\ \/ ~Running /\ run' = back /\ UNCHANGED outcome
         \/ Running /\ next = "ask" /\ Send(back, c, wait)
         \/ Running /\ next = "ask" /\ run' = [back EXCEPT !.camp = c, !.paused = TRUE]
            /\ UNCHANGED outcome
         \/ Running /\ next # "ask" /\ run' = [back EXCEPT !.camp = NoCampaign]
            /\ outcome' = Over(c, next)
  BY DEF OnPrepended, Next1
<1>2. page \in Seq(Prints) /\ chart \in Seq(Prints) /\ Climbs(chart) /\ Climbs(s)
  BY <1>1, HeadClimbs DEF Ordered
<1>a. chart' = s
  BY <1>1, <1>2, TakenFirst DEF Ordered
<1>3. run \in Runs /\ (Running => run.camp \in Camps /\ chart # << >>)
  BY DEF Ordered, Types, Single, OpensFirst, Running, Runs
<1>4. back \in Runs /\ back.camp = run.camp
  BY <1>3 DEF Runs
<1> HIDE DEF wait, back, page
<1>5. Running => c \in Camps
  BY <1>2, <1>3, AdvancedIs
<1>6. Reported(outcome, s)
  BY <1>2, ReportedStays DEF Ordered
<1>7. Running => c.blind = run.camp.blind
  BY <1>2, <1>3, AdvancedKeepsBlind
<1>8. Running /\ ~c.blind => Stands(c, s, Len(s))
  <2> SUFFICES ASSUME Running, ~c.blind PROVE Stands(c, s, Len(s))
    OBVIOUS
  <2>1. JudgedTo(run.camp, chart, Len(chart))
    BY <1>7 DEF Ordered, Paging, Running
  <2> QED BY <1>2, <1>3, <2>1, AdvancedStands
<1>9. /\ next = "ask" => ~Met(c)
      /\ next = "met" => Met(c)
      /\ next # "already"
  BY DEF Verdict
<1>10. Running => s # << >>
  <2>1. Len(s) = Len(page) + Len(chart) /\ Len(page) \in Nat /\ Len(chart) \in Nat
    BY <1>2, Joined
  <2>2. chart # << >> => Len(chart) >= 1
    BY <1>2
  <2>3. s = << >> => Len(s) = 0
    OBVIOUS
  <2> QED BY <1>3, <2>1, <2>2, <2>3
<1>11. SUFFICES Paging(run', s) /\ Reported(outcome', s)
  BY <1>a
<1> HIDE DEF c, next, s
<1>12. CASE ~Running /\ run' = back /\ UNCHANGED outcome
  <2>1. run'.camp = NoCampaign
    BY <1>4, <1>12 DEF Running
  <2> QED BY <1>6, <1>12, <2>1 DEF Paging
<1>13. CASE Running /\ next = "ask" /\ Send(back, c, wait)
  <2>1. Send(back, c, wait)
    BY <1>13
  <2>2. ~c.blind => JudgedTo(c, s, Len(s))
    BY <1>8, <1>9, <1>13 DEF Stands
  <2> QED BY <1>4, <1>5, <1>6, <1>10, <1>13, <2>1, <2>2, SendReach
<1>14. CASE Running /\ next = "ask" /\ run' = [back EXCEPT !.camp = c, !.paused = TRUE]
            /\ UNCHANGED outcome
  <2>1. run'.camp = c
    BY <1>4, <1>14 DEF Runs
  <2>2. ~c.blind => JudgedTo(c, s, Len(s))
    BY <1>8, <1>9, <1>14 DEF Stands
  <2> QED BY <1>6, <1>14, <2>1, <2>2 DEF Paging
<1>15. CASE Running /\ next # "ask" /\ run' = [back EXCEPT !.camp = NoCampaign]
            /\ outcome' = Over(c, next)
  <2>1. run'.camp = NoCampaign
    BY <1>4, <1>15 DEF Runs
  <2>2. next \in {"met", "already"} /\ ~c.blind => Charted(c, s)
    BY <1>8, <1>9, <1>15 DEF Stands
  <2>3. Reported(Over(c, next), s)
    BY <1>5, <1>10, <1>15, <2>2, OverIs
  <2> QED BY <1>15, <2>1, <2>3 DEF Paging
<1> QED BY <1>1, <1>12, <1>13, <1>14, <1>15

(* A slice goes before the chart, and a run that pages is blind to it. *)
LEMMA OpeningReach ==
  ASSUME Ordered, OnOpening, ~overtaken'
  PROVE Paging(run', chart') /\ Reported(outcome', chart')
<1> DEFINE page == Head(inbox).prints
<1>1. /\ inbox # << >> /\ (Retain(page) \/ Draw(page))
      /\ run' = IF Running THEN [run EXCEPT !.camp.blind = TRUE] ELSE run
      /\ outcome' = outcome
  BY DEF OnOpening, Next1
<1>2. page \in Seq(Prints) /\ chart \in Seq(Prints) /\ Climbs(chart) /\ Climbs(page \o chart)
  BY <1>1, HeadClimbs DEF Ordered
<1>3. chart' = page \o chart
  BY <1>1, <1>2, TakenFirst DEF Ordered
<1> HIDE DEF page
<1>4. Reported(outcome', chart')
  <2>1. Reported(outcome, page \o chart)
    BY <1>2, ReportedStays DEF Ordered
  <2> QED BY <1>1, <1>3, <2>1
<1>5. Paging(run', chart')
  <2>1. run \in Runs
    BY DEF Ordered, Types
  <2>2. CASE Running
    <3> DEFINE c == [run.camp EXCEPT !.blind = TRUE]
    <3>1. run.camp \in Camps
      BY <2>1, <2>2 DEF Runs, Running
    <3>2. c.blind
      BY <3>1 DEF Camps
    <3>3. run' = [run EXCEPT !.camp = c]
      BY <1>1, <2>1, <2>2 DEF Runs
    <3> HIDE DEF c
    <3>4. run'.camp = c
      BY <2>1, <3>3 DEF Runs
    <3> QED BY <3>2, <3>4 DEF Paging
  <2>3. CASE ~Running
    BY <1>1, <2>3 DEF Running, Paging
  <2> QED BY <2>2, <2>3
<1> QED BY <1>4, <1>5

(* Where a run stands, and what one reported, at every step that keeps the order. *)
LEMMA OrderedStep ==
  ASSUME Ordered, [RunNext]_runVars, ~overtaken'
  PROVE Paging(run', chart') /\ Reported(outcome', chart')
<1>1. /\ run \in Runs /\ chart \in Seq(Prints) /\ Climbs(chart) /\ presses \in Nat
      /\ (Running => chart # << >> /\ run.camp \in Camps)
      /\ (~feed.any => chart = << >>)
  BY DEF Ordered, Types, Single, OpensFirst, Running, Runs
<1>2. Paging(run, chart) /\ Reported(outcome, chart)
  BY DEF Ordered
<1>4. ASSUME chart' = chart, outcome' = outcome, run'.camp \in {run.camp, NoCampaign}
      PROVE Paging(run', chart') /\ Reported(outcome', chart')
  BY <1>2, <1>4 DEF Paging
<1>5. CASE UNCHANGED runVars
  BY <1>4, <1>5 DEF runVars
<1>6. CASE Press
  <2>1. presses' \in Nat \ {0} /\ chart' = chart
    BY <1>1, <1>6 DEF Press
  <2>2. PICK reach \in Reaches :
          \/ run' = run /\ outcome' = outcome
          \/ ~Running /\ Begin(reach, presses')
          \/ run' = [run EXCEPT !.queued = reach] /\ outcome' = outcome
    BY <1>6 DEF Press
  <2>3. CASE run' = run /\ outcome' = outcome
    BY <1>4, <2>1, <2>3
  <2>4. CASE ~Running /\ Begin(reach, presses')
    <3> DEFINE id == presses'
    <3>1. id \in Nat \ {0} /\ Begin(reach, id) /\ run.camp = NoCampaign
      BY <2>1, <2>4 DEF Running
    <3> HIDE DEF id
    <3>2. Paging(run', chart) /\ Reported(outcome', chart)
      BY <1>1, <1>2, <3>1, BeginReach
    <3> QED BY <2>1, <3>2
  <2>5. CASE run' = [run EXCEPT !.queued = reach] /\ outcome' = outcome
    <3>1. run'.camp = run.camp
      BY <1>1, <2>5 DEF Runs
    <3> QED BY <1>4, <2>1, <2>5, <3>1
  <2> QED BY <2>2, <2>3, <2>4, <2>5
<1>7. CASE Frame
  <2>1. chart' = chart
    BY <1>7 DEF Frame
  <2>2. CASE PollBegins /\ Begin(run.queued, presses)
    <3> DEFINE reach == run.queued
    <3>1. run.camp = NoCampaign /\ reach \in Reaches /\ presses \in Nat \ {0}
          /\ Begin(reach, presses)
      <4>1. run.queued \in Reaches /\ run.camp = NoCampaign /\ Queued
        BY <1>1, <2>2 DEF PollBegins, Queued, Running, Runs
      <4> QED BY <1>1, <2>2, <4>1 DEF Ordered, Types
    <3> HIDE DEF reach
    <3>2. Paging(run', chart) /\ Reported(outcome', chart)
      BY <1>1, <1>2, <3>1, BeginReach
    <3> QED BY <2>1, <3>2
  <2>3. CASE PollResumes /\ Send([run EXCEPT !.paused = FALSE], run.camp, tab.wait)
    <3> DEFINE r == [run EXCEPT !.paused = FALSE]
               w == tab.wait
    <3>1. r \in Runs /\ Running /\ Send(r, run.camp, w)
      BY <1>1, <2>3 DEF Runs, PollResumes
    <3> HIDE DEF r, w
    <3>2. ~run.camp.blind => JudgedTo(run.camp, chart, Len(chart))
      BY <1>2, <3>1 DEF Paging, Running
    <3>3. Paging(run', chart) /\ Reported(outcome', chart)
      BY <1>1, <1>2, <3>1, <3>2, SendReach
    <3> QED BY <2>1, <3>3
  <2> QED BY <1>7, <2>2, <2>3 DEF Frame
<1>8. CASE Cancel
  <2>1. /\ chart' = chart /\ run' = Cancelled(run)
        /\ outcome' = IF Running THEN Over(run.camp, "cancelled") ELSE outcome
    BY <1>8 DEF Cancel
  <2>2. run'.camp = NoCampaign
    BY <1>1, <2>1 DEF Cancelled, Runs
  <2>3. Running => Reported(Over(run.camp, "cancelled"), chart)
    BY <1>1, OverIs
  <2> QED BY <1>2, <2>1, <2>2, <2>3 DEF Paging
<1>9. CASE Show \/ Hide \/ Rebuild \/ RebuildFails \/ Block \/ Slice \/ Answer \/ Lose
  BY <1>4, <1>9 DEF Show, Hide, Rebuild, RebuildFails, Block, Slice, Answer, Lose
<1>10. CASE Attach
  <2>1. run'.camp = NoCampaign /\ chart' = chart /\ outcome' = outcome
    BY <1>1, <1>10 DEF Attach, Runs
  <2> QED BY <1>4, <2>1
<1>11. CASE LivePrint
  <2>1. chart = << >> /\ run' = run /\ outcome' = outcome
    BY <1>1, <1>11 DEF LivePrint
  <2> QED BY <1>1, <1>2, <2>1 DEF Paging, Reported, Running
<1>12. CASE OnPrepended \/ OnOpening
  BY <1>12, PrependedReach, OpeningReach
<1> QED BY <1>5, <1>6, <1>7, <1>8, <1>9, <1>10, <1>11, <1>12 DEF RunNext, TabStep, FeedStep

(* Where a run stands, and what one reported, at every step. *)
LEMMA ReachStep ==
  ASSUME RunInv, ReachInv, [RunNext]_runVars
  PROVE ReachInv'
<1>1. CASE ~overtaken'
  <2>1. Types
    BY DEF RunInv
  <2>2. ~overtaken
    BY <1>1, <2>1, NotForgotten
  <2>3. Single /\ TapeOrder
    BY <2>1, <2>2 DEF RunInv, Types
  <2>4. Ordered
    BY <2>1, <2>2, <2>3 DEF ReachInv, Ordered, TapeOrder
  <2>5. Paging(run', chart') /\ Reported(outcome', chart')
    BY <1>1, <2>4, OrderedStep
  <2> QED BY <2>5 DEF ReachInv
<1> QED BY <1>1 DEF ReachInv

(* Where a run stands on the chart, for every tape, target and limit, as long as no
   page was drawn behind a retained one and no feed resumed without it: it has judged
   every print of the chart, in order, and what it counted is what the chart shows. *)
THEOREM ReachInvariant == RunSpec => [](RunInv /\ ReachInv)
<1>1. RunInit => RunInv /\ ReachInv
  <2> SUFFICES ASSUME RunInit PROVE RunInv /\ ReachInv
    OBVIOUS
  <2>1. run.camp = NoCampaign /\ outcome.end = "none"
    BY DEF RunInit, NoOutcome
  <2> QED BY <2>1, RunInvInit DEF ReachInv, Paging, Reported
<1>2. RunInv /\ ReachInv /\ [RunNext]_runVars => (RunInv /\ ReachInv)'
  <2> SUFFICES ASSUME RunInv, ReachInv, [RunNext]_runVars PROVE (RunInv /\ ReachInv)'
    OBVIOUS
  <2>1. RunInv'
    BY RunInvStep
  <2>2. ReachInv'
    BY ReachStep
  <2> QED BY <2>1, <2>2
<1> QED BY <1>1, <1>2, PTL DEF RunSpec

(* A run that says its target is on the chart is right, then and later, when no slice
   of the opening session landed while it paged and no retained page was overtaken by
   a later one or forgotten by a new feed (history_reach.rs: Campaign::advance
   over the pages of history_run.rs: on_reply). *)
THEOREM ReachIsOnTheChartHolds == RunSpec => []ReachIsOnTheChart
<1>1. ReachInv => ReachIsOnTheChart
  BY DEF ReachInv, Reported, ReachIsOnTheChart, TargetCharted
<1> QED BY <1>1, ReachInvariant, PTL
=============================================================================
