------------------------ MODULE MetaTraderTapeProofs ------------------------
(* The feed and the tab never disagree about a page that is owed, and the  *)
(* chart holds the tape's prints in order and none twice, for any tape,    *)
(* any bounds and any number of sessions and presses.                      *)
(*                                                                         *)
(* The page that is owed.  The refill forwards prints, marks gaps and      *)
(* takes the pager for itself at a dozen places; the argument is that each *)
(* of them hands the ledger and the chart on with their two answers to "is *)
(* a page owed" unchanged, and that only a press, a reply and a loss move  *)
(* both.                                                                   *)
(*                                                                         *)
(* The order of the chart.  A print has no identity, so the seam is cut by *)
(* stamp and by count: that tells two prints apart only while what the     *)
(* feed holds is whole, with no print of a millisecond missing before one  *)
(* it holds.  The invariant OrderInv says so of the chart and of a running *)
(* refill, that the ledger counts what the chart holds at its last stamp,  *)
(* and that every event on its way, and the bridge's next print, still     *)
(* fits when its turn comes.                                               *)
EXTENDS MetaTraderTape, FiniteSetTheorems, WellFoundedInduction, TLAPS

(* A ledger and a chart that agree. *)
Agree(t, c) ==
  /\ "owed" \in DOMAIN t /\ t.owed \in BOOLEAN
  /\ "loads" \in DOMAIN c /\ c.loads \in {0, 1}
  /\ (c.loads = 1) <=> t.owed

OwedInv == Agree(tape, chart)

(* TapeLedger::forward says nothing of pages. *)
LEMMA ForwardedKeepsOwed ==
  ASSUME NEW t, NEW c, NEW prints, Agree(t, c)
  PROVE  Agree(Forwarded(t, prints), c)
<1>1. CASE prints = << >>
  BY <1>1 DEF Forwarded
<1>2. CASE prints # << >>
  BY <1>2 DEF Forwarded, Agree
<1> QED
  BY <1>1, <1>2

(* The end of a refill answers no page of the tab's. *)
LEMMA ChartWithKeepsLoads ==
  ASSUME NEW t, NEW c, NEW f, Agree(t, c)
  PROVE  Agree(t, ChartWith(c, f))
BY DEF Agree, ChartWith

(* Nor does its release. *)
LEMMA ReleaseAgrees ==
  ASSUME NEW f, NEW t, NEW c, Agree(t, c), Release(f, t, c)
  PROVE  OwedInv'
<1>1. Agree(Forwarded(t, Releases(f)), c)
  BY ForwardedKeepsOwed
<1>2. Agree(Forwarded(t, Releases(f)), ChartWith(c, f))
  BY <1>1, ChartWithKeepsLoads
<1> QED
  BY <1>2 DEF Release, OwedInv

(* A refill that asks, asks on its own account. *)
LEMMA DriveAgrees ==
  ASSUME NEW f, NEW t, NEW c, Agree(t, c), Drive(f, t, c)
  PROVE  OwedInv'
<1>1. Release(f, t, c) \/ (tape' = t /\ chart' = c)
  BY DEF Drive
<1> QED
  BY <1>1, ReleaseAgrees DEF OwedInv

(* Nor the refill that goes on after a page of the chart's. *)
LEMMA SettledAgrees ==
  ASSUME NEW t, NEW c, Agree(t, c), Settled(t, c)
  PROVE  OwedInv'
<1>1. Drive(fill, t, c) \/ (tape' = t /\ chart' = c)
  BY DEF Settled
<1> QED
  BY <1>1, DriveAgrees DEF OwedInv

(* A reply ends the one load there can be. *)
LEMMA RepliedEnds ==
  ASSUME NEW c, NEW prints, "loads" \in DOMAIN c, c.loads \in {0, 1}
  PROVE  "loads" \in DOMAIN Replied(c, prints) /\ Replied(c, prints).loads = 0
<1>1. Later(0, c.loads - 1) = 0
  BY DEF Later
<1> QED
  BY <1>1 DEF Replied

(* A block answers no page. *)
LEMMA BackfilledAgrees == OwedInv /\ OnBackfilled => OwedInv'
<1> SUFFICES ASSUME OwedInv, OnBackfilled PROVE OwedInv'
  OBVIOUS
<1> DEFINE block  == Head(events).prints
           resume == [tape EXCEPT !.resent = TRUE, !.gap = None]
           tail   == PrintsPastSeam(block, Seam)
<1>1. CASE UNCHANGED <<tape, chart>>
  BY <1>1 DEF OwedInv, Agree
<1>2. CASE /\ tape' = Forwarded(tape, block)
           /\ chart' = [chart EXCEPT !.prints = block \o @]
  <2>1. Agree(tape, chart')
    BY <1>2 DEF OwedInv, Agree
  <2> QED
    BY <1>2, <2>1, ForwardedKeepsOwed DEF OwedInv
<1>3. Agree(resume, chart)
  BY DEF OwedInv, Agree
<1>4. CASE /\ tape' = Forwarded(resume, tail)
           /\ chart' = [chart EXCEPT !.prints = @ \o tail]
  <2>1. Agree(resume, chart')
    BY <1>3, <1>4 DEF Agree
  <2> HIDE DEF resume, tail
  <2> QED
    BY <1>4, <2>1, ForwardedKeepsOwed DEF OwedInv
<1>5. CASE Drive(Begin(block, Seam, canPage), resume, chart)
  <2> HIDE DEF resume
  <2> QED
    BY <1>3, <1>5, DriveAgrees
<1> QED
  BY <1>1, <1>2, <1>4, <1>5 DEF OnBackfilled

(* A slice deepens the chart; it answers no page. *)
LEMMA OpeningAgrees == OwedInv /\ OnOpening => OwedInv'
<1> SUFFICES ASSUME OwedInv, OnOpening PROVE OwedInv'
  OBVIOUS
<1> DEFINE slice == Head(events).prints
           older == Older(slice)
<1>1. CASE UNCHANGED <<tape, chart>>
  BY <1>1 DEF OwedInv, Agree
<1>2. CASE Drive(Absorb(fill, slice), tape, chart)
  BY <1>2, DriveAgrees DEF OwedInv
<1>3. CASE /\ tape' = Deepened(older, None)
           /\ chart' = [chart EXCEPT !.prints = older \o @]
  BY <1>3 DEF Deepened, OwedInv, Agree
<1> QED
  BY <1>1, <1>2, <1>3 DEF OnOpening

(* The three readings of a page. *)
LEMMA PageAgrees == OwedInv /\ OnPage => OwedInv'
<1> SUFFICES ASSUME OwedInv, OnPage PROVE OwedInv'
  OBVIOUS
<1> DEFINE page  == Head(events)
           older == Older(page.prints)
           t     == [Deepened(older, page.scanned) EXCEPT !.owed = FALSE]
           c     == Replied(chart, older)
<1>1. CASE Drive(PageIn(fill, page), tape, chart)
  BY <1>1, DriveAgrees DEF OwedInv
<1>2. CASE UNCHANGED <<tape, chart>>
  BY <1>2 DEF OwedInv, Agree
<1>3. CASE Settled(t, c)
  <2>1. "owed" \in DOMAIN t /\ t.owed = FALSE
    BY DEF Deepened, OwedInv, Agree
  <2>2. "loads" \in DOMAIN c /\ c.loads = 0
    BY RepliedEnds DEF OwedInv, Agree
  <2>3. Agree(t, c)
    BY <2>1, <2>2 DEF Agree
  <2> HIDE DEF t, c
  <2> QED
    BY <1>3, <2>3, SettledAgrees
<1> QED
  BY <1>1, <1>2, <1>3 DEF OnPage

(* Nor does a live print. *)
LEMMA LiveAgrees == OwedInv /\ OnLive => OwedInv'
<1> SUFFICES ASSUME OwedInv, OnLive PROVE OwedInv'
  OBVIOUS
<1> DEFINE print == Head(events).print
           held  == [fill EXCEPT !.held = Append(@, print)]
<1>1. CASE /\ tape' = Forwarded(tape, <<print>>)
           /\ chart' = [chart EXCEPT !.gaps = @ \cup OwedGap(tape, print),
                                     !.prints = Append(@, print)]
  <2>1. Agree(tape, chart')
    BY <1>1 DEF OwedInv, Agree
  <2> QED
    BY <1>1, <2>1, ForwardedKeepsOwed DEF OwedInv
<1>2. CASE UNCHANGED <<tape, chart>>
  BY <1>2 DEF OwedInv, Agree
<1>3. CASE Release(held, tape, chart)
  BY <1>3, ReleaseAgrees DEF OwedInv
<1> QED
  BY <1>1, <1>2, <1>3 DEF OnLive

(* A loss ends the refill and, at once, the page that died with it. *)
LEMMA LostAgrees == OwedInv /\ OnLost => OwedInv'
<1> SUFFICES ASSUME OwedInv, OnLost PROVE OwedInv'
  OBVIOUS
<1> DEFINE t == IF fill = NoFill THEN tape ELSE Forwarded(tape, Releases(fill))
           c == IF fill = NoFill THEN chart ELSE ChartWith(chart, fill)
<1>1. Agree(t, c)
  BY ForwardedKeepsOwed, ChartWithKeepsLoads DEF OwedInv
<1>2. tape' = SessionLost(t) /\ chart' = DeadPage(t, c)
  BY DEF OnLost
<1> HIDE DEF t, c
<1>3. "owed" \in DOMAIN SessionLost(t) /\ ~SessionLost(t).owed /\ SessionLost(t).owed \in BOOLEAN
  BY <1>1 DEF SessionLost, Agree
<1>4. "loads" \in DOMAIN DeadPage(t, c) /\ DeadPage(t, c).loads = 0
  <2>1. CASE t.owed
    BY <1>1, <2>1, RepliedEnds DEF DeadPage, Agree
  <2>2. CASE ~t.owed
    BY <1>1, <2>2 DEF DeadPage, Agree
  <2> QED
    BY <2>1, <2>2
<1>5. Agree(SessionLost(t), DeadPage(t, c))
  <2> DEFINE u == SessionLost(t)
             d == DeadPage(t, c)
  <2>1. d.loads \in {0, 1} /\ ~(d.loads = 1)
    BY <1>4
  <2> HIDE DEF u, d
  <2> QED
    BY <1>3, <1>4, <2>1 DEF u, d, Agree
<1> QED
  BY <1>2, <1>5 DEF OwedInv

(* A press moves both. *)
LEMMA LoadOlderAgrees == OwedInv /\ LoadOlder => OwedInv'
BY DEF LoadOlder, Request, OwedInv, Agree

(* No step of the bridge, the connection or the feed parts the two. *)
THEOREM OwedInvariant == TapeSpec => []OwedInv
<1>1. TapeInit => OwedInv
  BY DEF TapeInit, NoTape, OwedInv, Agree
<1>2. OwedInv /\ [TapeNext]_tapeVars => OwedInv'
  <2> SUFFICES ASSUME OwedInv, [TapeNext]_tapeVars PROVE OwedInv'
    OBVIOUS
  <2>1. CASE UNCHANGED <<tape, chart>>
    BY <2>1 DEF OwedInv, Agree
  <2>2. CASE Trade \/ BridgeStep
    <3>1. UNCHANGED <<tape, chart>>
      BY <2>2 DEF Trade, BridgeStep, Dial, Backfill, Pump, PumpOpening, Admit, Answer,
                  TakeRequest, Lose, feedVars
    <3> QED
      BY <2>1, <3>1
  <2>3. CASE FeedStep
    <3>1. CASE OnConnected
      BY <2>1, <3>1 DEF OnConnected
    <3>2. CASE OnRefillDeadline
      BY <3>2, ReleaseAgrees DEF OnRefillDeadline, OwedInv
    <3> QED
      BY <2>3, <3>1, <3>2, BackfilledAgrees, OpeningAgrees, PageAgrees, LiveAgrees,
         LostAgrees, LoadOlderAgrees DEF FeedStep
  <2> QED
    BY <2>1, <2>2, <2>3 DEF TapeNext, tapeVars
<1> QED
  BY <1>1, <1>2, PTL DEF TapeSpec

(* The feed owes a page exactly while the tab awaits one: a load is never  *)
(* forgotten by the side that must answer it, nor kept by the side that    *)
(* was answered.                                                           *)
THEOREM LoadsAreOwedAlways == TapeSpec => []LoadsAreOwed
<1>1. OwedInv => LoadsAreOwed
  BY DEF OwedInv, Agree, LoadsAreOwed
<1> QED
  BY <1>1, OwedInvariant, PTL


-----------------------------------------------------------------------------
(* The chart in tape order.  A set of places is whole when it holds no      *)
(* print without those before it in the same millisecond; a sequence is     *)
(* tidy when it climbs the tape and is whole.                               *)
Climbs(s) == \A k, m \in 1 .. Len(s) : k < m => s[k] < s[m]
Of(s)     == {s[k] : k \in 1 .. Len(s)}
Whole(S)  == \A i \in S, j \in Prints : j < i /\ Ms[j] = Ms[i] => j \in S
Tidy(s)   == s \in Seq(Prints) /\ Climbs(s) /\ Whole(Of(s))

(* Shapes. *)
Bridges == [st : {"off", "hello", "live"}, pages : BOOLEAN, next : 0 .. Len(Ms) + 1,
            opening : Seq(Seq(Prints)), inbox : StampOrNone, ask : StampOrNone]
Pagers  == [queued : StampOrNone, inFlight : BOOLEAN]
Sent    == [t : {"connected"}, pages : BOOLEAN] \cup [t : {"lost"}]
           \cup [t : {"backfilled", "opening"}, prints : Seq(Prints)]
           \cup [t : {"live"}, print : Prints]
           \cup [t : {"page"}, prints : Seq(Prints), exhausted : BOOLEAN, scanned : StampOrNone]
Tapes   == [any : BOOLEAN, resent : BOOLEAN, last : StampOrNone, atLast : Nat, gap : StampOrNone,
            oldest : StampOrNone, floor : StampOrNone, owed : BOOLEAN]
Fills   == [st : {"filling"}, seam : [last : Stamps, held : Nat], hand : Seq(Prints),
            cursor : Stamps, held : Seq(Prints), canPage : BOOLEAN, pageOwed : BOOLEAN,
            pages : Nat, idle : Nat, exhausted : BOOLEAN, unanswered : BOOLEAN]
Charts  == [prints : Seq(Prints), gaps : SUBSET [from : Stamps, to : Stamps], loads : {0, 1}]

(* The ledger says what the chart holds at its two ends. *)
Ledger(t, c) ==
  /\ Climbs(c.prints) /\ Whole(Of(c.prints))
  /\ t.any <=> c.prints # << >>
  /\ t.any => /\ t.last = Ms[Final(c.prints)] /\ t.atLast = At(c.prints, t.last)
              /\ t.oldest = Ms[Head(c.prints)]
  /\ ~t.any => t.last = None /\ t.atLast = 0 /\ t.oldest = None /\ t.floor = None

(* What the feed holds: charted, or in the hands of a refill. *)
InHand(c, f) == Of(c.prints) \cup (IF f = NoFill THEN {} ELSE Of(f.hand) \cup Of(f.held))

(* A refill holds prints of a whole stretch, and live ones newer than all. *)
Refilling(f, t, c) ==
  f # NoFill =>
    /\ t.any /\ f.seam = [last |-> t.last, held |-> t.atLast]
    /\ f.hand # << >> /\ Tidy(f.hand) /\ Climbs(f.held)
    /\ \A h \in Of(f.held) : \A k \in Of(c.prints) \cup Of(f.hand) : k < h
    /\ Whole(InHand(c, f))

Sound(t, f, c) ==
  /\ t \in Tapes /\ f \in Fills \cup {NoFill} /\ c \in Charts
  /\ Ledger(t, c) /\ Refilling(f, t, c)

(* The prints an event brings to the newer end of the chart, and those of   *)
(* the events before the nth.                                               *)
Brings(e) == IF e.t = "live" THEN {e.print}
             ELSE IF e.t = "backfilled" THEN Of(e.prints) ELSE {}
Ahead(sent, n) == UNION {Brings(sent[m]) : m \in 1 .. n - 1}

(* A block that gives the chart its first prints. *)
Gives(e) == e.t = "backfilled" /\ e.prints # << >>
Given(sent, n) == \E m \in 1 .. n - 1 : Gives(sent[m])

(* A loss is heard after the mth event and before the nth. *)
Over(sent, m, n) == \E k \in m + 1 .. n - 1 : sent[k].t = "lost"

(* i is newer than everything in S, and S lacks none of its millisecond. *)
Follows(i, S) == (\A k \in S : k < i) /\ \A j \in Prints : j < i /\ Ms[j] = Ms[i] => j \in S

(* A new session's block comes to a feed that refills no longer. *)
Quiet(sent, f, n) ==
  /\ f = NoFill \/ Over(sent, 0, n)
  /\ \A m \in 1 .. n - 1 : sent[m].t = "backfilled" => Over(sent, m, n)

(* An event, the nth on its way, can be taken when its turn comes. *)
Fits(e, sent, n, t, f, c) ==
  /\ e.t \in {"backfilled", "opening", "page"} => Tidy(e.prints)
  /\ e.t = "live" => Follows(e.print, InHand(c, f) \cup Ahead(sent, n))
  /\ e.t = "opening" => t.any \/ Given(sent, n)
  /\ e.t = "page" => t.any \/ (e.prints = << >> /\ e.scanned = None)
  /\ e.t = "backfilled" => Quiet(sent, f, n)

Queue(sent, t, f, c) ==
  sent \in Seq(Sent) /\ \A n \in 1 .. Len(sent) : Fits(sent[n], sent, n, t, f, c)

(* What the bridge will send next fits what is on its way. *)
Source(b, sent, t, f, c) ==
  /\ b \in Bridges
  /\ \A n \in 1 .. Len(b.opening) : b.opening[n] # << >> /\ Tidy(b.opening[n])
  /\ b.opening # << >> => t.any \/ Given(sent, Len(sent) + 1)
  /\ b.inbox # None \/ b.ask # None => t.any
  /\ b.st = "live" =>
       LET S == InHand(c, f) \cup Ahead(sent, Len(sent) + 1)
       IN  /\ b.next >= 1 /\ \A k \in S : k < b.next
           /\ b.next \in Prints => Follows(b.next, S)
  /\ b.st # "live" => Quiet(sent, f, Len(sent) + 1)

OrderInv ==
  /\ printed \in Prints /\ canPage \in BOOLEAN
  /\ pager \in Pagers /\ (pager.queued # None => tape.any)
  /\ Sound(tape, fill, chart)
  /\ Queue(events, tape, fill, chart)
  /\ \A k \in InHand(chart, fill) \cup Ahead(events, Len(events) + 1) : k <= printed
  /\ Source(bridge, events, tape, fill, chart)
(* Numbers have a least one, in every set of them. *)
LEMMA LeastNumber ==
  ASSUME NEW T, T \subseteq Nat, T # {}
  PROVE \E x \in T : \A y \in T : x <= y
<1> DEFINE R == {ss \in Nat \X Nat : ss[1] < ss[2]}
<1>1. IsWellFoundedOn(R, Nat)
  BY NatLessThanWellFounded DEF OpToRel
<1> HIDE DEF R
<1>2. PICK x \in T : \A y \in T : ~(<<y, x>> \in R)
  BY <1>1, WFMin
<1>3. \A y \in T : ~(y < x)
  BY <1>2 DEF R
<1> QED BY <1>2, <1>3

(* What holds of 0 and is carried from each number to the next, up to a     *)
(* bound, holds up to the bound: G is the set of those it holds of.         *)
LEMMA Upward ==
  ASSUME NEW L \in Nat, NEW G, 0 \in G, \A n \in 1 .. L : n - 1 \in G => n \in G
  PROVE \A n \in 0 .. L : n \in G
<1> DEFINE Bad == {n \in 0 .. L : n \notin G}
<1>1. CASE Bad # {}
  <2>0. Bad \subseteq Nat
    OBVIOUS
  <2>1. PICK n \in Bad : \A i \in Bad : n <= i
    <3> HIDE DEF Bad
    <3> QED BY <1>1, <2>0, LeastNumber
  <2>2. n \in 1 .. L /\ n - 1 \in 0 .. L
    BY <2>1
  <2>3. n - 1 \in G
    BY <2>1, <2>2
  <2> QED BY <2>1, <2>2, <2>3
<1>2. CASE Bad = {}
  BY <1>2
<1> QED BY <1>1, <1>2

(* The stamps of the tape never fall. *)
LEMMA StampsRise ==
  /\ Len(Ms) \in Nat /\ Prints = 1 .. Len(Ms) /\ Len(Ms) > 0
  /\ \A i \in Prints : Ms[i] \in Nat /\ Ms[i] # None /\ Ms[i] \in Stamps
  /\ \A i, j \in Prints : i <= j => Ms[i] <= Ms[j]
<1>1. Len(Ms) \in Nat /\ Prints = 1 .. Len(Ms) /\ Len(Ms) > 0
  BY TapeAssumption DEF Prints
<1>2. \A i \in Prints : Ms[i] \in Nat /\ Ms[i] # None /\ Ms[i] \in Stamps
  BY TapeAssumption, <1>1 DEF Stamps, Prints
<1>3. \A i \in 2 .. Len(Ms) : Ms[i - 1] <= Ms[i]
  BY TapeAssumption
<1> DEFINE G == {n \in 0 .. Len(Ms) : \A i \in Prints : i + n \in Prints => Ms[i] <= Ms[i + n]}
<1>4. 0 \in G
  BY <1>1, <1>2
<1>5. \A n \in 1 .. Len(Ms) : n - 1 \in G => n \in G
  <2> SUFFICES ASSUME NEW n \in 1 .. Len(Ms), n - 1 \in G PROVE n \in G
    OBVIOUS
  <2>1. ASSUME NEW i \in Prints, i + n \in Prints PROVE Ms[i] <= Ms[i + n]
    <3>1. i \in 1 .. Len(Ms) /\ i + n \in 1 .. Len(Ms) /\ n \in Nat /\ n > 0
      BY <1>1, <2>1
    <3>2. i + (n - 1) \in Prints /\ i + n \in 2 .. Len(Ms) /\ (i + n) - 1 = i + (n - 1)
      BY <1>1, <3>1
    <3>3. Ms[i] <= Ms[i + (n - 1)]
      BY <3>2
    <3>4. Ms[i + (n - 1)] <= Ms[i + n]
      BY <1>3, <3>2
    <3> QED BY <1>2, <2>1, <3>2, <3>3, <3>4
  <2>2. n \in 0 .. Len(Ms)
    BY <1>1
  <2> QED BY <2>1, <2>2
<1>6. \A n \in 0 .. Len(Ms) : n \in G
  <2> HIDE DEF G
  <2> QED BY <1>1, <1>4, <1>5, Upward
<1>7. ASSUME NEW i \in Prints, NEW j \in Prints, i <= j PROVE Ms[i] <= Ms[j]
  <2>1. j - i \in 0 .. Len(Ms) /\ i + (j - i) = j
    BY <1>1, <1>7
  <2>2. j - i \in G
    BY <1>6, <2>1
  <2> QED BY <2>1, <2>2
<1> QED BY <1>1, <1>2, <1>7

(* An earlier stamp is an earlier place. *)
LEMMA EarlierStamp ==
  ASSUME NEW i \in Prints, NEW j \in Prints, Ms[i] < Ms[j] PROVE i < j
<1>1. ~(j <= i)
  BY StampsRise
<1> QED BY <1>1, StampsRise

(* What the bridge cuts by. *)
LEMMA CutSizes == /\ BlockMax \in Nat \ {0}
                  /\ SliceTicks \in Nat \ {0}
                  /\ PageTicks \in Nat \ {0}
<1>1. {BlockMax, SliceTicks, PageTicks} \subseteq Nat \ {0}
  BY Zenon, TapeAssumption
<1> QED BY <1>1
-----------------------------------------------------------------------------
(* Runs, and the cuts the bridge makes. *)

(* A place that begins a millisecond. *)
Begins(i) == i = 1 \/ Ms[i - 1] # Ms[i]

(* A millisecond's prints are together on the tape. *)
LEMMA Together ==
  ASSUME NEW i \in Prints, NEW j \in Prints, NEW k \in Nat, j <= k, k <= i, Ms[j] = Ms[i]
  PROVE k \in Prints /\ Ms[k] = Ms[i]
<1>1. k \in Prints
  BY StampsRise
<1>2. Ms[j] <= Ms[k] /\ Ms[k] <= Ms[i]
  BY <1>1, StampsRise
<1> QED BY <1>1, <1>2, StampsRise

(* A run from such a place is tidy, and holds what lies between its ends. *)
LEMMA RunIs ==
  ASSUME NEW a \in Nat, NEW b \in Nat, a >= 1, b <= Len(Ms), a <= b => Begins(a)
  PROVE  /\ Tidy(Run(a, b)) /\ Of(Run(a, b)) = a .. b
         /\ a <= b => Run(a, b) # << >> /\ Head(Run(a, b)) = a
         /\ a > b => Run(a, b) = << >>
<1> DEFINE n == IF a <= b THEN b - a + 1 ELSE 0
           s == Run(a, b)
<1>1. n \in Nat /\ s = [k \in 1 .. n |-> a + k - 1]
  BY DEF Run
<1>2. \A k \in 1 .. n : a + k - 1 \in Prints /\ a + k - 1 \in a .. b
  BY StampsRise
<1>3. s \in Seq(Prints) /\ Len(s) = n /\ \A k \in 1 .. n : s[k] = a + k - 1
  <2> HIDE DEF n, s
  <2> QED BY <1>1, <1>2
<1>4. Of(s) = a .. b
  <2>1. ASSUME NEW i \in a .. b PROVE i \in Of(s)
    <3>1. i - a + 1 \in 1 .. n /\ a + (i - a + 1) - 1 = i
      BY <2>1
    <3> HIDE DEF s, n
    <3> QED BY <1>3, <3>1 DEF Of
  <2>2. ASSUME NEW i \in Of(s) PROVE i \in a .. b
    <3> HIDE DEF s, n
    <3> QED BY <1>2, <1>3 DEF Of
  <2> QED BY <2>1, <2>2
<1>5. Climbs(s)
  <2>1. \A k, m \in 1 .. n : k < m => a + k - 1 < a + m - 1
    BY <1>1
  <2> HIDE DEF s, n
  <2> QED BY <1>3, <2>1 DEF Climbs
<1>6. Whole(Of(s))
  <2> SUFFICES ASSUME NEW i \in a .. b, NEW j \in Prints, j < i, Ms[j] = Ms[i] PROVE j \in a .. b
    BY <1>4 DEF Whole
  <2>0. i \in Prints /\ j \in Nat
    BY StampsRise
  <2>1. CASE j < a
    <3>1. a - 1 \in Nat /\ j <= a - 1 /\ a - 1 <= i /\ a # 1 /\ a <= b
      BY <2>0, <2>1, StampsRise
    <3>2. Ms[a - 1] = Ms[i]
      BY <2>0, <3>1, Together
    <3>3. Ms[a] = Ms[i]
      BY <2>0, <2>1, Together
    <3> QED BY <3>1, <3>2, <3>3 DEF Begins
  <2> QED BY <2>0, <2>1
<1>7. a <= b => s # << >> /\ Head(s) = a
  <2>1. a <= b => n >= 1 /\ a + 1 - 1 = a
    OBVIOUS
  <2> HIDE DEF s, n
  <2>2. ASSUME a <= b PROVE s # << >> /\ Head(s) = a
    <3>1. Len(s) >= 1 /\ s[1] = a
      BY <1>1, <1>3, <2>1, <2>2
    <3> QED BY <1>3, <3>1
  <2> QED BY <2>2
<1>8. a > b => s = << >>
  <2>1. a > b => n = 0
    OBVIOUS
  <2> HIDE DEF s, n
  <2> QED BY <1>3, <2>1
<1> HIDE DEF n, s
<1> QED BY <1>3, <1>4, <1>5, <1>6, <1>7, <1>8 DEF Tidy, s

(* page_start cuts where a millisecond begins. *)
LEMMA PageStartIs ==
  ASSUME NEW lo \in Prints, NEW hi \in Prints, lo <= hi, Begins(lo), NEW wanted \in Nat \ {0}
  PROVE  PageStart(lo, hi, wanted) \in lo .. hi /\ Begins(PageStart(lo, hi, wanted))
<1> DEFINE start == Later(lo, hi + 1 - wanted)
           group == {i \in lo .. hi : Ms[i] = Ms[start]}
           right == {i \in start .. hi : Ms[i] # Ms[start]}
           P == PageStart(lo, hi, wanted)
<1>1. start \in lo .. hi /\ lo \in Nat /\ hi \in Nat /\ lo >= 1 /\ hi <= Len(Ms) /\ start \in Nat
  BY StampsRise DEF Later
<1>2. P = CASE start = lo \/ Ms[start - 1] # Ms[start] -> start
            [] start # lo /\ Ms[start - 1] = Ms[start] /\ right # {} ->
                 CHOOSE i \in right : \A j \in right : i <= j
            [] OTHER -> CHOOSE i \in group : \A j \in group : i <= j
  BY DEF PageStart
<1> HIDE DEF start, P
<1>3. ASSUME start = lo \/ Ms[start - 1] # Ms[start]
      PROVE  P \in lo .. hi /\ Begins(P)
  BY <1>1, <1>2, <1>3 DEF Begins
<1>4. ASSUME start # lo /\ Ms[start - 1] = Ms[start], right # {}
      PROVE  P \in lo .. hi /\ Begins(P)
  <2>1. P = CHOOSE i \in right : \A j \in right : i <= j
    BY <1>2, <1>4
  <2>2. right \subseteq Nat
    BY <1>1
  <2>3. P \in right /\ \A j \in right : P <= j
    <3> HIDE DEF right
    <3> QED BY <1>4, <2>1, <2>2, LeastNumber
  <2>4. P \in start .. hi /\ Ms[P] # Ms[start] /\ P # start
    BY <2>3
  <2>5. P - 1 \in start .. hi /\ P - 1 \notin right
    BY <1>1, <2>3, <2>4
  <2>6. Ms[P - 1] = Ms[start]
    BY <2>5
  <2> QED BY <1>1, <2>4, <2>6 DEF Begins
<1>5. ASSUME ~(start = lo \/ Ms[start - 1] # Ms[start]), right = {}
      PROVE  P \in lo .. hi /\ Begins(P)
  <2>1. P = CHOOSE i \in group : \A j \in group : i <= j
    BY <1>2, <1>5
  <2>2. group \subseteq Nat /\ start \in group
    BY <1>1
  <2>3. P \in group /\ \A j \in group : P <= j
    <3> HIDE DEF group
    <3> QED BY <2>1, <2>2, LeastNumber
  <2>4. P \in lo .. hi /\ Ms[P] = Ms[start]
    BY <2>3
  <2>5. CASE P = lo
    BY <1>1, <2>4, <2>5
  <2>6. CASE P # lo
    <3>1. P - 1 \in lo .. hi /\ P - 1 \notin group
      BY <1>1, <2>3, <2>4, <2>6
    <3> QED BY <1>1, <2>4, <3>1 DEF Begins
  <2> QED BY <2>5, <2>6
<1> HIDE DEF group, right
<1>6. \/ start = lo \/ Ms[start - 1] # Ms[start]
      \/ start # lo /\ Ms[start - 1] = Ms[start] /\ right # {}
      \/ ~(start = lo \/ Ms[start - 1] # Ms[start]) /\ right = {}
  OBVIOUS
<1> QED BY <1>3, <1>4, <1>5, <1>6 DEF P

(* The first place with a stamp of clock or later. *)
LEMMA FromIs ==
  ASSUME NEW clock \in Nat
  PROVE  /\ From(clock) \in 1 .. Len(Ms) + 1
         /\ \A i \in Prints : i < From(clock) <=> Ms[i] < clock
         /\ From(clock) \in Prints => Begins(From(clock))
<1> DEFINE T == {i \in 1 .. Len(Ms) + 1 : i = Len(Ms) + 1 \/ ~(Ms[i] < clock)}
<1>1. T \subseteq Nat /\ Len(Ms) + 1 \in T
  BY StampsRise
<1>2. PICK m \in T : \A i \in T : m <= i
  <2> HIDE DEF T
  <2> QED BY <1>1, LeastNumber
<1>3. m \in 1 .. Len(Ms) + 1 /\ m \in Nat /\ m - 1 \in Nat
  BY <1>2, StampsRise
<1>4. \A i \in Prints : i < m <=> Ms[i] < clock
  <2> SUFFICES ASSUME NEW i \in Prints PROVE i < m <=> Ms[i] < clock
    OBVIOUS
  <2>0. i \in 1 .. Len(Ms) /\ Ms[i] \in Nat
    BY StampsRise
  <2>1. CASE i < m
    <3>1. ~(m <= i)
      BY <1>3, <2>0, <2>1
    <3>2. i \notin T
      BY <1>2, <3>1
    <3>3. Ms[i] < clock
      BY <2>0, <3>2, StampsRise
    <3> QED BY <2>1, <3>3
  <2>2. CASE m <= i
    <3>1. m \in Prints /\ ~(Ms[m] < clock)
      BY <1>2, <1>3, <2>0, <2>2, StampsRise
    <3>2. Ms[m] <= Ms[i] /\ Ms[m] \in Nat
      BY <2>2, <3>1, StampsRise
    <3> QED BY <1>3, <2>0, <2>2, <3>1, <3>2
  <2> QED BY <1>3, <2>0, <2>1, <2>2
<1>5. {i \in DOMAIN Ms : Ms[i] < clock} = 1 .. m - 1
  BY <1>3, <1>4, StampsRise DEF Prints
<1>6. Cardinality(1 .. m - 1) = m - 1
  BY <1>3, FS_Interval
<1> DEFINE S == {i \in DOMAIN Ms : Ms[i] < clock}
<1>9. From(clock) = Cardinality(S) + 1
  BY DEF From
<1>7. From(clock) = m
  <2>1. S = 1 .. m - 1
    BY <1>5
  <2> HIDE DEF S
  <2> QED BY <1>3, <1>6, <1>9, <2>1
<1>8. m \in Prints => Begins(m)
  <2> SUFFICES ASSUME m \in Prints, m # 1, Ms[m - 1] = Ms[m] PROVE FALSE
    BY DEF Begins
  <2>1. m - 1 \in Prints
    BY <1>3, StampsRise
  <2>2. Ms[m - 1] < clock /\ ~(Ms[m] < clock)
    BY <1>3, <1>4, <2>1
  <2> QED BY <2>2
<1> QED BY <1>3, <1>4, <1>7, <1>8

(* A page is tidy, wherever the walk got to. *)
LEMMA PageIs ==
  ASSUME NEW reach \in Stamps, bridge.ask \in Stamps
  PROVE  Tidy(PageTo(reach).prints) /\ PageTo(reach).scanned \in Stamps
<1> DEFINE lo == From(reach)
           hi == From(bridge.ask) - 1
           start == PageStart(lo, hi, PageTicks)
<1>0. reach \in Nat /\ bridge.ask \in Nat /\ PageTicks \in Nat \ {0}
  BY StampsRise, CutSizes DEF Stamps
<1>1. /\ lo \in 1 .. Len(Ms) + 1 /\ hi \in 0 .. Len(Ms)
      /\ lo \in Prints => Begins(lo)
  <2>1. lo \in 1 .. Len(Ms) + 1 /\ (lo \in Prints => Begins(lo))
    BY <1>0, FromIs
  <2>2. From(bridge.ask) \in 1 .. Len(Ms) + 1
    BY <1>0, FromIs
  <2> QED BY <2>1, <2>2, StampsRise
<1>2. PageTo(reach) = IF hi < lo THEN [prints |-> << >>, whole |-> TRUE, scanned |-> reach]
                      ELSE [prints |-> Run(start, hi), whole |-> start = lo,
                            scanned |-> IF start = lo THEN reach ELSE Ms[start]]
  BY DEF PageTo
<1> HIDE DEF lo, hi, start
<1>3. CASE hi < lo
  <2>1. PageTo(reach).prints = << >> /\ PageTo(reach).scanned = reach
    BY <1>2, <1>3
  <2>2. Run(2, 1) = << >> /\ Tidy(Run(2, 1))
    BY RunIs, StampsRise
  <2> QED BY <2>1, <2>2
<1>4. CASE ~(hi < lo)
  <2>1. lo \in Prints /\ hi \in Prints /\ lo <= hi /\ Begins(lo)
    BY <1>1, <1>4, StampsRise
  <2>2. start \in lo .. hi /\ Begins(start)
    BY <1>0, <2>1, PageStartIs DEF start
  <2>3. Tidy(Run(start, hi))
    <3>1. start \in Nat /\ hi \in Nat /\ start >= 1 /\ hi <= Len(Ms)
      BY <2>1, <2>2, StampsRise
    <3> QED BY <2>2, <3>1, RunIs
  <2>4. Ms[start] \in Stamps
    BY <2>1, <2>2, StampsRise
  <2>5. PageTo(reach).prints = Run(start, hi)
        /\ PageTo(reach).scanned = IF start = lo THEN reach ELSE Ms[start]
    BY <1>2, <1>4
  <2> QED BY <2>3, <2>4, <2>5
<1> QED BY <1>3, <1>4

(* The opening slices: the newest first, each of them tidy. *)
Cuts(lo, hi) ==
  CHOOSE f : f = [end \in lo - 1 .. hi |->
                   IF end < lo THEN << >>
                   ELSE LET start == PageStart(lo, end, SliceTicks)
                        IN  <<Run(start, end)>> \o f[start - 1]]

(* The recursion is well founded: each cut is shorter than the last. *)
LEMMA CutsAre ==
  ASSUME NEW lo \in Prints, NEW hi \in Prints, lo <= hi, Begins(lo)
  PROVE \A end \in lo - 1 .. hi :
          Cuts(lo, hi)[end] =
            IF end < lo THEN << >>
            ELSE LET start == PageStart(lo, end, SliceTicks)
                 IN  <<Run(start, end)>> \o Cuts(lo, hi)[start - 1]
<1> DEFINE D == lo - 1 .. hi
           next(e) == PageStart(lo, e, SliceTicks) - 1
           step(e, x) == <<Run(PageStart(lo, e, SliceTicks), e)>> \o x
           body(g) == [e \in D |-> IF e < lo THEN << >> ELSE step(e, g[next(e)])]
           fold == CHOOSE g : g = body(g)
           K == hi - lo + 1
           Upto(n, g) == \A e \in D : e - lo + 1 <= n => g[e] = body(g)[e]
           G == {n \in 0 .. K : \E g : Upto(n, g)}
<1>0. lo \in Nat /\ hi \in Nat /\ K \in Nat /\ SliceTicks \in Nat \ {0} /\ lo \in 1 .. Len(Ms)
      /\ hi \in 1 .. Len(Ms)
  BY StampsRise, CutSizes
<1>1. \A e \in D : ~(e < lo) => next(e) \in D /\ next(e) < e
  <2> SUFFICES ASSUME NEW e \in D, ~(e < lo) PROVE next(e) \in D /\ next(e) < e
    OBVIOUS
  <2>1. e \in Prints /\ lo <= e /\ e <= hi
    BY <1>0, StampsRise
  <2>2. PageStart(lo, e, SliceTicks) \in lo .. e
    BY <1>0, <2>1, PageStartIs
  <2> QED BY <1>0, <2>1, <2>2
<1>2. Cuts(lo, hi) = fold
  BY DEF Cuts
<1> HIDE DEF next, step
<1>4. 0 \in G
  <2>1. Upto(0, [e \in D |-> << >>])
    <3> SUFFICES ASSUME NEW e \in D, e - lo + 1 <= 0 PROVE e < lo
      OBVIOUS
    <3> QED BY <1>0
  <2> HIDE DEF Upto
  <2> QED BY <1>0, <2>1
<1>5. \A n \in 1 .. K : n - 1 \in G => n \in G
  <2> SUFFICES ASSUME NEW n \in 1 .. K, n - 1 \in G PROVE n \in G
    OBVIOUS
  <2>1. PICK g : Upto(n - 1, g)
    OBVIOUS
  <2> DEFINE h == body(g)
  <2>2. \A e \in D : e - lo + 1 <= n - 1 => h[e] = g[e]
    BY <2>1
  <2>3. \A e \in D : e - lo + 1 <= n => h[e] = body(h)[e]
    <3> SUFFICES ASSUME NEW e \in D, e - lo + 1 <= n PROVE h[e] = body(h)[e]
      OBVIOUS
    <3>1. CASE e < lo
      BY <3>1
    <3>2. CASE ~(e < lo)
      <4>1. next(e) \in D /\ next(e) - lo + 1 <= n - 1
        <5>1. next(e) \in D /\ next(e) < e
          BY <1>1, <3>2
        <5> HIDE DEF h
        <5> QED BY <1>0, <5>1
      <4>2. h[next(e)] = g[next(e)]
        BY <2>2, <4>1
      <4>3. h[e] = step(e, g[next(e)])
        BY <3>2
      <4>4. body(h)[e] = step(e, h[next(e)])
        <5> HIDE DEF h
        <5> QED BY <3>2
      <4> HIDE DEF h, body
      <4> QED BY <4>2, <4>3, <4>4
    <3> QED BY <3>1, <3>2
  <2>4. Upto(n, h)
    <3> HIDE DEF h, body
    <3> QED BY <2>3
  <2> HIDE DEF Upto, h, K
  <2> QED BY <1>0, <2>4
<1>6. PICK g : Upto(K, g)
  <2>1. \A n \in 0 .. K : n \in G
    <3> HIDE DEF G, K
    <3> QED BY <1>0, <1>4, <1>5, Upward
  <2>2. K \in G
    <3> HIDE DEF G, K
    <3> QED BY <1>0, <2>1
  <2> QED BY <2>2
<1>7. \E f : f = body(f)
  <2> DEFINE f == [e \in D |-> g[e]]
  <2>1. \A e \in D : g[e] = body(g)[e]
    <3> SUFFICES ASSUME NEW e \in D PROVE e - lo + 1 <= K
      BY <1>6
    <3> QED BY <1>0
  <2>2. body(f) = body(g)
    <3>1. \A e \in D : ~(e < lo) => f[next(e)] = g[next(e)]
      BY <1>1
    <3> HIDE DEF f
    <3> QED BY <3>1
  <2>3. f = body(g)
    <3> HIDE DEF f
    <3>1. f = [e \in D |-> g[e]]
      BY DEF f
    <3>2. body(g) = [e \in D |-> body(g)[e]]
      OBVIOUS
    <3> HIDE DEF body
    <3> QED BY <2>1, <3>1, <3>2
  <2> HIDE DEF f, body
  <2> QED BY <2>2, <2>3
<1>8. fold = body(fold)
  <2> HIDE DEF body
  <2> QED BY <1>7
<1>9. \A e \in D : fold[e] = IF e < lo THEN << >> ELSE step(e, fold[next(e)])
  <2> DEFINE f == fold
  <2>1. f = body(f)
    BY <1>8
  <2> HIDE DEF f
  <2>2. \A e \in D : f[e] = IF e < lo THEN << >> ELSE step(e, f[next(e)])
    BY <2>1
  <2> QED BY <2>2 DEF f
<1> HIDE DEF fold
<1> QED BY <1>2, <1>9 DEF step, next

(* The opening is one tidy slice after another, and the first of them ends *)
(* at the newest print.                                                     *)
LEMMA SlicesAre ==
  ASSUME NEW lo \in Prints, NEW hi \in Prints, lo <= hi, Begins(lo)
  PROVE  LET s == Slices(lo, hi) IN
         /\ s \in Seq(Seq(Prints)) /\ s # << >>
         /\ \A n \in DOMAIN s : s[n] # << >> /\ Tidy(s[n])
         /\ \E start \in lo .. hi : Begins(start) /\ Head(s) = Run(start, hi)
<1> DEFINE cut == Cuts(lo, hi)
           Good(s) == s \in Seq(Seq(Prints)) /\ \A n \in DOMAIN s : s[n] # << >> /\ Tidy(s[n])
           K == hi - lo + 1
           G == {n \in 0 .. K : \A e \in lo - 1 .. hi : e - lo + 1 <= n => Good(cut[e])}
<1>0. lo \in Nat /\ hi \in Nat /\ K \in Nat /\ SliceTicks \in Nat \ {0} /\ lo \in 1 .. Len(Ms)
      /\ hi \in 1 .. Len(Ms)
  BY StampsRise, CutSizes
<1>1. Slices(lo, hi) = cut[hi]
  BY DEF Slices, Cuts
<1>2. \A e \in lo - 1 .. hi :
        cut[e] = IF e < lo THEN << >>
                 ELSE <<Run(PageStart(lo, e, SliceTicks), e)>>
                        \o cut[PageStart(lo, e, SliceTicks) - 1]
  BY CutsAre
<1> HIDE DEF cut
<1>3. ASSUME NEW e \in lo .. hi
      PROVE  LET start == PageStart(lo, e, SliceTicks) IN
             /\ start \in lo .. e /\ Begins(start) /\ Tidy(Run(start, e))
             /\ Run(start, e) \in Seq(Prints) /\ Run(start, e) # << >>
  <2>1. e \in Prints /\ lo <= e
    BY <1>0, StampsRise
  <2>2. PageStart(lo, e, SliceTicks) \in lo .. e /\ Begins(PageStart(lo, e, SliceTicks))
    BY <1>0, <2>1, PageStartIs
  <2> DEFINE start == PageStart(lo, e, SliceTicks)
  <2>3. start \in Nat /\ e \in Nat /\ start >= 1 /\ start <= e /\ e <= Len(Ms) /\ Begins(start)
    BY <1>0, <2>1, <2>2, StampsRise
  <2> HIDE DEF start
  <2>4. Tidy(Run(start, e)) /\ Run(start, e) # << >>
    BY <2>3, RunIs
  <2> QED BY <2>2, <2>4 DEF start, Tidy
<1>4. 0 \in G
  <2> SUFFICES ASSUME NEW e \in lo - 1 .. hi, e - lo + 1 <= 0 PROVE Good(cut[e])
    BY <1>0
  <2>1. e < lo
    BY <1>0
  <2>2. cut[e] = << >>
    BY <1>2, <2>1
  <2> QED BY <2>2
<1>5. \A n \in 1 .. K : n - 1 \in G => n \in G
  <2> SUFFICES ASSUME NEW n \in 1 .. K, n - 1 \in G PROVE n \in G
    OBVIOUS
  <2>1. ASSUME NEW e \in lo - 1 .. hi, e - lo + 1 <= n PROVE Good(cut[e])
    <3>1. CASE e < lo
      <4>1. cut[e] = << >>
        BY <1>2, <3>1
      <4> QED BY <4>1
    <3>2. CASE ~(e < lo)
      <4> DEFINE start == PageStart(lo, e, SliceTicks)
                 r == Run(start, e)
                 rest == cut[start - 1]
      <4>1. start \in lo .. e /\ Tidy(r) /\ r \in Seq(Prints) /\ r # << >>
        <5>1. e \in lo .. hi
          BY <1>0, <3>2
        <5> QED BY <1>3, <5>1
      <4>2. cut[e] = <<r>> \o rest
        BY <1>2, <3>2
      <4> HIDE DEF start
      <4>3. start - 1 \in lo - 1 .. hi /\ (start - 1) - lo + 1 <= n - 1
        BY <1>0, <2>1, <4>1
      <4>4. Good(rest)
        BY <4>3
      <4> HIDE DEF r, rest
      <4>5. <<r>> \o rest \in Seq(Seq(Prints))
        BY <4>1, <4>4
      <4>6. ASSUME NEW k \in DOMAIN (<<r>> \o rest)
            PROVE  (<<r>> \o rest)[k] # << >> /\ Tidy((<<r>> \o rest)[k])
        <5>1. k \in 1 .. 1 + Len(rest) /\ rest \in Seq(Seq(Prints))
          BY <4>1, <4>4, <4>6
        <5>2. CASE k = 1
          <6>1. (<<r>> \o rest)[1] = r
            BY <5>1
          <6> QED BY <4>1, <5>2, <6>1
        <5>3. CASE k # 1
          <6>1. (<<r>> \o rest)[k] = rest[k - 1] /\ k - 1 \in DOMAIN rest
            BY <5>1, <5>3
          <6> QED BY <4>4, <6>1
        <5> QED BY <5>2, <5>3
      <4> QED BY <4>2, <4>5, <4>6
    <3> QED BY <3>1, <3>2
  <2>2. n \in 0 .. K
    BY <1>0
  <2> HIDE DEF Good
  <2> QED BY <2>1, <2>2
<1>6. Good(cut[hi])
  <2>1. \A n \in 0 .. K : n \in G
    <3> HIDE DEF G, K
    <3> QED BY <1>0, <1>4, <1>5, Upward
  <2>2. K \in G
    <3> HIDE DEF G, K
    <3> QED BY <1>0, <2>1
  <2>3. hi \in lo - 1 .. hi /\ hi - lo + 1 <= K
    BY <1>0
  <2> HIDE DEF Good
  <2> QED BY <2>2, <2>3
<1>7. \E start \in lo .. hi : /\ Begins(start) /\ Head(cut[hi]) = Run(start, hi)
                              /\ cut[hi] # << >>
  <2> DEFINE start == PageStart(lo, hi, SliceTicks)
             rest == cut[start - 1]
  <2>1. hi \in lo .. hi /\ hi \in lo - 1 .. hi /\ ~(hi < lo)
    BY <1>0
  <2>2. start \in lo .. hi /\ Begins(start)
    BY <1>3, <2>1
  <2>3. cut[hi] = <<Run(start, hi)>> \o rest
    BY <1>2, <2>1
  <2>4. rest \in Seq(Seq(Prints))
    <3>1. start - 1 \in lo - 1 .. hi /\ (start - 1) - lo + 1 <= K
      <4> HIDE DEF start
      <4> QED BY <1>0, <2>2
    <3>2. \A n \in 0 .. K : n \in G
      <4> HIDE DEF G, K
      <4> QED BY <1>0, <1>4, <1>5, Upward
    <3>3. K \in G
      <4> HIDE DEF G, K
      <4> QED BY <1>0, <3>2
    <3> QED BY <3>1, <3>3
  <2> DEFINE r == Run(start, hi)
  <2> HIDE DEF start, rest, r
  <2>5. Head(<<r>> \o rest) = r /\ <<r>> \o rest # << >>
    BY <2>4
  <2> QED BY <2>2, <2>3, <2>5 DEF r
<1> HIDE DEF Good
<1> QED BY <1>1, <1>6, <1>7 DEF Good

-----------------------------------------------------------------------------
(* Filters and counts. *)

(* What stays when only the places in kept do: no print twice, none out of  *)
(* order, and exactly those.                                                *)
LEMMA RetainedIs ==
  ASSUME NEW s \in Seq(Prints), Climbs(s), NEW kept
  PROVE  /\ Retained(s, kept) \in Seq(Prints) /\ Climbs(Retained(s, kept))
         /\ Of(Retained(s, kept)) = {s[k] : k \in kept \cap (1 .. Len(s))}
<1> DEFINE D == 0 .. Len(s)
           body(g) == [k \in D |-> IF k = 0 THEN << >>
                                   ELSE IF k \in kept THEN Append(g[k - 1], s[k]) ELSE g[k - 1]]
           fold == CHOOSE g : g = body(g)
           Upto(n, g) == \A k \in D : k <= n => g[k] = body(g)[k]
           G == {n \in D : \E g : Upto(n, g)}
           H == {n \in D : /\ fold[n] \in Seq(Prints) /\ Climbs(fold[n])
                           /\ Of(fold[n]) = {s[k] : k \in kept \cap (1 .. n)}}
<1>0. Len(s) \in Nat /\ \A k \in 1 .. Len(s) : s[k] \in Prints
  OBVIOUS
<1>1. Retained(s, kept) = fold[Len(s)]
  BY DEF Retained
<1>2. 0 \in G
  <2>1. Upto(0, [k \in D |-> << >>])
    BY <1>0
  <2> HIDE DEF Upto
  <2> QED BY <1>0, <2>1
<1>3. \A n \in 1 .. Len(s) : n - 1 \in G => n \in G
  <2> SUFFICES ASSUME NEW n \in 1 .. Len(s), n - 1 \in G PROVE n \in G
    OBVIOUS
  <2>1. PICK g : Upto(n - 1, g)
    OBVIOUS
  <2> DEFINE h == body(g)
  <2>2. \A k \in D : k <= n - 1 => h[k] = g[k]
    BY <2>1
  <2>3. \A k \in D : k <= n => h[k] = body(h)[k]
    <3> SUFFICES ASSUME NEW k \in D, k <= n PROVE h[k] = body(h)[k]
      OBVIOUS
    <3>1. CASE k = 0
      BY <3>1
    <3>2. CASE k # 0
      <4>1. k - 1 \in D /\ k - 1 <= n - 1
        <5> HIDE DEF h
        <5> QED BY <1>0, <3>2
      <4>2. h[k - 1] = g[k - 1]
        BY <2>2, <4>1
      <4>3. h[k] = IF k \in kept THEN Append(g[k - 1], s[k]) ELSE g[k - 1]
        BY <3>2
      <4>4. body(h)[k] = IF k \in kept THEN Append(h[k - 1], s[k]) ELSE h[k - 1]
        <5> HIDE DEF h
        <5> QED BY <3>2
      <4> HIDE DEF h, body
      <4> QED BY <4>2, <4>3, <4>4
    <3> QED BY <3>1, <3>2
  <2>4. Upto(n, h)
    <3> HIDE DEF h, body
    <3> QED BY <2>3
  <2> HIDE DEF Upto, h
  <2> QED BY <1>0, <2>4
<1>4. PICK g : Upto(Len(s), g)
  <2>1. \A n \in 0 .. Len(s) : n \in G
    <3> HIDE DEF G
    <3> QED BY <1>0, <1>2, <1>3, Upward
  <2> QED BY <1>0, <2>1
<1>5. \E f : f = body(f)
  <2> DEFINE f == [k \in D |-> g[k]]
  <2>1. \A k \in D : g[k] = body(g)[k]
    BY <1>0, <1>4
  <2>2. body(f) = body(g)
    <3>1. \A k \in D : k # 0 => f[k - 1] = g[k - 1]
      BY <1>0
    <3> HIDE DEF f
    <3> QED BY <3>1
  <2>3. f = body(g)
    <3> HIDE DEF f
    <3>1. f = [k \in D |-> g[k]]
      BY DEF f
    <3>2. body(g) = [k \in D |-> body(g)[k]]
      OBVIOUS
    <3> HIDE DEF body
    <3> QED BY <2>1, <3>1, <3>2
  <2> HIDE DEF f, body
  <2> QED BY <2>2, <2>3
<1>6. \A k \in D : fold[k] = IF k = 0 THEN << >>
                            ELSE IF k \in kept THEN Append(fold[k - 1], s[k]) ELSE fold[k - 1]
  <2> DEFINE f == fold
  <2>1. f = body(f)
    <3> HIDE DEF body
    <3> QED BY <1>5
  <2> HIDE DEF f
  <2>2. \A k \in D : f[k] = IF k = 0 THEN << >>
                            ELSE IF k \in kept THEN Append(f[k - 1], s[k]) ELSE f[k - 1]
    BY <2>1
  <2> QED BY <2>2 DEF f
<1> HIDE DEF fold
<1>7. 0 \in H
  <2>1. fold[0] = << >>
    BY <1>0, <1>6
  <2>2. fold[0] \in Seq(Prints) /\ Climbs(fold[0]) /\ Of(fold[0]) = {}
    BY <2>1 DEF Climbs, Of
  <2>3. kept \cap (1 .. 0) = {} /\ 0 \in D
    BY <1>0
  <2>4. {s[k] : k \in kept \cap (1 .. 0)} = {}
    BY <2>3
  <2> HIDE DEF D
  <2> QED BY <2>2, <2>3, <2>4
<1>8. \A n \in 1 .. Len(s) : n - 1 \in H => n \in H
  <2> SUFFICES ASSUME NEW n \in 1 .. Len(s), n - 1 \in H PROVE n \in H
    OBVIOUS
  <2>0. n \in Nat /\ n # 0 /\ n \in D /\ s[n] \in Prints
    BY <1>0
  <2> DEFINE p == fold[n - 1]
             x == s[n]
  <2>1. p \in Seq(Prints) /\ Climbs(p) /\ Of(p) = {s[k] : k \in kept \cap (1 .. n - 1)}
    OBVIOUS
  <2>2. CASE n \notin kept
    <3>1. fold[n] = p
      BY <1>6, <2>0, <2>2
    <3>2. kept \cap (1 .. n) = kept \cap (1 .. n - 1)
      BY <2>0, <2>2
    <3> HIDE DEF p
    <3> QED BY <2>0, <2>1, <3>1, <3>2
  <2>3. CASE n \in kept
    <3>1. fold[n] = Append(p, x)
      BY <1>6, <2>0, <2>3
    <3>2. kept \cap (1 .. n) = (kept \cap (1 .. n - 1)) \cup {n}
      BY <2>0, <2>3
    <3>3. {s[k] : k \in kept \cap (1 .. n)} = Of(p) \cup {x}
      BY <2>1, <3>2
    <3>4. \A y \in Of(p) : y < x
      <4> SUFFICES ASSUME NEW k \in kept \cap (1 .. n - 1) PROVE s[k] < x
        BY <2>1
      <4>1. k \in 1 .. Len(s) /\ n \in 1 .. Len(s) /\ k < n
        BY <1>0, <2>0
      <4> QED BY <4>1 DEF Climbs
    <3> HIDE DEF p, x
    <3>5. /\ Append(p, x) \in Seq(Prints) /\ Len(Append(p, x)) = Len(p) + 1 /\ Len(p) \in Nat
          /\ \A k \in 1 .. Len(p) : Append(p, x)[k] = p[k]
          /\ Append(p, x)[Len(p) + 1] = x
      BY <2>0, <2>1 DEF x
    <3> DEFINE q == Append(p, x)
    <3> HIDE DEF q
    <3>6. Of(q) = Of(p) \cup {x}
      <4>1. \A k \in 1 .. Len(p) + 1 : k \in 1 .. Len(p) \/ k = Len(p) + 1
        BY <3>5
      <4>2. \A k \in 1 .. Len(p) : k \in 1 .. Len(p) + 1
        BY <3>5
      <4>3. Len(p) + 1 \in 1 .. Len(p) + 1
        BY <3>5
      <4> QED BY <3>5, <4>1, <4>2, <4>3 DEF Of, q
    <3>7. Climbs(q)
      <4> SUFFICES ASSUME NEW k \in 1 .. Len(q), NEW m \in 1 .. Len(q), k < m PROVE q[k] < q[m]
        BY DEF Climbs
      <4>1. k \in 1 .. Len(p) /\ q[k] = p[k]
        BY <3>5 DEF q
      <4>2. CASE m \in 1 .. Len(p)
        BY <2>1, <3>5, <4>1, <4>2 DEF Climbs, q
      <4>3. CASE m = Len(p) + 1
        BY <3>4, <3>5, <4>1, <4>3 DEF Of, q
      <4> QED BY <3>5, <4>2, <4>3 DEF q
    <3> QED BY <2>0, <3>1, <3>3, <3>5, <3>6, <3>7 DEF q
  <2> QED BY <2>2, <2>3
<1>9. Len(s) \in H
  <2>1. \A n \in 0 .. Len(s) : n \in H
    <3> HIDE DEF H
    <3> QED BY <1>0, <1>7, <1>8, Upward
  <2> HIDE DEF H
  <2> QED BY <1>0, <2>1
<1> QED BY <1>1, <1>9

(* What a sequence that climbs the tape holds, at its ends and in between. *)
LEMMA EndsAre ==
  ASSUME NEW s \in Seq(Prints), Climbs(s), s # << >>
  PROVE  /\ Head(s) \in Of(s) /\ Final(s) \in Of(s) /\ Of(s) \subseteq Prints
         /\ \A i \in Of(s) : Head(s) <= i /\ i <= Final(s)
<1>1. Len(s) \in Nat /\ Len(s) >= 1 /\ Head(s) = s[1] /\ \A k \in 1 .. Len(s) : s[k] \in Prints
  OBVIOUS
<1>2. 1 \in 1 .. Len(s) /\ Len(s) \in 1 .. Len(s)
  BY <1>1
<1>3. Head(s) \in Of(s) /\ Final(s) \in Of(s) /\ Of(s) \subseteq Prints
  BY <1>1, <1>2 DEF Of, Final
<1>4. ASSUME NEW k \in 1 .. Len(s) PROVE s[1] <= s[k] /\ s[k] <= s[Len(s)]
  <2>1. s[1] \in Nat /\ s[k] \in Nat /\ s[Len(s)] \in Nat
    BY <1>1, <1>2, StampsRise
  <2>2. k # 1 => s[1] < s[k]
    BY <1>1, <1>2 DEF Climbs
  <2>3. k # Len(s) => s[k] < s[Len(s)]
    BY <1>1, <1>2 DEF Climbs
  <2> QED BY <2>1, <2>2, <2>3
<1> QED BY <1>1, <1>3, <1>4 DEF Of, Final

(* Two such sequences, the second wholly newer than the first. *)
LEMMA CatIs ==
  ASSUME NEW s \in Seq(Prints), NEW t \in Seq(Prints), Climbs(s), Climbs(t),
         \A i \in Of(s), j \in Of(t) : i < j
  PROVE  /\ s \o t \in Seq(Prints) /\ Climbs(s \o t) /\ Of(s \o t) = Of(s) \cup Of(t)
         /\ s # << >> => s \o t # << >> /\ Head(s \o t) = Head(s)
         /\ t # << >> => s \o t # << >> /\ Final(s \o t) = Final(t)
         /\ s = << >> => s \o t = t
         /\ t = << >> => s \o t = s
<1> DEFINE q == s \o t
<1>1. /\ Len(s) \in Nat /\ Len(t) \in Nat /\ q \in Seq(Prints) /\ Len(q) = Len(s) + Len(t)
      /\ \A k \in 1 .. Len(s) : q[k] = s[k]
      /\ \A k \in 1 .. Len(t) : q[Len(s) + k] = t[k]
  OBVIOUS
<1>2. \A k \in 1 .. Len(q) : k \in 1 .. Len(s) \/ (k - Len(s) \in 1 .. Len(t)
                                                  /\ Len(s) + (k - Len(s)) = k)
  BY <1>1
<1>3. \A k \in 1 .. Len(s) : k \in 1 .. Len(q)
  BY <1>1
<1>4. \A k \in 1 .. Len(t) : Len(s) + k \in 1 .. Len(q)
  BY <1>1
<1>A. s # << >> => q # << >> /\ Head(q) = Head(s)
  OBVIOUS
<1>B. t # << >> => q # << >> /\ q[Len(q)] = t[Len(t)]
  <2> SUFFICES ASSUME t # << >> PROVE q # << >> /\ q[Len(q)] = t[Len(t)]
    OBVIOUS
  <2>1. Len(t) \in 1 .. Len(t) /\ Len(q) # 0
    BY <1>1
  <2> QED BY <1>1, <2>1
<1>C. (s = << >> => q = t) /\ (t = << >> => q = s)
  OBVIOUS
<1> HIDE DEF q
<1>5. Of(q) = Of(s) \cup Of(t)
  <2>1. ASSUME NEW k \in 1 .. Len(q) PROVE q[k] \in Of(s) \cup Of(t)
    <3>1. CASE k \in 1 .. Len(s)
      BY <1>1, <3>1 DEF Of
    <3>2. CASE k - Len(s) \in 1 .. Len(t) /\ Len(s) + (k - Len(s)) = k
      <4>1. q[k] = t[k - Len(s)]
        BY <1>1, <3>2
      <4> QED BY <3>2, <4>1 DEF Of
    <3> QED BY <1>2, <3>1, <3>2
  <2>2. ASSUME NEW k \in 1 .. Len(s) PROVE s[k] \in Of(q)
    BY <1>1, <1>3 DEF Of
  <2>3. ASSUME NEW k \in 1 .. Len(t) PROVE t[k] \in Of(q)
    BY <1>1, <1>4 DEF Of
  <2> QED BY <2>1, <2>2, <2>3 DEF Of
<1>6. Climbs(q)
  <2> SUFFICES ASSUME NEW k \in 1 .. Len(q), NEW m \in 1 .. Len(q), k < m PROVE q[k] < q[m]
    BY DEF Climbs
  <2>1. CASE m \in 1 .. Len(s)
    <3>1. k \in 1 .. Len(s)
      BY <1>1, <2>1
    <3> QED BY <1>1, <2>1, <3>1 DEF Climbs
  <2>2. CASE m - Len(s) \in 1 .. Len(t) /\ Len(s) + (m - Len(s)) = m
    <3>1. q[m] = t[m - Len(s)]
      BY <1>1, <2>2
    <3>2. CASE k \in 1 .. Len(s)
      BY <1>1, <2>2, <3>1, <3>2 DEF Of
    <3>3. CASE k - Len(s) \in 1 .. Len(t) /\ Len(s) + (k - Len(s)) = k
      <4>1. q[k] = t[k - Len(s)] /\ k - Len(s) < m - Len(s)
        BY <1>1, <3>3
      <4> QED BY <2>2, <3>1, <3>3, <4>1 DEF Climbs
    <3> QED BY <1>2, <3>2, <3>3
  <2> QED BY <1>2, <2>1, <2>2
<1> QED BY <1>1, <1>A, <1>B, <1>C, <1>5, <1>6 DEF q, Final

(* The prints of S with one stamp. *)
Group(S, ms) == {i \in S : Ms[i] = ms}

(* Any set of places is finite. *)
LEMMA PlacesFinite ==
  ASSUME NEW S, S \subseteq Prints
  PROVE IsFiniteSet(S) /\ Cardinality(S) \in Nat
<1>1. IsFiniteSet(Prints)
  BY StampsRise, FS_Interval
<1> QED BY <1>1, FS_Subset, FS_CardinalityType

(* A count of prints is a count of places. *)
LEMMA AtIs ==
  ASSUME NEW s \in Seq(Prints), Climbs(s), NEW ms
  PROVE  At(s, ms) = Cardinality(Group(Of(s), ms)) /\ At(s, ms) \in Nat
<1> DEFINE P == {k \in DOMAIN s : Ms[s[k]] = ms}
           T == Group(Of(s), ms)
           f == [k \in P |-> s[k]]
<1>0. /\ Len(s) \in Nat /\ DOMAIN s = 1 .. Len(s)
      /\ \A k \in 1 .. Len(s) : s[k] \in Prints /\ s[k] \in Nat
  BY StampsRise
<1>1. P \subseteq 1 .. Len(s) /\ IsFiniteSet(1 .. Len(s))
  BY <1>0, FS_Interval
<1>2. IsFiniteSet(P) /\ Cardinality(P) \in Nat
  BY <1>1, FS_Subset, FS_CardinalityType
<1>3. f \in Bijection(P, T)
  <2>1. f \in [P -> T]
    BY <1>0 DEF Of, Group
  <2>2. \A k, m \in P : f[k] = f[m] => k = m
    <3> SUFFICES ASSUME NEW k \in P, NEW m \in P, k # m PROVE s[k] # s[m]
      OBVIOUS
    <3>1. k < m \/ m < k
      BY <1>0
    <3> QED BY <1>0, <3>1 DEF Climbs
  <2>3. \A y \in T : \E k \in P : f[k] = y
    BY <1>0 DEF Of, Group
  <2> HIDE DEF P, T, f
  <2> QED BY <2>1, <2>2, <2>3 DEF Bijection, Injection, Surjection, IsInjective
<1>4. Cardinality(T) = Cardinality(P)
  <2> HIDE DEF P, T, f
  <2> QED BY <1>2, <1>3, FS_Bijection DEF ExistsBijection
<1> QED BY <1>2, <1>4 DEF At

(* Counts of two sequences, the second wholly newer, add up. *)
LEMMA AtCat ==
  ASSUME NEW s \in Seq(Prints), NEW t \in Seq(Prints), Climbs(s), Climbs(t),
         \A i \in Of(s), j \in Of(t) : i < j, NEW ms
  PROVE  At(s \o t, ms) = At(s, ms) + At(t, ms)
<1> DEFINE A == Group(Of(s), ms)
           C == Group(Of(t), ms)
<1>1. s \o t \in Seq(Prints) /\ Climbs(s \o t) /\ Of(s \o t) = Of(s) \cup Of(t)
  BY CatIs
<1>2. At(s \o t, ms) = Cardinality(Group(Of(s) \cup Of(t), ms))
  BY <1>1, AtIs
<1>3. Group(Of(s) \cup Of(t), ms) = A \cup C
  BY DEF Group
<1>4. A \subseteq Prints /\ C \subseteq Prints
  BY DEF Group, Of
<1>5. A \cap C = {}
  <2> SUFFICES ASSUME NEW i \in Of(s), i \in Of(t) PROVE FALSE
    BY DEF Group
  <2>1. i \in Nat
    BY StampsRise DEF Of
  <2> QED BY <2>1
<1>6. At(s, ms) = Cardinality(A) /\ At(t, ms) = Cardinality(C)
  BY AtIs
<1> HIDE DEF A, C
<1>7. Cardinality(A \cup C) = Cardinality(A) + Cardinality(C) - Cardinality(A \cap C)
  BY <1>4, PlacesFinite, FS_Union
<1>8. Cardinality(A \cap C) = 0
  BY <1>5, FS_EmptySet
<1>9. Cardinality(A) \in Nat /\ Cardinality(C) \in Nat
  BY <1>4, PlacesFinite
<1>10. At(s \o t, ms) = Cardinality(A \cup C)
  BY <1>2, <1>3
<1> QED BY <1>6, <1>7, <1>8, <1>9, <1>10

(* The start of such a sequence, up to one of its prints. *)
LEMMA UpToIs ==
  ASSUME NEW s \in Seq(Prints), Climbs(s), NEW k \in 1 .. Len(s)
  PROVE  LET p == SubSeq(s, 1, k) IN
         /\ p \in Seq(Prints) /\ Climbs(p) /\ Of(p) = {i \in Of(s) : i <= s[k]}
<1> DEFINE p == SubSeq(s, 1, k)
<1>0. Len(s) \in Nat /\ k \in Nat /\ k <= Len(s) /\ \A m \in 1 .. Len(s) : s[m] \in Nat
  BY StampsRise
<1>1. p \in Seq(Prints) /\ Len(p) = k /\ \A m \in 1 .. k : p[m] = s[m]
  BY <1>0
<1> HIDE DEF p
<1>2. Climbs(p)
  BY <1>0, <1>1 DEF Climbs
<1>3. ASSUME NEW m \in 1 .. Len(s) PROVE s[m] <= s[k] <=> m \in 1 .. k
  <2>1. m < k => s[m] < s[k]
    BY DEF Climbs
  <2>2. k < m => s[k] < s[m]
    BY DEF Climbs
  <2>3. m = k => s[m] = s[k]
    OBVIOUS
  <2> QED BY <1>0, <2>1, <2>2, <2>3
<1>4. Of(p) = {i \in Of(s) : i <= s[k]}
  <2>1. Of(p) = {s[m] : m \in 1 .. k}
    BY <1>1 DEF Of
  <2>2. {i \in Of(s) : i <= s[k]} = {s[m] : m \in 1 .. k}
    <3>1. ASSUME NEW m \in 1 .. k PROVE s[m] \in Of(s) /\ s[m] <= s[k]
      <4>1. m \in 1 .. Len(s)
        BY <1>0
      <4> QED BY <1>3, <4>1 DEF Of
    <3>2. ASSUME NEW m \in 1 .. Len(s), s[m] <= s[k] PROVE m \in 1 .. k
      BY <1>3, <3>2
    <3> QED BY <3>1, <3>2 DEF Of
  <2> QED BY <2>1, <2>2
<1> QED BY <1>1, <1>2, <1>4 DEF p

(* What a filter on stamps keeps of a tidy stretch is tidy. *)
LEMMA BeforeIs ==
  ASSUME NEW s, Tidy(s), NEW ms
  PROVE  Tidy(Before(s, ms)) /\ Of(Before(s, ms)) = {i \in Of(s) : Ms[i] < ms}
<1> DEFINE K == {k \in DOMAIN s : Ms[s[k]] < ms}
           b == Before(s, ms)
<1>1. s \in Seq(Prints) /\ Climbs(s) /\ Whole(Of(s)) /\ DOMAIN s = 1 .. Len(s)
  BY DEF Tidy
<1>2. b = Retained(s, K)
  BY DEF Before
<1>3. b \in Seq(Prints) /\ Climbs(b) /\ Of(b) = {s[k] : k \in K \cap (1 .. Len(s))}
  <2> HIDE DEF K, b
  <2> QED BY <1>1, <1>2, RetainedIs
<1>4. {s[k] : k \in K \cap (1 .. Len(s))} = {i \in Of(s) : Ms[i] < ms}
  BY <1>1 DEF Of
<1>5. Of(b) = {i \in Of(s) : Ms[i] < ms}
  BY <1>3, <1>4
<1> HIDE DEF b
<1>6. Whole(Of(b))
  BY <1>1, <1>5 DEF Whole
<1> QED BY <1>3, <1>5, <1>6 DEF Tidy, b

(* past_seam: what is kept is newer than the whole chart, and what is       *)
(* dropped the chart holds, or is older than its last millisecond.  At that *)
(* millisecond the chart and the block hold the same prints from its first  *)
(* one on, so that their count tells them apart.                            *)
LEMMA PastSeamIs ==
  ASSUME NEW c \in Seq(Prints), Climbs(c), Whole(Of(c)), c # << >>,
         NEW hand, Tidy(hand),
         NEW seam, seam.last = Ms[Final(c)], seam.held = At(c, seam.last)
  PROVE  LET kept == PrintsPastSeam(hand, seam) IN
         /\ kept \in Seq(Prints) /\ Climbs(kept) /\ Of(kept) \subseteq Of(hand)
         /\ \A i \in Of(kept), m \in Of(c) : m < i
         /\ \A d \in Of(hand) \ Of(kept) : d \in Of(c) \/ Ms[d] < seam.last
<1> DEFINE last == seam.last
           K == PastSeam(hand, seam)
           kept == PrintsPastSeam(hand, seam)
           F == Final(c)
           Until(k) == Group({x \in Of(hand) : x <= hand[k]}, last)
           Mine == Group(Of(c), last)
<1>1. /\ hand \in Seq(Prints) /\ Climbs(hand) /\ Whole(Of(hand)) /\ DOMAIN hand = 1 .. Len(hand)
      /\ \A k \in 1 .. Len(hand) : hand[k] \in Prints /\ hand[k] \in Of(hand)
  BY DEF Tidy, Of
<1>2. F \in Of(c) /\ F \in Prints /\ Of(c) \subseteq Prints /\ \A m \in Of(c) : m <= F
  BY EndsAre
<1>3. last = Ms[F] /\ last \in Nat /\ seam.held = Cardinality(Mine)
  BY <1>2, AtIs, StampsRise
<1>4. \A k \in 1 .. Len(hand) : At(SubSeq(hand, 1, k), last) = Cardinality(Until(k))
  BY <1>1, UpToIs, AtIs
<1>5. /\ K \subseteq 1 .. Len(hand)
      /\ \A k \in 1 .. Len(hand) :
           k \in K <=> \/ Ms[hand[k]] > last
                       \/ Ms[hand[k]] = last /\ Cardinality(Until(k)) > Cardinality(Mine)
  <2> HIDE DEF Until, Mine
  <2> QED BY <1>1, <1>3, <1>4 DEF PastSeam
<1>6. kept \in Seq(Prints) /\ Climbs(kept) /\ Of(kept) = {hand[k] : k \in K}
  <2> HIDE DEF K
  <2>1. K \cap (1 .. Len(hand)) = K
    BY <1>5
  <2> QED BY <1>1, <2>1, RetainedIs DEF PrintsPastSeam, K
<1> HIDE DEF K, kept, F, last
<1>7. ASSUME NEW k \in K, NEW m \in Of(c) PROVE m < hand[k]
  <2>0. k \in 1 .. Len(hand) /\ hand[k] \in Prints /\ hand[k] \in Nat /\ m \in Nat /\ F \in Nat
        /\ m <= F /\ m \in Prints
    BY <1>1, <1>2, <1>5, StampsRise
  <2>1. CASE Ms[hand[k]] > last
    <3>1. F < hand[k]
      BY <1>2, <1>3, <2>0, <2>1, EarlierStamp, StampsRise
    <3> QED BY <2>0, <3>1
  <2>2. CASE Ms[hand[k]] = last /\ Cardinality(Until(k)) > Cardinality(Mine)
    <3> SUFFICES ASSUME hand[k] <= F PROVE FALSE
      BY <2>0
    <3>1. Until(k) \subseteq Mine
      <4> SUFFICES ASSUME NEW x \in Of(hand), x <= hand[k], Ms[x] = last PROVE x \in Of(c)
        BY DEF Group
      <4>1. x \in Prints /\ x \in Nat
        BY <1>1, StampsRise DEF Of
      <4>2. x = F \/ x < F
        BY <2>0, <4>1
      <4> QED BY <1>2, <1>3, <4>1, <4>2 DEF Whole
    <3>2. Mine \subseteq Prints /\ Until(k) \subseteq Prints
      BY <1>2, <3>1 DEF Group
    <3>3. Cardinality(Until(k)) <= Cardinality(Mine)
      <4> HIDE DEF Until, Mine
      <4> QED BY <3>1, <3>2, PlacesFinite, FS_Subset
    <3>4. Cardinality(Until(k)) \in Nat /\ Cardinality(Mine) \in Nat
      <4> HIDE DEF Until, Mine
      <4> QED BY <3>2, PlacesFinite
    <3> QED BY <2>2, <3>3, <3>4
  <2> QED BY <1>5, <2>0, <2>1, <2>2
<1>8. ASSUME NEW k \in 1 .. Len(hand), k \notin K, ~(Ms[hand[k]] < last) PROVE hand[k] \in Of(c)
  <2> DEFINE i == hand[k]
  <2>0. i \in Prints /\ i \in Of(hand) /\ i \in Nat /\ Ms[i] \in Nat
    BY <1>1, StampsRise
  <2>1. Ms[i] = last /\ ~(Cardinality(Until(k)) > Cardinality(Mine))
    <3>1. ~(Ms[i] > last)
      BY <1>5, <1>8
    <3>2. Ms[i] = last
      BY <1>3, <1>8, <2>0, <3>1
    <3> QED BY <1>5, <1>8, <3>2
  <2> SUFFICES ASSUME i \notin Of(c) PROVE FALSE
    OBVIOUS
  <2>2. Mine \cup {i} \subseteq Until(k)
    <3>1. i \in Until(k)
      BY <2>0, <2>1 DEF Group
    <3>2. ASSUME NEW x \in Of(c), Ms[x] = last PROVE x \in Of(hand) /\ x <= i
      <4>1. x \in Prints /\ x \in Nat
        BY <1>2, StampsRise
      <4>2. ~(i < x)
        BY <2>0, <2>1, <3>2, <4>1 DEF Whole
      <4>3. x # i
        OBVIOUS
      <4>4. x < i
        BY <2>0, <4>1, <4>2, <4>3
      <4>5. x \in Of(hand)
        BY <1>1, <2>0, <2>1, <3>2, <4>1, <4>4 DEF Whole
      <4> QED BY <2>0, <4>1, <4>4, <4>5
    <3> QED BY <3>1, <3>2 DEF Group
  <2>3. Mine \subseteq Prints /\ Until(k) \subseteq Prints /\ i \notin Mine
    BY <1>1, <1>2 DEF Group, Of
  <2> HIDE DEF Until, Mine, i
  <2>4. Cardinality(Mine \cup {i}) = Cardinality(Mine) + 1
    BY <2>3, PlacesFinite, FS_AddElement
  <2>5. Cardinality(Mine \cup {i}) <= Cardinality(Until(k))
    BY <2>2, <2>3, PlacesFinite, FS_Subset
  <2>6. Cardinality(Mine) \in Nat /\ Cardinality(Until(k)) \in Nat
    BY <2>3, PlacesFinite
  <2> QED BY <2>1, <2>4, <2>5, <2>6
<1>9. Of(kept) \subseteq Of(hand)
  BY <1>1, <1>5, <1>6
<1>10. \A i \in Of(kept), m \in Of(c) : m < i
  BY <1>6, <1>7
<1>11. ASSUME NEW d \in Of(hand) \ Of(kept) PROVE d \in Of(c) \/ Ms[d] < last
  <2>1. PICK k \in 1 .. Len(hand) : d = hand[k]
    BY DEF Of
  <2>2. k \notin K
    BY <1>6, <2>1
  <2> QED BY <1>8, <2>1, <2>2
<1> QED BY <1>6, <1>9, <1>10, <1>11 DEF kept, last


-----------------------------------------------------------------------------
(* The ledger and the chart. *)

(* What Earlier and Later choose between. *)
LEMMA EarlierIs ==
  ASSUME NEW a \in StampOrNone, NEW b \in StampOrNone
  PROVE  /\ Earlier(a, b) \in StampOrNone
         /\ a = None => Earlier(a, b) = b
         /\ b = None => Earlier(a, b) = a
         /\ a # None /\ b # None => /\ a <= b => Earlier(a, b) = a
                                    /\ b <= a => Earlier(a, b) = b
                                    /\ Earlier(a, b) \in Stamps
<1>1. Stamps \subseteq Nat \ {None} /\ None = 0
  BY StampsRise DEF Stamps, None
<1> QED BY <1>1 DEF Earlier, StampOrNone

(* A sequence without prints of a stamp counts none. *)
LEMMA NoneAt ==
  ASSUME NEW s \in Seq(Prints), Climbs(s), NEW ms, \A i \in Of(s) : Ms[i] # ms
  PROVE  At(s, ms) = 0
<1>1. Group(Of(s), ms) = {}
  BY DEF Group
<1> QED BY <1>1, AtIs, FS_EmptySet

(* TapeLedger::forward keeps the ledger true of the chart it forwards to.   *)
LEMMA ForwardedIs ==
  ASSUME NEW t \in Tapes, NEW c, NEW d, NEW s \in Seq(Prints), c.prints \in Seq(Prints),
         Ledger(t, c), Climbs(s), \A i \in Of(c.prints), j \in Of(s) : i < j,
         Whole(Of(c.prints) \cup Of(s)), d.prints = c.prints \o s
  PROVE  /\ Forwarded(t, s) \in Tapes /\ Ledger(Forwarded(t, s), d)
         /\ Forwarded(t, s).any <=> t.any \/ s # << >>
<1> DEFINE q == c.prints
<1>1. CASE s = << >>
  <2>1. Forwarded(t, s) = t /\ d.prints = c.prints
    BY <1>1 DEF Forwarded
  <2> QED BY <1>1, <2>1 DEF Ledger
<1>2. CASE s # << >>
  <2> DEFINE F == Final(s)
             H == Head(s)
             last == Later(t.last, Ms[F])
             count == At(s, last) + (IF last = t.last THEN t.atLast ELSE 0)
             oldest == Earlier(t.oldest, Ms[H])
             low == Earlier(t.floor, oldest)
             u == Forwarded(t, s)
  <2>1. u = [t EXCEPT !.any = TRUE, !.gap = None, !.last = last, !.atLast = count,
                      !.oldest = oldest, !.floor = low]
    BY <1>2 DEF Forwarded
  <2>2. /\ t.any \in BOOLEAN /\ t.last \in StampOrNone /\ t.atLast \in Nat
        /\ t.oldest \in StampOrNone /\ t.floor \in StampOrNone
    BY DEF Tapes
  <2>3. /\ F \in Prints /\ H \in Prints /\ H \in Of(s) /\ F \in Of(s)
        /\ Ms[F] \in Stamps /\ Ms[H] \in Stamps
        /\ Ms[F] \in Nat /\ Ms[F] # None
    BY <1>2, EndsAre, StampsRise
  <2>4. /\ d.prints \in Seq(Prints) /\ Climbs(d.prints) /\ Of(d.prints) = Of(q) \cup Of(s)
        /\ d.prints # << >> /\ Final(d.prints) = F
        /\ q # << >> => Head(d.prints) = Head(q)
        /\ q = << >> => Head(d.prints) = H
    BY <1>2, CatIs DEF Ledger
  <2>5. Climbs(q) /\ (t.any <=> q # << >>)
    BY DEF Ledger
  <2>6. ASSUME t.any
        PROVE  /\ last = Ms[F] /\ oldest = Ms[Head(q)]
               /\ \A i \in Of(q) : Ms[i] <= t.last
               /\ t.last = Ms[Final(q)] /\ t.atLast = At(q, t.last) /\ t.oldest = Ms[Head(q)]
    <3>0. /\ q # << >> /\ t.last = Ms[Final(q)] /\ t.oldest = Ms[Head(q)]
          /\ t.atLast = At(q, t.last)
      BY <2>6 DEF Ledger
    <3>1. /\ Head(q) \in Of(q) /\ Final(q) \in Of(q) /\ Of(q) \subseteq Prints
          /\ \A i \in Of(q) : i <= Final(q)
      BY <2>5, <3>0, EndsAre
    <3>2. Final(q) < F /\ Head(q) < H /\ Final(q) \in Prints /\ Head(q) \in Prints
      BY <2>3, <3>1
    <3>3. Ms[Final(q)] <= Ms[F] /\ Ms[Head(q)] <= Ms[H] /\ Ms[Final(q)] \in Nat
          /\ Final(q) \in Nat /\ F \in Nat /\ Head(q) \in Nat /\ H \in Nat
      <4>1. Final(q) \in Nat /\ F \in Nat /\ Head(q) \in Nat /\ H \in Nat
        BY <2>3, <3>2, StampsRise
      <4>2. Ms[Final(q)] <= Ms[F]
        BY <2>3, <3>2, <4>1, StampsRise
      <4>3. Ms[Head(q)] <= Ms[H]
        BY <2>3, <3>2, <4>1, StampsRise
      <4>4. Ms[Final(q)] \in Nat
        BY <3>2, StampsRise
      <4> QED BY <4>1, <4>2, <4>3, <4>4
    <3>4. last = Ms[F]
      BY <2>3, <3>0, <3>3 DEF Later
    <3>5. oldest = Ms[Head(q)]
      <4>1. Ms[Head(q)] \in Stamps /\ Ms[Head(q)] # None /\ Ms[H] # None
        BY <2>3, <3>2, StampsRise
      <4>2. Ms[Head(q)] \in StampOrNone /\ Ms[H] \in StampOrNone
        BY <2>3, <4>1 DEF StampOrNone
      <4> QED BY <3>0, <3>3, <4>1, <4>2, EarlierIs
    <3>6. ASSUME NEW i \in Of(q) PROVE Ms[i] <= t.last
      <4>1. i \in Prints /\ i <= Final(q)
        BY <3>1, <3>6
      <4> QED BY <3>0, <3>1, <4>1, StampsRise
    <3> QED BY <3>0, <3>4, <3>5, <3>6
  <2>7. ASSUME ~t.any
        PROVE  last = Ms[F] /\ oldest = Ms[H] /\ q = << >> /\ t.last = None /\ t.atLast = 0
    <3>1. t.last = None /\ t.oldest = None /\ t.atLast = 0 /\ q = << >>
      BY <2>5, <2>7 DEF Ledger
    <3>2. last = Ms[F]
      BY <2>3, <3>1 DEF Later, None
    <3>3. oldest = Ms[H]
      BY <3>1 DEF Earlier
    <3> QED BY <3>1, <3>2, <3>3
  <2>8. At(d.prints, last) = At(q, last) + At(s, last) /\ At(q, last) \in Nat
        /\ At(s, last) \in Nat
    <3> HIDE DEF last
    <3> QED BY <2>5, AtCat, AtIs
  <2>9. count = At(d.prints, last)
    <3>1. CASE t.any /\ last = t.last
      <4>1. t.atLast = At(q, last)
        BY <2>6, <3>1
      <4> HIDE DEF last
      <4> QED BY <2>8, <3>1, <4>1
    <3>2. CASE t.any /\ last # t.last
      <4>1. \A i \in Of(q) : Ms[i] # last
        <5>1. last = Ms[F] /\ t.last = Ms[Final(q)] /\ \A i \in Of(q) : Ms[i] <= t.last
          BY <2>6, <3>2
        <5>2. t.last < last
          <6>1. Final(q) \in Of(q) /\ Of(q) \subseteq Prints
            BY <2>5, <3>2, EndsAre
          <6>2. Final(q) < F /\ Final(q) \in Prints
            BY <2>3, <6>1
          <6>3. Ms[Final(q)] <= Ms[F] /\ Ms[Final(q)] \in Nat
            <7>1. Final(q) \in Nat /\ F \in Nat
              BY <2>3, <6>2, StampsRise
            <7> QED BY <2>3, <6>2, <7>1, StampsRise
          <6> QED BY <2>3, <3>2, <5>1, <6>3
        <5>3. \A i \in Of(q) : Ms[i] \in Nat
          BY StampsRise DEF Of
        <5>4. t.last \in Nat /\ last \in Nat
          BY <2>3, <2>5, <3>2, <5>1, EndsAre, StampsRise
        <5> QED BY <5>1, <5>2, <5>3, <5>4
      <4>2. At(q, last) = 0
        <5> HIDE DEF last
        <5> QED BY <2>5, <4>1, NoneAt
      <4> HIDE DEF last
      <4> QED BY <2>8, <3>2, <4>2
    <3>3. CASE ~t.any
      <4>1. last # t.last /\ q = << >>
        BY <2>3, <2>7, <3>3
      <4>2. At(q, last) = 0
        <5>1. Of(q) = {}
          BY <4>1 DEF Of
        <5> HIDE DEF last
        <5> QED BY <2>5, <5>1, NoneAt
      <4> HIDE DEF last
      <4> QED BY <2>8, <4>1, <4>2
    <3> QED BY <2>2, <3>1, <3>2, <3>3
  <2>10. last = Ms[F] /\ last \in StampOrNone /\ count \in Nat /\ oldest \in StampOrNone
         /\ low \in StampOrNone /\ oldest = Ms[Head(d.prints)]
    <3>1. last = Ms[F] /\ last \in StampOrNone
      BY <2>2, <2>3, <2>6, <2>7 DEF StampOrNone
    <3>2. oldest = Ms[Head(d.prints)]
      BY <2>2, <2>4, <2>5, <2>6, <2>7
    <3>3. oldest \in StampOrNone /\ low \in StampOrNone
      <4>1. Ms[H] \in StampOrNone
        BY <2>3 DEF StampOrNone
      <4> QED BY <2>2, <4>1, EarlierIs
    <3>4. count \in Nat
      <4> HIDE DEF last, count
      <4>1. count = At(q, last) + At(s, last)
        BY <2>8, <2>9
      <4> QED BY <2>8, <4>1
    <3> QED BY <3>1, <3>2, <3>3, <3>4
  <2> HIDE DEF last, count, oldest, low
  <2>11. u \in Tapes
    <3>1. None \in StampOrNone
      BY DEF StampOrNone
    <3> QED BY <2>1, <2>10, <3>1 DEF Tapes
  <2>12. u.any = TRUE /\ u.last = last /\ u.atLast = count /\ u.oldest = oldest
    BY <2>1 DEF Tapes
  <2> HIDE DEF u
  <2>13. Ledger(u, d)
    BY <2>4, <2>9, <2>10, <2>12 DEF Ledger
  <2> QED BY <1>2, <2>11, <2>12, <2>13 DEF u
<1> QED BY <1>1, <1>2

-----------------------------------------------------------------------------
(* What the feed's handlers do to what it holds.  S was held, with what the *)
(* event brought, and S2 is now: nothing newer than S, and what was dropped *)
(* is in an earlier millisecond than something still held.                  *)
Carries(S, S2) ==
  /\ \A k \in S2 : \E m \in S : k <= m
  /\ \A d \in S \ S2 : \E m \in S2 : Ms[d] < Ms[m]

(* Holding the same carries it. *)
LEMMA CarriesSame ==
  ASSUME NEW S, S \subseteq Prints
  PROVE  Carries(S, S)
BY StampsRise DEF Carries

(* One step after another. *)
LEMMA CarriesOn ==
  ASSUME NEW S, NEW S1, NEW S2, S \subseteq Prints, S1 \subseteq Prints, S2 \subseteq Prints,
         Carries(S, S1), Carries(S1, S2)
  PROVE  Carries(S, S2)
<1>1. ASSUME NEW k \in S2 PROVE \E m \in S : k <= m
  <2>1. PICK m \in S1 : k <= m
    BY DEF Carries
  <2>2. PICK n \in S : m <= n
    BY DEF Carries
  <2>3. k \in Nat /\ m \in Nat /\ n \in Nat
    BY StampsRise
  <2> QED BY <2>1, <2>2, <2>3
<1>2. ASSUME NEW d \in S \ S2 PROVE \E m \in S2 : Ms[d] < Ms[m]
  <2>1. CASE d \in S1
    BY <2>1 DEF Carries
  <2>2. CASE d \notin S1
    <3>1. PICK m \in S1 : Ms[d] < Ms[m]
      BY <2>2 DEF Carries
    <3>2. CASE m \in S2
      BY <3>1, <3>2
    <3>3. CASE m \notin S2
      <4>1. PICK n \in S2 : Ms[m] < Ms[n]
        BY <3>3 DEF Carries
      <4>2. Ms[d] \in Nat /\ Ms[m] \in Nat /\ Ms[n] \in Nat
        BY StampsRise
      <4> QED BY <3>1, <4>1, <4>2
    <3> QED BY <3>2, <3>3
  <2> QED BY <2>1, <2>2
<1> QED BY <1>1, <1>2 DEF Carries

(* What a print follows it still follows. *)
LEMMA FollowsOn ==
  ASSUME NEW S, NEW S2, NEW A, S \subseteq Prints, S2 \subseteq Prints, A \subseteq Prints,
         NEW i \in Prints, Carries(S, S2), Follows(i, S \cup A)
  PROVE  Follows(i, S2 \cup A)
<1>1. ASSUME NEW k \in S2 \cup A PROVE k < i
  <2>1. CASE k \in A
    BY <2>1 DEF Follows
  <2>2. CASE k \in S2
    <3>1. PICK m \in S : k <= m
      BY <2>2 DEF Carries
    <3>2. m < i
      BY DEF Follows
    <3>3. k \in Nat /\ m \in Nat /\ i \in Nat
      BY <2>2, StampsRise
    <3> QED BY <3>1, <3>2, <3>3
  <2> QED BY <2>1, <2>2
<1>2. ASSUME NEW j \in Prints, j < i, Ms[j] = Ms[i], j \notin S2 \cup A PROVE FALSE
  <2>1. j \in S
    BY <1>2 DEF Follows
  <2>2. PICK m \in S2 : Ms[j] < Ms[m]
    BY <1>2, <2>1 DEF Carries
  <2>3. m < i
    BY <1>1
  <2>4. m \in Nat /\ i \in Nat /\ m \in Prints /\ Ms[m] \in Nat /\ Ms[i] \in Nat
    BY StampsRise
  <2>5. Ms[m] <= Ms[i]
    BY <2>3, <2>4, StampsRise
  <2> QED BY <1>2, <2>2, <2>4, <2>5
<1> QED BY <1>1, <1>2 DEF Follows

(* What is older than a bound stays older. *)
LEMMA CarriesBelow ==
  ASSUME NEW S, NEW S2, NEW A, S \subseteq Prints, S2 \subseteq Prints, Carries(S, S2),
         NEW top \in Int, \A k \in S \cup A : k <= top
  PROVE  \A k \in S2 \cup A : k <= top
<1>1. ASSUME NEW k \in S2 PROVE k <= top
  <2>1. PICK m \in S : k <= m
    BY DEF Carries
  <2>2. m <= top /\ k \in Nat /\ m \in Nat
    BY StampsRise
  <2> QED BY <2>1, <2>2
<1> QED BY <1>1

(* At the seam: the refill lets go of what the chart already held, and of   *)
(* nothing else that could come again; the rest follows the chart.          *)
LEMMA SeamHolds ==
  ASSUME NEW t \in Tapes, NEW c, c.prints \in Seq(Prints), Ledger(t, c), t.any,
         NEW hand, Tidy(hand), NEW held \in Seq(Prints), Climbs(held),
         \A h \in Of(held) : \A k \in Of(c.prints) \cup Of(hand) : k < h,
         Whole(Of(c.prints) \cup (Of(hand) \cup Of(held)))
  PROVE  LET s == PrintsPastSeam(hand, [last |-> t.last, held |-> t.atLast]) \o held
             C == Of(c.prints)
         IN  /\ s \in Seq(Prints) /\ Climbs(s) /\ Whole(C \cup Of(s))
             /\ \A i \in C, j \in Of(s) : i < j
             /\ Carries(C \cup (Of(hand) \cup Of(held)), C \cup Of(s))
<1> DEFINE seam == [last |-> t.last, held |-> t.atLast]
           kept == PrintsPastSeam(hand, seam)
           C == Of(c.prints)
           F == Final(c.prints)
           s == kept \o held
<1>1. /\ Climbs(c.prints) /\ Whole(C) /\ c.prints # << >>
      /\ t.last = Ms[F] /\ t.atLast = At(c.prints, t.last)
  BY DEF Ledger
<1>2. seam.last = Ms[F] /\ seam.held = At(c.prints, seam.last)
  BY <1>1
<1>3. /\ F \in C /\ C \subseteq Prints /\ \A m \in C : m <= F
      /\ Of(hand) \subseteq Prints /\ Of(held) \subseteq Prints
  <2>1. F \in C /\ C \subseteq Prints /\ \A m \in C : m <= F
    BY <1>1, EndsAre
  <2>2. Of(hand) \subseteq Prints /\ Of(held) \subseteq Prints
    BY DEF Tidy, Of
  <2> QED BY <2>1, <2>2
<1> HIDE DEF seam
<1>4. /\ kept \in Seq(Prints) /\ Climbs(kept) /\ Of(kept) \subseteq Of(hand)
      /\ \A i \in Of(kept), m \in C : m < i
      /\ \A d \in Of(hand) \ Of(kept) : d \in C \/ Ms[d] < seam.last
  BY <1>1, <1>2, PastSeamIs
<1> HIDE DEF kept, F
<1>5. s \in Seq(Prints) /\ Climbs(s) /\ Of(s) = Of(kept) \cup Of(held)
  <2>1. \A i \in Of(kept), j \in Of(held) : i < j
    BY <1>4
  <2> QED BY <1>4, <2>1, CatIs
<1> HIDE DEF s
<1>6. \A i \in C, j \in Of(s) : i < j
  BY <1>4, <1>5
<1>7. Whole(C \cup Of(s))
  <2> SUFFICES ASSUME NEW i \in C \cup Of(s), NEW j \in Prints, j < i, Ms[j] = Ms[i],
                      j \notin C \cup Of(s)
               PROVE FALSE
    BY DEF Whole
  <2>1. i \in C \cup (Of(hand) \cup Of(held))
    BY <1>4, <1>5
  <2>2. j \in C \cup (Of(hand) \cup Of(held))
    BY <2>1 DEF Whole
  <2>3. j \in Of(hand) \ Of(kept) /\ j \notin C
    BY <1>5, <2>2
  <2>4. Ms[j] < seam.last
    BY <1>4, <2>3
  <2>5. i \notin C
    BY <1>1, <2>3 DEF Whole
  <2>6. F < i /\ i \in Prints
    BY <1>3, <1>4, <1>5, <1>6, <2>5
  <2>7. F \in Prints /\ F \in Nat /\ i \in Nat /\ Ms[F] \in Nat /\ Ms[i] \in Nat
    BY <1>3, <2>6, StampsRise
  <2>8. Ms[F] <= Ms[i]
    BY <2>6, <2>7, StampsRise
  <2> QED BY <1>2, <2>4, <2>7, <2>8
<1>8. Carries(C \cup (Of(hand) \cup Of(held)), C \cup Of(s))
  <2>1. \A k \in C \cup Of(s) : k \in C \cup (Of(hand) \cup Of(held)) /\ k \in Nat
    BY <1>3, <1>4, <1>5, StampsRise
  <2>2. ASSUME NEW d \in (C \cup (Of(hand) \cup Of(held))) \ (C \cup Of(s))
        PROVE  Ms[d] < Ms[F] /\ F \in C
    BY <1>2, <1>3, <1>4, <1>5
  <2> QED BY <2>1, <2>2 DEF Carries
<1> QED BY <1>5, <1>6, <1>7, <1>8 DEF s, kept, seam

-----------------------------------------------------------------------------
(* The refill, and what it hands to the chart. *)

(* What the feed holds, with a refill and without one. *)
LEMMA HandIs ==
  ASSUME NEW t, NEW f, NEW c, Sound(t, f, c)
  PROVE  /\ InHand(c, f) \subseteq Prints /\ c.prints \in Seq(Prints)
         /\ InHand(c, NoFill) = Of(c.prints)
         /\ f # NoFill => f \in Fills
         /\ f \in Fills => /\ f # NoFill
                           /\ InHand(c, f) = Of(c.prints) \cup (Of(f.hand) \cup Of(f.held))
                           /\ f.hand \in Seq(Prints) /\ f.held \in Seq(Prints)
<1>1. c.prints \in Seq(Prints) /\ (f # NoFill => f \in Fills)
  BY DEF Sound, Charts
<1>2. ASSUME f \in Fills PROVE f # NoFill /\ f.hand \in Seq(Prints) /\ f.held \in Seq(Prints)
  <2>1. f.st = "filling" /\ f.hand \in Seq(Prints) /\ f.held \in Seq(Prints)
    BY <1>2 DEF Fills
  <2>2. NoFill.st # "filling"
    BY DEF NoFill
  <2> QED BY <2>1, <2>2
<1>3. InHand(c, NoFill) = Of(c.prints)
  BY DEF InHand
<1>4. f \in Fills => InHand(c, f) = Of(c.prints) \cup (Of(f.hand) \cup Of(f.held))
  BY <1>2 DEF InHand
<1>5. InHand(c, f) \subseteq Prints
  <2>1. Of(c.prints) \subseteq Prints
    BY <1>1 DEF Of
  <2>2. f \in Fills => Of(f.hand) \subseteq Prints /\ Of(f.held) \subseteq Prints
    BY <1>2 DEF Of
  <2> QED BY <1>1, <1>3, <1>4, <2>1, <2>2
<1> QED BY <1>1, <1>2, <1>3, <1>4, <1>5

(* What the ledger says of pages and gaps, and the chart of its marks and   *)
(* loads, is no part of the order.                                          *)
LEMMA SoundAgain ==
  ASSUME NEW t, NEW f, NEW c, Sound(t, f, c), NEW u \in Tapes, NEW d \in Charts,
         u.any = t.any, u.last = t.last, u.atLast = t.atLast, u.oldest = t.oldest,
         u.floor = t.floor, d.prints = c.prints
  PROVE  Sound(u, f, d) /\ InHand(d, f) = InHand(c, f)
<1>1. InHand(d, f) = InHand(c, f)
  BY DEF InHand
<1>2. Ledger(u, d)
  BY DEF Sound, Ledger
<1>3. Refilling(f, u, d)
  BY <1>1 DEF Sound, Refilling
<1> QED BY <1>1, <1>2, <1>3 DEF Sound

(* Nor is what a refill says of its pages. *)
LEMMA FillAgain ==
  ASSUME NEW t, NEW f \in Fills, NEW c, Sound(t, f, c), NEW g \in Fills,
         g.seam = f.seam, g.hand = f.hand, g.held = f.held
  PROVE  Sound(t, g, c) /\ InHand(c, g) = InHand(c, f)
<1>1. f # NoFill /\ g # NoFill
  <2>1. f.st = "filling" /\ g.st = "filling" /\ NoFill.st # "filling"
    BY DEF Fills, NoFill
  <2> QED BY <2>1
<1>2. InHand(c, g) = InHand(c, f)
  BY <1>1 DEF InHand
<1> QED BY <1>1, <1>2 DEF Sound, Refilling

(* finish: what the refill collected goes behind the chart. *)
LEMMA ReleasedIs ==
  ASSUME NEW t, NEW f \in Fills, NEW c, Sound(t, f, c)
  PROVE  LET u == Forwarded(t, Releases(f))
             d == ChartWith(c, f)
         IN  /\ Sound(u, NoFill, d) /\ u.any
             /\ Carries(InHand(c, f), InHand(d, NoFill))
<1> DEFINE s == Releases(f)
           u == Forwarded(t, s)
           d == ChartWith(c, f)
           C == Of(c.prints)
<1>1. /\ f # NoFill /\ InHand(c, f) = C \cup (Of(f.hand) \cup Of(f.held))
      /\ f.hand \in Seq(Prints) /\ f.held \in Seq(Prints) /\ c.prints \in Seq(Prints)
  BY HandIs
<1>2. /\ t \in Tapes /\ c \in Charts /\ Ledger(t, c) /\ t.any
      /\ f.seam = [last |-> t.last, held |-> t.atLast]
      /\ f.hand # << >> /\ Tidy(f.hand) /\ Climbs(f.held)
      /\ \A h \in Of(f.held) : \A k \in C \cup Of(f.hand) : k < h
      /\ Whole(C \cup (Of(f.hand) \cup Of(f.held)))
  BY <1>1 DEF Sound, Refilling
<1>3. /\ s \in Seq(Prints) /\ Climbs(s) /\ Whole(C \cup Of(s))
      /\ \A i \in C, j \in Of(s) : i < j
      /\ Carries(C \cup (Of(f.hand) \cup Of(f.held)), C \cup Of(s))
  BY <1>1, <1>2, SeamHolds DEF Releases
<1> HIDE DEF s
<1>4. d = [prints |-> c.prints \o s, gaps |-> c.gaps \cup Unfilled(f), loads |-> c.loads]
  <2>1. c = [prints |-> c.prints, gaps |-> c.gaps, loads |-> c.loads]
    BY <1>2 DEF Charts
  <2>2. d = [c EXCEPT !.gaps = @ \cup Unfilled(f), !.prints = @ \o s]
    BY DEF ChartWith, s
  <2> HIDE DEF d
  <2> QED BY <2>1, <2>2
<1> HIDE DEF d
<1>5. Climbs(c.prints)
  BY <1>2 DEF Ledger
<1>6. d.prints = c.prints \o s /\ d.prints \in Seq(Prints) /\ Of(d.prints) = C \cup Of(s)
  <2>1. c.prints \o s \in Seq(Prints) /\ Of(c.prints \o s) = C \cup Of(s)
    BY <1>1, <1>3, <1>5, CatIs
  <2> QED BY <1>4, <2>1
<1>7. d \in Charts
  <2>1. Unfilled(f) \subseteq [from : Stamps, to : Stamps]
    <3>1. Head(f.hand) \in Prints
      BY <1>1, <1>2
    <3>2. f.seam.last \in Stamps /\ Ms[Head(f.hand)] \in Stamps
      BY <3>1, StampsRise DEF Fills
    <3> QED BY <3>2 DEF Unfilled
  <2> QED BY <1>2, <1>4, <1>6, <2>1 DEF Charts
<1>8. u \in Tapes /\ Ledger(u, d) /\ (u.any <=> t.any \/ s # << >>)
  BY <1>1, <1>2, <1>3, <1>6, ForwardedIs
<1> HIDE DEF u
<1>9. Refilling(NoFill, u, d)
  BY DEF Refilling
<1>10. InHand(d, NoFill) = C \cup Of(s)
  BY <1>6 DEF InHand
<1> QED BY <1>1, <1>2, <1>3, <1>7, <1>8, <1>9, <1>10 DEF Sound, d, u, s

(* A set that lacks nothing of its milliseconds, with another. *)
LEMMA WholeTogether ==
  ASSUME NEW S, NEW T, Whole(S), Whole(T)
  PROVE  Whole(S \cup T)
BY DEF Whole

(* absorb: the hand grows at its older end by whole milliseconds. *)
LEMMA AbsorbIs ==
  ASSUME NEW t, NEW f \in Fills, NEW c, Sound(t, f, c), NEW p, Tidy(p)
  PROVE  LET g == Absorb(f, p) IN
         g \in Fills /\ Sound(t, g, c) /\ Carries(InHand(c, f), InHand(c, g))
<1> DEFINE H == Head(f.hand)
           older == Before(p, Ms[H])
           g == Absorb(f, p)
<1>1. /\ f # NoFill /\ InHand(c, f) = Of(c.prints) \cup (Of(f.hand) \cup Of(f.held))
      /\ f.hand \in Seq(Prints) /\ f.held \in Seq(Prints) /\ InHand(c, f) \subseteq Prints
  BY HandIs
<1>2. CASE older = << >>
  <2>1. g = f
    BY <1>2 DEF Absorb
  <2> QED BY <1>1, <2>1, CarriesSame
<1>3. CASE older # << >>
  <2>1. /\ f.hand # << >> /\ Tidy(f.hand) /\ Climbs(f.hand) /\ Whole(Of(f.hand))
        /\ Whole(InHand(c, f))
        /\ \A h \in Of(f.held) : \A k \in Of(c.prints) \cup Of(f.hand) : k < h
    BY <1>1 DEF Sound, Refilling, Tidy
  <2>2. /\ H \in Of(f.hand) /\ H \in Prints /\ H \in Nat
        /\ \A i \in Of(f.hand) : H <= i /\ i \in Prints /\ i \in Nat
    <3>1. H \in Of(f.hand) /\ Of(f.hand) \subseteq Prints /\ \A i \in Of(f.hand) : H <= i
      BY <1>1, <2>1, EndsAre
    <3> QED BY <3>1, StampsRise
  <2>3. /\ Tidy(older) /\ Of(older) = {i \in Of(p) : Ms[i] < Ms[H]}
        /\ older \in Seq(Prints) /\ Climbs(older) /\ Whole(Of(older))
    BY BeforeIs DEF Tidy
  <2>4. \A i \in Of(older) : i \in Prints /\ i < H /\ i \in Nat
    <3> SUFFICES ASSUME NEW i \in Of(older) PROVE i \in Prints /\ i < H /\ i \in Nat
      OBVIOUS
    <3>1. i \in Prints /\ Ms[i] < Ms[H]
      <4>1. i \in Prints
        BY <2>3 DEF Of
      <4> QED BY <2>3, <4>1
    <3> QED BY <2>2, <3>1, EarlierStamp, StampsRise
  <2> DEFINE hand == older \o f.hand
             cursor == Earlier(f.cursor, Ms[Head(older)])
  <2>5. g = [f EXCEPT !.hand = hand, !.cursor = cursor]
    BY <1>3 DEF Absorb
  <2> HIDE DEF older, H
  <2>6. \A i \in Of(older), j \in Of(f.hand) : i < j
    BY <2>2, <2>4
  <2>7. hand \in Seq(Prints) /\ Climbs(hand) /\ Of(hand) = Of(older) \cup Of(f.hand) /\ hand # << >>
    BY <1>1, <1>3, <2>1, <2>3, <2>6, CatIs
  <2>8. Tidy(hand)
    BY <2>1, <2>3, <2>7, WholeTogether DEF Tidy
  <2>9. cursor \in Stamps
    <3>1. Head(older) \in Prints
      BY <1>3, <2>3
    <3>2. /\ f.cursor \in Stamps /\ Ms[Head(older)] \in Stamps
          /\ Ms[Head(older)] # None /\ f.cursor # None
      BY <3>1, StampsRise DEF Fills, Stamps
    <3> QED BY <3>2, EarlierIs DEF StampOrNone
  <2> HIDE DEF hand, cursor
  <2>10. g \in Fills
    BY <2>5, <2>7, <2>9 DEF Fills
  <2>11. g.hand = hand /\ g.held = f.held /\ g.seam = f.seam
    BY <2>5 DEF Fills
  <2> HIDE DEF g
  <2>12. g # NoFill
    <3>1. g.st = "filling" /\ NoFill.st # "filling"
      BY <2>10 DEF Fills, NoFill
    <3> QED BY <3>1
  <2>13. InHand(c, g) = Of(older) \cup InHand(c, f)
    BY <1>1, <2>7, <2>11, <2>12 DEF InHand
  <2>14. Whole(InHand(c, g))
    BY <2>1, <2>3, <2>13, WholeTogether
  <2>15. \A h \in Of(f.held) : \A k \in Of(c.prints) \cup Of(hand) : k < h
    <3> SUFFICES ASSUME NEW h \in Of(f.held), NEW k \in Of(older) PROVE k < h
      BY <2>1, <2>7
    <3>1. H < h /\ h \in Prints
      BY <1>1, <2>1, <2>2
    <3> QED BY <2>2, <2>4, <3>1, StampsRise
  <2>16. Sound(t, g, c)
    BY <1>1, <2>1, <2>7, <2>8, <2>10, <2>11, <2>12, <2>14, <2>15 DEF Sound, Refilling
  <2>17. Carries(InHand(c, f), InHand(c, g))
    <3>1. ASSUME NEW k \in InHand(c, g) PROVE \E m \in InHand(c, f) : k <= m
      <4>1. CASE k \in Of(older)
        <5>1. H \in InHand(c, f)
          BY <1>1, <2>2
        <5>2. k <= H
          BY <2>2, <2>4, <4>1
        <5> QED BY <5>1, <5>2
      <4>2. CASE k \in InHand(c, f)
        BY <1>1, <4>2, StampsRise
      <4> QED BY <2>13, <4>1, <4>2
    <3> QED BY <2>13, <3>1 DEF Carries
  <2> QED BY <2>10, <2>16, <2>17 DEF g
<1> QED BY <1>2, <1>3

(* GapFill::page takes the prints of a page in and judges it. *)
LEMMA PageInIs ==
  ASSUME NEW t, NEW f \in Fills, NEW c, Sound(t, f, c),
         NEW e \in [t : {"page"}, prints : Seq(Prints), exhausted : BOOLEAN,
                    scanned : StampOrNone], Tidy(e.prints)
  PROVE  LET g == PageIn(f, e) IN
         g \in Fills /\ Sound(t, g, c) /\ Carries(InHand(c, f), InHand(c, g))
<1> DEFINE got == Absorb(f, e.prints)
           cursor == Earlier(got.cursor, e.scanned)
           idle == IF got.hand = f.hand THEN got.idle + 1 ELSE 0
           unanswered == got.unanswered \/ (/\ e.prints = << >> /\ e.scanned = None
                                            /\ ~e.exhausted)
           g == PageIn(f, e)
<1>1. got \in Fills /\ Sound(t, got, c) /\ Carries(InHand(c, f), InHand(c, got))
  BY AbsorbIs
<1> HIDE DEF got
<1>2. g = [got EXCEPT !.pageOwed = FALSE, !.unanswered = unanswered,
                      !.exhausted = @ \/ e.exhausted, !.idle = idle, !.cursor = cursor]
  BY <1>1 DEF PageIn, got
<1>3. cursor \in Stamps
  <2>1. got.cursor \in Stamps /\ got.cursor # None /\ e.scanned \in StampOrNone
    BY <1>1, StampsRise DEF Fills, Stamps
  <2> QED BY <2>1, EarlierIs DEF StampOrNone
<1>4. idle \in Nat /\ unanswered \in BOOLEAN /\ (got.exhausted \/ e.exhausted) \in BOOLEAN
  BY <1>1 DEF Fills
<1> HIDE DEF idle, unanswered, cursor
<1>5. g \in Fills
  BY <1>1, <1>2, <1>3, <1>4 DEF Fills
<1>6. g.seam = got.seam /\ g.hand = got.hand /\ g.held = got.held
  BY <1>1, <1>2 DEF Fills
<1> HIDE DEF g
<1>7. Sound(t, g, c) /\ InHand(c, g) = InHand(c, got)
  BY <1>1, <1>5, <1>6, FillAgain
<1> QED BY <1>1, <1>5, <1>7 DEF g

(* A block beyond the chart's end starts a refill. *)
LEMMA BegunIs ==
  ASSUME NEW t, NEW c, Sound(t, NoFill, c), t.any, NEW block, Tidy(block), block # << >>,
         NEW paging \in BOOLEAN
  PROVE  LET f == Begin(block, [last |-> t.last, held |-> t.atLast], paging) IN
         f \in Fills /\ Sound(t, f, c) /\ InHand(c, f) = Of(c.prints) \cup Of(block)
<1> DEFINE seam == [last |-> t.last, held |-> t.atLast]
           f == Begin(block, seam, paging)
<1>1. block \in Seq(Prints) /\ Whole(Of(block)) /\ Climbs(block)
  BY DEF Tidy
<1>2. /\ t \in Tapes /\ c \in Charts /\ Ledger(t, c) /\ c.prints \in Seq(Prints)
      /\ Climbs(c.prints) /\ Whole(Of(c.prints)) /\ c.prints # << >>
      /\ t.last = Ms[Final(c.prints)]
  BY DEF Sound, Ledger, Charts
<1>3. t.last \in Stamps /\ t.atLast \in Nat /\ Ms[Head(block)] \in Stamps
  <2>1. Final(c.prints) \in Of(c.prints) /\ Of(c.prints) \subseteq Prints
    BY <1>2, EndsAre
  <2>2. Head(block) \in Prints
    BY <1>1
  <2> QED BY <1>2, <2>1, <2>2, StampsRise DEF Tapes
<1>4. seam \in [last : Stamps, held : Nat]
  BY <1>3
<1> HIDE DEF seam
<1>5. /\ f.seam = seam /\ f.hand = block /\ f.held = << >> /\ f.st = "filling"
      /\ f \in Fills
  <2>1. << >> \in Seq(Prints)
    OBVIOUS
  <2> QED BY <1>1, <1>3, <1>4, <2>1 DEF Begin, Fills
<1> HIDE DEF f
<1>6. f # NoFill
  <2>1. NoFill.st # "filling"
    BY DEF NoFill
  <2> QED BY <1>5, <2>1
<1>7. Of(f.held) = {} /\ Climbs(f.held)
  BY <1>5 DEF Of, Climbs
<1>8. InHand(c, f) = Of(c.prints) \cup Of(block)
  BY <1>5, <1>6, <1>7 DEF InHand
<1>9. Whole(InHand(c, f))
  BY <1>1, <1>2, <1>8, WholeTogether
<1>10. Refilling(f, t, c)
  BY <1>5, <1>7, <1>9 DEF Refilling, seam
<1> QED BY <1>2, <1>5, <1>8, <1>10 DEF Sound, f, seam

(* trim_older: what a slice or a page adds to the chart's older end. *)
LEMMA DeepenedIs ==
  ASSUME NEW f, NEW c, Sound(tape, f, c), NEW p, Tidy(p), NEW scanned \in StampOrNone,
         tape.any \/ (p = << >> /\ scanned = None),
         NEW d \in Charts, d.prints = Older(p) \o c.prints
  PROVE  LET u == Deepened(Older(p), scanned) IN
         Sound(u, f, d) /\ u.any = tape.any /\ Carries(InHand(c, f), InHand(d, f))
<1> DEFINE older == Older(p)
           u == Deepened(older, scanned)
           q == c.prints
           oldest == IF older = << >> THEN tape.oldest ELSE Earlier(tape.oldest, Ms[Head(older)])
           floor == Earlier(Earlier(tape.floor, oldest), scanned)
<1>1. /\ tape \in Tapes /\ c \in Charts /\ Ledger(tape, c) /\ Refilling(f, tape, c)
      /\ q \in Seq(Prints) /\ Climbs(q) /\ Whole(Of(q)) /\ (tape.any <=> q # << >>)
      /\ p \in Seq(Prints) /\ Climbs(p) /\ Whole(Of(p))
      /\ InHand(c, f) \subseteq Prints
  BY HandIs DEF Sound, Ledger, Charts, Tidy
<1>2. u = [tape EXCEPT !.oldest = oldest, !.floor = floor]
  BY DEF Deepened
<1>3. CASE ~tape.any
  <2>1. /\ p = << >> /\ scanned = None /\ q = << >> /\ tape.oldest = None /\ tape.floor = None
        /\ f = NoFill
    BY <1>1, <1>3 DEF Ledger, Refilling
  <2>2. older = << >>
    BY <2>1 DEF Older
  <2>3. oldest = None /\ floor = None
    BY <2>1, <2>2 DEF Earlier
  <2> HIDE DEF older, oldest, floor
  <2>4. d.prints = c.prints
    BY <2>1, <2>2 DEF older
  <2>5. u = tape
    BY <1>1, <1>2, <2>1, <2>3 DEF Tapes
  <2>6. Sound(tape, f, d) /\ InHand(d, f) = InHand(c, f)
    BY <1>1, <2>4, SoundAgain
  <2> QED BY <1>1, <2>5, <2>6, CarriesSame DEF older
<1>4. CASE tape.any
  <2> DEFINE H == Head(q)
  <2>0. /\ tape.last = Ms[Final(q)] /\ tape.atLast = At(q, tape.last) /\ tape.oldest = Ms[H]
        /\ q # << >>
    BY <1>1, <1>4 DEF Ledger
  <2>1. /\ H \in Of(q) /\ Final(q) \in Of(q) /\ Of(q) \subseteq Prints /\ H \in Prints
        /\ \A i \in Of(q) : H <= i
    BY <1>1, <2>0, EndsAre
  <2>2. /\ Ms[H] \in Stamps /\ Ms[H] # None /\ tape.oldest \in Stamps /\ tape.oldest # None
        /\ H \in Nat /\ Ms[H] \in Nat
    BY <2>0, <2>1, StampsRise
  <2>3. older = Before(p, Ms[H])
    BY <2>0, <2>2 DEF Older
  <2>4. /\ Tidy(older) /\ Of(older) = {i \in Of(p) : Ms[i] < Ms[H]}
        /\ older \in Seq(Prints) /\ Climbs(older) /\ Whole(Of(older))
    BY <2>3, BeforeIs DEF Tidy
  <2> HIDE DEF older
  <2>5. \A i \in Of(older) : i \in Prints /\ i \in Nat /\ i < H /\ Ms[i] < Ms[H] /\ Ms[i] \in Nat
    <3> SUFFICES ASSUME NEW i \in Of(older)
                 PROVE  i \in Prints /\ i \in Nat /\ i < H /\ Ms[i] < Ms[H] /\ Ms[i] \in Nat
      OBVIOUS
    <3>1. Ms[i] < Ms[H]
      BY <2>4
    <3>2. i \in Prints
      BY <2>4 DEF Of
    <3> QED BY <2>1, <3>1, <3>2, EarlierStamp, StampsRise
  <2>6. \A i \in Of(older), j \in Of(q) : i < j
    <3> SUFFICES ASSUME NEW i \in Of(older), NEW j \in Of(q) PROVE i < j
      OBVIOUS
    <3>1. i < H /\ H <= j /\ i \in Nat /\ j \in Nat
      BY <2>1, <2>5, StampsRise
    <3> QED BY <2>2, <3>1
  <2>7. d.prints = older \o q
    BY DEF older
  <2>8. /\ d.prints \in Seq(Prints) /\ Climbs(d.prints) /\ Of(d.prints) = Of(older) \cup Of(q)
        /\ d.prints # << >> /\ Final(d.prints) = Final(q)
        /\ older # << >> => Head(d.prints) = Head(older)
        /\ older = << >> => Head(d.prints) = H
    BY <1>1, <2>0, <2>4, <2>6, <2>7, CatIs
  <2>9. tape.last \in Nat /\ Ms[H] <= tape.last
    <3>1. H <= Final(q) /\ Final(q) \in Prints
      BY <2>1
    <3>2. Final(q) \in Nat
      BY <3>1, StampsRise
    <3>3. Ms[H] <= Ms[Final(q)]
      BY <2>1, <2>2, <3>1, <3>2, StampsRise
    <3> QED BY <2>0, <3>1, <3>3, StampsRise
  <2>10. At(d.prints, tape.last) = tape.atLast
    <3>1. At(older, tape.last) = 0
      <4>1. \A i \in Of(older) : Ms[i] # tape.last
        BY <2>2, <2>5, <2>9
      <4> QED BY <2>4, <4>1, NoneAt
    <3>2. At(d.prints, tape.last) = At(older, tape.last) + At(q, tape.last)
      BY <1>1, <2>4, <2>6, <2>7, AtCat
    <3>3. At(q, tape.last) \in Nat
      BY <1>1, AtIs
    <3> QED BY <2>0, <3>1, <3>2, <3>3
  <2>11. oldest = Ms[Head(d.prints)] /\ oldest \in StampOrNone
    <3>1. CASE older = << >>
      BY <2>0, <2>2, <2>8, <3>1 DEF StampOrNone
    <3>2. CASE older # << >>
      <4>1. Head(older) \in Of(older) /\ Head(older) \in Prints
        BY <2>4, <3>2, EndsAre
      <4>2. Ms[Head(older)] < Ms[H] /\ Ms[Head(older)] \in Stamps /\ Ms[Head(older)] # None
            /\ Ms[Head(older)] \in Nat
        BY <2>5, <4>1, StampsRise
      <4>3. Earlier(Ms[H], Ms[Head(older)]) = Ms[Head(older)]
        <5>1. Ms[Head(older)] <= Ms[H]
          BY <2>2, <4>2
        <5> QED BY <2>2, <4>2, <5>1, EarlierIs DEF StampOrNone
      <4> QED BY <2>0, <2>8, <3>2, <4>2, <4>3 DEF StampOrNone
    <3> QED BY <3>1, <3>2
  <2>12. floor \in StampOrNone
    <3>1. tape.floor \in StampOrNone
      BY <1>1 DEF Tapes
    <3> QED BY <2>11, <3>1, EarlierIs
  <2> HIDE DEF oldest, floor
  <2>13. u \in Tapes
    BY <1>1, <1>2, <2>11, <2>12 DEF Tapes
  <2>14. u.any = tape.any /\ u.last = tape.last /\ u.atLast = tape.atLast /\ u.oldest = oldest
    BY <1>1, <1>2 DEF Tapes
  <2> HIDE DEF u
  <2>15. Ledger(u, d)
    <3>1. Whole(Of(d.prints))
      BY <1>1, <2>4, <2>8, WholeTogether
    <3> QED BY <1>4, <2>0, <2>8, <2>10, <2>11, <2>14, <3>1 DEF Ledger
  <2>16. InHand(d, f) = Of(older) \cup InHand(c, f)
    BY <2>8 DEF InHand
  <2>17. H \in InHand(c, f)
    BY <2>1 DEF InHand
  <2>18. Refilling(f, u, d)
    <3> SUFFICES ASSUME f # NoFill PROVE Refilling(f, u, d)
      BY DEF Refilling
    <3>1. /\ f.seam = [last |-> tape.last, held |-> tape.atLast]
          /\ f.hand # << >> /\ Tidy(f.hand) /\ Climbs(f.held)
          /\ \A h \in Of(f.held) : \A k \in Of(q) \cup Of(f.hand) : k < h
          /\ Whole(InHand(c, f))
      BY <1>1 DEF Refilling
    <3>2. Whole(InHand(d, f))
      BY <2>4, <2>16, <3>1, WholeTogether
    <3>3. \A h \in Of(f.held) : \A k \in Of(d.prints) \cup Of(f.hand) : k < h
      <4> SUFFICES ASSUME NEW h \in Of(f.held), NEW k \in Of(older) PROVE k < h
        BY <2>8, <3>1
      <4>1. H < h
        BY <2>1, <3>1
      <4>2. h \in Prints
        <5>1. f.held \in Seq(Prints)
          BY DEF Sound, Fills
        <5> QED BY <5>1 DEF Of
      <4>3. k < H /\ k \in Nat /\ h \in Nat
        BY <2>5, <4>2, StampsRise
      <4> QED BY <2>2, <4>1, <4>3
    <3> QED BY <1>4, <2>14, <3>1, <3>2, <3>3 DEF Refilling
  <2>19. Carries(InHand(c, f), InHand(d, f))
    <3>1. ASSUME NEW k \in InHand(d, f) PROVE \E m \in InHand(c, f) : k <= m
      <4>1. CASE k \in Of(older)
        <5>1. k <= H
          BY <2>2, <2>5, <4>1
        <5> QED BY <2>17, <5>1
      <4>2. CASE k \in InHand(c, f)
        BY <1>1, <4>2, StampsRise
      <4> QED BY <2>16, <4>1, <4>2
    <3> QED BY <2>16, <3>1 DEF Carries
  <2>20. f \in Fills \cup {NoFill}
    BY DEF Sound
  <2> QED BY <2>13, <2>14, <2>15, <2>18, <2>19, <2>20 DEF Sound, u, older
<1> QED BY <1>3, <1>4

(* A live print behind what the feed holds. *)
LEMMA BehindIs ==
  ASSUME NEW s \in Seq(Prints), Climbs(s), NEW i \in Prints, \A k \in Of(s) : k < i
  PROVE  /\ Append(s, i) = s \o <<i>> /\ <<i>> \in Seq(Prints) /\ Climbs(<<i>>) /\ Of(<<i>>) = {i}
         /\ Append(s, i) \in Seq(Prints) /\ Climbs(Append(s, i))
         /\ Of(Append(s, i)) = Of(s) \cup {i} /\ Append(s, i) # << >>
<1> DEFINE o == <<i>>
<1>1. o \in Seq(Prints) /\ Len(o) = 1 /\ o[1] = i
  OBVIOUS
<1>2. Append(s, i) = s \o o
  OBVIOUS
<1>3. Climbs(o) /\ Of(o) = {i}
  BY <1>1 DEF Climbs, Of
<1>4. o # << >>
  OBVIOUS
<1> HIDE DEF o
<1>5. s \o o \in Seq(Prints) /\ Climbs(s \o o) /\ Of(s \o o) = Of(s) \cup {i} /\ s \o o # << >>
  BY <1>1, <1>3, <1>4, CatIs
<1> QED BY <1>1, <1>2, <1>3, <1>5 DEF o

(* With the print a whole stretch follows, the stretch is whole. *)
LEMMA WholeBehind ==
  ASSUME NEW S, Whole(S), NEW i \in Prints, Follows(i, S)
  PROVE  Whole(S \cup {i})
BY DEF Whole, Follows

(* Without a refill it is charted. *)
LEMMA LiveIs ==
  ASSUME NEW t, NEW c, Sound(t, NoFill, c), NEW i \in Prints, Follows(i, InHand(c, NoFill)),
         NEW d \in Charts, d.prints = Append(c.prints, i)
  PROVE  /\ Sound(Forwarded(t, <<i>>), NoFill, d) /\ Forwarded(t, <<i>>).any
         /\ InHand(d, NoFill) = InHand(c, NoFill) \cup {i}
<1> DEFINE o == <<i>>
<1>1. /\ t \in Tapes /\ Ledger(t, c) /\ c.prints \in Seq(Prints) /\ Climbs(c.prints)
      /\ Whole(Of(c.prints)) /\ InHand(c, NoFill) = Of(c.prints)
  BY HandIs DEF Sound, Ledger
<1>2. \A k \in Of(c.prints) : k < i
  BY <1>1 DEF Follows
<1>3. /\ d.prints = c.prints \o o /\ o \in Seq(Prints) /\ Climbs(o) /\ Of(o) = {i}
      /\ Of(d.prints) = Of(c.prints) \cup {i}
  BY <1>1, <1>2, BehindIs
<1>4. Whole(Of(c.prints) \cup Of(o))
  BY <1>1, <1>3, WholeBehind
<1>5. o # << >>
  OBVIOUS
<1>6. \A k \in Of(c.prints), j \in Of(o) : k < j
  BY <1>2, <1>3
<1> HIDE DEF o
<1>7. Forwarded(t, o) \in Tapes /\ Ledger(Forwarded(t, o), d) /\ Forwarded(t, o).any
  BY <1>1, <1>3, <1>4, <1>5, <1>6, ForwardedIs
<1>8. Refilling(NoFill, Forwarded(t, o), d)
  BY DEF Refilling
<1>9. InHand(d, NoFill) = InHand(c, NoFill) \cup {i}
  BY <1>3 DEF InHand
<1> QED BY <1>7, <1>8, <1>9 DEF Sound, o

(* Behind a refill it is held. *)
LEMMA HeldIs ==
  ASSUME NEW t, NEW f \in Fills, NEW c, Sound(t, f, c), NEW i \in Prints,
         Follows(i, InHand(c, f))
  PROVE  LET g == [f EXCEPT !.held = Append(@, i)] IN
         g \in Fills /\ Sound(t, g, c) /\ InHand(c, g) = InHand(c, f) \cup {i}
<1> DEFINE held == Append(f.held, i)
           g == [f EXCEPT !.held = Append(@, i)]
<1>1. /\ f # NoFill /\ InHand(c, f) = Of(c.prints) \cup (Of(f.hand) \cup Of(f.held))
      /\ f.held \in Seq(Prints)
  BY HandIs
<1>2. /\ t.any /\ f.seam = [last |-> t.last, held |-> t.atLast]
      /\ f.hand # << >> /\ Tidy(f.hand) /\ Climbs(f.held)
      /\ \A h \in Of(f.held) : \A k \in Of(c.prints) \cup Of(f.hand) : k < h
      /\ Whole(InHand(c, f))
  BY <1>1 DEF Sound, Refilling
<1>3. \A k \in InHand(c, f) : k < i
  BY DEF Follows
<1>4. held \in Seq(Prints) /\ Climbs(held) /\ Of(held) = Of(f.held) \cup {i}
  BY <1>1, <1>2, <1>3, BehindIs
<1>5. g = [f EXCEPT !.held = held]
  OBVIOUS
<1> HIDE DEF held, g
<1>6. g \in Fills /\ g.seam = f.seam /\ g.hand = f.hand /\ g.held = held
  BY <1>4, <1>5 DEF Fills
<1>7. g # NoFill
  <2>1. g.st = "filling" /\ NoFill.st # "filling"
    BY <1>6 DEF Fills, NoFill
  <2> QED BY <2>1
<1>8. InHand(c, g) = InHand(c, f) \cup {i}
  BY <1>1, <1>4, <1>6, <1>7 DEF InHand
<1>9. Whole(InHand(c, g))
  BY <1>2, <1>8, WholeBehind
<1>10. \A h \in Of(held) : \A k \in Of(c.prints) \cup Of(f.hand) : k < h
  BY <1>1, <1>2, <1>3, <1>4
<1>11. Refilling(g, t, c)
  BY <1>2, <1>4, <1>6, <1>9, <1>10 DEF Refilling
<1> QED BY <1>6, <1>8, <1>11 DEF Sound, g

(* drive_refill: whatever the refill decides, what the feed holds stays in  *)
(* order.                                                                   *)
LEMMA DriveIs ==
  ASSUME NEW t, NEW f \in Fills, NEW c, Sound(t, f, c), Drive(f, t, c), pager \in Pagers,
         pager.queued # None => tape.any, tape.any => t.any
  PROVE  /\ Sound(tape', fill', chart') /\ tape'.any
         /\ Carries(InHand(c, f), InHand(chart', fill'))
         /\ pager' \in Pagers
<1>1. f # NoFill /\ InHand(c, f) \subseteq Prints
  BY HandIs
<1>2. t.any
  BY <1>1 DEF Sound, Refilling
<1>3. CASE Release(f, t, c) /\ UNCHANGED pager
  BY <1>3, ReleasedIs DEF Release
<1>4. CASE /\ Request(f.cursor)
           /\ fill' = [f EXCEPT !.pageOwed = TRUE, !.pages = @ + 1]
           /\ tape' = t /\ chart' = c
  <2> DEFINE pages == f.pages + 1
             g == [f EXCEPT !.pageOwed = TRUE, !.pages = pages]
  <2>0. pages \in Nat /\ fill' = g
    BY <1>4 DEF Fills
  <2> HIDE DEF pages
  <2>1. g \in Fills /\ g.seam = f.seam /\ g.hand = f.hand /\ g.held = f.held
    BY <2>0 DEF Fills
  <2>2. Sound(t, g, c) /\ InHand(c, g) = InHand(c, f)
    <3> HIDE DEF g
    <3> QED BY <2>1, FillAgain
  <2>3. pager' \in Pagers
    BY <1>4 DEF Request, Pagers, Fills, StampOrNone
  <2> QED BY <1>1, <1>2, <1>4, <2>0, <2>2, <2>3, CarriesSame
<1>5. CASE fill' = f /\ tape' = t /\ chart' = c /\ UNCHANGED pager
  BY <1>1, <1>2, <1>5, CarriesSame
<1> QED BY <1>3, <1>4, <1>5 DEF Drive

-----------------------------------------------------------------------------
(* The channel: sent at one end, taken at the other. *)

(* What is ahead of the nth event depends on those before it. *)
LEMMA SameAhead ==
  ASSUME NEW q, NEW sent, NEW n \in Nat, \A m \in 1 .. n - 1 : q[m] = sent[m]
  PROVE  /\ Ahead(q, n) = Ahead(sent, n) /\ (Given(q, n) <=> Given(sent, n))
         /\ \A f : Quiet(q, f, n) <=> Quiet(sent, f, n)
         /\ \A e, t, f, c : Fits(e, q, n, t, f, c) <=> Fits(e, sent, n, t, f, c)
<1>1. Ahead(q, n) = Ahead(sent, n)
  BY DEF Ahead
<1>2. Given(q, n) <=> Given(sent, n)
  BY DEF Given
<1>3. ASSUME NEW m \in Nat PROVE Over(q, m, n) <=> Over(sent, m, n)
  <2>1. \A k \in m + 1 .. n - 1 : k \in 1 .. n - 1
    OBVIOUS
  <2> QED BY <2>1 DEF Over
<1>4. \A f : Quiet(q, f, n) <=> Quiet(sent, f, n)
  <2>1. \A m \in 1 .. n - 1 : m \in Nat
    OBVIOUS
  <2>2. Over(q, 0, n) <=> Over(sent, 0, n)
    BY <1>3
  <2> QED BY <1>3, <2>1, <2>2 DEF Quiet
<1>5. ASSUME NEW e, NEW t, NEW f, NEW c PROVE Fits(e, q, n, t, f, c) <=> Fits(e, sent, n, t, f, c)
  <2>1. Quiet(q, f, n) <=> Quiet(sent, f, n)
    BY <1>4
  <2> QED BY <1>1, <1>2, <2>1 DEF Fits
<1> QED BY <1>1, <1>2, <1>4, <1>5

(* One event more. *)
LEMMA AppendIs ==
  ASSUME NEW sent \in Seq(Sent), NEW e \in Sent
  PROVE  LET q == Append(sent, e)
             L == Len(sent)
         IN  /\ q \in Seq(Sent) /\ Len(q) = L + 1 /\ q[L + 1] = e /\ L \in Nat
             /\ \A m \in 1 .. L : q[m] = sent[m]
             /\ Ahead(q, L + 2) = Ahead(sent, L + 1) \cup Brings(e)
             /\ Given(q, L + 2) <=> Given(sent, L + 1) \/ Gives(e)
             /\ \A f : e.t = "lost" \/ (e.t # "backfilled" /\ Quiet(sent, f, L + 1))
                         => Quiet(q, f, L + 2)
<1> DEFINE q == Append(sent, e)
           L == Len(sent)
<1>1. q \in Seq(Sent) /\ Len(q) = L + 1 /\ q[L + 1] = e /\ L \in Nat
      /\ \A m \in 1 .. L : q[m] = sent[m]
  OBVIOUS
<1> HIDE DEF q, L
<1>2. /\ (L + 1) - 1 = L /\ (L + 2) - 1 = L + 1 /\ 1 .. L + 1 = (1 .. L) \cup {L + 1}
      /\ 0 \in 0 .. L
  BY <1>1
<1>4. Ahead(q, L + 2) = Ahead(sent, L + 1) \cup Brings(e)
  <2>1. Ahead(q, L + 2) = UNION {Brings(q[m]) : m \in 1 .. L + 1}
    BY <1>1, <1>2 DEF Ahead
  <2>2. Ahead(sent, L + 1) = UNION {Brings(q[m]) : m \in 1 .. L}
    BY <1>1, <1>2 DEF Ahead
  <2> QED BY <1>1, <1>2, <2>1, <2>2
<1>5. Given(q, L + 2) <=> Given(sent, L + 1) \/ Gives(e)
  <2>1. Given(q, L + 2) <=> \E m \in 1 .. L + 1 : Gives(q[m])
    BY <1>1, <1>2 DEF Given
  <2>2. Given(sent, L + 1) <=> \E m \in 1 .. L : Gives(q[m])
    BY <1>1, <1>2 DEF Given
  <2> QED BY <1>1, <1>2, <2>1, <2>2
<1>6. ASSUME NEW m \in 0 .. L, e.t = "lost" PROVE Over(q, m, L + 2)
  <2>1. L + 1 \in m + 1 .. (L + 2) - 1
    BY <1>1
  <2> QED BY <1>1, <1>6, <2>1 DEF Over
<1>7. ASSUME NEW m \in 0 .. L, Over(sent, m, L + 1) PROVE Over(q, m, L + 2)
  <2>1. PICK k \in m + 1 .. (L + 1) - 1 : sent[k].t = "lost"
    BY <1>7 DEF Over
  <2>2. k \in m + 1 .. (L + 2) - 1 /\ k \in 1 .. L
    BY <1>1
  <2> QED BY <1>1, <2>1, <2>2 DEF Over
<1>8. ASSUME NEW f, e.t = "lost" \/ (e.t # "backfilled" /\ Quiet(sent, f, L + 1))
      PROVE  Quiet(q, f, L + 2)
  <2>1. f = NoFill \/ Over(q, 0, L + 2)
    BY <1>2, <1>6, <1>7, <1>8 DEF Quiet
  <2>2. ASSUME NEW m \in 1 .. L + 1, q[m].t = "backfilled" PROVE Over(q, m, L + 2)
    <3>1. m # L + 1
      <4>1. e.t # "backfilled"
        BY <1>8
      <4> QED BY <1>1, <2>2, <4>1
    <3>2. m \in 1 .. L /\ m \in 0 .. L /\ q[m] = sent[m]
      BY <1>1, <3>1
    <3>3. CASE e.t = "lost"
      BY <1>6, <3>2, <3>3
    <3>4. CASE Quiet(sent, f, L + 1)
      <4>1. Over(sent, m, L + 1)
        BY <1>2, <2>2, <3>2, <3>4 DEF Quiet
      <4> QED BY <1>7, <3>2, <4>1
    <3> QED BY <1>8, <3>3, <3>4
  <2> QED BY <1>2, <2>1, <2>2 DEF Quiet
<1> QED BY <1>1, <1>4, <1>5, <1>8 DEF q, L

(* It fits behind the others, which go on fitting. *)
LEMMA QueueAppends ==
  ASSUME NEW sent, NEW t, NEW f, NEW c, Queue(sent, t, f, c), NEW e \in Sent,
         Fits(e, sent, Len(sent) + 1, t, f, c)
  PROVE  Queue(Append(sent, e), t, f, c)
<1> DEFINE q == Append(sent, e)
           L == Len(sent)
<1>1. /\ q \in Seq(Sent) /\ Len(q) = L + 1 /\ q[L + 1] = e /\ L \in Nat
      /\ \A m \in 1 .. L : q[m] = sent[m]
  BY AppendIs DEF Queue
<1> HIDE DEF q
<1> SUFFICES ASSUME NEW n \in 1 .. L + 1 PROVE Fits(q[n], q, n, t, f, c)
  BY <1>1 DEF Queue, q
<1>2. n \in Nat /\ \A m \in 1 .. n - 1 : q[m] = sent[m]
  BY <1>1
<1>3. Fits(q[n], sent, n, t, f, c)
  <2>1. CASE n \in 1 .. L
    BY <1>1, <2>1 DEF Queue
  <2>2. CASE n = L + 1
    BY <1>1, <2>2
  <2> QED BY <1>1, <2>1, <2>2
<1> QED BY <1>2, <1>3, SameAhead

(* The bridge that sent it has fewer promises to keep: those it had, and    *)
(* that what it sent is not newer than what it will send.                   *)
LEMMA SourceAppends ==
  ASSUME NEW sent, NEW t, NEW f, NEW c, Queue(sent, t, f, c), NEW b, Source(b, sent, t, f, c),
         NEW e \in Sent, Brings(e) = {}, e.t # "backfilled"
  PROVE  Source(b, Append(sent, e), t, f, c)
<1> DEFINE q == Append(sent, e)
           L == Len(sent)
<1>1. /\ Len(q) = L + 1 /\ L \in Nat /\ Ahead(q, L + 2) = Ahead(sent, L + 1)
      /\ Given(q, L + 2) <=> Given(sent, L + 1)
      /\ Quiet(sent, f, L + 1) => Quiet(q, f, L + 2)
  <2>1. sent \in Seq(Sent) /\ ~Gives(e)
    BY DEF Queue, Gives
  <2> QED BY <2>1, AppendIs
<1>2. Len(q) + 1 = L + 2
  BY <1>1
<1> HIDE DEF q
<1> QED BY <1>1, <1>2 DEF Source, q

(* What events bring are places of the tape. *)
LEMMA AheadPlaces ==
  ASSUME NEW sent \in Seq(Sent), NEW n \in 1 .. Len(sent) + 1
  PROVE  Ahead(sent, n) \subseteq Prints
<1>1. ASSUME NEW e \in Sent PROVE Brings(e) \subseteq Prints
  <2>1. e.t = "live" => e.print \in Prints
    BY DEF Sent
  <2>2. e.t = "backfilled" => e.prints \in Seq(Prints)
    BY DEF Sent
  <2> QED BY <2>1, <2>2 DEF Brings, Of
<1>2. \A m \in 1 .. n - 1 : sent[m] \in Sent
  OBVIOUS
<1> QED BY <1>1, <1>2 DEF Ahead

(* One event less. *)
LEMMA TakenIs ==
  ASSUME NEW sent \in Seq(Sent), sent # << >>
  PROVE  LET r == Tail(sent)
             h == Head(sent)
             L == Len(sent)
         IN  /\ r \in Seq(Sent) /\ Len(r) = L - 1 /\ L \in Nat /\ L >= 1
             /\ h \in Sent /\ h = sent[1]
             /\ \A n \in 1 .. L - 1 : r[n] = sent[n + 1]
             /\ \A n \in 1 .. L : /\ Ahead(sent, n + 1) = Brings(h) \cup Ahead(r, n)
                                  /\ Given(sent, n + 1) => Gives(h) \/ Given(r, n)
             /\ \A n \in 1 .. L : \A f, g :
                  /\ Quiet(sent, f, n + 1)
                  /\ g # NoFill => h.t # "lost" /\ (f # NoFill \/ h.t = "backfilled")
                  => Quiet(r, g, n)
<1> DEFINE r == Tail(sent)
           h == Head(sent)
           L == Len(sent)
<1>1. /\ r \in Seq(Sent) /\ Len(r) = L - 1 /\ L \in Nat /\ L >= 1 /\ h \in Sent /\ h = sent[1]
      /\ \A n \in 1 .. L - 1 : r[n] = sent[n + 1]
  OBVIOUS
<1> HIDE DEF r, h, L
<1>2. ASSUME NEW n \in 1 .. L
      PROVE  /\ (n + 1) - 1 = n /\ 1 .. n = {1} \cup {m + 1 : m \in 1 .. n - 1}
             /\ \A m \in 1 .. n - 1 : m \in 1 .. L - 1
  <2>1. ASSUME NEW k \in 1 .. n, k # 1 PROVE k - 1 \in 1 .. n - 1 /\ k = (k - 1) + 1
    BY <1>1, <2>1
  <2>2. ASSUME NEW m \in 1 .. n - 1 PROVE m + 1 \in 1 .. n /\ m \in 1 .. L - 1
    BY <1>1
  <2>3. 1 \in 1 .. n /\ (n + 1) - 1 = n
    BY <1>1
  <2>4. 1 .. n = {1} \cup {m + 1 : m \in 1 .. n - 1}
    <3>1. \A k \in 1 .. n : k \in {1} \cup {m + 1 : m \in 1 .. n - 1}
      BY <2>1
    <3>2. \A k \in {1} \cup {m + 1 : m \in 1 .. n - 1} : k \in 1 .. n
      BY <2>2, <2>3
    <3> QED BY <3>1, <3>2
  <2> QED BY <2>2, <2>3, <2>4
<1>3. ASSUME NEW n \in 1 .. L
      PROVE  /\ Ahead(sent, n + 1) = Brings(h) \cup Ahead(r, n)
             /\ Given(sent, n + 1) => Gives(h) \/ Given(r, n)
  <2>1. Ahead(sent, n + 1) = UNION {Brings(sent[m]) : m \in {1} \cup {m + 1 : m \in 1 .. n - 1}}
    BY <1>2 DEF Ahead
  <2>2. \A m \in 1 .. n - 1 : sent[m + 1] = r[m]
    BY <1>1, <1>2
  <2>3. Ahead(r, n) = UNION {Brings(r[m]) : m \in 1 .. n - 1}
    BY DEF Ahead
  <2>4. Ahead(sent, n + 1) = Brings(h) \cup Ahead(r, n)
    <3>1. ASSUME NEW x \in Ahead(sent, n + 1) PROVE x \in Brings(h) \cup Ahead(r, n)
      <4>1. PICK m \in {1} \cup {m + 1 : m \in 1 .. n - 1} : x \in Brings(sent[m])
        BY <2>1
      <4>2. CASE m = 1
        BY <1>1, <4>1, <4>2
      <4>3. CASE m \in {k + 1 : k \in 1 .. n - 1}
        <5>1. PICK k \in 1 .. n - 1 : m = k + 1
          BY <4>3
        <5>2. x \in Brings(r[k])
          BY <2>2, <4>1, <5>1
        <5> QED BY <2>3, <5>2
      <4> QED BY <4>1, <4>2, <4>3
    <3>2. Brings(h) \subseteq Ahead(sent, n + 1)
      BY <1>1, <2>1
    <3>3. ASSUME NEW k \in 1 .. n - 1 PROVE Brings(r[k]) \subseteq Ahead(sent, n + 1)
      <4>1. k + 1 \in {m + 1 : m \in 1 .. n - 1}
        OBVIOUS
      <4>2. Brings(sent[k + 1]) \subseteq Ahead(sent, n + 1)
        BY <2>1, <4>1
      <4> QED BY <2>2, <4>2
    <3> QED BY <2>3, <3>1, <3>2, <3>3
  <2>5. ASSUME Given(sent, n + 1) PROVE Gives(h) \/ Given(r, n)
    <3>1. PICK m \in {1} \cup {m + 1 : m \in 1 .. n - 1} : Gives(sent[m])
      BY <1>2, <2>5 DEF Given
    <3> QED BY <1>1, <2>2, <3>1 DEF Given
  <2> QED BY <2>4, <2>5
<1>4. ASSUME NEW n \in 1 .. L, NEW m \in 0 .. n, Over(sent, m + 1, n + 1) PROVE Over(r, m, n)
  <2>1. PICK k \in (m + 1) + 1 .. (n + 1) - 1 : sent[k].t = "lost"
    BY <1>4 DEF Over
  <2>2. k - 1 \in m + 1 .. n - 1 /\ k - 1 \in 1 .. L - 1 /\ (k - 1) + 1 = k
    BY <1>1
  <2>3. r[k - 1] = sent[k]
    BY <1>1, <2>2
  <2> QED BY <2>1, <2>2, <2>3 DEF Over
<1>5. ASSUME NEW n \in 1 .. L, Over(sent, 0, n + 1), h.t # "lost" PROVE Over(r, 0, n)
  <2>1. PICK k \in 0 + 1 .. (n + 1) - 1 : sent[k].t = "lost"
    BY <1>5 DEF Over
  <2>2. k # 1
    BY <1>1, <1>5, <2>1
  <2>3. k \in (0 + 1) + 1 .. (n + 1) - 1 /\ 0 \in 0 .. n
    BY <1>1, <2>2
  <2>4. Over(sent, 0 + 1, n + 1)
    BY <2>1, <2>3 DEF Over
  <2> QED BY <1>4, <2>3, <2>4
<1>6. ASSUME NEW n \in 1 .. L, NEW f, NEW g, Quiet(sent, f, n + 1),
             g # NoFill => h.t # "lost" /\ (f # NoFill \/ h.t = "backfilled")
      PROVE  Quiet(r, g, n)
  <2>1. ASSUME g # NoFill PROVE Over(r, 0, n)
    <3>1. CASE f # NoFill
      <4>1. Over(sent, 0, n + 1) /\ h.t # "lost"
        BY <1>6, <2>1, <3>1 DEF Quiet
      <4> QED BY <1>5, <4>1
    <3>2. CASE h.t = "backfilled"
      <4>1. 1 \in 1 .. (n + 1) - 1 /\ sent[1].t = "backfilled" /\ 0 \in 0 .. n /\ 0 + 1 = 1
        BY <1>1, <3>2
      <4>2. Over(sent, 1, n + 1)
        BY <1>6, <4>1 DEF Quiet
      <4> QED BY <1>4, <4>1, <4>2
    <3> QED BY <1>6, <2>1, <3>1, <3>2
  <2>2. ASSUME NEW m \in 1 .. n - 1, r[m].t = "backfilled" PROVE Over(r, m, n)
    <3>1. sent[m + 1].t = "backfilled" /\ m + 1 \in 1 .. (n + 1) - 1 /\ m \in 0 .. n
      BY <1>1, <1>2, <2>2
    <3>2. Over(sent, m + 1, n + 1)
      BY <1>6, <3>1 DEF Quiet
    <3> QED BY <1>4, <3>1, <3>2
  <2> QED BY <2>1, <2>2 DEF Quiet
<1> QED BY <1>1, <1>3, <1>6 DEF r, h, L

(* The event is taken: what still fits, and what the bridge may still send. *)
LEMMA QueueTaken ==
  ASSUME NEW sent, NEW t, NEW f, NEW c, Queue(sent, t, f, c), sent # << >>, Sound(t, f, c),
         NEW u, NEW g, NEW d, Sound(u, g, d),
         Carries(InHand(c, f) \cup Brings(Head(sent)), InHand(d, g)),
         t.any \/ Gives(Head(sent)) => u.any,
         g # NoFill => Head(sent).t # "lost" /\ (f # NoFill \/ Head(sent).t = "backfilled"),
         NEW top \in Prints, \A k \in InHand(c, f) \cup Ahead(sent, Len(sent) + 1) : k <= top,
         NEW b, Source(b, sent, t, f, c)
  PROVE  /\ Queue(Tail(sent), u, g, d) /\ Source(b, Tail(sent), u, g, d)
         /\ \A k \in InHand(d, g) \cup Ahead(Tail(sent), Len(Tail(sent)) + 1) : k <= top
<1> DEFINE r == Tail(sent)
           h == Head(sent)
           L == Len(sent)
           S == InHand(c, f) \cup Brings(h)
           S2 == InHand(d, g)
<1>1. sent \in Seq(Sent) /\ \A n \in 1 .. L : Fits(sent[n], sent, n, t, f, c)
  BY DEF Queue
<1>2. /\ r \in Seq(Sent) /\ Len(r) = L - 1 /\ L \in Nat /\ L >= 1 /\ h \in Sent /\ h = sent[1]
      /\ \A n \in 1 .. L - 1 : r[n] = sent[n + 1]
      /\ \A n \in 1 .. L : /\ Ahead(sent, n + 1) = Brings(h) \cup Ahead(r, n)
                           /\ Given(sent, n + 1) => Gives(h) \/ Given(r, n)
      /\ \A n \in 1 .. L : Quiet(sent, f, n + 1) => Quiet(r, g, n)
  BY <1>1, TakenIs
<1>3. InHand(c, f) \subseteq Prints /\ S2 \subseteq Prints
  BY HandIs
<1>4. S \subseteq Prints
  <2>1. Ahead(sent, L + 1) \subseteq Prints
    BY <1>1, <1>2, AheadPlaces
  <2> QED BY <1>2, <1>3, <2>1
<1> HIDE DEF r, h, L
<1>5. \A n \in 1 .. L : Ahead(r, n) \subseteq Prints
  <2>1. \A n \in 1 .. L : n \in 1 .. Len(r) + 1
    BY <1>2
  <2> QED BY <1>2, <2>1, AheadPlaces
<1>6. \A n \in 1 .. L : InHand(c, f) \cup Ahead(sent, n + 1) = S \cup Ahead(r, n)
  BY <1>2
<1> HIDE DEF S, S2
<1>7. Carries(S, S2)
  BY DEF S, S2, h
<1>8. ASSUME NEW n \in 1 .. L - 1 PROVE Fits(r[n], r, n, u, g, d)
  <2>1. n \in 1 .. L /\ n + 1 \in 1 .. L /\ r[n] = sent[n + 1] /\ r[n] \in Sent
    BY <1>2
  <2> DEFINE e == r[n]
  <2>2. Fits(e, sent, n + 1, t, f, c)
    BY <1>1, <2>1 DEF L
  <2>3. e.t = "live" => Follows(e.print, S2 \cup Ahead(r, n))
    <3> SUFFICES ASSUME e.t = "live" PROVE Follows(e.print, S2 \cup Ahead(r, n))
      OBVIOUS
    <3>1. e.print \in Prints
      BY <2>1 DEF Sent
    <3>2. Follows(e.print, S \cup Ahead(r, n))
      BY <1>6, <2>1, <2>2 DEF Fits
    <3> QED BY <1>3, <1>4, <1>5, <1>7, <2>1, <3>1, <3>2, FollowsOn DEF S2
  <2>4. e.t = "opening" => u.any \/ Given(r, n)
    BY <1>2, <2>1, <2>2 DEF Fits, h
  <2>5. e.t = "page" => u.any \/ (e.prints = << >> /\ e.scanned = None)
    BY <2>2 DEF Fits
  <2>6. e.t = "backfilled" => Quiet(r, g, n)
    BY <1>2, <2>1, <2>2 DEF Fits
  <2> HIDE DEF e
  <2> QED BY <2>2, <2>3, <2>4, <2>5, <2>6 DEF Fits, S2, e
<1>9. Queue(r, u, g, d)
  BY <1>2, <1>8 DEF Queue
<1>10. L \in 1 .. L /\ Len(r) + 1 = L /\ InHand(c, f) \cup Ahead(sent, L + 1) = S \cup Ahead(r, L)
  BY <1>2, <1>6
<1>11. \A k \in S2 \cup Ahead(r, L) : k <= top
  <2>1. \A k \in S \cup Ahead(r, L) : k <= top
    BY <1>10 DEF L
  <2>2. top \in Int
    BY StampsRise
  <2> QED BY <1>3, <1>4, <1>7, <2>1, <2>2, CarriesBelow
<1>12. Source(b, r, u, g, d)
  <2>1. b \in Bridges /\ \A n \in 1 .. Len(b.opening) : b.opening[n] # << >> /\ Tidy(b.opening[n])
    BY DEF Source
  <2>2. b.opening # << >> => u.any \/ Given(r, Len(r) + 1)
    <3>1. b.opening # << >> => t.any \/ Given(sent, L + 1)
      BY DEF Source, L
    <3> QED BY <1>2, <1>10, <3>1 DEF h
  <2>3. b.inbox # None \/ b.ask # None => u.any
    BY DEF Source
  <2>4. ASSUME b.st = "live"
        PROVE  /\ b.next >= 1 /\ \A k \in S2 \cup Ahead(r, L) : k < b.next
               /\ b.next \in Prints => Follows(b.next, S2 \cup Ahead(r, L))
    <3>1. /\ b.next >= 1 /\ \A k \in S \cup Ahead(r, L) : k < b.next
          /\ b.next \in Prints => Follows(b.next, S \cup Ahead(r, L))
      BY <1>10, <2>4 DEF Source, L
    <3>2. b.next \in Int
      BY <2>1 DEF Bridges
    <3>3. \A k \in S2 \cup Ahead(r, L) : k < b.next
      <4>1. \A k \in S \cup Ahead(r, L) : k <= b.next - 1
        <5>1. \A k \in S \cup Ahead(r, L) : k \in Int
          BY <1>4, <1>5, <1>10, StampsRise
        <5> QED BY <3>1, <3>2, <5>1
      <4>2. \A k \in S2 \cup Ahead(r, L) : k <= b.next - 1
        <5>1. b.next - 1 \in Int
          BY <3>2
        <5> QED BY <1>3, <1>4, <1>7, <4>1, <5>1, CarriesBelow
      <4>3. \A k \in S2 \cup Ahead(r, L) : k \in Int
        BY <1>3, <1>5, <1>10, StampsRise
      <4> QED BY <3>2, <4>2, <4>3
    <3>4. b.next \in Prints => Follows(b.next, S2 \cup Ahead(r, L))
      BY <1>3, <1>4, <1>5, <1>7, <1>10, <3>1, FollowsOn DEF S2
    <3> QED BY <3>1, <3>3, <3>4
  <2>5. b.st # "live" => Quiet(r, g, L)
    <3>1. b.st # "live" => Quiet(sent, f, L + 1)
      BY DEF Source, L
    <3> QED BY <1>2, <1>10, <3>1
  <2> QED BY <1>10, <2>1, <2>2, <2>3, <2>4, <2>5 DEF Source, S2
<1> QED BY <1>9, <1>10, <1>11, <1>12 DEF r, S2

(* Nothing is taken: what fitted still fits. *)
LEMMA QueueStays ==
  ASSUME NEW sent, NEW t, NEW f, NEW c, Queue(sent, t, f, c), Sound(t, f, c),
         NEW u, NEW g, NEW d, Sound(u, g, d), Carries(InHand(c, f), InHand(d, g)),
         t.any => u.any, g # NoFill => f # NoFill,
         NEW top \in Prints, \A k \in InHand(c, f) \cup Ahead(sent, Len(sent) + 1) : k <= top,
         NEW b, Source(b, sent, t, f, c)
  PROVE  /\ Queue(sent, u, g, d) /\ Source(b, sent, u, g, d)
         /\ \A k \in InHand(d, g) \cup Ahead(sent, Len(sent) + 1) : k <= top
<1> DEFINE L == Len(sent)
           S == InHand(c, f)
           S2 == InHand(d, g)
           Rest == Ahead(sent, L + 1)
<1>1. sent \in Seq(Sent) /\ L \in Nat /\ \A n \in 1 .. L : Fits(sent[n], sent, n, t, f, c)
  BY DEF Queue
<1>2. S \subseteq Prints /\ S2 \subseteq Prints
  BY HandIs
<1>3. \A n \in 1 .. L + 1 : Ahead(sent, n) \subseteq Prints
  BY <1>1, AheadPlaces
<1>4. Rest \subseteq Prints
  BY <1>1, <1>3
<1>5. \A n : Quiet(sent, f, n) => Quiet(sent, g, n)
  BY DEF Quiet
<1> HIDE DEF L, S, S2, Rest
<1>6. Carries(S, S2)
  BY DEF S, S2
<1>7. ASSUME NEW n \in 1 .. L PROVE Fits(sent[n], sent, n, u, g, d)
  <2> DEFINE e == sent[n]
  <2>1. Fits(e, sent, n, t, f, c) /\ e \in Sent /\ n \in 1 .. L + 1
    BY <1>1 DEF L
  <2>2. e.t = "live" => Follows(e.print, S2 \cup Ahead(sent, n))
    <3> SUFFICES ASSUME e.t = "live" PROVE Follows(e.print, S2 \cup Ahead(sent, n))
      OBVIOUS
    <3>1. e.print \in Prints /\ Ahead(sent, n) \subseteq Prints
      BY <1>3, <2>1 DEF Sent
    <3>2. Follows(e.print, S \cup Ahead(sent, n))
      BY <2>1 DEF Fits, S
    <3> QED BY <1>2, <1>6, <3>1, <3>2, FollowsOn
  <2> HIDE DEF e
  <2> QED BY <1>5, <2>1, <2>2 DEF Fits, S2, e
<1>8. Queue(sent, u, g, d)
  BY <1>1, <1>7 DEF Queue, L
<1>9. \A k \in S2 \cup Rest : k <= top
  <2>1. \A k \in S \cup Rest : k <= top
    BY DEF L, S, Rest
  <2>2. top \in Int
    BY StampsRise
  <2> QED BY <1>2, <1>4, <1>6, <2>1, <2>2, CarriesBelow
<1>10. Source(b, sent, u, g, d)
  <2>1. b \in Bridges /\ \A n \in 1 .. Len(b.opening) : b.opening[n] # << >> /\ Tidy(b.opening[n])
    BY DEF Source
  <2>2. /\ b.opening # << >> => u.any \/ Given(sent, Len(sent) + 1)
        /\ b.inbox # None \/ b.ask # None => u.any
        /\ b.st # "live" => Quiet(sent, g, Len(sent) + 1)
    BY <1>5 DEF Source
  <2>3. ASSUME b.st = "live"
        PROVE  /\ b.next >= 1 /\ \A k \in S2 \cup Rest : k < b.next
               /\ b.next \in Prints => Follows(b.next, S2 \cup Rest)
    <3>1. /\ b.next >= 1 /\ \A k \in S \cup Rest : k < b.next
          /\ b.next \in Prints => Follows(b.next, S \cup Rest)
      BY <2>3 DEF Source, L, S, Rest
    <3>2. b.next \in Int
      BY <2>1 DEF Bridges
    <3>3. \A k \in S2 \cup Rest : k < b.next
      <4>1. \A k \in S \cup Rest : k <= b.next - 1
        <5>1. \A k \in S \cup Rest : k \in Int
          BY <1>2, <1>4, StampsRise
        <5> QED BY <3>1, <3>2, <5>1
      <4>2. \A k \in S2 \cup Rest : k <= b.next - 1
        <5>1. b.next - 1 \in Int
          BY <3>2
        <5> QED BY <1>2, <1>4, <1>6, <4>1, <5>1, CarriesBelow
      <4>3. \A k \in S2 \cup Rest : k \in Int
        BY <1>2, <1>4, StampsRise
      <4> QED BY <3>2, <4>2, <4>3
    <3>4. b.next \in Prints => Follows(b.next, S2 \cup Rest)
      BY <1>2, <1>4, <1>6, <3>1, FollowsOn
    <3> QED BY <3>1, <3>3, <3>4
  <2> QED BY <2>1, <2>2, <2>3 DEF Source, L, S2, Rest
<1> QED BY <1>8, <1>9, <1>10 DEF L, S2, Rest

(* A step of the feed that takes an event. *)
LEMMA TakesStep ==
  ASSUME OrderInv, events # << >>, events' = Tail(events), bridge' = bridge, printed' = printed,
         canPage' \in BOOLEAN, pager' \in Pagers, pager'.queued # None => tape'.any,
         Sound(tape', fill', chart'),
         Carries(InHand(chart, fill) \cup Brings(Head(events)), InHand(chart', fill')),
         tape.any \/ Gives(Head(events)) => tape'.any,
         fill' # NoFill => /\ Head(events).t # "lost"
                           /\ fill # NoFill \/ Head(events).t = "backfilled"
  PROVE  OrderInv'
<1>1. /\ Queue(events, tape, fill, chart) /\ Sound(tape, fill, chart) /\ printed \in Prints
      /\ \A k \in InHand(chart, fill) \cup Ahead(events, Len(events) + 1) : k <= printed
      /\ Source(bridge, events, tape, fill, chart)
  BY DEF OrderInv
<1>2. /\ Queue(Tail(events), tape', fill', chart')
      /\ Source(bridge, Tail(events), tape', fill', chart')
      /\ \A k \in InHand(chart', fill') \cup Ahead(Tail(events), Len(Tail(events)) + 1) :
           k <= printed
  BY <1>1, QueueTaken
<1>3. /\ Queue(events', tape', fill', chart')
      /\ Source(bridge', events', tape', fill', chart')
      /\ \A k \in InHand(chart', fill') \cup Ahead(events', Len(events') + 1) : k <= printed'
  BY <1>2
<1> QED BY <1>1, <1>3 DEF OrderInv

(* A step of the feed that takes none. *)
LEMMA StaysStep ==
  ASSUME OrderInv, events' = events, bridge' = bridge, printed' = printed,
         canPage' \in BOOLEAN, pager' \in Pagers, pager'.queued # None => tape'.any,
         Sound(tape', fill', chart'),
         Carries(InHand(chart, fill), InHand(chart', fill')),
         tape.any => tape'.any, fill' # NoFill => fill # NoFill
  PROVE  OrderInv'
<1>1. /\ Queue(events, tape, fill, chart) /\ Sound(tape, fill, chart) /\ printed \in Prints
      /\ \A k \in InHand(chart, fill) \cup Ahead(events, Len(events) + 1) : k <= printed
      /\ Source(bridge, events, tape, fill, chart)
  BY DEF OrderInv
<1>2. /\ Queue(events, tape', fill', chart')
      /\ Source(bridge, events, tape', fill', chart')
      /\ \A k \in InHand(chart', fill') \cup Ahead(events, Len(events) + 1) : k <= printed
  BY <1>1, QueueStays
<1>3. /\ Queue(events', tape', fill', chart')
      /\ Source(bridge', events', tape', fill', chart')
      /\ \A k \in InHand(chart', fill') \cup Ahead(events', Len(events') + 1) : k <= printed'
  BY <1>2
<1> QED BY <1>1, <1>3 DEF OrderInv

(* What the feed knows of the event it takes. *)
LEMMA HeadIs ==
  ASSUME OrderInv, events # << >>
  PROVE  LET h == Head(events) IN
         /\ h.t = "connected" => h.pages \in BOOLEAN
         /\ h.t = "live" => /\ h.print \in Prints /\ Follows(h.print, InHand(chart, fill))
                            /\ Brings(h) = {h.print} /\ ~Gives(h)
         /\ h.t = "backfilled" => /\ Tidy(h.prints) /\ Brings(h) = Of(h.prints)
                                  /\ fill = NoFill /\ (Gives(h) <=> h.prints # << >>)
         /\ h.t = "opening" => Tidy(h.prints) /\ tape.any
         /\ h.t = "page" => /\ h \in [t : {"page"}, prints : Seq(Prints), exhausted : BOOLEAN,
                                      scanned : StampOrNone]
                            /\ Tidy(h.prints)
                            /\ tape.any \/ (h.prints = << >> /\ h.scanned = None)
         /\ h.t \in {"connected", "lost", "opening", "page"} => Brings(h) = {} /\ ~Gives(h)
<1> DEFINE h == Head(events)
<1>1. events \in Seq(Sent) /\ \A n \in 1 .. Len(events) :
        Fits(events[n], events, n, tape, fill, chart)
  BY DEF OrderInv, Queue
<1>2. h \in Sent /\ h = events[1] /\ 1 \in 1 .. Len(events)
  BY <1>1
<1> HIDE DEF h
<1>3. Fits(h, events, 1, tape, fill, chart)
  BY <1>1, <1>2
<1>4. Ahead(events, 1) = {} /\ ~Given(events, 1) /\ ~Over(events, 0, 1)
  BY DEF Ahead, Given, Over
<1>5. h.t = "connected" => h.pages \in BOOLEAN
  BY <1>2 DEF Sent
<1>6. h.t = "live" => h.print \in Prints
  BY <1>2 DEF Sent
<1>7. h.t = "page" => h \in [t : {"page"}, prints : Seq(Prints), exhausted : BOOLEAN,
                             scanned : StampOrNone]
  BY <1>2 DEF Sent
<1>8. h.t = "live" => Follows(h.print, InHand(chart, fill))
  BY <1>3, <1>4 DEF Fits
<1>9. h.t = "backfilled" => Tidy(h.prints) /\ fill = NoFill
  BY <1>3, <1>4 DEF Fits, Quiet
<1>10. h.t = "opening" => Tidy(h.prints) /\ tape.any
  BY <1>3, <1>4 DEF Fits
<1>11. h.t = "page" => Tidy(h.prints) /\ (tape.any \/ (h.prints = << >> /\ h.scanned = None))
  BY <1>3 DEF Fits
<1>12. /\ h.t = "live" => Brings(h) = {h.print} /\ ~Gives(h)
       /\ h.t = "backfilled" => Brings(h) = Of(h.prints) /\ (Gives(h) <=> h.prints # << >>)
       /\ h.t \in {"connected", "lost", "opening", "page"} => Brings(h) = {} /\ ~Gives(h)
  BY DEF Brings, Gives
<1> QED BY <1>5, <1>6, <1>7, <1>8, <1>9, <1>10, <1>11, <1>12 DEF h

-----------------------------------------------------------------------------
(* The feed's handlers. *)

(* A connection is announced. *)
LEMMA ConnectedOrder == OrderInv /\ OnConnected => OrderInv'
<1> SUFFICES ASSUME OrderInv, OnConnected PROVE OrderInv'
  OBVIOUS
<1>1. /\ events # << >> /\ Head(events).t = "connected" /\ events' = Tail(events)
      /\ canPage' = Head(events).pages
      /\ bridge' = bridge /\ printed' = printed /\ pager' = pager
      /\ tape' = tape /\ fill' = fill /\ chart' = chart
  BY DEF OnConnected, Next1, venueVars
<1>2. canPage' \in BOOLEAN /\ Brings(Head(events)) = {} /\ ~Gives(Head(events))
  BY <1>1, HeadIs
<1>3. /\ pager \in Pagers /\ (pager.queued # None => tape.any) /\ Sound(tape, fill, chart)
  BY DEF OrderInv
<1>4. InHand(chart, fill) \subseteq Prints
  BY <1>3, HandIs
<1>5. Carries(InHand(chart, fill) \cup Brings(Head(events)), InHand(chart, fill))
  BY <1>2, <1>4, CarriesSame
<1> QED BY <1>1, <1>2, <1>3, <1>5, TakesStep

(* A block: the chart's first prints, prints behind the chart, or the start *)
(* of a refill.                                                             *)
LEMMA BackfilledOrder == OrderInv /\ OnBackfilled => OrderInv'
<1> SUFFICES ASSUME OrderInv, OnBackfilled PROVE OrderInv'
  OBVIOUS
<1> DEFINE block  == Head(events).prints
           resume == [tape EXCEPT !.resent = TRUE, !.gap = None]
           tail   == PrintsPastSeam(block, Seam)
           C      == Of(chart.prints)
<1>1. /\ events # << >> /\ Head(events).t = "backfilled" /\ events' = Tail(events)
      /\ bridge' = bridge /\ printed' = printed /\ canPage' = canPage
  BY DEF OnBackfilled, Next1, venueVars
<1>2. /\ Tidy(block) /\ Brings(Head(events)) = Of(block) /\ fill = NoFill
      /\ (Gives(Head(events)) <=> block # << >>)
  BY <1>1, HeadIs
<1>3. /\ pager \in Pagers /\ (pager.queued # None => tape.any) /\ Sound(tape, fill, chart)
      /\ canPage \in BOOLEAN
  BY DEF OrderInv
<1>4. /\ Sound(tape, NoFill, chart) /\ tape \in Tapes /\ chart \in Charts /\ Ledger(tape, chart)
      /\ chart.prints \in Seq(Prints) /\ InHand(chart, fill) = C /\ C \subseteq Prints
      /\ Climbs(chart.prints) /\ Whole(C)
  BY <1>2, <1>3, HandIs DEF Sound, Ledger
<1>5. block \in Seq(Prints) /\ Climbs(block) /\ Whole(Of(block)) /\ Of(block) \subseteq Prints
  BY <1>2 DEF Tidy, Of
<1>6. resume \in Tapes /\ Sound(resume, NoFill, chart) /\ resume.any = tape.any
      /\ resume.last = tape.last /\ resume.atLast = tape.atLast /\ Ledger(resume, chart)
  <2>1. /\ resume \in Tapes /\ resume.any = tape.any /\ resume.last = tape.last
        /\ resume.atLast = tape.atLast /\ resume.oldest = tape.oldest /\ resume.floor = tape.floor
    BY <1>4 DEF Tapes, StampOrNone
  <2> HIDE DEF resume
  <2>2. Sound(resume, NoFill, chart)
    BY <1>4, <2>1, SoundAgain
  <2> QED BY <2>1, <2>2 DEF Sound
<1> HIDE DEF block, resume
<1>7. CASE block = << >> /\ UNCHANGED <<tape, fill, stray, chart, pager, faults>>
  <2>1. Of(block) = {}
    BY <1>7 DEF Of
  <2>2. Carries(InHand(chart, fill) \cup Brings(Head(events)), InHand(chart', fill'))
    BY <1>2, <1>4, <1>7, <2>1, CarriesSame
  <2> QED BY <1>1, <1>2, <1>3, <1>7, <2>2, TakesStep
<1>8. CASE /\ block # << >> /\ ~tape.any
           /\ tape' = Forwarded(tape, block)
           /\ chart' = [chart EXCEPT !.prints = block \o @]
           /\ UNCHANGED <<fill, stray, pager, faults>>
  <2>1. chart.prints = << >> /\ C = {}
    BY <1>4, <1>8 DEF Ledger, Of
  <2>2. block \o chart.prints = block /\ chart.prints \o block = block
    BY <1>5, <2>1
  <2>3. chart' \in Charts /\ chart'.prints = block
    BY <1>4, <1>5, <1>8, <2>2 DEF Charts
  <2>4. Ledger(tape', chart') /\ tape' \in Tapes /\ tape'.any
    <3>1. chart'.prints = chart.prints \o block
      BY <2>2, <2>3
    <3>2. Whole(C \cup Of(block)) /\ \A i \in C, j \in Of(block) : i < j
      BY <1>5, <2>1
    <3> QED BY <1>4, <1>5, <1>8, <3>1, <3>2, ForwardedIs
  <2>5. fill' = NoFill /\ Refilling(fill', tape', chart')
    BY <1>2, <1>8 DEF Refilling
  <2>6. Sound(tape', fill', chart')
    BY <2>3, <2>4, <2>5 DEF Sound
  <2>7. InHand(chart', fill') = InHand(chart, fill) \cup Brings(Head(events))
    BY <1>2, <1>4, <2>1, <2>3, <2>5 DEF InHand
  <2>8. Carries(InHand(chart, fill) \cup Brings(Head(events)), InHand(chart', fill'))
    BY <1>2, <1>4, <1>5, <2>7, CarriesSame
  <2> QED BY <1>1, <1>2, <1>3, <1>8, <2>4, <2>5, <2>6, <2>8, TakesStep
<1>9. CASE /\ block # << >> /\ tape.any /\ Ms[Head(block)] <= tape.last
           /\ tape' = Forwarded(resume, tail)
           /\ chart' = [chart EXCEPT !.prints = @ \o tail]
           /\ UNCHANGED <<fill, stray, pager, faults>>
  <2> DEFINE none == << >>
             s == tail \o none
  <2>0. none \in Seq(Prints) /\ Climbs(none) /\ Of(none) = {}
    BY DEF Climbs, Of
  <2>1. Seam = [last |-> resume.last, held |-> resume.atLast]
    BY <1>6 DEF Seam
  <2>2. Whole(C \cup (Of(block) \cup Of(none)))
    BY <1>4, <1>5, <2>0, WholeTogether
  <2> HIDE DEF none
  <2>3. /\ s \in Seq(Prints) /\ Climbs(s) /\ Whole(C \cup Of(s))
        /\ \A i \in C, j \in Of(s) : i < j
        /\ Carries(C \cup (Of(block) \cup Of(none)), C \cup Of(s))
    BY <1>2, <1>4, <1>6, <1>9, <2>0, <2>1, <2>2, SeamHolds
  <2>4. s = tail
    <3>1. tail \in Seq(Prints)
      BY <1>5, RetainedIs DEF PrintsPastSeam
    <3> HIDE DEF tail
    <3> QED BY <3>1 DEF none
  <2> HIDE DEF s
  <2>5. chart' = [chart EXCEPT !.prints = @ \o s] /\ tape' = Forwarded(resume, s)
    BY <1>9, <2>4
  <2> HIDE DEF tail
  <2>6. chart.prints \o s \in Seq(Prints) /\ Of(chart.prints \o s) = C \cup Of(s)
    BY <1>4, <2>3, CatIs
  <2>7. chart' \in Charts /\ chart'.prints = chart.prints \o s
    BY <1>4, <2>5, <2>6 DEF Charts
  <2>8. tape' \in Tapes /\ Ledger(tape', chart') /\ tape'.any
    <3>1. resume.any
      BY <1>6, <1>9
    <3>2. Forwarded(resume, s) \in Tapes /\ Ledger(Forwarded(resume, s), chart')
          /\ Forwarded(resume, s).any
      BY <1>4, <1>6, <2>3, <2>7, <3>1, ForwardedIs
    <3> QED BY <2>5, <3>2
  <2>9. fill' = NoFill /\ Refilling(fill', tape', chart')
    BY <1>2, <1>9 DEF Refilling
  <2>10. Sound(tape', fill', chart')
    BY <2>7, <2>8, <2>9 DEF Sound
  <2>11. InHand(chart', fill') = C \cup Of(s)
    BY <2>6, <2>7, <2>9 DEF InHand
  <2>12. Carries(InHand(chart, fill) \cup Brings(Head(events)), InHand(chart', fill'))
    BY <1>2, <1>4, <2>0, <2>3, <2>11
  <2> QED BY <1>1, <1>2, <1>3, <1>9, <2>8, <2>9, <2>10, <2>12, TakesStep
<1>10. CASE /\ block # << >> /\ tape.any /\ Ms[Head(block)] > tape.last
            /\ Drive(Begin(block, Seam, canPage), resume, chart)
  <2> DEFINE f == Begin(block, [last |-> resume.last, held |-> resume.atLast], canPage)
  <2>1. Seam = [last |-> resume.last, held |-> resume.atLast]
    BY <1>6 DEF Seam
  <2>2. f \in Fills /\ Sound(resume, f, chart) /\ InHand(chart, f) = C \cup Of(block)
    <3>1. Sound(resume, NoFill, chart) /\ resume.any /\ Tidy(block) /\ block # << >>
      BY <1>2, <1>6, <1>10
    <3> QED BY <1>3, <3>1, BegunIs
  <2> HIDE DEF f
  <2>3. Drive(f, resume, chart)
    BY <1>10, <2>1 DEF f
  <2>4. /\ Sound(tape', fill', chart') /\ tape'.any
        /\ Carries(InHand(chart, f), InHand(chart', fill'))
        /\ pager' \in Pagers
    BY <1>3, <1>6, <2>2, <2>3, DriveIs
  <2> QED BY <1>1, <1>2, <1>3, <1>4, <2>2, <2>4, TakesStep
<1> QED BY <1>7, <1>8, <1>9, <1>10 DEF OnBackfilled, block, resume

(* What trim_older lets through goes before the chart, as slice or as reply. *)
LEMMA OlderCharted ==
  ASSUME NEW p, Tidy(p), Sound(tape, fill, chart)
  PROVE  /\ [chart EXCEPT !.prints = Older(p) \o @] \in Charts
         /\ [chart EXCEPT !.prints = Older(p) \o @].prints = Older(p) \o chart.prints
<1>1. chart \in Charts /\ p \in Seq(Prints)
  BY DEF Sound, Tidy
<1>2. Older(p) \in Seq(Prints)
  BY <1>1, BeforeIs DEF Older, Tidy
<1>3. chart.prints \in Seq(Prints)
  BY <1>1 DEF Charts
<1>4. Older(p) \o chart.prints \in Seq(Prints)
  BY <1>2, <1>3
<1> QED BY <1>1, <1>4 DEF Charts

(* The same for a reply. *)
LEMMA OlderReplied ==
  ASSUME NEW p, Tidy(p), Sound(tape, fill, chart)
  PROVE  /\ Replied(chart, Older(p)) \in Charts
         /\ Replied(chart, Older(p)).prints = Older(p) \o chart.prints
<1> DEFINE d == [chart EXCEPT !.prints = Older(p) \o @]
           loads == Later(0, chart.loads - 1)
<1>1. d \in Charts /\ d.prints = Older(p) \o chart.prints /\ chart \in Charts
  BY OlderCharted DEF Sound
<1>2. loads \in {0, 1}
  BY <1>1 DEF Charts, Later
<1>3. Replied(chart, Older(p)) = [d EXCEPT !.loads = loads]
  BY <1>1 DEF Replied, Charts
<1> HIDE DEF d, loads
<1> QED BY <1>1, <1>2, <1>3 DEF Charts

(* A slice deepens the hand of the refill or the chart, or is turned away.  *)
LEMMA OpeningOrder == OrderInv /\ OnOpening => OrderInv'
<1> SUFFICES ASSUME OrderInv, OnOpening PROVE OrderInv'
  OBVIOUS
<1> DEFINE slice == Head(events).prints
           older == Older(slice)
<1>1. /\ events # << >> /\ Head(events).t = "opening" /\ events' = Tail(events)
      /\ bridge' = bridge /\ printed' = printed /\ canPage' = canPage
  BY DEF OnOpening, Next1, venueVars
<1>2. Tidy(slice) /\ tape.any /\ Brings(Head(events)) = {} /\ ~Gives(Head(events))
  BY <1>1, HeadIs
<1>3. /\ pager \in Pagers /\ (pager.queued # None => tape.any) /\ Sound(tape, fill, chart)
      /\ canPage \in BOOLEAN
  BY DEF OrderInv
<1>4. /\ InHand(chart, fill) \subseteq Prints /\ (fill # NoFill => fill \in Fills)
      /\ InHand(chart, fill) \cup Brings(Head(events)) = InHand(chart, fill)
  BY <1>2, <1>3, HandIs
<1> HIDE DEF slice
<1>5. CASE fill # NoFill /\ Drive(Absorb(fill, slice), tape, chart)
  <2> DEFINE f == Absorb(fill, slice)
  <2>1. f \in Fills /\ Sound(tape, f, chart) /\ Carries(InHand(chart, fill), InHand(chart, f))
    BY <1>2, <1>3, <1>4, <1>5, AbsorbIs
  <2>2. Drive(f, tape, chart)
    BY <1>5
  <2> HIDE DEF f
  <2>3. /\ Sound(tape', fill', chart') /\ tape'.any
        /\ Carries(InHand(chart, f), InHand(chart', fill'))
        /\ pager' \in Pagers
    BY <1>3, <2>1, <2>2, DriveIs
  <2>4. Carries(InHand(chart, fill), InHand(chart', fill'))
    <3>1. InHand(chart, f) \subseteq Prints /\ InHand(chart', fill') \subseteq Prints
      BY <2>1, <2>3, HandIs
    <3> QED BY <1>4, <2>1, <2>3, <3>1, CarriesOn
  <2> QED BY <1>1, <1>2, <1>3, <1>4, <1>5, <2>3, <2>4, TakesStep
<1>6. CASE fill = NoFill /\ UNCHANGED <<tape, fill, stray, chart, pager, faults>>
  <2>1. Carries(InHand(chart, fill), InHand(chart', fill'))
    BY <1>4, <1>6, CarriesSame
  <2> QED BY <1>1, <1>2, <1>3, <1>4, <1>6, <2>1, TakesStep
<1>7. CASE /\ fill = NoFill
           /\ tape' = Deepened(older, None)
           /\ chart' = [chart EXCEPT !.prints = older \o @]
           /\ UNCHANGED <<fill, stray, pager, faults>>
  <2>1. chart' \in Charts /\ chart'.prints = older \o chart.prints
    BY <1>2, <1>3, <1>7, OlderCharted
  <2>2. None \in StampOrNone
    BY DEF StampOrNone
  <2>3. /\ Sound(Deepened(older, None), fill, chart') /\ Deepened(older, None).any = tape.any
        /\ Carries(InHand(chart, fill), InHand(chart', fill))
    BY <1>2, <1>3, <2>1, <2>2, DeepenedIs
  <2> HIDE DEF older
  <2> QED BY <1>1, <1>2, <1>3, <1>4, <1>7, <2>3, TakesStep
<1> QED BY <1>5, <1>6, <1>7 DEF OnOpening, slice

(* A page for the refill, for nobody, or for the chart.                     *)
LEMMA PageOrder == OrderInv /\ OnPage => OrderInv'
<1> SUFFICES ASSUME OrderInv, OnPage PROVE OrderInv'
  OBVIOUS
<1> DEFINE page  == Head(events)
           older == Older(page.prints)
           t     == [Deepened(older, page.scanned) EXCEPT !.owed = FALSE]
           c     == Replied(chart, older)
<1>1. events # << >> /\ page.t = "page" /\ events' = Tail(events)
      /\ bridge' = bridge /\ printed' = printed
      /\ (canPage' = canPage \/ canPage' = (canPage /\ ~page.exhausted))
  BY DEF OnPage, Next1, venueVars
<1>2. /\ page \in [t : {"page"}, prints : Seq(Prints), exhausted : BOOLEAN, scanned : StampOrNone]
      /\ Tidy(page.prints) /\ page.scanned \in StampOrNone
      /\ tape.any \/ (page.prints = << >> /\ page.scanned = None)
      /\ Brings(page) = {} /\ ~Gives(page)
  BY <1>1, HeadIs
<1>3. /\ pager \in Pagers /\ (pager.queued # None => tape.any) /\ Sound(tape, fill, chart)
      /\ canPage \in BOOLEAN
  BY DEF OrderInv
<1>4. /\ InHand(chart, fill) \subseteq Prints /\ (fill # NoFill => fill \in Fills /\ tape.any)
      /\ InHand(chart, fill) \cup Brings(page) = InHand(chart, fill)
  BY <1>2, <1>3, HandIs DEF Sound, Refilling
<1>5. canPage' \in BOOLEAN
  BY <1>1, <1>2, <1>3
<1> HIDE DEF page
<1>6. ASSUME NEW f \in Fills, NEW u, NEW d, Sound(u, f, d), tape.any, u.any,
             Drive(f, u, d), Carries(InHand(chart, fill), InHand(d, f)), fill # NoFill
      PROVE  OrderInv'
  <2>1. /\ Sound(tape', fill', chart') /\ tape'.any
        /\ Carries(InHand(d, f), InHand(chart', fill'))
        /\ pager' \in Pagers
    BY <1>3, <1>6, DriveIs
  <2>2. Carries(InHand(chart, fill), InHand(chart', fill'))
    <3>1. InHand(d, f) \subseteq Prints /\ InHand(chart', fill') \subseteq Prints
      BY <1>6, <2>1, HandIs
    <3> QED BY <1>4, <1>6, <2>1, <3>1, CarriesOn
  <2> QED BY <1>1, <1>2, <1>4, <1>5, <1>6, <2>1, <2>2, TakesStep DEF page
<1>7. CASE fill # NoFill /\ Drive(PageIn(fill, page), tape, chart)
  <2> DEFINE f == PageIn(fill, page)
  <2>1. f \in Fills /\ Sound(tape, f, chart) /\ Carries(InHand(chart, fill), InHand(chart, f))
    BY <1>2, <1>3, <1>4, <1>7, PageInIs
  <2>2. Drive(f, tape, chart)
    BY <1>7
  <2> HIDE DEF f
  <2> QED BY <1>4, <1>6, <1>7, <2>1, <2>2
<1>8. CASE UNCHANGED <<tape, fill, chart, pager, faults>>
  <2>1. Carries(InHand(chart, fill), InHand(chart', fill'))
    BY <1>4, <1>8, CarriesSame
  <2> QED BY <1>1, <1>2, <1>3, <1>4, <1>5, <1>8, <2>1, TakesStep DEF page
<1>9. CASE Settled(t, c)
  <2> DEFINE u == Deepened(older, page.scanned)
  <2>1. c \in Charts /\ c.prints = older \o chart.prints
    BY <1>2, <1>3, OlderReplied
  <2> HIDE DEF c
  <2>2. Sound(u, fill, c) /\ u.any = tape.any /\ Carries(InHand(chart, fill), InHand(c, fill))
    BY <1>2, <1>3, <2>1, DeepenedIs
  <2>3. t \in Tapes /\ t.any = u.any /\ t.last = u.last /\ t.atLast = u.atLast
        /\ t.oldest = u.oldest /\ t.floor = u.floor
    <3>1. u \in Tapes
      BY <2>2 DEF Sound
    <3> HIDE DEF u
    <3>2. t = [u EXCEPT !.owed = FALSE]
      BY DEF u
    <3> HIDE DEF t
    <3> QED BY <3>1, <3>2 DEF Tapes
  <2> HIDE DEF u, t
  <2>4. Sound(t, fill, c)
    <3>1. c \in Charts /\ c.prints = c.prints
      BY <2>1
    <3> QED BY <2>2, <2>3, <3>1, SoundAgain
  <2>5. CASE fill # NoFill /\ Drive(fill, t, c)
    BY <1>4, <1>6, <2>2, <2>3, <2>4, <2>5
  <2>6. CASE fill = NoFill /\ tape' = t /\ chart' = c /\ UNCHANGED <<fill, stray, pager, faults>>
    <3>1. Sound(tape', fill', chart') /\ Carries(InHand(chart, fill), InHand(chart', fill'))
      BY <2>2, <2>4, <2>6
    <3>2. pager' = pager /\ fill' = fill /\ tape'.any = tape.any
      BY <2>2, <2>3, <2>6
    <3> QED BY <1>1, <1>2, <1>3, <1>4, <1>5, <3>1, <3>2, <2>6, TakesStep DEF page
  <2> QED BY <1>9, <2>5, <2>6 DEF Settled
<1> QED BY <1>7, <1>8, <1>9 DEF OnPage, page

(* A live print: forwarded, held, or the one too many to hold. *)
LEMMA LiveOrder == OrderInv /\ OnLive => OrderInv'
<1> SUFFICES ASSUME OrderInv, OnLive PROVE OrderInv'
  OBVIOUS
<1> DEFINE i    == Head(events).print
           held == [fill EXCEPT !.held = Append(@, i)]
           S    == InHand(chart, fill)
<1>1. /\ events # << >> /\ Head(events).t = "live" /\ events' = Tail(events)
      /\ bridge' = bridge /\ printed' = printed /\ canPage' = canPage /\ pager' = pager
  BY DEF OnLive, Next1, venueVars
<1>2. i \in Prints /\ Follows(i, S) /\ Brings(Head(events)) = {i} /\ ~Gives(Head(events))
  BY <1>1, HeadIs
<1>3. /\ pager \in Pagers /\ (pager.queued # None => tape.any) /\ Sound(tape, fill, chart)
      /\ canPage \in BOOLEAN
  BY DEF OrderInv
<1>4. /\ S \subseteq Prints /\ (fill # NoFill => fill \in Fills /\ tape.any)
      /\ chart.prints \in Seq(Prints) /\ tape \in Tapes /\ chart \in Charts
      /\ InHand(chart, NoFill) = Of(chart.prints)
  BY <1>3, HandIs DEF Sound, Refilling
<1>5. S \cup {i} \subseteq Prints
  BY <1>2, <1>4
<1> HIDE DEF i, S
<1>6. CASE /\ fill = NoFill
           /\ tape' = Forwarded(tape, <<i>>)
           /\ chart' = [chart EXCEPT !.gaps = @ \cup OwedGap(tape, i), !.prints = Append(@, i)]
           /\ UNCHANGED <<fill, stray>>
  <2>1. OwedGap(tape, i) \subseteq [from : Stamps, to : Stamps]
    BY <1>2, <1>4, StampsRise DEF OwedGap, Tapes, StampOrNone
  <2>2. Append(chart.prints, i) \in Seq(Prints)
    BY <1>2, <1>4
  <2>3. chart' \in Charts /\ chart'.prints = Append(chart.prints, i)
    BY <1>4, <1>6, <2>1, <2>2 DEF Charts
  <2>4. Follows(i, InHand(chart, NoFill)) /\ Sound(tape, NoFill, chart) /\ S = InHand(chart, NoFill)
    BY <1>2, <1>3, <1>6 DEF S
  <2>5. /\ Sound(Forwarded(tape, <<i>>), NoFill, chart') /\ Forwarded(tape, <<i>>).any
        /\ InHand(chart', NoFill) = S \cup {i}
    BY <1>2, <2>3, <2>4, LiveIs
  <2>6. Carries(S \cup Brings(Head(events)), InHand(chart', fill'))
    BY <1>2, <1>5, <1>6, <2>5, CarriesSame
  <2> QED BY <1>1, <1>2, <1>3, <1>6, <2>5, <2>6, TakesStep DEF S
<1>7. ASSUME fill # NoFill
      PROVE  /\ held \in Fills /\ Sound(tape, held, chart) /\ InHand(chart, held) = S \cup {i}
             /\ tape.any
  <2>1. fill \in Fills /\ tape.any
    BY <1>4, <1>7
  <2>2. i \in Prints /\ Follows(i, InHand(chart, fill)) /\ Sound(tape, fill, chart)
    BY <1>2, <1>3 DEF S
  <2>3. /\ held \in Fills /\ Sound(tape, held, chart)
        /\ InHand(chart, held) = InHand(chart, fill) \cup {i}
    BY <2>1, <2>2, HeldIs
  <2> HIDE DEF held
  <2> QED BY <2>1, <2>3 DEF S
<1>8. CASE /\ fill # NoFill
           /\ fill' = held
           /\ UNCHANGED <<tape, stray, chart>>
  <2>1. Carries(S \cup Brings(Head(events)), InHand(chart', fill'))
    BY <1>2, <1>5, <1>7, <1>8, CarriesSame
  <2>2. Sound(tape', fill', chart')
    BY <1>7, <1>8
  <2> HIDE DEF held
  <2> QED BY <1>1, <1>2, <1>3, <1>7, <1>8, <2>1, <2>2, TakesStep DEF S
<1>9. CASE fill # NoFill /\ Release(held, tape, chart)
  <2> HIDE DEF held
  <2>1. /\ fill' = NoFill /\ tape' = Forwarded(tape, Releases(held))
        /\ chart' = ChartWith(chart, held)
    BY <1>9 DEF Release
  <2>2. /\ Sound(tape', fill', chart') /\ tape'.any
        /\ Carries(InHand(chart, held), InHand(chart', fill'))
    BY <1>7, <1>9, <2>1, ReleasedIs
  <2>3. Carries(S \cup Brings(Head(events)), InHand(chart', fill'))
    BY <1>2, <1>7, <1>9, <2>2
  <2> QED BY <1>1, <1>2, <1>3, <2>1, <2>2, <2>3, TakesStep DEF S
<1> QED BY <1>6, <1>8, <1>9 DEF OnLive, i

(* The end of a session: the refill ends with what it has, a page that died *)
(* with it is answered empty.                                               *)
LEMMA LostOrder == OrderInv /\ OnLost => OrderInv'
<1> SUFFICES ASSUME OrderInv, OnLost PROVE OrderInv'
  OBVIOUS
<1> DEFINE t == IF fill = NoFill THEN tape ELSE Forwarded(tape, Releases(fill))
           c == IF fill = NoFill THEN chart ELSE ChartWith(chart, fill)
           S == InHand(chart, fill)
<1>1. /\ events # << >> /\ Head(events).t = "lost" /\ events' = Tail(events)
      /\ bridge' = bridge /\ printed' = printed /\ canPage' = canPage /\ pager' = pager
      /\ fill' = NoFill /\ tape' = SessionLost(t) /\ chart' = DeadPage(t, c)
  BY DEF OnLost, Next1, venueVars
<1>2. Brings(Head(events)) = {} /\ ~Gives(Head(events))
  BY <1>1, HeadIs
<1>3. /\ pager \in Pagers /\ (pager.queued # None => tape.any) /\ Sound(tape, fill, chart)
      /\ canPage \in BOOLEAN
  BY DEF OrderInv
<1>4. S \subseteq Prints /\ (fill # NoFill => fill \in Fills)
  BY <1>3, HandIs
<1>5. Sound(t, NoFill, c) /\ (tape.any => t.any) /\ Carries(S, InHand(c, NoFill))
  <2>1. CASE fill = NoFill
    BY <1>3, <1>4, <2>1, CarriesSame
  <2>2. CASE fill # NoFill
    <3>1. fill \in Fills
      BY <1>4, <2>2
    <3>2. /\ Sound(Forwarded(tape, Releases(fill)), NoFill, ChartWith(chart, fill))
          /\ Forwarded(tape, Releases(fill)).any
          /\ Carries(S, InHand(ChartWith(chart, fill), NoFill))
      BY <1>3, <3>1, ReleasedIs
    <3> QED BY <2>2, <3>2
  <2> QED BY <2>1, <2>2
<1> HIDE DEF t, c, S
<1>6. t \in Tapes /\ c \in Charts
  BY <1>5 DEF Sound
<1>7. /\ SessionLost(t) \in Tapes /\ SessionLost(t).any = t.any /\ SessionLost(t).last = t.last
      /\ SessionLost(t).atLast = t.atLast /\ SessionLost(t).oldest = t.oldest
      /\ SessionLost(t).floor = t.floor
  BY <1>6 DEF SessionLost, Tapes
<1>8. DeadPage(t, c) \in Charts /\ DeadPage(t, c).prints = c.prints
  <2> DEFINE loads == Later(0, c.loads - 1)
             none  == << >>
  <2>1. c.prints \in Seq(Prints) /\ loads \in {0, 1}
    BY <1>6 DEF Charts, Later
  <2>2. none \o c.prints = c.prints
    BY <2>1
  <2> HIDE DEF none
  <2>3. Replied(c, none) = [c EXCEPT !.prints = none \o @, !.loads = loads]
    BY DEF Replied
  <2> HIDE DEF loads
  <2>4. Replied(c, none) \in Charts /\ Replied(c, none).prints = c.prints
    BY <1>6, <2>1, <2>2, <2>3 DEF Charts
  <2> QED BY <1>6, <2>4 DEF DeadPage, none
<1>9. Sound(tape', fill', chart') /\ InHand(chart', fill') = InHand(c, NoFill)
  <2> DEFINE u == SessionLost(t)
             d == DeadPage(t, c)
  <2>1. /\ u \in Tapes /\ d \in Charts /\ u.any = t.any /\ u.last = t.last /\ u.atLast = t.atLast
        /\ u.oldest = t.oldest /\ u.floor = t.floor /\ d.prints = c.prints
    BY <1>7, <1>8
  <2>2. tape' = u /\ chart' = d
    BY <1>1
  <2> HIDE DEF u, d
  <2> QED BY <1>1, <1>5, <2>1, <2>2, SoundAgain
<1>10. Carries(S \cup Brings(Head(events)), InHand(chart', fill'))
  <2>1. S \cup Brings(Head(events)) = S
    BY <1>2
  <2> QED BY <1>5, <1>9, <2>1
<1>11. tape.any => tape'.any
  BY <1>1, <1>5, <1>7
<1> QED BY <1>1, <1>2, <1>3, <1>9, <1>10, <1>11, TakesStep DEF S

(* The refill's deadline. *)
LEMMA DeadlineOrder == OrderInv /\ OnRefillDeadline => OrderInv'
<1> SUFFICES ASSUME OrderInv, OnRefillDeadline PROVE OrderInv'
  OBVIOUS
<1>1. /\ events' = events /\ bridge' = bridge /\ printed' = printed /\ canPage' = canPage
      /\ pager' = pager /\ fill # NoFill /\ fill' = NoFill
      /\ tape' = Forwarded(tape, Releases(fill)) /\ chart' = ChartWith(chart, fill)
  BY DEF OnRefillDeadline, Release, venueVars
<1>2. /\ pager \in Pagers /\ (pager.queued # None => tape.any) /\ Sound(tape, fill, chart)
      /\ canPage \in BOOLEAN
  BY DEF OrderInv
<1>3. fill \in Fills
  BY <1>1, <1>2, HandIs
<1>4. /\ Sound(tape', fill', chart') /\ tape'.any
      /\ Carries(InHand(chart, fill), InHand(chart', fill'))
  BY <1>1, <1>2, <1>3, ReleasedIs
<1> QED BY <1>1, <1>2, <1>4, StaysStep

(* A press. *)
LEMMA LoadOrder == OrderInv /\ LoadOlder => OrderInv'
<1> SUFFICES ASSUME OrderInv, LoadOlder PROVE OrderInv'
  OBVIOUS
<1>1. /\ events' = events /\ bridge' = bridge /\ printed' = printed /\ canPage' = canPage
      /\ fill' = fill
  BY DEF LoadOlder
<1>2. /\ pager \in Pagers /\ (pager.queued # None => tape.any) /\ Sound(tape, fill, chart)
      /\ canPage \in BOOLEAN
  BY DEF OrderInv
<1>3. /\ tape \in Tapes /\ chart \in Charts /\ Ledger(tape, chart)
      /\ InHand(chart, fill) \subseteq Prints
  BY <1>2, HandIs DEF Sound
<1>4. CASE UNCHANGED <<pager, faults, tape, chart>>
  <2>1. Carries(InHand(chart, fill), InHand(chart', fill'))
    BY <1>1, <1>3, <1>4, CarriesSame
  <2> QED BY <1>1, <1>2, <1>4, <2>1, StaysStep
<1>5. CASE /\ tape.floor # None /\ Request(tape.floor)
           /\ tape' = [tape EXCEPT !.owed = TRUE]
           /\ chart' = [chart EXCEPT !.loads = 1]
  <2>1. /\ tape' \in Tapes /\ tape'.any = tape.any /\ tape'.last = tape.last
        /\ tape'.atLast = tape.atLast /\ tape'.oldest = tape.oldest /\ tape'.floor = tape.floor
    BY <1>3, <1>5 DEF Tapes
  <2>2. chart' \in Charts /\ chart'.prints = chart.prints
    BY <1>3, <1>5 DEF Charts
  <2>3. Sound(tape', fill', chart') /\ InHand(chart', fill') = InHand(chart, fill)
    BY <1>1, <1>2, <2>1, <2>2, SoundAgain
  <2>4. Carries(InHand(chart, fill), InHand(chart', fill'))
    BY <1>3, <2>3, CarriesSame
  <2>5. tape.any
    BY <1>3, <1>5 DEF Ledger, Tapes
  <2>6. pager' \in Pagers
    BY <1>2, <1>3, <1>5 DEF Request, Pagers, Tapes
  <2> QED BY <1>1, <1>2, <2>1, <2>3, <2>4, <2>5, <2>6, StaysStep
<1> QED BY <1>4, <1>5 DEF LoadOlder

-----------------------------------------------------------------------------
(* The venue, the bridge and the connection. *)

(* A step that leaves the feed alone and sends one event more after sent.   *)
LEMMA SendsStep ==
  ASSUME OrderInv, NEW sent, Queue(sent, tape, fill, chart),
         \A k \in InHand(chart, fill) \cup Ahead(sent, Len(sent) + 1) : k <= printed,
         NEW e \in Sent, events' = Append(sent, e), Fits(e, sent, Len(sent) + 1, tape, fill, chart),
         \A k \in Brings(e) : k <= printed,
         printed' = printed, canPage' = canPage, tape' = tape, fill' = fill, chart' = chart,
         pager' \in Pagers, pager'.queued # None => tape.any,
         Source(bridge', Append(sent, e), tape, fill, chart)
  PROVE  OrderInv'
<1>1. sent \in Seq(Sent)
  BY DEF Queue
<1>2. Queue(events', tape', fill', chart')
  BY QueueAppends
<1>3. Ahead(events', Len(events') + 1) = Ahead(sent, Len(sent) + 1) \cup Brings(e)
  <2>1. Len(Append(sent, e)) = Len(sent) + 1 /\ Len(sent) \in Nat
        /\ Ahead(Append(sent, e), Len(sent) + 2) = Ahead(sent, Len(sent) + 1) \cup Brings(e)
    BY <1>1, AppendIs
  <2>2. (Len(sent) + 1) + 1 = Len(sent) + 2
    BY <2>1
  <2> QED BY <2>1, <2>2
<1>4. InHand(chart', fill') = InHand(chart, fill)
  BY DEF InHand
<1>5. \A k \in InHand(chart', fill') \cup Ahead(events', Len(events') + 1) : k <= printed'
  BY <1>3, <1>4
<1>6. Source(bridge', events', tape', fill', chart')
  OBVIOUS
<1> QED BY <1>2, <1>5, <1>6 DEF OrderInv

(* The bridge's next print and its session are what they were. *)
LEMMA SourceAgain ==
  ASSUME NEW sent, NEW t, NEW f, NEW c, NEW b, Source(b, sent, t, f, c), NEW a \in Bridges,
         a.st = b.st, a.next = b.next, a.opening # << >> => b.opening # << >>,
         \A n \in 1 .. Len(a.opening) : a.opening[n] # << >> /\ Tidy(a.opening[n]),
         a.inbox # None \/ a.ask # None => t.any
  PROVE  Source(a, sent, t, f, c)
BY DEF Source

(* The venue prints. *)
LEMMA TradeOrder == OrderInv /\ Trade => OrderInv'
<1> SUFFICES ASSUME OrderInv, Trade PROVE OrderInv'
  OBVIOUS
<1>1. /\ printed < Len(Ms) /\ printed' = printed + 1 /\ bridge' = bridge /\ pager' = pager
      /\ events' = events /\ canPage' = canPage /\ tape' = tape /\ fill' = fill /\ chart' = chart
  BY DEF Trade, feedVars
<1>2. printed' \in Prints
  BY <1>1, StampsRise DEF OrderInv
<1>3. InHand(chart, fill) \subseteq Prints /\ Ahead(events, Len(events) + 1) \subseteq Prints
  <2>1. events \in Seq(Sent) /\ Len(events) + 1 \in 1 .. Len(events) + 1
    BY DEF OrderInv, Queue
  <2> QED BY <2>1, HandIs, AheadPlaces DEF OrderInv
<1>4. \A k \in InHand(chart, fill) \cup Ahead(events, Len(events) + 1) : k <= printed'
  BY <1>1, <1>3, StampsRise DEF OrderInv
<1>5. \A k \in InHand(chart', fill') \cup Ahead(events', Len(events') + 1) : k <= printed'
  BY <1>1, <1>4
<1>6. /\ Sound(tape', fill', chart') /\ Queue(events', tape', fill', chart')
      /\ Source(bridge', events', tape', fill', chart')
      /\ canPage' \in BOOLEAN /\ pager' \in Pagers /\ (pager'.queued # None => tape'.any)
  BY <1>1 DEF OrderInv
<1> QED BY <1>2, <1>5, <1>6 DEF OrderInv

(* A bridge connects. *)
LEMMA DialOrder == OrderInv /\ Dial => OrderInv'
<1> SUFFICES ASSUME OrderInv, Dial PROVE OrderInv'
  OBVIOUS
<1>1. PICK pages \in Pagings : /\ bridge' = [Off EXCEPT !.st = "hello", !.pages = pages]
                               /\ events' = Append(events, [t |-> "connected", pages |-> pages])
  BY DEF Dial, Send
<1> DEFINE e == [t |-> "connected", pages |-> pages]
<1>2. /\ bridge.st = "off" /\ printed' = printed /\ canPage' = canPage /\ pager' = pager
      /\ tape' = tape /\ fill' = fill /\ chart' = chart
  BY DEF Dial, venueVars, feedVars
<1>3. pages \in BOOLEAN
  BY TapeAssumption
<1>4. e \in Sent /\ Brings(e) = {} /\ e.t = "connected"
  BY <1>3 DEF Sent, Brings
<1> HIDE DEF e
<1>5. Fits(e, events, Len(events) + 1, tape, fill, chart)
  BY <1>4 DEF Fits
<1>6. /\ bridge' \in Bridges /\ bridge'.st = "hello" /\ bridge'.opening = << >>
      /\ bridge'.inbox = None /\ bridge'.ask = None
  <2> DEFINE none == << >>
  <2>1. none \in Seq(Seq(Prints)) /\ 0 \in 0 .. Len(Ms) + 1 /\ None \in StampOrNone
    BY StampsRise DEF StampOrNone
  <2>2. bridge' = [st |-> "hello", pages |-> pages, next |-> 0, opening |-> none,
                   inbox |-> None, ask |-> None]
    BY <1>1 DEF Off
  <2> HIDE DEF none
  <2>3. bridge' \in Bridges /\ bridge'.st = "hello" /\ bridge'.opening = none
        /\ bridge'.inbox = None /\ bridge'.ask = None
    BY <1>3, <2>1, <2>2 DEF Bridges
  <2> QED BY <2>3 DEF none
<1>7. Quiet(events, fill, Len(events) + 1)
  BY <1>2 DEF OrderInv, Source
<1>8. Quiet(Append(events, e), fill, Len(events) + 2) /\ Len(Append(events, e)) = Len(events) + 1
      /\ Len(events) \in Nat
  BY <1>4, <1>7, AppendIs DEF OrderInv, Queue
<1>9. Source(bridge', Append(events, e), tape, fill, chart)
  <2>1. Len(Append(events, e)) + 1 = Len(events) + 2
    BY <1>8
  <2>2. Len(bridge'.opening) = 0
    BY <1>6
  <2> QED BY <1>6, <1>8, <2>1, <2>2 DEF Source
<1>10. events' = Append(events, e)
  BY <1>1 DEF e
<1> QED BY <1>2, <1>4, <1>5, <1>9, <1>10, SendsStep DEF OrderInv

(* A live print is sent: the next one follows it.                           *)
LEMMA PumpOrder == OrderInv /\ Pump => OrderInv'
<1> SUFFICES ASSUME OrderInv, Pump PROVE OrderInv'
  OBVIOUS
<1> DEFINE i == bridge.next
           e == [t |-> "live", print |-> i]
           S == InHand(chart, fill) \cup Ahead(events, Len(events) + 1)
           q == Append(events, e)
<1>1. /\ bridge.st = "live" /\ i <= printed /\ events' = q
      /\ bridge' = [bridge EXCEPT !.next = @ + 1]
      /\ printed' = printed /\ canPage' = canPage /\ pager' = pager
      /\ tape' = tape /\ fill' = fill /\ chart' = chart
  BY DEF Pump, Send, venueVars, feedVars
<1>2. Source(bridge, events, tape, fill, chart) /\ printed \in Prints /\ events \in Seq(Sent)
  BY DEF OrderInv, Queue
<1>3. bridge \in Bridges /\ i \in 0 .. Len(Ms) + 1 /\ i >= 1 /\ \A k \in S : k < i
  BY <1>1, <1>2 DEF Source, Bridges
<1>4. i \in Prints
  BY <1>1, <1>2, <1>3, StampsRise
<1>5. Follows(i, S)
  BY <1>1, <1>2, <1>4 DEF Source
<1>6. e \in Sent /\ Brings(e) = {i} /\ e.t = "live" /\ e.print = i /\ ~Gives(e)
  BY <1>4 DEF Sent, Brings, Gives
<1>7. S \subseteq Prints
  <2>1. Len(events) + 1 \in 1 .. Len(events) + 1
    BY <1>2
  <2> QED BY <1>2, <2>1, HandIs, AheadPlaces DEF OrderInv
<1> HIDE DEF i, e
<1>8. /\ Len(q) + 1 = Len(events) + 2
      /\ Ahead(q, Len(events) + 2) = Ahead(events, Len(events) + 1) \cup {i}
      /\ (Given(events, Len(events) + 1) => Given(q, Len(events) + 2))
  <2>1. /\ Len(q) = Len(events) + 1 /\ Len(events) \in Nat
        /\ Ahead(q, Len(events) + 2) = Ahead(events, Len(events) + 1) \cup Brings(e)
        /\ (Given(q, Len(events) + 2) <=> Given(events, Len(events) + 1) \/ Gives(e))
    BY <1>2, <1>6, AppendIs
  <2> QED BY <1>6, <2>1
<1>9. Fits(e, events, Len(events) + 1, tape, fill, chart)
  BY <1>5, <1>6 DEF Fits
<1>10. InHand(chart, fill) \cup Ahead(q, Len(q) + 1) = S \cup {i}
  BY <1>8
<1> HIDE DEF S, q
<1>11. /\ bridge' \in Bridges /\ bridge'.st = "live" /\ bridge'.next = i + 1
       /\ bridge'.opening = bridge.opening /\ bridge'.inbox = bridge.inbox
       /\ bridge'.ask = bridge.ask
  <2> DEFINE after == i + 1
  <2>1. after \in 0 .. Len(Ms) + 1
    BY <1>4, StampsRise
  <2>2. bridge' = [bridge EXCEPT !.next = after]
    BY <1>1 DEF i
  <2>3. after = i + 1
    OBVIOUS
  <2> HIDE DEF after
  <2> QED BY <1>1, <1>3, <2>1, <2>2, <2>3 DEF Bridges
<1>12. \A k \in S \cup {i} : k < i + 1
  BY <1>3, <1>4, <1>7, StampsRise
<1>13. i + 1 \in Prints => Follows(i + 1, S \cup {i})
  <2> SUFFICES ASSUME i + 1 \in Prints, NEW j \in Prints, j < i + 1, Ms[j] = Ms[i + 1], j # i
               PROVE  j \in S
    BY <1>12 DEF Follows
  <2>1. j < i /\ i \in Nat
    BY <1>4, StampsRise
  <2>2. Ms[i] = Ms[i + 1]
    BY <2>1, Together, StampsRise
  <2> QED BY <1>5, <2>1, <2>2 DEF Follows
<1>14. Source(bridge', q, tape, fill, chart)
  <2>1. /\ \A n \in 1 .. Len(bridge'.opening) :
             bridge'.opening[n] # << >> /\ Tidy(bridge'.opening[n])
        /\ bridge'.opening # << >> => tape.any \/ Given(q, Len(q) + 1)
        /\ bridge'.inbox # None \/ bridge'.ask # None => tape.any
    BY <1>2, <1>8, <1>11 DEF Source
  <2>2. /\ bridge'.next >= 1 /\ \A k \in S \cup {i} : k < bridge'.next
        /\ bridge'.next \in Prints => Follows(bridge'.next, S \cup {i})
    BY <1>3, <1>11, <1>12, <1>13
  <2> QED BY <1>10, <1>11, <2>1, <2>2 DEF Source
<1>15. \A k \in Brings(e) : k <= printed
  BY <1>1, <1>6
<1>16. \A k \in InHand(chart, fill) \cup Ahead(events, Len(events) + 1) : k <= printed
  BY DEF OrderInv
<1> QED BY <1>1, <1>2, <1>6, <1>9, <1>14, <1>15, <1>16, SendsStep DEF OrderInv, q

(* A block is sent: everything up to the newest print, or nothing and the   *)
(* tape from the clock on.                                                  *)
LEMMA BackfillOrder == OrderInv /\ Backfill => OrderInv'
<1> SUFFICES ASSUME OrderInv, Backfill PROVE OrderInv'
  OBVIOUS
<1> DEFINE S == InHand(chart, fill) \cup Ahead(events, Len(events) + 1)
<1>1. /\ bridge.st = "hello" /\ printed' = printed /\ canPage' = canPage /\ pager' = pager
      /\ tape' = tape /\ fill' = fill /\ chart' = chart
  BY DEF Backfill, venueVars, feedVars
<1>2. /\ Source(bridge, events, tape, fill, chart) /\ printed \in Prints /\ events \in Seq(Sent)
      /\ pager \in Pagers /\ (pager.queued # None => tape.any)
      /\ Queue(events, tape, fill, chart) /\ \A k \in S : k <= printed
  BY DEF OrderInv, Queue
<1>3. /\ bridge \in Bridges /\ (bridge.inbox # None \/ bridge.ask # None => tape.any)
      /\ Quiet(events, fill, Len(events) + 1) /\ \A n \in 1 .. Len(bridge.opening) :
                                       bridge.opening[n] # << >> /\ Tidy(bridge.opening[n])
      /\ (bridge.opening # << >> => tape.any \/ Given(events, Len(events) + 1))
  BY <1>1, <1>2 DEF Source
<1>4. S \subseteq Prints
  <2>1. Len(events) + 1 \in 1 .. Len(events) + 1
    BY <1>2
  <2> QED BY <1>2, <2>1, HandIs, AheadPlaces DEF OrderInv
<1>5. printed \in Nat /\ printed >= 1 /\ printed <= Len(Ms) /\ 1 \in Prints
  BY <1>2, StampsRise
<1> HIDE DEF S
(* What either way of it comes to. *)
<1>6. ASSUME NEW block, Tidy(block), \A k \in Of(block) : k <= printed,
             NEW rest \in Seq(Seq(Prints)),
             \A n \in 1 .. Len(rest) : rest[n] # << >> /\ Tidy(rest[n]),
             rest # << >> => block # << >> \/ tape.any \/ Given(events, Len(events) + 1),
             NEW next \in 1 .. Len(Ms) + 1, printed < next,
             next \in Prints => \A j \in Prints : j < next /\ Ms[j] = Ms[next] => j \in Of(block),
             events' = Append(events, [t |-> "backfilled", prints |-> block]),
             bridge' = [bridge EXCEPT !.st = "live", !.next = next, !.opening = rest]
      PROVE  OrderInv'
  <2> DEFINE e == [t |-> "backfilled", prints |-> block]
             q == Append(events, e)
  <2>1. /\ e \in Sent /\ Brings(e) = Of(block) /\ e.t = "backfilled" /\ e.prints = block
        /\ (Gives(e) <=> block # << >>)
    BY <1>6 DEF Sent, Brings, Gives, Tidy
  <2>2. events' = Append(events, e)
    BY <1>6
  <2> HIDE DEF e
  <2>3. Fits(e, events, Len(events) + 1, tape, fill, chart)
    BY <1>3, <1>6, <2>1 DEF Fits
  <2>4. /\ Len(q) + 1 = Len(events) + 2
        /\ Ahead(q, Len(events) + 2) = Ahead(events, Len(events) + 1) \cup Of(block)
        /\ (Given(q, Len(events) + 2) <=> Given(events, Len(events) + 1) \/ block # << >>)
    <3>1. /\ Len(q) = Len(events) + 1 /\ Len(events) \in Nat
          /\ Ahead(q, Len(events) + 2) = Ahead(events, Len(events) + 1) \cup Brings(e)
          /\ (Given(q, Len(events) + 2) <=> Given(events, Len(events) + 1) \/ Gives(e))
      BY <1>2, <2>1, AppendIs
    <3> QED BY <2>1, <3>1
  <2>5. InHand(chart, fill) \cup Ahead(q, Len(q) + 1) = S \cup Of(block)
    BY <2>4 DEF S
  <2> HIDE DEF q
  <2>6. /\ bridge' \in Bridges /\ bridge'.st = "live" /\ bridge'.next = next
        /\ bridge'.opening = rest /\ bridge'.inbox = bridge.inbox /\ bridge'.ask = bridge.ask
    <3>1. next \in 0 .. Len(Ms) + 1
      BY <1>6
    <3> QED BY <1>3, <1>6, <3>1 DEF Bridges
  <2>7. \A k \in S \cup Of(block) : k < next
    <3>1. Of(block) \subseteq Prints
      BY <1>6 DEF Tidy, Of
    <3>2. \A k \in S \cup Of(block) : k \in Int /\ k <= printed
      BY <1>2, <1>4, <1>6, <3>1, StampsRise
    <3>3. next \in Int
      BY <1>6, StampsRise
    <3> QED BY <1>5, <1>6, <3>2, <3>3
  <2>8. next \in Prints => Follows(next, S \cup Of(block))
    BY <1>6, <2>7 DEF Follows
  <2>9. next >= 1
    BY <1>6, StampsRise
  <2>10. rest # << >> => tape.any \/ Given(q, Len(q) + 1)
    BY <1>6, <2>4
  <2>11. Source(bridge', q, tape, fill, chart)
    BY <1>3, <1>6, <2>5, <2>6, <2>7, <2>8, <2>9, <2>10 DEF Source
  <2>12. \A k \in Brings(e) : k <= printed
    BY <1>6, <2>1
  <2> QED BY <1>1, <1>2, <2>1, <2>2, <2>3, <2>11, <2>12, SendsStep DEF S, q
<1>7. CASE \E first \in Firsts :
             \E slices \in {Slices(PageStart(first, printed, BlockMax), printed)} :
                /\ Send([t |-> "backfilled", prints |-> Head(slices)])
                /\ bridge' = [bridge EXCEPT !.st = "live", !.next = printed + 1,
                                            !.opening = Tail(slices)]
  <2>1. PICK first \in Firsts :
          LET slices == Slices(PageStart(first, printed, BlockMax), printed)
          IN  /\ Send([t |-> "backfilled", prints |-> Head(slices)])
              /\ bridge' = [bridge EXCEPT !.st = "live", !.next = printed + 1,
                                          !.opening = Tail(slices)]
    BY <1>7
  <2> DEFINE lo     == PageStart(first, printed, BlockMax)
             slices == Slices(lo, printed)
             block  == Head(slices)
             rest   == Tail(slices)
  <2>2. first \in Prints /\ first <= printed /\ Begins(first)
    BY <1>5, StampsRise DEF Firsts, Begins
  <2>3. lo \in first .. printed /\ Begins(lo)
    BY <1>2, <2>2, PageStartIs, CutSizes
  <2>4. lo \in Prints /\ lo <= printed
    BY <1>5, <2>2, <2>3, StampsRise
  <2>5. /\ events' = Append(events, [t |-> "backfilled", prints |-> block])
        /\ bridge' = [bridge EXCEPT !.st = "live", !.next = printed + 1, !.opening = rest]
    BY <2>1 DEF Send
  <2> HIDE DEF lo
  <2>6. /\ slices \in Seq(Seq(Prints)) /\ slices # << >>
        /\ \A n \in DOMAIN slices : slices[n] # << >> /\ Tidy(slices[n])
        /\ \E start \in lo .. printed : Begins(start) /\ Head(slices) = Run(start, printed)
    BY <1>2, <2>3, <2>4, SlicesAre
  <2>7. PICK start \in lo .. printed : Begins(start) /\ block = Run(start, printed)
    BY <2>6
  <2> HIDE DEF slices
  <2>8. start \in Nat /\ start >= 1 /\ start <= printed
    BY <1>5, <2>4, StampsRise
  <2>9. /\ Tidy(block) /\ Of(block) = start .. printed /\ block # << >>
    BY <1>5, <2>7, <2>8, RunIs
  <2>10. /\ rest \in Seq(Seq(Prints)) /\ Len(rest) = Len(slices) - 1 /\ Len(slices) \in Nat
         /\ \A n \in 1 .. Len(rest) : rest[n] = slices[n + 1] /\ n + 1 \in DOMAIN slices
    BY <2>6
  <2>11. \A n \in 1 .. Len(rest) : rest[n] # << >> /\ Tidy(rest[n])
    BY <2>6, <2>10
  <2>12. printed + 1 \in 1 .. Len(Ms) + 1 /\ printed < printed + 1
    BY <1>5, StampsRise
  <2>13. ASSUME printed + 1 \in Prints, NEW j \in Prints, j < printed + 1, Ms[j] = Ms[printed + 1]
         PROVE  j \in Of(block)
    <3>1. j \in Nat /\ j <= printed /\ printed + 1 \in Nat /\ start - 1 \in Nat
      BY <1>5, <2>8, <2>13, StampsRise
    <3>2. CASE start <= j
      BY <1>5, <2>8, <2>9, <3>1, <3>2
    <3>3. CASE ~(start <= j)
      <4>1. j <= start - 1 /\ start - 1 <= printed + 1 /\ j <= start /\ start <= printed + 1
        BY <1>5, <2>8, <3>1, <3>3
      <4>2. Ms[start] = Ms[printed + 1] /\ Ms[start - 1] = Ms[printed + 1]
        BY <2>8, <2>13, <3>1, <4>1, Together
      <4>3. start # 1
        BY <2>8, <3>3, StampsRise
      <4> QED BY <2>7, <4>2, <4>3 DEF Begins
    <3> QED BY <3>2, <3>3
  <2>14. \A k \in Of(block) : k <= printed
    BY <1>5, <2>8, <2>9
  <2> HIDE DEF block, rest
  <2> QED BY <1>6, <2>5, <2>9, <2>10, <2>11, <2>12, <2>13, <2>14
<1>8. CASE /\ Send([t |-> "backfilled", prints |-> << >>])
           /\ bridge' = [bridge EXCEPT !.st = "live", !.next = From(Ms[printed] + 1)]
  <2> DEFINE none == << >>
             rest == bridge.opening
             next == From(Ms[printed] + 1)
  <2>1. Tidy(none) /\ Of(none) = {}
    BY DEF Tidy, Climbs, Whole, Of
  <2>2. Ms[printed] + 1 \in Nat /\ Ms[printed] \in Nat
    BY <1>2, StampsRise
  <2>3. next \in 1 .. Len(Ms) + 1 /\ \A i \in Prints : i < next <=> Ms[i] < Ms[printed] + 1
    BY <2>2, FromIs
  <2> HIDE DEF next
  <2>4. printed < next
    BY <1>2, <2>2, <2>3
  <2>5. next \in Prints => \A j \in Prints : j < next /\ Ms[j] = Ms[next] => j \in Of(none)
    <3> SUFFICES ASSUME next \in Prints, NEW j \in Prints, j < next, Ms[j] = Ms[next] PROVE FALSE
      OBVIOUS
    <3>1. Ms[next] < Ms[printed] + 1
      BY <2>3
    <3>2. next < next
      BY <2>3, <3>1
    <3> QED BY <2>3, <3>2, StampsRise
  <2>6. rest \in Seq(Seq(Prints))
    BY <1>3 DEF Bridges
  <2>7. bridge' = [bridge EXCEPT !.st = "live", !.next = next, !.opening = rest]
    BY <1>3, <1>8 DEF next, Bridges
  <2>8. events' = Append(events, [t |-> "backfilled", prints |-> none])
    BY <1>8 DEF Send
  <2>9. \A k \in Of(none) : k <= printed
    BY <2>1
  <2>10. /\ \A n \in 1 .. Len(rest) : rest[n] # << >> /\ Tidy(rest[n])
         /\ (rest # << >> => tape.any \/ Given(events, Len(events) + 1))
    BY <1>3
  <2> HIDE DEF none, rest
  <2> QED BY <1>6, <2>1, <2>3, <2>4, <2>5, <2>6, <2>7, <2>8, <2>9, <2>10
<1> QED BY <1>7, <1>8 DEF Backfill

(* A slice is sent. *)
LEMMA PumpOpeningOrder == OrderInv /\ PumpOpening => OrderInv'
<1> SUFFICES ASSUME OrderInv, PumpOpening PROVE OrderInv'
  OBVIOUS
<1> DEFINE e    == [t |-> "opening", prints |-> Head(bridge.opening)]
           rest == Tail(bridge.opening)
<1>1. /\ bridge.opening # << >> /\ printed' = printed /\ canPage' = canPage /\ pager' = pager
      /\ tape' = tape /\ fill' = fill /\ chart' = chart
      /\ events' = Append(events, e) /\ bridge' = [bridge EXCEPT !.opening = rest]
  BY DEF PumpOpening, Send, venueVars, feedVars
<1>2. /\ Source(bridge, events, tape, fill, chart) /\ Queue(events, tape, fill, chart)
      /\ pager \in Pagers /\ (pager.queued # None => tape.any)
      /\ \A k \in InHand(chart, fill) \cup Ahead(events, Len(events) + 1) : k <= printed
  BY DEF OrderInv
<1>3. /\ bridge \in Bridges /\ bridge.opening \in Seq(Seq(Prints))
      /\ \A n \in 1 .. Len(bridge.opening) : bridge.opening[n] # << >> /\ Tidy(bridge.opening[n])
      /\ tape.any \/ Given(events, Len(events) + 1)
      /\ (bridge.inbox # None \/ bridge.ask # None => tape.any)
  BY <1>1, <1>2 DEF Source, Bridges
<1>4. /\ Head(bridge.opening) = bridge.opening[1] /\ 1 \in 1 .. Len(bridge.opening)
      /\ rest \in Seq(Seq(Prints)) /\ Len(rest) = Len(bridge.opening) - 1
      /\ Len(bridge.opening) \in Nat
      /\ \A n \in 1 .. Len(rest) : rest[n] = bridge.opening[n + 1]
                                   /\ n + 1 \in 1 .. Len(bridge.opening)
  BY <1>1, <1>3
<1>5. Tidy(Head(bridge.opening))
  BY <1>3, <1>4
<1>6. e \in Sent /\ e.t = "opening" /\ Tidy(e.prints) /\ Brings(e) = {}
  BY <1>5 DEF Sent, Brings, Tidy
<1>7. \A n \in 1 .. Len(rest) : rest[n] # << >> /\ Tidy(rest[n])
  BY <1>3, <1>4
<1> HIDE DEF e, rest
<1>8. Fits(e, events, Len(events) + 1, tape, fill, chart)
  BY <1>3, <1>6 DEF Fits
<1>9. /\ bridge' \in Bridges /\ bridge'.st = bridge.st /\ bridge'.next = bridge.next
      /\ bridge'.opening = rest /\ bridge'.inbox = bridge.inbox /\ bridge'.ask = bridge.ask
  BY <1>1, <1>3, <1>4 DEF Bridges
<1>10. Source(bridge', events, tape, fill, chart)
  BY <1>1, <1>2, <1>3, <1>7, <1>9, SourceAgain
<1>11. Source(bridge', Append(events, e), tape, fill, chart)
  BY <1>2, <1>6, <1>10, SourceAppends
<1> QED BY <1>1, <1>2, <1>6, <1>8, <1>11, SendsStep

(* A press reaches the bridge's cursor. *)
LEMMA AdmitOrder == OrderInv /\ Admit => OrderInv'
<1> SUFFICES ASSUME OrderInv, Admit PROVE OrderInv'
  OBVIOUS
<1> DEFINE floor == Ms[Head(Final(bridge.opening))]
           below == bridge.opening # << >> /\ floor < bridge.inbox
           ask   == IF below THEN floor ELSE bridge.inbox
<1>1. /\ bridge.inbox # None /\ printed' = printed /\ canPage' = canPage /\ pager' = pager
      /\ tape' = tape /\ fill' = fill /\ chart' = chart /\ events' = events
      /\ bridge' = [bridge EXCEPT !.inbox = None, !.ask = ask]
  BY DEF Admit, venueVars, feedVars
<1>2. Source(bridge, events, tape, fill, chart)
  BY DEF OrderInv
<1>3. /\ bridge \in Bridges /\ bridge.opening \in Seq(Seq(Prints)) /\ tape.any
      /\ \A n \in 1 .. Len(bridge.opening) : bridge.opening[n] # << >> /\ Tidy(bridge.opening[n])
      /\ bridge.inbox \in StampOrNone
  BY <1>1, <1>2 DEF Source, Bridges
<1>4. bridge.opening # << >> => floor \in StampOrNone
  <2> SUFFICES ASSUME bridge.opening # << >> PROVE floor \in StampOrNone
    OBVIOUS
  <2>1. Len(bridge.opening) \in 1 .. Len(bridge.opening)
    BY <1>3
  <2>2. Final(bridge.opening) # << >> /\ Final(bridge.opening) \in Seq(Prints)
    BY <1>3, <2>1 DEF Final, Tidy
  <2>3. Head(Final(bridge.opening)) \in Prints
    BY <2>2
  <2> QED BY <2>3, StampsRise DEF StampOrNone
<1>5. ask \in StampOrNone
  BY <1>3, <1>4
<1> HIDE DEF ask
<1>6. /\ bridge' \in Bridges /\ bridge'.st = bridge.st /\ bridge'.next = bridge.next
      /\ bridge'.opening = bridge.opening
  BY <1>1, <1>3, <1>5 DEF Bridges, StampOrNone
<1>7. Source(bridge', events, tape, fill, chart)
  BY <1>2, <1>3, <1>6, SourceAgain
<1>8. InHand(chart', fill') = InHand(chart, fill) /\ Ahead(events', Len(events') + 1)
                                                    = Ahead(events, Len(events) + 1)
  BY <1>1
<1>9. \A k \in InHand(chart', fill') \cup Ahead(events', Len(events') + 1) : k <= printed'
  BY <1>1, <1>8 DEF OrderInv
<1>10. Source(bridge', events', tape', fill', chart')
  BY <1>1, <1>7
<1>11. /\ Sound(tape', fill', chart') /\ Queue(events', tape', fill', chart')
       /\ canPage' \in BOOLEAN /\ pager' \in Pagers /\ (pager'.queued # None => tape'.any)
       /\ printed' \in Prints
  BY <1>1 DEF OrderInv
<1> QED BY <1>9, <1>10, <1>11 DEF OrderInv

(* A page is sent. *)
LEMMA AnswerOrder == OrderInv /\ Answer => OrderInv'
<1> SUFFICES ASSUME OrderInv, Answer PROVE OrderInv'
  OBVIOUS
<1>1. PICK reach \in Reaches, exhausted \in BOOLEAN :
        Send([t |-> "page", prints |-> PageTo(reach).prints, exhausted |-> exhausted,
              scanned |-> PageTo(reach).scanned])
  BY DEF Answer
<1> DEFINE p == PageTo(reach).prints
           s == PageTo(reach).scanned
           e == [t |-> "page", prints |-> p, exhausted |-> exhausted, scanned |-> s]
<1>2. /\ bridge.ask # None /\ bridge.opening = << >> /\ printed' = printed /\ canPage' = canPage
      /\ tape' = tape /\ fill' = fill /\ chart' = chart
      /\ bridge' = [bridge EXCEPT !.ask = None]
      /\ pager' = [pager EXCEPT !.inFlight = FALSE]
      /\ events' = Append(events, e)
  BY <1>1 DEF Answer, Send, venueVars, feedVars
<1>3. /\ Source(bridge, events, tape, fill, chart) /\ Queue(events, tape, fill, chart)
      /\ pager \in Pagers /\ (pager.queued # None => tape.any) /\ printed \in Prints
      /\ \A k \in InHand(chart, fill) \cup Ahead(events, Len(events) + 1) : k <= printed
  BY DEF OrderInv
<1>4. bridge \in Bridges /\ tape.any
      /\ \A n \in 1 .. Len(bridge.opening) : bridge.opening[n] # << >> /\ Tidy(bridge.opening[n])
  BY <1>2, <1>3 DEF Source
<1>5. bridge.ask \in Stamps
  BY <1>2, <1>4 DEF Bridges, StampOrNone
<1>6. reach \in Stamps
  BY <1>3, <1>5, StampsRise DEF Reaches
<1>7. Tidy(p) /\ s \in Stamps
  BY <1>5, <1>6, PageIs
<1> HIDE DEF p, s
<1>8. e \in Sent /\ e.t = "page" /\ e.prints = p /\ Brings(e) = {}
  <2>1. p \in Seq(Prints) /\ s \in StampOrNone
    BY <1>7 DEF Tidy, StampOrNone
  <2>2. e \in [t : {"page"}, prints : Seq(Prints), exhausted : BOOLEAN, scanned : StampOrNone]
    BY <2>1
  <2> QED BY <2>2 DEF Sent, Brings
<1> HIDE DEF e
<1>9. Fits(e, events, Len(events) + 1, tape, fill, chart)
  BY <1>4, <1>7, <1>8 DEF Fits
<1>10. /\ bridge' \in Bridges /\ bridge'.st = bridge.st /\ bridge'.next = bridge.next
       /\ bridge'.opening = bridge.opening /\ bridge'.inbox = bridge.inbox
  BY <1>2, <1>4 DEF Bridges, StampOrNone
<1>11. Source(bridge', events, tape, fill, chart)
  BY <1>3, <1>4, <1>10, SourceAgain
<1>12. Source(bridge', Append(events, e), tape, fill, chart)
  BY <1>3, <1>8, <1>11, SourceAppends
<1>13. pager' \in Pagers
  BY <1>2, <1>3 DEF Pagers
<1> QED BY <1>2, <1>3, <1>4, <1>8, <1>9, <1>12, <1>13, SendsStep

(* The reply of a bridge that sends no page. *)
LEMMA EmptyPageIs ==
  /\ EmptyPage \in Sent /\ EmptyPage.t = "page" /\ Brings(EmptyPage) = {}
  /\ \A sent, n, t, f, c : Fits(EmptyPage, sent, n, t, f, c)
<1> DEFINE none == << >>
<1>1. Tidy(none) /\ none \in Seq(Prints)
  BY DEF Tidy, Climbs, Whole, Of
<1>2. EmptyPage.prints = none /\ EmptyPage.scanned = None /\ EmptyPage.t = "page"
  BY DEF EmptyPage
<1>3. EmptyPage \in Sent
  <2> HIDE DEF none
  <2>1. EmptyPage = [t |-> "page", prints |-> none, exhausted |-> FALSE, scanned |-> None]
    BY DEF EmptyPage, none
  <2>2. EmptyPage \in [t : {"page"}, prints : Seq(Prints), exhausted : BOOLEAN,
                       scanned : StampOrNone]
    BY <1>1, <2>1 DEF StampOrNone
  <2> QED BY <2>2 DEF Sent
<1>4. Brings(EmptyPage) = {}
  BY <1>2 DEF Brings
<1>5. \A sent, n, t, f, c : Fits(EmptyPage, sent, n, t, f, c)
  BY <1>1, <1>2 DEF Fits
<1> QED BY <1>2, <1>3, <1>4, <1>5

(* A request is written to the bridge, or answered for it. *)
LEMMA TakeRequestOrder == OrderInv /\ TakeRequest => OrderInv'
<1> SUFFICES ASSUME OrderInv, TakeRequest PROVE OrderInv'
  OBVIOUS
<1>1. /\ pager.queued # None /\ printed' = printed /\ canPage' = canPage
      /\ tape' = tape /\ fill' = fill /\ chart' = chart
  BY DEF TakeRequest, venueVars, feedVars
<1>2. /\ Source(bridge, events, tape, fill, chart) /\ Queue(events, tape, fill, chart)
      /\ pager \in Pagers /\ tape.any /\ printed \in Prints
      /\ \A k \in InHand(chart, fill) \cup Ahead(events, Len(events) + 1) : k <= printed
  BY <1>1 DEF OrderInv
<1>3. CASE /\ pager' = [queued |-> None, inFlight |-> TRUE]
           /\ bridge' = [bridge EXCEPT !.inbox = pager.queued]
           /\ UNCHANGED events
  <2>1. bridge \in Bridges /\ \A n \in 1 .. Len(bridge.opening) :
                                bridge.opening[n] # << >> /\ Tidy(bridge.opening[n])
    BY <1>2 DEF Source
  <2>2. /\ bridge' \in Bridges /\ bridge'.st = bridge.st /\ bridge'.next = bridge.next
        /\ bridge'.opening = bridge.opening
    BY <1>2, <1>3, <2>1 DEF Bridges, Pagers
  <2>3. Source(bridge', events, tape, fill, chart)
    BY <1>2, <2>1, <2>2, SourceAgain
  <2>4. pager' \in Pagers /\ pager'.queued = None
    BY <1>3 DEF Pagers, StampOrNone
  <2>5. InHand(chart', fill') = InHand(chart, fill) /\ Ahead(events', Len(events') + 1)
                                                      = Ahead(events, Len(events) + 1)
    BY <1>1, <1>3
  <2>6. \A k \in InHand(chart', fill') \cup Ahead(events', Len(events') + 1) : k <= printed'
    BY <1>1, <1>2, <2>5
  <2>7. Source(bridge', events', tape', fill', chart')
    BY <1>1, <1>3, <2>3
  <2>8. /\ Sound(tape', fill', chart') /\ Queue(events', tape', fill', chart')
        /\ canPage' \in BOOLEAN /\ printed' \in Prints
    BY <1>1, <1>3 DEF OrderInv
  <2> QED BY <2>4, <2>6, <2>7, <2>8 DEF OrderInv
<1>4. CASE /\ pager' = [queued |-> None, inFlight |-> FALSE]
           /\ Send(EmptyPage)
           /\ UNCHANGED bridge
  <2>1. pager' \in Pagers /\ pager'.queued = None
    BY <1>4 DEF Pagers, StampOrNone
  <2>2. events' = Append(events, EmptyPage) /\ bridge' = bridge
    BY <1>4 DEF Send
  <2>3. Source(bridge', Append(events, EmptyPage), tape, fill, chart)
    BY <1>2, <2>2, EmptyPageIs, SourceAppends
  <2>4. Fits(EmptyPage, events, Len(events) + 1, tape, fill, chart)
        /\ \A k \in Brings(EmptyPage) : k <= printed
    BY EmptyPageIs
  <2> QED BY <1>1, <1>2, <2>1, <2>2, <2>3, <2>4, EmptyPageIs, SendsStep
<1> QED BY <1>3, <1>4 DEF TakeRequest

(* A session ends. *)
LEMMA LoseOrder == OrderInv /\ Lose => OrderInv'
<1> SUFFICES ASSUME OrderInv, Lose PROVE OrderInv'
  OBVIOUS
<1> DEFINE e    == [t |-> "lost"]
           owes == pager.queued # None \/ pager.inFlight
           sent == IF owes THEN Append(events, EmptyPage) ELSE events
<1>1. /\ printed' = printed /\ canPage' = canPage /\ tape' = tape /\ fill' = fill
      /\ chart' = chart /\ bridge' = Off /\ pager' = Abandoned
      /\ events' = events \o (IF owes THEN <<EmptyPage>> ELSE << >>) \o <<e>>
  BY DEF Lose, feedVars
<1>2. /\ Queue(events, tape, fill, chart) /\ events \in Seq(Sent)
      /\ \A k \in InHand(chart, fill) \cup Ahead(events, Len(events) + 1) : k <= printed
  BY DEF OrderInv, Queue
<1>3. e \in Sent /\ e.t = "lost" /\ Brings(e) = {}
  BY DEF Sent, Brings
<1> HIDE DEF e
<1>4. events' = Append(sent, e)
  <2>1. CASE owes
    <3>1. /\ events \o <<EmptyPage>> = Append(events, EmptyPage)
          /\ Append(events, EmptyPage) \in Seq(Sent)
      BY <1>2, EmptyPageIs
    <3>2. Append(events, EmptyPage) \o <<e>> = Append(Append(events, EmptyPage), e)
      BY <1>3, <3>1
    <3> QED BY <1>1, <2>1, <3>1, <3>2
  <2>2. CASE ~owes
    <3>1. events \o << >> = events /\ events \o <<e>> = Append(events, e)
      BY <1>2, <1>3
    <3> QED BY <1>1, <2>2, <3>1
  <2> QED BY <2>1, <2>2
<1>5. /\ Queue(sent, tape, fill, chart)
      /\ \A k \in InHand(chart, fill) \cup Ahead(sent, Len(sent) + 1) : k <= printed
  <2>1. CASE owes
    <3>1. Queue(Append(events, EmptyPage), tape, fill, chart)
      BY <1>2, EmptyPageIs, QueueAppends
    <3>2. /\ Len(Append(events, EmptyPage)) + 1 = Len(events) + 2
          /\ Ahead(Append(events, EmptyPage), Len(events) + 2) = Ahead(events, Len(events) + 1)
      <4>1. /\ Len(Append(events, EmptyPage)) = Len(events) + 1 /\ Len(events) \in Nat
            /\ Ahead(Append(events, EmptyPage), Len(events) + 2)
                 = Ahead(events, Len(events) + 1) \cup Brings(EmptyPage)
        BY <1>2, EmptyPageIs, AppendIs
      <4> QED BY <4>1, EmptyPageIs
    <3> QED BY <1>2, <2>1, <3>1, <3>2
  <2>2. CASE ~owes
    BY <1>2, <2>2
  <2> QED BY <2>1, <2>2
<1> HIDE DEF sent
<1>6. Fits(e, sent, Len(sent) + 1, tape, fill, chart) /\ \A k \in Brings(e) : k <= printed
  BY <1>3 DEF Fits
<1>7. Source(bridge', Append(sent, e), tape, fill, chart)
  <2>1. Len(Append(sent, e)) + 1 = Len(sent) + 2 /\ Quiet(Append(sent, e), fill, Len(sent) + 2)
    <3>1. sent \in Seq(Sent)
      BY <1>5 DEF Queue
    <3>2. /\ Len(Append(sent, e)) = Len(sent) + 1 /\ Len(sent) \in Nat
          /\ Quiet(Append(sent, e), fill, Len(sent) + 2)
      BY <1>3, <3>1, AppendIs
    <3> QED BY <3>2
  <2> DEFINE none == << >>
  <2>2. none \in Seq(Seq(Prints)) /\ Len(none) = 0 /\ 0 \in 0 .. Len(Ms) + 1
    BY StampsRise
  <2>3. bridge' = [st |-> "off", pages |-> FALSE, next |-> 0, opening |-> none,
                   inbox |-> None, ask |-> None]
    BY <1>1 DEF Off
  <2> HIDE DEF none
  <2>4. /\ bridge' \in Bridges /\ bridge'.st = "off" /\ bridge'.opening = none
        /\ bridge'.inbox = None /\ bridge'.ask = None
    BY <2>2, <2>3 DEF Bridges, StampOrNone
  <2>5. bridge'.opening = << >>
    BY <2>4 DEF none
  <2> QED BY <2>1, <2>2, <2>4, <2>5 DEF Source
<1>8. pager' \in Pagers /\ pager'.queued = None
  BY <1>1 DEF Abandoned, Pagers, StampOrNone
<1> QED BY <1>1, <1>3, <1>4, <1>5, <1>6, <1>7, <1>8, SendsStep

-----------------------------------------------------------------------------
(* Before the first session nothing is held and nothing is on its way. *)
LEMMA OrderInit == TapeInit => OrderInv
<1> SUFFICES ASSUME TapeInit PROVE OrderInv
  OBVIOUS
<1> DEFINE none == << >>
<1>1. /\ printed = Opened /\ bridge = Off /\ pager = [queued |-> None, inFlight |-> FALSE]
      /\ events = none /\ canPage = FALSE /\ tape = NoTape /\ fill = NoFill
      /\ chart = [prints |-> none, gaps |-> {}, loads |-> 0]
  BY DEF TapeInit
<1>2. /\ none \in Seq(Prints) /\ none \in Seq(Sent) /\ none \in Seq(Seq(Prints)) /\ Len(none) = 0
      /\ Climbs(none) /\ Of(none) = {} /\ Whole(Of(none))
  BY DEF Climbs, Of, Whole
<1>3. Ahead(none, 1) = {}
  BY DEF Ahead
<1>4. Ahead(none, Len(none) + 1) = {} /\ \A m : ~(m \in 1 .. (Len(none) + 1) - 1)
  BY <1>2, <1>3
<1>5. printed \in Prints
  BY <1>1, TapeAssumption, StampsRise
<1>6. None \in StampOrNone /\ 0 \in 0 .. Len(Ms) + 1
  BY StampsRise DEF StampOrNone
<1>7. none = << >>
  OBVIOUS
<1> HIDE DEF none
<1>8. pager \in Pagers /\ pager.queued = None /\ canPage \in BOOLEAN
  BY <1>1, <1>6 DEF Pagers
<1>9. tape \in Tapes /\ chart \in Charts /\ chart.prints = none /\ ~tape.any
  BY <1>1, <1>2, <1>6 DEF NoTape, Tapes, Charts
<1>10. Ledger(tape, chart)
  BY <1>1, <1>2, <1>7, <1>9 DEF Ledger, NoTape
<1>11. Sound(tape, fill, chart)
  BY <1>1, <1>9, <1>10 DEF Sound, Refilling
<1>12. InHand(chart, fill) = {}
  BY <1>1, <1>2, <1>9 DEF InHand
<1>13. Queue(events, tape, fill, chart)
  BY <1>1, <1>2 DEF Queue
<1>14. \A k \in InHand(chart, fill) \cup Ahead(events, Len(events) + 1) : k <= printed
  BY <1>1, <1>4, <1>12
<1>15. Source(bridge, events, tape, fill, chart)
  <2>1. bridge = [st |-> "off", pages |-> FALSE, next |-> 0, opening |-> none,
                  inbox |-> None, ask |-> None]
    BY <1>1, <1>7 DEF Off
  <2>2. /\ bridge \in Bridges /\ bridge.st = "off" /\ bridge.opening = none
        /\ bridge.inbox = None /\ bridge.ask = None
    BY <1>2, <1>6, <2>1 DEF Bridges
  <2>3. Quiet(events, fill, Len(events) + 1)
    BY <1>1, <1>4 DEF Quiet
  <2> QED BY <1>2, <1>7, <2>2, <2>3 DEF Source
<1> QED BY <1>5, <1>8, <1>11, <1>13, <1>14, <1>15 DEF OrderInv

(* What the feed holds climbs the tape, the ledger says what the chart      *)
(* holds at its ends, and what is on its way still fits, in every reachable *)
(* state, for any tape, any bounds and any number of sessions and presses.  *)
THEOREM OrderInvariant == TapeSpec => []OrderInv
<1>1. OrderInv /\ [TapeNext]_tapeVars => OrderInv'
  <2> SUFFICES ASSUME OrderInv, [TapeNext]_tapeVars PROVE OrderInv'
    OBVIOUS
  <2>1. CASE Trade BY <2>1, TradeOrder
  <2>2. CASE Dial BY <2>2, DialOrder
  <2>3. CASE Backfill BY <2>3, BackfillOrder
  <2>4. CASE Pump BY <2>4, PumpOrder
  <2>5. CASE PumpOpening BY <2>5, PumpOpeningOrder
  <2>6. CASE Admit BY <2>6, AdmitOrder
  <2>7. CASE Answer BY <2>7, AnswerOrder
  <2>8. CASE TakeRequest BY <2>8, TakeRequestOrder
  <2>9. CASE Lose BY <2>9, LoseOrder
  <2>10. CASE OnConnected BY <2>10, ConnectedOrder
  <2>11. CASE OnBackfilled BY <2>11, BackfilledOrder
  <2>12. CASE OnOpening BY <2>12, OpeningOrder
  <2>13. CASE OnPage BY <2>13, PageOrder
  <2>14. CASE OnLive BY <2>14, LiveOrder
  <2>15. CASE OnLost BY <2>15, LostOrder
  <2>16. CASE OnRefillDeadline BY <2>16, DeadlineOrder
  <2>17. CASE LoadOlder BY <2>17, LoadOrder
  <2>18. CASE UNCHANGED tapeVars
    <3>1. /\ printed' = printed /\ bridge' = bridge /\ pager' = pager /\ events' = events
          /\ canPage' = canPage /\ tape' = tape /\ fill' = fill /\ chart' = chart
      BY <2>18 DEF tapeVars
    <3>2. InHand(chart', fill') = InHand(chart, fill) /\ Ahead(events', Len(events') + 1)
                                                        = Ahead(events, Len(events) + 1)
      BY <3>1
    <3>3. \A k \in InHand(chart', fill') \cup Ahead(events', Len(events') + 1) : k <= printed'
      BY <3>1, <3>2 DEF OrderInv
    <3>4. /\ Sound(tape', fill', chart') /\ Queue(events', tape', fill', chart')
          /\ Source(bridge', events', tape', fill', chart')
          /\ canPage' \in BOOLEAN /\ pager' \in Pagers /\ (pager'.queued # None => tape'.any)
          /\ printed' \in Prints
      BY <3>1 DEF OrderInv
    <3> QED BY <3>3, <3>4 DEF OrderInv
  <2> QED
    BY <2>1, <2>2, <2>3, <2>4, <2>5, <2>6, <2>7, <2>8, <2>9, <2>10, <2>11, <2>12, <2>13, <2>14,
       <2>15, <2>16, <2>17, <2>18 DEF TapeNext, BridgeStep, FeedStep
<1> QED BY <1>1, OrderInit, PTL DEF TapeSpec

(* The chart holds the tape's prints in the order they were made, none of   *)
(* them twice, through every loss, refill, slice and page.                  *)
THEOREM ChartInTapeOrderHolds == TapeSpec => []ChartInTapeOrder
<1>1. OrderInv => ChartInTapeOrder
  <2> SUFFICES ASSUME OrderInv PROVE ChartInTapeOrder
    OBVIOUS
  <2>1. chart.prints \in Seq(Prints) /\ Climbs(chart.prints)
    BY DEF OrderInv, Sound, Charts, Ledger
  <2>2. ASSUME NEW k \in 2 .. Len(chart.prints)
        PROVE  k - 1 \in 1 .. Len(chart.prints) /\ k \in 1 .. Len(chart.prints) /\ k - 1 < k
    BY <2>1
  <2> QED BY <2>1, <2>2 DEF Climbs, ChartInTapeOrder
<1> QED BY <1>1, OrderInvariant, PTL
=============================================================================
