----------------------------- MODULE Simulator -----------------------------
(***************************************************************************)
(* The paper-trading simulator (crates/sim/src/simulator.rs): commands     *)
(* issued between prints, prints that fill what is queued and resting, and *)
(* one net position.                                                       *)
(*                                                                         *)
(* Each command and each print is one step, as the simulator runs to       *)
(* completion on the thread that calls it.  A refused command changes      *)
(* nothing and is not a step.  Prices, quantities and levels are small     *)
(* naturals, Unset for an absent one; averages, profits, excursions and    *)
(* times are left out, for nothing below depends on them.                  *)
(***************************************************************************)
EXTENDS Integers, SequencesExt

CONSTANTS
  Prices,       \* the prices prints and orders are made at
  Quantities,   \* quantities of hand closes
  Brackets,     \* the protections entries carry
  Entries,      \* the entry orders traders place, before they have an id
  MaxPlaced,    \* bound: entry orders placed in a behaviour
  MaxTouched,   \* bound: working orders amended or cancelled by hand
  MaxQueue      \* bound: market actions awaiting a print

Unset  == 0
Sides  == {"Buy", "Sell"}
Levels == Prices \cup {Unset}

(* A part protects its quantity, or the whole fill when that is Unset. *)
Empty(p) == p.stop = Unset /\ p.target = Unset
Parts    == {p \in [qty : Nat, stop : Levels, target : Levels] : ~Empty(p)}
Whole(b)    == Len(b) = 1 /\ b[1].qty = Unset
Laddered(b) == b # <<>> /\ ~Whole(b)
StopOf(b)   == IF Whole(b) THEN b[1].stop ELSE Unset
TargetOf(b) == IF Whole(b) THEN b[1].target ELSE Unset

ASSUME SimulatorAssumption ==
  /\ Prices \subseteq Nat \ {0} /\ Quantities \subseteq Nat \ {0}
  /\ MaxPlaced \in Nat /\ MaxTouched \in Nat /\ MaxQueue \in Nat
  /\ \A b \in Brackets : b \in Seq(Parts) /\ Len(b) <= 4
  /\ \A e \in Entries :
       /\ e \in [side : Sides, kind : {"Market", "Limit", "Stop"}, price : Levels,
                 qty : Nat \ {0}, bracket : Brackets, cancel : Levels, flat : BOOLEAN]
       /\ (e.kind = "Market") = (e.price = Unset)
       /\ e.kind # "Limit" => e.cancel = Unset /\ ~e.flat

VARIABLES
  mark,     \* the last price seen, or Unset
  queue,    \* market actions awaiting the next print, in command order
  book      \* what one call rewrites: the position, the resting orders, the
            \* counters of ids, and the events of the last call
vars == <<mark, queue, book>>

Flat == [side |-> "Buy", qty |-> 0, stop |-> Unset, target |-> Unset]

Init ==
  /\ mark = Unset
  /\ queue = <<>>
  /\ book = [position |-> Flat, resting |-> <<>>, kept |-> <<>>, placed |-> 0,
             touched |-> 0, ids |-> 0, ocos |-> 0, events |-> <<>>]
-----------------------------------------------------------------------------
Opposite(s) == IF s = "Buy" THEN "Sell" ELSE "Buy"

(* p is on the losing side of q for a holder of side s. *)
Below(s, p, q)   == IF s = "Buy" THEN p < q ELSE p > q
AtOrBelow(s, p, q) == ~Below(s, q, p)

ValidBracket(s, reference, b) ==
  \A i \in DOMAIN b :
    /\ b[i].stop # Unset => Below(s, b[i].stop, reference)
    /\ b[i].target # Unset => Below(s, reference, b[i].target)

ValidPrice(o, price) ==
  CASE o.kind = "Limit"  -> Below(o.side, price, mark)
    [] o.kind = "Stop"   -> Below(o.side, mark, price)
    [] o.kind = "Market" -> FALSE

Protective(o) == o.role # "Entry"

(* What is left of s when only the places in kept stay, in their order. *)
Retained(s, kept) ==
  LET upto[k \in 0 .. Len(s)] ==
        IF k = 0 THEN <<>>
        ELSE IF k \in kept THEN Append(upto[k - 1], s[k]) ELSE upto[k - 1]
  IN  upto[Len(s)]

Legs(s) == {i \in DOMAIN s : Protective(s[i])}

(* Event what about order o; the two cancels the tape performs go by their *)
(* reasons.  A fill names the order for an entry only; the pair it spends   *)
(* is recorded for the properties.                                         *)
About(what, o) == [what |-> what, role |-> o.role, side |-> o.side, qty |-> o.qty,
                   id |-> o.id, oco |-> o.oco]
Fill(role, side, qty, oco) == [what |-> "Filled", role |-> role, side |-> side,
                               qty |-> qty, id |-> Unset, oco |-> oco]
Remark(what) == [what |-> what, role |-> "Entry", side |-> "Buy", qty |-> 0,
                 id |-> Unset, oco |-> Unset]
Emit(b, e) == [b EXCEPT !.events = Append(@, e)]
CancelEach(b, os) ==
  [b EXCEPT !.events = @ \o [i \in DOMAIN os |-> About("Cancelled", os[i])]]

(* sweep_protective: every leg in the list, and only there. *)
Sweep(b) ==
  LET legs == Legs(b.resting)
  IN  CancelEach([b EXCEPT !.resting = Retained(@, DOMAIN @ \ legs)], Retained(b.resting, legs))
-----------------------------------------------------------------------------
(* admissible_bracket: the levels the fill has not outrun. *)
Admissible(s, at, b) ==
  LET Honest(p) ==
        [p EXCEPT !.stop   = IF @ # Unset /\ Below(s, at, @) THEN Unset ELSE @,
                  !.target = IF @ # Unset /\ Below(s, @, at) THEN Unset ELSE @]
  IN  Retained([i \in DOMAIN b |-> Honest(b[i])], {i \in DOMAIN b : ~Empty(Honest(b[i]))})

(* Faulty variant: the last part keeps the quantity it was written with. *)
ShareAsWritten(b, i, total, left) == Min({IF b[i].qty = Unset THEN total ELSE b[i].qty, left})

(* fitted_parts: in order up to what is left, the last takes the remainder. *)
Share(b, i, total, left) ==
  IF i = Len(b) THEN left
  ELSE Min({IF b[i].qty = Unset THEN total ELSE b[i].qty, left})

FittedParts(b, total) ==
  LET left[i \in DOMAIN b] ==
        IF i = 1 THEN total ELSE left[i - 1] - Share(b, i - 1, total, left[i - 1])
  IN  [i \in DOMAIN b |-> [b[i] EXCEPT !.qty = Share(b, i, total, left[i])]]

(* make_leg, for one level of a part. *)
AddLeg(b, role, side, level, qty) ==
  LET leg == [id |-> b.ids + 1, side |-> Opposite(side), role |-> role,
              kind |-> IF role = "TakeProfit" THEN "Limit" ELSE "Stop",
              price |-> level, qty |-> qty, bracket |-> <<>>, cancel |-> Unset,
              flat |-> FALSE, oco |-> b.ocos]
  IN  IF level = Unset THEN b
      ELSE Emit([b EXCEPT !.ids = @ + 1, !.resting = Append(@, leg)], About("Placed", leg))

InstallProtection(b, side, qty, bracket) ==
  LET AddPair(c, p) ==
        IF p.qty = Unset THEN c
        ELSE AddLeg(AddLeg([c EXCEPT !.ocos = @ + 1], "TakeProfit", side, p.target, p.qty),
                    "StopLoss", side, p.stop, p.qty)
  IN  IF Laddered(bracket) THEN FoldLeft(AddPair, b, FittedParts(bracket, qty)) ELSE b

OpenPosition(b, side, qty, bracket) ==
  InstallProtection(
    [b EXCEPT !.position = [side |-> side, qty |-> qty,
                            stop |-> StopOf(bracket), target |-> TargetOf(bracket)]],
    side, qty, bracket)
-----------------------------------------------------------------------------
Closable(b, qty) == Min({b.position.qty, qty})

(* close_quantity_at, the one way out of a position; exit_position is this *)
(* for the whole of it.                                                    *)
CloseQuantity(b, qty, role, oco) ==
  LET closed == Closable(b, qty)
      filled == Emit(b, Fill(role, Opposite(b.position.side), closed, oco))
  IN  IF b.position = Flat THEN b
      ELSE IF b.position.qty > closed
      THEN [filled EXCEPT !.position.qty = @ - closed]
      ELSE [filled EXCEPT !.position = Flat]

AverageIn(b, o, bracket) ==
  LET p == b.position
      grown == [b EXCEPT !.position =
                  [side |-> p.side, qty |-> p.qty + o.qty,
                   stop   |-> IF StopOf(bracket) # Unset THEN StopOf(bracket) ELSE p.stop,
                   target |-> IF TargetOf(bracket) # Unset THEN TargetOf(bracket) ELSE p.target]]
  IN  IF Laddered(bracket)
      THEN InstallProtection(Sweep(grown), o.side, p.qty + o.qty, bracket)
      ELSE grown

(* Faulty variant: the remainder forgets what was closed. *)
RemainderForgets(b, o) == o.qty

Remainder(b, o) == o.qty - b.position.qty

OpensRemainder(b, o) == o.qty > b.position.qty

(* Netting: close first, and open what is left of the order.               *)
Net(b, o, bracket) ==
  IF b.position.qty > o.qty
  THEN [b EXCEPT !.position.qty = @ - o.qty]
  ELSE LET closed == Sweep([b EXCEPT !.position = Flat])
       IN  IF OpensRemainder(b, o) THEN OpenPosition(closed, o.side, Remainder(b, o), bracket)
           ELSE closed

(* A dropped level is reported right behind the fill; how many is left out. *)
FillEntry(b, o, at) ==
  LET bracket == Admissible(o.side, at, o.bracket)
      entered == Emit(b, About("Filled", o))
      filled  == IF bracket = o.bracket THEN entered ELSE Emit(entered, Remark("BracketDropped"))
  IN  IF b.position = Flat THEN OpenPosition(filled, o.side, o.qty, bracket)
      ELSE IF b.position.side = o.side THEN AverageIn(filled, o, bracket)
      ELSE Net(filled, o, bracket)
-----------------------------------------------------------------------------
(* Phase 1: the position's own pair, the stop first. *)
FirePair(b, price) ==
  LET p == b.position IN
  IF p # Flat /\ p.stop # Unset /\ AtOrBelow(p.side, price, p.stop)
  THEN CloseQuantity(b, p.qty, "StopLoss", Unset)
  ELSE IF p # Flat /\ p.target # Unset /\ AtOrBelow(p.side, p.target, price)
  THEN CloseQuantity(b, p.qty, "TakeProfit", Unset)
  ELSE b

LegReached(o, price) ==
  LET held == Opposite(o.side) IN
  \/ o.role = "StopLoss" /\ AtOrBelow(held, price, o.price)
  \/ o.role = "TakeProfit" /\ AtOrBelow(held, o.price, price)

CancelSibling(b, oco) ==
  LET i == SelectInSeq(b.resting, LAMBDA o : o.oco = oco) IN
  IF i = 0 THEN b
  ELSE Emit([b EXCEPT !.resting = RemoveAt(@, i)], About("Cancelled", b.resting[i]))

(* Phase 1b: the legs this print reaches, the scan restarted after each.   *)
FireLegs(b, price) ==
  LET FireOne(c, o) ==
        LET i == SelectInSeq(c.resting, LAMBDA x : LegReached(x, price)) IN
        IF c.position = Flat \/ i = 0 THEN c
        ELSE LET leg == c.resting[i] IN
             CancelSibling(CloseQuantity([c EXCEPT !.resting = RemoveAt(@, i)],
                                         leg.qty, leg.role, leg.oco), leg.oco)
  IN  FoldLeft(FireOne, b, b.resting)

(* Phase 2: the queued market actions, in command order. *)
RunQueue(b, price) ==
  LET Run(c, a) ==
        CASE a.action = "Entry"        -> FillEntry(c, a.order, price)
          [] a.action = "Close"        -> CloseQuantity(c, c.position.qty, "Close", Unset)
          [] a.action = "ClosePartial" -> CloseQuantity(c, a.qty, "Close", Unset)
  IN  FoldLeft(Run, b, queue)

(* Faulty variant: the account as it was when the print arrived. *)
StandsDownAsFound(b, o) == o.flat /\ book.position # Flat

StandsDown(b, o) == o.flat /\ b.position # Flat

(* Phase 3: the resting entries, in placement order.  The list is taken    *)
(* while it is walked, so a leg installed here joins a list that holds no  *)
(* older one.                                                              *)
WalkResting(b, price) ==
  LET Keep(c, o) == [c EXCEPT !.kept = Append(@, o)]
      Walk(c, o) ==
        LET cancelled == o.cancel # Unset /\ AtOrBelow(o.side, o.cancel, price)
            limit == o.kind = "Limit" /\ AtOrBelow(o.side, price, o.price)
            stop  == o.kind = "Stop" /\ AtOrBelow(o.side, o.price, price)
        IN  CASE Protective(o) -> Keep(c, o)
              [] ~Protective(o) /\ cancelled -> Emit(c, About("PriceTouched", o))
              [] ~Protective(o) /\ ~cancelled /\ (limit \/ stop) /\ StandsDown(c, o) ->
                   Emit(c, About("AccountOccupied", o))
              [] ~Protective(o) /\ ~cancelled /\ (limit \/ stop) /\ ~StandsDown(c, o) ->
                   FillEntry(c, o, IF limit THEN o.price ELSE price)
              [] OTHER -> Keep(c, o)
      walked == FoldLeft(Walk, [b EXCEPT !.resting = <<>>], b.resting)
  IN  [walked EXCEPT !.resting = walked.kept \o @, !.kept = <<>>]

SweepOrphans(b) == IF b.position = Flat THEN Sweep(b) ELSE b

(* Faulty variant: the legs an entry installs are armed at once. *)
EntriesFirst(b, price) == FireLegs(FirePair(RunQueue(b, price), price), price)

ProtectionFirst(b, price) == RunQueue(FireLegs(FirePair(b, price), price), price)

Quiet == [book EXCEPT !.events = <<>>]

(* One print of the tape. *)
OnTrade(price) ==
  /\ book' = SweepOrphans(WalkResting(ProtectionFirst(Quiet, price), price))
  /\ queue' = <<>>
  /\ mark' = price

(* seed: backfill moves the mark under whatever is resting. *)
Seed(price) ==
  /\ mark' = price
  /\ book' = Quiet
  /\ UNCHANGED queue
-----------------------------------------------------------------------------
(* make_order and its admission. *)
Placeable(e) ==
  /\ mark # Unset /\ book.placed < MaxPlaced
  /\ e.kind # "Market" => ValidPrice(e, e.price)
  /\ ValidBracket(e.side, IF e.kind = "Market" THEN mark ELSE e.price, e.bracket)
  /\ e.cancel # Unset => Below(e.side, mark, e.cancel)

Order(e) == [id |-> book.ids + 1, side |-> e.side, role |-> "Entry", kind |-> e.kind,
             price |-> e.price, qty |-> e.qty, bracket |-> e.bracket, cancel |-> e.cancel,
             flat |-> e.flat, oco |-> Unset]
Placed(e) == Emit([Quiet EXCEPT !.ids = @ + 1, !.placed = @ + 1], About("Placed", Order(e)))

PlaceMarket(e) ==
  /\ e.kind = "Market" /\ Placeable(e) /\ Len(queue) < MaxQueue
  /\ queue' = Append(queue, [action |-> "Entry", order |-> Order(e)])
  /\ book' = Placed(e)
  /\ UNCHANGED mark

(* PlaceLimit and PlaceStop. *)
PlaceResting(e) ==
  /\ e.kind # "Market" /\ Placeable(e)
  /\ book' = [Placed(e) EXCEPT !.resting = Append(@, Order(e))]
  /\ UNCHANGED <<mark, queue>>

(* ModifyOrder takes any resting order, a protective leg too. *)
ModifyOrder(i, price) ==
  LET o == book.resting[i] IN
  /\ mark # Unset /\ price # o.price /\ book.touched < MaxTouched
  /\ ValidPrice(o, price) /\ ValidBracket(o.side, price, o.bracket)
  /\ book' = [Quiet EXCEPT !.resting[i].price = price, !.touched = @ + 1]
  /\ UNCHANGED <<mark, queue>>

(* SetOrderBracket likewise, though a leg's bracket never fills. *)
SetOrderBracket(i, b) ==
  LET o == book.resting[i] IN
  /\ b # o.bracket /\ book.touched < MaxTouched /\ ValidBracket(o.side, o.price, b)
  /\ book' = [Quiet EXCEPT !.resting[i].bracket = b, !.touched = @ + 1]
  /\ UNCHANGED <<mark, queue>>

CancelResting(i) ==
  /\ book.touched < MaxTouched
  /\ book' = Emit([Quiet EXCEPT !.resting = RemoveAt(@, i), !.touched = @ + 1],
                  About("Cancelled", book.resting[i]))
  /\ UNCHANGED <<mark, queue>>

CancelQueued(i) ==
  /\ queue[i].action = "Entry" /\ book.touched < MaxTouched
  /\ queue' = RemoveAt(queue, i)
  /\ book' = Emit([Quiet EXCEPT !.touched = @ + 1], About("Cancelled", queue[i].order))
  /\ UNCHANGED mark

(* SetBracket replaces the pair and sweeps the ladder. *)
SetBracket(b) ==
  /\ mark # Unset /\ book.position # Flat /\ ~Laddered(b)
  /\ ValidBracket(book.position.side, mark, b)
  /\ book' = Sweep([Quiet EXCEPT !.position.stop = StopOf(b), !.position.target = TargetOf(b)])
  /\ UNCHANGED <<mark, queue>>

Close(a) ==
  /\ book.position # Flat /\ Len(queue) < MaxQueue
  /\ queue' = Append(queue, a)
  /\ book' = Quiet
  /\ UNCHANGED mark
ClosePosition     == Close([action |-> "Close"])
ClosePartial(qty) == Close([action |-> "ClosePartial", qty |-> qty])

(* Faulty variant: only what is resting is cancelled. *)
CancelRestingOnly(b) == CancelEach([b EXCEPT !.resting = <<>>], b.resting)

CancelAll(b) ==
  LET entries == Retained(queue, {i \in DOMAIN queue : queue[i].action = "Entry"})
  IN  CancelEach([b EXCEPT !.resting = <<>>],
                 [i \in DOMAIN entries |-> entries[i].order] \o b.resting)

Flatten ==
  /\ book' = CancelAll(Quiet)
  /\ queue' = IF book.position # Flat THEN <<[action |-> "Close"]>> ELSE <<>>
  /\ UNCHANGED mark

(* reset: a position is closed at the last mark, and the mark forgotten.   *)
(* Without a mark there is nothing to reset.                               *)
Reset ==
  /\ mark # Unset
  /\ book' = CloseQuantity(CancelAll(Quiet), book.position.qty, "Reset", Unset)
  /\ queue' = <<>>
  /\ mark' = Unset

(* What a hand may order between two prints. *)
Command ==
  \/ \E e \in Entries : PlaceMarket(e) \/ PlaceResting(e)
  \/ \E i \in DOMAIN book.resting :
       \/ \E price \in Prices : ModifyOrder(i, price)
       \/ \E b \in Brackets : SetOrderBracket(i, b)
       \/ CancelResting(i)
  \/ \E i \in DOMAIN queue : CancelQueued(i)
  \/ \E b \in Brackets : SetBracket(b)
  \/ ClosePosition \/ \E qty \in Quantities : ClosePartial(qty)
  \/ Flatten

Next ==
  \/ \E price \in Prices : OnTrade(price) \/ Seed(price)
  \/ Command
  \/ Reset

Spec == Init /\ [][Next]_vars

(* The events of the last call decide nothing that follows, nor does how   *)
(* many ids were given out.                                                *)
Quietly == <<mark, queue, [Quiet EXCEPT !.ids = 0, !.ocos = 0]>>
-----------------------------------------------------------------------------
Signed(side, qty) == IF side = "Buy" THEN qty ELSE -qty
Holding(b) == Signed(b.position.side, b.position.qty)
Happened == book'.events
IsFill(e) == e.what = "Filled"

(* The signed quantity that fills of es make of n, and the account's        *)
(* before event i of the step.                                              *)
Moved(n, e)      == IF IsFill(e) THEN n + Signed(e.side, e.qty) ELSE n
Tally(n, es)     == FoldLeft(Moved, n, es)
HoldingBefore(i) == Tally(Holding(book), SubSeq(Happened, 1, i - 1))

(* Type invariant: an open position and every working order have a positive *)
(* quantity, a leg always belongs to a pair, and ids are never reused.      *)
SimTypeOK ==
  /\ mark \in Levels
  /\ book.position \in [side : Sides, qty : Nat \ {0}, stop : Levels, target : Levels]
       \cup {Flat}
  /\ book.kept = <<>> /\ book.placed \in 0 .. MaxPlaced /\ book.touched \in 0 .. MaxTouched
  /\ book.ids \in Nat /\ book.ocos \in Nat
  /\ Len(queue) <= MaxQueue
  /\ \A i \in DOMAIN book.resting : LET o == book.resting[i] IN
       /\ o.side \in Sides /\ o.qty \in Nat \ {0} /\ o.price \in Prices
       /\ o.kind \in {"Limit", "Stop"} /\ o.bracket \in Brackets \cup {<<>>}
       /\ Protective(o) = (o.oco # Unset) /\ o.id \in 1 .. book.ids /\ o.oco \in 0 .. book.ocos
       /\ \A j \in DOMAIN book.resting : book.resting[j].id = o.id => i = j

(* The position moves by exactly the fills the call reported, through       *)
(* averaging, netting, reversal, ladder legs, hand closes and a reset; and  *)
(* a close, a leg or the position's pair only ever reduces what is held at  *)
(* its moment within the print, so that no exit reverses a position.        *)
FillsExplainPosition ==
  [][/\ Holding(book') = HoldingBefore(Len(Happened) + 1)
     /\ \A i \in DOMAIN Happened : LET e == Happened[i] IN
          IsFill(e) /\ e.role # "Entry" =>
            /\ e.qty > 0
            /\ e.qty <= (IF e.side = "Sell" THEN HoldingBefore(i) ELSE -HoldingBefore(i))]_vars

(* No position is stopped out, or taken profit on, by the print that opened *)
(* it: protection exits come before entry fills in every print.             *)
ProtectionArmsNextPrint ==
  [][\A i, j \in DOMAIN Happened :
        i < j /\ IsFill(Happened[i]) /\ Happened[i].role = "Entry"
              /\ IsFill(Happened[j])
        => Happened[j].role \notin {"StopLoss", "TakeProfit"}]_vars

(* An entry order leaves the simulator with exactly one word about it,      *)
(* filled or cancelled, and none is said of an order still working.  Once a *)
(* leg has filled its pair is spent: the sibling is gone with it and never  *)
(* fills, though a hand-moved pair may be reached by one print whole.       *)
Working(b, q) ==
  {b.resting[i].id : i \in {i \in DOMAIN b.resting : ~Protective(b.resting[i])}}
    \cup {q[i].order.id : i \in {i \in DOMAIN q : q[i].action = "Entry"}}
OrdersLeaveOnce ==
  [][/\ \A id \in Working(book, queue) :
          Cardinality({i \in DOMAIN Happened : Happened[i].id = id})
            = IF id \in Working(book', queue') THEN 0 ELSE 1
     /\ \A i \in DOMAIN Happened : LET spent == Happened[i].oco IN
          IsFill(Happened[i]) /\ spent # Unset =>
            /\ \A j \in DOMAIN book'.resting : book'.resting[j].oco # spent
            /\ \A j \in DOMAIN Happened : IsFill(Happened[j]) /\ Happened[j].oco = spent => i = j
    ]_vars

(* Protection is the size of its position: the ladder an entry installs     *)
(* covers the position it leaves, to the unit, whatever of it was outrun    *)
(* and however the position had grown; and between calls an account with no *)
(* position has no leg working, which some later print would fill.          *)
LadderCoversItsPosition ==
  [][LET lastFill == SelectLastInSeq(Happened, IsFill)
         legs  == {Happened[i] : i \in {i \in DOMAIN Happened :
                     i > lastFill /\ Happened[i].what = "Placed" /\ Protective(Happened[i])}}
         pairs == {[oco |-> e.oco, qty |-> e.qty] : e \in legs}
     IN  /\ legs # {} =>
              book'.position.qty = FoldSet(LAMBDA p, n : p.qty + n, 0, pairs)
         /\ book'.position = Flat =>
              \A i \in DOMAIN book'.resting : ~Protective(book'.resting[i])]_vars

(* Every working leg reduces the position that is open.                     *)
LegsProtectThePosition ==
  \A i \in DOMAIN book.resting : LET o == book.resting[i] IN
    Protective(o) => book.position # Flat /\ o.side = Opposite(book.position.side)

(* One print never satisfies both levels of the position's own pair.        *)
OnePrintOneExit ==
  LET p == book.position IN
  p.stop # Unset /\ p.target # Unset =>
    \A price \in Prices : ~(AtOrBelow(p.side, price, p.stop) /\ AtOrBelow(p.side, p.target, price))

(* One print never satisfies both the fill and the cancel level of a limit. *)
FillAndCancelStayApart ==
  \A i \in DOMAIN book.resting : LET o == book.resting[i] IN
    o.cancel # Unset =>
      \A price \in Prices : ~(AtOrBelow(o.side, price, o.price) /\ AtOrBelow(o.side, o.cancel, price))
=============================================================================
