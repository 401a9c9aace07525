--------------------------- MODULE ArmedStrategies ---------------------------
(***************************************************************************)
(* The strategies armed on a chart's drawings and the paper account they   *)
(* share with a trader (crates/strategy/src/armed.rs, anchors.rs and       *)
(* runner.rs; crates/app/src/tab/strategies.rs; crates/paper/src/account.rs *)
(* over the simulator of Simulator.tla).                                   *)
(*                                                                         *)
(* One thread runs everything.  A print goes through the account, then     *)
(* pane by pane through the instances: each hears what the account         *)
(* reported since the last print, then each judges the bar the print       *)
(* closed.  Agenda lists the calls still to make, so that between two      *)
(* prints, and only there, the trader orders, arms and disarms.  What a    *)
(* bar shows an instance is free; notes, alarms and rulers are left out.   *)
(***************************************************************************)
EXTENDS Simulator

CONSTANTS
  Drawings,   \* the drawings of each pane, in the panes' order
  Presets,    \* the strategies an instance is armed with
  Setups      \* what a closed bar may show: a retest's edge, and a bracket

Watching == {"Armed", "Fired", "InPosition"}
Phases   == Watching \cup {"Done", "Disarmed"}
Panes    == DOMAIN Drawings

ASSUME ArmedAssumption ==
  /\ Drawings \in Seq(SUBSET UNION Range(Drawings))
  /\ \A p, q \in Panes : p # q => Drawings[p] \cap Drawings[q] = {}
  /\ \A f \in Presets : /\ f.side \in Sides /\ f.qty \in Nat \ {0}
                        /\ f.auto \in BOOLEAN /\ f.retest \in BOOLEAN
  /\ \A s \in Setups : s.edge \in Levels /\ s.bracket \in Brackets /\ ~Laddered(s.bracket)

VARIABLES
  anchors,    \* the armed instances of each pane, in creation order
  listening,  \* PaperAccount.bot_listening
  heard,      \* PaperAccount.bot_events, since the last print
  batch,      \* the events this print's evaluation drained
  agenda,     \* the calls the evaluation has still to make
  cleanup,    \* cancels the drawing menus parked for the end of the frame
  botOrders,  \* history: the orders strategies placed
  disowned    \* history: those a recorded day took from their instance
simVars   == <<mark, queue, book>>
botVars   == <<anchors, listening, heard, batch, agenda, cleanup, botOrders, disowned>>
armedVars == <<simVars, botVars>>

ArmedInit ==
  /\ Init
  /\ anchors = [p \in Panes |-> <<>>]
  /\ listening = FALSE /\ heard = <<>> /\ batch = <<>>
  /\ agenda = <<>> /\ cleanup = <<>> /\ botOrders = {} /\ disowned = {}
-----------------------------------------------------------------------------
(* is_flat: no position, nothing resting, nothing queued. *)
AccountFlat == book.position = Flat /\ book.resting = <<>> /\ queue = <<>>

(* handle_events, while somebody listens. *)
Buffered(events) == IF listening THEN heard \o events ELSE heard

Waiting(b) == b.phase = "Fired" /\ b.order = Unset
Awaits(b, e) == b.phase = "Fired" /\ b.order # Unset /\ e.id = b.order

(* Faulty variant: a dropped level is taken to be somebody else's. *)
NotMine(filled, e) == FALSE

DropIsMine(filled, e) == filled /\ e.what = "BracketDropped"

(* on_sim_events, one event: the instance, whether its own entry filled in  *)
(* this batch, and whether it answers by closing the position.              *)
Leaves(h, phase) == [h EXCEPT !.bot.phase = phase, !.bot.order = Unset]
Hear(h, e) ==
  LET b == h.bot IN
  CASE Waiting(b) /\ e.what = "Placed"      -> [h EXCEPT !.bot.order = e.id]
    [] Waiting(b) /\ e.what = "Rejected"    -> Leaves(h, "Disarmed")
    [] Awaits(b, e) /\ e.what = "Filled"    -> [Leaves(h, "InPosition") EXCEPT !.filled = TRUE]
    [] Awaits(b, e) /\ e.what = "Cancelled" -> Leaves(h, "Disarmed")
    [] Awaits(b, e) /\ e.what \in {"PriceTouched", "AccountOccupied"} ->
         Leaves(h, IF b.preset.auto THEN "Armed" ELSE "Disarmed")
    [] b.phase = "InPosition" /\ DropIsMine(h.filled, e) ->
         [Leaves(h, "Disarmed") EXCEPT !.closes = TRUE]
    [] OTHER -> h

OnSimEvents(b, events) ==
  FoldLeft(Hear, [bot |-> b, filled |-> FALSE, closes |-> FALSE], events)

Refusal == <<Remark("Rejected")>>
-----------------------------------------------------------------------------
(* A print on its way into the evaluation: the account consumes it, and    *)
(* evaluate drains what was buffered.  The panes in closed closed a bar.    *)
Calls(closed) ==
  LET Each(kind, p) == [i \in DOMAIN anchors[p] |-> [kind |-> kind, pane |-> p, at |-> i]]
      Of(p) == Each("deliver", p) \o (IF p \in closed THEN Each("judge", p) ELSE <<>>)
  IN  FlattenSeq([p \in Panes |-> Of(p)]) \o <<[kind |-> "listen"]>>

(* Prints are drained as a frame begins, and a frame ends in the cleanup.   *)
IngestTrade(price, closed) ==
  /\ agenda = <<>> /\ cleanup = <<>>
  /\ OnTrade(price)
  /\ batch' = Buffered(book'.events)
  /\ heard' = <<>>
  /\ agenda' = Calls(closed)
  /\ UNCHANGED <<anchors, listening, cleanup, botOrders, disowned>>

(* The next call of the evaluation is of this kind, and makes its instance b. *)
Due(kind)  == agenda # <<>> /\ Head(agenda).kind = kind
Called     == anchors[Head(agenda).pane][Head(agenda).at]
Becomes(b) ==
  /\ anchors' = [anchors EXCEPT ![Head(agenda).pane][Head(agenda).at] = b]
  /\ agenda' = Tail(agenda)
  /\ UNCHANGED <<listening, batch, cleanup, disowned>>

(* deliver_print_events, for one instance.  Its answer is applied at once;  *)
(* refused, when the operation is over already, it is heard by nobody.      *)
Deliver ==
  /\ Due("deliver")
  /\ LET h == OnSimEvents(Called, batch) IN
     /\ Becomes(h.bot)
     /\ IF h.closes /\ book.position # Flat
        THEN ClosePosition /\ UNCHANGED heard
        ELSE /\ heard' = IF h.closes THEN Buffered(Refusal) ELSE heard
             /\ UNCHANGED simVars
     /\ UNCHANGED botOrders

(* on_closed_bar: an operation is over once the account is flat. *)
Judged(b) ==
  IF b.phase = "InPosition" /\ AccountFlat
  THEN [b EXCEPT !.phase = IF b.preset.auto THEN "Armed" ELSE "Done"]
  ELSE b

(* No signal, not this instance's, or held by a gate. *)
Hold ==
  /\ Due("judge")
  /\ Becomes(Judged(Called))
  /\ UNCHANGED <<simVars, heard, botOrders>>

LegsClearEdge(side, edge, b) ==
  /\ StopOf(b) # Unset => Below(side, StopOf(b), edge)
  /\ TargetOf(b) # Unset => Below(side, edge, TargetOf(b))

MayTake(f, s) == s.edge # Unset => f.retest /\ LegsClearEdge(f.side, s.edge, s.bracket)

(* The entry a setup makes: at the market, or a limit on the edge that is   *)
(* given up at the target and fills into a flat account only.               *)
EntryOf(f, s) ==
  [side |-> f.side, kind |-> IF s.edge = Unset THEN "Market" ELSE "Limit",
   price |-> s.edge, qty |-> f.qty, bracket |-> s.bracket,
   cancel |-> IF s.edge = Unset THEN Unset ELSE TargetOf(s.bracket), flat |-> s.edge # Unset]

(* The instance fires: its command is applied and the answer echoed to it   *)
(* before the next instance judges.                                         *)
Fire(s) ==
  LET b == Judged(Called)
      e == EntryOf(b.preset, s)
      Echo(events) == OnSimEvents([b EXCEPT !.phase = "Fired"], events).bot
  IN
  /\ Due("judge") /\ b.phase = "Armed" /\ AccountFlat /\ MayTake(b.preset, s)
  /\ book.placed < MaxPlaced
  /\ \/ /\ PlaceMarket(e) \/ PlaceResting(e)
        /\ Becomes(Echo(book'.events))
        /\ botOrders' = botOrders \cup {book'.ids}
        /\ heard' = Buffered(book'.events)
     \/ /\ ~Placeable(e)
        /\ Becomes(Echo(Refusal))
        /\ heard' = Buffered(Refusal)
        /\ UNCHANGED <<simVars, botOrders>>

(* The last act of evaluate. *)
AnyIn(phases) == \E p \in Panes : \E i \in DOMAIN anchors[p] : anchors[p][i].phase \in phases

(* Faulty variant: an instance whose order is out does not count. *)
StillArmed == AnyIn({"Armed"})

SomeoneWatches == AnyIn(Watching)

SetBotListening ==
  /\ Due("listen")
  /\ listening' = SomeoneWatches
  /\ heard' = IF listening' THEN heard ELSE <<>>
  /\ batch' = <<>> /\ agenda' = <<>>
  /\ UNCHANGED <<simVars, anchors, cleanup, botOrders, disowned>>
-----------------------------------------------------------------------------
(* Between prints. *)
Quiescent == agenda = <<>> /\ UNCHANGED <<batch, agenda, botOrders>>
Idle == Quiescent /\ UNCHANGED disowned

(* The trader orders through the same funnel. *)
Trade == Idle /\ Command /\ heard' = Buffered(book'.events) /\ UNCHANGED <<anchors, listening, cleanup>>

Backfill(price) == Idle /\ Seed(price) /\ UNCHANGED <<anchors, listening, heard, cleanup>>

(* CancelOrder for each of ids in turn; one that is no longer working is    *)
(* refused.                                                                 *)
Withdraw(ids) ==
  LET Gone(o) == \E i \in DOMAIN ids : ids[i] = o.id
      left == {i \in DOMAIN book.resting : ~Gone(book.resting[i])}
      due  == {i \in DOMAIN queue : ~(queue[i].action = "Entry" /\ Gone(queue[i].order))}
      Answer(id) == IF id \in Working(book, queue)
                    THEN [Remark("Cancelled") EXCEPT !.id = id] ELSE Remark("Rejected")
  IN
  /\ queue' = Retained(queue, due)
  /\ book' = [Quiet EXCEPT !.resting = Retained(@, left),
                           !.events  = [i \in DOMAIN ids |-> Answer(ids[i])]]
  /\ heard' = Buffered(book'.events)
  /\ UNCHANGED mark

(* pending_entry_cancel, of each instance in turn. *)
Pending(bots) ==
  LET owing == Retained(bots, {i \in DOMAIN bots : bots[i].phase = "Fired"})
  IN  [i \in DOMAIN owing |-> owing[i].order]

On(p, d)     == {i \in DOMAIN anchors[p] : anchors[p][i].drawing = d}
Others(p, d) == Retained(anchors[p], DOMAIN anchors[p] \ On(p, d))
Riding(p, d) == Retained(anchors[p], On(p, d))

Owed(p, d) == Pending(Riding(p, d))

(* Arming replaces whatever rides the drawing. *)
Arm(p, d, f) ==
  /\ Idle
  /\ anchors' = [anchors EXCEPT ![p] =
       Append(Others(p, d), [drawing |-> d, preset |-> f, phase |-> "Armed", order |-> Unset])]
  /\ Withdraw(Owed(p, d))
  /\ listening' = TRUE
  /\ UNCHANGED cleanup

Disarmed(b) == [b EXCEPT !.phase = "Disarmed", !.order = Unset]

(* The drawing menu, and the drawing's deletion, park their cancels. *)
Park(p, d) == cleanup' = cleanup \o Owed(p, d) /\ UNCHANGED <<simVars, listening, heard>>

Disarm(p, i) ==
  /\ Idle
  /\ anchors' = [anchors EXCEPT ![p][i] = Disarmed(@)]
  /\ Park(p, anchors[p][i].drawing)

RemoveForDrawing(p, d) ==
  /\ Idle /\ Riding(p, d) # <<>>
  /\ anchors' = [anchors EXCEPT ![p] = Others(p, d)]
  /\ Park(p, d)

RearmInstance(p, i) ==
  /\ Idle /\ anchors[p][i].phase \notin Watching
  /\ anchors' = [anchors EXCEPT ![p][i].phase = "Armed"]
  /\ UNCHANGED <<simVars, listening, heard, cleanup>>

ApplyCleanup ==
  /\ Idle /\ cleanup # <<>>
  /\ Withdraw(cleanup)
  /\ cleanup' = <<>>
  /\ UNCHANGED <<anchors, listening>>

DisarmAll(p) == [i \in DOMAIN anchors[p] |-> Disarmed(anchors[p][i])]

(* recut_pane_with, for a change of the bar rule. *)
ChangeBarSpec(p) ==
  /\ Idle
  /\ anchors' = [anchors EXCEPT ![p] = DisarmAll(p)]
  /\ Withdraw(Pending(anchors[p]))
  /\ UNCHANGED <<listening, cleanup>>

(* recut_pane_with, for a recorded day loaded under the bars: the disarms   *)
(* are put down to a timeline reset, and such a disarm owes no cancel.      *)
LoadRecordedDay(p) ==
  /\ Quiescent
  /\ disowned' = disowned \cup Range(Pending(anchors[p]))
  /\ anchors' = [anchors EXCEPT ![p] = DisarmAll(p)]
  /\ UNCHANGED <<simVars, listening, heard, cleanup>>

(* reset_market_state, or a switch of market: the account is reset too, and *)
(* what was buffered of the old tape is forgotten.                          *)
ResetMarket ==
  /\ Idle
  /\ anchors' = [p \in Panes |-> DisarmAll(p)]
  /\ IF mark = Unset THEN UNCHANGED simVars ELSE Reset
  /\ heard' = <<>>
  /\ UNCHANGED <<listening, cleanup>>

ArmedNext ==
  \/ \E price \in Prices, closed \in SUBSET Panes : IngestTrade(price, closed)
  \/ Deliver \/ Hold \/ SetBotListening
  \/ \E s \in Setups : Fire(s)
  \/ Trade
  \/ \E price \in Prices : Backfill(price)
  \/ \E p \in Panes :
       \/ \E d \in Drawings[p] : RemoveForDrawing(p, d) \/ \E f \in Presets : Arm(p, d, f)
       \/ \E i \in DOMAIN anchors[p] : Disarm(p, i) \/ RearmInstance(p, i)
       \/ ChangeBarSpec(p) \/ LoadRecordedDay(p)
  \/ ApplyCleanup \/ ResetMarket

ArmedSpec == ArmedInit /\ [][ArmedNext]_armedVars

(* What the last call reported is in heard or batch by now, if anywhere.    *)
ArmedView == <<mark, queue, Quiet, botVars>>
-----------------------------------------------------------------------------
Bots == UNION {Range(anchors[p]) : p \in Panes}
Sleeping == agenda = <<>>

(* Type invariant: a drawing carries one instance, on its own pane, and an  *)
(* instance that fired has heard its order's id before anything else runs.  *)
BotTypeOK ==
  /\ listening \in BOOLEAN /\ botOrders \subseteq 1 .. book.ids
  /\ \A p \in Panes : \A i, j \in DOMAIN anchors[p] :
       LET b == anchors[p][i] IN
       /\ b.drawing \in Drawings[p] /\ b.preset \in Presets /\ b.phase \in Phases
       /\ b.order \in 0 .. book.ids /\ (b.phase = "Fired") = (b.order # Unset)
       /\ anchors[p][j].drawing = b.drawing => i = j

(* Between evaluations no badge reads "fired" over nothing: the order is    *)
(* still working, or the word that it is not is on its way to the instance, *)
(* however it left and whatever was switched off and on meanwhile.  And one *)
(* entry of all the strategies' is working at a time.                       *)
FiredIsPending ==
  Sleeping =>
    /\ \A b \in Bots : b.phase = "Fired" =>
         b.order \in Working(book, queue) \/ \E i \in DOMAIN heard : heard[i].id = b.order
    /\ Cardinality(botOrders \cap Working(book, queue)) <= 1

(* An entry of a strategy fills into a flat account only, whatever the      *)
(* trader and the other instances did between its bar and its fill.         *)
BotsNeverNet ==
  [][Sleeping /\ agenda' # <<>> =>
       \A i \in DOMAIN Happened :
         IsFill(Happened[i]) /\ Happened[i].id \in botOrders => HoldingBefore(i) = 0]_armedVars

(* When an instance's entry filled and lost a level to the tape, the        *)
(* position is closed, or its close is queued for the next print, before    *)
(* the evaluation ends: it is never left to ride bare.  The orders a        *)
(* recorded day orphaned are those of OrdersKeepTheirBadge.                 *)
NeverRidesBare ==
  [][Due("listen") =>
       \A i \in DOMAIN batch :
         /\ IsFill(batch[i]) /\ batch[i].id \in botOrders \ disowned
         /\ i < Len(batch) /\ batch[i + 1].what = "BracketDropped"
         => book.position = Flat \/ \E j \in DOMAIN queue : queue[j].action = "Close"]_armedVars

(* A working entry of a strategy has its instance's badge over it, or its   *)
(* cancel is parked for the end of the frame: no order outlives its bot.    *)
OrdersKeepTheirBadge ==
  Sleeping =>
    \A id \in botOrders \cap Working(book, queue) :
      \/ \E b \in Bots : b.order = id
      \/ \E i \in DOMAIN cleanup : cleanup[i] = id
=============================================================================
