--------------------------- MODULE IndicatorPane ---------------------------
(* One chart pane and its indicator worker: the pane issues commands and    *)
(* never waits (CommandBacklog), the worker reduces them in batches         *)
(* (IndicatorSession) and waits when the pane is behind on its events, and  *)
(* the pane mirrors the deltas in its views and repairs a row drift once    *)
(* the worker has settled.                                                  *)
EXTENDS IndicatorSession

CONSTANTS CommandCap,   \* INDICATOR_COMMAND_QUEUE
          EventCap,     \* INDICATOR_EVENT_QUEUE
          Values,       \* input values a user can set
          BarSizes,     \* prints per bar a chart can be set to
          Rungs,        \* rung budgets the live lane can have
          Seeds,        \* the prints a pane opened mid-session starts from
          Backfills,    \* sizes a backfill can have
          MaxPrints,    \* bound on the prints a run of the model sees
          MaxOps        \* bound on what the user and the feed do

ASSUME PaneAssumption ==
  /\ CommandCap \in Nat \ {0} /\ EventCap \in Nat \ {0}
  /\ Slots \subseteq Nat /\ 0 \in Rungs /\ Rungs \subseteq Nat
  /\ BarSizes \subseteq Nat \ {0} /\ BarSizes # {}
  /\ Broken \subseteq Sources /\ FailsAt \in [Sources -> Nat]
  /\ Seeds \subseteq Seq(Nat) /\ Backfills \subseteq Nat /\ None \notin Seq(Nat)
  /\ MaxPrints \in Nat /\ MaxOps \in Nat

VARIABLES
  chart,    \* [trades, size, opened]: the retained prints and the bar spec
  lane,     \* [rungs, sent]: LaneTransport, the forming prints already sent
  todo,     \* commands the running UI handler has yet to offer
  link,     \* the command channel and what is parked in front of it
  counts,   \* [queued, inflight, deferred] of the progress snapshot
  worker,   \* [phase, batch, session]
  out,      \* events of the running batch not yet sent
  events,   \* the bounded event channel
  views,    \* [shown, pending, answered, next]: IndicatorViews
  ui,       \* where apply_indicator_events stands
  wanted,   \* what the user asked of each slot (history variable)
  used      \* [prints, ops] spent of the bounds

paneVars == <<chart, lane, todo, link, counts, worker, out, events, views, ui, wanted, used>>
userVars == <<chart, lane, todo, views, wanted, used>>

B == INSTANCE CommandBacklog WITH Capacity <- CommandCap, Merge <- FoldParked

(* --- the series ------------------------------------------------------- *)

Bars(c) == [i \in 1 .. Len(c.trades) \div c.size |->
             SubSeq(c.trades, (i - 1) * c.size + 1, i * c.size)]
Forming(c) == SubSeq(c.trades, (Len(c.trades) \div c.size) * c.size + 1, Len(c.trades))

(* --- the producer's side of the lane ---------------------------------- *)

(* LaneTransport::command over the series c with `sent` prints gone before: *)
(* the forming prints not yet sent, and how many are sent after it.         *)
Unsent(c, rungs) == IF rungs = 0 THEN 0 ELSE Len(Forming(c))
PartialCommand(c, rungs, sent) ==
  LET n == Unsent(c, rungs)
  IN  [op |-> "PartialUpdated", partial |-> Forming(c), rungs |-> rungs,
       run |-> SubSeq(c.trades, Len(c.trades) - n + B!Least(sent, n) + 1, Len(c.trades))]

AddCommand(slot, src) == [op |-> "Add", slot |-> slot, src |-> src]
Asked(src) == Mirror(src \notin Broken, src, IF src \in Broken THEN None ELSE Default)

RebuildCommand(c) == [op |-> "Rebuild", bars |-> Bars(c), partial |-> Forming(c)]

(* A pane opens with the indicator its layout restores, on an empty series  *)
(* or seeded with the prints another pane of the same market holds.         *)
PaneInit ==
  /\ \E src \in Sources :
       /\ wanted = [slot \in {0} |-> Asked(src)]
       /\ \/ /\ chart \in [trades : {<< >>}, size : BarSizes, opened : {FALSE}]
             /\ todo = <<AddCommand(0, src)>>
          \/ /\ chart \in [trades : Seeds, size : BarSizes, opened : {TRUE}]
             /\ todo = <<AddCommand(0, src), RebuildCommand(chart), PartialCommand(chart, 0, 0)>>
  /\ lane = [rungs |-> 0, sent |-> 0]
  /\ link = B!NoLink
  /\ counts = [queued |-> 0, inflight |-> 0, deferred |-> FALSE]
  /\ worker = [phase |-> "idle", batch |-> << >>, session |-> NewSession]
  /\ out = << >>
  /\ events = << >>
  /\ views = [shown |-> << >>, pending |-> {0}, answered |-> {}, next |-> 1]
  /\ ui = "free"
  /\ used = [prints |-> 0, ops |-> 0]

(* A handler leaves the series at c and its commands in todo; every handler *)
(* below ends with a forming-bar update, on a cursor at `sent`.             *)
Issue(c, commands, sent) ==
  /\ chart' = c
  /\ todo' = Append(commands, PartialCommand(c, lane.rungs, sent))
  /\ lane' = [lane EXCEPT !.sent = Unsent(c, lane.rungs)]

(* --- what the user and the feed do, on the UI thread ------------------- *)

UiFree == ui = "free" /\ todo = << >> /\ used.ops < MaxOps
Spend(prints) ==
  /\ used.prints + prints <= MaxPrints
  /\ used' = [prints |-> used.prints + prints, ops |-> used.ops + 1]
Fresh(n) == [i \in 1 .. n |-> used.prints + i]

AddIndicator(src) ==
  LET slot == views.next IN
  /\ UiFree /\ slot \in Slots /\ Spend(0)
  /\ views' = [views EXCEPT !.next = @ + 1, !.pending = @ \cup {slot}]
  /\ todo' = <<AddCommand(slot, src)>>
  /\ wanted' = With(wanted, slot, Asked(src))
  /\ UNCHANGED <<chart, lane>>

(* The settings dialog binds values on a slot it has a view of. *)
ApplyInputs(slot, v) ==
  /\ UiFree /\ slot \in DOMAIN views.shown /\ Spend(0)
  /\ todo' = <<[op |-> "SetInputs", slot |-> slot, values |-> v]>>
  /\ wanted' = [wanted EXCEPT ![slot].values = v]
  /\ UNCHANGED <<chart, lane, views>>

(* The script file behind a slot changed on disk. *)
ReloadScript(slot, src) ==
  /\ UiFree /\ slot \in DOMAIN wanted /\ Spend(0)
  /\ todo' = <<[op |-> "Reload", slot |-> slot, src |-> src]>>
  /\ wanted' = [wanted EXCEPT ![slot] =
                 IF src \in Broken THEN [@ EXCEPT !.stale = TRUE]
                 ELSE Mirror(TRUE, src, Rebound(@.values))]
  /\ UNCHANGED <<chart, lane, views>>

Forgotten(slots) ==
  [views EXCEPT !.shown = [s \in DOMAIN @ \ slots |-> @[s]], !.pending = @ \ slots]

RemoveIndicator(slot) ==
  /\ UiFree /\ slot \in DOMAIN wanted /\ Spend(0)
  /\ views' = Forgotten({slot})
  /\ todo' = <<[op |-> "Remove", slot |-> slot]>>
  /\ wanted' = Without(wanted, slot)
  /\ UNCHANGED <<chart, lane>>

(* An import strips the panes: every slot that has a view goes. *)
ClearIndicators ==
  LET slots == DOMAIN views.shown IN
  /\ UiFree /\ slots # {} /\ Spend(0)
  /\ views' = Forgotten(slots)
  /\ todo' = [i \in 1 .. Cardinality(slots) |->
               [op |-> "Remove", slot |-> InOrder(slots)[i]]]
  /\ wanted' = [s \in DOMAIN wanted \ slots |-> wanted[s]]
  /\ UNCHANGED <<chart, lane>>

(* The feed's one Backfilled event, before any live print. *)
IngestBackfill(n) ==
  LET c == [chart EXCEPT !.trades = @ \o Fresh(n), !.opened = TRUE] IN
  /\ UiFree /\ ~chart.opened /\ Spend(n)
  /\ Issue(c, <<[op |-> "Backfilled", bars |-> Bars(c)]>>, 0)
  /\ UNCHANGED <<views, wanted>>

(* One drain of n live prints: each bar they close is a command, and the    *)
(* forming bar is sent once at the end, from the first print the worker     *)
(* does not hold.                                                           *)
IngestLive(n) ==
  LET c      == [chart EXCEPT !.trades = @ \o Fresh(n)]
      closed == SubSeq(Bars(c), Len(Bars(chart)) + 1, Len(Bars(c)))
  IN
  /\ UiFree /\ chart.opened /\ Spend(n)
  /\ Issue(c, [i \in 1 .. Len(closed) |-> [op |-> "BarClosed", bar |-> closed[i]]],
           IF closed = << >> THEN lane.sent ELSE 0)
  /\ UNCHANGED <<views, wanted>>

Rebuilds(c) == Issue(c, <<RebuildCommand(c)>>, 0)

(* Older prints re-cut every bar; the views are nudged until the rebuild lands. *)
Shifted(view, added) ==
  [view EXCEPT !.rows = [i \in 1 .. added |-> None] \o @, !.preview = << >>]
PrependHistory(n) ==
  LET c     == [chart EXCEPT !.trades = Fresh(n) \o @]
      added == Len(Bars(c)) - Len(Bars(chart))
  IN
  /\ UiFree /\ chart.opened /\ Spend(n)
  /\ views' = IF added = 0 THEN views
              ELSE [views EXCEPT !.shown = [s \in DOMAIN @ |-> Shifted(@[s], added)]]
  /\ Rebuilds(c)
  /\ UNCHANGED wanted

SetSpec(size) ==
  /\ UiFree /\ size # chart.size /\ Spend(0)
  /\ Rebuilds([chart EXCEPT !.size = size])
  /\ UNCHANGED <<views, wanted>>

(* A feed switch empties the series and says so with a forming-bar update   *)
(* only: the new feed's Backfilled is what replays the indicators.          *)
SwitchFeed ==
  /\ UiFree /\ Spend(0)
  /\ Issue([chart EXCEPT !.trades = << >>, !.opened = FALSE], << >>, 0)
  /\ UNCHANGED <<views, wanted>>

(* A source that rewound: the reset of a feed switch, then a rebuild. *)
ResetMarketState ==
  LET c == [chart EXCEPT !.trades = << >>, !.opened = FALSE] IN
  /\ UiFree /\ Spend(0)
  /\ Issue(c, <<PartialCommand(c, lane.rungs, 0), RebuildCommand(c)>>, 0)
  /\ UNCHANGED <<views, wanted>>

(* The frame gave the live lane another rung budget. *)
SetRungs(rungs) ==
  LET sent == IF rungs = 0 THEN 0 ELSE lane.sent IN
  /\ UiFree /\ rungs # lane.rungs /\ Spend(0)
  /\ todo' = <<PartialCommand(chart, rungs, sent)>>
  /\ lane' = [rungs |-> rungs, sent |-> Unsent(chart, rungs)]
  /\ UNCHANGED <<chart, views, wanted>>

UserStep ==
  /\ \/ \E src \in Sources : AddIndicator(src)
     \/ \E slot \in Slots, v \in Values : ApplyInputs(slot, v)
     \/ \E slot \in Slots, src \in Sources : ReloadScript(slot, src)
     \/ \E slot \in Slots : RemoveIndicator(slot)
     \/ ClearIndicators
     \/ \E n \in Backfills : IngestBackfill(n)
     \/ \E n \in 1 .. 2 : IngestLive(n)
     \/ PrependHistory(1)
     \/ \E size \in BarSizes : SetSpec(size)
     \/ SwitchFeed
     \/ ResetMarketState
     \/ \E rungs \in Rungs : SetRungs(rungs)
  /\ UNCHANGED <<link, counts, worker, out, events, ui>>

(* --- the owner's end of the command channel ----------------------------- *)

(* One send of the running handler. *)
SendCommand ==
  LET queues  == B!Queues(link)
      entered == B!Entering(link) + (IF queues THEN 1 ELSE 0)
  IN
  /\ todo # << >>
  /\ link' = B!Offer(link, Head(todo))
  /\ counts' = [counts EXCEPT !.queued = @ + entered, !.deferred = @ \/ ~queues]
  /\ todo' = Tail(todo)
  /\ UNCHANGED <<chart, lane, worker, out, events, views, ui, wanted, used>>

(* Faulty variant: what is parked waits for the next command. *)
PumpNothing == UNCHANGED <<link, counts>>

(* drain_events: the parked commands are offered again first. *)
Pump ==
  /\ link' = B!Drain(link)
  /\ counts' = [counts EXCEPT !.queued = @ + B!Entering(link)]

(* --- the views ------------------------------------------------------------ *)

NewView(e) == [src |-> e.src, rows |-> e.rows, inputs |-> e.inputs, stale |-> e.stale,
               preview |-> << >>, lane |-> << >>, error |-> FALSE]

ApplyToView(view, e) ==
  CASE e.ev = "Appended" -> [view EXCEPT !.rows = Append(@, e.row), !.preview = << >>,
                                         !.lane = << >>]
    [] e.ev = "Preview"  -> [view EXCEPT !.preview = e.frame]
    [] e.ev = "Lane"     -> [view EXCEPT !.lane = e.samples]
    [] e.ev = "Error"    -> [view EXCEPT !.error = TRUE, !.preview = << >>, !.lane = << >>]
    [] e.ev = "ReloadFailed" -> [view EXCEPT !.stale = TRUE]

(* Faulty variant: the first answer always makes a view. *)
BornAnyway(v, slot) == TRUE

(* A first answer is shown only where an add of this chart still waits. *)
Born(v, slot) == slot \in DOMAIN v.shown \/ slot \in v.pending

ApplyEvent(v, e) ==
  IF e.ev = "Rebuilt"
  THEN IF ~Born(v, e.slot) THEN v
       ELSE [v EXCEPT !.shown = With(@, e.slot, NewView(e)), !.pending = @ \ {e.slot}]
  ELSE IF e.slot \notin DOMAIN v.shown THEN v
  ELSE [v EXCEPT !.shown[e.slot] = ApplyToView(@, e)]

ApplyEvents(v) == FoldLeft(ApplyEvent, v, events)

InStep(v, slot)  == slot \in DOMAIN v.shown => Len(v.shown[slot].rows) = Len(Bars(chart))
Drifted(v) == {slot \in DOMAIN v.shown : ~v.shown[slot].error /\ ~InStep(v, slot)}

(* row_drift forgets the answers of slots back in step. *)
Recalled(v) == [v EXCEPT !.answered = {slot \in @ : ~InStep(v, slot)}]
Unanswered(v) == Drifted(v) \ v.answered

(* --- the frame ------------------------------------------------------------ *)

(* Drain and apply, then look for a drift.  Where nothing is shown the      *)
(* frame still pumps.                                                       *)
DrainEvents ==
  /\ ui = "free" /\ todo = << >>
  /\ Pump
  /\ \E v \in {Recalled(a) : a \in {ApplyEvents(views)}} :    \* computed once
       /\ views' = v
       /\ ui' = IF Unanswered(v) = {} THEN "free" ELSE "drift"
  /\ events' = << >>
  /\ UNCHANGED <<chart, lane, todo, worker, out, wanted, used>>

(* The progress snapshot, read after the drain: the worker may have         *)
(* finished in between.                                                     *)
Idle == counts.queued = 0 /\ counts.inflight = 0 /\ link.parked = << >> /\ ~counts.deferred
ReadProgress ==
  /\ ui = "drift"
  /\ ui' = IF Idle THEN "settled" ELSE "free"
  /\ UNCHANGED <<userVars, link, counts, worker, out, events>>

(* Faulty variant: the answer looks at the rows without what has arrived since. *)
AnswerDriftUnread ==
  LET drift == Unanswered(Recalled(views)) # {} IN
  /\ ui = "settled"
  /\ Pump
  /\ views' = IF drift THEN [views EXCEPT !.answered = @ \cup Drifted(views)] ELSE views
  /\ IF drift THEN Rebuilds(chart) ELSE UNCHANGED <<chart, lane, todo>>
  /\ ui' = "free"
  /\ UNCHANGED <<worker, out, events, wanted, used>>

(* What the worker had already published is taken in before the answer. *)
AnswerDrift ==
  LET v     == Recalled(ApplyEvents(views))
      drift == Unanswered(v) # {}
  IN
  /\ ui = "settled"
  /\ Pump
  /\ events' = << >>
  /\ views' = IF drift THEN [v EXCEPT !.answered = @ \cup Drifted(v)] ELSE v
  /\ IF drift THEN Rebuilds(chart) ELSE UNCHANGED <<chart, lane, todo>>
  /\ ui' = "free"
  /\ UNCHANGED <<worker, out, wanted, used>>

(* --- the worker thread ------------------------------------------------------ *)

(* recv for the first command of a batch, try_recv for the others. *)
TakeCommand ==
  /\ worker.phase = "idle" /\ link.chan # << >>
  /\ worker' = [worker EXCEPT !.batch = Append(@, Head(link.chan))]
  /\ link' = [link EXCEPT !.chan = Tail(@)]
  /\ UNCHANGED <<userVars, counts, out, events, ui>>

(* The channel is empty: the batch is counted in, reduced and its deltas    *)
(* are due.  Only this thread touches the session, so the whole reduction   *)
(* is one step.                                                             *)
RunTaken ==
  /\ worker.phase = "idle" /\ worker.batch # << >> /\ link.chan = << >>
  /\ \E ran \in Reductions(worker.session, worker.batch) :
       /\ worker' = [phase |-> "publishing", batch |-> << >>, session |-> ran.s]
       /\ out' = ran.out
  /\ counts' = [counts EXCEPT !.queued = @ - Len(worker.batch), !.inflight = Len(worker.batch)]
  /\ UNCHANGED <<userVars, link, events, ui>>

(* One send of an event; it waits while the channel is full. *)
SendEvent ==
  /\ worker.phase = "publishing" /\ out # << >> /\ Len(events) < EventCap
  /\ events' = Append(events, Head(out))
  /\ out' = Tail(out)
  /\ UNCHANGED <<userVars, link, counts, worker, ui>>

FinishBatch ==
  /\ worker.phase = "publishing" /\ out = << >>
  /\ worker' = [worker EXCEPT !.phase = "idle"]
  /\ counts' = [counts EXCEPT !.inflight = 0]
  /\ UNCHANGED <<userVars, link, out, events, ui>>

WorkerStep == TakeCommand \/ RunTaken \/ SendEvent \/ FinishBatch
FrameStep  == SendCommand \/ DrainEvents \/ ReadProgress \/ AnswerDrift

PaneNext == UserStep \/ FrameStep \/ WorkerStep

(* Frames keep coming and the worker thread is scheduled; the user and the  *)
(* feed owe nothing.                                                        *)
PaneSpec == PaneInit /\ [][PaneNext]_paneVars /\ WF_paneVars(FrameStep) /\ WF_paneVars(WorkerStep)

(* --- properties --------------------------------------------------------------- *)

(* Every variable keeps its shape: queues within their capacities, slots    *)
(* only of this chart, counters that never go negative.                     *)
PaneTypeOK ==
  /\ chart.size \in BarSizes /\ chart.opened \in BOOLEAN
  /\ lane.rungs \in Rungs /\ lane.sent \in 0 .. chart.size
  /\ Len(link.chan) <= CommandCap /\ Len(events) <= EventCap
  /\ counts.queued \in Nat /\ counts.inflight \in Nat /\ counts.deferred \in BOOLEAN
  /\ worker.phase \in {"idle", "publishing"}
  /\ ui \in {"free", "drift", "settled"}
  /\ DOMAIN views.shown \subseteq Slots /\ views.pending \subseteq Slots
  /\ views.next \in Nat

(* Nothing is on its way between the pane and its worker. *)
Quiet ==
  /\ todo = << >> /\ link = B!NoLink
  /\ worker.batch = << >> /\ out = << >> /\ worker.phase = "idle"
Settled == Quiet /\ events = << >> /\ ui = "free"

(* The remove always wins (IndicatorViews::apply): whatever is still on its *)
(* way, no view and no parked kind exists for a slot that was taken away,   *)
(* and none has both.                                                       *)
RemoveWins ==
  /\ DOMAIN views.shown \cup views.pending = DOMAIN wanted
  /\ DOMAIN views.shown \cap views.pending = {}

(* Once everything has settled each slot shows the source, the inputs and   *)
(* the staleness the user's commands, run one at a time, would leave:       *)
(* folding parked commands, skipping superseded inputs and publishing       *)
(* deltas lose nothing.                                                     *)
SettledBindings ==
  Settled =>
    /\ DOMAIN views.shown = DOMAIN wanted
    /\ \A slot \in DOMAIN wanted :
         LET view == views.shown[slot] want == wanted[slot] IN
         /\ view.src = want.src /\ view.stale = want.stale
         /\ IF want.loaded THEN view.inputs = want.values ELSE view.error

(* Once everything has settled, a healthy view in step with the chart shows *)
(* every bar of it and nothing else, previews the forming bar, and its lane *)
(* is either blank or the whole forming run: never a mix of two series and  *)
(* never a rung of a bar already closed.                                    *)
SettledRows ==
  Settled =>
    \A slot \in DOMAIN views.shown \ Drifted(views) :
      LET view == views.shown[slot] IN
      wanted[slot].loaded =>
        IF view.error THEN view.preview = << >> /\ view.lane = << >>
        ELSE /\ view.rows = Bars(chart)
             /\ view.preview = Forming(chart)
             /\ view.lane \in {<< >>, Forming(chart)}
             /\ lane.rungs = 0 => view.lane = << >>

(* What is settled is what the user and the chart say. *)
SettledPane == SettledBindings /\ SettledRows

(* A repair is spent on a real disagreement: it is issued only where, with  *)
(* nothing left to arrive, the worker's own host holds another number of    *)
(* bars than the chart.                                                     *)
RepairsAreEarned ==
  [][AnswerDrift /\ todo' # << >>
       => Len(worker.session.bars) # Len(Bars(chart))]_paneVars

(* With nothing more asked, everything in transit arrives, however far      *)
(* behind the worker and the pane are: no command stays parked, the worker  *)
(* is not left waiting on a full event channel, and the pane settles on the *)
(* chart's own bars, unless a command once waited (DriftIsAnswered).        *)
SettlesOnTheChart ==
  <>[](Quiet /\ events = << >> /\ (Drifted(views) = {} \/ counts.deferred))

(* pane/series.rs and views.rs: with the worker idle and all it published   *)
(* taken in, rows that disagree with the chart mean a missed rebuild, and   *)
(* the caller owes one.                                                     *)
DriftIsAnswered == [](Quiet /\ Drifted(views) # {} => <>(Drifted(views) = {}))

(* protocol.rs, IndicatorEvent::Lane: the samples are empty when there is   *)
(* no lane or nothing is forming.                                           *)
LaneFollowsForming ==
  Settled /\ lane.rungs > 0 /\ Forming(chart) # << >> =>
    \A slot \in DOMAIN views.shown : ~views.shown[slot].error => views.shown[slot].lane # << >>

=============================================================================
