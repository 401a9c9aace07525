# Quantick in TLA+

Quantick is a desktop charting and paper-trading program written in Rust. It
streams trades and order books from venues, folds them into bars and a
liquidity heatmap, simulates orders against the tape, and lets local clients
observe and drive it through a control gateway. This directory models the parts
of it whose correctness depends on the order in which things happen, checks
them with TLC on small instances, and proves what TLAPS can prove for all of
them. All paths below are relative to the repository.

To check: `tlc -config MCSimulator.cfg MCSimulator`, and so on for each pair in
the table of runs; `tlapm` on each `...Proofs.tla` for the proofs.

## 1. The system

### Components

| component (crate) | state | operations | interacts by | hard because |
|---|---|---|---|---|
| control gateway (`app/src/control`, `control-host`, `control-local`, `mcp`) | idempotency store, slot counters, request IDs, writer locks, per-call dispatch state, event journal, discovery descriptor | handshake, admit, dispatch, answer, settle, revoke, enable/disable, `events.wait` | sockets, one bounded request queue, one reply channel per call, shared atomics | reader threads, a response worker per call and the frame loop race; deadlines; the application may stall; clients retry |
| paper simulator (`sim`, vocabulary in `trading`) | queue of market actions, resting orders, one net position, the mark | eleven commands, `on_trade`, `seed`, `reset` | called by the desk on one thread | long legal sequences; many things happen inside one print |
| paper account and desk (`paper`), armed strategies (`strategy`, `app/src/tab/strategies.rs`) | one account, its event buffer and journal; the armed instances of each pane | arm, disarm, bar close, fill routing, reset | commands to and events from the simulator, shared with the trader | commands issued from events of the same print; entries rest for hours while everyone else acts |
| order-book capture (`feed-binance/depth`, `feed`, `orderbook`, `orderflow`, `app/src/tab/feed.rs`) | venue socket, bootstrap buffer, synchronizer, channels, generation and epoch, the reader's history | connect, buffer, fetch, bridge, follow, reconnect; start, restart, reload, replay | tokio tasks, bounded channels, aborts | snapshot and stream are unordered; losses; stale events of aborted tasks |
| MetaTrader tape (`bridge/mt5`, `feed-mt5`, `feed/src/metatrader`) | the bridge's cursor, parked slices and one request; the connection's pager; the feed's ledger and running refill | open with a block, send slices, live prints and pages; refill a hole, hold prints back, mark gaps | a socket, one event channel, a pager shared by two tasks, events to a tab | prints have no identity and share milliseconds; replies carry no id; a bridge may go at any moment |
| history run (`session/src/paging.rs`, `sources`, `app/src/tab/feed.rs`) | a queued press, the campaign, what is loading, the panes' pages | press, page, judge, pause, cancel, rebuild, attach | commands to and events from the feed, one rebuild worker per pane | the opening block comes as a reply too; tabs are hidden; feeds are replaced |
| Hyperliquid feed (`feed-hyperliquid`), replay (`replay`) | trade ids; clock and cursor | stream; play, seek | channels to a tab | reconnects, seeks |
| indicators (`indicator-session`, `indicators`, `app/src/pane`, `chart/src/indicator_views`) | the pane's series and views; the worker's session, one host per script | add, set inputs, reload, remove, bar close, forming bar, rebuild; draw | a command channel and an event channel, both bounded, and a progress snapshot | the pane never waits, the worker does; commands fold while they wait; a removal races answers |
| backpressure (`backpressure`) | parked and folded commands, progress ledger | offer, drain | bounded channels | never drop, keep order |
| bar engine, chart, drawings, pine, stores, layers and the rest | mostly pure data | folds, projections, documents | function calls | sequential |

`PROJECT.json` lists every part with what is modelled of it and why the rest is
not (yet).

### What makes each modelled component correct

* **Idempotency store.** A key acts once: one licence per scope, no answer
  beside an action, nothing kept for a closed connection, a cap, and no client
  losing keys to how busy another is.
* **Gateway.** What a client is told is true for good; slots, request IDs and
  keys are returned exactly once on every path; from revocation on nothing of a
  client changes the application; nothing waits on the application.
* **Event journal and waits.** A client that pages through the journal sees
  every event or is told of the gap; a position the gateway handed out stays
  good; a wait is never forgotten, answers within what it is owed, says
  truthfully whether it timed out, and returns its slots once.
* **Indicators.** Whatever was folded, superseded or overtaken, the settled pane
  shows what the commands run one at a time would leave; a removed indicator
  never returns; a missed rebuild is noticed and repaired, a late one is not
  mistaken for it; neither side waits on the other for ever.
* **Simulator.** The position is what the reported fills say; exits reduce; an
  entry leaves the book once; protection covers the position, fires after the
  print that installed it, and goes when the position does.
* **Armed strategies.** A strategy's entry fills only into a flat account; its
  instance always learns how the entry ended; a fill that lost its protection
  to the tape is closed; no working order is left without its instance.
* **MetaTrader tape.** Every print reaches the wire once and in order; the chart
  stays in tape order, and a print it lacks lies in a marked gap; a page that
  was asked for is answered once; what a refill holds back comes out.
* **History run.** One request is out at a time and its reply judged by the run
  that made it; a run ends, stays under its limits and says truly why.
* **Order book.** What is displayed is the venue's book at some update id, or
  visibly lost, and lost only for a cause; nothing of a replaced capture is ever
  shown; a capture that the tab believes in exists.

## 2. Modules

| module | models | extends |
|---|---|---|
| `IdempotencyLedger` | `control-host/src/idempotency.rs` | |
| `ControlGateway` | `gateway/server.rs`, `server/answer.rs`, `gateway.rs`, `control-host/src/dispatch.rs`, composed with the store | `IdempotencyLedger` |
| `ControlGatewayProofs` | the store: one licence, the forgotten, shares and the cap; the gateway: answers, keys, replays, revocation, slots, request IDs, types; the gateway implements the store | `ControlGateway`, `TLAPS` |
| `Simulator` | `sim/src/simulator.rs`, brackets of `trading/src/order.rs` | |
| `ArmedStrategies` | `strategy/src/armed.rs`, `anchors.rs`, `runner.rs`, their tab and panes, the account of `paper/src/account.rs`, composed with the simulator | `Simulator` |
| `ArmedStrategiesProofs` | the simulator: fills and the position, exits before entries, one word for each order; the strategies: true badges, fills into a flat account | `ArmedStrategies`, `TLAPS` |
| `EventJournal` | `control-host/src/journal.rs`, `events.rs`, `control/src/cursor.rs` | |
| `ParkedWaits` | `events.wait` and `events.read` of `gateway/server.rs`: readers, waiter manager, wait threads | `EventJournal` |
| `ParkedWaitsProofs` | slots, types, no wait forgotten, positions, gaps and timeouts | `ParkedWaits`, `TLAPS` |
| `CommandBacklog` | `backpressure/src/backlog.rs` | |
| `IndicatorSession` | the worker's logic: `indicator-session/src` | |
| `IndicatorPane` | one pane, its worker thread and the two channels between them | `IndicatorSession`, `INSTANCE CommandBacklog` |
| `IndicatorPaneProofs` | a removed indicator never comes back; a settled pane shows what it should; repairs have a cause | `IndicatorPane`, `TLAPS` |
| `TickPump` | the bridge's live pump: `bridge/mt5/quantick_bridge_ticks.py` | |
| `TickPumpProofs` | what the pump forwards of each millisecond | `TickPump`, `TLAPS` |
| `MetaTraderTape` | bridge, connection and pager (`feed-mt5/src/stream`), ledger and refill (`feed/src/metatrader`) | |
| `MetaTraderTapeProofs` | the page that is owed; the chart in tape order | `MetaTraderTape`, `TLAPS` |
| `HistoryRun` | `sources/src/history_run.rs`, `history_reach.rs`, `session/src/paging.rs`, their tab and the feed that answers | |
| `HistoryRunProofs` | one request out, the chart in tape order, a target reported as charted is | `HistoryRun`, `TLAPS` |
| `BookMirror` | abstract: what the book pipeline promises its reader | |
| `DepthCapture` | the pipeline from the venue to the display; implements `BookMirror` | `INSTANCE BookMirror` |
| `DepthCaptureProofs` | what the display shows; the pipeline implements `BookMirror` | `DepthCapture`, `TLAPS` |
| `MC...` | constants of the instances TLC checks | the module checked |

Definitions whose comment says *faulty variant* are not used by any
specification: they are the plausible mistakes each property is shown to catch.

### IdempotencyLedger

One action per critical section of the store's mutex. `Refuse` and `Reserve`
are the two ends of `admit` (both expire records first, as it does); `Record`
is `record`, and also `settle`, which only chooses what to record; `Release` is
`ScopeReservation::drop`; `ForgetPrincipal` is `forget_principal`. `tickets` is
not in the store: it is what the dispatched calls hold. A scope is reduced to
(principal, key); a payload to its digest; a response to its terminal class
(`success`, `refused`, `unknown`) or `retryable`. A result over the byte limit
becomes `unknown`, nondeterministically. `Tick` sets the wall clock to anything:
it may step backwards. A poisoned mutex, which refuses everything, is left out.

### ControlGateway

`stage` says where a call's thread stands: `admitted` is its reader inside
`dispatch_prepared`, the rest its response worker. `dispatch` is the atomic
`DispatchState`; the compare-exchanges of `try_start` and `cancel_before_start`
are the guards of `UiStart` and the effect of `CancelBeforeStart`. `reply` is
the call's channel of capacity one; `queue` the application's request queue,
whose overflow is answered through that same channel, as in the code. `UiStart`
and `UiFinish` are two steps so a deadline can pass while an action runs.
`TimeOut` and `Interrupt` are two so the application can start in between. The
frame's drain budget is left out: the application thread may stop at any point,
which covers every budget. A full frame write is one step under the writer lock
(`TakeWriter`, `WriteFrame`), with the request ID released first, as
`answer_and_release` does. `WriteFrame` also returns the shared slot; a slot
seen taken a moment longer only means a refusal that `RefuseDispatch` allows
anyway, because it may refuse at any time (no slot, or no thread to spawn).
Refusals before the store is asked (wrong instance or version, `prepare`) are
of the shape of `RateLimited`. A principal is a connection, as the handshake
mints one for each. A `read` runs on the application thread as an action does; a
`lookup` is a read the connection's reader serves itself (`WorkerRead`).

A call may act and its client still be told a failure. The result is held
against its schema after the handler ran, by the application thread
(`local_action.rs:174`) and again by the response worker (`server.rs:1397`):
`UiFinish` takes that verdict where the result is made, since it hangs on the
result alone, and lets a call that answers `refused` have acted (`MayAct`). And
what is written may not encode (`answer.rs:121`); the refusal that replaces it
says that the call may have acted (`refusal.rs`), so `Encoded` lets a success, or
an error a handler made up, go out as `unknown`, while the ledger keeps what it
was given. The gateway's own refusals are of known shape and always encode.

Left out: an answer of which not even that refusal can be encoded, a write that
fails, a lookup with a key, parked waits, the screenshot deferral, the handshake,
re-enabling (a new store and new connections), and the re-check of scopes at
dispatch, which cannot fail since scopes are edited only while access is off.
Parked waits have a module of their own.

### EventJournal and ParkedWaits

The journal keeps the events `oldest .. next - 1`. `record` is four steps
(`Push`, `PublishOldest`, `PublishNext`, `Tick`) because the gateway's threads
read what it publishes without a lock; a resolution reads it in two
(`LoadNext`, `ResolveStart`), as `JournalSignal::bounds` does. Sizes are the
nondeterministic choices of how much `Push` evicts and where a page `Ends`.
The atomics are release stores and acquire loads of one order, so an
interleaving of the steps is what they allow.

`call[c].st` is where a call stands in `dispatch_parked_wait`: `loading`,
`loaded`, `reserving` and `parking` are its connection's reader, one call at a
time; `parked` its own thread; `reading` the queue of the application, which
either runs it (`Read`, with `read_page` and `complete_wait_page`) or refuses it
(`RefuseRead`, standing for all of `ControlGateway`'s refusals). The manager
alternates between `select` and one sweep, in which shutdown comes before any
waiter's own reason. `ParkWithoutThread` is a waiter whose thread cannot start:
it is refused although the manager has it. `TickElsewhere` is the manager of an
earlier grant, which shares the tick channel until its next poll. `expired`
only says that a timeout has elapsed: nothing says it must.

### CommandBacklog, IndicatorSession and IndicatorPane

`CommandBacklog` is the owner's side of a bounded queue; what may be merged is
its parameter, and `IndicatorSession!FoldParked` is what the pane gives it. A
bar is the sequence of its prints and a plot column the bars it was evaluated
over, because an instance replays every committed bar when it is added or
replaced: a wrong, missing or repeated bar is then a wrong column, whatever the
script. A source may fail to compile (`Broken`) or fail at a bar (`FailsAt`).
`ApplyCommand` has one disjunct per command; `Reductions` is one whole batch, in
one step, since only the worker touches its session.

In `IndicatorPane` a handler of the pane changes the series and the views and
leaves its commands in `todo`; each send is a step (`SendCommand`), so the
worker may take the first before the second is offered. Handlers do not
overlap, being on one thread. `DrainEvents`, `ReadProgress` and `AnswerDrift`
are the three reads of `apply_indicator_events`, between which the worker runs
on. `wanted` is what the user's commands, run one at a time, would leave.
`PrependHistory`, `SetSpec`, `SwitchFeed` and `ResetMarketState` are the ways a
series is replaced; `SetRungs` is the width of the live lane. A pane opens
empty or seeded from another. Left out: the venue's own bar prefix, what the
timings are used for, `Flush` (an acknowledgement at the end of a batch), a
worker that is gone, and styles, which the worker never sees.

### Simulator

A command or a print is one step: the simulator runs to completion on its
caller's thread. `OnTrade` is the whole of `on_trade` in its order: the
position's pair, the legs, the queue, the resting entries, the orphan sweep,
the mark. `book.kept` exists only inside the walk of resting orders, and is
how the model keeps what the code does there: the list is taken away while
entries fill, so what a fill sweeps is only what this print installed. A
refused command changes nothing and is no step. Prices and quantities are
small naturals; average price, points, excursions and times are not kept. Event
lists are, because most properties are about them and because strategies read
them; an event says no more than either needs: a cancel by the tape goes by its
reason (`PriceTouched`, `AccountOccupied`), and however many levels a fill
outran, one `BracketDropped` stands right behind it. `VIEW Quietly` drops the
events (and the counters of ids) from a state's identity, since the simulator
never reads them.

### ArmedStrategies

`anchors[p]` are the instances of pane `p` in creation order, each with the
drawing it rides, its preset, its phase and the id of its entry. A print is
`IngestTrade`, which runs `OnTrade` and drains what the account had buffered
into `batch`, and then the calls of `evaluate`, which `agenda` lists in the
code's order: pane by pane, `Deliver` the batch to each instance, then, where
the pane closed a bar, let each judge it (`Hold` or `Fire`), and at last
`SetBotListening`. Commands go through the simulator's own actions at the
moment they are issued, so a later instance sees what an earlier one did. The
thread does nothing else meanwhile: everything in *Between prints* waits for an
empty agenda, and those calls in any order are the trader, the menus and the
feed of one frame after another.

What a bar shows is a `Setup`: the retest's edge or none, and the bracket the
projection gives. Which of the setups an instance sees at which bar is free, so
triggers, regions and rulers are covered without being modelled; `Hold` is
every reason not to fire. `Arm` sweeps what it replaces at once, through the
funnel; `Disarm` and `RemoveForDrawing` park their cancels in `cleanup`, which
`ApplyCleanup` applies at the end of the frame, before any further print is
drained. `ChangeBarSpec` and `LoadRecordedDay` are the two callers of
`recut_pane_with`, which differ in the reason they give and so in what the
disarm owes. `ResetMarket` is a rewind and a change of market. An instance
hears the answer to its command twice, once as the echo and once from the
buffer, as in the code.

`botOrders` and `disowned` only record, for the properties: the orders
strategies placed, and those that a recorded day took from their instance
(disagreement 2), which nobody is left to protect. `VIEW ArmedView` drops the
events of the last call, which are in `heard` or `batch` by then. Left out:
alarms and sounds, notes and badges' words, alarm-only instances (they only
hold), the warm-up of rulers, and drawings deleted by undo, whose sweep does what
`RemoveForDrawing` does.

### TickPump

A print is its place on the venue's tape; `Ms` gives its stamp, which several
may share. `Round` is one turn of the loop of `pump_ticks`: the request, what
`Forward` does with each print of the answer, the cursor left behind, and
whether the pass goes on and how deep it asks. The venue may print between two
rounds. `RoundFails` is an answer that does not come; a terminal that is gone
ends the session, which is `MetaTraderTape`'s `Lose`.

### MetaTraderTape

Three parties again. The bridge (`Dial`, `Backfill`, `Pump`, `PumpOpening`,
`Admit`, `Answer`) and the connection (`TakeRequest`, `Lose`) put events on the
one channel; the feed takes them one at a time (`OnConnected` to `OnLost`) and,
beside them, presses of the tab (`LoadOlder`) and the refill's deadline. The
socket is collapsed into the channel, but for a request, which waits in the
bridge's `inbox` until it is read. `pager` is the `HistoryPager` that the two
tasks share. `tape` is `TapeLedger`, `fill` the `GapFill`; `Drive` is
`drive_refill`, called from every place the code calls it. Where a block begins
(`Backfill`) and how far a walk back got (`Answer`) are free choices, within
what the terminal holds, so every outcome of those searches is covered and none
is verified. A press comes only when the tab awaits no reply, as `HistoryRun`
shows of the tab.

`faults` and `unasked` only record. `faults` names the two ways in which a
request goes astray in this code: it was queued behind the end of its connection
(`outlived`), or lowered below the slices of a session that resumed an earlier
one (`lowered`). `HolesAreMarked` says that nothing else makes a silent hole;
disagreements 6 and 7, that each of the two does.

Left out: the listener's own end and rebinding, a fresh feed that takes over a
kept chart (`seed`), candles, depth, deal counters, notices, protocol violations
(a page nobody asked for, an end without a start), the busy bridge, and passes
of the pump with several new prints, which are `TickPump`'s. The deadline may
pass at any time. `Lose` settles the pager, answers and reports in one step, so
the channel may briefly hold two events more than `Places`.

### HistoryRun

`run` is `HistoryRun` with its campaign; `tab` and `panes` what its idleness is
read from: the count of history waits, the slices to come, whether the tab is
looked at, how many prints the panes retain for a rebuild, and whether the
rebuild failed. `chart` is the tape as it will be displayed: what is retained,
then `Displayed`. A page goes one of two ways (`receive_history`). It is retained
(`Retain`) while a run goes on, while a rebuild is pending, or where the tape
would grow past `WorkerTrades`; a slice is retained for the last two reasons
only, as a run does not defer it. Else it is drawn at once (`Draw`), in front of
the display: so behind the pages that a failed rebuild retains, as a rebuild that
failed is not pending. `Rebuild` puts what is retained before the display,
without comparing the two. `Send` is one decision and its two outcomes, a request on the command
channel or none for want of room; `Begin`, `Frame` and `OnPrepended` are its
callers. `Verdict` lists the ends of `advance` in their order. The feed is what
`MetaTraderTape` lets a tab see: a block that arrives as a reply, slices, pages
that may lose their oldest print (`Drops`) or be refused (`Refuses`), a loss
that answers what was owed, and a replacement that drops it (`Attach`) and starts
from the display, not from what is retained: where nothing is displayed the new
feed begins anew. `foreign`, `outcome`, `overtaken`, `reopened` and a campaign's
`id` and `blind` only record.

The live edge stands still, since a run pages the other way. Left out: outages,
several panes and their copies of the tape, notes, the venue's own candles, the
floor of a resumed timeline, replay. A rebuild's two failures are one.

### BookMirror and DepthCapture

`BookMirror` is the promise of `orderbook/src/stream.rs` and
`orderflow/src/history.rs` to a reader. A venue update sets one level, to a
quantity named by its id, so a book holds exactly `Truth(n)` only if every
update was applied once and in order. `DepthCapture` has three parties. The
capture task follows `run_depth_with_reconnect` and `run_depth_session`, one
action per await or per update; what it has to send is in `outbox`, so it can
be aborted between any two sends. The feed obeys commands (`Obey`). The tab
asks (`EnsureBookCapture`, `RestartBookCapture`), attaches feeds
(`ReloadFeed`, which also stands for `maybe_switch_feed`; `ReconnectFeed`,
`OpenReplay`, `CloseReplay`) and reads (`Read`, which is `handle_depth_event_at`
with the history under it, but for the checks of price coverage). The venue is
external: it loses events before the socket, and serves an image of any age. Spot
judges continuity by id ranges, USD-M by the predecessor link. Statuses that only
change a label are not sent.

The history refuses an image or an update stamped before what it has seen
(`orderflow/src/history.rs:872`), and the display goes dark under a task that
follows. The stamps are the venue's, but for an image's, which is the earlier of
the local clock and a moment before the event that bridges it
(`depth/stream.rs:697`), and nothing promises that they rise across a reconnect; so
`Read` is free to take any message of a history that has seen one for late
(`Timed`), and `refused` records the generation.

`Obey` keeps a running task when a plain start arrives (`KeepBook`); the tab as
it is never sends one then, so that branch is there and never taken. Nothing in
the application stops a capture by command (`StopBook`), so there is no such
action. Left out: what the stamps are, crossed books, the coverage limit of a
snapshot, and a change of instrument.

## 3. Runs

| run | instance | checks | result |
|---|---|---|---|
| Ledger | 2 clients, 2 keys, 2 digests, 2 calls, cap 3, clock 0..1 | `OneLicence`, `NothingForTheForgotten`, `ShareIsKept` | pass |
| Gateway | 1 client, 2 calls: attempts at one key, and a lookup; queue and store of 1, clock 0..1, fairness | `AnswersAreTrue`, `RequestsAreAccounted`, `KeyedActionRunsOnce`, `ReplaysAreEarned`, `RevokedChangesNothing`, `EveryCallEnds` | pass |
| ParkedWaits | 1 connection, 2 calls, 2 events, a journal of 1, 1 shared slot of 2 own, fairness | `ParkedSlotsAreAccounted`, `NoWaitIsForgotten`, `NoSilentGap`, `OwnCursorsAreGood`, `HonestTimeout`, `OwedWaitsEnd` | pass |
| Pane | 2 slots, 2 sources that fail in different ways, 2 prints and 2 operations after opening, channels of 1 and 2, fairness | `RemoveWins`, `SettledPane`, `RepairsAreEarned`, `SettlesOnTheChart` | pass |
| Simulator | 4 prices, 4 brackets beside none, 6 entry orders, 2 placed, 1 touched by hand | `FillsExplainPosition`, `ProtectionArmsNextPrint`, `OrdersLeaveOnce`, `LadderCoversItsPosition` | pass |
| Armed | 2 panes, a drawing each, 2 presets, 2 setups, 4 prices, 1 target, 2 orders of the trader's, 2 entries placed | `FiredIsPending`, `BotsNeverNet`, `NeverRidesBare` | pass |
| ArmedBadge | as Armed | `OrdersKeepTheirBadge` | violated |
| Depth | 2 levels, 3 venue updates, both markets, 2 captures, 1 reconnect each | `MirrorSpec` (refinement), `DisplayMatchesTask`, `NothingOfTheOldCapture` | pass |
| DepthReconnect | as Depth | `RecordingIsBacked` | violated |
| TickPump | 13 prints, 3 milliseconds shared, 8 prints in one second, requests of 4 to 10, 4 rounds, fairness | `SoleTicksOnce`, `EveryPrintLeaves` | pass |
| Tape | 5 prints, a night, a shared millisecond, slices of 2, pages of 1, a hold of 2, 2 losses, 1 press, fairness | `ChartInTapeOrder`, `HolesAreMarked`, `LoadsAreOwed`, `LoadsAreAnswered`, `RefillsEnd` | pass |
| HistoryRun | 6 prints in 3 sessions, a session or two hours asked for, pages of 3, a ceiling of 5, a worker from 4 prints on, 2 presses, 1 loss, fairness | `OneRequestOut`, `ReachIsOnTheChart`, `QueuedPressBegins`, `RunsEnd` | pass |

Each component has one run, which asks of one instance all that is asked of the
component; the second run of two of them states a sentence of the repository
that does not hold. The runs are spent on what could go wrong. Each module also
states what its variables hold (`LedgerTypeOK`, `TypeOK`, `WaitTypeOK`,
`PaneTypeOK`, `SimTypeOK`, `BotTypeOK`, `DepthTypeOK`, `TapeTypeOK`,
`RunTypeOK`); the first three, `DepthTypeOK` and `RunTypeOK` are theorems, the others
hold under the constants of their run, if they are added to its cfg.
`NoAnswerBesideAction` of the store
is a theorem and no run repeats it.

Why the bounds are enough. *Ledger*: four scopes over a cap of three is the
smallest store in which an insertion of either client must evict and the share
(half the cap, rounded up) can be missed; two calls are enough for two licences
to collide. *Gateway*: the second attempt may be pipelined behind the first,
follow its timeout or follow its answer, with its record alive, expired or
evicted, or come as a lookup under the first one's request ID; a queue of one
overflows, and the slots are checked against who holds them. A client meets
another only in the store (*Ledger*) and in the shared limits, and for any
number of clients and calls the proofs stand. *ParkedWaits*: two events over a
journal of one is the least that evicts under a waiting client; the second call
may start from the cursor of the first, or park beside it, where the one shared
slot and channel place refuse it. For more connections the proofs stand.
*Pane*: a command channel of one place parks the second command of almost every
handler and folds the third; two prints after a seed of three make bars of both
sizes close and stay open; two operations give every ordered pair of handlers
after an opening, which already adds an indicator; one source stops at its
second bar and the other never compiles. *Simulator*: two entries of one to
three units average, net, reverse and close exactly; a ladder of two parts has a
part that takes the remainder; one hand amendment is what the amended-order
cases need. `MaxPlaced`, `MaxTouched` and `MaxQueue` bound only what a behaviour
may hold, never what a print does. *Armed*: two instances on two panes are
enough for one bar to trigger both, in either order, and for one to be removed
or re-cut under the other; the market setup is outrun from one side or the other
as the tape moves over four prices, and the retest rests; of the two entries a
behaviour may place, both may be strategies', or one the trader's, which is all
that a collision takes. The trader's ladders and partial closes are in
*Simulator*. *Depth*: three updates let one event overlap an image, leave a hole
and follow; a buffer and a channel of two are both filled; two attempts exhaust
the snapshot; `Stride` only has to exceed the reconnects of one capture.
*TickPump*: eight prints of one second make a request of four answer with prints
already sent, and grow; its limit of ten still reaches past that second; an
answer may be cut inside a shared millisecond or hold all of it. *Tape*: two
losses give a first session, one that resumes it and one that resumes the
resumed; the press may fall into each. The night lies inside the hole of some
behaviours, its shared millisecond on the seam of others; slices of two cut a
session of four, and limits of three or four pages, prints and closes all end
some refill. *HistoryRun*: with three sessions the second's open is proven by a
page and the third still lies below; a page of three over a ceiling of five is
cut by the budget, by the ceiling and by the tape's beginning; the second press
may queue, follow a cancelled run whose page is out, or retry a rebuild; a tape
of three prints is drawn at once and one of four is not, so a late page meets a
failed rebuild both ways, and the feed may be replaced with a page retained, over
a display or over none.
Symmetry is used in *Ledger* only, over calls and digests, which the code never
compares by order. `CHECK_DEADLOCK FALSE` stands where a run may end: a gateway
whose few calls are all answered and whose access is off, waits that are all
answered, a pane whose prints and operations are spent, a capture whose bounded
epochs and reconnects are, a pump whose rounds are, and a tape whose prints,
losses and presses are.

### Disagreements with the repository's own words

Two runs are violated, each by a sentence of the repository that `PROJECT.json`
quotes.

1. **DepthReconnect.** `reconnect_feed` keeps an engine that believes it is
   recording (`app/src/tab/feed.rs:1139`), so nothing starts a capture in the
   new feed, and the old book stays on display.
2. **ArmedBadge.** Loading a recorded day disarms under the reason of a timeline
   reset (`app/src/deal_recording_tab.rs:112`), for which a disarm owes no cancel
   because the account is reset too; here it is not, and a pending entry stays
   working with no instance over it.

The next are stated as properties in the modules. None is in a cfg; TLC finds
each violated when it is put in place of the properties of the run named, under
that run's constants.

3. `LegsProtectThePosition` (Simulator): a resting entry that reverses a laddered
   position sweeps a list that no longer holds the old legs
   (`sim/src/simulator.rs:275`); they stay, on the new position's side, where
   `simulator.rs:941` says that "The old position is gone and its protection
   goes with it".
4. `EveryTickOnce` (TickPump): two new prints of one millisecond in one answer:
   the second is passed over (`quantick_bridge_ticks.py:216`), and lost if a
   later one follows it; of three, the third goes out twice. Line 148 says
   "Forward every tick newer than the cursor, exactly once."
5. `EveryReplyWasAsked` (Tape): a press between a connection's end and the word
   of it is answered by the feed and again by the next session
   (`stream/ports.rs:205`), where `stream/connection.rs:1104` says "Every request
   gets exactly one reply, including the ones this session died holding".
6. `RefillSaysWhatItMissed` (Tape): a refill that runs there may take that second
   answer for its own, which reaches below the hole, and call the hole filled
   (`refill.rs:323`). `gap_fill.rs:25` says "A refill that cannot reach the old
   end says so".
7. `SlicesLeaveNoHole` (Tape): the slices of a resumed session are refused as held
   (`metatrader.rs:748`, "slices cover a session the chart already holds") when
   the chart holds less than the session, and the bridge moves a press below them
   (`quantick_bridge_history.py:455`): a hole that nothing marks.
8. `SpinnerIsOwed` (HistoryRun): an empty first block is swallowed
   (`metatrader/ledger.rs:153`) and the tab's history wait is never ended once
   prints came: every later press queues for ever. The bridge sends that block
   because "swallowing it would be a spinner that never stops"
   (`quantick_bridge_history.py:176`).
9. `FillIsArriving` (HistoryRun): the count of slices to come is not cleared when
   the bridge dies half way, with the same effect; `session/src/paging.rs:52` says
   it is "Cleared by every way a fill can *end*, not only by the last slice saying
   zero."
10. `ReachMetIsTrue` (HistoryRun): between the block and its first slice the tab
   takes itself for idle (`paging.rs:87`); a run begun there pages below slices it
   never judges, and takes the distance for a session's close.
11. `InvitedRetryFindsItsKeyFree` (Gateway): a keyed call cancelled before it
   started is told to retry, but its worker holds the key for one more settle
   window (`gateway/server.rs:1097`), and the retry is refused, non-retryably,
   as still in progress. `idempotency.rs:157` says the key is left "free for the
   retry they invite".
12. `OnePrintOneExit` (Simulator): averaging in merges a stop and a take profit
   that were never compared (`simulator.rs:896`); "one print can never satisfy
   both" (`simulator.rs:207`) fails, and the stop wins.
13. `FillAndCancelStayApart` (Simulator): `ModifyOrder` does not look at
   `cancel_at` (`simulator.rs:473`); after the mark was moved by backfill one
   print can satisfy the fill and the cancel, which `sim/src/lib.rs:34`
   excludes.
14. `LaneFollowsForming` (Pane): a batch without a forming-bar update publishes
   an empty lane although a bar is forming
   (`indicator-session/src/publication.rs:87`), where `protocol.rs:110` says
   "Empty when there is no lane or nothing is forming". The next print fills it
   again.
15. `DriftIsAnswered` (Pane): the drift repair asks for a sum that contains a
   cumulative counter to be zero (`app/src/pane/series.rs:212`,
   `backpressure/src/progress.rs:77`): one deferred command switches it off for
   the life of the pane, and rows that a feed switch left out of step stay so,
   where `series.rs:209` says that a difference "means a rebuild was missed" and
   `views.rs:272` that the caller then "owes one rebuild".
16. `EndsSayWhy` (HistoryRun, but with other constants: `Ms` nine prints one
   apart, `Hour` 2, `Reaches` three hours, `PerHour` 1, `PageSize` 2, `PageSlack`
   3, `MaxPages` 9, `Ceiling` 20, `Drops` {TRUE}, `Refuses` {FALSE}, one press, no
   loss): what the print budget leaves may be a request of one print
   (`history_reach.rs:788`), which this feed answers empty, and the run says that
   nothing comes back. The constant beside it says that such a request "always
   comes back empty" (`history_reach.rs:112`).

Seven more were met while modelling, and no property states them.

17. `ClearIndicators` strips the slots that have a view
   (`app/src/app/layout_wiring.rs:129`), so an add still in flight survives
   "Take every indicator off every pane." The model has the code's behaviour.
18. A dropped level is taken to be an instance's own whenever its entry filled
   in the same batch (`strategy/src/armed.rs:677`). The trader's bracketed
   market order, queued behind the strategy's, can fill and lose its level in
   that same print; the instance then closes the whole position, though
   `armed.rs:602` says "netting and the flat gate make that attribution exact".
19. An instance whose operation ended stays in position if an earlier instance
   fires on the very bar that would have told it so, since the account is then
   no longer flat when it looks (`armed.rs:457`); it stands over the other's
   operation until that ends, where `armed.rs:184` says its own is live "until
   the account is flat again".
20. The close an instance answers with may be refused, where the position was
   already closed by a leg or by hand in the same print, and a refusal is an
   event, though `armed.rs:606` says that it "emits no events of its own".
   Nothing comes of it: an instance that closed is not waiting for an answer.
21. A page that comes while a failed rebuild retains an earlier one is drawn at
    once where the tape is short (`tab/feed.rs:718`, `history_publication.rs:51`),
    and the rebuild that the next press retries puts the newer, retained one
    before it (`state/history_rebuild.rs:49`), though `chart/src/state.rs:338` says
    that what is prepended is "strictly older than everything already retained
    (the feed guarantees this". Without its exception for such a chart
    (`overtaken`), `ReachIsOnTheChart` is violated, with `Ms` <<1, 2, 12, 13, 23, 24,
    34>>, `Ceiling` 7, `WorkerTrades` 4, `PageSize` 2, `PerSession` 4, `Drops`
    {FALSE} and no loss: a run reads the jump in the tape as a close, and its
    target as already there.
22. A reconnect by the trader gives the new feed the seam of the displayed tape
    (`tab/feed.rs:1133`), which does not hold the pages that are retained: the feed
    is asked for what lies below the display and serves those prints again. Where
    all is retained and nothing displayed there is no seam, and the new session's
    first block is prepended over the same prints, which `metatrader/ledger.rs:241`
    says the seam is for: "so the bridge's first block is read as reconnect history
    rather than prepended over the chart". A press that waited may by then have
    begun a run, which takes that block for its own reply: the exception of
    `OneRequestOut` (`reopened`).
23. An action whose result fails its schema has acted, and is answered with a
    failure that does not say so (`local_action.rs:174`, `server.rs:1397`), where
    `control-host/src/refusal.rs:8` says of such an answer that it "reads as
    "nothing happened", which is the one reading that sends a client to act a second
    time". `AnswersAreTrue` asks of that answer only that nothing more is to come.

### Fairness

*Gateway.* Its threads are operating-system threads that do not wait on each
other except for the writer lock, held for one bounded write (a write timeout
closes the connection), so weak fairness of `Reader(k)` and of `Worker(k)` is
what the scheduler gives; `DeadlinePasses(k)` is the passing of time. The
application thread gets no fairness at all: the properties hold although it
never drains again.

*Waits.* Weak fairness of `ManagerStep`, whose `select` has a default poll
interval, and of `CallStep(c)`, whichever thread has the call: a read in the
application's queue is answered or given up by its response worker at its
deadline, which is `RefuseRead`. Recording, clients, closings and timeouts owe
nothing.

*Pane.* Weak fairness of `FrameStep`, since frames keep coming, and of
`WorkerStep`, the worker thread. The user and the feed owe nothing.
`SettlesOnTheChart` excepts panes that deferred a command because of
disagreement 15.

*Pump.* Weak fairness of `BeginPass`, the loop of `run_session`, and strong
fairness of each round: a terminal that is asked for ever answers some of the
time, at whichever round.

*Tape.* Weak fairness of the feed's handlers, of the connection taking a
request, and of a bridge that said hello: it sends its block and slices, reads
the request and ends its walk, all of which one loop does in turn. Nothing makes
a bridge dial, a venue print, a trader press or the refill's deadline pass, so
`RefillsEnd` is not the deadline's doing.

*History run.* Frames are drawn, but a queued press begins only at an idle chart
and idleness comes and goes, so `Frame` is strongly fair; events are taken, a
rebuild ends one way or the other, and the feed answers. `Show` is fair because
a run that waits for its tab to be looked at waits for the trader. The excepted
waits of `QueuedPressBegins` are disagreements 8 and 9.

## 4. Proofs

`ControlGatewayProofs` proves of the store alone, for any sets of principals, keys,
digests and calls, any cap and any retention (`LedgerAssumption`: finite sets of naturals
for the two that are ordered, positive bounds, a `None` outside the data):

| theorem | statement |
|---|---|
| `LedgerInvariant` | `LedgerSpec => []LedgerIInv` |
| `LedgerTypeCorrect` | `LedgerSpec => []LedgerTypeOK` |
| `LedgerOneLicence` | `LedgerSpec => []OneLicence` |
| `LedgerNoAnswerBesideAction` | `LedgerSpec => []NoAnswerBesideAction` |
| `LedgerNothingForTheForgotten` | `LedgerSpec => []NothingForTheForgotten` |
| `LedgerShareIsKept` | `LedgerSpec => ShareIsKept`, an action property |
| `LedgerWithinCap` | `LedgerSpec => []WithinCap` |

`OneLicence` is not inductive alone: two tickets of one scope are excluded
because `admit` looks at the reservations, so the proof needs `Reserved`: while
its principal is connected, a held ticket's scope is reserved. Once the
principal is forgotten the reservation is gone and only `admit`'s refusal to
admit for it (its connection reads no more) keeps the claim. `AdmittedScopeIsFree`
is the lemma where both maps matter; `ExpireKeeps` and `MakeRoomKeeps` say that
housekeeping adds no record. There is one lemma per action. *Shares.* `MakeRoom`
takes the oldest record of the principal that holds most, and by the pigeonhole
that principal holds at least the cap divided by the principals; so no record
goes early but from a principal with its share, and a full store always has one
to give, which is the cap.

It proves of the gateway's `Spec`, for any clients, keys, frames, calls and limits (`LedgerAssumption` and
`GatewayAssumption`: the calls of one grant are finitely many, and `None` is none
of them), every safety property of its run:

| theorem | statement or property |
|---|---|
| `GatewayImplementsLedger` | `Spec => LedgerSpec`, so the theorems above hold of the gateway |
| `GatewayCallsInvariant`, `GatewayAnswersAreTrue` | `AnswersAreTrue` |
| `GatewayKeysInvariant`, `GatewayKeyedActionRunsOnce` | `KeyedActionRunsOnce` |
| `GatewayReplaysAreEarned` | `ReplaysAreEarned` |
| `GatewayRevokedChangesNothing` | `RevokedChangesNothing` |
| `GatewaySlotsInvariant`, `GatewayRequestsAreAccounted`, `GatewayTypeCorrect` | `RequestsAreAccounted`, `TypeOK` |

*Answers* (`CallInv`). A call is in the queue once, is replied to once, and only
after it left the queue; a worker that gave up either cancelled the call or says
"unknown" of an action that began. A success answers a call that acted and an
invitation to retry one that did not and cannot; a failure for good is the
application's word, so the call is over, and of its effect says nothing; what went
out in its place for want of an encoding is `unknown`. *Revocation* rests on the
same invariant: a call that runs was authorised when it was taken, and both a
revocation and a shutdown wait for the application thread. Each action has a
lemma, with one step for the call that moves (`Handed`, `Said`) and one for the
others. *The store.* `CallInv` types the outcomes the workers record,
`LedgerTypeOK` those the ledger answers, so the two are inductive together; then
every step is a step of `LedgerNext` or leaves the store alone (`LedgerStep`).
*Keys* (`KeyInv`). The licence ends with the call, so one licence at a time is not
one run per key: a call that acts stays covered, by its unspent ticket and then by
its record, until the record is withdrawn or its client gone. `StaysCovered` does
this for all the steps that let no call in; `AdmitKeys` is where a second call
would get through and cannot, since the ledger then has neither record nor
reservation of its scope; `StartKeys` is where the deadline matters, since a call
that starts has a worker that still waits; `RecordedKeys` is where a late result,
or an unknown one, must leave a record. *Replays* need a hypothesis on the frames,
`KeysAreForActions`: the capabilities that are no actions declare the policy
`Forbidden`, under which admission refuses a key
(`control-host/src/admission.rs:199`). *Slots* (`SlotInv`). Each counter is the
cardinality of its holders. A request ID is a member of a set, so taking it out is
safe only because no other unanswered call of the connection bears it, which in
turn needs that a reader works on one frame at a time.

`ParkedWaitsProofs` proves of `WaitSpec`, for any
number of calls and connections, any capacity, page limit and slot limits
(`JournalAssumption`, `WaitAssumption`), every safety property of the run:

| theorem | property |
|---|---|
| `SlotsAlwaysInv`, `WaitTypesAlwaysHold`, `ParkedSlotsAlwaysAccounted` | `WaitTypeOK`, `ParkedSlotsAreAccounted` |
| `NoWaitEverForgotten` | `NoWaitIsForgotten` |
| `PagesAlwaysInv`, `NoGapIsEverSilent`, `OwnCursorsAreAlwaysGood`, `TimeoutsAreAlwaysHonest` | `NoSilentGap`, `OwnCursorsAreGood`, `HonestTimeout` |

*Slots.* Types and sums are inductive only together (`SlotsInv`): a counter stays
in its range because it equals a cardinality, and a slot can be given back
because the holder is counted. `HoldsOneMore`, `HoldsOneLess` and `HoldsTheSame`
reduce each step to what it does to the set of holders; there is a lemma for
each kind of step. *Waits.* A wait leaves the channel only into the manager's set
and the set only with a reason. *Pages.* `PagesInv` adds what each stage of a
call knows: published bounds are behind the journal, cursors are behind what is
published, a resolved position was valid when it was resolved, a gap is beyond
where the client stood and already evicted, a wake that is no timeout has an
event behind it. All of these are kept as the journal grows, so each step has
only its own call to answer for (`OneCallPages`).

`DepthCaptureProofs` proves of `DepthCapture`'s `Spec`, for any levels, updates,
captures, reconnects and buffers, every safety property of its run, and that the
pipeline implements `BookMirror`:

| theorem | property |
|---|---|
| `DepthInvariant`, `DepthTypeCorrect` | `DepthInv`, `DepthTypeOK` |
| `NothingOfTheOldCaptureShown` | `NothingOfTheOldCapture` |
| `DisplayAgreesWithTask` | `DisplayMatchesTask` |
| `MirrorImplemented` | `MirrorSpec` |

The argument is about one sequence, the *stream*: what the channel holds followed
by what the task has yet to send. The task only appends to it, the tab only takes
its head, and sending does not change it. `DepthInv` says that generations rise
along it (`GensInOrder`), that a generation opens one image (`OneImage`), that
between two images the display hears an end (`EndsBetween`), that each update
continues what was said just before it (`Chained`), and that the last thing a
live task said is where its book is (`LiveTail`); the books held are the venue's
(`TrueBooks`). The display is dark under a task that follows only where a message of
its generation was refused for its time, which is what `DisplayMatchesTask`
excepts and all it excepts: a refusal never brings the display back, and the next
image may. The refinement needs all of it: a step of the tab that shows an
image must find the display dark, and one that applies an update must find the
book the update continues. `DepthAssumption` has what this uses of the
constants: generations of two captures do not meet because `Stride`, the
code's `BOOK_GENERATION_STRIDE`, exceeds the reconnects of one.

`HistoryRunProofs` proves of `RunSpec` that one request is out at a time and that
its page is judged by the run that asked (`RunInvariant`, `RunTypeCorrect`,
`OneRequestOutHolds`, property `OneRequestOut`). The tab's wait, the feed's
requests and the replies on their way add up to at most one, and none is out when
a run begins, so the one that is out was made by the run there is. This is
`Single`, and it holds until a feed begins anew over retained prints (`reopened`,
disagreement 22). The same invariant keeps the chart in tape order (`TapeOrder`):
each thing on its way lies below the chart and below what was sent before it, and
the feed is asked for what lies below them all; until a page is drawn or a feed
resumed behind what is retained (`overtaken`, disagreements 21 and 22). Neither
ends with the next rebuild, since the chart stays as it was put together
(`NotForgotten`). Only the types hold without condition (`Types`), so the lemmas
that say what a step does to the request, the wait and the chart (`Rests`,
`Sends`, `Hears`, `Fills`) assume no more, and state the rest under `Single`. A
page that is drawn and one that is retained come to the same where nothing is
overtaken, both stand before the chart (`TakenIs`). On that order rests
`ReachIsOnTheChartHolds` (property `ReachIsOnTheChart`): a run that says its
target is charted is right, then and whatever is prepended later, as long as
nothing is overtaken. `ReachInv` says that a run that pages stands at the chart's
oldest print and has met nothing on the way: its count of closes is the number of
the chart's sessions that closed above that print, and its traded time the sum of
the chart's steps between a print of its session and the next (`JudgedTo`).
`JudgesOne` takes a campaign one print further, `JudgesAll` a page, from a
recursive function read backwards (`TakeBackRuns`, `Backwards`); the prints of a
chart are counted from the newest, so that a page put before it moves none of them
(`StampStays`, `TradedStays`, `ClosesStay`).

`TickPumpProofs` proves of `PumpSpec` that the wire stays in time order, never
holds more prints of a millisecond than the tape, and holds a print with its
millisecond to itself exactly once when the cursor has reached it
(`PumpInvariant`, `SoleTicksGoOnce`, property `SoleTicksOnce`), for any tape, any
request sizes and any rounds, wherever the tape grows and a round fails. Which
prints of a shared millisecond go is another matter (disagreement 4). A print has
no identity on the wire, so the pump counts; `PumpInv` relates its cursor to the
count of the newest millisecond's prints already sent, bounds every millisecond's
count by the tape's own, and says that no millisecond behind the cursor was passed
over whole. A round keeps it because the answer is a run of the tape that reaches
back to the cursor's second; `RoundInv` follows the walk over the answer print by
print.

`IndicatorPaneProofs` proves of `PaneSpec`, for any sources, seeds, room and number of
operations (`PaneAssumption`: prints are numbers, and `None` is no sequence of
them), every safety property of its run:

| theorem | property |
|---|---|
| `PaneInvariant`, `RemoveAlwaysWins` | `RemoveWins` |
| `PaneIsKept`, `PaneSettlesTruly` | `SettledPane` |
| `RepairsHaveACause` | `RepairsAreEarned` |

*Removals.* An event fills a slot the views hold or await and nothing else, so a
queue of them, folded, leaves the set of slots as it was, and a number is never
given twice.

*What settles.* Nothing is true of pane, worker and views together while commands
and events are on their way; what is true is where these lead. `PaneKept` says it
by *readings*: a reading goes through what is in flight in the order it will be
run and keeps one thing, what a slot is bound to (`BindKind`), the worker's series
(`SeriesKind`), one view (`ViewKind`), whether anything will replay it all
(`ReplayKind`). Read through `Flight`, the worker's batch and what is parked behind
it, each slot ends as the user wants it (`BindingsKept`) and the series as the chart
has it (`SeriesKept`); read through `Coming`, the worker's events, each view ends
with what its slot runs (`ViewsFollow`) and, if nothing in flight replays it all,
with its rows (`RowsFollow`). A step that moves a command from one queue to the next
leaves its reading alone; folding parked commands leaves every reading alone, which
is what the fold is for; a step that runs a command has the reading of the rest
start where it leaves off. When nothing is in flight a reading is the thing itself,
and that is `SettledPane`.

`MetaTraderTapeProofs` proves of `TapeSpec`, for any tape and any bounds, that
the feed owes a page exactly while the tab awaits one (`OwedInvariant`,
`LoadsAreOwedAlways`, property `LoadsAreOwed`). The refill forwards prints, marks
gaps and takes the pager at many places; `ForwardedKeepsOwed`,
`ChartWithKeepsLoads`, `ReleaseAgrees` and `DriveAgrees` say once that none of
this touches the debt, and one lemma per handler that only a press, a reply and
a loss move both sides, and together. This needs no assumption of the module.

It proves also that the chart holds the tape's prints in the order they were made
and none of them twice (`OrderInvariant`, `ChartInTapeOrderHolds`, property
`ChartInTapeOrder`), under `TapeAssumption`: stamps that never fall, and cut sizes
above zero. The seam drops prints by their stamp and, at the chart's last stamp,
by count, and prints have no identity: the count can be trusted only if nothing of
a millisecond is missing before a print that is held. `OrderInv` says that of the
chart and of a refill (`Whole`), that the ledger's last stamp and count are the
chart's (`Ledger`), and, for each event on the channel and for what the bridge
sends next, that it fits when its turn comes: slices and pages are whole
stretches of the tape, a live print is newer than all that is held and ahead and
lacks none of its millisecond (`Follows`), and a new session's block meets no
refill, since the loss of the one before is ahead of it (`Quiet`). A handler of
the feed may drop prints of what it holds, at a seam or from a page; what makes
the events behind it still fit is that a dropped print lies in an earlier
millisecond than one that stays (`Carries`). `TakesStep`, `StaysStep` and
`SendsStep` reduce each step to that, and there is a lemma per operator (`RunIs`,
`PageStartIs`, `SlicesAre`, `PastSeamIs`, `ForwardedIs`, `AbsorbIs`, `DeepenedIs`,
`ReleasedIs`) and one per action.

`ArmedStrategiesProofs` proves of the simulator (`Spec`) and of the strategies on it
(`ArmedSpec`), for any prices, orders, brackets, panes, drawings, presets and setups
(`SimulatorAssumption`, `ArmedAssumption`: prices and quantities above zero, at most
four parts in a bracket, which the code's `MAX_EXIT_PARTS` is; no drawing in two
panes; a strategy's bracket is no ladder):

| theorem | property |
|---|---|
| `SimulatorInvariant`, `FillsAreThePosition` | `FillsExplainPosition` |
| `ProtectionWaits` | `ProtectionArmsNextPrint` |
| `OrdersAreAccounted` | `OrdersLeaveOnce` |
| `ArmedInvariant`, `BadgesAreTrue` | `FiredIsPending` |
| `BotsFillFlat` | `BotsNeverNet` |

*A call is a fold of folds.* A print walks the legs, then the queue, then the resting
entries, and a step of the walk may open, average, net, reverse or close a position and
install or sweep legs. `FoldingExists` and `FoldingPath` give such a fold the sequence of
books it goes through, so what each step keeps the whole keeps. What it keeps is
`Account`: ids and pairs are in order (`Tidy`), the fills reported so far add up to
what is held and no exit took more than there was at its moment (`Explained`), each
entry that left has had its one word and none that works has had any (`Spoken`), exits
came before entries (`Ordered`) and a pair whose leg filled is spent (`Spent`). The
theorems read these off at the end of a call. `SimInv` is only what a call begins
with: the properties are of steps, not of states, and the state between two calls
must say just that the book is tidy and that nothing is both queued and resting.
`Retained` is a recursive function where the library's `SelectSeq` would do, because
`tlapm` has no definition to unfold for that one.

*Badges.* An instance that fired learns from events that its order is gone, and events
reach it late: the account buffers them while it listens, a print's evaluation drains
them, and its panes hear of them one after the other. `ArmedInv` says where the word
is on its way: the order works, or the word is in `heard`, or it is in `batch` and
this instance's delivery is still on the agenda (`Pends`); and while an instance is
fired at rest the account listens. `Spoken` is what makes the word come. That the
strategies' orders are one at a time is part of it as well. `BotsFillFlat` rests on
`Ready`: a strategy orders only into an idle account, so its market entry is the first
in the queue, whatever the trader queues behind it before the next print, and its
resting entry is one that stands down unless the account is flat when it is reached.

Proved and not model-checked: `NoAnswerBesideAction`, the cap and the type
invariants. Model-checked only: that a ladder covers its position and a fired
strategy never rides without its bracket (`LadderCoversItsPosition`,
`NeverRidesBare`), the holes of the tape (`HolesAreMarked`), and liveness, which with `ENABLED` is
beyond TLAPS 1.4.5.

The library's induction theorems take an operator as a parameter and cannot be
cited. Induction over the numbers is proved instead from the least member of a
set of numbers (`LeastNumber`, `Upward`), which rests on a well-founded order
alone; with it recursive functions and the community folds, a fold being a
recursive function under a `CHOOSE`, are shown to exist and to do what they say
(`WalkExists`, `EventFoldExists`). That is what `CopyTicksFrom` in `TickPump`
(an interval of the tape), `TradedTo` in `HistoryRun` and `Slices` and
`Retained` in `MetaTraderTape` (recursive functions) are written for.

## 5. Not modelled, and what would come next

Next, in this order:

1. *More of the system.* The search for a session's first print in the bridge
   (`quantick_bridge_history.py:297`), where a close that falls across the edge
   of two windows (line 366) is seen by neither; the MetaTrader listener's end
   and a feed that takes over a kept chart; the replay clock and seek; the
   discovery descriptor across crashes; bar builders as operators against a
   reference definition.
2. *More proofs.* The marking of the MetaTrader chart's holes; that a ladder
   covers its position.

Of the parts that are modelled, these are left out: a capture's screenshot
deferral (`app/src/control/gateway.rs:726`), which needs a model of egui's
frames; the price coverage by which the liquidity history may reject what the
capture accepted (`orderflow/src/history.rs:713`); the handshake and the accept
loop.

Not planned: chart geometry, rendering, the Pine language, documents on disk,
generated schemas: pure functions, layout or I/O with no ordering to get wrong.
They are most of the repository, which is why the modules cover a small share
of its lines.
