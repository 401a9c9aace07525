--------------------------- MODULE MetaTraderTape ---------------------------
(* The MetaTrader tape, from the terminal to the chart.                     *)
(*                                                                          *)
(* A bridge (bridge/mt5) dials the program, opens with the newest slice of  *)
(* the session the tape is in, follows with the slices before it, then with *)
(* live prints and with the pages it is asked for.  The connection task     *)
(* (feed-mt5) turns what it sends into events on a channel and takes page   *)
(* requests from a pager it shares with the feed task; the feed             *)
(* (feed/src/metatrader) decides what reaches the chart.  A bridge that     *)
(* comes back after a loss leaves a hole between the chart and its block:   *)
(* the feed holds the live prints back, collects slices and pages until the *)
(* hole is closed, and charts the prints in order, or marks the part it     *)
(* could not reach as a gap.                                                *)
(*                                                                          *)
(* A print is its place on the venue's tape, Ms its stamp; a print has no   *)
(* identity the program could see.  The pump forwards one print at a time,  *)
(* a pass that finds one new print; what a pass does with several is        *)
(* TickPump's.                                                              *)
EXTENDS Integers, Sequences, FiniteSets

CONSTANTS Ms,          \* the stamps of the venue's tape, in tape order
          Opened,      \* prints made before the program starts
          SessionGap,  \* SESSION_GAP_MS
          BlockMax,    \* --backfill-max-ticks
          SliceTicks,  \* --opening-slice-ticks
          PageTicks,   \* prints asked for per page
          Pagings,     \* what a bridge may declare of history_paging
          MaxCloses,   \* REFILL_REACH_SESSIONS
          MaxReceived, \* REFILL_MAX_PRINTS
          MaxPages,    \* REFILL_MAX_PAGES
          MaxIdle,     \* MAX_IDLE_PAGES
          MaxHeld,     \* MAX_HELD_EVENTS
          Losses,      \* bound: sessions that end
          Presses,     \* bound: presses of load older
          Places       \* events the channel to the feed holds

None == 0   \* no stamp: Option::None, and last_forwarded_ms before any print

ASSUME TapeAssumption ==
  /\ Ms \in Seq(Nat \ {None}) /\ Opened \in 1 .. Len(Ms)
  /\ \A i \in 2 .. Len(Ms) : Ms[i - 1] <= Ms[i]
  /\ Pagings \subseteq BOOLEAN /\ Pagings # {}
  /\ {SessionGap, BlockMax, SliceTicks, PageTicks, MaxPages, MaxIdle, MaxHeld, Places}
       \subseteq Nat \ {0}
  /\ {MaxCloses, MaxReceived, Losses, Presses} \subseteq Nat

VARIABLES
  printed,    \* prints the terminal holds
  bridge,     \* [st, pages, next, opening, inbox, ask]: the session at the other end
  pager,      \* [queued, inFlight]: HistoryPager
  events,     \* the channel from the connection to the feed
  connected,  \* bridge_connected
  canPage,    \* history_paging of the published capabilities
  tape,       \* TapeLedger
  fill,       \* the running GapFill, or NoFill
  stray,      \* stray_refill_page
  chart,      \* [prints, gaps, loads]: what the tab charted, marked and awaits
  lost,       \* sessions that ended
  pressed,    \* presses of load older
  unasked,    \* history: replies the tab had not asked for
  faults      \* history: "outlived", a request queued behind the end of its connection;
              \* "lowered", one moved below the slices of a session that is not the first

venueVars  == <<printed, lost, pressed>>
feedVars   == <<connected, canPage, tape, fill, stray, chart, unasked>>
tapeVars   == <<printed, bridge, pager, events, connected, canPage, tape, fill, stray, chart,
                lost, pressed, unasked, faults>>

Off      == [st |-> "off", pages |-> FALSE, next |-> 0, opening |-> << >>, inbox |-> None, ask |-> None]
NoFill   == [st |-> "none"]
NoTape   == [any |-> FALSE, resent |-> FALSE, last |-> None, atLast |-> 0, gap |-> None,
             oldest |-> None, floor |-> None, owed |-> FALSE]

TapeInit ==
  /\ printed = Opened
  /\ bridge = Off
  /\ pager = [queued |-> None, inFlight |-> FALSE]
  /\ events = << >>
  /\ connected = FALSE /\ canPage = FALSE /\ stray = FALSE
  /\ tape = NoTape
  /\ fill = NoFill
  /\ chart = [prints |-> << >>, gaps |-> {}, loads |-> 0]
  /\ lost = 0 /\ pressed = 0 /\ unasked = 0 /\ faults = {}

(* --- runs of prints ----------------------------------------------------- *)

Run(a, b)  == [k \in 1 .. b - a + 1 |-> a + k - 1]
Final(s)   == s[Len(s)]
At(s, ms)  == Cardinality({k \in DOMAIN s : Ms[s[k]] = ms})

(* What is left of s when only the places in kept stay, in their order. *)
Retained(s, kept) ==
  LET upto[k \in 0 .. Len(s)] ==
        IF k = 0 THEN << >>
        ELSE IF k \in kept THEN Append(upto[k - 1], s[k]) ELSE upto[k - 1]
  IN  upto[Len(s)]

Before(s, ms) == Retained(s, {k \in DOMAIN s : Ms[s[k]] < ms})

Earlier(a, b) == IF a = None \/ (b # None /\ b < a) THEN b ELSE a
Later(a, b)   == IF a < b THEN b ELSE a

(* page_start: the newest prints of lo .. hi, about wanted of them, without *)
(* splitting a millisecond.                                                 *)
PageStart(lo, hi, wanted) ==
  LET start == Later(lo, hi + 1 - wanted)
      group == {i \in lo .. hi : Ms[i] = Ms[start]}
      right == {i \in start .. hi : Ms[i] # Ms[start]}
  IN  CASE start = lo \/ Ms[start - 1] # Ms[start] -> start
        [] start # lo /\ Ms[start - 1] = Ms[start] /\ right # {} ->
             CHOOSE i \in right : \A j \in right : i <= j
        [] OTHER -> CHOOSE i \in group : \A j \in group : i <= j

(* --- the bridge and the connection -------------------------------------- *)

Room == Len(events) < Places
Send(event) == events' = Append(events, event)

EmptyPage == [t |-> "page", prints |-> << >>, exhausted |-> FALSE, scanned |-> None]

(* The venue prints. *)
Trade ==
  /\ printed < Len(Ms)
  /\ printed' = printed + 1
  /\ UNCHANGED <<bridge, pager, events, feedVars, lost, pressed, faults>>

(* A bridge connects and says hello; announce_session. *)
Dial ==
  /\ bridge.st = "off" /\ Room
  /\ \E pages \in Pagings :
       /\ bridge' = [Off EXCEPT !.st = "hello", !.pages = pages]
       /\ Send([t |-> "connected", pages |-> pages])
  /\ UNCHANGED <<venueVars, pager, feedVars, faults>>

(* lo .. hi in slices, the newest first. *)
Slices(lo, hi) ==
  LET cut[end \in lo - 1 .. hi] ==
        IF end < lo THEN << >>
        ELSE LET start == PageStart(lo, end, SliceTicks)
             IN  <<Run(start, end)>> \o cut[start - 1]
  IN  cut[hi]

(* The prints that begin a millisecond. *)
Firsts == {i \in 1 .. printed : i = 1 \/ Ms[i - 1] # Ms[i]}

(* The place of the first print stamped clock or later. *)
From(clock) == Cardinality({i \in DOMAIN Ms : Ms[i] < clock}) + 1

(* backfill, as far back as the search for the session's first print got:  *)
(* the newest slice at once.  If it got nowhere the block is empty, and    *)
(* the tape starts from the clock.                                         *)
Backfill ==
  /\ bridge.st = "hello" /\ Room
  /\ \/ \E first \in Firsts :
          \E slices \in {Slices(PageStart(first, printed, BlockMax), printed)} :
              /\ Send([t |-> "backfilled", prints |-> Head(slices)])
              /\ bridge' = [bridge EXCEPT !.st = "live", !.next = printed + 1,
                                          !.opening = Tail(slices)]
     \/ /\ Send([t |-> "backfilled", prints |-> << >>])
        /\ bridge' = [bridge EXCEPT !.st = "live", !.next = From(Ms[printed] + 1)]
  /\ UNCHANGED <<venueVars, pager, feedVars, faults>>

Pump ==
  /\ bridge.st = "live" /\ bridge.next <= printed /\ Room
  /\ Send([t |-> "live", print |-> bridge.next])
  /\ bridge' = [bridge EXCEPT !.next = @ + 1]
  /\ UNCHANGED <<venueVars, pager, feedVars, faults>>

PumpOpening ==
  /\ bridge.st = "live" /\ bridge.opening # << >> /\ Room
  /\ Send([t |-> "opening", prints |-> Head(bridge.opening)])
  /\ bridge' = [bridge EXCEPT !.opening = Tail(@)]
  /\ UNCHANGED <<venueVars, pager, feedVars, faults>>

(* queue_load_older: below the slices that are still to go. *)
Admit ==
  /\ bridge.st = "live" /\ bridge.inbox # None /\ bridge.ask = None
  /\ LET floor == Ms[Head(Final(bridge.opening))]
         below == bridge.opening # << >> /\ floor < bridge.inbox
     IN  /\ bridge' = [bridge EXCEPT !.inbox = None,
                                     !.ask = IF below THEN floor ELSE bridge.inbox]
         /\ faults' = faults \cup (IF below /\ lost > 0 THEN {"lowered"} ELSE {})
  /\ UNCHANGED <<venueVars, pager, events, feedVars>>

(* The walk back collects what the windows it tried hold, as far as reach; *)
(* more than was asked for is trimmed off the front.                       *)
PageTo(reach) ==
  LET lo    == From(reach)
      hi    == From(bridge.ask) - 1
      start == PageStart(lo, hi, PageTicks)
  IN  IF hi < lo THEN [prints |-> << >>, whole |-> TRUE, scanned |-> reach]
      ELSE [prints |-> Run(start, hi), whole |-> start = lo,
            scanned |-> IF start = lo THEN reach ELSE Ms[start]]

Reaches == {bridge.ask} \cup {Ms[i] : i \in {j \in 1 .. printed : Ms[j] < bridge.ask}}

(* pump_history once the opening is through, and on_history_end: the page  *)
(* settles the pager.  Only a walk that reached the terminal's oldest      *)
(* print and sent all it found may say that nothing older exists.          *)
Answer ==
  /\ bridge.st = "live" /\ bridge.opening = << >> /\ bridge.ask # None /\ Room
  /\ \E reach \in Reaches, exhausted \in BOOLEAN : \E page \in {PageTo(reach)} :
       /\ exhausted => page.whole /\ reach <= Ms[1]
       /\ Send([t |-> "page", prints |-> page.prints, exhausted |-> exhausted,
                scanned |-> page.scanned])
  /\ bridge' = [bridge EXCEPT !.ask = None]
  /\ pager' = [pager EXCEPT !.inFlight = FALSE]
  /\ UNCHANGED <<venueVars, feedVars, faults>>

(* take_request and on_page_request; a bridge that does not page is not    *)
(* written to, and the request is answered here.                           *)
TakeRequest ==
  /\ bridge.st # "off" /\ pager.queued # None /\ Room
  /\ IF bridge.pages
     THEN /\ pager' = [queued |-> None, inFlight |-> TRUE]
          /\ bridge' = [bridge EXCEPT !.inbox = pager.queued]
          /\ UNCHANGED events
     ELSE /\ pager' = [queued |-> None, inFlight |-> FALSE]
          /\ Send(EmptyPage)
          /\ UNCHANGED bridge
  /\ UNCHANGED <<venueVars, feedVars, faults>>

(* abandon: the pager is cleared. *)
Abandoned == [queued |-> None, inFlight |-> FALSE]

(* The session ends: close answers what it still owes, and the server      *)
(* reports the loss.                                                       *)
Lose ==
  /\ bridge.st # "off" /\ lost < Losses
  /\ lost' = lost + 1
  /\ bridge' = Off
  /\ pager' = Abandoned
  /\ events' = events \o (IF pager.queued # None \/ pager.inFlight THEN <<EmptyPage>> ELSE << >>)
                      \o <<[t |-> "lost"]>>
  /\ UNCHANGED <<printed, pressed, feedVars, faults>>

BridgeStep ==
  Dial \/ Backfill \/ Pump \/ PumpOpening \/ Admit \/ Answer \/ TakeRequest \/ Lose

(* --- the pager, from the feed's side ------------------------------------- *)

PagerFree == pager.queued = None /\ ~pager.inFlight

(* The end of the connection the feed believes in is already on its way. *)
LossAhead == \E n \in DOMAIN events : events[n].t = "lost"

Request(before) ==
  /\ pager' = [pager EXCEPT !.queued = before]
  /\ faults' = faults \cup (IF LossAhead THEN {"outlived"} ELSE {})

(* --- the ledger ---------------------------------------------------------- *)

(* TapeLedger::forward over the prints, in order. *)
Forwarded(t, prints) ==
  IF prints = << >> THEN t
  ELSE LET last == Later(t.last, Ms[Final(prints)])
       IN  [t EXCEPT !.any = TRUE, !.gap = None, !.last = last,
                     !.atLast = At(prints, last) + (IF last = t.last THEN t.atLast ELSE 0),
                     !.oldest = Earlier(t.oldest, Ms[Head(prints)]),
                     !.floor = Earlier(t.floor, Earlier(t.oldest, Ms[Head(prints)]))]

(* mt5_reconnect_gap: what a lost session left owed, up to the next print. *)
OwedGap(t, i) ==
  IF t.gap # None /\ Ms[i] >= t.gap THEN {[from |-> t.gap, to |-> Ms[i]]} ELSE {}

Seam == [last |-> tape.last, held |-> tape.atLast]

(* Faulty variant: no count at the last stamp. *)
PastSeamUncounted(prints, seam) == {k \in DOMAIN prints : Ms[prints[k]] >= seam.last}

(* past_seam: what the chart holds is dropped, by count at its last stamp; *)
(* these are the places of the others.                                     *)
PastSeam(prints, seam) ==
  {k \in DOMAIN prints :
     \/ Ms[prints[k]] > seam.last
     \/ Ms[prints[k]] = seam.last /\ At(SubSeq(prints, 1, k), seam.last) > seam.held}

PrintsPastSeam(prints, seam) == Retained(prints, PastSeam(prints, seam))

(* trim_older, and the paging floor below what it kept. *)
Older(prints) == IF tape.oldest = None THEN prints ELSE Before(prints, tape.oldest)
Deepened(older, scanned) ==
  LET oldest == IF older = << >> THEN tape.oldest ELSE Earlier(tape.oldest, Ms[Head(older)])
  IN  [tape EXCEPT !.oldest = oldest, !.floor = Earlier(Earlier(@, oldest), scanned)]

(* --- the refill ---------------------------------------------------------- *)

Closes(f) ==
  Cardinality({k \in 2 .. Len(f.hand) : Ms[f.hand[k]] - Ms[f.hand[k - 1]] > SessionGap})

(* absorb: only what is strictly older than the prints in hand. *)
Absorb(f, prints) ==
  LET older == Before(prints, Ms[Head(f.hand)])
  IN  IF older = << >> THEN f
      ELSE [f EXCEPT !.hand = older \o @, !.cursor = Earlier(@, Ms[Head(older)])]

Begin(block, seam, paging) ==
  [st |-> "filling", seam |-> seam, hand |-> block, cursor |-> Ms[Head(block)],
   held |-> << >>, canPage |-> paging, pageOwed |-> FALSE, pages |-> 0, idle |-> 0,
   exhausted |-> FALSE, unanswered |-> FALSE]

(* GapFill::page: the answer to the refill's own page. *)
PageIn(f, event) ==
  LET got  == Absorb(f, event.prints)
      none == got.hand = f.hand
  IN  [got EXCEPT !.pageOwed = FALSE,
                  !.unanswered = @ \/ (/\ event.prints = << >> /\ event.scanned = None
                                       /\ ~event.exhausted),
                  !.exhausted = @ \/ event.exhausted,
                  !.idle = IF none THEN @ + 1 ELSE 0,
                  !.cursor = Earlier(@, event.scanned)]

Covered(f) == Ms[Head(f.hand)] <= f.seam.last

Stopped(f) ==
  \/ f.unanswered \/ ~f.canPage \/ f.exhausted \/ f.idle >= MaxIdle
  \/ Closes(f) > MaxCloses \/ Len(f.hand) >= MaxReceived \/ f.pages >= MaxPages

(* finish and release_refill: the gap, the prints, the held live prints. *)
Unfilled(f) ==
  IF Covered(f) THEN {} ELSE {[from |-> f.seam.last, to |-> Ms[Head(f.hand)]]}
Releases(f) == PrintsPastSeam(f.hand, f.seam) \o f.held
ChartWith(c, f) == [c EXCEPT !.gaps = @ \cup Unfilled(f), !.prints = @ \o Releases(f)]

Release(f, t, c) ==
  /\ fill' = NoFill
  /\ stray' = f.pageOwed
  /\ tape' = Forwarded(t, Releases(f))
  /\ chart' = ChartWith(c, f)

(* Faulty variant: the refill asks beside the chart. *)
MayAskBeside(f, t) == ~f.pageOwed /\ PagerFree

(* Replies carry no id: the refill asks when no page is on its way to it   *)
(* or to the chart.                                                        *)
MayAsk(f, t) == ~f.pageOwed /\ ~t.owed /\ PagerFree

(* drive_refill: release, ask, or wait. *)
Drive(f, t, c) ==
  LET over == Covered(f) \/ Stopped(f)
      asks == MayAsk(f, t)
  IN  \/ over /\ Release(f, t, c) /\ UNCHANGED <<pager, faults>>
      \/ /\ ~over /\ asks
         /\ Request(f.cursor)
         /\ fill' = [f EXCEPT !.pageOwed = TRUE, !.pages = @ + 1]
         /\ tape' = t /\ chart' = c /\ UNCHANGED stray
      \/ /\ ~over /\ ~asks
         /\ fill' = f
         /\ tape' = t /\ chart' = c /\ UNCHANGED <<stray, pager, faults>>

(* --- the feed, one event at a time ---------------------------------------- *)

Next1(t) == events # << >> /\ Head(events).t = t /\ events' = Tail(events)

(* HistoryPrepended as a reply: it ends one load of the tab. *)
Replied(c, prints) == [c EXCEPT !.prints = prints \o @, !.loads = Later(0, @ - 1)]
CountUnasked(c) == unasked' = IF c.loads = 0 THEN unasked + 1 ELSE unasked

OnConnected ==
  /\ Next1("connected")
  /\ connected' = TRUE /\ canPage' = Head(events).pages
  /\ UNCHANGED <<venueVars, bridge, pager, tape, fill, stray, chart, unasked, faults>>

OnBackfilled ==
  /\ Next1("backfilled")
  /\ LET block  == Head(events).prints
         resume == [tape EXCEPT !.resent = TRUE, !.gap = None]
         tail   == PrintsPastSeam(block, Seam)
     IN  \/ block = << >> /\ UNCHANGED <<tape, fill, stray, chart, pager, faults>>
         \/ /\ block # << >> /\ ~tape.any
            /\ tape' = Forwarded(tape, block)
            /\ chart' = [chart EXCEPT !.prints = block \o @]
            /\ UNCHANGED <<fill, stray, pager, faults>>
         \/ /\ block # << >> /\ tape.any /\ Ms[Head(block)] <= tape.last
            /\ tape' = Forwarded(resume, tail)
            /\ chart' = [chart EXCEPT !.prints = @ \o tail]
            /\ UNCHANGED <<fill, stray, pager, faults>>
         \/ /\ block # << >> /\ tape.any /\ Ms[Head(block)] > tape.last
            /\ Drive(Begin(block, Seam, canPage), resume, chart)
  /\ UNCHANGED <<venueVars, bridge, connected, canPage, unasked>>

OnOpening ==
  /\ Next1("opening")
  /\ LET slice == Head(events).prints
         older == Older(slice)
     IN  \/ fill # NoFill /\ \E f \in {Absorb(fill, slice)} : Drive(f, tape, chart)
         \/ /\ fill = NoFill /\ tape.resent
            /\ UNCHANGED <<tape, fill, stray, chart, pager, faults>>
         \/ /\ fill = NoFill /\ ~tape.resent
            /\ tape' = Deepened(older, None)
            /\ chart' = [chart EXCEPT !.prints = older \o @]
            /\ UNCHANGED <<fill, stray, pager, faults>>
  /\ UNCHANGED <<venueVars, bridge, connected, canPage, unasked>>

(* Faulty variant: the refill is not told. *)
SettledAlone(t, c) ==
  tape' = t /\ chart' = c /\ UNCHANGED <<fill, stray, pager, faults>>

(* The chart's page is through: a refill that waited for it asks now. *)
Settled(t, c) ==
  \/ fill # NoFill /\ Drive(fill, t, c)
  \/ fill = NoFill /\ tape' = t /\ chart' = c /\ UNCHANGED <<fill, stray, pager, faults>>

(* refill_wants_page: the refill's page, one it no longer wants, or the    *)
(* chart's.                                                                *)
OnPage ==
  /\ Next1("page")
  /\ LET page  == Head(events)
         older == Older(page.prints)
         t     == [Deepened(older, page.scanned) EXCEPT !.owed = FALSE]
         c     == Replied(chart, older)
         fills == fill # NoFill /\ fill.pageOwed
     IN  \/ /\ fills
            /\ \E f \in {PageIn(fill, page)} : Drive(f, tape, chart)
            /\ UNCHANGED <<canPage, unasked>>
         \/ /\ ~fills /\ stray
            /\ stray' = FALSE
            /\ UNCHANGED <<tape, fill, chart, pager, faults, canPage, unasked>>
         \/ /\ ~fills /\ ~stray
            /\ canPage' = (canPage /\ ~page.exhausted)
            /\ CountUnasked(chart)
            /\ Settled(t, c)
  /\ UNCHANGED <<venueVars, bridge, connected>>

(* live_event: held behind a running refill, else forwarded. *)
OnLive ==
  /\ Next1("live")
  /\ LET print == Head(events).print
         held  == [fill EXCEPT !.held = Append(@, print)]
     IN  \/ /\ fill = NoFill
            /\ tape' = Forwarded(tape, <<print>>)
            /\ chart' = [chart EXCEPT !.gaps = @ \cup OwedGap(tape, print),
                                      !.prints = Append(@, print)]
            /\ UNCHANGED <<fill, stray>>
         \/ /\ fill # NoFill /\ Len(held.held) < MaxHeld
            /\ fill' = held
            /\ UNCHANGED <<tape, stray, chart>>
         \/ fill # NoFill /\ Len(held.held) >= MaxHeld /\ Release(held, tape, chart)
  /\ UNCHANGED <<venueVars, bridge, pager, connected, canPage, unasked, faults>>

(* Faulty variant: the page that died stays owed. *)
SessionLostOwing(t) == [t EXCEPT !.gap = IF t.any THEN t.last ELSE @]

(* session_lost: the gap to the next print is owed, and no page any more. *)
SessionLost(t) == [t EXCEPT !.gap = IF t.any THEN t.last ELSE @, !.owed = FALSE]

(* Faulty variant: a page that died with its session is not answered. *)
DeadPageUnanswered(t, c) == c

(* A page that died with its session is answered empty. *)
DeadPage(t, c) == IF t.owed THEN Replied(c, << >>) ELSE c

(* Mt5Status::Lost: the refill ends with what it has. *)
OnLost ==
  /\ Next1("lost")
  /\ LET t == IF fill = NoFill THEN tape ELSE Forwarded(tape, Releases(fill))
         c == IF fill = NoFill THEN chart ELSE ChartWith(chart, fill)
     IN  /\ tape' = SessionLost(t)
         /\ chart' = DeadPage(t, c)
         /\ IF t.owed THEN CountUnasked(c) ELSE UNCHANGED unasked
  /\ fill' = NoFill /\ stray' = FALSE /\ connected' = FALSE
  /\ UNCHANGED <<venueVars, bridge, pager, canPage, faults>>

(* The stall limit or the hard limit of the hold. *)
OnRefillDeadline ==
  /\ fill # NoFill
  /\ Release(fill, tape, chart)
  /\ UNCHANGED <<venueVars, bridge, pager, events, connected, canPage, unasked, faults>>

(* request_older_history, for a tab that has no request out: on its way,   *)
(* or refused and answered empty at once.                                  *)
LoadOlder ==
  /\ chart.loads = 0 /\ pressed < Presses
  /\ pressed' = pressed + 1
  /\ LET asks == /\ connected /\ fill = NoFill /\ ~stray
                 /\ tape.floor # None /\ PagerFree
     IN  IF asks
         THEN /\ Request(tape.floor)
              /\ tape' = [tape EXCEPT !.owed = TRUE]
              /\ chart' = [chart EXCEPT !.loads = 1]
         ELSE UNCHANGED <<pager, faults, tape, chart>>
  /\ UNCHANGED <<printed, lost, bridge, events, connected, canPage, fill, stray, unasked>>

FeedStep ==
  \/ OnConnected \/ OnBackfilled \/ OnOpening \/ OnPage \/ OnLive \/ OnLost
  \/ OnRefillDeadline \/ LoadOlder

TapeNext == Trade \/ BridgeStep \/ FeedStep

TapeSpec == TapeInit /\ [][TapeNext]_tapeVars

(* The feed takes what the channel holds, the connection writes requests,  *)
(* and a bridge that said hello sends its block, slices and pages.  Nothing*)
(* is promised of the venue, of a bridge that should dial, of the trader   *)
(* or of the refill's deadline.                                            *)
TapeFairness ==
  /\ WF_tapeVars(OnConnected \/ OnBackfilled \/ OnOpening \/ OnPage \/ OnLive \/ OnLost)
  /\ WF_tapeVars(TakeRequest) /\ WF_tapeVars(Admit)
  /\ WF_tapeVars(Backfill) /\ WF_tapeVars(PumpOpening) /\ WF_tapeVars(Answer)

FairTapeSpec == TapeSpec /\ TapeFairness

(* --- properties ----------------------------------------------------------- *)

Prints == DOMAIN Ms
Stamps == {Ms[i] : i \in Prints}
StampOrNone == Stamps \cup {None}

(* The shape of the state; the requests, the cursors and the marks are     *)
(* stamps of the tape, and the tab never awaits more than one reply.       *)
TapeTypeOK ==
  /\ printed \in Prints
  /\ bridge.st \in {"off", "hello", "live"} /\ bridge.pages \in BOOLEAN
  /\ bridge.next \in 0 .. Len(Ms) + 1 /\ {bridge.inbox, bridge.ask} \subseteq StampOrNone
  /\ pager \in [queued : StampOrNone, inFlight : BOOLEAN]
  /\ {connected, canPage, stray, tape.any, tape.resent, tape.owed} \subseteq BOOLEAN
  /\ {tape.last, tape.gap, tape.oldest, tape.floor} \subseteq StampOrNone
  /\ tape.atLast \in 0 .. Len(Ms)
  /\ chart.loads \in {0, 1} /\ chart.gaps \subseteq [from : Stamps, to : Stamps]
  /\ \A k \in DOMAIN chart.prints : chart.prints[k] \in 1 .. printed
  /\ fill # NoFill => fill.hand # << >> /\ fill.cursor \in Stamps
  /\ lost \in 0 .. Losses /\ pressed \in 0 .. Presses /\ unasked \in Nat
  /\ faults \subseteq {"outlived", "lowered"}

(* However live prints, refilled holes, slices and pages interleave across *)
(* sessions, the chart holds the tape's prints in the order they were made *)
(* and none of them twice, those of the seam's own millisecond included.   *)
ChartInTapeOrder ==
  \A k \in 2 .. Len(chart.prints) : chart.prints[k - 1] < chart.prints[k]

Charted == {chart.prints[k] : k \in DOMAIN chart.prints}
Marked(i) == \E g \in chart.gaps : g.from <= Ms[i] /\ Ms[i] <= g.to

(* A print the chart lacks between two it holds lies in a marked gap. *)
NoSilentHole ==
  \A i \in 1 .. printed :
    (i \notin Charted /\ \E a, b \in Charted : a < i /\ i < b) => Marked(i)

(* However sessions are lost and refills stopped, the chart has no silent  *)
(* hole, unless a request for a page went astray in one of two ways.       *)
HolesAreMarked == faults = {} => NoSilentHole

(* "A refill that cannot reach the old end says so": whatever it was       *)
(* answered, what it did not chart is marked.                              *)
RefillSaysWhatItMissed == "lowered" \notin faults => NoSilentHole

(* The slices of a session the feed resumed "cover a session the chart     *)
(* already holds": turning them away leaves no hole.                       *)
SlicesLeaveNoHole == "outlived" \notin faults => NoSilentHole

(* "Every request gets exactly one reply": the tab is never answered when  *)
(* it asked for nothing.                                                   *)
EveryReplyWasAsked == unasked = 0

(* The feed owes a page exactly while the tab awaits one, across losses,   *)
(* refills that take the pager, and pages that land after their refill.    *)
LoadsAreOwed == (chart.loads = 1) <=> tape.owed

(* The tab's load older is answered, whether the bridge pages, cannot page *)
(* or goes away, and whatever refill runs meanwhile.                       *)
LoadsAreAnswered == chart.loads = 1 ~> chart.loads = 0

(* A refill comes to its end without its deadline while the bridge answers, *)
(* and with it what it holds back.                                          *)
RefillsEnd == fill # NoFill ~> fill = NoFill
=============================================================================
