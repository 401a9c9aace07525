----------------------------- MODULE HistoryRun -----------------------------
(* The History button of one tab: a press, the run that pages toward its    *)
(* target, and the feed that answers (sources/src/history_run.rs and        *)
(* history_reach.rs, session/src/paging.rs, app/src/tab/feed.rs).           *)
(*                                                                          *)
(* A press waits while the chart fills; a run asks for one page at a time,  *)
(* judges each raw page, holds the panes' rebuild until it ends, and pauses *)
(* while its tab is hidden.  Replies carry no id: the first block of a      *)
(* MetaTrader session comes as one, and the run must tell its own by the    *)
(* order alone.                                                             *)
(*                                                                          *)
(* A print is its place on the tape, Ms its stamp.  The live edge stands    *)
(* still: what is modelled is how far back the chart reaches.  The panes of *)
(* a tab retain and display the same pages, so they are one.                *)
EXTENDS Integers, Sequences, FiniteSets

CONSTANTS Ms,          \* the stamps of the venue's tape
          SessionGap,  \* session_gap_ms
          Hour, Day,   \* HOUR_MS, DAY_OF_TAPE_MS
          Reaches,     \* the targets a press may ask for
          PerHour,     \* PRINTS_PER_TRADED_HOUR_BUDGET
          PerSession,  \* PRINTS_PER_SESSION_BUDGET
          PageSize,    \* prints a page asks for
          PageSlack,   \* PAGE_SLACK
          MaxPages,    \* MAX_CAMPAIGN_PAGES
          MaxIdle,     \* MAX_IDLE_PAGES
          MinUseful,   \* MIN_USEFUL_REQUEST
          Ceiling,     \* prints one copy of the tape may hold
          WorkerTrades,  \* HISTORY_WORKER_TRADES: a longer tape is recut by a worker
          Drops,       \* whether the feed may drop a page's oldest print
          Refuses,     \* whether it may answer a request it could serve empty
          Presses,     \* bound: presses
          Losses       \* bound: sessions that end, feeds that are replaced

N == Len(Ms)

ASSUME RunAssumption ==
  /\ Ms \in Seq(Nat \ {0}) /\ N > 0
  /\ \A i \in 2 .. N : Ms[i - 1] <= Ms[i]
  /\ Reaches \subseteq [kind : {"hours", "sessions"}, n : Nat \ {0}]
  /\ {SessionGap, Hour, Day, PerHour, PerSession, PageSize, MaxPages, MaxIdle, MinUseful}
       \subseteq Nat \ {0}
  /\ {PageSlack, Ceiling, WorkerTrades, Presses, Losses} \subseteq Nat /\ Drops \subseteq BOOLEAN
  /\ Refuses \subseteq BOOLEAN

VARIABLES
  run,      \* [queued, camp, out, paused]: HistoryRun
  tab,      \* [wait, opening, visible]: what idle is read from, beside the panes
  panes,    \* [kept, failed]: the prints a pane retains and does not display
  chart,    \* the tape as it will be displayed: what is kept, then the display
  feed,     \* [st, any, slices, floor, asks, pages]: the feed and its bridge
  inbox,    \* the events on their way to the tab
  outcome,  \* how the last run ended
  foreign,  \* history: a run judged a page it had not asked for
  overtaken,  \* history: prints were taken in that a page retained before may not precede
  reopened, \* history: a feed began anew on a tab that retains prints and displays none
  presses, losses

runVars == <<run, tab, panes, chart, feed, inbox, outcome, foreign, overtaken, reopened,
             presses, losses>>

NoReach    == [kind |-> "none"]
NoCampaign == [reach |-> NoReach]
NoOutcome  == [end |-> "none"]

RunInit ==
  /\ run = [queued |-> NoReach, camp |-> NoCampaign, out |-> FALSE, paused |-> FALSE]
  /\ tab = [wait |-> 1, opening |-> 0, visible |-> TRUE]
  /\ panes = [kept |-> 0, failed |-> FALSE]
  /\ chart = << >>
  /\ feed = [st |-> "hello", any |-> FALSE, slices |-> 0, floor |-> N + 1, asks |-> << >>,
             pages |-> TRUE]
  /\ inbox = << >> /\ outcome = NoOutcome /\ foreign = FALSE /\ overtaken = FALSE
  /\ reopened = FALSE /\ presses = 0 /\ losses = 0

Lesser(a, b) == IF a < b THEN a ELSE b
Places(a, b) == [k \in 1 .. b - a + 1 |-> a + k - 1]

(* --- the campaign --------------------------------------------------------- *)

Budget(reach) == IF reach.kind = "hours" THEN reach.n * PerHour ELSE (reach.n + 1) * PerSession
PageBudget(reach) ==
  Lesser((Budget(reach) + PageSize - 1) \div PageSize + PageSlack, MaxPages)

(* Faulty variant: the close behind today is already the target's. *)
ClosesForToday(reach) == reach.n

(* The target session is proven open by the close behind it. *)
ClosesFor(reach) == reach.n + 1

Met(c) ==
  IF c.reach.kind = "hours" THEN c.traded >= c.reach.n * Hour
  ELSE \/ c.open # 0
       \/ c.closes = 0 /\ c.traded >= c.reach.n * Day
       \/ c.traded >= (c.reach.n + 1) * Day

(* Campaign::take: one print no newer than what was judged. *)
Take(c, i) ==
  LET step   == c.oldest - Ms[i]
      closed == step > SessionGap
      opened == closed /\ c.reach.kind = "sessions" /\ c.closes + 1 = ClosesFor(c.reach)
  IN  [c EXCEPT !.closes = IF closed THEN @ + 1 ELSE @,
                !.traded = IF closed THEN @ ELSE @ + step,
                !.open = IF opened THEN c.oldest ELSE @,
                !.oldest = Ms[i]]

(* The prints, newest first, until the target is met.  A choice from a set   *)
(* of one has TLC compute each campaign once.                                *)
TakeBack(c, prints) ==
  LET after[k \in 1 .. Len(prints) + 1] ==
        IF k = Len(prints) + 1 THEN c
        ELSE CHOOSE d \in {IF Met(a) \/ Ms[prints[k]] > a.oldest THEN a ELSE Take(a, prints[k])
                             : a \in {after[k + 1]}} : TRUE
  IN  after[1]

(* Campaign::start, over what the chart holds.  Two fields are history: id   *)
(* tells runs apart, blind says that slices landed behind the run's back.    *)
Started(reach, id) ==
  LET new  == [reach |-> reach, id |-> id, oldest |-> Ms[chart[Len(chart)]], closes |-> 0,
               traded |-> 0, open |-> 0, held |-> Len(chart), from |-> Ms[chart[1]], pulled |-> 0,
               pages |-> 0, idle |-> 0, asked |-> 0, blind |-> FALSE]
      over == IF reach.kind = "hours" THEN new ELSE TakeBack(new, SubSeq(chart, 1, Len(chart) - 1))
  IN  [over EXCEPT !.oldest = Ms[chart[1]]]

AtCeiling(c) == c.held + c.pulled + MinUseful > Ceiling

(* next_request: never more than the page, the budget and the ceiling leave. *)
Request(c) ==
  LET room == Lesser(Lesser(PageSize, Budget(c.reach) - c.pulled), Ceiling - c.held - c.pulled)
  IN  IF room < 1 THEN 1 ELSE room

(* Campaign::advance, the page taken in. *)
Advanced(c, page) ==
  LET taken  == TakeBack([c EXCEPT !.pulled = @ + Len(page)], page)
      oldest == IF page = << >> THEN taken.oldest ELSE Lesser(taken.oldest, Ms[page[1]])
  IN  [taken EXCEPT !.oldest = oldest, !.idle = IF oldest < c.oldest THEN 0 ELSE c.idle + 1]

(* Campaign::advance, what to do next: the stops, in their order. *)
Verdict(c, canPage) ==
  IF Met(c) THEN "met"
  ELSE IF ~canPage THEN "exhausted"
  ELSE IF AtCeiling(c) THEN "ceiling"
  ELSE IF c.idle >= MaxIdle THEN "nothing"
  ELSE IF c.pulled >= Budget(c.reach) THEN "prints"
  ELSE IF c.pages >= PageBudget(c.reach) THEN "pages"
  ELSE "ask"

(* --- the run --------------------------------------------------------------- *)

Running == run.camp # NoCampaign
Idle == tab.wait = 0 /\ tab.opening = 0 /\ panes.kept = 0 /\ ~panes.failed

Over(c, end) == [end |-> end, reach |-> c.reach, open |-> c.open, from |-> c.from,
                 asked |-> c.asked, blind |-> c.blind]

(* Faulty variant: a request that could not be queued still counts as out. *)
UnsentStillOut(r) == [r EXCEPT !.camp = NoCampaign, !.paused = FALSE, !.out = TRUE]

(* send_failed *)
Unsent(r) == [r EXCEPT !.camp = NoCampaign, !.paused = FALSE, !.out = FALSE]

(* send_next, the command channel and acknowledge: on its way, and the tab   *)
(* waits for one more, or the run is over.  w is the tab's wait.             *)
Send(r, c, w) ==
  LET count == Request(c)
      sent  == [c EXCEPT !.pages = @ + 1, !.asked = count]
  IN  \/ /\ run' = [r EXCEPT !.camp = sent, !.out = TRUE]
         /\ tab' = [tab EXCEPT !.wait = w + 1]
         /\ feed' = [feed EXCEPT !.asks = Append(@, [count |-> count, id |-> c.id])]
         /\ UNCHANGED outcome
      \/ /\ run' = Unsent(r)
         /\ outcome' = Over(sent, "refused")
         /\ tab' = [tab EXCEPT !.wait = w] /\ UNCHANGED feed

(* begin: the target may already be there, and the chart may be empty or full. *)
Begin(reach, id) ==
  LET c == Started(reach, id)
      b == [run EXCEPT !.queued = NoReach, !.paused = FALSE]
      ends(end) == run' = b /\ outcome' = end /\ UNCHANGED <<tab, feed>>
  IN  \/ chart = << >> /\ ends([end |-> "empty"])
      \/ chart # << >> /\ Met(c) /\ ends(Over(c, "already"))
      \/ chart # << >> /\ ~Met(c) /\ AtCeiling(c) /\ ends(Over(c, "full"))
      \/ chart # << >> /\ ~Met(c) /\ ~AtCeiling(c) /\ Send(b, c, tab.wait)

(* prepare_press retries the panes' failed rebuilds, then press. *)
Press ==
  /\ presses < Presses
  /\ presses' = presses + 1
  /\ panes' = [panes EXCEPT !.failed = FALSE]
  /\ \E reach \in Reaches :
       \/ Running /\ UNCHANGED <<run, tab, feed, outcome>>
       \/ ~Running /\ Idle /\ ~run.out /\ Begin(reach, presses')
       \/ /\ ~Running /\ ~(Idle /\ ~run.out)
          /\ run' = [run EXCEPT !.queued = reach]
          /\ UNCHANGED <<tab, feed, outcome>>
  /\ UNCHANGED <<chart, inbox, foreign, overtaken, reopened, losses>>

(* poll: once a frame a queued press begins, or a paused run goes on. *)
Queued == run.queued # NoReach
PollBegins == Queued /\ Idle /\ ~run.out /\ ~Running

(* Faulty variant: a run resumes on an idle chart, though it holds the      *)
(* rebuild itself.                                                          *)
PollResumesIdle == ~PollBegins /\ run.paused /\ tab.visible /\ Running /\ Idle

PollResumes == ~PollBegins /\ run.paused /\ tab.visible /\ Running

Frame ==
  /\ \/ PollBegins /\ Begin(run.queued, presses)
     \/ PollResumes /\ Send([run EXCEPT !.paused = FALSE], run.camp, tab.wait)
  /\ UNCHANGED <<panes, chart, inbox, foreign, overtaken, reopened, presses, losses>>

(* cancel: the request already out stays counted. *)
Cancelled(r) == [r EXCEPT !.paused = FALSE, !.camp = NoCampaign, !.queued = NoReach]

Cancel ==
  /\ Running \/ Queued
  /\ run' = Cancelled(run)
  /\ outcome' = IF Running THEN Over(run.camp, "cancelled") ELSE outcome
  /\ UNCHANGED <<tab, panes, chart, feed, inbox, foreign, overtaken, reopened, presses, losses>>

Show == ~tab.visible /\ tab' = [tab EXCEPT !.visible = TRUE]
          /\ UNCHANGED <<run, panes, chart, feed, inbox, outcome, foreign, overtaken, reopened,
                         presses, losses>>
Hide == tab.visible /\ tab' = [tab EXCEPT !.visible = FALSE]
          /\ UNCHANGED <<run, panes, chart, feed, inbox, outcome, foreign, overtaken, reopened,
                         presses, losses>>

(* --- the events of the feed ------------------------------------------------ *)

Next1(t) == inbox # << >> /\ Head(inbox).t = t /\ inbox' = Tail(inbox)

(* receive_history: a page is retained for the rebuild, or drawn at once in  *)
(* front of what is displayed, and so behind the pages that a failed rebuild *)
(* retains.                                                                  *)
Displayed == SubSeq(chart, panes.kept + 1, Len(chart))
Pending == panes.kept > 0 /\ ~panes.failed

(* defer_history *)
Defers(page) == Pending \/ Len(Displayed) + Len(page) > WorkerTrades

Retain(page) ==
  /\ panes' = [kept |-> panes.kept + Len(page), failed |-> FALSE]
  /\ chart' = page \o chart
  /\ UNCHANGED overtaken

Draw(page) ==
  /\ chart' = SubSeq(chart, 1, panes.kept) \o page \o Displayed
  /\ overtaken' = (overtaken \/ (panes.kept > 0 /\ page # << >>))
  /\ UNCHANGED panes

(* HistoryPrepended: on_reply judges the raw page, then the panes take it,   *)
(* and hold it while a run goes on.                                          *)
OnPrepended ==
  /\ Next1("prepended")
  /\ LET page == Head(inbox).prints
         wait == IF tab.wait = 0 THEN 0 ELSE tab.wait - 1
         done == tab' = [tab EXCEPT !.wait = wait]
         back == [run EXCEPT !.out = FALSE]
         c    == Advanced(run.camp, page)
         next == Verdict(c, feed.pages)
     IN  /\ foreign' = (foreign \/ (Running /\ Head(inbox).id # run.camp.id))
         /\ \/ ~Running /\ run' = back /\ done /\ UNCHANGED <<feed, outcome>>
            \/ Running /\ next = "ask" /\ tab.visible /\ Send(back, c, wait)
            \/ /\ Running /\ next = "ask" /\ ~tab.visible
               /\ run' = [back EXCEPT !.camp = c, !.paused = TRUE]
               /\ done /\ UNCHANGED <<feed, outcome>>
            \/ /\ Running /\ next # "ask"
               /\ run' = [back EXCEPT !.camp = NoCampaign]
               /\ outcome' = Over(c, next)
               /\ done /\ UNCHANGED feed
         /\ IF run'.camp # NoCampaign \/ Defers(page) THEN Retain(page) ELSE Draw(page)
  /\ UNCHANGED <<reopened, presses, losses>>

(* OpeningPrepended: drawn, not judged, though a run that began before the   *)
(* first slice was heard of pages below it.                                  *)
OnOpening ==
  /\ Next1("opening")
  /\ tab' = [tab EXCEPT !.opening = Head(inbox).remaining]
  /\ LET page == Head(inbox).prints IN IF Defers(page) THEN Retain(page) ELSE Draw(page)
  /\ run' = IF Running THEN [run EXCEPT !.camp.blind = TRUE] ELSE run
  /\ UNCHANGED <<feed, outcome, foreign, reopened, presses, losses>>

(* poll_history_publication: nothing is rebuilt while a run holds the panes. *)
Rebuilding == Pending /\ ~Running

(* history_rebuild puts the retained pages, the last to arrive first, before *)
(* the tape on display.                                                      *)
Rebuild ==
  /\ Rebuilding
  /\ panes' = [panes EXCEPT !.kept = 0]
  /\ UNCHANGED <<run, tab, chart, feed, inbox, outcome, foreign, overtaken, reopened, presses,
                 losses>>

(* The worker failed twice: rebuild_failed keeps a queued press. *)
RebuildFails ==
  /\ Rebuilding
  /\ panes' = [panes EXCEPT !.failed = TRUE]
  /\ tab' = [tab EXCEPT !.wait = 0]
  /\ UNCHANGED <<run, chart, feed, inbox, outcome, foreign, overtaken, reopened, presses, losses>>

TabStep ==
  \/ Press \/ Frame \/ Cancel \/ Show \/ Hide \/ OnPrepended \/ OnOpening
  \/ Rebuild \/ RebuildFails

(* --- the feed ---------------------------------------------------------------- *)

Unasked == 0
Reply(prints, id) == [t |-> "prepended", prints |-> prints, id |-> id]

(* The first block of a session: it opens the chart as a reply, an empty one *)
(* is skipped, and one behind a tape that was forwarded fills the hole.      *)
Block ==
  /\ feed.st = "hello"
  /\ \/ /\ ~feed.any
        /\ \E first \in 1 .. N, slices \in 0 .. 2 :
             /\ slices < first
             /\ inbox' = Append(inbox, Reply(Places(first, N), Unasked))
             /\ feed' = [feed EXCEPT !.st = "live", !.any = TRUE, !.slices = slices,
                                     !.floor = first]
     \/ feed' = [feed EXCEPT !.st = "live"] /\ UNCHANGED inbox
  /\ UNCHANGED <<run, tab, panes, chart, outcome, foreign, overtaken, reopened, presses, losses>>

(* A live print on a display that has none. *)
LivePrint ==
  /\ feed.st = "live" /\ ~feed.any
  /\ feed' = [feed EXCEPT !.any = TRUE, !.floor = N]
  /\ chart' = Append(chart, N)
  /\ UNCHANGED <<run, tab, panes, inbox, outcome, foreign, overtaken, reopened, presses, losses>>

(* A slice of the opening session, with the number of those behind it. *)
Slice ==
  /\ feed.st = "live" /\ feed.slices > 0
  /\ inbox' = Append(inbox, [t |-> "opening", prints |-> <<feed.floor - 1>>,
                              remaining |-> feed.slices - 1])
  /\ feed' = [feed EXCEPT !.slices = @ - 1, !.floor = @ - 1]
  /\ UNCHANGED <<run, tab, panes, chart, outcome, foreign, overtaken, reopened, presses, losses>>

(* The answer to a request: the prints below the floor, the oldest perhaps  *)
(* dropped, or none when the feed cannot serve it or has charted nothing.   *)
Answer ==
  /\ feed.asks # << >> /\ feed.slices = 0
  /\ LET lo   == IF feed.floor > Head(feed.asks).count
                 THEN feed.floor - Head(feed.asks).count ELSE 1
         id   == Head(feed.asks).id
         rest == [feed EXCEPT !.asks = Tail(@)]
     IN  \/ \E drop \in Drops, more \in BOOLEAN :
              /\ feed.any /\ (more \/ lo = 1)
              /\ inbox' = Append(inbox, Reply(Places(IF drop THEN lo + 1 ELSE lo,
                                                     feed.floor - 1), id))
              /\ feed' = [rest EXCEPT !.floor = lo, !.pages = @ /\ more]
         \/ /\ TRUE \in Refuses \/ ~feed.any
            /\ inbox' = Append(inbox, Reply(<< >>, id)) /\ feed' = rest
  /\ UNCHANGED <<run, tab, panes, chart, outcome, foreign, overtaken, reopened, presses, losses>>

(* The bridge goes away: its slices never come, the page it owed is empty. *)
Lose ==
  /\ losses < Losses /\ feed.st = "live"
  /\ losses' = losses + 1
  /\ inbox' = inbox \o [k \in DOMAIN feed.asks |-> Reply(<< >>, feed.asks[k].id)]
  /\ feed' = [feed EXCEPT !.st = "hello", !.slices = 0, !.asks = << >>, !.pages = TRUE]
  /\ UNCHANGED <<run, tab, panes, chart, outcome, foreign, overtaken, reopened, presses>>

(* The tab attaches to a new feed and keeps its timeline: the old one's     *)
(* events and replies are dropped with its channel, and the new feed starts *)
(* from the tape on display, without the pages that are retained.           *)
Attach ==
  /\ losses < Losses /\ feed.any
  /\ losses' = losses + 1
  /\ run' = [run EXCEPT !.queued = NoReach, !.camp = NoCampaign, !.out = FALSE, !.paused = FALSE]
  /\ tab' = [tab EXCEPT !.wait = 0]
  /\ inbox' = << >>
  /\ feed' = [feed EXCEPT !.st = "hello", !.slices = 0, !.asks = << >>, !.pages = TRUE,
                          !.floor = IF Displayed = << >> THEN N + 1 ELSE Displayed[1],
                          !.any = Displayed # << >>]
  /\ overtaken' = (overtaken \/ panes.kept > 0)
  /\ reopened' = (reopened \/ (panes.kept > 0 /\ Displayed = << >>))
  /\ UNCHANGED <<panes, chart, outcome, foreign, presses>>

FeedStep == Block \/ LivePrint \/ Slice \/ Answer \/ Lose \/ Attach

RunNext == TabStep \/ FeedStep

RunSpec == RunInit /\ [][RunNext]_runVars

(* Frames are drawn, events taken and rebuilds finished; a hidden tab is    *)
(* looked at again; a bridge dials, opens, fills the chart and answers.     *)
(* Nothing is promised of the trader, of the command channel's room for a   *)
(* request or of the venue's next print.                                    *)
RunFairness ==
  /\ SF_runVars(Frame) /\ WF_runVars(Show)
  /\ WF_runVars(OnPrepended) /\ WF_runVars(OnOpening)
  /\ WF_runVars(Rebuild \/ RebuildFails)
  /\ WF_runVars(Block) /\ WF_runVars(Slice) /\ WF_runVars(Answer)

FairRunSpec == RunSpec /\ RunFairness

(* --- properties ----------------------------------------------------------- *)

Ends == {"none", "met", "exhausted", "ceiling", "nothing", "prints", "pages", "refused",
         "cancelled", "already", "full", "empty"}

(* The shape of the state.  A paused run has no request out and a run that  *)
(* is not paused has one, and a tab waits for one reply, but on a feed that *)
(* began anew; a failed rebuild retains pages; and the chart is in the      *)
(* order of the tape, if no page was drawn behind a retained one and no     *)
(* feed resumed without it.                                                 *)
RunTypeOK ==
  /\ run.queued \in Reaches \cup {NoReach} /\ run.out \in BOOLEAN
  /\ reopened \/ /\ Running => (run.paused <=> ~run.out)
                 /\ run.paused => Running
                 /\ tab.wait <= 1
  /\ tab.wait \in Nat /\ tab.opening \in Nat
  /\ panes.kept \in 0 .. Len(chart) /\ (panes.failed => panes.kept > 0)
  /\ overtaken \/ \A k \in 2 .. Len(chart) : chart[k - 1] < chart[k]
  /\ outcome.end \in Ends

OnTheWay == Len(feed.asks)
            + Cardinality({n \in DOMAIN inbox : inbox[n].t = "prepended" /\ inbox[n].id # Unasked})

(* One request at a time, judged by the run that made it: the run counts a  *)
(* request as out exactly while its reply is on the way, through cancelled  *)
(* runs, failed rebuilds, lost sessions, full command channels and feeds    *)
(* that are replaced, and no run takes another's page, nor the block that   *)
(* opens the chart, for its own; but when a feed began anew on a tab that   *)
(* retained prints and displayed none.                                      *)
OneRequestOut ==
  reopened \/ (~foreign /\ OnTheWay = IF run.out THEN 1 ELSE 0)

(* The stamp of the j-th newest print of a chart. *)
Stamp(s, j) == Ms[s[Len(s) + 1 - j]]

(* The prints that open a session of the chart, by age, each proven by the  *)
(* close behind it.                                                         *)
Opens(s) == {j \in 1 .. Len(s) - 1 : Stamp(s, j) - Stamp(s, j + 1) > SessionGap}
ClosesIn(s, j) == Cardinality({i \in Opens(s) : i < j})

(* Traded time between the j-th newest print and the one stamped from. *)
TradedTo(s, from) ==
  LET t[j \in 1 .. Len(s)] ==
        IF j = 1 \/ Stamp(s, j) >= from THEN 0
        ELSE LET step == Stamp(s, j - 1) - Stamp(s, j)
             IN  t[j - 1] + (IF step > SessionGap THEN 0 ELSE step)
  IN  t

(* The target o.reach lies on the chart s: so many hours of traded time      *)
(* behind the print the run began at, so many days of it in all, or the      *)
(* open of the session, with so many others after it.                        *)
Charted(o, s) ==
  IF o.reach.kind = "hours"
  THEN TradedTo(s, o.from)[Len(s)] >= o.reach.n * Hour
  ELSE \/ TradedTo(s, Stamp(s, 1))[Len(s)] >= o.reach.n * Day
       \/ \E j \in Opens(s) : ClosesIn(s, j) = o.reach.n /\ o.open = Stamp(s, j)

TargetCharted == Charted(outcome, chart)

(* A run that says its target is on the chart is right, over however many   *)
(* pages, pauses, refusals and rebuilds the prints arrived, when no slice   *)
(* of the opening session landed while it paged, and no retained page was   *)
(* overtaken by a later one or forgotten by a new feed.                     *)
ReachIsOnTheChart ==
  outcome.end \in {"met", "already"} /\ ~outcome.blind /\ ~overtaken => TargetCharted

(* "The target is on the chart", whenever a run says so. *)
ReachMetIsTrue == outcome.end \in {"met", "already"} => TargetCharted

(* No way out of a wait is left: the block was skipped and prints came, or  *)
(* the slices that were announced died with their session.                  *)
SpinnerIsOwed ==
  tab.wait > 0 => ~feed.any \/ OnTheWay > 0 \/ \E n \in DOMAIN inbox : inbox[n].t = "prepended"

(* "Cleared by every way a fill can end": while the tab counts slices to    *)
(* come, a bridge is sending them.                                          *)
FillIsArriving ==
  tab.opening > 0 => feed.slices > 0 \/ \E n \in DOMAIN inbox : inbox[n].t = "opening"

(* A run that ends because nothing comes back, when the venue has older     *)
(* prints, had asked for at least "the smallest request that can bring a    *)
(* print back".                                                             *)
EndsSayWhy == outcome.end = "nothing" /\ feed.floor > 1 => outcome.asked >= MinUseful

Stuck == ~SpinnerIsOwed \/ ~FillIsArriving

(* A press that waits for the fill, a rebuild or the page of a cancelled    *)
(* run begins once prints were heard of, or waits for the press that        *)
(* retries a failed rebuild; but for a chart whose wait nobody ends.        *)
QueuedPressBegins == Queued /\ feed.any ~> ~Queued \/ panes.failed \/ Stuck

(* Every run ends, though its tab is hidden and shown and its bridge lost.  *)
RunsEnd == Running ~> ~Running
=============================================================================
