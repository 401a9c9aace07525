----------------------------- MODULE ParkedWaits -----------------------------
(* events.wait (app/src/control/gateway/server.rs): a call that finds       *)
(* nothing new parks with the waiter manager, holding one slot of its       *)
(* connection and one of the gateway, until the journal moves past its      *)
(* position, its timeout elapses, its connection closes or access is turned *)
(* off; woken, it reads the journal through the application's queue like    *)
(* events.read.                                                             *)
(*                                                                          *)
(* The request queue and the request IDs are ControlGateway's; here the     *)
(* read that completes a call is either refused or run.  Each connection's  *)
(* reader, the manager, each wait thread and the application thread take    *)
(* their own steps.                                                         *)
EXTENDS EventJournal, FiniteSets, Sequences

CONSTANTS Calls,        \* calls of events.wait and events.read
          Conns,        \* connections
          ConnOf,       \* the connection a call comes in on
          OwnSlots,     \* CONTROL_MAX_PARKED_WAITERS_PER_CONNECTION
          SharedSlots   \* CONTROL_MAX_PARKED_WAITERS, also the channel's places

ASSUME WaitAssumption ==
  /\ IsFiniteSet(Calls)
  /\ ConnOf \in [Calls -> Conns]
  /\ OwnSlots \in Nat \ {0} /\ SharedSlots \in Nat \ {0}

VARIABLES
  call,       \* per call: [st, kind, start, next, at, gap, timedOut]
  answer,     \* per call: [what, from, upTo, gap, timedOut]
  wake,       \* per call: the reason in its wake channel, or "none"
  expired,    \* calls whose timeout has elapsed
  own,        \* per connection: parked slots taken
  shared,     \* parked slots taken over all connections
  park,       \* the channel to the manager
  manager,    \* [st, waiters]
  closed,     \* connections whose socket is gone
  cancelled,  \* access was turned off
  cursors     \* per connection: the cursor of the last page it was sent

waitVars ==
  <<call, answer, wake, expired, own, shared, park, manager, closed, cancelled, cursors>>
allVars == <<journalVars, waitVars>>

NewCall == [st |-> "new", kind |-> "none", start |-> Oldest, next |-> 0, at |-> 0, gap |-> 0,
            timedOut |-> FALSE]

WaitInit ==
  /\ JournalInit
  /\ call = [c \in Calls |-> NewCall]
  /\ answer = [c \in Calls |-> Bare("none")]
  /\ wake = [c \in Calls |-> "none"]
  /\ expired = {}
  /\ own = [k \in Conns |-> 0]
  /\ shared = 0
  /\ park = << >>
  /\ manager = [st |-> "select", waiters |-> {}]
  /\ closed = {}
  /\ cancelled = FALSE
  /\ cursors = [k \in Conns |-> 0]

(* --- the reader of a connection, one request at a time ------------------ *)

ReaderStates == {"loading", "loaded", "reserving", "parking"}
ReaderFree(k) == \A c \in Calls : ConnOf[c] = k => call[c].st \notin ReaderStates

Starts(k) == {Oldest, Latest} \cup {Cursor(n) : n \in {cursors[k]} \ {0}}

Move(c, st) == call' = [call EXCEPT ![c] = [@ EXCEPT !.st = st]]

(* The call ends with an answer, or with none where nobody is listening. *)
End(c, what) ==
  /\ Move(c, "done")
  /\ answer' = [answer EXCEPT ![c] = what]

(* events.read goes to the application's queue with its start unresolved. *)
SendRead(c, start) ==
  /\ call[c].st = "new" /\ ConnOf[c] \notin closed /\ ReaderFree(ConnOf[c])
  /\ call' = [call EXCEPT ![c] = [@ EXCEPT !.st = "reading", !.kind = "read", !.start = start]]
  /\ UNCHANGED <<journalVars, answer, wake, expired, own, shared, park, manager, closed,
                 cancelled, cursors>>

SendWait(c, start) ==
  /\ call[c].st = "new" /\ ConnOf[c] \notin closed /\ ReaderFree(ConnOf[c])
  /\ call' = [call EXCEPT ![c] = [@ EXCEPT !.st = "loading", !.kind = "wait", !.start = start]]
  /\ UNCHANGED <<journalVars, answer, wake, expired, own, shared, park, manager, closed,
                 cancelled, cursors>>

LoadNext(c) ==
  /\ call[c].st = "loading"
  /\ call' = [call EXCEPT ![c] = [@ EXCEPT !.st = "loaded", !.next = signal.next]]
  /\ UNCHANGED <<journalVars, answer, wake, expired, own, shared, park, manager, closed,
                 cancelled, cursors>>

(* The second load, and what the two make of the start. *)
ResolveStart(c) ==
  LET start == call[c].start bounds == Bounds(call[c].next) IN
  /\ call[c].st = "loaded"
  /\ IF Valid(start, bounds)
     THEN /\ call' = [call EXCEPT ![c] = [@ EXCEPT !.st = "reserving", !.next = 0,
                                  !.at = Position(start, bounds), !.gap = Gap(start, bounds)]]
          /\ UNCHANGED answer
     ELSE End(c, Bare("invalid"))
  /\ UNCHANGED <<journalVars, wake, expired, own, shared, park, manager, closed, cancelled,
                 cursors>>

(* Already behind the journal: no parking, just the read. *)
ReadAtOnce(c) ==
  /\ call[c].st = "reserving" /\ signal.next > call[c].at
  /\ Move(c, "reading")
  /\ UNCHANGED <<journalVars, answer, wake, expired, own, shared, park, manager, closed,
                 cancelled, cursors>>

(* Faulty variant: the connection's slot stays taken when the gateway has none. *)
ReserveLeaks(c) ==
  /\ call[c].st = "reserving" /\ signal.next <= call[c].at
  /\ IF own[ConnOf[c]] < OwnSlots
     THEN /\ own' = [own EXCEPT ![ConnOf[c]] = @ + 1]
          /\ IF shared < SharedSlots
             THEN shared' = shared + 1 /\ Move(c, "parking") /\ UNCHANGED answer
             ELSE End(c, Bare("refused")) /\ UNCHANGED shared
     ELSE End(c, Bare("refused")) /\ UNCHANGED <<own, shared>>
  /\ UNCHANGED <<journalVars, wake, expired, park, manager, closed, cancelled, cursors>>

(* One slot of the connection and one of the gateway, or neither.  Only     *)
(* this reader takes its connection's slots, so the one it gives back when  *)
(* the gateway has none left is missed by nobody.                           *)
Reserve(c) ==
  /\ call[c].st = "reserving" /\ signal.next <= call[c].at
  /\ IF own[ConnOf[c]] < OwnSlots /\ shared < SharedSlots
     THEN /\ own' = [own EXCEPT ![ConnOf[c]] = @ + 1]
          /\ shared' = shared + 1
          /\ Move(c, "parking")
          /\ UNCHANGED answer
     ELSE End(c, Bare("refused")) /\ UNCHANGED <<own, shared>>
  /\ UNCHANGED <<journalVars, wake, expired, park, manager, closed, cancelled, cursors>>

GiveBack(c) ==
  /\ own' = [own EXCEPT ![ConnOf[c]] = @ - 1]
  /\ shared' = shared - 1

(* A channel that is full or whose manager is gone refuses the waiter. *)
ParkRefused(c) ==
  /\ call[c].st = "parking"
  /\ manager.st = "gone" \/ Len(park) >= SharedSlots
  /\ GiveBack(c) /\ End(c, Bare("refused"))
  /\ UNCHANGED <<journalVars, wake, expired, park, manager, closed, cancelled, cursors>>

Park(c) ==
  /\ call[c].st = "parking" /\ manager.st # "gone" /\ Len(park) < SharedSlots
  /\ park' = Append(park, c)
  /\ Move(c, "parked")
  /\ UNCHANGED <<journalVars, answer, wake, expired, own, shared, manager, closed, cancelled,
                 cursors>>

(* The waiter is with the manager but its thread cannot start: whatever it  *)
(* is woken with goes nowhere.                                              *)
ParkWithoutThread(c) ==
  /\ call[c].st = "parking" /\ manager.st # "gone" /\ Len(park) < SharedSlots
  /\ park' = Append(park, c)
  /\ GiveBack(c) /\ End(c, Bare("refused"))
  /\ UNCHANGED <<journalVars, wake, expired, manager, closed, cancelled, cursors>>

ReaderStep(c) ==
  \/ LoadNext(c)
  \/ ResolveStart(c)
  \/ ReadAtOnce(c)
  \/ Reserve(c)
  \/ ParkRefused(c)
  \/ Park(c)
  \/ ParkWithoutThread(c)

(* --- the waiter manager ----------------------------------------------------- *)

Selected(waiters) == manager' = [st |-> "sweep", waiters |-> waiters]

ReceiveTick ==
  /\ manager.st = "select" /\ tick
  /\ tick' = FALSE
  /\ Selected(manager.waiters)
  /\ UNCHANGED <<journal, signal, recording, call, answer, wake, expired, own, shared, park,
                 closed, cancelled, cursors>>

ReceiveWaiter ==
  /\ manager.st = "select" /\ park # << >>
  /\ park' = Tail(park)
  /\ Selected(manager.waiters \cup {Head(park)})
  /\ UNCHANGED <<journalVars, call, answer, wake, expired, own, shared, closed, cancelled,
                 cursors>>

(* Nothing arrived within the poll interval or before the next deadline. *)
Poll ==
  /\ manager.st = "select" /\ ~tick /\ park = << >>
  /\ Selected(manager.waiters)
  /\ UNCHANGED <<journalVars, call, answer, wake, expired, own, shared, park, closed,
                 cancelled, cursors>>

(* Faulty variant: a waiter is woken only by the second event past its position. *)
ReasonLate(c) ==
  IF ConnOf[c] \in closed THEN "Disconnected"
  ELSE IF signal.next > call[c].at + 1 THEN "Woken"
  ELSE IF c \in expired THEN "TimedOut"
  ELSE "none"

Reason(c) ==
  IF ConnOf[c] \in closed THEN "Disconnected"
  ELSE IF signal.next > call[c].at THEN "Woken"
  ELSE IF c \in expired THEN "TimedOut"
  ELSE "none"

Queued == {park[i] : i \in 1 .. Len(park)}

(* A send to a thread that never started goes nowhere. *)
Woken(reasons) ==
  [c \in Calls |-> IF c \in DOMAIN reasons /\ call[c].st = "parked" THEN reasons[c] ELSE wake[c]]

(* One pass over the waiters: each leaves with its reason or stays. *)
Sweep ==
  LET leaving == {c \in manager.waiters : Reason(c) # "none"} IN
  /\ manager.st = "sweep" /\ ~cancelled
  /\ wake' = Woken([c \in leaving |-> Reason(c)])
  /\ manager' = [st |-> "select", waiters |-> manager.waiters \ leaving]
  /\ UNCHANGED <<journalVars, call, answer, expired, own, shared, park, closed, cancelled,
                 cursors>>

(* Faulty variant: only the waiters already taken in are woken. *)
ShutdownOfTheKnown ==
  /\ manager.st = "sweep" /\ cancelled
  /\ wake' = Woken([c \in manager.waiters |-> "Shutdown"])
  /\ manager' = [st |-> "gone", waiters |-> {}]
  /\ park' = << >>
  /\ UNCHANGED <<journalVars, call, answer, expired, own, shared, closed, cancelled, cursors>>

(* The pass that finds access turned off wakes every waiter and ends the    *)
(* thread; the waiters still in the channel lose their wake channel with    *)
(* it, which their threads read as the same reason.                         *)
Shutdown ==
  LET ended == manager.waiters \cup Queued IN
  /\ manager.st = "sweep" /\ cancelled
  /\ wake' = Woken([c \in ended |-> "Shutdown"])
  /\ manager' = [st |-> "gone", waiters |-> {}]
  /\ park' = << >>
  /\ UNCHANGED <<journalVars, call, answer, expired, own, shared, closed, cancelled, cursors>>

ManagerStep == ReceiveTick \/ ReceiveWaiter \/ Poll \/ Sweep \/ Shutdown

(* --- the thread of one parked wait --------------------------------------------- *)

(* Its slots come back first, whatever woke it. *)
Wake(c) ==
  /\ call[c].st = "parked" /\ wake[c] # "none"
  /\ GiveBack(c)
  /\ wake' = [wake EXCEPT ![c] = "none"]
  /\ expired' = expired \ {c}
  /\ IF ConnOf[c] \in closed \/ wake[c] = "Disconnected" THEN End(c, Bare("unheard"))
     ELSE IF wake[c] = "Shutdown" THEN End(c, Bare("refused"))
     ELSE /\ call' = [call EXCEPT ![c] = [@ EXCEPT !.st = "reading", !.timedOut = (wake[c] = "TimedOut")]]
          /\ UNCHANGED answer
  /\ UNCHANGED <<journalVars, park, manager, closed, cancelled, cursors>>

(* --- the read that ends a call ---------------------------------------------------- *)

(* A wait reads on from the position it resolved. *)
ReadFrom(c) == IF call[c].kind = "wait" THEN Cursor(call[c].at) ELSE call[c].start

(* The application thread runs the read between two of its own steps. *)
Read(c) ==
  /\ call[c].st = "reading" /\ recording = "idle"
  /\ IF Valid(ReadFrom(c), journal)
     THEN \E upTo \in Ends(Position(ReadFrom(c), journal)) :
            /\ End(c, Page(ReadFrom(c), upTo, call[c].timedOut, call[c].gap))
            /\ cursors' = [cursors EXCEPT ![ConnOf[c]] = upTo]
     ELSE End(c, Bare("invalid")) /\ UNCHANGED cursors
  /\ UNCHANGED <<journalVars, wake, expired, own, shared, park, manager, closed, cancelled>>

(* Slots or queue full, deadline passed, authority revoked, access off. *)
RefuseRead(c) ==
  /\ call[c].st = "reading"
  /\ End(c, Bare("refused"))
  /\ UNCHANGED <<journalVars, wake, expired, own, shared, park, manager, closed, cancelled,
                 cursors>>

(* Whichever thread has the call: its reader, its own, a response worker. *)
CallStep(c) == ReaderStep(c) \/ Wake(c) \/ Read(c) \/ RefuseRead(c)

(* --- what the rest of the world does ------------------------------------------------ *)

Expire(c) ==
  /\ call[c].st = "parked" /\ c \notin expired
  /\ expired' = expired \cup {c}
  /\ UNCHANGED <<journalVars, call, answer, wake, own, shared, park, manager, closed,
                 cancelled, cursors>>

(* The reader leaves its loop and marks the connection closed. *)
Close(k) ==
  /\ k \notin closed /\ ReaderFree(k)
  /\ closed' = closed \cup {k}
  /\ UNCHANGED <<journalVars, call, answer, wake, expired, own, shared, park, manager,
                 cancelled, cursors>>

TurnOff ==
  /\ ~cancelled
  /\ cancelled' = TRUE
  /\ UNCHANGED <<journalVars, call, answer, wake, expired, own, shared, park, manager, closed,
                 cursors>>

(* The manager of an earlier grant, not yet ended, listens to the same tick. *)
TickElsewhere ==
  /\ tick /\ tick' = FALSE
  /\ UNCHANGED <<journal, signal, recording, waitVars>>

RecordStep == Record /\ UNCHANGED waitVars

WaitNext ==
  \/ RecordStep
  \/ ManagerStep
  \/ \E c \in Calls : \E start \in Starts(ConnOf[c]) : SendRead(c, start) \/ SendWait(c, start)
  \/ \E c \in Calls : CallStep(c) \/ Expire(c)
  \/ \E k \in Conns : Close(k)
  \/ TurnOff
  \/ TickElsewhere

WaitSpec == WaitInit /\ [][WaitNext]_allVars

(* The gateway's own threads are scheduled, and a read queued to the        *)
(* application is answered or given up by its response worker; neither the  *)
(* application thread nor a client owes anything, and no timeout need ever  *)
(* elapse.                                                                  *)
WaitFairness == WF_allVars(ManagerStep) /\ \A c \in Calls : WF_allVars(CallStep(c))

FairWaitSpec == WaitSpec /\ WaitFairness

(* --- properties ------------------------------------------------------------------------ *)

Windows == [oldest : Nat \ {0}, next : Nat \ {0}]
StartRecords == [kind : {"cursor", "oldest", "latest"}, at : Nat]
CallRecords ==
  [st : {"new", "loading", "loaded", "reserving", "parking", "parked", "reading", "done"},
   kind : {"none", "read", "wait"}, start : StartRecords,
   next : Nat, at : Nat, gap : Nat, timedOut : BOOLEAN]
Answers ==
  [what : {"none", "page", "refused", "invalid", "unheard"},
   from : Nat, upTo : Nat, gap : Nat, timedOut : BOOLEAN]
WakeReasons == {"none", "Disconnected", "Woken", "TimedOut", "Shutdown"}
Managers == [st : {"select", "sweep", "gone"}, waiters : SUBSET Calls]

(* Every variable keeps its shape, and the parked slots stay within their   *)
(* two limits.                                                              *)
WaitTypeOK ==
  /\ journal \in Windows /\ signal \in Windows
  /\ tick \in BOOLEAN /\ recording \in {"idle", "pushed", "oldest", "next"}
  /\ call \in [Calls -> CallRecords] /\ answer \in [Calls -> Answers]
  /\ wake \in [Calls -> WakeReasons] /\ expired \subseteq Calls
  /\ own \in [Conns -> 0 .. OwnSlots] /\ shared \in 0 .. SharedSlots
  /\ park \in Seq(Calls) /\ Len(park) <= SharedSlots
  /\ manager \in Managers
  /\ closed \subseteq Conns /\ cancelled \in BOOLEAN
  /\ cursors \in [Conns -> Nat]

(* The parked slots are exactly those of the waits that park or are parked: *)
(* none is lost on a refusal, a wake, a closed connection or a thread that  *)
(* could not start, and none is given back twice.                           *)
Holding(calls) == {c \in calls : call[c].st \in {"parking", "parked"}}
ParkedSlotsAreAccounted ==
  /\ \A k \in Conns : own[k] = Cardinality(Holding({c \in Calls : ConnOf[c] = k}))
  /\ shared = Cardinality(Holding(Calls))

(* A parked wait is in the manager's hands until it has a reason to wake,   *)
(* and is still there to be woken: whatever order tick, waiter, event,      *)
(* closing and shutdown come in, none is forgotten.                         *)
NoWaitIsForgotten ==
  \A c \in Calls :
    call[c].st = "parked" /\ wake[c] = "none"
      => c \in manager.waiters \cup Queued

(* A page starts where the client stood, or says from where it had to: over *)
(* a resolution against published bounds, a wait and a later read, while    *)
(* the journal records and evicts, no event is skipped without a gap, and   *)
(* no gap is told that is not one.                                          *)
Stood(c) == IF call[c].kind = "wait" /\ call[c].start.kind # "cursor" THEN call[c].at
            ELSE call[c].start.at
NoSilentGap ==
  \A c \in Calls :
    answer[c].what = "page" =>
      /\ answer[c].from <= answer[c].upTo /\ answer[c].upTo <= journal.next
      /\ answer[c].from >= Stood(c)
      /\ answer[c].gap # 0 => answer[c].gap = answer[c].from /\ answer[c].gap <= journal.oldest
      /\ answer[c].gap # 0 => answer[c].gap > Stood(c)
      /\ Stood(c) > 0 /\ answer[c].from > Stood(c) => answer[c].gap # 0

(* No call is refused for its position: the two loads of the published      *)
(* bounds always make a window, and a cursor of a page that was sent is     *)
(* never ahead of the position the gateway reads, though that is stored     *)
(* after the event is in the journal.                                       *)
OwnCursorsAreGood == \A c \in Calls : answer[c].what # "invalid"

(* A wait is answered with a page that timed out exactly where it has no    *)
(* event: an event that lands between the timeout and the read is a change, *)
(* and a wait that was woken finds what woke it, evicted since or not.      *)
HonestTimeout ==
  \A c \in Calls :
    answer[c].what = "page" /\ call[c].kind = "wait"
      => (answer[c].timedOut <=> answer[c].upTo = answer[c].from)

(* A call that is not waiting for anything any more ends: the journal has   *)
(* passed it, its timeout elapsed, its connection closed or access was      *)
(* turned off.  A tick taken by the manager of another grant, a lost race   *)
(* with the parking and an application thread that stalls change nothing.   *)
Owed(c) ==
  /\ call[c].st \notin {"new", "done"}
  /\ call[c].st = "parked" =>
       signal.next > call[c].at \/ c \in expired \/ ConnOf[c] \in closed \/ cancelled
OwedWaitsEnd == \A c \in Calls : Owed(c) ~> ~Owed(c)

=============================================================================
