---------------------------- MODULE EventJournal ----------------------------
(* The semantic event journal (control-host/src/journal.rs): a bounded ring *)
(* of numbered events that the application thread writes, and the position  *)
(* it publishes for the gateway's threads to read without a lock.           *)
(*                                                                          *)
(* Events carry consecutive numbers, so what is retained is the interval    *)
(* oldest .. next - 1.  Sizes are left out: the byte budgets are the choice *)
(* of how much is evicted and of how much a page holds, within what the     *)
(* code promises whatever the sizes are.  Numbers start at 1; 0 stands for  *)
(* a position or a gap that is absent.                                      *)
EXTENDS Integers

CONSTANTS Capacity,     \* CONTROL_EVENT_JOURNAL_CAPACITY
          PageLimit,    \* the largest page a client may ask for
          MaxEvents     \* bound on the events a run of the model records

ASSUME JournalAssumption ==
  Capacity \in Nat \ {0} /\ PageLimit \in Nat \ {0} /\ MaxEvents \in Nat

VARIABLES
  journal,    \* [oldest, next]: the retained window
  signal,     \* [oldest, next]: JournalSignal, as the other threads see it
  tick,       \* the tick channel of one place holds a tick
  recording   \* where the application thread stands in record

journalVars == <<journal, signal, tick, recording>>

Larger(a, b)  == IF a > b THEN a ELSE b
Smaller(a, b) == IF a < b THEN a ELSE b

JournalInit ==
  /\ journal = [oldest |-> 1, next |-> 1]
  /\ signal = [oldest |-> 1, next |-> 1]
  /\ tick = FALSE
  /\ recording = "idle"

(* --- record, on the application thread -------------------------------- *)

(* Push the event and evict down to the bounds; the newest always stays.    *)
Push ==
  /\ recording = "idle" /\ journal.next <= MaxEvents
  /\ \E oldest \in journal.oldest .. journal.next :
       /\ journal.next + 1 - oldest <= Capacity
       /\ journal' = [oldest |-> oldest, next |-> journal.next + 1]
  /\ recording' = "pushed"
  /\ UNCHANGED <<signal, tick>>

PublishOldest ==
  /\ recording = "pushed"
  /\ signal' = [signal EXCEPT !.oldest = journal.oldest]
  /\ recording' = "oldest"
  /\ UNCHANGED <<journal, tick>>

PublishNext ==
  /\ recording = "oldest"
  /\ signal' = [signal EXCEPT !.next = journal.next]
  /\ recording' = "next"
  /\ UNCHANGED <<journal, tick>>

(* A tick already pending is enough: it only means "look again". *)
Tick ==
  /\ recording = "next"
  /\ tick' = TRUE
  /\ recording' = "idle"
  /\ UNCHANGED <<journal, signal>>

Record == Push \/ PublishOldest \/ PublishNext \/ Tick

(* --- resolving a position --------------------------------------------- *)

(* A start is a cursor of an earlier page, or the oldest or latest event.   *)
Cursor(n) == [kind |-> "cursor", at |-> n]
Oldest == [kind |-> "oldest", at |-> 0]
Latest == [kind |-> "latest", at |-> 0]

Requested(start, bounds) ==
  IF start = Oldest THEN bounds.oldest ELSE IF start = Latest THEN bounds.next ELSE start.at

(* resolve_event_read: a cursor past the journal is refused, and what the   *)
(* journal no longer holds is skipped and the gap told.                     *)
Valid(start, bounds) ==
  bounds.oldest <= bounds.next /\ Requested(start, bounds) <= bounds.next

Position(start, bounds) == Larger(Requested(start, bounds), bounds.oldest)
Gap(start, bounds) == IF Requested(start, bounds) < bounds.oldest THEN bounds.oldest ELSE 0

(* Faulty variant: the oldest number is taken as loaded. *)
BoundsAsLoaded(next) == [oldest |-> signal.oldest, next |-> next]

(* JournalSignal::bounds: next was loaded first, oldest is loaded now. *)
Bounds(next) == [oldest |-> Smaller(signal.oldest, next), next |-> next]

(* --- one page, on the application thread --------------------------------- *)

(* What a call is answered with. *)
Bare(what) == [what |-> what, from |-> 0, upTo |-> 0, gap |-> 0, timedOut |-> FALSE]

(* Faulty variant: the gap found while resolving the wait is forgotten. *)
CompleteForgetful(page, gap) == [page EXCEPT !.timedOut = @ /\ page.upTo = page.from]

(* Faulty variant: a wait that timed out stays a timeout. *)
CompleteTimedOut(page, gap) == [page EXCEPT !.gap = IF @ = 0 THEN gap ELSE @]

(* complete_wait_page: the gap the gateway saw is kept, and a page with an  *)
(* event in it is no timeout.                                               *)
Complete(page, gap) ==
  [page EXCEPT !.gap = IF @ = 0 THEN gap ELSE @,
               !.timedOut = @ /\ page.upTo = page.from]

(* Where a page from `at` may end: past at least one event where there is   *)
(* one, and never past the asked number of them.                            *)
Ends(at) ==
  {upTo \in at .. Smaller(journal.next, at + PageLimit) : upTo > at \/ at >= journal.next}

Page(start, upTo, timedOut, gap) ==
  Complete([what |-> "page", from |-> Position(start, journal), upTo |-> upTo,
            gap |-> Gap(start, journal), timedOut |-> timedOut], gap)

=============================================================================
