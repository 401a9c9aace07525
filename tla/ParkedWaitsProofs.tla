-------------------------- MODULE ParkedWaitsProofs --------------------------
(***************************************************************************)
(* What events.wait guarantees for any number of calls, connections and    *)
(* events, any capacity of the journal and any limits on parked waits.     *)
(*                                                                         *)
(* Slots: a call holds one from its reservation until its thread wakes or  *)
(* is refused, so the counters are the cardinalities of the calls that     *)
(* hold one, and never leave their bounds.  Waits: a parked call is in the *)
(* channel, then with the manager, until it has a reason to wake.  Pages:  *)
(* what events.read and events.wait return is in order and tells its gaps. *)
(***************************************************************************)
EXTENDS ParkedWaits, FiniteSetTheorems, TLAPS

-----------------------------------------------------------------------------
(* Slots.                                                                  *)

SlotsInv == WaitTypeOK /\ ParkedSlotsAreAccounted

(* The calls that hold a slot are finitely many. *)
LEMMA HoldingFinite ==
  ASSUME NEW S \in SUBSET Calls
  PROVE  IsFiniteSet(Holding(S)) /\ Cardinality(Holding(S)) \in Nat
<1>1. Holding(S) \subseteq Calls
  BY DEF Holding
<1> QED
  BY <1>1, WaitAssumption, FS_Subset, FS_CardinalityType

(* A call that starts to hold a slot adds one to every set it is in. *)
LEMMA HoldsOneMore ==
  ASSUME NEW S \in SUBSET Calls, NEW c \in Calls, WaitTypeOK,
         \A d \in Calls \ {c} : call'[d].st = call[d].st,
         call[c].st \notin {"parking", "parked"}, call'[c].st \in {"parking", "parked"}
  PROVE  Cardinality(Holding(S))' = Cardinality(Holding(S)) + (IF c \in S THEN 1 ELSE 0)
<1>1. CASE c \in S
  <2>1. Holding(S)' = Holding(S) \cup {c} /\ c \notin Holding(S)
    BY <1>1 DEF Holding
  <2> QED
    BY <2>1, <1>1, HoldingFinite, FS_AddElement
<1>2. CASE c \notin S
  <2>1. Holding(S)' = Holding(S)
    BY <1>2 DEF Holding
  <2> QED
    BY <2>1, <1>2, HoldingFinite
<1> QED
  BY <1>1, <1>2

(* A call that gives its slot back takes one from every set it is in, and *)
(* there was one to take.                                                 *)
LEMMA HoldsOneLess ==
  ASSUME NEW S \in SUBSET Calls, NEW c \in Calls, WaitTypeOK,
         \A d \in Calls \ {c} : call'[d].st = call[d].st,
         call[c].st \in {"parking", "parked"}, call'[c].st \notin {"parking", "parked"}
  PROVE  /\ Cardinality(Holding(S))' = Cardinality(Holding(S)) - (IF c \in S THEN 1 ELSE 0)
         /\ c \in S => Cardinality(Holding(S)) > 0
<1>1. CASE c \in S
  <2>1. Holding(S)' = Holding(S) \ {c} /\ c \in Holding(S)
    BY <1>1 DEF Holding
  <2>2. Holding(S) # {}
    BY <2>1
  <2> QED
    BY <2>1, <2>2, <1>1, HoldingFinite, FS_RemoveElement, FS_EmptySet
<1>2. CASE c \notin S
  <2>1. Holding(S)' = Holding(S)
    BY <1>2 DEF Holding
  <2> QED
    BY <2>1, <1>2, HoldingFinite
<1> QED
  BY <1>1, <1>2

(* A step in which no call starts or stops holding leaves the sums alone. *)
LEMMA HoldsTheSame ==
  ASSUME ParkedSlotsAreAccounted, UNCHANGED <<own, shared>>,
         \A d \in Calls : (call'[d].st \in {"parking", "parked"})
                            <=> (call[d].st \in {"parking", "parked"})
  PROVE  ParkedSlotsAreAccounted'
<1>1. \A S \in SUBSET Calls : Holding(S)' = Holding(S)
  BY DEF Holding
<1> QED
  BY <1>1 DEF ParkedSlotsAreAccounted

(* The application thread only moves the journal and what it publishes. *)
LEMMA RecordTypes == WaitTypeOK /\ RecordStep => WaitTypeOK'
<1> SUFFICES ASSUME WaitTypeOK, RecordStep PROVE WaitTypeOK'
  OBVIOUS
<1> USE DEF WaitTypeOK, RecordStep, waitVars
<1>1. CASE Push
  <2>1. journal' \in Windows
    BY <1>1 DEF Push, Windows
  <2> QED
    BY <1>1, <2>1 DEF Push
<1>2. CASE PublishOldest
  BY <1>2 DEF PublishOldest, Windows
<1>3. CASE PublishNext
  BY <1>3 DEF PublishNext, Windows
<1>4. CASE Tick
  BY <1>4 DEF Tick
<1> QED
  BY <1>1, <1>2, <1>3, <1>4 DEF Record

(* Waking keeps the wake channels' type. *)
LEMMA WokenType ==
  ASSUME WaitTypeOK, NEW S \in SUBSET Calls, NEW reasons \in [S -> WakeReasons]
  PROVE  Woken(reasons) \in [Calls -> WakeReasons]
BY DEF WaitTypeOK, Woken

(* The waiter manager moves waiters and sends them their reasons. *)
LEMMA ManagerTypes == WaitTypeOK /\ ManagerStep => WaitTypeOK'
<1> SUFFICES ASSUME WaitTypeOK, ManagerStep PROVE WaitTypeOK'
  OBVIOUS
<1>0. manager.waiters \in SUBSET Calls /\ Queued \in SUBSET Calls
  BY DEF WaitTypeOK, Managers, Queued
<1>1. CASE ReceiveTick
  <2>1. manager' \in Managers
    BY <1>0, <1>1 DEF ReceiveTick, Selected, Managers
  <2> QED
    BY <1>1, <2>1 DEF ReceiveTick, WaitTypeOK
<1>2. CASE ReceiveWaiter
  <2>1. park' \in Seq(Calls) /\ Len(park') <= SharedSlots /\ Head(park) \in Calls
    BY <1>2, WaitAssumption DEF ReceiveWaiter, WaitTypeOK
  <2>2. manager' \in Managers
    BY <1>0, <1>2, <2>1 DEF ReceiveWaiter, Selected, Managers
  <2> QED
    BY <1>2, <2>1, <2>2 DEF ReceiveWaiter, WaitTypeOK, journalVars
<1>3. CASE Poll
  <2>1. manager' \in Managers
    BY <1>0, <1>3 DEF Poll, Selected, Managers
  <2> QED
    BY <1>3, <2>1 DEF Poll, WaitTypeOK, journalVars
<1>4. CASE Sweep
  <2> DEFINE leaving == {c \in manager.waiters : Reason(c) # "none"}
  <2>1. [c \in leaving |-> Reason(c)] \in [leaving -> WakeReasons]
    BY DEF Reason, WakeReasons
  <2>2. wake' \in [Calls -> WakeReasons]
    BY <1>0, <1>4, <2>1, WokenType DEF Sweep
  <2>3. manager' \in Managers
    BY <1>0, <1>4 DEF Sweep, Managers
  <2> QED
    BY <1>4, <2>2, <2>3 DEF Sweep, WaitTypeOK, journalVars
<1>5. CASE Shutdown
  <2> DEFINE ended == manager.waiters \cup Queued
  <2>1. [c \in ended |-> "Shutdown"] \in [ended -> WakeReasons]
    BY DEF WakeReasons
  <2>2. wake' \in [Calls -> WakeReasons]
    BY <1>0, <1>5, <2>1, WokenType DEF Shutdown
  <2>3. manager' \in Managers
    BY <1>5 DEF Shutdown, Managers
  <2>4. park' \in Seq(Calls) /\ Len(park') <= SharedSlots
    BY <1>5, WaitAssumption DEF Shutdown
  <2> QED
    BY <1>5, <2>2, <2>3, <2>4 DEF Shutdown, WaitTypeOK, journalVars
<1> QED
  BY <1>1, <1>2, <1>3, <1>4, <1>5 DEF ManagerStep

(* A call that moves on, or ends with an answer, keeps its type. *)
LEMMA MoveTypes ==
  ASSUME WaitTypeOK, NEW c \in Calls,
         NEW st \in {"reserving", "parking", "parked", "reading", "done"}, Move(c, st)
  PROVE  call' \in [Calls -> CallRecords]
BY DEF WaitTypeOK, Move, CallRecords

(* An ending call keeps its type and its answer has one. *)
LEMMA EndTypes ==
  ASSUME WaitTypeOK, NEW c \in Calls, NEW what \in Answers, End(c, what)
  PROVE  call' \in [Calls -> CallRecords] /\ answer' \in [Calls -> Answers]
BY MoveTypes DEF WaitTypeOK, End

(* The answers other than a page. *)
LEMMA BareTypes ==
  ASSUME NEW what \in {"none", "refused", "invalid", "unheard"}
  PROVE  Bare(what) \in Answers
BY DEF Bare, Answers

(* The fields a call is given when it is sent and while it is resolved. *)
LEMMA StartTypes ==
  ASSUME WaitTypeOK, NEW k \in Conns, NEW start \in Starts(k)
  PROVE  start \in StartRecords
BY DEF WaitTypeOK, Starts, Oldest, Latest, Cursor, StartRecords

(* A resolved position and its gap are numbers. *)
LEMMA PositionTypes ==
  ASSUME NEW start \in StartRecords, NEW bounds \in [oldest : Nat, next : Nat]
  PROVE  Position(start, bounds) \in Nat /\ Gap(start, bounds) \in Nat
BY DEF Position, Gap, Requested, Larger, StartRecords

(* A page has its type wherever it starts and ends. *)
LEMMA PageTypes ==
  ASSUME WaitTypeOK, NEW start \in StartRecords, NEW upTo \in Ends(Position(start, journal)),
         NEW timedOut \in BOOLEAN, NEW gap \in Nat
  PROVE  Page(start, upTo, timedOut, gap) \in Answers /\ upTo \in Nat
<1>1. Position(start, journal) \in Nat /\ Gap(start, journal) \in Nat
  <2>1. journal \in [oldest : Nat, next : Nat]
    BY DEF WaitTypeOK, Windows
  <2> QED
    BY <2>1, PositionTypes
<1>2. upTo \in Nat
  BY <1>1 DEF Ends
<1> QED
  BY <1>1, <1>2 DEF Page, Complete, Answers

(* A call that neither takes nor gives back a slot keeps every type. *)
LEMMA SlotlessTypes ==
  ASSUME WaitTypeOK, NEW c \in Calls,
         \/ \E start \in Starts(ConnOf[c]) : SendRead(c, start) \/ SendWait(c, start)
         \/ LoadNext(c) \/ ResolveStart(c) \/ ReadAtOnce(c) \/ Park(c)
         \/ Read(c) \/ RefuseRead(c) \/ Expire(c)
  PROVE  WaitTypeOK'
<1> USE WaitAssumption DEF journalVars
<1>0. call[c] \in CallRecords /\ ConnOf[c] \in Conns
  BY DEF WaitTypeOK
<1>1. ASSUME NEW start \in Starts(ConnOf[c]), SendRead(c, start) \/ SendWait(c, start)
      PROVE  WaitTypeOK'
  <2>1. start \in StartRecords
    BY <1>0, StartTypes
  <2>2. PICK st \in {"reading", "loading"}, kind \in {"read", "wait"} :
          call' = [call EXCEPT ![c] = [@ EXCEPT !.st = st, !.kind = kind, !.start = start]]
    BY <1>1 DEF SendRead, SendWait
  <2>3. [call[c] EXCEPT !.st = st, !.kind = kind, !.start = start] \in CallRecords
    BY <1>0, <2>1 DEF CallRecords
  <2>4. call' \in [Calls -> CallRecords]
    BY <2>2, <2>3 DEF WaitTypeOK
  <2> QED
    BY <1>1, <2>4 DEF SendRead, SendWait, WaitTypeOK
<1>2. CASE LoadNext(c)
  <2>1. signal.next \in Nat
    BY DEF WaitTypeOK, Windows
  <2>2. [call[c] EXCEPT !.st = "loaded", !.next = signal.next] \in CallRecords
    BY <1>0, <2>1 DEF CallRecords
  <2>3. call' \in [Calls -> CallRecords]
    BY <1>2, <2>2 DEF LoadNext, WaitTypeOK
  <2> QED
    BY <1>2, <2>3 DEF LoadNext, WaitTypeOK
<1>3. CASE ResolveStart(c)
  <2> DEFINE start == call[c].start
             bounds == Bounds(call[c].next)
             resolved == [call[c] EXCEPT !.st = "reserving", !.next = 0,
                            !.at = Position(start, bounds), !.gap = Gap(start, bounds)]
  <2>1. signal.oldest \in Nat /\ call[c].next \in Nat
    BY <1>0 DEF WaitTypeOK, Windows, CallRecords
  <2>2. start \in StartRecords /\ bounds \in [oldest : Nat, next : Nat]
    BY <1>0, <2>1 DEF CallRecords, Bounds, Smaller
  <2>3. Position(start, bounds) \in Nat /\ Gap(start, bounds) \in Nat
    BY <2>2, PositionTypes
  <2>4. resolved \in CallRecords
    <3> HIDE DEF start, bounds
    <3> QED
      BY <1>0, <2>3 DEF CallRecords
  <2>5. CASE Valid(start, bounds)
    <3>1. call' = [call EXCEPT ![c] = resolved] /\ answer' = answer
      BY <1>3, <2>5 DEF ResolveStart
    <3> HIDE DEF resolved
    <3>2. call' \in [Calls -> CallRecords]
      BY <2>4, <3>1 DEF WaitTypeOK
    <3> QED
      BY <1>3, <3>1, <3>2 DEF ResolveStart, WaitTypeOK
  <2>6. CASE ~Valid(start, bounds)
    <3>1. End(c, Bare("invalid"))
      BY <1>3, <2>6 DEF ResolveStart
    <3> QED
      BY <1>3, <3>1, BareTypes, EndTypes DEF ResolveStart, WaitTypeOK
  <2> QED
    BY <2>5, <2>6
<1>4. CASE ReadAtOnce(c)
  BY <1>4, MoveTypes DEF ReadAtOnce, WaitTypeOK
<1>5. CASE Park(c)
  <2>1. park' \in Seq(Calls) /\ Len(park') <= SharedSlots
    BY <1>5 DEF Park, WaitTypeOK
  <2> QED
    BY <1>5, <2>1, MoveTypes DEF Park, WaitTypeOK
<1>6. CASE Read(c)
  <2> DEFINE start == ReadFrom(c)
  <2>1. start \in StartRecords
    BY <1>0 DEF ReadFrom, Cursor, CallRecords, StartRecords
  <2>2. call[c].timedOut \in BOOLEAN /\ call[c].gap \in Nat
    BY <1>0 DEF CallRecords
  <2>3. CASE Valid(start, journal)
    <3>1. PICK upTo \in Ends(Position(start, journal)) :
            /\ End(c, Page(start, upTo, call[c].timedOut, call[c].gap))
            /\ cursors' = [cursors EXCEPT ![ConnOf[c]] = upTo]
      BY <1>6, <2>3 DEF Read
    <3>2. Page(start, upTo, call[c].timedOut, call[c].gap) \in Answers /\ upTo \in Nat
      BY <2>1, <2>2, PageTypes
    <3>3. call' \in [Calls -> CallRecords] /\ answer' \in [Calls -> Answers]
      BY <3>1, <3>2, EndTypes
    <3>4. cursors' \in [Conns -> Nat]
      BY <1>0, <3>1, <3>2 DEF WaitTypeOK
    <3> QED
      BY <1>6, <3>3, <3>4 DEF Read, WaitTypeOK
  <2>4. CASE ~Valid(start, journal)
    <3>1. End(c, Bare("invalid")) /\ cursors' = cursors
      BY <1>6, <2>4 DEF Read
    <3> QED
      BY <1>6, <3>1, BareTypes, EndTypes DEF Read, WaitTypeOK
  <2> QED
    BY <2>3, <2>4
<1>7. CASE RefuseRead(c)
  BY <1>7, BareTypes, EndTypes DEF RefuseRead, WaitTypeOK
<1>8. CASE Expire(c)
  BY <1>8 DEF Expire, WaitTypeOK
<1> QED
  BY <1>1, <1>2, <1>3, <1>4, <1>5, <1>6, <1>7, <1>8

(* Moving, ending and waking change one call only, and this is its state. *)
LEMMA MoveStates ==
  ASSUME WaitTypeOK, NEW c \in Calls, NEW st, Move(c, st)
  PROVE  call'[c].st = st /\ \A d \in Calls \ {c} : call'[d] = call[d]
<1>1. call[c] \in CallRecords
  BY DEF WaitTypeOK
<1>2. [call[c] EXCEPT !.st = st].st = st
  BY <1>1 DEF CallRecords
<1> QED
  BY <1>2 DEF WaitTypeOK, Move

(* A reservation takes one slot of each kind, and only where there is one. *)
LEMMA ReserveSlots ==
  ASSUME SlotsInv, NEW c \in Calls, Reserve(c)
  PROVE  SlotsInv'
<1> USE WaitAssumption DEF SlotsInv, journalVars
<1>0. ConnOf[c] \in Conns /\ \A k \in Conns : {d \in Calls : ConnOf[d] = k} \in SUBSET Calls
  OBVIOUS
<1>1. CASE own[ConnOf[c]] < OwnSlots /\ shared < SharedSlots
  <2>1. /\ own' = [own EXCEPT ![ConnOf[c]] = @ + 1]
        /\ shared' = shared + 1
        /\ Move(c, "parking")
        /\ answer' = answer
    BY <1>1 DEF Reserve
  <2>2. own' \in [Conns -> 0 .. OwnSlots] /\ shared' \in 0 .. SharedSlots
    BY <1>0, <1>1, <2>1 DEF WaitTypeOK
  <2>3. WaitTypeOK'
    BY <2>1, <2>2, MoveTypes DEF Reserve, WaitTypeOK
  <2>4. call'[c].st = "parking" /\ \A d \in Calls \ {c} : call'[d] = call[d]
    BY <2>1, MoveStates
  <2>5. \A S \in SUBSET Calls :
          Cardinality(Holding(S))' = Cardinality(Holding(S)) + (IF c \in S THEN 1 ELSE 0)
    BY <2>4, HoldsOneMore DEF Reserve
  <2>6. shared' = Cardinality(Holding(Calls))'
    BY <2>1, <2>5 DEF ParkedSlotsAreAccounted
  <2>7. ASSUME NEW k \in Conns
        PROVE  own'[k] = Cardinality(Holding({d \in Calls : ConnOf[d] = k}))'
    <3>1. own'[k] = own[k] + (IF ConnOf[c] = k THEN 1 ELSE 0)
      BY <1>0, <2>1 DEF WaitTypeOK
    <3> QED
      BY <1>0, <2>5, <3>1 DEF ParkedSlotsAreAccounted
  <2> QED
    BY <2>3, <2>6, <2>7 DEF ParkedSlotsAreAccounted
<1>2. CASE ~(own[ConnOf[c]] < OwnSlots /\ shared < SharedSlots)
  <2>1. End(c, Bare("refused")) /\ UNCHANGED <<own, shared>>
    BY <1>2 DEF Reserve
  <2>2. WaitTypeOK'
    BY <2>1, BareTypes, EndTypes DEF Reserve, WaitTypeOK
  <2>3. call'[c].st = "done" /\ \A d \in Calls \ {c} : call'[d] = call[d]
    BY <2>1, MoveStates DEF End
  <2> QED
    BY <2>1, <2>2, <2>3, HoldsTheSame DEF Reserve
<1> QED
  BY <1>1, <1>2

(* Giving a slot back finds one to give, of each kind. *)
LEMMA GiveBackSlots ==
  ASSUME SlotsInv, NEW c \in Calls, GiveBack(c), \A d \in Calls \ {c} : call'[d].st = call[d].st,
         call[c].st \in {"parking", "parked"}, call'[c].st \notin {"parking", "parked"}
  PROVE  /\ own' \in [Conns -> 0 .. OwnSlots] /\ shared' \in 0 .. SharedSlots
         /\ ParkedSlotsAreAccounted'
<1> USE WaitAssumption DEF SlotsInv
<1>1. ConnOf[c] \in Conns /\ \A k \in Conns : {d \in Calls : ConnOf[d] = k} \in SUBSET Calls
  OBVIOUS
<1>2. \A S \in SUBSET Calls :
        /\ Cardinality(Holding(S))' = Cardinality(Holding(S)) - (IF c \in S THEN 1 ELSE 0)
        /\ c \in S => Cardinality(Holding(S)) > 0
  BY HoldsOneLess
<1>3. shared' = shared - 1 /\ shared > 0 /\ shared' = Cardinality(Holding(Calls))'
  BY <1>2 DEF GiveBack, ParkedSlotsAreAccounted
<1>4. own[ConnOf[c]] > 0
  BY <1>1, <1>2 DEF ParkedSlotsAreAccounted
<1>5. ASSUME NEW k \in Conns
      PROVE  /\ own'[k] \in 0 .. OwnSlots
             /\ own'[k] = Cardinality(Holding({d \in Calls : ConnOf[d] = k}))'
  <2>1. own'[k] = own[k] - (IF ConnOf[c] = k THEN 1 ELSE 0)
    BY <1>1 DEF GiveBack, WaitTypeOK
  <2>2. own'[k] = Cardinality(Holding({d \in Calls : ConnOf[d] = k}))'
    BY <1>1, <1>2, <2>1 DEF ParkedSlotsAreAccounted
  <2>3. own'[k] \in 0 .. OwnSlots
    BY <1>4, <2>1 DEF WaitTypeOK
  <2> QED
    BY <2>2, <2>3
<1>6. own' \in [Conns -> 0 .. OwnSlots]
  BY <1>5 DEF GiveBack, WaitTypeOK
<1>7. shared' \in 0 .. SharedSlots
  BY <1>3 DEF WaitTypeOK
<1> QED
  BY <1>3, <1>5, <1>6, <1>7 DEF ParkedSlotsAreAccounted

(* A waiter the manager cannot take, or whose thread cannot start, is      *)
(* refused without its slots.                                              *)
LEMMA RefusedSlots ==
  ASSUME SlotsInv, NEW c \in Calls, ParkRefused(c) \/ ParkWithoutThread(c)
  PROVE  SlotsInv'
<1> USE WaitAssumption DEF journalVars
<1>1. call[c].st = "parking" /\ GiveBack(c) /\ End(c, Bare("refused"))
  BY DEF ParkRefused, ParkWithoutThread
<1>2. call'[c].st = "done" /\ \A d \in Calls \ {c} : call'[d] = call[d]
  BY <1>1, MoveStates DEF SlotsInv, End
<1>3. /\ own' \in [Conns -> 0 .. OwnSlots] /\ shared' \in 0 .. SharedSlots
      /\ ParkedSlotsAreAccounted'
  BY <1>1, <1>2, GiveBackSlots
<1>4. call' \in [Calls -> CallRecords] /\ answer' \in [Calls -> Answers]
  BY <1>1, BareTypes, EndTypes DEF SlotsInv
<1>5. park' \in Seq(Calls) /\ Len(park') <= SharedSlots
  <2>1. park \in Seq(Calls) /\ Len(park) <= SharedSlots
    BY DEF SlotsInv, WaitTypeOK
  <2>2. CASE ParkRefused(c)
    BY <2>1, <2>2 DEF ParkRefused
  <2>3. CASE ParkWithoutThread(c)
    BY <2>1, <2>3 DEF ParkWithoutThread
  <2> QED
    BY <2>2, <2>3
<1>6. WaitTypeOK'
  BY <1>3, <1>4, <1>5 DEF ParkRefused, ParkWithoutThread, SlotsInv, WaitTypeOK
<1> QED
  BY <1>3, <1>6 DEF SlotsInv

(* A woken wait gives its slots back before anything else is decided. *)
LEMMA WakeSlots ==
  ASSUME SlotsInv, NEW c \in Calls, Wake(c)
  PROVE  SlotsInv'
<1> USE WaitAssumption DEF journalVars
<1>0. call[c] \in CallRecords /\ WaitTypeOK
  BY DEF SlotsInv, WaitTypeOK
<1>1. /\ call'[c].st \in {"done", "reading"} /\ \A d \in Calls \ {c} : call'[d] = call[d]
      /\ call' \in [Calls -> CallRecords] /\ answer' \in [Calls -> Answers]
  <2>1. CASE End(c, Bare("unheard")) \/ End(c, Bare("refused"))
    BY <1>0, <2>1, BareTypes, EndTypes, MoveStates DEF End
  <2>2. ASSUME NEW timedOut \in BOOLEAN, answer' = answer,
               call' = [call EXCEPT ![c] = [@ EXCEPT !.st = "reading", !.timedOut = timedOut]]
        PROVE  /\ call'[c].st \in {"done", "reading"} /\ \A d \in Calls \ {c} : call'[d] = call[d]
               /\ call' \in [Calls -> CallRecords] /\ answer' \in [Calls -> Answers]
    <3>1. /\ [call[c] EXCEPT !.st = "reading", !.timedOut = timedOut] \in CallRecords
          /\ [call[c] EXCEPT !.st = "reading", !.timedOut = timedOut].st = "reading"
      BY <1>0 DEF CallRecords
    <3> QED
      BY <2>2, <3>1 DEF SlotsInv, WaitTypeOK
  <2> QED
    BY <2>1, <2>2 DEF Wake
<1>2. /\ own' \in [Conns -> 0 .. OwnSlots] /\ shared' \in 0 .. SharedSlots
      /\ ParkedSlotsAreAccounted'
  BY <1>1, GiveBackSlots DEF Wake
<1>3. wake' \in [Calls -> WakeReasons] /\ expired' \subseteq Calls
  BY <1>0 DEF Wake, WaitTypeOK, WakeReasons
<1>4. WaitTypeOK'
  BY <1>0, <1>1, <1>2, <1>3 DEF Wake, WaitTypeOK
<1> QED
  BY <1>2, <1>4 DEF SlotsInv

(* A call that neither takes nor gives back a slot goes on accounted for. *)
LEMMA SlotlessSlots ==
  ASSUME SlotsInv, NEW c \in Calls,
         \/ \E start \in Starts(ConnOf[c]) : SendRead(c, start) \/ SendWait(c, start)
         \/ LoadNext(c) \/ ResolveStart(c) \/ ReadAtOnce(c) \/ Park(c)
         \/ Read(c) \/ RefuseRead(c) \/ Expire(c)
  PROVE  SlotsInv'
<1>0. call \in [Calls -> CallRecords] /\ call[c] \in CallRecords /\ WaitTypeOK
  BY DEF SlotsInv, WaitTypeOK
<1>1. WaitTypeOK'
  BY <1>0, SlotlessTypes
<1>2. \A st \in {"reading", "done", "parked"} : Move(c, st) =>
        call'[c].st = st /\ \A d \in Calls \ {c} : call'[d] = call[d]
  BY <1>0, MoveStates
<1>3. ASSUME NEW r \in CallRecords, call' = [call EXCEPT ![c] = r],
             r.st \in {"parking", "parked"} <=> call[c].st \in {"parking", "parked"}
      PROVE  \A d \in Calls : call'[d].st \in {"parking", "parked"}
                                <=> call[d].st \in {"parking", "parked"}
  BY <1>0, <1>3
<1> DEFINE Kept == /\ UNCHANGED <<own, shared>>
                   /\ \A d \in Calls : call'[d].st \in {"parking", "parked"}
                                         <=> call[d].st \in {"parking", "parked"}
<1>4. Kept
  <2>1. ASSUME NEW start \in Starts(ConnOf[c]), SendRead(c, start) \/ SendWait(c, start)
        PROVE  Kept
    <3>1. PICK st \in {"reading", "loading"}, kind \in {"read", "wait"} :
            call' = [call EXCEPT ![c] = [@ EXCEPT !.st = st, !.kind = kind, !.start = start]]
      BY <2>1 DEF SendRead, SendWait
    <3>2. [call[c] EXCEPT !.st = st, !.kind = kind, !.start = start].st = st
      BY <1>0 DEF CallRecords
    <3>3. call'[c].st = st /\ \A d \in Calls \ {c} : call'[d] = call[d]
      BY <1>0, <3>1, <3>2
    <3> QED
      BY <2>1, <3>3 DEF SendRead, SendWait
  <2>2. CASE LoadNext(c)
    BY <1>0, <2>2 DEF LoadNext, CallRecords
  <2>3. CASE ResolveStart(c)
    <3>1. ASSUME NEW at, NEW gap,
                 call' = [call EXCEPT ![c] = [@ EXCEPT !.st = "reserving", !.next = 0,
                                                       !.at = at, !.gap = gap]]
          PROVE  call'[c].st = "reserving" /\ \A d \in Calls \ {c} : call'[d] = call[d]
      <4>1. [call[c] EXCEPT !.st = "reserving", !.next = 0, !.at = at, !.gap = gap].st
              = "reserving"
        BY <1>0 DEF CallRecords
      <4> QED
        BY <1>0, <3>1, <4>1
    <3>2. call'[c].st \in {"reserving", "done"} /\ \A d \in Calls \ {c} : call'[d] = call[d]
      <4> DEFINE start == call[c].start
                 bounds == Bounds(call[c].next)
      <4>1. CASE Valid(start, bounds)
        <5>1. call' = [call EXCEPT ![c] = [@ EXCEPT !.st = "reserving", !.next = 0,
                         !.at = Position(start, bounds), !.gap = Gap(start, bounds)]]
          BY <2>3, <4>1 DEF ResolveStart
        <5> HIDE DEF start, bounds
        <5> QED
          BY <3>1, <5>1
      <4>2. CASE ~Valid(start, bounds)
        BY <1>2, <2>3, <4>2 DEF ResolveStart, End
      <4> QED
        BY <4>1, <4>2
    <3> QED
      BY <2>3, <3>2 DEF ResolveStart
  <2>4. CASE ReadAtOnce(c)
    BY <1>2, <2>4 DEF ReadAtOnce
  <2>5. CASE Park(c)
    BY <1>2, <2>5 DEF Park
  <2>6. CASE Read(c)
    BY <1>2, <2>6 DEF Read, End
  <2>7. CASE RefuseRead(c)
    BY <1>2, <2>7 DEF RefuseRead, End
  <2>8. CASE Expire(c)
    BY <2>8 DEF Expire
  <2> QED
    BY <2>1, <2>2, <2>3, <2>4, <2>5, <2>6, <2>7, <2>8
<1> QED
  BY <1>1, <1>4, HoldsTheSame DEF SlotsInv

(* No step of any thread loses a slot or gives one back twice. *)
LEMMA SlotsStep == SlotsInv /\ [WaitNext]_allVars => SlotsInv'
<1> SUFFICES ASSUME SlotsInv, [WaitNext]_allVars PROVE SlotsInv'
  OBVIOUS
<1> USE DEF SlotsInv
<1>1. CASE RecordStep
  BY <1>1, RecordTypes, HoldsTheSame DEF RecordStep, waitVars
<1>2. CASE ManagerStep
  <2>1. UNCHANGED <<call, own, shared>>
    BY <1>2 DEF ManagerStep, ReceiveTick, ReceiveWaiter, Poll, Sweep, Shutdown
  <2> QED
    BY <1>2, <2>1, ManagerTypes, HoldsTheSame
<1>3. ASSUME NEW c \in Calls, NEW start \in Starts(ConnOf[c]),
             SendRead(c, start) \/ SendWait(c, start)
      PROVE  SlotsInv'
  BY <1>3, SlotlessSlots
<1>4. ASSUME NEW c \in Calls, CallStep(c) \/ Expire(c)
      PROVE  SlotsInv'
  BY <1>4, SlotlessSlots, ReserveSlots, RefusedSlots, WakeSlots DEF CallStep, ReaderStep
<1>5. ASSUME NEW k \in Conns, Close(k)
      PROVE  SlotsInv'
  BY <1>5, HoldsTheSame DEF Close, WaitTypeOK, journalVars
<1>6. CASE TurnOff
  BY <1>6, HoldsTheSame DEF TurnOff, WaitTypeOK, journalVars
<1>7. CASE TickElsewhere
  BY <1>7, HoldsTheSame DEF TickElsewhere, WaitTypeOK, waitVars
<1>8. CASE UNCHANGED allVars
  BY <1>8, HoldsTheSame DEF allVars, journalVars, waitVars, WaitTypeOK
<1> QED
  BY <1>1, <1>2, <1>3, <1>4, <1>5, <1>6, <1>7, <1>8 DEF WaitNext

(* At the start no call holds a slot. *)
LEMMA SlotsInit == WaitInit => SlotsInv
<1> SUFFICES ASSUME WaitInit PROVE SlotsInv
  OBVIOUS
<1> USE WaitAssumption DEF WaitInit
<1>1. \A S \in SUBSET Calls : Holding(S) = {}
  BY DEF Holding, NewCall
<1>2. ParkedSlotsAreAccounted
  BY <1>1, FS_EmptySet DEF ParkedSlotsAreAccounted
<1>3. journal \in Windows /\ signal \in Windows
  BY DEF JournalInit, Windows
<1>4. call \in [Calls -> CallRecords]
  BY DEF NewCall, CallRecords, StartRecords, Oldest
<1>5. answer \in [Calls -> Answers]
  BY DEF Bare, Answers
<1>6. wake \in [Calls -> WakeReasons] /\ manager \in Managers
  BY DEF WakeReasons, Managers
<1>7. park \in Seq(Calls) /\ Len(park) <= SharedSlots
  OBVIOUS
<1>8. own \in [Conns -> 0 .. OwnSlots] /\ shared \in 0 .. SharedSlots /\ cursors \in [Conns -> Nat]
  OBVIOUS
<1>9. tick \in BOOLEAN /\ recording \in {"idle", "pushed", "oldest", "next"}
  BY DEF JournalInit
<1>10. WaitTypeOK
  BY <1>3, <1>4, <1>5, <1>6, <1>7, <1>8, <1>9 DEF WaitTypeOK
<1> QED
  BY <1>2, <1>10 DEF SlotsInv

(* In every reachable state the parked slots of the gateway and of each     *)
(* connection are those of the waits that hold them, and never exceed their *)
(* limits (ConnectionSlots and the waiter counter of server.rs).            *)
THEOREM SlotsAlwaysInv == WaitSpec => []SlotsInv
BY SlotsInit, SlotsStep, PTL DEF WaitSpec

(* Every variable keeps its shape, the channel its bound and the parked     *)
(* slots of a connection and of the gateway their limits (server.rs).       *)
THEOREM WaitTypesAlwaysHold == WaitSpec => []WaitTypeOK
<1>1. SlotsInv => WaitTypeOK
  BY DEF SlotsInv
<1> QED
  BY <1>1, SlotsAlwaysInv, PTL

(* No slot is lost on a refusal, a wake, a closed connection or a thread    *)
(* that could not start, and none is given back twice.                      *)
THEOREM ParkedSlotsAlwaysAccounted == WaitSpec => []ParkedSlotsAreAccounted
<1>1. SlotsInv => ParkedSlotsAreAccounted
  BY DEF SlotsInv
<1> QED
  BY <1>1, SlotsAlwaysInv, PTL

-----------------------------------------------------------------------------
(* Waits.                                                                  *)

(* What sending to the channel and receiving from it do to its content. *)
LEMMA QueuedAppend ==
  ASSUME park \in Seq(Calls), NEW c \in Calls, park' = Append(park, c)
  PROVE  Queued' = Queued \cup {c}
<1>1. /\ Len(park') = Len(park) + 1 /\ Len(park) \in Nat
      /\ \A i \in 1 .. Len(park) : park'[i] = park[i]
      /\ park'[Len(park) + 1] = c
  OBVIOUS
<1>2. Queued' = {park'[i] : i \in 1 .. Len(park')}
  BY DEF Queued
<1>3. \A i \in 1 .. Len(park) + 1 : i \in 1 .. Len(park) \/ i = Len(park) + 1
  BY <1>1
<1> QED
  BY <1>1, <1>2, <1>3 DEF Queued

(* Receiving takes at most the head out of the channel. *)
LEMMA QueuedTail ==
  ASSUME park \in Seq(Calls), park # << >>, park' = Tail(park)
  PROVE  Queued = Queued' \cup {Head(park)}
<1>1. /\ Len(park') = Len(park) - 1 /\ Len(park) \in Nat \ {0}
      /\ \A i \in 1 .. Len(park') : park'[i] = park[i + 1]
      /\ Head(park) = park[1]
  OBVIOUS
<1>2. Queued' = {park'[i] : i \in 1 .. Len(park')}
  BY DEF Queued
<1>3. \A i \in 1 .. Len(park) : i = 1 \/ (i - 1 \in 1 .. Len(park') /\ (i - 1) + 1 = i)
  BY <1>1
<1>4. \A i \in 1 .. Len(park') : i + 1 \in 1 .. Len(park)
  BY <1>1
<1>5. ASSUME NEW d \in Queued PROVE d \in Queued' \cup {Head(park)}
  <2>1. PICK i \in 1 .. Len(park) : d = park[i]
    BY DEF Queued
  <2>2. CASE i = 1
    BY <1>1, <2>1, <2>2
  <2>3. CASE i - 1 \in 1 .. Len(park') /\ (i - 1) + 1 = i
    BY <1>1, <1>2, <2>1, <2>3
  <2> QED
    BY <1>3, <2>2, <2>3
<1>6. ASSUME NEW d \in Queued' \cup {Head(park)} PROVE d \in Queued
  <2>1. CASE d = Head(park)
    BY <1>1, <2>1 DEF Queued
  <2>2. CASE d \in Queued'
    <3>1. PICK i \in 1 .. Len(park') : d = park'[i]
      BY <1>2, <2>2
    <3> QED
      BY <1>1, <1>4, <3>1 DEF Queued
  <2> QED
    BY <1>6, <2>1, <2>2
<1> QED
  BY <1>5, <1>6

(* Where the steps that also set other fields of a call leave it. *)
LEMMA SlotlessState ==
  ASSUME WaitTypeOK, NEW c \in Calls, LoadNext(c) \/ ResolveStart(c) \/ Wake(c)
  PROVE  call'[c].st \in {"loaded", "reserving", "reading", "done"}
<1>0. call \in [Calls -> CallRecords] /\ call[c] \in CallRecords
  BY DEF WaitTypeOK
<1>1. \A what : End(c, what) => call'[c].st = "done"
  BY MoveStates DEF End
<1>2. CASE LoadNext(c)
  BY <1>0, <1>2 DEF LoadNext, CallRecords
<1>3. CASE ResolveStart(c)
  <2>1. \A at, gap : [call[c] EXCEPT !.st = "reserving", !.next = 0, !.at = at, !.gap = gap].st
                       = "reserving"
    BY <1>0 DEF CallRecords
  <2>2. \A at, gap :
          call' = [call EXCEPT ![c] = [@ EXCEPT !.st = "reserving", !.next = 0, !.at = at,
                                                !.gap = gap]]
            => call'[c].st = "reserving"
    BY <1>0, <2>1
  <2> QED
    BY <1>1, <1>3, <2>2 DEF ResolveStart
<1>4. CASE Wake(c)
  <2>1. \A timedOut : [call[c] EXCEPT !.st = "reading", !.timedOut = timedOut].st = "reading"
    BY <1>0 DEF CallRecords
  <2>2. \A timedOut :
          call' = [call EXCEPT ![c] = [@ EXCEPT !.st = "reading", !.timedOut = timedOut]]
            => call'[c].st = "reading"
    BY <1>0, <2>1
  <2> QED
    BY <1>1, <1>4, <2>2 DEF Wake
<1> QED
  BY <1>2, <1>3, <1>4

(* The steps of one call leave the other calls and their channels alone. *)
LEMMA OtherCalls ==
  ASSUME WaitTypeOK, NEW c \in Calls,
         \/ \E start \in Starts(ConnOf[c]) : SendRead(c, start) \/ SendWait(c, start)
         \/ CallStep(c) \/ Expire(c)
  PROVE  /\ \A d \in Calls \ {c} : call'[d] = call[d] /\ answer'[d] = answer[d]
                                     /\ wake'[d] = wake[d]
         /\ UNCHANGED <<journalVars, manager>>
<1>1. ASSUME NEW st, Move(c, st) PROVE \A d \in Calls \ {c} : call'[d] = call[d]
  BY <1>1, MoveStates
<1>2. ASSUME NEW what, End(c, what)
      PROVE  \A d \in Calls \ {c} : call'[d] = call[d] /\ answer'[d] = answer[d]
  BY <1>1, <1>2 DEF End, WaitTypeOK
<1> DEFINE Others == /\ \A d \in Calls \ {c} : call'[d] = call[d] /\ answer'[d] = answer[d]
                                                 /\ wake'[d] = wake[d]
                     /\ UNCHANGED <<journalVars, manager>>
<1>3. ASSUME NEW start \in Starts(ConnOf[c]), SendRead(c, start) \/ SendWait(c, start)
      PROVE  Others
  BY <1>3 DEF SendRead, SendWait, WaitTypeOK
<1>4. CASE LoadNext(c)
  BY <1>4 DEF LoadNext, WaitTypeOK
<1>5. CASE ResolveStart(c)
  <2>1. CASE \E r : call' = [call EXCEPT ![c] = r] /\ answer' = answer
    BY <1>5, <2>1 DEF ResolveStart, WaitTypeOK
  <2>2. CASE End(c, Bare("invalid"))
    BY <1>2, <1>5, <2>2 DEF ResolveStart
  <2> QED
    BY <1>5, <2>1, <2>2 DEF ResolveStart
<1>6. CASE ReadAtOnce(c)
  BY <1>1, <1>6 DEF ReadAtOnce
<1>7. CASE Reserve(c)
  BY <1>1, <1>2, <1>7 DEF Reserve
<1>8. CASE ParkRefused(c)
  BY <1>2, <1>8 DEF ParkRefused
<1>9. CASE Park(c)
  BY <1>1, <1>9 DEF Park
<1>10. CASE ParkWithoutThread(c)
  BY <1>2, <1>10 DEF ParkWithoutThread
<1>11. CASE Wake(c)
  <2>1. \A d \in Calls \ {c} : wake'[d] = wake[d]
    BY <1>11 DEF Wake, WaitTypeOK
  <2>2. \A d \in Calls \ {c} : call'[d] = call[d] /\ answer'[d] = answer[d]
    BY <1>2, <1>11 DEF Wake, WaitTypeOK
  <2> QED
    BY <1>11, <2>1, <2>2 DEF Wake
<1>12. CASE Read(c)
  BY <1>2, <1>12 DEF Read
<1>13. CASE RefuseRead(c)
  BY <1>2, <1>13 DEF RefuseRead
<1>14. CASE Expire(c)
  BY <1>14 DEF Expire
<1>15. ReaderStep(c) => Others
  BY <1>4, <1>5, <1>6, <1>7, <1>8, <1>9, <1>10 DEF ReaderStep
<1>16. CallStep(c) => Others
  BY <1>11, <1>12, <1>13, <1>15 DEF CallStep
<1>17. (\E start \in Starts(ConnOf[c]) : SendRead(c, start) \/ SendWait(c, start)) => Others
  BY <1>3
<1> QED
  BY <1>14, <1>16, <1>17

(* Whoever takes a parked wait out of the manager's hands gives it its      *)
(* reason in the same step.                                                 *)
LEMMA WaitsStep ==
  WaitTypeOK /\ NoWaitIsForgotten /\ [WaitNext]_allVars => NoWaitIsForgotten'
<1> SUFFICES ASSUME WaitTypeOK, NoWaitIsForgotten, [WaitNext]_allVars PROVE NoWaitIsForgotten'
  OBVIOUS
<1> USE DEF NoWaitIsForgotten
<1>0. manager.waiters \in SUBSET Calls /\ park \in Seq(Calls)
  BY DEF WaitTypeOK, Managers
<1>1. CASE UNCHANGED <<call, wake, park, manager>>
  BY <1>1 DEF Queued
<1>2. CASE ReceiveTick
  BY <1>2 DEF ReceiveTick, Selected, Queued
<1>3. CASE ReceiveWaiter
  <2>1. Queued = Queued' \cup {Head(park)}
    BY <1>0, <1>3, QueuedTail DEF ReceiveWaiter
  <2>2. manager'.waiters = manager.waiters \cup {Head(park)}
    BY <1>3 DEF ReceiveWaiter, Selected
  <2> QED
    BY <1>3, <2>1, <2>2 DEF ReceiveWaiter
<1>4. CASE Poll
  BY <1>4 DEF Poll, Selected, Queued
<1>5. CASE Sweep
  <2> DEFINE leaving == {c \in manager.waiters : Reason(c) # "none"}
             reasons == [c \in leaving |-> Reason(c)]
  <2>1. manager'.waiters = manager.waiters \ leaving /\ wake' = Woken(reasons)
    BY <1>5 DEF Sweep
  <2>2. ASSUME NEW c \in Calls, call[c].st = "parked", wake'[c] = "none"
        PROVE  wake[c] = "none" /\ c \notin leaving
    BY <2>1, <2>2 DEF Woken
  <2>3. Queued' = Queued /\ call' = call
    BY <1>5 DEF Sweep, Queued
  <2> QED
    BY <2>1, <2>2, <2>3
<1>6. CASE Shutdown
  <2> DEFINE ended == manager.waiters \cup Queued
             reasons == [c \in ended |-> "Shutdown"]
  <2>1. wake' = Woken(reasons) /\ call' = call
    BY <1>6 DEF Shutdown
  <2>2. ASSUME NEW c \in Calls, call[c].st = "parked", wake'[c] = "none"
        PROVE  wake[c] = "none" /\ c \notin ended
    BY <2>1, <2>2 DEF Woken
  <2> QED
    BY <2>1, <2>2
<1>7. ASSUME NEW c \in Calls,
             \/ \E start \in Starts(ConnOf[c]) : SendRead(c, start) \/ SendWait(c, start)
             \/ CallStep(c) \/ Expire(c)
      PROVE  NoWaitIsForgotten'
  <2>1. /\ \A d \in Calls \ {c} : call'[d] = call[d] /\ wake'[d] = wake[d]
        /\ manager' = manager
    BY <1>7, OtherCalls
  <2>2. CASE UNCHANGED <<call, wake, park>>
    BY <1>1, <2>1, <2>2
  <2>3. CASE call'[c].st # "parked" /\ Queued \subseteq Queued'
    BY <2>1, <2>3
  <2>4. CASE c \in Queued' /\ Queued \subseteq Queued'
    BY <2>1, <2>4
  <2>5. Queued' = Queued \/ Queued' = Queued \cup {c}
    <3>1. CASE UNCHANGED park
      BY <3>1 DEF Queued
    <3>2. CASE park' = Append(park, c)
      BY <1>0, <3>2, QueuedAppend
    <3> QED
      BY <1>7, <3>1, <3>2
         DEF SendRead, SendWait, CallStep, ReaderStep, LoadNext, ResolveStart, ReadAtOnce,
             Reserve, ParkRefused, Park, ParkWithoutThread, Wake, Read, RefuseRead, Expire
  <2>6. CASE Park(c)
    BY <1>0, <2>4, <2>6, QueuedAppend DEF Park
  <2>7. CASE Expire(c)
    BY <2>2, <2>7 DEF Expire
  <2>8. call[c] \in CallRecords
    BY DEF WaitTypeOK
  <2>9. \A st : Move(c, st) => call'[c].st = st
    BY MoveStates
  <2>10. CASE \E start \in Starts(ConnOf[c]) : SendRead(c, start) \/ SendWait(c, start)
    <3>1. PICK st \in {"reading", "loading"}, kind \in {"read", "wait"}, start \in Starts(ConnOf[c]) :
            call' = [call EXCEPT ![c] = [@ EXCEPT !.st = st, !.kind = kind, !.start = start]]
      BY <2>10 DEF SendRead, SendWait
    <3>2. [call[c] EXCEPT !.st = st, !.kind = kind, !.start = start].st = st
      BY <2>8 DEF CallRecords
    <3>3. call'[c].st = st
      BY <3>1, <3>2 DEF WaitTypeOK
    <3> QED
      BY <2>3, <2>5, <3>3
  <2>11. CASE LoadNext(c) \/ ResolveStart(c) \/ Wake(c)
    BY <2>3, <2>5, <2>11, SlotlessState
  <2>12. CASE ReadAtOnce(c) \/ Reserve(c) \/ ParkRefused(c) \/ ParkWithoutThread(c)
              \/ Read(c) \/ RefuseRead(c)
    <3>1. call'[c].st # "parked"
      BY <2>9, <2>12 DEF ReadAtOnce, Reserve, ParkRefused, ParkWithoutThread, Read, RefuseRead, End
    <3> QED
      BY <2>3, <2>5, <3>1
  <2> HIDE DEF NoWaitIsForgotten
  <2> QED
    BY <1>7, <2>6, <2>7, <2>10, <2>11, <2>12 DEF CallStep, ReaderStep
<1>8. CASE (\E k \in Conns : Close(k)) \/ TurnOff \/ TickElsewhere \/ RecordStep
           \/ UNCHANGED allVars
  BY <1>1, <1>8 DEF Close, TurnOff, TickElsewhere, RecordStep, waitVars, allVars
<1> HIDE DEF NoWaitIsForgotten
<1> QED
  BY <1>2, <1>3, <1>4, <1>5, <1>6, <1>7, <1>8 DEF WaitNext, ManagerStep

(* No parked wait is forgotten: whatever order ticks, waiters, events,      *)
(* closing connections and the shutdown come in, it is in the channel or    *)
(* with the manager until it has its reason (waiter_manager of server.rs).  *)
THEOREM NoWaitEverForgotten == WaitSpec => []NoWaitIsForgotten
<1>1. WaitInit => NoWaitIsForgotten
  BY DEF WaitInit, NewCall, NoWaitIsForgotten
<1> QED
  BY <1>1, WaitsStep, WaitTypesAlwaysHold, PTL DEF WaitSpec

-----------------------------------------------------------------------------
(* Pages.  The published position never runs ahead of the journal and       *)
(* equals it whenever a read runs; every position a call or a connection    *)
(* carries was published before; and all of them only grow.  So a read      *)
(* finds its position valid, and what lies between it and the first event   *)
(* of the page has been evicted and is told as a gap.                       *)

(* The inductive invariant.  A call is related to a published next number  *)
(* n and to the oldest retained number o, an answer to the journal's own.  *)

(* The journal keeps its newest event, and what is published of it is      *)
(* behind it except while nothing is being recorded.                       *)
JournalInv ==
  /\ journal.oldest <= journal.next
  /\ journal.next > 1 => journal.oldest < journal.next
  /\ signal.oldest <= journal.oldest /\ signal.next <= journal.next
  /\ recording \in {"idle", "next"} => signal = journal
  /\ recording = "oldest" => signal.oldest = journal.oldest

CursorsInv == \A k \in Conns : cursors[k] <= signal.next

Known(start, n) ==
  \/ start = Oldest
  \/ start = Latest
  \/ start.kind = "cursor" /\ 1 <= start.at /\ start.at <= n

(* The position a wait has resolved, and the gap it met there. *)
Placed(r, n, o) ==
  /\ 1 <= r.at /\ r.at <= n /\ r.start.at <= r.at
  /\ r.gap # 0 => r.gap = r.at /\ r.at <= o /\ r.start.kind = "cursor" /\ r.start.at < r.at
  /\ r.start.kind = "cursor" /\ r.start.at < r.at => r.gap = r.at

CallPos(r, n, o) ==
  /\ Known(r.start, n)
  /\ r.st = "new" => r.kind = "none"
  /\ r.kind # "wait" => r.gap = 0 /\ r.at = 0 /\ ~r.timedOut
  /\ r.st \in {"loading", "loaded", "reserving", "parking", "parked"}
       => r.kind = "wait" /\ ~r.timedOut
  /\ r.st = "loaded" => 1 <= r.next /\ r.start.at <= r.next /\ r.next <= n
  /\ r.kind = "wait" /\ r.st \in {"reserving", "parking", "parked", "reading", "done"}
       => Placed(r, n, o)
  /\ r.kind = "wait" /\ r.st = "reading" /\ ~r.timedOut => r.at < n

CallsInv == \A c \in Calls : CallPos(call[c], signal.next, journal.oldest)

WakesInv ==
  \A c \in Calls :
    /\ wake[c] # "none" => call[c].st = "parked"
    /\ wake[c] = "Woken" => call[c].at < signal.next

StoodAt(r) == IF r.kind = "wait" /\ r.start.kind # "cursor" THEN r.at ELSE r.start.at

(* What NoSilentGap, OwnCursorsAreGood and HonestTimeout say of one answer. *)
AnswerPos(a, r, n, o) ==
  /\ a.what # "none" => r.st = "done"
  /\ a.what # "invalid"
  /\ a.what = "page" =>
       /\ a.from <= a.upTo /\ a.upTo <= n
       /\ a.from >= StoodAt(r)
       /\ a.gap # 0 => a.gap = a.from /\ a.gap <= o
       /\ a.gap # 0 => a.gap > StoodAt(r)
       /\ StoodAt(r) > 0 /\ a.from > StoodAt(r) => a.gap # 0
       /\ r.kind = "wait" => (a.timedOut <=> a.upTo = a.from)

AnswersInv == \A c \in Calls : AnswerPos(answer[c], call[c], journal.next, journal.oldest)

PagesInv == WaitTypeOK /\ JournalInv /\ CursorsInv /\ CallsInv /\ WakesInv /\ AnswersInv

-----------------------------------------------------------------------------
(* The journal.                                                            *)

(* The journal and what is published of it are numbers. *)
LEMMA WindowTypes ==
  ASSUME WaitTypeOK
  PROVE  /\ journal.oldest \in Nat \ {0} /\ journal.next \in Nat \ {0}
         /\ signal.oldest \in Nat \ {0} /\ signal.next \in Nat \ {0}
BY DEF WaitTypeOK, Windows

(* Recording keeps what is published behind the journal, and both grow. *)
LEMMA RecordPos ==
  ASSUME WaitTypeOK, JournalInv, Record
  PROVE  /\ JournalInv'
         /\ signal'.next \in Nat /\ signal'.next >= signal.next
         /\ journal'.oldest \in Nat /\ journal'.oldest >= journal.oldest
         /\ journal'.next \in Nat /\ journal'.next >= journal.next
<1>0. /\ journal.oldest \in Nat \ {0} /\ journal.next \in Nat \ {0}
      /\ signal.oldest \in Nat \ {0} /\ signal.next \in Nat \ {0}
      /\ signal \in Windows
  BY WindowTypes DEF WaitTypeOK
<1>1. CASE Push
  <2>1. PICK oldest \in journal.oldest .. journal.next :
          journal' = [oldest |-> oldest, next |-> journal.next + 1]
    BY <1>1 DEF Push
  <2> QED
    BY <1>0, <1>1, <2>1 DEF Push, JournalInv
<1>2. CASE PublishOldest
  <2>1. signal'.oldest = journal.oldest /\ signal'.next = signal.next
    BY <1>0, <1>2 DEF PublishOldest, Windows
  <2> QED
    BY <1>0, <1>2, <2>1 DEF PublishOldest, JournalInv
<1>3. CASE PublishNext
  <2>1. signal'.oldest = signal.oldest /\ signal'.next = journal.next
    BY <1>0, <1>3 DEF PublishNext, Windows
  <2>2. journal' = journal /\ recording = "oldest" /\ recording' = "next"
    BY <1>3 DEF PublishNext
  <2>3. signal.oldest = journal.oldest
    BY <2>2 DEF JournalInv
  <2>4. signal' \in Windows /\ journal \in Windows
    BY <1>0, <1>3 DEF PublishNext, Windows, WaitTypeOK
  <2>5. signal' = journal
    BY <2>1, <2>3, <2>4 DEF Windows
  <2> QED
    BY <1>0, <2>1, <2>2, <2>3, <2>5 DEF JournalInv
<1>4. CASE Tick
  BY <1>0, <1>4 DEF Tick, JournalInv
<1> QED
  BY <1>1, <1>2, <1>3, <1>4 DEF Record

(* What was published stays behind what is. *)
LEMMA CallPosGrows ==
  ASSUME NEW r \in CallRecords, NEW n \in Nat, NEW o \in Nat, CallPos(r, n, o),
         NEW n2 \in Nat, NEW o2 \in Nat, n <= n2, o <= o2
  PROVE  CallPos(r, n2, o2)
<1>1. r.start.at \in Nat /\ r.next \in Nat /\ r.at \in Nat /\ r.gap \in Nat
  BY DEF CallRecords, StartRecords
<1>2. Known(r.start, n2)
  BY <1>1 DEF CallPos, Known
<1>3. Placed(r, n, o) => Placed(r, n2, o2)
  BY <1>1 DEF Placed
<1> QED
  BY <1>1, <1>2, <1>3 DEF CallPos

(* An answer that was right stays right as the journal grows. *)
LEMMA AnswerPosGrows ==
  ASSUME NEW a \in Answers, NEW r \in CallRecords, NEW n \in Nat, NEW o \in Nat,
         AnswerPos(a, r, n, o), NEW n2 \in Nat, NEW o2 \in Nat, n <= n2, o <= o2
  PROVE  AnswerPos(a, r, n2, o2)
<1>1. a.upTo \in Nat /\ a.gap \in Nat
  BY DEF Answers
<1> QED
  BY <1>1 DEF AnswerPos

-----------------------------------------------------------------------------
(* Each step of a call, on the record of the call.                         *)

(* A call that only moves on keeps its position. *)
LEMMA MovePos ==
  ASSUME NEW r \in CallRecords, NEW n \in Nat, NEW o \in Nat, CallPos(r, n, o),
         NEW st \in {"parking", "parked", "reading", "done"},
         \/ st \in {"parking", "parked"} /\ r.st \in {"reserving", "parking"}
         \/ st = "reading" /\ r.st = "reserving" /\ r.at < n
         \/ st = "done" /\ r.st \in {"reserving", "parking", "parked", "reading"}
  PROVE  CallPos([r EXCEPT !.st = st], n, o)
<1> DEFINE q == [r EXCEPT !.st = st]
<1>1. /\ q.st = st /\ q.kind = r.kind /\ q.start = r.start /\ q.next = r.next /\ q.at = r.at
      /\ q.gap = r.gap /\ q.timedOut = r.timedOut
  BY DEF CallRecords
<1> HIDE DEF q
<1>2. Placed(r, n, o) => Placed(q, n, o)
  BY <1>1 DEF Placed
<1>3. CallPos(q, n, o)
  BY <1>1, <1>2 DEF CallPos
<1> QED
  BY <1>3 DEF q

(* A start that was sent is known. *)
LEMMA SentPos ==
  ASSUME NEW r \in CallRecords, NEW n \in Nat, NEW o \in Nat, CallPos(r, n, o), r.st = "new",
         NEW start \in StartRecords, Known(start, n),
         NEW st \in {"reading", "loading"}, NEW kind \in {"read", "wait"},
         st = "reading" <=> kind = "read"
  PROVE  CallPos([r EXCEPT !.st = st, !.kind = kind, !.start = start], n, o)
<1> DEFINE q == [r EXCEPT !.st = st, !.kind = kind, !.start = start]
<1>1. /\ q.st = st /\ q.kind = kind /\ q.start = start /\ q.next = r.next /\ q.at = r.at
      /\ q.gap = r.gap /\ q.timedOut = r.timedOut
  BY DEF CallRecords
<1>2. r.gap = 0 /\ r.at = 0 /\ ~r.timedOut
  BY DEF CallPos
<1> HIDE DEF q
<1>3. CallPos(q, n, o)
  BY <1>1, <1>2 DEF CallPos
<1> QED
  BY <1>3 DEF q

(* The first load of a wait's resolution. *)
LEMMA LoadedPos ==
  ASSUME NEW r \in CallRecords, NEW n \in Nat \ {0}, NEW o \in Nat, CallPos(r, n, o),
         r.st = "loading"
  PROVE  CallPos([r EXCEPT !.st = "loaded", !.next = n], n, o)
<1> DEFINE q == [r EXCEPT !.st = "loaded", !.next = n]
<1>1. /\ q.st = "loaded" /\ q.kind = r.kind /\ q.start = r.start /\ q.next = n /\ q.at = r.at
      /\ q.gap = r.gap /\ q.timedOut = r.timedOut
  BY DEF CallRecords
<1>2. r.start.at \in Nat /\ (Known(r.start, n) => r.start.at <= n)
  BY DEF CallRecords, StartRecords, Known, Oldest, Latest
<1> HIDE DEF q
<1>3. CallPos(q, n, o)
  BY <1>1, <1>2 DEF CallPos
<1> QED
  BY <1>3 DEF q

(* The second load: the two make a window, the start is within or before    *)
(* it, and only what has been evicted is skipped.                           *)
LEMMA ResolvedPos ==
  ASSUME NEW r \in CallRecords, NEW n \in Nat, NEW o \in Nat, CallPos(r, n, o),
         r.st = "loaded", NEW b \in [oldest : Nat, next : Nat],
         1 <= b.oldest, b.oldest <= b.next, b.next = r.next, b.oldest <= o
  PROVE  /\ Valid(r.start, b)
         /\ CallPos([r EXCEPT !.st = "reserving", !.next = 0, !.at = Position(r.start, b),
                              !.gap = Gap(r.start, b)], n, o)
<1> DEFINE at == Position(r.start, b)
           gap == Gap(r.start, b)
           q == [r EXCEPT !.st = "reserving", !.next = 0, !.at = at, !.gap = gap]
<1>0. /\ b.oldest \in Nat /\ b.next \in Nat /\ r.start.at \in Nat /\ r.next \in Nat
      /\ r.start.at <= r.next /\ r.next <= n
  BY DEF CallRecords, StartRecords, CallPos
<1>1. Known(r.start, n)
  BY DEF CallPos
<1>2. r.start \in {Oldest, Latest} => r.start.kind # "cursor" /\ r.start.at = 0
  BY DEF Oldest, Latest
<1>3. Requested(r.start, b) \in Nat /\ Requested(r.start, b) <= b.next
  BY <1>0 DEF Requested
<1>4. Valid(r.start, b)
  BY <1>3 DEF Valid
<1>5. /\ at \in Nat /\ gap \in Nat /\ b.oldest <= at /\ at <= b.next
      /\ Requested(r.start, b) <= at
      /\ gap # 0 => gap = at /\ at = b.oldest /\ Requested(r.start, b) < at
      /\ Requested(r.start, b) < at => gap = at
  BY <1>0, <1>3 DEF Position, Gap, Larger
<1>6. r.start.kind # "cursor" => gap = 0
  BY <1>0, <1>1, <1>5 DEF Gap, Requested, Known
<1>7. r.start.kind = "cursor" => Requested(r.start, b) = r.start.at
  BY <1>2 DEF Requested
<1>8. r.start.at <= at
  BY <1>0, <1>1, <1>2, <1>5, <1>7 DEF Known
<1>9. /\ q.st = "reserving" /\ q.kind = r.kind /\ q.start = r.start /\ q.at = at
      /\ q.gap = gap /\ q.timedOut = r.timedOut
  <2> HIDE DEF at, gap
  <2> QED
    BY DEF CallRecords
<1>10. r.kind = "wait" /\ ~r.timedOut
  BY DEF CallPos
<1> HIDE DEF q, at, gap
<1>11. Placed(q, n, o)
  BY <1>0, <1>5, <1>6, <1>7, <1>8, <1>9 DEF Placed
<1>12. CallPos(q, n, o)
  BY <1>1, <1>9, <1>10, <1>11 DEF CallPos
<1> QED
  BY <1>4, <1>12 DEF q, at, gap

(* A wait that was not timed out is woken by an event past its position. *)
LEMMA WokenPos ==
  ASSUME NEW r \in CallRecords, NEW n \in Nat, NEW o \in Nat, CallPos(r, n, o),
         r.st = "parked", NEW timedOut \in BOOLEAN, ~timedOut => r.at < n
  PROVE  CallPos([r EXCEPT !.st = "reading", !.timedOut = timedOut], n, o)
<1> DEFINE q == [r EXCEPT !.st = "reading", !.timedOut = timedOut]
<1>1. /\ q.st = "reading" /\ q.kind = r.kind /\ q.start = r.start /\ q.at = r.at
      /\ q.gap = r.gap /\ q.timedOut = timedOut
  BY DEF CallRecords
<1> HIDE DEF q
<1>2. Placed(r, n, o) => Placed(q, n, o)
  BY <1>1 DEF Placed
<1>3. CallPos(q, n, o)
  BY <1>1, <1>2 DEF CallPos
<1> QED
  BY <1>3 DEF q

(* The read finds the position valid, starts its page there or at the       *)
(* oldest event that is left, and says which of the two it was.             *)
LEMMA PagePos ==
  ASSUME WaitTypeOK, JournalInv, NEW r \in CallRecords,
         CallPos(r, journal.next, journal.oldest), r.st = "reading",
         NEW f, f = (IF r.kind = "wait" THEN Cursor(r.at) ELSE r.start)
  PROVE  /\ Valid(f, journal)
         /\ \A upTo \in Ends(Position(f, journal)) :
              /\ upTo <= journal.next
              /\ AnswerPos(Page(f, upTo, r.timedOut, r.gap), [r EXCEPT !.st = "done"],
                           journal.next, journal.oldest)
<1> DEFINE at == Position(f, journal)
           gap == Gap(f, journal)
           q == [r EXCEPT !.st = "done"]
<1>0. /\ journal.oldest \in Nat \ {0} /\ journal.next \in Nat \ {0}
      /\ journal.oldest <= journal.next
      /\ journal.next > 1 => journal.oldest < journal.next
  BY WindowTypes DEF JournalInv
<1>1. /\ r.start.at \in Nat /\ r.at \in Nat /\ r.gap \in Nat /\ r.timedOut \in BOOLEAN
      /\ Known(r.start, journal.next)
      /\ r.kind = "wait" => Placed(r, journal.next, journal.oldest)
      /\ r.kind = "wait" /\ ~r.timedOut => r.at < journal.next
      /\ r.kind # "wait" => r.gap = 0
  BY DEF CallRecords, StartRecords, CallPos
<1>2. \A m \in Nat : Cursor(m).kind = "cursor" /\ Cursor(m).at = m
                     /\ Cursor(m) # Oldest /\ Cursor(m) # Latest
  BY DEF Cursor, Oldest, Latest
<1>3. /\ f = Oldest => Requested(f, journal) = journal.oldest
      /\ f = Latest => Requested(f, journal) = journal.next
      /\ f # Oldest /\ f # Latest => Requested(f, journal) = f.at
  BY DEF Requested, Oldest, Latest
<1>4. r.kind = "wait" => Requested(f, journal) = r.at
  BY <1>1, <1>2, <1>3
<1>5. /\ Requested(f, journal) \in Nat /\ Requested(f, journal) <= journal.next
      /\ r.kind # "wait" => r.start.at <= Requested(f, journal)
      /\ r.kind # "wait" /\ r.start.at > 0 => Requested(f, journal) = r.start.at
  <2>1. CASE r.kind = "wait"
    BY <1>1, <1>4, <2>1 DEF Placed
  <2>2. CASE r.kind # "wait"
    <3>1. f = r.start /\ (f \in {Oldest, Latest} => r.start.at = 0)
      BY <2>2 DEF Oldest, Latest
    <3> QED
      BY <1>0, <1>1, <1>3, <2>2, <3>1 DEF Known
  <2> QED
    BY <2>1, <2>2
<1>6. Valid(f, journal)
  BY <1>0, <1>5 DEF Valid
<1>7. /\ at \in Nat /\ gap \in Nat /\ journal.oldest <= at /\ at <= journal.next
      /\ Requested(f, journal) <= at
      /\ gap # 0 => gap = at /\ at = journal.oldest /\ Requested(f, journal) < at
      /\ gap = 0 => at = Requested(f, journal)
  BY <1>0, <1>5 DEF Position, Gap, Larger
<1>8. q.st = "done" /\ StoodAt(q) = StoodAt(r) /\ q.kind = r.kind
  BY DEF CallRecords, StoodAt
<1>9. ASSUME NEW upTo \in Ends(at)
      PROVE  /\ upTo <= journal.next
             /\ AnswerPos(Page(f, upTo, r.timedOut, r.gap), q, journal.next, journal.oldest)
  <2> DEFINE told == IF gap = 0 THEN r.gap ELSE gap
             page == Page(f, upTo, r.timedOut, r.gap)
  <2>1. upTo \in Nat /\ at <= upTo /\ upTo <= journal.next /\ (upTo > at \/ at >= journal.next)
    <3> HIDE DEF at
    <3> QED
      BY <1>0, <1>7, JournalAssumption DEF Ends, Smaller
  <2>2. /\ page.what = "page" /\ page.from = at /\ page.upTo = upTo /\ page.gap = told
        /\ page.timedOut = (r.timedOut /\ upTo = at)
    BY DEF Page, Complete
  <2>3. r.kind = "wait" => StoodAt(r) <= r.at /\ (r.start.kind # "cursor" => StoodAt(r) = r.at)
    BY <1>1 DEF StoodAt, Placed
  <2>4. StoodAt(r) \in Nat /\ (r.kind # "wait" => StoodAt(r) = r.start.at)
        /\ (r.start.kind = "cursor" => StoodAt(r) = r.start.at)
    BY <1>1 DEF StoodAt
  <2> HIDE DEF at, gap, q, page
  <2>5. at >= StoodAt(r)
    BY <1>1, <1>4, <1>5, <1>7, <2>3, <2>4
  <2>6. told # 0 => told = at /\ told <= journal.oldest /\ told > StoodAt(r)
    <3>1. CASE gap # 0
      <4>1. StoodAt(r) <= Requested(f, journal)
        BY <1>1, <1>4, <1>5, <2>3, <2>4
      <4> QED
        BY <1>0, <1>5, <1>7, <2>4, <3>1, <4>1
    <3>2. CASE gap = 0 /\ r.gap # 0
      <4>1. r.kind = "wait"
        BY <1>1, <3>2
      <4> QED
        BY <1>0, <1>1, <1>4, <1>7, <2>4, <3>2, <4>1 DEF Placed
    <3> QED
      BY <3>1, <3>2
  <2>7. StoodAt(r) > 0 /\ at > StoodAt(r) => told # 0
    <3>1. CASE gap = 0 /\ r.kind = "wait"
      <4>1. at = r.at /\ told = r.gap /\ Placed(r, journal.next, journal.oldest)
        BY <1>1, <1>4, <1>7, <3>1
      <4>2. CASE r.start.kind = "cursor"
        BY <1>0, <1>1, <2>4, <4>1, <4>2 DEF Placed
      <4>3. CASE r.start.kind # "cursor"
        BY <1>1, <2>3, <3>1, <4>1, <4>3
      <4> QED
        BY <4>2, <4>3
    <3>2. CASE gap = 0 /\ r.kind # "wait"
      BY <1>5, <1>7, <2>4, <3>2
    <3>3. CASE gap # 0
      BY <3>3
    <3> QED
      BY <3>1, <3>2, <3>3
  <2>8. r.kind = "wait" => ((r.timedOut /\ upTo = at) <=> upTo = at)
    <3>1. ASSUME r.kind = "wait", ~r.timedOut PROVE upTo > at
      <4>1. 1 <= r.at /\ r.at < journal.next
        BY <1>1, <3>1 DEF Placed
      <4>2. at < journal.next
        BY <1>0, <1>1, <1>4, <1>7, <3>1, <4>1
      <4> QED
        BY <1>0, <1>7, <2>1, <4>2
    <3>2. r.kind = "wait" /\ ~r.timedOut => upTo # at
      BY <1>7, <2>1, <3>1
    <3> QED
      BY <1>1, <3>2
  <2> HIDE DEF told
  <2>9. AnswerPos(page, q, journal.next, journal.oldest)
    BY <1>8, <2>1, <2>2, <2>5, <2>6, <2>7, <2>8 DEF AnswerPos
  <2> QED
    BY <2>1, <2>9 DEF page
<1> QED
  BY <1>6, <1>9

-----------------------------------------------------------------------------
(* Each step of a call, on the system.                                     *)

(* A step of one call is judged by that call. *)
LEMMA OneCallPages ==
  ASSUME PagesInv, WaitTypeOK', NEW c \in Calls,
         \/ \E start \in Starts(ConnOf[c]) : SendRead(c, start) \/ SendWait(c, start)
         \/ CallStep(c) \/ Expire(c),
         CursorsInv',
         CallPos(call'[c], signal.next, journal.oldest),
         wake'[c] # "none" => call'[c].st = "parked",
         wake'[c] = "Woken" => call'[c].at < signal.next,
         AnswerPos(answer'[c], call'[c], journal.next, journal.oldest)
  PROVE  PagesInv'
<1>1. /\ \A d \in Calls \ {c} : call'[d] = call[d] /\ answer'[d] = answer[d]
                                /\ wake'[d] = wake[d]
      /\ UNCHANGED <<journalVars, manager>>
  BY OtherCalls DEF PagesInv
<1>2. signal' = signal /\ journal' = journal /\ recording' = recording
  BY <1>1 DEF journalVars
<1>3. JournalInv'
  BY <1>2 DEF PagesInv, JournalInv
<1>4. CallsInv'
  BY <1>1, <1>2 DEF PagesInv, CallsInv
<1>5. WakesInv'
  BY <1>1, <1>2 DEF PagesInv, WakesInv
<1>6. AnswersInv'
  BY <1>1, <1>2 DEF PagesInv, AnswersInv
<1> QED
  BY <1>3, <1>4, <1>5, <1>6 DEF PagesInv

(* A call that is not done has no answer, and one that ends has one. *)
LEMMA OpenAnswer ==
  ASSUME PagesInv, NEW c \in Calls, call[c].st # "done", answer'[c] = answer[c], NEW r
  PROVE  AnswerPos(answer'[c], r, journal.next, journal.oldest)
<1>1. answer[c].what = "none"
  BY DEF PagesInv, AnswersInv, AnswerPos
<1> QED
  BY <1>1 DEF AnswerPos

(* A call that ends leaves every other answer alone. *)
LEMMA EndPos ==
  ASSUME PagesInv, NEW c \in Calls, NEW what, End(c, what)
  PROVE  call'[c] = [call[c] EXCEPT !.st = "done"] /\ answer'[c] = what /\ call'[c].st = "done"
<1>1. call \in [Calls -> CallRecords] /\ answer \in [Calls -> Answers] /\ call[c] \in CallRecords
  BY DEF PagesInv, WaitTypeOK
<1>2. [call[c] EXCEPT !.st = "done"].st = "done"
  BY <1>1 DEF CallRecords
<1> QED
  BY <1>1, <1>2 DEF End, Move

(* A call that ends without a page ends well. *)
LEMMA BareEndPages ==
  ASSUME PagesInv, WaitTypeOK', NEW c \in Calls, CallStep(c), UNCHANGED cursors,
         NEW what \in {"refused", "unheard"}, End(c, Bare(what)), wake'[c] = "none",
         call[c].st \in {"reserving", "parking", "parked", "reading"}
  PROVE  PagesInv'
<1>1. call'[c] = [call[c] EXCEPT !.st = "done"] /\ answer'[c] = Bare(what) /\ call'[c].st = "done"
  BY EndPos
<1>2. /\ call[c] \in CallRecords /\ signal.next \in Nat /\ journal.oldest \in Nat
      /\ CallPos(call[c], signal.next, journal.oldest)
  BY WindowTypes DEF PagesInv, WaitTypeOK, CallsInv
<1>3. CallPos(call'[c], signal.next, journal.oldest)
  BY <1>1, <1>2, MovePos
<1>4. AnswerPos(answer'[c], call'[c], journal.next, journal.oldest)
  BY <1>1 DEF AnswerPos, Bare
<1>5. CursorsInv'
  BY OtherCalls DEF PagesInv, CursorsInv, journalVars
<1> QED
  BY <1>3, <1>4, <1>5, OneCallPages

(* Sending a call. *)
LEMMA SendPages ==
  ASSUME PagesInv, NEW c \in Calls, NEW start \in Starts(ConnOf[c]),
         SendRead(c, start) \/ SendWait(c, start)
  PROVE  PagesInv'
<1>0. /\ call[c] \in CallRecords /\ ConnOf[c] \in Conns /\ call \in [Calls -> CallRecords]
      /\ cursors[ConnOf[c]] \in Nat /\ signal.next \in Nat /\ journal.oldest \in Nat
      /\ CallPos(call[c], signal.next, journal.oldest) /\ WaitTypeOK
      /\ call[c].st = "new"
  BY WindowTypes, WaitAssumption DEF PagesInv, WaitTypeOK, CallsInv, SendRead, SendWait
<1>1. start \in StartRecords /\ WaitTypeOK'
  BY <1>0, StartTypes, SlotlessTypes
<1>2. Known(start, signal.next)
  <2>1. cursors[ConnOf[c]] <= signal.next
    BY <1>0 DEF PagesInv, CursorsInv
  <2>2. CASE start \in {Oldest, Latest}
    BY <2>2 DEF Known
  <2>3. CASE start = Cursor(cursors[ConnOf[c]]) /\ cursors[ConnOf[c]] # 0
    BY <1>0, <2>1, <2>3 DEF Known, Cursor
  <2> QED
    BY <2>2, <2>3 DEF Starts
<1>3. PICK st \in {"reading", "loading"}, kind \in {"read", "wait"} :
        /\ st = "reading" <=> kind = "read"
        /\ call' = [call EXCEPT ![c] = [@ EXCEPT !.st = st, !.kind = kind, !.start = start]]
  BY DEF SendRead, SendWait
<1>4. call'[c] = [call[c] EXCEPT !.st = st, !.kind = kind, !.start = start]
  BY <1>0, <1>3
<1>5. CallPos(call'[c], signal.next, journal.oldest)
  <2>1. CallPos([call[c] EXCEPT !.st = st, !.kind = kind, !.start = start], signal.next,
                journal.oldest)
    BY <1>0, <1>1, <1>2, <1>3, SentPos
  <2> QED
    BY <1>4, <2>1
<1>6. UNCHANGED <<answer, wake, cursors, signal>>
  BY DEF SendRead, SendWait, journalVars
<1>7. wake'[c] = "none"
  BY <1>0, <1>6 DEF PagesInv, WakesInv
<1>8. AnswerPos(answer'[c], call'[c], journal.next, journal.oldest)
  BY <1>0, <1>6, OpenAnswer
<1>9. CursorsInv'
  BY <1>6 DEF PagesInv, CursorsInv
<1> QED
  BY <1>1, <1>5, <1>7, <1>8, <1>9, OneCallPages

(* The reader's two loads. *)
LEMMA LoadPages ==
  ASSUME PagesInv, NEW c \in Calls, LoadNext(c)
  PROVE  PagesInv'
<1>0. /\ call[c] \in CallRecords /\ call \in [Calls -> CallRecords]
      /\ signal.next \in Nat \ {0} /\ journal.oldest \in Nat
      /\ CallPos(call[c], signal.next, journal.oldest) /\ WaitTypeOK
      /\ call[c].st = "loading" /\ UNCHANGED <<answer, wake, cursors, signal>>
  BY WindowTypes DEF PagesInv, WaitTypeOK, CallsInv, LoadNext, journalVars
<1>1. WaitTypeOK'
  BY <1>0, SlotlessTypes
<1>2. call'[c] = [call[c] EXCEPT !.st = "loaded", !.next = signal.next]
  BY <1>0 DEF LoadNext
<1>3. CallPos(call'[c], signal.next, journal.oldest)
  <2>1. CallPos([call[c] EXCEPT !.st = "loaded", !.next = signal.next], signal.next,
                journal.oldest)
    BY <1>0, LoadedPos
  <2> QED
    BY <1>2, <2>1
<1>4. wake'[c] = "none"
  BY <1>0 DEF PagesInv, WakesInv
<1>5. AnswerPos(answer'[c], call'[c], journal.next, journal.oldest)
  BY <1>0, OpenAnswer
<1>6. CursorsInv'
  BY <1>0 DEF PagesInv, CursorsInv
<1> QED
  BY <1>1, <1>3, <1>4, <1>5, <1>6, OneCallPages DEF CallStep, ReaderStep

(* The second load resolves the wait or refuses it. *)
LEMMA ResolvePages ==
  ASSUME PagesInv, NEW c \in Calls, ResolveStart(c)
  PROVE  PagesInv'
<1> DEFINE start == call[c].start
           b == Bounds(call[c].next)
<1>0. /\ call[c] \in CallRecords /\ call \in [Calls -> CallRecords]
      /\ signal.next \in Nat \ {0} /\ signal.oldest \in Nat \ {0} /\ journal.oldest \in Nat
      /\ signal.oldest <= journal.oldest
      /\ CallPos(call[c], signal.next, journal.oldest) /\ WaitTypeOK
      /\ call[c].st = "loaded" /\ UNCHANGED <<wake, cursors, signal>>
  BY WindowTypes DEF PagesInv, WaitTypeOK, CallsInv, ResolveStart, journalVars, JournalInv
<1>1. WaitTypeOK'
  BY <1>0, SlotlessTypes
<1>2. call[c].next \in Nat /\ 1 <= call[c].next
  BY <1>0 DEF CallRecords, CallPos
<1>3. /\ b \in [oldest : Nat, next : Nat] /\ 1 <= b.oldest /\ b.oldest <= b.next
      /\ b.next = call[c].next /\ b.oldest <= journal.oldest
  BY <1>0, <1>2 DEF Bounds, Smaller
<1> HIDE DEF b
<1>4. /\ Valid(start, b)
      /\ CallPos([call[c] EXCEPT !.st = "reserving", !.next = 0, !.at = Position(start, b),
                                 !.gap = Gap(start, b)], signal.next, journal.oldest)
  BY <1>0, <1>3, ResolvedPos
<1>5. /\ call' = [call EXCEPT ![c] = [@ EXCEPT !.st = "reserving", !.next = 0,
                    !.at = Position(start, b), !.gap = Gap(start, b)]]
      /\ answer' = answer
  BY <1>4 DEF ResolveStart, b
<1>6. CallPos(call'[c], signal.next, journal.oldest)
  <2> HIDE DEF start
  <2>1. call'[c] = [call[c] EXCEPT !.st = "reserving", !.next = 0,
                      !.at = Position(start, b), !.gap = Gap(start, b)]
    BY <1>0, <1>5
  <2> QED
    BY <1>4, <2>1
<1>7. wake'[c] = "none"
  BY <1>0 DEF PagesInv, WakesInv
<1>8. AnswerPos(answer'[c], call'[c], journal.next, journal.oldest)
  BY <1>0, <1>5, OpenAnswer
<1>9. CursorsInv'
  BY <1>0 DEF PagesInv, CursorsInv
<1> QED
  BY <1>1, <1>6, <1>7, <1>8, <1>9, OneCallPages DEF CallStep, ReaderStep

(* A call that moves on without an answer. *)
LEMMA MovePages ==
  ASSUME PagesInv, SlotsInv, NEW c \in Calls,
         NEW st \in {"parking", "parked", "reading"}, Move(c, st), CallStep(c),
         \/ st \in {"parking", "parked"} /\ call[c].st \in {"reserving", "parking"}
         \/ st = "reading" /\ call[c].st = "reserving" /\ call[c].at < signal.next,
         UNCHANGED <<answer, wake, cursors, signal>>
  PROVE  PagesInv'
<1>0. /\ call[c] \in CallRecords /\ call \in [Calls -> CallRecords]
      /\ signal.next \in Nat /\ journal.oldest \in Nat
      /\ CallPos(call[c], signal.next, journal.oldest) /\ WaitTypeOK
  BY WindowTypes DEF PagesInv, WaitTypeOK, CallsInv
<1>1. WaitTypeOK'
  BY SlotsStep DEF WaitNext, SlotsInv
<1>2. call'[c] = [call[c] EXCEPT !.st = st]
  BY <1>0 DEF Move
<1>3. CallPos(call'[c], signal.next, journal.oldest)
  <2>1. CallPos([call[c] EXCEPT !.st = st], signal.next, journal.oldest)
    BY <1>0, MovePos
  <2> QED
    BY <1>2, <2>1
<1>4. wake'[c] = "none"
  BY DEF PagesInv, WakesInv
<1>5. AnswerPos(answer'[c], call'[c], journal.next, journal.oldest)
  BY <1>0, OpenAnswer
<1>6. CursorsInv'
  BY DEF PagesInv, CursorsInv
<1> QED
  BY <1>1, <1>3, <1>4, <1>5, <1>6, OneCallPages

(* A woken wait. *)
LEMMA WakePages ==
  ASSUME PagesInv, SlotsInv, NEW c \in Calls, Wake(c)
  PROVE  PagesInv'
<1>0. /\ call[c] \in CallRecords /\ call \in [Calls -> CallRecords] /\ wake \in [Calls -> WakeReasons]
      /\ signal.next \in Nat /\ journal.oldest \in Nat
      /\ CallPos(call[c], signal.next, journal.oldest) /\ WaitTypeOK
      /\ call[c].st = "parked" /\ UNCHANGED <<cursors, signal>> /\ CallStep(c)
  BY WindowTypes DEF PagesInv, WaitTypeOK, CallsInv, Wake, journalVars, CallStep
<1>1. WaitTypeOK'
  BY <1>0, SlotsStep DEF WaitNext, SlotsInv
<1>2. wake'[c] = "none"
  BY <1>0 DEF Wake
<1>3. CASE \E what \in {"refused", "unheard"} : End(c, Bare(what))
  BY <1>0, <1>1, <1>2, <1>3, BareEndPages
<1>4. CASE /\ wake[c] \in {"Woken", "TimedOut"} /\ answer' = answer
           /\ call' = [call EXCEPT ![c] = [@ EXCEPT !.st = "reading",
                                                    !.timedOut = (wake[c] = "TimedOut")]]
  <2>1. PICK timedOut \in BOOLEAN : timedOut <=> wake[c] = "TimedOut"
    OBVIOUS
  <2>2. call'[c] = [call[c] EXCEPT !.st = "reading", !.timedOut = timedOut]
    BY <1>0, <1>4, <2>1
  <2>3. ~timedOut => call[c].at < signal.next
    BY <1>4, <2>1 DEF PagesInv, WakesInv
  <2>4. CallPos(call'[c], signal.next, journal.oldest)
    <3>1. CallPos([call[c] EXCEPT !.st = "reading", !.timedOut = timedOut], signal.next,
                  journal.oldest)
      BY <1>0, <2>3, WokenPos
    <3> QED
      BY <2>2, <3>1
  <2>5. AnswerPos(answer'[c], call'[c], journal.next, journal.oldest)
    BY <1>0, <1>4, OpenAnswer
  <2>6. CursorsInv'
    BY <1>0 DEF PagesInv, CursorsInv
  <2> QED
    BY <1>0, <1>1, <1>2, <2>4, <2>5, <2>6, OneCallPages
<1> QED
  BY <1>0, <1>3, <1>4 DEF Wake, WakeReasons

(* The read that ends a call with a page. *)
LEMMA ReadPages ==
  ASSUME PagesInv, NEW c \in Calls, Read(c)
  PROVE  PagesInv'
<1> DEFINE f == ReadFrom(c)
<1>0. /\ call[c] \in CallRecords /\ call \in [Calls -> CallRecords] /\ ConnOf[c] \in Conns
      /\ cursors \in [Conns -> Nat] /\ WaitTypeOK /\ JournalInv
      /\ CallPos(call[c], signal.next, journal.oldest)
      /\ call[c].st = "reading" /\ UNCHANGED <<wake, signal>> /\ CallStep(c)
  BY WaitAssumption DEF PagesInv, WaitTypeOK, CallsInv, Read, journalVars, CallStep
<1>1. signal = journal
  BY DEF Read, PagesInv, JournalInv
<1>2. WaitTypeOK'
  BY <1>0, SlotlessTypes
<1>3. /\ Valid(f, journal)
      /\ \A upTo \in Ends(Position(f, journal)) :
           /\ upTo <= journal.next
           /\ AnswerPos(Page(f, upTo, call[c].timedOut, call[c].gap),
                        [call[c] EXCEPT !.st = "done"], journal.next, journal.oldest)
  BY <1>0, <1>1, PagePos DEF ReadFrom
<1>4. PICK upTo \in Ends(Position(f, journal)) :
        /\ End(c, Page(f, upTo, call[c].timedOut, call[c].gap))
        /\ cursors' = [cursors EXCEPT ![ConnOf[c]] = upTo]
  BY <1>3 DEF Read
<1>5. /\ call'[c] = [call[c] EXCEPT !.st = "done"] /\ call'[c].st = "done"
      /\ answer'[c] = Page(f, upTo, call[c].timedOut, call[c].gap)
  BY <1>4, EndPos
<1>6. AnswerPos(answer'[c], call'[c], journal.next, journal.oldest)
  BY <1>3, <1>5
<1>7. CallPos(call'[c], signal.next, journal.oldest)
  <2>1. signal.next \in Nat /\ journal.oldest \in Nat
    BY <1>0, WindowTypes
  <2>2. CallPos([call[c] EXCEPT !.st = "done"], signal.next, journal.oldest)
    BY <1>0, <2>1, MovePos
  <2> QED
    BY <1>5, <2>2
<1>8. CursorsInv'
  <2> HIDE DEF f
  <2> QED
    BY <1>0, <1>1, <1>3, <1>4 DEF PagesInv, CursorsInv
<1>9. wake'[c] = "none"
  BY <1>0 DEF PagesInv, WakesInv
<1> QED
  BY <1>0, <1>2, <1>6, <1>7, <1>8, <1>9, OneCallPages

-----------------------------------------------------------------------------
(* Every step, and what it comes to.                                       *)

(* A step of a call, whichever thread takes it. *)
LEMMA CallPages ==
  ASSUME PagesInv, SlotsInv, NEW c \in Calls, CallStep(c)
  PROVE  PagesInv'
<1>0. WaitTypeOK'
  BY SlotsStep DEF WaitNext, SlotsInv
<1>1. call[c].st # "parked" => wake[c] = "none"
  BY DEF PagesInv, WakesInv
<1>2. CASE LoadNext(c)
  BY <1>2, LoadPages
<1>3. CASE ResolveStart(c)
  BY <1>3, ResolvePages
<1>4. CASE ReadAtOnce(c)
  <2>1. call[c].at < signal.next
    <3>1. call[c].at \in Nat /\ signal.next \in Nat
      BY WindowTypes DEF SlotsInv, WaitTypeOK, CallRecords
    <3> QED
      BY <1>4, <3>1 DEF ReadAtOnce
  <2> QED
    BY <1>4, <2>1, MovePages DEF ReadAtOnce, journalVars
<1>5. CASE Reserve(c)
  <2>1. CASE Move(c, "parking") /\ answer' = answer
    BY <1>5, <2>1, MovePages DEF Reserve, journalVars
  <2>2. CASE End(c, Bare("refused"))
    BY <1>0, <1>1, <1>5, <2>2, BareEndPages DEF Reserve
  <2> QED
    BY <1>5, <2>1, <2>2 DEF Reserve
<1>6. CASE ParkRefused(c) \/ ParkWithoutThread(c)
  BY <1>0, <1>1, <1>6, BareEndPages DEF ParkRefused, ParkWithoutThread
<1>7. CASE Park(c)
  BY <1>7, MovePages DEF Park, journalVars
<1>8. CASE Wake(c)
  BY <1>8, WakePages
<1>9. CASE Read(c)
  BY <1>9, ReadPages
<1>10. CASE RefuseRead(c)
  BY <1>0, <1>1, <1>10, BareEndPages DEF RefuseRead
<1> QED
  BY <1>2, <1>3, <1>4, <1>5, <1>6, <1>7, <1>8, <1>9, <1>10 DEF CallStep, ReaderStep

(* The manager wakes for an event only where there is one. *)
LEMMA SweepWakes ==
  ASSUME PagesInv, ManagerStep
  PROVE  WakesInv'
<1>0. UNCHANGED <<call, signal, journal, recording>>
  BY DEF ManagerStep, ReceiveTick, ReceiveWaiter, Poll, Sweep, Shutdown, journalVars
<1>1. CASE wake' = wake
  BY <1>0, <1>1 DEF PagesInv, WakesInv
<1>2. CASE Sweep
  <2> DEFINE leaving == {c \in manager.waiters : Reason(c) # "none"}
             reasons == [c \in leaving |-> Reason(c)]
  <2>1. wake' = Woken(reasons)
    BY <1>2 DEF Sweep
  <2>2. ASSUME NEW c \in Calls
        PROVE  /\ wake'[c] # "none" => call'[c].st = "parked"
               /\ wake'[c] = "Woken" => call'[c].at < signal'.next
    <3>1. CASE c \in leaving /\ call[c].st = "parked"
      <4>1. wake'[c] = Reason(c)
        BY <2>1, <3>1 DEF Woken
      <4>2. call[c].at \in Nat /\ signal.next \in Nat
        BY WindowTypes DEF PagesInv, WaitTypeOK, CallRecords
      <4>3. Reason(c) = "Woken" => call[c].at < signal.next
        BY <4>2 DEF Reason
      <4> QED
        BY <1>0, <3>1, <4>1, <4>3
    <3>2. CASE ~(c \in leaving /\ call[c].st = "parked")
      <4>1. wake'[c] = wake[c]
        BY <2>1, <3>2 DEF Woken
      <4> QED
        BY <1>0, <4>1 DEF PagesInv, WakesInv
    <3> QED
      BY <3>1, <3>2
  <2> QED
    BY <2>2 DEF WakesInv
<1>3. CASE Shutdown
  <2> DEFINE ended == manager.waiters \cup Queued
             reasons == [c \in ended |-> "Shutdown"]
  <2>1. wake' = Woken(reasons)
    BY <1>3 DEF Shutdown
  <2>2. \A c \in Calls : wake'[c] = wake[c] \/ (wake'[c] = "Shutdown" /\ call[c].st = "parked")
    BY <2>1 DEF Woken
  <2> QED
    BY <1>0, <2>2 DEF PagesInv, WakesInv
<1> QED
  BY <1>1, <1>2, <1>3 DEF ManagerStep, ReceiveTick, ReceiveWaiter, Poll

(* No step of any thread breaks a position or a page. *)
LEMMA PagesStep == PagesInv /\ SlotsInv /\ [WaitNext]_allVars => PagesInv'
<1> SUFFICES ASSUME PagesInv, SlotsInv, [WaitNext]_allVars PROVE PagesInv'
  OBVIOUS
<1>0. WaitTypeOK'
  BY SlotsStep DEF SlotsInv
<1>1. CASE RecordStep
  <2>1. Record /\ UNCHANGED waitVars
    BY <1>1 DEF RecordStep
  <2>2. /\ JournalInv'
        /\ signal'.next \in Nat /\ signal'.next >= signal.next
        /\ journal'.oldest \in Nat /\ journal'.oldest >= journal.oldest
        /\ journal'.next \in Nat /\ journal'.next >= journal.next
    BY <2>1, RecordPos DEF PagesInv
  <2>3. /\ signal.next \in Nat /\ journal.oldest \in Nat /\ journal.next \in Nat
        /\ cursors \in [Conns -> Nat]
        /\ \A c \in Calls : call[c] \in CallRecords /\ answer[c] \in Answers
                            /\ call[c].at \in Nat
    BY WindowTypes DEF SlotsInv, WaitTypeOK, CallRecords
  <2>4. UNCHANGED <<call, answer, wake, cursors>>
    BY <2>1 DEF waitVars
  <2>5. CursorsInv'
    BY <2>2, <2>3, <2>4 DEF PagesInv, CursorsInv
  <2>6. CallsInv'
    BY <2>2, <2>3, <2>4, CallPosGrows DEF PagesInv, CallsInv
  <2>7. WakesInv'
    BY <2>2, <2>3, <2>4 DEF PagesInv, WakesInv
  <2>8. AnswersInv'
    BY <2>2, <2>3, <2>4, AnswerPosGrows DEF PagesInv, AnswersInv
  <2> QED
    BY <1>0, <2>2, <2>5, <2>6, <2>7, <2>8 DEF PagesInv
<1>2. CASE UNCHANGED <<journal, signal, recording, call, answer, wake, cursors>>
  BY <1>0, <1>2 DEF PagesInv, JournalInv, CursorsInv, CallsInv, WakesInv, AnswersInv
<1>3. CASE ManagerStep
  <2>1. UNCHANGED <<journal, signal, recording, call, answer, cursors>>
    BY <1>3 DEF ManagerStep, ReceiveTick, ReceiveWaiter, Poll, Sweep, Shutdown, journalVars
  <2> QED
    BY <1>0, <1>3, <2>1, SweepWakes
       DEF PagesInv, JournalInv, CursorsInv, CallsInv, AnswersInv
<1>4. ASSUME NEW c \in Calls, NEW start \in Starts(ConnOf[c]),
             SendRead(c, start) \/ SendWait(c, start)
      PROVE  PagesInv'
  BY <1>4, SendPages
<1>5. ASSUME NEW c \in Calls, CallStep(c) \/ Expire(c)
      PROVE  PagesInv'
  BY <1>2, <1>5, CallPages DEF Expire, journalVars
<1>6. CASE (\E k \in Conns : Close(k)) \/ TurnOff \/ TickElsewhere \/ UNCHANGED allVars
  BY <1>2, <1>6 DEF Close, TurnOff, TickElsewhere, allVars, waitVars, journalVars
<1> QED
  BY <1>1, <1>3, <1>4, <1>5, <1>6 DEF WaitNext

(* No call has a position or a page at the start. *)
LEMMA PagesInit == WaitInit => PagesInv
<1> SUFFICES ASSUME WaitInit PROVE PagesInv
  OBVIOUS
<1>1. WaitTypeOK
  BY SlotsInit DEF SlotsInv
<1>2. JournalInv
  BY DEF WaitInit, JournalInit, JournalInv
<1>3. CursorsInv
  BY DEF WaitInit, JournalInit, CursorsInv
<1>4. CallsInv
  BY DEF WaitInit, NewCall, CallsInv, CallPos, Known
<1>5. WakesInv
  BY DEF WaitInit, WakesInv
<1>6. AnswersInv
  BY DEF WaitInit, Bare, AnswersInv, AnswerPos
<1> QED
  BY <1>1, <1>2, <1>3, <1>4, <1>5, <1>6 DEF PagesInv

(* Positions, wakes and pages stay as the code means them, whatever the     *)
(* journal's capacity, the page limit and the number of calls.              *)
THEOREM PagesAlwaysInv == WaitSpec => []PagesInv
BY PagesInit, PagesStep, SlotsAlwaysInv, PTL DEF WaitSpec

(* A page starts where its client stood or tells the gap it had to skip,    *)
(* and tells no other (resolve_event_read, read_page, complete_wait_page).  *)
THEOREM NoGapIsEverSilent == WaitSpec => []NoSilentGap
<1>1. PagesInv => NoSilentGap
  <2> SUFFICES ASSUME PagesInv, NEW c \in Calls, answer[c].what = "page"
               PROVE  /\ answer[c].from <= answer[c].upTo /\ answer[c].upTo <= journal.next
                      /\ answer[c].from >= Stood(c)
                      /\ answer[c].gap # 0
                           => answer[c].gap = answer[c].from /\ answer[c].gap <= journal.oldest
                      /\ answer[c].gap # 0 => answer[c].gap > Stood(c)
                      /\ Stood(c) > 0 /\ answer[c].from > Stood(c) => answer[c].gap # 0
    BY DEF NoSilentGap
  <2>1. AnswerPos(answer[c], call[c], journal.next, journal.oldest)
    BY DEF PagesInv, AnswersInv
  <2>2. StoodAt(call[c]) = Stood(c)
    BY DEF StoodAt, Stood
  <2> QED
    BY <2>1, <2>2 DEF AnswerPos
<1> QED
  BY <1>1, PagesAlwaysInv, PTL

(* No call is refused for a position the gateway itself handed out, though  *)
(* bounds are read in two loads and published in two stores.                *)
THEOREM OwnCursorsAreAlwaysGood == WaitSpec => []OwnCursorsAreGood
<1>1. PagesInv => OwnCursorsAreGood
  BY DEF PagesInv, AnswersInv, AnswerPos, OwnCursorsAreGood
<1> QED
  BY <1>1, PagesAlwaysInv, PTL

(* A wait's page timed out exactly where it has no event. *)
THEOREM TimeoutsAreAlwaysHonest == WaitSpec => []HonestTimeout
<1>1. PagesInv => HonestTimeout
  BY DEF PagesInv, AnswersInv, AnswerPos, HonestTimeout
<1> QED
  BY <1>1, PagesAlwaysInv, PTL
=============================================================================
