--------------------------- MODULE ControlGateway ---------------------------
(***************************************************************************)
(* The local control gateway, from a request frame to its answer           *)
(* (crates/app/src/control/gateway/server.rs, server/answer.rs,            *)
(* gateway.rs; crates/control-host/src/dispatch.rs).                        *)
(*                                                                         *)
(* Three kinds of thread meet here: the reader of each connection, one     *)
(* response worker per dispatched call, and the application thread, which  *)
(* drains the request queue once per frame and may stall for as long as it *)
(* likes.  They share the idempotency ledger, the slot counters, the IDs in *)
(* flight, the writer lock of each connection and, for each call, a reply  *)
(* channel and one atomic dispatch state.                                  *)
(*                                                                         *)
(* A principal is a connection: the handshake mints one for the other.     *)
(***************************************************************************)
EXTENDS IdempotencyLedger, Sequences

CONSTANTS
  Ids,          \* request IDs a client uses
  Requests,     \* the request frames clients may send
  GlobalSlots,  \* CONTROL_MAX_BUFFERED_RESPONSE_SLOTS
  ConnSlots,    \* max_in_flight_per_connection
  QueueCap      \* capacity of the application's request queue

(* An action and a read run on the application thread; a lookup is a read   *)
(* the connection's reader serves itself.                                  *)
Frames == [conn : Principals, id : Ids, key : Keys \cup {None},
           digest : Digests, kind : {"action", "read", "lookup"}]

ASSUME GatewayAssumption ==
  /\ Requests \subseteq Frames
  /\ GlobalSlots \in Nat /\ ConnSlots \in Nat /\ QueueCap \in Nat
  /\ IsFiniteSet(Calls) /\ None \notin Calls \cup {"dropped"}

VARIABLES
  access,       \* AccessState as the application thread sees it
  revoked,      \* connections revoked before their queued work ran
  call,         \* the frame each call answers
  stage,        \* where the call's reader or response worker stands
  dispatch,     \* DispatchState of the call
  overdue,      \* calls whose deadline has passed
  timedOut,     \* calls whose worker gave up at the deadline
  queue,        \* calls waiting for the application thread
  running,      \* the call the application thread is executing
  reply,        \* the call's reply channel, of capacity one
  outcome,      \* the response the worker is about to write
  answer,       \* the answer the client has been sent
  effect,       \* history: calls whose action changed the application
  writer,       \* holder of each connection's writer lock
  ids,          \* request IDs in flight on each connection
  globalInFlight, connInFlight,
  withdrawn     \* history: scopes that lost a record to age or eviction

workVars  == <<stage, dispatch, overdue, timedOut, outcome>>
appVars   == <<access, revoked, queue, running, reply, effect>>
slotVars  == <<writer, ids, globalInFlight, connInFlight>>
vars == <<ledgerVars, call, answer, workVars, appVars, slotVars, withdrawn>>

Stages  == {"idle", "admitted", "waiting", "timing_out", "answering",
            "writing", "settling", "finishing", "done"}
Scope(q) == <<q.conn, q.key>>
Keyed(k) == call[k].key # None
Conn(k)  == call[k].conn

Init ==
  /\ LedgerInit
  /\ access = "enabled" /\ revoked = {} /\ queue = <<>> /\ running = None
  /\ call     = [k \in Calls |-> None]
  /\ stage    = [k \in Calls |-> "idle"]
  /\ dispatch = [k \in Calls |-> "QUEUED"]
  /\ reply    = [k \in Calls |-> None]
  /\ outcome  = [k \in Calls |-> None]
  /\ answer   = [k \in Calls |-> None]
  /\ overdue = {} /\ timedOut = {} /\ effect = {} /\ withdrawn = {}
  /\ writer   = [c \in Principals |-> None]
  /\ ids      = [c \in Principals |-> {}]
  /\ globalInFlight = 0
  /\ connInFlight = [c \in Principals |-> 0]

(* The history of records lost while their principal was still connected.  *)
TrackWithdrawn ==
  withdrawn' = withdrawn \cup
    {s \in Recorded(records) : records'[s] = None /\ s[1] \notin forgotten'}
-----------------------------------------------------------------------------
(* The reader of a connection: one frame at a time, so not while it is     *)
(* still dispatching an earlier one.                                       *)
ReaderFree(c) == \A k \in Calls : stage[k] = "admitted" => Conn(k) # c

Reads(k, q) ==
  /\ q.conn \notin forgotten /\ ReaderFree(q.conn)
  /\ stage[k] = "idle"
  /\ call' = [call EXCEPT ![k] = q]

(* What write_answer puts on the wire: a result, or an error a handler made *)
(* up, may not encode, and is then replaced by the refusal that says the    *)
(* call may have acted.  The gateway's own words always encode.             *)
Encoded(word) == IF word \in {"success", "refused"} THEN {word, "unknown"} ELSE {word}

(* An answer the reader writes itself, under the writer lock. *)
AnswerAtOnce(k, q, code) ==
  /\ writer[q.conn] = None
  /\ \E told \in Encoded(code) : answer' = [answer EXCEPT ![k] = told]
  /\ stage'  = [stage EXCEPT ![k] = "done"]
  /\ UNCHANGED <<dispatch, overdue, timedOut, outcome, appVars, slotVars>>

(* The rate limiter's refusal, before anything else is looked at. *)
RateLimited(k, q) ==
  /\ Reads(k, q)
  /\ AnswerAtOnce(k, q, "retryable")
  /\ UNCHANGED <<ledgerVars, withdrawn>>

DuplicateId(k, q) ==
  /\ Reads(k, q)
  /\ q.id \in ids[q.conn]
  /\ AnswerAtOnce(k, q, "duplicate")
  /\ UNCHANGED <<ledgerVars, withdrawn>>

(* The ledger answers: a replay, a conflict, or a call still in progress. *)
AnswerFromLedger(k, q) ==
  /\ Reads(k, q)
  /\ q.id \notin ids[q.conn]
  /\ q.key # None
  /\ AnswerAtOnce(k, q, Answered(Scope(q), q.digest))
  /\ Refuse(Scope(q), q.digest)
  /\ TrackWithdrawn

Admit(k, q) ==
  /\ Reads(k, q)
  /\ q.id \notin ids[q.conn]
  /\ IF q.key = None THEN UNCHANGED ledgerVars ELSE Reserve(k, Scope(q), q.digest)
  /\ stage' = [stage EXCEPT ![k] = "admitted"]
  /\ TrackWithdrawn
  /\ UNCHANGED <<answer, dispatch, overdue, timedOut, outcome, appVars, slotVars>>

DropTicket(k) == IF Keyed(k) THEN Release(k) ELSE UNCHANGED ledgerVars

(* No global slot, no slot of this connection, or no thread to answer on:  *)
(* what was reserved is given back and the call is refused undispatched.   *)
RefuseDispatch(k) ==
  /\ stage[k] = "admitted"
  /\ AnswerAtOnce(k, call[k], "retryable")
  /\ DropTicket(k)
  /\ UNCHANGED <<call, withdrawn>>

(* A lookup, between taking and returning a slot. *)
WorkerRead(k) ==
  /\ stage[k] = "admitted" /\ call[k].kind = "lookup" /\ ~Keyed(k)
  /\ globalInFlight < GlobalSlots
  /\ \E result \in {"success", "refused"} : AnswerAtOnce(k, call[k], result)
  /\ UNCHANGED <<ledgerVars, call, withdrawn>>

SlotsFree(c) == globalInFlight < GlobalSlots /\ connInFlight[c] < ConnSlots

(* The response worker starts, then the call is offered to the queue: a    *)
(* full or abandoned queue answers through the same reply channel.         *)
Dispatch(k) ==
  LET c == Conn(k)
      sent == access # "disabled" /\ Len(queue) < QueueCap IN
  /\ stage[k] = "admitted" /\ call[k].kind # "lookup" /\ SlotsFree(c)
  /\ globalInFlight' = globalInFlight + 1
  /\ connInFlight' = [connInFlight EXCEPT ![c] = @ + 1]
  /\ ids' = [ids EXCEPT ![c] = @ \cup {call[k].id}]
  /\ stage' = [stage EXCEPT ![k] = "waiting"]
  /\ queue' = IF sent THEN Append(queue, k) ELSE queue
  /\ reply' = IF sent THEN reply ELSE [reply EXCEPT ![k] = "retryable"]
  /\ UNCHANGED <<ledgerVars, call, answer, dispatch, overdue, timedOut, outcome,
                 access, revoked, running, effect, writer, withdrawn>>

(* The connection ends: its parked state and its keys go with it. *)
Close(c) ==
  /\ ReaderFree(c)
  /\ ForgetPrincipal(c)
  /\ UNCHANGED <<call, answer, workVars, appVars, slotVars, withdrawn>>
-----------------------------------------------------------------------------
(* Time reaches a call's deadline; the worker and the application thread   *)
(* both compare against it.                                                *)
DeadlinePasses(k) ==
  /\ stage[k] = "waiting" /\ k \notin overdue
  /\ overdue' = overdue \cup {k}
  /\ UNCHANGED <<ledgerVars, call, answer, stage, dispatch, timedOut, outcome,
                 appVars, slotVars, withdrawn>>

(* DispatchState::interrupted: cancel what has not begun, and call the     *)
(* outcome unknown only for a mutation that has.                           *)
Cancelled(k) == dispatch[k] # "STARTED"

(* Faulty variant: every timeout invites a retry. *)
InterruptedRetryable(k) == IF call[k].kind = "action" THEN "retryable" ELSE "retryable"

Interrupted(k) ==
  IF ~Cancelled(k) /\ call[k].kind = "action" THEN "unknown" ELSE "retryable"
CancelBeforeStart(k) ==
  dispatch' = IF Cancelled(k) THEN [dispatch EXCEPT ![k] = "CANCELLED"] ELSE dispatch

(* recv_timeout returns a result: the terminal ones are retained under the *)
(* key before the client can read them.  A dropped channel is a result too. *)
ReceiveReply(k) ==
  LET result == IF reply[k] = "dropped" THEN Interrupted(k) ELSE reply[k] IN
  /\ stage[k] = "waiting" /\ reply[k] # None
  /\ outcome' = [outcome EXCEPT ![k] = result]
  /\ IF reply[k] = "dropped" THEN CancelBeforeStart(k) ELSE UNCHANGED dispatch
  /\ IF Keyed(k) THEN Record(k, result) ELSE UNCHANGED ledgerVars
  /\ stage' = [stage EXCEPT ![k] = "answering"]
  /\ TrackWithdrawn
  /\ UNCHANGED <<call, answer, overdue, timedOut, appVars, slotVars>>

(* Faulty variant: a stalled application stalls the worker. *)
NeverGivesUp(k) == k \in overdue /\ reply[k] # None

GivesUp(k) == k \in overdue /\ reply[k] = None

(* recv_timeout gives up; nothing is decided yet. *)
TimeOut(k) ==
  /\ stage[k] = "waiting" /\ GivesUp(k)
  /\ stage' = [stage EXCEPT ![k] = "timing_out"]
  /\ timedOut' = timedOut \cup {k}
  /\ UNCHANGED <<ledgerVars, call, answer, dispatch, overdue, outcome,
                 appVars, slotVars, withdrawn>>

Interrupt(k) ==
  /\ stage[k] = "timing_out"
  /\ CancelBeforeStart(k)
  /\ outcome' = [outcome EXCEPT ![k] = Interrupted(k)]
  /\ stage' = [stage EXCEPT ![k] = "answering"]
  /\ UNCHANGED <<ledgerVars, call, answer, overdue, timedOut, appVars, slotVars, withdrawn>>

IdsAfterAnswer(k) == ids[Conn(k)] \ {call[k].id}

(* Under the writer lock the request ID is released, then the frame goes.  *)
TakeWriter(k) ==
  LET c == Conn(k) IN
  /\ stage[k] = "answering" /\ writer[c] = None
  /\ writer' = [writer EXCEPT ![c] = k]
  /\ ids' = [ids EXCEPT ![c] = IdsAfterAnswer(k)]
  /\ stage' = [stage EXCEPT ![k] = "writing"]
  /\ UNCHANGED <<ledgerVars, call, answer, dispatch, overdue, timedOut, outcome,
                 appVars, globalInFlight, connInFlight, withdrawn>>

(* The frame is out and the shared slot goes back (a slot seen taken for a  *)
(* moment longer only means a refusal RefuseDispatch already allows).  A    *)
(* keyed call that timed out keeps its own slot and its ticket for one more *)
(* window.                                                                 *)
WriteFrame(k) ==
  /\ stage[k] = "writing"
  /\ \E told \in Encoded(outcome[k]) : answer' = [answer EXCEPT ![k] = told]
  /\ writer' = [writer EXCEPT ![Conn(k)] = None]
  /\ globalInFlight' = globalInFlight - 1
  /\ stage' = [stage EXCEPT ![k] =
                 IF k \in timedOut /\ Keyed(k) THEN "settling" ELSE "finishing"]
  /\ UNCHANGED <<ledgerVars, call, dispatch, overdue, timedOut, outcome,
                 appVars, ids, connInFlight, withdrawn>>

(* Faulty variants: a call without an answer frees its key, or is presumed *)
(* to have succeeded.                                                      *)
SettledFree(k) == IF reply[k] \notin {None, "dropped"} THEN reply[k] ELSE "retryable"
SettledOptimist(k) ==
  IF reply[k] \notin {None, "dropped"} THEN reply[k]
  ELSE IF dispatch[k] = "STARTED" THEN "success" ELSE "retryable"

(* What the settle window ends with: the late result, an unresolved outcome *)
(* when the call may have acted, or nothing to retain.                     *)
Settled(k) ==
  IF reply[k] \notin {None, "dropped"} THEN reply[k]
  ELSE IF dispatch[k] = "STARTED" THEN "unknown" ELSE "retryable"

Settle(k) ==
  /\ stage[k] = "settling"
  /\ Record(k, Settled(k))
  /\ stage' = [stage EXCEPT ![k] = "finishing"]
  /\ TrackWithdrawn
  /\ UNCHANGED <<call, answer, dispatch, overdue, timedOut, outcome, appVars, slotVars>>

(* Faulty variant: a call that timed out never returns its slot. *)
SlotsAfterLeak(k) == connInFlight[Conn(k)] - (IF k \in timedOut THEN 0 ELSE 1)

SlotsAfter(k) == connInFlight[Conn(k)] - 1

(* The worker ends: its slot, then its clone of the ticket. *)
Finish(k) ==
  /\ stage[k] = "finishing"
  /\ connInFlight' = [connInFlight EXCEPT ![Conn(k)] = SlotsAfter(k)]
  /\ DropTicket(k)
  /\ stage' = [stage EXCEPT ![k] = "done"]
  /\ UNCHANGED <<call, answer, dispatch, overdue, timedOut, outcome, appVars,
                 writer, ids, globalInFlight, withdrawn>>
-----------------------------------------------------------------------------
(* Faulty variant: the authority the call arrived with is trusted. *)
AuthorisedOnArrival(k) == access = "enabled" /\ k \in Calls

Authorised(k) == Conn(k) \notin revoked

(* The application thread takes the next queued call and re-makes, at the  *)
(* moment it runs, the checks made when it arrived.                        *)
Drains == access = "enabled" /\ running = None /\ queue # <<>>

UiRefuse(k) ==
  /\ Drains /\ k = Head(queue) /\ queue' = Tail(queue)
  /\ \/ /\ k \in overdue
        /\ CancelBeforeStart(k)
        /\ reply' = [reply EXCEPT ![k] = "retryable"]
     \/ /\ k \notin overdue /\ ~Authorised(k)
        /\ reply' = [reply EXCEPT ![k] = "refused"]
        /\ UNCHANGED dispatch
     \/ /\ k \notin overdue /\ Authorised(k) /\ dispatch[k] = "CANCELLED"
        /\ reply' = [reply EXCEPT ![k] = "retryable"]
        /\ UNCHANGED dispatch
  /\ UNCHANGED <<ledgerVars, call, answer, stage, overdue, timedOut, outcome,
                 access, revoked, running, effect, slotVars, withdrawn>>

UiStart(k) ==
  /\ Drains /\ k = Head(queue) /\ queue' = Tail(queue)
  /\ k \notin overdue /\ Authorised(k) /\ dispatch[k] = "QUEUED"
  /\ dispatch' = [dispatch EXCEPT ![k] = "STARTED"]
  /\ running' = k
  /\ UNCHANGED <<ledgerVars, call, answer, stage, overdue, timedOut, outcome,
                 access, revoked, reply, effect, slotVars, withdrawn>>

(* Whether the handler changed the application.  An action that succeeds    *)
(* did, one that invites a retry did not; one that fails for good may have,  *)
(* for its result is held against its schema after the handler ran, by the  *)
(* application thread and again by the worker.  The verdict hangs on the    *)
(* result alone, so the model takes it where the result is made.            *)
MayAct(k, result) ==
  IF call[k].kind # "action" \/ result = "retryable" THEN {FALSE}
  ELSE IF result = "success" THEN {TRUE} ELSE BOOLEAN

(* The read or the action itself, and the answer into the channel. *)
UiFinish(k, result) ==
  /\ running = k /\ running' = None
  /\ reply' = [reply EXCEPT ![k] = result]
  /\ \E acts \in MayAct(k, result) : effect' = IF acts THEN effect \cup {k} ELSE effect
  /\ UNCHANGED <<ledgerVars, call, answer, workVars, access, revoked, queue,
                 slotVars, withdrawn>>

(* The trader revokes one client, or turns access off. *)
Revoke(c) ==
  /\ running = None /\ c \notin revoked
  /\ revoked' = revoked \cup {c}
  /\ UNCHANGED <<ledgerVars, call, answer, workVars, access, queue, running, reply,
                 effect, slotVars, withdrawn>>

Disable ==
  /\ running = None /\ access = "enabled"
  /\ access' = "disabling" /\ revoked' = Principals
  /\ UNCHANGED <<ledgerVars, call, answer, workVars, queue, running, reply, effect,
                 slotVars, withdrawn>>

(* The stopped gateway's runtime is dropped, and its queued calls with it. *)
Stopped ==
  /\ access = "disabling" /\ access' = "disabled"
  /\ queue' = <<>>
  /\ reply' = [k \in Calls |-> IF \E i \in DOMAIN queue : queue[i] = k
                               THEN "dropped" ELSE reply[k]]
  /\ UNCHANGED <<ledgerVars, call, answer, workVars, revoked, running, effect,
                 slotVars, withdrawn>>

ClockStep ==
  /\ Tick
  /\ UNCHANGED <<call, answer, workVars, appVars, slotVars, withdrawn>>

Worker(k) ==
  \/ ReceiveReply(k) \/ TimeOut(k) \/ Interrupt(k) \/ TakeWriter(k)
  \/ WriteFrame(k) \/ Settle(k) \/ Finish(k)
Reader(k) == RefuseDispatch(k) \/ WorkerRead(k) \/ Dispatch(k)

Next ==
  \/ \E k \in Calls, q \in Requests :
        RateLimited(k, q) \/ DuplicateId(k, q) \/ AnswerFromLedger(k, q) \/ Admit(k, q)
  \/ \E k \in Calls : Reader(k) \/ DeadlinePasses(k) \/ Worker(k)
  \/ \E k \in Calls : UiRefuse(k) \/ UiStart(k)
  \/ \E k \in Calls, r \in {"success", "refused", "retryable"} : UiFinish(k, r)
  \/ \E c \in Principals : Close(c) \/ Revoke(c)
  \/ Disable \/ Stopped \/ ClockStep

(* The gateway's own threads keep running and time passes; the application *)
(* thread is promised nothing.                                             *)
Spec ==
  /\ Init /\ [][Next]_vars
  /\ \A k \in Calls : WF_vars(Reader(k)) /\ WF_vars(DeadlinePasses(k)) /\ WF_vars(Worker(k))
-----------------------------------------------------------------------------
(* Type invariant: the slot counters stay within the published limits, and  *)
(* what a client is answered is one of the contract's outcomes.            *)
TypeOK ==
  /\ LedgerTypeOK
  /\ access \in {"enabled", "disabling", "disabled"}
  /\ revoked \subseteq Principals /\ withdrawn \subseteq Scopes
  /\ call \in [Calls -> Frames \cup {None}]
  /\ stage \in [Calls -> Stages]
  /\ dispatch \in [Calls -> {"QUEUED", "STARTED", "CANCELLED"}]
  /\ overdue \subseteq Calls /\ timedOut \subseteq Calls /\ effect \subseteq Calls
  /\ queue \in Seq(Calls) /\ running \in Calls \cup {None}
  /\ reply \in [Calls -> Outcomes \cup {"dropped", None}]
  /\ outcome \in [Calls -> Outcomes \cup {None}]
  /\ answer \in [Calls -> Outcomes \cup {"duplicate", "conflict", "in_progress", None}]
  /\ writer \in [Principals -> Calls \cup {None}]
  /\ ids \in [Principals -> SUBSET Ids]
  /\ globalInFlight \in 0 .. GlobalSlots
  /\ connInFlight \in [Principals -> 0 .. ConnSlots]

Dispatched(k) == outcome[k] # None

(* The call may still run, or is running. *)
MayStillAct(k) == running = k \/ (dispatch[k] = "QUEUED" /\ \E i \in DOMAIN queue : queue[i] = k)

(* What a client was told of its action is the truth for good: told to      *)
(* retry, the action has not run and never will; told success of a call     *)
(* that was dispatched, it has; told a failure that invites nothing, nothing *)
(* of the call is still to come, though it may have acted before its result *)
(* was refused.                                                            *)
AnswersAreTrue ==
  \A k \in Calls : answer[k] # None /\ call[k].kind = "action" =>
    /\ answer[k] \in {"retryable", "duplicate"} \/ ~Dispatched(k) => k \notin effect
    /\ answer[k] = "success" /\ Dispatched(k) => k \in effect
    /\ answer[k] # "unknown" \/ ~Dispatched(k) => ~MayStillAct(k)

(* Two calls of one client under one key act once, unless the record that  *)
(* would have answered the second was lost to age or to the cap.           *)
KeyedActionRunsOnce ==
  \A j, k \in effect :
    j # k /\ Keyed(j) /\ Keyed(k) /\ Scope(call[j]) = Scope(call[k])
      => Scope(call[j]) \in withdrawn

(* A replayed success was earned by an earlier call of the same scope.     *)
ReplaysAreEarned ==
  \A k \in Calls : answer[k] = "success" /\ ~Dispatched(k) /\ Keyed(k) =>
    \E j \in effect : Keyed(j) /\ Scope(call[j]) = Scope(call[k])

(* The counters are the workers alive, and a request ID is in flight        *)
(* exactly while a worker of that connection has it unanswered: no path     *)
(* leaks a slot or returns one twice, a wedged application cannot have a    *)
(* client hold more workers than its limit, and a client that read its      *)
(* answer can reuse the ID.                                                 *)
RequestsAreAccounted ==
  /\ globalInFlight = Cardinality({k \in Calls :
       stage[k] \in {"waiting", "timing_out", "answering", "writing"}})
  /\ \A c \in Principals :
       /\ connInFlight[c] = Cardinality({k \in Calls :
            stage[k] \notin {"idle", "admitted", "done"} /\ Conn(k) = c})
       /\ ids[c] = {call[k].id : k \in {j \in Calls :
            stage[j] \in {"waiting", "timing_out", "answering"} /\ Conn(j) = c}}

(* Revoked before it ran means refused: from the moment a client is revoked *)
(* or access is turned off, nothing of its calls changes the application,   *)
(* those admitted, queued, timed out or retried under a key before it       *)
(* included.                                                               *)
RevokedChangesNothing ==
  [][\A k \in effect' \ effect : Conn(k) \notin revoked /\ access = "enabled"]_vars

(* Every admitted call is answered, and its worker, slots and key come back, *)
(* though the application never runs: as a call is made once, it is enough   *)
(* that time and again none is left under way.                               *)
EveryCallEnds ==
  []<>(\A k \in Calls :
         stage[k] = "idle" \/ (answer[k] # None /\ stage[k] = "done" /\ ~Held(k)))

(* A retry is told its first call is still running only while that call    *)
(* may still run: not once its client was told it never did.               *)
InvitedRetryFindsItsKeyFree ==
  [][\A k \in Calls : answer[k] = None /\ answer'[k] = "in_progress" =>
       \E j \in Calls : Held(j) /\ tickets[j].scope = Scope(call'[k])
                        /\ ~(answer[j] = "retryable")]_vars
=============================================================================
