------------------------- MODULE IdempotencyLedger -------------------------
(***************************************************************************)
(* The control gateway's idempotency store                                 *)
(* (crates/control-host/src/idempotency.rs): the retained outcomes and the *)
(* reservations of one enabling of the gateway, behind one mutex.  Every   *)
(* action below is one critical section of that mutex.                     *)
(*                                                                         *)
(* A scope is (principal, key); instance, capability and version are fixed.*)
(* A ticket is the IdempotencyTicket a dispatched call carries from admit  *)
(* until its last clone is dropped.  The clock is the wall clock the       *)
(* callers read: it may step in either direction.                          *)
(***************************************************************************)
EXTENDS Integers, FiniteSets

CONSTANTS
  Principals,   \* one per handshake, ordered as PrincipalId is
  Keys,         \* the opaque keys a client sends, ordered as strings are
  Digests,      \* canonical digests of a call's input
  Calls,        \* identities of the dispatched calls
  MaxEntries,   \* CONTROL_IDEMPOTENCY_MAX_ENTRIES
  Retention,    \* CONTROL_IDEMPOTENCY_RETENTION_MS
  MaxTime,      \* bound of the clock
  None          \* "no record", "no reservation", "no ticket"

Scopes   == Principals \X Keys
Terminal == {"success", "refused", "unknown"}
Outcomes == Terminal \cup {"retryable"}
Times    == 0 .. MaxTime
Records  == [digest : Digests, outcome : Terminal, at : Times]
Tickets  == [scope : Scopes, digest : Digests, spent : BOOLEAN]

ASSUME LedgerAssumption ==
  /\ Principals \subseteq Nat /\ Keys \subseteq Nat
  /\ IsFiniteSet(Principals) /\ IsFiniteSet(Keys)
  /\ MaxEntries \in Nat \ {0} /\ Retention \in Nat \ {0} /\ MaxTime \in Nat
  /\ None \notin Digests \cup Records \cup Tickets
  /\ None \notin Outcomes \cup {"conflict", "in_progress"}

VARIABLES
  records,    \* what a retry of a scope is answered with
  inFlight,   \* the digest a scope is reserved for
  tickets,    \* the ticket each call holds
  forgotten,  \* principals whose connection has closed
  now         \* the callers' wall clock

ledgerVars == <<records, inFlight, tickets, forgotten, now>>

Recorded(r) == {s \in Scopes : r[s] # None}
Held(t)     == tickets[t] # None

LedgerInit ==
  /\ records   = [s \in Scopes |-> None]
  /\ inFlight  = [s \in Scopes |-> None]
  /\ tickets   = [t \in Calls |-> None]
  /\ forgotten = {}
  /\ now       = 0
-----------------------------------------------------------------------------
(* A record stamped in the future has age zero. *)
Stale(record) == now - record.at >= Retention

Expire(r) == [s \in Scopes |-> IF r[s] # None /\ Stale(r[s]) THEN None ELSE r[s]]

HeldBy(r, p) == {s \in Recorded(r) : s[1] = p}

(* max_by_key over (count, is the incoming principal, principal). *)
Fullest(r, incoming, p) ==
  \A q \in Principals \ {p} :
    LET held(x) == Cardinality(HeldBy(r, x))
    IN  \/ held(q) < held(p)
        \/ held(q) = held(p) /\ q # incoming /\ (p = incoming \/ q < p)

(* min_by_key over (stored at, scope), within one principal. *)
Oldest(r, s) ==
  \A x \in HeldBy(r, s[1]) \ {s} :
    \/ r[s].at < r[x].at
    \/ r[s].at = r[x].at /\ s[2] < x[2]

(* Faulty variant: the oldest record of the whole store goes. *)
OldestOverall(r, incoming, s) ==
  r[s] # None /\ \A x \in Recorded(r) \ {s} :
    r[s].at < r[x].at \/ (r[s].at = r[x].at /\ (s[1] < x[1] \/ (s[1] = x[1] /\ s[2] < x[2])))

Victim(r, incoming, s) == r[s] # None /\ Fullest(r, incoming, s[1]) /\ Oldest(r, s)

(* One pass of the eviction loop makes room: the store grows by one record  *)
(* at a time, each after room was made, so it never holds more than its cap.*)
MakeRoom(r, incoming) ==
  IF Cardinality(Recorded(r)) >= MaxEntries
  THEN [s \in Scopes |-> IF Victim(r, incoming, s) THEN None ELSE r[s]]
  ELSE r

-----------------------------------------------------------------------------
(* Faulty variant: the reservations are not asked. *)
AnsweredFromRecords(s, d) ==
  LET r == Expire(records) IN
  IF r[s] = None THEN None ELSE IF r[s].digest = d THEN r[s].outcome ELSE "conflict"

(* What admit answers from the ledger, or None when the call proceeds. *)
Answered(s, d) ==
  LET r == Expire(records) IN
  IF r[s] # None
  THEN IF r[s].digest = d THEN r[s].outcome ELSE "conflict"
  ELSE IF inFlight[s] = None THEN None
  ELSE IF inFlight[s] = d THEN "in_progress" ELSE "conflict"

(* admit answers without dispatching: replay, conflict or still running. *)
Refuse(s, d) ==
  /\ s[1] \notin forgotten
  /\ Answered(s, d) # None
  /\ records' = Expire(records)
  /\ UNCHANGED <<inFlight, tickets, forgotten, now>>

(* admit reserves the scope and lets the call through. *)
Reserve(t, s, d) ==
  /\ s[1] \notin forgotten
  /\ ~Held(t)
  /\ Answered(s, d) = None
  /\ records' = Expire(records)
  /\ inFlight' = [inFlight EXCEPT ![s] = d]
  /\ tickets' = [tickets EXCEPT ![t] = [scope |-> s, digest |-> d, spent |-> FALSE]]
  /\ UNCHANGED <<forgotten, now>>

(* Faulty variant: no reservation is needed. *)
Unlicensed(t) == Held(t)

IsTerminal(outcome) == outcome \in Terminal
Licensed(t) == inFlight[tickets[t].scope] # None

(* record: only a terminal outcome, and only under a live reservation; a   *)
(* result over the byte limit leaves an uncertainty refusal instead.       *)
Record(t, outcome) ==
  LET s == tickets[t].scope IN
  /\ Held(t) /\ ~tickets[t].spent
  /\ tickets' = [tickets EXCEPT ![t].spent = TRUE]
  /\ IF IsTerminal(outcome) /\ Licensed(t)
     THEN LET room == MakeRoom(records, s[1]) IN
          \E kept \in {outcome, "unknown"} :
             records' = [room EXCEPT ![s] =
               [digest |-> tickets[t].digest, outcome |-> kept, at |-> now]]
     ELSE UNCHANGED records
  /\ UNCHANGED <<inFlight, forgotten, now>>

(* ScopeReservation::drop, when the last clone of the ticket goes. *)
Release(t) ==
  /\ Held(t)
  /\ inFlight' = [inFlight EXCEPT ![tickets[t].scope] = None]
  /\ tickets' = [tickets EXCEPT ![t] = None]
  /\ UNCHANGED <<records, forgotten, now>>

(* The connection the principal was minted for has closed. *)
ForgetPrincipal(p) ==
  /\ p \notin forgotten
  /\ records'   = [s \in Scopes |-> IF s[1] = p THEN None ELSE records[s]]
  /\ inFlight'  = [s \in Scopes |-> IF s[1] = p THEN None ELSE inFlight[s]]
  /\ forgotten' = forgotten \cup {p}
  /\ UNCHANGED <<tickets, now>>

Tick ==
  /\ now' \in Times \ {now}
  /\ UNCHANGED <<records, inFlight, tickets, forgotten>>

LedgerNext ==
  \/ \E s \in Scopes, d \in Digests : Refuse(s, d)
  \/ \E t \in Calls, s \in Scopes, d \in Digests : Reserve(t, s, d)
  \/ \E t \in Calls, o \in Outcomes : Record(t, o)
  \/ \E t \in Calls : Release(t)
  \/ \E p \in Principals : ForgetPrincipal(p)
  \/ Tick

LedgerSpec == LedgerInit /\ [][LedgerNext]_ledgerVars
-----------------------------------------------------------------------------
(* Type invariant: only terminal outcomes are ever retained, and tickets   *)
(* and reservations range over the scopes and digests of admitted calls.    *)
LedgerTypeOK ==
  /\ records   \in [Scopes -> Records \cup {None}]
  /\ inFlight  \in [Scopes -> Digests \cup {None}]
  /\ tickets   \in [Calls -> Tickets \cup {None}]
  /\ forgotten \subseteq Principals
  /\ now       \in Times

(* Two live calls never hold the same scope, whatever closes, expires or is *)
(* evicted in between: the reservation is the licence to act, and the code  *)
(* grants it to one call at a time.                                         *)
OneLicence ==
  \A t, u \in Calls :
    t # u /\ Held(t) /\ Held(u) => tickets[t].scope # tickets[u].scope

(* A call that may still act is never running beside a retained answer for  *)
(* its own scope: replaying that answer would deny the effect to come.      *)
NoAnswerBesideAction ==
  \A t \in Calls :
    Held(t) /\ ~tickets[t].spent => records[tickets[t].scope] = None

(* Nothing of a principal outlives its connection, although its detached    *)
(* response workers still hold tickets and still call record.               *)
NothingForTheForgotten ==
  \A s \in Scopes :
    s[1] \in forgotten => records[s] = None /\ inFlight[s] = None

(* A step that takes a live principal's record without its age being the    *)
(* reason takes it from a principal above its share of the cap: a client    *)
(* inside its share cannot lose a key to how busy another one is.           *)
ShareIsKept ==
  [][\A s \in Scopes :
        records[s] # None /\ records'[s] = None
          /\ ~Stale(records[s]) /\ forgotten' = forgotten
        => Cardinality(HeldBy(records, s[1])) * Cardinality(Principals) >= MaxEntries]_ledgerVars
=============================================================================
