------------------------ MODULE ControlGatewayProofs ------------------------
(***************************************************************************)
(* What the gateway and the idempotency ledger it keeps guarantee for any  *)
(* clients, keys, frames, calls, limits, cap and retention, however the    *)
(* gateway's threads are interleaved.                                      *)
(*                                                                         *)
(* The ledger first, under its own specification.  While its principal is  *)
(* connected, a held ticket has its scope reserved in the ledger           *)
(* (Reserved), so admit, which looks at both maps in one critical section, *)
(* cannot let a second call through; once the principal is forgotten no    *)
(* call of it is admitted again.  The cap is divided among the principals  *)
(* by the pigeonhole: the fullest of them holds its share or more of a     *)
(* full store, and some record of it is the oldest, so room can always be  *)
(* made.                                                                   *)
(*                                                                         *)
(* Then the gateway.  Its use of the store is the store's specification,   *)
(* so what holds of every store holds of the gateway's.  What a client is  *)
(* told: a call's reply is given once and by the application thread alone, *)
(* and the worker that does not wait for it either cancels the call or     *)
(* does not say that it never ran (CallInv).  One run for each key: a call *)
(* that acts or has acted is covered by its own ticket, then by its        *)
(* record, and no other call of its scope is let through unless the record *)
(* is lost (KeyInv).  What is replayed: a retained success was reported by *)
(* a call that has acted (EarnedInv).  And the gateway's slots and request *)
(* IDs are those of the workers that hold them (SlotInv).                  *)
(***************************************************************************)
EXTENDS ControlGateway, FiniteSetTheorems, WellFoundedInduction, TLAPS

(* A live principal's ticket is backed by its reservation. *)
Reserved ==
  \A t \in Calls :
    Held(t) /\ tickets[t].scope[1] \notin forgotten
      => inFlight[tickets[t].scope] = tickets[t].digest

LedgerIInv ==
  /\ LedgerTypeOK
  /\ Reserved
  /\ OneLicence
  /\ NoAnswerBesideAction
  /\ NothingForTheForgotten
-----------------------------------------------------------------------------
(* Dropping expired records keeps the store's type and adds no record. *)
LEMMA ExpireKeeps ==
  ASSUME NEW r \in [Scopes -> Records \cup {None}]
  PROVE  /\ Expire(r) \in [Scopes -> Records \cup {None}]
         /\ \A s \in Scopes : r[s] = None => Expire(r)[s] = None
BY DEF Expire

(* Making room keeps the store's type and adds no record. *)
LEMMA MakeRoomKeeps ==
  ASSUME NEW r \in [Scopes -> Records \cup {None}], NEW p
  PROVE  /\ MakeRoom(r, p) \in [Scopes -> Records \cup {None}]
         /\ \A s \in Scopes : r[s] = None => MakeRoom(r, p)[s] = None
BY DEF MakeRoom

(* The initial store satisfies the inductive invariant. *)
LEMMA InitIInv == LedgerInit => LedgerIInv
<1> SUFFICES ASSUME LedgerInit PROVE LedgerIInv
  OBVIOUS
<1> USE LedgerAssumption DEF LedgerInit
<1>1. LedgerTypeOK
  BY DEF LedgerTypeOK, Times
<1>2. Reserved /\ OneLicence /\ NoAnswerBesideAction
  BY DEF Reserved, OneLicence, NoAnswerBesideAction, Held
<1>3. NothingForTheForgotten
  BY DEF NothingForTheForgotten
<1> QED
  BY <1>1, <1>2, <1>3 DEF LedgerIInv

(* admit lets a call through only when its scope has neither a record nor *)
(* a reservation.                                                         *)
LEMMA AdmittedScopeIsFree ==
  ASSUME LedgerTypeOK, NEW s \in Scopes, NEW d \in Digests, Answered(s, d) = None
  PROVE  Expire(records)[s] = None /\ inFlight[s] = None
<1>1. Expire(records)[s] \in Records \cup {None}
  BY ExpireKeeps DEF LedgerTypeOK
<1>2. CASE Expire(records)[s] # None
  <2>1. Expire(records)[s].outcome \in Terminal
    BY <1>1, <1>2 DEF Records
  <2> QED
    BY <1>2, <2>1, LedgerAssumption DEF Answered, Outcomes
<1>3. CASE Expire(records)[s] = None
  BY <1>3, LedgerAssumption DEF Answered
<1> QED
  BY <1>2, <1>3

LEMMA RefuseStep ==
  ASSUME LedgerIInv, NEW s \in Scopes, NEW d \in Digests, Refuse(s, d)
  PROVE  LedgerIInv'
<1> USE DEF Refuse, LedgerIInv
<1>1. /\ records' \in [Scopes -> Records \cup {None}]
      /\ \A x \in Scopes : records[x] = None => records'[x] = None
  BY ExpireKeeps DEF LedgerTypeOK
<1>2. LedgerTypeOK'
  BY <1>1 DEF LedgerTypeOK
<1>3. Reserved' /\ OneLicence'
  BY DEF Reserved, OneLicence, Held
<1>4. NoAnswerBesideAction'
  BY <1>1 DEF NoAnswerBesideAction, Held, LedgerTypeOK, Tickets
<1>5. NothingForTheForgotten'
  BY <1>1 DEF NothingForTheForgotten
<1> QED
  BY <1>2, <1>3, <1>4, <1>5

LEMMA ReserveStep ==
  ASSUME LedgerIInv, NEW t \in Calls, NEW s \in Scopes, NEW d \in Digests, Reserve(t, s, d)
  PROVE  LedgerIInv'
<1> USE DEF Reserve, LedgerIInv
<1>1. /\ records' \in [Scopes -> Records \cup {None}]
      /\ \A x \in Scopes : records[x] = None => records'[x] = None
  BY ExpireKeeps DEF LedgerTypeOK
<1>2. records'[s] = None /\ inFlight[s] = None
  BY AdmittedScopeIsFree
<1>3. [scope |-> s, digest |-> d, spent |-> FALSE] \in Tickets
  BY DEF Tickets
<1>4. LedgerTypeOK'
  BY <1>1, <1>3 DEF LedgerTypeOK
<1>5. \A u \in Calls : u # t => tickets'[u] = tickets[u]
  BY DEF LedgerTypeOK
<1>6. tickets'[t] = [scope |-> s, digest |-> d, spent |-> FALSE]
  BY DEF LedgerTypeOK
<1>7. \A u \in Calls : Held(u) => tickets[u].scope # s
  BY <1>2, LedgerAssumption DEF Reserved, Held, LedgerTypeOK, Tickets
<1>8. Reserved'
  BY <1>5, <1>6, <1>7 DEF Reserved, Held, LedgerTypeOK, Tickets
<1>9. OneLicence'
  BY <1>5, <1>6, <1>7 DEF OneLicence, Held
<1>10. NoAnswerBesideAction'
  BY <1>1, <1>2, <1>5, <1>6 DEF NoAnswerBesideAction, Held, LedgerTypeOK, Tickets
<1>11. NothingForTheForgotten'
  BY <1>1 DEF NothingForTheForgotten, LedgerTypeOK
<1> QED
  BY <1>4, <1>8, <1>9, <1>10, <1>11

LEMMA RecordStep ==
  ASSUME LedgerIInv, NEW t \in Calls, NEW o \in Outcomes, Record(t, o)
  PROVE  LedgerIInv'
<1> USE DEF LedgerIInv
<1> DEFINE s == tickets[t].scope
<1>1. /\ Held(t) /\ ~tickets[t].spent
      /\ tickets' = [tickets EXCEPT ![t].spent = TRUE]
      /\ UNCHANGED <<inFlight, forgotten, now>>
  BY DEF Record
<1>2. tickets[t] \in Tickets /\ s \in Scopes
  BY <1>1 DEF Held, LedgerTypeOK, Tickets
<1>3. /\ \A u \in Calls : u # t => tickets'[u] = tickets[u]
      /\ tickets'[t] = [tickets[t] EXCEPT !.spent = TRUE]
  BY <1>1 DEF LedgerTypeOK
<1>4. tickets'[t] \in Tickets /\ tickets'[t].scope = s /\ tickets'[t].digest = tickets[t].digest
      /\ tickets'[t].spent
  BY <1>2, <1>3 DEF Tickets
<1>5. /\ records' \in [Scopes -> Records \cup {None}]
      /\ \A x \in Scopes \ {s} : records[x] = None => records'[x] = None
      /\ inFlight[s] = None => records' = records
  <2>1. CASE IsTerminal(o) /\ Licensed(t)
    <3>1. PICK kept \in {o, "unknown"} :
             records' = [MakeRoom(records, s[1]) EXCEPT ![s] =
               [digest |-> tickets[t].digest, outcome |-> kept, at |-> now]]
      BY <2>1 DEF Record
    <3>2. [digest |-> tickets[t].digest, outcome |-> kept, at |-> now] \in Records
      BY <2>1, <1>2 DEF Records, Tickets, LedgerTypeOK, IsTerminal, Terminal
    <3>3. /\ MakeRoom(records, s[1]) \in [Scopes -> Records \cup {None}]
          /\ \A x \in Scopes : records[x] = None => MakeRoom(records, s[1])[x] = None
      BY MakeRoomKeeps DEF LedgerTypeOK
    <3> QED
      BY <2>1, <3>1, <3>2, <3>3, <1>2 DEF Licensed
  <2>2. CASE ~(IsTerminal(o) /\ Licensed(t))
    BY <2>2 DEF Record, LedgerTypeOK
  <2> QED
    BY <2>1, <2>2
<1>6. LedgerTypeOK'
  BY <1>1, <1>3, <1>4, <1>5 DEF LedgerTypeOK
<1>7. \A u \in Calls : Held(u)' => Held(u) /\ (u # t => tickets'[u] = tickets[u])
  BY <1>1, <1>3 DEF Held
<1>8. Reserved'
  BY <1>1, <1>3, <1>4 DEF Reserved, Held
<1>9. OneLicence'
  BY <1>1, <1>3, <1>4 DEF OneLicence, Held
<1>10. NoAnswerBesideAction'
  <2> SUFFICES ASSUME NEW u \in Calls, Held(u)', ~tickets'[u].spent
               PROVE  records'[tickets'[u].scope] = None
    BY DEF NoAnswerBesideAction, Held
  <2>1. u # t /\ tickets'[u] = tickets[u] /\ Held(u)
    BY <1>3, <1>4, <1>7
  <2>2. tickets[u].scope # s /\ tickets[u].scope \in Scopes
    BY <2>1, <1>1 DEF OneLicence, Held, LedgerTypeOK, Tickets
  <2> QED
    BY <2>1, <2>2, <1>5 DEF NoAnswerBesideAction
<1>11. NothingForTheForgotten'
  BY <1>1, <1>2, <1>5 DEF NothingForTheForgotten
<1> QED
  BY <1>6, <1>8, <1>9, <1>10, <1>11

LEMMA ReleaseStep ==
  ASSUME LedgerIInv, NEW t \in Calls, Release(t)
  PROVE  LedgerIInv'
<1> USE DEF Release, LedgerIInv
<1>1. LedgerTypeOK'
  BY DEF LedgerTypeOK
<1>2. \A u \in Calls : Held(u)' => u # t /\ Held(u) /\ tickets'[u] = tickets[u]
  BY DEF Held, LedgerTypeOK
<1>3. \A u \in Calls : Held(u)' => tickets[u].scope # tickets[t].scope
  BY <1>2 DEF OneLicence
<1>4. Reserved'
  BY <1>2, <1>3 DEF Reserved, Held, LedgerTypeOK, Tickets
<1>5. OneLicence' /\ NoAnswerBesideAction'
  BY <1>2 DEF OneLicence, NoAnswerBesideAction, Held
<1>6. NothingForTheForgotten'
  BY DEF NothingForTheForgotten, LedgerTypeOK
<1> QED
  BY <1>1, <1>4, <1>5, <1>6

LEMMA ForgetStep ==
  ASSUME LedgerIInv, NEW p \in Principals, ForgetPrincipal(p)
  PROVE  LedgerIInv'
<1> USE DEF ForgetPrincipal, LedgerIInv
<1>1. LedgerTypeOK'
  BY DEF LedgerTypeOK
<1>2. Reserved'
  BY DEF Reserved, Held, LedgerTypeOK, Tickets
<1>3. OneLicence'
  BY DEF OneLicence, Held
<1>4. NoAnswerBesideAction'
  BY DEF NoAnswerBesideAction, Held, LedgerTypeOK, Tickets
<1>5. NothingForTheForgotten'
  BY DEF NothingForTheForgotten
<1> QED
  BY <1>1, <1>2, <1>3, <1>4, <1>5

(* Steps that leave the maps and the tickets alone. *)
LEMMA IdleStep ==
  ASSUME LedgerIInv, Tick \/ UNCHANGED ledgerVars
  PROVE  LedgerIInv'
BY DEF LedgerIInv, Tick, ledgerVars, LedgerTypeOK, Reserved, OneLicence,
       NoAnswerBesideAction, NothingForTheForgotten, Held

(* The inductive invariant holds of every reachable store. *)
THEOREM LedgerInvariant == LedgerSpec => []LedgerIInv
<1>1. LedgerIInv /\ [LedgerNext]_ledgerVars => LedgerIInv'
  BY RefuseStep, ReserveStep, RecordStep, ReleaseStep, ForgetStep, IdleStep DEF LedgerNext
<1> QED
  BY InitIInv, <1>1, PTL DEF LedgerSpec

(* The store's variables keep their types. *)
THEOREM LedgerTypeCorrect == LedgerSpec => []LedgerTypeOK
<1>1. LedgerIInv => LedgerTypeOK
  BY DEF LedgerIInv
<1> QED
  BY LedgerInvariant, <1>1, PTL

(* Whatever closes, expires or is evicted, admit never has two live calls  *)
(* of one scope outside the ledger at a time.                              *)
THEOREM LedgerOneLicence == LedgerSpec => []OneLicence
<1>1. LedgerIInv => OneLicence
  BY DEF LedgerIInv
<1> QED
  BY LedgerInvariant, <1>1, PTL

(* A call that may still act never runs beside a retained answer for its   *)
(* own scope.                                                              *)
THEOREM LedgerNoAnswerBesideAction == LedgerSpec => []NoAnswerBesideAction
<1>1. LedgerIInv => NoAnswerBesideAction
  BY DEF LedgerIInv
<1> QED
  BY LedgerInvariant, <1>1, PTL

(* A late response worker of a closed connection never leaves a record or  *)
(* a reservation behind.                                                   *)
THEOREM LedgerNothingForTheForgotten == LedgerSpec => []NothingForTheForgotten
<1>1. LedgerIInv => NothingForTheForgotten
  BY DEF LedgerIInv
<1> QED
  BY LedgerInvariant, <1>1, PTL
-----------------------------------------------------------------------------
(* The shares of the cap.                                                   *)

(* The scopes are finitely many, and so is what one principal holds. *)
LEMMA ScopesFinite ==
  /\ IsFiniteSet(Scopes)
  /\ Cardinality(Principals) \in Nat
  /\ \A r, p : /\ IsFiniteSet(HeldBy(r, p)) /\ Cardinality(HeldBy(r, p)) \in Nat
               /\ IsFiniteSet(Recorded(r)) /\ Cardinality(Recorded(r)) \in Nat
<1>1. IsFiniteSet(Scopes)
  BY LedgerAssumption, FS_Product DEF Scopes
<1>2. ASSUME NEW r, NEW p
      PROVE /\ IsFiniteSet(HeldBy(r, p)) /\ Cardinality(HeldBy(r, p)) \in Nat
            /\ IsFiniteSet(Recorded(r)) /\ Cardinality(Recorded(r)) \in Nat
  <2>1. HeldBy(r, p) \subseteq Scopes /\ Recorded(r) \subseteq Scopes
    BY DEF HeldBy, Recorded
  <2>2. IsFiniteSet(HeldBy(r, p)) /\ IsFiniteSet(Recorded(r))
    BY <1>1, <2>1, FS_Subset
  <2> QED BY <2>2, FS_CardinalityType
<1>3. Cardinality(Principals) \in Nat
  BY LedgerAssumption, FS_CardinalityType
<1> QED BY <1>1, <1>2, <1>3

(* A finite set is counted off one to one by the numbers to any bound on it. *)
LEMMA CountedOff ==
  ASSUME NEW S, IsFiniteSet(S), NEW B \in Nat, Cardinality(S) <= B
  PROVE  \E f \in [S -> 1 .. B] : \A x, y \in S : f[x] = f[y] => x = y
<1> DEFINE n == Cardinality(S)
<1>1. n \in Nat /\ ExistsBijection(1 .. n, S)
  BY FS_CardinalityType
<1>2. PICK g \in [1 .. n -> S] : \A y \in S : \E x \in 1 .. n : g[x] = y
  BY <1>1 DEF ExistsBijection, Bijection, Surjection
<1> DEFINE f == [y \in S |-> CHOOSE x \in 1 .. n : g[x] = y]
<1>3. \A y \in S : f[y] \in 1 .. n /\ g[f[y]] = y
  BY <1>2
<1>4. f \in [S -> 1 .. B]
  <2> HIDE DEF n
  <2> QED BY <1>1, <1>3 DEF n
<1>5. \A x, y \in S : f[x] = f[y] => x = y
  <2> HIDE DEF f
  <2> QED BY <1>3
<1> HIDE DEF f
<1> QED BY <1>4, <1>5

(* If no principal holds more than B records the store holds at most B for *)
(* each of them.                                                            *)
LEMMA SharesAddUp ==
  ASSUME NEW r, NEW B \in Nat, \A q \in Principals : Cardinality(HeldBy(r, q)) <= B
  PROVE  Cardinality(Recorded(r)) <= Cardinality(Principals) * B
<1> DEFINE Counts(q, f) == /\ f \in [HeldBy(r, q) -> 1 .. B]
                           /\ \A x, y \in HeldBy(r, q) : f[x] = f[y] => x = y
           F == [q \in Principals |-> CHOOSE f : Counts(q, f)]
           T == Principals \X (1 .. B)
           g == [s \in Recorded(r) |-> <<s[1], F[s[1]][s]>>]
<1>1. \A q \in Principals : Counts(q, F[q])
  <2> SUFFICES ASSUME NEW q \in Principals PROVE Counts(q, F[q])
    OBVIOUS
  <2>1. \E f : Counts(q, f)
    BY ScopesFinite, CountedOff
  <2>2. F[q] = CHOOSE f : Counts(q, f)
    OBVIOUS
  <2> HIDE DEF Counts, F
  <2> QED BY <2>1, <2>2
<1>2. \A s \in Recorded(r) : s[1] \in Principals /\ s \in HeldBy(r, s[1])
  BY DEF Recorded, HeldBy, Scopes
<1> HIDE DEF F
<1>3. g \in [Recorded(r) -> T]
  BY <1>1, <1>2
<1>4. ASSUME NEW x \in Recorded(r), NEW y \in Recorded(r), g[x] = g[y] PROVE x = y
  <2>1. x[1] = y[1] /\ F[x[1]][x] = F[y[1]][y]
    BY <1>4
  <2>2. x \in HeldBy(r, x[1]) /\ y \in HeldBy(r, x[1]) /\ x[1] \in Principals
    BY <1>2, <2>1
  <2> QED BY <1>1, <2>1, <2>2
<1>5. IsFiniteSet(1 .. B) /\ Cardinality(1 .. B) = B
  BY FS_Interval
<1>6. IsFiniteSet(T) /\ Cardinality(T) = Cardinality(Principals) * B
  BY <1>5, LedgerAssumption, FS_Product
<1> HIDE DEF g, T
<1>7. g \in Injection(Recorded(r), T)
  BY <1>3, <1>4 DEF Injection, IsInjective
<1> QED BY <1>6, <1>7, FS_Injection

(* Whom room is taken from: a principal that holds at least its share.      *)
LEMMA RoomFromTheFullest ==
  ASSUME LedgerTypeOK, NEW p, NEW s \in Scopes,
         records[s] # None, MakeRoom(records, p)[s] = None
  PROVE  Cardinality(HeldBy(records, s[1])) * Cardinality(Principals) >= MaxEntries
<1>1. Cardinality(Recorded(records)) >= MaxEntries /\ Victim(records, p, s)
  BY DEF MakeRoom
<1> DEFINE B == Cardinality(HeldBy(records, s[1]))
<1>2. B \in Nat /\ Cardinality(Principals) \in Nat /\ Cardinality(Recorded(records)) \in Nat
      /\ MaxEntries \in Nat
  BY ScopesFinite, LedgerAssumption
<1>3. \A q \in Principals : Cardinality(HeldBy(records, q)) <= B
  <2> SUFFICES ASSUME NEW q \in Principals PROVE Cardinality(HeldBy(records, q)) <= B
    OBVIOUS
  <2>1. Cardinality(HeldBy(records, q)) \in Nat
    BY ScopesFinite
  <2>2. CASE q = s[1]
    BY <1>2, <2>1, <2>2
  <2>3. CASE q # s[1]
    BY <1>1, <1>2, <2>1, <2>3 DEF Victim, Fullest
  <2> QED BY <2>2, <2>3
<1> HIDE DEF B
<1>4. Cardinality(Recorded(records)) <= Cardinality(Principals) * B
  BY <1>2, <1>3, SharesAddUp
<1>5. /\ Cardinality(Principals) * B = B * Cardinality(Principals)
      /\ Cardinality(Principals) * B \in Nat
  BY <1>2
<1>6. B * Cardinality(Principals) >= MaxEntries
  BY <1>1, <1>2, <1>4, <1>5
<1> QED BY <1>6 DEF B

(* A record goes because it is stale, because its principal's connection    *)
(* closed, or because its principal held its share of the cap or more.      *)
THEOREM LedgerShareIsKept == LedgerSpec => ShareIsKept
<1> DEFINE Kept == \A s \in Scopes :
                     records[s] # None /\ records'[s] = None
                       /\ ~Stale(records[s]) /\ forgotten' = forgotten
                     => Cardinality(HeldBy(records, s[1])) * Cardinality(Principals) >= MaxEntries
<1>1. LedgerTypeOK /\ [LedgerNext]_ledgerVars => [Kept]_ledgerVars
  <2> SUFFICES ASSUME LedgerTypeOK, [LedgerNext]_ledgerVars, NEW s \in Scopes,
                      records[s] # None, records'[s] = None, ~Stale(records[s]),
                      forgotten' = forgotten
               PROVE  Cardinality(HeldBy(records, s[1])) * Cardinality(Principals) >= MaxEntries
    OBVIOUS
  <2>1. Expire(records)[s] # None
    BY DEF Expire
  <2>2. ASSUME NEW x \in Scopes, NEW d \in Digests, Refuse(x, d) PROVE FALSE
    BY <2>1, <2>2 DEF Refuse
  <2>3. ASSUME NEW t \in Calls, NEW x \in Scopes, NEW d \in Digests, Reserve(t, x, d) PROVE FALSE
    BY <2>1, <2>3 DEF Reserve
  <2>4. ASSUME NEW t \in Calls, NEW o \in Outcomes, Record(t, o)
        PROVE Cardinality(HeldBy(records, s[1])) * Cardinality(Principals) >= MaxEntries
    <3> DEFINE own == tickets[t].scope
               room == MakeRoom(records, own[1])
    <3>1. PICK kept \in {o, "unknown"} :
            records' = [room EXCEPT ![own] =
              [digest |-> tickets[t].digest, outcome |-> kept, at |-> now]]
      BY <2>4 DEF Record
    <3>2. tickets[t] \in Tickets /\ IsTerminal(o)
      BY <2>4 DEF Record, Held, LedgerTypeOK
    <3>3. [digest |-> tickets[t].digest, outcome |-> kept, at |-> now] # None
      <4>1. [digest |-> tickets[t].digest, outcome |-> kept, at |-> now] \in Records
        BY <3>2 DEF Tickets, Records, LedgerTypeOK, IsTerminal, Terminal
      <4> QED BY <4>1, LedgerAssumption
    <3>4. room \in [Scopes -> Records \cup {None}]
      BY MakeRoomKeeps DEF LedgerTypeOK
    <3> HIDE DEF room
    <3>5. room[s] = None
      BY <3>1, <3>3, <3>4
    <3> QED BY <3>5, RoomFromTheFullest DEF room
  <2>5. ASSUME NEW t \in Calls, Release(t) PROVE FALSE
    BY <2>5 DEF Release
  <2>6. ASSUME NEW p \in Principals, ForgetPrincipal(p) PROVE FALSE
    BY <2>6 DEF ForgetPrincipal
  <2>7. CASE Tick \/ UNCHANGED ledgerVars
    BY <2>7 DEF Tick, ledgerVars
  <2> QED BY <2>2, <2>3, <2>4, <2>5, <2>6, <2>7 DEF LedgerNext
<1> QED BY LedgerTypeCorrect, <1>1, PTL DEF LedgerSpec, ShareIsKept
-----------------------------------------------------------------------------
(* The cap.                                                                 *)

(* The store never holds more than its cap. *)
WithinCap == Cardinality(Recorded(records)) <= MaxEntries

(* A set of naturals has a least member. *)
LEMMA LeastOf ==
  ASSUME NEW T, T \subseteq Nat, T # {}
  PROVE  \E x \in T : \A y \in T : x <= y
<1> DEFINE R == {ss \in Nat \X Nat : ss[1] < ss[2]}
<1>1. IsWellFoundedOn(R, Nat)
  BY NatLessThanWellFounded DEF OpToRel
<1> HIDE DEF R
<1>2. PICK x \in T : \A y \in T : ~(<<y, x>> \in R)
  BY <1>1, WFMin
<1>3. \A y \in T : ~(y < x)
  BY <1>2 DEF R
<1> QED BY <1>2, <1>3

(* What is counted up to a bound is counted most somewhere. *)
LEMMA MostOf ==
  ASSUME NEW S, S # {}, NEW B \in Nat, NEW h \in [S -> 0 .. B]
  PROVE  \E q \in S : \A x \in S : h[x] <= h[q]
<1> DEFINE T == {B - h[x] : x \in S}
<1>1. T \subseteq Nat /\ T # {}
  OBVIOUS
<1> HIDE DEF T
<1>2. PICK b \in T : \A y \in T : b <= y
  BY <1>1, LeastOf
<1>3. PICK q \in S : b = B - h[q]
  BY <1>2 DEF T
<1>4. ASSUME NEW x \in S PROVE h[x] <= h[q]
  <2>1. B - h[x] \in T
    BY DEF T
  <2>2. B - h[q] <= B - h[x] /\ h[q] \in Int /\ h[x] \in Int
    BY <1>2, <1>3, <2>1
  <2> QED BY <2>2
<1> QED BY <1>4

(* A finite set of naturals has a greatest member: the one that most of the *)
(* others are below.                                                        *)
LEMMA GreatestOf ==
  ASSUME NEW S, S \subseteq Nat, IsFiniteSet(S), S # {}
  PROVE  \E q \in S : \A x \in S : x <= q
<1> DEFINE under(q) == {x \in S : x < q}
           h == [q \in S |-> Cardinality(under(q))]
           B == Cardinality(S)
<1>1. \A q \in S : under(q) \in SUBSET S
  OBVIOUS
<1>2. \A q \in S : /\ IsFiniteSet(under(q)) /\ Cardinality(under(q)) \in Nat
                  /\ Cardinality(under(q)) <= B
  <2> SUFFICES ASSUME NEW q \in S
               PROVE IsFiniteSet(under(q)) /\ Cardinality(under(q)) \in Nat
                     /\ Cardinality(under(q)) <= B
    OBVIOUS
  <2>1. under(q) \in SUBSET S
    OBVIOUS
  <2> HIDE DEF under
  <2>2. IsFiniteSet(under(q)) /\ Cardinality(under(q)) <= B
    BY <2>1, FS_Subset
  <2> QED BY <2>2, FS_CardinalityType
<1>3. B \in Nat
  BY FS_CardinalityType
<1>4. h \in [S -> 0 .. B]
  <2> HIDE DEF under, B
  <2> QED BY <1>2, <1>3
<1>5. PICK q \in S : \A x \in S : h[x] <= h[q]
  <2> HIDE DEF h, B
  <2> QED BY <1>3, <1>4, MostOf
<1>6. ASSUME NEW x \in S, q < x PROVE FALSE
  <2>1. under(q) \cup {q} \subseteq under(x) /\ q \notin under(q)
    <3>1. q \in Nat /\ x \in Nat
      OBVIOUS
    <3>2. ASSUME NEW y \in under(q) PROVE y \in under(x)
      <4>1. y \in S /\ y \in Nat /\ y < q
        OBVIOUS
      <4>2. y < x
        BY <1>6, <3>1, <4>1
      <4> QED BY <4>1, <4>2
    <3>3. q \in under(x) /\ q \notin under(q)
      BY <1>6, <3>1
    <3> HIDE DEF under
    <3> QED BY <3>2, <3>3
  <2>2. h[x] <= h[q] /\ h[x] = Cardinality(under(x)) /\ h[q] = Cardinality(under(q))
    BY <1>5
  <2> HIDE DEF under, h
  <2>3. /\ IsFiniteSet(under(q) \cup {q})
        /\ Cardinality(under(q) \cup {q}) = Cardinality(under(q)) + 1
    BY <1>2, <2>1, FS_AddElement
  <2>4. Cardinality(under(q)) + 1 <= Cardinality(under(x))
    BY <1>2, <2>1, <2>3, FS_Subset
  <2> QED BY <1>2, <2>2, <2>4
<1>7. \A x \in S : x <= q
  BY <1>6
<1> QED BY <1>7

(* Some principal is the fullest, whoever the room is for. *)
LEMMA SomeFullest ==
  ASSUME NEW r, NEW p, Recorded(r) # {}
  PROVE  \E q \in Principals : Fullest(r, p, q) /\ HeldBy(r, q) # {}
<1> DEFINE h == [q \in Principals |-> Cardinality(HeldBy(r, q))]
           B == Cardinality(Recorded(r))
<1>1. PICK s \in Recorded(r) : TRUE
  OBVIOUS
<1>2. s[1] \in Principals /\ s \in HeldBy(r, s[1])
  BY <1>1 DEF Recorded, HeldBy, Scopes
<1>3. B \in Nat
  BY ScopesFinite
<1>4. \A q \in Principals : Cardinality(HeldBy(r, q)) \in 0 .. B
  <2> SUFFICES ASSUME NEW q \in Principals PROVE Cardinality(HeldBy(r, q)) \in 0 .. B
    OBVIOUS
  <2>1. HeldBy(r, q) \in SUBSET Recorded(r)
    BY DEF HeldBy
  <2>2. Cardinality(HeldBy(r, q)) <= B /\ Cardinality(HeldBy(r, q)) \in Nat
    BY <2>1, ScopesFinite, FS_Subset
  <2> HIDE DEF B
  <2> QED BY <1>3, <2>2
<1>5. h \in [Principals -> 0 .. B]
  BY <1>4
<1> HIDE DEF B
<1>6. PICK m \in Principals : \A x \in Principals : h[x] <= h[m]
  <2> HIDE DEF h
  <2> QED BY <1>2, <1>3, <1>5, MostOf
<1> DEFINE tied == {q \in Principals : h[q] = h[m]}
<1>7. \A q \in Principals : h[q] = Cardinality(HeldBy(r, q)) /\ h[q] \in Nat
  BY <1>4
<1> HIDE DEF h
<1>8. \A q \in tied : HeldBy(r, q) # {}
  <2> SUFFICES ASSUME NEW q \in tied, HeldBy(r, q) = {} PROVE FALSE
    OBVIOUS
  <2>1. h[q] = 0 /\ h[s[1]] <= h[q]
    BY <1>2, <1>6, <1>7, FS_EmptySet
  <2>2. Cardinality(HeldBy(r, s[1])) = 0
    BY <1>2, <1>7, <2>1
  <2>3. HeldBy(r, s[1]) = {}
    BY <2>2, ScopesFinite, FS_EmptySet
  <2> QED BY <1>2, <2>3
<1>9. CASE p \in tied
  <2>1. Fullest(r, p, p)
    <3> SUFFICES ASSUME NEW q \in Principals \ {p}
                 PROVE \/ Cardinality(HeldBy(r, q)) < Cardinality(HeldBy(r, p))
                       \/ Cardinality(HeldBy(r, q)) = Cardinality(HeldBy(r, p)) /\ q # p
      BY DEF Fullest
    <3>1. h[q] <= h[p]
      BY <1>6, <1>9
    <3> QED BY <1>7, <1>9, <3>1
  <2> QED BY <1>8, <1>9, <2>1
<1>10. CASE p \notin tied
  <2>1. tied \subseteq Nat /\ IsFiniteSet(tied) /\ tied # {}
    BY LedgerAssumption, FS_Subset
  <2>2. PICK g \in tied : \A x \in tied : x <= g
    <3> HIDE DEF tied
    <3> QED BY <2>1, GreatestOf
  <2>3. Fullest(r, p, g)
    <3> SUFFICES ASSUME NEW q \in Principals \ {g}
                 PROVE \/ Cardinality(HeldBy(r, q)) < Cardinality(HeldBy(r, g))
                       \/ /\ Cardinality(HeldBy(r, q)) = Cardinality(HeldBy(r, g))
                          /\ q # p /\ (g = p \/ q < g)
      BY DEF Fullest
    <3>1. h[q] <= h[g] /\ h[q] \in Nat /\ h[g] \in Nat
      BY <1>6, <1>7, <2>2
    <3>2. CASE h[q] < h[g]
      BY <1>7, <2>2, <3>2
    <3>3. CASE h[q] = h[g]
      <4>1. q \in tied
        BY <2>2, <3>3
      <4>2. q <= g /\ q # g /\ q \in Nat /\ g \in Nat
        BY <2>1, <2>2, <4>1
      <4>3. q < g /\ q # p
        BY <1>10, <4>1, <4>2
      <4> QED BY <1>7, <2>2, <3>3, <4>3
    <3> QED BY <3>1, <3>2, <3>3
  <2> QED BY <1>8, <2>2, <2>3
<1> QED BY <1>9, <1>10

(* Of what a principal holds, one is the oldest. *)
LEMMA SomeOldest ==
  ASSUME NEW r \in [Scopes -> Records \cup {None}], NEW q, HeldBy(r, q) # {}
  PROVE  \E s \in HeldBy(r, q) : Oldest(r, s)
<1> DEFINE T == {r[s].at : s \in HeldBy(r, q)}
<1>1. \A s \in HeldBy(r, q) : s \in Scopes /\ s[1] = q /\ r[s].at \in Nat
  BY DEF HeldBy, Recorded, Records, Times
<1>2. T \subseteq Nat /\ T # {}
  BY <1>1
<1>3. PICK a \in T : \A y \in T : a <= y
  <2> HIDE DEF T
  <2> QED BY <1>2, LeastOf
<1> DEFINE first == {s \in HeldBy(r, q) : r[s].at = a}
           K == {s[2] : s \in first}
<1>4. K \subseteq Nat /\ K # {}
  <2>1. \A s \in first : s[2] \in Nat
    <3> SUFFICES ASSUME NEW s \in first PROVE s[2] \in Nat
      OBVIOUS
    <3>1. s \in Principals \X Keys
      BY <1>1 DEF Scopes
    <3> QED BY <3>1, LedgerAssumption
  <2>2. first # {}
    BY <1>3
  <2> HIDE DEF first
  <2> QED BY <2>1, <2>2
<1>5. PICK k \in K : \A y \in K : k <= y
  <2> HIDE DEF K
  <2> QED BY <1>4, LeastOf
<1>6. PICK s \in first : s[2] = k
  BY <1>5
<1>7. Oldest(r, s)
  <2> SUFFICES ASSUME NEW x \in HeldBy(r, s[1]) \ {s}
               PROVE r[s].at < r[x].at \/ (r[s].at = r[x].at /\ s[2] < x[2])
    BY DEF Oldest
  <2>1. x \in HeldBy(r, q) /\ x # s
    BY <1>1, <1>6
  <2>2. r[x].at \in T /\ r[s].at = a
    BY <1>6, <2>1
  <2>3. a <= r[x].at /\ a \in Nat /\ r[x].at \in Nat
    BY <1>1, <1>2, <1>3, <2>1, <2>2
  <2>4. CASE r[x].at = a
    <3>1. x[2] \in K
      BY <2>1, <2>4
    <3>2. k <= x[2] /\ k \in Nat /\ x[2] \in Nat
      <4> HIDE DEF K
      <4> QED BY <1>4, <1>5, <3>1
    <3>3. x[2] # k
      <4>1. x \in Scopes /\ s \in Scopes /\ x[1] = s[1]
        BY <1>1, <1>6, <2>1
      <4> QED BY <1>6, <2>1, <4>1 DEF Scopes
    <3> QED BY <1>6, <2>2, <2>4, <3>2, <3>3
  <2> QED BY <2>2, <2>3, <2>4
<1> QED BY <1>6, <1>7

(* A full store always has a record to give. *)
LEMMA SomeVictim ==
  ASSUME LedgerTypeOK, NEW p, Cardinality(Recorded(records)) >= MaxEntries
  PROVE  \E v \in Recorded(records) : MakeRoom(records, p)[v] = None
<1>1. Recorded(records) # {}
  <2>1. CASE Recorded(records) = {}
    BY <2>1, FS_EmptySet, LedgerAssumption
  <2> QED BY <2>1
<1>2. PICK q \in Principals : Fullest(records, p, q) /\ HeldBy(records, q) # {}
  BY <1>1, SomeFullest
<1>3. PICK v \in HeldBy(records, q) : Oldest(records, v)
  BY <1>2, SomeOldest DEF LedgerTypeOK
<1>4. v \in Recorded(records) /\ v \in Scopes /\ v[1] = q /\ records[v] # None
  BY <1>3 DEF HeldBy, Recorded
<1>5. Victim(records, p, v)
  BY <1>2, <1>3, <1>4 DEF Victim
<1> QED BY <1>4, <1>5 DEF MakeRoom

(* A store that holds no record but some of another's is no fuller. *)
LEMMA NoFuller ==
  ASSUME NEW r, NEW q, \A s \in Scopes : r[s] = None => q[s] = None
  PROVE  Cardinality(Recorded(q)) <= Cardinality(Recorded(r))
<1>1. Recorded(q) \in SUBSET Recorded(r)
  BY DEF Recorded
<1> QED BY <1>1, ScopesFinite, FS_Subset

(* Recording makes room first, and finds some. *)
LEMMA RecordWithinCap ==
  ASSUME LedgerTypeOK, WithinCap, NEW t \in Calls, NEW o \in Outcomes, Record(t, o)
  PROVE  WithinCap'
<1> DEFINE own == tickets[t].scope
           room == MakeRoom(records, own[1])
           C(r) == Cardinality(Recorded(r))
<1>1. MaxEntries \in Nat /\ \A r : C(r) \in Nat
  BY ScopesFinite, LedgerAssumption
<1>2. CASE records' = records
  BY <1>2 DEF WithinCap
<1>3. CASE \E kept \in {o, "unknown"} :
             records' = [room EXCEPT ![own] =
               [digest |-> tickets[t].digest, outcome |-> kept, at |-> now]]
  <2>1. room \in [Scopes -> Records \cup {None}]
        /\ \A x \in Scopes : records[x] = None => room[x] = None
    BY MakeRoomKeeps DEF LedgerTypeOK
  <2>2. C(room) + 1 <= MaxEntries
    <3>1. CASE C(records) >= MaxEntries
      <4>1. PICK v \in Recorded(records) : room[v] = None
        BY <3>1, SomeVictim
      <4> HIDE DEF room
      <4>2. Recorded(room) \in SUBSET (Recorded(records) \ {v})
        BY <2>1, <4>1 DEF Recorded
      <4>3. /\ IsFiniteSet(Recorded(records) \ {v})
            /\ Cardinality(Recorded(records) \ {v}) = C(records) - 1
        BY <4>1, ScopesFinite, FS_RemoveElement
      <4>4. C(room) <= C(records) - 1
        BY <4>2, <4>3, FS_Subset
      <4> HIDE DEF C
      <4>5. C(records) <= MaxEntries
        BY DEF WithinCap, C
      <4> QED BY <1>1, <4>4, <4>5
    <3>2. CASE ~(C(records) >= MaxEntries)
      <4>1. C(room) <= C(records)
        <5> HIDE DEF room
        <5> QED BY <2>1, NoFuller
      <4> HIDE DEF C, room
      <4> QED BY <1>1, <3>2, <4>1
    <3> QED BY <3>1, <3>2
  <2>3. Recorded(records') \in SUBSET (Recorded(room) \cup {own})
    <3> HIDE DEF room
    <3> QED BY <1>3, <2>1 DEF Recorded
  <2>4. /\ IsFiniteSet(Recorded(room) \cup {own})
        /\ Cardinality(Recorded(room) \cup {own}) <= C(room) + 1
    <3>1. /\ IsFiniteSet(Recorded(room) \cup {own})
          /\ Cardinality(Recorded(room) \cup {own}) =
               IF own \in Recorded(room) THEN C(room) ELSE C(room) + 1
      <4> HIDE DEF room, own
      <4> QED BY ScopesFinite, FS_AddElement
    <3>2. C(room) \in Nat
      BY <1>1
    <3> HIDE DEF C, room, own
    <3> QED BY <3>1, <3>2
  <2>5. C(records') <= C(room) + 1
    <3>1. Cardinality(Recorded(records')) <= Cardinality(Recorded(room) \cup {own})
      BY <2>3, <2>4, FS_Subset
    <3>2. C(records') \in Nat /\ C(room) \in Nat
      BY <1>1
    <3>3. Cardinality(Recorded(room) \cup {own}) \in Nat
      BY <2>4, FS_CardinalityType
    <3> HIDE DEF room, own
    <3> QED BY <2>4, <3>1, <3>2, <3>3
  <2>6. C(records') <= MaxEntries
    <3>1. C(records') \in Nat /\ C(room) \in Nat
      BY <1>1
    <3> HIDE DEF C, room
    <3> QED BY <1>1, <2>2, <2>5, <3>1
  <2> QED BY <2>6 DEF WithinCap
<1> QED BY <1>2, <1>3 DEF Record

(* Every insertion makes room before it stores, and a full store always has *)
(* a record to give: the cap holds whatever clients connect, retry, finish  *)
(* and go (IdempotencyStore::record).                                       *)
THEOREM LedgerWithinCap == LedgerSpec => []WithinCap
<1>1. LedgerInit => WithinCap
  <2> SUFFICES ASSUME LedgerInit PROVE WithinCap
    OBVIOUS
  <2>1. Recorded(records) = {}
    BY DEF LedgerInit, Recorded
  <2> QED BY <2>1, FS_EmptySet, LedgerAssumption DEF WithinCap
<1>2. LedgerTypeOK /\ WithinCap /\ [LedgerNext]_ledgerVars => WithinCap'
  <2> SUFFICES ASSUME LedgerTypeOK, WithinCap, [LedgerNext]_ledgerVars PROVE WithinCap'
    OBVIOUS
  <2>1. ASSUME \A s \in Scopes : records[s] = None => records'[s] = None PROVE WithinCap'
    <3>1. Cardinality(Recorded(records')) <= Cardinality(Recorded(records))
      BY <2>1, NoFuller
    <3>2. /\ Cardinality(Recorded(records')) \in Nat /\ Cardinality(Recorded(records)) \in Nat
          /\ MaxEntries \in Nat
      BY ScopesFinite, LedgerAssumption
    <3> QED BY <3>1, <3>2 DEF WithinCap
  <2>2. ASSUME NEW t \in Calls, NEW o \in Outcomes, Record(t, o) PROVE WithinCap'
    BY <2>2, RecordWithinCap
  <2>3. \A s \in Scopes : records[s] = None => Expire(records)[s] = None
    BY DEF Expire
  <2>4. ASSUME NEW s \in Scopes, NEW d \in Digests, Refuse(s, d) PROVE WithinCap'
    BY <2>1, <2>3, <2>4 DEF Refuse
  <2>5. ASSUME NEW t \in Calls, NEW s \in Scopes, NEW d \in Digests, Reserve(t, s, d)
        PROVE WithinCap'
    BY <2>1, <2>3, <2>5 DEF Reserve
  <2>6. ASSUME NEW p \in Principals, ForgetPrincipal(p) PROVE WithinCap'
    BY <2>1, <2>6 DEF ForgetPrincipal
  <2>7. CASE (\E t \in Calls : Release(t)) \/ Tick \/ UNCHANGED ledgerVars
    BY <2>7 DEF Release, Tick, ledgerVars, WithinCap
  <2> QED BY <2>2, <2>4, <2>5, <2>6, <2>7 DEF LedgerNext
<1> QED BY <1>1, <1>2, LedgerTypeCorrect, PTL DEF LedgerSpec
-----------------------------------------------------------------------------
(* The calls in the application's queue, each there once. *)
Lined == {queue[i] : i \in DOMAIN queue}
LinedOnce == \A i, j \in DOMAIN queue : queue[i] = queue[j] => i = j

CallTypes ==
  /\ access \in {"enabled", "disabling", "disabled"}
  /\ call \in [Calls -> Frames \cup {None}]
  /\ stage \in [Calls -> Stages]
  /\ dispatch \in [Calls -> {"QUEUED", "STARTED", "CANCELLED"}]
  /\ overdue \subseteq Calls /\ timedOut \subseteq overdue /\ effect \subseteq Calls
  /\ queue \in Seq(Calls) /\ running \in Calls \cup {None}
  /\ reply \in [Calls -> Outcomes \cup {"dropped", None}]
  /\ outcome \in [Calls -> Outcomes \cup {None}]
  /\ answer \in [Calls -> Outcomes \cup {"duplicate", "conflict", "in_progress", None}]

(* The call was never handed to the application thread. *)
Undispatched(k) ==
  stage[k] \in {"idle", "admitted"} \/ (stage[k] = "done" /\ outcome[k] = None)

(* Where the call is on its way to the application thread and back: the    *)
(* reply comes once, after the call left the queue and stopped running.    *)
Handed(k) ==
  /\ stage[k] # "idle" => call[k] \in Requests
  /\ Undispatched(k) => /\ dispatch[k] = "QUEUED" /\ reply[k] = None /\ outcome[k] = None
                        /\ k \notin Lined /\ running # k
  /\ k \in Lined => dispatch[k] # "STARTED" /\ reply[k] = None /\ running # k
  /\ running = k => dispatch[k] = "STARTED" /\ reply[k] = None
  /\ reply[k] = "success" => dispatch[k] = "STARTED"
  /\ reply[k] = "success" /\ call[k].kind = "action" => k \in effect
  /\ k \in effect => /\ reply[k] \in {"success", "refused"} /\ call[k].kind = "action"
                     /\ dispatch[k] = "STARTED"

(* What the worker has made of it: which outcome it may have settled on,   *)
(* and what the client has been sent.                                      *)
Said(k) ==
  /\ stage[k] \in {"idle", "admitted", "waiting", "timing_out"} =>
       outcome[k] = None /\ answer[k] = None
  /\ stage[k] \in {"answering", "writing"} => outcome[k] # None /\ answer[k] = None
  /\ stage[k] \in {"settling", "finishing"} => outcome[k] # None
  /\ stage[k] \in {"settling", "finishing", "done"} /\ outcome[k] # None =>
       answer[k] \in Encoded(outcome[k])
  /\ stage[k] \in {"idle", "admitted", "waiting"} => k \notin timedOut
  /\ stage[k] \in {"timing_out", "settling"} => k \in timedOut
  /\ outcome[k] # None /\ k \notin timedOut => reply[k] # None
  /\ outcome[k] = "retryable" /\ call[k].kind = "action" =>
       dispatch[k] = "CANCELLED" \/ reply[k] = "retryable"
  /\ outcome[k] \in {"success", "refused"} => reply[k] = outcome[k]

CallInv ==
  /\ CallTypes
  /\ LinedOnce
  /\ \A k \in Calls : Handed(k) /\ Said(k)
-----------------------------------------------------------------------------
(* A call joins the queue at its end. *)
LEMMA JoinsTheLine ==
  ASSUME queue \in Seq(Calls), NEW k \in Calls, queue' = Append(queue, k)
  PROVE  /\ queue' \in Seq(Calls)
         /\ Lined' = Lined \cup {k}
         /\ LinedOnce /\ k \notin Lined => LinedOnce'
<1>1. /\ queue' \in Seq(Calls) /\ DOMAIN queue' = 1 .. Len(queue) + 1
      /\ DOMAIN queue = 1 .. Len(queue) /\ Len(queue) \in Nat
      /\ \A i \in DOMAIN queue : queue'[i] = queue[i]
      /\ queue'[Len(queue) + 1] = k
  OBVIOUS
<1>2. DOMAIN queue' = DOMAIN queue \cup {Len(queue) + 1}
  BY <1>1
<1>3. Lined' = Lined \cup {k}
  BY <1>1, <1>2 DEF Lined
<1>4. ASSUME LinedOnce, k \notin Lined PROVE LinedOnce'
  <2>1. \A i \in DOMAIN queue : queue[i] # k
    BY <1>4 DEF Lined
  <2> QED
    BY <1>1, <1>2, <1>4, <2>1 DEF LinedOnce
<1> QED
  BY <1>1, <1>3, <1>4

(* The call at the head leaves it. *)
LEMMA LeavesTheLine ==
  ASSUME queue \in Seq(Calls), queue # <<>>, LinedOnce, queue' = Tail(queue)
  PROVE  /\ queue' \in Seq(Calls) /\ Head(queue) \in Calls
         /\ Head(queue) \in Lined /\ Lined' = Lined \ {Head(queue)}
         /\ LinedOnce'
<1>1. /\ queue' \in Seq(Calls) /\ Len(queue) \in Nat \ {0}
      /\ DOMAIN queue = 1 .. Len(queue) /\ DOMAIN queue' = 1 .. Len(queue) - 1
      /\ \A i \in DOMAIN queue' : queue'[i] = queue[i + 1]
      /\ Head(queue) = queue[1] /\ 1 \in DOMAIN queue
  OBVIOUS
<1>2. LinedOnce'
  BY <1>1 DEF LinedOnce
<1>3. Lined' \subseteq Lined \ {queue[1]}
  <2> SUFFICES ASSUME NEW i \in DOMAIN queue'
               PROVE  queue'[i] \in Lined \ {queue[1]}
    BY DEF Lined
  <2>1. i + 1 \in DOMAIN queue /\ i + 1 # 1 /\ queue'[i] = queue[i + 1]
    BY <1>1
  <2> QED
    BY <2>1, <1>1 DEF LinedOnce, Lined
<1>4. Lined \ {queue[1]} \subseteq Lined'
  <2> SUFFICES ASSUME NEW i \in DOMAIN queue, queue[i] # queue[1]
               PROVE  queue[i] \in Lined'
    BY DEF Lined
  <2>1. i - 1 \in DOMAIN queue' /\ queue'[i - 1] = queue[i]
    BY <1>1
  <2> QED
    BY <2>1 DEF Lined
<1>5. Head(queue) \in Calls /\ Head(queue) \in Lined
  BY <1>1 DEF Lined
<1> QED
  BY <1>1, <1>2, <1>3, <1>4, <1>5
-----------------------------------------------------------------------------
(* A frame clients send has the fields the gateway reads. *)
LEMMA RequestFields ==
  ASSUME NEW q \in Requests
  PROVE  /\ q \in Frames /\ q.conn \in Principals /\ q.key \in Keys \cup {None}
         /\ q.digest \in Digests /\ q.kind \in {"action", "read", "lookup"}
         /\ q.id \in Ids
         /\ q.key # None => Scope(q) \in Scopes
BY GatewayAssumption DEF Frames, Scope, Scopes

LEMMA CallInit == Init => CallInv
<1> SUFFICES ASSUME Init PROVE CallInv
  OBVIOUS
<1> USE GatewayAssumption, LedgerAssumption DEF Init
<1>1. CallTypes
  BY DEF CallTypes, Stages
<1>2. Lined = {} /\ LinedOnce
  BY DEF Lined, LinedOnce
<1>3. ASSUME NEW k \in Calls PROVE Handed(k) /\ Said(k)
  BY <1>2 DEF Handed, Said, Undispatched, Outcomes, Terminal
<1> QED
  BY <1>1, <1>2, <1>3 DEF CallInv

(* A call the reader answers itself was never handed over, and never is. *)
LEMMA AnsweredAtOnce ==
  ASSUME CallInv, NEW k \in Calls, NEW q \in Requests,
         NEW code \in Outcomes \cup {"duplicate", "conflict", "in_progress"},
         stage[k] \in {"idle", "admitted"}, AnswerAtOnce(k, q, code),
         call' = [call EXCEPT ![k] = q]
  PROVE  CallInv'
<1> USE GatewayAssumption, LedgerAssumption DEF CallInv, AnswerAtOnce, appVars, slotVars
<1>1. CallTypes'
  <2>1. Encoded(code) \subseteq Outcomes \cup {"duplicate", "conflict", "in_progress"}
    BY DEF Encoded, Outcomes, Terminal
  <2> QED BY <2>1, RequestFields DEF CallTypes, Stages
<1>2. Lined' = Lined /\ LinedOnce'
  BY DEF Lined, LinedOnce
<1>3. ASSUME NEW j \in Calls, j # k PROVE (Handed(j) /\ Said(j))'
  BY <1>2, <1>3 DEF Handed, Said, Undispatched, CallTypes
<1>4. (Handed(k) /\ Said(k))'
  BY <1>2 DEF Handed, Said, Undispatched, CallTypes
<1> QED
  BY <1>1, <1>2, <1>3, <1>4

LEMMA AdmitCall ==
  ASSUME CallInv, NEW k \in Calls, NEW q \in Requests, Admit(k, q)
  PROVE  CallInv'
<1> USE GatewayAssumption, LedgerAssumption DEF CallInv, Admit, Reads, appVars, slotVars
<1>1. CallTypes'
  BY RequestFields DEF CallTypes, Stages
<1>2. Lined' = Lined /\ LinedOnce'
  BY DEF Lined, LinedOnce
<1>3. ASSUME NEW j \in Calls, j # k PROVE (Handed(j) /\ Said(j))'
  BY <1>2, <1>3 DEF Handed, Said, Undispatched, CallTypes
<1>4. (Handed(k) /\ Said(k))'
  BY <1>2 DEF Handed, Said, Undispatched, CallTypes
<1> QED
  BY <1>1, <1>2, <1>3, <1>4

LEMMA DispatchCall ==
  ASSUME CallInv, NEW k \in Calls, Dispatch(k)
  PROVE  CallInv'
<1> USE GatewayAssumption, LedgerAssumption DEF CallInv, Dispatch
<1> DEFINE sent == access # "disabled" /\ Len(queue) < QueueCap
<1>0. queue \in Seq(Calls) /\ k \notin Lined
  BY DEF CallTypes, Handed, Undispatched
<1>1. /\ queue' \in Seq(Calls) /\ LinedOnce'
      /\ Lined' = IF sent THEN Lined \cup {k} ELSE Lined
  <2>1. CASE sent
    BY <1>0, <2>1, JoinsTheLine
  <2>2. CASE ~sent
    BY <1>0, <2>2 DEF Lined, LinedOnce
  <2> QED
    BY <2>1, <2>2
<1>2. CallTypes'
  BY <1>1 DEF CallTypes, Stages, Outcomes
<1>3. ASSUME NEW j \in Calls, j # k PROVE (Handed(j) /\ Said(j))'
  BY <1>1, <1>3 DEF Handed, Said, Undispatched, CallTypes
<1>4. (Handed(k) /\ Said(k))'
  BY <1>1 DEF Handed, Said, Undispatched, CallTypes, Outcomes, Terminal
<1> QED
  BY <1>1, <1>2, <1>3, <1>4

LEMMA DeadlineCall ==
  ASSUME CallInv, NEW k \in Calls, DeadlinePasses(k)
  PROVE  CallInv'
<1> USE GatewayAssumption, LedgerAssumption DEF CallInv, DeadlinePasses, appVars, slotVars
<1>1. CallTypes'
  BY DEF CallTypes, Stages, Outcomes, Terminal
<1>2. Lined' = Lined /\ LinedOnce'
  BY DEF Lined, LinedOnce
<1>3. ASSUME NEW j \in Calls, j # k PROVE (Handed(j) /\ Said(j))'
  BY <1>2, <1>3 DEF Handed, Said, Undispatched, CallTypes
<1>4. (Handed(k) /\ Said(k))'
  BY <1>2 DEF Handed, Said, Undispatched, CallTypes, Outcomes, Terminal
<1> QED
  BY <1>1, <1>2, <1>3, <1>4

(* The worker repeats the reply, or settles a dropped one as it would a timeout. *)
LEMMA ReceiveReplyCall ==
  ASSUME CallInv, NEW k \in Calls, ReceiveReply(k)
  PROVE  CallInv'
<1> USE GatewayAssumption, LedgerAssumption DEF CallInv, ReceiveReply, Interrupted, Cancelled, CancelBeforeStart, appVars, slotVars
<1>1. CallTypes'
  BY DEF CallTypes, Stages, Outcomes, Terminal
<1>2. Lined' = Lined /\ LinedOnce'
  BY DEF Lined, LinedOnce
<1>3. ASSUME NEW j \in Calls, j # k PROVE (Handed(j) /\ Said(j))'
  BY <1>2, <1>3 DEF Handed, Said, Undispatched, CallTypes
<1>4. (Handed(k) /\ Said(k))'
  BY <1>2 DEF Handed, Said, Undispatched, CallTypes, Outcomes, Terminal
<1> QED
  BY <1>1, <1>2, <1>3, <1>4

LEMMA TimeOutCall ==
  ASSUME CallInv, NEW k \in Calls, TimeOut(k)
  PROVE  CallInv'
<1> USE GatewayAssumption, LedgerAssumption DEF CallInv, TimeOut, GivesUp, appVars, slotVars
<1>1. CallTypes'
  BY DEF CallTypes, Stages, Outcomes, Terminal
<1>2. Lined' = Lined /\ LinedOnce'
  BY DEF Lined, LinedOnce
<1>3. ASSUME NEW j \in Calls, j # k PROVE (Handed(j) /\ Said(j))'
  BY <1>2, <1>3 DEF Handed, Said, Undispatched, CallTypes
<1>4. (Handed(k) /\ Said(k))'
  BY <1>2 DEF Handed, Said, Undispatched, CallTypes, Outcomes, Terminal
<1> QED
  BY <1>1, <1>2, <1>3, <1>4

(* A mutation that began is never called retryable; one that had not never begins. *)
LEMMA InterruptCall ==
  ASSUME CallInv, NEW k \in Calls, Interrupt(k)
  PROVE  CallInv'
<1> USE GatewayAssumption, LedgerAssumption DEF CallInv, Interrupt, Interrupted, Cancelled, CancelBeforeStart, appVars, slotVars
<1>1. CallTypes'
  BY DEF CallTypes, Stages, Outcomes, Terminal
<1>2. Lined' = Lined /\ LinedOnce'
  BY DEF Lined, LinedOnce
<1>3. ASSUME NEW j \in Calls, j # k PROVE (Handed(j) /\ Said(j))'
  BY <1>2, <1>3 DEF Handed, Said, Undispatched, CallTypes
<1>4. (Handed(k) /\ Said(k))'
  BY <1>2 DEF Handed, Said, Undispatched, CallTypes, Outcomes, Terminal
<1> QED
  BY <1>1, <1>2, <1>3, <1>4

LEMMA TakeWriterCall ==
  ASSUME CallInv, NEW k \in Calls, TakeWriter(k)
  PROVE  CallInv'
<1> USE GatewayAssumption, LedgerAssumption DEF CallInv, TakeWriter, appVars
<1>1. CallTypes'
  BY DEF CallTypes, Stages, Outcomes, Terminal
<1>2. Lined' = Lined /\ LinedOnce'
  BY DEF Lined, LinedOnce
<1>3. ASSUME NEW j \in Calls, j # k PROVE (Handed(j) /\ Said(j))'
  BY <1>2, <1>3 DEF Handed, Said, Undispatched, CallTypes
<1>4. (Handed(k) /\ Said(k))'
  BY <1>2 DEF Handed, Said, Undispatched, CallTypes, Outcomes, Terminal
<1> QED
  BY <1>1, <1>2, <1>3, <1>4

LEMMA WriteFrameCall ==
  ASSUME CallInv, NEW k \in Calls, WriteFrame(k)
  PROVE  CallInv'
<1> USE GatewayAssumption, LedgerAssumption DEF CallInv, WriteFrame, appVars
<1>1. CallTypes'
  <2>1. Encoded(outcome[k]) \subseteq Outcomes
    <3>1. outcome[k] \in Outcomes
      BY DEF Said, CallTypes
    <3> QED BY <3>1 DEF Encoded, Outcomes, Terminal
  <2>2. answer' \in [Calls -> Outcomes \cup {"duplicate", "conflict", "in_progress", None}]
    BY <2>1 DEF CallTypes
  <2> QED BY <2>2 DEF CallTypes, Stages
<1>2. Lined' = Lined /\ LinedOnce'
  BY DEF Lined, LinedOnce
<1>3. ASSUME NEW j \in Calls, j # k PROVE (Handed(j) /\ Said(j))'
  BY <1>2, <1>3 DEF Handed, Said, Undispatched, CallTypes
<1>4. (Handed(k) /\ Said(k))'
  BY <1>2 DEF Handed, Said, Undispatched, CallTypes, Outcomes, Terminal
<1> QED
  BY <1>1, <1>2, <1>3, <1>4

LEMMA SettleCall ==
  ASSUME CallInv, NEW k \in Calls, Settle(k)
  PROVE  CallInv'
<1> USE GatewayAssumption, LedgerAssumption DEF CallInv, Settle, appVars, slotVars
<1>1. CallTypes'
  BY DEF CallTypes, Stages, Outcomes, Terminal
<1>2. Lined' = Lined /\ LinedOnce'
  BY DEF Lined, LinedOnce
<1>3. ASSUME NEW j \in Calls, j # k PROVE (Handed(j) /\ Said(j))'
  BY <1>2, <1>3 DEF Handed, Said, Undispatched, CallTypes
<1>4. (Handed(k) /\ Said(k))'
  BY <1>2 DEF Handed, Said, Undispatched, CallTypes, Outcomes, Terminal
<1> QED
  BY <1>1, <1>2, <1>3, <1>4

LEMMA FinishCall ==
  ASSUME CallInv, NEW k \in Calls, Finish(k)
  PROVE  CallInv'
<1> USE GatewayAssumption, LedgerAssumption DEF CallInv, Finish, appVars
<1>1. CallTypes'
  BY DEF CallTypes, Stages, Outcomes, Terminal
<1>2. Lined' = Lined /\ LinedOnce'
  BY DEF Lined, LinedOnce
<1>3. ASSUME NEW j \in Calls, j # k PROVE (Handed(j) /\ Said(j))'
  BY <1>2, <1>3 DEF Handed, Said, Undispatched, CallTypes
<1>4. (Handed(k) /\ Said(k))'
  BY <1>2 DEF Handed, Said, Undispatched, CallTypes, Outcomes, Terminal
<1> QED
  BY <1>1, <1>2, <1>3, <1>4

(* The application thread takes a call off the queue, once. *)
LEMMA DrainCall ==
  ASSUME CallInv, NEW k \in Calls, UiRefuse(k) \/ UiStart(k)
  PROVE  CallInv'
<1> USE GatewayAssumption, LedgerAssumption DEF CallInv, Drains
<1>1. /\ queue' \in Seq(Calls) /\ k \in Lined /\ Lined' = Lined \ {k} /\ LinedOnce'
      /\ running = None
  BY LeavesTheLine DEF UiRefuse, UiStart, CallTypes
<1>2. CASE UiRefuse(k)
  <2> USE <1>2 DEF UiRefuse, CancelBeforeStart, Cancelled, slotVars
  <2>1. CallTypes'
    <3>1. dispatch' \in [Calls -> {"QUEUED", "STARTED", "CANCELLED"}]
      <4>1. dispatch' = dispatch \/ dispatch' = [dispatch EXCEPT ![k] = "CANCELLED"]
        OBVIOUS
      <4>2. dispatch \in [Calls -> {"QUEUED", "STARTED", "CANCELLED"}]
        BY DEF CallTypes
      <4> QED BY ONLY <4>1, <4>2
    <3>2. reply' \in [Calls -> Outcomes \cup {"dropped", None}]
      BY DEF CallTypes, Outcomes, Terminal
    <3>3. /\ access' = access /\ call' = call /\ stage' = stage /\ overdue' = overdue
          /\ timedOut' = timedOut /\ effect' = effect /\ running' = running
          /\ outcome' = outcome /\ answer' = answer
      OBVIOUS
    <3> QED BY <1>1, <3>1, <3>2, <3>3 DEF CallTypes
  <2>2. ASSUME NEW j \in Calls, j # k PROVE (Handed(j) /\ Said(j))'
    BY <1>1, <2>2 DEF Handed, Said, Undispatched, CallTypes
  <2>3. (Handed(k) /\ Said(k))'
    BY <1>1 DEF Handed, Said, Undispatched, CallTypes, Outcomes, Terminal
  <2> QED
    BY <1>1, <2>1, <2>2, <2>3
<1>3. CASE UiStart(k)
  <2> USE <1>3 DEF UiStart, slotVars
  <2>1. CallTypes'
    BY <1>1 DEF CallTypes, Outcomes, Terminal
  <2>2. ASSUME NEW j \in Calls, j # k PROVE (Handed(j) /\ Said(j))'
    BY <1>1, <2>2 DEF Handed, Said, Undispatched, CallTypes
  <2>3. (Handed(k) /\ Said(k))'
    BY <1>1 DEF Handed, Said, Undispatched, CallTypes, Outcomes, Terminal
  <2> QED
    BY <1>1, <2>1, <2>2, <2>3
<1> QED
  BY <1>2, <1>3

LEMMA UiFinishCall ==
  ASSUME CallInv, NEW k \in Calls, NEW r \in {"success", "refused", "retryable"},
         UiFinish(k, r)
  PROVE  CallInv'
<1> USE GatewayAssumption, LedgerAssumption DEF CallInv, UiFinish, workVars, slotVars
<1>1. CallTypes'
  BY DEF CallTypes, Stages, Outcomes, Terminal
<1>2. Lined' = Lined /\ LinedOnce'
  BY DEF Lined, LinedOnce
<1>3. ASSUME NEW j \in Calls, j # k PROVE (Handed(j) /\ Said(j))'
  BY <1>2, <1>3 DEF Handed, Said, Undispatched, CallTypes
<1>4. (Handed(k) /\ Said(k))'
  <2>1. PICK acts \in MayAct(k, r) : effect' = IF acts THEN effect \cup {k} ELSE effect
    OBVIOUS
  <2>2. /\ k \in effect' => r \in {"success", "refused"} /\ call[k].kind = "action"
        /\ r = "success" /\ call[k].kind = "action" => k \in effect'
    BY <2>1, LedgerAssumption DEF MayAct, Handed, Outcomes, Terminal
  <2>3. /\ reply'[k] = r /\ r # None /\ reply[k] = None
        /\ dispatch[k] = "STARTED" /\ running' = None
    BY LedgerAssumption DEF Handed, CallTypes, Outcomes, Terminal
  <2>4. UNCHANGED <<call, stage, dispatch, outcome, timedOut, answer>> /\ running' # k
    BY <2>3
  <2> HIDE DEF UiFinish
  <2>5. Handed(k)'
    BY <1>2, <2>2, <2>3, <2>4, LedgerAssumption DEF Handed, Undispatched, Outcomes, Terminal
  <2>6. Said(k)'
    BY <2>3, <2>4, LedgerAssumption DEF Handed, Said, CallTypes, Outcomes, Terminal
  <2> QED BY <2>5, <2>6
<1> QED
  BY <1>1, <1>2, <1>3, <1>4

(* The queued calls of a stopped gateway are dropped before they began. *)
LEMMA StoppedCalls ==
  ASSUME CallInv, Stopped
  PROVE  CallInv'
<1> USE GatewayAssumption, LedgerAssumption DEF CallInv, Stopped, workVars, slotVars
<1>1. Lined' = {} /\ LinedOnce' /\ queue' \in Seq(Calls)
  BY DEF Lined, LinedOnce
<1>2. reply' = [k \in Calls |-> IF k \in Lined THEN "dropped" ELSE reply[k]]
  BY DEF Lined
<1>3. CallTypes'
  BY <1>1, <1>2 DEF CallTypes
<1>4. ASSUME NEW k \in Calls PROVE (Handed(k) /\ Said(k))'
  BY <1>1, <1>2 DEF Handed, Said, Undispatched, CallTypes, Outcomes, Terminal
<1> QED
  BY <1>1, <1>3, <1>4

(* Steps that leave every call alone. *)
LEMMA OtherCalls ==
  ASSUME CallInv, UNCHANGED <<call, answer, workVars, queue, running, reply, effect>>,
         access' \in {"enabled", "disabling", "disabled"}
  PROVE  CallInv'
<1> USE DEF CallInv, workVars
<1>1. CallTypes'
  BY DEF CallTypes
<1>2. Lined' = Lined /\ LinedOnce'
  BY DEF Lined, LinedOnce
<1>3. ASSUME NEW k \in Calls PROVE (Handed(k) /\ Said(k))'
  BY <1>2 DEF Handed, Said, Undispatched
<1> QED
  BY <1>1, <1>2, <1>3

(* What the ledger answers with is one of the contract's outcomes. *)
LEMMA LedgerAnswers ==
  ASSUME LedgerTypeOK, NEW s \in Scopes, NEW d \in Digests, Answered(s, d) # None
  PROVE  Answered(s, d) \in Outcomes \cup {"conflict", "in_progress"}
<1>1. Expire(records)[s] \in Records \cup {None}
  BY ExpireKeeps DEF LedgerTypeOK
<1> QED
  BY <1>1 DEF Answered, Records, Outcomes

LEMMA CallNext ==
  ASSUME LedgerTypeOK, CallInv, [Next]_vars
  PROVE  CallInv'
<1> USE DEF CallInv
<1>1. ASSUME NEW k \in Calls, NEW q \in Requests,
             RateLimited(k, q) \/ DuplicateId(k, q)
      PROVE  CallInv'
  BY <1>1, AnsweredAtOnce DEF RateLimited, DuplicateId, Reads, Outcomes
<1>2. ASSUME NEW k \in Calls, NEW q \in Requests, AnswerFromLedger(k, q)
      PROVE  CallInv'
  <2>1. Answered(Scope(q), q.digest) \in Outcomes \cup {"conflict", "in_progress"}
    BY <1>2, RequestFields, LedgerAnswers DEF AnswerFromLedger, Refuse
  <2> QED
    BY <1>2, <2>1, AnsweredAtOnce DEF AnswerFromLedger, Reads
<1>3. ASSUME NEW k \in Calls, RefuseDispatch(k) \/ WorkerRead(k)
      PROVE  CallInv'
  <2>1. stage[k] = "admitted" /\ call[k] \in Requests
    BY <1>3 DEF RefuseDispatch, WorkerRead, Handed
  <2>2. call' = [call EXCEPT ![k] = call[k]]
    BY <1>3 DEF RefuseDispatch, WorkerRead, CallTypes
  <2> QED
    BY <1>3, <2>1, <2>2, AnsweredAtOnce DEF RefuseDispatch, WorkerRead, Outcomes, Terminal
<1>4. ASSUME NEW k \in Calls, Worker(k) PROVE CallInv'
  BY <1>4, ReceiveReplyCall, TimeOutCall, InterruptCall, TakeWriterCall, WriteFrameCall,
     SettleCall, FinishCall DEF Worker
<1>5. ASSUME NEW c \in Principals, Close(c) \/ Revoke(c) PROVE CallInv'
  BY <1>5, OtherCalls DEF Close, Revoke, appVars, CallTypes
<1>6. ASSUME Disable \/ ClockStep \/ UNCHANGED vars PROVE CallInv'
  BY <1>6, OtherCalls DEF Disable, ClockStep, vars, appVars, CallTypes
<1> QED
  BY <1>1, <1>2, <1>3, <1>4, <1>5, <1>6, AdmitCall, DispatchCall, DeadlineCall, DrainCall,
     UiFinishCall, StoppedCalls DEF Next, Reader
-----------------------------------------------------------------------------
(* Every step of the gateway is a step of the store or leaves it alone. *)
LEMMA LedgerStep ==
  ASSUME CallInv, [Next]_vars
  PROVE  [LedgerNext]_ledgerVars
<1>1. ASSUME NEW k \in Calls, NEW q \in Requests,
             RateLimited(k, q) \/ DuplicateId(k, q) \/ AnswerFromLedger(k, q) \/ Admit(k, q)
      PROVE  [LedgerNext]_ledgerVars
  BY <1>1, RequestFields DEF RateLimited, DuplicateId, AnswerFromLedger, Admit, LedgerNext
<1>2. ASSUME NEW k \in Calls, Reader(k) \/ DeadlinePasses(k) PROVE [LedgerNext]_ledgerVars
  BY <1>2 DEF Reader, RefuseDispatch, WorkerRead, Dispatch, DeadlinePasses, DropTicket, LedgerNext
<1>3. ASSUME NEW k \in Calls, ReceiveReply(k) PROVE [LedgerNext]_ledgerVars
  <2>1. (IF reply[k] = "dropped" THEN Interrupted(k) ELSE reply[k]) \in Outcomes
    BY <1>3 DEF ReceiveReply, CallInv, CallTypes, Interrupted, Outcomes, Terminal
  <2> QED
    BY <1>3, <2>1 DEF ReceiveReply, LedgerNext
<1>4. ASSUME NEW k \in Calls, Settle(k) PROVE [LedgerNext]_ledgerVars
  <2>1. Settled(k) \in Outcomes
    BY DEF CallInv, CallTypes, Settled, Outcomes, Terminal
  <2> QED
    BY <1>4, <2>1 DEF Settle, LedgerNext
<1>5. ASSUME NEW k \in Calls,
             TimeOut(k) \/ Interrupt(k) \/ TakeWriter(k) \/ WriteFrame(k) \/ Finish(k)
      PROVE  [LedgerNext]_ledgerVars
  BY <1>5 DEF TimeOut, Interrupt, TakeWriter, WriteFrame, Finish, DropTicket, LedgerNext
<1>6. ASSUME NEW k \in Calls, UiRefuse(k) \/ UiStart(k) PROVE [LedgerNext]_ledgerVars
  BY <1>6 DEF UiRefuse, UiStart
<1>7. ASSUME NEW k \in Calls, NEW r, UiFinish(k, r) PROVE [LedgerNext]_ledgerVars
  BY <1>7 DEF UiFinish
<1>8. ASSUME NEW c \in Principals, Close(c) \/ Revoke(c) PROVE [LedgerNext]_ledgerVars
  BY <1>8 DEF Close, Revoke, LedgerNext
<1>9. ASSUME Disable \/ Stopped \/ ClockStep \/ UNCHANGED vars PROVE [LedgerNext]_ledgerVars
  BY <1>9 DEF Disable, Stopped, ClockStep, vars, LedgerNext
<1> QED
  BY <1>1, <1>2, <1>3, <1>4, <1>5, <1>6, <1>7, <1>8, <1>9 DEF Next, Worker

(* The store serves the gateway within its invariant, and every call is    *)
(* where its record says.                                                  *)
THEOREM GatewayCallsInvariant == Spec => [](LedgerIInv /\ CallInv)
<1>1. Init => LedgerIInv /\ CallInv
  BY InitIInv, CallInit DEF Init
<1>2. LedgerIInv /\ [LedgerNext]_ledgerVars => LedgerIInv'
  BY RefuseStep, ReserveStep, RecordStep, ReleaseStep, ForgetStep, IdleStep DEF LedgerNext
<1>3. LedgerIInv /\ CallInv /\ [Next]_vars => (LedgerIInv /\ CallInv)'
  BY <1>2, CallNext, LedgerStep DEF LedgerIInv
<1> QED
  BY <1>1, <1>3, PTL DEF Spec

(* The gateway uses the store as the store is specified: each of its       *)
(* steps, from any thread, is one critical section of the store or none,   *)
(* so every theorem about the store holds of the gateway.                  *)
THEOREM GatewayImplementsLedger == Spec => LedgerSpec
<1>1. Init => LedgerInit
  BY DEF Init
<1> QED
  BY <1>1, LedgerStep, GatewayCallsInvariant, PTL DEF Spec, LedgerSpec

(* Two calls the gateway has dispatched never act under one key at a time. *)
THEOREM GatewayOneLicence == Spec => []OneLicence
<1>1. LedgerIInv /\ CallInv => OneLicence
  BY DEF LedgerIInv
<1> QED
  BY <1>1, GatewayCallsInvariant, PTL

(* What a client was told of its action stays true: told to retry, it never *)
(* ran and never will; told success of a call that was dispatched, it ran;  *)
(* told a plain failure, nothing of it is still to come.                   *)
THEOREM GatewayAnswersAreTrue == Spec => []AnswersAreTrue
<1>1. CallInv => AnswersAreTrue
  <2> SUFFICES ASSUME CallInv, NEW k \in Calls, answer[k] # None, call[k].kind = "action"
               PROVE  /\ answer[k] \in {"retryable", "duplicate"} \/ ~Dispatched(k) => k \notin effect
                      /\ answer[k] = "success" /\ Dispatched(k) => k \in effect
                      /\ answer[k] # "unknown" \/ ~Dispatched(k) => ~MayStillAct(k)
    BY DEF AnswersAreTrue
  <2>1. /\ CallTypes /\ Handed(k) /\ Said(k)
        /\ stage[k] \in {"settling", "finishing", "done"}
        /\ MayStillAct(k) => running = k \/ (dispatch[k] = "QUEUED" /\ k \in Lined)
    BY DEF CallInv, CallTypes, Stages, Said, MayStillAct, Lined
  <2>2. CASE ~Dispatched(k)
    BY <2>1, <2>2, LedgerAssumption DEF Dispatched, Said, Handed, Undispatched, Outcomes, Terminal
  <2>3. CASE Dispatched(k)
    <3>1. /\ outcome[k] \in Outcomes /\ reply[k] \in Outcomes \cup {"dropped", None}
          /\ answer[k] \in Encoded(outcome[k])
      BY <2>1, <2>3, LedgerAssumption DEF Dispatched, Said, CallTypes
    <3>2. CASE answer[k] = "unknown"
      BY <2>3, <3>2
    <3>3. CASE answer[k] # "unknown"
      <4>1. answer[k] = outcome[k]
        BY <3>1, <3>3 DEF Encoded
      <4>2. CASE outcome[k] \in {"success", "refused"}
        <5>1. reply[k] = outcome[k] /\ reply[k] # None
          BY <2>1, <4>2, LedgerAssumption DEF Said, Outcomes, Terminal
        <5> QED
          BY <2>1, <2>3, <4>1, <4>2, <5>1 DEF Handed
      <4>3. CASE outcome[k] = "retryable"
        <5>1. dispatch[k] = "CANCELLED" \/ reply[k] = "retryable"
          BY <2>1, <4>3 DEF Said
        <5>2. k \notin effect /\ running # k /\ ~(dispatch[k] = "QUEUED" /\ k \in Lined)
          BY <2>1, <5>1, LedgerAssumption DEF Handed, Outcomes, Terminal
        <5> QED
          BY <2>1, <2>3, <4>1, <4>3, <5>2
      <4> QED
        BY <3>1, <3>3, <4>1, <4>2, <4>3 DEF Outcomes, Terminal
    <3> QED
      BY <3>2, <3>3
  <2> QED
    BY <2>2, <2>3
<1> QED
  BY <1>1, GatewayCallsInvariant, PTL
-----------------------------------------------------------------------------
(* The ticket a keyed call carries while a reader or a worker has it, and  *)
(* whether its end was recorded.                                           *)
Carries(k) ==
  /\ Held(k) <=> stage[k] \notin {"idle", "done"} /\ Keyed(k)
  /\ Held(k) => tickets[k].scope = Scope(call[k])
  /\ Held(k) /\ stage[k] \in {"admitted", "waiting"} => ~tickets[k].spent
  /\ Held(k) /\ stage[k] \in {"answering", "writing"} /\ k \notin timedOut => tickets[k].spent
  /\ Held(k) /\ stage[k] = "finishing" => tickets[k].spent

(* A keyed call that is acting or has acted. *)
Acts(k) == (running = k \/ k \in effect) /\ Keyed(k)

(* Its scope is still answered for: by the call, by its record, or no more *)
(* is admitted under it; unless the record was lost.                       *)
Covered(k) ==
  LET s == Scope(call[k]) IN
  \/ s \in withdrawn \/ s[1] \in forgotten
  \/ Held(k) /\ ~tickets[k].spent
  \/ records[s] # None

(* No other call of its scope acts, has acted or may yet act. *)
Alone(k) ==
  \A j \in Calls \ {k} :
    (Held(j) \/ Acts(j)) /\ Keyed(j) /\ Scope(call[j]) = Scope(call[k])
      => Scope(call[k]) \in withdrawn

KeyInv ==
  \A k \in Calls : Carries(k) /\ (Acts(k) => Covered(k) /\ Alone(k))

(* What the proofs of one run per key start from. *)
GatewayInv == LedgerIInv /\ CallInv /\ KeyInv
-----------------------------------------------------------------------------
(* A call that acts or has acted is past the reader, and has its frame. *)
LEMMA ActsHandedOver ==
  ASSUME CallInv, NEW k \in Calls, Acts(k)
  PROVE  /\ ~Undispatched(k) /\ stage[k] # "idle" /\ call[k] \in Requests
         /\ Scope(call[k]) \in Scopes /\ dispatch[k] = "STARTED"
         /\ reply[k] \in {None, "success", "refused"}
         /\ reply[k] = None => running = k
<1>1. /\ ~Undispatched(k) /\ stage[k] # "idle" /\ call[k] \in Requests
      /\ dispatch[k] = "STARTED" /\ reply[k] \in {None, "success", "refused"}
      /\ reply[k] = None => running = k
  BY LedgerAssumption DEF CallInv, Handed, Undispatched, Acts, Outcomes, Terminal
<1>2. Scope(call[k]) \in Scopes
  BY <1>1, RequestFields DEF Acts, Keyed
<1> QED
  BY <1>1, <1>2

(* record spends the ticket of one call and leaves a record under its      *)
(* scope, when the outcome is terminal and its client still connected.     *)
LEMMA RecordSpends ==
  ASSUME LedgerIInv, NEW k \in Calls, NEW o \in Outcomes, Record(k, o)
  PROVE  /\ Held(k) /\ ~tickets[k].spent /\ Held(k)' /\ tickets'[k].spent
         /\ tickets'[k].scope = tickets[k].scope
         /\ \A j \in Calls \ {k} : tickets'[j] = tickets[j]
         /\ forgotten' = forgotten
         /\ o \in Terminal /\ tickets[k].scope[1] \notin forgotten
              => records'[tickets[k].scope] # None
<1>1. /\ Held(k) /\ ~tickets[k].spent /\ forgotten' = forgotten
      /\ tickets[k] \in Tickets /\ tickets[k].scope \in Scopes
      /\ \A j \in Calls \ {k} : tickets'[j] = tickets[j]
      /\ tickets'[k] = [tickets[k] EXCEPT !.spent = TRUE]
  BY DEF Record, LedgerIInv, Held, LedgerTypeOK, Tickets
<1>2. tickets'[k] \in Tickets /\ tickets'[k].spent /\ tickets'[k].scope = tickets[k].scope
  <2>1. tickets'[k] = [scope |-> tickets[k].scope, digest |-> tickets[k].digest, spent |-> TRUE]
    BY <1>1 DEF Tickets
  <2> QED
    BY <1>1, <2>1 DEF Tickets
<1>3. Held(k)'
  BY <1>2, LedgerAssumption DEF Held
<1>4. ASSUME o \in Terminal, tickets[k].scope[1] \notin forgotten
      PROVE  records'[tickets[k].scope] # None
  <2>1. Licensed(k)
    BY <1>1, <1>4, LedgerAssumption DEF LedgerIInv, Reserved, Licensed, Tickets
  <2>2. PICK kept \in {o, "unknown"} :
           records' = [MakeRoom(records, tickets[k].scope[1]) EXCEPT ![tickets[k].scope] =
             [digest |-> tickets[k].digest, outcome |-> kept, at |-> now]]
    BY <1>4, <2>1 DEF Record, IsTerminal
  <2>3. [digest |-> tickets[k].digest, outcome |-> kept, at |-> now] \in Records
    BY <1>1, <1>4 DEF LedgerIInv, Records, Tickets, LedgerTypeOK, Terminal
  <2>4. MakeRoom(records, tickets[k].scope[1]) \in [Scopes -> Records \cup {None}]
    BY MakeRoomKeeps DEF LedgerIInv, LedgerTypeOK
  <2> QED
    BY <1>1, <2>2, <2>3, <2>4, LedgerAssumption
<1> QED
  BY <1>1, <1>2, <1>3, <1>4

(* A record goes only with its principal, or is remembered as withdrawn. *)
RecordsLast ==
  /\ withdrawn \subseteq withdrawn' /\ forgotten \subseteq forgotten'
  /\ \A s \in Scopes : records[s] # None =>
       records'[s] # None \/ s \in withdrawn' \/ s[1] \in forgotten'

LEMMA TrackedRecordsLast ==
  ASSUME TrackWithdrawn, forgotten \subseteq forgotten'
  PROVE  RecordsLast
BY DEF TrackWithdrawn, RecordsLast, Recorded

(* A step that lets no call in, starts none, and takes no cover away keeps *)
(* every acting call covered and alone.                                    *)
LEMMA StaysCovered ==
  ASSUME LedgerIInv, CallInv, KeyInv, RecordsLast,
         \A j \in Calls : Held(j)' => Held(j) /\ call'[j] = call[j],
         \A j \in Calls : Acts(j)' => Acts(j) /\ call'[j] = call[j],
         \A j \in Calls : Acts(j)' /\ Held(j) /\ ~tickets[j].spent =>
            \/ Held(j)' /\ ~tickets'[j].spent
            \/ records'[Scope(call[j])] # None
            \/ Scope(call[j])[1] \in forgotten'
  PROVE  \A k \in Calls : Acts(k)' => Covered(k)' /\ Alone(k)'
<1> SUFFICES ASSUME NEW k \in Calls, Acts(k)' PROVE Covered(k)' /\ Alone(k)'
  OBVIOUS
<1> DEFINE s == Scope(call[k])
<1>1. /\ Acts(k) /\ Covered(k) /\ Alone(k) /\ s \in Scopes
      /\ Scope(call[k])' = s /\ Keyed(k)' = Keyed(k)
  BY ActsHandedOver DEF KeyInv, Scope, Keyed
<1>2. Covered(k)'
  BY <1>1 DEF Covered, RecordsLast
<1>3. Alone(k)'
  <2> SUFFICES ASSUME NEW j \in Calls \ {k}, Held(j)' \/ Acts(j)', Keyed(j)',
                      Scope(call[j])' = s
               PROVE  s \in withdrawn'
    BY <1>1 DEF Alone
  <2>1. (Held(j) \/ Acts(j)) /\ Keyed(j) /\ Scope(call[j]) = s
    BY DEF Scope, Keyed
  <2> QED
    BY <1>1, <2>1 DEF Alone, RecordsLast
<1> QED
  BY <1>2, <1>3

(* Steps that leave every call with its reader or worker. *)
LEMMA QuietKeys ==
  ASSUME GatewayInv, RecordsLast, UNCHANGED <<tickets, call, stage, timedOut>>,
         \A j \in Calls : Acts(j)' => Acts(j)
  PROVE  KeyInv'
<1> USE DEF GatewayInv
<1>1. \A j \in Calls : Carries(j)'
  BY DEF KeyInv, Carries, Held, Keyed, Scope
<1>2. \A j \in Calls : Held(j)' = Held(j)
  BY DEF Held
<1>3. \A j \in Calls : Acts(j)' => Covered(j)' /\ Alone(j)'
  BY <1>2, StaysCovered
<1> QED
  BY <1>1, <1>3 DEF KeyInv

(* A worker moves on without the store. *)
LEMMA WorkerKeys ==
  ASSUME GatewayInv, NEW k \in Calls, UNCHANGED <<ledgerVars, call, withdrawn, running, effect>>,
         Dispatch(k) \/ TimeOut(k) \/ Interrupt(k) \/ TakeWriter(k) \/ WriteFrame(k)
  PROVE  KeyInv'
<1> USE DEF GatewayInv, CallInv, ledgerVars
<1>1. ASSUME NEW j \in Calls, j # k PROVE Carries(j)'
  BY <1>1 DEF Dispatch, TimeOut, Interrupt, TakeWriter, WriteFrame, CallTypes,
              KeyInv, Carries, Held, Keyed, Scope
<1>2. Carries(k)'
  <2> USE DEF KeyInv, Carries, Held, Keyed, Scope, CallTypes
  <2>1. CASE Dispatch(k)
    BY <2>1 DEF Dispatch
  <2>2. CASE TimeOut(k)
    BY <2>2 DEF TimeOut
  <2>3. CASE Interrupt(k)
    BY <2>3 DEF Interrupt, Said
  <2>4. CASE TakeWriter(k)
    BY <2>4 DEF TakeWriter
  <2>5. CASE WriteFrame(k)
    BY <2>5 DEF WriteFrame
  <2> QED
    BY <2>1, <2>2, <2>3, <2>4, <2>5
<1>3. RecordsLast
  BY DEF RecordsLast
<1>4. \A j \in Calls : Held(j)' = Held(j) /\ Acts(j)' = Acts(j)
  BY DEF Held, Acts, Keyed
<1>5. \A j \in Calls : Acts(j)' => Covered(j)' /\ Alone(j)'
  BY <1>3, <1>4, StaysCovered
<1> QED
  BY <1>1, <1>2, <1>5 DEF KeyInv

(* The reader answers a frame itself. *)
LEMMA ReaderKeys ==
  ASSUME GatewayInv, NEW k \in Calls, NEW q \in Requests, Reads(k, q),
         RecordsLast, UNCHANGED <<tickets, running, effect, timedOut>>,
         stage' = [stage EXCEPT ![k] = "done"]
  PROVE  KeyInv'
<1> USE DEF GatewayInv, CallInv, Reads
<1>1. ASSUME NEW j \in Calls, j # k PROVE Carries(j)'
  BY <1>1 DEF CallTypes, KeyInv, Carries, Held, Keyed, Scope
<1>2. ~Held(k) /\ ~Acts(k) /\ running # k /\ k \notin effect
  BY LedgerAssumption DEF KeyInv, Carries, Handed, Undispatched, Acts, Outcomes, Terminal
<1>3. Carries(k)'
  BY <1>2 DEF CallTypes, Carries, Held
<1>4. \A j \in Calls : Held(j)' => j # k /\ Held(j) /\ call'[j] = call[j]
  BY <1>2 DEF Held, CallTypes
<1>5. \A j \in Calls : Acts(j)' => j # k /\ Acts(j) /\ call'[j] = call[j]
  BY <1>2 DEF Acts, Keyed, CallTypes
<1>6. \A j \in Calls : Acts(j)' => Covered(j)' /\ Alone(j)'
  BY <1>4, <1>5, StaysCovered DEF Held
<1> QED
  BY <1>1, <1>3, <1>6 DEF KeyInv

(* A call ends and its ticket is dropped: by then it has not acted, or its *)
(* outcome was recorded.                                                   *)
LEMMA EndedKeys ==
  ASSUME GatewayInv, NEW k \in Calls,
         RefuseDispatch(k) \/ WorkerRead(k) \/ Finish(k)
  PROVE  KeyInv'
<1> USE DEF GatewayInv, CallInv, LedgerIInv
<1>1. /\ UNCHANGED <<records, forgotten, call, withdrawn, timedOut, running, effect>>
      /\ stage' = [stage EXCEPT ![k] = "done"] /\ stage[k] \in {"admitted", "finishing"}
      /\ \A j \in Calls \ {k} : tickets'[j] = tickets[j]
      /\ ~Held(k)'
  <2>1. CASE RefuseDispatch(k) \/ Finish(k)
    <3>1. stage[k] \in {"admitted", "finishing"} /\ DropTicket(k)
      BY <2>1 DEF RefuseDispatch, Finish
    <3>2. CASE Keyed(k)
      BY <2>1, <3>1, <3>2 DEF DropTicket, Release, RefuseDispatch, Finish, AnswerAtOnce,
         appVars, slotVars, LedgerTypeOK, Held
    <3>3. CASE ~Keyed(k)
      BY <2>1, <3>1, <3>3 DEF DropTicket, RefuseDispatch, Finish, AnswerAtOnce,
         appVars, slotVars, ledgerVars, Held, KeyInv, Carries
    <3> QED
      BY <3>2, <3>3
  <2>2. CASE WorkerRead(k)
    BY <2>2 DEF WorkerRead, AnswerAtOnce, appVars, slotVars, ledgerVars, Held, KeyInv, Carries
  <2> QED
    BY <2>1, <2>2
<1>2. ASSUME NEW j \in Calls, j # k PROVE Carries(j)'
  BY <1>1, <1>2 DEF CallTypes, KeyInv, Carries, Held, Keyed, Scope
<1>3. Carries(k)'
  BY <1>1 DEF CallTypes, Carries, Held
<1>4. Acts(k) /\ Held(k) => tickets[k].spent
  BY <1>1, ActsHandedOver DEF KeyInv, Carries, Undispatched
<1>5. \A j \in Calls : /\ Held(j)' => j # k /\ Held(j)
                       /\ j # k => tickets'[j] = tickets[j]
                       /\ Acts(j)' => Acts(j)
  BY <1>1 DEF Held, Acts, Keyed
<1>6. RecordsLast
  BY <1>1 DEF RecordsLast
<1>7. \A j \in Calls : Acts(j)' => Covered(j)' /\ Alone(j)'
  BY <1>1, <1>4, <1>5, <1>6, StaysCovered DEF Held
<1> QED
  BY <1>2, <1>3, <1>7 DEF KeyInv

(* The reader lets a call through: no call of its scope is acting, and of  *)
(* one that has acted the record is gone.                                  *)
LEMMA AdmitKeys ==
  ASSUME GatewayInv, NEW k \in Calls, NEW q \in Requests, Admit(k, q)
  PROVE  KeyInv'
<1> USE DEF GatewayInv, CallInv, LedgerIInv, Reads, appVars, slotVars
<1>1. /\ stage[k] = "idle" /\ ~Held(k) /\ ~Acts(k) /\ running # k /\ k \notin effect
      /\ stage' = [stage EXCEPT ![k] = "admitted"] /\ call' = [call EXCEPT ![k] = q]
      /\ UNCHANGED <<running, effect, timedOut, forgotten>>
      /\ q.conn \notin forgotten
  BY LedgerAssumption DEF Admit, KeyInv, Carries, Handed, Undispatched, Acts, Outcomes, Terminal,
     Reserve, ledgerVars
<1>2. /\ \A j \in Calls \ {k} : tickets'[j] = tickets[j] /\ call'[j] = call[j]
      /\ call'[k] = q
      /\ q.key = None => ~Held(k)'
      /\ q.key # None => /\ Held(k)' /\ ~tickets'[k].spent
                         /\ tickets'[k].scope = Scope(q) /\ Scope(q) \in Scopes
                         /\ Reserve(k, Scope(q), q.digest)
  <2>1. CASE q.key = None
    BY <1>1, <2>1 DEF Admit, ledgerVars, Held, CallTypes
  <2>2. CASE q.key # None
    <3>1. Scope(q) \in Scopes /\ q.digest \in Digests /\ Reserve(k, Scope(q), q.digest)
      BY <2>2, RequestFields DEF Admit
    <3>2. [scope |-> Scope(q), digest |-> q.digest, spent |-> FALSE] \in Tickets
      BY <3>1 DEF Tickets
    <3>3. tickets' = [tickets EXCEPT ![k] =
                        [scope |-> Scope(q), digest |-> q.digest, spent |-> FALSE]]
      BY <3>1 DEF Reserve
    <3> QED
      BY <1>1, <2>2, <3>1, <3>2, <3>3, LedgerAssumption DEF Held, LedgerTypeOK, CallTypes
  <2> QED
    BY <2>1, <2>2
<1>3. RecordsLast
  BY <1>1, TrackedRecordsLast DEF Admit
<1>4. ASSUME NEW j \in Calls, j # k PROVE Carries(j)'
  BY <1>1, <1>2, <1>4 DEF CallTypes, KeyInv, Carries, Held, Keyed, Scope
<1>5. Carries(k)'
  BY <1>1, <1>2 DEF CallTypes, Carries, Held, Keyed, Scope
<1>6. ASSUME NEW j \in Calls, Acts(j)' PROVE Covered(j)' /\ Alone(j)'
  <2> DEFINE s == Scope(call[j])
  <2>1. /\ j # k /\ Acts(j) /\ Covered(j) /\ Alone(j) /\ s \in Scopes
        /\ Scope(call[j])' = s
    BY <1>1, <1>2, <1>6, ActsHandedOver DEF Acts, Keyed, KeyInv, Scope
  <2>2. Covered(j)'
    BY <1>2, <1>3, <2>1 DEF Covered, RecordsLast, Held
  <2>3. ASSUME NEW i \in Calls \ {j}, Held(i)' \/ Acts(i)', Keyed(i)', Scope(call[i])' = s
        PROVE  s \in withdrawn'
    <3>1. CASE i # k
      <4>1. (Held(i) \/ Acts(i)) /\ Keyed(i) /\ Scope(call[i]) = s
        BY <1>1, <1>2, <2>3, <3>1 DEF Held, Acts, Keyed, Scope
      <4> QED
        BY <1>3, <2>1, <2>3, <4>1 DEF Alone, RecordsLast
    <3>2. CASE i = k
      <4>1. q.key # None /\ Scope(q) = s /\ s[1] = q.conn
        BY <1>2, <2>3, <3>2 DEF Keyed, Scope
      <4>2. Expire(records)[s] = None /\ inFlight[s] = None /\ records' = Expire(records)
        BY <1>2, <4>1, AdmittedScopeIsFree, RequestFields DEF Reserve
      <4>3. ~(Held(j) /\ ~tickets[j].spent)
        <5> SUFFICES ASSUME Held(j) PROVE FALSE
          OBVIOUS
        <5>1. tickets[j].scope = s /\ tickets[j] \in Tickets
          BY DEF KeyInv, Carries, Held, LedgerTypeOK
        <5> QED
          BY <1>1, <4>1, <4>2, <5>1, LedgerAssumption DEF Reserved, Tickets
      <4>4. s \in withdrawn \/ records[s] # None
        BY <1>1, <2>1, <4>1, <4>3 DEF Covered
      <4> QED
        BY <1>1, <1>3, <2>1, <4>1, <4>2, <4>4 DEF RecordsLast
    <3> QED
      BY <3>1, <3>2
  <2>4. Alone(j)'
    BY <2>1, <2>3 DEF Alone
  <2> QED
    BY <2>2, <2>4
<1> QED
  BY <1>4, <1>5, <1>6 DEF KeyInv

(* The application thread starts a call: its worker is still waiting, so   *)
(* its ticket covers it, and no other call of its scope holds one.         *)
LEMMA StartKeys ==
  ASSUME GatewayInv, NEW k \in Calls, UiStart(k)
  PROVE  KeyInv'
<1> USE DEF GatewayInv, CallInv, LedgerIInv
<1>1. /\ UNCHANGED <<ledgerVars, call, stage, timedOut, withdrawn, effect>>
      /\ running' = k /\ running = None /\ k \notin overdue /\ k \in Lined
  BY LeavesTheLine DEF UiStart, Drains, slotVars, CallTypes
<1>2. stage[k] = "waiting"
  <2>1. reply[k] = None /\ ~Undispatched(k) /\ k \notin timedOut
    BY <1>1 DEF Handed, CallTypes
  <2>2. outcome[k] = None
    BY <2>1 DEF Said
  <2> QED
    BY <2>1, <2>2 DEF Undispatched, CallTypes, Stages, Said
<1>3. /\ \A j \in Calls : Carries(j)' /\ Held(j)' = Held(j) /\ Keyed(j)' = Keyed(j)
      /\ \A j \in Calls : Scope(call[j])' = Scope(call[j])
      /\ UNCHANGED <<tickets, records, forgotten>>
  BY <1>1 DEF KeyInv, Carries, Held, Keyed, Scope, ledgerVars
<1>4. Keyed(k) => Held(k) /\ ~tickets[k].spent
  BY <1>2 DEF KeyInv, Carries
<1>5. ASSUME NEW j \in Calls, Acts(j)' PROVE Covered(j)' /\ Alone(j)'
  <2>1. (j = k \/ Acts(j)) /\ Keyed(j)
    BY <1>1, <1>3, <1>5 DEF Acts
  <2>2. Covered(j)'
    BY <1>1, <1>3, <1>4, <2>1 DEF Covered, KeyInv
  <2>3. ASSUME NEW i \in Calls \ {j}, Held(i)' \/ Acts(i)', Keyed(i)',
               Scope(call[i])' = Scope(call[j])
        PROVE  Scope(call[j]) \in withdrawn
    <3>1. Keyed(i) /\ Scope(call[i]) = Scope(call[j]) /\ (Held(i) \/ Acts(i) \/ i = k)
      BY <1>1, <1>3, <2>3 DEF Acts
    <3>2. CASE Acts(j)
      BY <1>4, <3>1, <3>2 DEF KeyInv, Alone
    <3>3. CASE j = k /\ ~Acts(j)
      <4>1. CASE Acts(i)
        BY <1>4, <2>1, <3>1, <3>3, <4>1 DEF KeyInv, Alone
      <4>2. CASE Held(i)
        BY <1>4, <2>1, <3>1, <3>3, <4>2 DEF OneLicence, KeyInv, Carries
      <4> QED
        BY <2>3, <3>1, <3>3, <4>1, <4>2
    <3> QED
      BY <2>1, <3>2, <3>3
  <2> QED
    BY <1>1, <1>3, <2>2, <2>3 DEF Alone
<1> QED
  BY <1>3, <1>5 DEF KeyInv

(* A worker records its outcome, in time or after the settle window: a call *)
(* that acted, or may still act, leaves a terminal record.                  *)
LEMMA RecordedKeys ==
  ASSUME GatewayInv, NEW k \in Calls, ReceiveReply(k) \/ Settle(k)
  PROVE  KeyInv'
<1> USE DEF GatewayInv, CallInv, LedgerIInv, appVars, slotVars
<1> DEFINE o == IF stage[k] = "waiting"
                THEN IF reply[k] = "dropped" THEN Interrupted(k) ELSE reply[k]
                ELSE Settled(k)
<1>1. /\ UNCHANGED <<call, timedOut, running, effect>>
      /\ stage[k] \in {"waiting", "settling"}
      /\ stage' = [stage EXCEPT ![k] = IF stage[k] = "waiting" THEN "answering" ELSE "finishing"]
      /\ o \in Outcomes /\ TrackWithdrawn
      /\ IF Keyed(k) THEN Record(k, o) ELSE UNCHANGED ledgerVars
  <2>1. CASE ReceiveReply(k)
    BY <2>1 DEF ReceiveReply, CallTypes, Interrupted, Outcomes, Terminal
  <2>2. CASE Settle(k)
    <3>1. Keyed(k)
      BY <2>2 DEF Settle, Record, KeyInv, Carries
    <3> QED
      BY <2>2, <3>1 DEF Settle, CallTypes, Settled, Outcomes, Terminal
  <2> QED
    BY <2>1, <2>2
<1>2. /\ \A j \in Calls \ {k} : tickets'[j] = tickets[j]
      /\ \A j \in Calls : Held(j)' = Held(j)
      /\ Held(k) => tickets'[k].spent /\ tickets'[k].scope = tickets[k].scope
      /\ forgotten' = forgotten
  BY <1>1, RecordSpends DEF Held, KeyInv, Carries, ledgerVars
<1>3. ASSUME NEW j \in Calls, j # k PROVE Carries(j)'
  BY <1>1, <1>2, <1>3 DEF CallTypes, KeyInv, Carries, Held, Keyed, Scope
<1>4. Carries(k)'
  BY <1>1, <1>2 DEF CallTypes, KeyInv, Carries, Held, Keyed, Scope
<1>5. Acts(k) => o \in Terminal
  BY <1>1, ActsHandedOver, LedgerAssumption, GatewayAssumption
     DEF Settled, ReceiveReply, Settle, Terminal
<1>6. Acts(k) /\ Held(k) => \/ records'[Scope(call[k])] # None
                            \/ Scope(call[k])[1] \in forgotten'
  BY <1>1, <1>2, <1>5, RecordSpends DEF KeyInv, Carries
<1>7. RecordsLast
  BY <1>1, <1>2, TrackedRecordsLast
<1>8. \A j \in Calls : /\ Acts(j)' => Acts(j)
                       /\ call'[j] = call[j]
  BY <1>1 DEF Acts, Keyed
<1>9. \A j \in Calls : Acts(j)' => Covered(j)' /\ Alone(j)'
  BY <1>2, <1>6, <1>7, <1>8, StaysCovered
<1> QED
  BY <1>3, <1>4, <1>9 DEF KeyInv

LEMMA KeyNext ==
  ASSUME GatewayInv, [Next]_vars
  PROVE  KeyInv'
<1> USE DEF GatewayInv
<1>1. ASSUME NEW k \in Calls, NEW q \in Requests, RateLimited(k, q) \/ DuplicateId(k, q)
      PROVE  KeyInv'
  <2>1. RecordsLast
    BY <1>1 DEF RateLimited, DuplicateId, ledgerVars, RecordsLast
  <2> QED
    BY <1>1, <2>1, ReaderKeys DEF RateLimited, DuplicateId, AnswerAtOnce, ledgerVars, appVars
<1>2. ASSUME NEW k \in Calls, NEW q \in Requests, AnswerFromLedger(k, q)
      PROVE  KeyInv'
  <2>1. RecordsLast
    BY <1>2, TrackedRecordsLast DEF AnswerFromLedger, Refuse
  <2> QED
    BY <1>2, <2>1, ReaderKeys DEF AnswerFromLedger, Refuse, AnswerAtOnce, appVars
<1>3. ASSUME NEW k \in Calls, RefuseDispatch(k) \/ WorkerRead(k) \/ Finish(k) PROVE KeyInv'
  BY <1>3, EndedKeys
<1>4. ASSUME NEW k \in Calls,
             Dispatch(k) \/ TimeOut(k) \/ Interrupt(k) \/ TakeWriter(k) \/ WriteFrame(k)
      PROVE  KeyInv'
  BY <1>4, WorkerKeys DEF Dispatch, TimeOut, Interrupt, TakeWriter, WriteFrame, appVars
<1>5. ASSUME NEW k \in Calls, DeadlinePasses(k) \/ UiRefuse(k) PROVE KeyInv'
  <2>1. /\ RecordsLast /\ UNCHANGED <<tickets, call, stage, timedOut, running, effect>>
    BY <1>5 DEF DeadlinePasses, UiRefuse, ledgerVars, appVars, RecordsLast
  <2> QED
    BY <2>1, QuietKeys DEF Acts, Keyed
<1>6. ASSUME NEW k \in Calls, NEW r, UiFinish(k, r) PROVE KeyInv'
  <2>1. /\ RecordsLast /\ UNCHANGED <<tickets, call, stage, timedOut>>
        /\ running = k /\ running' = None /\ effect' \subseteq effect \cup {k}
    BY <1>6 DEF UiFinish, ledgerVars, workVars, RecordsLast
  <2> QED
    BY <2>1, QuietKeys, GatewayAssumption DEF Acts, Keyed
<1>7. ASSUME NEW c \in Principals, Close(c) PROVE KeyInv'
  <2>1. /\ RecordsLast /\ UNCHANGED <<tickets, call, stage, timedOut, running, effect>>
    BY <1>7 DEF Close, ForgetPrincipal, workVars, appVars, RecordsLast
  <2> QED
    BY <2>1, QuietKeys DEF Acts, Keyed
<1>8. ASSUME (\E c \in Principals : Revoke(c)) \/ Disable \/ Stopped \/ ClockStep \/ UNCHANGED vars
      PROVE KeyInv'
  <2>1. /\ RecordsLast /\ UNCHANGED <<tickets, call, stage, timedOut, running, effect>>
    BY <1>8 DEF Revoke, Disable, Stopped, ClockStep, Tick, vars, ledgerVars, workVars, appVars,
                RecordsLast
  <2> QED
    BY <2>1, QuietKeys DEF Acts, Keyed
<1> QED
  BY <1>1, <1>2, <1>3, <1>4, <1>5, <1>6, <1>7, <1>8, AdmitKeys, StartKeys, RecordedKeys
     DEF Next, Reader, Worker

LEMMA KeyInit == Init => KeyInv
<1> SUFFICES ASSUME Init PROVE KeyInv
  OBVIOUS
<1> USE GatewayAssumption DEF Init, LedgerInit
<1>1. ASSUME NEW k \in Calls PROVE Carries(k) /\ ~Acts(k)
  BY DEF Carries, Held, Acts
<1> QED
  BY <1>1 DEF KeyInv

(* A keyed call that acts is alone under its key, and covered by its       *)
(* ticket or its record until that record is lost.                         *)
THEOREM GatewayKeysInvariant == Spec => []GatewayInv
<1>1. Init => KeyInv
  BY KeyInit
<1>2. LedgerIInv /\ CallInv /\ KeyInv /\ [Next]_vars => KeyInv'
  BY KeyNext DEF GatewayInv
<1>3. LedgerIInv /\ CallInv /\ KeyInv => GatewayInv
  BY DEF GatewayInv
<1> QED
  BY <1>1, <1>2, <1>3, GatewayCallsInvariant, PTL DEF Spec

(* However a client retries, pipelines or times out, two of its calls      *)
(* under one key act once, unless the record that would have answered the  *)
(* second was lost to age or to the cap.                                   *)
THEOREM GatewayKeyedActionRunsOnce == Spec => []KeyedActionRunsOnce
<1>1. GatewayInv => KeyedActionRunsOnce
  BY DEF GatewayInv, KeyInv, Alone, Acts, CallInv, CallTypes, KeyedActionRunsOnce
<1> QED
  BY <1>1, GatewayKeysInvariant, PTL
-----------------------------------------------------------------------------
(* The store retains a success for the scope. *)
Succeeded(s) == records[s] # None /\ records[s].outcome = "success"

(* A keyed call of the scope has changed the application. *)
Earned(s) == \E j \in effect : Keyed(j) /\ Scope(call[j]) = s

EarnedInv ==
  /\ \A s \in Scopes : Succeeded(s) => Earned(s)
  /\ ReplaysAreEarned

(* A call answers one frame. *)
LEMMA FramesLast ==
  ASSUME CallInv, [Next]_vars
  PROVE  \A j \in Calls : stage[j] # "idle" => call'[j] = call[j]
BY DEF Next, vars, workVars, appVars, RateLimited, DuplicateId, AnswerFromLedger, Admit, Reads,
   AnswerAtOnce, Reader, RefuseDispatch, WorkerRead, Dispatch, DeadlinePasses, Worker,
   ReceiveReply, TimeOut, Interrupt, TakeWriter, WriteFrame, Settle, Finish, UiRefuse, UiStart,
   UiFinish, Close, Revoke, Disable, Stopped, ClockStep, CallInv, CallTypes

(* What was earned stays earned. *)
LEMMA EffectsLast ==
  ASSUME CallInv, [Next]_vars
  PROVE  \A s : Earned(s) => Earned(s)'
<1> USE DEF CallInv, CallTypes
<1>1. effect \subseteq effect'
  BY DEF Next, vars, workVars, appVars, RateLimited, DuplicateId, AnswerFromLedger, Admit,
     AnswerAtOnce, Reader, RefuseDispatch, WorkerRead, Dispatch, DeadlinePasses, Worker,
     ReceiveReply, TimeOut, Interrupt, TakeWriter, WriteFrame, Settle, Finish, UiRefuse, UiStart,
     UiFinish, Close, Revoke, Disable, Stopped, ClockStep
<1>2. \A j \in effect : stage[j] # "idle"
  BY LedgerAssumption DEF Handed, Undispatched, Outcomes, Terminal
<1> QED
  BY <1>1, <1>2, FramesLast DEF Earned, Keyed, Scope

(* What the application thread is running was authorised when it started,   *)
(* and neither a revocation nor a shutdown comes in between.               *)
RunsAuthorised ==
  \A k \in Calls : running = k => Conn(k) \notin revoked /\ access = "enabled"

LEMMA AuthorityNext ==
  ASSUME CallInv, RunsAuthorised, [Next]_vars
  PROVE  RunsAuthorised'
<1> SUFFICES ASSUME NEW k \in Calls, running' = k
             PROVE  (Conn(k) \notin revoked /\ access = "enabled")'
  BY DEF RunsAuthorised
<1> USE DEF CallInv, CallTypes
<1>1. ASSUME NEW j \in Calls, UiStart(j)
      PROVE  (Conn(k) \notin revoked /\ access = "enabled")'
  BY <1>1 DEF UiStart, Drains, Authorised, Conn
<1>2. ASSUME ~\E j \in Calls : UiStart(j)
      PROVE  running = k /\ access' = access /\ revoked' = revoked
  BY <1>2, GatewayAssumption, LedgerAssumption
     DEF Next, vars, appVars, RateLimited, DuplicateId, AnswerFromLedger, Admit, AnswerAtOnce,
         Reader, RefuseDispatch, WorkerRead, Dispatch, DeadlinePasses, Worker, ReceiveReply, TimeOut,
         Interrupt, TakeWriter, WriteFrame, Settle, Finish, UiRefuse, UiFinish, Close, Revoke,
         Disable, Stopped, ClockStep, RunsAuthorised
<1>3. running = k => call'[k] = call[k]
  BY FramesLast DEF Handed, Undispatched
<1> QED
  BY <1>1, <1>2, <1>3 DEF RunsAuthorised, Conn

(* From the moment a client is revoked or access is turned off, nothing of  *)
(* what it has queued, running, timed out or retried changes the            *)
(* application.                                                            *)
THEOREM GatewayRevokedChangesNothing == Spec => RevokedChangesNothing
<1> DEFINE A == \A k \in effect' \ effect : Conn(k) \notin revoked /\ access = "enabled"
<1>1. Init => RunsAuthorised
  BY LedgerAssumption, GatewayAssumption DEF Init, RunsAuthorised
<1>2. CallInv /\ RunsAuthorised /\ [Next]_vars => RunsAuthorised'
  BY AuthorityNext
<1>3. CallInv /\ RunsAuthorised /\ [Next]_vars => [A]_vars
  <2> SUFFICES ASSUME CallInv, RunsAuthorised, [Next]_vars, NEW k \in effect', k \notin effect
               PROVE  Conn(k) \notin revoked /\ access = "enabled"
    OBVIOUS
  <2>1. k \in Calls /\ running = k
    BY DEF Next, vars, appVars, RateLimited, DuplicateId, AnswerFromLedger, Admit, AnswerAtOnce,
       Reader, RefuseDispatch, WorkerRead, Dispatch, DeadlinePasses, Worker, ReceiveReply, TimeOut,
       Interrupt, TakeWriter, WriteFrame, Settle, Finish, UiRefuse, UiStart, UiFinish, Close,
       Revoke, Disable, Stopped, ClockStep
  <2> QED
    BY <2>1 DEF RunsAuthorised
<1>4. [][A]_vars <=> RevokedChangesNothing
  BY PTL DEF RevokedChangesNothing
<1> HIDE DEF A
<1> QED
  BY <1>1, <1>2, <1>3, <1>4, GatewayCallsInvariant, PTL DEF Spec

(* Housekeeping retains no success that was not there. *)
LEMMA NoNewSuccess ==
  ASSUME NEW s \in Scopes,
         \/ \E x \in Scopes, d \in Digests : Refuse(x, d)
         \/ \E t \in Calls, x \in Scopes, d \in Digests : Reserve(t, x, d)
         \/ \E t \in Calls : Release(t)
         \/ \E p \in Principals : ForgetPrincipal(p)
         \/ Tick \/ UNCHANGED ledgerVars,
         Succeeded(s)'
  PROVE  Succeeded(s)
BY DEF Refuse, Reserve, Release, ForgetPrincipal, Tick, ledgerVars, Expire, Succeeded

(* record retains a success only of the call that reports one. *)
LEMMA RecordedSuccess ==
  ASSUME LedgerTypeOK, NEW s \in Scopes, NEW k \in Calls, NEW o \in Outcomes, Record(k, o),
         Succeeded(s)'
  PROVE  Succeeded(s) \/ (o = "success" /\ s = tickets[k].scope)
<1>1. CASE IsTerminal(o) /\ Licensed(k)
  <2>1. PICK kept \in {o, "unknown"} :
           records' = [MakeRoom(records, tickets[k].scope[1]) EXCEPT ![tickets[k].scope] =
             [digest |-> tickets[k].digest, outcome |-> kept, at |-> now]]
    BY <1>1 DEF Record
  <2>2. MakeRoom(records, tickets[k].scope[1]) \in [Scopes -> Records \cup {None}]
    BY MakeRoomKeeps DEF LedgerTypeOK
  <2>3. CASE s = tickets[k].scope
    BY <2>1, <2>2, <2>3 DEF Succeeded
  <2>4. CASE s # tickets[k].scope
    BY <2>1, <2>2, <2>4 DEF Succeeded, MakeRoom
  <2> QED
    BY <2>3, <2>4
<1>2. CASE ~(IsTerminal(o) /\ Licensed(k))
  BY <1>2 DEF Record, Succeeded
<1> QED
  BY <1>1, <1>2

(* Only actions carry a key: the other capabilities declare the policy      *)
(* Forbidden, under which admission refuses one.                            *)
KeysAreForActions == \A q \in Requests : q.key # None => q.kind = "action"

LEMMA EarnedNext ==
  ASSUME KeysAreForActions, GatewayInv, EarnedInv, [Next]_vars
  PROVE  EarnedInv'
<1> USE DEF GatewayInv, LedgerIInv, CallInv, EarnedInv
<1>1. ASSUME NEW s \in Scopes, Succeeded(s)' PROVE Earned(s)'
  <2>1. ASSUME NEW k \in Calls, Keyed(k), ReceiveReply(k) \/ Settle(k) PROVE Earned(s)'
    <3> DEFINE o == IF ReceiveReply(k)
                    THEN IF reply[k] = "dropped" THEN Interrupted(k) ELSE reply[k]
                    ELSE Settled(k)
    <3>1. o \in Outcomes /\ Record(k, o)
      BY <2>1 DEF ReceiveReply, Settle, CallTypes, Interrupted, Settled, Outcomes, Terminal
    <3>2. CASE Succeeded(s)
      BY <3>2, EffectsLast
    <3>3. CASE o = "success" /\ s = tickets[k].scope
      <4>1. reply[k] = "success"
        BY <2>1, <3>3 DEF ReceiveReply, Settle, Interrupted, Settled
      <4>2. call[k] \in Requests /\ Held(k)
        BY <2>1, <3>1 DEF Record, ReceiveReply, Settle, Handed
      <4>3. k \in effect /\ Scope(call[k]) = s
        BY <2>1, <3>3, <4>1, <4>2 DEF KeysAreForActions, Handed, Keyed, KeyInv, Carries
      <4> QED
        BY <2>1, <4>3, EffectsLast DEF Earned
    <3> QED
      BY <1>1, <3>1, <3>2, <3>3, RecordedSuccess
  <2>2. ASSUME ~\E k \in Calls : Keyed(k) /\ (ReceiveReply(k) \/ Settle(k)) PROVE Earned(s)'
    <3>1. \/ \E x \in Scopes, d \in Digests : Refuse(x, d)
          \/ \E t \in Calls, x \in Scopes, d \in Digests : Reserve(t, x, d)
          \/ \E t \in Calls : Release(t)
          \/ \E p \in Principals : ForgetPrincipal(p)
          \/ Tick \/ UNCHANGED ledgerVars
      <4>1. ASSUME NEW k \in Calls, Settle(k) PROVE FALSE
        BY <2>2, <4>1 DEF Settle, Record, KeyInv, Carries
      <4>2. ASSUME NEW k \in Calls, ReceiveReply(k) PROVE UNCHANGED ledgerVars
        BY <2>2, <4>2 DEF ReceiveReply
      <4>3. ASSUME NEW k \in Calls, NEW q \in Requests, AnswerFromLedger(k, q)
            PROVE  \E x \in Scopes, d \in Digests : Refuse(x, d)
        BY <4>3, RequestFields DEF AnswerFromLedger
      <4>4. ASSUME NEW k \in Calls, NEW q \in Requests, Admit(k, q)
            PROVE  \/ \E t \in Calls, x \in Scopes, d \in Digests : Reserve(t, x, d)
                   \/ UNCHANGED ledgerVars
        BY <4>4, RequestFields DEF Admit
      <4>5. ASSUME NEW k \in Calls, RefuseDispatch(k) \/ Finish(k)
            PROVE  (\E t \in Calls : Release(t)) \/ UNCHANGED ledgerVars
        BY <4>5 DEF RefuseDispatch, Finish, DropTicket
      <4> QED
        BY <4>1, <4>2, <4>3, <4>4, <4>5
           DEF Next, vars, RateLimited, DuplicateId, Reader, WorkerRead, Dispatch, DeadlinePasses,
               Worker, TimeOut, Interrupt, TakeWriter, WriteFrame, UiRefuse, UiStart, UiFinish,
               Close, Revoke, Disable, Stopped, ClockStep
    <3> QED
      BY <1>1, <3>1, NoNewSuccess, EffectsLast
  <2> QED
    BY <2>1, <2>2
<1>2. ReplaysAreEarned'
  <2> SUFFICES ASSUME NEW k \in Calls, answer'[k] = "success", outcome'[k] = None, Keyed(k)'
               PROVE  Earned(Scope(call[k]))'
    BY DEF ReplaysAreEarned, Earned, Dispatched
  <2>1. ASSUME answer[k] = "success", outcome[k] = None, call'[k] = call[k]
        PROVE  Earned(Scope(call[k]))'
    <3>1. Earned(Scope(call[k])) /\ Scope(call[k])' = Scope(call[k])
      BY <2>1 DEF ReplaysAreEarned, Earned, Dispatched, Keyed, Scope
    <3> QED
      BY <3>1, EffectsLast
  <2>2. ASSUME NEW q \in Requests, AnswerFromLedger(k, q)
        PROVE  Earned(Scope(call[k]))'
    <3>1. /\ Answered(Scope(q), q.digest) = "success" /\ call'[k] = q
          /\ Scope(q) \in Scopes
      BY <2>2, RequestFields DEF AnswerFromLedger, Reads, AnswerAtOnce, Encoded, CallTypes
    <3>2. Succeeded(Scope(q))
      BY <3>1, LedgerAssumption DEF Answered, Expire, Succeeded, Outcomes, Terminal
    <3>3. Scope(call[k])' = Scope(q)
      BY <3>1 DEF Scope
    <3> QED
      BY <3>1, <3>2, <3>3, EffectsLast
  <2>3. ASSUME ~\E q \in Requests : AnswerFromLedger(k, q)
        PROVE  answer[k] = "success" /\ outcome[k] = None /\ call'[k] = call[k]
    <3>1. answer[k] = "success" /\ outcome[k] = None
      BY <2>3, LedgerAssumption
         DEF Next, vars, workVars, appVars, RateLimited, DuplicateId, AnswerFromLedger, Admit,
             AnswerAtOnce, Encoded, Reader, RefuseDispatch, WorkerRead, Dispatch, DeadlinePasses, Worker,
             ReceiveReply, Interrupted, TimeOut, Interrupt, TakeWriter, WriteFrame, Settle, Finish,
             UiRefuse, UiStart, UiFinish, Close, Revoke, Disable, Stopped, ClockStep, CallTypes,
             Keyed, Outcomes, Terminal
    <3>2. stage[k] # "idle"
      BY <3>1, LedgerAssumption DEF Said, Outcomes, Terminal
    <3> QED
      BY <3>1, <3>2, FramesLast
  <2> QED
    BY <2>1, <2>2, <2>3
<1> QED
  BY <1>1, <1>2

(* Where only actions carry a key: a replayed success was earned by an      *)
(* earlier call of its scope, whatever was forgotten, evicted, timed out or *)
(* settled late in between.                                                 *)
THEOREM GatewayReplaysAreEarned ==
  ASSUME KeysAreForActions
  PROVE  Spec => []ReplaysAreEarned
<1>1. Init => EarnedInv
  BY LedgerAssumption DEF Init, LedgerInit, EarnedInv, Succeeded, ReplaysAreEarned, Outcomes, Terminal
<1>2. GatewayInv /\ EarnedInv /\ [Next]_vars => EarnedInv'
  BY EarnedNext
<1>3. EarnedInv => ReplaysAreEarned
  BY DEF EarnedInv
<1> QED
  BY <1>1, <1>2, <1>3, GatewayKeysInvariant, PTL DEF Spec

-----------------------------------------------------------------------------
(* The gateway's books: the shared slots, the slots of each connection and  *)
(* the request IDs in flight are those of the workers that hold them, after *)
(* every step.  Each counter is the cardinality of the set of its holders,  *)
(* and a worker joins and leaves each set once.  An ID is different: it is  *)
(* a member of a set, so returning it is safe only because no other         *)
(* unanswered call of the connection bears it (FreshIds), which holds       *)
(* because a reader works on one frame at a time (OneReading).              *)

(* The workers that hold a shared slot, those that hold one of their       *)
(* connection's, and those whose request ID is in flight.                  *)
Busy      == {k \in Calls : stage[k] \in {"waiting", "timing_out", "answering", "writing"}}
Open(c)   == {k \in Calls : stage[k] \notin {"idle", "admitted", "done"} /\ Conn(k) = c}
Asking(c) == {k \in Calls : stage[k] \in {"waiting", "timing_out", "answering"} /\ Conn(k) = c}

SlotTypes ==
  /\ revoked \subseteq Principals /\ withdrawn \subseteq Scopes
  /\ writer \in [Principals -> Calls \cup {None}]
  /\ ids \in [Principals -> SUBSET Ids]
  /\ globalInFlight \in 0 .. GlobalSlots
  /\ connInFlight \in [Principals -> 0 .. ConnSlots]

(* A reader dispatches one frame at a time, under an ID no worker of its   *)
(* connection has unanswered: so an ID released is the ID of one call.     *)
OneReading ==
  \A j, k \in Calls :
    stage[j] = "admitted" /\ stage[k] = "admitted" /\ Conn(j) = Conn(k) => j = k
FreshIds ==
  /\ \A k \in Calls : stage[k] = "admitted" => call[k].id \notin ids[Conn(k)]
  /\ \A c \in Principals : \A j, k \in Asking(c) : call[j].id = call[k].id => j = k

SlotInv ==
  /\ SlotTypes
  /\ OneReading
  /\ FreshIds
  /\ globalInFlight = Cardinality(Busy)
  /\ \A c \in Principals : /\ connInFlight[c] = Cardinality(Open(c))
                           /\ ids[c] = {call[k].id : k \in Asking(c)}
-----------------------------------------------------------------------------
LEMMA WorkersAreFinite ==
  /\ IsFiniteSet(Busy) /\ Cardinality(Busy) \in Nat
  /\ \A c : IsFiniteSet(Open(c)) /\ Cardinality(Open(c)) \in Nat
<1>1. Busy \subseteq Calls /\ \A c : Open(c) \subseteq Calls
  BY DEF Busy, Open
<1> QED
  BY <1>1, GatewayAssumption, FS_Subset, FS_CardinalityType

(* A step in which every call keeps its slots and its ID. *)
LEMMA SlotsKept ==
  ASSUME SlotInv, SlotTypes', UNCHANGED <<ids, globalInFlight, connInFlight>>,
         Busy' = Busy, \A c \in Principals : Open(c)' = Open(c) /\ Asking(c)' = Asking(c),
         \A c \in Principals : \A k \in Asking(c) : call'[k] = call[k],
         OneReading', \A k \in Calls : stage'[k] = "admitted" => call'[k].id \notin ids'[call'[k].conn]
  PROVE  SlotInv'
<1>1. FreshIds'
  BY DEF SlotInv, FreshIds, Conn
<1>2. \A c \in Principals : {call[k].id : k \in Asking(c)}' = {call[k].id : k \in Asking(c)}
  BY DEF SlotInv
<1> QED
  BY <1>1, <1>2 DEF SlotInv

(* The reader answers, admits or gives up a frame: no worker is involved.  *)
LEMMA ReaderSlots ==
  ASSUME CallInv, SlotInv, NEW k \in Calls, NEW q \in Requests, NEW st \in {"admitted", "done"},
         stage[k] \in {"idle", "admitted"}, stage' = [stage EXCEPT ![k] = st],
         call' = [call EXCEPT ![k] = q], UNCHANGED slotVars, SlotTypes',
         st = "admitted" => q.id \notin ids[q.conn] /\ ReaderFree(q.conn)
  PROVE  SlotInv'
<1> USE DEF CallInv, CallTypes, SlotInv, slotVars
<1>1. /\ stage'[k] = st /\ call'[k] = q
      /\ \A j \in Calls \ {k} : stage'[j] = stage[j] /\ call'[j] = call[j]
  OBVIOUS
<1>2. Busy' = Busy
  BY <1>1 DEF Busy
<1>3. \A c \in Principals : Open(c)' = Open(c) /\ Asking(c)' = Asking(c)
  BY <1>1 DEF Open, Asking, Conn
<1>4. \A c \in Principals : \A j \in Asking(c) : call'[j] = call[j]
  BY <1>1 DEF Asking
<1>5. OneReading'
  BY <1>1 DEF OneReading, ReaderFree, Conn
<1>6. \A j \in Calls : stage'[j] = "admitted" => call'[j].id \notin ids'[call'[j].conn]
  BY <1>1 DEF FreshIds, Conn
<1> QED
  BY <1>2, <1>3, <1>4, <1>5, <1>6, SlotsKept

(* A worker moves on and keeps its slots and its ID. *)
LEMMA WorkerSlots ==
  ASSUME CallInv, SlotInv, NEW k \in Calls, NEW st, UNCHANGED <<call, slotVars>>, SlotTypes',
         stage' = [stage EXCEPT ![k] = st],
         \/ stage[k] \in {"waiting", "timing_out"} /\ st \in {"timing_out", "answering"}
         \/ stage[k] = "settling" /\ st = "finishing"
  PROVE  SlotInv'
<1> USE DEF CallInv, CallTypes, SlotInv, slotVars
<1>1. stage'[k] = st /\ \A j \in Calls \ {k} : stage'[j] = stage[j]
  OBVIOUS
<1>2. Busy' = Busy
  BY <1>1 DEF Busy
<1>3. \A c \in Principals : Open(c)' = Open(c) /\ Asking(c)' = Asking(c)
  BY <1>1 DEF Open, Asking, Conn
<1>4. OneReading'
  BY <1>1 DEF OneReading, Conn
<1>5. \A j \in Calls : stage'[j] = "admitted" => call'[j].id \notin ids'[call'[j].conn]
  BY <1>1 DEF FreshIds, Conn
<1> QED
  BY <1>2, <1>3, <1>4, <1>5, SlotsKept

(* A worker starts, on a shared slot, a slot of its connection and an ID   *)
(* nobody there is using.                                                  *)
LEMMA DispatchSlots ==
  ASSUME CallInv, SlotInv, NEW k \in Calls, Dispatch(k)
  PROVE  SlotInv'
<1> USE DEF CallInv, CallTypes, SlotInv
<1> DEFINE c == Conn(k)
<1>1. /\ stage[k] = "admitted" /\ stage'[k] = "waiting"
      /\ \A j \in Calls \ {k} : stage'[j] = stage[j]
      /\ UNCHANGED <<call, revoked, withdrawn, writer>>
      /\ globalInFlight < GlobalSlots /\ globalInFlight' = globalInFlight + 1
      /\ connInFlight[c] < ConnSlots /\ connInFlight' = [connInFlight EXCEPT ![c] = @ + 1]
      /\ ids' = [ids EXCEPT ![c] = @ \cup {call[k].id}]
  BY DEF Dispatch, SlotsFree
<1>2. call[k] \in Requests /\ c \in Principals /\ call[k].id \in Ids
  BY <1>1, RequestFields DEF Handed, Conn
<1>3. SlotTypes'
  BY <1>1, <1>2, GatewayAssumption DEF SlotTypes
<1>4. Busy' = Busy \cup {k} /\ k \notin Busy
  BY <1>1 DEF Busy
<1>5. globalInFlight' = Cardinality(Busy)'
  BY <1>1, <1>4, WorkersAreFinite, FS_AddElement
<1>6. ASSUME NEW p \in Principals
      PROVE  connInFlight'[p] = Cardinality(Open(p))'
  <2>1. CASE p = c
    <3>1. Open(p)' = Open(p) \cup {k} /\ k \notin Open(p)
      BY <1>1, <2>1 DEF Open, Conn
    <3>2. Cardinality(Open(p))' = Cardinality(Open(p)) + 1
      BY <3>1, WorkersAreFinite, FS_AddElement, ZenonT(40)
    <3>3. connInFlight'[p] = connInFlight[p] + 1
      BY <1>1, <2>1 DEF SlotTypes
    <3> QED
      BY <3>2, <3>3
  <2>2. CASE p # c
    <3>1. Open(p)' = Open(p)
      BY <1>1, <2>2 DEF Open, Conn
    <3> QED
      BY <1>1, <2>2, <3>1 DEF SlotTypes
  <2> QED
    BY <2>1, <2>2
<1>7. ASSUME NEW p \in Principals
      PROVE  Asking(p)' = IF p = c THEN Asking(p) \cup {k} ELSE Asking(p)
  BY <1>1 DEF Asking, Conn
<1>8. ASSUME NEW p \in Principals
      PROVE  ids'[p] = {call[j].id : j \in Asking(p)}'
  BY <1>1, <1>7 DEF SlotTypes
<1>9. OneReading'
  BY <1>1 DEF OneReading, Conn
<1>10. ASSUME NEW j \in Calls, stage'[j] = "admitted"
       PROVE  call'[j].id \notin ids'[Conn(j)']
  <2>1. j # k /\ stage[j] = "admitted" /\ Conn(j) # c /\ Conn(j)' = Conn(j)
    BY <1>1, <1>10 DEF OneReading, Conn
  <2> QED
    BY <1>1, <2>1 DEF FreshIds, SlotTypes
<1>11. ASSUME NEW p \in Principals, NEW i \in Asking(p)', NEW j \in Asking(p)',
              call'[i].id = call'[j].id
       PROVE  i = j
  <2>1. call[k].id \notin {call[m].id : m \in Asking(c)}
    BY <1>1, <1>2 DEF FreshIds
  <2> QED
    BY <1>1, <1>7, <1>11, <2>1 DEF FreshIds
<1> QED
  BY <1>3, <1>5, <1>6, <1>8, <1>9, <1>10, <1>11 DEF FreshIds

(* An answer is about to go out: its ID is free for the next request. *)
LEMMA AnswerSlots ==
  ASSUME CallInv, SlotInv, NEW k \in Calls, TakeWriter(k)
  PROVE  SlotInv'
<1> USE DEF CallInv, CallTypes, SlotInv
<1> DEFINE c == Conn(k)
<1>1. /\ stage[k] = "answering" /\ stage'[k] = "writing"
      /\ \A j \in Calls \ {k} : stage'[j] = stage[j]
      /\ UNCHANGED <<call, revoked, withdrawn, globalInFlight, connInFlight>>
      /\ writer' = [writer EXCEPT ![c] = k]
      /\ ids' = [ids EXCEPT ![c] = ids[c] \ {call[k].id}]
  BY DEF TakeWriter, IdsAfterAnswer, appVars
<1>2. call[k] \in Requests /\ c \in Principals /\ k \in Asking(c)
  BY <1>1, RequestFields DEF Handed, Conn, Asking
<1>3. SlotTypes'
  BY <1>1, <1>2, GatewayAssumption DEF SlotTypes
<1>4. Busy' = Busy /\ \A p \in Principals : Open(p)' = Open(p)
  BY <1>1 DEF Busy, Open, Conn
<1>5. ASSUME NEW p \in Principals
      PROVE  Asking(p)' = IF p = c THEN Asking(p) \ {k} ELSE Asking(p)
  BY <1>1 DEF Asking, Conn
<1>6. ASSUME NEW p \in Principals
      PROVE  ids'[p] = {call[j].id : j \in Asking(p)}'
  <2>1. CASE p = c
    <3>1. {call[j].id : j \in Asking(p)}' = {call[j].id : j \in Asking(p) \ {k}}
      BY <1>1, <1>5, <2>1
    <3>2. \A j \in Asking(c) \ {k} : call[j].id # call[k].id
      BY <1>2 DEF FreshIds
    <3>3. ids[c] = {call[j].id : j \in Asking(c)}
      BY <1>2
    <3>4. ids'[c] = ids[c] \ {call[k].id}
      BY <1>1, <1>2 DEF SlotTypes
    <3>5. {call[j].id : j \in Asking(c)} \ {call[k].id} = {call[j].id : j \in Asking(c) \ {k}}
      BY <3>2
    <3> QED
      BY <2>1, <3>1, <3>3, <3>4, <3>5
  <2>2. CASE p # c
    BY <1>1, <1>5, <2>2 DEF SlotTypes
  <2> QED
    BY <2>1, <2>2
<1>7. OneReading'
  BY <1>1 DEF OneReading, Conn
<1>8. FreshIds'
  <2>1. ASSUME NEW j \in Calls, stage'[j] = "admitted" PROVE call'[j].id \notin ids'[Conn(j)']
    <3>1. stage[j] = "admitted" /\ Conn(j)' = Conn(j)
      BY <1>1, <2>1 DEF Conn
    <3> QED
      BY <1>1, <3>1 DEF FreshIds, SlotTypes
  <2> QED
    BY <1>1, <1>5, <2>1 DEF FreshIds
<1> QED
  BY <1>1, <1>3, <1>4, <1>6, <1>7, <1>8

(* The frame is out and the shared slot returned: the worker held one. *)
LEMMA WriteSlots ==
  ASSUME CallInv, SlotInv, NEW k \in Calls, WriteFrame(k)
  PROVE  SlotInv'
<1> USE DEF CallInv, CallTypes, SlotInv
<1>1. /\ stage[k] = "writing" /\ stage'[k] \in {"settling", "finishing"}
      /\ \A j \in Calls \ {k} : stage'[j] = stage[j]
      /\ UNCHANGED <<call, revoked, withdrawn, ids, connInFlight>>
      /\ writer' = [writer EXCEPT ![Conn(k)] = None]
      /\ globalInFlight' = globalInFlight - 1
  BY DEF WriteFrame, appVars
<1>2. Busy' = Busy \ {k} /\ k \in Busy
  BY <1>1 DEF Busy
<1>3. globalInFlight' = Cardinality(Busy)'
  BY <1>1, <1>2, WorkersAreFinite, FS_RemoveElement
<1>4. globalInFlight # 0
  BY <1>2, WorkersAreFinite, FS_EmptySet
<1>5. SlotTypes'
  <2>1. globalInFlight' \in 0 .. GlobalSlots
    BY <1>1, <1>4, GatewayAssumption DEF SlotTypes
  <2> QED
    BY <1>1, <2>1 DEF SlotTypes
<1>6. \A p \in Principals : Open(p)' = Open(p) /\ Asking(p)' = Asking(p)
  BY <1>1 DEF Open, Asking, Conn
<1>7. \A p \in Principals : {call[j].id : j \in Asking(p)}' = {call[j].id : j \in Asking(p)}
  BY <1>1, <1>6
<1>8. OneReading'
  BY <1>1 DEF OneReading, Conn
<1>9. FreshIds'
  BY <1>1, <1>6 DEF FreshIds, Conn
<1> QED
  BY <1>1, <1>3, <1>5, <1>6, <1>7, <1>8, <1>9

(* The worker ends: the slot it returns to its connection is its own. *)
LEMMA FinishSlots ==
  ASSUME CallInv, SlotInv, NEW k \in Calls, Finish(k)
  PROVE  SlotInv'
<1> USE DEF CallInv, CallTypes, SlotInv
<1>1. /\ stage[k] = "finishing" /\ stage'[k] = "done"
      /\ \A j \in Calls \ {k} : stage'[j] = stage[j]
      /\ UNCHANGED <<call, revoked, withdrawn, writer, ids, globalInFlight>>
      /\ connInFlight' = [connInFlight EXCEPT ![Conn(k)] = connInFlight[Conn(k)] - 1]
  BY DEF Finish, SlotsAfter, appVars
<1>2. PICK c \in Principals : c = Conn(k)
  BY <1>1, RequestFields DEF Handed, Conn
<1>3. Open(c)' = Open(c) \ {k} /\ k \in Open(c)
  BY <1>1, <1>2 DEF Open, Conn
<1>4. Cardinality(Open(c))' = Cardinality(Open(c)) - 1 /\ connInFlight[c] # 0
  <2>1. Cardinality(Open(c))' = Cardinality(Open(c)) - 1
    BY <1>3, WorkersAreFinite, FS_RemoveElement
  <2>2. Cardinality(Open(c)) # 0
    BY <1>3, WorkersAreFinite, FS_EmptySet
  <2>3. connInFlight[c] = Cardinality(Open(c))
    BY <1>2
  <2> QED
    BY <2>1, <2>2, <2>3
<1>5. SlotTypes'
  BY <1>1, <1>2, <1>4, GatewayAssumption DEF SlotTypes
<1>6. /\ Busy' = Busy
      /\ \A p \in Principals : Asking(p)' = Asking(p) /\ (p # c => Open(p)' = Open(p))
  BY <1>1, <1>2 DEF Busy, Open, Asking, Conn
<1>7. ASSUME NEW p \in Principals PROVE connInFlight'[p] = Cardinality(Open(p))'
  <2>1. CASE p = c
    <3>1. connInFlight[c] = Cardinality(Open(c)) /\ connInFlight'[c] = connInFlight[c] - 1
      BY <1>1, <1>2 DEF SlotTypes
    <3>2. Cardinality(Open(p))' = Cardinality(Open(c)) - 1
      BY <1>4, <2>1
    <3> QED
      BY <2>1, <3>1, <3>2
  <2>2. CASE p # c
    <3>1. connInFlight[p] = Cardinality(Open(p)) /\ connInFlight'[p] = connInFlight[p]
      BY <1>1, <1>2, <2>2 DEF SlotTypes
    <3> QED
      BY <1>6, <2>2, <3>1
  <2> QED
    BY <2>1, <2>2
<1>8. \A p \in Principals : {call[j].id : j \in Asking(p)}' = {call[j].id : j \in Asking(p)}
  BY <1>1, <1>6
<1>9. OneReading'
  BY <1>1 DEF OneReading, Conn
<1>10. FreshIds'
  BY <1>1, <1>6 DEF FreshIds, Conn
<1> QED
  BY <1>1, <1>5, <1>6, <1>7, <1>8, <1>9, <1>10

(* Steps outside the readers and the workers. *)
LEMMA OtherSlots ==
  ASSUME SlotInv, UNCHANGED <<call, stage, slotVars, withdrawn>>, revoked' \subseteq Principals
  PROVE  SlotInv'
<1> USE DEF SlotInv, slotVars
<1>1. SlotTypes'
  BY DEF SlotTypes
<1>2. Busy' = Busy /\ \A p \in Principals : Open(p)' = Open(p) /\ Asking(p)' = Asking(p)
  BY DEF Busy, Open, Asking, Conn
<1>3. OneReading' /\ \A k \in Calls : stage'[k] = "admitted" => call'[k].id \notin ids'[call'[k].conn]
  BY DEF OneReading, FreshIds, Conn
<1> QED
  BY <1>1, <1>2, <1>3, SlotsKept

LEMMA SlotNext ==
  ASSUME CallInv, SlotInv, [Next]_vars
  PROVE  SlotInv'
<1> USE DEF CallInv, SlotInv
<1>1. ASSUME NEW k \in Calls, NEW q \in Requests,
             RateLimited(k, q) \/ DuplicateId(k, q) \/ AnswerFromLedger(k, q)
      PROVE  SlotInv'
  <2>1. /\ stage[k] = "idle" /\ stage' = [stage EXCEPT ![k] = "done"]
        /\ call' = [call EXCEPT ![k] = q] /\ UNCHANGED slotVars
        /\ SlotTypes'
    BY <1>1 DEF RateLimited, DuplicateId, AnswerFromLedger, Reads, AnswerAtOnce, TrackWithdrawn,
                Recorded, appVars, slotVars, SlotTypes
  <2> QED
    BY <2>1, ReaderSlots
<1>2. ASSUME NEW k \in Calls, NEW q \in Requests, Admit(k, q) PROVE SlotInv'
  <2>1. /\ stage[k] = "idle" /\ stage' = [stage EXCEPT ![k] = "admitted"]
        /\ call' = [call EXCEPT ![k] = q] /\ UNCHANGED slotVars
        /\ q.id \notin ids[q.conn] /\ ReaderFree(q.conn) /\ SlotTypes'
    BY <1>2 DEF Admit, Reads, TrackWithdrawn, Recorded, appVars, slotVars, SlotTypes
  <2> QED
    BY <2>1, ReaderSlots
<1>3. ASSUME NEW k \in Calls, RefuseDispatch(k) \/ WorkerRead(k) PROVE SlotInv'
  <2>1. /\ stage[k] = "admitted" /\ stage' = [stage EXCEPT ![k] = "done"]
        /\ UNCHANGED <<call, slotVars>> /\ SlotTypes' /\ call[k] \in Requests
    BY <1>3 DEF RefuseDispatch, WorkerRead, AnswerAtOnce, appVars, slotVars, SlotTypes, Handed
  <2>2. call' = [call EXCEPT ![k] = call[k]]
    BY <2>1 DEF CallTypes
  <2> QED
    BY <2>1, <2>2, ReaderSlots
<1>4. ASSUME NEW k \in Calls, ReceiveReply(k) \/ TimeOut(k) \/ Interrupt(k) \/ Settle(k)
      PROVE  SlotInv'
  <2>1. UNCHANGED <<call, slotVars>> /\ SlotTypes'
    BY <1>4 DEF ReceiveReply, TimeOut, Interrupt, Settle, TrackWithdrawn, Recorded, appVars,
                slotVars, SlotTypes
  <2> QED
    BY <1>4, <2>1, WorkerSlots DEF ReceiveReply, TimeOut, Interrupt, Settle
<1>5. ASSUME (\E k \in Calls : DeadlinePasses(k) \/ UiRefuse(k) \/ UiStart(k))
             \/ (\E k \in Calls, r \in {"success", "refused", "retryable"} : UiFinish(k, r))
             \/ (\E c \in Principals : Close(c) \/ Revoke(c))
             \/ Disable \/ Stopped \/ ClockStep \/ UNCHANGED vars
      PROVE  SlotInv'
  <2>1. UNCHANGED <<call, stage, slotVars, withdrawn>> /\ revoked' \subseteq Principals
    BY <1>5 DEF DeadlinePasses, UiRefuse, UiStart, UiFinish, Close, Revoke, Disable, Stopped,
                ClockStep, vars, workVars, appVars, slotVars, SlotTypes
  <2> QED
    BY <2>1, OtherSlots
<1> QED
  BY <1>1, <1>2, <1>3, <1>4, <1>5, DispatchSlots, AnswerSlots, WriteSlots, FinishSlots
     DEF Next, Reader, Worker

LEMMA SlotInit == Init => SlotInv
<1> SUFFICES ASSUME Init PROVE SlotInv
  OBVIOUS
<1> USE GatewayAssumption DEF Init
<1>1. Busy = {} /\ \A c \in Principals : Open(c) = {} /\ Asking(c) = {}
  BY DEF Busy, Open, Asking
<1>2. SlotTypes /\ OneReading /\ FreshIds
  BY <1>1 DEF SlotTypes, OneReading, FreshIds
<1> QED
  BY <1>1, <1>2, FS_EmptySet DEF SlotInv

(* Every slot counter is the number of its holders, and an ID is in flight *)
(* exactly while one worker of its connection has it unanswered.           *)
THEOREM GatewaySlotsInvariant == Spec => []SlotInv
<1>1. CallInv /\ SlotInv /\ [Next]_vars => SlotInv'
  BY SlotNext
<1> QED
  BY SlotInit, <1>1, GatewayCallsInvariant, PTL DEF Spec

(* No path of a request leaks a slot or an ID, or returns one twice.       *)
THEOREM GatewayRequestsAreAccounted == Spec => []RequestsAreAccounted
<1>1. SlotInv => RequestsAreAccounted
  BY DEF SlotInv, RequestsAreAccounted, Busy, Open, Asking
<1> QED
  BY <1>1, GatewaySlotsInvariant, PTL

(* The gateway's variables keep their types, the slots their limits. *)
THEOREM GatewayTypeCorrect == Spec => []TypeOK
<1>1. LedgerIInv /\ CallInv /\ SlotInv => TypeOK
  BY DEF LedgerIInv, CallInv, CallTypes, SlotInv, SlotTypes, TypeOK
<1> QED
  BY <1>1, GatewayCallsInvariant, GatewaySlotsInvariant, PTL
=============================================================================
