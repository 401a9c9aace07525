------------------------------ MODULE TickPump ------------------------------
(* The live half of a MetaTrader bridge session                             *)
(* (bridge/mt5/quantick_bridge_ticks.py, pump_ticks): it polls the terminal *)
(* for the prints past its cursor and forwards them.  Prints share          *)
(* milliseconds and have no identity, so the cursor is the newest           *)
(* millisecond sent and how many prints of it went; the terminal can only   *)
(* be asked from a whole second on, for a number of prints.                 *)
(*                                                                          *)
(* A print is its place on the venue's tape, Ms its stamp.  A pass is one   *)
(* call of pump_ticks; the tape may grow between two of its rounds.         *)
EXTENDS Integers, Sequences, SequencesExt, FiniteSets

CONSTANTS Ms,         \* the stamps of the venue's tape, in tape order
          Second,     \* milliseconds in a second
          RoundTicks, \* TICKS_PER_PUMP_ROUND
          MaxTicks,   \* MAX_TICKS_PER_REQUEST
          MaxRounds   \* MAX_PUMP_ROUNDS

ASSUME PumpAssumption ==
  /\ Ms \in Seq(Nat)
  /\ \A i \in 2 .. Len(Ms) : Ms[i - 1] <= Ms[i]
  /\ Second \in Nat \ {0}
  /\ RoundTicks \in Nat \ {0} /\ MaxTicks \in Nat \ {0} /\ MaxRounds \in Nat \ {0}

VARIABLES
  printed,  \* prints the terminal holds
  cursor,   \* [ms, sent]: cursor_msc and sent_at_cursor
  wire,     \* the prints that went out, the opening block's first
  pass      \* [rounds, count] while a pass runs

pumpVars == <<printed, cursor, wire, pass>>

NoPass == [rounds |-> 0, count |-> 0]
Prints == 1 .. Len(Ms)

(* send_backfill leaves the cursor behind the block it sent. *)
PumpInit ==
  /\ printed \in Prints
  /\ wire = [i \in 1 .. printed |-> i]
  /\ cursor = [ms |-> Ms[printed],
               sent |-> Cardinality({i \in 1 .. printed : Ms[i] = Ms[printed]})]
  /\ pass = NoPass

(* copy_ticks_from: the oldest count prints held from the second of ms on.  *)
(* Stamps climb along the tape, so those it passes over are its first ones. *)
Passed(ms) == Cardinality({i \in 1 .. printed : Ms[i] \div Second < ms \div Second})
CopyTicksFrom(ms, count) ==
  LET held == printed - Passed(ms)
  IN  [n \in 1 .. (IF held < count THEN held ELSE count) |-> Passed(ms) + n]

(* Faulty variant: the print that moves the cursor is not counted at it. *)
ForwardUncounted(at, i) ==
  CASE Ms[i] < at.ms -> at
    [] Ms[i] = at.ms /\ at.seen < at.sent -> [at EXCEPT !.seen = @ + 1]
    [] Ms[i] = at.ms /\ at.seen >= at.sent ->
         [at EXCEPT !.seen = @ + 1, !.sent = @ + 1, !.out = Append(@, i)]
    [] OTHER -> [ms |-> Ms[i], sent |-> 0, seen |-> 0, out |-> Append(at.out, i)]

(* What the pass does with one print of the answer: seen counts the prints *)
(* of the cursor's millisecond that it met in this answer.                 *)
Forward(at, i) ==
  CASE Ms[i] < at.ms -> at
    [] Ms[i] = at.ms /\ at.seen < at.sent -> [at EXCEPT !.seen = @ + 1]
    [] Ms[i] = at.ms /\ at.seen >= at.sent ->
         [at EXCEPT !.seen = @ + 1, !.sent = @ + 1, !.out = Append(@, i)]
    [] OTHER -> [ms |-> Ms[i], sent |-> 1, seen |-> 0, out |-> Append(at.out, i)]

Forwarded(answer) ==
  LET at[n \in 0 .. Len(answer)] ==
        IF n = 0 THEN [ms |-> cursor.ms, sent |-> cursor.sent, seen |-> 0, out |-> << >>]
        ELSE CHOOSE end \in {Forward(p, answer[n]) : p \in {at[n - 1]}} : TRUE
  IN  at[Len(answer)]

BeginPass ==
  /\ pass = NoPass
  /\ pass' = [rounds |-> 0, count |-> RoundTicks]
  /\ UNCHANGED <<printed, cursor, wire>>

(* Faulty variant: the same request again. *)
NoDeeper(out) == pass.count

(* A full answer with nothing new in it is one second that holds more than *)
(* was asked for: the next round asks deeper.                              *)
Deeper(out) ==
  IF out # << >> THEN pass.count
  ELSE IF 2 * pass.count < MaxTicks THEN 2 * pass.count ELSE MaxTicks

(* A short answer says the terminal is drained. *)
PassEnds(answer, out) ==
  \/ Len(answer) < pass.count
  \/ out = << >> /\ pass.count >= MaxTicks
  \/ pass.rounds + 1 = MaxRounds

Round ==
  /\ pass # NoPass
  /\ LET answer == CopyTicksFrom(cursor.ms, pass.count)
         end    == Forwarded(answer)
     IN  /\ wire' = wire \o end.out
         /\ cursor' = [ms |-> end.ms, sent |-> end.sent]
         /\ pass' = IF PassEnds(answer, end.out) THEN NoPass
                    ELSE [rounds |-> pass.rounds + 1, count |-> Deeper(end.out)]
  /\ UNCHANGED printed

(* The terminal is up and does not answer: the pass is over. *)
RoundFails ==
  /\ pass # NoPass
  /\ pass' = NoPass
  /\ UNCHANGED <<printed, cursor, wire>>

(* The venue prints. *)
Trade ==
  /\ printed < Len(Ms)
  /\ printed' = printed + 1
  /\ UNCHANGED <<cursor, wire, pass>>

PumpNext == BeginPass \/ Round \/ RoundFails \/ Trade

(* The loop comes back to the pump, and a terminal that is asked again and *)
(* again answers some of the time, at whichever round of a pass.           *)
PumpFairness ==
  /\ WF_pumpVars(BeginPass)
  /\ \A n \in 0 .. MaxRounds - 1 : SF_pumpVars(pass.rounds = n /\ Round)

PumpSpec == PumpInit /\ [][PumpNext]_pumpVars /\ PumpFairness

(* --- what it is for ----------------------------------------------------- *)

(* How many prints of a millisecond went out, and how many there are.      *)
Sent(ms) == Cardinality({n \in DOMAIN wire : Ms[wire[n]] = ms})
Held(ms) == Cardinality({i \in 1 .. printed : Ms[i] = ms})

(* Wherever a request was cut, the wire is in time order, never holds more  *)
(* prints of a millisecond than the tape, and a print that has its          *)
(* millisecond to itself went out exactly once when the cursor reached it.  *)
SoleTicksOnce ==
  /\ \A n \in 2 .. Len(wire) : Ms[wire[n - 1]] <= Ms[wire[n]]
  /\ cursor = [ms |-> Ms[Last(wire)], sent |-> Sent(Ms[Last(wire)])]
  /\ \A i \in 1 .. printed :
       /\ Sent(Ms[i]) <= Held(Ms[i])
       /\ Held(Ms[i]) = 1 /\ Ms[i] <= cursor.ms => Sent(Ms[i]) = 1

(* "Forward every tick newer than the cursor, exactly once", for every      *)
(* print: the code breaks it where two prints share a millisecond.          *)
EveryTickOnce == wire = [i \in 1 .. Len(wire) |-> i]

(* No second is too dense: the millisecond of a print the terminal holds    *)
(* goes out, though the same request keeps answering with prints already    *)
(* sent.                                                                    *)
EveryPrintLeaves ==
  \A i \in Prints : i <= printed ~> \E n \in DOMAIN wire : Ms[wire[n]] = Ms[i]

=============================================================================
