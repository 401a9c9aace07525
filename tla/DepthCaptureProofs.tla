-------------------------- MODULE DepthCaptureProofs --------------------------
(***************************************************************************)
(* What holds of the live order book for every number of levels, updates,  *)
(* captures and reconnects: nothing of an old capture is shown, the display *)
(* agrees with the task once everything said was heard, and the pipeline   *)
(* implements BookMirror.                                                  *)
(*                                                                         *)
(* The argument is about one sequence, the Stream: what the channel holds  *)
(* followed by what the task has yet to send.  The task only appends to    *)
(* it, the tab only takes its head, and sending does not change it.        *)
(***************************************************************************)
EXTENDS DepthCapture, WellFoundedInduction, TLAPS

Stream == channel \o outbox
Ended(m) == m.kind \in {"resyncing", "disconnected"}
Counted(m) == m.gen >= reader.floor
Unshown == {"connecting", "fetching", "bridging", "ended"}

Events == [first : Nat, last : Nat, prev : Nat]
Messages ==
       [kind : {"connecting", "resyncing", "disconnected"}, gen : Nat]
  \cup [kind : {"snapshot"}, gen : Nat, id : Nat]
  \cup [kind : {"update"}, gen : Nat, event : Events, link : BOOLEAN]
Commands == [restart : BOOLEAN, gen : Nat]
Tasks == [phase : {"stopped", "connecting", "fetching", "bridging", "live", "ended"},
          gen : Nat, attempt : 0 .. MaxAttempts, buffered : Seq(Events), book : Books,
          base : Nat]
Readers == [enabled : BOOLEAN, floor : Nat, latest : Nat, opened : Nat,
            synced : BOOLEAN, book : Books, refused : Nat]

(* What a snapshot and an update that come in time do to the reader. *)
Installed(r, m) ==
  IF m.gen <= r.opened THEN MarkGap(r)
  ELSE [r EXCEPT !.opened = m.gen, !.synced = TRUE, !.book = Mirror!Image(m.id)]
Followed(r, m) ==
  IF ~r.synced \/ m.event.last <= r.book.id THEN r
  ELSE IF Linked(r.book, m.event, m.link) THEN [r EXCEPT !.book = Set(@, m.event)]
  ELSE MarkGap(r)

Types ==
  /\ venue \in Seq(Levels) /\ Len(venue) <= MaxId /\ sent \in 0 .. Len(venue)
  /\ market \in {"Spot", "UsdM"} /\ source \in {"live", "replay"}
  /\ socket \in Seq(Events)
  /\ task \in Tasks /\ Len(task.buffered) <= BufferCap
  /\ channel \in Seq(Messages) /\ outbox \in Seq(Messages) /\ Len(channel) <= ChannelCap
  /\ commands \in Seq(Commands)
  /\ epoch \in 0 .. MaxEpochs
  /\ reader \in Readers

(* An event covers the updates after its predecessor, all of which happened. *)
Whole(e) == e.first = e.prev + 1 /\ e.prev < e.last /\ e.last <= Len(venue)
WholeEvents ==
  /\ \A i \in 1 .. Len(socket) : Whole(socket[i])
  /\ \A i \in 1 .. Len(task.buffered) : Whole(task.buffered[i])
  /\ \A i \in 1 .. Len(Stream) :
       /\ Stream[i].kind = "update" => Whole(Stream[i].event)
       /\ Stream[i].kind = "snapshot" => Stream[i].id <= Len(venue)

(* The books held are the venue's. *)
TrueBooks ==
  /\ task.phase = "bridging" => task.base <= Len(venue) /\ task.book = Mirror!Image(task.base)
  /\ task.phase = "live" =>
       task.book.id \in 0 .. Len(venue) /\ task.book = Mirror!Image(task.book.id)
  /\ IF reader.synced
     THEN reader.book.id \in 0 .. Len(venue) /\ reader.book = Mirror!Image(reader.book.id)
     ELSE reader.book = NoBook

(* A command waiting is newer than the task that runs and than all the     *)
(* display has heard, and the last one is what the display counts from.    *)
CommandsInOrder ==
  /\ \A i \in 1 .. Len(commands) :
       /\ \E n \in 1 .. epoch : commands[i].gen = n * Stride
       /\ task.phase # "stopped" => task.gen < commands[i].gen /\ commands[i].restart
       /\ reader.latest < commands[i].gen
       /\ ~commands[i].restart => i = 1
  /\ \A i, j \in 1 .. Len(commands) : i < j => commands[i].gen < commands[j].gen
  /\ commands # <<>> =>
       reader.enabled /\ ~reader.synced /\ reader.floor = commands[Len(commands)].gen
  /\ ~reader.enabled => task.phase = "stopped" /\ commands = <<>> /\ ~reader.synced

(* Generations rise along the stream, from the last one heard to the task's. *)
GensInOrder ==
  /\ task.phase = "stopped" => Stream = <<>>
  /\ task.phase # "stopped" =>
       /\ task.gen < NextGeneration
       /\ reader.latest <= task.gen
       /\ commands = <<>> => task.gen >= reader.floor
  /\ reader.latest < NextGeneration
  /\ reader.opened <= reader.latest
  /\ reader.synced => reader.opened >= reader.floor
  /\ \A i \in 1 .. Len(Stream) : reader.latest <= Stream[i].gen /\ Stream[i].gen <= task.gen
  /\ \A i, j \in 1 .. Len(Stream) : i < j => Stream[i].gen <= Stream[j].gen

(* A generation opens one image. *)
OneImage ==
  /\ \A i \in 1 .. Len(Stream) : Stream[i].kind = "snapshot" =>
       /\ reader.opened < Stream[i].gen
       /\ \A j \in 1 .. i - 1 : Stream[j].kind = "snapshot" => Stream[j].gen < Stream[i].gen
       /\ task.phase \in {"connecting", "fetching", "bridging"} => Stream[i].gen < task.gen
  /\ task.phase \in {"connecting", "fetching", "bridging"} => reader.opened < task.gen

(* Between two images the display hears an end. *)
EndsBetween ==
  /\ \A i \in 1 .. Len(Stream) : Stream[i].kind = "snapshot" /\ Counted(Stream[i]) =>
       /\ reader.synced => \E k \in 1 .. i - 1 : Ended(Stream[k]) /\ Counted(Stream[k])
       /\ \A j \in 1 .. i - 1 : Stream[j].kind = "snapshot" /\ Counted(Stream[j]) =>
            \E k \in j + 1 .. i - 1 : Ended(Stream[k]) /\ Counted(Stream[k])
       /\ task.phase \in Unshown => \E k \in i + 1 .. Len(Stream) : Ended(Stream[k])
  /\ reader.synced /\ task.phase \in Unshown =>
       \E k \in 1 .. Len(Stream) : Ended(Stream[k]) /\ Counted(Stream[k])

(* An update continues what was said just before it. *)
Continues(id, m) ==
  /\ m.event.last >= id
  /\ m.event.last > id => IF m.link THEN m.event.prev = id ELSE m.event.first <= id + 1
Reached(m) == IF m.kind = "snapshot" THEN m.id ELSE m.event.last
Chained ==
  \A i \in 1 .. Len(Stream) : Stream[i].kind = "update" =>
    IF i = 1
    THEN Counted(Stream[1]) =>
           \/ ~reader.synced /\ reader.refused = Stream[1].gen
           \/ reader.synced /\ reader.opened = Stream[1].gen /\ Continues(reader.book.id, Stream[1])
    ELSE /\ Stream[i - 1].kind \in {"snapshot", "update"} /\ Stream[i - 1].gen = Stream[i].gen
         /\ Continues(Reached(Stream[i - 1]), Stream[i])

(* The last thing a live task said is where its book is. *)
LiveTail ==
  task.phase = "live" =>
    IF Stream # <<>>
    THEN /\ Stream[Len(Stream)].kind = "update" /\ Stream[Len(Stream)].gen = task.gen
         /\ Stream[Len(Stream)].event.last = task.book.id
    ELSE commands = <<>> =>
           \/ ~reader.synced /\ reader.refused = task.gen
           \/ reader.synced /\ reader.opened = task.gen /\ reader.book.id = task.book.id

DepthInv ==
  /\ Types /\ WholeEvents /\ TrueBooks /\ CommandsInOrder /\ GensInOrder
  /\ OneImage /\ EndsBetween /\ Chained /\ LiveTail
-----------------------------------------------------------------------------
(* Numbers. *)

(* A set of naturals has a least member. *)
LEMMA LeastNumber ==
  ASSUME NEW T, T \subseteq Nat, T # {}
  PROVE \E x \in T : \A y \in T : x <= y
<1> DEFINE R == {ss \in Nat \X Nat : ss[1] < ss[2]}
<1>1. IsWellFoundedOn(R, Nat)
  BY NatLessThanWellFounded DEF OpToRel
<1> HIDE DEF R
<1>2. PICK x \in T : \A y \in T : ~(<<y, x>> \in R)
  BY <1>1, WFMin
<1>3. \A y \in T : ~(y < x)
  BY <1>2 DEF R
<1> QED BY <1>2, <1>3

(* Max, as Truth uses it, is the greatest member of a bounded set. *)
LEMMA MaxOf ==
  ASSUME NEW S, NEW n \in Nat, S \subseteq 0 .. n, S # {}
  PROVE Mirror!Max(S) \in S /\ \A x \in S : x <= Mirror!Max(S)
<1> DEFINE T == {n - x : x \in S}
<1>1. T \subseteq Nat /\ T # {}
  OBVIOUS
<1>2. PICK y \in T : \A z \in T : y <= z
  BY <1>1, LeastNumber
<1>3. PICK x \in S : y = n - x
  BY <1>2
<1>4. \A z \in S : z <= x
  BY <1>2, <1>3
<1>5. \E z \in S : \A w \in S : z >= w
  BY <1>4
<1> QED BY <1>5 DEF Mirror!Max

(* A generation that may still reconnect stays below the next capture's. *)
LEMMA StrideStep ==
  ASSUME NEW a \in Nat, NEW m \in Nat, a % Stride < MaxReconnects, a < m * Stride
  PROVE a + 1 < m * Stride
<1> DEFINE q == a \div Stride
           r == a % Stride
<1>1. Stride \in Nat /\ Stride > 0 /\ MaxReconnects \in Nat /\ Stride > MaxReconnects
  BY DepthAssumption
<1>2. q \in Nat /\ r \in 0 .. Stride - 1
  BY <1>1
<1>3. a = Stride * q + r
  BY <1>1, Z3
<1>4. r < MaxReconnects
  OBVIOUS
<1> HIDE DEF q, r
<1>5. q < m
  BY <1>1, <1>2, <1>3
<1>6. (q + 1) * Stride <= m * Stride
  BY <1>1, <1>2, <1>5
<1>7. (q + 1) * Stride = Stride * q + Stride
  BY <1>1, <1>2
<1> QED BY <1>1, <1>2, <1>3, <1>4, <1>6, <1>7
-----------------------------------------------------------------------------
(* The venue's book. *)

(* The venue's book after an update it has made is a book of that id, and *)
(* is neither the missing book nor a lost display.                        *)
LEMMA ImageFacts ==
  ASSUME venue \in Seq(Levels), Len(venue) <= MaxId, NEW n \in 0 .. Len(venue)
  PROVE /\ Mirror!Image(n) \in Books
        /\ Mirror!Image(n).id = n
        /\ Mirror!Image(n) # Lost
        /\ Mirror!Image(n) # NoBook
<1>1. Mirror!Truth(n) \in [Levels -> 0 .. MaxId]
  <2> SUFFICES ASSUME NEW l \in Levels
               PROVE Mirror!Max({0} \cup {i \in 1 .. n : venue[i] = l}) \in 0 .. MaxId
    BY DEF Mirror!Truth
  <2> DEFINE S == {0} \cup {i \in 1 .. n : venue[i] = l}
  <2>1. S \subseteq 0 .. n /\ S # {}
    OBVIOUS
  <2> HIDE DEF S
  <2>n. n \in Nat /\ n <= MaxId /\ MaxId \in Nat
    BY DepthAssumption
  <2>2. Mirror!Max(S) \in S
    BY <2>1, <2>n, MaxOf
  <2>3. \A x \in S : x \in 0 .. MaxId
    BY <2>1, <2>n
  <2>4. Mirror!Max(S) \in 0 .. MaxId
    BY <2>2, <2>3
  <2> QED BY <2>4 DEF S
<1>2. Mirror!Image(n) \in [id : 0 .. MaxId, levels : [Levels -> 0 .. MaxId]]
  BY <1>1, DepthAssumption DEF Mirror!Image
<1>3. Mirror!Image(n).id = n /\ NoBook.id = -1
  BY DEF Mirror!Image, NoBook
<1> QED BY <1>2, <1>3, DepthAssumption DEF Books

(* The placeholder a task or a display holds while it has no book. *)
LEMMA NoBookIsABook == NoBook \in Books
  BY DepthAssumption DEF NoBook, Books

(* What the venue has said stays as it was. *)
LEMMA ImageKept ==
  ASSUME venue \in Seq(Levels), NEW l \in Levels, venue' = Append(venue, l),
         NEW n \in 0 .. Len(venue)
  PROVE Mirror!Image(n)' = Mirror!Image(n)
<1>1. \A i \in 1 .. n : venue'[i] = venue[i]
  OBVIOUS
<1>2. \A k \in Levels : {i \in 1 .. n : venue'[i] = k} = {i \in 1 .. n : venue[i] = k}
  BY <1>1
<1>3. Mirror!Truth(n)' = Mirror!Truth(n)
  BY <1>2 DEF Mirror!Truth
<1> QED BY <1>3 DEF Mirror!Image

(* Images depend on nothing but the venue's updates. *)
LEMMA ImageSame ==
  ASSUME venue' = venue, NEW n
  PROVE Mirror!Image(n)' = Mirror!Image(n)
  BY DEF Mirror!Image, Mirror!Truth

(* An event that leaves no update out takes one image to another. *)
LEMMA SetImage ==
  ASSUME venue \in Seq(Levels), NEW k \in 0 .. Len(venue), NEW e \in Events, Whole(e),
         k <= e.last, e.first <= k + 1
  PROVE Set(Mirror!Image(k), e) = Mirror!Image(e.last)
<1>1. e.first \in Nat /\ e.last \in Nat /\ e.last <= Len(venue) /\ e.first >= 1
  BY DEF Events, Whole
<1>2. ASSUME NEW l \in Levels, ~\E i \in e.first .. e.last : venue[i] = l
      PROVE Mirror!Truth(e.last)[l] = Mirror!Truth(k)[l]
  <2>1. {i \in 1 .. e.last : venue[i] = l} = {i \in 1 .. k : venue[i] = l}
    BY <1>1, <1>2
  <2> QED BY <2>1 DEF Mirror!Truth
<1>3. Mirror!Image(k).levels = Mirror!Truth(k)
  BY DEF Mirror!Image
<1>4. LevelsAfter(Mirror!Image(k), e) = Mirror!Truth(e.last)
  <2>1. Mirror!Truth(e.last) = [l \in Levels |-> Mirror!Truth(e.last)[l]]
    BY DEF Mirror!Truth
  <2>2. \A l \in Levels : (IF \E i \in e.first .. e.last : venue[i] = l
                           THEN Mirror!Truth(e.last)[l] ELSE Mirror!Image(k).levels[l])
                          = Mirror!Truth(e.last)[l]
    BY <1>2, <1>3
  <2> QED BY <2>1, <2>2 DEF LevelsAfter
<1> QED BY <1>4 DEF Set, Mirror!Image

(* Applying an event to a book of the right type keeps the type. *)
LEMMA SetIsABook ==
  ASSUME venue \in Seq(Levels), Len(venue) <= MaxId, NEW b \in Books, NEW e \in Events,
         e.last <= Len(venue)
  PROVE Set(b, e) \in Books
<1>1. e.last \in 0 .. Len(venue) /\ e.last \in -1 .. MaxId
  BY DepthAssumption DEF Events
<1>2. Mirror!Truth(e.last) \in [Levels -> 0 .. MaxId]
  BY <1>1, ImageFacts DEF Books, Mirror!Image
<1>3. LevelsAfter(b, e) \in [Levels -> 0 .. MaxId]
  BY <1>2 DEF LevelsAfter, Books
<1> QED BY <1>1, <1>3 DEF Set, Books
-----------------------------------------------------------------------------
(* Sequences. *)

(* The head and the tail of a sequence, by position. *)
LEMMA HeadAndTail ==
  ASSUME NEW S, NEW s \in Seq(S), s # <<>>
  PROVE /\ Head(s) = s[1] /\ Head(s) \in S /\ Len(s) \in Nat /\ Len(s) >= 1
        /\ Tail(s) \in Seq(S) /\ Len(Tail(s)) = Len(s) - 1
        /\ \A i \in 1 .. Len(s) - 1 : Tail(s)[i] = s[i + 1]
  OBVIOUS

(* Sending leaves the stream as it is. *)
LEMMA SendMoves ==
  ASSUME NEW S, NEW c \in Seq(S), NEW o \in Seq(S), o # <<>>
  PROVE Append(c, Head(o)) \o Tail(o) = c \o o
<1> DEFINE x == Append(c, Head(o)) \o Tail(o)
           y == c \o o
<1>1. Append(c, Head(o)) \in Seq(S) /\ Tail(o) \in Seq(S) /\ Len(Tail(o)) = Len(o) - 1
      /\ Len(Append(c, Head(o))) = Len(c) + 1 /\ Len(o) \in Nat /\ Len(c) \in Nat
  BY HeadAndTail
<1>2. x \in Seq(S) /\ y \in Seq(S) /\ Len(x) = Len(c) + Len(o) /\ Len(y) = Len(c) + Len(o)
  BY <1>1
<1>3. ASSUME NEW i \in 1 .. Len(c) + Len(o) PROVE x[i] = y[i]
  <2>1. CASE i <= Len(c)
    BY <2>1, <1>1
  <2>2. CASE i = Len(c) + 1
    BY <2>2, <1>1, HeadAndTail
  <2>3. CASE i > Len(c) + 1
    <3>1. x[i] = Tail(o)[i - (Len(c) + 1)]
      BY <2>3, <1>1
    <3>2. Tail(o)[i - (Len(c) + 1)] = o[i - Len(c)]
      BY <2>3, <1>1, HeadAndTail
    <3>3. y[i] = o[i - Len(c)]
      BY <2>3, <1>1
    <3> QED BY <3>1, <3>2, <3>3
  <2> QED BY <2>1, <2>2, <2>3, <1>1
<1> HIDE DEF x, y
<1>4. x = y
  BY <1>1, <1>2, <1>3
<1> QED BY <1>4 DEF x, y

(* Reading takes the stream's head. *)
LEMMA ReadTakesHead ==
  ASSUME NEW S, NEW c \in Seq(S), NEW o \in Seq(S), c # <<>>
  PROVE /\ c \o o # <<>> /\ Head(c) = (c \o o)[1]
        /\ Len(Tail(c) \o o) = Len(c \o o) - 1
        /\ \A i \in 1 .. Len(c \o o) - 1 : (Tail(c) \o o)[i] = (c \o o)[i + 1]
<1>1. Tail(c) \in Seq(S) /\ Len(Tail(c)) = Len(c) - 1 /\ Len(c) \in Nat /\ Len(c) >= 1
      /\ Len(o) \in Nat /\ Head(c) = c[1]
  BY HeadAndTail
<1>2. Len(c \o o) = Len(c) + Len(o) /\ (c \o o)[1] = c[1]
  BY <1>1
<1>3. Len(Tail(c) \o o) = Len(c) - 1 + Len(o)
  BY <1>1
<1>4. ASSUME NEW i \in 1 .. Len(c \o o) - 1 PROVE (Tail(c) \o o)[i] = (c \o o)[i + 1]
  <2>1. CASE i <= Len(c) - 1
    <3>1. (Tail(c) \o o)[i] = Tail(c)[i]
      BY <2>1, <1>1
    <3>2. Tail(c)[i] = c[i + 1]
      BY <2>1, <1>1, HeadAndTail
    <3> QED BY <3>1, <3>2, <2>1, <1>1
  <2>2. CASE i > Len(c) - 1
    <3>1. (Tail(c) \o o)[i] = o[i - (Len(c) - 1)]
      BY <2>2, <1>1, <1>2
    <3>2. (c \o o)[i + 1] = o[i + 1 - Len(c)]
      BY <2>2, <1>1, <1>2
    <3> QED BY <3>1, <3>2, <1>1
  <2> QED BY <2>1, <2>2, <1>1, <1>2
<1> QED BY <1>1, <1>2, <1>3, <1>4
-----------------------------------------------------------------------------
(* Types. *)

WholeAll(s) == \A i \in 1 .. Len(s) : Whole(s[i])

(* The next update, and what is left behind it. *)
LEMMA TakeNext ==
  ASSUME Types, WholeEvents, Pending
  PROVE /\ Next1 \in Events /\ Whole(Next1)
        /\ Took \in Tasks /\ Took.phase = task.phase /\ Took.gen = task.gen
        /\ Took.book = task.book /\ Took.base = task.base /\ Took.attempt = task.attempt
        /\ Len(Took.buffered) <= BufferCap /\ WholeAll(Took.buffered)
        /\ task.buffered # <<>> => Len(Took.buffered) < Len(task.buffered)
        /\ task.buffered = <<>> => Took.buffered = <<>>
        /\ Taken => socket' \in Seq(Events) /\ WholeAll(socket')
<1>1. task.buffered \in Seq(Events) /\ socket \in Seq(Events) /\ BufferCap \in Nat
      /\ Len(task.buffered) <= BufferCap /\ Len(task.buffered) \in Nat
      /\ WholeAll(task.buffered) /\ WholeAll(socket)
  BY DepthAssumption DEF Types, Tasks, WholeEvents, WholeAll
<1>2. CASE task.buffered # <<>>
  <2>1. Next1 = Head(task.buffered) /\ Took = [task EXCEPT !.buffered = Tail(task.buffered)]
        /\ (Taken => socket' = socket)
    BY <1>2 DEF Next1, Took, Taken
  <2>2. Tail(task.buffered) \in Seq(Events) /\ Len(Tail(task.buffered)) = Len(task.buffered) - 1
        /\ Head(task.buffered) = task.buffered[1] /\ Head(task.buffered) \in Events
        /\ Len(task.buffered) >= 1
        /\ \A i \in 1 .. Len(task.buffered) - 1 : Tail(task.buffered)[i] = task.buffered[i + 1]
    BY <1>1, <1>2, HeadAndTail
  <2>3. Took \in Tasks /\ Took.buffered = Tail(task.buffered) /\ Took.phase = task.phase
        /\ Took.gen = task.gen /\ Took.book = task.book /\ Took.base = task.base
        /\ Took.attempt = task.attempt
    BY <2>1, <2>2 DEF Types, Tasks
  <2>4. WholeAll(Tail(task.buffered)) /\ Whole(Head(task.buffered))
    BY <1>1, <2>2 DEF WholeAll
  <2>5. Taken => socket' \in Seq(Events) /\ WholeAll(socket')
    BY <2>1, <1>1
  <2> QED BY <1>1, <1>2, <2>1, <2>2, <2>3, <2>4, <2>5
<1>3. CASE task.buffered = <<>>
  <2>1. Next1 = Head(socket) /\ socket # <<>> /\ (Taken => socket' = Tail(socket))
    BY <1>3 DEF Next1, Taken, Pending
  <2>2. Took = [task EXCEPT !.buffered = task.buffered]
    BY <1>3 DEF Took
  <2>3. Took = task
    BY <2>2 DEF Types, Tasks
  <2>4. Tail(socket) \in Seq(Events) /\ Len(Tail(socket)) = Len(socket) - 1
        /\ Head(socket) = socket[1] /\ Head(socket) \in Events /\ Len(socket) >= 1
        /\ Len(socket) \in Nat
        /\ \A i \in 1 .. Len(socket) - 1 : Tail(socket)[i] = socket[i + 1]
    BY <1>1, <2>1, HeadAndTail
  <2>5. WholeAll(Tail(socket)) /\ Whole(Head(socket))
    BY <1>1, <2>4 DEF WholeAll
  <2>6. Taken => socket' \in Seq(Events) /\ WholeAll(socket')
    <3>1. SUFFICES ASSUME Taken PROVE socket' \in Seq(Events) /\ WholeAll(socket')
      OBVIOUS
    <3>2. socket' = Tail(socket)
      BY <2>1, <3>1
    <3> QED BY <3>2, <2>4, <2>5 DEF WholeAll
  <2> QED BY <1>1, <1>3, <2>1, <2>3, <2>4, <2>5, <2>6 DEF Types
<1> QED BY <1>2, <1>3
(* What a task says is a message. *)
LEMMA Spoken ==
  ASSUME Types
  PROVE /\ \A kind \in {"connecting", "resyncing", "disconnected"} : Status(kind) \in Messages
        /\ \A e \in Events, link \in BOOLEAN : Update(e, link) \in Messages
        /\ [kind |-> "snapshot", gen |-> task.gen, id |-> task.base] \in Messages
        /\ [kind |-> "connecting", gen |-> task.gen + 1] \in Messages
  BY DEF Types, Tasks, Messages, Status, Update

(* A capture that fails keeps its generation, drops its socket and its *)
(* buffer, and says it is disconnected last.                           *)
LEMMA FailTypes ==
  ASSUME Types, NEW events \in Seq(Messages), Fail(events)
  PROVE /\ task' \in Tasks /\ task'.buffered = <<>> /\ socket' = <<>>
        /\ task'.phase = "ended" /\ task'.gen = task.gen
        /\ outbox' = events \o <<Status("disconnected")>> /\ outbox' \in Seq(Messages)
<1>1. Status("disconnected") \in Messages
  BY Spoken
<1>2. task' = [task EXCEPT !.phase = "ended", !.attempt = 0, !.buffered = <<>>, !.book = NoBook]
  BY DEF Fail
<1>3. 0 \in 0 .. MaxAttempts
  BY DepthAssumption
<1>4. task' \in Tasks /\ task'.buffered = <<>> /\ task'.phase = "ended" /\ task'.gen = task.gen
  <2>1. task \in Tasks /\ <<>> \in Seq(Events) /\ NoBook \in Books
    BY NoBookIsABook DEF Types
  <2>2. task' \in Tasks
    BY <1>2, <1>3, <2>1 DEF Tasks
  <2>3. task'.buffered = <<>> /\ task'.phase = "ended" /\ task'.gen = task.gen
    BY <1>2, <2>1 DEF Tasks
  <2> QED BY <2>2, <2>3
<1>5. outbox' = events \o <<Status("disconnected")>> /\ outbox' \in Seq(Messages) /\ socket' = <<>>
  BY <1>1 DEF Fail
<1> QED BY <1>4, <1>5

(* DepthSynchronizer::apply keeps the type of the book. *)
LEMMA AppliedTypes ==
  ASSUME Types, NEW e \in Events, Whole(e)
  PROVE Applied(e) \in Books
<1>1. e.last <= Len(venue)
  BY DEF Whole
<1>2. Set(task.book, e) \in Books
  BY <1>1, SetIsABook DEF Types, Tasks
<1> QED BY <1>2 DEF Applied, Types, Tasks

(* A task that is stopped, and one that has just been asked for. *)
LEMMA StartTypes ==
  ASSUME NEW g \in Nat
  PROVE /\ Stopped \in Tasks /\ Stopped.phase = "stopped" /\ Stopped.buffered = <<>>
        /\ [Stopped EXCEPT !.phase = "connecting", !.gen = g] \in Tasks
        /\ [Stopped EXCEPT !.phase = "connecting", !.gen = g].phase = "connecting"
        /\ [Stopped EXCEPT !.phase = "connecting", !.gen = g].gen = g
        /\ [Stopped EXCEPT !.phase = "connecting", !.gen = g].buffered = <<>>
<1>1. <<>> \in Seq(Events) /\ NoBook \in Books /\ 0 \in 0 .. MaxAttempts
  BY NoBookIsABook, DepthAssumption
<1>2. Stopped \in Tasks
  BY <1>1 DEF Stopped, Tasks
<1>3. Stopped.phase = "stopped" /\ Stopped.buffered = <<>>
  BY DEF Stopped
<1>4. [Stopped EXCEPT !.phase = "connecting", !.gen = g] \in Tasks
  BY <1>2 DEF Tasks
<1>5. /\ [Stopped EXCEPT !.phase = "connecting", !.gen = g].phase = "connecting"
      /\ [Stopped EXCEPT !.phase = "connecting", !.gen = g].gen = g
      /\ [Stopped EXCEPT !.phase = "connecting", !.gen = g].buffered = <<>>
  BY <1>2, <1>3 DEF Tasks
<1> QED BY <1>2, <1>3, <1>4, <1>5

(* Losing the display and starting to record keep the reader's type. *)
LEMMA ReaderTypes ==
  ASSUME Types
  PROVE /\ Silent \in Readers /\ NextGeneration \in Nat
        /\ \A r \in Readers : MarkGap(r) \in Readers /\ Recording(r) \in Readers
<1>1. NoBook \in Books
  BY NoBookIsABook
<1>2. NextGeneration \in Nat
  <2>1. epoch \in Nat /\ Stride \in Nat
    BY DepthAssumption DEF Types
  <2> QED BY <2>1 DEF NextGeneration
<1>3. Silent \in Readers
  BY <1>1 DEF Silent, Readers
<1>4. \A r \in Readers : MarkGap(r) \in Readers
  BY <1>1 DEF MarkGap, Readers
<1>5. \A r \in Readers : Recording(r) \in Readers
  BY <1>2 DEF Recording, Readers
<1> QED BY <1>2, <1>3, <1>4, <1>5

(* So does handling a depth event. *)
LEMMA ReadTypes ==
  ASSUME Types, WholeEvents, Read
  PROVE reader' \in Readers
<1> DEFINE m == Head(channel)
           r == [reader EXCEPT !.latest = m.gen]
<1>1. channel # <<>> /\ channel \in Seq(Messages) /\ outbox \in Seq(Messages)
  BY DEF Read, Types
<1>2. m \in Messages /\ m = Stream[1] /\ 1 \in 1 .. Len(Stream)
  <2>1. m \in Messages
    BY <1>1, HeadAndTail
  <2>2. m = Stream[1]
    BY <1>1, ReadTakesHead DEF Stream
  <2>3. Len(Stream) = Len(channel) + Len(outbox) /\ Len(channel) \in Nat /\ Len(channel) >= 1
        /\ Len(outbox) \in Nat
    BY <1>1, HeadAndTail DEF Stream
  <2> QED BY <2>1, <2>2, <2>3
<1>3. /\ m.kind = "update" => m.event \in Events /\ m.event.last <= Len(venue)
      /\ m.kind = "snapshot" => m.id \in 0 .. Len(venue)
  BY <1>2 DEF WholeEvents, Whole, Messages
<1>4. reader \in Readers /\ r \in Readers /\ r.book = reader.book
  BY <1>2 DEF Types, Readers, Messages
<1>5. m.kind \in {"snapshot", "update", "resyncing", "disconnected", "connecting"}
  BY <1>2 DEF Messages
<1>6. PICK late \in BOOLEAN : reader' =
       CASE ~Heard(m)             -> reader
         [] Heard(m) /\ m.kind = "snapshot" -> OnSnapshot(r, m, late)
         [] Heard(m) /\ m.kind = "update"   -> OnUpdate(r, m, late)
         [] Heard(m) /\ m.kind \in {"resyncing", "disconnected"} -> OnEnd(r)
         [] Heard(m) /\ m.kind = "connecting" -> r
  BY DEF Read
<1>7. MarkGap(r) \in Readers /\ Refused(r, m) \in Readers
  <2>1. MarkGap(r) \in Readers /\ m.gen \in Nat
    BY <1>2, <1>4, ReaderTypes DEF Messages
  <2> DEFINE g == MarkGap(r)
  <2> HIDE DEF r, m, g
  <2>2. [g EXCEPT !.refused = m.gen] \in Readers
    BY <2>1 DEF Readers, g
  <2> QED BY <2>1, <2>2 DEF Refused, g
<1>8. ASSUME m.kind = "snapshot" PROVE OnSnapshot(r, m, late) \in Readers
  <2>1. Mirror!Image(m.id) \in Books
    BY <1>3, <1>8, ImageFacts DEF Types
  <2>2. m.gen \in Nat
    BY <1>2 DEF Messages
  <2> HIDE DEF r, m
  <2>3. [r EXCEPT !.opened = m.gen, !.synced = TRUE, !.book = Mirror!Image(m.id)] \in Readers
    BY <1>4, <2>1, <2>2 DEF Readers
  <2> QED BY <1>7, <2>3 DEF OnSnapshot
<1>9. ASSUME m.kind = "update" PROVE OnUpdate(r, m, late) \in Readers
  <2>1. Set(r.book, m.event) \in Books
    BY <1>3, <1>4, <1>9, SetIsABook DEF Types, Readers
  <2> HIDE DEF r, m
  <2>2. [r EXCEPT !.book = Set(@, m.event)] \in Readers
    BY <1>4, <2>1 DEF Readers
  <2> QED BY <1>4, <1>7, <2>2 DEF OnUpdate
<1> HIDE DEF m, r
<1> QED BY <1>4, <1>5, <1>6, <1>7, <1>8, <1>9 DEF OnEnd
(* A failure that says nothing but its end keeps the limits. *)
LEMMA FailPlain ==
  ASSUME Types, Fail(<<>>)
  PROVE /\ task' \in Tasks /\ Len(task'.buffered) <= BufferCap /\ socket' \in Seq(Events)
        /\ outbox' \in Seq(Messages)
<1>1. <<>> \in Seq(Messages) /\ <<>> \in Seq(Events) /\ Len(<<>>) <= BufferCap
  BY DepthAssumption
<1> QED BY <1>1, FailTypes

(* A feed that takes over finds no task, no socket and an empty channel. *)
LEMMA AttachTypes ==
  ASSUME Types, Attach
  PROVE /\ task' \in Tasks /\ task'.phase = "stopped" /\ Len(task'.buffered) <= BufferCap
        /\ socket' \in Seq(Events) /\ outbox' \in Seq(Messages) /\ channel' \in Seq(Messages)
        /\ Len(channel') <= ChannelCap
        /\ venue' \in Seq(Levels) /\ Len(venue') <= MaxId /\ sent' \in 0 .. Len(venue')
        /\ market' \in {"Spot", "UsdM"}
<1>1. Stopped \in Tasks /\ Stopped.phase = "stopped" /\ Stopped.buffered = <<>>
  BY StartTypes
<1>2. 0 <= BufferCap /\ 0 <= ChannelCap
  BY DepthAssumption
<1> QED BY <1>1, <1>2 DEF Types, Attach

(* Asking for a capture keeps the types, whether or not the command finds *)
(* room.                                                                  *)
LEMMA AskTypes ==
  ASSUME Types, NEW restart \in BOOLEAN, NEW accepted \in Readers, Ask(restart, accepted)
  PROVE Types'
<1>1. NextGeneration \in Nat /\ epoch' \in 0 .. MaxEpochs
  BY ReaderTypes, DepthAssumption DEF Types, Ask, NewEpoch
<1>2. commands' \in Seq(Commands) /\ reader' \in Readers
  <2> DEFINE c == [restart |-> restart, gen |-> NextGeneration]
  <2>1. c \in Commands
    BY <1>1 DEF Commands
  <2>2. (commands' = Append(commands, c) /\ reader' = accepted)
        \/ (commands' = commands /\ reader' = reader)
    BY DEF Ask
  <2>3. commands \in Seq(Commands) /\ reader \in Readers
    BY DEF Types
  <2> HIDE DEF c
  <2>4. Append(commands, c) \in Seq(Commands)
    BY <2>1, <2>3
  <2> QED BY <2>2, <2>3, <2>4
<1> QED BY <1>1, <1>2 DEF Types, Ask, taskVars

(* The first state has the types. *)
LEMMA TypesInit == Init => Types
<1> SUFFICES ASSUME Init PROVE Types
  OBVIOUS
<1>1. Stopped \in Tasks /\ Stopped.buffered = <<>> /\ Silent \in Readers
  <2>1. Stopped \in Tasks /\ Stopped.buffered = <<>>
    BY StartTypes
  <2>2. Silent \in Readers
    BY NoBookIsABook DEF Silent, Readers
  <2> QED BY <2>1, <2>2
<1> QED BY <1>1, DepthAssumption DEF Init, Types

(* Every step keeps the types: the bootstrap buffer and the channel never *)
(* pass their limits.                                                     *)
LEMMA TypesStep ==
  ASSUME Types, WholeEvents, TrueBooks, [Next]_vars
  PROVE Types'
<1>t. /\ task \in Tasks /\ reader \in Readers /\ socket \in Seq(Events)
      /\ BufferCap \in Nat /\ ChannelCap \in Nat /\ MaxAttempts \in Nat /\ MaxAttempts > 0
      /\ MaxId \in Nat /\ Len(task.buffered) <= BufferCap
  BY DepthAssumption DEF Types
<1>1. ASSUME NEW l \in Levels, VenueChange(l) PROVE Types'
  BY <1>1, <1>t DEF VenueChange, Types, taskVars
<1>2. ASSUME NEW delivered \in BOOLEAN, VenueEmit(delivered) PROVE Types'
  <2>1. [first |-> sent + 1, last |-> Len(venue), prev |-> sent] \in Events
    BY DEF Types, Events
  <2>2. socket' \in Seq(Events)
    BY <1>2, <1>t, <2>1 DEF VenueEmit
  <2> QED BY <1>2, <2>2 DEF VenueEmit, Types
<1>3. ASSUME NEW n \in 0 .. Len(venue), SnapshotArrives(n) PROVE Types'
  <2>1. Mirror!Image(n) \in Books /\ n \in Nat
    BY ImageFacts DEF Types
  <2>2. task' \in Tasks /\ task'.buffered = task.buffered
    BY <1>3, <1>t, <2>1 DEF SnapshotArrives, Tasks
  <2> QED BY <1>3, <2>2 DEF SnapshotArrives, Types, World
<1>4. CASE EnsureBookCapture
  <2>1. Recording(reader) \in Readers
    BY <1>t, ReaderTypes
  <2> QED BY <1>4, <2>1, AskTypes DEF EnsureBookCapture
<1>5. CASE RestartBookCapture
  <2>1. Recording(MarkGap(reader)) \in Readers
    BY <1>t, ReaderTypes
  <2> QED BY <1>5, <2>1, AskTypes DEF RestartBookCapture
<1>6. CASE ReloadFeed
  <2>1. Recording(Silent) \in Readers /\ NextGeneration \in Nat
    BY ReaderTypes
  <2>2. epoch' \in 0 .. MaxEpochs
    BY <1>6, DepthAssumption DEF ReloadFeed, NewEpoch, Types
  <2>3. [restart |-> FALSE, gen |-> NextGeneration] \in Commands
    BY <2>1 DEF Commands
  <2>4. commands' \in Seq(Commands)
    BY <1>6, <2>3 DEF ReloadFeed
  <2> QED BY <1>6, <2>1, <2>2, <2>4, AttachTypes DEF ReloadFeed, Types
<1>7. CASE ReconnectFeed
  <2>1. Recording(reader) \in Readers /\ NextGeneration \in Nat
    BY <1>t, ReaderTypes
  <2>2. epoch' \in 0 .. MaxEpochs /\ reader' \in Readers
    BY <1>7, <1>t, <2>1, DepthAssumption DEF ReconnectFeed, NewEpoch, Types
  <2>3. commands' \in Seq(Commands)
    <3> DEFINE c == [restart |-> FALSE, gen |-> NextGeneration]
    <3>1. c \in Commands
      BY <2>1 DEF Commands
    <3>2. commands' = <<>> \/ commands' = <<c>>
      BY <1>7 DEF ReconnectFeed
    <3> HIDE DEF c
    <3>3. <<c>> \in Seq(Commands) /\ <<>> \in Seq(Commands)
      BY <3>1
    <3> QED BY <3>2, <3>3
  <2> QED BY <1>7, <2>2, <2>3, AttachTypes DEF ReconnectFeed, Types
<1>8. CASE OpenReplay
  <2>1. Silent \in Readers
    BY ReaderTypes
  <2>2. epoch' \in 0 .. MaxEpochs
    BY <1>8, DepthAssumption DEF OpenReplay, NewEpoch, Types
  <2> QED BY <1>8, <2>1, <2>2, AttachTypes DEF OpenReplay, Types
<1>9. CASE CloseReplay
  <2>1. Silent \in Readers
    BY ReaderTypes
  <2> QED BY <1>9, <2>1, AttachTypes DEF CloseReplay, Types
<1>10. CASE Obey
  <2>1. Head(commands) \in Commands
        /\ commands' \in Seq(Commands)
    BY <1>10, HeadAndTail DEF Obey, Types
  <2>2. /\ socket' \in Seq(Events) /\ task' \in Tasks /\ Len(task'.buffered) <= BufferCap
        /\ outbox' \in Seq(Messages)
    <3>1. CASE UNCHANGED taskVars
      BY <3>1 DEF taskVars, Types
    <3>2. CASE /\ socket' = <<>>
               /\ task' = [Stopped EXCEPT !.phase = "connecting", !.gen = Head(commands).gen]
               /\ outbox' = <<[kind |-> "connecting", gen |-> Head(commands).gen]>>
      <4>1. Head(commands).gen \in Nat
        BY <2>1 DEF Commands
      <4>2. task' \in Tasks /\ task'.buffered = <<>>
        BY <3>2, <4>1, StartTypes
      <4>3. [kind |-> "connecting", gen |-> Head(commands).gen] \in Messages
        BY <4>1 DEF Messages
      <4> QED BY <3>2, <4>2, <4>3, <1>t
    <3> QED BY <1>10, <3>1, <3>2 DEF Obey
  <2> QED BY <1>10, <2>1, <2>2 DEF Obey, Types
<1>11. CASE Read
  <2>1. reader' \in Readers
    BY <1>11, ReadTypes
  <2>2. channel' \in Seq(Messages) /\ Len(channel') <= ChannelCap
    BY <1>11, <1>t, HeadAndTail DEF Read, Types
  <2> QED BY <1>11, <2>1, <2>2 DEF Read, Types, taskVars
<1>12. CASE Send
  <2>1. channel' \in Seq(Messages) /\ outbox' \in Seq(Messages) /\ Len(channel') <= ChannelCap
    BY <1>12, <1>t, HeadAndTail DEF Send, Types
  <2> QED BY <1>12, <2>1 DEF Send, Types, World
<1>13. CASE Connect
  <2>1. task' \in Tasks /\ task'.buffered = task.buffered
    <3>1. task' = [task EXCEPT !.phase = "fetching", !.attempt = 1]
      BY <1>13 DEF Connect
    <3>2. 1 \in 0 .. MaxAttempts
      BY <1>t
    <3> QED BY <3>1, <3>2, <1>t DEF Tasks
  <2> QED BY <1>13, <2>1 DEF Connect, Types, World
<1>14. CASE Buffer
  <2>1. CASE RoomToBuffer /\ task' = [task EXCEPT !.buffered = Append(@, Head(socket))]
             /\ socket' = Tail(socket) /\ UNCHANGED outbox
    <3>1. Head(socket) \in Events /\ Tail(socket) \in Seq(Events)
      BY <1>14, <1>t, HeadAndTail DEF Buffer
    <3>2. Append(task.buffered, Head(socket)) \in Seq(Events)
          /\ Len(Append(task.buffered, Head(socket))) <= BufferCap
      BY <3>1, <2>1, <1>t DEF Tasks, RoomToBuffer
    <3>3. task' \in Tasks /\ task'.buffered = Append(task.buffered, Head(socket))
      BY <2>1, <3>2, <1>t DEF Tasks
    <3> QED BY <1>14, <2>1, <3>1, <3>2, <3>3 DEF Buffer, Types, World
  <2>2. CASE Fail(<<>>)
    BY <1>14, <2>2, FailPlain DEF Buffer, Types, World
  <2> QED BY <1>14, <2>1, <2>2 DEF Buffer
<1>15. CASE SkipStale
  BY <1>15, TakeNext DEF SkipStale, Types, World
<1>16. CASE Bridge
  <2>1. Next1 \in Events /\ Whole(Next1) /\ Took \in Tasks /\ socket' \in Seq(Events)
        /\ Len(Took.buffered) <= BufferCap
    BY <1>16, TakeNext DEF Bridge
  <2>2. Applied(Next1) \in Books
    BY <2>1, AppliedTypes
  <2>3. task' \in Tasks /\ task'.buffered = Took.buffered
    BY <1>16, <2>1, <2>2 DEF Bridge, Tasks
  <2>4. outbox' \in Seq(Messages)
    <3> DEFINE u == Update(Next1, FALSE)
               s == [kind |-> "snapshot", gen |-> task.gen, id |-> task.base]
    <3>1. u \in Messages /\ s \in Messages
      BY <2>1, Spoken
    <3>2. outbox' = <<s, u>>
      BY <1>16 DEF Bridge
    <3> HIDE DEF u, s
    <3> QED BY <3>1, <3>2
  <2> QED BY <1>16, <2>1, <2>3, <2>4 DEF Bridge, Types, World
<1>17. CASE SnapshotTooOld
  <2>1. Next1 \in Events /\ Took \in Tasks /\ socket' \in Seq(Events)
        /\ Len(Took.buffered) <= BufferCap
        /\ (task.buffered # <<>> => Len(Took.buffered) < Len(task.buffered))
        /\ (task.buffered = <<>> => Took.buffered = <<>>)
    <3>1. Pending /\ (Taken \/ Fail(<<Status("resyncing"), Status("resyncing")>>))
      BY <1>17 DEF SnapshotTooOld
    <3>2. Fail(<<Status("resyncing"), Status("resyncing")>>) => socket' \in Seq(Events)
      BY DEF Fail
    <3> QED BY <3>1, <3>2, TakeNext
  <2>2. CASE /\ task.attempt < MaxAttempts
             /\ task' = [task EXCEPT !.phase = "fetching", !.attempt = @ + 1, !.book = NoBook,
                                     !.buffered = <<Next1>> \o Took.buffered]
             /\ Taken /\ outbox' = <<Status("resyncing")>>
    <3>1. /\ <<Next1>> \o Took.buffered \in Seq(Events)
          /\ Len(<<Next1>> \o Took.buffered) <= BufferCap
      <4>1. Took.buffered \in Seq(Events) /\ Len(<<Next1>>) = 1 /\ <<Next1>> \in Seq(Events)
        BY <2>1 DEF Tasks
      <4>2. Len(<<Next1>> \o Took.buffered) = 1 + Len(Took.buffered)
        BY <4>1
      <4>3. BufferCap > 0 /\ Len(Took.buffered) \in Nat /\ Len(task.buffered) \in Nat
        BY <4>1, DepthAssumption, <1>t DEF Tasks
      <4>4. CASE task.buffered # <<>>
        BY <4>1, <4>2, <4>3, <4>4, <2>1, <1>t
      <4>5. CASE task.buffered = <<>>
        BY <4>1, <4>2, <4>3, <4>5, <2>1, <1>t
      <4> QED BY <4>4, <4>5
    <3>2. task.attempt + 1 \in 0 .. MaxAttempts
      BY <2>2, <1>t DEF Tasks
    <3>3. task' \in Tasks /\ task'.buffered = <<Next1>> \o Took.buffered
      <4> DEFINE b == <<Next1>> \o Took.buffered
      <4> HIDE DEF b
      <4>1. task' = [task EXCEPT !.phase = "fetching", !.attempt = @ + 1, !.book = NoBook,
                                 !.buffered = b]
        BY <2>2 DEF b
      <4>2. b \in Seq(Events)
        BY <3>1 DEF b
      <4>3. task' \in Tasks
        BY <4>1, <4>2, <3>2, <1>t, NoBookIsABook DEF Tasks
      <4>4. task'.buffered = b
        BY <4>1, <1>t DEF Tasks
      <4> QED BY <4>3, <4>4 DEF b
    <3>4. outbox' \in Seq(Messages)
      BY <2>2, Spoken
    <3> QED BY <1>17, <2>1, <3>1, <3>3, <3>4 DEF SnapshotTooOld, Types, World
  <2>3. CASE Fail(<<Status("resyncing"), Status("resyncing")>>)
    <3>1. <<Status("resyncing"), Status("resyncing")>> \in Seq(Messages)
      BY Spoken
    <3>2. task' \in Tasks /\ task'.buffered = <<>> /\ outbox' \in Seq(Messages)
      BY <2>3, <3>1, FailTypes
    <3> QED BY <1>17, <2>1, <3>2, <1>t DEF SnapshotTooOld, Types, World
  <2> QED BY <1>17, <2>2, <2>3 DEF SnapshotTooOld
<1>18. CASE Follow
  <2>1. CASE Fail(<<Status("resyncing")>>)
    <3>1. <<Status("resyncing")>> \in Seq(Messages)
      BY Spoken
    <3>2. task' \in Tasks /\ task'.buffered = <<>> /\ outbox' \in Seq(Messages) /\ socket' = <<>>
      BY <2>1, <3>1, FailTypes
    <3> QED BY <1>18, <3>2, <1>t DEF Follow, Types, World
  <2>2. CASE Fail(<<>>)
    BY <1>18, <2>2, FailPlain DEF Follow, Types, World
  <2>3. CASE /\ task' = [Took EXCEPT !.book = Applied(Next1)] /\ Taken
             /\ outbox' = <<Update(Next1, market = "UsdM")>>
    <3>1. Next1 \in Events /\ Whole(Next1) /\ Took \in Tasks /\ socket' \in Seq(Events)
          /\ Len(Took.buffered) <= BufferCap
      BY <1>18, <2>3, TakeNext DEF Follow
    <3>2. Applied(Next1) \in Books
      BY <3>1, AppliedTypes
    <3>3. task' \in Tasks /\ task'.buffered = Took.buffered
      BY <2>3, <3>1, <3>2 DEF Tasks
    <3>4. outbox' \in Seq(Messages)
      <4> DEFINE u == Update(Next1, market = "UsdM")
      <4>1. (market = "UsdM") \in BOOLEAN
        OBVIOUS
      <4>2. u \in Messages
        BY <3>1, <4>1, Spoken
      <4>3. outbox' = <<u>>
        BY <2>3
      <4> HIDE DEF u
      <4> QED BY <4>2, <4>3
    <3> QED BY <1>18, <3>1, <3>3, <3>4 DEF Follow, Types, World
  <2> QED BY <1>18, <2>1, <2>2, <2>3 DEF Follow
<1>19. CASE ConnectionFails
  BY <1>19, FailPlain DEF ConnectionFails, Types, World
<1>20. CASE Reconnect
  <2>1. task' \in Tasks /\ task'.buffered = task.buffered
    <3>1. task' = [task EXCEPT !.phase = "connecting", !.gen = @ + 1]
      BY <1>20 DEF Reconnect
    <3>2. task.gen + 1 \in Nat
      BY <1>t DEF Tasks
    <3> QED BY <3>1, <3>2, <1>t DEF Tasks
  <2>2. outbox' \in Seq(Messages)
    BY <1>20, Spoken DEF Reconnect
  <2> QED BY <1>20, <2>1, <2>2 DEF Reconnect, Types, World
<1>21. CASE UNCHANGED vars
  BY <1>21 DEF vars, Types
<1> QED BY <1>1, <1>2, <1>3, <1>4, <1>5, <1>6, <1>7, <1>8, <1>9, <1>10, <1>11, <1>12, <1>13,
           <1>14, <1>15, <1>16, <1>17, <1>18, <1>19, <1>20, <1>21 DEF Next
-----------------------------------------------------------------------------
(* What a step does to the stream, apart from what the books hold.  Every   *)
(* step of the program has one of these shapes (StepShape below).          *)

Opening == {"connecting", "fetching", "bridging"}
Kept == reader' = reader /\ commands' = commands /\ epoch' = epoch
Longer(n) ==
  /\ Len(Stream') = Len(Stream) + n
  /\ \A i \in 1 .. Len(Stream) : Stream'[i] = Stream[i]

Quiet ==
  /\ Kept /\ Stream' = Stream /\ task'.gen = task.gen
  /\ \/ task'.phase = task.phase /\ (task.phase = "live" => task'.book.id = task.book.id)
     \/ task.phase \in Opening /\ task'.phase \in Opening

SaysEnd ==
  /\ Kept /\ task'.gen = task.gen
  /\ task.phase \in Opening \cup {"live"} /\ task'.phase \in Unshown
  /\ task.phase = "live" => task'.phase = "ended"
  /\ \E n \in 1 .. 3 : Longer(n)
  /\ \A i \in Len(Stream) + 1 .. Len(Stream') : Ended(Stream'[i]) /\ Stream'[i].gen = task.gen

SaysImage ==
  LET s == Stream'[Len(Stream) + 1]
      u == Stream'[Len(Stream) + 2] IN
  /\ Kept /\ task'.gen = task.gen /\ task.phase = "bridging" /\ task'.phase = "live"
  /\ Longer(2)
  /\ s.kind = "snapshot" /\ s.gen = task.gen
  /\ u.kind = "update" /\ u.gen = task.gen /\ Continues(s.id, u)
  /\ s.id <= Len(venue) /\ Whole(u.event)
  /\ task'.book.id = u.event.last

SaysUpdate ==
  LET u == Stream'[Len(Stream) + 1] IN
  /\ Kept /\ task'.gen = task.gen /\ task.phase = "live" /\ task'.phase = "live"
  /\ Longer(1)
  /\ u.kind = "update" /\ u.gen = task.gen /\ Continues(task.book.id, u)
  /\ Whole(u.event)
  /\ task'.book.id = u.event.last

SaysConnecting ==
  LET c == Stream'[Len(Stream) + 1] IN
  /\ Kept /\ task'.gen = task.gen + 1 /\ task.gen % Stride < MaxReconnects
  /\ task.phase = "ended" /\ task'.phase = "connecting"
  /\ Longer(1)
  /\ c.kind = "connecting" /\ c.gen = task.gen + 1

Starts ==
  /\ commands # <<>> /\ commands' = Tail(commands) /\ reader' = reader /\ epoch' = epoch
  /\ task'.phase = "connecting" /\ task'.gen = Head(commands).gen
  /\ Len(Stream') \in 1 .. Len(Stream) + 1
  /\ \A i \in 1 .. Len(Stream') - 1 : Stream'[i] = Stream[i]
  /\ Stream'[Len(Stream')].kind = "connecting"
  /\ Stream'[Len(Stream')].gen = Head(commands).gen

Hears ==
  LET m == Stream[1]
      r == [reader EXCEPT !.latest = m.gen] IN
  /\ Stream # <<>> /\ task' = task /\ commands' = commands /\ epoch' = epoch
  /\ Len(Stream') = Len(Stream) - 1
  /\ \A i \in 1 .. Len(Stream) - 1 : Stream'[i] = Stream[i + 1]
  /\ \/ ~Heard(m) /\ reader' = reader
     \/ Heard(m) /\ m.kind \in {"snapshot", "update"} /\ reader' = Refused(r, m)
     \/ Heard(m) /\ m.kind = "snapshot" /\ reader' = Installed(r, m)
     \/ Heard(m) /\ m.kind = "update" /\ reader' = Followed(r, m)
     \/ Heard(m) /\ Ended(m) /\ reader' = MarkGap(r)
     \/ Heard(m) /\ m.kind = "connecting" /\ reader' = r

Detaches ==
  /\ Stream' = <<>> /\ task'.phase = "stopped"
  /\ \/ /\ NewEpoch /\ reader' = Recording(Silent)
        /\ commands' = <<[restart |-> FALSE, gen |-> NextGeneration]>>
     \/ /\ NewEpoch /\ ~reader.enabled /\ reader' = Recording(reader)
        /\ commands' = <<[restart |-> FALSE, gen |-> NextGeneration]>>
     \/ commands' = <<>> /\ reader.enabled /\ epoch' = epoch /\ reader' = reader
     \/ commands' = <<>> /\ (epoch' = epoch \/ NewEpoch) /\ reader' = Silent

Asks ==
  /\ Stream' = Stream /\ task' = task /\ NewEpoch
  /\ \/ /\ ~reader.enabled /\ reader' = Recording(reader)
        /\ commands' = Append(commands, [restart |-> FALSE, gen |-> NextGeneration])
     \/ /\ reader.enabled /\ reader' = Recording(MarkGap(reader))
        /\ commands' = Append(commands, [restart |-> TRUE, gen |-> NextGeneration])
     \/ UNCHANGED <<commands, reader>>

(* The stream is a sequence of messages. *)
LEMMA StreamType ==
  ASSUME Types
  PROVE Stream \in Seq(Messages) /\ Len(Stream) \in Nat
  BY DEF Types, Stream

(* What a waiting task says comes after everything else. *)
LEMMA Said ==
  ASSUME Types, Ready, channel' = channel, outbox' \in Seq(Messages)
  PROVE /\ Longer(Len(outbox'))
        /\ \A i \in 1 .. Len(outbox') : Stream'[Len(Stream) + i] = outbox'[i]
<1>1. channel \in Seq(Messages) /\ outbox = <<>>
  BY DEF Types, Ready
<1>2. Stream = channel
  BY <1>1 DEF Stream
<1>3. Stream' = channel \o outbox'
  BY DEF Stream
<1> QED BY <1>1, <1>2, <1>3 DEF Longer

(* A step that touches neither the channel nor the outbox leaves the *)
(* stream.                                                           *)
LEMMA SameStream ==
  ASSUME channel' = channel, outbox' = outbox
  PROVE Stream' = Stream
  BY DEF Stream

(* A bridge over the image, and a step along the live stream. *)
LEMMA BridgeLinks ==
  ASSUME Types, WholeEvents, TrueBooks, task.phase = "bridging", Pending,
         ~Stale(Next1), ~Gap(Next1)
  PROVE /\ Continues(task.base, Update(Next1, FALSE))
        /\ Applied(Next1) = Mirror!Image(Next1.last)
        /\ Next1.last \in 0 .. Len(venue) /\ task.base \in 0 .. Len(venue)
<1>1. Next1 \in Events /\ Whole(Next1)
  BY TakeNext
<1> DEFINE e == Next1
<1>2. task.base \in 0 .. Len(venue) /\ task.book = Mirror!Image(task.base)
      /\ task.book.id = task.base
  BY ImageFacts DEF TrueBooks, Types, Tasks
<1>3. e.last \in Nat /\ e.first \in Nat /\ e.prev \in Nat /\ e.last <= Len(venue)
      /\ Len(venue) \in Nat
  BY <1>1 DEF Whole, Events, Types
<1>4. e.last >= task.base /\ e.first <= task.base + 1
  <2>1. market \in {"Spot", "UsdM"}
    BY DEF Types
  <2>2. e.last >= task.base
    BY <1>2, <1>3 DEF Stale
  <2>3. CASE market = "UsdM"
    <3>1. FuturesBridge
      BY <2>3 DEF FuturesBridge
    <3>2. ~(e.first > task.book.id)
      BY <3>1 DEF Gap
    <3> QED BY <3>2, <2>2, <1>2, <1>3
  <2>4. CASE market = "Spot"
    <3>1. ~FuturesBridge
      BY <2>4 DEF FuturesBridge
    <3>2. ~(e.first > task.book.id + 1)
      BY <3>1, <2>4 DEF Gap
    <3> QED BY <3>2, <2>2, <1>2, <1>3
  <2> QED BY <2>1, <2>2, <2>3, <2>4
<1>5. Continues(task.base, Update(Next1, FALSE))
  <2>1. Update(e, FALSE).event = e /\ Update(e, FALSE).link = FALSE
    BY DEF Update
  <2> HIDE DEF e
  <2>2. Continues(task.base, Update(e, FALSE))
    BY <1>4, <2>1 DEF Continues
  <2> QED BY <2>2 DEF e
<1>6. Applied(e) = Mirror!Image(e.last)
  <2>1. CASE e.last = task.book.id
    BY <1>2, <2>1 DEF Applied
  <2>2. CASE e.last # task.book.id
    <3>1. Set(Mirror!Image(task.base), e) = Mirror!Image(e.last)
      BY <1>1, <1>2, <1>4, SetImage DEF Types
    <3> QED BY <1>2, <2>2, <3>1 DEF Applied
  <2> QED BY <2>1, <2>2
<1>7. e.last \in 0 .. Len(venue)
  BY <1>3
<1> QED BY <1>2, <1>5, <1>6, <1>7

(* An update that apply_live_update accepts continues the task's book and *)
(* takes it to the venue's own.                                           *)
LEMMA FollowLinks ==
  ASSUME Types, WholeEvents, TrueBooks, task.phase = "live", Pending,
         ~Stale(Next1), ~Gap(Next1), ~Mismatch(Next1)
  PROVE /\ Continues(task.book.id, Update(Next1, market = "UsdM"))
        /\ Applied(Next1) = Mirror!Image(Next1.last)
        /\ Next1.last \in 0 .. Len(venue)
<1>1. Next1 \in Events /\ Whole(Next1)
  BY TakeNext
<1> DEFINE e == Next1
           id == task.book.id
<1>2. id \in 0 .. Len(venue) /\ task.book = Mirror!Image(id)
  BY DEF TrueBooks
<1>3. e.last \in Nat /\ e.first \in Nat /\ e.prev \in Nat /\ e.last <= Len(venue)
      /\ e.first = e.prev + 1 /\ Len(venue) \in Nat
  BY <1>1 DEF Whole, Events, Types
<1>4. ~FuturesBridge
  BY DEF FuturesBridge
<1>5. e.last > id
  BY <1>2, <1>3, <1>4 DEF Stale
<1>6. IF market = "UsdM" THEN e.prev = id ELSE e.first <= id + 1
  <2>1. CASE market = "UsdM"
    BY <2>1 DEF Mismatch
  <2>2. CASE market = "Spot"
    BY <1>2, <1>3, <1>4, <2>2 DEF Gap
  <2> QED BY <2>1, <2>2 DEF Types
<1>7. Continues(id, Update(e, market = "UsdM"))
  <2>1. Update(e, market = "UsdM").event = e /\ Update(e, market = "UsdM").link = (market = "UsdM")
    BY DEF Update
  <2> HIDE DEF e, id
  <2> DEFINE u == Update(e, market = "UsdM")
  <2>2. u.event.last >= id /\ u.event.last > id
    BY <1>2, <1>3, <1>5, <2>1
  <2>3. IF u.link THEN u.event.prev = id ELSE u.event.first <= id + 1
    BY <1>6, <2>1
  <2> HIDE DEF u
  <2>4. Continues(id, u)
    BY <2>2, <2>3 DEF Continues
  <2> QED BY <2>4 DEF u
<1>8. e.first <= id + 1
  BY <1>2, <1>3, <1>6
<1>9. Applied(e) = Mirror!Image(e.last)
  <2>1. Set(Mirror!Image(id), e) = Mirror!Image(e.last)
    BY <1>1, <1>2, <1>3, <1>5, <1>8, SetImage DEF Types
  <2> QED BY <1>2, <1>3, <1>5, <2>1 DEF Applied
<1> QED BY <1>3, <1>7, <1>9
(* A failure is heard of: what it says are ends, of the task's own *)
(* generation.                                                     *)
LEMMA FailSaysEnd ==
  ASSUME Types, Ready, channel' = channel, Kept, task.phase \in Opening \cup {"live"},
         NEW events \in Seq(Messages), Len(events) <= 2,
         \A i \in 1 .. Len(events) : events[i] = Status("resyncing"),
         Fail(events)
  PROVE SaysEnd
<1>1. /\ task'.phase = "ended" /\ task'.gen = task.gen /\ outbox' \in Seq(Messages)
      /\ outbox' = events \o <<Status("disconnected")>>
  BY FailTypes
<1>2. Len(outbox') = Len(events) + 1 /\ Len(events) \in Nat
      /\ (\A i \in 1 .. Len(events) : outbox'[i] = Status("resyncing"))
      /\ outbox'[Len(events) + 1] = Status("disconnected")
  <2> DEFINE d == Status("disconnected")
             r == Status("resyncing")
  <2>1. d \in Messages
    BY Spoken
  <2>2. outbox' = events \o <<d>> /\ \A i \in 1 .. Len(events) : events[i] = r
    BY <1>1
  <2> HIDE DEF d, r
  <2>3. Len(outbox') = Len(events) + 1 /\ Len(events) \in Nat
        /\ (\A i \in 1 .. Len(events) : outbox'[i] = r) /\ outbox'[Len(events) + 1] = d
    BY <2>1, <2>2
  <2> QED BY <2>3 DEF d, r
<1>3. \A i \in 1 .. Len(outbox') : Ended(outbox'[i]) /\ outbox'[i].gen = task.gen
  <2>1. /\ Ended(Status("disconnected")) /\ Status("disconnected").gen = task.gen
        /\ Ended(Status("resyncing")) /\ Status("resyncing").gen = task.gen
    BY DEF Status, Ended
  <2>2. ASSUME NEW i \in 1 .. Len(outbox')
        PROVE outbox'[i] = Status("resyncing") \/ outbox'[i] = Status("disconnected")
    <3>1. Len(outbox') = Len(events) + 1 /\ Len(events) \in Nat
      BY <1>2
    <3>2. CASE i \in 1 .. Len(events)
      BY <1>2, <3>2
    <3>d. outbox'[Len(events) + 1] = Status("disconnected")
      BY <1>2
    <3>3. CASE i = Len(events) + 1
      BY <3>d, <3>3
    <3> QED BY <3>1, <3>2, <3>3
  <2> QED BY <2>1, <2>2
<1>4. Longer(Len(outbox'))
      /\ \A i \in 1 .. Len(outbox') : Stream'[Len(Stream) + i] = outbox'[i]
  BY <1>1, Said
<1>5. Len(Stream) \in Nat /\ Len(outbox') \in 1 .. 3 /\ Len(Stream') = Len(Stream) + Len(outbox')
  BY <1>2, <1>4, StreamType DEF Longer
<1>6. ASSUME NEW i \in Len(Stream) + 1 .. Len(Stream')
      PROVE Ended(Stream'[i]) /\ Stream'[i].gen = task.gen
  <2>1. i - Len(Stream) \in 1 .. Len(outbox') /\ Len(Stream) + (i - Len(Stream)) = i
    BY <1>5
  <2>2. Stream'[i] = outbox'[i - Len(Stream)]
    BY <1>4, <2>1
  <2> QED BY <1>3, <2>1, <2>2
<1> QED BY <1>1, <1>4, <1>5, <1>6 DEF SaysEnd, Unshown

(* So is one that says nothing else first. *)
LEMMA PlainFailSaysEnd ==
  ASSUME Types, Ready, channel' = channel, Kept, task.phase \in Opening \cup {"live"},
         Fail(<<>>)
  PROVE SaysEnd
<1>1. <<>> \in Seq(Messages) /\ Len(<<>>) <= 2
      /\ \A i \in 1 .. Len(<<>>) : <<>>[i] = Status("resyncing")
  OBVIOUS
<1> QED BY <1>1, FailSaysEnd

(* A step of the task alone leaves the tab and the venue. *)
LEMMA WorldKept ==
  ASSUME UNCHANGED World
  PROVE Kept /\ venue' = venue
  BY DEF World, Kept

(* A bridge says the image and the update that bridges it, and the task *)
(* is live.                                                             *)
LEMMA BridgeShape ==
  ASSUME Types, WholeEvents, TrueBooks, Bridge
  PROVE SaysImage
<1> DEFINE s == [kind |-> "snapshot", gen |-> task.gen, id |-> task.base]
           u == Update(Next1, FALSE)
<1>1. /\ task.phase = "bridging" /\ Ready /\ Pending /\ ~Stale(Next1) /\ ~Gap(Next1)
      /\ task' = [Took EXCEPT !.phase = "live", !.book = Applied(Next1)]
      /\ outbox' = <<s, u>> /\ channel' = channel /\ Kept
  BY WorldKept DEF Bridge
<1>2. Next1 \in Events /\ Took \in Tasks /\ Took.gen = task.gen
  BY <1>1, TakeNext
<1>3. Continues(task.base, u) /\ Applied(Next1) = Mirror!Image(Next1.last)
      /\ Next1.last \in 0 .. Len(venue)
  BY <1>1, BridgeLinks
<1>4. Applied(Next1).id = Next1.last
  BY <1>3, ImageFacts DEF Types
<1>5. task'.gen = task.gen /\ task'.phase = "live" /\ task'.book.id = Next1.last
  BY <1>1, <1>2, <1>4 DEF Tasks
<1>6. s \in Messages /\ u \in Messages
  BY <1>2, Spoken
<1>7. s.kind = "snapshot" /\ s.gen = task.gen /\ s.id = task.base
      /\ u.kind = "update" /\ u.gen = task.gen /\ u.event.last = Next1.last
  BY DEF Update
<1> HIDE DEF s, u
<1>8. outbox' \in Seq(Messages) /\ Len(outbox') = 2 /\ outbox'[1] = s /\ outbox'[2] = u
  BY <1>1, <1>6
<1>9. Longer(2) /\ Stream'[Len(Stream) + 1] = s /\ Stream'[Len(Stream) + 2] = u
  BY <1>1, <1>8, Said
<1>10. Whole(u.event) /\ s.id <= Len(venue)
  <2>1. Whole(Next1) /\ task.base \in 0 .. Len(venue)
    BY <1>1, TakeNext, BridgeLinks
  <2>2. u.event = Next1 /\ s.id = task.base
    BY DEF u, s, Update
  <2> QED BY <2>1, <2>2
<1> QED BY <1>1, <1>3, <1>5, <1>7, <1>9, <1>10 DEF SaysImage

(* An image too old for the stream says an end, whether or not it is *)
(* fetched again.                                                    *)
LEMMA TooOldShape ==
  ASSUME Types, WholeEvents, SnapshotTooOld
  PROVE SaysEnd
<1>1. task.phase = "bridging" /\ Ready /\ Pending /\ channel' = channel /\ Kept
  BY WorldKept DEF SnapshotTooOld
<1>2. CASE /\ task' = [task EXCEPT !.phase = "fetching", !.attempt = @ + 1, !.book = NoBook,
                                  !.buffered = <<Next1>> \o Took.buffered]
           /\ outbox' = <<Status("resyncing")>>
  <2> DEFINE r == Status("resyncing")
             b == <<Next1>> \o Took.buffered
  <2>1. r \in Messages /\ Ended(r) /\ r.gen = task.gen
    BY Spoken DEF Status, Ended
  <2>2. outbox' = <<r>>
        /\ task' = [task EXCEPT !.phase = "fetching", !.attempt = @ + 1, !.book = NoBook,
                                !.buffered = b]
    BY <1>2
  <2> HIDE DEF r, b
  <2>3. task'.phase = "fetching" /\ task'.gen = task.gen
    BY <2>2 DEF Types, Tasks
  <2>4. outbox' \in Seq(Messages) /\ Len(outbox') = 1 /\ outbox'[1] = r
    BY <2>1, <2>2
  <2>5. Longer(1) /\ Stream'[Len(Stream) + 1] = r
    BY <1>1, <2>4, Said
  <2>6. \A i \in Len(Stream) + 1 .. Len(Stream') : i = Len(Stream) + 1
    BY <2>5, StreamType DEF Longer
  <2> QED BY <1>1, <2>1, <2>3, <2>5, <2>6 DEF SaysEnd, Opening, Unshown
<1>3. CASE Fail(<<Status("resyncing"), Status("resyncing")>>)
  <2> DEFINE r == Status("resyncing")
  <2>1. r \in Messages
    BY Spoken
  <2> HIDE DEF r
  <2>2. <<r, r>> \in Seq(Messages) /\ Len(<<r, r>>) <= 2
        /\ \A i \in 1 .. Len(<<r, r>>) : <<r, r>>[i] = r
    BY <2>1
  <2>3. Fail(<<r, r>>) /\ r = Status("resyncing")
    BY <1>3 DEF r
  <2> QED BY <1>1, <2>2, <2>3, FailSaysEnd DEF Opening
<1> QED BY <1>2, <1>3 DEF SnapshotTooOld

(* A live step says one update or ends. *)
LEMMA FollowShape ==
  ASSUME Types, WholeEvents, TrueBooks, Follow
  PROVE SaysEnd \/ SaysUpdate
<1>1. task.phase = "live" /\ Ready /\ Pending /\ ~Stale(Next1) /\ channel' = channel /\ Kept
  BY WorldKept DEF Follow
<1>2. CASE Fail(<<Status("resyncing")>>)
  <2> DEFINE r == Status("resyncing")
  <2>1. r \in Messages
    BY Spoken
  <2> HIDE DEF r
  <2>2. <<r>> \in Seq(Messages) /\ Len(<<r>>) <= 2
        /\ \A i \in 1 .. Len(<<r>>) : <<r>>[i] = r
    BY <2>1
  <2>3. Fail(<<r>>) /\ r = Status("resyncing")
    BY <1>2 DEF r
  <2> QED BY <1>1, <2>2, <2>3, FailSaysEnd DEF Opening
<1>3. CASE Fail(<<>>)
  BY <1>1, <1>3, PlainFailSaysEnd
<1>4. CASE /\ ~Gap(Next1) /\ ~Mismatch(Next1)
           /\ task' = [Took EXCEPT !.book = Applied(Next1)]
           /\ outbox' = <<Update(Next1, market = "UsdM")>>
  <2> DEFINE u == Update(Next1, market = "UsdM")
  <2>1. Next1 \in Events /\ Took \in Tasks /\ Took.gen = task.gen /\ Took.phase = task.phase
        /\ Whole(Next1)
    BY <1>1, TakeNext
  <2>2. Continues(task.book.id, u) /\ Applied(Next1) = Mirror!Image(Next1.last)
        /\ Next1.last \in 0 .. Len(venue)
    BY <1>1, <1>4, FollowLinks
  <2>3. Applied(Next1).id = Next1.last
    BY <2>2, ImageFacts DEF Types
  <2>4. task'.gen = task.gen /\ task'.phase = "live" /\ task'.book.id = Next1.last
    BY <1>1, <1>4, <2>1, <2>3 DEF Tasks
  <2>5. u \in Messages
    <3>1. (market = "UsdM") \in BOOLEAN
      OBVIOUS
    <3> QED BY <2>1, <3>1, Spoken
  <2>6. u.kind = "update" /\ u.gen = task.gen /\ u.event.last = Next1.last /\ u.event = Next1
    BY DEF Update
  <2>7. outbox' = <<u>>
    BY <1>4
  <2> HIDE DEF u
  <2>8. outbox' \in Seq(Messages) /\ Len(outbox') = 1 /\ outbox'[1] = u
    BY <2>5, <2>7
  <2>9. Longer(1) /\ Stream'[Len(Stream) + 1] = u
    BY <1>1, <2>8, Said
  <2> QED BY <1>1, <2>1, <2>2, <2>4, <2>6, <2>9 DEF SaysUpdate
<1> QED BY <1>2, <1>3, <1>4 DEF Follow

(* A reconnect says the next generation is connecting. *)
LEMMA ReconnectShape ==
  ASSUME Types, Reconnect
  PROVE SaysConnecting
<1> DEFINE c == [kind |-> "connecting", gen |-> task.gen + 1]
<1>1. /\ task.phase = "ended" /\ Ready /\ channel' = channel /\ Kept
      /\ task.gen % Stride < MaxReconnects
      /\ task' = [task EXCEPT !.phase = "connecting", !.gen = @ + 1]
      /\ outbox' = <<c>>
  BY WorldKept DEF Reconnect
<1>2. c \in Messages
  BY Spoken
<1>3. c.kind = "connecting" /\ c.gen = task.gen + 1
  OBVIOUS
<1>4. task'.phase = "connecting" /\ task'.gen = task.gen + 1
  BY <1>1 DEF Types, Tasks
<1> HIDE DEF c
<1>5. outbox' \in Seq(Messages) /\ Len(outbox') = 1 /\ outbox'[1] = c
  BY <1>1, <1>2
<1>6. Longer(1) /\ Stream'[Len(Stream) + 1] = c
  BY <1>1, <1>5, Said
<1> QED BY <1>1, <1>3, <1>4, <1>6 DEF SaysConnecting

(* A command starts a task under its own generation; the old one's outbox *)
(* is lost.                                                               *)
LEMMA ObeyShape ==
  ASSUME Types, CommandsInOrder, Obey
  PROVE Starts
<1> DEFINE h == Head(commands)
           c == [kind |-> "connecting", gen |-> h.gen]
<1>1. commands # <<>> /\ commands' = Tail(commands) /\ channel' = channel
      /\ reader' = reader /\ epoch' = epoch
  BY DEF Obey
<1>2. h = commands[1] /\ h \in Commands /\ 1 \in 1 .. Len(commands)
  BY <1>1, HeadAndTail DEF Types
<1>3. ~(~h.restart /\ task.phase # "stopped")
  BY <1>2 DEF CommandsInOrder
<1>4. task' = [Stopped EXCEPT !.phase = "connecting", !.gen = h.gen] /\ outbox' = <<c>>
  BY <1>3 DEF Obey
<1>5. h.gen \in Nat
  BY <1>2 DEF Commands
<1>6. task'.phase = "connecting" /\ task'.gen = h.gen
  BY <1>4, <1>5, StartTypes
<1>7. c \in Messages /\ c.kind = "connecting" /\ c.gen = h.gen
  BY <1>5 DEF Messages
<1> HIDE DEF c, h
<1>8. channel \in Seq(Messages) /\ outbox \in Seq(Messages)
  BY DEF Types
<1>9. Stream' = channel \o <<c>>
  BY <1>1, <1>4 DEF Stream
<1>10. /\ Len(Stream') = Len(channel) + 1 /\ Len(channel) \in Nat /\ Stream'[Len(Stream')] = c
       /\ \A i \in 1 .. Len(channel) : Stream'[i] = channel[i]
  BY <1>7, <1>8, <1>9
<1>11. /\ Len(Stream) = Len(channel) + Len(outbox) /\ Len(outbox) \in Nat
       /\ \A i \in 1 .. Len(channel) : Stream[i] = channel[i]
  BY <1>8 DEF Stream
<1>12. Len(Stream') \in 1 .. Len(Stream) + 1
       /\ \A i \in 1 .. Len(Stream') - 1 : Stream'[i] = Stream[i]
  BY <1>10, <1>11
<1> QED BY <1>1, <1>6, <1>7, <1>10, <1>12 DEF Starts, h

(* Reading takes the head of the stream. *)
LEMMA ReadShape ==
  ASSUME Types, Read
  PROVE Hears /\ venue' = venue
<1> DEFINE m == Head(channel)
<1>1. channel # <<>> /\ channel' = Tail(channel) /\ outbox' = outbox /\ task' = task
      /\ commands' = commands /\ epoch' = epoch /\ venue' = venue
  BY DEF Read, taskVars
<1>2. channel \in Seq(Messages) /\ outbox \in Seq(Messages)
  BY DEF Types
<1>3. Stream' = Tail(channel) \o outbox
  BY <1>1 DEF Stream
<1>4. /\ Stream # <<>> /\ m = Stream[1] /\ Len(Stream') = Len(Stream) - 1
      /\ \A i \in 1 .. Len(Stream) - 1 : Stream'[i] = Stream[i + 1]
  BY <1>1, <1>2, <1>3, ReadTakesHead DEF Stream
<1>5. m \in Messages
  BY <1>1, <1>2, HeadAndTail
<1>6. m.kind \in {"snapshot", "update", "resyncing", "disconnected", "connecting"}
  BY <1>5 DEF Messages
<1> DEFINE r == [reader EXCEPT !.latest = m.gen]
<1>7. PICK late \in BOOLEAN : reader' =
       CASE ~Heard(m)             -> reader
         [] Heard(m) /\ m.kind = "snapshot" -> OnSnapshot(r, m, late)
         [] Heard(m) /\ m.kind = "update"   -> OnUpdate(r, m, late)
         [] Heard(m) /\ m.kind \in {"resyncing", "disconnected"} -> OnEnd(r)
         [] Heard(m) /\ m.kind = "connecting" -> r
  BY DEF Read
<1> HIDE DEF m, r
<1>s. OnSnapshot(r, m, late) = Refused(r, m) \/ OnSnapshot(r, m, late) = Installed(r, m)
  BY DEF OnSnapshot, Installed
<1>u. OnUpdate(r, m, late) = Refused(r, m) \/ OnUpdate(r, m, late) = Followed(r, m)
  BY DEF OnUpdate, Followed
<1>8. \/ ~Heard(m) /\ reader' = reader
      \/ Heard(m) /\ m.kind \in {"snapshot", "update"} /\ reader' = Refused(r, m)
      \/ Heard(m) /\ m.kind = "snapshot" /\ reader' = Installed(r, m)
      \/ Heard(m) /\ m.kind = "update" /\ reader' = Followed(r, m)
      \/ Heard(m) /\ Ended(m) /\ reader' = MarkGap(r)
      \/ Heard(m) /\ m.kind = "connecting" /\ reader' = r
  BY <1>6, <1>7, <1>s, <1>u DEF Ended, OnEnd
<1>9. r = [reader EXCEPT !.latest = Stream[1].gen]
  BY <1>4 DEF r
<1> QED BY <1>1, <1>4, <1>8, <1>9 DEF Hears

(* A feed that takes over leaves nothing in the stream. *)
LEMMA AttachShape ==
  ASSUME Types, ReloadFeed \/ ReconnectFeed \/ OpenReplay \/ CloseReplay
  PROVE Detaches /\ venue' = venue
<1>1. Attach
  BY DEF ReloadFeed, ReconnectFeed, OpenReplay, CloseReplay
<1>2. Stream' = <<>> /\ task'.phase = "stopped" /\ venue' = venue
  BY <1>1 DEF Attach, Stream, Stopped
<1>3. CASE ReloadFeed
  BY <1>2, <1>3 DEF ReloadFeed, Detaches
<1>4. CASE ReconnectFeed
  BY <1>2, <1>4 DEF ReconnectFeed, Detaches
<1>5. CASE OpenReplay
  BY <1>2, <1>5 DEF OpenReplay, Detaches
<1>6. CASE CloseReplay
  BY <1>2, <1>6 DEF CloseReplay, Detaches
<1> QED BY <1>3, <1>4, <1>5, <1>6

(* Asking for a capture touches only the commands, the epoch and the *)
(* reader.                                                           *)
LEMMA AskShape ==
  ASSUME EnsureBookCapture \/ RestartBookCapture
  PROVE Asks /\ venue' = venue
<1>1. CASE EnsureBookCapture
  BY <1>1, SameStream DEF EnsureBookCapture, Ask, Asks, taskVars
<1>2. CASE RestartBookCapture
  BY <1>2, SameStream DEF RestartBookCapture, Ask, Asks, taskVars
<1> QED BY <1>1, <1>2

(* Sending moves a message along the stream and changes nothing else. *)
LEMMA SendShape ==
  ASSUME Types, Send
  PROVE Quiet
<1>1. channel' = Append(channel, Head(outbox)) /\ outbox' = Tail(outbox) /\ outbox # <<>>
      /\ task' = task /\ Kept
  BY WorldKept DEF Send
<1>2. Stream' = Stream
  BY <1>1, SendMoves DEF Types, Stream
<1> QED BY <1>1, <1>2 DEF Quiet

(* Every step has one of the shapes. *)
LEMMA StepShape ==
  ASSUME Types, WholeEvents, TrueBooks, CommandsInOrder, [Next]_vars
  PROVE Quiet \/ SaysEnd \/ SaysImage \/ SaysUpdate \/ SaysConnecting
        \/ Starts \/ Hears \/ Detaches \/ Asks
<1>t. task \in Tasks
  BY DEF Types
<1>1. ASSUME NEW l \in Levels, VenueChange(l) PROVE Quiet
  BY <1>1, SameStream DEF VenueChange, taskVars, Quiet, Kept
<1>2. ASSUME NEW delivered \in BOOLEAN, VenueEmit(delivered) PROVE Quiet
  BY <1>2, SameStream DEF VenueEmit, Quiet, Kept
<1>3. ASSUME NEW n \in 0 .. Len(venue), SnapshotArrives(n) PROVE Quiet
  <2> DEFINE b == Mirror!Image(n)
  <2>1. /\ task.phase = "fetching" /\ Stream' = Stream /\ Kept
        /\ task' = [task EXCEPT !.phase = "bridging", !.book = b, !.base = n]
    BY <1>3, SameStream, WorldKept DEF SnapshotArrives
  <2> HIDE DEF b
  <2>2. task'.phase = "bridging" /\ task'.gen = task.gen
    BY <2>1, <1>t DEF Tasks
  <2> QED BY <2>1, <2>2 DEF Quiet, Opening
<1>4. CASE EnsureBookCapture \/ RestartBookCapture
  BY <1>4, AskShape
<1>5. CASE ReloadFeed \/ ReconnectFeed \/ OpenReplay \/ CloseReplay
  BY <1>5, AttachShape
<1>6. CASE Obey
  BY <1>6, ObeyShape
<1>7. CASE Read
  BY <1>7, ReadShape
<1>8. CASE Send
  BY <1>8, SendShape
<1>9. CASE Connect
  <2>1. task.phase = "connecting" /\ Stream' = Stream /\ Kept
        /\ task' = [task EXCEPT !.phase = "fetching", !.attempt = 1]
    BY <1>9, SameStream, WorldKept DEF Connect
  <2>2. task'.phase = "fetching" /\ task'.gen = task.gen
    BY <2>1, <1>t DEF Tasks
  <2> QED BY <2>1, <2>2 DEF Quiet, Opening
<1>10. CASE Buffer
  <2>0. task.phase = "fetching" /\ Kept /\ channel' = channel /\ Ready
    BY <1>10, WorldKept DEF Buffer
  <2>1. CASE Fail(<<>>)
    BY <2>0, <2>1, PlainFailSaysEnd DEF Opening
  <2>2. CASE /\ task' = [task EXCEPT !.buffered = Append(@, Head(socket))]
             /\ UNCHANGED outbox
    <3>1. Stream' = Stream
      BY <2>0, <2>2, SameStream
    <3>2. task'.phase = task.phase /\ task'.gen = task.gen
      BY <2>2, <1>t DEF Tasks
    <3> QED BY <2>0, <3>1, <3>2 DEF Quiet
  <2> QED BY <1>10, <2>1, <2>2 DEF Buffer
<1>11. CASE SkipStale
  <2>1. task' = Took /\ Stream' = Stream /\ Kept /\ Pending
    BY <1>11, SameStream, WorldKept DEF SkipStale
  <2>2. task'.phase = task.phase /\ task'.gen = task.gen /\ task'.book = task.book
    BY <2>1, TakeNext
  <2> QED BY <2>1, <2>2 DEF Quiet
<1>12. CASE Bridge
  BY <1>12, BridgeShape
<1>13. CASE SnapshotTooOld
  BY <1>13, TooOldShape
<1>14. CASE Follow
  BY <1>14, FollowShape
<1>15. CASE ConnectionFails
  <2>1. task.phase \in Opening \cup {"live"} /\ Kept /\ channel' = channel /\ Ready /\ Fail(<<>>)
    BY <1>15, WorldKept DEF ConnectionFails, Opening
  <2> QED BY <2>1, PlainFailSaysEnd
<1>16. CASE Reconnect
  BY <1>16, ReconnectShape
<1>17. CASE UNCHANGED vars
  BY <1>17, SameStream DEF vars, Quiet, Kept
<1> QED BY <1>1, <1>2, <1>3, <1>4, <1>5, <1>6, <1>7, <1>8, <1>9, <1>10, <1>11, <1>12, <1>13,
           <1>14, <1>15, <1>16, <1>17 DEF Next
-----------------------------------------------------------------------------
(* The books held are the venue's. *)

(* The venue only gains updates, so every image it has had stays what it *)
(* was.                                                                  *)
LEMMA VenueGrows ==
  ASSUME Types, [Next]_vars
  PROVE /\ Len(venue) \in Nat /\ Len(venue') \in Nat /\ Len(venue') >= Len(venue)
        /\ \A n \in 0 .. Len(venue) : Mirror!Image(n)' = Mirror!Image(n)
<1>1. CASE venue' = venue
  BY <1>1, ImageSame DEF Types
<1>2. CASE \E l \in Levels : VenueChange(l)
  <2>1. PICK l \in Levels : venue' = Append(venue, l)
    BY <1>2 DEF VenueChange
  <2>2. venue \in Seq(Levels)
    BY DEF Types
  <2>3. \A n \in 0 .. Len(venue) : Mirror!Image(n)' = Mirror!Image(n)
    BY <2>1, <2>2, ImageKept
  <2> QED BY <2>1, <2>2, <2>3
<1>3. venue' = venue \/ \E l \in Levels : VenueChange(l)
  BY AttachShape, AskShape, ReadShape, WorldKept
     DEF Next, vars, VenueEmit, SnapshotArrives, Obey, Send, Connect, Buffer, SkipStale, Bridge,
         SnapshotTooOld, Follow, ConnectionFails, Reconnect
<1> QED BY <1>1, <1>2, <1>3


(* The events in the socket and in the buffer stay whole. *)
LEMMA WholeKept ==
  ASSUME Types, [Next]_vars, NEW e \in Events, Whole(e)
  PROVE Whole(e)'
<1>1. Len(venue) \in Nat /\ Len(venue') \in Nat /\ Len(venue') >= Len(venue)
  BY VenueGrows
<1> QED BY <1>1 DEF Whole, Events

(* What a step puts on the socket or into the buffer is a whole event. *)
LEMMA SupplyNow ==
  ASSUME Types, WholeEvents, TrueBooks, CommandsInOrder, [Next]_vars
  PROVE WholeAll(socket') /\ WholeAll(task'.buffered)
<1>t. /\ task \in Tasks /\ socket \in Seq(Events) /\ task.buffered \in Seq(Events)
      /\ WholeAll(socket) /\ WholeAll(task.buffered)
  BY DEF Types, Tasks, WholeEvents, WholeAll
<1>e. WholeAll(<<>>)
  BY DEF WholeAll
<1>p. ASSUME NEW s \in Seq(Events), WholeAll(s), NEW e \in Events, Whole(e)
      PROVE WholeAll(Append(s, e)) /\ WholeAll(<<e>> \o s)
  <2>1. Len(Append(s, e)) = Len(s) + 1 /\ Len(<<e>> \o s) = Len(s) + 1 /\ Len(s) \in Nat
        /\ (\A i \in 1 .. Len(s) : Append(s, e)[i] = s[i]) /\ Append(s, e)[Len(s) + 1] = e
        /\ (\A i \in 2 .. Len(s) + 1 : (<<e>> \o s)[i] = s[i - 1]) /\ (<<e>> \o s)[1] = e
    OBVIOUS
  <2> QED BY <1>p, <2>1 DEF WholeAll
<1>f. ASSUME NEW events, Fail(events) PROVE WholeAll(socket') /\ WholeAll(task'.buffered)
  <2>1. socket' = <<>> /\ task' = [task EXCEPT !.phase = "ended", !.attempt = 0,
                                              !.buffered = <<>>, !.book = NoBook]
    BY <1>f DEF Fail
  <2>2. task'.buffered = <<>>
    BY <2>1, <1>t DEF Tasks
  <2> QED BY <2>1, <2>2, <1>e
<1>n. ASSUME Pending
      PROVE /\ WholeAll(Took.buffered) /\ (Taken => WholeAll(socket'))
            /\ Took \in Tasks /\ Next1 \in Events /\ Whole(Next1)
  BY <1>n, TakeNext
<1>1. ASSUME NEW l \in Levels, VenueChange(l) PROVE socket' = socket /\ task' = task
  BY <1>1 DEF VenueChange, taskVars
<1>2. ASSUME NEW delivered \in BOOLEAN, VenueEmit(delivered)
      PROVE WholeAll(socket') /\ task' = task
  <2> DEFINE e == [first |-> sent + 1, last |-> Len(venue), prev |-> sent]
  <2>1. e \in Events /\ Whole(e)
    BY <1>2 DEF Events, Whole, Types, VenueEmit
  <2>2. (socket' = Append(socket, e) \/ socket' = socket) /\ task' = task
    BY <1>2 DEF VenueEmit
  <2> HIDE DEF e
  <2> QED BY <2>1, <2>2, <1>t, <1>p
<1>3. ASSUME NEW n \in 0 .. Len(venue), SnapshotArrives(n)
      PROVE socket' = socket /\ task'.buffered = task.buffered
  BY <1>3, <1>t DEF SnapshotArrives, Tasks
<1>4. CASE EnsureBookCapture \/ RestartBookCapture
  BY <1>4, <1>t DEF EnsureBookCapture, RestartBookCapture, Ask, taskVars
<1>5. CASE ReloadFeed \/ ReconnectFeed \/ OpenReplay \/ CloseReplay
  <2>1. Attach
    BY <1>5 DEF ReloadFeed, ReconnectFeed, OpenReplay, CloseReplay
  <2> QED BY <2>1, <1>e DEF Attach, Stopped
<1>6. CASE Obey
  <2>1. \/ socket' = <<>> /\ task'.buffered = <<>>
        \/ socket' = socket /\ task' = task
    <3>1. Head(commands) \in Commands
      BY <1>6, HeadAndTail DEF Obey, Types
    <3>2. Head(commands).gen \in Nat
      BY <3>1 DEF Commands
    <3>3. CASE UNCHANGED taskVars
      BY <3>3 DEF taskVars
    <3>4. CASE /\ socket' = <<>>
               /\ task' = [Stopped EXCEPT !.phase = "connecting", !.gen = Head(commands).gen]
      <4> DEFINE g == Head(commands).gen
      <4>1. g \in Nat /\ task' = [Stopped EXCEPT !.phase = "connecting", !.gen = g]
        BY <3>2, <3>4
      <4> HIDE DEF g
      <4>2. task'.buffered = <<>>
        BY <4>1, StartTypes
      <4> QED BY <3>4, <4>2
    <3> QED BY <1>6, <3>3, <3>4 DEF Obey
  <2> QED BY <2>1, <1>t, <1>e
<1>7. CASE Read
  BY <1>7, <1>t DEF Read, taskVars
<1>8. CASE Send
  BY <1>8, <1>t DEF Send
<1>9. CASE Connect
  <2>1. socket' = socket /\ task'.buffered = task.buffered
    BY <1>9, <1>t DEF Connect, Tasks
  <2> QED BY <2>1, <1>t
<1>10. CASE Buffer
  <2>1. CASE Fail(<<>>)
    BY <2>1, <1>f
  <2>2. CASE /\ task' = [task EXCEPT !.buffered = Append(@, Head(socket))]
             /\ socket' = Tail(socket)
    <3>1. socket # <<>>
      BY <1>10 DEF Buffer
    <3>2. Head(socket) = socket[1] /\ Len(socket) >= 1 /\ Len(socket) \in Nat
          /\ Len(Tail(socket)) = Len(socket) - 1 /\ Head(socket) \in Events
          /\ \A i \in 1 .. Len(socket) - 1 : Tail(socket)[i] = socket[i + 1]
      BY <3>1, <1>t, HeadAndTail
    <3>3. Whole(Head(socket)) /\ WholeAll(Tail(socket))
      BY <3>2, <1>t DEF WholeAll
    <3>4. task'.buffered = Append(task.buffered, Head(socket))
      BY <2>2, <1>t DEF Tasks
    <3> QED BY <2>2, <3>2, <3>3, <3>4, <1>t, <1>p
  <2> QED BY <1>10, <2>1, <2>2 DEF Buffer
<1>11. CASE SkipStale
  BY <1>11, <1>n DEF SkipStale
<1>12. CASE Bridge
  <2>1. Pending /\ Taken /\ task' = [Took EXCEPT !.phase = "live", !.book = Applied(Next1)]
    BY <1>12 DEF Bridge
  <2>2. task'.buffered = Took.buffered
    BY <2>1, <1>n DEF Tasks
  <2> QED BY <2>1, <2>2, <1>n
<1>13. CASE SnapshotTooOld
  <2>1. CASE Fail(<<Status("resyncing"), Status("resyncing")>>)
    BY <2>1, <1>f
  <2>2. CASE /\ task' = [task EXCEPT !.phase = "fetching", !.attempt = @ + 1, !.book = NoBook,
                                     !.buffered = <<Next1>> \o Took.buffered]
             /\ Taken
    <3> DEFINE b == <<Next1>> \o Took.buffered
    <3>1. Pending
      BY <1>13 DEF SnapshotTooOld
    <3>2. WholeAll(b)
      BY <3>1, <1>n, <1>p DEF Tasks
    <3>3. task' = [task EXCEPT !.phase = "fetching", !.attempt = @ + 1, !.book = NoBook,
                               !.buffered = b]
      BY <2>2
    <3> HIDE DEF b
    <3>4. task'.buffered = b
      BY <3>3, <1>t DEF Tasks
    <3> QED BY <2>2, <3>1, <3>2, <3>4, <1>n
  <2> QED BY <1>13, <2>1, <2>2 DEF SnapshotTooOld
<1>14. CASE Follow
  <2>1. CASE Fail(<<Status("resyncing")>>) \/ Fail(<<>>)
    BY <2>1, <1>f
  <2>2. CASE task' = [Took EXCEPT !.book = Applied(Next1)] /\ Taken
    <3>1. Pending
      BY <1>14 DEF Follow
    <3>2. task'.buffered = Took.buffered
      BY <2>2, <3>1, <1>n DEF Tasks
    <3> QED BY <2>2, <3>1, <3>2, <1>n
  <2> QED BY <1>14, <2>1, <2>2 DEF Follow
<1>15. CASE ConnectionFails
  BY <1>15, <1>f DEF ConnectionFails
<1>16. CASE Reconnect
  <2>1. socket' = socket /\ task'.buffered = task.buffered
    BY <1>16, <1>t DEF Reconnect, Tasks
  <2> QED BY <2>1, <1>t
<1>17. CASE UNCHANGED vars
  BY <1>17, <1>t DEF vars
<1> QED BY <1>1, <1>2, <1>3, <1>4, <1>5, <1>6, <1>7, <1>8, <1>9, <1>10, <1>11, <1>12, <1>13,
           <1>14, <1>15, <1>16, <1>17, <1>t DEF Next

(* What a message of the stream says of the venue. *)
WholeMessage(m) ==
  /\ m.kind = "update" => Whole(m.event)
  /\ m.kind = "snapshot" => m.id <= Len(venue)

(* What a step says is true of the venue. *)
LEMMA StreamNow ==
  ASSUME Types, WholeEvents, TrueBooks, CommandsInOrder, [Next]_vars
  PROVE \A i \in 1 .. Len(Stream') : WholeMessage(Stream'[i])
<1>1. Len(Stream) \in Nat /\ \A i \in 1 .. Len(Stream) : WholeMessage(Stream[i])
  BY StreamType DEF WholeEvents, WholeMessage
<1>2. CASE Quiet
  BY <1>1, <1>2 DEF Quiet
<1>3. CASE SaysEnd
  <2>1. \A i \in Len(Stream) + 1 .. Len(Stream') : WholeMessage(Stream'[i])
    BY <1>3 DEF SaysEnd, Ended, WholeMessage
  <2>2. PICK n \in 1 .. 3 : Longer(n)
    BY <1>3 DEF SaysEnd
  <2> QED BY <1>1, <2>1, <2>2 DEF Longer
<1>4. CASE SaysImage
  <2>1. WholeMessage(Stream'[Len(Stream) + 1]) /\ WholeMessage(Stream'[Len(Stream) + 2])
    BY <1>4 DEF SaysImage, WholeMessage
  <2>2. Longer(2)
    BY <1>4 DEF SaysImage
  <2> QED BY <1>1, <2>1, <2>2 DEF Longer
<1>5. CASE SaysUpdate
  <2>1. WholeMessage(Stream'[Len(Stream) + 1])
    BY <1>5 DEF SaysUpdate, WholeMessage
  <2>2. Longer(1)
    BY <1>5 DEF SaysUpdate
  <2> QED BY <1>1, <2>1, <2>2 DEF Longer
<1>6. CASE SaysConnecting
  <2>1. WholeMessage(Stream'[Len(Stream) + 1])
    BY <1>6 DEF SaysConnecting, WholeMessage
  <2>2. Longer(1)
    BY <1>6 DEF SaysConnecting
  <2> QED BY <1>1, <2>1, <2>2 DEF Longer
<1>7. CASE Starts
  <2>1. WholeMessage(Stream'[Len(Stream')])
    BY <1>7 DEF Starts, WholeMessage
  <2> QED BY <1>1, <1>7, <2>1 DEF Starts
<1>8. CASE Hears
  BY <1>1, <1>8 DEF Hears
<1>9. CASE Detaches
  BY <1>9 DEF Detaches
<1>10. CASE Asks
  BY <1>1, <1>10 DEF Asks
<1> QED BY <1>2, <1>3, <1>4, <1>5, <1>6, <1>7, <1>8, <1>9, <1>10, StepShape

(* Whole events stay whole. *)
LEMMA WholeStep ==
  ASSUME Types, Types', WholeEvents, TrueBooks, CommandsInOrder, [Next]_vars
  PROVE WholeEvents'
<1>1. /\ \A e \in Events : Whole(e) => Whole(e)'
      /\ Len(venue) \in Nat /\ Len(venue') \in Nat /\ Len(venue') >= Len(venue)
  BY WholeKept, VenueGrows
<1>2. socket' \in Seq(Events) /\ task'.buffered \in Seq(Events) /\ Stream' \in Seq(Messages)
  BY DEF Types, Tasks, Stream
<1>3. WholeAll(socket') /\ WholeAll(task'.buffered)
      /\ \A i \in 1 .. Len(Stream') : WholeMessage(Stream'[i])
  BY SupplyNow, StreamNow
<1>4. ASSUME NEW i \in 1 .. Len(Stream')
      PROVE (/\ Stream[i].kind = "update" => Whole(Stream[i].event)
             /\ Stream[i].kind = "snapshot" => Stream[i].id <= Len(venue))'
  <2>1. Stream'[i] \in Messages /\ WholeMessage(Stream'[i])
    BY <1>2, <1>3
  <2>2. Stream'[i].kind = "update" => Stream'[i].event \in Events
    BY <2>1 DEF Messages
  <2>3. Stream'[i].kind = "snapshot" => Stream'[i].id \in Nat
    BY <2>1 DEF Messages
  <2> QED BY <1>1, <2>1, <2>2, <2>3 DEF WholeMessage
<1> QED BY <1>1, <1>2, <1>3, <1>4 DEF WholeEvents, WholeAll

(* What a step does to the task's book. *)
LEMMA TaskBook ==
  ASSUME Types, WholeEvents, TrueBooks, CommandsInOrder, [Next]_vars
  PROVE \/ task'.phase = task.phase /\ task'.book = task.book /\ task'.base = task.base
        \/ task'.phase \notin {"bridging", "live"}
        \/ /\ task'.phase = "bridging"
           /\ \E n \in 0 .. Len(venue) : task'.base = n /\ task'.book = Mirror!Image(n)
        \/ /\ task'.phase = "live"
           /\ \E n \in 0 .. Len(venue) : task'.book.id = n /\ task'.book = Mirror!Image(n)
<1>t. task \in Tasks
  BY DEF Types
<1>f. ASSUME NEW events, Fail(events) PROVE task'.phase = "ended"
  <2>1. task' = [task EXCEPT !.phase = "ended", !.attempt = 0, !.buffered = <<>>, !.book = NoBook]
    BY <1>f DEF Fail
  <2> QED BY <2>1, <1>t DEF Tasks
<1>s. ASSUME SaysEnd \/ SaysConnecting \/ Starts \/ Detaches
      PROVE task'.phase \notin {"bridging", "live"} \/ SaysEnd
  BY <1>s DEF SaysConnecting, Starts, Detaches
<1>1. ASSUME NEW l \in Levels, VenueChange(l) PROVE task' = task
  BY <1>1 DEF VenueChange, taskVars
<1>2. ASSUME NEW delivered \in BOOLEAN, VenueEmit(delivered) PROVE task' = task
  BY <1>2 DEF VenueEmit
<1>3. ASSUME NEW n \in 0 .. Len(venue), SnapshotArrives(n)
      PROVE /\ task'.phase = "bridging"
            /\ task'.base = n /\ task'.book = Mirror!Image(n)
  <2> DEFINE b == Mirror!Image(n)
  <2>1. task' = [task EXCEPT !.phase = "bridging", !.book = b, !.base = n]
    BY <1>3 DEF SnapshotArrives
  <2> HIDE DEF b
  <2>2. task'.phase = "bridging" /\ task'.base = n /\ task'.book = b
    BY <2>1, <1>t DEF Tasks
  <2> QED BY <2>2 DEF b
<1>4. CASE EnsureBookCapture \/ RestartBookCapture
  BY <1>4, AskShape DEF Asks
<1>5. CASE ReloadFeed \/ ReconnectFeed \/ OpenReplay \/ CloseReplay
  BY <1>5, AttachShape DEF Detaches
<1>6. CASE Obey
  BY <1>6, ObeyShape DEF Starts
<1>7. CASE Read
  BY <1>7 DEF Read, taskVars
<1>8. CASE Send
  BY <1>8 DEF Send
<1>9. CASE Connect
  <2>1. task'.phase = "fetching"
    BY <1>9, <1>t DEF Connect, Tasks
  <2> QED BY <2>1
<1>10. CASE Buffer
  <2>1. CASE Fail(<<>>)
    BY <2>1, <1>f
  <2>2. CASE task' = [task EXCEPT !.buffered = Append(@, Head(socket))]
    BY <2>2, <1>t DEF Tasks
  <2> QED BY <1>10, <2>1, <2>2 DEF Buffer
<1>11. CASE SkipStale
  BY <1>11, TakeNext DEF SkipStale
<1>12. CASE Bridge
  <2>1. /\ task.phase = "bridging" /\ Pending /\ ~Stale(Next1) /\ ~Gap(Next1)
        /\ task' = [Took EXCEPT !.phase = "live", !.book = Applied(Next1)]
    BY <1>12 DEF Bridge
  <2>2. Took \in Tasks
    BY <2>1, TakeNext
  <2>3. task'.phase = "live" /\ task'.book = Applied(Next1)
    BY <2>1, <2>2 DEF Tasks
  <2>4. Applied(Next1) = Mirror!Image(Next1.last) /\ Next1.last \in 0 .. Len(venue)
    BY <2>1, BridgeLinks
  <2>5. Mirror!Image(Next1.last).id = Next1.last
    BY <2>4, ImageFacts DEF Types
  <2> QED BY <2>3, <2>4, <2>5
<1>13. CASE SnapshotTooOld
  <2>1. SaysEnd /\ task.phase = "bridging"
    BY <1>13, TooOldShape DEF SnapshotTooOld
  <2>2. CASE Fail(<<Status("resyncing"), Status("resyncing")>>)
    BY <2>2, <1>f
  <2>3. CASE task' = [task EXCEPT !.phase = "fetching", !.attempt = @ + 1, !.book = NoBook,
                                  !.buffered = <<Next1>> \o Took.buffered]
    <3> DEFINE b == <<Next1>> \o Took.buffered
    <3>1. task' = [task EXCEPT !.phase = "fetching", !.attempt = @ + 1, !.book = NoBook,
                               !.buffered = b]
      BY <2>3
    <3> HIDE DEF b
    <3>2. task'.phase = "fetching"
      BY <3>1, <1>t DEF Tasks
    <3> QED BY <3>2
  <2> QED BY <1>13, <2>2, <2>3 DEF SnapshotTooOld
<1>14. CASE Follow
  <2>1. CASE Fail(<<Status("resyncing")>>) \/ Fail(<<>>)
    BY <2>1, <1>f
  <2>2. CASE ~Gap(Next1) /\ ~Mismatch(Next1) /\ task' = [Took EXCEPT !.book = Applied(Next1)]
    <3>1. task.phase = "live" /\ Pending /\ ~Stale(Next1)
      BY <1>14 DEF Follow
    <3>2. Took \in Tasks /\ Took.phase = "live"
      BY <3>1, TakeNext
    <3>3. task'.phase = "live" /\ task'.book = Applied(Next1)
      BY <2>2, <3>2 DEF Tasks
    <3>4. Applied(Next1) = Mirror!Image(Next1.last) /\ Next1.last \in 0 .. Len(venue)
      BY <2>2, <3>1, FollowLinks
    <3>5. Mirror!Image(Next1.last).id = Next1.last
      BY <3>4, ImageFacts DEF Types
    <3> QED BY <3>3, <3>4, <3>5
  <2> QED BY <1>14, <2>1, <2>2 DEF Follow
<1>15. CASE ConnectionFails
  BY <1>15, <1>f DEF ConnectionFails
<1>16. CASE Reconnect
  BY <1>16, ReconnectShape DEF SaysConnecting
<1>17. CASE UNCHANGED vars
  BY <1>17 DEF vars
<1> QED BY <1>1, <1>2, <1>3, <1>4, <1>5, <1>6, <1>7, <1>8, <1>9, <1>10, <1>11, <1>12, <1>13,
           <1>14, <1>15, <1>16, <1>17 DEF Next

(* What a step does to the book on display. *)
LEMMA FirstMessage ==
  ASSUME Types, WholeEvents, Stream # <<>>
  PROVE /\ 1 \in 1 .. Len(Stream) /\ Stream[1] \in Messages /\ Stream[1].gen \in Nat
        /\ Stream[1].kind = "snapshot" => Stream[1].id \in 0 .. Len(venue)
        /\ Stream[1].kind = "update" => Stream[1].event \in Events /\ Whole(Stream[1].event)
<1>1. 1 \in 1 .. Len(Stream) /\ Stream[1] \in Messages
  BY StreamType, HeadAndTail
<1>2. Stream[1].gen \in Nat
  BY <1>1 DEF Messages
<1>3. Stream[1].kind = "snapshot" => Stream[1].id \in Nat
  BY <1>1 DEF Messages
<1>4. Stream[1].kind = "update" => Stream[1].event \in Events
  BY <1>1 DEF Messages
<1>5. Stream[1].kind = "snapshot" => Stream[1].id <= Len(venue)
  BY <1>1 DEF WholeEvents
<1>6. Stream[1].kind = "update" => Whole(Stream[1].event)
  BY <1>1 DEF WholeEvents
<1>7. Len(venue) \in Nat
  BY DEF Types
<1> QED BY <1>1, <1>2, <1>3, <1>4, <1>5, <1>6, <1>7

(* What refusing a message for its time does to each field of the reader. *)
LEMMA RefusedFields ==
  ASSUME NEW r \in Readers, NEW m, m.gen \in Nat
  PROVE /\ Refused(r, m).enabled = r.enabled /\ Refused(r, m).floor = r.floor
        /\ Refused(r, m).latest = r.latest /\ Refused(r, m).opened = r.opened
        /\ Refused(r, m).synced = FALSE /\ Refused(r, m).book = NoBook
        /\ Refused(r, m).refused = m.gen
<1> DEFINE g == MarkGap(r)
<1>1. /\ g \in Readers /\ g.enabled = r.enabled /\ g.floor = r.floor /\ g.latest = r.latest
      /\ g.opened = r.opened /\ g.synced = FALSE /\ g.book = NoBook
  BY NoBookIsABook DEF MarkGap, Readers
<1> HIDE DEF g
<1>2. LET x == [g EXCEPT !.refused = m.gen] IN
      /\ x.enabled = g.enabled /\ x.floor = g.floor /\ x.latest = g.latest
      /\ x.opened = g.opened /\ x.synced = g.synced /\ x.book = g.book /\ x.refused = m.gen
  BY <1>1 DEF Readers
<1> QED BY <1>1, <1>2 DEF Refused, g

Stays == reader'.synced = reader.synced /\ reader'.book = reader.book
Loses == ~reader'.synced /\ reader'.book = NoBook
Moves ==
  /\ reader.synced /\ reader'.synced
  /\ \E n \in reader.book.id + 1 .. Len(venue) :
       reader'.book.id = n /\ reader'.book = Mirror!Image(n)
Opens ==
  /\ Heard(Stream[1]) /\ Stream[1].kind = "snapshot" /\ reader'.synced
  /\ \E n \in 0 .. Len(venue) : reader'.book.id = n /\ reader'.book = Mirror!Image(n)

(* What one event does to the display: nothing, lose it, move it forward, *)
(* or open it from an image.                                              *)
LEMMA HearsBook ==
  ASSUME Types, WholeEvents, TrueBooks, Hears
  PROVE Stays \/ Loses \/ Moves \/ Opens
<1> DEFINE m == Stream[1]
           r == [reader EXCEPT !.latest = m.gen]
<1>1. /\ m.gen \in Nat
      /\ m.kind = "snapshot" => m.id \in 0 .. Len(venue)
      /\ m.kind = "update" => m.event \in Events /\ Whole(m.event)
  BY FirstMessage DEF Hears
<1>2. /\ r \in Readers /\ r.book = reader.book /\ r.synced = reader.synced
      /\ r.opened = reader.opened
  BY <1>1 DEF Types, Readers
<1>3. MarkGap(r).synced = FALSE /\ MarkGap(r).book = NoBook
  BY <1>2 DEF MarkGap, Readers
<1>4. CASE ~Heard(m) /\ reader' = reader
  BY <1>4 DEF Stays
<1>9. CASE Heard(m) /\ m.kind \in {"snapshot", "update"} /\ reader' = Refused(r, m)
  <2>1. Refused(r, m).synced = FALSE /\ Refused(r, m).book = NoBook
    BY <1>1, <1>2, RefusedFields
  <2> QED BY <1>9, <2>1 DEF Loses
<1>5. CASE Heard(m) /\ m.kind = "snapshot" /\ reader' = Installed(r, m)
  <2>1. CASE reader' = MarkGap(r)
    BY <1>3, <2>1 DEF Loses
  <2>2. CASE reader' = [r EXCEPT !.opened = m.gen, !.synced = TRUE, !.book = Mirror!Image(m.id)]
    <3> DEFINE b == Mirror!Image(m.id)
    <3>1. b.id = m.id
      BY <1>1, <1>5, ImageFacts DEF Types
    <3>2. reader' = [r EXCEPT !.opened = m.gen, !.synced = TRUE, !.book = b]
      BY <2>2
    <3> HIDE DEF b, r
    <3>3. reader'.synced /\ reader'.book = b
      BY <3>2, <1>2 DEF Readers
    <3> QED BY <1>1, <1>5, <3>1, <3>3 DEF Opens, b
  <2> HIDE DEF m, r
  <2> QED BY <1>5, <2>1, <2>2 DEF Installed
<1>6. CASE Heard(m) /\ m.kind = "update" /\ reader' = Followed(r, m)
  <2>0. m.event \in Events /\ Whole(m.event)
    BY <1>1, <1>6
  <2>1. CASE reader' = r
    BY <1>2, <2>1 DEF Stays
  <2>2. CASE reader' = MarkGap(r)
    BY <1>3, <2>2 DEF Loses
  <2>3. CASE /\ r.synced /\ ~(m.event.last <= r.book.id) /\ Linked(r.book, m.event, m.link)
             /\ reader' = [r EXCEPT !.book = Set(@, m.event)]
    <3> DEFINE e == m.event
               id == reader.book.id
    <3>1. id \in 0 .. Len(venue) /\ reader.book = Mirror!Image(id)
      BY <1>2, <2>3 DEF TrueBooks
    <3>2. e.last \in Nat /\ e.first \in Nat /\ e.prev \in Nat /\ e.last <= Len(venue)
          /\ e.first = e.prev + 1 /\ Len(venue) \in Nat
      BY <2>0 DEF Whole, Events, Types
    <3>3. e.last > id
      BY <1>2, <2>3, <3>1, <3>2
    <3>4. e.first <= id + 1
      BY <1>2, <2>3, <3>1, <3>2 DEF Linked
    <3>5. Set(Mirror!Image(id), e) = Mirror!Image(e.last)
      <4>1. e \in Events /\ Whole(e) /\ id <= e.last /\ venue \in Seq(Levels)
        BY <2>0, <3>1, <3>2, <3>3 DEF Types
      <4> HIDE DEF e, id
      <4> QED BY <4>1, <3>1, <3>4, SetImage
    <3>6. reader' = [r EXCEPT !.book = Mirror!Image(e.last)]
      BY <1>2, <2>3, <3>1, <3>5
    <3>7. e.last \in id + 1 .. Len(venue) /\ Mirror!Image(e.last).id = e.last
      <4>1. e.last \in id + 1 .. Len(venue) /\ e.last \in 0 .. Len(venue)
        BY <3>1, <3>2, <3>3
      <4>2. venue \in Seq(Levels) /\ Len(venue) <= MaxId
        BY DEF Types
      <4> HIDE DEF e, id
      <4> QED BY <4>1, <4>2, ImageFacts
    <3> DEFINE b == Mirror!Image(e.last)
    <3> HIDE DEF b, r, e, id
    <3>8. reader' = [r EXCEPT !.book = b] /\ b.id = e.last
      BY <3>6, <3>7 DEF b
    <3>9. reader'.synced /\ reader'.book = b
      BY <3>8, <1>2, <2>3 DEF Readers
    <3>10. reader.synced
      BY <1>2, <2>3
    <3>11. Mirror!Image(e.last) = b
      BY DEF b
    <3> QED BY <3>7, <3>8, <3>9, <3>10, <3>11 DEF Moves, id
  <2> HIDE DEF m, r
  <2> QED BY <1>6, <2>1, <2>2, <2>3 DEF Followed
<1>7. CASE Heard(m) /\ Ended(m) /\ reader' = MarkGap(r)
  BY <1>3, <1>7 DEF Loses
<1>8. CASE Heard(m) /\ m.kind = "connecting" /\ reader' = r
  BY <1>2, <1>8 DEF Stays
<1> QED BY <1>4, <1>5, <1>6, <1>7, <1>8, <1>9 DEF Hears

(* What recording and losing the display do to each field of the reader. *)
LEMMA ReaderFields ==
  ASSUME NEW r \in Readers
  PROVE /\ Recording(r).enabled /\ Recording(r).floor = NextGeneration
        /\ Recording(r).latest = r.latest /\ Recording(r).opened = r.opened
        /\ Recording(r).synced = r.synced /\ Recording(r).book = r.book
        /\ MarkGap(r).enabled = r.enabled /\ MarkGap(r).floor = r.floor
        /\ MarkGap(r).latest = r.latest /\ MarkGap(r).opened = r.opened
        /\ ~MarkGap(r).synced /\ MarkGap(r).book = NoBook
        /\ MarkGap(r).refused = r.refused
  BY DEF Recording, MarkGap, Readers

(* A reader that is not recording. *)
LEMMA SilentFields ==
  /\ Silent \in Readers /\ ~Silent.enabled /\ Silent.floor = 0 /\ Silent.latest = 0
  /\ Silent.opened = 0 /\ ~Silent.synced /\ Silent.book = NoBook
  BY NoBookIsABook DEF Silent, Readers

(* What any step does to the display. *)
LEMMA ReaderBook ==
  ASSUME Types, WholeEvents, TrueBooks, CommandsInOrder, [Next]_vars
  PROVE Stays \/ Loses \/ (Hears /\ (Moves \/ Opens))
<1>r. reader \in Readers /\ MarkGap(reader) \in Readers
  BY ReaderTypes DEF Types
<1>1. CASE Quiet \/ SaysEnd \/ SaysImage \/ SaysUpdate \/ SaysConnecting \/ Starts
  <2>1. reader' = reader
    BY <1>1 DEF Quiet, SaysEnd, SaysImage, SaysUpdate, SaysConnecting, Starts, Kept
  <2> QED BY <2>1 DEF Stays
<1>2. CASE Hears
  BY <1>2, HearsBook
<1>3. CASE Detaches
  BY <1>r, <1>3, ReaderFields, SilentFields DEF Detaches, Stays, Loses
<1>4. CASE Asks
  BY <1>r, <1>4, ReaderFields DEF Asks, Stays, Loses
<1> QED BY <1>1, <1>2, <1>3, <1>4, StepShape

(* The books of the task and of the display stay the venue's. *)
LEMMA TrueStep ==
  ASSUME Types, Types', WholeEvents, TrueBooks, CommandsInOrder, [Next]_vars
  PROVE TrueBooks'
<1>1. /\ Len(venue) \in Nat /\ Len(venue') \in Nat /\ Len(venue') >= Len(venue)
      /\ \A n \in 0 .. Len(venue) : Mirror!Image(n)' = Mirror!Image(n)
  BY VenueGrows
<1>t. task \in Tasks /\ task' \in Tasks
  BY DEF Types
<1>2. (/\ task.phase = "bridging" => task.base <= Len(venue) /\ task.book = Mirror!Image(task.base)
       /\ task.phase = "live" =>
            task.book.id \in 0 .. Len(venue) /\ task.book = Mirror!Image(task.book.id))'
  <2>1. CASE task'.phase = task.phase /\ task'.book = task.book /\ task'.base = task.base
    BY <1>1, <1>t, <2>1 DEF TrueBooks, Tasks
  <2>2. CASE task'.phase \notin {"bridging", "live"}
    BY <2>2
  <2>3. CASE /\ task'.phase = "bridging"
             /\ \E n \in 0 .. Len(venue) : task'.base = n /\ task'.book = Mirror!Image(n)
    BY <1>1, <2>3
  <2>4. CASE /\ task'.phase = "live"
             /\ \E n \in 0 .. Len(venue) : task'.book.id = n /\ task'.book = Mirror!Image(n)
    BY <1>1, <2>4
  <2> QED BY <2>1, <2>2, <2>3, <2>4, TaskBook
<1>3. (IF reader.synced
       THEN reader.book.id \in 0 .. Len(venue) /\ reader.book = Mirror!Image(reader.book.id)
       ELSE reader.book = NoBook)'
  <2>1. CASE Stays
    BY <1>1, <2>1 DEF TrueBooks, Stays
  <2>2. CASE Loses
    BY <2>2 DEF Loses
  <2>3. CASE Moves
    <3>1. PICK n \in reader.book.id + 1 .. Len(venue) :
                 reader'.book.id = n /\ reader'.book = Mirror!Image(n)
      BY <2>3 DEF Moves
    <3>2. n \in 0 .. Len(venue) /\ reader'.synced
      BY <1>1, <2>3 DEF Moves, TrueBooks
    <3> QED BY <1>1, <3>1, <3>2
  <2>4. CASE Opens
    BY <1>1, <2>4 DEF Opens
  <2> QED BY <2>1, <2>2, <2>3, <2>4, ReaderBook
<1> QED BY <1>2, <1>3 DEF TrueBooks
-----------------------------------------------------------------------------
(* Generations. *)

(* Epochs number the generations: a command carries a multiple of the *)
(* stride, and a new epoch one that no earlier capture reached.       *)
LEMMA Epochs ==
  ASSUME Types
  PROVE /\ NextGeneration \in Nat /\ NextGeneration > 0
        /\ \A n \in 1 .. epoch : n * Stride \in Nat /\ n * Stride < NextGeneration
        /\ epoch' = epoch => NextGeneration' = NextGeneration
        /\ NewEpoch => /\ epoch' = epoch + 1 /\ epoch' \in 1 .. epoch'
                       /\ NextGeneration = epoch' * Stride
                       /\ NextGeneration' > NextGeneration /\ NextGeneration' \in Nat
<1>1. epoch \in Nat /\ Stride \in Nat /\ Stride > 0
  BY DepthAssumption DEF Types
<1>2. NextGeneration = epoch * Stride + Stride /\ epoch * Stride \in Nat
  BY <1>1 DEF NextGeneration
<1>3. ASSUME NEW n \in 1 .. epoch PROVE n * Stride \in Nat /\ n * Stride <= epoch * Stride
  BY <1>1
<1>4. ASSUME epoch' = epoch + 1
      PROVE NextGeneration' = NextGeneration + Stride
  BY <1>1, <1>2, <1>4 DEF NextGeneration
<1>5. \A n \in 1 .. epoch : n * Stride \in Nat /\ n * Stride < NextGeneration
  BY <1>1, <1>2, <1>3
<1>6. epoch' = epoch => NextGeneration' = NextGeneration
  BY DEF NextGeneration
<1>7. NewEpoch => epoch' = epoch + 1 /\ epoch' \in 1 .. epoch' /\ NextGeneration = epoch' * Stride
  BY <1>1 DEF NewEpoch, NextGeneration
<1>8. NewEpoch => NextGeneration' > NextGeneration /\ NextGeneration' \in Nat
  BY <1>1, <1>2, <1>4, <1>7
<1>9. NextGeneration \in Nat /\ NextGeneration > 0
  BY <1>1, <1>2
<1> QED BY <1>5, <1>6, <1>7, <1>8, <1>9

(* What hearing a message does to the reader. *)
LEMMA HearsFields ==
  ASSUME Types, WholeEvents, OneImage, Hears
  PROVE LET m == Stream[1] IN
        /\ ~Heard(m) => reader' = reader
        /\ Heard(m) =>
             /\ reader'.enabled = reader.enabled /\ reader'.floor = reader.floor
             /\ reader'.latest = m.gen
             /\ reader'.refused \in {reader.refused, m.gen}
             /\ m.kind = "snapshot" =>
                  \/ reader'.opened = m.gen /\ reader'.synced /\ reader'.book.id = m.id
                  \/ reader'.opened = reader.opened /\ ~reader'.synced /\ reader'.refused = m.gen
             /\ m.kind # "snapshot" => reader'.opened = reader.opened
             /\ m.kind = "update" =>
                  \/ ~reader'.synced /\ reader'.refused = m.gen
                  \/ (~reader.synced \/ m.event.last <= reader.book.id)
                     /\ reader'.synced = reader.synced /\ reader'.book = reader.book
                  \/ reader.synced /\ m.event.last > reader.book.id
                     /\ Linked(reader.book, m.event, m.link)
                     /\ reader'.synced /\ reader'.book.id = m.event.last
                  \/ reader.synced /\ m.event.last > reader.book.id
                     /\ ~Linked(reader.book, m.event, m.link) /\ ~reader'.synced
             /\ Ended(m) => ~reader'.synced
             /\ m.kind = "connecting" =>
                  reader'.synced = reader.synced /\ reader'.book = reader.book
<1> DEFINE m == Stream[1]
           r == [reader EXCEPT !.latest = m.gen]
<1>1. /\ m.gen \in Nat /\ 1 \in 1 .. Len(Stream) /\ m \in Messages
      /\ m.kind = "snapshot" => m.id \in 0 .. Len(venue)
      /\ m.kind = "update" => m.event \in Events /\ Whole(m.event)
  BY FirstMessage DEF Hears
<1>2. /\ r \in Readers /\ r.book = reader.book /\ r.synced = reader.synced
      /\ r.opened = reader.opened /\ r.latest = m.gen
      /\ r.enabled = reader.enabled /\ r.floor = reader.floor /\ r.refused = reader.refused
  BY <1>1 DEF Types, Readers
<1>3. /\ ~MarkGap(r).synced /\ MarkGap(r).opened = reader.opened
      /\ MarkGap(r).enabled = reader.enabled /\ MarkGap(r).floor = reader.floor
      /\ MarkGap(r).latest = m.gen /\ MarkGap(r).refused = reader.refused
  BY <1>2, ReaderFields
<1>4. /\ m.kind = "snapshot" => reader.opened < m.gen
      /\ reader.opened \in Nat
  BY <1>1 DEF OneImage, Types, Readers
<1>r. ASSUME Heard(m), reader' = Refused(r, m)
      PROVE /\ reader'.enabled = reader.enabled /\ reader'.floor = reader.floor
            /\ reader'.latest = m.gen /\ reader'.opened = reader.opened /\ ~reader'.synced
            /\ reader'.refused = m.gen
  BY <1>1, <1>2, <1>r, RefusedFields
<1>5. ASSUME Heard(m), m.kind = "snapshot", reader' = Installed(r, m)
      PROVE /\ reader'.enabled = reader.enabled /\ reader'.floor = reader.floor
            /\ reader'.latest = m.gen /\ reader'.opened = m.gen /\ reader'.synced
            /\ reader'.book.id = m.id /\ reader'.refused = reader.refused
  <2> DEFINE b == Mirror!Image(m.id)
  <2>1. reader' = Installed(r, m)
    BY <1>5
  <2>2. ~(m.gen <= r.opened)
    BY <1>1, <1>2, <1>4, <1>5
  <2>3. reader' = [r EXCEPT !.opened = m.gen, !.synced = TRUE, !.book = b]
    BY <2>1, <2>2 DEF Installed
  <2>4. b.id = m.id
    BY <1>1, <1>5, ImageFacts DEF Types
  <2> HIDE DEF b, r
  <2> QED BY <1>2, <2>3, <2>4 DEF Readers
<1>6. ASSUME Heard(m), m.kind = "update", reader' = Followed(r, m)
      PROVE /\ reader'.enabled = reader.enabled /\ reader'.floor = reader.floor
            /\ reader'.latest = m.gen /\ reader'.opened = reader.opened
            /\ reader'.refused = reader.refused
            /\ \/ (~reader.synced \/ m.event.last <= reader.book.id)
                  /\ reader'.synced = reader.synced /\ reader'.book = reader.book
               \/ reader.synced /\ m.event.last > reader.book.id
                  /\ Linked(reader.book, m.event, m.link)
                  /\ reader'.synced /\ reader'.book.id = m.event.last
               \/ reader.synced /\ m.event.last > reader.book.id
                  /\ ~Linked(reader.book, m.event, m.link) /\ ~reader'.synced
  <2>1. reader' = Followed(r, m)
    BY <1>6
  <2>a. m.event.last \in Int
    BY <1>1, <1>6 DEF Events
  <2>b. reader.book \in Books
    BY DEF Types, Readers
  <2>2. m.event.last \in Int /\ reader.book.id \in Int
    BY <2>a, <2>b DEF Books
  <2> HIDE DEF r, m
  <2>3. CASE ~reader.synced \/ m.event.last <= reader.book.id
    BY <1>2, <2>1, <2>3 DEF Followed
  <2>4. CASE /\ reader.synced /\ ~(m.event.last <= reader.book.id)
             /\ Linked(reader.book, m.event, m.link)
    <3> DEFINE b == Set(r.book, m.event)
    <3>1. reader' = [r EXCEPT !.book = b]
      BY <1>2, <2>1, <2>4 DEF Followed
    <3>2. b.id = m.event.last
      BY DEF Set
    <3> HIDE DEF b
    <3>3. /\ reader'.enabled = reader.enabled /\ reader'.floor = reader.floor
          /\ reader'.latest = m.gen /\ reader'.opened = reader.opened
          /\ reader'.synced = reader.synced /\ reader'.book = b /\ reader'.refused = reader.refused
      BY <1>2, <3>1 DEF Readers
    <3> QED BY <2>2, <2>4, <3>2, <3>3
  <2>5. CASE /\ reader.synced /\ ~(m.event.last <= reader.book.id)
             /\ ~Linked(reader.book, m.event, m.link)
    <3>1. reader' = MarkGap(r)
      BY <1>2, <2>1, <2>5 DEF Followed
    <3>2. m.event.last > reader.book.id
      BY <2>2, <2>5
    <3>3. /\ reader'.enabled = reader.enabled /\ reader'.floor = reader.floor
          /\ reader'.latest = m.gen /\ reader'.opened = reader.opened /\ ~reader'.synced
          /\ reader'.refused = reader.refused
      BY <1>3, <3>1
    <3> QED BY <2>5, <3>2, <3>3
  <2> QED BY <2>3, <2>4, <2>5
<1>7. ASSUME Heard(m), Ended(m)
      PROVE /\ reader'.enabled = reader.enabled /\ reader'.floor = reader.floor
            /\ reader'.latest = m.gen /\ reader'.opened = reader.opened /\ ~reader'.synced
            /\ reader'.refused = reader.refused
  <2>1. reader' = MarkGap(r)
    BY <1>7 DEF Hears, Ended
  <2> QED BY <1>3, <2>1
<1>8. ASSUME Heard(m), m.kind = "connecting"
      PROVE reader' = r
  BY <1>8 DEF Hears, Ended
<1>9. ~Heard(m) => reader' = reader
  BY DEF Hears
<1>10. m.kind \in {"snapshot", "update", "connecting"} \/ Ended(m)
  BY <1>1 DEF Messages, Ended
<1>13. Heard(m) /\ m.kind = "snapshot" => reader' = Refused(r, m) \/ reader' = Installed(r, m)
  BY DEF Hears, Ended
<1>14. Heard(m) /\ m.kind = "update" => reader' = Refused(r, m) \/ reader' = Followed(r, m)
  BY DEF Hears, Ended
<1>11. Ended(m) => m.kind \notin {"snapshot", "update", "connecting"}
  BY DEF Ended
<1> HIDE DEF m, r
<1>12. /\ ~Heard(m) => reader' = reader
       /\ Heard(m) =>
             /\ reader'.enabled = reader.enabled /\ reader'.floor = reader.floor
             /\ reader'.latest = m.gen
             /\ reader'.refused \in {reader.refused, m.gen}
             /\ m.kind = "snapshot" =>
                  \/ reader'.opened = m.gen /\ reader'.synced /\ reader'.book.id = m.id
                  \/ reader'.opened = reader.opened /\ ~reader'.synced /\ reader'.refused = m.gen
             /\ m.kind # "snapshot" => reader'.opened = reader.opened
             /\ m.kind = "update" =>
                  \/ ~reader'.synced /\ reader'.refused = m.gen
                  \/ (~reader.synced \/ m.event.last <= reader.book.id)
                     /\ reader'.synced = reader.synced /\ reader'.book = reader.book
                  \/ reader.synced /\ m.event.last > reader.book.id
                     /\ Linked(reader.book, m.event, m.link)
                     /\ reader'.synced /\ reader'.book.id = m.event.last
                  \/ reader.synced /\ m.event.last > reader.book.id
                     /\ ~Linked(reader.book, m.event, m.link) /\ ~reader'.synced
             /\ Ended(m) => ~reader'.synced
             /\ m.kind = "connecting" =>
                  reader'.synced = reader.synced /\ reader'.book = reader.book
  <2>1. CASE ~Heard(m)
    BY <1>9, <2>1
  <2>2. CASE Heard(m) /\ m.kind = "snapshot"
    BY <1>5, <1>r, <1>11, <1>13, <2>2
  <2>3. CASE Heard(m) /\ m.kind = "update"
    BY <1>6, <1>r, <1>11, <1>14, <2>3
  <2>4. CASE Heard(m) /\ m.kind = "connecting"
    BY <1>2, <1>8, <1>11, <2>4
  <2>5. CASE Heard(m) /\ Ended(m)
    BY <1>7, <1>11, <2>5
  <2> QED BY <1>10, <2>1, <2>2, <2>3, <2>4, <2>5
<1> QED BY <1>12 DEF m

(* The fields the generations' arithmetic needs. *)
LEMMA Numbers ==
  ASSUME Types
  PROVE /\ Len(Stream) \in Nat /\ Len(commands) \in Nat
        /\ \A i \in 1 .. Len(Stream) : Stream[i].gen \in Nat
        /\ \A i \in 1 .. Len(commands) : commands[i].gen \in Nat /\ commands[i].restart \in BOOLEAN
        /\ task.gen \in Nat /\ reader.floor \in Nat /\ reader.latest \in Nat
        /\ reader.opened \in Nat /\ reader.synced \in BOOLEAN /\ reader.enabled \in BOOLEAN
        /\ (Stream = <<>>) = (Len(Stream) = 0) /\ (commands = <<>>) = (Len(commands) = 0)
<1>1. Stream \in Seq(Messages) /\ commands \in Seq(Commands)
  BY StreamType DEF Types
<1>2. \A i \in 1 .. Len(Stream) : Stream[i] \in Messages
  BY <1>1
<1>3. \A i \in 1 .. Len(commands) : commands[i] \in Commands
  BY <1>1
<1>4. /\ \A m \in Messages : m.gen \in Nat
      /\ \A c \in Commands : c.gen \in Nat /\ c.restart \in BOOLEAN
  BY DEF Messages, Commands
<1>5. /\ task.gen \in Nat /\ reader.floor \in Nat /\ reader.latest \in Nat
      /\ reader.opened \in Nat /\ reader.synced \in BOOLEAN /\ reader.enabled \in BOOLEAN
  BY DEF Types, Tasks, Readers
<1> QED BY <1>1, <1>2, <1>3, <1>4, <1>5

(* A command is told apart from what runs and from what was heard. *)
LEMMA HeardMeansObeyed ==
  ASSUME Types, CommandsInOrder, GensInOrder, Stream # <<>>, Heard(Stream[1])
  PROVE commands = <<>> /\ reader.enabled /\ Counted(Stream[1]) /\ task.phase # "stopped"
<1>1. 1 \in 1 .. Len(Stream) /\ Stream[1].gen >= reader.floor /\ reader.enabled
  BY Numbers DEF Heard
<1>2. Stream[1].gen <= task.gen /\ task.phase # "stopped"
  BY <1>1 DEF GensInOrder
<1>3. ASSUME commands # <<>> PROVE FALSE
  <2>1. Len(commands) \in 1 .. Len(commands)
    BY <1>3, Numbers
  <2>2. task.gen < commands[Len(commands)].gen /\ reader.floor = commands[Len(commands)].gen
    BY <1>2, <1>3, <2>1 DEF CommandsInOrder
  <2> QED BY <1>1, <1>2, <2>1, <2>2, Numbers
<1> QED BY <1>1, <1>2, <1>3 DEF Counted

(* Commands stay in order, each newer than the running task and than all *)
(* the display has heard.                                                *)
LEMMA CommandsStep ==
  ASSUME Types, WholeEvents, TrueBooks, CommandsInOrder, GensInOrder, OneImage, [Next]_vars
  PROVE CommandsInOrder'
<1>n. /\ Len(commands) \in Nat /\ task.gen \in Nat /\ reader.latest \in Nat
      /\ \A i \in 1 .. Len(commands) : commands[i].gen \in Nat /\ commands[i].restart \in BOOLEAN
      /\ (commands = <<>>) = (Len(commands) = 0)
  BY Numbers
<1>1. CASE /\ reader' = reader /\ commands' = commands /\ epoch' = epoch
           /\ task'.gen = task.gen /\ (task'.phase = "stopped") = (task.phase = "stopped")
  BY <1>1 DEF CommandsInOrder
<1>2. CASE Quiet
  BY <1>1, <1>2 DEF Quiet, Kept, Opening
<1>3. CASE SaysEnd
  BY <1>1, <1>3 DEF SaysEnd, Kept, Opening, Unshown
<1>4. CASE SaysImage
  BY <1>1, <1>4 DEF SaysImage, Kept
<1>5. CASE SaysUpdate
  BY <1>1, <1>5 DEF SaysUpdate, Kept
<1>6. CASE SaysConnecting
  <2>1. /\ reader' = reader /\ commands' = commands /\ epoch' = epoch
        /\ task.phase = "ended" /\ task'.phase = "connecting"
        /\ task'.gen = task.gen + 1 /\ task.gen % Stride < MaxReconnects
    BY <1>6 DEF SaysConnecting, Kept
  <2>2. ASSUME NEW i \in 1 .. Len(commands) PROVE task.gen + 1 < commands[i].gen
    <3>1. PICK n \in 1 .. epoch : commands[i].gen = n * Stride
      BY DEF CommandsInOrder
    <3>2. task.gen < n * Stride /\ n \in Nat
      BY <2>1, <3>1 DEF CommandsInOrder
    <3> QED BY <1>n, <2>1, <3>1, <3>2, StrideStep
  <2> QED BY <2>1, <2>2 DEF CommandsInOrder
<1>7. CASE Starts
  <2>1. /\ commands # <<>> /\ commands' = Tail(commands) /\ reader' = reader /\ epoch' = epoch
        /\ task'.phase = "connecting" /\ task'.gen = commands[1].gen
    BY <1>7, HeadAndTail DEF Starts, Types
  <2>2. /\ Len(commands') = Len(commands) - 1 /\ Len(commands) >= 1
        /\ \A i \in 1 .. Len(commands) - 1 : commands'[i] = commands[i + 1]
        /\ commands' \in Seq(Commands)
    BY <2>1, HeadAndTail DEF Types
  <2>3. \A i \in 1 .. Len(commands') : i + 1 \in 1 .. Len(commands) /\ i + 1 # 1
                                       /\ commands'[i] = commands[i + 1]
    BY <1>n, <2>2
  <2>4. ASSUME NEW i \in 1 .. Len(commands')
        PROVE /\ \E n \in 1 .. epoch : commands'[i].gen = n * Stride
              /\ commands[1].gen < commands'[i].gen /\ commands'[i].restart
              /\ reader.latest < commands'[i].gen
    <3>1. i + 1 \in 1 .. Len(commands) /\ 1 \in 1 .. Len(commands) /\ 1 < i + 1
      BY <1>n, <2>2
    <3>2. commands'[i] = commands[i + 1]
      BY <2>3
    <3> QED BY <3>1, <3>2 DEF CommandsInOrder
  <2>5. ASSUME NEW i \in 1 .. Len(commands'), NEW j \in 1 .. Len(commands'), i < j
        PROVE commands'[i].gen < commands'[j].gen
    <3>1. i + 1 < j + 1
      BY <2>5
    <3> QED BY <2>3, <3>1 DEF CommandsInOrder
  <2>6. commands' # <<>> => reader.floor = commands'[Len(commands')].gen
    <3> SUFFICES ASSUME commands' # <<>> PROVE reader.floor = commands'[Len(commands')].gen
      OBVIOUS
    <3>1. Len(commands') \in 1 .. Len(commands')
      BY <2>2
    <3>2. commands'[Len(commands')] = commands[Len(commands)]
      BY <1>n, <2>2, <2>3, <3>1
    <3> QED BY <2>1, <3>2 DEF CommandsInOrder
  <2>7. reader.enabled /\ ~reader.synced
    BY <2>1 DEF CommandsInOrder
  <2> QED BY <2>1, <2>4, <2>5, <2>6, <2>7 DEF CommandsInOrder
<1>8. CASE Hears
  <2>1. task' = task /\ commands' = commands /\ epoch' = epoch /\ Stream # <<>>
    BY <1>8 DEF Hears
  <2>2. CASE ~Heard(Stream[1])
    BY <1>1, <1>8, <2>1, <2>2, HearsFields
  <2>3. CASE Heard(Stream[1])
    <3>1. commands = <<>> /\ reader'.enabled
      BY <1>8, <2>1, <2>3, HeardMeansObeyed, HearsFields
    <3> QED BY <2>1, <3>1 DEF CommandsInOrder
  <2> QED BY <2>2, <2>3
<1>9. CASE Detaches
  <2>1. task'.phase = "stopped"
    BY <1>9 DEF Detaches
  <2>2. CASE /\ NewEpoch /\ reader'.enabled /\ ~reader'.synced /\ reader'.floor = NextGeneration
             /\ reader'.latest < NextGeneration
             /\ commands' = <<[restart |-> FALSE, gen |-> NextGeneration]>>
    <3>1. /\ Len(commands') = 1 /\ commands'[1].gen = NextGeneration /\ commands' # <<>>
          /\ 1 .. 1 = {1}
      BY <2>2
    <3>2. \E n \in 1 .. epoch' : NextGeneration = n * Stride
      BY <2>2, Epochs
    <3>3. NextGeneration \in Nat
      BY Epochs
    <3> QED BY <2>1, <2>2, <3>1, <3>2, <3>3 DEF CommandsInOrder
  <2>3. CASE NewEpoch /\ reader' = Recording(Silent)
             /\ commands' = <<[restart |-> FALSE, gen |-> NextGeneration]>>
    <3>1. /\ reader'.enabled /\ ~reader'.synced /\ reader'.floor = NextGeneration
          /\ reader'.latest < NextGeneration
      BY <2>3, ReaderFields, SilentFields, Epochs
    <3> QED BY <2>2, <2>3, <3>1
  <2>4. CASE NewEpoch /\ ~reader.enabled /\ reader' = Recording(reader)
             /\ commands' = <<[restart |-> FALSE, gen |-> NextGeneration]>>
    <3>1. ~reader.synced /\ reader.latest < NextGeneration
      BY <2>4 DEF CommandsInOrder, GensInOrder
    <3>2. /\ reader'.enabled /\ ~reader'.synced /\ reader'.floor = NextGeneration
          /\ reader'.latest < NextGeneration
      BY <2>4, <3>1, ReaderFields DEF Types
    <3> QED BY <2>2, <2>4, <3>2
  <2>5. CASE commands' = <<>> /\ reader.enabled /\ reader' = reader
    BY <2>1, <2>5 DEF CommandsInOrder
  <2>6. CASE commands' = <<>> /\ reader' = Silent
    BY <2>1, <2>6, SilentFields DEF CommandsInOrder
  <2> QED BY <1>9, <2>3, <2>4, <2>5, <2>6 DEF Detaches
<1>10. CASE Asks
  <2>1. task' = task /\ NewEpoch /\ epoch' = epoch + 1
    BY <1>10, Epochs DEF Asks
  <2>2. \A i \in 1 .. Len(commands) : \E n \in 1 .. epoch' : commands[i].gen = n * Stride
    <3>1. \A n \in 1 .. epoch : n \in 1 .. epoch'
      BY <2>1 DEF Types
    <3> QED BY <3>1 DEF CommandsInOrder
  <2>3. CASE UNCHANGED <<commands, reader>>
    BY <2>1, <2>2, <2>3 DEF CommandsInOrder
  <2>4. ASSUME NEW restart \in BOOLEAN,
               commands' = Append(commands, [restart |-> restart, gen |-> NextGeneration]),
               restart \/ (commands = <<>> /\ task.phase = "stopped"),
               reader'.enabled, ~reader'.synced, reader'.floor = NextGeneration,
               reader'.latest = reader.latest
        PROVE CommandsInOrder'
    <3> DEFINE c == [restart |-> restart, gen |-> NextGeneration]
    <3>1. c.restart = restart /\ c.gen = NextGeneration /\ c \in Commands
      BY Epochs DEF Commands
    <3>2. commands' = Append(commands, c)
      BY <2>4
    <3> HIDE DEF c
    <3>3. /\ Len(commands') = Len(commands) + 1 /\ commands'[Len(commands) + 1] = c
          /\ \A i \in 1 .. Len(commands) : commands'[i] = commands[i]
          /\ commands' # <<>>
      <4>1. commands \in Seq(Commands)
        BY DEF Types
      <4> QED BY <4>1, <3>1, <3>2
    <3>4. \A i \in 1 .. Len(commands') : i \in 1 .. Len(commands) \/ i = Len(commands) + 1
      BY <1>n, <3>3
    <3>5. \E n \in 1 .. epoch' : NextGeneration = n * Stride
      BY <2>1, Epochs
    <3>6. task.phase # "stopped" => task.gen < NextGeneration
      BY DEF GensInOrder
    <3>7. reader.latest < NextGeneration
      BY DEF GensInOrder
    <3>8. \A i \in 1 .. Len(commands) : commands[i].gen < NextGeneration
      <4> SUFFICES ASSUME NEW i \in 1 .. Len(commands) PROVE commands[i].gen < NextGeneration
        OBVIOUS
      <4>1. PICK n \in 1 .. epoch : commands[i].gen = n * Stride
        BY DEF CommandsInOrder
      <4> QED BY <4>1, Epochs
    <3>9. ASSUME NEW i \in 1 .. Len(commands')
          PROVE /\ \E n \in 1 .. epoch' : commands'[i].gen = n * Stride
                /\ task.phase # "stopped" =>
                     task.gen < commands'[i].gen /\ commands'[i].restart
                /\ reader'.latest < commands'[i].gen
                /\ ~commands'[i].restart => i = 1
      <4>1. CASE i \in 1 .. Len(commands)
        BY <4>1, <2>2, <2>4, <3>3 DEF CommandsInOrder
      <4>2. CASE i = Len(commands) + 1
        BY <4>2, <1>n, <2>4, <3>1, <3>3, <3>5, <3>6, <3>7
      <4> QED BY <3>4, <4>1, <4>2
    <3>10. ASSUME NEW i \in 1 .. Len(commands'), NEW j \in 1 .. Len(commands'), i < j
           PROVE commands'[i].gen < commands'[j].gen
      <4>1. i \in 1 .. Len(commands)
        BY <1>n, <3>3, <3>10
      <4>2. CASE j \in 1 .. Len(commands)
        BY <4>1, <4>2, <3>3, <3>10 DEF CommandsInOrder
      <4>3. CASE j = Len(commands) + 1
        BY <4>1, <4>3, <3>1, <3>3, <3>8
      <4> QED BY <3>4, <4>2, <4>3
    <3>11. reader'.floor = commands'[Len(commands')].gen
      BY <2>4, <3>1, <3>3
    <3> QED BY <2>1, <2>4, <3>9, <3>10, <3>11 DEF CommandsInOrder
  <2>5. CASE /\ ~reader.enabled /\ reader' = Recording(reader)
             /\ commands' = Append(commands, [restart |-> FALSE, gen |-> NextGeneration])
    <3>1. commands = <<>> /\ task.phase = "stopped" /\ ~reader.synced
      BY <2>5 DEF CommandsInOrder
    <3>2. reader'.enabled /\ ~reader'.synced /\ reader'.floor = NextGeneration
          /\ reader'.latest = reader.latest
      BY <2>5, <3>1, ReaderFields DEF Types
    <3> QED BY <2>4, <2>5, <3>1, <3>2
  <2>6. CASE /\ reader' = Recording(MarkGap(reader))
             /\ commands' = Append(commands, [restart |-> TRUE, gen |-> NextGeneration])
    <3>1. reader \in Readers /\ MarkGap(reader) \in Readers
      BY ReaderTypes DEF Types
    <3>2. reader'.enabled /\ ~reader'.synced /\ reader'.floor = NextGeneration
          /\ reader'.latest = reader.latest
      BY <2>6, <3>1, ReaderFields
    <3> QED BY <2>4, <2>6, <3>2
  <2> QED BY <1>10, <2>3, <2>5, <2>6 DEF Asks
<1> QED BY <1>2, <1>3, <1>4, <1>5, <1>6, <1>7, <1>8, <1>9, <1>10, StepShape

(* Generations stay in order along the stream. *)
LEMMA GensStep ==
  ASSUME Types, Types', WholeEvents, TrueBooks, CommandsInOrder, GensInOrder, OneImage,
         [Next]_vars
  PROVE GensInOrder'
<1>n. /\ Len(Stream) \in Nat /\ Len(commands) \in Nat
      /\ \A i \in 1 .. Len(Stream) : Stream[i].gen \in Nat
      /\ \A i \in 1 .. Len(commands) : commands[i].gen \in Nat
      /\ task.gen \in Nat /\ reader.floor \in Nat /\ reader.latest \in Nat
      /\ reader.opened \in Nat /\ reader.synced \in BOOLEAN
      /\ (Stream = <<>>) = (Len(Stream) = 0)
  BY Numbers
<1>m. (Stream' = <<>>) = (Len(Stream') = 0) /\ Len(Stream') \in Nat
  BY DEF Types, Stream
<1>g. /\ NextGeneration \in Nat /\ (epoch' = epoch => NextGeneration' = NextGeneration)
      /\ NewEpoch => NextGeneration' > NextGeneration /\ NextGeneration' \in Nat
      /\ \A k \in 1 .. epoch : k * Stride \in Nat /\ k * Stride < NextGeneration
  BY Epochs
<1>1. CASE Quiet
  <2>1. /\ Stream' = Stream /\ reader' = reader /\ commands' = commands /\ task'.gen = task.gen
        /\ NextGeneration' = NextGeneration
        /\ (task'.phase = "stopped") = (task.phase = "stopped")
    BY <1>1, <1>g DEF Quiet, Kept, Opening
  <2> QED BY <2>1 DEF GensInOrder
<1>s. ASSUME Kept, NEW n \in 1 .. 3, Longer(n), task.phase # "stopped", task'.phase # "stopped",
             task'.gen \in {task.gen, task.gen + 1},
             task'.gen < NextGeneration,
             \A i \in Len(Stream) + 1 .. Len(Stream') : Stream'[i].gen = task'.gen
      PROVE GensInOrder'
  <2>1. /\ Len(Stream') = Len(Stream) + n /\ \A i \in 1 .. Len(Stream) : Stream'[i] = Stream[i]
    BY <1>s DEF Longer
  <2>2. /\ reader' = reader /\ commands' = commands /\ NextGeneration' = NextGeneration
        /\ task'.gen >= task.gen /\ task'.gen \in Nat
    BY <1>s, <1>g, <1>n DEF Kept
  <2>3. /\ reader.latest <= task.gen /\ (commands = <<>> => task.gen >= reader.floor)
        /\ reader.latest < NextGeneration /\ reader.opened <= reader.latest
        /\ (reader.synced => reader.opened >= reader.floor)
    BY <1>s DEF GensInOrder
  <2>4. ASSUME NEW i \in 1 .. Len(Stream')
        PROVE /\ reader.latest <= Stream'[i].gen /\ Stream'[i].gen <= task'.gen
              /\ Stream'[i].gen \in Nat
    <3>1. CASE i \in 1 .. Len(Stream)
      <4>1. Stream'[i] = Stream[i]
        BY <2>1, <3>1
      <4>2. reader.latest <= Stream[i].gen /\ Stream[i].gen <= task.gen /\ Stream[i].gen \in Nat
        BY <1>n, <3>1 DEF GensInOrder
      <4> QED BY <1>n, <2>2, <4>1, <4>2
    <3>2. CASE i \in Len(Stream) + 1 .. Len(Stream')
      BY <1>s, <1>n, <2>2, <2>3, <3>2
    <3> QED BY <1>n, <2>1, <3>1, <3>2
  <2>5. ASSUME NEW i \in 1 .. Len(Stream'), NEW j \in 1 .. Len(Stream'), i < j
        PROVE Stream'[i].gen <= Stream'[j].gen
    <3>1. CASE j \in 1 .. Len(Stream)
      <4>1. i \in 1 .. Len(Stream)
        BY <1>n, <2>5, <3>1
      <4> QED BY <2>1, <2>5, <3>1, <4>1 DEF GensInOrder
    <3>2. CASE j \in Len(Stream) + 1 .. Len(Stream')
      <4>1. Stream'[j].gen = task'.gen
        BY <1>s, <3>2
      <4> QED BY <2>4, <4>1
    <3> QED BY <1>n, <2>1, <3>1, <3>2
  <2> QED BY <1>n, <1>s, <2>2, <2>3, <2>4, <2>5 DEF GensInOrder
<1>2. CASE SaysEnd
  <2>1. /\ Kept /\ task'.gen = task.gen /\ task.phase # "stopped" /\ task'.phase # "stopped"
        /\ \A i \in Len(Stream) + 1 .. Len(Stream') : Stream'[i].gen = task.gen
    BY <1>2 DEF SaysEnd, Opening, Unshown
  <2>2. PICK n \in 1 .. 3 : Longer(n)
    BY <1>2 DEF SaysEnd
  <2>3. task.gen < NextGeneration
    BY <2>1 DEF GensInOrder
  <2> QED BY <1>s, <2>1, <2>2, <2>3
<1>3. CASE SaysImage
  <2>1. /\ Kept /\ task'.gen = task.gen /\ task.phase # "stopped" /\ task'.phase # "stopped"
        /\ Longer(2) /\ Stream'[Len(Stream) + 1].gen = task.gen
        /\ Stream'[Len(Stream) + 2].gen = task.gen
    BY <1>3 DEF SaysImage
  <2>2. \A i \in Len(Stream) + 1 .. Len(Stream') : i = Len(Stream) + 1 \/ i = Len(Stream) + 2
    BY <1>n, <2>1 DEF Longer
  <2>3. task.gen < NextGeneration
    BY <2>1 DEF GensInOrder
  <2>4. \A i \in Len(Stream) + 1 .. Len(Stream') : Stream'[i].gen = task'.gen
    BY <2>1, <2>2
  <2> QED BY <1>s, <2>1, <2>3, <2>4
<1>4. CASE SaysUpdate
  <2>1. /\ Kept /\ task'.gen = task.gen /\ task.phase # "stopped" /\ task'.phase # "stopped"
        /\ Longer(1) /\ Stream'[Len(Stream) + 1].gen = task.gen
    BY <1>4 DEF SaysUpdate
  <2>2. \A i \in Len(Stream) + 1 .. Len(Stream') : i = Len(Stream) + 1
    BY <1>n, <2>1 DEF Longer
  <2>3. task.gen < NextGeneration
    BY <2>1 DEF GensInOrder
  <2>4. \A i \in Len(Stream) + 1 .. Len(Stream') : Stream'[i].gen = task'.gen
    BY <2>1, <2>2
  <2> QED BY <1>s, <2>1, <2>3, <2>4
<1>5. CASE SaysConnecting
  <2>1. /\ Kept /\ task'.gen = task.gen + 1 /\ task.phase # "stopped" /\ task'.phase # "stopped"
        /\ Longer(1) /\ Stream'[Len(Stream) + 1].gen = task.gen + 1
        /\ task.gen % Stride < MaxReconnects
    BY <1>5 DEF SaysConnecting
  <2>2. \A i \in Len(Stream) + 1 .. Len(Stream') : i = Len(Stream) + 1
    BY <1>n, <2>1 DEF Longer
  <2>3. task.gen + 1 < NextGeneration
    <3>1. task.gen < (epoch + 1) * Stride
      BY <2>1 DEF GensInOrder, NextGeneration
    <3>2. epoch + 1 \in Nat
      BY DEF Types
    <3> QED BY <1>n, <2>1, <3>1, <3>2, StrideStep DEF NextGeneration
  <2>4. \A i \in Len(Stream) + 1 .. Len(Stream') : Stream'[i].gen = task'.gen
    BY <2>1, <2>2
  <2> QED BY <1>s, <2>1, <2>3, <2>4
<1>6. CASE Starts
  <2>1. /\ commands # <<>> /\ commands' = Tail(commands) /\ reader' = reader
        /\ NextGeneration' = NextGeneration
        /\ task'.phase = "connecting" /\ task'.gen = commands[1].gen
    BY <1>6, <1>g, HeadAndTail DEF Starts, Types
  <2>2. /\ Len(commands) >= 1 /\ 1 \in 1 .. Len(commands)
        /\ Len(commands') = Len(commands) - 1
    BY <2>1, HeadAndTail DEF Types
  <2>3. /\ Len(Stream') \in 1 .. Len(Stream) + 1
        /\ \A i \in 1 .. Len(Stream') - 1 : Stream'[i] = Stream[i] /\ i \in 1 .. Len(Stream)
        /\ Stream'[Len(Stream')].gen = commands[1].gen
    <3>1. /\ Len(Stream') \in 1 .. Len(Stream) + 1
          /\ \A i \in 1 .. Len(Stream') - 1 : Stream'[i] = Stream[i]
          /\ Stream'[Len(Stream')].gen = Head(commands).gen
      BY <1>6 DEF Starts
    <3>2. Head(commands) = commands[1]
      BY <2>1, HeadAndTail DEF Types
    <3>3. \A i \in 1 .. Len(Stream') - 1 : i \in 1 .. Len(Stream)
      BY <1>n, <3>1
    <3> QED BY <3>1, <3>2, <3>3
  <2>4. commands[1].gen < NextGeneration /\ commands[1].gen \in Nat
        /\ reader.latest < commands[1].gen
    BY <1>g, <1>n, <2>2 DEF CommandsInOrder
  <2>5. commands' = <<>> => commands[1].gen >= reader.floor
    <3>1. commands' = <<>> => Len(commands) = 1
      BY <1>n, <2>2
    <3>2. reader.floor = commands[Len(commands)].gen
      BY <2>1 DEF CommandsInOrder
    <3>3. Len(commands) = 1 => commands[1].gen = reader.floor
      BY <3>2
    <3> QED BY <1>n, <2>4, <3>1, <3>3
  <2>6. \A i \in 1 .. Len(Stream) : Stream[i].gen < commands[1].gen
    <3> SUFFICES ASSUME NEW i \in 1 .. Len(Stream) PROVE Stream[i].gen < commands[1].gen
      OBVIOUS
    <3>1. Stream # <<>>
      BY <1>n
    <3>2. task.phase # "stopped" /\ Stream[i].gen <= task.gen
      BY <3>1 DEF GensInOrder
    <3>3. task.gen < commands[1].gen
      BY <2>2, <3>2 DEF CommandsInOrder
    <3> QED BY <1>n, <2>4, <3>2, <3>3
  <2>7. ASSUME NEW i \in 1 .. Len(Stream')
        PROVE /\ reader.latest <= Stream'[i].gen /\ Stream'[i].gen <= commands[1].gen
              /\ Stream'[i].gen \in Nat
    <3>1. CASE i = Len(Stream')
      BY <1>n, <2>3, <2>4, <3>1
    <3>2. CASE i \in 1 .. Len(Stream') - 1
      <4>1. Stream'[i] = Stream[i] /\ i \in 1 .. Len(Stream)
        BY <2>3, <3>2
      <4>2. reader.latest <= Stream[i].gen /\ Stream[i].gen < commands[1].gen
        BY <2>6, <4>1 DEF GensInOrder
      <4> QED BY <1>n, <2>4, <4>1, <4>2
    <3> QED BY <1>m, <3>1, <3>2
  <2>8. ASSUME NEW i \in 1 .. Len(Stream'), NEW j \in 1 .. Len(Stream'), i < j
        PROVE Stream'[i].gen <= Stream'[j].gen
    <3>1. CASE j = Len(Stream')
      BY <2>3, <2>7, <3>1
    <3>2. CASE j \in 1 .. Len(Stream') - 1
      <4>1. i \in 1 .. Len(Stream') - 1
        BY <1>m, <2>8, <3>2
      <4>2. Stream'[i] = Stream[i] /\ i \in 1 .. Len(Stream)
            /\ Stream'[j] = Stream[j] /\ j \in 1 .. Len(Stream)
        BY <2>3, <3>2, <4>1
      <4> QED BY <2>8, <4>2 DEF GensInOrder
    <3> QED BY <1>m, <3>1, <3>2
  <2>9. /\ reader.latest < NextGeneration /\ reader.opened <= reader.latest
        /\ reader.synced => reader.opened >= reader.floor
    BY DEF GensInOrder
  <2> QED BY <1>n, <2>1, <2>4, <2>5, <2>7, <2>8, <2>9 DEF GensInOrder
<1>7. CASE Hears
  <2>1. /\ Stream # <<>> /\ task' = task /\ commands' = commands
        /\ NextGeneration' = NextGeneration /\ Len(Stream') = Len(Stream) - 1
        /\ \A i \in 1 .. Len(Stream) - 1 : Stream'[i] = Stream[i + 1]
    BY <1>7, <1>g DEF Hears
  <2>2. task.phase # "stopped" /\ 1 \in 1 .. Len(Stream)
    BY <1>n, <2>1 DEF GensInOrder
  <2>3. \A i \in 1 .. Len(Stream') :
          /\ i + 1 \in 1 .. Len(Stream) /\ Stream'[i] = Stream[i + 1]
          /\ Stream[1].gen <= Stream[i + 1].gen
    BY <1>n, <2>1, <2>2 DEF GensInOrder
  <2>4. \A i, j \in 1 .. Len(Stream') : i < j => Stream'[i].gen <= Stream'[j].gen
    <3> SUFFICES ASSUME NEW i \in 1 .. Len(Stream'), NEW j \in 1 .. Len(Stream'), i < j
                 PROVE Stream'[i].gen <= Stream'[j].gen
      OBVIOUS
    <3>1. i + 1 < j + 1
      OBVIOUS
    <3> QED BY <2>3, <3>1 DEF GensInOrder
  <2>5. /\ task.gen < NextGeneration /\ (commands = <<>> => task.gen >= reader.floor)
        /\ reader.latest < NextGeneration /\ reader.opened <= reader.latest
        /\ reader.latest <= Stream[1].gen /\ Stream[1].gen <= task.gen
        /\ (reader.synced => reader.opened >= reader.floor)
        /\ reader.latest <= task.gen
    BY <2>2 DEF GensInOrder
  <2>6. \A i \in 1 .. Len(Stream') : Stream'[i].gen <= task.gen /\ Stream[1].gen <= Stream'[i].gen
    BY <2>3 DEF GensInOrder
  <2>7. CASE ~Heard(Stream[1])
    <3>1. reader' = reader
      BY <1>7, <2>7, HearsFields
    <3>2. \A i \in 1 .. Len(Stream') : reader.latest <= Stream'[i].gen
      BY <2>3 DEF GensInOrder
    <3> QED BY <2>1, <2>2, <2>4, <2>5, <2>6, <3>1, <3>2 DEF GensInOrder
  <2>8. CASE Heard(Stream[1])
    <3>1. reader'.floor = reader.floor /\ reader'.latest = Stream[1].gen
      BY <1>7, <2>8, HearsFields
    <3>a. Stream[1].kind = "snapshot" =>
            reader'.opened = Stream[1].gen \/ (reader'.opened = reader.opened /\ ~reader'.synced)
      BY <1>7, <2>8, HearsFields
    <3>b. Stream[1].kind # "snapshot" => reader'.opened = reader.opened
      BY <1>7, <2>8, HearsFields
    <3>2. Stream[1].gen >= reader.floor
      BY <2>8 DEF Heard
    <3>3. reader'.opened <= reader'.latest
      BY <1>n, <2>2, <2>5, <3>1, <3>a, <3>b
    <3>4. reader'.synced => reader'.opened >= reader'.floor
      <4>1. CASE Stream[1].kind = "snapshot"
        BY <3>1, <3>a, <3>2, <4>1
      <4>2. CASE Stream[1].kind # "snapshot"
        <5>1. Stream[1].kind \in {"update", "connecting"} \/ Ended(Stream[1])
          <6>1. Stream[1] \in Messages
            BY <2>1, FirstMessage
          <6> QED BY <4>2, <6>1 DEF Messages, Ended
        <5>2. reader'.synced => reader.synced
          BY <1>7, <1>n, <2>8, <5>1, HearsFields
        <5> QED BY <2>5, <3>1, <3>b, <4>2, <5>2
      <4> QED BY <4>1, <4>2
    <3>5. reader'.latest < NextGeneration /\ reader'.latest <= task.gen
      BY <1>n, <1>g, <2>2, <2>5, <3>1
    <3>6. commands = <<>> => task.gen >= reader'.floor
      BY <2>5, <3>1
    <3> QED BY <2>1, <2>2, <2>4, <2>5, <2>6, <3>1, <3>3, <3>4, <3>5, <3>6 DEF GensInOrder
  <2> QED BY <2>7, <2>8
<1>8. CASE Detaches
  <2>1. Stream' = <<>> /\ task'.phase = "stopped" /\ (epoch' = epoch \/ NewEpoch)
    BY <1>8 DEF Detaches
  <2>2. NextGeneration' >= NextGeneration /\ NextGeneration' \in Nat
    BY <1>g, <2>1
  <2>3. reader.latest < NextGeneration /\ reader.opened <= reader.latest
        /\ (reader.synced => reader.opened >= reader.floor)
        /\ (~reader.enabled => ~reader.synced)
    BY DEF GensInOrder, CommandsInOrder
  <2>4. /\ reader'.latest < NextGeneration /\ reader'.opened <= reader'.latest
        /\ reader'.latest \in Nat
        /\ reader'.synced => reader'.opened >= reader'.floor
    <3>1. reader \in Readers /\ Silent \in Readers
      BY SilentFields DEF Types
    <3>2. CASE reader' = Recording(Silent) \/ reader' = Silent
      BY <1>g, <3>1, <3>2, ReaderFields, SilentFields, Epochs
    <3>3. CASE ~reader.enabled /\ reader' = Recording(reader)
      BY <1>n, <2>3, <3>1, <3>3, ReaderFields
    <3>4. CASE reader' = reader
      BY <1>n, <2>3, <3>4
    <3> QED BY <1>8, <3>2, <3>3, <3>4 DEF Detaches
  <2>5. Len(Stream') = 0
    BY <2>1
  <2> QED BY <1>g, <2>1, <2>2, <2>4, <2>5 DEF GensInOrder
<1>9. CASE Asks
  <2>1. Stream' = Stream /\ task' = task /\ NewEpoch
    BY <1>9 DEF Asks
  <2>2. NextGeneration' >= NextGeneration /\ NextGeneration' \in Nat
    BY <1>g, <2>1
  <2>3. /\ reader'.latest = reader.latest /\ reader'.opened = reader.opened
        /\ (reader'.synced => reader'.floor = reader.floor /\ reader.synced)
        /\ (commands' = <<>> => commands = <<>> /\ reader'.floor = reader.floor)
    <3>1. reader \in Readers /\ MarkGap(reader) \in Readers /\ (~reader.enabled => ~reader.synced)
      BY ReaderTypes DEF Types, CommandsInOrder
    <3>2. CASE UNCHANGED <<commands, reader>>
      BY <3>2
    <3>3. CASE ~reader.enabled /\ reader' = Recording(reader) /\ commands' # <<>>
      BY <3>1, <3>3, ReaderFields
    <3>4. CASE reader' = Recording(MarkGap(reader)) /\ commands' # <<>>
      BY <3>1, <3>4, ReaderFields
    <3>5. \A c \in Commands : Append(commands, c) # <<>>
      <4>1. commands \in Seq(Commands)
        BY DEF Types
      <4>2. SUFFICES ASSUME NEW c \in Commands PROVE Append(commands, c) # <<>>
        OBVIOUS
      <4> DEFINE s == Append(commands, c)
      <4>3. s \in Seq(Commands) /\ Len(s) = Len(commands) + 1
        BY <4>1
      <4> HIDE DEF s
      <4>4. s # <<>>
        BY <1>n, <4>3
      <4> QED BY <4>4 DEF s
    <3>6. \A restart \in BOOLEAN : [restart |-> restart, gen |-> NextGeneration] \in Commands
      BY <1>g DEF Commands
    <3>7. \A restart \in BOOLEAN :
             Append(commands, [restart |-> restart, gen |-> NextGeneration]) # <<>>
      BY <3>5, <3>6
    <3> QED BY <1>9, <3>2, <3>3, <3>4, <3>7 DEF Asks
  <2> QED BY <1>g, <1>n, <2>1, <2>2, <2>3 DEF GensInOrder
<1> QED BY <1>1, <1>2, <1>3, <1>4, <1>5, <1>6, <1>7, <1>8, <1>9, StepShape
-----------------------------------------------------------------------------
(* Images. *)

(* A generation still opens one image. *)
LEMMA OneImageStep ==
  ASSUME Types, WholeEvents, TrueBooks, CommandsInOrder, GensInOrder, OneImage, [Next]_vars
  PROVE OneImage'
<1>n. /\ Len(Stream) \in Nat /\ task.gen \in Nat /\ reader.opened \in Nat
      /\ reader.latest \in Nat
      /\ \A i \in 1 .. Len(Stream) : Stream[i].gen \in Nat
      /\ (Stream = <<>>) = (Len(Stream) = 0)
  BY Numbers
<1>1. CASE Quiet
  <2>1. /\ Stream' = Stream /\ reader' = reader /\ task'.gen = task.gen
        /\ task'.phase \in Opening => task.phase \in Opening
    BY <1>1 DEF Quiet, Kept
  <2> QED BY <2>1 DEF OneImage, Opening
<1>s. ASSUME reader' = reader, NEW n \in 1 .. 3, Longer(n),
             \A i \in Len(Stream) + 1 .. Len(Stream') : Stream'[i].kind # "snapshot",
             task'.phase \in Opening =>
               /\ reader.opened < task'.gen
               /\ \A i \in 1 .. Len(Stream) :
                    Stream[i].kind = "snapshot" => Stream[i].gen < task'.gen
      PROVE OneImage'
  <2>1. \A i \in 1 .. Len(Stream') : Stream'[i].kind = "snapshot" =>
          /\ i \in 1 .. Len(Stream) /\ Stream'[i] = Stream[i]
          /\ \A j \in 1 .. i - 1 : Stream'[j] = Stream[j]
    BY <1>s, <1>n DEF Longer
  <2> QED BY <1>s, <2>1 DEF OneImage, Opening
<1>2. CASE SaysEnd
  <2>1. /\ reader' = reader /\ task'.gen = task.gen
        /\ task'.phase \in Opening => task.phase \in Opening
        /\ \A i \in Len(Stream) + 1 .. Len(Stream') : Stream'[i].kind # "snapshot"
    BY <1>2 DEF SaysEnd, Kept, Opening, Ended
  <2>2. PICK n \in 1 .. 3 : Longer(n)
    BY <1>2 DEF SaysEnd
  <2>3. task'.phase \in Opening =>
          /\ reader.opened < task'.gen
          /\ \A i \in 1 .. Len(Stream) :
               Stream[i].kind = "snapshot" => Stream[i].gen < task'.gen
    BY <2>1 DEF OneImage, Opening
  <2> QED BY <1>s, <2>1, <2>2, <2>3
<1>3. CASE SaysImage
  <2>1. /\ reader' = reader /\ task.phase = "bridging" /\ task'.phase = "live"
        /\ Longer(2) /\ Stream'[Len(Stream) + 1].gen = task.gen
        /\ Stream'[Len(Stream) + 2].kind = "update"
    BY <1>3 DEF SaysImage, Kept
  <2>2. /\ reader.opened < task.gen
        /\ \A i \in 1 .. Len(Stream) : Stream[i].kind = "snapshot" => Stream[i].gen < task.gen
    BY <2>1 DEF OneImage
  <2>3. /\ Len(Stream') = Len(Stream) + 2
        /\ \A i \in 1 .. Len(Stream) : Stream'[i] = Stream[i]
    BY <2>1 DEF Longer
  <2>4. ASSUME NEW i \in 1 .. Len(Stream'), Stream'[i].kind = "snapshot"
        PROVE /\ reader.opened < Stream'[i].gen
              /\ \A j \in 1 .. i - 1 : Stream'[j].kind = "snapshot" =>
                   Stream'[j].gen < Stream'[i].gen
    <3>1. CASE i \in 1 .. Len(Stream)
      <4>1. Stream'[i] = Stream[i] /\ \A j \in 1 .. i - 1 : Stream'[j] = Stream[j]
        BY <1>n, <2>3, <3>1
      <4> QED BY <2>4, <3>1, <4>1 DEF OneImage
    <3>2. CASE i = Len(Stream) + 1
      <4>1. Stream'[i].gen = task.gen
        BY <2>1, <3>2
      <4>2. \A j \in 1 .. i - 1 : j \in 1 .. Len(Stream) /\ Stream'[j] = Stream[j]
        BY <1>n, <2>3, <3>2
      <4> QED BY <2>2, <4>1, <4>2
    <3>3. i # Len(Stream) + 2
      BY <2>1, <2>4
    <3> QED BY <1>n, <2>3, <3>1, <3>2, <3>3
  <2> QED BY <2>1, <2>4 DEF OneImage
<1>4. CASE SaysUpdate
  <2>1. /\ reader' = reader /\ task'.phase = "live"
        /\ Longer(1) /\ Stream'[Len(Stream) + 1].kind = "update"
    BY <1>4 DEF SaysUpdate, Kept
  <2>2. \A i \in Len(Stream) + 1 .. Len(Stream') : i = Len(Stream) + 1
    BY <1>n, <2>1 DEF Longer
  <2>3. \A i \in Len(Stream) + 1 .. Len(Stream') : Stream'[i].kind # "snapshot"
    BY <2>1, <2>2
  <2>4. task'.phase \notin Opening
    BY <2>1 DEF Opening
  <2> QED BY <1>s, <2>1, <2>3, <2>4
<1>5. CASE SaysConnecting
  <2>1. /\ reader' = reader /\ task'.gen = task.gen + 1 /\ task.phase = "ended"
        /\ Longer(1) /\ Stream'[Len(Stream) + 1].kind = "connecting"
    BY <1>5 DEF SaysConnecting, Kept
  <2>2. \A i \in Len(Stream) + 1 .. Len(Stream') : i = Len(Stream) + 1
    BY <1>n, <2>1 DEF Longer
  <2>3. \A i \in Len(Stream) + 1 .. Len(Stream') : Stream'[i].kind # "snapshot"
    BY <2>1, <2>2
  <2>4. /\ reader.opened < task'.gen
        /\ \A i \in 1 .. Len(Stream) : Stream[i].gen < task'.gen
    BY <1>n, <2>1 DEF GensInOrder
  <2> QED BY <1>s, <2>1, <2>3, <2>4
<1>6. CASE Starts
  <2>1. /\ commands # <<>> /\ reader' = reader /\ task'.gen = commands[1].gen
        /\ Len(Stream') \in 1 .. Len(Stream) + 1
        /\ \A i \in 1 .. Len(Stream') - 1 : Stream'[i] = Stream[i]
        /\ Stream'[Len(Stream')].kind = "connecting"
    BY <1>6, HeadAndTail DEF Starts, Types
  <2>2. 1 \in 1 .. Len(commands) /\ commands[1].gen \in Nat
    BY <2>1, Numbers
  <2>3. reader.opened < commands[1].gen
    BY <1>n, <2>2 DEF CommandsInOrder, GensInOrder
  <2>4. \A i \in 1 .. Len(Stream) : Stream[i].gen < commands[1].gen
    <3> SUFFICES ASSUME NEW i \in 1 .. Len(Stream) PROVE Stream[i].gen < commands[1].gen
      OBVIOUS
    <3>1. Stream # <<>>
      BY <1>n
    <3>2. task.phase # "stopped" /\ Stream[i].gen <= task.gen
      BY <3>1 DEF GensInOrder
    <3>3. task.gen < commands[1].gen
      BY <2>2, <3>2 DEF CommandsInOrder
    <3> QED BY <1>n, <2>2, <3>2, <3>3
  <2>5. \A i \in 1 .. Len(Stream') : Stream'[i].kind = "snapshot" =>
          /\ i \in 1 .. Len(Stream) /\ Stream'[i] = Stream[i]
          /\ \A j \in 1 .. i - 1 : Stream'[j] = Stream[j]
    BY <1>n, <2>1
  <2> QED BY <2>1, <2>3, <2>4, <2>5 DEF OneImage
<1>7. CASE Hears
  <2>1. /\ Stream # <<>> /\ task' = task /\ Len(Stream') = Len(Stream) - 1
        /\ 1 \in 1 .. Len(Stream)
        /\ \A i \in 1 .. Len(Stream) - 1 : Stream'[i] = Stream[i + 1]
    BY <1>n, <1>7 DEF Hears
  <2>2. \A i \in 1 .. Len(Stream') :
          /\ i + 1 \in 1 .. Len(Stream) /\ Stream'[i] = Stream[i + 1]
          /\ \A j \in 1 .. i - 1 : j + 1 \in 1 .. (i + 1) - 1 /\ Stream'[j] = Stream[j + 1]
          /\ 1 \in 1 .. (i + 1) - 1
    BY <1>n, <2>1
  <2>3. \/ reader'.opened = reader.opened
        \/ Stream[1].kind = "snapshot" /\ reader'.opened = Stream[1].gen
    BY <1>7, HearsFields
  <2>4. ASSUME NEW i \in 1 .. Len(Stream'), Stream'[i].kind = "snapshot"
        PROVE /\ reader'.opened < Stream'[i].gen
              /\ \A j \in 1 .. i - 1 : Stream'[j].kind = "snapshot" =>
                   Stream'[j].gen < Stream'[i].gen
              /\ task.phase \in {"connecting", "fetching", "bridging"} => Stream'[i].gen < task.gen
    <3>1. i + 1 \in 1 .. Len(Stream) /\ Stream'[i] = Stream[i + 1]
          /\ Stream[i + 1].kind = "snapshot"
      BY <2>2, <2>4
    <3>2. reader'.opened < Stream[i + 1].gen
      BY <2>2, <2>3, <3>1 DEF OneImage
    <3>3. \A j \in 1 .. i - 1 : Stream'[j].kind = "snapshot" => Stream'[j].gen < Stream[i + 1].gen
      BY <2>2, <3>1 DEF OneImage
    <3> QED BY <3>1, <3>2, <3>3 DEF OneImage
  <2>5. task.phase \in {"connecting", "fetching", "bridging"} => reader'.opened < task.gen
    BY <2>1, <2>3 DEF OneImage
  <2> QED BY <2>1, <2>4, <2>5 DEF OneImage
<1>8. CASE Detaches
  <2>1. Len(Stream') = 0 /\ task'.phase = "stopped"
    BY <1>8 DEF Detaches
  <2> QED BY <2>1 DEF OneImage
<1>9. CASE Asks
  <2>1. Stream' = Stream /\ task' = task
    BY <1>9 DEF Asks
  <2>2. reader'.opened = reader.opened
    <3>1. reader \in Readers /\ MarkGap(reader) \in Readers
      BY ReaderTypes DEF Types
    <3> QED BY <1>9, <3>1, ReaderFields DEF Asks
  <2> QED BY <2>1, <2>2 DEF OneImage
<1> QED BY <1>1, <1>2, <1>3, <1>4, <1>5, <1>6, <1>7, <1>8, <1>9, StepShape

(* Where nothing said is for the reader, there is nothing to hear. *)
LEMMA NoneCounted ==
  ASSUME Types, CommandsInOrder, GensInOrder, commands # <<>>
  PROVE \A i \in 1 .. Len(Stream) : Stream[i].gen < reader.floor /\ Stream[i].gen < commands[1].gen
<1> SUFFICES ASSUME NEW i \in 1 .. Len(Stream)
             PROVE Stream[i].gen < reader.floor /\ Stream[i].gen < commands[1].gen
  OBVIOUS
<1>1. /\ Len(commands) \in 1 .. Len(commands) /\ 1 \in 1 .. Len(commands) /\ Stream # <<>>
      /\ Stream[i].gen \in Nat /\ task.gen \in Nat /\ reader.floor \in Nat
      /\ commands[1].gen \in Nat
  BY Numbers
<1>2. task.phase # "stopped" /\ Stream[i].gen <= task.gen
  BY <1>1 DEF GensInOrder
<1>3. task.gen < commands[Len(commands)].gen /\ task.gen < commands[1].gen
      /\ reader.floor = commands[Len(commands)].gen
  BY <1>1, <1>2 DEF CommandsInOrder
<1> QED BY <1>1, <1>2, <1>3

(* What the reader passes over, it passes over for its generation. *)
LEMMA UnheardIsUncounted ==
  ASSUME Types, CommandsInOrder, GensInOrder, Stream # <<>>
  PROVE Heard(Stream[1]) <=> Counted(Stream[1])
<1>1. 1 \in 1 .. Len(Stream) /\ task.phase # "stopped"
  BY Numbers DEF GensInOrder
<1>2. reader.enabled /\ Stream[1].gen >= reader.latest
  BY <1>1, Numbers DEF CommandsInOrder, GensInOrder
<1> QED BY <1>2 DEF Heard, Counted

(* Between two images an end is still heard. *)
LEMMA EndsStep ==
  ASSUME Types, WholeEvents, TrueBooks, CommandsInOrder, GensInOrder, OneImage, EndsBetween,
         [Next]_vars
  PROVE EndsBetween'
<1>n. /\ Len(Stream) \in Nat /\ task.gen \in Nat /\ reader.floor \in Nat
      /\ \A i \in 1 .. Len(Stream) : Stream[i].gen \in Nat
      /\ (Stream = <<>>) = (Len(Stream) = 0)
  BY Numbers
<1>c. Counted(Stream[1])' <=> Stream'[1].gen >= reader'.floor
  BY DEF Counted
<1>1. CASE Quiet
  <2>1. /\ Stream' = Stream /\ reader' = reader
        /\ task'.phase \in Unshown => task.phase \in Unshown
    BY <1>1 DEF Quiet, Kept, Opening, Unshown
  <2> QED BY <2>1 DEF EndsBetween, Counted
<1>2. CASE SaysEnd
  <2>1. /\ reader' = reader /\ task.phase # "stopped"
        /\ \A i \in Len(Stream) + 1 .. Len(Stream') : Ended(Stream'[i]) /\ Stream'[i].gen = task.gen
    BY <1>2 DEF SaysEnd, Kept, Opening
  <2>2. PICK n \in 1 .. 3 : Longer(n)
    BY <1>2 DEF SaysEnd
  <2>3. /\ Len(Stream') = Len(Stream) + n
        /\ \A i \in 1 .. Len(Stream) : Stream'[i] = Stream[i]
    BY <2>2 DEF Longer
  <2>4. /\ Len(Stream) + 1 \in 1 .. Len(Stream') /\ Ended(Stream'[Len(Stream) + 1])
        /\ Stream'[Len(Stream) + 1].gen = task.gen
    BY <1>n, <2>1, <2>3
  <2>5. ASSUME NEW i \in 1 .. Len(Stream'), Stream'[i].kind = "snapshot"
        PROVE /\ i \in 1 .. Len(Stream) /\ Stream'[i] = Stream[i]
              /\ \A j \in 1 .. i - 1 : j \in 1 .. Len(Stream) /\ Stream'[j] = Stream[j]
              /\ Len(Stream) + 1 \in i + 1 .. Len(Stream')
    <3>1. i \in 1 .. Len(Stream)
      BY <1>n, <2>1, <2>3, <2>5 DEF Ended
    <3> QED BY <1>n, <2>3, <3>1
  <2>6. ASSUME NEW i \in 1 .. Len(Stream'), Stream'[i].kind = "snapshot",
               Stream'[i].gen >= reader.floor
        PROVE /\ reader.synced =>
                   \E k \in 1 .. i - 1 : Ended(Stream'[k]) /\ Stream'[k].gen >= reader.floor
              /\ \A j \in 1 .. i - 1 :
                   Stream'[j].kind = "snapshot" /\ Stream'[j].gen >= reader.floor =>
                     \E k \in j + 1 .. i - 1 : Ended(Stream'[k]) /\ Stream'[k].gen >= reader.floor
              /\ \E k \in i + 1 .. Len(Stream') : Ended(Stream'[k])
    <3>1. /\ i \in 1 .. Len(Stream) /\ Stream'[i] = Stream[i]
          /\ \A j \in 1 .. i - 1 : j \in 1 .. Len(Stream) /\ Stream'[j] = Stream[j]
      BY <2>5, <2>6
    <3>2. reader.synced =>
            \E k \in 1 .. i - 1 : Ended(Stream[k]) /\ Stream[k].gen >= reader.floor
      BY <2>6, <3>1 DEF EndsBetween, Counted
    <3>3. \A j \in 1 .. i - 1 :
            Stream[j].kind = "snapshot" /\ Stream[j].gen >= reader.floor =>
              \E k \in j + 1 .. i - 1 : Ended(Stream[k]) /\ Stream[k].gen >= reader.floor
      BY <2>6, <3>1 DEF EndsBetween, Counted
    <3>4. \A j \in 1 .. i - 1 : \A k \in j + 1 .. i - 1 : k \in 1 .. i - 1
      BY <1>n
    <3>5. \E k \in i + 1 .. Len(Stream') : Ended(Stream'[k])
      BY <2>4, <2>5, <2>6
    <3> QED BY <3>1, <3>2, <3>3, <3>4, <3>5
  <2>7. reader.synced => task.gen >= reader.floor
    BY <2>1 DEF CommandsInOrder, GensInOrder
  <2>8. reader.synced =>
          \E k \in 1 .. Len(Stream') : Ended(Stream'[k]) /\ Stream'[k].gen >= reader.floor
    BY <2>4, <2>7
  <2> QED BY <2>1, <2>6, <2>8 DEF EndsBetween, Counted
<1>3. CASE SaysImage
  <2>1. /\ reader' = reader /\ task.phase = "bridging" /\ task'.phase = "live"
        /\ Longer(2) /\ Stream'[Len(Stream) + 1].gen = task.gen
        /\ Stream'[Len(Stream) + 2].kind = "update"
    BY <1>3 DEF SaysImage, Kept
  <2>2. /\ Len(Stream') = Len(Stream) + 2
        /\ \A i \in 1 .. Len(Stream) : Stream'[i] = Stream[i]
    BY <2>1 DEF Longer
  <2>3. ASSUME NEW i \in 1 .. Len(Stream'), Stream'[i].kind = "snapshot",
               Stream'[i].gen >= reader.floor
        PROVE /\ reader.synced =>
                   \E k \in 1 .. i - 1 : Ended(Stream'[k]) /\ Stream'[k].gen >= reader.floor
              /\ \A j \in 1 .. i - 1 :
                   Stream'[j].kind = "snapshot" /\ Stream'[j].gen >= reader.floor =>
                     \E k \in j + 1 .. i - 1 : Ended(Stream'[k]) /\ Stream'[k].gen >= reader.floor
    <3>1. CASE i \in 1 .. Len(Stream)
      <4>1. /\ Stream'[i] = Stream[i]
            /\ \A j \in 1 .. i - 1 : j \in 1 .. Len(Stream) /\ Stream'[j] = Stream[j]
        BY <1>n, <2>2, <3>1
      <4>2. reader.synced =>
              \E k \in 1 .. i - 1 : Ended(Stream[k]) /\ Stream[k].gen >= reader.floor
        BY <2>3, <3>1, <4>1 DEF EndsBetween, Counted
      <4>3. \A j \in 1 .. i - 1 :
              Stream[j].kind = "snapshot" /\ Stream[j].gen >= reader.floor =>
                \E k \in j + 1 .. i - 1 : Ended(Stream[k]) /\ Stream[k].gen >= reader.floor
        BY <2>3, <3>1, <4>1 DEF EndsBetween, Counted
      <4>4. \A j \in 1 .. i - 1 : \A k \in j + 1 .. i - 1 : k \in 1 .. i - 1
        BY <1>n
      <4> QED BY <4>1, <4>2, <4>3, <4>4
    <3>2. CASE i = Len(Stream) + 1
      <4>1. i - 1 = Len(Stream)
        BY <1>n, <3>2
      <4>2. reader.synced =>
              \E k \in 1 .. Len(Stream) : Ended(Stream[k]) /\ Stream[k].gen >= reader.floor
        BY <2>1 DEF EndsBetween, Counted, Unshown
      <4>3. ASSUME NEW j \in 1 .. Len(Stream), Stream[j].kind = "snapshot",
                   Stream[j].gen >= reader.floor
            PROVE \E k \in j + 1 .. Len(Stream) : Ended(Stream[k]) /\ Stream[k].gen >= reader.floor
        <5>1. PICK k \in j + 1 .. Len(Stream) : Ended(Stream[k])
          BY <2>1, <4>3 DEF EndsBetween, Counted, Unshown
        <5>2. k \in 1 .. Len(Stream) /\ j < k
          BY <1>n, <5>1
        <5>3. Stream[j].gen <= Stream[k].gen
          BY <5>2 DEF GensInOrder
        <5>4. Stream[k].gen >= reader.floor
          BY <1>n, <4>3, <5>2, <5>3
        <5> QED BY <5>1, <5>4
      <4>4. \A j \in 1 .. Len(Stream) : \A k \in j + 1 .. Len(Stream) : k \in 1 .. Len(Stream)
        BY <1>n
      <4>5. /\ reader.synced =>
                 \E k \in 1 .. Len(Stream) : Ended(Stream'[k]) /\ Stream'[k].gen >= reader.floor
            /\ \A j \in 1 .. Len(Stream) :
                 Stream'[j].kind = "snapshot" /\ Stream'[j].gen >= reader.floor =>
                   \E k \in j + 1 .. Len(Stream) :
                     Ended(Stream'[k]) /\ Stream'[k].gen >= reader.floor
        BY <2>2, <4>2, <4>3, <4>4
      <4> QED BY <4>1, <4>5
    <3>3. i # Len(Stream) + 2
      BY <2>1, <2>3
    <3> QED BY <1>n, <2>2, <3>1, <3>2, <3>3
  <2>4. task'.phase \notin Unshown
    BY <2>1 DEF Unshown
  <2> QED BY <2>1, <2>3, <2>4 DEF EndsBetween, Counted
<1>s. ASSUME reader' = reader, Longer(1), Stream'[Len(Stream) + 1].kind # "snapshot",
             task'.phase \in Unshown => task.phase \in Unshown
      PROVE EndsBetween'
  <2>1. /\ Len(Stream') = Len(Stream) + 1
        /\ \A i \in 1 .. Len(Stream) : Stream'[i] = Stream[i]
    BY <1>s DEF Longer
  <2>2. \A i \in 1 .. Len(Stream') : Stream'[i].kind = "snapshot" => i \in 1 .. Len(Stream)
    BY <1>n, <1>s, <2>1
  <2>3. ASSUME NEW i \in 1 .. Len(Stream), Stream[i].kind = "snapshot",
               Stream[i].gen >= reader.floor
        PROVE /\ reader.synced =>
                   \E k \in 1 .. i - 1 : Ended(Stream'[k]) /\ Stream'[k].gen >= reader.floor
              /\ \A j \in 1 .. i - 1 :
                   Stream'[j].kind = "snapshot" /\ Stream'[j].gen >= reader.floor =>
                     \E k \in j + 1 .. i - 1 : Ended(Stream'[k]) /\ Stream'[k].gen >= reader.floor
              /\ task.phase \in Unshown => \E k \in i + 1 .. Len(Stream') : Ended(Stream'[k])
    <3>1. \A j \in 1 .. i - 1 : j \in 1 .. Len(Stream) /\ Stream'[j] = Stream[j]
      BY <1>n, <2>1
    <3>2. reader.synced =>
            \E k \in 1 .. i - 1 : Ended(Stream[k]) /\ Stream[k].gen >= reader.floor
      BY <2>3 DEF EndsBetween, Counted
    <3>3. \A j \in 1 .. i - 1 :
            Stream[j].kind = "snapshot" /\ Stream[j].gen >= reader.floor =>
              \E k \in j + 1 .. i - 1 : Ended(Stream[k]) /\ Stream[k].gen >= reader.floor
      BY <2>3 DEF EndsBetween, Counted
    <3>4. \A j \in 1 .. i - 1 : \A k \in j + 1 .. i - 1 : k \in 1 .. i - 1
      BY <1>n
    <3>5. task.phase \in Unshown => \E k \in i + 1 .. Len(Stream) : Ended(Stream[k])
      BY <2>3 DEF EndsBetween, Counted
    <3>6. \A k \in i + 1 .. Len(Stream) :
            k \in 1 .. Len(Stream) /\ k \in i + 1 .. Len(Stream')
      BY <1>n, <2>1
    <3>7. task.phase \in Unshown => \E k \in i + 1 .. Len(Stream') : Ended(Stream'[k])
      BY <2>1, <3>5, <3>6
    <3> QED BY <3>1, <3>2, <3>3, <3>4, <3>7
  <2>4. reader.synced /\ task.phase \in Unshown =>
          \E k \in 1 .. Len(Stream') : Ended(Stream'[k]) /\ Stream'[k].gen >= reader.floor
    <3>1. reader.synced /\ task.phase \in Unshown =>
            \E k \in 1 .. Len(Stream) : Ended(Stream[k]) /\ Stream[k].gen >= reader.floor
      BY DEF EndsBetween, Counted
    <3>2. \A k \in 1 .. Len(Stream) : k \in 1 .. Len(Stream')
      BY <1>n, <2>1
    <3> QED BY <2>1, <3>1, <3>2
  <2> QED BY <1>s, <2>1, <2>2, <2>3, <2>4 DEF EndsBetween, Counted
<1>4. CASE SaysUpdate
  BY <1>s, <1>4 DEF SaysUpdate, Kept, Unshown
<1>5. CASE SaysConnecting
  BY <1>s, <1>5 DEF SaysConnecting, Kept, Unshown
<1>6. CASE Starts
  <2>1. /\ commands # <<>> /\ reader' = reader
        /\ Len(Stream') \in 1 .. Len(Stream) + 1
        /\ \A i \in 1 .. Len(Stream') - 1 : Stream'[i] = Stream[i]
        /\ Stream'[Len(Stream')].kind = "connecting"
    BY <1>6 DEF Starts
  <2>2. ~reader.synced
    BY <2>1 DEF CommandsInOrder
  <2>3. ASSUME NEW i \in 1 .. Len(Stream'), Stream'[i].kind = "snapshot"
        PROVE ~(Stream'[i].gen >= reader.floor)
    <3>1. i \in 1 .. Len(Stream) /\ Stream'[i] = Stream[i]
      BY <1>n, <2>1, <2>3
    <3>2. Stream[i].gen < reader.floor
      BY <2>1, <3>1, NoneCounted
    <3> QED BY <1>n, <3>1, <3>2
  <2> QED BY <2>1, <2>2, <2>3 DEF EndsBetween, Counted
<1>8. CASE Detaches
  <2>1. Len(Stream') = 0 /\ task'.phase = "stopped"
    BY <1>8 DEF Detaches
  <2> QED BY <2>1 DEF EndsBetween, Unshown
<1>9. CASE Asks
  <2>1. Stream' = Stream /\ task' = task
    BY <1>9 DEF Asks
  <2>2. CASE reader' = reader
    BY <2>1, <2>2 DEF EndsBetween, Counted
  <2>3. CASE ~reader'.synced /\ reader'.floor = NextGeneration
    <3>1. \A i \in 1 .. Len(Stream) : ~(Stream[i].gen >= NextGeneration)
      <4> SUFFICES ASSUME NEW i \in 1 .. Len(Stream) PROVE ~(Stream[i].gen >= NextGeneration)
        OBVIOUS
      <4>1. Stream[i].gen <= task.gen /\ task.gen < NextGeneration
        BY <1>n DEF GensInOrder
      <4> QED BY <1>n, <4>1, Epochs
    <3> QED BY <2>1, <2>3, <3>1 DEF EndsBetween, Counted
  <2>4. reader' = reader \/ (~reader'.synced /\ reader'.floor = NextGeneration)
    <3>1. reader \in Readers /\ MarkGap(reader) \in Readers /\ (~reader.enabled => ~reader.synced)
      BY ReaderTypes DEF Types, CommandsInOrder
    <3> QED BY <1>9, <3>1, ReaderFields DEF Asks
  <2> QED BY <2>2, <2>3, <2>4
<1>7. CASE Hears
  <2>1. /\ Stream # <<>> /\ task' = task /\ Len(Stream') = Len(Stream) - 1
        /\ 1 \in 1 .. Len(Stream)
        /\ \A i \in 1 .. Len(Stream) - 1 : Stream'[i] = Stream[i + 1]
    BY <1>n, <1>7 DEF Hears
  <2>2. reader'.floor = reader.floor
    BY <1>7, HearsFields
  <2>3. ASSUME NEW a \in Nat, NEW b \in 1 .. Len(Stream'),
               \E k \in a + 1 .. b : k # 1 /\ Ended(Stream[k]) /\ Stream[k].gen >= reader.floor,
               a >= 1
        PROVE \E k \in a .. b - 1 : Ended(Stream'[k]) /\ Stream'[k].gen >= reader.floor
    <3>1. PICK k \in a + 1 .. b :
                 k # 1 /\ Ended(Stream[k]) /\ Stream[k].gen >= reader.floor
      BY <2>3
    <3>2. k - 1 \in a .. b - 1 /\ k - 1 \in 1 .. Len(Stream) - 1 /\ (k - 1) + 1 = k
      BY <1>n, <2>1, <2>3
    <3>3. Stream'[k - 1] = Stream[k]
      BY <2>1, <3>2
    <3> QED BY <3>1, <3>2, <3>3
  <2>4. ASSUME NEW i \in 1 .. Len(Stream'), Stream'[i].kind = "snapshot",
               Stream'[i].gen >= reader.floor
        PROVE /\ i + 1 \in 1 .. Len(Stream) /\ Stream'[i] = Stream[i + 1]
              /\ Stream[i + 1].kind = "snapshot" /\ Counted(Stream[i + 1])
    BY <1>n, <2>1, <2>4 DEF Counted
  <2>5. ASSUME NEW i \in 1 .. Len(Stream'), Stream'[i].kind = "snapshot",
               Stream'[i].gen >= reader.floor, reader'.synced
        PROVE \E k \in 1 .. i - 1 : Ended(Stream'[k]) /\ Stream'[k].gen >= reader.floor
    <3>1. /\ i + 1 \in 1 .. Len(Stream) /\ Stream'[i] = Stream[i + 1]
          /\ Stream[i + 1].kind = "snapshot" /\ Counted(Stream[i + 1])
      BY <2>4, <2>5
    <3>2. (i + 1) - 1 = i /\ 1 \in 1 .. i
      BY <1>n, <2>1
    <3>3. \E k \in 1 .. i : k # 1 /\ Ended(Stream[k]) /\ Stream[k].gen >= reader.floor
      <4>1. CASE Stream[1].kind = "snapshot" /\ Heard(Stream[1])
        <5>1. Counted(Stream[1])
          BY <2>1, <4>1, HeardMeansObeyed
        <5>2. \E k \in 1 + 1 .. i : Ended(Stream[k]) /\ Counted(Stream[k])
          BY <3>1, <3>2, <4>1, <5>1 DEF EndsBetween
        <5>3. \A k \in 1 + 1 .. i : k \in 1 .. i /\ k # 1
          BY <1>n
        <5> QED BY <5>2, <5>3 DEF Counted
      <4>2. CASE ~Heard(Stream[1])
        <5>1. reader' = reader /\ ~Counted(Stream[1])
          BY <1>7, <2>1, <4>2, HearsFields, UnheardIsUncounted
        <5>2. \E k \in 1 .. i : Ended(Stream[k]) /\ Counted(Stream[k])
          BY <2>5, <3>1, <3>2, <5>1 DEF EndsBetween
        <5> QED BY <5>1, <5>2 DEF Counted
      <4>3. CASE Heard(Stream[1]) /\ Stream[1].kind # "snapshot"
        <5>1. ~Ended(Stream[1])
          BY <1>7, <2>5, <4>3, HearsFields
        <5>2. Stream[1].kind \in {"update", "connecting"}
          <6>1. Stream[1] \in Messages
            BY <2>1, FirstMessage
          <6> QED BY <4>3, <5>1, <6>1 DEF Messages, Ended
        <5>3. reader.synced
          BY <1>7, <1>n, <2>5, <4>3, <5>2, HearsFields
        <5>4. \E k \in 1 .. i : Ended(Stream[k]) /\ Counted(Stream[k])
          BY <3>1, <3>2, <5>3 DEF EndsBetween
        <5> QED BY <5>1, <5>4 DEF Counted
      <4> QED BY <4>1, <4>2, <4>3
    <3>4. \E k \in 1 + 1 .. i : k # 1 /\ Ended(Stream[k]) /\ Stream[k].gen >= reader.floor
      <4>1. \A k \in 1 .. i : k # 1 => k \in 1 + 1 .. i
        BY <1>n
      <4> QED BY <3>3, <4>1
    <3>5. 1 \in Nat /\ 1 >= 1
      OBVIOUS
    <3> QED BY <2>3, <3>4, <3>5
  <2>6. ASSUME NEW i \in 1 .. Len(Stream'), Stream'[i].kind = "snapshot",
               Stream'[i].gen >= reader.floor,
               NEW j \in 1 .. i - 1, Stream'[j].kind = "snapshot",
               Stream'[j].gen >= reader.floor
        PROVE \E k \in j + 1 .. i - 1 : Ended(Stream'[k]) /\ Stream'[k].gen >= reader.floor
    <3>1. /\ i + 1 \in 1 .. Len(Stream) /\ Stream[i + 1].kind = "snapshot"
          /\ Counted(Stream[i + 1])
      BY <2>4, <2>6
    <3>2. /\ j + 1 \in 1 .. Len(Stream) /\ Stream[j + 1].kind = "snapshot"
          /\ Counted(Stream[j + 1])
      BY <1>n, <2>1, <2>4, <2>6
    <3>3. j + 1 \in 1 .. (i + 1) - 1 /\ (i + 1) - 1 = i
      BY <1>n, <2>1
    <3>4. \E k \in (j + 1) + 1 .. i : Ended(Stream[k]) /\ Counted(Stream[k])
      BY <3>1, <3>2, <3>3 DEF EndsBetween
    <3>5. \A k \in (j + 1) + 1 .. i : k # 1
      BY <1>n
    <3>6. \E k \in (j + 1) + 1 .. i : k # 1 /\ Ended(Stream[k]) /\ Stream[k].gen >= reader.floor
      BY <3>4, <3>5 DEF Counted
    <3>7. j + 1 \in Nat /\ j + 1 >= 1
      BY <1>n
    <3> QED BY <2>3, <3>6, <3>7
  <2>7. ASSUME NEW i \in 1 .. Len(Stream'), Stream'[i].kind = "snapshot",
               Stream'[i].gen >= reader.floor, task.phase \in Unshown
        PROVE \E k \in i + 1 .. Len(Stream') : Ended(Stream'[k])
    <3>1. /\ i + 1 \in 1 .. Len(Stream) /\ Stream[i + 1].kind = "snapshot"
          /\ Counted(Stream[i + 1])
      BY <2>4, <2>7
    <3>2. PICK k \in (i + 1) + 1 .. Len(Stream) : Ended(Stream[k])
      BY <2>7, <3>1 DEF EndsBetween
    <3>3. k - 1 \in i + 1 .. Len(Stream') /\ k - 1 \in 1 .. Len(Stream) - 1 /\ (k - 1) + 1 = k
      BY <1>n, <2>1
    <3>4. Stream'[k - 1] = Stream[k]
      BY <2>1, <3>3
    <3> QED BY <3>2, <3>3, <3>4
  <2>8. ASSUME reader'.synced, task.phase \in Unshown
        PROVE \E k \in 1 .. Len(Stream') : Ended(Stream'[k]) /\ Stream'[k].gen >= reader.floor
    <3>1. \E k \in 1 .. Len(Stream) : k # 1 /\ Ended(Stream[k]) /\ Stream[k].gen >= reader.floor
      <4>1. CASE Stream[1].kind = "snapshot" /\ Heard(Stream[1])
        <5>1. Counted(Stream[1])
          BY <2>1, <4>1, HeardMeansObeyed
        <5>2. PICK k \in 1 + 1 .. Len(Stream) : Ended(Stream[k])
          BY <2>1, <2>8, <4>1, <5>1 DEF EndsBetween
        <5>3. k \in 1 .. Len(Stream) /\ k # 1 /\ 1 < k
          BY <1>n
        <5>4. Stream[1].gen <= Stream[k].gen
          BY <2>1, <5>3 DEF GensInOrder
        <5>5. Stream[k].gen >= reader.floor
          BY <1>n, <2>1, <5>1, <5>3, <5>4 DEF Counted
        <5> QED BY <5>2, <5>3, <5>5
      <4>2. CASE ~Heard(Stream[1])
        <5>1. reader' = reader /\ ~Counted(Stream[1])
          BY <1>7, <2>1, <4>2, HearsFields, UnheardIsUncounted
        <5>2. \E k \in 1 .. Len(Stream) : Ended(Stream[k]) /\ Counted(Stream[k])
          BY <2>8, <5>1 DEF EndsBetween
        <5> QED BY <5>1, <5>2 DEF Counted
      <4>3. CASE Heard(Stream[1]) /\ Stream[1].kind # "snapshot"
        <5>1. ~Ended(Stream[1])
          BY <1>7, <2>8, <4>3, HearsFields
        <5>2. Stream[1].kind \in {"update", "connecting"}
          <6>1. Stream[1] \in Messages
            BY <2>1, FirstMessage
          <6> QED BY <4>3, <5>1, <6>1 DEF Messages, Ended
        <5>3. reader.synced
          BY <1>7, <1>n, <2>8, <4>3, <5>2, HearsFields
        <5>4. \E k \in 1 .. Len(Stream) : Ended(Stream[k]) /\ Counted(Stream[k])
          BY <2>8, <5>3 DEF EndsBetween
        <5> QED BY <5>1, <5>4 DEF Counted
      <4> QED BY <4>1, <4>2, <4>3
    <3>2. PICK k \in 1 .. Len(Stream) :
                 k # 1 /\ Ended(Stream[k]) /\ Stream[k].gen >= reader.floor
      BY <3>1
    <3>3. k - 1 \in 1 .. Len(Stream') /\ k - 1 \in 1 .. Len(Stream) - 1 /\ (k - 1) + 1 = k
      BY <1>n, <2>1, <3>2
    <3>4. Stream'[k - 1] = Stream[k]
      BY <2>1, <3>3
    <3> QED BY <3>2, <3>3, <3>4
  <2> QED BY <2>1, <2>2, <2>5, <2>6, <2>7, <2>8 DEF EndsBetween, Counted
<1> QED BY <1>1, <1>2, <1>3, <1>4, <1>5, <1>6, <1>7, <1>8, <1>9, StepShape

(* Every update still continues what was said just before it. *)
LEMMA ChainedStep ==
  ASSUME Types, WholeEvents, TrueBooks, CommandsInOrder, GensInOrder, OneImage, Chained, LiveTail,
         [Next]_vars
  PROVE Chained'
<1>n. /\ Len(Stream) \in Nat /\ task.gen \in Nat /\ reader.floor \in Nat
      /\ \A i \in 1 .. Len(Stream) : Stream[i].gen \in Nat
      /\ (Stream = <<>>) = (Len(Stream) = 0)
  BY Numbers
<1>1. CASE Quiet
  <2>1. Stream' = Stream /\ reader' = reader
    BY <1>1 DEF Quiet, Kept
  <2> QED BY <2>1 DEF Chained, Counted
<1>o. ASSUME reader' = reader,
             NEW i \in 1 .. Len(Stream), Stream[i].kind = "update",
             Stream'[i] = Stream[i], i # 1 => Stream'[i - 1] = Stream[i - 1]
      PROVE IF i = 1
            THEN Stream'[1].gen >= reader'.floor =>
                   \/ ~reader'.synced /\ reader'.refused = Stream'[1].gen
                   \/ /\ reader'.synced /\ reader'.opened = Stream'[1].gen
                      /\ Continues(reader'.book.id, Stream'[1])
            ELSE /\ Stream'[i - 1].kind \in {"snapshot", "update"}
                 /\ Stream'[i - 1].gen = Stream'[i].gen
                 /\ Continues(Reached(Stream'[i - 1]), Stream'[i])
  BY <1>o DEF Chained, Counted
<1>s. ASSUME reader' = reader, NEW n \in 1 .. 3, Longer(n),
             \A i \in Len(Stream) + 1 .. Len(Stream') : Stream'[i].kind # "update"
      PROVE Chained'
  <2>1. \A i \in 1 .. Len(Stream') : Stream'[i].kind = "update" =>
          /\ i \in 1 .. Len(Stream) /\ Stream'[i] = Stream[i]
          /\ i # 1 => Stream'[i - 1] = Stream[i - 1]
    BY <1>n, <1>s DEF Longer
  <2> QED BY <1>s, <1>o, <2>1 DEF Chained, Counted
<1>2. CASE SaysEnd
  <2>1. /\ reader' = reader
        /\ \A i \in Len(Stream) + 1 .. Len(Stream') : Stream'[i].kind # "update"
    BY <1>2 DEF SaysEnd, Kept, Ended
  <2>2. PICK n \in 1 .. 3 : Longer(n)
    BY <1>2 DEF SaysEnd
  <2> QED BY <1>s, <2>1, <2>2
<1>3. CASE SaysImage
  <2> DEFINE s == Stream'[Len(Stream) + 1]
             u == Stream'[Len(Stream) + 2]
  <2>1. /\ reader' = reader /\ Longer(2)
        /\ s.kind = "snapshot" /\ s.gen = task.gen
        /\ u.kind = "update" /\ u.gen = task.gen /\ Continues(s.id, u)
    BY <1>3 DEF SaysImage, Kept
  <2>2. ASSUME NEW i \in 1 .. Len(Stream'), Stream'[i].kind = "update"
        PROVE IF i = 1
              THEN Stream'[1].gen >= reader'.floor =>
                     \/ ~reader'.synced /\ reader'.refused = Stream'[1].gen
                     \/ /\ reader'.synced /\ reader'.opened = Stream'[1].gen
                        /\ Continues(reader'.book.id, Stream'[1])
              ELSE /\ Stream'[i - 1].kind \in {"snapshot", "update"}
                   /\ Stream'[i - 1].gen = Stream'[i].gen
                   /\ Continues(Reached(Stream'[i - 1]), Stream'[i])
    <3>1. CASE i \in 1 .. Len(Stream)
      <4>1. Stream'[i] = Stream[i] /\ (i # 1 => Stream'[i - 1] = Stream[i - 1])
        BY <1>n, <2>1, <3>1 DEF Longer
      <4> QED BY <1>o, <2>1, <2>2, <3>1, <4>1
    <3>2. i # Len(Stream) + 1
      BY <2>1, <2>2
    <3>3. CASE i = Len(Stream) + 2
      <4>1. i # 1 /\ i - 1 = Len(Stream) + 1
        BY <1>n, <3>3
      <4>2. Stream'[i] = u /\ Stream'[i - 1] = s
        BY <3>3, <4>1
      <4>3. Reached(s) = s.id
        BY <2>1 DEF Reached
      <4> HIDE DEF s, u
      <4> QED BY <2>1, <4>1, <4>2, <4>3
    <3>4. i \in 1 .. Len(Stream) \/ i = Len(Stream) + 1 \/ i = Len(Stream) + 2
      BY <1>n, <2>1 DEF Longer
    <3> QED BY <3>1, <3>2, <3>3, <3>4
  <2> QED BY <2>2 DEF Chained, Counted
<1>4. CASE SaysUpdate
  <2> DEFINE u == Stream'[Len(Stream) + 1]
  <2>1. /\ reader' = reader /\ Longer(1) /\ task.phase = "live"
        /\ u.kind = "update" /\ u.gen = task.gen /\ Continues(task.book.id, u)
    BY <1>4 DEF SaysUpdate, Kept
  <2>2. ASSUME NEW i \in 1 .. Len(Stream'), Stream'[i].kind = "update"
        PROVE IF i = 1
              THEN Stream'[1].gen >= reader'.floor =>
                     \/ ~reader'.synced /\ reader'.refused = Stream'[1].gen
                     \/ /\ reader'.synced /\ reader'.opened = Stream'[1].gen
                        /\ Continues(reader'.book.id, Stream'[1])
              ELSE /\ Stream'[i - 1].kind \in {"snapshot", "update"}
                   /\ Stream'[i - 1].gen = Stream'[i].gen
                   /\ Continues(Reached(Stream'[i - 1]), Stream'[i])
    <3>1. CASE i \in 1 .. Len(Stream)
      <4>1. Stream'[i] = Stream[i] /\ (i # 1 => Stream'[i - 1] = Stream[i - 1])
        BY <1>n, <2>1, <3>1 DEF Longer
      <4> QED BY <1>o, <2>1, <2>2, <3>1, <4>1
    <3>2. CASE i = Len(Stream) + 1 /\ Stream # <<>>
      <4>1. i # 1 /\ i - 1 = Len(Stream) /\ Stream'[i] = u /\ Stream'[i - 1] = Stream[Len(Stream)]
        BY <1>n, <2>1, <3>2 DEF Longer
      <4>2. /\ Stream[Len(Stream)].kind = "update" /\ Stream[Len(Stream)].gen = task.gen
            /\ Stream[Len(Stream)].event.last = task.book.id
        BY <2>1, <3>2 DEF LiveTail
      <4>3. Reached(Stream[Len(Stream)]) = task.book.id
        BY <4>2 DEF Reached
      <4> HIDE DEF u
      <4> QED BY <2>1, <4>1, <4>2, <4>3
    <3>3. CASE i = Len(Stream) + 1 /\ Stream = <<>>
      <4>1. i = 1 /\ Stream'[1] = u
        BY <1>n, <3>3
      <4>2. ASSUME u.gen >= reader.floor
            PROVE \/ ~reader.synced /\ reader.refused = task.gen
                  \/ reader.synced /\ reader.opened = task.gen /\ reader.book.id = task.book.id
        <5>1. commands = <<>>
          <6> SUFFICES ASSUME commands # <<>> PROVE FALSE
            OBVIOUS
          <6>1. Len(commands) \in 1 .. Len(commands) /\ commands[Len(commands)].gen \in Nat
            BY Numbers
          <6>2. /\ reader.floor = commands[Len(commands)].gen
                /\ task.gen < commands[Len(commands)].gen
            BY <2>1, <6>1 DEF CommandsInOrder
          <6> QED BY <1>n, <2>1, <4>2, <6>1, <6>2
        <5> QED BY <2>1, <3>3, <5>1 DEF LiveTail
      <4> HIDE DEF u
      <4> QED BY <2>1, <4>1, <4>2
    <3> QED BY <1>n, <2>1, <3>1, <3>2, <3>3 DEF Longer
  <2> QED BY <2>2 DEF Chained, Counted
<1>5. CASE SaysConnecting
  <2>1. reader' = reader /\ Longer(1) /\ Stream'[Len(Stream) + 1].kind = "connecting"
    BY <1>5 DEF SaysConnecting, Kept
  <2>2. \A i \in Len(Stream) + 1 .. Len(Stream') : Stream'[i].kind # "update"
    BY <1>n, <2>1 DEF Longer
  <2> QED BY <1>s, <2>1, <2>2
<1>6. CASE Starts
  <2>1. /\ reader' = reader
        /\ Len(Stream') \in 1 .. Len(Stream) + 1
        /\ \A i \in 1 .. Len(Stream') - 1 : Stream'[i] = Stream[i]
        /\ Stream'[Len(Stream')].kind = "connecting"
    BY <1>6 DEF Starts
  <2>2. \A i \in 1 .. Len(Stream') : Stream'[i].kind = "update" =>
          /\ i \in 1 .. Len(Stream) /\ Stream'[i] = Stream[i]
          /\ i # 1 => Stream'[i - 1] = Stream[i - 1]
    BY <1>n, <2>1
  <2> QED BY <1>o, <2>1, <2>2 DEF Chained, Counted
<1>7. CASE Hears
  <2>1. /\ Stream # <<>> /\ Len(Stream') = Len(Stream) - 1 /\ 1 \in 1 .. Len(Stream)
        /\ \A i \in 1 .. Len(Stream) - 1 : Stream'[i] = Stream[i + 1]
    BY <1>n, <1>7 DEF Hears
  <2>2. reader'.floor = reader.floor
    BY <1>7, HearsFields
  <2>3. ASSUME NEW i \in 1 .. Len(Stream'), Stream'[i].kind = "update", i # 1
        PROVE /\ Stream'[i - 1].kind \in {"snapshot", "update"}
              /\ Stream'[i - 1].gen = Stream'[i].gen
              /\ Continues(Reached(Stream'[i - 1]), Stream'[i])
    <3>1. /\ i + 1 \in 1 .. Len(Stream) /\ i + 1 # 1 /\ (i + 1) - 1 = i
          /\ Stream'[i] = Stream[i + 1] /\ Stream'[i - 1] = Stream[i]
      <4>1. i - 1 \in 1 .. Len(Stream) - 1 /\ (i - 1) + 1 = i /\ i \in 1 .. Len(Stream) - 1
        BY <1>n, <2>1, <2>3
      <4> QED BY <1>n, <2>1, <4>1
    <3> QED BY <2>3, <3>1 DEF Chained
  <2>4. ASSUME 1 \in 1 .. Len(Stream'), Stream'[1].kind = "update",
               Stream'[1].gen >= reader.floor
        PROVE \/ ~reader'.synced /\ reader'.refused = Stream'[1].gen
              \/ /\ reader'.synced /\ reader'.opened = Stream'[1].gen
                 /\ Continues(reader'.book.id, Stream'[1])
    <3> DEFINE m == Stream[1]
               u == Stream[2]
    <3>1. Stream'[1] = u /\ 2 \in 1 .. Len(Stream)
      BY <1>n, <2>1, <2>4
    <3>2. m.kind \in {"snapshot", "update"} /\ m.gen = u.gen /\ Continues(Reached(m), u)
      BY <2>4, <3>1 DEF Chained
    <3>3. Counted(m) /\ Heard(m)
      BY <2>1, <2>4, <3>1, <3>2, UnheardIsUncounted DEF Counted
    <3>r. CASE ~reader'.synced /\ reader'.refused = m.gen
      BY <3>1, <3>2, <3>r
    <3>4. CASE m.kind = "snapshot" /\ ~(~reader'.synced /\ reader'.refused = m.gen)
      <4>1. reader'.opened = m.gen /\ reader'.synced /\ reader'.book.id = m.id
        BY <1>7, <3>3, <3>4, HearsFields
      <4>2. Reached(m) = m.id
        BY <3>4 DEF Reached
      <4> HIDE DEF m, u
      <4> QED BY <3>1, <3>2, <4>1, <4>2
    <3>5. CASE m.kind = "update" /\ ~(~reader'.synced /\ reader'.refused = m.gen)
      <4>0. ~(~reader.synced /\ reader.refused = m.gen)
        BY <1>7, <3>3, <3>5, HearsFields
      <4>1. reader.synced /\ reader.opened = m.gen /\ Continues(reader.book.id, m)
        BY <2>1, <3>3, <3>5, <4>0 DEF Chained
      <4>2. /\ reader'.opened = reader.opened
            /\ \/ m.event.last <= reader.book.id
                  /\ reader'.synced /\ reader'.book = reader.book
               \/ reader'.synced /\ reader'.book.id = m.event.last
               \/ m.event.last > reader.book.id
                  /\ ~Linked(reader.book, m.event, m.link)
        BY <1>7, <3>3, <3>5, <4>1, HearsFields
      <4>3. m.event.last > reader.book.id => Linked(reader.book, m.event, m.link)
        BY <4>1 DEF Continues, Linked
      <4>4. m.event.last \in Int /\ reader.book.id \in Int
        <5>1. m.event \in Events
          BY <2>1, <3>5, FirstMessage
        <5> QED BY <5>1 DEF Events, Types, Readers, Books
      <4>5. reader'.synced /\ reader'.book.id = m.event.last
        BY <4>1, <4>2, <4>3, <4>4 DEF Continues
      <4>6. Reached(m) = m.event.last
        BY <3>5 DEF Reached
      <4> HIDE DEF m, u
      <4> QED BY <3>1, <3>2, <4>1, <4>2, <4>5, <4>6
    <3> QED BY <3>2, <3>4, <3>5, <3>r
  <2> QED BY <2>2, <2>3, <2>4 DEF Chained, Counted
<1>8. CASE Detaches
  <2>1. Len(Stream') = 0
    BY <1>8 DEF Detaches
  <2> QED BY <2>1 DEF Chained
<1>9. CASE Asks
  <2>1. Stream' = Stream
    BY <1>9 DEF Asks
  <2>2. CASE reader' = reader
    BY <2>1, <2>2 DEF Chained, Counted
  <2>3. CASE reader'.floor = NextGeneration
    <3>1. \A i \in 1 .. Len(Stream) : ~(Stream[i].gen >= NextGeneration)
      <4> SUFFICES ASSUME NEW i \in 1 .. Len(Stream) PROVE ~(Stream[i].gen >= NextGeneration)
        OBVIOUS
      <4>1. Stream[i].gen <= task.gen /\ task.gen < NextGeneration
        BY <1>n DEF GensInOrder
      <4> QED BY <1>n, <4>1, Epochs
    <3> QED BY <2>1, <2>3, <3>1 DEF Chained, Counted
  <2>4. reader' = reader \/ reader'.floor = NextGeneration
    <3>1. reader \in Readers /\ MarkGap(reader) \in Readers
      BY ReaderTypes DEF Types
    <3> QED BY <1>9, <3>1, ReaderFields DEF Asks
  <2> QED BY <2>2, <2>3, <2>4
<1> QED BY <1>1, <1>2, <1>3, <1>4, <1>5, <1>6, <1>7, <1>8, <1>9, StepShape

(* A live task's last word is still where its book is. *)
LEMMA TailStep ==
  ASSUME Types, WholeEvents, TrueBooks, CommandsInOrder, GensInOrder, OneImage, Chained, LiveTail,
         [Next]_vars
  PROVE LiveTail'
<1>n. /\ Len(Stream) \in Nat /\ task.gen \in Nat /\ reader.floor \in Nat
      /\ \A i \in 1 .. Len(Stream) : Stream[i].gen \in Nat
      /\ (Stream = <<>>) = (Len(Stream) = 0)
  BY Numbers
<1>1. CASE Quiet
  <2>1. /\ Stream' = Stream /\ reader' = reader /\ commands' = commands /\ task'.gen = task.gen
        /\ task'.phase = "live" => task.phase = "live" /\ task'.book.id = task.book.id
    BY <1>1 DEF Quiet, Kept, Opening
  <2> QED BY <2>1 DEF LiveTail
<1>2. CASE SaysEnd \/ SaysConnecting \/ Starts \/ Detaches
  <2>1. task'.phase # "live"
    BY <1>2 DEF SaysEnd, SaysConnecting, Starts, Detaches, Unshown
  <2> QED BY <2>1 DEF LiveTail
<1>3. CASE SaysImage
  <2>1. Len(Stream') = Len(Stream) + 2 /\ Stream' # <<>>
    BY <1>3, <1>n DEF SaysImage, Longer
  <2> QED BY <1>3, <2>1 DEF SaysImage, LiveTail
<1>4. CASE SaysUpdate
  <2>1. Len(Stream') = Len(Stream) + 1 /\ Stream' # <<>>
    BY <1>4, <1>n DEF SaysUpdate, Longer
  <2> QED BY <1>4, <2>1 DEF SaysUpdate, LiveTail
<1>5. CASE Hears
  <2>1. /\ Stream # <<>> /\ Len(Stream') = Len(Stream) - 1 /\ 1 \in 1 .. Len(Stream)
        /\ \A i \in 1 .. Len(Stream) - 1 : Stream'[i] = Stream[i + 1]
        /\ task' = task /\ commands' = commands
    BY <1>n, <1>5 DEF Hears
  <2>2. SUFFICES ASSUME task.phase = "live" PROVE LiveTail'
    BY <2>1 DEF LiveTail
  <2>3. /\ Stream[Len(Stream)].kind = "update" /\ Stream[Len(Stream)].gen = task.gen
        /\ Stream[Len(Stream)].event.last = task.book.id
    BY <2>1, <2>2 DEF LiveTail
  <2>4. CASE Len(Stream) > 1
    <3>1. Len(Stream') \in 1 .. Len(Stream) - 1 /\ Len(Stream') + 1 = Len(Stream)
      BY <1>n, <2>1, <2>4
    <3>2. Stream'[Len(Stream')] = Stream[Len(Stream)] /\ Stream' # <<>>
      BY <2>1, <3>1
    <3> QED BY <2>1, <2>3, <3>2 DEF LiveTail
  <2>5. CASE Len(Stream) = 1
    <3> DEFINE m == Stream[1]
    <3>1. m.kind = "update" /\ m.gen = task.gen /\ m.event.last = task.book.id
      BY <2>3, <2>5
    <3>2. ASSUME commands = <<>>
          PROVE \/ ~reader'.synced /\ reader'.refused = task.gen
                \/ reader'.synced /\ reader'.opened = task.gen /\ reader'.book.id = task.book.id
      <4>r. SUFFICES ASSUME ~(~reader'.synced /\ reader'.refused = task.gen)
                     PROVE reader'.synced /\ reader'.opened = task.gen
                           /\ reader'.book.id = task.book.id
        OBVIOUS
      <4>1. Counted(m) /\ Heard(m)
        <5>1. task.gen >= reader.floor
          BY <2>2, <3>2 DEF GensInOrder
        <5> QED BY <2>1, <3>1, <5>1, UnheardIsUncounted DEF Counted
      <4>0. ~(~reader.synced /\ reader.refused = m.gen)
        BY <1>5, <3>1, <4>1, <4>r, HearsFields
      <4>2. reader.synced /\ reader.opened = m.gen /\ Continues(reader.book.id, m)
        BY <2>1, <3>1, <4>0, <4>1 DEF Chained
      <4>3. /\ reader'.opened = reader.opened
            /\ \/ m.event.last <= reader.book.id
                  /\ reader'.synced /\ reader'.book = reader.book
               \/ reader'.synced /\ reader'.book.id = m.event.last
               \/ m.event.last > reader.book.id
                  /\ ~Linked(reader.book, m.event, m.link)
        BY <1>5, <3>1, <4>1, <4>2, <4>r, HearsFields
      <4>4. m.event.last > reader.book.id => Linked(reader.book, m.event, m.link)
        BY <4>2 DEF Continues, Linked
      <4>5. m.event.last \in Int /\ reader.book.id \in Int
        <5>1. m.event \in Events
          BY <2>1, <3>1, FirstMessage
        <5> QED BY <5>1 DEF Events, Types, Readers, Books
      <4>6. reader'.synced /\ reader'.book.id = m.event.last
        BY <4>2, <4>3, <4>4, <4>5 DEF Continues
      <4> QED BY <3>1, <4>2, <4>3, <4>6
    <3>3. Stream' = <<>>
      <4>1. Len(Stream') = 0
        BY <2>1, <2>5
      <4>2. Stream' \in Seq(Messages)
        BY TypesStep, StreamType DEF Types, Stream
      <4> QED BY <4>1, <4>2
    <3> QED BY <2>1, <3>2, <3>3 DEF LiveTail
  <2> QED BY <1>n, <2>1, <2>4, <2>5
<1>6. CASE Asks
  <2>1. Stream' = Stream /\ task' = task
    BY <1>6 DEF Asks
  <2>2. commands' = <<>> => reader' = reader /\ commands = <<>>
    <3>1. \A restart \in BOOLEAN :
             Append(commands, [restart |-> restart, gen |-> NextGeneration]) # <<>>
      <4> SUFFICES ASSUME NEW restart \in BOOLEAN
                   PROVE Append(commands, [restart |-> restart, gen |-> NextGeneration]) # <<>>
        OBVIOUS
      <4> DEFINE c == [restart |-> restart, gen |-> NextGeneration]
                 s == Append(commands, c)
      <4>1. c \in Commands /\ commands \in Seq(Commands) /\ Len(commands) \in Nat
        BY Epochs DEF Commands, Types
      <4> HIDE DEF c
      <4>2. s \in Seq(Commands) /\ Len(s) = Len(commands) + 1
        BY <4>1
      <4> HIDE DEF s
      <4>3. s # <<>>
        BY <4>1, <4>2
      <4> QED BY <4>3 DEF s, c
    <3> QED BY <1>6, <3>1 DEF Asks
  <2> QED BY <2>1, <2>2 DEF LiveTail
<1> QED BY <1>1, <1>2, <1>3, <1>4, <1>5, <1>6, StepShape
-----------------------------------------------------------------------------
(* The invariant, from its parts. *)

(* The invariant holds at the start. *)
LEMMA DepthInvInit == Init => DepthInv
<1> SUFFICES ASSUME Init PROVE DepthInv
  OBVIOUS
<1>1. Types
  BY TypesInit
<1>2. /\ venue = <<>> /\ socket = <<>> /\ outbox = <<>> /\ channel = <<>> /\ commands = <<>>
      /\ epoch = 0 /\ task = Stopped /\ reader = Silent
  BY DEF Init
<1>3. Stream = <<>> /\ Len(Stream) = 0 /\ Len(commands) = 0 /\ Len(socket) = 0
  BY <1>2 DEF Stream
<1>4. task.phase = "stopped" /\ task.buffered = <<>>
  BY <1>2, StartTypes
<1>5. /\ ~reader.enabled /\ reader.floor = 0 /\ reader.latest = 0 /\ reader.opened = 0
      /\ ~reader.synced /\ reader.book = NoBook
  BY <1>2, SilentFields
<1>6. NextGeneration > 0
  BY <1>1, Epochs
<1>7. WholeEvents
  BY <1>3, <1>4 DEF WholeEvents
<1>8. TrueBooks
  BY <1>4, <1>5 DEF TrueBooks
<1>9. CommandsInOrder
  BY <1>2, <1>3, <1>4, <1>5 DEF CommandsInOrder
<1>10. GensInOrder
  BY <1>3, <1>4, <1>5, <1>6 DEF GensInOrder
<1>11. OneImage
  BY <1>3, <1>4 DEF OneImage
<1>12. EndsBetween
  BY <1>3, <1>5 DEF EndsBetween
<1>13. Chained
  BY <1>3 DEF Chained
<1>14. LiveTail
  BY <1>4 DEF LiveTail
<1> QED BY <1>1, <1>7, <1>8, <1>9, <1>10, <1>11, <1>12, <1>13, <1>14 DEF DepthInv

(* Every step keeps it. *)
LEMMA DepthInvStep == DepthInv /\ [Next]_vars => DepthInv'
<1> SUFFICES ASSUME DepthInv, [Next]_vars PROVE DepthInv'
  OBVIOUS
<1>1. /\ Types /\ WholeEvents /\ TrueBooks /\ CommandsInOrder /\ GensInOrder
      /\ OneImage /\ EndsBetween /\ Chained /\ LiveTail
  BY DEF DepthInv
<1>2. Types'
  BY <1>1, TypesStep
<1>3. WholeEvents' /\ TrueBooks'
  BY <1>1, <1>2, WholeStep, TrueStep
<1>4. CommandsInOrder' /\ GensInOrder'
  BY <1>1, <1>2, CommandsStep, GensStep
<1>5. OneImage' /\ EndsBetween'
  BY <1>1, OneImageStep, EndsStep
<1>6. Chained' /\ LiveTail'
  BY <1>1, ChainedStep, TailStep
<1> QED BY <1>2, <1>3, <1>4, <1>5, <1>6 DEF DepthInv

(* The inductive invariant of the order-book pipeline: types and limits, *)
(* books that are the venue's, ordered commands and generations, one     *)
(* image per generation with an end heard before the next, and an        *)
(* unbroken chain of updates.                                            *)
THEOREM DepthInvariant == Spec => []DepthInv
BY DepthInvInit, DepthInvStep, PTL DEF Spec

(* The bootstrap buffer (DEFAULT_DEPTH_BUFFER_CAPACITY) and the channel   *)
(* to the tab keep their limits, the attempts of fetch_snapshot are       *)
(* capped, and the tab's history holds a book exactly while it is synced. *)
THEOREM DepthTypeCorrect == Spec => []DepthTypeOK
<1>1. DepthInv => DepthTypeOK
  <2> SUFFICES ASSUME DepthInv PROVE DepthTypeOK
    OBVIOUS
  <2>1. Types /\ TrueBooks
    BY DEF DepthInv
  <2>2. task \in Tasks /\ reader \in Readers /\ venue \in Seq(Levels) /\ Len(venue) <= MaxId
    BY <2>1 DEF Types
  <2>3. reader.synced \in BOOLEAN /\ reader.book \in Books
    BY <2>2 DEF Readers
  <2>4. reader.synced => reader.book # NoBook
    BY <2>1, <2>2, ImageFacts DEF TrueBooks
  <2>5. ~reader.synced => reader.book = NoBook
    BY <2>1 DEF TrueBooks
  <2>6. /\ task.phase \in {"stopped", "connecting", "fetching", "bridging", "live", "ended"}
        /\ task.attempt \in 0 .. MaxAttempts /\ task.book \in Books
    BY <2>2 DEF Tasks
  <2> QED BY <2>1, <2>2, <2>3, <2>4, <2>5, <2>6 DEF DepthTypeOK, Types
<1> QED BY <1>1, DepthInvariant, PTL

(* What LiquidityHistory displays is of the capture the tab last asked *)
(* for: an event of a replaced one, however late handle_depth_event_at *)
(* reads it, never fills the display.                                  *)
THEOREM NothingOfTheOldCaptureShown == Spec => []NothingOfTheOldCapture
<1>1. DepthInv => NothingOfTheOldCapture
  BY DEF DepthInv, CommandsInOrder, GensInOrder, NothingOfTheOldCapture
<1> QED BY <1>1, DepthInvariant, PTL

(* Once the channel, the outbox and the commands are empty, the display   *)
(* and a running capture agree: a book is shown only while the task       *)
(* follows, and it is the task's; a task that follows is shown, unless    *)
(* the history refused a message of its generation for its time.          *)
(* apply_delta has lost nothing else the task applied, and no display     *)
(* outlives its capture's end.                                            *)
THEOREM DisplayAgreesWithTask == Spec => []DisplayMatchesTask
<1>1. DepthInv => DisplayMatchesTask
  <2> SUFFICES ASSUME DepthInv, outbox = <<>>, channel = <<>>, commands = <<>>,
                      task.phase # "stopped"
               PROVE /\ reader.synced => /\ task.phase = "live" /\ reader.book = task.book
                                         /\ reader.opened = task.gen
                     /\ task.phase = "live" => reader.synced \/ reader.refused = task.gen
    BY DEF DisplayMatchesTask
  <2>1. Types /\ TrueBooks /\ EndsBetween /\ LiveTail
    BY DEF DepthInv
  <2>2. Stream = <<>> /\ Len(Stream) = 0
    BY DEF Stream
  <2>3. task \in Tasks /\ reader.synced \in BOOLEAN
    BY <2>1 DEF Types, Readers
  <2>4. task.phase = "live" =>
          \/ ~reader.synced /\ reader.refused = task.gen
          \/ reader.synced /\ reader.opened = task.gen /\ reader.book.id = task.book.id
    BY <2>1, <2>2 DEF LiveTail
  <2>5. task.phase # "live" => task.phase \in Unshown
    BY <2>3 DEF Tasks, Unshown
  <2>6. task.phase \in Unshown => ~reader.synced
    BY <2>1, <2>2 DEF EndsBetween
  <2>7. reader.synced => task.phase = "live"
    BY <2>5, <2>6
  <2>8. reader.synced => reader.book = task.book
    BY <2>1, <2>4, <2>7 DEF TrueBooks
  <2> QED BY <2>3, <2>4, <2>7, <2>8
<1> QED BY <1>1, DepthInvariant, PTL
-----------------------------------------------------------------------------
(* The refinement. *)

(* A book on display is not the lost display. *)
LEMMA ShownNow ==
  ASSUME Types, TrueBooks
  PROVE /\ reader.synced => Shown = reader.book /\ Shown # Lost
        /\ ~reader.synced => Shown = Lost
<1>1. venue \in Seq(Levels) /\ Len(venue) <= MaxId
  BY DEF Types
<1>2. reader.synced => reader.book # Lost
  BY <1>1, ImageFacts DEF TrueBooks
<1> QED BY <1>2 DEF Shown

(* An image opens a display only where none is shown. *)
LEMMA OpensFromLost ==
  ASSUME DepthInv, Hears, Opens
  PROVE ~reader.synced
<1>1. /\ Types /\ CommandsInOrder /\ GensInOrder /\ EndsBetween /\ WholeEvents
  BY DEF DepthInv
<1>2. Stream # <<>> /\ Heard(Stream[1]) /\ Stream[1].kind = "snapshot"
  BY DEF Hears, Opens
<1>3. Counted(Stream[1]) /\ 1 \in 1 .. Len(Stream)
  BY <1>1, <1>2, HeardMeansObeyed, FirstMessage
<1>4. reader.synced => \E k \in 1 .. 1 - 1 : Ended(Stream[k]) /\ Counted(Stream[k])
  BY <1>1, <1>2, <1>3 DEF EndsBetween
<1> QED BY <1>4

(* Every step of the pipeline is a step of BookMirror, or changes neither *)
(* its venue nor its view.                                                *)
LEMMA MirrorStep ==
  ASSUME DepthInv, DepthInv', [Next]_vars
  PROVE [Mirror!MirrorNext]_(Mirror!mirrorVars)
<1>1. /\ Types /\ WholeEvents /\ TrueBooks /\ CommandsInOrder /\ Types' /\ TrueBooks'
  BY DEF DepthInv
<1>2. /\ reader.synced => Shown = reader.book /\ Shown # Lost
      /\ ~reader.synced => Shown = Lost
  BY <1>1, ShownNow
<1>3. /\ reader'.synced => Shown' = reader'.book
      /\ ~reader'.synced => Shown' = Lost
  BY DEF Shown
<1>s. reader.synced \in BOOLEAN /\ reader'.synced \in BOOLEAN
  BY <1>1 DEF Types, Readers
<1>4. CASE \E l \in Levels : VenueChange(l)
  <2>1. PICK l \in Levels : VenueChange(l)
    BY <1>4
  <2>2. Len(venue) < MaxId /\ venue' = Append(venue, l) /\ reader' = reader
    BY <2>1 DEF VenueChange
  <2>3. Shown' = Shown
    BY <2>2 DEF Shown
  <2>4. Mirror!Change(l)
    BY <2>2, <2>3 DEF Mirror!Change, Mirror!Now
  <2> QED BY <2>4 DEF Mirror!MirrorNext
<1>5. CASE venue' = venue
  <2>1. CASE Stays
    <3>1. Shown' = Shown
      BY <1>2, <1>3, <1>s, <2>1 DEF Stays
    <3> QED BY <1>5, <3>1 DEF Mirror!mirrorVars
  <2>2. CASE Loses
    <3>1. Shown' = Lost
      BY <1>3, <2>2 DEF Loses
    <3>2. CASE Shown = Lost
      BY <1>5, <3>1, <3>2 DEF Mirror!mirrorVars
    <3>3. CASE Shown # Lost
      <4>1. Mirror!Lose
        BY <1>5, <3>1, <3>3 DEF Mirror!Lose
      <4> QED BY <4>1 DEF Mirror!MirrorNext
    <3> QED BY <3>2, <3>3
  <2>3. CASE Moves
    <3>1. reader.synced /\ reader'.synced
      BY <2>3 DEF Moves
    <3>2. PICK n \in reader.book.id + 1 .. Len(venue) : reader'.book = Mirror!Image(n)
      BY <2>3 DEF Moves
    <3>3. Shown = reader.book /\ Shown # Lost /\ Shown' = Mirror!Image(n)
      BY <1>2, <1>3, <3>1, <3>2
    <3>4. n \in Shown.id + 1 .. Len(venue)
      BY <3>2, <3>3
    <3>5. Mirror!Advance
      BY <1>5, <3>3, <3>4 DEF Mirror!Advance, Mirror!Now
    <3> QED BY <3>5 DEF Mirror!MirrorNext
  <2>4. CASE Hears /\ Opens
    <3>1. Shown = Lost
      BY <1>2, <2>4, OpensFromLost
    <3>2. PICK n \in 0 .. Len(venue) : reader'.book = Mirror!Image(n)
      BY <2>4 DEF Opens
    <3>3. Shown' = Mirror!Image(n)
      BY <1>3, <2>4, <3>2 DEF Opens
    <3>4. Mirror!Show
      BY <1>5, <3>1, <3>2, <3>3 DEF Mirror!Show, Mirror!Now
    <3> QED BY <3>4 DEF Mirror!MirrorNext
  <2> QED BY <1>1, <2>1, <2>2, <2>3, <2>4, ReaderBook
<1>6. venue' = venue \/ \E l \in Levels : VenueChange(l)
  BY <1>1, AttachShape, AskShape, ReadShape, WorldKept
     DEF Next, vars, VenueEmit, SnapshotArrives, Obey, Send, Connect, Buffer, SkipStale, Bridge,
         SnapshotTooOld, Follow, ConnectionFails, Reconnect
<1> QED BY <1>4, <1>5, <1>6

(* The pipeline implements BookMirror: what the tab shows is the venue's  *)
(* book at some update id and only moves forward, or is visibly lost, and *)
(* after a loss it starts again from a whole image (install_snapshot),    *)
(* whatever the network drops, the venue's cache serves, or the trader    *)
(* restarts.                                                              *)
THEOREM MirrorImplemented == Spec => MirrorSpec
<1>1. Init => Mirror!MirrorInit
  BY SilentFields DEF Init, Mirror!MirrorInit, Shown
<1>2. DepthInv /\ DepthInv' /\ [Next]_vars => [Mirror!MirrorNext]_(Mirror!mirrorVars)
  BY MirrorStep
<1> QED BY <1>1, <1>2, DepthInvariant, PTL DEF Spec, MirrorSpec, Mirror!MirrorSpec
=============================================================================
