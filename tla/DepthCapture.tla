---------------------------- MODULE DepthCapture ----------------------------
(***************************************************************************)
(* The live order book, from the venue to the heatmap                      *)
(* (crates/feed-binance/src/depth/stream.rs, sync.rs, reconnect.rs;        *)
(* crates/orderbook/src/book.rs; crates/feed/src/binance.rs, venue_loop.rs;*)
(* crates/orderflow/src/engine.rs, history.rs; crates/app/src/tab/feed.rs).*)
(*                                                                         *)
(* Three parties run beside each other: the tab, which attaches feeds,     *)
(* asks for captures and reads their events; the feed, which obeys the     *)
(* tab's commands by replacing the capture task; and the task itself,      *)
(* which connects, buffers, fetches an image, bridges it to the stream,    *)
(* follows, and reconnects.  A task is aborted wherever it waits.          *)
(***************************************************************************)
EXTENDS Integers, Sequences

CONSTANTS
  Levels, MaxId, Lost,   \* as in BookMirror
  Markets,       \* "Spot", "UsdM"
  BufferCap,     \* DEFAULT_DEPTH_BUFFER_CAPACITY
  MaxAttempts,   \* max_snapshot_attempts
  Stride,        \* BOOK_GENERATION_STRIDE
  ChannelCap,    \* capacity of the channel to the tab
  CommandCap,    \* capacity of the channel to the feed
  MaxEpochs,     \* bound: captures the tab asks for
  MaxReconnects  \* bound: reconnects of one capture

ASSUME DepthAssumption ==
  /\ Markets \subseteq {"Spot", "UsdM"}
  /\ BufferCap \in Nat \ {0} /\ MaxAttempts \in Nat \ {0} /\ ChannelCap \in Nat \ {0}
  /\ CommandCap \in Nat \ {0} /\ MaxEpochs \in Nat /\ MaxReconnects \in Nat
  /\ Stride \in Nat /\ Stride > MaxReconnects
  /\ MaxId \in Nat /\ Lost \notin [id : 0 .. MaxId, levels : [Levels -> 0 .. MaxId]]

VARIABLES
  venue,      \* the level each venue update set
  sent,       \* the last update id the venue has put into an event
  market,     \* the market of this capture
  socket,     \* events on their way to the open socket
  task,       \* the capture task: its generation, phase and state
  outbox,     \* what the task has yet to send before it goes on
  channel,    \* depth events on their way to the tab
  commands,   \* commands on their way to the feed
  epoch,      \* book_capture_epoch
  reader,     \* the tab's engine and its history; history variable: the capture
              \* it last refused a message of for its time
  source      \* what the tab shows: a live feed or a recording

vars == <<venue, sent, market, source, socket, task, outbox, channel, commands, epoch, reader>>
taskVars == <<socket, task, outbox>>

NoBook  == [id |-> -1, levels |-> [l \in Levels |-> 0]]
Stopped == [phase |-> "stopped", gen |-> 0, attempt |-> 0, buffered |-> <<>>,
            book |-> NoBook, base |-> 0]
Silent  == [enabled |-> FALSE, floor |-> 0, latest |-> 0, opened |-> 0,
            synced |-> FALSE, book |-> NoBook, refused |-> 0]
Shown   == IF reader.synced THEN reader.book ELSE Lost
Mirror  == INSTANCE BookMirror WITH view <- Shown

Init ==
  /\ venue = <<>> /\ sent = 0
  /\ market \in Markets
  /\ socket = <<>> /\ task = Stopped /\ outbox = <<>> /\ channel = <<>>
  /\ commands = <<>> /\ epoch = 0
  /\ reader = Silent /\ source = "live"

Connected == task.phase \in {"fetching", "bridging", "live"}
-----------------------------------------------------------------------------
(* The venue: updates happen, and an event carries all of them since the   *)
(* last one.  An event may be lost before the socket.                      *)
VenueChange(l) ==
  /\ Len(venue) < MaxId
  /\ venue' = Append(venue, l)
  /\ UNCHANGED <<sent, market, source, taskVars, channel, commands, epoch, reader>>

VenueEmit(delivered) ==
  /\ sent < Len(venue)
  /\ sent' = Len(venue)
  /\ socket' = IF Connected /\ delivered
               THEN Append(socket, [first |-> sent + 1, last |-> Len(venue), prev |-> sent])
               ELSE socket
  /\ UNCHANGED <<venue, market, source, task, outbox, channel, commands, epoch, reader>>

LevelsAfter(book, e) ==
  [l \in Levels |-> IF \E i \in e.first .. e.last : venue[i] = l
                    THEN Mirror!Truth(e.last)[l] ELSE book.levels[l]]

(* Faulty variant: the book takes the event's first id for its own. *)
SetAtFirst(book, e) == [id |-> e.first, levels |-> LevelsAfter(book, e)]

(* An event sets the levels its updates touched, to their value at its end. *)
Set(book, e) == [id |-> e.last, levels |-> LevelsAfter(book, e)]

(* OrderBook::apply_delta: by the link when the delta carries one, by range *)
(* otherwise.                                                              *)
Linked(book, e, link) ==
  IF link THEN e.prev = book.id ELSE e.first <= book.id + 1
-----------------------------------------------------------------------------
(* DepthSynchronizer::apply.  A futures bridge may end at the image's own   *)
(* id: it proves the link, and changes nothing.                            *)
FuturesBridge == market = "UsdM" /\ task.phase = "bridging"
Stale(e) == e.last < task.book.id \/ (e.last = task.book.id /\ ~FuturesBridge)

Gap(e) ==
  IF FuturesBridge THEN e.first > task.book.id
  ELSE market = "Spot" /\ e.first > task.book.id + 1
Mismatch(e) == market = "UsdM" /\ task.phase = "live" /\ e.prev # task.book.id
Applied(e) == IF e.last = task.book.id THEN task.book ELSE Set(task.book, e)

Status(kind) == [kind |-> kind, gen |-> task.gen]
Update(e, link) == [kind |-> "update", gen |-> task.gen, event |-> e, link |-> link]

(* The next update: buffered first, then from the socket. *)
Pending == task.buffered # <<>> \/ socket # <<>>
Next1   == IF task.buffered # <<>> THEN Head(task.buffered) ELSE Head(socket)
Took    == [task EXCEPT !.buffered = IF @ # <<>> THEN Tail(@) ELSE @]
Taken   == socket' = IF task.buffered # <<>> THEN socket ELSE Tail(socket)

Ready == outbox = <<>>
Fail(events) ==
  /\ task' = [task EXCEPT !.phase = "ended", !.attempt = 0, !.buffered = <<>>, !.book = NoBook]
  /\ socket' = <<>>
  /\ outbox' = events \o <<Status("disconnected")>>
World == <<venue, sent, market, source, commands, epoch, reader>>

Connect ==
  /\ task.phase = "connecting" /\ Ready
  /\ task' = [task EXCEPT !.phase = "fetching", !.attempt = 1]
  /\ UNCHANGED <<World, socket, outbox, channel>>

RoomToBuffer == Len(task.buffered) < BufferCap

(* fetch_snapshot_while_buffering: an event, the image, or the end. *)
Buffer ==
  /\ task.phase = "fetching" /\ Ready /\ socket # <<>>
  /\ IF RoomToBuffer
     THEN /\ task' = [task EXCEPT !.buffered = Append(@, Head(socket))]
          /\ socket' = Tail(socket) /\ UNCHANGED outbox
     ELSE Fail(<<>>)
  /\ UNCHANGED <<World, channel>>

(* The venue's image may be any age: it is served from a cache. *)
SnapshotArrives(n) ==
  /\ task.phase = "fetching" /\ Ready
  /\ task' = [task EXCEPT !.phase = "bridging", !.book = Mirror!Image(n), !.base = n]
  /\ UNCHANGED <<World, socket, outbox, channel>>

(* bridge_snapshot, one update at a time. *)
SkipStale ==
  /\ task.phase \in {"bridging", "live"} /\ Ready /\ Pending /\ Stale(Next1)
  /\ task' = Took /\ Taken
  /\ UNCHANGED <<World, outbox, channel>>

Bridge ==
  /\ task.phase = "bridging" /\ Ready /\ Pending
  /\ ~Stale(Next1) /\ ~Gap(Next1)
  /\ task' = [Took EXCEPT !.phase = "live", !.book = Applied(Next1)] /\ Taken
  /\ outbox' = <<[kind |-> "snapshot", gen |-> task.gen, id |-> task.base],
                 Update(Next1, FALSE)>>
  /\ UNCHANGED <<World, channel>>

(* The image is older than the stream: fetch again, the update kept first. *)
SnapshotTooOld ==
  /\ task.phase = "bridging" /\ Ready /\ Pending
  /\ ~Stale(Next1) /\ Gap(Next1)
  /\ IF task.attempt < MaxAttempts
     THEN /\ task' = [task EXCEPT !.phase = "fetching", !.attempt = @ + 1, !.book = NoBook,
                                  !.buffered = <<Next1>> \o Took.buffered]
          /\ Taken /\ outbox' = <<Status("resyncing")>>
     ELSE Fail(<<Status("resyncing"), Status("resyncing")>>)
  /\ UNCHANGED <<World, channel>>

(* apply_live_update *)
Follow ==
  /\ task.phase = "live" /\ Ready /\ Pending
  /\ ~Stale(Next1)
  /\ IF Gap(Next1) THEN Fail(<<Status("resyncing")>>)
     ELSE IF Mismatch(Next1) THEN Fail(<<>>)
     ELSE /\ task' = [Took EXCEPT !.book = Applied(Next1)] /\ Taken
          /\ outbox' = <<Update(Next1, market = "UsdM")>>
  /\ UNCHANGED <<World, channel>>

(* Any failure of the transport or of the fetch. *)
ConnectionFails ==
  /\ task.phase \in {"connecting", "fetching", "bridging", "live"} /\ Ready
  /\ Fail(<<>>)
  /\ UNCHANGED <<World, channel>>

(* After the backoff, the next generation. *)
Reconnect ==
  /\ task.phase = "ended" /\ Ready
  /\ (task.gen % Stride) < MaxReconnects
  /\ task' = [task EXCEPT !.phase = "connecting", !.gen = @ + 1]
  /\ outbox' = <<[kind |-> "connecting", gen |-> task.gen + 1]>>
  /\ UNCHANGED <<World, socket, channel>>

Send ==
  /\ outbox # <<>> /\ Len(channel) < ChannelCap
  /\ channel' = Append(channel, Head(outbox))
  /\ outbox' = Tail(outbox)
  /\ UNCHANGED <<World, socket, task>>
-----------------------------------------------------------------------------
(* The tab.  Asking takes a new epoch; a command that finds the channel     *)
(* full changes nothing else.                                              *)
MarkGap(r) == [r EXCEPT !.synced = FALSE, !.book = NoBook]
NextGeneration == (epoch + 1) * Stride
NewEpoch == epoch < MaxEpochs /\ epoch' = epoch + 1

Ask(restart, accepted) ==
  /\ NewEpoch
  /\ IF Len(commands) < CommandCap
     THEN /\ commands' = Append(commands, [restart |-> restart, gen |-> NextGeneration])
          /\ reader' = accepted
     ELSE UNCHANGED <<commands, reader>>
  /\ UNCHANGED <<venue, sent, market, source, taskVars, channel>>

Recording(r) == [r EXCEPT !.enabled = TRUE, !.floor = NextGeneration]

(* The frame loop's heartbeat. *)
EnsureBookCapture ==
  /\ ~reader.enabled /\ source = "live"
  /\ Ask(FALSE, Recording(reader))

RestartBookCapture ==
  /\ reader.enabled
  /\ Ask(TRUE, Recording(MarkGap(reader)))

(* attach: another feed takes over.  The one it replaces ends, and all that *)
(* was on its way to or from it is dropped.                                *)
Attach ==
  /\ socket' = <<>> /\ task' = Stopped /\ outbox' = <<>> /\ channel' = <<>>
  /\ UNCHANGED <<venue, sent, market>>

(* reload_feed and maybe_switch_feed: the engine starts again, recording. *)
ReloadFeed ==
  /\ source = "live" /\ NewEpoch /\ Attach
  /\ commands' = <<[restart |-> FALSE, gen |-> NextGeneration]>>
  /\ reader' = Recording(Silent)
  /\ UNCHANGED source

(* reconnect_feed keeps the timeline, and with it the engine as it is; only *)
(* an engine that is not recording asks for a capture.                     *)
ReconnectFeed ==
  /\ source = "live" /\ Attach
  /\ IF reader.enabled THEN commands' = <<>> /\ UNCHANGED <<epoch, reader>>
     ELSE /\ NewEpoch
          /\ commands' = <<[restart |-> FALSE, gen |-> NextGeneration]>>
          /\ reader' = Recording(reader)
  /\ UNCHANGED source

OpenReplay ==
  /\ NewEpoch /\ Attach
  /\ source' = "replay" /\ commands' = <<>> /\ reader' = Silent

CloseReplay ==
  /\ source = "replay" /\ Attach
  /\ source' = "live" /\ commands' = <<>> /\ reader' = Silent
  /\ UNCHANGED epoch

(* The feed obeys: a running task is aborted where it waits, with what it  *)
(* had not sent yet, and replaced.  One that is only asked for again is    *)
(* kept.                                                                   *)
Obey ==
  LET c == Head(commands)
      kept == ~c.restart /\ task.phase # "stopped" IN
  /\ commands # <<>> /\ commands' = Tail(commands)
  /\ IF kept THEN UNCHANGED taskVars
     ELSE /\ socket' = <<>>
          /\ task' = [Stopped EXCEPT !.phase = "connecting", !.gen = c.gen]
          /\ outbox' = <<[kind |-> "connecting", gen |-> c.gen]>>
  /\ UNCHANGED <<venue, sent, market, source, channel, epoch, reader>>

(* Faulty variants: any generation is heard; an ending goes unnoticed.     *)
HeardAnyway(m) == reader.enabled
StaysShown(r) == r

Heard(m) == reader.enabled /\ m.gen >= reader.latest /\ m.gen >= reader.floor

(* A status that ends continuity ends the display. *)
OnEnd(r) == MarkGap(r)

(* A message stamped before what the history has seen is refused, and the  *)
(* display with it.  The venue's stamps are not promised to be in order.    *)
Timed(m) == m.kind \in {"snapshot", "update"} /\ reader.opened # 0
Refused(r, m) == [MarkGap(r) EXCEPT !.refused = m.gen]

(* LiquidityHistory::install_snapshot and apply_delta. *)
OnSnapshot(r, m, late) ==
  IF late THEN Refused(r, m)
  ELSE IF m.gen <= r.opened THEN MarkGap(r)
  ELSE [r EXCEPT !.opened = m.gen, !.synced = TRUE, !.book = Mirror!Image(m.id)]
OnUpdate(r, m, late) ==
  IF ~r.synced THEN r
  ELSE IF late THEN Refused(r, m)
  ELSE IF m.event.last <= r.book.id THEN r
  ELSE IF Linked(r.book, m.event, m.link) THEN [r EXCEPT !.book = Set(@, m.event)]
  ELSE MarkGap(r)

(* handle_depth_event_at *)
Read ==
  LET m == Head(channel)
      r == [reader EXCEPT !.latest = m.gen] IN
  /\ channel # <<>> /\ channel' = Tail(channel)
  /\ \E late \in BOOLEAN :
       /\ late => Timed(m)
       /\ reader' =
            CASE ~Heard(m)             -> reader
              [] Heard(m) /\ m.kind = "snapshot" -> OnSnapshot(r, m, late)
              [] Heard(m) /\ m.kind = "update"   -> OnUpdate(r, m, late)
              [] Heard(m) /\ m.kind \in {"resyncing", "disconnected"} -> OnEnd(r)
              [] Heard(m) /\ m.kind = "connecting" -> r
  /\ UNCHANGED <<venue, sent, market, source, taskVars, commands, epoch>>

Next ==
  \/ \E l \in Levels : VenueChange(l)
  \/ \E delivered \in BOOLEAN : VenueEmit(delivered)
  \/ \E n \in 0 .. Len(venue) : SnapshotArrives(n)
  \/ EnsureBookCapture \/ RestartBookCapture
  \/ ReloadFeed \/ ReconnectFeed \/ OpenReplay \/ CloseReplay
  \/ Obey \/ Read \/ Send
  \/ Connect \/ Buffer \/ SkipStale \/ Bridge \/ SnapshotTooOld \/ Follow
  \/ ConnectionFails \/ Reconnect

Spec == Init /\ [][Next]_vars
-----------------------------------------------------------------------------
Books == [id : -1 .. MaxId, levels : [Levels -> 0 .. MaxId]]

(* Type invariant: the bootstrap buffer and the channel keep their limits,  *)
(* attempts are capped, and the reader holds a book exactly while synced.   *)
DepthTypeOK ==
  /\ venue \in Seq(Levels) /\ Len(venue) <= MaxId /\ sent \in 0 .. Len(venue)
  /\ task.phase \in {"stopped", "connecting", "fetching", "bridging", "live", "ended"}
  /\ task.attempt \in 0 .. MaxAttempts /\ task.book \in Books
  /\ Len(task.buffered) <= BufferCap
  /\ Len(channel) <= ChannelCap /\ epoch \in 0 .. MaxEpochs
  /\ reader.synced \in BOOLEAN /\ reader.book \in Books
  /\ reader.synced = (reader.book # NoBook)

(* What the tab displays is the venue's book at some id, moving forward,   *)
(* or visibly lost, whatever the network loses, the venue's cache serves,  *)
(* or the trader restarts: the pipeline implements BookMirror.             *)
MirrorSpec == Mirror!MirrorSpec

(* Once everything said has been heard, a running capture and the display  *)
(* agree: a book is shown only while the task follows the venue, the two    *)
(* hold the same one, and the display is dark under a task that follows     *)
(* only where the history refused a message of this very capture for its    *)
(* time.  No stale liquidity after an end, and no capture that runs unheard. *)
DisplayMatchesTask ==
  outbox = <<>> /\ channel = <<>> /\ commands = <<>> /\ task.phase # "stopped" =>
    /\ reader.synced =>
         task.phase = "live" /\ reader.book = task.book /\ reader.opened = task.gen
    /\ task.phase = "live" => reader.synced \/ reader.refused = task.gen

(* What the tab takes for recording is recorded ("always recording", says   *)
(* the frame loop's heartbeat): a capture runs, or its command is waiting.  *)
(* A reconnect by the user breaks it: the new feed has no capture, and the *)
(* engine, still recording by its own word, never asks for one.            *)
RecordingIsBacked ==
  reader.enabled => task.phase # "stopped" \/ commands # <<>>

(* A book on display belongs to the capture the tab last asked for, though *)
(* events of the one it replaced are still on their way.                   *)
NothingOfTheOldCapture ==
  reader.synced => reader.enabled /\ reader.opened >= reader.floor
=============================================================================
