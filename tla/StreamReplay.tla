---------------------------- MODULE StreamReplay ----------------------------
(***************************************************************************)
(* The text of a streamed answer on its way from the provider to the       *)
(* reader: the segments and checkpoints of server/agent-manager.mjs, the   *)
(* events of server/runtime-events.mjs with their bounded replay, and the  *)
(* chat of src/App.jsx with the reducers of src/recovery-policy.js.        *)
(*                                                                         *)
(* The text is the sequence of units 1, 2, ... that the provider says.  A  *)
(* delta event carries one unit, and the unit also stands for its sequence *)
(* number in the run's log.  A message is one segment of the answer: the   *)
(* units from .. to, and the checkpointEventSeq it was stored with.        *)
(***************************************************************************)
EXTENDS Integers, SequencesExt

CONSTANTS
    MaxUnits,    \* bound: units the provider says
    Window,      \* events the hub keeps for replay
    MaxBuffer,   \* events the client buffers while a chat is loading
    MaxOpens,    \* bound: times the reader selects the chat
    MaxNotices,  \* notices of a run that are not part of the answer
    MaxFaults    \* bound: lost sockets, failed loads, refused events, deaths

ASSUME StreamBounds == /\ MaxUnits \in Nat /\ MaxOpens \in Nat
                       /\ MaxNotices \in Nat /\ MaxFaults \in Nat
                       /\ Window \in Nat \ {0} /\ MaxBuffer \in Nat \ {0}

VARIABLES
    running,   \* the run is active
    said,      \* units the run's manager has appended
    archived,  \* units of the segments that were closed
    deltaSeq,  \* state.lastAssistantDeltaSeq, 0 when unset
    notices,   \* notices sent
    stored,    \* messages in the database
    log, lastId,         \* the hub: retained events, the last event id
    connected, channel,  \* the socket, and what is on its way to the client
    seen,      \* the client's last event id
    cursor,    \* the client's checkpoint cursor of the run
    displayed, \* the chat was loaded since it was selected
    view,      \* the messages the client shows
    tail,      \* the streaming text below them
    retained,  \* deltas that no message the client has seen contains
    load,      \* the client's pending load of the chat
    skipped,   \* the page left its own reading to a load of the reader's
    opens, faults        \* bounds

server == <<running, said, archived, deltaSeq, notices, stored>>
hub == <<log, lastId>>
socket == <<connected, channel>>
client == <<seen, cursor, displayed, view, tail, retained>>
vars == <<server, hub, socket, client, load, skipped, opens, faults>>

Units == 1..MaxUnits
Segment == (archived + 1)..said
Intervals(S) == UNION {m.from..m.to : m \in S}
Event(kind, from, to, seq) == [kind |-> kind, from |-> from, to |-> to, seq |-> seq, id |-> 0]
Fault == faults < MaxFaults /\ faults' = faults + 1

---------------------------------------------------------------------------
(* The hub.                                                                *)

Floor == lastId - Len(log)

\* publish() of the events of one callback: kept for replay, sent if a
\* client is connected.
Publish(events) ==
    LET new == [i \in DOMAIN events |-> [events[i] EXCEPT !.id = lastId + i]]
        all == log \o new
    IN  /\ log' = SubSeq(all, Max({1, Len(all) - Window + 1}), Len(all))
        /\ lastId' = lastId + Len(new)
        /\ channel' = IF connected THEN channel \o new ELSE channel

Missed(after) == after > lastId \/ after < Floor

\* The page's socket comes back, asking for what came after its last event.
Connect ==
    /\ ~connected
    /\ connected' = TRUE
    /\ LET missed == Missed(seen)
           hello == [Event(IF missed THEN "missed" ELSE "connected", 0, 0, 0)
                        EXCEPT !.id = lastId]
           replay == SelectSeq(log, LAMBDA e : e.id > seen)
       IN  channel' = IF missed THEN <<hello>> ELSE Append(replay, hello)
    /\ UNCHANGED <<server, hub, client, load, skipped, opens, faults>>

\* The socket is lost with everything under way on it, or closed by send()
\* because the client reads too slowly.
Disconnect ==
    /\ connected /\ Fault
    /\ connected' = FALSE /\ channel' = <<>>
    /\ UNCHANGED <<server, hub, client, load, skipped, opens>>

---------------------------------------------------------------------------
(* The run's manager.                                                      *)

\* pendingAssistantMessage: the open segment, under its stable id.
Pending(last, seq) == [from |-> archived + 1, to |-> last, seq |-> seq]

\* upsertMessage: a segment has one row, whatever is stored of it later.
Upsert(S, m) == {x \in S : x.from # m.from} \cup {m}

MessageEvent(m) == Event("message", m.from, m.to, m.seq)

\* appendRunEventWithMessage: the delta and the text that contains it are one
\* commit, and the message carries the delta's sequence number if the log
\* took the event.
CommitWithDelta(u, event) == stored' = Upsert(stored, Pending(u, IF event THEN u ELSE deltaSeq))

\* assistant.delta: appended to the segment; its event is committed with a
\* checkpoint when enough text or time has passed, else alone, else it is
\* refused by the retained budget.
Delta(checkpoint, event) ==
    LET u == said + 1 IN
    /\ running /\ u \in Units
    /\ IF event THEN UNCHANGED faults ELSE Fault
    /\ said' = u
    /\ IF checkpoint THEN CommitWithDelta(u, event) ELSE UNCHANGED stored
    /\ deltaSeq' = IF event THEN u ELSE deltaSeq
    /\ IF event THEN Publish(<<Event("delta", u, u, u)>>) ELSE UNCHANGED <<hub, channel>>
    /\ UNCHANGED <<running, archived, notices, connected, client, load, skipped, opens>>

\* The checkpoint timer stores the open segment and publishes nothing.
CheckpointTimer ==
    /\ running /\ Segment # {}
    /\ \A m \in stored : m.to < said
    /\ stored' = Upsert(stored, Pending(said, deltaSeq))
    /\ UNCHANGED <<running, said, archived, deltaSeq, notices, hub, socket,
                   client, load, skipped, opens, faults>>

\* archiveAssistant for the units up to last, with the events after it.
Archive(last, after) ==
    LET m == Pending(last, deltaSeq)
    IN  /\ archived' = last
        /\ IF last > archived
           THEN /\ stored' = Upsert(stored, m)
                /\ Publish(<<MessageEvent(m)>> \o after)
           ELSE UNCHANGED stored /\ Publish(after)

Boundary == Event("boundary", 0, 0, 0)
Note == Event("message", 0, 0, 0)
End == Event("end", 0, 0, 0)

\* assistant.message: the complete text of the segment, which may hold a unit
\* that was never streamed.
Complete(extra) ==
    /\ running /\ said + extra \in Units /\ said + extra > archived
    /\ said' = said + extra
    /\ Archive(said + extra, <<Boundary>>)
    /\ UNCHANGED <<running, deltaSeq, notices, connected, client, load, skipped, opens, faults>>

\* assistant.message that does not extend what was streamed: the streamed
\* segment is closed first, the message is a segment of its own.
Rewrite ==
    LET u == said + 1
        old == Pending(said, deltaSeq)
        new == [from |-> u, to |-> u, seq |-> deltaSeq]
    IN  /\ running /\ u \in Units /\ Segment # {}
        /\ said' = u /\ archived' = u
        /\ stored' = Upsert(Upsert(stored, old), new)
        /\ Publish(<<MessageEvent(old), MessageEvent(new), Boundary>>)
        /\ UNCHANGED <<running, deltaSeq, notices, connected, client, load, skipped, opens, faults>>

\* tool.started and tool.completed: the segment is closed, the tool's item is
\* a message of its own.
Tool ==
    /\ running /\ Segment # {}
    /\ Archive(said, <<Note>>)
    /\ UNCHANGED <<running, said, deltaSeq, notices, connected, client, load, skipped, opens, faults>>

\* reportModelSubstitution and markTranscriptOmitted: an item of the run in
\* the middle of a segment.
Notice ==
    /\ running /\ notices < MaxNotices
    /\ notices' = notices + 1
    /\ Publish(<<Note>>)
    /\ UNCHANGED <<running, said, archived, deltaSeq, stored, connected, client,
                   load, skipped, opens, faults>>

\* finish: the last text and the terminal row are one commit.
Finish ==
    /\ running
    /\ running' = FALSE
    /\ Archive(said, <<End>>)
    /\ UNCHANGED <<said, deltaSeq, notices, connected, client, load, skipped, opens, faults>>

---------------------------------------------------------------------------
(* The load of the chat: asked by the page, read by the server, applied.    *)

NoLoad == [phase |-> "none", explicit |-> FALSE, buffer |-> <<>>, rows |-> {}, live |-> FALSE]
Loading == load.phase \in {"asked", "answered"}

\* Mutant: deltas received before the load are not carried into it.
AskingEmpty(explicit, kept) == [NoLoad EXCEPT !.phase = "asked", !.explicit = explicit]

\* loadConversation: the new load starts with the deltas the page still holds.
Asking(explicit, kept) ==
    [NoLoad EXCEPT !.phase = "asked", !.explicit = explicit,
                   !.buffer = [i \in DOMAIN kept |-> Event("delta", kept[i], kept[i], kept[i])]]

\* A background load leaves an explicit one alone.
Background(kept, current) ==
    IF Loading /\ load.explicit THEN current ELSE Asking(FALSE, kept)

\* selectConversation: everything of the earlier view is dropped.
Open ==
    /\ opens < MaxOpens /\ opens' = opens + 1
    /\ cursor' = 0 /\ displayed' = FALSE /\ view' = {} /\ tail' = <<>> /\ retained' = <<>>
    /\ load' = Asking(TRUE, <<>>) /\ skipped' = FALSE
    /\ UNCHANGED <<server, hub, socket, seen, faults>>

\* The reader asks again after a load failed.
Retry ==
    /\ load.phase = "failed"
    /\ load' = Asking(TRUE, retained) /\ skipped' = FALSE
    /\ UNCHANGED <<server, hub, socket, client, opens, faults>>

\* GET /api/conversations/:id, at the server.
Answer ==
    /\ load.phase = "asked"
    /\ load' = [load EXCEPT !.phase = "answered", !.rows = stored, !.live = running]
    /\ UNCHANGED <<server, hub, socket, client, skipped, opens, faults>>

LoadFails ==
    /\ Loading /\ Fault
    /\ load' = [NoLoad EXCEPT !.phase = "failed"]
    /\ UNCHANGED <<server, hub, socket, client, skipped, opens>>

Newest(S) == Max({0} \cup {m.seq : m \in S})
Stale(seq, c) == seq > 0 /\ seq <= c

\* Mutant: a delta is shown whatever the messages contain.
NeverContained(e, c) == FALSE

\* streamingTextAfterRuntimeEvent: a message the page knows holds the delta.
Contained(e, c) == e.seq <= c

\* What one event does to the text: a durable message owns its units and
\* clears the tail, a delta extends the tail unless a message contains it.
Replay(s, e) ==
    IF e.kind = "message" /\ ~Stale(e.seq, s.cursor)
    THEN [cursor |-> Max({s.cursor, e.seq}), tail |-> <<>>,
          view |-> IF e.to = 0 THEN s.view ELSE Upsert(s.view, [from |-> e.from, to |-> e.to])]
    ELSE IF e.kind = "delta" /\ ~Contained(e, s.cursor) THEN [s EXCEPT !.tail = Append(@, e.to)]
    ELSE IF e.kind = "boundary" THEN [s EXCEPT !.tail = <<>>]
    ELSE s

\* replayConversationEvents, and its result put on the page: the buffered
\* events over the snapshot, run events only if the snapshot's run is active.
Apply ==
    /\ load.phase = "answered"
    /\ LET events == SelectSeq(load.buffer, LAMBDA e : e.kind = "message" \/ load.live)
           base == [cursor |-> Max({IF displayed THEN cursor ELSE 0, Newest(load.rows)}), tail |-> <<>>,
                    view |-> {[from |-> m.from, to |-> m.to] : m \in load.rows}]
           page == FoldLeft(Replay, base, events)
           deltas == SelectSeq(events, LAMBDA e : e.kind = "delta" /\ e.seq > page.cursor)
       IN  /\ cursor' = Max({cursor, page.cursor}) /\ view' = page.view
           /\ tail' = page.tail
           /\ retained' = [i \in DOMAIN deltas |-> deltas[i].to]
    /\ load' = NoLoad /\ displayed' = TRUE
    /\ UNCHANGED <<server, hub, socket, seen, skipped, opens, faults>>

---------------------------------------------------------------------------
(* Events at the client (handleRuntimeEvent).                              *)

\* bufferConversationRuntimeEvent, or a fresh load when the buffer is full.
Buffered(e, kept) ==
    IF ~Loading THEN load
    ELSE IF Len(load.buffer) >= MaxBuffer THEN Asking(load.explicit, kept)
    ELSE [load EXCEPT !.buffer = Append(@, e)]

Take(kind) ==
    /\ channel # <<>> /\ Head(channel).kind = kind
    /\ channel' = Tail(channel)
    /\ seen' = Head(channel).id

\* The event's effect on the page.
Show(e) ==
    LET page == Replay([cursor |-> cursor, tail |-> tail, view |-> view], e)
    IN  /\ cursor' = page.cursor /\ tail' = page.tail
        /\ view' = IF displayed THEN page.view ELSE view

ReceiveDelta ==
    LET e == Head(channel) IN
    /\ Take("delta")
    /\ Show(e)
    /\ retained' = IF e.seq > cursor THEN Append(retained, e.to) ELSE retained
    /\ load' = Buffered(e, retained')
    /\ UNCHANGED <<server, hub, connected, displayed, skipped, opens, faults>>

\* message.created: a checkpoint that is not newer than the cursor is dropped.
ReceiveMessage ==
    LET e == Head(channel) IN
    /\ Take("message")
    /\ Show(e)
    /\ retained' = SelectSeq(retained, LAMBDA u : u > cursor')
    /\ load' = Buffered(e, retained')
    /\ UNCHANGED <<server, hub, connected, displayed, skipped, opens, faults>>

\* assistant.message
ReceiveBoundary ==
    LET e == Head(channel) IN
    /\ Take("boundary")
    /\ Show(e)
    /\ retained' = <<>>
    /\ load' = Buffered(e, <<>>)
    /\ UNCHANGED <<server, hub, connected, displayed, skipped, opens, faults>>

\* Mutant: the end of a run is taken from the stream alone.
EndWithoutReading ==
    /\ Take("end")
    /\ retained' = <<>>
    /\ load' = Buffered(Head(channel), <<>>)
    /\ UNCHANGED <<server, hub, connected, cursor, displayed, view, tail, skipped, opens, faults>>

\* run.completed, run.failed, run.stopped: the page reads the chat again.
ReceiveEnd ==
    /\ Take("end")
    /\ retained' = <<>>
    /\ load' = Background(<<>>, Buffered(Head(channel), <<>>))
    /\ skipped' = (Loading /\ load.explicit)
    /\ UNCHANGED <<server, hub, connected, cursor, displayed, view, tail, opens, faults>>

ReceiveConnected ==
    /\ Take("connected")
    /\ UNCHANGED <<server, hub, connected, cursor, displayed, view, tail, retained, load, skipped, opens, faults>>

\* runtime.connected with replay.missed, or from another runtime.
ReceiveMissed ==
    /\ Take("missed")
    /\ load' = Background(retained, load)
    /\ skipped' = (Loading /\ load.explicit)
    /\ UNCHANGED <<server, hub, connected, cursor, displayed, view, tail, retained, opens, faults>>

---------------------------------------------------------------------------

\* The runtime dies: the text it had not stored is lost, the sockets close, a
\* load under way fails, and the next runtime's hub starts from nothing.
Crash ==
    /\ running /\ Fault
    /\ running' = FALSE
    /\ log' = <<>> /\ lastId' = 0
    /\ connected' = FALSE /\ channel' = <<>>
    /\ load' = IF Loading THEN [NoLoad EXCEPT !.phase = "failed"] ELSE load
    /\ UNCHANGED <<said, archived, deltaSeq, notices, stored, client, skipped, opens>>

Init ==
    /\ running = TRUE /\ said = 0 /\ archived = 0 /\ deltaSeq = 0 /\ notices = 0
    /\ stored = {}
    /\ log = <<>> /\ lastId = 1
    /\ connected = TRUE /\ channel = <<>>
    /\ seen = 1 /\ cursor = 0 /\ displayed = TRUE /\ view = {} /\ tail = <<>> /\ retained = <<>>
    /\ load = NoLoad /\ skipped = FALSE
    /\ opens = 0 /\ faults = 0

Say ==
    \/ \E checkpoint, event \in BOOLEAN : Delta(checkpoint, event)
    \/ CheckpointTimer
    \/ \E extra \in 0..1 : Complete(extra)
    \/ Rewrite \/ Tool \/ Notice \/ Finish

Receive ==
    \/ ReceiveDelta \/ ReceiveMessage \/ ReceiveBoundary
    \/ ReceiveEnd \/ ReceiveConnected \/ ReceiveMissed

Next ==
    \/ Say \/ Receive
    \/ Connect \/ Disconnect
    \/ Open \/ Retry \/ Answer \/ LoadFails \/ Apply
    \/ Crash

Spec == Init /\ [][Next]_vars

---------------------------------------------------------------------------
(* Properties.                                                             *)

EventType == [kind : {"delta", "message", "boundary", "end", "connected", "missed"},
              from : 0..MaxUnits, to : 0..MaxUnits, seq : 0..MaxUnits, id : Nat]
MessageType == [from : Units, to : Units, seq : 0..MaxUnits]

\* Every variable has its type.
TypeOK ==
    /\ running \in BOOLEAN /\ connected \in BOOLEAN /\ displayed \in BOOLEAN /\ skipped \in BOOLEAN
    /\ said \in 0..MaxUnits /\ archived \in 0..said /\ deltaSeq \in 0..said
    /\ stored \subseteq MessageType
    /\ \A e \in ToSet(log) \cup ToSet(channel) \cup ToSet(load.buffer) : e \in EventType
    /\ Len(log) <= Window /\ lastId \in Nat /\ seen \in Nat
    /\ view \subseteq [from : Units, to : Units]
    /\ \A u \in ToSet(tail) \cup ToSet(retained) : u \in Units
    /\ load.phase \in {"none", "asked", "answered", "failed"}

Shown == IF displayed THEN Intervals(view) \cup ToSet(tail) ELSE {}

\* The page never repeats a unit and never shows one before an earlier one:
\* its messages do not overlap, and the tail below them holds later units in
\* the order in which they were said - whatever was loaded, replayed, lost or
\* refused on the way.  (The types of the state are checked with it.)
ShownInOrder ==
    /\ TypeOK
    /\ \A m, n \in view : m.from < n.from => m.to < n.from
    /\ \A m \in view : \A u \in ToSet(tail) : m.to < u
    /\ \A i, j \in DOMAIN tail : i < j => tail[i] < tail[j]

AtRest == ~running /\ connected /\ channel = <<>> /\ load.phase = "none"

\* When the run is over and nothing is under way, the page shows exactly what
\* the database holds, also if it joined late, missed events, was sent
\* messages it took for stale or saw the runtime die.  (The exception
\* is a page whose reading of the end, or of missed events, was left to a
\* load of the reader's own that was already under way.)
CompleteAtRest == AtRest /\ ~skipped => Shown = Intervals(stored) /\ tail = <<>>

\* The reader selects a chat, an item of the run that is no part of the answer
\* clears the tail, the runtime died with text it had not stored, or a page
\* that has missed events, and reads the chat again, is sent a segment after one that it missed.
Excused ==
    \/ opens' # opens
    \/ channel # <<>> /\ Head(channel).kind = "message" /\ Head(channel).to = 0
    \/ ~running /\ Intervals(stored) # 1..said
    \/ /\ load.phase # "none" \/ skipped
       /\ channel # <<>> /\ \E u \in ToSet(tail) : Head(channel).from > u

\* A message came while the chat was loading, and the page's cursor already
\* counts it.
Counted ==
    load.phase = "answered" /\
    \E e \in ToSet(load.buffer) : e.kind = "message" /\ e.to > 0 /\ Stale(e.seq, cursor)

\* Nothing that was shown disappears, whatever is loaded, replayed or lost.
\* (A message that came while the chat was loading is an exception: the late
\* response takes it off the page until the chat is read again.)
NeverShrinks == [][Shown \subseteq Shown' \/ Excused \/ Counted]_vars

=============================================================================
