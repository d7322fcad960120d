-------------------------- MODULE TerminalHistory --------------------------
(***************************************************************************)
(* Saved terminal output (server/terminal-history.mjs): one metadata file  *)
(* and at most two output segments for each terminal, under one quota, in  *)
(* a private directory, with the calls the terminal manager makes on it    *)
(* (server/terminal-manager.mjs).                                          *)
(*                                                                         *)
(* Every call is synchronous JavaScript, but the process can die between   *)
(* any two file operations, and a deletion can be refused (a scanner holds *)
(* the file) or a write fail half way.  A call is therefore a stack `todo' *)
(* of the file operations still to come; `Catch' marks where the code's    *)
(* try block ends and holds what its handler does.                         *)
(*                                                                         *)
(* Sizes are abstract: a file is charged 1 (fileBytes), an output record   *)
(* weighs 2 and the part of a record that a crash leaves behind 1.         *)
(***************************************************************************)
EXTENDS Integers, FiniteSets, Sequences, SequencesExt, FiniteSetsExt, TLC

CONSTANTS Ids,            \* terminal ids
          SegmentLimit,   \* weight of one output segment
          TotalLimit,     \* the quota of the whole store
          MaxUnits,       \* bound on the pieces of output appended
          MaxFaults,      \* bound on refused file operations
          MaxRuns         \* bound on runtimes

VARIABLES files,      \* the directory: a function from the names that exist to their content
          ent,        \* entries: a function from the ids this runtime serves
          residue,    \* files that could not be deleted, with the weight charged for each
          total,      \* the charge against the quota
          writable, trusted,
          up,         \* a runtime has the store open
          todo,       \* what the call in progress still has to do
          attached,   \* ids this runtime holds a terminal for
          past,       \* ids it held one for, and takes no more
          owner,      \* each id's process: none yet, live or ended
          warning,    \* what status() says: nothing, a stalled terminal, or a failure
          printed,    \* every piece an id's session printed, in order (history)
          missed,     \* the pieces not saved, but with a warning in status() (history)
          gone,       \* the runtime that recorded an id's dismissal, 0 if none
          mixed,      \* ids begun again over output of theirs that could not be deleted
          used, faults, run

disk   == <<files>>
saving == <<writable, warning>>
memory == <<ent, residue, total, saving, trusted, up>>
output == <<printed, missed>>
story  == <<output, gone, mixed>>
bounds == <<used, faults, run>>
vars   == <<disk, memory, todo, attached, past, owner, story, bounds>>

Torn == 0
Meta(id)     == <<id, "meta", 0>>
Log(id, seq) == <<id, "log", seq>>
Temp(id, k)  == <<id, "tmp", k>>

\* What decodeRecords keeps: the whole records before the first that is not.
Whole(content) ==
  LET torn == SelectInSeq(content, LAMBDA u : u = Torn)
  IN  IF torn = 0 THEN content ELSE SubSeq(content, 1, torn - 1)

Size(content) == FoldLeft(LAMBDA s, u : s + (IF u = Torn THEN 1 ELSE 2), 0, content)
Weight(name)  == IF name[2] = "log" THEN Size(files[name]) ELSE 0

Without(f, S) == [x \in DOMAIN f \ S |-> f[x]]
Bytes(id)     == FoldLeft(LAMBDA s, g : s + g.bytes, 0, ent[id].segs)
\* Mutant: output that could not be deleted is not counted.
DeletedAnyway(id) == 0

\* undeletedSegments: output of this terminal that could not be deleted.
Undeleted(id) == Cardinality({n \in DOMAIN residue : n[1] = id /\ n[2] = "log"})
EndedIds      == {id \in DOMAIN ent : ent[id].end # "none"}
\* read: the saved output of a session, as served.
Read(id)      == FlattenSeq([i \in DOMAIN ent[id].segs |-> Whole(files[Log(id, ent[id].segs[i].seq)])])
Usage         == MapThenSumSet(LAMBDA n : 1 + Weight(n), DOMAIN files)

(***************************************************************************)
(* The call in progress.                                                   *)
(***************************************************************************)
Op(d, id)        == [do |-> d, id |-> id]
Release(n, b)    == [do |-> "release", name |-> n, bytes |-> b]
Retry(S)         == [do |-> "retry", names |-> S]
Expire(S)        == [do |-> "expire", of |-> S]
Write(id, u)     == [do |-> "write", id |-> id, u |-> u]
Enforce          == [do |-> "enforce"]
Evict            == [do |-> "evict"]
Fail             == [do |-> "fail"]
Publish(id, u)   == [do |-> "publish", id |-> id, u |-> u]
Catch(handler)   == [do |-> "catch", then |-> handler]
Guarded(ops)     == [do |-> "guarded", ops |-> ops]

Doing(d)  == todo # <<>> /\ Head(todo).do = d
This      == Head(todo)
Id        == Head(todo).id
\* A try block that ends without an exception leaves its handler behind.
Settled(ops) ==
  LET at == SelectInSeq(ops, LAMBDA o : o.do # "catch")
  IN  IF at = 0 THEN <<>> ELSE SubSeq(ops, at, Len(ops))
Then(ops) == todo' = Settled(ops \o Tail(todo))
\* An exception: do `ops', then what the nearest enclosing handler says.
Throw(ops) ==
  LET rest == Tail(todo)
      at   == SelectInSeq(rest, LAMBDA o : o.do = "catch")
  IN todo' = Settled(ops \o rest[at].then \o SubSeq(rest, at + 1, Len(rest)))

Works   == UNCHANGED faults
Refused == faults < MaxFaults /\ faults' = faults + 1
Entry(id, field, value) == ent' = [ent EXCEPT ![id][field] = value]

Keeping == UNCHANGED <<trusted, up, attached, past, owner, mixed, used, run>>

(***************************************************************************)
(* Metadata: written beside, flushed, and renamed over.                    *)
(***************************************************************************)
FreeTemp(id) == CHOOSE k \in 1..(MaxFaults + 2) : Temp(id, k) \notin DOMAIN files

WriteTemp ==
  LET temp == Temp(Id, FreeTemp(Id)) IN
  /\ Doing("writeTemp")
  /\ \/ /\ Works /\ UNCHANGED total
        /\ files' = files @@ (temp :> ent[Id].end)
        /\ Then(<<[do |-> "rename", id |-> Id, temp |-> temp]>>)
     \/ Refused /\ Throw(<<>>) /\ UNCHANGED <<files, total>>
     \/ /\ Refused
        /\ files' = files @@ (temp :> ent[Id].end)
        /\ total' = total + 1
        /\ Throw(<<Release(temp, 0)>>)
  /\ UNCHANGED <<ent, residue, saving, output, gone>> /\ Keeping

Rename ==
  /\ Doing("rename")
  /\ \/ /\ Works
        /\ files' = (Meta(Id) :> files[This.temp]) @@ Without(files, {This.temp})
        /\ total' = total + (IF ent[Id].meta THEN 0 ELSE 1)
        /\ Entry(Id, "meta", TRUE)
        /\ gone' = IF files[This.temp] = "closed" THEN [gone EXCEPT ![Id] = run] ELSE gone
        /\ Then(<<>>)
     \/ /\ Refused
        /\ total' = total + 1
        /\ Throw(<<Release(This.temp, 0)>>)
        /\ UNCHANGED <<files, ent, gone>>
  /\ UNCHANGED <<residue, saving, output>> /\ Keeping

(***************************************************************************)
(* Deletions: what cannot be deleted stays charged and is retried.         *)
(***************************************************************************)
Deletes(n, b) ==
  /\ files' = Without(files, {n})
  /\ residue' = Without(residue, {n})
  /\ total' = total - (b + 1)
  /\ Works
Refuses(n, b) ==
  /\ n \in DOMAIN files
  /\ residue' = (n :> b) @@ residue
  /\ UNCHANGED <<files, total>>
  /\ Refused

Releases ==
  /\ Doing("release")
  /\ Deletes(This.name, This.bytes) \/ Refuses(This.name, This.bytes)
  /\ Then(<<>>)
  /\ UNCHANGED <<ent, saving, output, gone>> /\ Keeping

RetryResidue ==
  /\ Doing("retry")
  /\ IF This.names = {}
     THEN Then(<<[do |-> "recover"]>>)
     ELSE \E n \in This.names : Then(<<Release(n, residue[n]), Retry(This.names \ {n})>>)
  /\ Works /\ UNCHANGED <<disk, ent, residue, total, saving, output, gone>> /\ Keeping

RecoverStalled ==
  LET back == {id \in DOMAIN ent : ent[id].stalled /\ Undeleted(id) = 0} IN
  /\ Doing("recover")
  /\ \/ ~writable /\ Then(<<>>) /\ UNCHANGED <<ent, warning>>
     \/ /\ writable
        /\ \E id \in back :
             /\ Entry(id, "stalled", FALSE)
             /\ Then((IF ent[id].end = "none" THEN <<Op("open", id), Catch(<<Fail>>)>> ELSE <<>>)
                     \o <<[do |-> "recover"]>>)
        /\ UNCHANGED warning
     \/ /\ writable /\ back = {}
        /\ warning' = IF \E id \in DOMAIN ent : ent[id].stalled THEN warning ELSE "none"
        /\ Then(<<>>) /\ UNCHANGED ent
  /\ Works /\ UNCHANGED <<disk, residue, total, writable, output, gone>> /\ Keeping

\* Mutant: the output goes before the record that names it.
DiscardOutputFirst ==
  LET logs == {n \in DOMAIN files : n[1] = Id /\ n[2] = "log"} IN
  /\ Doing("discard")
  /\ IF logs # {}
     THEN /\ Then(SetToSeq({Release(n, Weight(n)) : n \in logs}) \o <<This>>)
          /\ Works /\ UNCHANGED <<files, ent, total>>
     ELSE /\ Works
          /\ files' = Without(files, {Meta(Id)})
          /\ ent' = Without(ent, {Id})
          /\ total' = total - (IF ent[Id].meta THEN 1 ELSE 0)
          /\ Then(<<>>)
  /\ UNCHANGED <<residue, saving, output, gone>> /\ Keeping

\* Metadata goes first, so that what an interrupted removal leaves is an orphan.
Discard ==
  LET logs == [i \in DOMAIN ent[Id].segs |->
                 Release(Log(Id, ent[Id].segs[i].seq), ent[Id].segs[i].bytes)] IN
  /\ Doing("discard")
  /\ \/ /\ Works
        /\ files' = Without(files, {Meta(Id)})
        /\ ent' = Without(ent, {Id})
        /\ total' = total - (IF ent[Id].meta THEN 1 ELSE 0)
        /\ Then(logs)
     \/ /\ Refused /\ Meta(Id) \in DOMAIN files
        /\ Entry(Id, "open", FALSE)
        /\ Throw(<<>>)
        /\ UNCHANGED <<files, total>>
  /\ UNCHANGED <<residue, saving, output, gone>> /\ Keeping

(***************************************************************************)
(* Output: two segments, the oldest dropped before a new one opens.        *)
(***************************************************************************)
OpenSegment ==
  LET e    == ent[Id]
      drop == ~e.stalled /\ e.segs # <<>> /\ Len(e.segs) + Undeleted(Id) >= 2 IN
  /\ Doing("open")
  /\ ent' = [ent EXCEPT ![Id].open = FALSE, ![Id].segs = IF drop THEN Tail(@) ELSE @]
  /\ Then((IF drop THEN <<Release(Log(Id, e.segs[1].seq), e.segs[1].bytes)>> ELSE <<>>)
          \o (IF e.stalled THEN <<>> ELSE <<Op("create", Id)>>))
  /\ Works /\ UNCHANGED <<disk, residue, total, saving, output, gone>> /\ Keeping

\* Mutant: nobody is told that a terminal stopped saving.
StallsSilently == UNCHANGED warning

\* stall: the terminal saves no more, which is said once.
Warns == warning' = "stalled"

CreateSegment ==
  LET e    == ent[Id]
      seq  == IF e.segs = <<>> THEN 1 ELSE Last(e.segs).seq + 1
      room == Len(e.segs) + Undeleted(Id) < 2 IN
  /\ Doing("create")
  /\ \/ /\ ~room
        /\ Entry(Id, "stalled", TRUE) /\ Warns
        /\ Then(<<>>)
        /\ Works /\ UNCHANGED <<files, total>>
     \/ /\ room /\ Log(Id, seq) \notin DOMAIN files
        /\ files' = files @@ (Log(Id, seq) :> <<>>)
        /\ ent' = [ent EXCEPT ![Id].open = TRUE, ![Id].segs = Append(@, [seq |-> seq, bytes |-> 0])]
        /\ total' = total + 1
        /\ Then(<<>>)
        /\ Works /\ UNCHANGED warning
     \/ /\ room /\ (Refused \/ (Log(Id, seq) \in DOMAIN files /\ Works))
        /\ Throw(<<>>)
        /\ UNCHANGED <<files, ent, total, warning>>
  /\ UNCHANGED <<residue, writable, output, gone>> /\ Keeping

Writes ==
  LET e == ent[Id] IN
  /\ Doing("write")
  /\ IF ~e.open THEN Then(<<>>)
     ELSE IF e.segs = <<>> THEN Throw(<<>>)
     ELSE Then((IF Last(e.segs).bytes > 0 /\ Last(e.segs).bytes + 2 > SegmentLimit
                THEN <<Op("open", Id)>> ELSE <<>>)
               \o <<[do |-> "put", id |-> Id, u |-> This.u]>>)
  /\ Works /\ UNCHANGED <<disk, ent, residue, total, saving, output, gone>> /\ Keeping

LastLog(id) == Log(id, Last(ent[id].segs).seq)
Appended(u) == [files EXCEPT ![LastLog(Id)] = Append(@, u)]

Puts ==
  /\ Doing("put")
  /\ \/ ~ent[Id].open /\ Then(<<>>) /\ Works /\ UNCHANGED <<files, ent, total, printed>>
     \/ /\ ent[Id].open
        /\ files' = Appended(This.u)
        /\ ent' = [ent EXCEPT ![Id].segs[Len(ent[Id].segs)].bytes = @ + 2]
        /\ total' = total + 2
        /\ printed' = [printed EXCEPT ![Id] = Append(@, This.u)]
        /\ Then(<<>>) /\ Works
     \/ /\ ent[Id].open /\ Refused
        /\ files' \in {files, Appended(Torn)}
        /\ Throw(<<>>)
        /\ UNCHANGED <<ent, total, printed>>
  /\ UNCHANGED <<residue, saving, missed, gone>> /\ Keeping

\* The piece reaches the clients after append() has dealt with it.  It may not have
\* been saved: with nothing open it is dropped, and a write can fail.
Publishes ==
  LET lost == This.u \notin ToSet(printed[Id]) IN
  /\ Doing("publish")
  /\ printed' = IF lost THEN [printed EXCEPT ![Id] = Append(@, This.u)] ELSE printed
  /\ missed' = IF lost /\ warning # "none" THEN missed \cup {This.u} ELSE missed
  /\ Then(<<>>)
  /\ Works /\ UNCHANGED <<disk, ent, residue, total, saving, gone>> /\ Keeping

\* Mutant: output is added after whatever the prior run left.
ContinueAsIs ==
  /\ Doing("continue")
  /\ Then(<<Op(IF ent[Id].segs = <<>> THEN "open" ELSE "reopen", Id)>>)
  /\ Works /\ UNCHANGED <<disk, ent, residue, total, saving, output, gone>> /\ Keeping

\* continueSegment: a tail torn by the prior run is cut before anything is added.
ContinueSegment ==
  LET valid == Whole(files[LastLog(Id)]) IN
  /\ Doing("continue")
  /\ IF ent[Id].segs = <<>>
     THEN Then(<<Op("open", Id)>>) /\ UNCHANGED <<files, ent, total>>
     ELSE /\ files' = [files EXCEPT ![LastLog(Id)] = valid]
          /\ ent' = [ent EXCEPT ![Id].segs[Len(ent[Id].segs)].bytes = Size(valid)]
          /\ total' = total - (Last(ent[Id].segs).bytes - Size(valid))
          /\ Then(<<Op("reopen", Id)>>)
  /\ Works /\ UNCHANGED <<residue, saving, output, gone>> /\ Keeping

Reopen ==
  /\ Doing("reopen")
  /\ \/ Works /\ Entry(Id, "open", TRUE) /\ Then(<<>>)
     \/ Refused /\ Throw(<<>>) /\ UNCHANGED ent
  /\ UNCHANGED <<disk, residue, total, saving, output, gone>> /\ Keeping

(***************************************************************************)
(* The quota: ended sessions first, then the oldest output of running ones,*)
(* and persistence stops rather than exceed it.                            *)
(***************************************************************************)
Enforces ==
  /\ Doing("enforce")
  /\ Then(IF total <= TotalLimit THEN <<>> ELSE <<Retry(DOMAIN residue), Evict>>)
  /\ Works /\ UNCHANGED <<disk, ent, residue, total, saving, output, gone>> /\ Keeping

Evicts ==
  LET full    == {id \in DOMAIN ent : Bytes(id) > 0}
      largest == {id \in full : \A o \in full : Bytes(o) <= Bytes(id)} IN
  /\ Doing("evict")
  /\ \/ total <= TotalLimit /\ Then(<<>>)
     \/ /\ total > TotalLimit
        /\ \E id \in EndedIds : Then(<<Op("discard", id), Evict>>)
     \/ /\ total > TotalLimit /\ EndedIds = {}
        /\ \E id \in largest :
             \/ Len(ent[id].segs) >= 2 /\ Then(<<Op("drop", id)>>)
             \/ Len(ent[id].segs) < 2 /\ ent[id].open /\ Then(<<Op("open", id), Op("dropOpened", id)>>)
             \/ Len(ent[id].segs) < 2 /\ ~ent[id].open /\ Throw(<<>>)
     \/ total > TotalLimit /\ EndedIds = {} /\ full = {} /\ Throw(<<>>)
  /\ Works /\ UNCHANGED <<disk, ent, residue, total, saving, output, gone>> /\ Keeping

DropOpened ==
  /\ Doing("dropOpened")
  /\ IF ent[Id].open THEN Then(<<Op("drop", Id)>>) ELSE Throw(<<>>)
  /\ Works /\ UNCHANGED <<disk, ent, residue, total, saving, output, gone>> /\ Keeping

Drop ==
  LET first == ent[Id].segs[1] IN
  /\ Doing("drop")
  /\ Entry(Id, "segs", Tail(ent[Id].segs))
  /\ \/ Deletes(Log(Id, first.seq), first.bytes) /\ Then(<<Evict>>)
     \/ Refuses(Log(Id, first.seq), first.bytes) /\ Throw(<<>>)
  /\ UNCHANGED <<saving, output, gone>> /\ Keeping

(***************************************************************************)
(* Control: handlers, expiry, and what a removal writes.                   *)
(***************************************************************************)
Fails ==
  /\ Doing("fail")
  /\ writable' = FALSE /\ warning' = "failed"
  /\ ent' = [id \in DOMAIN ent |-> [ent[id] EXCEPT !.open = FALSE]]
  /\ Then(<<>>)
  /\ Works /\ UNCHANGED <<disk, residue, total, output, gone>> /\ Keeping

Control ==
  /\ \/ Doing("throw") /\ Throw(<<>>)
     \/ Doing("guarded") /\ Then(IF writable THEN This.ops \o <<Catch(<<Fail>>)>> ELSE <<>>)
     \/ Doing("expire") /\ \/ Then(<<>>)
                           \/ \E id \in This.of : Then(<<Op("discard", id), Expire(This.of \ {id})>>)
  /\ Works /\ UNCHANGED <<disk, ent, residue, total, saving, output, gone>> /\ Keeping

Marks ==
  /\ \/ /\ Doing("mark") /\ writable
        /\ Entry(Id, "end", "closed")
        /\ Then(<<Op("writeTemp", Id), Catch(<<>>)>>)
     \/ Doing("mark") /\ ~writable /\ Then(<<>>) /\ UNCHANGED ent
     \/ /\ Doing("undismissed")
        /\ Entry(Id, "end", IF ent[Id].end = "none" THEN "closed" ELSE ent[Id].end)
        /\ Then(<<>>)
  /\ Works /\ UNCHANGED <<disk, residue, total, saving, output, gone>> /\ Keeping

Step == \/ WriteTemp \/ Rename \/ Releases \/ RetryResidue \/ RecoverStalled \/ Discard
        \/ OpenSegment \/ CreateSegment \/ Writes \/ Puts \/ Publishes \/ ContinueSegment \/ Reopen
        \/ Enforces \/ Evicts \/ DropOpened \/ Drop \/ Fails \/ Control \/ Marks

(***************************************************************************)
(* Calls of the terminal manager.                                          *)
(***************************************************************************)
Ready == up /\ todo = <<>>
NewEntry == [meta |-> FALSE, segs |-> <<>>, open |-> FALSE, stalled |-> FALSE, end |-> "none"]
NoFile   == UNCHANGED <<disk, residue, total, saving, trusted, up, faults, run>>

Each(Do(_, _), id, pieces) == [i \in DOMAIN pieces |-> Do(id, pieces[i])]

BeginWith(id, pieces) ==
  IF writable
  THEN /\ ent' = ent @@ (id :> NewEntry)
       /\ todo' = <<Op("writeTemp", id), Op("open", id)>> \o Each(Write, id, pieces)
                  \o <<Catch(<<Op("discard", id), Catch(<<>>), [do |-> "throw"]>>), Enforce, Catch(<<Fail>>)>>
                  \o Each(Publish, id, pieces)
       /\ printed' = [printed EXCEPT ![id] = <<>>]
       /\ gone' = [gone EXCEPT ![id] = 0]
  ELSE /\ todo' = Each(Publish, id, pieces)
       /\ UNCHANGED <<ent, printed, gone>>

\* A new terminal, with what it printed before its record was made.
Begin(id) ==
  /\ Ready /\ owner[id] = "none"
  /\ owner' = [owner EXCEPT ![id] = "live"]
  /\ attached' = attached \cup {id}
  /\ \/ BeginWith(id, <<>>) /\ UNCHANGED used
     \/ used < MaxUnits /\ used' = used + 1 /\ BeginWith(id, <<used + 1>>)
  /\ UNCHANGED <<past, missed, mixed>> /\ NoFile

\* resume: the session goes on where the end by restart left it.
Resumable(id) == ent[id].end = "restart" /\ ~ent[id].stalled /\ writable
Resume(id) ==
  /\ Entry(id, "end", "none")
  /\ todo' = <<Op("writeTemp", id), Op("continue", id), Enforce, Catch(<<Fail>>)>>

\* A process of a prior runtime is reattached: its session resumes, or begins anew.
\* What this runtime gave up it does not take back: it is shutting down, or dropped
\* the process's reattach record.
Reattach(id) ==
  /\ Ready /\ owner[id] = "live" /\ id \notin attached \cup past
  /\ attached' = attached \cup {id}
  /\ \/ id \in DOMAIN ent /\ Resumable(id) /\ Resume(id) /\ UNCHANGED story
     \/ id \in DOMAIN ent /\ ~Resumable(id) /\ UNCHANGED <<ent, todo, story>>
     \/ /\ id \notin DOMAIN ent
        /\ BeginWith(id, <<>>) /\ UNCHANGED missed
        /\ mixed' = IF \E n \in DOMAIN files : n[1] = id /\ n[2] = "log" THEN mixed \cup {id} ELSE mixed
  /\ UNCHANGED <<past, owner, used>> /\ NoFile

\* onData: append() saves the piece if the session is open for it, or drops it.
Output(id) ==
  /\ Ready /\ id \in attached /\ owner[id] = "live"
  /\ used < MaxUnits /\ used' = used + 1
  /\ todo' = (IF id \in DOMAIN ent /\ ent[id].open /\ writable
                THEN <<Write(id, used + 1), Enforce, Catch(<<Fail>>)>> ELSE <<>>)
             \o <<Publish(id, used + 1)>>
  /\ UNCHANGED <<ent, attached, past, owner, story>> /\ NoFile

\* The session's record is closed with an end: end() after a verified exit, finish()
\* when the runtime shuts down or hands the process back.
Ends(id, end, after) ==
  /\ attached' = attached \ {id} /\ past' = past \cup {id}
  /\ IF id \in DOMAIN ent
     THEN /\ ent' = [ent EXCEPT ![id].end = end, ![id].open = IF writable THEN FALSE ELSE @]
          /\ todo' = <<Guarded(<<Op("writeTemp", id)>> \o after)>>
     ELSE UNCHANGED <<ent, todo>>
  /\ UNCHANGED <<story, used>> /\ NoFile

End(id) ==
  /\ Ready /\ id \in attached /\ owner[id] = "live"
  /\ owner' = [owner EXCEPT ![id] = "ended"]
  /\ Ends(id, "exit", <<Enforce>>)

Finish(id) ==
  /\ Ready /\ id \in attached
  /\ \E end \in {"exit", "restart"} :
       /\ owner' = IF end = "exit" THEN [owner EXCEPT ![id] = "ended"] ELSE owner
       /\ Ends(id, IF id \in DOMAIN ent /\ ent[id].end # "none" THEN ent[id].end ELSE end, <<>>)

Dismiss(id) ==
  /\ Ready /\ id \in DOMAIN ent
  /\ owner' = [owner EXCEPT ![id] = "ended"]
  /\ attached' = attached \ {id} /\ past' = past \cup {id}
  /\ todo' = <<Retry(DOMAIN residue), Op("mark", id), Op("discard", id),
               Catch(<<Op("undismissed", id), Fail>>)>>
  /\ UNCHANGED <<ent, story, used>> /\ NoFile

\* sweep() on its timer; saved() expires too, without retrying deletions.
Sweep ==
  /\ Ready /\ trusted
  /\ \E after \in {<<>>, <<Retry(DOMAIN residue)>>} :
       todo' = <<Expire(EndedIds), Catch(<<Fail>>)>> \o after
  /\ UNCHANGED <<ent, attached, past, owner, story, used>> /\ NoFile

(***************************************************************************)
(* Runtimes.                                                               *)
(***************************************************************************)
Forgets ==
  /\ up' = FALSE /\ writable' = FALSE /\ trusted' = FALSE /\ warning' = "none"
  /\ ent' = <<>> /\ residue' = <<>> /\ total' = 0
  /\ todo' = <<>> /\ attached' = {} /\ past' = {}

Stop ==
  /\ Ready /\ attached = {}
  /\ Forgets
  /\ UNCHANGED <<disk, owner, story, bounds>>

\* The process dies, perhaps half way through an append.
Crash ==
  /\ up
  /\ Forgets
  /\ files' \in {files} \cup (IF Doing("put") /\ ent[Id].open THEN {Appended(Torn)} ELSE {})
  /\ UNCHANGED <<owner, story, bounds>>

\* loadEntry: what a record found in the directory is served as.
Segments(id) ==
  LET seqs == SetToSortSeq({n[3] : n \in {m \in DOMAIN files : m[1] = id /\ m[2] = "log"}}, <)
  IN  [i \in DOMAIN seqs |-> [seq |-> seqs[i], bytes |-> Weight(Log(id, seqs[i]))]]
LastTwo(s)   == SubSeq(s, IF Len(s) > 2 THEN Len(s) - 1 ELSE 1, Len(s))
\* Mutant: a record that says dismissed is served.
RestoredAll  == {id \in Ids : Meta(id) \in DOMAIN files}
Restored     == {id \in Ids : Meta(id) \in DOMAIN files /\ files[Meta(id)] # "closed"}
Interrupted  == {id \in Restored : files[Meta(id)] = "none"}
Loaded(id) ==
  [meta |-> TRUE, segs |-> LastTwo(Segments(id)), open |-> FALSE, stalled |-> FALSE,
   end |-> IF id \in Interrupted THEN "restart" ELSE files[Meta(id)]]
Served       == {Meta(id) : id \in Restored}
                \cup UNION {{Log(id, g.seq) : g \in ToSet(LastTwo(Segments(id)))} : id \in Restored}

\* load: temporaries, orphans and dismissed records are deleted; a record without an end
\* ended by restart, now, and that is written before anything else is done.
Start ==
  /\ ~up /\ run < MaxRuns /\ run' = run + 1
  /\ up' = TRUE
  /\ \/ /\ Works
        /\ trusted' = TRUE /\ writable' = TRUE /\ warning' = "none"
        /\ ent' = [id \in Restored |-> Loaded(id)]
        /\ total' = Usage
        /\ todo' = <<[do |-> "clean", names |-> DOMAIN files \ Served],
                     Guarded(<<[do |-> "markAll", ids |-> Interrupted]>>),
                     Expire(Restored \ Interrupted), Catch(<<Fail>>),
                     Guarded(<<Enforce>>)>>
     \/ Refused /\ warning' = "failed" /\ UNCHANGED <<trusted, writable, ent, total, todo>>
  /\ UNCHANGED <<disk, residue, attached, past, owner, story, used>>

Loads ==
  /\ \/ /\ Doing("clean")
        /\ IF This.names = {} THEN Then(<<>>)
           ELSE \E n \in This.names :
                  /\ n[2] = "meta" => \A o \in This.names : o[1] = n[1] => o[2] # "log"
                  /\ Then(<<Release(n, Weight(n)), [This EXCEPT !.names = @ \ {n}]>>)
     \/ /\ Doing("markAll")
        /\ IF This.ids = {} THEN Then(<<>>)
           ELSE \E id \in This.ids : Then(<<Op("writeTemp", id), [This EXCEPT !.ids = @ \ {id}]>>)
  /\ Works /\ UNCHANGED <<disk, ent, residue, total, saving, output, gone>> /\ Keeping

Init ==
  /\ files = <<>> /\ ent = <<>> /\ residue = <<>> /\ total = 0
  /\ writable = FALSE /\ trusted = FALSE /\ up = FALSE
  /\ todo = <<>> /\ attached = {} /\ past = {}
  /\ owner = [id \in Ids |-> "none"]
  /\ warning = "none" /\ printed = [id \in Ids |-> <<>>] /\ missed = {}
  /\ gone = [id \in Ids |-> 0] /\ mixed = {}
  /\ used = 0 /\ faults = 0 /\ run = 0

Next ==
  \/ Step \/ Loads \/ Sweep \/ Stop \/ Crash \/ Start
  \/ \E id \in Ids : Begin(id) \/ Reattach(id) \/ Output(id) \/ End(id) \/ Finish(id) \/ Dismiss(id)

Spec == Init /\ [][Next]_vars

\* The values the variables take; nothing is charged as undeletable that is gone.
TypeOK ==
  /\ \A n \in DOMAIN files : n[1] \in Ids /\ n[2] \in {"meta", "log", "tmp"}
  /\ DOMAIN ent \subseteq Ids /\ DOMAIN residue \subseteq DOMAIN files /\ total \in Nat
  /\ attached \subseteq Ids /\ owner \in [Ids -> {"none", "live", "ended"}]
  /\ warning \in {"none", "stalled", "failed"} /\ missed \subseteq 1..used

(***************************************************************************)
(* Properties.                                                             *)
(***************************************************************************)
\* What is served of a terminal is the end of what it printed, whole and in
\* order: over torn appends, deletions that are refused, and every death and
\* restart nothing is repeated and no other session's output gets in.  Pieces that
\* came while status() warned that output was not being saved are the only ones
\* that may be missing; once saving goes on they leave a hole, which is not marked.
\* (A terminal of an earlier runtime whose record is gone but whose output could
\* not be deleted is excepted: see `mixed'.)
OutputUnbroken ==
  Ready => \A id \in DOMAIN ent \ mixed :
    IsSuffix(Read(id), SelectSeq(printed[id], LAMBDA u : u \notin missed))

\* A dismissal that was recorded outlives the runtime, whatever could not be
\* deleted with it.
DismissedStaysGone ==
  \A id \in DOMAIN ent : gone[id] \in {0, run}

\* What a reader is served is a session's own unbroken output, and never that of
\* a session the user dismissed before.
ServedIsPrinted == OutputUnbroken /\ DismissedStaysGone

\* A terminal never has more than two segments on disk, those that could not be
\* deleted included; and while output is saved the charge is what the directory
\* holds, and within the quota.
WithinCaps ==
  /\ \A id \in Ids : Cardinality({n \in DOMAIN files : n[1] = id /\ n[2] = "log"}) <= 2
  /\ Ready /\ writable => Usage = total /\ total <= TotalLimit

ServedLogs(id) == {Log(id, ent[id].segs[i].seq) : i \in DOMAIN ent[id].segs}

\* The output of an ended session is whole as long as its record is there: a
\* removal that is cut short leaves output without a record, never a record
\* with part of its output.
EndsWhole ==
  \A id \in DOMAIN ent :
    Meta(id) \in DOMAIN files /\ files[Meta(id)] \in {"exit", "restart"}
      => ServedLogs(id) \cap DOMAIN files \subseteq DOMAIN files'

\* No step of the store breaks an ended session apart.
EndedIsWhole == [][EndsWhole]_vars
=============================================================================
