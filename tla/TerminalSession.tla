-------------------------- MODULE TerminalSession --------------------------
(***************************************************************************)
(* One shell that outlives its runtimes: its broker                        *)
(* (server/terminal-broker.mjs), the runtimes that hold it one after the   *)
(* other over a private socket (server/managed-terminal.mjs), and the      *)
(* native supervisor that keeps it for a window while nobody does          *)
(* (server/agent-supervisor.c, --detach-on-owner-exit).  The shell was     *)
(* started by the first runtime, which holds it initially.                 *)
(*                                                                         *)
(* A token is a number.  The output is numbered units, and a notice says   *)
(* how many are missing.  Timers count down to 0 and may fire any time     *)
(* after.  A window has no ticks left once it is over.                     *)
(***************************************************************************)
EXTENDS Naturals, Sequences, SequencesExt

CONSTANTS
    MaxRuntimes, \* bound: runtimes, one after the other
    MaxOutput,   \* bound: units the shell prints
    HighWater,   \* frames the socket takes before it pauses the broker
    RingLimit,   \* units a detached broker keeps
    Window,      \* the detach window
    Grace        \* what the supervisor adds to it

ASSUME SessionBounds == /\ {MaxRuntimes, MaxOutput, RingLimit, Grace} \subseteq Nat
                        /\ HighWater \in Nat \ {0} /\ Window \in Nat \ {0}

VARIABLES
    shell,                      \* "up", "ending" or "gone"
    session, token, detached,   \* the broker: reattachable, accepting this token
    peer, authenticated, challenged, \* its only connection
    pending, omitted, paused,   \* output it has not sent
    ring, dropped,              \* output it keeps while detached
    left,                       \* ticks left of its window
    up, down, open,             \* the connection, and whether the runtime holds its end
    runtime, pc,                \* which runtime there is, and what it does
    record, offered,            \* the stored token, the one it offers
    printed, last, accounted,   \* output: printed; last unit saved; units whose fate is known
    owner, pipe,                \* the supervisor's control and status pipes
    reattached, deadline,       \* its view of the broker, ticks to its deadline
    sample, stopped             \* its expiry check, and why it ended the shell

broker == <<session, token, detached, peer, authenticated, challenged>>
output == <<pending, omitted, paused, ring, dropped>>
wire == <<up, down, open>>
client == <<runtime, pc, record, offered>>
log == <<printed, last, accounted>>
supervisor == <<owner, pipe, reattached, deadline, sample, stopped>>
vars == <<shell, broker, output, left, wire, client, log, supervisor>>

NoWindow == Window + Grace + 1
NoSample == [taken |-> FALSE, due |-> FALSE, idle |-> TRUE]
Data(u) == [type |-> "data", unit |-> u]
Notice(n) == [type |-> "notice", unit |-> n]
Msg(type, tok) == [type |-> type, unit |-> tok]
Least(a, b) == IF a < b THEN a ELSE b

\* How many units the frames carry or announce as missing.
Units(frames) == FoldLeft(LAMBDA n, f : n + (IF f.type = "data" THEN 1 ELSE
                             IF f.type = "notice" THEN f.unit ELSE 0), 0, frames)

Init ==
    /\ shell = "up" /\ session = TRUE /\ token = 1 /\ detached = FALSE
    /\ peer = 1 /\ authenticated = TRUE /\ challenged = FALSE
    /\ pending = <<>> /\ omitted = 0 /\ paused = FALSE /\ ring = <<>> /\ dropped = 0
    /\ left = 0 /\ up = <<>> /\ down = <<>> /\ open = TRUE
    /\ runtime = 1 /\ pc = "live" /\ record \in {0, 1} /\ offered = 1
    /\ printed = 0 /\ last = 0 /\ accounted = 0
    /\ owner = TRUE /\ pipe = <<>> /\ reattached = FALSE /\ deadline = NoWindow
    /\ sample = NoSample /\ stopped = "no"

(***************************************************************************)
(* The broker's output.                                                    *)
(***************************************************************************)
\* flushOutput: frames go out until the socket asks to wait; then a notice of
\* what was shed, and the broker reads its shell again.
Flush(text, shed, sent) ==
    LET room == IF Len(sent) < HighWater THEN HighWater - Len(sent) ELSE 0
        n == Least(Len(text), room)
        frames == [i \in 1..n |-> Data(text[i])]
        tail == IF n < room /\ shed > 0 THEN <<Notice(shed)>> ELSE <<>>
    IN /\ down' = sent \o frames \o tail
       /\ pending' = SubSeq(text, n + 1, Len(text))
       /\ omitted' = IF tail # <<>> THEN 0 ELSE shed
       /\ paused' = (Len(down') >= HighWater)

Excess(all) == IF Len(all) > RingLimit THEN Len(all) - RingLimit ELSE 0

\* The ring keeps the newest units and counts those it dropped.
Push(kept, text) ==
    LET all == kept \o text
    IN [kept |-> SubSeq(all, Excess(all) + 1, Len(all)), dropped |-> Excess(all)]

\* Output is sent, shed behind a reader that is behind, or kept in the ring.
Prints ==
    /\ shell = "up" /\ printed < MaxOutput /\ printed' = printed + 1
    /\ IF detached
       THEN LET r == Push(ring, <<printed'>>)
            IN /\ ring' = r.kept /\ dropped' = dropped + r.dropped
               /\ UNCHANGED <<pending, omitted, paused, down>>
       ELSE /\ UNCHANGED <<ring, dropped>>
            /\ IF paused \/ pending # <<>> \/ peer = 0
               THEN omitted' = omitted + 1 /\ UNCHANGED <<pending, paused, down>>
               ELSE Flush(<<printed'>>, omitted, down)
    /\ UNCHANGED <<shell, broker, left, up, open, client, last, accounted, supervisor>>

\* The socket drained.
Drain ==
    /\ paused /\ down = <<>> /\ peer # 0 /\ shell # "gone"
    /\ Flush(pending, omitted, <<>>)
    /\ UNCHANGED <<shell, broker, ring, dropped, left, up, open, client, log, supervisor>>

\* A peer that never drains loses the shell.
StalledReader ==
    /\ paused /\ peer # 0 /\ shell = "up"
    /\ session' = FALSE /\ shell' = "ending" /\ peer' = 0
    /\ UNCHANGED <<token, detached, authenticated, challenged, output, left, wire,
                   client, log, supervisor>>

(***************************************************************************)
(* The broker's connection.                                                *)
(***************************************************************************)
\* Mutant: what was not sent yet is forgotten.
Forgotten(text) == <<>>
Unsent(text) == text

\* detach: the unsent output opens the ring, the window starts, and the
\* supervisor is told.
Detach ==
    LET r == Push(<<>>, Unsent(pending))
    IN /\ detached' = TRUE /\ peer' = 0 /\ authenticated' = FALSE /\ challenged' = FALSE
       /\ ring' = r.kept /\ dropped' = omitted + r.dropped
       /\ pending' = <<>> /\ omitted' = 0 /\ paused' = FALSE
       /\ left' = Window /\ pipe' = Append(pipe, "detached")

Destroyed == /\ peer' = 0 /\ authenticated' = FALSE /\ challenged' = FALSE
             /\ up' = <<>>

\* A detached broker proves its token over the client's nonce.
Challenge ==
    /\ peer # 0 /\ up # <<>> /\ Head(up).type = "reattach"
    /\ IF detached /\ session /\ shell = "up" /\ ~challenged
       THEN /\ challenged' = TRUE /\ up' = Tail(up)
            /\ down' = Append(down, Msg("challenge", token))
            /\ UNCHANGED <<peer, authenticated>>
       ELSE Destroyed /\ UNCHANGED down
    /\ UNCHANGED <<shell, session, token, detached, output, left, open, client, log, supervisor>>

\* Mutant: the token that was proved stays the one that is accepted.
Unrotated(next) == token
Rotated(next) == next

\* The client proves the current token: it is attached, the token is replaced,
\* and what the ring kept is sent first.
Prove ==
    /\ peer # 0 /\ up # <<>> /\ Head(up).type = "prove"
    /\ IF detached /\ session /\ shell = "up" /\ challenged /\ Head(up).unit = token
       THEN /\ detached' = FALSE /\ authenticated' = TRUE /\ token' = Rotated(token + 1)
            /\ pipe' = Append(pipe, "attached") /\ left' = 0
            /\ up' = Tail(up) /\ ring' = <<>> /\ dropped' = 0
            /\ Flush(ring, 0, <<Msg("reattached", 0)>> \o
                 (IF dropped > 0 THEN <<Notice(dropped)>> ELSE <<>>))
            /\ UNCHANGED <<peer, challenged>>
       ELSE /\ Destroyed
            /\ UNCHANGED <<detached, token, pipe, left, down, pending, omitted, paused, ring, dropped>>
    /\ UNCHANGED <<shell, session, open, client, log, owner, reattached, deadline, sample, stopped>>

\* The peer hands the shell back.  It reads every frame already sent, up to
\* the acknowledgement.
Released ==
    /\ peer # 0 /\ up # <<>> /\ Head(up).type = "release" /\ up' = Tail(up)
    /\ IF shell = "up" /\ session
       THEN Detach /\ down' = Append(down, Msg("released", 0))
       ELSE UNCHANGED <<detached, peer, authenticated, challenged, output, left, pipe, down>>
    /\ UNCHANGED <<shell, session, token, open, client, log, owner, reattached, deadline,
                   sample, stopped>>

\* The peer ends the shell: the session is over.
Terminated ==
    /\ peer # 0 /\ up # <<>> /\ Head(up).type = "terminate" /\ up' = Tail(up)
    /\ IF shell = "up" THEN session' = FALSE /\ shell' = "ending" ELSE UNCHANGED <<session, shell>>
    /\ UNCHANGED <<token, detached, peer, authenticated, challenged, output, left, down, open,
                   client, log, supervisor>>

\* The broker notices that its peer closed: it detaches a session it was
\* attached to, forgets an attempt to reattach, and ends any other shell.
PeerCloses ==
    /\ peer # 0 /\ ~open /\ up = <<>>
    /\ IF detached THEN /\ Destroyed
                        /\ UNCHANGED <<shell, detached, output, left, pipe>>
       ELSE IF session /\ shell = "up" THEN Detach /\ UNCHANGED <<shell, up>>
       ELSE /\ Destroyed /\ shell' = IF shell = "up" THEN "ending" ELSE shell
            /\ UNCHANGED <<detached, output, left, pipe>>
    /\ UNCHANGED <<session, token, down, open, client, log, owner, reattached, deadline,
                   sample, stopped>>

\* An attempt that never completes does not keep the only place.
HandshakeTimeout ==
    /\ peer # 0 /\ detached /\ Destroyed
    /\ UNCHANGED <<shell, session, token, detached, output, left, down, open, client, log, supervisor>>

\* The window ends the shell.
Expires ==
    /\ detached /\ left = 0 /\ shell = "up"
    /\ session' = FALSE /\ shell' = "ending" /\ Destroyed
    /\ UNCHANGED <<token, detached, output, left, down, open, client, log, supervisor>>

Exits ==
    /\ shell # "gone" /\ shell' = "gone" /\ peer' = 0
    /\ UNCHANGED <<session, token, detached, authenticated, challenged, output, left, wire,
                   client, log, supervisor>>

(***************************************************************************)
(* The runtimes, one after the other.                                      *)
(***************************************************************************)
\* A new runtime reads the record and asks for the shell.  The broker has one
\* connection at a time; frames an earlier one never read are lost.
Start ==
    /\ pc = "off" /\ runtime < MaxRuntimes /\ runtime' = runtime + 1
    /\ accounted' = accounted + Units(down) /\ down' = <<>>
    /\ IF record # 0 /\ peer = 0 /\ session /\ shell # "gone"
       THEN /\ peer' = runtime' /\ up' = <<Msg("reattach", 0)>> /\ open' = TRUE
            /\ offered' = record /\ pc' = "asking" /\ UNCHANGED record
       ELSE /\ pc' = "failed" /\ record' = 0 /\ UNCHANGED <<peer, up, open, offered>>
    /\ UNCHANGED <<shell, session, token, detached, authenticated, challenged, output, left,
                   printed, last, supervisor>>

Hangs == open' = FALSE /\ down' = <<>> /\ accounted' = accounted + Units(down)

\* The broker's proof holds: the token is spent, unless the runtime is about to
\* stop.
Proceed ==
    /\ pc = "asking" /\ down # <<>> /\ Head(down) = Msg("challenge", offered)
    /\ \/ pc' = "proving" /\ up' = Append(up, Msg("prove", offered))
          /\ down' = Tail(down) /\ UNCHANGED <<open, accounted>>
       \/ pc' = "off" /\ Hangs /\ UNCHANGED up
    /\ UNCHANGED <<shell, broker, output, left, runtime, record, offered, printed, last, supervisor>>

\* Attached: the next token is stored, which may fail.
Attached ==
    /\ pc = "proving" /\ down # <<>> /\ Head(down).type = "reattached"
    /\ pc' = "live" /\ down' = Tail(down) /\ offered' = offered + 1
    /\ record' \in {0, offered + 1}
    /\ UNCHANGED <<shell, broker, output, left, up, open, runtime, log, supervisor>>

\* Refused, or out of time, even after the broker accepted: the token is not
\* offered again.
Refused ==
    /\ pc \in {"asking", "proving"} /\ pc' = "failed" /\ record' = 0 /\ Hangs
    /\ UNCHANGED <<shell, broker, output, left, up, runtime, offered, printed, last, supervisor>>

\* A frame reaches the saved session.
Save ==
    /\ pc \in {"live", "releasing", "ending"} /\ open /\ down # <<>> /\ down' = Tail(down)
    /\ accounted' = accounted + Units(<<Head(down)>>)
    /\ last' = IF Head(down).type = "data" THEN Head(down).unit ELSE last
    /\ Head(down).type \in {"data", "notice"}
    /\ UNCHANGED <<shell, broker, output, left, up, open, client, printed, supervisor>>

Release ==
    /\ pc = "live" /\ open /\ pc' = "releasing" /\ up' = Append(up, Msg("release", 0))
    /\ UNCHANGED <<shell, broker, output, left, down, open, runtime, record, offered, log, supervisor>>

\* The broker's acknowledgement hands it back, and the first runtime leaves its
\* supervisor.
Acknowledged ==
    /\ pc = "releasing" /\ down # <<>> /\ Head(down).type = "released"
    /\ pc' = "off" /\ open' = FALSE /\ down' = Tail(down)
    /\ owner' = (owner /\ runtime # 1)
    /\ UNCHANGED <<shell, broker, output, left, up, runtime, record, offered, log, pipe,
                   reattached, deadline, sample, stopped>>

\* Without it, after a lost connection or when the user closes the terminal,
\* the shell is ended.
Ends ==
    /\ pc \in {"live", "releasing"} /\ pc' = "ending"
    /\ \/ open /\ up' = Append(up, Msg("terminate", 0)) /\ UNCHANGED <<open, down, accounted>>
       \/ Hangs /\ UNCHANGED up
    /\ UNCHANGED <<shell, broker, output, left, runtime, record, offered, printed, last, supervisor>>

\* Native recovery, or the supervisor's own stop, ends the owner.
Recover ==
    /\ pc \in {"failed", "ending"} /\ shell = "up" /\ shell' = "ending"
    /\ stopped' = IF stopped = "no" THEN "asked" ELSE stopped
    /\ UNCHANGED <<broker, output, left, wire, client, log, owner, pipe, reattached, deadline, sample>>

\* The runtime ends, or dies: its end of the connection and of the supervisor's
\* control pipe close.
Leaves ==
    /\ pc # "off" /\ pc' = "off" /\ Hangs /\ owner' = (owner /\ runtime # 1)
    /\ record' = IF shell = "gone" /\ pc \in {"failed", "ending"} THEN 0 ELSE record
    /\ UNCHANGED <<shell, broker, output, left, up, runtime, offered, printed, last, pipe,
                   reattached, deadline, sample, stopped>>

(***************************************************************************)
(* The supervisor's loop.                                                  *)
(***************************************************************************)
Held == shell = "up" /\ ~detached /\ peer # 0 /\ open
InWindow == detached /\ left > 0

\* It notes whether its owner left and whether its deadline has passed, before
\* it reads what the broker announced.
Sample ==
    /\ shell # "gone" /\ stopped = "no" /\ ~sample.taken
    /\ sample' = [taken |-> TRUE, due |-> deadline = 0, idle |-> ~Held /\ ~InWindow]
    /\ UNCHANGED <<shell, broker, output, left, wire, client, log, owner, pipe, reattached,
                   deadline, stopped>>

\* Mutant: an announcement leaves the deadline of the last window.
Stays(at) == at
Restarted(at) == NoWindow

Announced == IF pipe = <<>> THEN reattached ELSE Last(pipe) = "attached"

\* The last announcement pauses the window or starts it again.  A deadline that
\* had passed and was not moved ends the shell.
Decide ==
    /\ sample.taken /\ stopped = "no" /\ shell # "gone" /\ pipe' = <<>>
    /\ reattached' = Announced
    /\ LET at == IF pipe = <<>> THEN deadline ELSE Restarted(deadline)
       IN IF at # NoWindow /\ sample.due
          THEN /\ stopped' = "window" /\ shell' = "ending" /\ deadline' = at /\ UNCHANGED sample
          ELSE /\ deadline' = IF ~owner /\ ~reattached' /\ at = NoWindow THEN Window + Grace ELSE at
               /\ sample' = NoSample /\ UNCHANGED <<shell, stopped>>
    /\ UNCHANGED <<broker, output, left, wire, client, log, owner>>

Tick ==
    /\ shell # "gone" /\ (left > 0 \/ deadline \in 1..(Window + Grace))
    /\ left' = IF left > 0 THEN left - 1 ELSE 0
    /\ deadline' = IF deadline \in 1..(Window + Grace) THEN deadline - 1 ELSE deadline
    /\ UNCHANGED <<shell, broker, output, wire, client, log, owner, pipe, reattached, sample, stopped>>

Serves == Challenge \/ Prove \/ Released \/ Terminated \/ PeerCloses
Supervises == Sample \/ Decide
Dead == shell = "ending" /\ Exits

Next ==
    \/ Prints \/ Drain \/ StalledReader \/ Serves \/ HandshakeTimeout \/ Expires \/ Exits
    \/ Start \/ Proceed \/ Attached \/ Refused \/ Save \/ Release \/ Acknowledged \/ Ends
    \/ Recover \/ Leaves \/ Supervises \/ Tick

Spec == Init /\ [][Next]_vars

(***************************************************************************)
(* Properties.                                                             *)
(***************************************************************************)
TypeOK ==
    /\ shell \in {"up", "ending", "gone"}
    /\ {session, detached, authenticated, challenged, paused, open, owner, reattached} \subseteq BOOLEAN
    /\ token \in 1..MaxRuntimes /\ record \in 0..MaxRuntimes /\ offered \in 1..MaxRuntimes
    /\ runtime \in 1..MaxRuntimes /\ peer \in 0..runtime
    /\ pc \in {"off", "asking", "proving", "live", "releasing", "ending", "failed"}
    /\ pending \in Seq(1..MaxOutput) /\ ring \in Seq(1..MaxOutput) /\ Len(ring) <= RingLimit
    /\ {printed, last, accounted, omitted, dropped} \subseteq 0..MaxOutput
    /\ left \in 0..Window /\ deadline \in 0..NoWindow
    /\ stopped \in {"no", "window", "asked"}

\* Output is saved in order, once, and never with a silent gap, over hand-backs,
\* reattaches, slow readers and runtimes that die: when a unit is saved, each
\* one before it was saved, was counted by a notice, or had been sent to a
\* runtime that died or gave up with it unread, and none twice.  (A notice can
\* stand before older output: what was shed behind a peer that leaves is counted
\* first in the ring.)
NothingLostSilently ==
    [][accounted' # accounted => last <= last' /\ last' <= accounted' /\ accounted' <= printed]_<<last, accounted>>

\* A shell stays its runtime's.  A runtime that holds it, and everyone after a
\* clean hand-back, has on record the token the broker accepts, unless it could
\* not be stored; and the supervisor ends no shell that a runtime held, nor one
\* whose window was still running, when it looked at the clock.  (The types of
\* the state are checked with it.)
HeldShellKept ==
    /\ TypeOK
    /\ (pc \in {"live", "releasing"} /\ session) => record \in {0, token}
    /\ stopped = "window" => sample.idle

=============================================================================
