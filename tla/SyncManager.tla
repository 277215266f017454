----------------------------- MODULE SyncManager -----------------------------
(***************************************************************************)
(* syncclient.Manager as a set of goroutines: the loop of Run, the writer   *)
(* of each connection and the callers of Flush, joined by the channels      *)
(* flushCh, flushRequests, writeErrCh and results.                          *)
(*                                                                         *)
(* SyncSession treats a connection as reliable plumbing around the state    *)
(* machine of baseclient; here the plumbing is the subject and the state    *)
(* machine is reduced to what the plumbing can lose: the items the client   *)
(* stands for (active subscriptions, pending mutations, the identity), the  *)
(* queue of messages that carry them and a counter of result snapshots.     *)
(***************************************************************************)
EXTENDS Integers, Sequences, FiniteSets, SequencesExt

CONSTANTS
  Callers,      \* goroutines of the application
  nobody,       \* the ack channel of a flush nobody waits for
  flushCap,     \* capacity of flushCh and of flushRequests
  resultsCap    \* capacity of results

Sub(c) == <<"subscription", c>>   \* the subscription caller c creates
Change(c) == <<"mutation", c>>    \* the mutation caller c makes
Identity == <<"identity">>

Subs == {Sub(c) : c \in Callers}
Changes == {Change(c) : c \in Callers}

VARIABLES
  held,      \* baseclient: what RestartForReconnect would send again
  queue,     \* baseclient: outgoing
  version,   \* baseclient: how often the results changed
  answered,  \* baseclient: the subscriptions that have a result
  loop,      \* the program counter of Run and what it carries
  transitions, \* bound: transitions still to come
  onServer,  \* what was written to the current connection and still holds
  flushCh, requests, writeErr, results,
  ack,       \* the ack channel of each caller's current Flush; "lost" when
             \* the last reference to its sending end is gone
  writer,    \* writeLoop of the current connection
  old,       \* writeLoop of a connection that is over
  taken,     \* history: the items an old writer took from a rebuilt queue
  mdone,     \* Manager.done is closed
  cancelled  \* the context of Run is cancelled

baseVars == <<held, queue, version, answered>>
loopVars == <<loop, transitions, onServer>>
writerVars == <<requests, writeErr, writer, old, taken>>
managerVars == <<baseVars, loopVars, writerVars, flushCh, results, ack, mdone, cancelled>>

-----------------------------------------------------------------------------
(* The client state machine, as far as the manager sees it *)

AddMsg(items) == [op |-> "add", items |-> items]
RemoveMsg(items) == [op |-> "remove", items |-> items]

Snapshot == [version |-> version, has |-> answered]

\* Manager.Subscribe, Mutation and the identity setters hold the manager's lock
\* for the whole call.
Hold(item) ==
  /\ held' = held \cup {item}
  /\ queue' = Append(queue, AddMsg({item}))

UnsubscribeKeepsResult(sub) ==
  /\ held' = held \ {sub}
  /\ queue' = Append(queue, RemoveMsg({sub}))
  /\ UNCHANGED <<answered, version>>

Unsubscribe(sub) ==
  /\ held' = held \ {sub}
  /\ queue' = Append(queue, RemoveMsg({sub}))
  /\ answered' = answered \ {sub}
  /\ UNCHANGED version

RestartForgetsIdentity ==
  queue' = SetToSeq({AddMsg({i}) : i \in held \ {Identity}})

\* The new queue names the identity, then all queries in one message, then each
\* mutation.
RestartForReconnect ==
  LET One(items) == SetToSeq({AddMsg(i) : i \in {items} \ {{}}})
      Each(items) == SetToSeq({AddMsg({i}) : i \in items})
  IN queue' = Each(held \cap {Identity}) \o One(held \cap Subs) \o Each(held \cap Changes)

\* What the server knows after it was sent msg.
Deliver(msg, known) ==
  IF msg.op = "add" THEN known \cup msg.items ELSE known \ msg.items

-----------------------------------------------------------------------------
(* Channels *)

NoWriter == [pc |-> "none", req |-> nobody, msg |-> << >>, requests |-> << >>]

\* A caller that stops waiting leaves its ack channel behind in the requests
\* that name it; nobody reads it any more.
Forget(c, s) == [i \in DOMAIN s |-> IF s[i] = c THEN nobody ELSE s[i]]
ForgetWriter(c, w) ==
  [w EXCEPT !.req = IF @ = c THEN nobody ELSE @, !.requests = Forget(c, @)]

\* sendFlushAck for every caller in a set: the channel has room for one answer.
Acknowledge(cs, answer) ==
  ack' = [c \in Callers |-> IF c \in cs /\ ack[c] = "none" THEN answer ELSE ack[c]]

-----------------------------------------------------------------------------
(* Run *)

At(pc) == loop.pc = pc
Goto(pc) == loop' = [pc |-> pc, req |-> nobody, replay |-> FALSE, pending |-> << >>]

\* runConnection returns without waiting for its writer, whose context is
\* cancelled and whose connection is closed; the writer keeps its own channel.
LeaveConnection ==
  /\ old' = IF writer.pc = "none" THEN old ELSE [writer EXCEPT !.requests = requests]
  /\ writer' = NoWriter
  /\ requests' = << >>
  /\ writeErr' = FALSE
  /\ onServer' = {}
  /\ UNCHANGED taken

\* Bound: one writer at a time outlives its connection.
MayLeave == writer.pc = "none" \/ old.pc = "none"

\* runConnectedConnection after a reconnectable error.
Lose(replay) ==
  /\ MayLeave
  /\ loop' = [pc |-> "top", req |-> nobody, replay |-> replay, pending |-> << >>]
  /\ LeaveConnection
  /\ UNCHANGED <<baseVars, transitions, flushCh, results, mdone, cancelled>>

\* Every error that is not reconnectable, and a cancelled context, end Run.
Finish ==
  /\ MayLeave
  /\ Goto("finishing")
  /\ LeaveConnection
  /\ UNCHANGED <<baseVars, transitions, flushCh, results, mdone, cancelled>>

\* prepareNextConnection and dial: the queue is rebuilt when the last connection
\* asked for it, and again after every failed dial.
Prepare ==
  /\ At("top") /\ ~cancelled
  /\ IF loop.replay THEN RestartForReconnect /\ taken' = {} ELSE UNCHANGED <<queue, taken>>
  /\ UNCHANGED <<held, version, answered, transitions, onServer, writeErr, old, flushCh,
                 results, ack, mdone, cancelled>>

\* The Connect message is written, the reader and the writer start and the first
\* flush request is in the writer's channel.
Connect ==
  /\ Prepare
  /\ Goto("select")
  /\ writer' = [NoWriter EXCEPT !.pc = "select"]
  /\ requests' = << nobody >>

\* The network may fail at any time and as often as it likes, here and below.
\* handleDialFailure keeps needsRestart; a failed write of the Connect message
\* clears it, nothing was taken from the queue.
ConnectFails ==
  /\ Prepare
  /\ loop' \in {loop, [loop EXCEPT !.replay = FALSE]}
  /\ UNCHANGED <<writer, requests>>

\* receiveServerMessage applies a transition under the lock and sends the new
\* snapshot in a second step.
Receive ==
  /\ At("select") /\ transitions > 0
  /\ version' = version + 1 /\ transitions' = transitions - 1
  /\ answered' = answered \cup (held \cap onServer \cap Subs)
  /\ held' = held \ (onServer \cap Changes)
  /\ loop' = [loop EXCEPT !.pc = "deliver",
                          !.pending = [version |-> version', has |-> answered']]
  /\ UNCHANGED <<queue, onServer, writerVars, flushCh, results, ack, mdone, cancelled>>

DeliverOrDrop ==
  /\ At("deliver")
  /\ results' = IF Len(results) < resultsCap THEN Append(results, loop.pending) ELSE results
  /\ Goto("select")
  /\ UNCHANGED <<baseVars, transitions, onServer, writerVars, flushCh, ack, mdone,
                 cancelled>>

DeliverResults ==
  /\ At("deliver") /\ Len(results) < resultsCap
  /\ results' = Append(results, loop.pending)
  /\ Goto("select")
  /\ UNCHANGED <<baseVars, transitions, onServer, writerVars, flushCh, ack, mdone,
                 cancelled>>

\* A read error or the inactivity timer; flush requests the writer has not
\* answered stay in its channel, and are lost when the writer has already failed.
ReadFails ==
  /\ At("select")
  /\ Lose(TRUE)
  /\ Acknowledge(IF writer.pc = "none" THEN Range(requests) ELSE {}, "lost")

\* A flush request goes straight to the writer while its channel has room.
TakeFlush ==
  /\ At("select") /\ flushCh # << >>
  /\ flushCh' = Tail(flushCh)
  /\ IF Len(requests) < flushCap
     THEN requests' = Append(requests, Head(flushCh)) /\ UNCHANGED loop
     ELSE loop' = [loop EXCEPT !.pc = "forward", !.req = Head(flushCh)] /\ UNCHANGED requests
  /\ UNCHANGED <<baseVars, transitions, onServer, writeErr, writer, old, taken, results,
                 ack, mdone, cancelled>>

ForwardFlush ==
  /\ At("forward") /\ Len(requests) < flushCap
  /\ requests' = Append(requests, loop.req)
  /\ Goto("select")
  /\ UNCHANGED <<baseVars, transitions, onServer, writeErr, writer, old, taken, flushCh,
                 results, ack, mdone, cancelled>>

\* The writer reported a failure; requests that reached its channel since then
\* are answered with the same error.
WriteFailed ==
  /\ At("select") /\ writeErr
  /\ Acknowledge(Range(requests), "err")
  /\ Lose(TRUE)

\* A message the client cannot decode or apply.
Fatal ==
  /\ At("select")
  /\ Finish /\ UNCHANGED ack

CancelledUnlessReading ==
  /\ cancelled
  /\ loop.pc \in {"top", "forward", "deliver"}
  /\ Finish
  /\ Acknowledge(IF At("forward") THEN {loop.req} ELSE {}, "err")

Cancelled ==
  /\ cancelled
  /\ loop.pc \in {"top", "select", "forward", "deliver"}
  /\ Finish
  /\ Acknowledge(IF At("forward") THEN {loop.req} ELSE {}, "err")

\* finishRun closes done, and the client that started Run cancels its context.
FinishRun ==
  /\ At("finishing")
  /\ Goto("ended")
  /\ mdone' = TRUE /\ cancelled' = TRUE
  /\ UNCHANGED <<baseVars, transitions, onServer, writerVars, flushCh, results, ack>>

\* The loop by itself, a dial, and what the server and the network do to it.
Loop == DeliverResults \/ TakeFlush \/ ForwardFlush \/ WriteFailed \/ Cancelled \/ FinishRun
Dial == Connect \/ ConnectFails
Run == Loop \/ Dial \/ Receive \/ ReadFails \/ Fatal

-----------------------------------------------------------------------------
(* writeLoop *)

WriterTakes ==
  /\ writer.pc = "select" /\ requests # << >>
  /\ writer' = [writer EXCEPT !.pc = "pop", !.req = Head(requests)]
  /\ requests' = Tail(requests)
  /\ UNCHANGED <<baseVars, loopVars, writeErr, old, taken, flushCh, results, ack, mdone,
                 cancelled>>

\* flushQueued: the lock is released between the pop and the write.
WriterPops ==
  /\ writer.pc = "pop" /\ queue # << >>
  /\ writer' = [writer EXCEPT !.pc = "write", !.msg = << Head(queue) >>]
  /\ queue' = Tail(queue)
  /\ UNCHANGED <<held, version, answered, loopVars, requests, writeErr, old, taken, flushCh,
                 results, ack, mdone, cancelled>>

WriterWrites ==
  /\ writer.pc = "write"
  /\ onServer' = Deliver(writer.msg[1], onServer)
  /\ writer' = [writer EXCEPT !.pc = "pop", !.msg = << >>]
  /\ UNCHANGED <<baseVars, loop, transitions, requests, writeErr, old, taken, flushCh,
                 results, ack, mdone, cancelled>>

WriterDoneEarly ==
  /\ writer.pc = "pop"
  /\ Acknowledge({writer.req}, "nil")
  /\ writer' = [writer EXCEPT !.pc = "select", !.req = nobody]
  /\ UNCHANGED <<baseVars, loopVars, requests, writeErr, old, taken, flushCh, results, mdone,
                 cancelled>>

WriterDoneSilent ==
  /\ writer.pc = "pop" /\ queue = << >>
  /\ writer' = [writer EXCEPT !.pc = "select", !.req = nobody]
  /\ UNCHANGED <<baseVars, loopVars, requests, writeErr, old, taken, flushCh, results, ack, mdone,
                 cancelled>>

WriterDone ==
  /\ writer.pc = "pop" /\ queue = << >>
  /\ Acknowledge({writer.req}, "nil")
  /\ writer' = [writer EXCEPT !.pc = "select", !.req = nobody]
  /\ UNCHANGED <<baseVars, loopVars, requests, writeErr, old, taken, flushCh, results, mdone,
                 cancelled>>

\* The request and everything waiting behind it is answered with the error.
WriterFails ==
  /\ writer.pc = "write"
  /\ Acknowledge({writer.req} \cup Range(requests), "err")
  /\ writer' = NoWriter
  /\ requests' = << >>
  /\ writeErr' = TRUE
  /\ UNCHANGED <<baseVars, loop, transitions, onServer, old, taken, flushCh, results, mdone,
                 cancelled>>

\* The writer of a connection that is over: its select may still choose a
\* request, its next write fails.
OldTakes ==
  /\ old.pc = "select" /\ old.requests # << >>
  /\ old' = [old EXCEPT !.pc = "pop", !.req = Head(old.requests), !.requests = Tail(@)]
  /\ UNCHANGED <<baseVars, loopVars, requests, writeErr, writer, taken, flushCh, results, ack,
                 mdone, cancelled>>

OldPops ==
  /\ old.pc = "pop" /\ queue # << >>
  /\ old' = [old EXCEPT !.pc = "write", !.msg = << Head(queue) >>]
  /\ queue' = Tail(queue)
  /\ taken' = taken \cup Head(queue).items
  /\ UNCHANGED <<held, version, answered, loopVars, requests, writeErr, writer, flushCh,
                 results, ack, mdone, cancelled>>

OldDone ==
  /\ old.pc = "pop" /\ queue = << >>
  /\ Acknowledge({old.req}, "nil")
  /\ old' = [old EXCEPT !.pc = "select", !.req = nobody]
  /\ UNCHANGED <<baseVars, loopVars, requests, writeErr, writer, taken, flushCh, results,
                 mdone, cancelled>>

OldFails ==
  /\ old.pc = "write"
  /\ Acknowledge({old.req} \cup Range(old.requests), "err")
  /\ old' = NoWriter
  /\ UNCHANGED <<baseVars, loopVars, requests, writeErr, writer, taken, flushCh, results,
                 mdone, cancelled>>

\* Its select may as well see the cancelled context; nobody answers what is left
\* in its channel.
OldStops ==
  /\ old.pc = "select"
  /\ Acknowledge(Range(old.requests), "lost")
  /\ old' = NoWriter
  /\ UNCHANGED <<baseVars, loopVars, requests, writeErr, writer, taken, flushCh, results,
                 mdone, cancelled>>

Write == WriterTakes \/ WriterPops \/ WriterWrites \/ WriterDone \/ WriterFails
OldWrite == OldTakes \/ OldPops \/ OldDone \/ OldFails \/ OldStops

-----------------------------------------------------------------------------
(* Flush, for caller c: two selects *)

FlushSend(c) ==
  /\ Len(flushCh) < flushCap
  /\ flushCh' = Append(flushCh, c)
  /\ ack' = [ack EXCEPT ![c] = "none"]
  /\ UNCHANGED <<baseVars, loopVars, writerVars, results, mdone, cancelled>>

\* The caller stops waiting: its context ended or the manager is done.
FlushAbandon(c) ==
  /\ flushCh' = Forget(c, flushCh)
  /\ requests' = Forget(c, requests)
  /\ loop' = [loop EXCEPT !.req = IF @ = c THEN nobody ELSE @]
  /\ writer' = ForgetWriter(c, writer)
  /\ old' = ForgetWriter(c, old)
  /\ ack' = [ack EXCEPT ![c] = "none"]
  /\ UNCHANGED <<baseVars, transitions, onServer, writeErr, taken, results, mdone,
                 cancelled>>

FlushAnswered(c) ==
  /\ ack' = [ack EXCEPT ![c] = "none"]
  /\ UNCHANGED <<baseVars, loopVars, writerVars, flushCh, results, mdone, cancelled>>

ManagerInit ==
  /\ held = {} /\ queue = << >> /\ version = 0 /\ answered = {}
  /\ loop = [pc |-> "top", req |-> nobody, replay |-> FALSE, pending |-> << >>]
  /\ onServer = {}
  /\ flushCh = << >> /\ requests = << >> /\ writeErr = FALSE /\ results = << >>
  /\ ack = [c \in Callers |-> "none"]
  /\ writer = NoWriter /\ old = NoWriter /\ taken = {}
  /\ mdone = FALSE /\ cancelled = FALSE

=============================================================================
