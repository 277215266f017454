--------------------------- MODULE WebSocketClient ---------------------------
(***************************************************************************)
(* convex.WebSocketClient on top of syncclient.Manager: subscriptions and   *)
(* watchers with one-slot channels, the pump that publishes the manager's   *)
(* snapshots, and the calls of the application, each a sequence of steps    *)
(* between two lock or channel operations.                                  *)
(*                                                                         *)
(* A caller runs a script of calls.  A call of a bounded caller may end     *)
(* with its context at any wait; the others pass context.Background().      *)
(***************************************************************************)
EXTENDS SyncManager

CONSTANTS
  Scenarios,   \* the sequences of calls the callers may make, and how many
               \* transitions the server sends meanwhile
  Bounded      \* the callers whose contexts have a deadline

VARIABLES
  script,      \* the calls still to make
  pc, op,      \* where a caller is, and in which call
  target,      \* the subscription a call works on
  snap,        \* the snapshot a call has read and not yet published
  subscriptions, watchers,  \* the registered channels
  updates,     \* per subscription and watcher: the channel, at most one element
  seen,        \* history: the last element taken from a channel
  latest,
  released,    \* releaseRuntimeState has set the maps to nil
  cdone,       \* WebSocketClient.done is closed
  handle,      \* QuerySubscription: its lock and flags
  pump,        \* pumpResults
  quiet        \* history: no call since the last transition was received

clientVars == <<subscriptions, watchers, updates, seen, latest, released, cdone, handle>>
callVars == <<script, pc, op, target, snap>>
vars == <<managerVars, clientVars, callVars, pump, quiet>>

NoSnapshot == [version |-> 0, has |-> {}]
Channels == Subs \cup Callers    \* a watcher is named by its caller

-----------------------------------------------------------------------------
(* The channels of subscriptions and watchers, under the client's lock *)

SendIfEmpty(chans, value) ==
  updates' = [ch \in Channels |->
                IF ch \in chans /\ updates[ch] = << >> THEN << value >> ELSE updates[ch]]

\* sendLatest: a full channel is emptied first; the lock admits one sender.
SendLatest(chans, value) ==
  updates' = [ch \in Channels |-> IF ch \in chans THEN << value >> ELSE updates[ch]]

PublishLatest(s) ==
  /\ latest' = s
  /\ SendLatest((subscriptions \cap s.has) \cup watchers, s.version)

Goes(c, to) == pc' = [pc EXCEPT ![c] = to]
Stays == UNCHANGED <<script, op, target, snap>>

Return(c) ==
  /\ Goes(c, "idle")
  /\ op' = [op EXCEPT ![c] = "none"]
  /\ target' = [target EXCEPT ![c] = nobody]
  /\ UNCHANGED script

Expired(c) == c \in Bounded \/ cancelled

Begin(c, name) ==
  /\ pc[c] = "idle" /\ script[c] # << >> /\ Head(script[c]) = name
  /\ script' = [script EXCEPT ![c] = Tail(@)]
  /\ quiet' = FALSE
  /\ UNCHANGED pump

Enter(c, name, item, to) ==
  /\ op' = [op EXCEPT ![c] = name]
  /\ target' = [target EXCEPT ![c] = item]
  /\ Goes(c, to)

\* doneErr: the call returns at once.  A context that has already ended makes a
\* call return without an effect, too.
Refused(c) ==
  /\ cancelled
  /\ \E name \in {"subscribe", "mutation", "setAuth", "watch"} : Begin(c, name)
  /\ UNCHANGED <<managerVars, clientVars, pc, op, target, snap>>

-----------------------------------------------------------------------------
(* Calls that change the client's state and flush *)

\* The check of doneErr and the manager's operation; closing in between is the
\* same as closing right after.
SubscribeCall(c) ==
  /\ Begin(c, "subscribe") /\ ~cancelled
  /\ Hold(Sub(c))
  /\ Enter(c, "subscribe", Sub(c), "register")
  /\ UNCHANGED <<snap, version, answered, loopVars, writerVars, flushCh, results, ack, mdone,
                 cancelled, clientVars>>

\* The new channel starts with the latest result: hasLatest is true as long as the
\* maps exist.  Writing to a map that releaseRuntimeState has set to nil panics.
Register(c) ==
  /\ pc[c] = "register"
  /\ \/ /\ released
        /\ Goes(c, "panicked")
        /\ UNCHANGED <<script, op, target, subscriptions, watchers, updates>>
     \/ /\ ~released /\ op[c] = "subscribe"
        /\ Goes(c, "read")
        /\ subscriptions' = subscriptions \cup {target[c]}
        /\ SendLatest({target[c]} \cap latest.has, latest.version)
        /\ UNCHANGED <<script, op, target, watchers>>
     \/ /\ ~released /\ op[c] = "watch"
        /\ Return(c)
        /\ watchers' = watchers \cup {c}
        /\ SendLatest({c}, latest.version)
        /\ UNCHANGED subscriptions
  /\ UNCHANGED <<snap, seen, latest, released, cdone, handle, managerVars, pump, quiet>>

\* manager.LatestResults() is evaluated before publishLatest takes its lock.
ReadLatest(c) ==
  /\ pc[c] = "read"
  /\ snap' = [snap EXCEPT ![c] = Snapshot]
  /\ Goes(c, "publish")
  /\ UNCHANGED <<script, op, target, managerVars, clientVars, pump, quiet>>

Publish(c) ==
  /\ pc[c] = "publish"
  /\ PublishLatest(snap[c])
  /\ handle' = IF op[c] = "unsubscribe" THEN [handle EXCEPT ![target[c]].queued = TRUE]
               ELSE handle
  /\ snap' = [snap EXCEPT ![c] = NoSnapshot]
  /\ IF op[c] = "undo" THEN Return(c) ELSE Goes(c, "flush") /\ UNCHANGED <<script, op, target>>
  /\ UNCHANGED <<subscriptions, watchers, seen, released, cdone, managerVars, pump, quiet>>

\* Manager.Mutation: an optimistic update that changes the results makes the
\* caller send the new snapshot to the pump.
MutationCall(c) ==
  /\ Begin(c, "mutation") /\ ~cancelled
  /\ Hold(Change(c))
  /\ \/ /\ version' = version + 1
        /\ snap' = [snap EXCEPT ![c] = [version |-> version', has |-> answered]]
        /\ Enter(c, "mutation", Change(c), "send")
     \/ /\ Enter(c, "mutation", Change(c), "read")
        /\ UNCHANGED <<version, snap>>
  /\ UNCHANGED <<answered, loopVars, writerVars, flushCh, results, ack, mdone, cancelled,
                 clientVars>>

\* sendLatest on the results channel: three channel operations, other senders and
\* the pump may come in between.
SendResults(c) ==
  /\ pc[c] \in {"send", "resend"}
  /\ IF Len(results) < resultsCap
     THEN results' = Append(results, snap[c]) /\ Goes(c, "read")
     ELSE UNCHANGED results /\ Goes(c, IF pc[c] = "send" THEN "drain" ELSE "read")
  /\ Stays
  /\ UNCHANGED <<baseVars, loopVars, writerVars, flushCh, ack, mdone, cancelled, clientVars,
                 pump, quiet>>

DrainResults(c) ==
  /\ pc[c] = "drain"
  /\ results' = IF results = << >> THEN results ELSE Tail(results)
  /\ Goes(c, "resend")
  /\ Stays
  /\ UNCHANGED <<baseVars, loopVars, writerVars, flushCh, ack, mdone, cancelled, clientVars,
                 pump, quiet>>

\* setAuth, setAdminAuth, setAuthCallback and clearAuth differ in the message.
SetAuthCall(c) ==
  /\ Begin(c, "setAuth") /\ ~cancelled
  /\ Hold(Identity)
  /\ Enter(c, "setAuth", Identity, "flush")
  /\ UNCHANGED <<snap, version, answered, loopVars, writerVars, flushCh, results, ack, mdone,
                 cancelled, clientVars>>

UnsubscribeCall(c) ==
  /\ Begin(c, "unsubscribe")
  /\ \E s \in Subs : handle[s].open /\ Enter(c, "unsubscribe", s, "lock")
  /\ UNCHANGED <<snap, managerVars, clientVars>>

\* The handle's lock is held to the end of the call, through the flush.
Lock(c) ==
  LET h == handle[target[c]]
  IN /\ pc[c] = "lock" /\ h.lock = nobody
     /\ IF h.closed
        THEN Return(c) /\ UNCHANGED <<handle, baseVars, snap>>
        ELSE /\ handle' = [handle EXCEPT ![target[c]].lock = c]
             /\ Stays
             /\ IF h.queued
                THEN Goes(c, "flush") /\ UNCHANGED baseVars
                ELSE Goes(c, "read") /\ Unsubscribe(target[c])
     /\ UNCHANGED <<loopVars, writerVars, flushCh, results, ack, mdone, cancelled, subscriptions,
                    watchers, updates, seen, latest, released, cdone, pump, quiet>>

-----------------------------------------------------------------------------
(* flush and its outcomes *)

FlushBegins(c) ==
  /\ pc[c] = "flush"
  /\ FlushSend(c)
  /\ Goes(c, "wait")
  /\ Stays
  /\ UNCHANGED <<clientVars, pump, quiet>>

Unlock(s, closed) ==
  handle' = [handle EXCEPT ![s].lock = nobody, ![s].closed = closed, ![s].open = @ /\ ~closed]

SucceedsKeepsChannel(c) ==
  /\ Return(c) /\ UNCHANGED <<snap, subscriptions>>
  /\ \/ op[c] = "subscribe" /\ handle' = [handle EXCEPT ![target[c]].open = TRUE]
     \/ op[c] = "unsubscribe" /\ Unlock(target[c], TRUE)
     \/ op[c] \in {"mutation", "setAuth"} /\ UNCHANGED handle

Succeeds(c) ==
  /\ Return(c) /\ UNCHANGED snap
  /\ \/ /\ op[c] = "subscribe"
        /\ handle' = [handle EXCEPT ![target[c]].open = TRUE]
        /\ UNCHANGED subscriptions
     \/ /\ op[c] = "unsubscribe"
        /\ Unlock(target[c], TRUE)
        /\ subscriptions' = subscriptions \ {target[c]}
     \/ /\ op[c] \in {"mutation", "setAuth"}
        /\ UNCHANGED <<handle, subscriptions>>

\* Unsubscribe gives up for good only when the client itself is closed; Subscribe
\* takes its subscription back.
Fails(c) ==
  \/ /\ op[c] = "subscribe"
     /\ Goes(c, "undo")
     /\ op' = [op EXCEPT ![c] = "undo"]
     /\ UNCHANGED <<script, target, snap, subscriptions, handle>>
  \/ /\ op[c] = "unsubscribe"
     /\ Return(c) /\ UNCHANGED snap
     /\ Unlock(target[c], cancelled)
     /\ subscriptions' = IF cancelled THEN subscriptions \ {target[c]} ELSE subscriptions
  \/ /\ op[c] \in {"mutation", "setAuth"}
     /\ Return(c) /\ UNCHANGED snap
     /\ UNCHANGED <<subscriptions, handle>>

Otherwise == UNCHANGED <<watchers, updates, seen, latest, released, cdone, pump, quiet>>

FlushReturns(c) ==
  /\ pc[c] = "wait" /\ ack[c] \in {"nil", "err"}
  /\ FlushAnswered(c)
  /\ IF ack[c] = "nil" THEN Succeeds(c) ELSE Fails(c)
  /\ Otherwise

FlushGivesUp(c) ==
  /\ pc[c] \in {"flush", "wait"}
  /\ Expired(c) \/ mdone
  /\ FlushAbandon(c)
  /\ Fails(c)
  /\ Otherwise

Undo(c) ==
  /\ pc[c] = "undo"
  /\ subscriptions' = subscriptions \ {target[c]}
  /\ Goes(c, "withdraw")
  /\ Stays
  /\ UNCHANGED <<managerVars, handle>> /\ Otherwise

\* The removal is queued, not flushed.
Withdraw(c) ==
  /\ pc[c] = "withdraw"
  /\ Unsubscribe(target[c])
  /\ Goes(c, "read")
  /\ Stays
  /\ UNCHANGED <<loopVars, writerVars, flushCh, results, ack, mdone, cancelled, subscriptions,
                 handle>>
  /\ Otherwise

-----------------------------------------------------------------------------
(* Watchers, Next and Close *)

WatchCall(c) ==
  /\ Begin(c, "watch") /\ ~cancelled
  /\ Enter(c, "watch", c, "register")
  /\ UNCHANGED <<snap, managerVars, clientVars>>

UnwatchCall(c) ==
  /\ Begin(c, "unwatch")
  /\ watchers' = watchers \ {c}
  /\ UNCHANGED <<managerVars, pc, op, target, snap, subscriptions, updates, seen, latest,
                 released, cdone, handle>>

\* A closed handle and a closed client are noticed before a buffered result.
NextCall(c) ==
  /\ Begin(c, "next")
  /\ \/ c \in watchers /\ Enter(c, "next", c, "next")
     \/ handle[Sub(c)].open /\ ~cdone /\ Enter(c, "next", Sub(c), "next")
     \/ (handle[Sub(c)].closed \/ cdone) /\ UNCHANGED <<pc, op, target>>
  /\ UNCHANGED <<snap, managerVars, clientVars>>

NextValue(c) ==
  LET ch == target[c]
  IN /\ pc[c] = "next" /\ updates[ch] # << >>
     /\ updates' = [updates EXCEPT ![ch] = << >>]
     /\ seen' = [seen EXCEPT ![ch] = updates[ch][1]]
     /\ Return(c) /\ UNCHANGED snap
     /\ UNCHANGED <<managerVars, subscriptions, watchers, latest, released, cdone, handle, pump,
                    quiet>>

\* The handle is closed, the client is done or the context ended.
NextFails(c) ==
  /\ pc[c] = "next"
  /\ \/ target[c] \in Subs /\ handle[target[c]].closed
     \/ cdone
     \/ c \in Bounded
  /\ Return(c)
  /\ UNCHANGED <<snap, managerVars, clientVars, pump, quiet>>

CloseCall(c) ==
  /\ Begin(c, "close")
  /\ cancelled' = TRUE
  /\ Enter(c, "close", nobody, "closing")
  /\ UNCHANGED <<snap, baseVars, loopVars, writerVars, flushCh, results, ack, mdone, clientVars>>

CloseReturns(c) ==
  /\ pc[c] = "closing" /\ cdone
  /\ Return(c)
  /\ UNCHANGED <<snap, managerVars, clientVars, pump, quiet>>

Caller(c) ==
  \/ Refused(c) \/ SubscribeCall(c) \/ Register(c) \/ ReadLatest(c) \/ Publish(c)
  \/ MutationCall(c) \/ SendResults(c) \/ DrainResults(c) \/ SetAuthCall(c)
  \/ UnsubscribeCall(c) \/ Lock(c) \/ FlushBegins(c) \/ FlushReturns(c) \/ FlushGivesUp(c)
  \/ Undo(c) \/ Withdraw(c) \/ WatchCall(c) \/ UnwatchCall(c) \/ NextCall(c) \/ NextValue(c)
  \/ NextFails(c) \/ CloseCall(c) \/ CloseReturns(c)

-----------------------------------------------------------------------------
(* The client's own goroutines *)

PumpTakes ==
  /\ pump.pc = "idle" /\ results # << >>
  /\ pump' = [pc |-> "publish", snap |-> Head(results)]
  /\ results' = Tail(results)
  /\ UNCHANGED <<baseVars, loopVars, writerVars, flushCh, ack, mdone, cancelled, clientVars,
                 callVars, quiet>>

PumpPublishes ==
  /\ pump.pc = "publish"
  /\ PublishLatest(pump.snap)
  /\ pump' = [pc |-> "idle", snap |-> NoSnapshot]
  /\ UNCHANGED <<managerVars, subscriptions, watchers, seen, released, cdone, handle, callVars,
                 quiet>>

PumpStops ==
  /\ pump.pc = "idle" /\ cancelled
  /\ pump' = [pc |-> "stopped", snap |-> NoSnapshot]
  /\ UNCHANGED <<managerVars, clientVars, callVars, quiet>>

\* run, after manager.Run has returned: releaseRuntimeState, close(done).
RunReleases ==
  /\ At("ended")
  /\ released' = TRUE /\ cdone' = TRUE
  /\ subscriptions' = {} /\ watchers' = {} /\ latest' = NoSnapshot
  /\ Goto("stopped")
  /\ UNCHANGED <<baseVars, transitions, onServer, writerVars, flushCh, results, ack,
                 mdone, cancelled, updates, seen, handle>>

Idle(c) == pc[c] \in {"idle", "panicked"}

RunStep ==
  /\ \/ Run /\ UNCHANGED clientVars
     \/ RunReleases
  /\ quiet' = (IF version' # version THEN \A c \in Callers : Idle(c) ELSE quiet)
  /\ UNCHANGED <<callVars, pump>>

LoopStep == ((Loop /\ UNCHANGED clientVars) \/ RunReleases) /\ UNCHANGED <<callVars, pump, quiet>>
DialStep == Dial /\ UNCHANGED <<clientVars, callVars, pump, quiet>>

WriterStep == (Write \/ OldWrite) /\ UNCHANGED <<clientVars, callVars, pump, quiet>>
PumpStep == PumpTakes \/ PumpPublishes \/ PumpStops

Init ==
  /\ ManagerInit
  /\ \E s \in Scenarios : script = s.calls /\ transitions = s.transitions
  /\ pc = [c \in Callers |-> "idle"] /\ op = [c \in Callers |-> "none"]
  /\ target = [c \in Callers |-> nobody] /\ snap = [c \in Callers |-> NoSnapshot]
  /\ subscriptions = {} /\ watchers = {}
  /\ updates = [ch \in Channels |-> << >>] /\ seen = [ch \in Channels |-> -1]
  /\ latest = NoSnapshot /\ released = FALSE /\ cdone = FALSE
  /\ handle = [s \in Subs |-> [open |-> FALSE, queued |-> FALSE, closed |-> FALSE,
                               lock |-> nobody]]
  /\ pump = [pc |-> "idle", snap |-> NoSnapshot] /\ quiet = FALSE

Next == RunStep \/ WriterStep \/ PumpStep \/ \E c \in Callers : Caller(c)

Spec == Init /\ [][Next]_vars

\* Every goroutine that can go on eventually does, and a dial and a write return
\* with success or with an error.  Nothing else is assumed of the network: every
\* dial may fail, for ever, and a connection that is up may be lost, stay up or
\* stay silent.  Nor is anything assumed of the deadlines of the callers.
Fairness ==
  /\ WF_vars(LoopStep) /\ WF_vars(DialStep) /\ WF_vars(WriterStep) /\ WF_vars(PumpStep)
  /\ \A c \in Callers : WF_vars(Caller(c))

FairSpec == Spec /\ Fairness

-----------------------------------------------------------------------------
(* Properties *)

TypeOK ==
  /\ held \subseteq Subs \cup Changes \cup {Identity}
  /\ \A i \in DOMAIN queue : queue[i].op \in {"add", "remove"}
  /\ version \in Nat /\ answered \subseteq held \cap Subs
  /\ transitions \in Nat
  /\ ack \in [Callers -> {"none", "nil", "err", "lost"}]
  /\ Len(flushCh) <= flushCap /\ Len(requests) <= flushCap /\ Len(results) <= resultsCap
  /\ subscriptions \subseteq Subs /\ watchers \subseteq Callers
  /\ \A ch \in Channels : Len(updates[ch]) <= 1

\* While a connection is up, everything the client stands for was written to it or
\* will be: it is queued or in the hands of the connection's writer.  The same
\* holds for the removal of what the client no longer wants.  The only exception
\* are items that the writer of an earlier connection took from the rebuilt queue
\* (flushQueued has no way to tell).
OnTheWay ==
  LET inHand == {writer.msg[i] : i \in DOMAIN writer.msg} \cup Range(queue)
      coming == UNION {m.items : m \in {n \in inHand : n.op = "add"}}
      going == UNION {m.items : m \in {n \in inHand : n.op = "remove"}}
  IN writer.pc # "none" =>
       /\ held \subseteq onServer \cup coming \cup taken
       /\ onServer \cap Subs \subseteq held \cup going \cup taken

\* A Flush that the writer of the current connection acknowledges without an error
\* has put the caller's change on that connection, whatever was lost, replayed or
\* flushed for others meanwhile.
FlushIsTrue ==
  [][\A c \in Callers :
       ack[c] = "none" /\ ack'[c] = "nil" /\ old' = old =>
         IF op[c] = "unsubscribe"
         THEN target[c] \notin onServer \/ target[c] \in taken
         ELSE target[c] \in onServer \cup taken \/ target[c] \notin held]_vars

\* The channel of a registered subscription or watcher never loses the newest
\* published result: it holds it, or its reader has already taken it
\* (publishLatest, sendLatest and Next racing).
ChannelsCarryLatest ==
  /\ \A s \in subscriptions \cap latest.has :
       updates[s] = << latest.version >> \/ (updates[s] = << >> /\ seen[s] = latest.version)
  /\ \A w \in watchers :
       updates[w] = << latest.version >> \/ (updates[w] = << >> /\ seen[w] = latest.version)

\* Racing publishers can leave an old snapshot as the latest one.  A transition
\* received while no call is in progress repairs that: once the pump has caught up
\* the client shows the manager's results again.
TransitionHeals ==
  quiet /\ ~cancelled /\ ~At("deliver") /\ results = << >> /\ pump.pc = "idle" =>
    latest = Snapshot

\* Once Unsubscribe has closed a handle on a live client, the query is gone from
\* the state machine and from the client, and stays gone.
ClosedIsGone ==
  \A s \in Subs : handle[s].closed => s \notin held \cup subscriptions

Wedged == At("forward") /\ Len(requests) = flushCap /\ writer.pc = "none"

\* A Flush without a deadline is answered, unless the network never settles (Run
\* is back at its dial for ever or again and again), or one of two things happened
\* to the connection the request was handed to: a read error ended it before the
\* writer got to the request and the answer is lost, or the writer failed and
\* flushRequests filled up before the loop looked at writeErrCh.
FlushesAnswered ==
  \A c \in Callers \ Bounded :
    []<>(pc[c] # "wait" \/ ack[c] = "lost" \/ Wedged) \/ []<>At("top")

\* Close releases everybody: whatever the callers wait for (a flush, a lost answer,
\* the lock of a handle, a result), they return, and so do the loop and Close.
CloseReleasesAll == cancelled ~> (At("stopped") /\ \A c \in Callers : Idle(c))

=============================================================================
