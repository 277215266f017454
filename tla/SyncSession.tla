----------------------------- MODULE SyncSession -----------------------------
(***************************************************************************)
(* baseclient.Client driven by the connection loop of syncclient.Manager    *)
(* against a sync server.  A connection is a pair of FIFO channels that may *)
(* drop at any moment with whatever is in flight; the loop then rebuilds    *)
(* the client's queue with RestartForReconnect, dials and goes on.  The     *)
(* writer of a connection empties the queue once for every flush request.   *)
(* runConnection does not wait for it: the writer of a lost connection can  *)
(* take one more message, from the rebuilt queue too, and lose it.          *)
(*                                                                         *)
(* The server is not part of the repository.  It is modelled from what the  *)
(* client sends and expects: versioned query sets and identities, mutations *)
(* applied once each and answered again when they are replayed, transitions *)
(* that show one consistent snapshot no older than the timestamp named in   *)
(* the Connect message, and one after every mutation response.              *)
(***************************************************************************)
EXTENDS BaseClient

CONSTANT MaxDrops      \* bound: connections lost
ASSUME DropsAssumption == MaxDrops \in Nat

VARIABLES
  phase,         \* of Manager.Run: "prepare", "dial", "connected" or "stopped"
  needsRestart,  \* websocketRunState.needsRestart
  toServer, toClient,
  srv,           \* the server's side of the current connection
  applied,       \* the mutations the server has executed, and how they ended
  executed,      \* the actions the server has executed, once per execution
  drops,
  protocolError, \* the server saw a base version that is not its own
  flushRequested, \* the writer has a flush request to serve
  oldWriters,    \* writers of lost connections that have not returned from flushQueued
  taken,         \* what they took from the queue since it was last rebuilt
  everTaken      \* the requests they ever took

serverVars == <<toClient, srv, applied, executed, protocolError>>
writerVars == <<flushRequested, oldWriters, taken, everTaken>>
sessionVars == <<phase, needsRestart, toServer, drops, serverVars, writerVars>>
allVars == <<vars, sessionVars>>

-----------------------------------------------------------------------------
(* The server *)

\* Commits are stamped 1, 2, ...; a failed mutation commits nothing.
clock == Cardinality({id \in DOMAIN applied : applied[id].ok})

\* The value of query t at ts is the set of the mutations that wrote it.
ValueAt(t, ts) ==
  {id \in DOMAIN applied : applied[id].ok /\ applied[id].token = t /\ applied[id].ts <= ts}

NewSession(floor) ==
  [queries |-> << >>, querySet |-> 0, identity |-> 0, user |-> NoAuth,
   sent |-> ZeroVersion, values |-> << >>, floor |-> floor, owed |-> FALSE]

TransitionMessage(start, end, mods) ==
  [type |-> "Transition", start |-> start, end |-> end, mods |-> mods]
MutationResponse(id, success, ts) ==
  [type |-> "MutationResponse", id |-> id, success |-> success, ts |-> ts]
ActionResponse(id, success) == [type |-> "ActionResponse", id |-> id, success |-> success]

ServerModifyQuerySet(msg) ==
  /\ msg.type = "ModifyQuerySet" /\ msg.base = srv.querySet
  /\ LET added == {msg.mods[k] : k \in {k \in DOMAIN msg.mods : msg.mods[k].op = "Add"}}
     IN srv' = [srv EXCEPT
          !.queries = With(Without(@, Touched(msg, "Remove")),
                           [q \in {m.id : m \in added} |-> (CHOOSE m \in added : m.id = q).token]),
          !.querySet = msg.new]
  /\ UNCHANGED <<toClient, applied, executed, protocolError>>

ServerAuthenticate(msg) ==
  /\ msg.type = "Authenticate" /\ msg.base = srv.identity
  /\ srv' = [srv EXCEPT !.user = msg.token, !.identity = @ + 1]
  /\ UNCHANGED <<toClient, applied, executed, protocolError>>

\* A server that meets a base version that is not its own has lost track of its
\* client: it takes no further part in the connection.
ServerRefuses(msg) ==
  /\ \/ msg.type = "ModifyQuerySet" /\ msg.base # srv.querySet
     \/ msg.type = "Authenticate" /\ msg.base # srv.identity
  /\ protocolError' = TRUE
  /\ UNCHANGED <<toClient, srv, applied, executed>>

Respond(id, outcome) ==
  toClient' = Append(toClient, MutationResponse(id, outcome.ok, outcome.ts))

ServerMutation(msg) ==
  /\ msg.type = "Mutation"
  /\ IF msg.id \in DOMAIN applied
     THEN Respond(msg.id, applied[msg.id]) /\ UNCHANGED applied
     ELSE \E ok \in BOOLEAN :
            LET update == requests[msg.id].update
                outcome == [ok |-> ok, ts |-> IF ok THEN clock + 1 ELSE NoTS,
                            token |-> IF update = NoUpdate THEN NoUpdate ELSE update.token]
            IN applied' = Put(applied, msg.id, outcome) /\ Respond(msg.id, outcome)
  /\ srv' = [srv EXCEPT !.owed = TRUE]
  /\ UNCHANGED <<executed, protocolError>>

ServerAction(msg) ==
  /\ msg.type = "Action"
  /\ executed' = Append(executed, msg.id)
  /\ \E success \in BOOLEAN : toClient' = Append(toClient, ActionResponse(msg.id, success))
  /\ UNCHANGED <<srv, applied, protocolError>>

ServerReceive ==
  /\ phase = "connected" /\ toServer # << >> /\ ~protocolError
  /\ toServer' = Tail(toServer)
  /\ LET msg == Head(toServer)
     IN \/ ServerModifyQuerySet(msg) \/ ServerAuthenticate(msg) \/ ServerRefuses(msg)
        \/ ServerMutation(msg) \/ ServerAction(msg)
  /\ UNCHANGED <<vars, phase, needsRestart, drops, writerVars>>

\* The server brings the client to a newer snapshot, which may lag behind clock.
\* A transition also follows every mutation response, even one that repeats the
\* answer to a replayed mutation: the client completes a mutation only when it
\* receives a transition after the response.
ServerTransition(ts) ==
  LET end == [querySet |-> srv.querySet, identity |-> srv.identity, ts |-> ts]
      now == [q \in DOMAIN srv.queries |-> ValueResult(ValueAt(srv.queries[q], ts))]
      changed == {q \in DOMAIN now : q \notin DOMAIN srv.values \/ srv.values[q] # now[q]}
      mods == [updated |-> Restrict(now, changed), removed |-> DOMAIN srv.values \ DOMAIN now]
  IN /\ phase = "connected" /\ ~protocolError
     /\ ts >= srv.sent.ts /\ ts >= srv.floor
     /\ end # srv.sent \/ srv.owed
     /\ toClient' = Append(toClient, TransitionMessage(srv.sent, end, mods))
     /\ srv' = [srv EXCEPT !.sent = end, !.values = now, !.owed = FALSE]
     /\ UNCHANGED <<vars, phase, needsRestart, toServer, applied, executed, drops, protocolError,
                     writerVars>>

-----------------------------------------------------------------------------
(* Manager.Run *)

\* A call of the application; Run need not be connected, or even be running.
ClientCall == Call /\ UNCHANGED sessionVars

\* Manager.Flush reaches the writer.  It may also give up first, and a call whose
\* flush was abandoned leaves its message in the queue.  (A request that finds
\* the queue empty changes nothing and is left out.)
RequestFlush ==
  /\ phase = "connected" /\ ~flushRequested /\ outgoing # << >>
  /\ flushRequested' = TRUE
  /\ UNCHANGED <<vars, phase, needsRestart, toServer, drops, serverVars, oldWriters, taken,
                 everTaken>>

\* flushQueued takes the next message and writes it to the connection ...
Flush ==
  /\ phase = "connected" /\ flushRequested
  /\ PopNextMessage
  /\ toServer' = Append(toServer, Head(outgoing))
  /\ UNCHANGED <<phase, needsRestart, drops, serverVars, writerVars>>

\* ... until the queue is empty: the writer waits for the next request.
FlushDone ==
  /\ phase = "connected" /\ flushRequested /\ outgoing = << >>
  /\ flushRequested' = FALSE
  /\ UNCHANGED <<vars, phase, needsRestart, toServer, drops, serverVars, oldWriters, taken,
                 everTaken>>

\* The writer of a lost connection takes one more message, whose write fails.
OldWriterPops ==
  /\ phase # "stopped" /\ oldWriters > 0
  /\ PopNextMessage
  /\ oldWriters' = oldWriters - 1
  /\ taken' = taken \cup {Head(outgoing)}
  /\ everTaken' = IF Head(outgoing).type \in {"Mutation", "Action"}
                  THEN everTaken \cup {Head(outgoing).id} ELSE everTaken
  /\ UNCHANGED <<phase, needsRestart, toServer, drops, serverVars, flushRequested>>

\* receiveServerMessage: an error of ReceiveMessage ends Run for good.
receiveServerMessage ==
  /\ phase = "connected" /\ toClient # << >>
  /\ LET msg == Head(toClient) IN
     \/ msg.type = "Transition" /\ receiveTransition(msg.start, msg.end, msg.mods)
     \/ msg.type = "MutationResponse" /\ receiveMutationResponse(msg.id, msg.success, msg.ts)
     \/ msg.type = "ActionResponse" /\ receiveActionResponse(msg.id, msg.success)
  /\ toClient' = Tail(toClient)
  /\ phase' = IF receiveFailed' THEN "stopped" ELSE phase
  /\ UNCHANGED <<needsRestart, toServer, srv, applied, executed, drops, protocolError,
                 writerVars>>

\* runConnection returns and its connection is closed.  A writer that is serving
\* a request goes on until a write fails; the one whose failed write ended the
\* connection has returned.
LeaveConnection ==
  /\ phase = "connected" /\ drops < MaxDrops
  /\ drops' = drops + 1
  /\ phase' = "prepare"
  /\ toServer' = << >> /\ toClient' = << >>
  /\ srv' = NewSession(0) /\ protocolError' = FALSE
  /\ flushRequested' = FALSE
  /\ oldWriters' \in {oldWriters, oldWriters + IF flushRequested THEN 1 ELSE 0}
  /\ UNCHANGED <<vars, applied, executed, taken, everTaken>>

\* Mutant: the queue is not rebuilt for the next connection.
ConnectionLostNoReplay == LeaveConnection /\ needsRestart' = FALSE

\* A read error, a failed write or the inactivity timer.
ConnectionLost == LeaveConnection /\ needsRestart' = TRUE

\* prepareNextConnection; prepareReconnect repeats a restart that fails.
prepareNextConnection ==
  /\ phase = "prepare"
  /\ \/ /\ needsRestart
        /\ RestartForReconnect
        /\ phase' = IF restartFailed' THEN "prepare" ELSE "dial"
        /\ taken' = {}
     \/ ~needsRestart /\ phase' = "dial" /\ UNCHANGED <<vars, taken>>
  /\ UNCHANGED <<needsRestart, toServer, drops, serverVars, flushRequested, oldWriters,
                 everTaken>>

\* Mutant: the Connect message names no timestamp.
ConnectUnobserved ==
  /\ phase = "dial"
  /\ phase' = "connected"
  /\ srv' = NewSession(0)
  /\ flushRequested' = TRUE
  /\ UNCHANGED <<vars, needsRestart, toServer, toClient, applied, executed, drops,
                 protocolError, oldWriters, taken, everTaken>>

\* The connection is up, the Connect message names the newest timestamp seen, and
\* the writer starts with a flush request.
Connect ==
  /\ phase = "dial"
  /\ phase' = "connected"
  /\ srv' = NewSession(MaxOf(0, maxObservedTimestamp))
  /\ flushRequested' = TRUE
  /\ UNCHANGED <<vars, needsRestart, toServer, toClient, applied, executed, drops,
                 protocolError, oldWriters, taken, everTaken>>

\* handleDialFailure leaves needsRestart alone; when the Connect message itself
\* cannot be written nothing has been taken from the queue and none is rebuilt.
ConnectFailure ==
  /\ phase = "dial" /\ drops < MaxDrops
  /\ drops' = drops + 1
  /\ phase' = "prepare"
  /\ needsRestart' \in {needsRestart, FALSE}
  /\ UNCHANGED <<vars, toServer, serverVars, writerVars>>

-----------------------------------------------------------------------------
SessionInit ==
  /\ Init
  /\ phase = "prepare" /\ needsRestart = FALSE
  /\ toServer = << >> /\ toClient = << >>
  /\ srv = NewSession(0)
  /\ applied = << >> /\ executed = << >>
  /\ drops = 0
  /\ protocolError = FALSE
  /\ flushRequested = FALSE /\ oldWriters = 0
  /\ taken = {} /\ everTaken = {}

Progress ==
  \/ Flush \/ FlushDone \/ receiveServerMessage \/ prepareNextConnection \/ Connect
  \/ ServerReceive \/ \E ts \in 0 .. clock : ServerTransition(ts)

SessionNext ==
  ClientCall \/ RequestFlush \/ Progress \/ OldWriterPops \/ ConnectionLost \/ ConnectFailure
SessionSpec == SessionInit /\ [][SessionNext]_allVars

\* Goroutines are scheduled and the writer serves the requests it has.  Of the
\* world around the client: the dialer succeeds in the end, a connection that is
\* up carries messages, the server answers, and an auth callback that is asked
\* again and again eventually returns a token.  Nobody need ask for a flush.
Fairness ==
  /\ WF_allVars(Flush) /\ WF_allVars(FlushDone) /\ WF_allVars(receiveServerMessage)
  /\ WF_allVars(prepareNextConnection /\ phase' = "dial") /\ WF_allVars(Connect)
  /\ WF_allVars(ServerReceive) /\ WF_allVars(\E ts \in 0 .. clock : ServerTransition(ts))
FairSpec == SessionSpec /\ Fairness

-----------------------------------------------------------------------------
(* Properties *)

ServerMessage ==
  [type : {"Transition"}, start : StateVersion, end : StateVersion,
   mods : [updated : UNION {[S -> FunctionResult] : S \in SUBSET QueryID},
           removed : SUBSET QueryID]]
    \cup [type : {"MutationResponse"}, id : RequestID, success : BOOLEAN, ts : Nat \cup {NoTS}]
    \cup [type : {"ActionResponse"}, id : RequestID, success : BOOLEAN]

\* The types of the connection loop, of the channels and of the writers.
SessionTypeOK ==
  /\ phase \in {"prepare", "dial", "connected", "stopped"}
  /\ needsRestart \in BOOLEAN /\ protocolError \in BOOLEAN
  /\ drops \in 0 .. MaxDrops
  /\ toServer \in Seq(ClientMessage)
  /\ \A i \in DOMAIN toClient :
       toClient[i].type # "Transition" => toClient[i] \in ServerMessage
  /\ executed \in Seq(RequestID)
  /\ flushRequested \in BOOLEAN /\ oldWriters \in 0 .. MaxDrops
  /\ taken \subseteq ClientMessage /\ everTaken \subseteq RequestID

Taken(type) == {msg \in taken : msg.type = type}
TakenQueries == UNION {Touched(msg, "Add") \cup Touched(msg, "Remove") : msg \in Taken("ModifyQuerySet")}

\* The server never receives a query set or an identity based on a version it
\* does not have: whatever was lost with a connection, the queue that
\* RestartForReconnect builds, and the calls made while the client is offline,
\* form the beginning of a new version chain.  The one exception: the writer of
\* a lost connection took a link of that chain from the rebuilt queue.
NoProtocolError == protocolError => Taken("ModifyQuerySet") \cup Taken("Authenticate") # {}

\* When everything queued has been delivered the server evaluates exactly the
\* client's active queries, as the user whose token the client holds.  The one
\* exception: the writer of a lost connection took the change of that query, or
\* of the user, from the rebuilt queue.
ServerAgrees ==
  phase = "connected" /\ outgoing = << >> /\ toServer = << >> /\ ~protocolError =>
    /\ \A q \in QueryID \ TakenQueries :
         /\ q \in DOMAIN srv.queries <=> q \in DOMAIN queryIDToToken
         /\ q \in DOMAIN srv.queries => srv.queries[q] = queryIDToToken[q]
    /\ Taken("Authenticate") = {} =>
         /\ authFetcher = NoFetcher => srv.user = NoAuth
         /\ authFetcher \in Auth => srv.user = authFetcher

\* Against such a server no message makes ReceiveMessage fail, so Run goes on:
\* in particular a response to a mutation that was replayed after it had been
\* answered is recognised.
RunGoesOn == phase # "stopped"

\* A mutation response for a request that is no longer tracked is a duplicate,
\* and is ignored: "duplicate mutation response after completion should be
\* ignored" (baseclient/request_manager_test.go).
DuplicateResponsesIgnored ==
  [][/\ toClient # << >> /\ toClient' = Tail(toClient) /\ phase = "connected" /\ drops' = drops
     /\ Head(toClient).type = "MutationResponse" /\ Head(toClient).id \notin DOMAIN requests
     => ~receiveFailed']_allVars

\* The results from the server are one snapshot: once a connection has answered
\* the query set, all results are the values at remoteVersion's timestamp.  (The
\* server was never asked again for a query whose replayed Add the writer of a
\* lost connection took: its result is that of an earlier connection.)
SnapshotConsistent ==
  remoteVersion.querySet > 0 =>
    \A q \in DOMAIN serverResults \ TakenQueries :
      serverResults[q] = ValueResult(ValueAt(queryIDToToken[q], remoteVersion.ts))

\* Once a mutation has been reported as successful every result shows its
\* write, also on a later connection, because Connect names the newest
\* timestamp seen.  (Until a new connection has answered the query set, the
\* results of the previous one are shown, and likewise for a query whose
\* replayed Add the writer of a lost connection took.)
ReadYourWrites ==
  \A id \in DOMAIN mutationResults, q \in DOMAIN serverResults \ TakenQueries :
    /\ mutationResults[id].ok /\ remoteVersion.querySet > 0
    /\ applied[id].token = queryIDToToken[q]
    => id \in serverResults[q].value

\* The server executes the client's mutations in the order of issue, without
\* leaving one out, whatever is lost and replayed.  The one exception: a
\* mutation that the writer of a lost connection took is executed after the
\* ones behind it, when the next connection replays it.
MutationsInOrder ==
  \A b \in DOMAIN applied :
    /\ \A a \in Mutations(requests) \ everTaken : a < b => a \in DOMAIN applied
    /\ \A a \in DOMAIN applied \ everTaken :
         a < b /\ applied[a].ok /\ applied[b].ok => applied[a].ts < applied[b].ts

\* No action is executed twice, and the outcome recorded for one that was
\* never executed is an error.
ActionsAtMostOnce ==
  /\ IsInjective(executed)
  /\ \A id \in DOMAIN actionResults : actionResults[id].ok => id \in Range(executed)

\* What this connection will not carry: what the writer of a lost connection
\* took, and what is queued while nobody asks for a flush.
StuckMessages ==
  taken \cup (IF phase = "connected" /\ ~flushRequested THEN Range(outgoing) ELSE {})
StuckRequests == {msg.id : msg \in {m \in StuckMessages : m.type \in {"Mutation", "Action"}}}
StuckQueries ==
  UNION {Touched(msg, "Add") : msg \in {m \in StuckMessages : m.type = "ModifyQuerySet"}}

\* Every mutation completes and every action is answered or cancelled, unless
\* its message is stuck for good, or the server has lost track of the client,
\* and the connection never drops again to have the request replayed.
RequestsComplete ==
  \A id \in RequestID :
    []<>(id \notin DOMAIN requests) \/ <>[](id \in StuckRequests \/ protocolError)

\* When the application stops calling and the connection stops dropping, the
\* results become the server's newest values, with no optimistic trace left,
\* except for a query whose Add is stuck and for the trace of a stuck mutation.
ResultsConverge ==
  <>[](\A q \in DOMAIN queryIDToToken \ StuckQueries :
         \/ /\ q \in DOMAIN results
            /\ results[q] = ValueResult(ValueAt(queryIDToToken[q], clock))
         \/ \E id \in StuckRequests \cap DOMAIN requests :
              requests[id].update # NoUpdate /\ requests[id].update.token = queryIDToToken[q]
         \/ protocolError)

=============================================================================
