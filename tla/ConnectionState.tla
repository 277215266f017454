--------------------------- MODULE ConnectionState ---------------------------
(***************************************************************************)
(* The connection state of syncclient.Manager and its subscribers: the run  *)
(* goroutine of each realtime client changes the state under a lock and     *)
(* then calls, without it, the subscribers it found.                        *)
(***************************************************************************)
EXTENDS Integers, FiniteSets

CONSTANTS
  Clients,     \* the realtime clients that may be created
  MaxChanges   \* bound: connections made and lost, per client

VARIABLES
  run,         \* per client: unused, starting, running, ending, done
  cancelled,   \* per client: its context is cancelled
  state,       \* per client: Manager.connectionState
  subscribers, \* per client: connectionStateSubscribers
  calls        \* per client: the callbacks the run goroutine has still to make

stateVars == <<run, cancelled, state, subscribers, calls>>

\* The time of the last change tells the states of two clients apart.
Phase(phase, client, count, retries) ==
  [Phase |-> phase, LastChange |-> client, ConnectionCount |-> count,
   ConnectionRetries |-> retries]

-----------------------------------------------------------------------------
(* The run goroutine *)

\* updateConnectionState: the subscribers are collected with the new state.
updateConnectionState(r, next) ==
  /\ calls[r] = {}
  /\ state' = [state EXCEPT ![r] = next]
  /\ calls' = [calls EXCEPT ![r] = IF next = state[r] THEN {} ELSE subscribers[r]]
  /\ UNCHANGED subscribers

markConnecting(r) == updateConnectionState(r, [state[r] EXCEPT !.Phase = "Connecting"])

markConnected(r) ==
  updateConnectionState(r, [state[r] EXCEPT !.Phase = "Connected", !.ConnectionCount = @ + 1])

markReconnecting(r) ==
  updateConnectionState(r, [state[r] EXCEPT !.Phase = "Reconnecting", !.ConnectionRetries = @ + 1])

markDisconnected(r) == updateConnectionState(r, [state[r] EXCEPT !.Phase = "Disconnected"])

Changes(r) == state[r].ConnectionCount + state[r].ConnectionRetries

RunTo(r, pc) == run' = [run EXCEPT ![r] = pc]

startRun(r) ==
  /\ run[r] = "starting"
  /\ markConnecting(r)
  /\ RunTo(r, "running")
  /\ UNCHANGED cancelled

Connected(r) ==
  /\ run[r] = "running" /\ ~cancelled[r] /\ Changes(r) < MaxChanges
  /\ state[r].Phase \in {"Connecting", "Reconnecting"}
  /\ markConnected(r)
  /\ UNCHANGED <<run, cancelled>>

\* A failed dial, or the loss of the connection.
Reconnecting(r) ==
  /\ run[r] = "running" /\ ~cancelled[r] /\ Changes(r) < MaxChanges
  /\ markReconnecting(r)
  /\ UNCHANGED <<run, cancelled>>

\* Run ends when its context is cancelled, or after an error it does not survive.
finishRun(r) ==
  /\ run[r] = "running"
  /\ cancelled[r] \/ Changes(r) < MaxChanges
  /\ markDisconnected(r)
  /\ RunTo(r, "ending")
  /\ UNCHANGED cancelled

\* WebSocketClient.run cancels the client's context once Run has returned.
RunDone(r) ==
  /\ run[r] = "ending" /\ calls[r] = {}
  /\ RunTo(r, "done")
  /\ cancelled' = [cancelled EXCEPT ![r] = TRUE]
  /\ UNCHANGED <<state, subscribers, calls>>

RunChanges(r) ==
  startRun(r) \/ Connected(r) \/ Reconnecting(r) \/ finishRun(r) \/ RunDone(r)

-----------------------------------------------------------------------------
(* Creating, closing and observing a client *)

\* doneErr returns nil.
Live(r) == run[r] # "unused" /\ ~cancelled[r]

StateInit ==
  /\ run = [r \in Clients |-> "unused"]
  /\ cancelled = [r \in Clients |-> FALSE]
  /\ state = [r \in Clients |-> Phase("Disconnected", r, 0, 0)]
  /\ subscribers = [r \in Clients |-> {}]
  /\ calls = [r \in Clients |-> {}]

\* NewWebSocketClient starts run; alive is FALSE when it is closed at once.
NewClient(r, alive) ==
  /\ run[r] = "unused"
  /\ RunTo(r, "starting")
  /\ cancelled' = [cancelled EXCEPT ![r] = ~alive]
  /\ UNCHANGED <<state, subscribers, calls>>

Cancel(r) ==
  /\ cancelled' = [cancelled EXCEPT ![r] = TRUE]
  /\ UNCHANGED <<run, state, subscribers, calls>>

Subscribed(r, id) ==
  /\ subscribers' = [subscribers EXCEPT ![r] = @ \cup {id}]
  /\ UNCHANGED <<run, cancelled, state, calls>>

Unsubscribed(ids) ==
  /\ subscribers' = [r \in Clients |-> subscribers[r] \ {i[2] : i \in {j \in ids : j[1] = r}}]
  /\ UNCHANGED <<run, cancelled, state, calls>>

=============================================================================
