--------------------------- MODULE RequestPromises ---------------------------
(***************************************************************************)
(* What baseclient.Client promises about mutations and actions, without the *)
(* messages, the queue and the query results it keeps the promise with.     *)
(* A request is issued once and settled once.  A mutation succeeds when the  *)
(* client shows a snapshot that contains it and not before; nothing but its  *)
(* own failure ends it otherwise, and a lost connection does not.  An action *)
(* ends with its response or with the connection.  An outcome may be         *)
(* forgotten but never changes.                                              *)
(***************************************************************************)
EXTENDS Integers

CONSTANT Timestamp   \* the timestamps a server may name

VARIABLES
  issued,     \* how many requests were issued; their ids count from 0
  pending,    \* id -> "Mutation" or "Action"
  committed,  \* id of a pending mutation that the server ran -> its timestamp
  outcomes,   \* id -> whether the request succeeded, if that is remembered
  snapshot    \* the timestamp of the results that the client shows

vars == <<issued, pending, committed, outcomes, snapshot>>

NoTS == -1    \* a success without a timestamp, which no snapshot shows

Init ==
  /\ issued = 0 /\ snapshot = 0
  /\ pending = << >> /\ committed = << >> /\ outcomes = << >>

Issue(kind) ==
  /\ issued' = issued + 1
  /\ pending' = [id \in DOMAIN pending \cup {issued} |-> IF id = issued THEN kind ELSE pending[id]]
  /\ UNCHANGED <<committed, outcomes, snapshot>>

\* The requests S end; room for their outcomes may be made at the cost of others, but
\* not of all of them.
Settle(S, ok) ==
  /\ pending' = [id \in DOMAIN pending \ S |-> pending[id]]
  /\ committed' = [id \in DOMAIN committed \ S |-> committed[id]]
  /\ \E kept \in SUBSET (DOMAIN outcomes \cup S) :
       /\ IF S = {} THEN kept = DOMAIN outcomes ELSE kept \cap S # {}
       /\ outcomes' = [id \in kept |-> IF id \in S THEN ok ELSE outcomes[id]]
  /\ UNCHANGED issued

Ids(kind) == {id \in DOMAIN pending : pending[id] = kind}

\* The server has run a mutation; it may say so again, with another timestamp.
Commit(id, ts) ==
  /\ id \in Ids("Mutation")
  /\ committed' = [i \in DOMAIN committed \cup {id} |-> IF i = id THEN ts ELSE committed[i]]
  /\ UNCHANGED <<issued, pending, outcomes, snapshot>>

Fail(id) ==
  /\ id \in Ids("Mutation")
  /\ Settle({id}, FALSE)
  /\ UNCHANGED snapshot

Answer(id, ok) ==
  /\ id \in Ids("Action")
  /\ Settle({id}, ok)
  /\ UNCHANGED snapshot

\* All the mutations that the snapshot contains succeed with it.
Show(ts) ==
  /\ snapshot' = ts
  /\ Settle({id \in DOMAIN committed : committed[id] # NoTS /\ committed[id] <= ts}, TRUE)

Reconnect ==
  /\ snapshot' = 0
  /\ Settle(Ids("Action"), FALSE)

Next ==
  \/ \E kind \in {"Mutation", "Action"} : Issue(kind)
  \/ \E id \in DOMAIN pending, ts \in Timestamp \cup {NoTS} : Commit(id, ts)
  \/ \E id \in DOMAIN pending : Fail(id)
  \/ \E id \in DOMAIN pending, ok \in BOOLEAN : Answer(id, ok)
  \/ \E ts \in Timestamp : Show(ts)
  \/ Reconnect

Spec == Init /\ [][Next]_vars

=============================================================================
