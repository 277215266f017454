---------------------- MODULE BaseClientPendingProofs ----------------------
(***************************************************************************)
(* No request of baseclient.Client gets lost and none is queued twice, for  *)
(* every history of calls, restarts and server messages.                    *)
(***************************************************************************)
EXTENDS BaseClientQueueProofs

Carries(msg, id) == msg.type \in {"Mutation", "Action"} /\ msg.id = id

\* The property in terms of positions, which is how steps change the queue.
UnderwayAt(id) ==
  \/ restartFailed /\ requests[id].kind = "Mutation"
  \/ id \in sentRequests /\ \A i \in DOMAIN outgoing : ~Carries(outgoing[i], id)
  \/ /\ id \notin sentRequests
     /\ \E i \in DOMAIN outgoing :
          /\ Carries(outgoing[i], id)
          /\ \A j \in DOMAIN outgoing : Carries(outgoing[j], id) => j = i

Underway == \A id \in DOMAIN requests : UnderwayAt(id)

\* It is the property that the runs check.
LEMMA UnderwayIsPending == Underway <=> PendingRequestsOnTheWay
<1>1. ASSUME NEW id
      PROVE  /\ QueuedRequest(id) = {} <=> \A i \in DOMAIN outgoing : ~Carries(outgoing[i], id)
             /\ (\E i \in QueuedRequest(id) : QueuedRequest(id) = {i})
                  <=> \E i \in DOMAIN outgoing :
                        /\ Carries(outgoing[i], id)
                        /\ \A j \in DOMAIN outgoing : Carries(outgoing[j], id) => j = i
  BY DEF QueuedRequest, Carries
<1>. QED BY <1>1 DEF Underway, UnderwayAt, PendingRequestsOnTheWay

\* The pending requests are some of the old ones.
Shrinks ==
  \A id \in DOMAIN requests' : id \in DOMAIN requests /\ requests'[id].kind = requests[id].kind

\* A step that leaves the queue alone.
LEMMA SamePending ==
  ASSUME Underway, Shrinks, UNCHANGED <<outgoing, sentRequests, restartFailed>>
  PROVE  Underway'
BY DEF Underway, UnderwayAt, Shrinks

\* A message that carries no request, or the one that is created with it.
LEMMA AppendPending ==
  ASSUME TypeOK, Underway, NEW msg, outgoing' = Append(outgoing, msg),
         UNCHANGED <<sentRequests, restartFailed>>,
         msg.type \in {"Mutation", "Action"} => msg.id = nextRequestID,
         \A id \in DOMAIN requests' :
           \/ id \in DOMAIN requests /\ requests'[id].kind = requests[id].kind
           \/ id = nextRequestID /\ Carries(msg, id)
  PROVE  Underway'
<1>. DEFINE n == Len(outgoing)
<1>1. /\ DOMAIN outgoing = 1 .. n /\ n \in Nat
      /\ DOMAIN outgoing' = 1 .. n + 1 /\ outgoing'[n + 1] = msg
      /\ \A i \in 1 .. n : outgoing'[i] = outgoing[i]
  BY AppendFact DEF TypeOK
<1>2. \A i \in 1 .. n : outgoing[i].type \in {"Mutation", "Action"} =>
                          outgoing[i].id \in 0 .. nextRequestID - 1
  BY <1>1, QueuedFact DEF TypeOK
<1>3. /\ nextRequestID \in Nat /\ sentRequests \subseteq 0 .. nextRequestID - 1
      /\ DOMAIN requests \subseteq 0 .. nextRequestID - 1
  BY BoundsAssumption DEF TypeOK, RequestTypes
<1>. HIDE DEF n
<1>4. n + 1 \in 1 .. n + 1 /\ \A i \in 1 .. n + 1 : i \in 1 .. n \/ i = n + 1
  BY <1>1
<1>5. nextRequestID \notin 0 .. nextRequestID - 1 BY <1>3
<1>6. ASSUME NEW id \in DOMAIN requests, id \in DOMAIN requests',
             requests'[id].kind = requests[id].kind
      PROVE  UnderwayAt(id)'
  <2>1. ~Carries(msg, id) BY <1>3, <1>5 DEF Carries
  <2>2. \A i \in 1 .. n + 1 : Carries(outgoing'[i], id) <=> i \in 1 .. n /\ Carries(outgoing[i], id)
    BY <1>1, <1>4, <2>1
  <2>3. 1 .. n \subseteq 1 .. n + 1 BY <1>1
  <2>4. UnderwayAt(id) BY DEF Underway
  <2>. QED BY <1>1, <1>6, <2>2, <2>3, <2>4 DEF UnderwayAt
<1>7. ASSUME NEW id \in DOMAIN requests', id = nextRequestID, Carries(msg, id)
      PROVE  UnderwayAt(id)'
  <2>1. id \notin sentRequests BY <1>3, <1>5, <1>7
  <2>2. \A i \in 1 .. n : ~Carries(outgoing[i], id) BY <1>2, <1>5, <1>7 DEF Carries
  <2>3. \A i \in 1 .. n + 1 : Carries(outgoing'[i], id) <=> i = n + 1
    BY <1>1, <1>4, <1>7, <2>2
  <2>. QED BY <1>1, <1>4, <2>1, <2>3 DEF UnderwayAt
<1>. QED BY <1>6, <1>7 DEF Underway

\* The first message is handed out: the request it carries is sent, and queued no
\* more.
LEMMA PopPending ==
  ASSUME TypeOK, Underway, PopNextMessage
  PROVE  Underway'
<1>. DEFINE n == Len(outgoing)
            msg == Head(outgoing)
<1>1. /\ DOMAIN outgoing = 1 .. n /\ n \in Nat /\ n > 0
      /\ DOMAIN outgoing' = 1 .. n - 1
      /\ \A i \in 1 .. n - 1 : outgoing'[i] = outgoing[i + 1]
      /\ msg = outgoing[1]
  BY DEF PopNextMessage, TypeOK
<1>2. /\ sentRequests' = IF msg.type \in {"Mutation", "Action"}
                         THEN sentRequests \cup {msg.id} ELSE sentRequests
      /\ requests' = requests /\ restartFailed' = restartFailed
  BY DEF PopNextMessage, requestVars, errVars
<1>. HIDE DEF n, msg
<1>3. /\ 1 \in 1 .. n /\ \A i \in 1 .. n - 1 : i + 1 \in 1 .. n /\ i + 1 # 1
      /\ \A i \in 1 .. n : i # 1 => i - 1 \in 1 .. n - 1 /\ (i - 1) + 1 = i
      /\ \A i, j \in 1 .. n - 1 : i + 1 = j + 1 => i = j
  BY <1>1
<1>4. ASSUME NEW id \in DOMAIN requests PROVE UnderwayAt(id)'
  <2>0. UnderwayAt(id) BY DEF Underway
  <2>1. CASE restartFailed /\ requests[id].kind = "Mutation"
    BY <1>2, <2>1 DEF UnderwayAt
  <2>2. CASE id \in sentRequests /\ \A i \in DOMAIN outgoing : ~Carries(outgoing[i], id)
    <3>1. \A i \in 1 .. n - 1 : ~Carries(outgoing'[i], id) BY <1>1, <1>3, <2>2
    <3>. QED BY <1>1, <1>2, <2>2, <3>1 DEF UnderwayAt
  <2>3. ASSUME id \notin sentRequests, NEW i \in DOMAIN outgoing, Carries(outgoing[i], id),
               \A j \in DOMAIN outgoing : Carries(outgoing[j], id) => j = i
        PROVE  UnderwayAt(id)'
    <3>1. CASE i = 1
      <4>1. id \in sentRequests' BY <1>1, <1>2, <2>3, <3>1 DEF Carries
      <4>2. \A j \in 1 .. n - 1 : ~Carries(outgoing'[j], id) BY <1>1, <1>3, <2>3, <3>1
      <4>. QED BY <1>1, <4>1, <4>2 DEF UnderwayAt
    <3>2. CASE i # 1
      <4>1. ~Carries(msg, id) BY <1>1, <1>3, <2>3, <3>2
      <4>2. id \notin sentRequests' BY <1>2, <2>3, <4>1 DEF Carries
      <4>3. i - 1 \in 1 .. n - 1 /\ outgoing'[i - 1] = outgoing[i] BY <1>1, <1>3, <3>2
      <4>4. \A j \in 1 .. n - 1 : Carries(outgoing'[j], id) => j = i - 1
        BY <1>1, <1>3, <2>3
      <4>. QED BY <1>1, <2>3, <4>2, <4>3, <4>4 DEF UnderwayAt
    <3>. QED BY <3>1, <3>2
  <2>. QED BY <2>0, <2>1, <2>2, <2>3 DEF UnderwayAt
<1>. QED BY <1>2, <1>4 DEF Underway

\* What follows messages that carry no request keeps its order behind them.
LEMMA BehindOthers ==
  ASSUME NEW M, NEW pre \in Seq(M), NEW s \in Seq(M),
         \A i \in DOMAIN pre : pre[i].type \notin {"Mutation", "Action"}
  PROVE  LET all == pre \o s
             k == Len(pre)
         IN  /\ \A i \in DOMAIN s : k + i \in DOMAIN all /\ all[k + i] = s[i]
             /\ \A i \in DOMAIN all :
                  all[i].type \in {"Mutation", "Action"} => i - k \in DOMAIN s /\ k + (i - k) = i
<1>. DEFINE all == pre \o s
            k == Len(pre)
<1>1. /\ k \in Nat /\ Len(s) \in Nat /\ DOMAIN pre = 1 .. k /\ DOMAIN s = 1 .. Len(s)
      /\ DOMAIN all = 1 .. k + Len(s)
      /\ \A i \in 1 .. k + Len(s) : all[i] = IF i <= k THEN pre[i] ELSE s[i - k]
  OBVIOUS
<1>. HIDE DEF all, k
<1>2. ASSUME NEW i \in DOMAIN s PROVE k + i \in DOMAIN all /\ all[k + i] = s[i]
  <2>1. k + i \in 1 .. k + Len(s) /\ ~(k + i <= k) /\ (k + i) - k = i BY <1>1
  <2>. QED BY <1>1, <2>1
<1>3. ASSUME NEW i \in DOMAIN all, all[i].type \in {"Mutation", "Action"}
      PROVE  i - k \in DOMAIN s /\ k + (i - k) = i
  <2>1. ~(i <= k)
    <3>1. SUFFICES ASSUME i <= k PROVE FALSE OBVIOUS
    <3>2. i \in DOMAIN pre /\ all[i] = pre[i] BY <1>1, <3>1
    <3>. QED BY <1>3, <3>2
  <2>. QED BY <1>1, <2>1
<1>. QED BY <1>2, <1>3 DEF all, k

\* A restart queues every pending mutation once, unless it fails, and cancels the
\* actions.
LEMMA RestartPending ==
  ASSUME TypeAndSubscriptions, RestartForReconnect
  PROVE  Underway'
<1>. DEFINE S == Mutations(requests)
<1>1. /\ DOMAIN requests' = DOMAIN requests \ Actions(requests)
      /\ \A id \in DOMAIN requests' : requests'[id] = requests[id]
      /\ sentRequests' = {}
  BY DEF RestartForReconnect, cancelPendingActionsForReconnect, Without, Restrict
<1>2. /\ S \in SUBSET (0 .. nextRequestID - 1) /\ nextRequestID \in Nat
      /\ \A id \in DOMAIN requests : requests[id].kind \in {"Mutation", "Action"}
      /\ \A id \in S : requests[id].ts \in Int
  BY BoundsAssumption DEF TypeAndSubscriptions, TypeOK, RequestTypes, Mutations, Request, NoTS
<1>3. \A id \in DOMAIN requests' : id \in S /\ requests'[id].kind = "Mutation"
  BY <1>1, <1>2 DEF Actions, Mutations
<1>4. CASE restartFailed'
  BY <1>3, <1>4 DEF Underway, UnderwayAt
<1>5. ASSUME NEW auth \in RefreshedAuth, NEW adds \in replayQueryAdds,
             NEW replay \in ReplayOngoingRequests,
             outgoing' = auth \o (IF adds = << >> THEN << >> ELSE <<ModifyQuerySet(0, adds)>>)
                             \o replay
      PROVE  Underway'
  <2>. DEFINE pre == auth \o (IF adds = << >> THEN << >> ELSE <<ModifyQuerySet(0, adds)>>)
              Other == {msg \in {auth[i] : i \in DOMAIN auth} \cup {ModifyQuerySet(0, adds)} :
                          msg.type \notin {"Mutation", "Action"}}
              M == Other \cup {replay[i] : i \in DOMAIN replay}
              k == Len(pre)
  <2>1. auth \in Seq(Other)
    <3>1. CASE auth = << >> BY <3>1
    <3>2. CASE auth # << >>
      <4>1. PICK tok : auth = <<Authenticate(0, tok)>> BY <3>2 DEF RefreshedAuth
      <4>2. Authenticate(0, tok) \in Other BY <4>1 DEF Authenticate
      <4>. HIDE DEF Other
      <4>. QED BY <4>1, <4>2
    <3>. QED BY <3>1, <3>2
  <2>2. ModifyQuerySet(0, adds) \in Other BY DEF ModifyQuerySet
  <2>3. pre \in Seq(Other)
    <3>. HIDE DEF Other
    <3>. QED BY <2>1, <2>2
  <2>4. PICK s \in Seq(S) :
          /\ Range(s) = S /\ \A i, j \in DOMAIN s : i < j => ReplayBefore(s[i], s[j])
          /\ DOMAIN replay = DOMAIN s /\ Len(replay) = Len(s)
          /\ replay = [i \in DOMAIN s |-> RequestMessage("Mutation", s[i])]
    BY <1>2, IdsFinite, ReplayFact
  <2>5. \A i, j \in DOMAIN s : s[i] = s[j] => i = j
    <3>1. \A a \in S : ~ReplayBefore(a, a) BY <1>2 DEF ReplayBefore
    <3>2. \A i \in DOMAIN s : i \in Int /\ s[i] \in S BY <2>4
    <3>. QED BY <2>4, <3>1, <3>2
  <2>6. \A i \in DOMAIN s : replay[i].type = "Mutation" /\ replay[i].id = s[i]
    BY <2>4 DEF RequestMessage
  <2>7. /\ pre \in Seq(M) /\ replay \in Seq(M) /\ outgoing' = pre \o replay
        /\ \A i \in DOMAIN pre : pre[i].type \notin {"Mutation", "Action"}
    <3>1. \A m \in Other : m.type \notin {"Mutation", "Action"} OBVIOUS
    <3>2. replay \in Seq({replay[i] : i \in DOMAIN replay})
      <4>1. Len(s) \in Nat /\ DOMAIN s = 1 .. Len(s) BY <2>4
      <4>. QED BY <2>4, <4>1
    <3>. DEFINE T == {replay[i] : i \in DOMAIN replay}
    <3>. HIDE DEF Other, pre, T
    <3>3. \A i \in DOMAIN pre : pre[i] \in Other BY <2>3
    <3>4. pre \in Seq(Other \cup T) BY <2>3
    <3>5. replay \in Seq(Other \cup T)
      <4>1. replay \in Seq(T) BY <3>2 DEF T
      <4>. QED BY <4>1
    <3>. QED BY <1>5, <3>1, <3>3, <3>4, <3>5 DEF T, pre
  <2>. HIDE DEF pre, M, Other
  <2>8. /\ \A i \in DOMAIN replay : k + i \in DOMAIN outgoing' /\ outgoing'[k + i] = replay[i]
        /\ \A i \in DOMAIN outgoing' : outgoing'[i].type \in {"Mutation", "Action"} =>
             i - k \in DOMAIN replay /\ k + (i - k) = i
    BY <2>7, BehindOthers
  <2>9. ASSUME NEW id \in DOMAIN requests' PROVE UnderwayAt(id)'
    <3>1. PICK i \in DOMAIN s : s[i] = id BY <1>3, <2>4 DEF Range
    <3>2. k + i \in DOMAIN outgoing' /\ Carries(outgoing'[k + i], id)
      BY <2>4, <2>6, <2>8, <3>1 DEF Carries
    <3>3. ASSUME NEW j \in DOMAIN outgoing', Carries(outgoing'[j], id) PROVE j = k + i
      <4>1. j - k \in DOMAIN s /\ k + (j - k) = j BY <2>4, <2>8, <3>3 DEF Carries
      <4>2. outgoing'[j] = replay[j - k] BY <2>4, <2>8, <4>1
      <4>3. s[j - k] = s[i] BY <2>6, <3>1, <3>3, <4>1, <4>2 DEF Carries
      <4>4. j - k = i BY <2>5, <4>1, <4>3
      <4>. QED BY <4>1, <4>4
    <3>. QED BY <1>1, <3>2, <3>3 DEF UnderwayAt
  <2>. QED BY <2>9 DEF Underway
<1>. QED BY <1>4, <1>5 DEF RestartForReconnect, RestartQueue

\* A new request is queued with its creation.
LEMMA IssuePending ==
  ASSUME TypeOK, Underway, NEW kind \in {"Mutation", "Action"}, NEW update,
         requests' = Put(requests, nextRequestID, NewRequest(kind, update)),
         outgoing' = Append(outgoing, RequestMessage(kind, nextRequestID)),
         UNCHANGED <<sentRequests, restartFailed>>
  PROVE  Underway'
<1>. DEFINE msg == RequestMessage(kind, nextRequestID)
<1>1. msg.type = kind /\ msg.id = nextRequestID BY DEF RequestMessage
<1>2. /\ DOMAIN requests' = DOMAIN requests \cup {nextRequestID}
      /\ \A id \in DOMAIN requests : id # nextRequestID => requests'[id] = requests[id]
  BY DEF Put
<1>. HIDE DEF msg
<1>3. \A id \in DOMAIN requests' :
        \/ id \in DOMAIN requests /\ requests'[id].kind = requests[id].kind
        \/ id = nextRequestID /\ Carries(msg, id)
  BY <1>1, <1>2 DEF Carries
<1>4. outgoing' = Append(outgoing, msg) BY DEF msg
<1>. QED BY <1>1, <1>3, <1>4, AppendPending

\* Server messages end requests and note results; they do not touch the queue.
LEMMA ReceivePending ==
  ASSUME TypeOK, Underway, Receive
  PROVE  Underway'
<1>0. ASSUME RejectMessage PROVE Underway'
  BY <1>0, SamePending DEF RejectMessage, Shrinks, requestVars, sentVars
<1>1. ASSUME NEW S, requests' = Without(requests, S),
             UNCHANGED <<outgoing, sentRequests, restartFailed>>
      PROVE  Underway'
  <2>1. Shrinks BY <1>1 DEF Shrinks, Without, Restrict
  <2>. QED BY <1>1, <2>1, SamePending
<1>2. ASSUME NEW start, NEW end, NEW mods, receiveTransition(start, end, mods) PROVE Underway'
  BY <1>0, <1>1, <1>2 DEF receiveTransition, sentVars
<1>3. ASSUME NEW id, NEW success, NEW ts, receiveMutationResponse(id, success, ts)
      PROVE  Underway'
  <2>1. CASE RejectMessage BY <1>0, <2>1
  <2>2. CASE ~RejectMessage
    <3>1. /\ \/ MutationResponseDuplicate(id, ts)
             \/ MutationResponseSuccess(id, ts)
             \/ MutationResponseFailure(id, ts)
          /\ UNCHANGED <<outgoing, sentRequests, restartFailed>>
      BY <1>3, <2>2 DEF receiveMutationResponse, sentVars
    <3>2. CASE MutationResponseDuplicate(id, ts)
      BY <3>1, <3>2, SamePending DEF MutationResponseDuplicate, Shrinks
    <3>3. CASE MutationResponseSuccess(id, ts)
      <4>1. /\ id \in DOMAIN requests /\ requests[id] \in Request
            /\ requests' = [requests EXCEPT ![id] = [requests[id] EXCEPT
                              !.result = functionResultFromResponse(TRUE), !.hasResult = TRUE, !.ts = ts]]
        BY <3>3 DEF MutationResponseSuccess, Mutations, TypeOK, RequestTypes
      <4>2. Shrinks BY <4>1 DEF Shrinks, Request
      <4>. QED BY <3>1, <4>2, SamePending
    <3>4. CASE MutationResponseFailure(id, ts)
      <4>1. requests' = Without(requests, {id}) BY <3>4 DEF MutationResponseFailure
      <4>. QED BY <1>1, <3>1, <4>1
    <3>. QED BY <3>1, <3>2, <3>3, <3>4
  <2>. QED BY <2>1, <2>2
<1>4. ASSUME NEW id, NEW success, receiveActionResponse(id, success) PROVE Underway'
  BY <1>0, <1>1, <1>4 DEF receiveActionResponse, sentVars
<1>. QED BY <1>0, <1>2, <1>3, <1>4 DEF Receive, receiveErrorMessage

\* Every step keeps the requests on their way.
LEMMA NextPending ==
  ASSUME TypeAndSubscriptions, Underway, [Next]_vars
  PROVE  Underway'
<1>0. TypeOK BY DEF TypeAndSubscriptions
<1>. USE DEF requestVars, sentVars, errVars
<1>1. ASSUME UNCHANGED <<requests, outgoing, sentRequests, restartFailed>> PROVE Underway'
  BY <1>1, SamePending DEF Shrinks
<1>2. ASSUME NEW msg, outgoing' = Append(outgoing, msg),
             msg.type \notin {"Mutation", "Action"},
             UNCHANGED <<requests, sentRequests, restartFailed>>
      PROVE  Underway'
  BY <1>0, <1>2, AppendPending
<1>3. ASSUME NEW s \in Spelling, Subscribe(s) PROVE Underway'
  <2>0. UNCHANGED <<requests, sentRequests, restartFailed>> BY <1>3 DEF Subscribe
  <2>1. CASE SubscribeExisting(Canonical[s])
    BY <1>1, <2>0, <2>1 DEF SubscribeExisting
  <2>2. CASE SubscribeNew(Canonical[s])
    <3>. DEFINE msg == ModifyQuerySet(querySetVersion, <<QuerySetAdd(nextQueryID, Canonical[s])>>)
    <3>1. outgoing' = Append(outgoing, msg) BY <2>2 DEF SubscribeNew
    <3>2. msg.type \notin {"Mutation", "Action"} BY DEF ModifyQuerySet
    <3>. HIDE DEF msg
    <3>. QED BY <1>2, <2>0, <3>1, <3>2
  <2>. QED BY <1>3, <2>1, <2>2 DEF Subscribe
<1>4. ASSUME NEW id \in subscribers, Unsubscribe(id) PROVE Underway'
  <2>. DEFINE t == queryIDToToken[id[1]]
  <2>0. UNCHANGED <<requests, sentRequests, restartFailed>> BY <1>4 DEF Unsubscribe
  <2>1. CASE UnsubscribeShared(id, t)
    BY <1>1, <2>0, <2>1 DEF UnsubscribeShared
  <2>2. CASE UnsubscribeLast(id, t)
    <3>. DEFINE msg == ModifyQuerySet(querySetVersion, <<QuerySetRemove(id[1], t)>>)
    <3>1. outgoing' = Append(outgoing, msg) BY <2>2 DEF UnsubscribeLast
    <3>2. msg.type \notin {"Mutation", "Action"} BY DEF ModifyQuerySet
    <3>. HIDE DEF msg
    <3>. QED BY <1>2, <2>0, <3>1, <3>2
  <2>. QED BY <1>4, <2>1, <2>2 DEF Unsubscribe
<1>5. ASSUME NEW tok, queueAuth(tok) PROVE Underway'
  <2>. DEFINE msg == Authenticate(identityVersion, NormalizedToken(tok))
  <2>1. outgoing' = Append(outgoing, msg) /\ UNCHANGED <<requests, sentRequests, restartFailed>>
    BY <1>5 DEF queueAuth
  <2>2. msg.type \notin {"Mutation", "Action"} BY DEF Authenticate
  <2>. HIDE DEF msg
  <2>. QED BY <1>2, <2>1, <2>2
<1>6. ASSUME NEW update, Mutation(update) PROVE Underway'
  BY <1>0, <1>6, IssuePending DEF Mutation
<1>7. CASE Action
  BY <1>0, <1>7, IssuePending DEF Action
<1>8. CASE PopNextMessage BY <1>0, <1>8, PopPending
<1>9. CASE RestartForReconnect BY <1>9, RestartPending
<1>10. CASE Receive BY <1>0, <1>10, ReceivePending
<1>11. CASE UNCHANGED vars BY <1>1, <1>11 DEF vars
<1>12. CASE Call
  BY <1>3, <1>4, <1>5, <1>6, <1>7, <1>12 DEF Call, SetAuth, ClearAuth, SetAuthCallback
<1>13. CASE Drive
  BY <1>5, <1>8, <1>9, <1>13 DEF Drive, RefreshAuthForReconnect
<1>. QED BY <1>10, <1>11, <1>12, <1>13 DEF Next

\* A request without an outcome is on its way exactly once, across any calls,
\* restarts and server messages: it is queued or was handed out since the last
\* restart, and only a mutation, after a restart that failed, waits for the next one.
THEOREM PendingRequestsInvariant == Spec => []PendingRequestsOnTheWay
<1>1. Init => Underway BY DEF Init, New, Underway
<1>2. TypeAndSubscriptions /\ Underway /\ [Next]_vars => Underway' BY NextPending
<1>3. Underway => PendingRequestsOnTheWay BY UnderwayIsPending
<1>. QED BY <1>1, <1>2, <1>3, TypesAndSubscriptionsInvariant, PTL DEF Spec

=============================================================================
