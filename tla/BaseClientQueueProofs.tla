----------------------- MODULE BaseClientQueueProofs -----------------------
(***************************************************************************)
(* What the outgoing queue of baseclient.Client never does, for every      *)
(* history of calls, restarts and server messages.                         *)
(***************************************************************************)
EXTENDS BaseClientProofs

\* The three ways a step treats the queue: it leaves it alone, appends one message
\* to it, or it is PopNextMessage or RestartForReconnect.
Appends(msg) == outgoing' = Append(outgoing, msg) /\ sentActions' = sentActions

\* A message appended to a queue is its last one and disturbs no other.
LEMMA AppendFact ==
  ASSUME NEW S, NEW s \in Seq(S), NEW x
  PROVE  /\ DOMAIN s = 1 .. Len(s) /\ Len(s) \in Nat
         /\ DOMAIN Append(s, x) = 1 .. Len(s) + 1
         /\ Append(s, x)[Len(s) + 1] = x
         /\ \A i \in 1 .. Len(s) : Append(s, x)[i] = s[i]
  OBVIOUS

\* A message that is no action, or an action with a fresh id, does no harm.
LEMMA AppendActions ==
  ASSUME TypeOK, ActionsNeverResent, NEW msg, Appends(msg),
         msg.type = "Action" => msg.id = nextRequestID
  PROVE  ActionsNeverResent'
<1>. DEFINE n == Len(outgoing)
<1>1. /\ DOMAIN outgoing = 1 .. n /\ n \in Nat
      /\ DOMAIN outgoing' = 1 .. n + 1 /\ outgoing'[n + 1] = msg
      /\ \A i \in 1 .. n : outgoing'[i] = outgoing[i]
  BY AppendFact DEF Appends, TypeOK
<1>2. \A i \in 1 .. n : outgoing[i].type = "Action" => outgoing[i].id \in 0 .. nextRequestID - 1
  BY <1>1, QueuedFact DEF TypeOK
<1>3. sentActions \subseteq 0 .. nextRequestID - 1 /\ nextRequestID \in Nat
  BY BoundsAssumption DEF TypeOK, RequestTypes
<1>4. \A i \in 1 .. n : outgoing[i].type = "Action" =>
        /\ outgoing[i].id \notin sentActions
        /\ \A j \in 1 .. n : outgoing[j].type = "Action" /\ outgoing[i].id = outgoing[j].id => i = j
  BY <1>1 DEF ActionsNeverResent, Positions
<1>5. sentActions' = sentActions BY DEF Appends
<1>. HIDE DEF n
<1>6. ASSUME NEW i \in 1 .. n + 1, outgoing'[i].type = "Action"
      PROVE  /\ outgoing'[i].id \notin sentActions'
             /\ \A j \in 1 .. n + 1 :
                  outgoing'[j].type = "Action" /\ outgoing'[i].id = outgoing'[j].id => i = j
  <2>1. CASE i = n + 1 BY <1>1, <1>2, <1>3, <1>5, <1>6, <2>1
  <2>2. CASE i \in 1 .. n BY <1>1, <1>2, <1>3, <1>4, <1>5, <1>6, <2>2
  <2>. QED BY <1>1, <2>1, <2>2
<1>. QED BY <1>1, <1>6 DEF ActionsNeverResent, Positions

\* Handing out the first message: an action becomes sent, and no other is queued.
LEMMA PopActions ==
  ASSUME TypeOK, ActionsNeverResent, PopNextMessage
  PROVE  ActionsNeverResent'
<1>. DEFINE n == Len(outgoing)
            msg == Head(outgoing)
<1>1. /\ DOMAIN outgoing = 1 .. n /\ n \in Nat /\ n > 0
      /\ DOMAIN outgoing' = 1 .. n - 1
      /\ \A i \in 1 .. n - 1 : outgoing'[i] = outgoing[i + 1]
      /\ msg = outgoing[1]
  BY DEF PopNextMessage, TypeOK
<1>2. sentActions' = IF msg.type = "Action" THEN sentActions \cup {msg.id} ELSE sentActions
  BY DEF PopNextMessage
<1>3. \A i \in 1 .. n : outgoing[i].type = "Action" =>
        /\ outgoing[i].id \notin sentActions
        /\ \A j \in 1 .. n : outgoing[j].type = "Action" /\ outgoing[i].id = outgoing[j].id => i = j
  BY <1>1 DEF ActionsNeverResent, Positions
<1>. HIDE DEF n, msg
<1>4. ASSUME NEW i \in 1 .. n - 1, outgoing'[i].type = "Action"
      PROVE  /\ outgoing'[i].id \notin sentActions'
             /\ \A j \in 1 .. n - 1 :
                  outgoing'[j].type = "Action" /\ outgoing'[i].id = outgoing'[j].id => i = j
  <2>1. i + 1 \in 1 .. n /\ 1 \in 1 .. n /\ i + 1 # 1 /\ outgoing'[i] = outgoing[i + 1]
    BY <1>1
  <2>2. outgoing'[i].id \notin sentActions'
    BY <1>1, <1>2, <1>3, <1>4, <2>1
  <2>3. ASSUME NEW j \in 1 .. n - 1, outgoing'[j].type = "Action",
               outgoing'[i].id = outgoing'[j].id
        PROVE  i = j
    <3>1. j + 1 \in 1 .. n /\ outgoing'[j] = outgoing[j + 1] BY <1>1
    <3>2. i + 1 = j + 1 BY <1>3, <1>4, <2>1, <2>3, <3>1
    <3>. QED BY <1>1, <3>2
  <2>. QED BY <2>2, <2>3
<1>. QED BY <1>1, <1>4 DEF ActionsNeverResent, Positions

\* The queue a restart builds holds no action: they were cancelled.
LEMMA RestartActions ==
  ASSUME TypeAndSubscriptions, RestartForReconnect
  PROVE  ActionsNeverResent'
<1>1. CASE outgoing' = << >>
  BY <1>1 DEF ActionsNeverResent, Positions
<1>2. ASSUME NEW auth \in RefreshedAuth, NEW adds \in replayQueryAdds,
             NEW replay \in ReplayOngoingRequests,
             outgoing' = auth \o (IF adds = << >> THEN << >> ELSE <<ModifyQuerySet(0, adds)>>)
                             \o replay
      PROVE  ActionsNeverResent'
  <2>. DEFINE Harmless == {msg \in {outgoing'[i] : i \in DOMAIN outgoing'} \cup
                                   {auth[i] : i \in DOMAIN auth} \cup
                                   {ModifyQuerySet(0, adds)} \cup
                                   {replay[i] : i \in DOMAIN replay} : msg.type # "Action"}
  <2>1. auth \in Seq(Harmless)
    <3>1. CASE auth = << >> BY <3>1
    <3>2. CASE auth # << >>
      <4>1. PICK tok : auth = <<Authenticate(0, tok)>>
        BY <3>2 DEF RefreshedAuth
      <4>2. Authenticate(0, tok) \in Harmless
        <5>1. Authenticate(0, tok).type # "Action" BY DEF Authenticate
        <5>2. Authenticate(0, tok) \in {auth[i] : i \in DOMAIN auth} BY <4>1
        <5>. QED BY <5>1, <5>2
      <4>. HIDE DEF Harmless
      <4>. QED BY <4>1, <4>2
    <3>. QED BY <3>1, <3>2
  <2>2. ModifyQuerySet(0, adds) \in Harmless
    BY DEF ModifyQuerySet
  <2>3. replay \in Seq(Harmless)
    <3>1. Mutations(requests) \in SUBSET (0 .. nextRequestID - 1) /\ nextRequestID \in Nat
      BY BoundsAssumption DEF TypeAndSubscriptions, TypeOK, RequestTypes, Mutations
    <3>2. PICK s \in Seq(Mutations(requests)) :
            replay = [i \in DOMAIN s |-> RequestMessage("Mutation", s[i])]
      BY <3>1, IdsFinite, ReplayFact
    <3>3. \A i \in DOMAIN s : RequestMessage("Mutation", s[i]) \in Harmless
      BY <3>2 DEF RequestMessage
    <3>. HIDE DEF Harmless
    <3>. QED BY <3>2, <3>3
  <2>4. outgoing' \in Seq(Harmless)
    <3>. HIDE DEF Harmless
    <3>. QED BY <1>2, <2>1, <2>2, <2>3
  <2>5. \A i \in DOMAIN outgoing' : outgoing'[i].type # "Action"
    <3>1. \A m \in Harmless : m.type # "Action" OBVIOUS
    <3>. HIDE DEF Harmless
    <3>. QED BY <2>4, <3>1
  <2>. QED BY <2>5 DEF ActionsNeverResent, Positions
<1>. QED BY <1>1, <1>2 DEF RestartForReconnect, RestartQueue

\* No step queues an action that was queued or handed out before.
LEMMA NextActions ==
  ASSUME TypeAndSubscriptions, ActionsNeverResent, [Next]_vars
  PROVE  ActionsNeverResent'
<1>0. TypeOK BY DEF TypeAndSubscriptions
<1>1. ASSUME NEW msg, Appends(msg), msg.type # "Action" PROVE ActionsNeverResent'
  BY <1>0, <1>1, AppendActions
<1>2. CASE outgoing' = outgoing /\ sentActions' = sentActions
  BY <1>2 DEF ActionsNeverResent, Positions
<1>3. ASSUME NEW s \in Spelling, Subscribe(s) PROVE ActionsNeverResent'
  <2>1. CASE SubscribeExisting(Canonical[s])
    BY <1>2, <1>3, <2>1 DEF Subscribe, SubscribeExisting, sentVars
  <2>2. CASE SubscribeNew(Canonical[s])
    <3>. DEFINE msg == ModifyQuerySet(querySetVersion, <<QuerySetAdd(nextQueryID, Canonical[s])>>)
    <3>1. Appends(msg) BY <1>3, <2>2 DEF Subscribe, SubscribeNew, sentVars, Appends
    <3>2. msg.type # "Action" BY DEF ModifyQuerySet
    <3>. HIDE DEF msg
    <3>. QED BY <1>1, <3>1, <3>2
  <2>. QED BY <1>3, <2>1, <2>2 DEF Subscribe
<1>4. ASSUME NEW id \in subscribers, Unsubscribe(id) PROVE ActionsNeverResent'
  <2>. DEFINE t == queryIDToToken[id[1]]
  <2>1. CASE UnsubscribeShared(id, t)
    BY <1>2, <1>4, <2>1 DEF Unsubscribe, UnsubscribeShared, sentVars
  <2>2. CASE UnsubscribeLast(id, t)
    <3>. DEFINE msg == ModifyQuerySet(querySetVersion, <<QuerySetRemove(id[1], t)>>)
    <3>1. Appends(msg) BY <1>4, <2>2 DEF Unsubscribe, UnsubscribeLast, sentVars, Appends
    <3>2. msg.type # "Action" BY DEF ModifyQuerySet
    <3>. HIDE DEF msg
    <3>. QED BY <1>1, <3>1, <3>2
  <2>. QED BY <1>4, <2>1, <2>2 DEF Unsubscribe
<1>5. ASSUME NEW tok, queueAuth(tok) PROVE ActionsNeverResent'
  <2>. DEFINE msg == Authenticate(identityVersion, NormalizedToken(tok))
  <2>1. Appends(msg) BY <1>5 DEF queueAuth, sentVars, Appends
  <2>2. msg.type # "Action" BY DEF Authenticate
  <2>. HIDE DEF msg
  <2>. QED BY <1>1, <2>1, <2>2
<1>6. ASSUME NEW update \in OptimisticUpdate \cup {NoUpdate}, Mutation(update)
      PROVE  ActionsNeverResent'
  <2>. DEFINE msg == RequestMessage("Mutation", nextRequestID)
  <2>1. Appends(msg) BY <1>6 DEF Mutation, sentVars, Appends
  <2>2. msg.type # "Action" BY DEF RequestMessage
  <2>. HIDE DEF msg
  <2>. QED BY <1>1, <2>1, <2>2
<1>7. CASE Action
  <2>. DEFINE msg == RequestMessage("Action", nextRequestID)
  <2>1. Appends(msg) BY <1>7 DEF Action, sentVars, Appends
  <2>2. msg.id = nextRequestID BY DEF RequestMessage
  <2>. HIDE DEF msg
  <2>. QED BY <1>0, <2>1, <2>2, AppendActions
<1>8. CASE PopNextMessage
  BY <1>0, <1>8, PopActions
<1>9. CASE RestartForReconnect
  BY <1>9, RestartActions
<1>10. CASE Receive
  BY <1>2, <1>10 DEF Receive, receiveTransition, receiveMutationResponse,
     receiveActionResponse, receiveErrorMessage, RejectMessage, sentVars
<1>11. CASE UNCHANGED vars
  BY <1>2, <1>11 DEF vars, sentVars
<1>12. CASE Call
  BY <1>3, <1>4, <1>5, <1>6, <1>7, <1>12 DEF Call, SetAuth, ClearAuth, SetAuthCallback
<1>13. CASE Drive
  BY <1>5, <1>8, <1>9, <1>13 DEF Drive, RefreshAuthForReconnect
<1>. QED BY <1>10, <1>11, <1>12, <1>13 DEF Next

\* An action is handed to the connection at most once in the life of the client,
\* whatever the reconnections in between: RestartForReconnect cancels it.
THEOREM ActionsNeverResentInvariant == Spec => []ActionsNeverResent
<1>1. Init => ActionsNeverResent
  BY DEF Init, New, ActionsNeverResent, Positions
<1>2. TypeAndSubscriptions /\ ActionsNeverResent /\ [Next]_vars => ActionsNeverResent'
  BY NextActions
<1>. QED BY <1>1, <1>2, TypesAndSubscriptionsInvariant, PTL DEF Spec

-----------------------------------------------------------------------------
(* Version chains *)

\* The messages of type k in s carry the base versions lo to hi - 1, in order, and
\* a ModifyQuerySet leads to the version after its base.
Chain(k, s, lo, hi) ==
  /\ lo <= hi
  /\ \A i \in DOMAIN s : s[i].type = k => s[i].base \in lo .. hi - 1
  /\ \A i, j \in DOMAIN s : s[i].type = k /\ s[j].type = k /\ i < j => s[i].base < s[j].base
  /\ \A v \in lo .. hi - 1 : \E i \in DOMAIN s : s[i].type = k /\ s[i].base = v
  /\ \A i \in DOMAIN s : s[i].type = k /\ k = "ModifyQuerySet" => s[i].new = s[i].base + 1

\* VersionChains says that the queue continues both chains of what was sent.
LEMMA VersionChainsAreChains ==
  VersionChains <=> /\ Chain("ModifyQuerySet", outgoing, sentQuerySet, querySetVersion)
                    /\ Chain("Authenticate", outgoing, sentIdentity, identityVersion)
  BY DEF VersionChains, VersionsContiguous, Positions, Chain

\* The same after a step.
LEMMA VersionChainsAreChainsAfter ==
  VersionChains' <=> /\ Chain("ModifyQuerySet", outgoing', sentQuerySet', querySetVersion')
                     /\ Chain("Authenticate", outgoing', sentIdentity', identityVersion')
  BY DEF VersionChains, VersionsContiguous, Positions, Chain

\* A sequence without a message of type k is an empty chain, anywhere.
LEMMA EmptyChain ==
  ASSUME NEW k, NEW s, \A i \in DOMAIN s : s[i].type # k, NEW v \in Nat
  PROVE  Chain(k, s, v, v)
  BY DEF Chain

\* One message is a chain of one.
LEMMA SingleChain ==
  ASSUME NEW k, NEW m, m.type = k, m.base \in Nat,
         k = "ModifyQuerySet" => m.new = m.base + 1
  PROVE  Chain(k, <<m>>, m.base, m.base + 1)
  BY DEF Chain

\* Two chains that meet make one.
LEMMA ConcatChain ==
  ASSUME NEW k, NEW S, NEW s \in Seq(S), NEW t \in Seq(S),
         NEW a \in Nat, NEW b \in Nat, NEW c \in Nat,
         Chain(k, s, a, b), Chain(k, t, b, c)
  PROVE  Chain(k, s \o t, a, c)
<1>. DEFINE m == Len(s)
            n == Len(t)
            u == s \o t
<1>1. /\ m \in Nat /\ n \in Nat /\ DOMAIN s = 1 .. m /\ DOMAIN t = 1 .. n
      /\ DOMAIN u = 1 .. m + n
      /\ \A i \in 1 .. m : u[i] = s[i]
      /\ \A i \in 1 .. n : u[m + i] = t[i]
  OBVIOUS
<1>2. \A i \in DOMAIN u : \/ i \in 1 .. m /\ u[i] = s[i]
                          \/ i - m \in 1 .. n /\ u[i] = t[i - m]
  <2>. HIDE DEF m, n, u
  <2>. TAKE i \in DOMAIN u
  <2>1. CASE i <= m BY <1>1, <2>1
  <2>2. CASE i > m
    <3>1. i - m \in 1 .. n /\ i = m + (i - m) BY <1>1, <2>2
    <3>. QED BY <1>1, <3>1
  <2>. QED BY <1>1, <2>1, <2>2
<1>. HIDE DEF m, n, u
<1>3. a <= b /\ b <= c BY DEF Chain
<1>4. \A i \in 1 .. m : s[i].type = k => s[i].base \in a .. b - 1 BY <1>1 DEF Chain
<1>5. \A i \in 1 .. n : t[i].type = k => t[i].base \in b .. c - 1 BY <1>1 DEF Chain
<1>6. \A i \in DOMAIN u : u[i].type = k => u[i].base \in a .. c - 1
  BY <1>2, <1>3, <1>4, <1>5
<1>7. ASSUME NEW i \in DOMAIN u, NEW j \in DOMAIN u, u[i].type = k, u[j].type = k, i < j
      PROVE  u[i].base < u[j].base
  <2>1. CASE i \in 1 .. m /\ j \in 1 .. m
    BY <1>1, <1>7, <2>1 DEF Chain
  <2>2. CASE i \in 1 .. m /\ j \notin 1 .. m
    BY <1>1, <1>2, <1>4, <1>5, <1>7, <2>2
  <2>3. CASE i \notin 1 .. m
    <3>1. /\ i - m \in 1 .. n /\ u[i] = t[i - m] /\ j - m \in 1 .. n /\ u[j] = t[j - m]
          /\ i - m < j - m
      BY <1>1, <1>2, <1>7, <2>3
    <3>2. \A x, y \in 1 .. n : t[x].type = k /\ t[y].type = k /\ x < y => t[x].base < t[y].base
      BY <1>1 DEF Chain
    <3>. QED BY <1>7, <3>1, <3>2
  <2>. QED BY <2>1, <2>2, <2>3
<1>8. ASSUME NEW v \in a .. c - 1
      PROVE  \E i \in DOMAIN u : u[i].type = k /\ u[i].base = v
  <2>1. CASE v < b
    <3>a. v \in a .. b - 1 BY <2>1
    <3>b. \A w \in a .. b - 1 : \E i \in 1 .. m : s[i].type = k /\ s[i].base = w
      BY <1>1 DEF Chain
    <3>1. PICK i \in 1 .. m : s[i].type = k /\ s[i].base = v
      BY <3>a, <3>b
    <3>2. i \in DOMAIN u /\ u[i] = s[i] BY <1>1
    <3>. QED BY <3>1, <3>2
  <2>2. CASE v >= b
    <3>a. v \in b .. c - 1 BY <2>2
    <3>b. \A w \in b .. c - 1 : \E i \in 1 .. n : t[i].type = k /\ t[i].base = w
      BY <1>1 DEF Chain
    <3>1. PICK i \in 1 .. n : t[i].type = k /\ t[i].base = v
      BY <3>a, <3>b
    <3>2. m + i \in DOMAIN u /\ u[m + i] = t[i] BY <1>1
    <3>. QED BY <3>1, <3>2
  <2>. QED BY <2>1, <2>2
<1>9. \A i \in DOMAIN u : u[i].type = k /\ k = "ModifyQuerySet" => u[i].new = u[i].base + 1
  BY <1>1, <1>2 DEF Chain
<1>10. Chain(k, u, a, c) BY <1>3, <1>6, <1>7, <1>8, <1>9 DEF Chain
<1>. QED BY <1>10 DEF u

\* Taking the first message off a chain: when it is of type k, it is the one with
\* the lowest base version.
LEMMA TailChain ==
  ASSUME NEW k, NEW S, NEW s \in Seq(S), s # << >>, NEW a \in Nat, NEW c \in Nat,
         Chain(k, s, a, c)
  PROVE  /\ Head(s).type = k => Head(s).base = a /\ a < c /\ Chain(k, Tail(s), a + 1, c)
         /\ Head(s).type # k => Chain(k, Tail(s), a, c)
<1>. DEFINE n == Len(s)
            h == Head(s)
            u == Tail(s)
<1>1. /\ n \in Nat /\ n > 0 /\ DOMAIN s = 1 .. n /\ DOMAIN u = 1 .. n - 1 /\ h = s[1]
      /\ \A i \in 1 .. n - 1 : u[i] = s[i + 1]
  OBVIOUS
<1>. HIDE DEF n, h, u
<1>2. /\ a <= c
      /\ \A i \in 1 .. n : s[i].type = k => s[i].base \in a .. c - 1
      /\ \A i, j \in 1 .. n : s[i].type = k /\ s[j].type = k /\ i < j => s[i].base < s[j].base
      /\ \A v \in a .. c - 1 : \E i \in 1 .. n : s[i].type = k /\ s[i].base = v
      /\ \A i \in 1 .. n : s[i].type = k /\ k = "ModifyQuerySet" => s[i].new = s[i].base + 1
  BY <1>1 DEF Chain
<1>3. /\ \A i, j \in 1 .. n - 1 :
           u[i].type = k /\ u[j].type = k /\ i < j => u[i].base < u[j].base
      /\ \A i \in 1 .. n - 1 : u[i].type = k /\ k = "ModifyQuerySet" => u[i].new = u[i].base + 1
  <2>1. \A i \in 1 .. n - 1 : i + 1 \in 1 .. n /\ u[i] = s[i + 1] BY <1>1
  <2>2. ASSUME NEW i \in 1 .. n - 1, NEW j \in 1 .. n - 1, u[i].type = k, u[j].type = k, i < j
        PROVE  u[i].base < u[j].base
    <3>1. i + 1 < j + 1 BY <1>1, <2>2
    <3>2. s[i + 1].type = k /\ s[j + 1].type = k BY <2>1, <2>2
    <3>3. s[i + 1].base < s[j + 1].base BY <1>2, <2>1, <3>1, <3>2
    <3>. QED BY <2>1, <3>3
  <2>3. ASSUME NEW i \in 1 .. n - 1, u[i].type = k, k = "ModifyQuerySet"
        PROVE  u[i].new = u[i].base + 1
    BY <1>2, <2>1, <2>3
  <2>. QED BY <2>2, <2>3
<1>4. ASSUME h.type = k
      PROVE  h.base = a /\ a < c /\ Chain(k, u, a + 1, c)
  <2>1. h.base \in a .. c - 1 BY <1>1, <1>2, <1>4
  <2>2. a < c /\ a \in a .. c - 1 BY <2>1
  <2>3. h.base = a
    <3>1. PICK i \in 1 .. n : s[i].type = k /\ s[i].base = a BY <1>2, <2>2
    <3>2. CASE i = 1 BY <1>1, <3>1, <3>2
    <3>3. CASE i > 1
      <4>1. h.base < a BY <1>1, <1>2, <1>4, <3>1, <3>3
      <4>. QED BY <2>1, <4>1
    <3>. QED BY <1>1, <3>2, <3>3
  <2>4. \A i \in 1 .. n - 1 : u[i].type = k => u[i].base \in a + 1 .. c - 1
    <3>. TAKE i \in 1 .. n - 1
    <3>1. i + 1 \in 1 .. n /\ 1 \in 1 .. n /\ 1 < i + 1 /\ u[i] = s[i + 1] BY <1>1
    <3>. QED BY <1>1, <1>2, <1>4, <2>3, <3>1
  <2>5. ASSUME NEW v \in a + 1 .. c - 1
        PROVE  \E i \in 1 .. n - 1 : u[i].type = k /\ u[i].base = v
    <3>1. PICK i \in 1 .. n : s[i].type = k /\ s[i].base = v BY <1>2
    <3>2. i # 1 BY <1>1, <2>3, <3>1
    <3>3. i - 1 \in 1 .. n - 1 /\ u[i - 1] = s[i] BY <1>1, <3>2
    <3>. QED BY <3>1, <3>3
  <2>6. a + 1 <= c BY <2>2
  <2>7. Chain(k, u, a + 1, c)
    <3>1. DOMAIN u = 1 .. n - 1 BY <1>1
    <3>. QED BY <1>3, <2>4, <2>5, <2>6, <3>1 DEF Chain
  <2>. QED BY <2>2, <2>3, <2>7
<1>5. ASSUME h.type # k
      PROVE  Chain(k, u, a, c)
  <2>1. \A i \in 1 .. n - 1 : u[i].type = k => u[i].base \in a .. c - 1
    BY <1>1, <1>2
  <2>2. ASSUME NEW v \in a .. c - 1
        PROVE  \E i \in 1 .. n - 1 : u[i].type = k /\ u[i].base = v
    <3>1. PICK i \in 1 .. n : s[i].type = k /\ s[i].base = v BY <1>2
    <3>2. i # 1 BY <1>1, <1>5, <3>1
    <3>3. i - 1 \in 1 .. n - 1 /\ u[i - 1] = s[i] BY <1>1, <3>2
    <3>. QED BY <3>1, <3>3
  <2>. QED BY <1>1, <1>2, <1>3, <2>1, <2>2 DEF Chain
<1>. QED BY <1>4, <1>5 DEF h, u

\* Appending a message prolongs the chain of its type and leaves the other alone.
LEMMA AppendChain ==
  ASSUME NEW k, NEW S, NEW s \in Seq(S), NEW a \in Nat, NEW c \in Nat, Chain(k, s, a, c), NEW m
  PROVE  /\ m.type = k /\ m.base = c /\ (k = "ModifyQuerySet" => m.new = c + 1)
              => Chain(k, Append(s, m), a, c + 1)
         /\ m.type # k => Chain(k, Append(s, m), a, c)
<1>1. s \in Seq(S \cup {m}) /\ <<m>> \in Seq(S \cup {m}) /\ Append(s, m) = s \o <<m>>
  OBVIOUS
<1>2. ASSUME m.type = k, m.base = c, k = "ModifyQuerySet" => m.new = c + 1
      PROVE  Chain(k, Append(s, m), a, c + 1)
  <2>1. Chain(k, <<m>>, c, c + 1) BY <1>2, SingleChain
  <2>2. c + 1 \in Nat OBVIOUS
  <2>3. Chain(k, s \o <<m>>, a, c + 1) BY <1>1, <2>1, <2>2, ConcatChain
  <2>. QED BY <1>1, <2>3
<1>3. ASSUME m.type # k
      PROVE  Chain(k, Append(s, m), a, c)
  <2>a. \A i \in DOMAIN <<m>> : <<m>>[i].type # k BY <1>3
  <2>1. Chain(k, <<m>>, c, c) BY <2>a, EmptyChain
  <2>. QED BY <1>1, <2>1, ConcatChain
<1>. QED BY <1>2, <1>3

\* A step that appends a message and counts it in the version of its type.
LEMMA AppendVersions ==
  ASSUME TypeOK, VersionChains, NEW msg, outgoing' = Append(outgoing, msg),
         sentQuerySet' = sentQuerySet, sentIdentity' = sentIdentity,
         \/ /\ msg.type = "ModifyQuerySet" /\ msg.base = querySetVersion
            /\ msg.new = querySetVersion + 1
            /\ querySetVersion' = querySetVersion + 1 /\ identityVersion' = identityVersion
         \/ /\ msg.type = "Authenticate" /\ msg.base = identityVersion
            /\ identityVersion' = identityVersion + 1 /\ querySetVersion' = querySetVersion
         \/ /\ msg.type \notin {"ModifyQuerySet", "Authenticate"}
            /\ querySetVersion' = querySetVersion /\ identityVersion' = identityVersion
  PROVE  VersionChains'
<1>1. /\ outgoing \in Seq(QueuedMessage) /\ querySetVersion \in Nat /\ identityVersion \in Nat
      /\ sentQuerySet \in Nat /\ sentIdentity \in Nat
  BY DEF TypeOK, VersionTypes
<1>2. /\ Chain("ModifyQuerySet", outgoing, sentQuerySet, querySetVersion)
      /\ Chain("Authenticate", outgoing, sentIdentity, identityVersion)
  BY VersionChainsAreChains
<1>3. Chain("ModifyQuerySet", outgoing', sentQuerySet', querySetVersion')
  BY <1>1, <1>2, AppendChain
<1>4. Chain("Authenticate", outgoing', sentIdentity', identityVersion')
  BY <1>1, <1>2, AppendChain
<1>. QED BY <1>3, <1>4, VersionChainsAreChainsAfter

\* Handing out the first message moves the sent version up to it.
LEMMA PopVersions ==
  ASSUME TypeOK, VersionChains, PopNextMessage
  PROVE  VersionChains'
<1>. DEFINE msg == Head(outgoing)
<1>1. /\ outgoing \in Seq(QueuedMessage) /\ querySetVersion \in Nat /\ identityVersion \in Nat
      /\ sentQuerySet \in Nat /\ sentIdentity \in Nat
  BY DEF TypeOK, VersionTypes
<1>2. /\ Chain("ModifyQuerySet", outgoing, sentQuerySet, querySetVersion)
      /\ Chain("Authenticate", outgoing, sentIdentity, identityVersion)
  BY VersionChainsAreChains
<1>3. /\ outgoing # << >> /\ outgoing' = Tail(outgoing)
      /\ sentQuerySet' = IF msg.type = "ModifyQuerySet" THEN msg.new ELSE sentQuerySet
      /\ sentIdentity' = IF msg.type = "Authenticate" THEN msg.base + 1 ELSE sentIdentity
      /\ querySetVersion' = querySetVersion /\ identityVersion' = identityVersion
  BY DEF PopNextMessage
<1>4. msg.type = "ModifyQuerySet" => msg.new = msg.base + 1
  <2>1. 1 \in DOMAIN outgoing /\ msg = outgoing[1] BY <1>1, <1>3
  <2>. QED BY <1>2, <2>1 DEF Chain
<1>. HIDE DEF msg
<1>5. /\ msg.type = "ModifyQuerySet" =>
           msg.base = sentQuerySet /\ Chain("ModifyQuerySet", outgoing', sentQuerySet + 1, querySetVersion)
      /\ msg.type # "ModifyQuerySet" =>
           Chain("ModifyQuerySet", outgoing', sentQuerySet, querySetVersion)
  BY <1>1, <1>2, <1>3, TailChain DEF msg
<1>6. /\ msg.type = "Authenticate" =>
           msg.base = sentIdentity /\ Chain("Authenticate", outgoing', sentIdentity + 1, identityVersion)
      /\ msg.type # "Authenticate" =>
           Chain("Authenticate", outgoing', sentIdentity, identityVersion)
  BY <1>1, <1>2, <1>3, TailChain DEF msg
<1>7. Chain("ModifyQuerySet", outgoing', sentQuerySet', querySetVersion')
  BY <1>3, <1>4, <1>5
<1>8. Chain("Authenticate", outgoing', sentIdentity', identityVersion')
  BY <1>3, <1>6
<1>. QED BY <1>7, <1>8, VersionChainsAreChainsAfter

\* The queue a restart builds starts both chains at 0 again.
LEMMA RestartVersions ==
  ASSUME TypeAndSubscriptions, RestartForReconnect
  PROVE  VersionChains'
<1>0. sentQuerySet' = 0 /\ sentIdentity' = 0 BY DEF RestartForReconnect
<1>1. CASE outgoing' = << >> /\ identityVersion' = 0 /\ querySetVersion' = 0
  <2>1. \A k : Chain(k, << >>, 0, 0) BY EmptyChain
  <2>. QED BY <1>0, <1>1, <2>1, VersionChainsAreChainsAfter
<1>2. ASSUME NEW auth \in RefreshedAuth, NEW adds \in replayQueryAdds,
             NEW replay \in ReplayOngoingRequests,
             identityVersion' = Len(auth),
             querySetVersion' = (IF adds = << >> THEN 0 ELSE 1),
             outgoing' = auth \o (IF adds = << >> THEN << >> ELSE <<ModifyQuerySet(0, adds)>>)
                             \o replay
      PROVE  VersionChains'
  <2>. DEFINE MQ == "ModifyQuerySet"
              AU == "Authenticate"
              mid == IF adds = << >> THEN << >> ELSE <<ModifyQuerySet(0, adds)>>
              All == {auth[i] : i \in DOMAIN auth} \cup {ModifyQuerySet(0, adds)}
                       \cup {replay[i] : i \in DOMAIN replay}
              v == identityVersion'
              w == querySetVersion'
  <2>1. /\ auth \in Seq(All) /\ v \in Nat
        /\ Chain(MQ, auth, 0, 0) /\ Chain(AU, auth, 0, v)
    <3>1. CASE auth = << >>
      <4>1. \A k : Chain(k, << >>, 0, 0) BY EmptyChain
      <4>2. v = 0 BY <1>2, <3>1
      <4>. QED BY <3>1, <4>1, <4>2
    <3>2. CASE auth # << >>
      <4>1. PICK tok : auth = <<Authenticate(0, tok)>>
        BY <3>2 DEF RefreshedAuth
      <4>2. Authenticate(0, tok).type = AU /\ Authenticate(0, tok).base = 0
        BY DEF Authenticate
      <4>3. Chain(AU, auth, 0, 1) BY <4>1, <4>2, SingleChain
      <4>4. Chain(MQ, auth, 0, 0) BY <4>1, <4>2, EmptyChain
      <4>5. v = 1 BY <1>2, <4>1
      <4>6. auth \in Seq(All) BY <4>1
      <4>. QED BY <4>3, <4>4, <4>5, <4>6
    <3>. QED BY <3>1, <3>2
  <2>2. mid \in Seq(All) /\ w \in Nat /\ Chain(MQ, mid, 0, w) /\ Chain(AU, mid, v, v)
    <3>1. CASE adds = << >>
      <4>1. \A k : \A x \in Nat : Chain(k, << >>, x, x) BY EmptyChain
      <4>2. w = 0 /\ mid = << >> BY <1>2, <3>1
      <4>. QED BY <2>1, <4>1, <4>2
    <3>2. CASE adds # << >>
      <4>. DEFINE m == ModifyQuerySet(0, adds)
      <4>1. m.type = MQ /\ m.base = 0 /\ m.new = 1 BY DEF ModifyQuerySet
      <4>2. w = 1 /\ mid = <<m>> BY <1>2, <3>2
      <4>3. mid \in Seq(All)
        <5>1. m \in All OBVIOUS
        <5>. HIDE DEF All, m, mid
        <5>. QED BY <4>2, <5>1
      <4>. HIDE DEF m, mid, v, w
      <4>4. Chain(MQ, <<m>>, 0, 1) BY <4>1, SingleChain
      <4>5. Chain(AU, <<m>>, v, v) BY <2>1, <4>1, EmptyChain
      <4>. QED BY <4>2, <4>3, <4>4, <4>5
    <3>. QED BY <3>1, <3>2
  <2>3. replay \in Seq(All) /\ Chain(MQ, replay, w, w) /\ Chain(AU, replay, v, v)
    <3>1. Mutations(requests) \in SUBSET (0 .. nextRequestID - 1) /\ nextRequestID \in Nat
      BY BoundsAssumption DEF TypeAndSubscriptions, TypeOK, RequestTypes, Mutations
    <3>2. PICK s \in Seq(Mutations(requests)) :
            replay = [i \in DOMAIN s |-> RequestMessage("Mutation", s[i])]
      BY <3>1, IdsFinite, ReplayFact
    <3>3. DOMAIN replay = DOMAIN s /\ DOMAIN s = 1 .. Len(s) /\ Len(s) \in Nat BY <3>2
    <3>4. \A i \in DOMAIN replay : replay[i].type = "Mutation" BY <3>2 DEF RequestMessage
    <3>5. replay \in [1 .. Len(s) -> All] BY <3>2, <3>3
    <3>. HIDE DEF All, v, w
    <3>6. replay \in Seq(All) BY <3>3, <3>5
    <3>7. Chain(MQ, replay, w, w) BY <2>2, <3>4, EmptyChain
    <3>8. Chain(AU, replay, v, v) BY <2>1, <3>4, EmptyChain
    <3>. QED BY <3>6, <3>7, <3>8
  <2>4. outgoing' = (auth \o mid) \o replay BY <1>2
  <2>. HIDE DEF All, mid, v, w
  <2>5. auth \o mid \in Seq(All) BY <2>1, <2>2
  <2>6. Chain(MQ, auth \o mid, 0, w) BY <2>1, <2>2, ConcatChain
  <2>7. Chain(AU, auth \o mid, 0, v) BY <2>1, <2>2, ConcatChain
  <2>8. Chain(MQ, outgoing', 0, w) BY <2>2, <2>3, <2>4, <2>5, <2>6, ConcatChain
  <2>9. Chain(AU, outgoing', 0, v) BY <2>1, <2>3, <2>4, <2>5, <2>7, ConcatChain
  <2>. QED BY <1>0, <2>8, <2>9, VersionChainsAreChainsAfter DEF v, w
<1>. QED BY <1>1, <1>2 DEF RestartForReconnect, RestartQueue

\* No step breaks a version chain.
LEMMA NextVersions ==
  ASSUME TypeAndSubscriptions, VersionChains, [Next]_vars
  PROVE  VersionChains'
<1>0. TypeOK BY DEF TypeAndSubscriptions
<1>1. CASE UNCHANGED <<outgoing, querySetVersion, identityVersion, sentQuerySet, sentIdentity>>
  BY <1>1 DEF VersionChains, VersionsContiguous, Positions
<1>2. ASSUME NEW s \in Spelling, Subscribe(s) PROVE VersionChains'
  <2>1. CASE SubscribeExisting(Canonical[s])
    BY <1>1, <1>2, <2>1 DEF Subscribe, SubscribeExisting, sentVars
  <2>2. CASE SubscribeNew(Canonical[s])
    <3>. DEFINE msg == ModifyQuerySet(querySetVersion, <<QuerySetAdd(nextQueryID, Canonical[s])>>)
    <3>1. /\ outgoing' = Append(outgoing, msg) /\ querySetVersion' = querySetVersion + 1
          /\ UNCHANGED <<identityVersion, sentQuerySet, sentIdentity>>
      BY <1>2, <2>2 DEF Subscribe, SubscribeNew, sentVars
    <3>2. msg.type = "ModifyQuerySet" /\ msg.base = querySetVersion /\ msg.new = querySetVersion + 1
      BY DEF ModifyQuerySet
    <3>. HIDE DEF msg
    <3>. QED BY <1>0, <3>1, <3>2, AppendVersions
  <2>. QED BY <1>2, <2>1, <2>2 DEF Subscribe
<1>3. ASSUME NEW id \in subscribers, Unsubscribe(id) PROVE VersionChains'
  <2>. DEFINE t == queryIDToToken[id[1]]
  <2>1. CASE UnsubscribeShared(id, t)
    BY <1>1, <1>3, <2>1 DEF Unsubscribe, UnsubscribeShared, sentVars
  <2>2. CASE UnsubscribeLast(id, t)
    <3>. DEFINE msg == ModifyQuerySet(querySetVersion, <<QuerySetRemove(id[1], t)>>)
    <3>1. /\ outgoing' = Append(outgoing, msg) /\ querySetVersion' = querySetVersion + 1
          /\ UNCHANGED <<identityVersion, sentQuerySet, sentIdentity>>
      BY <1>3, <2>2 DEF Unsubscribe, UnsubscribeLast, sentVars
    <3>2. msg.type = "ModifyQuerySet" /\ msg.base = querySetVersion /\ msg.new = querySetVersion + 1
      BY DEF ModifyQuerySet
    <3>. HIDE DEF msg
    <3>. QED BY <1>0, <3>1, <3>2, AppendVersions
  <2>. QED BY <1>3, <2>1, <2>2 DEF Unsubscribe
<1>4. ASSUME NEW tok, queueAuth(tok) PROVE VersionChains'
  <2>. DEFINE msg == Authenticate(identityVersion, NormalizedToken(tok))
  <2>1. /\ outgoing' = Append(outgoing, msg) /\ identityVersion' = identityVersion + 1
        /\ UNCHANGED <<querySetVersion, sentQuerySet, sentIdentity>>
    BY <1>4 DEF queueAuth, sentVars
  <2>2. msg.type = "Authenticate" /\ msg.base = identityVersion BY DEF Authenticate
  <2>. HIDE DEF msg
  <2>. QED BY <1>0, <2>1, <2>2, AppendVersions
<1>5. ASSUME NEW msg, outgoing' = Append(outgoing, msg), msg.type \in {"Mutation", "Action"},
             UNCHANGED <<querySetVersion, identityVersion, sentQuerySet, sentIdentity>>
      PROVE  VersionChains'
  BY <1>0, <1>5, AppendVersions
<1>6. ASSUME NEW update \in OptimisticUpdate \cup {NoUpdate}, Mutation(update)
      PROVE  VersionChains'
  <2>. DEFINE msg == RequestMessage("Mutation", nextRequestID)
  <2>1. /\ outgoing' = Append(outgoing, msg)
        /\ UNCHANGED <<querySetVersion, identityVersion, sentQuerySet, sentIdentity>>
    BY <1>6 DEF Mutation, sentVars
  <2>2. msg.type = "Mutation" BY DEF RequestMessage
  <2>. HIDE DEF msg
  <2>. QED BY <1>5, <2>1, <2>2
<1>7. CASE Action
  <2>. DEFINE msg == RequestMessage("Action", nextRequestID)
  <2>1. /\ outgoing' = Append(outgoing, msg)
        /\ UNCHANGED <<querySetVersion, identityVersion, sentQuerySet, sentIdentity>>
    BY <1>7 DEF Action, sentVars
  <2>2. msg.type = "Action" BY DEF RequestMessage
  <2>. HIDE DEF msg
  <2>. QED BY <1>5, <2>1, <2>2
<1>8. CASE PopNextMessage
  BY <1>0, <1>8, PopVersions
<1>9. CASE RestartForReconnect
  BY <1>9, RestartVersions
<1>10. CASE Receive
  BY <1>1, <1>10 DEF Receive, receiveTransition, receiveMutationResponse,
     receiveActionResponse, receiveErrorMessage, RejectMessage, sentVars
<1>11. CASE UNCHANGED vars
  BY <1>1, <1>11 DEF vars, sentVars
<1>12. CASE Call
  BY <1>2, <1>3, <1>4, <1>6, <1>7, <1>12 DEF Call, SetAuth, ClearAuth, SetAuthCallback
<1>13. CASE Drive
  BY <1>4, <1>8, <1>9, <1>13 DEF Drive, RefreshAuthForReconnect
<1>. QED BY <1>10, <1>11, <1>12, <1>13 DEF Next

\* Whoever drains the queue sends, in every session, gapless chains of query-set and
\* identity versions from 0 to the client's own: the server never sees a base
\* version it does not have.
THEOREM VersionChainsInvariant == Spec => []VersionChains
<1>1. Init => VersionChains
  <2>. SUFFICES ASSUME Init PROVE VersionChains OBVIOUS
  <2>1. \A k : Chain(k, << >>, 0, 0) BY EmptyChain
  <2>. QED BY <2>1, VersionChainsAreChains DEF Init, New
<1>2. TypeAndSubscriptions /\ VersionChains /\ [Next]_vars => VersionChains'
  BY NextVersions
<1>. QED BY <1>1, <1>2, TypesAndSubscriptionsInvariant, PTL DEF Spec

=============================================================================
