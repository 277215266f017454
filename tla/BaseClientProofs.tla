-------------------------- MODULE BaseClientProofs --------------------------
(***************************************************************************)
(* Proofs about BaseClient, for every value of its constants.              *)
(***************************************************************************)
EXTENDS BaseClient, TLAPS, FiniteSetTheorems, SequenceTheorems

-----------------------------------------------------------------------------
(* The map operators *)

\* Setting one key: the domain, the range and every other entry.
LEMMA PutFact ==
  ASSUME NEW R, NEW f, f \in [DOMAIN f -> R], NEW k, NEW v \in R
  PROVE  /\ DOMAIN Put(f, k, v) = DOMAIN f \cup {k}
         /\ Put(f, k, v) \in [DOMAIN f \cup {k} -> R]
         /\ Put(f, k, v)[k] = v
         /\ \A x \in DOMAIN f : x # k => Put(f, k, v)[x] = f[x]
  BY DEF Put

\* Setting many keys.
LEMMA WithFact ==
  ASSUME NEW R, NEW f, NEW g, f \in [DOMAIN f -> R], g \in [DOMAIN g -> R]
  PROVE  /\ DOMAIN With(f, g) = DOMAIN f \cup DOMAIN g
         /\ With(f, g) \in [DOMAIN f \cup DOMAIN g -> R]
  BY DEF With

\* Deleting keys.
LEMMA WithoutFact ==
  ASSUME NEW R, NEW f, f \in [DOMAIN f -> R], NEW S
  PROVE  /\ DOMAIN Without(f, S) = DOMAIN f \ S
         /\ Without(f, S) \in [DOMAIN f \ S -> R]
         /\ \A x \in DOMAIN f \ S : Without(f, S)[x] = f[x]
  BY DEF Without, Restrict

-----------------------------------------------------------------------------
(* The sequences that sorting makes *)

\* A set of ids below a bound is finite.
LEMMA IdsFinite ==
  ASSUME NEW n \in Nat, NEW S \in SUBSET (0 .. n - 1)
  PROVE  IsFiniteSet(S)
<1>1. 0 \in Int /\ n - 1 \in Int OBVIOUS
<1>2. IsFiniteSet(0 .. n - 1) BY <1>1, FS_Interval
<1>. QED BY <1>2, FS_Subset

\* Sorting request ids gives a sequence of exactly those ids.
LEMMA SortedByIdFact ==
  ASSUME NEW S, IsFiniteSet(S), NEW s \in SortedById(S)
  PROVE  s \in Seq(S) /\ Range(s) = S
<1>1. Cardinality(S) \in Nat BY FS_CardinalityType
<1>. QED BY <1>1 DEF SortedById, Sorted

\* The replayed requests are the pending mutations.
LEMMA ReplayFact ==
  ASSUME IsFiniteSet(Mutations(requests)), NEW m \in ReplayOngoingRequests
  PROVE  \E s \in Seq(Mutations(requests)) :
           /\ Range(s) = Mutations(requests)
           /\ \A i, j \in DOMAIN s : i < j => ReplayBefore(s[i], s[j])
           /\ DOMAIN m = DOMAIN s /\ Len(m) = Len(s)
           /\ m = [i \in DOMAIN s |-> RequestMessage("Mutation", s[i])]
<1>. DEFINE S == Mutations(requests)
<1>1. Cardinality(S) \in Nat BY FS_CardinalityType
<1>2. PICK s \in Sorted(S, ReplayBefore) :
        m = [i \in DOMAIN s |-> RequestMessage("Mutation", s[i])]
  BY DEF ReplayOngoingRequests
<1>3. s \in [1 .. Cardinality(S) -> S]
  BY <1>2 DEF Sorted
<1>4. s \in Seq(S) /\ Len(s) = Cardinality(S) /\ DOMAIN s = 1 .. Cardinality(S)
  BY <1>1, <1>3
<1>5. DOMAIN m = DOMAIN s /\ Len(m) = Len(s)
  BY <1>1, <1>2, <1>4
<1>. QED BY <1>2, <1>4, <1>5 DEF Sorted

\* The replayed query set adds every active query, once.
LEMMA ReplayAddsFact ==
  ASSUME IsFiniteSet(DOMAIN queries), NEW m \in replayQueryAdds
  PROVE  \E s \in Seq(DOMAIN queries) :
           /\ Range(s) = DOMAIN queries
           /\ DOMAIN m = DOMAIN s
           /\ m = [i \in DOMAIN s |-> QuerySetAdd(queries[s[i]].id, s[i])]
<1>. DEFINE S == DOMAIN queries
<1>1. Cardinality(S) \in Nat BY FS_CardinalityType
<1>2. PICK s \in Sorted(S, QueryBefore) :
        m = [i \in DOMAIN s |-> QuerySetAdd(queries[s[i]].id, s[i])]
  BY DEF replayQueryAdds
<1>3. s \in [1 .. Cardinality(S) -> S]
  BY <1>2 DEF Sorted
<1>4. s \in Seq(S)
  BY <1>1, <1>3
<1>. QED BY <1>2, <1>4 DEF Sorted

-----------------------------------------------------------------------------
(* Type correctness.  The messages of an unsubscription are well-typed only  *)
(* because a live subscriber's query has a token, so the two invariants are  *)
(* proved together.                                                          *)

TypeAndSubscriptions == TypeOK /\ SubscriptionsConsistent

\* A client made by New is well typed.
LEMMA InitType == Init => TypeOK
<1>. SUFFICES ASSUME Init PROVE TypeOK OBVIOUS
<1>1. QueryTypes BY BoundsAssumption DEF Init, New, QueryTypes
<1>2. VersionTypes BY DEF Init, New, VersionTypes, ZeroVersion, StateVersion
<1>3. RequestTypes BY BoundsAssumption DEF Init, New, RequestTypes
<1>4. MemoryTypes BY DEF Init, New, MemoryTypes
<1>5. outgoing \in Seq(QueuedMessage) BY DEF Init, New
<1>6. serverResults \in [DOMAIN serverResults -> FunctionResult] BY DEF Init, New
<1>. QED BY <1>1, <1>2, <1>3, <1>4, <1>5, <1>6 DEF TypeOK, Init, New

\* What one knows of a queued message from its type.
LEMMA QueuedFact ==
  ASSUME NEW msg \in QueuedMessage
  PROVE  /\ msg.type \in {"ModifyQuerySet", "Authenticate", "Mutation", "Action"}
         /\ msg.type = "ModifyQuerySet" =>
              /\ msg.base \in Nat /\ msg.new \in Nat /\ msg.mods \in Seq(QuerySetModification)
              /\ \A k \in DOMAIN msg.mods : msg.mods[k].id \in 0 .. nextQueryID - 1
         /\ msg.type = "Authenticate" => msg.base \in Nat
         /\ msg.type \in {"Mutation", "Action"} => msg.id \in 0 .. nextRequestID - 1
  BY DEF QueuedMessage, ClientMessage

\* A message stays well-typed when more queries and requests exist.
LEMMA QueuedMonotone ==
  ASSUME TypeOK, nextQueryID' \in Nat, nextRequestID' \in Nat,
         nextQueryID' >= nextQueryID, nextRequestID' >= nextRequestID
  PROVE  QueuedMessage \subseteq QueuedMessage' /\ outgoing \in Seq(QueuedMessage')
<1>1. QueuedMessage \subseteq QueuedMessage'
  <2>. SUFFICES ASSUME NEW msg \in QueuedMessage PROVE msg \in QueuedMessage' OBVIOUS
  <2>1. msg \in ClientMessage BY DEF QueuedMessage
  <2>2. 0 .. nextQueryID - 1 \subseteq 0 .. nextQueryID' - 1
        /\ 0 .. nextRequestID - 1 \subseteq 0 .. nextRequestID' - 1
    BY DEF TypeOK, QueryTypes, RequestTypes
  <2>. QED BY <2>1, <2>2 DEF QueuedMessage
<1>. QED BY <1>1 DEF TypeOK

\* Subscribe keeps every variable in its type.
LEMMA SubscribeType ==
  ASSUME TypeAndSubscriptions, NEW spelling \in Spelling, Subscribe(spelling)
  PROVE  TypeOK'
<1>. DEFINE t == Canonical[spelling]
<1>1. t \in Token BY CanonicalAssumption DEF Token
<1>. USE DEF TypeAndSubscriptions, Subscribe, remoteVars, resultVars, requestVars,
             mutationMemory, actionMemory, sentVars, errVars
<1>2. VersionTypes' /\ RequestTypes' /\ MemoryTypes'
  <2>1. querySetVersion' \in Nat BY DEF TypeOK, VersionTypes, SubscribeExisting, SubscribeNew
  <2>. QED BY <2>1 DEF TypeOK, VersionTypes, RequestTypes, MemoryTypes
<1>3. CASE SubscribeExisting(t)
  <2>1. QueryTypes'
    <3>1. queries' \in [DOMAIN queries ->
                          [id : Nat, numSubscribers : Nat, nextSubscriberIdx : Nat]]
      BY <1>3 DEF TypeOK, QueryTypes, SubscribeExisting
    <3>2. queries[t].id \in DOMAIN queryIDToToken
      BY <1>3 DEF SubscribeExisting, SubscriptionsConsistent
    <3>3. <<queries[t].id, queries[t].nextSubscriberIdx + 1>> \in QueryID \X (1 .. MaxSubscriberIdx)
      BY <1>3, <3>2, BoundsAssumption DEF TypeOK, QueryTypes, SubscribeExisting, QueryID
    <3>4. subscribers' \subseteq QueryID \X (1 .. MaxSubscriberIdx)
      BY <1>3, <3>3 DEF TypeOK, QueryTypes, SubscribeExisting
    <3>. QED BY <1>3, <3>1, <3>4 DEF TypeOK, QueryTypes, SubscribeExisting
  <2>2. QueuedMessage' = QueuedMessage BY <1>3 DEF SubscribeExisting, QueuedMessage
  <2>. QED BY <1>2, <1>3, <2>1, <2>2 DEF TypeOK, SubscribeExisting
<1>4. CASE SubscribeNew(t)
  <2>1. QueryTypes'
    <3>1. queries' \in [DOMAIN queries \cup {t} ->
                          [id : Nat, numSubscribers : Nat, nextSubscriberIdx : Nat]]
      BY <1>4 DEF TypeOK, QueryTypes, SubscribeNew, Put
    <3>2. queryIDToToken' \in [DOMAIN queryIDToToken \cup {nextQueryID} -> Token]
      BY <1>1, <1>4 DEF TypeOK, QueryTypes, SubscribeNew, Put
    <3>3. nextQueryID' \in 0 .. MaxQueryID /\ nextQueryID \in 0 .. nextQueryID' - 1
          /\ 0 .. nextQueryID - 1 \subseteq 0 .. nextQueryID' - 1
      BY <1>4, BoundsAssumption DEF TypeOK, QueryTypes, SubscribeNew
    <3>4. subscribers' \subseteq QueryID \X (1 .. MaxSubscriberIdx)
      BY <1>4, BoundsAssumption DEF TypeOK, QueryTypes, SubscribeNew, QueryID
    <3>. QED BY <1>1, <1>4, <3>1, <3>2, <3>3, <3>4 DEF TypeOK, QueryTypes, SubscribeNew
  <2>2. ModifyQuerySet(querySetVersion, <<QuerySetAdd(nextQueryID, t)>>) \in QueuedMessage'
    BY <1>1, <1>4 DEF TypeOK, QueryTypes, VersionTypes, SubscribeNew, ModifyQuerySet,
       QuerySetAdd, QueuedMessage, ClientMessage, QuerySetModification
  <2>3. outgoing \in Seq(QueuedMessage')
    <3>1. /\ nextQueryID' \in Nat /\ nextQueryID' >= nextQueryID
          /\ nextRequestID' \in Nat /\ nextRequestID' >= nextRequestID
      BY <1>4 DEF TypeOK, QueryTypes, RequestTypes, SubscribeNew
    <3>. QED BY <3>1, QueuedMonotone
  <2>. QED BY <1>2, <1>4, <2>1, <2>2, <2>3 DEF TypeOK, SubscribeNew
<1>. QED BY <1>3, <1>4

\* Unsubscribe keeps every variable in its type.
LEMMA UnsubscribeType ==
  ASSUME TypeAndSubscriptions, NEW id \in subscribers, Unsubscribe(id)
  PROVE  TypeOK'
<1>. DEFINE t == queryIDToToken[id[1]]
<1>1. id[1] \in DOMAIN queryIDToToken /\ t \in Token /\ t \in DOMAIN queries
  BY DEF TypeAndSubscriptions, TypeOK, QueryTypes, SubscriptionsConsistent
<1>2. RequestTypes' /\ MemoryTypes'
  BY DEF TypeAndSubscriptions, TypeOK, RequestTypes, MemoryTypes, Unsubscribe, requestVars,
         mutationMemory, actionMemory, sentVars
<1>3. VersionTypes'
  BY DEF TypeAndSubscriptions, TypeOK, VersionTypes, Unsubscribe, UnsubscribeShared,
         UnsubscribeLast, remoteVars, sentVars
<1>4. subscribers' \subseteq QueryID \X (1 .. MaxSubscriberIdx)
  BY DEF TypeAndSubscriptions, TypeOK, QueryTypes, Unsubscribe
<1>5. QueuedMessage' = QueuedMessage
  BY DEF Unsubscribe, requestVars, QueuedMessage
<1>6. CASE UnsubscribeShared(id, t)
  <2>1. queries' \in [DOMAIN queries ->
                        [id : Nat, numSubscribers : Nat, nextSubscriberIdx : Nat]]
    <3>. DEFINE q == queries[t]
                R == [id : Nat, numSubscribers : Nat, nextSubscriberIdx : Nat]
    <3>1. queries \in [DOMAIN queries -> R] /\ q \in R /\ q.numSubscribers > 1
      BY <1>1, <1>6 DEF TypeAndSubscriptions, TypeOK, QueryTypes, UnsubscribeShared
    <3>2. [q EXCEPT !.numSubscribers = q.numSubscribers - 1] \in R
      BY <3>1
    <3>3. queries' = [queries EXCEPT ![t] = [q EXCEPT !.numSubscribers = q.numSubscribers - 1]]
      BY <1>6 DEF UnsubscribeShared
    <3>. QED BY <3>1, <3>2, <3>3
  <2>2. QueryTypes'
    BY <1>4, <1>6, <2>1 DEF TypeAndSubscriptions, TypeOK, QueryTypes, Unsubscribe,
       UnsubscribeShared, sentVars
  <2>. QED BY <1>2, <1>3, <1>5, <1>6, <2>2
       DEF TypeAndSubscriptions, TypeOK, Unsubscribe, UnsubscribeShared, resultVars, errVars
<1>7. CASE UnsubscribeLast(id, t)
  <2>1. QueryTypes'
    BY <1>1, <1>4, <1>7 DEF TypeAndSubscriptions, TypeOK, QueryTypes, Unsubscribe,
       UnsubscribeLast, sentVars, Without, Restrict
  <2>2. ModifyQuerySet(querySetVersion, <<QuerySetRemove(id[1], t)>>) \in QueuedMessage
    BY <1>1 DEF TypeAndSubscriptions, TypeOK, QueryTypes, VersionTypes, ModifyQuerySet,
       QuerySetRemove, QueuedMessage, ClientMessage, QuerySetModification
  <2>3. serverResults' \in [DOMAIN serverResults' -> FunctionResult]
    BY <1>7, WithoutFact DEF TypeAndSubscriptions, TypeOK, UnsubscribeLast
  <2>4. outgoing' \in Seq(QueuedMessage)
    BY <1>7, <2>2 DEF TypeAndSubscriptions, TypeOK, UnsubscribeLast
  <2>. QED BY <1>2, <1>3, <1>5, <2>1, <2>3, <2>4
       DEF TypeAndSubscriptions, TypeOK, Unsubscribe, errVars
<1>. QED BY <1>6, <1>7 DEF Unsubscribe

\* Every way of changing the identity queues one Authenticate message.
LEMMA QueueAuthType ==
  ASSUME TypeOK, NEW tok \in AuthToken, queueAuth(tok),
         authFetcher' \in AuthToken \cup {NoFetcher, Callback}
  PROVE  TypeOK'
<1>1. QueryTypes' /\ RequestTypes' /\ MemoryTypes'
  BY DEF TypeOK, QueryTypes, RequestTypes, MemoryTypes, queueAuth, queryVars, requestVars,
         mutationMemory, actionMemory, sentVars
<1>2. VersionTypes'
  BY DEF TypeOK, VersionTypes, queueAuth, remoteVars, sentVars
<1>3. Authenticate(identityVersion, NormalizedToken(tok)) \in QueuedMessage
  BY DEF TypeOK, VersionTypes, Authenticate, NormalizedToken, AuthToken, QueuedMessage,
         ClientMessage
<1>4. QueuedMessage' = QueuedMessage
  BY DEF queueAuth, queryVars, requestVars, QueuedMessage
<1>. QED BY <1>1, <1>2, <1>3, <1>4 DEF TypeOK, queueAuth, resultVars, errVars

\* Mutation keeps every variable in its type.
LEMMA MutationType ==
  ASSUME TypeOK, NEW update \in OptimisticUpdate \cup {NoUpdate}, Mutation(update)
  PROVE  TypeOK'
<1>1. NewRequest("Mutation", update) \in Request
  BY DEF NewRequest, Request, ErrorResult, FunctionResult
<1>2. 0 .. nextRequestID - 1 \subseteq 0 .. nextRequestID' - 1
      /\ nextRequestID \in 0 .. nextRequestID' - 1 /\ nextRequestID' \in 0 .. MaxRequestID
  BY BoundsAssumption DEF TypeOK, RequestTypes, Mutation
<1>3. RequestTypes'
  <2>1. requests' \in [DOMAIN requests \cup {nextRequestID} -> Request]
    BY <1>1 DEF TypeOK, RequestTypes, Mutation, Put
  <2>. QED BY <1>2, <2>1 DEF TypeOK, RequestTypes, Mutation, sentVars
<1>4. MemoryTypes'
  BY <1>2 DEF TypeOK, MemoryTypes, Mutation, mutationMemory, actionMemory
<1>5. QueryTypes' /\ VersionTypes'
  BY DEF TypeOK, QueryTypes, VersionTypes, Mutation, queryVars, remoteVars, sentVars
<1>6. RequestMessage("Mutation", nextRequestID) \in QueuedMessage'
  BY <1>2 DEF TypeOK, RequestTypes, RequestMessage, QueuedMessage, ClientMessage
<1>7. outgoing \in Seq(QueuedMessage')
  <2>1. /\ nextQueryID' \in Nat /\ nextQueryID' >= nextQueryID
        /\ nextRequestID' \in Nat /\ nextRequestID' >= nextRequestID
    BY DEF TypeOK, QueryTypes, RequestTypes, Mutation, queryVars
  <2>. QED BY <2>1, QueuedMonotone
<1>8. outgoing' \in Seq(QueuedMessage')
  BY <1>6, <1>7 DEF Mutation
<1>. QED BY <1>3, <1>4, <1>5, <1>8 DEF TypeOK, Mutation, errVars

\* Action keeps every variable in its type.
LEMMA ActionType ==
  ASSUME TypeOK, Action
  PROVE  TypeOK'
<1>1. NewRequest("Action", NoUpdate) \in Request
  BY DEF NewRequest, Request, ErrorResult, FunctionResult
<1>2. 0 .. nextRequestID - 1 \subseteq 0 .. nextRequestID' - 1
      /\ nextRequestID \in 0 .. nextRequestID' - 1 /\ nextRequestID' \in 0 .. MaxRequestID
  BY BoundsAssumption DEF TypeOK, RequestTypes, Action
<1>3. RequestTypes'
  <2>1. requests' \in [DOMAIN requests \cup {nextRequestID} -> Request]
    BY <1>1 DEF TypeOK, RequestTypes, Action, Put
  <2>. QED BY <1>2, <2>1 DEF TypeOK, RequestTypes, Action, sentVars
<1>4. MemoryTypes'
  BY <1>2 DEF TypeOK, MemoryTypes, Action, mutationMemory, actionMemory
<1>5. QueryTypes' /\ VersionTypes'
  BY DEF TypeOK, QueryTypes, VersionTypes, Action, queryVars, remoteVars, sentVars
<1>6. RequestMessage("Action", nextRequestID) \in QueuedMessage'
  BY <1>2 DEF TypeOK, RequestTypes, RequestMessage, QueuedMessage, ClientMessage
<1>7. outgoing \in Seq(QueuedMessage')
  <2>1. /\ nextQueryID' \in Nat /\ nextQueryID' >= nextQueryID
        /\ nextRequestID' \in Nat /\ nextRequestID' >= nextRequestID
    BY DEF TypeOK, QueryTypes, RequestTypes, Action, queryVars
  <2>. QED BY <2>1, QueuedMonotone
<1>8. outgoing' \in Seq(QueuedMessage')
  BY <1>6, <1>7 DEF Action
<1>. QED BY <1>3, <1>4, <1>5, <1>8 DEF TypeOK, Action, resultVars, errVars

\* PopNextMessage keeps every variable in its type.
LEMMA PopType ==
  ASSUME TypeOK, PopNextMessage
  PROVE  TypeOK'
<1>. DEFINE msg == Head(outgoing)
<1>1. outgoing # << >> /\ outgoing \in Seq(QueuedMessage)
  BY DEF TypeOK, PopNextMessage
<1>2. msg \in QueuedMessage /\ outgoing' \in Seq(QueuedMessage)
  BY <1>1 DEF PopNextMessage
<1>3. QueuedMessage' = QueuedMessage
  BY DEF PopNextMessage, queryVars, requestVars, QueuedMessage
<1>4. Touched(msg, "Add") \subseteq 0 .. nextQueryID - 1
  BY <1>2, QueuedFact DEF Touched
<1>5. QueryTypes'
  BY <1>4 DEF TypeOK, QueryTypes, PopNextMessage, queryVars
<1>6. VersionTypes'
  BY <1>2, QueuedFact DEF TypeOK, VersionTypes, PopNextMessage, remoteVars
<1>7. RequestTypes' /\ MemoryTypes'
  BY <1>2, QueuedFact DEF TypeOK, RequestTypes, MemoryTypes, PopNextMessage, requestVars,
     mutationMemory, actionMemory
<1>. QED BY <1>2, <1>3, <1>5, <1>6, <1>7 DEF TypeOK, PopNextMessage, resultVars, errVars

\* A ReceiveMessage that returns an error early keeps every type.
LEMMA RejectType ==
  ASSUME TypeOK, RejectMessage
  PROVE  TypeOK'
<1>1. QueuedMessage' = QueuedMessage
  BY DEF RejectMessage, queryVars, requestVars, QueuedMessage
<1>2. QueryTypes' /\ VersionTypes'
  BY DEF TypeOK, QueryTypes, VersionTypes, RejectMessage, queryVars, remoteVars, sentVars
<1>3. RequestTypes' /\ MemoryTypes'
  BY DEF TypeOK, RequestTypes, MemoryTypes, RejectMessage, requestVars, mutationMemory,
     actionMemory, sentVars
<1>. QED BY <1>1, <1>2, <1>3 DEF TypeOK, RejectMessage, resultVars

\* The normalized retention limit is positive, whatever the configured one is.
LEMMA LimitFact ==
  normalizedCompletedRequestRetentionLimit \in Nat \ {0}
  BY RetentionAssumption DEF normalizedCompletedRequestRetentionLimit, MaxOf

\* The retained part of an order holds only its elements.
LEMMA RetainedFact ==
  ASSUME NEW S, NEW order \in Seq(S)
  PROVE  Retained(order) \in Seq(S)
<1>. DEFINE m == MaxOf(1, Len(order) - normalizedCompletedRequestRetentionLimit + 1)
<1>1. m \in Int /\ m >= 1 /\ Len(order) \in Int
  BY LimitFact DEF MaxOf
<1>2. \A i \in m .. Len(order) : order[i] \in S
  BY <1>1
<1>. HIDE DEF m
<1>3. SubSeq(order, m, Len(order)) \in Seq(S)
  BY <1>1, <1>2, SubSeqProperties
<1>. QED BY <1>3 DEF Retained, m

\* Remembering completed mutations keeps the types of their three records.
LEMMA RememberMutationsType ==
  ASSUME NEW n \in Nat, NEW ids \in Seq(0 .. n - 1), NEW reqs,
         \A id \in Range(ids) : reqs[id].result \in FunctionResult,
         completedMutations \subseteq 0 .. n - 1,
         completedMutationOrder \in Seq(0 .. n - 1),
         mutationResults \in [DOMAIN mutationResults -> FunctionResult],
         rememberMutationResults(ids, reqs)
  PROVE  /\ completedMutations' \subseteq 0 .. n - 1
         /\ completedMutationOrder' \in Seq(0 .. n - 1)
         /\ mutationResults' \in [DOMAIN mutationResults' -> FunctionResult]
<1>. DEFINE order == completedMutationOrder \o ids
            new == [id \in Range(ids) |-> reqs[id].result]
<1>1. order \in Seq(0 .. n - 1) OBVIOUS
<1>2. completedMutationOrder' \in Seq(0 .. n - 1)
  BY <1>1, RetainedFact DEF rememberMutationResults
<1>3. Range(ids) \subseteq 0 .. n - 1 BY DEF Range
<1>4. new \in [DOMAIN new -> FunctionResult] OBVIOUS
<1>5. With(mutationResults, new) \in [DOMAIN With(mutationResults, new) -> FunctionResult]
  BY <1>4 DEF With
<1>6. mutationResults' = Without(With(mutationResults, new), Evicted(order))
  BY DEF rememberMutationResults
<1>. HIDE DEF new, order
<1>7. mutationResults' \in [DOMAIN mutationResults' -> FunctionResult]
  BY <1>5, <1>6 DEF Without, Restrict
<1>. QED BY <1>2, <1>3, <1>7 DEF rememberMutationResults

\* Remembering completed actions keeps the types of their two records.
LEMMA RememberActionsType ==
  ASSUME NEW n \in Nat, NEW ids \in Seq(0 .. n - 1), NEW result \in FunctionResult,
         actionResultOrder \in Seq(0 .. n - 1),
         actionResults \in [DOMAIN actionResults -> FunctionResult],
         rememberActionResults(ids, result)
  PROVE  /\ actionResultOrder' \in Seq(0 .. n - 1)
         /\ actionResults' \in [DOMAIN actionResults' -> FunctionResult]
<1>. DEFINE order == actionResultOrder \o ids
            new == [id \in Range(ids) |-> result]
<1>1. order \in Seq(0 .. n - 1) OBVIOUS
<1>2. actionResultOrder' \in Seq(0 .. n - 1)
  BY <1>1, RetainedFact DEF rememberActionResults
<1>3. With(actionResults, new) \in [DOMAIN With(actionResults, new) -> FunctionResult]
  BY DEF With
<1>4. actionResults' = Without(With(actionResults, new), Evicted(order))
  BY DEF rememberActionResults
<1>. HIDE DEF new, order
<1>5. actionResults' \in [DOMAIN actionResults' -> FunctionResult]
  BY <1>3, <1>4 DEF Without, Restrict
<1>. QED BY <1>2, <1>5

\* An action response keeps every variable in its type.
LEMMA ActionResponseType ==
  ASSUME TypeOK, NEW id \in RequestID, NEW success \in BOOLEAN,
         receiveActionResponse(id, success)
  PROVE  TypeOK'
<1>1. CASE RejectMessage BY <1>1, RejectType
<1>2. CASE ~RejectMessage
  <2>1. /\ id \in Actions(requests)
        /\ rememberActionResults(<<id>>, functionResultFromResponse(success))
        /\ requests' = Without(requests, {id})
        /\ receiveFailed' = FALSE
        /\ UNCHANGED <<queryVars, querySetVersion, identityVersion, remoteVars, authFetcher,
                       outgoing, resultVars, nextRequestID, mutationMemory, sentVars,
                       restartFailed>>
    BY <1>2 DEF receiveActionResponse
  <2>2. QueuedMessage' = QueuedMessage BY <2>1 DEF queryVars, QueuedMessage
  <2>3. QueryTypes' /\ VersionTypes'
    BY <2>1 DEF TypeOK, QueryTypes, VersionTypes, queryVars, remoteVars, sentVars
  <2>4. RequestTypes'
    <3>1. requests' \in [DOMAIN requests \ {id} -> Request]
      BY <2>1 DEF TypeOK, RequestTypes, Without, Restrict
    <3>. QED BY <2>1, <3>1 DEF TypeOK, RequestTypes, sentVars
  <2>5. MemoryTypes'
    <3>1. <<id>> \in Seq(0 .. nextRequestID - 1) /\ nextRequestID \in Nat
      BY <2>1, BoundsAssumption DEF TypeOK, RequestTypes, Actions
    <3>2. functionResultFromResponse(success) \in FunctionResult
      BY DEF functionResultFromResponse, ValueResult, ErrorResult, FunctionResult
    <3>3. /\ actionResultOrder' \in Seq(0 .. nextRequestID - 1)
          /\ actionResults' \in [DOMAIN actionResults' -> FunctionResult]
      BY <2>1, <3>1, <3>2, RememberActionsType DEF TypeOK, MemoryTypes
    <3>. QED BY <2>1, <3>3 DEF TypeOK, MemoryTypes, mutationMemory
  <2>. QED BY <2>1, <2>2, <2>3, <2>4, <2>5 DEF TypeOK, resultVars
<1>. QED BY <1>1, <1>2

\* The observed timestamp stays nil or a timestamp.
LEMMA ObserveType ==
  ASSUME maxObservedTimestamp \in Nat \cup {NoTS}, NEW ts \in Nat, observeTimestamp(ts)
  PROVE  maxObservedTimestamp' \in Nat \cup {NoTS}
  BY DEF observeTimestamp, MaxOf, NoTS

\* A mutation response keeps every variable in its type.
LEMMA MutationResponseType ==
  ASSUME TypeOK, NEW id \in RequestID, NEW success \in BOOLEAN, NEW ts \in Nat \cup {NoTS},
         receiveMutationResponse(id, success, ts)
  PROVE  TypeOK'
<1>1. CASE RejectMessage BY <1>1, RejectType
<1>2. CASE ~RejectMessage
  <2>1. /\ \/ MutationResponseDuplicate(id, ts)
           \/ MutationResponseSuccess(id, ts)
           \/ MutationResponseFailure(id, ts)
        /\ UNCHANGED <<queryVars, querySetVersion, identityVersion, remoteVersion, authFetcher,
                       outgoing, serverResults, nextRequestID, actionMemory, sentVars,
                       restartFailed>>
    BY <1>2 DEF receiveMutationResponse
  <2>2. QueuedMessage' = QueuedMessage BY <2>1 DEF queryVars, QueuedMessage
  <2>3. QueryTypes' BY <2>1 DEF TypeOK, QueryTypes, queryVars, sentVars
  <2>4. VersionTypes'
    <3>1. maxObservedTimestamp' \in Nat \cup {NoTS}
      BY <2>1, ObserveType DEF TypeOK, VersionTypes, MutationResponseDuplicate,
         MutationResponseSuccess, MutationResponseFailure
    <3>. QED BY <2>1, <3>1 DEF TypeOK, VersionTypes, sentVars
  <2>5. RequestTypes' /\ MemoryTypes'
    <3>1. CASE MutationResponseDuplicate(id, ts)
      BY <2>1, <3>1 DEF TypeOK, RequestTypes, MemoryTypes, MutationResponseDuplicate,
         mutationMemory, actionMemory, sentVars
    <3>2. CASE MutationResponseSuccess(id, ts)
      <4>1. requests' \in [DOMAIN requests -> Request]
        <5>. DEFINE r == requests[id]
                    a == [r EXCEPT !.result = functionResultFromResponse(TRUE),
                                   !.hasResult = TRUE, !.ts = ts]
        <5>1. id \in DOMAIN requests /\ r \in Request
          BY <3>2 DEF TypeOK, RequestTypes, MutationResponseSuccess, Mutations
        <5>2. functionResultFromResponse(TRUE) \in FunctionResult
          BY DEF functionResultFromResponse, ValueResult, FunctionResult
        <5>3. a \in Request BY <5>1, <5>2 DEF Request
        <5>4. requests' = [requests EXCEPT ![id] = a]
          BY <3>2, <5>1 DEF MutationResponseSuccess, TypeOK, RequestTypes
        <5>. QED BY <5>3, <5>4 DEF TypeOK, RequestTypes
      <4>. QED BY <2>1, <3>2, <4>1 DEF TypeOK, RequestTypes, MemoryTypes,
           MutationResponseSuccess, mutationMemory, actionMemory, sentVars
    <3>3. CASE MutationResponseFailure(id, ts)
      <4>1. requests' \in [DOMAIN requests \ {id} -> Request]
        BY <3>3 DEF TypeOK, RequestTypes, MutationResponseFailure, Without, Restrict
      <4>2. RequestTypes'
        BY <2>1, <4>1 DEF TypeOK, RequestTypes, sentVars
      <4>3. <<id>> \in Seq(0 .. nextRequestID - 1) /\ nextRequestID \in Nat
            /\ Range(<<id>>) = {id}
        BY <3>3 DEF TypeOK, RequestTypes, MutationResponseFailure, Mutations, Range
      <4>. DEFINE answered == [requests EXCEPT ![id].result = functionResultFromResponse(FALSE),
                                               ![id].hasResult = TRUE, ![id].ts = ts]
      <4>4. answered[id].result \in FunctionResult
        BY <3>3 DEF TypeOK, RequestTypes, MutationResponseFailure, Mutations, Request,
           functionResultFromResponse, ErrorResult, FunctionResult
      <4>5. rememberMutationResults(<<id>>, answered)
        BY <3>3 DEF MutationResponseFailure
      <4>. HIDE DEF answered
      <4>6. /\ completedMutations' \subseteq 0 .. nextRequestID - 1
            /\ completedMutationOrder' \in Seq(0 .. nextRequestID - 1)
            /\ mutationResults' \in [DOMAIN mutationResults' -> FunctionResult]
        BY <4>3, <4>4, <4>5, RememberMutationsType DEF TypeOK, MemoryTypes
      <4>. QED BY <2>1, <4>2, <4>6 DEF TypeOK, MemoryTypes, actionMemory
    <3>. QED BY <2>1, <3>1, <3>2, <3>3
  <2>. QED BY <2>1, <2>2, <2>3, <2>4, <2>5 DEF TypeOK
<1>. QED BY <1>1, <1>2

\* A transition keeps every variable in its type.
LEMMA TransitionType ==
  ASSUME TypeOK, NEW start, NEW end \in StateVersion, NEW mods,
         mods.updated \in [DOMAIN mods.updated -> FunctionResult],
         receiveTransition(start, end, mods)
  PROVE  TypeOK'
<1>1. CASE RejectMessage BY <1>1, RejectType
<1>2. CASE ~RejectMessage
  <2>. DEFINE server == applyStateModifications(mods)
              done == CompletedBy(end.ts)
              overlay == optimisticResultsWith(server, queries, Without(requests, done))
  <2>1. /\ serverResults' = server
        /\ remoteVersion' = end
        /\ observeTimestamp(end.ts)
        /\ \E ids \in SortedById(done) : rememberMutationResults(ids, requests)
        /\ requests' = Without(requests, done)
        /\ receiveFailed' = overlay.err
        /\ UNCHANGED <<queryVars, querySetVersion, identityVersion, authFetcher, outgoing,
                       nextRequestID, actionMemory, sentVars, restartFailed>>
    BY <1>2 DEF receiveTransition
  <2>2. QueuedMessage' = QueuedMessage BY <2>1 DEF queryVars, QueuedMessage
  <2>3. QueryTypes' BY <2>1 DEF TypeOK, QueryTypes, queryVars, sentVars
  <2>4. VersionTypes'
    <3>1. end.ts \in Nat BY DEF StateVersion
    <3>2. maxObservedTimestamp' \in Nat \cup {NoTS}
      BY <2>1, <3>1, ObserveType DEF TypeOK, VersionTypes
    <3>. QED BY <2>1, <3>2 DEF TypeOK, VersionTypes, sentVars
  <2>5. serverResults' \in [DOMAIN serverResults' -> FunctionResult]
    BY <2>1 DEF TypeOK, applyStateModifications, With, Without, Restrict
  <2>6. RequestTypes'
    <3>1. requests' \in [DOMAIN requests \ done -> Request]
      BY <2>1 DEF TypeOK, RequestTypes, Without, Restrict
    <3>. QED BY <2>1, <3>1 DEF TypeOK, RequestTypes, sentVars
  <2>7. MemoryTypes'
    <3>0. done \subseteq DOMAIN requests
      BY DEF CompletedBy, Mutations
    <3>. HIDE DEF done
    <3>1. done \subseteq 0 .. nextRequestID - 1 /\ nextRequestID \in Nat
      BY <3>0 DEF TypeOK, RequestTypes
    <3>2. IsFiniteSet(done)
      BY <3>1, IdsFinite
    <3>3. PICK ids \in SortedById(done) : rememberMutationResults(ids, requests)
      BY <2>1
    <3>4. ids \in Seq(done) /\ Range(ids) = done
      BY <3>2, SortedByIdFact
    <3>5. ids \in Seq(0 .. nextRequestID - 1)
      BY <3>1, <3>4
    <3>6. \A id \in Range(ids) : requests[id].result \in FunctionResult
      BY <3>0, <3>4 DEF TypeOK, RequestTypes, Request
    <3>7. /\ completedMutations' \subseteq 0 .. nextRequestID - 1
          /\ completedMutationOrder' \in Seq(0 .. nextRequestID - 1)
          /\ mutationResults' \in [DOMAIN mutationResults' -> FunctionResult]
      BY <3>1, <3>3, <3>5, <3>6, RememberMutationsType DEF TypeOK, MemoryTypes
    <3>. QED BY <2>1, <3>7 DEF TypeOK, MemoryTypes, actionMemory
  <2>. QED BY <2>1, <2>2, <2>3, <2>4, <2>5, <2>6, <2>7 DEF TypeOK
<1>. QED BY <1>1, <1>2

\* There are finitely many active queries, since each has an id of its own.
LEMMA QueriesFinite ==
  ASSUME TypeAndSubscriptions
  PROVE  IsFiniteSet(DOMAIN queries)
<1>. DEFINE D == DOMAIN queryIDToToken
<1>1. nextQueryID \in Nat /\ D \in SUBSET (0 .. nextQueryID - 1)
  BY DEF TypeAndSubscriptions, TypeOK, QueryTypes
<1>2. IsFiniteSet(D) BY <1>1, IdsFinite
<1>3. queryIDToToken \in Surjection(D, DOMAIN queries)
  BY DEF TypeAndSubscriptions, TypeOK, QueryTypes, SubscriptionsConsistent, Surjection
<1>. QED BY <1>2, <1>3, FS_Surjection

\* RestartForReconnect keeps every variable in its type: the queue it rebuilds
\* names only queries and requests that exist.
LEMMA RestartType ==
  ASSUME TypeAndSubscriptions, RestartForReconnect
  PROVE  TypeOK'
<1>1. QueuedMessage' = QueuedMessage
  BY DEF RestartForReconnect, queryVars, QueuedMessage
<1>2. QueryTypes'
  BY DEF TypeAndSubscriptions, TypeOK, QueryTypes, RestartForReconnect, queryVars
<1>3. RequestTypes'
  <2>1. requests' \in [DOMAIN requests \ Actions(requests) -> Request]
    BY DEF TypeAndSubscriptions, TypeOK, RequestTypes, RestartForReconnect,
       cancelPendingActionsForReconnect, Without, Restrict
  <2>. QED BY <2>1 DEF TypeAndSubscriptions, TypeOK, RequestTypes, RestartForReconnect
<1>4. MemoryTypes'
  <2>1. Actions(requests) \in SUBSET (0 .. nextRequestID - 1) /\ nextRequestID \in Nat
    BY DEF TypeAndSubscriptions, TypeOK, RequestTypes, Actions
  <2>2. PICK ids \in SortedById(Actions(requests)) : rememberActionResults(ids, ErrorResult)
    BY DEF RestartForReconnect, cancelPendingActionsForReconnect
  <2>3. ids \in Seq(Actions(requests))
    BY <2>1, IdsFinite, SortedByIdFact
  <2>4. ids \in Seq(0 .. nextRequestID - 1)
    BY <2>1, <2>3
  <2>5. ErrorResult \in FunctionResult BY DEF ErrorResult, FunctionResult
  <2>6. /\ actionResultOrder' \in Seq(0 .. nextRequestID - 1)
        /\ actionResults' \in [DOMAIN actionResults' -> FunctionResult]
    BY <2>1, <2>2, <2>4, <2>5, RememberActionsType
       DEF TypeAndSubscriptions, TypeOK, MemoryTypes
  <2>. QED BY <2>6 DEF TypeAndSubscriptions, TypeOK, MemoryTypes, RestartForReconnect,
       mutationMemory
<1>5. CASE restartFailed' = TRUE /\ outgoing' = << >> /\ identityVersion' = 0
           /\ querySetVersion' = 0
  <2>1. VersionTypes'
    BY <1>5 DEF TypeAndSubscriptions, TypeOK, VersionTypes, RestartForReconnect, ZeroVersion,
       StateVersion
  <2>. QED BY <1>1, <1>2, <1>3, <1>4, <1>5, <2>1 DEF TypeAndSubscriptions, TypeOK,
       RestartForReconnect, resultVars
<1>6. ASSUME NEW auth \in RefreshedAuth, NEW adds \in replayQueryAdds,
             NEW replay \in ReplayOngoingRequests,
             identityVersion' = Len(auth),
             querySetVersion' = (IF adds = << >> THEN 0 ELSE 1),
             outgoing' = auth \o (IF adds = << >> THEN << >> ELSE <<ModifyQuerySet(0, adds)>>)
                             \o replay,
             restartFailed' = FALSE
      PROVE  TypeOK'
  <2>1. auth \in Seq(QueuedMessage)
    <3>1. CASE authFetcher = NoFetcher
      BY <3>1 DEF RefreshedAuth
    <3>2. CASE authFetcher # NoFetcher
      <4>1. PICK tok \in FetcherTokens : auth = <<Authenticate(0, NormalizedToken(tok))>>
        BY <3>2 DEF RefreshedAuth
      <4>2. tok \in AuthToken
        BY <3>2 DEF TypeAndSubscriptions, TypeOK, VersionTypes, FetcherTokens
      <4>3. NormalizedToken(tok) \in Auth \cup {NoAuth}
        BY <4>2 DEF NormalizedToken, AuthToken
      <4>4. Authenticate(0, NormalizedToken(tok)) \in QueuedMessage
        BY <4>3 DEF Authenticate, QueuedMessage, ClientMessage
      <4>. QED BY <4>1, <4>4
    <3>. QED BY <3>1, <3>2
  <2>2. /\ adds \in Seq(QuerySetModification)
        /\ \A k \in DOMAIN adds : adds[k].id \in 0 .. nextQueryID - 1
    <3>1. PICK s \in Seq(DOMAIN queries) :
            adds = [i \in DOMAIN s |-> QuerySetAdd(queries[s[i]].id, s[i])]
      BY QueriesFinite, ReplayAddsFact
    <3>2. \A t \in DOMAIN queries : t \in Token /\ queries[t].id \in 0 .. nextQueryID - 1
      BY DEF TypeAndSubscriptions, TypeOK, QueryTypes, SubscriptionsConsistent
    <3>3. nextQueryID \in Nat
      BY BoundsAssumption DEF TypeAndSubscriptions, TypeOK, QueryTypes
    <3>4. \A i \in DOMAIN s : QuerySetAdd(queries[s[i]].id, s[i]) \in QuerySetModification
      BY <3>2, <3>3 DEF QuerySetAdd, QuerySetModification
    <3>5. adds \in Seq(QuerySetModification)
      BY <3>1, <3>4
    <3>6. \A k \in DOMAIN adds : adds[k].id \in 0 .. nextQueryID - 1
      BY <3>1, <3>2 DEF QuerySetAdd
    <3>. QED BY <3>5, <3>6
  <2>3. ModifyQuerySet(0, adds) \in QueuedMessage
    <3>1. ModifyQuerySet(0, adds) \in ClientMessage
      BY <2>2 DEF ModifyQuerySet, ClientMessage
    <3>2. ModifyQuerySet(0, adds).type = "ModifyQuerySet" /\ ModifyQuerySet(0, adds).mods = adds
      BY DEF ModifyQuerySet
    <3>. QED BY <2>2, <3>1, <3>2 DEF QueuedMessage
  <2>4. replay \in Seq(QueuedMessage)
    <3>1. Mutations(requests) \in SUBSET (0 .. nextRequestID - 1) /\ nextRequestID \in Nat
      BY DEF TypeAndSubscriptions, TypeOK, RequestTypes, Mutations
    <3>2. PICK s \in Seq(Mutations(requests)) :
            replay = [i \in DOMAIN s |-> RequestMessage("Mutation", s[i])]
      BY <3>1, IdsFinite, ReplayFact
    <3>3. \A i \in DOMAIN s : RequestMessage("Mutation", s[i]) \in QueuedMessage
      BY <3>1 DEF RequestMessage, QueuedMessage, ClientMessage
    <3>. QED BY <3>2, <3>3
  <2>5. outgoing' \in Seq(QueuedMessage)
    BY <1>6, <2>1, <2>3, <2>4
  <2>6. VersionTypes'
    BY <1>6, <2>1 DEF TypeAndSubscriptions, TypeOK, VersionTypes, RestartForReconnect,
       ZeroVersion, StateVersion
  <2>. QED BY <1>1, <1>2, <1>3, <1>4, <1>6, <2>5, <2>6 DEF TypeAndSubscriptions, TypeOK,
       RestartForReconnect, resultVars
<1>. QED BY <1>5, <1>6 DEF RestartForReconnect, RestartQueue

\* Every step keeps every variable in its type.
LEMMA NextType ==
  ASSUME TypeAndSubscriptions, [Next]_vars
  PROVE  TypeOK'
<1>0. TypeOK BY DEF TypeAndSubscriptions
<1>1. ASSUME NEW s \in Spelling, Subscribe(s) PROVE TypeOK'
  BY <1>1, SubscribeType
<1>2. ASSUME NEW id \in subscribers, Unsubscribe(id) PROVE TypeOK'
  BY <1>2, UnsubscribeType
<1>3. ASSUME NEW tok \in Auth, SetAuth(tok) PROVE TypeOK'
  BY <1>0, <1>3, QueueAuthType DEF SetAuth, AuthToken
<1>4. CASE ClearAuth
  BY <1>0, <1>4, QueueAuthType DEF ClearAuth, AuthToken
<1>5. ASSUME NEW tok \in AuthToken, SetAuthCallback(tok) PROVE TypeOK'
  BY <1>0, <1>5, QueueAuthType DEF SetAuthCallback
<1>6. ASSUME NEW update \in OptimisticUpdate \cup {NoUpdate}, Mutation(update) PROVE TypeOK'
  BY <1>0, <1>6, MutationType
<1>7. CASE Action
  BY <1>0, <1>7, ActionType
<1>8. CASE PopNextMessage
  BY <1>0, <1>8, PopType
<1>9. ASSUME NEW tok \in FetcherTokens, RefreshAuthForReconnect(tok) PROVE TypeOK'
  <2>1. tok \in AuthToken /\ authFetcher' \in AuthToken \cup {NoFetcher, Callback}
    BY <1>0, <1>9 DEF RefreshAuthForReconnect, FetcherTokens, TypeOK, VersionTypes
  <2>. QED BY <1>0, <1>9, <2>1, QueueAuthType DEF RefreshAuthForReconnect
<1>10. CASE RestartForReconnect
  BY <1>10, RestartType
<1>11. ASSUME NEW start \in Version, NEW end \in Version, NEW mods \in StateModifications,
              receiveTransition(start, end, mods)
       PROVE  TypeOK'
  <2>1. mods.updated \in [DOMAIN mods.updated -> FunctionResult]
    <3>1. ServerResult \subseteq FunctionResult
      BY DEF ServerResult, ValueResult, ErrorResult, FunctionResult
    <3>. DEFINE U == {<< >>} \cup UNION {[{q} -> ServerResult] : q \in QueryID}
    <3>a. mods \in {[updated |-> u, removed |-> {}] : u \in U}
                  \cup {[updated |-> << >>, removed |-> {q}] : q \in QueryID}
      BY DEF StateModifications
    <3>b. mods.updated \in U
      <4>1. << >> \in U OBVIOUS
      <4>. HIDE DEF U
      <4>. QED BY <3>a, <4>1
    <3>2. \/ mods.updated = << >>
          \/ \E q \in QueryID : mods.updated \in [{q} -> ServerResult]
      BY <3>b
    <3>3. CASE mods.updated = << >> BY <3>3
    <3>4. ASSUME NEW q \in QueryID, mods.updated \in [{q} -> ServerResult]
          PROVE  mods.updated \in [DOMAIN mods.updated -> FunctionResult]
      BY <3>1, <3>4
    <3>. QED BY <3>2, <3>3, <3>4
  <2>2. end \in StateVersion
    BY VersionAssumption DEF StateVersion
  <2>. QED BY <1>0, <1>11, <2>1, <2>2, TransitionType
<1>12. ASSUME NEW id \in RequestID, NEW success \in BOOLEAN, NEW ts \in Timestamp \cup {NoTS},
              receiveMutationResponse(id, success, ts)
       PROVE  TypeOK'
  <2>1. ts \in Nat \cup {NoTS}
    BY VersionAssumption DEF Timestamp
  <2>. QED BY <1>0, <1>12, <2>1, MutationResponseType
<1>13. ASSUME NEW id \in RequestID, NEW success \in BOOLEAN, receiveActionResponse(id, success)
       PROVE  TypeOK'
  BY <1>0, <1>13, ActionResponseType
<1>14. CASE receiveErrorMessage
  BY <1>0, <1>14, RejectType DEF receiveErrorMessage
<1>15. CASE UNCHANGED vars
  <2>1. QueuedMessage' = QueuedMessage
    BY <1>15 DEF vars, queryVars, requestVars, QueuedMessage
  <2>2. QueryTypes' /\ VersionTypes'
    BY <1>0, <1>15 DEF vars, queryVars, remoteVars, sentVars, TypeOK, QueryTypes, VersionTypes
  <2>3. RequestTypes' /\ MemoryTypes'
    BY <1>0, <1>15 DEF vars, requestVars, sentVars, mutationMemory, actionMemory, TypeOK,
       RequestTypes, MemoryTypes
  <2>. QED BY <1>0, <1>15, <2>1, <2>2, <2>3 DEF vars, resultVars, errVars, TypeOK
<1>. QED
  BY <1>1, <1>2, <1>3, <1>4, <1>5, <1>6, <1>7, <1>8, <1>9, <1>10, <1>11, <1>12, <1>13,
     <1>14, <1>15 DEF Next, Call, Drive, Receive

-----------------------------------------------------------------------------
(* Subscriptions *)

\* There are finitely many subscribers.
LEMMA SubscribersFinite ==
  ASSUME TypeOK
  PROVE  IsFiniteSet(subscribers)
<1>1. MaxQueryID - 1 \in Int /\ MaxSubscriberIdx \in Int BY BoundsAssumption
<1>2. IsFiniteSet(QueryID) /\ IsFiniteSet(1 .. MaxSubscriberIdx)
  BY <1>1, FS_Interval DEF QueryID
<1>3. IsFiniteSet(QueryID \X (1 .. MaxSubscriberIdx))
  BY <1>2, FS_Product
<1>. QED BY <1>3, FS_Subset DEF TypeOK, QueryTypes

\* Subscribe keeps the query set and its subscribers consistent: it counts the new
\* subscriber, and the subscriber's index is one no live subscriber has.
LEMMA SubscribeConsistent ==
  ASSUME TypeAndSubscriptions, NEW spelling \in Spelling, Subscribe(spelling)
  PROVE  SubscriptionsConsistent'
<1>. DEFINE t == Canonical[spelling]
            Of(q) == {s \in subscribers : s[1] = q}
            After(q) == {s \in subscribers' : s[1] = q}
<1>0. TypeOK /\ SubscriptionsConsistent BY DEF TypeAndSubscriptions
<1>a. \A u \in DOMAIN queries : queries[u].numSubscribers = Cardinality(Of(queries[u].id))
  BY <1>0 DEF SubscriptionsConsistent
<1>b. \A u \in DOMAIN queries : /\ queries[u].id \in DOMAIN queryIDToToken
                                /\ queryIDToToken[queries[u].id] = u
                                /\ queries[u].numSubscribers > 0
  BY <1>0 DEF SubscriptionsConsistent
<1>c. \A p \in DOMAIN queryIDToToken : /\ queryIDToToken[p] \in DOMAIN queries
                                       /\ queries[queryIDToToken[p]].id = p
  BY <1>0 DEF SubscriptionsConsistent
<1>1. IsFiniteSet(subscribers) BY <1>0, SubscribersFinite
<1>2. \A q : IsFiniteSet(Of(q))
  <2>. TAKE q
  <2>1. Of(q) \in SUBSET subscribers OBVIOUS
  <2>. QED BY <1>1, <2>1, FS_Subset
<1>3. CASE SubscribeExisting(t)
  <2>. DEFINE q == queries[t].id
              new == <<q, queries[t].nextSubscriberIdx + 1>>
  <2>1. /\ t \in DOMAIN queries /\ q \in DOMAIN queryIDToToken /\ queryIDToToken[q] = t
        /\ queries[t].nextSubscriberIdx \in Nat /\ queries[t].numSubscribers \in Nat
    BY <1>0, <1>3 DEF SubscribeExisting, SubscriptionsConsistent, TypeOK, QueryTypes
  <2>2. new \notin subscribers
    <3>. SUFFICES ASSUME new \in subscribers PROVE FALSE OBVIOUS
    <3>1. new[1] = q /\ new[2] = queries[t].nextSubscriberIdx + 1 OBVIOUS
    <3>2. new[2] <= queries[queryIDToToken[new[1]]].nextSubscriberIdx
      <4>. HIDE DEF new
      <4>. QED BY <1>0 DEF SubscriptionsConsistent
    <3>. HIDE DEF new, q, t
    <3>3. new[2] <= queries[t].nextSubscriberIdx BY <2>1, <3>1, <3>2
    <3>. QED BY <2>1, <3>1, <3>3
  <2>3. /\ subscribers' = subscribers \cup {new} /\ queryIDToToken' = queryIDToToken
        /\ DOMAIN queries' = DOMAIN queries
        /\ \A u \in DOMAIN queries \ {t} : queries'[u] = queries[u]
        /\ queries'[t].id = q
        /\ queries'[t].numSubscribers = queries[t].numSubscribers + 1
        /\ queries'[t].nextSubscriberIdx = queries[t].nextSubscriberIdx + 1
    BY <1>3, <2>1 DEF SubscribeExisting
  <2>t. t \in DOMAIN queries' /\ q \in DOMAIN queryIDToToken' /\ queryIDToToken'[q] = t
    BY <2>1, <2>3
  <2>i. /\ queries'[t].id = q
        /\ queries'[t].nextSubscriberIdx = queries[t].nextSubscriberIdx + 1
    BY <2>3
  <2>k. /\ queryIDToToken' = queryIDToToken /\ DOMAIN queries' = DOMAIN queries
        /\ \A u \in DOMAIN queries \ {t} : queries'[u] = queries[u]
    BY <2>3
  <2>s. subscribers' = subscribers \cup {new} /\ new[1] = q
    BY <2>3
  <2>4. After(q) = Of(q) \cup {new}
    BY <2>s
  <2>5. Cardinality(Of(q) \cup {new}) = Cardinality(Of(q)) + 1
    <3>1. IsFiniteSet(Of(q)) /\ new \notin Of(q) BY <1>2, <2>2
    <3>. HIDE DEF Of, new
    <3>. QED BY <3>1, FS_AddElement
  <2>6. \A u \in DOMAIN queries \ {t} : queries[u].id # q
    BY <1>0, <2>1 DEF SubscriptionsConsistent
  <2>7. \A p : p # q => After(p) = Of(p)
    BY <2>s
  <2>8. ASSUME NEW u \in DOMAIN queries'
        PROVE  /\ queries'[u].id \in DOMAIN queryIDToToken'
               /\ queryIDToToken'[queries'[u].id] = u
               /\ queries'[u].numSubscribers > 0
               /\ queries'[u].numSubscribers = Cardinality(After(queries'[u].id))
    <3>. HIDE DEF Of, After
    <3>1. CASE u = t
      <4>1. /\ queries'[u].id = q
            /\ queries'[u].numSubscribers = queries[t].numSubscribers + 1
        BY <2>3, <3>1
      <4>2. Cardinality(After(q)) = queries[t].numSubscribers + 1
        BY <1>a, <2>1, <2>4, <2>5
      <4>3. Cardinality(After(queries'[u].id)) = queries'[u].numSubscribers
        BY <4>1, <4>2
      <4>4. queries'[u].numSubscribers > 0 BY <2>1, <4>1
      <4>. HIDE DEF q, t
      <4>5. queries'[u].id \in DOMAIN queryIDToToken' /\ queryIDToToken'[queries'[u].id] = u
        BY <2>t, <3>1, <4>1
      <4>. QED BY <4>3, <4>4, <4>5
    <3>2. CASE u # t
      <4>1. u \in DOMAIN queries /\ queries'[u] = queries[u] /\ queries[u].id # q
        BY <2>3, <2>6, <3>2
      <4>2. After(queries'[u].id) = Of(queries[u].id) BY <2>7, <4>1
      <4>3. Cardinality(After(queries'[u].id)) = queries'[u].numSubscribers
        BY <1>a, <4>1, <4>2
      <4>. QED BY <1>b, <2>3, <4>1, <4>3
    <3>. QED BY <3>1, <3>2
  <2>9. \A p \in DOMAIN queryIDToToken' :
          queryIDToToken'[p] \in DOMAIN queries' /\ queries'[queryIDToToken'[p]].id = p
    <3>. SUFFICES ASSUME NEW p \in DOMAIN queryIDToToken
                  PROVE  /\ queryIDToToken[p] \in DOMAIN queries
                         /\ queries'[queryIDToToken[p]].id = p
      BY <2>k
    <3>1. queryIDToToken[p] \in DOMAIN queries /\ queries[queryIDToToken[p]].id = p
      BY <1>c
    <3>2. CASE queryIDToToken[p] = t BY <2>i, <3>1, <3>2
    <3>3. CASE queryIDToToken[p] # t
      <4>1. queries'[queryIDToToken[p]] = queries[queryIDToToken[p]] BY <2>k, <3>1, <3>3
      <4>. QED BY <3>1, <4>1
    <3>. QED BY <3>2, <3>3
  <2>10. ASSUME NEW s \in subscribers'
         PROVE  /\ s[1] \in DOMAIN queryIDToToken'
                /\ s[2] <= queries'[queryIDToToken'[s[1]]].nextSubscriberIdx
    <3>1. CASE s = new
      <4>1. s[1] = q /\ s[2] = queries[t].nextSubscriberIdx + 1 BY <3>1
      <4>. HIDE DEF q, t
      <4>2. s[2] <= queries'[t].nextSubscriberIdx
        <5>1. queries[t].nextSubscriberIdx \in Nat BY <2>1
        <5>. QED BY <2>i, <4>1, <5>1
      <4>. QED BY <2>t, <4>1, <4>2
    <3>2. CASE s # new
      <4>1. s \in subscribers /\ s[2] \in Nat
        BY <1>0, <2>3, <3>2 DEF TypeOK, QueryTypes
      <4>2. s[1] \in DOMAIN queryIDToToken /\ queryIDToToken[s[1]] \in DOMAIN queries
            /\ s[2] <= queries[queryIDToToken[s[1]]].nextSubscriberIdx
        BY <1>0, <4>1 DEF SubscriptionsConsistent
      <4>3. s[2] <= queries'[queryIDToToken[s[1]]].nextSubscriberIdx
        <5>1. CASE queryIDToToken[s[1]] = t BY <2>1, <2>i, <4>1, <4>2, <5>1
        <5>2. CASE queryIDToToken[s[1]] # t
          <6>1. queries'[queryIDToToken[s[1]]] = queries[queryIDToToken[s[1]]]
            BY <2>k, <4>2, <5>2
          <6>. QED BY <4>2, <6>1
        <5>. QED BY <5>1, <5>2
      <4>. QED BY <2>k, <4>2, <4>3
    <3>. QED BY <3>1, <3>2
  <2>. QED BY <2>8, <2>9, <2>10 DEF SubscriptionsConsistent
<1>4. CASE SubscribeNew(t)
  <2>. DEFINE q == nextQueryID
              new == <<q, 1>>
  <2>1. t \notin DOMAIN queries /\ q \in Nat /\ q \notin DOMAIN queryIDToToken
    BY <1>0, <1>4 DEF SubscribeNew, TypeOK, QueryTypes
  <2>2. Of(q) = {}
    BY <1>0, <2>1 DEF SubscriptionsConsistent
  <2>3. /\ subscribers' = subscribers \cup {new}
        /\ DOMAIN queries' = DOMAIN queries \cup {t}
        /\ DOMAIN queryIDToToken' = DOMAIN queryIDToToken \cup {q}
        /\ \A u \in DOMAIN queries : queries'[u] = queries[u]
        /\ \A p \in DOMAIN queryIDToToken : queryIDToToken'[p] = queryIDToToken[p]
        /\ queries'[t] = [id |-> q, numSubscribers |-> 1, nextSubscriberIdx |-> 1]
        /\ queryIDToToken'[q] = t
    BY <1>4, <2>1 DEF SubscribeNew, Put
  <2>t. t \in DOMAIN queries' /\ q \in DOMAIN queryIDToToken' /\ queryIDToToken'[q] = t
    BY <2>3
  <2>q. queries'[t] = [id |-> q, numSubscribers |-> 1, nextSubscriberIdx |-> 1]
    BY <2>3
  <2>i. /\ queries'[t].id = q /\ queries'[t].numSubscribers = 1
        /\ queries'[t].nextSubscriberIdx = 1
    <3>. HIDE DEF q, t
    <3>. QED BY <2>q
  <2>k. /\ DOMAIN queries' = DOMAIN queries \cup {t}
        /\ DOMAIN queryIDToToken' = DOMAIN queryIDToToken \cup {q}
        /\ \A u \in DOMAIN queries : queries'[u] = queries[u]
        /\ \A p \in DOMAIN queryIDToToken : queryIDToToken'[p] = queryIDToToken[p]
    BY <2>3
  <2>s. subscribers' = subscribers \cup {new} /\ new[1] = q
    BY <2>3
  <2>4. After(q) = {new}
    BY <2>2, <2>s
  <2>5. Cardinality({new}) = 1
    BY FS_Singleton
  <2>6. \A u \in DOMAIN queries : queries[u].id # q
    BY <1>0, <2>1 DEF SubscriptionsConsistent
  <2>7. \A p : p # q => After(p) = Of(p)
    BY <2>s
  <2>8. ASSUME NEW u \in DOMAIN queries'
        PROVE  /\ queries'[u].id \in DOMAIN queryIDToToken'
               /\ queryIDToToken'[queries'[u].id] = u
               /\ queries'[u].numSubscribers > 0
               /\ queries'[u].numSubscribers = Cardinality(After(queries'[u].id))
    <3>. HIDE DEF Of, After
    <3>1. CASE u = t
      <4>1. queries'[u].id = q /\ queries'[u].numSubscribers = 1
        BY <2>i, <3>1
      <4>2. Cardinality(After(q)) = 1
        BY <2>4, <2>5
      <4>3. Cardinality(After(queries'[u].id)) = queries'[u].numSubscribers
        BY <4>1, <4>2
      <4>4. queries'[u].numSubscribers > 0 BY <4>1
      <4>. HIDE DEF q, t
      <4>5. queries'[u].id \in DOMAIN queryIDToToken' /\ queryIDToToken'[queries'[u].id] = u
        BY <2>t, <3>1, <4>1
      <4>. QED BY <4>3, <4>4, <4>5
    <3>2. CASE u # t
      <4>1. u \in DOMAIN queries /\ queries'[u] = queries[u] /\ queries[u].id # q
        BY <2>3, <2>6, <3>2
      <4>2. After(queries'[u].id) = Of(queries[u].id) BY <2>7, <4>1
      <4>3. Cardinality(After(queries'[u].id)) = queries'[u].numSubscribers
        BY <1>a, <4>1, <4>2
      <4>4. /\ queries[u].id \in DOMAIN queryIDToToken /\ queryIDToToken[queries[u].id] = u
            /\ queries[u].numSubscribers > 0
        BY <1>b, <4>1
      <4>5. /\ queries'[u].id = queries[u].id
            /\ queries'[u].numSubscribers = queries[u].numSubscribers
        BY <4>1
      <4>6. queries[u].id \in DOMAIN queryIDToToken' /\ queryIDToToken'[queries[u].id] = u
        BY <2>3, <4>4
      <4>7. queries'[u].id \in DOMAIN queryIDToToken' /\ queryIDToToken'[queries'[u].id] = u
        BY <4>5, <4>6
      <4>8. queries'[u].numSubscribers > 0 BY <4>4, <4>5
      <4>. QED BY <4>3, <4>7, <4>8
    <3>. QED BY <3>1, <3>2
  <2>9. \A p \in DOMAIN queryIDToToken' :
          queryIDToToken'[p] \in DOMAIN queries' /\ queries'[queryIDToToken'[p]].id = p
    <3>. HIDE DEF q, t
    <3>. SUFFICES ASSUME NEW p \in DOMAIN queryIDToToken'
                  PROVE  /\ queryIDToToken'[p] \in DOMAIN queries'
                         /\ queries'[queryIDToToken'[p]].id = p
      OBVIOUS
    <3>1. CASE p = q BY <2>t, <2>i, <3>1
    <3>2. CASE p # q
      <4>1. /\ queryIDToToken'[p] = queryIDToToken[p] /\ p \in DOMAIN queryIDToToken
        BY <2>k, <3>2
      <4>2. queryIDToToken[p] \in DOMAIN queries /\ queries[queryIDToToken[p]].id = p
        BY <1>c, <4>1
      <4>3. /\ queries'[queryIDToToken[p]] = queries[queryIDToToken[p]]
            /\ queryIDToToken[p] \in DOMAIN queries'
        BY <2>k, <4>2
      <4>. QED BY <4>1, <4>2, <4>3
    <3>. QED BY <3>1, <3>2
  <2>10. ASSUME NEW s \in subscribers'
         PROVE  /\ s[1] \in DOMAIN queryIDToToken'
                /\ s[2] <= queries'[queryIDToToken'[s[1]]].nextSubscriberIdx
    <3>1. CASE s = new
      <4>1. s[1] = q /\ s[2] = 1 BY <3>1
      <4>2. s[2] <= queries'[t].nextSubscriberIdx BY <2>i, <4>1
      <4>. HIDE DEF q, t
      <4>. QED BY <2>t, <4>1, <4>2
    <3>2. CASE s # new
      <4>1. s \in subscribers BY <2>s, <3>2
      <4>2. /\ s[1] \in DOMAIN queryIDToToken /\ queryIDToToken[s[1]] \in DOMAIN queries
            /\ s[2] <= queries[queryIDToToken[s[1]]].nextSubscriberIdx
        BY <1>0, <4>1 DEF SubscriptionsConsistent
      <4>3. /\ s[1] \in DOMAIN queryIDToToken' /\ queryIDToToken'[s[1]] = queryIDToToken[s[1]]
            /\ queries'[queryIDToToken[s[1]]] = queries[queryIDToToken[s[1]]]
        BY <2>3, <4>2
      <4>. QED BY <4>2, <4>3
    <3>. QED BY <3>1, <3>2
  <2>. QED BY <2>8, <2>9, <2>10 DEF SubscriptionsConsistent
<1>. QED BY <1>3, <1>4 DEF Subscribe

\* Unsubscribe keeps the query set and its subscribers consistent: the query goes
\* exactly when its last subscriber does.
LEMMA UnsubscribeConsistent ==
  ASSUME TypeAndSubscriptions, NEW id \in subscribers, Unsubscribe(id)
  PROVE  SubscriptionsConsistent'
<1>. DEFINE q == id[1]
            t == queryIDToToken[q]
            Of(p) == {s \in subscribers : s[1] = p}
            After(p) == {s \in subscribers' : s[1] = p}
<1>0. TypeOK /\ SubscriptionsConsistent BY DEF TypeAndSubscriptions
<1>a. \A u \in DOMAIN queries : queries[u].numSubscribers = Cardinality(Of(queries[u].id))
  BY <1>0 DEF SubscriptionsConsistent
<1>b. \A u \in DOMAIN queries : /\ queries[u].id \in DOMAIN queryIDToToken
                                /\ queryIDToToken[queries[u].id] = u
                                /\ queries[u].numSubscribers > 0
                                /\ queries[u].numSubscribers \in Nat
                                /\ queries[u].nextSubscriberIdx \in Nat
  BY <1>0 DEF SubscriptionsConsistent, TypeOK, QueryTypes
<1>c. \A p \in DOMAIN queryIDToToken :
        queryIDToToken[p] \in DOMAIN queries /\ queries[queryIDToToken[p]].id = p
  BY <1>0 DEF SubscriptionsConsistent
<1>d. \A s \in subscribers : /\ s[1] \in DOMAIN queryIDToToken
                             /\ s[2] <= queries[queryIDToToken[s[1]]].nextSubscriberIdx
  BY <1>0 DEF SubscriptionsConsistent
<1>1. q \in DOMAIN queryIDToToken /\ t \in DOMAIN queries /\ queries[t].id = q
  BY <1>c, <1>d
<1>2. subscribers' = subscribers \ {id} BY DEF Unsubscribe
<1>3. IsFiniteSet(Of(q))
  <2>1. IsFiniteSet(subscribers) BY <1>0, SubscribersFinite
  <2>2. Of(q) \in SUBSET subscribers OBVIOUS
  <2>. HIDE DEF Of
  <2>. QED BY <2>1, <2>2, FS_Subset
<1>4. id \in Of(q) OBVIOUS
<1>5. After(q) = Of(q) \ {id} BY <1>2
<1>6. \A p : p # q => After(p) = Of(p) BY <1>2
<1>7. \A u \in DOMAIN queries \ {t} : queries[u].id # q BY <1>b, <1>1
<1>8. Cardinality(After(q)) = queries[t].numSubscribers - 1
  <2>1. Cardinality(Of(q) \ {id}) = Cardinality(Of(q)) - 1
    <3>. HIDE DEF Of, q
    <3>. QED BY <1>3, <1>4, FS_RemoveElement
  <2>2. Cardinality(Of(q)) = queries[t].numSubscribers
    <3>. HIDE DEF Of
    <3>. QED BY <1>a, <1>1
  <2>. HIDE DEF Of, After, q, t
  <2>. QED BY <1>5, <2>1, <2>2
<1>9. CASE UnsubscribeShared(id, t)
  <2>1. /\ queryIDToToken' = queryIDToToken
        /\ DOMAIN queries' = DOMAIN queries
        /\ \A u \in DOMAIN queries \ {t} : queries'[u] = queries[u]
        /\ queries'[t].id = q
        /\ queries'[t].numSubscribers = queries[t].numSubscribers - 1
        /\ queries'[t].nextSubscriberIdx = queries[t].nextSubscriberIdx
        /\ queries[t].numSubscribers > 1
    BY <1>0, <1>1, <1>9 DEF UnsubscribeShared, TypeOK, QueryTypes
  <2>2. ASSUME NEW u \in DOMAIN queries'
        PROVE  /\ queries'[u].id \in DOMAIN queryIDToToken'
               /\ queryIDToToken'[queries'[u].id] = u
               /\ queries'[u].numSubscribers > 0
               /\ queries'[u].numSubscribers = Cardinality(After(queries'[u].id))
    <3>. HIDE DEF Of, After, q
    <3>1. CASE u = t
      <4>1. queries'[u].id = q /\ queries'[u].numSubscribers = queries[t].numSubscribers - 1
        BY <2>1, <3>1
      <4>2. Cardinality(After(queries'[u].id)) = queries'[u].numSubscribers
        BY <1>8, <4>1
      <4>3. queries[t].numSubscribers \in Nat /\ queries[t].numSubscribers > 1
        <5>1. queries[t].numSubscribers \in Nat BY <1>b, <1>1
        <5>. QED BY <2>1, <5>1
      <4>4. queries'[u].numSubscribers > 0 BY <4>1, <4>3
      <4>5. q \in DOMAIN queryIDToToken' /\ queryIDToToken'[q] = t BY <1>1, <2>1
      <4>. HIDE DEF t
      <4>6. queries'[u].id \in DOMAIN queryIDToToken' /\ queryIDToToken'[queries'[u].id] = u
        BY <3>1, <4>1, <4>5
      <4>. QED BY <4>2, <4>4, <4>6
    <3>2. CASE u # t
      <4>1. u \in DOMAIN queries /\ queries'[u] = queries[u] /\ queries[u].id # q
        BY <1>7, <2>1, <3>2
      <4>2. After(queries'[u].id) = Of(queries[u].id) BY <1>6, <4>1
      <4>3. Cardinality(After(queries'[u].id)) = queries'[u].numSubscribers
        BY <1>a, <4>1, <4>2
      <4>. QED BY <1>b, <2>1, <4>1, <4>3
    <3>. QED BY <3>1, <3>2
  <2>3. \A p \in DOMAIN queryIDToToken' :
          queryIDToToken'[p] \in DOMAIN queries' /\ queries'[queryIDToToken'[p]].id = p
    BY <1>c, <1>1, <2>1
  <2>4. ASSUME NEW s \in subscribers'
        PROVE  /\ s[1] \in DOMAIN queryIDToToken'
               /\ s[2] <= queries'[queryIDToToken'[s[1]]].nextSubscriberIdx
    <3>1. s \in subscribers BY <1>2
    <3>2. queryIDToToken[s[1]] \in DOMAIN queries BY <1>c, <1>d, <3>1
    <3>3. queries'[queryIDToToken[s[1]]].nextSubscriberIdx
            = queries[queryIDToToken[s[1]]].nextSubscriberIdx
      BY <2>1, <3>2
    <3>. QED BY <1>d, <2>1, <3>1, <3>3
  <2>. QED BY <2>2, <2>3, <2>4 DEF SubscriptionsConsistent
<1>10. CASE UnsubscribeLast(id, t)
  <2>1. /\ DOMAIN queries' = DOMAIN queries \ {t}
        /\ DOMAIN queryIDToToken' = DOMAIN queryIDToToken \ {q}
        /\ \A u \in DOMAIN queries \ {t} : queries'[u] = queries[u]
        /\ \A p \in DOMAIN queryIDToToken \ {q} : queryIDToToken'[p] = queryIDToToken[p]
        /\ queries[t].numSubscribers <= 1
    BY <1>10 DEF UnsubscribeLast, Without, Restrict
  <2>2. After(q) = {}
    <3>1. Cardinality(After(q)) = 0
      <4>. HIDE DEF After, q, t
      <4>1. queries[t].numSubscribers \in Nat /\ queries[t].numSubscribers > 0 BY <1>b, <1>1
      <4>2. queries[t].numSubscribers = 1 BY <2>1, <4>1
      <4>. QED BY <1>8, <4>2
    <3>2. IsFiniteSet(After(q))
      <4>. HIDE DEF After, Of, q
      <4>. QED BY <1>3, <1>5, FS_RemoveElement
    <3>. HIDE DEF After, q
    <3>. QED BY <3>1, <3>2, FS_EmptySet
  <2>3. ASSUME NEW u \in DOMAIN queries'
        PROVE  /\ queries'[u].id \in DOMAIN queryIDToToken'
               /\ queryIDToToken'[queries'[u].id] = u
               /\ queries'[u].numSubscribers > 0
               /\ queries'[u].numSubscribers = Cardinality(After(queries'[u].id))
    <3>. HIDE DEF Of, After, q, t
    <3>1. u \in DOMAIN queries /\ queries'[u] = queries[u] /\ queries[u].id # q
      BY <1>7, <2>1
    <3>2. After(queries'[u].id) = Of(queries[u].id) BY <1>6, <3>1
    <3>3. Cardinality(After(queries'[u].id)) = queries'[u].numSubscribers
      BY <1>a, <3>1, <3>2
    <3>. QED BY <1>b, <2>1, <3>1, <3>3
  <2>4. \A p \in DOMAIN queryIDToToken' :
          queryIDToToken'[p] \in DOMAIN queries' /\ queries'[queryIDToToken'[p]].id = p
    <3>. HIDE DEF q, t
    <3>. SUFFICES ASSUME NEW p \in DOMAIN queryIDToToken'
                  PROVE  /\ queryIDToToken'[p] \in DOMAIN queries'
                         /\ queries'[queryIDToToken'[p]].id = p
      OBVIOUS
    <3>1. p \in DOMAIN queryIDToToken /\ p # q /\ queryIDToToken'[p] = queryIDToToken[p]
      BY <2>1
    <3>2. queryIDToToken[p] \in DOMAIN queries /\ queries[queryIDToToken[p]].id = p
      BY <1>c, <3>1
    <3>3. queryIDToToken[p] # t BY <1>1, <3>1, <3>2
    <3>4. /\ queryIDToToken[p] \in DOMAIN queries'
          /\ queries'[queryIDToToken[p]] = queries[queryIDToToken[p]]
      BY <2>1, <3>2, <3>3
    <3>. QED BY <3>1, <3>2, <3>4
  <2>5. ASSUME NEW s \in subscribers'
        PROVE  /\ s[1] \in DOMAIN queryIDToToken'
               /\ s[2] <= queries'[queryIDToToken'[s[1]]].nextSubscriberIdx
    <3>1. s \in subscribers /\ s[1] # q BY <1>2, <2>2
    <3>2. s[1] \in DOMAIN queryIDToToken /\ queryIDToToken[s[1]] \in DOMAIN queries \ {t}
      BY <1>c, <1>d, <1>1, <3>1
    <3>. QED BY <1>d, <2>1, <3>1, <3>2
  <2>. QED BY <2>3, <2>4, <2>5 DEF SubscriptionsConsistent
<1>. QED BY <1>9, <1>10 DEF Unsubscribe

\* Only Subscribe and Unsubscribe touch the query set; every step keeps it consistent.
LEMMA NextConsistent ==
  ASSUME TypeAndSubscriptions, [Next]_vars
  PROVE  SubscriptionsConsistent'
<1>1. ASSUME NEW s \in Spelling, Subscribe(s) PROVE SubscriptionsConsistent'
  BY <1>1, SubscribeConsistent
<1>2. ASSUME NEW id \in subscribers, Unsubscribe(id) PROVE SubscriptionsConsistent'
  BY <1>2, UnsubscribeConsistent
<1>3. ASSUME UNCHANGED queryVars PROVE SubscriptionsConsistent'
  <2>1. SubscriptionsConsistent BY DEF TypeAndSubscriptions
  <2>2. queries' = queries /\ queryIDToToken' = queryIDToToken /\ subscribers' = subscribers
    BY <1>3 DEF queryVars
  <2>3. \A q : {s \in subscribers' : s[1] = q} = {s \in subscribers : s[1] = q} BY <2>2
  <2>4. /\ \A t \in DOMAIN queries' :
             /\ queries'[t].id \in DOMAIN queryIDToToken' /\ queryIDToToken'[queries'[t].id] = t
             /\ queries'[t].numSubscribers > 0
             /\ queries'[t].numSubscribers = Cardinality({s \in subscribers' : s[1] = queries'[t].id})
    BY <2>1, <2>2, <2>3 DEF SubscriptionsConsistent
  <2>5. \A q \in DOMAIN queryIDToToken' :
          queryIDToToken'[q] \in DOMAIN queries' /\ queries'[queryIDToToken'[q]].id = q
    BY <2>1, <2>2 DEF SubscriptionsConsistent
  <2>6. \A s \in subscribers' : /\ s[1] \in DOMAIN queryIDToToken'
                                /\ s[2] <= queries'[queryIDToToken'[s[1]]].nextSubscriberIdx
    BY <2>1, <2>2 DEF SubscriptionsConsistent
  <2>. QED BY <2>4, <2>5, <2>6 DEF SubscriptionsConsistent
<1>4. CASE Next /\ ~(\E s \in Spelling : Subscribe(s)) /\ ~(\E id \in subscribers : Unsubscribe(id))
  <2>1. (\E tok \in Auth : SetAuth(tok)) \/ ClearAuth \/ (\E tok \in AuthToken : SetAuthCallback(tok))
          => UNCHANGED queryVars
    BY DEF SetAuth, ClearAuth, SetAuthCallback, queueAuth
  <2>2. (\E update \in OptimisticUpdate \cup {NoUpdate} : Mutation(update)) \/ Action
          => UNCHANGED queryVars
    BY DEF Mutation, Action
  <2>3. Drive => UNCHANGED queryVars
    BY DEF Drive, PopNextMessage, RefreshAuthForReconnect, queueAuth, RestartForReconnect
  <2>4. Receive => UNCHANGED queryVars
    BY DEF Receive, receiveTransition, receiveMutationResponse, receiveActionResponse,
       receiveErrorMessage, RejectMessage
  <2>. QED BY <1>3, <1>4, <2>1, <2>2, <2>3, <2>4 DEF Next, Call
<1>5. CASE UNCHANGED vars
  BY <1>3, <1>5 DEF vars
<1>. QED BY <1>1, <1>2, <1>4, <1>5

\* In every reachable state of baseclient.Client every variable has its type, and
\* the query set agrees with its subscribers.  The two are inductive together:
\* Unsubscribe is well typed only because a live subscriber's query exists, and
\* the rebuilt queue only because the active queries are finitely many.
THEOREM TypesAndSubscriptionsInvariant == Spec => []TypeAndSubscriptions
<1>1. Init => TypeAndSubscriptions
  <2>1. Init => SubscriptionsConsistent
    BY DEF Init, New, SubscriptionsConsistent
  <2>. QED BY <2>1, InitType DEF TypeAndSubscriptions
<1>2. TypeAndSubscriptions /\ [Next]_vars => TypeAndSubscriptions'
  BY NextType, NextConsistent DEF TypeAndSubscriptions
<1>. QED BY <1>1, <1>2, PTL DEF Spec

\* Type correctness of the client for every query set, history and server.
THEOREM TypeInvariant == Spec => []TypeOK
<1>1. TypeAndSubscriptions => TypeOK BY DEF TypeAndSubscriptions
<1>. QED BY <1>1, TypesAndSubscriptionsInvariant, PTL

\* Reference counting of subscriptions is exact: a query is in the query set as
\* long as it has a subscriber and no longer, so the two error returns in the middle
\* of Unsubscribe are never taken.
THEOREM SubscriptionsInvariant == Spec => []SubscriptionsConsistent
<1>1. TypeAndSubscriptions => SubscriptionsConsistent BY DEF TypeAndSubscriptions
<1>. QED BY <1>1, TypesAndSubscriptionsInvariant, PTL

=============================================================================
