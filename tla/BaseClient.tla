----------------------------- MODULE BaseClient -----------------------------
(***************************************************************************)
(* The sync state machine of package baseclient: the query set and its     *)
(* subscribers, the outgoing message queue, the tracked mutations and      *)
(* actions, the identity, and the query results with the optimistic        *)
(* updates of the pending mutations laid over them.                        *)
(*                                                                         *)
(* Every exported operation of baseclient.Client that changes state is one *)
(* action.  The machine is sequential: its callers hold a lock.            *)
(***************************************************************************)
EXTENDS Integers, Sequences, FiniteSets, Functions

CONSTANTS
  Spelling,        \* the (path, arguments) pairs an application subscribes to
  Canonical,       \* canonicalQuery: the query token of each spelling
  Auth,            \* the user and admin identities an application presents
  NoAuth,          \* the token of AuthTokenNone
  Untyped,         \* an AuthToken whose TokenType is empty
  NoFetcher,       \* a nil authFetcher
  Callback,        \* an authFetcher that asks the application every time
  NoUpdate,        \* a mutation without an optimistic update
  completedRequestRetentionLimit,
  MaxQueryID,      \* bound: queries ever created
  MaxSubscriberIdx,\* bound: subscribers ever created for one query
  MaxRequestID,    \* bound: mutations and actions ever issued
  MaxIdentity,     \* bound: identity changes in one session
  UpdateOps,       \* bound: what the optimistic updates of a run may do
  Version          \* bound: the state versions a server may name

ASSUME CanonicalAssumption == Canonical \in [Spelling -> Range(Canonical)]
ASSUME RetentionAssumption == completedRequestRetentionLimit \in Int
ASSUME BoundsAssumption ==
  MaxQueryID \in Nat /\ MaxSubscriberIdx \in Nat \ {0} /\ MaxRequestID \in Nat /\ MaxIdentity \in Nat
ASSUME SentinelAssumption ==
  /\ {NoAuth, Untyped} \cap Auth = {}
  /\ {NoFetcher, Callback} \cap (Auth \cup {NoAuth, Untyped}) = {}
  /\ NoFetcher # Callback /\ NoAuth # Untyped

ASSUME UpdateAssumption == UpdateOps \subseteq {"mark", "set", "hide", "strict"}
ASSUME VersionAssumption == Version \subseteq [querySet : Nat, identity : Nat, ts : Nat]

VARIABLES
  nextQueryID,
  queries,         \* token -> its localBaseQuery
  queryIDToToken,
  subscribers,     \* the live SubscriberIDs, <<query id, index>>
  querySetVersion,
  identityVersion,
  remoteVersion,
  maxObservedTimestamp,
  authFetcher,
  outgoing,
  serverResults,   \* query id -> the server's last result
  results,         \* serverResults under the pending optimistic updates
  nextRequestID,
  requests,        \* request id -> its trackedSyncRequest
  completedMutations, completedMutationOrder, mutationResults,
  actionResults, actionResultOrder

(***************************************************************************)
(* Observers of the code: what the callers have taken from outgoing since  *)
(* the last restart (sentActions: ever), and whether the last              *)
(* ReceiveMessage or RestartForReconnect returned an error.                *)
(***************************************************************************)
VARIABLES sentQuerySet, sentQueries, sentIdentity, sentRequests, sentActions,
          receiveFailed, restartFailed

queryVars == <<nextQueryID, queries, queryIDToToken, subscribers>>
resultVars == <<serverResults, results>>
requestVars == <<nextRequestID, requests>>
mutationMemory == <<completedMutations, completedMutationOrder, mutationResults>>
actionMemory == <<actionResults, actionResultOrder>>
remoteVars == <<remoteVersion, maxObservedTimestamp>>
sentVars == <<sentQuerySet, sentQueries, sentIdentity, sentRequests, sentActions>>
errVars == <<receiveFailed, restartFailed>>
vars == <<queryVars, querySetVersion, identityVersion, remoteVars, authFetcher,
          outgoing, resultVars, requestVars, mutationMemory, actionMemory,
          sentVars, errVars>>

-----------------------------------------------------------------------------
(* Data *)

Token == Range(Canonical)
QueryID == 0 .. MaxQueryID - 1
RequestID == 0 .. MaxRequestID - 1
AuthToken == Auth \cup {NoAuth, Untyped}

NoTS == -1                           \* a nil *SyncTimestamp
StateVersion == [querySet : Nat, identity : Nat, ts : Nat]
ZeroVersion == [querySet |-> 0, identity |-> 0, ts |-> 0]

\* A query value is a set of marks, so that one can tell whose writes it shows.
FunctionResult == [ok : BOOLEAN, value : SUBSET Nat]
ValueResult(v) == [ok |-> TRUE, value |-> v]
ErrorResult == [ok |-> FALSE, value |-> {}]
functionResultFromResponse(success) == IF success THEN ValueResult({}) ELSE ErrorResult

\* What a callback given to WithOptimisticUpdate may do to one query: add its mark
\* to the value it reads, set a value whatever is there, hide the result, or fail
\* when there is no value.
OptimisticUpdate == [op : UpdateOps, token : Token]

Request == [kind : {"Mutation", "Action"}, update : OptimisticUpdate \cup {NoUpdate},
            result : FunctionResult, hasResult : BOOLEAN, ts : Nat \cup {NoTS}]
NewRequest(kind, update) ==
  [kind |-> kind, update |-> update, result |-> ErrorResult, hasResult |-> FALSE, ts |-> NoTS]

QuerySetAdd(q, t) == [op |-> "Add", id |-> q, token |-> t]
QuerySetRemove(q, t) == [op |-> "Remove", id |-> q, token |-> t]
QuerySetModification == [op : {"Add", "Remove"}, id : Nat, token : Token]

\* The queries a message adds (op = "Add") or removes (op = "Remove").
Touched(msg, op) ==
  IF msg.type = "ModifyQuerySet"
  THEN {msg.mods[k].id : k \in {k \in DOMAIN msg.mods : msg.mods[k].op = op}}
  ELSE {}

ModifyQuerySet(base, mods) ==
  [type |-> "ModifyQuerySet", base |-> base, new |-> base + 1, mods |-> mods]
Authenticate(base, tok) == [type |-> "Authenticate", base |-> base, token |-> tok]
RequestMessage(kind, id) == [type |-> kind, id |-> id]
ClientMessage ==
  [type : {"ModifyQuerySet"}, base : Nat, new : Nat, mods : Seq(QuerySetModification)]
    \cup [type : {"Authenticate"}, base : Nat, token : Auth \cup {NoAuth}]
    \cup [type : {"Mutation", "Action"}, id : Nat]

\* Maps: f with the entries of g set, f with one entry set, f with keys deleted.
With(f, g) ==
  [x \in DOMAIN f \cup DOMAIN g |-> IF x \in DOMAIN g THEN g[x] ELSE f[x]]
Put(f, k, v) == [x \in DOMAIN f \cup {k} |-> IF x = k THEN v ELSE f[x]]
Without(f, S) == Restrict(f, DOMAIN f \ S)

Mutations(reqs) == {id \in DOMAIN reqs : reqs[id].kind = "Mutation"}
Actions(reqs) == {id \in DOMAIN reqs : reqs[id].kind = "Action"}
MaxOf(a, b) == IF a < b THEN b ELSE a

\* The sequences sort.Slice makes of the elements of S with the order Before.
Sorted(S, Before(_, _)) ==
  {s \in [1 .. Cardinality(S) -> S] :
     Range(s) = S /\ \A i, j \in DOMAIN s : i < j => Before(s[i], s[j])}
SortedById(S) == Sorted(S, <)

-----------------------------------------------------------------------------
(* The optimistic overlay.  A store is [res, err]: the results the callbacks *)
(* have produced so far, and whether one of them returned an error.          *)

StoreHasValue(qs, store, t) ==
  t \in DOMAIN qs /\ qs[t].id \in DOMAIN store.res /\ store.res[qs[t].id].ok

StoreSetQuery(qs, store, t, v) ==
  IF t \in DOMAIN qs
  THEN [store EXCEPT !.res = Put(@, qs[t].id, ValueResult(v))]
  ELSE store

StoreSetQueryLoading(qs, store, t) ==
  IF t \in DOMAIN qs THEN [store EXCEPT !.res = Without(@, {qs[t].id})] ELSE store

ApplyUpdate(qs, store, id, update) ==
  CASE update.op = "hide" -> StoreSetQueryLoading(qs, store, update.token)
    [] update.op = "set" -> StoreSetQuery(qs, store, update.token, {id})
    [] update.op \in {"mark", "strict"} /\ StoreHasValue(qs, store, update.token) ->
         StoreSetQuery(qs, store, update.token,
                       store.res[qs[update.token].id].value \cup {id})
    [] update.op = "mark" /\ ~StoreHasValue(qs, store, update.token) -> store
    [] update.op = "strict" /\ ~StoreHasValue(qs, store, update.token) ->
         [store EXCEPT !.err = TRUE]

\* The updates of the mutations in reqs, in request-id order, over server.
optimisticResultsWith(server, qs, reqs) ==
  LET fold[n \in 0 .. MaxRequestID] ==
        IF n = 0 THEN [res |-> server, err |-> FALSE]
        ELSE IF n - 1 \in Mutations(reqs) /\ reqs[n - 1].update # NoUpdate
             THEN ApplyUpdate(qs, fold[n - 1], n - 1, reqs[n - 1].update)
             ELSE fold[n - 1]
  IN fold[MaxRequestID]

-----------------------------------------------------------------------------
(* The query set *)

\* Mutant: the new subscriber is not counted.
SubscribeExistingUncounted(t) ==
  /\ t \in DOMAIN queries
  /\ queries[t].nextSubscriberIdx < MaxSubscriberIdx
  /\ queries' = [queries EXCEPT ![t].nextSubscriberIdx = @ + 1]
  /\ subscribers' = subscribers \cup {<<queries[t].id, queries[t].nextSubscriberIdx + 1>>}
  /\ UNCHANGED <<nextQueryID, queryIDToToken, querySetVersion, outgoing>>

SubscribeExisting(t) ==
  /\ t \in DOMAIN queries
  /\ queries[t].nextSubscriberIdx < MaxSubscriberIdx
  /\ queries' = [queries EXCEPT ![t] = [id |-> @.id, numSubscribers |-> @.numSubscribers + 1,
                                        nextSubscriberIdx |-> @.nextSubscriberIdx + 1]]
  /\ subscribers' = subscribers \cup {<<queries[t].id, queries[t].nextSubscriberIdx + 1>>}
  /\ UNCHANGED <<nextQueryID, queryIDToToken, querySetVersion, outgoing>>

SubscribeNew(t) ==
  /\ t \notin DOMAIN queries
  /\ nextQueryID < MaxQueryID
  /\ nextQueryID' = nextQueryID + 1
  /\ queries' = Put(queries, t, [id |-> nextQueryID, numSubscribers |-> 1,
                                 nextSubscriberIdx |-> 1])
  /\ queryIDToToken' = Put(queryIDToToken, nextQueryID, t)
  /\ subscribers' = subscribers \cup {<<nextQueryID, 1>>}
  /\ querySetVersion' = querySetVersion + 1
  /\ outgoing' = Append(outgoing,
                        ModifyQuerySet(querySetVersion, <<QuerySetAdd(nextQueryID, t)>>))

Subscribe(spelling) ==
  /\ SubscribeExisting(Canonical[spelling]) \/ SubscribeNew(Canonical[spelling])
  /\ UNCHANGED <<identityVersion, remoteVars, authFetcher, resultVars, requestVars,
                 mutationMemory, actionMemory, sentVars, errVars>>

UnsubscribeShared(id, t) ==
  /\ queries[t].numSubscribers > 1
  /\ queries' = [queries EXCEPT ![t].numSubscribers = @ - 1]
  /\ UNCHANGED <<queryIDToToken, resultVars, querySetVersion, outgoing>>

UnsubscribeLast(id, t) ==
  /\ queries[t].numSubscribers <= 1
  /\ queries' = Without(queries, {t})
  /\ queryIDToToken' = Without(queryIDToToken, {id[1]})
  /\ serverResults' = Without(serverResults, {id[1]})
  /\ results' = Without(results, {id[1]})
  /\ querySetVersion' = querySetVersion + 1
  /\ outgoing' = Append(outgoing,
                        ModifyQuerySet(querySetVersion, <<QuerySetRemove(id[1], t)>>))

\* An unknown subscriber is an error that changes nothing.  The other two error
\* returns of the code cannot be taken: SubscriptionsConsistent.
Unsubscribe(id) ==
  /\ id \in subscribers
  /\ subscribers' = subscribers \ {id}
  /\ LET t == queryIDToToken[id[1]] IN UnsubscribeShared(id, t) \/ UnsubscribeLast(id, t)
  /\ UNCHANGED <<nextQueryID, identityVersion, remoteVars, authFetcher, requestVars,
                 mutationMemory, actionMemory, sentVars, errVars>>

-----------------------------------------------------------------------------
(* The identity *)

\* Mutant: an empty token type goes out as it is.
NormalizedTokenKept(tok) == tok

NormalizedToken(tok) == IF tok = Untyped THEN NoAuth ELSE tok

queueAuth(tok) ==
  /\ identityVersion < MaxIdentity
  /\ identityVersion' = identityVersion + 1
  /\ outgoing' = Append(outgoing, Authenticate(identityVersion, NormalizedToken(tok)))
  /\ UNCHANGED <<queryVars, querySetVersion, remoteVars, resultVars, requestVars,
                 mutationMemory, actionMemory, sentVars, errVars>>

\* SetAuth and SetAdminAuth: the token becomes a fetcher that always returns it.
SetAuth(tok) == authFetcher' = tok /\ queueAuth(tok)

\* ClearAuth, and SetAuthCallback with a nil fetcher.
ClearAuth == authFetcher' = NoFetcher /\ queueAuth(NoAuth)

\* fetcher(false) returned tok; when it returns an error nothing changes.
SetAuthCallback(tok) == authFetcher' = Callback /\ queueAuth(tok)

-----------------------------------------------------------------------------
(* Requests *)

\* A callback that fails now makes Mutation return before it changes anything.
Mutation(update) ==
  LET request == NewRequest("Mutation", update)
      tracked == Put(requests, nextRequestID, request)
      overlay == optimisticResultsWith(serverResults, queries, tracked)
  IN /\ nextRequestID < MaxRequestID
     /\ update # NoUpdate => ~overlay.err
     /\ results' = IF update # NoUpdate THEN overlay.res ELSE results
     /\ nextRequestID' = nextRequestID + 1
     /\ requests' = tracked
     /\ outgoing' = Append(outgoing, RequestMessage("Mutation", nextRequestID))
     /\ UNCHANGED <<queryVars, querySetVersion, identityVersion, remoteVars, authFetcher,
                    serverResults, mutationMemory, actionMemory, sentVars, errVars>>

Action ==
  /\ nextRequestID < MaxRequestID
  /\ nextRequestID' = nextRequestID + 1
  /\ requests' = Put(requests, nextRequestID, NewRequest("Action", NoUpdate))
  /\ outgoing' = Append(outgoing, RequestMessage("Action", nextRequestID))
  /\ UNCHANGED <<queryVars, querySetVersion, identityVersion, remoteVars, authFetcher,
                 resultVars, mutationMemory, actionMemory, sentVars, errVars>>

PopNextMessage ==
  /\ outgoing # << >>
  /\ outgoing' = Tail(outgoing)
  /\ LET msg == Head(outgoing) IN
     /\ sentQuerySet' = IF msg.type = "ModifyQuerySet" THEN msg.new ELSE sentQuerySet
     /\ sentQueries' = IF msg.type = "ModifyQuerySet"
                       THEN (sentQueries \cup Touched(msg, "Add")) \ Touched(msg, "Remove")
                       ELSE sentQueries
     /\ sentIdentity' = IF msg.type = "Authenticate" THEN msg.base + 1 ELSE sentIdentity
     /\ sentRequests' = IF msg.type \in {"Mutation", "Action"}
                        THEN sentRequests \cup {msg.id} ELSE sentRequests
     /\ sentActions' = IF msg.type = "Action" THEN sentActions \cup {msg.id} ELSE sentActions
  /\ UNCHANGED <<queryVars, querySetVersion, identityVersion, remoteVars, authFetcher,
                 resultVars, requestVars, mutationMemory, actionMemory, errVars>>

-----------------------------------------------------------------------------
(* Completed requests are remembered up to a limit, the oldest evicted.      *)

normalizedCompletedRequestRetentionLimit == MaxOf(1, completedRequestRetentionLimit)

Evicted(order) ==
  {order[i] : i \in 1 .. Len(order) - normalizedCompletedRequestRetentionLimit}
Retained(order) ==
  SubSeq(order, MaxOf(1, Len(order) - normalizedCompletedRequestRetentionLimit + 1), Len(order))

\* Mutant: eviction forgets the id but keeps its result.
rememberMutationResultsLeaky(ids, reqs) ==
  LET order == completedMutationOrder \o ids
  IN /\ completedMutationOrder' = Retained(order)
     /\ completedMutations' = (completedMutations \cup Range(ids)) \ Evicted(order)
     /\ mutationResults' = With(mutationResults, [id \in Range(ids) |-> reqs[id].result])

\* rememberMutationResult for each of ids, in that order.
rememberMutationResults(ids, reqs) ==
  LET order == completedMutationOrder \o ids
  IN /\ completedMutationOrder' = Retained(order)
     /\ completedMutations' = (completedMutations \cup Range(ids)) \ Evicted(order)
     /\ mutationResults' = Without(With(mutationResults, [id \in Range(ids) |-> reqs[id].result]),
                                   Evicted(order))

rememberActionResults(ids, result) ==
  LET order == actionResultOrder \o ids
  IN /\ actionResultOrder' = Retained(order)
     /\ actionResults' = Without(With(actionResults, [id \in Range(ids) |-> result]),
                                 Evicted(order))

observeTimestamp(ts) == maxObservedTimestamp' = MaxOf(maxObservedTimestamp, ts)

-----------------------------------------------------------------------------
(* ReceiveMessage, one action per kind of server message *)

\* The error returns that leave the state alone.
RejectMessage ==
  /\ receiveFailed' = TRUE
  /\ UNCHANGED <<queryVars, querySetVersion, identityVersion, remoteVars, authFetcher,
                 outgoing, resultVars, requestVars, mutationMemory, actionMemory,
                 sentVars, restartFailed>>

\* Mutants: no isActiveQuery test; a result that is present is not replaced.
applyStateModificationsToAll(mods) == With(Without(serverResults, mods.removed), mods.updated)
applyStateModificationsOnce(mods) ==
  With([q \in DOMAIN mods.updated \cap DOMAIN queryIDToToken |-> mods.updated[q]],
       Without(serverResults, mods.removed))

\* mods = [updated, removed]: the result of each query the transition updates or
\* fails, and the queries it removes; a query occurs at most once.
applyStateModifications(mods) ==
  With(Without(serverResults, mods.removed),
       [q \in DOMAIN mods.updated \cap DOMAIN queryIDToToken |-> mods.updated[q]])

\* Mutants: any transition completes an answered mutation; only a later one does.
CompletedByAny(ts) == {id \in Mutations(requests) : requests[id].hasResult /\ requests[id].ts # NoTS}
CompletedByLater(ts) ==
  {id \in Mutations(requests) :
     requests[id].hasResult /\ requests[id].ts # NoTS /\ requests[id].ts < ts}

\* completeMutationsThrough
CompletedBy(ts) ==
  {id \in Mutations(requests) :
     requests[id].hasResult /\ requests[id].ts # NoTS /\ requests[id].ts <= ts}

receiveTransition(start, end, mods) ==
  \/ start # remoteVersion /\ RejectMessage
  \/ LET server == applyStateModifications(mods)
         done == CompletedBy(end.ts)
         overlay == optimisticResultsWith(server, queries, Without(requests, done))
     IN /\ start = remoteVersion
        /\ serverResults' = server
        /\ remoteVersion' = end
        /\ observeTimestamp(end.ts)
        /\ \E ids \in SortedById(done) : rememberMutationResults(ids, requests)
        /\ requests' = Without(requests, done)
        /\ results' = IF overlay.err THEN Without(results, mods.removed) ELSE overlay.res
        /\ receiveFailed' = overlay.err
        /\ UNCHANGED <<queryVars, querySetVersion, identityVersion, authFetcher, outgoing,
                       nextRequestID, actionMemory, sentVars, restartFailed>>

\* A response to a mutation that has already completed is ignored.
MutationResponseDuplicate(id, ts) ==
  /\ id \notin DOMAIN requests /\ id \in completedMutations
  /\ IF ts # NoTS THEN observeTimestamp(ts) ELSE UNCHANGED maxObservedTimestamp
  /\ receiveFailed' = FALSE
  /\ UNCHANGED <<requests, results, mutationMemory>>

\* Mutant: a failed mutation keeps its optimistic update until the next transition.
MutationResponseFailureLate(id, ts) ==
  /\ id \in Mutations(requests)
  /\ rememberMutationResults(<<id>>, [requests EXCEPT ![id].result = ErrorResult])
  /\ requests' = Without(requests, {id})
  /\ receiveFailed' = FALSE
  /\ IF ts # NoTS THEN observeTimestamp(ts) ELSE UNCHANGED maxObservedTimestamp
  /\ UNCHANGED results

\* A failed mutation completes at once and its optimistic update is rolled back.
MutationResponseFailure(id, ts) ==
  LET answered == [requests EXCEPT ![id].result = functionResultFromResponse(FALSE),
                                   ![id].hasResult = TRUE, ![id].ts = ts]
      overlay == optimisticResultsWith(serverResults, queries, Without(requests, {id}))
      rollback == requests[id].update # NoUpdate
  IN /\ id \in Mutations(requests)
     /\ rememberMutationResults(<<id>>, answered)
     /\ requests' = Without(requests, {id})
     /\ results' = IF rollback /\ ~overlay.err THEN overlay.res ELSE results
     /\ receiveFailed' = (rollback /\ overlay.err)
     /\ IF ts # NoTS /\ ~receiveFailed' THEN observeTimestamp(ts)
                                        ELSE UNCHANGED maxObservedTimestamp

\* A successful mutation waits for a transition at or past its timestamp.
MutationResponseSuccess(id, ts) ==
  /\ id \in Mutations(requests)
  /\ requests' = [requests EXCEPT ![id].result = functionResultFromResponse(TRUE),
                                  ![id].hasResult = TRUE, ![id].ts = ts]
  /\ receiveFailed' = (ts = NoTS)
  /\ IF ts # NoTS THEN observeTimestamp(ts) ELSE UNCHANGED maxObservedTimestamp
  /\ UNCHANGED <<results, mutationMemory>>

\* Mutant: a response to a completed mutation is an unknown request id.
receiveMutationResponseStrict(id, success, ts) ==
  \/ id \notin Mutations(requests) /\ RejectMessage
  \/ /\ \/ success /\ MutationResponseSuccess(id, ts)
        \/ ~success /\ MutationResponseFailure(id, ts)
     /\ UNCHANGED <<queryVars, querySetVersion, identityVersion, remoteVersion, authFetcher,
                    outgoing, serverResults, nextRequestID, actionMemory, sentVars,
                    restartFailed>>

receiveMutationResponse(id, success, ts) ==
  \/ id \notin Mutations(requests) \cup (completedMutations \ DOMAIN requests) /\ RejectMessage
  \/ /\ \/ MutationResponseDuplicate(id, ts)
        \/ success /\ MutationResponseSuccess(id, ts)
        \/ ~success /\ MutationResponseFailure(id, ts)
     /\ UNCHANGED <<queryVars, querySetVersion, identityVersion, remoteVersion, authFetcher,
                    outgoing, serverResults, nextRequestID, actionMemory, sentVars,
                    restartFailed>>

receiveActionResponse(id, success) ==
  \/ id \notin Actions(requests) /\ RejectMessage
  \/ /\ id \in Actions(requests)
     /\ rememberActionResults(<<id>>, functionResultFromResponse(success))
     /\ requests' = Without(requests, {id})
     /\ receiveFailed' = FALSE
     /\ UNCHANGED <<queryVars, querySetVersion, identityVersion, remoteVars, authFetcher,
                    outgoing, resultVars, nextRequestID, mutationMemory, sentVars,
                    restartFailed>>

\* AuthError, FatalError, TransitionChunk and unknown messages are all errors.
receiveErrorMessage == RejectMessage

-----------------------------------------------------------------------------
(* Reconnection *)

\* The tokens a call of the fetcher may return.
FetcherTokens == IF authFetcher = Callback THEN AuthToken ELSE {authFetcher}

RefreshAuthForReconnect(tok) ==
  /\ authFetcher # NoFetcher /\ tok \in FetcherTokens
  /\ UNCHANGED authFetcher
  /\ queueAuth(tok)

\* Mutant: a restart does not authenticate again.
RefreshedAuthNever == {<< >>}

\* The Authenticate messages RestartForReconnect may queue.
RefreshedAuth ==
  IF authFetcher = NoFetcher THEN {<< >>}
  ELSE {<<Authenticate(0, NormalizedToken(tok))>> : tok \in FetcherTokens}

\* One ModifyQuerySet that adds every active query again, by query id.
QueryBefore(t, u) == queries[t].id < queries[u].id

\* Mutant: a query that has no result yet is not added again.
replayQueryAddsAnswered ==
  {[i \in DOMAIN s |-> QuerySetAdd(queries[s[i]].id, s[i])] :
     s \in Sorted({t \in DOMAIN queries : queries[t].id \in DOMAIN serverResults}, QueryBefore)}

replayQueryAdds ==
  {[i \in DOMAIN s |-> QuerySetAdd(queries[s[i]].id, s[i])] :
     s \in Sorted(DOMAIN queries, QueryBefore)}

\* Mutant: the latest request first.
ReplayBeforeReversed(a, b) == a > b

\* Answered mutations go first, the latest timestamp first; then by request id.
ReplayBefore(a, b) ==
  LET left == requests[a].ts
      right == requests[b].ts
  IN \/ left # NoTS /\ (right = NoTS \/ left > right)
     \/ left = right /\ a < b

\* Mutants: an answered mutation is not sent again; actions are sent again too.
ReplayOngoingRequestsUnanswered ==
  {[i \in DOMAIN s |-> RequestMessage("Mutation", s[i])] :
     s \in Sorted({id \in Mutations(requests) : ~requests[id].hasResult}, ReplayBefore)}
ReplayOngoingRequestsAll ==
  {[i \in DOMAIN s |-> RequestMessage(requests[s[i]].kind, s[i])] :
     s \in Sorted(DOMAIN requests, ReplayBefore)}

ReplayOngoingRequests ==
  {[i \in DOMAIN s |-> RequestMessage("Mutation", s[i])] :
     s \in Sorted(Mutations(requests), ReplayBefore)}

cancelPendingActionsForReconnect ==
  /\ \E ids \in SortedById(Actions(requests)) : rememberActionResults(ids, ErrorResult)
  /\ requests' = Without(requests, Actions(requests))

\* Mutant: without a query to add, the query-set version is not reset.
RestartQueueStaleVersion ==
  \E auth \in RefreshedAuth, adds \in replayQueryAdds, replay \in ReplayOngoingRequests :
    /\ identityVersion' = Len(auth)
    /\ querySetVersion' = IF adds = << >> THEN querySetVersion ELSE 1
    /\ outgoing' = auth \o (IF adds = << >> THEN << >> ELSE <<ModifyQuerySet(0, adds)>>)
                        \o replay
    /\ restartFailed' = FALSE

RestartQueue ==
  \/ \E auth \in RefreshedAuth, adds \in replayQueryAdds, replay \in ReplayOngoingRequests :
       /\ identityVersion' = Len(auth)
       /\ querySetVersion' = IF adds = << >> THEN 0 ELSE 1
       /\ outgoing' = auth \o (IF adds = << >> THEN << >> ELSE <<ModifyQuerySet(0, adds)>>)
                           \o replay
       /\ restartFailed' = FALSE
  \/ /\ authFetcher = Callback   \* the callback returned an error
     /\ identityVersion' = 0 /\ querySetVersion' = 0
     /\ outgoing' = << >>
     /\ restartFailed' = TRUE

RestartForReconnect ==
  /\ remoteVersion' = ZeroVersion
  /\ cancelPendingActionsForReconnect
  /\ RestartQueue
  /\ sentQuerySet' = 0 /\ sentQueries' = {} /\ sentIdentity' = 0 /\ sentRequests' = {}
  /\ UNCHANGED <<queryVars, maxObservedTimestamp, authFetcher, resultVars, nextRequestID,
                 mutationMemory, sentActions, receiveFailed>>

-----------------------------------------------------------------------------
New ==
  /\ nextQueryID = 0 /\ nextRequestID = 0
  /\ queries = << >> /\ queryIDToToken = << >> /\ subscribers = {}
  /\ querySetVersion = 0 /\ identityVersion = 0
  /\ remoteVersion = ZeroVersion /\ maxObservedTimestamp = NoTS
  /\ authFetcher = NoFetcher
  /\ outgoing = << >>
  /\ serverResults = << >> /\ results = << >>
  /\ requests = << >>
  /\ completedMutations = {} /\ completedMutationOrder = << >> /\ mutationResults = << >>
  /\ actionResults = << >> /\ actionResultOrder = << >>
  /\ sentQuerySet = 0 /\ sentQueries = {} /\ sentIdentity = 0 /\ sentRequests = {} /\ sentActions = {}
  /\ receiveFailed = FALSE /\ restartFailed = FALSE

\* The calls of an application.
Call ==
  \/ \E s \in Spelling : Subscribe(s)
  \/ \E id \in subscribers : Unsubscribe(id)
  \/ \E tok \in Auth : SetAuth(tok)
  \/ ClearAuth
  \/ \E tok \in AuthToken : SetAuthCallback(tok)
  \/ \E update \in OptimisticUpdate \cup {NoUpdate} : Mutation(update)
  \/ Action

\* The calls of the connection manager that do not depend on the server.
Drive ==
  \/ PopNextMessage
  \/ \E tok \in FetcherTokens : RefreshAuthForReconnect(tok)
  \/ RestartForReconnect

\* The messages of an arbitrary server: any version, any modification of one
\* query, any response to any request, in any order.
ServerResult == {ValueResult({}), ErrorResult}
StateModifications ==
  {[updated |-> u, removed |-> {}] : u \in {<< >>} \cup UNION {[{q} -> ServerResult] : q \in QueryID}}
    \cup {[updated |-> << >>, removed |-> {q}] : q \in QueryID}
Timestamp == {v.ts : v \in Version}

Receive ==
  \/ \E start, end \in Version, mods \in StateModifications :
       receiveTransition(start, end, mods)
  \/ \E id \in RequestID, success \in BOOLEAN, ts \in Timestamp \cup {NoTS} :
       receiveMutationResponse(id, success, ts)
  \/ \E id \in RequestID, success \in BOOLEAN : receiveActionResponse(id, success)
  \/ receiveErrorMessage

Init == New
Next == Call \/ Drive \/ Receive
Spec == Init /\ [][Next]_vars

-----------------------------------------------------------------------------
(* Properties *)

QueryTypes ==
  /\ nextQueryID \in 0 .. MaxQueryID
  /\ DOMAIN queries \subseteq Token
  /\ queries \in [DOMAIN queries -> [id : Nat, numSubscribers : Nat, nextSubscriberIdx : Nat]]
  /\ DOMAIN queryIDToToken \subseteq 0 .. nextQueryID - 1
  /\ queryIDToToken \in [DOMAIN queryIDToToken -> Token]
  /\ subscribers \subseteq QueryID \X (1 .. MaxSubscriberIdx)
  /\ sentQueries \subseteq 0 .. nextQueryID - 1
VersionTypes ==
  /\ querySetVersion \in Nat /\ identityVersion \in Nat
  /\ remoteVersion \in StateVersion /\ maxObservedTimestamp \in Nat \cup {NoTS}
  /\ authFetcher \in AuthToken \cup {NoFetcher, Callback}
  /\ sentQuerySet \in Nat /\ sentIdentity \in Nat
RequestTypes ==
  /\ nextRequestID \in 0 .. MaxRequestID
  /\ DOMAIN requests \subseteq 0 .. nextRequestID - 1
  /\ requests \in [DOMAIN requests -> Request]
  /\ sentRequests \subseteq 0 .. nextRequestID - 1
  /\ sentActions \subseteq 0 .. nextRequestID - 1
MemoryTypes ==
  /\ completedMutations \subseteq 0 .. nextRequestID - 1
  /\ completedMutationOrder \in Seq(0 .. nextRequestID - 1)
  /\ mutationResults \in [DOMAIN mutationResults -> FunctionResult]
  /\ actionResultOrder \in Seq(0 .. nextRequestID - 1)
  /\ actionResults \in [DOMAIN actionResults -> FunctionResult]

\* A queued message names only queries and requests that have been created.
QueuedMessage ==
  {msg \in ClientMessage :
     /\ msg.type = "ModifyQuerySet" =>
          \A k \in DOMAIN msg.mods : msg.mods[k].id \in 0 .. nextQueryID - 1
     /\ msg.type \in {"Mutation", "Action"} => msg.id \in 0 .. nextRequestID - 1}

\* The type of every variable but results and receiveFailed, which come out of the
\* optimistic updates; ResultsOnlyForActiveQueries states the shape of results.
TypeOK ==
  /\ QueryTypes /\ VersionTypes /\ RequestTypes /\ MemoryTypes
  /\ outgoing \in Seq(QueuedMessage)
  /\ serverResults \in [DOMAIN serverResults -> FunctionResult]
  /\ restartFailed \in BOOLEAN

\* queries and queryIDToToken are inverse to each other, and numSubscribers is
\* the number of live subscribers of the query: the last Unsubscribe, and no
\* earlier one, takes the query out of the query set.
SubscriptionsConsistent ==
  /\ \A t \in DOMAIN queries :
       /\ queries[t].id \in DOMAIN queryIDToToken /\ queryIDToToken[queries[t].id] = t
       /\ queries[t].numSubscribers > 0
       /\ queries[t].numSubscribers = Cardinality({s \in subscribers : s[1] = queries[t].id})
  /\ \A q \in DOMAIN queryIDToToken :
       queryIDToToken[q] \in DOMAIN queries /\ queries[queryIDToToken[q]].id = q
  /\ \A s \in subscribers :
       /\ s[1] \in DOMAIN queryIDToToken
       /\ s[2] <= queries[queryIDToToken[s[1]]].nextSubscriberIdx

\* A result is kept only for an active query, whatever a late transition says
\* about a query that has been unsubscribed.
ResultsOnlyForActiveQueries ==
  /\ DOMAIN serverResults \subseteq DOMAIN queryIDToToken
  /\ DOMAIN results \subseteq DOMAIN queryIDToToken
  /\ results \in [DOMAIN results -> FunctionResult]
  /\ receiveFailed \in BOOLEAN

\* What readers see is the server's results under the optimistic updates of
\* exactly the pending mutations, replayed in the order they were issued: an
\* update is gone once its mutation has failed or has been overtaken by a
\* transition, and no other update goes with it.  Subscribe replays nothing, so a
\* query that the server has not answered may still be loading although a pending
\* update would set it; it never shows anything else.  (When an update refuses to
\* be replayed there is no such result, and the receiver returns its error.)
ResultsAreOverlay ==
  LET overlay == optimisticResultsWith(serverResults, queries, requests)
  IN ~overlay.err =>
       \A q \in DOMAIN queryIDToToken :
         \/ q \in DOMAIN results /\ q \in DOMAIN overlay.res /\ results[q] = overlay.res[q]
         \/ q \notin DOMAIN results /\ q \notin DOMAIN overlay.res
         \/ q \notin DOMAIN results /\ q \notin DOMAIN serverResults

Positions(type) == {i \in DOMAIN outgoing : outgoing[i].type = type}

\* The queued messages of a versioned kind carry the base versions from sent up
\* to current, each once and in order.
VersionsContiguous(type, sent, current) ==
  /\ \A i \in Positions(type) : outgoing[i].base \in sent .. current - 1
  /\ \A i, j \in Positions(type) : i < j => outgoing[i].base < outgoing[j].base
  /\ \A v \in sent .. current - 1 : \E i \in Positions(type) : outgoing[i].base = v

\* Whoever drains outgoing hands the server a gapless chain of query-set and of
\* identity versions that starts at 0 in every session and ends at the client's
\* own version, across restarts, failed restarts and calls made in between.
VersionChains ==
  /\ sentQuerySet <= querySetVersion /\ sentIdentity <= identityVersion
  /\ VersionsContiguous("ModifyQuerySet", sentQuerySet, querySetVersion)
  /\ VersionsContiguous("Authenticate", sentIdentity, identityVersion)
  /\ \A i \in Positions("ModifyQuerySet") : outgoing[i].new = outgoing[i].base + 1

QueuedChange(q, op) == {i \in DOMAIN outgoing : q \in Touched(outgoing[i], op)}

\* Once the queue is drained the server's query set is the set of active
\* queries: an active query is either known to it or queued to be added, and
\* is not queued to be removed; any other query it knows, or will know, is
\* queued to be removed afterwards.
QuerySetAgreement ==
  ~restartFailed =>
    \A q \in 0 .. nextQueryID - 1 :
      IF q \in DOMAIN queryIDToToken
      THEN /\ q \in sentQueries <=> QueuedChange(q, "Add") = {}
           /\ QueuedChange(q, "Remove") = {}
      ELSE \/ q \notin sentQueries /\ QueuedChange(q, "Add") = {}
           \/ \E i \in QueuedChange(q, "Remove") : \A j \in QueuedChange(q, "Add") : j < i

QueuedRequest(id) == {i \in DOMAIN outgoing :
                        outgoing[i].type \in {"Mutation", "Action"} /\ outgoing[i].id = id}

\* A request that has no outcome yet is on its way exactly once: queued, or
\* handed out since the last restart.  (A failed restart leaves the queue empty;
\* the next successful one must bring every mutation back.)
PendingRequestsOnTheWay ==
  \A id \in DOMAIN requests :
    \/ restartFailed /\ requests[id].kind = "Mutation"
    \/ id \in sentRequests /\ QueuedRequest(id) = {}
    \/ id \notin sentRequests /\ \E i \in QueuedRequest(id) : QueuedRequest(id) = {i}

\* An action is handed out at most once in the life of the client: reconnecting
\* cancels it, never replays it.
ActionsNeverResent ==
  \A i \in Positions("Action") :
    /\ outgoing[i].id \notin sentActions
    /\ \A j \in Positions("Action") : outgoing[i].id = outgoing[j].id => i = j

\* The three records of completed mutations agree, hold at most the limit, and
\* no request is both pending and completed.
CompletedMemoryConsistent ==
  /\ completedMutations = Range(completedMutationOrder)
  /\ DOMAIN mutationResults = completedMutations
  /\ DOMAIN actionResults = Range(actionResultOrder)
  /\ IsInjective(completedMutationOrder) /\ IsInjective(actionResultOrder)
  /\ Len(completedMutationOrder) <= normalizedCompletedRequestRetentionLimit
  /\ Len(actionResultOrder) <= normalizedCompletedRequestRetentionLimit
  /\ DOMAIN requests \cap (completedMutations \cup DOMAIN actionResults) = {}

Promise ==
  INSTANCE RequestPromises WITH
    issued <- nextRequestID,
    pending <- [id \in DOMAIN requests |-> requests[id].kind],
    committed <- [id \in {i \in DOMAIN requests : requests[i].hasResult} |-> requests[id].ts],
    outcomes <- [id \in DOMAIN mutationResults \cup DOMAIN actionResults |->
                   IF id \in DOMAIN mutationResults THEN mutationResults[id].ok ELSE actionResults[id].ok],
    snapshot <- remoteVersion.ts

\* Whatever the server sends and however often the client restarts, every request is
\* settled once: a mutation with success by the first transition at or past its
\* timestamp and by nothing else, with failure only by its own response; an action by
\* its response or by a restart.  A remembered outcome never changes.
RequestsKeepPromises == Promise!Spec

=============================================================================
