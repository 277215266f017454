----------------------- MODULE BaseClientRequestProofs -----------------------
(***************************************************************************)
(* The records of completed requests agree, and baseclient.Client keeps the *)
(* promises of RequestPromises, for every history of calls, restarts and    *)
(* server messages.                                                          *)
(***************************************************************************)
EXTENDS BaseClientProofs

Limit == normalizedCompletedRequestRetentionLimit

\* Appending to an order of completed requests what it does not hold yet and cutting
\* it to the limit keeps it free of repetitions, drops what was evicted and nothing
\* else, and keeps the request that came last.
LEMMA RetainedMemory ==
  ASSUME NEW S, NEW order \in Seq(S), NEW ids \in Seq(S), IsInjective(order), IsInjective(ids),
         Range(order) \cap Range(ids) = {}
  PROVE  LET all == order \o ids
         IN  /\ IsInjective(Retained(all)) /\ Len(Retained(all)) <= Limit
             /\ Range(Retained(all)) = (Range(order) \cup Range(ids)) \ Evicted(all)
             /\ Evicted(all) \subseteq Range(order) \cup Range(ids)
             /\ ids = << >> /\ Len(order) <= Limit => Evicted(all) = {}
             /\ ids # << >> => \E id \in Range(ids) : id \notin Evicted(all)
<1>. DEFINE all == order \o ids
            n == Len(all)
            m == MaxOf(1, n - Limit + 1)
            r == SubSeq(all, m, n)
<1>0. Limit \in Nat \ {0} BY LimitFact DEF Limit
<1>1. /\ Len(order) \in Nat /\ Len(ids) \in Nat /\ n = Len(order) + Len(ids)
      /\ DOMAIN order = 1 .. Len(order) /\ DOMAIN ids = 1 .. Len(ids) /\ DOMAIN all = 1 .. n
      /\ \A i \in 1 .. Len(order) : all[i] = order[i]
      /\ \A i \in 1 .. Len(ids) : all[Len(order) + i] = ids[i]
      /\ all \in Seq(S)
  OBVIOUS
<1>2. m \in Nat \ {0} /\ m >= n - Limit + 1 /\ (m = 1 \/ m = n - Limit + 1)
  BY <1>0, <1>1 DEF MaxOf
<1>3. \A i, j \in 1 .. n : all[i] = all[j] => i = j
  <2>. SUFFICES ASSUME NEW i \in 1 .. n, NEW j \in 1 .. n, all[i] = all[j] PROVE i = j
    OBVIOUS
  <2>1. CASE i <= Len(order) /\ j <= Len(order)
    BY <1>1, <2>1 DEF IsInjective
  <2>2. CASE i > Len(order) /\ j > Len(order)
    <3>1. /\ i - Len(order) \in 1 .. Len(ids) /\ j - Len(order) \in 1 .. Len(ids)
          /\ Len(order) + (i - Len(order)) = i /\ Len(order) + (j - Len(order)) = j
      BY <1>1, <2>2
    <3>2. ids[i - Len(order)] = ids[j - Len(order)] BY <1>1, <3>1
    <3>3. i - Len(order) = j - Len(order) BY <1>1, <3>1, <3>2 DEF IsInjective
    <3>. QED BY <1>1, <3>3
  <2>3. ASSUME NEW a \in 1 .. n, NEW b \in 1 .. n, a <= Len(order), b > Len(order)
        PROVE  all[a] # all[b]
    <3>1. a \in DOMAIN order /\ b - Len(order) \in DOMAIN ids /\ Len(order) + (b - Len(order)) = b
      BY <1>1, <2>3
    <3>2. all[a] = order[a] /\ all[b] = ids[b - Len(order)] BY <1>1, <3>1
    <3>3. all[a] \in Range(order) /\ all[b] \in Range(ids) BY <3>1, <3>2 DEF Range
    <3>. QED BY <3>3
  <2>. QED BY <1>1, <2>1, <2>2, <2>3
<1>4. \A x : x \in Range(order) \cup Range(ids) <=> \E i \in 1 .. n : all[i] = x
  <2>1. ASSUME NEW x \in Range(order) PROVE \E i \in 1 .. n : all[i] = x
    BY <1>1, <2>1 DEF Range
  <2>2. ASSUME NEW x \in Range(ids) PROVE \E i \in 1 .. n : all[i] = x
    <3>1. PICK k \in 1 .. Len(ids) : ids[k] = x BY <1>1 DEF Range
    <3>2. Len(order) + k \in 1 .. n /\ all[Len(order) + k] = x BY <1>1, <3>1
    <3>. QED BY <3>2
  <2>3. ASSUME NEW i \in 1 .. n PROVE all[i] \in Range(order) \cup Range(ids)
    <3>1. CASE i <= Len(order) BY <1>1, <3>1 DEF Range
    <3>2. CASE i > Len(order)
      <4>1. i - Len(order) \in 1 .. Len(ids) /\ Len(order) + (i - Len(order)) = i
        BY <1>1, <3>2
      <4>2. all[i] = ids[i - Len(order)] BY <1>1, <4>1
      <4>. QED BY <1>1, <4>1, <4>2 DEF Range
    <3>. QED BY <1>1, <3>1, <3>2
  <2>. QED BY <2>1, <2>2, <2>3
<1>. HIDE DEF all, m
<1>5. /\ Len(r) = (IF m <= n THEN n - m + 1 ELSE 0) /\ DOMAIN r = 1 .. Len(r)
      /\ \A i \in 1 .. Len(r) : r[i] = all[m + i - 1]
  BY <1>1, <1>2
<1>6. Retained(all) = r BY DEF Retained, r, m, Limit
<1>7. Evicted(all) = {all[i] : i \in 1 .. n - Limit} BY DEF Evicted, Limit
<1>. HIDE DEF r
<1>8. Len(r) <= Limit BY <1>0, <1>1, <1>2, <1>5
<1>9. IsInjective(r)
  <2>. SUFFICES ASSUME NEW i \in DOMAIN r, NEW j \in DOMAIN r, r[i] = r[j] PROVE i = j
    BY DEF IsInjective
  <2>1. m + i - 1 \in 1 .. n /\ m + j - 1 \in 1 .. n
    <3>1. n \in Nat /\ m \in Nat \ {0} BY <1>1, <1>2
    <3>2. Len(r) = (IF m <= n THEN n - m + 1 ELSE 0) /\ DOMAIN r = 1 .. Len(r) BY <1>5
    <3>. HIDE DEF n
    <3>3. m + i - 1 \in 1 .. n BY <3>1, <3>2
    <3>4. m + j - 1 \in 1 .. n BY <3>1, <3>2
    <3>. QED BY <3>3, <3>4
  <2>2. m + i - 1 = m + j - 1 BY <1>3, <1>5, <2>1
  <2>. QED BY <1>2, <1>5, <2>2
<1>10. Range(r) = (Range(order) \cup Range(ids)) \ Evicted(all)
  <2>1. ASSUME NEW i \in DOMAIN r
        PROVE  r[i] \in Range(order) \cup Range(ids) /\ r[i] \notin Evicted(all)
    <3>1. m + i - 1 \in 1 .. n /\ m + i - 1 > n - Limit BY <1>0, <1>1, <1>2, <1>5
    <3>2. r[i] = all[m + i - 1] BY <1>5
    <3>3. \A k \in 1 .. n - Limit : k \in 1 .. n /\ k # m + i - 1 BY <1>0, <1>1, <3>1
    <3>. QED BY <1>3, <1>4, <1>7, <3>1, <3>2, <3>3
  <2>2. ASSUME NEW x \in Range(order) \cup Range(ids), x \notin Evicted(all)
        PROVE  x \in Range(r)
    <3>1. PICK k \in 1 .. n : all[k] = x BY <1>4
    <3>2. ~(k <= n - Limit) BY <1>0, <1>1, <1>7, <2>2, <3>1
    <3>3. k >= m BY <1>0, <1>1, <1>2, <3>2
    <3>4. k - m + 1 \in 1 .. Len(r) /\ m + (k - m + 1) - 1 = k BY <1>1, <1>2, <1>5, <3>3
    <3>5. k - m + 1 \in DOMAIN r /\ r[k - m + 1] = x BY <1>5, <3>1, <3>4
    <3>. QED BY <3>5 DEF Range
  <2>. QED BY <2>1, <2>2 DEF Range
<1>11. Evicted(all) \subseteq Range(order) \cup Range(ids)
  <2>1. \A k \in 1 .. n - Limit : k \in 1 .. n BY <1>0, <1>1
  <2>. QED BY <1>4, <1>7, <2>1
<1>12. ids = << >> /\ Len(order) <= Limit => Evicted(all) = {}
  <2>. SUFFICES ASSUME ids = << >>, Len(order) <= Limit PROVE Evicted(all) = {} OBVIOUS
  <2>1. 1 .. n - Limit = {} BY <1>0, <1>1
  <2>. QED BY <1>7, <2>1
<1>13. ids # << >> => \E id \in Range(ids) : id \notin Evicted(all)
  <2>. SUFFICES ASSUME ids # << >> PROVE \E id \in Range(ids) : id \notin Evicted(all) OBVIOUS
  <2>1. Len(ids) > 0 BY <1>1
  <2>2. n \in 1 .. n /\ all[n] = ids[Len(ids)] BY <1>1, <2>1
  <2>3. \A k \in 1 .. n - Limit : k \in 1 .. n /\ k # n BY <1>0, <1>1
  <2>4. all[n] \notin Evicted(all) BY <1>3, <1>7, <2>2, <2>3
  <2>5. Len(ids) \in DOMAIN ids BY <1>1, <2>1
  <2>6. all[n] \in Range(ids) BY <2>2, <2>5 DEF Range
  <2>. QED BY <2>4, <2>6
<1>. QED BY <1>6, <1>8, <1>9, <1>10, <1>11, <1>12, <1>13 DEF all

-----------------------------------------------------------------------------
(* The inductive invariant *)

MutationRecords ==
  /\ completedMutations = Range(completedMutationOrder)
  /\ DOMAIN mutationResults = completedMutations
  /\ IsInjective(completedMutationOrder) /\ Len(completedMutationOrder) <= Limit

ActionRecords ==
  /\ DOMAIN actionResults = Range(actionResultOrder)
  /\ IsInjective(actionResultOrder) /\ Len(actionResultOrder) <= Limit

\* The records agree, no request is in two places, and a pending request that has a
\* result is a mutation that succeeded.
RequestRecords ==
  /\ MutationRecords /\ ActionRecords
  /\ DOMAIN requests \cap (DOMAIN mutationResults \cup DOMAIN actionResults) = {}
  /\ DOMAIN mutationResults \cap DOMAIN actionResults = {}
  /\ \A id \in DOMAIN requests :
       requests[id].hasResult => requests[id].kind = "Mutation" /\ requests[id].result.ok

\* The map new holds what is left of old and of the entries f of the requests S.
Remembers(new, old, S, f) ==
  /\ DOMAIN new \subseteq DOMAIN old \cup S
  /\ \A id \in DOMAIN new : new[id] = IF id \in S THEN f[id] ELSE old[id]
  /\ S = {} => DOMAIN new = DOMAIN old
  /\ S # {} => DOMAIN new \cap S # {}

\* Entering S into a map and deleting E, when E spares one of S.
LEMMA RemembersFact ==
  ASSUME NEW old, NEW f, NEW S, DOMAIN f = S, NEW E,
         S = {} => E = {},
         S # {} => \E id \in S : id \notin E
  PROVE  /\ DOMAIN Without(With(old, f), E) = (DOMAIN old \cup S) \ E
         /\ Remembers(Without(With(old, f), E), old, S, f)
<1>. DEFINE all == With(old, f)
            new == Without(all, E)
<1>1. /\ DOMAIN all = DOMAIN old \cup S
      /\ \A id \in DOMAIN all : all[id] = IF id \in S THEN f[id] ELSE old[id]
  BY DEF With
<1>. HIDE DEF all
<1>2. DOMAIN new = (DOMAIN old \cup S) \ E /\ \A id \in DOMAIN new : new[id] = all[id]
  BY <1>1 DEF Without, Restrict
<1>. HIDE DEF new
<1>3. Remembers(new, old, S, f) BY <1>1, <1>2 DEF Remembers
<1>. QED BY <1>2, <1>3 DEF new, all

\* Only the empty sequence has an empty range.
LEMMA EmptyRange ==
  ASSUME NEW T, NEW ids \in Seq(T)
  PROVE  Range(ids) = {} <=> ids = << >>
<1>1. ids # << >> => 1 \in DOMAIN ids OBVIOUS
<1>2. ids = << >> => DOMAIN ids = {} OBVIOUS
<1>. QED BY <1>1, <1>2 DEF Range

\* Remembering mutations that are not yet remembered keeps their records in step.
LEMMA RememberMutations ==
  ASSUME MutationRecords, NEW T, completedMutationOrder \in Seq(T),
         NEW ids \in Seq(T), IsInjective(ids), Range(ids) \cap completedMutations = {},
         NEW reqs, rememberMutationResults(ids, reqs)
  PROVE  /\ MutationRecords'
         /\ Remembers(mutationResults', mutationResults, Range(ids),
                      [id \in Range(ids) |-> reqs[id].result])
<1>. DEFINE all == completedMutationOrder \o ids
            f == [id \in Range(ids) |-> reqs[id].result]
<1>1. /\ IsInjective(Retained(all)) /\ Len(Retained(all)) <= Limit
      /\ Range(Retained(all)) = (completedMutations \cup Range(ids)) \ Evicted(all)
      /\ ids = << >> => Evicted(all) = {}
      /\ ids # << >> => \E id \in Range(ids) : id \notin Evicted(all)
  BY RetainedMemory DEF MutationRecords
<1>2. /\ completedMutationOrder' = Retained(all)
      /\ completedMutations' = (completedMutations \cup Range(ids)) \ Evicted(all)
      /\ mutationResults' = Without(With(mutationResults, f), Evicted(all))
  BY DEF rememberMutationResults
<1>3. Range(ids) = {} <=> ids = << >> BY EmptyRange
<1>4. DOMAIN f = Range(ids) OBVIOUS
<1>. HIDE DEF all, f
<1>5. /\ Range(ids) = {} => Evicted(all) = {}
      /\ Range(ids) # {} => \E id \in Range(ids) : id \notin Evicted(all)
  BY <1>1, <1>3
<1>6. /\ DOMAIN mutationResults' = (DOMAIN mutationResults \cup Range(ids)) \ Evicted(all)
      /\ Remembers(mutationResults', mutationResults, Range(ids), f)
  <2>1. /\ DOMAIN Without(With(mutationResults, f), Evicted(all)) = (DOMAIN mutationResults \cup Range(ids)) \ Evicted(all)
        /\ Remembers(Without(With(mutationResults, f), Evicted(all)), mutationResults, Range(ids), f)
    BY <1>4, <1>5, RemembersFact, Zenon
  <2>. QED BY <1>2, <2>1
<1>7. MutationRecords' BY <1>1, <1>2, <1>6 DEF MutationRecords, Limit
<1>. QED BY <1>6, <1>7 DEF f

\* The same for actions.
LEMMA RememberActions ==
  ASSUME ActionRecords, NEW T, actionResultOrder \in Seq(T),
         NEW ids \in Seq(T), IsInjective(ids), Range(ids) \cap DOMAIN actionResults = {},
         NEW result, rememberActionResults(ids, result)
  PROVE  /\ ActionRecords'
         /\ Remembers(actionResults', actionResults, Range(ids), [id \in Range(ids) |-> result])
<1>. DEFINE all == actionResultOrder \o ids
            f == [id \in Range(ids) |-> result]
<1>1. /\ IsInjective(Retained(all)) /\ Len(Retained(all)) <= Limit
      /\ Range(Retained(all)) = (DOMAIN actionResults \cup Range(ids)) \ Evicted(all)
      /\ ids = << >> => Evicted(all) = {}
      /\ ids # << >> => \E id \in Range(ids) : id \notin Evicted(all)
  BY RetainedMemory DEF ActionRecords
<1>2. /\ actionResultOrder' = Retained(all)
      /\ actionResults' = Without(With(actionResults, f), Evicted(all))
  BY DEF rememberActionResults
<1>3. Range(ids) = {} <=> ids = << >> BY EmptyRange
<1>4. DOMAIN f = Range(ids) OBVIOUS
<1>. HIDE DEF all, f
<1>5. /\ Range(ids) = {} => Evicted(all) = {}
      /\ Range(ids) # {} => \E id \in Range(ids) : id \notin Evicted(all)
  BY <1>1, <1>3
<1>6. /\ DOMAIN actionResults' = (DOMAIN actionResults \cup Range(ids)) \ Evicted(all)
      /\ Remembers(actionResults', actionResults, Range(ids), f)
  <2>1. /\ DOMAIN Without(With(actionResults, f), Evicted(all)) = (DOMAIN actionResults \cup Range(ids)) \ Evicted(all)
        /\ Remembers(Without(With(actionResults, f), Evicted(all)), actionResults, Range(ids), f)
    BY <1>4, <1>5, RemembersFact, Zenon
  <2>. QED BY <1>2, <2>1
<1>7. ActionRecords' BY <1>1, <1>2, <1>6 DEF ActionRecords, Limit
<1>. QED BY <1>6, <1>7 DEF f

\* A sequence over a set is one over a larger set.
LEMMA SeqMonotone ==
  ASSUME NEW T, NEW U, T \subseteq U, NEW t \in Seq(T)
  PROVE  t \in Seq(U)
<1>1. Len(t) \in Nat /\ DOMAIN t = 1 .. Len(t) /\ \A i \in 1 .. Len(t) : t[i] \in U OBVIOUS
<1>2. t = [i \in 1 .. Len(t) |-> t[i]] OBVIOUS
<1>. QED BY <1>1, <1>2

\* A sorted sequence of ids repeats none.
LEMMA SortedInjective ==
  ASSUME NEW n \in Nat, NEW S \in SUBSET (0 .. n - 1), NEW s \in SortedById(S)
  PROVE  s \in Seq(0 .. n - 1) /\ Range(s) = S /\ IsInjective(s)
<1>1. IsFiniteSet(S) BY IdsFinite
<1>2. s \in Seq(S) /\ Range(s) = S BY <1>1, SortedByIdFact
<1>3. \A i, j \in DOMAIN s : i < j => s[i] < s[j] BY DEF SortedById, Sorted
<1>4. ASSUME NEW t \in Seq(S), \A i, j \in DOMAIN t : i < j => t[i] < t[j]
      PROVE  t \in Seq(0 .. n - 1) /\ IsInjective(t)
  <2>0. S \subseteq 0 .. n - 1 OBVIOUS
  <2>1. t \in Seq(0 .. n - 1) BY <2>0, SeqMonotone, Zenon
  <2>2. \A i \in DOMAIN t : i \in Int /\ t[i] \in Int BY <2>1
  <2>3. IsInjective(t) BY <1>4, <2>2 DEF IsInjective
  <2>. QED BY <2>1, <2>3
<1>. QED BY <1>2, <1>3, <1>4

-----------------------------------------------------------------------------
(* Requests that end *)

\* Taking the requests S out of the tracked ones.
LEMMA EndRequests ==
  ASSUME TypeOK, NEW S \in SUBSET DOMAIN requests, requests' = Without(requests, S)
  PROVE  /\ DOMAIN requests' = DOMAIN requests \ S
         /\ \A id \in DOMAIN requests \ S : requests'[id] = requests[id]
  BY DEF Without, Restrict

\* The abstract requests lose S.
LEMMA EndPromises ==
  ASSUME TypeOK, NEW S \in SUBSET DOMAIN requests, requests' = Without(requests, S)
  PROVE  LET pending == [id \in DOMAIN requests |-> requests[id].kind]
             committed == [id \in {i \in DOMAIN requests : requests[i].hasResult} |-> requests[id].ts]
         IN  /\ pending' = [id \in DOMAIN pending \ S |-> pending[id]]
             /\ committed' = [id \in DOMAIN committed \ S |-> committed[id]]
<1>1. /\ DOMAIN requests' = DOMAIN requests \ S
      /\ \A id \in DOMAIN requests \ S : requests'[id] = requests[id]
  BY EndRequests
<1>2. [id \in DOMAIN requests' |-> requests'[id].kind]
        = [id \in DOMAIN requests \ S |-> [i \in DOMAIN requests |-> requests[i].kind][id]]
  BY <1>1
<1>3. {i \in DOMAIN requests' : requests'[i].hasResult} = {i \in DOMAIN requests : requests[i].hasResult} \ S
  BY <1>1
<1>. DEFINE C == {i \in DOMAIN requests : requests[i].hasResult}
<1>4. \A id \in C \ S : id \in C /\ requests'[id].ts = requests[id].ts BY <1>1
<1>. HIDE DEF C
<1>5. [id \in C \ S |-> requests'[id].ts] = [id \in C \ S |-> [i \in C |-> requests[i].ts][id]]
  BY <1>4
<1>. QED BY <1>2, <1>3, <1>5 DEF C

\* Mutations that end together, all with the outcome ok.
LEMMA SettleMutations ==
  ASSUME TypeOK, RequestRecords, NEW S \in SUBSET DOMAIN requests, NEW ok \in BOOLEAN,
         NEW f, \A id \in S : f[id].ok = ok,
         Remembers(mutationResults', mutationResults, S, f), MutationRecords',
         UNCHANGED <<actionMemory, nextRequestID>>, requests' = Without(requests, S)
  PROVE  RequestRecords' /\ Promise!Settle(S, ok)
<1>. DEFINE D == DOMAIN mutationResults \cup DOMAIN actionResults
            out == [id \in D |-> IF id \in DOMAIN mutationResults THEN mutationResults[id].ok
                                 ELSE actionResults[id].ok]
            kept == DOMAIN mutationResults' \cup DOMAIN actionResults
<1>1. actionResults' = actionResults /\ actionResultOrder' = actionResultOrder
      /\ nextRequestID' = nextRequestID
  BY DEF actionMemory
<1>2. S \cap D = {} /\ DOMAIN mutationResults \cap DOMAIN actionResults = {} BY DEF RequestRecords
<1>3. /\ DOMAIN requests' = DOMAIN requests \ S
      /\ \A id \in DOMAIN requests \ S : requests'[id] = requests[id]
  BY EndRequests
<1>4. RequestRecords'
  <2>1. ActionRecords' BY <1>1 DEF RequestRecords, ActionRecords
  <2>. QED BY <1>1, <1>2, <1>3, <2>1 DEF RequestRecords, Remembers
<1>5. kept \in SUBSET (D \cup S) BY DEF Remembers
<1>6. IF S = {} THEN kept = D ELSE kept \cap S # {} BY DEF Remembers
<1>7. ASSUME NEW id \in kept
      PROVE  (IF id \in DOMAIN mutationResults' THEN mutationResults'[id].ok ELSE actionResults[id].ok)
               = (IF id \in S THEN ok ELSE out[id])
  BY <1>2, <1>7 DEF Remembers
<1>. HIDE DEF kept, out
<1>8. [id \in kept |-> IF id \in DOMAIN mutationResults' THEN mutationResults'[id].ok
                       ELSE actionResults[id].ok]
        = [id \in kept |-> IF id \in S THEN ok ELSE out[id]]
  BY <1>7
<1>9. Promise!Settle(S, ok)
  <2>1. DOMAIN out = D BY DEF out
  <2>2. out' = [id \in kept |-> IF id \in S THEN ok ELSE out[id]] BY <1>1, <1>8 DEF out, kept
  <2>3. \E k \in SUBSET (DOMAIN out \cup S) :
          /\ IF S = {} THEN k = DOMAIN out ELSE k \cap S # {}
          /\ out' = [id \in k |-> IF id \in S THEN ok ELSE out[id]]
    BY <1>5, <1>6, <2>1, <2>2
  <2>. DEFINE pending == [id \in DOMAIN requests |-> requests[id].kind]
              committed == [id \in {i \in DOMAIN requests : requests[i].hasResult} |-> requests[id].ts]
  <2>4. /\ pending' = [id \in DOMAIN pending \ S |-> pending[id]]
        /\ committed' = [id \in DOMAIN committed \ S |-> committed[id]]
    BY EndPromises
  <2>. HIDE DEF pending, committed
  <2>5. /\ pending' = [id \in DOMAIN pending \ S |-> pending[id]]
        /\ committed' = [id \in DOMAIN committed \ S |-> committed[id]]
        /\ \E k \in SUBSET (DOMAIN out \cup S) :
             /\ IF S = {} THEN k = DOMAIN out ELSE k \cap S # {}
             /\ out' = [id \in k |-> IF id \in S THEN ok ELSE out[id]]
        /\ UNCHANGED nextRequestID
    BY <1>1, <2>3, <2>4
  <2>. QED BY <2>5, Zenon DEF Promise!Settle, out, pending, committed
<1>. QED BY <1>4, <1>9

\* Actions that end together, all with the outcome ok.
LEMMA SettleActions ==
  ASSUME TypeOK, RequestRecords, NEW S \in SUBSET DOMAIN requests, NEW ok \in BOOLEAN,
         NEW f, \A id \in S : f[id].ok = ok,
         Remembers(actionResults', actionResults, S, f), ActionRecords',
         UNCHANGED <<mutationMemory, nextRequestID>>, requests' = Without(requests, S)
  PROVE  RequestRecords' /\ Promise!Settle(S, ok)
<1>. DEFINE D == DOMAIN mutationResults \cup DOMAIN actionResults
            out == [id \in D |-> IF id \in DOMAIN mutationResults THEN mutationResults[id].ok
                                 ELSE actionResults[id].ok]
            kept == DOMAIN mutationResults \cup DOMAIN actionResults'
<1>1. /\ completedMutations' = completedMutations /\ mutationResults' = mutationResults
      /\ completedMutationOrder' = completedMutationOrder /\ nextRequestID' = nextRequestID
  BY DEF mutationMemory
<1>2. S \cap D = {} /\ DOMAIN mutationResults \cap DOMAIN actionResults = {} BY DEF RequestRecords
<1>3. /\ DOMAIN requests' = DOMAIN requests \ S
      /\ \A id \in DOMAIN requests \ S : requests'[id] = requests[id]
  BY EndRequests
<1>4. RequestRecords'
  <2>1. MutationRecords' BY <1>1 DEF RequestRecords, MutationRecords, Limit
  <2>. QED BY <1>1, <1>2, <1>3, <2>1 DEF RequestRecords, Remembers
<1>5. kept \in SUBSET (D \cup S) BY DEF Remembers
<1>6. IF S = {} THEN kept = D ELSE kept \cap S # {} BY DEF Remembers
<1>7. ASSUME NEW id \in kept
      PROVE  (IF id \in DOMAIN mutationResults THEN mutationResults[id].ok ELSE actionResults'[id].ok)
               = (IF id \in S THEN ok ELSE out[id])
  BY <1>2, <1>7 DEF Remembers
<1>. HIDE DEF kept, out
<1>8. [id \in kept |-> IF id \in DOMAIN mutationResults THEN mutationResults[id].ok
                       ELSE actionResults'[id].ok]
        = [id \in kept |-> IF id \in S THEN ok ELSE out[id]]
  BY <1>7
<1>9. Promise!Settle(S, ok)
  <2>1. DOMAIN out = D BY DEF out
  <2>2. out' = [id \in kept |-> IF id \in S THEN ok ELSE out[id]] BY <1>1, <1>8 DEF out, kept
  <2>3. \E k \in SUBSET (DOMAIN out \cup S) :
          /\ IF S = {} THEN k = DOMAIN out ELSE k \cap S # {}
          /\ out' = [id \in k |-> IF id \in S THEN ok ELSE out[id]]
    BY <1>5, <1>6, <2>1, <2>2
  <2>. DEFINE pending == [id \in DOMAIN requests |-> requests[id].kind]
              committed == [id \in {i \in DOMAIN requests : requests[i].hasResult} |-> requests[id].ts]
  <2>4. /\ pending' = [id \in DOMAIN pending \ S |-> pending[id]]
        /\ committed' = [id \in DOMAIN committed \ S |-> committed[id]]
    BY EndPromises
  <2>. HIDE DEF pending, committed
  <2>5. /\ pending' = [id \in DOMAIN pending \ S |-> pending[id]]
        /\ committed' = [id \in DOMAIN committed \ S |-> committed[id]]
        /\ \E k \in SUBSET (DOMAIN out \cup S) :
             /\ IF S = {} THEN k = DOMAIN out ELSE k \cap S # {}
             /\ out' = [id \in k |-> IF id \in S THEN ok ELSE out[id]]
        /\ UNCHANGED nextRequestID
    BY <1>1, <2>3, <2>4
  <2>. QED BY <2>5, Zenon DEF Promise!Settle, out, pending, committed
<1>. QED BY <1>4, <1>9

-----------------------------------------------------------------------------
(* One step of the client is one step of RequestPromises, or none *)

Kept == RequestRecords' /\ [Promise!Next]_(Promise!vars)

\* A step that leaves the requests and their records alone.
LEMMA OtherStep ==
  ASSUME RequestRecords, UNCHANGED <<requestVars, mutationMemory, actionMemory, remoteVersion>>
  PROVE  Kept
<1>1. /\ nextRequestID' = nextRequestID /\ requests' = requests
      /\ completedMutations' = completedMutations /\ mutationResults' = mutationResults
      /\ completedMutationOrder' = completedMutationOrder
      /\ actionResults' = actionResults /\ actionResultOrder' = actionResultOrder
      /\ remoteVersion' = remoteVersion
  BY DEF requestVars, mutationMemory, actionMemory
<1>2. RequestRecords'
  BY <1>1 DEF RequestRecords, MutationRecords, ActionRecords, Limit
<1>3. UNCHANGED Promise!vars BY <1>1 DEF Promise!vars
<1>. QED BY <1>2, <1>3 DEF Kept

\* The elements of a sequence over a set are in the set.
LEMMA SeqRange ==
  ASSUME NEW S, NEW s \in Seq(S)
  PROVE  Range(s) \subseteq S
BY DEF Range

\* No request with the next id exists or existed.
LEMMA FreshId ==
  ASSUME TypeOK, RequestRecords
  PROVE  /\ nextRequestID \in Nat
         /\ nextRequestID \notin DOMAIN requests \cup DOMAIN mutationResults \cup DOMAIN actionResults
<1>1. nextRequestID \in Nat BY BoundsAssumption DEF TypeOK, RequestTypes
<1>2. DOMAIN requests \subseteq 0 .. nextRequestID - 1
      /\ DOMAIN mutationResults \subseteq 0 .. nextRequestID - 1
  BY DEF TypeOK, RequestTypes, MemoryTypes, RequestRecords, MutationRecords
<1>3. actionResultOrder \in Seq(0 .. nextRequestID - 1) BY DEF TypeOK, MemoryTypes
<1>4. DOMAIN actionResults \subseteq 0 .. nextRequestID - 1
  <2>1. Range(actionResultOrder) \subseteq 0 .. nextRequestID - 1 BY <1>3, SeqRange, Zenon
  <2>. QED BY <2>1 DEF RequestRecords, ActionRecords
<1>5. nextRequestID \notin 0 .. nextRequestID - 1 BY <1>1
<1>. QED BY <1>1, <1>2, <1>4, <1>5

\* Mutation and Action: a request is tracked under a new id.
LEMMA IssueStep ==
  ASSUME TypeOK, RequestRecords, NEW kind \in {"Mutation", "Action"}, NEW update,
         nextRequestID' = nextRequestID + 1,
         requests' = Put(requests, nextRequestID, NewRequest(kind, update)),
         UNCHANGED <<mutationMemory, actionMemory, remoteVersion>>
  PROVE  Kept
<1>. DEFINE n == nextRequestID
            new == NewRequest(kind, update)
<1>0. n \notin DOMAIN requests /\ n \notin DOMAIN mutationResults \cup DOMAIN actionResults
  BY FreshId
<1>1. /\ DOMAIN requests' = DOMAIN requests \cup {n} /\ requests'[n] = new
      /\ \A id \in DOMAIN requests : requests'[id] = requests[id]
  BY <1>0 DEF Put
<1>2. new.kind = kind /\ new.hasResult = FALSE BY DEF NewRequest
<1>3. /\ completedMutations' = completedMutations /\ mutationResults' = mutationResults
      /\ completedMutationOrder' = completedMutationOrder
      /\ actionResults' = actionResults /\ actionResultOrder' = actionResultOrder
  BY DEF mutationMemory, actionMemory
<1>. HIDE DEF new
<1>4. RequestRecords'
  <2>1. MutationRecords' /\ ActionRecords'
    BY <1>3 DEF RequestRecords, MutationRecords, ActionRecords, Limit
  <2>2. \A id \in DOMAIN requests' :
          requests'[id].hasResult => requests'[id].kind = "Mutation" /\ requests'[id].result.ok
    BY <1>1, <1>2 DEF RequestRecords
  <2>. QED BY <1>0, <1>1, <1>3, <2>1, <2>2 DEF RequestRecords
<1>. DEFINE pending == [id \in DOMAIN requests |-> requests[id].kind]
            committed == [id \in {i \in DOMAIN requests : requests[i].hasResult} |-> requests[id].ts]
<1>5. pending' = [id \in DOMAIN pending \cup {n} |-> IF id = n THEN kind ELSE pending[id]]
  BY <1>0, <1>1, <1>2
<1>6. committed' = committed
  <2>1. {i \in DOMAIN requests' : requests'[i].hasResult} = {i \in DOMAIN requests : requests[i].hasResult}
    BY <1>0, <1>1, <1>2
  <2>. DEFINE C == {i \in DOMAIN requests : requests[i].hasResult}
  <2>2. \A i \in C : requests'[i].ts = requests[i].ts BY <1>1
  <2>. HIDE DEF C
  <2>3. [i \in C |-> requests'[i].ts] = [i \in C |-> requests[i].ts] BY <2>2
  <2>. QED BY <2>1, <2>3 DEF C
<1>. DEFINE out == [id \in DOMAIN mutationResults \cup DOMAIN actionResults |->
                      IF id \in DOMAIN mutationResults THEN mutationResults[id].ok ELSE actionResults[id].ok]
<1>7. out' = out BY <1>3
<1>8. (remoteVersion.ts)' = remoteVersion.ts OBVIOUS
<1>9. Promise!Issue(kind)
  <2>. HIDE DEF pending, committed, out
  <2>1. /\ nextRequestID' = nextRequestID + 1
        /\ pending' = [id \in DOMAIN pending \cup {nextRequestID} |->
                         IF id = nextRequestID THEN kind ELSE pending[id]]
        /\ UNCHANGED <<committed, out, remoteVersion.ts>>
    BY <1>5, <1>6, <1>7, <1>8
  <2>. QED BY <2>1, Zenon DEF Promise!Issue, pending, committed, out
<1>. QED BY <1>4, <1>9 DEF Kept, Promise!Next

\* A response to a mutation: a repetition changes nothing, a success is noted, a
\* failure ends the mutation.
LEMMA MutationResponseStep ==
  ASSUME TypeOK, RequestRecords, NEW id \in RequestID, NEW success \in BOOLEAN,
         NEW ts \in Timestamp \cup {NoTS}, receiveMutationResponse(id, success, ts)
  PROVE  Kept
<1>1. CASE RejectMessage
  BY <1>1, OtherStep DEF RejectMessage, requestVars, mutationMemory, actionMemory, remoteVars
<1>2. CASE ~RejectMessage
  <2>1. /\ \/ MutationResponseDuplicate(id, ts)
           \/ MutationResponseSuccess(id, ts)
           \/ MutationResponseFailure(id, ts)
        /\ nextRequestID' = nextRequestID /\ remoteVersion' = remoteVersion
        /\ UNCHANGED actionMemory
    BY <1>2 DEF receiveMutationResponse
  <2>2. CASE MutationResponseDuplicate(id, ts)
    BY <2>1, <2>2, OtherStep DEF MutationResponseDuplicate, requestVars, mutationMemory, actionMemory
  <2>3. CASE MutationResponseSuccess(id, ts)
    <3>. DEFINE r == requests'[id]
                pending == [i \in DOMAIN requests |-> requests[i].kind]
                C == {i \in DOMAIN requests : requests[i].hasResult}
                committed == [i \in C |-> requests[i].ts]
                out == [i \in DOMAIN mutationResults \cup DOMAIN actionResults |->
                          IF i \in DOMAIN mutationResults THEN mutationResults[i].ok ELSE actionResults[i].ok]
    <3>1. /\ id \in DOMAIN requests /\ requests[id] \in Request /\ requests[id].kind = "Mutation"
          /\ requests' = [requests EXCEPT ![id] = [requests[id] EXCEPT
                            !.result = functionResultFromResponse(TRUE), !.hasResult = TRUE, !.ts = ts]]
          /\ UNCHANGED mutationMemory
      BY <2>3 DEF MutationResponseSuccess, Mutations, TypeOK, RequestTypes
    <3>2. /\ DOMAIN requests' = DOMAIN requests
          /\ \A i \in DOMAIN requests : i # id => requests'[i] = requests[i]
          /\ r.kind = "Mutation" /\ r.result = functionResultFromResponse(TRUE)
          /\ r.hasResult = TRUE /\ r.ts = ts
      BY <3>1 DEF Request
    <3>3. functionResultFromResponse(TRUE).ok
      BY DEF functionResultFromResponse, ValueResult
    <3>4. /\ completedMutations' = completedMutations /\ mutationResults' = mutationResults
          /\ completedMutationOrder' = completedMutationOrder
          /\ actionResults' = actionResults /\ actionResultOrder' = actionResultOrder
      BY <2>1, <3>1 DEF mutationMemory, actionMemory
    <3>. HIDE DEF r
    <3>5. RequestRecords'
      <4>1. MutationRecords' /\ ActionRecords'
        BY <3>4 DEF RequestRecords, MutationRecords, ActionRecords, Limit
      <4>2. \A i \in DOMAIN requests' :
              requests'[i].hasResult => requests'[i].kind = "Mutation" /\ requests'[i].result.ok
        BY <3>2, <3>3 DEF RequestRecords, r
      <4>. QED BY <3>2, <3>4, <4>1, <4>2 DEF RequestRecords
    <3>6. pending' = pending BY <3>1, <3>2 DEF r
    <3>7. C' = C \cup {id} BY <3>1, <3>2 DEF r
    <3>8. committed' = [i \in C \cup {id} |-> IF i = id THEN ts ELSE committed[i]]
      <4>1. \A i \in C \cup {id} : requests'[i].ts = IF i = id THEN ts ELSE requests[i].ts
        BY <3>2 DEF r
      <4>. HIDE DEF C
      <4>2. [i \in C \cup {id} |-> requests'[i].ts]
              = [i \in C \cup {id} |-> IF i = id THEN ts ELSE [j \in C |-> requests[j].ts][i]]
        BY <4>1
      <4>. QED BY <3>7, <4>2
    <3>9. out' = out BY <3>4
    <3>10. Promise!Commit(id, ts)
      <4>1. DOMAIN pending = DOMAIN requests /\ pending[id] = "Mutation" /\ DOMAIN committed = C
        BY <3>1
      <4>. HIDE DEF pending, C, committed, out
      <4>2. /\ id \in {i \in DOMAIN pending : pending[i] = "Mutation"}
            /\ committed' = [i \in DOMAIN committed \cup {id} |-> IF i = id THEN ts ELSE committed[i]]
            /\ UNCHANGED <<nextRequestID, pending, out, remoteVersion.ts>>
        BY <2>1, <3>1, <3>6, <3>8, <3>9, <4>1
      <4>. QED BY <4>2, Zenon DEF Promise!Commit, Promise!Ids, pending, C, committed, out
    <3>11. Promise!Next
      <4>1. id \in DOMAIN pending BY <3>1
      <4>2. ts \in Timestamp \cup {Promise!NoTS} BY DEF NoTS, Promise!NoTS
      <4>. QED BY <3>10, <4>1, <4>2 DEF Promise!Next
    <3>. QED BY <3>5, <3>11 DEF Kept
  <2>4. CASE MutationResponseFailure(id, ts)
    <3>. DEFINE answered == [requests EXCEPT ![id].result = functionResultFromResponse(FALSE),
                                             ![id].hasResult = TRUE, ![id].ts = ts]
                f == [i \in Range(<<id>>) |-> answered[i].result]
    <3>1. /\ id \in DOMAIN requests /\ requests[id] \in Request /\ requests[id].kind = "Mutation"
          /\ rememberMutationResults(<<id>>, answered)
          /\ requests' = Without(requests, {id})
      BY <2>4 DEF MutationResponseFailure, Mutations, TypeOK, RequestTypes
    <3>2. Range(<<id>>) = {id} /\ IsInjective(<<id>>) BY DEF Range, IsInjective
    <3>3. /\ <<id>> \in Seq(0 .. nextRequestID - 1)
          /\ completedMutationOrder \in Seq(0 .. nextRequestID - 1)
      BY <3>1 DEF TypeOK, RequestTypes, MemoryTypes
    <3>4. MutationRecords /\ {id} \cap completedMutations = {}
      BY <3>1 DEF RequestRecords, MutationRecords
    <3>5. ~answered[id].result.ok
      BY <3>1 DEF functionResultFromResponse, ErrorResult, Request, TypeOK, RequestTypes
    <3>. HIDE DEF answered
    <3>6. MutationRecords' /\ Remembers(mutationResults', mutationResults, Range(<<id>>), f)
      BY <3>1, <3>2, <3>3, <3>4, RememberMutations
    <3>7. \A i \in {id} : f[i].ok = FALSE
      <4>1. f[id] = answered[id].result BY <3>2
      <4>. QED BY <3>5, <4>1
    <3>. HIDE DEF f
    <3>8. RequestRecords' /\ Promise!Settle({id}, FALSE)
      BY <2>1, <3>1, <3>2, <3>6, <3>7, SettleMutations
    <3>9. Promise!Fail(id)
      <4>. DEFINE pending == [i \in DOMAIN requests |-> requests[i].kind]
      <4>1. id \in {i \in DOMAIN pending : pending[i] = "Mutation"} BY <3>1
      <4>2. (remoteVersion.ts)' = remoteVersion.ts BY <2>1
      <4>. QED BY <3>8, <4>1, <4>2, Zenon DEF Promise!Fail, Promise!Ids
    <3>10. id \in DOMAIN [i \in DOMAIN requests |-> requests[i].kind] BY <3>1
    <3>11. Promise!Next BY <3>9, <3>10, Zenon DEF Promise!Next
    <3>. QED BY <3>8, <3>11 DEF Kept
  <2>. QED BY <2>1, <2>2, <2>3, <2>4
<1>. QED BY <1>1, <1>2

\* The response to an action ends it.
LEMMA ActionResponseStep ==
  ASSUME TypeOK, RequestRecords, NEW id \in RequestID, NEW success \in BOOLEAN,
         receiveActionResponse(id, success)
  PROVE  Kept
<1>1. CASE RejectMessage
  BY <1>1, OtherStep DEF RejectMessage, requestVars, mutationMemory, actionMemory, remoteVars
<1>2. CASE ~RejectMessage
  <2>. DEFINE result == functionResultFromResponse(success)
              f == [i \in Range(<<id>>) |-> result]
              pending == [i \in DOMAIN requests |-> requests[i].kind]
  <2>1. /\ id \in DOMAIN requests /\ requests[id].kind = "Action"
        /\ rememberActionResults(<<id>>, result)
        /\ requests' = Without(requests, {id})
        /\ UNCHANGED <<mutationMemory, nextRequestID>> /\ remoteVersion' = remoteVersion
    BY <1>2 DEF receiveActionResponse, Actions, remoteVars
  <2>2. Range(<<id>>) = {id} /\ IsInjective(<<id>>) BY DEF Range, IsInjective
  <2>3. /\ <<id>> \in Seq(0 .. nextRequestID - 1)
        /\ actionResultOrder \in Seq(0 .. nextRequestID - 1)
    BY <2>1 DEF TypeOK, RequestTypes, MemoryTypes
  <2>4. ActionRecords /\ {id} \cap DOMAIN actionResults = {}
    BY <2>1 DEF RequestRecords
  <2>5. result.ok = success
    BY DEF functionResultFromResponse, ValueResult, ErrorResult
  <2>. HIDE DEF result
  <2>6. ActionRecords' /\ Remembers(actionResults', actionResults, Range(<<id>>), f)
    BY <2>1, <2>2, <2>3, <2>4, RememberActions
  <2>7. \A i \in {id} : f[i].ok = success BY <2>2, <2>5
  <2>. HIDE DEF f
  <2>8. RequestRecords' /\ Promise!Settle({id}, success)
    BY <2>1, <2>2, <2>6, <2>7, SettleActions
  <2>9. Promise!Answer(id, success)
    <3>1. id \in {i \in DOMAIN pending : pending[i] = "Action"} BY <2>1
    <3>2. (remoteVersion.ts)' = remoteVersion.ts BY <2>1
    <3>. QED BY <2>8, <3>1, <3>2, Zenon DEF Promise!Answer, Promise!Ids
  <2>10. id \in DOMAIN pending BY <2>1
  <2>11. Promise!Next BY <2>9, <2>10, Zenon DEF Promise!Next
  <2>. QED BY <2>8, <2>11 DEF Kept
<1>. QED BY <1>1, <1>2

\* A restart ends the pending actions, and no others.
LEMMA RestartStep ==
  ASSUME TypeOK, RequestRecords, RestartForReconnect
  PROVE  Kept
<1>. DEFINE S == Actions(requests)
            pending == [i \in DOMAIN requests |-> requests[i].kind]
<1>1. PICK ids \in SortedById(S) : rememberActionResults(ids, ErrorResult)
  BY DEF RestartForReconnect, cancelPendingActionsForReconnect
<1>2. /\ requests' = Without(requests, S) /\ UNCHANGED <<mutationMemory, nextRequestID>>
      /\ remoteVersion' = ZeroVersion
  BY DEF RestartForReconnect, cancelPendingActionsForReconnect
<1>3. nextRequestID \in Nat BY FreshId
<1>4. S \in SUBSET DOMAIN requests /\ S \in SUBSET (0 .. nextRequestID - 1)
  BY DEF Actions, TypeOK, RequestTypes
<1>5. ids \in Seq(0 .. nextRequestID - 1) /\ Range(ids) = S /\ IsInjective(ids)
  BY <1>3, <1>4, SortedInjective
<1>6. actionResultOrder \in Seq(0 .. nextRequestID - 1) BY DEF TypeOK, MemoryTypes
<1>7. ActionRecords /\ S \cap DOMAIN actionResults = {}
  BY <1>4 DEF RequestRecords
<1>. DEFINE f == [id \in Range(ids) |-> ErrorResult]
<1>8. ActionRecords' /\ Remembers(actionResults', actionResults, Range(ids), f)
  BY <1>1, <1>5, <1>6, <1>7, RememberActions
<1>9. \A id \in S : f[id].ok = FALSE BY <1>5 DEF ErrorResult
<1>10. S = {id \in DOMAIN pending : pending[id] = "Action"} BY DEF Actions
<1>. HIDE DEF f, S
<1>11. RequestRecords' /\ Promise!Settle(S, FALSE)
  BY <1>2, <1>4, <1>5, <1>8, <1>9, SettleActions
<1>12. Promise!Reconnect
  <2>1. (remoteVersion.ts)' = 0 BY <1>2 DEF ZeroVersion
  <2>. QED BY <1>10, <1>11, <2>1, Zenon DEF Promise!Reconnect, Promise!Ids
<1>. QED BY <1>11, <1>12 DEF Kept, Promise!Next

\* A transition ends the mutations whose timestamp it reaches, and no others.
LEMMA TransitionStep ==
  ASSUME TypeOK, RequestRecords, NEW start \in Version, NEW end \in Version, NEW mods,
         receiveTransition(start, end, mods)
  PROVE  Kept
<1>1. CASE RejectMessage
  BY <1>1, OtherStep DEF RejectMessage, requestVars, mutationMemory, actionMemory, remoteVars
<1>2. CASE ~RejectMessage
  <2>. DEFINE S == CompletedBy(end.ts)
              C == {i \in DOMAIN requests : requests[i].hasResult}
              committed == [i \in C |-> requests[i].ts]
  <2>1. PICK ids \in SortedById(S) : rememberMutationResults(ids, requests)
    BY <1>2 DEF receiveTransition
  <2>2. /\ requests' = Without(requests, S) /\ UNCHANGED <<actionMemory, nextRequestID>>
        /\ remoteVersion' = end
    BY <1>2 DEF receiveTransition
  <2>3. nextRequestID \in Nat BY FreshId
  <2>4. S \in SUBSET DOMAIN requests /\ S \in SUBSET (0 .. nextRequestID - 1)
    BY DEF CompletedBy, Mutations, TypeOK, RequestTypes
  <2>5. ids \in Seq(0 .. nextRequestID - 1) /\ Range(ids) = S /\ IsInjective(ids)
    BY <2>3, <2>4, SortedInjective
  <2>6. completedMutationOrder \in Seq(0 .. nextRequestID - 1) BY DEF TypeOK, MemoryTypes
  <2>7. MutationRecords /\ S \cap completedMutations = {}
    BY <2>4 DEF RequestRecords, MutationRecords
  <2>. DEFINE f == [id \in Range(ids) |-> requests[id].result]
  <2>8. MutationRecords' /\ Remembers(mutationResults', mutationResults, Range(ids), f)
    BY <2>1, <2>5, <2>6, <2>7, RememberMutations
  <2>9. \A id \in S : f[id].ok = TRUE
    <3>1. \A id \in S : requests[id].hasResult BY DEF CompletedBy
    <3>2. \A id \in S : requests[id].result.ok = TRUE
      BY <2>4, <3>1 DEF RequestRecords, TypeOK, RequestTypes, Request, FunctionResult
    <3>. QED BY <2>5, <3>2
  <2>10. S = {id \in DOMAIN committed : committed[id] # Promise!NoTS /\ committed[id] <= end.ts}
    BY DEF CompletedBy, Mutations, RequestRecords, NoTS, Promise!NoTS
  <2>. HIDE DEF f, S
  <2>11. RequestRecords' /\ Promise!Settle(S, TRUE)
    BY <2>2, <2>4, <2>5, <2>8, <2>9, SettleMutations
  <2>12. Promise!Show(end.ts)
    <3>1. (remoteVersion.ts)' = end.ts BY <2>2
    <3>. QED BY <2>10, <2>11, <3>1, Zenon DEF Promise!Show
  <2>13. end.ts \in Timestamp BY DEF Timestamp
  <2>. QED BY <2>11, <2>12, <2>13 DEF Kept, Promise!Next
<1>. QED BY <1>1, <1>2

-----------------------------------------------------------------------------
(* The theorems *)

\* Every step of the client keeps its records and is a step of the abstract
\* specification, or leaves the abstract state alone.
LEMMA NextStep ==
  ASSUME TypeOK, RequestRecords, [Next]_vars
  PROVE  Kept
<1>. USE DEF requestVars, mutationMemory, actionMemory, remoteVars
<1>1. ASSUME NEW s \in Spelling, Subscribe(s) PROVE Kept
  BY <1>1, OtherStep DEF Subscribe
<1>2. ASSUME NEW id \in subscribers, Unsubscribe(id) PROVE Kept
  BY <1>2, OtherStep DEF Unsubscribe
<1>3. ASSUME NEW tok, queueAuth(tok) PROVE Kept
  BY <1>3, OtherStep DEF queueAuth
<1>4. ASSUME NEW update, Mutation(update) PROVE Kept
  BY <1>4, IssueStep DEF Mutation
<1>5. CASE Action
  BY <1>5, IssueStep DEF Action
<1>6. CASE PopNextMessage
  BY <1>6, OtherStep DEF PopNextMessage
<1>7. CASE RestartForReconnect
  BY <1>7, RestartStep
<1>8. ASSUME NEW start \in Version, NEW end \in Version, NEW mods,
             receiveTransition(start, end, mods)
      PROVE  Kept
  BY <1>8, TransitionStep
<1>9. ASSUME NEW id \in RequestID, NEW success \in BOOLEAN, NEW ts \in Timestamp \cup {NoTS},
             receiveMutationResponse(id, success, ts)
      PROVE  Kept
  BY <1>9, MutationResponseStep
<1>10. ASSUME NEW id \in RequestID, NEW success \in BOOLEAN, receiveActionResponse(id, success)
       PROVE  Kept
  BY <1>10, ActionResponseStep
<1>11. CASE receiveErrorMessage
  BY <1>11, OtherStep DEF receiveErrorMessage, RejectMessage
<1>12. CASE UNCHANGED vars
  BY <1>12, OtherStep DEF vars
<1>13. CASE Call
  BY <1>1, <1>2, <1>3, <1>4, <1>5, <1>13 DEF Call, SetAuth, ClearAuth, SetAuthCallback
<1>14. CASE Drive
  BY <1>3, <1>6, <1>7, <1>14 DEF Drive, RefreshAuthForReconnect
<1>15. CASE Receive
  BY <1>8, <1>9, <1>10, <1>11, <1>15 DEF Receive
<1>. QED BY <1>12, <1>13, <1>14, <1>15 DEF Next

\* A new client has no requests and remembers none.
LEMMA InitRecords ==
  ASSUME Init
  PROVE  RequestRecords /\ Promise!Init
<1>1. Limit \in Nat BY RetentionAssumption DEF Limit, MaxOf, normalizedCompletedRequestRetentionLimit
<1>2. Range(<< >>) = {} /\ IsInjective(<< >>) /\ Len(<< >>) <= Limit
  BY <1>1 DEF Range, IsInjective
<1>3. RequestRecords
  BY <1>2 DEF Init, New, RequestRecords, MutationRecords, ActionRecords
<1>4. Promise!Init BY DEF Init, New, ZeroVersion, Promise!Init
<1>. QED BY <1>3, <1>4

\* The records of requests agree in every reachable state: the inductive invariant.
THEOREM RequestRecordsInvariant == Spec => []RequestRecords
<1>1. Init => RequestRecords BY InitRecords
<1>2. TypeOK /\ RequestRecords /\ [Next]_vars => RequestRecords'
  BY NextStep DEF Kept
<1>. QED BY <1>1, <1>2, TypeInvariant, PTL DEF Spec

\* For every retention limit, server and history of calls: what the client remembers
\* of completed mutations and actions agrees between the maps and the orders that
\* bound them, stays within the limit, and is about no pending request.
THEOREM CompletedMemoryInvariant == Spec => []CompletedMemoryConsistent
<1>1. RequestRecords => CompletedMemoryConsistent
  BY DEF RequestRecords, MutationRecords, ActionRecords, Limit, CompletedMemoryConsistent
<1>. QED BY <1>1, RequestRecordsInvariant, PTL

\* The client implements the abstract specification of requests: each is settled
\* once, a mutation by the first snapshot that contains it or by its failure, an
\* action by its response or a restart, and a remembered outcome never changes.
THEOREM RequestsImplemented == Spec => RequestsKeepPromises
<1>1. Init => Promise!Init BY InitRecords
<1>2. TypeOK /\ RequestRecords /\ [Next]_vars => [Promise!Next]_(Promise!vars)
  BY NextStep DEF Kept
<1>. QED
  BY <1>1, <1>2, TypeInvariant, RequestRecordsInvariant, PTL DEF Spec, RequestsKeepPromises, Promise!Spec

=============================================================================
