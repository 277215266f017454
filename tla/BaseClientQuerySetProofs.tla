---------------------- MODULE BaseClientQuerySetProofs ----------------------
(***************************************************************************)
(* Once the queue of baseclient.Client is drained the server's query set is *)
(* the set of active queries, for every history of calls, restarts and      *)
(* server messages.                                                         *)
(***************************************************************************)
EXTENDS BaseClientQueueProofs

AddedAt(i, q) == q \in Touched(outgoing[i], "Add")
RemovedAt(i, q) == q \in Touched(outgoing[i], "Remove")

\* The inductive form, by positions.  It says more than the property: an active
\* query is queued to be added at most once, or handing out the first of two
\* additions would leave one that the server must reject.
AgreesOn(q) ==
  IF q \in DOMAIN queryIDToToken
  THEN /\ \A i \in DOMAIN outgoing : ~RemovedAt(i, q)
       /\ q \in sentQueries => \A i \in DOMAIN outgoing : ~AddedAt(i, q)
       /\ q \notin sentQueries =>
            \E i \in DOMAIN outgoing : AddedAt(i, q) /\ \A j \in DOMAIN outgoing : AddedAt(j, q) => j = i
  ELSE \/ q \notin sentQueries /\ \A i \in DOMAIN outgoing : ~AddedAt(i, q)
       \/ \E i \in DOMAIN outgoing : RemovedAt(i, q) /\ \A j \in DOMAIN outgoing : AddedAt(j, q) => j < i

Agreement == ~restartFailed => \A q \in 0 .. nextQueryID - 1 : AgreesOn(q)

\* It implies the property that the runs check.
LEMMA AgreementImplies == Agreement => QuerySetAgreement
<1>. SUFFICES ASSUME Agreement, ~restartFailed, NEW q \in 0 .. nextQueryID - 1
              PROVE  IF q \in DOMAIN queryIDToToken
                     THEN /\ q \in sentQueries <=> QueuedChange(q, "Add") = {}
                          /\ QueuedChange(q, "Remove") = {}
                     ELSE \/ q \notin sentQueries /\ QueuedChange(q, "Add") = {}
                          \/ \E i \in QueuedChange(q, "Remove") : \A j \in QueuedChange(q, "Add") : j < i
  BY DEF QuerySetAgreement
<1>1. AgreesOn(q) BY DEF Agreement
<1>2. /\ \A i : i \in QueuedChange(q, "Add") <=> i \in DOMAIN outgoing /\ AddedAt(i, q)
      /\ \A i : i \in QueuedChange(q, "Remove") <=> i \in DOMAIN outgoing /\ RemovedAt(i, q)
  BY DEF QueuedChange, AddedAt, RemovedAt
<1>. QED BY <1>1, <1>2 DEF AgreesOn

-----------------------------------------------------------------------------
(* Messages *)

\* Only a ModifyQuerySet touches queries.
LEMMA OthersTouchNothing ==
  ASSUME NEW msg, msg.type # "ModifyQuerySet"
  PROVE  Touched(msg, "Add") = {} /\ Touched(msg, "Remove") = {}
BY DEF Touched

\* Subscribe's message adds one query.
LEMMA AddTouches ==
  ASSUME NEW v, NEW q, NEW t
  PROVE  LET msg == ModifyQuerySet(v, <<QuerySetAdd(q, t)>>)
         IN  Touched(msg, "Add") = {q} /\ Touched(msg, "Remove") = {}
<1>. DEFINE mods == <<QuerySetAdd(q, t)>>
            msg == ModifyQuerySet(v, mods)
<1>1. msg.type = "ModifyQuerySet" /\ msg.mods = mods BY DEF ModifyQuerySet
<1>2. DOMAIN mods = {1} /\ mods[1].op = "Add" /\ mods[1].id = q BY DEF QuerySetAdd
<1>. HIDE DEF mods, msg
<1>3. {k \in DOMAIN mods : mods[k].op = "Add"} = {1} /\ {k \in DOMAIN mods : mods[k].op = "Remove"} = {}
  BY <1>2
<1>4. Touched(msg, "Add") = {q} /\ Touched(msg, "Remove") = {}
  BY <1>1, <1>2, <1>3 DEF Touched
<1>. QED BY <1>4 DEF mods, msg

\* Unsubscribe's message removes one.
LEMMA RemoveTouches ==
  ASSUME NEW v, NEW q, NEW t
  PROVE  LET msg == ModifyQuerySet(v, <<QuerySetRemove(q, t)>>)
         IN  Touched(msg, "Add") = {} /\ Touched(msg, "Remove") = {q}
<1>. DEFINE mods == <<QuerySetRemove(q, t)>>
            msg == ModifyQuerySet(v, mods)
<1>1. msg.type = "ModifyQuerySet" /\ msg.mods = mods BY DEF ModifyQuerySet
<1>2. DOMAIN mods = {1} /\ mods[1].op = "Remove" /\ mods[1].id = q BY DEF QuerySetRemove
<1>. HIDE DEF mods, msg
<1>3. {k \in DOMAIN mods : mods[k].op = "Remove"} = {1} /\ {k \in DOMAIN mods : mods[k].op = "Add"} = {}
  BY <1>2
<1>4. Touched(msg, "Remove") = {q} /\ Touched(msg, "Add") = {}
  BY <1>1, <1>2, <1>3 DEF Touched
<1>. QED BY <1>4 DEF mods, msg

\* The message of a restart adds the active queries.
LEMMA ReplayTouches ==
  ASSUME IsFiniteSet(DOMAIN queries), SubscriptionsConsistent, NEW adds \in replayQueryAdds
  PROVE  LET msg == ModifyQuerySet(0, adds)
         IN  /\ Touched(msg, "Add") = DOMAIN queryIDToToken /\ Touched(msg, "Remove") = {}
             /\ adds = << >> => DOMAIN queryIDToToken = {}
<1>. DEFINE msg == ModifyQuerySet(0, adds)
<1>1. msg.type = "ModifyQuerySet" /\ msg.mods = adds BY DEF ModifyQuerySet
<1>2. PICK s \in Seq(DOMAIN queries) :
        /\ Range(s) = DOMAIN queries /\ DOMAIN adds = DOMAIN s
        /\ adds = [i \in DOMAIN s |-> QuerySetAdd(queries[s[i]].id, s[i])]
  BY ReplayAddsFact
<1>3. \A i \in DOMAIN adds : adds[i].op = "Add" /\ adds[i].id = queries[s[i]].id
  BY <1>2 DEF QuerySetAdd
<1>4. {queries[t].id : t \in DOMAIN queries} = DOMAIN queryIDToToken
  <2>1. \A t \in DOMAIN queries : queries[t].id \in DOMAIN queryIDToToken
    BY DEF SubscriptionsConsistent
  <2>2. \A q \in DOMAIN queryIDToToken :
          queryIDToToken[q] \in DOMAIN queries /\ queries[queryIDToToken[q]].id = q
    BY DEF SubscriptionsConsistent
  <2>. QED BY <2>1, <2>2
<1>5. {adds[k].id : k \in DOMAIN adds} = {queries[t].id : t \in DOMAIN queries}
  BY <1>2, <1>3 DEF Range
<1>6. {k \in DOMAIN adds : adds[k].op = "Add"} = DOMAIN adds
      /\ {k \in DOMAIN adds : adds[k].op = "Remove"} = {}
  BY <1>3
<1>. HIDE DEF msg
<1>7. Touched(msg, "Add") = DOMAIN queryIDToToken /\ Touched(msg, "Remove") = {}
  BY <1>1, <1>4, <1>5, <1>6 DEF Touched
<1>8. adds = << >> => DOMAIN queryIDToToken = {}
  <2>1. adds = << >> => DOMAIN adds = {} OBVIOUS
  <2>. QED BY <1>4, <1>5, <2>1
<1>. QED BY <1>7, <1>8 DEF msg

\* What is queued, or was sent, concerns queries that exist.
LEMMA TouchedExist ==
  ASSUME TypeOK
  PROVE  /\ nextQueryID \in Nat /\ sentQueries \subseteq 0 .. nextQueryID - 1
         /\ DOMAIN queryIDToToken \subseteq 0 .. nextQueryID - 1
         /\ \A i \in DOMAIN outgoing :
              Touched(outgoing[i], "Add") \cup Touched(outgoing[i], "Remove") \subseteq 0 .. nextQueryID - 1
<1>1. \A i \in DOMAIN outgoing : outgoing[i] \in QueuedMessage BY DEF TypeOK
<1>2. ASSUME NEW i \in DOMAIN outgoing
      PROVE  Touched(outgoing[i], "Add") \cup Touched(outgoing[i], "Remove") \subseteq 0 .. nextQueryID - 1
  BY <1>1, <1>2, QueuedFact DEF Touched
<1>. QED BY <1>2, BoundsAssumption DEF TypeOK, QueryTypes

-----------------------------------------------------------------------------
(* Steps *)

\* A message that does not touch q, appended while q stays what it is.
LEMMA AppendAgrees ==
  ASSUME TypeOK, NEW q, AgreesOn(q), NEW msg, outgoing' = Append(outgoing, msg),
         q \notin Touched(msg, "Add") \cup Touched(msg, "Remove"),
         sentQueries' = sentQueries,
         q \in DOMAIN queryIDToToken' <=> q \in DOMAIN queryIDToToken
  PROVE  AgreesOn(q)'
<1>. DEFINE n == Len(outgoing)
<1>1. /\ DOMAIN outgoing = 1 .. n /\ n \in Nat
      /\ DOMAIN outgoing' = 1 .. n + 1 /\ outgoing'[n + 1] = msg
      /\ \A i \in 1 .. n : outgoing'[i] = outgoing[i]
  BY AppendFact DEF TypeOK
<1>. HIDE DEF n
<1>2. \A i \in 1 .. n + 1 : i \in 1 .. n \/ i = n + 1 BY <1>1
<1>3. 1 .. n \subseteq 1 .. n + 1 BY <1>1
<1>4. /\ \A i \in 1 .. n + 1 : AddedAt(i, q)' <=> i \in 1 .. n /\ AddedAt(i, q)
      /\ \A i \in 1 .. n + 1 : RemovedAt(i, q)' <=> i \in 1 .. n /\ RemovedAt(i, q)
  BY <1>1, <1>2 DEF AddedAt, RemovedAt
<1>. QED BY <1>1, <1>3, <1>4 DEF AgreesOn

\* A new query is queued to be added, once.
LEMMA SubscribeAgrees ==
  ASSUME TypeOK, Agreement, NEW t, SubscribeNew(t), UNCHANGED <<sentQueries, restartFailed>>
  PROVE  Agreement'
<1>. DEFINE n == Len(outgoing)
            new == nextQueryID
            msg == ModifyQuerySet(querySetVersion, <<QuerySetAdd(new, t)>>)
<1>1. /\ outgoing' = Append(outgoing, msg) /\ nextQueryID' = new + 1
      /\ DOMAIN queryIDToToken' = DOMAIN queryIDToToken \cup {new}
  BY DEF SubscribeNew, Put
<1>2. Touched(msg, "Add") = {new} /\ Touched(msg, "Remove") = {} BY AddTouches
<1>. HIDE DEF msg
<1>3. /\ new \in Nat /\ sentQueries \subseteq 0 .. new - 1 /\ new \notin 0 .. new - 1
      /\ \A i \in DOMAIN outgoing :
           Touched(outgoing[i], "Add") \cup Touched(outgoing[i], "Remove") \subseteq 0 .. new - 1
  BY TouchedExist
<1>4. SUFFICES ASSUME ~restartFailed, NEW q \in 0 .. new PROVE AgreesOn(q)'
  <2>1. 0 .. nextQueryID' - 1 = 0 .. new BY <1>1, <1>3
  <2>. QED BY <1>4, <2>1 DEF Agreement
<1>. HIDE DEF new
<1>5. CASE q # new
  <2>1. q \in 0 .. new - 1 BY <1>3, <1>5
  <2>2. AgreesOn(q) BY <1>4, <2>1 DEF Agreement, new
  <2>. QED BY <1>1, <1>2, <1>5, <2>2, AppendAgrees
<1>6. CASE q = new
  <2>1. /\ DOMAIN outgoing = 1 .. n /\ n \in Nat
        /\ DOMAIN outgoing' = 1 .. n + 1 /\ outgoing'[n + 1] = msg
        /\ \A i \in 1 .. n : outgoing'[i] = outgoing[i]
    BY <1>1, AppendFact DEF TypeOK
  <2>. HIDE DEF n
  <2>2. n + 1 \in 1 .. n + 1 /\ \A i \in 1 .. n + 1 : i \in 1 .. n \/ i = n + 1 BY <2>1
  <2>3. q \in DOMAIN queryIDToToken' /\ q \notin sentQueries' BY <1>1, <1>3, <1>6
  <2>4. /\ \A i \in 1 .. n + 1 : q \in Touched(outgoing'[i], "Add") <=> i = n + 1
        /\ \A i \in 1 .. n + 1 : q \notin Touched(outgoing'[i], "Remove")
    BY <1>2, <1>3, <1>6, <2>1, <2>2
  <2>. QED BY <2>1, <2>2, <2>3, <2>4 DEF AgreesOn, AddedAt, RemovedAt
<1>. QED BY <1>5, <1>6

\* The last subscriber leaves: the removal is queued behind every addition.
LEMMA UnsubscribeAgrees ==
  ASSUME TypeOK, Agreement, NEW id, NEW t, UnsubscribeLast(id, t),
         UNCHANGED <<nextQueryID, sentQueries, restartFailed>>
  PROVE  Agreement'
<1>. DEFINE n == Len(outgoing)
            msg == ModifyQuerySet(querySetVersion, <<QuerySetRemove(id[1], t)>>)
<1>1. /\ outgoing' = Append(outgoing, msg)
      /\ DOMAIN queryIDToToken' = DOMAIN queryIDToToken \ {id[1]}
  BY DEF UnsubscribeLast, Without, Restrict
<1>2. Touched(msg, "Add") = {} /\ Touched(msg, "Remove") = {id[1]} BY RemoveTouches
<1>. HIDE DEF msg
<1>3. SUFFICES ASSUME ~restartFailed, NEW q \in 0 .. nextQueryID - 1 PROVE AgreesOn(q)'
  BY DEF Agreement
<1>4. AgreesOn(q) BY <1>3 DEF Agreement
<1>5. CASE q # id[1] BY <1>1, <1>2, <1>4, <1>5, AppendAgrees
<1>6. CASE q = id[1]
  <2>1. /\ DOMAIN outgoing = 1 .. n /\ n \in Nat
        /\ DOMAIN outgoing' = 1 .. n + 1 /\ outgoing'[n + 1] = msg
    BY <1>1, AppendFact DEF TypeOK
  <2>. HIDE DEF n
  <2>2. n + 1 \in 1 .. n + 1 /\ \A i \in 1 .. n + 1 : i < n + 1 \/ i = n + 1 BY <2>1
  <2>3. q \notin DOMAIN queryIDToToken' BY <1>1, <1>6
  <2>4. q \in Touched(outgoing'[n + 1], "Remove") /\ q \notin Touched(outgoing'[n + 1], "Add")
    BY <1>2, <1>6, <2>1
  <2>5. \A j \in 1 .. n + 1 : q \in Touched(outgoing'[j], "Add") => j < n + 1 BY <2>2, <2>4
  <2>. QED BY <2>1, <2>2, <2>3, <2>4, <2>5 DEF AgreesOn, AddedAt, RemovedAt
<1>. QED BY <1>5, <1>6

\* The first message is handed out, and the server applies it.
LEMMA PopAgrees ==
  ASSUME TypeOK, Agreement, PopNextMessage
  PROVE  Agreement'
<1>. DEFINE n == Len(outgoing)
            msg == Head(outgoing)
<1>1. /\ DOMAIN outgoing = 1 .. n /\ n \in Nat /\ n > 0
      /\ DOMAIN outgoing' = 1 .. n - 1
      /\ \A i \in 1 .. n - 1 : outgoing'[i] = outgoing[i + 1]
      /\ msg = outgoing[1]
  BY DEF PopNextMessage, TypeOK
<1>2. /\ sentQueries' = (sentQueries \cup Touched(msg, "Add")) \ Touched(msg, "Remove")
      /\ UNCHANGED <<nextQueryID, queryIDToToken, restartFailed>>
  <2>1. sentQueries' = IF msg.type = "ModifyQuerySet"
                       THEN (sentQueries \cup Touched(msg, "Add")) \ Touched(msg, "Remove")
                       ELSE sentQueries
    BY DEF PopNextMessage
  <2>2. msg.type # "ModifyQuerySet" => Touched(msg, "Add") = {} /\ Touched(msg, "Remove") = {}
    BY DEF Touched
  <2>. HIDE DEF msg
  <2>. QED BY <2>1, <2>2 DEF PopNextMessage, queryVars, errVars
<1>. HIDE DEF n, msg
<1>3. /\ 1 \in 1 .. n /\ \A i \in 1 .. n - 1 : i + 1 \in 1 .. n /\ i + 1 # 1
      /\ \A i \in 1 .. n : i # 1 => i - 1 \in 1 .. n - 1 /\ (i - 1) + 1 = i
      /\ \A i, j \in 1 .. n - 1 : (i + 1 = j + 1 => i = j) /\ (i + 1 < j + 1 => i < j)
      /\ \A i \in 1 .. n : ~(i < 1)
  BY <1>1
<1>4. SUFFICES ASSUME ~restartFailed, NEW q \in 0 .. nextQueryID - 1 PROVE AgreesOn(q)'
  BY <1>2 DEF Agreement
<1>. DEFINE A(i) == q \in Touched(outgoing[i], "Add")
            R(i) == q \in Touched(outgoing[i], "Remove")
            B(i) == q \in Touched(outgoing'[i], "Add")
            D(i) == q \in Touched(outgoing'[i], "Remove")
<1>5. \A i \in 1 .. n - 1 : (B(i) <=> A(i + 1)) /\ (D(i) <=> R(i + 1)) BY <1>1
<1>6. q \in sentQueries' <=> (q \in sentQueries \/ A(1)) /\ ~R(1) BY <1>1, <1>2
<1>7. AgreesOn(q) BY <1>4 DEF Agreement
<1>8. CASE q \in DOMAIN queryIDToToken
  <2>1. /\ \A i \in 1 .. n : ~R(i)
        /\ q \in sentQueries => \A i \in 1 .. n : ~A(i)
        /\ q \notin sentQueries => \E i \in 1 .. n : A(i) /\ \A j \in 1 .. n : A(j) => j = i
    BY <1>1, <1>7, <1>8 DEF AgreesOn, AddedAt, RemovedAt
  <2>. HIDE DEF A, R, B, D
  <2>2. \A i \in 1 .. n - 1 : ~D(i) BY <1>3, <1>5, <2>1
  <2>3. q \in sentQueries' => \A i \in 1 .. n - 1 : ~B(i) BY <1>3, <1>5, <1>6, <2>1
  <2>4. ASSUME q \notin sentQueries'
        PROVE  \E i \in 1 .. n - 1 : B(i) /\ \A j \in 1 .. n - 1 : B(j) => j = i
    <3>1. q \notin sentQueries /\ ~A(1) BY <1>3, <1>6, <2>1, <2>4
    <3>2. PICK i \in 1 .. n : A(i) /\ \A j \in 1 .. n : A(j) => j = i BY <2>1, <3>1
    <3>3. i # 1 BY <3>1, <3>2
    <3>4. i - 1 \in 1 .. n - 1 /\ (i - 1) + 1 = i BY <1>3, <3>3
    <3>5. B(i - 1) BY <1>5, <3>2, <3>4
    <3>6. \A j \in 1 .. n - 1 : B(j) => j = i - 1 BY <1>3, <1>5, <3>2, <3>4
    <3>. QED BY <3>4, <3>5, <3>6
  <2>. QED BY <1>1, <1>2, <1>8, <2>2, <2>3, <2>4 DEF AgreesOn, AddedAt, RemovedAt, B, D
<1>9. CASE q \notin DOMAIN queryIDToToken
  <2>1. \/ q \notin sentQueries /\ \A i \in 1 .. n : ~A(i)
        \/ \E i \in 1 .. n : R(i) /\ \A j \in 1 .. n : A(j) => j < i
    BY <1>1, <1>7, <1>9 DEF AgreesOn, AddedAt, RemovedAt
  <2>. HIDE DEF A, R, B, D
  <2>2. CASE q \notin sentQueries /\ \A i \in 1 .. n : ~A(i)
    <3>1. q \notin sentQueries' /\ \A i \in 1 .. n - 1 : ~B(i) BY <1>3, <1>5, <1>6, <2>2
    <3>. QED BY <1>1, <1>2, <1>9, <3>1 DEF AgreesOn, AddedAt, RemovedAt, B
  <2>3. ASSUME NEW i \in 1 .. n, R(i), \A j \in 1 .. n : A(j) => j < i
        PROVE  AgreesOn(q)'
    <3>1. CASE i = 1
      <4>1. q \notin sentQueries' /\ \A j \in 1 .. n - 1 : ~B(j) BY <1>3, <1>5, <1>6, <2>3, <3>1
      <4>. QED BY <1>1, <1>2, <1>9, <4>1 DEF AgreesOn, AddedAt, RemovedAt, B
    <3>2. CASE i # 1
      <4>1. i - 1 \in 1 .. n - 1 /\ (i - 1) + 1 = i BY <1>3, <3>2
      <4>2. D(i - 1) BY <1>5, <2>3, <4>1
      <4>3. \A j \in 1 .. n - 1 : B(j) => j < i - 1 BY <1>3, <1>5, <2>3, <4>1
      <4>. QED BY <1>1, <1>2, <1>9, <4>1, <4>2, <4>3 DEF AgreesOn, AddedAt, RemovedAt, B, D
    <3>. QED BY <3>1, <3>2
  <2>. QED BY <2>1, <2>2, <2>3
<1>. QED BY <1>8, <1>9

\* A message between two sequences of others.
LEMMA Between ==
  ASSUME NEW M, NEW a \in Seq(M), NEW x \in M, NEW b \in Seq(M), NEW P,
         \A i \in DOMAIN a : a[i] \in P, \A i \in DOMAIN b : b[i] \in P
  PROVE  LET all == a \o <<x>> \o b
             p == Len(a) + 1
         IN  p \in DOMAIN all /\ all[p] = x /\ \A i \in DOMAIN all : i # p => all[i] \in P
<1>. DEFINE all == a \o <<x>> \o b
            k == Len(a)
<1>1. /\ k \in Nat /\ Len(b) \in Nat /\ DOMAIN a = 1 .. k /\ DOMAIN b = 1 .. Len(b)
      /\ DOMAIN all = 1 .. k + 1 + Len(b)
      /\ \A i \in 1 .. k + 1 + Len(b) :
           all[i] = IF i <= k THEN a[i] ELSE IF i = k + 1 THEN x ELSE b[i - (k + 1)]
  OBVIOUS
<1>. HIDE DEF all, k
<1>2. k + 1 \in DOMAIN all /\ all[k + 1] = x BY <1>1
<1>3. ASSUME NEW i \in DOMAIN all, i # k + 1 PROVE all[i] \in P
  <2>1. CASE i <= k
    <3>1. i \in DOMAIN a /\ all[i] = a[i] BY <1>1, <2>1
    <3>. QED BY <3>1
  <2>2. CASE ~(i <= k)
    <3>1. i - (k + 1) \in DOMAIN b /\ all[i] = b[i - (k + 1)] BY <1>1, <1>3, <2>2
    <3>. QED BY <3>1
  <2>. QED BY <2>1, <2>2
<1>. QED BY <1>2, <1>3 DEF all, k

\* A restart that succeeds queues one message that adds the active queries.
LEMMA RestartAgrees ==
  ASSUME TypeAndSubscriptions, RestartForReconnect
  PROVE  Agreement'
<1>1. sentQueries' = {} /\ UNCHANGED <<nextQueryID, queryIDToToken>>
  BY DEF RestartForReconnect, queryVars
<1>2. CASE restartFailed' BY <1>2 DEF Agreement
<1>3. ASSUME NEW auth \in RefreshedAuth, NEW adds \in replayQueryAdds,
             NEW replay \in ReplayOngoingRequests,
             outgoing' = auth \o (IF adds = << >> THEN << >> ELSE <<ModifyQuerySet(0, adds)>>)
                             \o replay
      PROVE  Agreement'
  <2>. DEFINE msg == ModifyQuerySet(0, adds)
              All == {auth[i] : i \in DOMAIN auth} \cup {msg} \cup {replay[i] : i \in DOMAIN replay}
              P == {m \in All : Touched(m, "Add") = {} /\ Touched(m, "Remove") = {}}
  <2>1. IsFiniteSet(DOMAIN queries) BY QueriesFinite
  <2>2. /\ Touched(msg, "Add") = DOMAIN queryIDToToken /\ Touched(msg, "Remove") = {}
        /\ adds = << >> => DOMAIN queryIDToToken = {}
    BY <2>1, ReplayTouches DEF TypeAndSubscriptions
  <2>3. auth \in Seq(P)
    <3>1. CASE auth = << >> BY <3>1
    <3>2. CASE auth # << >>
      <4>1. PICK tok : auth = <<Authenticate(0, tok)>> BY <3>2 DEF RefreshedAuth
      <4>2. Authenticate(0, tok).type # "ModifyQuerySet" BY DEF Authenticate
      <4>3. Authenticate(0, tok) \in All BY <4>1
      <4>4. Authenticate(0, tok) \in P BY <4>2, <4>3, OthersTouchNothing
      <4>. HIDE DEF P
      <4>. QED BY <4>1, <4>4
    <3>. QED BY <3>1, <3>2
  <2>4. replay \in Seq(P)
    <3>1. Mutations(requests) \in SUBSET (0 .. nextRequestID - 1) /\ nextRequestID \in Nat
      BY BoundsAssumption DEF TypeAndSubscriptions, TypeOK, RequestTypes, Mutations
    <3>2. PICK s \in Seq(Mutations(requests)) :
            /\ DOMAIN replay = DOMAIN s
            /\ replay = [i \in DOMAIN s |-> RequestMessage("Mutation", s[i])]
      BY <3>1, IdsFinite, ReplayFact
    <3>3. \A i \in DOMAIN s : RequestMessage("Mutation", s[i]).type # "ModifyQuerySet"
      BY DEF RequestMessage
    <3>4. \A i \in DOMAIN s : RequestMessage("Mutation", s[i]) \in All BY <3>2
    <3>5. \A i \in DOMAIN s : RequestMessage("Mutation", s[i]) \in P
      BY <3>3, <3>4, OthersTouchNothing
    <3>. HIDE DEF P
    <3>. QED BY <3>2, <3>5
  <2>5. \A m \in P : Touched(m, "Add") = {} /\ Touched(m, "Remove") = {} OBVIOUS
  <2>6. P \subseteq All /\ msg \in All OBVIOUS
  <2>. HIDE DEF P, All, msg
  <2>7. SUFFICES ASSUME NEW q \in 0 .. nextQueryID - 1 PROVE AgreesOn(q)'
    BY <1>1 DEF Agreement
  <2>8. CASE adds = << >>
    <3>1. outgoing' \in Seq(P) BY <1>3, <2>3, <2>4, <2>8
    <3>2. \A i \in DOMAIN outgoing' : outgoing'[i] \in P BY <3>1
    <3>. QED BY <1>1, <2>2, <2>5, <2>8, <3>2 DEF AgreesOn, AddedAt, RemovedAt
  <2>9. CASE adds # << >>
    <3>. DEFINE p == Len(auth) + 1
    <3>1. outgoing' = auth \o <<msg>> \o replay BY <1>3, <2>9 DEF msg
    <3>2. /\ auth \in Seq(All) /\ replay \in Seq(All)
          /\ \A i \in DOMAIN auth : auth[i] \in P
          /\ \A i \in DOMAIN replay : replay[i] \in P
      BY <2>3, <2>4, <2>6
    <3>3. /\ p \in DOMAIN outgoing' /\ outgoing'[p] = msg
          /\ \A i \in DOMAIN outgoing' : i # p => outgoing'[i] \in P
      BY <2>6, <3>1, <3>2, Between
    <3>. HIDE DEF p
    <3>. QED BY <1>1, <2>2, <2>5, <3>3 DEF AgreesOn, AddedAt, RemovedAt
  <2>. QED BY <2>8, <2>9
<1>. QED BY <1>2, <1>3 DEF RestartForReconnect, RestartQueue

\* Every step keeps the agreement.
LEMMA NextAgrees ==
  ASSUME TypeAndSubscriptions, Agreement, [Next]_vars
  PROVE  Agreement'
<1>0. TypeOK BY DEF TypeAndSubscriptions
<1>. USE DEF queryVars, sentVars, errVars
<1>1. ASSUME UNCHANGED <<nextQueryID, queryIDToToken, outgoing, sentQueries, restartFailed>>
      PROVE  Agreement'
  BY <1>1 DEF Agreement, AgreesOn, AddedAt, RemovedAt
<1>2. ASSUME NEW msg, outgoing' = Append(outgoing, msg), msg.type # "ModifyQuerySet",
             UNCHANGED <<nextQueryID, queryIDToToken, sentQueries, restartFailed>>
      PROVE  Agreement'
  <2>1. Touched(msg, "Add") = {} /\ Touched(msg, "Remove") = {} BY <1>2, OthersTouchNothing
  <2>. SUFFICES ASSUME ~restartFailed, NEW q \in 0 .. nextQueryID - 1 PROVE AgreesOn(q)'
    BY <1>2 DEF Agreement
  <2>2. AgreesOn(q) BY DEF Agreement
  <2>. QED BY <1>0, <1>2, <2>1, <2>2, AppendAgrees
<1>3. ASSUME NEW s \in Spelling, Subscribe(s) PROVE Agreement'
  BY <1>0, <1>1, <1>3, SubscribeAgrees DEF Subscribe, SubscribeExisting
<1>4. ASSUME NEW id \in subscribers, Unsubscribe(id) PROVE Agreement'
  BY <1>0, <1>1, <1>4, UnsubscribeAgrees DEF Unsubscribe, UnsubscribeShared
<1>5. ASSUME NEW tok, queueAuth(tok) PROVE Agreement'
  <2>. DEFINE msg == Authenticate(identityVersion, NormalizedToken(tok))
  <2>1. /\ outgoing' = Append(outgoing, msg)
        /\ UNCHANGED <<nextQueryID, queryIDToToken, sentQueries, restartFailed>>
    BY <1>5 DEF queueAuth
  <2>2. msg.type # "ModifyQuerySet" BY DEF Authenticate
  <2>. HIDE DEF msg
  <2>. QED BY <1>2, <2>1, <2>2
<1>6. ASSUME NEW kind \in {"Mutation", "Action"},
             outgoing' = Append(outgoing, RequestMessage(kind, nextRequestID)),
             UNCHANGED <<nextQueryID, queryIDToToken, sentQueries, restartFailed>>
      PROVE  Agreement'
  <2>1. RequestMessage(kind, nextRequestID).type # "ModifyQuerySet" BY DEF RequestMessage
  <2>. QED BY <1>2, <1>6, <2>1
<1>7. ASSUME NEW update, Mutation(update) PROVE Agreement'
  BY <1>6, <1>7 DEF Mutation
<1>8. CASE Action BY <1>6, <1>8 DEF Action
<1>9. CASE PopNextMessage BY <1>0, <1>9, PopAgrees
<1>10. CASE RestartForReconnect BY <1>10, RestartAgrees
<1>11. CASE Receive
  <2>1. UNCHANGED <<nextQueryID, queryIDToToken, outgoing, sentQueries, restartFailed>>
    BY <1>11 DEF Receive, receiveTransition, receiveMutationResponse,
       receiveActionResponse, receiveErrorMessage, RejectMessage
  <2>. QED BY <1>1, <2>1
<1>12. CASE UNCHANGED vars BY <1>1, <1>12 DEF vars
<1>13. CASE Call
  BY <1>3, <1>4, <1>5, <1>7, <1>8, <1>13 DEF Call, SetAuth, ClearAuth, SetAuthCallback
<1>14. CASE Drive
  BY <1>5, <1>9, <1>10, <1>14 DEF Drive, RefreshAuthForReconnect
<1>. QED BY <1>11, <1>12, <1>13, <1>14 DEF Next

\* Unless the last restart failed, draining the queue leads the server to exactly the
\* active queries: for any number of queries, spellings and subscribers, and across
\* any calls and reconnections.
THEOREM QuerySetAgreementInvariant == Spec => []QuerySetAgreement
<1>1. Init => Agreement BY DEF Init, New, Agreement
<1>2. TypeAndSubscriptions /\ Agreement /\ [Next]_vars => Agreement' BY NextAgrees
<1>. QED BY <1>1, <1>2, AgreementImplies, TypesAndSubscriptionsInvariant, PTL DEF Spec

=============================================================================
