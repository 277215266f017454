------------------------- MODULE ClientFacadeProofs -------------------------
(***************************************************************************)
(* For any number of callers and realtime clients, any scripts of calls and *)
(* any contexts that may end: the turn of the HTTP client's mutation queue  *)
(* is never lost and never given twice, no call makes the server run its    *)
(* function twice, and no realtime client is left running unseen.           *)
(***************************************************************************)
EXTENDS ClientFacade, TLAPS

-----------------------------------------------------------------------------
(* The mutation queue *)

turnVars == <<mutationQueue, req, accepted>>

RequestState ==
  [pc : {"none", "turn", "identity", "fetch", "send"},
   queued : BOOLEAN, retry : BOOLEAN, usedCallback : BOOLEAN]

HasTurn(r) == r.queued /\ r.pc \in {"identity", "fetch", "send"}

\* The inductive invariant.  MutationTurns alone is not inductive: only a queued
\* call waits for a turn, and the server has not run the function of a call that is
\* still in progress, the one that is sent again included.
Turns ==
  /\ mutationQueue \in {0, 1}
  /\ req \in [Callers -> RequestState]
  /\ accepted \in [Callers -> {0, 1}]
  /\ \A c \in Callers : req[c].pc = "turn" => req[c].queued
  /\ \A c \in Callers : req[c].pc # "none" => accepted[c] = 0
  /\ mutationQueue = 0 <=> \E c \in Callers : HasTurn(req[c])
  /\ \A c, d \in Callers : HasTurn(req[c]) /\ HasTurn(req[d]) => c = d

\* A step of one caller's request keeps the invariant if the token moves with the
\* turn: it stays where it is, is taken from the channel, or is put back.
LEMMA OneRequest ==
  ASSUME Turns, NEW c \in Callers, NEW r \in RequestState, NEW n \in {0, 1},
         req' = [req EXCEPT ![c] = r], accepted' = [accepted EXCEPT ![c] = n],
         r.pc = "turn" => r.queued,
         r.pc # "none" => n = 0,
         \/ mutationQueue' = mutationQueue /\ (HasTurn(r) <=> HasTurn(req[c]))
         \/ mutationQueue = 1 /\ mutationQueue' = 0 /\ HasTurn(r)
         \/ mutationQueue' = 1 /\ HasTurn(req[c]) /\ ~HasTurn(r)
  PROVE  Turns'
<1>1. /\ req' \in [Callers -> RequestState] /\ accepted' \in [Callers -> {0, 1}]
      /\ req'[c] = r /\ accepted'[c] = n
      /\ \A d \in Callers : d # c => req'[d] = req[d] /\ accepted'[d] = accepted[d]
  BY DEF Turns
<1>2. mutationQueue' \in {0, 1} BY DEF Turns
<1>3. \A d \in Callers : req'[d].pc = "turn" => req'[d].queued BY <1>1 DEF Turns
<1>4. \A d \in Callers : req'[d].pc # "none" => accepted'[d] = 0 BY <1>1 DEF Turns
<1>5. \A d \in Callers : HasTurn(req'[d]) <=> IF d = c THEN HasTurn(r) ELSE HasTurn(req[d])
  BY <1>1
<1>6. /\ mutationQueue = 0 <=> \E d \in Callers : HasTurn(req[d])
      /\ \A d, e \in Callers : HasTurn(req[d]) /\ HasTurn(req[e]) => d = e
      /\ mutationQueue \in {0, 1}
  BY DEF Turns
<1>7. /\ mutationQueue' = 0 <=> \E d \in Callers : HasTurn(req'[d])
      /\ \A d, e \in Callers : HasTurn(req'[d]) /\ HasTurn(req'[e]) => d = e
  <2>1. CASE mutationQueue' = mutationQueue /\ (HasTurn(r) <=> HasTurn(req[c]))
    <3>1. \A d \in Callers : HasTurn(req'[d]) <=> HasTurn(req[d]) BY <1>5, <2>1
    <3>. QED BY <1>6, <2>1, <3>1
  <2>2. CASE mutationQueue = 1 /\ mutationQueue' = 0 /\ HasTurn(r)
    <3>1. \A d \in Callers : HasTurn(req'[d]) <=> d = c BY <1>5, <1>6, <2>2
    <3>. QED BY <2>2, <3>1
  <2>3. CASE mutationQueue' = 1 /\ HasTurn(req[c]) /\ ~HasTurn(r)
    <3>1. \A d \in Callers : ~HasTurn(req'[d]) BY <1>5, <1>6, <2>3
    <3>. QED BY <2>3, <3>1
  <2>. QED BY <2>1, <2>2, <2>3
<1>. QED BY <1>1, <1>2, <1>3, <1>4, <1>7 DEF Turns

\* A call that ends puts its turn back.
LEMMA DoneTurns ==
  ASSUME Turns, NEW c \in Callers, NEW n \in {0, 1}, Done(c),
         accepted' = [accepted EXCEPT ![c] = n]
  PROVE  Turns'
<1>1. NoRequest \in RequestState /\ NoRequest.pc = "none" /\ ~HasTurn(NoRequest)
  BY DEF NoRequest, RequestState, HasTurn
<1>2. req' = [req EXCEPT ![c] = NoRequest]
      /\ mutationQueue' = IF HasTurn(req[c]) THEN mutationQueue + 1 ELSE mutationQueue
  BY DEF Done, HoldsTurn, HasTurn
<1>3. HasTurn(req[c]) => mutationQueue = 0 BY DEF Turns
<1>4. \/ mutationQueue' = mutationQueue /\ (HasTurn(NoRequest) <=> HasTurn(req[c]))
      \/ mutationQueue' = 1 /\ HasTurn(req[c]) /\ ~HasTurn(NoRequest)
  BY <1>1, <1>2, <1>3
<1>. QED BY <1>1, <1>2, <1>4, OneRequest

\* A request in progress goes on with step to: it keeps the turn it has.
LEMMA GoesOn ==
  ASSUME Turns, NEW c \in Callers, req[c].pc \in {"identity", "fetch", "send"},
         NEW to \in {"identity", "fetch", "send"}, NEW used \in BOOLEAN, NEW again \in BOOLEAN,
         req' = [req EXCEPT ![c] = [req[c] EXCEPT !.pc = to, !.usedCallback = used, !.retry = again]],
         UNCHANGED <<mutationQueue, accepted>>
  PROVE  Turns'
<1>. DEFINE r == [req[c] EXCEPT !.pc = to, !.usedCallback = used, !.retry = again]
<1>1. req[c] \in RequestState BY DEF Turns
<1>2. r \in RequestState /\ r.pc = to /\ r.queued = req[c].queued BY <1>1 DEF RequestState
<1>3. HasTurn(r) <=> HasTurn(req[c]) BY <1>2 DEF HasTurn
<1>4. accepted[c] = 0 /\ accepted' = [accepted EXCEPT ![c] = 0] BY DEF Turns
<1>. HIDE DEF r
<1>5. r.pc # "turn" BY <1>2
<1>6. req' = [req EXCEPT ![c] = r] BY DEF r
<1>. QED BY <1>2, <1>3, <1>4, <1>5, <1>6, OneRequest

\* A new call has no turn yet: it waits for one, or skips the queue.
LEMMA BeginTurns ==
  ASSUME Turns, NEW c \in Callers, NEW queued \in BOOLEAN, MutationBegins(c, queued)
  PROVE  Turns'
<1>. DEFINE r == [NoRequest EXCEPT !.pc = IF queued THEN "turn" ELSE "identity", !.queued = queued]
<1>1. /\ r \in RequestState /\ r.queued = queued
      /\ r.pc = IF queued THEN "turn" ELSE "identity"
  BY DEF NoRequest, RequestState
<1>2. ~HasTurn(r) /\ ~HasTurn(req[c]) BY <1>1 DEF HasTurn, MutationBegins
<1>3. r.pc = "turn" => r.queued BY <1>1
<1>4. /\ req' = [req EXCEPT ![c] = r] /\ accepted' = [accepted EXCEPT ![c] = 0]
      /\ mutationQueue' = mutationQueue
  BY DEF MutationBegins
<1>. HIDE DEF r
<1>. QED BY <1>1, <1>2, <1>3, <1>4, OneRequest

\* The turn is taken from the channel.
LEMMA AcquireTurns ==
  ASSUME Turns, NEW c \in Callers, AcquireTurn(c)
  PROVE  Turns'
<1>. DEFINE r == [req[c] EXCEPT !.pc = "identity"]
<1>1. req[c] \in RequestState /\ req[c].queued BY DEF Turns, AcquireTurn
<1>2. r \in RequestState /\ r.pc = "identity" /\ r.queued BY <1>1 DEF RequestState
<1>3. HasTurn(r) BY <1>2 DEF HasTurn
<1>4. mutationQueue = 1 /\ mutationQueue' = 0 BY DEF AcquireTurn, Turns
<1>5. accepted[c] = 0 /\ accepted' = [accepted EXCEPT ![c] = 0]
  BY DEF AcquireTurn, Turns
<1>6. req' = [req EXCEPT ![c] = r] BY DEF AcquireTurn
<1>. HIDE DEF r
<1>7. r.pc = "turn" => r.queued BY <1>2
<1>. QED BY <1>2, <1>3, <1>4, <1>5, <1>6, <1>7, OneRequest

\* Every step of a request keeps the invariant.
LEMMA RequestTurns ==
  ASSUME Turns, NEW c \in Callers, Request(c)
  PROVE  Turns'
<1>0. /\ req[c] \in RequestState /\ accepted \in [Callers -> {0, 1}]
      /\ req[c].usedCallback \in BOOLEAN /\ req[c].retry \in BOOLEAN
      /\ accepted = [accepted EXCEPT ![c] = accepted[c]] /\ accepted[c] \in {0, 1}
      /\ req[c].pc # "none" => accepted[c] = 0
  BY DEF Turns, RequestState
<1>1. CASE AcquireTurn(c) BY <1>1, AcquireTurns
<1>2. CASE AcquireCancelled(c) \/ FetchFails(c)
  <2>1. Done(c) /\ accepted' = accepted BY <1>2 DEF AcquireCancelled, FetchFails
  <2>2. accepted' = [accepted EXCEPT ![c] = accepted[c]] BY <1>0, <2>1
  <2>. QED BY <1>0, <2>1, <2>2, DoneTurns
<1>3. CASE ReadIdentity(c)
  <2>. DEFINE used == http.callback # none
              to == IF http.callback # none THEN "fetch" ELSE "send"
  <2>1. /\ req[c].pc = "identity" /\ UNCHANGED <<mutationQueue, accepted>>
        /\ req' = [req EXCEPT ![c] = [req[c] EXCEPT !.pc = to, !.usedCallback = used]]
    BY <1>3 DEF ReadIdentity
  <2>2. to \in {"identity", "fetch", "send"} /\ used \in BOOLEAN OBVIOUS
  <2>. HIDE DEF to, used
  <2>3. [req[c] EXCEPT !.pc = to, !.usedCallback = used]
          = [req[c] EXCEPT !.pc = to, !.usedCallback = used, !.retry = req[c].retry]
    BY <1>0 DEF RequestState
  <2>4. req' = [req EXCEPT ![c] = [req[c] EXCEPT !.pc = to, !.usedCallback = used,
                                                 !.retry = req[c].retry]]
    BY <2>1, <2>3, Zenon
  <2>5. /\ req[c].pc \in {"identity", "fetch", "send"} /\ req[c].retry \in BOOLEAN
        /\ UNCHANGED <<mutationQueue, accepted>>
    BY <1>0, <2>1
  <2>. QED BY <2>2, <2>4, <2>5, GoesOn, Zenon
<1>4. CASE FetchToken(c)
  <2>1. /\ req[c].pc = "fetch" /\ UNCHANGED <<mutationQueue, accepted>>
        /\ req' = [req EXCEPT ![c] = [req[c] EXCEPT !.pc = "send"]]
    BY <1>4 DEF FetchToken
  <2>2. [req[c] EXCEPT !.pc = "send"]
          = [req[c] EXCEPT !.pc = "send", !.usedCallback = req[c].usedCallback, !.retry = req[c].retry]
    BY <1>0 DEF RequestState
  <2>. QED BY <1>0, <2>1, <2>2, GoesOn
<1>5. CASE Response(c)
  <2>1. PICK status \in Statuses, ran \in BOOLEAN :
          /\ Responded(c, status, ran)
          /\ IF req[c].usedCallback /\ ~req[c].retry /\ status = "rejected"
             THEN SendAgain(c) ELSE Done(c)
    BY <1>5 DEF Response
  <2>. DEFINE n == IF ran THEN 1 ELSE 0
  <2>2. req[c].pc = "send" /\ accepted' = [accepted EXCEPT ![c] = n]
    BY <1>0, <2>1 DEF Responded
  <2>3. CASE Done(c)
    <3>1. n \in {0, 1} OBVIOUS
    <3>. HIDE DEF n
    <3>. QED BY <2>2, <2>3, <3>1, DoneTurns
  <2>4. CASE SendAgain(c) /\ status = "rejected"
    <3>1. ~ran BY <2>1, <2>4 DEF Responded
    <3>2. accepted' = accepted BY <1>0, <2>2, <3>1
    <3>3. /\ req' = [req EXCEPT ![c] = [req[c] EXCEPT !.pc = "identity", !.retry = TRUE]]
          /\ UNCHANGED <<mutationQueue, accepted>>
      BY <2>4, <3>2 DEF SendAgain
    <3>4. [req[c] EXCEPT !.pc = "identity", !.retry = TRUE]
            = [req[c] EXCEPT !.pc = "identity", !.usedCallback = req[c].usedCallback, !.retry = TRUE]
      BY <1>0 DEF RequestState
    <3>. QED BY <1>0, <2>2, <3>3, <3>4, GoesOn
  <2>. QED BY <2>1, <2>3, <2>4
<1>6. CASE SendFails(c)
  <2>1. req[c].pc = "send" /\ Done(c)
        /\ accepted' \in {accepted, [accepted EXCEPT ![c] = @ + 1]}
    BY <1>6 DEF SendFails
  <2>2. \E n \in {0, 1} : accepted' = [accepted EXCEPT ![c] = n]
    BY <1>0, <2>1
  <2>. QED BY <2>1, <2>2, DoneTurns
<1>. QED BY <1>1, <1>2, <1>3, <1>4, <1>5, <1>6 DEF Request

\* The other steps of a call leave the queue and the requests alone.
LEMMA CallerTurns ==
  ASSUME Turns, NEW c \in Callers, Caller(c)
  PROVE  Turns'
<1>0. ASSUME UNCHANGED turnVars PROVE Turns'
  BY <1>0 DEF turnVars, Turns
<1>. USE DEF turnVars, httpVars
<1>1. ASSUME NEW name, NEW token, SetterBegins(c, name, token) PROVE UNCHANGED turnVars
  BY <1>1 DEF SetterBegins
<1>2. CASE \/ \E id \in {Jwt, Empty} : SetAuthBegins(c, id)
           \/ \E id \in {"key", ""} \X ActingAs : SetAdminAuthBegins(c, id)
           \/ SetAdminAuthFails(c) \/ ClearAuthBegins(c)
  BY <1>0, <1>1, <1>2 DEF SetAuthBegins, SetAdminAuthBegins, SetAdminAuthFails, ClearAuthBegins
<1>3. CASE \/ \E fetcher \in {Fetcher, none} : SetAuthCallbackBegins(c, fetcher)
           \/ CallbackAccepted(c) \/ CallbackFails(c) \/ SetHttpCallback(c) \/ SetLocalCallback(c)
  BY <1>0, <1>3 DEF SetAuthCallbackBegins, CallbackAccepted, CallbackFails, SetHttpCallback,
     SetLocalCallback
<1>4. CASE SetLocal(c) \/ SetRemote(c) \/ SubscribeBegins(c) \/ Reread(c)
  BY <1>0, <1>4 DEF SetLocal, SetRemote, SubscribeBegins, Reread
<1>5. CASE CreateClient(c) \/ CreateFails(c) \/ Install(c) \/ Discard(c) \/ Use(c)
  BY <1>0, <1>5 DEF CreateClient, CreateFails, Install, Discard, Use
<1>6. CASE Close(c) \/ CloseReturns(c) \/ ObserveBegins(c) \/ ReadState(c) \/ ForwardState(c)
  BY <1>0, <1>6 DEF Close, CloseReturns, ObserveBegins, ReadState, ForwardState
<1>7. CASE ListObservers(c) \/ AttachedAll(c) \/ (\E o \in Callers : AttachBegins(c, o))
           \/ AttachSubscribes(c)
  BY <1>0, <1>7 DEF ListObservers, AttachedAll, AttachBegins, AttachSubscribes
<1>8. CASE AttachForwards(c) \/ AttachEnds(c) \/ UnobserveBegins(c) \/ Detach(c)
  BY <1>0, <1>8 DEF AttachForwards, AttachEnds, UnobserveBegins, Detach
<1>9. CASE MutationCall(c)
  BY <1>9, BeginTurns DEF MutationCall
<1>. QED BY <1>2, <1>3, <1>4, <1>5, <1>6, <1>7, <1>8, <1>9 DEF Caller

\* The invariant holds in every reachable state.
THEOREM TurnsInvariant == Spec => []Turns
<1>1. Init => Turns
  <2>1. NoRequest \in RequestState /\ NoRequest.pc = "none" /\ ~HasTurn(NoRequest)
    BY DEF NoRequest, RequestState, HasTurn
  <2>. HIDE DEF NoRequest
  <2>. QED BY <2>1 DEF Init, HttpInit, Turns
<1>2. Turns /\ [Next]_vars => Turns'
  <2>. SUFFICES ASSUME Turns, [Next]_vars PROVE Turns' OBVIOUS
  <2>1. ASSUME NEW c \in Callers, Caller(c) PROVE Turns' BY <2>1, CallerTurns
  <2>2. ASSUME NEW c \in Callers, RequestStep(c) PROVE Turns'
    BY <2>2, RequestTurns DEF RequestStep
  <2>3. ASSUME UNCHANGED turnVars PROVE Turns' BY <2>3 DEF turnVars, Turns
  <2>4. ASSUME NEW r \in Clients, RunStep(r) \/ Notify(r) PROVE Turns'
    BY <2>3, <2>4 DEF RunStep, Notify, httpVars, turnVars
  <2>5. CASE UNCHANGED vars BY <2>3, <2>5 DEF vars, httpVars, turnVars
  <2>. QED BY <2>1, <2>2, <2>4, <2>5 DEF Next
<1>. QED BY <1>1, <1>2, PTL DEF Spec

\* The HTTP client's mutation queue lets one queued mutation at a time to the server
\* and never loses its turn, however calls are cancelled, fail, are retried or
\* return, and no call makes the server run its function twice: for any number of
\* goroutines, scripts of calls and contexts.
THEOREM MutationTurnsInvariant == Spec => []MutationTurns
<1>1. Turns => MutationTurns
  <2>1. \A c \in Callers : HoldsTurn(c) <=> HasTurn(req[c]) BY DEF HoldsTurn, HasTurn
  <2>2. Turns => \A c \in Callers : accepted[c] <= 1 BY DEF Turns
  <2>. QED BY <2>1, <2>2 DEF Turns, MutationTurns
<1>. QED BY <1>1, TurnsInvariant, PTL

-----------------------------------------------------------------------------
(* Realtime clients *)

Owns(c, r) == pc[c] = "install" /\ mine[c] = r

\* The inductive invariant: a live client is the installed one, or a call that is
\* about to install or discard it knows it.
Owned ==
  /\ DOMAIN pc = Callers /\ DOMAIN mine = Callers
  /\ DOMAIN run = Clients /\ DOMAIN cancelled = Clients
  /\ \A r \in Clients : Live(r) => r = webSocketClient \/ \E c \in Callers : Owns(c, r)

\* A step changes only the place of caller c.
OnlyCaller(c) ==
  /\ DOMAIN pc' = DOMAIN pc /\ DOMAIN mine' = DOMAIN mine
  /\ \A d \in Callers \ {c} : pc'[d] = pc[d] /\ mine'[d] = mine[d]

\* A step starts no client and cancels perhaps some.
NoneStarts ==
  /\ DOMAIN run' = DOMAIN run /\ DOMAIN cancelled' = DOMAIN cancelled
  /\ \A r \in Clients : Live(r)' => Live(r)

\* A step of a caller that owns no client, with which none is started or installed.
LEMMA OwnedFrame ==
  ASSUME Owned, NEW c \in Callers, pc[c] # "install", OnlyCaller(c), NoneStarts,
         webSocketClient' = webSocketClient
  PROVE  Owned'
<1>1. ASSUME NEW r \in Clients, Live(r)'
      PROVE  r = webSocketClient \/ \E d \in Callers : pc'[d] = "install" /\ mine'[d] = r
  <2>1. Live(r) BY <1>1 DEF NoneStarts
  <2>2. CASE r = webSocketClient BY <2>2
  <2>3. ASSUME NEW d \in Callers, Owns(d, r)
        PROVE  pc'[d] = "install" /\ mine'[d] = r
    BY <2>3 DEF Owns, OnlyCaller
  <2>. QED BY <2>1, <2>2, <2>3 DEF Owned
<1>. QED BY <1>1 DEF Owned, Owns, OnlyCaller, NoneStarts

\* Steps that leave the clients alone start none.
LEMMA SameClients ==
  ASSUME UNCHANGED <<run, cancelled>>
  PROVE  NoneStarts
BY DEF NoneStarts, Live

\* The end of a call and its way to another step concern one caller.
LEMMA OneCaller ==
  ASSUME NEW c \in Callers, NEW to, Goes(c, to), DOMAIN pc = Callers, DOMAIN mine = Callers,
         \/ mine' = mine
         \/ \E r : mine' = [mine EXCEPT ![c] = r]
  PROVE  OnlyCaller(c)
BY DEF OnlyCaller, Goes

\* A call's step that neither creates, installs nor closes a client.
Quiet(c) == pc[c] # "install" /\ OnlyCaller(c) /\ UNCHANGED <<run, cancelled, webSocketClient>>

\* The steps of identity calls are quiet.
LEMMA IdentityQuiet ==
  ASSUME Owned, NEW c \in Callers,
         \/ \E name, token : SetterBegins(c, name, token)
         \/ \E fetcher : SetAuthCallbackBegins(c, fetcher)
         \/ SetAdminAuthFails(c) \/ SetLocal(c) \/ SetRemote(c) \/ CallbackAccepted(c)
         \/ CallbackFails(c) \/ SetHttpCallback(c) \/ SetLocalCallback(c)
  PROVE  Quiet(c)
<1>. USE DEF stateVars, facadeVars, Owned, Quiet
<1>1. ASSUME NEW name, NEW token, SetterBegins(c, name, token) PROVE Quiet(c)
  BY <1>1, OneCaller DEF SetterBegins, Begin, Idle, Enter
<1>2. ASSUME NEW fetcher, SetAuthCallbackBegins(c, fetcher) PROVE Quiet(c)
  BY <1>2, OneCaller DEF SetAuthCallbackBegins, Begin, Idle, Enter
<1>3. CASE SetLocal(c) BY <1>3, OneCaller DEF SetLocal, Return
<1>4. CASE SetRemote(c) BY <1>4, OneCaller DEF SetRemote, Return
<1>5. CASE CallbackAccepted(c) BY <1>5, OneCaller DEF CallbackAccepted, Stays
<1>6. CASE CallbackFails(c) BY <1>6, OneCaller DEF CallbackFails, Return
<1>7. CASE SetHttpCallback(c) BY <1>7, OneCaller DEF SetHttpCallback, Stays
<1>8. CASE SetLocalCallback(c) BY <1>8, OneCaller DEF SetLocalCallback, Return
<1>9. CASE SetAdminAuthFails(c) BY <1>9 DEF SetAdminAuthFails, Begin, Idle, OnlyCaller
<1>. QED BY <1>1, <1>2, <1>3, <1>4, <1>5, <1>6, <1>7, <1>8, <1>9

\* So are the steps of realtime() that only read, and the calls of observers.
LEMMA OtherQuiet ==
  ASSUME Owned, NEW c \in Callers,
         \/ SubscribeBegins(c) \/ Reread(c) \/ Discard(c) \/ Use(c) \/ CloseReturns(c)
         \/ ObserveBegins(c) \/ ReadState(c) \/ ForwardState(c) \/ ListObservers(c)
         \/ AttachedAll(c) \/ (\E o \in Callers : AttachBegins(c, o)) \/ AttachSubscribes(c)
         \/ AttachForwards(c) \/ AttachEnds(c) \/ UnobserveBegins(c) \/ Detach(c)
         \/ MutationCall(c)
  PROVE  Quiet(c)
<1>. USE DEF stateVars, facadeVars, Owned, Quiet
<1>0. ASSUME UNCHANGED <<pc, mine>> PROVE OnlyCaller(c) BY <1>0 DEF OnlyCaller
<1>1. CASE SubscribeBegins(c) BY <1>1, OneCaller DEF SubscribeBegins, Begin, Idle, Enter
<1>2. CASE Reread(c) BY <1>2, OneCaller DEF Reread
<1>3. CASE Discard(c) BY <1>3, OneCaller DEF Discard, Return
<1>4. CASE Use(c) BY <1>4, OneCaller DEF Use, Return, Stays
<1>5. CASE CloseReturns(c) BY <1>5, OneCaller DEF CloseReturns, Return
<1>6. CASE ObserveBegins(c) BY <1>6, OneCaller DEF ObserveBegins, Begin, Idle, Enter
<1>7. CASE ReadState(c) BY <1>7, OneCaller DEF ReadState
<1>8. CASE ForwardState(c) BY <1>8, OneCaller DEF ForwardState, Return
<1>9. CASE ListObservers(c) BY <1>9, OneCaller DEF ListObservers
<1>10. CASE AttachedAll(c) BY <1>10, OneCaller DEF AttachedAll, Return, Stays
<1>11. ASSUME NEW o \in Callers, AttachBegins(c, o) PROVE Quiet(c)
  BY <1>0, <1>11, OneCaller DEF AttachBegins
<1>12. CASE AttachSubscribes(c) BY <1>12, OneCaller DEF AttachSubscribes, Subscribed
<1>13. CASE AttachForwards(c) BY <1>13, OneCaller DEF AttachForwards
<1>14. CASE AttachEnds(c) BY <1>14, OneCaller DEF AttachEnds, Unsubscribed
<1>15. CASE UnobserveBegins(c)
  BY <1>0, <1>15, OneCaller DEF UnobserveBegins, Begin, Idle, Enter
<1>16. CASE Detach(c) BY <1>16, OneCaller DEF Detach, Unsubscribed, Return
<1>17. CASE MutationCall(c) BY <1>0, <1>17 DEF MutationCall, Begin, Idle
<1>. QED
  BY <1>1, <1>2, <1>3, <1>4, <1>5, <1>6, <1>7, <1>8, <1>9, <1>10, <1>11, <1>12, <1>13, <1>14,
     <1>15, <1>16, <1>17

\* A new client belongs to the call that creates it, unless it is closed at once.
LEMMA CreateOwned ==
  ASSUME Owned, NEW c \in Callers, CreateClient(c) \/ CreateFails(c)
  PROVE  Owned'
<1>1. CASE CreateClient(c)
  <2>1. PICK new \in Clients : NewClient(new, TRUE) /\ mine' = [mine EXCEPT ![c] = new]
    BY <1>1 DEF CreateClient
  <2>2. /\ pc[c] = "create" /\ pc'[c] = "install" /\ mine'[c] = new
        /\ DOMAIN pc' = Callers /\ DOMAIN mine' = Callers
        /\ \A d \in Callers \ {c} : pc'[d] = pc[d] /\ mine'[d] = mine[d]
        /\ webSocketClient' = webSocketClient
    BY <1>1, <2>1 DEF CreateClient, Goes, Owned
  <2>3. /\ DOMAIN run' = Clients /\ DOMAIN cancelled' = Clients
        /\ \A r \in Clients \ {new} : run'[r] = run[r] /\ cancelled'[r] = cancelled[r]
    BY <2>1 DEF NewClient, RunTo, Owned
  <2>4. ASSUME NEW r \in Clients, Live(r)'
        PROVE  r = webSocketClient \/ \E d \in Callers : pc'[d] = "install" /\ mine'[d] = r
    <3>1. CASE r = new BY <2>2, <3>1
    <3>2. CASE r # new
      <4>1. Live(r) BY <2>3, <2>4, <3>2 DEF Live
      <4>. QED BY <2>2, <4>1 DEF Owned, Owns
    <3>. QED BY <3>1, <3>2
  <2>. QED BY <2>2, <2>3, <2>4 DEF Owned, Owns
<1>2. CASE CreateFails(c)
  <2>1. PICK new \in Clients : NewClient(new, FALSE) /\ mine' = [mine EXCEPT ![c] = new]
    BY <1>2 DEF CreateFails
  <2>2. NoneStarts BY <2>1 DEF NewClient, RunTo, Owned, NoneStarts, Live
  <2>3. OnlyCaller(c) BY <1>2, <2>1, OneCaller DEF CreateFails, Owned
  <2>. QED BY <1>2, <2>2, <2>3, OwnedFrame DEF CreateFails, facadeVars
<1>. QED BY <1>1, <1>2

\* The call installs its client, or cancels it because another one is installed.
LEMMA InstallOwned ==
  ASSUME Owned, NEW c \in Callers, Install(c)
  PROVE  Owned'
<1>1. /\ DOMAIN pc' = Callers /\ mine' = mine
      /\ \A d \in Callers \ {c} : pc'[d] = pc[d]
  BY DEF Install, Goes, Owned
<1>2. CASE webSocketClient = none
  <2>1. webSocketClient' = mine[c] /\ run' = run /\ cancelled' = cancelled
    BY <1>2 DEF Install, stateVars
  <2>2. ASSUME NEW r \in Clients, Live(r)
        PROVE  r = mine[c] \/ \E d \in Callers : pc'[d] = "install" /\ mine'[d] = r
    BY <1>1, <1>2, <2>2, NilAssumption DEF Owned, Owns
  <2>. QED BY <1>1, <2>1, <2>2 DEF Owned, Owns, Live
<1>3. CASE webSocketClient # none
  <2>1. /\ webSocketClient' = webSocketClient /\ run' = run
        /\ cancelled' = [cancelled EXCEPT ![mine[c]] = TRUE]
    BY <1>3 DEF Install, Cancel
  <2>2. /\ DOMAIN cancelled' = Clients
        /\ \A r \in Clients : Live(r)' => Live(r) /\ r # mine[c]
    BY <2>1 DEF Owned, Live
  <2>3. ASSUME NEW r \in Clients, Live(r)'
        PROVE  r = webSocketClient \/ \E d \in Callers : pc'[d] = "install" /\ mine'[d] = r
    BY <1>1, <2>2, <2>3 DEF Owned, Owns
  <2>. QED BY <1>1, <2>1, <2>2, <2>3 DEF Owned, Owns
<1>. QED BY <1>2, <1>3

\* Close cancels the installed client before it forgets it.
LEMMA CloseOwned ==
  ASSUME Owned, NEW c \in Callers, Close(c)
  PROVE  Owned'
<1>1. pc[c] = "idle" BY DEF Close, Begin, Idle
<1>2. OnlyCaller(c)
  <2>1. CASE webSocketClient = none BY <2>1 DEF Close, OnlyCaller
  <2>2. CASE webSocketClient # none BY <2>2, OneCaller DEF Close, Enter, Owned
  <2>. QED BY <2>1, <2>2
<1>3. /\ DOMAIN run' = Clients /\ DOMAIN cancelled' = Clients
      /\ \A r \in Clients : Live(r)' => Live(r) /\ r # webSocketClient
  <2>1. CASE webSocketClient = none
    BY <2>1, NilAssumption DEF Close, stateVars, Owned, Live
  <2>2. CASE webSocketClient # none
    BY <2>2 DEF Close, Cancel, Owned, Live
  <2>. QED BY <2>1, <2>2
<1>4. ASSUME NEW r \in Clients, Live(r)'
      PROVE  \E d \in Callers : pc'[d] = "install" /\ mine'[d] = r
  <2>1. PICK d \in Callers : pc[d] = "install" /\ mine[d] = r
    BY <1>3, <1>4 DEF Owned, Owns
  <2>. QED BY <1>1, <1>2, <2>1 DEF OnlyCaller
<1>. QED BY <1>2, <1>3, <1>4 DEF Owned, Owns, OnlyCaller

\* The steps of the run goroutines start no client.
LEMMA RunOwned ==
  ASSUME Owned, NEW r \in Clients, RunStep(r) \/ Notify(r)
  PROVE  Owned'
<1>1. UNCHANGED <<pc, mine, webSocketClient>>
  BY DEF RunStep, Notify, facadeVars, callVars
<1>2. NoneStarts
  <2>. USE DEF NoneStarts, Live, Owned
  <2>1. CASE Notify(r) BY <2>1 DEF Notify
  <2>2. CASE startRun(r) \/ finishRun(r) BY <2>2 DEF startRun, finishRun, RunTo
  <2>3. CASE Connected(r) \/ Reconnecting(r) BY <2>3 DEF Connected, Reconnecting
  <2>4. CASE RunDone(r) BY <2>4 DEF RunDone, RunTo
  <2>. QED BY <2>1, <2>2, <2>3, <2>4 DEF RunStep, RunChanges
<1>. QED BY <1>1, <1>2 DEF NoneStarts, Owned, Owns

\* The invariant holds in every reachable state.
THEOREM OwnedInvariant == Spec => []Owned
<1>1. Init => Owned BY DEF Init, StateInit, Owned, Live
<1>2. Owned /\ [Next]_vars => Owned'
  <2>. SUFFICES ASSUME Owned, [Next]_vars PROVE Owned' OBVIOUS
  <2>1. ASSUME NEW c \in Callers, Quiet(c) PROVE Owned'
    BY <2>1, SameClients, OwnedFrame DEF Quiet
  <2>2. ASSUME NEW c \in Callers, Caller(c) PROVE Owned'
    BY <2>1, <2>2, IdentityQuiet, OtherQuiet, CreateOwned, InstallOwned, CloseOwned
       DEF Caller, SetAuthBegins, SetAdminAuthBegins, ClearAuthBegins
  <2>3. ASSUME UNCHANGED <<stateVars, facadeVars, callVars>> PROVE Owned'
    BY <2>3 DEF stateVars, facadeVars, callVars, Owned, Owns, Live
  <2>4. ASSUME NEW c \in Callers, RequestStep(c) PROVE Owned'
    BY <2>3, <2>4 DEF RequestStep
  <2>5. CASE UNCHANGED vars BY <2>3, <2>5 DEF vars
  <2>. QED BY <2>2, <2>4, <2>5, RunOwned DEF Next
<1>. QED BY <1>1, <1>2, PTL DEF Spec

\* However many calls of Subscribe race to create a realtime client, fail, or meet a
\* Close, at most the installed client is left running when they have returned: for
\* any number of goroutines and of clients.
THEOREM NoLeakedClientsInvariant == Spec => []NoLeakedClients
<1>1. Owned => NoLeakedClients BY DEF Owned, Owns, NoLeakedClients, AllIdle, Idle
<1>. QED BY <1>1, OwnedInvariant, PTL

=============================================================================
