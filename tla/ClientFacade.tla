---------------------------- MODULE ClientFacade ----------------------------
(***************************************************************************)
(* convex.Client: one HTTP client, one realtime client that is created by   *)
(* the first call that needs it, the identity that both must use, and the   *)
(* observers of the connection state, which outlive a realtime client.      *)
(*                                                                         *)
(* Each caller runs a script of calls, each a sequence of steps that hold   *)
(* Client.mu, the HTTP client's lock or a realtime client's.  What happens  *)
(* inside a realtime client is the subject of WebSocketClient; here it has  *)
(* an identity, a connection state and a life.                              *)
(***************************************************************************)
EXTENDS HttpClient, ConnectionState, Sequences

CONSTANT Scenarios   \* records [opts, calls]: the options and the scripts of calls

ASSUME NilAssumption == none \notin Clients

VARIABLES
  local,           \* authToken, adminAuthToken, authCallback
  webSocketClient, \* the installed realtime client
  identity,        \* per realtime client: the identity it was given
  observers,       \* per caller: its connection-state observer
  script, pc, op,
  arg,             \* the identity of a setter
  mine,            \* the realtime client a call has read or created
  held,            \* a connection state read and not yet forwarded
  todo,            \* the observers a call has still to attach
  agreed,          \* history: no identity call has overlapped, failed, been empty or
                   \* named somebody to act as whom only one of the two understands
  closeAlone,      \* history: no Close has overlapped with a call it may disturb
  calm,            \* history, per client: no call since its last state change
  loggedOut        \* history: the last identity call was a logout that returned nil

callVars == <<script, pc, op, arg, mine, held, todo>>
historyVars == <<agreed, closeAlone, calm, loggedOut>>
facadeVars == <<local, webSocketClient, identity, observers>>
vars == <<httpVars, stateVars, facadeVars, callVars, historyVars>>

Jwt == <<"jwt", none>>
Fetcher == <<"fetcher", none>>
Empty == <<"", none>>

Setters == {"setAuth", "setAdminAuth", "clearAuth", "setAuthCallback"}
Disturbed == {"subscribe", "observe", "unobserve"}

NoObserver == [registered |-> FALSE, attaching |-> FALSE, unsubscribe |-> none, last |-> none]

-----------------------------------------------------------------------------
(* Calls *)

Idle(c) == pc[c] = "idle" /\ req[c].pc = "none"
Busy(c, ops) == \E d \in Callers \ {c} : op[d] \in ops

Goes(c, to) == pc' = [pc EXCEPT ![c] = to]

\* An identity call counts as agreed when nothing that copies or sets an identity
\* runs beside it; Close counts as alone under the same kind of condition.
Begin(c, name) ==
  /\ Idle(c) /\ script[c] # << >> /\ Head(script[c]) = name
  /\ script' = [script EXCEPT ![c] = Tail(@)]
  /\ closeAlone' = (closeAlone /\ ~(name = "close" /\ Busy(c, Disturbed))
                               /\ ~(name \in Disturbed /\ Busy(c, {"close"})))
  /\ calm' = [r \in Clients |-> FALSE]

Overlaps(c, name) ==
  \/ name \in Setters /\ Busy(c, Setters \cup {"subscribe"})
  \/ name = "subscribe" /\ Busy(c, Setters)

\* The call goes on with step to, its argument token and the client r.
Enter(c, name, to, token, r) ==
  /\ op' = [op EXCEPT ![c] = name]
  /\ Goes(c, to)
  /\ arg' = [arg EXCEPT ![c] = token]
  /\ mine' = [mine EXCEPT ![c] = r]

Return(c) ==
  /\ Goes(c, "idle")
  /\ op' = [op EXCEPT ![c] = "none"]
  /\ arg' = [arg EXCEPT ![c] = none]
  /\ mine' = [mine EXCEPT ![c] = none]
  /\ held' = [held EXCEPT ![c] = none]
  /\ UNCHANGED <<script, todo>>

Stays == UNCHANGED <<script, op, arg, mine, held, todo>>

-----------------------------------------------------------------------------
(* Identity: SetAuthContext, SetAdminAuthContext, ClearAuthContext *)

\* syncIdentityAttributes skips a nil and, silently, attributes that lack what
\* identifies a user; the first of the others is used.
syncIdentityAttributes(id) ==
  IF id = none THEN none
  ELSE <<id[1], IF id[2] = "incomplete" THEN none ELSE IF id[2] = "second" THEN "user" ELSE id[2]>>

\* Both clients know the identity, and by the same name.
Understood(id) == id[1] # "" /\ id[2] \in {none, "user"}

\* The HTTP client first.
SetterBegins(c, name, id) ==
  /\ Begin(c, name)
  /\ Enter(c, name, "local", id, none)
  /\ agreed' = (agreed /\ ~Overlaps(c, name) /\ (Understood(id) \/ name = "clearAuth"))
  /\ loggedOut' = FALSE
  /\ UNCHANGED <<mutationQueue, req, accepted, stateVars, facadeVars, held, todo>>

SetAuthBegins(c, id) == SetterBegins(c, "setAuth", id) /\ HttpSetAuth(id)

SetAdminAuthBegins(c, id) ==
  /\ id[2] # "unencodable"
  /\ SetterBegins(c, "setAdminAuth", id)
  /\ HttpSetAdminAuth(id)

\* The HTTP client refuses the attributes: nothing has changed.
SetAdminAuthFails(c) ==
  /\ Begin(c, "setAdminAuth")
  /\ UNCHANGED <<httpVars, stateVars, facadeVars, pc, op, arg, mine, held, todo, agreed,
                 loggedOut>>

ClearAuthBegins(c) == SetterBegins(c, "clearAuth", Empty) /\ HttpClearAuth

\* The client's own fields, and a look at the realtime client.
SetLocal(c) ==
  /\ pc[c] = "local"
  /\ local' = IF op[c] = "setAdminAuth" THEN [NoAuth EXCEPT !.admin = TokenField(arg[c])]
              ELSE [NoAuth EXCEPT !.auth = TokenField(arg[c])]
  /\ IF webSocketClient = none
     THEN Return(c) /\ loggedOut' = (op[c] = "clearAuth")
     ELSE /\ Goes(c, "remote")
          /\ mine' = [mine EXCEPT ![c] = webSocketClient]
          /\ UNCHANGED <<script, op, arg, held, todo, loggedOut>>
  /\ UNCHANGED <<httpVars, stateVars, webSocketClient, identity, observers, agreed, closeAlone,
                 calm>>

\* The realtime client; its flush may fail after the identity has been set.
SetRemote(c) ==
  LET r == mine[c]
  IN /\ pc[c] = "remote"
     /\ identity' = IF Live(r)
                    THEN [identity EXCEPT ![r] = IF op[c] = "clearAuth" THEN none
                                                 ELSE syncIdentityAttributes(arg[c])]
                    ELSE identity
     /\ Return(c)
     /\ \/ loggedOut' = (op[c] = "clearAuth" /\ Live(r))
        \/ UNCHANGED loggedOut
     /\ UNCHANGED <<httpVars, stateVars, local, webSocketClient, observers, agreed, closeAlone, calm>>

(* SetAuthCallbackContext: the realtime client first, the rest only on success *)

SetAuthCallbackBegins(c, fetcher) ==
  /\ Begin(c, "setAuthCallback")
  /\ Enter(c, "setAuthCallback", "callback", fetcher, webSocketClient)
  /\ agreed' = (agreed /\ ~Overlaps(c, "setAuthCallback"))
  /\ loggedOut' = FALSE
  /\ UNCHANGED <<httpVars, stateVars, facadeVars, held, todo>>

CallbackAccepted(c) ==
  LET r == mine[c]
  IN /\ pc[c] = "callback"
     /\ r # none => Live(r)
     /\ identity' = IF r = none THEN identity ELSE [identity EXCEPT ![r] = arg[c]]
     /\ Goes(c, "callbackHttp") /\ Stays
     /\ UNCHANGED <<httpVars, stateVars, local, webSocketClient, observers, historyVars>>

\* The callback fails or the client is closed: nothing has changed.  The flush
\* fails: the realtime client uses the callback, the HTTP client does not.
CallbackFails(c) ==
  LET r == mine[c]
  IN /\ pc[c] = "callback"
     /\ Return(c)
     /\ \/ (arg[c] # none \/ (r # none /\ ~Live(r))) /\ UNCHANGED <<identity, agreed>>
        \/ /\ r # none /\ Live(r)
           /\ identity' = [identity EXCEPT ![r] = arg[c]]
           /\ agreed' = FALSE
     /\ UNCHANGED <<httpVars, stateVars, local, webSocketClient, observers, closeAlone, calm,
                    loggedOut>>

SetHttpCallback(c) ==
  /\ pc[c] = "callbackHttp"
  /\ HttpSetAuthCallback(arg[c])
  /\ Goes(c, "callbackLocal") /\ Stays
  /\ UNCHANGED <<mutationQueue, req, accepted, stateVars, facadeVars, historyVars>>

SetLocalCallbackKeepsToken(c) ==
  /\ pc[c] = "callbackLocal"
  /\ local' = [local EXCEPT !.callback = arg[c]]
  /\ Return(c)
  /\ UNCHANGED <<httpVars, stateVars, webSocketClient, identity, observers, historyVars>>

SetLocalCallback(c) ==
  /\ pc[c] = "callbackLocal"
  /\ local' = [NoAuth EXCEPT !.callback = arg[c]]
  /\ Return(c)
  /\ UNCHANGED <<httpVars, stateVars, webSocketClient, identity, observers, historyVars>>

-----------------------------------------------------------------------------
(* realtime(), the first part of Subscribe and WatchAll *)

\* The pointer is read without the lock, and then again with it.
SubscribeBegins(c) ==
  /\ Begin(c, "subscribe")
  /\ Enter(c, "subscribe", IF webSocketClient = none THEN "create" ELSE "reread", none, none)
  /\ agreed' = (agreed /\ ~Overlaps(c, "subscribe"))
  /\ UNCHANGED <<httpVars, stateVars, facadeVars, held, todo, loggedOut>>

Reread(c) ==
  /\ pc[c] = "reread"
  /\ mine' = [mine EXCEPT ![c] = webSocketClient]
  /\ Goes(c, "use")
  /\ UNCHANGED <<script, op, arg, held, todo, httpVars, stateVars, facadeVars, historyVars>>

\* The identity is copied under the lock and given to a new client, which nobody
\* else can see.
CreateClient(c) ==
  /\ pc[c] = "create"
  /\ \E r \in Clients :
       /\ NewClient(r, TRUE)
       /\ identity' = [identity EXCEPT ![r] = syncIdentityAttributes(Chosen(local))]
       /\ mine' = [mine EXCEPT ![c] = r]
  /\ Goes(c, "install")
  /\ UNCHANGED <<script, op, arg, held, todo, httpVars, local, webSocketClient, observers,
                 historyVars>>

\* The context has ended or the auth callback fails: the new client is closed.
CreateFails(c) ==
  /\ pc[c] = "create"
  /\ c \in Bounded \/ local.callback # none
  /\ \E r \in Clients : NewClient(r, FALSE) /\ mine' = [mine EXCEPT ![c] = r]
  /\ arg' = [arg EXCEPT ![c] = none]
  /\ Goes(c, "discard")
  /\ UNCHANGED <<script, op, held, todo, httpVars, facadeVars, historyVars>>

\* Somebody else was faster: their client is used, the new one is closed.
InstallKeepsBoth(c) ==
  /\ pc[c] = "install"
  /\ IF webSocketClient = none
     THEN webSocketClient' = mine[c] /\ Goes(c, "list") /\ UNCHANGED <<stateVars, arg, mine>>
     ELSE /\ mine' = [mine EXCEPT ![c] = webSocketClient]
          /\ Goes(c, "use")
          /\ UNCHANGED <<webSocketClient, stateVars, arg>>
  /\ UNCHANGED <<script, op, held, todo, httpVars, local, identity, observers, historyVars>>

Install(c) ==
  /\ pc[c] = "install"
  /\ IF webSocketClient = none
     THEN webSocketClient' = mine[c] /\ Goes(c, "list") /\ UNCHANGED <<stateVars, arg>>
     ELSE /\ Cancel(mine[c])
          /\ arg' = [arg EXCEPT ![c] = webSocketClient]
          /\ Goes(c, "discard")
          /\ UNCHANGED webSocketClient
  /\ UNCHANGED <<script, op, mine, held, todo, httpVars, local, identity, observers, historyVars>>

\* Close waits for the new client; the caller goes on with the existing one, or
\* returns an error.
DiscardKeepsOwn(c) ==
  /\ pc[c] = "discard" /\ run[mine[c]] = "done"
  /\ IF arg[c] = none THEN Return(c) ELSE Goes(c, "use") /\ Stays
  /\ UNCHANGED <<httpVars, stateVars, facadeVars, historyVars>>

Discard(c) ==
  /\ pc[c] = "discard" /\ run[mine[c]] = "done"
  /\ IF arg[c] = none
     THEN Return(c)
     ELSE /\ mine' = [mine EXCEPT ![c] = arg[c]]
          /\ Goes(c, "use")
          /\ UNCHANGED <<script, op, arg, held, todo>>
  /\ UNCHANGED <<httpVars, stateVars, facadeVars, historyVars>>

\* A method of a nil client panics.
Use(c) ==
  /\ pc[c] = "use"
  /\ IF mine[c] = none THEN Goes(c, "panicked") /\ Stays ELSE Return(c)
  /\ UNCHANGED <<httpVars, stateVars, facadeVars, historyVars>>

Close(c) ==
  /\ Begin(c, "close")
  /\ webSocketClient' = none
  /\ IF webSocketClient = none
     THEN UNCHANGED <<stateVars, pc, op, arg, mine>>
     ELSE Cancel(webSocketClient) /\ Enter(c, "close", "closing", none, webSocketClient)
  /\ UNCHANGED <<httpVars, local, identity, observers, held, todo, agreed, loggedOut>>

CloseReturns(c) ==
  /\ pc[c] = "closing" /\ run[mine[c]] = "done"
  /\ observers' = [o \in Callers |->
                     [observers[o] EXCEPT !.unsubscribe = none, !.attaching = FALSE]]
  /\ Return(c)
  /\ UNCHANGED <<httpVars, stateVars, local, webSocketClient, identity, historyVars>>

-----------------------------------------------------------------------------
(* Observers of the connection state *)

Free(o) == observers[o].registered /\ ~observers[o].attaching /\ observers[o].unsubscribe = none

ForwardToAnybody(o, s) == observers' = [observers EXCEPT ![o].last = s]

\* forwardConnectionState; the application's callback is taken to run at once.
Forward(o, s) ==
  observers' = IF observers[o].registered THEN [observers EXCEPT ![o].last = s] ELSE observers

ObserveBegins(c) ==
  /\ Begin(c, "observe")
  /\ Enter(c, "observe", "observeState", none, webSocketClient)
  /\ observers' = [observers EXCEPT ![c].registered = TRUE]
  /\ UNCHANGED <<httpVars, stateVars, local, webSocketClient, identity, held, todo, agreed,
                 loggedOut>>

\* ConnectionState, read before it is forwarded.
ReadState(c) ==
  /\ pc[c] = "observeState"
  /\ held' = [held EXCEPT ![c] = IF webSocketClient = none THEN Phase("Disconnected", none, 0, 0)
                                 ELSE state[webSocketClient]]
  /\ Goes(c, "observeForward")
  /\ UNCHANGED <<script, op, arg, mine, todo, httpVars, stateVars, facadeVars, historyVars>>

ForwardState(c) ==
  /\ pc[c] = "observeForward"
  /\ Forward(c, held[c])
  /\ IF mine[c] = none
     THEN Return(c)
     ELSE /\ todo' = [todo EXCEPT ![c] = {c}]
          /\ held' = [held EXCEPT ![c] = none]
          /\ Goes(c, "attach")
          /\ UNCHANGED <<script, op, arg, mine>>
  /\ UNCHANGED <<httpVars, stateVars, local, webSocketClient, identity, historyVars>>

\* attachConnectionStateObservers, after a new client was installed.
ListObservers(c) ==
  /\ pc[c] = "list"
  /\ todo' = [todo EXCEPT ![c] = {o \in Callers : Free(o)}]
  /\ Goes(c, "attach")
  /\ UNCHANGED <<script, op, arg, mine, held, httpVars, stateVars, facadeVars, historyVars>>

AttachedAll(c) ==
  /\ pc[c] = "attach" /\ todo[c] = {}
  /\ IF op[c] = "subscribe" THEN Goes(c, "use") /\ Stays ELSE Return(c)
  /\ UNCHANGED <<httpVars, stateVars, facadeVars, historyVars>>

\* attachConnectionStateObserver for one of the observers to do, in four steps.
AttachBeginsUnguarded(c, o) ==
  /\ pc[c] = "attach" /\ o \in todo[c]
  /\ todo' = [todo EXCEPT ![c] = @ \ {o}]
  /\ IF observers[o].registered
     THEN /\ observers' = [observers EXCEPT ![o].attaching = TRUE]
          /\ arg' = [arg EXCEPT ![c] = o]
          /\ Goes(c, "attachSubscribe")
     ELSE UNCHANGED <<observers, arg, pc>>
  /\ UNCHANGED <<script, op, mine, held, httpVars, stateVars, local, webSocketClient, identity,
                 historyVars>>

AttachBegins(c, o) ==
  /\ pc[c] = "attach" /\ o \in todo[c]
  /\ todo' = [todo EXCEPT ![c] = @ \ {o}]
  /\ IF Free(o)
     THEN /\ observers' = [observers EXCEPT ![o].attaching = TRUE]
          /\ arg' = [arg EXCEPT ![c] = o]
          /\ Goes(c, "attachSubscribe")
     ELSE UNCHANGED <<observers, arg, pc>>
  /\ UNCHANGED <<script, op, mine, held, httpVars, stateVars, local, webSocketClient, identity,
                 historyVars>>

AttachSubscribes(c) ==
  /\ pc[c] = "attachSubscribe"
  /\ Subscribed(mine[c], <<arg[c], c>>)
  /\ held' = [held EXCEPT ![c] = state[mine[c]]]
  /\ Goes(c, "attachForward")
  /\ UNCHANGED <<script, op, arg, mine, todo, httpVars, facadeVars, historyVars>>

AttachForwards(c) ==
  /\ pc[c] = "attachForward"
  /\ Forward(arg[c], held[c])
  /\ held' = [held EXCEPT ![c] = none]
  /\ Goes(c, "attachEnd")
  /\ UNCHANGED <<script, op, arg, mine, todo, httpVars, stateVars, local, webSocketClient, identity,
                 historyVars>>

\* The observer is gone, or has been attached by somebody else meanwhile: both
\* subscriptions are dropped in the second case.
AttachEnds(c) ==
  LET o == arg[c]
      new == <<mine[c], <<o, c>>>>
  IN /\ pc[c] = "attachEnd"
     /\ Goes(c, "attach")
     /\ arg' = [arg EXCEPT ![c] = none]
     /\ \/ /\ ~observers[o].registered
           /\ Unsubscribed({new})
           /\ UNCHANGED observers
        \/ /\ observers[o].registered /\ observers[o].unsubscribe # none
           /\ Unsubscribed({new, observers[o].unsubscribe})
           /\ observers' = [observers EXCEPT ![o].attaching = FALSE]
        \/ /\ observers[o].registered /\ observers[o].unsubscribe = none
           /\ observers' = [observers EXCEPT ![o].attaching = FALSE, ![o].unsubscribe = new]
           /\ UNCHANGED stateVars
     /\ UNCHANGED <<script, op, mine, held, todo, httpVars, local, webSocketClient, identity,
                    historyVars>>

\* The function SubscribeToConnectionState returned.
UnobserveBegins(c) ==
  /\ Begin(c, "unobserve")
  /\ observers' = [observers EXCEPT ![c] = NoObserver]
  /\ IF observers[c].unsubscribe = none
     THEN UNCHANGED <<pc, op, arg, mine>>
     ELSE Enter(c, "unobserve", "detach", observers[c].unsubscribe, none)
  /\ UNCHANGED <<httpVars, stateVars, local, webSocketClient, identity, held, todo, agreed,
                 loggedOut>>

Detach(c) ==
  /\ pc[c] = "detach"
  /\ Unsubscribed({arg[c]})
  /\ Return(c)
  /\ UNCHANGED <<httpVars, facadeVars, historyVars>>

-----------------------------------------------------------------------------
(* The specification *)

MutationCall(c) ==
  /\ \/ Begin(c, "mutation") /\ MutationBegins(c, TRUE)
     \/ Begin(c, "mutationNow") /\ MutationBegins(c, FALSE)
  /\ UNCHANGED <<stateVars, facadeVars, pc, op, arg, mine, held, todo, agreed, loggedOut>>

Caller(c) ==
  \/ \E id \in {Jwt, Empty} : SetAuthBegins(c, id)
  \/ \E id \in {"key", ""} \X ActingAs : SetAdminAuthBegins(c, id)
  \/ \E fetcher \in {Fetcher, none} : SetAuthCallbackBegins(c, fetcher)
  \/ SetAdminAuthFails(c) \/ ClearAuthBegins(c) \/ SetLocal(c) \/ SetRemote(c)
  \/ CallbackAccepted(c) \/ CallbackFails(c) \/ SetHttpCallback(c) \/ SetLocalCallback(c)
  \/ SubscribeBegins(c) \/ Reread(c) \/ CreateClient(c) \/ CreateFails(c) \/ Install(c)
  \/ Discard(c) \/ Use(c) \/ Close(c) \/ CloseReturns(c)
  \/ ObserveBegins(c) \/ ReadState(c) \/ ForwardState(c) \/ ListObservers(c) \/ AttachedAll(c)
  \/ (\E o \in Callers : AttachBegins(c, o))
  \/ AttachSubscribes(c) \/ AttachForwards(c) \/ AttachEnds(c)
  \/ UnobserveBegins(c) \/ Detach(c) \/ MutationCall(c)

RequestStep(c) ==
  Request(c) /\ UNCHANGED <<stateVars, facadeVars, callVars, historyVars>>

\* A state change is calm when no call is in progress.
RunStep(r) ==
  /\ RunChanges(r)
  /\ calm' = IF state' # state THEN [calm EXCEPT ![r] = \A c \in Callers : Idle(c)] ELSE calm
  /\ UNCHANGED <<httpVars, facadeVars, callVars, agreed, closeAlone, loggedOut>>

\* The run goroutine calls one of the subscribers it has collected.
Notify(r) ==
  /\ \E id \in calls[r] :
       /\ calls' = [calls EXCEPT ![r] = @ \ {id}]
       /\ Forward(id[1], state[r])
  /\ UNCHANGED <<httpVars, run, cancelled, state, subscribers, local, webSocketClient, identity,
                 callVars, historyVars>>

\* WithAuth and WithAdminAuth set one field of the HTTP client, and clear the other
\* one only in the facade; an option is the identity it sets.
WithOption(cfg, id) ==
  IF id = Jwt
  THEN [http |-> [cfg.http EXCEPT !.auth = id], local |-> [NoAuth EXCEPT !.auth = id]]
  ELSE [http |-> [cfg.http EXCEPT !.admin = encodeAdminAuth(id)],
        local |-> [NoAuth EXCEPT !.admin = TokenField(id)]]

WithOptions[opts \in Seq({"jwt", "key"} \X ActingAs)] ==
  IF opts = << >> THEN [http |-> NoAuth, local |-> NoAuth]
  ELSE WithOption(WithOptions[SubSeq(opts, 1, Len(opts) - 1)], opts[Len(opts)])

Init ==
  /\ HttpInit /\ StateInit
  /\ \E s \in Scenarios :
       /\ script = s.calls
       /\ http = WithOptions[s.opts].http
       /\ local = WithOptions[s.opts].local
       /\ agreed = /\ \A i \in DOMAIN s.opts : Understood(s.opts[i])
                   /\ \A i, j \in DOMAIN s.opts : i < j /\ s.opts[j] = Jwt => s.opts[i] = Jwt
  /\ webSocketClient = none
  /\ identity = [r \in Clients |-> none]
  /\ observers = [o \in Callers |-> NoObserver]
  /\ pc = [c \in Callers |-> "idle"] /\ op = [c \in Callers |-> "none"]
  /\ arg = [c \in Callers |-> none] /\ mine = [c \in Callers |-> none]
  /\ held = [c \in Callers |-> none] /\ todo = [c \in Callers |-> {}]
  /\ closeAlone = TRUE /\ calm = [r \in Clients |-> FALSE] /\ loggedOut = FALSE

Next ==
  \/ \E c \in Callers : Caller(c) \/ RequestStep(c)
  \/ \E r \in Clients : RunStep(r) \/ Notify(r)

Spec == Init /\ [][Next]_vars

-----------------------------------------------------------------------------
(* Properties *)

AllIdle == \A c \in Callers : Idle(c)

FacadeTypeOK ==
  /\ webSocketClient \in Clients \cup {none}
  /\ \A id \in {http, local} : /\ id.auth \in {Jwt, none} /\ id.callback \in {Fetcher, none}
                               /\ id.admin \in ({"key", ""} \X ActingAs) \cup {none}
  /\ \A r \in Clients :
       identity[r] \in {Jwt, Fetcher, none} \cup ({"key", ""} \X {"user", none})
  /\ \A o \in Callers : observers[o].registered \/ observers[o] = NoObserver
  /\ \A r \in Clients : subscribers[r] \subseteq Callers \X Callers /\ Changes(r) <= MaxChanges

\* Whenever no call is in progress, HTTP requests, the next realtime client and the
\* installed one use the same identity, unless identity calls have overlapped with
\* each other or with the creation of a client, a token was empty, the flush of
\* SetAuthCallback failed, or WithAuth followed WithAdminAuth.  The last exception:
\* attributes to act as that lack what identifies a user, or that follow a nil,
\* mean somebody to one of the two and nobody to the other.
IdentitiesAgree ==
  AllIdle /\ agreed =>
    /\ Chosen(http) = syncIdentityAttributes(Chosen(local))
    /\ webSocketClient # none /\ Live(webSocketClient) =>
         identity[webSocketClient] = Chosen(http)

\* However many callers of Subscribe race to create a client, fail or meet a Close,
\* at most the installed client is left running when they have returned.
NoLeakedClients ==
  AllIdle => \A r \in Clients : Live(r) => r = webSocketClient

\* realtime() never hands out a nil or a closed client, except to a call that a
\* Close has overtaken.  A client whose Run has ended on its own stays installed.
RealtimeUsable ==
  \A c \in Callers :
    pc[c] \in {"use", "panicked"} /\ closeAlone =>
      mine[c] # none /\ mine[c] = webSocketClient

\* Unless a Close has run beside calls that register or attach observers, every
\* observer is attached to the installed client exactly once when no call is in
\* progress; and a state change that no call overlaps reaches it, whatever order
\* earlier snapshots arrived in.
ObserversFollow ==
  AllIdle /\ closeAlone /\ webSocketClient # none =>
    \A o \in {p \in Callers : observers[p].registered} :
      /\ Cardinality({id \in subscribers[webSocketClient] : id[1] = o}) = 1
      /\ calm[webSocketClient] /\ calls[webSocketClient] = {} =>
           observers[o].last = state[webSocketClient]

\* docs/RECIPES.md, "Use `ClearAuthContext` for logout flows that should remove auth
\* from both HTTP and any active realtime connection": after a logout that returned
\* nil, and with no other call in progress, neither has an identity.
LogoutIsComplete ==
  AllIdle /\ loggedOut =>
    /\ Chosen(http) = none
    /\ webSocketClient # none /\ Live(webSocketClient) => identity[webSocketClient] = none

=============================================================================
