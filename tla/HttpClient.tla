----------------------------- MODULE HttpClient -----------------------------
(***************************************************************************)
(* convex.HTTPClient: the identity it sends, the mutation queue (a channel  *)
(* that holds one token) and the steps of a request: waiting for a turn,    *)
(* copying the identity, asking the auth callback, sending, and one retry   *)
(* with a refreshed token when the server rejects what a callback returned. *)
(* Other goroutines may change the identity between any two steps.          *)
(***************************************************************************)
EXTENDS Integers, FiniteSets

CONSTANTS
  Callers,   \* goroutines of the application
  Bounded,   \* the callers whose contexts may end
  none       \* the empty token, the nil callback, the nil pointer

VARIABLES
  http,      \* [auth, admin, callback]
  mutationQueue,  \* the tokens in the channel
  req,       \* per caller: the request in progress
  accepted   \* history, per caller: how often the server accepted the request

httpVars == <<http, mutationQueue, req, accepted>>

-----------------------------------------------------------------------------
(* Identity *)

\* An identity is a token, "" when it is empty, and whom an admin key acts as: the
\* attributes name a user, lack what identifies one, come second after a nil, or
\* cannot be encoded (too many, or not JSON).
ActingAs == {none, "user", "incomplete", "second", "unencodable"}

NoAuth == [auth |-> none, admin |-> none, callback |-> none]

\* The field that keeps only a token.
TokenField(id) == IF id[1] = "" THEN none ELSE id

\* Only the first attributes count, and they make even an empty token an identity.
encodeAdminAuth(id) ==
  LET as == IF id[2] = "second" THEN none ELSE id[2]
  IN IF as = none THEN TokenField(<<id[1], none>>) ELSE <<id[1], as>>

\* authHeaderValue and realtime() choose in the same order.
Chosen(id) ==
  IF id.callback # none THEN id.callback
  ELSE IF id.admin # none THEN id.admin ELSE id.auth

\* An empty token leaves the identity of the other kind in place.
HttpSetAuth(id) ==
  LET auth == TokenField(id)
  IN http' = [auth |-> auth, admin |-> IF auth = none THEN http.admin ELSE none,
              callback |-> none]

HttpSetAdminAuth(id) ==
  LET admin == encodeAdminAuth(id)
  IN http' = [admin |-> admin, auth |-> IF admin = none THEN http.auth ELSE none,
              callback |-> none]

HttpClearAuth == http' = NoAuth

HttpSetAuthCallback(fetcher) == http' = [NoAuth EXCEPT !.callback = fetcher]

-----------------------------------------------------------------------------
(* Requests *)

NoRequest == [pc |-> "none", queued |-> FALSE, retry |-> FALSE, usedCallback |-> FALSE]

HoldsTurn(c) == req[c].queued /\ req[c].pc \in {"identity", "fetch", "send"}

\* The deferred release runs however the call ends.
DoneKeepsTurn(c) ==
  /\ req' = [req EXCEPT ![c] = NoRequest]
  /\ UNCHANGED mutationQueue

Done(c) ==
  /\ req' = [req EXCEPT ![c] = NoRequest]
  /\ mutationQueue' = IF HoldsTurn(c) THEN mutationQueue + 1 ELSE mutationQueue

\* MutationValue, with or without SkipMutationQueue.
MutationBegins(c, queued) ==
  /\ req[c].pc = "none"
  /\ req' = [req EXCEPT ![c] = [NoRequest EXCEPT !.pc = IF queued THEN "turn" ELSE "identity",
                                                 !.queued = queued]]
  /\ accepted' = [accepted EXCEPT ![c] = 0]
  /\ UNCHANGED <<http, mutationQueue>>

AcquireTurn(c) ==
  /\ req[c].pc = "turn" /\ mutationQueue > 0
  /\ mutationQueue' = mutationQueue - 1
  /\ req' = [req EXCEPT ![c].pc = "identity"]
  /\ UNCHANGED <<http, accepted>>

AcquireCancelled(c) ==
  /\ req[c].pc = "turn" /\ c \in Bounded
  /\ Done(c)
  /\ UNCHANGED <<http, accepted>>

\* authHeaderValue copies the three fields under the lock.
ReadIdentity(c) ==
  /\ req[c].pc = "identity"
  /\ req' = [req EXCEPT ![c].pc = IF http.callback # none THEN "fetch" ELSE "send",
                        ![c].usedCallback = http.callback # none]
  /\ UNCHANGED <<http, mutationQueue, accepted>>

\* The callback runs without the lock.
FetchToken(c) ==
  /\ req[c].pc = "fetch"
  /\ req' = [req EXCEPT ![c].pc = "send"]
  /\ UNCHANGED <<http, mutationQueue, accepted>>

FetchFails(c) ==
  /\ req[c].pc = "fetch"
  /\ Done(c)
  /\ UNCHANGED <<http, accepted>>

\* What the server does with a request: it runs the function, which may fail; it
\* rejects the identity (401, 403) before that; or it breaks down, maybe afterwards.
Statuses == {"success", "functionError", "rejected", "otherError"}

Responded(c, status, ran) ==
  /\ req[c].pc = "send"
  /\ status \in {"success", "functionError"} => ran
  /\ status = "rejected" => ~ran
  /\ accepted' = [accepted EXCEPT ![c] = IF ran THEN @ + 1 ELSE @]
  /\ UNCHANGED http

SendAgain(c) ==
  /\ req' = [req EXCEPT ![c].pc = "identity", ![c].retry = TRUE]
  /\ UNCHANGED mutationQueue

ResponseAnyErrorRetries(c) ==
  \E status \in Statuses, ran \in BOOLEAN :
    /\ Responded(c, status, ran)
    /\ IF req[c].usedCallback /\ ~req[c].retry /\ status \in {"rejected", "otherError"}
       THEN SendAgain(c) ELSE Done(c)

\* doRequestWithAuthRetry: one more attempt if a callback's token was rejected.
Response(c) ==
  \E status \in Statuses, ran \in BOOLEAN :
    /\ Responded(c, status, ran)
    /\ IF req[c].usedCallback /\ ~req[c].retry /\ status = "rejected"
       THEN SendAgain(c) ELSE Done(c)

\* No connection, or the context ended: an error, and no second attempt.
SendFails(c) ==
  /\ req[c].pc = "send"
  /\ Done(c)
  /\ accepted' \in {accepted, [accepted EXCEPT ![c] = @ + 1]}
  /\ UNCHANGED http

Request(c) ==
  \/ AcquireTurn(c) \/ AcquireCancelled(c) \/ ReadIdentity(c) \/ FetchToken(c) \/ FetchFails(c)
  \/ Response(c) \/ SendFails(c)

HttpInit ==
  /\ mutationQueue = 1
  /\ req = [c \in Callers |-> NoRequest]
  /\ accepted = [c \in Callers |-> 0]

\* However calls are cancelled, fail or return, there is one token for one turn: it
\* is in the channel or with exactly one mutation, so queued mutations go to the
\* server one at a time and none waits for a token that is gone; and no call makes
\* the server run its function twice.
MutationTurns ==
  /\ mutationQueue \in {0, 1}
  /\ mutationQueue = 0 <=> \E c \in Callers : HoldsTurn(c)
  /\ \A c, d \in Callers : HoldsTurn(c) /\ HoldsTurn(d) => c = d
  /\ \A c \in Callers : accepted[c] <= 1

=============================================================================
