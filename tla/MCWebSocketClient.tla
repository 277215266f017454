-------------------------- MODULE MCWebSocketClient --------------------------
(* A finite instance of WebSocketClient: two callers, seven scenarios.       *)
EXTENDS WebSocketClient, TLC

CONSTANTS ann, bob

Scenario(a, b, n) == [calls |-> (ann :> a) @@ (bob :> b), transitions |-> n]

\* ann's calls have no deadline, bob's may expire: two Unsubscribes of one handle,
\* the second one racing Close; a watcher and a login while the client closes; a
\* watcher reading; the end of a watch and a Subscribe while the client closes; a
\* subscription that is read and given up; a mutation whose snapshot races
\* with those of two transitions, the first of which may leave an old snapshot
\* behind and the second repair it.
MCScenarios ==
  { Scenario(<< "subscribe", "unsubscribe" >>, << "unsubscribe", "close" >>, 0),
    Scenario(<< "watch", "next" >>, << "setAuth", "close" >>, 0),
    Scenario(<< "watch", "next" >>, << >>, 2),
    Scenario(<< "watch", "unwatch" >>, << "close" >>, 2),
    Scenario(<< "subscribe", "next" >>, << "close" >>, 0),
    Scenario(<< "subscribe", "next", "unsubscribe" >>, << >>, 1),
    Scenario(<< "watch", "mutation" >>, << >>, 2) }

=============================================================================
