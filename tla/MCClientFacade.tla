--------------------------- MODULE MCClientFacade ---------------------------
(* Finite instances of ClientFacade: two callers and a few pairs of scripts. *)
EXTENDS ClientFacade, TLC

CONSTANTS ann, bob, r1, r2, r3

Scene(opts, a, b) == [opts |-> opts, calls |-> (ann :> a) @@ (bob :> b)]

Key == <<"key", none>>
KeyAsUser == <<"key", "user">>
KeyAsNobody == <<"key", "incomplete">>

\* Racing creations and identity changes; observers and a creation; observers and
\* a Close; a Close during a second Subscribe; tokens set before, during and after a
\* creation; a key that acts as somebody; requests while the identity changes, after
\* either order of options.
MCScenarios ==
  { Scene(<< Jwt >>, << "subscribe", "setAuthCallback" >>, << "subscribe", "clearAuth" >>),
    Scene(<< >>, << "observe", "subscribe" >>, << "observe", "unobserve" >>),
    Scene(<< >>, << "observe", "subscribe" >>, << "close", "subscribe" >>),
    Scene(<< >>, << "subscribe", "subscribe" >>, << "close" >>),
    Scene(<< >>, << "subscribe" >>, << "setAdminAuth", "setAuth" >>),
    Scene(<< Jwt, Key >>, << "mutation", "setAuth", "subscribe" >>,
                           << "setAuthCallback", "mutation" >>),
    Scene(<< KeyAsUser >>, << "subscribe", "setAuth" >>, << >>),
    Scene(<< KeyAsNobody >>, << "subscribe", "setAdminAuth" >>, << >>),
    Scene(<< Key, Jwt >>, << "setAdminAuth", "mutation" >>, << "mutationNow", "mutation" >>) }

\* A login at start, and a logout while the first subscription is made.
LogoutScenarios == { Scene(<< Jwt >>, << "subscribe" >>, << "clearAuth" >>) }

ClientSymmetry == Permutations(Clients)

=============================================================================
