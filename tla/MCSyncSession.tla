---------------------------- MODULE MCSyncSession ----------------------------
(* Finite instances of SyncSession.                                          *)
EXTENDS SyncSession, TLC

CONSTANTS s1, s2, listQuery, countQuery, alice

MCSpelling == {s1, s2}
MCCanonical == (s1 :> listQuery) @@ (s2 :> countQuery)
MCOneSpelling == {s1}
MCOneCanonical == s1 :> listQuery

=============================================================================
