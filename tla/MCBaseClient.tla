---------------------------- MODULE MCBaseClient ----------------------------
(* Finite instances of BaseClient: three spellings of two queries.           *)
EXTENDS BaseClient, TLC

CONSTANTS s1, s2, s3, listQuery, countQuery

MCSpelling == {s1, s2, s3}
MCCanonical == (s1 :> listQuery) @@ (s2 :> listQuery) @@ (s3 :> countQuery)
MCOneSpelling == {s1}
MCOneCanonical == s1 :> listQuery
MCOneVersion == {ZeroVersion}
MCVersion == [querySet : {0}, identity : {0}, ts : 0 .. 1]

=============================================================================
