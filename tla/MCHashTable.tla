---------------------------- MODULE MCHashTable ----------------------------
(***************************************************************************)
(* Instances of HashTable: three entries that share a bucket in a table of *)
(* one or of two buckets, two entries per bucket, and fill limits under    *)
(* which tables of one, two and four buckets follow each other.            *)
(***************************************************************************)
EXTENDS HashTable

CONSTANTS e1, e2, e3

MCHash == (e1 :> 0) @@ (e2 :> 4) @@ (e3 :> 2)
=============================================================================
