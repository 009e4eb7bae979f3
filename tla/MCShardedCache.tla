--------------------------- MODULE MCShardedCache ---------------------------
(* Three keys, two of which share a shard. *)
EXTENDS ShardedCache, TLC

CONSTANTS a, b, c

MCKeys    == {a, b, c}
MCShardOf == (a :> 0) @@ (b :> 0) @@ (c :> 1)
=============================================================================
