-------------------------- MODULE MCRedisStreamsBus ---------------------------
(* Instances of RedisStreamsBus for TLC. *)
EXTENDS RedisStreamsBus, TLC

CONSTANTS g1, g2, p1, p2, s1, s2, s3

(* Two groups that each see every message.  Two processes share the work of *)
(* the first; one of them also reads for the second.                        *)
SharedProcOf == s1 :> p1 @@ s2 :> p2 @@ s3 :> p1
SharedGroupOf == s1 :> g1 @@ s2 :> g1 @@ s3 :> g2
(* Two subscribe() generators of one process and group: they share its      *)
(* reclaim cursor and its cache of groups.                                  *)
OneProcOf == s1 :> p1 @@ s2 :> p1
OneGroupOf == s1 :> g1 @@ s2 :> g1

=============================================================================
