-------------------------- MODULE MCRedisConnection --------------------------
(* RedisConnection for TLC; its cfg gives the limit of attempts. *)
EXTENDS RedisConnection
=============================================================================
