---------------------------- MODULE MCRedisQueue ----------------------------
(* Small instances of RedisQueue for TLC; the values are in the configs.    *)
EXTENDS RedisQueue
=============================================================================
