----------------------------- MODULE MCCacheGC -----------------------------
(* Model-checking instance of CacheGC: two FUSE threads, one or two paths, *)
(* a one-second timeout so that a timestamp is fresh, one second old, or   *)
(* expired, and three disk levels: below, between and at the watermarks.  *)
EXTENDS CacheGC

MCUsage == 0..2
MCLow == 1
MCHigh == 2


=============================================================================
