---------------------------- MODULE MCCacheAlloc ----------------------------
(* The allocator on small instances, the demand recorded: the cache on,    *)
(* with one device, or off (ACL_NO_CACHE_ALLOC), with two devices; and, in *)
(* CacheDevices.cfg, the cache on with two devices.  The sizes 3 and 4     *)
(* share a bucket, which matters to the cache alone, and 9 has its own;    *)
(* buckets come from SizeClasses with 1 MB scaled to 16.                   *)
EXTENDS AllocFootprint, TLC

Classes == INSTANCE SizeClasses WITH SmallLimit <- 16, Granule <- 32, WordMod <- 512

BucketOfSize == [n \in {3, 4, 9} |-> Classes!BucketOf(n)]
MCBucket(n) == BucketOfSize[n]
MCSizes == {3, 4, 9}
MCTwoDevices == {0, 1}

VARIABLE cached   \* whether the process runs with the cache
MaxUncached == 2  \* bound: driver blocks of a process without it

On == INSTANCE AllocFootprint WITH Devices <- {0}, Enabled <- TRUE
Off == INSTANCE AllocFootprint WITH Enabled <- FALSE, Sizes <- {3, 9}

MCInit == \/ cached = TRUE /\ On!FInit
          \/ cached = FALSE /\ Off!FInit
MCNext ==
  \/ cached = TRUE /\ On!FNext /\ UNCHANGED cached
  \/ /\ cached = FALSE /\ Off!FNext
     /\ Cardinality(DOMAIN driver') <= MaxUncached
     /\ UNCHANGED cached
MCSpec == MCInit /\ [][MCNext]_<<fvars, cached>>

(* The cache alone, used for two devices. *)
DevicesSpec == cached = TRUE /\ FInit /\ [][FNext /\ UNCHANGED cached]_<<fvars, cached>>

Symmetric == Permutations(Threads) \cup Permutations(Addrs)
=============================================================================
