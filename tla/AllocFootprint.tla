--------------------------- MODULE AllocFootprint ---------------------------
(***************************************************************************)
(* CacheAlloc never gives memory back while the cache is on.  This module  *)
(* records the demand it has seen, to say how much it can come to hold.    *)
(***************************************************************************)
EXTENDS CacheAlloc, FiniteSets

(* A process has finitely many threads, a device finitely many addresses. *)
ASSUME FiniteAssumption == IsFiniteSet(Threads) /\ IsFiniteSet(Addrs)

VARIABLE peak   \* history: bucket -> the most blocks wanted at one time

fvars == <<vars, peak>>

(* Blocks of bucket b that callers hold, wait for or are giving back. *)
Demand(b) ==
    Cardinality({a \in DOMAIN held : Bucket(held[a]) = b})
  + Cardinality({t \in Threads : /\ pc[t] \in {"lookup", "cudaMalloc", "insert"}
                                 /\ Bucket(size[t]) = b})
  + Cardinality({t \in Threads : /\ pc[t] \in {"free", "cudaFree"}
                                 /\ ptr[t] \in DOMAIN driver
                                 /\ driver[ptr[t]].size = b})

Footprint(b) == Cardinality({a \in DOMAIN driver : driver[a].size = b})

FInit == Init /\ peak = [b \in Buckets |-> 0]

FNext ==
  /\ Next
  /\ peak' = [b \in Buckets |-> IF Demand(b)' > peak[b] THEN Demand(b)' ELSE peak[b]]

FSpec == FInit /\ [][FNext]_fvars

(* "malloc prefers reusing a same-sized block" (runtime.cu:11): the driver *)
(* never holds more blocks of a bucket than were wanted at one time, so a  *)
(* program whose demand is steady makes cudaMalloc calls only while it     *)
(* warms up; the property a captured decoding step relies on.              *)
FootprintWithinPeak == \A b \in Buckets : Footprint(b) <= peak[b]
=============================================================================
