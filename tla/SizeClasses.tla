---------------------------- MODULE SizeClasses ----------------------------
(***************************************************************************)
(* The size classes of the caching device-memory allocator: what           *)
(* CacheAlloc::bucketOf computes, written as a definition rather than as a *)
(* loop.  BucketLoop runs the loop of the code and is checked against it;  *)
(* MCCacheAlloc uses it to give the allocator its buckets.                 *)
(***************************************************************************)
EXTENDS Naturals

CONSTANTS
  SmallLimit,  \* 1u << 20 in the code: requests below it go to powers of two
  Granule,     \* 2u << 20 in the code: the alignment of the larger requests
  WordMod      \* 2^64 in the code: size_t arithmetic is modulo this number

ASSUME SizesAssumption ==
  /\ SmallLimit \in Nat /\ SmallLimit > 1
  /\ Granule \in Nat /\ Granule > 1
  /\ WordMod \in Nat
  /\ 2 * SmallLimit <= WordMod
  /\ 2 * Granule <= WordMod

Words == 0 .. WordMod - 1

(* 2^k, enough of them to reach the limit whatever it is. *)
Power[k \in 0 .. SmallLimit] == IF k = 0 THEN 1 ELSE 2 * Power[k - 1]
PowersOfTwo == {Power[k] : k \in 0 .. SmallLimit}

MutantAlignTooFar(n) == (((n + Granule) % WordMod) \div Granule) * Granule

MutantAlignDown(n) == (n \div Granule) * Granule

(* (n + G - 1) / G * G, every operation in size_t. *)
AlignUp(n) == (((n + Granule - 1) % WordMod) \div Granule) * Granule

Effective(n) == IF n = 0 THEN 1 ELSE n

(* The least power of two that holds a small request, or the request       *)
(* aligned to the granule.                                                 *)
BucketOf(n) ==
  LET m == Effective(n)
  IN  IF m < SmallLimit
      THEN CHOOSE p \in PowersOfTwo :
             m <= p /\ \A q \in PowersOfTwo : m <= q => p <= q
      ELSE AlignUp(m)
=============================================================================
