----------------------------- MODULE BucketLoop -----------------------------
(***************************************************************************)
(* CacheAlloc::bucketOf of cuda/src/runtime.cu run statement by statement  *)
(* on one request, in size_t arithmetic: the doubling loop below 1 MB, the *)
(* alignment expression above.                                             *)
(***************************************************************************)
EXTENDS SizeClasses

CONSTANT MaxRequest   \* bound: the largest request the run makes

ASSUME MaxRequestAssumption == MaxRequest \in Words

VARIABLES
  n,    \* the argument, after "if (n == 0) n = 1"
  b,    \* the local variable b, and at the end the value returned
  pc    \* "entry", "loop" or "done"

vars == <<n, b, pc>>

Requests == 0 .. MaxRequest

Init == n \in Requests /\ b = 0 /\ pc = "entry"

MutantEnterFromZero ==
  /\ pc = "entry" /\ Effective(n) < SmallLimit
  /\ n' = Effective(n) /\ b' = 0 /\ pc' = "loop"

(* An operator named Mutant... is a bug this code could have: a run        *)
(* replaces the operator that follows it by the mutant, and must fail.     *)
(* A request below the limit enters the loop with b = 1. *)
EnterSmall ==
  /\ pc = "entry" /\ Effective(n) < SmallLimit
  /\ n' = Effective(n) /\ b' = 1 /\ pc' = "loop"

(* A larger one returns its alignment. *)
ReturnAligned ==
  /\ pc = "entry" /\ Effective(n) >= SmallLimit
  /\ n' = Effective(n) /\ b' = AlignUp(n) /\ pc' = "done"

(* while (b < n) b <<= 1 *)
ShiftLeft ==
  /\ pc = "loop" /\ b < n
  /\ b' = (2 * b) % WordMod
  /\ UNCHANGED <<n, pc>>

MutantReturnPowerEarly ==
  /\ pc = "loop" /\ 2 * b >= n
  /\ pc' = "done"
  /\ UNCHANGED <<n, b>>

ReturnPower ==
  /\ pc = "loop" /\ b >= n
  /\ pc' = "done"
  /\ UNCHANGED <<n, b>>

Next == EnterSmall \/ ReturnAligned \/ ShiftLeft \/ ReturnPower

(* The loop is plain sequential code: once called, it keeps running. *)
Spec == Init /\ [][Next]_vars /\ WF_vars(Next)

-----------------------------------------------------------------------------
TypeOK ==
  /\ n \in Words
  /\ b \in Words
  /\ pc \in {"entry", "loop", "done"}

Safe == WordMod - Granule

(* A bucket is never smaller than the request it serves.  A block is       *)
(* handed out again for any request of its bucket, so this is what makes   *)
(* reuse safe at all.  A request within one granule of the top of size_t   *)
(* wraps around and is not covered; no device has that much memory.        *)
CoversRequest == pc = "done" /\ n <= Safe => b >= n

(* The waste the comment at runtime.cu:19 promises: less than one granule  *)
(* for a large request, less than the request itself for a small one.      *)
WasteBounded ==
  pc = "done" => /\ n >= SmallLimit => b < n + Granule
                 /\ n < SmallLimit => b < 2 * n

(* The loop computes the class the definition gives. *)
ComputesBucketOf == pc = "done" => b = BucketOf(n)

(* No request makes the doubling loop run for ever. *)
Terminates == <>(pc = "done")
=============================================================================
