-------------------------- MODULE BucketLoopProofs --------------------------
(***************************************************************************)
(* Proofs about CacheAlloc::bucketOf for every word size, limit and        *)
(* granule: a bucket is never below the request it serves, the memory it   *)
(* wastes is bounded as the code's comment says, and the doubling loop     *)
(* returns the least power of two that holds the request.                  *)
(***************************************************************************)
EXTENDS BucketLoop, Integers, WellFoundedInduction, TLAPS

LEMMA DivBounds ==
  ASSUME NEW a \in Nat, NEW g \in Nat, g > 0
  PROVE  \E q \in Nat : q = a \div g /\ g * q <= a /\ a < g * q + g
OBVIOUS

(* Aligning without wrapping around lands less than a granule above. *)
LEMMA AlignUpBounds ==
  ASSUME NEW m \in Words, m <= Safe
  PROVE  AlignUp(m) \in Nat /\ m <= AlignUp(m) /\ AlignUp(m) < m + Granule
<1> USE SizesAssumption
<1> DEFINE x == m + Granule - 1
<1>1. m \in Nat /\ x \in Nat /\ x < WordMod
  BY DEF Words, Safe
<1>2. x % WordMod = x
  BY <1>1
<1>3. PICK q \in Nat : q = x \div Granule /\ Granule * q <= x /\ x < Granule * q + Granule
  <2>1. Granule \in Nat /\ Granule > 0
    OBVIOUS
  <2> QED BY <1>1, <2>1, DivBounds
<1>4. AlignUp(m) = q * Granule
  BY <1>2, <1>3 DEF AlignUp
<1> HIDE DEF x
<1>5. q * Granule \in Nat /\ q * Granule = Granule * q
  BY <1>3
<1>6. x = m + Granule - 1
  BY DEF x
<1> QED BY <1>1, <1>3, <1>4, <1>5, <1>6

(* Past Safe the sum wraps below the granule, and the bucket is 0. *)
LEMMA AlignUpWraps ==
  ASSUME NEW m \in Words, m > Safe
  PROVE  AlignUp(m) = 0
<1> USE SizesAssumption
<1>1. /\ m \in Nat /\ m + Granule - 1 \in Nat
      /\ m + Granule - 1 >= WordMod /\ m + Granule - 1 < WordMod + Granule - 1
  BY DEF Words, Safe
<1>2. (m + Granule - 1) % WordMod = m + Granule - 1 - WordMod
  BY <1>1
<1>3. m + Granule - 1 - WordMod \in 0 .. Granule - 1
  BY <1>1
<1>4. (m + Granule - 1 - WordMod) \div Granule = 0
  BY <1>3
<1> QED BY <1>2, <1>4 DEF AlignUp

-----------------------------------------------------------------------------
(* While the loop runs, b has not yet reached twice the request, so the    *)
(* next doubling stays within size_t; what is returned covers the request. *)
LoopInv ==
  /\ pc = "loop" => n >= 1 /\ n < SmallLimit /\ b < 2 * n
  /\ pc = "done" /\ n < SmallLimit => n <= b /\ b < 2 * n
  /\ pc = "done" /\ n >= SmallLimit => b = AlignUp(n)

IInv == TypeOK /\ LoopInv

LEMMA AlignUpWord ==
  ASSUME NEW m \in Words
  PROVE  AlignUp(m) \in Words
<1> USE SizesAssumption
<1>1. m + Granule - 1 \in Nat /\ WordMod \in Nat /\ WordMod > 0
      /\ Granule \in Nat /\ Granule > 0
  BY DEF Words
<1>2. (m + Granule - 1) % WordMod \in 0 .. WordMod - 1
  BY <1>1
<1>3. PICK q \in Nat : /\ q = ((m + Granule - 1) % WordMod) \div Granule
                       /\ Granule * q <= (m + Granule - 1) % WordMod
  BY <1>1, <1>2, DivBounds
<1>4. AlignUp(m) = q * Granule
  BY <1>3 DEF AlignUp
<1>5. q * Granule \in Nat /\ q * Granule = Granule * q
  BY <1>1, <1>3
<1> QED BY <1>2, <1>3, <1>4, <1>5 DEF Words

LEMMA InitIInv == Init => IInv
BY SizesAssumption, MaxRequestAssumption
   DEF Init, IInv, TypeOK, LoopInv, Requests, Words

LEMMA NextIInv == IInv /\ [Next]_vars => IInv'
<1> SUFFICES ASSUME IInv, [Next]_vars PROVE IInv'
  OBVIOUS
<1> USE SizesAssumption
<1>1. n \in Nat /\ b \in Nat /\ n \in Words /\ b \in Words
  BY DEF IInv, TypeOK, Words
<1>2. Effective(n) \in Words /\ Effective(n) >= 1
  BY <1>1 DEF Effective, Words
<1>3. CASE EnterSmall
  <2>1. n' = Effective(n) /\ b' = 1 /\ pc' = "loop" /\ Effective(n) < SmallLimit
    BY <1>3 DEF EnterSmall
  <2>2. TypeOK'
    BY <1>2, <2>1 DEF TypeOK, Words
  <2>3. LoopInv'
    BY <1>2, <2>1 DEF LoopInv, Words
  <2> QED BY <2>2, <2>3 DEF IInv
<1>4. CASE ReturnAligned
  <2>1. Effective(n) >= SmallLimit /\ n' = Effective(n) /\ b' = AlignUp(n) /\ pc' = "done"
    BY <1>4 DEF ReturnAligned
  <2>2. Effective(n) = n
    BY <1>1, <2>1 DEF Effective
  <2>3. AlignUp(n) \in Words
    BY <1>1, AlignUpWord
  <2>4. TypeOK'
    BY <1>1, <2>1, <2>2, <2>3 DEF TypeOK
  <2>5. LoopInv'
    BY <1>1, <2>1, <2>2 DEF LoopInv
  <2> QED BY <2>4, <2>5 DEF IInv
<1>5. CASE ShiftLeft
  <2>1. pc = "loop" /\ b < n /\ b' = (2 * b) % WordMod /\ UNCHANGED <<n, pc>>
    BY <1>5 DEF ShiftLeft
  <2>2. n < SmallLimit /\ n >= 1
    BY <2>1 DEF IInv, LoopInv
  <2>3. 2 * b \in Nat /\ 2 * b < WordMod
    BY <1>1, <2>1, <2>2
  <2>4. b' = 2 * b
    BY <2>1, <2>3
  <2>5. TypeOK'
    BY <1>1, <2>1, <2>3, <2>4 DEF IInv, TypeOK, Words
  <2>6. LoopInv'
    BY <1>1, <2>1, <2>2, <2>4 DEF LoopInv
  <2> QED BY <2>5, <2>6 DEF IInv
<1>6. CASE ReturnPower
  <2>1. pc = "loop" /\ b >= n /\ pc' = "done" /\ UNCHANGED <<n, b>>
    BY <1>6 DEF ReturnPower
  <2>2. TypeOK'
    BY <1>1, <2>1 DEF TypeOK
  <2>3. LoopInv'
    BY <1>1, <2>1 DEF IInv, LoopInv
  <2> QED BY <2>2, <2>3 DEF IInv
<1>7. CASE UNCHANGED vars
  BY <1>7 DEF vars, IInv, TypeOK, LoopInv
<1> QED BY <1>3, <1>4, <1>5, <1>6, <1>7 DEF Next

THEOREM Invariance == Spec => []IInv
BY InitIInv, NextIInv, PTL DEF Spec

(* The bucket returned for a request is never smaller than the request,    *)
(* for any word size, limit and granule, except in the last granule below  *)
(* the top of the word, where the alignment wraps around.                  *)
THEOREM BucketCovers == Spec => []CoversRequest
<1>1. IInv => CoversRequest
  <2> SUFFICES ASSUME IInv, pc = "done", n <= Safe PROVE b >= n
    BY DEF CoversRequest
  <2>1. n \in Words /\ n \in Nat /\ b \in Nat /\ SmallLimit \in Nat
    BY SizesAssumption DEF IInv, TypeOK, Words
  <2>2. CASE n < SmallLimit
    BY <2>1, <2>2 DEF IInv, LoopInv
  <2>3. CASE n >= SmallLimit
    BY <2>1, <2>3, AlignUpBounds DEF IInv, LoopInv
  <2> QED BY <2>1, <2>2, <2>3
<1> QED BY <1>1, Invariance, PTL

(* The waste of a bucket: less than one granule, or less than the request. *)
THEOREM BucketWaste == Spec => []WasteBounded
<1>1. IInv => WasteBounded
  <2> SUFFICES ASSUME IInv, pc = "done"
               PROVE  (n >= SmallLimit => b < n + Granule) /\ (n < SmallLimit => b < 2 * n)
    BY DEF WasteBounded
  <2>1. n \in Words /\ n \in Nat /\ SmallLimit \in Nat /\ Granule \in Nat /\ Granule > 0
        /\ Safe \in Int
    BY SizesAssumption DEF IInv, TypeOK, Words, Safe
  <2>2. CASE n < SmallLimit
    BY <2>1, <2>2 DEF IInv, LoopInv
  <2>3. CASE n >= SmallLimit
    <3>1. b = AlignUp(n)
      BY <2>3 DEF IInv, LoopInv
    <3>2. CASE n <= Safe
      BY <2>1, <2>3, <3>1, <3>2, AlignUpBounds
    <3>3. CASE n > Safe
      BY <2>1, <2>3, <3>1, <3>3, AlignUpWraps
    <3> QED BY <2>1, <3>2, <3>3
  <2> QED BY <2>1, <2>2, <2>3
<1> QED BY <1>1, Invariance, PTL

-----------------------------------------------------------------------------
(* The powers of two.  A nonempty set of numbers has a least one.          *)
LEMMA Least ==
  ASSUME NEW S \in SUBSET Nat, S # {}
  PROVE  \E m \in S : \A i \in S : m <= i
<1> DEFINE R == OpToRel(<, Nat)
<1>1. IsWellFoundedOn(R, Nat)
  BY NatLessThanWellFounded, Zenon
<1>2. R = {p \in Nat \X Nat : p[1] < p[2]}
  BY Zenon DEF OpToRel
<1> HIDE DEF R
<1>3. PICK m \in S : \A i \in S : ~(<<i, m>> \in R)
  BY <1>1, WFMin
<1>4. ASSUME NEW i \in S PROVE m <= i
  <2>1. m \in Nat /\ i \in Nat /\ (i < m => <<i, m>> \in R)
    BY <1>2
  <2> QED BY <1>3, <2>1
<1> QED BY <1>3, <1>4

(* f doubles from 1 up to the exponent m. *)
Doubles(f, m) == f = [k \in 0 .. m |-> IF k = 0 THEN 1 ELSE 2 * f[k - 1]]

(* There is such a function: no least exponent lacks one. *)
LEMMA DoublesExists ==
  ASSUME NEW m \in Nat
  PROVE  \E f : Doubles(f, m)
<1> DEFINE U == {l \in 0 .. m : ~\E f : Doubles(f, l)}
<1>1. ASSUME U # {} PROVE FALSE
  <2>1. U \in SUBSET Nat
    OBVIOUS
  <2>2. PICK l \in U : \A i \in U : l <= i
    BY <1>1, <2>1, Least
  <2>3. l # 0
    <3>1. Doubles([k \in 0 .. 0 |-> 1], 0)
      BY DEF Doubles
    <3> QED BY <2>2, <3>1
  <2>4. l \in Nat /\ l - 1 \in 0 .. m /\ l - 1 \notin U
    BY <2>2, <2>3
  <2>5. PICK f : Doubles(f, l - 1)
    BY <2>4
  <2> DEFINE h == [k \in 0 .. l |-> IF k = 0 THEN 1 ELSE 2 * f[k - 1]]
  <2>6. ASSUME NEW k \in 0 .. l, k # 0 PROVE h[k - 1] = f[k - 1]
    <3>1. k - 1 \in 0 .. l /\ k - 1 \in 0 .. l - 1
      BY <2>4, <2>6
    <3>2. f[k - 1] = IF k - 1 = 0 THEN 1 ELSE 2 * f[k - 1 - 1]
      BY <2>5, <3>1 DEF Doubles
    <3> QED BY <3>1, <3>2
  <2>7. Doubles(h, l)
    BY <2>6 DEF Doubles
  <2> QED BY <2>2, <2>7
<1>2. m \in 0 .. m /\ m \notin U
  BY <1>1
<1> QED BY <1>2

LEMMA PowerDoubles == Doubles(Power, SmallLimit)
<1>1. SmallLimit \in Nat
  BY SizesAssumption
<1>2. \E f : Doubles(f, SmallLimit)
  BY <1>1, DoublesExists
<1>3. Power = CHOOSE f : Doubles(f, SmallLimit)
  BY DEF Power, Doubles
<1> QED BY <1>2, <1>3

LEMMA PowerIs ==
  /\ Power[0] = 1
  /\ \A k \in 1 .. SmallLimit : Power[k] = 2 * Power[k - 1]
<1>1. SmallLimit \in Nat
  BY SizesAssumption
<1>2. Power = [k \in 0 .. SmallLimit |-> IF k = 0 THEN 1 ELSE 2 * Power[k - 1]]
  BY PowerDoubles DEF Doubles
<1>3. 0 \in 0 .. SmallLimit /\ \A k \in 1 .. SmallLimit : k \in 0 .. SmallLimit /\ k # 0
  BY <1>1
<1>4. \A k \in 0 .. SmallLimit : Power[k] = IF k = 0 THEN 1 ELSE 2 * Power[k - 1]
  BY <1>2
<1> QED BY <1>3, <1>4

(* A power exceeds its exponent, so the limit is among them or below one. *)
LEMMA PowerGrows == \A k \in 0 .. SmallLimit : Power[k] \in Nat /\ Power[k] > k
<1> DEFINE U == {k \in 0 .. SmallLimit : ~(Power[k] \in Nat /\ Power[k] > k)}
<1>1. SmallLimit \in Nat /\ U \in SUBSET Nat
  BY SizesAssumption
<1>2. ASSUME U # {} PROVE FALSE
  <2>1. PICK l \in U : \A i \in U : l <= i
    BY <1>1, <1>2, Least
  <2>2. l # 0
    BY <2>1, PowerIs
  <2>3. l \in 1 .. SmallLimit /\ l - 1 \in 0 .. SmallLimit /\ l - 1 \notin U
    BY <1>1, <2>1, <2>2
  <2>4. Power[l - 1] \in Nat /\ Power[l - 1] > l - 1
    BY <2>3
  <2>5. Power[l] = 2 * Power[l - 1]
    BY <2>3, PowerIs
  <2>6. PICK x, y : x = Power[l - 1] /\ y = Power[l]
    OBVIOUS
  <2>7. y \in Nat /\ y > l
    BY <1>1, <2>3, <2>4, <2>5, <2>6
  <2> QED BY <2>1, <2>6, <2>7
<1> QED BY <1>2

LEMMA PowerIncreases ==
  \A k \in 0 .. SmallLimit : \A j \in 0 .. k : Power[j] <= Power[k]
<1> DEFINE U == {k \in 0 .. SmallLimit : ~\A j \in 0 .. k : Power[j] <= Power[k]}
<1>1. SmallLimit \in Nat /\ U \in SUBSET Nat
  BY SizesAssumption
<1>2. ASSUME U # {} PROVE FALSE
  <2>1. PICK l \in U : \A i \in U : l <= i
    BY <1>1, <1>2, Least
  <2>2. l # 0
    BY <2>1, PowerIs
  <2>3. l \in 1 .. SmallLimit /\ l - 1 \in 0 .. SmallLimit /\ l - 1 \notin U
    BY <1>1, <2>1, <2>2
  <2>4. \A j \in 0 .. l - 1 : Power[j] <= Power[l - 1]
    BY <2>3
  <2>5. Power[l] = 2 * Power[l - 1] /\ Power[l - 1] \in Nat /\ Power[l] \in Nat
    BY <2>3, PowerIs, PowerGrows
  <2>6. ASSUME NEW j \in 0 .. l PROVE Power[j] <= Power[l]
    <3>1. j \in 0 .. SmallLimit /\ (j = l \/ j \in 0 .. l - 1)
      BY <1>1, <2>3
    <3>2. Power[j] \in Nat
      BY <3>1, PowerGrows
    <3>3. PICK x, y, z : x = Power[j] /\ y = Power[l - 1] /\ z = Power[l]
      OBVIOUS
    <3>4. z = 2 * y /\ y \in Nat /\ x \in Nat /\ (j = l => x = z) /\ (j \in 0 .. l - 1 => x <= y)
      BY <2>4, <2>5, <3>2, <3>3
    <3>5. x <= z
      BY <3>1, <3>4
    <3> QED BY <3>3, <3>5
  <2> QED BY <2>1, <2>6
<1> QED BY <1>2

(* A power that holds the request while the one before it does not is the  *)
(* least that does.                                                        *)
LEMMA LeastPower ==
  ASSUME NEW m \in Nat, m > 0, m < SmallLimit,
         NEW k \in 0 .. SmallLimit, m <= Power[k], k = 0 \/ Power[k - 1] < m
  PROVE  BucketOf(m) = Power[k]
<1> DEFINE Holds(p) == m <= p /\ \A q \in PowersOfTwo : m <= q => p <= q
<1>1. SmallLimit \in Nat /\ Power[k] \in Nat /\ Power[k] \in PowersOfTwo
  BY SizesAssumption, PowerGrows DEF PowersOfTwo
<1>2. PowersOfTwo \subseteq Nat
  BY PowerGrows DEF PowersOfTwo
<1>3. ASSUME NEW q \in PowersOfTwo, m <= q PROVE Power[k] <= q
  <2>1. PICK j \in 0 .. SmallLimit : q = Power[j]
    BY DEF PowersOfTwo
  <2>2. CASE k <= j
    <3>1. k \in 0 .. j
      BY <1>1, <2>2
    <3> QED BY <2>1, <3>1, PowerIncreases
  <2>3. CASE j < k
    <3>1. k - 1 \in 0 .. SmallLimit /\ j \in 0 .. k - 1 /\ k # 0
      BY <1>1, <2>3
    <3>2. Power[j] <= Power[k - 1] /\ Power[k - 1] \in Nat /\ Power[j] \in Nat
      BY <3>1, PowerIncreases, PowerGrows
    <3>3. PICK x, y : x = Power[j] /\ y = Power[k - 1]
      OBVIOUS
    <3> QED BY <1>3, <2>1, <3>1, <3>2, <3>3
  <2> QED BY <1>1, <2>2, <2>3
<1>4. Holds(Power[k])
  BY <1>3
<1>5. PICK c : c = CHOOSE p \in PowersOfTwo : Holds(p)
  OBVIOUS
<1>6. c \in PowersOfTwo /\ Holds(c)
  BY <1>1, <1>4, <1>5
<1>7. c <= Power[k] /\ Power[k] <= c
  BY <1>1, <1>4, <1>6
<1>8. c = Power[k]
  BY <1>1, <1>2, <1>6, <1>7
<1>9. BucketOf(m) = c
  BY <1>5 DEF BucketOf, Effective
<1> QED BY <1>8, <1>9

-----------------------------------------------------------------------------
(* b is a power of two, and the one before it was too small: what makes    *)
(* the power that ends the loop the least one.                             *)
DoublingInv ==
  pc \in {"loop", "done"} /\ n < SmallLimit =>
    \E k \in 0 .. SmallLimit : b = Power[k] /\ (k = 0 \/ Power[k - 1] < n)

LEMMA NextDoubling == IInv /\ DoublingInv /\ [Next]_vars => DoublingInv'
<1> SUFFICES ASSUME IInv, DoublingInv, [Next]_vars, pc' \in {"loop", "done"}, n' < SmallLimit
             PROVE  \E k \in 0 .. SmallLimit : b' = Power[k] /\ (k = 0 \/ Power[k - 1] < n')
  BY DEF DoublingInv
<1>1. SmallLimit \in Nat /\ WordMod \in Nat /\ 2 * SmallLimit <= WordMod /\ n \in Nat /\ b \in Nat
  BY SizesAssumption DEF IInv, TypeOK, Words
<1>2. CASE EnterSmall
  <2>1. 0 \in 0 .. SmallLimit /\ b' = Power[0]
    BY <1>1, <1>2, PowerIs DEF EnterSmall
  <2> QED BY <2>1
<1>3. CASE ReturnAligned
  BY <1>1, <1>3 DEF ReturnAligned, Effective
<1>4. CASE ShiftLeft
  <2>1. pc = "loop" /\ b < n /\ b' = (2 * b) % WordMod /\ n' = n /\ n < SmallLimit
    BY <1>4 DEF ShiftLeft
  <2>2. PICK k \in 0 .. SmallLimit : b = Power[k]
    BY <2>1 DEF DoublingInv
  <2>3. k < b
    BY <2>2, PowerGrows
  <2>4. k + 1 \in 1 .. SmallLimit /\ k + 1 \in 0 .. SmallLimit /\ k + 1 - 1 = k
    BY <1>1, <2>1, <2>2, <2>3
  <2>5. b' = 2 * b
    BY <1>1, <2>1
  <2>6. b' = Power[k + 1] /\ Power[k + 1 - 1] < n'
    BY <2>1, <2>2, <2>4, <2>5, PowerIs
  <2> QED BY <2>4, <2>6
<1>5. CASE ReturnPower \/ UNCHANGED vars
  <2>1. pc \in {"loop", "done"} /\ UNCHANGED <<n, b>>
    BY <1>5 DEF ReturnPower, vars
  <2> QED BY <2>1 DEF DoublingInv
<1> QED BY <1>2, <1>3, <1>4, <1>5 DEF Next

(* The loop of the code and the definition agree: the bucket returned is   *)
(* the least power of two that holds a small request, and the alignment of *)
(* a larger one, so two requests of one class share a free list.           *)
THEOREM LoopComputesClass == Spec => []ComputesBucketOf
<1>1. Init => DoublingInv
  BY DEF Init, DoublingInv
<1>2. IInv /\ DoublingInv => ComputesBucketOf
  <2> SUFFICES ASSUME IInv, DoublingInv, pc = "done" PROVE b = BucketOf(n)
    BY DEF ComputesBucketOf
  <2>1. n \in Nat /\ b \in Nat /\ SmallLimit \in Nat /\ SmallLimit > 1
    BY SizesAssumption DEF IInv, TypeOK, Words
  <2>2. CASE n < SmallLimit
    <3>1. n > 0 /\ n <= b
      BY <2>1, <2>2 DEF IInv, LoopInv
    <3>2. PICK k \in 0 .. SmallLimit : b = Power[k] /\ (k = 0 \/ Power[k - 1] < n)
      BY <2>2 DEF DoublingInv
    <3>3. PICK m \in Nat : m = n
      BY <2>1
    <3>4. m > 0 /\ m < SmallLimit /\ m <= Power[k] /\ (k = 0 \/ Power[k - 1] < m)
      BY <2>2, <3>1, <3>2, <3>3
    <3>5. BucketOf(m) = Power[k]
      BY <3>4, LeastPower
    <3> QED BY <3>2, <3>3, <3>5
  <2>3. CASE n >= SmallLimit
    <3>1. Effective(n) = n /\ ~(Effective(n) < SmallLimit) /\ b = AlignUp(n)
      BY <2>1, <2>3 DEF Effective, IInv, LoopInv
    <3> QED BY <3>1 DEF BucketOf
  <2> QED BY <2>1, <2>2, <2>3
<1> QED BY <1>1, <1>2, Invariance, NextDoubling, PTL DEF Spec
=============================================================================
