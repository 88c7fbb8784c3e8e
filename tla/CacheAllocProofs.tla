-------------------------- MODULE CacheAllocProofs --------------------------
(***************************************************************************)
(* Proofs that the caching allocator of CacheAlloc keeps every block in    *)
(* one place, whatever the threads, the sizes, the devices and the number  *)
(* of blocks.                                                              *)
(***************************************************************************)
EXTENDS AllocFootprint, FiniteSetTheorems, SequenceTheorems, TLAPS

(* Maps: putting and erasing a key. *)
LEMMA PutMap ==
  ASSUME NEW S, NEW T, NEW f \in Maps(S, T), NEW k \in S, NEW v \in T
  PROVE  Put(f, k, v) \in Maps(S, T)
<1>1. PICK D \in SUBSET S : f \in [D -> T]
  BY DEF Maps
<1>2. Put(f, k, v) \in [D \cup {k} -> T]
  BY <1>1 DEF Put
<1>3. D \cup {k} \in SUBSET S
  OBVIOUS
<1> QED BY <1>1, <1>2, <1>3 DEF Maps, Put

LEMMA EraseMap ==
  ASSUME NEW S, NEW T, NEW f \in Maps(S, T), NEW k
  PROVE  Erase(f, k) \in Maps(S, T)
<1>1. PICK D \in SUBSET S : f \in [D -> T]
  BY DEF Maps
<1>2. Erase(f, k) \in [D \ {k} -> T]
  BY <1>1 DEF Erase
<1> QED BY <1>1, <1>2 DEF Maps, Erase

LEMMA MapValue ==
  ASSUME NEW S, NEW T, NEW f \in Maps(S, T)
  PROVE  /\ DOMAIN f \subseteq S
         /\ \A x \in DOMAIN f : f[x] \in T
BY DEF Maps

LEMMA EmptyMap ==
  ASSUME NEW S, NEW T
  PROVE  [x \in {} |-> 0] \in Maps(S, T)
<1>1. [x \in {} |-> 0] \in [{} -> T]
  OBVIOUS
<1> QED BY <1>1 DEF Maps

(* Free lists are used at their end only. *)
LEMMA PopSeq ==
  ASSUME NEW S, NEW s \in Seq(S), s # <<>>
  PROVE  /\ Len(s) \in Nat \ {0} /\ DOMAIN s = 1 .. Len(s) /\ s[Len(s)] \in S
         /\ SubSeq(s, 1, Len(s) - 1) \in Seq(S)
         /\ DOMAIN SubSeq(s, 1, Len(s) - 1) = 1 .. Len(s) - 1
         /\ \A i \in 1 .. Len(s) - 1 : SubSeq(s, 1, Len(s) - 1)[i] = s[i]
<1>1. Len(s) \in Nat \ {0} /\ DOMAIN s = 1 .. Len(s) /\ s \in [1 .. Len(s) -> S]
  BY EmptySeq, LenProperties
<1>2. \A i \in 1 .. Len(s) - 1 : s[i] \in S
  BY <1>1
<1>3. /\ SubSeq(s, 1, Len(s) - 1) \in Seq(S)
      /\ Len(SubSeq(s, 1, Len(s) - 1)) = Len(s) - 1
      /\ \A i \in 1 .. Len(s) - 1 : SubSeq(s, 1, Len(s) - 1)[i] = s[i]
  <2>1. 1 \in Int /\ Len(s) - 1 \in Int
    BY <1>1
  <2>2. /\ SubSeq(s, 1, Len(s) - 1) \in Seq(S)
        /\ Len(SubSeq(s, 1, Len(s) - 1))
             = IF 1 <= Len(s) - 1 THEN Len(s) - 1 - 1 + 1 ELSE 0
        /\ \A i \in 1 .. (Len(s) - 1) - 1 + 1 :
             SubSeq(s, 1, Len(s) - 1)[i] = s[1 + i - 1]
    BY <1>2, <2>1, SubSeqProperties
  <2> QED BY <1>1, <2>2
<1>4. DOMAIN SubSeq(s, 1, Len(s) - 1) = 1 .. Len(SubSeq(s, 1, Len(s) - 1))
  BY <1>3, LenProperties
<1> QED BY <1>1, <1>3, <1>4

LEMMA PushSeq ==
  ASSUME NEW S, NEW s \in Seq(S), NEW x \in S
  PROVE  /\ Len(s) \in Nat /\ DOMAIN s = 1 .. Len(s)
         /\ Append(s, x) \in Seq(S)
         /\ DOMAIN Append(s, x) = 1 .. Len(s) + 1
         /\ Append(s, x)[Len(s) + 1] = x
         /\ \A i \in 1 .. Len(s) : Append(s, x)[i] = s[i]
<1>1. Append(s, x) \in Seq(S) /\ Len(Append(s, x)) = Len(s) + 1
  BY AppendProperties
<1> QED BY <1>1, AppendProperties, LenProperties

-----------------------------------------------------------------------------
LEMMA BucketInBuckets ==
  ASSUME NEW n \in Sizes
  PROVE  Bucket(n) \in Buckets /\ Bucket(n) \in Nat /\ n \in Nat /\ n <= Bucket(n)
BY BucketAssumption DEF Buckets

(* The free lists hold no block twice. *)
NoDuplicate ==
  \A b, c \in Buckets : \A i \in DOMAIN freeList[b], j \in DOMAIN freeList[c] :
    freeList[b][i] = freeList[c][j] => b = c /\ i = j

ListsOK == freeList \in [Buckets -> Seq(Addrs)]

(* Popping takes exactly one block out of the cache and moves none. *)
LEMMA PopEffect ==
  ASSUME ListsOK, NoDuplicate, NEW b \in Buckets, freeList[b] # <<>>, PopBack(b)
  PROVE  /\ ListsOK' /\ NoDuplicate'
         /\ Back(b) \in Cached /\ Back(b) \in Addrs
         /\ Cached' = Cached \ {Back(b)}
         /\ \A c \in Buckets : \A i \in DOMAIN freeList'[c] :
              i \in DOMAIN freeList[c] /\ freeList'[c][i] = freeList[c][i]
         /\ Len(freeList[b]) \in DOMAIN freeList[b]
<1> DEFINE s == freeList[b]
           r == SubSeq(s, 1, Len(s) - 1)
<1>1. s \in Seq(Addrs) /\ s # <<>>
  BY DEF ListsOK
<1>2. /\ Len(s) \in Nat \ {0} /\ DOMAIN s = 1 .. Len(s) /\ s[Len(s)] \in Addrs
      /\ r \in Seq(Addrs)
      /\ DOMAIN r = 1 .. Len(s) - 1
      /\ \A i \in 1 .. Len(s) - 1 : r[i] = s[i]
  BY <1>1, PopSeq
<1>3. freeList' = [freeList EXCEPT ![b] = r]
  BY DEF PopBack
<1>4. /\ freeList' \in [Buckets -> Seq(Addrs)] /\ freeList'[b] = r
      /\ \A c \in Buckets \ {b} : freeList'[c] = freeList[c]
  BY <1>2, <1>3 DEF ListsOK
<1> HIDE DEF r, s
<1>5. Back(b) = s[Len(s)] /\ Len(s) \in DOMAIN s
  BY <1>2 DEF Back, s
<1>6. \A c \in Buckets : \A i \in DOMAIN freeList'[c] :
        i \in DOMAIN freeList[c] /\ freeList'[c][i] = freeList[c][i]
  <2> SUFFICES ASSUME NEW c \in Buckets, NEW i \in DOMAIN freeList'[c]
               PROVE  i \in DOMAIN freeList[c] /\ freeList'[c][i] = freeList[c][i]
    OBVIOUS
  <2>1. CASE c = b
    BY <1>2, <1>4, <2>1 DEF s
  <2>2. CASE c # b
    BY <1>4, <2>2
  <2> QED BY <2>1, <2>2
<1>7. NoDuplicate'
  BY <1>6 DEF NoDuplicate
<1>8. Back(b) \in Cached
  BY <1>5 DEF Cached, s
<1>9. Cached' \subseteq Cached \ {Back(b)}
  <2> SUFFICES ASSUME NEW c \in Buckets, NEW i \in DOMAIN freeList'[c]
               PROVE  freeList'[c][i] \in Cached \ {Back(b)}
    BY DEF Cached
  <2>1. freeList'[c][i] \in Cached
    BY <1>6 DEF Cached
  <2>2. ~(c = b /\ i = Len(s))
    BY <1>2, <1>4
  <2>3. freeList[c][i] # freeList[b][Len(s)]
    BY <2>2, <1>5, <1>6 DEF NoDuplicate, s
  <2> QED BY <2>1, <2>3, <1>5, <1>6 DEF s
<1>10. Cached \ {Back(b)} \subseteq Cached'
  <2> SUFFICES ASSUME NEW c \in Buckets, NEW i \in DOMAIN freeList[c],
                      freeList[c][i] # Back(b)
               PROVE  freeList[c][i] \in Cached'
    BY DEF Cached
  <2>1. i \in DOMAIN freeList'[c] /\ freeList'[c][i] = freeList[c][i]
    <3>1. CASE c = b
      <4>1. i \in DOMAIN s /\ s[i] # s[Len(s)]
        BY <1>5, <3>1 DEF s
      <4>2. i \in 1 .. Len(s) - 1
        BY <1>2, <4>1
      <4> QED BY <1>2, <1>4, <3>1, <4>2 DEF s
    <3>2. CASE c # b
      BY <1>4, <3>2
    <3> QED BY <3>1, <3>2
  <2> QED BY <2>1 DEF Cached
<1> QED
  BY <1>2, <1>4, <1>5, <1>6, <1>7, <1>8, <1>9, <1>10 DEF ListsOK, s

(* Filing puts exactly one block in the cache, in the list of its bucket.  *)
LEMMA FileEffect ==
  ASSUME ListsOK, NoDuplicate, NEW a \in Addrs, a \notin Cached,
         live[a] \in Buckets, File(a)
  PROVE  /\ ListsOK' /\ NoDuplicate'
         /\ Cached' = Cached \cup {a}
         /\ \A c \in Buckets : \A i \in DOMAIN freeList'[c] :
              \/ i \in DOMAIN freeList[c] /\ freeList'[c][i] = freeList[c][i]
              \/ c = live[a] /\ freeList'[c][i] = a
<1> DEFINE b == live[a]
           s == freeList[b]
           r == Append(s, a)
<1>1. b \in Buckets /\ s \in Seq(Addrs)
  BY DEF ListsOK
<1>2. /\ Len(s) \in Nat /\ DOMAIN s = 1 .. Len(s)
      /\ r \in Seq(Addrs) /\ DOMAIN r = 1 .. Len(s) + 1
      /\ r[Len(s) + 1] = a /\ \A i \in 1 .. Len(s) : r[i] = s[i]
  BY <1>1, PushSeq
<1>3. freeList' = [freeList EXCEPT ![b] = r]
  BY DEF File
<1>4. /\ freeList' \in [Buckets -> Seq(Addrs)] /\ freeList'[b] = r
      /\ \A c \in Buckets \ {b} : freeList'[c] = freeList[c]
  BY <1>1, <1>2, <1>3 DEF ListsOK
<1> HIDE DEF r
<1>5. \A c \in Buckets : \A i \in DOMAIN freeList'[c] :
        \/ i \in DOMAIN freeList[c] /\ freeList'[c][i] = freeList[c][i]
        \/ c = b /\ i = Len(s) + 1 /\ freeList'[c][i] = a
  <2> SUFFICES ASSUME NEW c \in Buckets, NEW i \in DOMAIN freeList'[c]
               PROVE  \/ i \in DOMAIN freeList[c] /\ freeList'[c][i] = freeList[c][i]
                      \/ c = b /\ i = Len(s) + 1 /\ freeList'[c][i] = a
    OBVIOUS
  <2>1. CASE c = b
    BY <1>2, <1>4, <2>1
  <2>2. CASE c # b
    BY <1>4, <2>2
  <2> QED BY <2>1, <2>2
<1>6. \A c \in Buckets : \A i \in DOMAIN freeList[c] : freeList[c][i] # a
  BY DEF Cached
<1>7. NoDuplicate'
  BY <1>5, <1>6 DEF NoDuplicate
<1>8. Cached' \subseteq Cached \cup {a}
  BY <1>5 DEF Cached
<1>9. Cached \subseteq Cached'
  <2> SUFFICES ASSUME NEW c \in Buckets, NEW i \in DOMAIN freeList[c]
               PROVE  i \in DOMAIN freeList'[c] /\ freeList'[c][i] = freeList[c][i]
    BY DEF Cached
  <2>1. CASE c = b
    BY <1>2, <1>4, <2>1, SMTT(30)
  <2>2. CASE c # b
    BY <1>4, <2>2
  <2> QED BY <2>1, <2>2
<1>10. a \in Cached'
  <2>1. Len(s) + 1 \in DOMAIN freeList'[b] /\ freeList'[b][Len(s) + 1] = a
    BY <1>2, <1>4
  <2> QED BY <1>1, <2>1 DEF Cached
<1> QED BY <1>4, <1>5, <1>7, <1>8, <1>9, <1>10 DEF ListsOK
-----------------------------------------------------------------------------
(* A block is in the hands of a thread exactly between the two steps that  *)
(* hand it over, and between cudaMalloc and live[*p] = b the thread still  *)
(* knows its bucket.                                                       *)
HandState ==
  /\ \A t \in Threads : ptr[t] # NoAddr <=> pc[t] \in {"insert", "free", "cudaFree"}
  /\ \A t \in Threads :
       pc[t] = "insert" =>
         Enabled /\ (ptr[t] \in DOMAIN driver => driver[ptr[t]].size = Bucket(size[t]))

(* The inductive invariant. *)
IInv ==
  /\ TypeOK
  /\ OneOwner
  /\ NothingLost
  /\ FitsRequest
  /\ LiveTracksCallers
  /\ FiledBySize
  /\ HandState

LEMMA InitIInv == Init => IInv
<1> SUFFICES ASSUME Init PROVE IInv
  OBVIOUS
<1>1. TypeOK
  <2>1. (CHOOSE n \in Sizes : TRUE) \in Sizes
    BY SizesNonEmpty
  <2>2. /\ live \in Maps(Addrs, Buckets) /\ held \in Maps(Addrs, Sizes)
        /\ driver \in Maps(Addrs, [size : Buckets, dev : Devices])
    BY EmptyMap DEF Init
  <2>3. <<>> \in Seq(Addrs)
    BY EmptySeq
  <2> QED BY <2>1, <2>2, <2>3 DEF Init, TypeOK, PCs
<1>2. \A b \in Buckets : DOMAIN freeList[b] = {}
  BY DEF Init
<1>3. Cached = {} /\ InHand = {} /\ DOMAIN held = {} /\ DOMAIN driver = {}
      /\ DOMAIN live = {}
  BY <1>2 DEF Cached, InHand, Init
<1>4. OneOwner
  BY <1>2, <1>3 DEF OneOwner, Init
<1>5. NothingLost /\ FitsRequest /\ LiveTracksCallers
  BY <1>3 DEF NothingLost, FitsRequest, LiveTracksCallers, Init
<1>6. FiledBySize /\ HandState
  BY <1>2 DEF FiledBySize, HandState, Init
<1> QED BY <1>1, <1>4, <1>5, <1>6 DEF IInv

(* A thread that takes a block in hand, and one that puts it down. *)
LEMMA HandTakes ==
  ASSUME ptr \in [Threads -> Addrs \cup {NoAddr}], NEW t \in Threads, NEW a \in Addrs,
         ptr[t] = NoAddr, ptr' = [ptr EXCEPT ![t] = a]
  PROVE  /\ InHand' = InHand \cup {a}
         /\ ptr' \in [Threads -> Addrs \cup {NoAddr}]
BY AddrAssumption DEF InHand

LEMMA HandDrops ==
  ASSUME ptr \in [Threads -> Addrs \cup {NoAddr}], NEW t \in Threads, ptr[t] # NoAddr,
         \A u, v \in Threads : ptr[u] = ptr[v] /\ ptr[u] # NoAddr => u = v,
         ptr' = [ptr EXCEPT ![t] = NoAddr]
  PROVE  /\ InHand' = InHand \ {ptr[t]}
         /\ ptr[t] \in InHand /\ ptr[t] \in Addrs
         /\ ptr' \in [Threads -> Addrs \cup {NoAddr}]
         /\ \A u, v \in Threads : ptr'[u] = ptr'[v] /\ ptr'[u] # NoAddr => u = v
BY DEF InHand

(* Steps that move only a program counter, a size or a device: no block    *)
(* changes place and no thread enters or leaves "free".                    *)
LEMMA QuietStep ==
  ASSUME IInv, NEW t \in Threads,
         \/ \E d \in Devices : SetDevice(t, d)
         \/ \E n \in Sizes : Malloc(t, n)
         \/ Miss(t)
         \/ CudaMallocFails(t)
  PROVE  IInv'
<1> USE DEF IInv
<1>1. UNCHANGED <<freeList, live, driver, ptr, held>>
  BY DEF SetDevice, Malloc, Miss, CudaMallocFails
<1>2. TypeOK'
  <2>1. CASE \E d \in Devices : SetDevice(t, d)
    BY <2>1 DEF TypeOK, SetDevice
  <2>2. CASE \E n \in Sizes : Malloc(t, n)
    BY <2>2 DEF TypeOK, Malloc, Goto, PCs
  <2>3. CASE Miss(t)
    BY <2>3 DEF TypeOK, Miss, Goto, PCs
  <2>4. CASE CudaMallocFails(t)
    BY <2>4 DEF TypeOK, CudaMallocFails, Goto, PCs
  <2> QED BY <2>1, <2>2, <2>3, <2>4
<1>3. /\ pc[t] \in {"idle", "lookup", "cudaMalloc"}
      /\ pc'[t] \in {"idle", "lookup", "cudaMalloc"}
      /\ \A u \in Threads \ {t} : pc'[u] = pc[u] /\ size'[u] = size[u]
  BY DEF TypeOK, SetDevice, Malloc, Miss, CudaMallocFails, Goto
<1>4. Cached' = Cached /\ InHand' = InHand
  BY <1>1 DEF Cached, InHand
<1>5. OneOwner'
  BY <1>1, <1>4 DEF OneOwner
<1>6. NothingLost' /\ FitsRequest' /\ FiledBySize'
  BY <1>1, <1>4 DEF NothingLost, FitsRequest, FiledBySize
<1>7. {u \in Threads : pc'[u] = "free"} = {u \in Threads : pc[u] = "free"}
  BY <1>3
<1>8. LiveTracksCallers'
  BY <1>1, <1>7 DEF LiveTracksCallers
<1>9. HandState'
  BY <1>1, <1>3 DEF HandState
<1> QED BY <1>2, <1>5, <1>6, <1>8, <1>9

(* Handing a block to a caller: the map held gains it. *)
LEMMA ReturnEffect ==
  ASSUME TypeOK, NEW t \in Threads, NEW a \in Addrs, Return(t, a)
  PROVE  /\ DOMAIN held' = DOMAIN held \cup {a}
         /\ held'[a] = size[t]
         /\ \A x \in DOMAIN held \ {a} : held'[x] = held[x]
         /\ held' \in Maps(Addrs, Sizes)
         /\ ret' \in [Threads -> Addrs \cup {NoAddr}]
         /\ pc' \in [Threads -> PCs] /\ pc'[t] = "idle"
         /\ \A u \in Threads \ {t} : pc'[u] = pc[u]
<1>1. held \in Maps(Addrs, Sizes) /\ size[t] \in Sizes
  BY DEF TypeOK
<1>2. held' = Put(held, a, size[t])
  BY DEF Return
<1>3. held' \in Maps(Addrs, Sizes)
  BY <1>1, <1>2, PutMap
<1>6. /\ DOMAIN held' = DOMAIN held \cup {a} /\ held'[a] = size[t]
      /\ \A x \in DOMAIN held \ {a} : held'[x] = held[x]
  BY <1>2 DEF Put
<1>4. ret' \in [Threads -> Addrs \cup {NoAddr}]
  BY DEF TypeOK, Return
<1>5. /\ pc' \in [Threads -> PCs] /\ pc'[t] = "idle"
      /\ \A u \in Threads \ {t} : pc'[u] = pc[u]
  BY DEF TypeOK, Return, Goto, PCs
<1> QED BY <1>3, <1>4, <1>5, <1>6

LEMMA RecordEffect ==
  ASSUME TypeOK, NEW a \in Addrs, NEW b \in Buckets, Record(a, b)
  PROVE  /\ DOMAIN live' = DOMAIN live \cup {a}
         /\ live'[a] = b
         /\ \A x \in DOMAIN live \ {a} : live'[x] = live[x]
         /\ live' \in Maps(Addrs, Buckets)
<1>1. live \in Maps(Addrs, Buckets)
  BY DEF TypeOK
<1>2. live' = Put(live, a, b)
  BY DEF Record
<1>3. live' \in Maps(Addrs, Buckets)
  BY <1>1, <1>2, PutMap
<1> QED BY <1>2, <1>3 DEF Put

(* A hit: the block leaves its list and becomes the caller's. *)
LEMMA TakeCachedStep ==
  ASSUME IInv, NEW t \in Threads, TakeCached(t)
  PROVE  IInv'
<1> USE DEF IInv
<1> DEFINE b == Bucket(size[t])
           a == Back(b)
<1>1. /\ b \in Buckets /\ size[t] \in Sizes /\ size[t] \in Nat /\ size[t] <= b
      /\ freeList[b] # <<>> /\ PopBack(b) /\ Record(a, b) /\ Return(t, a)
      /\ pc[t] = "lookup" /\ UNCHANGED <<driver, current, size, ptr>>
  BY BucketInBuckets DEF TakeCached, TypeOK
<1>2. ListsOK /\ NoDuplicate
  BY DEF TypeOK, ListsOK, OneOwner, NoDuplicate
<1>3. /\ ListsOK' /\ NoDuplicate'
      /\ a \in Cached /\ a \in Addrs
      /\ Cached' = Cached \ {a}
      /\ \A c \in Buckets : \A i \in DOMAIN freeList'[c] :
           i \in DOMAIN freeList[c] /\ freeList'[c][i] = freeList[c][i]
      /\ Len(freeList[b]) \in DOMAIN freeList[b]
  BY <1>1, <1>2, PopEffect
<1>4. a \in DOMAIN driver /\ driver[a].size = b
  BY <1>1, <1>3 DEF NothingLost, FiledBySize, Back
<1>5. InHand' = InHand
  BY <1>1 DEF InHand
<1>6. /\ DOMAIN held' = DOMAIN held \cup {a} /\ held'[a] = size[t]
      /\ \A x \in DOMAIN held \ {a} : held'[x] = held[x]
      /\ held' \in Maps(Addrs, Sizes)
      /\ ret' \in [Threads -> Addrs \cup {NoAddr}]
      /\ pc' \in [Threads -> PCs] /\ pc'[t] = "idle"
      /\ \A u \in Threads \ {t} : pc'[u] = pc[u]
  BY <1>1, <1>3, ReturnEffect
<1>7. /\ DOMAIN live' = DOMAIN live \cup {a} /\ live'[a] = b
      /\ \A x \in DOMAIN live \ {a} : live'[x] = live[x]
      /\ live' \in Maps(Addrs, Buckets)
  BY <1>1, <1>3, RecordEffect
<1> HIDE DEF a, b
<1>8. TypeOK'
  BY <1>1, <1>3, <1>6, <1>7 DEF TypeOK, ListsOK
<1>9. OneOwner'
  <2>1. a \notin InHand
    BY <1>3 DEF OneOwner
  <2> QED BY <1>1, <1>3, <1>5, <1>6, <2>1 DEF OneOwner, NoDuplicate
<1>10. NothingLost'
  BY <1>1, <1>3, <1>5, <1>6 DEF NothingLost
<1>11. FitsRequest'
  BY <1>1, <1>4, <1>6 DEF FitsRequest
<1>12. {u \in Threads : pc'[u] = "free"} = {u \in Threads : pc[u] = "free"}
  BY <1>1, <1>6
<1>13. LiveTracksCallers'
  BY <1>1, <1>4, <1>6, <1>7, <1>12 DEF LiveTracksCallers
<1>14. FiledBySize'
  BY <1>1, <1>3 DEF FiledBySize
<1>15. HandState'
  BY <1>1, <1>6 DEF HandState
<1> QED BY <1>8, <1>9, <1>10, <1>11, <1>13, <1>14, <1>15

(* The driver's new block is put in hand, or returned when the cache is    *)
(* off.                                                                    *)
LEMMA CudaMallocStep ==
  ASSUME IInv, NEW t \in Threads, CudaMalloc(t)
  PROVE  IInv'
<1> USE DEF IInv
<1>1. PICK a \in Addrs \ DOMAIN driver :
        /\ driver' = Put(driver, a, Block(t))
        /\ IF Enabled
           THEN /\ ptr' = [ptr EXCEPT ![t] = a]
                /\ Goto(t, "insert")
                /\ UNCHANGED <<ret, held>>
           ELSE Return(t, a) /\ UNCHANGED ptr
  BY DEF CudaMalloc
<1>2. pc[t] = "cudaMalloc" /\ UNCHANGED <<freeList, live, current, size>>
  BY DEF CudaMalloc
<1>3. /\ size[t] \in Sizes /\ size[t] \in Nat /\ Bucket(size[t]) \in Buckets
      /\ size[t] <= Bucket(size[t])
  BY BucketInBuckets DEF TypeOK
<1>4. Block(t) \in [size : Buckets, dev : Devices] /\ Block(t).size = Bucket(size[t])
  BY <1>3 DEF Block, TypeOK
<1>5. /\ DOMAIN driver' = DOMAIN driver \cup {a} /\ driver'[a] = Block(t)
      /\ \A x \in DOMAIN driver \ {a} : driver'[x] = driver[x]
  BY <1>1 DEF Put
<1>6. driver' \in Maps(Addrs, [size : Buckets, dev : Devices])
  BY <1>1, <1>4, PutMap DEF TypeOK
<1>7. a \notin DOMAIN held /\ a \notin Cached /\ a \notin InHand
  BY <1>1 DEF NothingLost
<1>8. Cached' = Cached
  BY <1>2 DEF Cached
<1>9. ptr[t] = NoAddr
  BY <1>2 DEF HandState
<1>10. FiledBySize'
  <2> SUFFICES ASSUME NEW b \in Buckets, NEW i \in DOMAIN freeList[b]
               PROVE  freeList[b][i] \in DOMAIN driver' => driver'[freeList[b][i]].size = b
    BY <1>2 DEF FiledBySize
  <2>1. freeList[b][i] # a
    BY <1>7 DEF Cached
  <2> QED BY <1>5, <2>1 DEF FiledBySize
<1>11. CASE Enabled
  <2>1. /\ ptr' = [ptr EXCEPT ![t] = a] /\ pc' = [pc EXCEPT ![t] = "insert"]
        /\ UNCHANGED <<ret, held>>
    BY <1>1, <1>11 DEF Goto
  <2>2. /\ InHand' = InHand \cup {a} /\ ptr' \in [Threads -> Addrs \cup {NoAddr}]
    BY <1>1, <1>9, <2>1, HandTakes DEF TypeOK
  <2>3. /\ ptr'[t] = a /\ \A u \in Threads \ {t} : ptr'[u] = ptr[u]
        /\ pc'[t] = "insert" /\ \A u \in Threads \ {t} : pc'[u] = pc[u]
        /\ pc' \in [Threads -> PCs]
    BY <2>1 DEF TypeOK, PCs
  <2>4. TypeOK'
    BY <1>2, <1>6, <2>1, <2>2, <2>3 DEF TypeOK
  <2>5. OneOwner'
    <3>1. \A u \in Threads : ptr[u] # a
      BY <1>7, <1>1, AddrAssumption DEF InHand
    <3> QED BY <1>2, <1>7, <1>8, <2>1, <2>2, <2>3, <3>1 DEF OneOwner
  <2>6. NothingLost'
    BY <1>5, <1>8, <2>1, <2>2 DEF NothingLost
  <2>7. FitsRequest'
    BY <1>5, <1>7, <2>1 DEF FitsRequest
  <2>8. {u \in Threads : pc'[u] = "free"} = {u \in Threads : pc[u] = "free"}
    BY <1>2, <2>3
  <2>9. \A u \in Threads : pc[u] = "free" => ptr'[u] = ptr[u]
    BY <1>2, <2>3
  <2>10. LiveTracksCallers'
    <3>1. {ptr'[u] : u \in {v \in Threads : pc'[v] = "free"}}
            = {ptr[u] : u \in {v \in Threads : pc[v] = "free"}}
      BY <2>8, <2>9
    <3>2. DOMAIN live \subseteq DOMAIN held \cup InHand
      <4>1. \A u \in Threads : pc[u] = "free" => ptr[u] \in InHand
        BY DEF HandState, InHand
      <4> QED BY <1>11, <4>1 DEF LiveTracksCallers
    <3> QED BY <1>2, <1>5, <1>7, <1>11, <2>1, <3>1, <3>2 DEF LiveTracksCallers
  <2>11. HandState'
    <3>1. \A u \in Threads : ptr'[u] # NoAddr <=> pc'[u] \in {"insert", "free", "cudaFree"}
      BY <1>1, <2>3, AddrAssumption DEF HandState
    <3>2. ASSUME NEW u \in Threads, pc'[u] = "insert"
          PROVE  ptr'[u] \in DOMAIN driver' => driver'[ptr'[u]].size = Bucket(size[u])
      <4>1. CASE u = t
        BY <1>4, <1>5, <2>3, <4>1
      <4>2. CASE u # t
        <5>1. pc[u] = "insert" /\ ptr'[u] = ptr[u]
          BY <2>3, <3>2, <4>2
        <5>2. ptr[u] \in InHand
          BY <5>1 DEF HandState, InHand
        <5> QED BY <1>5, <1>7, <5>1, <5>2 DEF HandState
      <4> QED BY <4>1, <4>2
    <3> QED BY <1>2, <1>11, <3>1, <3>2 DEF HandState
  <2> QED BY <1>10, <2>4, <2>5, <2>6, <2>7, <2>10, <2>11
<1>12. CASE ~Enabled
  <2>1. Return(t, a) /\ UNCHANGED ptr
    BY <1>1, <1>12
  <2>2. /\ DOMAIN held' = DOMAIN held \cup {a} /\ held'[a] = size[t]
        /\ \A x \in DOMAIN held \ {a} : held'[x] = held[x]
        /\ held' \in Maps(Addrs, Sizes)
        /\ ret' \in [Threads -> Addrs \cup {NoAddr}]
        /\ pc' \in [Threads -> PCs] /\ pc'[t] = "idle"
        /\ \A u \in Threads \ {t} : pc'[u] = pc[u]
    BY <1>1, <2>1, ReturnEffect
  <2>3. InHand' = InHand
    BY <2>1 DEF InHand
  <2>4. TypeOK'
    BY <1>2, <1>6, <2>1, <2>2 DEF TypeOK
  <2>5. OneOwner'
    BY <1>2, <1>7, <1>8, <2>1, <2>2, <2>3 DEF OneOwner
  <2>6. NothingLost'
    BY <1>5, <1>8, <2>2, <2>3 DEF NothingLost
  <2>7. FitsRequest'
    BY <1>3, <1>4, <1>5, <1>7, <2>2 DEF FitsRequest
  <2>8. LiveTracksCallers'
    BY <1>12 DEF LiveTracksCallers
  <2>9. HandState'
    BY <1>2, <1>9, <1>12, <2>1, <2>2 DEF HandState
  <2> QED BY <1>10, <2>4, <2>5, <2>6, <2>7, <2>8, <2>9
<1> QED BY <1>11, <1>12

(* The second critical section of a miss: from the thread to the caller.   *)
LEMMA InsertLiveStep ==
  ASSUME IInv, NEW t \in Threads, InsertLive(t)
  PROVE  IInv'
<1> USE DEF IInv
<1> DEFINE a == ptr[t]
           b == Bucket(size[t])
<1>1. /\ pc[t] = "insert" /\ Record(a, b) /\ ptr' = [ptr EXCEPT ![t] = NoAddr]
      /\ Return(t, a) /\ UNCHANGED <<freeList, driver, current, size>>
  BY DEF InsertLive
<1>2. /\ size[t] \in Sizes /\ size[t] \in Nat /\ b \in Buckets /\ size[t] <= b
  BY BucketInBuckets DEF TypeOK
<1>3. a # NoAddr
  BY <1>1 DEF HandState
<1>4. \A u, v \in Threads : ptr[u] = ptr[v] /\ ptr[u] # NoAddr => u = v
  BY DEF OneOwner
<1>5. /\ InHand' = InHand \ {a} /\ a \in InHand /\ a \in Addrs
      /\ ptr' \in [Threads -> Addrs \cup {NoAddr}]
      /\ \A u, v \in Threads : ptr'[u] = ptr'[v] /\ ptr'[u] # NoAddr => u = v
  BY <1>1, <1>3, <1>4, HandDrops DEF TypeOK
<1>6. a \in DOMAIN driver /\ driver[a].size = b
  BY <1>1, <1>5 DEF HandState, NothingLost
<1>7. /\ DOMAIN held' = DOMAIN held \cup {a} /\ held'[a] = size[t]
      /\ \A x \in DOMAIN held \ {a} : held'[x] = held[x]
      /\ held' \in Maps(Addrs, Sizes)
      /\ ret' \in [Threads -> Addrs \cup {NoAddr}]
      /\ pc' \in [Threads -> PCs] /\ pc'[t] = "idle"
      /\ \A u \in Threads \ {t} : pc'[u] = pc[u]
  BY <1>1, <1>5, ReturnEffect
<1>8. /\ DOMAIN live' = DOMAIN live \cup {a} /\ live'[a] = b
      /\ \A x \in DOMAIN live \ {a} : live'[x] = live[x]
      /\ live' \in Maps(Addrs, Buckets)
  BY <1>1, <1>2, <1>5, RecordEffect
<1>9. Cached' = Cached
  BY <1>1 DEF Cached
<1>10. ptr'[t] = NoAddr /\ \A u \in Threads \ {t} : ptr'[u] = ptr[u]
  BY <1>1 DEF TypeOK
<1> HIDE DEF a, b
<1>11. TypeOK'
  BY <1>1, <1>5, <1>7, <1>8 DEF TypeOK
<1>12. OneOwner'
  BY <1>1, <1>5, <1>7, <1>9 DEF OneOwner
<1>13. NothingLost'
  BY <1>1, <1>5, <1>7, <1>9 DEF NothingLost
<1>14. FitsRequest'
  BY <1>1, <1>2, <1>6, <1>7 DEF FitsRequest
<1>15. LiveTracksCallers'
  <2>1. {ptr'[u] : u \in {v \in Threads : pc'[v] = "free"}}
          = {ptr[u] : u \in {v \in Threads : pc[v] = "free"}}
    BY <1>1, <1>7, <1>10
  <2> QED BY <1>1, <1>6, <1>7, <1>8, <2>1 DEF LiveTracksCallers
<1>16. FiledBySize'
  BY <1>1 DEF FiledBySize
<1>17. HandState'
  BY <1>1, <1>7, <1>10 DEF HandState
<1> QED BY <1>11, <1>12, <1>13, <1>14, <1>15, <1>16, <1>17

(* A caller gives its block up. *)
LEMMA FreeStep ==
  ASSUME IInv, NEW t \in Threads, NEW a \in DOMAIN held, Free(t, a)
  PROVE  IInv'
<1> USE DEF IInv
<1>1. /\ pc[t] = "idle" /\ pc' = [pc EXCEPT ![t] = "free"]
      /\ ptr' = [ptr EXCEPT ![t] = a] /\ held' = Erase(held, a)
      /\ UNCHANGED <<freeList, live, driver, current, size, ret>>
  BY DEF Free, Goto
<1>2. a \in Addrs
  BY MapValue DEF TypeOK
<1>3. /\ DOMAIN held' = DOMAIN held \ {a}
      /\ \A x \in DOMAIN held \ {a} : held'[x] = held[x]
  BY <1>1 DEF Erase
<1>4. held' \in Maps(Addrs, Sizes)
  BY <1>1, EraseMap DEF TypeOK
<1>5. ptr[t] = NoAddr
  BY <1>1 DEF HandState
<1>6. InHand' = InHand \cup {a} /\ ptr' \in [Threads -> Addrs \cup {NoAddr}]
  BY <1>1, <1>2, <1>5, HandTakes DEF TypeOK
<1>7. Cached' = Cached
  BY <1>1 DEF Cached
<1>8. /\ ptr'[t] = a /\ \A u \in Threads \ {t} : ptr'[u] = ptr[u]
      /\ pc'[t] = "free" /\ \A u \in Threads \ {t} : pc'[u] = pc[u]
      /\ pc' \in [Threads -> PCs]
  BY <1>1 DEF TypeOK, PCs
<1>9. a \notin InHand /\ a \notin Cached
  BY DEF OneOwner
<1>10. TypeOK'
  BY <1>1, <1>4, <1>6, <1>8 DEF TypeOK
<1>11. OneOwner'
  <2>1. \A u \in Threads : ptr[u] # a
    BY <1>2, <1>9, AddrAssumption DEF InHand
  <2> QED BY <1>1, <1>3, <1>6, <1>7, <1>8, <1>9, <2>1 DEF OneOwner
<1>12. NothingLost'
  BY <1>1, <1>3, <1>6, <1>7 DEF NothingLost
<1>13. FitsRequest'
  BY <1>1, <1>3 DEF FitsRequest
<1>14. LiveTracksCallers'
  <2>1. {ptr'[u] : u \in {v \in Threads : pc'[v] = "free"}}
          = {ptr[u] : u \in {v \in Threads : pc[v] = "free"}} \cup {a}
    BY <1>1, <1>8
  <2> QED BY <1>1, <1>3, <2>1 DEF LiveTracksCallers
<1>15. FiledBySize'
  BY <1>1 DEF FiledBySize
<1>16. HandState'
  BY <1>1, <1>2, <1>8, AddrAssumption DEF HandState
<1> QED BY <1>10, <1>11, <1>12, <1>13, <1>14, <1>15, <1>16

(* The block goes back to the list of the bucket live records. *)
LEMMA PutBackStep ==
  ASSUME IInv, NEW t \in Threads, PutBack(t)
  PROVE  IInv'
<1> USE DEF IInv
<1> DEFINE a == ptr[t]
<1>1. /\ pc[t] = "free" /\ Enabled /\ a \in DOMAIN live /\ File(a)
      /\ live' = Erase(live, a) /\ pc' = [pc EXCEPT ![t] = "idle"]
      /\ ptr' = [ptr EXCEPT ![t] = NoAddr]
      /\ UNCHANGED <<driver, current, size, ret, held>>
  BY DEF PutBack, Goto
<1>2. a # NoAddr
  BY <1>1 DEF HandState
<1>3. /\ InHand' = InHand \ {a} /\ a \in InHand /\ a \in Addrs
      /\ ptr' \in [Threads -> Addrs \cup {NoAddr}]
      /\ \A u, v \in Threads : ptr'[u] = ptr'[v] /\ ptr'[u] # NoAddr => u = v
  <2>1. \A u, v \in Threads : ptr[u] = ptr[v] /\ ptr[u] # NoAddr => u = v
    BY DEF OneOwner
  <2> QED BY <1>1, <1>2, <2>1, HandDrops DEF TypeOK
<1>4. a \notin DOMAIN held /\ a \notin Cached /\ a \in DOMAIN driver
  BY <1>3 DEF OneOwner, NothingLost
<1>5. live[a] \in Buckets /\ live[a] = driver[a].size
  <2>1. live[a] \in Buckets
    BY <1>1, MapValue DEF TypeOK
  <2> QED BY <1>1, <1>4, <2>1 DEF LiveTracksCallers
<1>6. ListsOK /\ NoDuplicate
  BY DEF TypeOK, ListsOK, OneOwner, NoDuplicate
<1>7. /\ ListsOK' /\ NoDuplicate' /\ Cached' = Cached \cup {a}
      /\ \A c \in Buckets : \A i \in DOMAIN freeList'[c] :
           \/ i \in DOMAIN freeList[c] /\ freeList'[c][i] = freeList[c][i]
           \/ c = live[a] /\ freeList'[c][i] = a
  BY <1>1, <1>3, <1>4, <1>5, <1>6, FileEffect
<1>8. /\ DOMAIN live' = DOMAIN live \ {a}
      /\ \A x \in DOMAIN live \ {a} : live'[x] = live[x]
  BY <1>1 DEF Erase
<1>9. live' \in Maps(Addrs, Buckets)
  BY <1>1, EraseMap DEF TypeOK
<1>10. /\ ptr'[t] = NoAddr /\ \A u \in Threads \ {t} : ptr'[u] = ptr[u]
       /\ pc'[t] = "idle" /\ \A u \in Threads \ {t} : pc'[u] = pc[u]
       /\ pc' \in [Threads -> PCs]
  BY <1>1 DEF TypeOK, PCs
<1>11. TypeOK'
  BY <1>1, <1>3, <1>7, <1>9, <1>10 DEF TypeOK, ListsOK
<1>12. OneOwner'
  BY <1>1, <1>3, <1>4, <1>7 DEF OneOwner, NoDuplicate
<1>13. NothingLost'
  BY <1>1, <1>3, <1>7 DEF NothingLost
<1>14. FitsRequest'
  BY <1>1 DEF FitsRequest
<1>15. LiveTracksCallers'
  <2>1. \A u \in Threads \ {t} : ptr[u] # a
    BY <1>2 DEF OneOwner
  <2>2. {ptr'[u] : u \in {v \in Threads : pc'[v] = "free"}}
          = {ptr[u] : u \in {v \in Threads : pc[v] = "free"}} \ {a}
    BY <1>1, <1>10, <2>1
  <2> QED BY <1>1, <1>4, <1>8, <2>2 DEF LiveTracksCallers
<1>16. FiledBySize'
  BY <1>1, <1>5, <1>7 DEF FiledBySize
<1>17. HandState'
  BY <1>1, <1>10 DEF HandState
<1> QED BY <1>11, <1>12, <1>13, <1>14, <1>15, <1>16, <1>17

(* With the cache on, a block that is being freed is in live: the way to   *)
(* cudaFree is open only when the cache is off.                            *)
LEMMA NotLiveStep ==
  ASSUME IInv, NEW t \in Threads, NotLive(t)
  PROVE  IInv' /\ ~Enabled
<1> USE DEF IInv
<1>1. /\ pc[t] = "free" /\ (Enabled => ptr[t] \notin DOMAIN live)
      /\ pc' = [pc EXCEPT ![t] = "cudaFree"]
      /\ UNCHANGED <<freeList, live, driver, current, size, ptr, ret, held>>
  BY DEF NotLive, Goto
<1>2. ~Enabled
  BY <1>1 DEF LiveTracksCallers
<1>3. /\ pc'[t] = "cudaFree" /\ \A u \in Threads \ {t} : pc'[u] = pc[u]
      /\ pc' \in [Threads -> PCs]
  BY <1>1 DEF TypeOK, PCs
<1>4. Cached' = Cached /\ InHand' = InHand
  BY <1>1 DEF Cached, InHand
<1>5. TypeOK'
  BY <1>1, <1>3 DEF TypeOK
<1>6. OneOwner'
  BY <1>1, <1>4 DEF OneOwner
<1>7. NothingLost' /\ FitsRequest' /\ FiledBySize'
  BY <1>1, <1>4 DEF NothingLost, FitsRequest, FiledBySize
<1>8. LiveTracksCallers'
  BY <1>2 DEF LiveTracksCallers
<1>9. HandState'
  BY <1>1, <1>3 DEF HandState
<1> QED BY <1>2, <1>5, <1>6, <1>7, <1>8, <1>9

LEMMA CudaFreeStep ==
  ASSUME IInv, NEW t \in Threads, CudaFree(t)
  PROVE  IInv'
<1> USE DEF IInv
<1> DEFINE a == ptr[t]
<1>1. /\ pc[t] = "cudaFree" /\ driver' = Erase(driver, a)
      /\ pc' = [pc EXCEPT ![t] = "idle"]
      /\ ptr' = [ptr EXCEPT ![t] = NoAddr]
      /\ UNCHANGED <<freeList, live, current, size, ret, held>>
  BY DEF CudaFree, Goto
<1>2. a # NoAddr
  BY <1>1 DEF HandState
<1>3. /\ InHand' = InHand \ {a} /\ a \in InHand /\ a \in Addrs
      /\ ptr' \in [Threads -> Addrs \cup {NoAddr}]
      /\ \A u, v \in Threads : ptr'[u] = ptr'[v] /\ ptr'[u] # NoAddr => u = v
  <2>1. \A u, v \in Threads : ptr[u] = ptr[v] /\ ptr[u] # NoAddr => u = v
    BY DEF OneOwner
  <2> QED BY <1>1, <1>2, <2>1, HandDrops DEF TypeOK
<1>4. a \notin DOMAIN held /\ a \notin Cached
  BY <1>3 DEF OneOwner
<1>5. /\ DOMAIN driver' = DOMAIN driver \ {a}
      /\ \A x \in DOMAIN driver \ {a} : driver'[x] = driver[x]
  BY <1>1 DEF Erase
<1>6. driver' \in Maps(Addrs, [size : Buckets, dev : Devices])
  BY <1>1, EraseMap DEF TypeOK
<1>7. Cached' = Cached
  BY <1>1 DEF Cached
<1>8. /\ ptr'[t] = NoAddr /\ \A u \in Threads \ {t} : ptr'[u] = ptr[u]
      /\ pc'[t] = "idle" /\ \A u \in Threads \ {t} : pc'[u] = pc[u]
      /\ pc' \in [Threads -> PCs]
  BY <1>1 DEF TypeOK, PCs
<1>9. TypeOK'
  BY <1>1, <1>3, <1>6, <1>8 DEF TypeOK
<1>10. OneOwner'
  BY <1>1, <1>3, <1>7 DEF OneOwner
<1>11. NothingLost'
  BY <1>1, <1>3, <1>4, <1>5, <1>7 DEF NothingLost
<1>12. FitsRequest'
  BY <1>1, <1>5 DEF FitsRequest
<1>13. LiveTracksCallers'
  <2>1. {ptr'[u] : u \in {v \in Threads : pc'[v] = "free"}}
          = {ptr[u] : u \in {v \in Threads : pc[v] = "free"}}
    BY <1>1, <1>8
  <2> QED BY <1>1, <1>5, <2>1 DEF LiveTracksCallers
<1>14. FiledBySize'
  BY <1>1, <1>5 DEF FiledBySize
<1>15. HandState'
  BY <1>1, <1>5, <1>8 DEF HandState
<1> QED BY <1>9, <1>10, <1>11, <1>12, <1>13, <1>14, <1>15

LEMMA NextIInv == IInv /\ [Next]_vars => IInv'
<1> SUFFICES ASSUME IInv, [Next]_vars PROVE IInv'
  OBVIOUS
<1>1. CASE UNCHANGED vars
  <2> USE <1>1 DEF vars, IInv
  <2>1. Cached' = Cached /\ InHand' = InHand
    BY DEF Cached, InHand
  <2>2. TypeOK'
    BY DEF TypeOK
  <2>3. OneOwner'
    BY <2>1 DEF OneOwner
  <2>4. NothingLost' /\ FitsRequest' /\ FiledBySize'
    BY <2>1 DEF NothingLost, FitsRequest, FiledBySize
  <2>5. LiveTracksCallers'
    BY DEF LiveTracksCallers
  <2>6. HandState'
    BY DEF HandState
  <2> QED BY <2>2, <2>3, <2>4, <2>5, <2>6
<1>2. ASSUME NEW t \in Threads,
             \/ \E d \in Devices : SetDevice(t, d)
             \/ \E n \in Sizes : Malloc(t, n)
             \/ TakeCached(t)
             \/ Miss(t)
             \/ CudaMalloc(t)
             \/ CudaMallocFails(t)
             \/ InsertLive(t)
             \/ \E a \in DOMAIN held : Free(t, a)
             \/ PutBack(t)
             \/ NotLive(t)
             \/ CudaFree(t)
      PROVE  IInv'
  <2>1. CASE \/ \E d \in Devices : SetDevice(t, d)
             \/ \E n \in Sizes : Malloc(t, n)
             \/ Miss(t)
             \/ CudaMallocFails(t)
    BY <2>1, QuietStep
  <2>2. CASE TakeCached(t)
    BY <2>2, TakeCachedStep
  <2>3. CASE CudaMalloc(t)
    BY <2>3, CudaMallocStep
  <2>4. CASE InsertLive(t)
    BY <2>4, InsertLiveStep
  <2>5. CASE \E a \in DOMAIN held : Free(t, a)
    BY <2>5, FreeStep
  <2>6. CASE PutBack(t)
    BY <2>6, PutBackStep
  <2>7. CASE NotLive(t)
    BY <2>7, NotLiveStep
  <2>8. CASE CudaFree(t)
    BY <2>8, CudaFreeStep
  <2> QED BY <1>2, <2>1, <2>2, <2>3, <2>4, <2>5, <2>6, <2>7, <2>8
<1> QED BY <1>1, <1>2 DEF Next

(* Every reachable state of the allocator satisfies the inductive          *)
(* invariant.                                                              *)
THEOREM Invariance == Spec => []IInv
BY InitIInv, NextIInv, PTL DEF Spec

(* The variables keep their types, for any threads, sizes and devices: the *)
(* maps stay maps of addresses and a free list never holds a null pointer. *)
THEOREM TypeCorrect == Spec => []TypeOK
<1>1. IInv => TypeOK
  BY DEF IInv
<1> QED BY <1>1, Invariance, PTL

(* No block of device memory ever has two owners: two callers of           *)
(* aclrtMalloc never share one, and none is handed out while the cache or  *)
(* another thread inside alloc or free still has it.                       *)
THEOREM ExclusiveOwnership == Spec => []OneOwner
<1>1. IInv => OneOwner
  BY DEF IInv
<1> QED BY <1>1, Invariance, PTL

(* The allocator loses no block it obtained with cudaMalloc and uses none  *)
(* it returned with cudaFree.                                              *)
THEOREM NoBlockLost == Spec => []NothingLost
<1>1. IInv => NothingLost
  BY DEF IInv
<1> QED BY <1>1, Invariance, PTL

(* aclrtMalloc(n) never yields a block smaller than n, however often the   *)
(* block was recycled through buckets and live.                            *)
THEOREM RequestsFit == Spec => []FitsRequest
<1>1. IInv => FitsRequest
  BY DEF IInv
<1> QED BY <1>1, Invariance, PTL

(* live and the lists say of every block the bucket it really has, so that *)
(* free files it where alloc may take it.                                  *)
THEOREM BooksAgree == Spec => [](LiveTracksCallers /\ FiledBySize)
<1>1. IInv => LiveTracksCallers /\ FiledBySize
  BY DEF IInv
<1> QED BY <1>1, Invariance, PTL

-----------------------------------------------------------------------------
(* The abstract call of a thread follows its program counter. *)
LEMMA CallFollows ==
  ASSUME pc \in [Threads -> PCs], NEW t \in Threads, NEW l \in PCs,
         pc' = [pc EXCEPT ![t] = l]
  PROVE  calls' = [calls EXCEPT ![t] = CallOf(l)]
BY DEF calls

LEMMA CallValues ==
  /\ CallOf("idle") = "none"
  /\ CallOf("lookup") = "malloc" /\ CallOf("cudaMalloc") = "malloc"
  /\ CallOf("insert") = "malloc"
  /\ CallOf("free") = "free" /\ CallOf("cudaFree") = "free"
BY DEF CallOf

(* A step that hands out a block nobody holds is a Grant of the heap. *)
LEMMA ReturnIsGrant ==
  ASSUME TypeOK, NEW t \in Threads, NEW a \in Addrs, a \notin DOMAIN held,
         Return(t, a), pc[t] \in {"lookup", "cudaMalloc", "insert"}, UNCHANGED size,
         driver'[a].size = Bucket(size[t]),
         \A x \in DOMAIN held : driver'[x] = driver[x]
  PROVE  Heap!Grant(t)
<1>1. calls[t] = "malloc"
  BY CallValues DEF calls, TypeOK
<1>2. calls' = [calls EXCEPT ![t] = "none"]
  BY CallFollows, CallValues DEF Return, Goto, TypeOK, PCs
<1>3. ret' = [ret EXCEPT ![t] = a] /\ size[t] \in Sizes
  BY DEF Return, TypeOK
<1>4. Bucket(size[t]) \in Buckets /\ Bucket(size[t]) >= size[t]
  BY <1>3, BucketAssumption DEF Buckets
<1>5. DOMAIN held' = DOMAIN held \cup {a}
  BY DEF Return, Put
<1>6. HeldBlocks' = [x \in DOMAIN HeldBlocks \cup {a} |->
                       IF x = a THEN Bucket(size[t]) ELSE HeldBlocks[x]]
  BY <1>5 DEF HeldBlocks
<1>7. a \in Addrs \ DOMAIN HeldBlocks
  BY DEF HeldBlocks
<1> QED BY <1>1, <1>2, <1>3, <1>4, <1>6, <1>7 DEF Heap!Grant

(* A step that leaves the held blocks with the driver alone is invisible   *)
(* in the heap's blocks.                                                   *)
LEMMA HeldBlocksStay ==
  ASSUME UNCHANGED held, \A x \in DOMAIN held : driver'[x] = driver[x]
  PROVE  HeldBlocks' = HeldBlocks
BY DEF HeldBlocks

LEMMA RefineInit == Init => Heap!Init
<1> SUFFICES ASSUME Init PROVE Heap!Init
  OBVIOUS
<1>1. calls = [t \in Threads |-> "none"]
  BY CallValues DEF Init, calls
<1>2. size \in [Threads -> Sizes]
  BY SizesNonEmpty DEF Init
<1>3. HeldBlocks = [a \in {} |-> 0]
  BY DEF Init, HeldBlocks
<1> QED BY <1>1, <1>2, <1>3 DEF Init, Heap!Init

LEMMA RefineStep ==
  ASSUME IInv, NEW t \in Threads,
         \/ \E d \in Devices : SetDevice(t, d)
         \/ \E n \in Sizes : Malloc(t, n)
         \/ TakeCached(t)
         \/ Miss(t)
         \/ CudaMalloc(t)
         \/ CudaMallocFails(t)
         \/ InsertLive(t)
         \/ \E a \in DOMAIN held : Free(t, a)
         \/ PutBack(t)
         \/ NotLive(t)
         \/ CudaFree(t)
  PROVE  [Heap!Next]_(Heap!hvars)
<1>1. TypeOK /\ pc \in [Threads -> PCs] /\ pc[t] \in PCs
  BY DEF IInv, TypeOK
<1>2. calls[t] = CallOf(pc[t])
  BY DEF calls
<1>3. CASE \E d \in Devices : SetDevice(t, d)
  <2>1. UNCHANGED <<pc, size, ret, held, driver>>
    BY <1>3 DEF SetDevice
  <2>2. calls' = calls
    BY <2>1 DEF calls
  <2>3. HeldBlocks' = HeldBlocks
    BY <2>1, HeldBlocksStay
  <2> QED BY <2>1, <2>2, <2>3 DEF Heap!hvars
<1>4. CASE \E n \in Sizes : Malloc(t, n)
  <2>1. calls[t] = "none" /\ calls' = [calls EXCEPT ![t] = "malloc"]
    <3>1. pc[t] = "idle" /\ pc' = [pc EXCEPT ![t] = "lookup"] /\ "lookup" \in PCs
      BY <1>4 DEF Malloc, Goto, PCs
    <3>2. calls' = [calls EXCEPT ![t] = CallOf("lookup")]
      BY <1>1, <3>1, CallFollows
    <3> QED BY <1>2, <3>1, <3>2, CallValues
  <2>2. Heap!Invoke(t)
    BY <1>4, <2>1, HeldBlocksStay DEF Malloc, Heap!Invoke
  <2> QED BY <2>2 DEF Heap!Next
<1>5. CASE TakeCached(t)
  <2> DEFINE b == Bucket(size[t])
  <2>1. b \in Buckets /\ PopBack(b) /\ freeList[b] # <<>> /\ Return(t, Back(b))
        /\ pc[t] = "lookup"
    BY <1>1, <1>5, BucketInBuckets DEF TakeCached, TypeOK
  <2>2. ListsOK /\ NoDuplicate
    BY DEF IInv, TypeOK, ListsOK, OneOwner, NoDuplicate
  <2>3. Back(b) \in Cached /\ Back(b) \in Addrs
    BY <2>1, <2>2, PopEffect
  <2>4. Len(freeList[b]) \in DOMAIN freeList[b]
    BY <2>1, <2>2, PopEffect
  <2>5. Back(b) \notin DOMAIN held
    BY <2>3 DEF IInv, OneOwner
  <2>6. Back(b) \in DOMAIN driver
    BY <2>3 DEF IInv, NothingLost
  <2>7. driver[Back(b)].size = b
    BY <2>1, <2>6, <2>4 DEF IInv, FiledBySize, Back
  <2>8. UNCHANGED <<driver, size>>
    BY <1>5 DEF TakeCached
  <2>9. Heap!Grant(t)
    BY <1>1, <2>1, <2>3, <2>5, <2>7, <2>8, ReturnIsGrant
  <2> QED BY <2>9 DEF Heap!Next
<1>6. CASE Miss(t)
  <2>1. calls' = [calls EXCEPT ![t] = "malloc"] /\ calls[t] = "malloc"
    BY <1>1, <1>2, <1>6, CallFollows, CallValues DEF Miss, Goto, PCs
  <2>2. calls' = calls
    BY <2>1 DEF calls
  <2> QED BY <1>6, <2>2, HeldBlocksStay DEF Miss, Heap!hvars
<1>7. CASE CudaMalloc(t)
  <2>1. PICK a \in Addrs \ DOMAIN driver :
          /\ driver' = Put(driver, a, Block(t))
          /\ IF Enabled
             THEN /\ ptr' = [ptr EXCEPT ![t] = a]
                  /\ Goto(t, "insert")
                  /\ UNCHANGED <<ret, held>>
             ELSE Return(t, a) /\ UNCHANGED ptr
    BY <1>7 DEF CudaMalloc
  <2>2. pc[t] = "cudaMalloc" /\ UNCHANGED size
    BY <1>7 DEF CudaMalloc
  <2>3. DOMAIN held \subseteq DOMAIN driver /\ a \notin DOMAIN held
    BY DEF IInv, NothingLost
  <2>4. /\ \A x \in DOMAIN held : driver'[x] = driver[x]
        /\ driver'[a].size = Bucket(size[t])
    BY <2>1, <2>3 DEF Put, Block
  <2>5. CASE Enabled
    <3>1. calls' = [calls EXCEPT ![t] = "malloc"] /\ calls[t] = "malloc"
      BY <1>1, <1>2, <2>1, <2>2, <2>5, CallFollows, CallValues DEF Goto, PCs
    <3>2. calls' = calls
      BY <3>1 DEF calls
    <3> QED BY <2>1, <2>2, <2>5, <2>4, <3>2, HeldBlocksStay DEF Heap!hvars
  <2>6. CASE ~Enabled
    <3>1. Heap!Grant(t)
      BY <1>1, <2>1, <2>2, <2>6, <2>3, <2>4, ReturnIsGrant
    <3> QED BY <3>1 DEF Heap!Next
  <2> QED BY <2>5, <2>6
<1>8. CASE CudaMallocFails(t)
  <2>1. calls[t] = "malloc" /\ calls' = [calls EXCEPT ![t] = "none"]
    BY <1>1, <1>2, <1>8, CallFollows, CallValues DEF CudaMallocFails, Goto, PCs
  <2>2. Heap!Refuse(t)
    BY <1>8, <2>1, HeldBlocksStay DEF CudaMallocFails, Heap!Refuse
  <2> QED BY <2>2 DEF Heap!Next
<1>9. CASE InsertLive(t)
  <2>1. pc[t] = "insert" /\ Return(t, ptr[t])
    BY <1>9 DEF InsertLive
  <2>2. ptr[t] # NoAddr /\ ptr[t] \in Addrs /\ ptr[t] \in InHand
    BY <2>1 DEF IInv, HandState, TypeOK, InHand
  <2>3. ptr[t] \notin DOMAIN held
    BY <2>2 DEF IInv, OneOwner
  <2>4. driver[ptr[t]].size = Bucket(size[t])
    BY <2>1, <2>2 DEF IInv, HandState, NothingLost
  <2>5. UNCHANGED <<driver, size>>
    BY <1>9 DEF InsertLive
  <2>6. Heap!Grant(t)
    BY <1>1, <2>1, <2>2, <2>3, <2>4, <2>5, ReturnIsGrant
  <2> QED BY <2>6 DEF Heap!Next
<1>10. CASE \E a \in DOMAIN held : Free(t, a)
  <2>1. calls[t] = "none" /\ calls' = [calls EXCEPT ![t] = "free"]
    BY ZenonT(60), <1>1, <1>2, <1>10, CallFollows, CallValues DEF Free, Goto, PCs
  <2>2. Heap!GiveUp(t)
    BY <1>10, <2>1 DEF Free, Erase, HeldBlocks, Heap!GiveUp
  <2> QED BY <2>2 DEF Heap!Next
<1>11. CASE PutBack(t) \/ CudaFree(t)
  <2>1. calls[t] = "free" /\ calls' = [calls EXCEPT ![t] = "none"]
    BY <1>1, <1>2, <1>11, CallFollows, CallValues DEF PutBack, CudaFree, Goto, PCs
  <2>2. \A x \in DOMAIN held : driver'[x] = driver[x]
    <3>1. CASE PutBack(t)
      BY <3>1 DEF PutBack
    <3>2. CASE CudaFree(t)
      <4>1. ptr[t] \notin DOMAIN held
        BY <3>2 DEF CudaFree, IInv, OneOwner, HandState, InHand
      <4>2. DOMAIN held \subseteq DOMAIN driver
        BY DEF IInv, NothingLost
      <4> QED BY <3>2, <4>1, <4>2 DEF CudaFree, Erase
    <3> QED BY <1>11, <3>1, <3>2
  <2>3. Heap!FreeReturns(t)
    BY <1>11, <2>1, <2>2, HeldBlocksStay DEF PutBack, CudaFree, Heap!FreeReturns
  <2> QED BY <2>3 DEF Heap!Next
<1>12. CASE NotLive(t)
  <2>1. calls' = [calls EXCEPT ![t] = "free"] /\ calls[t] = "free"
    BY <1>1, <1>2, <1>12, CallFollows, CallValues DEF NotLive, Goto, PCs
  <2>2. calls' = calls
    BY <2>1 DEF calls
  <2> QED BY <1>12, <2>2, HeldBlocksStay DEF NotLive, Heap!hvars
<1> QED BY <1>3, <1>4, <1>5, <1>6, <1>7, <1>8, <1>9, <1>10, <1>11, <1>12

(* The allocator with its cache, its lock and its unlocked driver calls    *)
(* implements the heap of DeviceHeap: every behaviour of it is one the     *)
(* program could see from a heap whose calls are atomic.                   *)
THEOREM Implements == Spec => HeapSpec
<1>1. Init => Heap!Init
  BY RefineInit
<1>2. IInv /\ [Next]_vars => [Heap!Next]_(Heap!hvars)
  <2> SUFFICES ASSUME IInv, [Next]_vars PROVE [Heap!Next]_(Heap!hvars)
    OBVIOUS
  <2>1. CASE Next
    BY <2>1, RefineStep DEF Next
  <2>2. CASE UNCHANGED vars
    BY <2>2 DEF vars, Heap!hvars, calls, HeldBlocks
  <2> QED BY <2>1, <2>2
<1> QED BY <1>1, <1>2, Invariance, PTL DEF Spec, HeapSpec, Heap!Spec

-----------------------------------------------------------------------------
(* How much the allocator can come to hold.  Threads that are about to     *)
(* call cudaMalloc will each add a block, so they are counted with those   *)
(* there are; and while a list is empty every block of its bucket is       *)
(* wanted by somebody.                                                     *)
BlocksOf(b) == {a \in DOMAIN driver : driver[a].size = b}
Missing(b) == {t \in Threads : pc[t] = "cudaMalloc" /\ Bucket(size[t]) = b}
Asking(b) == {t \in Threads : pc[t] \in {"lookup", "cudaMalloc"} /\ Bucket(size[t]) = b}
Inserting(b) == {t \in Threads : pc[t] = "insert" /\ Bucket(size[t]) = b}
Allocating(b) ==
  {t \in Threads : pc[t] \in {"lookup", "cudaMalloc", "insert"} /\ Bucket(size[t]) = b}
Freeing(b) ==
  {t \in Threads : /\ pc[t] \in {"free", "cudaFree"}
                   /\ ptr[t] \in DOMAIN driver
                   /\ driver[ptr[t]].size = b}
HeldOf(b) == {a \in DOMAIN held : Bucket(held[a]) = b}

HeldBySize == \A a \in DOMAIN held : driver[a].size = Bucket(held[a])
OffKeepsNone == ~Enabled => \A b \in Buckets : freeList[b] = <<>>
PeakCovers == \A b \in Buckets : Cardinality(BlocksOf(b)) + Cardinality(Missing(b)) <= peak[b]

FInv == /\ IInv /\ HeldBySize /\ OffKeepsNone
        /\ peak \in [Buckets -> Nat]
        /\ PeakCovers

LEMMA FiniteParts ==
  ASSUME TypeOK, NEW b
  PROVE  /\ IsFiniteSet(BlocksOf(b)) /\ IsFiniteSet(Missing(b)) /\ IsFiniteSet(Asking(b))
         /\ IsFiniteSet(Inserting(b)) /\ IsFiniteSet(Allocating(b))
         /\ IsFiniteSet(Freeing(b)) /\ IsFiniteSet(HeldOf(b))
<1>1. DOMAIN driver \subseteq Addrs /\ DOMAIN held \subseteq Addrs
  BY MapValue DEF TypeOK
<1>2. BlocksOf(b) \in SUBSET Addrs /\ HeldOf(b) \in SUBSET Addrs
  BY <1>1 DEF BlocksOf, HeldOf
<1>3. /\ Missing(b) \in SUBSET Threads /\ Asking(b) \in SUBSET Threads
      /\ Inserting(b) \in SUBSET Threads /\ Allocating(b) \in SUBSET Threads
      /\ Freeing(b) \in SUBSET Threads
  BY DEF Missing, Asking, Inserting, Allocating, Freeing
<1> QED BY <1>2, <1>3, FiniteAssumption, FS_Subset

LEMMA DemandParts ==
  ASSUME NEW b
  PROVE  /\ Footprint(b) = Cardinality(BlocksOf(b))
         /\ Demand(b) = Cardinality(HeldOf(b)) + Cardinality(Allocating(b))
                          + Cardinality(Freeing(b))
BY DEF Footprint, Demand, BlocksOf, HeldOf, Allocating, Freeing

LEMMA DemandCounts ==
  ASSUME TypeOK, NEW b
  PROVE  Demand(b) \in Nat
<1>1. /\ Cardinality(HeldOf(b)) \in Nat /\ Cardinality(Allocating(b)) \in Nat
      /\ Cardinality(Freeing(b)) \in Nat
  BY FiniteParts, FS_CardinalityType
<1> QED BY <1>1, DemandParts

LEMMA DemandsCount == TypeOK => \A b \in Buckets : Demand(b) \in Nat
BY DemandCounts

LEMMA NextDemandsCount == TypeOK' => (\A b \in Buckets : Demand(b) \in Nat)'
BY DemandsCount, PTL

(* No free block of the bucket: each block is held, or in the hands of a   *)
(* thread that allocates or frees, and those that ask come on top.         *)
LEMMA EmptyListDemand ==
  ASSUME IInv, HeldBySize, NEW b \in Buckets, freeList[b] = <<>>
  PROVE  Cardinality(BlocksOf(b)) + Cardinality(Asking(b)) <= Demand(b)
<1> DEFINE H == HeldOf(b)
           I == Inserting(b)
           F == Freeing(b)
           L == Allocating(b)
           A == Asking(b)
           B == BlocksOf(b)
           hand == [t \in I \cup F |-> ptr[t]]
           inHand == {ptr[t] : t \in I \cup F}
<1>1. /\ IsFiniteSet(H) /\ IsFiniteSet(I) /\ IsFiniteSet(F) /\ IsFiniteSet(L)
      /\ IsFiniteSet(A) /\ IsFiniteSet(B)
  BY FiniteParts DEF IInv
<1>2. ASSUME NEW a \in B PROVE a \in H \cup inHand
  <2>1. a \in DOMAIN driver /\ driver[a].size = b
    BY DEF BlocksOf
  <2>2. a \notin Cached
    <3>1. SUFFICES ASSUME NEW c \in Buckets, NEW k \in DOMAIN freeList[c], a = freeList[c][k]
                   PROVE  FALSE
      BY DEF Cached
    <3>2. c = b
      BY <2>1, <3>1 DEF IInv, FiledBySize
    <3>3. DOMAIN freeList[b] = {}
      OBVIOUS
    <3> QED BY <3>2, <3>3
  <2>3. CASE a \in DOMAIN held
    BY <2>1, <2>3 DEF HeldBySize, HeldOf
  <2>4. CASE a \in InHand
    <3>1. PICK t \in Threads : ptr[t] = a /\ ptr[t] # NoAddr
      BY <2>4 DEF InHand
    <3>2. pc[t] \in {"insert", "free", "cudaFree"}
      BY <3>1 DEF IInv, HandState
    <3>3. CASE pc[t] = "insert"
      BY <2>1, <3>1, <3>3 DEF IInv, HandState, Inserting
    <3>4. CASE pc[t] \in {"free", "cudaFree"}
      BY <2>1, <3>1, <3>4 DEF Freeing
    <3> QED BY <3>2, <3>3, <3>4
  <2> QED BY <2>1, <2>2, <2>3, <2>4 DEF IInv, NothingLost
<1>3. IsFiniteSet(I \cup F) /\ Cardinality(I \cup F) <= Cardinality(I) + Cardinality(F)
  <2>1. Cardinality(I \cap F) \in Nat
    BY <1>1, FS_Intersection, FS_CardinalityType
  <2>2. Cardinality(I \cup F) = Cardinality(I) + Cardinality(F) - Cardinality(I \cap F)
    BY <1>1, FS_Union
  <2>3. IsFiniteSet(I \cup F) /\ Cardinality(I) \in Nat /\ Cardinality(F) \in Nat
    BY <1>1, FS_Union, FS_CardinalityType
  <2> QED BY <2>1, <2>2, <2>3
<1>4. IsFiniteSet(inHand) /\ Cardinality(inHand) <= Cardinality(I \cup F)
  <2>1. hand \in Surjection(I \cup F, inHand)
    BY DEF Surjection
  <2> QED BY <1>3, <2>1, FS_Surjection
<1>5. Cardinality(B) <= Cardinality(H) + Cardinality(inHand)
  <2>1. IsFiniteSet(H \cup inHand) /\ B \in SUBSET (H \cup inHand)
    BY <1>1, <1>2, <1>4, FS_Union
  <2>2. Cardinality(B) <= Cardinality(H \cup inHand)
    BY <2>1, FS_Subset
  <2>3. Cardinality(H \cup inHand)
          = Cardinality(H) + Cardinality(inHand) - Cardinality(H \cap inHand)
    BY <1>1, <1>4, FS_Union
  <2>4. Cardinality(H \cap inHand) \in Nat
    BY <1>1, FS_Intersection, FS_CardinalityType
  <2>5. /\ Cardinality(B) \in Nat /\ Cardinality(H) \in Nat /\ Cardinality(inHand) \in Nat
        /\ Cardinality(H \cup inHand) \in Nat
    BY <1>1, <1>4, <2>1, FS_CardinalityType
  <2> QED BY <2>2, <2>3, <2>4, <2>5
<1>6. Cardinality(L) = Cardinality(A) + Cardinality(I)
  <2>1. L = A \cup I /\ A \cap I = {}
    BY DEF Allocating, Asking, Inserting
  <2>2. Cardinality(A \cap I) = 0
    BY <2>1, FS_EmptySet
  <2>3. Cardinality(A \cup I) = Cardinality(A) + Cardinality(I) - Cardinality(A \cap I)
    BY <1>1, FS_Union
  <2>4. Cardinality(A) \in Nat /\ Cardinality(I) \in Nat
    BY <1>1, FS_CardinalityType
  <2> QED BY <2>1, <2>2, <2>3, <2>4
<1>7. /\ Cardinality(B) \in Nat /\ Cardinality(H) \in Nat /\ Cardinality(inHand) \in Nat
      /\ Cardinality(I) \in Nat /\ Cardinality(F) \in Nat /\ Cardinality(L) \in Nat
      /\ Cardinality(A) \in Nat /\ Cardinality(I \cup F) \in Nat
  BY <1>1, <1>3, <1>4, FS_CardinalityType
<1>8. Demand(b) = Cardinality(H) + Cardinality(L) + Cardinality(F)
  BY DemandParts
<1>9. PICK cB, cH, cP, cI, cF, cL, cA, cU \in Nat :
        /\ cB = Cardinality(B) /\ cH = Cardinality(H) /\ cP = Cardinality(inHand)
        /\ cI = Cardinality(I) /\ cF = Cardinality(F) /\ cL = Cardinality(L)
        /\ cA = Cardinality(A) /\ cU = Cardinality(I \cup F)
  BY <1>7
<1>10. cU <= cI + cF /\ cP <= cU /\ cB <= cH + cP /\ cL = cA + cI
  BY <1>3, <1>4, <1>5, <1>6, <1>9
<1>11. cB + cA <= cH + cL + cF
  BY <1>10
<1> QED BY <1>8, <1>9, <1>11

LEMMA InitFInv == FInit => FInv
<1> SUFFICES ASSUME FInit PROVE FInv
  OBVIOUS
<1>1. IInv
  BY InitIInv DEF FInit
<1>2. HeldBySize /\ OffKeepsNone
  BY DEF FInit, Init, HeldBySize, OffKeepsNone
<1>3. peak \in [Buckets -> Nat]
  BY DEF FInit
<1>4. ASSUME NEW b \in Buckets
      PROVE  Cardinality(BlocksOf(b)) + Cardinality(Missing(b)) <= peak[b]
  <2>1. BlocksOf(b) = {} /\ Missing(b) = {}
    BY DEF FInit, Init, BlocksOf, Missing
  <2> QED BY <2>1, FS_EmptySet DEF FInit
<1> QED BY <1>1, <1>2, <1>3, <1>4 DEF FInv, PeakCovers

(* A block a caller holds keeps the size of the bucket it asked for. *)
LEMMA HeldBySizeStep ==
  ASSUME IInv, HeldBySize, [Next]_vars
  PROVE  HeldBySize'
<1> USE DEF IInv
<1>1. DOMAIN held \subseteq DOMAIN driver /\ DOMAIN held \subseteq Addrs
  BY MapValue DEF NothingLost, TypeOK
<1>2. ASSUME NEW t \in Threads, NEW a, Return(t, a)
      PROVE  /\ DOMAIN held' = DOMAIN held \cup {a}
             /\ \A x \in DOMAIN held' : held'[x] = IF x = a THEN size[t] ELSE held[x]
  BY <1>2 DEF Return, Put
<1>3. CASE UNCHANGED <<driver, held>>
  BY <1>3 DEF HeldBySize
<1>4. ASSUME NEW t \in Threads, TakeCached(t) PROVE HeldBySize'
  <2> DEFINE b == Bucket(size[t])
             a == Back(b)
  <2>1. b \in Buckets /\ freeList[b] # <<>> /\ Return(t, a) /\ driver' = driver
    BY <1>4, BucketInBuckets DEF TakeCached, TypeOK
  <2>2. freeList[b] \in Seq(Addrs)
    BY <2>1 DEF TypeOK
  <2>3. Len(freeList[b]) \in DOMAIN freeList[b]
    BY <2>1, <2>2, EmptySeq, LenProperties
  <2>4. a \in Cached /\ a \in DOMAIN driver /\ driver[a].size = b
    BY <2>1, <2>3 DEF Cached, NothingLost, FiledBySize, Back
  <2>5. PICK x : x = a /\ Return(t, x)
    BY <2>1
  <2>6. /\ DOMAIN held' = DOMAIN held \cup {x}
        /\ \A y \in DOMAIN held' : held'[y] = IF y = x THEN size[t] ELSE held[y]
    BY <2>5 DEF Return, Put
  <2> QED BY <2>1, <2>4, <2>5, <2>6 DEF HeldBySize
<1>5. ASSUME NEW t \in Threads, CudaMalloc(t) PROVE HeldBySize'
  <2>1. PICK a \in Addrs \ DOMAIN driver :
          /\ driver' = Put(driver, a, Block(t))
          /\ (held' = held \/ Return(t, a))
    BY <1>5 DEF CudaMalloc
  <2>2. /\ driver'[a].size = Bucket(size[t])
        /\ \A x \in DOMAIN driver : driver'[x] = driver[x]
    BY <2>1 DEF Put, Block
  <2>3. CASE held' = held
    BY <1>1, <2>2, <2>3 DEF HeldBySize
  <2>4. CASE Return(t, a)
    <3>1. /\ DOMAIN held' = DOMAIN held \cup {a}
          /\ \A y \in DOMAIN held' : held'[y] = IF y = a THEN size[t] ELSE held[y]
      BY <2>4 DEF Return, Put
    <3>2. \A x \in DOMAIN held : x \in DOMAIN driver /\ x # a
      BY <1>1
    <3> QED BY <2>2, <3>1, <3>2 DEF HeldBySize
  <2> QED BY <2>1, <2>3, <2>4
<1>6. ASSUME NEW t \in Threads, InsertLive(t) PROVE HeldBySize'
  <2> DEFINE a == ptr[t]
  <2>1. Return(t, a) /\ driver' = driver /\ pc[t] = "insert"
    BY <1>6 DEF InsertLive
  <2>2. a \in InHand
    BY <2>1 DEF HandState, InHand
  <2>3. driver[a].size = Bucket(size[t])
    BY <2>1, <2>2 DEF HandState, NothingLost
  <2>4. PICK x : x = a /\ Return(t, x)
    BY <2>1
  <2>5. /\ DOMAIN held' = DOMAIN held \cup {x}
        /\ \A y \in DOMAIN held' : held'[y] = IF y = x THEN size[t] ELSE held[y]
    BY <2>4 DEF Return, Put
  <2> QED BY <2>1, <2>3, <2>4, <2>5 DEF HeldBySize
<1>7. ASSUME NEW t \in Threads, NEW a \in DOMAIN held, Free(t, a) PROVE HeldBySize'
  BY <1>7 DEF Free, Erase, HeldBySize
<1>8. ASSUME NEW t \in Threads, CudaFree(t) PROVE HeldBySize'
  <2>1. pc[t] = "cudaFree" /\ held' = held /\ driver' = Erase(driver, ptr[t])
    BY <1>8 DEF CudaFree
  <2>2. ptr[t] \in InHand
    BY <2>1 DEF HandState, InHand
  <2>3. \A x \in DOMAIN held : x \in DOMAIN driver \ {ptr[t]}
    BY <1>1, <2>2 DEF OneOwner
  <2>4. \A x \in DOMAIN held : driver'[x] = driver[x]
    BY <2>1, <2>3 DEF Erase
  <2> QED BY <2>1, <2>4 DEF HeldBySize
<1>9. ASSUME NEW t \in Threads,
             \/ \E d \in Devices : SetDevice(t, d)
             \/ \E n \in Sizes : Malloc(t, n)
             \/ Miss(t) \/ CudaMallocFails(t) \/ PutBack(t) \/ NotLive(t)
      PROVE  HeldBySize'
  BY <1>3, <1>9 DEF SetDevice, Malloc, Miss, CudaMallocFails, PutBack, NotLive
<1> QED BY <1>3, <1>4, <1>5, <1>6, <1>7, <1>8, <1>9 DEF Next, vars

LEMMA OffKeepsNoneStep ==
  ASSUME IInv, OffKeepsNone, [Next]_vars
  PROVE  OffKeepsNone'
<1> SUFFICES ASSUME ~Enabled PROVE freeList' = freeList
  BY DEF OffKeepsNone
<1>1. CASE UNCHANGED vars
  BY <1>1 DEF vars
<1>2. CASE Next
  BY <1>2 DEF Next, SetDevice, Malloc, TakeCached, Miss, CudaMalloc, CudaMallocFails,
       InsertLive, Free, PutBack, NotLive, CudaFree
<1> QED BY <1>1, <1>2

(* Blocks appear only where a thread was about to ask the driver for one.  *)
LEMMA NoMoreBlocks ==
  ASSUME TypeOK, NEW b,
         BlocksOf(b)' \subseteq BlocksOf(b), Missing(b)' \subseteq Missing(b)
  PROVE  /\ Cardinality(BlocksOf(b)') + Cardinality(Missing(b)')
              <= Cardinality(BlocksOf(b)) + Cardinality(Missing(b))
         /\ Cardinality(BlocksOf(b)') + Cardinality(Missing(b)') \in Nat
<1>1. IsFiniteSet(BlocksOf(b)) /\ IsFiniteSet(Missing(b))
  BY FiniteParts
<1>2. /\ IsFiniteSet(BlocksOf(b)') /\ Cardinality(BlocksOf(b)') <= Cardinality(BlocksOf(b))
      /\ IsFiniteSet(Missing(b)') /\ Cardinality(Missing(b)') <= Cardinality(Missing(b))
  BY <1>1, FS_Subset
<1>3. /\ Cardinality(BlocksOf(b)) \in Nat /\ Cardinality(Missing(b)) \in Nat
      /\ Cardinality(BlocksOf(b)') \in Nat /\ Cardinality(Missing(b)') \in Nat
  BY <1>1, <1>2, FS_CardinalityType
<1> QED BY <1>2, <1>3

LEMMA CudaMallocBalances ==
  ASSUME TypeOK, NEW t \in Threads, CudaMalloc(t), NEW b
  PROVE  /\ Cardinality(BlocksOf(b)') + Cardinality(Missing(b)')
              <= Cardinality(BlocksOf(b)) + Cardinality(Missing(b))
         /\ Cardinality(BlocksOf(b)') + Cardinality(Missing(b)') \in Nat
<1>1. PICK a \in Addrs \ DOMAIN driver :
        /\ driver' = Put(driver, a, Block(t))
        /\ \/ pc' = [pc EXCEPT ![t] = "insert"]
           \/ pc' = [pc EXCEPT ![t] = "idle"]
  BY DEF CudaMalloc, Goto, Return
<1>2. pc[t] = "cudaMalloc" /\ size' = size /\ pc \in [Threads -> PCs]
  BY DEF CudaMalloc, TypeOK
<1>3. pc'[t] # "cudaMalloc" /\ \A u \in Threads \ {t} : pc'[u] = pc[u]
  BY <1>1, <1>2
<1>4. Missing(b)' = Missing(b) \ {t}
  BY <1>2, <1>3 DEF Missing
<1>5. /\ DOMAIN driver' = DOMAIN driver \cup {a}
      /\ driver'[a].size = Bucket(size[t])
      /\ \A x \in DOMAIN driver : driver'[x] = driver[x]
  BY <1>1 DEF Put, Block
<1>6. CASE Bucket(size[t]) # b
  <2>1. BlocksOf(b)' = BlocksOf(b)
    BY <1>5, <1>6 DEF BlocksOf
  <2> QED BY <1>4, <2>1, NoMoreBlocks
<1>7. CASE Bucket(size[t]) = b
  <2>1. BlocksOf(b)' = BlocksOf(b) \cup {a} /\ a \notin BlocksOf(b) /\ t \in Missing(b)
    BY <1>1, <1>2, <1>5, <1>7 DEF BlocksOf, Missing
  <2>2. IsFiniteSet(BlocksOf(b)) /\ IsFiniteSet(Missing(b))
    BY FiniteParts
  <2>3. Cardinality(BlocksOf(b)') = Cardinality(BlocksOf(b)) + 1
    BY <2>1, <2>2, FS_AddElement
  <2>4. Cardinality(Missing(b)') = Cardinality(Missing(b)) - 1
        /\ Cardinality(Missing(b)') \in Nat
    BY <1>4, <2>1, <2>2, FS_RemoveElement, FS_CardinalityType
  <2>5. Cardinality(BlocksOf(b)) \in Nat /\ Cardinality(Missing(b)) \in Nat
    BY <2>2, FS_CardinalityType
  <2> QED BY <2>3, <2>4, <2>5
<1> QED BY <1>6, <1>7

(* A thread that finds the list empty asks for what it already demanded. *)
LEMMA MissWithinDemand ==
  ASSUME IInv, HeldBySize, OffKeepsNone, NEW t \in Threads, Miss(t),
         NEW b \in Buckets, b = Bucket(size[t])
  PROVE  /\ Cardinality(BlocksOf(b)') + Cardinality(Missing(b)') <= Demand(b)'
         /\ Cardinality(BlocksOf(b)') + Cardinality(Missing(b)') \in Nat
<1>1. /\ pc[t] = "lookup" /\ pc' = [pc EXCEPT ![t] = "cudaMalloc"] /\ pc \in [Threads -> PCs]
      /\ UNCHANGED <<freeList, live, driver, current, size, ptr, ret, held>>
  BY DEF Miss, Goto, IInv, TypeOK
<1>2. freeList[b] = <<>>
  BY DEF Miss, OffKeepsNone
<1>3. Cardinality(BlocksOf(b)) + Cardinality(Asking(b)) <= Demand(b)
  BY <1>2, EmptyListDemand
<1>4. BlocksOf(b)' = BlocksOf(b) /\ Missing(b)' \subseteq Asking(b)
  BY <1>1 DEF BlocksOf, Missing, Asking
<1>5. HeldOf(b)' = HeldOf(b)
  BY <1>1 DEF HeldOf
<1>6. Allocating(b)' = Allocating(b) /\ Freeing(b)' = Freeing(b)
  BY <1>1 DEF Allocating, Freeing
<1>7. /\ Demand(b) = Cardinality(HeldOf(b)) + Cardinality(Allocating(b)) + Cardinality(Freeing(b))
      /\ Demand(b)' = Cardinality(HeldOf(b)') + Cardinality(Allocating(b)')
                        + Cardinality(Freeing(b)')
  BY DEF Demand, HeldOf, Allocating, Freeing
<1>8. Demand(b)' = Demand(b)
  BY <1>5, <1>6, <1>7
<1>9. IsFiniteSet(BlocksOf(b)) /\ IsFiniteSet(Asking(b))
  BY FiniteParts DEF IInv
<1>10. IsFiniteSet(Missing(b)') /\ Cardinality(Missing(b)') <= Cardinality(Asking(b))
  BY <1>4, <1>9, FS_Subset
<1>11. /\ Cardinality(BlocksOf(b)) \in Nat /\ Cardinality(Asking(b)) \in Nat
       /\ Cardinality(Missing(b)') \in Nat /\ Demand(b) \in Nat
  BY <1>9, <1>10, FS_CardinalityType, DemandCounts DEF IInv
<1> QED BY <1>3, <1>4, <1>8, <1>10, <1>11

LEMMA NextFInv == FInv /\ [FNext]_fvars => FInv'
<1> SUFFICES ASSUME FInv, [FNext]_fvars PROVE FInv'
  OBVIOUS
<1> USE DEF FInv
<1>1. [Next]_vars
  BY DEF FNext, fvars
<1>2. IInv' /\ HeldBySize' /\ OffKeepsNone'
  BY <1>1, NextIInv, HeldBySizeStep, OffKeepsNoneStep
<1>3. CASE UNCHANGED fvars
  <2>1. peak' = peak /\ \A b : BlocksOf(b)' = BlocksOf(b) /\ Missing(b)' = Missing(b)
    BY <1>3 DEF fvars, vars, BlocksOf, Missing
  <2> QED BY <1>2, <2>1 DEF PeakCovers
<1>4. CASE FNext
  <2>1. \A b \in Buckets : Demand(b)' \in Nat
    <3>1. TypeOK'
      BY <1>2 DEF IInv
    <3> QED BY <3>1, NextDemandsCount
  <2>2. peak' = [b \in Buckets |-> IF Demand(b)' > peak[b] THEN Demand(b)' ELSE peak[b]]
    BY <1>4 DEF FNext
  <2>3. peak' \in [Buckets -> Nat] /\ \A b \in Buckets : peak'[b] >= peak[b] /\ peak'[b] >= Demand(b)'
    <3>1. ASSUME NEW b \in Buckets
          PROVE  peak'[b] \in Nat /\ peak'[b] >= peak[b] /\ peak'[b] >= Demand(b)'
      <4>1. PICK d \in Nat : d = Demand(b)'
        BY <2>1
      <4>2. peak'[b] = IF d > peak[b] THEN d ELSE peak[b]
        BY <2>2, <4>1
      <4> QED BY <4>1, <4>2
    <3>2. DOMAIN peak' = Buckets /\ peak' = [b \in Buckets |-> peak'[b]]
      BY <2>2
    <3> QED BY <3>1, <3>2
  <2>4. ASSUME NEW b \in Buckets
        PROVE  Cardinality(BlocksOf(b)') + Cardinality(Missing(b)') <= peak'[b]
    <3> DEFINE was == Cardinality(BlocksOf(b)) + Cardinality(Missing(b))
               now == Cardinality(BlocksOf(b)') + Cardinality(Missing(b)')
    <3>1. PICK q, r \in Nat : q = peak[b] /\ r = peak'[b] /\ q <= r
      BY <2>3
    <3>2. was \in Nat /\ was <= q
      BY <3>1, FiniteParts, FS_CardinalityType DEF IInv, PeakCovers
    <3>3. SUFFICES now \in Nat /\ (now <= was \/ now <= Demand(b)')
      <4>1. CASE now <= was
        BY <3>1, <3>2, <3>3, <4>1
      <4>2. CASE now <= Demand(b)'
        <5>1. PICK d \in Nat : d = Demand(b)'
          BY <2>1
        <5> QED BY <2>3, <3>1, <3>3, <4>2, <5>1
      <4> QED BY <3>3, <4>1, <4>2
    <3> HIDE DEF was, now
    <3>4. PICK t \in Threads :
             \/ \E d \in Devices : SetDevice(t, d)
             \/ \E n \in Sizes : Malloc(t, n)
             \/ TakeCached(t) \/ Miss(t) \/ CudaMalloc(t) \/ CudaMallocFails(t)
             \/ InsertLive(t) \/ (\E a \in DOMAIN held : Free(t, a))
             \/ PutBack(t) \/ NotLive(t) \/ CudaFree(t)
      BY <1>4 DEF FNext, Next
    <3>5. pc \in [Threads -> PCs] /\ size \in [Threads -> Sizes]
      BY DEF IInv, TypeOK
    <3>6. CASE CudaMalloc(t)
      BY <3>6, CudaMallocBalances DEF IInv, was, now
    <3>7. CASE Miss(t) /\ b = Bucket(size[t])
      BY <3>7, MissWithinDemand DEF was, now
    <3>8. SUFFICES ASSUME ~CudaMalloc(t), ~(Miss(t) /\ b = Bucket(size[t]))
                   PROVE  BlocksOf(b)' \subseteq BlocksOf(b) /\ Missing(b)' \subseteq Missing(b)
      BY <3>6, <3>7, NoMoreBlocks DEF IInv, was, now
    <3>9. BlocksOf(b)' \subseteq BlocksOf(b)
      <4>1. driver' = driver \/ driver' = Erase(driver, ptr[t])
        BY <3>4, <3>8 DEF SetDevice, Malloc, TakeCached, Miss, CudaMallocFails, InsertLive,
             Free, PutBack, NotLive, CudaFree
      <4> QED BY <4>1 DEF BlocksOf, Erase
    <3>10. Missing(b)' \subseteq Missing(b)
      <4>1. /\ \A u \in Threads \ {t} : pc'[u] = pc[u] /\ size'[u] = size[u]
            /\ pc'[t] = "cudaMalloc" => (size' = size /\ (pc'[t] = pc[t] \/ Miss(t)))
        BY <3>4, <3>5, <3>8 DEF SetDevice, Malloc, TakeCached, Miss, CudaMallocFails,
             InsertLive, Free, PutBack, NotLive, CudaFree, Goto, Return
      <4> QED BY <3>8, <4>1 DEF Missing
    <3> QED BY <3>9, <3>10
  <2> QED BY <1>2, <2>3, <2>4 DEF PeakCovers
<1> QED BY <1>3, <1>4

(* The driver never holds more blocks of a bucket than were wanted at one  *)
(* time (cuda/src/runtime.cu:11), with the cache on or off: a miss is only *)
(* where every block of the bucket is in somebody's use, and what others   *)
(* give back while the driver is asked does not matter.                    *)
THEOREM FootprintBounded == FSpec => []FootprintWithinPeak
<1>1. FInv => FootprintWithinPeak
  <2> SUFFICES ASSUME FInv, NEW b \in Buckets PROVE Footprint(b) <= peak[b]
    BY DEF FootprintWithinPeak
  <2>1. Cardinality(BlocksOf(b)) \in Nat /\ Cardinality(Missing(b)) \in Nat
    BY FiniteParts, FS_CardinalityType DEF FInv, IInv
  <2>2. peak[b] \in Nat /\ Cardinality(BlocksOf(b)) + Cardinality(Missing(b)) <= peak[b]
    BY DEF FInv, PeakCovers
  <2> QED BY <2>1, <2>2, DemandParts
<1> QED BY <1>1, InitFInv, NextFInv, PTL DEF FSpec
=============================================================================
