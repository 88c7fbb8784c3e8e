----------------------------- MODULE CacheAlloc -----------------------------
(***************************************************************************)
(* The caching device-memory allocator behind aclrtMalloc and aclrtFree    *)
(* (struct CacheAlloc, cuda/src/runtime.cu).  Host threads call it         *)
(* concurrently.  A step of a thread is either one critical section of the *)
(* mutex mu, which no other thread can observe half done, or one call of   *)
(* the CUDA driver, made with the mutex released: an allocation that       *)
(* misses the cache takes the lock twice, with cudaMalloc in between.      *)
(***************************************************************************)
EXTENDS Naturals, Sequences

CONSTANTS
  Threads,     \* host threads
  Sizes,       \* request sizes
  Bucket(_),   \* CacheAlloc::bucketOf
  Addrs,       \* device addresses the driver can hand out
  Devices,     \* GPUs of the process
  Enabled,     \* ACL_NO_CACHE_ALLOC is not set
  NoAddr       \* the null pointer

ASSUME BucketAssumption ==
  \A n \in Sizes : n \in Nat /\ Bucket(n) \in Nat /\ Bucket(n) >= n
ASSUME AddrAssumption == NoAddr \notin Addrs
ASSUME EnabledAssumption == Enabled \in BOOLEAN
ASSUME DeviceAssumption == Devices # {}
ASSUME SizesNonEmpty == Sizes # {}

Buckets == {Bucket(n) : n \in Sizes}

VARIABLES
  freeList,   \* bucket -> the free blocks of that bucket, last freed last
  live,       \* address -> bucket, for the blocks handed out
  driver,     \* address -> [size, dev], the blocks obtained with cudaMalloc
  current,    \* thread -> the device it selected (cudaSetDevice)
  pc,         \* thread -> where it is in alloc or free
  size,       \* thread -> n of its last alloc
  ptr,        \* thread -> the address its call handles, NoAddr if none
  ret,        \* thread -> what its last alloc returned
  held        \* address -> requested size, for the addresses callers hold

vars == <<freeList, live, driver, current, pc, size, ptr, ret, held>>

PCs == {"idle", "lookup", "cudaMalloc", "insert", "free", "cudaFree"}

(* Maps are functions: inserting and erasing a key. *)
Put(f, k, v) == [x \in DOMAIN f \cup {k} |-> IF x = k THEN v ELSE f[x]]
Erase(f, k) == [x \in DOMAIN f \ {k} |-> f[x]]

Goto(t, l) == pc' = [pc EXCEPT ![t] = l]

Init ==
  /\ freeList = [b \in Buckets |-> <<>>]
  /\ live = [a \in {} |-> 0]
  /\ driver = [a \in {} |-> 0]
  /\ current \in [Threads -> Devices]
  /\ pc = [t \in Threads |-> "idle"]
  /\ size = [t \in Threads |-> CHOOSE n \in Sizes : TRUE]
  /\ ptr = [t \in Threads |-> NoAddr]
  /\ ret = [t \in Threads |-> NoAddr]
  /\ held = [a \in {} |-> 0]

-----------------------------------------------------------------------------
(* The statements of the critical sections and of the driver calls.  An    *)
(* operator named Mutant... is a bug this code could have: a run replaces  *)
(* the operator that follows it by the mutant, and must fail.              *)
Back(b) == freeList[b][Len(freeList[b])]

MutantPopBackForgotten(b) == UNCHANGED freeList
PopBack(b) == freeList' = [freeList EXCEPT ![b] = SubSeq(@, 1, Len(@) - 1)]

Record(a, b) == live' = Put(live, a, b)

MutantFileForgotten(a) == UNCHANGED freeList
File(a) == freeList' = [freeList EXCEPT ![live[a]] = Append(@, a)]

MutantBlockExact(t) == [size |-> size[t], dev |-> current[t]]
Block(t) == [size |-> Bucket(size[t]), dev |-> current[t]]

(* Returning address a to the caller of alloc. *)
Return(t, a) ==
  /\ Goto(t, "idle")
  /\ ret' = [ret EXCEPT ![t] = a]
  /\ held' = Put(held, a, size[t])

-----------------------------------------------------------------------------
(* aclrtSetDevice: the thread's later driver calls are for device d. *)
SetDevice(t, d) ==
  /\ pc[t] = "idle"
  /\ current' = [current EXCEPT ![t] = d]
  /\ UNCHANGED <<freeList, live, driver, pc, size, ptr, ret, held>>

(* aclrtMalloc(n) is called. *)
Malloc(t, n) ==
  /\ pc[t] = "idle"
  /\ Goto(t, "lookup")
  /\ size' = [size EXCEPT ![t] = n]
  /\ ret' = [ret EXCEPT ![t] = NoAddr]
  /\ UNCHANGED <<freeList, live, driver, current, ptr, held>>

(* First critical section, hit: the last block of the bucket. *)
TakeCached(t) ==
  LET b == Bucket(size[t])
  IN  /\ pc[t] = "lookup" /\ Enabled /\ freeList[b] # <<>>
      /\ PopBack(b)
      /\ Record(Back(b), b)
      /\ Return(t, Back(b))
      /\ UNCHANGED <<driver, current, size, ptr>>

MutantMissAlways(t) ==
  /\ pc[t] = "lookup"
  /\ Goto(t, "cudaMalloc")
  /\ UNCHANGED <<freeList, live, driver, current, size, ptr, ret, held>>

(* First critical section, miss; or the cache is off. *)
Miss(t) ==
  /\ pc[t] = "lookup" /\ (Enabled => freeList[Bucket(size[t])] = <<>>)
  /\ Goto(t, "cudaMalloc")
  /\ UNCHANGED <<freeList, live, driver, current, size, ptr, ret, held>>

(* cudaMalloc, without the lock, on the thread's device. *)
CudaMalloc(t) ==
  /\ pc[t] = "cudaMalloc"
  /\ \E a \in Addrs \ DOMAIN driver :
       /\ driver' = Put(driver, a, Block(t))
       /\ IF Enabled
          THEN /\ ptr' = [ptr EXCEPT ![t] = a]
               /\ Goto(t, "insert")
               /\ UNCHANGED <<ret, held>>
          ELSE Return(t, a) /\ UNCHANGED ptr
  /\ UNCHANGED <<freeList, live, current, size>>

MutantCudaMallocFailsSilently(t) ==
  /\ pc[t] = "cudaMalloc"
  /\ Return(t, NoAddr)
  /\ UNCHANGED <<freeList, live, driver, current, size, ptr>>

(* The driver refuses: out of memory, or the stream is being captured.     *)
(* Nothing is trimmed from the free lists; the error goes to the caller.   *)
CudaMallocFails(t) ==
  /\ pc[t] = "cudaMalloc"
  /\ Goto(t, "idle")
  /\ UNCHANGED <<freeList, live, driver, current, size, ptr, ret, held>>

(* Second critical section: live[*p] = b. *)
InsertLive(t) ==
  /\ pc[t] = "insert"
  /\ Record(ptr[t], Bucket(size[t]))
  /\ ptr' = [ptr EXCEPT ![t] = NoAddr]
  /\ Return(t, ptr[t])
  /\ UNCHANGED <<freeList, driver, current, size>>

-----------------------------------------------------------------------------
(* aclrtFree(a) is called by any thread, on an address some caller holds.  *)
(* (The null pointer is returned at once and changes nothing.)             *)
Free(t, a) ==
  /\ pc[t] = "idle"
  /\ Goto(t, "free")
  /\ ptr' = [ptr EXCEPT ![t] = a]
  /\ held' = Erase(held, a)
  /\ UNCHANGED <<freeList, live, driver, current, size, ret>>

(* The critical section of free, block found: back to its bucket. *)
PutBack(t) ==
  LET a == ptr[t]
  IN  /\ pc[t] = "free" /\ Enabled /\ a \in DOMAIN live
      /\ File(a)
      /\ live' = Erase(live, a)
      /\ Goto(t, "idle")
      /\ ptr' = [ptr EXCEPT ![t] = NoAddr]
      /\ UNCHANGED <<driver, current, size, ret, held>>

(* The cache is off or the block is not in live: the driver gets it. *)
NotLive(t) ==
  /\ pc[t] = "free" /\ (Enabled => ptr[t] \notin DOMAIN live)
  /\ Goto(t, "cudaFree")
  /\ UNCHANGED <<freeList, live, driver, current, size, ptr, ret, held>>

CudaFree(t) ==
  /\ pc[t] = "cudaFree"
  /\ driver' = Erase(driver, ptr[t])
  /\ Goto(t, "idle")
  /\ ptr' = [ptr EXCEPT ![t] = NoAddr]
  /\ UNCHANGED <<freeList, live, current, size, ret, held>>

-----------------------------------------------------------------------------
Next ==
  \E t \in Threads :
    \/ \E d \in Devices : SetDevice(t, d)
    \/ \E n \in Sizes : Malloc(t, n)
    \/ TakeCached(t)
    \/ Miss(t)
    \/ CudaMalloc(t)
    \/ CudaMallocFails(t)
    \/ InsertLive(t)
    \/ \E a \in DOMAIN held : Free(t, a)
    \/ PutBack(t)
    \/ NotLive(t)
    \/ CudaFree(t)

Spec == Init /\ [][Next]_vars

-----------------------------------------------------------------------------
Cached == UNION {{freeList[b][i] : i \in DOMAIN freeList[b]} : b \in Buckets}
InHand == {ptr[t] : t \in Threads} \ {NoAddr}
Maps(S, T) == UNION {[D -> T] : D \in SUBSET S}

TypeOK ==
  /\ freeList \in [Buckets -> Seq(Addrs)]
  /\ live \in Maps(Addrs, Buckets)
  /\ driver \in Maps(Addrs, [size : Buckets, dev : Devices])
  /\ current \in [Threads -> Devices]
  /\ pc \in [Threads -> PCs]
  /\ size \in [Threads -> Sizes]
  /\ ptr \in [Threads -> Addrs \cup {NoAddr}]
  /\ ret \in [Threads -> Addrs \cup {NoAddr}]
  /\ held \in Maps(Addrs, Sizes)

(* A block has one place: with a caller, in the hands of one thread inside *)
(* alloc or free, or once in one free list.  Two owners would have two     *)
(* operators write the same device memory.  The window of alloc between    *)
(* its two critical sections is what puts this at risk.                    *)
OneOwner ==
  /\ \A b, c \in Buckets : \A i \in DOMAIN freeList[b], j \in DOMAIN freeList[c] :
       freeList[b][i] = freeList[c][j] => b = c /\ i = j
  /\ \A t, u \in Threads : ptr[t] = ptr[u] /\ ptr[t] # NoAddr => t = u
  /\ DOMAIN held \cap Cached = {}
  /\ DOMAIN held \cap InHand = {}
  /\ Cached \cap InHand = {}

(* Every block the driver gave is still reachable, and the allocator hands *)
(* out nothing the driver did not give: memory is neither lost on the way  *)
(* between the two maps nor used after cudaFree.                           *)
NothingLost == DOMAIN driver = DOMAIN held \cup Cached \cup InHand

(* A caller's block is at least as large as it asked for, however many     *)
(* requests of its bucket it has served before.                            *)
FitsRequest == \A a \in DOMAIN held \cap DOMAIN driver : held[a] <= driver[a].size

(* live says of every block that is out, and of no other, the bucket it    *)
(* really has; free files the block by this entry alone, so a wrong or a   *)
(* missing one would surface only when the block is handed out again.      *)
LiveTracksCallers ==
  Enabled => /\ DOMAIN live = DOMAIN held \cup {ptr[t] : t \in {u \in Threads : pc[u] = "free"}}
             /\ \A a \in DOMAIN live \cap DOMAIN driver : live[a] = driver[a].size

(* Cached blocks have the size of the list they wait in. *)
FiledBySize ==
  \A b \in Buckets : \A i \in DOMAIN freeList[b] :
    freeList[b][i] \in DOMAIN driver => driver[freeList[b][i]].size = b

(* "near 1:1 mapping to CUDA Runtime" (runtime.cu:1): like cudaMalloc, an  *)
(* allocation returns memory of the device its thread selected, also when  *)
(* the block was obtained by another thread, for another device, and given *)
(* back since.  CacheDevices.cfg.                                          *)
OnCurrentDevice ==
  [][\A t \in Threads :
       pc[t] # "idle" /\ pc'[t] = "idle" /\ ret'[t] # ret[t]
         => driver'[ret'[t]].dev = current[t]]_vars

-----------------------------------------------------------------------------
(* The allocator implements the heap a program expects: its internal steps *)
(* are invisible, and what a call returns is what the heap may return: a   *)
(* block that is nobody's, with room for the request, and that keeps its   *)
(* size and its owner until it is given up.                                *)
CallOf(l) ==
  CASE l = "idle" -> "none"
    [] l \in {"lookup", "cudaMalloc", "insert"} -> "malloc"
    [] OTHER -> "free"

calls == [t \in Threads |-> CallOf(pc[t])]
HeldBlocks == [a \in DOMAIN held |-> driver[a].size]

Heap == INSTANCE DeviceHeap
          WITH call <- calls, asked <- size, blocks <- HeldBlocks, Rooms <- Buckets

HeapSpec == Heap!Spec
=============================================================================
