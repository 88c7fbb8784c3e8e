---------------------------- MODULE KernelProofs ----------------------------
(***************************************************************************)
(* Proofs about the kernels.  Of those whose threads meet, and the host    *)
(* code beside them: the cache of convolution algorithms, the block-wide   *)
(* reductions and the scatters, for any number of threads, warps, rounds,  *)
(* calls and cells.  Of those whose threads do not: the index maps of      *)
(* copies, of scales, of padding and of diagonals, and bisection, for      *)
(* tensors of any size.                                                    *)
(***************************************************************************)
EXTENDS ConvAlgorithms, BlockReduction, ScatterKernels, FiniteSetTheorems,
        WellFoundedInduction, TLAPS

ConvSpec == AInit /\ [][ANext]_avars

(* The one thread that makes 3-d calls, if there is one. *)
One3d == \A t, u \in HostThreads : ConvKind[t] = "3d" /\ ConvKind[u] = "3d" => t = u

ConvTyped ==
  /\ algorithm \in [{"2d", "3d"} -> Algorithms \cup {NoAlgorithm}]
  /\ at \in [HostThreads -> {"idle", "lookup", "select", "insert", "sized", "done"}]
  /\ during \in [HostThreads -> {"plan", "run"}]
  /\ picked \in [HostThreads -> Algorithms \cup {NoAlgorithm}]
  /\ sizedFor \in [HostThreads -> Algorithms \cup {NoAlgorithm}]

(* A 2-d call looks its algorithm up once.  What a 3-d call was sized for  *)
(* is cached by the time it runs, so its second lookup finds it.           *)
SizedIsCached ==
  \A t \in HostThreads :
    /\ ConvKind[t] = "2d" => during[t] = "plan"
    /\ at[t] = "insert" => picked[t] \in Algorithms
    /\ during[t] = "run" => at[t] \in {"lookup", "done"}
    /\ at[t] = "sized" => during[t] = "plan"
    /\ ConvKind[t] = "3d" /\ at[t] = "done" => during[t] = "run"
    /\ ConvKind[t] = "3d" /\ (at[t] = "sized" \/ during[t] = "run") =>
         algorithm["3d"] = sizedFor[t] /\ sizedFor[t] # NoAlgorithm

ConvInv == ConvTyped /\ SizedIsCached /\ ExecutesWhatItSized

LEMMA ConvStep ==
  ASSUME One3d, ConvInv, [ANext]_avars
  PROVE  ConvInv'
<1> USE ConvAssumption DEF ConvInv
<1>1. ASSUME NEW t \in HostThreads, Plan(t)
      PROVE  ConvInv'
  BY <1>1 DEF Plan, ConvTyped, SizedIsCached, ExecutesWhatItSized
<1>2. ASSUME NEW t \in HostThreads, Lookup(t)
      PROVE  ConvInv'
  <2>1. ConvKind[t] \in {"2d", "3d"} /\ at[t] = "lookup"
    BY <1>2 DEF Lookup
  <2>2. CASE algorithm[ConvKind[t]] = NoAlgorithm
    <3>1. during[t] = "plan"
      BY <2>1, <2>2 DEF ConvTyped, SizedIsCached
    <3> QED
      BY <1>2, <2>1, <2>2, <3>1 DEF Lookup, ConvTyped, SizedIsCached, ExecutesWhatItSized
  <2>3. CASE algorithm[ConvKind[t]] # NoAlgorithm
    <3>1. algorithm[ConvKind[t]] \in Algorithms
      BY <2>1, <2>3 DEF ConvTyped
    <3>2. picked' = [picked EXCEPT ![t] = algorithm[ConvKind[t]]] /\ Returned(t)
          /\ UNCHANGED <<algorithm, during, calls>>
      BY <1>2, <2>3 DEF Lookup
    <3>3. ConvTyped'
      BY <2>1, <3>1, <3>2 DEF ConvTyped, Returned
    <3>4. SizedIsCached'
      BY <2>1, <3>1, <3>2 DEF ConvTyped, Returned, SizedIsCached
    <3>5. ExecutesWhatItSized'
      BY <2>1, <3>1, <3>2 DEF ConvTyped, Returned, SizedIsCached, ExecutesWhatItSized
    <3> QED BY <3>3, <3>4, <3>5
  <2> QED BY <2>2, <2>3
<1>3. ASSUME NEW t \in HostThreads, Select(t)
      PROVE  ConvInv'
  BY <1>3 DEF Select, ConvTyped, SizedIsCached, ExecutesWhatItSized
<1>4. ASSUME NEW t \in HostThreads, Insert(t)
      PROVE  ConvInv'
  <2>1. /\ ConvKind[t] \in {"2d", "3d"} /\ at[t] = "insert" /\ picked[t] \in Algorithms
        /\ during[t] = "plan"
    BY <1>4 DEF Insert, ConvTyped, SizedIsCached
  <2>2. /\ algorithm' = [algorithm EXCEPT ![ConvKind[t]] = picked[t]]
        /\ at' = [at EXCEPT ![t] = "sized"]
        /\ sizedFor' = [sizedFor EXCEPT ![t] = picked[t]]
        /\ UNCHANGED <<picked, during, calls>>
    BY <1>4, <2>1 DEF Insert, Returned
  <2>3. ConvTyped' /\ ExecutesWhatItSized'
    BY <2>1, <2>2 DEF ConvTyped, ExecutesWhatItSized
  <2>4. SizedIsCached'
    BY <2>1, <2>2 DEF ConvTyped, SizedIsCached, One3d
  <2> QED BY <2>3, <2>4
<1>5. ASSUME NEW t \in HostThreads, Execute2d(t)
      PROVE  ConvInv'
  BY <1>5 DEF Execute2d, ConvTyped, SizedIsCached, ExecutesWhatItSized
<1>6. ASSUME NEW t \in HostThreads, Execute3d(t)
      PROVE  ConvInv'
  BY <1>6 DEF Execute3d, ConvTyped, SizedIsCached, ExecutesWhatItSized
<1>7. CASE UNCHANGED avars
  BY <1>7 DEF avars, ConvTyped, SizedIsCached, ExecutesWhatItSized
<1> QED
  BY <1>1, <1>2, <1>3, <1>4, <1>5, <1>6, <1>7 DEF ANext

(* However many host threads plan and run 2-d convolutions of one shape,   *)
(* cuDNN gets the workspace of the algorithm it is told to run             *)
(* (cuda/src/ops/conv.cu); so does the only thread that runs 3-d ones.     *)
(* With two such threads it fails: the run conv_3d shows how.              *)
THEOREM WorkspaceFits == ASSUME One3d PROVE ConvSpec => []ExecutesWhatItSized
<1>1. AInit => ConvInv
  BY ConvAssumption
  DEF AInit, ConvInv, ConvTyped, SizedIsCached, ExecutesWhatItSized
<1>2. ConvInv /\ [ANext]_avars => ConvInv'
  BY ConvStep
<1>3. ConvInv => ExecutesWhatItSized
  BY DEF ConvInv
<1> QED BY <1>1, <1>2, <1>3, PTL DEF ConvSpec

-----------------------------------------------------------------------------
BlockSpec == BInit /\ [][BNext]_bvars

(* The barriers a warp has arrived at in its call, by what it does next.   *)
Passing(next) ==
  CASE next = "combine" -> 1 [] next = "read" -> 2 [] next = "leave" -> 3 [] OTHER -> 0

BlockTyped ==
  /\ helper = "blk_sum"
  /\ wpc \in [Ids -> {"store", "combine", "read", "leave", "done"}]
  /\ round \in [Ids -> 1 .. Rounds + 1]
  /\ arrived \in [Ids -> Nat]
  /\ DOMAIN sh = Ids /\ sh = [w \in Ids |-> sh[w]]
  /\ \A w \in Ids : wpc[w] # "done" => round[w] <= Rounds
  /\ \A w \in Ids : arrived[w] = 3 * (round[w] - 1) + Passing(wpc[w])

(* No warp is two barriers ahead; one between two calls has passed the     *)
(* barrier at the end of the first.                                        *)
InStep ==
  /\ \A v, w \in Ids : arrived[w] <= arrived[v] + 1
  /\ \A w \in Ids : wpc[w] \in {"store", "done"} => Passed(w)

(* What the cells hold, as far as the barriers allow it to be told: from   *)
(* its store to the end of the call a leader's cell is its partial, and    *)
(* once warp 0 has combined the first cell is the value of the block.      *)
CellsHold ==
  /\ \A w \in Ids, r \in 1 .. Rounds :
       /\ arrived[w] = 3 * (r - 1) + 1 => sh[w] = Partial(w, r)
       /\ w # 0 /\ arrived[w] = 3 * (r - 1) + 2 => sh[w] = Partial(w, r)
  /\ \A r \in 1 .. Rounds :
       arrived[0] \in {3 * (r - 1) + 2, 3 * (r - 1) + 3} => sh[0] = Reduced(r)

BlockInv == BlockTyped /\ InStep /\ CellsHold /\ WarpsAgree

LEMMA WarpZero == 0 \in Ids /\ Warps \in Nat /\ Rounds \in Nat \ {0}
BY WarpsAssumption DEF Ids

(* A warp that arrives where it may, and then waits or has been waited for. *)
LEMMA ArriveInStep ==
  ASSUME BlockTyped, InStep, NEW w \in Ids, Passed(w), NEW next,
         arrived' = [arrived EXCEPT ![w] = @ + 1],
         wpc' = [wpc EXCEPT ![w] = next],
         next \notin {"store", "done"}
  PROVE  InStep'
BY DEF BlockTyped, InStep, Passed

LEMMA StoreKeeps ==
  ASSUME BlockInv, NEW w \in Ids, StorePartial(w)
  PROVE  BlockInv'
<1> USE WarpZero DEF BlockInv
<1>1. wpc[w] = "store" /\ Passed(w) /\ UNCHANGED <<helper, round, got>>
  BY DEF StorePartial, InStep
<1>2. /\ arrived' = [arrived EXCEPT ![w] = @ + 1]
      /\ wpc' = [wpc EXCEPT ![w] = "combine"]
      /\ sh' = [sh EXCEPT ![w] = Partial(w, round[w])]
  BY DEF StorePartial, Arrive
<1>3. round[w] \in 1 .. Rounds /\ arrived[w] = 3 * (round[w] - 1) /\ arrived \in [Ids -> Nat]
  BY <1>1 DEF BlockTyped, Passing
<1>4. BlockTyped'
  <2>1. DOMAIN sh' = Ids /\ sh' = [v \in Ids |-> sh'[v]]
    BY <1>2 DEF BlockTyped
  <2> QED BY <1>1, <1>2, <1>3, <2>1 DEF BlockTyped, Passing
<1>5. InStep'
  BY ZenonT(60), <1>1, <1>2, ArriveInStep
<1>6. CellsHold'
  <2>1. sh'[w] = Partial(w, round[w]) /\ arrived'[w] = 3 * (round[w] - 1) + 1
    BY <1>2, <1>3 DEF BlockTyped
  <2>2. \A v \in Ids : v # w => sh'[v] = sh[v] /\ arrived'[v] = arrived[v]
    BY <1>2 DEF BlockTyped
  <2>3. ASSUME NEW v \in Ids, NEW r \in 1 .. Rounds
        PROVE  /\ arrived'[v] = 3 * (r - 1) + 1 => sh'[v] = Partial(v, r)
               /\ v # 0 /\ arrived'[v] = 3 * (r - 1) + 2 => sh'[v] = Partial(v, r)
    <3>1. CASE v = w
      <4>1. arrived'[w] = 3 * (r - 1) + 1 => r = round[w]
        BY <1>3, <2>1
      <4>2. arrived'[w] # 3 * (r - 1) + 2
        BY <1>3, <2>1
      <4> QED BY <2>1, <3>1, <4>1, <4>2
    <3>2. CASE v # w
      BY <2>2, <3>2 DEF CellsHold
    <3> QED BY <3>1, <3>2
  <2>4. ASSUME NEW r \in 1 .. Rounds, arrived'[0] \in {3 * (r - 1) + 2, 3 * (r - 1) + 3}
        PROVE  sh'[0] = Reduced(r)
    <3>1. w # 0
      BY <1>3, <2>1, <2>4
    <3> QED BY <2>2, <2>4, <3>1 DEF CellsHold
  <2> QED BY <2>3, <2>4 DEF CellsHold
<1>7. WarpsAgree'
  BY <1>1 DEF WarpsAgree
<1> QED BY <1>4, <1>5, <1>6, <1>7

(* Every warp waits at the first barrier for the leaders' stores, so warp  *)
(* 0 adds up the partials of one call.                                     *)
LEMMA CombineKeeps ==
  ASSUME BlockInv, NEW w \in Ids, Combine(w)
  PROVE  BlockInv'
<1> USE WarpZero DEF BlockInv
<1> DEFINE r == round[w]
<1>1. wpc[w] = "combine" /\ Passed(w) /\ UNCHANGED <<helper, round, got>>
  BY DEF Combine
<1>2. /\ arrived' = [arrived EXCEPT ![w] = @ + 1]
      /\ wpc' = [wpc EXCEPT ![w] = "read"]
      /\ sh' = IF w = 0 THEN [sh EXCEPT ![0] = SumOf(sh)] ELSE sh
  BY DEF Combine, Arrive
<1>3. r \in 1 .. Rounds /\ arrived[w] = 3 * (r - 1) + 1 /\ arrived \in [Ids -> Nat]
  BY <1>1 DEF BlockTyped, Passing
<1>4. BlockTyped'
  <2>1. DOMAIN sh' = Ids /\ sh' = [v \in Ids |-> sh'[v]]
    BY <1>2 DEF BlockTyped
  <2> QED BY <1>1, <1>2, <1>3, <2>1 DEF BlockTyped, Passing
<1>5. InStep'
  BY ZenonT(60), <1>1, <1>2, ArriveInStep
<1>6. ASSUME w = 0 PROVE SumOf(sh) = Reduced(r)
  <2>1. ASSUME NEW v \in Ids PROVE sh[v] = Partial(v, r)
    <3>1. arrived[v] \in {3 * (r - 1) + 1, 3 * (r - 1) + 2}
      BY <1>1, <1>3 DEF InStep, Passed
    <3>2. v = 0 => arrived[v] = 3 * (r - 1) + 1
      BY <1>3, <1>6
    <3> QED BY <1>3, <3>1, <3>2 DEF CellsHold
  <2>2. sh = [v \in Ids |-> Partial(v, r)]
    BY <2>1 DEF BlockTyped
  <2> QED BY <2>2 DEF Reduced
<1>7. CellsHold'
  <2>1. arrived'[w] = 3 * (r - 1) + 2
    BY <1>2, <1>3
  <2>2. \A v \in Ids : v # w => sh'[v] = sh[v] /\ arrived'[v] = arrived[v]
    BY <1>2 DEF BlockTyped
  <2>3. w # 0 => sh'[w] = sh[w]
    BY <1>2
  <2>4. w = 0 => sh'[0] = Reduced(r)
    BY <1>2, <1>6 DEF BlockTyped
  <2> HIDE DEF r
  <2>5. ASSUME NEW v \in Ids, NEW q \in 1 .. Rounds
        PROVE  /\ arrived'[v] = 3 * (q - 1) + 1 => sh'[v] = Partial(v, q)
               /\ v # 0 /\ arrived'[v] = 3 * (q - 1) + 2 => sh'[v] = Partial(v, q)
    <3>1. CASE v = w
      <4>1. arrived'[w] # 3 * (q - 1) + 1
        BY <1>3, <2>1
      <4>2. arrived'[w] = 3 * (q - 1) + 2 => q = r
        BY <1>3, <2>1
      <4> QED BY <1>3, <2>3, <3>1, <4>1, <4>2 DEF CellsHold
    <3>2. CASE v # w
      BY <2>2, <3>2 DEF CellsHold
    <3> QED BY <3>1, <3>2
  <2>6. ASSUME NEW q \in 1 .. Rounds, arrived'[0] \in {3 * (q - 1) + 2, 3 * (q - 1) + 3}
        PROVE  sh'[0] = Reduced(q)
    <3>1. CASE w = 0
      <4>1. q = r
        BY <1>3, <2>1, <2>6, <3>1
      <4> QED BY <2>4, <3>1, <4>1
    <3>2. CASE w # 0
      BY <2>2, <2>6, <3>2 DEF CellsHold
    <3> QED BY <3>1, <3>2
  <2> QED BY <2>5, <2>6 DEF CellsHold
<1>8. WarpsAgree'
  BY <1>1 DEF WarpsAgree
<1> QED BY <1>4, <1>5, <1>7, <1>8

(* Warp 0 has combined when a warp reads and cannot store again before the *)
(* reader has arrived at the last barrier.                                 *)
LEMMA ReadKeeps ==
  ASSUME BlockInv, NEW w \in Ids, Read(w)
  PROVE  BlockInv'
<1> USE WarpZero DEF BlockInv
<1> DEFINE r == round[w]
<1>1. wpc[w] = "read" /\ Passed(w) /\ UNCHANGED <<helper, round, sh>>
  BY DEF Read, BlockTyped
<1>2. /\ arrived' = [arrived EXCEPT ![w] = @ + 1]
      /\ wpc' = [wpc EXCEPT ![w] = "leave"]
      /\ got' = [got EXCEPT ![w][r] = sh[0]]
  BY DEF Read, Arrive, BlockTyped
<1>3. r \in 1 .. Rounds /\ arrived[w] = 3 * (r - 1) + 2 /\ arrived \in [Ids -> Nat]
  BY <1>1 DEF BlockTyped, Passing
<1>4. BlockTyped'
  BY <1>1, <1>2, <1>3 DEF BlockTyped, Passing
<1>5. InStep'
  BY ZenonT(60), <1>1, <1>2, ArriveInStep
<1>6. sh[0] = Reduced(r)
  <2>1. arrived[0] \in {3 * (r - 1) + 2, 3 * (r - 1) + 3}
    BY <1>1, <1>3 DEF InStep, Passed
  <2> QED BY <1>3, <2>1 DEF CellsHold
<1>7. CellsHold'
  <2>1. /\ arrived'[w] = 3 * (r - 1) + 3
        /\ \A v \in Ids : v # w => arrived'[v] = arrived[v]
    BY <1>2, <1>3
  <2> HIDE DEF r
  <2>2. \A q \in 1 .. Rounds : /\ arrived'[w] # 3 * (q - 1) + 1
                               /\ arrived'[w] # 3 * (q - 1) + 2
                               /\ arrived'[w] = 3 * (q - 1) + 3 => q = r
    BY <1>3, <2>1
  <2> QED BY <1>1, <1>6, <2>1, <2>2 DEF CellsHold
<1>8. WarpsAgree'
  BY <1>2, <1>6 DEF WarpsAgree
<1> QED BY <1>4, <1>5, <1>7, <1>8

LEMMA LeaveKeeps ==
  ASSUME BlockInv, NEW w \in Ids, Leave(w)
  PROVE  BlockInv'
<1> USE WarpZero DEF BlockInv
<1>1. wpc[w] = "leave" /\ Passed(w) /\ UNCHANGED <<helper, arrived, sh, got>>
  BY DEF Leave
<1>2. /\ round' = [round EXCEPT ![w] = @ + 1]
      /\ wpc' = [wpc EXCEPT ![w] = IF round[w] = Rounds THEN "done" ELSE "store"]
  BY DEF Leave, NextCall, BlockTyped
<1>3. round[w] \in 1 .. Rounds /\ arrived[w] = 3 * (round[w] - 1) + 3
  BY <1>1 DEF BlockTyped, Passing
<1>4. BlockTyped'
  BY <1>1, <1>2, <1>3 DEF BlockTyped, Passing
<1>5. InStep'
  BY <1>1, <1>2 DEF BlockTyped, InStep, Passed
<1>6. CellsHold' /\ WarpsAgree'
  BY <1>1 DEF CellsHold, WarpsAgree
<1> QED BY <1>4, <1>5, <1>6

LEMMA BlockInitInv == Helpers = {"blk_sum"} /\ BInit => BlockInv
<1> SUFFICES ASSUME Helpers = {"blk_sum"}, BInit PROVE BlockInv
  OBVIOUS
<1> USE WarpZero DEF BInit
<1>1. BlockTyped
  BY DEF BlockTyped, Passing
<1>2. InStep
  BY DEF InStep, Passed
<1>3. CellsHold
  BY DEF CellsHold
<1>4. WarpsAgree
  BY DEF WarpsAgree
<1> QED BY <1>1, <1>2, <1>3, <1>4 DEF BlockInv

(* Every warp of a block leaves every blk_sum with the value of the whole  *)
(* block (cuda/src/ops/norm_ext.cu), for any number of warps and calls:    *)
(* the barrier after the read is what blk_reduce and row_sum lack, for     *)
(* which the run block_race shows a warp with a value of its own.          *)
THEOREM WholeBlock == ASSUME Helpers = {"blk_sum"} PROVE BlockSpec => []WarpsAgree
<1>1. BInit => BlockInv
  BY BlockInitInv
<1>2. BlockInv /\ [BNext]_bvars => BlockInv'
  <2> SUFFICES ASSUME BlockInv, [BNext]_bvars PROVE BlockInv'
    OBVIOUS
  <2>1. \A w \in Ids : ~Clear(w) /\ ~Add(w)
    BY DEF BlockInv, BlockTyped, Clear, Add
  <2>2. CASE UNCHANGED bvars
    BY <2>2
    DEF bvars, BlockInv, BlockTyped, InStep, Passed, CellsHold, WarpsAgree
  <2> QED BY <2>1, <2>2, StoreKeeps, CombineKeeps, ReadKeeps, LeaveKeeps DEF BNext
<1>3. BlockInv => WarpsAgree
  BY DEF BlockInv
<1> QED BY <1>1, <1>2, <1>3, PTL DEF BlockSpec

-----------------------------------------------------------------------------
(* The scatters. *)
ScatterSpec == SInit /\ [][SNext]_svars

ScatterTyped ==
  /\ scall \in ScatterCalls
  /\ spc \in [Threads(scall) -> {"start", "cas", "norm", "scale", "done"}]
  /\ DOMAIN seen = Threads(scall) /\ seen = [i \in Threads(scall) |-> seen[i]]
  /\ DOMAIN buffer = DOMAIN scall.self /\ buffer = [j \in DOMAIN scall.self |-> buffer[j]]
  /\ sphase \in {"called", "planned", "rejected", "fault", "running", "done"}
  /\ sphase \in {"called", "planned"} => \A i \in Threads(scall) : spc[i] = "start"
  /\ sphase = "done" => \A i \in Threads(scall) : spc[i] = "done"
  /\ scall.kind \in Stores \cup Adds => \A i \in Threads(scall) : spc[i] \in {"start", "done"}
  /\ scall.kind \in Loops => \A i \in Threads(scall) : spc[i] \in {"start", "cas", "done"}

Launched == sphase \in {"running", "done"}

(* The writers of cell j that have finished. *)
Wrote(j) == {i \in Writers(scall, j) : spc[i] = "done"}

LEMMA ScatterTypes ==
  ASSUME ScatterTyped, [SNext]_svars
  PROVE  ScatterTyped' /\ scall' = scall
<1>1. /\ scall.self = [j \in DOMAIN scall.self |-> scall.self[j]]
      /\ DOMAIN spc = Threads(scall)
  BY ScatterAssumption DEF ScatterTyped
<1>2. CASE PlanUpdate \/ PlanScatter \/ PlanOther
  BY <1>2 DEF ScatterTyped, PlanUpdate, PlanScatter, PlanOther
<1>3. CASE Launch
  BY <1>1, <1>3 DEF ScatterTyped, Launch
<1>4. CASE Drain
  BY <1>1, <1>4 DEF ScatterTyped, Drain
<1>5. ASSUME NEW i \in Threads(scall), Thread(i)
      PROVE  ScatterTyped' /\ scall' = scall
  <2>1. CASE Skip(i)
    BY <2>1 DEF ScatterTyped, Skip, Finished
  <2>2. CASE AtomicAdd(i)
    BY <2>2 DEF ScatterTyped, AtomicAdd, Applies, Finished
  <2>3. CASE Store(i)
    BY <2>3 DEF ScatterTyped, Store, Applies, Finished
  <2>4. CASE Load(i)
    BY <2>4 DEF ScatterTyped, Load, Applies, Loops, Stores, Adds
  <2>5. CASE CompareAndSwap(i)
    BY <2>5 DEF ScatterTyped, CompareAndSwap, Finished
  <2>6. CASE ReadNorm(i)
    BY <2>6 DEF ScatterTyped, ReadNorm, Finished, Loops, Stores, Adds
  <2>7. CASE ReadRow(i)
    BY <2>7 DEF ScatterTyped, ReadRow
  <2>8. CASE ScaleRow(i)
    BY <2>8 DEF ScatterTyped, ScaleRow, Finished
  <2> QED BY <1>5, <2>1, <2>2, <2>3, <2>4, <2>5, <2>6, <2>7, <2>8 DEF Thread
<1>6. CASE UNCHANGED svars
  BY <1>6 DEF svars, ScatterTyped
<1> QED BY <1>1, <1>2, <1>3, <1>4, <1>5, <1>6 DEF SNext

(* What a cell holds before any thread has stored to it, and what thread i *)
(* stores.                                                                 *)
Old(j) == IF scall.kind = "scatter_nd" THEN 0 ELSE scall.self[j]
Stored(i) == scall.src[IF scall.kind = "index_fill" THEN 1 ELSE i + 1]

(* While the grid runs a cell holds the value of one of the writers that   *)
(* have finished.                                                          *)
HoldsAWrite ==
  Launched /\ scall.kind \in Stores =>
    \A j \in DOMAIN buffer :
      IF Wrote(j) = {} THEN buffer[j] = Old(j) ELSE \E i \in Wrote(j) : buffer[j] = Stored(i)

StoreInv == ScatterTyped /\ HoldsAWrite

LEMMA StoreStep ==
  ASSUME StoreInv, [SNext]_svars
  PROVE  StoreInv'
<1> USE DEF StoreInv
<1>1. ScatterTyped' /\ scall' = scall /\ DOMAIN spc = Threads(scall)
  BY ScatterTypes DEF ScatterTyped
<1>2. SUFFICES ASSUME scall.kind \in Stores, Launched' PROVE HoldsAWrite'
  BY <1>1 DEF HoldsAWrite
<1>3. CASE PlanUpdate \/ PlanScatter \/ PlanOther
  BY <1>2, <1>3 DEF Launched, PlanUpdate, PlanScatter, PlanOther
<1>4. CASE Launch
  <2>1. \A j : Wrote(j)' = {}
    BY <1>1, <1>4 DEF Launch, ScatterTyped, Wrote, Writers
  <2>2. \A j \in DOMAIN scall.self : buffer'[j] = Old(j)
    BY <1>2, <1>4 DEF Launch, ScatterTyped, Old, Stores
  <2> QED BY <1>1, <2>1, <2>2 DEF HoldsAWrite, ScatterTyped, Old
<1>5. CASE Drain \/ UNCHANGED svars
  BY <1>2, <1>5 DEF Drain, svars, HoldsAWrite, Launched, Wrote, Old, Stored
<1>6. ASSUME NEW i \in Threads(scall), Thread(i) PROVE HoldsAWrite'
  <2>1. spc[i] \in {"start", "done"} /\ scall.kind \notin Adds \cup Loops \cup {"renorm"}
    BY <1>2 DEF ScatterTyped, Stores, Adds, Loops
  <2>2. Skip(i) \/ Store(i)
    BY <1>6, <2>1 DEF Thread, AtomicAdd, Load, CompareAndSwap, ReadNorm, ReadRow, ScaleRow
  <2>3. spc[i] = "start" /\ Launched /\ spc' = [spc EXCEPT ![i] = "done"]
    BY <2>2 DEF Skip, Store, Applies, Finished, Launched
  <2>4. CASE Skip(i)
    <3>1. \A j : i \notin Writers(scall, j)
      BY <2>4 DEF Skip, Writers
    <3>2. \A j : Wrote(j)' = Wrote(j)
      BY <1>1, <2>3, <3>1 DEF Wrote, ScatterTyped, Writers
    <3> QED
      BY <1>1, <1>2, <2>3, <2>4, <3>2 DEF HoldsAWrite, Skip, Old, Stored
  <2>5. CASE Store(i)
    <3>0. PICK t : t = Target(scall, i)
      OBVIOUS
    <3>1. /\ buffer' = [buffer EXCEPT ![t] = Stored(i)]
          /\ scall.kind \in Checked => InRange(scall, i)
      BY <2>5, <3>0 DEF Store, Applies, Stored
    <3>2. \A j : j # t => Wrote(j)' = Wrote(j)
      BY <1>1, <2>3, <3>0 DEF Wrote, ScatterTyped, Writers
    <3>3. i \in Wrote(t)'
      BY <1>1, <2>3, <3>0, <3>1 DEF Wrote, ScatterTyped, Writers
    <3>4. DOMAIN buffer' = DOMAIN buffer /\ \A j \in DOMAIN buffer : buffer'[j] = IF j = t THEN Stored(i) ELSE buffer[j]
      BY <3>1
    <3>5. \A j \in DOMAIN buffer : j # t =>
            IF Wrote(j)' = {} THEN buffer'[j] = Old(j) ELSE \E k \in Wrote(j)' : buffer'[j] = Stored(k)
      BY <1>2, <2>3, <3>2, <3>4 DEF HoldsAWrite
    <3>6. (\A j : Old(j)' = Old(j)) /\ (\A k : Stored(k)' = Stored(k))
      BY <1>1 DEF Old, Stored
    <3> QED
      BY <3>3, <3>4, <3>5, <3>6 DEF HoldsAWrite
  <2> QED BY <2>2, <2>4, <2>5
<1> QED BY <1>1, <1>3, <1>4, <1>5, <1>6 DEF SNext

LEMMA ScatterInitTyped == SInit => ScatterTyped /\ ~Launched
<1> SUFFICES ASSUME SInit PROVE ScatterTyped /\ ~Launched
  OBVIOUS
<1>1. scall.self = [j \in DOMAIN scall.self |-> scall.self[j]]
  BY ScatterAssumption DEF SInit
<1> QED BY <1>1 DEF SInit, ScatterTyped, Launched

(* However the threads of a storing scatter interleave, for any index list *)
(* with any rows twice, a cell ends with a value written to it, or with    *)
(* its old value where no thread writes (cuda/src/ops/shape.cu,            *)
(* index_ext.cu).                                                          *)
THEOREM StoresSettle == ScatterSpec => []OneWriterWins
<1>1. SInit => StoreInv
  BY ScatterInitTyped DEF StoreInv, HoldsAWrite
<1>2. StoreInv /\ [SNext]_svars => StoreInv'
  BY StoreStep
<1>3. StoreInv => OneWriterWins
  <2> SUFFICES ASSUME StoreInv, sphase = "done", scall.kind \in Stores,
                      NEW j \in DOMAIN buffer
               PROVE  LET w == Writers(scall, j)
                      IN IF w = {} THEN buffer[j] = Old(j)
                         ELSE \E i \in w : buffer[j] = Stored(i)
    BY DEF OneWriterWins, Old, Stored
  <2>1. Wrote(j) = Writers(scall, j)
    BY DEF StoreInv, ScatterTyped, Wrote, Writers
  <2> QED BY <2>1 DEF StoreInv, HoldsAWrite, Launched
<1> QED BY <1>1, <1>2, <1>3, PTL DEF ScatterSpec

-----------------------------------------------------------------------------
Extrema == {"scatter_max", "scatter_min"}

(* x is at least as extreme as v in the direction of the call. *)
Reaches(x, v) == IF scall.kind = "scatter_max" THEN v <= x ELSE x <= v

(* What may come out in cell j. *)
Candidates(j) == {scall.self[j]} \cup {scall.src[i + 1] : i \in Writers(scall, j)}

(* A cell only gets more extreme: it stays ahead of its first value, of    *)
(* the writers that have finished, and of what a thread holds that is to   *)
(* compare and swap.                                                       *)
OnlyAhead ==
  Launched /\ scall.kind \in Extrema =>
    /\ \A j \in DOMAIN buffer :
         /\ buffer[j] \in Candidates(j)
         /\ Reaches(buffer[j], scall.self[j])
         /\ \A i \in Wrote(j) : Reaches(buffer[j], scall.src[i + 1])
    /\ \A i \in Threads(scall) : spc[i] = "cas" =>
         seen[i][1] \in Int /\ Reaches(buffer[Target(scall, i)], seen[i][1])

ExtremumInv == ScatterTyped /\ OnlyAhead

LEMMA Numbers ==
  ASSUME ScatterTyped, scall.kind \in Extrema
  PROVE  /\ \A j \in DOMAIN buffer : Candidates(j) \subseteq Int /\ scall.self[j] \in Int
         /\ \A i \in Threads(scall) :
              /\ scall.src[i + 1] \in Candidates(Target(scall, i))
              /\ scall.src[i + 1] \in Int
              /\ Target(scall, i) \in DOMAIN buffer
              /\ \A j : i \in Wrote(j) => j = Target(scall, i)
<1>1. scall.kind \in Loops /\ scall.kind \notin Checked
  BY DEF Extrema, Loops, Checked
<1> QED
  BY <1>1, ScatterAssumption DEF ScatterTyped, Candidates, Writers, Wrote

LEMMA ExtremumStep ==
  ASSUME ExtremumInv, [SNext]_svars
  PROVE  ExtremumInv'
<1> USE DEF ExtremumInv
<1>1. ScatterTyped' /\ scall' = scall /\ DOMAIN spc = Threads(scall)
  BY ScatterTypes DEF ScatterTyped
<1>2. SUFFICES ASSUME scall.kind \in Extrema, Launched' PROVE OnlyAhead'
  BY <1>1 DEF OnlyAhead
<1>3. \A j : Candidates(j)' = Candidates(j)
  BY <1>1 DEF Candidates, Writers
<1>4. CASE PlanUpdate \/ PlanScatter \/ PlanOther
  BY <1>2, <1>4 DEF Launched, PlanUpdate, PlanScatter, PlanOther
<1>5. CASE Launch
  <2>1. \A i \in Threads(scall) : spc'[i] = "start"
    BY <1>5 DEF Launch, ScatterTyped
  <2>2. \A j : Wrote(j)' = {}
    BY <1>1, <2>1 DEF Wrote, Writers
  <2>3. buffer' = scall.self
    BY <1>2, <1>5 DEF Launch, Extrema
  <2>4. \A j \in DOMAIN scall.self : scall.self[j] \in Int
    BY ScatterAssumption DEF ScatterTyped
  <2> QED
    BY <1>1, <1>3, <2>1, <2>2, <2>3, <2>4 DEF OnlyAhead, Candidates, Reaches
<1>6. CASE Drain \/ UNCHANGED svars
  BY <1>2, <1>6
  DEF Drain, svars, OnlyAhead, Launched, Wrote, Writers, Candidates, Reaches
<1>7. ASSUME NEW i \in Threads(scall), Thread(i) PROVE OnlyAhead'
  <2>1. spc[i] \in {"start", "cas", "done"} /\ scall.kind \notin Adds \cup Stores \cup Checked \cup {"renorm"}
    BY <1>2 DEF ScatterTyped, Stores, Adds, Loops, Extrema, Checked
  <2>2. Load(i) \/ CompareAndSwap(i)
    BY <1>7, <2>1 DEF Thread, Skip, AtomicAdd, Store, Applies, ReadNorm, ReadRow, ScaleRow
  <2>3. Launched /\ OnlyAhead /\ scall' = scall /\ sphase' = sphase
    BY <1>1, <2>2 DEF Load, CompareAndSwap, Applies, Launched
  <2>4. PICK j : j = Target(scall, i)
    OBVIOUS
  <2>5. PICK v : v = scall.src[i + 1]
    OBVIOUS
  <2>6. v \in Int /\ v \in Candidates(j) /\ j \in DOMAIN buffer /\ \A k : i \in Wrote(k) => k = j
    BY <1>2, <2>4, <2>5, Numbers
  <2>7. \A k \in DOMAIN buffer : buffer[k] \in Int /\ Candidates(k) \subseteq Int
    BY <1>2, <2>3, Numbers DEF OnlyAhead
  <2>8. CASE Load(i)
    <3>1. /\ seen' = [seen EXCEPT ![i] = <<buffer[j]>>]
          /\ spc' = [spc EXCEPT ![i] = "cas"] /\ UNCHANGED buffer
          /\ spc[i] = "start"
      BY <2>4, <2>8 DEF Load, Applies
    <3>2. \A k : Wrote(k)' = Wrote(k)
      BY <1>1, <3>1 DEF Wrote, Writers, ScatterTyped
    <3>3. Reaches(buffer[j], buffer[j])
      BY <2>6, <2>7 DEF Reaches
    <3>4. seen'[i] = <<buffer[j]>> /\ \A k \in Threads(scall) : k # i => seen'[k] = seen[k] /\ spc'[k] = spc[k]
      BY <3>1 DEF ScatterTyped
    <3>5. ASSUME NEW k \in Threads(scall), spc'[k] = "cas"
          PROVE  seen'[k][1] \in Int /\ Reaches(buffer'[Target(scall, k)], seen'[k][1])
      BY <1>2, <2>3, <2>4, <2>6, <2>7, <3>1, <3>3, <3>4, <3>5 DEF OnlyAhead
    <3> QED
      BY <1>1, <1>2, <1>3, <2>3, <3>1, <3>2, <3>5 DEF OnlyAhead, Reaches
  <2>9. CASE CompareAndSwap(i)
    <3>1. PICK assumed : assumed = seen[i][1]
      OBVIOUS
    <3>2. /\ spc[i] = "cas"
          /\ IF Settled(scall, assumed, v) THEN Finished(i) /\ UNCHANGED <<buffer, seen>>
             ELSE IF buffer[j] = assumed
             THEN /\ buffer' = [buffer EXCEPT ![j] = Apply(scall, assumed, v)]
                  /\ Finished(i)
                  /\ UNCHANGED seen
             ELSE /\ seen' = [seen EXCEPT ![i] = <<buffer[j]>>]
                  /\ UNCHANGED <<buffer, spc>>
      BY <2>4, <2>5, <2>9, <3>1 DEF CompareAndSwap
    <3>3. assumed \in Int /\ Reaches(buffer[j], assumed)
      BY <1>2, <2>3, <2>4, <3>1, <3>2 DEF OnlyAhead
    <3>4. Settled(scall, assumed, v) <=> Reaches(assumed, v)
      BY <1>2, <2>6, <3>3 DEF Settled, Reaches, Extrema
    <3>5. CASE Reaches(assumed, v)
      <4>1. UNCHANGED <<buffer, seen>> /\ spc' = [spc EXCEPT ![i] = "done"]
        BY <3>2, <3>4, <3>5 DEF Finished
      <4>2. Reaches(buffer[j], v)
        BY <2>6, <2>7, <3>3, <3>5 DEF Reaches
      <4>3. \A k, n : n \in Wrote(k)' => n \in Wrote(k) \/ (n = i /\ k = j)
        BY <1>1, <2>4, <4>1 DEF Wrote, Writers, ScatterTyped
      <4>4. \A k \in Threads(scall) : spc'[k] = "cas" => spc[k] = "cas"
        BY <4>1 DEF ScatterTyped
      <4> QED
        BY <1>1, <1>2, <1>3, <2>3, <2>5, <4>1, <4>2, <4>3, <4>4 DEF OnlyAhead, Reaches
    <3>6. CASE ~Reaches(assumed, v) /\ buffer[j] = assumed
      <4>1. /\ buffer' = [buffer EXCEPT ![j] = v] /\ UNCHANGED seen
            /\ spc' = [spc EXCEPT ![i] = "done"]
        BY <1>2, <3>2, <3>4, <3>6 DEF Finished, Apply, Extrema
      <4>2. \A x \in Int : Reaches(buffer[j], x) => Reaches(v, x)
        BY <2>6, <3>3, <3>6 DEF Reaches
      <4>3. \A k, n : n \in Wrote(k)' => n \in Wrote(k) \/ (n = i /\ k = j)
        BY <1>1, <2>4, <4>1 DEF Wrote, Writers, ScatterTyped
      <4>4. \A k \in Threads(scall) : spc'[k] = "cas" => spc[k] = "cas"
        BY <4>1 DEF ScatterTyped
      <4>5. DOMAIN buffer' = DOMAIN buffer /\ \A k \in DOMAIN buffer : buffer'[k] = IF k = j THEN v ELSE buffer[k]
        BY <4>1
      <4>6. Reaches(v, v)
        BY <2>6 DEF Reaches
      <4>7. \A k \in DOMAIN buffer : scall.self[k] \in Int /\ \A n \in Wrote(k) : scall.src[n + 1] \in Int
        BY <1>2, Numbers DEF Wrote, Writers
      <4>8. ASSUME NEW k \in DOMAIN buffer
            PROVE  /\ buffer'[k] \in Candidates(k)
                   /\ Reaches(buffer'[k], scall.self[k])
                   /\ \A n \in Wrote(k)' : Reaches(buffer'[k], scall.src[n + 1])
        BY <1>2, <2>3, <2>5, <2>6, <4>2, <4>3, <4>5, <4>6, <4>7 DEF OnlyAhead
      <4>9. ASSUME NEW k \in Threads(scall), spc'[k] = "cas"
            PROVE  seen'[k][1] \in Int /\ Reaches(buffer'[Target(scall, k)], seen'[k][1])
        <5>1. seen[k][1] \in Int /\ Reaches(buffer[Target(scall, k)], seen[k][1])
          BY <1>2, <2>3, <4>4, <4>9 DEF OnlyAhead
        <5>2. Target(scall, k) \in DOMAIN buffer
          BY <1>2, Numbers
        <5> QED BY <4>1, <4>2, <4>5, <5>1, <5>2
      <4> QED
        BY <1>1, <1>3, <4>5, <4>8, <4>9 DEF OnlyAhead, Reaches
    <3>7. CASE ~Reaches(assumed, v) /\ buffer[j] # assumed
      <4>1. seen' = [seen EXCEPT ![i] = <<buffer[j]>>] /\ UNCHANGED <<buffer, spc>>
        BY <3>2, <3>4, <3>7
      <4>2. \A k : Wrote(k)' = Wrote(k)
        BY <1>1, <4>1 DEF Wrote, Writers
      <4>3. seen'[i] = <<buffer[j]>> /\ \A k \in Threads(scall) : k # i => seen'[k] = seen[k]
        BY <4>1 DEF ScatterTyped
      <4>4. Reaches(buffer[j], buffer[j])
        BY <2>6, <2>7 DEF Reaches
      <4>5. ASSUME NEW k \in Threads(scall), spc'[k] = "cas"
            PROVE  seen'[k][1] \in Int /\ Reaches(buffer'[Target(scall, k)], seen'[k][1])
        BY <1>2, <2>3, <2>4, <2>6, <2>7, <4>1, <4>3, <4>4, <4>5 DEF OnlyAhead
      <4> QED
        BY <1>1, <1>2, <1>3, <2>3, <4>1, <4>2, <4>5 DEF OnlyAhead, Reaches
    <3> QED BY <3>5, <3>6, <3>7
  <2> QED BY <2>2, <2>8, <2>9
<1> QED BY <1>1, <1>4, <1>5, <1>6, <1>7 DEF SNext

(* Whoever wins which compare-and-swap, a maximum or minimum scatter       *)
(* leaves the extremum of a cell's first value and of all its writers      *)
(* (cuda/src/ops/index_ext.cu:24-38), for any grid and any rows.           *)
THEOREM ExtremaReached == ScatterSpec => []ExtremumReached
<1>1. SInit => ExtremumInv
  BY ScatterInitTyped DEF ExtremumInv, OnlyAhead
<1>2. ExtremumInv /\ [SNext]_svars => ExtremumInv'
  BY ExtremumStep
<1>3. ExtremumInv => ExtremumReached
  <2> SUFFICES ASSUME ExtremumInv, sphase = "done", scall.kind \in Extrema,
                      NEW j \in DOMAIN buffer
               PROVE  /\ buffer[j] \in Candidates(j)
                      /\ \A v \in Candidates(j) : Reaches(buffer[j], v)
    BY DEF ExtremumReached, Candidates, Reaches, Extrema
  <2>1. Wrote(j) = Writers(scall, j)
    BY DEF ExtremumInv, ScatterTyped, Wrote, Writers
  <2> QED BY <2>1 DEF ExtremumInv, OnlyAhead, Launched, Candidates
<1> QED BY <1>1, <1>2, <1>3, PTL DEF ScatterSpec

-----------------------------------------------------------------------------
(* Sums and products.  A nonempty set of numbers has a least one. *)
LEMMA Least ==
  ASSUME NEW S \in SUBSET Nat, S # {}
  PROVE  \E m \in S : \A n \in S : m <= n
<1> DEFINE R == OpToRel(<, Nat)
<1>1. IsWellFoundedOn(R, Nat)
  BY NatLessThanWellFounded, Zenon
<1>2. R = {p \in Nat \X Nat : p[1] < p[2]}
  BY Zenon DEF OpToRel
<1> HIDE DEF R
<1>3. PICK m \in S : \A n \in S : ~(<<n, m>> \in R)
  BY <1>1, WFMin
<1>4. ASSUME NEW n \in S PROVE m <= n
  <2>1. m \in Nat /\ n \in Nat /\ (n < m => <<n, m>> \in R)
    BY <1>2
  <2> QED BY <1>3, <2>1
<1> QED BY <1>4

(* A property of sets that any set has once the smaller ones do holds of   *)
(* every finite set: here, that a set of counterexamples is empty.         *)
LEMMA NoSmallestSet ==
  ASSUME NEW S, IsFiniteSet(S), NEW Bad \in SUBSET SUBSET S,
         \A s \in Bad : \E t \in Bad : t \subseteq s /\ t # s
  PROVE  Bad = {}
<1> DEFINE U == {n \in Nat : \E s \in Bad : Cardinality(s) = n}
<1>1. \A s \in Bad : IsFiniteSet(s) /\ Cardinality(s) \in Nat
  BY FS_Subset, FS_CardinalityType
<1>2. ASSUME U # {} PROVE FALSE
  <2>1. PICK m \in U : \A n \in U : m <= n
    BY <1>2, Least
  <2>2. PICK s \in Bad : Cardinality(s) = m
    BY <2>1
  <2>3. PICK t \in Bad : t \subseteq s /\ t # s
    BY <2>2
  <2>4. Cardinality(t) < Cardinality(s) /\ Cardinality(t) \in U
    <3>1. IsFiniteSet(s)
      BY <1>1
    <3>2. Cardinality(t) <= Cardinality(s) /\ (Cardinality(s) = Cardinality(t) => s = t)
      BY <2>3, <3>1, FS_Subset
    <3> QED BY <1>1, <2>3, <3>2
  <2> QED BY <1>1, <2>1, <2>2, <2>4
<1> QED BY <1>1, <1>2

(* One source element taken into a cell. *)
Joined(c, y, i) == IF c.kind = "scatter_mul" THEN y * c.src[i + 1] ELSE y + c.src[i + 1]

LEMMA JoinCommutes ==
  ASSUME NEW c, NEW y \in Int, NEW i, NEW k, c.src[i + 1] \in Int, c.src[k + 1] \in Int
  PROVE  /\ Joined(c, y, i) \in Int
         /\ Joined(c, Joined(c, y, i), k) = Joined(c, Joined(c, y, k), i)
<1>1. PICK a \in Int, b \in Int : a = c.src[i + 1] /\ b = c.src[k + 1]
  OBVIOUS
<1>2. (y * a) * b = (y * b) * a /\ y * a \in Int /\ y * b \in Int
  OBVIOUS
<1>3. (y + a) + b = (y + b) + a /\ y + a \in Int
  OBVIOUS
<1> QED BY <1>1, <1>2, <1>3 DEF Joined

(* f folds the subsets of S from x, one chosen element at a time. *)
One(s) == CHOOSE e \in s : TRUE
Folding(f, c, x, S) ==
  f = [s \in SUBSET S |-> IF s = {} THEN x ELSE Joined(c, f[s \ {One(s)}], One(s))]

LEMMA CombinedFolds ==
  ASSUME NEW c, NEW x, NEW S
  PROVE  Combined(c, x, S) = (CHOOSE f : Folding(f, c, x, S))[S]
BY DEF Combined, FoldSet, MapThenFoldSet, Folding, One, Joined

LEMMA OneIn ==
  ASSUME NEW s, s # {}
  PROVE  One(s) \in s /\ s \ {One(s)} \subseteq s /\ s \ {One(s)} # s
BY DEF One

(* There is such a function: the sets of up to n elements have one, or     *)
(* there would be a least n for which they have not.                       *)
Below(S, n) == {s \in SUBSET S : Cardinality(s) <= n}
FoldingTo(f, c, x, S, n) ==
  f = [s \in Below(S, n) |-> IF s = {} THEN x ELSE Joined(c, f[s \ {One(s)}], One(s))]

LEMMA FoldingExists ==
  ASSUME NEW c, NEW x, NEW S, IsFiniteSet(S)
  PROVE  \E f : Folding(f, c, x, S)
<1> DEFINE U == {n \in Nat : ~\E f : FoldingTo(f, c, x, S, n)}
<1>1. \A s \in SUBSET S : IsFiniteSet(s) /\ Cardinality(s) \in Nat
  BY FS_Subset, FS_CardinalityType
<1>2. \A s \in SUBSET S : s # {} =>
        s \ {One(s)} \in SUBSET S /\ Cardinality(s \ {One(s)}) = Cardinality(s) - 1
  BY <1>1, OneIn, FS_RemoveElement
<1>3. ASSUME U # {} PROVE FALSE
  <2>1. PICK m \in U : \A n \in U : m <= n
    BY <1>3, Least
  <2>2. m # 0
    <3>1. \A s \in Below(S, 0) : s = {}
      BY <1>1, FS_EmptySet DEF Below
    <3>2. FoldingTo([s \in Below(S, 0) |-> x], c, x, S, 0)
      BY <3>1 DEF FoldingTo
    <3> QED BY <2>1, <3>2
  <2>3. m - 1 \in Nat /\ m - 1 \notin U
    BY <2>1, <2>2
  <2>4. PICK f : FoldingTo(f, c, x, S, m - 1)
    BY <2>3
  <2> DEFINE h == [s \in Below(S, m) |-> IF s = {} THEN x ELSE Joined(c, f[s \ {One(s)}], One(s))]
  <2>5. ASSUME NEW s \in Below(S, m), s # {}
        PROVE  h[s \ {One(s)}] = f[s \ {One(s)}]
    <3>1. PICK t : t = s \ {One(s)}
      OBVIOUS
    <3>2. t \in Below(S, m - 1) /\ t \in Below(S, m)
      BY <1>1, <1>2, <2>3, <2>5, <3>1 DEF Below
    <3>3. f[t] = IF t = {} THEN x ELSE Joined(c, f[t \ {One(t)}], One(t))
      BY <2>4, <3>2 DEF FoldingTo
    <3> QED BY <3>1, <3>2, <3>3
  <2>6. h = [s \in Below(S, m) |-> IF s = {} THEN x ELSE Joined(c, h[s \ {One(s)}], One(s))]
    BY <2>5
  <2>7. FoldingTo(h, c, x, S, m)
    <3> HIDE DEF h
    <3> QED BY <2>6 DEF FoldingTo
  <2> QED BY <2>1, <2>7
<1>4. Cardinality(S) \in Nat /\ Below(S, Cardinality(S)) = SUBSET S
  BY <1>1, FS_Subset DEF Below
<1>5. PICK f : FoldingTo(f, c, x, S, Cardinality(S))
  BY <1>3, <1>4
<1>6. Folding(f, c, x, S)
  BY <1>4, <1>5 DEF FoldingTo, Folding
<1> QED BY <1>6

LEMMA FoldingIs ==
  ASSUME NEW c, NEW x, NEW S, NEW f, Folding(f, c, x, S)
  PROVE  /\ f[{}] = x
         /\ \A s \in SUBSET S : s # {} => f[s] = Joined(c, f[s \ {One(s)}], One(s))
<1>1. \A s \in SUBSET S : f[s] = IF s = {} THEN x ELSE Joined(c, f[s \ {One(s)}], One(s))
  BY DEF Folding
<1> QED BY <1>1

(* Folds from one value agree on the sets that both reach. *)
LEMMA FoldsAgree ==
  ASSUME NEW c, NEW x, NEW S, NEW T, IsFiniteSet(S), S \subseteq T,
         NEW f, Folding(f, c, x, S), NEW g, Folding(g, c, x, T)
  PROVE  \A s \in SUBSET S : f[s] = g[s]
<1>0. f[{}] = x /\ g[{}] = x
  BY FoldingIs
<1>01. \A s \in SUBSET S : s # {} => f[s] = Joined(c, f[s \ {One(s)}], One(s))
  BY FoldingIs
<1>02. \A s \in SUBSET T : s # {} => g[s] = Joined(c, g[s \ {One(s)}], One(s))
  BY FoldingIs
<1> DEFINE Bad == {s \in SUBSET S : f[s] # g[s]}
<1>1. ASSUME NEW s \in Bad PROVE \E t \in Bad : t \subseteq s /\ t # s
  <2>1. s # {}
    BY <1>0
  <2>2. PICK t, e : t = s \ {One(s)} /\ e = One(s)
    OBVIOUS
  <2>3. t \subseteq s /\ t # s
    BY <2>1, <2>2, OneIn
  <2>4. f[s] = Joined(c, f[t], e) /\ g[s] = Joined(c, g[t], e)
    <3>1. s \in SUBSET S /\ s \in SUBSET T
      OBVIOUS
    <3>2. f[s] = Joined(c, f[s \ {One(s)}], One(s))
      BY <1>01, <2>1, <3>1, Zenon
    <3>3. g[s] = Joined(c, g[s \ {One(s)}], One(s))
      BY <1>02, <2>1, <3>1, Zenon
    <3> QED BY <2>2, <3>2, <3>3, Zenon
  <2>5. t \in Bad
    BY <2>3, <2>4
  <2> QED BY <2>3, <2>5
<1>2. Bad \in SUBSET SUBSET S
  OBVIOUS
<1> HIDE DEF Bad
<1>3. Bad = {}
  BY <1>1, <1>2, NoSmallestSet
<1> QED BY <1>3 DEF Bad

(* A fold of numbers is a number. *)
LEMMA FoldingType ==
  ASSUME NEW c, NEW x \in Int, NEW S, IsFiniteSet(S), \A k \in S : c.src[k + 1] \in Int,
         NEW f, Folding(f, c, x, S)
  PROVE  \A s \in SUBSET S : f[s] \in Int
<1>0. f[{}] = x
  BY FoldingIs
<1> DEFINE Bad == {s \in SUBSET S : f[s] \notin Int}
<1>1. ASSUME NEW s \in Bad PROVE \E t \in Bad : t \subseteq s /\ t # s
  <2>1. s # {}
    BY <1>0
  <2>2. PICK t, e : t = s \ {One(s)} /\ e = One(s)
    OBVIOUS
  <2>3. t \subseteq s /\ t # s /\ e \in S
    BY <2>1, <2>2, OneIn
  <2>4. f[s] = Joined(c, f[t], e)
    BY <2>1, <2>2, FoldingIs
  <2>5. c.src[e + 1] \in Int
    BY <2>3
  <2>6. ASSUME NEW y \in Int PROVE Joined(c, y, e) \in Int
    BY <2>5, JoinCommutes
  <2>7. t \in Bad
    BY <2>3, <2>4, <2>6
  <2> QED BY <2>3, <2>7
<1>2. Bad \in SUBSET SUBSET S
  OBVIOUS
<1> HIDE DEF Bad
<1>3. Bad = {}
  BY <1>1, <1>2, NoSmallestSet
<1> QED BY <1>3 DEF Bad

(* Any element can be the one that was taken in last. *)
LEMMA AnyLast ==
  ASSUME NEW c, NEW x \in Int, NEW S, IsFiniteSet(S), \A k \in S : c.src[k + 1] \in Int,
         NEW f, Folding(f, c, x, S)
  PROVE  \A s \in SUBSET S : \A i \in s : f[s] = Joined(c, f[s \ {i}], i)
<1> DEFINE Bad == {s \in SUBSET S : ~\A i \in s : f[s] = Joined(c, f[s \ {i}], i)}
<1>1. ASSUME NEW s \in Bad PROVE \E t \in Bad : t \subseteq s /\ t # s
  <2>1. PICK i \in s : f[s] # Joined(c, f[s \ {i}], i)
    OBVIOUS
  <2>2. PICK e : e = One(s)
    OBVIOUS
  <2>3. e \in s /\ f[s] = Joined(c, f[s \ {e}], e) /\ e # i
    BY <2>1, <2>2, OneIn, FoldingIs
  <2>4. SUFFICES ASSUME s \ {e} \notin Bad, s \ {i} \notin Bad PROVE FALSE
    BY <2>1, <2>3
  <2>5. PICK r : r = (s \ {e}) \ {i} /\ r = (s \ {i}) \ {e}
    OBVIOUS
  <2>6. f[s \ {e}] = Joined(c, f[r], i) /\ f[s \ {i}] = Joined(c, f[r], e)
    BY <2>1, <2>3, <2>4, <2>5
  <2>7. r \in SUBSET S /\ c.src[e + 1] \in Int /\ c.src[i + 1] \in Int
    BY <2>1, <2>3, <2>5
  <2>8. f[r] \in Int
    BY <2>7, FoldingType
  <2>9. PICK y \in Int : y = f[r]
    BY <2>8
  <2>10. Joined(c, Joined(c, y, i), e) = Joined(c, Joined(c, y, e), i)
    BY <2>7, JoinCommutes
  <2> QED BY <2>1, <2>3, <2>6, <2>9, <2>10
<1>2. Bad \in SUBSET SUBSET S
  OBVIOUS
<1> HIDE DEF Bad
<1>3. Bad = {}
  BY <1>1, <1>2, NoSmallestSet
<1> QED BY <1>3 DEF Bad

(* What the elements of a set make of a cell: nothing for none, and one    *)
(* more element joined, whichever it is.                                   *)
LEMMA CombinedIs ==
  ASSUME NEW c, NEW x \in Int, NEW S, IsFiniteSet(S), \A k \in S : c.src[k + 1] \in Int
  PROVE  /\ S = {} => Combined(c, x, S) = x
         /\ \A i \in S : Combined(c, x, S) = Joined(c, Combined(c, x, S \ {i}), i)
<1>1. PICK f : f = CHOOSE h : Folding(h, c, x, S)
  OBVIOUS
<1>2. Folding(f, c, x, S)
  BY <1>1, FoldingExists
<1>3. Combined(c, x, S) = f[S]
  BY <1>1, CombinedFolds
<1>4. ASSUME NEW i \in S
      PROVE  Combined(c, x, S) = Joined(c, Combined(c, x, S \ {i}), i)
  <2>1. PICK R : R = S \ {i}
    OBVIOUS
  <2>2. IsFiniteSet(R) /\ R \subseteq S
    BY <2>1, FS_Subset
  <2>3. PICK g : g = CHOOSE h : Folding(h, c, x, R)
    OBVIOUS
  <2>4. Folding(g, c, x, R)
    BY <2>2, <2>3, FoldingExists
  <2>5. Combined(c, x, R) = g[R]
    BY <2>3, CombinedFolds
  <2>6. g[R] = f[R]
    BY <1>2, <2>2, <2>4, FoldsAgree
  <2>7. f[S] = Joined(c, f[R], i)
    BY <1>2, <2>1, AnyLast
  <2> QED BY <1>3, <2>1, <2>5, <2>6, <2>7
<1>5. S = {} => f[S] = x
  BY <1>2, FoldingIs
<1> QED BY <1>3, <1>4, <1>5

-----------------------------------------------------------------------------
(* What an accumulating scatter starts a cell from. *)
Accumulates == Adds \cup {"scatter_mul"}
From(j) == IF scall.kind = "embedding_backward" THEN 0 ELSE scall.self[j]

(* While the grid runs a cell holds what its finished writers make of it:  *)
(* a swap succeeds only on the value it was computed from, so whatever was *)
(* written in between is in the cell already.                              *)
HoldsFinished ==
  Launched /\ scall.kind \in Accumulates =>
    \A j \in DOMAIN buffer : buffer[j] = Combined(scall, From(j), Wrote(j))

AccumulateInv == ScatterTyped /\ HoldsFinished

LEMMA FiniteWrites ==
  ASSUME ScatterTyped, scall.kind \in Accumulates, NEW W \in SUBSET Threads(scall)
  PROVE  /\ IsFiniteSet(W) /\ \A k \in W : scall.src[k + 1] \in Int
         /\ \A j \in DOMAIN buffer : From(j) \in Int
<1>1. /\ scall \in ScatterCalls /\ scall.kind \in Adds \cup Loops /\ scall.kind # "renorm"
      /\ DOMAIN buffer = DOMAIN scall.self
  BY DEF ScatterTyped, Accumulates, Adds, Loops
<1>2. Len(scall.idx) \in Nat /\ scall.row \in Nat
  BY <1>1, ScatterAssumption
<1>3. Len(scall.idx) * scall.row - 1 \in Int
  BY <1>2
<1>4. Threads(scall) = 0 .. Len(scall.idx) * scall.row - 1
  BY <1>1 DEF Threads
<1>5. IsFiniteSet(W)
  <2>1. PICK n \in Int : n = Len(scall.idx) * scall.row - 1
    BY <1>3
  <2>2. IsFiniteSet(0 .. n)
    BY FS_Interval
  <2>3. IsFiniteSet(Threads(scall))
    BY <1>4, <2>1, <2>2
  <2> QED BY <2>3, FS_Subset
<1>6. \A k \in W : scall.src[k + 1] \in Int
  BY <1>1, ScatterAssumption
<1>7. \A j \in DOMAIN buffer : scall.self[j] \in Int
  BY <1>1, ScatterAssumption
<1> QED BY <1>5, <1>6, <1>7 DEF From

(* Thread i finishes: its cell, and no other, is joined by its element. *)
LEMMA OneMore ==
  ASSUME ScatterTyped, ScatterTyped', scall' = scall, scall.kind \in Accumulates, HoldsFinished,
         Launched, Launched', NEW i \in Threads(scall), spc[i] # "done",
         spc' = [spc EXCEPT ![i] = "done"], scall.kind \in Checked => InRange(scall, i),
         buffer' = [buffer EXCEPT ![Target(scall, i)] = Joined(scall, @, i)]
  PROVE  HoldsFinished'
<1>1. PICK t : t = Target(scall, i)
  OBVIOUS
<1>2. DOMAIN spc = Threads(scall) /\ DOMAIN buffer' = DOMAIN buffer
  BY DEF ScatterTyped
<1>3. \A j : j # t => Wrote(j)' = Wrote(j)
  BY <1>1, <1>2 DEF Wrote, Writers
<1>4. Wrote(t)' = Wrote(t) \cup {i} /\ i \notin Wrote(t)
  BY <1>1, <1>2 DEF Wrote, Writers
<1>5. \A j : From(j)' = From(j)
  BY DEF From
<1>6. ASSUME NEW j \in DOMAIN buffer
      PROVE  buffer'[j] = Combined(scall, From(j), Wrote(j)')
  <2>1. buffer[j] = Combined(scall, From(j), Wrote(j))
    BY DEF HoldsFinished
  <2>2. CASE j # t
    BY <1>1, <1>3, <2>1, <2>2
  <2>3. CASE j = t
    <3>1. buffer'[j] = Joined(scall, buffer[j], i)
      BY <1>1, <2>3
    <3>2. PICK c, x, W : c = scall /\ x = From(j) /\ W = Wrote(j)'
      OBVIOUS
    <3>3. W \in SUBSET Threads(c) /\ i \in W /\ W \ {i} = Wrote(j)
      BY <1>4, <2>3, <3>2 DEF Wrote, Writers
    <3>4. IsFiniteSet(W) /\ (\A k \in W : c.src[k + 1] \in Int) /\ x \in Int
      BY <3>2, <3>3, FiniteWrites
    <3>5. Combined(c, x, W) = Joined(c, Combined(c, x, W \ {i}), i)
      BY <3>3, <3>4, CombinedIs
    <3> QED BY <2>1, <3>1, <3>2, <3>3, <3>5
  <2> QED BY <2>2, <2>3
<1> QED BY <1>2, <1>5, <1>6 DEF HoldsFinished

LEMMA AccumulateStep ==
  ASSUME AccumulateInv, [SNext]_svars
  PROVE  AccumulateInv'
<1> USE DEF AccumulateInv
<1>1. ScatterTyped' /\ scall' = scall /\ DOMAIN spc = Threads(scall)
  BY ScatterTypes DEF ScatterTyped
<1>2. SUFFICES ASSUME scall.kind \in Accumulates, Launched' PROVE HoldsFinished'
  BY <1>1 DEF HoldsFinished
<1>3. \A j : From(j)' = From(j)
  BY <1>1 DEF From
<1>4. CASE PlanUpdate \/ PlanScatter \/ PlanOther
  BY <1>2, <1>4 DEF Launched, PlanUpdate, PlanScatter, PlanOther
<1>5. CASE Launch
  <2>1. \A j : Wrote(j)' = {}
    BY <1>1, <1>5 DEF Launch, ScatterTyped, Wrote, Writers
  <2>2. \A j \in DOMAIN scall.self : buffer'[j] = From(j)
    BY <1>2, <1>5 DEF Launch, ScatterTyped, From, Accumulates, Adds
  <2>3. DOMAIN buffer' = DOMAIN scall.self /\ DOMAIN buffer = DOMAIN scall.self
    BY <1>1 DEF ScatterTyped
  <2>4. {} \in SUBSET Threads(scall) /\ \A j \in DOMAIN buffer : From(j) \in Int
    BY <1>2, FiniteWrites
  <2>5. ASSUME NEW j \in DOMAIN buffer PROVE Combined(scall, From(j), {}) = From(j)
    <3>1. PICK c, x : c = scall /\ x = From(j) /\ x \in Int
      BY <2>4
    <3>2. Combined(c, x, {}) = x
      BY <3>1, CombinedIs, FS_EmptySet
    <3> QED BY <3>1, <3>2
  <2> QED BY <1>1, <1>3, <2>1, <2>2, <2>3, <2>5 DEF HoldsFinished
<1>6. CASE Drain \/ UNCHANGED svars
  BY <1>1, <1>2, <1>3, <1>6 DEF Drain, svars, HoldsFinished, Launched, Wrote
<1>7. ASSUME NEW i \in Threads(scall), Thread(i) PROVE HoldsFinished'
  <2>1. spc[i] \in {"start", "cas", "done"} /\ scall.kind \notin Stores \cup {"renorm"}
    BY <1>2 DEF ScatterTyped, Stores, Adds, Loops, Accumulates
  <2>2. Skip(i) \/ AtomicAdd(i) \/ Load(i) \/ CompareAndSwap(i)
    BY <1>7, <2>1 DEF Thread, Store, ReadNorm, ReadRow, ScaleRow
  <2>3. Launched /\ HoldsFinished
    BY <2>2 DEF Skip, AtomicAdd, Load, CompareAndSwap, Applies, Launched
  <2>4. CASE Skip(i)
    <3>1. \A j : Wrote(j)' = Wrote(j)
      BY <1>1, <2>4 DEF Skip, Finished, Wrote, Writers
    <3> QED BY <1>1, <1>2, <1>3, <2>3, <2>4, <3>1 DEF HoldsFinished, Skip
  <2>5. CASE AtomicAdd(i)
    <3>1. /\ spc[i] = "start" /\ spc' = [spc EXCEPT ![i] = "done"]
          /\ scall.kind \in Checked => InRange(scall, i)
          /\ scall.kind \in Adds
          /\ buffer' = [buffer EXCEPT ![Target(scall, i)] = @ + scall.src[i + 1]]
      BY <2>5 DEF AtomicAdd, Applies, Finished
    <3>2. buffer' = [buffer EXCEPT ![Target(scall, i)] = Joined(scall, @, i)]
      BY <3>1 DEF Joined, Adds
    <3> QED BY <1>1, <1>2, <2>3, <3>1, <3>2, OneMore
  <2>6. CASE Load(i)
    <3>1. \A j : Wrote(j)' = Wrote(j)
      BY <1>1, <2>6 DEF Load, Applies, Wrote, Writers
    <3> QED BY <1>1, <1>2, <1>3, <2>3, <2>6, <3>1 DEF HoldsFinished, Load
  <2>7. CASE CompareAndSwap(i)
    <3>1. PICK t, v : t = Target(scall, i) /\ v = scall.src[i + 1]
      OBVIOUS
    <3>2. scall.kind = "scatter_mul" /\ scall.kind \notin Checked
      BY <1>2, <2>7 DEF CompareAndSwap, ScatterTyped, Accumulates, Adds, Stores, Loops, Checked
    <3>3. \/ UNCHANGED <<buffer, spc>>
          \/ /\ buffer' = [buffer EXCEPT ![t] = buffer[t] * v]
             /\ spc' = [spc EXCEPT ![i] = "done"]
      BY <2>7, <3>1, <3>2 DEF CompareAndSwap, Settled, Apply, Finished
    <3>4. CASE UNCHANGED <<buffer, spc>>
      <4>1. \A j : Wrote(j)' = Wrote(j)
        BY <1>1, <3>4 DEF Wrote, Writers
      <4> QED BY <1>1, <1>2, <1>3, <2>3, <3>4, <4>1 DEF HoldsFinished
    <3>5. CASE /\ buffer' = [buffer EXCEPT ![t] = buffer[t] * v]
               /\ spc' = [spc EXCEPT ![i] = "done"]
      <4>1. buffer' = [buffer EXCEPT ![Target(scall, i)] = Joined(scall, @, i)]
        BY <3>1, <3>2, <3>5 DEF Joined
      <4>2. spc[i] # "done"
        BY <2>7 DEF CompareAndSwap
      <4> QED BY <1>1, <1>2, <2>3, <3>2, <3>5, <4>1, <4>2, OneMore
    <3> QED BY <3>3, <3>4, <3>5
  <2> QED BY <2>2, <2>4, <2>5, <2>6, <2>7
<1> QED BY <1>1, <1>4, <1>5, <1>6, <1>7 DEF SNext

(* "atomic accumulate" (cuda/src/ops/shape.cu:632), for any index list     *)
(* with any rows twice and any interleaving: when the grid has drained, a  *)
(* sum or product has taken in every source element of its cell once, and  *)
(* a maximum or minimum is the extremum of them all.                       *)
THEOREM ScattersLoseNothing == ScatterSpec => []ScattersCombine
<1>1. SInit => AccumulateInv
  BY ScatterInitTyped DEF AccumulateInv, HoldsFinished
<1>2. AccumulateInv /\ [SNext]_svars => AccumulateInv'
  BY AccumulateStep
<1>3. AccumulateInv => NoLostUpdate
  <2> SUFFICES ASSUME AccumulateInv, sphase = "done", scall.kind \in Accumulates,
                      NEW j \in DOMAIN buffer
               PROVE  buffer[j] = Combined(scall, From(j), Writers(scall, j))
    BY DEF NoLostUpdate, From, Accumulates
  <2>1. Wrote(j) = Writers(scall, j)
    BY DEF AccumulateInv, ScatterTyped, Wrote, Writers
  <2> QED BY <2>1 DEF AccumulateInv, HoldsFinished, Launched
<1>4. ScatterSpec => []NoLostUpdate
  BY <1>1, <1>2, <1>3, PTL DEF ScatterSpec
<1>5. NoLostUpdate /\ ExtremumReached => ScattersCombine
  BY DEF ScattersCombine
<1> QED BY <1>4, <1>5, ExtremaReached, PTL

-----------------------------------------------------------------------------
(* Index maps of the copying operators.  A kernel splits the flat index of *)
(* its thread into digits and puts the digits of its source together: what *)
(* it is proved by is that digits split as they were joined.               *)
Copy == INSTANCE ShapeKernels
Matrix == INSTANCE MatmulKernels
Index == INSTANCE IndexKernels
Window == INSTANCE WindowKernels

LEMMA DivMod ==
  ASSUME NEW n \in Nat \ {0}, NEW x \in Int
  PROVE  /\ x = (x \div n) * n + (x % n)
         /\ x \div n \in Int /\ x % n \in 0 .. n - 1
         /\ x \in Nat => x \div n \in Nat
OBVIOUS

LEMMA MultipleLess ==
  ASSUME NEW a \in Int, NEW b \in Int, NEW n \in Nat, a < b
  PROVE  a * n + n <= b * n
<1>1. PICK d \in Nat : b = a + 1 + d
  <2>1. b - a - 1 \in Nat /\ b = a + 1 + (b - a - 1)
    OBVIOUS
  <2> QED BY <2>1
<1>2. b * n = a * n + n + d * n /\ d * n \in Nat
  BY <1>1
<1> QED BY <1>2

LEMMA Digits ==
  ASSUME NEW n \in Nat \ {0}, NEW a \in Int, NEW r \in 0 .. n - 1
  PROVE  (a * n + r) \div n = a /\ (a * n + r) % n = r
<1> DEFINE x == a * n + r
<1>1. x \in Int
  OBVIOUS
<1>2. PICK q \in Int, s \in 0 .. n - 1 : q = x \div n /\ s = x % n /\ x = q * n + s
  BY <1>1, DivMod
<1>3. ~(q < a)
  <2>1. SUFFICES ASSUME q < a PROVE FALSE
    OBVIOUS
  <2>2. q * n + n <= a * n
    BY <2>1, MultipleLess
  <2> QED BY <1>2, <2>2
<1>4. ~(a < q)
  <2>1. SUFFICES ASSUME a < q PROVE FALSE
    OBVIOUS
  <2>2. a * n + n <= q * n
    BY <2>1, MultipleLess
  <2> QED BY <1>2, <2>2
<1>5. q = a
  BY <1>3, <1>4
<1> QED BY <1>2, <1>5

LEMMA DigitsBelow ==
  ASSUME NEW n \in Nat, NEW m \in Nat, NEW a \in 0 .. m - 1, NEW r \in 0 .. n - 1
  PROVE  a * n + r \in 0 .. m * n - 1
<1>1. a * n + n <= m * n
  BY MultipleLess
<1>2. a * n \in Nat /\ m * n \in Nat
  OBVIOUS
<1> QED BY <1>1, <1>2

LEMMA Split ==
  ASSUME NEW n \in Nat, NEW m \in Nat, NEW i \in 0 .. m * n - 1
  PROVE  /\ n \in Nat \ {0} /\ i \div n \in 0 .. m - 1 /\ i % n \in 0 .. n - 1
         /\ i = (i \div n) * n + (i % n)
<1>1. n # 0
  OBVIOUS
<1>2. PICK a \in Nat, r \in 0 .. n - 1 : i = a * n + r /\ a = i \div n /\ r = i % n
  BY <1>1, DivMod
<1>3. a < m
  <2>1. SUFFICES ASSUME m <= a PROVE FALSE
    OBVIOUS
  <2>2. PICK d \in Nat : a = m + d
    <3>1. a - m \in Nat /\ a = m + (a - m)
      BY <2>1
    <3> QED BY <3>1
  <2>3. a * n = m * n + d * n /\ d * n \in Nat
    BY <2>2
  <2> QED BY <1>2, <2>3
<1> QED BY <1>1, <1>2, <1>3

(* A flat index and the three digits a kernel splits it into. *)
Flat3(o, d, r, F, n) == (o * F + d) * n + r
Cells(N, F, n) == 0 .. N * F * n - 1

LEMMA ThreeDigits ==
  ASSUME NEW F \in Nat \ {0}, NEW n \in Nat \ {0}, NEW o \in Int,
         NEW d \in 0 .. F - 1, NEW r \in 0 .. n - 1
  PROVE  /\ Flat3(o, d, r, F, n) \div (n * F) = o
         /\ (Flat3(o, d, r, F, n) \div n) % F = d
         /\ Flat3(o, d, r, F, n) % n = r
<1> DEFINE i == Flat3(o, d, r, F, n)
<1> DEFINE k == d * n + r
<1>1. k \in 0 .. F * n - 1 /\ F * n \in Nat \ {0} /\ n * F = F * n
  BY DigitsBelow
<1>2. i = o * (F * n) + k
  BY DEF Flat3
<1>3. i \div (n * F) = o
  <2> HIDE DEF i, k
  <2> QED BY <1>1, <1>2, Digits
<1>4. o * F + d \in Int /\ i \in Int
  BY DEF Flat3
<1>5. i \div n = o * F + d /\ i % n = r
  BY <1>4, Digits DEF Flat3
<1>6. (o * F + d) % F = d
  BY Digits
<1> QED BY <1>3, <1>4, <1>5, <1>6

LEMMA Split3 ==
  ASSUME NEW N \in Nat, NEW F \in Nat, NEW n \in Nat, NEW i \in Cells(N, F, n)
  PROVE  /\ F \in Nat \ {0} /\ n \in Nat \ {0}
         /\ i \div (n * F) \in 0 .. N - 1 /\ (i \div n) % F \in 0 .. F - 1 /\ i % n \in 0 .. n - 1
         /\ i = Flat3(i \div (n * F), (i \div n) % F, i % n, F, n)
<1>1. PICK M \in Nat : M = N * F
  OBVIOUS
<1>2. i \in 0 .. M * n - 1
  BY <1>1 DEF Cells
<1>3. PICK a \in 0 .. M - 1, r \in 0 .. n - 1 : n \in Nat \ {0} /\ i = a * n + r /\ a = i \div n /\ r = i % n
  BY <1>2, Split
<1>4. PICK o \in 0 .. N - 1, d \in 0 .. F - 1 : F \in Nat \ {0} /\ a = o * F + d /\ d = a % F
  <2>1. a \in 0 .. N * F - 1
    BY <1>1
  <2> QED BY <2>1, Split
<1>5. i = Flat3(o, d, r, F, n)
  BY <1>3, <1>4 DEF Flat3
<1>6. i \div (n * F) = o
  <2>1. F \in Nat \ {0} /\ n \in Nat \ {0} /\ o \in Int
    BY <1>3, <1>4
  <2>2. Flat3(o, d, r, F, n) \div (n * F) = o
    <3>1. /\ Flat3(o, d, r, F, n) \div (n * F) = o
          /\ (Flat3(o, d, r, F, n) \div n) % F = d
          /\ Flat3(o, d, r, F, n) % n = r
      BY <2>1, ThreeDigits
    <3> QED BY <3>1, Zenon
  <2> QED BY <1>5, <2>2, Zenon
<1> QED BY <1>3, <1>4, <1>5, <1>6

LEMMA Flat3Below ==
  ASSUME NEW N \in Nat, NEW F \in Nat, NEW n \in Nat,
         NEW o \in 0 .. N - 1, NEW d \in 0 .. F - 1, NEW r \in 0 .. n - 1
  PROVE  Flat3(o, d, r, F, n) \in Cells(N, F, n)
<1>1. PICK a \in 0 .. N * F - 1 : a = o * F + d
  BY DigitsBelow
<1>2. PICK M \in Nat : M = N * F
  OBVIOUS
<1>3. a * n + r \in 0 .. M * n - 1
  BY <1>1, <1>2, DigitsBelow
<1> QED BY <1>1, <1>2, <1>3 DEF Flat3, Cells

(* The index map that moves the middle digit as p says. *)
Moving(p, N, F, n) ==
  [i \in Cells(N, F, n) |-> Flat3(i \div (n * F), p[(i \div n) % F], i % n, F, n)]

(* q brings back what p moves; and the same of whole copies. *)
Returns(q, p, F) == p \in [0 .. F - 1 -> 0 .. F - 1] /\ \A d \in 0 .. F - 1 : q[p[d]] = d
Undoes(g, f) == \A i \in DOMAIN f : f[i] \in DOMAIN g /\ g[f[i]] = i

LEMMA MovedBack ==
  ASSUME NEW N \in Nat, NEW F \in Nat, NEW n \in Nat,
         NEW p, NEW q, Returns(q, p, F)
  PROVE  Undoes(Moving(q, N, F, n), Moving(p, N, F, n))
<1> SUFFICES ASSUME NEW i \in Cells(N, F, n)
             PROVE  LET j == Moving(p, N, F, n)[i]
                    IN j \in Cells(N, F, n) /\ Moving(q, N, F, n)[j] = i
  BY DEF Undoes, Moving
<1>1. PICK o \in 0 .. N - 1, d \in 0 .. F - 1, r \in 0 .. n - 1 :
        /\ F \in Nat \ {0} /\ n \in Nat \ {0} /\ i = Flat3(o, d, r, F, n)
        /\ o = i \div (n * F) /\ d = (i \div n) % F /\ r = i % n
  <2>1. /\ F \in Nat \ {0} /\ n \in Nat \ {0}
        /\ i \div (n * F) \in 0 .. N - 1 /\ (i \div n) % F \in 0 .. F - 1 /\ i % n \in 0 .. n - 1
        /\ i = Flat3(i \div (n * F), (i \div n) % F, i % n, F, n)
    BY Split3
  <2> QED BY <2>1
<1>2. PICK e \in 0 .. F - 1 : e = p[d] /\ q[e] = d
  BY DEF Returns
<1>3. PICK j \in Cells(N, F, n) : j = Flat3(o, e, r, F, n)
  BY Flat3Below
<1>4. Moving(p, N, F, n)[i] = j
  BY <1>1, <1>2, <1>3 DEF Moving
<1>5. j \div (n * F) = o /\ (j \div n) % F = e /\ j % n = r
  <2>1. F \in Nat \ {0} /\ n \in Nat \ {0} /\ o \in Int
    BY <1>1, SMTT(20)
  <2>2. /\ Flat3(o, e, r, F, n) \div (n * F) = o
        /\ (Flat3(o, e, r, F, n) \div n) % F = e
        /\ Flat3(o, e, r, F, n) % n = r
    BY <2>1, ThreeDigits
  <2> QED BY <1>3, <2>2
<1>6. Moving(q, N, F, n)[j] = i
  BY <1>1, <1>2, <1>5 DEF Moving
<1> QED BY <1>4, <1>6

(* Where a flip, a roll by a shift and a shuffle of g groups of D channels *)
(* send the middle digit.                                                  *)
FlipMap(F) == [d \in 0 .. F - 1 |-> F - 1 - d]
RollMap(shift, F) == [d \in 0 .. F - 1 |-> (d - shift) % F]
ShuffleMap(g, D, C) == [c \in 0 .. C - 1 |-> (c % g) * D + (c \div g)]

LEMMA FlipMoves ==
  ASSUME NEW outer \in Nat, NEW FD \in Nat, NEW inner \in Nat
  PROVE  Copy!FlipKernel(outer, FD, inner) = Moving(FlipMap(FD), outer, FD, inner)
<1>1. ASSUME NEW i \in Cells(outer, FD, inner)
      PROVE  FlipMap(FD)[(i \div inner) % FD] = FD - 1 - ((i \div inner) % FD)
  <2>1. (i \div inner) % FD \in 0 .. FD - 1
    BY Split3
  <2> QED BY <2>1 DEF FlipMap
<1> QED BY <1>1 DEF Copy!FlipKernel, Moving, Cells, Flat3

LEMMA FlippedBack == ASSUME NEW F \in Nat PROVE Returns(FlipMap(F), FlipMap(F), F)
BY DEF Returns, FlipMap

(* C's remainder, brought into 0 .. F - 1. *)
LEMMA Wrapped ==
  ASSUME NEW F \in Nat \ {0}, NEW x \in Int
  PROVE  Copy!Remainder(Copy!Remainder(x, F) + F, F) = x % F
<1>1. CASE x >= 0
  <2>1. PICK q \in Nat, s \in 0 .. F - 1 : q = x \div F /\ s = x % F /\ x = q * F + s
    BY <1>1, DivMod
  <2>2. Copy!Remainder(x, F) = s
    BY <1>1, <2>1 DEF Copy!Remainder, Copy!Quotient
  <2>3. (s + F) \div F = 1
    <3>1. s + F = 1 * F + s
      OBVIOUS
    <3> QED BY <3>1, Digits
  <2>4. Copy!Remainder(s + F, F) = s
    BY <2>3 DEF Copy!Remainder, Copy!Quotient
  <2> QED BY <2>1, <2>2, <2>4
<1>2. CASE x < 0
  <2>1. PICK q \in Nat, s \in 0 .. F - 1 : q = (-x) \div F /\ -x = q * F + s
    <3>1. PICK y \in Nat : y = -x
      BY <1>2
    <3>2. PICK q \in Nat, s \in 0 .. F - 1 : q = y \div F /\ y = q * F + s
      BY DivMod
    <3> QED BY <3>1, <3>2
  <2>2. Copy!Remainder(x, F) = -s
    <3>1. Copy!Remainder(x, F) = x - F * (-q)
      BY <1>2, <2>1 DEF Copy!Remainder, Copy!Quotient
    <3>2. x = -(q * F + s) /\ F * (-q) = -(q * F) /\ q * F \in Nat
      BY <2>1
    <3> QED BY <3>1, <3>2
  <2>3. CASE s = 0
    <3>1. F \div F = 1
      <4>1. F = 1 * F + 0
        OBVIOUS
      <4> QED BY <4>1, Digits
    <3>2. Copy!Remainder(-s + F, F) = 0
      BY <2>3, <3>1 DEF Copy!Remainder, Copy!Quotient
    <3>3. x = (-q) * F + 0
      BY <2>1, <2>3
    <3>4. x % F = 0
      BY <3>3, Digits
    <3> QED BY <2>2, <3>2, <3>4
  <2>4. CASE s # 0
    <3>1. PICK u \in 0 .. F - 1 : u = F - s
      BY <2>4
    <3>2. u \div F = 0
      <4>1. u = 0 * F + u
        OBVIOUS
      <4> QED BY <4>1, Digits
    <3>3. Copy!Remainder(-s + F, F) = u
      BY <3>1, <3>2 DEF Copy!Remainder, Copy!Quotient
    <3>4. x = (-q - 1) * F + u
      BY <2>1, <3>1
    <3>5. x % F = u
      BY <3>4, Digits
    <3> QED BY <2>2, <3>3, <3>5
  <2> QED BY <2>3, <2>4
<1> QED BY <1>1, <1>2

LEMMA RollMoves ==
  ASSUME NEW outer \in Nat, NEW FD \in Nat, NEW inner \in Nat, NEW shift \in Int
  PROVE  Copy!RollKernel(outer, FD, inner, shift) = Moving(RollMap(shift, FD), outer, FD, inner)
<1>1. ASSUME NEW i \in Cells(outer, FD, inner)
      PROVE  RollMap(shift, FD)[(i \div inner) % FD] =
               Copy!Remainder(Copy!Remainder(((i \div inner) % FD) - shift, FD) + FD, FD)
  <2>1. PICK d \in 0 .. FD - 1 : d = (i \div inner) % FD /\ FD \in Nat \ {0}
    BY Split3
  <2>2. d - shift \in Int
    OBVIOUS
  <2> QED BY <2>1, <2>2, Wrapped DEF RollMap
<1> QED BY <1>1 DEF Copy!RollKernel, Moving, Cells, Flat3

LEMMA RolledBack ==
  ASSUME NEW F \in Nat \ {0}, NEW s \in Int, NEW t \in Int, (s + t) % F = 0
  PROVE  Returns(RollMap(t, F), RollMap(s, F), F)
<1> SUFFICES ASSUME NEW d \in 0 .. F - 1
             PROVE  (d - s) % F \in 0 .. F - 1 /\ (((d - s) % F) - t) % F = d
  BY DEF Returns, RollMap
<1>1. PICK x \in Int : x = d - s
  OBVIOUS
<1>2. PICK q \in Int, e \in 0 .. F - 1 : q = x \div F /\ e = x % F /\ x = q * F + e
  BY DivMod
<1>3. PICK y \in Int : y = s + t
  OBVIOUS
<1>4. PICK k \in Int, z \in 0 .. F - 1 : k = y \div F /\ z = y % F /\ y = k * F + z
  BY DivMod
<1>5. e - t = (-k - q) * F + d
  <2>1. k * F \in Int /\ q * F \in Int /\ (-k - q) * F = -(k * F) - q * F
    OBVIOUS
  <2>2. k * F = s + t /\ e = d - s - q * F
    BY <1>1, <1>2, <1>3, <1>4
  <2> QED BY <2>1, <2>2
<1>6. (e - t) % F = d
  <2>1. -k - q \in Int
    OBVIOUS
  <2> QED BY <1>5, <2>1, Digits
<1> QED BY <1>1, <1>2, <1>6

LEMMA ShuffleMoves ==
  ASSUME NEW N \in Nat, NEW g \in Nat \ {0}, NEW D \in Nat, NEW HW \in Nat, NEW C \in Nat, C = D * g
  PROVE  Copy!ChannelShuffleKernel(N, C, HW, g) = Moving(ShuffleMap(g, D, C), N, C, HW)
<1>1. C \div g = D
  <2>1. C = D * g + 0 /\ 0 \in 0 .. g - 1
    OBVIOUS
  <2> QED BY <2>1, Digits
<1>2. ASSUME NEW i \in Cells(N, C, HW)
      PROVE  ShuffleMap(g, D, C)[(i \div HW) % C] =
               (((i \div HW) % C) % g) * D + (((i \div HW) % C) \div g)
  <2>1. (i \div HW) % C \in 0 .. C - 1
    BY Split3
  <2> QED BY <2>1 DEF ShuffleMap
<1> QED BY <1>1, <1>2 DEF Copy!ChannelShuffleKernel, Moving, Cells, Flat3

LEMMA ShuffledBack ==
  ASSUME NEW g \in Nat \ {0}, NEW D \in Nat, NEW C \in Nat, C = D * g
  PROVE  Returns(ShuffleMap(D, g, C), ShuffleMap(g, D, C), C)
<1> SUFFICES ASSUME NEW c \in 0 .. C - 1
             PROVE  LET e == (c % g) * D + (c \div g)
                    IN e \in 0 .. C - 1 /\ (e % D) * g + (e \div D) = c
  BY DEF Returns, ShuffleMap
<1>1. PICK a \in 0 .. D - 1, b \in 0 .. g - 1 : a = c \div g /\ b = c % g /\ c = a * g + b
  <2>1. c \in 0 .. D * g - 1
    OBVIOUS
  <2>2. /\ c \div g \in 0 .. D - 1 /\ c % g \in 0 .. g - 1
        /\ c = (c \div g) * g + (c % g)
    BY <2>1, Split
  <2> QED BY <2>2, Zenon
<1>2. PICK e \in Int : e = b * D + a
  OBVIOUS
<1>3. e \in 0 .. g * D - 1 /\ g * D = C
  BY <1>2, DigitsBelow
<1>4. e \div D = b /\ e % D = a
  <2>1. D \in Nat \ {0} /\ b \in Int
    OBVIOUS
  <2> QED BY <1>2, <2>1, Digits
<1> QED BY <1>1, <1>2, <1>3, <1>4

(* The copies that rearrange a tensor lose no element and duplicate none:  *)
(* a flip is undone by itself, a roll by any shift that completes it to    *)
(* whole turns, and a shuffle of g groups of D by one of D groups of g.    *)
THEOREM CopiesUndone ==
  ASSUME NEW N \in Nat, NEW F \in Nat, NEW n \in Nat
  PROVE  /\ Undoes(Copy!FlipKernel(N, F, n), Copy!FlipKernel(N, F, n))
         /\ \A s, t \in Int : F # 0 /\ (s + t) % F = 0 =>
              Undoes(Copy!RollKernel(N, F, n, t), Copy!RollKernel(N, F, n, s))
         /\ \A g, D \in Nat \ {0} : F = D * g =>
              Undoes(Copy!ChannelShuffleKernel(N, F, n, D), Copy!ChannelShuffleKernel(N, F, n, g))
<1>1. Undoes(Copy!FlipKernel(N, F, n), Copy!FlipKernel(N, F, n))
  BY FlipMoves, FlippedBack, MovedBack
<1>2. ASSUME NEW s \in Int, NEW t \in Int, F # 0, (s + t) % F = 0
      PROVE  Undoes(Copy!RollKernel(N, F, n, t), Copy!RollKernel(N, F, n, s))
  <2>1. Returns(RollMap(t, F), RollMap(s, F), F)
    BY <1>2, RolledBack
  <2>2. /\ Copy!RollKernel(N, F, n, s) = Moving(RollMap(s, F), N, F, n)
        /\ Copy!RollKernel(N, F, n, t) = Moving(RollMap(t, F), N, F, n)
    BY RollMoves
  <2> QED BY <2>1, <2>2, MovedBack
<1>3. ASSUME NEW g \in Nat \ {0}, NEW D \in Nat \ {0}, F = D * g
      PROVE  Undoes(Copy!ChannelShuffleKernel(N, F, n, D), Copy!ChannelShuffleKernel(N, F, n, g))
  <2>1. F = g * D
    BY <1>3
  <2>2. Returns(ShuffleMap(D, g, F), ShuffleMap(g, D, F), F)
    BY <1>3, ShuffledBack
  <2>3. Copy!ChannelShuffleKernel(N, F, n, g) = Moving(ShuffleMap(g, D, F), N, F, n)
    BY <1>3, ShuffleMoves
  <2>4. Copy!ChannelShuffleKernel(N, F, n, D) = Moving(ShuffleMap(D, g, F), N, F, n)
    BY <2>1, ShuffleMoves
  <2> QED BY <2>2, <2>3, <2>4, MovedBack
<1> QED BY <1>1, <1>2, <1>3

(* The row and the column of H by W that k quarter turns bring to y, x. *)
TurnedRow(y, x, H, k) == CASE k = 1 -> x [] k = 2 -> H - 1 - y [] OTHER -> H - 1 - x
TurnedColumn(y, x, W, k) == CASE k = 1 -> W - 1 - y [] k = 2 -> W - 1 - x [] OTHER -> y

Turns(f, N, H, W, oH, oW, k) ==
  \A o \in 0 .. N - 1, y \in 0 .. oH - 1, x \in 0 .. oW - 1 :
    f[Flat3(o, y, x, oH, oW)] = Flat3(o, TurnedRow(y, x, H, k), TurnedColumn(y, x, W, k), H, W)

LEMMA Rot90Reads ==
  ASSUME NEW N \in Nat, NEW H \in Nat, NEW W \in Nat, NEW oH \in Nat, NEW oW \in Nat, NEW k \in 1 .. 3
  PROVE  Turns(Copy!Rot90Kernel(N, H, W, oH, oW, k), N, H, W, oH, oW, k)
<1> SUFFICES ASSUME NEW o \in 0 .. N - 1, NEW y \in 0 .. oH - 1, NEW x \in 0 .. oW - 1
             PROVE  Copy!Rot90Kernel(N, H, W, oH, oW, k)[Flat3(o, y, x, oH, oW)] =
                      Flat3(o, TurnedRow(y, x, H, k), TurnedColumn(y, x, W, k), H, W)
  BY DEF Turns
<1>1. PICK i \in Cells(N, oH, oW) : i = Flat3(o, y, x, oH, oW)
  BY Flat3Below
<1>2. oH \in Nat \ {0} /\ oW \in Nat \ {0} /\ o \in Int /\ oH * oW = oW * oH
  OBVIOUS
<1>3. i \div (oW * oH) = o /\ (i \div oW) % oH = y /\ i % oW = x
  BY <1>1, <1>2, ThreeDigits
<1> QED BY <1>1, <1>2, <1>3 DEF Copy!Rot90Kernel, Cells, Flat3, TurnedRow, TurnedColumn

(* One, two or three quarter turns, for which k_rot90 is launched, are     *)
(* undone by the turns that complete them to a whole one: no element of    *)
(* the planes is lost or duplicated, whatever their extents.  A call for   *)
(* no turn at all launches another copy, and ShapesCompute shows it to     *)
(* leave cells out.                                                        *)
THEOREM TurnsUndone ==
  ASSUME NEW N \in Nat, NEW H \in Nat, NEW W \in Nat, NEW k \in 1 .. 3,
         NEW oH \in Nat, NEW oW \in Nat,
         oH = IF k % 2 = 1 THEN W ELSE H, oW = IF k % 2 = 1 THEN H ELSE W
  PROVE  Undoes(Copy!Rot90Kernel(N, oH, oW, H, W, 4 - k), Copy!Rot90Kernel(N, H, W, oH, oW, k))
<1> DEFINE f == Copy!Rot90Kernel(N, H, W, oH, oW, k)
<1> DEFINE g == Copy!Rot90Kernel(N, oH, oW, H, W, 4 - k)
<1>1. DOMAIN f = Cells(N, oH, oW) /\ DOMAIN g = Cells(N, H, W)
  BY DEF Copy!Rot90Kernel, Cells
<1> SUFFICES ASSUME NEW i \in Cells(N, oH, oW)
             PROVE  f[i] \in Cells(N, H, W) /\ g[f[i]] = i
  BY <1>1 DEF Undoes
<1>2. PICK o \in 0 .. N - 1, y \in 0 .. oH - 1, x \in 0 .. oW - 1 : i = Flat3(o, y, x, oH, oW)
  <2>1. /\ i \div (oW * oH) \in 0 .. N - 1 /\ (i \div oW) % oH \in 0 .. oH - 1 /\ i % oW \in 0 .. oW - 1
        /\ i = Flat3(i \div (oW * oH), (i \div oW) % oH, i % oW, oH, oW)
    BY Split3
  <2> QED BY <2>1
<1>3. PICK l \in 1 .. 3 : l = 4 - k
  OBVIOUS
<1>4. PICK v \in 0 .. H - 1, u \in 0 .. W - 1 :
        /\ v = TurnedRow(y, x, H, k) /\ u = TurnedColumn(y, x, W, k)
        /\ TurnedRow(v, u, oH, l) = y /\ TurnedColumn(v, u, oW, l) = x
  <2>1. /\ TurnedRow(y, x, H, k) \in 0 .. H - 1 /\ TurnedColumn(y, x, W, k) \in 0 .. W - 1
        /\ TurnedRow(TurnedRow(y, x, H, k), TurnedColumn(y, x, W, k), oH, l) = y
        /\ TurnedColumn(TurnedRow(y, x, H, k), TurnedColumn(y, x, W, k), oW, l) = x
    <3>1. CASE k = 1
      BY <1>3, <3>1 DEF TurnedRow, TurnedColumn
    <3>2. CASE k = 2
      BY <1>3, <3>2 DEF TurnedRow, TurnedColumn
    <3>3. CASE k = 3
      BY <1>3, <3>3 DEF TurnedRow, TurnedColumn
    <3> QED BY <3>1, <3>2, <3>3
  <2> QED BY <2>1
<1>5. f[i] = Flat3(o, v, u, H, W)
  <2>1. Turns(f, N, H, W, oH, oW, k)
    BY Rot90Reads
  <2> HIDE DEF f, g
  <2> QED BY <1>2, <1>4, <2>1 DEF Turns
<1>6. g[Flat3(o, v, u, H, W)] = i
  <2>1. Turns(Copy!Rot90Kernel(N, oH, oW, H, W, l), N, oH, oW, H, W, l)
    BY Rot90Reads
  <2>2. Turns(g, N, oH, oW, H, W, l)
    BY <1>3, <2>1
  <2> HIDE DEF f, g
  <2> QED BY <1>2, <1>4, <2>2 DEF Turns
<1> QED BY <1>5, <1>6, Flat3Below

-----------------------------------------------------------------------------
(* Operands of a matrix product, laid out again. *)
Bytes == 0 .. 255
Nibbles == 0 .. 15

LEMMA NibbleIn ==
  ASSUME NEW in, NEW i, in[i \div 2] \in Bytes
  PROVE  Matrix!Nibble(in, i) \in Nibbles
<1>1. PICK b \in Bytes : b = in[i \div 2]
  OBVIOUS
<1>2. b \div 16 \in Nibbles /\ b % 16 \in Nibbles
  BY DEF Bytes, Nibbles
<1> QED BY <1>1, <1>2 DEF Matrix!Nibble

LEMMA Parity ==
  ASSUME NEW K \in Nat, NEW h \in Nat, K = 2 * h, NEW n \in Nat, NEW k \in 0 .. K - 1
  PROVE  /\ K \div 2 = h /\ k \div 2 \in 0 .. h - 1
         /\ (n * K + k) \div 2 = n * h + (k \div 2)
         /\ (n * K + k) % 2 = k % 2
         /\ k = 2 * (k \div 2) + (k % 2) /\ k % 2 \in 0 .. 1
<1>1. PICK p \in Nat, r \in 0 .. 1 : p = k \div 2 /\ r = k % 2 /\ k = p * 2 + r
  <2>1. 2 \in Nat \ {0}
    OBVIOUS
  <2> QED BY <2>1, DivMod
<1>2. K \div 2 = h
  OBVIOUS
<1>3. n * K + k = (n * h + p) * 2 + r
  BY <1>1
<1>4. PICK x \in Nat : x = n * h + p
  OBVIOUS
<1>5. (x * 2 + r) \div 2 = x /\ (x * 2 + r) % 2 = r
  OBVIOUS
<1>6. p \in 0 .. h - 1
  BY <1>1
<1> QED BY <1>1, <1>2, <1>3, <1>4, <1>5, <1>6

(* A transposed byte or nibble is the one that was in its place, the low   *)
(* nibble of a byte first.                                                 *)
THEOREM Transposed ==
  ASSUME NEW K \in Nat, NEW N \in Nat, NEW in,
         NEW k \in 0 .. K - 1, NEW n \in 0 .. N - 1
  PROVE  /\ Matrix!TransposeU8(in, K, N)[n * K + k] = in[k * N + n]
         /\ \A h \in Nat : K = 2 * h /\ (\A i \in 0 .. K * N - 1 : in[i \div 2] \in Bytes) =>
              Matrix!Nibble(Matrix!TransposeFp4(in, K, N), n * K + k) = Matrix!Nibble(in, k * N + n)
<1>1. Matrix!TransposeU8(in, K, N)[n * K + k] = in[k * N + n]
  <2>1. PICK o \in 0 .. N * K - 1 : o = n * K + k
    BY DigitsBelow
  <2>2. K \in Nat \ {0} /\ n \in Int
    OBVIOUS
  <2>3. o \div K = n /\ o % K = k
    BY <2>1, <2>2, Digits
  <2> QED BY <2>1, <2>3 DEF Matrix!TransposeU8
<1>2. ASSUME NEW h \in Nat, K = 2 * h, \A i \in 0 .. K * N - 1 : in[i \div 2] \in Bytes
      PROVE  Matrix!Nibble(Matrix!TransposeFp4(in, K, N), n * K + k) = Matrix!Nibble(in, k * N + n)
  <2> DEFINE out == Matrix!TransposeFp4(in, K, N)
  <2>1. PICK p \in 0 .. h - 1, r \in 0 .. 1 :
          /\ p = k \div 2 /\ r = k % 2 /\ k = 2 * p + r /\ K \div 2 = h
          /\ (n * K + k) \div 2 = n * h + p /\ (n * K + k) % 2 = r
    BY <1>2, Parity
  <2>2. PICK o \in 0 .. N * h - 1 : o = n * h + p
    BY DigitsBelow
  <2>3. o \div h = n /\ o % h = p
    <3>1. h \in Nat \ {0} /\ n \in Int
      OBVIOUS
    <3> QED BY <2>2, <3>1, Digits
  <2>4. PICK lo \in Nibbles, hi \in Nibbles :
          lo = Matrix!Nibble(in, 2 * p * N + n) /\ hi = Matrix!Nibble(in, (2 * p + 1) * N + n)
    <3>1. PICK a \in 0 .. K - 1, b \in 0 .. K - 1 : a = 2 * p /\ b = 2 * p + 1
      <4>1. 2 * p \in 0 .. K - 1 /\ 2 * p + 1 \in 0 .. K - 1
        BY <1>2
      <4> QED BY <4>1
    <3>2. a * N + n \in 0 .. K * N - 1 /\ b * N + n \in 0 .. K * N - 1
      BY DigitsBelow
    <3>3. in[(a * N + n) \div 2] \in Bytes /\ in[(b * N + n) \div 2] \in Bytes
      BY <1>2, <3>2
    <3>4. Matrix!Nibble(in, a * N + n) \in Nibbles /\ Matrix!Nibble(in, b * N + n) \in Nibbles
      BY <3>3, NibbleIn
    <3> QED BY <3>1, <3>4
  <2>5. out[o] = hi * 16 + lo
    BY <2>1, <2>2, <2>3, <2>4 DEF Matrix!TransposeFp4
  <2>6. (hi * 16 + lo) \div 16 = hi /\ (hi * 16 + lo) % 16 = lo
    BY DEF Nibbles
  <2>7. Matrix!Nibble(out, n * K + k) = IF r = 1 THEN hi ELSE lo
    <3> HIDE DEF out
    <3> QED BY <2>1, <2>2, <2>5, <2>6 DEF Matrix!Nibble
  <2>8. k * N + n = IF r = 1 THEN (2 * p + 1) * N + n ELSE 2 * p * N + n
    BY <2>1
  <2> QED BY <2>1, <2>4, <2>7, <2>8
<1> QED BY <1>1, <1>2

-----------------------------------------------------------------------------
(* The scales of a block-scaled product, in the library's tiles. *)
LEMMA OffsetRead ==
  ASSUME NEW rows \in Nat \ {0}, NEW nb \in Nat \ {0}, NEW m \in 0 .. rows - 1, NEW b \in 0 .. nb - 1
  PROVE  /\ Matrix!SwizzleOffset(m, b, nb) \in 0 .. Matrix!SwizzleBytes(rows, nb) - 1
         /\ Matrix!TileRow(Matrix!SwizzleOffset(m, b, nb), nb) = m
         /\ Matrix!TileBlock(Matrix!SwizzleOffset(m, b, nb), nb) = b
<1>1. PICK T \in Nat \ {0} : T = (nb + 4 - 1) \div 4 /\ Matrix!Ru(nb, 4) = T * 4 /\ nb <= T * 4
  BY DEF Matrix!Ru
<1>2. PICK S \in Nat \ {0} : S = (rows + 128 - 1) \div 128 /\ Matrix!Ru(rows, 128) = S * 128 /\ rows <= S * 128
  BY DEF Matrix!Ru
<1>3. Matrix!Ru(nb, 4) \div 4 = T
  BY <1>1
<1>4. PICK M \in 0 .. S - 1, r \in 0 .. 127 : M = m \div 128 /\ r = m % 128 /\ m = M * 128 + r
  <2>1. m \in 0 .. S * 128 - 1
    BY <1>2
  <2> QED BY <2>1, Split
<1>5. PICK c \in 0 .. T - 1, d \in 0 .. 3 : c = b \div 4 /\ d = b % 4 /\ b = c * 4 + d
  <2>1. b \in 0 .. T * 4 - 1
    BY <1>1
  <2> QED BY <2>1, Split
<1>6. PICK tile \in 0 .. S * T - 1 : tile = M * T + c
  BY DigitsBelow
<1>7. tile \div T = M /\ tile % T = c
  BY <1>6, Digits
<1>8. PICK s \in 0 .. 511 : s = (r % 32) * 16 + (r \div 32) * 4 + d
  <2>1. (r % 32) * 16 + (r \div 32) * 4 + d \in 0 .. 511
    OBVIOUS
  <2> QED BY <2>1
<1>9. s % 4 = d /\ s \div 16 = r % 32 /\ (s % 16) \div 4 = r \div 32
  BY <1>8, SMTT(30)
<1>10. PICK p \in Nat : p = tile * 512 + s
  OBVIOUS
<1>11. Matrix!SwizzleOffset(m, b, nb) = p
  <2>1. Matrix!SwizzleOffset(m, b, nb) = (M * T + c) * 512 + (r % 32) * 16 + (r \div 32) * 4 + d
    BY <1>3, <1>4, <1>5 DEF Matrix!SwizzleOffset
  <2>2. tile * 512 + (r % 32) * 16 + (r \div 32) * 4 + d = p
    BY <1>8, <1>10
  <2> QED BY <1>6, <2>1, <2>2
<1>12. p \div 512 = tile /\ p % 512 = s /\ p % 16 = s % 16 /\ p % 4 = s % 4
  BY <1>10
<1>13. Matrix!TileRow(p, nb) = m
  <2>1. Matrix!TileRow(p, nb) = M * 128 + (r \div 32) * 32 + (r % 32)
    <3>1. (p \div 512) \div (Matrix!Ru(nb, 4) \div 4) = M
      BY <1>3, <1>7, <1>12
    <3>2. (p % 16) \div 4 = r \div 32 /\ (p % 512) \div 16 = r % 32
      BY <1>9, <1>12
    <3>3. PICK U, V, X :
            /\ U = (p \div 512) \div (Matrix!Ru(nb, 4) \div 4)
            /\ V = (p % 16) \div 4 /\ X = (p % 512) \div 16
      BY Zenon
    <3>4. Matrix!TileRow(p, nb) = U * 128 + V * 32 + X
      BY <3>3 DEF Matrix!TileRow
    <3>5. U = M /\ V = r \div 32 /\ X = r % 32
      BY <3>1, <3>2, <3>3, Zenon
    <3> QED BY <3>4, <3>5
  <2>2. r = (r \div 32) * 32 + (r % 32)
    OBVIOUS
  <2> QED BY <1>4, <2>1, <2>2
<1>14. Matrix!TileBlock(p, nb) = b
  <2>1. PICK U, V : U = (p \div 512) % (Matrix!Ru(nb, 4) \div 4) /\ V = p % 4
    BY Zenon
  <2>2. Matrix!TileBlock(p, nb) = U * 4 + V
    BY <2>1, Zenon DEF Matrix!TileBlock
  <2>3. U = c
    <3>1. U = tile % T
      BY <1>3, <1>12, <2>1, Zenon
    <3> QED BY <1>7, <3>1, Zenon
  <2>4. V = d
    <3>1. V = s % 4
      BY <1>12, <2>1, Zenon
    <3> QED BY <1>9, <3>1, Zenon
  <2> QED BY <1>5, <2>2, <2>3, <2>4
<1>15. p \in 0 .. Matrix!SwizzleBytes(rows, nb) - 1
  <2>1. PICK X \in Nat : X = S * T
    OBVIOUS
  <2>2. (S * 128) * (T * 4) = X * 512
    BY <2>1
  <2>3. p < X * 512
    BY <1>6, <1>10, <2>1
  <2> QED BY <1>1, <1>2, <2>2, <2>3 DEF Matrix!SwizzleBytes
<1> QED BY <1>11, <1>13, <1>14, <1>15

LEMMA ScaleWrites ==
  ASSUME NEW rows \in Nat \ {0}, NEW nb \in Nat \ {0}, NEW in, NEW colmajor \in BOOLEAN,
         NEW m \in 0 .. rows - 1, NEW b \in 0 .. nb - 1,
         NEW v, v = IF colmajor THEN in[b * rows + m] ELSE in[m * nb + b],
         NEW cells, cells = Matrix!SwizzleScale(in, rows, nb, colmajor)
  PROVE  /\ <<Matrix!SwizzleOffset(m, b, nb), v>> \in cells
         /\ \A w \in cells : Matrix!TileRow(w[1], nb) = m /\ Matrix!TileBlock(w[1], nb) = b =>
              w = <<Matrix!SwizzleOffset(m, b, nb), v>>
<1>1. PICK t \in 0 .. rows * nb - 1 : t = m * nb + b
  BY DigitsBelow
<1>2. t \div nb = m /\ t % nb = b
  <2>1. m \in Int
    OBVIOUS
  <2> QED BY <1>1, <2>1, Digits
<1>3. <<Matrix!SwizzleOffset(m, b, nb), v>> \in cells
  BY <1>1, <1>2 DEF Matrix!SwizzleScale
<1>4. ASSUME NEW w \in cells, Matrix!TileRow(w[1], nb) = m, Matrix!TileBlock(w[1], nb) = b
      PROVE  w = <<Matrix!SwizzleOffset(m, b, nb), v>>
  <2>1. PICK u \in 0 .. rows * nb - 1 :
          w = <<Matrix!SwizzleOffset(u \div nb, u % nb, nb),
                IF colmajor THEN in[(u % nb) * rows + u \div nb] ELSE in[u]>>
    BY DEF Matrix!SwizzleScale
  <2>2. PICK M \in 0 .. rows - 1, c \in 0 .. nb - 1 : M = u \div nb /\ c = u % nb /\ u = M * nb + c
    <3>1. /\ u \div nb \in 0 .. rows - 1 /\ u % nb \in 0 .. nb - 1
          /\ u = (u \div nb) * nb + (u % nb)
      BY Split
    <3> QED BY <3>1
  <2>3. Matrix!TileRow(w[1], nb) = M /\ Matrix!TileBlock(w[1], nb) = c
    <3>1. /\ Matrix!TileRow(Matrix!SwizzleOffset(M, c, nb), nb) = M
          /\ Matrix!TileBlock(Matrix!SwizzleOffset(M, c, nb), nb) = c
      BY OffsetRead
    <3>2. w[1] = Matrix!SwizzleOffset(M, c, nb)
      BY <2>1, <2>2
    <3> QED BY <3>1, <3>2
  <2> QED BY <1>4, <1>1, <2>1, <2>2, <2>3
<1> QED BY <1>3, <1>4

(* k_swizzle_scale (cuda/src/ops/matmul.cu:75) against the library that  *)
(* reads its tiles, for any number of rows and blocks, row-major or not:   *)
(* where the library looks for the scale of a row and a block there is     *)
(* one byte, within what was allocated, and it is that row's and block's.  *)
THEOREM ScalesRead ==
  ASSUME NEW rows \in Nat \ {0}, NEW nb \in Nat \ {0}, NEW in, NEW colmajor \in BOOLEAN,
         NEW m \in 0 .. rows - 1, NEW b \in 0 .. nb - 1
  PROVE  Matrix!ReadScale(Matrix!SwizzleScale(in, rows, nb, colmajor), m, b, nb, Matrix!SwizzleBytes(rows, nb)) =
           IF colmajor THEN in[b * rows + m] ELSE in[m * nb + b]
<1>1. PICK v : v = IF colmajor THEN in[b * rows + m] ELSE in[m * nb + b]
  OBVIOUS
<1>2. PICK cells : cells = Matrix!SwizzleScale(in, rows, nb, colmajor)
  OBVIOUS
<1>3. PICK p, bytes : p = Matrix!SwizzleOffset(m, b, nb) /\ bytes = Matrix!SwizzleBytes(rows, nb)
  OBVIOUS
<1>4. p < bytes /\ Matrix!TileRow(p, nb) = m /\ Matrix!TileBlock(p, nb) = b
  BY <1>3, OffsetRead DEF Matrix!SwizzleBytes, Matrix!Ru
<1>5. /\ <<p, v>> \in cells
      /\ \A w \in cells : Matrix!TileRow(w[1], nb) = m /\ Matrix!TileBlock(w[1], nb) = b => w = <<p, v>>
  BY <1>1, <1>2, <1>3, ScaleWrites
<1>6. {c \in cells : Matrix!TileRow(c[1], nb) = m /\ Matrix!TileBlock(c[1], nb) = b /\ c[1] < bytes} = {<<p, v>>}
  BY <1>4, <1>5
<1>7. Matrix!Cardinality({<<p, v>>}) = 1
  <2>1. Cardinality({<<p, v>>}) = 1
    BY FS_Singleton
  <2>2. Matrix!Cardinality({<<p, v>>}) = Cardinality({<<p, v>>})
    BY DEF Matrix!Cardinality, Cardinality
  <2> QED BY <2>1, <2>2
<1>8. Matrix!ReadScale(cells, m, b, nb, bytes) = v
  <2> DEFINE here == {c \in cells : Matrix!TileRow(c[1], nb) = m /\ Matrix!TileBlock(c[1], nb) = b /\ c[1] < bytes}
  <2>1. Matrix!ReadScale(cells, m, b, nb, bytes) =
          IF Matrix!Cardinality(here) = 1 THEN (CHOOSE c \in here : TRUE)[2] ELSE 0
    BY DEF Matrix!ReadScale
  <2>2. here = {<<p, v>>} /\ Matrix!Cardinality(here) = 1
    BY <1>6, <1>7
  <2> HIDE DEF here
  <2>3. (CHOOSE c \in here : TRUE) = <<p, v>>
    BY <2>2
  <2> QED BY <2>1, <2>2, <2>3
<1> QED BY <1>1, <1>2, <1>3, <1>8

(* An exponent byte within the powers of two E4M3 has. *)
Clamped(e8) == IF e8 < 121 THEN -6 ELSE IF e8 > 135 THEN 8 ELSE e8 - 127

(* E8M0 scales for a type that takes E4M3 scales of half the block         *)
(* (k_e8m0_to_e4m3_A and _B): an exponent within -6 .. 8 is kept, one       *)
(* beyond is clamped, the byte is never the zero scale, and both halves of *)
(* a block get the scale of their block, in A's layout and in B's.         *)
THEOREM ScalesNarrowed ==
  ASSUME NEW rows \in Nat, NEW nb \in Nat, NEW in,
         NEW m \in 0 .. rows - 1, NEW b \in 0 .. nb - 1, NEW h \in 0 .. 1,
         NEW e8 \in Bytes
  PROVE  /\ Matrix!E8m0ToE4m3Pow2(e8) = (Clamped(e8) + 7) * 8
         /\ Clamped(e8) + 7 \in 1 .. 15
         /\ Matrix!E8m0ToE4m3A(in, rows, nb)[m * (2 * nb) + (2 * b + h)] = Matrix!E8m0ToE4m3Pow2(in[m * nb + b])
         /\ Matrix!E8m0ToE4m3B(in, nb, rows)[(2 * b + h) * rows + m] = Matrix!E8m0ToE4m3Pow2(in[b * rows + m])
<1>1. /\ Matrix!E8m0ToE4m3Pow2(e8) = (Clamped(e8) + 7) * 8
      /\ Clamped(e8) + 7 \in 1 .. 15
  BY DEF Bytes, Clamped, Matrix!E8m0ToE4m3Pow2
<1>2. PICK nb2 \in Nat : nb2 = 2 * nb
  OBVIOUS
<1>5. PICK c \in 0 .. nb2 - 1 : c = 2 * b + h /\ c \div 2 = b
  <2>1. 2 * b + h \in 0 .. nb2 - 1 /\ (2 * b + h) \div 2 = b
    BY <1>2
  <2> QED BY <2>1
<1>3. Matrix!E8m0ToE4m3A(in, rows, nb)[m * nb2 + c] = Matrix!E8m0ToE4m3Pow2(in[m * nb + b])
  <2>1. PICK o \in 0 .. rows * nb2 - 1 : o = m * nb2 + c
    BY DigitsBelow
  <2>2. nb2 \in Nat \ {0} /\ m \in Int
    OBVIOUS
  <2>3. o \div nb2 = m /\ o % nb2 = c
    BY <2>1, <2>2, Digits
  <2>4. rows * nb * 2 = rows * nb2
    BY <1>2
  <2> QED BY <1>2, <1>5, <2>1, <2>3, <2>4 DEF Matrix!E8m0ToE4m3A
<1>4. Matrix!E8m0ToE4m3B(in, nb, rows)[c * rows + m] = Matrix!E8m0ToE4m3Pow2(in[b * rows + m])
  <2>1. PICK o \in 0 .. nb2 * rows - 1 : o = c * rows + m
    BY DigitsBelow
  <2>2. rows \in Nat \ {0} /\ c \in Int
    OBVIOUS
  <2>3. o \div rows = c /\ o % rows = m
    BY <2>1, <2>2, Digits
  <2>4. nb * 2 * rows = nb2 * rows
    BY <1>2
  <2> QED BY <1>2, <1>5, <2>1, <2>3, <2>4 DEF Matrix!E8m0ToE4m3B
<1> QED BY <1>1, <1>2, <1>3, <1>4, <1>5

-----------------------------------------------------------------------------
(* Padding by reflection, as often as it takes. *)
Mirrored(y, n) == IF y >= n THEN 2 * (n - 1) - y ELSE y
Away(x) == IF x < 0 THEN -x ELSE x
Reflects(f, n) == f = [x \in Int |-> IF x \in 0 .. n - 1 THEN x ELSE f[Mirrored(Away(x), n)]]

LEMMA ReflectIs ==
  ASSUME NEW x0 \in Int, NEW n \in Nat, n # 0, n # 1
  PROVE  Window!Fix("reflect", x0, n) = (CHOOSE f : Reflects(f, n))[x0]
BY DEF Window!Fix, Reflects, Mirrored, Away

(* The reflections of a place x: the remainders by a period, either way. *)
Wave(x, n) ==
  LET r == x % (2 * (n - 1)) IN IF r < n THEN r ELSE 2 * (n - 1) - r

LEMMA WaveFolds ==
  ASSUME NEW x \in Int, NEW n \in Nat, n # 0, n # 1
  PROVE  /\ x \in 0 .. n - 1 => Wave(x, n) = x
         /\ Wave(-x, n) = Wave(x, n)
         /\ Wave(2 * (n - 1) - x, n) = Wave(x, n)
<1>1. PICK P \in Nat \ {0} : P = 2 * (n - 1)
  OBVIOUS
<1>2. PICK q \in Int, r \in 0 .. P - 1 : q = x \div P /\ r = x % P /\ x = q * P + r
  BY DivMod
<1>3. x \in 0 .. n - 1 => Wave(x, n) = x
  <2>1. SUFFICES ASSUME x \in 0 .. n - 1 PROVE Wave(x, n) = x
    OBVIOUS
  <2>2. x = 0 * P + x /\ x \in 0 .. P - 1
    BY <1>1, <2>1
  <2>3. x % P = x
    BY <2>2, Digits
  <2> QED BY <1>1, <2>1, <2>3 DEF Wave
<1>4. Wave(x, n) = IF r < n THEN r ELSE P - r
  BY <1>1, <1>2 DEF Wave
<1>5. PICK s \in 0 .. P - 1 : s = IF r = 0 THEN 0 ELSE P - r
  <2>1. (IF r = 0 THEN 0 ELSE P - r) \in 0 .. P - 1
    OBVIOUS
  <2> QED BY <2>1
<1>6. (-x) % P = s
  <2>1. PICK y \in Int, k \in Int :
          y = -x /\ k = IF r = 0 THEN -q ELSE -q - 1
    OBVIOUS
  <2>2. y = k * P + s
    <3>1. CASE r = 0
      BY <1>2, <1>5, <2>1, <3>1
    <3>2. CASE r # 0
      BY <1>2, <1>5, <2>1, <3>2
    <3> QED BY <3>1, <3>2
  <2>3. y % P = s
    BY <2>2, Digits
  <2> QED BY <2>1, <2>3
<1>7. (P - x) % P = s
  <2>1. PICK y \in Int, k \in Int :
          y = P - x /\ k = IF r = 0 THEN 1 - q ELSE -q
    OBVIOUS
  <2>2. y = k * P + s
    <3>1. CASE r = 0
      BY <1>2, <1>5, <2>1, <3>1
    <3>2. CASE r # 0
      BY <1>2, <1>5, <2>1, <3>2
    <3> QED BY <3>1, <3>2
  <2>3. y % P = s
    BY <2>2, Digits
  <2> QED BY <2>1, <2>3
<1>8. (IF s < n THEN s ELSE P - s) = IF r < n THEN r ELSE P - r
  BY <1>1, <1>5
<1>9. /\ Wave(-x, n) = IF s < n THEN s ELSE P - s
      /\ Wave(2 * (n - 1) - x, n) = IF s < n THEN s ELSE P - s
  BY <1>1, <1>6, <1>7 DEF Wave
<1> QED BY <1>3, <1>4, <1>8, <1>9

LEMMA WaveInside ==
  ASSUME NEW x \in Int, NEW n \in Nat, n # 0, n # 1
  PROVE  Wave(x, n) \in 0 .. n - 1
<1>1. PICK P \in Nat \ {0} : P = 2 * (n - 1)
  OBVIOUS
<1>2. PICK r \in 0 .. P - 1 : r = x % P
  BY DivMod
<1> QED BY <1>1, <1>2 DEF Wave

(* A mirrored place has the same wave, and lies inside or nearer.          *)
LEMMA MirrorApproaches ==
  ASSUME NEW x \in Int, NEW n \in Nat, n # 0, n # 1, x \notin 0 .. n - 1
  PROVE  /\ Mirrored(Away(x), n) \in Int
         /\ Wave(Mirrored(Away(x), n), n) = Wave(x, n)
         /\ \/ Mirrored(Away(x), n) \in 0 .. n - 1
            \/ Away(Mirrored(Away(x), n)) < Away(x)
<1>1. PICK y \in Nat : y = Away(x)
  BY DEF Away
<1>2. PICK z \in Int : z = Mirrored(y, n) /\ z = IF y >= n THEN 2 * (n - 1) - y ELSE y
  <2>1. (IF y >= n THEN 2 * (n - 1) - y ELSE y) \in Int
    OBVIOUS
  <2> QED BY <2>1 DEF Mirrored
<1>3. Wave(y, n) = Wave(x, n)
  BY <1>1, WaveFolds DEF Away
<1>4. Wave(z, n) = Wave(y, n)
  <2>1. Wave(2 * (n - 1) - y, n) = Wave(y, n)
    BY WaveFolds
  <2> QED BY <1>2, <2>1, Zenon
<1>5. z \in 0 .. n - 1 \/ Away(z) < y
  BY <1>1, <1>2 DEF Away
<1> QED BY <1>1, <1>2, <1>3, <1>4, <1>5

LEMMA WaveReflects ==
  ASSUME NEW n \in Nat, n # 0, n # 1
  PROVE  Reflects([x \in Int |-> Wave(x, n)], n)
<1> DEFINE f == [x \in Int |-> Wave(x, n)]
<1>1. ASSUME NEW x \in Int
      PROVE  f[x] = IF x \in 0 .. n - 1 THEN x ELSE f[Mirrored(Away(x), n)]
  <2>1. CASE x \in 0 .. n - 1
    BY <2>1, WaveFolds
  <2>2. CASE x \notin 0 .. n - 1
    BY <2>2, MirrorApproaches
  <2> QED BY <2>1, <2>2
<1> HIDE DEF f
<1>2. f = [x \in Int |-> f[x]]
  BY DEF f
<1> QED BY <1>1, <1>2 DEF Reflects, f

LEMMA OnlyWave ==
  ASSUME NEW n \in Nat, n # 0, n # 1, NEW f, Reflects(f, n), NEW x0 \in Int
  PROVE  f[x0] = Wave(x0, n)
<1> SUFFICES ASSUME f[x0] # Wave(x0, n) PROVE FALSE
  OBVIOUS
<1>1. \A x \in Int : f[x] = IF x \in 0 .. n - 1 THEN x ELSE f[Mirrored(Away(x), n)]
  BY Zenon DEF Reflects
<1> DEFINE Bad == {k \in Nat : \E x \in Int : f[x] # Wave(x, n) /\ k = Away(x)}
<1>2. Away(x0) \in Bad /\ Bad \in SUBSET Nat
  BY DEF Away
<1>3. PICK k \in Bad : \A j \in Bad : k <= j
  BY <1>2, Least
<1>4. PICK x \in Int : f[x] # Wave(x, n) /\ k = Away(x)
  BY <1>3
<1>5. x \notin 0 .. n - 1
  BY <1>1, <1>4, WaveFolds
<1>6. PICK z \in Int : z = Mirrored(Away(x), n) /\ Wave(z, n) = Wave(x, n)
                       /\ (z \in 0 .. n - 1 \/ Away(z) < Away(x))
  BY <1>5, MirrorApproaches
<1>7. f[x] = f[z]
  BY <1>1, <1>5, <1>6
<1>8. CASE z \in 0 .. n - 1
  <2>1. f[z] = z /\ Wave(z, n) = z
    BY <1>1, <1>8, WaveFolds
  <2> QED BY <1>4, <1>6, <1>7, <2>1
<1>9. CASE Away(z) < Away(x)
  <2>1. Away(z) \in Bad /\ Away(z) \in Int /\ k \in Int
    BY <1>4, <1>6, <1>7 DEF Away
  <2> QED BY <1>3, <1>4, <1>9, <2>1
<1> QED BY <1>6, <1>8, <1>9

(* The three boundary modes of padding (bfix): for any plane side and any  *)
(* distance outside it, the cell that is read lies inside the plane;       *)
(* circular padding reads the place modulo the side, and reflection, which *)
(* loops until the place lies inside, ends on the triangle wave of period  *)
(* 2 (n - 1), however many times the padding is wider than the plane.      *)
THEOREM PaddingInside ==
  ASSUME NEW n \in Nat \ {0}, NEW x \in Int
  PROVE  /\ Window!Fix("replicate", x, n) \in 0 .. n - 1
         /\ Window!Fix("circular", x, n) = x % n
         /\ Window!Fix("circular", x, n) \in 0 .. n - 1
         /\ Window!Fix("reflect", x, n) \in 0 .. n - 1
         /\ n # 1 => Window!Fix("reflect", x, n) = Wave(x, n)
         /\ \A mode \in {"replicate", "circular", "reflect"} :
              x \in 0 .. n - 1 => Window!Fix(mode, x, n) = x
<1>1. /\ Window!Fix("replicate", x, n) \in 0 .. n - 1
      /\ x \in 0 .. n - 1 => Window!Fix("replicate", x, n) = x
  BY DEF Window!Fix
<1>2. Window!Fix("circular", x, n) = x % n
  <2>1. Window!Fix("circular", x, n) = Window!Remainder(Window!Remainder(x, n) + n, n)
    BY DEF Window!Fix
  <2>2. Window!Remainder(Window!Remainder(x, n) + n, n) = Copy!Remainder(Copy!Remainder(x, n) + n, n)
    BY DEF Window!Remainder, Window!Quotient, Copy!Remainder, Copy!Quotient
  <2> QED BY <2>1, <2>2, Wrapped
<1>3. x % n \in 0 .. n - 1 /\ (x \in 0 .. n - 1 => x % n = x)
  <2>1. x % n \in 0 .. n - 1
    BY DivMod
  <2>2. ASSUME x \in 0 .. n - 1 PROVE x % n = x
    <3>1. x = 0 * n + x
      OBVIOUS
    <3> QED BY <2>2, <3>1, Digits
  <2> QED BY <2>1, <2>2
<1>4. CASE n = 1
  <2>1. Window!Fix("reflect", x, n) = 0
    BY <1>4 DEF Window!Fix
  <2> QED BY <1>1, <1>2, <1>3, <1>4, <2>1
<1>5. CASE n # 1
  <2>1. PICK f : Reflects(f, n) /\ f = CHOOSE g : Reflects(g, n)
    BY <1>5, WaveReflects
  <2>2. Window!Fix("reflect", x, n) = f[x]
    BY <1>5, <2>1, ReflectIs
  <2>3. f[x] = Wave(x, n)
    BY <1>5, <2>1, OnlyWave
  <2>4. Wave(x, n) \in 0 .. n - 1 /\ (x \in 0 .. n - 1 => Wave(x, n) = x)
    BY <1>5, WaveInside, WaveFolds
  <2> QED BY <1>1, <1>2, <1>3, <2>2, <2>3, <2>4
<1> QED BY <1>4, <1>5

(* C's remainder lies within the divisor, on the dividend's side. *)
LEMMA RemainderWithin ==
  ASSUME NEW n \in Nat \ {0}, NEW x \in Int
  PROVE  Window!Remainder(x, n) \in -(n - 1) .. n - 1
<1>1. CASE x >= 0
  <2>1. PICK q \in Nat, s \in 0 .. n - 1 : q = x \div n /\ x = q * n + s
    BY <1>1, DivMod
  <2>2. Window!Remainder(x, n) = s
    BY <1>1, <2>1 DEF Window!Remainder, Window!Quotient
  <2> QED BY <2>2
<1>2. CASE x < 0
  <2>1. PICK y \in Nat : y = -x
    BY <1>2
  <2>2. PICK q \in Nat, s \in 0 .. n - 1 : q = y \div n /\ y = q * n + s
    BY DivMod
  <2>3. Window!Remainder(x, n) = x - n * (-q)
    BY <1>2, <2>1, <2>2 DEF Window!Remainder, Window!Quotient
  <2>4. x = -(q * n + s) /\ n * (-q) = -(q * n) /\ q * n \in Nat
    BY <2>1, <2>2
  <2>5. Window!Remainder(x, n) = -s
    BY <2>3, <2>4
  <2> QED BY <2>5
<1> QED BY <1>1, <1>2

(* One correction brings it to the place of circular padding. *)
LEMMA CorrectedOnce ==
  ASSUME NEW n \in Nat \ {0}, NEW x \in Int
  PROVE  x % n = IF Window!Remainder(x, n) < 0 THEN Window!Remainder(x, n) + n ELSE Window!Remainder(x, n)
<1>1. PICK a \in -(n - 1) .. n - 1 : a = Window!Remainder(x, n)
  BY RemainderWithin
<1>2. PICK m \in Nat : m = a + n
  <2>1. a + n \in Nat
    OBVIOUS
  <2> QED BY <2>1
<1>3. x % n = Window!Remainder(m, n)
  <2>1. Window!Remainder(Window!Remainder(x, n) + n, n) = Copy!Remainder(Copy!Remainder(x, n) + n, n)
    BY DEF Window!Remainder, Window!Quotient, Copy!Remainder, Copy!Quotient
  <2> QED BY <1>1, <1>2, <2>1, Wrapped
<1>4. CASE a < 0
  <2>1. m = 0 * n + m /\ m \in 0 .. n - 1
    BY <1>2, <1>4
  <2>2. m \div n = 0
    BY <2>1, Digits
  <2>3. Window!Remainder(m, n) = m
    BY <2>2 DEF Window!Remainder, Window!Quotient
  <2> QED BY <1>1, <1>2, <1>3, <1>4, <2>3
<1>5. CASE a >= 0
  <2>1. m = 1 * n + a /\ a \in 0 .. n - 1
    BY <1>2, <1>5
  <2>2. m \div n = 1
    BY <2>1, Digits
  <2>3. Window!Remainder(m, n) = a
    BY <1>2, <2>2 DEF Window!Remainder, Window!Quotient
  <2> QED BY <1>1, <1>3, <1>5, <2>3
<1> QED BY <1>4, <1>5

(* The gradient of padding (padsrc) gives each gradient back to the cell   *)
(* the forward operator read (bfix): by replication and circular padding   *)
(* for any padding, by reflection while the padding is narrower than the   *)
(* plane, for the gradient reflects once where the forward reflects until  *)
(* the place lies inside.                                                  *)
THEOREM PaddingGradientsLand ==
  ASSUME NEW n \in Nat \ {0}, NEW o \in Int, NEW before \in Int
  PROVE  /\ \A mode \in {"replicate", "circular"} :
              Window!PadSource(o, n, before, mode) = Window!Fix(mode, o - before, n)
         /\ o - before \in -(n - 1) .. 2 * (n - 1) =>
              Window!PadSource(o, n, before, "reflect") = Window!Fix("reflect", o - before, n)
<1>1. PICK x \in Int : x = o - before
  OBVIOUS
<1>2. Window!PadSource(o, n, before, "replicate") = Window!Fix("replicate", x, n)
  BY <1>1 DEF Window!PadSource, Window!Fix
<1>3. Window!PadSource(o, n, before, "circular") = Window!Fix("circular", x, n)
  <2>1. Window!PadSource(o, n, before, "circular") =
          IF Window!Remainder(x, n) < 0 THEN Window!Remainder(x, n) + n ELSE Window!Remainder(x, n)
    BY <1>1 DEF Window!PadSource
  <2>2. Window!Fix("circular", x, n) = x % n
    BY PaddingInside
  <2> QED BY <2>1, <2>2, CorrectedOnce
<1>4. ASSUME x \in -(n - 1) .. 2 * (n - 1)
      PROVE  Window!PadSource(o, n, before, "reflect") = Window!Fix("reflect", x, n)
  <2>1. PICK a \in Nat : a = IF x < 0 THEN -x ELSE x
    <3>1. (IF x < 0 THEN -x ELSE x) \in Nat
      OBVIOUS
    <3> QED BY <3>1
  <2>2. PICK y \in 0 .. n - 1 : y = IF a >= n THEN 2 * (n - 1) - a ELSE a
    <3>1. (IF a >= n THEN 2 * (n - 1) - a ELSE a) \in 0 .. n - 1
      BY <1>4, <2>1
    <3> QED BY <3>1
  <2>3. Window!PadSource(o, n, before, "reflect") = y
    BY <1>1, <2>1, <2>2 DEF Window!PadSource
  <2>4. Window!Fix("reflect", x, n) = y
    <3>1. CASE n = 1
      <4>1. Window!Fix("reflect", x, n) \in 0 .. n - 1
        BY PaddingInside
      <4> QED BY <2>2, <3>1, <4>1
    <3>2. CASE n # 1
      <4>1. Window!Fix("reflect", x, n) = Wave(x, n)
        BY <3>2, PaddingInside
      <4>2. Wave(a, n) = Wave(x, n) /\ Wave(2 * (n - 1) - a, n) = Wave(a, n)
        BY <2>1, <3>2, WaveFolds
      <4>3. Wave(y, n) = Wave(a, n)
        BY <2>2, <4>2
      <4>4. Wave(y, n) = y
        BY <3>2, WaveFolds
      <4> QED BY <4>1, <4>2, <4>3, <4>4
    <3> QED BY <3>1, <3>2
  <2> QED BY <2>3, <2>4
<1> QED BY <1>1, <1>2, <1>3, <1>4

-----------------------------------------------------------------------------
(* Diagonals of a matrix. *)
LEMMA DiagonalWithin ==
  ASSUME NEW M \in Nat, NEW N \in Nat, NEW offset \in Int, NEW i \in 0 .. Index!DiagonalLen(M, N, offset) - 1
  PROVE  Index!RowOffset(offset) + i \in 0 .. M - 1 /\ Index!ColOffset(offset) + i \in 0 .. N - 1
BY DEF Index!DiagonalLen, Index!RowOffset, Index!ColOffset

LEMMA DiagonalCell ==
  ASSUME NEW M \in Nat, NEW N \in Nat, NEW offset \in Int, NEW i \in 0 .. Index!DiagonalLen(M, N, offset) - 1
  PROVE  (Index!RowOffset(offset) + i) * N + (Index!ColOffset(offset) + i) \in 0 .. M * N - 1
<1>1. PICK r \in 0 .. M - 1, c \in 0 .. N - 1 :
        r = Index!RowOffset(offset) + i /\ c = Index!ColOffset(offset) + i
  BY DiagonalWithin
<1> QED BY <1>1, DigitsBelow

LEMMA DiagonalDistinct ==
  ASSUME NEW S \in Nat, NEW a \in Nat, NEW b \in Nat, NEW i \in Nat, NEW j \in Nat,
         b + i < S, b + j < S, (a + i) * S + (b + i) = (a + j) * S + (b + j)
  PROVE  i = j
<1>1. PICK x \in Nat, u \in 0 .. S - 1, y \in Nat, v \in 0 .. S - 1 :
        x = a + i /\ u = b + i /\ y = a + j /\ v = b + j
  OBVIOUS
<1>2. (x * S + u) % S = u /\ (y * S + v) % S = v
  <2>1. S \in Nat \ {0} /\ x \in Int /\ y \in Int
    BY <1>1
  <2> QED BY <2>1, Digits
<1> QED BY <1>1, <1>2

(* Diagonals read from a matrix (aclnnDiagonal, an offset of either sign)  *)
(* and written to one (k_diagflat_set): the cells of a diagonal lie within *)
(* the matrix, whatever its sides and its offset, and the diagonal of the  *)
(* square made of a list is that list.                                     *)
THEOREM DiagonalsReturn ==
  ASSUME NEW offset \in Int
  PROVE  /\ \A M, N \in Nat : \A i \in 0 .. Index!DiagonalLen(M, N, offset) - 1 :
              Index!Diagonal(N, offset, Index!DiagonalLen(M, N, offset))[i] \in 0 .. M * N - 1
         /\ \A L, S \in Nat : Index!DiagFlatAccepts(L, offset, <<S, S>>) =>
              /\ Index!DiagonalLen(S, S, offset) = L
              /\ \A i \in 0 .. L - 1 :
                   Index!DiagFlat(L, offset, S)[Index!Diagonal(S, offset, L)[i]] = i
<1>1. ASSUME NEW M \in Nat, NEW N \in Nat, NEW i \in 0 .. Index!DiagonalLen(M, N, offset) - 1
      PROVE  Index!Diagonal(N, offset, Index!DiagonalLen(M, N, offset))[i] \in 0 .. M * N - 1
  BY DiagonalCell DEF Index!Diagonal
<1>2. ASSUME NEW L \in Nat, NEW S \in Nat, Index!DiagFlatAccepts(L, offset, <<S, S>>)
      PROVE  /\ Index!DiagonalLen(S, S, offset) = L
             /\ \A i \in 0 .. L - 1 :
                  Index!DiagFlat(L, offset, S)[Index!Diagonal(S, offset, L)[i]] = i
  <2>1. S = L + (IF offset < 0 THEN -offset ELSE offset)
    BY <1>2 DEF Index!DiagFlatAccepts
  <2>2. PICK a \in Nat, b \in Nat : /\ a = Index!RowOffset(offset) /\ b = Index!ColOffset(offset)
                                    /\ a + L <= S /\ b + L <= S /\ (a + L = S \/ b + L = S)
    <3>1. /\ Index!RowOffset(offset) \in Nat /\ Index!ColOffset(offset) \in Nat
          /\ Index!RowOffset(offset) + L <= S /\ Index!ColOffset(offset) + L <= S
          /\ (Index!RowOffset(offset) + L = S \/ Index!ColOffset(offset) + L = S)
      BY <2>1 DEF Index!RowOffset, Index!ColOffset
    <3> QED BY <3>1
  <2>3. Index!DiagonalLen(S, S, offset) = L
    BY <2>2 DEF Index!DiagonalLen
  <2>4. ASSUME NEW i \in 0 .. L - 1
        PROVE  Index!DiagFlat(L, offset, S)[Index!Diagonal(S, offset, L)[i]] = i
    <3>1. PICK p \in 0 .. S * S - 1 : p = (a + i) * S + (b + i)
      BY <2>2, <2>3, DiagonalCell
    <3>2. Index!Diagonal(S, offset, L)[i] = p
      BY <2>2, <3>1 DEF Index!Diagonal
    <3>3. \A j \in 0 .. L - 1 : (a + j) * S + (b + j) = p => j = i
      <4>1. SUFFICES ASSUME NEW j \in 0 .. L - 1, (a + j) * S + (b + j) = p PROVE j = i
        OBVIOUS
      <4>2. j \in Nat /\ i \in Nat /\ b + i < S /\ b + j < S
        BY <2>2
      <4>3. (a + j) * S + (b + j) = (a + i) * S + (b + i)
        BY <3>1, <4>1
      <4> QED BY <4>2, <4>3, DiagonalDistinct
    <3>4. Index!DiagFlat(L, offset, S)[p] =
            IF \E j \in 0 .. L - 1 : (a + j) * S + (b + j) = p
            THEN CHOOSE j \in 0 .. L - 1 : (a + j) * S + (b + j) = p ELSE Index!Filled
      BY <2>2 DEF Index!DiagFlat
    <3>5. (CHOOSE j \in 0 .. L - 1 : (a + j) * S + (b + j) = p) = i
      <4> DEFINE Here(j) == j \in 0 .. L - 1 /\ (a + j) * S + (b + j) = p
      <4>1. Here(i) /\ \A j : Here(j) => j = i
        BY <3>1, <3>3
      <4> HIDE DEF Here
      <4>2. (CHOOSE j : Here(j)) = i
        BY <4>1
      <4> QED BY <4>2 DEF Here
    <3> QED BY <3>1, <3>2, <3>4, <3>5
  <2> QED BY <2>3, <2>4
<1> QED BY <1>1, <1>2

-----------------------------------------------------------------------------
(* Bisection of ascending boundaries.  The recursive function is the one   *)
(* closed form that satisfies its equation, by a least wrong interval.     *)
(* Whether a boundary bm lies before the place where v goes. *)
Goes(bm, v, right) == (right /\ bm <= v) \/ (~right /\ bm < v)

Bisects(f, bnd, v, right) ==
  f = [ends \in (0 .. Len(bnd)) \X (0 .. Len(bnd)) |->
         LET mid == (ends[1] + ends[2]) \div 2
             bm == bnd[mid + 1]
         IN IF ends[1] >= ends[2] THEN ends[1]
            ELSE IF (right /\ bm <= v) \/ (~right /\ bm < v)
                 THEN f[<<mid + 1, ends[2]>>] ELSE f[<<ends[1], mid>>]]

LEMMA SearchIs ==
  ASSUME NEW bnd, NEW v, NEW right
  PROVE  Index!SearchSorted(bnd, v, right) = (CHOOSE f : Bisects(f, bnd, v, right))[<<0, Len(bnd)>>]
BY DEF Index!SearchSorted, Bisects

(* The first c boundaries, and no others, lie before the place of v. *)
Place(c, bnd, v, right) ==
  c \in 0 .. Len(bnd) /\ \A i \in 1 .. Len(bnd) : Goes(bnd[i], v, right) <=> i <= c

Ascending(bnd) == \A i, j \in 1 .. Len(bnd) : i <= j => bnd[i] <= bnd[j]

LEMMA PlaceExists ==
  ASSUME NEW bnd \in Seq(Int), Ascending(bnd), NEW v \in Int, NEW right \in BOOLEAN
  PROVE  \E c \in 0 .. Len(bnd) : Place(c, bnd, v, right)
<1>1. PICK n \in Nat : n = Len(bnd)
  OBVIOUS
<1> DEFINE S == {k \in 0 .. n : \A i \in 1 .. n : Goes(bnd[i], v, right) => i <= k}
<1>2. S \in SUBSET Nat /\ n \in S
  BY DEF Goes
<1>3. PICK c \in S : \A k \in S : c <= k
  <2>1. S # {}
    BY <1>2
  <2> HIDE DEF S
  <2> QED BY <1>2, <2>1, Least
<1>4. ASSUME NEW i \in 1 .. n, i <= c PROVE Goes(bnd[i], v, right)
  <2>1. c - 1 \in 0 .. n /\ c - 1 \notin S
    BY <1>3, <1>4
  <2>2. PICK j \in 1 .. n : Goes(bnd[j], v, right) /\ ~(j <= c - 1)
    BY <2>1
  <2>3. i <= j
    BY <1>4, <2>2
  <2>4. bnd[i] <= bnd[j] /\ bnd[i] \in Int /\ bnd[j] \in Int
    BY <1>1, <2>3 DEF Ascending
  <2> QED BY <2>2, <2>4 DEF Goes
<1> QED BY <1>1, <1>3, <1>4 DEF Place

Clamp(c, lo, hi) == IF c < lo THEN lo ELSE IF c > hi THEN hi ELSE c

(* What the bisection returns from every interval, and its step. *)
Answer(c, n) == [e \in (0 .. n) \X (0 .. n) |-> IF e[1] >= e[2] THEN e[1] ELSE Clamp(c, e[1], e[2])]
Middle(e) == (e[1] + e[2]) \div 2
Bisection(f, e, bnd, v, right) ==
  IF e[1] >= e[2] THEN e[1]
  ELSE IF Goes(bnd[Middle(e) + 1], v, right) THEN f[<<Middle(e) + 1, e[2]>>] ELSE f[<<e[1], Middle(e)>>]

LEMMA BisectsIs ==
  ASSUME NEW bnd, NEW v, NEW right, NEW f
  PROVE  Bisects(f, bnd, v, right) <=>
           f = [e \in (0 .. Len(bnd)) \X (0 .. Len(bnd)) |-> Bisection(f, e, bnd, v, right)]
BY DEF Bisects, Bisection, Middle, Goes

LEMMA Halves ==
  ASSUME NEW lo \in Nat, NEW hi \in Nat, lo < hi
  PROVE  (lo + hi) \div 2 \in Nat /\ lo <= (lo + hi) \div 2 /\ (lo + hi) \div 2 < hi
OBVIOUS

LEMMA AnswerBisects ==
  ASSUME NEW bnd \in Seq(Int), NEW v \in Int, NEW right \in BOOLEAN,
         NEW c \in 0 .. Len(bnd), Place(c, bnd, v, right)
  PROVE  Bisects(Answer(c, Len(bnd)), bnd, v, right)
<1>1. PICK n \in Nat : n = Len(bnd)
  OBVIOUS
<1> DEFINE f == Answer(c, n)
<1>2. \A lo, hi \in 0 .. n : f[<<lo, hi>>] = IF lo >= hi THEN lo ELSE Clamp(c, lo, hi)
  BY DEF Answer
<1>3. ASSUME NEW e \in (0 .. n) \X (0 .. n)
      PROVE  f[e] = Bisection(f, e, bnd, v, right)
  <2>1. PICK lo \in 0 .. n, hi \in 0 .. n : e = <<lo, hi>> /\ e[1] = lo /\ e[2] = hi
    OBVIOUS
  <2>2. f[e] = IF lo >= hi THEN lo ELSE Clamp(c, lo, hi)
    BY <1>2, <2>1
  <2> HIDE DEF f
  <2>3. CASE lo >= hi
    BY <2>1, <2>2, <2>3 DEF Bisection
  <2>4. CASE lo < hi
    <3>1. PICK mid \in 0 .. n : mid = (lo + hi) \div 2 /\ lo <= mid /\ mid < hi
      BY <2>4, Halves
    <3>2. mid + 1 \in 1 .. n /\ mid + 1 \in 0 .. n /\ Middle(e) = mid
      BY <2>1, <3>1 DEF Middle
    <3>3. Goes(bnd[mid + 1], v, right) <=> mid + 1 <= c
      BY <1>1, <3>2 DEF Place
    <3>4. f[<<mid + 1, hi>>] = IF mid + 1 >= hi THEN mid + 1 ELSE Clamp(c, mid + 1, hi)
      BY <1>2, <3>2
    <3>5. f[<<lo, mid>>] = IF lo >= mid THEN lo ELSE Clamp(c, lo, mid)
      BY <1>2
    <3>6. Clamp(c, lo, hi) = IF mid + 1 <= c THEN f[<<mid + 1, hi>>] ELSE f[<<lo, mid>>]
      BY <2>4, <3>1, <3>4, <3>5, SMTT(30) DEF Clamp
    <3> QED BY <2>1, <2>2, <2>4, <3>2, <3>3, <3>6 DEF Bisection
  <2> QED BY <2>3, <2>4
<1>4. f = [e \in (0 .. n) \X (0 .. n) |-> f[e]]
  BY DEF Answer
<1> HIDE DEF f
<1>5. f = [e \in (0 .. n) \X (0 .. n) |-> Bisection(f, e, bnd, v, right)]
  BY <1>3, <1>4
<1>6. Bisects(f, bnd, v, right)
  BY <1>1, <1>5, BisectsIs
<1> QED BY <1>1, <1>6 DEF f

LEMMA BisectsAnswer ==
  ASSUME NEW bnd \in Seq(Int), NEW v \in Int, NEW right \in BOOLEAN,
         NEW c \in 0 .. Len(bnd), Place(c, bnd, v, right),
         NEW f, Bisects(f, bnd, v, right)
  PROVE  f[<<0, Len(bnd)>>] = c
<1>1. PICK n \in Nat : n = Len(bnd)
  OBVIOUS
<1>2. ASSUME NEW lo \in 0 .. n, NEW hi \in 0 .. n
      PROVE  f[<<lo, hi>>] = Bisection(f, <<lo, hi>>, bnd, v, right)
  <2>1. f = [e \in (0 .. n) \X (0 .. n) |-> Bisection(f, e, bnd, v, right)]
    BY <1>1, BisectsIs
  <2>2. PICK e \in (0 .. n) \X (0 .. n) : e = <<lo, hi>>
    OBVIOUS
  <2> QED BY <2>1, <2>2
<1>3. ASSUME NEW a \in 0 .. n, NEW b \in 0 .. n, a <= b, f[<<a, b>>] # Clamp(c, a, b)
      PROVE  FALSE
  <2> DEFINE Wrong(lo, hi) == lo <= hi /\ f[<<lo, hi>>] # Clamp(c, lo, hi)
  <2> DEFINE W == {d \in 0 .. n : \E lo, hi \in 0 .. n : d = hi - lo /\ Wrong(lo, hi)}
  <2>1. b - a \in W /\ W \in SUBSET Nat
    <3>1. Wrong(a, b) /\ b - a \in 0 .. n
      BY <1>3
    <3> HIDE DEF Wrong
    <3> QED BY <3>1
  <2>2. PICK d \in W : \A e \in W : d <= e
    <3>1. W # {}
      BY <2>1
    <3> HIDE DEF W
    <3> QED BY <2>1, <3>1, Least
  <2>3. PICK lo \in 0 .. n, hi \in 0 .. n : d = hi - lo /\ lo <= hi /\ f[<<lo, hi>>] # Clamp(c, lo, hi)
    OBVIOUS
  <2>4. ASSUME NEW l \in 0 .. n, NEW h \in 0 .. n, l <= h, h - l < hi - lo
        PROVE  f[<<l, h>>] = Clamp(c, l, h)
    <3> HIDE DEF Wrong
    <3>1. h - l \in 0 .. n /\ ~(d <= h - l)
      BY <2>3, <2>4
    <3>2. ~Wrong(l, h)
      BY <2>2, <3>1
    <3> QED BY <2>4, <3>2 DEF Wrong
  <2> HIDE DEF W, Wrong
  <2>5. f[<<lo, hi>>] = Bisection(f, <<lo, hi>>, bnd, v, right)
    BY <1>2
  <2>6. CASE lo >= hi
    <3>1. lo = hi /\ Clamp(c, lo, hi) = lo
      BY <2>3, <2>6 DEF Clamp
    <3>2. f[<<lo, hi>>] = lo
      BY <2>5, <2>6 DEF Bisection
    <3> QED BY <2>3, <3>1, <3>2
  <2>7. CASE lo < hi
    <3>1. PICK mid \in 0 .. n : mid = (lo + hi) \div 2 /\ lo <= mid /\ mid < hi
      BY <2>7, Halves
    <3>2. mid + 1 \in 0 .. n /\ mid + 1 \in 1 .. n /\ Middle(<<lo, hi>>) = mid
      BY <3>1 DEF Middle
    <3>3. f[<<lo, hi>>] = IF Goes(bnd[mid + 1], v, right) THEN f[<<mid + 1, hi>>] ELSE f[<<lo, mid>>]
      <4>1. PICK e \in (0 .. n) \X (0 .. n) : e = <<lo, hi>>
        OBVIOUS
      <4>2. e[1] = lo /\ e[2] = hi
        BY <4>1
      <4>3. Bisection(f, e, bnd, v, right) =
              IF Goes(bnd[mid + 1], v, right) THEN f[<<mid + 1, hi>>] ELSE f[<<lo, mid>>]
        <5>1. ~(e[1] >= e[2]) /\ Middle(e) = mid
          BY <2>7, <3>2, <4>1, <4>2
        <5> QED BY <4>2, <5>1 DEF Bisection
      <4> QED BY <2>5, <4>1, <4>3
    <3>4. Goes(bnd[mid + 1], v, right) <=> mid + 1 <= c
      BY <1>1, <3>2 DEF Place
    <3>5. f[<<mid + 1, hi>>] = Clamp(c, mid + 1, hi)
      <4>1. PICK l \in 0 .. n : l = mid + 1
        BY <3>2
      <4>2. l <= hi /\ hi - l < hi - lo
        BY <3>1, <4>1
      <4>3. f[<<l, hi>>] = Clamp(c, l, hi)
        BY <2>4, <4>2, Zenon
      <4> QED BY <4>1, <4>3, Zenon
    <3>6. f[<<lo, mid>>] = Clamp(c, lo, mid)
      <4>1. mid - lo < hi - lo
        BY <3>1
      <4> QED BY <2>4, <3>1, <4>1, Zenon
    <3>7. Clamp(c, lo, hi) = IF mid + 1 <= c THEN Clamp(c, mid + 1, hi) ELSE Clamp(c, lo, mid)
      BY <3>1 DEF Clamp
    <3> QED BY <2>3, <3>3, <3>4, <3>5, <3>6, <3>7
  <2> QED BY <2>6, <2>7
<1>4. f[<<0, n>>] = Clamp(c, 0, n) /\ Clamp(c, 0, n) = c
  <2>1. 0 \in 0 .. n /\ n \in 0 .. n /\ 0 <= n
    OBVIOUS
  <2>2. f[<<0, n>>] = Clamp(c, 0, n)
    BY <1>3, <2>1
  <2> QED BY <1>1, <2>2 DEF Clamp
<1> QED BY <1>1, <1>4

(* The bisection of k_searchsorted and the counting of k_searchsorteds     *)
(* find the same place, on either side of equal boundaries.                *)
THEOREM BisectionCounts ==
  ASSUME NEW bnd \in Seq(Int), Ascending(bnd), NEW v \in Int, NEW right \in BOOLEAN
  PROVE  Index!SearchSorted(bnd, v, right) = Index!SearchSorteds(bnd, v, right)
<1>1. PICK c \in 0 .. Len(bnd) : Place(c, bnd, v, right)
  BY PlaceExists
<1>2. \E f : Bisects(f, bnd, v, right)
  BY <1>1, AnswerBisects
<1>3. PICK g : g = (CHOOSE f : Bisects(f, bnd, v, right))
  OBVIOUS
<1>4. Bisects(g, bnd, v, right)
  BY <1>2, <1>3
<1>5. Index!SearchSorted(bnd, v, right) = c
  BY <1>1, <1>3, <1>4, BisectsAnswer, SearchIs
<1>6. {i \in DOMAIN bnd : (right /\ bnd[i] <= v) \/ (~right /\ bnd[i] < v)} = 1 .. c
  BY <1>1 DEF Place, Goes
<1>7. Index!Cardinality(1 .. c) = c
  <2>1. Cardinality(1 .. c) = c
    BY FS_Interval
  <2>2. Index!Cardinality(1 .. c) = Cardinality(1 .. c)
    BY DEF Index!Cardinality, Cardinality
  <2> QED BY <2>1, <2>2
<1>8. Index!SearchSorteds(bnd, v, right) = Index!Cardinality(1 .. c)
  BY <1>6 DEF Index!SearchSorteds
<1> QED BY <1>5, <1>7, <1>8
=============================================================================
