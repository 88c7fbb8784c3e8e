---------------------------- MODULE BlockReduction ----------------------------
(***************************************************************************)
(* The block-wide reductions of cuda/src/ops/norm_ext.cu as the warps of a *)
(* block execute them, one shared-memory access at a time.  A kernel calls *)
(* the helper once for every round (a sum of squares, then a maximum) with *)
(* the same shared cells:                                                  *)
(*   blk_sum     leaders store, thread 0 combines, all read, barrier       *)
(*   blk_reduce  the same without the barrier after the read               *)
(*   row_sum     thread 0 clears, leaders add, all read, no barrier        *)
(* Thread 0 belongs to warp 0.                                             *)
(***************************************************************************)
EXTENDS Integers

CONSTANTS Warps,      \* warps of a block, 0 .. n - 1
          Rounds,     \* calls of the helper in a kernel
          Helpers     \* the helpers to explore

ASSUME WarpsAssumption == Warps \in Nat \ {0} /\ Rounds \in Nat \ {0}

VARIABLES
  helper,     \* the helper the kernel uses
  wpc,        \* what each warp does next
  round,      \* the call each warp is in
  arrived,    \* barriers each warp has arrived at
  sh,         \* the shared cells (cell 0 alone for row_sum)
  got         \* the value each warp took from each call, -1 before
bvars == <<helper, wpc, round, arrived, sh, got>>

Ids == 0 .. Warps - 1
(* The warp-level partial, a power of two that tells calls and warps apart,*)
(* and the value every warp should continue with.                          *)
Partial(w, r) == 2 ^ (w + (r - 1) * Warps)
SumOf(cells) == LET sum[w \in 0 .. Warps] == IF w = 0 THEN 0 ELSE sum[w - 1] + cells[w - 1] IN sum[Warps]
Reduced(r) == SumOf([w \in Ids |-> Partial(w, r)])

BInit == /\ helper \in Helpers
         /\ wpc = [w \in Ids |-> IF helper = "row_sum" THEN "clear" ELSE "store"]
         /\ round = [w \in Ids |-> 1]
         /\ arrived = [w \in Ids |-> 0]
         /\ sh = [w \in Ids |-> 0]
         /\ got = [w \in Ids |-> [r \in 1 .. Rounds |-> -1]]

(* __syncthreads: a warp goes on when every warp has arrived as often. *)
Passed(w) == \A v \in Ids : arrived[v] >= arrived[w]
Arrive(w, next) ==
  /\ arrived' = [arrived EXCEPT ![w] = @ + 1]
  /\ wpc' = [wpc EXCEPT ![w] = next]

(* The leader of the warp stores its partial. *)
StorePartial(w) ==
  /\ wpc[w] = "store"
  /\ sh' = [sh EXCEPT ![w] = Partial(w, round[w])]
  /\ Arrive(w, "combine")
  /\ UNCHANGED <<helper, round, got>>

(* Thread 0 clears the accumulator of row_sum; then the leaders add. *)
Clear(w) ==
  /\ wpc[w] = "clear"
  /\ sh' = IF w = 0 THEN [sh EXCEPT ![0] = 0] ELSE sh
  /\ Arrive(w, "add")
  /\ UNCHANGED <<helper, round, got>>
Add(w) ==
  /\ wpc[w] = "add" /\ Passed(w)
  /\ sh' = [sh EXCEPT ![0] = @ + Partial(w, round[w])]
  /\ Arrive(w, "read")
  /\ UNCHANGED <<helper, round, got>>

Combine(w) ==
  /\ wpc[w] = "combine" /\ Passed(w)
  /\ sh' = IF w = 0 THEN [sh EXCEPT ![0] = SumOf(sh)] ELSE sh
  /\ Arrive(w, "read")
  /\ UNCHANGED <<helper, round, got>>

NextCall(w) ==
  /\ round' = [round EXCEPT ![w] = @ + 1]
  /\ wpc' = [wpc EXCEPT ![w] = IF round[w] = Rounds THEN "done" ELSE IF helper = "row_sum" THEN "clear" ELSE "store"]

(* Mutant: the helper returns without the barrier that follows the read. *)
MutantRead(w) ==
  /\ wpc[w] = "read" /\ Passed(w)
  /\ got' = [got EXCEPT ![w][round[w]] = sh[0]]
  /\ NextCall(w) /\ UNCHANGED <<helper, arrived, sh>>

(* Every thread reads the result; blk_sum alone waits for the others. *)
Read(w) ==
  /\ wpc[w] = "read" /\ Passed(w)
  /\ got' = [got EXCEPT ![w][round[w]] = sh[0]]
  /\ IF helper = "blk_sum" THEN Arrive(w, "leave") /\ UNCHANGED round
     ELSE NextCall(w) /\ UNCHANGED arrived
  /\ UNCHANGED <<helper, sh>>
Leave(w) ==
  /\ wpc[w] = "leave" /\ Passed(w)
  /\ NextCall(w)
  /\ UNCHANGED <<helper, arrived, sh, got>>

BNext == \E w \in Ids : StorePartial(w) \/ Clear(w) \/ Add(w) \/ Combine(w) \/ Read(w) \/ Leave(w)

(* Every warp leaves a call with the value reduced over the whole block,   *)
(* also when a faster warp has begun the next call: the deviation and the  *)
(* scale of a row are the same for all of its elements.                    *)
WarpsAgree == \A w \in Ids, r \in 1 .. Rounds : got[w][r] \in {-1, Reduced(r)}
=============================================================================
