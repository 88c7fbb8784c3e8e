--------------------------- MODULE ScatterKernels ---------------------------
(***************************************************************************)
(* The operators whose threads meet in one output cell: the scatters of    *)
(* cuda/src/ops/shape.cu and index_ext.cu and EmbeddingRenorm.  A call is  *)
(* a record: its kind, the index list idx (0-based rows), the source       *)
(* values src, the length row of a row, the rows N of the output, and the  *)
(* buffer self that the output starts from.  Thread i handles element i    *)
(* of src; the threads of a grid run in any order and interleave.          *)
(***************************************************************************)
EXTENDS Integers, Sequences, FiniteSetsExt

CONSTANT ScatterCalls

VARIABLES
  scall,  \* the call
  sphase, \* "called", "planned", "running", "rejected", "fault" or "done"
  buffer,    \* the output buffer: a function on flat indices
  spc,     \* per thread: "start", "cas", "norm", "scale" or "done"
  seen    \* per thread: the values it has read and holds

svars == <<scall, sphase, buffer, spc, seen>>

Adds == {"scatter_add", "index_add", "embedding_backward", "tf_scatter_add", "index_put_add"}
Stores == {"scatter_update", "scatter_replace", "index_copy", "index_fill", "index_put",
           "scatter_pa_cache", "scatter_nd"}
Loops == {"scatter_max", "scatter_min", "scatter_mul"}

(* Kinds that go through k_row_scatter, which skips rows out of range. *)
Checked == {"tf_scatter_add", "index_put_add", "index_put", "scatter_pa_cache"}

Threads(c) == 0 .. (IF c.kind = "renorm" THEN Len(c.idx) ELSE Len(c.idx) * c.row) - 1
Target(c, i) == c.idx[i \div c.row + 1] * c.row + (i % c.row)
InRange(c, i) == c.idx[i \div c.row + 1] \in 0 .. c.N - 1
Apply(c, old, v) ==
  CASE c.kind = "scatter_max" -> v
    [] c.kind = "scatter_min" -> v
    [] c.kind = "scatter_mul" -> old * v

(* A maximum or a minimum that the cell already reaches ends the loop. *)
Settled(c, cur, v) == \/ c.kind = "scatter_max" /\ cur >= v
                      \/ c.kind = "scatter_min" /\ cur <= v

(* What a call hands over: index lists and an output of numbers, a number  *)
(* for every thread that adds or loops, and for the compare-and-swap       *)
(* loops, which check no row, only rows that the output has.               *)
ASSUME ScatterAssumption ==
  \A c \in ScatterCalls :
    /\ c.idx \in Seq(Int) /\ c.row \in Nat
    /\ c.self \in [DOMAIN c.self -> Int]
    /\ c.kind \in Adds \cup Loops => \A i \in Threads(c) : c.src[i + 1] \in Int
    /\ c.kind \in Loops => \A i \in Threads(c) : Target(c, i) \in DOMAIN c.self

-----------------------------------------------------------------------------
SInit ==
  /\ scall \in ScatterCalls
  /\ sphase = "called"
  /\ buffer = scall.self
  /\ spc = [i \in Threads(scall) |-> "start"]
  /\ seen = [i \in Threads(scall) |-> <<>>]

(* The first phases.  ScatterUpdate divides by the length of the index;    *)
(* ScatterAdd and Scatter check it; the others take the row from self.     *)
PlanUpdate ==
  /\ sphase = "called" /\ scall.kind = "scatter_update"
  /\ sphase' = IF scall.idx = <<>> THEN "fault" ELSE "planned"
  /\ UNCHANGED <<scall, buffer, spc, seen>>

PlanScatter ==
  /\ sphase = "called" /\ scall.kind \in {"scatter_add", "scatter_replace"}
  /\ sphase' = IF scall.idx = <<>> \/ Len(scall.src) % Len(scall.idx) # 0
               THEN "rejected" ELSE "planned"
  /\ UNCHANGED <<scall, buffer, spc, seen>>

PlanOther ==
  /\ sphase = "called" /\ scall.kind \notin {"scatter_update", "scatter_add", "scatter_replace"}
  /\ sphase' = "planned"
  /\ UNCHANGED <<scall, buffer, spc, seen>>

(* Mutant: ScatterNd does not clear its output. *)
MutantLaunch ==
  /\ sphase = "planned"
  /\ buffer' = IF scall.kind = "embedding_backward" THEN [j \in DOMAIN buffer |-> 0] ELSE scall.self
  /\ sphase' = "running"
  /\ UNCHANGED <<scall, spc, seen>>

(* The second phase: the stream fills the output before the kernel runs,   *)
(* with zeroes for the gradient and ScatterNd, with self for the others.   *)
Launch ==
  /\ sphase = "planned"
  /\ buffer' = IF scall.kind \in {"embedding_backward", "scatter_nd"} THEN [j \in DOMAIN buffer |-> 0]
            ELSE scall.self
  /\ sphase' = "running"
  /\ UNCHANGED <<scall, spc, seen>>

Finished(i) == spc' = [spc EXCEPT ![i] = "done"]

(* k_row_scatter's early return. *)
Skip(i) ==
  /\ sphase = "running" /\ spc[i] = "start"
  /\ scall.kind \in Checked /\ ~InRange(scall, i)
  /\ Finished(i)
  /\ UNCHANGED <<scall, sphase, buffer, seen>>

Applies(i) == /\ sphase = "running" /\ spc[i] = "start"
              /\ scall.kind \in Checked => InRange(scall, i)

(* k_scatter_add0, k_index_add0, k_embed_bwd, k_row_scatter with add. *)
AtomicAdd(i) ==
  /\ Applies(i) /\ scall.kind \in Adds
  /\ buffer' = [buffer EXCEPT ![Target(scall, i)] = @ + scall.src[i + 1]]
  /\ Finished(i)
  /\ UNCHANGED <<scall, sphase, seen>>

(* k_scatter0, k_index_copy0, k_index_fill0, k_scatter_nd_upd, k_row_scatter. *)
Store(i) ==
  /\ Applies(i) /\ scall.kind \in Stores
  /\ buffer' = [buffer EXCEPT ![Target(scall, i)] =
               IF scall.kind = "index_fill" THEN scall.src[1] ELSE scall.src[i + 1]]
  /\ Finished(i)
  /\ UNCHANGED <<scall, sphase, seen>>

(* atomicMaxf, atomicMinf, atomicMulf: read the cell, then compare and swap. *)
Load(i) ==
  /\ Applies(i) /\ scall.kind \in Loops
  /\ seen' = [seen EXCEPT ![i] = <<buffer[Target(scall, i)]>>]
  /\ spc' = [spc EXCEPT ![i] = "cas"]
  /\ UNCHANGED <<scall, sphase, buffer>>

(* Mutant: the swap does not compare. *)
MutantBlindSwap(i) ==
  LET j == Target(scall, i)
      v == scall.src[i + 1]
      assumed == seen[i][1]
  IN /\ sphase = "running" /\ spc[i] = "cas"
     /\ IF Settled(scall, assumed, v) THEN Finished(i) /\ UNCHANGED <<buffer, seen>>
        ELSE IF TRUE
        THEN /\ buffer' = [buffer EXCEPT ![j] = Apply(scall, assumed, v)]
             /\ Finished(i)
             /\ UNCHANGED seen
        ELSE /\ seen' = [seen EXCEPT ![i] = <<buffer[j]>>]
             /\ UNCHANGED <<buffer, spc>>
     /\ UNCHANGED <<scall, sphase>>

(* Mutant: a failed swap does not reload the cell. *)
MutantStaleSwap(i) ==
  LET j == Target(scall, i)
      v == scall.src[i + 1]
      assumed == seen[i][1]
  IN /\ sphase = "running" /\ spc[i] = "cas"
     /\ IF Settled(scall, assumed, v) THEN Finished(i) /\ UNCHANGED <<buffer, seen>>
        ELSE IF buffer[j] = assumed
        THEN /\ buffer' = [buffer EXCEPT ![j] = Apply(scall, assumed, v)]
             /\ Finished(i)
             /\ UNCHANGED seen
        ELSE UNCHANGED <<seen, buffer, spc>>
     /\ UNCHANGED <<scall, sphase>>

CompareAndSwap(i) ==
  LET j == Target(scall, i)
      v == scall.src[i + 1]
      assumed == seen[i][1]
  IN /\ sphase = "running" /\ spc[i] = "cas"
     /\ IF Settled(scall, assumed, v) THEN Finished(i) /\ UNCHANGED <<buffer, seen>>
        ELSE IF buffer[j] = assumed
        THEN /\ buffer' = [buffer EXCEPT ![j] = Apply(scall, assumed, v)]
             /\ Finished(i)
             /\ UNCHANGED seen
        ELSE /\ seen' = [seen EXCEPT ![i] = <<buffer[j]>>]
             /\ UNCHANGED <<buffer, spc>>
     /\ UNCHANGED <<scall, sphase>>

(* k_emb_renorm on rows of one cell: norm, then a load and a store of the  *)
(* row.  src[1] is the bound; the factor is exact on the values given.     *)
ReadNorm(i) ==
  /\ sphase = "running" /\ spc[i] = "start" /\ scall.kind = "renorm"
  /\ LET nrm == buffer[scall.idx[i + 1]]
     IN IF nrm > scall.src[1]
        THEN seen' = [seen EXCEPT ![i] = <<nrm>>] /\ spc' = [spc EXCEPT ![i] = "norm"]
        ELSE Finished(i) /\ UNCHANGED seen
  /\ UNCHANGED <<scall, sphase, buffer>>

ReadRow(i) ==
  /\ sphase = "running" /\ spc[i] = "norm"
  /\ seen' = [seen EXCEPT ![i] = Append(@, buffer[scall.idx[i + 1]])]
  /\ spc' = [spc EXCEPT ![i] = "scale"]
  /\ UNCHANGED <<scall, sphase, buffer>>

ScaleRow(i) ==
  /\ sphase = "running" /\ spc[i] = "scale"
  /\ buffer' = [buffer EXCEPT ![scall.idx[i + 1]] = (seen[i][2] * scall.src[1]) \div seen[i][1]]
  /\ Finished(i)
  /\ UNCHANGED <<scall, sphase, seen>>

(* The kernel ends when its last thread does. *)
Drain ==
  /\ sphase = "running" /\ \A i \in DOMAIN spc : spc[i] = "done"
  /\ sphase' = "done"
  /\ UNCHANGED <<scall, buffer, spc, seen>>

Thread(i) == \/ Skip(i) \/ AtomicAdd(i) \/ Store(i) \/ Load(i) \/ CompareAndSwap(i)
             \/ ReadNorm(i) \/ ReadRow(i) \/ ScaleRow(i)

SNext == PlanUpdate \/ PlanScatter \/ PlanOther \/ Launch \/ Drain \/ \E i \in DOMAIN spc : Thread(i)

(* A launched grid runs to its end. *)
SFairness == WF_svars(SNext)
SSpec == SInit /\ [][SNext]_svars /\ SFairness

-----------------------------------------------------------------------------
Writers(c, j) == {i \in Threads(c) : (c.kind \in Checked => InRange(c, i)) /\ Target(c, i) = j}

(* What the source elements i of S make of a cell that held x. *)
Combined(c, x, S) ==
  FoldSet(LAMBDA i, y : IF c.kind = "scatter_mul" THEN y * c.src[i + 1] ELSE y + c.src[i + 1], x, S)

(* Two threads that add to one cell, or multiply it, lose no update,       *)
(* whatever their order: "atomic accumulate" (shape.cu:632).               *)
NoLostUpdate ==
  sphase = "done" /\ scall.kind \in Adds \cup {"scatter_mul"} =>
    \A j \in DOMAIN buffer :
      buffer[j] = Combined(scall, IF scall.kind = "embedding_backward" THEN 0 ELSE scall.self[j],
                        Writers(scall, j))

(* A compare-and-swap loop leaves the extremum of the cell's first value   *)
(* and of all its writers (index_ext.cu:24-38), whoever wins which swap.   *)
ExtremumReached ==
  sphase = "done" /\ scall.kind \in {"scatter_max", "scatter_min"} =>
    \A j \in DOMAIN buffer :
      LET all == {scall.self[j]} \cup {scall.src[i + 1] : i \in Writers(scall, j)}
      IN /\ buffer[j] \in all
         /\ \A v \in all : IF scall.kind = "scatter_max" THEN v <= buffer[j] ELSE buffer[j] <= v

(* However the threads of a scatter interleave, additions, products and    *)
(* the compare-and-swap extrema combine every source element once.         *)
ScattersCombine == NoLostUpdate /\ ExtremumReached

(* A store leaves one of the values written to the cell, or the old one    *)
(* where nothing was written: with distinct rows the result is determined. *)
OneWriterWins ==
  sphase = "done" /\ scall.kind \in Stores =>
    \A j \in DOMAIN buffer :
      LET w == Writers(scall, j)
      IN IF w = {} THEN buffer[j] = (IF scall.kind = "scatter_nd" THEN 0 ELSE scall.self[j])
         ELSE \E i \in w : buffer[j] = scall.src[IF scall.kind = "index_fill" THEN 1 ELSE i + 1]
=============================================================================
