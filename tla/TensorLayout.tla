---------------------------- MODULE TensorLayout ----------------------------
(***************************************************************************)
(* Tensor descriptors (cuda/src/internal.h) and the arithmetic of flat     *)
(* indices the kernels share.  A tensor is the record of its dims, its     *)
(* strides and its element offset into a buffer; a kernel that copies      *)
(* elements whatever they are is its index map: flat index of the output   *)
(* -> flat index of the input, or Filled where it writes a constant.       *)
(* Dimension k of the code is component k + 1 of these sequences.          *)
(***************************************************************************)
EXTENDS Integers, Sequences, FiniteSets, SequencesExt

Filled == -1

(* f itself, each of its values evaluated once. *)
Tabulated(f) == f @@ <<>>

(* aclTensor::numel *)
Numel(dims) == FoldLeft(LAMBDA n, d : n * d, 1, dims)

Strides(dims) == [k \in DOMAIN dims |-> Numel(SubSeq(dims, k + 1, Len(dims)))]

(* aclTensor::contiguous, which does not look at the offset. *)
Contiguous(t) == t.strides = Strides(t.dims)

Dense(dims) == [dims |-> dims, strides |-> Strides(dims), offset |-> 0]

(* What a kernel's loop "c = rem % od[k]; rem /= od[k]" computes of i. *)
Coord(i, dims) == [k \in DOMAIN dims |-> (i \div Numel(SubSeq(dims, k + 1, Len(dims)))) % dims[k]]

Dot(c, w) == FoldLeft(LAMBDA n, m : n + m, 0, [k \in DOMAIN c |-> c[k] * w[k]])

(* The flat index of coordinates c in a dense tensor, and in a view. *)
Flat(c, dims) == Dot(c, Strides(dims))
Cell(t, c) == t.offset + Dot(c, t.strides)

Coords(dims) == {Coord(i, dims) : i \in 0 .. Numel(dims) - 1}

(* Products of the dims before and after component k: "outer", "inner". *)
Outer(dims, k) == Numel(SubSeq(dims, 1, k - 1))
Inner(dims, k) == Numel(SubSeq(dims, k + 1, Len(dims)))

(* A dimension given from the end, as every first phase normalises it. *)
Normal(dim, rank) == IF dim < 0 THEN dim + rank ELSE dim

(* Division that truncates to zero, as C's: operands may be negative. *)
Quotient(n, m) == IF n >= 0 THEN n \div m ELSE -((-n) \div m)
Remainder(n, m) == n - m * Quotient(n, m)
=============================================================================
