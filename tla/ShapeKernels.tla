---------------------------- MODULE ShapeKernels ----------------------------
(***************************************************************************)
(* The copying operators of cuda/src/ops/shape.cu as index maps.  For an   *)
(* operator X, XAccepts is what its first phase requires of tensors that   *)
(* exist and have one element type; X is the map its kernel follows.       *)
(***************************************************************************)
EXTENDS TensorLayout

-----------------------------------------------------------------------------
(* Mutant: the copy forgets the offset of the view. *)
MutantScopyNoBase(od, istr, imod, base) ==
  [i \in 0 .. Numel(od) - 1 |->
     LET c == Coord(i, od)
     IN Dot([k \in DOMAIN od |-> IF imod[k] = 0 THEN c[k] ELSE c[k] % imod[k]], istr)]

(* k_scopy: the shared strided copy; imod = 0 leaves a coordinate alone. *)
Scopy(od, istr, imod, base) ==
  [i \in 0 .. Numel(od) - 1 |->
     LET c == Coord(i, od)
     IN base + Dot([k \in DOMAIN od |->
                      IF imod[k] = 0 THEN c[k] ELSE c[k] % imod[k]], istr)]

NoMod(od) == [k \in DOMAIN od |-> 0]

PermuteAccepts(self, axes, out) ==
  /\ Len(axes) = Len(self.dims)
  /\ Contiguous(out)
  /\ \A i \in DOMAIN axes : /\ axes[i] \in 0 .. Len(self.dims) - 1
                            /\ self.dims[axes[i] + 1] = out.dims[i]

Permute(self, axes) ==
  LET od == [i \in DOMAIN axes |-> self.dims[axes[i] + 1]]
  IN Scopy(od, [i \in DOMAIN axes |-> self.strides[axes[i] + 1]], NoMod(od), self.offset)

(* The extent a slice is normalised to, clamped only at the end; StridedSlice *)
(* clamps a start that is still negative as well.                             *)
SliceFrom(D, start) == IF start < 0 THEN start + D ELSE start
SliceTo(D, end) == LET n == SliceFrom(D, end) IN IF n > D THEN D ELSE n
SliceLen(from, to, step) == (to - from + step - 1) \div step

SliceAccepts(self, dim0, start, end, step, out) ==
  LET k == Normal(dim0, Len(self.dims)) + 1
      D == self.dims[k]
  IN /\ k \in DOMAIN self.dims
     /\ step > 0
     /\ Contiguous(out)
     /\ SliceFrom(D, start) >= 0
     /\ SliceFrom(D, start) < SliceTo(D, end)
     /\ out.dims[k] = SliceLen(SliceFrom(D, start), SliceTo(D, end), step)

Slice(self, dim0, start, step, out) ==
  LET k == Normal(dim0, Len(self.dims)) + 1
      istr == [self.strides EXCEPT ![k] = @ * step]
  IN Scopy(out.dims, istr, NoMod(out.dims),
           self.offset + SliceFrom(self.dims[k], start) * self.strides[k])

StridedFrom(D, b) == LET n == SliceFrom(D, b) IN IF n < 0 THEN 0 ELSE n

StridedSliceAccepts(self, begin, end, steps, out) ==
  /\ Len(begin) = Len(self.dims) /\ Len(end) = Len(self.dims) /\ Len(steps) = Len(self.dims)
  /\ Contiguous(out)
  /\ \A i \in DOMAIN self.dims :
       LET from == StridedFrom(self.dims[i], begin[i])
           to == SliceTo(self.dims[i], end[i])
       IN /\ steps[i] > 0
          /\ from < to
          /\ out.dims[i] = SliceLen(from, to, steps[i])

StridedSlice(self, begin, steps, out) ==
  LET from == [i \in DOMAIN begin |-> StridedFrom(self.dims[i], begin[i])]
  IN Scopy(out.dims, [i \in DOMAIN begin |-> self.strides[i] * steps[i]],
           NoMod(out.dims), self.offset + Dot(from, self.strides))

TileAccepts(self, repeats, out) ==
  /\ Len(repeats) = Len(self.dims)
  /\ Contiguous(out)
  /\ \A i \in DOMAIN repeats : out.dims[i] = self.dims[i] * repeats[i]

Tile(self, out) == Scopy(out.dims, self.strides, self.dims, self.offset)

(* padding = <<lo0, hi0, lo1, hi1, ...>>; a negative one crops. *)
PadAccepts(self, padding, out) ==
  /\ Len(padding) = 2 * Len(self.dims)
  /\ Contiguous(out)
  /\ \A i \in DOMAIN self.dims :
       out.dims[i] = self.dims[i] + padding[2 * i - 1] + padding[2 * i]

(* k_pad *)
Pad(self, padding, out) ==
  [i \in 0 .. Numel(out.dims) - 1 |->
     LET oc == Coord(i, out.dims)
         c == [k \in DOMAIN oc |-> oc[k] - padding[2 * k - 1]]
     IN IF \A k \in DOMAIN c : c[k] \in 0 .. self.dims[k] - 1
        THEN Cell(self, c) ELSE Filled]

(* aclnnGather and IndexSelect: whole slices by a one-dimensional index. *)
GatherAccepts(self, dim0, index, out) ==
  LET k == Normal(dim0, Len(self.dims)) + 1
  IN /\ k \in DOMAIN self.dims
     /\ Contiguous(out)
     /\ out.dims[k] = Len(index)

Gather(self, dim0, index, out) ==
  LET g == Normal(dim0, Len(self.dims)) + 1
  IN [i \in 0 .. Numel(out.dims) - 1 |->
        LET c == Coord(i, out.dims) IN Cell(self, [c EXCEPT ![g] = index[c[g] + 1]])]

(* index is a function on flat indices, of dims idims. *)
GatherV2Accepts(self, batchDims, axis0, idims, out) ==
  LET sr == Len(self.dims)
      I == Numel(SubSeq(idims, batchDims + 1, Len(idims)))
  IN /\ batchDims >= 0 /\ Normal(axis0, sr) = batchDims
     /\ batchDims < sr /\ batchDims <= Len(idims)
     /\ Contiguous(self) /\ Contiguous(out)
     /\ \A i \in 1 .. batchDims : self.dims[i] = idims[i]
     /\ Numel(out.dims) = Outer(self.dims, batchDims + 1) * I * Inner(self.dims, batchDims + 1)

(* k_gather_batched *)
GatherV2(self, batchDims, idims, index) ==
  LET batchN == Outer(self.dims, batchDims + 1)
      A == self.dims[batchDims + 1]
      I == Numel(SubSeq(idims, batchDims + 1, Len(idims)))
      tail == Inner(self.dims, batchDims + 1)
  IN [i \in 0 .. batchN * I * tail - 1 |->
        LET ii == (i \div tail) % I
            bb == (i \div tail) \div I
        IN (bb * A + index[bb * I + ii]) * tail + (i % tail)]

EmbedKernel(ids, D) == [i \in 0 .. Len(ids) * D - 1 |-> ids[i \div D + 1] * D + (i % D)]

EmbeddingAccepts(weight) == Len(weight.dims) = 2
Embedding(weight, ids) == EmbedKernel(ids, weight.dims[2])

-----------------------------------------------------------------------------
(* Cat writes each input in turn at its own offset along dim: the map is the *)
(* pair <<input, cell>> each output cell got, from k_cat's thread for it.    *)
CatAccepts(ts, dim0, out) ==
  LET k == Normal(dim0, Len(out.dims)) + 1
  IN /\ k \in DOMAIN out.dims
     /\ Contiguous(out)
     /\ \A t \in DOMAIN ts : /\ Len(ts[t].dims) = Len(out.dims)
                             /\ Contiguous(ts[t])
                             /\ \A j \in DOMAIN out.dims \ {k} : ts[t].dims[j] = out.dims[j]
     /\ out.dims[k] = FoldLeft(LAMBDA n, t : n + t.dims[k], 0, ts)

CatOffset(ts, k, t) == FoldLeft(LAMBDA n, u : n + u.dims[k], 0, SubSeq(ts, 1, t - 1))

CatWrites(ts, dim0, out) ==
  LET k == Normal(dim0, Len(out.dims)) + 1
  IN UNION {{[input |-> t, from |-> i,
               to |-> LET c == Coord(i, ts[t].dims)
                      IN Flat([c EXCEPT ![k] = @ + CatOffset(ts, k, t)], out.dims)] :
               i \in 0 .. Numel(ts[t].dims) - 1} : t \in DOMAIN ts}

(* Stack gives every input a unit dimension and concatenates along it. *)
Unsqueezed(t, k) == LET d == InsertAt(t.dims, k, 1)
                    IN [t EXCEPT !.dims = d, !.strides = Strides(d)]

StackAccepts(ts, dim0, out) ==
  LET k == Normal(dim0, Len(out.dims)) + 1
  IN /\ k \in DOMAIN out.dims
     /\ Contiguous(out)
     /\ out.dims[k] = Len(ts)
     /\ Len(ts[1].dims) + 1 = Len(out.dims)
     /\ \A t \in DOMAIN ts : /\ Len(ts[t].dims) = Len(ts[1].dims)
                             /\ Contiguous(ts[t])
                             /\ ts[t].dims = RemoveAt(out.dims, k)

StackWrites(ts, dim0, out) ==
  LET k == Normal(dim0, Len(out.dims)) + 1
  IN CatWrites([t \in DOMAIN ts |-> Unsqueezed(ts[t], k)], dim0, out)

(* SplitWithSize, and Chunk through it. *)
SplitAccepts(self, dim0, outs) ==
  LET k == Normal(dim0, Len(self.dims)) + 1
  IN /\ k \in DOMAIN self.dims
     /\ \A t \in DOMAIN outs : /\ Len(outs[t].dims) = Len(self.dims)
                               /\ Contiguous(outs[t])
                               /\ \A j \in DOMAIN self.dims \ {k} : outs[t].dims[j] = self.dims[j]
     /\ self.dims[k] = FoldLeft(LAMBDA n, t : n + t.dims[k], 0, outs)

Split(self, dim0, outs, t) ==
  LET k == Normal(dim0, Len(self.dims)) + 1
  IN Scopy(outs[t].dims, self.strides, NoMod(self.dims),
           self.offset + CatOffset(outs, k, t) * self.strides[k])

-----------------------------------------------------------------------------
(* The operators of this file that address their input by its dims alone. *)
HasDim(self, dim0) == Normal(dim0, Len(self.dims)) \in 0 .. Len(self.dims) - 1

FlipKernel(outer, FD, inner) ==
  [i \in 0 .. outer * FD * inner - 1 |->
     LET f == (i \div inner) % FD
         ou == i \div (inner * FD)
     IN (ou * FD + (FD - 1 - f)) * inner + (i % inner)]

Flip(self, dim0) ==
  LET k == Normal(dim0, Len(self.dims)) + 1
  IN FlipKernel(Outer(self.dims, k), self.dims[k], Inner(self.dims, k))

RollKernel(outer, FD, inner, sh) ==
  [i \in 0 .. outer * FD * inner - 1 |->
     LET f == (i \div inner) % FD
         ou == i \div (inner * FD)
         src == Remainder(Remainder(f - sh, FD) + FD, FD)
     IN (ou * FD + src) * inner + (i % inner)]

(* The first phase brings the shift into 0 .. FD - 1. *)
Roll(self, dim0, shift) ==
  LET k == Normal(dim0, Len(self.dims)) + 1
      FD == self.dims[k]
  IN RollKernel(Outer(self.dims, k), FD, Inner(self.dims, k), Remainder(Remainder(shift, FD) + FD, FD))

RepeatInterleaveAccepts(self, repeats, out) == Numel(out.dims) = Numel(self.dims) * repeats
RepeatInterleave(repeats, out) == [i \in 0 .. Numel(out.dims) - 1 |-> i \div repeats]

ExpandAccepts(self, out) == Len(self.dims) <= Len(out.dims)

(* A dimension whose extent differs gets stride 0, whatever that extent is. *)
Expand(self, out) ==
  LET lead == Len(out.dims) - Len(self.dims)
      istr == [i \in DOMAIN out.dims |->
                 IF i > lead /\ self.dims[i - lead] = out.dims[i]
                 THEN Strides(self.dims)[i - lead] ELSE 0]
  IN Scopy(out.dims, istr, NoMod(out.dims), 0)

(* Reshape, Squeeze, Unsqueeze: numel elements from the start of the buffer. *)
ViewAccepts(self, out) == Numel(self.dims) = Numel(out.dims) /\ Contiguous(self)
View(self) == [i \in 0 .. Numel(self.dims) - 1 |-> i]

Movedim(self, src0, dst0) ==
  LET rank == Len(self.dims)
      src == Normal(src0, rank) + 1
      dst == Normal(dst0, rank) + 1
      perm == InsertAt(RemoveAt([i \in 1 .. rank |-> i], src), dst, src)
      od == [i \in 1 .. rank |-> self.dims[perm[i]]]
  IN Scopy(od, [i \in 1 .. rank |-> Strides(self.dims)[perm[i]]], NoMod(od), 0)

(* k_rot90, which is launched for kk = 1, 2 and 3. *)
Rot90Kernel(outer, H, W, oH, oW, kk) ==
  [i \in 0 .. outer * oH * oW - 1 |->
     LET ow == i % oW
         oh == (i \div oW) % oH
         ou == i \div (oH * oW)
         ih == CASE kk = 1 -> ow [] kk = 2 -> H - 1 - oh [] OTHER -> H - 1 - ow
         iw == CASE kk = 1 -> W - 1 - oh [] kk = 2 -> W - 1 - ow [] OTHER -> oh
     IN (ou * H + ih) * W + iw]

(* k quarter turns of the last two dims.  No turn is left to view_run,     *)
(* which copies e->m elements: Reshape sets e->m to numel(), Rot90 to H.   *)
Rot90(self, k) ==
  LET kk == Remainder(Remainder(k, 4) + 4, 4)
      rank == Len(self.dims)
      H == self.dims[rank - 1]
      W == self.dims[rank]
  IN IF kk = 0 THEN [i \in 0 .. H - 1 |-> i]
     ELSE Rot90Kernel(Numel(self.dims) \div (H * W), H, W,
                      IF kk % 2 = 1 THEN W ELSE H, IF kk % 2 = 1 THEN H ELSE W, kk)

PixelShuffleKernel(N, C, H, W, r) ==
  [i \in 0 .. N * C * H * r * W * r - 1 |->
     LET c == Coord(i, <<N, C, H * r, W * r>>)
         ic == c[2] * r * r + (c[3] % r) * r + (c[4] % r)
     IN ((c[1] * (C * r * r) + ic) * H + c[3] \div r) * W + c[4] \div r]

PixelUnshuffleKernel(N, C, H, W, r) ==
  [i \in 0 .. N * C * r * r * H * W - 1 |->
     LET o == Coord(i, <<N, C * r * r, H, W>>)
         ih == o[3] * r + ((o[2] \div r) % r)
         iw == o[4] * r + (o[2] % r)
     IN ((o[1] * C + o[2] \div (r * r)) * (H * r) + ih) * (W * r) + iw]

ChannelShuffleKernel(N, C, HW, g) ==
  [i \in 0 .. N * C * HW - 1 |->
     LET c == (i \div HW) % C
         src == (c % g) * (C \div g) + c \div g
     IN ((i \div (HW * C)) * C + src) * HW + (i % HW)]

PixelShuffle(self, r) ==
  PixelShuffleKernel(self.dims[1], self.dims[2] \div (r * r), self.dims[3], self.dims[4], r)
PixelUnshuffle(self, r) ==
  PixelUnshuffleKernel(self.dims[1], self.dims[2], self.dims[3] \div r, self.dims[4] \div r, r)
ChannelShuffle(self, g) ==
  ChannelShuffleKernel(self.dims[1], self.dims[2],
                       Numel(self.dims) \div (self.dims[1] * self.dims[2]), g)

(* Output k of the grid repeats input k along its own axis. *)
MeshgridKernel(stride, len, n) == [i \in 0 .. n - 1 |-> (i \div stride) % len]
Meshgrid(lens, k) == MeshgridKernel(Inner(lens, k), lens[k], Numel(lens))
=============================================================================
