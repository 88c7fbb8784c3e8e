---------------------------- MODULE ReduceKernels ----------------------------
(***************************************************************************)
(* The reductions of cuda/src/ops/reduce.cu, softmax.cu and layernorm.cu   *)
(* and, after them, the sorts and scans of sort.cu, on integers.  A        *)
(* quotient is a pair, an exponential a power of two in units of 2^-Bits,  *)
(* so every comparison is exact; NaN is one integer.  Threads of a block   *)
(* and lanes of a warp are parameters.                                     *)
(***************************************************************************)
EXTENDS TensorLayout

NaN == 99
Bits == 12
Exp2(d) == 2 ^ (Bits + d)      \* of d <= 0
Squared(v) == v * v
Abs(v) == IF v < 0 THEN -v ELSE v
Total(s) == FoldLeft(LAMBDA a, v : a + v, 0, s)

(* rop *)
Rop(kind, a, b) == CASE kind = "sum" -> a + b
                     [] kind = "prod" -> a * b
                     [] kind = "max" -> IF a > b THEN a ELSE b
                     [] kind = "min" -> IF a < b THEN a ELSE b

-----------------------------------------------------------------------------
(* Block reductions.  Thread t of T takes every T-th element from start,   *)
(* its first operand seed; the halving tree leaves the result in thread 0. *)
ThreadPartial(x, start, step, kind, seed) ==
  FoldLeft(LAMBDA v, k : Rop(kind, v, x[start + (k - 1) * step]), seed,
           [k \in 1 .. (Cardinality(DOMAIN x) - start + step - 1) \div step |-> k])

TreeReduce(v, kind) ==
  LET level[T \in Nat, sm \in Seq(Int)] ==
        IF T = 1 THEN sm[1]
        ELSE level[T \div 2, [t \in 1 .. T \div 2 |-> Rop(kind, sm[t], sm[t + T \div 2])]]
  IN level[Len(v), v]

(* k_part: one partial of each block of a grid-stride loop; x not empty    *)
(* unless the kind is a sum.                                               *)
Part(x, RT, blocks, kind) ==
  [b \in 0 .. blocks - 1 |->
     TreeReduce([t \in 1 .. RT |->
       ThreadPartial(x, b * RT + t - 1, blocks * RT, kind, IF kind = "sum" THEN 0 ELSE x[0])], kind)]

(* k_final *)
Final(part, RT, kind) ==
  TreeReduce([t \in 1 .. RT |->
    ThreadPartial(part, t - 1, RT, kind, IF kind = "sum" THEN 0 ELSE part[0])], kind)

(* run_full *)
RunFull(x, n, RT, MAXB, kind) ==
  LET tiles == (n + RT - 1) \div RT
  IN Final(Part([i \in 0 .. n - 1 |-> x[i]], RT, IF tiles < MAXB THEN tiles ELSE MAXB, kind), RT, kind)

-----------------------------------------------------------------------------
(* Any subset of dimensions. *)
BuildRdesc(dims, axes) ==
  LET st == Strides(dims)
      all == [i \in DOMAIN dims |-> i]
      red == SelectSeq(all, LAMBDA i : i \in axes)
      kept == SelectSeq(all, LAMBDA i : i \notin axes)
      of(f, at) == [i \in DOMAIN at |-> f[at[i]]]
  IN [ks |-> of(dims, kept), kstr |-> of(st, kept), rs |-> of(dims, red), rstr |-> of(st, red)]

(* The cells output cell oi is reduced from, in the order of the loop. *)
Region(d, oi) ==
  LET base == Dot(Coord(oi, d.ks), d.kstr)
  IN [j \in 1 .. Numel(d.rs) |-> base + Dot(Coord(j - 1, d.rs), d.rstr)]

(* k_seg on the values v of a region: an empty region leaves 0. *)
Seg(kind, v) ==
  FoldLeft(LAMBDA acc, j : IF j = 1 THEN v[1] ELSE Rop(kind, acc, v[j]), 0, [j \in DOMAIN v |-> j])

(* k_seg_arg *)
SegArg(best, v) ==
  FoldLeft(LAMBDA b, j : IF (IF best = "max" THEN v[j] > v[b + 1] ELSE v[j] < v[b + 1]) THEN j - 1 ELSE b,
           0, [j \in DOMAIN v |-> j])

(* k_seg_stat.  The p-norm before its root, the variance as a fraction     *)
(* over the squared mean's denominator, the logarithms before they are     *)
(* taken (of 2^max * sum).                                                 *)
SegNorm(p, v) == Total([j \in DOMAIN v |-> IF p = 1 THEN Abs(v[j]) ELSE Squared(v[j])])
SegVar(v) ==
  LET n == Len(v)
      s == Total(v)
  IN <<Total([j \in DOMAIN v |-> Squared(n * v[j] - s)]), n * n * (IF n > 1 THEN n - 1 ELSE 1)>>
SegLogSumExp(v) ==
  LET mx == FoldLeft(LAMBDA m, w : IF w > m THEN w ELSE m, -(10 ^ 6), v)
  IN <<mx, Total([j \in DOMAIN v |-> Exp2(v[j] - mx)])>>
SegNanSum(v) == Total(SelectSeq(v, LAMBDA w : w # NaN))
SegNanMean(v) ==
  LET in == SelectSeq(v, LAMBDA w : w # NaN)
  IN IF in = <<>> THEN <<0, 1>> ELSE <<Total(in), Len(in)>>

(* k_seg_count, k_seg_bool *)
SegCount(v) == Len(SelectSeq(v, LAMBDA w : w # 0))
SegBool(any, v) == FoldLeft(LAMBDA a, w : IF any THEN a \/ w # 0 ELSE a /\ w # 0, ~any, v)

(* kth_select: the element whose rank, ties by position, is k; the first   *)
(* one when no element has that rank.                                      *)
Rank(v, j) == Cardinality({m \in DOMAIN v : v[m] < v[j]})
              + Cardinality({m \in DOMAIN v : v[m] = v[j] /\ m < j})
KthSelect(v, k) ==
  LET at == {j \in DOMAIN v : Rank(v, j) = k}
  IN IF at = {} THEN v[1] ELSE v[CHOOSE j \in at : TRUE]

(* k_seg_quantile, q = q[1] / q[2], over the denominator q[2]. *)
SegQuantile(v, q) ==
  LET pos == q[1] * (Len(v) - 1)
      lo == pos \div q[2]
      frac == pos % q[2]
      hi == IF frac = 0 THEN lo ELSE lo + 1
  IN KthSelect(v, lo) * (q[2] - frac) + KthSelect(v, hi) * frac

(* k_seg_mode *)
SegMode(v) ==
  LET count(w) == Cardinality({m \in DOMAIN v : v[m] = w})
  IN FoldLeft(LAMBDA b, w : IF count(w) > b[2] \/ (count(w) = b[2] /\ w < b[1]) THEN <<w, count(w)>> ELSE b,
              <<v[1], 0>>, v)[1]

-----------------------------------------------------------------------------
(* The two phases.  normalize_axes, check_out_shape and make_reduce. *)
AxesValid(dim, rank) == \A i \in DOMAIN dim : Normal(dim[i], rank) \in 0 .. rank - 1
NormalizeAxes(dim, rank) ==
  IF dim = <<>> THEN 1 .. rank ELSE {Normal(dim[i], rank) + 1 : i \in DOMAIN dim}

CheckOutShape(dims, axes, out) == Numel(out) = Numel(BuildRdesc(dims, axes).ks)

Args == {"argmax", "argmin"}
Bools == {"all", "any"}
MakeReduce(op, self, dim, out, outType, selfType) ==
  LET rank == Len(self.dims) IN
  /\ Contiguous(self)
  /\ AxesValid(dim, rank)
  /\ CheckOutShape(self.dims, NormalizeAxes(dim, rank), out)
  /\ op = "count_nonzero" => outType = "int64"
  /\ op \notin Args \cup Bools \cup {"count_nonzero"} => outType = selfType

(* The types a kernel is instantiated for (seg_value, seg_arg, seg_statf,  *)
(* seg_bool_d, seg_count_d, seg_select_d): any other fails the run.        *)
Stats == {"norm", "var", "std", "logsumexp", "nansum", "nanmean", "logsum"}
Selects == {"median", "kthvalue", "quantile", "mode"}
SegTypes(op) ==
  CASE op \in Args -> {"float", "half", "int32"}
    [] op \in Stats -> {"float", "half", "bf16"}
    [] op \in Bools -> {"float", "half", "int32", "bool", "uint8"}
    [] op = "count_nonzero" -> {"float", "half", "int32"}
    [] OTHER -> {"float", "half", "bf16", "int32"}

FastFull == {"sum", "amax", "amin"}
KindOf(op) == CASE op \in {"sum", "mean"} -> "sum" [] op = "prod" -> "prod"
                [] op = "amax" -> "max" [] op = "amin" -> "min"

(* One output cell of the segmented path; par is p, q or k. *)
Segmented(op, v, type, par) ==
  CASE op \in {"sum", "prod", "amax", "amin"} -> Seg(KindOf(op), v)
    [] op = "mean" -> IF type = "int32" THEN <<Quotient(Total(v), Len(v)), 1>> ELSE <<Seg("sum", v), Len(v)>>
    [] op = "argmax" -> SegArg("max", v)
    [] op = "argmin" -> SegArg("min", v)
    [] op = "norm" -> SegNorm(par, v)
    [] op \in {"var", "std"} -> SegVar(v)
    [] op = "logsumexp" -> SegLogSumExp(v)
    [] op \in Bools -> SegBool(op = "any", v)
    [] op = "nansum" -> SegNanSum(v)
    [] op = "nanmean" -> SegNanMean(v)
    [] op = "count_nonzero" -> SegCount(v)
    [] op = "median" -> KthSelect(v, (Len(v) - 1) \div 2)
    [] op = "kthvalue" -> KthSelect(v, par)
    [] op = "quantile" -> SegQuantile(v, par)
    [] op = "mode" -> SegMode(v)
    [] op = "logsum" -> Total(v)
    [] op = "aminmax" -> <<Seg("min", v), Seg("max", v)>>
    [] op = "var_mean" -> <<SegVar(v), Seg("sum", v)>>
    [] op = "max_dim" -> <<Seg("max", v), SegArg("max", v)>>
    [] op = "min_dim" -> <<Seg("min", v), SegArg("min", v)>>

(* What the entry points add to make_reduce: an explicit result type must  *)
(* be the output's, and the 1-based k of kthvalue becomes a rank.          *)
Typed == {"sum", "mean", "prod", "nansum", "nanmean"}
EntryAccepts(op, dtype, outType) == op \in Typed => dtype \in {"undefined", outType}
EntryPar(op, par) == IF op = "kthvalue" THEN IF par > 0 THEN par - 1 ELSE 0 ELSE par

(* run_reduce, but for Renorm. *)
RunReduce(op, x, dims, dim, type, par, RT, MAXB) ==
  LET axes == NormalizeAxes(dim, Len(dims))
      d == BuildRdesc(dims, axes)
      fast == axes = DOMAIN dims /\ op \in FastFull
      vals(cells) == [j \in DOMAIN cells |-> x[cells[j]]]
  IN [ok |-> type \in (IF fast THEN {"float", "half", "int32"} ELSE SegTypes(op)),
      out |-> IF fast THEN [oi \in {0} |-> RunFull(x, Numel(dims), RT, MAXB, KindOf(op))]
              ELSE [oi \in 0 .. Numel(d.ks) - 1 |-> Segmented(op, vals(Region(d, oi)), type, par)]]

(* Renorm and k_renorm_scale: the p-norm of every slice, and with each     *)
(* element whether its slice is scaled down to maxnorm.                    *)
RenormAccepts(dims, dim, out) == dims = out /\ Normal(dim, Len(dims)) \in 0 .. Len(dims) - 1
Renorm(x, dims, dim, p, maxnorm) ==
  LET nd == Normal(dim, Len(dims)) + 1
      d == BuildRdesc(dims, DOMAIN dims \ {nd})
      bound == IF p = 1 THEN maxnorm ELSE Squared(maxnorm)
      norm(cells) == SegNorm(p, [j \in DOMAIN cells |-> x[cells[j]]])
      scaled(v, nv) == <<v, IF nv > bound THEN nv ELSE bound>>
      of(norms) == [i \in 0 .. Numel(dims) - 1 |-> scaled(x[i], norms[(i \div Inner(dims, nd)) % dims[nd]])]
  IN of([oi \in 0 .. Numel(d.ks) - 1 |-> norm(Region(d, oi))])

-----------------------------------------------------------------------------
(* Softmax.  make_sm, and run_sm's choice of kernel: a result is the       *)
(* weight of an element and the sum of its segment.                        *)
SoftmaxAccepts(self, out, dim) ==
  /\ self.dims = out.dims
  /\ Contiguous(self) /\ Contiguous(out)
  /\ Normal(dim, Len(self.dims)) \in 0 .. Len(self.dims) - 1

(* k_softmax_dim: one thread walks the segment. *)
SoftmaxDim(x, outer, L, inner) ==
  [i \in 0 .. outer * L * inner - 1 |->
     LET seg == ((i \div (L * inner)) * inner) + (i % inner)
         base == ((seg \div inner) * L * inner) + (seg % inner)
         v == [l \in 1 .. L |-> x[base + (l - 1) * inner]]
     IN <<Exp2(x[i] - SegLogSumExp(v)[1]), SegLogSumExp(v)[2]>>]

(* k_softmax_row: TB threads in warps of W lanes, a tree in each warp,     *)
(* thread 0 over the warps; the maximum first, then the sum.               *)
BlockReduce(v, W, kind, seed) ==
  FoldLeft(LAMBDA a, w : Rop(kind, a, TreeReduce(SubSeq(v, w * W + 1, (w + 1) * W), kind)),
           seed, [w \in 1 .. Len(v) \div W |-> w - 1])
SoftmaxRow(x, rows, L, TB, W) ==
  [i \in 0 .. rows * L - 1 |->
     LET base == (i \div L) * L
         row == [l \in 0 .. L - 1 |-> x[base + l]]
         mx == BlockReduce([t \in 1 .. TB |-> ThreadPartial(row, t - 1, TB, "max", -(10 ^ 6))], W, "max", -(10 ^ 6))
         e == [l \in 0 .. L - 1 |-> Exp2(row[l] - mx)]
         sum == BlockReduce([t \in 1 .. TB |-> ThreadPartial(e, t - 1, TB, "sum", 0)], W, "sum", 0)
     IN <<e[i - base], sum>>]

RunSoftmax(x, dims, dim, TB, W) ==
  LET k == Normal(dim, Len(dims)) + 1
  IN IF Inner(dims, k) = 1 THEN SoftmaxRow(x, Outer(dims, k), dims[k], TB, W)
     ELSE SoftmaxDim(x, Outer(dims, k), dims[k], Inner(dims, k))

-----------------------------------------------------------------------------
(* LayerNorm: the trailing dims are normalised together. *)
LayerNormAccepts(in, ns, weight, bias, out) ==
  LET cols == Numel(ns) IN
  /\ in.dims = out.dims /\ Contiguous(in) /\ Contiguous(out)
  /\ Len(ns) \in 1 .. Len(in.dims)
  /\ SubSeq(in.dims, Len(in.dims) - Len(ns) + 1, Len(in.dims)) = ns
  /\ weight \in {0, cols} /\ bias \in {0, cols}      \* 0: no such tensor

(* layernorm_kernel: sum and sum of squares by the tree; the variance is   *)
(* sq/n - mean^2.  An output is its centred value over n, the variance     *)
(* over n^2 and the affine position.                                       *)
LayerNorm(x, rows, cols, LT) ==
  LET of(row, f(_)) == TreeReduce([t \in 1 .. LT |->
        ThreadPartial([c \in 0 .. cols - 1 |-> f(x[row * cols + c])], t - 1, LT, "sum", 0)], "sum")
      s == [row \in 0 .. rows - 1 |-> of(row, LAMBDA v : v)]
      sq == [row \in 0 .. rows - 1 |-> of(row, Squared)]
  IN [mean |-> s,
      y |-> [i \in 0 .. rows * cols - 1 |->
               LET row == i \div cols
               IN [centred |-> cols * x[i] - s[row], var |-> cols * sq[row] - Squared(s[row]), affine |-> i % cols]]]

-----------------------------------------------------------------------------
(* Sorting, selection and scans along one dimension (cuda/src/ops/sort.cu) *)
(* on integers.  A tensor is seen as [outer, L, inner]; a segment is the   *)
(* sequence of its L values.  Exponentials are powers of two in units of   *)
(* 2^-ScanBits.                                                            *)
ScanBits == 12
PosInf == 10 ^ 6

(* before: positions, 0-based, break ties. *)
Before(va, ia, vb, ib, desc) ==
  IF va = vb THEN ia < ib ELSE IF desc THEN va > vb ELSE va < vb

(* seg_layout, and the flat index of position l of a segment. *)
SegLayout(dims, dim) ==
  [outer |-> Outer(dims, dim + 1), L |-> dims[dim + 1], inner |-> Inner(dims, dim + 1)]
SegmentAt(s, seg, l) == ((seg \div s.inner) * s.L * s.inner) + (seg % s.inner) + l * s.inner
Segment(x, s, seg) == [l \in 1 .. s.L |-> x[SegmentAt(s, seg, l - 1)]]

-----------------------------------------------------------------------------
(* Scans: the outputs of one segment. *)
CumScan(v, prod) ==
  LET acc[l \in 0 .. Len(v)] ==
        IF l = 0 THEN IF prod THEN 1 ELSE 0
        ELSE IF prod THEN acc[l - 1] * v[l] ELSE acc[l - 1] + v[l]
  IN [l \in DOMAIN v |-> acc[l]]

(* k_cummaxmin: the position stays on the first element that reached it. *)
CumMaxMin(v, max) ==
  LET best[l \in DOMAIN v] ==
        IF l = 1 THEN 1
        ELSE LET b == best[l - 1] IN IF (IF max THEN v[l] > v[b] ELSE v[l] < v[b]) THEN l ELSE b
  IN [l \in DOMAIN v |-> <<v[best[l]], best[l] - 1>>]

(* k_logcumsumexp: the running maximum and the sum relative to it; when    *)
(* the maximum grows the sum so far is rescaled.                           *)
LogCumSumExp(v) ==
  LET step[l \in DOMAIN v] ==
        IF l = 1 THEN <<v[1], 2 ^ ScanBits>>
        ELSE LET m == step[l - 1][1]
                 se == step[l - 1][2]
             IN IF v[l] > m THEN <<v[l], se \div (2 ^ (v[l] - m)) + 2 ^ ScanBits>>
                ELSE <<m, se + 2 ^ (ScanBits + v[l] - m)>>
  IN step

-----------------------------------------------------------------------------
(* k_sort: selection of the next index, for every position in turn. *)
SelectionSort(v, desc) ==
  LET L == Len(v)
      best(oi, p) ==
        FoldLeft(LAMBDA b, q : IF Before(v[oi[q] + 1], oi[q], v[oi[b] + 1], oi[b], desc) THEN q ELSE b,
                 p, [i \in 1 .. L - p |-> p + i])
      pass(oi, p) == LET b == best(oi, p) IN [oi EXCEPT ![p] = oi[b], ![b] = oi[p]]
  IN FoldLeft(pass, [p \in 1 .. L |-> p - 1], [p \in 1 .. L |-> p])

(* k_topk: every element whose rank is below k goes to the place of its    *)
(* rank.                                                                   *)
TopkByRank(v, k, largest) ==
  LET rank(l) == Cardinality({m \in DOMAIN v \ {l} : Before(v[m], m - 1, v[l], l - 1, largest)})
  IN [r \in 1 .. k |-> (CHOOSE l \in DOMAIN v : rank(l) = r - 1) - 1]

(* np2 *)
NextPower(n) == CHOOSE p \in {2 ^ e : e \in 0 .. n} : p >= n /\ (p = 1 \/ p \div 2 < n)

(* bit_init: the pad compares after every element of its segment. *)
BitInit(v, P, desc) ==
  [p \in 0 .. P - 1 |-> IF p < Len(v) THEN <<v[p + 1], p>> ELSE <<IF desc THEN -PosInf ELSE PosInf, p>>]

(* bit_step: the lower index of a pair is the one whose bit j is clear,    *)
(* and bit k of it gives the direction.                                    *)
BitStep(b, k, j, desc) ==
  LET swap(i) == LET before == Before(b[i][1], b[i][2], b[i + j][1], b[i + j][2], desc)
                 IN IF (i \div k) % 2 = 0 THEN ~before ELSE before
  IN [p \in DOMAIN b |-> IF (p \div j) % 2 = 0 THEN IF swap(p) THEN b[p + j] ELSE b[p]
                         ELSE IF swap(p - j) THEN b[p - j] ELSE b[p]]

(* bitonic_sort: the launches in order, then bit_gather of cnt positions. *)
BitonicSort(v, cnt, desc) ==
  LET P == NextPower(Len(v))
      merge[k \in Nat, j \in Nat, b \in [0 .. P - 1 -> Int \X Int]] ==
        IF k > P THEN b
        ELSE IF j = 0 THEN merge[2 * k, k, b]
        ELSE merge[k, j \div 2, BitStep(b, k, j, desc)]
      sorted == merge[2, 1, BitInit(v, P, desc)]
  IN [p \in 1 .. cnt |-> sorted[p - 1][2]]

-----------------------------------------------------------------------------
(* The two phases. *)
ScanAccepts(self, dim) == Contiguous(self) /\ Normal(dim, Len(self.dims)) \in 0 .. Len(self.dims) - 1
SortAccepts(self, dim) == ScanAccepts(self, dim)
TopkAccepts(self, k, dim, values, indices) ==
  LET d == Normal(dim, Len(self.dims)) IN
  /\ ScanAccepts(self, dim)
  /\ k > 0 /\ k <= self.dims[d + 1]
  /\ values[d + 1] = k /\ indices[d + 1] = k

(* bitonic_ws: a workspace is asked for when the bitonic path can be taken. *)
SortWorkspace(dims, dim) ==
  LET s == SegLayout(dims, dim)
  IN IF s.inner = 1 /\ s.L >= 2 THEN s.outer * NextPower(s.L) * 12 ELSE 0

(* run_sort: the result of every segment; the scans pass no workspace, and *)
(* the sorts pass what the caller gave them, ws.                           *)
RunSort(op, x, dims, dim0, k, desc, ws) ==
  LET dim == Normal(dim0, Len(dims))
      s == SegLayout(dims, dim)
      bit == ws > 0 /\ s.inner = 1 /\ s.L >= 2
      segment(v) ==
        CASE op \in {"cumsum", "cumprod"} -> CumScan(v, op = "cumprod")
          [] op \in {"cummax", "cummin"} -> CumMaxMin(v, op = "cummax")
          [] op = "logcumsumexp" -> LogCumSumExp(v)
          [] op = "sort" -> IF bit THEN BitonicSort(v, s.L, desc) ELSE SelectionSort(v, desc)
          [] op = "topk" -> IF bit THEN BitonicSort(v, k, desc) ELSE TopkByRank(v, k, desc)
  IN [seg \in 0 .. s.outer * s.inner - 1 |-> segment(Segment(x, s, seg))]
=============================================================================
