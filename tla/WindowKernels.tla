--------------------------- MODULE WindowKernels ---------------------------
(***************************************************************************)
(* Operators that read or write a neighbourhood of each output cell:       *)
(* boundary padding and im2col (cuda/src/ops/shape.cu), pooling,           *)
(* upsampling, region pooling and their gradients (pool_ext.cu, conv.cu).  *)
(* A plane is one (n, c) pair; sp are the input's spatial dims and osp the *)
(* output's.  A forward operator gives, for each flat output index, the    *)
(* input cells it reads; a backward one gives the cell each thread adds to.*)
(***************************************************************************)
EXTENDS TensorLayout

-----------------------------------------------------------------------------
(* Boundary padding.  The per-mode index repair, bfix in the source. *)
Fix(mode, x0, n) ==
  LET reflected[x \in Int] ==
        IF x \in 0 .. n - 1 THEN x
        ELSE LET y == IF x < 0 THEN -x ELSE x
             IN reflected[IF y >= n THEN 2 * (n - 1) - y ELSE y]
  IN CASE mode = "replicate" -> IF x0 < 0 THEN 0 ELSE IF x0 >= n THEN n - 1 ELSE x0
       [] mode = "circular" -> Remainder(Remainder(x0, n) + n, n)
       [] mode = "reflect" -> IF n = 1 THEN 0 ELSE reflected[x0]

(* padding = <<left, right, top, bottom, ...>>, innermost dimension first. *)
Before(padding, sp) == [d \in DOMAIN sp |-> padding[2 * (Len(sp) - d) + 1]]
After(padding, sp) == [d \in DOMAIN sp |-> padding[2 * (Len(sp) - d) + 2]]
Padded(padding, sp) == [d \in DOMAIN sp |-> sp[d] + Before(padding, sp)[d] + After(padding, sp)[d]]

PadNd(mode, planes, sp, padding) ==
  LET osp == Padded(padding, sp)
  IN [i \in 0 .. planes * Numel(osp) - 1 |->
        LET oc == Coord(i, <<planes>> \o osp)
            c == [d \in DOMAIN sp |-> Fix(mode, oc[d + 1] - Before(padding, sp)[d], sp[d])]
        IN Flat(<<oc[1]>> \o c, <<planes>> \o sp)]

(* The three entry points differ in the number of padded dimensions. *)
Pad1dAccepts(padding, rank) == Len(padding) = 2 /\ rank >= 1
Pad2dAccepts(padding, rank) == Len(padding) = 4 /\ rank >= 2
Pad3dAccepts(padding, rank) == Len(padding) = 6 /\ rank >= 3

(* The gradient's own index repair, which reflects once (padsrc). *)
PadSource(o, n, before, mode) ==
  LET j == o - before
  IN CASE mode = "reflect" -> LET a == IF j < 0 THEN -j ELSE j
                              IN IF a >= n THEN 2 * (n - 1) - a ELSE a
       [] mode = "replicate" -> IF j < 0 THEN 0 ELSE IF j >= n THEN n - 1 ELSE j
       [] mode = "circular" -> LET a == Remainder(j, n) IN IF a < 0 THEN a + n ELSE a

(* k_pad_bwd: the cell each thread adds its gradient to; a negative source is dropped. *)
PadNdBackward(mode, planes, sp, padding) ==
  LET osp == Padded(padding, sp)
  IN [i \in 0 .. planes * Numel(osp) - 1 |->
        LET oc == Coord(i, <<planes>> \o osp)
            c == [d \in DOMAIN sp |->
                    PadSource(oc[d + 1], sp[d], Before(padding, sp)[d], mode)]
        IN IF \E d \in DOMAIN c : c[d] < 0 THEN Filled
           ELSE Flat(<<oc[1]>> \o c, <<planes>> \o sp)]

-----------------------------------------------------------------------------
(* Windows.  An optional list gives its own value or the fallback's. *)
OrElse(v, fallback) == [d \in DOMAIN fallback |-> IF d \in DOMAIN v THEN v[d] ELSE fallback[d]]
All(n, sp) == [d \in DOMAIN sp |-> n]

InBox(c, sp) == \A d \in DOMAIN sp : c[d] \in 0 .. sp[d] - 1

(* Where tap a of the window at output position oc falls, in or out of the plane. *)
Tap(oc, a, w) == [d \in DOMAIN a |-> oc[d] * w.stride[d] - w.pad[d] + a[d] * w.dil[d]]

(* The in-plane flat indices of the window: taps outside are skipped. *)
Taps(oc, sp, w) ==
  {Flat(c, sp) : c \in {x \in {Tap(oc, a, w) : a \in Coords(w.kernel)} : InBox(x, sp)}}

(* MaxPool*'s marshalling: stride defaults to the kernel, padding to 0. *)
PoolWindow(kernel, stride, padding) ==
  [kernel |-> kernel, stride |-> OrElse(stride, kernel),
   pad |-> OrElse(padding, All(0, kernel)), dil |-> All(1, kernel)]

Lowest == -1000

(* The running maximum keeps the first of equals; no tap leaves index 0. *)
Best(x, cells) ==
  IF \E f \in cells : x[f] > Lowest
  THEN CHOOSE f \in cells : \A g \in cells : x[g] < x[f] \/ (x[g] = x[f] /\ f <= g)
  ELSE 0
BestValue(x, cells) == IF \E f \in cells : x[f] > Lowest THEN x[Best(x, cells)] ELSE Lowest

(* k_maxpool_idx and k_maxpool3d_argmax, for one plane x. *)
MaxPoolIndices(x, sp, osp, w) ==
  [i \in 0 .. Numel(osp) - 1 |->
     LET cells == Taps(Coord(i, osp), sp, w)
     IN [value |-> BestValue(x, cells), index |-> Best(x, cells)]]

MaxPool2dWithIndices(x, sp, osp, kernel, stride, padding) ==
  MaxPoolIndices(x, sp, osp, [kernel |-> kernel, stride |-> stride, pad |-> padding,
                              dil |-> All(1, kernel)])
MaxPool3dWithArgmax(x, sp, osp, kernel, stride, padding) ==
  MaxPoolIndices(x, sp, osp, PoolWindow(kernel, stride, padding))

(* k_pool1d: the taps one output reads, and what the average divides by. *)
Pool1d(sp, osp, k, stride, pad) ==
  LET w == [kernel |-> <<k>>, stride |-> <<IF stride = 0 THEN k ELSE stride>>,
            pad |-> <<pad>>, dil |-> <<1>>]
  IN [i \in 0 .. Numel(osp) - 1 |->
        LET cells == Taps(Coord(i, osp), sp, w)
        IN [cells |-> cells, over |-> IF cells = {} THEN 1 ELSE Cardinality(cells)]]

(* cuDNN's average that counts no padding, as pool_run and pool3d_run ask. *)
AvgPool(sp, osp, kernel, stride, padding) ==
  [i \in 0 .. Numel(osp) - 1 |->
     LET cells == Taps(Coord(i, osp), sp, PoolWindow(kernel, stride, padding))
     IN [cells |-> cells, over |-> Cardinality(cells)]]

(* k_avgpool3d_bwd: every tap in the plane gets the gradient over the whole window. *)
AvgPool3dBackward(sp, osp, kernel, stride, padding) ==
  [i \in 0 .. Numel(osp) - 1 |->
     [cells |-> Taps(Coord(i, osp), sp, PoolWindow(kernel, stride, padding)),
      over |-> Numel(kernel)]]

(* k_lppool2d: windows start on the plane, so only their far side is clipped. *)
LpPool2d(sp, osp, kernel, stride) ==
  [i \in 0 .. Numel(osp) - 1 |->
     Taps(Coord(i, osp), sp, PoolWindow(kernel, stride, <<>>))]

(* Adaptive regions: from floor(o n / m) to ceil((o + 1) n / m). *)
RegionFrom(o, n, m) == (o * n) \div m
RegionTo(o, n, m) == ((o + 1) * n) \div m + (IF ((o + 1) * n) % m = 0 THEN 0 ELSE 1)
Region(oc, sp, osp) ==
  {f \in 0 .. Numel(sp) - 1 :
     \A d \in DOMAIN sp : Coord(f, sp)[d] \in RegionFrom(oc[d], sp[d], osp[d])
                                              .. RegionTo(oc[d], sp[d], osp[d]) - 1}

AdaptiveMax2d(x, sp, osp) ==
  [i \in 0 .. Numel(osp) - 1 |->
     LET oc == Coord(i, osp)
         cells == Region(oc, sp, osp)
         first == Flat([d \in DOMAIN sp |-> RegionFrom(oc[d], sp[d], osp[d])], sp)
     IN [value |-> BestValue(x, cells),
         index |-> IF \E f \in cells : x[f] > Lowest THEN Best(x, cells) ELSE first]]

AdaptiveMax3d(x, sp, osp) ==
  [i \in 0 .. Numel(osp) - 1 |-> BestValue(x, Region(Coord(i, osp), sp, osp))]

AdaptiveAvg3d(sp, osp) ==
  [i \in 0 .. Numel(osp) - 1 |->
     LET cells == Region(Coord(i, osp), sp, osp) IN [cells |-> cells, over |-> Cardinality(cells)]]

(* Mutant: the end of a region rounds down. *)
MutantCeilTo(o, n, m) == ((o + 1) * n) \div m

(* AdaptiveAvgPool2d of conv.cu and the 3-d gradient take ceil as (x + m - 1) / m. *)
CeilTo(o, n, m) == ((o + 1) * n + m - 1) \div m
Volume(oc, sp, osp) ==
  Numel([d \in DOMAIN sp |-> CeilTo(oc[d], sp[d], osp[d]) - RegionFrom(oc[d], sp[d], osp[d])])
CeilRegion(oc, sp, osp) ==
  {f \in 0 .. Numel(sp) - 1 :
     \A d \in DOMAIN sp : Coord(f, sp)[d] \in RegionFrom(oc[d], sp[d], osp[d])
                                              .. CeilTo(oc[d], sp[d], osp[d]) - 1}

AdaptiveAvg2d(sp, osp) ==
  [i \in 0 .. Numel(osp) - 1 |->
     [cells |-> CeilRegion(Coord(i, osp), sp, osp), over |-> Volume(Coord(i, osp), sp, osp)]]
AdaptiveAvg3dBackward(sp, osp) ==
  [i \in 0 .. Numel(osp) - 1 |->
     [cells |-> CeilRegion(Coord(i, osp), sp, osp), over |-> Volume(Coord(i, osp), sp, osp)]]

-----------------------------------------------------------------------------
(* Pooling by stored indices.  k_scatter adds gradients or stores values,  *)
(* and k_maxunpool stores without checking its index; k_gather reads back. *)
ScatterTarget(i, idx, source, size) ==
  IF idx[i] \in 0 .. size - 1 THEN (i \div source) * size + idx[i] ELSE Filled
UnpoolTarget(i, idx, source, size) == (i \div source) * size + idx[i]
GatherSource(i, idx, outSize, size) ==
  IF idx[i] \in 0 .. size - 1 THEN (i \div outSize) * size + idx[i] ELSE Filled

(* The number of planes of a gradient tensor. *)
PlanesOf(dims) == IF Len(dims) >= 2 THEN dims[1] * dims[2] ELSE dims[1]

MaxPoolBackward(indims, outdims, idx) ==
  LET planes == PlanesOf(indims)
      source == Numel(outdims) \div planes
  IN [i \in 0 .. planes * source - 1 |->
        ScatterTarget(i, idx, source, Numel(indims) \div planes)]

MaxUnpool2d(outdims, H, W, idx) ==
  [i \in 0 .. Numel(outdims) - 1 |-> UnpoolTarget(i, idx, outdims[3] * outdims[4], H * W)]

MaxUnpool3d(indims, outdims, idx) ==
  LET planes == PlanesOf(outdims)
      source == Numel(indims) \div planes
  IN [i \in 0 .. planes * source - 1 |->
        ScatterTarget(i, idx, source, Numel(outdims) \div planes)]

MaxUnpoolBackward(indims, outdims, idx) ==
  LET planes == PlanesOf(indims)
      size == Numel(indims) \div planes
  IN [i \in 0 .. planes * size - 1 |->
        GatherSource(i, idx, size, Numel(outdims) \div planes)]

-----------------------------------------------------------------------------
(* Im2Col: out is [N, C kh kw, oH oW]; a tap outside the plane reads zero. *)
Unfolded(sp, w) ==
  [d \in DOMAIN sp |->
     Quotient(sp[d] + 2 * w.pad[d] - w.dil[d] * (w.kernel[d] - 1) - 1, w.stride[d]) + 1]

Im2Col(N, C, sp, w) ==
  LET osp == Unfolded(sp, w)
  IN [i \in 0 .. N * C * Numel(w.kernel) * Numel(osp) - 1 |->
        LET c == Coord(i, <<N, C>> \o w.kernel \o osp)
            at == Tap(SubSeq(c, 5, 6), SubSeq(c, 3, 4), w)
        IN IF InBox(at, sp) THEN Flat(<<c[1], c[2]>> \o at, <<N, C>> \o sp) ELSE Filled]

(* k_col2im: the cell each column entry is added to. *)
Col2Im(N, C, sp, w) ==
  LET osp == Unfolded(sp, w)
      L == Numel(osp)
      CK == C * Numel(w.kernel)
  IN [i \in 0 .. N * CK * L - 1 |->
        LET krow == (i \div L) % CK
            l == i % L
            ih == (l \div osp[2]) * w.stride[1] - w.pad[1]
                  + ((krow \div w.kernel[2]) % w.kernel[1]) * w.dil[1]
            iw == (l % osp[2]) * w.stride[2] - w.pad[2] + (krow % w.kernel[2]) * w.dil[2]
            plane == (i \div (L * CK)) * C + krow \div Numel(w.kernel)
        IN IF ih \in 0 .. sp[1] - 1 /\ iw \in 0 .. sp[2] - 1
           THEN (plane * sp[1] + ih) * sp[2] + iw ELSE Filled]

-----------------------------------------------------------------------------
(* Upsampling, one axis at a time: taps with integer weights over a common *)
(* denominator.  Float positions are taken as the exact quotients.         *)
Least(m, n) == IF m < n THEN m ELSE n
Greatest(m, n) == IF m > n THEN m ELSE n

NearestTap(o, n, m) == Least((o * n) \div m, n - 1)

(* The source position of output o: numerator over Scale. *)
Scale(m, align) == IF align THEN Greatest(m - 1, 1) ELSE 2 * m
Position(o, n, m, align) ==
  IF align THEN (IF m > 1 THEN o * (n - 1) ELSE 0) ELSE (2 * o + 1) * n - m

LinearTaps(o, n, m, align) ==
  LET q == Scale(m, align)
      p == Greatest(Position(o, n, m, align), 0)
      lo == p \div q
  IN <<[at |-> lo, w |-> q - (p % q)], [at |-> Least(lo + 1, n - 1), w |-> p % q]>>

(* cubicw over 4 q^3, at distance p / q. *)
CubicWeight(p, q) ==
  CASE p <= q -> (5 * p - 9 * q) * p * p + 4 * q * q * q
    [] p > q /\ p < 2 * q -> -3 * (p * p * p - 5 * p * p * q + 8 * p * q * q - 4 * q * q * q)
    [] OTHER -> 0

CubicTaps(o, n, m, align) ==
  LET q == Scale(m, align)
      p == Position(o, n, m, align)
      lo == p \div q
  IN [k \in 1 .. 4 |->
        LET t == (p % q) - (k - 2) * q
        IN [at |-> Least(Greatest(lo + k - 2, 0), n - 1),
            w |-> CubicWeight(IF t < 0 THEN -t ELSE t, q)]]

UpsampleNearest2d(planes, sp, osp) ==
  [i \in 0 .. planes * Numel(osp) - 1 |->
     LET c == Coord(i, <<planes>> \o osp)
     IN Flat(<<c[1], NearestTap(c[2], sp[1], osp[1]), NearestTap(c[3], sp[2], osp[2])>>,
             <<planes>> \o sp)]

-----------------------------------------------------------------------------
(* RoiPoolingWithArgMax: a region of interest <<batch, x1, y1, x2, y2>> in *)
(* rounded cell coordinates is cut in ph x pw bins, clipped to the plane.  *)
Clip(v, n) == Least(Greatest(v, 0), n)
Bin(p, from, to, parts, n) ==
  LET extent == Greatest(to - from + 1, 1)
  IN Clip(from + (p * extent) \div parts, n)
     .. Clip(from + ((p + 1) * extent + parts - 1) \div parts, n) - 1

RoiPool(x, C, sp, rois, bins) ==
  [i \in 0 .. Len(rois) * C * Numel(bins) - 1 |->
     LET c == Coord(i, <<Len(rois), C>> \o bins)
         r == rois[c[1] + 1]
         plane == (r[1] * C + c[2]) * Numel(sp)
         values == [f \in 0 .. Numel(sp) - 1 |-> x[plane + f]]
         best(cells) == [value |-> IF cells = {} THEN 0 ELSE BestValue(values, cells),
                         index |-> IF cells = {} THEN 0 ELSE Best(values, cells),
                         empty |-> cells = {}]
     IN best({Flat(<<h, v>>, sp) : h \in Bin(c[3], r[3], r[5], bins[1], sp[1]),
                                   v \in Bin(c[4], r[2], r[4], bins[2], sp[2])})]

(* k_roipool_bwd: each bin's gradient is added at its stored index. *)
RoiPoolGrad(C, sp, rois, bins, argmax) ==
  [i \in 0 .. Len(rois) * C * Numel(bins) - 1 |->
     LET c == Coord(i, <<Len(rois), C>> \o bins)
     IN IF argmax[i] < 0 THEN Filled
        ELSE (rois[c[1] + 1][1] * C + c[2]) * Numel(sp) + argmax[i]]

-----------------------------------------------------------------------------
(* Nms.  k_argsort_desc: selection sort of the box numbers by score. *)
Swapped(s, i, j) == [s EXCEPT ![i] = s[j], ![j] = s[i]]
ArgsortDesc(scores) ==
  LET M == Len(scores)
      best(order, i) == CHOOSE b \in i .. M :
                          \A j \in i .. M : scores[order[j]] < scores[order[b]]
                                            \/ (scores[order[j]] = scores[order[b]] /\ b <= j)
  IN FoldLeft(LAMBDA order, i : Swapped(order, i, best(order, i)),
              [i \in 1 .. M |-> i], [i \in 1 .. M |-> i])

(* boxes are <<x1, y1, x2, y2>>; iou is a quotient <<num, den>>. *)
Overlap(a, b, iou) ==
  LET side(lo1, lo2, hi1, hi2) == Greatest(0, Least(hi1, hi2) - Greatest(lo1, lo2))
      area(x) == (x[3] - x[1]) * (x[4] - x[2])
      inter == side(a[1], b[1], a[3], b[3]) * side(a[2], b[2], a[4], b[4])
      union == area(a) + area(b) - inter
  IN union > 0 /\ inter * iou[2] > iou[1] * union

(* k_nms: the kept boxes in order; a kept box removes the later ones it overlaps. *)
Nms(boxes, order, iou) ==
  LET later(a) == {order[b] : b \in {n \in a + 1 .. Len(order) :
                                       Overlap(boxes[order[a]], boxes[order[n]], iou)}}
      visit(st, a) == IF order[a] \in st.removed THEN st
                      ELSE [kept |-> Append(st.kept, order[a]),
                            removed |-> st.removed \union later(a)]
  IN FoldLeft(visit, [kept |-> <<>>, removed |-> {}], [a \in DOMAIN order |-> a]).kept
=============================================================================
