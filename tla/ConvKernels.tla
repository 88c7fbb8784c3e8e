---------------------------- MODULE ConvKernels ----------------------------
(***************************************************************************)
(* Convolutions (cuda/src/ops/conv.cu).  A convolution is trilinear in its *)
(* input x, weight w and output y, so an operator is the set of its links: *)
(* [x, w, y] when the product of cells x and w is added to cell y.  The    *)
(* forward pass collects the links of each y, the gradients those of each  *)
(* x or w.  cuDNN's part is its contract: the links of the descriptors it  *)
(* is given.  Interpolated taps have integer weights over a common         *)
(* denominator.                                                            *)
(***************************************************************************)
EXTENDS WindowKernels

Spatial(dims) == SubSeq(dims, 3, Len(dims))

CudnnLinks(xd, wd, yd, w, groups) ==
  LET per == yd[2] \div groups
  IN UNION {{[x |-> Flat(<<o[1], (o[2] \div per) * wd[2] + t[1]>> \o Tap(Spatial(o), t[2], w), xd),
              w |-> Flat(<<o[2], t[1]>> \o t[2], wd), y |-> Flat(o, yd)] :
               t \in {u \in (0 .. wd[2] - 1) \X Coords(Spatial(wd)) :
                        InBox(Tap(Spatial(o), u[2], w), Spatial(xd))}} : o \in Coords(yd)}

(* cuDNN accepts descriptors whose extents agree. *)
CudnnFits(xd, wd, yd, w, groups) ==
  /\ xd[1] = yd[1] /\ wd[1] = yd[2] /\ xd[2] = wd[2] * groups /\ yd[2] % groups = 0
  /\ Spatial(yd) = Unfolded(Spatial(xd), w)

(* The marshalling all entry points share: missing entries are 1, 0 and 1. *)
(* Mutant: the descriptor is given the stride in place of the dilation.    *)
MutantConvWindow(wd, stride, padding, dilation) ==
  [kernel |-> Spatial(wd), stride |-> OrElse(stride, All(1, Spatial(wd))),
   pad |-> OrElse(padding, All(0, Spatial(wd))), dil |-> OrElse(stride, All(1, Spatial(wd)))]
ConvWindow(wd, stride, padding, dilation) ==
  [kernel |-> Spatial(wd), stride |-> OrElse(stride, All(1, Spatial(wd))),
   pad |-> OrElse(padding, All(0, Spatial(wd))), dil |-> OrElse(dilation, All(1, Spatial(wd)))]
Groups(groups) == IF groups > 0 THEN groups ELSE 1

Collect(links, key(_), term(_), n) ==
  [i \in 0 .. n - 1 |-> {term(l) : l \in {k \in links : key(k) = i}}]

ConvolutionAccepts(x, w, y, bias, transposed, win, groups) ==
  /\ ~transposed
  /\ Len(x.dims) = 4 /\ Len(w.dims) = 4 /\ Len(y.dims) = 4
  /\ Contiguous(x) /\ Contiguous(w) /\ Contiguous(y)
  /\ bias = <<>> \/ bias = <<y.dims[2]>>
  /\ CudnnFits(x.dims, w.dims, y.dims, win, groups)

Convolution(xd, wd, yd, win, groups) ==
  Collect(CudnnLinks(xd, wd, yd, win, groups), LAMBDA l : l.y, LAMBDA l : <<l.x, l.w>>, Numel(yd))

Convolution3dAccepts(x, w, y, win, groups) ==
  /\ Len(x.dims) = 5 /\ Len(w.dims) = 5 /\ Len(y.dims) = 5
  /\ Contiguous(x) /\ Contiguous(w) /\ Contiguous(y)
  /\ CudnnFits(x.dims, w.dims, y.dims, win, groups)
Convolution3d(xd, wd, yd, win, groups) == Convolution(xd, wd, yd, win, groups)

(* A depthwise convolution has as many groups as input channels. *)
ConvDepthwise2d(xd, wd, yd, win) == Convolution(xd, wd, yd, win, xd[2])

ConvolutionBackwardDataAccepts(go, wd, gi, win, groups) ==
  Len(go) = 4 /\ Len(wd) = 4 /\ Len(gi) = 4 /\ CudnnFits(gi, wd, go, win, groups)
ConvolutionBackwardData(go, wd, gi, win, groups) ==
  Collect(CudnnLinks(gi, wd, go, win, groups), LAMBDA l : l.x, LAMBDA l : <<l.y, l.w>>, Numel(gi))

ConvolutionBackwardWeightAccepts(xd, go, gw, win, groups) ==
  Len(xd) = 4 /\ Len(go) = 4 /\ Len(gw) = 4 /\ CudnnFits(xd, gw, go, win, groups)
ConvolutionBackwardWeight(xd, go, gw, win, groups) ==
  Collect(CudnnLinks(xd, gw, go, win, groups), LAMBDA l : l.w, LAMBDA l : <<l.x, l.y>>, Numel(gw))

(* k_bias_grad: a channel's gradient sums its plane over the batch. *)
BiasGrad(go) ==
  LET SP == Numel(Spatial(go))
  IN [co \in 0 .. go[2] - 1 |-> {(n * go[2] + co) * SP + p : n \in 0 .. go[1] - 1, p \in 0 .. SP - 1}]

(* The output is the gradient with respect to the input of the convolution *)
(* that leads from the output to the input.                                *)
ConvolutionTranspose2dAccepts(xd, wd, yd, win, groups) ==
  Len(xd) = 4 /\ Len(wd) = 4 /\ Len(yd) = 4 /\ CudnnFits(yd, wd, xd, win, groups)
ConvolutionTranspose2d(xd, wd, yd, win, groups) == ConvolutionBackwardData(xd, wd, yd, win, groups)

(* ConvolutionBackward: the wanted gradients in turn, up to the first that *)
(* is refused.  Whether the convolution was transposed is not looked at.   *)
ConvolutionBackward(go, xd, wd, gi, gw, wanted, win, groups) ==
  LET first == "input" \in wanted => ConvolutionBackwardDataAccepts(go, wd, gi, win, groups)
      second == first /\ ("weight" \in wanted => ConvolutionBackwardWeightAccepts(xd, go, gw, win, groups))
  IN [status |-> second,
      input |-> IF "input" \in wanted /\ first THEN ConvolutionBackwardData(go, wd, gi, win, groups) ELSE <<>>,
      weight |-> IF "weight" \in wanted /\ second THEN ConvolutionBackwardWeight(xd, go, gw, win, groups) ELSE <<>>,
      bias |-> IF "bias" \in wanted /\ second THEN BiasGrad(go) ELSE <<>>]

(* cuDNN's pooling backward is told x, y and their gradients. *)
PoolBackwardAccepts(xd, yd, dy, dx) == Len(xd) = 4 /\ dx = xd /\ yd = dy
AvgPool2dBackward(xd, yd, kernel, stride, padding) ==
  AvgPool(Spatial(xd), Spatial(yd), kernel, stride, padding)

(* Pooling in three dimensions goes to cuDNN too; missing strides are the kernel's. *)
Pool3dAccepts(xd) == Len(xd) = 5
AvgPool3d(xd, yd, kernel, stride, padding) == AvgPool(Spatial(xd), Spatial(yd), kernel, stride, padding)

(* k_im2col and k_col2im: the input cell of entry i of the columns. *)
ColumnCell(i, N, C, sp, w) ==
  LET L == Numel(Unfolded(sp, w))
      CK == C * Numel(w.kernel)
      l == Coord(i % L, Unfolded(sp, w))
      kk == Coord((i \div L) % CK, <<C>> \o w.kernel)
      ih == l[1] * w.stride[1] - w.pad[1] + kk[2] * w.dil[1]
      iw == l[2] * w.stride[2] - w.pad[2] + kk[3] * w.dil[2]
  IN IF ih \in 0 .. sp[1] - 1 /\ iw \in 0 .. sp[2] - 1
     THEN (((i \div (CK * L)) * C + kk[1]) * sp[1] + ih) * sp[2] + iw ELSE Filled
Columns(N, C, sp, w) == 0 .. N * C * Numel(w.kernel) * Numel(Unfolded(sp, w)) - 1
Im2colColumns(xd, w) ==
  [i \in Columns(xd[1], xd[2], Spatial(xd), w) |-> ColumnCell(i, xd[1], xd[2], Spatial(xd), w)]
(* The gradient is zeroed, then entry i is added to its cell. *)
Im2colBackward(xd, w) ==
  [f \in 0 .. Numel(xd) - 1 |->
     {i \in Columns(xd[1], xd[2], Spatial(xd), w) : ColumnCell(i, xd[1], xd[2], Spatial(xd), w) = f}]

-----------------------------------------------------------------------------
(* ConvTbc: x[T, B, Cin], w[kW, Cin, Cout], y[oT, B, Cout]. *)
TbcAccepts(xd, wd) == Len(xd) = 3 /\ Len(wd) = 3

(* k_convtbc, thread i: the products added to y[i]. *)
ConvTbc(xd, wd, yd, pad) ==
  [i \in 0 .. yd[1] * xd[2] * wd[3] - 1 |->
     LET co == i % wd[3]
         b == (i \div wd[3]) % xd[2]
         t == i \div (wd[3] * xd[2])
     IN {<<((t + k - pad) * xd[2] + b) * xd[3] + ci, k * xd[3] * wd[3] + co + ci * wd[3]>> :
           k \in {j \in 0 .. wd[1] - 1 : t + j - pad \in 0 .. xd[1] - 1}, ci \in 0 .. xd[3] - 1}]

(* k_convtbc_bwd: what the threads add to each gradient, after it is zeroed. *)
TbcBackwardLinks(xd, wd, yd, pad) ==
  UNION {LET co == i % wd[3]
             b == (i \div wd[3]) % xd[2]
             t == i \div (wd[3] * xd[2])
         IN {[go |-> i, x |-> ((t + k - pad) * xd[2] + b) * xd[3] + ci, w |-> (k * xd[3] + ci) * wd[3] + co] :
               k \in {j \in 0 .. wd[1] - 1 : t + j - pad \in 0 .. xd[1] - 1}, ci \in 0 .. xd[3] - 1} :
         i \in 0 .. yd[1] * xd[2] * wd[3] - 1}
ConvTbcBackward(xd, wd, yd, pad) ==
  LET links == TbcBackwardLinks(xd, wd, yd, pad)
  IN [input |-> Collect(links, LAMBDA l : l.x, LAMBDA l : <<l.go, l.w>>, Numel(xd)),
      weight |-> Collect(links, LAMBDA l : l.w, LAMBDA l : <<l.x, l.go>>, Numel(wd)),
      bias |-> [co \in 0 .. wd[3] - 1 |-> {i \in 0 .. Numel(yd) - 1 : i % wd[3] = co}]]

-----------------------------------------------------------------------------
(* Interpolation at the point <<y, x>> / den of an H x W plane: bilin2's   *)
(* four taps with weights over den * den, those of weight zero left out.   *)
Corners(y, x, den) ==
  {[at |-> <<y \div den + a, x \div den + b>>,
    w |-> (IF a = 0 THEN den - (y % den) ELSE y % den) * (IF b = 0 THEN den - (x % den) ELSE x % den)] :
     a \in 0 .. 1, b \in 0 .. 1}
Bilin2(H, W, y, x, den) ==
  IF y <= -den \/ y >= H * den \/ x <= -den \/ x >= W * den THEN {}
  ELSE {c \in Corners(y, x, den) : InBox(c.at, <<H, W>>) /\ c.w # 0}

(* k_deform_conv, thread i: the taps [x, w, mask, weight]; offset is in halves. *)
DeformableConv2d(xd, wd, yd, win, offset) ==
  LET KK == Numel(win.kernel)
      osp == Spatial(yd)
      step(o, kidx, axis) == offset[Flat(<<o[1], 2 * kidx + axis>> \o Spatial(o), <<yd[1], 2 * KK>> \o osp)]
  IN [i \in 0 .. Numel(yd) - 1 |->
        LET o == Coord(i, yd)
        IN UNION {LET kidx == Flat(a, win.kernel)
                      p == Tap(Spatial(o), a, win)
                      taps == Bilin2(xd[3], xd[4], 2 * p[1] + step(o, kidx, 0), 2 * p[2] + step(o, kidx, 1), 2)
                  IN {[x |-> Flat(<<o[1], ci>> \o t.at, xd), w |-> Flat(<<o[2], ci>> \o a, wd),
                       mask |-> Flat(<<o[1], kidx>> \o Spatial(o), <<yd[1], KK>> \o osp), weight |-> t.w] :
                        ci \in 0 .. xd[2] - 1, t \in taps} : a \in Coords(win.kernel)}]

DeformableConv2dAccepts(xd, wd) == Len(xd) = 4 /\ Len(wd) = 4

(* Its second phase takes the output's extents as they are. *)
QuantConvolutionAccepts(xd) == Len(xd) = 4

(* k_quant_conv: one group, no dilation, whatever the call asks. *)
QuantConvolution(xd, wd, yd, stride, padding) ==
  [i \in 0 .. Numel(yd) - 1 |->
     LET o == Coord(i, yd)
         at(a) == [d \in 1 .. 2 |-> o[d + 2] * stride[d] - padding[d] + a[d]]
     IN {<<Flat(<<o[1], t[1]>> \o at(t[2]), xd), Flat(<<o[2], t[1]>> \o t[2], wd)>> :
           t \in {u \in (0 .. xd[2] - 1) \X Coords(Spatial(wd)) : InBox(at(u[2]), Spatial(xd))}}]

(* Multi-scale deformable attention.  value[N, S, nH, hd]; level l is the  *)
(* plane shapes[l + 1] at row start[l + 1]; a sampling point is <<x, y>>   *)
(* in quarters of the plane, si its index in attn[N, Lq, nH, L, P].        *)
MsdaTaps(shapes, start, point, l) ==
  LET hw == shapes[l + 1]
  IN {[row |-> start[l + 1] + c.at[1] * hw[2] + c.at[2], w |-> c.w] :
        c \in {k \in Corners(point[2] * hw[1] - 2, point[1] * hw[2] - 2, 4) : InBox(k.at, hw) /\ k.w # 0}}

MultiScaleDeformableAttn(vd, shapes, start, samp, Lq, L, P) ==
  [i \in 0 .. vd[1] * Lq * vd[3] * vd[4] - 1 |->
     LET o == Coord(i, <<vd[1], Lq, vd[3], vd[4]>>)
     IN UNION {LET si == Flat(<<o[1], o[2], o[3], l, p>>, <<vd[1], Lq, vd[3], L, P>>)
               IN {[attn |-> si, value |-> Flat(<<o[1], t.row, o[3], o[4]>>, vd), w |-> t.w] :
                     t \in MsdaTaps(shapes, start, samp[si], l)} : l \in 0 .. L - 1, p \in 0 .. P - 1}]

(* Its gradient has a thread per sampling point; the points get none. *)
MsdaGradLinks(vd, shapes, start, samp, Lq, L, P) ==
  UNION {LET s == Coord(si, <<vd[1], Lq, vd[3], L, P>>)
         IN {[attn |-> si, go |-> ((s[1] * Lq + s[2]) * vd[3] + s[3]) * vd[4] + d,
              value |-> ((s[1] * vd[2] + t.row) * vd[3] + s[3]) * vd[4] + d, w |-> t.w] :
               d \in 0 .. vd[4] - 1, t \in MsdaTaps(shapes, start, samp[si], s[4])} :
         si \in 0 .. vd[1] * Lq * vd[3] * L * P - 1}
MultiScaleDeformableAttentionGrad(vd, shapes, start, samp, Lq, L, P) ==
  LET links == MsdaGradLinks(vd, shapes, start, samp, Lq, L, P)
  IN [value |-> Collect(links, LAMBDA l : l.value, LAMBDA l : [go |-> l.go, attn |-> l.attn, w |-> l.w], Numel(vd)),
      attn |-> Collect(links, LAMBDA l : l.attn, LAMBDA l : [go |-> l.go, value |-> l.value, w |-> l.w],
                       vd[1] * Lq * vd[3] * L * P)]
=============================================================================
