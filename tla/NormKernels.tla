----------------------------- MODULE NormKernels -----------------------------
(***************************************************************************)
(* The normalisations of cuda/src/ops/norm_ext.cu on integers.  Inverse    *)
(* roots are not taken: an output keeps the value to scale, the statistic  *)
(* it is scaled by (a fraction; epsilon is left out) and the position of   *)
(* its affine weight.  A block has TB threads in warps of W lanes.         *)
(***************************************************************************)
EXTENDS ReduceKernels

Row(x, r, D) == [d \in 0 .. D - 1 |-> x[r * D + d]]
Elementwise(x, y, F(_, _)) == [i \in DOMAIN x |-> F(x[i], y[i])]
Each(x, F(_)) == [i \in DOMAIN x |-> F(x[i])]

(* blk_sum: a tree in each warp, then thread 0 over the warps. *)
BlkSum(v, TB, W) == BlockReduce([t \in 1 .. TB |-> ThreadPartial(v, t - 1, TB, "sum", 0)], W, "sum", 0)
(* The halving tree over all threads that the older kernels use. *)
TreeSum(v, TB) == TreeReduce([t \in 1 .. TB |-> ThreadPartial(v, t - 1, TB, "sum", 0)], "sum")

(* Mean and variance of a group v of n values: the sum s, and the variance *)
(* by Sum x^2 (one pass) or by Sum (x - mean)^2 (two).                     *)
OnePass(v, n, TB, W) ==
  LET from(s) == [s |-> s, var |-> <<n * BlkSum(Each(v, Squared), TB, W) - Squared(s), n * n>>]
  IN from(BlkSum(v, TB, W))
TwoPass(v, n, TB, W) ==
  LET from(s) == [s |-> s, var |-> <<BlkSum(Each(v, LAMBDA a : Squared(n * a - s)), TB, W), n * n * n>>]
  IN from(BlkSum(v, TB, W))

Standardised(v, n, st, affine) == [num |-> n * v - st.s, var |-> st.var, affine |-> affine]

-----------------------------------------------------------------------------
(* One block per row of D elements. *)
RmsFast(x, rows, D, TB, W) ==
  LET ss == [r \in 0 .. rows - 1 |-> BlkSum(Each(Row(x, r, D), Squared), TB, W)]
  IN [i \in 0 .. rows * D - 1 |-> [num |-> x[i], var |-> <<ss[i \div D], D>>, affine |-> i % D]]
RmsNormPlan(self, gamma, out) ==
  LET D == Last(self.dims)
  IN [ok |-> self.dims = out /\ Contiguous(self) /\ gamma \in {<<>>, <<D>>}, rows |-> Numel(self.dims) \div D, D |-> D]

(* Mutant: the group's first channel is forgotten. *)
MutantGnFast(x, C, HW, G, N, TB, W) ==
  LET Cg == C \div G
      cnt == Cg * HW
      base(blk) == ((blk \div G) * C + (blk % G) * Cg) * HW
      cell(st, f, blk) == Standardised(x[f], cnt, st[blk], (f - base(blk)) \div HW)
      of(st) == [f \in 0 .. N * C * HW - 1 |-> cell(st, f, CHOOSE blk \in DOMAIN st : f \in base(blk) .. base(blk) + cnt - 1)]
  IN of(Tabulated([blk \in 0 .. N * G - 1 |-> OnePass([i \in 0 .. cnt - 1 |-> x[base(blk) + i]], cnt, TB, W)]))

(* k_gn_fast: one block per (image, group). *)
GnFast(x, C, HW, G, N, TB, W) ==
  LET Cg == C \div G
      cnt == Cg * HW
      base(blk) == ((blk \div G) * C + (blk % G) * Cg) * HW
      cell(st, f, blk) == Standardised(x[f], cnt, st[blk], (blk % G) * Cg + (f - base(blk)) \div HW)
      of(st) == [f \in 0 .. N * C * HW - 1 |-> cell(st, f, CHOOSE blk \in DOMAIN st : f \in base(blk) .. base(blk) + cnt - 1)]
  IN of(Tabulated([blk \in 0 .. N * G - 1 |-> OnePass([i \in 0 .. cnt - 1 |-> x[base(blk) + i]], cnt, TB, W)]))
PerChannel(v, C) == v \in {<<>>, <<C>>}
GroupNormPlan(self, gamma, beta, G, out) ==
  LET C == self.dims[2] IN
  [ok |-> /\ self.dims = out /\ Contiguous(self) /\ Len(self.dims) >= 2
          /\ G > 0 /\ C % G = 0 /\ PerChannel(gamma, C) /\ PerChannel(beta, C),
   N |-> self.dims[1], C |-> C, HW |-> Numel(self.dims) \div (self.dims[1] * C)]

(* k_bn: the statistics of the channel are given. *)
Bn(x, C, HW) == [i \in DOMAIN x |-> <<x[i], (i \div HW) % C>>]
BatchNormPlan(self, mean, var, out) ==
  LET C == self.dims[2] IN
  [ok |-> self.dims = out /\ Contiguous(self) /\ Len(self.dims) >= 2 /\ mean = <<C>> /\ var = <<C>>, C |-> C]
RunBatchNorm(x, dims) == Bn(x, dims[2], Numel(dims) \div (dims[1] * dims[2]))

-----------------------------------------------------------------------------
(* The fused forms.  mem holds the buffers, so that an output may share    *)
(* the buffer of an input: pass 1 writes the sum, pass 2 reads it back.    *)

AddRms(mem, x, res, ysum, rows, D, TB, W) ==
  LET after == [mem EXCEPT ![ysum] = Elementwise(mem[x], mem[res], +)]
  IN [sum |-> after[ysum], y |-> RmsFast(after[ysum], rows, D, TB, W)]

LnRows(x, rows, D, TB, W, passes) ==
  LET of(st) == [i \in 0 .. rows * D - 1 |-> Standardised(x[i], D, st[i \div D], i % D)]
  IN of([r \in 0 .. rows - 1 |-> IF passes = 1 THEN OnePass(Row(x, r, D), D, TB, W) ELSE TwoPass(Row(x, r, D), D, TB, W)])

(* k_add_rmsnorm, k_add_layernorm, k_deepnorm *)
AddRmsNorm(mem, x, res, ysum, rows, D, TB, W) == AddRms(mem, x, res, ysum, rows, D, TB, W)
AddLayerNorm(mem, x, res, ysum, rows, D, TB, W) ==
  LET after == [mem EXCEPT ![ysum] = Elementwise(mem[x], mem[res], +)]
  IN [sum |-> after[ysum], y |-> LnRows(after[ysum], rows, D, TB, W, 1)]
DeepNorm(x, gx, alpha, rows, D, TB, W) ==
  LnRows(Elementwise(x, gx, LAMBDA a, b : alpha * a + b), rows, D, TB, W, 1)

AddNormPlan(x, residual, y) ==
  [ok |-> x.dims = residual /\ y = x.dims, D |-> Last(x.dims), rows |-> Numel(x.dims) \div Last(x.dims)]
DeepNormPlan(x, gx, gamma, beta, out) ==
  LET D == Last(x.dims) IN
  [ok |-> x.dims = out /\ gx = x.dims /\ Contiguous(x) /\ PerChannel(gamma, D) /\ PerChannel(beta, D),
   D |-> D, rows |-> Numel(x.dims) \div D]

(* k_glu: out = act(a) * b of the two halves of the last dim, as <<a, b>>. *)
Glu(in, rows, D) == [i \in 0 .. rows * D - 1 |-> <<in[(i \div D) * 2 * D + (i % D)], in[(i \div D) * 2 * D + D + (i % D)]>>]
GluPlan(self, out) == [ok |-> Last(self.dims) = 2 * Last(out), D |-> Last(out), rows |-> Numel(out) \div Last(out)]

-----------------------------------------------------------------------------
(* Gradients of a row (g the product of dy and gamma): an element of dx    *)
(* over its statistic, and for the weights one term of every row, which    *)
(* atomic additions combine.                                               *)
RmsBwd(dy, x, g, rows, D, TB, W) ==
  LET A(r) == BlkSum(Each(Row(x, r, D), Squared), TB, W)
      B(r) == BlkSum(Elementwise(Row(x, r, D), Row(g, r, D), LAMBDA a, b : a * b), TB, W)
  IN [dx |-> [i \in 0 .. rows * D - 1 |-> g[i] * A(i \div D) - x[i] * B(i \div D)],
      dgamma |-> [d \in 0 .. D - 1 |-> [r \in 0 .. rows - 1 |-> dy[r * D + d] * x[r * D + d]]]]

(* The gradient of a standardised group: c is the centred input over n, V  *)
(* the sum of its squares; over the deviation and n * V.                   *)
GradOf(g, c, V, n) ==
  LET sg == Total(g)
      sgc == Total([i \in DOMAIN g |-> g[i] * c[i]])
  IN [i \in DOMAIN g |-> n * V * g[i] - V * sg - n * c[i] * sgc]

Terms(dy, v, rows, D) == [d \in 0 .. D - 1 |-> [r \in 0 .. rows - 1 |-> dy[r * D + d] * v[r * D + d]]]
(* k_ln_bwd_fast *)
LnBwd(dy, x, g, rows, D, TB, W) ==
  LET centred(st) == [i \in 0 .. rows * D - 1 |-> D * x[i] - st[i \div D].s]
      of(v, r) == [d \in 1 .. D |-> v[r * D + d - 1]]
      flat(dx) == [i \in 0 .. rows * D - 1 |-> dx[i \div D][(i % D) + 1]]
      grads(st, c) == [dx |-> flat([r \in 0 .. rows - 1 |-> GradOf(of(g, r), of(c, r), st[r].var[1], D)]),
                       dgamma |-> Terms(dy, c, rows, D), dbeta |-> Terms(dy, Each(x, LAMBDA a : 1), rows, D)]
      with(st) == grads(st, centred(st))
  IN with(Tabulated([r \in 0 .. rows - 1 |-> TwoPass(Row(x, r, D), D, TB, W)]))

(* The entry points: D is the last dim, or the product of normalizedShape  *)
(* (<<>>: none given), which nothing compares with x.                      *)
RmsBackwardPlan(gradY, x, gradX) ==
  [ok |-> gradY = x.dims /\ gradX = x.dims, D |-> Last(x.dims), rows |-> Numel(x.dims) \div Last(x.dims)]
LayerNormBackwardPlan(gradY, x, normalizedShape, gradX) ==
  LET D == IF normalizedShape = <<>> THEN Last(x.dims) ELSE Numel(normalizedShape)
  IN [ok |-> gradY = x.dims /\ gradX = x.dims, D |-> D, rows |-> Numel(x.dims) \div D]

(* BatchNormBackward: k_bn_bwd_stats walks a channel, k_bn_bwd_dx uses its *)
(* sums; inv is the channel's inverse deviation, squared, as a fraction.   *)
BnBwdStats(gy, x, sum, N, C, S) ==
  LET cells(c) == [j \in 1 .. N * S |-> ((j - 1) \div S) * C * S + c * S + ((j - 1) % S)]
  IN [c \in 0 .. C - 1 |->
        <<Total([j \in 1 .. N * S |-> gy[cells(c)[j]] * (N * S * x[cells(c)[j]] - sum[c])]),
          Total([j \in 1 .. N * S |-> gy[cells(c)[j]]])>>]
(* gx is over gamma * inv / M, M = N * S, and times the sum of squares V   *)
(* of the centred inputs, over which the product of inverses cancels.      *)
BnBwdDx(gy, x, sum, V, stats, N, C, S) ==
  LET M == N * S IN
  [i \in 0 .. N * C * S - 1 |->
     LET c == (i \div S) % C
     IN V[c] * (M * gy[i] - stats[c][2]) - M * (M * x[i] - sum[c]) * stats[c][1]]
BnBackwardPlan(x) == [N |-> x.dims[1], C |-> x.dims[2], S |-> Numel(x.dims) \div (x.dims[1] * x.dims[2])]

-----------------------------------------------------------------------------
(* Instance, Lp, local response and gated normalisation. *)
InstanceNorm(x, NC, S, C, TB) ==
  LET s == [nc \in 0 .. NC - 1 |-> TreeSum(Row(x, nc, S), TB)]
      v == [nc \in 0 .. NC - 1 |-> TreeSum(Each(Row(x, nc, S), LAMBDA a : Squared(S * a - s[nc])), TB)]
  IN [i \in 0 .. NC * S - 1 |->
        [num |-> S * x[i] - s[i \div S], var |-> <<v[i \div S], S * S * S>>, affine |-> (i \div S) % C]]
InstanceNormPlan(self) ==
  LET NC == self.dims[1] * self.dims[2]
  IN [ok |-> Len(self.dims) >= 3, NC |-> NC, S |-> Numel(self.dims) \div NC, C |-> self.dims[2]]

(* k_lp_normalize: x over the larger of its row's norm and eps. *)
LpNormalize(x, rows, D, p, eps, TB) ==
  LET norm == [r \in 0 .. rows - 1 |-> TreeSum(Each(Row(x, r, D), LAMBDA a : Abs(a) ^ p), TB)]
  IN [i \in 0 .. rows * D - 1 |-> <<x[i], IF norm[i \div D] < eps ^ p THEN eps ^ p ELSE norm[i \div D]>>]
LastDimPlan(self) == [D |-> Last(self.dims), m |-> Numel(self.dims) \div Last(self.dims)]

(* k_lrn: the sum of squares of the channels within size \div 2 of c. *)
Lrn(x, N, C, S, size) ==
  [i \in 0 .. N * C * S - 1 |->
     LET c == (i \div S) % C
         n == i \div (S * C)
         at(j) == x[(n * C + j) * S + (i % S)]
     IN FoldLeft(LAMBDA a, j : IF j \in 0 .. C - 1 THEN a + Squared(at(j)) ELSE a, 0,
                 [k \in 1 .. 2 * (size \div 2) + 1 |-> c - size \div 2 + k - 1])]
LrnPlan(self) ==
  LET N == self.dims[1]
  IN [ok |-> Len(self.dims) >= 2, N |-> N, C |-> self.dims[2], S |-> Numel(self.dims) \div (N * self.dims[2])]

(* k_rmsnorm_gated, gate the value of silu *)
RmsNormGated(x, gate, rows, D, TB) ==
  LET h == Elementwise(x, gate, LAMBDA a, b : a * b)
      ss == [r \in 0 .. rows - 1 |-> TreeSum(Each(Row(h, r, D), Squared), TB)]
  IN [i \in 0 .. rows * D - 1 |-> [num |-> h[i], var |-> <<ss[i \div D], D>>, affine |-> i % D]]

-----------------------------------------------------------------------------
(* Variants that also return the statistics. *)
GemmaRms(x, rows, D, TB, W) ==
  LET ss == [r \in 0 .. rows - 1 |-> BlkSum(Each(Row(x, r, D), Squared), TB, W)]
  IN [rstd |-> ss, y |-> [i \in 0 .. rows * D - 1 |-> [num |-> x[i], var |-> <<ss[i \div D], D>>, affine |-> i % D]]]

(* k_gn_act and its three entry points, by whether they activate *)
GnAct(x, C, HW, G, N, TB, W, act) ==
  LET Cg == C \div G
      cnt == Cg * HW
      st == [blk \in 0 .. N * G - 1 |->
               OnePass([i \in 0 .. cnt - 1 |-> x[((blk \div G) * C + (blk % G) * Cg) * HW + i]], cnt, TB, W)]
  IN [mean |-> [blk \in DOMAIN st |-> st[blk].s], activated |-> act >= 0,
      y |-> [f \in 0 .. N * C * HW - 1 |->
               Standardised(x[f], cnt, st[f \div cnt], (f \div HW) % C)]]
GroupNormActScale(op, flag, scale) ==
  CASE op = "silu" -> 1 [] op = "silu_v2" -> (IF flag THEN 1 ELSE -1) [] op = "swish" -> scale

(* k_ln_last; ln_last_ws and LayerNormWithImplMode, whose D stays the last *)
(* dim whatever the normalised shape is.                                   *)
LnLast(x, rows, D, TB, W) ==
  [mean |-> [r \in 0 .. rows - 1 |-> BlkSum(Row(x, r, D), TB, W)], y |-> LnRows(x, rows, D, TB, W, 2)]
LnLastPlan(x, gamma, beta, out) ==
  LET D == Last(x.dims) IN
  [ok |-> x.dims = out /\ Contiguous(x) /\ gamma \in {0, D} /\ beta \in {0, D}, D |-> D, rows |-> Numel(x.dims) \div D]
ImplModePlan(x, ns, gamma, beta, out) ==
  LET plan == LnLastPlan(x, gamma, beta, out)
  IN [plan EXCEPT !.ok = @ /\ Numel(ns) > 0 /\ Last(x.dims) = Last(ns)]

-----------------------------------------------------------------------------
(* Fused additions whose output may be the input: pass 2 reads ysum, and   *)
(* yCast, when there is one, holds the same values in its own type.        *)
CastType(type) == IF type \in {"half", "bf16"} THEN type ELSE "float"
AddRmsNormCast(mem, x, res, ysum, cast, rows, D, TB, W) ==
  LET r == AddRms(mem, x, res, ysum, rows, D, TB, W)
  IN r @@ (IF cast = "none" THEN [yCast |-> <<>>] ELSE [yCast |-> [type |-> CastType(cast), y |-> r.y]])
CastPlan(x, residual, y, yCast, residualSum, gamma) ==
  [ok |-> /\ x.dims = residual /\ y = x.dims /\ residualSum = x.dims /\ yCast \in {<<>>, x.dims}
          /\ gamma \in {<<>>, <<Last(x.dims)>>},
   D |-> Last(x.dims), rows |-> Numel(x.dims) \div Last(x.dims)]
InplacePlan(x, residual, residualSum, gamma) == CastPlan(x, residual, x.dims, <<>>, residualSum, gamma)

(* k_adaln, k_adaln_bwd: scale and shift have an element of their own for  *)
(* every x.                                                                *)
AdaLn(x, rows, D, TB, W) ==
  [i \in 0 .. rows * D - 1 |-> [LnRows(x, rows, D, TB, W, 2)[i] EXCEPT !.affine = i]]
AdaPlan(x, out, scale, shift) ==
  [ok |-> x.dims = out /\ Contiguous(x) /\ scale \in {<<>>, x.dims} /\ shift \in {<<>>, x.dims},
   D |-> Last(x.dims), rows |-> Numel(x.dims) \div Last(x.dims)]
AdaLnBwd(gy, x, scale, rows, D, TB, W) ==
  LET g == Elementwise(gy, scale, LAMBDA a, b : a * (1 + b))
      times(st) == [i \in DOMAIN x |-> gy[i] * st[i].num]
  IN [gX |-> LnBwd(gy, x, g, rows, D, TB, W).dx, gScale |-> times(LnRows(x, rows, D, TB, W, 2)), gShift |-> gy]

-----------------------------------------------------------------------------
(* Quantised outputs.  Rint rounds n / d half to even; RintRoot rounds the *)
(* root of a / b.                                                          *)
Rint(n, d) ==
  LET q == n \div d
      twice == 2 * (n % d)
  IN IF twice > d \/ (twice = d /\ q % 2 = 1) THEN q + 1 ELSE q
RintRoot(a, b) ==
  CHOOSE q \in 0 .. 255 : /\ 4 * a <= Squared(2 * q + 1) * b
                          /\ q = 0 \/ 4 * a > Squared(2 * q - 1) * b \/ (4 * a = Squared(2 * q - 1) * b /\ q % 2 = 0)
Signed(v, q) == IF v < 0 THEN -q ELSE q
Clip(q, lo, hi) == IF q < lo THEN lo ELSE IF q > hi THEN hi ELSE q

(* blk_reduce<MAX> and its siblings: warp trees, then thread 0 from warp   *)
(* 0's value on.                                                           *)
BlkReduce(v, W, kind) ==
  LET warp == [w \in 0 .. Len(v) \div W - 1 |-> TreeReduce(SubSeq(v, w * W + 1, (w + 1) * W), kind)]
  IN FoldLeft(LAMBDA a, w : Rop(kind, a, warp[w]), warp[0], [w \in 1 .. Len(v) \div W - 1 |-> w])
BlkMax(v, TB, W) == BlkReduce([t \in 1 .. TB |-> ThreadPartial(Each(v, Abs), t - 1, TB, "max", 0)], W, "max")

(* The rows (or groups) of y scaled to their largest magnitude: what every *)
(* dynamic int8 kernel ends with.  A row of zeros keeps the scale 1.       *)
AbsMaxQuant(y, rows, D, TB, W) ==
  LET amax == [r \in 0 .. rows - 1 |-> BlkMax(Row(y, r, D), TB, W)]
  IN [scale |-> amax,
      q |-> [i \in 0 .. rows * D - 1 |->
               IF amax[i \div D] = 0 THEN 0 ELSE Clip(Rint(127 * y[i], amax[i \div D]), -127, 127)]]

(* k_addrms_dynquant: the sum is formed again in every pass; the inverse   *)
(* root of the row cancels in y / (amax / 127).                            *)
AddRmsDynQuant(mem, x, res, ysum, g, rows, D, TB, W) ==
  LET sum(m) == IF res = "none" THEN m[x] ELSE Elementwise(m[x], m[res], +)
      after == IF ysum = "none" THEN mem ELSE [mem EXCEPT ![ysum] = sum(mem)]
      ss == [r \in 0 .. rows - 1 |-> BlkSum(Each(Row(sum(mem), r, D), Squared), TB, W)]
  IN [sum |-> IF ysum = "none" THEN <<>> ELSE after[ysum], ss |-> ss]
     @@ AbsMaxQuant([i \in 0 .. rows * D - 1 |-> sum(after)[i] * g[i % D]], rows, D, TB, W)
QuantPlan(x, residual, yQuant, gamma) ==
  [ok |-> residual \in {<<>>, x.dims} /\ yQuant = x.dims /\ gamma \in {<<>>, <<Last(x.dims)>>},
   D |-> Last(x.dims), rows |-> Numel(x.dims) \div Last(x.dims)]

(* k_addrms_quant: y / scale + offset with a scale given beforehand, of    *)
(* which y is a root: y^2 = (s * g)^2 * D / ss.                            *)
AddRmsQuant(s, g, rows, D, scale, offset, TB, W) ==
  LET ss == [r \in 0 .. rows - 1 |-> BlkSum(Each(Row(s, r, D), Squared), TB, W)]
  IN [i \in 0 .. rows * D - 1 |->
        LET v == s[i] * g[i % D]
        IN Clip(Signed(v, RintRoot(Squared(v) * D, ss[i \div D] * Squared(scale))) + offset, -127, 127)]

(* k_rmsnorm_mxq: the scale is the least power of two, 2^k, that brings    *)
(* the row's largest magnitude to at most 127; k is not negative here.     *)
MxScale(a, b) == CHOOSE k \in 0 .. 8 : a <= Squared(127 * 2 ^ k) * b /\ (k = 0 \/ a > Squared(127 * 2 ^ (k - 1)) * b)
RmsNormMxq(s, g, rows, D, TB, W) ==
  LET ss == [r \in 0 .. rows - 1 |-> BlkSum(Each(Row(s, r, D), Squared), TB, W)]
      y == [i \in 0 .. rows * D - 1 |-> s[i] * g[i % D]]
      k == [r \in 0 .. rows - 1 |-> MxScale(Squared(BlkMax(Row(y, r, D), TB, W)) * D, ss[r])]
  IN [k |-> k,
      q |-> [i \in 0 .. rows * D - 1 |->
               Clip(Signed(y[i], RintRoot(Squared(y[i]) * D, ss[i \div D] * 4 ^ k[i \div D])), -128, 127)]]

(* k_ln_quant, without an additive weight, over which the deviation of the *)
(* row cancels; k_gn_silu_quant and k_dequant_swiglu_quant by the value    *)
(* act of their activation.                                                *)
LnQuant(x, g, rows, D, TB, W) ==
  LET weighed(st) == [i \in 0 .. rows * D - 1 |-> st[i].num * g[i % D]]
  IN AbsMaxQuant(weighed(LnRows(x, rows, D, TB, W, 2)), rows, D, TB, W)
GnActQuant(x, C, HW, G, N, act, TB, W) ==
  AbsMaxQuant(Each(GnFast(x, C, HW, G, N, TB, W), LAMBDA y : act[y.num]), N * G, (C \div G) * HW, TB, W)
DequantSwigluQuant(x, dq, act, rows, D, TB, W) ==
  LET pair == Glu([i \in DOMAIN x |-> x[i] * dq[i \div (2 * D)]], rows, D)
  IN AbsMaxQuant(Each(pair, LAMBDA p : act[p[1]] * p[2]), rows, D, TB, W)

-----------------------------------------------------------------------------
(* Batch normalisation in steps.  Channel c of [N, C, HW]: element i of    *)
(* the n * HW it has.                                                      *)
ChannelCell(i, c, C, HW) == ((i \div HW) * C + c) * HW + (i % HW)
Channel(x, c, N, C, HW) == [i \in 0 .. N * HW - 1 |-> x[ChannelCell(i, c, C, HW)]]

(* k_bn_stats: warp trees, combined by atomic additions. *)
BnStats(x, N, C, HW, TB, W) == [c \in 0 .. C - 1 |-> OnePass(Channel(x, c, N, C, HW), N * HW, TB, W)]
BnElemt(x, stats, C, HW, cnt) == [i \in DOMAIN x |-> Standardised(x[i], cnt, stats[(i \div HW) % C], (i \div HW) % C)]
(* k_bn_reduce: the sums of dy and of dy * (x - mean), over cnt *)
BnReduce(dy, x, stats, N, C, HW, TB, W) ==
  [c \in 0 .. C - 1 |->
     LET d == Channel(dy, c, N, C, HW)
         v == Channel(x, c, N, C, HW)
     IN <<BlkSum(d, TB, W), BlkSum([i \in DOMAIN d |-> d[i] * (N * HW * v[i] - stats[c].s)], TB, W)>>]
(* Which result each optional gradient tensor receives: the entry points   *)
(* push those that exist, and the run takes them by position.              *)
GradientSlots(given) ==
  LET pushed == SelectSeq(<<"gradWeight", "gradBias">>, LAMBDA t : t \in given)
  IN [t \in given |-> <<"gradWeight", "gradBias">>[CHOOSE k \in DOMAIN pushed : pushed[k] = t]]
BnElemtBwd(dy, x, stats, red, C, HW, cnt) ==
  [i \in DOMAIN x |->
     LET c == (i \div HW) % C
         V == cnt * stats[c].var[1]
     IN cnt * V * dy[i] - V * red[c][1] - cnt * (cnt * x[i] - stats[c].s) * red[c][2]]

(* k_gather_stats: groups of counts[l] elements with sum s and variance    *)
(* var / counts[l]^2; the result over the total count N and over P * N^2,  *)
(* P the product of the counts.                                            *)
GatherStats(groups, counts) ==
  LET N == Total(counts)
      S == Total([l \in DOMAIN groups |-> groups[l].s])
      P == FoldLeft(LAMBDA a, n : a * n, 1, counts)
      m2 == Total([l \in DOMAIN groups |->
                     LET part == Squared(N) * groups[l].var[1] + Squared(groups[l].s * N - S * counts[l])
                     IN part * (P \div counts[l])])
  IN [s |-> S, var |-> <<m2, P * Squared(N) * N>>]
QuantizedBn(x, stats, C, HW, cnt, scale, zp) ==
  [i \in DOMAIN x |->
     LET y == BnElemt(x, stats, C, HW, cnt)[i]
         v == y.num        \* y^2 = num^2 / cnt^2 / (var[1] / var[2])
     IN Clip(Signed(v, RintRoot(Squared(v) * y.var[2], y.var[1] * Squared(cnt * scale))) + zp, -128, 127)]
BnPlan(self) == [ok |-> Len(self.dims) >= 2, N |-> self.dims[1], C |-> self.dims[2],
                 HW |-> Numel(self.dims) \div (self.dims[1] * self.dims[2])]

(* k_gn_bwd; sum and V the saved statistics of the group. *)
GnBwd(dy, x, g, N, C, G, HW, TB, W) ==
  LET cpg == C \div G
      cnt == cpg * HW
      cell(ng, i) == ((ng \div G) * C + (ng % G) * cpg + i \div HW) * HW + (i % HW)
      c(st, f) == cnt * x[f] - st[f \div cnt].s
      group(st, ng) == GradOf([i \in 1 .. cnt |-> dy[cell(ng, i - 1)] * g[(ng % G) * cpg + ((i - 1) \div HW)]],
                              [i \in 1 .. cnt |-> c(st, cell(ng, i - 1))], st[ng].var[1], cnt)
      flat(dx) == [f \in 0 .. N * C * HW - 1 |-> dx[f \div cnt][(f % cnt) + 1]]
      of(st) == flat(Tabulated([ng \in 0 .. N * G - 1 |-> group(st, ng)]))
  IN [dx |-> of(Tabulated([ng \in 0 .. N * G - 1 |-> TwoPass([i \in 0 .. cnt - 1 |-> x[cell(ng, i)]], cnt, TB, W)])),
      dbeta |-> [ch \in 0 .. C - 1 |-> Total([i \in 1 .. N * HW |-> dy[ChannelCell(i - 1, ch, C, HW)]])]]

(* k_deepnorm_bwd *)
DeepNormBwd(gy, x, gx, g, alpha, rows, D, TB, W) ==
  LET in == Elementwise(x, gx, LAMBDA a, b : alpha * a + b)
      grads(b) == [gradX |-> Each(b.dx, LAMBDA v : alpha * v), gradGx |-> b.dx, dgamma |-> b.dgamma, dbeta |-> b.dbeta]
  IN grads(LnBwd(gy, in, [i \in DOMAIN gy |-> gy[i] * g[i % D]], rows, D, TB, W))

(* What the remaining entry points check and derive: a row or channel      *)
(* geometry, in most of them without a comparison of the shapes.           *)
RowPlan(x, ok) == [ok |-> ok, D |-> Last(x.dims), rows |-> Numel(x.dims) \div Last(x.dims)]
AddRmsNormQuantPlan(x, residual, yQuant, gamma) ==
  RowPlan(x, residual = x.dims /\ yQuant = x.dims /\ gamma \in {<<>>, <<Last(x.dims)>>})
RmsNormQuantPlan(x, yQuant, gamma) == RowPlan(x, yQuant = x.dims /\ gamma \in {<<>>, <<Last(x.dims)>>})
MxQuantPlan(x) == RowPlan(x, TRUE)
LayerNormQuantPlan(x, out) == RowPlan(x, out = x.dims)
AddLayerNormQuantPlan(x, residual, out) == RowPlan(x, residual = x.dims /\ out = x.dims)
DequantSwigluQuantPlan(x, out) == RowPlan(out, Last(x.dims) = 2 * Last(out.dims))
DeepNormGradPlan(x) == RowPlan(x, Len(x.dims) > 0)
GroupNormSiluQuantPlan(self, group, out) ==
  [BnPlan(self) EXCEPT !.ok = @ /\ self.dims = out /\ group > 0 /\ self.dims[2] % group = 0]
GnActPlan(self, gamma, beta, group, out) == GroupNormPlan(self, gamma, beta, group, out)
GroupNormBackwardPlan(self, numGroups) == BnPlan(self) @@ [G |-> numGroups]
BnReducePlan(self) == BnPlan(self)
BnElemtBackwardPlan(self) ==
  LET b == BnPlan(self) IN [ok |-> TRUE, N |-> b.N, C |-> b.C, HW |-> b.HW, cnt |-> b.N * b.HW]
GatherStatsPlan(meanAll) == [ok |-> Len(meanAll) >= 2, L |-> meanAll[1], C |-> meanAll[2]]
QuantizedBnPlan(self) == [BnPlan(self) EXCEPT !.ok = TRUE]
=============================================================================
