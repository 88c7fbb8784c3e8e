----------------------------- MODULE LossKernels -----------------------------
(***************************************************************************)
(* The losses of cuda/src/ops/loss.cu and their gradients on integers.     *)
(* Exponentials are powers of two in units of 2^-Bits, logarithms are      *)
(* taken to base 2 and rounded down, a mean keeps its divisor: <<sum, n>>. *)
(***************************************************************************)
EXTENDS NormKernels

Log2(v) == CHOOSE k \in 0 .. 29 : 2 ^ k <= v /\ v < 2 ^ (k + 1)
One == 2 ^ Bits
Sig(x) == <<2 ^ (6 + x), 64 + 2 ^ (6 + x)>>     \* sigmoid, |x| <= 6
SoftPlus(x) == Log2(One + 2 ^ (Bits + x)) - Bits       \* log(1 + exp(x))
Sum(n, F(_)) == FoldFunction(+, 0, [i \in 0 .. n - 1 |-> F(i)])

(* block_add: every block sums its threads' values and adds them to cell 0. *)
BlockAdd(n, F, TB, W) ==
  Sum((n + TB - 1) \div TB,
      LAMBDA b : BlockReduce([t \in 1 .. TB |-> IF b * TB + t - 1 < n THEN F[b * TB + t - 1] ELSE 0], W, "sum", 0))
(* red_scale, k_scale *)
RedScale(sum, red, n) == <<sum, IF red = 1 THEN n ELSE 1>>

Elements(n, F) == [i \in 0 .. n - 1 |-> <<F[i], 1>>]
(* The losses that honour reduction none, and the two that do not: those   *)
(* leave the sum in cell 0 whatever the reduction.                         *)
Reduced(n, red, F, TB, W) ==
  IF red = 0 THEN Elements(n, F) ELSE [i \in {0} |-> RedScale(BlockAdd(n, F, TB, W), red, n)]
CellZero(n, red, F, TB, W) == [i \in {0} |-> RedScale(BlockAdd(n, F, TB, W), red, n)]

RowMax(x, r, C) == FoldFunction(LAMBDA v, m : IF v > m THEN v ELSE m, -(10 ^ 6), Row(x, r, C))
RowExps(x, r, C) == Each(Row(x, r, C), LAMBDA v : Exp2(v - RowMax(x, r, C)))
LogSumExp(x, r, C) == RowMax(x, r, C) + Log2(FoldFunction(+, 0, RowExps(x, r, C))) - Bits

MseElem(p, t, i) == Squared(p[i] - t[i])
BceElem(x, t, i) == (IF x[i] > 0 THEN x[i] ELSE 0) - x[i] * t[i] + SoftPlus(-Abs(x[i]))
NllElem(lp, t, C, r) == -lp[r * C + t[r]]
CeElem(lg, t, C, r) == LogSumExp(lg, r, C) - lg[r * C + t[r]]

MsePlan(pred, target, out) == [ok |-> pred.type = "float", n |-> Numel(pred.dims)]
Mse(p, t, n, red, TB, W) == Reduced(n, red, [i \in 0 .. n - 1 |-> MseElem(p, t, i)], TB, W)
BCEWithLogits(x, t, n, red, TB, W) == CellZero(n, red, [i \in 0 .. n - 1 |-> BceElem(x, t, i)], TB, W)
NLLPlan(logProb, target) ==
  [ok |-> logProb.type = "float" /\ target.type = "int64" /\ Len(logProb.dims) = 2, N |-> logProb.dims[1], C |-> logProb.dims[2]]
NLL(lp, t, N, C, red, TB, W) == Reduced(N, red, [r \in 0 .. N - 1 |-> NllElem(lp, t, C, r)], TB, W)
CrossEntropy(lg, t, N, C, red, TB, W) == CellZero(N, red, [r \in 0 .. N - 1 |-> CeElem(lg, t, C, r)], TB, W)

(* The upstream gradient: one per element, or the scalar's. *)
Upstream(go, i, perElem) == go[IF perElem THEN i ELSE 0]
MseBwd(go, p, t, n, red) ==
  [i \in 0 .. n - 1 |-> RedScale(2 * Upstream(go, i, red = 0) * (p[i] - t[i]), red, n)]
CeBwd(go, lg, t, N, C, red) ==
  [i \in 0 .. N * C - 1 |->
     LET r == i \div C
         e == RowExps(lg, r, C)
         se == FoldFunction(+, 0, e)
     IN <<go[0] * (e[i % C] - (IF i % C = t[r] THEN se ELSE 0)), se * (IF red = 1 THEN N ELSE 1)>>]

-----------------------------------------------------------------------------
(* loss_elem: times 2 * param for the smooth losses; probabilities are in  *)
(* units of 1 / One and clamped inside (0, One).                           *)
Clamp(p) == IF p < 1 THEN 1 ELSE IF p > One - 1 THEN One - 1 ELSE p
LossElem(lk, p, t, param) ==
  LET d == Abs(p - t) IN
  CASE lk = "l1" -> d
    [] lk \in {"smooth", "huber"} -> IF d < param THEN d * d ELSE param * (2 * d - param)
    [] lk = "kl" -> t * ((IF t > 0 THEN Log2(t) ELSE -40) - p)
    [] lk = "bce" -> -(t * (Log2(Clamp(p)) - Bits) + (1 - t) * (Log2(One - Clamp(p)) - Bits))
    [] lk = "soft_margin" -> SoftPlus(-t * p)

(* k_loss_reduce, k_margin_reduce: at most G blocks stride over the        *)
(* elements; each divides its own part before the atomic addition.         *)
StridedReduce(n, F, TB, G, mean) ==
  LET tiles == (n + TB - 1) \div TB
      blocks == IF tiles > G THEN G ELSE tiles
      parts == Part(F, TB, blocks, "sum")
  IN [i \in {0} |-> <<Sum(blocks, LAMBDA b : parts[b]), IF mean THEN n ELSE 1>>]

LossWs(p) == [ok |-> p.type = "float", n |-> Numel(p.dims)]
LossRun(lk, p, t, param, n, red, TB, G) ==
  LET at == [i \in 0 .. n - 1 |-> LossElem(lk, p[i], t[i], param)]
  IN IF red = 0 THEN Elements(n, at) ELSE StridedReduce(n, at, TB, G, red = 1)

(* k_loss_bwd's derivative; "smooth" times param. *)
LossSlope(lk, d, param) ==
  IF lk = "l1" THEN (IF d > 0 THEN 1 ELSE IF d < 0 THEN -1 ELSE 0)
  ELSE IF Abs(d) < param THEN d ELSE IF d > 0 THEN param ELSE -param
LossBwdRun(lk, go, p, t, param, n, red) ==
  [i \in 0 .. n - 1 |-> RedScale(Upstream(go, i, red = 0) * LossSlope(lk, p[i] - t[i], param), red, n)]

MarginElem(mode, x1, x2, y, margin, i) ==
  LET hinge(v) == IF v > 0 THEN v ELSE 0
  IN IF mode = "ranking" THEN hinge(-y[i] * (x1[i] - x2[i]) + margin)
     ELSE IF y[i] > 0 THEN x1[i] ELSE hinge(margin - x1[i])
MarginRun(mode, x1, x2, y, margin, n, red, TB, G) ==
  LET at == [i \in 0 .. n - 1 |-> MarginElem(mode, x1, x2, y, margin, i)]
  IN IF red = 0 THEN Elements(n, at) ELSE StridedReduce(n, at, TB, G, red = 1)

-----------------------------------------------------------------------------
(* The losses of whole samples; each leaves one value per sample in the    *)
(* workspace, which finalize copies or sums in order.                      *)
Finalize(ps, N, red) ==
  IF red = 0 THEN Elements(N, ps)
  ELSE [i \in {0} |-> <<FoldLeft(+, 0, [k \in 1 .. N |-> ps[k - 1]]), IF red = 1 THEN N ELSE 1>>]

PerSamplePlan(input) == [ok |-> input.type = "float" /\ Len(input.dims) = 2, N |-> input.dims[1], C |-> input.dims[2], ws |-> 4 * input.dims[1]]
ElementPlan(input) == [ok |-> input.type = "float", n |-> Numel(input.dims), ws |-> 4 * Numel(input.dims)]
(* times C *)
MultiLabelSoftMargin(x, t, N, C) ==
  [n \in 0 .. N - 1 |-> Sum(C, LAMBDA c : LET v == x[n * C + c] IN t[n * C + c] * SoftPlus(-v) + (1 - t[n * C + c]) * SoftPlus(v))]
MultiMargin(x, y, N, C, margin, p) ==
  [n \in 0 .. N - 1 |->
     Sum(C, LAMBDA j : LET m == margin - x[n * C + y[n]] + x[n * C + j]
                       IN IF j = y[n] \/ m <= 0 THEN 0 ELSE IF p = 2 THEN m * m ELSE m)]
(* p = 1, whose root is the sum itself *)
Triplet(a, pos, neg, N, D, margin) ==
  [n \in 0 .. N - 1 |->
     LET far(b) == Sum(D, LAMBDA d : Abs(a[n * D + d] - b[n * D + d]))
         l == far(pos) - far(neg) + margin
     IN IF l > 0 THEN l ELSE 0]
(* The cosine as its dot product over the two squared norms. *)
CosineEmbedding(x1, x2, y, N, D) ==
  [n \in 0 .. N - 1 |->
     LET dot(a, b) == Sum(D, LAMBDA d : a[n * D + d] * b[n * D + d])
     IN [near |-> y[n] > 0, cos |-> <<dot(x1, x2), dot(x1, x1), dot(x2, x2)>>]]
PoissonNll(x, t, n, logInput) ==
  [i \in 0 .. n - 1 |-> IF logInput THEN 2 ^ x[i] - t[i] * x[i] ELSE x[i] - t[i] * Log2(x[i])]
(* twice the loss, times the variance *)
GaussianNll(x, t, var, n) ==
  [i \in 0 .. n - 1 |-> LET v == IF var[i] < 1 THEN 1 ELSE var[i] IN v * Log2(v) + Squared(x[i] - t[i])]

(* k_ctc on probabilities instead of their logarithms: logAdd is + and the *)
(* step's emission multiplies.  The states of the extended label are the   *)
(* labels with blanks between and around them.                             *)
Lab(tgt, s, blank) == IF s % 2 = 1 THEN tgt[s \div 2] ELSE blank

MaySkip(tgt, s, blank) ==
  s > 1 /\ Lab(tgt, s, blank) # blank /\ Lab(tgt, s, blank) # Lab(tgt, s - 2, blank)

Ctc(P, tgt, Ti, L, blank) ==
  LET S == 2 * L + 1
      first == [s \in 0 .. S - 1 |-> IF s < 2 THEN P[0, Lab(tgt, s, blank)] ELSE 0]
      step(prev, t) ==
        [s \in 0 .. S - 1 |->
           (prev[s] + (IF s > 0 THEN prev[s - 1] ELSE 0) + (IF MaySkip(tgt, s, blank) THEN prev[s - 2] ELSE 0))
           * P[t, Lab(tgt, s, blank)]]
      last == FoldLeft(step, first, [t \in 1 .. Ti - 1 |-> t])
  IN last[S - 1] + (IF S > 1 THEN last[S - 2] ELSE 0)
(* The workspace, and the last byte a sample's scratch uses in it. *)
CtcPlan(T, N, Lmax) == [T |-> T, N |-> N, Lmax |-> Lmax, ws |-> 4 * N + 4 * N * 2 * (2 * Lmax + 1)]
CtcScratchEnd(pl, n, L) == 4 * (pl.N + n * 2 * (2 * pl.Lmax + 1) + (2 * pl.Lmax + 1) + (2 * L + 1))
CtcBwd(gl, logp, n, scalar) == [i \in 0 .. n - 1 |-> (IF scalar THEN gl[0] ELSE gl[i]) * 2 ^ (Bits + logp[i])]

-----------------------------------------------------------------------------
(* Gradients element by element, as fractions.  k_grad reads gradOutput at *)
(* the element's own index whatever the reduction; m is how many elements  *)
(* gradOutput has and a read beyond them is Outside.                       *)
Outside == <<>>
GradAt(mode, g, x, t, w) ==
  LET s == Sig(x) IN
  CASE mode = "swish" -> <<g * (s[1] * s[2] + x * s[1] * (s[2] - s[1])), s[2] * s[2]>>
    [] mode = "softsign" -> <<g, Squared(1 + Abs(x))>>
    [] mode = "logit" -> <<g, x * (1 - x)>>
    [] mode = "soft_margin" -> <<-g * t * Sig(-t * x)[1], Sig(-t * x)[2]>>
    [] mode = "bce" -> <<g * w * (x - t), x * (1 - x)>>
    [] mode = "bce_logits" -> <<g * w * (s[1] - t * s[2]), s[2]>>
    [] mode = "bce_logits_target" -> <<-g * w * x, 1>>
    [] mode = "kl" -> <<-g * t, 1>>
    [] mode = "kl_target" -> <<g * (Log2(t) - x + 1), 1>>
KGrad(mode, go, m, x, t, w, n, red) ==
  [i \in 0 .. n - 1 |->
     IF i >= m THEN Outside
     ELSE LET q == GradAt(mode, go[i], x[i], t[i], w[i]) IN <<q[1], q[2] * (IF red = 1 THEN n ELSE 1)>>]

(* k_prelu_bwd: the weight's gradient sums the terms of its channel. *)
PreluPlan(dims, wNumel) ==
  [shared |-> wNumel = 1, C |-> IF Len(dims) >= 2 THEN dims[2] ELSE 1, inner |-> Numel(SubSeq(dims, 3, Len(dims)))]
PreluBwd(go, x, w, n, pl) ==
  LET ch(i) == IF pl.shared THEN 0 ELSE (i \div pl.inner) % pl.C
  IN [gi |-> [i \in 0 .. n - 1 |-> IF x[i] > 0 THEN go[i] ELSE go[i] * w[ch(i)]],
      gw |-> [c \in 0 .. (IF pl.shared THEN 0 ELSE pl.C - 1) |->
                Sum(n, LAMBDA i : IF ch(i) = c /\ x[i] <= 0 THEN go[i] * x[i] ELSE 0)]]

(* The halves of a row.  dim is ignored: it is always the last one. *)
GluFwd(x, rows, D) == [i \in 0 .. rows * D - 1 |-> <<x[(i \div D) * 2 * D + (i % D)], x[(i \div D) * 2 * D + D + (i % D)]>>]
GluBwd(go, x, rows, D) ==
  [f \in 0 .. rows * 2 * D - 1 |->
     LET r == f \div (2 * D)
         d == f % D
         s == Sig(x[r * 2 * D + D + d])
         g == go[r * D + d]
     IN IF f % (2 * D) < D THEN <<g * s[1], s[2]>>
        ELSE <<g * x[r * 2 * D + d] * s[1] * (s[2] - s[1]), s[2] * s[2]>>]
GluHalves(self, out) == [D |-> Last(out), rows |-> Numel(out) \div Last(out)]
DropoutBwd(go, mask, n, keep) == [i \in 0 .. n - 1 |-> <<IF mask[i] # 0 THEN go[i] ELSE 0, keep>>]

NllBwdBuild(gi, red) == [ok |-> Len(gi) >= 2, N |-> gi[1], C |-> gi[2], scalar |-> red # 0]
NllBwd(go, target, w, pl, red) ==
  [i \in 0 .. pl.N * pl.C - 1 |->
     LET n == i \div pl.C
     IN RedScale(IF i % pl.C = target[n] THEN -(IF pl.scalar THEN go[0] ELSE go[n]) * w[target[n]] ELSE 0, red, pl.N)]
NLLLoss2d(x, t, w, N, C) == [n \in 0 .. N - 1 |-> -w[t[n]] * x[n * C + t[n]]]
CeGradPlan(self, target) == [ok |-> Len(self) >= 2, N |-> self[1], C |-> self[2]]
CeGrad(x, t, N, C, go, red) == CeBwd([i \in {0} |-> go], x, t, N, C, red)
SceLogits(x, t, N, C) ==
  [loss |-> [n \in 0 .. N - 1 |-> Sum(C, LAMBDA c : t[n * C + c] * (LogSumExp(x, n, C) - x[n * C + c]))],
   backprop |-> [i \in 0 .. N * C - 1 |-> LET e == RowExps(x, i \div C, C)
                                              se == FoldFunction(+, 0, e)
                                          IN <<e[i % C] - t[i] * se, se>>]]
(* times C; the targets of a sample end at the first -1 *)
MultilabelMargin(x, t, N, C) ==
  [n \in 0 .. N - 1 |->
     LET tt == [j \in 1 .. C |-> t[n * C + j - 1]]
         upTo == SelectInSeq(tt, LAMBDA v : v < 0)
         listed == IF upTo = 0 THEN tt ELSE SubSeq(tt, 1, upTo - 1)
         rest == 0 .. C - 1 \ {listed[j] : j \in DOMAIN listed}
     IN FoldLeft(LAMBDA l, tj : l + FoldSet(LAMBDA i, a : LET z == 1 - (x[n * C + tj] - x[n * C + i])
                                                          IN a + (IF z > 0 THEN z ELSE 0), 0, rest), 0, listed)]

(* k_smsoftmax: a mask of another size than x is one row for all of them. *)
SmPlan(x, maskNumel) == [D |-> Last(x), rows |-> Numel(x) \div Last(x), perRow |-> maskNumel = Numel(x)]
SmSoftmax(x, mask, pl, scale) ==
  [i \in 0 .. pl.rows * pl.D - 1 |->
     LET r == i \div pl.D
         v == [f \in 0 .. pl.rows * pl.D - 1 |->
                 x[f] * scale + (IF mask = <<>> THEN 0 ELSE mask[IF pl.perRow THEN f ELSE f % pl.D])]
         e == RowExps(v, r, pl.D)
     IN <<e[i % pl.D], FoldFunction(+, 0, e)>>]
SmSoftmaxBwd(go, y, rows, D, scale) ==
  [i \in 0 .. rows * D - 1 |->
     scale * y[i] * (go[i] - Sum(D, LAMBDA d : go[(i \div D) * D + d] * y[(i \div D) * D + d]))]
Modulate(x, scale, shift, n) == [i \in 0 .. n - 1 |-> x[i] * (1 + scale[i]) + shift[i]]
ModulateBwd(go, x, scale, n) ==
  [gx |-> [i \in 0 .. n - 1 |-> go[i] * (1 + scale[i])], gscale |-> [i \in 0 .. n - 1 |-> go[i] * x[i]], gshift |-> go]

CdistPlan(x1, x2) == [ok |-> Len(x1) = 2, P |-> x1[1], R |-> x2[1], M |-> x1[2]]
(* p = 1: the derivative is the difference's sign (-1 of no difference) *)
CdistBwd(go, x1, x2, dist, pl) ==
  [i \in 0 .. pl.P * pl.M - 1 |->
     LET pi == i \div pl.M
     IN Sum(pl.R, LAMBDA r : IF dist[pi * pl.R + r] <= 0 THEN 0
                             ELSE go[pi * pl.R + r] * (IF x1[i] - x2[r * pl.M + (i % pl.M)] > 0 THEN 1 ELSE -1))]
GroupedBiasAddGrad(go, off, G, C) ==
  [i \in 0 .. G * C - 1 |->
     LET g == i \div C IN FoldSet(LAMBDA r, a : a + go[r * C + (i % C)], 0, off[g] .. off[g + 1] - 1)]
RepeatGrad(go, nIn, rep) == [i \in 0 .. nIn - 1 |-> Sum(rep, LAMBDA r : go[i * rep + r])]
(* RepeatInterleaveTensor reads no repeats: they are taken to be equal. *)
RepeatsOf(selfNumel, outNumel) == IF selfNumel > 0 THEN outNumel \div selfNumel ELSE 1

(* The sum over (j, i] of x; nothing above the diagonal. *)
ExpSegsum(x, B, L) ==
  [bij \in 0 .. B * L * L - 1 |->
     LET j == bij % L
         i == (bij \div L) % L
     IN IF i < j THEN <<>> ELSE <<FoldSet(LAMBDA k, s : s + x[(bij \div (L * L)) * L + k], 0, j + 1 .. i)>>]
ExpSegsumBwd(go, o, B, L) ==
  [bk \in 0 .. B * L - 1 |->
     LET k == bk % L
         b == bk \div L
     IN FoldSet(LAMBDA c, s : s + go[(b * L + c[1]) * L + c[2]] * o[(b * L + c[1]) * L + c[2]], 0, (k .. L - 1) \X (0 .. k - 1))]
=============================================================================
