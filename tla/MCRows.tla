------------------------------- MODULE MCRows -------------------------------
(***************************************************************************)
(* The operators that combine the elements of a row, on small tensors:     *)
(* reductions, scans, sorts, softmax and the normalisations, with the      *)
(* definition each is checked against.  A call is [op, p].                 *)
(***************************************************************************)
EXTENDS ReduceKernels, NormKernels

Rw(op, p) == [op |-> op, p |-> p]
Fill(n, F(_)) == [i \in 0 .. n - 1 |-> F(i)]
SumOver(S, F(_)) == FoldSet(LAMBDA e, n : n + F(e), 0, S)
ProductOver(S, F(_)) == FoldSet(LAMBDA e, n : n * F(e), 1, S)

(* Data with ties, zeros, both signs and a NaN. *)
Mixed == Fill(12, LAMBDA i : ((i * 5) % 7) - 2)
Holes == Fill(12, LAMBDA i : IF i % 5 \in {1, 2} \/ i >= 9 THEN NaN ELSE i - 3)
Ties == Fill(12, LAMBDA i : (i * i) % 3)

-----------------------------------------------------------------------------
(* Reductions: p = <<data, dims, dim, par, type, RT, MAXB>>. *)
Par(op) == CASE op = "norm" -> {1, 2} [] op = "kthvalue" -> {1, 3, 9}
             [] op = "quantile" -> {<<0, 1>>, <<1, 3>>, <<1, 2>>, <<1, 1>>} [] OTHER -> {0}
ReduceOps == FastFull \cup {"mean", "prod"} \cup Args \cup Stats \cup Bools \cup Selects
             \cup {"count_nonzero", "aminmax", "var_mean", "max_dim", "min_dim"}
DataOf(op) == IF op \in {"nansum", "nanmean"} THEN {Holes}
              ELSE IF op \in Selects \cup Args \cup {"max_dim"} THEN {Mixed, Ties} ELSE {Mixed}
ReduceCalls ==
  UNION {{Rw(op, <<x, <<2, 3, 2>>, dim, par, "float", 2, 2>>) :
            x \in DataOf(op), dim \in {<<>>, <<-2>>, <<0, 2>>, <<2, 0, -1>>}, par \in Par(op)} : op \in ReduceOps}
  \cup {Rw(op, <<Mixed, dims, <<>>, 0, "half", RT, MAXB>>) :
          op \in FastFull, dims \in {<<12>>, <<3>>, <<1>>}, RT \in {1, 2, 4}, MAXB \in {1, 2}}
  \cup {Rw(op, <<Mixed, <<3, 4>>, dim, 0, type, 2, 2>>) :
          op \in {"sum", "mean", "argmax", "var", "any"}, dim \in {<<>>, <<1>>}, type \in {"bf16", "int32"}}
RenormCalls == {Rw("renorm", <<Mixed, <<2, 3, 2>>, dim, p, 4>>) : dim \in {-1, 0, 1}, p \in {1, 2}}
SoftmaxCalls == {Rw("softmax", <<Mixed, dims, dim, TB, W>>) :
                   dims \in {<<2, 3, 2>>, <<2, 6>>}, dim \in {-1, 0, 1}, TB \in {2, 4}, W \in {1, 2}}
LayerNormCalls == {Rw("layer_norm", <<Mixed, <<2, 3, 2>>, ns, LT>>) :
                     ns \in {<<2>>, <<3, 2>>, <<2, 3, 2>>, <<3>>, <<1, 2, 3, 2>>}, LT \in {1, 2, 8}}

(* Scans and sorts: p = <<data, dims, dim, k, descending, workspace>>. *)
SortCalls ==
  {Rw(op, <<x, dims, dim, 2, FALSE, 0>>) :
     op \in {"cumsum", "cumprod", "cummax", "cummin", "logcumsumexp"}, x \in {Mixed, Ties},
     dims \in {<<2, 3, 2>>}, dim \in {-1, 0, 1}}
  \cup {Rw(op, <<x, dims, dim, 2, desc, ws>>) :
          op \in {"sort", "topk"}, x \in {Mixed, Ties}, dims \in {<<2, 3, 2>>, <<2, 5>>, <<12>>, <<4, 3>>},
          dim \in {-1, 0}, desc \in BOOLEAN, ws \in {0, 1}}
  \cup {Rw("topk", <<Ties, <<5>>, 0, 7, TRUE, 0>>)}

RowsCallsReduce == ReduceCalls \cup RenormCalls \cup SoftmaxCalls \cup LayerNormCalls \cup SortCalls

KeptDims(c) == BuildRdesc(c.p[2], NormalizeAxes(c.p[3], Len(c.p[2]))).ks
ReduceAccepts(c) ==
  LET p == c.p IN
  CASE c.op \in ReduceOps ->
         LET outType == IF c.op \in Args \cup {"count_nonzero"} THEN "int64" ELSE p[5]
         IN EntryAccepts(c.op, p[5], outType) /\ MakeReduce(c.op, Dense(p[2]), p[3], KeptDims(c), outType, p[5])
    [] c.op = "renorm" -> RenormAccepts(p[2], p[3], p[2])
    [] c.op = "softmax" -> SoftmaxAccepts(Dense(p[2]), Dense(p[2]), p[3])
    [] c.op = "layer_norm" -> LayerNormAccepts(Dense(p[2]), p[3], Numel(p[3]), 0, Dense(p[2]))
    [] c.op = "topk" -> LET out == [p[2] EXCEPT ![Normal(p[3], Len(p[2])) + 1] = p[4]]
                        IN TopkAccepts(Dense(p[2]), p[4], p[3], out, out)
    [] c.op = "sort" -> SortAccepts(Dense(p[2]), p[3])
    [] OTHER -> ScanAccepts(Dense(p[2]), p[3])

ReduceResult(c) ==
  LET p == c.p IN
  CASE c.op \in ReduceOps -> RunReduce(c.op, p[1], p[2], p[3], p[5], EntryPar(c.op, p[4]), p[6], p[7])
    [] c.op = "renorm" -> Renorm(p[1], p[2], p[3], p[4], p[5])
    [] c.op = "softmax" -> RunSoftmax(p[1], p[2], p[3], p[4], p[5])
    [] c.op = "layer_norm" -> LayerNorm(p[1], Numel(p[2]) \div Numel(p[3]), Numel(p[3]), p[4])
    [] OTHER -> RunSort(c.op, p[1], p[2], p[3], p[4], p[5],
                        IF p[6] = 0 THEN 0 ELSE SortWorkspace(p[2], Normal(p[3], Len(p[2]))))

(* The cells that share the coordinates of f outside the axes A. *)
Peers(dims, A, f) ==
  {g \in 0 .. Numel(dims) - 1 : \A k \in DOMAIN dims \ A : Coord(f, dims)[k] = Coord(g, dims)[k]}
Ordinal(S, f) == Cardinality({g \in S : g < f})
LessIn(x, S, v) == Cardinality({g \in S : x[g] < v})
AtMostIn(x, S, v) == Cardinality({g \in S : x[g] <= v})
RankedAt(x, S, v, k) == LessIn(x, S, v) <= k /\ k < AtMostIn(x, S, v)
BestOf(x, S, v, max) == \E f \in S : x[f] = v /\ \A g \in S : IF max THEN x[g] <= v ELSE x[g] >= v
FirstBest(x, S, j, max) ==
  \E f \in S : /\ Ordinal(S, f) = j /\ BestOf(x, S, x[f], max)
               /\ \A g \in S : x[g] = x[f] => f <= g
SpreadIs(x, S, var) ==
  LET n == Cardinality(S) IN
  /\ 2 * var[1] = n * SumOver(S \X S, LAMBDA t : Squared(x[t[1]] - x[t[2]]))
  /\ var[2] = n * n * (IF n = 1 THEN 1 ELSE n - 1)

(* What output e of the cells S of x is. *)
ReducedTo(op, x, S, par, e) ==
  LET sum == SumOver(S, LAMBDA g : x[g])
      n == Cardinality(S)
      low == CHOOSE v \in {x[g] : g \in S} : \A g \in S : v <= x[g]
      sorted == SortSeq([i \in 1 .. n |-> x[CHOOSE g \in S : Ordinal(S, g) = i - 1]], <)
      known == {g \in S : x[g] # NaN}
  IN CASE op \in {"sum", "logsum"} -> e = sum
       [] op = "mean" -> e = <<sum, n>>
       [] op = "prod" -> e = ProductOver(S, LAMBDA g : x[g])
       [] op \in {"amax", "amin"} -> BestOf(x, S, e, op = "amax")
       [] op \in Args -> FirstBest(x, S, e, op = "argmax")
       [] op = "norm" -> e = SumOver(S, LAMBDA g : Abs(x[g]) ^ par)
       [] op \in {"var", "std"} -> SpreadIs(x, S, e)
       [] op = "logsumexp" ->
            e[2] * 2 ^ (e[1] - low) = SumOver(S, LAMBDA g : 2 ^ (Bits + x[g] - low))
       [] op = "nansum" -> e = SumOver(known, LAMBDA g : x[g])
       [] op = "nanmean" -> IF known = {} THEN e[1] = 0
                            ELSE e[1] * Cardinality(known) = e[2] * SumOver(known, LAMBDA g : x[g])
       [] op = "all" -> e <=> \A g \in S : x[g] # 0
       [] op = "any" -> e <=> \E g \in S : x[g] # 0
       [] op = "count_nonzero" -> e = Cardinality({g \in S : x[g] # 0})
       [] op = "median" -> RankedAt(x, S, e, (n - 1) \div 2)
       [] op = "kthvalue" -> par <= n => RankedAt(x, S, e, par - 1)
       [] op = "quantile" ->
            \* between the order statistics around it, at the right fraction
            LET lo == (par[1] * (n - 1)) \div par[2]
                w == par[1] * (n - 1) - lo * par[2]
            IN e = par[2] * sorted[lo + 1] + (IF w = 0 THEN 0 ELSE w * (sorted[lo + 2] - sorted[lo + 1]))
       [] op = "mode" -> LET count(v) == Cardinality({g \in S : x[g] = v})
                         IN count(e) > 0 /\ \A g \in S : count(x[g]) < count(e) \/ (count(x[g]) = count(e) /\ e <= x[g])
       [] op = "aminmax" -> BestOf(x, S, e[1], FALSE) /\ BestOf(x, S, e[2], TRUE)
       [] op = "var_mean" -> SpreadIs(x, S, e[1]) /\ e[2] = sum
       [] op = "max_dim" -> BestOf(x, S, e[1], TRUE) /\ FirstBest(x, S, e[2], TRUE)
       [] op = "min_dim" -> BestOf(x, S, e[1], FALSE) /\ FirstBest(x, S, e[2], FALSE)

SortedIndices(v, desc) ==
  SortSeq([l \in DOMAIN v |-> l - 1],
          LAMBDA a, b : IF v[a + 1] = v[b + 1] THEN a < b
                        ELSE IF desc THEN v[a + 1] > v[b + 1] ELSE v[a + 1] < v[b + 1])

ReduceIs(c, r) ==
  LET p == c.p
      x == p[1]
      n == Numel(p[2])
      line(d, seg) == [l \in 1 .. p[2][d] |-> x[SegmentAt(SegLayout(p[2], d - 1), seg, l - 1)]]
  IN CASE c.op \in ReduceOps ->
            LET A == NormalizeAxes(p[3], Len(p[2]))
                outOf(f) == Flat([k \in 1 .. Len(KeptDims(c)) |->
                                    Coord(f, p[2])[CHOOSE i \in DOMAIN p[2] \ A :
                                      Cardinality({j \in DOMAIN p[2] \ A : j < i}) = k - 1]], KeptDims(c))
            IN r.ok => \A f \in 0 .. n - 1 :
                 IF c.op = "mean" /\ p[5] = "int32"
                 THEN r.out[outOf(f)][1] = Quotient(SumOver(Peers(p[2], A, f), LAMBDA g : x[g]), Cardinality(Peers(p[2], A, f)))
                 ELSE ReducedTo(c.op, x, Peers(p[2], A, f), p[4], r.out[outOf(f)])
       [] c.op = "renorm" ->
            \* scaled by maxnorm over the norm of its slice, when that is above 1
            LET d == Normal(p[3], Len(p[2])) + 1
                nv(f) == SumOver({g \in 0 .. n - 1 : Coord(g, p[2])[d] = Coord(f, p[2])[d]}, LAMBDA g : Abs(x[g]) ^ p[4])
            IN \A f \in 0 .. n - 1 :
                 r[f] = <<x[f], IF nv(f) <= p[5] ^ p[4] THEN p[5] ^ p[4] ELSE nv(f)>>
       [] c.op = "softmax" ->
            \* the weights of a segment are 2^x over their sum, whatever the shift
            LET d == Normal(p[3], Len(p[2])) + 1
            IN \A f \in 0 .. n - 1 :
                 /\ r[f][2] = SumOver(Peers(p[2], {d}, f), LAMBDA g : r[g][1])
                 /\ \A g \in Peers(p[2], {d}, f) :
                      /\ x[g] <= x[f] => r[f][1] = r[g][1] * 2 ^ (x[f] - x[g])
                      /\ r[g][1] <= Exp2(0)
       [] c.op = "layer_norm" ->
            LET cols == Numel(p[3])
            IN \A f \in 0 .. n - 1 :
                 LET S == {g \in 0 .. n - 1 : g \div cols = f \div cols}
                     y == r.y[f]
                 IN /\ SumOver(S, LAMBDA g : r.y[g].centred) = 0
                    /\ \A g \in S : y.centred - r.y[g].centred = cols * (x[f] - x[g])
                    /\ 2 * y.var = SumOver(S \X S, LAMBDA t : Squared(x[t[1]] - x[t[2]]))
                    /\ y.affine = Flat(SubSeq(Coord(f, p[2]), Len(p[2]) - Len(p[3]) + 1, Len(p[2])), p[3])
       [] OTHER ->
            LET d == Normal(p[3], Len(p[2])) + 1
            IN \A seg \in DOMAIN r :
                 LET v == line(d, seg)
                     upto(l) == 1 .. l
                 IN CASE c.op = "cumsum" -> \A l \in DOMAIN v : r[seg][l] = SumOver(upto(l), LAMBDA i : v[i])
                      [] c.op = "cumprod" -> \A l \in DOMAIN v : r[seg][l] = ProductOver(upto(l), LAMBDA i : v[i])
                      [] c.op \in {"cummax", "cummin"} ->
                           \A l \in DOMAIN v :
                             /\ BestOf(v, upto(l), r[seg][l][1], c.op = "cummax")
                             /\ FirstBest(v, upto(l), r[seg][l][2], c.op = "cummax")
                      [] c.op = "logcumsumexp" ->
                           \A l \in DOMAIN v :
                             r[seg][l][2] * 2 ^ (r[seg][l][1] + 4) = SumOver(upto(l), LAMBDA i : 2 ^ (ScanBits + 4 + v[i]))
                      [] c.op = "sort" -> r[seg] = SortedIndices(v, p[5])
                      [] c.op = "topk" -> r[seg] = SubSeq(SortedIndices(v, p[5]), 1, p[4])

-----------------------------------------------------------------------------
(* Normalisations: p is a record of data, shape and block. *)
Second == Fill(12, LAMBDA i : ((i * 7) % 5) - 2)
Gamma == Fill(12, LAMBDA i : (i % 3) - 1)
Flatter(v) == (v * v) - 3 * v            \* in place of an activation
Blocks == {<<2, 1>>, <<2, 2>>, <<4, 2>>}
Rows2 == {<<4, 3>>, <<2, 6>>, <<12, 1>>}
RowOps == {"rms", "gemma", "ln_last", "deepnorm", "add_rms", "add_ln", "adaln", "rms_gated", "glu", "lp",
           "rms_bwd", "ln_bwd", "adaln_bwd", "deepnorm_bwd", "dynquant", "rmsquant", "rmsmxq", "ln_quant", "dequant_swiglu"}
(* The parameter gradients a caller asks for: either may be left out. *)
Asked == (SUBSET {"gradWeight", "gradBias"}) \ {{}}
RowNormCalls == {Rw(op, [rows |-> d[1], D |-> d[2], TB |-> b[1], W |-> b[2], k |-> k]) :
                   op \in RowOps \ {"deepnorm_bwd"}, d \in Rows2, b \in Blocks, k \in {1, 2}}
  \cup {Rw("deepnorm_bwd", [rows |-> d[1], D |-> d[2], TB |-> b[1], W |-> b[2], k |-> k, given |-> g]) :
          d \in Rows2, b \in Blocks, k \in {1, 2}, g \in Asked}
ChannelOps == {"group_norm", "gn_act", "gn_quant", "gn_bwd"}
ChannelNormCalls ==
  {Rw(op, [dims |-> <<N, 12 \div (N * HW), HW>>, G |-> G, TB |-> b[1], W |-> b[2]]) :
     op \in ChannelOps, N \in {1, 2}, HW \in {1, 2, 3}, G \in {1, 2, 3}, b \in Blocks}
  \cup {Rw(op, [dims |-> <<N, 12 \div (N * HW), HW>>, G |-> 1, TB |-> b[1], W |-> b[2]]) :
          op \in {"batch_norm", "instance", "lrn", "bn_bwd", "gather", "qbn"}, N \in {1, 2}, HW \in {2, 3}, b \in Blocks}
  \cup {Rw("bn_steps", [dims |-> <<N, 12 \div (N * HW), HW>>, TB |-> b[1], W |-> b[2], given |-> g]) :
          N \in {1, 2}, HW \in {2, 3}, b \in Blocks, g \in Asked}
NormCalls == RowNormCalls \cup ChannelNormCalls

NormAccepts(c) ==
  IF c.op \in ChannelOps
  THEN LET plan == GroupNormPlan(Dense(c.p.dims), <<>>, <<c.p.dims[2]>>, c.p.G, c.p.dims)
       IN /\ plan.ok
          /\ \A other \in {GnActPlan(Dense(c.p.dims), <<>>, <<>>, c.p.G, c.p.dims), GroupNormSiluQuantPlan(Dense(c.p.dims), c.p.G, c.p.dims),
                           GroupNormBackwardPlan(Dense(c.p.dims), c.p.G)} :
               other.ok /\ <<other.N, other.C, other.HW>> = <<plan.N, plan.C, plan.HW>>
  ELSE IF c.op \in RowOps
  THEN LET self == Dense(<<c.p.rows, c.p.D>>)
           plans == {RmsNormPlan(self, <<c.p.D>>, self.dims), DeepNormPlan(self, self.dims, <<>>, <<>>, self.dims),
                     AddNormPlan(self, self.dims, self.dims), LnLastPlan(self, 0, c.p.D, self.dims),
                     InplacePlan(self, self.dims, self.dims, <<>>), AdaPlan(self, self.dims, <<>>, self.dims),
                     RmsBackwardPlan(self.dims, self, self.dims), LayerNormBackwardPlan(self.dims, self, <<c.p.D>>, self.dims),
                     QuantPlan(self, <<>>, self.dims, <<c.p.D>>), ImplModePlan(self, <<c.p.D>>, 0, 0, self.dims),
                     AddRmsNormQuantPlan(self, self.dims, self.dims, <<c.p.D>>), RmsNormQuantPlan(self, self.dims, <<>>),
                     MxQuantPlan(self), LayerNormQuantPlan(self, self.dims), AddLayerNormQuantPlan(self, self.dims, self.dims),
                     DequantSwigluQuantPlan(Dense(<<c.p.rows, 2 * c.p.D>>), self), DeepNormGradPlan(self)}
       IN \A plan \in plans : plan.ok /\ plan.rows = c.p.rows /\ plan.D = c.p.D
  ELSE IF c.op = "instance" THEN InstanceNormPlan(Dense(c.p.dims)).ok
  ELSE LET self == Dense(c.p.dims) IN
       /\ \A plan \in {BnPlan(self), BnReducePlan(self), BnElemtBackwardPlan(self), QuantizedBnPlan(self)} :
            plan.ok /\ plan.C = c.p.dims[2] /\ plan.HW = c.p.dims[3]
       /\ LrnPlan(self).ok /\ BatchNormPlan(self, <<c.p.dims[2]>>, <<c.p.dims[2]>>, c.p.dims).ok
       /\ BnBackwardPlan(self).S = LrnPlan(self).S
       /\ GatherStatsPlan(<<c.p.dims[1], c.p.dims[2]>>).ok

Wide(x) == [i \in 0 .. 2 * Cardinality(DOMAIN x) - 1 |-> x[i % Cardinality(DOMAIN x)] + (i % 2)]
NormResult(c) ==
  LET p == c.p
      x == Mixed
      mem == [x |-> x, res |-> Second, sum |-> Ties]
      n == IF c.op \in RowOps THEN 0 ELSE p.dims[1]
      C == IF c.op \in RowOps THEN 0 ELSE p.dims[2]
      HW == IF c.op \in RowOps THEN 0 ELSE p.dims[3]
      act == [v \in -80 .. 80 |-> Flatter(v)]
      g == Elementwise(Second, [i \in DOMAIN x |-> Gamma[i % p.D]], LAMBDA a, b : a * b)
      stats == [ch \in 0 .. C - 1 |-> TwoPass(Channel(x, ch, n, C, HW), n * HW, p.TB, p.W)]
      sums == [ch \in 0 .. C - 1 |-> stats[ch].s]
      squares == [ch \in 0 .. C - 1 |-> stats[ch].var[1]]
  IN CASE c.op = "rms" -> RmsFast(x, p.rows, p.D, p.TB, p.W)
       [] c.op = "gemma" -> GemmaRms(x, p.rows, p.D, p.TB, p.W).y
       [] c.op = "ln_last" -> LnLast(x, p.rows, p.D, p.TB, p.W).y
       [] c.op = "deepnorm" -> DeepNorm(x, Second, p.k, p.rows, p.D, p.TB, p.W)
       \* the sum in a buffer of its own, then in place of x
       [] c.op = "add_rms" -> AddRmsNormCast(mem, "x", "res", IF p.k = 1 THEN "sum" ELSE "x", "half", p.rows, p.D, p.TB, p.W)
       [] c.op = "add_ln" -> AddLayerNorm(mem, "x", "res", IF p.k = 1 THEN "sum" ELSE "x", p.rows, p.D, p.TB, p.W)
       [] c.op = "adaln" -> AdaLn(x, p.rows, p.D, p.TB, p.W)
       [] c.op = "rms_gated" -> RmsNormGated(x, Second, p.rows, p.D, p.TB)
       [] c.op = "glu" -> Glu(Wide(x), p.rows, p.D)
       [] c.op = "lp" -> LpNormalize(x, p.rows, p.D, p.k, 5, p.TB)
       [] c.op = "rms_bwd" -> RmsBwd(Second, x, g, p.rows, p.D, p.TB, p.W)
       [] c.op = "ln_bwd" -> LnBwd(Second, x, g, p.rows, p.D, p.TB, p.W)
       [] c.op = "adaln_bwd" -> AdaLnBwd(Second, x, Ties, p.rows, p.D, p.TB, p.W)
       [] c.op = "deepnorm_bwd" ->
            [gx |-> DeepNormBwd(Second, x, Ties, Gamma, p.k, p.rows, p.D, p.TB, p.W), slots |-> GradientSlots(p.given)]
       [] c.op = "dynquant" -> AddRmsDynQuant(mem, "x", IF p.k = 1 THEN "res" ELSE "none", IF p.k = 1 THEN "sum" ELSE "none",
                                              Gamma, p.rows, p.D, p.TB, p.W)
       [] c.op = "rmsquant" -> AddRmsQuant(Each(x, LAMBDA v : 2 * v + 1), Gamma, p.rows, p.D, p.k, 2, p.TB, p.W)
       [] c.op = "rmsmxq" -> RmsNormMxq(Each(x, LAMBDA v : 2 * v + 1), Each(Gamma, LAMBDA v : 100 * p.k * v), p.rows, p.D, p.TB, p.W)
       [] c.op = "ln_quant" -> LnQuant(x, Gamma, p.rows, p.D, p.TB, p.W)
       [] c.op = "dequant_swiglu" -> DequantSwigluQuant(Wide(x), [r \in 0 .. 11 |-> r + 1], act, p.rows, p.D, p.TB, p.W)
       [] c.op = "group_norm" -> GnFast(x, C, HW, p.G, n, p.TB, p.W)
       [] c.op = "gn_act" -> GnAct(x, C, HW, p.G, n, p.TB, p.W, GroupNormActScale("silu_v2", FALSE, 1)).y
       [] c.op = "gn_quant" -> GnActQuant(x, C, HW, p.G, n, act, p.TB, p.W)
       [] c.op = "gn_bwd" -> GnBwd(Second, x, Gamma, n, C, p.G, HW, p.TB, p.W)
       [] c.op = "batch_norm" -> RunBatchNorm(x, p.dims)
       [] c.op = "instance" -> InstanceNorm(x, n * C, HW, C, p.TB)
       [] c.op = "lrn" -> Lrn(x, n, C, HW, 3)
       [] c.op = "bn_bwd" -> BnBwdDx(Second, x, sums, squares, BnBwdStats(Second, x, sums, n, C, HW), n, C, HW)
       [] c.op = "bn_steps" ->
            LET st == BnStats(x, n, C, HW, p.TB, p.W)
            IN [y |-> BnElemt(x, st, C, HW, n * HW), red |-> BnReduce(Second, x, st, n, C, HW, p.TB, p.W),
                dx |-> BnElemtBwd(Second, x, st, BnReduce(Second, x, st, n, C, HW, p.TB, p.W), C, HW, n * HW),
                slots |-> GradientSlots(p.given)]
       [] c.op = "gather" ->
            \* each image of a channel as a group of its own
            [ch \in 0 .. C - 1 |->
               GatherStats([l \in 1 .. n |-> OnePass(Row(x, (l - 1) * C + ch, HW), HW, p.TB, p.W)], [l \in 1 .. n |-> HW])]
       [] c.op = "qbn" -> QuantizedBn(x, [ch \in 0 .. C - 1 |-> [stats[ch] EXCEPT !.var[1] = @ + 1]], C, HW, n * HW, 1, 3)

(* The cells that are normalised together with f, and the cells they fill  *)
(* of x: a row, a group, a channel or one channel of one image.            *)
Together(c, f) ==
  LET p == c.p
      at == IF c.op \in RowOps THEN <<>> ELSE Tabulated([g \in 0 .. 11 |-> Coord(g, p.dims)])
      cell(g) == at[g]
  IN {g \in 0 .. 11 :
        IF c.op \in RowOps THEN g \div p.D = f \div p.D
        ELSE IF c.op \in ChannelOps THEN /\ cell(g)[1] = cell(f)[1]
                                         /\ cell(g)[2] \div (p.dims[2] \div p.G) = cell(f)[2] \div (p.dims[2] \div p.G)
        ELSE IF c.op = "instance" THEN cell(g)[1] = cell(f)[1] /\ cell(g)[2] = cell(f)[2]
        ELSE cell(g)[2] = cell(f)[2]}
Groups(c) == {Together(c, f) : f \in 0 .. 11}
AffineOf(c, f) == IF c.op = "adaln" THEN f ELSE IF c.op \in RowOps THEN f % c.p.D ELSE Coord(f, c.p.dims)[2]

IsMeanSquare(x, S, y, f) ==
  /\ y.num = x[f] /\ y.var[1] * Cardinality(S) = y.var[2] * SumOver(S, LAMBDA g : Squared(x[g]))
IsStandard(x, S, y, f) ==
  LET n == Cardinality(S) IN
  /\ y.num = n * x[f] - SumOver(S, LAMBDA g : x[g])
  /\ 2 * n * n * y.var[1] = y.var[2] * SumOver(S \X S, LAMBDA t : Squared(x[t[1]] - x[t[2]]))

(* dx is the gradient of a standardised group exactly when it is balanced, *)
(* orthogonal to the centred input c, and differs from n * V * g by a      *)
(* linear function of c.                                                   *)
IsGradient(S, dx, g, x) ==
  LET n == Cardinality(S)
      mean == SumOver(S, LAMBDA k : x[k])
      cc == Tabulated([k \in S |-> n * x[k] - mean])
      V == SumOver(S, LAMBDA k : Squared(cc[k]))
      h == Tabulated([k \in S |-> dx[k] - n * V * g[k]])
  IN /\ SumOver(S, LAMBDA k : dx[k]) = 0
     /\ SumOver(S, LAMBDA k : dx[k] * cc[k]) = 0
     /\ \A i, j, k \in S : (h[i] - h[j]) * (x[k] - x[j]) = (h[k] - h[j]) * (x[i] - x[j])

(* q is y scaled to its largest magnitude over S: the largest becomes 127, *)
(* every other one is within half a step of its place.                     *)
IsQuantised(S, y, q, scale) ==
  LET amax == CHOOSE v \in {Abs(y[g]) : g \in S} : \A g \in S : Abs(y[g]) <= v
  IN /\ scale = amax
     /\ \A g \in S : /\ 2 * Abs(127 * y[g] - q[g] * amax) <= amax
                     /\ Abs(y[g]) = amax /\ amax > 0 => Abs(q[g]) = 127

(* Every gradient tensor asked for receives the gradient of its name. *)
OwnGradient(given, slots) == \A t \in given : slots[t] = t

NormIs(c, r) ==
  LET p == c.p
      x == Mixed
      added == Elementwise(x, Second, +)
      dy == Second
      D == p.D
      group(f) == IF c.op \in RowOps THEN f \div D ELSE f \div (Cardinality(Together(c, f)))
      odd == Each(x, LAMBDA v : 2 * v + 1)
      affine(y, f) == y.affine = AffineOf(c, f)
  IN CASE c.op \in {"rms", "gemma"} -> \A f \in 0 .. 11 : IsMeanSquare(x, Together(c, f), r[f], f) /\ affine(r[f], f)
       [] c.op = "rms_gated" ->
            LET h == Elementwise(x, Second, LAMBDA a, b : a * b)
            IN \A f \in 0 .. 11 : IsMeanSquare(h, Together(c, f), r[f], f) /\ affine(r[f], f)
       [] c.op = "add_rms" ->
            /\ r.sum = added /\ r.yCast.y = r.y
            /\ \A f \in 0 .. 11 : IsMeanSquare(added, Together(c, f), r.y[f], f) /\ affine(r.y[f], f)
       [] c.op = "add_ln" ->
            r.sum = added /\ \A f \in 0 .. 11 : IsStandard(added, Together(c, f), r.y[f], f) /\ affine(r.y[f], f)
       [] c.op = "deepnorm" ->
            LET in == Elementwise(x, Second, LAMBDA a, b : p.k * a + b)
            IN \A f \in 0 .. 11 : IsStandard(in, Together(c, f), r[f], f) /\ affine(r[f], f)
       [] c.op \in {"ln_last", "adaln", "group_norm", "gn_act", "instance"} ->
            \A f \in 0 .. 11 : IsStandard(x, Together(c, f), r[f], f) /\ affine(r[f], f)
       [] c.op = "batch_norm" -> \A f \in 0 .. 11 : r[f] = <<x[f], AffineOf(c, f)>>
       [] c.op = "glu" -> \A row \in 0 .. p.rows - 1, d \in 0 .. D - 1 :
                            r[row * D + d] = <<Wide(x)[2 * row * D + d], Wide(x)[(2 * row + 1) * D + d]>>
       [] c.op = "lp" -> \A f \in 0 .. 11 :
                           LET norm == SumOver(Together(c, f), LAMBDA g : Abs(x[g]) ^ p.k)
                           IN r[f] = <<x[f], IF norm < 5 ^ p.k THEN 5 ^ p.k ELSE norm>>
       [] c.op = "lrn" -> \A f \in 0 .. 11 :
                            r[f] = SumOver({g \in 0 .. 11 : /\ Coord(g, p.dims)[1] = Coord(f, p.dims)[1]
                                                           /\ Coord(g, p.dims)[3] = Coord(f, p.dims)[3]
                                                           /\ Abs(Coord(g, p.dims)[2] - Coord(f, p.dims)[2]) <= 1},
                                          LAMBDA g : Squared(x[g]))
       [] c.op = "rms_bwd" ->
            LET g == [f \in 0 .. 11 |-> dy[f] * Gamma[f % D]] IN
            /\ \A f \in 0 .. 11 : r.dx[f] = SumOver(Together(c, f), LAMBDA k : x[k] * (x[k] * g[f] - x[f] * g[k]))
            /\ \A d \in 0 .. D - 1, row \in 0 .. p.rows - 1 : r.dgamma[d][row] = dy[row * D + d] * x[row * D + d]
       [] c.op = "ln_bwd" ->
            LET g == [f \in 0 .. 11 |-> dy[f] * Gamma[f % D]] IN
            /\ \A S \in Groups(c) : IsGradient(S, r.dx, g, x)
            /\ \A d \in 0 .. D - 1 : Total([row \in 1 .. p.rows |-> r.dbeta[d][row - 1]])
                                      = SumOver({f \in 0 .. 11 : f % D = d}, LAMBDA f : dy[f])
       [] c.op = "adaln_bwd" ->
            LET g == [f \in 0 .. 11 |-> dy[f] * (1 + Ties[f])] IN
            /\ \A S \in Groups(c) : IsGradient(S, r.gX, g, x)
            /\ \A f \in 0 .. 11 : r.gScale[f] = dy[f] * (D * x[f] - SumOver(Together(c, f), LAMBDA k : x[k]))
            /\ r.gShift = dy
       [] c.op = "deepnorm_bwd" ->
            LET in == Elementwise(x, Ties, LAMBDA a, b : p.k * a + b)
                g == [f \in 0 .. 11 |-> dy[f] * Gamma[f % D]]
            IN /\ \A S \in Groups(c) : IsGradient(S, r.gx.gradGx, g, in)
               /\ \A f \in 0 .. 11 : r.gx.gradX[f] = p.k * r.gx.gradGx[f]
               /\ OwnGradient(p.given, r.slots)
       [] c.op = "bn_bwd" -> \A S \in Groups(c) : IsGradient(S, r, dy, x)
       [] c.op = "gn_bwd" ->
            /\ \A S \in Groups(c) : IsGradient(S, r.dx, [k \in 0 .. 11 |-> dy[k] * Gamma[Coord(k, p.dims)[2]]], x)
            /\ \A ch \in DOMAIN r.dbeta : r.dbeta[ch] = SumOver({f \in 0 .. 11 : Coord(f, p.dims)[2] = ch}, LAMBDA f : dy[f])
       [] c.op = "bn_steps" ->
            /\ \A f \in 0 .. 11 : IsStandard(x, Together(c, f), r.y[f], f) /\ affine(r.y[f], f)
            /\ \A S \in Groups(c) : IsGradient(S, r.dx, dy, x)
            /\ OwnGradient(p.given, r.slots)
       [] c.op = "gather" ->
            \* the statistics of the groups together are those of the whole
            \A f \in 0 .. 11 :
              LET S == Together(c, f)
                  got == r[Coord(f, p.dims)[2]]
              IN /\ got.s = SumOver(S, LAMBDA g : x[g])
                 /\ 2 * Squared(Cardinality(S)) * got.var[1]
                     = got.var[2] * SumOver(S \X S, LAMBDA t : Squared(x[t[1]] - x[t[2]]))
       [] c.op = "qbn" -> \A f, g \in 0 .. 11 :
                            /\ r[f] \in -128 .. 127
                            /\ g \in Together(c, f) /\ x[g] <= x[f] => r[g] <= r[f]
       [] c.op = "rmsquant" ->
            \A f \in 0 .. 11 :
              LET S == Together(c, f)
                  ss == SumOver(S, LAMBDA g : Squared(odd[g])) * Squared(p.k)
                  q == Abs(r[f] - 2)
                  v == 4 * D * Squared(odd[f] * Gamma[f % D])
              IN /\ v <= Squared(2 * q + 1) * ss
                 /\ q > 0 => v >= Squared(2 * q - 1) * ss
                 /\ (r[f] - 2) * odd[f] * Gamma[f % D] >= 0
       [] c.op = "rmsmxq" ->
            \* no code beyond 127, and a scale of half the size would have one
            \A f \in 0 .. 11 :
              LET S == Together(c, f)
                  ss == SumOver(S, LAMBDA g : Squared(odd[g]))
                  k == r.k[f \div D]
                  over(e) == \E g \in S : D * Squared(odd[g] * 100 * p.k * Gamma[g % D]) > Squared(127 * 2 ^ e) * ss
              IN /\ \A g \in S : Abs(r.q[g]) <= 127
                 /\ ~over(k) /\ (k > 0 => over(k - 1))
       [] c.op = "dynquant" ->
            LET s == IF p.k = 1 THEN added ELSE x IN
            /\ p.k = 1 => r.sum = added
            /\ \A f \in 0 .. 11 : IsQuantised(Together(c, f), [g \in 0 .. 11 |-> s[g] * Gamma[g % D]], r.q, r.scale[group(f)])
       [] c.op = "ln_quant" ->
            \A f \in 0 .. 11 :
              LET S == Together(c, f)
              IN IsQuantised(S, [g \in S |-> (D * x[g] - SumOver(S, LAMBDA k : x[k])) * Gamma[g % D]], r.q, r.scale[group(f)])
       [] c.op = "gn_quant" ->
            \A f \in 0 .. 11 :
              LET S == Together(c, f)
              IN IsQuantised(S, [g \in S |-> Flatter(Cardinality(S) * x[g] - SumOver(S, LAMBDA k : x[k]))], r.q, r.scale[group(f)])
       [] c.op = "dequant_swiglu" ->
            \A f \in 0 .. 11 :
              LET row == f \div D
                  in(g) == [half \in {0, 1} |-> Wide(x)[(2 * row + half) * D + (g % D)] * (row + 1)]
              IN IsQuantised(Together(c, f), [g \in Together(c, f) |-> Flatter(in(g)[0]) * in(g)[1]], r.q, r.scale[row])

(* The call whose result is another: "BatchNormReduce: backward reduce ->  *)
(* sumDy, sumDyXmu, gradWeight, gradBias" (norm_ext.cu:1117) and           *)
(* DeepNormGrad write the gradient of the weight into the first tensor     *)
(* they are given (:1126, :1217), which is gradBias when it comes alone.   *)
NormDeparts(c) == c.op \in {"bn_steps", "deepnorm_bwd"} /\ c.p.given = {"gradBias"}
=============================================================================
