----------------------------- MODULE MCElements -----------------------------
(***************************************************************************)
(* Losses and element-by-element operators on small tensors, with the      *)
(* definition each is checked against.  A call is [op, p].                 *)
(***************************************************************************)
EXTENDS LossKernels, ElementKernels

El(op, p) == [op |-> op, p |-> p]
Of(n, F(_)) == [i \in 0 .. n - 1 |-> F(i)]
Over(S, F(_)) == FoldSet(LAMBDA e, n : n + F(e), 0, S)
Below(n) == 0 .. n - 1

(* Data: both signs, ties, class indices, masks, powers of two. *)
Wave == Of(24, LAMBDA i : ((i * 7) % 9) - 4)
Skew == Of(24, LAMBDA i : ((i * 5) % 7) - 3)
Bit == Of(24, LAMBDA i : (i * 3 + i \div 4) % 2)
Sign == Of(24, LAMBDA i : IF i % 3 = 1 THEN -1 ELSE 1)
Class == Of(8, LAMBDA i : (i * 2 + 1) % 3)
Power == Of(24, LAMBDA i : 2 ^ (i % 4))
Share == Of(24, LAMBDA i : One \div 2 ^ (i % 4))
FloatOf(dims) == [dims |-> dims, type |-> "float"]
Int64Of(dims) == [dims |-> dims, type |-> "int64"]
Agree(q, r) == q[1] * r[2] = r[1] * q[2]

(* p = <<n or <<N, C>>, reduction, TB, W, G, par>> *)
Grids == {<<2, 1, 2>>, <<2, 2, 1>>, <<4, 2, 2>>, <<4, 2, 1>>}
Flat1 == {"mse", "bce_logits"} \cup {"l1", "smooth", "huber", "kl", "bce", "soft_margin"} \cup {"ranking", "hinge"}
Flat2 == {"nll", "cross_entropy"}
Samples == {"mls", "multi_margin", "triplet", "cosine", "poisson", "gaussian"}
Grads1 == {"mse_bwd", "l1_bwd", "smooth_bwd", "huber_bwd"}
KModes == {"swish", "softsign", "logit", "soft_margin", "bce", "bce_logits", "bce_logits_target", "kl", "kl_target"}
LossCalls ==
  {El(op, <<n, red, g, 3>>) : op \in Flat1, n \in {1, 5, 11}, red \in {0, 1, 2}, g \in Grids}
  \cup {El(op, <<d, red, g, 3>>) : op \in Flat2, d \in {<<5, 3>>, <<2, 3>>}, red \in {0, 1, 2}, g \in Grids}
  \cup {El(op, <<<<4, 3>>, red, <<2, 1, 2>>, par>>) : op \in Samples, red \in {0, 1, 2}, par \in {1, 2}}
  \cup {El(op, <<6, red, <<2, 1, 2>>, 2>>) : op \in Grads1, red \in {0, 1, 2}}
  \cup {El("kgrad", <<mode, red>>) : mode \in KModes, red \in {0, 1}}
  \cup {El(op, <<<<4, 3>>, red, <<2, 1, 2>>, 1>>) : op \in {"ce_bwd", "nll_bwd", "ce_grad"}, red \in {0, 1, 2}}
  \cup {El(op, <<<<4, 3>>, 0, <<2, 1, 2>>, par>>) :
          op \in {"sce", "mlml", "sm", "sm_bwd", "glu", "glu_bwd", "prelu", "dropout", "modulate", "cdist",
                  "bias_grad", "repeat", "segsum", "segsum_bwd", "nll2d"}, par \in {1, 2}}
  \cup {El("ctc", <<tgt, Ti, blank>>) :
          tgt \in {<<>>, <<1>>, <<1, 1>>, <<1, 2>>, <<2, 2>>}, Ti \in 1 .. 4, blank \in {0}}
  \cup {El("ctc", <<tgt, Ti, 2>>) : tgt \in {<<0, 1>>, <<1, 1>>, <<0, 1, 0>>}, Ti \in {2, 4}}

LossAccepts(c) ==
  CASE c.op \in Flat1 \cup Grads1 -> (IF c.op = "mse" THEN MsePlan(FloatOf(<<c.p[1]>>), {}, {}) ELSE LossWs(FloatOf(<<c.p[1]>>))).ok
    [] c.op \in Flat2 -> NLLPlan(FloatOf(c.p[1]), Int64Of(<<c.p[1][1]>>)).ok
    [] c.op \in Samples -> IF c.op \in {"poisson", "gaussian"} THEN ElementPlan(FloatOf(c.p[1])).ok ELSE PerSamplePlan(FloatOf(c.p[1])).ok
    [] c.op = "nll_bwd" -> NllBwdBuild(c.p[1], c.p[2]).ok
    [] c.op = "cdist" -> CdistPlan(<<2, 3>>, <<3, 3>>).ok
    [] c.op = "ctc" -> LET pl == CtcPlan(4, 2, 3) IN \A n \in {0, 1} : CtcScratchEnd(pl, n, Len(c.p[1])) <= pl.ws
    [] OTHER -> CeGradPlan(<<4, 3>>, <<4>>).ok

Emission == [c \in (0 .. 3) \X (0 .. 2) |-> 1 + ((c[1] * 2 + c[2] * 3 + c[1] * c[2]) % 4)]
Labels(tgt) == [i \in 0 .. Len(tgt) - 1 |-> tgt[i + 1]]
Offsets == Of(4, LAMBDA i : <<0, 1, 1, 4>>[i + 1])
Listed == Of(12, LAMBDA i : <<1, -1, 2,  -1, 0, 1,  2, 0, 1,  0, 2, -1>>[i + 1])
Distances(pl) == Of(pl.P * pl.R, LAMBDA i : Over(Below(pl.M), LAMBDA m : Abs(Wave[(i \div pl.R) * pl.M + m] - Skew[(i % pl.R) * pl.M + m])))
Segs == Of(12, LAMBDA i : i % 4)

LossResult(c) ==
  LET p == c.p
      TB == p[3][1]
      W == p[3][2]
      G == p[3][3]
      N == p[1][1]
      C == p[1][2]
  IN CASE c.op = "mse" -> Mse(Wave, Skew, p[1], p[2], TB, W)
       [] c.op = "bce_logits" -> BCEWithLogits(Wave, Bit, p[1], p[2], TB, W)
       [] c.op = "bce" -> LossRun("bce", Share, Bit, 0, p[1], p[2], TB, G)
       [] c.op = "kl" -> LossRun("kl", Wave, Power, 0, p[1], p[2], TB, G)
       [] c.op \in {"l1", "smooth", "huber", "soft_margin"} ->
            LossRun(c.op, Wave, IF c.op = "soft_margin" THEN Sign ELSE Skew, p[4], p[1], p[2], TB, G)
       [] c.op \in {"ranking", "hinge"} -> MarginRun(c.op, Wave, Skew, Sign, p[4], p[1], p[2], TB, G)
       [] c.op = "nll" -> NLL(Wave, Class, N, C, p[2], TB, W)
       [] c.op = "cross_entropy" -> CrossEntropy(Wave, Class, N, C, p[2], TB, W)
       [] c.op = "mls" -> Finalize(MultiLabelSoftMargin(Wave, Bit, N, C), N, p[2])
       [] c.op = "multi_margin" -> Finalize(MultiMargin(Wave, Class, N, C, 2, p[4]), N, p[2])
       [] c.op = "triplet" -> Finalize(Triplet(Wave, Skew, Sign, N, C, p[4]), N, p[2])
       [] c.op = "cosine" -> CosineEmbedding(Wave, Skew, Sign, N, C)
       [] c.op = "poisson" -> Finalize(PoissonNll(Power, Bit, N, p[4] = 1), N, p[2])
       [] c.op = "gaussian" -> Finalize(GaussianNll(Wave, Skew, Of(N, LAMBDA i : i), N), N, p[2])
       [] c.op = "mse_bwd" -> MseBwd(Sign, Wave, Skew, p[1], p[2])
       [] c.op \in {"l1_bwd", "smooth_bwd", "huber_bwd"} ->
            LossBwdRun(IF c.op = "l1_bwd" THEN "l1" ELSE IF c.op = "smooth_bwd" THEN "smooth" ELSE "huber", Sign, Wave, Skew, p[4], p[1], p[2])
       [] c.op = "kgrad" -> KGrad(p[1], Wave, 6, Of(6, LAMBDA i : 2 + (i % 4)), IF p[1] = "soft_margin" THEN Sign ELSE Power, Power, 6, p[2])
       [] c.op = "ce_bwd" -> CeBwd(Wave, Skew, Class, N, C, p[2])
       [] c.op = "ce_grad" -> CeGrad(Skew, Class, N, C, Wave[0], p[2])
       [] c.op = "nll_bwd" -> NllBwd(Wave, Class, Power, NllBwdBuild(p[1], p[2]), p[2])
       [] c.op = "nll2d" -> NLLLoss2d(Wave, Class, Power, N, C)
       [] c.op = "sce" -> SceLogits(Wave, Bit, N, C)
       [] c.op = "mlml" -> MultilabelMargin(Wave, Listed, N, C)
       [] c.op = "sm" -> SmSoftmax(Bit, IF p[4] = 1 THEN Skew ELSE Sign, SmPlan(p[1], IF p[4] = 1 THEN 12 ELSE 3), 2)
       [] c.op = "sm_bwd" -> SmSoftmaxBwd(Wave, Bit, N, C, p[4])
       [] c.op = "glu" -> GluFwd(Wave, 2, GluHalves(<<2, 6>>, <<2, 3>>).D)
       [] c.op = "glu_bwd" -> GluBwd(Sign, Wave, GluHalves({}, <<2, 3>>).rows, 3)
       [] c.op = "prelu" -> PreluBwd(Sign, Wave, Power, 12, PreluPlan(<<2, 3, 2>>, IF p[4] = 1 THEN 1 ELSE 3))
       [] c.op = "dropout" -> DropoutBwd(Wave, Bit, 12, 2)
       [] c.op = "modulate" -> ModulateBwd(Sign, Wave, Skew, 12)
       [] c.op = "cdist" -> LET pl == CdistPlan(<<2, 3>>, <<3, 3>>) IN CdistBwd(Sign, Wave, Skew, Distances(pl), pl)
       [] c.op = "bias_grad" -> GroupedBiasAddGrad(Wave, Offsets, 3, C)
       [] c.op = "repeat" -> RepeatGrad(Wave, 6, RepeatsOf(6, 6 * p[4]))
       [] c.op = "segsum" -> ExpSegsum(Wave, 2, 3)
       [] c.op = "segsum_bwd" -> ExpSegsumBwd(Sign, Bit, 2, 3)
       [] c.op = "ctc" -> <<Ctc(Emission, Labels(p[1]), p[2], Len(p[1]), p[3])>>

(* The value of one sample or element, whatever the launch does with it. *)
LossOf(op, i, C, par) ==
  LET best == {m \in -9 .. 9 : \E c \in Below(C) : Wave[i * C + c] = m}
      low == -9
  IN CASE op = "mse" -> Over(Below(Abs(Wave[i] - Skew[i])), LAMBDA k : 2 * k + 1)
       [] op = "bce_logits" -> SoftPlus(IF Bit[i] = 1 THEN -Wave[i] ELSE Wave[i])
       [] op = "l1" -> Over(Below(40), LAMBDA k : IF (Wave[i] < k - 20) # (Skew[i] < k - 20) THEN 1 ELSE 0)
       [] op \in {"smooth", "huber"} ->     \* the area under the clipped slope
            LET d == Abs(Wave[i] - Skew[i]) IN Over(Below(d), LAMBDA k : IF k < par THEN 2 * k + 1 ELSE 2 * par)
       [] op = "kl" -> Power[i] * ((i % 4) - Wave[i])
       [] op = "bce" -> LET k == i % 4 IN IF Bit[i] = 1 THEN (IF k = 0 THEN 1 ELSE k)
                                         ELSE IF k = 0 THEN Bits ELSE 1
       [] op = "soft_margin" -> SoftPlus(IF Sign[i] = 1 THEN -Wave[i] ELSE Wave[i])
       [] op = "ranking" -> LET lead == Sign[i] * (Wave[i] - Skew[i]) IN IF lead >= par THEN 0 ELSE par - lead
       [] op = "hinge" -> IF Sign[i] = 1 THEN Wave[i] ELSE IF Wave[i] >= par THEN 0 ELSE par - Wave[i]
       [] op = "nll" -> 0 - Wave[i * C + Class[i]]
       [] op = "cross_entropy" -> Log2(Over(Below(C), LAMBDA c : 2 ^ (Wave[i * C + c] - low))) + low - Wave[i * C + Class[i]]
       [] op = "mls" -> Over(Below(C), LAMBDA c : LET v == Wave[i * C + c] IN IF Bit[i * C + c] = 1 THEN SoftPlus(-v) ELSE SoftPlus(v))
       [] op = "multi_margin" ->
            Over(Below(C) \ {Class[i]}, LAMBDA j : LET m == 2 + Wave[i * C + j] - Wave[i * C + Class[i]] IN IF m > 0 THEN m ^ par ELSE 0)
       [] op = "triplet" ->
            LET far(b) == Over(Below(C), LAMBDA d : Abs(Wave[i * C + d] - b[i * C + d]))
            IN IF far(Skew) + par > far(Sign) THEN far(Skew) + par - far(Sign) ELSE 0
       [] op = "poisson" -> IF par = 1 THEN 2 ^ Power[i] - Bit[i] * Power[i] ELSE Power[i] - Bit[i] * (i % 4)
       [] op = "gaussian" -> LET v == IF i = 0 THEN 1 ELSE i IN v * Log2(v) + (Wave[i] - Skew[i]) ^ 2

(* A path of the label alphabet, without repeats and then without blanks. *)
Collapse(path, blank) ==
  LET kept == SelectSeq([t \in DOMAIN path |-> IF t > 1 /\ path[t] = path[t - 1] THEN blank ELSE path[t]], LAMBDA l : l # blank)
  IN kept
PathWeight(path) == FoldLeft(LAMBDA w, t : w * Emission[t - 1, path[t]], 1, [t \in DOMAIN path |-> t])

(* The loss at the element moved by h, for the derivative's check. *)
Moved(lk, i, h, par) == LossElem(lk, Wave[i] + h, Skew[i], par)
UpTo(q, red, n) == q[2] = (IF red = 1 THEN n ELSE 1)
SoftmaxIs(q, v, d) == q[1] * Over(DOMAIN v, LAMBDA k : 2 ^ (Bits + v[k] - 8)) = 2 ^ (Bits + v[d] - 8) * q[2]

LossIs(c, r) ==
  LET p == c.p
      N == p[1][1]
      C == p[1][2]
      red == p[2]
  IN CASE c.op \in Flat1 \cup Flat2 \cup (Samples \ {"cosine"}) ->
            LET n == IF c.op \in Flat1 THEN p[1] ELSE N
                scalar == red # 0 \/ c.op \in {"bce_logits", "cross_entropy"}
            IN /\ DOMAIN r = IF scalar THEN {0} ELSE Below(n)
               /\ \A i \in DOMAIN r :
                    /\ UpTo(r[i], red, n)
                    /\ r[i][1] = IF scalar THEN Over(Below(n), LAMBDA k : LossOf(c.op, k, C, p[4])) ELSE LossOf(c.op, i, C, p[4])
       [] c.op = "cosine" -> \A n \in Below(N) :
            /\ r[n].near = (Sign[n] = 1)
            /\ r[n].cos[1] ^ 2 <= r[n].cos[2] * r[n].cos[3]
            /\ 2 * r[n].cos[1] = r[n].cos[2] + r[n].cos[3] - Over(Below(C), LAMBDA d : (Wave[n * C + d] - Skew[n * C + d]) ^ 2)
       [] c.op = "mse_bwd" -> \A i \in Below(p[1]) :   \* the central difference
            /\ UpTo(r[i], red, p[1])
            /\ 2 * r[i][1] = (IF red = 0 THEN Sign[i] ELSE Sign[0])
                             * ((Wave[i] + 1 - Skew[i]) ^ 2 - (Wave[i] - 1 - Skew[i]) ^ 2)
       [] c.op \in {"l1_bwd", "smooth_bwd", "huber_bwd"} -> \A i \in Below(p[1]) :   \* a subgradient
            LET lk == IF c.op = "l1_bwd" THEN "l1" ELSE IF c.op = "smooth_bwd" THEN "smooth" ELSE "huber"
                g == r[i][1] * (IF red = 0 THEN Sign[i] ELSE Sign[0])
                unit == IF lk = "l1" THEN 1 ELSE 2
            IN /\ UpTo(r[i], red, p[1])
               /\ \A h \in -6 .. 6 : Moved(lk, i, h, p[4]) >= Moved(lk, i, 0, p[4]) + unit * g * h
       [] c.op = "kgrad" -> \A i \in Below(6) :
            LET g == Wave[i]
                x == 2 + (i % 4)
                t == IF p[1] = "soft_margin" THEN Sign[i] ELSE Power[i]
                n == IF red = 1 THEN 6 ELSE 1
            IN CASE p[1] = "kl" -> Agree(r[i], <<g * (LossElem("kl", x + 1, t, 0) - LossElem("kl", x, t, 0)), n>>)
                 [] p[1] = "kl_target" -> Agree(r[i], <<g * (1 + (i % 4) - x), n>>)
                 [] p[1] = "bce_logits_target" -> Agree(r[i], <<-g * t * x, n>>)
                 [] p[1] = "bce_logits" -> Agree(r[i], <<g * t * (2 ^ x - t * (1 + 2 ^ x)), (1 + 2 ^ x) * n>>)
                 [] p[1] = "bce" -> Agree(r[i], <<g * t * (x - t), n * (x - x ^ 2)>>)
                 [] p[1] = "logit" -> Agree(r[i], <<g, n * (x - x ^ 2)>>)
                 [] p[1] = "softsign" -> Agree(r[i], <<g, n * (1 + x) ^ 2>>)
                 [] p[1] = "soft_margin" -> \* -t * sigmoid(-t x), the sigmoid from its complement
                      Agree(<<r[i][1] + g * t * (r[i][2] \div n), r[i][2] \div n>>, <<g * t * 2 ^ (t * x + 5), 32 + 2 ^ (t * x + 5)>>)
                 [] OTHER -> r[i][2] > 0
       [] c.op \in {"ce_bwd", "ce_grad"} -> \A n \in Below(N) :
            /\ Over(Below(C), LAMBDA k : r[n * C + k][1]) = 0          \* a row's gradients cancel
            /\ \A k \in Below(C) :
                 LET q == r[n * C + k]
                     g == Wave[0]
                     den == q[2] \div (IF red = 1 THEN N ELSE 1)
                     exps == q[1] + (IF k = Class[n] THEN g * den ELSE 0)
                 IN exps * Over(Below(C), LAMBDA j : 2 ^ (Skew[n * C + j] + 4)) = g * den * 2 ^ (Skew[n * C + k] + 4)
       [] c.op = "nll_bwd" -> \A n \in Below(N), k \in Below(C) :
            /\ UpTo(r[n * C + k], red, N)
            /\ r[n * C + k][1] = IF k = Class[n] THEN 0 - Power[k] * (IF red = 0 THEN Wave[n] ELSE Wave[0]) ELSE 0
       [] c.op = "nll2d" -> \A n \in Below(N) : r[n] = 0 - Over({k \in Below(C) : k = Class[n]}, LAMBDA k : Power[k] * Wave[n * C + k])
       [] c.op = "sce" -> \A n \in Below(N) :
            /\ r.loss[n] = Over({k \in Below(C) : Bit[n * C + k] = 1},
                                LAMBDA k : Log2(Over(Below(C), LAMBDA j : 2 ^ (Wave[n * C + j] + 9))) - 9 - Wave[n * C + k])
            /\ \A k \in Below(C) : LET q == r.backprop[n * C + k]
                                   IN SoftmaxIs(<<q[1] + Bit[n * C + k] * q[2], q[2]>>, Of(C, LAMBDA j : Wave[n * C + j]), k)
       [] c.op = "mlml" -> \A n \in Below(N) :
            LET end == {j \in Below(C) : Listed[n * C + j] < 0}
                tgt == {Listed[n * C + j] : j \in {j \in Below(C) : \A e \in end : j < e}}
            IN r[n] = Over(tgt \X (Below(C) \ tgt), LAMBDA q : LET z == 1 - Wave[n * C + q[1]] + Wave[n * C + q[2]] IN IF z > 0 THEN z ELSE 0)
       [] c.op = "sm" -> \A i \in Below(12) :
            SoftmaxIs(r[i], Of(3, LAMBDA d : 2 * Bit[(i \div 3) * 3 + d] + (IF p[4] = 1 THEN Skew[(i \div 3) * 3 + d] ELSE Sign[d])), i % 3)
       [] c.op = "sm_bwd" -> \A n \in Below(N) : \A d \in Below(C) :
            r[n * C + d] = p[4] * Over(Below(C), LAMBDA k : Bit[n * C + d] * Bit[n * C + k] * (Wave[n * C + d] - Wave[n * C + k]))
                           + p[4] * Bit[n * C + d] * Wave[n * C + d] * (1 - Over(Below(C), LAMBDA k : Bit[n * C + k]))
       [] c.op = "glu" -> \A c2 \in Coords(<<2, 3>>) :
            r[Flat(c2, <<2, 3>>)] = <<Wave[Flat(c2, <<2, 6>>)], Wave[Flat(<<c2[1], c2[2] + 3>>, <<2, 6>>)]>>
       [] c.op = "glu_bwd" -> \A c2 \in Coords(<<2, 3>>) :
            LET a == Flat(c2, <<2, 6>>)
                b == a + 3
                e == 2 ^ (Wave[b] + 4)
                g == Sign[Flat(c2, <<2, 3>>)]
            IN Agree(r[a], <<g * e, 16 + e>>) /\ r[b] = <<16 * g * Wave[a] * 16 * e, 16 * (16 + e) ^ 2>>
       [] c.op = "prelu" ->
            LET ch(i) == IF p[4] = 1 THEN 0 ELSE Coord(i, <<2, 3, 2>>)[2]
            IN /\ \A i \in Below(12) : r.gi[i] = Sign[i] * (IF Wave[i] > 0 THEN 1 ELSE Power[ch(i)])
               /\ \A k \in DOMAIN r.gw : r.gw[k] = Over({i \in Below(12) : ch(i) = k /\ Wave[i] < 0}, LAMBDA i : Sign[i] * Wave[i])
       [] c.op = "dropout" -> \A i \in Below(12) : Bit[i] = 1 => Agree(r[i], <<Wave[i], 2>>)
       [] c.op = "modulate" ->   \* the derivative of the forward in each operand
            LET y(x, s) == Modulate(x, s, Wave, 12)
                up(f) == [i \in DOMAIN f |-> f[i] + 1]
            IN \A i \in Below(12) :
                 /\ r.gx[i] = Sign[i] * (y(up(Wave), Skew)[i] - y(Wave, Skew)[i])
                 /\ r.gscale[i] = Sign[i] * (y(Wave, up(Skew))[i] - y(Wave, Skew)[i])
                 /\ r.gshift[i] = Sign[i]
       [] c.op = "cdist" -> \A pi \in Below(2), m \in Below(3) :   \* a subgradient of every distance
            LET at(k) == Wave[pi * 3 + m] > Skew[k * 3 + m]
                some(k) == \E d \in Below(3) : Wave[pi * 3 + d] # Skew[k * 3 + d]
            IN r[pi * 3 + m] = Over({k \in Below(3) : some(k)}, LAMBDA k : Sign[pi * 3 + k] * (IF at(k) THEN 1 ELSE -1))
       [] c.op = "bias_grad" -> \A g \in Below(3), k \in Below(C) :
            r[g * C + k] = Over({row \in Below(4) : Offsets[g] <= row /\ row < Offsets[g + 1]}, LAMBDA row : Wave[row * C + k])
       [] c.op = "repeat" -> \A i \in Below(6) :   \* the adjoint of repeating
            r[i] = Over({k \in Below(6 * p[4]) : k \div p[4] = i}, LAMBDA k : Wave[k])
       [] c.op = "segsum" -> \A c3 \in Coords(<<2, 3, 3>>) :
            LET v == r[Flat(c3, <<2, 3, 3>>)]
                upTo(k) == Over(0 .. k, LAMBDA m : Wave[c3[1] * 3 + m])
            IN IF c3[2] < c3[3] THEN v = <<>> ELSE v = <<upTo(c3[2]) - upTo(c3[3])>>
       [] c.op = "segsum_bwd" -> \A b \in Below(2), k \in Below(3) :
            r[b * 3 + k] = Over({q \in Coords(<<2, 3, 3>>) : q[1] = b /\ q[3] < k /\ k <= q[2]},
                                LAMBDA q : Sign[Flat(q, <<2, 3, 3>>)] * Bit[Flat(q, <<2, 3, 3>>)])
       [] c.op = "ctc" ->   \* the weight of every alignment that reads as the target
            r = <<Over({path \in [1 .. p[2] -> 0 .. 2] : Collapse(path, p[3]) = p[1]}, PathWeight)>>

-----------------------------------------------------------------------------
(* Element-wise calls, over views of buffers.                              *)
View(dims, strides, offset, type, data) == [dims |-> dims, strides |-> strides, offset |-> offset, type |-> type, data |-> data]
Halves == Of(24, LAMBDA i : <<((i * 7) % 9) - 4, 1 + (i % 2)>>)
Divisors == Of(24, LAMBDA i : <<IF Skew[i] = 0 THEN 2 ELSE Skew[i], 1 + (i % 3)>>)
Edges == Of(24, LAMBDA i : Rat(<<127, -128, 3, 0, -1, 100, 64, -7>>[1 + (i % 8)]))
NonZero == Of(24, LAMBDA i : Rat(<<2, -1, 3, -3, 5, 7, -128, 1>>[1 + ((i * 3) % 8)]))
Marks == Of(24, LAMBDA i : Rat(Bit[i]))
Specials == Of(8, LAMBDA i : <<Nan, <<1, 0>>, <<-1, 0>>, Rat(3), Zero, Rat(-2), <<1, 2>>, Nan>>[i + 1])
D_(dims, type, data) == View(dims, Strides(dims), 0, type, data)
Views(type, data) ==   \* of shape 2 x 3: dense, dense from a later cell on, transposed, a slice with gaps, a row repeated, a column repeated
  {D_(<<2, 3>>, type, data), View(<<2, 3>>, <<3, 1>>, 2, type, data), View(<<2, 3>>, <<1, 2>>, 0, type, data), View(<<2, 3>>, <<8, 2>>, 3, type, data),
   View(<<2, 3>>, <<0, 1>>, 2, type, data), View(<<2, 3>>, <<1, 0>>, 1, type, data)}
Stretched(type, data) ==
  {D_(<<3>>, type, data), D_(<<2, 1>>, type, data), D_(<<1>>, type, data), D_(<<>>, type, data), View(<<2, 1>>, <<3, 1>>, 4, type, data)}
(* The element of a view the broadcast gives output coordinates c. *)
Logical(t, c) == t.data[Cell(t, [k \in DOMAIN t.dims |-> IF t.dims[k] = 1 THEN 0 ELSE c[k + Len(c) - Len(t.dims)]])]
Out(dims, type) == D_(dims, type, <<>>)

BinaryOps == {"add", "sub", "rsub", "mul", "div", "maximum", "minimum", "fmod", "remainder", "floor_div", "heaviside", "lerp",
              "prelu", "hardshrink", "softshrink"}
IntOps == {"add", "sub", "mul", "maximum", "minimum", "fmod", "remainder", "floor_div"}
UnaryOps == Strided \cup {"squared_relu", "relu6", "hardsigmoid", "hardswish"}
F1 == D_(<<2, 3>>, "float", Of(6, LAMBDA i : Halves[i]))
FeCases == {<<"unary", "sign">>, <<"scalar", "mul">>, <<"scalarlist", "add">>, <<"list", "sub">>, <<"addc", "addcmul">>,
            <<"addc", "addcdiv">>, <<"lerp_scalar", "lerp">>, <<"lerp_list", "lerp">>, <<"copy", "">>, <<"zero", "">>}
FeLists(v, mixed) ==
  LET a == D_(<<2, 3>>, "float", Halves)
      b == IF mixed THEN D_(<<4>>, "half", Halves) ELSE D_(<<4>>, "float", Halves)
      p(t, d) == View(t.dims, t.strides, 0, t.type, d)
      all == <<<<a, b>>, <<p(a, Divisors), p(b, Divisors)>>, <<p(a, NonZero), p(b, NonZero)>>>>
  IN SubSeq(all, 1, FeIns[v]) \o (IF v = "zero" THEN <<>> ELSE <<<<Out(<<2, 3>>, "float"), Out(<<4>>, b.type)>>>>)
FeDs(v, one) ==
  CASE v \in {"scalar", "lerp_scalar"} -> <<Rat(3)>>
    [] v = "scalarlist" -> <<Rat(3), Rat(-2)>>
    [] v = "list" -> IF one THEN <<Rat(2)>> ELSE <<>>
    [] v = "addc" -> IF one THEN <<Rat(2)>> ELSE <<Rat(2), Rat(-3)>>
    [] OTHER -> <<>>
Orders == {<<0, 1, 2, 3, 4, 5>>, <<5, 4, 3, 2, 1, 0>>, <<3, 0, 5, 1, 4, 2>>}
ElementCalls ==
  {El("bin", <<op, a, b, VEC>>) : op \in BinaryOps, a \in Views("float", Halves),
        b \in Views("float", Divisors) \cup Stretched("float", Divisors), VEC \in {1, 2}}
  \cup {El("bin", <<op, D_(<<2, 4>>, "float", Halves), b, 4>>) : op \in {"sub", "lerp"}, b \in {D_(<<2, 4>>, "float", Divisors), D_(<<2, 4>>, "half", Divisors)}}
  \cup {El("bin", <<op, D_(<<2, 4>>, "int32", Edges), D_(<<2, 4>>, "int32", NonZero), 1>>) : op \in IntOps}
  \cup {El("bin", <<"floor_div", D_(<<2, 4>>, "int32", NonZero), b, 1>>) : b \in {D_(<<2, 4>>, "int32", NonZero), D_(<<4>>, "int32", NonZero)}}
  \cup {El("un", <<op, a>>) : op \in UnaryOps, a \in Views("float", Halves) \cup {D_(<<2, 3>>, "float", NonZero)}}
  \cup {El("scal", <<op, s>>) : op \in BinaryOps \ {"lerp"}, s \in {Rat(3), <<-3, 2>>}}
  \cup {El("round_dec", <<s>>) : s \in {Zero, Rat(1)}}
  \cup {El("tern", <<op>>) : op \in {"addcmul", "addcdiv", "clamp", "threshold"}}
  \cup {El("where", <<c, a, b>>) : c \in Views("bool", Marks) \cup Stretched("bool", Marks), a \in Views("float", Halves),
           b \in Stretched("float", Divisors) \cup Views("float", Divisors)}
  \cup {El("bit", <<op, b>>) : op \in {"and", "or", "xor"}, b \in {D_(<<2, 4>>, "int32", NonZero), D_(<<4>>, "int32", NonZero)}}
  \cup {El("not", <<0>>), El("subfp", <<"add", TRUE, <<3>>, <<3>>>>), El("subfp", <<"sub", TRUE, <<2, 3>>, <<3>>>>),
        El("subfp", <<"mul", FALSE, <<4>>, <<4>>>>)}
  \cup {El("foreach", <<c, one, mixed>>) : c \in FeCases, one \in BOOLEAN, mixed \in BOOLEAN}
  \cup {El("fe_norm", <<pw>>) : pw \in {1, 2}} \cup {El("nonfinite", <<d, f>>) : d \in {Halves, Specials}, f \in {0, 1}}
  \cup {El("cmp", <<op, a, b>>) : op \in {"gt", "lt", "eq", "ne", "ge", "le"}, a \in Views("float", Halves),
           b \in Views("float", Divisors) \cup Stretched("float", Divisors)}
  \cup {El("cmp", <<op, a, b>>) : op \in {"and", "or"}, a \in Views("bool", Marks), b \in Stretched("bool", Edges)}
  \cup {El("cmp_scalar", <<op>>) : op \in {"gt", "lt", "eq", "ne", "ge", "le", "not"}}
  \cup {El("pred", <<op>>) : op \in {"isnan", "isfinite", "isinf", "isposinf", "isneginf"}}
  \cup {El("masked_fill", <<a, m>>) : a \in Views("float", Halves), m \in Stretched("bool", Marks) \cup Views("bool", Marks)}
  \cup {El("ip_un", <<op, o>>) : op \in {"neg", "square"}, o \in Orders}
  \cup {El("ip_bin", <<op, b, o>>) : op \in {"sub", "mul"}, b \in Stretched("float", Divisors), o \in Orders}
  \cup {El("fill_diag", <<d>>) : d \in {<<2, 3>>, <<3, 2>>, <<3, 3>>}}
  \cup {El("mfill_t", <<0>>)} \cup {El("rope_grad", <<m>>) : m \in {0, 1}} \cup {El("addln_grad", <<0>>)}

Out23(t) == Out(<<2, 3>>, t)
OutOf(c) == Out(BcastDims(c.p[2].dims, c.p[3].dims), IF c.p[2].type = c.p[3].type THEN c.p[2].type ELSE "float")
ElementAccepts(c) ==
  LET p == c.p IN
  CASE c.op = "bin" -> BinAccepts(p[2], p[3], OutOf(c)) /\ Launches("binary", p[2].type, p[3].type)
    [] c.op = "un" -> UnAccepts(p[1], p[2], Out23("float")) /\ Launches("unary", "float", "float")
    [] c.op \in {"scal", "round_dec"} -> UnAccepts("scalar", F1, Out23("float")) /\ Launches("scalar", "float", "float")
    [] c.op = "tern" -> TernAccepts(F1, F1, F1, Out23("float")) /\ Launches("ternary", "float", "float")
    [] c.op = "where" -> WhereAccepts(p[1], p[2], p[3], Out23("float")) /\ Launches("where", "float", "float")
    [] c.op = "bit" -> BitAccepts(D_(<<2, 4>>, "int32", Edges), p[2], Out(<<2, 4>>, "int32")) /\ Launches("bit", "int32", "int32")
    [] c.op = "not" -> Launches("not", "int32", "int32")
    [] c.op = "foreach" -> FeBuild(p[1][2], p[1][1], FeLists(p[1][1], p[3]), FeDs(p[1][1], p[2])).ok
    [] c.op = "cmp" -> CmpAccepts(p[2], p[3], Out23("bool")) /\ CmpLaunches(p[1], p[2], Out23("bool"))
    [] c.op = "cmp_scalar" -> CmpScalarAccepts(F1, Out23("bool")) /\ CmpLaunches(p[1], F1, Out23("bool"))
    [] c.op = "pred" -> PredAccepts(D_(<<8>>, "float", Specials), Out(<<8>>, "bool"))
    [] c.op = "ip_un" \/ c.op = "ip_bin" -> IpBuild(F1)
    [] c.op = "rope_grad" -> RopeGradPlan(<<1, 2, 3, 4>>, p[1]).ok
    [] c.op = "addln_grad" -> AddLnGradPlan(<<3, 4>>, <<3, 4>>, <<3, 4>>).ok
    [] OTHER -> TRUE

(* Both elements of a rotated pair have one angle. *)
SinTable(mode) == Of(12, LAMBDA i : Sign[(i \div 4) * 2 + (IF mode = 0 THEN i % 2 ELSE (i % 4) \div 2)])
Tiny == [k \in 0 .. 63 |-> IF k < 4 THEN k ELSE IF k < 8 THEN 3 - k ELSE 0]          \* a signed code of four bits
Code == [v \in Int |-> IF v >= 0 THEN (IF v > 3 THEN 3 ELSE v) ELSE (IF v < -4 THEN 7 ELSE 3 - v)]
Packed(n, fp4) == Of(n, LAMBDA i : IF fp4 THEN ((i * 3 + 1) % 8) + 16 * ((i * 5 + 2) % 8) ELSE (i * 3) % 8)
FeExec(c) == FeBuild(c.p[1][2], c.p[1][1], FeLists(c.p[1][1], c.p[3]), FeDs(c.p[1][1], c.p[2]))
ElementResult(c) ==
  LET p == c.p IN
  CASE c.op = "bin" -> RunBinary(p[1], p[2].data, p[3].data, p[2], p[3], OutOf(c), IF p[2].type = "int32" THEN Rat(2) ELSE <<3, 2>>, p[4])
    [] c.op = "un" -> RunUnary(p[1], p[2].data, p[2], 2)
    [] c.op = "scal" -> RunScalar(p[1], Halves, 6, p[2], "float")
    [] c.op = "round_dec" -> RunScalar("round_dec", Divisors, 6, p[1], "float")
    [] c.op = "tern" -> RunTernary(p[1], Halves, IF p[1] = "clamp" THEN Of(6, LAMBDA i : Rat(-1)) ELSE Divisors,
                                   IF p[1] = "clamp" THEN Of(6, LAMBDA i : Rat(2)) ELSE NonZero, 6, Rat(3))
    [] c.op = "where" -> RunWhere(Each(p[1].data, LAMBDA q : q[1]), p[2].data, p[3].data, p[1], p[2], p[3], <<2, 3>>)
    [] c.op = "bit" -> RunBit(p[1], Each(Edges, LAMBDA q : q[1]), Each(p[2].data, LAMBDA q : q[1]), D_(<<2, 4>>, "int32", Edges), p[2], Out(<<2, 4>>, "int32").dims)
    [] c.op = "not" -> RunNot(Each(Edges, LAMBDA q : q[1]), 8)
    [] c.op = "subfp" -> RunSubfp(p[1], Packed(8, p[2]), Packed(6, p[2]), p[3], p[4], p[3], p[2], Tiny, Code)
    [] c.op = "foreach" -> [k \in 1 .. 2 |-> Foreach(FeExec(c), k = 1)]
    [] c.op = "fe_norm" -> ForeachNorm(FeBuild("", "norm", <<<<D_(<<7>>, "float", Of(7, LAMBDA i : Rat(Wave[i]))), D_(<<2>>, "float", Of(2, LAMBDA i : Rat(i)))>>>>, <<>>),
                                       4, p[1])
    [] c.op = "nonfinite" -> NonFinite(FeBuild("", "nonfinite", <<<<D_(<<8>>, "float", Of(8, LAMBDA i : p[1][i]))>>>>, <<>>), p[2], <<1, 2>>)
    [] c.op = "cmp" -> RunCmp(p[1], p[2], p[3], <<2, 3>>)
    [] c.op = "cmp_scalar" -> IF p[1] = "not" THEN LogicalNot(Halves, 6) ELSE RunCmpScalar(p[1], D_(<<2, 3>>, "float", Halves), <<-3, 2>>, 6)
    [] c.op = "pred" -> RunPred(p[1], Specials, 8)
    [] c.op = "masked_fill" -> MaskedFill(p[1], p[2], <<2, 3>>, Rat(9))
    [] c.op = "ip_un" -> InPlaceUnary(p[1], F1, p[2])
    [] c.op = "ip_bin" -> InPlaceBinary(p[1], F1, p[2], p[3], Rat(2))
    [] c.op = "fill_diag" -> FillDiagonal(D_(p[1], "float", Of(9, LAMBDA i : Zero)))
    [] c.op = "mfill_t" -> MaskedFillTensor(Halves, Marks, Of(1, LAMBDA i : Rat(9)), 6)
    [] c.op = "rope_grad" -> RopeGrad(Wave, Skew, SinTable(p[1]), 3, 4, 24, p[1])
    [] c.op = "addln_grad" -> AddLnGrad(Wave, Skew, Wave, Power, 3, 4, 4, 2)

(* What each function is, of rational operands. *)
Same(q, r) == q[1] * r[2] = r[1] * q[2]
FAbs(q) == IF Less(q, Zero) THEN Times(Rat(-1), q) ELSE q
Whole(q) == q[1] % q[2] = 0
LeftOver(a, b, r, signOf) == Whole(Over_(Minus(a, r), b)) /\ Less(FAbs(r), FAbs(b)) /\ (r[1] = 0 \/ Less(r, Zero) = Less(signOf, Zero))
Congruent(r, q) == r[2] = 1 /\ -(2 ^ (IntBits - 1)) <= r[1] /\ r[1] < 2 ^ (IntBits - 1) /\ (r[1] - q[1]) % 2 ^ IntBits = 0
Halfway(q) == Same(FAbs(Minus(q, FloorOf(q))), <<1, 2>>)
Nearest(q, r) == Whole(r) /\ ~Less(<<1, 2>>, FAbs(Minus(q, r))) /\ (Halfway(q) => (r[1] \div r[2]) % 2 = 0)
BinaryIs(op, a, b, al, int, r) ==
  LET same(q) == IF int THEN Congruent(r, q) ELSE Same(r, q)
      minus(q) == Times(Rat(-1), q)
  IN CASE op = "add" -> same(Plus(a, Times(al, b)))
       [] op = "sub" -> same(Plus(a, minus(Times(al, b))))
       [] op = "rsub" -> same(Plus(b, minus(Times(al, a))))
       [] op = "mul" -> same(Times(a, b))
       [] op = "div" -> Same(Times(r, b), a)
       [] op = "maximum" -> r \in {a, b} /\ ~Less(r, a) /\ ~Less(r, b)
       [] op = "minimum" -> r \in {a, b} /\ ~Less(a, r) /\ ~Less(b, r)
       [] op = "fmod" -> IF int THEN LeftOver(a, b, r, a) \/ Congruent(r, a) ELSE LeftOver(a, b, r, a)
       [] op = "remainder" -> LeftOver(a, b, r, b)
       [] op = "floor_div" ->
            IF int THEN \E n \in -128 .. 128 : Congruent(r, Rat(n)) /\ ~Less(Over_(a, b), Rat(n)) /\ Less(Over_(a, b), Rat(n + 1))
            ELSE Whole(r) /\ ~Less(Over_(a, b), r) /\ Less(Over_(a, b), Plus(r, Rat(1)))
       [] op = "heaviside" -> r = IF a[1] = 0 THEN b ELSE IF Less(a, Zero) THEN Zero ELSE Rat(1)
       [] op = "lerp" -> Same(Minus(r, a), Times(al, Minus(b, a)))
       [] op \in {"prelu", "leaky_relu"} -> Same(r, IF Less(a, Zero) THEN Times(b, a) ELSE a)
       [] op = "hardshrink" -> Same(r, IF Less(b, a) \/ Less(a, minus(b)) THEN a ELSE Zero)
       [] op = "softshrink" -> IF Less(b, a) \/ Less(a, minus(b))
                               THEN ~Less(b, Zero) => Same(FAbs(Minus(a, r)), b) /\ ~Less(FAbs(a), FAbs(r))
                               ELSE r = Zero
       [] op = "round_dec" -> Nearest(Times(Rat(10 ^ b[1]), a), Times(Rat(10 ^ b[1]), r))
UnaryIs(op, a, r) ==
  LET hard == Within(Plus(a, Rat(3)), Zero, Rat(6)) IN
  CASE op = "abs" -> Same(Times(r, r), Times(a, a)) /\ ~Less(r, Zero)
    [] op = "neg" -> Plus(a, r)[1] = 0
    [] op = "relu" -> Same(Plus(r, r), Plus(a, FAbs(a)))
    [] op = "reciprocal" -> Same(Times(a, r), Rat(1))
    [] op = "sign" -> Same(Times(r, FAbs(a)), a) /\ (a[1] = 0 => r = Zero)
    [] op = "floor" -> Whole(r) /\ ~Less(a, r) /\ Less(a, Plus(r, Rat(1)))
    [] op = "ceil" -> Whole(r) /\ ~Less(r, a) /\ Less(Minus(r, Rat(1)), a)
    [] op = "round" -> Nearest(a, r)
    [] op = "trunc" -> Whole(r) /\ ~Less(FAbs(a), FAbs(r)) /\ Less(FAbs(Minus(a, r)), Rat(1))
    [] op = "frac" -> Whole(Minus(a, r)) /\ Less(FAbs(r), Rat(1)) /\ ~Less(Times(a, r), Zero)
    [] op = "square" -> Same(r, Times(a, a))
    [] op = "squared_relu" -> Same(r, IF Less(a, Zero) THEN Zero ELSE Times(a, a))
    [] op = "relu6" -> Same(r, Within(a, Zero, Rat(6)))
    [] op = "hardsigmoid" -> Same(Times(Rat(6), r), hard)
    [] op = "hardswish" -> Same(Times(Rat(6), r), Times(a, hard))
CompareIs(op, a, b) ==
  LET d == Minus(a, b)[1] IN
  CASE op = "gt" -> d > 0 [] op = "lt" -> d < 0 [] op = "eq" -> d = 0 [] op = "ne" -> d # 0 [] op = "ge" -> d >= 0 [] op = "le" -> d <= 0
    [] op = "and" -> ~(a[1] = 0 \/ b[1] = 0) [] op = "or" -> ~(a[1] = 0 /\ b[1] = 0) [] op = "not" -> a[1] = 0
FeIs(c, i, k, r) ==
  LET l == FeLists(c.p[1][1], c.p[3])
      v(g) == l[g][i + 1].data[k]
      d == FeDs(c.p[1][1], c.p[2])
      own == d[IF Len(d) = 2 THEN i + 1 ELSE 1]
  IN CASE c.p[1][1] = "unary" -> UnaryIs(c.p[1][2], v(1), r)
       [] c.p[1][1] \in {"scalar", "scalarlist"} -> BinaryIs(c.p[1][2], v(1), own, Rat(1), FALSE, r)
       [] c.p[1][1] = "list" -> BinaryIs(c.p[1][2], v(1), v(2), IF c.p[2] THEN Rat(2) ELSE Rat(1), FALSE, r)
       [] c.p[1][2] = "addcmul" -> Same(r, Plus(v(1), Times(own, Times(v(2), v(3)))))
       [] c.p[1][2] = "addcdiv" -> Same(Times(Minus(r, v(1)), v(3)), Times(own, v(2)))
       [] c.p[1][1] = "lerp_scalar" -> BinaryIs("lerp", v(1), v(2), own, FALSE, r)
       [] c.p[1][1] = "lerp_list" -> BinaryIs("lerp", v(1), v(2), v(3), FALSE, r)
       [] c.p[1][1] = "copy" -> r = v(1)
       [] c.p[1][1] = "zero" -> r = Zero

ElementIs(c, r) ==
  LET p == c.p
      each23(P(_, _)) == DOMAIN r = Below(6) /\ \A q \in Coords(<<2, 3>>) : P(q, r[Flat(q, <<2, 3>>)])
  IN CASE c.op = "bin" ->
            LET dims == OutOf(c).dims IN
            \A q \in Coords(dims) :
              BinaryIs(p[1], Logical(p[2], q), Logical(p[3], q), IF p[2].type = "int32" THEN Rat(2) ELSE <<3, 2>>, p[2].type = "int32", r[Flat(q, dims)])
       [] c.op = "un" -> each23(LAMBDA q, v : UnaryIs(p[1], Logical(p[2], q), v))
       [] c.op = "scal" -> \A i \in Below(6) : BinaryIs(p[1], Halves[i], p[2], Rat(1), FALSE, r[i])
       [] c.op = "round_dec" -> \A i \in Below(6) : BinaryIs("round_dec", Divisors[i], p[1], Rat(1), FALSE, r[i])
       [] c.op = "tern" -> \A i \in Below(6) :
            (CASE p[1] = "addcmul" -> Same(r[i], Plus(Halves[i], Times(Rat(3), Times(Divisors[i], NonZero[i]))))
              [] p[1] = "addcdiv" -> Same(Times(Minus(r[i], Halves[i]), NonZero[i]), Times(Rat(3), Divisors[i]))
              [] p[1] = "clamp" -> Same(r[i], IF Less(Halves[i], Rat(-1)) THEN Rat(-1) ELSE IF Less(Rat(2), Halves[i]) THEN Rat(2) ELSE Halves[i])
              [] p[1] = "threshold" -> r[i] = IF Less(Divisors[i], Halves[i]) THEN Halves[i] ELSE NonZero[i])
       [] c.op = "where" -> each23(LAMBDA q, v : v = IF Logical(p[1], q) = Rat(1) THEN Logical(p[2], q) ELSE Logical(p[3], q))
       [] c.op = "bit" ->
            LET bits(v) == {k \in Below(8) : ((v \div 2 ^ k) % 2) = 1}
            IN \A i \in Below(8) : LET a == bits(Edges[i][1])
                                       b == bits(NonZero[i % Numel(p[2].dims)][1])
                                   IN bits(r[i]) = (CASE p[1] = "and" -> a \cap b [] p[1] = "or" -> a \cup b [] p[1] = "xor" -> (a \cup b) \ (a \cap b))
       [] c.op = "not" -> \A i \in Below(8) : \A k \in Below(8) : BitOf(r[i], k) # BitOf(Edges[i][1], k)
       [] c.op = "subfp" ->
            LET at(bytes, i) == Tiny[IF p[2] THEN (bytes[i \div 2] \div (IF i % 2 = 1 THEN 16 ELSE 1)) % 16 ELSE bytes[i]]
                want(q) == LET a == at(Packed(8, p[2]), Flat(q, p[3]))
                               b == at(Packed(6, p[2]), q[Len(q)])
                           IN CASE p[1] = "add" -> a + b [] p[1] = "sub" -> a - b [] p[1] = "mul" -> a * b
            IN \A q \in Coords(p[3]) : Tiny[(IF p[2] THEN (r[Flat(q, p[3]) \div 2] \div 16 ^ (Flat(q, p[3]) % 2)) ELSE r[Flat(q, p[3])]) % 16] = Tiny[Code[want(q)]]
       [] c.op = "foreach" -> \A path \in 1 .. 2 : \A i \in {0, 1} : \A k \in Below(<<6, 4>>[i + 1]) : FeIs(c, i, k, r[path][i][k])
       [] c.op = "fe_norm" -> \A i \in {0, 1} : r[i] = Over(Below(<<7, 2>>[i + 1]), LAMBDA k : LET v == IF i = 0 THEN Abs(Wave[k]) ELSE k IN IF p[1] = 2 THEN v * v ELSE v)
       [] c.op = "nonfinite" -> /\ r.found = (IF p[1] = Specials THEN 1 ELSE p[2])
                                /\ \A k \in Below(8) : IF p[1][k][2] = 0 THEN r.x[0][k][2] = 0 ELSE Same(Plus(r.x[0][k], r.x[0][k]), p[1][k])
       [] c.op = "cmp" -> each23(LAMBDA q, v : v = 1 <=> CompareIs(p[1], Logical(p[2], q), Logical(p[3], q)))
       [] c.op = "cmp_scalar" -> \A i \in Below(6) : r[i] = 1 <=> CompareIs(p[1], Halves[i], <<-3, 2>>)
       [] c.op = "pred" -> {i \in Below(8) : r[i] = 1} =
            (CASE p[1] = "isnan" -> {0, 7} [] p[1] = "isfinite" -> 3 .. 6 [] p[1] = "isinf" -> {1, 2} [] p[1] = "isposinf" -> {1} [] p[1] = "isneginf" -> {2})
       [] c.op = "masked_fill" -> each23(LAMBDA q, v : v = IF Logical(p[2], q) = Zero THEN Logical(p[1], q) ELSE Rat(9))
       [] c.op = "ip_un" -> \A i \in Below(6) : UnaryIs(p[1], Halves[i], r[i])
       [] c.op = "ip_bin" -> each23(LAMBDA q, v : BinaryIs(p[1], Logical(F1, q), Logical(p[2], q), Rat(2), FALSE, v))
       [] c.op = "fill_diag" -> each23(LAMBDA q, v : TRUE) \/ \A q \in Coords(p[1]) : r[Flat(q, p[1])] = IF q[1] = q[2] THEN Rat(1) ELSE Zero
       [] c.op = "mfill_t" -> \A i \in Below(6) : r[i] = IF Bit[i] = 1 THEN Rat(9) ELSE Halves[i]
       [] c.op = "rope_grad" ->   \* the adjoint of the rotation of pairs
            LET mate(d) == IF p[1] = 0 THEN (d + 2) % 4 ELSE IF d % 2 = 0 THEN d + 1 ELSE d - 1
                low(d) == IF p[1] = 0 THEN d < 2 ELSE d % 2 = 0
            IN \A row \in Below(6), d \in Below(4) :
                 LET i == row * 4 + d
                     t == (row % 3) * 4 + d
                 IN r[i] = Wave[i] * Skew[t] + (IF low(d) THEN 1 ELSE -1) * Wave[row * 4 + mate(d)] * SinTable(p[1])[(row % 3) * 4 + mate(d)]
       [] c.op = "addln_grad" ->   \* both sums of a row of the gradient against 1 and against the row vanish
            LET g(i) == Wave[i] * Power[i % 4]
                s(i) == Skew[i] + Wave[i]
            IN /\ \A row \in Below(3) : LET cells == {row * 4 + d : d \in Below(4)} IN
                    Over(cells, LAMBDA i : r.dx[i]) = 0 /\ Over(cells, LAMBDA i : r.dx[i] * s(i)) = 0
               /\ \A d \in Below(4) : Total(r.dbeta[d]) = Over(Below(3), LAMBDA row : Wave[row * 4 + d])

(* The calls whose result is another.  "Inputs use real stride+offset      *)
(* (supports non-contiguous views)", says elementwise.cu:140 (and :182),   *)
(* but operands that are all dense go to the kernels that read element i   *)
(* of the buffer (:593, :596, :734), wherever their first element is.      *)
(* "floor division: floor(a/b)" (:98) divides integers as C does, to zero, *)
(* before it takes the floor.                                              *)
BaseForgotten(ts) == (\A t \in ts : Contiguous(t) /\ t.dims = <<2, 3>>) /\ \E t \in ts : t.offset # 0
ElementDeparts(c) ==
  LET p == c.p IN
  CASE c.op = "bin" ->
         \/ /\ BaseForgotten({p[2], p[3]})
            /\ p[1] = "heaviside" => p[2].offset # 0    \* which takes nothing of b: no element of a is zero
         \/ /\ p[1] = "floor_div" /\ p[2].type = "int32"
            /\ \E q \in Coords(p[2].dims) : LET exact == Over_(Logical(p[2], q), Logical(p[3], q)) IN Less(exact, Zero) /\ ~Whole(exact)
    [] c.op = "un" -> BaseForgotten({p[2]})
    [] c.op = "where" -> BaseForgotten({p[1], p[2], p[3]})
    [] OTHER -> FALSE
=============================================================================
