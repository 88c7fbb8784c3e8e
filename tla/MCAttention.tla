---------------------------- MODULE MCAttention ----------------------------
(***************************************************************************)
(* Attention on small tensors, with the definition each path is checked    *)
(* against.  A call is [op, p].                                            *)
(***************************************************************************)
EXTENDS AttentionKernels

At(op, p) == [op |-> op, p |-> p]
SumOver(S, F(_)) == FoldSet(LAMBDA e, n : n + F(e), 0, S)

-----------------------------------------------------------------------------
(* Attention: calls.  The sizes are <<B, Nq, Nkv, Sq, Skv, D>>.            *)
Z(s) == [B |-> s[1], Nq |-> s[2], Nkv |-> s[3], Sq |-> s[4], Skv |-> s[5], D |-> s[6]]
Trits(n, a, b) == [i \in 0 .. n - 1 |-> ((i * a + (i \div 3) + b) % 3) - 1]
Marks(n, a) == [i \in 0 .. n - 1 |-> (i * a) % 3 = 0]
AttentionSizes == {<<1, 4, 2, 2, 3, 2>>, <<2, 2, 2, 3, 2, 2>>, <<1, 2, 2, 2, 5, 4>>, <<2, 1, 1, 1, 3, 3>>}
Options(z) ==
  {[causal |-> c, mask |-> m.m, ms |-> m.ms, scale |-> 1] :
     c \in BOOLEAN,
     m \in {[m |-> <<>>, ms |-> 0], [m |-> Marks(z.Sq * z.Skv, 2), ms |-> 0],
            [m |-> Marks(z.B * z.Sq * z.Skv, 5), ms |-> z.Sq * z.Skv]}}
(* Launches that take each path: the limits are those of the code, scaled. *)
Tuned == [lanes |-> 2, regs |-> 4, block |-> TRUE, tile |-> 2, perf |-> FALSE, perfMin |-> 2, cap |-> 10 ^ 6,
          ltWs |-> 64, flashMax |-> 8, wmmaD |-> 9, wmma |-> TRUE]
Launchers ==
  {<<"bf16", Tuned>>, <<"float", [Tuned EXCEPT !.block = FALSE]>>, <<"half", [Tuned EXCEPT !.regs = 0]>>,
   <<"half", [Tuned EXCEPT !.flashMax = 1]>>, <<"fp4", [Tuned EXCEPT !.flashMax = 1]>>, <<"fp4", [Tuned EXCEPT !.wmmaD = 2]>>,
   <<"float", [Tuned EXCEPT !.perf = TRUE]>>, <<"float", [Tuned EXCEPT !.perf = TRUE, !.cap = 10]>>,
   <<"half", [Tuned EXCEPT !.wmmaD = 2]>>, <<"half", [Tuned EXCEPT !.wmmaD = 4, !.tile = 3]>>}
ScoreCalls == UNION {{At("score", <<Z(s), o, l[2], l[1]>>) : o \in Options(Z(s)), l \in Launchers} : s \in AttentionSizes}
GradCalls == UNION {{At("attention_grad", <<Z(s), o>>) : o \in Options(Z(s))} :
                      s \in {<<2, 2, 2, 3, 2, 2>>, <<1, 2, 2, 2, 3, 2>>, <<2, 1, 1, 1, 3, 3>>}}
PagedCalls == {At("paged", <<Z(s), W>>) : s \in {<<2, 4, 2, 1, 0, 2>>, <<3, 2, 1, 2, 0, 3>>}, W \in {0, 2}}
RopeCalls == {At("rope", <<dims, mode>>) : dims \in {<<1, 2, 2, 4>>, <<2, 1, 3, 2>>}, mode \in {0, 1}}
RingCalls == {At("ring", <<s>>) : s \in 1 .. 4}
CompressCalls == {At("compress", <<6, bs, 2>>) : bs \in 1 .. 3}
MlaCalls == {At("mla", <<<<2, 2, 3, 2>>, 3, c>>) : c \in BOOLEAN} \cup {At("mla", <<<<1, 1, 2, 3>>, 2, c>>) : c \in BOOLEAN}
AttentionCalls ==
  ScoreCalls \cup GradCalls \cup PagedCalls \cup RopeCalls \cup RingCalls \cup CompressCalls \cup MlaCalls

(* The tensors of a call, and what they hold. *)
Tensor(type, dims) == [type |-> type, dims |-> dims, strides |-> Strides(dims)]
QDims(z) == <<z.B, z.Nq, z.Sq, z.D>>
KDims(z) == <<z.B, z.Nkv, z.Skv, z.D>>
QOf(z) == Trits(Numel(QDims(z)), 2, 1)
KOf(z) == Trits(Numel(KDims(z)), 1, 2)
VOf(z) == [i \in 0 .. Numel(KDims(z)) - 1 |-> ((i * 5) % 7) - 2]
GOf(z) == [i \in 0 .. Numel(QDims(z)) - 1 |-> ((i * 3) % 5) - 1]
MaskOf(z, o) ==
  IF o.mask = <<>> THEN <<>> ELSE Tensor("bool", IF o.ms = 0 THEN <<z.Sq, z.Skv>> ELSE <<z.B, z.Sq, z.Skv>>)
(* The pages of three blocks of two positions, dealt out of order.         *)
Table == [i \in 0 .. 5 |-> (i * 5 + 2) % 6]
Context == <<3, 0, 4>>
Pages(z, a) == [i \in 0 .. 12 * z.Nkv * z.D - 1 |-> ((i * a) % 3) - 1]
Turn(rows, D, mode, a) ==
  [i \in 0 .. rows * D - 1 |-> LET d == i % D IN (i \div D) + a * (IF mode = 0 THEN d % (D \div 2) ELSE d \div 2) + 1]

AttentionAccepts(c) ==
  LET p == c.p IN
  CASE c.op = "score" ->
         ScoreAccepts(Tensor(p[4], QDims(p[1])), Tensor(p[4], KDims(p[1])), Tensor(p[4], KDims(p[1])), MaskOf(p[1], p[2]), 0,
                      Tensor(IF p[4] = "fp4" THEN "half" ELSE p[4], QDims(p[1])))
    [] c.op = "attention_grad" ->
         BackwardAccepts(Tensor("float", QDims(p[1])), Tensor("float", KDims(p[1])), Tensor("float", KDims(p[1])),
                         Tensor("float", QDims(p[1])), MaskOf(p[1], p[2]))
    [] c.op = "paged" ->
         PagedAccepts(Tensor("half", QDims(p[1])), Tensor("half", <<6, 2, p[1].Nkv, p[1].D>>),
                      Tensor("half", <<6, 2, p[1].Nkv, p[1].D>>), Tensor("int32", <<p[1].B, 2>>), Tensor("int32", <<p[1].B>>),
                      Tensor("half", QDims(p[1])))
    [] c.op = "rope" ->
         RopeAccepts(Tensor("float", p[1]), Tensor("float", p[1]), Tensor("float", SubSeq(p[1], 3, 4)),
                     Tensor("float", SubSeq(p[1], 3, 4)), p[2], Tensor("float", p[1]), Tensor("float", p[1]))
    [] c.op = "compress" -> CompressPlan(Tensor("float", <<p[1], p[3]>>), Tensor("float", <<p[1] \div p[2], p[3]>>), p[2]).ok
    [] c.op = "mla" -> MlaPlan(Tensor("float", p[1]), Tensor("float", <<p[1][1], p[1][3], p[2]>>)).ok
    [] OTHER -> TRUE

AttentionResult(c) ==
  LET p == c.p
      z == p[1]
  IN CASE c.op = "score" ->
            [path |-> ScorePath(p[4], z, p[2], p[3]), ws |-> ScoreWorkspace(p[4], z, p[3]),
             uses |-> ScoreUses(p[4], z, p[2], p[3]),
             out |-> Score(p[4], QOf(z), KOf(z), VOf(z), z, p[2], p[3], 2)]
       [] c.op = "attention_grad" -> Backward(QOf(z), KOf(z), VOf(z), GOf(z), z, p[2], 2)
       [] c.op = "paged" ->
            Paged(QOf(z), Pages(z, 2), Pages(z, 1), Table, [b \in 0 .. z.B - 1 |-> Context[b + 1]],
                  [i \in 0 .. Rows(z) * z.D - 1 |-> <<7, 1>>], z, 2, 2, 1, p[2])
       [] c.op = "rope" ->
            LET n == Numel(z)
                D == z[4]
                cs == Turn(z[3], D, p[2], 2)
                sn == Turn(z[3], D, p[2], 3)
                all(t) == [i \in 0 .. n - 1 |-> t[((i \div D) % z[3]) * D + (i % D)]]
                y == Rope(Trits(n, 2, 1), cs, sn, z[3], D, n, p[2])
            IN [y |-> y, rows |-> RopeRows(Trits(n, 2, 1), all(cs), all(sn), n \div D, D, p[2], 1),
                back |-> RopeRows(y, all(cs), all(sn), n \div D, D, p[2], -1),
                norm |-> RmsNormRope(Trits(n, 2, 1), <<>>, all(cs), all(sn), n \div D, D, p[2])]
       [] c.op = "ring" ->
            LET q == Trits(4, 2, 1)
                k == Trits(10, 1, 2)
                w(row, j) == 2 ^ (2 + Dot2(Row(q, row, 2), Row(k, j, 2), 2))
                exps(S) == [row \in 0 .. 1 |-> SumOver(S, LAMBDA j : w(row, j))]
                part(S) == [i \in 0 .. 3 |-> <<SumOver(S, LAMBDA j : w(i \div 2, j) * (((j * 2 + (i % 2)) * 5) % 7)), exps(S)[i \div 2]>>]
                A == 0 .. p[1] - 1
                B == p[1] .. 4
            IN [merged |-> RingMerge(part(A), exps(A), part(B), exps(B), 2, 2), whole |-> part(0 .. 4), lse |-> exps(0 .. 4)]
       [] c.op = "compress" ->
            [y |-> Compress([i \in 0 .. p[1] * p[3] - 1 |-> i * i], p[1] \div p[2], p[2], p[3]),
             g |-> CompressGrad([i \in 0 .. (p[1] \div p[2]) * p[3] - 1 |-> i + 1], p[1] \div p[2], p[2], p[3])]
       [] c.op = "mla" ->
            MultiLatentAttention(Trits(Numel(z), 2, 1), Trits(z[1] * z[3] * p[2], 1, 0), Trits(p[2] * z[2] * z[4], 2, 0),
                                 [i \in 0 .. p[2] * z[2] * z[4] - 1 |-> i % 4], z, p[2], 1, p[3])

(* What each is.  Query head h of batch b reads the key head of its group; *)
(* a row is the average of the values it sees, weighed by 2^score.         *)
Sees(z, o, b, i, j) ==
  /\ o.causal => z.Sq - i <= z.Skv - j
  /\ o.mask = <<>> \/ ~o.mask[IF o.ms = 0 THEN Flat(<<i, j>>, <<z.Sq, z.Skv>>) ELSE Flat(<<b, i, j>>, <<z.B, z.Sq, z.Skv>>)]
(* The weights of the values with these scores. *)
Weighed(score) ==
  LET s == Tabulated(score)
      top == CHOOSE m \in {s[j] : j \in DOMAIN s} : \A j \in DOMAIN s : s[j] <= m
  IN Tabulated([j \in DOMAIN s |-> 2 ^ (Unit + s[j] - top)])
Averaged(w, value(_)) == <<SumOver(DOMAIN w, LAMBDA j : w[j] * value(j)), SumOver(DOMAIN w, LAMBDA j : w[j])>>
GroupOf(z, h) == CHOOSE g \in 0 .. z.Nkv - 1 : h * z.Nkv \in g * z.Nq .. (g + 1) * z.Nq - 1
(* The row out of batch b, head h and position i is attention. *)
IsAttention(out, q, k, v, z, o, b, h, i) ==
  LET at(d) == Flat(<<b, h, i, d>>, QDims(z))
      kv(j, d) == Flat(<<b, GroupOf(z, h), j, d>>, KDims(z))
      seen == {j \in 0 .. z.Skv - 1 : Sees(z, o, b, i, j)}
      w == Weighed([j \in seen |-> SumOver(0 .. z.D - 1, LAMBDA d : q[at(d)] * k[kv(j, d)])])
  IN seen = {} \/ \A d \in 0 .. z.D - 1 : out[at(d)] = Averaged(w, LAMBDA j : v[kv(j, d)])
AreAttention(out, q, k, v, z, o) ==
  /\ DOMAIN out = 0 .. Numel(QDims(z)) - 1
  /\ \A b \in 0 .. z.B - 1, h \in 0 .. z.Nq - 1, i \in 0 .. z.Sq - 1 : IsAttention(out, q, k, v, z, o, b, h, i)

AttentionIs(c, r) ==
  LET p == c.p
      z == p[1]
  IN CASE c.op = "score" ->
            r.uses <= r.ws /\ AreAttention(r.out, QOf(z), KOf(z), VOf(z), z, p[2])
       [] c.op = "attention_grad" ->
            LET head(i) == i \div z.Sq
                seen(i) == LET a == Coord(i, <<z.B, z.Nq, z.Sq>>) IN {j \in 0 .. z.Skv - 1 : Sees(z, p[2], a[1], a[3], j)}
                W == Tabulated([i \in 0 .. Rows(z) - 1 |-> Weighed([j \in seen(i) |->
                       Dot2(Row(QOf(z), i, z.D), Row(KOf(z), head(i) * z.Skv + j, z.D), z.D)])])
                w(i, j) == IF j \in DOMAIN W[i] THEN W[i][j] ELSE 0
                sums == Tabulated([i \in DOMAIN W |-> SumOver(DOMAIN W[i], LAMBDA j : W[i][j])])
                sum(i) == sums[i]
                dP == Tabulated([i \in DOMAIN W |-> Tabulated([j \in 0 .. z.Skv - 1 |->
                        SumOver(0 .. z.D - 1, LAMBDA d : GOf(z)[i * z.D + d] * VOf(z)[(head(i) * z.Skv + j) * z.D + d])])])
                \* the Jacobian of a softmax row, over sum(i)^2
                J(i, j, m) == w(i, j) * ((IF j = m THEN sum(i) ELSE 0) - w(i, m))
                dS == Tabulated([i \in DOMAIN W |-> Tabulated([j \in 0 .. z.Skv - 1 |->
                        SumOver(0 .. z.Skv - 1, LAMBDA m : J(i, j, m) * dP[i][m])])])
                good(i) == W[i] # <<>>      \* nothing is asked of a row that sees no key
            IN /\ \A x \in DOMAIN r.dq :
                    good(x \div z.D) =>
                      r.dq[x] = <<SumOver(0 .. z.Skv - 1, LAMBDA j : dS[x \div z.D][j]
                                            * KOf(z)[(head(x \div z.D) * z.Skv + j) * z.D + (x % z.D)]),
                                  sum(x \div z.D) * sum(x \div z.D)>>
               /\ \A y \in DOMAIN r.dk : \A i \in 0 .. z.Sq - 1 :
                    LET a == Coord(y, KDims(z))
                        row == Flat(<<a[1], a[2], i>>, <<z.B, z.Nq, z.Sq>>)
                    IN good(row) => /\ r.dk[y][i] = <<dS[row][a[3]] * QOf(z)[row * z.D + a[4]], sum(row) * sum(row)>>
                                    /\ r.dv[y][i] = <<w(row, a[3]) * GOf(z)[row * z.D + a[4]], sum(row)>>
       [] c.op = "paged" ->
            \* the same row over the blocks of its batch laid end to end
            \A i \in DOMAIN r :
              LET a == Coord(i, QDims(z))
                  kvh == GroupOf(z, a[2])
                  blocks == [n \in 0 .. 1 |-> Table[Flat(<<a[1], n>>, <<z.B, 2>>)]]
                  cell(t, d) == Flat(<<blocks[t \div 2], t % 2, kvh, d>>, <<6, 2, z.Nkv, z.D>>)
                  score(t) == SumOver(0 .. z.D - 1, LAMBDA d : QOf(z)[Flat(<<a[1], a[2], a[3], d>>, QDims(z))]
                                                               * Pages(z, 2)[cell(t, d)])
              IN r[i] = IF Context[a[1] + 1] = 0 THEN <<7, 1>>
                        ELSE Averaged(Weighed([t \in 0 .. Context[a[1] + 1] - 1 |-> score(t)]),
                                      LAMBDA t : Pages(z, 1)[cell(t, a[4])])
       [] c.op = "rope" ->
            LET n == Numel(z)
                D == z[4]
                c2(i) == LET s == (i \div D) % z[3]
                         IN Squared(Turn(z[3], D, p[2], 2)[s * D + (i % D)]) + Squared(Turn(z[3], D, p[2], 3)[s * D + (i % D)])
            IN \* both rotations agree, and turning back scales by cos^2 + sin^2
               /\ r.rows = r.y
               /\ \A i \in DOMAIN r.y : /\ r.back[i] = c2(i) * Trits(n, 2, 1)[i]
                                        /\ r.norm[i][1] = r.y[i]
                                        /\ r.norm[i][2] = SumOver(0 .. D - 1, LAMBDA d : Squared(Trits(n, 2, 1)[i - (i % D) + d]))
       [] c.op = "ring" ->
            \* attention over all keys from its two parts
            /\ r.merged.lse = r.lse
            /\ \A i \in DOMAIN r.whole : r.merged.o[i][1] * r.whole[i][2] = r.merged.o[i][2] * r.whole[i][1]
       [] c.op = "compress" ->
            \A i \in 0 .. p[1] * p[3] - 1 :
              LET b == (i \div p[3]) \div p[2]
              IN b < p[1] \div p[2] =>
                   /\ r.g[i] = <<Flat(<<b, i % p[3]>>, <<p[1] \div p[2], p[3]>>) + 1, p[2]>>
                   /\ r.y[b * p[3] + (i % p[3])][1]
                        = SumOver({x \in 0 .. p[1] * p[3] - 1 : (x \div p[3]) \div p[2] = b /\ x % p[3] = i % p[3]}, Squared)
       [] c.op = "mla" ->
            LET up(w) == [i \in 0 .. Numel(z) - 1 |->
                            LET a == Coord(i, z)
                            IN SumOver(0 .. p[2] - 1, LAMBDA l : Trits(z[1] * z[3] * p[2], 1, 0)[Flat(<<a[1], a[3], l>>, <<z[1], z[3], p[2]>>)]
                                                                 * w[Flat(<<l, a[2], a[4]>>, <<p[2], z[2], z[4]>>)])]
                zz == Z(<<z[1], z[2], z[2], z[3], z[3], z[4]>>)
                keys == up(Trits(p[2] * z[2] * z[4], 2, 0))
                values == up([i \in 0 .. p[2] * z[2] * z[4] - 1 |-> i % 4])
            IN AreAttention(r, Trits(Numel(z), 2, 1), keys, values, zz, [causal |-> p[3], mask |-> <<>>, ms |-> 0, scale |-> 1])
=============================================================================
