-------------------------- MODULE AttentionKernels --------------------------
(***************************************************************************)
(* Attention (cuda/src/ops/attention.cu, mla.cu) on integers: scores are   *)
(* integers, exp is 2^ in units of 2^-Unit and vanishes below, and an      *)
(* output is the fraction <<accumulator, sum of weights>>.  z holds the    *)
(* sizes B, Nq, Nkv, Sq, Skv and D; o the options causal, mask (<<>> when  *)
(* absent), ms (the mask's batch stride) and scale.                        *)
(***************************************************************************)
EXTENDS ElementKernels, LossKernels

Unit == 8
NegInf == -1000      \* -1e30f
Weight(d) == IF d < -Unit THEN 0 ELSE 2 ^ (Unit + d)
Rescaled(v, d) == IF d < -Unit THEN 0 ELSE v \div 2 ^ (-d)

(* kv_flat: Nq / Nkv neighbouring query heads share a key head. *)
KvFlat(flat, Nq, Nkv) == (flat \div Nq) * Nkv + (flat % Nq) \div (Nq \div Nkv)

Blocked(z, o, flat, i, j) ==
  \/ o.causal /\ j > i + z.Skv - z.Sq
  \/ o.mask # <<>> /\ o.mask[(flat \div z.Nq) * o.ms + i * z.Skv + j]

QRow(q, z, flat, i) == Row(q, flat * z.Sq + i, z.D)
KvRow(k, z, flat, j) == Row(k, KvFlat(flat, z.Nq, z.Nkv) * z.Skv + j, z.D)
Rows(z) == z.B * z.Nq * z.Sq
Flats(z) == 0 .. z.B * z.Nq - 1
(* Output cell c from the weights and accumulators its row ends with. *)
OutOf(z, last) ==
  LET row == Tabulated([r \in 0 .. Rows(z) - 1 |-> last[r \div z.Sq, r % z.Sq]])
  IN [c \in 0 .. Rows(z) * z.D - 1 |-> <<row[c \div z.D].acc[c % z.D], row[c \div z.D].l>>]

-----------------------------------------------------------------------------
(* The path that materialises the scores. *)
Dot2(a, b, D) == Sum(D, LAMBDA d : a[d] * b[d])
QkKernel(q, k, z, scale) ==
  [c \in 0 .. Rows(z) * z.Skv - 1 |->
     LET r == c \div z.Skv
         flat == r \div z.Sq
     IN Dot2(QRow(q, z, flat, r % z.Sq), KvRow(k, z, flat, c % z.Skv), z.D) * scale]

(* masked_softmax: TB threads stride over a row.  Weights and their sum. *)
MaskedSoftmax(S, z, o, TB) ==
  Tabulated([r \in 0 .. Rows(z) - 1 |->
     LET v == Tabulated([j \in 0 .. z.Skv - 1 |->
                 IF Blocked(z, o, r \div z.Sq, r % z.Sq, j) THEN NegInf ELSE S[r * z.Skv + j]])
         mx == TreeReduce([t \in 1 .. TB |-> ThreadPartial(v, t - 1, TB, "max", NegInf)], "max")
         e == Tabulated(Each(v, LAMBDA s : Weight(s - mx)))
     IN [e |-> e, sum |-> TreeSum(e, TB)]])

PvKernel(P, v, z) ==
  OutOf(z, [flat \in Flats(z), i \in 0 .. z.Sq - 1 |->
    [acc |-> [d \in 0 .. z.D - 1 |->
                Sum(z.Skv, LAMBDA j : P[flat * z.Sq + i].e[j] * KvRow(v, z, flat, j)[d])],
     l |-> P[flat * z.Sq + i].sum]])

Naive(q, k, v, z, o, TB) == PvKernel(MaskedSoftmax(QkKernel(q, k, z, o.scale), z, o, TB), v, z)

(* k_btrans *)
Btrans(x, R, C, batch) ==
  [i \in 0 .. batch * R * C - 1 |-> x[(i \div (R * C)) * R * C + (i % R) * C + ((i \div R) % C)]]
(* bgemm: row-major strided-batched product. *)
Bgemm(a, b, M, N, K, batch, sA, sB, alpha) ==
  [c \in 0 .. batch * M * N - 1 |->
     LET t == c \div (M * N)
         i == (c \div N) % M
     IN alpha * Sum(K, LAMBDA x : a[t * sA + i * K + x] * b[t * sB + x * N + (c % N)])]
(* run_perf *)
RunPerf(q, k, v, z, o, TB) ==
  LET flat == z.B * z.Nq
      Kt == Btrans(k, z.Skv, z.D, flat)
      S == Bgemm(q, Kt, z.Sq, z.Skv, z.D, flat, z.Sq * z.D, z.D * z.Skv, o.scale)
      P(rows) == [c \in DOMAIN S |-> rows[c \div z.Skv].e[c % z.Skv]]
      over(O, rows) == [c \in DOMAIN O |-> <<O[c], rows[c \div z.D].sum>>]
      out(rows) == over(Bgemm(P(rows), v, z.Sq, z.D, z.Skv, flat, z.Sq * z.Skv, z.Skv * z.D, 1), rows)
  IN out(MaskedSoftmax(S, z, o, TB))

-----------------------------------------------------------------------------
(* Online softmax: a running maximum m, sum l and accumulator acc. *)
Start(D) == [m |-> NegInf, l |-> 0, acc |-> [d \in 0 .. D - 1 |-> 0]]
(* Mutant: the accumulator is not corrected when the maximum grows. *)
MutantOnline(st, s, v) ==
  LET mn == IF st.m > s THEN st.m ELSE s
      w == Weight(s - mn)
  IN [m |-> mn, l |-> Rescaled(st.l, st.m - mn) + w, acc |-> [d \in DOMAIN st.acc |-> st.acc[d] + w * v[d]]]
Online(st, s, v) ==
  LET mn == IF st.m > s THEN st.m ELSE s
      w == Weight(s - mn)
      corr(a) == Rescaled(a, st.m - mn)
  IN [m |-> mn, l |-> corr(st.l) + w, acc |-> [d \in DOMAIN st.acc |-> corr(st.acc[d]) + w * v[d]]]
Swept(n, D, s, v) ==
  FoldLeft(LAMBDA st, j : Online(st, s[j - 1], v[j - 1]), Start(D), [j \in 1 .. n |-> j])

(* A dot product by a doubling tree over D threads, and by W lanes that    *)
(* take every W-th component and a shuffle.                                *)
StepTree(p, D) ==
  LET level[s \in Nat, red \in [0 .. D - 1 -> Int]] ==
        IF s >= D THEN red[0]
        ELSE level[2 * s, [d \in DOMAIN red |-> IF d % (2 * s) = 0 /\ d + s < D THEN red[d] + red[d + s] ELSE red[d]]]
  IN level[1, p]
LaneDot(a, b, D, W) ==
  TreeReduce([lane \in 1 .. W |-> Sum(D \div W, LAMBDA k : a[lane - 1 + W * k] * b[lane - 1 + W * k])], "sum")

(* k_flash and k_flash_warp, which differ in the dot product only. *)
FlashRow(dots, v, z, o, flat, i) ==
  Swept(z.Skv, z.D,
        [j \in 0 .. z.Skv - 1 |-> IF Blocked(z, o, flat, i, j) THEN NegInf ELSE dots[j] * o.scale],
        [j \in 0 .. z.Skv - 1 |-> KvRow(v, z, flat, j)])
Flash(q, k, v, z, o) ==
  OutOf(z, [flat \in Flats(z), i \in 0 .. z.Sq - 1 |->
    FlashRow([j \in 0 .. z.Skv - 1 |-> StepTree(Elementwise(QRow(q, z, flat, i), KvRow(k, z, flat, j), *), z.D)], v, z, o, flat, i)])
FlashWarp(q, k, v, z, o, W) ==
  OutOf(z, [flat \in Flats(z), i \in 0 .. z.Sq - 1 |->
    FlashRow([j \in 0 .. z.Skv - 1 |-> LaneDot(QRow(q, z, flat, i), KvRow(k, z, flat, j), z.D, W)], v, z, o, flat, i)])

(* The tile of the code's shared memory at key base: zeros past the end. *)
Tile(x, z, flat, base, tile) ==
  [jt \in 0 .. tile - 1 |-> IF base + jt < z.Skv THEN KvRow(x, z, flat, base + jt) ELSE [d \in 0 .. z.D - 1 |-> 0]]
Tiles(z, tile) == [t \in 1 .. (z.Skv + tile - 1) \div tile |-> (t - 1) * tile]
(* k_flash_block: the warps of a block share the tiles; a row steps        *)
(* through a tile and stops at the last key.                               *)
FlashBlock(q, k, v, z, o, W, tile) ==
  OutOf(z, [flat \in Flats(z), i \in 0 .. z.Sq - 1 |->
    FoldLeft(LAMBDA st, base :
               LET sK == Tile(k, z, flat, base, tile)
                   sV == Tile(v, z, flat, base, tile)
                   keys == IF z.Skv - base < tile THEN z.Skv - base ELSE tile
               IN FoldLeft(LAMBDA s, jt :
                    Online(s, IF Blocked(z, o, flat, i, base + jt - 1) THEN NegInf
                              ELSE LaneDot(QRow(q, z, flat, i), sK[jt - 1], z.D, W) * o.scale, sV[jt - 1]),
                    st, [jt \in 1 .. keys |-> jt]),
             Start(z.D), Tiles(z, tile))])

(* k_flash_wmma: one correction for a whole tile, padding masked like a    *)
(* blocked key; causal only.                                               *)
FlashWmma(q, k, v, z, o, tile) ==
  OutOf(z, [flat \in Flats(z), i \in 0 .. z.Sq - 1 |->
    FoldLeft(LAMBDA st, base :
               LET sK == Tile(k, z, flat, base, tile)
                   sV == Tile(v, z, flat, base, tile)
                   s == [c \in 0 .. tile - 1 |->
                           IF base + c >= z.Skv \/ (o.causal /\ base + c > i + z.Skv - z.Sq) THEN NegInf
                           ELSE Dot2(QRow(q, z, flat, i), sK[c], z.D) * o.scale]
                   mnew == FoldFunction(LAMBDA a, m : IF a > m THEN a ELSE m, st.m, s)
                   e == Each(s, LAMBDA a : Weight(a - mnew))
               IN [m |-> mnew, l |-> Rescaled(st.l, st.m - mnew) + FoldFunction(+, 0, e),
                   acc |-> [d \in 0 .. z.D - 1 |-> Rescaled(st.acc[d], st.m - mnew)
                                                   + Sum(tile, LAMBDA c : e[c] * sV[c][d])]],
             Start(z.D), Tiles(z, tile))])

(* launch_flash: g.lanes is 32, g.regs 256, g.block unset by FLASH_NO_TILE. *)
LaunchFlash(q, k, v, z, o, g) ==
  IF z.D % g.lanes = 0 /\ z.D <= g.regs /\ g.block THEN FlashBlock(q, k, v, z, o, g.lanes, g.tile)
  ELSE IF z.D % g.lanes = 0 /\ z.D <= g.regs THEN FlashWarp(q, k, v, z, o, g.lanes)
  ELSE Flash(q, k, v, z, o)

-----------------------------------------------------------------------------
(* aclnnFlashAttentionScore.  The first phase: q, k, v, out and the mask   *)
(* (<<>> when absent) are [type, dims, strides]; a sub-byte or fp8 input   *)
(* is decoded to half first.                                               *)
Decoded == {"fp4", "fp6", "fp8"}
Floats == {"float", "half", "bf16"}
MaskStride(z, mask) == IF Len(mask.dims) = 3 THEN z.Sq * z.Skv ELSE 0
MaskFits(z, mask) ==
  mask # <<>> => /\ mask.type \in {"bool", "uint8"}
                 /\ mask.dims \in {<<z.Sq, z.Skv>>, <<z.B, z.Sq, z.Skv>>}
Sizes(q, k) == [B |-> q.dims[1], Nq |-> q.dims[2], Sq |-> q.dims[3], D |-> q.dims[4],
                Nkv |-> k.dims[2], Skv |-> k.dims[3]]
ScoreAccepts(q, k, v, mask, headNum, out) ==
  /\ k.type = q.type /\ v.type = q.type
  /\ q.type \in Floats \cup Decoded
  /\ out.type = (IF q.type \in Decoded THEN "half" ELSE q.type)
  /\ Len(q.dims) = 4 /\ Len(k.dims) = 4 /\ Len(v.dims) = 4
  /\ \A t \in {q, k, v, out} : Contiguous(t)
  /\ k.dims[1] = q.dims[1] /\ k.dims[4] = q.dims[4] /\ v.dims = k.dims /\ out.dims = q.dims
  /\ k.dims[2] > 0 /\ q.dims[2] % k.dims[2] = 0
  /\ headNum \in {0, q.dims[2]}
  /\ MaskFits(Sizes(q, k), mask)

(* Elements the batched path keeps in the workspace, in its order: K       *)
(* transposed, scores, weights; then ltWs bytes for the library.           *)
PerfBytes(z, esz) == z.B * z.Nq * (z.Skv * z.D * esz + z.Sq * z.Skv * 4 + z.Sq * z.Skv * esz)
PerfWorkspace(z, esz, g) == PerfBytes(z, esz) + g.ltWs
(* Whether the first phase marks the call for it: g.perfMin is 16, g.cap   *)
(* 1 GB or ATTN_PERF_CAP, g.perf unset by ATTN_NO_PERF.                    *)
Dispatched(type, z, g) ==
  /\ type = "float" /\ z.Nkv = z.Nq /\ g.perf
  /\ z.Sq >= g.perfMin /\ z.Skv >= g.perfMin /\ z.D >= g.perfMin
  /\ PerfWorkspace(z, 4, g) <= g.cap
DecodedBytes(z) == (z.B * z.Nq * z.Sq * z.D + 2 * z.B * z.Nkv * z.Skv * z.D) * 2
ScoreWorkspace(type, z, g) ==
  IF Dispatched(type, z, g) THEN PerfWorkspace(z, 4, g)
  ELSE (IF type \in Decoded THEN DecodedBytes(z) ELSE 0)
       + (IF z.D <= g.flashMax THEN 0 ELSE z.B * z.Nq * z.Sq * z.Skv * 4)

(* The second phase: the path it takes, what that path uses of the         *)
(* workspace (g.flashMax is 1024, g.wmmaD 64), and what it computes.       *)
ScorePath(type, z, o, g) ==
  IF Dispatched(type, z, g) THEN "perf"
  ELSE IF z.D > g.flashMax THEN "naive"
  ELSE IF type = "half" /\ z.D = g.wmmaD /\ z.Nkv = z.Nq /\ o.mask = <<>> /\ g.wmma THEN "wmma"
  ELSE "flash"
ScoreUses(type, z, o, g) ==
  IF ScorePath(type, z, o, g) = "perf" THEN PerfBytes(z, 4)
  ELSE (IF type \in Decoded THEN DecodedBytes(z) ELSE 0)
       + (IF ScorePath(type, z, o, g) = "naive" THEN z.B * z.Nq * z.Sq * z.Skv * 4 ELSE 0)
Score(type, q, k, v, z, o, g, TB) ==
  LET path == ScorePath(type, z, o, g) IN
  CASE path = "perf" -> RunPerf(q, k, v, z, o, TB)
    [] path = "naive" -> Naive(q, k, v, z, o, TB)
    [] path = "wmma" -> FlashWmma(q, k, v, z, o, g.tile)
    [] path = "flash" -> LaunchFlash(q, k, v, z, o, g)

(* HighPerf checks the heads of k and v, and none of their other extents.  *)
HighPerfAccepts(q, k, v, mask, out) ==
  /\ q.type \in Floats /\ k.type = q.type /\ v.type = q.type /\ out.type = q.type
  /\ Len(q.dims) = 4 /\ k.dims[2] = q.dims[2] /\ v.dims[2] = q.dims[2] /\ out.dims = q.dims
  /\ MaskFits(Sizes(q, k), mask)

(* The entry points that forward to the score, its gradient, the rotation  *)
(* of one tensor and the rotation of a normalised one.                     *)
Versions(name, from, to) == {<<name, n>> : n \in from .. to}
ScoreForms ==
  Versions("FlashAttentionScore", 1, 4) \cup Versions("IncreFlashAttention", 1, 4)
  \cup Versions("PromptFlashAttention", 1, 3) \cup Versions("FusedInferAttentionScore", 2, 5)
SparseForms ==
  {"BlockSparseAttention", "BlitzSparseAttention", "NsaCompressAttention", "NsaCompressAttentionInfer",
   "NsaSelectedAttention", "NsaSelectedAttentionInfer", "FusedFloydAttention", "RainFusionAttention"}
VarLenForms ==
  Versions("FlashAttentionVarLenScore", 1, 5)
  \cup {"QuantFlashAttentionScore", "SparseFlashAttention", "SwinAttentionScoreQuant"}
GradForms ==
  Versions("FlashAttentionScoreGrad", 1, 4) \cup Versions("FlashAttentionUnpaddingScoreGrad", 1, 5)
  \cup {"QuantFlashAttentionScoreGrad", "SparseFlashAttentionGrad", "FlashAttentionScoreBackward"}
(* Incremental decoding never asks for the causal mask.                    *)
FormOptions(form, o) == IF form \in Versions("IncreFlashAttention", 1, 4) THEN [o EXCEPT !.causal = FALSE] ELSE o

-----------------------------------------------------------------------------
(* The gradient, P recomputed.  A cell of dP and dS is a numerator over    *)
(* the row's sum (dS over its square); dK and dV add rows that differ in   *)
(* it, so their cells list the rows' terms.                                *)
BackwardAccepts(q, k, v, dy, mask) ==
  /\ \A t \in {q, k, v, dy} : t.type = "float"
  /\ Len(q.dims) = 4 /\ k.dims[2] = q.dims[2]
  /\ mask # <<>> => mask.dims \in {<<q.dims[3], k.dims[3]>>, <<q.dims[1], q.dims[3], k.dims[3]>>}
KeyCell(c, z) == [b |-> c \div (z.Skv * z.D), j |-> (c \div z.D) % z.Skv, d |-> c % z.D]
KeyTerms(z, term) ==
  [c \in 0 .. z.B * z.Nq * z.Skv * z.D - 1 |->
     LET a == KeyCell(c, z) IN [i \in 0 .. z.Sq - 1 |-> term[a.b * z.Sq + i, a.j, a.d]]]
(* k_dv, k_dp, k_dsoftmax, k_dq, k_dk *)
Dv(P, dO, z) == KeyTerms(z, [r \in 0 .. Rows(z) - 1, j \in 0 .. z.Skv - 1, d \in 0 .. z.D - 1 |-> <<P[r].e[j] * dO[r * z.D + d], P[r].sum>>])
Dp(dO, v, z) ==
  [r \in 0 .. Rows(z) - 1 |->
     [j \in 0 .. z.Skv - 1 |-> Dot2(Row(dO, r, z.D), Row(v, (r \div z.Sq) * z.Skv + j, z.D), z.D)]]
DSoftmax(P, dP, z, TB) ==
  [r \in DOMAIN dP |->
     LET dot == TreeSum(Elementwise(P[r].e, dP[r], *), TB)
     IN [j \in 0 .. z.Skv - 1 |-> P[r].e[j] * (P[r].sum * dP[r][j] - dot)]]
Dq(dS, P, k, z, scale) ==
  [c \in 0 .. Rows(z) * z.D - 1 |->
     LET r == c \div z.D
     IN <<scale * Sum(z.Skv, LAMBDA j : dS[r][j] * k[((r \div z.Sq) * z.Skv + j) * z.D + (c % z.D)]), Squared(P[r].sum)>>]
Dk(dS, P, q, z, scale) == 
  KeyTerms(z, [r \in 0 .. Rows(z) - 1, j \in 0 .. z.Skv - 1, d \in 0 .. z.D - 1 |-> <<scale * dS[r][j] * q[r * z.D + d], Squared(P[r].sum)>>])
Backward(q, k, v, dO, z, o, TB) ==
  LET grads(P, dS) == [dv |-> Dv(P, dO, z), dq |-> Dq(dS, P, k, z, o.scale), dk |-> Dk(dS, P, q, z, o.scale)]
      from(P) == grads(P, DSoftmax(P, Dp(dO, v, z), z, TB))
  IN from(MaskedSoftmax(QkKernel(q, k, z, o.scale), z, o, TB))
(* The gradients of the sparse and selected forms: gradQ is a copy of the  *)
(* upstream gradient, as far as both reach.                                *)
CopiedGrad(gradOut, gradQ, n, m) ==
  [i \in 0 .. m - 1 |-> IF i < (IF n < m THEN n ELSE m) THEN gradOut[i] ELSE gradQ[i]]

-----------------------------------------------------------------------------
(* Paged attention: position p of batch b lives at p % blockSize of block  *)
(* table[b * maxBlocks + p \div blockSize].  A batch with no context       *)
(* leaves its rows as they were.  Lanes is 0 on the scalar path.           *)
PagedAccepts(query, kCache, vCache, table, ctx, out) ==
  /\ query.type \in Floats /\ \A t \in {kCache, vCache, out} : t.type = query.type
  /\ Len(query.dims) = 4 /\ Len(kCache.dims) = 4
  /\ table.type = "int32" /\ ctx.type = "int32"
  /\ query.dims[4] <= 256 /\ query.dims[2] % kCache.dims[3] = 0
  /\ Len(table.dims) = 2 /\ table.dims[1] = query.dims[1]
Paged(q, kC, vC, table, ctx, was, z, blockSize, maxBlocks, scale, W) ==
  LET row(flat) ==
        LET bh == flat \div z.Sq
            b == bh \div z.Nq
            kvh == (bh % z.Nq) \div (z.Nq \div z.Nkv)
            at(p) == (table[b * maxBlocks + (p \div blockSize)] * blockSize + (p % blockSize)) * z.Nkv + kvh
            qp == Row(q, flat, z.D)
        IN IF ctx[b] <= 0 THEN [was |-> TRUE]
           ELSE [was |-> FALSE,
                 st |-> Swept(ctx[b], z.D,
                          [p \in 0 .. ctx[b] - 1 |-> scale * (IF W > 0 /\ z.D % W = 0 THEN LaneDot(qp, Row(kC, at(p), z.D), z.D, W)
                                              ELSE Dot2(qp, Row(kC, at(p), z.D), z.D))],
                          [p \in 0 .. ctx[b] - 1 |-> Row(vC, at(p), z.D)])]
      rows == [r \in 0 .. Rows(z) - 1 |-> row(r)]
  IN [c \in 0 .. Rows(z) * z.D - 1 |->
        LET r == rows[c \div z.D] IN IF r.was THEN was[c] ELSE <<r.st.acc[c % z.D], r.st.l>>]

-----------------------------------------------------------------------------
(* Rotary embeddings: one table row per position s of x[B, N, S, D], or    *)
(* one per row of x; the gradient turns the other way.                     *)
RopeAccepts(q, k, cos, sin, mode, qOut, kOut) ==
  /\ q.type \in Floats /\ \A t \in {k, cos, sin} : t.type = q.type
  /\ Len(q.dims) = 4 /\ Len(k.dims) = 4 /\ qOut.dims = q.dims /\ kOut.dims = k.dims
  /\ cos.dims = <<q.dims[3], q.dims[4]>> /\ sin.dims = cos.dims
  /\ mode \in {0, 1}
Rope(x, c, sn, S, D, total, mode) ==
  [i \in 0 .. total - 1 |->
     LET s == (i \div D) % S IN x[i] * c[s * D + (i % D)] + Rotated(x, i, D, mode, [e \in 0 .. D - 1 |-> sn[s * D + e]])]
RopeRows(x, c, sn, rows, D, mode, ssign) ==
  [i \in 0 .. rows * D - 1 |->
     LET r == i \div D IN x[i] * c[i] + Rotated(x, i, D, mode, [e \in 0 .. D - 1 |-> ssign * sn[r * D + e]])]
RowsOf(x) == [D |-> Last(x.dims), rows |-> Numel(x.dims) \div Last(x.dims)]
(* k_rmsnorm_rope: the rotated row and what its inverse root is of.        *)
RmsNormRope(x, gamma, c, sn, rows, D, mode) ==
  LET g(d) == IF gamma = <<>> THEN 1 ELSE gamma[d]
      y == RopeRows([i \in 0 .. rows * D - 1 |-> x[i] * g(i % D)], c, sn, rows, D, mode, 1)
  IN [i \in DOMAIN y |-> <<y[i], Sum(D, LAMBDA d : Squared(x[(i \div D) * D + d])), D>>]
NormRopeForms ==
  {"KvRmsNormRopeCache", "QkvRmsNormRopeCache", "MlaPreprocess", "MlaPreprocessV2", "MlaProlog",
   "MlaPrologV2WeightNz", "MlaPrologV3WeightNz", "NormRopeConcat"}

(* k_ring_merge: partial outputs (fractions) and the exponentials of their *)
(* log-sums; cell 0 of a row writes the row's.                             *)
RingMerge(o1, e1, o2, e2, rows, D) ==
  [o |-> [i \in 0 .. rows * D - 1 |->
            LET r == i \div D
            IN <<o1[i][1] * e1[r] * o2[i][2] + o2[i][1] * e2[r] * o1[i][2], o1[i][2] * o2[i][2] * (e1[r] + e2[r])>>],
   lse |-> [r \in 0 .. rows - 1 |-> e1[r] + e2[r]]]

(* k_compress, k_compress_grad: the mean of bs rows, over bs. *)
Compress(x, Nb, bs, D) ==
  [i \in 0 .. Nb * D - 1 |-> <<Sum(bs, LAMBDA j : x[((i \div D) * bs + j) * D + (i % D)]), bs>>]
CompressGrad(go, Nb, bs, D) == [i \in 0 .. Nb * bs * D - 1 |-> <<go[((i \div D) \div bs) * D + (i % D)], bs>>]
CompressPlan(x, out, bs) ==
  [ok |-> bs > 0 /\ Len(x.dims) >= 2, D |-> Last(x.dims), Nb |-> Numel(out.dims) \div Last(x.dims)]

(* Multi-latent attention: keys and values are projections of the latent.  *)
(* The causal row stops at its own position.                               *)
MlaProj(cKV, w, B, Nh, S, D, Lc) ==
  [i \in 0 .. B * Nh * S * D - 1 |->
     LET p == Coord(i, <<B, Nh, S, D>>)
     IN Sum(Lc, LAMBDA l : cKV[(p[1] * S + p[3]) * Lc + l] * w[l * Nh * D + p[2] * D + p[4]])]
MlaAttn(q, K, V, B, Nh, S, D, scale, causal) ==
  LET z == [B |-> B, Nq |-> Nh, Nkv |-> Nh, Sq |-> S, Skv |-> S, D |-> D]
  IN OutOf(z, [flat \in Flats(z), i \in 0 .. z.Sq - 1 |->
       Swept(IF causal THEN i + 1 ELSE S, D,
             [j \in 0 .. S - 1 |-> scale * Dot2(QRow(q, z, flat, i), Row(K, flat * S + j, D), D)],
             [j \in 0 .. S - 1 |-> Row(V, flat * S + j, D)])])
MlaPlan(q, cKV) ==
  [ok |-> q.type = "float" /\ Len(q.dims) = 4, Lc |-> cKV.dims[3], ws |-> 2 * Numel(q.dims) * 4]
MultiLatentAttention(q, cKV, wUK, wUV, dims, Lc, scale, causal) ==
  LET proj(w) == MlaProj(cKV, w, dims[1], dims[2], dims[3], dims[4], Lc)
      keys == proj(wUK)
      values == proj(wUV)
  IN MlaAttn(q, keys, values, dims[1], dims[2], dims[3], dims[4], scale, causal)
=============================================================================
