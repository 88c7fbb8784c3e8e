--------------------------- MODULE MatmulKernels ---------------------------
(***************************************************************************)
(* Matrix products (cuda/src/ops/matmul.cu and, after them, the operators  *)
(* of blas_ext.cu) on integers.  cuBLASLt is its contract: a row-major     *)
(* product, or the transposed product of the fp8 and int8 paths.  z holds  *)
(* M, N and K.  A path is described by the buffers it carves out of the    *)
(* workspace, in order, and by what it computes from them; "declines" says *)
(* that the library refuses the native format.                             *)
(***************************************************************************)
EXTENDS LossKernels

LtWs == 4 * 2 ^ 20        \* LT_WS
MxBlk == 32               \* MX_BLK

(* cublasLtMatmul, row order, a batch of products at the given strides. *)
Gemm(a, b, z, batch, sA, sB) ==
  [c \in 0 .. batch * z.M * z.N - 1 |->
     LET t == c \div (z.M * z.N)
         m == (c \div z.N) % z.M
     IN Sum(z.K, LAMBDA k : a[t * sA + m * z.K + k] * b[t * sB + k * z.N + (c % z.N)])]
GemmHalf(a, b, z) == Gemm(a, b, z, 1, 0, 0)
(* gemm_rm: the strides are attributes of a batch of more than one. *)
GemmRm(a, b, z, batch, sA, sB) == IF batch > 1 THEN Gemm(a, b, z, batch, sA, sB) ELSE GemmHalf(a, b, z)
(* The TN product: column-major, Bt is K by N and a is K by M. *)
GemmTN(Bt, a, z) ==
  [c \in 0 .. z.M * z.N - 1 |-> Sum(z.K, LAMBDA k : Bt[(c % z.N) * z.K + k] * a[(c \div z.N) * z.K + k])]

-----------------------------------------------------------------------------
(* Transposes, of bytes and of nibbles (the low one first). *)
TransposeU8(in, K, N) == [o \in 0 .. N * K - 1 |-> in[(o % K) * N + o \div K]]
Nibble(p, i) == IF i % 2 = 1 THEN p[i \div 2] \div 16 ELSE p[i \div 2] % 16
(* Mutant: the two nibbles of a byte change places. *)
MutantTransposeFp4(in, K, N) ==
  [o \in 0 .. N * (K \div 2) - 1 |->
     LET n == o \div (K \div 2)
         kp == o % (K \div 2)
     IN Nibble(in, 2 * kp * N + n) * 16 + Nibble(in, (2 * kp + 1) * N + n)]
TransposeFp4(in, K, N) ==
  [o \in 0 .. N * (K \div 2) - 1 |->
     LET n == o \div (K \div 2)
         kp == o % (K \div 2)
     IN Nibble(in, (2 * kp + 1) * N + n) * 16 + Nibble(in, 2 * kp * N + n)]

(* Block scales: rows of nb blocks in tiles of 128 rows and 4 blocks. *)
Ru(x, m) == ((x + m - 1) \div m) * m
SwizzleBytes(rows, nb) == Ru(rows, 128) * Ru(nb, 4)
SwizzleOffset(m, b, nb) ==
  LET tile == (m \div 128) * (Ru(nb, 4) \div 4) + b \div 4
      r == m % 128
  IN tile * 512 + (r % 32) * 16 + (r \div 32) * 4 + (b % 4)
(* The cells a launch of k_swizzle_scale writes, as <<cell, value>>. *)
SwizzleScale(in, rows, nb, colmajor) ==
  {<<SwizzleOffset(t \div nb, t % nb, nb), IF colmajor THEN in[(t % nb) * rows + t \div nb] ELSE in[t]>> :
     t \in 0 .. rows * nb - 1}

(* Exponent scales to the four exponent bits of E4M3, one per 16 elements. *)
E8m0ToE4m3Pow2(e8) ==
  LET ex == e8 - 127
      clamped == IF ex < -6 THEN -6 ELSE IF ex > 8 THEN 8 ELSE ex
  IN ((clamped + 7) % 16) * 8
E8m0ToE4m3A(in, rows, nb32) ==
  [o \in 0 .. rows * nb32 * 2 - 1 |-> E8m0ToE4m3Pow2(in[(o \div (2 * nb32)) * nb32 + (o % (2 * nb32)) \div 2])]
E8m0ToE4m3B(in, nb32, N) ==
  [o \in 0 .. nb32 * 2 * N - 1 |-> E8m0ToE4m3Pow2(in[((o \div N) \div 2) * N + (o % N)])]

-----------------------------------------------------------------------------
(* Unpacking.  A code's value is external (subfp.cuh); a scale multiplies  *)
(* by 2^(byte - 127), and the models keep it an integer.                   *)
Codes(type, p, i) == IF type = "fp4" THEN Nibble(p, i) ELSE p[i] % 64
DeqSubfp(type, p, n, value) == [i \in 0 .. n - 1 |-> value[Codes(type, p, i)]]
Scaled(v, e8) == v * 2 ^ (e8 - 127)
DeqA(a, sA, M, K) == [i \in 0 .. M * K - 1 |-> Scaled(a[i], sA[(i \div K) * (K \div MxBlk) + (i % K) \div MxBlk])]
DeqB(b, sB, K, N) == [i \in 0 .. K * N - 1 |-> Scaled(b[i], sB[((i \div N) \div MxBlk) * N + (i % N)])]
DeqAFp4(a, sA, M, K, value) == DeqA(DeqSubfp("fp4", a, M * K, value), sA, M, K)
DeqBFp4(b, sB, K, N, value) == DeqB(DeqSubfp("fp4", b, K * N, value), sB, K, N)

(* Integer weights: int8, or signed nibbles; offsets and scales of a column. *)
Signed4(v) == IF v >= 8 THEN v - 16 ELSE v
Weight8or4(type, w, i) == IF type = "int8" THEN w[i] ELSE Signed4(Nibble(w, i))
OffsetOf(off, n) == IF off = <<>> THEN 0 ELSE off[n]
DeqWq(type, w, scale, off, K, N) ==
  [i \in 0 .. K * N - 1 |-> (Weight8or4(type, w, i) - OffsetOf(off, i % N)) * scale[i % N]]
DeqQw8(w, scale, K, N) == [i \in 0 .. K * N - 1 |-> w[i] * scale[i % N]]
ScaleI32(c, scale, M, N) == [i \in 0 .. M * N - 1 |-> c[i] * scale[i % N]]
(* k_wq_fused: the column's offset is taken out of the sums at the end. *)
WqFused(type, act, w, scale, off, z) ==
  [c \in 0 .. z.M * z.N - 1 |->
     LET m == c \div z.N
         n == c % z.N
         acc == Sum(z.K, LAMBDA k : act[m * z.K + k] * Weight8or4(type, w, k * z.N + n))
         sa == Sum(z.K, LAMBDA k : act[m * z.K + k])
     IN (acc - OffsetOf(off, n) * sa) * scale[n]]

(* k_bias_act; GeLU keeps its argument. *)
BiasAct(o, bias, full, act, M, N) ==
  [i \in 0 .. M * N - 1 |->
     LET v == o[i] + IF bias = <<>> THEN 0 ELSE bias[IF full THEN i ELSE i % N]
     IN <<act = 2, IF act = 1 /\ v < 0 THEN 0 ELSE v>>]

-----------------------------------------------------------------------------
(* Types and shapes. *)
SubFp(type) == type \in {"e2m1", "e1m2", "e2m3", "e3m2"}
Packing(type) == IF type \in {"e2m1", "e1m2"} THEN "fp4" ELSE "fp6"
Fp8(type) == type \in {"e4m3", "e5m2"}
Wide == {"float", "half", "bf16"}
Multiplies(a, b, o) ==
  /\ Len(a.dims) = 2 /\ Len(b.dims) = 2 /\ Len(o.dims) = 2
  /\ b.dims[1] = a.dims[2] /\ o.dims = <<a.dims[1], b.dims[2]>>
Product(a, b) == [M |-> a.dims[1], N |-> b.dims[2], K |-> a.dims[2]]

MatmulAccepts(a, b, o) ==
  /\ \/ SubFp(a.type) /\ b.type = a.type /\ o.type \in {"float", "half"}
     \/ /\ Fp8(a.type) /\ Fp8(b.type) /\ {a.type, b.type} # {"e5m2"}
        /\ o.type \in {"float", "half"} /\ a.dims[2] % 16 = 0
     \/ a.type \in Wide /\ b.type = a.type /\ (o.type = a.type \/ (a.type # "float" /\ o.type = "float"))
  /\ Multiplies(a, b, o)
  /\ Contiguous(a) /\ Contiguous(b) /\ Contiguous(o)

MxAccepts(a, sA, b, sB, o, types) ==
  /\ a.type \in types /\ b.type \in types /\ sA.type = "e8m0" /\ sB.type = "e8m0" /\ o.type \in {"float", "half"}
  /\ Multiplies(a, b, o) /\ a.dims[2] % MxBlk = 0
  /\ sA.dims = <<a.dims[1], a.dims[2] \div MxBlk>> /\ sB.dims = <<a.dims[2] \div MxBlk, b.dims[2]>>
(* The hardware entries leave the scales' extents unchecked. *)
MxHwAccepts(a, sA, b, sB, o, types) ==
  /\ a.type \in types /\ b.type \in types /\ sA.type = "e8m0" /\ sB.type = "e8m0" /\ o.type \in {"float", "half"}
  /\ Multiplies(a, b, o) /\ a.dims[2] % MxBlk = 0
MxFp8Accepts(a, sA, b, sB, o) == MxAccepts(a, sA, b, sB, o, {"e4m3", "e5m2"})
MxFp4Accepts(a, sA, b, sB, o) == MxAccepts(a, sA, b, sB, o, {"e2m1"})
MxFp8HwAccepts(a, sA, b, sB, o) == MxHwAccepts(a, sA, b, sB, o, {"e4m3", "e5m2"})
(* Two weights of a row share a byte. *)
MxFp4HwAccepts(a, sA, b, sB, o) == MxHwAccepts(a, sA, b, sB, o, {"e2m1"}) /\ b.dims[2] % 2 = 0
WqAccepts(x, w, scale, off, o) ==
  /\ x.type = "half" /\ o.type = "half" /\ w.type \in {"int8", "int4"} /\ scale.type = "half"
  /\ off = <<>> \/ off.type = "half"
  /\ Multiplies(x, w, o) /\ scale.dims = <<w.dims[2]>>
QuantAccepts(x, w, scale, o) ==
  /\ x.type = "int8" /\ w.type = "int8" /\ scale.type = "half" /\ o.type \in {"half", "float"}
  /\ Multiplies(x, w, o) /\ scale.dims = <<w.dims[2]>>
BatchAccepts(a, b, o) ==
  /\ Len(a.dims) = 3 /\ Len(b.dims) = 3 /\ Len(o.dims) = 3
  /\ a.type \in Wide /\ b.type = a.type /\ o.type = a.type
  /\ Contiguous(a) /\ Contiguous(b) /\ Contiguous(o)
  /\ b.dims[1] = a.dims[1] /\ b.dims[2] = a.dims[3] /\ o.dims = <<a.dims[1], a.dims[2], b.dims[3]>>

-----------------------------------------------------------------------------
(* Workspaces: the size the first phase answers, in bytes, and the buffers *)
(* the second lays out from the start; the rest is the library's.          *)
HalfBuffers(z) == <<2 * z.M * z.K, 2 * z.K * z.N>>
HalfWs(z) == 2 * (z.M * z.K + z.K * z.N) + LtWs

MatmulWs(type, z) == IF SubFp(type) THEN HalfWs(z) ELSE IF Fp8(type) THEN z.N * z.K + LtWs ELSE LtWs
SubFpNative(z) == z.K % 16 = 0
(* What a call lays out on the paths it tries, one after the other. *)
MatmulBuffers(type, z) ==
  IF SubFp(type) THEN (IF SubFpNative(z) THEN {<<z.M * z.K, z.K * z.N, z.N * z.K>>} ELSE {}) \cup {HalfBuffers(z)}
  ELSE IF Fp8(type) THEN {<<z.N * z.K>>} ELSE {<<>>}
(* matmul_subfp unpacks to fp8, and to fp16 when that is refused. *)
MatmulSubfp(type, a, b, z, declines, value) ==
  LET af == DeqSubfp(Packing(type), a, z.M * z.K, value)
      bf == DeqSubfp(Packing(type), b, z.K * z.N, value)
  IN IF SubFpNative(z) /\ ~declines THEN GemmTN(TransposeU8(bf, z.K, z.N), af, z) ELSE GemmHalf(af, bf, z)
MatmulFp8(a, b, z) == GemmTN(TransposeU8(b, z.K, z.N), a, z)
(* aclnnMatmul *)
Matmul(type, a, b, z, declines, value) ==
  IF SubFp(type) THEN MatmulSubfp(type, a, b, z, declines, value)
  ELSE IF Fp8(type) THEN MatmulFp8(a, b, z) ELSE GemmHalf(a, b, z)

MxFp8(a, sA, b, sB, z) == GemmHalf(DeqA(a, sA, z.M, z.K), DeqB(b, sB, z.K, z.N), z)
MxFp4(a, sA, b, sB, z, value) ==
  GemmHalf(DeqAFp4(a, sA, z.M, z.K, value), DeqBFp4(b, sB, z.K, z.N, value), z)

(* The hardware paths: weights transposed, both scales swizzled.  The      *)
(* library's product takes each scale from the tile layout it defines.     *)
HwBuffers(z, bytes, per) ==
  <<bytes, SwizzleBytes(z.M, z.K \div per), SwizzleBytes(z.N, z.K \div per)>>
MxFp8HwWs(z, hw) == IF hw THEN Total(HwBuffers(z, z.N * z.K, MxBlk)) + LtWs ELSE HalfWs(z)
NvBuffers(z) ==
  <<(z.N * z.K) \div 2, z.M * (z.K \div 16), (z.K \div 16) * z.N,
    SwizzleBytes(z.M, z.K \div 16), SwizzleBytes(z.N, z.K \div 16)>>
MxFp4HwWs(z, hw) ==
  LET nat == Total(HwBuffers(z, (z.N * z.K) \div 2, MxBlk)) + LtWs
      nv == Total(NvBuffers(z)) + LtWs
      sizes == {HalfWs(z), nat, nv}
  IN IF hw THEN CHOOSE s \in sizes : \A t \in sizes : t <= s ELSE HalfWs(z)
MxFp8HwBuffers(z, hw) == {IF hw THEN HwBuffers(z, z.N * z.K, MxBlk) ELSE HalfBuffers(z)}
MxFp4HwBuffers(z, hw, nv) ==
  {HalfBuffers(z)} \cup IF ~hw THEN {} ELSE {IF nv THEN NvBuffers(z) ELSE HwBuffers(z, (z.N * z.K) \div 2, MxBlk)}

(* The tile layout, read: the byte p of rows of nb blocks is the scale of  *)
(* this row and block.                                                     *)
TileRow(p, nb) == ((p \div 512) \div (Ru(nb, 4) \div 4)) * 128 + ((p % 16) \div 4) * 32 + (p % 512) \div 16
TileBlock(p, nb) == ((p \div 512) % (Ru(nb, 4) \div 4)) * 4 + (p % 4)
ReadScale(cells, m, b, nb, bytes) ==
  LET at == {c \in cells : TileRow(c[1], nb) = m /\ TileBlock(c[1], nb) = b /\ c[1] < bytes}
  IN IF Cardinality(at) = 1 THEN (CHOOSE c \in at : TRUE)[2] ELSE 0
(* The power of two of a scale byte, an exponent or an E4M3 without mantissa. *)
ScalePower(type, byte) == IF type = "e8m0" THEN Scaled(1, byte) ELSE Scaled(1, ((byte \div 8) % 16) + 120)
GemmScaled(Bt, a, sA, sB, z, per, type) ==
  LET nb == z.K \div per
      rowScale == [r \in 0 .. z.M * nb - 1 |-> ScalePower(type, ReadScale(sA, r \div nb, r % nb, nb, SwizzleBytes(z.M, nb)))]
      colScale == [r \in 0 .. z.N * nb - 1 |-> ScalePower(type, ReadScale(sB, r \div nb, r % nb, nb, SwizzleBytes(z.N, nb)))]
  IN [c \in 0 .. z.M * z.N - 1 |->
        LET m == c \div z.N
            n == c % z.N
        IN Sum(z.K, LAMBDA k : Bt[n * z.K + k] * colScale[n * nb + k \div per] * a[m * z.K + k] * rowScale[m * nb + k \div per])]
MxFp8Hw(a, sA, b, sB, z, hw) ==
  LET nb == z.K \div MxBlk
  IN IF ~hw THEN MxFp8(a, sA, b, sB, z)
     ELSE GemmScaled(TransposeU8(b, z.K, z.N), a, SwizzleScale(sA, z.M, nb, FALSE), SwizzleScale(sB, z.N, nb, TRUE), z, MxBlk, "e8m0")

(* nvfp4_hw and aclnnMatmulMxFp4Hw: what the library declines is redone by *)
(* the functional path in the same workspace.                              *)
Nvfp4Hw(a, sA, b, sB, z, value) ==
  LET nb16 == z.K \div 16
      cA == E8m0ToE4m3A(sA, z.M, z.K \div MxBlk)
      cB == E8m0ToE4m3B(sB, z.K \div MxBlk, z.N)
  IN GemmScaled(DeqSubfp("fp4", TransposeFp4(b, z.K, z.N), z.K * z.N, value), DeqSubfp("fp4", a, z.M * z.K, value),
                SwizzleScale(cA, z.M, nb16, FALSE), SwizzleScale(cB, z.N, nb16, TRUE), z, 16, "e4m3")
MxFp4Hw(a, sA, b, sB, z, hw, nv, declines, value) ==
  LET nb == z.K \div MxBlk
  IN IF ~hw \/ declines THEN MxFp4(a, sA, b, sB, z, value)
     ELSE IF nv THEN Nvfp4Hw(a, sA, b, sB, z, value)
     ELSE GemmScaled(DeqSubfp("fp4", TransposeFp4(b, z.K, z.N), z.K * z.N, value), DeqSubfp("fp4", a, z.M * z.K, value),
                     SwizzleScale(sA, z.M, nb, FALSE), SwizzleScale(sB, z.N, nb, TRUE), z, MxBlk, "e8m0")

(* aclnnWeightQuantBatchMatmul: few rows are fused and need no workspace. *)
WqFuses(M, th) == M <= th
WqWs(z, th) == IF WqFuses(z.M, th) THEN 0 ELSE 2 * z.K * z.N + LtWs
WqBuffers(z, th) == IF WqFuses(z.M, th) THEN {} ELSE {<<2 * z.K * z.N>>}
WeightQuant(type, x, w, scale, off, z, th) ==
  IF WqFuses(z.M, th) THEN WqFused(type, x, w, scale, off, z) ELSE GemmHalf(x, DeqWq(type, w, scale, off, z.K, z.N), z)

(* aclnnQuantMatmul: sized for the larger of its two paths. *)
QuantNative(z) == z.K % 16 = 0
QuantWs(z) ==
  LET int8ws == z.N * z.K + z.M * z.N * 4 + LtWs
  IN IF HalfWs(z) > int8ws THEN HalfWs(z) ELSE int8ws
QuantBuffers(z) == {HalfBuffers(z)} \cup IF QuantNative(z) THEN {<<z.N * z.K, 4 * z.M * z.N>>} ELSE {}
QuantMatmul(x, w, scale, z, declines) ==
  IF QuantNative(z) /\ ~declines THEN ScaleI32(GemmTN(TransposeU8(w, z.K, z.N), x, z), scale, z.M, z.N)
  ELSE GemmHalf(x, DeqQw8(w, scale, z.K, z.N), z)
(* aclnnQuantGroupedMatmulInplaceAdd: adds to a float output only, and     *)
(* leaves any other as it was.                                             *)
QuantInplaceAdd(old, type, x, w, scale, z, declines) ==
  IF type = "float" THEN Elementwise(old, QuantMatmul(x, w, scale, z, declines), +) ELSE old

(* aclnnGroupedMatmulWeightList: group e multiplies its rows by weight e. *)
WeightListAccepts(x, weights, groups, o) ==
  /\ Len(weights) > 0 /\ x.type \in Wide /\ o.type = x.type
  /\ Len(x.dims) = 2 /\ Len(o.dims) = 2 /\ o.dims[1] = x.dims[1] /\ Len(groups) = Len(weights)
  /\ \A i \in DOMAIN weights : /\ weights[i].type = x.type /\ weights[i].dims = <<x.dims[2], o.dims[2]>>
                               /\ Contiguous(weights[i])
  /\ Total(groups) = x.dims[1]
WeightList(x, weights, groups, K, N, old) ==
  FoldLeft(LAMBDA st, e :
             LET r == groups[e]
                 rows == Gemm([i \in 0 .. r * K - 1 |-> x[st.off * K + i]], weights[e], [M |-> r, N |-> N, K |-> K], 1, 0, 0)
             IN [off |-> st.off + r,
                 out |-> IF r > 0 THEN [i \in DOMAIN st.out |-> IF i - st.off * N \in DOMAIN rows THEN rows[i - st.off * N] ELSE st.out[i]]
                         ELSE st.out],
           [off |-> 0, out |-> old], [e \in 1 .. Len(groups) |-> e]).out

(* aclnnBatchMatMul *)
BatchMatMul(a, b, z, batch) == GemmRm(a, b, z, batch, z.M * z.K, z.K * z.N)

(* aclnnMatmulBias *)
BiasShape(a, b, tA, tB) ==
  [M |-> IF tA THEN a.dims[2] ELSE a.dims[1], K |-> IF tA THEN a.dims[1] ELSE a.dims[2],
   Kb |-> IF tB THEN b.dims[2] ELSE b.dims[1], N |-> IF tB THEN b.dims[1] ELSE b.dims[2]]
BiasAccepts(a, b, bias, tA, tB, act, o) ==
  LET z == BiasShape(a, b, tA, tB)
  IN /\ Len(a.dims) = 2 /\ Len(b.dims) = 2 /\ Len(o.dims) = 2
     /\ a.type \in Wide /\ b.type = a.type /\ o.type = a.type
     /\ Contiguous(a) /\ Contiguous(b) /\ Contiguous(o)
     /\ o.dims = <<z.M, z.N>> /\ z.Kb = z.K
     /\ bias = <<>> \/ (bias.dims \in {<<z.N>>, <<z.M, z.N>>} /\ bias.type = o.type)
     /\ act \in 0 .. 2
Esz(type) == IF type = "float" THEN 4 ELSE 2
BiasBuffers(type, z, tA, tB) ==
  (IF tA THEN <<Esz(type) * z.M * z.K>> ELSE <<>>) \o IF tB THEN <<Esz(type) * z.K * z.N>> ELSE <<>>
BiasWs(type, z, tA, tB) == Total(BiasBuffers(type, z, tA, tB)) + LtWs
(* k_T2d *)
T2d(in, R, C) == [o \in 0 .. R * C - 1 |-> in[(o % R) * C + o \div R]]
MatmulBias(a, b, bias, full, tA, tB, act, z) ==
  LET A == IF tA THEN T2d(a, z.K, z.M) ELSE a
      B == IF tB THEN T2d(b, z.N, z.K) ELSE b
  IN BiasAct(GemmRm(A, B, z, 1, 0, 0), bias, full, act, z.M, z.N)

-----------------------------------------------------------------------------
(* k_btranspose over a batch of P by Q matrices; the product of the        *)
(* transposed operand is checked only when the second phase plans it.      *)
BTranspose(in, B, P, Q) ==
  [o \in 0 .. B * P * Q - 1 |-> in[(o \div (P * Q)) * P * Q + (o % P) * Q + ((o \div P) % Q)]]
Swapped(b) ==
  LET r == Len(b.dims)
      dims == SubSeq(b.dims, 1, r - 2) \o <<b.dims[r], b.dims[r - 1]>>
  IN [type |-> b.type, dims |-> dims, strides |-> Strides(dims)]
TransposeBatchAccepts(a, b, o) ==
  IF Len(a.dims) = 2 THEN MatmulAccepts(a, Swapped(b), o) ELSE BatchAccepts(a, Swapped(b), o)
TransposeBatch(a, b, da, db, value) ==
  LET r == Len(db)
      bt == BTranspose(b, Numel(SubSeq(db, 1, r - 2)), db[r - 1], db[r])
      z == [M |-> da[Len(da) - 1], K |-> Last(da), N |-> db[r - 1]]
  IN IF Len(da) = 2 THEN Matmul("float", a, bt, z, FALSE, value) ELSE BatchMatMul(a, bt, z, da[1])

(* k_bmm_quant *)
BmmQuant(a, b, scale, z, batch) ==
  [i \in 0 .. batch * z.M * z.N - 1 |->
     LET t == i \div (z.M * z.N)
         m == (i \div z.N) % z.M
     IN (IF scale = <<>> THEN 1 ELSE scale[i % z.N])
        * Sum(z.K, LAMBDA k : a[(t * z.M + m) * z.K + k] * b[t * z.K * z.N + k * z.N + (i % z.N)])]

(* k_swiglu_q: a row's largest magnitude over the block's warps, then each *)
(* value as a multiple of a 127th of it.  Gate stands for x * sigmoid(x).  *)
Gate(x) == IF x > 0 THEN 2 * x ELSE -1
SwigluQ(x, M, N, TB, W) ==
  [m \in 0 .. M - 1 |->
     LET g == [d \in 0 .. N - 1 |-> Gate(x[m * 2 * N + d]) * x[m * 2 * N + N + d]]
         lane(t) == ThreadPartial(Each(g, Abs), t, TB, "max", 0)
         warps == [w \in 1 .. TB \div W |-> TreeReduce([l \in 1 .. W |-> lane((w - 1) * W + l - 1)], "max")]
         amax == FoldLeft(LAMBDA v, s : Rop("max", v, s), 0, warps)
     IN [scale |-> amax, q |-> Each(g, LAMBDA v : Clip(IF amax > 0 THEN Rint(127 * v, amax) ELSE v, -127, 127))]]

(* agm_run: with a communicator the ranks' rows are gathered; without one  *)
(* the rank's rows are taken for all of them.                              *)
AgmRun(shards, rank, gathers, w, z) ==
  LET per == Cardinality(DOMAIN shards[1])
      xfull == IF gathers THEN [i \in 0 .. Len(shards) * per - 1 |-> shards[(i \div per) + 1][i % per]] ELSE shards[rank]
  IN Matmul("float", xfull, w, z, FALSE, <<>>)

-----------------------------------------------------------------------------
(* The linear-algebra operators of blas_ext.cu: products with a scaled     *)
(* addend, outer products and contractions, and Einsum, which plans a      *)
(* permutation of either operand, a batched product and a permutation of   *)
(* the result.  Matrices are flat; an absent tensor is <<>>.               *)
(* The sum over k of a[k] * b[k]. *)
Inner2(K, a, b) == Sum(K, LAMBDA k : a[k] * b[k])
Beta(c, i, beta) == IF c = <<>> THEN 0 ELSE beta * c[i]

(* k_gemm: batched, or with the products of all batches added up. *)
GemmAdd(a, b, c, z, batch, alpha, beta, addbmm) ==
  [i \in 0 .. (IF addbmm THEN 1 ELSE batch) * z.M * z.N - 1 |->
     LET n == i % z.N
         m == (i \div z.N) % z.M
         at(t) == Inner2(z.K, [k \in 0 .. z.K - 1 |-> a[(t * z.M + m) * z.K + k]], [k \in 0 .. z.K - 1 |-> b[(t * z.K + k) * z.N + n]])
     IN Beta(c, i, beta) + alpha * (IF addbmm THEN Sum(batch, at) ELSE at(i \div (z.M * z.N)))]
Gemv(a, x, y, M, K, alpha, beta) ==
  [m \in 0 .. M - 1 |-> Beta(y, m, beta) + alpha * Inner2(K, [k \in 0 .. K - 1 |-> a[m * K + k]], x)]
DotProduct(a, b, n) == <<Inner2(n, a, b)>>
OuterProduct(a, b, M, N) == [i \in 0 .. M * N - 1 |-> a[i \div N] * b[i % N]]
Kron(a, b, M, N, P, Q) ==
  [i \in 0 .. M * P * N * Q - 1 |->
     LET row == i \div (N * Q)
         col == i % (N * Q)
     IN a[(row \div P) * N + (col \div Q)] * b[(row % P) * Q + (col % Q)]]

(* aclnnGemm: either operand transposed; C is not read when beta is 0. *)
GemmTrans(a, b, c, z, tA, tB, alpha, beta) ==
  [i \in 0 .. z.M * z.N - 1 |->
     LET m == i \div z.N
         n == i % z.N
     IN (IF beta = 0 THEN 0 ELSE Beta(c, i, beta))
        + alpha * Inner2(z.K, [k \in 0 .. z.K - 1 |-> IF tA THEN a[k * z.M + m] ELSE a[m * z.K + k]],
                              [k \in 0 .. z.K - 1 |-> IF tB THEN b[n * z.K + k] ELSE b[k * z.N + n]])]

(* GroupedMatmulAdd: a launch for each group of rows with its own weight;  *)
(* an empty group launches nothing.                                        *)
GmmAdd(x, w, y, out, rowOff, Mr, K, N, e) ==
  [i \in DOMAIN out |->
     LET m == i \div N IN
     IF m \in rowOff .. rowOff + Mr - 1
     THEN Beta(y, i, 1) + Inner2(K, [k \in 0 .. K - 1 |-> x[m * K + k]], [k \in 0 .. K - 1 |-> w[(e * K + k) * N + (i % N)]])
     ELSE out[i]]
GroupedAdd(x, w, y, groups, K, N, old) ==
  LET launch(st, e) ==
        [off |-> st.off + groups[e],
         out |-> IF groups[e] > 0 THEN GmmAdd(x, w, y, st.out, st.off, groups[e], K, N, e - 1) ELSE st.out]
  IN FoldLeft(launch, [off |-> 0, out |-> old], [e \in DOMAIN groups |-> e]).out

-----------------------------------------------------------------------------
(* Contractions.  k_bmm and permute_dev. *)
Bmm(a, b, Bt, M, K, N) ==
  [i \in 0 .. Bt * M * N - 1 |->
     LET t == i \div (M * N)
         m == (i \div N) % M
     IN Inner2(K, [k \in 0 .. K - 1 |-> a[(t * M + m) * K + k]], [k \in 0 .. K - 1 |-> b[(t * K + k) * N + (i % N)]])]
PermuteDev(in, dims, perm) ==
  LET od == [d \in DOMAIN perm |-> dims[perm[d]]]
      istr == [d \in DOMAIN perm |-> Strides(dims)[perm[d]]]
  IN [i \in 0 .. Numel(od) - 1 |-> in[Dot(Coord(i, od), istr)]]

(* The last dims of one operand against the first of the other. *)
Tensordot(a, da, b, db, naxes) ==
  LET C == Numel(SubSeq(da, Len(da) - naxes + 1, Len(da)))
  IN Bmm(a, b, 1, Numel(da) \div C, C, Numel(db) \div C)

(* The labels of an equation <<la, lb, lo>>, sorted into what is kept of   *)
(* both operands, of one, and what is summed over.  A label of one operand *)
(* alone that is not in lo is in none of the lists.                        *)
EinsumPlan(eq) ==
  LET in(k, c) == c \in ToSet(eq[k])
  IN [batch |-> SelectSeq(eq[1], LAMBDA c : in(2, c) /\ in(3, c)),
      fa |-> SelectSeq(eq[1], LAMBDA c : ~in(2, c) /\ in(3, c)),
      contract |-> SelectSeq(eq[1], LAMBDA c : in(2, c) /\ ~in(3, c)),
      fb |-> SelectSeq(eq[2], LAMBDA c : ~in(1, c) /\ in(3, c))]
(* mkperm finds where a label is; the sizes of labels in both operands are *)
(* the second's.                                                           *)
MkPerm(src, order) == [d \in DOMAIN order |-> CHOOSE i \in DOMAIN src : src[i] = order[d]]
LabelSize(eq, da, db, c) ==
  IF c \in ToSet(eq[2]) THEN db[MkPerm(eq[2], <<c>>)[1]] ELSE da[MkPerm(eq[1], <<c>>)[1]]
Einsum(eq, a, da, b, db) ==
  LET sizes(labels) == [d \in DOMAIN labels |-> LabelSize(eq, da, db, labels[d])]
      product(p) == Bmm(PermuteDev(a, da, MkPerm(eq[1], p.batch \o p.fa \o p.contract)),
                        PermuteDev(b, db, MkPerm(eq[2], p.batch \o p.contract \o p.fb)),
                        Numel(sizes(p.batch)), Numel(sizes(p.fa)), Numel(sizes(p.contract)), Numel(sizes(p.fb)))
      ordered(nat, c) == IF nat = eq[3] THEN c ELSE PermuteDev(c, sizes(nat), MkPerm(nat, eq[3]))
      planned(p) == ordered(p.batch \o p.fa \o p.fb, product(p))
  IN planned(EinsumPlan(eq))

-----------------------------------------------------------------------------
(* What the first phases check. *)
FloatRank(t, n) == t.type = "float" /\ Len(t.dims) = n
MvAccepts(a) == FloatRank(a, 2)
AddmvAccepts(a) == FloatRank(a, 2)
AddmmAccepts(a, b) == FloatRank(a, 2) /\ Len(b.dims) = 2
BaddbmmAccepts(a) == FloatRank(a, 3)
AddbmmAccepts(a) == FloatRank(a, 3)
DotAccepts(a) == a.type = "float"
OuterAccepts(a) == a.type = "float"
KronAccepts(a, b) == FloatRank(a, 2) /\ Len(b.dims) = 2
TensordotAccepts(a) == a.type = "float"
EinsumAccepts(a) == a.type = "float"
Mat(t, trans) == IF trans THEN Reverse(t.dims) ELSE t.dims
GemmAccepts(a, b, c, beta, tA, tB, out) ==
  /\ a.type = b.type /\ a.type = out.type
  /\ Len(a.dims) = 2 /\ Len(b.dims) = 2 /\ Len(out.dims) = 2
  /\ Mat(a, tA)[2] = Mat(b, tB)[1] /\ out.dims = <<Mat(a, tA)[1], Mat(b, tB)[2]>>
  /\ c # <<>> /\ beta # 0 => c.dims = out.dims
GroupedAddAccepts(x, w, y, groups, out) ==
  /\ x.type \in {"float", "half", "bf16"} /\ w.type = x.type /\ out.type = x.type
  /\ Len(x.dims) = 2 /\ Len(w.dims) = 3
  /\ w.dims[2] = x.dims[2] /\ out.dims = <<x.dims[1], w.dims[3]>>
  /\ Len(groups) = w.dims[1] /\ Total(groups) = x.dims[1]
  /\ y # <<>> => y.type = x.type /\ y.dims = out.dims
=============================================================================
