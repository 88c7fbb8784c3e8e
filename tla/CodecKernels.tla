---------------------------- MODULE CodecKernels ----------------------------
(***************************************************************************)
(* The low-precision codes (subfp.cuh, hif8.cuh), the casts that use them  *)
(* (cast.cu) and the quantisers (quant.cu).  A scale is a fraction         *)
(* <<n, d>>; an absent tensor is <<>>.                                     *)
(***************************************************************************)
EXTENDS MatmulKernels

-----------------------------------------------------------------------------
(* fp4 and fp6.  A kind has M mantissa bits and half magnitudes; a code at *)
(* or above half is negative.  Magnitudes count smallest subnormals, what  *)
(* is encoded is [neg, mag] in 64ths of one, "nan" when it is <<>>.        *)
SubFpKind(type) == CASE type = "e2m1" -> [M |-> 1, half |-> 8]
                [] type = "e1m2" -> [M |-> 2, half |-> 8]
                [] type = "e2m3" -> [M |-> 3, half |-> 32]
                [] type = "e3m2" -> [M |-> 2, half |-> 32]
(* The decode tables in closed form: subnormals up to 2^M, then 2^M steps  *)
(* to a binade.                                                            *)
Magnitude(k, c) == LET b == 2 ^ k.M IN IF c <= b THEN c ELSE (b + (c % b)) * 2 ^ (c \div b - 1)
SubFpDecode(type, code) ==
  LET k == SubFpKind(type) IN [neg |-> code >= k.half, mag |-> 64 * Magnitude(k, code % k.half)]

(* The boundary tables, in 64ths: a normal code starts half way from its   *)
(* predecessor, an odd one just above that; a subnormal code starts where  *)
(* a significand of M + 2 bits rounds up to it.                            *)
LeastPow2(c) == CHOOSE p \in {1, 2, 4, 8} : p >= c /\ (p = 1 \/ p < 2 * c)
Boundary(k, c) ==
  IF c <= 2 ^ k.M THEN 64 * c - (64 * LeastPow2(c)) \div 2 ^ (k.M + 2)
  ELSE 32 * (Magnitude(k, c) + Magnitude(k, c - 1)) + (c % 2)
(* subfp_encode: the loop stops at the first boundary not reached. *)
SubFpEncode(type, x) ==
  LET k == SubFpKind(type)
      from == Tabulated([i \in 1 .. k.half - 1 |-> Boundary(k, i)])
      c == CHOOSE c \in 0 .. k.half - 1 : /\ \A i \in 1 .. c : x.mag >= from[i]
                                          /\ c = k.half - 1 \/ x.mag < from[c + 1]
  IN IF x = <<>> THEN 0 ELSE IF x.neg THEN c + k.half ELSE c

-----------------------------------------------------------------------------
(* HiFloat8.  A positive binary32 is <<m, e>>, m * 2^e with m in           *)
(* 2^23 .. 2^24 - 1, or FZero.                                             *)
FZero == <<0, 0>>
FBound == <<13234890, 76>>     \* 1e30f
Float(m, e) == LET j == Log2(m) - 23 IN
               IF m = 0 THEN FZero
               ELSE IF j <= 0 THEN <<m * 2 ^ (-j), e + j>>
               ELSE LET q == Rint(m, 2 ^ j) IN IF q = 2 ^ 24 THEN <<2 ^ 23, e + j + 1>> ELSE <<q, e + j>>
FLess(a, b) == IF 0 \in {a[1], b[1]} THEN a[1] < b[1] ELSE a[2] < b[2] \/ (a[2] = b[2] /\ a[1] < b[1])
(* fabsf(a - b), rounded as the hardware does, with three guard bits. *)
FDist(a, b) ==
  LET hi == IF FLess(a, b) THEN b ELSE a
      lo == IF FLess(a, b) THEN a ELSE b
      shift == 2 ^ (IF hi[2] - lo[2] > 27 THEN 27 ELSE hi[2] - lo[2])
      kept == (8 * lo[1]) \div shift
      sticky == IF (8 * lo[1]) % shift # 0 /\ kept % 2 = 0 THEN 1 ELSE 0
  IN IF lo[1] = 0 THEN hi ELSE Float(8 * hi[1] - kept - sticky, hi[2] - 3)

(* The table of the positive codes in closed form.  The leading bits give  *)
(* the width of the exponent field, a sign and a magnitude without its     *)
(* leading one; codes below 8 are powers of two.                           *)
Hif8Infinity == 111            \* 0x6f, which the search places at 49152
Hif8Overflow == <<3 * 2 ^ 22, -8>>
Hif8Fields(c) == CASE c < 16 -> [first |-> 8, M |-> 3, D |-> 0]
                   [] c \in 16 .. 31 -> [first |-> 16, M |-> 3, D |-> 1]
                   [] c \in 32 .. 63 -> [first |-> 32, M |-> 3, D |-> 2]
                   [] c \in 64 .. 95 -> [first |-> 64, M |-> 2, D |-> 3]
                   [] OTHER -> [first |-> 96, M |-> 1, D |-> 4]
Hif8Decode(c) ==
  LET f == Hif8Fields(c)
      field == (c - f.first) \div 2 ^ f.M
      high == IF f.D = 0 THEN 0 ELSE 2 ^ (f.D - 1)
      exp == IF f.D = 0 THEN 0 ELSE IF field >= high THEN -field ELSE high + field
  IN IF c = 0 THEN FZero ELSE IF c < 8 THEN <<2 ^ 23, c - 46>>
     ELSE <<(2 ^ f.M + (c % 2 ^ f.M)) * 2 ^ (23 - f.M), exp - 23>>

(* hif8_encode: the nearest of all codes, the last of those equally near,  *)
(* within 1e30.  kind is "nan", "inf" or another word.                   *)
Hif8Nearest(ax) ==
  LET d == Tabulated([c \in 0 .. 127 |-> FDist(IF c = Hif8Infinity THEN Hif8Overflow ELSE Hif8Decode(c), ax)])
      last(dist) == CHOOSE c \in 0 .. 127 :
                      \A k \in 0 .. 127 : IF k <= c THEN ~FLess(dist[k], dist[c]) ELSE FLess(dist[c], dist[k])
      near(c) == IF FLess(FBound, d[c]) THEN 0 ELSE c
  IN near(last(d))
Hif8Encode(kind, neg, v) ==
  LET signed(best) == IF neg /\ best # 0 THEN 128 + best ELSE best
  IN CASE kind = "nan" -> 128
       [] kind = "inf" -> signed(Hif8Infinity)
       [] OTHER -> signed(Hif8Nearest(v))

-----------------------------------------------------------------------------
(* Casts.  k_to_fp4 packs two codes to a byte, an odd count leaving the    *)
(* last high nibble 0; k_to_fp6 keeps a byte for each.                     *)
ToFp4(type, x, n) ==
  [b \in 0 .. (n + 1) \div 2 - 1 |->
     SubFpEncode(type, x[2 * b]) + (IF 2 * b + 1 < n THEN 16 * SubFpEncode(type, x[2 * b + 1]) ELSE 0)]
FromFp4(type, p, n) == [i \in 0 .. n - 1 |-> SubFpDecode(type, Nibble(p, i))]
ToFp6(type, x, n) == [i \in 0 .. n - 1 |-> SubFpEncode(type, x[i])]
FromFp6(type, p, n) == [i \in 0 .. n - 1 |-> SubFpDecode(type, p[i] % 64)]

(* k_fp6_pack and k_fp6_unpack: four codes in three bytes, little-endian;  *)
(* codes beyond the end are 0 and are not written back.                    *)
Fp6Pack(codes, n) ==
  LET c(g, j) == IF 4 * g + j < n THEN codes[4 * g + j] % 64 ELSE 0
  IN [b \in 0 .. 3 * ((n + 3) \div 4) - 1 |->
        LET g == b \div 3 IN
        CASE b % 3 = 0 -> c(g, 0) + 64 * (c(g, 1) % 4)
          [] b % 3 = 1 -> c(g, 1) \div 4 + 16 * (c(g, 2) % 16)
          [] b % 3 = 2 -> c(g, 2) \div 16 + 4 * c(g, 3)]
Fp6Unpack(p, n) ==
  [i \in 0 .. n - 1 |->
     LET b(j) == p[3 * (i \div 4) + j] IN
     CASE i % 4 = 0 -> b(0) % 64
       [] i % 4 = 1 -> (b(0) \div 64 + 4 * b(1)) % 64
       [] i % 4 = 2 -> (b(1) \div 16 + 16 * b(2)) % 64
       [] i % 4 = 3 -> b(2) \div 4]

(* aclnnCast.  The destinations each source has a kernel for are found out *)
(* in the second phase, which otherwise fails and writes nothing.          *)
Elementary == {"float", "half", "bf16", "int32", "int8", "uint8", "e4m3", "e5m2"}
SubFpTypes == {"e2m1", "e1m2", "e2m3", "e3m2"}
CastAccepts(self, dtype, out) == out.type = dtype /\ self.dims = out.dims /\ Contiguous(self) /\ Contiguous(out)
LaunchDst(dst) == dst \in Elementary \cup {"hif8"} \cup SubFpTypes
LaunchFromHif8(dst) == dst \in {"float", "half", "bf16"}
LaunchFromSubFp(dst) == dst = "float"
Converted(src, dst, v) == [from |-> src, to |-> dst, value |-> v]   \* through float
Cast(src, dst, x, n, out) ==
  LET known == CASE src = "hif8" -> LaunchFromHif8(dst)
                 [] src \in SubFpTypes -> LaunchFromSubFp(dst)
                 [] OTHER -> src \in Elementary /\ LaunchDst(dst)
      y == CASE src \in SubFpTypes -> IF Packing(src) = "fp4" THEN FromFp4(src, x, n) ELSE FromFp6(src, x, n)
             [] dst \in SubFpTypes -> IF Packing(dst) = "fp4" THEN ToFp4(dst, x, n) ELSE ToFp6(dst, x, n)
             [] OTHER -> [i \in 0 .. n - 1 |-> Converted(src, dst, x[i])]
  IN [status |-> IF known THEN "success" ELSE "invalid", out |-> IF known THEN y ELSE out]

-----------------------------------------------------------------------------
(* Quantisers with scales given beforehand.                                *)
Shift(of, c) == IF of = <<>> THEN 0 ELSE of[c]
Scaled8(v, scale, shift) == Clip(Rint(v * scale[1] + shift * scale[2], scale[2]), -128, 127)
Restored(q, scale, shift) == <<(q - shift) * scale[1], scale[2]>>
(* k_quant, k_dequant: one scale, or one for each of the last dimension.   *)
Quantize(x, sc, of, C) ==
  [i \in DOMAIN x |-> LET c == IF C > 1 THEN i % C ELSE 0 IN Scaled8(x[i], sc[c], Shift(of, c))]
Dequantize(q, sc, of, C) ==
  [i \in DOMAIN q |-> LET c == IF C > 1 THEN i % C ELSE 0 IN Restored(q[i], sc[c], Shift(of, c))]
(* k_ascend_quant, k_ascend_dequant, k_dequant_bias: always by channel.    *)
AscendQuant(x, sc, of, C) == [i \in DOMAIN x |-> Scaled8(x[i], sc[i % C], Shift(of, i % C))]
AscendDequant(q, sc, of, C) == [i \in DOMAIN q |-> Restored(q[i], sc[i % C], Shift(of, i % C))]
DequantBias(q, sc, bias, C) ==
  [i \in DOMAIN q |-> LET s == sc[i % C] IN <<q[i] * s[1] + Shift(bias, i % C) * s[2], s[2]>>]
GroupQuant(x, sc, of, gsz) == [i \in DOMAIN x |-> LET g == i \div gsz IN Scaled8(x[i], sc[g], Shift(of, g))]

(* k_fake_quant rounds after adding the zero point, k_fakequant before;    *)
(* the mask of the second tells which values were in range.                *)
FakeQuant(x, s, zp, lo, hi) ==
  [i \in DOMAIN x |-> Restored(Clip(Rint(x[i] * s[2] + zp * s[1], s[1]), lo, hi), s, zp)]
FakeQuantAffine(x, sc, zp, C, inner, lo, hi) ==
  LET ch(i) == (i \div inner) % C
      q == [i \in DOMAIN x |-> Rint(x[i] * sc[ch(i)][2], sc[ch(i)][1]) + zp[ch(i)]]
  IN [mask |-> [i \in DOMAIN x |-> q[i] >= lo /\ q[i] <= hi],
      out |-> [i \in DOMAIN x |-> Restored(Clip(q[i], lo, hi), sc[ch(i)], zp[ch(i)])]]

-----------------------------------------------------------------------------
(* Dynamic quantisers: a block finds the largest magnitude of its row by   *)
(* warps of W of its TB threads.  Rows of zeros have the scale 1.          *)
AbsMax(v, TB, W) == BlockReduce([t \in 1 .. TB |-> ThreadPartial(Each(v, Abs), t - 1, TB, "max", 0)], W, "max", 0)
RowMaxima(y, rows, D, TB, W) == [r \in 0 .. rows - 1 |-> AbsMax(Row(y, r, D), TB, W)]
RowScale(amax) == IF amax = 0 THEN <<1, 1>> ELSE <<amax, 127>>
ToRowMaximum(y, amax, D, lo) ==
  [i \in DOMAIN y |-> IF amax[i \div D] = 0 THEN 0 ELSE Clip(Rint(127 * y[i], amax[i \div D]), lo, 127)]
(* k_dynquant_fast, k_block_quant, k_flat_quant.                           *)
DynamicQuant(x, rows, D, TB, W) ==
  LET amax == RowMaxima(x, rows, D, TB, W) IN [scale |-> Each(amax, RowScale), q |-> ToRowMaximum(x, amax, D, -128)]
BlockQuant(x, nblocks, blk, TB, W) ==
  LET amax == RowMaxima(x, nblocks, blk, TB, W) IN [scale |-> Each(amax, RowScale), q |-> ToRowMaximum(x, amax, blk, -127)]
FlatQuant(x, rows, D, TB, W) ==
  LET amax == RowMaxima(x, rows, D, TB, W) IN [scale |-> Each(amax, RowScale), q |-> ToRowMaximum(x, amax, D, -127)]
(* k_gelu_quant and k_swiglu_mx by the value act of their activation.      *)
GeluQuant(x, act, rows, D, TB, W) == BlockQuant(Each(x, LAMBDA v : act[v]), rows, D, TB, W)

(* The least power of two that brings amax to at most 127.                 *)
Pow2(k) == IF k >= 0 THEN <<2 ^ k, 1>> ELSE <<1, 2 ^ (-k)>>
PowerScale(amax) ==
  IF amax = 0 THEN 0 ELSE CHOOSE k \in -7 .. 8 : /\ 128 * amax <= 127 * 2 ^ (k + 7)
                                                 /\ k = -7 \/ 128 * amax > 127 * 2 ^ (k + 6)
ToPower(y, k, D) ==
  [i \in DOMAIN y |-> LET s == Pow2(k[i \div D]) IN Clip(Rint(y[i] * s[2], s[1]), -127, 127)]
DynamicMxQuant(x, nblocks, blk, TB, W) ==
  LET k == Each(RowMaxima(x, nblocks, blk, TB, W), PowerScale) IN [scale |-> Each(k, Pow2), q |-> ToPower(x, k, blk)]
SwigluMx(x, act, rows, D, TB, W) ==
  DynamicMxQuant([i \in 0 .. rows * D - 1 |->
                    LET r == i \div D IN act[x[r * 2 * D + (i % D)]] * x[r * 2 * D + D + (i % D)]], rows, D, TB, W)
(* k_dual_mx: the second scale is what the first leaves.  s1 and s2 name   *)
(* the buffers; the second is stored last.                                 *)
DualMx(mem, x, s1, s2, nblk, blk, TB, W) ==
  LET amax == RowMaxima(x, nblk, blk, TB, W)
      k == Each(amax, PowerScale)
      rest(b) == LET p == Pow2(-k[b]) IN IF amax[b] = 0 THEN <<1, 1>> ELSE <<amax[b] * p[1], 127 * p[2]>>
      coarse == [mem EXCEPT ![s1] = Each(k, Pow2)]
  IN [mem |-> [coarse EXCEPT ![s2] = [b \in DOMAIN k |-> rest(b)]], q |-> ToRowMaximum(x, amax, blk, -127)]
(* aclnnDynamicMxQuantWithDualAxis without a second scale tensor.          *)
DualAxisQuant(mem, x, s1, s2, nblk, blk, TB, W) == DualMx(mem, x, s1, IF s2 = "none" THEN s1 ELSE s2, nblk, blk, TB, W)

(* k_ln_quant, without an additive weight: the warps add their sums to a   *)
(* shared cell, the deviation of the row cancels.                          *)
WarpAtomicSum(v, TB, W) ==
  Sum(TB \div W, LAMBDA w : TreeReduce([l \in 1 .. W |-> ThreadPartial(v, w * W + l - 1, TB, "sum", 0)], "sum"))
SwinLnQuant(x, g, rows, D, TB, W) ==
  BlockQuant([i \in DOMAIN x |-> (D * x[i] - WarpAtomicSum(Row(x, i \div D, D), TB, W)) * (IF g = <<>> THEN 1 ELSE g[i % D])], rows, D, TB, W)

(* k_quant_scatter: rows out of range are passed over.  The threads of two *)
(* updates of one row are not ordered, so a cell has a set of outcomes.    *)
QuantScatter(self, idx, upd, D, scale) ==
  LET N == Cardinality(DOMAIN self) \div D
      writes == {p \in DOMAIN upd : idx[p \div D] \in 0 .. N - 1}
      into(cell) == {p \in writes : idx[p \div D] * D + (p % D) = cell}
  IN [cell \in DOMAIN self |->
        IF into(cell) = {} THEN {self[cell]}
        ELSE {Clip(Rint(upd[p] * scale[2], scale[1]), -127, 127) : p \in into(cell)}]
(* k_trans_qparam: the scale's bits below, the rounded offset above.       *)
TransQuantParam(scale, offset) ==
  [i \in DOMAIN scale |-> [high |-> IF offset = <<>> THEN 0 ELSE Rint(offset[i][1], offset[i][2]), low |-> scale[i]]]

-----------------------------------------------------------------------------
(* What the first phases check and derive.                                 *)
QuantTypes == {"float", "half", "bf16"}
QuantizeAccepts(x, scale, offset, out) ==
  /\ out.type = "int8" /\ scale.type = "float" /\ (offset = <<>> \/ offset.type = "float")
  /\ x.dims = out.dims
  /\ x.type \in QuantTypes                       \* refused by the second phase
DequantizeAccepts(x, scale, offset, out) ==
  /\ x.type = "int8" /\ scale.type = "float" /\ (offset = <<>> \/ offset.type = "float")
  /\ out.type \in QuantTypes /\ x.dims = out.dims
AscendQuantAccepts(x, out) == x.type = "float" /\ out.type = "int8"
AscendDequantAccepts(x, out) == x.type = "int8" /\ out.type = "float"
DequantBiasAccepts(x, out) == x.type = "int32" /\ out.type = "float"
FakeQuantAccepts(x, out) == x.type = "float" /\ out.type = "float"
DynamicQuantPlan(x, out, scaleOut) ==
  RowPlan(x, out.type = "int8" /\ scaleOut.type = "float" /\ x.dims = out.dims /\ x.type \in QuantTypes)
GeluQuantPlan(x, out, scaleOut) == RowPlan(x, out.type = "int8" /\ scaleOut.type = "float" /\ x.dims = out.dims)
BlockPlan(x, blk, ok) == [ok |-> blk > 0 /\ ok /\ Numel(x.dims) % blk = 0, D |-> blk, rows |-> Numel(x.dims) \div blk]
DynamicBlockQuantPlan(x, blk, out, scaleOut) ==
  BlockPlan(x, blk, out.type = "int8" /\ scaleOut.type = "float" /\ x.dims = out.dims)
DynamicMxQuantPlan(x, blk, out, scaleOut) ==
  BlockPlan(x, blk, out.type = "int8" /\ scaleOut.type = "float" /\ x.dims = out.dims)
GroupQuantPlan(x, gsz, out) == BlockPlan(x, gsz, out.type = "int8" /\ x.dims = out.dims)
DualLevelPlan(x, blk, out) == BlockPlan(x, blk, out.type = "int8")
DualAxisPlan(x, blk, out) == BlockPlan(x, blk, out.type = "int8")
FlatQuantPlan(x, out) == RowPlan(x, out.type = "int8" /\ x.dims # <<>>)
SwigluMxPlan(x, out) == RowPlan(out, out.type = "int8" /\ Last(x.dims) = 2 * Last(out.dims))
SwinLnQuantPlan(x, out) == RowPlan(x, out.type = "int8")
FakeQuantTensorPlan(self, out) == [ok |-> self.dims = out.dims, C |-> 1, inner |-> 1]
FakeQuantChannelPlan(self, axis, out) ==
  LET k == Normal(axis, Len(self.dims)) + 1
      ok == self.dims = out.dims /\ k \in 1 .. Len(self.dims)
  IN [ok |-> ok, C |-> IF ok THEN self.dims[k] ELSE 1, inner |-> IF ok THEN Inner(self.dims, k) ELSE 1]
QuantScatterPlan(self, idx, upd) ==
  [ok |-> self.type = "int8" /\ idx.type = "int64" /\ upd.type = "float", D |-> Numel(upd.dims) \div upd.dims[1]]
TransQuantParamAccepts(scale, out) == scale.type = "float" /\ out.type = "int64"
=============================================================================
