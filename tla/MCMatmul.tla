------------------------------ MODULE MCMatmul ------------------------------
(***************************************************************************)
(* Matrix products on small matrices, contractions, the low-precision      *)
(* codes and the quantisers, with the definition each is checked against.  *)
(* A call is [op, p]; the block sizes of the products are the code's.      *)
(***************************************************************************)
EXTENDS CodecKernels

Mm(op, p) == [op |-> op, p |-> p]
Shape(s) == [M |-> s[1], N |-> s[2], K |-> s[3]]
Of(type, dims) == [type |-> type, dims |-> dims, strides |-> Strides(dims)]
Cells(n, a, b) == [i \in 0 .. n - 1 |-> ((i * a + (i \div 3) + b) % 5) - 2]
Bytes(n, a, b) == [i \in 0 .. n - 1 |-> (i * a + (i \div 5) * 3 + b) % 256]
Int8s(n, a) == [i \in 0 .. n - 1 |-> ((i * a + (i \div 4)) % 17) - 8]
(* E2M1's values in halves, by code; another code is its own value.        *)
E2m1Value == [c \in 0 .. 63 |-> LET mag == <<0, 1, 2, 3, 4, 6, 8, 12>>[(c % 8) + 1] IN IF c % 16 >= 8 THEN -mag ELSE mag]
CodeValue == [c \in 0 .. 255 |-> c]

(* Exponent bytes 127 + 0 .. 2: scales of 1, 2 and 4. *)
Exponents(n, a) == [i \in 0 .. n - 1 |-> 127 + ((i * a) % 3)]
Swaps == {FALSE, TRUE}

MatmulCalls ==
  {Mm("matmul", <<s, t, o, d>>) :
     s \in {<<2, 2, 2>>, <<1, 3, 2>>, <<3, 2, 4>>, <<2, 3, 16>>}, t \in {"float", "e4m3", "e5m2", "e2m1", "e3m2"},
     o \in {"float", "bf16"}, d \in Swaps}
MxCalls == {Mm(op, <<s, hw, nv, d>>) : op \in {"mxfp8", "mxfp4"}, s \in {<<2, 2, 64>>, <<1, 4, 32>>, <<3, 1, 32>>},
                                       hw \in Swaps, nv \in Swaps, d \in Swaps}
SwizzleCalls == {Mm("swizzle", <<rows, nb, c>>) : rows \in {1, 33, 130}, nb \in {1, 4, 5}, c \in Swaps}
ScaleCalls == {Mm("scales", <<n>>) : n \in {1, 3}}
WqCalls == {Mm("weight_quant", <<s, t, off, th>>) : s \in {<<1, 2, 3>>, <<3, 2, 2>>, <<2, 3, 4>>}, t \in {"int8", "int4"}, off \in Swaps, th \in {1, 2}}
QuantCalls == {Mm(op, <<s, o, d>>) : op \in {"quant", "inplace_add"}, s \in {<<2, 2, 16>>, <<1, 3, 5>>, <<2, 1, 32>>}, o \in {"float", "half"}, d \in Swaps}
ListCalls == {Mm("weight_list", <<g, 2, 3>>) : g \in {<<1, 2>>, <<2, 0, 1>>, <<3>>, <<2, 2>>}}
BatchCalls == {Mm("batch", <<b, s>>) : b \in 1 .. 3, s \in {<<2, 1, 3>>, <<1, 2, 2>>}}
BiasCalls == {Mm("bias", <<<<2, 3, 4>>, tA, tB, act, b>>) : tA \in Swaps, tB \in Swaps, act \in 0 .. 3, b \in 0 .. 2}
TransposeCalls == {Mm("transpose_batch", p) : p \in {<<<<2, 2, 3>>, <<2, 4, 3>>>>, <<<<2, 3>>, <<4, 3>>>>, <<<<2, 3>>, <<1, 4, 3>>>>, <<<<1, 2, 3>>, <<1, 3, 2>>>>}}
BmmCalls == {Mm("bmm_quant", <<b, s, c>>) : b \in 1 .. 2, s \in {<<2, 3, 4>>}, c \in Swaps}
SwigluCalls == {Mm("swiglu_quant", <<m, n, w>>) : m \in 1 .. 2, n \in 1 .. 5, w \in {1, 2, 4}}
GatherCalls == {Mm("gather", <<r, k>>) : r \in 1 .. 3, k \in 1 .. 2}
(* Codes: every magnitude with what lies up to the next; values of HiFloat8 *)
(* and midpoints at the ends of its binades; what is beyond its range.     *)
Half(t) == SubFpKind(t).half
SubFpCalls == UNION {{Mm("subfp", <<t, c>>) : c \in 0 .. Half(t) - 1} : t \in SubFpTypes}
PackCalls == {Mm("pack", <<t, n>>) : t \in SubFpTypes, n \in 1 .. 6} \cup {Mm("fp6", <<n>>) : n \in 1 .. 9}
AllTypes == Elementary \cup SubFpTypes \cup {"hif8", "int64"}
CastCalls == {Mm("cast", <<s, t, n>>) : s \in AllTypes, t \in AllTypes, n \in {3}}
Hif8Calls == {Mm("hif8", <<at, c, c % 3 = 1>>) : at \in {"value", "mid"}, c \in {c \in 0 .. 127 : c < 8 \/ c % 8 > 5 \/ c > 104} \ {Hif8Infinity}}
             \cup {Mm("hif8", <<"big", e, e % 2 = 1>>) : e \in {16, 24, 39, 40, 60, 100, 127}}
             \cup {Mm("hif8", <<at, 0, neg>>) : at \in {"inf", "nan"}, neg \in Swaps}
(* Quantisers: dims, then the blocks of threads and their warps.           *)
Threads == {<<1, 1>>, <<4, 2>>, <<8, 2>>}
ByScale == {Mm(op, <<d, of, per>>) : op \in {"quantize", "ascend", "group"}, d \in {<<2, 3>>, <<4>>, <<2, 2, 2>>}, of \in Swaps, per \in Swaps}
FakeCalls == {Mm("fake", <<zp, r>>) : zp \in -2 .. 2, r \in {<<-8, 7>>, <<0, 15>>}}
             \cup {Mm("fake_channel", <<d, a, r>>) : d \in {<<2, 3>>, <<2, 3, 2>>}, a \in -3 .. 2, r \in {<<-8, 7>>, <<0, 15>>}}
DynCalls == {Mm(op, <<d, w>>) : op \in {"dynamic", "gelu", "flat", "swin", "swiglu_mx"}, d \in {<<2, 3>>, <<1, 8>>, <<3, 2>>, <<2, 1, 5>>}, w \in Threads}
            \cup {Mm(op, <<d, w, b>>) : op \in {"block", "mx"}, d \in {<<2, 3>>, <<12>>}, w \in Threads, b \in 1 .. 4}
            \cup {Mm("dual", <<<<12>>, w, b, axes>>) : w \in Threads, b \in {2, 3}, axes \in {"levels", "one", "both"}}
RowCalls == {Mm("quant_scatter", <<i, d>>) : i \in [0 .. 2 -> -1 .. 3], d \in 1 .. 2} \cup {Mm("qparam", <<n, of>>) : n \in 1 .. 3, of \in Swaps}
CodecCalls == SubFpCalls \cup PackCalls \cup CastCalls \cup Hif8Calls \cup ByScale \cup FakeCalls \cup DynCalls \cup RowCalls

(* Contractions.  Equations <<la, lb, lo>>: the labels of an operand differ, *)
(* and one that only one operand has is in the result (blas_ext.cu:214).   *)
Equations ==
  {<<<<"i", "j">>, <<"j", "k">>, lo>> : lo \in {<<"i", "k">>, <<"k", "i">>}}
  \cup {<<<<"j", "i">>, <<"j", "k">>, <<"i", "k">>>>, <<<<"i">>, <<"j">>, <<"j", "i">>>>, <<<<"i", "j">>, <<"j", "i">>, <<>>>>}
  \cup {<<la, lb, lo>> : la \in {<<"b", "i", "j">>, <<"j", "i", "b">>}, lb \in {<<"b", "j", "k">>, <<"k", "b", "j">>},
                       lo \in {<<"b", "i", "k">>, <<"k", "b", "i">>, <<"i", "b", "k">>}}
LabelSizes == [b |-> 2, i |-> 3, j |-> 4, k |-> 2]
DimsOf(labels) == [d \in DOMAIN labels |-> LabelSizes[labels[d]]]
BlasCalls ==
  {Mm("addmm", <<b, s, c, be>>) : b \in 1 .. 3, s \in {<<2, 3, 2>>, <<1, 2, 3>>}, c \in Swaps, be \in {0, 3}}
  \cup {Mm("addbmm", <<b, s, c, be>>) : b \in 1 .. 3, s \in {<<2, 3, 2>>, <<1, 2, 3>>}, c \in Swaps, be \in {0, 3}}
  \cup {Mm("addmv", <<s, c>>) : s \in {<<2, 1, 3>>, <<4, 1, 2>>}, c \in Swaps}
  \cup {Mm("kron", <<m, n, q, r>>) : m \in 1 .. 3, n \in 1 .. 2, q \in 1 .. 2, r \in 1 .. 3}
  \cup {Mm("outer", <<m, n>>) : m \in 1 .. 3, n \in 1 .. 3}
  \cup {Mm("gemm", <<s, tA, tB, c, be>>) : s \in {<<2, 3, 4>>, <<3, 1, 2>>}, tA \in Swaps, tB \in Swaps, c \in Swaps, be \in {0, 3}}
  \cup {Mm("grouped_add", <<g, y>>) : g \in {<<1, 2>>, <<2, 0, 1>>, <<3>>, <<0, 3>>}, y \in Swaps}
  \cup {Mm("tensordot", <<da, db, n>>) : da \in {<<2, 3, 2>>}, db \in {<<3, 2, 2>>, <<3, 2>>}, n \in {2}}
  \cup {Mm("tensordot", <<<<3, 2>>, <<2, 4>>, 1>>), Mm("tensordot", <<<<2, 3>>, <<2, 2>>, 0>>)}
  \cup {Mm("einsum", <<eq>>) : eq \in Equations}

MatrixCalls == BlasCalls \cup MatmulCalls \cup MxCalls \cup SwizzleCalls \cup ScaleCalls \cup WqCalls \cup QuantCalls \cup ListCalls
               \cup BatchCalls \cup BiasCalls \cup TransposeCalls \cup BmmCalls \cup SwigluCalls \cup GatherCalls
               \cup CodecCalls

(* A magnitude of the type, and the points looked at between it and the    *)
(* next one: sixteenths of the step, and just beside them.                 *)
Grid(t, c) == 64 * Magnitude(SubFpKind(t), c)
Above(t, c) == IF c < Half(t) - 1 THEN Grid(t, c + 1) ELSE 2 * Grid(t, c)
Between(t, c) ==
  LET step == (Above(t, c) - Grid(t, c)) \div 16
  IN {m \in UNION {{Grid(t, c) + j * step - 1, Grid(t, c) + j * step, Grid(t, c) + j * step + 1} : j \in 0 .. 16} :
        Grid(t, c) <= m /\ m < Above(t, c)}
X64(n) == [i \in 0 .. n - 1 |-> [neg |-> i % 2 = 1, mag |-> 37 * i * i + 11]]
(* The code after c in the order of the values; infinity stands at 49152.  *)
FloatOf(c) == IF c = Hif8Infinity THEN Hif8Overflow ELSE Hif8Decode(c)
NextCode(c) ==
  LET v == Tabulated([k \in 0 .. 127 |-> FloatOf(k)])
  IN CHOOSE n \in 0 .. 127 : FLess(v[c], v[n]) /\ \A k \in 0 .. 127 : FLess(v[c], v[k]) => ~FLess(v[k], v[n])
Middle(a, b) == IF a[1] = 0 THEN <<b[1], b[2] - 1>>
                ELSE Float((a[1] + b[1] * 2 ^ (b[2] - a[2])) \div 4, a[2] + 1)
Hif8Input(p) == CASE p[1] = "value" -> Hif8Decode(p[2])
                  [] p[1] = "mid" -> Middle(FloatOf(p[2]), FloatOf(NextCode(p[2])))
                  [] p[1] = "big" -> <<2 ^ 23 + 2 ^ 22, p[2] - 23>>
                  [] OTHER -> FZero
(* Rows with zeros, both signs, and magnitudes below and above 127.        *)
Signal(n) == [i \in 0 .. n - 1 |-> IF i % 7 < 3 THEN 0 ELSE (((i * 53) % 11) - 5) * (1 + (i % 3) * 41)]
Ratios(n) == [i \in 0 .. n - 1 |-> <<<<1, 2>>, <<3, 1>>, <<7, 4>>, <<1, 1>>>>[1 + (i % 4)]]
Shifts(n, has) == IF has THEN [i \in 0 .. n - 1 |-> 2 - i] ELSE <<>>
Tilted(v) == IF v > 0 THEN 2 * v ELSE 0 - (v % 3)
Tilt == [v \in -500 .. 500 |-> Tilted(v)]
Channels(p) == IF p[3] THEN Last(p[1]) ELSE 1
Doubled(d) == [d EXCEPT ![Len(d)] = 2 * @]
PlanOf(c) ==
  LET p == c.p
      x == Of("float", p[1])
      q == Of("int8", p[1])
  IN CASE c.op = "dynamic" -> DynamicQuantPlan(x, q, x)
       [] c.op = "gelu" -> GeluQuantPlan(x, q, x)
       [] c.op = "flat" -> FlatQuantPlan(x, q)
       [] c.op = "swin" -> SwinLnQuantPlan(x, q)
       [] c.op = "swiglu_mx" -> SwigluMxPlan(Of("float", Doubled(p[1])), q)
       [] c.op = "block" -> DynamicBlockQuantPlan(x, p[3], q, x)
       [] c.op = "mx" -> DynamicMxQuantPlan(x, p[3], q, x)
       [] c.op = "dual" -> IF p[4] = "levels" THEN DualLevelPlan(x, p[3], q) ELSE DualAxisPlan(x, p[3], q)
       [] c.op = "group" -> GroupQuantPlan(x, IF p[3] THEN 2 ELSE 3, q)
       [] c.op = "fake_channel" -> FakeQuantChannelPlan(x, p[2], x)
       [] c.op = "fake" -> FakeQuantTensorPlan(Of("float", <<8>>), Of("float", <<8>>))
Planned == {"dynamic", "gelu", "flat", "swin", "swiglu_mx", "block", "mx", "dual", "group", "fake_channel", "fake"}

CodecAccepts(c) ==
  LET p == c.p
  IN CASE c.op \in Planned -> PlanOf(c).ok
       [] c.op = "quantize" -> QuantizeAccepts(Of("half", p[1]), Of("float", <<Channels(p)>>),
                                               IF p[2] THEN Of("float", <<Channels(p)>>) ELSE <<>>, Of("int8", p[1]))
                               /\ DequantizeAccepts(Of("int8", p[1]), Of("float", <<Channels(p)>>), <<>>, Of("half", p[1]))
       [] c.op = "ascend" -> AscendQuantAccepts(Of("float", p[1]), Of("int8", p[1])) /\ AscendDequantAccepts(Of("int8", p[1]), Of("float", p[1]))
       [] c.op = "cast" -> CastAccepts(Of(p[1], <<p[3]>>), p[2], Of(p[2], <<p[3]>>))
       [] c.op = "quant_scatter" -> QuantScatterPlan(Of("int8", <<3, p[2]>>), Of("int64", <<3>>), Of("float", <<3, p[2]>>)).ok
       [] c.op = "qparam" -> TransQuantParamAccepts(Of("float", <<p[1]>>), Of("int64", <<p[1]>>))
       [] OTHER -> TRUE

CodecRun(c, p, plan) ==
  LET TB == p[2][1]
      W == p[2][2]
      n == Numel(p[1])
      C == Channels(p)
  IN CASE c.op = "subfp" -> [m \in Between(p[1], p[2]) |->
            <<SubFpEncode(p[1], [neg |-> FALSE, mag |-> m]), SubFpEncode(p[1], [neg |-> TRUE, mag |-> m])>>]
       [] c.op = "pack" ->
            LET there == Cast("float", p[1], X64(p[2]), p[2], <<>>)
            IN <<there.out, Cast(p[1], "float", there.out, p[2], <<>>).out>>
       [] c.op = "fp6" -> LET codes == Bytes(p[1], 29, 50) IN <<Fp6Pack(codes, p[1]), Fp6Unpack(Fp6Pack(codes, p[1]), p[1])>>
       [] c.op = "cast" -> Cast(p[1], p[2], IF p[1] \in SubFpTypes THEN Bytes(p[3], 9, 5) ELSE X64(p[3]), p[3], <<"before">>)
       [] c.op = "hif8" -> <<Hif8Encode(p[1], p[3], Hif8Input(p))>>
       [] c.op = "quantize" ->
            LET q == Quantize(Signal(n), Ratios(C), Shifts(C, p[2]), C)
            IN [q |-> q, back |-> Dequantize(q, [i \in 0 .. C - 1 |-> <<Ratios(C)[i][2], Ratios(C)[i][1]>>], Shifts(C, p[2]), C)]
       [] c.op = "ascend" ->
            LET L == Last(p[1])
                q == AscendQuant(Signal(n), Ratios(L), Shifts(L, p[2]), L)
            IN [q |-> q, back |-> AscendDequant(q, [i \in 0 .. L - 1 |-> <<Ratios(L)[i][2], Ratios(L)[i][1]>>], Shifts(L, p[2]), L),
                bias |-> DequantBias(q, Ratios(L), Shifts(L, p[2]), L)]
       [] c.op = "group" -> [q |-> GroupQuant(Signal(n), Ratios(n), Shifts(n, p[2]), plan.D)]
       [] c.op = "fake" ->
            [one |-> FakeQuant(Signal(8), <<7, 4>>, p[1], p[2][1], p[2][2]),
             two |-> FakeQuantAffine(Signal(8), [k \in {0} |-> <<7, 4>>], [k \in {0} |-> p[1]], plan.C, plan.inner, p[2][1], p[2][2])]
       [] c.op = "fake_channel" ->
            FakeQuantAffine(Signal(n), Ratios(plan.C), Shifts(plan.C, TRUE), plan.C, plan.inner, p[3][1], p[3][2])
       [] c.op = "dynamic" -> DynamicQuant(Signal(n), plan.rows, plan.D, TB, W)
       [] c.op = "flat" -> FlatQuant(Signal(n), plan.rows, plan.D, TB, W)
       [] c.op = "block" -> BlockQuant(Signal(n), plan.rows, plan.D, TB, W)
       [] c.op = "gelu" -> GeluQuant(Signal(n), Tilt, plan.rows, plan.D, TB, W)
       [] c.op = "swin" -> SwinLnQuant(Signal(n), Shifts(Last(p[1]), n % 2 = 0), plan.rows, plan.D, TB, W)
       [] c.op = "mx" -> DynamicMxQuant(Signal(n), plan.rows, plan.D, TB, W)
       [] c.op = "swiglu_mx" -> SwigluMx(Cells(2 * n, 3, 1), Tilt, plan.rows, plan.D, TB, W)
       [] c.op = "dual" ->
            LET mem == [b \in {"s1", "s2"} |-> <<>>]
            IN IF p[4] = "levels" THEN DualMx(mem, Signal(n), "s1", "s2", plan.rows, plan.D, TB, W)
               ELSE DualAxisQuant(mem, Signal(n), "s1", IF p[4] = "both" THEN "s2" ELSE "none", plan.rows, plan.D, TB, W)
       [] c.op = "quant_scatter" -> QuantScatter([i \in 0 .. 3 * p[2] - 1 |-> 99], p[1], Signal(3 * p[2]), p[2], <<3, 2>>)
       [] c.op = "qparam" -> TransQuantParam(Ratios(p[1]), IF p[2] THEN Ratios(p[1]) ELSE <<>>)

CodecResult(c) == CodecRun(c, c.p, PlanOf(c))

(* q is the value v / s nearest in -lo .. hi, of two the even one.         *)
NearestIn(q, v, s, lo, hi) ==
  LET num == v * s[2]
      off == 2 * (q * s[1] - num)
  IN \/ q \in lo .. hi /\ Abs(off) < s[1]
     \/ q \in lo .. hi /\ Abs(off) = s[1] /\ q % 2 = 0
     \/ q = hi /\ num >= hi * s[1]
     \/ q = lo /\ num <= lo * s[1]
(* The rows a dynamic quantiser works on. *)
RowData(c, D) ==
  LET n == Numel(c.p[1])
      g == Shifts(Last(c.p[1]), TRUE)
  IN CASE c.op = "gelu" -> Each(Signal(n), Tilted)
       [] c.op = "swin" -> [i \in 0 .. n - 1 |->
            (D * Signal(n)[i] - FoldSet(LAMBDA k, s : s + Signal(n)[(i \div D) * D + k], 0, 0 .. D - 1)) * (IF n % 2 = 0 THEN g[i % D] ELSE 1)]
       [] c.op = "swiglu_mx" -> [i \in 0 .. n - 1 |->
            LET at == (i \div D) * 2 * D + (i % D) IN Tilted(Cells(2 * n, 3, 1)[at]) * Cells(2 * n, 3, 1)[at + D]]
       [] OTHER -> Signal(n)
Powers == {Pow2(k) : k \in -7 .. 8}
ScalesFit(c, r, D, one) ==
  LET x == RowData(c, D)
  IN \A b \in DOMAIN r.scale :
       LET s == r.scale[b]
           row == {b * D + k : k \in 0 .. D - 1}
       IN /\ \A i \in row : NearestIn(r.q[i], x[i], s, -127, 127) /\ Abs(x[i]) * s[2] <= 127 * s[1]
          /\ \/ \A i \in row : x[i] = 0 /\ s[1] = s[2]
             \/ \E i \in row : IF one THEN Abs(r.q[i]) = 127 ELSE 2 * Abs(x[i]) * s[2] > 127 * s[1]
          /\ one \/ s \in Powers

(* What the encoder of HiFloat8 promises of a magnitude beyond its range.  *)
OverflowIs(c, r) == c.op = "hif8" /\ c.p[1] = "big" => r[1] % 128 = Hif8Infinity

CodecIs(c, r) ==
  LET p == c.p
      n == Numel(p[1])
      D == PlanOf(c).D
  IN CASE c.op = "subfp" ->
            LET t == p[1]
                x == p[2]
                lo == Grid(t, x)
                hi == Above(t, x)
                top == x = Half(t) - 1
            IN \A m \in DOMAIN r :
                 /\ r[m][2] = r[m][1] + Half(t)
                 /\ r[m][1] \in IF top THEN {x} ELSE {x, x + 1}
                 /\ m = lo => r[m][1] = x
                 /\ ~top /\ 2 * m < lo + hi /\ x >= 2 ^ SubFpKind(t).M => r[m][1] = x
                 /\ ~top /\ 2 * m > lo + hi /\ x >= 2 ^ SubFpKind(t).M => r[m][1] = x + 1
                 /\ ~top /\ 2 * m = lo + hi /\ x >= 2 ^ SubFpKind(t).M => r[m][1] % 2 = 0
                 /\ ~top /\ 2 * m <= lo + hi /\ x < 2 ^ SubFpKind(t).M => r[m][1] = x
                 /\ \A k \in DOMAIN r : k < m => r[k][1] <= r[m][1]
       [] c.op = "pack" ->
            /\ DOMAIN r[1] = 0 .. (IF Packing(p[1]) = "fp4" THEN (p[2] + 1) \div 2 ELSE p[2]) - 1
            /\ \A b \in DOMAIN r[1] : r[1][b] \in 0 .. (IF Packing(p[1]) = "fp4" THEN 255 ELSE 63)
            /\ r[2] = [i \in 0 .. p[2] - 1 |-> SubFpDecode(p[1], SubFpEncode(p[1], X64(p[2])[i]))]
       [] c.op = "fp6" ->
            /\ DOMAIN r[1] = 0 .. 3 * ((p[1] + 3) \div 4) - 1 /\ \A b \in DOMAIN r[1] : r[1][b] \in 0 .. 255
            /\ r[2] = [i \in 0 .. p[1] - 1 |-> Bytes(p[1], 29, 50)[i] % 64]
       [] c.op = "cast" ->
            LET wide == {"float", "half", "bf16"}
                there == \/ p[1] = "hif8" /\ p[2] \in wide
                         \/ p[1] \in SubFpTypes /\ p[2] = "float"
                         \/ p[1] \in Elementary /\ p[2] # "int64"
            IN IF there THEN r.status = "success" /\ (p[2] \in SubFpTypes \/ DOMAIN r.out = 0 .. 2)
               ELSE r = [status |-> "invalid", out |-> <<"before">>]
       [] c.op = "hif8" ->
            LET sign(x) == IF x = 0 THEN 0 ELSE IF p[3] THEN x + 128 ELSE x
                next == NextCode(p[2])
            IN (CASE p[1] = "value" -> r[1] = sign(p[2])
                  [] p[1] = "mid" -> r[1] = sign(next)             \* away from zero
                  [] p[1] = "big" -> p[2] < 40 => r[1] = sign(Hif8Infinity)
                  [] p[1] = "inf" -> r[1] = sign(Hif8Infinity)
                  [] p[1] = "nan" -> r[1] = 128)
       [] c.op \in {"quantize", "ascend", "group"} ->
            LET ch(i) == CASE c.op = "quantize" -> i % Channels(p) [] c.op = "ascend" -> i % Last(p[1]) [] c.op = "group" -> i \div D
                s(i) == Ratios(n)[ch(i)]
                of(i) == IF p[2] THEN 2 - ch(i) ELSE 0
            IN /\ \A i \in 0 .. n - 1 : NearestIn(r.q[i], Signal(n)[i] * s(i)[1] + of(i) * s(i)[2], <<s(i)[2], 1>>, -128, 127)
               /\ c.op # "group" => \A i \in 0 .. n - 1 : r.back[i][2] = s(i)[1] /\ r.back[i][1] = (r.q[i] - of(i)) * s(i)[2]
               /\ c.op = "ascend" => \A i \in 0 .. n - 1 : r.bias[i][2] = s(i)[2] /\ r.bias[i][1] = r.q[i] * s(i)[1] + of(i) * s(i)[2]
       [] c.op = "fake" -> \A i \in 0 .. 7 :
            LET one == r.one[i][1] \div 7 + p[1]
                two == r.two.out[i][1] \div 7 + p[1]
            IN /\ NearestIn(one, 4 * Signal(8)[i] + 7 * p[1], <<7, 1>>, p[2][1], p[2][2])
               /\ r.two.mask[i] => NearestIn(two - p[1], Signal(8)[i], <<7, 4>>, -200, 200)
               /\ ~r.two.mask[i] => two \in {p[2][1], p[2][2]}
               /\ Abs(one - two) <= 1
       [] c.op = "fake_channel" ->
            LET k == Normal(p[2], Len(p[1])) + 1
            IN \A i \in 0 .. n - 1 :
                 LET ch == Coord(i, p[1])[k]
                     s == Ratios(3)[ch]
                     v == r.out[i][1] \div s[1] + 2 - ch
                 IN /\ r.out[i][2] = s[2] /\ v \in p[3][1] .. p[3][2]
                    /\ r.mask[i] <=> NearestIn(v - (2 - ch), Signal(n)[i], s, -10000, 10000)
       [] c.op \in {"dynamic", "flat", "block", "gelu", "swin"} -> ScalesFit(c, r, D, TRUE)
       [] c.op \in {"mx", "swiglu_mx"} -> ScalesFit(c, r, D, FALSE)
       [] c.op = "dual" /\ p[4] = "levels" ->
            LET rest(b) == r.mem["s2"][b]
            IN /\ \A b \in DOMAIN r.mem["s1"] : r.mem["s1"][b] \in Powers
               /\ \A b \in 0 .. (n \div D) - 1 : rest(b)[1] <= rest(b)[2] /\ 2 * rest(b)[1] >= rest(b)[2]
               /\ \A i \in 0 .. n - 1 :
                    LET s1 == r.mem["s1"][i \div D] IN NearestIn(r.q[i], Signal(n)[i], <<s1[1] * rest(i \div D)[1], s1[2] * rest(i \div D)[2]>>, -127, 127)
       [] c.op = "dual" /\ p[4] # "levels" -> ScalesFit(c, [q |-> r.q, scale |-> r.mem["s1"]], D, FALSE)
       [] c.op = "quant_scatter" -> \A row \in 0 .. 2, d \in 0 .. p[2] - 1 :
            LET from == {k \in 0 .. 2 : p[1][k] = row}
                got == r[row * p[2] + d]
            IN IF from = {} THEN got = {99}
               ELSE \A v \in got : \E k \in from : NearestIn(v, Signal(3 * p[2])[k * p[2] + d], <<3, 2>>, -127, 127)
       [] c.op = "qparam" -> \A i \in 0 .. p[1] - 1 : r[i].low = Ratios(p[1])[i] /\ (p[2] \/ r[i].high = 0)

-----------------------------------------------------------------------------
(* Contractions: the operands, the results and their definitions. *)
BlasOps == {"addmm", "addbmm", "addmv", "kron", "outer", "gemm", "grouped_add", "tensordot", "einsum"}
(* A product is a sum over triples of coordinates. *)
ProductOf(z, a(_, _), b(_, _)) ==
  [c \in 0 .. z.M * z.N - 1 |->
     FoldSet(LAMBDA k, s : s + a(c \div z.N, k) * b(k, c % z.N), 0, 0 .. z.K - 1)]
Given(has, t) == IF has THEN t ELSE <<>>
Left(n) == Cells(n, 2, 1)
Right(n) == Cells(n, 3, 0)
Addend(n) == Cells(n, 4, 1)
Flip(tr, m, n) == IF tr THEN <<n, m>> ELSE <<m, n>>
BlasAccepts(c) ==
  LET p == c.p
      F(dims) == Of("float", dims)
      z == Shape(p[2])
  IN CASE c.op = "addmm" -> IF p[1] = 1 THEN AddmmAccepts(F(<<z.M, z.K>>), F(<<z.K, z.N>>)) ELSE BaddbmmAccepts(F(<<p[1], z.M, z.K>>))
       [] c.op = "addbmm" -> AddbmmAccepts(F(<<p[1], z.M, z.K>>))
       [] c.op = "addmv" -> LET s == F(<<p[1][1], p[1][3]>>) IN MvAccepts(s) /\ AddmvAccepts(s)
       [] c.op = "kron" -> KronAccepts(F(<<p[1], p[2]>>), F(<<p[3], p[4]>>))
       [] c.op = "outer" -> OuterAccepts(F(<<p[1]>>)) /\ DotAccepts(F(<<p[1]>>))
       [] c.op = "gemm" ->
            LET s == Shape(p[1]) IN
            GemmAccepts(F(Flip(p[2], s.M, s.K)), F(Flip(p[3], s.K, s.N)), Given(p[4], F(<<s.M, s.N>>)), p[5], p[2], p[3], F(<<s.M, s.N>>))
       [] c.op = "grouped_add" -> GroupedAddAccepts(F(<<3, 2>>), F(<<Len(p[1]), 2, 2>>), Given(p[2], F(<<3, 2>>)), p[1], F(<<3, 2>>))
       [] c.op = "tensordot" -> TensordotAccepts(F(p[1]))
       [] c.op = "einsum" -> EinsumAccepts(F(DimsOf(p[1][1])))

BlasResult(c) ==
  LET p == c.p
      z == Shape(p[2])
      s == Shape(p[1])
  IN CASE c.op \in {"addmm", "addbmm"} ->
            LET n == (IF c.op = "addbmm" THEN 1 ELSE p[1]) * z.M * z.N
            IN GemmAdd(Left(p[1] * z.M * z.K), Right(p[1] * z.K * z.N), Given(p[3], Addend(n)), z, p[1], 2, p[4], c.op = "addbmm")
       [] c.op = "addmv" -> Gemv(Left(s.M * s.K), Right(s.K), Given(p[2], Addend(s.M)), s.M, s.K, 2, 3)
       [] c.op = "kron" -> Kron(Left(p[1] * p[2]), Right(p[3] * p[4]), p[1], p[2], p[3], p[4])
       [] c.op = "outer" -> [dot |-> DotProduct(Left(p[1]), Right(p[1]), p[1]), outer |-> OuterProduct(Left(p[1]), Right(p[2]), p[1], p[2])]
       [] c.op = "gemm" -> GemmTrans(Left(s.M * s.K), Right(s.K * s.N), Given(p[4], Addend(s.M * s.N)), s, p[2], p[3], 2, p[5])
       [] c.op = "grouped_add" ->
            GroupedAdd(Left(6), Right(4 * Len(p[1])), Given(p[2], Addend(6)), p[1], 2, 2, [i \in 0 .. 5 |-> 99])
       [] c.op = "tensordot" -> Tensordot(Left(Numel(p[1])), p[1], Right(Numel(p[2])), p[2], p[3])
       [] c.op = "einsum" ->
            LET da == DimsOf(p[1][1])
                db == DimsOf(p[1][2])
            IN Einsum(p[1], Left(Numel(da)), da, Right(Numel(db)), db)

(* An equation says: over every value of all labels, the product of what   *)
(* the operands hold there goes to the cell of lo's coordinates.           *)
HeldAt(labels, v) == Dot([d \in DOMAIN labels |-> v[labels[d]]], Strides(DimsOf(labels)))
EinsumIs(eq, out) ==
  LET labels == ToSet(eq[1]) \cup ToSet(eq[2])
      values == {v \in [labels -> 0 .. 3] : \A l \in labels : v[l] < LabelSizes[l]}
      a == Left(Numel(DimsOf(eq[1])))
      b == Right(Numel(DimsOf(eq[2])))
      term(v) == a[HeldAt(eq[1], v)] * b[HeldAt(eq[2], v)]
  IN /\ DOMAIN out = 0 .. Numel(DimsOf(eq[3])) - 1
     /\ \A cell \in DOMAIN out :
          out[cell] = FoldSet(LAMBDA v, acc : acc + term(v), 0, {v \in values : HeldAt(eq[3], v) = cell})
ScaledSum(want, alpha, beta, c) == [i \in DOMAIN want |-> alpha * want[i] + (IF c = <<>> THEN 0 ELSE beta * c[i])]
BlasIs(c, r) ==
  LET p == c.p
      z == Shape(p[2])
      s == Shape(p[1])
  IN CASE c.op \in {"addmm", "addbmm"} ->
            LET of(t) == ProductOf(z, LAMBDA i, k : Left(p[1] * z.M * z.K)[(t * z.M + i) * z.K + k],
                                      LAMBDA k, j : Right(p[1] * z.K * z.N)[(t * z.K + k) * z.N + j])
                mn == z.M * z.N
                want == IF c.op = "addmm" THEN [i \in 0 .. p[1] * mn - 1 |-> of(i \div mn)[i % mn]]
                        ELSE [i \in 0 .. mn - 1 |-> FoldSet(LAMBDA t, acc : acc + of(t)[i], 0, 0 .. p[1] - 1)]
            IN r = ScaledSum(want, 2, p[4], Given(p[3], Addend(Cardinality(DOMAIN want))))
       [] c.op = "addmv" ->
            r = ScaledSum(ProductOf(s, LAMBDA i, k : Left(s.M * s.K)[i * s.K + k], LAMBDA k, j : Right(s.K)[k]), 2, 3, Given(p[2], Addend(s.M)))
       [] c.op = "kron" -> \A i \in 0 .. p[1] - 1, j \in 0 .. p[2] - 1, x \in 0 .. p[3] - 1, y \in 0 .. p[4] - 1 :
            r[(i * p[3] + x) * p[2] * p[4] + j * p[4] + y] = Left(p[1] * p[2])[i * p[2] + j] * Right(p[3] * p[4])[x * p[4] + y]
       [] c.op = "outer" ->
            /\ r.dot[1] = FoldSet(LAMBDA i, acc : acc + Left(p[1])[i] * Right(p[1])[i], 0, 0 .. p[1] - 1)
            /\ \A i \in 0 .. p[1] - 1, j \in 0 .. p[2] - 1 : r.outer[i * p[2] + j] = Left(p[1])[i] * Right(p[2])[j]
       [] c.op = "gemm" ->
            r = ScaledSum(ProductOf(s, LAMBDA i, k : Left(s.M * s.K)[IF p[2] THEN k * s.M + i ELSE i * s.K + k],
                                       LAMBDA k, j : Right(s.K * s.N)[IF p[3] THEN j * s.K + k ELSE k * s.N + j]),
                          2, p[5], Given(p[4], Addend(s.M * s.N)))
       [] c.op = "grouped_add" ->
            LET of(row) == CHOOSE e \in DOMAIN p[1] : Total(SubSeq(p[1], 1, e - 1)) <= row /\ row < Total(SubSeq(p[1], 1, e))
            IN r = [i \in 0 .. 5 |->
                      FoldSet(LAMBDA k, acc : acc + Left(6)[(i \div 2) * 2 + k] * Right(4 * Len(p[1]))[(of(i \div 2) - 1) * 4 + k * 2 + (i % 2)],
                              IF p[2] THEN Addend(6)[i] ELSE 0, 0 .. 1)]
       [] c.op = "tensordot" ->
            LET C == Numel(SubSeq(p[2], 1, p[3]))
                shape == [M |-> Numel(p[1]) \div C, N |-> Numel(p[2]) \div C, K |-> C]
            IN r = ProductOf(shape, LAMBDA i, k : Left(Numel(p[1]))[i * C + k], LAMBDA k, j : Right(Numel(p[2]))[k * shape.N + j])
       [] c.op = "einsum" -> EinsumIs(p[1], r)

-----------------------------------------------------------------------------
(* What the tensors of a call hold. *)
Packed(type) == type \in {"e2m1", "e1m2"}
AOf(type, z) == IF SubFp(type) THEN Bytes(z.M * z.K, 7, 1) ELSE Cells(z.M * z.K, 2, 1)
BOf(type, z) == IF SubFp(type) THEN Bytes(z.K * z.N, 11, 3) ELSE Cells(z.K * z.N, 3, 0)
SaOf(z) == Exponents(z.M * (z.K \div MxBlk), 1)
SbOf(z) == Exponents((z.K \div MxBlk) * z.N, 2)
ScaleOf(n) == [i \in 0 .. n - 1 |-> i + 2]
OffOf(n, has) == IF has THEN [i \in 0 .. n - 1 |-> 1 - i] ELSE <<>>
BiasOf(z, b) == IF b = 0 THEN <<>> ELSE Cells(IF b = 1 THEN z.N ELSE z.M * z.N, 4, 1)
BiasDims(z, b) == IF b = 1 THEN <<z.N>> ELSE <<z.M, z.N>>
WeightOf(e, K, N) == Cells(K * N, 2, e)

MatrixOps == {"swizzle", "scales", "bmm_quant", "swiglu_quant", "gather"}     \* with nothing to check
MatrixAccepts(c) ==
  LET p == c.p
      z == Shape(p[1])
      MatA(t) == Of(t, <<z.M, z.K>>)
      MatB(t) == Of(t, <<z.K, z.N>>)
      MatC(t) == Of(t, <<z.M, z.N>>)
      Dims(t, d) == Of(t, d)
  IN CASE c.op = "matmul" -> MatmulAccepts(MatA(p[2]), MatB(p[2]), MatC(p[3]))
       [] c.op \in {"mxfp8", "mxfp4"} ->
            LET t == IF c.op = "mxfp8" THEN "e4m3" ELSE "e2m1"
                sA == Dims("e8m0", <<z.M, z.K \div MxBlk>>)
                sB == Dims("e8m0", <<z.K \div MxBlk, z.N>>)
                accepts == CASE c.op = "mxfp8" /\ p[2] -> MxFp8HwAccepts(MatA(t), sA, MatB(t), sB, MatC("float"))
                             [] c.op = "mxfp8" /\ ~p[2] -> MxFp8Accepts(MatA(t), sA, MatB(t), sB, MatC("float"))
                             [] c.op = "mxfp4" /\ p[2] -> MxFp4HwAccepts(MatA(t), sA, MatB(t), sB, MatC("float"))
                             [] c.op = "mxfp4" /\ ~p[2] -> MxFp4Accepts(MatA(t), sA, MatB(t), sB, MatC("float"))
            IN accepts
       [] c.op = "weight_quant" ->
            WqAccepts(MatA("half"), MatB(p[2]), Dims("half", <<z.N>>), IF p[3] THEN Dims("half", <<z.N>>) ELSE <<>>, MatC("half"))
       [] c.op \in {"quant", "inplace_add"} -> QuantAccepts(MatA("int8"), MatB("int8"), Dims("half", <<z.N>>), MatC(p[2]))
       [] c.op = "weight_list" ->
            WeightListAccepts(Dims("float", <<3, p[2]>>), [e \in DOMAIN p[1] |-> Dims("float", <<p[2], p[3]>>)], p[1],
                              Dims("float", <<3, p[3]>>))
       [] c.op = "bias" ->
            BiasAccepts(Dims("half", IF p[2] THEN <<z.K, z.M>> ELSE <<z.M, z.K>>), Dims("half", IF p[3] THEN <<z.N, z.K>> ELSE <<z.K, z.N>>),
                        IF p[5] = 0 THEN <<>> ELSE Dims("half", BiasDims(z, p[5])), p[2], p[3], p[4], MatC("half"))
       [] c.op = "transpose_batch" ->
            LET n == p[2][Len(p[2]) - 1]
            IN TransposeBatchAccepts(Dims("float", p[1]), Dims("float", p[2]),
                                     Dims("float", SubSeq(p[1], 1, Len(p[1]) - 1) \o <<n>>))
       [] c.op = "batch" ->
            LET s == Shape(p[2])
            IN BatchAccepts(Dims("bf16", <<p[1], s.M, s.K>>), Dims("bf16", <<p[1], s.K, s.N>>), Dims("bf16", <<p[1], s.M, s.N>>))
       [] c.op \in MatrixOps -> TRUE
       [] c.op \in BlasOps -> BlasAccepts(c)
       [] OTHER -> CodecAccepts(c)

MatrixResult(c) ==
  LET p == c.p
      z == Shape(p[1])
  IN CASE c.op = "matmul" ->
            [ws |-> MatmulWs(p[2], z), buffers |-> MatmulBuffers(p[2], z),
             out |-> Matmul(p[2], AOf(p[2], z), BOf(p[2], z), z, p[4], CodeValue)]
       [] c.op = "mxfp8" ->
            [ws |-> MxFp8HwWs(z, p[2]), buffers |-> MxFp8HwBuffers(z, p[2]),
             out |-> MxFp8Hw(AOf("e4m3", z), SaOf(z), BOf("e4m3", z), SbOf(z), z, p[2])]
       [] c.op = "mxfp4" ->
            [ws |-> MxFp4HwWs(z, p[2]), buffers |-> MxFp4HwBuffers(z, p[2], p[3]),
             out |-> MxFp4Hw(AOf("e2m1", z), SaOf(z), BOf("e2m1", z), SbOf(z), z, p[2], p[3], p[4], E2m1Value)]
       [] c.op = "swizzle" -> <<SwizzleScale([i \in 0 .. p[1] * p[2] - 1 |-> i], p[1], p[2], p[3])>>
       [] c.op = "scales" ->
            [A |-> E8m0ToE4m3A([i \in 0 .. 9 * p[1] - 1 |-> 115 + ((i * 7) % 25)], 9, p[1]),
             B |-> E8m0ToE4m3B([i \in 0 .. 9 * p[1] - 1 |-> 115 + ((i * 7) % 25)], p[1], 9)]
       [] c.op = "weight_quant" ->
            [ws |-> WqWs(z, p[4]), buffers |-> WqBuffers(z, p[4]),
             out |-> WeightQuant(p[2], Cells(z.M * z.K, 2, 1), IF p[2] = "int8" THEN Int8s(z.K * z.N, 5) ELSE Bytes(z.K * z.N, 37, 9),
                                 ScaleOf(z.N), OffOf(z.N, p[3]), z, p[4])]
       [] c.op = "quant" ->
            [ws |-> QuantWs(z), buffers |-> QuantBuffers(z),
             out |-> QuantMatmul(Int8s(z.M * z.K, 3), Int8s(z.K * z.N, 5), ScaleOf(z.N), z, p[3])]
       [] c.op = "inplace_add" ->
            QuantInplaceAdd(Cells(z.M * z.N, 1, 1), p[2], Int8s(z.M * z.K, 3), Int8s(z.K * z.N, 5), ScaleOf(z.N), z, p[3])
       [] c.op = "weight_list" ->
            WeightList(Cells(3 * p[2], 2, 1), [e \in DOMAIN p[1] |-> WeightOf(e, p[2], p[3])], p[1], p[2], p[3],
                       [i \in 0 .. 3 * p[3] - 1 |-> 99])
       [] c.op = "batch" ->
            LET s == Shape(p[2])
            IN BatchMatMul(Cells(p[1] * s.M * s.K, 2, 1), Cells(p[1] * s.K * s.N, 3, 0), s, p[1])
       [] c.op = "bias" ->
            [ws |-> BiasWs("half", z, p[2], p[3]), buffers |-> {BiasBuffers("half", z, p[2], p[3])},
             out |-> MatmulBias(Cells(z.M * z.K, 2, 1), Cells(z.K * z.N, 3, 0), BiasOf(z, p[5]), p[5] = 2, p[2], p[3], p[4], z)]
       [] c.op = "transpose_batch" ->
            TransposeBatch(Cells(Numel(p[1]), 2, 1), Cells(Numel(p[2]), 3, 0), p[1], p[2], CodeValue)
       [] c.op = "bmm_quant" ->
            LET s == Shape(p[2])
            IN BmmQuant(Int8s(p[1] * s.M * s.K, 3), Int8s(p[1] * s.K * s.N, 5), IF p[3] THEN ScaleOf(s.N) ELSE <<>>, s, p[1])
       [] c.op = "swiglu_quant" -> SwigluQ(Cells(2 * p[1] * p[2], 3, 1), p[1], p[2], 4, p[3])
       [] c.op = "gather" ->
            [r \in 1 .. p[1] |-> AgmRun([q \in 1 .. p[1] |-> Cells(2 * p[2], 2, q)], r, TRUE, Cells(p[2] * 2, 3, 0),
                                        [M |-> 2 * p[1], N |-> 2, K |-> p[2]])]
       [] c.op \in BlasOps -> BlasResult(c)
       [] OTHER -> CodecResult(c)

-----------------------------------------------------------------------------
(* Definitions. *)
(* Every path leaves the library its workspace after the buffers it keeps. *)
Sized(r) == \A path \in r.buffers : Total(path) + LtWs <= r.ws
CodeAt(t, x, i) == IF SubFp(t) THEN Codes(Packing(t), x, i) ELSE x[i]
Nearest(q, v, amax) == 2 * Abs(q * amax - 127 * v) <= amax

MatrixIs(c, r) ==
  LET p == c.p
      z == Shape(p[1])
  IN CASE c.op = "matmul" ->
            /\ Sized(r)
            /\ r.out = ProductOf(z, LAMBDA i, k : CodeAt(p[2], AOf(p[2], z), i * z.K + k),
                                    LAMBDA k, j : CodeAt(p[2], BOf(p[2], z), k * z.N + j))
       [] c.op = "mxfp8" ->
            /\ Sized(r)
            /\ r.out = ProductOf(z, LAMBDA i, k : AOf("e4m3", z)[i * z.K + k] * Scaled(1, SaOf(z)[i * (z.K \div 32) + k \div 32]),
                                    LAMBDA k, j : BOf("e4m3", z)[k * z.N + j] * Scaled(1, SbOf(z)[(k \div 32) * z.N + j]))
       [] c.op = "mxfp4" ->
            /\ Sized(r)
            /\ r.out = ProductOf(z, LAMBDA i, k : E2m1Value[Nibble(AOf("e2m1", z), i * z.K + k)] * Scaled(1, SaOf(z)[i * (z.K \div 32) + k \div 32]),
                                    LAMBDA k, j : E2m1Value[Nibble(BOf("e2m1", z), k * z.N + j)] * Scaled(1, SbOf(z)[(k \div 32) * z.N + j]))
       [] c.op = "swizzle" ->
            /\ Cardinality(r[1]) = p[1] * p[2] /\ Cardinality({w[1] : w \in r[1]}) = p[1] * p[2]
            /\ \A w \in r[1] : /\ w[1] \in 0 .. SwizzleBytes(p[1], p[2]) - 1
                            /\ w[2] = IF p[3] THEN TileBlock(w[1], p[2]) * p[1] + TileRow(w[1], p[2])
                                      ELSE TileRow(w[1], p[2]) * p[2] + TileBlock(w[1], p[2])
       [] c.op = "scales" ->
            LET is(byte, e8) == /\ byte % 8 = 0 /\ byte \in 8 .. 127
                                /\ byte \div 8 - 7 = IF e8 < 121 THEN -6 ELSE IF e8 > 135 THEN 8 ELSE e8 - 127
            IN \A row \in 0 .. 8, b \in 0 .. p[1] - 1, h \in 0 .. 1 :
                 /\ is(r.A[row * 2 * p[1] + 2 * b + h], 115 + (((row * p[1] + b) * 7) % 25))
                 /\ is(r.B[(2 * b + h) * 9 + row], 115 + (((b * 9 + row) * 7) % 25))
       [] c.op = "weight_quant" ->
            /\ \A path \in r.buffers : Total(path) + LtWs <= r.ws
            /\ r.out = ProductOf(z, LAMBDA i, k : Cells(z.M * z.K, 2, 1)[i * z.K + k],
                   LAMBDA k, j :
                     LET v == IF p[2] = "int8" THEN Int8s(z.K * z.N, 5)[k * z.N + j] ELSE Nibble(Bytes(z.K * z.N, 37, 9), k * z.N + j)
                     IN ((IF p[2] = "int4" /\ v > 7 THEN v - 16 ELSE v) - IF p[3] THEN 1 - j ELSE 0) * (j + 2))
       [] c.op \in {"quant", "inplace_add"} ->
            LET want == ProductOf(z, LAMBDA i, k : Int8s(z.M * z.K, 3)[i * z.K + k], LAMBDA k, j : Int8s(z.K * z.N, 5)[k * z.N + j] * (j + 2))
                old == Cells(z.M * z.N, 1, 1)
            IN IF c.op = "quant" THEN Sized(r) /\ r.out = want
               ELSE r = [i \in DOMAIN old |-> old[i] + want[i]]
       [] c.op = "weight_list" ->
            LET group(i) == CHOOSE e \in DOMAIN p[1] : /\ Total(SubSeq(p[1], 1, e - 1)) <= i /\ i < Total(SubSeq(p[1], 1, e))
            IN r = [cell \in 0 .. 3 * p[3] - 1 |->
                      FoldSet(LAMBDA k, s : s + Cells(3 * p[2], 2, 1)[(cell \div p[3]) * p[2] + k]
                                                * WeightOf(group(cell \div p[3]), p[2], p[3])[k * p[3] + (cell % p[3])],
                              0, 0 .. p[2] - 1)]
       [] c.op = "batch" ->
            LET s == Shape(p[2])
            IN \A t \in 0 .. p[1] - 1 :
                 [i \in 0 .. s.M * s.N - 1 |-> r[t * s.M * s.N + i]]
                 = ProductOf(s, LAMBDA i, k : Cells(p[1] * s.M * s.K, 2, 1)[(t * s.M + i) * s.K + k],
                                LAMBDA k, j : Cells(p[1] * s.K * s.N, 3, 0)[(t * s.K + k) * s.N + j])
       [] c.op = "bias" ->
            LET a(i, k) == Cells(z.M * z.K, 2, 1)[IF p[2] THEN k * z.M + i ELSE i * z.K + k]
                b(k, j) == Cells(z.K * z.N, 3, 0)[IF p[3] THEN j * z.K + k ELSE k * z.N + j]
                biased == [cell \in 0 .. z.M * z.N - 1 |->
                             ProductOf(z, a, b)[cell] + (IF p[5] = 0 THEN 0 ELSE BiasOf(z, p[5])[IF p[5] = 1 THEN cell % z.N ELSE cell])]
            IN /\ Sized(r) /\ p[4] <= 2
               /\ r.out = [cell \in DOMAIN biased |-> <<p[4] = 2, IF p[4] = 1 /\ biased[cell] < 0 THEN 0 ELSE biased[cell]>>]
       [] c.op = "transpose_batch" ->
            LET da == p[1]
                m == da[Len(da) - 1]
                k == Last(da)
                n == p[2][Len(p[2]) - 1]
            IN /\ Len(da) = Len(p[2])
               /\ r = [cell \in 0 .. (Numel(da) \div k) * n - 1 |->
                         FoldSet(LAMBDA x, s : s + Cells(Numel(da), 2, 1)[(cell \div n) * k + x]
                                                   * Cells(Numel(p[2]), 3, 0)[((cell \div (m * n)) * n + (cell % n)) * k + x], 0, 0 .. k - 1)]
       [] c.op = "bmm_quant" ->
            LET s == Shape(p[2])
            IN \A t \in 0 .. p[1] - 1 :
                 [i \in 0 .. s.M * s.N - 1 |-> r[t * s.M * s.N + i]]
                 = ProductOf(s, LAMBDA i, k : Int8s(p[1] * s.M * s.K, 3)[(t * s.M + i) * s.K + k],
                                LAMBDA k, j : Int8s(p[1] * s.K * s.N, 5)[(t * s.K + k) * s.N + j] * (IF p[3] THEN j + 2 ELSE 1))
       [] c.op = "swiglu_quant" ->
            \A m \in 0 .. p[1] - 1 :
              LET x == Cells(2 * p[1] * p[2], 3, 1)
                  v(d) == Gate(x[m * 2 * p[2] + d]) * x[(2 * m + 1) * p[2] + d]
              IN /\ \A d \in 0 .. p[2] - 1 : Abs(v(d)) <= r[m].scale /\ r[m].q[d] \in -127 .. 127
                 /\ r[m].scale > 0 => /\ \E d \in 0 .. p[2] - 1 : Abs(v(d)) = r[m].scale /\ Abs(r[m].q[d]) = 127
                                      /\ \A d \in 0 .. p[2] - 1 : Nearest(r[m].q[d], v(d), r[m].scale)
       [] c.op = "gather" ->
            \A q \in 1 .. p[1] :
              r[q] = ProductOf([M |-> 2 * p[1], N |-> 2, K |-> p[2]],
                               LAMBDA i, k : Cells(2 * p[2], 2, (i \div 2) + 1)[(i % 2) * p[2] + k],
                               LAMBDA k, j : Cells(p[2] * 2, 3, 0)[k * 2 + j])
       [] c.op \in BlasOps -> BlasIs(c, r)
       [] OTHER -> CodecIs(c, r)

(* The calls whose result is another.  "Ties round away from zero (take    *)
(* the larger code)", says hif8.cuh:6 and takes the larger code (:33);     *)
(* between two binades below one that is the smaller value.  scaleOut is   *)
(* the "standard per-block MX" scale for quant.cu:613, and what the test   *)
(* multiplies by (test_quant_parity.cpp:253), but the values are divided   *)
(* by two scales, the finer of which is stored over the coarser where      *)
(* there is no scaleOut2 (:614).  Of "out += dequant(grouped quant         *)
(* matmul)" (matmul.cu:1401) an output that is not float gets nothing      *)
(* (:1411).                                                                *)
MatrixDeparts(c) ==
  LET p == c.p
  IN \/ c.op = "hif8" /\ p[1] = "mid" /\ NextCode(p[2]) < p[2]
     \/ c.op = "dual" /\ p[4] # "levels"
     \/ c.op = "inplace_add" /\ p[2] # "float"
=============================================================================
