--------------------------- MODULE ElementKernels ---------------------------
(***************************************************************************)
(* Element by element operators: cuda/src/ops/elementwise.cu and the       *)
(* families built on it.  A value is a fraction <<num, den>>; an integer   *)
(* type has IntBits bits instead of 32.  The functions of CUDA's           *)
(* mathematics library are not modelled, the paths that call them are.     *)
(***************************************************************************)
EXTENDS NormKernels

IntBits == 8
Wrap(v) == ((v + 2 ^ (IntBits - 1)) % (2 ^ IntBits)) - 2 ^ (IntBits - 1)
Rat(n) == <<n, 1>>
Low(q) == IF q[2] < 0 THEN <<-q[1], -q[2]>> ELSE q
Plus(q, r) == <<q[1] * r[2] + r[1] * q[2], q[2] * r[2]>>
Times(q, r) == <<q[1] * r[1], q[2] * r[2]>>
Minus(q, r) == Plus(q, Times(Rat(-1), r))
Less(q, r) == q[1] * r[2] < r[1] * q[2]
Zero == Rat(0)
Over_(q, r) == Low(<<q[1] * r[2], q[2] * r[1]>>)      \* r # 0
FloorOf(q) == Rat(q[1] \div q[2])
TruncOf(q) == Rat(Quotient(q[1], q[2]))
Larger(q, r) == IF Less(r, q) THEN q ELSE r
Smaller(q, r) == IF Less(q, r) THEN q ELSE r
Within(q, lo, hi) == IF Less(q, lo) THEN lo ELSE IF Less(hi, q) THEN hi ELSE q

(* The functors.  "int" operands are in the accumulator's 64 bits, so a    *)
(* division truncates before anything else is done to it.                  *)
Divided(a, b, type) == IF type = "int" THEN TruncOf(Over_(a, b)) ELSE Over_(a, b)
Fmod(a, b) == Minus(a, Times(b, TruncOf(Over_(a, b))))
Arithmetic(op, a, b, al, type) ==
  CASE op = "add" -> Plus(a, Times(al, b))
    [] op = "sub" -> Minus(a, Times(al, b))
    [] op = "mul" -> Times(a, b)
    [] op = "div" -> Divided(a, b, type)
    [] op = "maximum" -> Larger(a, b)
    [] op = "minimum" -> Smaller(a, b)
Shrunk(op, a, b) ==
  LET beyond == Less(b, a)
      below == Less(a, Times(Rat(-1), b))
  IN CASE op \in {"prelu", "leaky_relu"} -> IF Less(Zero, a) THEN a ELSE Times(b, a)
       [] op = "hardshrink" -> IF beyond \/ below THEN a ELSE Zero
       [] op = "softshrink" -> IF beyond THEN Minus(a, b) ELSE IF below THEN Plus(a, b) ELSE Zero
Binary(op, a, b, al, type) ==
  CASE op \in {"add", "sub", "mul", "div", "maximum", "minimum"} -> Arithmetic(op, a, b, al, type)
    [] op \in {"prelu", "leaky_relu", "hardshrink", "softshrink"} -> Shrunk(op, a, b)
    [] op = "rsub" -> Minus(b, Times(al, a))
    [] op = "fmod" -> Fmod(a, b)
    [] op = "remainder" -> LET r == Fmod(a, b) IN IF r[1] # 0 /\ (Less(r, Zero) # Less(b, Zero)) THEN Plus(r, b) ELSE r
    [] op = "floor_div" -> FloorOf(Divided(a, b, type))
    [] op = "heaviside" -> IF Less(a, Zero) THEN Zero ELSE IF Less(Zero, a) THEN Rat(1) ELSE b
    [] op = "lerp" -> Plus(a, Times(al, Minus(b, a)))
    [] op = "round_dec" -> LET m == 10 ^ b[1] IN <<Rint(m * a[1], a[2]), m>>
Clipped(op, a) ==
  LET six == Within(Plus(a, Rat(3)), Zero, Rat(6)) IN
  CASE op = "squared_relu" -> Times(Larger(a, Zero), Larger(a, Zero))
    [] op = "relu6" -> Within(a, Zero, Rat(6))
    [] op = "hardsigmoid" -> Times(six, <<1, 6>>)
    [] op = "hardswish" -> Times(Times(a, six), <<1, 6>>)
Unary(op, a) ==
  CASE op = "abs" -> IF Less(a, Zero) THEN <<-a[1], a[2]>> ELSE a
    [] op = "neg" -> <<-a[1], a[2]>>
    [] op = "relu" -> Larger(a, Zero)
    [] op = "reciprocal" -> Over_(Rat(1), a)
    [] op = "sign" -> Rat((IF Less(Zero, a) THEN 1 ELSE 0) - (IF Less(a, Zero) THEN 1 ELSE 0))
    [] op = "floor" -> FloorOf(a)
    [] op = "ceil" -> Rat(-((-a[1]) \div a[2]))
    [] op = "round" -> Rat(Rint(a[1], a[2]))
    [] op = "trunc" -> TruncOf(a)
    [] op = "frac" -> Minus(a, TruncOf(a))
    [] op = "square" -> Times(a, a)
    [] OTHER -> Clipped(op, a)
Ternary(op, a, b, c, s) ==
  CASE op = "addcmul" -> Plus(a, Times(s, Times(b, c)))
    [] op = "addcdiv" -> Plus(a, Times(s, Over_(b, c)))
    [] op = "clamp" -> Within(a, b, c)
    [] op = "threshold" -> IF Less(b, a) THEN a ELSE c
Stored(q, type) == IF type = "int" THEN Rat(Wrap(q[1])) ELSE q

-----------------------------------------------------------------------------
(* Addressing.  Two shapes broadcast from their last dims: 1 stretches.    *)
Aligned(t, r, i, one) == LET k == i - (r - Len(t)) IN IF k >= 1 THEN t[k] ELSE one
BcastRank(x, y) == IF Len(x) > Len(y) THEN Len(x) ELSE Len(y)
Broadcasts(x, y) ==
  LET r == BcastRank(x, y)
  IN r <= 8 /\ \A i \in 1 .. r : LET dx == Aligned(x, r, i, 1)
                                     dy == Aligned(y, r, i, 1)
                                 IN dx = dy \/ dx = 1 \/ dy = 1
BcastDims(x, y) ==
  LET r == BcastRank(x, y)
  IN [i \in 1 .. r |-> LET dx == Aligned(x, r, i, 1)
                           dy == Aligned(y, r, i, 1)
                       IN IF dx > dy THEN dx ELSE dy]

(* Mutant: a stretched dim keeps its stride. *)
MutantFillG(t, out) ==
  LET r == Len(out) IN [i \in 1 .. r |-> Aligned(t.strides, r, i, 0)]

(* fill_g, bstrides: a dim that differs from the output's has stride 0. *)
FillG(t, out) ==
  LET r == Len(out)
  IN [i \in 1 .. r |-> IF Aligned(t.dims, r, i, 0) = out[i] THEN Aligned(t.strides, r, i, 0) ELSE 0]
GeneralIndex(t, out, i) == t.offset + Dot(Coord(i, out), FillG(t, out))

(* The fast path reads element i of the buffer, 16 bytes at a time when    *)
(* they divide the count: thread v loads elements v * VEC to v * VEC + VEC - 1. *)
FastIndex(n, VEC, i) ==
  IF VEC > 1 /\ n % VEC = 0 THEN (i \div VEC) * VEC + (i % VEC) ELSE i

BothContiguous(a, b) == a.dims = b.dims /\ Contiguous(a) /\ Contiguous(b)
BinIndex(a, b, out, VEC, mixed) ==
  [i \in 0 .. Numel(out) - 1 |->
     IF BothContiguous(a, b) /\ ~mixed
     THEN <<FastIndex(Numel(out), VEC, i), FastIndex(Numel(out), VEC, i)>>
     ELSE <<GeneralIndex(a, out, i), GeneralIndex(b, out, i)>>]
UnIndex(a, VEC) ==
  [i \in 0 .. Numel(a.dims) - 1 |->
     IF Contiguous(a) THEN FastIndex(Numel(a.dims), VEC, i) ELSE a.offset + Dot(Coord(i, a.dims), a.strides)]
WhereIndex(c, a, b, out) ==
  [i \in 0 .. Numel(out) - 1 |->
     IF c.dims = out /\ a.dims = out /\ b.dims = out /\ Contiguous(c) /\ Contiguous(a) /\ Contiguous(b) THEN <<i, i, i>>
     ELSE <<GeneralIndex(c, out, i), GeneralIndex(a, out, i), GeneralIndex(b, out, i)>>]

(* make_exec: what the first phase accepts.  Only the unary functions of   *)
(* the first group take strided inputs.                                    *)
Strided == {"abs", "neg", "relu", "reciprocal", "sign", "floor", "ceil", "round", "trunc", "frac", "square"}
Ints == {"int32", "int16", "uint8", "bool"}
Wide == {"float", "half", "bf16", "int32", "fp8"}
Nibbles == {"fp4", "fp6"}
BinAccepts(a, b, out) ==
  /\ Contiguous(out) /\ Broadcasts(a.dims, b.dims) /\ BcastDims(a.dims, b.dims) = out.dims
  /\ IF a.type # b.type THEN out.type = "float" ELSE out.type = a.type
UnAccepts(op, a, out) ==
  /\ a.dims = out.dims /\ Contiguous(out)
  /\ IF op \in Strided THEN a.type = out.type /\ Len(a.dims) <= 8 ELSE Contiguous(a)
TernAccepts(a, b, c, out) == \A t \in {b, c, out} : t.dims = a.dims /\ Contiguous(t) /\ Contiguous(a)
WhereAccepts(c, a, b, out) ==
  /\ c.type \in {"bool", "uint8"} /\ a.type = b.type /\ a.type = out.type /\ Contiguous(out)
  /\ Broadcasts(a.dims, b.dims) /\ Broadcasts(BcastDims(a.dims, b.dims), c.dims)
  /\ BcastDims(BcastDims(a.dims, b.dims), c.dims) = out.dims
BitAccepts(a, b, out) == BinAccepts(a, b, out) /\ a.type = b.type

(* The types the second phase has a kernel for: an accepted call of        *)
(* another type fails there, and its executor is deleted all the same.     *)
Launches(kind, ta, tb) ==
  CASE kind = "binary" -> IF ta = tb THEN ta \in Wide ELSE {ta, tb} \subseteq Wide \ {"fp8"}
    [] kind = "unary" -> ta \in Wide \ {"int32"}
    [] kind = "scalar" -> ta \in Wide \ {"fp8"}
    [] kind \in {"scalar2", "scalar3", "ternary"} -> ta \in {"float", "half", "bf16"}
    [] kind = "bit" -> ta \in Ints
    [] kind = "not" -> ta \in {"int16", "int32"}
    [] kind = "where" -> ta \in {"float", "half", "int32"}

Buffered(f, type) == IF type \in Ints THEN [i \in DOMAIN f |-> FloorOf(f[i])] ELSE f
Kind(type) == IF type \in Ints THEN "int" ELSE "float"
RunBinary(op, x, y, a, b, out, al, VEC) ==
  LET at == BinIndex(a, b, out.dims, VEC, a.type # b.type)
      k == IF a.type = b.type THEN Kind(a.type) ELSE "float"
  IN [i \in DOMAIN at |-> Stored(Binary(op, x[at[i][1]], y[at[i][2]], al, k), k)]
RunUnary(op, x, a, VEC) == LET at == UnIndex(a, VEC) IN [i \in DOMAIN at |-> Unary(op, x[at[i]])]
(* A scalar is the second operand, alpha is 1. *)
RunScalar(op, x, n, s, type) == [i \in 0 .. n - 1 |-> Stored(Binary(op, x[i], s, Rat(1), Kind(type)), Kind(type))]
RunTernary(op, x, y, z, n, s) == [i \in 0 .. n - 1 |-> Ternary(op, x[i], y[i], z[i], s)]
RunWhere(m, x, y, c, a, b, out) ==
  LET at == WhereIndex(c, a, b, out) IN [i \in DOMAIN at |-> IF m[at[i][1]] # 0 THEN x[at[i][2]] ELSE y[at[i][3]]]

(* Bits of the operands in IntBits: and, or, xor; not of a signed value. *)
BitOf(v, k) == (v \div 2 ^ k) % 2
BitOp(op, a, b) ==
  Total([k \in 1 .. IntBits |->
     LET p == BitOf(a, k - 1)
         q == BitOf(b, k - 1)
     IN 2 ^ (k - 1) * (CASE op = "and" -> p * q [] op = "or" -> p + q - p * q [] op = "xor" -> (p + q) % 2)])
RunBit(op, x, y, a, b, out) ==
  LET at == BinIndex(a, b, out, 1, FALSE) IN [i \in DOMAIN at |-> Wrap(BitOp(op, x[at[i][1]], y[at[i][2]]))]
RunNot(x, n) == [i \in 0 .. n - 1 |-> -x[i] - 1]

(* Sub-byte floats: unpacked to a scratch of floats, computed, packed.     *)
(* The codes stand for their values; fp4 keeps two in a byte.              *)
Unpack(bytes, n, fp4) ==
  [i \in 0 .. n - 1 |-> IF fp4 THEN (IF i % 2 = 1 THEN bytes[i \div 2] \div 16 ELSE bytes[i \div 2] % 16) ELSE bytes[i] % 64]
Pack(codes, n, fp4) ==
  IF fp4 THEN [j \in 0 .. ((n + 1) \div 2) - 1 |-> codes[2 * j] + 16 * (IF 2 * j + 1 < n THEN codes[2 * j + 1] ELSE 0)]
  ELSE codes
SubfpWorkspace(a, b, out) == 4 * (Numel(a) + Numel(b) + Numel(out))
SubfpScratch(a, b) == [fa |-> 0, fb |-> Numel(a), fo |-> Numel(a) + Numel(b)]
RunSubfp(op, bytesA, bytesB, a, b, out, fp4, decode, encode) ==
  LET fa == Each(Unpack(bytesA, Numel(a), fp4), LAMBDA c : decode[c])
      fb == Each(Unpack(bytesB, Numel(b), fp4), LAMBDA c : decode[c])
      at == BinIndex(Dense(a), Dense(b), out, 1, a # out \/ b # out)
      fo == [i \in DOMAIN at |-> Binary(op, Rat(fa[at[i][1]]), Rat(fb[at[i][2]]), Rat(1), "float")[1]]
  IN Pack(Each(fo, LAMBDA v : encode[v]), Numel(out), fp4)

-----------------------------------------------------------------------------
(* Lists of tensors (foreach_ext.cu).  The lists of a call are flattened,  *)
(* group after group: inputs, then outputs.  A tensor carries its buffer.  *)
FeBuild(op, variant, lists, ds) ==
  [ok |-> Len(lists[1]) > 0 /\ \A l \in Range(lists) : Len(l) = Len(lists[1]),
   op |-> op, variant |-> variant, N |-> Len(lists[1]), inputs |-> FlattenSeq(lists), ds |-> ds]
FeAt(e, g, i) == e.inputs[g * e.N + i + 1]

FeScalar(e, i) ==
  CASE e.variant \in {"scalar", "lerp_scalar"} -> e.ds[1]
    [] e.variant = "scalarlist" -> e.ds[i + 1]
    [] e.variant = "list" -> IF e.ds = <<>> THEN Rat(1) ELSE e.ds[1]
    [] e.variant = "addc" -> IF Len(e.ds) = 1 THEN e.ds[1] ELSE e.ds[i + 1]
    [] OTHER -> Zero

(* One launch for the whole list, if every tensor is dense and of one type. *)
FeFused(e, fuse) ==
  /\ fuse /\ e.variant \notin {"norm", "nonfinite"} /\ e.N <= 65535
  /\ e.inputs[1].type \in {"float", "half", "bf16"}
  /\ \A t \in Range(e.inputs) : t.type = e.inputs[1].type /\ Contiguous(t)

FeValue(e, i, sc, v) ==
  CASE e.variant = "unary" -> Unary(e.op, v[1])
    [] e.variant \in {"scalar", "scalarlist"} -> Binary(e.op, v[1], sc, Rat(1), "float")
    [] e.variant = "list" -> Binary(e.op, v[1], v[2], sc, "float")
    [] e.variant = "addc" -> Ternary(e.op, v[1], v[2], v[3], sc)
    [] e.variant = "lerp_scalar" -> Binary("lerp", v[1], v[2], sc, "float")
    [] e.variant = "lerp_list" -> Binary("lerp", v[1], v[2], v[3], "float")
    [] e.variant = "copy" -> v[1]
    [] e.variant = "zero" -> Zero
FeIns == [unary |-> 1, scalar |-> 1, scalarlist |-> 1, list |-> 2, addc |-> 3, lerp_scalar |-> 2, lerp_list |-> 3,
          copy |-> 1, zero |-> 1]
FusedTensor(e, i) ==
  [k \in 0 .. Numel(FeAt(e, 0, i).dims) - 1 |->
     FeValue(e, i, FeScalar(e, i), [g \in 1 .. FeIns[e.variant] |-> LET t == FeAt(e, g - 1, i) IN t.data[t.offset + k]])]

(* One element-wise call per tensor instead; the list kernels of this file *)
(* read their buffers from the start.                                      *)
LoopTensor(e, i) ==
  LET x == FeAt(e, 0, i)
      y == FeAt(e, 1, i)
      sc == FeScalar(e, i)
      n == Numel(x.dims)
  IN CASE e.variant = "unary" -> RunUnary(e.op, x.data, x, 1)
       [] e.variant \in {"scalar", "scalarlist"} -> RunScalar(e.op, x.data, n, sc, x.type)
       [] e.variant \in {"list", "lerp_scalar"} ->
            RunBinary(IF e.variant = "list" THEN e.op ELSE "lerp", x.data, y.data, x, y, FeAt(e, 2, i), sc, 1)
       [] e.variant = "addc" -> RunTernary(e.op, x.data, y.data, FeAt(e, 2, i).data, n, sc)
       [] OTHER -> [k \in 0 .. n - 1 |-> FeValue(e, i, sc, [g \in 1 .. FeIns[e.variant] |-> FeAt(e, g - 1, i).data[k]])]
Foreach(e, fuse) ==
  [i \in 0 .. e.N - 1 |-> IF FeFused(e, fuse) THEN FusedTensor(e, i) ELSE LoopTensor(e, i)]

(* k_norm: powers of a tensor over a block, before the root; k_nonfinite   *)
(* scales in place and raises the flag, which it never lowers.             *)
ForeachNorm(e, TB, power) == [i \in 0 .. e.N - 1 |-> TreeSum(Each(FeAt(e, 0, i).data, LAMBDA q : Abs(q[1]) ^ power), TB)]
Finite(q) == q[2] # 0
NonFinite(e, found, inv) ==
  [found |-> IF \E i \in 0 .. e.N - 1 : \E k \in 0 .. Numel(FeAt(e, 0, i).dims) - 1 : ~Finite(FeAt(e, 0, i).data[k]) THEN 1 ELSE found,
   x |-> [i \in 0 .. e.N - 1 |-> Each(FeAt(e, 0, i).data, LAMBDA q : Times(q, inv))]]

-----------------------------------------------------------------------------
(* Comparisons and predicates (compare.cu): every operand is addressed by  *)
(* its own strides and offset.                                             *)
Compared(op, a, b) ==
  CASE op = "gt" -> Less(b, a)
    [] op = "lt" -> Less(a, b)
    [] op = "eq" -> a[1] * b[2] = b[1] * a[2]
    [] op = "ne" -> a[1] * b[2] # b[1] * a[2]
    [] op = "ge" -> ~Less(a, b)
    [] op = "le" -> ~Less(b, a)
    [] op = "and" -> a[1] # 0 /\ b[1] # 0
    [] op = "or" -> a[1] # 0 \/ b[1] # 0
Flag(p) == IF p THEN 1 ELSE 0
CmpAccepts(a, b, out) == Contiguous(out) /\ Broadcasts(a.dims, b.dims) /\ BcastDims(a.dims, b.dims) = out.dims /\ a.type = b.type
CmpScalarAccepts(a, out) == Contiguous(a) /\ Contiguous(out) /\ a.dims = out.dims
PredAccepts(a, out) == Contiguous(out) /\ a.dims = out.dims
CmpLaunches(op, a, out) ==
  /\ out.type \in {"bool", "uint8"}
  /\ op \notin {"and", "or", "not"} => a.type \in {"float", "half", "bf16", "int32"}
RunCmp(op, a, b, out) ==
  [i \in 0 .. Numel(out) - 1 |-> Flag(Compared(op, a.data[GeneralIndex(a, out, i)], b.data[GeneralIndex(b, out, i)]))]
RunCmpScalar(op, a, s, n) == [i \in 0 .. n - 1 |-> Flag(Compared(op, a.data[i], s))]
LogicalNot(x, n) == [i \in 0 .. n - 1 |-> Flag(x[i][1] = 0)]
Nan == <<0, 0>>
Pred(op, q) ==
  CASE op = "isnan" -> q = Nan
    [] op = "isfinite" -> q[2] # 0
    [] op = "isinf" -> q[2] = 0 /\ q # Nan
    [] op = "isposinf" -> q[2] = 0 /\ q[1] > 0
    [] op = "isneginf" -> q[2] = 0 /\ q[1] < 0
RunPred(op, x, n) == [i \in 0 .. n - 1 |-> Flag(Pred(op, x[i]))]
MaskedFill(self, mask, out, v) ==
  [i \in 0 .. Numel(out) - 1 |-> IF mask.data[GeneralIndex(mask, out, i)] # Zero THEN v ELSE self.data[GeneralIndex(self, out, i)]]

-----------------------------------------------------------------------------
(* In place (inplace_ext.cu): the output is the input's buffer, each cell  *)
(* written by a thread of its own, in any order of the threads.  Nothing   *)
(* about self or the other operand is checked.                             *)
IpBuild(self) == self.type \notin Nibbles
InPlaceUnary(op, self, order) ==
  FoldLeft(LAMBDA mem, i : [mem EXCEPT ![i] = Unary(op, mem[UnIndex(self, 1)[i]])], self.data, order)
InPlaceBinary(op, self, b, order, al) ==
  LET at == BinIndex(self, b, self.dims, 1, self.type # b.type)
  IN FoldLeft(LAMBDA mem, i : [mem EXCEPT ![i] = Stored(Binary(op, mem[at[i][1]], b.data[at[i][2]], al, Kind(self.type)), Kind(self.type))],
              self.data, order)
Fill(self, v) == [i \in 0 .. Numel(self.dims) - 1 |-> v]
FillDiagonal(self) ==
  LET r == Len(self.dims)
      rows == IF r >= 2 THEN self.dims[r - 1] ELSE Numel(self.dims)
      cols == self.dims[r]
  IN [i \in DOMAIN self.data |->
        IF \E d \in 0 .. (IF rows < cols THEN rows ELSE cols) - 1 : i = d * cols + d THEN Rat(1) ELSE self.data[i]]
MaskedFillTensor(self, mask, value, n) == [i \in 0 .. n - 1 |-> IF mask[i] # Zero THEN value[0] ELSE self[i]]

-----------------------------------------------------------------------------
(* Rotary embedding's gradient: the rotation by the opposite angle.        *)
Rotated(x, i, D, mode, sin) ==
  LET d == i % D
      base == i - d
      partner == IF mode = 0 THEN (IF d < D \div 2 THEN base + d + D \div 2 ELSE base + d - D \div 2)
                 ELSE (IF d % 2 = 1 THEN base + d - 1 ELSE base + d + 1)
      first == IF mode = 0 THEN d < D \div 2 ELSE d % 2 = 0
  IN sin[d] * (IF first THEN -x[partner] ELSE x[partner])
RopeGrad(go, c, sn, S, D, total, mode) ==
  [i \in 0 .. total - 1 |->
     LET s == (i \div D) % S IN go[i] * c[s * D + (i % D)] + Rotated(go, i, D, mode, [e \in 0 .. D - 1 |-> -sn[s * D + e]])]
RopeGradPlan(gradQ, mode) == [ok |-> Len(gradQ) = 4 /\ mode \in {0, 1}, S |-> gradQ[3], D |-> gradQ[4]]

(* AddLayerNormGrad: layer norm's gradient at x + residual, to both.       *)
AddLnGrad(gy, x, res, g, rows, D, TB, W) ==
  LnBwd(gy, Elementwise(x, res, +), [i \in 0 .. rows * D - 1 |-> gy[i] * g[i % D]], rows, D, TB, W)
AddLnGradPlan(gradY, x, residual) ==
  [ok |-> gradY = x /\ x = residual, D |-> Last(x), rows |-> Numel(x) \div Last(x)]
=============================================================================
