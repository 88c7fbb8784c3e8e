------------------------------ MODULE MCDense ------------------------------
(***************************************************************************)
(* The convolutions on small tensors, with the definition each is checked  *)
(* against.  A call is [op, p].                                            *)
(***************************************************************************)
EXTENDS ConvKernels

Dn(op, p) == [op |-> op, p |-> p]
Win2(k, s, pd, dl) == [kernel |-> k, stride |-> s, pad |-> pd, dil |-> dl]

-----------------------------------------------------------------------------
(* Convolutions: calls. *)
Steps2 == {Win2(<<2, 2>>, <<1, 1>>, <<0, 0>>, <<1, 1>>), Win2(<<2, 1>>, <<1, 2>>, <<1, 0>>, <<2, 1>>),
           Win2(<<1, 2>>, <<2, 1>>, <<0, 1>>, <<1, 1>>)}
Conv2dShapes ==   \* input, weight per group, groups
  {<<<<1, 2, 3, 2>>, <<2, 2>>, 1>>, <<<<2, 2, 2, 2>>, <<2, 1>>, 2>>, <<<<1, 2, 3, 2>>, <<4, 1>>, 2>>}
Out2d(s, w) == <<s[1][1], s[2][1]>> \o Unfolded(Spatial(s[1]), w)
Conv2dCalls ==
  {Dn(op, <<s[1], s[2] \o w.kernel, Out2d(s, w), w, s[3]>>) :
     op \in {"conv2d", "conv_grad", "conv_transpose"}, s \in Conv2dShapes, w \in Steps2}
  \cup {Dn("conv2d", <<<<1, 2, 3, 2>>, <<2, 2, 2, 2>>, <<1, 2, 2, 2>>, Win2(<<2, 2>>, <<1, 1>>, <<0, 0>>, <<1, 1>>), 1>>)}
  \cup {Dn("depthwise", <<<<1, 2, 3, 2>>, <<2, 1>> \o w.kernel, Out2d(<<<<1, 2, 3, 2>>, <<2, 1>>, 2>>, w), w, 2>>) :
          w \in Steps2}
  \cup {Dn("quant_conv", <<s[1], s[2] \o w.kernel, Out2d(s, w), w, 1>>) :
          s \in {x \in Conv2dShapes : x[3] = 1}, w \in {x \in Steps2 : x.dil = <<1, 1>>}}
Conv3dCalls ==
  {Dn("conv3d", <<<<1, 1, 2, 3, 2>>, <<1, 1>> \o k, <<1, 1>> \o Unfolded(<<2, 3, 2>>, w), w, 1>>) :
     k \in {<<2, 2, 1>>}, w \in {Win2(<<2, 2, 1>>, <<1, 2, 1>>, <<0, 1, 0>>, <<1, 1, 1>>),
                                 Win2(<<2, 2, 1>>, <<1, 1, 1>>, <<1, 0, 0>>, <<2, 2, 1>>)}}
TbcCalls == {Dn("conv_tbc", <<<<3, 2, 2>>, <<kw, 2, 2>>, <<3 + 2 * pad - kw + 1, 2, 2>>, pad>>) :
               kw \in 1 .. 2, pad \in 0 .. 1}
ColumnCalls == {Dn("columns", <<xd, w>>) : xd \in {<<2, 2, 3, 2>>, <<1, 1, 3, 3>>}, w \in Steps2}
Pool3dCalls == {Dn("pool3d", <<<<1, 1, 2, 3, 2>>, <<1, 1>> \o Unfolded(<<2, 3, 2>>, w), w>>) :
                  w \in {Win2(<<2, 2, 1>>, <<1, 2, 1>>, <<0, 1, 0>>, <<1, 1, 1>>)}}
Offsets == [i \in 0 .. 31 |-> ((i * 7) % 11) - 5]
DeformCalls == {Dn("deform", <<<<1, 2, 3, 2>>, <<1, 2, 2, 2>>, <<1, 1, 2, 1>>,
                               Win2(<<2, 2>>, <<1, 1>>, <<0, 0>>, <<1, 1>>), Offsets>>),
                Dn("deform", <<<<1, 1, 3, 2>>, <<1, 1, 1, 2>>, <<1, 1, 2, 2>>,
                               Win2(<<1, 2>>, <<2, 1>>, <<0, 1>>, <<1, 2>>), Offsets>>)}
Points == [i \in 0 .. 15 |-> <<(i * 3) % 5, (i * 2) % 5>>]
MsdaCalls == {Dn("msda", <<<<1, 7, 2, 2>>, <<<<2, 2>>, <<1, 3>>>>, <<0, 4>>, Points, 1, 2, 2>>)}

DenseCallsConv == Conv2dCalls \cup Conv3dCalls \cup TbcCalls \cup ColumnCalls \cup Pool3dCalls \cup DeformCalls \cup MsdaCalls

(* The window as the entry points marshal it. *)
Given(p) == ConvWindow(p[2], p[4].stride, p[4].pad, p[4].dil)

ConvAccepts(c) ==
  LET p == c.p
      win == Given(p)
  IN
  CASE c.op = "conv2d" -> ConvolutionAccepts(Dense(p[1]), Dense(p[2]), Dense(p[3]), <<p[3][2]>>, FALSE, win, Groups(p[5]))
    [] c.op = "conv3d" -> Convolution3dAccepts(Dense(p[1]), Dense(p[2]), Dense(p[3]), win, Groups(p[5]))
    [] c.op = "conv_transpose" -> ConvolutionTranspose2dAccepts(p[3], p[2], p[1], win, Groups(p[5]))
    [] c.op = "conv_tbc" -> TbcAccepts(p[1], p[2])
    [] c.op = "deform" -> DeformableConv2dAccepts(p[1], p[2])
    [] c.op = "quant_conv" -> QuantConvolutionAccepts(p[1])
    [] c.op = "pool3d" -> Pool3dAccepts(p[1])
    [] OTHER -> TRUE

ConvResult(c) ==
  LET p == c.p
      win == Given(p)
  IN
  CASE c.op = "conv2d" -> Convolution(p[1], p[2], p[3], win, Groups(p[5]))
    [] c.op = "conv3d" -> Convolution3d(p[1], p[2], p[3], win, Groups(p[5]))
    [] c.op = "depthwise" -> ConvDepthwise2d(p[1], p[2], p[3], win)
    [] c.op = "conv_transpose" -> ConvolutionTranspose2d(p[3], p[2], p[1], win, Groups(p[5]))
    [] c.op = "conv_grad" ->
         [of |-> ConvolutionBackward(p[3], p[1], p[2], p[1], p[2], {"input", "weight", "bias"}, win, Groups(p[5])),
          pool |-> AvgPool2dBackward(p[1], p[3], p[4].kernel, p[4].stride, p[4].pad)]
    [] c.op = "quant_conv" -> QuantConvolution(p[1], p[2], p[3], p[4].stride, p[4].pad)
    [] c.op = "conv_tbc" -> [forward |-> ConvTbc(p[1], p[2], p[3], p[4]),
                             grad |-> ConvTbcBackward(p[1], p[2], p[3], p[4])]
    [] c.op = "columns" -> [forward |-> Im2colColumns(p[1], p[2]), grad |-> Im2colBackward(p[1], p[2])]
    [] c.op = "pool3d" -> AvgPool3d(p[1], p[2], p[3].kernel, p[3].stride, p[3].pad)
    [] c.op = "deform" -> DeformableConv2d(p[1], p[2], p[3], p[4], p[5])
    [] c.op = "msda" -> [forward |-> MultiScaleDeformableAttn(p[1], p[2], p[3], p[4], p[5], p[6], p[7]),
                         grad |-> MultiScaleDeformableAttentionGrad(p[1], p[2], p[3], p[4], p[5], p[6], p[7])]

(* What each is.  x and w meet at y when the window at y puts the tap of w *)
(* on x and both are of the group of y.                                    *)
Meets(xd, wd, yd, w, groups, x, k, y) ==
  /\ x[1] = y[1] /\ k[1] = y[2]
  /\ x[2] = ((y[2] * groups) \div yd[2]) * wd[2] + k[2]
  /\ \A d \in 3 .. Len(xd) : x[d] + w.pad[d - 2] = y[d] * w.stride[d - 2] + k[d] * w.dil[d - 2]
Cells(dims) == Tabulated([i \in 0 .. Numel(dims) - 1 |-> Tabulated(Coord(i, dims))])
Triples(xd, wd, yd, w, groups) ==
  LET x == Cells(xd)
      k == Cells(wd)
      y == Cells(yd)
  IN {t \in (DOMAIN x) \X (DOMAIN k) \X (DOMAIN y) : Meets(xd, wd, yd, w, groups, x[t[1]], k[t[2]], y[t[3]])}
By(T, k, F(_), n) == [i \in 0 .. n - 1 |-> {F(t) : t \in {u \in T : u[k] = i}}]

Tent(p, q, den) == LET a == IF p < q THEN q - p ELSE p - q IN IF a < den THEN den - a ELSE 0

ConvIs(c, r) ==
  LET p == c.p
      Trips == Triples(p[1], p[2], p[3], p[4], p[5])
  IN CASE c.op \in {"conv2d", "conv3d", "depthwise", "quant_conv"} ->
            r = By(Trips, 3, LAMBDA t : <<t[1], t[2]>>, Numel(p[3]))
       [] c.op = "conv_transpose" -> r = By(Trips, 1, LAMBDA t : <<t[3], t[2]>>, Numel(p[1]))
       [] c.op = "conv_grad" ->
            /\ r.of.status
            /\ r.of.input = By(Trips, 1, LAMBDA t : <<t[3], t[2]>>, Numel(p[1]))
            /\ r.of.weight = By(Trips, 2, LAMBDA t : <<t[1], t[3]>>, Numel(p[2]))
            /\ \A co \in DOMAIN r.of.bias :
                 r.of.bias[co] = {y \in 0 .. Numel(p[3]) - 1 : Coord(y, p[3])[2] = co}
       [] c.op = "conv_tbc" ->
            LET X == Cells(p[1])
                W == Cells(p[2])
                Y == Cells(p[3])
                U == {t \in (DOMAIN X) \X (DOMAIN W) \X (DOMAIN Y) :
                        /\ X[t[1]][1] = Y[t[3]][1] + W[t[2]][1] - p[4] /\ X[t[1]][2] = Y[t[3]][2]
                        /\ W[t[2]][2] = X[t[1]][3] /\ W[t[2]][3] = Y[t[3]][3]}
            IN /\ r.forward = By(U, 3, LAMBDA t : <<t[1], t[2]>>, Numel(p[3]))
               /\ r.grad.input = By(U, 1, LAMBDA t : <<t[3], t[2]>>, Numel(p[1]))
               /\ r.grad.weight = By(U, 2, LAMBDA t : <<t[1], t[3]>>, Numel(p[2]))
               /\ \A co \in DOMAIN r.grad.bias :
                    r.grad.bias[co] = {y \in 0 .. Numel(p[3]) - 1 : Coord(y, p[3])[3] = co}
       [] c.op = "columns" ->
            LET sp == Spatial(p[1])
                od == <<p[1][1], p[1][2]>> \o p[2].kernel \o Unfolded(sp, p[2])
                cell(i) == LET o == Coord(i, od)
                               at == Tap(SubSeq(o, 5, 6), SubSeq(o, 3, 4), p[2])
                           IN IF InBox(at, sp) THEN Flat(<<o[1], o[2]>> \o at, p[1]) ELSE Filled
            IN /\ r.forward = [i \in 0 .. Numel(od) - 1 |-> cell(i)]
               /\ \A f \in DOMAIN r.grad : r.grad[f] = {i \in DOMAIN r.forward : r.forward[i] = f}
       [] c.op = "pool3d" ->
            \A i \in DOMAIN r : r[i].over = Cardinality(r[i].cells) /\ r[i].cells # {}
       [] c.op = "deform" ->
            \* an interpolated tap weighs every cell by its tent around the point
            \A i \in DOMAIN r :
              LET o == Coord(i, p[3])
                  place(a, axis) == 2 * Tap(Spatial(o), a, p[4])[axis]
                    + p[5][Flat(<<o[1], 2 * Flat(a, p[4].kernel) + axis - 1>> \o Spatial(o),
                                <<p[3][1], 2 * Numel(p[4].kernel)>> \o Spatial(p[3]))]
              IN r[i] = UNION {LET x == Coord(f, p[1])
                                   m == Tent(place(a, 1), 2 * x[3], 2) * Tent(place(a, 2), 2 * x[4], 2)
                               IN IF m = 0 \/ x[1] # o[1] THEN {}
                                  ELSE {[x |-> f, w |-> Flat(<<o[2], x[2]>> \o a, p[2]), weight |-> m,
                                         mask |-> Flat(<<o[1]>> \o a \o Spatial(o),
                                                       <<p[3][1]>> \o p[4].kernel \o Spatial(p[3]))]} :
                               f \in 0 .. Numel(p[1]) - 1, a \in Coords(p[4].kernel)}
       [] c.op = "msda" ->
            LET vd == p[1]
                L == [out : DOMAIN r.forward, attn : DOMAIN r.grad.attn, value : 0 .. Numel(vd) - 1]
                weight(l) ==
                  LET s == Coord(l.attn, <<vd[1], p[5], vd[3], p[6], p[7]>>)
                      o == Coord(l.out, <<vd[1], p[5], vd[3], vd[4]>>)
                      v == Coord(l.value, vd)
                      hw == p[2][s[4] + 1]
                      in == v[2] - p[3][s[4] + 1]
                  IN IF SubSeq(s, 1, 3) # SubSeq(o, 1, 3) \/ v[1] # o[1] \/ v[3] # o[3] \/ v[4] # o[4]
                        \/ in \notin 0 .. Numel(hw) - 1 THEN 0
                     ELSE Tent(p[4][l.attn][2] * hw[1] - 2, 4 * (in \div hw[2]), 4)
                          * Tent(p[4][l.attn][1] * hw[2] - 2, 4 * (in % hw[2]), 4)
                W == {[out |-> l.out, attn |-> l.attn, value |-> l.value, w |-> weight(l)] :
                        l \in {k \in L : weight(k) # 0}}
            IN /\ \A i \in DOMAIN r.forward :
                    r.forward[i] = {[attn |-> l.attn, value |-> l.value, w |-> l.w] : l \in {k \in W : k.out = i}}
               /\ \A v \in DOMAIN r.grad.value :
                    r.grad.value[v] = {[go |-> l.out, attn |-> l.attn, w |-> l.w] : l \in {k \in W : k.value = v}}
               /\ \A a \in DOMAIN r.grad.attn :
                    r.grad.attn[a] = {[go |-> l.out, value |-> l.value, w |-> l.w] : l \in {k \in W : k.attn = a}}
=============================================================================
