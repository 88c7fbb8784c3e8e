------------------------------ MODULE MCCopies ------------------------------
(***************************************************************************)
(* The copying, windowed and index operators on small tensors, with the    *)
(* definition each is checked against.  A call is [op, self, p, out]: the  *)
(* input's descriptor, the tuple of the remaining parameters, and the      *)
(* output's descriptor.                                                    *)
(***************************************************************************)
EXTENDS ShapeKernels, WindowKernels, IndexKernels, TLC

Call(op, self, p, dims) == [op |-> op, self |-> self, p |-> p, out |-> Dense(dims)]

(* Tensors: dense ones, a transposed one, one that skips its first cells.  *)
D23 == Dense(<<2, 3>>)
D232 == Dense(<<2, 3, 2>>)
Transposed == [dims |-> <<3, 2>>, strides |-> <<1, 3>>, offset |-> 0]
Window == [dims |-> <<2, 2>>, strides |-> <<4, 1>>, offset |-> 1]
Shifted == [dims |-> <<2, 2>>, strides |-> <<2, 1>>, offset |-> 2]
Views == {D23, Transposed, Window}

(* Whether a tensor fills its buffer from the first cell, and the same call *)
(* on a view that starts two cells further on.                              *)
Packed(t) == t = Dense(t.dims)
Moved(c) == [c EXCEPT !.self.offset = 2]
AndMoved(S) == S \cup {Moved(c) : c \in S}

(* The grid of a result by its coordinates. *)
Grid(dims, At(_)) == [i \in 0 .. Numel(dims) - 1 |-> At(Coord(i, dims))]
Axis(t, dim) == IF dim < 0 THEN Len(t.dims) + dim + 1 ELSE dim + 1

-----------------------------------------------------------------------------
(* Shapes: calls. *)
Axes(n) == {a \in [1 .. n -> 0 .. n - 1] : \A i, j \in 1 .. n : a[i] = a[j] => i = j}

PermuteCalls ==
  {Call("permute", t, a, [i \in 1 .. 2 |-> t.dims[a[i] + 1]]) : t \in Views, a \in Axes(2)}
  \cup {Call("permute", D232, a, [i \in 1 .. 3 |-> D232.dims[a[i] + 1]]) : a \in Axes(3)}

Picked(D, from, to, step) == {x \in 0 .. D - 1 : x >= from /\ x < to /\ (x - from) % step = 0}
FromEnd(D, x) == IF x < 0 THEN D + x ELSE x
SliceCalls ==
  {Call("slice", t, <<dim, from, to, step>>, [t.dims EXCEPT ![Axis(t, dim)] = n]) :
     t \in Views, dim \in {-1, 0}, from \in {-2, 0, 1}, to \in {-1, 2, 5}, step \in {1, 2},
     n \in {1, 2}}
StridedCalls ==
  {Call("strided_slice", D23, <<<<b1, b2>>, <<2, e>>, <<1, st>>>>, <<2, n>>) :
     b1 \in {-3, 0}, b2 \in {-9, -2, 1}, e \in {-1, 3, 7}, st \in {1, 2}, n \in {1, 2, 3}}

TileCalls == {Call("tile", t, <<2, 3>>, <<2 * t.dims[1], 3 * t.dims[2]>>) : t \in Views}
PadCalls == {Call("pad", t, p, <<t.dims[1] + p[1] + p[2], t.dims[2] + p[3] + p[4]>>) :
               t \in Views, p \in {<<1, 0, 0, 2>>, <<-1, 0, 1, -1>>}}
GatherCalls ==
  {Call("gather", t, <<dim, <<1, 0, 1>>>>, [t.dims EXCEPT ![Axis(t, dim)] = 3]) :
     t \in Views, dim \in {-1, 0}}
GatherV2Calls == AndMoved(
  {Call("gather_v2", D232, <<1, 1, <<2, 2>>, (0 :> 2 @@ 1 :> 0 @@ 2 :> 1 @@ 3 :> 1)>>, <<2, 2, 2>>),
   Call("gather_v2", D23, <<0, 0, <<3>>, (0 :> 1 @@ 1 :> 0 @@ 2 :> 1)>>, <<3, 3>>),
   Call("gather_v2", D23, <<1, 0, <<2, 1>>, (0 :> 1 @@ 1 :> 0)>>, <<2, 1>>)})
EmbeddingCalls == AndMoved({Call("embedding", D23, <<<<1, 0, 1>>>>, <<3, 3>>)})
                  \cup {Call("embedding", Transposed, <<<<2, 0>>>>, <<2, 2>>)}
CatCalls == AndMoved({Call("cat", Dense(<<2, 1>>), <<1, Dense(<<2, 2>>)>>, <<2, 3>>),
                      Call("cat", Dense(<<1, 2>>), <<-2, Shifted>>, <<3, 2>>),
                      Call("cat", Dense(<<1, 2>>), <<-2, Dense(<<2, 2>>)>>, <<3, 2>>),
                      Call("cat", Transposed, <<1, Transposed>>, <<3, 4>>)})
StackCalls == AndMoved({Call("stack", D23, <<dim, D23>>, InsertAt(<<2, 3>>, dim + 1, 2)) : dim \in 0 .. 2})
SplitCalls == {Call("split", t, <<1, Dense(<<t.dims[1], 1>>)>>, <<t.dims[1], t.dims[2] - 1>>) : t \in Views}
DenseCalls == AndMoved(
  {Call("flip", t, <<dim>>, t.dims) : t \in {D23, D232, Transposed}, dim \in -1 .. 1}
  \cup {Call("roll", t, <<dim, sh>>, t.dims) : t \in {D23, D232, Transposed}, dim \in -1 .. 1, sh \in {-4, -1, 0, 2, 7}}
  \cup {Call("repeat", t, <<3>>, <<18>>) : t \in {D23, Transposed}}
  \cup {Call("expand", Dense(d), <<>>, <<2, 2, 3>>) : d \in {<<2, 3>>, <<1, 3>>, <<3>>, <<2, 2, 1>>}}
  \cup {Call("view", D23, <<>>, <<3, 2>>)}
  \cup {Call("movedim", D232, <<s, d>>, <<>>) : s \in -3 .. 2, d \in -3 .. 2}
  \cup {Call("movedim", Transposed, <<0, d>>, <<>>) : d \in 0 .. 1}
  \cup {Call("rot90", t, <<k>>, <<>>) : t \in {D23, D232, Transposed, Dense(<<3, 1>>)}, k \in -3 .. 5}
  \cup {Call("pixel_shuffle", Dense(<<2, 4, 1, 2>>), <<2>>, <<2, 1, 2, 4>>),
        Call("pixel_shuffle", Dense(<<1, 8, 2, 1>>), <<2>>, <<1, 2, 4, 2>>),
        Call("pixel_unshuffle", Dense(<<2, 1, 2, 4>>), <<2>>, <<2, 4, 1, 2>>),
        Call("pixel_unshuffle", Dense(<<1, 2, 4, 2>>), <<2>>, <<1, 8, 2, 1>>),
        Call("channel_shuffle", Dense(<<2, 6, 2>>), <<2>>, <<2, 6, 2>>),
        Call("channel_shuffle", Dense(<<1, 6, 1>>), <<3>>, <<1, 6, 1>>)}
  \cup {Call("meshgrid", Dense(<<2>>), <<<<2, 3, 2>>, k>>, <<2, 3, 2>>) : k \in 1 .. 3})

ShapeCalls == PermuteCalls \cup SliceCalls \cup StridedCalls \cup TileCalls \cup PadCalls
              \cup GatherCalls \cup GatherV2Calls \cup EmbeddingCalls \cup CatCalls \cup StackCalls
              \cup SplitCalls \cup DenseCalls

Both(c) == <<c.self, c.p[2]>>

ShapeAccepts(c) ==
  CASE c.op = "permute" -> PermuteAccepts(c.self, c.p, c.out)
    [] c.op = "slice" -> SliceAccepts(c.self, c.p[1], c.p[2], c.p[3], c.p[4], c.out)
    [] c.op = "strided_slice" -> StridedSliceAccepts(c.self, c.p[1], c.p[2], c.p[3], c.out)
    [] c.op = "tile" -> TileAccepts(c.self, c.p, c.out)
    [] c.op = "pad" -> PadAccepts(c.self, c.p, c.out)
    [] c.op = "gather" -> GatherAccepts(c.self, c.p[1], c.p[2], c.out)
    [] c.op = "gather_v2" -> GatherV2Accepts(c.self, c.p[1], c.p[2], c.p[3], c.out)
    [] c.op = "embedding" -> EmbeddingAccepts(c.self)
    [] c.op = "cat" -> CatAccepts(Both(c), c.p[1], c.out)
    [] c.op = "stack" -> StackAccepts(Both(c), c.p[1], c.out)
    [] c.op = "split" -> SplitAccepts(c.self, c.p[1], <<c.p[2], c.out>>)
    [] c.op \in {"flip", "roll"} -> HasDim(c.self, c.p[1])
    [] c.op = "repeat" -> RepeatInterleaveAccepts(c.self, c.p[1], c.out)
    [] c.op = "expand" -> ExpandAccepts(c.self, c.out)
    [] c.op = "view" -> ViewAccepts(c.self, c.out)
    [] OTHER -> TRUE

Placed(writes, dims) ==
  [i \in 0 .. Numel(dims) - 1 |-> {<<w.input, w.from>> : w \in {x \in writes : x.to = i}}]

ShapeResult(c) ==
  CASE c.op = "permute" -> Permute(c.self, c.p)
    [] c.op = "slice" -> Slice(c.self, c.p[1], c.p[2], c.p[4], c.out)
    [] c.op = "strided_slice" -> StridedSlice(c.self, c.p[1], c.p[3], c.out)
    [] c.op = "tile" -> Tile(c.self, c.out)
    [] c.op = "pad" -> Pad(c.self, c.p, c.out)
    [] c.op = "gather" -> Gather(c.self, c.p[1], c.p[2], c.out)
    [] c.op = "gather_v2" -> GatherV2(c.self, c.p[1], c.p[3], c.p[4])
    [] c.op = "embedding" -> Embedding(c.self, c.p[1])
    [] c.op = "cat" -> Placed(CatWrites(Both(c), c.p[1], c.out), c.out.dims)
    [] c.op = "stack" -> Placed(StackWrites(Both(c), c.p[1], c.out), c.out.dims)
    [] c.op = "split" -> <<Split(c.self, c.p[1], <<c.p[2], c.out>>, 1),
                           Split(c.self, c.p[1], <<c.p[2], c.out>>, 2)>>
    [] c.op = "flip" -> Flip(c.self, c.p[1])
    [] c.op = "roll" -> Roll(c.self, c.p[1], c.p[2])
    [] c.op = "repeat" -> RepeatInterleave(c.p[1], c.out)
    [] c.op = "expand" -> Expand(c.self, c.out)
    [] c.op = "view" -> View(c.self)
    [] c.op = "movedim" -> Movedim(c.self, c.p[1], c.p[2])
    [] c.op = "rot90" -> Rot90(c.self, c.p[1])
    [] c.op = "pixel_shuffle" -> PixelShuffle(c.self, c.p[1])
    [] c.op = "pixel_unshuffle" -> PixelUnshuffle(c.self, c.p[1])
    [] c.op = "channel_shuffle" -> ChannelShuffle(c.self, c.p[1])
    [] c.op = "meshgrid" -> Meshgrid(c.p[1], c.p[2])

(* What each is: the value at every coordinate of the output.              *)
Rank(x, S) == Cardinality({y \in S : y < x})
SliceSet(D, from, to, step) == Picked(D, Greatest(FromEnd(D, from), 0), FromEnd(D, to), step)

(* A slice keeps, along each dimension d, the coordinates of keep[d], in order. *)
IsSlice(r, self, dims, keep) ==
  /\ dims = [d \in DOMAIN keep |-> Cardinality(keep[d])]
  /\ \A c \in {x \in Coords(self.dims) : \A d \in DOMAIN x : x[d] \in keep[d]} :
       r[Flat([d \in DOMAIN c |-> Rank(c[d], keep[d])], dims)] = Cell(self, c)

(* A quarter turn to the left of the last two coordinates of a plane H x W. *)
Turned(c, H, W) == [c EXCEPT ![Len(c) - 1] = W - 1 - c[Len(c)], ![Len(c)] = c[Len(c) - 1]]
TurnedDims(d) == [d EXCEPT ![Len(d) - 1] = d[Len(d)], ![Len(d)] = d[Len(d) - 1]]
QuarterTurns(c, d, n) ==
  FoldLeft(LAMBDA x, i : [c |-> Turned(x.c, x.d[Len(d) - 1], x.d[Len(d)]), d |-> TurnedDims(x.d)],
           [c |-> c, d |-> d], [i \in 1 .. n |-> i])

ShapeIs(c, r) ==
  LET t == c.self
      od == c.out.dims
      k == Axis(t, c.p[1])
  IN CASE c.op = "permute" ->
            \A x \in Coords(t.dims) : r[Flat([i \in DOMAIN x |-> x[c.p[i] + 1]], od)] = Cell(t, x)
       [] c.op = "slice" ->
            IsSlice(r, t, od, [d \in DOMAIN od |->
              IF d = k THEN SliceSet(t.dims[k], c.p[2], c.p[3], c.p[4]) ELSE 0 .. t.dims[d] - 1])
       [] c.op = "strided_slice" ->
            IsSlice(r, t, od, [d \in DOMAIN od |-> SliceSet(t.dims[d], c.p[1][d], c.p[2][d], c.p[3][d])])
       [] c.op = "tile" ->
            r = Grid(od, LAMBDA x : Cell(t, [d \in DOMAIN x |-> x[d] % t.dims[d]]))
       [] c.op = "pad" ->
            r = Grid(od, LAMBDA x : IF \E y \in Coords(t.dims) : \A d \in DOMAIN y : x[d] = y[d] + c.p[2 * d - 1]
                                    THEN Cell(t, <<x[1] - c.p[1], x[2] - c.p[3]>>) ELSE Filled)
       [] c.op = "gather" -> r = Grid(od, LAMBDA x : Cell(t, [x EXCEPT ![k] = c.p[2][x[k] + 1]]))
       [] c.op = "gather_v2" ->
            \* per batch, whole slices of the axis after the batch dims
            LET b == c.p[2]
                tail == Len(t.dims) - b - 1
            IN r = [i \in 0 .. Numel(od) - 1 |->
                      LET x == Coord(i, c.p[3] \o SubSeq(t.dims, b + 2, Len(t.dims)))
                          at == c.p[4][Flat(SubSeq(x, 1, Len(c.p[3])), c.p[3])]
                      IN Cell(t, SubSeq(x, 1, b) \o <<at>> \o SubSeq(x, Len(x) - tail + 1, Len(x)))]
       [] c.op = "embedding" -> r = Grid(od, LAMBDA x : Cell(t, <<c.p[1][x[1] + 1], x[2]>>))
       [] c.op \in {"cat", "stack"} ->
            \* every cell of the output is written once, by the input its coordinate falls to
            LET k0 == IF c.p[1] < 0 THEN Len(od) + c.p[1] + 1 ELSE c.p[1] + 1
                whole(x) == IF c.op = "stack" THEN RemoveAt(x, k0) ELSE x
                first == IF c.op = "stack" THEN 1 ELSE t.dims[k0]
            IN r = Grid(od, LAMBDA x :
                          {IF x[k0] < first THEN <<1, Cell(t, whole(x))>>
                           ELSE <<2, Cell(c.p[2], whole([x EXCEPT ![k0] = @ - first]))>>})
       [] c.op = "split" ->
            /\ r[1] = Grid(c.p[2].dims, LAMBDA x : Cell(t, x))
            /\ r[2] = Grid(od, LAMBDA x : Cell(t, [x EXCEPT ![2] = @ + c.p[2].dims[2]]))
       [] c.op = "flip" -> r = Grid(od, LAMBDA x : Cell(t, [x EXCEPT ![k] = t.dims[k] - 1 - @]))
       [] c.op = "roll" ->
            \A x \in Coords(t.dims) : r[Flat([x EXCEPT ![k] = (@ + c.p[2]) % t.dims[k]], od)] = Cell(t, x)
       [] c.op = "repeat" -> \A i \in 0 .. 5, n \in 0 .. 2 : r[3 * i + n] = Cell(t, Coord(i, t.dims))
       [] c.op = "expand" ->
            LET lead == Len(od) - Len(t.dims)
            IN r = Grid(od, LAMBDA x : Cell(t, [d \in DOMAIN t.dims |->
                                                 IF t.dims[d] = 1 THEN 0 ELSE x[d + lead]]))
       [] c.op = "view" -> \A i \in DOMAIN r : r[i] = Cell(t, Coord(i, t.dims))
       [] c.op = "movedim" ->
            LET src == Axis(t, c.p[1])
                dst == Axis(t, c.p[2])
                moved(x) == InsertAt(RemoveAt(x, src), dst, x[src])
            IN \A x \in Coords(t.dims) : r[Flat(moved(x), moved(t.dims))] = Cell(t, x)
       [] c.op = "rot90" ->
            \A x \in Coords(t.dims) :
              LET y == QuarterTurns(x, t.dims, c.p[1] % 4) IN Flat(y.c, y.d) \in DOMAIN r /\ r[Flat(y.c, y.d)] = Cell(t, x)
       [] c.op = "pixel_shuffle" ->
            r = Grid(od, LAMBDA x : Cell(t, <<x[1], (x[2] * c.p[1] + (x[3] % c.p[1])) * c.p[1] + (x[4] % c.p[1]),
                                             x[3] \div c.p[1], x[4] \div c.p[1]>>))
       [] c.op = "pixel_unshuffle" ->
            \* it undoes the shuffle
            LET back == PixelShuffle(c.out, c.p[1]) IN \A i \in DOMAIN back : r[back[i]] = t.offset + i
       [] c.op = "channel_shuffle" ->
            LET per == t.dims[2] \div c.p[1]
            IN \A x \in Coords(t.dims) :
                 r[Flat([x EXCEPT ![2] = (@ % per) * c.p[1] + @ \div per], od)] = Cell(t, x)
       [] c.op = "meshgrid" -> r = Grid(od, LAMBDA x : t.offset + x[c.p[2]])

(* The calls whose result is another.  The first operators of the file     *)
(* read a view through its strides and offset, as its header says of all   *)
(* (shape.cu:15); these read the buffer from its first cell on, in order   *)
(* (:251, :398, :554, :610, ...).  A Rot90 by a multiple of four copies    *)
(* its first H cells only (:879, :886).                                    *)
FromTheStart == {"gather_v2", "embedding", "cat", "stack", "flip", "roll", "repeat", "expand", "view",
                 "movedim", "rot90", "pixel_shuffle", "pixel_unshuffle", "channel_shuffle", "meshgrid"}
ShapeDeparts(c) ==
  \/ c.op \in FromTheStart /\ ~Packed(c.self)
  \/ c.op \in {"cat", "stack"} /\ ~Packed(c.p[2])
  \/ /\ c.op = "rot90" /\ c.p[1] % 4 = 0
     /\ Numel(c.self.dims) # c.self.dims[Len(c.self.dims) - 1]

-----------------------------------------------------------------------------
(* Windows: calls.  Spatial dims are small; planes are 2 where they matter. *)
Win(op, p) == [op |-> op, p |-> p]
W2(k, s, pd, dl) == [kernel |-> k, stride |-> s, pad |-> pd, dil |-> dl]

PadModes == {"reflect", "replicate", "circular"}
PadCallsNd ==
  {Win("pad_nd", <<m, 2, <<n>>, <<a, b>>>>) : m \in PadModes, n \in 1 .. 3, a \in 0 .. 3, b \in 0 .. 3}
  \cup {Win("pad_nd", <<m, 1, <<2, 3>>, <<1, 2, 0, 1>>>>) : m \in PadModes}
  \cup {Win("pad_nd", <<m, 1, <<2, 2, 2>>, <<1, 0, 0, 1, 1, 1>>>>) : m \in PadModes}
PadGradCalls == {Win("pad_grad", c.p) : c \in {x \in PadCallsNd : \A d \in DOMAIN x.p[3] :
                    /\ Before(x.p[4], x.p[3])[d] < x.p[3][d]
                    /\ After(x.p[4], x.p[3])[d] < x.p[3][d]}}

Windows2 == {W2(<<2, 2>>, <<1, 1>>, <<0, 0>>, <<1, 1>>), W2(<<3, 2>>, <<2, 1>>, <<1, 1>>, <<1, 1>>),
             W2(<<2, 2>>, <<1, 2>>, <<1, 0>>, <<2, 1>>)}
UnfoldCalls == {Win(op, <<2, 2, <<4, 3>>, w>>) : op \in {"im2col", "col2im"}, w \in Windows2}

Values(n) == [f \in 0 .. n - 1 |-> (f * 5 + 2) % 7]
PoolCalls ==
  {Win("max_indices", <<Values(12), <<4, 3>>, Unfolded(<<4, 3>>, w), w>>) :
     w \in {x \in Windows2 : x.dil = <<1, 1>>}}
  \cup {Win("max_3d", <<Values(18), <<2, 3, 3>>, Unfolded(<<2, 3, 3>>, PoolWindow(k, <<>>, pd)), k, <<>>, pd>>) :
          k \in {<<2, 2, 2>>, <<2, 1, 3>>}, pd \in {<<>>, <<0, 0, 1>>}}
  \cup {Win("pool_1d", <<<<5>>, <<o>>, k, st, pd>>) : o \in 1 .. 3, k \in 1 .. 3, st \in 0 .. 2, pd \in 0 .. 1}
  \cup {Win("lp_2d", <<<<4, 3>>, <<2, 2>>, k, st>>) : k \in {<<2, 2>>, <<3, 2>>}, st \in {<<1, 1>>, <<2, 2>>}}
  \cup {Win("avg_grad", <<<<2, 3, 3>>, <<1, 2, 2>>, k, <<1, 1, 1>>, <<>>>>) : k \in {<<2, 2, 2>>, <<1, 2, 1>>}}
  \cup {Win("avg_grad", <<<<2, 3, 3>>, <<1, 2, ow>>, <<2, 2, 2>>, <<1, 1, st>>, <<0, 0, 1>>>>) :
          ow \in 1 .. 2, st \in 1 .. 3}
  \cup {Win(op, <<<<h, v>>, <<oh, ow>>>>) : op \in {"adaptive_avg", "adaptive_max"},
          h \in 1 .. 4, v \in {3}, oh \in 1 .. 4, ow \in {2}}
  \cup {Win(op, <<<<2, 3, 3>>, <<2, oh, 2>>>>) : op \in {"adaptive_grad", "adaptive_max3"}, oh \in 1 .. 3}

(* Two planes of 2 x 2 maxima over 4 x 4 inputs, and the same in depth. *)
Indices == [i \in 0 .. 7 |-> <<0, 3, 9, 14, 5, 6, 8, 15>>[i + 1]]
UnpoolCalls ==
  {Win("pool_grad", <<<<1, 2, 4, 4>>, <<1, 2, 2, 2>>, Indices>>),
   Win("unpool_2d", <<<<1, 2, 2, 2>>, 4, 4, Indices>>),
   Win("unpool_3d", <<<<1, 2, 1, 2, 2>>, <<1, 2, 1, 4, 4>>, Indices>>),
   Win("unpool_grad", <<<<1, 2, 2, 2>>, <<1, 2, 4, 4>>, Indices>>)}

UpsampleCalls ==
  {Win(op, <<n, m, align>>) : op \in {"linear", "cubic"}, n \in 1 .. 4, m \in 1 .. 5, align \in BOOLEAN}
  \cup {Win("nearest", <<2, <<n, 2>>, <<m, 3>>>>) : n \in 1 .. 3, m \in 1 .. 5}

Rois == <<<<0, 0, 0, 2, 2>>, <<0, 1, 2, 3, 9>>, <<0, 9, 1, 12, 2>>>>
RoiCalls == {Win("roi_pool", <<Values(24), 2, <<3, 4>>, Rois, bins>>) : bins \in {<<1, 1>>, <<2, 2>>, <<3, 2>>}}

Boxes == <<<<0, 0, 2, 2>>, <<0, 0, 2, 3>>, <<4, 4, 6, 6>>, <<1, 0, 3, 2>>, <<4, 4, 6, 6>>>>
NmsCalls == {Win("nms", <<Boxes, sc, iou>>) : iou \in {<<1, 4>>, <<1, 2>>, <<9, 10>>},
                                              sc \in {<<1, 2, 3, 4, 5>>, <<9, 9, 2, 7, 2>>, <<5, 1, 4, 2, 3>>}}

WindowCalls == PadCallsNd \cup PadGradCalls \cup UnfoldCalls \cup PoolCalls \cup UnpoolCalls
               \cup UpsampleCalls \cup RoiCalls \cup NmsCalls

WindowAccepts(c) ==
  CASE c.op \in {"pad_nd", "pad_grad"} ->
         LET rank == Len(c.p[3]) + 1
         IN Pad1dAccepts(c.p[4], rank) \/ Pad2dAccepts(c.p[4], rank) \/ Pad3dAccepts(c.p[4], rank)
    [] OTHER -> TRUE

WindowResult(c) ==
  LET p == c.p IN
  CASE c.op = "pad_nd" -> PadNd(p[1], p[2], p[3], p[4])
    [] c.op = "pad_grad" -> PadNdBackward(p[1], p[2], p[3], p[4])
    [] c.op = "im2col" -> Im2Col(p[1], p[2], p[3], p[4])
    [] c.op = "col2im" -> Col2Im(p[1], p[2], p[3], p[4])
    [] c.op = "max_indices" -> MaxPool2dWithIndices(p[1], p[2], p[3], p[4].kernel, p[4].stride, p[4].pad)
    [] c.op = "max_3d" -> MaxPool3dWithArgmax(p[1], p[2], p[3], p[4], p[5], p[6])
    [] c.op = "pool_1d" -> Pool1d(p[1], p[2], p[3], p[4], p[5])
    [] c.op = "lp_2d" -> LpPool2d(p[1], p[2], p[3], p[4])
    [] c.op = "avg_grad" -> AvgPool3dBackward(p[1], p[2], p[3], p[4], p[5])
    [] c.op = "adaptive_avg" -> AdaptiveAvg2d(p[1], p[2])
    [] c.op = "adaptive_max" -> AdaptiveMax2d(Values(Numel(p[1])), p[1], p[2])
    [] c.op = "adaptive_grad" -> AdaptiveAvg3dBackward(p[1], p[2])
    [] c.op = "adaptive_max3" -> AdaptiveMax3d(Values(Numel(p[1])), p[1], p[2])
    [] c.op = "pool_grad" -> MaxPoolBackward(p[1], p[2], p[3])
    [] c.op = "unpool_2d" -> MaxUnpool2d(p[1], p[2], p[3], p[4])
    [] c.op = "unpool_3d" -> MaxUnpool3d(p[1], p[2], p[3])
    [] c.op = "unpool_grad" -> MaxUnpoolBackward(p[1], p[2], p[3])
    [] c.op = "linear" -> [o \in 0 .. p[2] - 1 |-> LinearTaps(o, p[1], p[2], p[3])]
    [] c.op = "cubic" -> [o \in 0 .. p[2] - 1 |-> CubicTaps(o, p[1], p[2], p[3])]
    [] c.op = "nearest" -> UpsampleNearest2d(p[1], p[2], p[3])
    [] c.op = "roi_pool" -> LET both(r) == [out |-> r, grad |-> RoiPoolGrad(p[2], p[3], p[4], p[5],
                                                                        [i \in DOMAIN r |-> r[i].index])]
                            IN both(RoiPool(p[1], p[2], p[3], p[4], p[5]))
    [] c.op = "nms" -> LET order == ArgsortDesc(p[2]) IN [order |-> order, kept |-> Nms(p[1], order, p[3])]

(* What each is. *)
Wave(x, n) == LET m == x % (2 * (n - 1)) IN IF m < n THEN m ELSE 2 * (n - 1) - m
Extended(mode, x, n) ==
  CASE mode = "replicate" -> IF x < 0 THEN 0 ELSE Least(x, n - 1)
    [] mode = "circular" -> x % n
    [] mode = "reflect" -> IF n = 1 THEN 0 ELSE Wave(x, n)

(* Cells f of a plane whose every coordinate lies in the window at oc. *)
InWindow(oc, sp, w) ==
  {f \in 0 .. Numel(sp) - 1 : \A d \in DOMAIN sp :
     LET x == Coord(f, sp)[d] - (oc[d] * w.stride[d] - w.pad[d])
     IN x >= 0 /\ x % w.dil[d] = 0 /\ x \div w.dil[d] < w.kernel[d]}

IsMaximum(e, x, cells) == /\ e.index \in cells
                          /\ e.value = x[e.index]
                          /\ \A f \in cells : x[f] <= e.value

(* Cells o*n/m <= x < (o+1)*n/m, with the borders rounded outwards. *)
Touches(f, oc, sp, osp) ==
  \A d \in DOMAIN sp : LET x == Coord(f, sp)[d]
                       IN (x + 1) * osp[d] > oc[d] * sp[d] /\ x * osp[d] < (oc[d] + 1) * sp[d]
Touched(oc, sp, osp) == {f \in 0 .. Numel(sp) - 1 : Touches(f, oc, sp, osp)}

WindowIs(c, r) ==
  LET p == c.p IN
  CASE c.op \in {"pad_nd", "pad_grad"} ->
         LET osp == [d \in DOMAIN p[3] |-> p[3][d] + p[4][2 * (Len(p[3]) - d) + 1] + p[4][2 * (Len(p[3]) - d) + 2]]
         IN r = Grid(<<p[2]>> \o osp, LAMBDA x :
                  Flat([d \in DOMAIN x |-> IF d = 1 THEN x[1]
                          ELSE Extended(p[1], x[d] - p[4][2 * (Len(x) - d) + 1], p[3][d - 1])],
                       <<p[2]>> \o p[3]))
    [] c.op \in {"im2col", "col2im"} ->
         LET osp == Unfolded(p[3], p[4])
             od == <<p[1], p[2]>> \o p[4].kernel \o osp
         IN /\ Numel(osp) = Cardinality({oc \in Coords(<<9, 9>>) : \A d \in 1 .. 2 :
                              p[4].stride[d] * oc[d] + p[4].dil[d] * (p[4].kernel[d] - 1)
                                < p[3][d] + 2 * p[4].pad[d]})
            /\ r = Grid(od, LAMBDA x :
                     LET at == [d \in 1 .. 2 |-> x[d + 4] * p[4].stride[d] + x[d + 2] * p[4].dil[d] - p[4].pad[d]]
                     IN IF \A d \in 1 .. 2 : at[d] >= 0 /\ at[d] < p[3][d]
                        THEN Flat(<<x[1], x[2]>> \o at, <<p[1], p[2]>> \o p[3]) ELSE Filled)
    [] c.op = "max_indices" ->
         \A i \in DOMAIN r : IsMaximum(r[i], p[1], InWindow(Coord(i, p[3]), p[2], p[4]))
    [] c.op = "max_3d" ->
         \A i \in DOMAIN r : IsMaximum(r[i], p[1], InWindow(Coord(i, p[3]), p[2],
           [kernel |-> p[4], stride |-> p[4], dil |-> <<1, 1, 1>>, pad |-> IF p[6] = <<>> THEN <<0, 0, 0>> ELSE p[6]]))
    [] c.op = "pool_1d" ->
         \A i \in DOMAIN r :
           LET st == IF p[4] = 0 THEN p[3] ELSE p[4]
               cells == {x \in 0 .. 4 : x >= i * st - p[5] /\ x < i * st - p[5] + p[3]}
           IN r[i].cells = cells /\ r[i].over = Greatest(Cardinality(cells), 1)
    [] c.op = "lp_2d" ->
         \A i \in DOMAIN r : r[i] = InWindow(Coord(i, p[2]), p[1], W2(p[3], p[4], <<0, 0>>, <<1, 1>>))
    [] c.op = "avg_grad" -> \* the adjoint of the forward pass: the cells it averaged, by its divisor
         r = AvgPool(p[1], p[2], p[3], p[4], p[5])
    [] c.op = "adaptive_avg" ->
         \A i \in DOMAIN r : r[i].cells = Touched(Coord(i, p[2]), p[1], p[2])
                             /\ r[i].over = Cardinality(r[i].cells)
    [] c.op = "adaptive_max" ->
         \A i \in DOMAIN r : IsMaximum(r[i], Values(Numel(p[1])), Touched(Coord(i, p[2]), p[1], p[2]))
    [] c.op = "adaptive_grad" -> r = AdaptiveAvg3d(p[1], p[2])
    [] c.op = "adaptive_max3" ->
         \A i \in DOMAIN r : LET cells == Touched(Coord(i, p[2]), p[1], p[2])
                                 x == Values(Numel(p[1]))
                             IN /\ \E f \in cells : x[f] = r[i]
                                /\ \A f \in cells : x[f] <= r[i]
    [] c.op \in {"pool_grad", "unpool_2d", "unpool_3d", "unpool_grad"} ->
         \* element i of plane i \div 4 meets the cell its index names, in the same plane
         r = [i \in 0 .. 7 |-> (i \div 4) * 16 + Indices[i]]
    [] c.op = "linear" ->
         \A o \in DOMAIN r :
           LET q == Scale(p[2], p[3])
               at == Greatest(0, Least(Position(o, p[1], p[2], p[3]), (p[1] - 1) * q))
           IN /\ \A k \in 1 .. 2 : r[o][k].at \in 0 .. p[1] - 1 /\ r[o][k].w \in 0 .. q
              /\ r[o][1].w + r[o][2].w = q
              /\ r[o][1].at * r[o][1].w + r[o][2].at * r[o][2].w = at
    [] c.op = "cubic" ->
         \A o \in DOMAIN r :
           LET q == Scale(p[2], p[3])
               pos == Position(o, p[1], p[2], p[3])
               total(F(_)) == F(1) + F(2) + F(3) + F(4)
           IN /\ \A k \in 1 .. 4 : r[o][k].at \in 0 .. p[1] - 1
              /\ total(LAMBDA k : r[o][k].w) = 4 * q * q * q
              \* away from the border it reproduces a line
              /\ (pos \div q \in 1 .. p[1] - 3) =>
                   total(LAMBDA k : r[o][k].at * r[o][k].w) = 4 * q * q * pos
    [] c.op = "nearest" ->
         r = Grid(<<p[1]>> \o p[3], LAMBDA x :
               Flat(<<x[1]>> \o [d \in 1 .. 2 |-> (x[d + 1] * p[2][d]) \div p[3][d]], <<p[1]>> \o p[2]))
    [] c.op = "roi_pool" ->
         \A i \in DOMAIN r.out :
           LET x == Coord(i, <<Len(p[4]), p[2]>> \o p[5])
               plane == (p[4][x[1] + 1][1] * p[2] + x[2]) * Numel(p[3])
           IN ~r.out[i].empty =>
                /\ p[1][plane + r.out[i].index] = r.out[i].value
                /\ r.grad[i] = plane + r.out[i].index
    [] c.op = "nms" ->
         LET kept == ToSet(r.kept)
             pos(b) == CHOOSE a \in DOMAIN r.order : r.order[a] = b
         IN /\ ToSet(r.order) = DOMAIN p[1]
            /\ \A a, b \in DOMAIN r.order : a < b => p[2][r.order[a]] >= p[2][r.order[b]]
            \* exactly the boxes that overlap no better box that was kept
            /\ kept = {b \in DOMAIN p[1] :
                         ~\E a \in kept : pos(a) < pos(b) /\ Overlap(p[1][a], p[1][b], p[3])}

(* The call whose result is another: the forward pass leaves the padding   *)
(* out of the divisor (CUDNN_POOLING_AVERAGE_COUNT_EXCLUDE_PADDING,        *)
(* conv.cu:487), its gradient distributes "gradOut/(kd*kh*kw) over window" *)
(* (pool_ext.cu:417), the cells of the padding included.                   *)
WindowDeparts(c) ==
  /\ c.op = "avg_grad"
  /\ \E oc \in Coords(c.p[2]) :
       Cardinality(InWindow(oc, c.p[1], PoolWindow(c.p[3], c.p[4], c.p[5]))) < Numel(c.p[3])

-----------------------------------------------------------------------------
(* Indices: calls. *)
Lists(S, n) == UNION {[1 .. m -> S] : m \in 1 .. n}
MCWeight == [x \in 0 .. 12 |-> 2 ^ x]
Rows == {<<3, 1, 3, 0>>, <<2, 2, 2, 1>>, <<0, 1, 2, 3>>}
Small(n) == [i \in 0 .. n - 1 |-> ((i * 3) % 5) - 2]

IndexCalls ==
  {Win("tri", <<lower, 2, M, N, k>>) : lower \in BOOLEAN, M \in 2 .. 3, N \in 2 .. 3, k \in -2 .. 2}
  \cup {Win("diagonal", <<M, N, k, len>>) : M \in 2 .. 3, N \in {3}, k \in -2 .. 2, len \in 1 .. 3}
  \cup {Win("diag_flat", <<2, k, <<n, n>>>>) : k \in -1 .. 1, n \in 2 .. 3}
  \cup {Win("bincount", <<x, 2>>) : x \in Lists(-1 .. 2, 3)}
  \cup {Win("search", <<b, v, right>>) : b \in {<<1>>, <<1, 3>>, <<1, 1, 3>>, <<0, 2, 2, 2, 4>>},
                                         v \in 0 .. 4, right \in BOOLEAN}
  \cup {Win("one_hot", <<<<2, 0, 5>>, 3>>), Win("arange", <<3, -2, 4>>)}
  \cup {Win("take_along", <<Dense(<<2, 3>>), -1, [i \in 0 .. 3 |-> (i * 2) % 3], Dense(<<2, 2>>)>>),
        Win("take_along", <<Dense(<<2, 3>>), 0, [i \in 0 .. 2 |-> i % 2], Dense(<<1, 3>>)>>)}
  \cup {Win("paged", <<<<1, -1, 0, 2>>, <<2, 2>>, <<3, 1, 2>>>>)}
  \cup {Win("gather_nd", <<<<2, 3, 2>>, k, rows>>) : k \in {2}, rows \in {<<<<1, 2>>, <<0, 0>>>>}}
  \cup {Win("gather_nd", <<<<2, 3>>, 1, <<<<1>>, <<1>>, <<0>>>>>>), Win("gather_nd", <<<<2>>, 2, <<<<0, 0>>>>>>)}
  \cup {Win("select", <<<<4, 0, 5, 6>>, m>>) : m \in [1 .. 4 -> BOOLEAN]}
  \cup {Win("unique", <<x, cons>>) : x \in Lists(0 .. 2, 4), cons \in BOOLEAN}
  \cup {Win("sample", <<row, k, topp, u>>) : row \in Rows, k \in 0 .. 4,
          topp \in {<<0, 1>>, <<1, 4>>, <<1, 2>>, <<9, 10>>}, u \in 0 .. 3}
  \cup {Win("lightning", <<Small(8), Small(12), Small(4), Small(6), 2, 3, 2, 2>>)}

IndexAccepts(c) ==
  LET p == c.p IN
  CASE c.op = "diagonal" -> DiagonalAccepts(p[1], p[2], p[3], p[4])
    [] c.op = "diag_flat" -> DiagFlatAccepts(p[1], p[2], p[3])
    [] c.op = "take_along" -> TakeAlongDimAccepts(p[1], p[2], p[4].dims, p[4])
    [] c.op = "gather_nd" -> NdBuild(p[1], p[2]).accepted
    [] OTHER -> TRUE

IndexResult(c) ==
  LET p == c.p IN
  CASE c.op = "tri" -> Tri(p[1], p[2], p[3], p[4], p[5])
    [] c.op = "diagonal" -> Diagonal(p[2], p[3], p[4])
    [] c.op = "diag_flat" -> DiagFlat(p[1], p[2], p[3][1])
    [] c.op = "bincount" -> Bincount(p[1], p[2])
    [] c.op = "search" -> <<SearchSorted(p[1], p[2], p[3]), SearchSorteds(p[1], p[2], p[3])>>
    [] c.op = "one_hot" -> OneHot(p[1], p[2], 1, 0)
    [] c.op = "arange" -> Arange(p[1], p[2], p[3])
    [] c.op = "take_along" -> TakeAlongDim(p[1], p[2], p[3], p[4])
    [] c.op = "paged" -> GatherPaKvCache(p[1], p[2], p[3])
    [] c.op = "gather_nd" -> GatherNd(p[1], p[2], p[3])
    [] c.op = "select" -> [selected |-> MaskedSelect(p[1], p[2]), nonzero |-> Nonzero(p[1]),
                           back |-> MaskedScatter(<<0, 0, 0, 0>>, p[2], MaskedSelect(p[1], p[2]))]
    [] c.op = "unique" -> Unique(p[1], p[2])
    [] c.op = "sample" -> [kept |-> ApplyTopKTopP(p[1], p[2], p[3], MCWeight),
                           token |-> TopKTopPSample(p[1], p[2], p[3], p[4], 4, MCWeight)]
    [] c.op = "lightning" -> [score |-> LightningIndexer(p[1], p[2], p[3], p[5], p[6], p[7], p[8]),
                              grad |-> LightningIndexerGrad(p[4], p[1], p[2], p[5], p[6], p[7], p[8])]

SumTo(n, F(_)) == FoldLeft(LAMBDA m, i : m + F(i), 0, [i \in 1 .. n |-> i])
Head0(q, at, h, H, D) == [d \in 1 .. D |-> q[(at * H + h) * D + d - 1]]
Score(q, key, qi, ki, h, H, D) ==
  Greatest(0, SumTo(D, LAMBDA d : Head0(q, qi, h, H, D)[d] * Head0(key, ki, h, H, D)[d]))

(* The values left by the filter are the largest ones: nothing dropped is  *)
(* above what is kept, at least k are kept, and the mass reaches topp.     *)
Nucleus(row, k, topp, kept) ==
  LET in == {v \in DOMAIN row : kept[v] # Dropped}
      mass(S) == FoldSet(LAMBDA v, m : m + MCWeight[row[v]], 0, S)
      atLeast(v) == {u \in DOMAIN row : row[u] >= row[v]}
  IN /\ in # {}
     /\ \A v \in in : kept[v] = row[v] /\ atLeast(v) \subseteq in
     /\ k \in 1 .. Len(row) - 1 /\ topp[1] = 0 => Cardinality(in) >= k
     /\ k = 0 /\ topp[1] > 0 => mass(in) * topp[2] >= topp[1] * mass(DOMAIN row)

IndexIs(c, r) ==
  LET p == c.p IN
  CASE c.op = "tri" ->
         r = Grid(<<p[2], p[3], p[4]>>, LAMBDA x :
               IF (IF p[1] THEN x[3] - x[2] <= p[5] ELSE x[3] - x[2] >= p[5])
               THEN Flat(x, <<p[2], p[3], p[4]>>) ELSE Filled)
    [] c.op = "diagonal" ->
         {r[i] : i \in DOMAIN r} = {Flat(x, <<p[1], p[2]>>) : x \in {y \in Coords(<<p[1], p[2]>>) : y[2] - y[1] = p[3]}}
    [] c.op = "diag_flat" ->
         \A x \in Coords(p[3]) :
           LET e == r[Flat(x, p[3])]
           IN IF x[2] - x[1] = p[2] THEN e = (IF p[2] >= 0 THEN x[1] ELSE x[2]) ELSE e = Filled
    [] c.op = "bincount" ->
         \A v \in 0 .. p[2] - 1 : r[v] = SumTo(Len(p[1]), LAMBDA i : IF p[1][i] = v THEN 1 ELSE 0)
    [] c.op = "search" ->
         /\ r[1] = r[2]
         \* inserting the value there keeps the boundaries sorted
         /\ \A i \in DOMAIN p[1] : IF i <= r[1] THEN p[1][i] <= p[2] ELSE p[1][i] >= p[2]
         /\ \A i \in DOMAIN p[1] : p[1][i] = p[2] => (i <= r[1] <=> p[3])
    [] c.op = "one_hot" -> \A l \in 1 .. 3, k \in 0 .. 2 : r[(l - 1) * 3 + k] = (IF p[1][l] = k THEN 1 ELSE 0)
    [] c.op = "arange" -> r[0] = p[1] /\ \A i \in 1 .. p[3] - 1 : r[i] = r[i - 1] + p[2]
    [] c.op = "take_along" ->
         LET k == Axis(p[1], p[2])
         IN r = Grid(p[4].dims, LAMBDA x : Cell(p[1], [x EXCEPT ![k] = p[3][Flat(x, p[4].dims)]]))
    [] c.op = "paged" ->
         /\ r.key = Grid(<<4, 2>>, LAMBDA x : IF p[1][x[1] + 1] \in 0 .. 1 THEN 2 * p[1][x[1] + 1] + x[2] ELSE Filled)
         /\ r.value = Grid(<<4, 1, 2>>, LAMBDA x : IF p[1][x[1] + 1] \in 0 .. 2
                                                  THEN 2 * p[1][x[1] + 1] + x[3] ELSE Filled)
    [] c.op = "gather_nd" ->
         LET tail == SubSeq(p[1], p[2] + 1, Len(p[1]))
         IN r = Grid(<<Len(p[3])>> \o tail, LAMBDA x :
                  Flat(p[3][x[1] + 1] \o SubSeq(x, 2, Len(x)), p[1]))
    [] c.op = "select" ->
         /\ r.back = [i \in 1 .. 4 |-> IF p[2][i] THEN p[1][i] ELSE 0]
         /\ r.nonzero = <<0, 2, 3>>
         /\ Len(r.selected) = Cardinality({i \in 1 .. 4 : p[2][i]})
    [] c.op = "unique" ->
         \* values and counts rebuild the input, in order or as a multiset
         /\ r.count = Len(r.counts)
         /\ \A i \in DOMAIN p[1] : r.values[r.inverse[i] + 1] = p[1][i]
         /\ IF p[2]
            THEN FlattenSeq([j \in DOMAIN r.values |-> [n \in 1 .. r.counts[j] |-> r.values[j]]]) = p[1]
            ELSE \A j \in DOMAIN r.values :
                   /\ r.counts[j] = Cardinality({i \in DOMAIN p[1] : p[1][i] = r.values[j]})
                   /\ j < Len(r.values) => r.values[j] < r.values[j + 1]
         /\ \A j \in 1 .. Len(r.values) - 1 : r.values[j] # r.values[j + 1]
    [] c.op = "sample" -> Nucleus(p[1], p[2], p[3], r.kept) /\ (p[4] > 0 => r.kept[r.token + 1] # Dropped)
    [] c.op = "lightning" ->
         \* the score is linear in the weights, and its gradient is their coefficients
         \A qi \in 0 .. 1 :
           /\ \A ki \in 0 .. 2 : r.score[qi * 3 + ki] =
                SumTo(2, LAMBDA h : p[3][qi * 2 + h - 1] * Score(p[1], p[2], qi, ki, h - 1, 2, 2))
           /\ \A h \in 0 .. 1 : r.grad[qi * 2 + h] =
                SumTo(3, LAMBDA k : p[4][qi * 3 + k - 1] * Score(p[1], p[2], qi, k - 1, h, 2, 2))
=============================================================================
