----------------------------- MODULE MCKernels -----------------------------
(***************************************************************************)
(* The kernels.  Most operators compute each output cell in one thread:    *)
(* every call of the families below is made once, in its two phases, and   *)
(* compared with its definition.  Where threads, warps or host threads     *)
(* share state they interleave: the scatters, the block reductions, the    *)
(* mixture-of-experts layer and the convolution algorithm cache.  The      *)
(* size-class loop of the allocator runs beside them.  An initial state    *)
(* starts one of these machines; the others are at rest.  The layer has    *)
(* two tokens and three experts: one may get no entry, one or two from the *)
(* gate, and up to four from a caller of MoeTokenPermute.                  *)
(***************************************************************************)
EXTENDS ScatterKernels, BlockReduction, ConvAlgorithms, MoeRouting, BucketLoop, OperatorCalls, TLC

Copies == INSTANCE MCCopies
Dense == INSTANCE MCDense
RowOps == INSTANCE MCRows
Elements == INSTANCE MCElements
Attention == INSTANCE MCAttention
Matrices == INSTANCE MCMatmul

-----------------------------------------------------------------------------
(* Calls of an operator are tagged with the family that makes them. *)
Family(f, S) == {[family |-> f, request |-> c] : c \in S}
MCHif8Calls == Family("matmul", Matrices!Hif8Calls)
MCCalls == Family("shape", Copies!ShapeCalls) \cup Family("window", Copies!WindowCalls)
           \cup Family("index", Copies!IndexCalls) \cup Family("conv", Dense!DenseCallsConv)
           \cup Family("reduce", RowOps!RowsCallsReduce) \cup Family("norm", RowOps!NormCalls)
           \cup Family("loss", Elements!LossCalls) \cup Family("element", Elements!ElementCalls)
           \cup Family("attention", Attention!AttentionCalls)
           \cup Family("matmul", Matrices!MatrixCalls)

FirstPhaseAccepts(c) ==
  CASE c.family = "shape" -> Copies!ShapeAccepts(c.request)
    [] c.family = "window" -> Copies!WindowAccepts(c.request)
    [] c.family = "index" -> Copies!IndexAccepts(c.request)
    [] c.family = "conv" -> Dense!ConvAccepts(c.request)
    [] c.family = "reduce" -> RowOps!ReduceAccepts(c.request)
    [] c.family = "norm" -> RowOps!NormAccepts(c.request)
    [] c.family = "loss" -> Elements!LossAccepts(c.request)
    [] c.family = "element" -> Elements!ElementAccepts(c.request)
    [] c.family = "attention" -> Attention!AttentionAccepts(c.request)
    [] c.family = "matmul" -> Matrices!MatrixAccepts(c.request)

Output(c) ==
  CASE c.family = "shape" -> Copies!ShapeResult(c.request)
    [] c.family = "window" -> Copies!WindowResult(c.request)
    [] c.family = "index" -> Copies!IndexResult(c.request)
    [] c.family = "conv" -> Dense!ConvResult(c.request)
    [] c.family = "reduce" -> RowOps!ReduceResult(c.request)
    [] c.family = "norm" -> RowOps!NormResult(c.request)
    [] c.family = "loss" -> Elements!LossResult(c.request)
    [] c.family = "element" -> Elements!ElementResult(c.request)
    [] c.family = "attention" -> Attention!AttentionResult(c.request)
    [] c.family = "matmul" -> Matrices!MatrixResult(c.request)

(* The scatters: lists with repeated rows, a row out of range where the    *)
(* kernel checks, an index the planning divides by, rows of two cells, a   *)
(* row no thread writes.                                                   *)
Scatter(kind, idx, src, row, N, self) ==
  [kind |-> kind, idx |-> idx, src |-> src, row |-> row, N |-> N,
   self |-> [j \in 0 .. Len(self) - 1 |-> self[j + 1]]]

MCScatterCalls ==
  {Scatter(k, <<1, 0, 1>>, <<3, 1, 4>>, 1, 2, <<2, 2>>) : k \in Adds \cup Stores \cup Loops}
  \cup {Scatter(k, <<1, 1>>, <<3, 4>>, 1, 2, <<2, 2>>) : k \in {"scatter_nd", "index_put", "embedding_backward"}}
  \cup {Scatter(k, <<1, 1>>, <<3, 2, 4, 5>>, 2, 2, <<1, 1, 2, 3>>) : k \in {"scatter_add", "index_copy", "scatter_max"}}
  \cup {Scatter(k, <<2, 0, -1>>, <<3, 1, 4>>, 1, 2, <<2, 2>>) : k \in Checked}
  \cup {Scatter(k, <<>>, <<1>>, 1, 2, <<2, 2>>) : k \in {"scatter_update", "scatter_add"}}
  \cup {Scatter("renorm", idx, <<2>>, 1, 2, <<8, 4>>) : idx \in {<<0, 1>>, <<1, 1>>}}

(* Two host threads call a 2-d convolution of one shape, a third a 3-d     *)
(* one; in Conv3d.cfg two threads call the 3-d one.                        *)
MCConvKind == [t \in HostThreads |-> IF t = "h3" THEN "3d" ELSE "2d"]
MC3dKind == [t \in HostThreads |-> IF t = "h1" THEN "2d" ELSE "3d"]

(* A 9-bit size_t with the limit at 2^4 and the granule at 2^5, the ratio  *)
(* of the code's 2^20 and 2^21.                                            *)
MCSmallLimit == 16
MCGranule == 32
MCWordMod == 512
MCLastWord == 511

-----------------------------------------------------------------------------
(* The machines at rest. *)
NoCall == call = [family |-> "none", request |-> [op |-> "none"]] /\ phase = "rejected" /\ result = Unwritten
NoScatter == /\ scall = Scatter("none", <<>>, <<>>, 1, 0, <<>>) /\ sphase = "done"
             /\ buffer = <<>> /\ spc = <<>> /\ seen = <<>>
NoBlock == /\ helper = "none" /\ wpc = [w \in Ids |-> "done"] /\ round = [w \in Ids |-> Rounds]
           /\ arrived = [w \in Ids |-> 0] /\ sh = [w \in Ids |-> 0]
           /\ got = [w \in Ids |-> [r \in 1 .. Rounds |-> -1]]
NoConvolution ==
  /\ algorithm = [k \in {"2d", "3d"} |-> NoAlgorithm] /\ at = [t \in HostThreads |-> "idle"]
  /\ during = [t \in HostThreads |-> "plan"] /\ picked = [t \in HostThreads |-> NoAlgorithm]
  /\ sizedFor = [t \in HostThreads |-> NoAlgorithm] /\ calls = [t \in HostThreads |-> CallsEach]
NoRequest == n = 1 /\ b = 1 /\ pc = "done"
Blank == [i \in Entries |-> NotWritten]
NoLayer ==
  /\ family = "none" /\ kernel = "none" /\ todo = {} /\ busy = {} /\ e = 0 /\ a = 0
  /\ logits = Blank /\ expert = Blank /\ ws = Blank /\ slot = Blank /\ rows = Blank
  /\ expY = Blank /\ out = Blank /\ gExpY = Blank /\ gScales = Blank /\ gX = Blank

KInit ==
  \/ CInit /\ NoScatter /\ NoBlock /\ NoConvolution /\ NoRequest /\ NoLayer
  \/ NoCall /\ SInit /\ NoBlock /\ NoConvolution /\ NoRequest /\ NoLayer
  \/ NoCall /\ NoScatter /\ BInit /\ NoConvolution /\ NoRequest /\ NoLayer
  \/ NoCall /\ NoScatter /\ NoBlock /\ AInit /\ NoRequest /\ NoLayer
  \/ NoCall /\ NoScatter /\ NoBlock /\ NoConvolution /\ Init /\ NoLayer
  \/ NoCall /\ NoScatter /\ NoBlock /\ NoConvolution /\ NoRequest /\ RInit

KNext ==
  \/ CNext /\ UNCHANGED <<svars, bvars, avars, vars, rvars>>
  \/ SNext /\ UNCHANGED <<cvars, bvars, avars, vars, rvars>>
  \/ BNext /\ UNCHANGED <<cvars, svars, avars, vars, rvars>>
  \/ ANext /\ UNCHANGED <<cvars, svars, bvars, vars, rvars>>
  \/ Next /\ UNCHANGED <<cvars, svars, bvars, avars, rvars>>
  \/ RNext /\ UNCHANGED <<cvars, svars, bvars, avars, vars>>

(* A launched grid runs to its end, and so does sequential host code. *)
KSpec == KInit /\ [][KNext]_<<cvars, svars, bvars, avars, vars, rvars>> /\ SFairness /\ WF_vars(Next)

-----------------------------------------------------------------------------
(* The second phase of a call of family f runs. *)
Runs(f) == phase = "accepted" /\ phase' = "done" /\ call.family = f

(* In the properties of this section X computes what its name says, ...Is, *)
(* for every call but the ones ...Departs names, and those it gets wrong:  *)
(* each of them is a disagreement of the code with its own comment, quoted *)
(* there.                                                                  *)

(* The copying operators of shape.cu give every output cell the element    *)
(* its coordinates name, whatever the strides and offset of the input, and *)
(* their first phase accepts only outputs of the right extent.             *)
ShapesCompute ==
  [][Runs("shape") => (Copies!ShapeIs(call.request, result') <=> ~Copies!ShapeDeparts(call.request))]_cvars

(* Padding, unfolding, pooling, unpooling, upsampling, region pooling and  *)
(* suppression (shape.cu, pool_ext.cu, conv.cu) read the window they       *)
(* should; the gradients visit exactly the cells the forward pass read,    *)
(* and divide an average by the number it was divided by.                  *)
WindowsCompute ==
  [][Runs("window") => (Copies!WindowIs(call.request, result') <=> ~Copies!WindowDeparts(call.request))]_cvars

(* The index operators (index_ext.cu): bisection agrees with counting,     *)
(* compaction and scattering are inverse, unique rebuilds its input, the   *)
(* filter keeps an upper set of enough mass, and a sampled token was kept. *)
IndexingComputes == [][Runs("index") => Copies!IndexIs(call.request, result')]_cvars

(* The convolutions of conv.cu sum over the window, the group and the      *)
(* dilation they are given, and their gradients are the adjoints.          *)
ConvolutionsCompute == [][Runs("conv") => Dense!ConvIs(call.request, result')]_cvars

(* A row is reduced, scanned, sorted or normalised over exactly its own    *)
(* elements, whichever kernel, block size or register path is chosen       *)
(* (reduce.cu, sort.cu, softmax.cu, layernorm.cu, norm_ext.cu), and the    *)
(* gradients asked for each land in their own tensor.                      *)
RowsCompute ==
  [][/\ Runs("reduce") => RowOps!ReduceIs(call.request, result')
     /\ Runs("norm") => (RowOps!NormIs(call.request, result') <=> ~RowOps!NormDeparts(call.request))]_cvars

(* Losses and their gradients, comparisons, element-wise and per-tensor    *)
(* list operators (loss.cu, compare.cu, elementwise.cu, foreach_ext.cu,    *)
(* inplace_ext.cu) compute the formula of their name at every element,     *)
(* through broadcasting and every fused path.                              *)
ElementsCompute ==
  [][/\ Runs("loss") => Elements!LossIs(call.request, result')
     /\ Runs("element") => (Elements!ElementIs(call.request, result') <=> ~Elements!ElementDeparts(call.request))]_cvars

(* Every attention path (attention.cu, mla.cu) weighs the same keys: the   *)
(* tiled and paged passes with their running maximum, grouped heads, masks *)
(* and windows agree with the plain softmax over the visible keys.         *)
AttentionComputes == [][Runs("attention") => Attention!AttentionIs(call.request, result')]_cvars

(* Every path of a matrix product (matmul.cu) multiplies the same numbers: *)
(* unpacked, swizzled, dequantised first or fused, transposed, grouped; a  *)
(* path the library declines is redone, and no path lays out more than the *)
(* workspace the first phase asked for.  The codes of the operands         *)
(* (subfp.cuh, hif8.cuh, cast.cu) and the quantisers (quant.cu) pick the   *)
(* nearest value there is, with a scale that fits the whole row.  An      *)
(* Einsum equation (blas_ext.cu) is the sum over its labels.             *)
MatmulsCompute ==
  [][Runs("matmul") => (Matrices!MatrixIs(call.request, result') <=> ~Matrices!MatrixDeparts(call.request))]_cvars

(* hif8.cuh:7 says of the encoder: "overflow handled via a virtual         *)
(* next-level 49152 -> RNE threshold 40960 -> inf".  Hif8Overflow.cfg.     *)
OverflowIsInfinity ==
  phase = "done" /\ call.family = "matmul" => Matrices!OverflowIs(call.request, result)

(* Every grid ends: no compare-and-swap loop retries for ever.             *)
GridsDrain == <>(sphase \in {"rejected", "fault", "done"})
=============================================================================
