---------------------------- MODULE IndexKernels ----------------------------
(***************************************************************************)
(* The operators of cuda/src/ops/index_ext.cu, and the index operators of  *)
(* shape.cu, whose threads do not meet in one output cell.  Data are       *)
(* functions on flat indices or, where the source scans them, sequences;   *)
(* index values are the source's 0-based ones.                             *)
(***************************************************************************)
EXTENDS TensorLayout

-----------------------------------------------------------------------------
(* Diagonals.  k_tri as an index map: Filled is the zero it writes. *)
Tri(lower, outer, M, N, k) ==
  [i \in 0 .. outer * M * N - 1 |->
     LET col == i % N
         row == (i \div N) % M
     IN IF (IF lower THEN col <= row + k ELSE col >= row + k) THEN i ELSE Filled]

(* k_trace: the cells it adds up. *)
Trace(M, N) == {i * N + i : i \in 0 .. (IF M < N THEN M ELSE N) - 1}

RowOffset(offset) == IF offset >= 0 THEN 0 ELSE -offset
ColOffset(offset) == IF offset >= 0 THEN offset ELSE 0

DiagonalLen(M, N, offset) ==
  LET rows == M - RowOffset(offset)
      cols == N - ColOffset(offset)
      len == IF rows < cols THEN rows ELSE cols
  IN IF len < 0 THEN 0 ELSE len

DiagonalAccepts(M, N, offset, outLen) == outLen = DiagonalLen(M, N, offset)
Diagonal(N, offset, outLen) ==
  [i \in 0 .. outLen - 1 |-> (RowOffset(offset) + i) * N + (ColOffset(offset) + i)]

DiagFlatAccepts(L, offset, outDims) ==
  outDims[2] = outDims[1] /\ outDims[1] = L + (IF offset < 0 THEN -offset ELSE offset)
(* The memset and the cells k_diagflat_set then writes. *)
DiagFlat(L, offset, S) ==
  LET at(i) == (RowOffset(offset) + i) * S + (ColOffset(offset) + i)
  IN [j \in 0 .. S * S - 1 |->
        IF \E i \in 0 .. L - 1 : at(i) = j THEN CHOOSE i \in 0 .. L - 1 : at(i) = j ELSE Filled]

-----------------------------------------------------------------------------
(* Counting and searching. *)
Bincount(x, C) == [v \in 0 .. C - 1 |-> Cardinality({i \in DOMAIN x : x[i] = v})]

(* Mutant: equal boundaries go left whatever the side asked for. *)
MutantSearchSorted(bnd, v, right) == Cardinality({i \in DOMAIN bnd : bnd[i] < v})

(* k_searchsorted's bisection of ends = <<lo, hi>> over bnd[1 .. B]. *)
SearchSorted(bnd, v, right) ==
  LET bisect[ends \in (0 .. Len(bnd)) \X (0 .. Len(bnd))] ==
        LET mid == (ends[1] + ends[2]) \div 2
            bm == bnd[mid + 1]
        IN IF ends[1] >= ends[2] THEN ends[1]
           ELSE IF (right /\ bm <= v) \/ (~right /\ bm < v)
                THEN bisect[<<mid + 1, ends[2]>>] ELSE bisect[<<ends[1], mid>>]
  IN bisect[<<0, Len(bnd)>>]

(* k_searchsorteds, the entry for one scalar: it counts instead. *)
SearchSorteds(bnd, v, right) ==
  Cardinality({i \in DOMAIN bnd : (right /\ bnd[i] <= v) \/ (~right /\ bnd[i] < v)})

Arange(start, step, n) == [i \in 0 .. n - 1 |-> start + i * step]

OneHot(ids, C, on, off) ==
  [i \in 0 .. Len(ids) * C - 1 |-> IF ids[i \div C + 1] = i % C THEN on ELSE off]

-----------------------------------------------------------------------------
(* Gathers. *)
TakeAccepts(index, outNumel) == outNumel = Len(index)
Take(index) == [i \in 0 .. Len(index) - 1 |-> index[i + 1]]

TakeAlongDimAccepts(self, dim0, idims, out) ==
  LET dim == Normal(dim0, Len(self.dims))
  IN /\ dim \in 0 .. Len(self.dims) - 1
     /\ Len(idims) = Len(self.dims)
     /\ idims = out.dims
     /\ Contiguous(self)

(* k_take_along: the coordinate along dim comes from index. *)
TakeAlongDim(self, dim0, index, out) ==
  LET g == Normal(dim0, Len(self.dims)) + 1
  IN [i \in 0 .. Numel(out.dims) - 1 |->
        Flat([Coord(i, out.dims) EXCEPT ![g] = index[i]], self.dims)]

(* k_row_gather: rows of D cells; a row number out of range gives zeroes. *)
RowGather(idx, D, N) ==
  [p \in 0 .. Len(idx) * D - 1 |->
     LET r == idx[p \div D + 1] IN IF r \in 0 .. N - 1 THEN r * D + (p % D) ELSE Filled]

(* The key and the value cache, each with its own row length and row count. *)
GatherPaKvCache(slots, keyDims, valueDims) ==
  [key |-> RowGather(slots, Inner(keyDims, 1), keyDims[1]),
   value |-> RowGather(slots, Inner(valueDims, 1), valueDims[1])]

(* NdDesc: the first K dims of data are indexed, the rest is one slice. *)
NdBuild(dims, K) ==
  [accepted |-> K \in 1 .. Len(dims),
   stride |-> Strides(dims),
   slice |-> Numel(SubSeq(dims, K + 1, Len(dims)))]

(* rows: the sequence of K-tuples the index tensor holds. *)
NdBase(row, d) == Dot(row, d.stride)
GatherNd(dims, K, rows) ==
  LET d == NdBuild(dims, K)
  IN [e \in 0 .. Len(rows) * d.slice - 1 |->
        NdBase(rows[e \div d.slice + 1], d) + (e % d.slice)]

-----------------------------------------------------------------------------
(* Order-preserving compaction, one thread scanning sequences. *)
MaskedSelect(x, mask) ==
  FoldLeft(LAMBDA out, i : IF mask[i] THEN Append(out, x[i]) ELSE out,
           <<>>, [i \in DOMAIN x |-> i])

Nonzero(x) ==
  FoldLeft(LAMBDA out, i : IF x[i] # 0 THEN Append(out, i - 1) ELSE out,
           <<>>, [i \in DOMAIN x |-> i])

(* out starts as a copy of self; the masked cells take src in order. *)
MaskedScatter(self, mask, src) ==
  FoldLeft(LAMBDA st, i : IF mask[i]
                          THEN [out |-> [st.out EXCEPT ![i] = src[st.pos]], pos |-> st.pos + 1]
                          ELSE st,
           [out |-> self, pos |-> 1], [i \in DOMAIN self |-> i]).out

-----------------------------------------------------------------------------
(* Unique: k_sort1 on a copy, then k_dedup, then k_inverse on the input. *)
Sort1(a) ==
  LET least(s, i) == CHOOSE b \in i .. Len(s) : \A j \in i .. Len(s) :
                       s[b] < s[j] \/ (s[b] = s[j] /\ b <= j)
      swap(s, i) == LET b == least(s, i) IN [s EXCEPT ![i] = s[b], ![b] = s[i]]
  IN FoldLeft(swap, a, [i \in DOMAIN a |-> i])

Dedup(src) ==
  FoldLeft(LAMBDA st, i :
             IF i = 1 \/ src[i] # src[i - 1]
             THEN [values |-> Append(st.values, src[i]), counts |-> Append(st.counts, 1)]
             ELSE [st EXCEPT !.counts[Len(st.counts)] = @ + 1],
           [values |-> <<>>, counts |-> <<>>], [i \in DOMAIN src |-> i])

InverseOf(in, values) ==
  [i \in DOMAIN in |->
     IF \E j \in DOMAIN values : values[j] = in[i]
     THEN (CHOOSE j \in DOMAIN values : /\ values[j] = in[i]
                                        /\ \A k \in 1 .. j - 1 : values[k] # in[i]) - 1
     ELSE 0]

Unique(in, consecutive) ==
  LET d == Dedup(IF consecutive THEN in ELSE Sort1(in))
  IN [values |-> d.values, counts |-> d.counts, count |-> Len(d.values),
      inverse |-> InverseOf(in, d.values)]

-----------------------------------------------------------------------------
(* Sampling.  A row of logits is a sequence of numbers; exp is the weight  *)
(* function given, an increasing function to the positive integers.        *)
Dropped == -1000

Largest(S) == CHOOSE x \in S : \A y \in S : y <= x

(* The k-th largest distinct value, or Dropped when the row has fewer. *)
KthDistinct(row, k) ==
  FoldLeft(LAMBDA thr, kk :
             LET below == {row[v] : v \in {u \in DOMAIN row : kk = 1 \/ row[u] < thr}}
             IN IF below = {} THEN Dropped ELSE Largest(below),
           Dropped, [kk \in 1 .. k |-> kk])

TopK(row, k) ==
  IF k > 0 /\ k < Len(row)
  THEN LET thr == KthDistinct(row, k)
       IN [v \in DOMAIN row |-> IF row[v] < thr THEN Dropped ELSE row[v]]
  ELSE row

(* topp is the quotient p / q; a value that occurs twice is counted once. *)
TopP(row, topp, Weight) ==
  LET sm == FoldLeft(LAMBDA n, x : IF x = Dropped THEN n ELSE n + Weight[x], 0, row)
      scan[prev \in Int, cum \in Nat] ==
        LET left == {row[v] : v \in {u \in DOMAIN row : row[u] # Dropped /\ row[u] < prev}}
            best == Largest(left)
        IN IF left = {} THEN Dropped
           ELSE IF (cum + Weight[best]) * topp[2] >= topp[1] * sm THEN best
           ELSE scan[best, cum + Weight[best]]
      keep == scan[1000, 0]
  IN IF topp[1] > 0 /\ topp[1] < topp[2]
     THEN [v \in DOMAIN row |-> IF row[v] < keep THEN Dropped ELSE row[v]]
     ELSE row

ApplyTopKTopP(row, k, topp, Weight) == TopP(TopK(row, k), topp, Weight)

(* k_sample: the first token whose cumulated weight reaches u of the sum, *)
(* u a draw in 0 .. parts - 1 over parts; a dropped token weighs nothing. *)
Sample(row, u, parts, Weight) ==
  LET mass(n) == FoldLeft(LAMBDA m, x : IF x = Dropped THEN m ELSE m + Weight[x],
                          0, SubSeq(row, 1, n))
      reached == {n \in DOMAIN row : mass(n) * parts >= u * mass(Len(row))}
  IN IF reached = {} THEN Len(row) - 1
     ELSE (CHOOSE n \in reached : \A m \in reached : n <= m) - 1

TopKTopPSample(row, k, topp, u, parts, Weight) ==
  Sample(ApplyTopKTopP(row, k, topp, Weight), u, parts, Weight)

-----------------------------------------------------------------------------
(* The lightning indexer: q is [Q, H, D], key [K, H, D], w [Q, H], flat. *)
DotQK(q, key, qi, ki, h, H, D) ==
  FoldLeft(LAMBDA n, d : n + q[(qi * H + h) * D + d - 1] * key[(ki * H + h) * D + d - 1],
           0, [d \in 1 .. D |-> d])
Relu(x) == IF x > 0 THEN x ELSE 0

LightningIndexer(q, key, w, Q, K, H, D) ==
  [i \in 0 .. Q * K - 1 |->
     FoldLeft(LAMBDA acc, h : acc + w[(i \div K) * H + h - 1]
                                    * Relu(DotQK(q, key, i \div K, i % K, h - 1, H, D)),
              0, [h \in 1 .. H |-> h])]

(* Its gradient with respect to w, from the gradient g of the scores. *)
LightningIndexerGrad(g, q, key, Q, K, H, D) ==
  [i \in 0 .. Q * H - 1 |->
     FoldLeft(LAMBDA acc, k : acc + g[(i \div H) * K + k - 1]
                                    * Relu(DotQK(q, key, i \div H, k - 1, i % H, H, D)),
              0, [k \in 1 .. K |-> k])]

(* AllGatherAdd on its single rank: the bias repeats. *)
AllGatherAdd(x, b) == [i \in DOMAIN x |-> x[i] + (IF b = <<>> THEN 0 ELSE b[((i - 1) % Len(b)) + 1])]
=============================================================================
