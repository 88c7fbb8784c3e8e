----------------------------- MODULE MoeRouting -----------------------------
(***************************************************************************)
(* The way of a mixture-of-experts layer through the device                *)
(* (cuda/src/ops/moe.cu), in the two families of operators it offers:      *)
(*   "routing": a gate picks K experts per token, InitRouting groups the   *)
(*     T * K entries by expert, FinalizeRouting combines them per token;   *)
(*   "token": MoeTokenPermute groups T * K rows by the one expert each is  *)
(*     given, MoeTokenUnpermute puts them back;                            *)
(* and the gradients of both.                                              *)
(*                                                                         *)
(* The kernels are enqueued on one stream, so one ends before the next     *)
(* starts; the threads of one kernel run in any order.  An entry i of      *)
(* "routing" is token i \div K with its expert number i % K.  Contents are *)
(* symbolic: a sum is the bag of what was added to it.                     *)
(***************************************************************************)
EXTENDS Integers, FiniteSets, Bags

CONSTANTS
  T,          \* number of tokens, positive
  K,          \* experts per token, 1 .. E
  E,          \* number of experts
  Scores,     \* the values of a logit, integers in place of floats
  NotWritten   \* what nobody has written yet, no integer

Tokens == 0 .. T - 1
Entries == 0 .. T * K - 1
Experts == 0 .. E - 1

VARIABLES
  family,     \* which operators this layer uses
  logits,     \* the gate's input, per token and expert
  expert,     \* indices: entry -> expert
  kernel,     \* the kernel the stream is running
  todo,       \* its threads that have not started
  ws,         \* the workspace: E counts, then E running offsets
  e,          \* local of the scan: its loop index
  a,          \* local of the scan: the sum so far
  slot,       \* local of each scatter thread: the slot it got
  busy,       \* scatter threads that have a slot and have not filled it
  rows,       \* what the scatter wrote, per slot
  expY,       \* the experts' outputs, per slot
  out,        \* the layer's output, per row of its input
  gExpY,      \* gradients of the experts' outputs, per slot
  gScales,    \* gradients of the scales, per entry or per slot
  gX          \* gradients of the rows of the layer's input

scanning == <<e, a>>
scattering == <<slot, busy, rows>>
results == <<expY, out, gExpY, gScales, gX>>
rvars == <<family, logits, expert, kernel, todo, ws, scanning, scattering, results>>

(* The row of x an entry is a copy of: x[t] with t = i / K, or x[i]. *)
RowOf(i) == IF family = "routing" THEN i \div K ELSE i
Rows == IF family = "routing" THEN Tokens ELSE Entries

(* The two halves of the workspace: counts, and running = counts + E. *)
WsWords == 0 .. 2 * E - 1
Counts(x) == x
Running(x) == E + x

Fresh(S) == [s \in S |-> NotWritten]
Sums(S) == [s \in S |-> EmptyBag]

RInit ==
  /\ \/ /\ family = "routing" /\ kernel = "gate" /\ todo = Tokens
        /\ logits \in [Tokens -> [Experts -> Scores]]
        /\ expert = Fresh(Entries)
     \/ /\ family = "token" /\ kernel = "memset" /\ todo = {}
        /\ logits = Fresh(Tokens)
        /\ expert \in [Entries -> Experts]
  /\ ws = Fresh(WsWords)
  /\ e = 0 /\ a = 0
  /\ slot = Fresh(Entries) /\ busy = {} /\ rows = Fresh(Entries)
  /\ expY = Fresh(Entries) /\ out = Fresh(Rows)
  /\ gExpY = Fresh(Entries) /\ gScales = Fresh(Entries) /\ gX = Fresh(Rows)

-----------------------------------------------------------------------------
(* The gate: K times, the best of the experts not yet used; the first of   *)
(* equals wins, since a later one must be greater.                         *)
IsBest(lg, used, x) ==
  /\ x \in Experts \ used
  /\ \A y \in Experts \ used : lg[y] < lg[x] \/ (lg[y] = lg[x] /\ x <= y)

(* A gate that forgets used[best] = true. *)
MutantTopK(lg, pick) == \A n \in 0 .. K - 1 : IsBest(lg, {}, pick[n])

TopK(lg, pick) ==
  \A n \in 0 .. K - 1 : IsBest(lg, {pick[m] : m \in 0 .. n - 1}, pick[n])

GateThread(t) ==
  /\ kernel = "gate" /\ t \in todo
  /\ todo' = todo \ {t}
  /\ \E pick \in [0 .. K - 1 -> Experts] :
       /\ TopK(logits[t], pick)
       /\ expert' = [i \in Entries |-> IF RowOf(i) = t THEN pick[i % K] ELSE expert[i]]
  /\ UNCHANGED <<family, logits, kernel, ws, scanning, scattering, results>>

-----------------------------------------------------------------------------
(* InitRouting and TokenPermute: clear the counts, count, scan, scatter. *)
Memset ==
  /\ kernel = "memset"
  /\ ws' = [x \in WsWords |-> IF x \in {Counts(y) : y \in Experts} THEN 0 ELSE ws[x]]
  /\ kernel' = "hist" /\ todo' = Entries
  /\ UNCHANGED <<family, logits, expert, scanning, scattering, results>>

HistThread(i) ==
  /\ kernel = "hist" /\ i \in todo
  /\ todo' = todo \ {i}
  /\ ws' = IF expert[i] \in Experts THEN [ws EXCEPT ![Counts(expert[i])] = @ + 1] ELSE ws
  /\ UNCHANGED <<family, logits, expert, kernel, scanning, scattering, results>>

(* An inclusive scan in place of the exclusive one. *)
MutantScanStep ==
  /\ kernel = "scan" /\ e \in Experts
  /\ ws' = [ws EXCEPT ![Running(e)] = a + ws[Counts(e)]]
  /\ a' = a + ws[Counts(e)]
  /\ e' = e + 1
  /\ UNCHANGED <<family, logits, expert, kernel, todo, scattering, results>>

(* One iteration of the one thread: running[e] = a; a += counts[e]. *)
ScanStep ==
  /\ kernel = "scan" /\ e \in Experts
  /\ ws' = [ws EXCEPT ![Running(e)] = a]
  /\ a' = a + ws[Counts(e)]
  /\ e' = e + 1
  /\ UNCHANGED <<family, logits, expert, kernel, todo, scattering, results>>


(* slot = atomicAdd(&running[expert[i]], 1) *)
TakeSlot(i) ==
  /\ kernel = "scatter" /\ i \in todo
  /\ todo' = todo \ {i}
  /\ slot' = [slot EXCEPT ![i] = ws[Running(expert[i])]]
  /\ busy' = busy \cup {i}
  /\ ws' = [ws EXCEPT ![Running(expert[i])] = @ + 1]
  /\ UNCHANGED <<family, logits, expert, kernel, scanning, rows, results>>


(* rowIdx[slot] = i; expIdxOut[slot] = e; expX[slot] = x[t].  TokenPermute *)
(* writes the first and the last: its expert is read off expert[rowIdx].   *)
FillSlot(i) ==
  /\ kernel = "scatter" /\ i \in busy
  /\ busy' = busy \ {i}
  /\ rows' = [rows EXCEPT ![slot[i]] = [flat |-> i, expert |-> expert[i], x |-> RowOf(i)]]
  /\ UNCHANGED <<family, logits, expert, kernel, todo, ws, scanning, slot, results>>

-----------------------------------------------------------------------------
(* The experts, a grouped matmul outside this file: the row in slot p goes *)
(* through the expert of the slot.                                         *)
RunExperts ==
  /\ kernel = "experts"
  /\ expY' = [p \in Entries |-> <<rows[p].expert, rows[p].x>>]
  /\ out' = Sums(Rows)
  /\ kernel' = "finalize" /\ todo' = Entries
  /\ UNCHANGED <<family, logits, expert, ws, scanning, scattering, gExpY, gScales, gX>>

AddTo(sums, r, term) == [sums EXCEPT ![r] = @ (+) SetToBag({term})]

MutantFinalizeThread(p) ==
  /\ kernel = "finalize" /\ family = "routing" /\ p \in todo
  /\ todo' = todo \ {p}
  /\ out' = AddTo(out, p \div K, <<p, expY[p]>>)
  /\ UNCHANGED <<family, logits, expert, kernel, ws, scanning, scattering, expY, gExpY, gScales, gX>>

(* out[t] += scales[t, k] * expY[p], the scale being that of entry flat. *)
FinalizeThread(p) ==
  /\ kernel = "finalize" /\ family = "routing" /\ p \in todo
  /\ todo' = todo \ {p}
  /\ LET flat == rows[p].flat
     IN  out' = AddTo(out, flat \div K, <<flat, expY[p]>>)
  /\ UNCHANGED <<family, logits, expert, kernel, ws, scanning, scattering, expY, gExpY, gScales, gX>>

(* out[srcIdx[p]] += permY[p] * weight[p]: the weight is that of the slot. *)
UnpermuteThread(p) ==
  /\ kernel = "finalize" /\ family = "token" /\ p \in todo
  /\ todo' = todo \ {p}
  /\ out' = AddTo(out, rows[p].flat, <<p, expY[p]>>)
  /\ UNCHANGED <<family, logits, expert, kernel, ws, scanning, scattering, expY, gExpY, gScales, gX>>

(* gExpY[p] = scales[t, k] * gOut[t]; gScales[t, k] = gOut[t] . expY[p] *)
FinalGradThread(p) ==
  /\ kernel = "final_grad" /\ family = "routing" /\ p \in todo
  /\ todo' = todo \ {p}
  /\ LET flat == rows[p].flat
     IN  /\ gExpY' = [gExpY EXCEPT ![p] = <<flat, flat \div K>>]
         /\ gScales' = [gScales EXCEPT ![flat] = <<flat \div K, expY[p]>>]
  /\ UNCHANGED <<family, logits, expert, kernel, ws, scanning, scattering, expY, out, gX>>

(* gPermY[p] = gOut[srcIdx[p]] * w[p]; gWeight[p] = gOut[srcIdx[p]] . permY[p] *)
UnpermuteGradThread(p) ==
  /\ kernel = "final_grad" /\ family = "token" /\ p \in todo
  /\ todo' = todo \ {p}
  /\ gExpY' = [gExpY EXCEPT ![p] = <<p, rows[p].flat>>]
  /\ gScales' = [gScales EXCEPT ![p] = <<rows[p].flat, expY[p]>>]
  /\ UNCHANGED <<family, logits, expert, kernel, ws, scanning, scattering, expY, out, gX>>

MutantInitGradThread(p) ==
  /\ kernel = "init_grad" /\ family = "routing" /\ p \in todo
  /\ todo' = todo \ {p}
  /\ gX' = AddTo(gX, p \div K, <<rows[p].expert, gExpY[p]>>)
  /\ UNCHANGED <<family, logits, expert, kernel, ws, scanning, scattering, expY, out, gExpY, gScales>>

(* The experts' own gradients are outside this file; gX[t] += gExpX[p] with *)
(* t = rowIdx[p] / K.                                                       *)
InitGradThread(p) ==
  /\ kernel = "init_grad" /\ family = "routing" /\ p \in todo
  /\ todo' = todo \ {p}
  /\ gX' = AddTo(gX, rows[p].flat \div K, <<rows[p].expert, gExpY[p]>>)
  /\ UNCHANGED <<family, logits, expert, kernel, ws, scanning, scattering, expY, out, gExpY, gScales>>

(* gX[srcIdx[p]] += gPermX[p] *)
PermuteGradThread(p) ==
  /\ kernel = "init_grad" /\ family = "token" /\ p \in todo
  /\ todo' = todo \ {p}
  /\ gX' = AddTo(gX, rows[p].flat, <<rows[p].expert, gExpY[p]>>)
  /\ UNCHANGED <<family, logits, expert, kernel, ws, scanning, scattering, expY, out, gExpY, gScales>>

-----------------------------------------------------------------------------
(* The stream goes on to the next kernel when every thread of one is over. *)
Go(from, to, threads) ==
  /\ kernel = from /\ todo = {}
  /\ kernel' = to /\ todo' = threads

Gated ==
  /\ Go("gate", "memset", {})
  /\ UNCHANGED <<family, logits, expert, ws, scanning, scattering, results>>

Counted ==
  /\ Go("hist", "scan", {})
  /\ UNCHANGED <<family, logits, expert, ws, scanning, scattering, results>>

Scanned ==
  /\ e = E
  /\ Go("scan", "scatter", Entries)
  /\ UNCHANGED <<family, logits, expert, ws, scanning, scattering, results>>

Scattered ==
  /\ busy = {}
  /\ Go("scatter", "experts", {})
  /\ UNCHANGED <<family, logits, expert, ws, scanning, scattering, results>>

Finalized ==
  /\ Go("finalize", "final_grad", Entries)
  /\ UNCHANGED <<family, logits, expert, ws, scanning, scattering, results>>

Differentiated ==
  /\ Go("final_grad", "init_grad", Entries)
  /\ gX' = Sums(Rows)
  /\ UNCHANGED <<family, logits, expert, ws, scanning, scattering, expY, out, gExpY, gScales>>

RNext ==
  \/ \E t \in Tokens : GateThread(t)
  \/ Gated \/ Memset
  \/ \E i \in Entries : HistThread(i)
  \/ Counted \/ ScanStep \/ Scanned
  \/ \E i \in Entries : TakeSlot(i) \/ FillSlot(i)
  \/ Scattered \/ RunExperts
  \/ \E p \in Entries : FinalizeThread(p) \/ UnpermuteThread(p)
  \/ Finalized
  \/ \E p \in Entries : FinalGradThread(p) \/ UnpermuteGradThread(p)
  \/ Differentiated
  \/ \E p \in Entries : InitGradThread(p) \/ PermuteGradThread(p)

RoutingSpec == RInit /\ [][RNext]_rvars

-----------------------------------------------------------------------------
Below(x) == {i \in Entries : expert[i] < x}
Of(x) == {i \in Entries : expert[i] = x}
EntriesOf(r) == {i \in Entries : RowOf(i) = r}

(* The types: no kernel leaves the bounds of a tensor or of the 2 * E words *)
(* its first phase asked for.                                               *)
RoutingTypeOK ==
  /\ family \in {"routing", "token"}
  /\ kernel \in {"gate", "memset", "hist", "scan", "scatter", "experts", "finalize",
                 "final_grad", "init_grad"}
  /\ expert \in [Entries -> Experts \cup {NotWritten}]
  /\ todo \subseteq (IF kernel = "gate" THEN Tokens ELSE Entries)
  /\ busy \subseteq Entries
  /\ ws \in [WsWords -> Nat \cup {NotWritten}]
  /\ e \in 0 .. E /\ a \in Nat
  /\ slot \in [Entries -> Nat \cup {NotWritten}]
  /\ rows \in [Entries -> [flat : Entries, expert : Experts, x : Rows] \cup {NotWritten}]
  /\ DOMAIN out = Rows /\ DOMAIN gX = Rows

(* The gate picks, for each token, different experts, and none it passes   *)
(* over scores higher than one it picks (moe.cu:22, "top-K by selection"). *)
GatePicksBest ==
  family = "routing" /\ kernel # "gate" =>
    \A t \in Tokens :
      LET picked == {expert[i] : i \in EntriesOf(t)}
      IN  /\ Cardinality(picked) = K
          /\ \A x \in picked, y \in Experts \ picked : logits[t][x] >= logits[t][y]

(* No two entries share a slot, and the slot of an entry is in its         *)
(* expert's range, whatever the order in which the threads of k_hist and   *)
(* k_init_scatter meet in their atomic additions.                          *)
SlotsExclusive ==
  \A i \in Entries : slot[i] # NotWritten =>
    /\ Cardinality(Below(expert[i])) <= slot[i]
    /\ slot[i] < Cardinality(Below(expert[i])) + Cardinality(Of(expert[i]))
    /\ \A j \in Entries \ {i} : slot[j] # slot[i]

(* "weighted combine of expert outputs" (moe.cu:107): a token's output is  *)
(* the sum over its K entries of the entry's scale times the output of the *)
(* entry's expert on this token, each once; a row that TokenPermute moved  *)
(* comes back with the weight of the slot it was in.                       *)
ExpertsCombined ==
  kernel \in {"final_grad", "init_grad"} =>
    \A r \in Rows :
      out[r] = SetToBag({<<IF family = "routing" THEN i ELSE slot[i], <<expert[i], r>>>> :
                           i \in EntriesOf(r)})

(* The gradient of a row sums over the same entries as its output, each    *)
(* with its own scale, and the gradient of a scale pairs the row's output  *)
(* gradient with the output of the expert the scale weighted.              *)
GradientsFollowRoutes ==
  kernel = "init_grad" /\ todo = {} =>
    LET scale(i) == IF family = "routing" THEN i ELSE slot[i]
    IN  /\ \A r \in Rows :
             gX[r] = SetToBag({<<expert[i], <<scale(i), r>>>> : i \in EntriesOf(r)})
        /\ \A i \in Entries : gScales[scale(i)] = <<RowOf(i), <<expert[i], RowOf(i)>>>>
=============================================================================
