----------------------------- MODULE MoeProofs -----------------------------
(***************************************************************************)
(* Proofs about the routing of a mixture-of-experts layer, for any number  *)
(* of tokens, experts and picks: what the gate picks, and that the slots   *)
(* the threads of the scatter draw are their own.                          *)
(***************************************************************************)
EXTENDS MoeRouting, FiniteSetTheorems, TLAPS

(* Sizes as the program has to choose them; the code checks neither.  A    *)
(* gate with more picks than experts reads before the scores.              *)
Sizes ==
  /\ T \in Nat /\ E \in Nat /\ K \in 1 .. E
  /\ Scores \subseteq Int
  /\ NotWritten \notin Int

LEMMA RowsOfEntries ==
  ASSUME Sizes, NEW j \in Entries
  PROVE  j \div K \in Tokens /\ j % K \in 0 .. K - 1
<1>1. T \in Nat /\ K \in Nat \ {0} /\ j \in Nat /\ j < T * K
  BY DEF Sizes, Entries
<1>2. PICK q, r \in Int : q = j \div K /\ r = j % K
  BY <1>1
<1>3. j = K * q + r /\ 0 <= r /\ r < K
  BY <1>1, <1>2
<1>4. q >= 0
  <2>1. SUFFICES ASSUME q <= -1 PROVE FALSE
    BY <1>2
  <2>2. K * q <= K * (-1)
    BY <1>1, <2>1
  <2> QED BY <1>1, <1>3, <2>2
<1>5. q < T
  <2>1. SUFFICES ASSUME q >= T PROVE FALSE
    BY <1>1, <1>2
  <2>2. K * q >= K * T
    BY <1>1, <2>1
  <2> QED BY <1>1, <1>3, <2>2
<1> QED BY <1>1, <1>2, <1>3, <1>4, <1>5 DEF Tokens

LEMMA EntryOfRow ==
  ASSUME Sizes, NEW t \in Tokens, NEW n \in 0 .. K - 1
  PROVE  /\ t * K + n \in Entries
         /\ (t * K + n) \div K = t
         /\ (t * K + n) % K = n
<1>1. T \in Nat /\ K \in Nat \ {0} /\ t \in Nat /\ t <= T - 1 /\ n \in Nat /\ n < K
  BY DEF Sizes, Tokens
<1>2. PICK j \in Nat : j = t * K + n
  BY <1>1
<1>3. j < T * K
  <2>1. t * K <= (T - 1) * K
    BY <1>1
  <2>2. (T - 1) * K = T * K - K
    BY <1>1
  <2> QED BY <1>1, <1>2, <2>1, <2>2
<1>4. PICK q, r \in Int : q = j \div K /\ r = j % K
  BY <1>1, <1>2
<1>5. j = K * q + r /\ 0 <= r /\ r < K
  BY <1>1, <1>2, <1>4
<1>6. q = t
  <2>1. CASE q >= t + 1
    <3>1. K * q >= K * (t + 1)
      BY <1>1, <2>1
    <3>2. K * (t + 1) = t * K + K
      BY <1>1
    <3> QED BY <1>1, <1>2, <1>5, <3>1, <3>2
  <2>2. CASE q <= t - 1
    <3>1. K * q <= K * (t - 1)
      BY <1>1, <2>2
    <3>2. K * (t - 1) = t * K - K
      BY <1>1
    <3> QED BY <1>1, <1>2, <1>5, <3>1, <3>2
  <2> QED BY <1>1, <1>4, <2>1, <2>2
<1>7. r = n
  BY <1>1, <1>2, <1>5, <1>6
<1>8. j \in Entries
  BY <1>1, <1>2, <1>3 DEF Entries
<1> QED BY <1>2, <1>4, <1>6, <1>7, <1>8

-----------------------------------------------------------------------------
(* The experts of a token are the picks of a gate, once its thread is over *)
(* or the caller has given them.                                           *)
GatedAs(t, pick) ==
  /\ TopK(logits[t], pick)
  /\ \A j \in Entries : RowOf(j) = t => expert[j] = pick[j % K]
Gated1(t) == \E pick \in [0 .. K - 1 -> Experts] : GatedAs(t, pick)

Kernels == {"gate", "memset", "hist", "scan", "scatter", "experts", "finalize",
            "final_grad", "init_grad"}

GateInv ==
  /\ kernel \in Kernels /\ family \in {"routing", "token"}
  /\ expert \in [Entries -> Experts \cup {NotWritten}]
  /\ family = "routing" =>
       /\ logits \in [Tokens -> [Experts -> Scores]]
       /\ \A t \in Tokens : (kernel = "gate" /\ t \in todo) \/ Gated1(t)
  /\ family = "token" => kernel # "gate" /\ expert \in [Entries -> Experts]

LEMMA GateTells ==
  ASSUME Sizes, GateInv, kernel # "gate"
  PROVE  expert \in [Entries -> Experts]
<1>1. CASE family = "token"
  BY <1>1 DEF GateInv
<1>2. CASE family = "routing"
  <2>1. SUFFICES ASSUME NEW j \in Entries PROVE expert[j] \in Experts
    BY DEF GateInv
  <2>2. j \div K \in Tokens /\ j % K \in 0 .. K - 1
    BY RowsOfEntries
  <2>3. PICK t \in Tokens : t = RowOf(j)
    BY <1>2, <2>2 DEF RowOf
  <2>4. PICK pick \in [0 .. K - 1 -> Experts] : GatedAs(t, pick)
    BY <1>2 DEF GateInv, Gated1
  <2> QED BY <2>2, <2>3, <2>4 DEF GatedAs
<1> QED BY <1>1, <1>2 DEF GateInv

LEMMA GateInit ==
  ASSUME Sizes, RInit
  PROVE  GateInv
BY DEF RInit, GateInv, Kernels, Fresh

(* Every other step leaves the gate's work alone. *)
LEMMA GateStep ==
  ASSUME Sizes, GateInv, [RNext]_rvars
  PROVE  GateInv'
<1>1. CASE \E t \in Tokens : GateThread(t)
  <2>1. PICK t \in Tokens : GateThread(t)
    BY <1>1
  <2>2. PICK pick \in [0 .. K - 1 -> Experts] :
          /\ TopK(logits[t], pick)
          /\ expert' = [j \in Entries |-> IF RowOf(j) = t THEN pick[j % K] ELSE expert[j]]
    BY <2>1 DEF GateThread
  <2>3. /\ kernel = "gate" /\ kernel' = "gate" /\ todo' = todo \ {t}
        /\ family' = family /\ logits' = logits
    BY <2>1 DEF GateThread
  <2>4. family = "routing"
    BY <2>3 DEF GateInv
  <2>5. \A j \in Entries : j % K \in 0 .. K - 1 /\ RowOf(j)' = RowOf(j)
    BY <2>3, RowsOfEntries DEF RowOf
  <2>6. expert' \in [Entries -> Experts \cup {NotWritten}]
    BY <2>2, <2>5 DEF GateInv
  <2>7. ASSUME NEW u \in Tokens, ~(kernel' = "gate" /\ u \in todo') PROVE Gated1(u)'
    <3>1. CASE u = t
      <4>1. GatedAs(t, pick)'
        BY <2>2, <2>3, <2>5 DEF GatedAs
      <4> QED BY <3>1, <4>1 DEF Gated1
    <3>2. CASE u # t
      <4>1. PICK q \in [0 .. K - 1 -> Experts] : GatedAs(u, q)
        BY <2>3, <2>4, <2>7, <3>2 DEF GateInv, Gated1
      <4>2. GatedAs(u, q)'
        BY <2>2, <2>3, <2>5, <3>2, <4>1 DEF GatedAs
      <4> QED BY <4>2 DEF Gated1
    <3> QED BY <3>1, <3>2
  <2> QED BY <2>3, <2>4, <2>6, <2>7 DEF GateInv, Kernels
<1>2. ASSUME UNCHANGED <<family, logits, expert>>,
             \/ UNCHANGED <<kernel, todo>>
             \/ kernel = "gate" /\ todo = {} /\ kernel' \in Kernels \ {"gate"}
             \/ kernel # "gate" /\ kernel' \in Kernels \ {"gate"}
      PROVE  GateInv'
  <2>1. \A t : Gated1(t)' <=> Gated1(t)
    BY <1>2 DEF Gated1, GatedAs, RowOf
  <2> QED BY <1>2, <2>1 DEF GateInv
<1>3. CASE UNCHANGED rvars
  BY <1>2, <1>3 DEF rvars
<1>4. CASE Gated \/ Memset \/ Counted \/ ScanStep \/ Scanned \/ Scattered
  BY <1>2, <1>4 DEF Gated, Memset, Counted, ScanStep, Scanned, Scattered, Go, Kernels
<1>5. CASE RunExperts \/ Finalized \/ Differentiated
  BY <1>2, <1>5 DEF RunExperts, Finalized, Differentiated, Go, Kernels
<1>6. ASSUME NEW j \in Entries, HistThread(j) \/ TakeSlot(j) \/ FillSlot(j) PROVE GateInv'
  BY <1>2, <1>6 DEF HistThread, TakeSlot, FillSlot, Kernels
<1>7. ASSUME NEW p \in Entries, FinalizeThread(p) \/ UnpermuteThread(p) PROVE GateInv'
  BY <1>2, <1>7 DEF FinalizeThread, UnpermuteThread, Kernels
<1>8. ASSUME NEW p \in Entries, FinalGradThread(p) \/ UnpermuteGradThread(p) PROVE GateInv'
  BY <1>2, <1>8 DEF FinalGradThread, UnpermuteGradThread, Kernels
<1>9. ASSUME NEW p \in Entries, InitGradThread(p) \/ PermuteGradThread(p) PROVE GateInv'
  BY <1>2, <1>9 DEF InitGradThread, PermuteGradThread, Kernels
<1> QED BY <1>1, <1>3, <1>4, <1>5, <1>6, <1>7, <1>8, <1>9 DEF RNext

LEMMA GateInvariant ==
  ASSUME Sizes
  PROVE  RoutingSpec => []GateInv
<1>1. RInit => GateInv
  BY GateInit
<1>2. GateInv /\ [RNext]_rvars => GateInv'
  BY GateStep
<1> QED BY <1>1, <1>2, PTL DEF RoutingSpec

(* K picks, none of them twice. *)
LEMMA PicksDiffer ==
  ASSUME Sizes, NEW lg, NEW pick \in [0 .. K - 1 -> Experts], TopK(lg, pick),
         NEW picked, picked = {pick[n] : n \in 0 .. K - 1}
  PROVE  Cardinality(picked) = K
<1>1. K \in Nat /\ K >= 1
  BY DEF Sizes
<1>2. pick \in Bijection(0 .. K - 1, picked)
  <2>1. ASSUME NEW m \in 0 .. K - 1, NEW n \in 0 .. K - 1, m < n PROVE pick[m] # pick[n]
    <3>1. pick[n] \notin {pick[l] : l \in 0 .. n - 1}
      BY DEF TopK, IsBest
    <3>2. m \in 0 .. n - 1
      BY <1>1, <2>1
    <3> QED BY <3>1, <3>2
  <2>2. \A m, n \in 0 .. K - 1 : pick[m] = pick[n] => m = n
    BY <1>1, <2>1
  <2>3. pick \in [0 .. K - 1 -> picked]
    OBVIOUS
  <2>4. \A x \in picked : \E n \in 0 .. K - 1 : pick[n] = x
    OBVIOUS
  <2>5. pick \in Injection(0 .. K - 1, picked)
    BY <2>2, <2>3 DEF Injection, IsInjective
  <2>6. pick \in Surjection(0 .. K - 1, picked)
    BY <2>3, <2>4 DEF Surjection
  <2> QED BY <2>5, <2>6 DEF Bijection
<1>3. IsFiniteSet(0 .. K - 1) /\ Cardinality(0 .. K - 1) = K
  <2>1. 0 \in Int /\ K - 1 \in Int /\ ~(0 > K - 1)
    BY <1>1
  <2>2. Cardinality(0 .. K - 1) = (K - 1) - 0 + 1
    BY <2>1, FS_Interval
  <2> QED BY <1>1, <2>1, <2>2, FS_Interval
<1>4. ExistsBijection(0 .. K - 1, picked)
  BY <1>2 DEF ExistsBijection
<1> QED BY <1>3, <1>4, FS_Bijection

(* The set a gate's picks leave for a token are the experts of its entries. *)
LEMMA PicksOfToken ==
  ASSUME Sizes, family = "routing", NEW t \in Tokens,
         NEW pick \in [0 .. K - 1 -> Experts], GatedAs(t, pick)
  PROVE  {expert[i] : i \in EntriesOf(t)} = {pick[n] : n \in 0 .. K - 1}
<1>1. \A i \in EntriesOf(t) : i % K \in 0 .. K - 1 /\ expert[i] = pick[i % K]
  BY RowsOfEntries DEF EntriesOf, GatedAs
<1>2. ASSUME NEW n \in 0 .. K - 1
      PROVE  \E i \in EntriesOf(t) : expert[i] = pick[n]
  <2>1. PICK i \in Entries : i \div K = t /\ i % K = n
    BY EntryOfRow
  <2>2. RowOf(i) = t
    BY <2>1 DEF RowOf
  <2>3. expert[i] = pick[n]
    BY <2>1, <2>2 DEF GatedAs
  <2> QED BY <2>2, <2>3 DEF EntriesOf
<1> QED BY <1>1, <1>2

LEMMA GateBest ==
  ASSUME Sizes, GateInv
  PROVE  GatePicksBest
<1>1. SUFFICES ASSUME family = "routing", kernel # "gate", NEW t \in Tokens,
                      NEW picked, picked = {expert[i] : i \in EntriesOf(t)}
               PROVE  /\ Cardinality(picked) = K
                      /\ \A x \in picked, y \in Experts \ picked : logits[t][x] >= logits[t][y]
  BY DEF GatePicksBest
<1>2. PICK pick \in [0 .. K - 1 -> Experts] : GatedAs(t, pick)
  BY <1>1 DEF GateInv, Gated1
<1>3. picked = {pick[n] : n \in 0 .. K - 1}
  BY <1>1, <1>2, PicksOfToken
<1>4. TopK(logits[t], pick)
  BY <1>2 DEF GatedAs
<1>5. Cardinality(picked) = K
  BY <1>3, <1>4, PicksDiffer
<1>6. ASSUME NEW x \in picked, NEW y \in Experts \ picked
      PROVE  logits[t][x] >= logits[t][y]
  <2>1. PICK n \in 0 .. K - 1 : x = pick[n]
    BY <1>3
  <2>2. 0 .. n - 1 \subseteq 0 .. K - 1
    BY DEF Sizes
  <2>3. y \in Experts \ {pick[m] : m \in 0 .. n - 1}
    BY <1>3, <2>2
  <2>4. logits[t][y] < logits[t][x] \/ logits[t][y] = logits[t][x]
    BY <1>4, <2>1, <2>3 DEF TopK, IsBest
  <2>5. x \in Experts
    BY <2>1
  <2>6. logits[t][x] \in Int /\ logits[t][y] \in Int
    BY <1>1, <2>5 DEF GateInv, Sizes
  <2>7. PICK u, v \in Int : u = logits[t][x] /\ v = logits[t][y]
    BY <2>6
  <2> QED BY <2>4, <2>7
<1> QED BY <1>5, <1>6

(* The gate picks for each token K different experts, and none it passes   *)
(* over scores higher than one it picks, for any sizes and any scores      *)
(* (k_gating_topk, moe.cu:22).                                                *)
THEOREM GateChooses ==
  ASSUME Sizes
  PROVE  RoutingSpec => []GatePicksBest
<1>1. GateInv => GatePicksBest
  BY GateBest
<1> QED BY <1>1, GateInvariant, PTL

-----------------------------------------------------------------------------
(* The entries of S that go to expert x, and the entries whose slot is drawn. *)
At(S, x) == {i \in S : expert[i] = x}
Drawn == IF kernel \in {"gate", "memset", "hist", "scan"} THEN {}
         ELSE IF kernel = "scatter" THEN Entries \ todo ELSE Entries

(* The counts hold what the histogram counted so far, the scan's sum and the *)
(* offsets behind it the entries of lower experts, and each offset has moved *)
(* by as many as were drawn from it.                                         *)
WordsInv ==
  /\ DOMAIN ws = WsWords
  /\ kernel \in {"gate", "memset", "hist"} => e = 0 /\ a = 0
  /\ kernel \in {"hist", "scatter"} => todo \subseteq Entries
  /\ kernel = "hist" =>
       \A x \in Experts : ws[Counts(x)] = Cardinality(At(Entries \ todo, x))
  /\ kernel = "scan" =>
       /\ e \in 0 .. E /\ a = Cardinality(Below(e))
       /\ \A x \in Experts : ws[Counts(x)] = Cardinality(Of(x))
       /\ \A x \in Experts : x < e => ws[Running(x)] = Cardinality(Below(x))
  /\ kernel = "scatter" =>
       \A x \in Experts :
         ws[Running(x)] = Cardinality(Below(x)) + Cardinality(At(Entries \ todo, x))

(* The slots drawn of one expert start at its first and have no gap a later  *)
(* draw could fall into.                                                     *)
SlotsInv ==
  /\ slot \in [Entries -> Nat \cup {NotWritten}]
  /\ \A i \in Entries \ Drawn : slot[i] = NotWritten
  /\ \A i \in Drawn :
       /\ slot[i] \in Nat
       /\ Cardinality(Below(expert[i])) <= slot[i]
       /\ slot[i] < Cardinality(Below(expert[i])) + Cardinality(At(Drawn, expert[i]))
       /\ \A j \in Drawn \ {i} : expert[i] = expert[j] => slot[i] # slot[j]

RouteInv == GateInv /\ WordsInv /\ SlotsInv

LEMMA SetsFinite ==
  ASSUME Sizes, NEW S \in SUBSET Entries
  PROVE  IsFiniteSet(S) /\ Cardinality(S) \in Nat
<1>1. T * K \in Nat
  BY DEF Sizes
<1>2. 0 \in Int /\ T * K - 1 \in Int
  BY <1>1
<1>3. IsFiniteSet(Entries)
  BY <1>2, FS_Interval DEF Entries
<1> QED BY <1>3, FS_Subset, FS_CardinalityType

(* One entry more counts for its own expert only. *)
LEMMA CountUp ==
  ASSUME Sizes, NEW S \in SUBSET Entries, NEW i \in Entries \ S, NEW x
  PROVE  /\ Cardinality(At(S, x)) \in Nat
         /\ Cardinality(At(S \cup {i}, x)) =
              IF expert[i] = x THEN Cardinality(At(S, x)) + 1 ELSE Cardinality(At(S, x))
<1>1. At(S, x) \in SUBSET Entries /\ i \notin At(S, x)
  BY DEF At
<1>2. IsFiniteSet(At(S, x)) /\ Cardinality(At(S, x)) \in Nat
  BY <1>1, SetsFinite
<1>3. CASE expert[i] = x
  <2>1. At(S \cup {i}, x) = At(S, x) \cup {i}
    BY <1>3 DEF At
  <2> QED BY <1>1, <1>2, <1>3, <2>1, FS_AddElement
<1>4. CASE expert[i] # x
  <2>1. At(S \cup {i}, x) = At(S, x)
    BY <1>4 DEF At
  <2> QED BY <1>2, <1>4, <2>1
<1> QED BY <1>3, <1>4

(* The entries below the next expert are those below this one and its own. *)
LEMMA BelowNext ==
  ASSUME Sizes, expert \in [Entries -> Experts], NEW x \in Int
  PROVE  /\ Cardinality(Below(x)) \in Nat /\ Cardinality(Of(x)) \in Nat
         /\ Cardinality(Below(x + 1)) = Cardinality(Below(x)) + Cardinality(Of(x))
<1>1. Below(x) \in SUBSET Entries /\ Of(x) \in SUBSET Entries
  BY DEF Below, Of
<1>2. /\ IsFiniteSet(Below(x)) /\ Cardinality(Below(x)) \in Nat
      /\ IsFiniteSet(Of(x)) /\ Cardinality(Of(x)) \in Nat
  BY <1>1, SetsFinite
<1>3. \A i \in Entries : expert[i] \in Int
  BY DEF Sizes, Experts
<1>4. Below(x + 1) = Below(x) \cup Of(x)
  BY <1>3 DEF Below, Of
<1>5. Below(x) \cap Of(x) = {}
  BY <1>3 DEF Below, Of
<1>6. Cardinality(Below(x) \cup Of(x))
        = Cardinality(Below(x)) + Cardinality(Of(x)) - Cardinality(Below(x) \cap Of(x))
  BY <1>2, FS_Union
<1>7. Cardinality(Below(x) \cap Of(x)) = 0
  BY <1>5, FS_EmptySet
<1>8. PICK m, n \in Nat : m = Cardinality(Below(x)) /\ n = Cardinality(Of(x))
  BY <1>2
<1>9. Cardinality(Below(x + 1)) = m + n - 0
  BY <1>4, <1>6, <1>7, <1>8
<1> QED BY <1>8, <1>9

LEMMA BelowHigher ==
  ASSUME Sizes, expert \in [Entries -> Experts], NEW x \in Int, NEW y \in Int, x < y
  PROVE  Cardinality(Below(x)) + Cardinality(Of(x)) <= Cardinality(Below(y))
<1>1. \A i \in Entries : expert[i] \in Int
  BY DEF Sizes, Experts
<1>2. Below(x + 1) \subseteq Below(y) /\ Below(y) \in SUBSET Entries
  BY <1>1 DEF Below
<1>3. Cardinality(Below(x + 1)) <= Cardinality(Below(y))
  BY <1>2, SetsFinite, FS_Subset
<1> QED BY <1>3, BelowNext

LEMMA BelowNone ==
  ASSUME Sizes, expert \in [Entries -> Experts]
  PROVE  Cardinality(Below(0)) = 0
<1>1. Below(0) = {}
  BY DEF Below, Sizes, Experts
<1> QED BY <1>1, FS_EmptySet

LEMMA NoneAt == \A x : Cardinality(At({}, x)) = 0
<1>1. \A x : At({}, x) = {}
  BY DEF At
<1> QED BY <1>1, FS_EmptySet

LEMMA AllAt == \A x : At(Entries, x) = Of(x)
BY DEF At, Of

(* What the invariant says once every slot is drawn, and before. *)
LEMMA RouteExclusive ==
  ASSUME Sizes, RouteInv
  PROVE  SlotsExclusive
<1>1. SUFFICES ASSUME NEW i \in Entries, slot[i] # NotWritten
               PROVE  /\ Cardinality(Below(expert[i])) <= slot[i]
                      /\ slot[i] < Cardinality(Below(expert[i])) + Cardinality(Of(expert[i]))
                      /\ \A j \in Entries \ {i} : slot[j] # slot[i]
  BY DEF SlotsExclusive
<1>2. i \in Drawn /\ kernel # "gate" /\ Drawn \subseteq Entries
  BY <1>1 DEF RouteInv, SlotsInv, Drawn
<1>3. expert \in [Entries -> Experts]
  BY <1>2, GateTells DEF RouteInv
<1>4. Experts \subseteq Int
  BY DEF Sizes, Experts
<1>5. ASSUME NEW j \in Drawn
      PROVE  /\ slot[j] \in Nat
             /\ Cardinality(Below(expert[j])) <= slot[j]
             /\ slot[j] < Cardinality(Below(expert[j])) + Cardinality(Of(expert[j]))
  <2>1. PICK x \in Int : x = expert[j]
    BY <1>2, <1>3, <1>4
  <2>2. At(Drawn, x) \in SUBSET Of(x) /\ Of(x) \in SUBSET Entries
    BY <1>2 DEF At, Of
  <2>3. IsFiniteSet(Of(x)) /\ Cardinality(Of(x)) \in Nat
    BY <2>2, SetsFinite
  <2>4. Cardinality(At(Drawn, x)) <= Cardinality(Of(x))
    BY <2>2, <2>3, FS_Subset
  <2>5. /\ slot[j] \in Nat /\ Cardinality(Below(x)) <= slot[j]
        /\ slot[j] < Cardinality(Below(x)) + Cardinality(At(Drawn, x))
    BY <2>1 DEF RouteInv, SlotsInv
  <2>6. Cardinality(Below(x)) \in Nat
    BY <1>3, BelowNext
  <2>7. At(Drawn, x) \in SUBSET Entries
    BY <2>2
  <2>8. Cardinality(At(Drawn, x)) \in Nat
    BY <2>7, SetsFinite
  <2>9. PICK s, b, m, n \in Nat : /\ s = slot[j] /\ b = Cardinality(Below(x))
                                  /\ m = Cardinality(At(Drawn, x)) /\ n = Cardinality(Of(x))
    BY <2>3, <2>5, <2>6, <2>8
  <2>10. b <= s /\ s < b + n
    BY <2>4, <2>5, <2>9
  <2> QED BY <2>1, <2>9, <2>10
<1>6. ASSUME NEW j \in Entries \ {i} PROVE slot[j] # slot[i]
  <2>1. CASE j \notin Drawn
    BY <1>1, <2>1 DEF RouteInv, SlotsInv
  <2>2. CASE j \in Drawn /\ expert[i] = expert[j]
    BY <1>2, <2>2 DEF RouteInv, SlotsInv
  <2>3. CASE j \in Drawn /\ expert[i] # expert[j]
    <3>1. PICK x, y \in Int : x = expert[i] /\ y = expert[j]
      BY <1>2, <1>3, <1>4
    <3>2. /\ Cardinality(Below(x)) \in Nat /\ Cardinality(Of(x)) \in Nat
          /\ Cardinality(Below(y)) \in Nat /\ Cardinality(Of(y)) \in Nat
      BY <1>3, BelowNext
    <3>3. x < y => Cardinality(Below(x)) + Cardinality(Of(x)) <= Cardinality(Below(y))
      BY <1>3, BelowHigher
    <3>4. y < x => Cardinality(Below(y)) + Cardinality(Of(y)) <= Cardinality(Below(x))
      BY <1>3, BelowHigher
    <3>5. /\ slot[i] \in Nat /\ slot[j] \in Nat
          /\ Cardinality(Below(x)) <= slot[i] /\ Cardinality(Below(y)) <= slot[j]
          /\ slot[i] < Cardinality(Below(x)) + Cardinality(Of(x))
          /\ slot[j] < Cardinality(Below(y)) + Cardinality(Of(y))
      BY <1>2, <1>5, <2>3, <3>1
    <3>6. x < y \/ y < x
      BY <2>3, <3>1
    <3> QED BY <3>2, <3>3, <3>4, <3>5, <3>6
  <2> QED BY <2>1, <2>2, <2>3
<1> QED BY <1>2, <1>5, <1>6

-----------------------------------------------------------------------------
LEMMA RouteInit ==
  ASSUME Sizes, RInit
  PROVE  RouteInv
<1>1. GateInv
  BY GateInit
<1>2. WordsInv
  BY DEF RInit, WordsInv, Fresh
<1>3. SlotsInv
  BY DEF RInit, SlotsInv, Drawn, Fresh, Sizes
<1> QED BY <1>1, <1>2, <1>3 DEF RouteInv

(* What the sets of entries are while the experts are as they were. *)
LEMMA SetsStay ==
  ASSUME expert' = expert
  PROVE  /\ \A x : Below(x)' = Below(x) /\ Of(x)' = Of(x)
         /\ \A S, x : At(S, x)' = At(S, x)
BY DEF Below, Of, At

LEMMA SlotsStay ==
  ASSUME SlotsInv, expert' = expert, slot' = slot, Drawn' = Drawn
  PROVE  SlotsInv'
<1>1. \A x : Below(x)' = Below(x)
  BY SetsStay
<1>2. \A x : At(Drawn, x)' = At(Drawn, x)
  BY DEF At
<1> QED BY <1>1, <1>2 DEF SlotsInv

(* A step that is neither of the histogram, of the scan nor of the scatter. *)
LEMMA RouteAside ==
  ASSUME Sizes, RouteInv, GateInv', ws' = ws, slot' = slot, scanning' = scanning,
         \/ kernel = "gate" /\ kernel' \in {"gate", "memset"}
         \/ kernel' = kernel /\ todo' = todo /\ expert' = expert
         \/ /\ kernel \in {"experts", "finalize", "final_grad", "init_grad"}
            /\ kernel' \in {"experts", "finalize", "final_grad", "init_grad"}
            /\ expert' = expert
  PROVE  RouteInv'
<1>1. e' = e /\ a' = a
  BY DEF scanning
<1>2. CASE kernel = "gate" /\ kernel' \in {"gate", "memset"}
  <2>1. WordsInv'
    BY <1>1, <1>2 DEF RouteInv, WordsInv
  <2>2. Drawn' = {} /\ Drawn = {}
    BY <1>2 DEF Drawn
  <2>3. SlotsInv'
    BY <2>2 DEF RouteInv, SlotsInv
  <2> QED BY <2>1, <2>3 DEF RouteInv
<1>3. CASE kernel' = kernel /\ todo' = todo /\ expert' = expert
  <2>1. WordsInv'
    BY <1>1, <1>3 DEF RouteInv, WordsInv, Below, Of, At
  <2>2. Drawn' = Drawn
    BY <1>3 DEF Drawn
  <2>3. SlotsInv'
    BY <1>3, <2>2, SlotsStay DEF RouteInv
  <2> QED BY <2>1, <2>3 DEF RouteInv
<1>4. CASE /\ kernel \in {"experts", "finalize", "final_grad", "init_grad"}
           /\ kernel' \in {"experts", "finalize", "final_grad", "init_grad"}
           /\ expert' = expert
  <2>1. WordsInv'
    BY <1>1, <1>4 DEF RouteInv, WordsInv
  <2>2. Drawn' = Drawn
    BY <1>4 DEF Drawn
  <2>3. SlotsInv'
    BY <1>4, <2>2, SlotsStay DEF RouteInv
  <2> QED BY <2>1, <2>3 DEF RouteInv
<1> QED BY <1>2, <1>3, <1>4

(* The two words of an expert, and no word is two experts'. *)
LEMMA Words ==
  ASSUME Sizes
  PROVE  \A x \in Experts :
           /\ Counts(x) \in WsWords /\ Running(x) \in WsWords
           /\ \A y \in Experts : Counts(x) # Running(y)
           /\ \A y \in Experts : Counts(x) = Counts(y) => x = y
           /\ \A y \in Experts : Running(x) = Running(y) => x = y
BY DEF Counts, Running, WsWords, Experts, Sizes

LEMMA RouteMemset ==
  ASSUME Sizes, RouteInv, GateInv', Memset
  PROVE  RouteInv'
<1>1. /\ kernel = "memset" /\ kernel' = "hist" /\ todo' = Entries /\ slot' = slot
      /\ expert' = expert /\ e' = e /\ a' = a
      /\ ws' = [x \in WsWords |-> IF x \in {Counts(y) : y \in Experts} THEN 0 ELSE ws[x]]
  BY DEF Memset, scanning, scattering
<1>2. \A x \in Experts : Counts(x) \in WsWords
  BY Words
<1>3. \A x \in Experts : ws'[Counts(x)] = 0
  BY <1>1, <1>2
<1>4. \A x : Cardinality(At(Entries \ todo, x)') = 0
  <2>1. \A x : At(Entries \ todo, x)' = {}
    BY <1>1 DEF At
  <2> QED BY <2>1, FS_EmptySet
<1>5. WordsInv'
  BY <1>1, <1>3, <1>4 DEF RouteInv, WordsInv, Counts
<1>6. Drawn' = Drawn
  BY <1>1 DEF Drawn
<1>7. SlotsInv'
  BY <1>1, <1>6, SlotsStay DEF RouteInv
<1> QED BY <1>5, <1>7 DEF RouteInv

LEMMA RouteHist ==
  ASSUME Sizes, RouteInv, GateInv', NEW i \in Entries, HistThread(i)
  PROVE  RouteInv'
<1>1. /\ kernel = "hist" /\ kernel' = "hist" /\ i \in todo /\ todo' = todo \ {i}
      /\ slot' = slot /\ expert' = expert /\ e' = e /\ a' = a
      /\ ws' = IF expert[i] \in Experts THEN [ws EXCEPT ![Counts(expert[i])] = @ + 1] ELSE ws
  BY DEF HistThread, scanning, scattering
<1>2. expert[i] \in Experts /\ todo \subseteq Entries /\ DOMAIN ws = WsWords
  BY <1>1, GateTells DEF RouteInv, WordsInv
<1>3. PICK S \in SUBSET Entries : S = Entries \ todo
  OBVIOUS
<1>4. i \in Entries \ S /\ Entries \ todo' = S \cup {i}
  BY <1>1, <1>3
<1>5. ASSUME NEW x \in Experts
      PROVE  ws'[Counts(x)] = Cardinality(At(S \cup {i}, x))
  <2>1. ws[Counts(x)] = Cardinality(At(S, x)) /\ Counts(x) \in WsWords
    BY <1>1, <1>3, Words DEF RouteInv, WordsInv
  <2>2. ws'[Counts(x)] = IF expert[i] = x THEN ws[Counts(x)] + 1 ELSE ws[Counts(x)]
    BY <1>1, <1>2, <2>1 DEF Counts
  <2>3. Cardinality(At(S \cup {i}, x))
          = IF expert[i] = x THEN Cardinality(At(S, x)) + 1 ELSE Cardinality(At(S, x))
    BY <1>4, CountUp
  <2> QED BY <2>1, <2>2, <2>3
<1>6. \A x : At(Entries \ todo, x)' = At(S \cup {i}, x)
  BY <1>1, <1>4 DEF At
<1>7. DOMAIN ws' = WsWords
  BY <1>1, <1>2
<1>8. WordsInv'
  BY <1>1, <1>2, <1>5, <1>6, <1>7 DEF RouteInv, WordsInv, Counts
<1>9. Drawn' = Drawn
  BY <1>1 DEF Drawn
<1>10. SlotsInv'
  BY <1>1, <1>9, SlotsStay DEF RouteInv
<1> QED BY <1>8, <1>10 DEF RouteInv

LEMMA RouteCounted ==
  ASSUME Sizes, RouteInv, GateInv', Counted
  PROVE  RouteInv'
<1>1. /\ kernel = "hist" /\ kernel' = "scan" /\ todo = {}
      /\ slot' = slot /\ expert' = expert /\ e' = e /\ a' = a /\ ws' = ws
  BY DEF Counted, Go, scanning, scattering
<1>2. expert \in [Entries -> Experts]
  BY <1>1, GateTells DEF RouteInv
<1>3. e = 0 /\ a = 0 /\ Cardinality(Below(0)) = 0
  BY <1>1, <1>2, BelowNone DEF RouteInv, WordsInv
<1>4. \A x \in Experts : ws[Counts(x)] = Cardinality(Of(x))
  <2>1. Entries \ todo = Entries
    BY <1>1
  <2> QED BY <1>1, <2>1, AllAt DEF RouteInv, WordsInv
<1>5. \A x : Below(x)' = Below(x) /\ Of(x)' = Of(x)
  BY <1>1, SetsStay
<1>6. Below(e)' = Below(0)
  BY <1>1, <1>3 DEF Below
<1>7. \A x \in Experts : ~(x < 0)
  BY DEF Experts, Sizes
<1>8. WordsInv'
  BY <1>1, <1>3, <1>4, <1>5, <1>6, <1>7 DEF RouteInv, WordsInv, Counts, Sizes
<1>9. Drawn' = Drawn
  BY <1>1 DEF Drawn
<1>10. SlotsInv'
  BY <1>1, <1>9, SlotsStay DEF RouteInv
<1> QED BY <1>8, <1>10 DEF RouteInv

LEMMA RouteScan ==
  ASSUME Sizes, RouteInv, GateInv', ScanStep
  PROVE  RouteInv'
<1>1. /\ kernel = "scan" /\ kernel' = "scan" /\ e \in Experts
      /\ slot' = slot /\ expert' = expert /\ e' = e + 1 /\ a' = a + ws[Counts(e)]
      /\ ws' = [ws EXCEPT ![Running(e)] = a]
  BY DEF ScanStep, scattering
<1>2. expert \in [Entries -> Experts]
  BY <1>1, GateTells DEF RouteInv
<1>3. /\ DOMAIN ws = WsWords /\ a = Cardinality(Below(e))
      /\ \A x \in Experts : ws[Counts(x)] = Cardinality(Of(x))
      /\ \A x \in Experts : x < e => ws[Running(x)] = Cardinality(Below(x))
  BY <1>1 DEF RouteInv, WordsInv
<1>4. E \in Nat /\ e \in Nat /\ e < E
  BY <1>1 DEF Experts, Sizes
<1>5. a' = Cardinality(Below(e)')
  <2>1. PICK x \in Int : x = e
    BY <1>4
  <2>2. a' = Cardinality(Below(x)) + Cardinality(Of(x))
    BY <1>1, <1>3, <2>1
  <2>3. Below(e)' = Below(x + 1)
    BY <1>1, <2>1 DEF Below
  <2> QED BY <1>2, <2>2, <2>3, BelowNext
<1>6. \A x \in Experts : ws'[Counts(x)] = Cardinality(Of(x))
  BY <1>1, <1>3, Words
<1>7. ASSUME NEW x \in Experts, x < e' PROVE ws'[Running(x)] = Cardinality(Below(x))
  <2>1. CASE x = e
    BY <1>1, <1>3, <2>1, Words
  <2>2. CASE x # e
    <3>1. x < e
      BY <1>1, <1>4, <1>7, <2>2 DEF Experts
    <3> QED BY <1>1, <1>3, <2>2, <3>1, Words
  <2> QED BY <2>1, <2>2
<1>8. \A x : Below(x)' = Below(x) /\ Of(x)' = Of(x)
  BY <1>1, SetsStay
<1>9. e' \in 0 .. E /\ DOMAIN ws' = WsWords
  BY <1>1, <1>3, <1>4
<1>10. WordsInv'
  BY <1>1, <1>5, <1>6, <1>7, <1>8, <1>9 DEF WordsInv
<1>11. Drawn' = Drawn
  BY <1>1 DEF Drawn
<1>12. SlotsInv'
  BY <1>1, <1>11, SlotsStay DEF RouteInv
<1> QED BY <1>10, <1>12 DEF RouteInv

LEMMA RouteScanned ==
  ASSUME Sizes, RouteInv, GateInv', Scanned
  PROVE  RouteInv'
<1>1. /\ kernel = "scan" /\ kernel' = "scatter" /\ todo' = Entries /\ e = E
      /\ slot' = slot /\ expert' = expert /\ ws' = ws
  BY DEF Scanned, Go, scattering
<1>2. expert \in [Entries -> Experts]
  BY <1>1, GateTells DEF RouteInv
<1>3. \A x \in Experts : ws[Running(x)] = Cardinality(Below(x))
  BY <1>1 DEF RouteInv, WordsInv, Experts, Sizes
<1>4. \A x : Cardinality(At(Entries \ todo, x)') = 0
  <2>1. \A x : At(Entries \ todo, x)' = {}
    BY <1>1 DEF At
  <2> QED BY <2>1, FS_EmptySet
<1>5. ASSUME NEW x \in Experts
      PROVE  ws'[Running(x)] = Cardinality(Below(x)') + Cardinality(At(Entries \ todo, x)')
  <2>1. PICK n \in Nat : n = Cardinality(Below(x))
    BY <1>2, BelowNext DEF Experts
  <2>2. Below(x)' = Below(x)
    BY <1>1, SetsStay
  <2>3. ws'[Running(x)] = n
    BY <1>1, <1>3, <2>1
  <2> QED BY <1>4, <2>1, <2>2, <2>3
<1>6. WordsInv'
  BY <1>1, <1>5 DEF RouteInv, WordsInv
<1>7. Drawn' = Drawn
  BY <1>1 DEF Drawn
<1>8. SlotsInv'
  BY <1>1, <1>7, SlotsStay DEF RouteInv
<1> QED BY <1>6, <1>8 DEF RouteInv

(* The slot drawn is the first behind those its expert's entries have. *)
LEMMA RouteTake ==
  ASSUME Sizes, RouteInv, GateInv', NEW i \in Entries, TakeSlot(i)
  PROVE  RouteInv'
<1>1. /\ kernel = "scatter" /\ kernel' = "scatter" /\ i \in todo /\ todo' = todo \ {i}
      /\ slot' = [slot EXCEPT ![i] = ws[Running(expert[i])]] /\ expert' = expert
      /\ ws' = [ws EXCEPT ![Running(expert[i])] = @ + 1]
  BY DEF TakeSlot
<1>2. expert \in [Entries -> Experts]
  BY <1>1, GateTells DEF RouteInv
<1>3. /\ DOMAIN ws = WsWords /\ todo \subseteq Entries
      /\ \A x \in Experts :
           ws[Running(x)] = Cardinality(Below(x)) + Cardinality(At(Entries \ todo, x))
  BY <1>1 DEF RouteInv, WordsInv
<1>4. PICK S \in SUBSET Entries : S = Entries \ todo
  OBVIOUS
<1>5. i \in Entries \ S /\ Entries \ todo' = S \cup {i}
  BY <1>1, <1>4
<1>6. ASSUME NEW x \in Experts
      PROVE  Cardinality(Below(x)) \in Nat /\ Cardinality(At(S, x)) \in Nat
  <2>1. x \in Int
    BY DEF Experts
  <2>2. Cardinality(Below(x)) \in Nat
    BY <1>2, <2>1, BelowNext
  <2>3. Cardinality(At(S, x)) \in Nat
    BY <1>5, CountUp
  <2> QED BY <2>2, <2>3
<1>7. \A x : Below(x)' = Below(x)
  BY <1>1, SetsStay
<1>8. ASSUME NEW x \in Experts
      PROVE  ws'[Running(x)] = Cardinality(Below(x)) + Cardinality(At(S \cup {i}, x))
  <2>1. PICK b, n \in Nat : b = Cardinality(Below(x)) /\ n = Cardinality(At(S, x))
    BY <1>6
  <2>2. ws[Running(x)] = b + n
    BY <1>3, <1>4, <2>1
  <2>3. Cardinality(At(S \cup {i}, x)) = IF expert[i] = x THEN n + 1 ELSE n
    BY <1>5, <2>1, CountUp
  <2>4. ws'[Running(x)] = IF expert[i] = x THEN ws[Running(x)] + 1 ELSE ws[Running(x)]
    BY <1>1, <1>2, <1>3, Words
  <2> QED BY <2>1, <2>2, <2>3, <2>4
<1>9. \A x : At(Entries \ todo, x)' = At(S \cup {i}, x)
  BY <1>1, <1>5 DEF At
<1>10. WordsInv'
  BY <1>1, <1>3, <1>7, <1>8, <1>9 DEF WordsInv
<1>11. Drawn = S /\ Drawn' = S \cup {i}
  BY <1>1, <1>4, <1>5 DEF Drawn
<1>12. PICK x \in Experts : x = expert[i]
  BY <1>2
<1>13. PICK b, n \in Nat : b = Cardinality(Below(x)) /\ n = Cardinality(At(S, x))
  BY <1>6
<1>14. slot'[i] = b + n /\ \A j \in Entries \ {i} : slot'[j] = slot[j]
  BY <1>1, <1>3, <1>4, <1>12, <1>13 DEF RouteInv, SlotsInv
<1>15. slot' \in [Entries -> Nat \cup {NotWritten}]
  <2>1. ws[Running(expert[i])] \in Nat
    BY <1>3, <1>4, <1>12, <1>13
  <2> QED BY <1>1, <2>1 DEF RouteInv, SlotsInv
<1>16. \A j \in Entries \ (S \cup {i}) : slot'[j] = NotWritten
  BY <1>11, <1>14 DEF RouteInv, SlotsInv
<1>17. \A j \in S : /\ slot[j] \in Nat
                     /\ Cardinality(Below(expert[j])) <= slot[j]
                     /\ slot[j] < Cardinality(Below(expert[j])) + Cardinality(At(S, expert[j]))
                     /\ \A l \in S \ {j} : expert[j] = expert[l] => slot[j] # slot[l]
  BY <1>11 DEF RouteInv, SlotsInv
<1>18. \A j \in S : expert[j] = x => slot[j] < b + n
  BY <1>13, <1>17
<1>19. ASSUME NEW j \in S \cup {i}
       PROVE  /\ slot'[j] \in Nat
              /\ Cardinality(Below(expert[j])) <= slot'[j]
              /\ slot'[j] < Cardinality(Below(expert[j])) + Cardinality(At(S \cup {i}, expert[j]))
  <2>1. CASE j = i
    <3>1. Cardinality(At(S \cup {i}, x)) = n + 1
      BY <1>5, <1>12, <1>13, CountUp
    <3> QED BY <1>12, <1>13, <1>14, <2>1, <3>1
  <2>2. CASE j # i
    <3>1. j \in S /\ j \in Entries
      BY <2>2
    <3>2. PICK y \in Experts : y = expert[j]
      BY <1>2, <3>1
    <3>3. PICK c, m, s \in Nat : c = Cardinality(Below(y)) /\ m = Cardinality(At(S, y)) /\ s = slot[j]
      BY <1>6, <1>17, <3>1
    <3>4. c <= s /\ s < c + m
      BY <1>17, <3>1, <3>2, <3>3
    <3>5. PICK l \in Nat : l = Cardinality(At(S \cup {i}, y)) /\ l >= m
      BY <1>5, <3>3, CountUp
    <3>6. slot'[j] = s
      BY <1>14, <2>2, <3>1, <3>3
    <3> QED BY <3>2, <3>3, <3>4, <3>5, <3>6
  <2> QED BY <2>1, <2>2
<1>20. ASSUME NEW j \in S \cup {i}, NEW l \in (S \cup {i}) \ {j}, expert[j] = expert[l]
       PROVE  slot'[j] # slot'[l]
  <2>1. CASE j = i
    <3>1. l \in S /\ l # i /\ expert[l] = x
      BY <1>12, <1>20, <2>1
    <3>2. slot[l] \in Nat /\ slot[l] < b + n /\ slot'[l] = slot[l]
      BY <1>14, <1>17, <1>18, <3>1
    <3> QED BY <1>13, <1>14, <2>1, <3>2
  <2>2. CASE l = i
    <3>1. j \in S /\ j # i /\ expert[j] = x
      BY <1>12, <1>20, <2>2
    <3>2. slot[j] \in Nat /\ slot[j] < b + n /\ slot'[j] = slot[j]
      BY <1>14, <1>17, <1>18, <3>1
    <3> QED BY <1>13, <1>14, <2>2, <3>2
  <2>3. CASE j # i /\ l # i
    BY <1>14, <1>17, <1>20, <2>3
  <2> QED BY <2>1, <2>2, <2>3
<1>21. ASSUME NEW j \in Drawn'
       PROVE  /\ slot'[j] \in Nat
              /\ Cardinality(Below(expert[j])') <= slot'[j]
              /\ slot'[j] < Cardinality(Below(expert[j])') + Cardinality(At(Drawn, expert[j])')
              /\ \A l \in Drawn' \ {j} : expert'[j] = expert'[l] => slot'[j] # slot'[l]
  <2>1. Below(expert[j])' = Below(expert[j])
    BY <1>1 DEF Below
  <2>2. At(Drawn, expert[j])' = At(S \cup {i}, expert[j])
    BY <1>1, <1>11 DEF At
  <2>3. \A l \in Drawn' \ {j} : expert'[j] = expert'[l] => slot'[j] # slot'[l]
    BY <1>1, <1>11, <1>20
  <2> QED BY <1>11, <1>19, <2>1, <2>2, <2>3
<1>22. \A j \in Entries \ Drawn' : slot'[j] = NotWritten
  BY <1>11, <1>16
<1>23. SlotsInv'
  BY <1>15, <1>21, <1>22 DEF SlotsInv
<1> QED BY <1>10, <1>23 DEF RouteInv

LEMMA RouteScattered ==
  ASSUME Sizes, RouteInv, GateInv', Scattered
  PROVE  RouteInv'
<1>1. /\ kernel = "scatter" /\ kernel' = "experts" /\ todo = {}
      /\ slot' = slot /\ expert' = expert /\ ws' = ws
  BY DEF Scattered, Go, scattering
<1>2. Drawn' = Drawn
  BY <1>1 DEF Drawn
<1>3. SlotsInv'
  BY <1>1, <1>2, SlotsStay DEF RouteInv
<1>4. WordsInv'
  BY <1>1 DEF RouteInv, WordsInv
<1> QED BY <1>3, <1>4 DEF RouteInv

LEMMA RouteStep ==
  ASSUME Sizes, RouteInv, [RNext]_rvars
  PROVE  RouteInv'
<1>1. GateInv'
  BY GateStep DEF RouteInv
<1>2. CASE UNCHANGED rvars
  BY <1>1, <1>2, RouteAside DEF rvars, scattering
<1>3. CASE \E t \in Tokens : GateThread(t)
  BY <1>1, <1>3, RouteAside DEF GateThread, scattering
<1>4. CASE Gated
  BY <1>1, <1>4, RouteAside DEF Gated, Go, scattering
<1>5. CASE Memset
  BY <1>1, <1>5, RouteMemset
<1>6. CASE \E j \in Entries : HistThread(j)
  BY <1>1, <1>6, RouteHist
<1>7. CASE Counted
  BY <1>1, <1>7, RouteCounted
<1>8. CASE ScanStep
  BY <1>1, <1>8, RouteScan
<1>9. CASE Scanned
  BY <1>1, <1>9, RouteScanned
<1>10. CASE \E j \in Entries : TakeSlot(j)
  BY <1>1, <1>10, RouteTake
<1>11. CASE \E j \in Entries : FillSlot(j)
  BY <1>1, <1>11, RouteAside DEF FillSlot
<1>12. CASE Scattered
  BY <1>1, <1>12, RouteScattered
<1>13. CASE RunExperts \/ Finalized \/ Differentiated
  BY <1>1, <1>13, RouteAside DEF RunExperts, Finalized, Differentiated, Go, scattering
<1>14. ASSUME NEW p \in Entries, FinalizeThread(p) \/ UnpermuteThread(p) PROVE RouteInv'
  BY <1>1, <1>14, RouteAside DEF FinalizeThread, UnpermuteThread, scattering
<1>15. ASSUME NEW p \in Entries, FinalGradThread(p) \/ UnpermuteGradThread(p) PROVE RouteInv'
  BY <1>1, <1>15, RouteAside DEF FinalGradThread, UnpermuteGradThread, scattering
<1>16. ASSUME NEW p \in Entries, InitGradThread(p) \/ PermuteGradThread(p) PROVE RouteInv'
  BY <1>1, <1>16, RouteAside DEF InitGradThread, PermuteGradThread, scattering
<1> QED BY <1>2, <1>3, <1>4, <1>5, <1>6, <1>7, <1>8, <1>9, <1>10, <1>11, <1>12, <1>13,
           <1>14, <1>15, <1>16 DEF RNext

LEMMA RouteInvariant ==
  ASSUME Sizes
  PROVE  RoutingSpec => []RouteInv
<1>1. RInit => RouteInv
  BY RouteInit
<1>2. RouteInv /\ [RNext]_rvars => RouteInv'
  BY RouteStep
<1> QED BY <1>1, <1>2, PTL DEF RoutingSpec

(* No two entries share a slot and each slot is in its expert's range, for *)
(* any sizes and any routing, in whatever order the threads of the         *)
(* histogram and of the scatter meet in their atomic additions             *)
(* (k_hist, k_scan, k_init_scatter, moe.cu:115).                           *)
THEOREM SlotsOwn ==
  ASSUME Sizes
  PROVE  RoutingSpec => []SlotsExclusive
<1>1. RouteInv => SlotsExclusive
  BY RouteExclusive
<1> QED BY <1>1, RouteInvariant, PTL

-----------------------------------------------------------------------------
(* The slots of the drawn entries are slots of the tensors, each of one     *)
(* entry, and once all are drawn every slot is some entry's.                *)
LEMMA SlotWithin ==
  ASSUME Sizes, RouteInv, NEW i \in Drawn
  PROVE  slot[i] \in Entries /\ \A j \in Drawn : slot[i] = slot[j] => i = j
<1>1. Drawn \subseteq Entries /\ kernel # "gate" /\ i \in Entries
  BY DEF Drawn
<1>2. expert \in [Entries -> Experts]
  BY <1>1, GateTells DEF RouteInv
<1>3. slot[i] \in Nat /\ slot[i] # NotWritten
  BY DEF RouteInv, SlotsInv, Sizes
<1>4. PICK x \in Int : x = expert[i]
  BY <1>1, <1>2 DEF Experts
<1>5. slot[i] < Cardinality(Below(x)) + Cardinality(Of(x))
  BY <1>1, <1>3, <1>4, RouteExclusive DEF SlotsExclusive
<1>6. slot[i] < Cardinality(Below(x + 1)) /\ Cardinality(Below(x + 1)) \in Nat
  BY <1>2, <1>5, BelowNext
<1>7. T * K \in Nat
  BY DEF Sizes
<1>8. IsFiniteSet(Entries) /\ Cardinality(Entries) = T * K
  <2>1. 0 \in Int /\ T * K - 1 \in Int
    BY <1>7
  <2>2. Cardinality(Entries) = IF 0 > T * K - 1 THEN 0 ELSE (T * K - 1) - 0 + 1
    BY <2>1, FS_Interval DEF Entries
  <2> QED BY <1>7, <2>1, <2>2, FS_Interval DEF Entries
<1>9. Below(x + 1) \in SUBSET Entries
  BY DEF Below
<1>10. Cardinality(Below(x + 1)) <= T * K
  BY <1>8, <1>9, FS_Subset
<1>11. slot[i] \in Entries
  BY <1>3, <1>6, <1>7, <1>10 DEF Entries
<1>12. \A j \in Drawn : slot[i] = slot[j] => i = j
  BY <1>1, <1>3, RouteExclusive DEF SlotsExclusive
<1> QED BY <1>11, <1>12

LEMMA SlotsAll ==
  ASSUME Sizes, RouteInv, Drawn = Entries, NEW p \in Entries
  PROVE  \E i \in Entries : slot[i] = p
<1>1. PICK f : f = slot
  OBVIOUS
<1>2. \A i \in Entries : slot[i] \in Entries /\ \A j \in Entries : slot[i] = slot[j] => i = j
  BY SlotWithin
<1>3. DOMAIN f = Entries /\ f = [i \in Entries |-> f[i]]
  BY <1>1 DEF RouteInv, SlotsInv
<1>4. f \in [Entries -> Entries]
  BY <1>1, <1>2, <1>3
<1>5. f \in Injection(Entries, Entries)
  BY <1>1, <1>2, <1>4 DEF Injection, IsInjective
<1>6. IsFiniteSet(Entries)
  BY SetsFinite
<1>7. f \in Surjection(Entries, Entries)
  BY <1>5, <1>6, FS_Injection
<1> QED BY <1>1, <1>7 DEF Surjection

(* A bag of different terms gains one that is not among them. *)
LEMMA BagGains ==
  ASSUME NEW S, NEW x, x \notin S
  PROVE  SetToBag(S) (+) SetToBag({x}) = SetToBag(S \cup {x})
<1>1. DOMAIN SetToBag(S) = S /\ DOMAIN SetToBag({x}) = {x}
  BY DEF SetToBag
<1>2. /\ \A y \in S : SetToBag(S)[y] = 1
      /\ SetToBag({x})[x] = 1
  BY DEF SetToBag
<1>3. SetToBag(S) (+) SetToBag({x})
        = [y \in S \cup {x} |-> (IF y \in S THEN SetToBag(S)[y] ELSE 0)
                               + (IF y \in {x} THEN SetToBag({x})[y] ELSE 0)]
  BY <1>1 DEF (+)
<1>4. ASSUME NEW y \in S \cup {x}
      PROVE  (IF y \in S THEN SetToBag(S)[y] ELSE 0)
               + (IF y \in {x} THEN SetToBag({x})[y] ELSE 0) = 1
  <2>1. CASE y \in S
    <3>1. y \notin {x}
      BY <2>1
    <3>2. (IF y \in S THEN SetToBag(S)[y] ELSE 0) = 1
      BY <1>2, <2>1
    <3>3. (IF y \in {x} THEN SetToBag({x})[y] ELSE 0) = 0
      BY <3>1
    <3> QED BY <3>2, <3>3
  <2>2. CASE y = x
    <3>1. (IF y \in S THEN SetToBag(S)[y] ELSE 0) = 0
      BY <2>2
    <3>2. (IF y \in {x} THEN SetToBag({x})[y] ELSE 0) = 1
      BY <1>2, <2>2
    <3> QED BY <3>1, <3>2
  <2> QED BY <2>1, <2>2
<1>5. SetToBag(S) (+) SetToBag({x}) = [y \in S \cup {x} |-> 1]
  BY <1>3, <1>4
<1> QED BY <1>5 DEF SetToBag

-----------------------------------------------------------------------------
(* The sums of a kernel whose threads of the slots in S are still to come,  *)
(* each adding the term of its slot's entry to that entry's row.            *)
Through(r, S) == {i \in EntriesOf(r) : slot[i] \notin S}
SumOver(sums, F, S) ==
  /\ DOMAIN sums = Rows
  /\ \A r \in Rows : sums[r] = SetToBag({F[i] : i \in Through(r, S)})

LEMMA ThreadAdds ==
  ASSUME NEW sums, NEW F, NEW S \in SUBSET Entries, SumOver(sums, F, S),
         \A i, j \in Entries : F[i] = F[j] => i = j,
         NEW k \in Entries, slot[k] \in S, RowOf(k) \in Rows,
         \A j \in Entries : slot[j] = slot[k] => j = k
  PROVE  SumOver(AddTo(sums, RowOf(k), F[k]), F, S \ {slot[k]})
<1>1. DOMAIN sums = Rows /\ \A r \in Rows : sums[r] = SetToBag({F[i] : i \in Through(r, S)})
  BY DEF SumOver
<1>2. DOMAIN AddTo(sums, RowOf(k), F[k]) = Rows
  BY <1>1 DEF AddTo
<1>3. ASSUME NEW r \in Rows
      PROVE  AddTo(sums, RowOf(k), F[k])[r] = SetToBag({F[i] : i \in Through(r, S \ {slot[k]})})
  <2>1. CASE r = RowOf(k)
    <3>1. Through(r, S \ {slot[k]}) = Through(r, S) \cup {k}
      BY <2>1 DEF Through, EntriesOf
    <3>2. PICK B, x : B = {F[i] : i \in Through(r, S)} /\ x = F[k]
      OBVIOUS
    <3>3. x \notin B
      BY <3>2 DEF Through, EntriesOf
    <3>4. {F[i] : i \in Through(r, S \ {slot[k]})} = B \cup {x}
      BY <3>1, <3>2
    <3>5. AddTo(sums, RowOf(k), F[k])[r] = SetToBag(B) (+) SetToBag({x})
      BY <1>1, <2>1, <3>2 DEF AddTo
    <3>6. SetToBag(B) (+) SetToBag({x}) = SetToBag(B \cup {x})
      BY <3>3, BagGains
    <3> QED BY <3>4, <3>5, <3>6
  <2>2. CASE r # RowOf(k)
    <3>1. Through(r, S \ {slot[k]}) = Through(r, S)
      BY <2>2 DEF Through, EntriesOf
    <3>2. AddTo(sums, RowOf(k), F[k])[r] = sums[r]
      BY <1>1, <2>2 DEF AddTo
    <3> QED BY <1>1, <3>1, <3>2
  <2> QED BY <2>1, <2>2
<1> QED BY <1>2, <1>3 DEF SumOver

LEMMA NothingSummed ==
  ASSUME NEW F, \A i \in Entries : slot[i] \in Entries
  PROVE  SumOver(Sums(Rows), F, Entries)
<1>1. \A r : {F[i] : i \in Through(r, Entries)} = {}
  BY DEF Through, EntriesOf
<1> QED BY <1>1 DEF SumOver, Sums, EmptyBag

-----------------------------------------------------------------------------
(* The scale of an entry, and what it adds to its row's output and gradient. *)
Scale(i) == IF family = "routing" THEN i ELSE slot[i]
OutTerm == [i \in Entries |-> <<Scale(i), <<expert[i], RowOf(i)>>>>]
GradTerm == [i \in Entries |-> <<expert[i], <<Scale(i), RowOf(i)>>>>]

Filled(i) == rows[slot[i]] = [flat |-> i, expert |-> expert[i], x |-> RowOf(i)]
Differentiates(i) ==
  /\ gExpY[slot[i]] = <<Scale(i), RowOf(i)>>
  /\ gScales[Scale(i)] = <<RowOf(i), <<expert[i], RowOf(i)>>>>

(* The scatter's threads have filled their slots, the experts ran on them,  *)
(* and each later kernel has done its part for the slots it is through with. *)
WayBackInv ==
  /\ busy \subseteq Drawn /\ (kernel # "scatter" => busy = {})
  /\ DOMAIN rows = Entries /\ DOMAIN gExpY = Entries /\ DOMAIN gScales = Entries
  /\ \A i \in Drawn \ busy : Filled(i)
  /\ kernel \in {"finalize", "final_grad", "init_grad"} =>
       /\ todo \subseteq Entries
       /\ \A i \in Entries : expY[slot[i]] = <<expert[i], RowOf(i)>>
  /\ kernel = "finalize" => SumOver(out, OutTerm, todo)
  /\ kernel \in {"final_grad", "init_grad"} => SumOver(out, OutTerm, {})
  /\ kernel = "final_grad" => \A i \in Entries : slot[i] \notin todo => Differentiates(i)
  /\ kernel = "init_grad" =>
       /\ \A i \in Entries : Differentiates(i)
       /\ SumOver(gX, GradTerm, todo)

BackInv == RouteInv /\ WayBackInv

LEMMA BackInit ==
  ASSUME Sizes, RInit
  PROVE  BackInv
<1>1. RouteInv
  BY RouteInit
<1>2. WayBackInv
  BY DEF RInit, WayBackInv, Drawn, Fresh
<1> QED BY <1>1, <1>2 DEF BackInv

(* The kernels after the scatter know every slot. *)
LEMMA AfterScatter ==
  ASSUME Sizes, RouteInv, kernel \in {"experts", "finalize", "final_grad", "init_grad"}
  PROVE  /\ Drawn = Entries
         /\ \A i \in Entries : slot[i] \in Entries /\ RowOf(i) \in Rows
         /\ \A i, j \in Entries : slot[i] = slot[j] => i = j
         /\ \A i \in Entries : Scale(i) \in Entries
         /\ \A i, j \in Entries : Scale(i) = Scale(j) => i = j
         /\ \A p \in Entries : \E i \in Entries : slot[i] = p
<1>1. Drawn = Entries
  BY DEF Drawn
<1>2. \A i \in Entries : slot[i] \in Entries /\ \A j \in Entries : slot[i] = slot[j] => i = j
  BY <1>1, SlotWithin
<1>3. \A i \in Entries : RowOf(i) \in Rows
  BY RowsOfEntries DEF RowOf, Rows
<1>4. \A p \in Entries : \E i \in Entries : slot[i] = p
  BY <1>1, SlotsAll
<1>5. \A i \in Entries : Scale(i) \in Entries
  BY <1>2 DEF Scale
<1>6. \A i, j \in Entries : Scale(i) = Scale(j) => i = j
  BY <1>2 DEF Scale
<1> QED BY <1>1, <1>2, <1>3, <1>4, <1>5, <1>6

LEMMA TermsDiffer ==
  ASSUME Sizes, RouteInv, kernel \in {"experts", "finalize", "final_grad", "init_grad"}
  PROVE  /\ \A i, j \in Entries : OutTerm[i] = OutTerm[j] => i = j
         /\ \A i, j \in Entries : GradTerm[i] = GradTerm[j] => i = j
<1>1. \A i, j \in Entries : Scale(i) = Scale(j) => i = j
  BY AfterScatter
<1> QED BY <1>1 DEF OutTerm, GradTerm

(* Where the routes stay, so do the terms and who adds them. *)
LEMMA RoutesStay ==
  ASSUME family' = family, expert' = expert, slot' = slot
  PROVE  /\ Rows' = Rows /\ OutTerm' = OutTerm /\ GradTerm' = GradTerm
         /\ \A i : Scale(i)' = Scale(i) /\ RowOf(i)' = RowOf(i)
         /\ \A sums, F, S : SumOver(sums, F, S)' = SumOver(sums, F, S)
<1>1. Rows' = Rows /\ \A i : Scale(i)' = Scale(i) /\ RowOf(i)' = RowOf(i)
  BY DEF Rows, Scale, RowOf
<1>2. OutTerm' = OutTerm /\ GradTerm' = GradTerm
  BY <1>1 DEF OutTerm, GradTerm
<1>3. \A r, S : Through(r, S)' = Through(r, S)
  BY <1>1 DEF Through, EntriesOf
<1>4. \A sums, F, S : SumOver(sums, F, S)' = SumOver(sums, F, S)
  BY <1>1, <1>3 DEF SumOver
<1> QED BY <1>1, <1>2, <1>4

-----------------------------------------------------------------------------
(* No slot is drawn yet. *)
LEMMA BackBefore ==
  ASSUME BackInv, RouteInv', busy' = busy, rows' = rows, results' = results, Drawn' = {},
         kernel # "scatter", kernel' \notin {"finalize", "final_grad", "init_grad"}
  PROVE  BackInv'
<1>1. busy = {} /\ gExpY' = gExpY /\ gScales' = gScales
  BY DEF BackInv, WayBackInv, results
<1> QED BY <1>1 DEF BackInv, WayBackInv

LEMMA BackStutter ==
  ASSUME BackInv, RouteInv', UNCHANGED rvars
  PROVE  BackInv'
<1>1. /\ family' = family /\ expert' = expert /\ slot' = slot /\ kernel' = kernel
      /\ todo' = todo /\ busy' = busy /\ rows' = rows /\ expY' = expY /\ out' = out
      /\ gExpY' = gExpY /\ gScales' = gScales /\ gX' = gX
  BY DEF rvars, scattering, results
<1>2. Drawn' = Drawn /\ OutTerm' = OutTerm /\ GradTerm' = GradTerm
  BY <1>1, RoutesStay DEF Drawn
<1>3. \A i : /\ RowOf(i)' = RowOf(i) /\ Filled(i)' = Filled(i)
             /\ Differentiates(i)' = Differentiates(i)
  BY <1>1 DEF Filled, RowOf, Differentiates, Scale
<1>4. /\ SumOver(out, OutTerm, todo)' = SumOver(out, OutTerm, todo)
      /\ SumOver(out, OutTerm, {})' = SumOver(out, OutTerm, {})
      /\ SumOver(gX, GradTerm, todo)' = SumOver(gX, GradTerm, todo)
  BY <1>1, <1>2 DEF SumOver, Through, EntriesOf, RowOf, Rows
<1> QED BY <1>1, <1>2, <1>3, <1>4 DEF BackInv, WayBackInv

LEMMA BackTake ==
  ASSUME Sizes, BackInv, RouteInv', NEW i \in Entries, TakeSlot(i)
  PROVE  BackInv'
<1>1. /\ kernel = "scatter" /\ kernel' = "scatter" /\ i \in todo /\ todo' = todo \ {i}
      /\ slot' = [slot EXCEPT ![i] = ws[Running(expert[i])]] /\ busy' = busy \cup {i}
      /\ expert' = expert /\ family' = family /\ rows' = rows
      /\ gExpY' = gExpY /\ gScales' = gScales
  BY DEF TakeSlot, results
<1>2. Drawn' = Drawn \cup {i} /\ i \notin Drawn
  BY <1>1 DEF Drawn
<1>3. ASSUME NEW j \in Drawn' \ busy' PROVE Filled(j)'
  <2>1. j \in Drawn \ busy /\ j # i
    BY <1>1, <1>2, <1>3
  <2>2. slot'[j] = slot[j]
    BY <1>1, <2>1 DEF BackInv, RouteInv, SlotsInv, Drawn
  <2> QED BY <1>1, <2>1, <2>2 DEF BackInv, WayBackInv, Filled, RowOf
<1> QED BY <1>1, <1>2, <1>3 DEF BackInv, WayBackInv

LEMMA BackFill ==
  ASSUME Sizes, BackInv, RouteInv', NEW i \in Entries, FillSlot(i)
  PROVE  BackInv'
<1>1. /\ kernel = "scatter" /\ kernel' = "scatter" /\ i \in busy /\ busy' = busy \ {i}
      /\ rows' = [rows EXCEPT ![slot[i]] = [flat |-> i, expert |-> expert[i], x |-> RowOf(i)]]
      /\ slot' = slot /\ expert' = expert /\ family' = family /\ todo' = todo
      /\ gExpY' = gExpY /\ gScales' = gScales
  BY DEF FillSlot, results
<1>2. Drawn' = Drawn /\ i \in Drawn /\ DOMAIN rows = Entries
  BY <1>1 DEF Drawn, BackInv, WayBackInv
<1>3. slot[i] \in Entries /\ \A j \in Drawn : slot[i] = slot[j] => i = j
  BY <1>2, SlotWithin DEF BackInv
<1>4. ASSUME NEW j \in Drawn' \ busy' PROVE Filled(j)'
  <2>1. CASE j = i
    BY <1>1, <1>2, <1>3, <2>1 DEF Filled, RowOf
  <2>2. CASE j # i
    <3>1. j \in Drawn \ busy
      BY <1>1, <1>2, <1>4, <2>2
    <3>2. rows'[slot[j]] = rows[slot[j]]
      BY <1>1, <1>2, <1>3, <2>2, <3>1
    <3>3. Filled(j)
      BY <3>1 DEF BackInv, WayBackInv
    <3> QED BY <1>1, <3>2, <3>3 DEF Filled, RowOf
  <2> QED BY <2>1, <2>2
<1>5. busy' \subseteq Drawn' /\ DOMAIN rows' = Entries
  BY <1>1, <1>2 DEF BackInv, WayBackInv
<1> QED BY <1>1, <1>4, <1>5 DEF BackInv, WayBackInv

(* The kernels behind the scatter: what each leaves the same. *)
LEMMA BackLater ==
  ASSUME Sizes, BackInv, RouteInv', UNCHANGED <<family, expert, scattering>>,
         kernel \in {"scatter", "experts", "finalize", "final_grad", "init_grad"},
         kernel = "scatter" => todo = {} /\ busy = {},
         kernel' \in {"experts", "finalize", "final_grad", "init_grad"},
         DOMAIN gExpY' = Entries, DOMAIN gScales' = Entries,
         kernel' \in {"finalize", "final_grad", "init_grad"} =>
           /\ todo' \subseteq Entries
           /\ \A i \in Entries : expY'[slot[i]] = <<expert[i], RowOf(i)>>,
         kernel' = "finalize" => SumOver(out', OutTerm, todo'),
         kernel' \in {"final_grad", "init_grad"} => SumOver(out', OutTerm, {}),
         kernel' = "final_grad" =>
           \A i \in Entries : slot[i] \notin todo' => Differentiates(i)',
         kernel' = "init_grad" =>
           (\A i \in Entries : Differentiates(i)') /\ SumOver(gX', GradTerm, todo')
  PROVE  BackInv'
<1>1. family' = family /\ expert' = expert /\ slot' = slot /\ busy' = busy /\ rows' = rows
  BY DEF scattering
<1>2. Drawn' = Drawn /\ busy = {}
  BY DEF Drawn, BackInv, WayBackInv
<1>3. \A i : Filled(i)' = Filled(i) /\ RowOf(i)' = RowOf(i)
  BY <1>1 DEF Filled, RowOf
<1>4. SumOver(out, OutTerm, todo)' = SumOver(out', OutTerm, todo')
  BY <1>1, RoutesStay DEF SumOver, Through, EntriesOf, RowOf, Rows
<1>5. SumOver(out, OutTerm, {})' = SumOver(out', OutTerm, {})
  BY <1>1, RoutesStay DEF SumOver, Through, EntriesOf, RowOf, Rows
<1>6. SumOver(gX, GradTerm, todo)' = SumOver(gX', GradTerm, todo')
  BY <1>1, RoutesStay DEF SumOver, Through, EntriesOf, RowOf, Rows
<1> QED BY <1>1, <1>2, <1>3, <1>4, <1>5, <1>6 DEF BackInv, WayBackInv

(* What a slot holds behind the scatter. *)
LEMMA SlotHolds ==
  ASSUME Sizes, BackInv, kernel \in {"experts", "finalize", "final_grad", "init_grad"},
         NEW i \in Entries
  PROVE  rows[slot[i]].flat = i /\ rows[slot[i]].expert = expert[i] /\ rows[slot[i]].x = RowOf(i)
<1>1. Drawn = Entries /\ busy = {}
  BY DEF Drawn, BackInv, WayBackInv
<1>2. Filled(i)
  BY <1>1 DEF BackInv, WayBackInv
<1> QED BY <1>2 DEF Filled

LEMMA BackScattered ==
  ASSUME Sizes, BackInv, RouteInv', Scattered
  PROVE  BackInv'
<1>1. /\ kernel = "scatter" /\ kernel' = "experts" /\ todo = {} /\ busy = {}
      /\ UNCHANGED <<family, expert, scattering>> /\ gExpY' = gExpY /\ gScales' = gScales
  BY DEF Scattered, Go, results
<1>2. DOMAIN gExpY = Entries /\ DOMAIN gScales = Entries
  BY DEF BackInv, WayBackInv
<1> QED BY <1>1, <1>2, BackLater

LEMMA BackExperts ==
  ASSUME Sizes, BackInv, RouteInv', RunExperts
  PROVE  BackInv'
<1>1. /\ kernel = "experts" /\ kernel' = "finalize" /\ todo' = Entries
      /\ UNCHANGED <<family, expert, scattering>> /\ gExpY' = gExpY /\ gScales' = gScales
      /\ expY' = [p \in Entries |-> <<rows[p].expert, rows[p].x>>] /\ out' = Sums(Rows)
  BY DEF RunExperts
<1>2. DOMAIN gExpY = Entries /\ DOMAIN gScales = Entries
  BY DEF BackInv, WayBackInv
<1>3. \A i \in Entries : slot[i] \in Entries
  BY <1>1, AfterScatter DEF BackInv
<1>4. \A i \in Entries : expY'[slot[i]] = <<expert[i], RowOf(i)>>
  BY <1>1, <1>3, SlotHolds
<1>5. SumOver(out', OutTerm, todo')
  BY <1>1, <1>3, NothingSummed
<1> QED BY <1>1, <1>2, <1>4, <1>5, BackLater

(* Both combinations add an entry's term to its row. *)
LEMMA BackFinalize ==
  ASSUME Sizes, BackInv, RouteInv', NEW p \in Entries, FinalizeThread(p) \/ UnpermuteThread(p)
  PROVE  BackInv'
<1>1. /\ kernel = "finalize" /\ kernel' = "finalize" /\ p \in todo /\ todo' = todo \ {p}
      /\ UNCHANGED <<family, expert, scattering>>
      /\ gExpY' = gExpY /\ gScales' = gScales /\ expY' = expY
  BY DEF FinalizeThread, UnpermuteThread
<1>2. /\ DOMAIN gExpY = Entries /\ DOMAIN gScales = Entries /\ todo \subseteq Entries
      /\ \A i \in Entries : expY[slot[i]] = <<expert[i], RowOf(i)>>
      /\ SumOver(out, OutTerm, todo)
  BY <1>1 DEF BackInv, WayBackInv
<1>3. PICK k \in Entries : slot[k] = p
  BY <1>1, AfterScatter DEF BackInv
<1>4. /\ Drawn = Entries /\ RowOf(k) \in Rows
      /\ \A j \in Entries : slot[j] = slot[k] => j = k
  BY <1>1, AfterScatter DEF BackInv
<1>5. rows[p].flat = k
  BY <1>1, <1>3, SlotHolds
<1>6. OutTerm[k] = <<Scale(k), expY[p]>>
  BY <1>2, <1>3 DEF OutTerm
<1>7. out' = AddTo(out, RowOf(k), OutTerm[k])
  <2>1. CASE FinalizeThread(p)
    BY <1>5, <1>6, <2>1 DEF FinalizeThread, RowOf, Scale
  <2>2. CASE UnpermuteThread(p)
    BY <1>3, <1>5, <1>6, <2>2 DEF UnpermuteThread, RowOf, Scale
  <2> QED BY <2>1, <2>2
<1>8. SumOver(out', OutTerm, todo')
  <2>1. PICK F, S, sums : F = OutTerm /\ S = todo /\ sums = out
    OBVIOUS
  <2>2. SumOver(sums, F, S) /\ \A i, j \in Entries : F[i] = F[j] => i = j
    BY <1>1, <1>2, <2>1, TermsDiffer DEF BackInv
  <2>3. SumOver(AddTo(sums, RowOf(k), F[k]), F, S \ {slot[k]})
    BY <1>1, <1>2, <1>3, <1>4, <2>1, <2>2, ThreadAdds
  <2> QED BY <1>1, <1>3, <1>7, <2>1, <2>3
<1> QED BY <1>1, <1>2, <1>8, BackLater

LEMMA BackFinalized ==
  ASSUME Sizes, BackInv, RouteInv', Finalized
  PROVE  BackInv'
<1>1. /\ kernel = "finalize" /\ kernel' = "final_grad" /\ todo = {} /\ todo' = Entries
      /\ UNCHANGED <<family, expert, scattering>>
      /\ gExpY' = gExpY /\ gScales' = gScales /\ expY' = expY /\ out' = out
  BY DEF Finalized, Go, results
<1>2. /\ DOMAIN gExpY = Entries /\ DOMAIN gScales = Entries
      /\ \A i \in Entries : expY[slot[i]] = <<expert[i], RowOf(i)>>
      /\ SumOver(out, OutTerm, {})
  BY <1>1 DEF BackInv, WayBackInv
<1>3. \A i \in Entries : slot[i] \in todo'
  BY <1>1, AfterScatter DEF BackInv
<1> QED BY <1>1, <1>2, <1>3, BackLater

LEMMA BackFinalGrad ==
  ASSUME Sizes, BackInv, RouteInv', NEW p \in Entries, FinalGradThread(p) \/ UnpermuteGradThread(p)
  PROVE  BackInv'
<1>1. /\ kernel = "final_grad" /\ kernel' = "final_grad" /\ p \in todo /\ todo' = todo \ {p}
      /\ UNCHANGED <<family, expert, scattering>> /\ expY' = expY /\ out' = out
  BY DEF FinalGradThread, UnpermuteGradThread
<1>2. /\ DOMAIN gExpY = Entries /\ DOMAIN gScales = Entries /\ todo \subseteq Entries
      /\ \A i \in Entries : expY[slot[i]] = <<expert[i], RowOf(i)>>
      /\ SumOver(out, OutTerm, {})
      /\ \A i \in Entries : slot[i] \notin todo => Differentiates(i)
  BY <1>1 DEF BackInv, WayBackInv
<1>3. PICK k \in Entries : slot[k] = p
  BY <1>1, AfterScatter DEF BackInv
<1>4. /\ Drawn = Entries /\ \A j \in Entries : slot[j] \in Entries /\ Scale(j) \in Entries
      /\ \A j \in Entries : slot[j] = slot[k] => j = k
      /\ \A j \in Entries : Scale(j) = Scale(k) => j = k
  BY <1>1, AfterScatter DEF BackInv
<1>5. rows[p].flat = k
  BY <1>1, <1>3, SlotHolds
<1>6. /\ gExpY' = [gExpY EXCEPT ![slot[k]] = <<Scale(k), RowOf(k)>>]
      /\ gScales' = [gScales EXCEPT ![Scale(k)] = <<RowOf(k), <<expert[k], RowOf(k)>>>>]
  <2>1. CASE FinalGradThread(p)
    BY <1>2, <1>3, <1>5, <2>1 DEF FinalGradThread, RowOf, Scale
  <2>2. CASE UnpermuteGradThread(p)
    BY <1>2, <1>3, <1>5, <2>2 DEF UnpermuteGradThread, RowOf, Scale
  <2> QED BY <2>1, <2>2
<1>7. \A j : Scale(j)' = Scale(j) /\ RowOf(j)' = RowOf(j) /\ slot'[j] = slot[j] /\ expert'[j] = expert[j]
  BY <1>1, RoutesStay DEF scattering
<1>8. ASSUME NEW j \in Entries, slot[j] \notin todo' PROVE Differentiates(j)'
  <2>1. CASE j = k
    BY <1>2, <1>4, <1>6, <1>7, <2>1 DEF Differentiates
  <2>2. CASE j # k
    <3>1. Differentiates(j)
      BY <1>1, <1>2, <1>3, <1>4, <1>8, <2>2
    <3>2. slot[j] # slot[k] /\ Scale(j) # Scale(k)
      BY <1>4, <2>2
    <3>3. gExpY'[slot[j]] = gExpY[slot[j]] /\ gScales'[Scale(j)] = gScales[Scale(j)]
      BY <1>2, <1>4, <1>6, <3>2
    <3> QED BY <1>7, <3>1, <3>3 DEF Differentiates
  <2> QED BY <2>1, <2>2
<1>9. DOMAIN gExpY' = Entries /\ DOMAIN gScales' = Entries /\ todo' \subseteq Entries
  BY <1>1, <1>2, <1>6
<1> QED BY <1>1, <1>2, <1>8, <1>9, BackLater

LEMMA BackDifferentiated ==
  ASSUME Sizes, BackInv, RouteInv', Differentiated
  PROVE  BackInv'
<1>1. /\ kernel = "final_grad" /\ kernel' = "init_grad" /\ todo = {} /\ todo' = Entries
      /\ UNCHANGED <<family, expert, scattering>> /\ gX' = Sums(Rows)
      /\ gExpY' = gExpY /\ gScales' = gScales /\ expY' = expY /\ out' = out
  BY DEF Differentiated, Go
<1>2. /\ DOMAIN gExpY = Entries /\ DOMAIN gScales = Entries
      /\ \A i \in Entries : expY[slot[i]] = <<expert[i], RowOf(i)>>
      /\ SumOver(out, OutTerm, {})
      /\ \A i \in Entries : Differentiates(i)
  BY <1>1 DEF BackInv, WayBackInv
<1>3. \A j : Differentiates(j)' = Differentiates(j)
  BY <1>1, RoutesStay DEF Differentiates, scattering
<1>4. \A i \in Entries : slot[i] \in Entries
  BY <1>1, AfterScatter DEF BackInv
<1>5. SumOver(gX', GradTerm, todo')
  BY <1>1, <1>4, NothingSummed
<1> QED BY <1>1, <1>2, <1>3, <1>5, BackLater

LEMMA BackInitGrad ==
  ASSUME Sizes, BackInv, RouteInv', NEW p \in Entries, InitGradThread(p) \/ PermuteGradThread(p)
  PROVE  BackInv'
<1>1. /\ kernel = "init_grad" /\ kernel' = "init_grad" /\ p \in todo /\ todo' = todo \ {p}
      /\ UNCHANGED <<family, expert, scattering>>
      /\ gExpY' = gExpY /\ gScales' = gScales /\ expY' = expY /\ out' = out
  BY DEF InitGradThread, PermuteGradThread
<1>2. /\ DOMAIN gExpY = Entries /\ DOMAIN gScales = Entries /\ todo \subseteq Entries
      /\ \A i \in Entries : expY[slot[i]] = <<expert[i], RowOf(i)>>
      /\ SumOver(out, OutTerm, {}) /\ SumOver(gX, GradTerm, todo)
      /\ \A i \in Entries : Differentiates(i)
  BY <1>1 DEF BackInv, WayBackInv
<1>3. PICK k \in Entries : slot[k] = p
  BY <1>1, AfterScatter DEF BackInv
<1>4. /\ Drawn = Entries /\ RowOf(k) \in Rows
      /\ \A j \in Entries : slot[j] = slot[k] => j = k
  BY <1>1, AfterScatter DEF BackInv
<1>5. rows[p].flat = k /\ rows[p].expert = expert[k]
  BY <1>1, <1>3, SlotHolds
<1>6. GradTerm[k] = <<rows[p].expert, gExpY[p]>>
  BY <1>2, <1>3, <1>5 DEF GradTerm, Differentiates
<1>7. gX' = AddTo(gX, RowOf(k), GradTerm[k])
  BY <1>5, <1>6 DEF InitGradThread, PermuteGradThread, RowOf
<1>8. SumOver(gX', GradTerm, todo')
  <2>1. PICK F, S, sums : F = GradTerm /\ S = todo /\ sums = gX
    OBVIOUS
  <2>2. SumOver(sums, F, S) /\ \A i, j \in Entries : F[i] = F[j] => i = j
    BY <1>1, <1>2, <2>1, TermsDiffer DEF BackInv
  <2>3. SumOver(AddTo(sums, RowOf(k), F[k]), F, S \ {slot[k]})
    BY <1>1, <1>2, <1>3, <1>4, <2>1, <2>2, ThreadAdds
  <2> QED BY <1>1, <1>3, <1>7, <2>1, <2>3
<1>9. \A j : Differentiates(j)' = Differentiates(j)
  BY <1>1, RoutesStay DEF Differentiates, scattering
<1> QED BY <1>1, <1>2, <1>8, <1>9, BackLater

LEMMA BackStep ==
  ASSUME Sizes, BackInv, [RNext]_rvars
  PROVE  BackInv'
<1>1. RouteInv'
  BY RouteStep DEF BackInv
<1>2. CASE UNCHANGED rvars
  BY <1>1, <1>2, BackStutter
<1>3. CASE \E t \in Tokens : GateThread(t)
  BY <1>1, <1>3, BackBefore DEF GateThread, Drawn, scattering
<1>4. CASE Gated \/ Memset
  BY <1>1, <1>4, BackBefore DEF Gated, Memset, Go, Drawn, scattering
<1>5. CASE \E j \in Entries : HistThread(j)
  BY <1>1, <1>5, BackBefore DEF HistThread, Drawn, scattering
<1>6. CASE Counted \/ ScanStep
  BY <1>1, <1>6, BackBefore DEF Counted, ScanStep, Go, Drawn, scattering
<1>7. CASE Scanned
  BY <1>1, <1>7, BackBefore DEF Scanned, Go, Drawn, scattering
<1>8. CASE \E j \in Entries : TakeSlot(j)
  BY <1>1, <1>8, BackTake
<1>9. CASE \E j \in Entries : FillSlot(j)
  BY <1>1, <1>9, BackFill
<1>10. CASE Scattered
  BY <1>1, <1>10, BackScattered
<1>11. CASE RunExperts
  BY <1>1, <1>11, BackExperts
<1>12. CASE \E p \in Entries : FinalizeThread(p) \/ UnpermuteThread(p)
  BY <1>1, <1>12, BackFinalize
<1>13. CASE Finalized
  BY <1>1, <1>13, BackFinalized
<1>14. CASE \E p \in Entries : FinalGradThread(p) \/ UnpermuteGradThread(p)
  BY <1>1, <1>14, BackFinalGrad
<1>15. CASE Differentiated
  BY <1>1, <1>15, BackDifferentiated
<1>16. CASE \E p \in Entries : InitGradThread(p) \/ PermuteGradThread(p)
  BY <1>1, <1>16, BackInitGrad
<1> QED BY <1>2, <1>3, <1>4, <1>5, <1>6, <1>7, <1>8, <1>9, <1>10, <1>11, <1>12, <1>13,
           <1>14, <1>15, <1>16 DEF RNext

LEMMA BackInvariant ==
  ASSUME Sizes
  PROVE  RoutingSpec => []BackInv
<1>1. RInit => BackInv
  BY BackInit
<1>2. BackInv /\ [RNext]_rvars => BackInv'
  BY BackStep
<1> QED BY <1>1, <1>2, PTL DEF RoutingSpec

(* Sums over all threads, with the row of each entry named. *)
LEMMA SumsDone ==
  ASSUME NEW sums, NEW F, SumOver(sums, F, {}), NEW r \in Rows
  PROVE  sums[r] = SetToBag({F[i] : i \in EntriesOf(r)})
<1>1. Through(r, {}) = EntriesOf(r)
  BY DEF Through, EntriesOf
<1> QED BY <1>1 DEF SumOver

LEMMA BackCombined ==
  ASSUME Sizes, BackInv
  PROVE  ExpertsCombined
<1>1. SUFFICES ASSUME kernel \in {"final_grad", "init_grad"}, NEW r \in Rows
               PROVE  out[r] = SetToBag({<<IF family = "routing" THEN i ELSE slot[i],
                                           <<expert[i], r>>>> : i \in EntriesOf(r)})
  BY DEF ExpertsCombined
<1>2. PICK F, sums : F = OutTerm /\ sums = out
  OBVIOUS
<1>3. SumOver(sums, F, {})
  BY <1>1, <1>2 DEF BackInv, WayBackInv
<1>4. out[r] = SetToBag({F[i] : i \in EntriesOf(r)})
  BY <1>2, <1>3, SumsDone
<1>5. \A i \in EntriesOf(r) :
        F[i] = <<IF family = "routing" THEN i ELSE slot[i], <<expert[i], r>>>>
  BY <1>2 DEF OutTerm, EntriesOf, Scale
<1>6. {F[i] : i \in EntriesOf(r)}
        = {<<IF family = "routing" THEN i ELSE slot[i], <<expert[i], r>>>> : i \in EntriesOf(r)}
  BY <1>5
<1> QED BY <1>4, <1>6

LEMMA BackGradients ==
  ASSUME Sizes, BackInv
  PROVE  GradientsFollowRoutes
<1>1. SUFFICES ASSUME kernel = "init_grad", todo = {}
               PROVE  /\ \A r \in Rows :
                           gX[r] = SetToBag({<<expert[i], <<Scale(i), r>>>> : i \in EntriesOf(r)})
                      /\ \A i \in Entries :
                           gScales[Scale(i)] = <<RowOf(i), <<expert[i], RowOf(i)>>>>
  BY DEF GradientsFollowRoutes, Scale
<1>2. ASSUME NEW r \in Rows
      PROVE  gX[r] = SetToBag({<<expert[i], <<Scale(i), r>>>> : i \in EntriesOf(r)})
  <2>1. PICK F, sums : F = GradTerm /\ sums = gX
    OBVIOUS
  <2>2. SumOver(sums, F, {})
    BY <1>1, <2>1 DEF BackInv, WayBackInv
  <2>3. gX[r] = SetToBag({F[i] : i \in EntriesOf(r)})
    BY <2>1, <2>2, SumsDone
  <2>4. \A i \in EntriesOf(r) : F[i] = <<expert[i], <<Scale(i), r>>>>
    BY <2>1 DEF GradTerm, EntriesOf
  <2>5. {F[i] : i \in EntriesOf(r)} = {<<expert[i], <<Scale(i), r>>>> : i \in EntriesOf(r)}
    BY <2>4
  <2> QED BY <2>3, <2>5
<1>3. \A i \in Entries : gScales[Scale(i)] = <<RowOf(i), <<expert[i], RowOf(i)>>>>
  BY <1>1 DEF BackInv, WayBackInv, Differentiates
<1> QED BY <1>2, <1>3

(* A row's output is the sum, over its entries, of the entry's scale times  *)
(* its expert's output on this row, each once, in whatever order the        *)
(* threads of the scatter took slots and those of the combination add       *)
(* (k_finalize, k_unpermute_scatter, moe.cu:129).                           *)
THEOREM WeightedCombination ==
  ASSUME Sizes
  PROVE  RoutingSpec => []ExpertsCombined
<1>1. BackInv => ExpertsCombined
  BY BackCombined
<1> QED BY <1>1, BackInvariant, PTL

(* The gradients go back the way the entries came, each with its own scale  *)
(* (k_final_grad, k_init_grad, k_unpermute_grad, k_permute_grad,            *)
(* moe.cu:228).                                                             *)
THEOREM GradientsReturn ==
  ASSUME Sizes
  PROVE  RoutingSpec => []GradientsFollowRoutes
<1>1. BackInv => GradientsFollowRoutes
  BY BackGradients
<1> QED BY <1>1, BackInvariant, PTL
=============================================================================
