------------------------ MODULE GroupedMatmulProofs ------------------------
(***************************************************************************)
(* Proofs about the fork and join of a grouped matmul over the pool of     *)
(* streams, for any number of callers, streams in the pool, calls, groups  *)
(* and rows, with the callers and the device in any order.                 *)
(***************************************************************************)
EXTENDS GroupedMatmul, SequenceTheorems, WellFoundedInduction, TLAPS

(* What the code needs of its callers: the pool is filled before two of    *)
(* them use it.  Otherwise they race in grouped_streams(), which the run   *)
(* grouped_race shows.                                                     *)
FirstCallAlone ==
  \A p \in Programs : p.ready \/
    \A g, h \in Callers : p.lists[g] # <<>> /\ p.lists[h] # <<>> => g = h

Kernels ==
  [of : Callers, nth : Nat, does : {"produce"}]
  \cup [of : Callers, nth : Nat, does : {"consume"}, rows : SUBSET Int]
  \cup [of : Callers, nth : Nat, does : {"gemm"}, group : Nat, slice : Slots, rows : SUBSET Int]
Items ==
  [type : {"kernel"}, kernel : Kernels]
  \cup [type : {"record"}, event : Events, nth : Nat]
  \cup [type : {"wait"}, event : Events, nth : Nat]

Statements == {"produce", "empty?", "resize", "create", "fork", "forkWait", "gemm",
               "join", "return", "end"}

DeviceTyped ==
  /\ queue \in [Streams -> Seq(Items)]
  /\ busy \in [Streams -> BOOLEAN]
  /\ recorded \in [Events -> Nat]
  /\ reached \in [Events -> Nat]
  /\ \A s \in Streams : busy[s] => queue[s] # <<>> /\ Head(queue[s]).type = "kernel"

HostTyped ==
  /\ at \in [Callers -> Statements]
  /\ i \in [Callers -> Nat]
  /\ off \in [Callers -> Nat]
  /\ st \in [Callers -> {"ok", "error"}]
  /\ todo \in [Callers -> Seq(Seq(Nat))]
  /\ \A h \in Callers : at[h] # "end" => todo[h] # <<>>
  /\ \A h \in Callers : at[h] \in {"create", "forkWait", "join"} => i[h] \in Slots
  /\ \A h \in Callers : at[h] = "gemm" => i[h] < Len(Groups(h))

(* The pool is full for every caller past grouped_streams(); the one that  *)
(* fills it is alone.                                                      *)
Single == \A g, h \in Callers : at[g] # "end" /\ at[h] # "end" => g = h
Past(h) == at[h] \in {"fork", "forkWait", "gemm", "join", "return"}
PoolFull ==
  /\ \A h \in Callers : Past(h) => pool = Full(TRUE)
  /\ \A h \in Callers : at[h] \in {"resize", "create"} => Single
  /\ \A h \in Callers : at[h] = "create" =>
       pool \in [Slots -> BOOLEAN] /\ \A k \in Slots : k < i[h] => pool[k]
  /\ pool = Full(TRUE) \/ Single
  /\ pool \in {Empty, Full(TRUE)} \/ \E h \in Callers : at[h] = "create"

(* A kernel that writes the input of caller h's r-th call, of L[h] in all; *)
(* the call records its fork the r-th time.                                *)
Input(L, h, r) == [of |-> h, nth |-> L[h] + 1 - r, does |-> "produce"]
Turn(L, k) == L[k.of] + 1 - k.nth
Posted(h) == IF at[h] \in {"forkWait", "gemm", "join", "return"} THEN 1 ELSE 0
Launched(h) ==
  recorded[Fork(h)] + (IF at[h] \in {"empty?", "resize", "create", "fork"} THEN 1 ELSE 0)
CallsCounted(L) ==
  \A h \in Callers : /\ recorded[Fork(h)] + Len(todo[h]) = L[h] + Posted(h)
                     /\ Len(todo[h]) <= L[h]

(* It is over, or ahead of position b of the caller's stream. *)
Written(L, h, r, b) ==
  \/ Input(L, h, r) \in finished
  \/ \E a \in 1 .. b - 1 : queue[StreamOf(h)][a] = Kernel(Input(L, h, r))

(* A fork is behind the kernels whose end it tells. *)
InputsLaunched(L) ==
  \A h \in Callers : \A r \in 1 .. Launched(h) :
    Written(L, h, r, Len(queue[StreamOf(h)]) + 1)
ForksBehind(L) ==
  \A h \in Callers : \A s \in Streams : \A b \in 1 .. Len(queue[s]) :
    queue[s][b].type = "record" /\ queue[s][b].event = Fork(h) =>
      s = StreamOf(h) /\ \A r \in 1 .. queue[s][b].nth : Written(L, h, r, b)
ForksTell(L) ==
  \A h \in Callers : \A r \in 1 .. reached[Fork(h)] : Input(L, h, r) \in finished

(* A GEMM is behind a wait for the fork of its call, on its slice's stream. *)
IsGemm(x) == x.type = "kernel" /\ x.kernel.does = "gemm"
IsProduce(x) == x.type = "kernel" /\ x.kernel.does = "produce"
IsConsume(x) == x.type = "kernel" /\ x.kernel.does = "consume"
Awaited(L, h, r, s, b) ==
  \/ Input(L, h, r) \in finished
  \/ \E a \in 1 .. b - 1 : queue[s][a] = Wait(Fork(h), r)
ForksAwaited(L) ==
  \A h \in Callers : \A j \in Slots :
    at[h] = "gemm" \/ (at[h] = "forkWait" /\ j < i[h]) =>
      \A r \in {recorded[Fork(h)]}, b \in {Len(queue[Pool(j)]) + 1} :
        Awaited(L, h, r, Pool(j), b)
GemmsBehind(L) ==
  \A s \in Streams : \A b \in 1 .. Len(queue[s]) :
    IsGemm(queue[s][b]) =>
      \A k \in {queue[s][b].kernel} :
        /\ k.of \in Callers /\ k.nth \in 1 .. L[k.of] /\ s = Pool(k.slice)
        /\ Awaited(L, k.of, Turn(L, k), s, b)

ForkInv(L) ==
  /\ CallsCounted(L) /\ InputsLaunched(L) /\ ForksBehind(L) /\ ForksTell(L)
  /\ ForksAwaited(L) /\ GemmsBehind(L)

-----------------------------------------------------------------------------
(* The slots of the pool: numbers below NS, and what the last of them is. *)
LEMMA SlotsFacts ==
  /\ NS \in Nat \ {0} /\ 0 \in Slots /\ Slots \subseteq Nat
  /\ Full(TRUE) # Empty /\ Full(FALSE) # Empty
  /\ \A k \in Slots : k + 1 < NS => k + 1 \in Slots
  /\ \A k \in Slots : ~(k + 1 < NS) => \A j \in Slots : j < k \/ j = k
<1>1. DOMAIN Full(TRUE) = Slots /\ DOMAIN Full(FALSE) = Slots /\ DOMAIN Empty = {}
  BY DEF Full, Empty
<1>2. NS \in Nat \ {0} /\ 0 \in Slots /\ Slots \subseteq Nat
  BY PoolAssumption DEF Slots
<1>3. \A k \in Slots : k + 1 < NS => k + 1 \in Slots
  BY <1>2 DEF Slots
<1>4. \A k \in Slots : ~(k + 1 < NS) => \A j \in Slots : j < k \/ j = k
  BY <1>2 DEF Slots
<1>5. Full(TRUE) # Empty /\ Full(FALSE) # Empty
  BY <1>1, <1>2
<1> QED BY <1>2, <1>3, <1>4, <1>5

(* The streams and events of distinct callers and slots are distinct. *)
LEMMA StreamFacts ==
  /\ \A h \in Callers : StreamOf(h) \in Streams /\ Fork(h) \in Events
  /\ \A k \in Slots : Pool(k) \in Streams
  /\ \A h \in Callers, k \in Slots : Join(h, k) \in Events /\ StreamOf(h) # Pool(k)
  /\ \A k, l \in Slots : Pool(k) = Pool(l) => k = l
  /\ \A g, h \in Callers : (StreamOf(g) = StreamOf(h) => g = h) /\ (Fork(g) = Fork(h) => g = h)
  /\ \A g, h \in Callers, k \in Slots : Fork(g) # Join(h, k)
BY DeviceAssumption DEF StreamOf, Pool, Fork, Join, UserStreams, PoolStreams

(* What appending an item does to a queue ... *)
LEMMA Appended ==
  ASSUME NEW S, NEW q \in Seq(S), NEW x \in S
  PROVE  /\ Append(q, x) \in Seq(S)
         /\ Len(q) \in Nat /\ Len(Append(q, x)) = Len(q) + 1
         /\ \A r \in 1 .. Len(q) : Append(q, x)[r] = q[r]
         /\ Append(q, x)[Len(q) + 1] = x
         /\ Append(q, x) # <<>>
         /\ q # <<>> => Head(Append(q, x)) = Head(q)
         /\ \A r \in 1 .. Len(q) : q[r] \in S
BY AppendProperties, LenProperties, ElementOfSeq, EmptySeq

(* ... and what taking its first one does. *)
LEMMA Tailed ==
  ASSUME NEW S, NEW q \in Seq(S), q # <<>>
  PROVE  /\ Tail(q) \in Seq(S)
         /\ Len(q) \in Nat \ {0} /\ Len(Tail(q)) = Len(q) - 1
         /\ \A r \in 1 .. Len(q) - 1 : Tail(q)[r] = q[r + 1]
         /\ Head(q) = q[1] /\ Head(q) \in S
         /\ \A r \in 1 .. Len(q) : q[r] \in S
         /\ Len(q) > 1 => Tail(q) # <<>>
<1>1. /\ Tail(q) \in Seq(S)
      /\ Len(q) \in Nat \ {0} /\ Len(Tail(q)) = Len(q) - 1
      /\ \A r \in 1 .. Len(q) - 1 : Tail(q)[r] = q[r + 1]
      /\ Head(q) = q[1] /\ Head(q) \in S
      /\ \A r \in 1 .. Len(q) : q[r] \in S
  BY HeadTailProperties, LenProperties, ElementOfSeq, EmptySeq
<1>2. Tail(q) = <<>> => Len(Tail(q)) = 0
  BY EmptySeq
<1> QED BY <1>1, <1>2

-----------------------------------------------------------------------------
(* The host's own variables. *)
LEMMA HostTypes ==
  ASSUME HostTyped, NEW h \in Callers, HostStep(h)
  PROVE  HostTyped'
<1> USE SlotsFacts DEF HostTyped, Statements
<1>1. CASE Produce(h) \/ TestEmpty(h) \/ Resize(h)
  <2>1. CASE Produce(h)
    BY <2>1 DEF Produce, Goto, Groups
  <2>2. CASE TestEmpty(h)
    BY <2>2 DEF TestEmpty, Goto, Groups
  <2>3. CASE Resize(h)
    BY <2>3 DEF Resize, Goto, Groups
  <2> QED BY <1>1, <2>1, <2>2, <2>3
<1>2. CASE CreateStream(h)
  <2>1. CASE i[h] + 1 < NS
    <3>1. i' = [i EXCEPT ![h] = i[h] + 1] /\ UNCHANGED <<at, off, st, todo>>
      BY <1>2, <2>1 DEF CreateStream, Loop
    <3>2. at[h] = "create" /\ i[h] \in Slots /\ i[h] + 1 \in Slots
      BY <1>2, <2>1 DEF CreateStream
    <3> QED BY <3>1, <3>2 DEF Groups
  <2>2. CASE ~(i[h] + 1 < NS)
    <3>1. Goto(h, "fork") /\ UNCHANGED <<off, st, todo>> /\ at[h] # "end"
      BY <1>2, <2>2 DEF CreateStream, Loop
    <3> QED BY <3>1 DEF Goto, Groups
  <2> QED BY <2>1, <2>2
<1>3. CASE ForkRecord(h) \/ JoinTurn(h)
  <2>1. CASE ForkRecord(h)
    BY <2>1 DEF ForkRecord, Goto, Groups
  <2>2. CASE JoinTurn(h)
    <3>1. /\ at[h] = "join" /\ i[h] \in Slots /\ i[h] + 1 \in Nat
          /\ UNCHANGED <<off, st, todo>>
      BY <2>2 DEF JoinTurn
    <3>2. CASE i[h] + 1 < NS
      <4>1. i' = [i EXCEPT ![h] = i[h] + 1] /\ UNCHANGED at /\ i[h] + 1 \in Slots
        BY <2>2, <3>1, <3>2 DEF JoinTurn, Loop, JoinedSlots
      <4> QED BY <3>1, <4>1 DEF Groups
    <3>3. CASE ~(i[h] + 1 < NS)
      <4>1. at' = [at EXCEPT ![h] = "return"] /\ i' = [i EXCEPT ![h] = 0]
        BY <2>2, <3>3 DEF JoinTurn, Loop, JoinedSlots, Goto
      <4> QED BY <3>1, <4>1 DEF Groups
    <3> QED BY <3>2, <3>3
  <2> QED BY <1>3, <2>1, <2>2
<1>4. CASE ForkWait(h)
  <2>1. Groups(h) \in Seq(Nat)
    BY <1>4, HeadTailProperties DEF ForkWait, Groups
  <2>2. Groups(h) # <<>> => 0 < Len(Groups(h))
    BY <2>1, EmptySeq, LenProperties
  <2>3. at[h] = "forkWait" /\ i[h] \in Slots /\ UNCHANGED <<off, st, todo>>
    BY <1>4 DEF ForkWait
  <2>4. CASE i[h] + 1 < NS
    <3>1. i' = [i EXCEPT ![h] = i[h] + 1] /\ UNCHANGED at /\ i[h] + 1 \in Slots
      BY <1>4, <2>3, <2>4 DEF ForkWait, Loop, ForkedSlots
    <3> QED BY <2>3, <3>1 DEF Groups
  <2>5. CASE ~(i[h] + 1 < NS)
    <3>1. Goto(h, IF Groups(h) = <<>> THEN "join" ELSE "gemm")
      BY <1>4, <2>5 DEF ForkWait, Loop, ForkedSlots
    <3> QED BY <2>2, <2>3, <3>1 DEF Goto, Groups
  <2> QED BY <2>4, <2>5
<1>5. ASSUME at[h] = "gemm", LaunchGroup(h) \/ GroupFails(h) PROVE HostTyped'
  <2>1. Groups(h) \in Seq(Nat) /\ Len(Groups(h)) \in Nat
    BY <1>5, HeadTailProperties, LenProperties DEF Groups
  <2>2. Size(h) \in Nat
    BY <2>1, <1>5, ElementOfSeq DEF Size
  <2>3. off' = [off EXCEPT ![h] = off[h] + Size(h)] /\ UNCHANGED todo /\ Loop(h, Len(Groups(h)), "join")
    BY <1>5 DEF LaunchGroup, GroupFails, NextOff
  <2>4. off' \in [Callers -> Nat] /\ st' \in [Callers -> {"ok", "error"}]
    <3>1. st' = st \/ st' = [st EXCEPT ![h] = "error"]
      BY <1>5 DEF LaunchGroup, GroupFails
    <3>2. st' \in [Callers -> {"ok", "error"}]
      BY <3>1
    <3>3. off' \in [Callers -> Nat]
      BY <2>2, <2>3
    <3> QED BY <3>2, <3>3
  <2>5. \A g \in Callers : Groups(g)' = Groups(g)
    BY <2>3 DEF Groups
  <2>6. /\ at' \in [Callers -> Statements] /\ i' \in [Callers -> Nat]
        /\ \/ at'[h] = "gemm" /\ i'[h] < Len(Groups(h))
           \/ at'[h] = "join" /\ i'[h] = 0
        /\ \A g \in Callers \ {h} : at'[g] = at[g] /\ i'[g] = i[g]
    <3>1. PICK n : n = Len(Groups(h))
      OBVIOUS
    <3>2. CASE i[h] + 1 < n
      <4>1. i' = [i EXCEPT ![h] = i[h] + 1] /\ at' = at /\ i[h] \in Nat
        BY <3>1, <3>2, <2>3 DEF Loop
      <4> QED BY <4>1, <3>1, <3>2, <1>5
    <3>3. CASE ~(i[h] + 1 < n)
      BY <3>1, <3>3, <1>5, <2>3 DEF Goto, Loop
    <3> QED BY <3>2, <3>3
  <2>7. ASSUME NEW g \in Callers
        PROVE  /\ at'[g] # "end" => todo'[g] # <<>>
               /\ at'[g] \in {"create", "forkWait", "join"} => i'[g] \in Slots
               /\ at'[g] = "gemm" => i'[g] < Len(Groups(g)')
    BY <1>5, <2>3, <2>5, <2>6
  <2> QED BY <2>3, <2>4, <2>6, <2>7
<1>6. CASE Return(h)
  <2>1. /\ todo[h] \in Seq(Seq(Nat)) /\ todo[h] # <<>>
        /\ todo' = [todo EXCEPT ![h] = Tail(todo[h])]
    BY <1>6 DEF Return
  <2>2. /\ Tail(todo[h]) \in Seq(Seq(Nat))
        /\ Len(todo[h]) > 1 => Tail(todo[h]) # <<>>
    BY <2>1, Tailed
  <2>3. Goto(h, IF Len(todo[h]) > 1 THEN "produce" ELSE "end") /\ UNCHANGED off
    BY <1>6 DEF Return
  <2>4. /\ at' \in [Callers -> Statements] /\ i' \in [Callers -> Nat]
        /\ at'[h] \in {"produce", "end"} /\ (at'[h] # "end" => Len(todo[h]) > 1)
        /\ \A g \in Callers \ {h} : at'[g] = at[g] /\ i'[g] = i[g]
    BY <2>3 DEF Goto
  <2>5. /\ todo' \in [Callers -> Seq(Seq(Nat))] /\ todo'[h] = Tail(todo[h])
        /\ \A g \in Callers \ {h} : todo'[g] = todo[g]
    BY <2>1, <2>2
  <2>6. \A g \in Callers : (at'[g] # "end" => todo'[g] # <<>>)
    BY <2>2, <2>4, <2>5
  <2>7. off' \in [Callers -> Nat] /\ st' \in [Callers -> {"ok", "error"}]
    BY <1>6, <2>3 DEF Return
  <2> QED BY <2>4, <2>5, <2>6, <2>7 DEF Groups
<1> QED
  BY <1>1, <1>2, <1>3, <1>4, <1>5, <1>6 DEF HostStep, LaunchGroup, GroupFails

(* At first the pool is full or one caller is alone ... *)
LEMMA PoolInit ==
  ASSUME FirstCallAlone, Init
  PROVE  PoolFull
<1>1. PICK p \in Programs :
        pool = (IF p.ready THEN Full(TRUE) ELSE Empty) /\ todo = p.lists
  BY DEF Init
<1>2. \A h \in Callers : at[h] \in {"produce", "end"} /\ (at[h] # "end" => todo[h] # <<>>)
  BY DEF Init
<1>3. p.ready \/ Single
  BY <1>1, <1>2 DEF FirstCallAlone, Single
<1> QED BY <1>1, <1>2, <1>3 DEF PoolFull, Past

(* ... and every step of the host keeps it so. *)
LEMMA PoolKeeps ==
  ASSUME HostTyped, PoolFull, NEW h \in Callers, HostStep(h)
  PROVE  PoolFull'
<1> USE SlotsFacts
<1>1. \A g \in Callers \ {h} : at'[g] = at[g] /\ i'[g] = i[g]
  BY DEF HostStep, Produce, TestEmpty, Resize, CreateStream, ForkRecord, ForkWait,
         LaunchGroup, GroupFails, JoinTurn, Return, Goto, Loop, HostTyped
<1>2. at[h] # "end" /\ at' \in [Callers -> Statements] /\ i' \in [Callers -> Nat]
  <2>1. HostTyped'
    BY HostTypes
  <2> QED BY <2>1 DEF HostTyped, HostStep, Produce, TestEmpty, Resize, CreateStream, ForkRecord, ForkWait,
         LaunchGroup, GroupFails, JoinTurn, Return
<1>3. Single => Single'
  BY <1>1, <1>2 DEF Single
<1>4. ASSUME UNCHANGED pool, at'[h] # "create", at'[h] # "resize", Past(h)' => pool = Full(TRUE),
             at[h] # "create"
      PROVE  PoolFull'
  BY <1>1, <1>2, <1>3, <1>4 DEF PoolFull, Past
<1>5. CASE Produce(h)
  BY <1>4, <1>5 DEF Produce, Goto, HostTyped, Past
<1>6. CASE TestEmpty(h)
  <2>1. pool # Empty => pool = Full(TRUE)
    BY <1>6 DEF PoolFull, Single, TestEmpty
  <2>2. CASE pool # Empty
    BY <2>1, <2>2, <1>4, <1>6 DEF TestEmpty, Goto, HostTyped, Past
  <2>3. CASE pool = Empty
    BY <2>3, <1>6, <1>1, <1>2, <1>3 DEF TestEmpty, Goto, PoolFull, Past, HostTyped
  <2> QED BY <2>2, <2>3
<1>7. CASE Resize(h)
  BY <1>7, <1>1, <1>2, <1>3 DEF Resize, Goto, PoolFull, Past, HostTyped, Full, Single
<1>8. CASE CreateStream(h)
  <2>1. /\ at[h] = "create" /\ Single /\ pool \in [Slots -> BOOLEAN] /\ i[h] \in Slots
        /\ \A k \in Slots : k < i[h] => pool[k]
        /\ pool' = [pool EXCEPT ![i[h]] = TRUE]
    BY <1>8 DEF CreateStream, PoolFull, HostTyped
  <2>2. pool' \in [Slots -> BOOLEAN] /\ \A k \in Slots : k < i[h] + 1 => pool'[k]
    <3>1. \A k \in Slots : k < i[h] + 1 => k < i[h] \/ k = i[h]
      <4>1. PICK n \in Nat : n = i[h]
        BY <2>1
      <4>2. \A k \in Nat : k < n + 1 => k < n \/ k = n
        OBVIOUS
      <4> QED BY <4>1, <4>2
    <3>2. pool' \in [Slots -> BOOLEAN] /\ pool'[i[h]]
      BY <2>1, Zenon
    <3>3. \A k \in Slots : pool'[k] = pool[k] \/ k = i[h]
      BY <2>1, Zenon
    <3> QED BY <3>1, <3>2, <3>3, <2>1
  <2>3. CASE i[h] + 1 < NS
    <3>1. at'[h] = "create" /\ i'[h] = i[h] + 1
      BY <2>1, <2>3, <1>8 DEF CreateStream, Loop, HostTyped
    <3>2. \A g \in Callers \ {h} : at'[g] = "end"
      BY <2>1, <1>1, <1>2 DEF Single
    <3>3. \A k \in Slots : k < i'[h] => pool'[k]
      BY <3>1, <2>2, Zenon
    <3>4. Single'
      BY <2>1, <1>3
    <3>5. \A g \in Callers : at'[g] = "create" => g = h
      BY <3>2, Zenon
    <3> QED BY <3>1, <3>2, <3>3, <3>4, <3>5, <2>2, Zenon DEF PoolFull, Past
  <2>4. CASE ~(i[h] + 1 < NS)
    <3>1. at'[h] = "fork"
      BY <2>1, <2>4, <1>8 DEF CreateStream, Loop, Goto, HostTyped
    <3>2. \A k \in Slots : pool'[k]
      BY <2>1, <2>2, <2>4
    <3>3. pool' = Full(TRUE)
      BY <3>2, <2>2 DEF Full
    <3> QED BY <3>1, <3>3, <2>1, <1>1, <1>2, <1>3 DEF PoolFull, Past, Single
  <2> QED BY <2>3, <2>4
<1>9. CASE ForkRecord(h) \/ ForkWait(h) \/ LaunchGroup(h) \/ GroupFails(h) \/ JoinTurn(h) \/ Return(h)
  <2>1. /\ UNCHANGED pool /\ Past(h) /\ at[h] # "create"
        /\ at'[h] # "create" /\ at'[h] # "resize"
    BY <1>9 DEF ForkRecord, ForkWait, LaunchGroup, GroupFails, JoinTurn, Return, Goto, Loop, HostTyped, Past
  <2>2. pool = Full(TRUE)
    BY <2>1 DEF PoolFull
  <2> QED BY <2>1, <2>2, <1>4
<1> QED BY <1>5, <1>6, <1>7, <1>8, <1>9 DEF HostStep
-----------------------------------------------------------------------------
(* What a step of the device does: it takes at most the head of one queue. *)
Dropped(s) ==
  /\ queue[s] # <<>> /\ queue' = [queue EXCEPT ![s] = Tail(@)]
  /\ Head(queue[s]).type = "kernel" => finished' = finished \cup {Head(queue[s]).kernel}
  /\ Head(queue[s]).type # "kernel" => finished' = finished
  /\ Head(queue[s]).type = "record" =>
       reached' = [reached EXCEPT ![Head(queue[s]).event] = Head(queue[s]).nth]
  /\ Head(queue[s]).type # "record" => reached' = reached
  /\ Head(queue[s]).type = "wait" => reached[Head(queue[s]).event] >= Head(queue[s]).nth
  /\ recorded' = recorded

(* A step of the device takes the first item of one stream, or changes nothing. *)
LEMMA DeviceDrops ==
  ASSUME DeviceTyped, NEW s \in Streams, DeviceStep(s)
  PROVE  /\ DeviceTyped'
         /\ Dropped(s) \/ UNCHANGED <<queue, recorded, reached, finished>>
<1>1. CASE Start(s)
  BY <1>1 DEF Start, AtHead, DeviceTyped
<1>2. ASSUME queue[s] # <<>>, queue' = [queue EXCEPT ![s] = Tail(@)],
             busy' = [busy EXCEPT ![s] = FALSE], recorded' = recorded,
             reached' \in [Events -> Nat]
      PROVE  DeviceTyped'
  <2>1. Tail(queue[s]) \in Seq(Items)
    BY <1>2, Tailed DEF DeviceTyped
  <2> QED BY <1>2, <2>1 DEF DeviceTyped
<1>3. queue[s] # <<>> => Head(queue[s]) \in Items
  BY Tailed DEF DeviceTyped
<1>4. CASE Finish(s)
  <2>1. queue[s] # <<>> /\ Head(queue[s]).type = "kernel"
    BY <1>4 DEF Finish, DeviceTyped
  <2> QED BY <1>2, <1>4, <2>1 DEF Finish, Dropped, DeviceTyped
<1>5. CASE Reach(s)
  <2>1. /\ Head(queue[s]).type = "record" /\ queue[s] # <<>>
        /\ Head(queue[s]).event \in Events /\ Head(queue[s]).nth \in Nat
    BY <1>5, <1>3 DEF Reach, AtHead, Items
  <2>2. busy' = [busy EXCEPT ![s] = FALSE]
    BY <1>5, <2>1 DEF Reach, DeviceTyped
  <2> QED BY <1>2, <1>5, <2>1, <2>2 DEF Reach, Dropped, DeviceTyped
<1>6. CASE Pass(s)
  <2>1. Head(queue[s]).type = "wait" /\ queue[s] # <<>>
    BY <1>6 DEF Pass, AtHead
  <2>2. busy' = [busy EXCEPT ![s] = FALSE]
    BY <1>6, <2>1 DEF Pass, DeviceTyped
  <2> QED BY <1>2, <1>6, <2>1, <2>2 DEF Pass, Dropped, DeviceTyped
<1> QED BY <1>1, <1>4, <1>5, <1>6 DEF DeviceStep

(* The host appends at most one item to a queue. *)
Added(s, x) == x \in Items /\ queue' = [queue EXCEPT ![s] = Append(@, x)]
Untouched == finished' = finished /\ reached' = reached /\ busy' = busy

(* An item put on a stream keeps the types. *)
LEMMA AddedTyped ==
  ASSUME DeviceTyped, NEW s \in Streams, NEW x, Added(s, x), Untouched,
         recorded' \in [Events -> Nat]
  PROVE  DeviceTyped'
<1>1. /\ Append(queue[s], x) \in Seq(Items) /\ Append(queue[s], x) # <<>>
      /\ queue[s] # <<>> => Head(Append(queue[s], x)) = Head(queue[s])
  BY Appended DEF DeviceTyped, Added
<1>2. queue' \in [Streams -> Seq(Items)] /\ queue'[s] = Append(queue[s], x)
      /\ \A t \in Streams \ {s} : queue'[t] = queue[t]
  BY <1>1 DEF DeviceTyped, Added
<1>3. ASSUME NEW t \in Streams, busy[t]
      PROVE  queue'[t] # <<>> /\ Head(queue'[t]).type = "kernel"
  <2>1. queue[t] # <<>> /\ Head(queue[t]).type = "kernel"
    BY <1>3 DEF DeviceTyped
  <2> QED BY <2>1, <1>1, <1>2
<1> QED BY <1>2, <1>3 DEF DeviceTyped, Untouched

-----------------------------------------------------------------------------
(* A step of the device keeps the order of inputs, forks and GEMMs. *)
LEMMA DroppedItems ==
  ASSUME DeviceTyped, NEW s \in Streams, Dropped(s)
  PROVE  /\ queue[s] \in Seq(Items) /\ queue[s] # <<>> /\ Head(queue[s]) = queue[s][1]
         /\ Head(queue[s]) \in Items
         /\ Len(queue[s]) \in Nat \ {0} /\ Len(queue'[s]) = Len(queue[s]) - 1
         /\ \A b \in 1 .. Len(queue'[s]) : queue'[s][b] = queue[s][b + 1] /\ b + 1 \in 1 .. Len(queue[s])
         /\ \A t \in Streams : t # s => queue'[t] = queue[t]
         /\ finished \subseteq finished'
<1>1. queue'[s] = Tail(queue[s]) /\ \A t \in Streams : t # s => queue'[t] = queue[t]
  BY DEF Dropped, DeviceTyped
<1>2. queue[s] \in Seq(Items) /\ queue[s] # <<>>
  BY DEF Dropped, DeviceTyped
<1>3. finished \subseteq finished'
  BY DEF Dropped
<1> QED BY <1>1, <1>2, <1>3, Tailed

(* An input once written, or ahead in its queue, stays so ... *)
LEMMA DeviceKeepsWritten ==
  ASSUME DeviceTyped, NEW s \in Streams, Dropped(s),
         NEW L, NEW h \in Callers, NEW r, NEW b \in 1 .. Len(queue[StreamOf(h)]) + 1,
         Written(L, h, r, b)
  PROVE  /\ s # StreamOf(h) => Written(L, h, r, b)'
         /\ s = StreamOf(h) => Written(L, h, r, b - 1)'
<1> DEFINE k == Input(L, h, r)
<1>1. k' = k
  BY DEF Input
<1>2. CASE k \in finished
  BY <1>1, <1>2, DroppedItems DEF Written
<1>3. ASSUME NEW a \in 1 .. b - 1, queue[StreamOf(h)][a] = Kernel(k), s # StreamOf(h)
      PROVE  Written(L, h, r, b)'
  <2>1. queue'[StreamOf(h)][a] = Kernel(k)
    BY <1>3, DroppedItems, StreamFacts
  <2> HIDE DEF k
  <2> QED BY <2>1, <1>1 DEF Written, Kernel, k
<1>4. ASSUME NEW a \in 1 .. b - 1, queue[s][a] = Kernel(k), s = StreamOf(h)
      PROVE  Written(L, h, r, b - 1)'
  <2>1. CASE a = 1
    <3>1. Head(queue[s]).type = "kernel" /\ Head(queue[s]).kernel = k
      BY <1>4, <2>1, DroppedItems DEF Kernel
    <3>2. k \in finished'
      BY <3>1 DEF Dropped
    <3> QED BY <3>2, <1>1 DEF Written
  <2>2. CASE a # 1
    <3>1. PICK c \in 1 .. (b - 1) - 1 : a = c + 1
      <4>1. a - 1 \in 1 .. (b - 1) - 1 /\ a = (a - 1) + 1
        BY <2>2
      <4> QED BY <4>1
    <3>2. c \in 1 .. Len(queue'[s])
      BY <3>1, <1>4, DroppedItems
    <3>3. queue'[s][c] = Kernel(k)
      BY <3>2, <3>1, <1>4, DroppedItems
    <3> HIDE DEF k
    <3> QED BY <3>3, <3>1, <1>1, <1>4 DEF Written, Kernel, k
  <2> QED BY <2>1, <2>2
<1> QED BY <1>2, <1>3, <1>4 DEF Written

(* ... and so does a wait for it. *)
LEMMA DeviceKeepsAwaited ==
  ASSUME DeviceTyped, NEW s \in Streams, Dropped(s), NEW L, ForksTell(L),
         NEW h \in Callers, NEW r \in Nat \ {0}, NEW t \in Streams,
         NEW b \in 1 .. Len(queue[t]) + 1, Awaited(L, h, r, t, b)
  PROVE  /\ s # t => Awaited(L, h, r, t, b)'
         /\ s = t => Awaited(L, h, r, t, b - 1)'
<1> DEFINE k == Input(L, h, r)
<1>1. k' = k
  BY DEF Input
<1>2. CASE k \in finished
  BY <1>1, <1>2, DroppedItems DEF Awaited
<1>3. ASSUME NEW a \in 1 .. b - 1, queue[t][a] = Wait(Fork(h), r), s # t
      PROVE  Awaited(L, h, r, t, b)'
  BY <1>3, DroppedItems DEF Awaited, Wait, Fork
<1>4. ASSUME NEW a \in 1 .. b - 1, queue[s][a] = Wait(Fork(h), r), s = t
      PROVE  Awaited(L, h, r, t, b - 1)'
  <2>1. CASE a = 1
    <3>1. /\ Head(queue[s]).type = "wait" /\ Head(queue[s]).event = Fork(h)
          /\ Head(queue[s]).nth = r
      BY <1>4, <2>1, DroppedItems DEF Wait
    <3>2. reached[Fork(h)] >= r /\ reached[Fork(h)] \in Nat
      BY <3>1, StreamFacts DEF Dropped, DeviceTyped
    <3>3. k \in finished
      BY <3>2 DEF ForksTell
    <3> QED BY <3>3, <1>2, <1>4, <1>1, DroppedItems DEF Awaited
  <2>2. CASE a # 1
    <3>1. PICK c \in 1 .. (b - 1) - 1 : a = c + 1
      <4>1. a - 1 \in 1 .. (b - 1) - 1 /\ a = (a - 1) + 1
        BY <2>2
      <4> QED BY <4>1
    <3>2. c \in 1 .. Len(queue'[s])
      BY <3>1, <1>4, DroppedItems
    <3>3. queue'[s][c] = Wait(Fork(h), r)
      BY <3>2, <3>1, <1>4, DroppedItems
    <3> QED BY <3>3, <3>1, <1>4 DEF Awaited, Wait, Fork
  <2> QED BY <2>1, <2>2
<1> QED BY <1>2, <1>3, <1>4 DEF Awaited

(* A step of the device keeps the forks in order. *)
LEMMA DeviceKeepsForks ==
  ASSUME HostTyped, DeviceTyped, NEW s \in Streams, Dropped(s), UNCHANGED hostVars,
         NEW L \in [Callers -> Nat], ForkInv(L)
  PROVE  ForkInv(L)'
<1> USE DEF ForkInv
<1>0. /\ recorded' = recorded /\ at' = at /\ i' = i /\ todo' = todo
      /\ recorded \in [Events -> Nat] /\ reached \in [Events -> Nat]
  BY DEF Dropped, hostVars, DeviceTyped
<1>1. CallsCounted(L)'
  BY <1>0 DEF CallsCounted, Posted, Fork
<1>2. InputsLaunched(L)'
  <2> SUFFICES ASSUME NEW h \in Callers, NEW r \in 1 .. Launched(h),
                      NEW m, m = Len(queue'[StreamOf(h)]) + 1
               PROVE  Written(L, h, r, m)'
    BY <1>0 DEF InputsLaunched, Launched, Fork, StreamOf, Written
  <2>1. PICK n \in Nat : n = Len(queue[StreamOf(h)])
    BY StreamFacts, LenProperties DEF DeviceTyped
  <2>2. Written(L, h, r, n + 1) /\ n + 1 \in 1 .. Len(queue[StreamOf(h)]) + 1
    BY <2>1 DEF InputsLaunched
  <2>3. CASE s = StreamOf(h)
    <3>1. m = (n + 1) - 1
      BY <2>1, <2>3, DroppedItems
    <3> QED BY <2>2, <2>3, <3>1, DeviceKeepsWritten
  <2>4. CASE s # StreamOf(h)
    <3>1. m = n + 1
      BY <2>1, <2>4, DroppedItems, StreamFacts
    <3> QED BY <2>2, <2>4, <3>1, DeviceKeepsWritten
  <2> QED BY <2>3, <2>4
<1>3. ForksBehind(L)'
  <2> SUFFICES ASSUME NEW h \in Callers, NEW t \in Streams, NEW b \in 1 .. Len(queue'[t]),
                      queue'[t][b].type = "record", queue'[t][b].event = Fork(h)
               PROVE  t = StreamOf(h) /\ \A r \in 1 .. queue'[t][b].nth : Written(L, h, r, b)'
    BY DEF ForksBehind, Fork, StreamOf
  <2>1. CASE s # t
    <3>1. queue'[t] = queue[t]
      BY <2>1, DroppedItems
    <3>2. t = StreamOf(h) /\ \A r \in 1 .. queue[t][b].nth : Written(L, h, r, b)
      BY <3>1 DEF ForksBehind
    <3>3. b \in 1 .. Len(queue[StreamOf(h)]) + 1
      BY <3>1, <3>2, LenProperties DEF DeviceTyped
    <3> QED BY <2>1, <3>1, <3>2, <3>3, DeviceKeepsWritten
  <2>2. CASE s = t
    <3>1. queue'[t][b] = queue[t][b + 1] /\ b + 1 \in 1 .. Len(queue[t])
      BY <2>2, DroppedItems
    <3>2. t = StreamOf(h) /\ \A r \in 1 .. queue[t][b + 1].nth : Written(L, h, r, b + 1)
      BY <3>1 DEF ForksBehind
    <3>3. b + 1 \in 1 .. Len(queue[StreamOf(h)]) + 1 /\ (b + 1) - 1 = b
      BY <3>1, <3>2, LenProperties DEF DeviceTyped
    <3> QED BY <2>2, <3>1, <3>2, <3>3, DeviceKeepsWritten
  <2> QED BY <2>1, <2>2
<1>4. ForksTell(L)'
  <2> SUFFICES ASSUME NEW h \in Callers, NEW r \in 1 .. reached'[Fork(h)]
               PROVE  Input(L, h, r) \in finished'
    BY DEF ForksTell, Fork, Input
  <2>1. CASE reached'[Fork(h)] = reached[Fork(h)]
    BY <2>1, DroppedItems DEF ForksTell
  <2>2. CASE reached'[Fork(h)] # reached[Fork(h)]
    <3>1. /\ queue[s][1].type = "record" /\ queue[s][1].event = Fork(h)
          /\ reached'[Fork(h)] = queue[s][1].nth
      BY <2>2, <1>0, DroppedItems, StreamFacts DEF Dropped
    <3>2. 1 \in 1 .. Len(queue[s])
      BY DroppedItems
    <3>3. Written(L, h, r, 1)
      BY <3>1, <3>2 DEF ForksBehind
    <3> QED BY <3>3, DroppedItems DEF Written
  <2> QED BY <2>1, <2>2
<1>5. ForksAwaited(L)'
  <2> SUFFICES ASSUME NEW h \in Callers, NEW j \in Slots,
                      at[h] = "gemm" \/ (at[h] = "forkWait" /\ j < i[h]),
                      NEW r, r = recorded[Fork(h)],
                      NEW t, t = Pool(j), NEW m, m = Len(queue'[t]) + 1
               PROVE  Awaited(L, h, r, t, m)'
    BY <1>0 DEF ForksAwaited, Fork, Pool
  <2>1. t \in Streams /\ r \in Nat \ {0}
    <3>1. /\ r \in Nat /\ Len(todo[h]) \in Nat /\ L[h] \in Nat
          /\ r + Len(todo[h]) = L[h] + 1 /\ Len(todo[h]) <= L[h]
      BY <1>0, StreamFacts, LenProperties DEF CallsCounted, Posted, HostTyped
    <3> QED BY <3>1, StreamFacts
  <2>2. PICK n \in Nat : n = Len(queue[t])
    BY <2>1, LenProperties DEF DeviceTyped
  <2>3. Awaited(L, h, r, t, n + 1) /\ n + 1 \in 1 .. Len(queue[t]) + 1
    BY <2>2 DEF ForksAwaited
  <2>4. CASE s = t
    <3>1. m = (n + 1) - 1
      BY <2>2, <2>4, DroppedItems
    <3> QED BY <2>1, <2>3, <2>4, <3>1, DeviceKeepsAwaited
  <2>5. CASE s # t
    <3>1. m = n + 1
      BY <2>1, <2>2, <2>5, DroppedItems
    <3> QED BY <2>1, <2>3, <2>5, <3>1, DeviceKeepsAwaited
  <2> QED BY <2>4, <2>5
<1>6. GemmsBehind(L)'
  <2> SUFFICES ASSUME NEW t \in Streams, NEW b \in 1 .. Len(queue'[t]), IsGemm(queue'[t][b]),
                      NEW k, k = queue'[t][b].kernel, NEW r, r = Turn(L, k),
                      NEW h, h = k.of
               PROVE  /\ h \in Callers /\ k.nth \in 1 .. L[h] /\ t = Pool(k.slice)
                      /\ Awaited(L, h, r, t, b)'
    BY DEF GemmsBehind, IsGemm, Pool, Turn
  <2>0. h \in Callers /\ k.nth \in 1 .. L[h] => r \in Nat \ {0}
    <3>1. SUFFICES ASSUME h \in Callers, k.nth \in 1 .. L[h] PROVE r \in Nat \ {0}
      OBVIOUS
    <3>2. r = L[h] + 1 - k.nth
      BY Zenon DEF Turn
    <3>3. PICK l \in Nat : l = L[h]
      BY <3>1
    <3>4. PICK m \in 1 .. l : m = k.nth
      BY <3>1, <3>3, Zenon
    <3>5. l + 1 - m \in Nat \ {0}
      OBVIOUS
    <3> QED BY <3>2, <3>3, <3>4, <3>5, Zenon
  <2>1. CASE s # t
    <3>1. queue'[t] = queue[t]
      BY <2>1, DroppedItems
    <3>2. /\ h \in Callers /\ k.nth \in 1 .. L[h] /\ t = Pool(k.slice)
          /\ Awaited(L, h, r, t, b)
      BY <3>1 DEF GemmsBehind, IsGemm
    <3>3. b \in 1 .. Len(queue[t]) + 1
      BY <3>1, LenProperties DEF DeviceTyped
    <3> QED BY <2>0, <2>1, <3>1, <3>2, <3>3, DeviceKeepsAwaited
  <2>2. CASE s = t
    <3>1. queue'[t][b] = queue[t][b + 1] /\ b + 1 \in 1 .. Len(queue[t])
      BY <2>2, DroppedItems
    <3>2. /\ h \in Callers /\ k.nth \in 1 .. L[h] /\ t = Pool(k.slice)
          /\ Awaited(L, h, r, t, b + 1)
      BY <3>1 DEF GemmsBehind, IsGemm
    <3>3. PICK c \in 1 .. Len(queue[t]) + 1 : c = b + 1 /\ c - 1 = b
      BY <3>1, LenProperties DEF DeviceTyped
    <3>4. Awaited(L, h, r, t, c) /\ r \in Nat \ {0}
      BY <2>0, <3>2, <3>3
    <3>5. Awaited(L, h, r, t, c - 1)'
      BY <2>2, <3>2, <3>3, <3>4, DeviceKeepsAwaited
    <3>6. PICK d : d = c - 1
      OBVIOUS
    <3> QED BY <3>2, <3>3, <3>5, <3>6
  <2> QED BY <2>1, <2>2
<1> QED BY <1>1, <1>2, <1>3, <1>4, <1>5, <1>6

-----------------------------------------------------------------------------
(* What a step of the host does: queues only grow, by at most one item each. *)
Grown ==
  \A t \in Streams :
    /\ Len(queue[t]) \in Nat /\ Len(queue'[t]) \in {Len(queue[t]), Len(queue[t]) + 1}
    /\ \A b \in 1 .. Len(queue[t]) : queue'[t][b] = queue[t][b]

(* Putting an item on a stream makes one queue longer by one. *)
LEMMA AddedGrows ==
  ASSUME DeviceTyped, NEW s \in Streams, NEW x, Added(s, x)
  PROVE  /\ Grown
         /\ Len(queue'[s]) = Len(queue[s]) + 1 /\ queue'[s][Len(queue[s]) + 1] = x
         /\ \A t \in Streams : t # s => queue'[t] = queue[t]
<1>1. queue'[s] = Append(queue[s], x) /\ \A t \in Streams : t # s => queue'[t] = queue[t]
  BY DEF Added, DeviceTyped
<1>2. \A t \in Streams : queue[t] \in Seq(Items) /\ Len(queue[t]) \in Nat
  BY LenProperties DEF DeviceTyped
<1>3. /\ Len(queue'[s]) = Len(queue[s]) + 1 /\ queue'[s][Len(queue[s]) + 1] = x
      /\ \A b \in 1 .. Len(queue[s]) : queue'[s][b] = queue[s][b]
  BY <1>1, <1>2, Appended DEF Added
<1> QED BY <1>1, <1>2, <1>3 DEF Grown

(* Longer queues hold what stood in them: the writer of an input ... *)
LEMMA GrownKeepsWritten ==
  ASSUME Grown, finished' = finished, NEW L, NEW h \in Callers, NEW r,
         NEW b \in 1 .. Len(queue[StreamOf(h)]) + 1, NEW c \in Nat, b <= c,
         Written(L, h, r, b)
  PROVE  Written(L, h, r, c)'
<1>1. Len(queue[StreamOf(h)]) \in Nat
      /\ \A a \in 1 .. Len(queue[StreamOf(h)]) : queue'[StreamOf(h)][a] = queue[StreamOf(h)][a]
  BY StreamFacts DEF Grown
<1>2. \A a \in 1 .. b - 1 : a \in 1 .. c - 1 /\ a \in 1 .. Len(queue[StreamOf(h)])
  BY <1>1
<1> QED BY <1>1, <1>2 DEF Written, Input, Kernel, StreamOf

(* ... and the waits. *)
LEMMA GrownKeepsAwaited ==
  ASSUME Grown, finished' = finished, NEW L, NEW h \in Callers, NEW r, NEW t \in Streams,
         NEW b \in 1 .. Len(queue[t]) + 1, NEW c \in Nat, b <= c, Awaited(L, h, r, t, b)
  PROVE  Awaited(L, h, r, t, c)'
<1>1. Len(queue[t]) \in Nat /\ \A a \in 1 .. Len(queue[t]) : queue'[t][a] = queue[t][a]
  BY DEF Grown
<1>2. \A a \in 1 .. b - 1 : a \in 1 .. c - 1 /\ a \in 1 .. Len(queue[t])
  BY <1>1
<1> QED BY <1>1, <1>2 DEF Awaited, Input, Wait, Fork

(* The items a host step adds. *)
NewIn(t, b) == b \in 1 .. Len(queue'[t]) /\ b \notin 1 .. Len(queue[t])
HostItem(h, t, x) ==
  \/ at[h] = "produce" /\ t = StreamOf(h) /\ x = Kernel(Produced(h))
  \/ at[h] = "fork" /\ t = StreamOf(h) /\ x = Record(Fork(h), recorded[Fork(h)] + 1)
  \/ at[h] = "forkWait" /\ t = Pool(i[h]) /\ x = Wait(Fork(h), recorded[Fork(h)])
  \/ /\ at[h] = "gemm" /\ Size(h) > 0
     /\ \E k \in Slots : t = Pool(k) /\ x = Kernel(Gemm(h, i[h], k, off[h], off[h] + Size(h)))
  \/ at[h] = "join" /\ t = Pool(i[h]) /\ x = Record(Join(h, i[h]), recorded[Join(h, i[h])] + 1)
  \/ at[h] = "join" /\ t = StreamOf(h) /\ x = Wait(Join(h, i[h]), recorded[Join(h, i[h])] + 1)
  \/ at[h] = "return" /\ st[h] = "ok" /\ t = StreamOf(h) /\ x = Kernel(Consumed(h))
HostGrows(h) ==
  /\ Grown /\ Untouched
  /\ \A t \in Streams, b \in Nat : NewIn(t, b) =>
       b = Len(queue[t]) + 1 /\ HostItem(h, t, queue'[t][b])

(* A host step that puts one item on a stream puts none but an item of its own kind. *)
LEMMA OneAdded ==
  ASSUME DeviceTyped, NEW s \in Streams, NEW x, Added(s, x), Untouched, NEW h \in Callers,
         HostItem(h, s, x)
  PROVE  HostGrows(h)
<1>1. ASSUME NEW t \in Streams, NEW b \in Nat, NewIn(t, b)
      PROVE  t = s /\ b = Len(queue[s]) + 1 /\ queue'[t][b] = x
  <2>1. t = s
    BY <1>1, AddedGrows DEF NewIn
  <2>2. b \in 1 .. Len(queue[s]) + 1 /\ b \notin 1 .. Len(queue[s]) /\ Len(queue[s]) \in Nat
    BY <1>1, <2>1, AddedGrows DEF NewIn, Grown
  <2> QED BY <2>1, <2>2, AddedGrows
<1> QED BY <1>1, AddedGrows DEF HostGrows

(* What kind of item it is says where the host is. *)
LEMMA ItemKinds ==
  ASSUME NEW h \in Callers, NEW t, NEW x, HostItem(h, t, x)
  PROVE  /\ \A g \in Callers : x.type = "record" /\ x.event = Fork(g) =>
              /\ g = h /\ at[h] = "fork" /\ t = StreamOf(h)
              /\ x = Record(Fork(h), recorded[Fork(h)] + 1)
         /\ \A g \in Callers, j \in Slots : x.type = "record" /\ x.event = Join(g, j) =>
              /\ g = h /\ at[h] = "join" /\ j = i[h] /\ t = Pool(j)
              /\ x.nth = recorded[Join(h, j)] + 1
         /\ IsGemm(x) => /\ at[h] = "gemm" /\ Size(h) > 0
                         /\ \E k \in Slots :
                              /\ t = Pool(k)
                              /\ x.kernel = Gemm(h, i[h], k, off[h], off[h] + Size(h))
         /\ IsProduce(x) => at[h] = "produce" /\ t = StreamOf(h) /\ x.kernel = Produced(h)
         /\ IsConsume(x) => /\ at[h] = "return" /\ st[h] = "ok" /\ t = StreamOf(h)
                            /\ x.kernel = Consumed(h)
<1>1. CASE x.type = "kernel"
  BY <1>1 DEF HostItem, IsGemm, IsProduce, IsConsume, Kernel, Record, Wait, Gemm, Produced, Consumed
<1>2. CASE x.type = "record"
  BY <1>2, StreamFacts
    DEF HostItem, IsGemm, IsProduce, IsConsume, Kernel, Record, Wait, Fork, Join
<1>3. CASE x.type = "wait"
  BY <1>3 DEF HostItem, IsGemm, IsProduce, IsConsume, Kernel, Record, Wait
<1>4. x.type \in {"kernel", "record", "wait"}
  BY DEF HostItem, Kernel, Record, Wait
<1> QED BY <1>1, <1>2, <1>3, <1>4

(* Past grouped_streams() a slot holds the stream it is for. *)
LEMMA SlotIsPool ==
  ASSUME PoolFull, NEW h \in Callers, Past(h), NEW k \in Slots
  PROVE  Slot(k) = Pool(k)
<1>1. pool = Full(TRUE)
  BY DEF PoolFull
<1> QED BY <1>1 DEF Slot, Full

(* A group has a stream of the pool, and the slice of the same number. *)
LEMMA SlotOfGroup ==
  ASSUME NEW g \in Nat
  PROVE  StreamOfGroup(g) \in Slots /\ SliceOfGroup(g) = StreamOfGroup(g)
BY PoolAssumption DEF StreamOfGroup, SliceOfGroup, Slots

(* The types and kinds of the items that a call enqueues. *)
LEMMA ItemTypes ==
  /\ \A h \in Callers : Len(todo[h]) \in Nat =>
       /\ Kernel(Produced(h)) \in Items /\ ~IsGemm(Kernel(Produced(h)))
       /\ Kernel(Consumed(h)) \in Items /\ ~IsGemm(Kernel(Consumed(h)))
       /\ \A g \in Nat, k \in Slots, lo, hi \in Int :
            Gemm(h, g, k, lo, hi) \in Kernels /\ Kernel(Gemm(h, g, k, lo, hi)) \in Items
  /\ \A e \in Events, n \in Nat : Record(e, n) \in Items /\ Wait(e, n) \in Items
  /\ \A e, n : Record(e, n).type = "record" /\ Wait(e, n).type = "wait"
  /\ \A k : Kernel(k).type = "kernel" /\ Kernel(k).kernel = k
<1>1. ASSUME NEW h \in Callers, Len(todo[h]) \in Nat
      PROVE  /\ Kernel(Produced(h)) \in Items /\ ~IsGemm(Kernel(Produced(h)))
             /\ Kernel(Consumed(h)) \in Items /\ ~IsGemm(Kernel(Consumed(h)))
  BY <1>1 DEF Kernel, Produced, Consumed, Items, Kernels, IsGemm
<1>2. ASSUME NEW h \in Callers, Len(todo[h]) \in Nat,
             NEW g \in Nat, NEW k \in Slots, NEW lo \in Int, NEW hi \in Int
      PROVE  Gemm(h, g, k, lo, hi) \in Kernels /\ Kernel(Gemm(h, g, k, lo, hi)) \in Items
  BY <1>2 DEF Kernel, Gemm, Items, Kernels
<1>3. \A e \in Events, n \in Nat : Record(e, n) \in Items /\ Wait(e, n) \in Items
  BY DEF Record, Wait, Items
<1>4. /\ \A e, n : Record(e, n).type = "record" /\ Wait(e, n).type = "wait"
      /\ \A k : Kernel(k).type = "kernel" /\ Kernel(k).kernel = k
  BY DEF Record, Wait, Kernel
<1> QED BY <1>1, <1>2, <1>3, <1>4

(* A host step adds to the queues what its statement enqueues, or nothing. *)
LEMMA HostAdds ==
  ASSUME HostTyped, DeviceTyped, PoolFull, NEW h \in Callers, HostStep(h)
  PROVE  HostGrows(h) /\ DeviceTyped'
<1>0. /\ todo[h] \in Seq(Seq(Nat)) /\ Len(todo[h]) \in Nat /\ i[h] \in Nat /\ off[h] \in Nat
      /\ StreamOf(h) \in Streams /\ Fork(h) \in Events
      /\ recorded \in [Events -> Nat] /\ recorded[Fork(h)] \in Nat
  <2>1. todo[h] \in Seq(Seq(Nat)) /\ i[h] \in Nat /\ off[h] \in Nat
    BY DEF HostTyped
  <2>2. Len(todo[h]) \in Nat
    BY <2>1, LenProperties
  <2> QED BY <2>1, <2>2, StreamFacts DEF DeviceTyped
<1>1. ASSUME UNCHANGED cudaVars PROVE HostGrows(h) /\ DeviceTyped'
  <2>1. queue' = queue /\ busy' = busy /\ recorded' = recorded /\ reached' = reached /\ finished' = finished
    BY <1>1 DEF cudaVars
  <2>2. Grown
    BY <2>1, LenProperties DEF Grown, DeviceTyped
  <2> QED BY <2>1, <2>2 DEF HostGrows, Untouched, NewIn, DeviceTyped
<1>2. CASE Produce(h)
  <2>1. Added(StreamOf(h), Kernel(Produced(h))) /\ Untouched /\ recorded' = recorded
    BY <1>0, <1>2, ItemTypes DEF Produce, Launch, Enqueue, Added, Untouched
  <2>2. HostItem(h, StreamOf(h), Kernel(Produced(h)))
    BY <1>2 DEF Produce, HostItem
  <2> QED BY <1>0, <2>1, <2>2, OneAdded, AddedTyped
<1>3. CASE TestEmpty(h) \/ Resize(h) \/ CreateStream(h) \/ GroupFails(h)
  BY <1>1, <1>3 DEF TestEmpty, Resize, CreateStream, GroupFails
<1>4. CASE ForkRecord(h)
  <2>1. /\ Added(StreamOf(h), Record(Fork(h), recorded[Fork(h)] + 1)) /\ Untouched
        /\ recorded' \in [Events -> Nat] /\ at[h] = "fork"
    BY <1>0, <1>4, ItemTypes DEF ForkRecord, EventRecord, Enqueue, Added, Untouched
  <2>2. HostItem(h, StreamOf(h), Record(Fork(h), recorded[Fork(h)] + 1))
    BY <2>1 DEF HostItem
  <2> QED BY <1>0, <2>1, <2>2, OneAdded, AddedTyped
<1>5. CASE ForkWait(h)
  <2>1. i[h] \in Slots /\ Slot(i[h]) = Pool(i[h])
    BY <1>5, SlotIsPool DEF ForkWait, HostTyped, Past
  <2>2. /\ Added(Pool(i[h]), Wait(Fork(h), recorded[Fork(h)])) /\ Untouched /\ recorded' = recorded
    BY <1>0, <1>5, <2>1, ItemTypes DEF ForkWait, StreamWaitEvent, Enqueue, Added, Untouched
  <2>3. HostItem(h, Pool(i[h]), Wait(Fork(h), recorded[Fork(h)]))
    BY <1>5 DEF ForkWait, HostItem
  <2> QED BY <1>0, <2>1, <2>2, <2>3, OneAdded, AddedTyped, StreamFacts
<1>6. CASE LaunchGroup(h)
  <2>0. CASE Size(h) = 0
    BY <1>1, <1>6, <2>0 DEF LaunchGroup
  <2>1. at[h] = "gemm" /\ Size(h) \in Nat
    <3>1. at[h] = "gemm"
      BY <1>6 DEF LaunchGroup
    <3>2. Groups(h) \in Seq(Nat) /\ i[h] < Len(Groups(h))
      BY <3>1, HeadTailProperties DEF HostTyped, Groups
    <3> QED BY <1>0, <3>1, <3>2, ElementOfSeq, LenProperties DEF Size
  <2>2. PICK k \in Slots : k = StreamOfGroup(i[h]) /\ SliceOfGroup(i[h]) = k /\ Slot(k) = Pool(k)
    BY <1>0, <2>1, SlotOfGroup, SlotIsPool DEF Past
  <2>3. PICK x : x = Gemm(h, i[h], k, off[h], off[h] + Size(h))
    OBVIOUS
  <2>4. Kernel(x) \in Items
    BY <1>0, <2>1, <2>3, ItemTypes
  <2>5. CASE Size(h) > 0
    <3>1. Added(Pool(k), Kernel(x)) /\ Untouched /\ recorded' = recorded
      BY <1>6, <2>1, <2>2, <2>3, <2>4, <2>5 DEF LaunchGroup, Launch, Enqueue, Added, Untouched
    <3>2. HostItem(h, Pool(k), Kernel(x))
      BY <2>1, <2>3, <2>5 DEF HostItem
    <3> QED BY <1>0, <3>1, <3>2, OneAdded, AddedTyped, StreamFacts
  <2> QED BY <2>0, <2>1, <2>5
<1>7. CASE JoinTurn(h)
  <2>1. i[h] \in Slots /\ Slot(i[h]) = Pool(i[h])
    BY <1>7, SlotIsPool DEF JoinTurn, HostTyped, Past
  <2>2. PICK e \in Events, n \in Nat : e = Join(h, i[h]) /\ n = recorded[e] + 1
    <3>1. Join(h, i[h]) \in Events
      BY <2>1, StreamFacts
    <3> QED BY <3>1, <1>0
  <2>3. PICK s \in Streams, t \in Streams : s = Pool(i[h]) /\ t = StreamOf(h) /\ s # t
    BY <2>1, StreamFacts
  <2>4. PICK x \in Items, y \in Items :
          x = Record(e, n) /\ y = Wait(e, n) /\ x.type = "record" /\ x.event = e /\ y.type = "wait"
    BY ItemTypes DEF Record, Wait
  <2>5. /\ queue' = [queue EXCEPT ![s] = Append(@, x), ![t] = Append(@, y)]
        /\ recorded' = [recorded EXCEPT ![e] = n] /\ Untouched
    BY <1>7, <2>1, <2>2, <2>3, <2>4 DEF JoinTurn, RecordThenWait, Untouched
  <2>6. /\ queue'[s] = Append(queue[s], x) /\ queue'[t] = Append(queue[t], y)
        /\ \A r \in Streams : r # s /\ r # t => queue'[r] = queue[r]
        /\ DOMAIN queue' = Streams /\ queue \in [Streams -> Seq(Items)]
    BY <2>3, <2>5 DEF DeviceTyped
  <2>7. ASSUME NEW r \in Streams, NEW z \in Items, queue'[r] = Append(queue[r], z)
        PROVE  /\ queue'[r] \in Seq(Items)
               /\ Len(queue[r]) \in Nat /\ Len(queue'[r]) = Len(queue[r]) + 1
               /\ \A b \in 1 .. Len(queue[r]) : queue'[r][b] = queue[r][b]
               /\ queue'[r][Len(queue[r]) + 1] = z
               /\ queue'[r] # <<>> /\ (queue[r] # <<>> => Head(queue'[r]) = Head(queue[r]))
    BY <2>6, <2>7, Appended
  <2>8. ASSUME NEW r \in Streams, r # s, r # t
        PROVE  queue'[r] = queue[r] /\ Len(queue[r]) \in Nat
    BY <2>6, <2>8, LenProperties
  <2>9. Grown
    <3>1. SUFFICES ASSUME NEW r \in Streams
                   PROVE  /\ Len(queue[r]) \in Nat
                          /\ Len(queue'[r]) \in {Len(queue[r]), Len(queue[r]) + 1}
                          /\ \A b \in 1 .. Len(queue[r]) : queue'[r][b] = queue[r][b]
      BY DEF Grown
    <3>2. CASE r = s
      BY <3>2, <2>4, <2>6, <2>7
    <3>3. CASE r = t
      BY <3>3, <2>4, <2>6, <2>7
    <3>4. CASE r # s /\ r # t
      BY <3>4, <2>8
    <3> QED BY <3>2, <3>3, <3>4
  <2>10. DeviceTyped'
    <3>1. \A r \in Streams :
            /\ queue'[r] \in Seq(Items)
            /\ queue[r] # <<>> => queue'[r] # <<>> /\ Head(queue'[r]) = Head(queue[r])
      BY SMTT(40), <2>4, <2>6, <2>7, <2>8
    <3>2. queue' = [r \in Streams |-> queue'[r]]
      BY <2>5, <2>6
    <3>3. queue' \in [Streams -> Seq(Items)]
      BY <3>1, <3>2
    <3>4. recorded' \in [Events -> Nat]
      BY <1>0, <2>5
    <3> QED BY <2>5, <3>1, <3>3, <3>4 DEF DeviceTyped, Untouched
  <2>11. ASSUME NEW r \in Streams, NEW b \in Nat, NewIn(r, b)
         PROVE  /\ b = Len(queue[r]) + 1
                /\ (r = s /\ queue'[r][b] = x) \/ (r = t /\ queue'[r][b] = y)
    <3>1. r \in {s, t} /\ b = Len(queue[r]) + 1
      BY <2>11, <2>4, <2>6, <2>7, <2>8 DEF NewIn
    <3> QED BY <3>1, <2>4, <2>6, <2>7
  <2>12. HostItem(h, s, x) /\ HostItem(h, t, y)
    BY <1>7, <2>2, <2>3, <2>4 DEF JoinTurn, HostItem
  <2>13. HostGrows(h)
    BY <2>5, <2>9, <2>11, <2>12 DEF HostGrows
  <2> QED BY <2>10, <2>13
<1>8. CASE Return(h)
  <2>1. CASE st[h] = "ok"
    <3>1. Added(StreamOf(h), Kernel(Consumed(h))) /\ Untouched /\ recorded' = recorded
      BY <1>0, <1>8, <2>1, ItemTypes DEF Return, Launch, Enqueue, Added, Untouched
    <3>2. HostItem(h, StreamOf(h), Kernel(Consumed(h)))
      BY <1>8, <2>1 DEF Return, HostItem
    <3> QED BY <1>0, <3>1, <3>2, OneAdded, AddedTyped
  <2> QED BY <1>1, <1>8, <2>1 DEF Return
<1> QED BY <1>2, <1>3, <1>4, <1>5, <1>6, <1>7, <1>8 DEF HostStep

(* Where a host step leads. *)
LEMMA HostMoves ==
  ASSUME HostTyped, DeviceTyped, PoolFull, NEW h \in Callers, HostStep(h)
  PROVE  /\ \A g \in Callers \ {h} : /\ at'[g] = at[g] /\ i'[g] = i[g] /\ todo'[g] = todo[g]
                                    /\ recorded'[Fork(g)] = recorded[Fork(g)]
         /\ recorded'[Fork(h)] = recorded[Fork(h)] + (IF at[h] = "fork" THEN 1 ELSE 0)
         /\ at[h] # "return" => todo'[h] = todo[h]
         /\ \/ at[h] = "produce" /\ at'[h] = "empty?"
            \/ at[h] \in {"empty?", "resize", "create"} /\ at'[h] \in {"resize", "create", "fork"}
            \/ at[h] = "fork" /\ at'[h] = "forkWait" /\ i'[h] = 0
            \/ at[h] = "forkWait" /\ at'[h] = "forkWait" /\ i'[h] = i[h] + 1
            \/ at[h] = "forkWait" /\ at'[h] \in {"gemm", "join"} /\ ~(i[h] + 1 < NS)
            \/ at[h] = "gemm" /\ at'[h] \in {"gemm", "join"}
            \/ at[h] = "join" /\ at'[h] \in {"join", "return"}
            \/ /\ at[h] = "return" /\ at'[h] \in {"produce", "end"}
               /\ todo'[h] = Tail(todo[h]) /\ todo[h] # <<>>
<1>0. /\ recorded \in [Events -> Nat] /\ Fork(h) \in Events /\ recorded[Fork(h)] \in Nat
      /\ \A g \in Callers : Fork(g) \in Events /\ (g # h => Fork(g) # Fork(h))
  BY StreamFacts DEF DeviceTyped
<1> USE DEF HostTyped, Goto, Loop
<1>1. CASE Produce(h)
  BY <1>0, <1>1 DEF Produce, Launch
<1>2. CASE TestEmpty(h) \/ Resize(h) \/ CreateStream(h)
  <2>1. recorded' = recorded /\ todo' = todo
    BY <1>2 DEF TestEmpty, Resize, CreateStream, cudaVars
  <2>2. at[h] \in {"empty?", "resize", "create"} /\ at'[h] \in {"resize", "create", "fork"}
    BY <1>2 DEF TestEmpty, Resize, CreateStream
  <2>3. \A g \in Callers \ {h} : at'[g] = at[g] /\ i'[g] = i[g]
    BY <1>2 DEF TestEmpty, Resize, CreateStream
  <2> QED BY <1>0, <2>1, <2>2, <2>3
<1>3. CASE ForkRecord(h)
  BY <1>0, <1>3 DEF ForkRecord, EventRecord
<1>4. CASE ForkWait(h)
  BY <1>0, <1>4 DEF ForkWait, StreamWaitEvent, ForkedSlots
<1>5. CASE LaunchGroup(h) \/ GroupFails(h)
  <2>1. recorded' = recorded
    BY <1>5 DEF LaunchGroup, GroupFails, cudaVars, Launch
  <2>2. PICK n : at[h] = "gemm" /\ Loop(h, n, "join") /\ todo' = todo
    BY <1>5 DEF LaunchGroup, GroupFails
  <2> QED BY <1>0, <2>1, <2>2
<1>6. CASE JoinTurn(h)
  <2>1. /\ at[h] = "join" /\ Loop(h, NS, "return") /\ todo' = todo
        /\ recorded' = [recorded EXCEPT ![Join(h, i[h])] = @ + 1]
    BY <1>6 DEF JoinTurn, JoinedSlots, RecordThenWait
  <2>2. \A g \in Callers : Fork(g) # Join(h, i[h])
    BY <2>1, StreamFacts
  <2> QED BY <1>0, <2>1, <2>2
<1>7. CASE Return(h)
  <2>1. recorded' = recorded
    BY <1>7 DEF Return, Launch, cudaVars
  <2>2. at[h] = "return" /\ todo[h] # <<>>
    BY <1>7 DEF Return
  <2> QED BY <1>0, <1>7, <2>1, <2>2 DEF Return
<1> QED BY <1>1, <1>2, <1>3, <1>4, <1>5, <1>6, <1>7 DEF HostStep

(* A host step keeps the forks in order. *)
LEMMA HostKeepsForks ==
  ASSUME HostTyped, DeviceTyped, PoolFull, NEW h \in Callers, HostStep(h),
         NEW L \in [Callers -> Nat], ForkInv(L)
  PROVE  ForkInv(L)'
<1> USE DEF ForkInv
<1>0. /\ HostGrows(h) /\ Grown /\ finished' = finished /\ reached' = reached
      /\ at \in [Callers -> Statements] /\ at[h] # "end"
      /\ \A g \in Callers : /\ Len(todo[g]) \in Nat /\ recorded[Fork(g)] \in Nat
                            /\ L[g] \in Nat /\ i[g] \in Nat
  <2>1. at[h] # "end"
    BY HostMoves
  <2>2. \A g \in Callers : Len(todo[g]) \in Nat
    BY LenProperties DEF HostTyped
  <2>3. \A g \in Callers : recorded[Fork(g)] \in Nat
    BY StreamFacts DEF DeviceTyped
  <2> QED BY <2>1, <2>2, <2>3, HostAdds DEF HostGrows, Untouched, HostTyped
<1>1. CallsCounted(L)'
  <2> SUFFICES ASSUME NEW g \in Callers
               PROVE  /\ recorded'[Fork(g)] + Len(todo'[g]) = L[g] + Posted(g)'
                      /\ Len(todo'[g]) <= L[g]
    BY DEF CallsCounted, Fork, Posted
  <2>1. recorded[Fork(g)] + Len(todo[g]) = L[g] + Posted(g) /\ Len(todo[g]) <= L[g]
    BY DEF CallsCounted
  <2>2. CASE g # h
    BY <2>1, <2>2, HostMoves DEF Posted
  <2>3. CASE g = h /\ at[h] # "return"
    <3>1. /\ todo'[g] = todo[g]
          /\ recorded'[Fork(g)] = recorded[Fork(g)] + (IF at[h] = "fork" THEN 1 ELSE 0)
      BY <2>3, HostMoves
    <3>2. Posted(g)' = Posted(g) + (IF at[h] = "fork" THEN 1 ELSE 0) /\ Posted(g) \in Nat
      BY <2>3, HostMoves DEF Posted
    <3>3. PICK p \in Nat, n \in Nat, c \in Nat, d \in {0, 1} :
            /\ p = Posted(g) /\ n = Len(todo[g]) /\ c = recorded[Fork(g)]
            /\ d = (IF at[h] = "fork" THEN 1 ELSE 0)
      BY <3>2, <1>0
    <3>4. (c + d) + n = L[g] + (p + d)
      <4>1. PICK l \in Nat : l = L[g]
        BY <1>0
      <4>2. c + n = l + p
        BY <2>1, <3>3, <4>1
      <4> QED BY <4>1, <4>2
    <3> QED BY <2>1, <3>1, <3>2, <3>3, <3>4
  <2>4. CASE g = h /\ at[h] = "return"
    <3>1. Len(todo'[h]) = Len(todo[h]) - 1
      <4>1. todo'[h] = Tail(todo[h]) /\ todo[h] \in Seq(Seq(Nat)) /\ todo[h] # <<>>
        BY <2>4, HostMoves DEF HostTyped
      <4> QED BY <4>1, Tailed
    <3>2. /\ at'[h] \in {"produce", "end"}
          /\ recorded'[Fork(h)] = recorded[Fork(h)]
      BY SMTT(30), <2>4, <1>0, HostMoves
    <3>3. Posted(g)' = 0 /\ Posted(g) = 1
      BY <2>4, <3>2 DEF Posted
    <3>4. PICK n \in Nat, c \in Nat : n = Len(todo[g]) /\ c = recorded[Fork(g)]
      BY <1>0
    <3>5. c + (n - 1) = L[g] + 0 /\ n - 1 <= L[g]
      <4>1. PICK l \in Nat : l = L[g]
        BY <1>0
      <4>2. c + n = l + 1 /\ n <= l
        BY <2>1, <3>3, <3>4, <4>1
      <4> QED BY <4>1, <4>2
    <3> QED BY <2>4, <3>1, <3>2, <3>3, <3>4, <3>5
  <2> QED BY <2>2, <2>3, <2>4
<1>2. InputsLaunched(L)'
  <2> SUFFICES ASSUME NEW g \in Callers, NEW r \in 1 .. Launched(g)', NEW m,
                      m = Len(queue'[StreamOf(g)]) + 1
               PROVE  Written(L, g, r, m)'
    BY DEF InputsLaunched, Launched, Fork, StreamOf, Written
  <2>1. PICK n \in Nat : n = Len(queue[StreamOf(g)]) /\ n + 1 <= m /\ m \in Nat
    BY <1>0, StreamFacts DEF Grown
  <2>2. CASE r \in 1 .. Launched(g)
    <3>1. n + 1 \in 1 .. Len(queue[StreamOf(g)]) + 1
      BY <2>1
    <3>2. Written(L, g, r, n + 1)
      BY <2>1, <2>2 DEF InputsLaunched
    <3> QED BY <1>0, <2>1, <3>1, <3>2, GrownKeepsWritten
  <2>3. CASE r \notin 1 .. Launched(g)
    <3>1. g = h /\ at[h] = "produce" /\ r = recorded[Fork(h)] + 1
      <4>1. \/ Launched(g)' = Launched(g)
            \/ g = h /\ at[h] = "produce" /\ Launched(g)' = Launched(g) + 1 /\ Launched(g) = recorded[Fork(h)]
        BY SMTT(40), <1>0, HostMoves DEF Launched, Fork
      <4>2. Launched(g) \in Nat
        BY <1>0 DEF Launched
      <4> QED BY <2>3, <4>1, <4>2
    <3>2. Produce(h)
      BY <3>1 DEF HostStep, TestEmpty, Resize, CreateStream, ForkRecord, ForkWait,
                  LaunchGroup, GroupFails, JoinTurn, Return
    <3>3. queue'[StreamOf(h)] = Append(queue[StreamOf(h)], Kernel(Produced(h)))
      BY <3>2, StreamFacts DEF Produce, Launch, Enqueue, DeviceTyped
    <3>4. m = n + 2 /\ queue'[StreamOf(h)][n + 1] = Kernel(Produced(h))
      BY <2>1, <3>1, <3>3, <1>0, Appended, ItemTypes, StreamFacts DEF DeviceTyped
    <3>5. Produced(h) = Input(L, h, r)
      <4>1. Len(todo[h]) = L[h] + 1 - r
        <5>1. recorded[Fork(h)] + Len(todo[h]) = L[h] + 0
          BY <3>1 DEF CallsCounted, Posted
        <5> QED BY SMTT(40), <5>1, <3>1, <1>0
      <4> QED BY <4>1 DEF Produced, Input
    <3>6. n + 1 \in 1 .. m - 1
      BY <3>4
    <3> QED BY <3>1, <3>4, <3>5, <3>6 DEF Written, Input, Kernel, StreamOf
  <2> QED BY <2>2, <2>3
<1>3. ForksBehind(L)'
  <2> SUFFICES ASSUME NEW g \in Callers, NEW t \in Streams, NEW b \in 1 .. Len(queue'[t]),
                      queue'[t][b].type = "record", queue'[t][b].event = Fork(g)
               PROVE  t = StreamOf(g) /\ \A r \in 1 .. queue'[t][b].nth : Written(L, g, r, b)'
    BY DEF ForksBehind, Fork, StreamOf
  <2>0. Len(queue[t]) \in Nat
    BY <1>0 DEF Grown
  <2>1. CASE b \in 1 .. Len(queue[t])
    <3>1. queue'[t][b] = queue[t][b]
      BY <1>0, <2>1 DEF Grown
    <3>2. t = StreamOf(g) /\ \A r \in 1 .. queue[t][b].nth : Written(L, g, r, b)
      BY <2>1, <3>1 DEF ForksBehind
    <3>3. b \in 1 .. Len(queue[StreamOf(g)]) + 1 /\ b <= b
      BY <2>0, <2>1, <3>2
    <3> QED BY <1>0, <3>1, <3>2, <3>3, GrownKeepsWritten
  <2>2. CASE b \notin 1 .. Len(queue[t])
    <3>1. /\ g = h /\ at[h] = "fork" /\ t = StreamOf(h) /\ b = Len(queue[t]) + 1
          /\ queue'[t][b] = Record(Fork(h), recorded[Fork(h)] + 1)
      <4>1. b \in Nat /\ NewIn(t, b)
        BY <1>0, <2>2 DEF NewIn, Grown
      <4> QED BY <1>0, <4>1, ItemKinds DEF HostGrows
    <3>2. t = StreamOf(g) /\ b = Len(queue[t]) + 1 /\ queue'[t][b].nth = recorded[Fork(h)] + 1
      BY <3>1 DEF Record
    <3>3. \A r \in 1 .. queue'[t][b].nth : Written(L, g, r, b)
      BY <3>1, <3>2 DEF InputsLaunched, Launched
    <3>4. b \in 1 .. Len(queue[StreamOf(g)]) + 1 /\ b <= b
      BY <2>0, <3>2
    <3> QED BY <1>0, <3>2, <3>3, <3>4, GrownKeepsWritten
  <2> QED BY <2>1, <2>2
<1>4. ForksTell(L)'
  BY <1>0 DEF ForksTell, Fork, Input
<1>5. ForksAwaited(L)'
  <2> SUFFICES ASSUME NEW g \in Callers, NEW j \in Slots,
                      at'[g] = "gemm" \/ (at'[g] = "forkWait" /\ j < i'[g])
               PROVE  Awaited(L, g, recorded[Fork(g)], Pool(j), Len(queue[Pool(j)]) + 1)'
    BY DEF ForksAwaited, Fork, Pool
  <2>0. PICK r, t, m : r = recorded'[Fork(g)] /\ t = Pool(j) /\ m = Len(queue'[t]) + 1
    OBVIOUS
  <2> SUFFICES Awaited(L, g, r, t, m)'
    BY <2>0 DEF Fork, Pool, Awaited, Input, Wait
  <2>1. PICK n \in Nat : n = Len(queue[t]) /\ n + 1 <= m /\ m \in Nat /\ t \in Streams
    BY <1>0, <2>0, StreamFacts DEF Grown
  <2>2. ASSUME Awaited(L, g, r, t, n + 1) PROVE Awaited(L, g, r, t, m)'
    <3>1. n + 1 \in 1 .. Len(queue[t]) + 1
      BY <2>1
    <3> QED BY <1>0, <2>1, <2>2, <3>1, GrownKeepsAwaited
  <2>3. CASE g # h
    BY <2>0, <2>1, <2>2, <2>3, HostMoves DEF ForksAwaited
  <2>4. CASE g = h /\ at[h] = "gemm"
    <3>1. r = recorded[Fork(g)]
      BY <2>0, <2>4, <1>0, HostMoves
    <3> QED BY <2>0, <2>1, <2>2, <2>4, <3>1 DEF ForksAwaited
  <2>5. CASE g = h /\ at[h] # "gemm"
    <3>1. at[h] = "forkWait" /\ r = recorded[Fork(h)] /\ (j < i[h] \/ j = i[h])
      <4>1. \/ at[h] = "forkWait" /\ at'[h] = "forkWait" /\ i'[h] = i[h] + 1
            \/ at[h] = "forkWait" /\ at'[h] = "gemm" /\ ~(i[h] + 1 < NS)
            \/ at[h] = "fork" /\ at'[h] = "forkWait" /\ i'[h] = 0
        BY <2>5, <1>0, HostMoves
      <4>2. at[h] = "forkWait" => recorded'[Fork(h)] = recorded[Fork(h)]
        BY <1>0, HostMoves
      <4>3. j \in Nat /\ i[h] \in Nat
        BY <1>0, SlotsFacts
      <4>4. at[h] = "forkWait" => i[h] \in Slots
        BY DEF HostTyped
      <4> QED BY <2>0, <2>5, <4>1, <4>2, <4>3, <4>4, SlotsFacts
    <3>2. CASE j < i[h]
      BY <2>0, <2>1, <2>2, <2>5, <3>1, <3>2 DEF ForksAwaited
    <3>3. CASE j = i[h]
      <4>1. ForkWait(h) /\ Slot(i[h]) = t
        BY <2>0, <2>5, <3>1, <3>3, SlotIsPool
          DEF Past, HostStep, Produce, TestEmpty, Resize, CreateStream, ForkRecord,
              LaunchGroup, GroupFails, JoinTurn, Return
      <4>2. queue'[t] = Append(queue[t], Wait(Fork(h), r))
        BY <2>1, <3>1, <4>1 DEF ForkWait, StreamWaitEvent, Enqueue, DeviceTyped
      <4>3. m = n + 2 /\ queue'[t][n + 1] = Wait(Fork(h), r)
        BY <2>0, <2>1, <3>1, <4>2, <1>0, Appended, ItemTypes, StreamFacts DEF DeviceTyped
      <4>4. n + 1 \in 1 .. m - 1
        BY <4>3
      <4> QED BY <2>5, <4>3, <4>4 DEF Awaited, Wait, Fork
    <3> QED BY <3>1, <3>2, <3>3
  <2> QED BY <2>3, <2>4, <2>5
<1>6. GemmsBehind(L)'
  <2> SUFFICES ASSUME NEW t \in Streams, NEW b \in 1 .. Len(queue'[t]), IsGemm(queue'[t][b]),
                      NEW k, k = queue'[t][b].kernel
               PROVE  /\ k.of \in Callers /\ k.nth \in 1 .. L[k.of] /\ t = Pool(k.slice)
                      /\ Awaited(L, k.of, Turn(L, k), t, b)'
    BY DEF GemmsBehind, IsGemm, Pool, Turn
  <2> PICK g, r : g = k.of /\ r = Turn(L, k)
    OBVIOUS
  <2> SUFFICES /\ g \in Callers /\ k.nth \in 1 .. L[g] /\ t = Pool(k.slice)
               /\ Awaited(L, g, r, t, b)'
    BY DEF Turn, Awaited, Input, Wait, Fork
  <2>0. Len(queue[t]) \in Nat
    BY <1>0 DEF Grown
  <2>1. CASE b \in 1 .. Len(queue[t])
    <3>1. queue'[t][b] = queue[t][b]
      BY <1>0, <2>1 DEF Grown
    <3>2. /\ g \in Callers /\ k.nth \in 1 .. L[g] /\ t = Pool(k.slice)
          /\ Awaited(L, g, r, t, b)
      BY <2>1, <3>1 DEF GemmsBehind, IsGemm
    <3>3. b \in 1 .. Len(queue[t]) + 1 /\ b \in Nat /\ b <= b
      BY <2>0, <2>1
    <3> QED BY <1>0, <3>2, <3>3, GrownKeepsAwaited
  <2>2. CASE b \notin 1 .. Len(queue[t])
    <3>1. b \in Nat /\ NewIn(t, b)
      BY <1>0, <2>2 DEF NewIn, Grown
    <3>2. /\ g = h /\ k.nth = Len(todo[h]) /\ t = Pool(k.slice) /\ k.slice \in Slots
          /\ b = Len(queue[t]) + 1 /\ at[h] = "gemm"
      <4>1. b = Len(queue[t]) + 1 /\ HostItem(h, t, queue'[t][b])
        BY <1>0, <3>1 DEF HostGrows
      <4>2. PICK l \in Slots : /\ at[h] = "gemm" /\ t = Pool(l)
                              /\ k = Gemm(h, i[h], l, off[h], off[h] + Size(h))
        BY <4>1, ItemKinds
      <4> QED BY <4>1, <4>2, SMTT(30) DEF Gemm
    <3>3. Len(todo[h]) \in 1 .. L[h] /\ r = recorded[Fork(h)]
      <4>1. todo[h] # <<>> /\ todo[h] \in Seq(Seq(Nat))
        BY <3>2 DEF HostTyped
      <4>2. Len(todo[h]) \in Nat \ {0}
        BY <4>1, EmptySeq
      <4>3. recorded[Fork(h)] + Len(todo[h]) = L[h] + 1 /\ Len(todo[h]) <= L[h]
        BY <3>2 DEF CallsCounted, Posted
      <4>4. r = L[h] + 1 - Len(todo[h])
        BY <3>2 DEF Turn
      <4>5. PICK n \in Nat, c \in Nat, l \in Nat :
              n = Len(todo[h]) /\ c = recorded[Fork(h)] /\ l = L[h]
        BY <1>0
      <4>6. n \in 1 .. l /\ l + 1 - n = c
        BY <4>2, <4>3, <4>5
      <4> QED BY <4>4, <4>5, <4>6
    <3>4. Awaited(L, h, r, t, b)
      BY <3>2, <3>3 DEF ForksAwaited
    <3>5. b \in 1 .. Len(queue[t]) + 1 /\ b \in Nat /\ b <= b
      <4>1. PICK n \in Nat : n = Len(queue[t]) /\ b = n + 1
        BY <2>0, <3>2
      <4> QED BY <4>1
    <3> QED BY <1>0, <3>2, <3>3, <3>4, <3>5, GrownKeepsAwaited
  <2> QED BY <2>1, <2>2
<1> QED BY <1>1, <1>2, <1>3, <1>4, <1>5, <1>6

-----------------------------------------------------------------------------
CallsInv(L) == HostTyped /\ DeviceTyped /\ PoolFull /\ ForkInv(L)
GroupedInv == \E L \in [Callers -> Nat] : CallsInv(L)

(* The types hold at first. *)
LEMMA InitTyped ==
  ASSUME Init
  PROVE  HostTyped /\ DeviceTyped
<1>1. PICK p \in Programs : todo = p.lists
  BY DEF Init
<1>2. todo \in [Callers -> Seq(Seq(Nat))]
  BY <1>1, ProgramsAssumption
<1>3. HostTyped
  BY <1>2 DEF Init, HostTyped, Statements
<1>4. <<>> \in Seq(Items)
  BY EmptySeq
<1> QED BY <1>3, <1>4 DEF Init, CudaInit, DeviceTyped

(* The invariant holds at first ... *)
LEMMA GroupedInit ==
  ASSUME FirstCallAlone, Init
  PROVE  GroupedInv
<1>1. HostTyped /\ DeviceTyped /\ PoolFull
  BY InitTyped, PoolInit
<1>2. PICK L \in [Callers -> Nat] : \A h \in Callers : L[h] = Len(todo[h])
  <2>1. \A h \in Callers : Len(todo[h]) \in Nat
    BY <1>1, LenProperties DEF HostTyped
  <2> QED BY <2>1, [h \in Callers |-> Len(todo[h])] \in [Callers -> Nat]
<1>3. /\ \A s \in Streams : queue[s] = <<>>
      /\ \A h \in Callers : recorded[Fork(h)] = 0 /\ reached[Fork(h)] = 0
      /\ \A h \in Callers : at[h] \in {"produce", "end"}
  BY StreamFacts DEF Init, CudaInit
<1>4. /\ \A s \in Streams : 1 .. Len(queue[s]) = {}
      /\ \A h \in Callers : Launched(h) = 0 /\ Posted(h) = 0
  BY <1>3 DEF Launched, Posted
<1>5. CallsCounted(L)
  BY <1>2, <1>3, <1>4 DEF CallsCounted
<1>6. InputsLaunched(L) /\ ForksTell(L)
  BY <1>3, <1>4 DEF InputsLaunched, ForksTell
<1>7. ForksBehind(L) /\ GemmsBehind(L)
  BY <1>4 DEF ForksBehind, GemmsBehind
<1>8. ForksAwaited(L)
  BY <1>3 DEF ForksAwaited
<1> QED BY <1>1, <1>5, <1>6, <1>7, <1>8 DEF GroupedInv, CallsInv, ForkInv

(* A step that leaves queues, events and hosts alone keeps the forks in order. *)
LEMMA ForksUnchanged ==
  ASSUME NEW L, ForkInv(L), UNCHANGED <<queue, recorded, reached, finished, at, i, todo>>
  PROVE  ForkInv(L)'
<1>0. /\ queue' = queue /\ recorded' = recorded /\ reached' = reached /\ finished' = finished
      /\ at' = at /\ i' = i /\ todo' = todo
  OBVIOUS
<1> USE <1>0 DEF ForkInv
<1>1. CallsCounted(L)'
  BY DEF CallsCounted, Posted, Fork
<1>2. InputsLaunched(L)'
  BY DEF InputsLaunched, Launched, Written, Input, Kernel, StreamOf, Fork
<1>3. ForksBehind(L)'
  <2>1. \A h, r, b : Written(L, h, r, b)' <=> Written(L, h, r, b)
    BY DEF Written, Input, Kernel, StreamOf
  <2> QED BY <2>1 DEF ForksBehind, StreamOf, Fork
<1>4. ForksTell(L)'
  BY DEF ForksTell, Input, Fork
<1>5. \A h, r, s, b : Awaited(L, h, r, s, b)' <=> Awaited(L, h, r, s, b)
  BY DEF Awaited, Input, Wait, Fork
<1>6. ForksAwaited(L)'
  BY <1>5 DEF ForksAwaited, Pool, Fork
<1>7. GemmsBehind(L)'
  BY <1>5 DEF GemmsBehind, IsGemm, Pool, Turn
<1> QED BY <1>1, <1>2, <1>3, <1>4, <1>6, <1>7

(* Every step keeps the types, the pool and the forks ... *)
LEMMA CallsStep ==
  ASSUME NEW L \in [Callers -> Nat], CallsInv(L), [Next]_vars
  PROVE  CallsInv(L)'
<1> USE DEF CallsInv
<1>1. CASE UNCHANGED vars
  <2>1. UNCHANGED <<queue, busy, recorded, reached, finished, pool, at, i, off, st, todo>>
    BY <1>1 DEF vars, cudaVars, hostVars
  <2>2. HostTyped' /\ DeviceTyped' /\ PoolFull'
    BY <2>1 DEF HostTyped, DeviceTyped, PoolFull, Groups, Single, Past
  <2>3. ForkInv(L)'
    BY <2>1, ForksUnchanged
  <2> QED BY <2>2, <2>3
<1>2. ASSUME NEW h \in Callers, HostStep(h) PROVE CallsInv(L)'
  BY <1>2, HostTypes, HostAdds, PoolKeeps, HostKeepsForks
<1>3. ASSUME NEW s \in Streams, DeviceStep(s), UNCHANGED hostVars PROVE CallsInv(L)'
  <2>1. HostTyped' /\ PoolFull'
    BY <1>3 DEF hostVars, HostTyped, PoolFull, Groups, Single, Past
  <2>2. DeviceTyped' /\ (Dropped(s) \/ UNCHANGED <<queue, recorded, reached, finished>>)
    BY <1>3, DeviceDrops
  <2>3. CASE Dropped(s)
    BY <1>3, <2>1, <2>2, <2>3, DeviceKeepsForks
  <2>4. CASE UNCHANGED <<queue, recorded, reached, finished>>
    <3>1. ForkInv(L)'
      BY <1>3, <2>4, ForksUnchanged DEF hostVars
    <3> QED BY <2>1, <2>2, <3>1
  <2> QED BY <2>2, <2>3, <2>4
<1> QED BY <1>1, <1>2, <1>3 DEF Next, Device

(* ... and so the invariant. *)
LEMMA GroupedStep ==
  ASSUME GroupedInv, [Next]_vars
  PROVE  GroupedInv'
BY CallsStep DEF GroupedInv

(* A kernel that runs is the first item of its stream. *)
LEMMA RunsAtHead ==
  ASSUME DeviceTyped, NEW k \in Running
  PROVE  \E s \in Streams : /\ 1 \in 1 .. Len(queue[s]) /\ queue[s][1].type = "kernel"
                            /\ queue[s][1].kernel = k
<1>1. PICK s \in Streams : busy[s] /\ k = Head(queue[s]).kernel
  BY DEF Running
<1>2. queue[s] \in Seq(Items) /\ queue[s] # <<>> /\ Head(queue[s]).type = "kernel"
  BY <1>1 DEF DeviceTyped
<1>3. Len(queue[s]) \in Nat \ {0} /\ Head(queue[s]) = queue[s][1]
  BY <1>2, Tailed
<1> QED BY <1>1, <1>2, <1>3

(* No GEMM reads x before the caller's earlier work has written it, for    *)
(* every number of callers, calls, groups and streams of the pool.         *)
THEOREM InputsArrive == ASSUME FirstCallAlone PROVE Spec => []InputsReady
<1>1. Init => GroupedInv
  BY GroupedInit
<1>2. GroupedInv /\ [Next]_vars => GroupedInv'
  BY GroupedStep
<1>3. GroupedInv => InputsReady
  <2> SUFFICES ASSUME GroupedInv, NEW k \in Running, k.does = "gemm"
               PROVE  Produces(k) \in finished
    BY DEF InputsReady
  <2>1. PICK L \in [Callers -> Nat] : CallsInv(L)
    BY DEF GroupedInv
  <2>2. PICK s \in Streams : /\ 1 \in 1 .. Len(queue[s]) /\ IsGemm(queue[s][1])
                             /\ queue[s][1].kernel = k
    BY <2>1, RunsAtHead DEF CallsInv, IsGemm
  <2>3. k.of \in Callers /\ k.nth \in 1 .. L[k.of] /\ Awaited(L, k.of, Turn(L, k), s, 1)
    BY <2>1, <2>2 DEF CallsInv, ForkInv, GemmsBehind
  <2>4. Input(L, k.of, Turn(L, k)) \in finished
    BY <2>3 DEF Awaited
  <2>5. L[k.of] + 1 - Turn(L, k) = k.nth
    BY <2>3 DEF Turn
  <2> QED BY <2>4, <2>5 DEF Input, Produces
<1> QED BY <1>1, <1>2, <1>3, PTL DEF Spec

(* Two GEMMs of a caller that run at once have different slices of its     *)
(* workspace, be they of one call or of two.                               *)
THEOREM SlicesApart == ASSUME FirstCallAlone PROVE Spec => []SlicesExclusive
<1>1. Init => GroupedInv
  BY GroupedInit
<1>2. GroupedInv /\ [Next]_vars => GroupedInv'
  BY GroupedStep
<1>3. GroupedInv => SlicesExclusive
  <2> SUFFICES ASSUME GroupedInv, NEW k1 \in Running, NEW k2 \in Running,
                      k1.does = "gemm", k2.does = "gemm", k1.slice = k2.slice
               PROVE  k1 = k2
    BY DEF SlicesExclusive
  <2>1. PICK L \in [Callers -> Nat] : CallsInv(L)
    BY DEF GroupedInv
  <2>2. ASSUME NEW k \in Running, k.does = "gemm"
        PROVE  Pool(k.slice) \in Streams /\ queue[Pool(k.slice)][1].kernel = k
    <3>1. PICK s \in Streams : /\ 1 \in 1 .. Len(queue[s]) /\ IsGemm(queue[s][1])
                               /\ queue[s][1].kernel = k
      BY <2>1, <2>2, RunsAtHead DEF CallsInv, IsGemm
    <3>2. s = Pool(k.slice)
      BY <2>1, <3>1 DEF CallsInv, ForkInv, GemmsBehind
    <3> QED BY <3>1, <3>2
  <2> QED BY <2>2
<1> QED BY <1>1, <1>2, <1>3, PTL DEF Spec

-----------------------------------------------------------------------------
(* The join.  The output is complete when the caller's stream goes on:     *)
(* the GEMMs of a call tile its rows, each slot's event is recorded behind *)
(* the GEMMs of its stream, and the kernel that reads the output is behind *)
(* a wait for each of them and ahead of the next input.                    *)
(* The kernels that were launched, be they over or still to run. *)
InQueue(s) == {queue[s][b].kernel : b \in {c \in 1 .. Len(queue[s]) : queue[s][c].type = "kernel"}}
Placed == finished \cup UNION {InQueue(s) : s \in Streams}
CallGemms(h, n) == {k \in Placed : k.does = "gemm" /\ k.of = h /\ k.nth = n}
Tiles(gemms, rows) ==
  /\ UNION {k.rows : k \in gemms} = rows
  /\ \A k1, k2 \in gemms : k1 # k2 => k1.rows \cap k2.rows = {}

(* What is launched belongs to the call at hand or to an earlier one. *)
Ahead ==
  \A k \in Placed : /\ k.of \in Callers /\ k.nth \in Nat /\ k.nth >= Len(todo[k.of])
                    /\ k.does = "consume" => k.nth > Len(todo[k.of])
                    /\ k.does = "gemm" /\ at[k.of] \notin {"gemm", "join", "return"}
                         => k.nth > Len(todo[k.of])
RowsCounted ==
  \A h \in Callers : /\ at[h] = "forkWait" => off[h] = 0
                     /\ at[h] = "gemm" => off[h] = RowsBefore(Groups(h))[i[h]]
                     /\ at[h] \in {"join", "return"} => off[h] = Rows(h)
CallTiled ==
  \A h \in Callers : at[h] \in {"gemm", "join", "return"} /\ st[h] = "ok" =>
    Tiles(CallGemms(h, Len(todo[h])), 0 .. off[h] - 1)
ConsumesTiled ==
  \A k \in Placed : k.does = "consume" => Tiles(CallGemms(k.of, k.nth), k.rows)

(* No GEMM of the first n calls is left in slot j. *)
Cleared(L, h, j, n) ==
  \A b \in 1 .. Len(queue[Pool(j)]) :
    IsGemm(queue[Pool(j)][b]) /\ queue[Pool(j)][b].kernel.of = h
      => Turn(L, queue[Pool(j)][b].kernel) > n
Joined(L, h, j, n, b) ==
  \/ Cleared(L, h, j, n)
  \/ \E a \in 1 .. b - 1 : queue[StreamOf(h)][a] = Wait(Join(h, j), n)
Owed(h, j) ==
  IF at[h] \in {"forkWait", "gemm"} \/ (at[h] = "join" /\ i[h] <= j) THEN 1 ELSE 0
JoinsCounted ==
  \A h \in Callers, j \in Slots : recorded[Join(h, j)] + Owed(h, j) = recorded[Fork(h)]
JoinsBehind(L) ==
  \A h \in Callers, j \in Slots : \A s \in Streams : \A b \in 1 .. Len(queue[s]) :
    queue[s][b].type = "record" /\ queue[s][b].event = Join(h, j) =>
      /\ s = Pool(j) /\ queue[s][b].nth <= recorded[Join(h, j)]
      /\ \A c \in b + 1 .. Len(queue[s]) :
           IsGemm(queue[s][c]) /\ queue[s][c].kernel.of = h
             => Turn(L, queue[s][c].kernel) > queue[s][b].nth
JoinsTell(L) ==
  \A h \in Callers, j \in Slots : /\ reached[Join(h, j)] <= recorded[Join(h, j)]
                                  /\ Cleared(L, h, j, reached[Join(h, j)])
JoinsAwaited(L) ==
  \A h \in Callers, j \in Slots :
    at[h] = "return" \/ (at[h] = "join" /\ j < i[h]) =>
      \A n \in {recorded[Fork(h)]}, b \in {Len(queue[StreamOf(h)]) + 1} : Joined(L, h, j, n, b)
ConsumesBehind(L) ==
  \A s \in Streams : \A b \in 1 .. Len(queue[s]) :
    IsConsume(queue[s][b]) =>
      \A k \in {queue[s][b].kernel} :
        /\ k.of \in Callers /\ k.nth \in 1 .. L[k.of] /\ s = StreamOf(k.of)
        /\ \A j \in Slots : Joined(L, k.of, j, Turn(L, k), b)

(* The input of a later call is not written before the output of this one is read. *)
InputOf(h, n) == [of |-> h, nth |-> n, does |-> "produce"]
Unwritten(h, n, b) ==
  /\ InputOf(h, n) \notin finished
  /\ \A a \in 1 .. b - 1 : IsProduce(queue[StreamOf(h)][a])
       => queue[StreamOf(h)][a].kernel # InputOf(h, n)
InputsInPlace ==
  \A s \in Streams : \A b \in 1 .. Len(queue[s]) :
    IsProduce(queue[s][b]) => s = StreamOf(queue[s][b].kernel.of)
ConsumesFirst ==
  \A s \in Streams : \A b \in 1 .. Len(queue[s]) :
    IsConsume(queue[s][b]) =>
      \A k \in {queue[s][b].kernel} : \A n \in 0 .. k.nth - 1 : Unwritten(k.of, n, b)

-----------------------------------------------------------------------------
(* A nonempty set of numbers has a least one. *)
LEMMA Least ==
  ASSUME NEW S \in SUBSET Nat, S # {}
  PROVE  \E m \in S : \A n \in S : m <= n
<1> DEFINE R == OpToRel(<, Nat)
<1>1. IsWellFoundedOn(R, Nat)
  BY NatLessThanWellFounded, Zenon
<1>0. R = {ss \in Nat \X Nat : ss[1] < ss[2]}
  BY Zenon DEF OpToRel
<1> HIDE DEF R
<1>2. PICK m \in S : \A n \in S : ~(<<n, m>> \in R)
  BY <1>1, WFMin
<1>3. ASSUME NEW n \in S PROVE m <= n
  <2>1. m \in Nat /\ n \in Nat /\ (n < m => <<n, m>> \in R)
    BY <1>0
  <2> QED BY <2>1, <1>2
<1> QED BY <1>3

(* The rows before each group are the running sums of the group sizes. *)
LEMMA RunningSums ==
  ASSUME NEW g \in Seq(Nat)
  PROVE  /\ RowsBefore(g) \in [0 .. Len(g) -> Nat]
         /\ RowsBefore(g)[0] = 0
         /\ \A n \in 1 .. Len(g) : RowsBefore(g)[n] = RowsBefore(g)[n - 1] + g[n]
<1> DEFINE Sums(f, m) == /\ f \in [0 .. m -> Nat] /\ f[0] = 0
                         /\ \A n \in 1 .. m : f[n] = f[n - 1] + g[n]
           Def(f) == f = [n \in 0 .. Len(g) |-> IF n = 0 THEN 0 ELSE f[n - 1] + g[n]]
           T == {m \in 0 .. Len(g) : ~ \E f : Sums(f, m)}
<1>0. Len(g) \in Nat /\ \A n \in 1 .. Len(g) : g[n] \in Nat
  BY LenProperties, ElementOfSeq
<1>1. ASSUME T # {} PROVE FALSE
  <2>0. T \in SUBSET Nat
    BY <1>0
  <2>1. PICK m \in T : \A n \in T : m <= n
    BY <1>1, <2>0, Least
  <2>2. m \in 0 .. Len(g) /\ ~ \E f : Sums(f, m)
    OBVIOUS
  <2>3. CASE m = 0
    <3>1. Sums([n \in 0 .. 0 |-> 0], 0)
      OBVIOUS
    <3> QED BY <2>2, <2>3, <3>1
  <2>4. CASE m # 0
    <3>0. m \in Nat \ {0} /\ m - 1 \in 0 .. Len(g) /\ m \in 1 .. Len(g) /\ ~(m <= m - 1)
      BY <1>0, <2>2, <2>4
    <3>1. m - 1 \in 0 .. Len(g) /\ m - 1 \notin T /\ m \in 1 .. Len(g)
      BY <2>1, <3>0
    <3>2. PICK f : Sums(f, m - 1)
      BY <3>1
    <3>3. PICK e : e = [n \in 0 .. m |-> IF n = m THEN f[m - 1] + g[m] ELSE f[n]]
      OBVIOUS
    <3>4. e \in [0 .. m -> Nat] /\ e[0] = 0
      BY <1>0, <3>1, <3>2, <3>3, SMTT(30)
    <3>5. ASSUME NEW n \in 1 .. m PROVE e[n] = e[n - 1] + g[n]
      BY <3>1, <3>2, <3>3, SMTT(30)
    <3> QED BY <2>2, <3>4, <3>5
  <2> QED BY <2>3, <2>4
<1>2. PICK f : Sums(f, Len(g))
  <2>1. Len(g) \in 0 .. Len(g)
    BY <1>0
  <2>2. T = {}
    BY <1>1
  <2> QED BY <2>1, <2>2
<1>3. Def(f)
  BY <1>0, <1>2
<1>4. ASSUME NEW e, Def(e) PROVE e = f
  <2>1. DOMAIN e = 0 .. Len(g)
    BY <1>4
  <2> DEFINE U == {n \in 0 .. Len(g) : e[n] # f[n]}
  <2>2. ASSUME U # {} PROVE FALSE
    <3>0. U \in SUBSET Nat
      BY <1>0
    <3>1. PICK m \in U : \A n \in U : m <= n
      BY <2>2, <3>0, Least
    <3>2. m \in 0 .. Len(g) /\ e[m] # f[m]
      OBVIOUS
    <3>3. m # 0 => m - 1 \in 0 .. Len(g) /\ m - 1 \notin U
      BY <1>0, <3>1, <3>2
    <3>4. m # 0 => e[m - 1] = f[m - 1]
      BY <3>3
    <3>5. e[m] = IF m = 0 THEN 0 ELSE e[m - 1] + g[m]
      BY <3>2, <1>4
    <3> QED BY <3>2, <3>4, <3>5, <1>2, <1>0
  <2>3. \A n \in 0 .. Len(g) : e[n] = f[n]
    BY <2>2
  <2>4. e = [n \in 0 .. Len(g) |-> e[n]] /\ f = [n \in 0 .. Len(g) |-> f[n]]
    BY <1>2, <1>4
  <2> HIDE DEF Def
  <2> QED BY <2>3, <2>4
<1>5. Def(RowsBefore(g))
  <2>1. RowsBefore(g) = CHOOSE x : Def(x)
    BY DEF RowsBefore
  <2> HIDE DEF Def
  <2> QED BY <1>3, <2>1
<1>6. RowsBefore(g) = f
  BY <1>4, <1>5
<1> QED BY <1>2, <1>6

-----------------------------------------------------------------------------
(* A kernel is placed when it has finished or stands in a queue, now ... *)
LEMMA PlacedIs ==
  ASSUME NEW k
  PROVE  k \in Placed <=>
           \/ k \in finished
           \/ \E s \in Streams : \E b \in 1 .. Len(queue[s]) :
                queue[s][b].type = "kernel" /\ queue[s][b].kernel = k
BY DEF Placed, InQueue

(* ... and after a step. *)
LEMMA PlacedNext ==
  ASSUME NEW k
  PROVE  k \in Placed' <=>
           \/ k \in finished'
           \/ \E s \in Streams : \E b \in 1 .. Len(queue'[s]) :
                queue'[s][b].type = "kernel" /\ queue'[s][b].kernel = k
BY DEF Placed, InQueue

(* The device takes nothing away: what leaves a queue is over. *)
LEMMA DevicePlaces ==
  ASSUME DeviceTyped, NEW s \in Streams, Dropped(s)
  PROVE  Placed' = Placed
<1>1. ASSUME NEW k \in Placed PROVE k \in Placed'
  <2>1. CASE k \in finished
    BY <2>1, DroppedItems, PlacedNext
  <2>2. ASSUME NEW t \in Streams, NEW b \in 1 .. Len(queue[t]),
               queue[t][b].type = "kernel", queue[t][b].kernel = k
        PROVE  k \in Placed'
    <3>1. CASE t # s
      BY <2>2, <3>1, DroppedItems, PlacedNext
    <3>2. CASE t = s /\ b = 1
      <4>1. k \in finished'
        BY <2>2, <3>2, DroppedItems DEF Dropped
      <4> QED BY <4>1, PlacedNext
    <3>3. CASE t = s /\ b # 1
      <4>1. PICK c \in 1 .. Len(queue'[s]) : b = c + 1
        <5>1. b - 1 \in 1 .. Len(queue'[s]) /\ b = (b - 1) + 1
          BY <3>3, DroppedItems
        <5> QED BY <5>1
      <4>2. queue'[s][c] = queue[s][b]
        BY <4>1, DroppedItems
      <4> QED BY <2>2, <3>3, <4>2, PlacedNext
    <3> QED BY <3>1, <3>2, <3>3
  <2> QED BY <2>1, <2>2, PlacedIs
<1>2. ASSUME NEW k \in Placed' PROVE k \in Placed
  <2>1. CASE k \in finished'
    <3>1. 1 \in 1 .. Len(queue[s]) /\ Head(queue[s]) = queue[s][1]
      BY DroppedItems
    <3>2. \/ k \in finished
          \/ Head(queue[s]).type = "kernel" /\ k = Head(queue[s]).kernel
      BY <2>1 DEF Dropped
    <3> QED BY <3>1, <3>2, PlacedIs
  <2>2. ASSUME NEW t \in Streams, NEW b \in 1 .. Len(queue'[t]),
               queue'[t][b].type = "kernel", queue'[t][b].kernel = k
        PROVE  k \in Placed
    <3>1. CASE t # s
      BY <2>2, <3>1, DroppedItems, PlacedIs
    <3>2. CASE t = s
      BY <2>2, <3>2, DroppedItems, PlacedIs
    <3> QED BY <3>1, <3>2
  <2> QED BY <2>1, <2>2, PlacedNext
<1> QED BY <1>1, <1>2

(* A kernel put on a stream is placed, and no other one newly. *)
LEMMA AddedPlaces ==
  ASSUME DeviceTyped, NEW s \in Streams, NEW x, Added(s, x), finished' = finished,
         x.type = "kernel"
  PROVE  Placed' = Placed \cup {x.kernel}
<1>0. /\ Len(queue[s]) \in Nat /\ Len(queue'[s]) = Len(queue[s]) + 1
      /\ queue'[s][Len(queue[s]) + 1] = x
      /\ \A b \in 1 .. Len(queue[s]) : queue'[s][b] = queue[s][b]
      /\ \A t \in Streams : t # s => queue'[t] = queue[t]
  BY AddedGrows DEF Grown
<1>1. PICK n \in Nat : n = Len(queue[s])
  BY <1>0
<1>2. ASSUME NEW k \in Placed' PROVE k \in Placed \cup {x.kernel}
  <2>1. CASE k \in finished'
    BY <2>1, PlacedIs
  <2>2. ASSUME NEW t \in Streams, NEW b \in 1 .. Len(queue'[t]),
               queue'[t][b].type = "kernel", queue'[t][b].kernel = k
        PROVE  k \in Placed \cup {x.kernel}
    <3>1. CASE t # s
      BY <1>0, <2>2, <3>1, PlacedIs
    <3>2. CASE t = s
      <4>1. b \in 1 .. n \/ b = n + 1
        BY <1>0, <1>1, <2>2, <3>2
      <4> QED BY <1>0, <1>1, <2>2, <3>2, <4>1, PlacedIs
    <3> QED BY <3>1, <3>2
  <2> QED BY <1>2, <2>1, <2>2, PlacedNext
<1>3. ASSUME NEW k \in Placed PROVE k \in Placed'
  <2>1. CASE k \in finished
    BY <2>1, PlacedNext
  <2>2. ASSUME NEW t \in Streams, NEW b \in 1 .. Len(queue[t]),
               queue[t][b].type = "kernel", queue[t][b].kernel = k
        PROVE  k \in Placed'
    <3>1. b \in 1 .. Len(queue'[t]) /\ queue'[t][b] = queue[t][b]
      BY <2>2, AddedGrows DEF Grown
    <3> QED BY <2>2, <3>1, PlacedNext
  <2> QED BY <1>3, <2>1, <2>2, PlacedIs
<1>4. x.kernel \in Placed'
  <2>1. n + 1 \in 1 .. Len(queue'[s]) /\ queue'[s][n + 1] = x
    BY <1>0, <1>1
  <2> QED BY <2>1, PlacedNext
<1> QED BY <1>2, <1>3, <1>4

(* The host adds what it launches. *)
LEMMA HostPlaces ==
  ASSUME NEW h \in Callers, HostGrows(h)
  PROVE  /\ Placed \subseteq Placed'
         /\ \A k \in Placed' \ Placed :
              \E t \in Streams : \E x : HostItem(h, t, x) /\ x.type = "kernel" /\ x.kernel = k
<1>1. finished' = finished /\ Grown
  BY DEF HostGrows, Untouched
<1>2. ASSUME NEW k \in Placed PROVE k \in Placed'
  <2>1. CASE k \in finished
    BY <2>1, <1>1, PlacedNext
  <2>2. ASSUME NEW t \in Streams, NEW b \in 1 .. Len(queue[t]),
               queue[t][b].type = "kernel", queue[t][b].kernel = k
        PROVE  k \in Placed'
    <3>1. b \in 1 .. Len(queue'[t]) /\ queue'[t][b] = queue[t][b]
      BY <1>1 DEF Grown
    <3> QED BY <2>2, <3>1, PlacedNext
  <2> QED BY <2>1, <2>2, PlacedIs
<1>3. ASSUME NEW k \in Placed', k \notin Placed
      PROVE  \E t \in Streams : \E x : HostItem(h, t, x) /\ x.type = "kernel" /\ x.kernel = k
  <2>0. PICK t \in Streams : \E b \in 1 .. Len(queue'[t]) :
          queue'[t][b].type = "kernel" /\ queue'[t][b].kernel = k
    BY <1>1, <1>3, PlacedIs, PlacedNext
  <2>1. PICK b \in 1 .. Len(queue'[t]) : queue'[t][b].type = "kernel" /\ queue'[t][b].kernel = k
    BY <2>0
  <2>2. b \notin 1 .. Len(queue[t])
    <3>1. b \in 1 .. Len(queue[t]) => queue'[t][b] = queue[t][b]
      BY <1>1 DEF Grown
    <3> QED BY <1>3, <2>1, <3>1, PlacedIs
  <2>3. b \in Nat /\ NewIn(t, b)
    BY <1>1, <2>2 DEF Grown, NewIn
  <2> QED BY <2>1, <2>3 DEF HostGrows
<1> QED BY <1>2, <1>3

-----------------------------------------------------------------------------
(* What a host step launches, and what it leaves of the others. *)
Launches(h, k) ==
  \/ at[h] = "produce" /\ k = Produced(h)
  \/ /\ at[h] = "gemm" /\ Size(h) > 0
     /\ \E j \in Slots : k = Gemm(h, i[h], j, off[h], off[h] + Size(h))
  \/ at[h] = "return" /\ st[h] = "ok" /\ k = Consumed(h)

(* What a host step places is a kernel of its current call. *)
LEMMA NewlyPlaced ==
  ASSUME NEW h \in Callers, HostGrows(h), NEW k \in Placed', k \notin Placed
  PROVE  /\ Launches(h, k) /\ k.of = h /\ k.nth = Len(todo[h])
         /\ k.does = "gemm" => at[h] = "gemm"
         /\ k.does = "consume" => at[h] = "return" /\ st[h] = "ok" /\ k = Consumed(h)
<1>1. PICK t \in Streams : \E x : HostItem(h, t, x) /\ x.type = "kernel" /\ x.kernel = k
  BY HostPlaces
<1>2. PICK x : HostItem(h, t, x) /\ x.type = "kernel" /\ x.kernel = k
  BY <1>1
<1>3. Launches(h, k)
  BY <1>2 DEF HostItem, Launches, Kernel, Record, Wait
<1> QED BY <1>3 DEF Launches, Produced, Gemm, Consumed

(* The other callers keep what they have. *)
LEMMA OthersKeep ==
  ASSUME HostTyped, NEW h \in Callers, HostStep(h), NEW g \in Callers, g # h
  PROVE  at'[g] = at[g] /\ i'[g] = i[g] /\ off'[g] = off[g] /\ st'[g] = st[g] /\ todo'[g] = todo[g]
<1> USE DEF HostTyped, Goto, Loop
<1>1. CASE Produce(h) \/ TestEmpty(h) \/ Resize(h) \/ CreateStream(h)
  BY <1>1 DEF Produce, TestEmpty, Resize, CreateStream
<1>2. CASE ForkRecord(h) \/ ForkWait(h) \/ JoinTurn(h) \/ Return(h)
  BY <1>2 DEF ForkRecord, ForkWait, JoinTurn, Return
<1>3. CASE LaunchGroup(h)
  BY <1>3 DEF LaunchGroup
<1>4. CASE GroupFails(h)
  BY <1>4 DEF GroupFails
<1> QED BY <1>1, <1>2, <1>3, <1>4 DEF HostStep

(* A host step keeps the calls in order: none is placed before its turn. *)
LEMMA AheadKept ==
  ASSUME HostTyped, DeviceTyped, PoolFull, NEW h \in Callers, HostStep(h), Ahead
  PROVE  Ahead'
<1>0. HostGrows(h) /\ HostTyped'
  BY HostAdds, HostTypes
<1>1. /\ Len(todo[h]) \in Nat /\ Len(todo'[h]) \in Nat
      /\ at[h] # "return" => todo'[h] = todo[h]
      /\ at[h] = "return" => Len(todo'[h]) < Len(todo[h])
  <2>1. todo[h] \in Seq(Seq(Nat)) /\ todo'[h] \in Seq(Seq(Nat))
    BY <1>0 DEF HostTyped
  <2>2. CASE at[h] = "return"
    <3>1. todo'[h] = Tail(todo[h]) /\ todo[h] # <<>>
      BY <2>2, HostMoves
    <3>2. Len(todo'[h]) = Len(todo[h]) - 1
      BY <2>1, <3>1, Tailed
    <3> QED BY <2>1, <2>2, <3>2, LenProperties
  <2> QED BY <2>1, <2>2, HostMoves, LenProperties
<1> SUFFICES ASSUME NEW k \in Placed'
             PROVE  /\ k.of \in Callers /\ k.nth \in Nat /\ k.nth >= Len(todo'[k.of])
                    /\ k.does = "consume" => k.nth > Len(todo'[k.of])
                    /\ k.does = "gemm" /\ at'[k.of] \notin {"gemm", "join", "return"}
                         => k.nth > Len(todo'[k.of])
  BY DEF Ahead
<1>2. CASE k \in Placed
  <2>1. /\ k.of \in Callers /\ k.nth \in Nat /\ k.nth >= Len(todo[k.of])
        /\ k.does = "consume" => k.nth > Len(todo[k.of])
        /\ k.does = "gemm" /\ at[k.of] \notin {"gemm", "join", "return"}
             => k.nth > Len(todo[k.of])
    BY <1>2 DEF Ahead
  <2>2. CASE k.of # h
    BY <2>1, <2>2, OthersKeep
  <2>3. CASE k.of = h
    <3>1. at'[h] \notin {"gemm", "join", "return"} =>
            at[h] \notin {"gemm", "join", "return"} \/ at[h] = "return"
      BY HostMoves
    <3>2. k.nth \in Nat /\ k.nth >= Len(todo'[h]) /\ (at[h] = "return" => k.nth > Len(todo'[h]))
      BY <1>1, <2>1, <2>3
    <3>3. k.does = "consume" => k.nth > Len(todo'[h])
      BY <1>1, <2>1, <2>3
    <3>4. k.does = "gemm" /\ at'[h] \notin {"gemm", "join", "return"} => k.nth > Len(todo'[h])
      BY <1>1, <2>1, <2>3, <3>1, <3>2
    <3> QED BY <2>3, <3>2, <3>3, <3>4
  <2> QED BY <2>2, <2>3
<1>3. CASE k \notin Placed
  <2>1. /\ Launches(h, k) /\ k.of = h /\ k.nth = Len(todo[h])
        /\ k.does = "gemm" => at[h] = "gemm"
        /\ k.does = "consume" => at[h] = "return"
    BY <1>0, <1>3, NewlyPlaced
  <2>2. at[h] = "gemm" => at'[h] \in {"gemm", "join"}
    BY HostMoves
  <2>3. at[h] = "return" => Len(todo'[h]) < Len(todo[h])
    BY <1>1, HostMoves
  <2> QED BY <1>1, <2>1, <2>2, <2>3
<1> QED BY <1>2, <1>3

(* A host step keeps off at the rows of the groups gone through. *)
LEMMA RowsKept ==
  ASSUME HostTyped, DeviceTyped, PoolFull, NEW h \in Callers, HostStep(h), RowsCounted
  PROVE  RowsCounted'
<1> SUFFICES ASSUME NEW g \in Callers
             PROVE  /\ at'[g] = "forkWait" => off'[g] = 0
                    /\ at'[g] = "gemm" => off'[g] = RowsBefore(Groups(g)')[i'[g]]
                    /\ at'[g] \in {"join", "return"} => off'[g] = Rows(g)'
  BY DEF RowsCounted, Groups, Rows
<1>1. CASE g # h
  BY <1>1, OthersKeep DEF RowsCounted, Groups, Rows
<1>2. CASE g = h /\ at[h] \notin {"fork", "forkWait", "gemm", "join"}
  <2>1. at'[h] \notin {"forkWait", "gemm", "join", "return"}
    BY <1>2, HostMoves
  <2> QED BY <1>2, <2>1
<1>3. CASE g = h /\ at[h] \in {"fork", "forkWait", "gemm", "join"}
  <2>1. Groups(h)' = Groups(h) /\ Rows(h)' = Rows(h)
    BY <1>3, HostMoves DEF Groups, Rows
  <2>2. /\ todo[h] \in Seq(Seq(Nat)) /\ todo[h] # <<>> /\ i[h] \in Nat /\ off[h] \in Nat
        /\ off \in [Callers -> Nat] /\ at \in [Callers -> Statements] /\ i \in [Callers -> Nat]
    BY <1>3 DEF HostTyped
  <2>3. PICK G \in Seq(Nat) : G = Groups(h) /\ Len(G) \in Nat
    BY <2>2, Tailed, LenProperties DEF Groups
  <2>4. /\ RowsBefore(G) \in [0 .. Len(G) -> Nat] /\ RowsBefore(G)[0] = 0
        /\ \A n \in 1 .. Len(G) : RowsBefore(G)[n] = RowsBefore(G)[n - 1] + G[n]
        /\ Rows(h) = RowsBefore(G)[Len(G)]
    BY <2>3, RunningSums DEF Rows
  <2>5. CASE at[h] = "fork"
    <3>1. ForkRecord(h)
      BY <2>5 DEF HostStep, Produce, TestEmpty, Resize, CreateStream, ForkWait,
                  LaunchGroup, GroupFails, JoinTurn, Return
    <3> QED BY <1>3, <2>2, <3>1 DEF ForkRecord, Goto
  <2>6. CASE at[h] = "forkWait"
    <3>1. ForkWait(h)
      BY <2>6 DEF HostStep, Produce, TestEmpty, Resize, CreateStream, ForkRecord,
                  LaunchGroup, GroupFails, JoinTurn, Return
    <3>2. off[h] = 0 /\ off' = off
      BY <2>6, <3>1 DEF RowsCounted, ForkWait
    <3>3. \/ at'[h] = "forkWait"
          \/ at'[h] = "gemm" /\ i'[h] = 0
          \/ at'[h] = "join" /\ G = <<>>
      BY <2>2, <2>3, <2>6, <3>1 DEF ForkWait, Goto, Loop
    <3>4. G = <<>> => Len(G) = 0
      BY EmptySeq
    <3> QED BY <1>3, <2>1, <2>3, <2>4, <3>2, <3>3, <3>4
  <2>7. CASE at[h] = "gemm"
    <3>1. LaunchGroup(h) \/ GroupFails(h)
      BY <2>7 DEF HostStep, Produce, TestEmpty, Resize, CreateStream, ForkRecord,
                  ForkWait, JoinTurn, Return
    <3>2. /\ off' = [off EXCEPT ![h] = off[h] + G[i[h] + 1]] /\ Loop(h, Len(G), "join")
      BY <2>3, <3>1 DEF LaunchGroup, GroupFails, NextOff, Size
    <3>3. i[h] + 1 \in 1 .. Len(G) /\ (i[h] + 1) - 1 = i[h]
      BY <2>2, <2>3, <2>7 DEF HostTyped
    <3>4. off'[h] = RowsBefore(G)[i[h] + 1]
      <4>1. off[h] = RowsBefore(G)[i[h]]
        BY <2>3, <2>7 DEF RowsCounted
      <4>2. off'[h] = off[h] + G[i[h] + 1]
        BY <2>2, <3>2
      <4>3. PICK n \in 1 .. Len(G) : n = i[h] + 1 /\ n - 1 = i[h]
        BY <3>3
      <4> QED BY <2>4, <4>1, <4>2, <4>3
    <3>5. \/ at'[h] = "gemm" /\ i'[h] = i[h] + 1
          \/ at'[h] = "join" /\ i[h] + 1 = Len(G)
      BY <2>2, <2>3, <2>7, <3>2, <3>3 DEF Goto, Loop
    <3> QED BY <1>3, <2>1, <2>3, <2>4, <3>4, <3>5
  <2>8. CASE at[h] = "join"
    <3>1. JoinTurn(h)
      BY <2>8 DEF HostStep, Produce, TestEmpty, Resize, CreateStream, ForkRecord,
                  ForkWait, LaunchGroup, GroupFails, Return
    <3>2. off' = off /\ at'[h] \in {"join", "return"}
      BY <2>2, <2>8, <3>1 DEF JoinTurn, Goto, Loop
    <3> QED BY <1>3, <2>1, <2>8, <3>2 DEF RowsCounted
  <2> QED BY <1>3, <2>5, <2>6, <2>7, <2>8
<1> QED BY <1>1, <1>2, <1>3

(* The GEMMs of a call change only while the call launches them. *)
LEMMA CallGemmsKept ==
  ASSUME NEW h \in Callers, HostGrows(h), NEW g, NEW n,
         g = h /\ n = Len(todo[h]) => at[h] # "gemm"
  PROVE  CallGemms(g, n)' = CallGemms(g, n)
<1>1. ASSUME NEW k \in Placed', k \notin Placed, k.does = "gemm" PROVE ~(k.of = g /\ k.nth = n)
  BY <1>1, NewlyPlaced
<1>2. Placed \subseteq Placed'
  BY HostPlaces
<1> QED BY <1>1, <1>2 DEF CallGemms

(* Launching a group adds the GEMM of its rows, or none when it has no rows. *)
LEMMA LaunchPlaces ==
  ASSUME HostTyped, DeviceTyped, PoolFull, NEW h \in Callers, LaunchGroup(h), HostStep(h)
  PROVE  \/ Size(h) = 0 /\ CallGemms(h, Len(todo[h]))' = CallGemms(h, Len(todo[h]))
         \/ /\ Size(h) \in Nat \ {0}
            /\ \E x : /\ x.rows = off[h] .. off[h] + Size(h) - 1
                     /\ CallGemms(h, Len(todo[h]))' = CallGemms(h, Len(todo[h])) \cup {x}
<1>0. HostGrows(h) /\ Len(todo[h]) \in Nat /\ i[h] \in Nat /\ off[h] \in Nat /\ todo' = todo
  <2>1. Len(todo[h]) \in Nat
    BY LenProperties DEF HostTyped
  <2> QED BY <2>1, HostAdds DEF HostTyped, LaunchGroup
<1>1. at[h] = "gemm" /\ Size(h) \in Nat
  <2>1. at[h] = "gemm"
    BY DEF LaunchGroup
  <2>2. Groups(h) \in Seq(Nat) /\ i[h] < Len(Groups(h))
    BY <2>1, HeadTailProperties DEF HostTyped, Groups
  <2> QED BY <1>0, <2>1, <2>2, ElementOfSeq, LenProperties DEF Size
<1>2. Placed \subseteq Placed'
  BY <1>0, HostPlaces
<1>3. CASE Size(h) = 0
  <2>1. ASSUME NEW k \in Placed', k \notin Placed PROVE FALSE
    BY <1>0, <1>1, <1>3, <2>1, NewlyPlaced DEF Launches
  <2> QED BY <1>2, <1>3, <2>1, <1>0 DEF CallGemms
<1>4. CASE Size(h) # 0
  <2>1. PICK j \in Slots : j = StreamOfGroup(i[h]) /\ SliceOfGroup(i[h]) = j /\ Slot(j) = Pool(j)
    BY <1>0, <1>1, SlotOfGroup, SlotIsPool DEF Past
  <2>2. PICK x : x = Gemm(h, i[h], j, off[h], off[h] + Size(h))
    OBVIOUS
  <2>3. Added(Pool(j), Kernel(x))
    <3>1. Kernel(x) \in Items
      BY <1>0, <1>1, <2>2, ItemTypes
    <3> QED BY <1>1, <1>4, <2>1, <2>2, <3>1 DEF LaunchGroup, Launch, Enqueue, Added
  <2>4. Placed' = Placed \cup {x}
    BY <1>0, <2>3, AddedPlaces, StreamFacts DEF HostGrows, Untouched, Kernel
  <2>5. x.does = "gemm" /\ x.of = h /\ x.nth = Len(todo[h]) /\ x.rows = off[h] .. off[h] + Size(h) - 1
    <3>1. \A g, k, lo, hi : /\ Gemm(h, g, k, lo, hi).does = "gemm" /\ Gemm(h, g, k, lo, hi).of = h
                            /\ Gemm(h, g, k, lo, hi).nth = Len(todo[h])
                            /\ Gemm(h, g, k, lo, hi).rows = lo .. hi - 1
      BY DEF Gemm
    <3>2. PICK hi : hi = off[h] + Size(h)
      OBVIOUS
    <3>3. /\ x.does = "gemm" /\ x.of = h /\ x.nth = Len(todo[h]) /\ x.rows = off[h] .. hi - 1
      BY <2>2, <3>1, <3>2
    <3>4. hi - 1 = off[h] + Size(h) - 1
      BY <1>0, <1>1, <3>2
    <3> QED BY <3>3, <3>4
  <2>6. CallGemms(h, Len(todo[h]))' = CallGemms(h, Len(todo[h])) \cup {x}
    BY <1>0, <2>4, <2>5 DEF CallGemms
  <2> QED BY <1>1, <1>4, <2>5, <2>6
<1> QED BY <1>3, <1>4

(* A host step keeps the rows before off tiled by the GEMMs of the call. *)
LEMMA TilesKept ==
  ASSUME HostTyped, DeviceTyped, PoolFull, NEW h \in Callers, HostStep(h),
         Ahead, RowsCounted, CallTiled
  PROVE  CallTiled'
<1>0. HostGrows(h) /\ HostTyped'
  BY HostAdds, HostTypes
<1> SUFFICES ASSUME NEW g \in Callers, at'[g] \in {"gemm", "join", "return"}, st'[g] = "ok",
                    NEW n, n = Len(todo'[g])
             PROVE  Tiles(CallGemms(g, n)', 0 .. off'[g] - 1)
  BY DEF CallTiled, Tiles, CallGemms
<1>1. CASE g # h
  <2>1. at'[g] = at[g] /\ off'[g] = off[g] /\ st'[g] = st[g] /\ todo'[g] = todo[g]
    BY <1>1, OthersKeep
  <2>2. CallGemms(g, n)' = CallGemms(g, n)
    BY <1>0, <1>1, CallGemmsKept
  <2> QED BY <2>1, <2>2 DEF CallTiled
<1>2. CASE g = h
  <2>1. at[h] \in {"forkWait", "gemm", "join"} /\ n = Len(todo[h]) /\ todo'[h] = todo[h]
    BY <1>2, HostMoves
  <2>2. CASE at[h] = "forkWait"
    <3>1. ForkWait(h)
      BY <2>2 DEF HostStep, Produce, TestEmpty, Resize, CreateStream, ForkRecord,
                  LaunchGroup, GroupFails, JoinTurn, Return
    <3>2. off'[h] = 0
      BY <2>2, <3>1 DEF RowsCounted, ForkWait
    <3>3. CallGemms(h, n)' = CallGemms(h, n)
      BY <1>0, <2>2, CallGemmsKept
    <3>4. CallGemms(h, n) = {}
      <4>1. ASSUME NEW k \in Placed, k.does = "gemm", k.of = h, k.nth = n PROVE FALSE
        <5>1. n \in Nat /\ k.nth > n
          BY <2>1, <2>2, <4>1, LenProperties DEF Ahead, HostTyped
        <5> QED BY <4>1, <5>1
      <4> QED BY <4>1 DEF CallGemms
    <3>5. 0 .. 0 - 1 = {}
      OBVIOUS
    <3> QED BY <1>2, <3>2, <3>3, <3>4, <3>5 DEF Tiles
  <2>3. CASE at[h] = "gemm" /\ LaunchGroup(h)
    <3>1. st[h] = "ok" /\ off[h] \in Nat /\ Tiles(CallGemms(h, n), 0 .. off[h] - 1)
      BY <1>2, <2>1, <2>3 DEF CallTiled, LaunchGroup, HostTyped
    <3>2. off'[h] = off[h] + Size(h)
      BY <2>3 DEF LaunchGroup, NextOff, HostTyped
    <3>3. CASE Size(h) = 0 /\ CallGemms(h, n)' = CallGemms(h, n)
      BY <1>2, <3>1, <3>2, <3>3
    <3>4. ASSUME Size(h) \in Nat \ {0}, NEW x, x.rows = off[h] .. off[h] + Size(h) - 1,
                 CallGemms(h, n)' = CallGemms(h, n) \cup {x}
          PROVE  Tiles(CallGemms(h, n)', 0 .. off'[h] - 1)
      <4>1. PICK a \in Nat, z \in Nat : a = off[h] /\ z = Size(h) /\ off'[h] = a + z
        BY <3>1, <3>2, <3>4
      <4>2. PICK S : S = CallGemms(h, n)
        OBVIOUS
      <4>3. UNION {k.rows : k \in S} = 0 .. a - 1
            /\ \A k1, k2 \in S : k1 # k2 => k1.rows \cap k2.rows = {}
        BY <3>1, <4>1, <4>2 DEF Tiles
      <4>4. x.rows = a .. a + z - 1 /\ (0 .. a - 1) \cap x.rows = {}
            /\ (0 .. a - 1) \cup x.rows = 0 .. (a + z) - 1
        BY <3>4, <4>1
      <4>5. \A k \in S : k.rows \cap x.rows = {}
        BY <4>3, <4>4
      <4>6. UNION {k.rows : k \in S \cup {x}} = 0 .. (a + z) - 1
        <5>1. UNION {k.rows : k \in S \cup {x}} = (UNION {k.rows : k \in S}) \cup x.rows
          OBVIOUS
        <5> QED BY <4>3, <4>4, <5>1
      <4>7. \A k1, k2 \in S \cup {x} : k1 # k2 => k1.rows \cap k2.rows = {}
        BY <4>3, <4>5
      <4> QED BY <3>4, <4>1, <4>2, <4>6, <4>7 DEF Tiles
    <3> QED BY <1>2, <2>1, <2>3, <3>3, <3>4, LaunchPlaces
  <2>4. CASE at[h] = "gemm" /\ GroupFails(h)
    BY <1>2, <2>4 DEF GroupFails, HostTyped
  <2>5. CASE at[h] = "join"
    <3>1. JoinTurn(h)
      BY <2>5 DEF HostStep, Produce, TestEmpty, Resize, CreateStream, ForkRecord,
                  ForkWait, LaunchGroup, GroupFails, Return
    <3>2. CallGemms(h, n)' = CallGemms(h, n)
      BY <1>0, <2>5, CallGemmsKept
    <3>3. off'[h] = off[h] /\ st'[h] = st[h]
      BY <3>1 DEF JoinTurn
    <3> QED BY <1>2, <2>1, <2>5, <3>2, <3>3 DEF CallTiled
  <2>6. at[h] = "gemm" => LaunchGroup(h) \/ GroupFails(h)
    BY DEF HostStep, Produce, TestEmpty, Resize, CreateStream, ForkRecord,
           ForkWait, JoinTurn, Return
  <2> QED BY <2>1, <2>2, <2>3, <2>4, <2>5, <2>6
<1> QED BY <1>1, <1>2

(* A host step keeps what a placed reader reads tiled by the GEMMs of its call. *)
LEMMA ConsumesTiledKept ==
  ASSUME HostTyped, DeviceTyped, PoolFull, NEW h \in Callers, HostStep(h),
         Ahead, RowsCounted, CallTiled, ConsumesTiled
  PROVE  ConsumesTiled'
<1>0. HostGrows(h)
  BY HostAdds
<1> SUFFICES ASSUME NEW k \in Placed', k.does = "consume", NEW g, NEW n, g = k.of, n = k.nth
             PROVE  Tiles(CallGemms(g, n)', k.rows)
  BY DEF ConsumesTiled, Tiles, CallGemms
<1>1. CASE k \in Placed
  <2>1. Tiles(CallGemms(g, n), k.rows) /\ n > Len(todo[g]) /\ n \in Nat /\ g \in Callers
    BY <1>1 DEF ConsumesTiled, Ahead
  <2>2. Len(todo[g]) \in Nat
    BY <2>1, LenProperties DEF HostTyped
  <2>3. CallGemms(g, n)' = CallGemms(g, n)
    BY <1>0, <2>1, <2>2, CallGemmsKept
  <2> QED BY <2>1, <2>3
<1>2. CASE k \notin Placed
  <2>1. /\ at[h] = "return" /\ st[h] = "ok" /\ k = Consumed(h) /\ g = h /\ n = Len(todo[h])
    BY <1>0, <1>2, NewlyPlaced
  <2>2. k.rows = 0 .. Rows(h) - 1
    BY <2>1 DEF Consumed
  <2>3. off[h] = Rows(h) /\ Tiles(CallGemms(h, n), 0 .. off[h] - 1)
    BY <2>1 DEF RowsCounted, CallTiled
  <2>4. CallGemms(g, n)' = CallGemms(g, n)
    BY <1>0, <2>1, CallGemmsKept
  <2> QED BY <2>1, <2>2, <2>3, <2>4
<1> QED BY <1>1, <1>2

-----------------------------------------------------------------------------
TilesInv == Ahead /\ RowsCounted /\ CallTiled /\ ConsumesTiled
JoinInv(L) ==
  JoinsCounted /\ JoinsBehind(L) /\ JoinsTell(L) /\ JoinsAwaited(L) /\ ConsumesBehind(L)

(* A step that places nothing and leaves the hosts alone keeps the tiles. *)
LEMMA TilesUnchanged ==
  ASSUME TilesInv, Placed' = Placed, UNCHANGED <<at, i, off, st, todo>>
  PROVE  TilesInv'
<1>0. at' = at /\ i' = i /\ off' = off /\ st' = st /\ todo' = todo
  OBVIOUS
<1>1. \A h, n : CallGemms(h, n)' = CallGemms(h, n)
  BY DEF CallGemms
<1>2. Ahead' /\ RowsCounted'
  BY <1>0 DEF TilesInv, Ahead, RowsCounted, Groups, Rows
<1>3. CallTiled' /\ ConsumesTiled'
  BY <1>0, <1>1 DEF TilesInv, CallTiled, ConsumesTiled, Tiles
<1> QED BY <1>2, <1>3 DEF TilesInv

-----------------------------------------------------------------------------
(* The number of a GEMM's call is an integer. *)
LEMMA GemmTurns ==
  ASSUME DeviceTyped, NEW L \in [Callers -> Nat], NEW s \in Streams, NEW b \in 1 .. Len(queue[s]),
         IsGemm(queue[s][b])
  PROVE  Turn(L, queue[s][b].kernel) \in Int
<1>1. queue[s][b] \in Items
  BY ElementOfSeq DEF DeviceTyped
<1>2. queue[s][b].kernel.of \in Callers /\ queue[s][b].kernel.nth \in Nat
  BY <1>1 DEF IsGemm, Items, Kernels
<1>3. PICK l \in Nat, n \in Nat : l = L[queue[s][b].kernel.of] /\ n = queue[s][b].kernel.nth
  BY <1>2
<1>4. l + 1 - n \in Int
  OBVIOUS
<1> QED BY <1>3, <1>4 DEF Turn

(* A slot cleared of the GEMMs of a call stays cleared ... *)
LEMMA DeviceKeepsCleared ==
  ASSUME DeviceTyped, NEW s \in Streams, Dropped(s), NEW L, NEW h, NEW j \in Slots, NEW n,
         Cleared(L, h, j, n)
  PROVE  Cleared(L, h, j, n)'
<1> SUFFICES ASSUME NEW b \in 1 .. Len(queue'[Pool(j)]), IsGemm(queue'[Pool(j)][b]),
                    queue'[Pool(j)][b].kernel.of = h
             PROVE  Turn(L, queue'[Pool(j)][b].kernel) > n
  BY DEF Cleared, IsGemm, Turn, Pool
<1>1. CASE Pool(j) = s
  <2>1. queue'[s][b] = queue[s][b + 1] /\ b + 1 \in 1 .. Len(queue[s])
    BY <1>1, DroppedItems
  <2> QED BY <1>1, <2>1 DEF Cleared
<1>2. CASE Pool(j) # s
  <2>1. queue'[Pool(j)] = queue[Pool(j)]
    BY <1>2, DroppedItems, StreamFacts
  <2> QED BY <2>1 DEF Cleared
<1> QED BY <1>1, <1>2

(* ... and a wait for its join stays, or has been passed. *)
LEMMA DeviceKeepsJoined ==
  ASSUME DeviceTyped, NEW s \in Streams, Dropped(s), NEW L \in [Callers -> Nat], JoinsTell(L),
         NEW h \in Callers, NEW j \in Slots, NEW n \in Nat,
         NEW b \in 1 .. Len(queue[StreamOf(h)]) + 1, Joined(L, h, j, n, b)
  PROVE  /\ s # StreamOf(h) => Joined(L, h, j, n, b)'
         /\ s = StreamOf(h) => Joined(L, h, j, n, b - 1)'
<1>1. Cleared(L, h, j, n) => Cleared(L, h, j, n)'
  BY DeviceKeepsCleared
<1>2. CASE Cleared(L, h, j, n)
  BY <1>1, <1>2 DEF Joined
<1>3. ASSUME NEW a \in 1 .. b - 1, queue[StreamOf(h)][a] = Wait(Join(h, j), n), s # StreamOf(h)
      PROVE  Joined(L, h, j, n, b)'
  <2>1. queue'[StreamOf(h)] = queue[StreamOf(h)]
    BY <1>3, DroppedItems, StreamFacts
  <2> QED BY <1>3, <2>1 DEF Joined, Wait, Join, StreamOf
<1>4. ASSUME NEW a \in 1 .. b - 1, queue[s][a] = Wait(Join(h, j), n), s = StreamOf(h)
      PROVE  Joined(L, h, j, n, b - 1)'
  <2>1. CASE a = 1
    <3>1. /\ Head(queue[s]).type = "wait" /\ Head(queue[s]).event = Join(h, j)
          /\ Head(queue[s]).nth = n
      BY <1>4, <2>1, DroppedItems DEF Wait
    <3>2. reached[Join(h, j)] >= n /\ reached[Join(h, j)] \in Nat
      BY <3>1, StreamFacts DEF Dropped, DeviceTyped
    <3>3. Cleared(L, h, j, reached[Join(h, j)])
      BY DEF JoinsTell
    <3>4. ASSUME NEW c \in 1 .. Len(queue[Pool(j)]), IsGemm(queue[Pool(j)][c]),
                 queue[Pool(j)][c].kernel.of = h
          PROVE  Turn(L, queue[Pool(j)][c].kernel) > n
      <4>1. PICK u : u = Turn(L, queue[Pool(j)][c].kernel)
        OBVIOUS
      <4>2. u > reached[Join(h, j)]
        BY <3>3, <3>4, <4>1 DEF Cleared
      <4>3. u \in Int
        BY <3>4, <4>1, GemmTurns, StreamFacts
      <4> QED BY <3>2, <4>1, <4>2, <4>3
    <3>5. Cleared(L, h, j, n)
      BY <3>4 DEF Cleared
    <3> QED BY <1>1, <3>5 DEF Joined
  <2>2. CASE a # 1
    <3>1. PICK c \in 1 .. (b - 1) - 1 : a = c + 1
      <4>1. a - 1 \in 1 .. (b - 1) - 1 /\ a = (a - 1) + 1
        BY <2>2
      <4> QED BY <4>1
    <3>2. c \in 1 .. Len(queue'[s])
      BY <3>1, <1>4, DroppedItems
    <3>3. queue'[s][c] = Wait(Join(h, j), n)
      BY <3>2, <3>1, <1>4, DroppedItems
    <3> QED BY <3>3, <3>1, <1>4 DEF Joined, Wait, Join, StreamOf
  <2> QED BY <2>1, <2>2
<1> QED BY <1>2, <1>3, <1>4 DEF Joined

(* A step of the device keeps the joins in order. *)
LEMMA DeviceKeepsJoins ==
  ASSUME HostTyped, DeviceTyped, NEW s \in Streams, Dropped(s), UNCHANGED hostVars,
         NEW L \in [Callers -> Nat], JoinInv(L)
  PROVE  JoinInv(L)'
<1> USE DEF JoinInv
<1>0. /\ recorded' = recorded /\ at' = at /\ i' = i /\ todo' = todo
      /\ recorded \in [Events -> Nat] /\ reached \in [Events -> Nat]
  BY DEF Dropped, hostVars, DeviceTyped
<1>1. JoinsCounted'
  BY <1>0 DEF JoinsCounted, Owed, Fork, Join
<1>2. JoinsBehind(L)'
  <2> HIDE DEF JoinInv
  <2> SUFFICES ASSUME NEW h \in Callers, NEW j \in Slots, NEW t \in Streams,
                      NEW b \in 1 .. Len(queue'[t]),
                      queue'[t][b].type = "record", queue'[t][b].event = Join(h, j)
               PROVE  /\ t = Pool(j) /\ queue'[t][b].nth <= recorded[Join(h, j)]
                      /\ \A c \in b + 1 .. Len(queue'[t]) :
                           IsGemm(queue'[t][c]) /\ queue'[t][c].kernel.of = h
                             => Turn(L, queue'[t][c].kernel) > queue'[t][b].nth
    BY <1>0, SMTT(30) DEF JoinsBehind, Join, Pool, IsGemm, Turn
  <2> USE DEF JoinInv
  <2>1. CASE s # t
    <3>1. queue'[t] = queue[t]
      BY <2>1, DroppedItems
    <3> QED BY <3>1 DEF JoinsBehind
  <2>2. CASE s = t
    <3>1. queue'[t][b] = queue[t][b + 1] /\ b + 1 \in 1 .. Len(queue[t])
      BY <2>2, DroppedItems
    <3>2. /\ t = Pool(j) /\ queue[t][b + 1].nth <= recorded[Join(h, j)]
          /\ \A c \in (b + 1) + 1 .. Len(queue[t]) :
               IsGemm(queue[t][c]) /\ queue[t][c].kernel.of = h
                 => Turn(L, queue[t][c].kernel) > queue[t][b + 1].nth
      BY <3>1 DEF JoinsBehind
    <3>3. ASSUME NEW c \in b + 1 .. Len(queue'[t])
          PROVE  queue'[t][c] = queue[t][c + 1] /\ c + 1 \in (b + 1) + 1 .. Len(queue[t])
      BY <2>2, <3>3, DroppedItems, SMTT(30)
    <3> QED BY <3>1, <3>2, <3>3
  <2> QED BY <2>1, <2>2
<1>3. JoinsTell(L)'
  <2> SUFFICES ASSUME NEW h \in Callers, NEW j \in Slots, NEW n, n = reached'[Join(h, j)]
               PROVE  n <= recorded[Join(h, j)] /\ Cleared(L, h, j, n)'
    BY <1>0 DEF JoinsTell, Join, Cleared, IsGemm, Turn, Pool
  <2>1. CASE n = reached[Join(h, j)]
    BY <2>1, DeviceKeepsCleared DEF JoinsTell
  <2>2. CASE n # reached[Join(h, j)]
    <3>1. /\ queue[s][1].type = "record" /\ queue[s][1].event = Join(h, j) /\ n = queue[s][1].nth
      BY <2>2, <1>0, DroppedItems, StreamFacts DEF Dropped
    <3>2. 1 \in 1 .. Len(queue[s])
      BY DroppedItems
    <3>3. /\ s = Pool(j) /\ n <= recorded[Join(h, j)]
          /\ \A c \in 1 + 1 .. Len(queue[s]) :
               IsGemm(queue[s][c]) /\ queue[s][c].kernel.of = h => Turn(L, queue[s][c].kernel) > n
      BY <3>1, <3>2 DEF JoinsBehind
    <3>4. ASSUME NEW c \in 1 .. Len(queue'[s])
          PROVE  queue'[s][c] = queue[s][c + 1] /\ c + 1 \in 1 + 1 .. Len(queue[s])
      BY DroppedItems
    <3> QED BY <3>3, <3>4, ZenonT(40) DEF Cleared, Pool, IsGemm, Turn
  <2> QED BY <2>1, <2>2
<1>4. JoinsAwaited(L)'
  <2> SUFFICES ASSUME NEW h \in Callers, NEW j \in Slots,
                      at[h] = "return" \/ (at[h] = "join" /\ j < i[h]),
                      NEW n, n = recorded[Fork(h)], NEW m, m = Len(queue'[StreamOf(h)]) + 1
               PROVE  Joined(L, h, j, n, m)'
    BY <1>0 DEF JoinsAwaited, StreamOf, Fork
  <2>1. StreamOf(h) \in Streams /\ n \in Nat
    BY <1>0, StreamFacts
  <2>2. PICK l \in Nat : l = Len(queue[StreamOf(h)])
    BY <2>1, LenProperties DEF DeviceTyped
  <2>3. Joined(L, h, j, n, l + 1) /\ l + 1 \in 1 .. Len(queue[StreamOf(h)]) + 1
    BY <2>2 DEF JoinsAwaited
  <2>4. CASE s = StreamOf(h)
    <3>1. m = (l + 1) - 1
      BY <2>2, <2>4, DroppedItems
    <3> QED BY <2>1, <2>3, <2>4, <3>1, DeviceKeepsJoined
  <2>5. CASE s # StreamOf(h)
    <3>1. m = l + 1
      BY <2>1, <2>2, <2>5, DroppedItems
    <3> QED BY <2>1, <2>3, <2>5, <3>1, DeviceKeepsJoined
  <2> QED BY <2>4, <2>5
<1>5. ConsumesBehind(L)'
  <2> SUFFICES ASSUME NEW t \in Streams, NEW b \in 1 .. Len(queue'[t]), IsConsume(queue'[t][b]),
                      NEW k, k = queue'[t][b].kernel, NEW n, n = Turn(L, k), NEW h, h = k.of
               PROVE  /\ h \in Callers /\ k.nth \in 1 .. L[h] /\ t = StreamOf(h)
                      /\ \A j \in Slots : Joined(L, h, j, n, b)'
    BY DEF ConsumesBehind, IsConsume, StreamOf, Turn
  <2>0. h \in Callers /\ k.nth \in 1 .. L[h] => n \in Nat
    <3>1. SUFFICES ASSUME h \in Callers, k.nth \in 1 .. L[h] PROVE n \in Nat
      OBVIOUS
    <3>2. n = L[h] + 1 - k.nth
      BY Zenon DEF Turn
    <3>3. PICK l \in Nat : l = L[h]
      BY <3>1
    <3>4. PICK m \in 1 .. l : m = k.nth
      BY <3>1, <3>3, Zenon
    <3>5. l + 1 - m \in Nat
      OBVIOUS
    <3> QED BY <3>2, <3>3, <3>4, <3>5, Zenon
  <2>1. CASE s # t
    <3>1. queue'[t] = queue[t]
      BY <2>1, DroppedItems
    <3>2. /\ h \in Callers /\ k.nth \in 1 .. L[h] /\ t = StreamOf(h)
          /\ \A j \in Slots : Joined(L, h, j, n, b)
      BY <3>1 DEF ConsumesBehind, IsConsume
    <3>3. b \in 1 .. Len(queue[t]) + 1
      BY <3>1, LenProperties DEF DeviceTyped
    <3> QED BY <2>0, <2>1, <3>1, <3>2, <3>3, DeviceKeepsJoined
  <2>2. CASE s = t
    <3>1. queue'[t][b] = queue[t][b + 1] /\ b + 1 \in 1 .. Len(queue[t])
      BY <2>2, DroppedItems
    <3>2. PICK c \in 1 .. Len(queue[t]) + 1 : c = b + 1 /\ c - 1 = b
      BY <3>1, LenProperties DEF DeviceTyped
    <3>3. /\ h \in Callers /\ k.nth \in 1 .. L[h] /\ t = StreamOf(h)
          /\ \A j \in Slots : Joined(L, h, j, n, c)
      BY <3>1, <3>2 DEF ConsumesBehind, IsConsume
    <3>4. \A j \in Slots : Joined(L, h, j, n, c - 1)'
      BY <2>0, <2>2, <3>2, <3>3, DeviceKeepsJoined
    <3>5. PICK d : d = c - 1
      OBVIOUS
    <3> QED BY <3>2, <3>3, <3>4, <3>5
  <2> QED BY <2>1, <2>2
<1> QED BY <1>1, <1>2, <1>3, <1>4, <1>5

-----------------------------------------------------------------------------
(* Each turn of the join loop records the event of its slot. *)
LEMMA JoinMoves ==
  ASSUME HostTyped, DeviceTyped, PoolFull, NEW h \in Callers, HostStep(h)
  PROVE  /\ \A g \in Callers, j \in Slots : ~(g = h /\ at[h] = "join" /\ j = i[h])
              => recorded'[Join(g, j)] = recorded[Join(g, j)]
         /\ at[h] = "join" =>
              /\ i[h] \in Slots /\ JoinTurn(h)
              /\ recorded'[Join(h, i[h])] = recorded[Join(h, i[h])] + 1
              /\ \/ at'[h] = "join" /\ i'[h] = i[h] + 1
                 \/ at'[h] = "return" /\ \A j \in Slots : j < i[h] \/ j = i[h]
         /\ at[h] # "join" /\ at'[h] = "join" => i'[h] = 0
<1>0. /\ recorded \in [Events -> Nat]
      /\ \A g \in Callers, j \in Slots : Join(g, j) \in Events
      /\ at \in [Callers -> Statements] /\ i \in [Callers -> Nat]
  BY StreamFacts DEF DeviceTyped, HostTyped
<1>1. CASE Produce(h) \/ TestEmpty(h) \/ Resize(h) \/ CreateStream(h)
  <2>1. recorded' = recorded /\ at[h] # "join"
    BY <1>1 DEF Produce, TestEmpty, Resize, CreateStream, Launch, cudaVars
  <2>2. at'[h] # "join"
    BY <1>0, <1>1 DEF Produce, TestEmpty, Resize, CreateStream, Goto, Loop
  <2> QED BY <2>1, <2>2
<1>2. CASE ForkRecord(h)
  BY <1>0, <1>2, StreamFacts DEF ForkRecord, EventRecord, Goto
<1>3. CASE ForkWait(h)
  BY <1>0, <1>3 DEF ForkWait, StreamWaitEvent, Goto, Loop
<1>4. CASE LaunchGroup(h) \/ GroupFails(h)
  <2>1. recorded' = recorded /\ at[h] = "gemm" /\ Loop(h, Len(Groups(h)), "join")
    BY <1>4 DEF LaunchGroup, GroupFails, Launch, cudaVars
  <2> QED BY <1>0, <2>1 DEF Goto, Loop
<1>5. CASE JoinTurn(h)
  <2>1. /\ at[h] = "join" /\ i[h] \in Slots
        /\ recorded' = [recorded EXCEPT ![Join(h, i[h])] = @ + 1]
        /\ Loop(h, NS, "return")
    BY <1>5 DEF JoinTurn, RecordThenWait, HostTyped, JoinedSlots
  <2>2. \A g \in Callers, j \in Slots : Join(g, j) = Join(h, i[h]) => g = h /\ j = i[h]
    BY DEF Join
  <2>3. \/ at'[h] = "join" /\ i'[h] = i[h] + 1
        \/ at'[h] = "return" /\ \A j \in Slots : j < i[h] \/ j = i[h]
    BY <1>0, <2>1, SlotsFacts DEF Goto, Loop
  <2> QED BY <1>0, <1>5, <2>1, <2>2, <2>3
<1>6. CASE Return(h)
  <2>1. recorded' = recorded /\ at[h] = "return" /\ at'[h] \in {"produce", "end"}
    BY <1>0, <1>6 DEF Return, Launch, cudaVars, Goto
  <2> QED BY <2>1
<1> QED BY <1>1, <1>2, <1>3, <1>4, <1>5, <1>6 DEF HostStep

(* A host step keeps a slot's joins level with the forks, but for the one still owed. *)
LEMMA JoinsCountedKept ==
  ASSUME HostTyped, DeviceTyped, PoolFull, NEW h \in Callers, HostStep(h), JoinsCounted
  PROVE  JoinsCounted'
<1> SUFFICES ASSUME NEW g \in Callers, NEW j \in Slots
             PROVE  recorded'[Join(g, j)] + Owed(g, j)' = recorded'[Fork(g)]
  BY DEF JoinsCounted, Join, Fork
<1>0. /\ recorded[Join(g, j)] + Owed(g, j) = recorded[Fork(g)]
      /\ recorded[Join(g, j)] \in Nat /\ recorded[Fork(g)] \in Nat /\ j \in Nat /\ i[g] \in Nat
  BY StreamFacts, SlotsFacts DEF JoinsCounted, DeviceTyped, HostTyped
<1>1. CASE g # h
  BY <1>0, <1>1, OthersKeep, HostMoves, JoinMoves DEF Owed
<1>2. CASE g = h /\ at[h] = "join"
  <2>1. CASE j = i[h]
    <3>1. Owed(h, j)' = 0
      BY <1>0, <1>2, <2>1, JoinMoves DEF Owed
    <3>2. Owed(h, j) = 1
      BY <1>0, <1>2, <2>1 DEF Owed
    <3> QED BY <1>0, <1>2, <2>1, <3>1, <3>2, HostMoves, JoinMoves
  <2>2. CASE j # i[h]
    <3>1. Owed(h, j)' = Owed(h, j)
      BY <1>0, <1>2, <2>2, JoinMoves, SlotsFacts DEF Owed
    <3> QED BY <1>0, <1>2, <2>2, <3>1, HostMoves, JoinMoves
  <2> QED BY <2>1, <2>2
<1>3. CASE g = h /\ at[h] = "fork"
  <2>1. Owed(h, j) = 0 /\ Owed(h, j)' = 1
    BY <1>3, HostMoves DEF Owed
  <2> QED BY <1>0, <1>3, <2>1, HostMoves, JoinMoves
<1>4. CASE g = h /\ at[h] \notin {"join", "fork"}
  <2>1. Owed(h, j)' = Owed(h, j)
    BY <1>0, <1>4, HostMoves, JoinMoves DEF Owed
  <2> QED BY <1>0, <1>4, <2>1, HostMoves, JoinMoves
<1> QED BY <1>1, <1>2, <1>3, <1>4

(* A GEMM the host adds is of a later turn than the joins so far. *)
LEMMA GemmsLater ==
  ASSUME HostTyped, DeviceTyped, PoolFull, NEW h \in Callers, HostStep(h),
         NEW L \in [Callers -> Nat], CallsCounted(L), JoinsCounted,
         NEW g \in Callers, NEW j \in Slots, NEW t \in Streams, NEW b \in 1 .. Len(queue'[t]),
         b \notin 1 .. Len(queue[t]), IsGemm(queue'[t][b]), queue'[t][b].kernel.of = g
  PROVE  Turn(L, queue'[t][b].kernel) = recorded[Join(g, j)] + 1
<1>0. HostGrows(h)
  BY HostAdds
<1>1. b \in Nat /\ NewIn(t, b)
  BY <1>0 DEF HostGrows, Grown, NewIn
<1>2. PICK k : k = queue'[t][b].kernel
  OBVIOUS
<1>3. at[h] = "gemm" /\ \E c : k = Gemm(h, i[h], c, off[h], off[h] + Size(h))
  BY <1>0, <1>1, <1>2, ItemKinds DEF HostGrows
<1>4. at[h] = "gemm" /\ g = h /\ k.of = h /\ k.nth = Len(todo[h])
  BY <1>2, <1>3 DEF Gemm
<1>5. PICK n \in Nat, c \in Nat, l \in Nat, r \in Nat :
        n = Len(todo[h]) /\ c = recorded[Fork(h)] /\ l = L[h] /\ r = recorded[Join(h, j)]
  BY StreamFacts, LenProperties DEF HostTyped, DeviceTyped
<1>6. c + n = l + 1 /\ r + 1 = c
  BY <1>4, <1>5 DEF CallsCounted, JoinsCounted, Posted, Owed
<1>7. Turn(L, k) = l + 1 - n
  BY <1>4, <1>5 DEF Turn
<1> QED BY <1>2, <1>4, <1>5, <1>6, <1>7, SMTT(30)

(* A host step puts no GEMM of a past call on a stream ... *)
LEMMA HostKeepsCleared ==
  ASSUME HostTyped, DeviceTyped, PoolFull, NEW h \in Callers, HostStep(h),
         NEW L \in [Callers -> Nat], CallsCounted(L), JoinsCounted,
         NEW g \in Callers, NEW j \in Slots, NEW n \in Nat, n <= recorded[Join(g, j)],
         Cleared(L, g, j, n)
  PROVE  Cleared(L, g, j, n)'
<1> SUFFICES ASSUME NEW t, t = Pool(j), NEW b \in 1 .. Len(queue'[t]), IsGemm(queue'[t][b]),
                    queue'[t][b].kernel.of = g
             PROVE  Turn(L, queue'[t][b].kernel) > n
  BY DEF Cleared, IsGemm, Turn, Pool
<1>0. HostGrows(h) /\ t \in Streams
  BY HostAdds, StreamFacts
<1>1. CASE b \in 1 .. Len(queue[t])
  <2>1. queue'[t][b] = queue[t][b]
    BY <1>0, <1>1 DEF HostGrows, Grown
  <2> QED BY <1>1, <2>1 DEF Cleared
<1>2. CASE b \notin 1 .. Len(queue[t])
  <2>1. Turn(L, queue'[t][b].kernel) = recorded[Join(g, j)] + 1
    BY <1>0, <1>2, GemmsLater
  <2>2. recorded[Join(g, j)] \in Nat
    BY StreamFacts DEF DeviceTyped
  <2> QED BY <2>1, <2>2
<1> QED BY <1>1, <1>2

(* ... and takes no wait away. *)
LEMMA HostKeepsJoined ==
  ASSUME HostTyped, DeviceTyped, PoolFull, NEW h \in Callers, HostStep(h),
         NEW L \in [Callers -> Nat], CallsCounted(L), JoinsCounted,
         NEW g \in Callers, NEW j \in Slots, NEW n \in Nat, n <= recorded[Join(g, j)],
         NEW b \in 1 .. Len(queue[StreamOf(g)]) + 1, NEW c \in Nat, b <= c,
         Joined(L, g, j, n, b)
  PROVE  Joined(L, g, j, n, c)'
<1>1. CASE Cleared(L, g, j, n)
  BY <1>1, HostKeepsCleared DEF Joined
<1>2. ASSUME NEW a \in 1 .. b - 1, queue[StreamOf(g)][a] = Wait(Join(g, j), n)
      PROVE  Joined(L, g, j, n, c)'
  <2>1. Len(queue[StreamOf(g)]) \in Nat
        /\ \A d \in 1 .. Len(queue[StreamOf(g)]) : queue'[StreamOf(g)][d] = queue[StreamOf(g)][d]
    BY HostAdds, StreamFacts DEF HostGrows, Grown
  <2>2. a \in 1 .. c - 1 /\ a \in 1 .. Len(queue[StreamOf(g)])
    BY <2>1
  <2> QED BY <1>2, <2>1, <2>2 DEF Joined, Wait, Join, StreamOf
<1> QED BY <1>1, <1>2 DEF Joined

(* A host step keeps the joins in order. *)
LEMMA HostKeepsJoins ==
  ASSUME HostTyped, DeviceTyped, PoolFull, NEW h \in Callers, HostStep(h),
         NEW L \in [Callers -> Nat], CallsCounted(L), Ahead, JoinInv(L)
  PROVE  JoinInv(L)'
<1> USE DEF JoinInv
<1>0. /\ HostGrows(h) /\ Grown /\ reached' = reached /\ finished' = finished
      /\ \A g \in Callers, j \in Slots :
           /\ recorded[Join(g, j)] \in Nat /\ reached[Join(g, j)] \in Nat
           /\ recorded'[Join(g, j)] \in Nat /\ recorded[Join(g, j)] <= recorded'[Join(g, j)]
  <2>1. HostGrows(h)
    BY HostAdds
  <2>2. ASSUME NEW g \in Callers, NEW j \in Slots
        PROVE  /\ recorded[Join(g, j)] \in Nat /\ reached[Join(g, j)] \in Nat
               /\ recorded'[Join(g, j)] \in Nat /\ recorded[Join(g, j)] <= recorded'[Join(g, j)]
    <3>1. recorded[Join(g, j)] \in Nat /\ reached[Join(g, j)] \in Nat
      BY StreamFacts DEF DeviceTyped
    <3>2. \/ recorded'[Join(g, j)] = recorded[Join(g, j)]
          \/ recorded'[Join(g, j)] = recorded[Join(g, j)] + 1
      BY JoinMoves
    <3> QED BY <3>1, <3>2
  <2> QED BY <2>1, <2>2 DEF HostGrows, Untouched
<1>1. JoinsCounted'
  BY JoinsCountedKept
<1>2. JoinsBehind(L)'
  <2> HIDE DEF JoinInv
  <2> SUFFICES ASSUME NEW g \in Callers, NEW j \in Slots, NEW t \in Streams,
                      NEW b \in 1 .. Len(queue'[t]),
                      queue'[t][b].type = "record", queue'[t][b].event = Join(g, j)
               PROVE  /\ t = Pool(j) /\ queue'[t][b].nth <= recorded'[Join(g, j)]
                      /\ \A c \in b + 1 .. Len(queue'[t]) :
                           IsGemm(queue'[t][c]) /\ queue'[t][c].kernel.of = g
                             => Turn(L, queue'[t][c].kernel) > queue'[t][b].nth
    BY SMTT(30) DEF JoinsBehind, Join, Pool, IsGemm, Turn
  <2> USE DEF JoinInv
  <2>0. Len(queue[t]) \in Nat /\ Len(queue'[t]) \in {Len(queue[t]), Len(queue[t]) + 1}
        /\ \A d \in 1 .. Len(queue[t]) : queue'[t][d] = queue[t][d]
    BY <1>0 DEF Grown
  <2>1. CASE b \in 1 .. Len(queue[t])
    <3>1. PICK r : r = queue[t][b].nth /\ r = queue'[t][b].nth
      BY <2>0, <2>1
    <3>2. /\ t = Pool(j) /\ r <= recorded[Join(g, j)]
          /\ \A c \in b + 1 .. Len(queue[t]) :
               IsGemm(queue[t][c]) /\ queue[t][c].kernel.of = g
                 => Turn(L, queue[t][c].kernel) > r
      BY <2>0, <2>1, <3>1 DEF JoinsBehind
    <3>3. r \in Nat
      <4>1. queue[t][b] \in Items
        BY <2>1, ElementOfSeq DEF DeviceTyped
      <4> QED BY <2>0, <2>1, <3>1, <4>1 DEF Items
    <3>4. ASSUME NEW c \in b + 1 .. Len(queue'[t]), IsGemm(queue'[t][c]),
                 queue'[t][c].kernel.of = g
          PROVE  Turn(L, queue'[t][c].kernel) > r
      <4>1. CASE c \in 1 .. Len(queue[t])
        <5>1. c \in b + 1 .. Len(queue[t]) /\ queue'[t][c] = queue[t][c]
          BY <2>0, <2>1, <3>4, <4>1
        <5> QED BY <3>2, <3>4, <5>1
      <4>2. CASE c \notin 1 .. Len(queue[t])
        <5>1. c \in 1 .. Len(queue'[t])
          BY <2>0, <2>1, <3>4
        <5>2. Turn(L, queue'[t][c].kernel) = recorded[Join(g, j)] + 1
          BY <3>4, <4>2, <5>1, GemmsLater
        <5> QED BY <1>0, <3>2, <3>3, <5>2
      <4> QED BY <4>1, <4>2
    <3>5. r <= recorded'[Join(g, j)]
      BY <1>0, <3>2, <3>3
    <3> QED BY <3>1, <3>2, <3>4, <3>5
  <2>2. CASE b \notin 1 .. Len(queue[t])
    <3>1. b \in Nat /\ NewIn(t, b)
      BY <2>0, <2>2 DEF NewIn
    <3>2. b = Len(queue[t]) + 1 /\ HostItem(h, t, queue'[t][b])
      BY <1>0, <3>1 DEF HostGrows
    <3>3. /\ g = h /\ at[h] = "join" /\ j = i[h] /\ t = Pool(j)
          /\ queue'[t][b].nth = recorded[Join(g, j)] + 1
      BY <3>2, ItemKinds
    <3>4. recorded'[Join(g, j)] = recorded[Join(g, j)] + 1
      BY <3>3, JoinMoves
    <3>5. b + 1 .. Len(queue'[t]) = {}
      BY <2>0, <3>2
    <3> QED BY <1>0, <3>3, <3>4, <3>5
  <2> QED BY <2>1, <2>2
<1>3. JoinsTell(L)'
  <2> SUFFICES ASSUME NEW g \in Callers, NEW j \in Slots, NEW n, n = reached[Join(g, j)]
               PROVE  n <= recorded'[Join(g, j)] /\ Cleared(L, g, j, n)'
    BY <1>0 DEF JoinsTell, Join
  <2>1. n \in Nat /\ n <= recorded[Join(g, j)] /\ Cleared(L, g, j, n)
    BY <1>0 DEF JoinsTell
  <2> QED BY <1>0, <2>1, HostKeepsCleared
<1>4. JoinsAwaited(L)'
  <2> SUFFICES ASSUME NEW g \in Callers, NEW j \in Slots,
                      at'[g] = "return" \/ (at'[g] = "join" /\ j < i'[g]),
                      NEW n, n = recorded'[Fork(g)], NEW m, m = Len(queue'[StreamOf(g)]) + 1
               PROVE  Joined(L, g, j, n, m)'
    BY DEF JoinsAwaited, StreamOf, Fork
  <2>1. PICK l \in Nat : l = Len(queue[StreamOf(g)]) /\ l + 1 <= m /\ m \in Nat
    BY <1>0, StreamFacts DEF Grown
  <2>2. n = recorded[Fork(g)] /\ n \in Nat
    <3>1. recorded[Fork(g)] \in Nat
      BY StreamFacts DEF DeviceTyped
    <3>2. g # h \/ at[h] # "fork"
      BY HostMoves
    <3>3. recorded'[Fork(g)] = recorded[Fork(g)]
      BY <3>1, <3>2, HostMoves
    <3> QED BY <3>1, <3>3
  <2>3. i[g] \in Nat /\ i'[g] \in Nat /\ j \in Nat /\ (at[g] = "join" => i[g] \in Slots)
    BY HostTypes, SlotsFacts DEF HostTyped
  <2>4. CASE at[g] = "return" \/ (at[g] = "join" /\ j < i[g])
    <3>1. Joined(L, g, j, n, l + 1)
      BY <2>1, <2>2, <2>4 DEF JoinsAwaited
    <3>2. Owed(g, j) = 0
      BY <2>3, <2>4 DEF Owed
    <3>3. n <= recorded[Join(g, j)]
      BY <1>0, <2>2, <3>2 DEF JoinsCounted
    <3>4. l + 1 \in 1 .. Len(queue[StreamOf(g)]) + 1
      BY <2>1
    <3> QED BY <2>1, <2>2, <3>1, <3>3, <3>4, HostKeepsJoined
  <2>5. CASE ~(at[g] = "return" \/ (at[g] = "join" /\ j < i[g]))
    <3>1. g = h
      BY <2>5, OthersKeep
    <3>2. at[h] = "join"
      BY <2>3, <2>5, <3>1, HostMoves, JoinMoves
    <3>3. j = i[h] /\ JoinTurn(h)
      BY <2>3, <2>5, <3>1, <3>2, JoinMoves
    <3>4. n = recorded[Join(h, j)] + 1
      BY <1>0, <2>2, <2>3, <3>1, <3>2, <3>3 DEF JoinsCounted, Owed
    <3>5. queue'[StreamOf(h)] = Append(queue[StreamOf(h)], Wait(Join(h, j), n))
      <4>1. PICK s \in Streams, t \in Streams : s = Slot(j) /\ t = StreamOf(h) /\ s # t
        BY <3>2, SlotIsPool, StreamFacts DEF Past
      <4>2. PICK x, y : x = Record(Join(h, j), n) /\ y = Wait(Join(h, j), n)
        OBVIOUS
      <4>3. queue' = [queue EXCEPT ![s] = Append(@, x), ![t] = Append(@, y)]
        BY <3>3, <3>4, <4>1, <4>2 DEF JoinTurn, RecordThenWait
      <4> QED BY <4>1, <4>2, <4>3 DEF DeviceTyped
    <3>6. m = l + 2 /\ queue'[StreamOf(h)][l + 1] = Wait(Join(h, j), n)
      <4>1. Wait(Join(h, j), n) \in Items /\ queue[StreamOf(h)] \in Seq(Items)
        BY <2>2, ItemTypes, StreamFacts DEF DeviceTyped
      <4> QED BY <2>1, <3>1, <3>5, <4>1, Appended
    <3>7. l + 1 \in 1 .. m - 1
      BY <3>6
    <3> QED BY <3>1, <3>6, <3>7 DEF Joined, Wait, Join, StreamOf
  <2> QED BY <2>4, <2>5
<1>5. ConsumesBehind(L)'
  <2> SUFFICES ASSUME NEW t \in Streams, NEW b \in 1 .. Len(queue'[t]), IsConsume(queue'[t][b]),
                      NEW k, k = queue'[t][b].kernel, NEW n, n = Turn(L, k), NEW g, g = k.of
               PROVE  /\ g \in Callers /\ k.nth \in 1 .. L[g] /\ t = StreamOf(g)
                      /\ \A j \in Slots : Joined(L, g, j, n, b)'
    BY DEF ConsumesBehind, IsConsume, StreamOf, Turn
  <2>0. Len(queue[t]) \in Nat
        /\ \A d \in 1 .. Len(queue[t]) : queue'[t][d] = queue[t][d]
    BY <1>0 DEF Grown
  <2>1. CASE b \in 1 .. Len(queue[t])
    <3>1. k = queue[t][b].kernel /\ IsConsume(queue[t][b])
      BY <2>0, <2>1
    <3>2. /\ g \in Callers /\ k.nth \in 1 .. L[g] /\ t = StreamOf(g)
          /\ \A j \in Slots : Joined(L, g, j, n, b)
      BY <2>1, <3>1 DEF ConsumesBehind
    <3>3. k.nth > Len(todo[g])
      <4>1. k \in Placed
        BY <2>1, <3>1, PlacedIs DEF IsConsume
      <4> QED BY <3>1, <4>1 DEF Ahead, IsConsume
    <3>4. ASSUME NEW j \in Slots PROVE Joined(L, g, j, n, b)'
      <4>1. PICK c \in Nat, d \in Nat, e \in Nat, l \in Nat :
              c = recorded[Fork(g)] /\ d = Len(todo[g]) /\ l = L[g] /\ e = recorded[Join(g, j)]
        BY <1>0, <3>2, StreamFacts, LenProperties DEF DeviceTyped, HostTyped
      <4>2. c + d = l + Posted(g) /\ e + Owed(g, j) = c
        BY <3>2, <4>1 DEF CallsCounted, JoinsCounted
      <4>3. Owed(g, j) \in {0, 1} /\ Posted(g) \in {0, 1} /\ Owed(g, j) <= Posted(g)
        BY SMTT(30) DEF Owed, Posted
      <4>4. PICK z \in 1 .. l : z = k.nth /\ n = l + 1 - z /\ z > d
        BY <3>2, <3>3, <4>1 DEF Turn
      <4>5. n \in Nat /\ n <= e
        <5>1. PICK p \in Nat, o \in Nat : p = Posted(g) /\ o = Owed(g, j)
          BY <4>3
        <5>2. c + d = l + p /\ e + o = c /\ o <= p
          BY <4>2, <4>3, <5>1
        <5>3. l + 1 - z \in Nat /\ l + 1 - z <= e
          <6>1. l - d <= e
            BY <5>2
          <6>2. z \in 1 .. l /\ z > d
            BY <4>4
          <6>3. l + 1 - z \in Nat /\ l + 1 - z <= l - d
            BY <6>2
          <6> QED BY <6>1, <6>3
        <5> QED BY <4>4, <5>3
      <4>6. b \in 1 .. Len(queue[StreamOf(g)]) + 1 /\ b \in Nat /\ b <= b
        <5>1. b \in 1 .. Len(queue[t]) + 1 /\ b \in Nat /\ b <= b
          BY <2>0, <2>1
        <5> QED BY <3>2, <5>1
      <4> QED BY <3>2, <4>1, <4>5, <4>6, HostKeepsJoined
    <3> QED BY <3>2, <3>4
  <2>2. CASE b \notin 1 .. Len(queue[t])
    <3>1. b \in Nat /\ NewIn(t, b)
      BY <1>0, <2>2 DEF NewIn, Grown
    <3>2. b = Len(queue[t]) + 1 /\ HostItem(h, t, queue'[t][b])
      BY <1>0, <3>1 DEF HostGrows
    <3>3. at[h] = "return" /\ t = StreamOf(h) /\ k = Consumed(h)
      BY <3>2, ItemKinds
    <3>4. g = h /\ k.nth = Len(todo[h])
      BY <3>3 DEF Consumed
    <3>5. PICK c \in Nat, d \in Nat, l \in Nat :
            c = recorded[Fork(h)] /\ d = Len(todo[h]) /\ l = L[h]
      BY StreamFacts, LenProperties DEF DeviceTyped, HostTyped
    <3>6. c + d = l + 1 /\ d <= l /\ d # 0
      <4>1. todo[h] # <<>> /\ todo[h] \in Seq(Seq(Nat))
        BY <3>3 DEF HostTyped
      <4> QED BY <3>3, <3>5, <4>1, EmptySeq DEF CallsCounted, Posted
    <3>7. n = recorded[Fork(h)] /\ k.nth \in 1 .. L[h]
      BY <3>4, <3>5, <3>6, SMTT(30) DEF Turn
    <3>8. ASSUME NEW j \in Slots PROVE Joined(L, g, j, n, b)'
      <4>1. Joined(L, h, j, n, b)
        BY <3>2, <3>3, <3>7 DEF JoinsAwaited
      <4>2. n <= recorded[Join(h, j)] /\ n \in Nat
        BY <1>0, <3>3, <3>5, <3>7, SMTT(30) DEF JoinsCounted, Owed
      <4>3. b \in 1 .. Len(queue[StreamOf(h)]) + 1 /\ b \in Nat /\ b <= b
        BY <2>0, <3>1, <3>2, <3>3
      <4> QED BY <1>0, <3>4, <4>1, <4>2, <4>3, HostKeepsJoined
    <3> QED BY <3>3, <3>4, <3>7, <3>8
  <2> QED BY <2>1, <2>2
<1> QED BY <1>1, <1>2, <1>3, <1>4, <1>5

-----------------------------------------------------------------------------
OrderInv == InputsInPlace /\ ConsumesFirst

(* The kernel after a call stays ahead of the writers of later inputs, on the device ... *)
LEMMA DeviceKeepsOrder ==
  ASSUME DeviceTyped, NEW s \in Streams, Dropped(s), OrderInv, NEW L, ConsumesBehind(L)
  PROVE  OrderInv'
<1> USE DEF OrderInv
<1>1. InputsInPlace'
  <2> SUFFICES ASSUME NEW t \in Streams, NEW b \in 1 .. Len(queue'[t]), IsProduce(queue'[t][b])
               PROVE  t = StreamOf(queue'[t][b].kernel.of)
    BY DEF InputsInPlace, IsProduce, StreamOf
  <2>1. \E c \in 1 .. Len(queue[t]) : queue'[t][b] = queue[t][c]
    <3>1. CASE s = t
      BY <3>1, DroppedItems
    <3>2. CASE s # t
      BY <3>2, DroppedItems
    <3> QED BY <3>1, <3>2
  <2> QED BY <2>1 DEF InputsInPlace
<1>2. ConsumesFirst'
  <2> SUFFICES ASSUME NEW t \in Streams, NEW b \in 1 .. Len(queue'[t]), IsConsume(queue'[t][b]),
                      NEW k, k = queue'[t][b].kernel, NEW n \in 0 .. k.nth - 1
               PROVE  Unwritten(k.of, n, b)'
    BY DEF ConsumesFirst, IsConsume
  <2> SUFFICES ASSUME NEW y, y = InputOf(k.of, n), NEW u, u = StreamOf(k.of)
               PROVE  /\ y \notin finished'
                      /\ \A a \in 1 .. b - 1 : IsProduce(queue'[u][a]) => queue'[u][a].kernel # y
    BY DEF Unwritten, IsProduce, InputOf, StreamOf
  <2>1. y.does = "produce" /\ y.of = k.of
    BY DEF InputOf
  <2>2. CASE s # t
    <3>1. queue'[t] = queue[t]
      BY <2>2, DroppedItems
    <3>2. /\ t = u /\ y \notin finished
          /\ \A a \in 1 .. b - 1 : IsProduce(queue[u][a]) => queue[u][a].kernel # y
      <4>1. b \in 1 .. Len(queue[t]) /\ IsConsume(queue[t][b]) /\ k = queue[t][b].kernel
        BY <3>1
      <4>2. Unwritten(k.of, n, b)
        BY <4>1 DEF ConsumesFirst
      <4>3. t = StreamOf(k.of)
        BY <4>1 DEF ConsumesBehind
      <4> QED BY <4>2, <4>3 DEF Unwritten
    <3>3. y \notin finished'
      <4>1. ASSUME IsProduce(Head(queue[s])), Head(queue[s]).kernel = y PROVE FALSE
        <5>1. 1 \in 1 .. Len(queue[s]) /\ queue[s][1] = Head(queue[s])
          BY DroppedItems
        <5>2. s = StreamOf(y.of)
          BY <4>1, <5>1 DEF InputsInPlace
        <5> QED BY <2>1, <2>2, <3>2, <5>2
      <4> QED BY <2>1, <3>2, <4>1 DEF Dropped, IsProduce
    <3> QED BY <3>1, <3>2, <3>3
  <2>3. CASE s = t
    <3>1. queue'[t][b] = queue[t][b + 1] /\ b + 1 \in 1 .. Len(queue[t]) /\ b \in Nat \ {0}
      BY <2>3, DroppedItems
    <3>2. /\ t = u /\ y \notin finished
          /\ \A a \in 1 .. (b + 1) - 1 : IsProduce(queue[u][a]) => queue[u][a].kernel # y
      <4>1. IsConsume(queue[t][b + 1]) /\ k = queue[t][b + 1].kernel
        BY <3>1
      <4>2. Unwritten(k.of, n, b + 1)
        BY <3>1, <4>1 DEF ConsumesFirst
      <4>3. t = StreamOf(k.of)
        BY <3>1, <4>1 DEF ConsumesBehind
      <4> QED BY <4>2, <4>3 DEF Unwritten
    <3>3. y \notin finished'
      <4>0. 1 \in 1 .. (b + 1) - 1
        BY <3>1
      <4>1. ~(IsProduce(queue[t][1]) /\ queue[t][1].kernel = y)
        BY <3>2, <4>0
      <4> QED BY <2>1, <2>3, <3>2, <4>1, DroppedItems DEF Dropped, IsProduce
    <3>4. ASSUME NEW a \in 1 .. b - 1, IsProduce(queue'[u][a]) PROVE queue'[u][a].kernel # y
      <4>1. a \in 1 .. Len(queue'[t]) /\ a + 1 \in 1 .. (b + 1) - 1
        BY <3>1, <2>3, DroppedItems
      <4>2. queue'[t][a] = queue[t][a + 1]
        BY <2>3, <4>1, DroppedItems
      <4> QED BY <3>2, <3>4, <4>1, <4>2
    <3> QED BY <3>3, <3>4
  <2> QED BY <2>2, <2>3
<1> QED BY <1>1, <1>2

(* ... and when the host adds to the queues. *)
LEMMA HostKeepsOrder ==
  ASSUME HostTyped, DeviceTyped, PoolFull, NEW h \in Callers, HostStep(h),
         Ahead, OrderInv, NEW L, ConsumesBehind(L)
  PROVE  OrderInv'
<1> USE DEF OrderInv
<1>0. HostGrows(h) /\ Grown /\ finished' = finished
  BY HostAdds DEF HostGrows, Untouched
<1>1. InputsInPlace'
  <2> SUFFICES ASSUME NEW t \in Streams, NEW b \in 1 .. Len(queue'[t]), IsProduce(queue'[t][b])
               PROVE  t = StreamOf(queue'[t][b].kernel.of)
    BY DEF InputsInPlace, IsProduce, StreamOf
  <2>1. CASE b \in 1 .. Len(queue[t])
    BY <1>0, <2>1 DEF InputsInPlace, Grown
  <2>2. CASE b \notin 1 .. Len(queue[t])
    <3>1. b \in Nat /\ NewIn(t, b)
      BY <1>0, <2>2 DEF NewIn, Grown
    <3>2. t = StreamOf(h) /\ queue'[t][b].kernel = Produced(h)
      BY <1>0, <3>1, ItemKinds DEF HostGrows
    <3> QED BY <3>2 DEF Produced
  <2> QED BY <2>1, <2>2
<1>2. ConsumesFirst'
  <2> SUFFICES ASSUME NEW t \in Streams, NEW b \in 1 .. Len(queue'[t]), IsConsume(queue'[t][b]),
                      NEW k, k = queue'[t][b].kernel, NEW n \in 0 .. k.nth - 1
               PROVE  Unwritten(k.of, n, b)'
    BY DEF ConsumesFirst, IsConsume
  <2> SUFFICES ASSUME NEW y, y = InputOf(k.of, n), NEW u, u = StreamOf(k.of)
               PROVE  /\ y \notin finished'
                      /\ \A a \in 1 .. b - 1 : IsProduce(queue'[u][a]) => queue'[u][a].kernel # y
    BY DEF Unwritten, IsProduce, InputOf, StreamOf
  <2>0. Len(queue[t]) \in Nat /\ Len(queue'[t]) \in {Len(queue[t]), Len(queue[t]) + 1}
        /\ \A d \in 1 .. Len(queue[t]) : queue'[t][d] = queue[t][d]
    BY <1>0 DEF Grown
  <2>1. CASE b \in 1 .. Len(queue[t])
    <3>1. k = queue[t][b].kernel /\ IsConsume(queue[t][b])
      BY <2>0, <2>1
    <3>2. /\ t = u /\ y \notin finished
          /\ \A a \in 1 .. b - 1 : IsProduce(queue[u][a]) => queue[u][a].kernel # y
      BY <2>1, <3>1 DEF ConsumesFirst, Unwritten, ConsumesBehind
    <3>3. \A a \in 1 .. b - 1 : queue'[u][a] = queue[u][a]
      <4>1. \A a \in 1 .. b - 1 : a \in 1 .. Len(queue[t])
        BY <2>0, <2>1
      <4> QED BY <2>0, <3>2, <4>1
    <3> QED BY <1>0, <3>2, <3>3
  <2>2. CASE b \notin 1 .. Len(queue[t])
    <3>1. b \in Nat /\ NewIn(t, b)
      BY <1>0, <2>2 DEF NewIn, Grown
    <3>2. b = Len(queue[t]) + 1 /\ HostItem(h, t, queue'[t][b])
      BY <1>0, <3>1 DEF HostGrows
    <3>3. at[h] = "return" /\ t = StreamOf(h) /\ k = Consumed(h)
      BY <3>2, ItemKinds
    <3>4. k.of = h /\ k.nth = Len(todo[h]) /\ u = t /\ Len(todo[h]) \in Nat
      BY <3>3, LenProperties DEF Consumed, HostTyped
    <3>5. y \notin Placed
      <4>1. y.of = h /\ y.nth = n /\ ~(n >= Len(todo[h]))
        BY <3>4 DEF InputOf
      <4> QED BY <4>1 DEF Ahead
    <3>6. y \notin finished
      BY <3>5, PlacedIs
    <3>7. ASSUME NEW a \in 1 .. b - 1, IsProduce(queue'[u][a]) PROVE queue'[u][a].kernel # y
      <4>1. a \in 1 .. Len(queue[t]) /\ queue'[t][a] = queue[t][a]
        BY <2>0, <3>2
      <4> QED BY <3>4, <3>5, <3>7, <4>1, PlacedIs DEF IsProduce
    <3> QED BY <1>0, <3>6, <3>7
  <2> QED BY <2>1, <2>2
<1> QED BY <1>1, <1>2

-----------------------------------------------------------------------------
OutputsInv(L) == CallsInv(L) /\ TilesInv /\ JoinInv(L) /\ OrderInv

(* The invariant of the joins holds at first ... *)
LEMMA OutputsInit ==
  ASSUME NEW L \in [Callers -> Nat], CallsInv(L), Init
  PROVE  OutputsInv(L)
<1>1. /\ \A s \in Streams : queue[s] = <<>>
      /\ \A h \in Callers, j \in Slots :
           recorded[Fork(h)] = 0 /\ recorded[Join(h, j)] = 0 /\ reached[Join(h, j)] = 0
      /\ \A h \in Callers : at[h] \in {"produce", "end"}
      /\ finished = {}
  BY StreamFacts DEF Init, CudaInit
<1>2. \A s \in Streams : 1 .. Len(queue[s]) = {}
  <2>1. ASSUME NEW s \in Streams PROVE Len(queue[s]) = 0
    <3>1. queue[s] = <<>>
      BY <1>1
    <3> QED BY <3>1, EmptySeq
  <2>2. 1 .. 0 = {}
    OBVIOUS
  <2> QED BY <2>1, <2>2
<1>3. Placed = {}
  BY <1>1, <1>2, PlacedIs
<1>4. TilesInv
  BY <1>1, <1>3 DEF TilesInv, Ahead, RowsCounted, CallTiled, ConsumesTiled
<1>5. JoinInv(L)
  <2>1. JoinsCounted
    BY <1>1 DEF JoinsCounted, Owed
  <2>2. JoinsBehind(L) /\ ConsumesBehind(L)
    BY <1>2 DEF JoinsBehind, ConsumesBehind
  <2>3. JoinsTell(L)
    BY <1>1, <1>2, StreamFacts DEF JoinsTell, Cleared
  <2>4. JoinsAwaited(L)
    BY <1>1 DEF JoinsAwaited
  <2> QED BY <2>1, <2>2, <2>3, <2>4 DEF JoinInv
<1>6. OrderInv
  BY <1>2 DEF OrderInv, InputsInPlace, ConsumesFirst
<1> QED BY <1>4, <1>5, <1>6 DEF OutputsInv

(* A step that leaves queues, events and hosts alone keeps the joins and the order. *)
LEMMA JoinsUnchanged ==
  ASSUME NEW L, JoinInv(L), OrderInv,
         UNCHANGED <<queue, recorded, reached, finished, at, i, todo>>
  PROVE  JoinInv(L)' /\ OrderInv' /\ Placed' = Placed
<1>0. /\ queue' = queue /\ recorded' = recorded /\ reached' = reached /\ finished' = finished
      /\ at' = at /\ i' = i /\ todo' = todo
  OBVIOUS
<1> USE <1>0 DEF JoinInv, OrderInv
<1>1. JoinsCounted' /\ JoinsBehind(L)'
  BY DEF JoinsCounted, JoinsBehind, Owed, Fork, Join, Pool, IsGemm, Turn
<1>2. \A h, j, n : Cleared(L, h, j, n)' <=> Cleared(L, h, j, n)
  BY DEF Cleared, Pool, IsGemm, Turn
<1>3. \A h, j, n, b : Joined(L, h, j, n, b)' <=> Joined(L, h, j, n, b)
  BY <1>2 DEF Joined, StreamOf, Wait, Join
<1>4. JoinsTell(L)'
  BY <1>2 DEF JoinsTell, Join
<1>5. JoinsAwaited(L)'
  BY <1>3 DEF JoinsAwaited, StreamOf, Fork
<1>6. ConsumesBehind(L)'
  BY <1>3 DEF ConsumesBehind, IsConsume, StreamOf, Turn
<1>7. InputsInPlace' /\ ConsumesFirst'
  <2>1. \A h, n, b : Unwritten(h, n, b)' <=> Unwritten(h, n, b)
    BY DEF Unwritten, InputOf, StreamOf, IsProduce
  <2> QED BY <2>1 DEF InputsInPlace, ConsumesFirst, IsProduce, IsConsume, StreamOf
<1>8. Placed' = Placed
  BY DEF Placed, InQueue
<1> QED BY <1>1, <1>4, <1>5, <1>6, <1>7, <1>8

(* ... and every step keeps it. *)
LEMMA OutputsStep ==
  ASSUME NEW L \in [Callers -> Nat], OutputsInv(L), [Next]_vars
  PROVE  OutputsInv(L)'
<1>0. /\ CallsInv(L) /\ TilesInv /\ JoinInv(L) /\ OrderInv /\ CallsInv(L)'
      /\ HostTyped /\ DeviceTyped /\ PoolFull /\ CallsCounted(L) /\ Ahead /\ ConsumesBehind(L)
  BY CallsStep DEF OutputsInv, CallsInv, ForkInv, TilesInv, JoinInv
<1>1. ASSUME UNCHANGED <<queue, recorded, reached, finished>>, UNCHANGED hostVars
      PROVE  OutputsInv(L)'
  BY <1>0, <1>1, JoinsUnchanged, TilesUnchanged DEF OutputsInv, hostVars
<1>2. ASSUME NEW h \in Callers, HostStep(h) PROVE OutputsInv(L)'
  <2>1. Ahead' /\ RowsCounted' /\ CallTiled' /\ ConsumesTiled'
    BY <1>0, <1>2, AheadKept, RowsKept, TilesKept, ConsumesTiledKept DEF TilesInv
  <2>2. JoinInv(L)' /\ OrderInv'
    BY <1>0, <1>2, HostKeepsJoins, HostKeepsOrder
  <2> QED BY <1>0, <2>1, <2>2 DEF OutputsInv, TilesInv
<1>3. ASSUME NEW s \in Streams, DeviceStep(s), UNCHANGED hostVars PROVE OutputsInv(L)'
  <2>1. Dropped(s) \/ UNCHANGED <<queue, recorded, reached, finished>>
    BY <1>0, <1>3, DeviceDrops
  <2>2. CASE Dropped(s)
    <3>1. TilesInv'
      BY <1>0, <1>3, <2>2, DevicePlaces, TilesUnchanged DEF hostVars
    <3>2. JoinInv(L)' /\ OrderInv'
      BY <1>0, <1>3, <2>2, DeviceKeepsJoins, DeviceKeepsOrder
    <3> QED BY <1>0, <3>1, <3>2 DEF OutputsInv
  <2> QED BY <1>1, <1>3, <2>1, <2>2
<1>4. CASE UNCHANGED vars
  BY <1>1, <1>4 DEF vars, cudaVars
<1> QED BY <1>2, <1>3, <1>4 DEF Next, Device

(* When the kernel after a call runs, every slot is cleared and no later input written. *)
LEMMA JoinedAtHead ==
  ASSUME NEW L \in [Callers -> Nat], OutputsInv(L), NEW k \in Running, k.does = "consume"
  PROVE  /\ k \in Placed /\ k.of \in Callers /\ k.nth \in 1 .. L[k.of]
         /\ \A j \in Slots : Cleared(L, k.of, j, Turn(L, k))
         /\ \A n \in 0 .. k.nth - 1 : InputOf(k.of, n) \notin finished
<1>1. PICK s \in Streams : /\ 1 \in 1 .. Len(queue[s]) /\ IsConsume(queue[s][1])
                           /\ queue[s][1].kernel = k
  BY RunsAtHead DEF OutputsInv, CallsInv, IsConsume
<1>2. /\ k.of \in Callers /\ k.nth \in 1 .. L[k.of]
      /\ \A j \in Slots : Joined(L, k.of, j, Turn(L, k), 1)
  BY <1>1 DEF OutputsInv, JoinInv, ConsumesBehind
<1>3. \A n \in 0 .. k.nth - 1 : Unwritten(k.of, n, 1)
  BY <1>1 DEF OutputsInv, OrderInv, ConsumesFirst
<1>4. k \in Placed
  BY <1>1, PlacedIs DEF IsConsume
<1> QED BY <1>2, <1>3, <1>4 DEF Joined, Unwritten

(* The kernel after the call finds every row of out written, each by one   *)
(* GEMM of the call, and no GEMM of its caller running.                    *)
THEOREM OutputsArrive == ASSUME FirstCallAlone PROVE Spec => []OutputsReady
<1> DEFINE Inv == \E L \in [Callers -> Nat] : OutputsInv(L)
<1>1. Init => Inv
  BY GroupedInit, OutputsInit DEF GroupedInv
<1>2. Inv /\ [Next]_vars => Inv'
  BY OutputsStep
<1>3. Inv => OutputsReady
  <2> SUFFICES ASSUME NEW L \in [Callers -> Nat], OutputsInv(L),
                      NEW k \in Running, k.does = "consume"
               PROVE  /\ UNION {g.rows : g \in Done(k.of, k.nth)} = k.rows
                      /\ \A g1, g2 \in Done(k.of, k.nth) : g1 # g2 => g1.rows \cap g2.rows = {}
                      /\ \A g \in Running : ~(g.does = "gemm" /\ g.of = k.of)
    BY DEF OutputsReady
  <2>0. DeviceTyped /\ GemmsBehind(L) /\ ConsumesTiled
    BY DEF OutputsInv, CallsInv, ForkInv, TilesInv
  <2>1. /\ k \in Placed /\ k.of \in Callers /\ k.nth \in 1 .. L[k.of]
        /\ \A j \in Slots : Cleared(L, k.of, j, Turn(L, k))
        /\ \A n \in 0 .. k.nth - 1 : InputOf(k.of, n) \notin finished
    BY JoinedAtHead
  <2>2. PICK l \in Nat, z \in Nat \ {0} : l = L[k.of] /\ z = k.nth /\ Turn(L, k) = l + 1 - z
    <3>1. k.nth \in Nat \ {0} /\ L[k.of] \in Nat
      BY <2>1
    <3> QED BY <3>1 DEF Turn
  <2>3. ASSUME NEW s \in Streams, NEW b \in 1 .. Len(queue[s]), IsGemm(queue[s][b]),
               NEW g, g = queue[s][b].kernel, g.of = k.of
        PROVE  g.nth \in 0 .. k.nth - 1 /\ Awaited(L, g.of, Turn(L, g), s, b)
    <3>1. g.nth \in 1 .. l /\ s = Pool(g.slice) /\ Awaited(L, g.of, Turn(L, g), s, b)
      BY <2>0, <2>2, <2>3 DEF GemmsBehind
    <3>2. g.slice \in Slots
      <4>1. queue[s][b] \in Items
        BY <2>0, <2>3, ElementOfSeq DEF DeviceTyped
      <4> QED BY <2>3, <4>1 DEF Items, Kernels, IsGemm
    <3>3. Turn(L, g) > Turn(L, k) /\ Turn(L, g) = l + 1 - g.nth
      BY <2>1, <2>2, <2>3, <3>1, <3>2 DEF Cleared, Turn
    <3>4. PICK n \in 1 .. l : n = g.nth
      BY <3>1
    <3>5. l + 1 - n > l + 1 - z
      BY <2>2, <3>3, <3>4
    <3>6. n \in 0 .. z - 1
      BY <3>5
    <3> QED BY <2>2, <3>1, <3>4, <3>6
  <2>4. CallGemms(k.of, k.nth) = Done(k.of, k.nth)
    <3>1. ASSUME NEW g \in Placed, g.does = "gemm", g.of = k.of, g.nth = k.nth
          PROVE  g \in finished
      <4>1. ASSUME NEW s \in Streams, NEW b \in 1 .. Len(queue[s]),
                   queue[s][b].type = "kernel", queue[s][b].kernel = g
            PROVE  FALSE
        <5>1. k.nth \in 0 .. k.nth - 1
          BY <2>3, <3>1, <4>1 DEF IsGemm
        <5> QED BY <2>2, <5>1
      <4> QED BY <3>1, <4>1, PlacedIs
    <3> QED BY <3>1, PlacedIs DEF CallGemms, Done
  <2>5. Tiles(CallGemms(k.of, k.nth), k.rows)
    BY <2>0, <2>1 DEF ConsumesTiled
  <2>6. ASSUME NEW g \in Running, g.does = "gemm", g.of = k.of PROVE FALSE
    <3>1. PICK s \in Streams : /\ 1 \in 1 .. Len(queue[s]) /\ IsGemm(queue[s][1])
                               /\ queue[s][1].kernel = g
      BY <2>0, <2>6, RunsAtHead DEF IsGemm
    <3>2. g.nth \in 0 .. k.nth - 1 /\ Awaited(L, g.of, Turn(L, g), s, 1)
      BY <2>3, <2>6, <3>1
    <3>3. Input(L, g.of, Turn(L, g)) \in finished
      BY <3>2 DEF Awaited
    <3>4. Input(L, g.of, Turn(L, g)) = InputOf(k.of, g.nth)
      <4>1. L[g.of] + 1 - Turn(L, g) = g.nth
        BY <2>2, <2>6, <3>2 DEF Turn
      <4> QED BY <2>6, <4>1 DEF Input, InputOf
    <3> QED BY <2>1, <3>2, <3>3, <3>4
  <2> QED BY <2>4, <2>5, <2>6 DEF Tiles
<1> QED BY <1>1, <1>2, <1>3, PTL DEF Spec

-----------------------------------------------------------------------------
(* The calls that have returned, whatever their status, stay joined: what   *)
(* JoinsAwaited says of the call at hand is kept when it returns.          *)
ReturnedJoined(L) ==
  \A h \in Callers, j \in Slots : \A n \in {L[h] - Len(todo[h])} :
    Joined(L, h, j, n, Len(queue[StreamOf(h)]) + 1)

(* The number of calls returned, and the joins of each slot so far. *)
LEMMA ReturnedCounted ==
  ASSUME HostTyped, DeviceTyped, NEW L \in [Callers -> Nat], CallsCounted(L), JoinsCounted,
         NEW h \in Callers, NEW j \in Slots
  PROVE  /\ L[h] - Len(todo[h]) \in Nat
         /\ L[h] - Len(todo[h]) <= recorded[Join(h, j)]
         /\ at[h] = "return" => /\ recorded[Fork(h)] = L[h] - Len(todo[h]) + 1
                                /\ recorded[Join(h, j)] = recorded[Fork(h)]
<1>1. PICK c \in Nat, d \in Nat, e \in Nat, l \in Nat :
        c = recorded[Fork(h)] /\ d = Len(todo[h]) /\ l = L[h] /\ e = recorded[Join(h, j)]
  BY StreamFacts, LenProperties DEF DeviceTyped, HostTyped
<1>2. c + d = l + Posted(h) /\ e + Owed(h, j) = c /\ d <= l
  BY <1>1 DEF CallsCounted, JoinsCounted
<1>3. Owed(h, j) \in {0, 1} /\ Posted(h) \in {0, 1} /\ Owed(h, j) <= Posted(h)
  BY SMTT(30) DEF Owed, Posted
<1>4. at[h] = "return" => Owed(h, j) = 0 /\ Posted(h) = 1
  BY DEF Owed, Posted
<1>5. PICK p \in Nat, o \in Nat : p = Posted(h) /\ o = Owed(h, j)
  BY <1>3
<1>6. c + d = l + p /\ e + o = c /\ o <= p /\ (at[h] = "return" => o = 0 /\ p = 1)
  BY <1>2, <1>3, <1>4, <1>5
<1>7. /\ l - d \in Nat /\ l - d <= e
      /\ at[h] = "return" => c = l - d + 1 /\ e = c
  BY <1>2, <1>6
<1> QED BY <1>1, <1>7

LEMMA DeviceKeepsReturned ==
  ASSUME HostTyped, DeviceTyped, NEW s \in Streams, Dropped(s), UNCHANGED hostVars,
         NEW L \in [Callers -> Nat], CallsCounted(L), JoinInv(L), ReturnedJoined(L)
  PROVE  ReturnedJoined(L)'
<1> SUFFICES ASSUME NEW h \in Callers, NEW j \in Slots, NEW n, n = L[h] - Len(todo[h]),
                    NEW m, m = Len(queue'[StreamOf(h)]) + 1
             PROVE  Joined(L, h, j, n, m)'
  BY DEF ReturnedJoined, hostVars, StreamOf
<1>1. StreamOf(h) \in Streams /\ n \in Nat
  BY StreamFacts, ReturnedCounted DEF JoinInv
<1>2. PICK l \in Nat : l = Len(queue[StreamOf(h)])
  BY <1>1, LenProperties DEF DeviceTyped
<1>3. Joined(L, h, j, n, l + 1) /\ l + 1 \in 1 .. Len(queue[StreamOf(h)]) + 1
  BY <1>2 DEF ReturnedJoined
<1>4. CASE s = StreamOf(h)
  <2>1. m = (l + 1) - 1
    BY <1>2, <1>4, DroppedItems
  <2> QED BY <1>1, <1>3, <1>4, <2>1, DeviceKeepsJoined DEF JoinInv
<1>5. CASE s # StreamOf(h)
  <2>1. m = l + 1
    BY <1>1, <1>2, <1>5, DroppedItems
  <2> QED BY <1>1, <1>3, <1>5, <2>1, DeviceKeepsJoined DEF JoinInv
<1> QED BY <1>4, <1>5

LEMMA HostKeepsReturned ==
  ASSUME HostTyped, DeviceTyped, PoolFull, NEW h \in Callers, HostStep(h),
         NEW L \in [Callers -> Nat], CallsCounted(L), JoinInv(L), ReturnedJoined(L)
  PROVE  ReturnedJoined(L)'
<1> SUFFICES ASSUME NEW g \in Callers, NEW j \in Slots, NEW n, n = L[g] - Len(todo'[g]),
                    NEW m, m = Len(queue'[StreamOf(g)]) + 1
             PROVE  Joined(L, g, j, n, m)'
  BY DEF ReturnedJoined, StreamOf
<1>1. PICK l \in Nat : l = Len(queue[StreamOf(g)]) /\ l + 1 <= m /\ m \in Nat
  BY HostAdds, StreamFacts DEF HostGrows, Grown
<1>2. l + 1 \in 1 .. Len(queue[StreamOf(g)]) + 1
  BY <1>1
<1>3. CASE todo'[g] = todo[g]
  <2>1. n \in Nat /\ n <= recorded[Join(g, j)]
    BY <1>3, ReturnedCounted DEF JoinInv
  <2>2. Joined(L, g, j, n, l + 1)
    BY <1>1, <1>3 DEF ReturnedJoined
  <2> QED BY <1>1, <1>2, <2>1, <2>2, HostKeepsJoined DEF JoinInv
<1>4. CASE todo'[g] # todo[g]
  <2>1. g = h /\ at[h] = "return" /\ todo'[h] = Tail(todo[h]) /\ todo[h] # <<>>
        /\ todo[h] \in Seq(Seq(Nat))
    BY <1>4, Zenon DEF HostStep, Produce, TestEmpty, Resize, CreateStream, ForkRecord, ForkWait,
       LaunchGroup, GroupFails, JoinTurn, Return, HostTyped
  <2>2. Len(todo[h]) \in Nat /\ Len(todo'[h]) = Len(todo[h]) - 1
    BY <2>1, HeadTailProperties, LenProperties
  <2>3. n = L[h] - Len(todo[h]) + 1
    BY <2>1, <2>2
  <2>4. n = recorded[Fork(h)] /\ n = recorded[Join(h, j)] /\ n \in Nat
    <3>1. /\ recorded[Fork(h)] = L[h] - Len(todo[h]) + 1
          /\ recorded[Join(h, j)] = recorded[Fork(h)]
          /\ L[h] - Len(todo[h]) \in Nat
      BY <2>1, ReturnedCounted DEF JoinInv
    <3> QED BY <2>3, <3>1
  <2>5. Joined(L, h, j, n, l + 1)
    BY <1>1, <2>1, <2>4 DEF JoinInv, JoinsAwaited
  <2>6. n <= recorded[Join(g, j)]
    BY <2>1, <2>4
  <2> QED BY <1>1, <1>2, <2>1, <2>4, <2>5, <2>6, HostKeepsJoined DEF JoinInv
<1> QED BY <1>3, <1>4

(* When the stream of a caller has drained, every GEMM of the calls that   *)
(* have returned is over, also when a group was refused and the call       *)
(* returned an error: the caller may free the operands.                    *)
THEOREM DrainedCallsAreOver == ASSUME FirstCallAlone PROVE Spec => []DrainedIsOver
<1> DEFINE Inv == \E L \in [Callers -> Nat] : OutputsInv(L) /\ ReturnedJoined(L)
<1>1. Init => Inv
  <2> SUFFICES ASSUME Init PROVE Inv
    OBVIOUS
  <2>1. PICK L \in [Callers -> Nat] : CallsInv(L) /\ OutputsInv(L)
    BY GroupedInit, OutputsInit DEF GroupedInv
  <2>2. ASSUME NEW h \in Callers, NEW j \in Slots, NEW n, n = L[h] - Len(todo[h])
        PROVE  Cleared(L, h, j, n)
    <3>1. queue[Pool(j)] = <<>>
      BY StreamFacts DEF Init, CudaInit
    <3>2. 1 .. Len(queue[Pool(j)]) = {}
      BY <3>1, EmptySeq
    <3> QED BY <3>2 DEF Cleared
  <2>3. ReturnedJoined(L)
    BY <2>2 DEF ReturnedJoined, Joined
  <2> QED BY <2>1, <2>3
<1>2. Inv /\ [Next]_vars => Inv'
  <2> SUFFICES ASSUME NEW L \in [Callers -> Nat], OutputsInv(L), ReturnedJoined(L), [Next]_vars
               PROVE  OutputsInv(L)' /\ ReturnedJoined(L)'
    OBVIOUS
  <2>0. /\ HostTyped /\ DeviceTyped /\ PoolFull /\ CallsCounted(L) /\ JoinInv(L)
        /\ OutputsInv(L)'
    BY OutputsStep DEF OutputsInv, CallsInv, ForkInv
  <2>1. ASSUME UNCHANGED <<queue, recorded, reached, finished>>, UNCHANGED hostVars
        PROVE  ReturnedJoined(L)'
    <3>1. /\ queue' = queue /\ todo' = todo
      BY <2>1 DEF hostVars
    <3> QED BY <3>1, ZenonT(30) DEF ReturnedJoined, Joined, Cleared, StreamOf, Pool, IsGemm, Turn, Wait, Join
  <2>2. ASSUME NEW h \in Callers, HostStep(h) PROVE ReturnedJoined(L)'
    BY <2>0, <2>2, HostKeepsReturned
  <2>3. ASSUME NEW s \in Streams, DeviceStep(s), UNCHANGED hostVars PROVE ReturnedJoined(L)'
    <3>1. Dropped(s) \/ UNCHANGED <<queue, recorded, reached, finished>>
      BY <2>0, <2>3, DeviceDrops
    <3> QED BY <2>0, <2>1, <2>3, <3>1, DeviceKeepsReturned
  <2>4. CASE UNCHANGED vars
    BY <2>0, <2>1, <2>4 DEF vars, cudaVars
  <2> QED BY <2>0, <2>2, <2>3, <2>4 DEF Next, Device
<1>3. Inv => DrainedIsOver
  <2> SUFFICES ASSUME NEW L \in [Callers -> Nat], OutputsInv(L), ReturnedJoined(L),
                      NEW h \in Callers, queue[StreamOf(h)] = <<>>,
                      NEW k \in Pending, k.does = "gemm", k.of = h
               PROVE  k.nth <= Len(todo[h])
    BY DEF DrainedIsOver
  <2>0. DeviceTyped /\ HostTyped /\ GemmsBehind(L)
    BY DEF OutputsInv, CallsInv, ForkInv
  <2>1. PICK s \in Streams : \E b \in DOMAIN queue[s] :
          queue[s][b].type = "kernel" /\ queue[s][b].kernel = k
    BY DEF Pending
  <2>2. PICK b \in 1 .. Len(queue[s]) : IsGemm(queue[s][b]) /\ queue[s][b].kernel = k
    BY <2>0, <2>1, LenProperties DEF IsGemm, DeviceTyped
  <2>3. k.nth \in 1 .. L[h] /\ s = Pool(k.slice)
    BY <2>0, <2>2 DEF GemmsBehind
  <2>4. k.slice \in Slots
    <3>1. queue[s][b] \in Items
      BY <2>0, <2>2, ElementOfSeq DEF DeviceTyped
    <3> QED BY <2>2, <3>1 DEF Items, Kernels, IsGemm
  <2>5. PICK n : n = L[h] - Len(todo[h])
    OBVIOUS
  <2>6. Cleared(L, h, k.slice, n)
    <3>1. Joined(L, h, k.slice, n, 0 + 1)
      BY <2>4, <2>5, EmptySeq DEF ReturnedJoined
    <3>2. 1 .. (0 + 1) - 1 = {}
      OBVIOUS
    <3> QED BY <3>1, <3>2 DEF Joined
  <2>7. Turn(L, k) > n
    BY <2>2, <2>3, <2>6 DEF Cleared
  <2>8. PICK l \in Nat, d \in Nat, z \in Nat : l = L[h] /\ d = Len(todo[h]) /\ z = k.nth
    BY <2>0, <2>3, LenProperties DEF HostTyped
  <2>9. l + 1 - z > l - d
    BY <2>5, <2>7, <2>8 DEF Turn
  <2> QED BY <2>8, <2>9
<1> QED BY <1>1, <1>2, <1>3, PTL DEF Spec
=============================================================================
