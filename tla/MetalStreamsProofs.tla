------------------------ MODULE MetalStreamsProofs ------------------------
(***************************************************************************)
(* Proofs that waiting for the field last drains a stream of the Metal     *)
(* back end, whatever the program relies on, and that memory ends up as if *)
(* every call had taken effect at once, when it relies on no event and not *)
(* on aclrtSynchronizeDevice: for any number of streams, buffers, tensors, *)
(* operators in flight and recorded operators.                             *)
(***************************************************************************)
EXTENDS MetalStreams, SequenceTheorems, WellFoundedInduction, TLAPS

(* The last command buffer of a queue that is not empty is the one in the  *)
(* field last: what [s->last waitUntilCompleted] needs.                    *)
LastIsLast ==
  \A s \in Queues : committed[s] # <<>> => committed[s][Len(committed[s])].id = last[s]

(* What a tape holds is committed one day, so its type is needed too. *)
Typed ==
  /\ data \in [Tensors -> Bufs]
  /\ committed \in [Queues -> Seq(Command)]
  /\ last \in [Queues -> Ids \cup {Nil}]
  /\ tape \in [Queues -> Seq(Entry)]
  /\ graph \in Seq(Entry)

IInv == Typed /\ LastIsLast

LEMMA NonEmpty ==
  ASSUME NEW S, NEW q \in Seq(S), q # <<>>
  PROVE  /\ Len(q) \in Nat \ {0} /\ DOMAIN q = 1 .. Len(q)
         /\ Len(q) \in DOMAIN q /\ q[Len(q)] \in S
<1>1. Len(q) \in Nat \ {0} /\ DOMAIN q = 1 .. Len(q) /\ q \in [1 .. Len(q) -> S]
  BY EmptySeq, LenProperties
<1> QED BY <1>1

LEMMA ConcatLast ==
  ASSUME NEW S, NEW q \in Seq(S), NEW r \in Seq(S), r # <<>>
  PROVE  /\ q \o r \in Seq(S)
         /\ (q \o r)[Len(q \o r)] = r[Len(r)]
<1>1. Len(q) \in Nat /\ Len(r) \in Nat \ {0}
  BY EmptySeq, LenProperties
<1>2. /\ q \o r \in Seq(S)
      /\ Len(q \o r) = Len(q) + Len(r)
      /\ \A i \in 1 .. Len(q) + Len(r) :
           (q \o r)[i] = IF i <= Len(q) THEN q[i] ELSE r[i - Len(q)]
  BY ConcatProperties
<1>3. Len(q) + Len(r) \in 1 .. Len(q) + Len(r) /\ ~(Len(q) + Len(r) <= Len(q))
      /\ Len(q) + Len(r) - Len(q) = Len(r)
  BY <1>1
<1> QED BY <1>2, <1>3

LEMMA TailLast ==
  ASSUME NEW S, NEW q \in Seq(S), q # <<>>
  PROVE  /\ Tail(q) \in Seq(S)
         /\ Tail(q) # <<>> => Tail(q)[Len(Tail(q))] = q[Len(q)]
<1>1. /\ Tail(q) \in Seq(S) /\ Len(Tail(q)) = Len(q) - 1
      /\ \A i \in 1 .. Len(Tail(q)) : Tail(q)[i] = q[i + 1]
  BY HeadTailProperties
<1>2. SUFFICES ASSUME Tail(q) # <<>> PROVE Tail(q)[Len(Tail(q))] = q[Len(q)]
  BY <1>1
<1>3. Len(Tail(q)) \in Nat \ {0} /\ Len(q) \in Nat
  BY <1>1, <1>2, NonEmpty
<1>4. Len(Tail(q)) \in 1 .. Len(Tail(q)) /\ Len(Tail(q)) + 1 = Len(q)
  BY <1>1, <1>3
<1> QED BY <1>1, <1>4

-----------------------------------------------------------------------------
(* Committing keeps the field last at the end of the queue. *)
LEMMA CommitKeeps ==
  ASSUME IInv, NEW s \in Queues, NEW cs \in Seq(Command), cs # <<>>, Commit(s, cs)
  PROVE  /\ committed' \in [Queues -> Seq(Command)]
         /\ last' \in [Queues -> Ids \cup {Nil}]
         /\ LastIsLast'
<1>1. committed[s] \in Seq(Command) /\ committed \in [Queues -> Seq(Command)]
      /\ last \in [Queues -> Ids \cup {Nil}]
  BY DEF IInv, Typed
<1>2. cs[Len(cs)].id \in Ids
  <2>1. cs[Len(cs)] \in Command
    BY NonEmpty
  <2> QED BY <2>1 DEF Command
<1>3. committed[s] \o cs \in Seq(Command)
      /\ (committed[s] \o cs)[Len(committed[s] \o cs)] = cs[Len(cs)]
  BY <1>1, ConcatLast
<1> DEFINE q == committed[s] \o cs
           l == cs[Len(cs)].id
<1>4. committed' = [committed EXCEPT ![s] = q] /\ last' = [last EXCEPT ![s] = l]
  BY DEF Commit
<1>5. q \in Seq(Command) /\ q[Len(q)].id = l /\ l \in Ids
  BY <1>2, <1>3
<1> HIDE DEF q, l
<1>6. committed' \in [Queues -> Seq(Command)] /\ last' \in [Queues -> Ids \cup {Nil}]
  BY <1>1, <1>4, <1>5
<1>7. ASSUME NEW u \in Queues, committed'[u] # <<>>
      PROVE  committed'[u][Len(committed'[u])].id = last'[u]
  <2>1. CASE u = s
    BY <1>1, <1>4, <1>5, <2>1
  <2>2. CASE u # s
    <3>1. committed'[u] = committed[u] /\ last'[u] = last[u]
      BY <1>1, <1>4, <2>2
    <3> QED BY <1>7, <3>1 DEF IInv, LastIsLast
  <2> QED BY <2>1, <2>2
<1> QED BY <1>6, <1>7 DEF LastIsLast

(* So does the completion of the first command buffer. *)
LEMMA CompleteKeeps ==
  ASSUME IInv, NEW s \in Queues, Complete(s)
  PROVE  IInv'
<1>1. /\ committed \in [Queues -> Seq(Command)] /\ committed[s] # <<>>
      /\ committed' = [committed EXCEPT ![s] = Tail(committed[s])] /\ committed[s] \in Seq(Command)
      /\ UNCHANGED <<data, last, tape, graph>>
  BY DEF IInv, Typed, Complete
<1>2. /\ Tail(committed[s]) \in Seq(Command)
      /\ Tail(committed[s]) # <<>>
           => Tail(committed[s])[Len(Tail(committed[s]))] = committed[s][Len(committed[s])]
  BY <1>1, TailLast
<1> DEFINE q == Tail(committed[s])
<1>3. committed' = [committed EXCEPT ![s] = q] /\ q \in Seq(Command)
      /\ (q # <<>> => q[Len(q)] = committed[s][Len(committed[s])])
  BY <1>1, <1>2
<1> HIDE DEF q
<1>4. Typed'
  BY <1>1, <1>3 DEF IInv, Typed
<1>5. ASSUME NEW u \in Queues, committed'[u] # <<>>
      PROVE  committed'[u][Len(committed'[u])].id = last'[u]
  <2>1. CASE u = s
    <3>1. committed'[u] = q /\ last'[u] = last[s]
      BY <1>1, <1>3, <2>1
    <3>2. committed[s][Len(committed[s])].id = last[s]
      BY <1>1 DEF IInv, LastIsLast
    <3> QED BY <1>3, <1>5, <3>1, <3>2
  <2>2. CASE u # s
    <3>1. committed'[u] = committed[u] /\ last'[u] = last[u]
      BY <1>1, <1>3, <2>2
    <3> QED BY <1>5, <3>1 DEF IInv, LastIsLast
  <2> QED BY <2>1, <2>2
<1> QED BY <1>4, <1>5 DEF IInv, LastIsLast

(* Recording keeps the type of the tape. *)
LEMMA RecordKeeps ==
  ASSUME IInv, NEW s \in Queues, NEW x \in Tensors, NEW y \in Tensors,
         CaptureRecord(s, x, y)
  PROVE  IInv'
<1>1. tape \in [Queues -> Seq(Entry)] /\ data[x] \in Bufs /\ data[y] \in Bufs
      /\ tape[s] \in Seq(Entry)
  BY DEF IInv, Typed
<1> DEFINE r == [src |-> Clone(x), dst |-> Clone(y), asked |-> <<data[x], data[y]>>]
<1>2. r \in Entry
  BY <1>1 DEF Entry, Ref, Clone
<1>3. tape' = [tape EXCEPT ![s] = Append(tape[s], r)]
      /\ UNCHANGED <<data, committed, last, graph>>
  BY <1>1 DEF CaptureRecord
<1> HIDE DEF r
<1>4. Append(tape[s], r) \in Seq(Entry)
  BY <1>1, <1>2, AppendProperties
<1>5. tape' \in [Queues -> Seq(Entry)]
  BY <1>1, <1>3, <1>4
<1> QED BY <1>3, <1>5 DEF IInv, Typed, LastIsLast

(* Replaying commits the commands of the tape, the last one last. *)
LEMMA ExecuteKeeps ==
  ASSUME IInv, NEW s \in Queues, ExecuteAsync(s)
  PROVE  IInv'
<1>1. graph # <<>> /\ graph \in Seq(Entry) /\ data \in [Tensors -> Bufs]
      /\ UNCHANGED <<data, tape, graph>>
  BY DEF ExecuteAsync, IInv, Typed
<1>2. Len(graph) \in Nat \ {0} /\ graph \in [1 .. Len(graph) -> Entry]
  BY <1>1, EmptySeq, LenProperties
<1> DEFINE cs(id) ==
      [k \in 1 .. Len(graph) |-> [id |-> id, src |-> Resolve(graph[k].src),
                                  dst |-> Resolve(graph[k].dst)]]
<1>3. PICK id \in Ids : Commit(s, cs(id))
  BY DEF ExecuteAsync, Fresh
<1>4. \A k \in 1 .. Len(graph) :
        Resolve(graph[k].src) \in Bufs /\ Resolve(graph[k].dst) \in Bufs
  BY <1>1, <1>2 DEF Entry, Ref, Resolve
<1>5. cs(id) \in [1 .. Len(graph) -> Command]
  BY <1>4 DEF Command
<1>6. cs(id) \in Seq(Command) /\ Len(cs(id)) = Len(graph)
  BY <1>2, <1>5, SeqDef, LenProperties
<1>7. cs(id) # <<>>
  BY <1>2, <1>6, EmptySeq
<1> HIDE DEF cs
<1>8. /\ committed' \in [Queues -> Seq(Command)]
      /\ last' \in [Queues -> Ids \cup {Nil}]
      /\ LastIsLast'
  BY <1>3, <1>6, <1>7, CommitKeeps
<1> QED BY <1>1, <1>8 DEF IInv, Typed

LEMMA LaunchKeeps ==
  ASSUME IInv, NEW s \in Queues, NEW x \in Tensors, NEW y \in Tensors, LaunchKernel(s, x, y)
  PROVE  IInv'
<1>1. data[x] \in Bufs /\ data[y] \in Bufs /\ UNCHANGED <<data, tape, graph>>
  BY DEF IInv, Typed, LaunchKernel
<1> DEFINE c(id) == [id |-> id, src |-> data[x], dst |-> data[y]]
<1>2. PICK id \in Ids : Commit(s, <<c(id)>>)
  BY DEF LaunchKernel, Fresh
<1>3. c(id) \in Command
  BY <1>1 DEF Command
<1> HIDE DEF c
<1>4. <<c(id)>> \in Seq(Command) /\ <<c(id)>> # <<>>
  BY <1>3
<1>5. /\ committed' \in [Queues -> Seq(Command)]
      /\ last' \in [Queues -> Ids \cup {Nil}]
      /\ LastIsLast'
  BY <1>2, <1>4, CommitKeeps
<1> QED BY <1>1, <1>5 DEF IInv, Typed

(* The other actions leave queues and fields alone; they exchange tapes. *)
LEMMA CaptureKeeps ==
  ASSUME IInv, NEW s \in Queues,
         CaptureBegin(s) \/ CaptureEnd(s) \/ ExecuteCaptured(s)
  PROVE  IInv'
<1>1. /\ UNCHANGED <<data, committed, last>>
      /\ tape \in [Queues -> Seq(Entry)] /\ graph \in Seq(Entry) /\ tape[s] \in Seq(Entry)
  BY DEF CaptureBegin, CaptureEnd, ExecuteCaptured, IInv, Typed
<1>2. <<>> \in Seq(Entry) /\ tape[s] \o graph \in Seq(Entry)
  BY <1>1, EmptySeq, ConcatProperties
<1>3. tape' \in [Queues -> Seq(Entry)] /\ graph' \in Seq(Entry)
  <2>1. CASE CaptureBegin(s)
    BY <1>1, <1>2, <2>1 DEF CaptureBegin
  <2>2. CASE CaptureEnd(s)
    BY <1>1, <1>2, <2>2 DEF CaptureEnd, TapeDropped
  <2>3. CASE ExecuteCaptured(s)
    BY <1>1, <1>2, <2>3 DEF ExecuteCaptured
  <2> QED BY <2>1, <2>2, <2>3
<1> QED BY <1>1, <1>3 DEF IInv, Typed, LastIsLast

LEMMA InitIInv == MInit => IInv
<1> SUFFICES ASSUME MInit PROVE IInv
  OBVIOUS
<1>1. <<>> \in Seq(Command) /\ <<>> \in Seq(Entry)
  BY EmptySeq
<1>2. Typed
  BY <1>1 DEF MInit, Typed
<1>3. LastIsLast
  BY DEF MInit, LastIsLast
<1> QED BY <1>2, <1>3 DEF IInv

LEMMA NextIInv == IInv /\ [MNext]_mvars => IInv'
<1> SUFFICES ASSUME IInv, [MNext]_mvars PROVE IInv'
  OBVIOUS
<1>1. CASE \E t \in Tensors, b \in Bufs : Recreate(t, b)
  BY <1>1 DEF Recreate, IInv, Typed, LastIsLast
<1>2. CASE \/ \E x, y \in Tensors : DefaultStreamOp(x, y)
           \/ \E b \in Bufs, v \in Vals : HostWrite(b, v)
           \/ Execute
           \/ \E s \in Queues, x, y \in Tensors : HostOp(s, x, y)
  BY <1>2 DEF DefaultStreamOp, HostWrite, Execute, HostOp, IInv, Typed, LastIsLast
<1>3. CASE \/ SynchronizeDevice
           \/ \E s \in Queues : SynchronizeStream(s)
           \/ \E s \in Queues, e \in MetalEvents : RecordEvent(e, s) \/ AwaitEvent(s, e)
  BY <1>3 DEF SynchronizeDevice, SynchronizeStream, RecordEvent, AwaitEvent, code,
              IInv, Typed, LastIsLast
<1>4. CASE \E s \in Queues, x, y \in Tensors : LaunchKernel(s, x, y)
  BY <1>4, LaunchKeeps
<1>5. CASE \E s \in Queues, x, y \in Tensors : CaptureRecord(s, x, y)
  BY <1>5, RecordKeeps
<1>6. CASE \E s \in Queues : CaptureBegin(s) \/ CaptureEnd(s) \/ ExecuteCaptured(s)
  BY <1>6, CaptureKeeps
<1>7. CASE \E s \in Queues : ExecuteAsync(s)
  BY <1>7, ExecuteKeeps
<1>8. CASE \E s \in Queues : Complete(s)
  BY <1>8, CompleteKeeps
<1>9. CASE UNCHANGED mvars
  BY <1>9 DEF mvars, code, IInv, Typed, LastIsLast
<1> QED BY <1>1, <1>2, <1>3, <1>4, <1>5, <1>6, <1>7, <1>8, <1>9 DEF MNext

LEMMA DrainedIsEmpty ==
  ASSUME IInv, NEW s \in Queues, Drained(s)
  PROVE  committed[s] = <<>>
<1> SUFFICES ASSUME committed[s] # <<>> PROVE FALSE
  OBVIOUS
<1>1. Len(committed[s]) \in DOMAIN committed[s]
  BY NonEmpty DEF IInv, Typed
<1> QED BY <1>1 DEF Drained, IInv, LastIsLast

(* However kernels, host loops and replays take turns on a stream, a wait  *)
(* for the command buffer in last is a wait for all of the stream; on this *)
(* rest the host operators, aclrtSynchronizeStream and aclmdlRICaptureBegin*)
(* of metal/src.                                                           *)
THEOREM WaitDrains == MSpec => []LastDrains
<1>1. IInv => LastDrains
  BY DrainedIsEmpty DEF LastDrains
<1>2. MSpec => []IInv
  BY InitIInv, NextIInv, PTL DEF MSpec
<1> QED BY <1>1, <1>2, PTL
-----------------------------------------------------------------------------
(* Program order.  A nonempty set of numbers has a least one.              *)
LEMMA Least ==
  ASSUME NEW S \in SUBSET Nat, S # {}
  PROVE  \E m \in S : \A n \in S : m <= n
<1> DEFINE R == OpToRel(<, Nat)
<1>1. IsWellFoundedOn(R, Nat)
  BY NatLessThanWellFounded, Zenon
<1>2. R = {p \in Nat \X Nat : p[1] < p[2]}
  BY Zenon DEF OpToRel
<1> HIDE DEF R
<1>3. PICK m \in S : \A n \in S : ~(<<n, m>> \in R)
  BY <1>1, WFMin
<1>4. ASSUME NEW n \in S PROVE m <= n
  <2>1. m \in Nat /\ n \in Nat /\ (n < m => <<n, m>> \in R)
    BY <1>2
  <2> QED BY <1>3, <2>1
<1> QED BY <1>3, <1>4

Memory == [Bufs -> Vals]

LEMMA ApplyType ==
  ASSUME NEW m \in Memory, NEW x \in Bufs, NEW y \in Bufs
  PROVE  /\ Apply(m, x, y) \in Memory
         /\ \A b \in Bufs : Apply(m, x, y)[b] = IF b = y THEN F(m[x]) ELSE m[b]
<1>1. m[x] \in Vals
  BY DEF Memory
<1>2. F(m[x]) \in Vals
  BY <1>1, BoundsAssumption DEF F, Vals
<1> QED BY <1>2 DEF Memory, Apply

(* The n first commands of a sequence, between buffers. *)
Moves(cs, n) == n \in Nat /\ \A k \in 1 .. n : cs[k].src \in Bufs /\ cs[k].dst \in Bufs

(* The contents of memory after each of them. *)
Stepping(at, m, cs, n) ==
  at = [k \in 0 .. n |-> IF k = 0 THEN m ELSE Apply(at[k - 1], cs[k].src, cs[k].dst)]

Steps(at, m, cs, n) ==
  /\ at \in [0 .. n -> Memory]
  /\ at[0] = m
  /\ \A k \in 1 .. n : at[k] = Apply(at[k - 1], cs[k].src, cs[k].dst)

LEMMA InTurnSteps ==
  ASSUME NEW m, NEW cs
  PROVE  InTurn(m, cs) = (CHOOSE at : Stepping(at, m, cs, Len(cs)))[Len(cs)]
BY DEF InTurn, Stepping

(* There are such contents: no least prefix lacks them. *)
LEMMA StepsExist ==
  ASSUME NEW m \in Memory, NEW cs, NEW n, Moves(cs, n)
  PROVE  \E at : Steps(at, m, cs, n)
<1> DEFINE U == {l \in 0 .. n : ~\E at : Steps(at, m, cs, l)}
<1>1. n \in Nat /\ U \in SUBSET Nat
  BY DEF Moves
<1>2. ASSUME U # {} PROVE FALSE
  <2>1. PICK l \in U : \A i \in U : l <= i
    BY <1>1, <1>2, Least
  <2>2. l \in 0 .. n /\ l \in Nat
    BY <1>1
  <2>3. l # 0
    <3>1. Steps([k \in 0 .. 0 |-> m], m, cs, 0)
      BY DEF Steps
    <3> QED BY <2>1, <3>1
  <2>4. l - 1 \in 0 .. n /\ l - 1 \notin U
    BY <1>1, <2>1, <2>2, <2>3
  <2>5. PICK a : Steps(a, m, cs, l - 1)
    BY <2>4
  <2> DEFINE v == Apply(a[l - 1], cs[l].src, cs[l].dst)
             h == [k \in 0 .. l |-> IF k = l THEN v ELSE a[k]]
  <2>6. v \in Memory
    <3>1. cs[l].src \in Bufs /\ cs[l].dst \in Bufs
      BY <2>2, <2>3 DEF Moves
    <3>2. a[l - 1] \in Memory
      BY <2>2, <2>3, <2>5 DEF Steps
    <3> QED BY <3>1, <3>2, ApplyType
  <2> HIDE DEF v
  <2>7. \A k \in 0 .. l : k # l => k \in 0 .. l - 1
    BY <2>2
  <2>8. h \in [0 .. l -> Memory] /\ h[0] = m
    BY <2>2, <2>3, <2>5, <2>6, <2>7 DEF Steps
  <2>9. ASSUME NEW k \in 1 .. l
        PROVE  h[k] = Apply(h[k - 1], cs[k].src, cs[k].dst)
    <3>1. k \in 0 .. l /\ k - 1 \in 0 .. l /\ k - 1 # l
      BY <2>2
    <3>2. CASE k = l
      BY <3>1, <3>2 DEF v
    <3>3. CASE k # l
      <4>1. k \in 1 .. l - 1
        BY <2>2, <3>3
      <4> QED BY <2>5, <3>1, <3>3, <4>1 DEF Steps
    <3> QED BY <3>2, <3>3
  <2>10. Steps(h, m, cs, l)
    BY <2>8, <2>9 DEF Steps
  <2> QED BY <2>1, <2>10
<1>3. n \in 0 .. n /\ n \notin U
  BY <1>1, <1>2
<1> QED BY <1>3

LEMMA InTurnIs ==
  ASSUME NEW m \in Memory, NEW cs, Moves(cs, Len(cs))
  PROVE  \E at : Steps(at, m, cs, Len(cs)) /\ InTurn(m, cs) = at[Len(cs)]
<1> DEFINE n == Len(cs)
<1>0. n \in Nat
  BY DEF Moves
<1>1. PICK a : Steps(a, m, cs, n)
  BY StepsExist
<1>2. Stepping(a, m, cs, n)
  <2>1. \A k \in 0 .. n : k # 0 => k \in 1 .. n
    BY <1>0
  <2>2. a = [k \in 0 .. n |-> a[k]]
    BY <1>1 DEF Steps
  <2>3. \A k \in 0 .. n :
          a[k] = IF k = 0 THEN m ELSE Apply(a[k - 1], cs[k].src, cs[k].dst)
    BY <1>1, <2>1 DEF Steps
  <2> HIDE DEF n
  <2> QED BY <2>2, <2>3 DEF Stepping
<1> DEFINE at == CHOOSE f : Stepping(f, m, cs, n)
<1>3. Stepping(at, m, cs, n)
  BY <1>2
<1>4. InTurn(m, cs) = at[n]
  BY InTurnSteps
<1> HIDE DEF at
<1>5. /\ DOMAIN at = 0 .. n
      /\ at[0] = m
      /\ \A k \in 1 .. n : at[k] = Apply(at[k - 1], cs[k].src, cs[k].dst)
  <2>1. 0 \in 0 .. n /\ \A k \in 1 .. n : k \in 0 .. n /\ k # 0
    BY <1>0
  <2> HIDE DEF n
  <2>2. DOMAIN at = 0 .. n
    BY <1>3 DEF Stepping
  <2>3. \A k \in 0 .. n :
          at[k] = IF k = 0 THEN m ELSE Apply(at[k - 1], cs[k].src, cs[k].dst)
    BY <1>3 DEF Stepping
  <2> QED BY <2>1, <2>2, <2>3
<1> DEFINE U == {k \in 0 .. n : at[k] # a[k]}
<1>6. ASSUME U # {} PROVE FALSE
  <2>0. U \in SUBSET Nat
    BY <1>0
  <2>1. PICK l \in U : \A i \in U : l <= i
    BY <1>6, <2>0, Least
  <2>2. l \in 0 .. n /\ l # 0
    BY <1>1, <1>5, <2>1 DEF Steps
  <2>3. l \in 1 .. n /\ l - 1 \in 0 .. n /\ l - 1 \notin U
    BY <1>0, <2>1, <2>2
  <2>4. at[l - 1] = a[l - 1]
    BY <2>3
  <2> QED BY <1>1, <1>5, <2>1, <2>3, <2>4 DEF Steps
<1>7. n \in 0 .. n
  BY <1>0
<1>8. at[n] = a[n]
  BY <1>6, <1>7
<1> QED BY <1>1, <1>4, <1>8

(* Commands within the buffers of B leave the others alone, and take the   *)
(* same contents of B to the same.                                         *)
Within(cs, n, B) == n \in Nat /\ \A k \in 1 .. n : cs[k].src \in B /\ cs[k].dst \in B

LEMMA Outside ==
  ASSUME NEW B \in SUBSET Bufs, NEW m, NEW cs, NEW n, Within(cs, n, B), NEW at, Steps(at, m, cs, n),
         NEW b \in Bufs \ B
  PROVE  at[n][b] = m[b]
<1> DEFINE U == {k \in 0 .. n : at[k][b] # m[b]}
<1>0. n \in Nat /\ at[0] = m /\ U \in SUBSET Nat
  BY DEF Within, Steps
<1>1. ASSUME U # {} PROVE FALSE
  <2>1. PICK l \in U : \A i \in U : l <= i
    BY <1>0, <1>1, Least
  <2>2. l \in 1 .. n /\ l - 1 \in 0 .. n /\ l - 1 \notin U
    BY <1>0, <2>1
  <2>3. at[l - 1][b] = m[b]
    BY <2>2
  <2>4. /\ at[l - 1] \in Memory /\ cs[l].src \in Bufs /\ cs[l].dst \in Bufs
        /\ b \in Bufs /\ b # cs[l].dst
        /\ at[l] = Apply(at[l - 1], cs[l].src, cs[l].dst)
    BY <2>2 DEF Within, Steps
  <2> HIDE DEF U
  <2>5. at[l][b] = at[l - 1][b]
    <3>1. PICK x, y, a : x = cs[l].src /\ y = cs[l].dst /\ a = at[l - 1]
      OBVIOUS
    <3>2. x \in Bufs /\ y \in Bufs /\ a \in Memory /\ b \in Bufs /\ b # y
      BY <2>4, <3>1
    <3>3. Apply(a, x, y)[b] = a[b]
      BY <3>2, ApplyType
    <3> QED BY <2>4, <3>1, <3>3
  <2> USE DEF U
  <2> QED BY <2>1, <2>3, <2>5
<1>2. n \in 0 .. n
  BY <1>0
<1> QED BY <1>1, <1>2

LEMMA Agreement ==
  ASSUME NEW B \in SUBSET Bufs, NEW m, NEW w, \A b \in B : m[b] = w[b],
         NEW cs, NEW n, Within(cs, n, B),
         NEW f, Steps(f, m, cs, n), NEW g, Steps(g, w, cs, n), NEW b \in B
  PROVE  f[n][b] = g[n][b]
<1> DEFINE U == {k \in 0 .. n : \E c \in B : f[k][c] # g[k][c]}
<1>0. n \in Nat /\ f[0] = m /\ g[0] = w /\ U \in SUBSET Nat
  BY DEF Within, Steps
<1>1. ASSUME U # {} PROVE FALSE
  <2>1. PICK l \in U : \A i \in U : l <= i
    BY <1>0, <1>1, Least
  <2>2. l \in 1 .. n /\ l - 1 \in 0 .. n /\ l - 1 \notin U
    BY <1>0, <2>1
  <2>3. PICK c \in B : f[l][c] # g[l][c]
    BY <2>1
  <2>4. \A d \in B : f[l - 1][d] = g[l - 1][d]
    BY <2>2
  <2>5. /\ f[l - 1] \in Memory /\ g[l - 1] \in Memory
        /\ cs[l].src \in B /\ cs[l].dst \in B /\ cs[l].src \in Bufs /\ cs[l].dst \in Bufs
        /\ c \in Bufs
        /\ f[l] = Apply(f[l - 1], cs[l].src, cs[l].dst)
        /\ g[l] = Apply(g[l - 1], cs[l].src, cs[l].dst)
    BY <2>2 DEF Within, Steps
  <2>6. /\ f[l][c] = IF c = cs[l].dst THEN F(f[l - 1][cs[l].src]) ELSE f[l - 1][c]
        /\ g[l][c] = IF c = cs[l].dst THEN F(g[l - 1][cs[l].src]) ELSE g[l - 1][c]
    <3> HIDE DEF U
    <3>1. PICK x, y, p, q : /\ x = cs[l].src /\ y = cs[l].dst
                            /\ p = f[l - 1] /\ q = g[l - 1]
      OBVIOUS
    <3>2. x \in Bufs /\ y \in Bufs /\ p \in Memory /\ q \in Memory /\ c \in Bufs
      BY <2>5, <3>1
    <3>3. /\ Apply(p, x, y)[c] = IF c = y THEN F(p[x]) ELSE p[c]
          /\ Apply(q, x, y)[c] = IF c = y THEN F(q[x]) ELSE q[c]
      BY <3>2, ApplyType
    <3> QED BY <2>5, <3>1, <3>3
  <2> QED BY <2>3, <2>4, <2>5, <2>6
<1>2. n \in 0 .. n
  BY <1>0
<1> QED BY <1>1, <1>2

-----------------------------------------------------------------------------
(* The invariant.  An entry of a tape holds the buffers it was called with.*)
Frozen == {r \in Entry : r.src = r.asked[1] /\ r.dst = r.asked[2]}

MTyped ==
  /\ mem \in Memory /\ want \in Memory
  /\ users \in [Bufs -> SUBSET Ids] /\ order \in [Queues -> SUBSET Ids]
  /\ tape \in [Queues -> Seq(Frozen)] /\ graph \in Seq(Frozen)

NoMarks == \A e \in MetalEvents : marks[e] = {}

(* The buffers in use belong each to one stream, which all the operators   *)
(* on it come before, *)
Owned(s) == {b \in Bufs : users[b] # {} /\ users[b] \subseteq order[s]}
Apart == \A s, t \in Queues : s # t => order[s] \cap order[t] = {}
Kept == \A b \in Bufs : users[b] # {} => \E s \in Queues : b \in Owned(s)

(* the commands of a stream use the buffers it owns, *)
Touching == \A s \in Queues : Within(committed[s], Len(committed[s]), Owned(s))

(* and take them, one after the other, to what the program expects.        *)
Trace(s, h) ==
  /\ h \in [0 .. Len(committed[s]) -> Memory]
  /\ \A b \in Owned(s) : h[0][b] = mem[b] /\ h[Len(committed[s])][b] = want[b]
  /\ \A k \in 1 .. Len(committed[s]) : \A b \in Owned(s) :
       h[k][b] = Apply(h[k - 1], committed[s][k].src, committed[s][k].dst)[b]
Arrives == \A s \in Queues : \E h : Trace(s, h)

Flow == Apart /\ Kept /\ Touching /\ Arrives /\ ProgramOrder
MInv == IInv /\ MTyped /\ NoMarks /\ Flow

LEMMA OwnApart ==
  ASSUME Apart, NEW s \in Queues, NEW t \in Queues, s # t
  PROVE  Owned(s) \cap Owned(t) = {}
BY DEF Apart, Owned

(* What leaves the streams and the buffers in use alone leaves the flow.   *)
LEMMA FlowStays ==
  ASSUME Apart, Kept, Touching, Arrives, UNCHANGED <<committed, users, order>>,
         \A b \in Bufs : users[b] # {} => mem'[b] = mem[b] /\ want'[b] = want[b]
  PROVE  Apart' /\ Kept' /\ Touching' /\ Arrives'
<1>1. \A s : Owned(s)' = Owned(s)
  BY DEF Owned
<1>2. Apart' /\ Kept' /\ Touching'
  BY <1>1 DEF Apart, Kept, Touching, Within
<1>3. ASSUME NEW s \in Queues PROVE \E h : Trace(s, h)'
  <2>1. PICK h : Trace(s, h)
    BY DEF Arrives
  <2>2. \A b \in Owned(s) : mem'[b] = mem[b] /\ want'[b] = want[b]
    BY DEF Owned
  <2>3. Trace(s, h)'
    BY <1>1, <2>1, <2>2 DEF Trace
  <2> QED BY <2>3
<1> QED BY <1>2, <1>3 DEF Arrives

(* Using buffers on a stream makes them the stream's.                      *)
LEMMA UseOwns ==
  ASSUME MTyped, Apart, Kept, NEW s \in Queues, NEW bs \in SUBSET Bufs, MayUse(s, bs),
         NEW id \in Fresh, Use(s, bs, id)
  PROVE  /\ users' \in [Bufs -> SUBSET Ids] /\ order' \in [Queues -> SUBSET Ids]
         /\ UNCHANGED marks
         /\ Apart' /\ Kept'
         /\ Owned(s)' = Owned(s) \cup bs
         /\ \A t \in Queues : t # s => Owned(t)' = Owned(t) /\ Owned(t) \cap bs = {}
         /\ \A b \in bs : users[b] # {} => b \in Owned(s)
         /\ \A b \in Bufs : users'[b] = {} => b \notin bs /\ users[b] = {}
<1>1. /\ id \in Ids
      /\ \A b \in Bufs : id \notin users[b]
      /\ \A t \in Queues : id \notin order[t]
  BY DEF Fresh, Known
<1>2. /\ users \in [Bufs -> SUBSET Ids] /\ order \in [Queues -> SUBSET Ids]
      /\ users' = [b \in Bufs |-> IF b \in bs THEN users[b] \cup {id} ELSE users[b]]
      /\ order' = [order EXCEPT ![s] = order[s] \cup {id}]
      /\ UNCHANGED marks
  BY DEF Use, MTyped
<1>3. \A b \in bs : b \in Bufs /\ users[b] \subseteq order[s]
  BY DEF MayUse
<1>4. users' \in [Bufs -> SUBSET Ids] /\ order' \in [Queues -> SUBSET Ids]
  BY <1>1, <1>2
<1>5. /\ order'[s] = order[s] \cup {id}
      /\ \A t \in Queues : t # s => order'[t] = order[t]
      /\ \A b \in bs : users'[b] = users[b] \cup {id}
      /\ \A b \in Bufs \ bs : users'[b] = users[b]
  BY <1>2, <1>3
<1>6. Apart'
  BY <1>1, <1>5 DEF Apart
<1>7. Owned(s)' = Owned(s) \cup bs
  <2>1. ASSUME NEW b \in Bufs PROVE b \in Owned(s)' <=> b \in Owned(s) \cup bs
    <3>1. CASE b \in bs
      BY <1>3, <1>5, <3>1 DEF Owned
    <3>2. CASE b \notin bs
      BY <1>1, <1>5, <3>2 DEF Owned
    <3> QED BY <3>1, <3>2
  <2>2. Owned(s)' \subseteq Bufs /\ Owned(s) \subseteq Bufs
    BY DEF Owned
  <2> QED BY <2>1, <2>2
<1>8. \A t \in Queues : t # s => Owned(t)' = Owned(t) /\ Owned(t) \cap bs = {}
  <2> SUFFICES ASSUME NEW t \in Queues, t # s
               PROVE  Owned(t)' = Owned(t) /\ Owned(t) \cap bs = {}
    OBVIOUS
  <2>1. order[s] \cap order[t] = {}
    BY DEF Apart
  <2>2. Owned(t) \cap bs = {}
    BY <1>3, <2>1 DEF Owned
  <2>3. ASSUME NEW b \in Bufs PROVE b \in Owned(t)' <=> b \in Owned(t)
    <3>1. CASE b \in bs
      BY <1>1, <1>5, <2>2, <3>1 DEF Owned
    <3>2. CASE b \notin bs
      BY <1>5, <3>2 DEF Owned
    <3> QED BY <3>1, <3>2
  <2>4. Owned(t)' \subseteq Bufs /\ Owned(t) \subseteq Bufs
    BY DEF Owned
  <2> QED BY <2>2, <2>3, <2>4
<1>9. Kept'
  <2> SUFFICES ASSUME NEW b \in Bufs, users'[b] # {}
               PROVE  \E t \in Queues : b \in Owned(t)'
    BY DEF Kept
  <2>1. CASE b \in bs
    BY <1>7, <2>1
  <2>2. CASE b \notin bs
    <3>1. PICK t \in Queues : b \in Owned(t)
      BY <1>5, <2>2 DEF Kept
    <3> QED BY <1>7, <1>8, <3>1
  <2> QED BY <2>1, <2>2
<1>10. \A b \in bs : users[b] # {} => b \in Owned(s)
  BY <1>3 DEF Owned
<1>11. \A b \in Bufs : users'[b] = {} => b \notin bs /\ users[b] = {}
  BY <1>5
<1> QED BY <1>2, <1>4, <1>6, <1>7, <1>8, <1>9, <1>10, <1>11

(* Committing commands that the program sees done at once.                 *)
LEMMA CommitFlows ==
  ASSUME MInv, NEW s \in Queues, NEW cs \in Seq(Command), cs # <<>>,
         NEW bs \in SUBSET Bufs, Within(cs, Len(cs), bs), MayUse(s, bs),
         NEW id \in Fresh, Commit(s, cs), Use(s, bs, id), UNCHANGED mem,
         NEW at, Steps(at, want, cs, Len(cs)), want' = at[Len(cs)]
  PROVE  Flow'
<1> DEFINE n == Len(committed[s])
           l == Len(cs)
<1>1. /\ committed \in [Queues -> Seq(Command)] /\ committed[s] \in Seq(Command)
      /\ n \in Nat /\ l \in Nat \ {0}
      /\ MTyped /\ Apart /\ Kept /\ Touching /\ Arrives /\ ProgramOrder
  <2>1. committed[s] \in Seq(Command)
    BY DEF MInv, IInv, Typed
  <2>2. n \in Nat
    BY <2>1, LenProperties
  <2>3. l \in Nat \ {0}
    BY NonEmpty
  <2> QED BY <2>1, <2>2, <2>3 DEF MInv, IInv, Typed, Flow
<1>2. /\ Apart' /\ Kept'
      /\ Owned(s)' = Owned(s) \cup bs
      /\ \A t \in Queues : t # s => Owned(t)' = Owned(t) /\ Owned(t) \cap bs = {}
      /\ \A b \in bs : users[b] # {} => b \in Owned(s)
      /\ \A b \in Bufs : users'[b] = {} => b \notin bs /\ users[b] = {}
  BY <1>1, UseOwns
<1>3. \A b \in Bufs \ bs : want'[b] = want[b]
  BY Outside
<1>4. /\ committed'[s] = committed[s] \o cs
      /\ \A t \in Queues : t # s => committed'[t] = committed[t]
  BY <1>1 DEF Commit
<1>5. /\ Len(committed'[s]) = n + l
      /\ \A k \in 1 .. n : committed'[s][k] = committed[s][k]
      /\ \A k \in 1 .. l : committed'[s][n + k] = cs[k]
  <2>1. /\ Len(committed[s] \o cs) = n + l
        /\ \A i \in 1 .. n + l :
             (committed[s] \o cs)[i] = IF i <= n THEN committed[s][i] ELSE cs[i - n]
    BY <1>1, ConcatProperties
  <2> HIDE DEF n, l
  <2>2. \A k \in 1 .. n : k \in 1 .. n + l /\ k <= n
    BY <1>1
  <2>3. \A k \in 1 .. l : n + k \in 1 .. n + l /\ ~(n + k <= n) /\ (n + k) - n = k
    BY <1>1
  <2> QED BY <1>4, <2>1, <2>2, <2>3
<1>6. ProgramOrder'
  BY <1>1, <1>2, <1>3 DEF ProgramOrder
<1> HIDE DEF n, l
<1>7. \A k \in 1 .. n + l : k \in 1 .. n \/ \E i \in 1 .. l : k = n + i
  <2> SUFFICES ASSUME NEW k \in 1 .. n + l, k \notin 1 .. n
               PROVE  \E i \in 1 .. l : k = n + i
    OBVIOUS
  <2>1. k - n \in 1 .. l /\ k = n + (k - n)
    BY <1>1
  <2> QED BY <2>1
<1>8. Within(committed[s], n, Owned(s)) /\ Within(cs, l, bs)
  BY <1>1 DEF Touching, n, l
<1>9. Touching'
  <2>1. Within(committed'[s], n + l, Owned(s)')
    <3>1. ASSUME NEW k \in 1 .. n + l
          PROVE  committed'[s][k].src \in Owned(s)' /\ committed'[s][k].dst \in Owned(s)'
      <4>1. CASE k \in 1 .. n
        BY <1>2, <1>5, <1>8, <4>1 DEF Within
      <4>2. CASE \E i \in 1 .. l : k = n + i
        <5>1. PICK i \in 1 .. l : k = n + i
          BY <4>2
        <5>2. committed'[s][k] = cs[i]
          BY <1>5, <5>1
        <5>3. cs[i].src \in bs /\ cs[i].dst \in bs
          BY <1>8, <5>1 DEF Within
        <5> QED BY <1>2, <5>2, <5>3
      <4> QED BY <1>7, <4>1, <4>2
    <3>2. n + l \in Nat
      BY <1>1
    <3> QED BY <3>1, <3>2 DEF Within
  <2>2. ASSUME NEW t \in Queues, t # s PROVE Within(committed'[t], Len(committed'[t]), Owned(t)')
    BY <1>1, <1>2, <1>4, <2>2 DEF Touching
  <2>3. ASSUME NEW t \in Queues PROVE Within(committed'[t], Len(committed'[t]), Owned(t)')
    BY <1>5, <2>1, <2>2
  <2> QED BY <2>3 DEF Touching, Within
<1>10. ASSUME NEW t \in Queues, t # s PROVE \E h : Trace(t, h)'
  <2>1. PICK h : Trace(t, h)
    BY <1>1 DEF Arrives
  <2>2. Owned(t)' = Owned(t) /\ committed'[t] = committed[t]
    BY <1>2, <1>4, <1>10
  <2>3. \A b \in Owned(t) : mem'[b] = mem[b] /\ want'[b] = want[b]
    BY <1>2, <1>3, <1>10 DEF Owned
  <2>4. Trace(t, h)'
    BY <2>1, <2>2, <2>3 DEF Trace
  <2> QED BY <2>4
<1>11. \E h : Trace(s, h)'
  <2>1. PICK g : Trace(s, g)
    BY <1>1 DEF Arrives
  <2>2. /\ g \in [0 .. n -> Memory]
        /\ \A b \in Owned(s) : g[0][b] = mem[b] /\ g[n][b] = want[b]
        /\ \A k \in 1 .. n : \A b \in Owned(s) :
             g[k][b] = Apply(g[k - 1], committed[s][k].src, committed[s][k].dst)[b]
    BY <2>1 DEF Trace, n
  <2>3. /\ at \in [0 .. l -> Memory] /\ at[0] = want
        /\ \A k \in 1 .. l : at[k] = Apply(at[k - 1], cs[k].src, cs[k].dst)
        /\ want' = at[l]
    BY DEF Steps, l
  <2> DEFINE e(k) == [b \in Bufs |-> IF users[b] = {} THEN mem[b] ELSE g[k][b]]
             h == [k \in 0 .. n + l |-> IF k <= n THEN e(k) ELSE at[k - n]]
  <2>4. \A k \in 0 .. n : e(k) \in Memory
    BY <1>1, <2>2 DEF MTyped, Memory
  <2>5. /\ \A k \in 0 .. n : k \in 0 .. n + l /\ h[k] = e(k)
        /\ \A k \in 1 .. l : h[n + k] = at[k]
    <3>1. \A k \in 0 .. n : k \in 0 .. n + l /\ k <= n
      BY <1>1
    <3>2. \A k \in 1 .. l : n + k \in 0 .. n + l /\ ~(n + k <= n) /\ (n + k) - n = k
      BY <1>1
    <3> HIDE DEF e
    <3> QED BY <3>1, <3>2
  <2>6. \A b \in Owned(s) \cup bs : /\ b \in Bufs
                                    /\ e(0)[b] = mem[b] /\ e(n)[b] = want[b]
    <3>1. \A b \in Owned(s) : users[b] # {} /\ b \in Bufs
      BY DEF Owned
    <3>2. \A b \in bs : users[b] = {} => mem[b] = want[b]
      BY <1>1 DEF ProgramOrder
    <3> QED BY <1>1, <1>2, <2>2, <3>1, <3>2
  <2>7. ASSUME NEW k \in 1 .. n, NEW b \in Owned(s) \cup bs
        PROVE  e(k)[b] = Apply(e(k - 1), committed'[s][k].src, committed'[s][k].dst)[b]
    <3>1. PICK x, y, p, q : /\ x = committed[s][k].src /\ y = committed[s][k].dst
                            /\ p = g[k - 1] /\ q = e(k - 1)
      OBVIOUS
    <3>2. /\ x \in Owned(s) /\ y \in Owned(s) /\ x \in Bufs /\ y \in Bufs /\ b \in Bufs
          /\ users[x] # {} /\ users[y] # {}
      BY <1>8, <3>1 DEF Within, Owned
    <3>3. k - 1 \in 0 .. n /\ k \in 0 .. n
      BY <1>1
    <3>4. p \in Memory /\ q \in Memory
      BY <2>2, <2>4, <3>1, <3>3
    <3>5. /\ Apply(p, x, y)[b] = IF b = y THEN F(p[x]) ELSE p[b]
          /\ Apply(q, x, y)[b] = IF b = y THEN F(q[x]) ELSE q[b]
      <4>1. p \in Memory /\ q \in Memory /\ x \in Bufs /\ y \in Bufs /\ b \in Bufs
        BY <3>2, <3>4, Zenon
      <4>2. Apply(p, x, y)[b] = IF b = y THEN F(p[x]) ELSE p[b]
        BY <4>1, ApplyType
      <4>3. Apply(q, x, y)[b] = IF b = y THEN F(q[x]) ELSE q[b]
        BY <4>1, ApplyType
      <4> QED BY <4>2, <4>3, Zenon
    <3>6. q[x] = p[x] /\ q[b] = IF users[b] = {} THEN mem[b] ELSE p[b]
      BY <3>1, <3>2
    <3>7. e(k)[b] = IF users[b] = {} THEN mem[b] ELSE g[k][b]
      BY <3>2
    <3>8. users[b] # {} => b \in Owned(s) /\ g[k][b] = Apply(p, x, y)[b]
      BY <1>2, <2>2, <3>1
    <3>9. committed'[s][k] = committed[s][k]
      BY <1>5
    <3>10. e(k)[b] = Apply(q, x, y)[b]
      BY <3>2, <3>5, <3>6, <3>7, <3>8
    <3> HIDE DEF e
    <3> QED BY <3>1, <3>9, <3>10
  <2>8. ASSUME NEW k \in 1 .. l, NEW b \in Owned(s) \cup bs
        PROVE  h[n + k][b] = Apply(h[(n + k) - 1], committed'[s][n + k].src, committed'[s][n + k].dst)[b]
    <3>1. PICK x, y, p, q : /\ x = cs[k].src /\ y = cs[k].dst
                            /\ p = at[k - 1] /\ q = h[(n + k) - 1]
      OBVIOUS
    <3>2. x \in bs /\ x \in Bufs /\ y \in Bufs /\ b \in Bufs
      BY <1>8, <3>1 DEF Within, Owned
    <3>3. k - 1 \in 0 .. l /\ n \in 0 .. n
      BY <1>1
    <3>4. /\ p \in Memory /\ q \in Memory
          /\ q[x] = p[x] /\ q[b] = p[b]
      <4>1. CASE k = 1
        <5>1. (n + k) - 1 = n /\ k - 1 = 0
          BY <1>1, <4>1
        <5> HIDE DEF e, h
        <5>2. p = want /\ q = e(n)
          BY <2>3, <2>5, <3>1, <3>3, <5>1
        <5>3. q \in Memory
          BY <2>4, <3>3, <5>2
        <5> QED BY <1>1, <2>6, <3>2, <5>2, <5>3 DEF MTyped
      <4>2. CASE k # 1
        <5>1. (n + k) - 1 = n + (k - 1) /\ k - 1 \in 1 .. l
          BY <1>1, <4>2
        <5>2. q = p
          BY <2>5, <3>1, <5>1
        <5>3. p \in Memory
          BY <2>3, <3>1, <3>3
        <5> QED BY <5>2, <5>3
      <4> QED BY <4>1, <4>2
    <3>5. /\ Apply(p, x, y)[b] = IF b = y THEN F(p[x]) ELSE p[b]
          /\ Apply(q, x, y)[b] = IF b = y THEN F(q[x]) ELSE q[b]
      <4>1. p \in Memory /\ q \in Memory /\ x \in Bufs /\ y \in Bufs /\ b \in Bufs
        BY <3>2, <3>4, Zenon
      <4>2. Apply(p, x, y)[b] = IF b = y THEN F(p[x]) ELSE p[b]
        BY <4>1, ApplyType
      <4>3. Apply(q, x, y)[b] = IF b = y THEN F(q[x]) ELSE q[b]
        BY <4>1, ApplyType
      <4> QED BY <4>2, <4>3, Zenon
    <3>6. h[n + k] = at[k] /\ at[k] = Apply(p, x, y) /\ committed'[s][n + k] = cs[k]
      BY <1>5, <2>3, <2>5, <3>1
    <3> HIDE DEF h
    <3> QED BY <3>1, <3>4, <3>5, <3>6
  <2>9. h \in [0 .. n + l -> Memory]
    <3>1. ASSUME NEW k \in 0 .. n + l PROVE h[k] \in Memory
      <4>1. CASE k <= n
        <5>1. k \in 0 .. n
          BY <1>1, <4>1
        <5> QED BY <2>4, <2>5, <5>1
      <4>2. CASE ~(k <= n)
        <5>1. k - n \in 0 .. l
          BY <1>1, <4>2
        <5> QED BY <2>3, <4>2, <5>1
      <4> QED BY <4>1, <4>2
    <3> QED BY <3>1
  <2>10. \A b \in Owned(s) \cup bs : h[0][b] = mem[b] /\ h[n + l][b] = want'[b]
    <3>1. 0 \in 0 .. n /\ l \in 1 .. l
      BY <1>1
    <3> HIDE DEF e, h
    <3> QED BY <2>3, <2>5, <2>6, <3>1
  <2>11. ASSUME NEW k \in 1 .. n + l, NEW b \in Owned(s) \cup bs
         PROVE  h[k][b] = Apply(h[k - 1], committed'[s][k].src, committed'[s][k].dst)[b]
    <3>1. CASE k \in 1 .. n
      <4>1. k \in 0 .. n /\ k - 1 \in 0 .. n
        BY <1>1, <3>1
      <4>2. h[k] = e(k) /\ h[k - 1] = e(k - 1)
        BY <2>5, <4>1
      <4> HIDE DEF e, h
      <4> QED BY <2>7, <3>1, <4>2
    <3>2. CASE \E i \in 1 .. l : k = n + i
      <4> HIDE DEF e, h
      <4> QED BY <2>8, <3>2
    <3> QED BY <1>7, <3>1, <3>2
  <2> HIDE DEF h
  <2>12. PICK f : f = h
    OBVIOUS
  <2>13. Trace(s, f)'
    BY <1>2, <1>5, <2>9, <2>10, <2>11, <2>12 DEF Trace
  <2> QED BY <2>13
<1>12. Arrives'
  BY <1>10, <1>11 DEF Arrives
<1> QED BY <1>2, <1>6, <1>9, <1>12 DEF Flow

LEMMA LaunchFlows ==
  ASSUME MInv, NEW s \in Queues, NEW x \in Tensors, NEW y \in Tensors, LaunchKernel(s, x, y)
  PROVE  Flow'
<1>1. data[x] \in Bufs /\ data[y] \in Bufs /\ want \in Memory /\ UNCHANGED mem
  BY DEF MInv, IInv, Typed, MTyped, LaunchKernel
<1> DEFINE bs == {data[x], data[y]}
<1>2. PICK id \in Fresh : /\ Commit(s, <<[id |-> id, src |-> data[x], dst |-> data[y]]>>)
                          /\ Use(s, bs, id)
  BY DEF LaunchKernel
<1>3. MayUse(s, bs) /\ want' = Apply(want, data[x], data[y])
  BY DEF LaunchKernel
<1> DEFINE c == [id |-> id, src |-> data[x], dst |-> data[y]]
           at == [k \in 0 .. 1 |-> IF k = 0 THEN want ELSE Apply(want, data[x], data[y])]
<1>4. c \in Command /\ c.src = data[x] /\ c.dst = data[y]
  BY <1>1 DEF Fresh, Command
<1>5. Apply(want, data[x], data[y]) \in Memory
  BY <1>1, ApplyType
<1> HIDE DEF c
<1>6. <<c>> \in Seq(Command) /\ <<c>> # <<>> /\ Len(<<c>>) = 1 /\ <<c>>[1] = c
  BY <1>4
<1>7. Within(<<c>>, Len(<<c>>), bs)
  BY <1>4, <1>6 DEF Within
<1>8. /\ at \in [0 .. 1 -> Memory] /\ at[0] = want
      /\ at[1] = Apply(want, data[x], data[y])
  BY <1>1, <1>5
<1>9. PICK f : f = at
  OBVIOUS
<1>10. Steps(f, want, <<c>>, Len(<<c>>)) /\ want' = f[Len(<<c>>)]
  BY <1>3, <1>4, <1>6, <1>8, <1>9 DEF Steps
<1>11. bs \in SUBSET Bufs /\ Commit(s, <<c>>)
  BY <1>1, <1>2 DEF c
<1> HIDE DEF bs, at
<1> QED BY <1>1, <1>2, <1>3, <1>6, <1>7, <1>10, <1>11, CommitFlows

(* The entries of the model run as they were called. *)
LEMMA GraphRuns ==
  ASSUME graph \in Seq(Frozen)
  PROVE  /\ \A k \in 1 .. Len(graph) :
              /\ Resolve(graph[k].src) = graph[k].asked[1]
              /\ Resolve(graph[k].dst) = graph[k].asked[2]
         /\ Resolved = Asked /\ Len(Asked) = Len(graph)
         /\ GraphBufs \in SUBSET Bufs
         /\ Within(Asked, Len(graph), GraphBufs) /\ Moves(Asked, Len(graph))
<1>1. /\ Len(graph) \in Nat /\ DOMAIN graph = 1 .. Len(graph)
      /\ graph \in [1 .. Len(graph) -> Frozen]
  BY LenProperties
<1>2. \A k \in 1 .. Len(graph) :
        /\ graph[k].src = graph[k].asked[1] /\ graph[k].dst = graph[k].asked[2]
        /\ graph[k].asked[1] \in Bufs /\ graph[k].asked[2] \in Bufs
  BY <1>1 DEF Frozen, Entry
<1>3. \A k \in 1 .. Len(graph) :
        /\ Resolve(graph[k].src) = graph[k].asked[1]
        /\ Resolve(graph[k].dst) = graph[k].asked[2]
  BY <1>2, RefAssumption DEF Resolve
<1>4. Resolved = Asked
  BY <1>3 DEF Resolved, Asked
<1>5. /\ Asked \in [1 .. Len(graph) -> [src : Bufs, dst : Bufs]]
      /\ \A k \in 1 .. Len(graph) :
           Asked[k].src = graph[k].asked[1] /\ Asked[k].dst = graph[k].asked[2]
  BY <1>2 DEF Asked
<1>6. Len(Asked) = Len(graph)
  BY <1>1, <1>5, SeqDef, LenProperties
<1>7. GraphBufs \in SUBSET Bufs
  BY <1>1, <1>2 DEF GraphBufs
<1>8. \A k \in 1 .. Len(graph) : graph[k].asked[1] \in GraphBufs /\ graph[k].asked[2] \in GraphBufs
  BY <1>1 DEF GraphBufs
<1>9. Within(Asked, Len(graph), GraphBufs)
  BY <1>1, <1>5, <1>8 DEF Within
<1>10. Moves(Asked, Len(graph))
  BY <1>7, <1>9 DEF Within, Moves
<1> QED BY <1>3, <1>4, <1>6, <1>7, <1>9, <1>10

LEMMA ReplayFlows ==
  ASSUME MInv, NEW s \in Queues, ExecuteAsync(s)
  PROVE  Flow'
<1>1. /\ graph \in Seq(Frozen) /\ want \in Memory /\ UNCHANGED mem /\ graph # <<>>
      /\ MayUse(s, GraphBufs) /\ want' = InTurn(want, Asked)
  BY DEF MInv, MTyped, ExecuteAsync
<1> DEFINE n == Len(graph)
           cs(id) == [k \in 1 .. n |-> [id |-> id, src |-> Resolve(graph[k].src),
                                        dst |-> Resolve(graph[k].dst)]]
<1>2. PICK id \in Fresh : Commit(s, cs(id)) /\ Use(s, GraphBufs, id)
  BY DEF ExecuteAsync
<1>3. n \in Nat \ {0}
  BY <1>1, NonEmpty
<1>4. /\ GraphBufs \in SUBSET Bufs /\ Len(Asked) = n
      /\ Within(Asked, n, GraphBufs) /\ Moves(Asked, n)
      /\ \A k \in 1 .. n : /\ Resolve(graph[k].src) = graph[k].asked[1]
                           /\ Resolve(graph[k].dst) = graph[k].asked[2]
  BY <1>1, GraphRuns
<1>5. \A k \in 1 .. n : Asked[k].src = graph[k].asked[1] /\ Asked[k].dst = graph[k].asked[2]
  BY DEF Asked
<1>6. \A k \in 1 .. n : cs(id)[k].src = Asked[k].src /\ cs(id)[k].dst = Asked[k].dst
  BY <1>4, <1>5
<1>7. cs(id) \in [1 .. n -> Command]
  <2>1. id \in Ids
    BY DEF Fresh
  <2>2. \A k \in 1 .. n : Resolve(graph[k].src) \in Bufs /\ Resolve(graph[k].dst) \in Bufs
    BY <1>4, <1>5 DEF Moves
  <2> QED BY <2>1, <2>2 DEF Command
<1> HIDE DEF cs
<1>8. cs(id) \in Seq(Command) /\ Len(cs(id)) = n
  BY <1>3, <1>7, SeqDef, LenProperties
<1>9. cs(id) # <<>>
  BY <1>3, <1>8, EmptySeq
<1> HIDE DEF n
<1>10. Within(cs(id), Len(cs(id)), GraphBufs)
  BY <1>4, <1>6, <1>8 DEF Within
<1>11. PICK at : Steps(at, want, Asked, n) /\ InTurn(want, Asked) = at[n]
  BY <1>1, <1>4, InTurnIs
<1>12. Steps(at, want, cs(id), Len(cs(id))) /\ want' = at[Len(cs(id))]
  BY <1>1, <1>6, <1>8, <1>11 DEF Steps
<1> QED BY <1>1, <1>2, <1>4, <1>8, <1>9, <1>10, <1>12, CommitFlows

(* The model replayed at once. *)
LEMMA ExecuteFlows ==
  ASSUME MInv, Execute
  PROVE  Flow' /\ mem' \in Memory /\ want' \in Memory
<1>1. /\ graph \in Seq(Frozen) /\ want \in Memory /\ mem \in Memory
      /\ Apart /\ Kept /\ Touching /\ Arrives /\ ProgramOrder
      /\ UNCHANGED <<committed, users, order>>
      /\ mem' = InTurn(mem, Resolved) /\ want' = InTurn(want, Asked)
  BY DEF MInv, MTyped, Flow, Execute
<1> DEFINE n == Len(graph)
<1>2. /\ GraphBufs \in SUBSET Bufs /\ Len(Asked) = n /\ Resolved = Asked
      /\ Within(Asked, n, GraphBufs) /\ Moves(Asked, n)
  BY <1>1, GraphRuns
<1> HIDE DEF n
<1>3. PICK f : Steps(f, mem, Asked, n) /\ mem' = f[n]
  BY <1>1, <1>2, InTurnIs
<1>4. PICK g : Steps(g, want, Asked, n) /\ want' = g[n]
  BY <1>1, <1>2, InTurnIs
<1>5. \A b \in GraphBufs : users[b] = {}
  BY DEF Execute, HostMayUse
<1>6. PICK m, w, cs, B : m = mem /\ w = want /\ cs = Asked /\ B = GraphBufs
  OBVIOUS
<1>7. \A b \in GraphBufs : mem[b] = want[b]
  BY <1>1, <1>2, <1>5 DEF ProgramOrder
<1>8. /\ B \in SUBSET Bufs /\ Within(cs, n, B) /\ \A b \in B : m[b] = w[b]
      /\ Steps(f, m, cs, n) /\ Steps(g, w, cs, n)
  BY <1>2, <1>3, <1>4, <1>6, <1>7
<1>9. \A b \in GraphBufs : mem'[b] = want'[b]
  <2>1. \A b \in B : f[n][b] = g[n][b]
    BY <1>8, Agreement
  <2> QED BY <1>3, <1>4, <1>6, <2>1
<1>10. \A b \in Bufs \ GraphBufs : mem'[b] = mem[b] /\ want'[b] = want[b]
  <2>1. \A b \in Bufs \ B : f[n][b] = m[b] /\ g[n][b] = w[b]
    BY <1>8, Outside
  <2> QED BY <1>3, <1>4, <1>6, <2>1
<1>11. mem' \in Memory /\ want' \in Memory
  <2>1. n \in 0 .. n
    BY <1>2 DEF Within
  <2> QED BY <1>3, <1>4, <2>1 DEF Steps
<1>12. ProgramOrder'
  BY <1>1, <1>9, <1>10 DEF ProgramOrder
<1>13. Apart' /\ Kept' /\ Touching' /\ Arrives'
  BY <1>1, <1>5, <1>10, FlowStays
<1> QED BY <1>11, <1>12, <1>13 DEF Flow

(* The first command of a queue takes its effect. *)
LEMMA CompleteFlows ==
  ASSUME MInv, NEW s \in Queues, Complete(s)
  PROVE  Flow' /\ mem' \in Memory
<1> DEFINE n == Len(committed[s])
<1>1. /\ committed \in [Queues -> Seq(Command)] /\ committed[s] \in Seq(Command) /\ committed[s] # <<>>
      /\ Apart /\ Kept /\ Touching /\ Arrives /\ ProgramOrder
      /\ mem \in Memory /\ want \in Memory
      /\ UNCHANGED <<want, users, order>>
  BY DEF MInv, IInv, Typed, MTyped, Flow, Complete, belief
<1>2. /\ n \in Nat \ {0} /\ Head(committed[s]) = committed[s][1]
      /\ Len(Tail(committed[s])) = n - 1
      /\ \A k \in 1 .. n - 1 : Tail(committed[s])[k] = committed[s][k + 1]
  <2>1. n \in Nat \ {0}
    BY <1>1, NonEmpty
  <2>2. /\ Tail(committed[s]) \in Seq(Command) /\ Len(Tail(committed[s])) = n - 1
        /\ Head(committed[s]) = committed[s][1]
        /\ \A k \in 1 .. Len(Tail(committed[s])) : Tail(committed[s])[k] = committed[s][k + 1]
    BY <1>1, HeadTailProperties
  <2> QED BY <2>1, <2>2
<1>3. /\ committed'[s] = Tail(committed[s])
      /\ \A t \in Queues : t # s => committed'[t] = committed[t]
  BY <1>1 DEF Complete
<1> HIDE DEF n
<1>4. PICK x, y : x = committed[s][1].src /\ y = committed[s][1].dst
  OBVIOUS
<1>5. x \in Owned(s) /\ y \in Owned(s) /\ x \in Bufs /\ y \in Bufs
  <2>1. 1 \in 1 .. n
    BY <1>2
  <2> QED BY <1>1, <1>4, <2>1 DEF Touching, Within, Owned, n
<1>6. mem' = Apply(mem, x, y)
  BY <1>2, <1>4 DEF Complete
<1>7. /\ mem' \in Memory
      /\ \A b \in Bufs : mem'[b] = IF b = y THEN F(mem[x]) ELSE mem[b]
  <2>1. /\ Apply(mem, x, y) \in Memory
        /\ \A b \in Bufs : Apply(mem, x, y)[b] = IF b = y THEN F(mem[x]) ELSE mem[b]
    BY <1>1, <1>5, ApplyType
  <2> QED BY <1>6, <2>1
<1>8. \A t : Owned(t)' = Owned(t)
  BY <1>1 DEF Owned
<1>9. Apart' /\ Kept'
  BY <1>1, <1>8 DEF Apart, Kept
<1>10. ProgramOrder'
  <2>1. users[y] # {}
    BY <1>5 DEF Owned
  <2> QED BY <1>1, <1>7, <2>1 DEF ProgramOrder
<1>11. ASSUME NEW t \in Queues PROVE Within(committed'[t], Len(committed'[t]), Owned(t)')
  <2>1. CASE t = s
    <3>1. \A k \in 1 .. n - 1 : k + 1 \in 1 .. n
      BY <1>2
    <3>2. Within(committed[s], n, Owned(s))
      BY <1>1 DEF Touching, n
    <3>3. n - 1 \in Nat
      BY <1>2
    <3>4. ASSUME NEW k \in 1 .. n - 1
          PROVE  Tail(committed[s])[k].src \in Owned(s) /\ Tail(committed[s])[k].dst \in Owned(s)
      BY <1>2, <3>1, <3>2 DEF Within
    <3>5. Within(Tail(committed[s]), n - 1, Owned(s))
      BY <3>3, <3>4 DEF Within
    <3>6. committed'[t] = Tail(committed[s]) /\ Len(committed'[t]) = n - 1 /\ Owned(t)' = Owned(s)
      BY <1>2, <1>3, <1>8, <2>1
    <3> QED BY <3>5, <3>6 DEF Within
  <2>2. CASE t # s
    BY <1>1, <1>3, <1>8, <2>2 DEF Touching
  <2> QED BY <2>1, <2>2
<1>12. ASSUME NEW t \in Queues PROVE \E h : Trace(t, h)'
  <2>1. PICK g : Trace(t, g)
    BY <1>1 DEF Arrives
  <2>2. CASE t # s
    <3>1. y \notin Owned(t)
      BY <1>1, <1>5, <2>2, OwnApart
    <3>2. \A b \in Owned(t) : mem'[b] = mem[b]
      BY <1>7, <3>1 DEF Owned
    <3>3. Trace(t, g)'
      BY <1>1, <1>3, <1>8, <2>1, <2>2, <3>2 DEF Trace
    <3> QED BY <3>3
  <2>3. CASE t = s
    <3>1. /\ g \in [0 .. n -> Memory]
          /\ \A b \in Owned(s) : g[0][b] = mem[b] /\ g[n][b] = want[b]
          /\ \A k \in 1 .. n : \A b \in Owned(s) :
               g[k][b] = Apply(g[k - 1], committed[s][k].src, committed[s][k].dst)[b]
      BY <2>1, <2>3 DEF Trace, n
    <3> DEFINE h == [k \in 0 .. n - 1 |-> g[k + 1]]
    <3>2. \A k \in 0 .. n - 1 : k + 1 \in 0 .. n
      BY <1>2
    <3>3. h \in [0 .. n - 1 -> Memory]
      BY <3>1, <3>2
    <3>4. ASSUME NEW b \in Owned(s) PROVE h[0][b] = mem'[b] /\ h[n - 1][b] = want'[b]
      <4>1. 0 \in 0 .. n - 1 /\ n - 1 \in 0 .. n - 1 /\ (n - 1) + 1 = n /\ 1 \in 1 .. n
            /\ 0 \in 0 .. n /\ 0 + 1 = 1
        BY <1>2
      <4>2. h[0] = g[1] /\ h[n - 1] = g[n]
        BY <4>1
      <4>3. g[1][b] = Apply(g[0], x, y)[b]
        BY <1>4, <3>1, <4>1
      <4>4. PICK p : p = g[0]
        OBVIOUS
      <4>5. p \in Memory /\ b \in Bufs
        BY <3>1, <4>1, <4>4 DEF Owned
      <4>6. Apply(p, x, y)[b] = IF b = y THEN F(p[x]) ELSE p[b]
        BY <1>5, <4>5, ApplyType
      <4>7. p[x] = mem[x] /\ p[b] = mem[b]
        BY <1>5, <3>1, <4>4
      <4>8. g[1][b] = mem'[b]
        BY <1>7, <4>3, <4>4, <4>5, <4>6, <4>7
      <4> QED BY <1>1, <3>1, <4>2, <4>8
    <3>5. ASSUME NEW k \in 1 .. n - 1, NEW b \in Owned(s)
          PROVE  h[k][b] = Apply(h[k - 1], committed'[s][k].src, committed'[s][k].dst)[b]
      <4>1. /\ k \in 0 .. n - 1 /\ k - 1 \in 0 .. n - 1 /\ k + 1 \in 1 .. n
            /\ (k - 1) + 1 = k /\ (k + 1) - 1 = k
        BY <1>2
      <4>2. h[k] = g[k + 1] /\ h[k - 1] = g[k] /\ committed'[s][k] = committed[s][k + 1]
        BY <1>2, <1>3, <4>1
      <4>3. g[k + 1][b] = Apply(g[(k + 1) - 1], committed[s][k + 1].src, committed[s][k + 1].dst)[b]
        BY <3>1, <4>1
      <4> HIDE DEF h
      <4> QED BY <4>1, <4>2, <4>3
    <3>6. Len(committed'[s]) = n - 1
      BY <1>2, <1>3
    <3>7. PICK f : f = h
      OBVIOUS
    <3> HIDE DEF h
    <3>8. Trace(s, f)'
      BY <1>8, <3>3, <3>4, <3>5, <3>6, <3>7 DEF Trace
    <3> QED BY <2>3, <3>8
  <2> QED BY <2>2, <2>3
<1> QED BY <1>7, <1>9, <1>10, <1>11, <1>12 DEF Flow, Touching, Arrives

(* An operator computed on the host finds its stream drained. *)
LEMMA HostFlows ==
  ASSUME MInv, NEW s \in Queues, NEW x \in Tensors, NEW y \in Tensors, HostOp(s, x, y)
  PROVE  Flow' /\ mem' \in Memory /\ want' \in Memory
<1>1. /\ data[x] \in Bufs /\ data[y] \in Bufs /\ mem \in Memory /\ want \in Memory
      /\ committed[s] \in Seq(Command)
      /\ MTyped /\ Apart /\ Kept /\ Touching /\ Arrives /\ ProgramOrder
      /\ UNCHANGED committed
  BY DEF MInv, IInv, Typed, MTyped, Flow, HostOp
<1>2. committed[s] = <<>>
  BY DrainedIsEmpty DEF MInv, HostOp
<1>3. PICK a, b : a = data[x] /\ b = data[y]
  OBVIOUS
<1> DEFINE bs == {a, b}
<1>4. /\ MayUse(s, bs) /\ bs \in SUBSET Bufs /\ a \in bs
      /\ mem' = Apply(mem, a, b) /\ want' = Apply(want, a, b)
  BY <1>1, <1>3 DEF HostOp
<1>5. PICK id \in Fresh : Use(s, bs, id)
  BY <1>3 DEF HostOp
<1>6. /\ mem' \in Memory /\ want' \in Memory
      /\ \A c \in Bufs : /\ mem'[c] = IF c = b THEN F(mem[a]) ELSE mem[c]
                         /\ want'[c] = IF c = b THEN F(want[a]) ELSE want[c]
  <2>1. a \in Bufs /\ b \in Bufs
    BY <1>1, <1>3
  <2>2. /\ Apply(mem, a, b) \in Memory
        /\ \A c \in Bufs : Apply(mem, a, b)[c] = IF c = b THEN F(mem[a]) ELSE mem[c]
    BY <1>1, <2>1, ApplyType
  <2>3. /\ Apply(want, a, b) \in Memory
        /\ \A c \in Bufs : Apply(want, a, b)[c] = IF c = b THEN F(want[a]) ELSE want[c]
    BY <1>1, <2>1, ApplyType
  <2> QED BY <1>4, <2>2, <2>3
<1>7. b \in bs
  OBVIOUS
<1> HIDE DEF bs
<1>8. /\ Apart' /\ Kept'
      /\ Owned(s)' = Owned(s) \cup bs
      /\ \A t \in Queues : t # s => Owned(t)' = Owned(t) /\ Owned(t) \cap bs = {}
      /\ \A c \in bs : users[c] # {} => c \in Owned(s)
      /\ \A c \in Bufs : users'[c] = {} => c \notin bs /\ users[c] = {}
  BY <1>1, <1>4, <1>5, UseOwns
<1>9. Len(committed[s]) = 0
  BY <1>2
<1>10. \A c \in Owned(s) \cup bs : c \in Bufs /\ mem[c] = want[c]
  <2>1. PICK h : Trace(s, h)
    BY <1>1 DEF Arrives
  <2>2. \A c \in Owned(s) : mem[c] = want[c]
    BY <1>9, <2>1 DEF Trace
  <2>3. \A c \in bs : users[c] = {} => mem[c] = want[c]
    BY <1>1, <1>4 DEF ProgramOrder
  <2>4. Owned(s) \subseteq Bufs
    BY DEF Owned
  <2> QED BY <1>4, <1>8, <2>2, <2>3, <2>4
<1>11. \A c \in Owned(s) \cup bs : mem'[c] = want'[c]
  <2>1. F(mem[a]) = F(want[a])
    BY <1>4, <1>10
  <2> QED BY <1>6, <1>10, <2>1
<1>12. ProgramOrder'
  BY <1>1, <1>6, <1>7, <1>8 DEF ProgramOrder
<1>13. ASSUME NEW t \in Queues PROVE Within(committed'[t], Len(committed'[t]), Owned(t)')
  BY <1>1, <1>8 DEF Touching, Within
<1>14. ASSUME NEW t \in Queues PROVE \E h : Trace(t, h)'
  <2>1. CASE t = s
    <3>1. PICK h : h = [k \in 0 .. 0 |-> mem']
      OBVIOUS
    <3>2. h \in [0 .. 0 -> Memory] /\ h[0] = mem'
      BY <1>6, <3>1
    <3>3. Len(committed'[t]) = 0 /\ Owned(t)' = Owned(s) \cup bs
      BY <1>1, <1>8, <1>9, <2>1
    <3>4. Trace(t, h)'
      BY <1>11, <3>2, <3>3 DEF Trace
    <3> QED BY <3>4
  <2>2. CASE t # s
    <3>1. PICK h : Trace(t, h)
      BY <1>1 DEF Arrives
    <3>2. Owned(t)' = Owned(t) /\ committed'[t] = committed[t]
      BY <1>1, <1>8, <2>2
    <3>3. b \notin Owned(t)
      BY <1>7, <1>8, <2>2
    <3>4. \A c \in Owned(t) : mem'[c] = mem[c] /\ want'[c] = want[c]
      BY <1>6, <3>3 DEF Owned
    <3>5. Trace(t, h)'
      BY <3>1, <3>2, <3>4 DEF Trace
    <3> QED BY <3>5
  <2> QED BY <2>1, <2>2
<1> QED BY <1>6, <1>8, <1>12, <1>13, <1>14 DEF Flow, Touching, Arrives

(* Waiting for a stream gives its buffers back. *)
LEMMA SynchronizeFlows ==
  ASSUME MInv, NEW s \in Queues, SynchronizeStream(s)
  PROVE  /\ Flow'
         /\ users' \in [Bufs -> SUBSET Ids] /\ order' \in [Queues -> SUBSET Ids]
<1>1. /\ committed[s] \in Seq(Command)
      /\ MTyped /\ Apart /\ Kept /\ Touching /\ Arrives /\ ProgramOrder
      /\ users \in [Bufs -> SUBSET Ids] /\ order \in [Queues -> SUBSET Ids]
      /\ UNCHANGED <<committed, mem, want>>
  BY DEF MInv, IInv, Typed, MTyped, Flow, SynchronizeStream, code
<1>2. committed[s] = <<>>
  BY DrainedIsEmpty DEF MInv, SynchronizeStream
<1>3. /\ users' = [b \in Bufs |-> users[b] \ order[s]]
      /\ order' = [t \in Queues |-> order[t] \ order[s]]
  BY DEF SynchronizeStream, Over
<1>4. /\ order'[s] = {}
      /\ \A t \in Queues : t # s => order'[t] = order[t]
  BY <1>1, <1>3 DEF Apart
<1>5. \A b \in Bufs : \/ b \in Owned(s) /\ users'[b] = {}
                      \/ b \notin Owned(s) /\ users'[b] = users[b]
  <2> SUFFICES ASSUME NEW b \in Bufs
               PROVE  \/ b \in Owned(s) /\ users'[b] = {}
                      \/ b \notin Owned(s) /\ users'[b] = users[b]
    OBVIOUS
  <2>1. CASE b \in Owned(s)
    BY <1>3, <2>1 DEF Owned
  <2>2. CASE users[b] = {}
    BY <1>3, <2>2 DEF Owned
  <2>3. CASE b \notin Owned(s) /\ users[b] # {}
    <3>1. PICK t \in Queues : b \in Owned(t)
      BY <1>1, <2>3 DEF Kept
    <3>2. users[b] \subseteq order[t] /\ order[s] \cap order[t] = {}
      BY <1>1, <2>3, <3>1 DEF Apart, Owned
    <3>3. users'[b] = users[b]
      BY <1>3, <3>2
    <3> QED BY <2>3, <3>3
  <2> QED BY <2>1, <2>2, <2>3
<1>6. Owned(s)' = {}
  BY <1>4 DEF Owned
<1>7. ASSUME NEW t \in Queues, t # s PROVE Owned(t)' = Owned(t)
  <2>1. ASSUME NEW b \in Bufs PROVE b \in Owned(t)' <=> b \in Owned(t)
    <3>1. CASE b \in Owned(s)
      <4>1. b \notin Owned(t)
        BY <1>1, <1>7, <3>1, OwnApart
      <4> QED BY <1>5, <3>1, <4>1 DEF Owned
    <3>2. CASE b \notin Owned(s)
      <4>1. users'[b] = users[b]
        BY <1>5, <3>2
      <4> QED BY <1>4, <1>7, <4>1 DEF Owned
    <3> QED BY <3>1, <3>2
  <2>2. Owned(t)' \subseteq Bufs /\ Owned(t) \subseteq Bufs
    BY DEF Owned
  <2> QED BY <2>1, <2>2
<1>8. Apart'
  BY <1>1, <1>3 DEF Apart
<1>9. Kept'
  <2> SUFFICES ASSUME NEW b \in Bufs, users'[b] # {}
               PROVE  \E t \in Queues : b \in Owned(t)'
    BY DEF Kept
  <2>1. b \notin Owned(s) /\ users[b] # {}
    BY <1>5
  <2>2. PICK t \in Queues : b \in Owned(t)
    BY <1>1, <2>1 DEF Kept
  <2> QED BY <1>7, <2>1, <2>2
<1>10. Len(committed[s]) = 0
  BY <1>2
<1>11. ProgramOrder'
  <2>1. PICK h : Trace(s, h)
    BY <1>1 DEF Arrives
  <2>2. \A b \in Owned(s) : mem[b] = want[b]
    BY <1>10, <2>1 DEF Trace
  <2> QED BY <1>1, <1>5, <2>2 DEF ProgramOrder
<1>12. ASSUME NEW t \in Queues PROVE Within(committed'[t], Len(committed'[t]), Owned(t)')
  <2>1. CASE t = s
    BY <1>1, <1>10, <2>1 DEF Within
  <2>2. CASE t # s
    BY <1>1, <1>7, <2>2 DEF Touching
  <2> QED BY <2>1, <2>2
<1>13. ASSUME NEW t \in Queues PROVE \E h : Trace(t, h)'
  <2>1. PICK h : Trace(t, h)
    BY <1>1 DEF Arrives
  <2>2. CASE t = s
    <3>1. Trace(t, h)'
      BY <1>1, <1>6, <2>1, <2>2 DEF Trace
    <3> QED BY <3>1
  <2>3. CASE t # s
    <3>1. Trace(t, h)'
      BY <1>1, <1>7, <2>1, <2>3 DEF Trace
    <3> QED BY <3>1
  <2> QED BY <2>2, <2>3
<1>14. users' \in [Bufs -> SUBSET Ids] /\ order' \in [Queues -> SUBSET Ids]
  BY <1>1, <1>3
<1> QED BY <1>8, <1>9, <1>11, <1>12, <1>13, <1>14 DEF Flow, Touching, Arrives

(* What the host does at once it does to buffers no stream owns. *)
LEMMA AtOnceFlows ==
  ASSUME MInv,
         \/ \E x, y \in Tensors : DefaultStreamOp(x, y)
         \/ \E b \in Bufs, v \in Vals : HostWrite(b, v)
  PROVE  Flow' /\ mem' \in Memory /\ want' \in Memory
<1>1. /\ mem \in Memory /\ want \in Memory /\ data \in [Tensors -> Bufs]
      /\ Apart /\ Kept /\ Touching /\ Arrives /\ ProgramOrder
      /\ UNCHANGED <<committed, users, order>>
  BY DEF MInv, IInv, Typed, MTyped, Flow, DefaultStreamOp, HostWrite
<1>2. \E b \in Bufs : /\ users[b] = {}
                      /\ mem' \in Memory /\ want' \in Memory /\ mem'[b] = want'[b]
                      /\ \A c \in Bufs : c # b => mem'[c] = mem[c] /\ want'[c] = want[c]
  <2>1. CASE \E b \in Bufs, v \in Vals : HostWrite(b, v)
    <3>1. PICK b \in Bufs, v \in Vals : HostWrite(b, v)
      BY <2>1
    <3>2. /\ users[b] = {}
          /\ mem' = [mem EXCEPT ![b] = v] /\ want' = [want EXCEPT ![b] = v]
      BY <3>1 DEF HostWrite, HostMayUse
    <3> QED BY <1>1, <3>2 DEF Memory
  <2>2. CASE \E x, y \in Tensors : DefaultStreamOp(x, y)
    <3>1. PICK x \in Tensors, y \in Tensors : DefaultStreamOp(x, y)
      BY <2>2
    <3>2. PICK a, b : a = data[x] /\ b = data[y]
      OBVIOUS
    <3>3. /\ a \in Bufs /\ b \in Bufs /\ users[a] = {} /\ users[b] = {}
          /\ mem' = Apply(mem, a, b) /\ want' = Apply(want, a, b)
      BY <1>1, <3>1, <3>2 DEF DefaultStreamOp, HostMayUse
    <3>4. /\ Apply(mem, a, b) \in Memory
          /\ \A c \in Bufs : Apply(mem, a, b)[c] = IF c = b THEN F(mem[a]) ELSE mem[c]
      <4>1. mem \in Memory /\ a \in Bufs /\ b \in Bufs
        BY <1>1, <3>3, Zenon
      <4> QED BY <4>1, ApplyType
    <3>5. /\ Apply(want, a, b) \in Memory
          /\ \A c \in Bufs : Apply(want, a, b)[c] = IF c = b THEN F(want[a]) ELSE want[c]
      <4>1. want \in Memory /\ a \in Bufs /\ b \in Bufs
        BY <1>1, <3>3, Zenon
      <4> QED BY <4>1, ApplyType
    <3>6. mem[a] = want[a]
      BY <1>1, <3>3 DEF ProgramOrder
    <3>7. mem'[b] = want'[b]
      BY <3>3, <3>4, <3>5, <3>6
    <3> QED BY <3>3, <3>4, <3>5, <3>7
  <2> QED BY <2>1, <2>2
<1>3. ProgramOrder'
  BY <1>1, <1>2 DEF ProgramOrder
<1>4. Apart' /\ Kept' /\ Touching' /\ Arrives'
  BY <1>1, <1>2, FlowStays
<1> QED BY <1>2, <1>3, <1>4 DEF Flow

(* Tapes keep holding entries as they were called. *)
LEMMA TapesStay ==
  ASSUME MInv, NEW s \in Queues,
         \/ CaptureBegin(s) \/ CaptureEnd(s) \/ ExecuteCaptured(s)
         \/ \E x, y \in Tensors : CaptureRecord(s, x, y)
  PROVE  tape' \in [Queues -> Seq(Frozen)] /\ graph' \in Seq(Frozen)
<1>1. /\ tape \in [Queues -> Seq(Frozen)] /\ graph \in Seq(Frozen) /\ tape[s] \in Seq(Frozen)
      /\ data \in [Tensors -> Bufs]
  BY DEF MInv, IInv, Typed, MTyped
<1>2. <<>> \in Seq(Frozen) /\ tape[s] \o graph \in Seq(Frozen)
  BY <1>1, EmptySeq, ConcatProperties
<1>3. CASE CaptureBegin(s)
  BY <1>1, <1>2, <1>3 DEF CaptureBegin
<1>4. CASE CaptureEnd(s)
  BY <1>1, <1>2, <1>4 DEF CaptureEnd, TapeDropped
<1>5. CASE ExecuteCaptured(s)
  BY <1>1, <1>2, <1>5 DEF ExecuteCaptured
<1>6. CASE \E x, y \in Tensors : CaptureRecord(s, x, y)
  <2>1. PICK x \in Tensors, y \in Tensors : CaptureRecord(s, x, y)
    BY <1>6
  <2> DEFINE r == [src |-> Clone(x), dst |-> Clone(y), asked |-> <<data[x], data[y]>>]
  <2>2. r \in Frozen
    BY <1>1 DEF Frozen, Entry, Ref, Clone
  <2>3. tape' = [tape EXCEPT ![s] = Append(tape[s], r)] /\ UNCHANGED graph
    BY <1>1, <2>1 DEF CaptureRecord
  <2> HIDE DEF r
  <2>4. Append(tape[s], r) \in Seq(Frozen)
    BY <1>1, <2>2, AppendProperties
  <2> QED BY <1>1, <2>3, <2>4
<1> QED BY <1>3, <1>4, <1>5, <1>6

LEMMA InitMInv == MInit => MInv
<1> SUFFICES ASSUME MInit PROVE MInv
  OBVIOUS
<1>1. <<>> \in Seq(Frozen) /\ Len(<<>>) = 0
  BY EmptySeq
<1>2. mem \in Memory /\ want = mem
  BY BoundsAssumption DEF MInit, Memory, Vals
<1>3. MTyped /\ NoMarks
  BY <1>1, <1>2 DEF MInit, MTyped, NoMarks
<1>4. \A s : Owned(s) = {}
  BY DEF MInit, Owned
<1>5. Apart /\ Kept /\ ProgramOrder
  BY <1>2 DEF MInit, Apart, Kept, ProgramOrder
<1>6. \A s \in Queues : committed[s] = <<>> /\ Len(committed[s]) = 0
  BY <1>1 DEF MInit
<1>7. Touching
  BY <1>6 DEF Touching, Within
<1>8. ASSUME NEW s \in Queues PROVE \E h : Trace(s, h)
  <2>1. PICK h : h = [k \in 0 .. 0 |-> mem]
    OBVIOUS
  <2>2. Trace(s, h)
    BY <1>2, <1>4, <1>6, <2>1 DEF Trace
  <2> QED BY <2>2
<1> QED BY <1>3, <1>5, <1>7, <1>8, InitIInv DEF MInv, Flow, Arrives

LEMMA NextMInv == Relies = {} /\ MInv /\ [MNext]_mvars => MInv'
<1> SUFFICES ASSUME Relies = {}, MInv, [MNext]_mvars PROVE MInv'
  OBVIOUS
<1>0. /\ IInv' /\ MTyped /\ NoMarks /\ Flow
      /\ Apart /\ Kept /\ Touching /\ Arrives /\ ProgramOrder
  BY NextIInv DEF MInv, Flow
<1>1. CASE \/ \E t \in Tensors, b \in Bufs : Recreate(t, b)
           \/ UNCHANGED mvars
  <2>1. UNCHANGED <<mem, want, committed, users, order, marks, tape, graph>>
    BY <1>1 DEF Recreate, mvars, code, belief
  <2> QED BY <1>0, <2>1, FlowStays DEF MInv, MTyped, NoMarks, Flow, ProgramOrder
<1>2. CASE \E s \in Queues : \/ CaptureBegin(s) \/ CaptureEnd(s) \/ ExecuteCaptured(s)
                              \/ \E x, y \in Tensors : CaptureRecord(s, x, y)
  <2>1. UNCHANGED <<mem, want, committed, users, order, marks>>
    BY <1>2 DEF CaptureBegin, CaptureEnd, ExecuteCaptured, CaptureRecord, belief
  <2>2. tape' \in [Queues -> Seq(Frozen)] /\ graph' \in Seq(Frozen)
    BY <1>2, TapesStay
  <2> QED BY <1>0, <2>1, <2>2, FlowStays DEF MInv, MTyped, NoMarks, Flow, ProgramOrder
<1>3. CASE \/ SynchronizeDevice
           \/ \E s \in Queues, e \in MetalEvents : RecordEvent(e, s) \/ AwaitEvent(s, e)
  <2>1. UNCHANGED <<mem, want, committed, tape, graph>>
    BY <1>3 DEF SynchronizeDevice, RecordEvent, AwaitEvent, code
  <2>2. users' = users /\ order' = order
    <3>1. /\ users = [b \in Bufs |-> users[b]] /\ order = [s \in Queues |-> order[s]]
      BY <1>0 DEF MTyped
    <3>2. CASE SynchronizeDevice
      BY <3>1, <3>2 DEF SynchronizeDevice, Over
    <3>3. CASE \E s \in Queues, e \in MetalEvents : RecordEvent(e, s)
      BY <3>3 DEF RecordEvent
    <3>4. CASE \E s \in Queues, e \in MetalEvents : AwaitEvent(s, e)
      BY <1>0, <3>1, <3>4 DEF AwaitEvent, NoMarks
    <3> QED BY <1>3, <3>2, <3>3, <3>4
  <2>3. NoMarks'
    <3>1. CASE SynchronizeDevice
      BY <1>0, <3>1 DEF SynchronizeDevice, Over, NoMarks
    <3>2. CASE \E s \in Queues, e \in MetalEvents : RecordEvent(e, s)
      BY <1>0, <3>2 DEF RecordEvent, NoMarks
    <3>3. CASE \E s \in Queues, e \in MetalEvents : AwaitEvent(s, e)
      BY <1>0, <3>3 DEF AwaitEvent, NoMarks
    <3> QED BY <1>3, <3>1, <3>2, <3>3
  <2> QED BY <1>0, <2>1, <2>2, <2>3, FlowStays DEF MInv, MTyped, Flow, ProgramOrder
<1>4. CASE \/ \E x, y \in Tensors : DefaultStreamOp(x, y)
           \/ \E b \in Bufs, v \in Vals : HostWrite(b, v)
  <2>1. UNCHANGED <<users, order, marks, tape, graph>>
    BY <1>4 DEF DefaultStreamOp, HostWrite
  <2>2. Flow' /\ mem' \in Memory /\ want' \in Memory
    BY <1>4, AtOnceFlows
  <2> QED BY <1>0, <2>1, <2>2 DEF MInv, MTyped, NoMarks
<1>5. CASE Execute
  <2>1. UNCHANGED <<users, order, marks, tape, graph>>
    BY <1>5 DEF Execute
  <2>2. Flow' /\ mem' \in Memory /\ want' \in Memory
    BY <1>5, ExecuteFlows
  <2> QED BY <1>0, <2>1, <2>2 DEF MInv, MTyped, NoMarks
<1>6. CASE \E s \in Queues : SynchronizeStream(s)
  <2>1. PICK s \in Queues : SynchronizeStream(s)
    BY <1>6
  <2>2. UNCHANGED <<mem, want, tape, graph>>
    BY <2>1 DEF SynchronizeStream, code
  <2>3. Flow' /\ users' \in [Bufs -> SUBSET Ids] /\ order' \in [Queues -> SUBSET Ids]
    BY <2>1, SynchronizeFlows
  <2>4. NoMarks'
    BY <1>0, <2>1 DEF SynchronizeStream, Over, NoMarks
  <2> QED BY <1>0, <2>2, <2>3, <2>4 DEF MInv, MTyped
<1>7. CASE \E s \in Queues : Complete(s)
  <2>1. UNCHANGED <<want, users, order, marks, tape, graph>>
    BY <1>7 DEF Complete, belief
  <2>2. Flow' /\ mem' \in Memory
    BY <1>7, CompleteFlows
  <2> QED BY <1>0, <2>1, <2>2 DEF MInv, MTyped, NoMarks
<1>8. ASSUME NEW s \in Queues, NEW bs \in SUBSET Bufs, NEW id \in Fresh,
             MayUse(s, bs), Use(s, bs, id)
      PROVE  /\ users' \in [Bufs -> SUBSET Ids] /\ order' \in [Queues -> SUBSET Ids]
             /\ NoMarks'
  BY <1>0, <1>8, UseOwns DEF NoMarks
<1>9. CASE \E s \in Queues, x, y \in Tensors : LaunchKernel(s, x, y) \/ HostOp(s, x, y)
  <2>1. PICK s \in Queues, x \in Tensors, y \in Tensors : LaunchKernel(s, x, y) \/ HostOp(s, x, y)
    BY <1>9
  <2>2. PICK bs, id : /\ bs = {data[x], data[y]} /\ id \in Fresh
                      /\ MayUse(s, bs) /\ Use(s, bs, id)
    BY <2>1 DEF LaunchKernel, HostOp
  <2>3. bs \in SUBSET Bufs
    BY <2>2 DEF MInv, IInv, Typed
  <2>4. UNCHANGED <<tape, graph>>
    BY <2>1 DEF LaunchKernel, HostOp
  <2>5. Flow' /\ mem' \in Memory /\ want' \in Memory
    <3>1. CASE HostOp(s, x, y)
      BY <3>1, HostFlows
    <3>2. CASE LaunchKernel(s, x, y)
      <4>1. data[x] \in Bufs /\ data[y] \in Bufs
        BY DEF MInv, IInv, Typed
      <4>2. want' = Apply(want, data[x], data[y]) /\ UNCHANGED mem
        BY <3>2 DEF LaunchKernel
      <4>3. Apply(want, data[x], data[y]) \in Memory
        BY <1>0, <4>1, ApplyType DEF MTyped
      <4> QED BY <1>0, <3>2, <4>2, <4>3, LaunchFlows DEF MTyped
    <3> QED BY <2>1, <3>1, <3>2
  <2> QED BY <1>0, <1>8, <2>2, <2>3, <2>4, <2>5 DEF MInv, MTyped
<1>10. CASE \E s \in Queues : ExecuteAsync(s)
  <2>1. PICK s \in Queues : ExecuteAsync(s)
    BY <1>10
  <2>2. PICK id \in Fresh : MayUse(s, GraphBufs) /\ Use(s, GraphBufs, id)
    BY <2>1 DEF ExecuteAsync
  <2>3. /\ GraphBufs \in SUBSET Bufs /\ Len(Asked) = Len(graph) /\ Moves(Asked, Len(graph))
    BY <1>0, GraphRuns DEF MTyped
  <2>4. UNCHANGED <<mem, tape, graph>> /\ want' = InTurn(want, Asked)
    BY <2>1 DEF ExecuteAsync
  <2>5. want' \in Memory
    <3>1. PICK at : Steps(at, want, Asked, Len(graph)) /\ InTurn(want, Asked) = at[Len(graph)]
      BY <1>0, <2>3, InTurnIs DEF MTyped
    <3>2. Len(graph) \in 0 .. Len(graph)
      BY <2>3 DEF Moves
    <3> QED BY <2>4, <3>1, <3>2 DEF Steps
  <2>6. Flow'
    BY <2>1, ReplayFlows
  <2> QED BY <1>0, <1>8, <2>2, <2>3, <2>4, <2>5, <2>6 DEF MInv, MTyped
<1> QED BY <1>1, <1>2, <1>3, <1>4, <1>5, <1>6, <1>7, <1>9, <1>10 DEF MNext

(* A buffer the host knows to be no longer in use holds what it would hold *)
(* if every call had taken effect at once, for a program that relies on    *)
(* neither events nor aclrtSynchronizeDevice, which return at once:        *)
(* "program-order correctness already holds" (metal/src/runtime.mm:106).   *)
THEOREM OrderHolds == Relies = {} => (MSpec => []ProgramOrder)
<1>1. MInv => ProgramOrder
  BY DEF MInv, Flow
<1>2. Relies = {} => (MSpec => []MInv)
  <2> SUFFICES ASSUME Relies = {} PROVE MSpec => []MInv
    OBVIOUS
  <2>1. MInv /\ [MNext]_mvars => MInv'
    BY NextMInv
  <2> QED BY <2>1, InitMInv, PTL DEF MSpec
<1> QED BY <1>1, <1>2, PTL

=============================================================================
