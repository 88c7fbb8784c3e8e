----------------------------- MODULE Collectives ----------------------------
(***************************************************************************)
(* The operators that span ranks (cuda/src/ops/mc2_ext.cu and the combine  *)
(* of cuda/src/ops/moe.cu), called once the ranks have found each other:   *)
(* a local matmul, a collective and a local tail, enqueued on the rank's   *)
(* stream by one host call.  A call that fails at a stage returns an error *)
(* and enqueues none of the later ones; its peers do not learn of it, and  *)
(* NCCL pairs collectives by their order alone.                            *)
(*                                                                         *)
(* A tensor is a function from row blocks, one per rank, to the bag of the *)
(* terms summed into the block; a tensor of one block has it at index 0.   *)
(***************************************************************************)
EXTENDS Rendezvous, Sequences, FiniteSetsExt, Bags

CONSTANT CallsOfJob    \* how many collective calls a job makes

Kinds == {"all_reduce", "all_reduce_bias", "quant_all_reduce", "reduce_scatter",
          "all_gather", "dispatch", "combine", "all_reduce_norm", "combine_norm"}

ASSUME CallsAssumption == CallsOfJob \in Nat

Programs == [1 .. CallsOfJob -> Kinds]

VARIABLES
  program,    \* the calls of this job, the same on every rank
  comm,       \* has it a communicator, or is comm == nullptr
  pc,         \* per rank: the call to make next
  stream,     \* per rank: the stages enqueued and not run
  temp,       \* per rank: the workspace, shared by successive calls
  out,        \* per rank and call: the output tensor
  failed      \* the calls that returned an error: <<rank, call, stage>>

buffers == <<temp, out>>
collectives == <<program, comm, pc, stream, buffers, failed>>
vars == <<rendezvous, collectives>>

Exchanges == {"dispatch", "combine", "combine_norm"}
Normed == {"all_reduce_norm", "combine_norm"}
Gathered == {"reduce_scatter", "all_gather"}

Blocks(term(_)) == [j \in Ranks |-> SetToBag({term(j)})]
OneBlock(b) == [j \in Ranks |-> IF j = 0 THEN b ELSE EmptyBag]
Nothing == [j \in Ranks |-> EmptyBag]

Init ==
  /\ RendezvousInit
  /\ program \in Programs
  /\ comm \in BOOLEAN
  /\ pc = [r \in Ranks |-> 1]
  /\ stream = [r \in Ranks |-> << >>]
  /\ temp = [r \in Ranks |-> Nothing]
  /\ out = [r \in Ranks |-> [i \in DOMAIN program |-> [normed |-> FALSE, x |-> Nothing]]]
  /\ failed = {}

-----------------------------------------------------------------------------
(* The stages of each call: local work, the collective, the tail.  Without *)
(* a communicator nothing is reduced, the norm of a combine takes its      *)
(* input, and the other collectives are copies to the output.              *)
LocalWork(kind) ==
  IF kind \in Exchanges THEN << >> ELSE IF kind = "all_gather" THEN <<"shard">> ELSE <<"matmul">>

Collective(kind) ==
  IF kind \in Exchanges THEN "exchange"
  ELSE IF kind = "all_gather" THEN "gather"
  ELSE IF kind = "reduce_scatter" THEN "scatter"
  ELSE "reduce"

Middle(kind) ==
  IF comm THEN <<Collective(kind)>>
  ELSE IF Collective(kind) = "reduce" \/ kind = "combine_norm" THEN << >> ELSE <<"copy">>

Epilogue(kind) ==
  IF kind = "all_reduce_bias" THEN <<"bias">> ELSE IF kind \in Normed THEN <<"norm">> ELSE << >>

(* A bias that every rank adds before the sum. *)
MutantStages(kind) ==
  IF kind = "all_reduce_bias" THEN LocalWork(kind) \o Epilogue(kind) \o Middle(kind)
  ELSE LocalWork(kind) \o Middle(kind) \o Epilogue(kind)

Stages(kind) == LocalWork(kind) \o Middle(kind) \o Epilogue(kind)

(* One host call.  It fails at stage k and skips the rest, or k is past    *)
(* the last and it succeeds.                                               *)
Call(r, k) ==
  /\ comm => at[r] = "up"
  /\ pc[r] <= Len(program)
  /\ LET i == pc[r]
         stages == Stages(program[i])
     IN  /\ k \in 1 .. Len(stages) + 1
         /\ stream' = [stream EXCEPT ![r] =
                         @ \o [n \in 1 .. k - 1 |-> [call |-> i, do |-> stages[n]]]]
         /\ failed' = IF k <= Len(stages) THEN failed \cup {<<r, i, k>>} ELSE failed
         /\ pc' = [pc EXCEPT ![r] = i + 1]
  /\ UNCHANGED <<rendezvous, program, comm, buffers>>

-----------------------------------------------------------------------------
(* The device.  Combine takes what the last dispatch brought. *)
Dispatches(i) == {d \in 1 .. i - 1 : program[d] = "dispatch"}
Tokens(r, i) == Blocks(LAMBDA j : <<"x", i, r, j>>)
Input(r, i) ==
  IF program[i] # "dispatch" /\ Dispatches(i) # {} THEN out[r][Max(Dispatches(i))].x ELSE Tokens(r, i)

Runs(r, do) == stream[r] # << >> /\ Head(stream[r]).do = do
CallOf(r) == Head(stream[r]).call
KindOf(r) == program[CallOf(r)]

(* What a collective reads and its epilogue: the input of an exchange, the *)
(* workspace when the collective changes the shape or is followed by a     *)
(* norm, and else the output, in place.                                    *)
Source(r) ==
  IF KindOf(r) \in Exchanges THEN Input(r, CallOf(r))
  ELSE IF KindOf(r) \in Gathered \cup Normed THEN temp[r]
  ELSE out[r][CallOf(r)].x

(* The heads of these ranks' streams leave their results: in the workspace *)
(* of the ranks toTemp, or in the output of their call.                    *)
Finish(result, toTemp) ==
  /\ temp' = [r \in Ranks |-> IF r \in DOMAIN result \cap toTemp THEN result[r] ELSE temp[r]]
  /\ out' = [r \in Ranks |-> IF r \in DOMAIN result \ toTemp
                             THEN [out[r] EXCEPT ![CallOf(r)].x = result[r]] ELSE out[r]]
  /\ stream' = [r \in Ranks |-> IF r \in DOMAIN result THEN Tail(stream[r]) ELSE stream[r]]
  /\ UNCHANGED <<rendezvous, program, comm, pc, failed>>

Matmul(r) ==
  /\ Runs(r, "matmul")
  /\ Finish([q \in {r} |-> Blocks(LAMBDA j : <<"mm", CallOf(q), q, j>>)],
            IF KindOf(r) \in Gathered \cup Normed THEN {r} ELSE {})

(* The rank's own rows, all of them in one block. *)
Shard(r) ==
  /\ Runs(r, "shard")
  /\ Finish([q \in {r} |-> OneBlock(SetToBag({<<"mm", CallOf(q), q, q>>}))], {r})

AddBias(r) ==
  /\ Runs(r, "bias")
  /\ Finish([q \in {r} |-> [j \in Ranks |-> out[q][CallOf(q)].x[j] (+) SetToBag({<<"bias", CallOf(q), 0, 0>>})]], {})

(* The tail: y = rms(temp + residual) * gamma.  A norm is not linear: it   *)
(* marks the blocks it was taken of.  A combine without a communicator is  *)
(* normed from its input.                                                  *)
Norm(r) ==
  /\ Runs(r, "norm")
  /\ out' = [out EXCEPT ![r][CallOf(r)] =
       [normed |-> TRUE, x |-> IF comm \/ KindOf(r) = "all_reduce_norm" THEN temp[r] ELSE Source(r)]]
  /\ stream' = [stream EXCEPT ![r] = Tail(@)]
  /\ UNCHANGED <<rendezvous, program, comm, pc, temp, failed>>

(* comm == nullptr: the first rows of the workspace, or the input. *)
Copy(r) ==
  /\ Runs(r, "copy")
  /\ Finish([q \in {r} |-> IF KindOf(q) = "reduce_scatter" THEN OneBlock(Source(q)[0]) ELSE Source(q)], {})

(* The collectives of NCCL, external: each takes place when it is at the   *)
(* head of every stream, whatever the calls it stands in.                  *)
Collect(do, result) ==
  /\ \A r \in Ranks : Runs(r, do)
  /\ Finish(result, {r \in Ranks : KindOf(r) \in Normed})

SumOf(j) == FoldSet(LAMBDA q, sum : sum (+) Source(q)[j], EmptyBag, Ranks)
AllReduce == Collect("reduce", [r \in Ranks |-> [j \in Ranks |-> SumOf(j)]])
ReduceScatter == Collect("scatter", [r \in Ranks |-> OneBlock(SumOf(r))])
AllGather == Collect("gather", [r \in Ranks |-> [j \in Ranks |-> Source(j)[0]]])

(* Send block r to rank r, receive rank r's block for this rank at r. *)
AlltoAll == Collect("exchange", [r \in Ranks |-> [j \in Ranks |-> Source(j)[r]]])

Device(r) == Matmul(r) \/ Shard(r) \/ AddBias(r) \/ Norm(r) \/ Copy(r)

Next ==
  \/ comm /\ RendezvousNext /\ UNCHANGED collectives
  \/ \E r \in Ranks, k \in 1 .. 4 : Call(r, k)
  \/ \E r \in Ranks : Device(r)
  \/ AllReduce \/ ReduceScatter \/ AllGather \/ AlltoAll

Fairness == \A r \in Started : WF_vars(RankStep(r) /\ UNCHANGED collectives)
Spec == Init /\ [][Next]_vars /\ Fairness

-----------------------------------------------------------------------------
TypeOK ==
  /\ RendezvousTypeOK
  /\ program \in Programs /\ comm \in BOOLEAN
  /\ pc \in [Ranks -> 1 .. Len(program) + 1]
  /\ \A r \in Ranks :
       /\ \A n \in DOMAIN stream[r] : stream[r][n].call \in 1 .. pc[r] - 1
       /\ DOMAIN temp[r] = Ranks
       /\ \A i \in DOMAIN program : DOMAIN out[r][i].x = Ranks
  /\ failed \subseteq Ranks \X (DOMAIN program) \X (1 .. 3)

(* What the operators promise: every partial product once, whatever the    *)
(* rank, and the bias once (mc2_ext.cu:40); the rank's rows of the sum     *)
(* (:88); the shards in rank order (:121); Combine brings back to every    *)
(* rank what it dispatched (:154); the norm of a whole sum, never a sum of *)
(* norms (moe.cu:377).                                                     *)
Products(i, r, j) == SetToBag({<<"mm", i, q, j>> : q \in IF comm THEN Ranks ELSE {r}})
Promised(r, i) ==
  LET kind == program[i]
      bias == IF kind = "all_reduce_bias" THEN SetToBag({<<"bias", i, 0, 0>>}) ELSE EmptyBag
  IN  [normed |-> kind \in Normed,
       x |-> CASE kind = "reduce_scatter" -> OneBlock(Products(i, r, IF comm THEN r ELSE 0))
               [] kind = "all_gather" ->
                    IF comm THEN Blocks(LAMBDA j : <<"mm", i, j, j>>)
                    ELSE OneBlock(SetToBag({<<"mm", i, r, r>>}))
               [] kind \in Exchanges ->
                    IF kind # "dispatch" /\ Dispatches(i) # {} THEN Tokens(r, Max(Dispatches(i)))
                    ELSE IF comm THEN Blocks(LAMBDA j : <<"x", i, j, r>>) ELSE Tokens(r, i)
               [] OTHER -> [j \in Ranks |-> Products(i, r, j) (+) bias]]

(* Every call that a rank has seen through gives what it promises, or a    *)
(* rank returned an error before the collective of this call or of an      *)
(* earlier one: a failure may spoil the calls after it on every rank, but  *)
(* never those before it, and never without a report.                      *)
CollectiveAt(i) == Len(LocalWork(program[i])) + 1
Complete(r, i) ==
  /\ i < pc[r] /\ \A n \in DOMAIN stream[r] : stream[r][n].call # i
  /\ \A f \in failed : ~(f[1] = r /\ f[2] = i)
Spoilt(i) == \E f \in failed : f[2] <= i /\ f[3] <= CollectiveAt(f[2])
ReducedOrReported ==
  \A r \in Ranks, i \in DOMAIN program :
    Complete(r, i) => out[r][i] = Promised(r, i) \/ Spoilt(i)
=============================================================================
