--------------------------- MODULE ClusterProofs ---------------------------
(***************************************************************************)
(* Proofs about the ranks of a job: how they find each other, for any      *)
(* number of ranks, any length of the identifier and any number of polls,  *)
(* and what the operators that span them give, for any sequence of calls   *)
(* and any failures.                                                       *)
(***************************************************************************)
EXTENDS Collectives, SequenceTheorems, FiniteSetTheorems, WellFoundedInduction, TLAPS

(* Only a file that was truncated or written has an identifier's length in *)
(* it: a poll that finds IdWords of them finds an identifier.              *)
FilesNamed == \A q \in Ranks : idfile[q].len > 0 => idfile[q].id # "none"

(* The process the ranktable does not list gets nowhere; rank 0 writes and *)
(* does not poll, the others poll and do not write.                        *)
OwnRole ==
  /\ at[N] \in {"start", "E_PARA"}
  /\ at[0] # "poll"
  /\ \A r \in Started : at[r] \in {"open", "write"} => r = 0
  /\ at[0] = "write" => id[0] = "ours" /\ idfile[0].id = "ours"

(* A communicator means that every rank has come, with this run's          *)
(* identifier; a rank that has come never takes another.                   *)
AllCame ==
  \A r \in Started : at[r] = "up" =>
    \A q \in Ranks : at[q] \in {"join", "up"} /\ id[q] = "ours"

JoinsWhole == \A r \in Started : at[r] = "join" => id[r] \in {"ours", "stale"}

RendezvousInv == RendezvousTypeOK /\ FilesNamed /\ OwnRole /\ AllCame /\ JoinsWhole

(* The ranks are those of the table; the process N is not one of them. *)
LEMMA RanksStarted ==
  /\ Ranks \subseteq Started /\ 0 \in Ranks /\ N \in Started /\ N \notin Ranks
  /\ \A r \in Started : r = N \/ (r \in Ranks /\ r < N)
BY NAssumption DEF Ranks, Started

(* Before the ranks start nothing but an old file can be there. *)
LEMMA RendezvousInitInv == RendezvousInit => RendezvousInv
<1> SUFFICES ASSUME RendezvousInit PROVE RendezvousInv
  OBVIOUS
<1>1. idfile \in [Ranks -> Files] /\ FilesNamed
  <2>1. Absent \in Files /\ Stale \in Files
    BY BoundsAssumption DEF Absent, Stale, Files
  <2> QED BY <2>1 DEF RendezvousInit, FilesNamed, Absent, Stale
<1> QED
  BY <1>1, RanksStarted, BoundsAssumption
  DEF RendezvousInit, RendezvousInv, RendezvousTypeOK, OwnRole, AllCame, JoinsWhole, Ids

(* A step of the file system: what a file holds under a name is whole, in  *)
(* part or of an earlier run, but never nameless.                          *)
LEMMA FileSteps ==
  ASSUME RendezvousInv,
         WriteFile \/ \E r \in Ranks : CopyFile(r)
  PROVE  RendezvousInv'
<1>1. UNCHANGED <<at, id, polls>>
  BY DEF WriteFile, CopyFile
<1>2. idfile' \in [Ranks -> Files] /\ FilesNamed' /\ (at[0] = "write" => idfile'[0].id = "ours")
  <2>1. CASE WriteFile
    <3>1. PICK n \in idfile[0].len + 1 .. IdWords : idfile' = [idfile EXCEPT ![0].len = n]
      BY <2>1 DEF WriteFile
    <3>2. idfile[0] \in Files /\ idfile[0].len < IdWords /\ 0 \in Ranks
      BY <2>1, RanksStarted DEF RendezvousInv, RendezvousTypeOK, WriteFile
    <3>3. n \in 0 .. IdWords /\ n > 0
      BY <3>1, <3>2, BoundsAssumption DEF Files
    <3>4. at[0] = "write"
      BY <2>1 DEF WriteFile
    <3> DEFINE f == [idfile[0] EXCEPT !.len = n]
    <3>5. f \in Files /\ f.id = idfile[0].id /\ f.len = n
      BY <3>2, <3>3 DEF Files
    <3>6. idfile' = [idfile EXCEPT ![0] = f]
      BY <3>1
    <3>7. f.id = "ours"
      BY <3>4, <3>5 DEF RendezvousInv, OwnRole
    <3> HIDE DEF f
    <3> QED
      BY <3>2, <3>5, <3>6, <3>7 DEF RendezvousInv, RendezvousTypeOK, FilesNamed, OwnRole
  <2>2. CASE \E r \in Ranks : CopyFile(r)
    BY <2>2, RanksStarted DEF CopyFile, RendezvousInv, RendezvousTypeOK, FilesNamed, OwnRole
  <2> QED BY <2>1, <2>2
<1> QED
  BY <1>1, <1>2 DEF RendezvousInv, RendezvousTypeOK, OwnRole, AllCame, JoinsWhole

(* Rank 0 takes a new identifier before it writes. *)
LEMMA OpenFileKeeps ==
  ASSUME RendezvousInv, OpenFile
  PROVE  RendezvousInv'
<1> USE RanksStarted DEF RendezvousInv
<1>1. RendezvousTypeOK' /\ FilesNamed'
  BY BoundsAssumption DEF OpenFile, RendezvousTypeOK, FilesNamed, Files, Ids, Errors
<1>2. OwnRole'
  BY DEF OpenFile, RendezvousTypeOK, OwnRole
<1>3. AllCame' /\ JoinsWhole'
  BY DEF OpenFile, RendezvousTypeOK, AllCame, JoinsWhole
<1> QED BY <1>1, <1>2, <1>3

(* What a rank polls for is a whole identifier, so it is not nameless.     *)
LEMMA RankKeeps ==
  ASSUME RendezvousInv, NEW r \in Started,
         CheckTable(r) \/ Poll(r) \/ GiveUp(r) \/ Join(r) \/ (r = 0 /\ CloseFile)
  PROVE  RendezvousInv'
<1> USE RanksStarted DEF RendezvousInv
<1>1. CASE CheckTable(r)
  <2>1. r >= N <=> r = N
    BY NAssumption DEF Started
  <2> QED
    BY <1>1, <2>1 DEF CheckTable, RendezvousTypeOK, FilesNamed, OwnRole, AllCame, JoinsWhole, Errors
<1>2. CASE Poll(r)
  <2>1. r \in Ranks /\ r # 0 /\ at[r] = "poll"
    BY <1>2 DEF Poll, OwnRole
  <2>2. ASSUME idfile[r].len = IdWords
        PROVE  idfile[r].id \in {"ours", "stale"}
    BY <2>1, <2>2, BoundsAssumption DEF RendezvousTypeOK, FilesNamed, Files
  <2>3. polls[r] < MaxPolls => polls[r] + 1 \in 0 .. MaxPolls
    BY BoundsAssumption DEF RendezvousTypeOK
  <2>4. RendezvousTypeOK'
    BY <1>2, <2>1, <2>2, <2>3 DEF Poll, RendezvousTypeOK, Ids
  <2>5. FilesNamed' /\ OwnRole'
    BY <1>2, <2>1, <2>2 DEF Poll, RendezvousTypeOK, FilesNamed, OwnRole
  <2>6. AllCame' /\ JoinsWhole'
    BY <1>2, <2>1, <2>2 DEF Poll, RendezvousTypeOK, AllCame, JoinsWhole
  <2> QED BY <2>4, <2>5, <2>6
<1>3. CASE GiveUp(r)
  BY <1>3 DEF GiveUp, RendezvousTypeOK, FilesNamed, OwnRole, AllCame, JoinsWhole, Errors
<1>4. CASE Join(r)
  BY <1>4 DEF Join, RendezvousTypeOK, FilesNamed, OwnRole, AllCame, JoinsWhole, Errors
<1>5. CASE r = 0 /\ CloseFile
  BY <1>5 DEF CloseFile, RendezvousTypeOK, FilesNamed, OwnRole, AllCame, JoinsWhole
<1> QED BY <1>1, <1>2, <1>3, <1>4, <1>5

(* Every step of the rendezvous keeps the invariant. *)
LEMMA RendezvousStep == RendezvousInv /\ [RendezvousNext]_rendezvous => RendezvousInv'
<1> SUFFICES ASSUME RendezvousInv, [RendezvousNext]_rendezvous PROVE RendezvousInv'
  OBVIOUS
<1>1. CASE \E r \in Started : RankStep(r)
  BY <1>1, OpenFileKeeps, RankKeeps DEF RankStep
<1>2. CASE WriteFile \/ \E r \in Ranks : CopyFile(r)
  BY <1>2, FileSteps
<1>3. CASE UNCHANGED rendezvous
  BY <1>3
  DEF rendezvous, RendezvousInv, RendezvousTypeOK, FilesNamed, OwnRole, AllCame, JoinsWhole
<1> QED BY <1>1, <1>2, <1>3 DEF RendezvousNext

(* However the writing, the copying and the polling of the identifier file *)
(* interleave (cuda/src/hccl.cu:79), and whatever an earlier run left      *)
(* behind, no rank joins with a torn identifier, and a rank that gets a    *)
(* communicator has it together with every rank of the table.              *)
THEOREM IdentifierWhole == Spec => []OneId
<1>1. Init => RendezvousInv
  BY RendezvousInitInv DEF Init
<1>2. [Next]_vars => [RendezvousNext]_rendezvous
  <2>1. ASSUME NEW r \in Ranks, Device(r) PROVE UNCHANGED rendezvous
    BY <2>1 DEF Device, Matmul, Shard, AddBias, Norm, Copy, Finish
  <2>2. AllReduce \/ ReduceScatter \/ AllGather \/ AlltoAll => UNCHANGED rendezvous
    BY DEF AllReduce, ReduceScatter, AllGather, AlltoAll, Collect, Finish
  <2> QED BY <2>1, <2>2 DEF Next, vars, Call
<1>3. RendezvousInv => OneId
  BY RanksStarted DEF RendezvousInv, OwnRole, AllCame, JoinsWhole, OneId
<1> QED BY <1>1, <1>2, <1>3, RendezvousStep, PTL DEF Spec

-----------------------------------------------------------------------------
(* What the calls of a job leave.  The streams are of stages, ... *)
Joint == {"reduce", "scatter", "gather", "exchange"}
Names == Joint \cup {"matmul", "shard", "copy", "bias", "norm"}
Work == [call : 1 .. CallsOfJob, do : Names]
JobTyped ==
  /\ program \in Programs
  /\ pc \in [Ranks -> 1 .. CallsOfJob + 1]
  /\ stream \in [Ranks -> Seq(Work)]

(* ... each with a place in its call ... *)
Length(i) == Len(Stages(program[i]))
Place(x) == CHOOSE p \in 1 .. Length(x.call) : Stages(program[x.call])[p] = x.do
Entry(i, p) == [call |-> i, do |-> Stages(program[i])[p]]

(* ... and hold those of the calls made, call after call and stage after   *)
(* stage; a call's stages are there from the next to run up to its last,   *)
(* or up to the one that failed.                                           *)
Before(x, y) == x.call < y.call \/ (x.call = y.call /\ Place(x) < Place(y))
Follows(x, y) ==
  IF x.call = y.call THEN Place(y) = Place(x) + 1 ELSE Place(y) = 1
Last(r, n) == n = Len(stream[r]) \/ stream[r][n + 1].call # stream[r][n].call
FailedIn(r, i) == \E f \in failed : f[1] = r /\ f[2] = i
StagesInOrder ==
  \A r \in Ranks : \A n \in 1 .. Len(stream[r]) :
    /\ stream[r][n].call \in 1 .. pc[r] - 1
    /\ \E p \in 1 .. Length(stream[r][n].call) : stream[r][n] = Entry(stream[r][n].call, p)
    /\ \A m \in n + 1 .. Len(stream[r]) : Before(stream[r][n], stream[r][m])
    /\ n < Len(stream[r]) => Follows(stream[r][n], stream[r][n + 1])
    /\ Last(r, n) => \/ Place(stream[r][n]) = Length(stream[r][n].call)
                     \/ FailedIn(r, stream[r][n].call)

(* A failure is of a call made, at one of its stages. *)
FailuresCounted ==
  \A f \in failed : /\ f[1] \in Ranks /\ f[2] \in 1 .. pc[f[1]] - 1
                    /\ f[3] \in 1 .. Length(f[2])

(* Has rank r got past the collective of call i?  The ranks do so together *)
(* unless a failure has spoilt the call: NCCL pairs by order alone.        *)
Passed(r, i) ==
  /\ i < pc[r]
  /\ \A n \in 1 .. Len(stream[r]) : stream[r][n] # Entry(i, CollectiveAt(i))
Together ==
  comm => \A i \in DOMAIN program : ~Spoilt(i) =>
            \A q, r \in Ranks : Passed(q, i) => Passed(r, i)

(* An output has its two fields, and only a norm marks it. *)
OutTyped ==
  \A r \in Ranks :
    /\ DOMAIN out[r] = DOMAIN program
    /\ \A i \in DOMAIN program : /\ DOMAIN out[r][i] = {"normed", "x"}
                                 /\ program[i] \notin Normed => out[r][i].normed = FALSE

(* The first stage in a stream finds what it needs: the rank's own terms   *)
(* for a collective or a copy, the sum for a bias, the promise for a norm. *)
Own(r, i) ==
  IF program[i] = "all_gather" THEN OneBlock(SetToBag({<<"mm", i, r, r>>}))
  ELSE Blocks(LAMBDA j : <<"mm", i, r, j>>)
Holding(r, i) == IF program[i] \in Gathered \cup Normed THEN temp[r] ELSE out[r][i].x
Ready(r, i, do) ==
  /\ do \in {"reduce", "scatter", "gather", "copy"} /\ program[i] \notin Exchanges =>
       Holding(r, i) = Own(r, i)
  /\ do = "bias" /\ ~Spoilt(i) => out[r][i].x = [j \in Ranks |-> Products(i, r, j)]
  /\ do = "norm" /\ ~Spoilt(i) /\ (comm \/ program[i] = "all_reduce_norm") =>
       temp[r] = Promised(r, i).x
HeadsReady ==
  \A r \in Ranks : stream[r] # << >> => Ready(r, CallOf(r), Head(stream[r]).do)

(* What holds between the steps. *)
JobInv ==
  /\ JobTyped /\ StagesInOrder /\ FailuresCounted /\ Together
  /\ DOMAIN out = Ranks /\ OutTyped /\ HeadsReady /\ ReducedOrReported

-----------------------------------------------------------------------------
(* Short sequences joined. *)
LEMMA Concats ==
  ASSUME NEW S, NEW s \in Seq(S), NEW t \in Seq(S), NEW u \in Seq(S),
         Len(u) = Len(s) + Len(t),
         \A n \in 1 .. Len(s) : u[n] = s[n], \A n \in 1 .. Len(t) : u[Len(s) + n] = t[n]
  PROVE  s \o t = u
<1>1. s \o t \in Seq(S) /\ Len(s \o t) = Len(s) + Len(t) /\ Len(s) \in Nat /\ Len(t) \in Nat
  BY ConcatProperties, LenProperties
<1>2. ASSUME NEW n \in 1 .. Len(s) + Len(t) PROVE (s \o t)[n] = u[n]
  <2>1. (s \o t)[n] = IF n <= Len(s) THEN s[n] ELSE t[n - Len(s)]
    BY ConcatProperties
  <2>2. CASE n <= Len(s)
    BY <1>1, <2>1, <2>2
  <2>3. CASE ~(n <= Len(s))
    <3>1. n - Len(s) \in 1 .. Len(t) /\ Len(s) + (n - Len(s)) = n
      BY <1>1, <2>3
    <3> QED BY <2>1, <2>3, <3>1
  <2> QED BY <2>2, <2>3
<1> QED BY <1>1, <1>2, SeqEqual

(* Two stages, three, or none in one of the parts. *)
LEMMA Concat2 ==
  ASSUME NEW a, NEW b
  PROVE  <<a>> \o <<b>> = <<a, b>>
<1> DEFINE S == {a, b} s == <<a>> t == <<b>> u == <<a, b>>
<1>1. /\ s \in Seq(S) /\ t \in Seq(S) /\ u \in Seq(S)
      /\ Len(s) = 1 /\ Len(t) = 1 /\ Len(u) = 2
      /\ u[1] = s[1] /\ u[2] = t[1]
  OBVIOUS
<1> HIDE DEF S, s, t, u
<1>2. Len(u) = Len(s) + Len(t)
  BY <1>1
<1>3. ASSUME NEW n \in 1 .. Len(s) PROVE u[n] = s[n]
  BY <1>1
<1>4. ASSUME NEW n \in 1 .. Len(t) PROVE u[Len(s) + n] = t[n]
  BY <1>1
<1>5. s \o t = u
  BY <1>1, <1>2, <1>3, <1>4, Concats
<1> QED BY <1>5 DEF s, t, u

LEMMA Concat3 ==
  ASSUME NEW a, NEW b, NEW c
  PROVE  <<a, b>> \o <<c>> = <<a, b, c>>
<1> DEFINE S == {a, b, c} s == <<a, b>> t == <<c>> u == <<a, b, c>>
<1>1. /\ s \in Seq(S) /\ t \in Seq(S) /\ u \in Seq(S)
      /\ Len(s) = 2 /\ Len(t) = 1 /\ Len(u) = 3
      /\ u[1] = s[1] /\ u[2] = s[2] /\ u[3] = t[1]
  OBVIOUS
<1> HIDE DEF S, s, t, u
<1>2. Len(u) = Len(s) + Len(t)
  BY <1>1
<1>3. ASSUME NEW n \in 1 .. Len(s) PROVE u[n] = s[n]
  BY <1>1
<1>4. ASSUME NEW n \in 1 .. Len(t) PROVE u[Len(s) + n] = t[n]
  BY <1>1
<1>5. s \o t = u
  BY <1>1, <1>2, <1>3, <1>4, Concats
<1> QED BY <1>5 DEF s, t, u

LEMMA Concat0 ==
  ASSUME NEW a, NEW b
  PROVE  /\ <<a, b>> \o << >> = <<a, b>> /\ << >> \o <<a>> = <<a>>
         /\ <<a>> \o << >> = <<a>> /\ << >> \o << >> = << >>
OBVIOUS

(* A call is what its three parts are, put together. *)
LEMMA Shapes ==
  ASSUME NEW k, NEW a, NEW b, NEW c
  PROVE  /\ LocalWork(k) = <<a>> /\ Middle(k) = <<b>> /\ Epilogue(k) = <<c>>
              => Stages(k) = <<a, b, c>>
         /\ LocalWork(k) = <<a>> /\ Middle(k) = <<b>> /\ Epilogue(k) = << >>
              => Stages(k) = <<a, b>>
         /\ LocalWork(k) = <<a>> /\ Middle(k) = << >> /\ Epilogue(k) = <<c>>
              => Stages(k) = <<a, c>>
         /\ LocalWork(k) = <<a>> /\ Middle(k) = << >> /\ Epilogue(k) = << >>
              => Stages(k) = <<a>>
         /\ LocalWork(k) = << >> /\ Middle(k) = <<b>> /\ Epilogue(k) = <<c>>
              => Stages(k) = <<b, c>>
         /\ LocalWork(k) = << >> /\ Middle(k) = <<b>> /\ Epilogue(k) = << >>
              => Stages(k) = <<b>>
         /\ LocalWork(k) = << >> /\ Middle(k) = << >> /\ Epilogue(k) = <<c>>
              => Stages(k) = <<c>>
<1>1. <<a>> \o <<b>> = <<a, b>> /\ <<a>> \o <<c>> = <<a, c>> /\ <<b>> \o <<c>> = <<b, c>>
  BY Concat2
<1>2. <<a, b>> \o <<c>> = <<a, b, c>>
  BY Concat3
<1>3. /\ <<a, b>> \o << >> = <<a, b>> /\ <<a>> \o << >> = <<a>> /\ << >> \o <<a>> = <<a>>
      /\ << >> \o <<b>> = <<b>> /\ << >> \o <<c>> = <<c>> /\ << >> \o << >> = << >>
      /\ <<b>> \o << >> = <<b>>
  BY Concat0
<1> QED BY <1>1, <1>2, <1>3, Zenon DEF Stages

(* The stages of every call. *)
LEMMA StagesAre ==
  /\ comm =>
       /\ Stages("all_reduce") = <<"matmul", "reduce">>
       /\ Stages("all_reduce_bias") = <<"matmul", "reduce", "bias">>
       /\ Stages("quant_all_reduce") = <<"matmul", "reduce">>
       /\ Stages("reduce_scatter") = <<"matmul", "scatter">>
       /\ Stages("all_gather") = <<"shard", "gather">>
       /\ Stages("dispatch") = <<"exchange">>
       /\ Stages("combine") = <<"exchange">>
       /\ Stages("all_reduce_norm") = <<"matmul", "reduce", "norm">>
       /\ Stages("combine_norm") = <<"exchange", "norm">>
  /\ ~comm =>
       /\ Stages("all_reduce") = <<"matmul">>
       /\ Stages("all_reduce_bias") = <<"matmul", "bias">>
       /\ Stages("quant_all_reduce") = <<"matmul">>
       /\ Stages("reduce_scatter") = <<"matmul", "copy">>
       /\ Stages("all_gather") = <<"shard", "copy">>
       /\ Stages("dispatch") = <<"copy">>
       /\ Stages("combine") = <<"copy">>
       /\ Stages("all_reduce_norm") = <<"matmul", "norm">>
       /\ Stages("combine_norm") = <<"norm">>
<1>1. /\ \A k \in {"all_reduce", "all_reduce_bias", "quant_all_reduce", "reduce_scatter",
                   "all_reduce_norm"} : LocalWork(k) = <<"matmul">>
      /\ LocalWork("all_gather") = <<"shard">>
      /\ \A k \in Exchanges : LocalWork(k) = << >>
  BY DEF LocalWork, Exchanges
<1>2. /\ Collective("all_reduce") = "reduce" /\ Collective("all_reduce_bias") = "reduce"
      /\ Collective("quant_all_reduce") = "reduce" /\ Collective("all_reduce_norm") = "reduce"
      /\ Collective("reduce_scatter") = "scatter" /\ Collective("all_gather") = "gather"
      /\ \A k \in Exchanges : Collective(k) = "exchange"
  BY DEF Collective, Exchanges
<1>3. /\ \A k \in Kinds \ {"all_reduce_bias", "all_reduce_norm", "combine_norm"} :
           Epilogue(k) = << >>
      /\ Epilogue("all_reduce_bias") = <<"bias">>
      /\ Epilogue("all_reduce_norm") = <<"norm">> /\ Epilogue("combine_norm") = <<"norm">>
  BY DEF Epilogue, Normed
<1>5. CASE comm
  <2>1. \A k : Middle(k) = <<Collective(k)>>
    BY <1>5 DEF Middle
  <2> QED BY <1>1, <1>2, <1>3, <1>5, <2>1, Shapes DEF Kinds, Exchanges
<1>6. CASE ~comm
  <2>1. /\ \A k \in {"all_reduce", "all_reduce_bias", "quant_all_reduce", "all_reduce_norm",
                     "combine_norm"} : Middle(k) = << >>
        /\ \A k \in {"reduce_scatter", "all_gather", "dispatch", "combine"} :
             Middle(k) = <<"copy">>
    BY <1>2, <1>6 DEF Middle, Exchanges
  <2> QED BY <1>1, <1>2, <1>3, <1>6, <2>1, Shapes DEF Kinds, Exchanges
<1> QED BY <1>5, <1>6

(* The same, stage by stage. *)
LEMMA StageTable ==
  ASSUME NEW i, program[i] \in Kinds, NEW k, k = program[i], NEW s, s = Stages(k), NEW l, l = Length(i)
  PROVE  \/ comm /\ k \in {"dispatch", "combine"} /\ l = 1 /\ s[1] = "exchange"
         \/ comm /\ k = "combine_norm" /\ l = 2 /\ s[1] = "exchange" /\ s[2] = "norm"
         \/ /\ comm /\ k \in {"all_reduce", "quant_all_reduce"}
            /\ l = 2 /\ s[1] = "matmul" /\ s[2] = "reduce"
         \/ /\ comm /\ k = "all_reduce_bias"
            /\ l = 3 /\ s[1] = "matmul" /\ s[2] = "reduce" /\ s[3] = "bias"
         \/ /\ comm /\ k = "all_reduce_norm"
            /\ l = 3 /\ s[1] = "matmul" /\ s[2] = "reduce" /\ s[3] = "norm"
         \/ comm /\ k = "reduce_scatter" /\ l = 2 /\ s[1] = "matmul" /\ s[2] = "scatter"
         \/ comm /\ k = "all_gather" /\ l = 2 /\ s[1] = "shard" /\ s[2] = "gather"
         \/ ~comm /\ k \in {"dispatch", "combine"} /\ l = 1 /\ s[1] = "copy"
         \/ ~comm /\ k = "combine_norm" /\ l = 1 /\ s[1] = "norm"
         \/ ~comm /\ k \in {"all_reduce", "quant_all_reduce"} /\ l = 1 /\ s[1] = "matmul"
         \/ ~comm /\ k = "all_reduce_bias" /\ l = 2 /\ s[1] = "matmul" /\ s[2] = "bias"
         \/ ~comm /\ k = "all_reduce_norm" /\ l = 2 /\ s[1] = "matmul" /\ s[2] = "norm"
         \/ ~comm /\ k = "reduce_scatter" /\ l = 2 /\ s[1] = "matmul" /\ s[2] = "copy"
         \/ ~comm /\ k = "all_gather" /\ l = 2 /\ s[1] = "shard" /\ s[2] = "copy"
<1>1. l = Len(s) /\ k \in Kinds
  BY DEF Length
<1>2. /\ \A a : s = <<a>> => Len(s) = 1 /\ s[1] = a
      /\ \A a, b : s = <<a, b>> => Len(s) = 2 /\ s[1] = a /\ s[2] = b
      /\ \A a, b, c : s = <<a, b, c>> => Len(s) = 3 /\ s[1] = a /\ s[2] = b /\ s[3] = c
  OBVIOUS
<1>3. CASE comm
  BY <1>1, <1>2, <1>3, StagesAre DEF Kinds
<1>4. CASE ~comm
  BY <1>1, <1>2, <1>4, StagesAre DEF Kinds
<1> QED BY <1>3, <1>4

(* What a call's stages are like, whatever the kind. *)
LEMMA StageFacts ==
  ASSUME NEW i, program[i] \in Kinds
  PROVE  /\ Length(i) \in 1 .. 3
         /\ \A p, q \in 1 .. Length(i) :
              Stages(program[i])[p] = Stages(program[i])[q] => p = q
         /\ \A p \in 1 .. Length(i) : Stages(program[i])[p] \in Names
         /\ CollectiveAt(i) \in {1, 2}
         /\ comm => /\ CollectiveAt(i) <= Length(i)
                    /\ Stages(program[i])[CollectiveAt(i)] \in Joint
         /\ \A p \in 1 .. Length(i) :
              Stages(program[i])[p] \in Joint => comm /\ p = CollectiveAt(i)
<1> DEFINE s == Stages(program[i])
<1>1. CollectiveAt(i) = IF program[i] \in Exchanges THEN 1 ELSE 2
  BY DEF CollectiveAt, LocalWork
<1>2. PICK k, l : k = program[i] /\ l = Length(i)
  OBVIOUS
<1>3. /\ l = 1 => 1 .. l = {1}
      /\ l = 2 => 1 .. l = {1, 2}
      /\ l = 3 => 1 .. l = {1, 2, 3}
  OBVIOUS
<1>4. l \in {1, 2, 3}
  BY <1>2, StageTable
<1>5. /\ l = 2 \/ l = 3 => s[1] # s[2]
      /\ l = 3 => s[1] # s[3] /\ s[2] # s[3]
  BY <1>2, StageTable
<1>0. s[1] \in Names /\ (l = 2 \/ l = 3 => s[2] \in Names) /\ (l = 3 => s[3] \in Names)
  <2>1. /\ s[1] \in {"exchange", "matmul", "shard", "copy", "norm"}
        /\ l = 2 \/ l = 3 => s[2] \in {"norm", "reduce", "scatter", "gather", "bias", "copy"}
        /\ l = 3 => s[3] \in {"bias", "norm"}
    BY <1>2, StageTable
  <2> QED BY <2>1 DEF Names, Joint
<1>6. /\ comm => IF k \in Exchanges THEN s[1] \in Joint ELSE l # 1 /\ s[2] \in Joint
      /\ s[1] \in Joint => comm /\ k \in Exchanges
      /\ l # 1 /\ s[2] \in Joint => comm /\ k \notin Exchanges
      /\ l = 3 => s[3] \notin Joint
  BY <1>2, StageTable DEF Joint, Exchanges
<1> HIDE DEF s
<1>7. CASE l = 1
  BY <1>1, <1>2, <1>3, <1>0, <1>5, <1>6, <1>7 DEF s
<1>8. CASE l = 2
  BY <1>1, <1>2, <1>3, <1>0, <1>5, <1>6, <1>8 DEF s
<1>9. CASE l = 3
  BY <1>1, <1>2, <1>3, <1>0, <1>5, <1>6, <1>9 DEF s
<1> QED BY <1>4, <1>7, <1>8, <1>9

(* What each stage is followed by. *)
LEMMA StageNames ==
  ASSUME NEW i, program[i] \in Kinds, NEW p \in 1 .. Length(i),
         NEW s, s = Stages(program[i]), NEW l, l = Length(i)
  PROVE  /\ s[p] = "matmul" =>
              /\ p = 1 /\ program[i] \notin Exchanges /\ program[i] # "all_gather"
              /\ p = l => ~comm /\ program[i] \in {"all_reduce", "quant_all_reduce"}
              /\ p < l => \/ s[p + 1] \in {"reduce", "scatter", "copy"}
                          \/ ~comm /\ s[p + 1] = "bias" /\ program[i] = "all_reduce_bias"
                          \/ ~comm /\ s[p + 1] = "norm" /\ program[i] = "all_reduce_norm"
         /\ s[p] = "shard" => p = 1 /\ 1 < l /\ s[2] \in {"gather", "copy"} /\ program[i] = "all_gather"
         /\ s[p] = "reduce" =>
              /\ comm /\ program[i] \in {"all_reduce", "all_reduce_bias", "quant_all_reduce", "all_reduce_norm"}
              /\ p = l => program[i] \in {"all_reduce", "quant_all_reduce"}
              /\ p < l => \/ s[p + 1] = "bias" /\ program[i] = "all_reduce_bias"
                          \/ s[p + 1] = "norm" /\ program[i] = "all_reduce_norm"
         /\ s[p] = "scatter" => comm /\ p = l /\ program[i] = "reduce_scatter"
         /\ s[p] = "gather" => comm /\ p = l /\ program[i] = "all_gather"
         /\ s[p] = "exchange" =>
              /\ comm /\ p = 1 /\ program[i] \in Exchanges
              /\ p = l => program[i] \in {"dispatch", "combine"}
              /\ p < l => program[i] = "combine_norm" /\ s[p + 1] = "norm"
         /\ s[p] = "copy" =>
              /\ ~comm /\ p = l
              /\ program[i] \in {"reduce_scatter", "all_gather", "dispatch", "combine"}
         /\ s[p] = "bias" => p = l /\ program[i] = "all_reduce_bias"
         /\ s[p] = "norm" => p = l /\ program[i] \in Normed
         /\ p = 1 => /\ s[p] \notin {"reduce", "scatter", "gather", "bias"}
                     /\ s[p] = "copy" => program[i] \in Exchanges
                     /\ s[p] = "norm" => ~comm /\ program[i] = "combine_norm"
<1>1. l \in {1, 2, 3} /\ p \in 1 .. l
  BY StageTable
<1>2. /\ l = 1 => p = 1
      /\ l = 2 => p \in {1, 2}
      /\ l = 3 => p \in {1, 2, 3}
  BY <1>1
<1> QED BY <1>1, <1>2, StageTable DEF Exchanges, Normed

-----------------------------------------------------------------------------
(* What depends on the job alone stays. *)
LEMMA JobStays ==
  ASSUME UNCHANGED <<program, comm>>
  PROVE  /\ \A k : Stages(k)' = Stages(k)
         /\ \A i : Length(i)' = Length(i) /\ CollectiveAt(i)' = CollectiveAt(i)
         /\ \A i, p : Entry(i, p)' = Entry(i, p)
         /\ \A x : Place(x)' = Place(x)
         /\ \A x, y : (Before(x, y)' <=> Before(x, y)) /\ (Follows(x, y)' <=> Follows(x, y))
         /\ \A r, i : Promised(r, i)' = Promised(r, i) /\ Own(r, i)' = Own(r, i)
         /\ \A i, r, j : Products(i, r, j)' = Products(i, r, j)
<1>1. \A k : Stages(k)' = Stages(k)
  BY DEF Stages, LocalWork, Middle, Epilogue, Collective
<1>2. \A i : Length(i)' = Length(i) /\ CollectiveAt(i)' = CollectiveAt(i)
  BY <1>1 DEF Length, CollectiveAt, LocalWork
<1>3. \A i, p : Entry(i, p)' = Entry(i, p)
  BY <1>1 DEF Entry
<1>4. \A x : Place(x)' = Place(x)
  BY <1>1, <1>2 DEF Place
<1>5. \A x, y : (Before(x, y)' <=> Before(x, y)) /\ (Follows(x, y)' <=> Follows(x, y))
  BY <1>4 DEF Before, Follows
<1>6. \A r, i : Promised(r, i)' = Promised(r, i) /\ Own(r, i)' = Own(r, i)
  BY DEF Promised, Own, Products, Tokens, Dispatches, OneBlock, Blocks
<1>7. \A i, r, j : Products(i, r, j)' = Products(i, r, j)
  BY DEF Products
<1> QED BY <1>1, <1>2, <1>3, <1>4, <1>5, <1>6, <1>7

(* The program is as long as the job, and made of the nine kinds. *)
LEMMA ProgramKinds ==
  ASSUME JobTyped
  PROVE  /\ Len(program) = CallsOfJob /\ CallsOfJob \in Nat
         /\ DOMAIN program = 1 .. CallsOfJob
         /\ \A i \in 1 .. CallsOfJob : program[i] \in Kinds
<1>1. program \in Seq(Kinds) /\ DOMAIN program = 1 .. CallsOfJob
  BY CallsAssumption DEF JobTyped, Programs
<1>2. Len(program) = CallsOfJob
  BY <1>1, CallsAssumption, LenProperties
<1> QED BY <1>1, <1>2, CallsAssumption DEF JobTyped, Programs

(* The stages of a call are different, so each has one place. *)
LEMMA EntryPlace ==
  ASSUME NEW i, program[i] \in Kinds, NEW p \in 1 .. Length(i)
  PROVE  /\ Place(Entry(i, p)) = p /\ Entry(i, p).call = i
         /\ Entry(i, p).do = Stages(program[i])[p]
<1>1. Entry(i, p).call = i /\ Entry(i, p).do = Stages(program[i])[p]
  BY DEF Entry
<1>2. \A q \in 1 .. Length(i) : Stages(program[i])[q] = Stages(program[i])[p] => q = p
  BY StageFacts
<1> QED BY <1>1, <1>2 DEF Place

(* What taking the first item does to a stream. *)
LEMMA Taken ==
  ASSUME NEW S, NEW q \in Seq(S), q # << >>
  PROVE  /\ Tail(q) \in Seq(S)
         /\ Len(q) \in Nat \ {0} /\ Len(Tail(q)) = Len(q) - 1
         /\ \A n \in 1 .. Len(q) - 1 : Tail(q)[n] = q[n + 1]
         /\ Head(q) = q[1] /\ Head(q) \in S
         /\ \A n \in 1 .. Len(q) : q[n] \in S
<1>1. Len(q) \in Nat \ {0}
  BY EmptySeq, LenProperties
<1>2. \A n \in 1 .. Len(q) : q[n] \in S
  BY ElementOfSeq
<1> QED BY <1>1, <1>2, HeadTailProperties

(* The first stage in a stream, and how the others stand to it. *)
LEMMA HeadEntry ==
  ASSUME JobTyped, StagesInOrder, NEW r \in Ranks, stream[r] # << >>,
         NEW h, h = Head(stream[r]), NEW i, i = CallOf(r)
  PROVE  /\ i = h.call /\ i \in 1 .. CallsOfJob /\ i < pc[r] /\ program[i] \in Kinds
         /\ Place(h) \in 1 .. Length(i) /\ h = Entry(i, Place(h))
         /\ h.do = Stages(program[i])[Place(h)]
         /\ 1 \in 1 .. Len(stream[r]) /\ stream[r][1] = h
         /\ \A n \in 2 .. Len(stream[r]) : Before(h, stream[r][n])
<1>1. 1 \in 1 .. Len(stream[r]) /\ h = stream[r][1] /\ h \in Work /\ i = h.call
  BY Taken DEF JobTyped, CallOf
<1>2. i \in 1 .. CallsOfJob /\ program[i] \in Kinds
  BY <1>1, ProgramKinds DEF Work
<1>3. PICK p \in 1 .. Length(i) : h = Entry(i, p)
  BY <1>1 DEF StagesInOrder
<1>4. Place(h) = p /\ h.do = Stages(program[i])[p]
  BY <1>2, <1>3, EntryPlace
<1>5. i \in 1 .. pc[r] - 1 /\ pc[r] \in Nat
  BY <1>1, CallsAssumption DEF StagesInOrder, JobTyped
<1>6. \A n \in 2 .. Len(stream[r]) : Before(h, stream[r][n])
  BY <1>1 DEF StagesInOrder
<1>7. i < pc[r]
  BY <1>5
<1>8. /\ Place(h) \in 1 .. Length(i) /\ h = Entry(i, Place(h))
      /\ h.do = Stages(program[i])[Place(h)]
  BY <1>3, <1>4, Zenon
<1> QED BY <1>1, <1>2, <1>6, <1>7, <1>8, Zenon

-----------------------------------------------------------------------------
(* The device takes the first stage of some streams. *)
Popped(D) ==
  /\ UNCHANGED <<program, comm, pc, failed>>
  /\ D \subseteq Ranks /\ \A r \in D : stream[r] # << >>
  /\ stream' = [r \in Ranks |-> IF r \in D THEN Tail(stream[r]) ELSE stream[r]]

(* What has failed stays failed. *)
LEMMA SpoiltStays ==
  ASSUME UNCHANGED <<program, comm, failed>>
  PROVE  /\ \A i : Spoilt(i)' <=> Spoilt(i)
         /\ \A r, i : FailedIn(r, i)' <=> FailedIn(r, i)
<1>1. \A i : CollectiveAt(i)' = CollectiveAt(i)
  BY JobStays
<1> QED BY <1>1 DEF Spoilt, FailedIn

(* The streams after the step, item by item. *)
LEMMA PopLengths ==
  ASSUME JobTyped, NEW D, Popped(D), NEW r \in Ranks
  PROVE  /\ r \notin D => stream'[r] = stream[r]
         /\ r \in D => /\ stream'[r] = Tail(stream[r])
                       /\ Len(stream[r]) \in Nat \ {0} /\ Len(stream'[r]) = Len(stream[r]) - 1
                       /\ \A n \in 1 .. Len(stream'[r]) :
                            stream'[r][n] = stream[r][n + 1] /\ n + 1 \in 2 .. Len(stream[r])
         /\ stream'[r] \in Seq(Work) /\ Len(stream'[r]) \in Nat
<1>1. stream[r] \in Seq(Work)
  BY DEF JobTyped
<1>2. CASE r \in D
  <2>1. stream'[r] = Tail(stream[r]) /\ stream[r] # << >>
    BY <1>2 DEF Popped
  <2>2. /\ Len(stream[r]) \in Nat \ {0} /\ Len(stream'[r]) = Len(stream[r]) - 1
        /\ \A n \in 1 .. Len(stream[r]) - 1 : stream'[r][n] = stream[r][n + 1]
        /\ stream'[r] \in Seq(Work)
    BY <1>1, <2>1, Taken
  <2> QED BY <1>2, <2>1, <2>2
<1>3. CASE r \notin D
  BY <1>1, <1>3, LenProperties DEF Popped
<1> QED BY <1>2, <1>3

(* What is left of the streams is still in order. *)
LEMMA PopOrder ==
  ASSUME JobTyped, StagesInOrder, NEW D, Popped(D)
  PROVE  JobTyped' /\ StagesInOrder'
<1>1. JobTyped'
  <2>1. stream' \in [Ranks -> Seq(Work)]
    <3>1. \A r \in Ranks : stream'[r] \in Seq(Work)
      BY PopLengths
    <3> QED BY <3>1 DEF Popped
  <2> QED BY <2>1 DEF JobTyped, Popped, Work
<1>2. StagesInOrder'
  <2> SUFFICES ASSUME NEW r \in Ranks, NEW n \in 1 .. Len(stream'[r])
               PROVE  /\ stream'[r][n].call \in 1 .. pc[r] - 1
                      /\ \E p \in 1 .. Length(stream'[r][n].call) :
                           stream'[r][n] = Entry(stream'[r][n].call, p)
                      /\ \A m \in n + 1 .. Len(stream'[r]) : Before(stream'[r][n], stream'[r][m])
                      /\ n < Len(stream'[r]) => Follows(stream'[r][n], stream'[r][n + 1])
                      /\ Last(r, n)' => \/ Place(stream'[r][n]) = Length(stream'[r][n].call)
                                        \/ FailedIn(r, stream'[r][n].call)
    <3>1. UNCHANGED <<program, comm, pc, failed>>
      BY DEF Popped
    <3> QED BY <3>1, JobStays, SpoiltStays DEF StagesInOrder
  <2>1. CASE r \notin D
    <3>1. stream'[r] = stream[r] /\ (Last(r, n)' <=> Last(r, n))
      BY <2>1, PopLengths DEF Last
    <3> QED BY <3>1 DEF StagesInOrder
  <2>2. CASE r \in D
    <3>1. /\ Len(stream[r]) \in Nat \ {0} /\ Len(stream'[r]) = Len(stream[r]) - 1
          /\ n + 1 \in 1 .. Len(stream[r]) /\ stream'[r][n] = stream[r][n + 1]
          /\ n \in Nat \ {0}
      BY <2>2, PopLengths
    <3>2. \A m \in n + 1 .. Len(stream'[r]) :
            stream'[r][m] = stream[r][m + 1] /\ m + 1 \in (n + 1) + 1 .. Len(stream[r])
      BY <2>2, <3>1, PopLengths
    <3>3. n < Len(stream'[r]) =>
            n + 1 < Len(stream[r]) /\ stream'[r][n + 1] = stream[r][(n + 1) + 1]
      <4>1. n < Len(stream'[r]) => n + 1 \in 1 .. Len(stream'[r])
        BY <3>1
      <4> QED BY <2>2, <3>1, <4>1, PopLengths
    <3>4. Last(r, n)' => Last(r, n + 1)
      <4>1. n = Len(stream'[r]) => n + 1 = Len(stream[r])
        BY <3>1
      <4>2. n # Len(stream'[r]) => n < Len(stream'[r])
        BY <3>1
      <4> QED BY <3>1, <3>3, <4>1, <4>2 DEF Last
    <3>5. /\ stream[r][n + 1].call \in 1 .. pc[r] - 1
          /\ \E p \in 1 .. Length(stream[r][n + 1].call) :
               stream[r][n + 1] = Entry(stream[r][n + 1].call, p)
          /\ \A m \in (n + 1) + 1 .. Len(stream[r]) : Before(stream[r][n + 1], stream[r][m])
          /\ n + 1 < Len(stream[r]) => Follows(stream[r][n + 1], stream[r][(n + 1) + 1])
          /\ Last(r, n + 1) => \/ Place(stream[r][n + 1]) = Length(stream[r][n + 1].call)
                               \/ FailedIn(r, stream[r][n + 1].call)
      BY <3>1 DEF StagesInOrder
    <3> QED BY <3>1, <3>2, <3>3, <3>4, <3>5
  <2> QED BY <2>1, <2>2
<1> QED BY <1>1, <1>2

(* Arithmetic of the second item. *)
LEMMA Beyond ==
  \A l \in Nat \ {0} : \A m : m = l - 1 =>
    /\ l # 1 => 1 \in 1 .. m
    /\ m \in Nat \ {0} => 1 \in 1 .. m /\ 1 + 1 \in 1 .. l /\ 1 < l
OBVIOUS

(* The stage after the head: the next of its call, or another's first.     *)
LEMMA NextHead ==
  ASSUME JobTyped, StagesInOrder, NEW D, Popped(D), NEW r \in D, NEW h, h = Head(stream[r])
  PROVE  /\ stream'[r] # << >> =>
              LET g == Head(stream'[r])
              IN  /\ g.call \in 1 .. CallsOfJob
                  /\ Place(g) \in 1 .. Length(g.call)
                  /\ g.do = Stages(program[g.call])[Place(g)]
                  /\ IF g.call = h.call THEN Place(g) = Place(h) + 1 ELSE Place(g) = 1
         /\ (\A n \in 1 .. Len(stream'[r]) : stream'[r][n].call # h.call) =>
              Place(h) = Length(h.call) \/ FailedIn(r, h.call)
<1>0. r \in Ranks /\ stream[r] # << >> /\ stream[r] \in Seq(Work)
  BY DEF Popped, JobTyped
<1>1. 1 \in 1 .. Len(stream[r]) /\ stream[r][1] = h
  BY <1>0, HeadEntry
<1>2. /\ Len(stream[r]) \in Nat \ {0} /\ Len(stream'[r]) = Len(stream[r]) - 1
      /\ \A n \in 1 .. Len(stream'[r]) : stream'[r][n] = stream[r][n + 1]
      /\ stream'[r] \in Seq(Work)
  BY <1>0, PopLengths
<1>3. ASSUME stream'[r] # << >>, NEW g, g = Head(stream'[r])
      PROVE  /\ g.call \in 1 .. CallsOfJob
             /\ Place(g) \in 1 .. Length(g.call)
             /\ g.do = Stages(program[g.call])[Place(g)]
             /\ IF g.call = h.call THEN Place(g) = Place(h) + 1 ELSE Place(g) = 1
  <2>1. Len(stream'[r]) \in Nat \ {0} /\ g = stream'[r][1] /\ g \in Work
    BY <1>2, <1>3, Taken
  <2>2. g = stream[r][1 + 1] /\ 1 + 1 \in 1 .. Len(stream[r]) /\ 1 < Len(stream[r])
    <3>1. /\ 1 \in 1 .. Len(stream'[r])
          /\ 1 + 1 \in 1 .. Len(stream[r]) /\ 1 < Len(stream[r])
      BY <1>2, <2>1, Beyond, Zenon
    <3> QED BY <1>2, <2>1, <3>1, Zenon
  <2>3. PICK p \in 1 .. Length(g.call) : g = Entry(g.call, p)
    BY <1>0, <2>2 DEF StagesInOrder
  <2>4. g.call \in 1 .. CallsOfJob /\ program[g.call] \in Kinds
    BY <2>1, ProgramKinds DEF Work
  <2>5. Place(g) = p /\ g.do = Stages(program[g.call])[p]
    BY <2>3, <2>4, EntryPlace
  <2>6. Follows(h, g)
    BY <1>0, <1>1, <2>2 DEF StagesInOrder
  <2> QED BY <2>4, <2>5, <2>6 DEF Follows
<1>4. ASSUME \A n \in 1 .. Len(stream'[r]) : stream'[r][n].call # h.call
      PROVE  Place(h) = Length(h.call) \/ FailedIn(r, h.call)
  <2>1. CASE Len(stream[r]) = 1
    BY <1>0, <1>1, <2>1 DEF StagesInOrder, Last
  <2>2. CASE Len(stream[r]) # 1
    <3>1. 1 \in 1 .. Len(stream'[r])
      BY <1>2, <2>2, Beyond, Zenon
    <3>2. stream[r][1 + 1].call # stream[r][1].call
      BY <1>1, <1>2, <1>4, <3>1
    <3> QED BY <1>0, <1>1, <3>2 DEF StagesInOrder, Last
  <2> QED BY <2>1, <2>2
<1> QED BY <1>3, <1>4

-----------------------------------------------------------------------------
(* When a stage leaves a stream, its rank is past the collective of a call *)
(* that it was past before, and of the one that it has just taken part in. *)
LEMMA PopPassed ==
  ASSUME JobTyped, StagesInOrder, NEW D, Popped(D), NEW r \in Ranks, NEW i
  PROVE  /\ Passed(r, i) => Passed(r, i)'
         /\ r \in D /\ Head(stream[r]) = Entry(i, CollectiveAt(i)) => Passed(r, i)'
         /\ r \in D /\ Head(stream[r]) # Entry(i, CollectiveAt(i)) /\ Passed(r, i)'
              => Passed(r, i)
         /\ r \notin D /\ Passed(r, i)' => Passed(r, i)
<1>0. /\ UNCHANGED <<program, comm, pc, failed>>
      /\ Entry(i, CollectiveAt(i))' = Entry(i, CollectiveAt(i))
  BY JobStays DEF Popped
<1>1. CASE r \notin D
  <2>1. stream'[r] = stream[r]
    BY <1>1, PopLengths
  <2> QED BY <1>0, <1>1, <2>1 DEF Passed
<1>2. CASE r \in D
  <2>1. /\ Len(stream[r]) \in Nat \ {0} /\ Len(stream'[r]) = Len(stream[r]) - 1
        /\ \A n \in 1 .. Len(stream'[r]) :
             stream'[r][n] = stream[r][n + 1] /\ n + 1 \in 2 .. Len(stream[r])
    BY <1>2, PopLengths
  <2>2. PICK h : h = Head(stream[r])
    OBVIOUS
  <2>3. /\ stream[r] # << >> /\ h.call < pc[r] /\ stream[r][1] = h
        /\ \A n \in 2 .. Len(stream[r]) : Before(h, stream[r][n])
    BY <1>2, <2>2, HeadEntry DEF Popped
  <2>4. \A n \in 1 .. Len(stream'[r]) : n + 1 \in 1 .. Len(stream[r])
    BY <2>1
  <2>5. Passed(r, i) => Passed(r, i)'
    BY <1>0, <2>1, <2>4 DEF Passed
  <2>6. ASSUME h = Entry(i, CollectiveAt(i)) PROVE Passed(r, i)'
    <3>1. h.call = i
      BY <2>6 DEF Entry
    <3>2. ~Before(h, h)
      <4>1. h.call \in 1 .. CallsOfJob /\ Place(h) \in 1 .. Length(h.call) /\ program[h.call] \in Kinds
        BY <1>2, <2>2, <2>3, HeadEntry
      <4>2. Length(h.call) \in 1 .. 3 /\ CallsOfJob \in Nat
        BY <4>1, StageFacts, CallsAssumption
      <4>3. h.call \in Int /\ Place(h) \in Int
        BY <4>1, <4>2
      <4> QED BY <4>3 DEF Before
    <3>3. \A n \in 1 .. Len(stream'[r]) : stream'[r][n] # h
      BY <2>1, <2>3, <3>2
    <3> QED BY <1>0, <2>3, <2>6, <3>1, <3>3 DEF Passed
  <2>7. ASSUME h # Entry(i, CollectiveAt(i)), Passed(r, i)' PROVE Passed(r, i)
    <3>1. ASSUME NEW n \in 1 .. Len(stream[r]) PROVE stream[r][n] # Entry(i, CollectiveAt(i))
      <4>1. CASE n = 1
        BY <2>3, <2>7, <4>1
      <4>2. CASE n # 1
        <5>1. n - 1 \in 1 .. Len(stream'[r]) /\ (n - 1) + 1 = n
          BY <2>1, <4>2
        <5> QED BY <1>0, <2>1, <2>7, <5>1 DEF Passed
      <4> QED BY <4>1, <4>2
    <3> QED BY <1>0, <2>7, <3>1 DEF Passed
  <2> QED BY <1>2, <2>2, <2>5, <2>6, <2>7
<1> QED BY <1>1, <1>2

(* A call that a failure spoils spoils the later ones. *)
LEMMA SpoiltAfter ==
  ASSUME JobTyped, FailuresCounted, NEW i \in Nat, NEW k \in Nat, k <= i, Spoilt(k)
  PROVE  Spoilt(i)
<1>1. PICK f \in failed : f[2] <= k /\ f[3] <= CollectiveAt(f[2])
  BY DEF Spoilt
<1>2. f[2] \in 1 .. pc[f[1]] - 1 /\ pc[f[1]] \in Nat
  BY CallsAssumption DEF FailuresCounted, JobTyped
<1>3. f[2] <= i
  BY <1>1, <1>2
<1> QED BY <1>1, <1>3 DEF Spoilt

(* A stage of one rank alone leaves the ranks as far as they were. *)
LEMMA LocalTogether ==
  ASSUME JobTyped, StagesInOrder, Together, NEW r \in Ranks, Popped({r}),
         Head(stream[r]).do \notin Joint
  PROVE  Together'
<1> SUFFICES ASSUME comm, NEW i \in 1 .. CallsOfJob, ~Spoilt(i),
                    NEW q \in Ranks, NEW s \in Ranks, Passed(q, i)'
             PROVE  Passed(s, i)'
  <2>1. UNCHANGED <<program, comm, failed>> /\ DOMAIN program = 1 .. CallsOfJob
    BY ProgramKinds DEF Popped
  <2> QED BY <2>1, SpoiltStays DEF Together
<1>1. Head(stream[r]) # Entry(i, CollectiveAt(i))
  <2>1. program[i] \in Kinds
    BY ProgramKinds
  <2>2. Stages(program[i])[CollectiveAt(i)] \in Joint
    BY <2>1, StageFacts
  <2> QED BY <2>2 DEF Entry
<1>2. Passed(q, i)
  BY <1>1, PopPassed
<1>3. Passed(s, i)
  BY <1>2, ProgramKinds DEF Together
<1> QED BY <1>3, PopPassed

(* Ranks at a collective together are at that of the same call, if no      *)
(* failure has come before it.                                             *)
LEMMA SameCall ==
  ASSUME JobTyped, StagesInOrder, FailuresCounted, Together,
         \A r \in Ranks : stream[r] # << >> /\ Head(stream[r]).do \in Joint,
         NEW r \in Ranks, NEW q \in Ranks, ~Spoilt(CallOf(r))
  PROVE  /\ comm /\ CallOf(q) = CallOf(r)
         /\ Head(stream[q]) = Entry(CallOf(q), CollectiveAt(CallOf(q)))
<1> DEFINE i == CallOf(r) k == CallOf(q) g == Head(stream[r]) h == Head(stream[q])
<1>1. /\ i \in 1 .. CallsOfJob /\ i < pc[r] /\ program[i] \in Kinds /\ stream[r] # << >>
      /\ comm /\ g = Entry(i, CollectiveAt(i)) /\ g.call = i /\ stream[r][1] = g
      /\ 1 \in 1 .. Len(stream[r]) /\ \A n \in 2 .. Len(stream[r]) : Before(g, stream[r][n])
      /\ Place(g) = CollectiveAt(i)
  BY HeadEntry, StageFacts
<1>2. /\ k \in 1 .. CallsOfJob /\ k < pc[q] /\ program[k] \in Kinds /\ stream[q] # << >>
      /\ h = Entry(k, CollectiveAt(k)) /\ h.call = k /\ stream[q][1] = h
      /\ 1 \in 1 .. Len(stream[q]) /\ \A n \in 2 .. Len(stream[q]) : Before(h, stream[q][n])
      /\ Place(h) = CollectiveAt(k)
  BY HeadEntry, StageFacts
<1>3. /\ i \in Nat /\ k \in Nat /\ pc[r] \in Nat /\ pc[q] \in Nat
      /\ Len(stream[r]) \in Nat /\ Len(stream[q]) \in Nat
  BY <1>1, <1>2, CallsAssumption, LenProperties DEF JobTyped
<1> HIDE DEF i, k, g, h
<1>4. ~Passed(r, i) /\ ~Spoilt(i)
  BY <1>1 DEF Passed, i
<1>5. ~Passed(q, i)
  BY <1>1, <1>4, ProgramKinds DEF Together
<1>6. CASE k < i
  <2>1. ~Spoilt(k)
    BY <1>3, <1>4, <1>6, SpoiltAfter
  <2>2. ~Passed(q, k)
    BY <1>2 DEF Passed
  <2>3. k < pc[r]
    BY <1>1, <1>3, <1>6
  <2>4. ASSUME NEW n \in 1 .. Len(stream[r]) PROVE stream[r][n] # Entry(k, CollectiveAt(k))
    <3>1. stream[r][n].call >= i /\ stream[r][n].call \in Nat
      <4>1. stream[r][n].call \in Nat
        <5>1. stream[r][n] \in Work
          BY ElementOfSeq DEF JobTyped
        <5> QED BY <5>1, CallsAssumption DEF Work
      <4>2. CASE n = 1
        BY <1>1, <1>3, <4>2
      <4>3. CASE n # 1
        <5>1. Before(g, stream[r][n])
          BY <1>1, <1>3, <4>3
        <5> QED BY <1>1, <1>3, <4>1, <5>1 DEF Before
      <4> QED BY <4>1, <4>2, <4>3
    <3> QED BY <1>3, <1>6, <3>1 DEF Entry
  <2>5. Passed(r, k)
    BY <2>3, <2>4 DEF Passed
  <2> QED BY <1>1, <1>2, <2>1, <2>2, <2>5, ProgramKinds DEF Together
<1>7. CASE i < k
  <2>1. i < pc[q]
    BY <1>2, <1>3, <1>7
  <2>2. PICK n \in 1 .. Len(stream[q]) : stream[q][n] = Entry(i, CollectiveAt(i))
    BY <1>5, <2>1 DEF Passed
  <2>3. stream[q][n].call = i
    BY <2>2 DEF Entry
  <2>4. CASE n = 1
    BY <1>2, <1>3, <1>7, <2>3, <2>4
  <2>5. CASE n # 1
    <3>1. Before(h, stream[q][n])
      BY <1>2, <1>3, <2>5
    <3> QED BY <1>2, <1>3, <1>7, <2>3, <3>1 DEF Before
  <2> QED BY <2>4, <2>5
<1>8. CASE i = k
  BY <1>1, <1>2, <1>8 DEF i, k, h
<1> QED BY <1>3, <1>6, <1>7, <1>8

(* A collective takes every rank past the same call, or past none. *)
LEMMA JointTogether ==
  ASSUME JobTyped, StagesInOrder, FailuresCounted, Together, Popped(Ranks),
         \A r \in Ranks : Head(stream[r]).do \in Joint
  PROVE  Together'
<1> SUFFICES ASSUME comm, NEW i \in 1 .. CallsOfJob, ~Spoilt(i),
                    NEW q \in Ranks, NEW s \in Ranks, Passed(q, i)'
             PROVE  Passed(s, i)'
  <2>1. UNCHANGED <<program, comm, failed>> /\ DOMAIN program = 1 .. CallsOfJob
    BY ProgramKinds DEF Popped
  <2> QED BY <2>1, SpoiltStays DEF Together
<1>1. CASE Head(stream[q]) = Entry(i, CollectiveAt(i))
  <2>1. CallOf(q) = i
    BY <1>1 DEF CallOf, Entry
  <2>2. Head(stream[s]) = Entry(i, CollectiveAt(i))
    BY <2>1, SameCall DEF Popped
  <2> QED BY <2>2, PopPassed
<1>2. CASE Head(stream[q]) # Entry(i, CollectiveAt(i))
  <2>1. Passed(s, i)
    BY <1>2, PopPassed, ProgramKinds DEF Together
  <2> QED BY <2>1, PopPassed
<1> QED BY <1>1, <1>2

-----------------------------------------------------------------------------
(* What running stage p of call i of rank r has to leave: the promise if   *)
(* it was the last stage, and else what the next one needs.                *)
Delivers(r, i, p) ==
  /\ \A j \in DOMAIN program : j # i => out'[r][j] = out[r][j]
  /\ DOMAIN out'[r] = DOMAIN program /\ DOMAIN out'[r][i] = {"normed", "x"}
  /\ program[i] \notin Normed => out'[r][i].normed = FALSE
  /\ p = Length(i) /\ ~Spoilt(i) => out'[r][i] = Promised(r, i)
  /\ p < Length(i) => \A do : do = Stages(program[i])[p + 1] => Ready(r, i, do)'

(* What is ready stays so while nobody writes to the rank. *)
LEMMA ReadyStays ==
  ASSUME UNCHANGED <<program, comm>>, NEW r, NEW i, NEW do,
         temp'[r] = temp[r], out'[r] = out[r], Spoilt(i) => Spoilt(i)', Ready(r, i, do)
  PROVE  Ready(r, i, do)'
<1>1. /\ Promised(r, i)' = Promised(r, i) /\ Own(r, i)' = Own(r, i)
      /\ \A j : Products(i, r, j)' = Products(i, r, j)
  BY JobStays
<1>2. Holding(r, i)' = Holding(r, i)
  BY DEF Holding
<1> QED BY <1>1, <1>2 DEF Ready

(* The first stage of a call needs nothing of the stages before it. *)
LEMMA FirstReady ==
  ASSUME JobTyped, UNCHANGED <<program, comm>>, NEW r, NEW i \in 1 .. CallsOfJob
  PROVE  \A do : do = Stages(program[i])[1] => Ready(r, i, do)'
<1>1. program[i] \in Kinds /\ 1 \in 1 .. Length(i)
  <2>1. program[i] \in Kinds
    BY ProgramKinds
  <2>2. Length(i) \in 1 .. 3
    BY <2>1, StageFacts
  <2> QED BY <2>1, <2>2
<1> SUFFICES ASSUME NEW do, do = Stages(program[i])[1] PROVE Ready(r, i, do)'
  OBVIOUS
<1>3. /\ do \notin {"reduce", "scatter", "gather", "bias"}
      /\ do = "copy" => program[i] \in Exchanges
      /\ do = "norm" => ~comm /\ program[i] = "combine_norm"
  BY <1>1, StageNames
<1> QED BY <1>3 DEF Ready

(* Complete, said with the names above; and the same of the next state. *)
LEMMA CompleteIs ==
  ASSUME JobTyped, NEW r \in Ranks, NEW i
  PROVE  Complete(r, i) <=> /\ i < pc[r] /\ ~FailedIn(r, i)
                            /\ \A n \in 1 .. Len(stream[r]) : stream[r][n].call # i
<1>1. DOMAIN stream[r] = 1 .. Len(stream[r])
  BY LenProperties DEF JobTyped
<1> QED BY <1>1 DEF Complete, FailedIn

LEMMA CompleteNext ==
  ASSUME JobTyped', NEW r \in Ranks, NEW i
  PROVE  Complete(r, i)' <=> /\ i < pc'[r] /\ ~FailedIn(r, i)'
                             /\ \A n \in 1 .. Len(stream'[r]) : stream'[r][n].call # i
<1>1. DOMAIN stream'[r] = 1 .. Len(stream'[r])
  <2>1. stream'[r] \in Seq(Work)
    BY DEF JobTyped, Work
  <2> QED BY <2>1, LenProperties
<1> QED BY <1>1 DEF Complete, FailedIn

(* Stages that deliver keep what the outputs and the next stages need. *)
LEMMA PopDelivers ==
  ASSUME JobTyped, StagesInOrder, FailuresCounted, OutTyped, HeadsReady, ReducedOrReported,
         NEW D, Popped(D),
         \A r \in D : Delivers(r, CallOf(r), Place(Head(stream[r]))),
         \A r \in Ranks \ D : out'[r] = out[r] /\ temp'[r] = temp[r]
  PROVE  FailuresCounted' /\ OutTyped' /\ HeadsReady' /\ ReducedOrReported'
<1>0. UNCHANGED <<program, comm, pc, failed>> /\ D \subseteq Ranks
  BY DEF Popped
<1>1. FailuresCounted'
  BY <1>0, JobStays DEF FailuresCounted
<1>2. ASSUME NEW r \in D
      PROVE  /\ CallOf(r) \in 1 .. CallsOfJob /\ CallOf(r) = Head(stream[r]).call
             /\ stream[r] # << >> /\ stream[r][1] = Head(stream[r]) /\ CallOf(r) < pc[r]
             /\ Place(Head(stream[r])) \in 1 .. Length(CallOf(r))
             /\ Delivers(r, CallOf(r), Place(Head(stream[r])))
  BY <1>0, <1>2, HeadEntry DEF Popped
<1>3. OutTyped'
  <2> SUFFICES ASSUME NEW r \in Ranks
               PROVE  /\ DOMAIN out'[r] = DOMAIN program
                      /\ \A i \in DOMAIN program :
                           /\ DOMAIN out'[r][i] = {"normed", "x"}
                           /\ program[i] \notin Normed => out'[r][i].normed = FALSE
    BY <1>0 DEF OutTyped
  <2>1. CASE r \in D
    BY <1>2, <2>1 DEF Delivers, OutTyped
  <2>2. CASE r \notin D
    BY <2>2 DEF OutTyped
  <2> QED BY <2>1, <2>2
<1>4. JobTyped' /\ StagesInOrder'
  BY PopOrder
<1>5. HeadsReady'
  <2> SUFFICES ASSUME NEW r \in Ranks, stream'[r] # << >>,
                      NEW g, g = Head(stream'[r])
               PROVE  Ready(r, g.call, g.do)'
    BY DEF HeadsReady, CallOf
  <2>1. CASE r \notin D
    <3>1. stream'[r] = stream[r] /\ out'[r] = out[r] /\ temp'[r] = temp[r]
      BY <2>1, PopLengths
    <3>2. Ready(r, g.call, g.do)
      BY <3>1 DEF HeadsReady, CallOf
    <3> QED BY <1>0, <3>1, <3>2, ReadyStays, SpoiltStays
  <2>2. CASE r \in D
    <3> DEFINE h == Head(stream[r])
    <3>1. /\ g.call \in 1 .. CallsOfJob /\ g.do = Stages(program[g.call])[Place(g)]
          /\ Place(g) \in 1 .. Length(g.call)
          /\ IF g.call = h.call THEN Place(g) = Place(h) + 1 ELSE Place(g) = 1
      BY <2>2, NextHead
    <3>2. CASE g.call = h.call
      <4>1. h.call = CallOf(r) /\ Place(h) \in 1 .. Length(g.call)
        BY <1>2, <2>2, <3>2
      <4>2. Place(h) < Length(g.call)
        <5>1. Length(g.call) \in 1 .. 3
          BY <3>1, ProgramKinds, StageFacts
        <5> QED BY <3>1, <3>2, <4>1, <5>1
      <4>3. Delivers(r, g.call, Place(h))
        BY <1>2, <2>2, <3>2, <4>1
      <4>4. g.do = Stages(program[g.call])[Place(h) + 1]
        BY <3>1, <3>2
      <4> HIDE DEF h
      <4> QED BY <4>2, <4>3, <4>4 DEF Delivers
    <3>3. CASE g.call # h.call
      <4>1. g.do = Stages(program[g.call])[1]
        BY <3>1, <3>3
      <4> QED BY <1>0, <3>1, <4>1, FirstReady
    <3> QED BY <3>2, <3>3
  <2> QED BY <2>1, <2>2
<1>6. ReducedOrReported'
  <2> SUFFICES ASSUME NEW r \in Ranks, NEW i \in 1 .. CallsOfJob, Complete(r, i)', ~Spoilt(i)
               PROVE  out'[r][i] = Promised(r, i)
    BY <1>0, JobStays, SpoiltStays, ProgramKinds DEF ReducedOrReported
  <2>0. /\ i < pc[r] /\ ~FailedIn(r, i)
        /\ \A n \in 1 .. Len(stream'[r]) : stream'[r][n].call # i
    BY <1>0, <1>4, CompleteNext, SpoiltStays
  <2>1. CASE r \notin D
    <3>1. stream'[r] = stream[r] /\ out'[r] = out[r]
      BY <2>1, PopLengths
    <3>2. Complete(r, i)
      BY <2>0, <3>1, CompleteIs
    <3> QED BY <3>1, <3>2, ProgramKinds DEF ReducedOrReported
  <2>2. CASE r \in D /\ i = CallOf(r)
    <3>1. Place(Head(stream[r])) = Length(i)
      BY <1>2, <2>0, <2>2, NextHead
    <3> QED BY <1>2, <2>2, <3>1 DEF Delivers
  <2>3. CASE r \in D /\ i # CallOf(r)
    <3>1. ASSUME NEW n \in 1 .. Len(stream[r]) PROVE stream[r][n].call # i
      <4>0. /\ Len(stream[r]) \in Nat \ {0} /\ Len(stream'[r]) = Len(stream[r]) - 1
            /\ \A m \in 1 .. Len(stream'[r]) : stream'[r][m] = stream[r][m + 1]
        BY <2>3, PopLengths
      <4>1. CASE n = 1
        BY <1>2, <2>3, <4>1
      <4>2. CASE n # 1
        <5>1. n - 1 \in 1 .. Len(stream'[r]) /\ (n - 1) + 1 = n
          BY <4>0, <4>2
        <5> QED BY <2>0, <4>0, <5>1
      <4> QED BY <4>1, <4>2
    <3>2. Complete(r, i)
      BY <2>0, <3>1, CompleteIs
    <3>3. out'[r][i] = out[r][i]
      BY <1>2, <2>3, ProgramKinds DEF Delivers
    <3> QED BY <3>2, <3>3, ProgramKinds DEF ReducedOrReported
  <2> QED BY <2>1, <2>2, <2>3
<1> QED BY <1>1, <1>3, <1>5, <1>6

-----------------------------------------------------------------------------
(* A nonempty set of numbers has a least one. *)
LEMMA Least ==
  ASSUME NEW S \in SUBSET Nat, S # {}
  PROVE  \E m \in S : \A n \in S : m <= n
<1> DEFINE R == OpToRel(<, Nat)
<1>1. IsWellFoundedOn(R, Nat)
  BY NatLessThanWellFounded, Zenon
<1>2. R = {p \in Nat \X Nat : p[1] < p[2]}
  BY Zenon DEF OpToRel
<1> HIDE DEF R
<1>3. PICK m \in S : \A n \in S : ~(<<n, m>> \in R)
  BY <1>1, WFMin
<1>4. ASSUME NEW n \in S PROVE m <= n
  <2>1. m \in Nat /\ n \in Nat /\ (n < m => <<n, m>> \in R)
    BY <1>2
  <2> QED BY <1>3, <2>1
<1> QED BY <1>4

(* A combine answers the last dispatch before it, if there is one. *)
LEMMA LastDispatch ==
  ASSUME JobTyped, NEW i \in 1 .. CallsOfJob, Dispatches(i) # {}
  PROVE  /\ Max(Dispatches(i)) \in 1 .. CallsOfJob /\ Max(Dispatches(i)) < i
         /\ program[Max(Dispatches(i))] = "dispatch"
<1> DEFINE D == Dispatches(i)
           S == {n \in Nat : i - n \in D}
<1>0. i \in Nat /\ \A d \in D : d \in Nat /\ d < i /\ d \in 1 .. CallsOfJob
  BY CallsAssumption DEF Dispatches
<1>1. S # {}
  <2>1. PICK d : d \in D
    OBVIOUS
  <2>2. i - d \in Nat /\ i - (i - d) = d
    BY <1>0, <2>1
  <2> QED BY <2>1, <2>2
<1>2. PICK m \in S : \A n \in S : m <= n
  BY <1>1, Least
<1>3. \A d \in D : i - m >= d
  <2> SUFFICES ASSUME NEW d \in D PROVE i - m >= d
    OBVIOUS
  <2>1. d \in Nat /\ i - d \in Nat /\ i - (i - d) = d
    BY <1>0
  <2>2. m <= i - d /\ m \in Nat
    BY <1>2, <2>1
  <2> QED BY <1>0, <2>1, <2>2
<1>4. i - m \in D
  BY <1>2
<1>5. Max(D) \in D
  BY <1>3, <1>4 DEF Max
<1> QED BY <1>0, <1>5 DEF Dispatches

(* Bags: adding nothing, adding one more term. *)
LEMMA NothingAdded ==
  ASSUME NEW S
  PROVE  SetToBag(S) (+) EmptyBag = SetToBag(S)
BY DEF SetToBag, EmptyBag, (+)

(* A bag of different terms gains one that is not among them. *)
LEMMA TermAdded ==
  ASSUME NEW S, NEW x, x \notin S
  PROVE  SetToBag(S) (+) SetToBag({x}) = SetToBag(S \cup {x})
<1>1. DOMAIN SetToBag(S) = S /\ DOMAIN SetToBag({x}) = {x}
  BY DEF SetToBag
<1>2. /\ \A y \in S : SetToBag(S)[y] = 1
      /\ SetToBag({x})[x] = 1
  BY DEF SetToBag
<1>3. SetToBag(S) (+) SetToBag({x})
        = [y \in S \cup {x} |-> (IF y \in S THEN SetToBag(S)[y] ELSE 0)
                               + (IF y \in {x} THEN SetToBag({x})[y] ELSE 0)]
  BY <1>1 DEF (+)
<1>4. ASSUME NEW y \in S \cup {x}
      PROVE  (IF y \in S THEN SetToBag(S)[y] ELSE 0)
               + (IF y \in {x} THEN SetToBag({x})[y] ELSE 0) = 1
  <2>1. CASE y \in S
    <3>1. y \notin {x}
      BY <2>1
    <3>2. (IF y \in S THEN SetToBag(S)[y] ELSE 0) = 1
      BY <1>2, <2>1
    <3>3. (IF y \in {x} THEN SetToBag({x})[y] ELSE 0) = 0
      BY <3>1
    <3> QED BY <3>2, <3>3
  <2>2. CASE y = x
    <3>1. (IF y \in S THEN SetToBag(S)[y] ELSE 0) = 0
      BY <2>2
    <3>2. (IF y \in {x} THEN SetToBag({x})[y] ELSE 0) = 1
      BY <1>2, <2>2
    <3> QED BY <3>1, <3>2
  <2> QED BY <2>1, <2>2
<1>5. SetToBag(S) (+) SetToBag({x}) = [y \in S \cup {x} |-> 1]
  BY <1>3, <1>4
<1> QED BY <1>5 DEF SetToBag

(* The sum over the ranks, as the fold defines it. *)
One(s) == CHOOSE x \in s : TRUE
Folding(f, j) ==
  f = [s \in SUBSET Ranks |-> IF s = {} THEN EmptyBag ELSE f[s \ {One(s)}] (+) Source(One(s))[j]]

LEMMA SumFolds ==
  ASSUME NEW j
  PROVE  SumOf(j) = (CHOOSE f : Folding(f, j))[Ranks]
BY DEF SumOf, FoldSet, MapThenFoldSet, Folding, One

(* The sum has every rank's term once: the fold gives the terms of any set *)
(* of ranks, or there would be a smallest set of which it does not.        *)
Terms(i, j, s) == SetToBag({<<"mm", i, q, j>> : q \in s})

LEMMA TermsGrow ==
  ASSUME NEW i, NEW j, NEW s, NEW q \in s
  PROVE  Terms(i, j, s) = Terms(i, j, s \ {q}) (+) SetToBag({<<"mm", i, q, j>>})
<1> DEFINE T == {<<"mm", i, p, j>> : p \in s \ {q}}
<1>1. <<"mm", i, q, j>> \notin T
  OBVIOUS
<1>2. {<<"mm", i, p, j>> : p \in s} = T \cup {<<"mm", i, q, j>>}
  OBVIOUS
<1> HIDE DEF T
<1>3. SetToBag(T) (+) SetToBag({<<"mm", i, q, j>>}) = SetToBag(T \cup {<<"mm", i, q, j>>})
  BY <1>1, TermAdded
<1>4. Terms(i, j, s \ {q}) = SetToBag(T)
  BY DEF Terms, T
<1> QED BY <1>2, <1>3, <1>4 DEF Terms

LEMMA FoldOfTerms ==
  ASSUME NEW i, NEW j, \A q \in Ranks : Source(q)[j] = SetToBag({<<"mm", i, q, j>>}),
         NEW f, Folding(f, j)
  PROVE  f[Ranks] = Terms(i, j, Ranks)
<1> DEFINE U == {n \in Nat : \E s \in SUBSET Ranks : Cardinality(s) = n /\ f[s] # Terms(i, j, s)}
<1>1. \A s \in SUBSET Ranks :
        /\ s = {} => f[s] = EmptyBag
        /\ s # {} => f[s] = f[s \ {One(s)}] (+) Source(One(s))[j]
  BY DEF Folding
<1>2. \A s \in SUBSET Ranks : s # {} => One(s) \in s /\ s \ {One(s)} \in SUBSET Ranks
  BY DEF One
<1>3. Terms(i, j, {}) = EmptyBag
  BY DEF Terms, EmptyBag
<1>4. IsFiniteSet(Ranks)
  BY FS_Interval, NAssumption DEF Ranks
<1>5. ASSUME U # {} PROVE FALSE
  <2>1. PICK m \in U : \A n \in U : m <= n
    BY <1>5, Least
  <2>2. PICK s \in SUBSET Ranks : Cardinality(s) = m /\ f[s] # Terms(i, j, s)
    BY <2>1
  <2>3. s # {}
    BY <1>1, <1>3, <2>2
  <2>4. One(s) \in s /\ s \ {One(s)} \in SUBSET Ranks
    BY <1>2, <2>3
  <2>5. IsFiniteSet(s)
    BY <1>4, FS_Subset
  <2>6. Cardinality(s \ {One(s)}) = m - 1 /\ m - 1 \in Nat
    <3>1. /\ Cardinality(s \ {One(s)}) = Cardinality(s) - 1
          /\ IsFiniteSet(s \ {One(s)})
      BY <2>4, <2>5, FS_RemoveElement
    <3>2. Cardinality(s \ {One(s)}) \in Nat
      BY <3>1, FS_CardinalityType
    <3> QED BY <2>2, <3>1, <3>2
  <2>7. f[s \ {One(s)}] = Terms(i, j, s \ {One(s)})
    <3>1. m - 1 \notin U
      BY <2>1, <2>6
    <3> QED BY <2>4, <2>6, <3>1
  <2>8. f[s] = f[s \ {One(s)}] (+) Source(One(s))[j]
    BY <1>1, <2>3
  <2>9. Source(One(s))[j] = SetToBag({<<"mm", i, One(s), j>>})
    BY <2>4
  <2> QED BY <2>2, <2>4, <2>7, <2>8, <2>9, TermsGrow
<1>6. Cardinality(Ranks) \in Nat
  BY <1>4, FS_CardinalityType
<1> QED BY <1>5, <1>6

(* The sum over the ranks is the bag of their terms. *)
LEMMA SumOfTerms ==
  ASSUME NEW i, NEW j, \A q \in Ranks : Source(q)[j] = SetToBag({<<"mm", i, q, j>>})
  PROVE  SumOf(j) = Terms(i, j, Ranks)
<1> DEFINE F == [s \in SUBSET Ranks |-> Terms(i, j, s)]
<1>1. ASSUME NEW s \in SUBSET Ranks
      PROVE  F[s] = IF s = {} THEN EmptyBag ELSE F[s \ {One(s)}] (+) Source(One(s))[j]
  <2>1. CASE s = {}
    BY <2>1 DEF Terms, EmptyBag, SetToBag
  <2>2. CASE s # {}
    <3>1. One(s) \in s /\ s \ {One(s)} \in SUBSET Ranks /\ One(s) \in Ranks
      BY <2>2 DEF One
    <3>2. Source(One(s))[j] = SetToBag({<<"mm", i, One(s), j>>})
      BY <3>1
    <3> QED BY <2>2, <3>1, <3>2, TermsGrow
  <2> QED BY <2>1, <2>2
<1>2. Folding(F, j)
  BY <1>1 DEF Folding
<1>3. Folding(CHOOSE f : Folding(f, j), j)
  <2> HIDE DEF F
  <2> QED BY <1>2
<1> QED BY <1>3, FoldOfTerms, SumFolds

-----------------------------------------------------------------------------
(* The promise, kind by kind. *)
LEMMA ProductsAre ==
  ASSUME NEW i, NEW r, NEW j
  PROVE  /\ comm => Products(i, r, j) = Terms(i, j, Ranks)
         /\ ~comm => Products(i, r, j) = SetToBag({<<"mm", i, r, j>>})
<1>1. {<<"mm", i, q, j>> : q \in {r}} = {<<"mm", i, r, j>>}
  OBVIOUS
<1> QED BY <1>1 DEF Products, Terms

(* The parts of the promise, each for its kinds. *)
LEMMA PromiseRecord ==
  ASSUME NEW r, NEW i
  PROVE  Promised(r, i) = [normed |-> program[i] \in Normed, x |-> Promised(r, i).x]
BY DEF Promised, Blocks, Tokens, Exchanges

LEMMA ScatterPromise ==
  ASSUME NEW r, NEW i, program[i] = "reduce_scatter"
  PROVE  Promised(r, i).x = OneBlock(Products(i, r, IF comm THEN r ELSE 0))
BY DEF Promised, Blocks, Tokens, Exchanges

LEMMA GatherPromise ==
  ASSUME NEW r, NEW i, program[i] = "all_gather"
  PROVE  Promised(r, i).x = IF comm THEN [j \in Ranks |-> SetToBag({<<"mm", i, j, j>>})]
                            ELSE OneBlock(SetToBag({<<"mm", i, r, r>>}))
BY DEF Promised, Blocks, Tokens, Exchanges

LEMMA DispatchPromise ==
  ASSUME NEW r, NEW i, program[i] \in Exchanges, program[i] = "dispatch" \/ Dispatches(i) = {}
  PROVE  Promised(r, i).x =
           IF comm THEN [j \in Ranks |-> SetToBag({<<"x", i, j, r>>})] ELSE Tokens(r, i)
BY DEF Promised, Blocks, Tokens, Exchanges

LEMMA CombinePromise ==
  ASSUME NEW r, NEW i, program[i] \in Exchanges, program[i] # "dispatch" /\ Dispatches(i) # {}
  PROVE  Promised(r, i).x = Tokens(r, Max(Dispatches(i)))
BY DEF Promised, Blocks, Tokens, Exchanges

LEMMA BiasPromise ==
  ASSUME NEW r, NEW i, program[i] = "all_reduce_bias"
  PROVE  Promised(r, i).x =
           [j \in Ranks |-> Products(i, r, j) (+) SetToBag({<<"bias", i, 0, 0>>})]
BY DEF Promised, Blocks, Tokens, Exchanges

LEMMA SumPromise ==
  ASSUME NEW r, NEW i, program[i] \in {"all_reduce", "quant_all_reduce", "all_reduce_norm"}
  PROVE  Promised(r, i).x = [j \in Ranks |-> Products(i, r, j)]
<1>1. Promised(r, i).x = [j \in Ranks |-> Products(i, r, j) (+) EmptyBag]
  BY DEF Promised, Blocks, Tokens, Exchanges
<1>2. \A j : Products(i, r, j) (+) EmptyBag = Products(i, r, j)
  BY NothingAdded DEF Products
<1> QED BY <1>1, <1>2

(* What a stage leaves in the workspace or in the output of its call. *)
LEMMA Finished ==
  ASSUME JobTyped, OutTyped, NEW result, NEW toTemp, DOMAIN result \subseteq Ranks,
         \A r \in DOMAIN result : stream[r] # << >>, Finish(result, toTemp)
  PROVE  /\ Popped(DOMAIN result)
         /\ \A r \in Ranks \ DOMAIN result : out'[r] = out[r] /\ temp'[r] = temp[r]
         /\ \A r \in DOMAIN result : CallOf(r) \in 1 .. CallsOfJob =>
              /\ \A j \in DOMAIN program : j # CallOf(r) => out'[r][j] = out[r][j]
              /\ DOMAIN out'[r] = DOMAIN program
              /\ DOMAIN out'[r][CallOf(r)] = {"normed", "x"}
              /\ out'[r][CallOf(r)].normed = out[r][CallOf(r)].normed
              /\ r \in toTemp => temp'[r] = result[r]
              /\ r \notin toTemp => /\ out'[r][CallOf(r)] = [normed |-> out[r][CallOf(r)].normed, x |-> result[r]]
                                    /\ out'[r][CallOf(r)].x = result[r]
<1>1. Popped(DOMAIN result)
  BY DEF Finish, Popped
<1>2. \A r \in Ranks \ DOMAIN result : out'[r] = out[r] /\ temp'[r] = temp[r]
  BY DEF Finish
<1>3. ASSUME NEW r \in DOMAIN result, NEW i, i = CallOf(r), i \in 1 .. CallsOfJob
      PROVE  /\ \A j \in DOMAIN program : j # i => out'[r][j] = out[r][j]
             /\ DOMAIN out'[r] = DOMAIN program
             /\ DOMAIN out'[r][i] = {"normed", "x"}
             /\ out'[r][i].normed = out[r][i].normed
             /\ r \in toTemp => temp'[r] = result[r]
             /\ r \notin toTemp => /\ out'[r][i] = [normed |-> out[r][i].normed, x |-> result[r]]
                                   /\ out'[r][i].x = result[r]
  <2>1. i \in DOMAIN program /\ r \in Ranks
    BY <1>3, ProgramKinds
  <2>2. DOMAIN out[r] = DOMAIN program /\ DOMAIN out[r][i] = {"normed", "x"}
    BY <2>1 DEF OutTyped
  <2>3. CASE r \in toTemp
    <3>1. out'[r] = out[r] /\ temp'[r] = result[r]
      BY <2>1, <2>3 DEF Finish
    <3> QED BY <2>2, <2>3, <3>1
  <2>4. CASE r \notin toTemp
    <3>1. out'[r] = [out[r] EXCEPT ![i].x = result[r]]
      BY <1>3, <2>1, <2>4 DEF Finish
    <3>2. out'[r] = [out[r] EXCEPT ![i] = [out[r][i] EXCEPT !.x = result[r]]]
      BY <3>1
    <3>3. /\ DOMAIN out'[r] = DOMAIN out[r] /\ out'[r][i] = [out[r][i] EXCEPT !.x = result[r]]
          /\ \A j \in DOMAIN program : j # i => out'[r][j] = out[r][j]
      BY <2>1, <2>2, <3>2
    <3>4. [out[r][i] EXCEPT !.x = result[r]] = [normed |-> out[r][i].normed, x |-> result[r]]
      BY <2>2
    <3> QED BY <2>2, <2>4, <3>3, <3>4
  <2> QED BY <2>3, <2>4
<1> QED BY <1>1, <1>2, <1>3

(* What an exchange reads: the tokens, or what the last dispatch brought,  *)
(* which was complete, or its failure would have spoilt this call.         *)
LEMMA InputIs ==
  ASSUME JobInv, NEW r \in Ranks, stream[r] # << >>, NEW i, i = CallOf(r), ~Spoilt(i),
         NEW d, d = Max(Dispatches(i))
  PROVE  Input(r, i) =
           IF program[i] # "dispatch" /\ Dispatches(i) # {}
           THEN IF comm THEN [j \in Ranks |-> SetToBag({<<"x", d, j, r>>})] ELSE Tokens(r, d)
           ELSE Tokens(r, i)
<1> USE DEF JobInv
<1>1. CASE ~(program[i] # "dispatch" /\ Dispatches(i) # {})
  BY <1>1 DEF Input
<1>2. CASE program[i] # "dispatch" /\ Dispatches(i) # {}
  <2>1. i \in 1 .. CallsOfJob /\ i < pc[r] /\ CallsOfJob \in Nat /\ pc[r] \in Nat
    BY HeadEntry, ProgramKinds, SMTT(30) DEF JobTyped
  <2>2. d \in 1 .. CallsOfJob /\ d < i /\ program[d] = "dispatch" /\ d \in Nat
    BY <1>2, <2>1, LastDispatch
  <2>3. Length(d) = 1 /\ CollectiveAt(d) = 1
    <3>1. Length(d) = 1
      BY <2>2, ProgramKinds, StageTable
    <3> QED BY <2>2, <3>1 DEF CollectiveAt, LocalWork, Exchanges
  <2>4. ~FailedIn(r, d)
    BY <2>1, <2>2, <2>3 DEF FailedIn, FailuresCounted, Spoilt
  <2>5. \A n \in 1 .. Len(stream[r]) : stream[r][n].call # d
    <3> SUFFICES ASSUME NEW n \in 1 .. Len(stream[r]) PROVE stream[r][n].call # d
      OBVIOUS
    <3>1. stream[r] \in Seq(Work) /\ n \in Nat /\ (n = 1 \/ n \in 2 .. Len(stream[r]))
      BY DEF JobTyped
    <3>2. stream[r][n] \in Work
      BY <3>1, ElementOfSeq
    <3>3. stream[r][n].call = i \/ i < stream[r][n].call
      BY <3>1, HeadEntry DEF Before
    <3> QED BY <2>1, <2>2, <3>2, <3>3 DEF Work
  <2>6. Complete(r, d)
    BY <2>1, <2>2, <2>4, <2>5, CompleteIs
  <2>7. ~Spoilt(d)
    BY <2>1, <2>2, SpoiltAfter
  <2>8. out[r][d] = Promised(r, d)
    BY <2>2, <2>6, <2>7, ProgramKinds DEF ReducedOrReported
  <2>9. Input(r, i) = Promised(r, d).x
    BY <1>2, <2>8 DEF Input
  <2>10. Promised(r, d).x =
           IF comm THEN [j \in Ranks |-> SetToBag({<<"x", d, j, r>>})] ELSE Tokens(r, d)
    BY <2>2, DispatchPromise DEF Exchanges
  <2> QED BY <1>2, <2>9, <2>10
<1> QED BY <1>1, <1>2

-----------------------------------------------------------------------------
(* The stages, one by one: what each leaves. *)
Leaves(r, i, v, toTemp) ==
  /\ UNCHANGED <<program, comm, failed>>
  /\ \A j \in DOMAIN program : j # i => out'[r][j] = out[r][j]
  /\ DOMAIN out'[r] = DOMAIN program /\ DOMAIN out'[r][i] = {"normed", "x"}
  /\ program[i] \notin Normed => out'[r][i].normed = FALSE
  /\ r \in toTemp => temp'[r] = v
  /\ r \notin toTemp => /\ out'[r][i].x = v
                        /\ program[i] \notin Normed => out'[r][i] = [normed |-> FALSE, x |-> v]

(* What a stage leaves to its rank and to the others. *)
LEMMA StageLeaves ==
  ASSUME JobInv, NEW result, DOMAIN result \subseteq Ranks,
         \A r \in DOMAIN result : stream[r] # << >>, NEW toTemp, Finish(result, toTemp)
  PROVE  /\ Popped(DOMAIN result)
         /\ \A r \in Ranks \ DOMAIN result : out'[r] = out[r] /\ temp'[r] = temp[r]
         /\ \A r \in DOMAIN result : \A i : i = CallOf(r) => Leaves(r, i, result[r], toTemp)
<1> USE DEF JobInv
<1>1. Popped(DOMAIN result) /\ UNCHANGED <<program, comm, failed>>
  BY Finished DEF Popped
<1>2. \A r \in Ranks \ DOMAIN result : out'[r] = out[r] /\ temp'[r] = temp[r]
  BY Finished
<1>3. ASSUME NEW r \in DOMAIN result, NEW i, i = CallOf(r) PROVE Leaves(r, i, result[r], toTemp)
  <2>1. i \in 1 .. CallsOfJob /\ i \in DOMAIN program
    <3>1. PICK h : h = Head(stream[r])
      OBVIOUS
    <3>2. r \in Ranks /\ stream[r] # << >>
      OBVIOUS
    <3>3. i \in 1 .. CallsOfJob
      BY <1>3, <3>1, <3>2, HeadEntry
    <3> QED BY <3>3, ProgramKinds
  <2>2. program[i] \notin Normed => out[r][i].normed = FALSE
    BY <2>1 DEF OutTyped
  <2>3. /\ \A j \in DOMAIN program : j # i => out'[r][j] = out[r][j]
        /\ DOMAIN out'[r] = DOMAIN program /\ DOMAIN out'[r][i] = {"normed", "x"}
        /\ out'[r][i].normed = out[r][i].normed
    BY <1>3, <2>1, Finished, ZenonT(40)
  <2>4. r \in toTemp => temp'[r] = result[r]
    BY <1>3, <2>1, Finished
  <2>5. r \notin toTemp => /\ out'[r][i] = [normed |-> out[r][i].normed, x |-> result[r]]
                           /\ out'[r][i].x = result[r]
    BY <1>3, <2>1, Finished
  <2> QED BY <1>1, <2>2, <2>3, <2>4, <2>5 DEF Leaves
<1> QED BY <1>1, <1>2, <1>3

(* The matmul leaves the own terms; with nothing to sum, the result. *)
LEMMA MatmulDelivers ==
  ASSUME JobInv, NEW r \in Ranks, Matmul(r), NEW i, i = CallOf(r), NEW p, p = Place(Head(stream[r]))
  PROVE  /\ Popped({r}) /\ \A q \in Ranks \ {r} : out'[q] = out[q] /\ temp'[q] = temp[q]
         /\ Delivers(r, i, p)
<1> DEFINE s == Stages(program[i])
<1>0. PICK result, toTemp :
        /\ result = [q \in {r} |-> Blocks(LAMBDA j : <<"mm", CallOf(q), q, j>>)]
        /\ toTemp = IF program[i] \in Gathered \cup Normed THEN {r} ELSE {}
  OBVIOUS
<1>1. stream[r] # << >> /\ Head(stream[r]).do = "matmul" /\ Finish(result, toTemp)
  BY <1>0 DEF Matmul, Runs, KindOf
<1>2. /\ i \in 1 .. CallsOfJob /\ program[i] \in Kinds /\ i \in DOMAIN program
      /\ p \in 1 .. Length(i) /\ s[p] = "matmul"
  BY <1>1, HeadEntry, ProgramKinds DEF JobInv
<1>3. /\ program[i] \notin Exchanges /\ program[i] # "all_gather"
      /\ p = Length(i) => ~comm /\ program[i] \in {"all_reduce", "quant_all_reduce"}
      /\ p < Length(i) => \/ s[p + 1] \in {"reduce", "scatter", "copy"}
                          \/ ~comm /\ s[p + 1] = "bias" /\ program[i] = "all_reduce_bias"
                          \/ ~comm /\ s[p + 1] = "norm" /\ program[i] = "all_reduce_norm"
  BY <1>2, StageNames
<1>4. result[r] = [j \in Ranks |-> SetToBag({<<"mm", i, r, j>>})]
  BY <1>0 DEF Blocks
<1>5. Own(r, i) = result[r]
  BY <1>3, <1>4 DEF Own, Blocks
<1>6. ~comm => result[r] = [j \in Ranks |-> Products(i, r, j)]
  <2>1. ~comm => \A j : Products(i, r, j) = SetToBag({<<"mm", i, r, j>>})
    BY ProductsAre
  <2> QED BY <1>4, <2>1
<1>7. DOMAIN result = {r}
  BY <1>0
<1>8. /\ Popped({r}) /\ \A q \in Ranks \ {r} : out'[q] = out[q] /\ temp'[q] = temp[q]
      /\ Leaves(r, i, result[r], toTemp)
  <2>1. DOMAIN result \subseteq Ranks /\ \A q \in DOMAIN result : stream[q] # << >>
    BY <1>1, <1>7
  <2> QED BY <1>1, <1>7, <2>1, StageLeaves
<1>9. ASSUME p = Length(i) PROVE out'[r][i] = Promised(r, i)
  <2>1. ~comm /\ program[i] \in {"all_reduce", "quant_all_reduce"}
    BY <1>3, <1>9
  <2>2. r \notin toTemp /\ program[i] \notin Normed
    BY <1>0, <2>1 DEF Gathered, Normed
  <2>3. out'[r][i] = [normed |-> FALSE, x |-> result[r]]
    BY <1>8, <2>2 DEF Leaves
  <2>4. Promised(r, i).x = result[r]
    BY <1>6, <2>1, SumPromise
  <2>5. Promised(r, i) = [normed |-> FALSE, x |-> Promised(r, i).x]
    <3>1. (program[i] \in Normed) = FALSE
      BY <2>2
    <3> QED BY <3>1, PromiseRecord
  <2> QED BY <2>3, <2>4, <2>5
<1>10. ASSUME p < Length(i), NEW do, do = s[p + 1] PROVE Ready(r, i, do)'
  <2>1. UNCHANGED <<program, comm, failed>>
    BY <1>8 DEF Leaves
  <2>2. CASE do \in {"reduce", "scatter", "copy"}
    <3>1. Holding(r, i)' = result[r]
      BY <1>0, <1>8, <2>1 DEF Leaves, Holding
    <3>2. Own(r, i)' = result[r]
      BY <1>5, <2>1, JobStays
    <3> QED BY <2>2, <3>1, <3>2 DEF Ready
  <2>3. CASE ~comm /\ do = "bias" /\ program[i] = "all_reduce_bias"
    <3>1. out'[r][i].x = result[r]
      BY <1>0, <1>8, <2>3 DEF Leaves, Gathered, Normed
    <3>2. result[r] = [j \in Ranks |-> Products(i, r, j)']
      BY <1>6, <2>1, <2>3, JobStays
    <3> QED BY <2>3, <3>1, <3>2 DEF Ready
  <2>4. CASE ~comm /\ do = "norm" /\ program[i] = "all_reduce_norm"
    <3>1. temp'[r] = result[r]
      BY <1>0, <1>8, <2>4 DEF Leaves, Gathered, Normed
    <3>2. result[r] = Promised(r, i)'.x
      BY <1>6, <2>1, <2>4, JobStays, SumPromise
    <3> QED BY <2>4, <3>1, <3>2 DEF Ready
  <2> QED BY <1>3, <1>10, <2>2, <2>3, <2>4
<1> QED BY <1>2, <1>8, <1>9, <1>10 DEF Leaves, Delivers

(* A shard leaves the own rows. *)
LEMMA ShardDelivers ==
  ASSUME JobInv, NEW r \in Ranks, Shard(r), NEW i, i = CallOf(r), NEW p, p = Place(Head(stream[r]))
  PROVE  /\ Popped({r}) /\ \A q \in Ranks \ {r} : out'[q] = out[q] /\ temp'[q] = temp[q]
         /\ Delivers(r, i, p)
<1> DEFINE s == Stages(program[i])
<1>0. PICK result : result = [q \in {r} |-> OneBlock(SetToBag({<<"mm", CallOf(q), q, q>>}))]
  OBVIOUS
<1>1. stream[r] # << >> /\ Head(stream[r]).do = "shard" /\ Finish(result, {r})
  BY <1>0 DEF Shard, Runs
<1>2. /\ i \in 1 .. CallsOfJob /\ program[i] \in Kinds /\ i \in DOMAIN program
      /\ p \in 1 .. Length(i) /\ s[p] = "shard"
  BY <1>1, HeadEntry, ProgramKinds DEF JobInv
<1>3. p = 1 /\ 1 < Length(i) /\ s[2] \in {"gather", "copy"} /\ program[i] = "all_gather"
  BY <1>2, StageNames
<1>4. /\ DOMAIN result = {r} /\ result[r] = Own(r, i)
      /\ DOMAIN result \subseteq Ranks /\ \A q \in DOMAIN result : stream[q] # << >>
  BY <1>0, <1>1, <1>3 DEF Own
<1>5. /\ Popped({r}) /\ \A q \in Ranks \ {r} : out'[q] = out[q] /\ temp'[q] = temp[q]
      /\ Leaves(r, i, result[r], {r})
  BY <1>1, <1>4, StageLeaves
<1>6. ASSUME NEW do, do = s[p + 1] PROVE Ready(r, i, do)'
  <2>1. UNCHANGED <<program, comm, failed>> /\ temp'[r] = result[r]
    BY <1>5 DEF Leaves
  <2>2. Holding(r, i)' = result[r] /\ Own(r, i)' = result[r]
    BY <1>3, <1>4, <2>1, JobStays DEF Holding, Gathered
  <2>3. do \in {"gather", "copy"}
    BY <1>3, <1>6
  <2> QED BY <2>2, <2>3 DEF Ready
<1>7. 1 # Length(i)
  BY <1>3
<1> QED BY <1>2, <1>3, <1>5, <1>6, <1>7 DEF Leaves, Delivers

(* The bias comes after the sum, once. *)
LEMMA BiasDelivers ==
  ASSUME JobInv, NEW r \in Ranks, AddBias(r), NEW i, i = CallOf(r), NEW p, p = Place(Head(stream[r]))
  PROVE  /\ Popped({r}) /\ \A q \in Ranks \ {r} : out'[q] = out[q] /\ temp'[q] = temp[q]
         /\ Delivers(r, i, p)
<1> DEFINE s == Stages(program[i])
<1>0. PICK result : result = [q \in {r} |-> [j \in Ranks |->
        out[q][CallOf(q)].x[j] (+) SetToBag({<<"bias", CallOf(q), 0, 0>>})]]
  OBVIOUS
<1>1. stream[r] # << >> /\ Head(stream[r]).do = "bias" /\ Finish(result, {})
  BY <1>0 DEF AddBias, Runs
<1>2. /\ i \in 1 .. CallsOfJob /\ program[i] \in Kinds /\ i \in DOMAIN program
      /\ p \in 1 .. Length(i) /\ s[p] = "bias"
  BY <1>1, HeadEntry, ProgramKinds DEF JobInv
<1>3. p = Length(i) /\ program[i] = "all_reduce_bias" /\ program[i] \notin Normed
  <2>1. p = Length(i) /\ program[i] = "all_reduce_bias"
    BY <1>2, StageNames
  <2> QED BY <2>1 DEF Normed
<1>4. /\ DOMAIN result = {r} /\ DOMAIN result \subseteq Ranks
      /\ \A q \in DOMAIN result : stream[q] # << >>
      /\ result[r] = [j \in Ranks |-> out[r][i].x[j] (+) SetToBag({<<"bias", i, 0, 0>>})]
  BY <1>0, <1>1
<1>5. /\ Popped({r}) /\ \A q \in Ranks \ {r} : out'[q] = out[q] /\ temp'[q] = temp[q]
      /\ Leaves(r, i, result[r], {})
  BY <1>1, <1>4, StageLeaves
<1>6. ASSUME ~Spoilt(i) PROVE out'[r][i] = Promised(r, i)
  <2>1. out[r][i].x = [j \in Ranks |-> Products(i, r, j)]
    BY <1>1, <1>6 DEF JobInv, HeadsReady, Ready
  <2>2. result[r] = [j \in Ranks |-> Products(i, r, j) (+) SetToBag({<<"bias", i, 0, 0>>})]
    BY <1>4, <2>1
  <2>3. Promised(r, i) = [normed |-> FALSE, x |-> result[r]]
    <3>1. (program[i] \in Normed) = FALSE
      BY <1>3
    <3>2. Promised(r, i).x = result[r]
      BY <1>3, <2>2, BiasPromise
    <3> QED BY <3>1, <3>2, PromiseRecord
  <2> QED BY <1>3, <1>5, <2>3 DEF Leaves
<1>7. ~(p < Length(i))
  BY <1>2, <1>3
<1> QED BY <1>3, <1>5, <1>6, <1>7 DEF Leaves, Delivers

(* Without a communicator an exchange only has to pass its input on. *)
LEMMA InputPromised ==
  ASSUME JobInv, NEW r \in Ranks, stream[r] # << >>, NEW i, i = CallOf(r), ~Spoilt(i), ~comm,
         program[i] \in Exchanges
  PROVE  Input(r, i) = Promised(r, i).x
<1>1. CASE program[i] # "dispatch" /\ Dispatches(i) # {}
  BY <1>1, InputIs, CombinePromise
<1>2. CASE program[i] = "dispatch" \/ Dispatches(i) = {}
  BY <1>2, InputIs, DispatchPromise
<1> QED BY <1>1, <1>2

(* A norm takes the promise from the workspace, or its input. *)
LEMMA NormDelivers ==
  ASSUME JobInv, NEW r \in Ranks, Norm(r), NEW i, i = CallOf(r), NEW p, p = Place(Head(stream[r]))
  PROVE  /\ Popped({r}) /\ \A q \in Ranks \ {r} : out'[q] = out[q] /\ temp'[q] = temp[q]
         /\ Delivers(r, i, p)
<1> DEFINE s == Stages(program[i])
<1>0. PICK v : v = IF comm \/ program[i] = "all_reduce_norm" THEN temp[r] ELSE Source(r)
  OBVIOUS
<1>1. /\ stream[r] # << >> /\ Head(stream[r]).do = "norm"
      /\ out' = [out EXCEPT ![r][i] = [normed |-> TRUE, x |-> v]]
      /\ stream' = [stream EXCEPT ![r] = Tail(@)]
      /\ UNCHANGED <<program, comm, pc, temp, failed>>
  BY <1>0 DEF Norm, Runs, KindOf
<1>2. /\ i \in 1 .. CallsOfJob /\ program[i] \in Kinds /\ i \in DOMAIN program
      /\ p \in 1 .. Length(i) /\ s[p] = "norm"
  BY <1>1, HeadEntry, ProgramKinds DEF JobInv
<1>3. p = Length(i) /\ program[i] \in Normed
  BY <1>2, StageNames
<1>4. Popped({r})
  <2>1. DOMAIN stream = Ranks
    BY DEF JobInv, JobTyped
  <2> QED BY <1>1, <2>1 DEF Popped
<1>5. \A q \in Ranks \ {r} : out'[q] = out[q] /\ temp'[q] = temp[q]
  BY <1>1 DEF JobInv
<1>6. /\ \A j \in DOMAIN program : j # i => out'[r][j] = out[r][j]
      /\ DOMAIN out'[r] = DOMAIN program
      /\ out'[r][i] = [normed |-> TRUE, x |-> v]
  <2>1. out'[r] = [out[r] EXCEPT ![i] = [normed |-> TRUE, x |-> v]]
    BY <1>1 DEF JobInv
  <2>2. DOMAIN out[r] = DOMAIN program
    BY DEF JobInv, OutTyped
  <2> QED BY <1>2, <2>1, <2>2
<1>7. ASSUME ~Spoilt(i) PROVE v = Promised(r, i).x
  <2>1. CASE comm \/ program[i] = "all_reduce_norm"
    BY <1>0, <1>1, <1>7, <2>1 DEF JobInv, HeadsReady, Ready
  <2>2. CASE ~(comm \/ program[i] = "all_reduce_norm")
    <3>1. program[i] \in Exchanges
      BY <1>3, <2>2 DEF Normed, Exchanges
    <3>2. v = Input(r, i)
      BY <1>0, <2>2, <3>1 DEF Source, KindOf
    <3> QED BY <1>1, <1>7, <2>2, <3>1, <3>2, InputPromised
  <2> QED BY <2>1, <2>2
<1>8. ASSUME ~Spoilt(i) PROVE out'[r][i] = Promised(r, i)
  <2>1. (program[i] \in Normed) = TRUE
    BY <1>3
  <2> QED BY <1>6, <1>7, <1>8, <2>1, PromiseRecord
<1>9. DOMAIN out'[r][i] = {"normed", "x"}
  BY <1>6
<1>10. ~(p < Length(i))
  BY <1>2, <1>3
<1> QED BY <1>3, <1>4, <1>5, <1>6, <1>8, <1>9, <1>10 DEF Delivers

(* There is a rank. *)
LEMMA RankZero == 0 \in Ranks
BY NAssumption DEF Ranks

(* A copy stands for the collective of a single rank. *)
LEMMA CopyDelivers ==
  ASSUME JobInv, NEW r \in Ranks, Copy(r), NEW i, i = CallOf(r), NEW p, p = Place(Head(stream[r]))
  PROVE  /\ Popped({r}) /\ \A q \in Ranks \ {r} : out'[q] = out[q] /\ temp'[q] = temp[q]
         /\ Delivers(r, i, p)
<1> DEFINE s == Stages(program[i])
<1>0. PICK result : result = [q \in {r} |->
        IF KindOf(q) = "reduce_scatter" THEN OneBlock(Source(q)[0]) ELSE Source(q)]
  OBVIOUS
<1>1. stream[r] # << >> /\ Head(stream[r]).do = "copy" /\ Finish(result, {})
  BY <1>0 DEF Copy, Runs
<1>2. /\ i \in 1 .. CallsOfJob /\ program[i] \in Kinds /\ i \in DOMAIN program
      /\ p \in 1 .. Length(i) /\ s[p] = "copy"
  BY <1>1, HeadEntry, ProgramKinds DEF JobInv
<1>3. ~comm /\ p = Length(i) /\ program[i] \in {"reduce_scatter", "all_gather", "dispatch", "combine"}
  BY <1>2, StageNames
<1>4. /\ DOMAIN result = {r} /\ DOMAIN result \subseteq Ranks
      /\ \A q \in DOMAIN result : stream[q] # << >>
      /\ result[r] = IF program[i] = "reduce_scatter" THEN OneBlock(Source(r)[0]) ELSE Source(r)
  BY <1>0, <1>1 DEF KindOf
<1>5. /\ Popped({r}) /\ \A q \in Ranks \ {r} : out'[q] = out[q] /\ temp'[q] = temp[q]
      /\ Leaves(r, i, result[r], {})
  BY <1>1, <1>4, StageLeaves
<1>6. program[i] \notin Normed /\ (program[i] \in Normed) = FALSE
  BY <1>3 DEF Normed
<1>7. program[i] \notin Exchanges => Source(r) = Own(r, i)
  <2>1. program[i] \notin Exchanges => Holding(r, i) = Own(r, i)
    BY <1>1 DEF JobInv, HeadsReady, Ready
  <2> QED BY <2>1 DEF Source, Holding, KindOf
<1>8. ASSUME ~Spoilt(i) PROVE result[r] = Promised(r, i).x
  <2>1. CASE program[i] = "reduce_scatter"
    <3>1. Source(r) = [j \in Ranks |-> SetToBag({<<"mm", i, r, j>>})]
      BY <1>7, <2>1 DEF Own, Blocks, Exchanges
    <3>2. Source(r)[0] = SetToBag({<<"mm", i, r, 0>>})
      BY <3>1, RankZero
    <3>3. Products(i, r, 0) = SetToBag({<<"mm", i, r, 0>>})
      BY <1>3, ProductsAre
    <3>4. Promised(r, i).x = OneBlock(Products(i, r, 0))
      BY <1>3, <2>1, ScatterPromise
    <3> QED BY <1>4, <2>1, <3>2, <3>3, <3>4
  <2>2. CASE program[i] = "all_gather"
    BY <1>3, <1>4, <1>7, <2>2, GatherPromise DEF Own, Exchanges
  <2>3. CASE program[i] \in Exchanges
    <3>1. Source(r) = Input(r, i) /\ program[i] # "reduce_scatter"
      BY <2>3 DEF Source, KindOf, Exchanges
    <3>2. Input(r, i) = Promised(r, i).x
      BY <1>1, <1>3, <1>8, <2>3, InputPromised
    <3> QED BY <1>4, <3>1, <3>2
  <2> QED BY <1>3, <2>1, <2>2, <2>3 DEF Exchanges
<1>9. ASSUME ~Spoilt(i) PROVE out'[r][i] = Promised(r, i)
  <2>1. Promised(r, i) = [normed |-> FALSE, x |-> result[r]]
    BY <1>6, <1>8, <1>9, PromiseRecord
  <2> QED BY <1>5, <1>6, <2>1 DEF Leaves
<1>10. ~(p < Length(i))
  BY <1>2, <1>3
<1> QED BY <1>3, <1>5, <1>9, <1>10 DEF Leaves, Delivers

(* A collective of all ranks. *)
LEMMA CollectLeaves ==
  ASSUME JobInv, NEW do \in Joint, NEW result, DOMAIN result = Ranks, Collect(do, result)
  PROVE  /\ Popped(Ranks) /\ UNCHANGED <<program, comm, failed>>
         /\ \A r \in Ranks : stream[r] # << >> /\ Head(stream[r]).do = do
         /\ \A r \in Ranks : \A i : i = CallOf(r) =>
              Leaves(r, i, result[r], IF program[i] \in Normed THEN {r} ELSE {})
<1> DEFINE T == {r \in Ranks : KindOf(r) \in Normed}
<1>1. \A r \in Ranks : stream[r] # << >> /\ Head(stream[r]).do = do
  BY DEF Collect, Runs
<1>2. Finish(result, T)
  BY DEF Collect
<1> HIDE DEF T
<1>3. /\ Popped(Ranks)
      /\ \A r \in Ranks : \A i : i = CallOf(r) => Leaves(r, i, result[r], T)
  BY <1>1, <1>2, StageLeaves
<1>4. ASSUME NEW r \in Ranks, NEW i, i = CallOf(r)
      PROVE  Leaves(r, i, result[r], IF program[i] \in Normed THEN {r} ELSE {})
  <2>1. r \in T <=> program[i] \in Normed
    BY <1>4 DEF T, KindOf
  <2>2. Leaves(r, i, result[r], T)
    BY <1>3, <1>4
  <2> QED BY <2>1, <2>2 DEF Leaves
<1> QED BY <1>1, <1>3, <1>4 DEF Popped

(* What a rank brings to a collective of sums, shards or blocks. *)
LEMMA Brought ==
  ASSUME JobInv, NEW do \in Joint, \A r \in Ranks : stream[r] # << >> /\ Head(stream[r]).do = do,
         NEW r \in Ranks, NEW i, i = CallOf(r), ~Spoilt(i), NEW q \in Ranks
  PROVE  /\ comm /\ CallOf(q) = i
         /\ do \in {"reduce", "scatter", "gather"} /\ program[i] \notin Exchanges =>
              Source(q) = Own(q, i)
         /\ program[i] \in Exchanges => Source(q) = Input(q, i)
<1>1. comm /\ CallOf(q) = i
  BY SameCall DEF JobInv
<1>2. ASSUME do \in {"reduce", "scatter", "gather"}, program[i] \notin Exchanges
      PROVE  Source(q) = Own(q, i)
  <2>1. Holding(q, i) = Own(q, i)
    BY <1>1, <1>2 DEF JobInv, HeadsReady, Ready
  <2> QED BY <1>1, <1>2, <2>1 DEF Source, Holding, KindOf
<1>3. program[i] \in Exchanges => Source(q) = Input(q, i)
  BY <1>1 DEF Source, KindOf
<1> QED BY <1>1, <1>2, <1>3

(* Taking part in a collective delivers, if the result is the promise or   *)
(* else what the call's tail needs. *)
LEMMA JointDelivers ==
  ASSUME JobInv, NEW do \in Joint, NEW result, DOMAIN result = Ranks, Collect(do, result),
         NEW r \in Ranks, NEW i, i = CallOf(r), NEW p, p = Place(Head(stream[r])),
         ~Spoilt(i) =>
           /\ program[i] # "all_reduce_bias" => result[r] = Promised(r, i).x
           /\ program[i] = "all_reduce_bias" => result[r] = [j \in Ranks |-> Products(i, r, j)]
  PROVE  Delivers(r, i, p)
<1> DEFINE s == Stages(program[i])
<1>1. /\ Popped(Ranks) /\ UNCHANGED <<program, comm, failed>>
      /\ stream[r] # << >> /\ Head(stream[r]).do = do
      /\ Leaves(r, i, result[r], IF program[i] \in Normed THEN {r} ELSE {})
  BY CollectLeaves
<1>2. /\ i \in 1 .. CallsOfJob /\ program[i] \in Kinds /\ i \in DOMAIN program
      /\ p \in 1 .. Length(i) /\ s[p] = do
  BY <1>1, HeadEntry, ProgramKinds DEF JobInv
<1>3. /\ p = Length(i) => program[i] \notin Normed /\ program[i] # "all_reduce_bias"
      /\ p < Length(i) => \/ s[p + 1] = "bias" /\ program[i] = "all_reduce_bias"
                          \/ s[p + 1] = "norm" /\ program[i] \in Normed
  <2>1. do \in {"reduce", "scatter", "gather", "exchange"}
    BY DEF Joint
  <2> QED BY <1>2, <2>1, StageNames DEF Normed
<1>4. ASSUME p = Length(i), ~Spoilt(i) PROVE out'[r][i] = Promised(r, i)
  <2>1. program[i] \notin Normed /\ (program[i] \in Normed) = FALSE
    BY <1>3, <1>4
  <2>2. Promised(r, i) = [normed |-> FALSE, x |-> result[r]]
    BY <1>3, <1>4, <2>1, PromiseRecord
  <2> QED BY <1>1, <2>1, <2>2 DEF Leaves
<1>5. ASSUME p < Length(i), NEW next, next = s[p + 1] PROVE Ready(r, i, next)'
  <2>1. (Spoilt(i)' <=> Spoilt(i)) /\ Promised(r, i)' = Promised(r, i)
    BY <1>1, JobStays, SpoiltStays
  <2>2. CASE next = "bias" /\ program[i] = "all_reduce_bias"
    <3>1. out'[r][i].x = result[r]
      BY <1>1, <2>2 DEF Leaves, Normed
    <3>2. ~Spoilt(i) => out'[r][i].x = [j \in Ranks |-> Products(i, r, j)']
      <4>1. \A j : Products(i, r, j)' = Products(i, r, j)
        BY <1>1, JobStays
      <4> QED BY <2>2, <3>1, <4>1
    <3> QED BY <2>1, <2>2, <3>2 DEF Ready
  <2>3. CASE next = "norm" /\ program[i] \in Normed
    <3>1. temp'[r] = result[r]
      BY <1>1, <2>3 DEF Leaves
    <3>2. ~Spoilt(i) => temp'[r] = Promised(r, i)'.x
      BY <2>1, <2>3, <3>1 DEF Normed
    <3> QED BY <2>1, <2>3, <3>2 DEF Ready
  <2> QED BY <1>3, <1>5, <2>2, <2>3
<1> QED BY <1>1, <1>4, <1>5 DEF Leaves, Delivers

(* The sums have every term of every rank once. *)
LEMMA ReduceDelivers ==
  ASSUME JobInv, AllReduce, NEW r \in Ranks, NEW i, i = CallOf(r),
         NEW p, p = Place(Head(stream[r]))
  PROVE  Delivers(r, i, p)
<1>0. PICK result : result = [q \in Ranks |-> [j \in Ranks |-> SumOf(j)]]
  OBVIOUS
<1>1. DOMAIN result = Ranks /\ Collect("reduce", result) /\ "reduce" \in Joint
  BY <1>0 DEF AllReduce, Joint
<1>2. \A q \in Ranks : stream[q] # << >> /\ Head(stream[q]).do = "reduce"
  BY <1>1, CollectLeaves
<1>3. program[i] \in {"all_reduce", "all_reduce_bias", "quant_all_reduce", "all_reduce_norm"}
  <2>1. /\ program[i] \in Kinds /\ p \in 1 .. Length(i) /\ Stages(program[i])[p] = "reduce"
    BY <1>2, HeadEntry DEF JobInv
  <2> QED BY <2>1, StageNames
<1>4. ASSUME ~Spoilt(i) PROVE result[r] = [j \in Ranks |-> Products(i, r, j)]
  <2>1. ASSUME NEW q \in Ranks
        PROVE  comm /\ Source(q) = [j \in Ranks |-> SetToBag({<<"mm", i, q, j>>})]
    <3>1. program[i] \notin Exchanges /\ program[i] # "all_gather"
      BY <1>3 DEF Exchanges
    <3>2. comm /\ Source(q) = Own(q, i)
      BY <1>1, <1>2, <1>4, <3>1, Brought
    <3> QED BY <3>1, <3>2 DEF Own, Blocks
  <2>2. ASSUME NEW j \in Ranks PROVE SumOf(j) = Products(i, r, j)
    <3>1. \A q \in Ranks : Source(q)[j] = SetToBag({<<"mm", i, q, j>>})
      BY <2>1
    <3>2. SumOf(j) = Terms(i, j, Ranks)
      BY <3>1, SumOfTerms
    <3>3. Products(i, r, j) = Terms(i, j, Ranks)
      BY <2>1, ProductsAre
    <3> QED BY <3>2, <3>3
  <2> QED BY <1>0, <2>2
<1>5. ~Spoilt(i) /\ program[i] # "all_reduce_bias" => result[r] = Promised(r, i).x
  BY <1>3, <1>4, SumPromise
<1> QED BY <1>1, <1>4, <1>5, JointDelivers

(* Each rank gets its block of the sum. *)
LEMMA ScatterDelivers ==
  ASSUME JobInv, ReduceScatter, NEW r \in Ranks, NEW i, i = CallOf(r),
         NEW p, p = Place(Head(stream[r]))
  PROVE  Delivers(r, i, p)
<1>0. PICK result : result = [q \in Ranks |-> OneBlock(SumOf(q))]
  OBVIOUS
<1>1. DOMAIN result = Ranks /\ Collect("scatter", result) /\ "scatter" \in Joint
  BY <1>0 DEF ReduceScatter, Joint
<1>2. \A q \in Ranks : stream[q] # << >> /\ Head(stream[q]).do = "scatter"
  BY <1>1, CollectLeaves
<1>3. program[i] = "reduce_scatter"
  <2>1. /\ program[i] \in Kinds /\ p \in 1 .. Length(i) /\ Stages(program[i])[p] = "scatter"
    BY <1>2, HeadEntry DEF JobInv
  <2> QED BY <2>1, StageNames
<1>4. ASSUME ~Spoilt(i) PROVE result[r] = Promised(r, i).x
  <2>1. ASSUME NEW q \in Ranks
        PROVE  comm /\ Source(q)[r] = SetToBag({<<"mm", i, q, r>>})
    <3>1. program[i] \notin Exchanges /\ program[i] # "all_gather"
      BY <1>3 DEF Exchanges
    <3>2. comm /\ Source(q) = Own(q, i)
      BY <1>1, <1>2, <1>4, <3>1, Brought
    <3> QED BY <3>1, <3>2 DEF Own, Blocks
  <2>2. comm /\ SumOf(r) = Products(i, r, r)
    <3>1. comm /\ Products(i, r, r) = Terms(i, r, Ranks)
      BY <2>1, ProductsAre
    <3>2. SumOf(r) = Terms(i, r, Ranks)
      BY <2>1, SumOfTerms
    <3> QED BY <3>1, <3>2
  <2>3. Promised(r, i).x = OneBlock(Products(i, r, r))
    BY <1>3, <2>2, ScatterPromise
  <2> QED BY <1>0, <2>2, <2>3
<1> QED BY <1>1, <1>3, <1>4, JointDelivers

(* Each rank gets the shards in rank order. *)
LEMMA GatherDelivers ==
  ASSUME JobInv, AllGather, NEW r \in Ranks, NEW i, i = CallOf(r),
         NEW p, p = Place(Head(stream[r]))
  PROVE  Delivers(r, i, p)
<1>0. PICK result : result = [q \in Ranks |-> [j \in Ranks |-> Source(j)[0]]]
  OBVIOUS
<1>1. DOMAIN result = Ranks /\ Collect("gather", result) /\ "gather" \in Joint
  BY <1>0 DEF AllGather, Joint
<1>2. \A q \in Ranks : stream[q] # << >> /\ Head(stream[q]).do = "gather"
  BY <1>1, CollectLeaves
<1>3. program[i] = "all_gather"
  <2>1. /\ program[i] \in Kinds /\ p \in 1 .. Length(i) /\ Stages(program[i])[p] = "gather"
    BY <1>2, HeadEntry DEF JobInv
  <2> QED BY <2>1, StageNames
<1>4. ASSUME ~Spoilt(i) PROVE result[r] = Promised(r, i).x
  <2>1. ASSUME NEW q \in Ranks
        PROVE  comm /\ Source(q)[0] = SetToBag({<<"mm", i, q, q>>})
    <3>1. comm /\ Source(q) = Own(q, i)
      BY <1>1, <1>2, <1>3, <1>4, Brought DEF Exchanges
    <3> QED BY <1>3, <3>1, RankZero DEF Own, OneBlock
  <2>2. Promised(r, i).x = [j \in Ranks |-> SetToBag({<<"mm", i, j, j>>})]
    <3>1. comm
      BY <2>1
    <3> QED BY <1>3, <3>1, GatherPromise
  <2> QED BY <1>0, <2>1, <2>2
<1> QED BY <1>1, <1>3, <1>4, JointDelivers

(* An exchange brings what each rank has for another there, or back. *)
LEMMA ExchangeDelivers ==
  ASSUME JobInv, AlltoAll, NEW r \in Ranks, NEW i, i = CallOf(r),
         NEW p, p = Place(Head(stream[r]))
  PROVE  Delivers(r, i, p)
<1>0. PICK result : result = [k \in Ranks |-> [j \in Ranks |-> Source(j)[k]]]
  OBVIOUS
<1>1. DOMAIN result = Ranks /\ Collect("exchange", result) /\ "exchange" \in Joint
  BY <1>0 DEF AlltoAll, Joint
<1>2. \A q \in Ranks : stream[q] # << >> /\ Head(stream[q]).do = "exchange"
  BY <1>1, CollectLeaves
<1>3. program[i] \in Exchanges /\ program[i] # "all_reduce_bias"
  <2>1. /\ program[i] \in Kinds /\ p \in 1 .. Length(i) /\ Stages(program[i])[p] = "exchange"
    BY <1>2, HeadEntry DEF JobInv
  <2> QED BY <2>1, StageNames DEF Exchanges
<1>4. ASSUME ~Spoilt(i) PROVE result[r] = Promised(r, i).x
  <2>1. ASSUME NEW q \in Ranks
        PROVE  comm /\ CallOf(q) = i /\ Source(q) = Input(q, i) /\ ~Spoilt(CallOf(q))
    BY <1>1, <1>2, <1>3, <1>4, Brought
  <2>2. CASE program[i] # "dispatch" /\ Dispatches(i) # {}
    <3>1. PICK d : d = Max(Dispatches(i))
      OBVIOUS
    <3>2. ASSUME NEW q \in Ranks PROVE Source(q)[r] = SetToBag({<<"x", d, r, q>>})
      <4>1. Input(q, i) = [j \in Ranks |-> SetToBag({<<"x", d, j, q>>})]
        BY <1>2, <1>4, <2>1, <2>2, <3>1, InputIs
      <4> QED BY <2>1, <4>1
    <3>3. Promised(r, i).x = [j \in Ranks |-> SetToBag({<<"x", d, r, j>>})]
      BY <1>3, <2>2, <3>1, CombinePromise DEF Tokens, Blocks
    <3> QED BY <1>0, <3>2, <3>3
  <2>3. CASE program[i] = "dispatch" \/ Dispatches(i) = {}
    <3>1. ASSUME NEW q \in Ranks PROVE Source(q)[r] = SetToBag({<<"x", i, q, r>>})
      <4>1. Input(q, i) = Tokens(q, i)
        BY <2>3 DEF Input
      <4> QED BY <2>1, <4>1 DEF Tokens, Blocks
    <3>2. Promised(r, i).x = [j \in Ranks |-> SetToBag({<<"x", i, j, r>>})]
      BY <1>3, <2>1, <2>3, DispatchPromise
    <3> QED BY <1>0, <3>1, <3>2
  <2> QED BY <2>2, <2>3
<1> QED BY <1>1, <1>3, <1>4, JointDelivers

-----------------------------------------------------------------------------
(* A step of the device keeps all of it. *)
LEMMA PopSafe ==
  ASSUME JobInv, NEW D, Popped(D), Together', DOMAIN out' = Ranks,
         \A r \in D : Delivers(r, CallOf(r), Place(Head(stream[r]))),
         \A r \in Ranks \ D : out'[r] = out[r] /\ temp'[r] = temp[r]
  PROVE  JobInv'
<1>1. JobTyped' /\ StagesInOrder'
  BY PopOrder DEF JobInv
<1>2. FailuresCounted' /\ OutTyped' /\ HeadsReady' /\ ReducedOrReported'
  BY PopDelivers DEF JobInv
<1> QED BY <1>1, <1>2 DEF JobInv

(* A stage of one rank, and a collective of all of them. *)
LEMMA LocalSafe ==
  ASSUME JobInv, NEW r \in Ranks, stream[r] # << >>, Head(stream[r]).do \notin Joint,
         Popped({r}), DOMAIN out' = Ranks, Delivers(r, CallOf(r), Place(Head(stream[r]))),
         \A q \in Ranks \ {r} : out'[q] = out[q] /\ temp'[q] = temp[q]
  PROVE  JobInv'
<1>1. Together'
  BY LocalTogether DEF JobInv
<1> QED BY <1>1, PopSafe

LEMMA JointSafe ==
  ASSUME JobInv, NEW do \in Joint, NEW result, DOMAIN result = Ranks, Collect(do, result),
         \A r \in Ranks : Delivers(r, CallOf(r), Place(Head(stream[r])))
  PROVE  JobInv'
<1>1. Popped(Ranks) /\ \A r \in Ranks : Head(stream[r]).do \in Joint
  BY CollectLeaves
<1>2. Together'
  BY <1>1, JointTogether DEF JobInv
<1>3. DOMAIN out' = Ranks
  BY DEF Collect, Finish
<1> QED BY <1>1, <1>2, <1>3, PopSafe

(* The stages of one rank, case by case. *)
LEMMA DeviceSafe ==
  ASSUME JobInv, NEW r \in Ranks, Device(r)
  PROVE  JobInv'
<1> DEFINE do == Head(stream[r]).do
<1>1. /\ stream[r] # << >> /\ do \in {"matmul", "shard", "bias", "norm", "copy"}
      /\ DOMAIN out' = Ranks
  BY DEF JobInv, Device, Matmul, Shard, AddBias, Norm, Copy, Runs, Finish
<1>2. do \notin Joint
  BY <1>1 DEF Joint
<1>3. /\ Popped({r}) /\ \A q \in Ranks \ {r} : out'[q] = out[q] /\ temp'[q] = temp[q]
      /\ Delivers(r, CallOf(r), Place(Head(stream[r])))
  <2>1. CASE Matmul(r)
    BY <2>1, MatmulDelivers
  <2>2. CASE Shard(r)
    BY <2>2, ShardDelivers
  <2>3. CASE AddBias(r)
    BY <2>3, BiasDelivers
  <2>4. CASE Norm(r)
    BY <2>4, NormDelivers
  <2>5. CASE Copy(r)
    BY <2>5, CopyDelivers
  <2> QED BY <2>1, <2>2, <2>3, <2>4, <2>5 DEF Device
<1> QED BY <1>1, <1>2, <1>3, LocalSafe

(* The four collectives. *)
LEMMA CollectSafe ==
  ASSUME JobInv, AllReduce \/ ReduceScatter \/ AllGather \/ AlltoAll
  PROVE  JobInv'
<1>1. CASE AllReduce
  <2>1. PICK result : result = [q \in Ranks |-> [j \in Ranks |-> SumOf(j)]]
    OBVIOUS
  <2>2. DOMAIN result = Ranks /\ Collect("reduce", result) /\ "reduce" \in Joint
    BY <1>1, <2>1 DEF AllReduce, Joint
  <2>3. \A r \in Ranks : Delivers(r, CallOf(r), Place(Head(stream[r])))
    BY <1>1, ReduceDelivers
  <2> QED BY <2>2, <2>3, JointSafe
<1>2. CASE ReduceScatter
  <2>1. PICK result : result = [q \in Ranks |-> OneBlock(SumOf(q))]
    OBVIOUS
  <2>2. DOMAIN result = Ranks /\ Collect("scatter", result) /\ "scatter" \in Joint
    BY <1>2, <2>1 DEF ReduceScatter, Joint
  <2>3. \A r \in Ranks : Delivers(r, CallOf(r), Place(Head(stream[r])))
    BY <1>2, ScatterDelivers
  <2> QED BY <2>2, <2>3, JointSafe
<1>3. CASE AllGather
  <2>1. PICK result : result = [q \in Ranks |-> [j \in Ranks |-> Source(j)[0]]]
    OBVIOUS
  <2>2. DOMAIN result = Ranks /\ Collect("gather", result) /\ "gather" \in Joint
    BY <1>3, <2>1 DEF AllGather, Joint
  <2>3. \A r \in Ranks : Delivers(r, CallOf(r), Place(Head(stream[r])))
    BY <1>3, GatherDelivers
  <2> QED BY <2>2, <2>3, JointSafe
<1>4. CASE AlltoAll
  <2>1. PICK result : result = [k \in Ranks |-> [j \in Ranks |-> Source(j)[k]]]
    OBVIOUS
  <2>2. DOMAIN result = Ranks /\ Collect("exchange", result) /\ "exchange" \in Joint
    BY <1>4, <2>1 DEF AlltoAll, Joint
  <2>3. \A r \in Ranks : Delivers(r, CallOf(r), Place(Head(stream[r])))
    BY <1>4, ExchangeDelivers
  <2> QED BY <2>2, <2>3, JointSafe
<1> QED BY <1>1, <1>2, <1>3, <1>4

(* So does a step of the rendezvous, which does not touch the job. *)
LEMMA RestSafe ==
  ASSUME JobInv, UNCHANGED collectives
  PROVE  JobInv'
<1>1. UNCHANGED <<program, comm, pc, stream, temp, out, failed>>
  BY DEF collectives, buffers
<1>2. Popped({})
  <2>1. stream = [r \in Ranks |-> stream[r]]
    BY DEF JobInv, JobTyped
  <2> QED BY <1>1, <2>1 DEF Popped
<1>3. \A r \in Ranks : \A i : (Spoilt(i)' <=> Spoilt(i)) /\ (Passed(r, i)' <=> Passed(r, i))
  <2>1. \A r \in Ranks : \A i : Passed(r, i)' <=> Passed(r, i)
    BY <1>2, PopPassed DEF JobInv
  <2> QED BY <1>1, <2>1, SpoiltStays
<1>4. Together'
  <2>1. Together
    BY DEF JobInv
  <2> QED BY <1>1, <1>3, <2>1 DEF Together
<1>5. DOMAIN out' = Ranks
  BY <1>1 DEF JobInv
<1> QED BY <1>1, <1>2, <1>4, <1>5, PopSafe

-----------------------------------------------------------------------------
(* A host call of rank r, which enqueues the stages before the k-th. *)
Called(r, i, k) ==
  /\ r \in Ranks /\ i = pc[r] /\ i \in 1 .. CallsOfJob /\ k \in 1 .. Length(i) + 1
  /\ UNCHANGED <<program, comm, temp, out>>
  /\ pc' = [pc EXCEPT ![r] = i + 1]
  /\ failed' = IF k <= Length(i) THEN failed \cup {<<r, i, k>>} ELSE failed
  /\ stream' = [stream EXCEPT ![r] = @ \o [n \in 1 .. k - 1 |-> Entry(i, n)]]

(* The call of the model is such a call. *)
LEMMA CallIs ==
  ASSUME JobTyped, NEW r \in Ranks, NEW k, Call(r, k)
  PROVE  Called(r, pc[r], k)
<1>1. Len(program) = CallsOfJob /\ CallsOfJob \in Nat /\ pc[r] \in 1 .. CallsOfJob + 1
  BY ProgramKinds DEF JobTyped
<1>2. pc[r] <= Len(program)
  BY DEF Call
<1>3. pc[r] \in 1 .. CallsOfJob
  BY <1>1, <1>2
<1>4. /\ k \in 1 .. Len(Stages(program[pc[r]])) + 1
      /\ stream' = [stream EXCEPT ![r] =
           @ \o [n \in 1 .. k - 1 |-> [call |-> pc[r], do |-> Stages(program[pc[r]])[n]]]]
      /\ failed' = IF k <= Len(Stages(program[pc[r]])) THEN failed \cup {<<r, pc[r], k>>} ELSE failed
      /\ pc' = [pc EXCEPT ![r] = pc[r] + 1]
      /\ UNCHANGED <<program, comm, temp, out>>
  BY DEF Call, buffers
<1> QED BY <1>3, <1>4 DEF Called, Length, Entry

(* What a concatenation holds. *)
LEMMA Appended ==
  ASSUME NEW S, NEW q \in Seq(S), NEW m \in Nat, NEW e, \A n \in 1 .. m : e[n] \in S,
         e = [n \in 1 .. m |-> e[n]]
  PROVE  /\ q \o e \in Seq(S) /\ Len(q) \in Nat /\ Len(q \o e) = Len(q) + m
         /\ \A n \in 1 .. Len(q) : (q \o e)[n] = q[n]
         /\ \A n \in Len(q) + 1 .. Len(q) + m : n - Len(q) \in 1 .. m /\ (q \o e)[n] = e[n - Len(q)]
<1>1. e \in Seq(S) /\ Len(e) = m
  OBVIOUS
<1>2. q \o e \in Seq(S) /\ Len(q) \in Nat /\ Len(q \o e) = Len(q) + m
  BY <1>1, ConcatProperties
<1>3. \A n \in 1 .. Len(q) : (q \o e)[n] = q[n]
  BY <1>1, ConcatProperties
<1>4. ASSUME NEW n \in Len(q) + 1 .. Len(q) + m
      PROVE  n - Len(q) \in 1 .. m /\ (q \o e)[n] = e[n - Len(q)]
  <2>1. n \in 1 .. Len(q) + Len(e) /\ ~(n <= Len(q)) /\ n - Len(q) \in 1 .. m
    BY <1>1, <1>2
  <2> QED BY <1>1, <2>1, ConcatProperties
<1> QED BY <1>2, <1>3, <1>4

(* The streams and the counters after a call; that of r was l long before. *)
Grown(r, i, k, l) ==
  /\ l \in Nat /\ k - 1 \in 0 .. Length(i) /\ Length(i) \in 1 .. 3 /\ pc'[r] = i + 1
  /\ \A q \in Ranks \ {r} : stream'[q] = stream[q] /\ pc'[q] = pc[q]
  /\ Len(stream'[r]) = l + (k - 1)
  /\ \A n \in 1 .. l : stream'[r][n] = stream[r][n]
  /\ \A n \in l + 1 .. l + (k - 1) :
       n - l \in 1 .. k - 1 /\ n - l \in 1 .. Length(i) /\ stream'[r][n] = Entry(i, n - l)

LEMMA CalledStreams ==
  ASSUME JobTyped, NEW r, NEW i, NEW k, Called(r, i, k), NEW l, l = Len(stream[r])
  PROVE  JobTyped' /\ Grown(r, i, k, l)
<1>0. PICK e : e = [n \in 1 .. k - 1 |-> Entry(i, n)]
  OBVIOUS
<1>1. /\ r \in Ranks /\ i \in 1 .. CallsOfJob /\ i = pc[r] /\ program[i] \in Kinds
      /\ CallsOfJob \in Nat
  BY ProgramKinds DEF Called
<1>2. Length(i) \in 1 .. 3
  BY <1>1, StageFacts
<1>3. k \in 1 .. Length(i) + 1 /\ k - 1 \in 0 .. Length(i) /\ k - 1 \in Nat
  BY <1>2 DEF Called
<1>4. stream[r] \in Seq(Work)
  BY <1>1 DEF JobTyped
<1>5. \A n \in 1 .. k - 1 : n \in 1 .. Length(i) /\ Entry(i, n) \in Work
  <2> SUFFICES ASSUME NEW n \in 1 .. k - 1
               PROVE  n \in 1 .. Length(i) /\ Entry(i, n) \in Work
    OBVIOUS
  <2>1. n \in 1 .. Length(i)
    BY <1>2, <1>3
  <2>2. Stages(program[i])[n] \in Names
    BY <1>1, <2>1, StageFacts
  <2> QED BY <1>1, <2>1, <2>2 DEF Entry, Work
<1>6. /\ stream'[r] = stream[r] \o e /\ pc'[r] = i + 1
      /\ \A q \in Ranks \ {r} : stream'[q] = stream[q] /\ pc'[q] = pc[q]
      /\ pc' \in [Ranks -> 1 .. CallsOfJob + 1] /\ DOMAIN stream' = Ranks
      /\ stream' = [q \in Ranks |-> stream'[q]] /\ program' = program
  <2>1. /\ pc' = [pc EXCEPT ![r] = i + 1] /\ program' = program
        /\ stream' = [stream EXCEPT ![r] = stream[r] \o e]
    BY <1>0 DEF Called
  <2>2. /\ stream'[r] = stream[r] \o e /\ DOMAIN stream' = Ranks
        /\ \A q \in Ranks \ {r} : stream'[q] = stream[q]
        /\ stream' = [q \in Ranks |-> stream'[q]]
    BY <1>1, <2>1 DEF JobTyped
  <2>3. i + 1 \in 1 .. CallsOfJob + 1
    BY <1>1
  <2>4. /\ pc'[r] = i + 1 /\ \A q \in Ranks \ {r} : pc'[q] = pc[q]
        /\ pc' \in [Ranks -> 1 .. CallsOfJob + 1]
    BY <1>1, <2>1, <2>3 DEF JobTyped
  <2> QED BY <2>1, <2>2, <2>4
<1>7. PICK m : m = k - 1
  OBVIOUS
<1>8. /\ stream[r] \o e \in Seq(Work) /\ Len(stream[r]) \in Nat
      /\ Len(stream[r] \o e) = Len(stream[r]) + m
      /\ \A n \in 1 .. Len(stream[r]) : (stream[r] \o e)[n] = stream[r][n]
      /\ \A n \in Len(stream[r]) + 1 .. Len(stream[r]) + m :
           n - Len(stream[r]) \in 1 .. m /\ (stream[r] \o e)[n] = e[n - Len(stream[r])]
  <2>1. m \in Nat /\ (\A n \in 1 .. m : e[n] \in Work) /\ e = [n \in 1 .. m |-> e[n]]
    BY <1>0, <1>3, <1>5, <1>7
  <2> QED BY <1>4, <2>1, Appended
<1>9. \A n \in 1 .. k - 1 : e[n] = Entry(i, n) /\ n \in 1 .. Length(i)
  BY <1>0, <1>5
<1>10. JobTyped'
  <2>1. \A q \in Ranks : stream'[q] \in Seq(Work)
    BY <1>6, <1>8 DEF JobTyped
  <2>2. stream' \in [Ranks -> Seq(Work)]
    BY <1>6, <2>1
  <2> QED BY <1>6, <2>2 DEF JobTyped
<1>11. ASSUME NEW n \in l + 1 .. l + (k - 1)
       PROVE  n - l \in 1 .. k - 1 /\ n - l \in 1 .. Length(i) /\ stream'[r][n] = Entry(i, n - l)
  BY <1>6, <1>7, <1>8, <1>9
<1> QED BY <1>2, <1>3, <1>6, <1>7, <1>8, <1>10, <1>11 DEF Grown

(* A call touches no tensor and takes no failure back. *)
LEMMA CalledStays ==
  ASSUME JobTyped, NEW r, NEW i, NEW k, Called(r, i, k)
  PROVE  /\ UNCHANGED <<program, comm, temp, out>> /\ failed \subseteq failed'
         /\ \A j : Spoilt(j) => Spoilt(j)'
         /\ \A q, j : FailedIn(q, j) => FailedIn(q, j)'
         /\ k <= Length(i) => FailedIn(r, i)' /\ <<r, i, k>> \in failed'
<1>1. UNCHANGED <<program, comm, temp, out>> /\ failed \subseteq failed'
  BY DEF Called
<1>2. ASSUME NEW j, Spoilt(j) PROVE Spoilt(j)'
  <2>1. \A c : CollectiveAt(c)' = CollectiveAt(c)
    BY <1>1, JobStays
  <2>2. PICK f \in failed : f[2] <= j /\ f[3] <= CollectiveAt(f[2])
    BY <1>2 DEF Spoilt
  <2>3. f \in failed' /\ f[3] <= CollectiveAt(f[2])'
    BY <1>1, <2>1, <2>2
  <2> QED BY <2>2, <2>3 DEF Spoilt
<1>3. \A q, j : FailedIn(q, j) => FailedIn(q, j)'
  BY <1>1 DEF FailedIn
<1>4. ASSUME k <= Length(i) PROVE FailedIn(r, i)' /\ <<r, i, k>> \in failed'
  <2>1. <<r, i, k>> \in failed'
    BY <1>4 DEF Called
  <2>2. <<r, i, k>>[1] = r /\ <<r, i, k>>[2] = i
    OBVIOUS
  <2> QED BY <2>1, <2>2 DEF FailedIn
<1> QED BY <1>1, <1>2, <1>3, <1>4

(* The new stages come after all the others, in their order. *)
LEMMA CallOrder ==
  ASSUME JobTyped, StagesInOrder, NEW r, NEW i, NEW k, Called(r, i, k)
  PROVE  StagesInOrder'
<1>0. PICK l : l = Len(stream[r])
  OBVIOUS
<1>1. /\ r \in Ranks /\ i = pc[r] /\ i \in 1 .. CallsOfJob /\ program[i] \in Kinds
      /\ CallsOfJob \in Nat /\ i \in Nat
  BY ProgramKinds DEF Called
<1>2. /\ l \in Nat /\ k - 1 \in 0 .. Length(i) /\ Length(i) \in 1 .. 3 /\ pc'[r] = i + 1
      /\ \A q \in Ranks \ {r} : stream'[q] = stream[q] /\ pc'[q] = pc[q]
      /\ Len(stream'[r]) = l + (k - 1)
      /\ \A n \in 1 .. l : stream'[r][n] = stream[r][n]
      /\ \A n \in l + 1 .. l + (k - 1) :
           n - l \in 1 .. k - 1 /\ n - l \in 1 .. Length(i) /\ stream'[r][n] = Entry(i, n - l)
  <2>1. JobTyped' /\ Grown(r, i, k, l)
    BY <1>0, CalledStreams
  <2> QED BY <2>1 DEF Grown
<1>3. \A p \in 1 .. Length(i) : Place(Entry(i, p)) = p /\ Entry(i, p).call = i
  BY <1>1, EntryPlace
<1>7. /\ UNCHANGED <<program, comm>> /\ \A q, j : FailedIn(q, j) => FailedIn(q, j)'
      /\ k <= Length(i) => FailedIn(r, i)'
  BY CalledStays
<1> SUFFICES ASSUME NEW q \in Ranks, NEW n \in 1 .. Len(stream'[q]),
                    NEW c, c = stream'[q][n].call
             PROVE  /\ stream'[q][n].call \in 1 .. pc'[q] - 1
                    /\ \E p \in 1 .. Length(stream'[q][n].call) :
                         stream'[q][n] = Entry(stream'[q][n].call, p)
                    /\ \A m \in n + 1 .. Len(stream'[q]) : Before(stream'[q][n], stream'[q][m])
                    /\ n < Len(stream'[q]) => Follows(stream'[q][n], stream'[q][n + 1])
                    /\ Last(q, n)' => \/ Place(stream'[q][n]) = Length(stream'[q][n].call)
                                      \/ FailedIn(q, c)'
  BY <1>7, JobStays DEF StagesInOrder
<1>4. CASE q # r
  <2>1. stream'[q] = stream[q] /\ pc'[q] = pc[q] /\ (Last(q, n)' <=> Last(q, n))
    BY <1>2, <1>4 DEF Last
  <2>2. /\ stream[q][n].call \in 1 .. pc[q] - 1
        /\ \E p \in 1 .. Length(stream[q][n].call) :
             stream[q][n] = Entry(stream[q][n].call, p)
        /\ \A m \in n + 1 .. Len(stream[q]) : Before(stream[q][n], stream[q][m])
        /\ n < Len(stream[q]) => Follows(stream[q][n], stream[q][n + 1])
        /\ Last(q, n) => \/ Place(stream[q][n]) = Length(stream[q][n].call)
                         \/ FailedIn(q, stream[q][n].call)
    BY <2>1 DEF StagesInOrder
  <2> QED BY <1>7, <2>1, <2>2
<1>5. CASE q = r /\ n \in 1 .. l
  <2>1. /\ stream[r][n].call \in 1 .. i - 1
        /\ \E p \in 1 .. Length(stream[r][n].call) :
             stream[r][n] = Entry(stream[r][n].call, p)
        /\ \A m \in n + 1 .. l : Before(stream[r][n], stream[r][m])
        /\ n < l => Follows(stream[r][n], stream[r][n + 1])
        /\ Last(r, n) => \/ Place(stream[r][n]) = Length(stream[r][n].call)
                         \/ FailedIn(r, stream[r][n].call)
    BY <1>0, <1>1, <1>5 DEF StagesInOrder
  <2>2. stream'[r][n] = stream[r][n] /\ stream[r][n].call < i /\ stream[r][n].call \in 1 .. pc'[r] - 1
    <3>1. \A x \in 1 .. i - 1 : x < i /\ x \in 1 .. (i + 1) - 1
      BY <1>1
    <3> QED BY <1>2, <1>5, <2>1, <3>1
  <2>3. ASSUME NEW m \in n + 1 .. Len(stream'[r]) PROVE Before(stream[r][n], stream'[r][m])
    <3>1. CASE m <= l
      <4>1. m \in n + 1 .. l /\ m \in 1 .. l
        BY <1>2, <1>5, <2>3, <3>1
      <4> QED BY <1>2, <2>1, <4>1
    <3>2. CASE ~(m <= l)
      <4>1. m \in l + 1 .. l + (k - 1)
        BY <1>2, <1>5, <2>3, <3>2
      <4>2. stream'[r][m].call = i
        BY <1>2, <1>3, <4>1
      <4> QED BY <2>2, <4>2 DEF Before
    <3> QED BY <3>1, <3>2
  <2>4. ASSUME n < Len(stream'[r]) PROVE Follows(stream[r][n], stream'[r][n + 1])
    <3>1. CASE n < l
      <4>1. n + 1 \in 1 .. l
        BY <1>2, <1>5, <3>1
      <4> QED BY <1>2, <2>1, <3>1, <4>1
    <3>2. CASE ~(n < l)
      <4>0. /\ l \in Nat /\ n \in 1 .. l /\ ~(n < l)
            /\ k - 1 \in Nat /\ n < l + (k - 1)
        BY <1>2, <1>5, <2>4, <3>2
      <4>1. n = l /\ n + 1 \in l + 1 .. l + (k - 1) /\ (n + 1) - l = 1
        BY <4>0
      <4>2. stream'[r][n + 1] = Entry(i, 1) /\ 1 \in 1 .. Length(i)
        BY <1>2, <4>1
      <4>3. stream'[r][n + 1].call = i /\ Place(stream'[r][n + 1]) = 1
        BY <1>3, <4>2
      <4>4. stream[r][n].call # i
        BY <1>1, <2>1
      <4> QED BY <4>3, <4>4 DEF Follows
    <3> QED BY <3>1, <3>2
  <2>5. ASSUME Last(r, n)'
        PROVE  Place(stream[r][n]) = Length(stream[r][n].call) \/ FailedIn(r, stream[r][n].call)
    <3>1. n = Len(stream'[r]) \/ stream'[r][n + 1].call # stream[r][n].call
      BY <2>2, <2>5 DEF Last
    <3>2. CASE n < l
      <4>1. n + 1 \in 1 .. l /\ n # Len(stream'[r])
        BY <1>2, <1>5, <3>2
      <4>2. Last(r, n)
        BY <1>2, <3>1, <4>1 DEF Last
      <4> QED BY <2>1, <4>2
    <3>3. CASE ~(n < l)
      <4>1. n = l
        BY <1>2, <1>5, <3>3
      <4>2. Last(r, n)
        BY <1>0, <4>1 DEF Last
      <4> QED BY <2>1, <4>2
    <3> QED BY <3>2, <3>3
  <2> QED BY <1>5, <1>7, <2>1, <2>2, <2>3, <2>4, <2>5
<1>6. CASE q = r /\ n \notin 1 .. l
  <2>1. n \in l + 1 .. l + (k - 1) /\ n \in Nat
    BY <1>2, <1>6
  <2>2. PICK p : p = n - l
    OBVIOUS
  <2>3. p \in 1 .. k - 1 /\ p \in 1 .. Length(i) /\ stream'[r][n] = Entry(i, p)
    BY <1>2, <2>1, <2>2
  <2>4. stream'[r][n].call = i /\ Place(stream'[r][n]) = p
    BY <1>3, <2>3
  <2>5. \A m \in n + 1 .. Len(stream'[r]) :
          stream'[r][m].call = i /\ Place(stream'[r][m]) = m - l
    <3> SUFFICES ASSUME NEW m \in n + 1 .. Len(stream'[r])
                 PROVE  stream'[r][m].call = i /\ Place(stream'[r][m]) = m - l
      OBVIOUS
    <3>1. m \in l + 1 .. l + (k - 1)
      BY <1>2, <2>1
    <3>2. m - l \in 1 .. Length(i) /\ stream'[r][m] = Entry(i, m - l)
      BY <1>2, <3>1
    <3> QED BY <1>3, <3>2
  <2>6. \A m \in n + 1 .. Len(stream'[r]) : Before(stream'[r][n], stream'[r][m])
    <3>1. \A m \in n + 1 .. Len(stream'[r]) : p < m - l
      BY <1>2, <2>1, <2>2
    <3> QED BY <2>4, <2>5, <3>1 DEF Before
  <2>7. ASSUME n < Len(stream'[r])
        PROVE  /\ Follows(stream'[r][n], stream'[r][n + 1])
               /\ stream'[r][n + 1].call = i
    <3>1. n + 1 \in n + 1 .. Len(stream'[r]) /\ (n + 1) - l = p + 1
      BY <1>2, <2>1, <2>2, <2>7
    <3>2. stream'[r][n + 1].call = i /\ Place(stream'[r][n + 1]) = p + 1
      BY <2>5, <3>1
    <3> QED BY <2>4, <3>2 DEF Follows
  <2>8. ASSUME Last(r, n)' PROVE p = Length(i) \/ FailedIn(r, i)'
    <3>1. n = Len(stream'[r]) \/ stream'[r][n + 1].call # i
      BY <2>4, <2>8 DEF Last
    <3>2. n = l + (k - 1)
      BY <1>2, <2>1, <2>7, <3>1, SMTT(30)
    <3>3. p = k - 1 /\ (p # Length(i) => k <= Length(i))
      <4>1. k \in 1 .. Length(i) + 1
        BY DEF Called
      <4> QED BY <1>2, <2>1, <2>2, <3>2, <4>1
    <3> QED BY <1>7, <3>3
  <2>9. stream'[r][n].call \in 1 .. pc'[r] - 1
    BY <1>1, <1>2, <2>4
  <2> QED BY <1>6, <2>3, <2>4, <2>6, <2>7, <2>8, <2>9
<1> QED BY <1>4, <1>5, <1>6

(* A failing call is counted with its stage. *)
LEMMA CallCounted ==
  ASSUME JobTyped, FailuresCounted, NEW r, NEW i, NEW k, Called(r, i, k)
  PROVE  FailuresCounted'
<1>1. /\ r \in Ranks /\ i = pc[r] /\ i \in Nat \ {0} /\ k \in 1 .. Length(i) + 1
      /\ UNCHANGED <<program, comm>> /\ Length(i) \in Nat
  BY ProgramKinds, StageFacts DEF Called
<1>2. /\ pc'[r] = i + 1 /\ \A q \in Ranks \ {r} : pc'[q] = pc[q]
      /\ failed' = IF k <= Length(i) THEN failed \cup {<<r, i, k>>} ELSE failed
  <2>1. Grown(r, i, k, Len(stream[r]))
    BY CalledStreams
  <2> QED BY <2>1 DEF Grown, Called
<1>3. ASSUME NEW f \in failed
      PROVE  f[1] \in Ranks /\ f[2] \in 1 .. pc'[f[1]] - 1 /\ f[3] \in 1 .. Length(f[2])
  <2>1. f[1] \in Ranks /\ f[2] \in 1 .. pc[f[1]] - 1 /\ f[3] \in 1 .. Length(f[2])
    BY DEF FailuresCounted
  <2>2. \A x \in 1 .. i - 1 : x \in 1 .. (i + 1) - 1
    BY <1>1
  <2> QED BY <1>1, <1>2, <2>1, <2>2
<1>4. ASSUME k <= Length(i)
      PROVE  i \in 1 .. pc'[r] - 1 /\ k \in 1 .. Length(i)
  BY <1>1, <1>2, <1>4
<1>5. ASSUME NEW f \in failed'
      PROVE  f[1] \in Ranks /\ f[2] \in 1 .. pc'[f[1]] - 1 /\ f[3] \in 1 .. Length(f[2])
  <2>1. CASE f \in failed
    BY <1>3, <2>1
  <2>2. CASE f \notin failed
    <3>1. f = <<r, i, k>> /\ k <= Length(i)
      BY <1>2, <1>5, <2>2
    <3>2. f[1] = r /\ f[2] = i /\ f[3] = k
      BY <3>1
    <3> QED BY <1>1, <1>4, <3>1, <3>2
  <2> QED BY <2>1, <2>2
<1>6. \A j : Length(j)' = Length(j)
  BY <1>1, JobStays
<1> QED BY <1>5, <1>6 DEF FailuresCounted

(* Who makes a call that no failure spoils has its collective enqueued.    *)
LEMMA CallTogether ==
  ASSUME JobTyped, Together, NEW r, NEW i, NEW k, Called(r, i, k)
  PROVE  Together'
<1>0. PICK l : l = Len(stream[r])
  OBVIOUS
<1>1. /\ r \in Ranks /\ i = pc[r] /\ i \in 1 .. CallsOfJob /\ program[i] \in Kinds
      /\ CallsOfJob \in Nat /\ i \in Nat /\ i \in DOMAIN program
  BY ProgramKinds DEF Called
<1>2. /\ l \in Nat /\ k - 1 \in 0 .. Length(i) /\ Length(i) \in 1 .. 3 /\ pc'[r] = i + 1
      /\ \A q \in Ranks \ {r} : stream'[q] = stream[q] /\ pc'[q] = pc[q]
      /\ Len(stream'[r]) = l + (k - 1)
      /\ \A n \in 1 .. l : stream'[r][n] = stream[r][n]
      /\ \A n \in l + 1 .. l + (k - 1) :
           n - l \in 1 .. k - 1 /\ n - l \in 1 .. Length(i) /\ stream'[r][n] = Entry(i, n - l)
  <2>1. JobTyped' /\ Grown(r, i, k, l)
    BY <1>0, CalledStreams
  <2> QED BY <2>1 DEF Grown
<1>3. /\ UNCHANGED <<program, comm>>
      /\ \A j : Spoilt(j) => Spoilt(j)'
      /\ k <= Length(i) => <<r, i, k>> \in failed'
  BY CalledStays
<1>4. \A j, p : Entry(j, p)' = Entry(j, p) /\ CollectiveAt(j)' = CollectiveAt(j)
  BY <1>3, JobStays
<1>5. ASSUME NEW q \in Ranks \ {r}, NEW j PROVE Passed(q, j)' <=> Passed(q, j)
  BY <1>2, <1>4 DEF Passed
<1>6. ~Passed(r, i)
  BY <1>1 DEF Passed
<1>7. ASSUME comm, ~Spoilt(i)' PROVE ~Passed(r, i)'
  <2>1. CollectiveAt(i) \in 1 .. Length(i) /\ CollectiveAt(i) \in {1, 2}
    BY <1>1, <1>2, <1>7, StageFacts
  <2>2. CollectiveAt(i) <= k - 1
    <3>1. CASE k <= Length(i)
      <4>1. <<r, i, k>>[2] = i /\ <<r, i, k>>[3] = k
        OBVIOUS
      <4>2. ~(k <= CollectiveAt(i))
        BY <1>1, <1>3, <1>4, <1>7, <3>1, <4>1 DEF Spoilt
      <4>3. k \in 1 .. Length(i) + 1
        BY DEF Called
      <4> QED BY <1>2, <2>1, <4>2, <4>3
    <3>2. CASE ~(k <= Length(i))
      <4>1. k \in 1 .. Length(i) + 1
        BY DEF Called
      <4> QED BY <1>2, <2>1, <3>2, <4>1
    <3> QED BY <3>1, <3>2
  <2>3. PICK n : n = l + CollectiveAt(i)
    OBVIOUS
  <2>4. n \in l + 1 .. l + (k - 1) /\ n \in 1 .. l + (k - 1) /\ n - l = CollectiveAt(i)
    BY <1>2, <2>1, <2>2, <2>3
  <2>5. n \in 1 .. Len(stream'[r]) /\ stream'[r][n] = Entry(i, CollectiveAt(i))
    BY <1>2, <2>4
  <2> QED BY <1>4, <2>5 DEF Passed
<1>8. ASSUME NEW j \in 1 .. CallsOfJob, j # i PROVE Passed(r, j)' <=> Passed(r, j)
  <2>1. j < pc'[r] <=> j < pc[r]
    BY <1>1, <1>2, <1>8
  <2>2. ASSUME NEW n \in 1 .. Len(stream'[r]), stream'[r][n] = Entry(j, CollectiveAt(j))
        PROVE  n \in 1 .. l /\ stream[r][n] = Entry(j, CollectiveAt(j))
    <3>1. CASE n \in 1 .. l
      BY <1>2, <2>2, <3>1
    <3>2. CASE n \notin 1 .. l
      <4>1. n \in l + 1 .. l + (k - 1)
        BY <1>2, <3>2
      <4>2. \A c, p : Entry(c, p).call = c
        BY DEF Entry
      <4>3. stream'[r][n].call = i /\ Entry(j, CollectiveAt(j)).call = j
        BY <1>2, <4>1, <4>2
      <4> QED BY <1>8, <2>2, <4>3
    <3> QED BY <3>1, <3>2
  <2>3. \A n \in 1 .. l : n \in 1 .. Len(stream'[r]) /\ stream'[r][n] = stream[r][n]
    BY <1>2
  <2> QED BY <1>0, <1>4, <2>1, <2>2, <2>3 DEF Passed
<1>9. ASSUME comm, NEW j \in DOMAIN program, ~Spoilt(j)', NEW q \in Ranks
      PROVE  Passed(q, j)' <=> Passed(q, j)
  <2>1. j \in 1 .. CallsOfJob
    BY ProgramKinds
  <2> QED BY <1>5, <1>6, <1>7, <1>8, <1>9, <2>1
<1>10. Together' <=>
        (comm => \A j \in DOMAIN program : ~Spoilt(j)' =>
                   \A p, q \in Ranks : Passed(p, j)' => Passed(q, j)')
  BY <1>3 DEF Together
<1>11. ASSUME comm, NEW j \in DOMAIN program, ~Spoilt(j)', NEW p \in Ranks, NEW q \in Ranks,
              Passed(p, j)'
       PROVE  Passed(q, j)'
  <2>1. ~Spoilt(j) /\ Passed(p, j)
    BY <1>3, <1>9, <1>11
  <2>2. Passed(q, j)
    BY <1>11, <2>1 DEF Together
  <2> QED BY <1>9, <1>11, <2>2
<1> QED BY <1>10, <1>11

(* The first stage of a call on an idle stream needs nothing. *)
LEMMA CallHeads ==
  ASSUME JobTyped, HeadsReady, NEW r, NEW i, NEW k, Called(r, i, k)
  PROVE  HeadsReady'
<1>0. PICK l : l = Len(stream[r])
  OBVIOUS
<1>1. r \in Ranks /\ i \in 1 .. CallsOfJob
  BY DEF Called
<1>2. /\ JobTyped' /\ l \in Nat /\ k - 1 \in 0 .. Length(i) /\ Length(i) \in 1 .. 3
      /\ \A q \in Ranks \ {r} : stream'[q] = stream[q]
      /\ Len(stream'[r]) = l + (k - 1)
      /\ \A n \in 1 .. l : stream'[r][n] = stream[r][n]
      /\ \A n \in l + 1 .. l + (k - 1) :
           n - l \in 1 .. k - 1 /\ n - l \in 1 .. Length(i) /\ stream'[r][n] = Entry(i, n - l)
  <2>1. JobTyped' /\ Grown(r, i, k, l)
    BY <1>0, CalledStreams
  <2> QED BY <2>1 DEF Grown
<1>3. UNCHANGED <<program, comm, temp, out>> /\ \A j : Spoilt(j) => Spoilt(j)'
  BY CalledStays
<1> SUFFICES ASSUME NEW q \in Ranks, stream'[q] # << >>, NEW g, g = Head(stream'[q])
             PROVE  Ready(q, g.call, g.do)'
  BY DEF HeadsReady, CallOf
<1>4. ASSUME stream[q] # << >>, g = Head(stream[q]) PROVE Ready(q, g.call, g.do)'
  <2>1. Ready(q, g.call, g.do)
    BY <1>4 DEF HeadsReady, CallOf
  <2> QED BY <1>3, <2>1, ReadyStays
<1>5. CASE q # r
  BY <1>2, <1>4, <1>5
<1>6. CASE q = r /\ stream[r] # << >>
  <2>1. stream[r] \in Seq(Work) /\ stream'[r] \in Seq(Work)
    BY <1>1, <1>2 DEF JobTyped
  <2>2. 1 \in 1 .. l /\ Head(stream[r]) = stream[r][1]
    BY <1>0, <1>6, <2>1
  <2>3. Head(stream'[r]) = stream'[r][1]
    BY <1>6, <2>1
  <2> QED BY <1>2, <1>4, <1>6, <2>2, <2>3
<1>7. CASE q = r /\ stream[r] = << >>
  <2>1. stream'[r] \in Seq(Work) /\ l = 0
    BY <1>0, <1>1, <1>2, <1>7 DEF JobTyped
  <2>2. 1 \in 1 .. Len(stream'[r]) /\ Head(stream'[r]) = stream'[r][1]
    BY <1>7, <2>1
  <2>3. 1 \in l + 1 .. l + (k - 1) /\ 1 - l = 1
    BY <1>2, <2>1, <2>2
  <2>4. g = Entry(i, 1)
    BY <1>2, <1>7, <2>2, <2>3
  <2>5. g.call = i /\ g.do = Stages(program[i])[1]
    BY <2>4 DEF Entry
  <2> QED BY <1>1, <1>3, <1>7, <2>5, FirstReady
<1> QED BY <1>5, <1>6, <1>7

(* The call just made is not complete; the others are as before. *)
LEMMA CallReported ==
  ASSUME JobTyped, ReducedOrReported, NEW r, NEW i, NEW k, Called(r, i, k)
  PROVE  ReducedOrReported'
<1>0. PICK l : l = Len(stream[r])
  OBVIOUS
<1>1. /\ r \in Ranks /\ i \in 1 .. CallsOfJob /\ i = pc[r] /\ k \in 1 .. Length(i) + 1
      /\ CallsOfJob \in Nat
  BY ProgramKinds DEF Called
<1>2. /\ JobTyped' /\ l \in Nat /\ k - 1 \in 0 .. Length(i) /\ Length(i) \in 1 .. 3
      /\ pc'[r] = i + 1
      /\ \A q \in Ranks \ {r} : stream'[q] = stream[q] /\ pc'[q] = pc[q]
      /\ Len(stream'[r]) = l + (k - 1)
      /\ \A n \in 1 .. l : stream'[r][n] = stream[r][n]
      /\ \A n \in l + 1 .. l + (k - 1) :
           n - l \in 1 .. k - 1 /\ n - l \in 1 .. Length(i) /\ stream'[r][n] = Entry(i, n - l)
  <2>1. JobTyped' /\ Grown(r, i, k, l)
    BY <1>0, CalledStreams
  <2> QED BY <2>1 DEF Grown
<1>3. /\ UNCHANGED <<program, comm, temp, out>> /\ \A j : Spoilt(j) => Spoilt(j)'
      /\ \A q, j : FailedIn(q, j) => FailedIn(q, j)'
      /\ k <= Length(i) => FailedIn(r, i)'
  BY CalledStays
<1>4. \A q, j : Promised(q, j)' = Promised(q, j)
  BY <1>3, JobStays
<1> SUFFICES ASSUME NEW q \in Ranks, NEW j \in 1 .. CallsOfJob, Complete(q, j)'
             PROVE  out[q][j] = Promised(q, j) \/ Spoilt(j)'
  BY <1>3, <1>4, ProgramKinds DEF ReducedOrReported
<1>5. /\ j < pc'[q] /\ ~FailedIn(q, j)'
      /\ \A n \in 1 .. Len(stream'[q]) : stream'[q][n].call # j
  BY <1>2, CompleteNext
<1>6. ASSUME Complete(q, j) PROVE out[q][j] = Promised(q, j) \/ Spoilt(j)'
  BY <1>3, <1>6, ProgramKinds DEF ReducedOrReported
<1>7. CASE q # r
  BY <1>2, <1>3, <1>5, <1>6, <1>7, CompleteIs
<1>8. CASE q = r /\ j # i
  <2>1. j < pc[r]
    BY <1>1, <1>2, <1>5, <1>8
  <2>2. \A n \in 1 .. l : n \in 1 .. Len(stream'[r]) /\ stream'[r][n] = stream[r][n]
    BY <1>2
  <2> QED BY <1>0, <1>3, <1>5, <1>6, <1>8, <2>1, <2>2, CompleteIs
<1>9. CASE q = r /\ j = i
  <2>1. CASE k - 1 \in Nat \ {0}
    <3>1. l + 1 \in l + 1 .. l + (k - 1) /\ l + 1 \in 1 .. l + (k - 1)
      <4>1. \A a \in Nat, m \in Nat \ {0} : a + 1 \in a + 1 .. a + m /\ a + 1 \in 1 .. a + m
        OBVIOUS
      <4> QED BY <1>2, <2>1, <4>1
    <3>2. stream'[r][l + 1].call = i
      <4>1. \A p : Entry(i, p).call = i
        BY DEF Entry
      <4> QED BY <1>2, <3>1, <4>1
    <3> QED BY <1>2, <1>5, <1>9, <3>1, <3>2
  <2>2. CASE k - 1 = 0
    <3>1. k <= Length(i)
      BY <1>1, <1>2, <2>2
    <3> QED BY <1>3, <1>5, <1>9, <3>1
  <2> QED BY <1>2, <2>1, <2>2
<1> QED BY <1>7, <1>8, <1>9

(* A host call keeps all of it. *)
LEMMA CallSafe ==
  ASSUME JobInv, NEW r \in Ranks, NEW k, Call(r, k)
  PROVE  JobInv'
<1>1. PICK i : Called(r, i, k)
  BY CallIs DEF JobInv
<1>2. UNCHANGED <<program, comm, temp, out>> /\ JobTyped'
  BY <1>1, CalledStays, CalledStreams DEF JobInv
<1>3. OutTyped' /\ DOMAIN out' = Ranks
  BY <1>2 DEF JobInv, OutTyped
<1>4. StagesInOrder' /\ FailuresCounted'
  BY <1>1, CallOrder, CallCounted DEF JobInv
<1>5. Together' /\ HeadsReady' /\ ReducedOrReported'
  BY <1>1, CallTogether, CallHeads, CallReported DEF JobInv
<1> QED BY <1>2, <1>3, <1>4, <1>5 DEF JobInv

(* A job that has not begun owes nothing. *)
LEMMA InitSafe ==
  ASSUME Init
  PROVE  JobInv
<1>1. /\ program \in Programs /\ pc = [r \in Ranks |-> 1] /\ failed = {}
      /\ stream = [r \in Ranks |-> << >>]
      /\ out = [r \in Ranks |-> [i \in DOMAIN program |-> [normed |-> FALSE, x |-> Nothing]]]
  BY DEF Init
<1>2. JobTyped
  BY <1>1, CallsAssumption DEF JobTyped
<1>3. StagesInOrder /\ HeadsReady
  BY <1>1 DEF StagesInOrder, HeadsReady
<1>4. FailuresCounted
  BY <1>1 DEF FailuresCounted
<1>5. DOMAIN out = Ranks /\ OutTyped
  BY <1>1 DEF OutTyped
<1>6. DOMAIN program = 1 .. CallsOfJob /\ CallsOfJob \in Nat
  BY <1>2, ProgramKinds
<1>7. \A r \in Ranks, i \in DOMAIN program : ~Passed(r, i) /\ ~Complete(r, i)
  BY <1>1, <1>6 DEF Passed, Complete
<1> QED BY <1>2, <1>3, <1>4, <1>5, <1>7 DEF JobInv, Together, ReducedOrReported

(* The operators across ranks give what they promise, or a rank reported   *)
(* an error before the collective.                                         *)
THEOREM PromisesKept == Spec => []ReducedOrReported
<1>1. Init => JobInv
  BY InitSafe
<1>2. JobInv /\ [Next]_vars => JobInv'
  <2> SUFFICES ASSUME JobInv, [Next]_vars PROVE JobInv'
    OBVIOUS
  <2>1. CASE UNCHANGED collectives
    BY <2>1, RestSafe
  <2>2. ASSUME NEW r \in Ranks, NEW k \in 1 .. 4, Call(r, k) PROVE JobInv'
    BY <2>2, CallSafe
  <2>3. ASSUME NEW r \in Ranks, Device(r) PROVE JobInv'
    BY <2>3, DeviceSafe
  <2>4. CASE AllReduce \/ ReduceScatter \/ AllGather \/ AlltoAll
    BY <2>4, CollectSafe
  <2> QED BY <2>1, <2>2, <2>3, <2>4 DEF Next, vars
<1>3. JobInv => ReducedOrReported
  BY DEF JobInv
<1> QED BY <1>1, <1>2, <1>3, PTL DEF Spec
=============================================================================
