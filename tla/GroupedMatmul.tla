--------------------------- MODULE GroupedMatmul ---------------------------
(***************************************************************************)
(* aclnnGroupedMatmul and aclnnGroupedMatmulWeightList (matmul.cu): one    *)
(* GEMM per expert, spread over a pool of streams that all calls of the    *)
(* process share, between a fork event on the caller's stream and one join *)
(* event per pool stream.  The host enqueues all of it without waiting for *)
(* the device, which meanwhile runs what is there.                         *)
(*                                                                         *)
(* A caller's stream carries the kernel that produces the input, then the  *)
(* grouped matmul, then the kernel that reads the output; the caller does  *)
(* this for each of its group lists, with the same workspace.              *)
(***************************************************************************)
EXTENDS CudaStreams, Integers

CONSTANTS
  Callers,       \* host threads; each has a stream of its own, of its name
  NS,            \* GMM_NS: streams in the pool
  Programs       \* [ready, lists]: has an earlier call filled the pool;
                 \* caller -> the group lists of its calls, one after another

ASSUME PoolAssumption == NS \in Nat \ {0}
ASSUME ProgramsAssumption ==
  Programs \subseteq [ready : BOOLEAN, lists : [Callers -> Seq(Seq(Nat))]]

Slots == 0 .. NS - 1
PoolStreams == {<<"pool", i>> : i \in Slots}
Pool(i) == <<"pool", i>>
Null == <<"legacy">>    \* stream 0, what a null cudaStream_t stands for
StreamOf(h) == <<"user", h>>
UserStreams == {StreamOf(h) : h \in Callers}
Fork(h) == <<"fork", h>>
Join(h, i) == <<"join", h, i>>

ASSUME DeviceAssumption ==
  /\ UserStreams \cup PoolStreams \cup {Null} \subseteq Streams
  /\ \A h \in Callers : Fork(h) \in Events /\ \A k \in Slots : Join(h, k) \in Events

VARIABLES
  pool,    \* the static vector p: slot -> has its stream been created; <<>> if empty
  at,      \* caller -> the statement it is at
  i,       \* caller -> loop index of the statement
  off,     \* caller -> first row of the next group
  st,      \* caller -> the status so far
  todo     \* caller -> the group lists of this call and of those to come

hostVars == <<pool, at, i, off, st, todo>>
vars == <<cudaVars, hostVars>>

Empty == [k \in {} |-> FALSE]
Full(v) == [k \in Slots |-> v]

Init ==
  /\ CudaInit
  /\ \E p \in Programs :
       /\ pool = IF p.ready THEN Full(TRUE) ELSE Empty
       /\ todo = p.lists
  /\ at = [h \in Callers |-> IF todo[h] = <<>> THEN "end" ELSE "produce"]
  /\ i = [h \in Callers |-> 0]
  /\ off = [h \in Callers |-> 0]
  /\ st = [h \in Callers |-> "ok"]

(* Caller h goes on to statement l, its loop index starting at zero; or it *)
(* takes the next turn of its loop of n turns, and after the last goes on. *)
Goto(h, l) == at' = [at EXCEPT ![h] = l] /\ i' = [i EXCEPT ![h] = 0]
Loop(h, n, l) ==
  IF i[h] + 1 < n THEN i' = [i EXCEPT ![h] = @ + 1] /\ UNCHANGED at ELSE Goto(h, l)

(* The stream the host finds in a slot of the vector. *)
Slot(k) == IF pool[k] THEN Pool(k) ELSE Null

Groups(h) == Head(todo[h])

(* The rows of the first groups of a list, for each number of groups. *)
RowsBefore(groups) ==
  LET sum[n \in 0 .. Len(groups)] == IF n = 0 THEN 0 ELSE sum[n - 1] + groups[n]
  IN  sum
Rows(h) == RowsBefore(Groups(h))[Len(Groups(h))]
Produced(h) == [of |-> h, nth |-> Len(todo[h]), does |-> "produce"]
Consumed(h) ==
  [of |-> h, nth |-> Len(todo[h]), does |-> "consume",
   rows |-> 0 .. Rows(h) - 1]
Gemm(h, g, ps, lo, hi) ==
  [of |-> h, nth |-> Len(todo[h]), does |-> "gemm", group |-> g, slice |-> ps,
   rows |-> lo .. hi - 1]

-----------------------------------------------------------------------------
(* The program launches the kernel that writes x, then calls. *)
Produce(h) ==
  /\ at[h] = "produce"
  /\ Launch(StreamOf(h), Produced(h))
  /\ Goto(h, "empty?")
  /\ UNCHANGED <<pool, off, st, todo>>

(* grouped_streams(): if (p.empty()) *)
TestEmpty(h) ==
  /\ at[h] = "empty?"
  /\ Goto(h, IF pool = Empty THEN "resize" ELSE "fork")
  /\ UNCHANGED <<cudaVars, pool, off, st, todo>>

(* p.resize(GMM_NS): GMM_NS null streams. *)
Resize(h) ==
  /\ at[h] = "resize"
  /\ pool' = Full(FALSE)
  /\ Goto(h, "create")
  /\ UNCHANGED <<cudaVars, off, st, todo>>

(* for (auto &x : p) cudaStreamCreate(&x) *)
CreateStream(h) ==
  /\ at[h] = "create"
  /\ pool' = [pool EXCEPT ![i[h]] = TRUE]
  /\ Loop(h, NS, "fork")
  /\ UNCHANGED <<cudaVars, off, st, todo>>

(* The fork event, recorded on the caller's stream ... *)
ForkRecord(h) ==
  /\ at[h] = "fork"
  /\ EventRecord(Fork(h), StreamOf(h))
  /\ Goto(h, "forkWait")
  /\ off' = [off EXCEPT ![h] = 0]
  /\ st' = [st EXCEPT ![h] = "ok"]
  /\ UNCHANGED <<pool, todo>>

MutantForkedSlots == NS - 1
ForkedSlots == NS

(* ... and awaited by every stream of the pool. *)
ForkWait(h) ==
  /\ at[h] = "forkWait"
  /\ StreamWaitEvent(Slot(i[h]), Fork(h))
  /\ Loop(h, ForkedSlots, IF Groups(h) = <<>> THEN "join" ELSE "gemm")
  /\ UNCHANGED <<pool, off, st, todo>>

MutantStreamOfGroup(g) == (g \div 2) % NS
StreamOfGroup(g) == g % NS
SliceOfGroup(g) == g % NS

NextOff(h, r) == off[h] + r

Size(h) == Groups(h)[i[h] + 1]

(* One group: its GEMM goes to the stream and the workspace slice of its   *)
(* number; an empty group is skipped.                                      *)
LaunchGroup(h) ==
  LET r == Size(h)
      g == i[h]
  IN  /\ at[h] = "gemm"
      /\ IF r > 0
         THEN Launch(Slot(StreamOfGroup(g)),
                     Gemm(h, g, SliceOfGroup(g), off[h], off[h] + r))
         ELSE UNCHANGED cudaVars
      /\ off' = [off EXCEPT ![h] = NextOff(h, r)]
      /\ Loop(h, Len(Groups(h)), "join")
      /\ UNCHANGED <<pool, st, todo>>

MutantGroupFails(h) ==
  /\ at[h] = "gemm" /\ Size(h) > 0
  /\ st' = [st EXCEPT ![h] = "error"]
  /\ Goto(h, "return")
  /\ UNCHANGED <<cudaVars, pool, off, todo>>

(* gemm_rm refuses a group: the loop goes on, the status remembers. *)
GroupFails(h) ==
  /\ at[h] = "gemm" /\ Size(h) > 0
  /\ st' = [st EXCEPT ![h] = "error"]
  /\ off' = [off EXCEPT ![h] = NextOff(h, Size(h))]
  /\ Loop(h, Len(Groups(h)), "join")
  /\ UNCHANGED <<cudaVars, pool, todo>>

MutantJoinedSlots == NS - 1
JoinedSlots == NS

(* Join: an event on each pool stream, which the caller's stream awaits.   *)
(* The event is the turn's own, so the two calls of a turn are one step.   *)
JoinTurn(h) ==
  /\ at[h] = "join"
  /\ RecordThenWait(Join(h, i[h]), Slot(i[h]), StreamOf(h))
  /\ Loop(h, JoinedSlots, "return")
  /\ UNCHANGED <<pool, off, st, todo>>

(* The call returns st; the program launches the kernel that reads out. *)
Return(h) ==
  /\ at[h] = "return"
  /\ IF st[h] = "ok" THEN Launch(StreamOf(h), Consumed(h)) ELSE UNCHANGED cudaVars
  /\ Goto(h, IF Len(todo[h]) > 1 THEN "produce" ELSE "end")
  /\ todo' = [todo EXCEPT ![h] = Tail(@)]
  /\ UNCHANGED <<pool, off, st>>

HostStep(h) ==
  \/ Produce(h) \/ TestEmpty(h) \/ Resize(h) \/ CreateStream(h)
  \/ ForkRecord(h) \/ ForkWait(h) \/ LaunchGroup(h) \/ GroupFails(h)
  \/ JoinTurn(h) \/ Return(h)

Device == \E s \in Streams : DeviceStep(s) /\ UNCHANGED hostVars

Next == Device \/ \E h \in Callers : HostStep(h)

Spec == Init /\ [][Next]_vars

-----------------------------------------------------------------------------
TypeOK ==
  /\ \A s \in Streams : \A k \in DOMAIN queue[s] :
       queue[s][k].type \in {"kernel", "record", "wait"}
  /\ busy \in [Streams -> BOOLEAN]
  /\ recorded \in [Events -> Nat] /\ reached \in [Events -> Nat]
  /\ pool \in {Empty} \cup [Slots -> BOOLEAN]
  /\ i \in [Callers -> Nat] /\ off \in [Callers -> Nat]
  /\ \A h \in Callers : at[h] \in {"gemm", "join"} => off[h] <= Rows(h)
  /\ st \in [Callers -> {"ok", "error"}]
  /\ \E p \in Programs : \A h \in Callers :
       \E n \in 0 .. Len(p.lists[h]) : todo[h] = SubSeq(p.lists[h], n + 1, Len(p.lists[h]))
  /\ \A h \in Callers : at[h] = "end" <=> todo[h] = <<>>

Produces(k) == [of |-> k.of, nth |-> k.nth, does |-> "produce"]

(* No GEMM reads x before the caller's earlier work has written it,        *)
(* whichever pool stream it runs on.                                       *)
InputsReady ==
  \A k \in Running : k.does = "gemm" => Produces(k) \in finished

Done(h, n) == {k \in finished : k.does = "gemm" /\ k.of = h /\ k.nth = n}

(* The kernel after the call finds every row of out written, each by one   *)
(* GEMM, and no GEMM of the call still running.                            *)
OutputsReady ==
  \A k \in Running : k.does = "consume" =>
    LET gemms == Done(k.of, k.nth)
    IN  /\ UNION {g.rows : g \in gemms} = k.rows
        /\ \A g1, g2 \in gemms : g1 # g2 => g1.rows \cap g2.rows = {}
        /\ \A g \in Running : ~(g.does = "gemm" /\ g.of = k.of)

(* Two GEMMs that run at once never share a slice of a workspace: neither  *)
(* two of one call nor those of successive calls on the same workspace.    *)
SlicesExclusive ==
  \A k1, k2 \in Running :
    k1.does = "gemm" /\ k2.does = "gemm" /\ k1 # k2
      => ~(k1.of = k2.of /\ k1.slice = k2.slice)

(* Kernels enqueued that are not over. *)
Pending == UNION {{queue[s][k].kernel : k \in {n \in DOMAIN queue[s] : queue[s][n].type = "kernel"}}
                  : s \in Streams}

(* A caller whose stream has drained may free the operands of every call   *)
(* that has returned, also of one that returned an error because a group   *)
(* was refused: no GEMM of it is running or still to run in the pool.      *)
DrainedIsOver ==
  \A h \in Callers : queue[StreamOf(h)] = <<>> =>
    \A k \in Pending : k.does = "gemm" /\ k.of = h => k.nth <= Len(todo[h])

(* "C++11 magic-static thread-safe initialization" (matmul.cu:878): a      *)
(* caller past grouped_streams() finds every stream of the pool created.   *)
ThreadSafeInit ==
  \A h \in Callers :
    at[h] \in {"fork", "forkWait", "gemm", "join", "return"}
      => pool # Empty /\ \A k \in Slots : pool[k]
=============================================================================
