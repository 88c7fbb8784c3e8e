---------------------------- MODULE MetalStreams ----------------------------
(***************************************************************************)
(* Streams, events, host-side operators and graph replay of the Metal back *)
(* end (metal/src/runtime.mm, capture.mm and the entry points of ops/).    *)
(*                                                                         *)
(* A stream is a command queue and the last command buffer committed to    *)
(* it.  Operators with a Metal kernel commit and return; the others drain  *)
(* the stream and compute on the host over the shared memory.  Copies,     *)
(* events and aclrtSynchronizeDevice ignore the streams.  A graph is a     *)
(* tape of operators, each with clones of its tensors, run again one by    *)
(* one.                                                                    *)
(*                                                                         *)
(* One host thread runs a program that is free of races under the rules it *)
(* relies on: it touches a buffer only in an order those rules give.  Next *)
(* to the memory the module keeps the memory the program expects, where    *)
(* every call takes effect at once.                                        *)
(***************************************************************************)
EXTENDS Naturals, Sequences, SequencesExt, TLC

CONSTANTS
  Queues,     \* streams, each a command queue
  Tensors,    \* descriptors the program holds, each of one buffer at a time
  Bufs,       \* device buffers
  NVals,      \* bound: contents of a buffer are 0 .. NVals - 1
  Ids,        \* names for the operators not yet known to be over
  MetalEvents, \* aclrtEvents
  MaxTape,    \* bound: operators on all the tapes and in the model
  Relies      \* what the program relies on besides the order of a stream
              \* and aclrtSynchronizeStream: "events", "device"

ASSUME BoundsAssumption == NVals \in Nat \ {0} /\ MaxTape \in Nat
ASSUME ReliesAssumption == Relies \subseteq {"events", "device"}

Nil == "nil"
ASSUME IdsAssumption == Nil \notin Ids
ASSUME RefAssumption == Bufs \cap Tensors = {}   \* a buffer is no descriptor

VARIABLES
  data,       \* tensor -> its buffer
  mem,        \* buffer -> contents
  committed,  \* stream -> command buffers committed and not completed
  last,       \* stream -> the command buffer its field last holds
  capturing,  \* stream -> is it being captured
  tape,       \* stream -> the tape under recording
  graph,      \* the tape of the model the program holds
  want,       \* buffer -> what the program expects in it (history)
  users,      \* buffer -> operators on it the host does not know over (history)
  order,      \* stream -> operators its next one comes after (history)
  marks       \* event -> operators before its record (history)

code == <<data, mem, committed, last, capturing, tape, graph>>
belief == <<want, users, order, marks>>
mvars == <<code, belief>>

Vals == 0 .. NVals - 1
Command == [id : Ids, src : Bufs, dst : Bufs]
Ref == Bufs \cup Tensors
Entry == [src : Ref, dst : Ref, asked : Bufs \X Bufs]

(* The operators compute y = F(x). *)
F(v) == (v + 1) % NVals
Apply(m, src, dst) == [m EXCEPT ![dst] = F(m[src])]

MInit ==
  /\ data \in [Tensors -> Bufs]
  /\ mem = [b \in Bufs |-> 0]
  /\ committed = [s \in Queues |-> <<>>]
  /\ last = [s \in Queues |-> Nil]
  /\ capturing = [s \in Queues |-> FALSE]
  /\ tape = [s \in Queues |-> <<>>]
  /\ graph = <<>>
  /\ want = mem
  /\ users = [b \in Bufs |-> {}]
  /\ order = [s \in Queues |-> {}]
  /\ marks = [e \in MetalEvents |-> {}]

-----------------------------------------------------------------------------
(* The program's side: what it may do next, and what it expects of it.     *)
Known == (UNION {users[b] : b \in Bufs}) \cup (UNION {order[s] : s \in Queues})
           \cup (UNION {marks[e] : e \in MetalEvents})
InFlight == UNION {{committed[s][k].id : k \in DOMAIN committed[s]} : s \in Queues}
Fresh == Ids \ (Known \cup InFlight \cup {last[s] : s \in Queues})

MayUse(s, bs) == (UNION {users[b] : b \in bs}) \subseteq order[s]
HostMayUse(bs) == (UNION {users[b] : b \in bs}) = {}

Use(s, bs, id) ==
  /\ users' = [b \in Bufs |-> IF b \in bs THEN users[b] \cup {id} ELSE users[b]]
  /\ order' = [order EXCEPT ![s] = @ \cup {id}]
  /\ UNCHANGED marks

(* The host knows that the operators of the set are over. *)
Over(ids) ==
  /\ users' = [b \in Bufs |-> users[b] \ ids]
  /\ order' = [s \in Queues |-> order[s] \ ids]
  /\ marks' = [e \in MetalEvents |-> marks[e] \ ids]

-----------------------------------------------------------------------------
(* Statements of the code.  Operators named Mutant... are bugs it could    *)
(* have; a run replaces the operator that follows one by it.               *)

(* [cb commit]; s->last = cb *)
MutantLastForgotten(s, cs) ==
  committed' = [committed EXCEPT ![s] = @ \o cs] /\ UNCHANGED last
Commit(s, cs) ==
  /\ committed' = [committed EXCEPT ![s] = @ \o cs]
  /\ last' = [last EXCEPT ![s] = cs[Len(cs)].id]

(* if (s->last) [s->last waitUntilCompleted] returns. *)
Drained(s) == \A k \in DOMAIN committed[s] : committed[s][k].id # last[s]

(* clone_tensor: the metadata is copied, the data pointer kept. *)
MutantClone(t) == t
Clone(t) == data[t]
Recorded == Len(graph) + FoldFunction(LAMBDA r, n : Len(r) + n, 0, tape)
Resolve(r) == IF r \in Tensors THEN data[r] ELSE r

-----------------------------------------------------------------------------
(* The descriptor is destroyed and another made at its address. *)
Recreate(t, b) ==
  /\ data' = [data EXCEPT ![t] = b]
  /\ UNCHANGED <<mem, committed, last, capturing, tape, graph, belief>>

(* An operator with a kernel: one without the capture hook on any stream,   *)
(* one with the hook when the stream is not being captured.                *)
LaunchKernel(s, x, y) ==
  /\ MayUse(s, {data[x], data[y]})
  /\ \E id \in Fresh :
       /\ Commit(s, <<[id |-> id, src |-> data[x], dst |-> data[y]]>>)
       /\ Use(s, {data[x], data[y]}, id)
  /\ want' = Apply(want, data[x], data[y])
  /\ UNCHANGED <<data, mem, capturing, tape, graph>>

(* An operator computed on the host, or on the default queue and waited    *)
(* for: it drains its stream first, captured or not.                       *)
HostOp(s, x, y) ==
  /\ MayUse(s, {data[x], data[y]})
  /\ Drained(s)
  /\ mem' = Apply(mem, data[x], data[y])
  /\ \E id \in Fresh : Use(s, {data[x], data[y]}, id)
  /\ want' = Apply(want, data[x], data[y])
  /\ UNCHANGED <<data, committed, last, capturing, tape, graph>>

(* An operator without a stream: committed to the default queue, which     *)
(* nothing else uses, and waited for.                                      *)
DefaultStreamOp(x, y) ==
  /\ HostMayUse({data[x], data[y]})
  /\ mem' = Apply(mem, data[x], data[y])
  /\ want' = Apply(want, data[x], data[y])
  /\ UNCHANGED <<data, committed, last, capturing, tape, graph, users, order, marks>>

(* aclrtMemcpy, aclrtMemset and their Async forms: done at once. *)
HostWrite(b, v) ==
  /\ HostMayUse({b})
  /\ mem' = [mem EXCEPT ![b] = v]
  /\ want' = [want EXCEPT ![b] = v]
  /\ UNCHANGED <<data, committed, last, capturing, tape, graph, users, order, marks>>

(* aclrtSynchronizeStream; aclrtLaunchCallback waits alike, then calls. *)
SynchronizeStream(s) ==
  /\ Drained(s)
  /\ Over(order[s])
  /\ UNCHANGED <<code, want>>

(* aclrtSynchronizeDevice returns at once. *)
SynchronizeDevice ==
  /\ Over(IF "device" \in Relies THEN Known ELSE {})
  /\ UNCHANGED <<code, want>>

(* aclrtRecordEvent and aclrtStreamWaitEvent return at once. *)
RecordEvent(e, s) ==
  /\ marks' = [marks EXCEPT ![e] = IF "events" \in Relies THEN order[s] ELSE {}]
  /\ UNCHANGED <<code, want, users, order>>

AwaitEvent(s, e) ==
  /\ order' = [order EXCEPT ![s] = @ \cup marks[e]]
  /\ UNCHANGED <<code, want, users, marks>>

-----------------------------------------------------------------------------
(* aclmdlRICaptureBegin drains the stream and starts a tape; one that was  *)
(* being recorded is dropped.                                              *)
CaptureBegin(s) ==
  /\ Drained(s)
  /\ capturing' = [capturing EXCEPT ![s] = TRUE]
  /\ tape' = [tape EXCEPT ![s] = <<>>]
  /\ UNCHANGED <<data, mem, committed, last, graph, belief>>

(* An operator with the capture hook, on a stream being captured: it is    *)
(* put on the tape and not run.                                            *)
CaptureRecord(s, x, y) ==
  /\ capturing[s] /\ Recorded < MaxTape
  /\ tape' = [tape EXCEPT ![s] =
                Append(@, [src |-> Clone(x), dst |-> Clone(y),
                           asked |-> <<data[x], data[y]>>])]
  /\ UNCHANGED <<data, mem, committed, last, capturing, graph, belief>>

(* capgraph = nullptr *)
TapeDropped(s) == [tape EXCEPT ![s] = <<>>]

(* The program keeps the model, or passes no place for it. *)
CaptureEnd(s) ==
  /\ capturing[s]
  /\ capturing' = [capturing EXCEPT ![s] = FALSE]
  /\ graph' \in {tape[s], graph}
  /\ tape' = TapeDropped(s)
  /\ UNCHANGED <<data, mem, committed, last, belief>>

(* Operators applied one after the other. *)
InTurn(m, cs) ==
  LET at[k \in 0 .. Len(cs)] ==
        IF k = 0 THEN m ELSE Apply(at[k - 1], cs[k].src, cs[k].dst)
  IN  at[Len(cs)]

(* The entries of the model as they run now, and as they were called. *)
Resolved ==
  [k \in 1 .. Len(graph) |-> [src |-> Resolve(graph[k].src), dst |-> Resolve(graph[k].dst)]]
Asked ==
  [k \in 1 .. Len(graph) |-> [src |-> graph[k].asked[1], dst |-> graph[k].asked[2]]]

GraphBufs == UNION {{graph[k].asked[1], graph[k].asked[2]} : k \in DOMAIN graph}

(* aclmdlRIExecuteAsync: every entry of the tape is launched in turn. *)
ExecuteAsync(s) ==
  LET n == Len(graph)
  IN  /\ graph # <<>> /\ ~capturing[s] /\ MayUse(s, GraphBufs)
      /\ \E id \in Fresh :
           /\ Commit(s, [k \in 1 .. n |-> [id |-> id, src |-> Resolve(graph[k].src),
                                           dst |-> Resolve(graph[k].dst)]])
           /\ Use(s, GraphBufs, id)
      /\ want' = InTurn(want, Asked)
      /\ UNCHANGED <<data, mem, capturing, tape, graph>>

(* aclmdlRIExecute: the same without a stream, each entry waited for. *)
Execute ==
  /\ graph # <<>> /\ HostMayUse(GraphBufs)
  /\ mem' = InTurn(mem, Resolved)
  /\ want' = InTurn(want, Asked)
  /\ UNCHANGED <<data, committed, last, capturing, tape, graph, users, order, marks>>

(* ExecuteAsync on a stream being captured: the entries go on its tape. *)
ExecuteCaptured(s) ==
  /\ graph # <<>> /\ capturing[s] /\ Recorded + Len(graph) <= MaxTape
  /\ tape' = [tape EXCEPT ![s] = @ \o graph]
  /\ UNCHANGED <<data, mem, committed, last, capturing, graph, belief>>

(* The GPU completes the command buffer at the head of a queue. *)
Complete(s) ==
  /\ committed[s] # <<>>
  /\ mem' = Apply(mem, Head(committed[s]).src, Head(committed[s]).dst)
  /\ committed' = [committed EXCEPT ![s] = Tail(@)]
  /\ UNCHANGED <<data, last, capturing, tape, graph, belief>>

MNext ==
  \/ \E t \in Tensors, b \in Bufs : Recreate(t, b)
  \/ \E x, y \in Tensors : DefaultStreamOp(x, y)
  \/ \E b \in Bufs, v \in Vals : HostWrite(b, v)
  \/ SynchronizeDevice \/ Execute
  \/ \E s \in Queues :
       \/ \E x, y \in Tensors : LaunchKernel(s, x, y) \/ HostOp(s, x, y) \/ CaptureRecord(s, x, y)
       \/ \E e \in MetalEvents : RecordEvent(e, s) \/ AwaitEvent(s, e)
       \/ SynchronizeStream(s)
       \/ CaptureBegin(s) \/ CaptureEnd(s)
       \/ ExecuteAsync(s) \/ ExecuteCaptured(s)
       \/ Complete(s)

MSpec == MInit /\ [][MNext]_mvars

-----------------------------------------------------------------------------
MTypeOK ==
  /\ data \in [Tensors -> Bufs] /\ mem \in [Bufs -> Vals] /\ want \in [Bufs -> Vals]
  /\ \A s \in Queues : \A k \in DOMAIN committed[s] : committed[s][k] \in Command
  /\ last \in [Queues -> Ids \cup {Nil}]
  /\ capturing \in [Queues -> BOOLEAN]
  /\ \A s \in Queues : \A k \in DOMAIN tape[s] : capturing[s] /\ tape[s][k] \in Entry
  /\ users \in [Bufs -> SUBSET Ids] /\ order \in [Queues -> SUBSET Ids]
  /\ marks \in [MetalEvents -> SUBSET Ids]

(* A buffer whose operators the program knows to be over holds what it     *)
(* would hold if every call, replays of a graph included, had taken effect *)
(* at once: "program-order correctness already holds" (runtime.mm:106).     *)
ProgramOrder == \A b \in Bufs : users[b] = {} => mem[b] = want[b]

(* Waiting for the field last drains the whole stream, however operators,  *)
(* replays and host fallbacks have taken turns on it.                      *)
LastDrains == \A s \in Queues : Drained(s) => committed[s] = <<>>

(* Nothing tells one stream, buffer, tensor or operator name from another. *)
Symmetric ==
  Permutations(Ids) \cup Permutations(Queues) \cup Permutations(Bufs) \cup Permutations(Tensors)
=============================================================================
