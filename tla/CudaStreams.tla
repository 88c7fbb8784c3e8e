---------------------------- MODULE CudaStreams ----------------------------
(***************************************************************************)
(* The streams and events of the CUDA runtime, as far as the code leans on *)
(* them.  A stream runs its items one at a time in the order they were     *)
(* enqueued; streams run concurrently.  Recording an event marks a point   *)
(* of a stream; a wait holds its stream until the record that was the      *)
(* latest when the wait was enqueued has been reached, and is nothing if   *)
(* there was none.  aclrtRecordEvent, aclrtStreamWaitEvent and the kernel  *)
(* launches of cuda/src forward to these operations unchanged.             *)
(***************************************************************************)
EXTENDS Naturals, Sequences

CONSTANTS
  Streams,   \* all streams of the device
  Events     \* all events

VARIABLES
  queue,      \* stream -> the items enqueued and not yet over
  busy,       \* stream -> is the kernel at its head running
  recorded,   \* event -> how many records of it were enqueued
  reached,    \* event -> the latest record of it the device has reached
  finished    \* the kernels that are over

cudaVars == <<queue, busy, recorded, reached, finished>>

Kernel(k) == [type |-> "kernel", kernel |-> k]
Record(e, n) == [type |-> "record", event |-> e, nth |-> n]
Wait(e, n) == [type |-> "wait", event |-> e, nth |-> n]

CudaInit ==
  /\ queue = [s \in Streams |-> <<>>]
  /\ busy = [s \in Streams |-> FALSE]
  /\ recorded = [e \in Events |-> 0]
  /\ reached = [e \in Events |-> 0]
  /\ finished = {}

Enqueue(s, item) == queue' = [queue EXCEPT ![s] = Append(@, item)]

-----------------------------------------------------------------------------
(* What the host calls. *)
Launch(s, k) ==
  Enqueue(s, Kernel(k)) /\ UNCHANGED <<busy, recorded, reached, finished>>

EventRecord(e, s) ==
  /\ recorded' = [recorded EXCEPT ![e] = @ + 1]
  /\ Enqueue(s, Record(e, recorded[e] + 1))
  /\ UNCHANGED <<busy, reached, finished>>

StreamWaitEvent(s, e) ==
  Enqueue(s, Wait(e, recorded[e])) /\ UNCHANGED <<busy, recorded, reached, finished>>

(* An event recorded on stream s and then awaited by stream t, another. *)
RecordThenWait(e, s, t) ==
  /\ recorded' = [recorded EXCEPT ![e] = @ + 1]
  /\ queue' = [queue EXCEPT ![s] = Append(@, Record(e, recorded[e] + 1)),
                            ![t] = Append(@, Wait(e, recorded[e] + 1))]
  /\ UNCHANGED <<busy, reached, finished>>

-----------------------------------------------------------------------------
(* What the device does. *)
AtHead(s, type) == queue[s] # <<>> /\ Head(queue[s]).type = type

Start(s) ==
  /\ AtHead(s, "kernel") /\ ~busy[s]
  /\ busy' = [busy EXCEPT ![s] = TRUE]
  /\ UNCHANGED <<queue, recorded, reached, finished>>

Finish(s) ==
  /\ busy[s]
  /\ busy' = [busy EXCEPT ![s] = FALSE]
  /\ finished' = finished \cup {Head(queue[s]).kernel}
  /\ queue' = [queue EXCEPT ![s] = Tail(@)]
  /\ UNCHANGED <<recorded, reached>>

Reach(s) ==
  /\ AtHead(s, "record")
  /\ reached' = [reached EXCEPT ![Head(queue[s]).event] = Head(queue[s]).nth]
  /\ queue' = [queue EXCEPT ![s] = Tail(@)]
  /\ UNCHANGED <<busy, recorded, finished>>

Pass(s) ==
  /\ AtHead(s, "wait")
  /\ reached[Head(queue[s]).event] >= Head(queue[s]).nth
  /\ queue' = [queue EXCEPT ![s] = Tail(@)]
  /\ UNCHANGED <<busy, recorded, reached, finished>>

DeviceStep(s) == Start(s) \/ Finish(s) \/ Reach(s) \/ Pass(s)

Running == {Head(queue[s]).kernel : s \in {x \in Streams : busy[x]}}
=============================================================================
