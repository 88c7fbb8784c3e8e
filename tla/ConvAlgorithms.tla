--------------------------- MODULE ConvAlgorithms ---------------------------
(***************************************************************************)
(* The cache of convolution algorithms (cuda/src/ops/conv.cu): the first   *)
(* call of a shape selects an algorithm and caches it, later calls take it *)
(* from there.  The lock is held for the lookup and for the insertion, not *)
(* for the selection between them.  A 2-d call keeps the algorithm it      *)
(* sized its workspace for in its executor; a 3-d call looks it up again   *)
(* when it runs.  All calls of a kind have one shape, hence one key.       *)
(***************************************************************************)
EXTENDS Naturals

CONSTANTS
  HostThreads,
  ConvKind,      \* per thread: "2d" or "3d"
  Algorithms,    \* what a selection may come out with: it is timed
  CallsEach      \* bound on the calls of a thread

NoAlgorithm == "none"

ASSUME ConvAssumption ==
  /\ ConvKind \in [HostThreads -> {"2d", "3d"}]
  /\ NoAlgorithm \notin Algorithms

VARIABLES
  algorithm,  \* per kind: the cached algorithm, or NoAlgorithm
  at,         \* per thread: "idle", "lookup", "select", "insert", "sized", "done"
  during,     \* per thread: the phase it is in, "plan" or "run"
  picked,     \* per thread: what pick_fwd_algo holds or returned
  sizedFor,   \* per thread: the algorithm its workspace was sized for
  calls       \* per thread: calls begun

avars == <<algorithm, at, during, picked, sizedFor, calls>>

AInit ==
  /\ algorithm = [k \in {"2d", "3d"} |-> NoAlgorithm]
  /\ at = [t \in HostThreads |-> "idle"]
  /\ during = [t \in HostThreads |-> "plan"]
  /\ picked = [t \in HostThreads |-> NoAlgorithm]
  /\ sizedFor = [t \in HostThreads |-> NoAlgorithm]
  /\ calls = [t \in HostThreads |-> 0]

Plan(t) ==
  /\ at[t] \in {"idle", "done"} /\ calls[t] < CallsEach
  /\ at' = [at EXCEPT ![t] = "lookup"]
  /\ during' = [during EXCEPT ![t] = "plan"]
  /\ calls' = [calls EXCEPT ![t] = @ + 1]
  /\ UNCHANGED <<algorithm, picked, sizedFor>>

(* Where pick_fwd_algo returns: the plan sizes the workspace for what it   *)
(* was given, the run executes it.                                         *)
Returned(t) ==
  /\ at' = [at EXCEPT ![t] = IF during[t] = "plan" THEN "sized" ELSE "done"]
  /\ sizedFor' = IF during[t] = "plan" THEN [sizedFor EXCEPT ![t] = picked'[t]] ELSE sizedFor

Lookup(t) ==
  /\ at[t] = "lookup"
  /\ IF algorithm[ConvKind[t]] = NoAlgorithm
     THEN at' = [at EXCEPT ![t] = "select"] /\ UNCHANGED <<picked, sizedFor>>
     ELSE picked' = [picked EXCEPT ![t] = algorithm[ConvKind[t]]] /\ Returned(t)
  /\ UNCHANGED <<algorithm, during, calls>>

Select(t) ==
  /\ at[t] = "select"
  /\ \E a \in Algorithms : picked' = [picked EXCEPT ![t] = a]
  /\ at' = [at EXCEPT ![t] = "insert"]
  /\ UNCHANGED <<algorithm, during, sizedFor, calls>>

Insert(t) ==
  /\ at[t] = "insert"
  /\ algorithm' = [algorithm EXCEPT ![ConvKind[t]] = picked[t]]
  /\ UNCHANGED picked
  /\ Returned(t)
  /\ UNCHANGED <<during, calls>>

(* Mutant: the 2-d call, too, looks the algorithm up again. *)
MutantExecute2d(t) ==
  /\ at[t] = "sized" /\ ConvKind[t] = "2d"
  /\ at' = [at EXCEPT ![t] = "lookup"]
  /\ during' = [during EXCEPT ![t] = "run"]
  /\ UNCHANGED <<algorithm, picked, sizedFor, calls>>

Execute2d(t) ==
  /\ at[t] = "sized" /\ ConvKind[t] = "2d"
  /\ at' = [at EXCEPT ![t] = "done"]
  /\ picked' = [picked EXCEPT ![t] = sizedFor[t]]
  /\ UNCHANGED <<algorithm, during, sizedFor, calls>>

Execute3d(t) ==
  /\ at[t] = "sized" /\ ConvKind[t] = "3d"
  /\ at' = [at EXCEPT ![t] = "lookup"]
  /\ during' = [during EXCEPT ![t] = "run"]
  /\ UNCHANGED <<algorithm, picked, sizedFor, calls>>

ANext == \E t \in HostThreads :
           Plan(t) \/ Lookup(t) \/ Select(t) \/ Insert(t) \/ Execute2d(t) \/ Execute3d(t)

(* cuDNN is handed a workspace of the size asked for the algorithm it is   *)
(* told to run, whatever other threads cached meanwhile.                   *)
ExecutesWhatItSized == \A t \in HostThreads : at[t] = "done" => picked[t] = sizedFor[t]
=============================================================================
