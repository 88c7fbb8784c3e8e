--------------------------- MODULE OperatorCalls ---------------------------
(***************************************************************************)
(* A call of one operator, in the two phases every operator has: the first *)
(* checks the descriptors and keeps them in an executor, the second runs   *)
(* the kernel over the whole grid and gives the executor back.  The grids  *)
(* here have one thread per output cell, so a launch is one step; threads  *)
(* that share cells are ScatterKernels'.                                   *)
(***************************************************************************)
CONSTANTS
  Calls,       \* the calls a client may make
  Accepts(_),  \* whether the first phase of a call succeeds
  Result(_)    \* what the kernel of an accepted call leaves in its output

VARIABLES
  call,    \* the call
  phase,   \* "called", "accepted", "rejected" or "done"
  result   \* the output: Unwritten until the kernel has run

cvars == <<call, phase, result>>

Unwritten == <<>>

CInit == call \in Calls /\ phase = "called" /\ result = Unwritten

GetWorkspaceSize ==
  /\ phase = "called"
  /\ phase' = IF Accepts(call) THEN "accepted" ELSE "rejected"
  /\ UNCHANGED <<call, result>>

Execute ==
  /\ phase = "accepted"
  /\ result' = Result(call)
  /\ phase' = "done"
  /\ UNCHANGED call

CNext == GetWorkspaceSize \/ Execute
=============================================================================
