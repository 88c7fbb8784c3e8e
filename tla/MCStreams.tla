------------------------------ MODULE MCStreams ------------------------------
(***************************************************************************)
(* The streams of the two back ends: grouped matmuls over a pool of two    *)
(* CUDA streams, and a program on two Metal streams.  The back ends are    *)
(* two builds of one interface and share nothing, so an initial state      *)
(* starts one of the machines and leaves the other at rest.                *)
(***************************************************************************)
EXTENDS GroupedMatmul, MetalStreams

CONSTANTS
  h1, h2,     \* host threads of the CUDA back end
  Machines    \* which of "cuda" and "metal" the instance starts

VARIABLE machine

MCCallers == {h1, h2}
MCStreams == UserStreams \cup PoolStreams \cup {Null}
MCEvents == {Fork(h) : h \in Callers} \cup {Join(h, k) : h \in Callers, k \in Slots}

Calls(l1, l2) == [h \in Callers |-> IF h = h1 THEN l1 ELSE l2]

(* Two callers at once on a pool that is there; and one caller whose first *)
(* call fills the pool, with lists that wrap around it or skip a group.    *)
MCPrograms ==
  {[ready |-> TRUE, lists |-> Calls(<< <<1, 2>> >>, << <<1>> >>)],
   [ready |-> FALSE, lists |-> Calls(<< <<1, 1, 1>>, <<2, 0, 1>> >>, <<>>)]}

(* Two first calls at once. *)
MCFirstCalls == {[ready |-> FALSE, lists |-> Calls(<< <<1>> >>, << <<1>> >>)]}

-----------------------------------------------------------------------------
NoCalls ==
  /\ CudaInit /\ pool = Empty /\ todo = Calls(<<>>, <<>>)
  /\ at = [h \in Callers |-> "end"] /\ i = [h \in Callers |-> 0]
  /\ off = [h \in Callers |-> 0] /\ st = [h \in Callers |-> "ok"]

NoProgram == MInit /\ data = [t \in Tensors |-> CHOOSE b \in Bufs : TRUE]

SInit ==
  /\ machine \in Machines
  /\ IF machine = "cuda" THEN Init /\ NoProgram ELSE NoCalls /\ MInit

SNext ==
  \/ machine = "cuda" /\ Next /\ UNCHANGED <<mvars, machine>>
  \/ machine = "metal" /\ MNext /\ UNCHANGED <<vars, machine>>

SSpec == SInit /\ [][SNext]_<<vars, mvars, machine>>
=============================================================================
