---------------------------- MODULE MCExecutors ----------------------------
(* Small instances of Executors for TLC: one program of collective and     *)
(* plain operators, one of operators on tensors.                           *)
EXTENDS Executors, TLC

CONSTANT Few   \* the addresses of the first program

MCPrograms == {[ops |-> {"reduceScatter", "a2a", "groupedAllReduce", "plain"}, room |-> Few],
               [ops |-> OnTensors, room |-> Addrs]}
MCMeshgrid == {[ops |-> {"meshgrid"}, room |-> Addrs]}
AllButMeshgrid == Operators \ {"meshgrid"}

Symmetric == Permutations(Few) \cup Permutations(Args)
=============================================================================
