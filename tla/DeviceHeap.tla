----------------------------- MODULE DeviceHeap -----------------------------
(***************************************************************************)
(* What aclrtMalloc and aclrtFree promise to a program, with no cache, no  *)
(* lock and no driver: an allocation that succeeds returns an address      *)
(* nobody holds, of a block with room for the request that keeps its size, *)
(* one that fails returns none, and a call takes effect once between its   *)
(* invocation and its return.                                              *)
(***************************************************************************)
EXTENDS Naturals

CONSTANTS
  Threads,   \* host threads that call the runtime
  Sizes,     \* request sizes
  Rooms,     \* sizes of blocks
  Addrs,     \* device addresses
  NoAddr     \* the null pointer

VARIABLES
  call,    \* thread -> the call it is in: "none", "malloc" or "free"
  asked,   \* thread -> the size it last asked for
  ret,     \* thread -> what its last aclrtMalloc returned
  blocks   \* address -> size of the block, for the addresses the program holds

hvars == <<call, asked, ret, blocks>>

Init ==
  /\ call = [t \in Threads |-> "none"]
  /\ asked \in [Threads -> Sizes]
  /\ ret = [t \in Threads |-> NoAddr]
  /\ blocks = [a \in {} |-> 0]

Invoke(t) ==
  /\ call[t] = "none"
  /\ call' = [call EXCEPT ![t] = "malloc"]
  /\ \E n \in Sizes : asked' = [asked EXCEPT ![t] = n]
  /\ ret' = [ret EXCEPT ![t] = NoAddr]
  /\ UNCHANGED blocks

Grant(t) ==
  /\ call[t] = "malloc"
  /\ \E a \in Addrs \ DOMAIN blocks, r \in Rooms :
       /\ r >= asked[t]
       /\ ret' = [ret EXCEPT ![t] = a]
       /\ blocks' = [x \in DOMAIN blocks \cup {a} |-> IF x = a THEN r ELSE blocks[x]]
  /\ call' = [call EXCEPT ![t] = "none"]
  /\ UNCHANGED asked

Refuse(t) ==
  /\ call[t] = "malloc"
  /\ call' = [call EXCEPT ![t] = "none"]
  /\ UNCHANGED <<asked, ret, blocks>>

(* The caller of aclrtFree gives the address up when it calls. *)
GiveUp(t) ==
  /\ call[t] = "none"
  /\ \E a \in DOMAIN blocks : blocks' = [x \in DOMAIN blocks \ {a} |-> blocks[x]]
  /\ call' = [call EXCEPT ![t] = "free"]
  /\ UNCHANGED <<asked, ret>>

FreeReturns(t) ==
  /\ call[t] = "free"
  /\ call' = [call EXCEPT ![t] = "none"]
  /\ UNCHANGED <<asked, ret, blocks>>

Next ==
  \E t \in Threads :
    Invoke(t) \/ Grant(t) \/ Refuse(t) \/ GiveUp(t) \/ FreeReturns(t)

Spec == Init /\ [][Next]_hvars
=============================================================================
