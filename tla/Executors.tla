----------------------------- MODULE Executors -----------------------------
(***************************************************************************)
(* The two-phase protocol of the CUDA back end.  XxxGetWorkspaceSize       *)
(* allocates an aclOpExecutor and hands it to the caller; Xxx runs it and  *)
(* deletes it; aclDestroyAclOpExecutor deletes one that is given up.       *)
(*                                                                         *)
(* What does not fit in an executor, a nested executor, a temporary, a     *)
(* communicator, waits between the phases in a file-scope std::map keyed   *)
(* by the executor's address.  Addresses come back: the address of a       *)
(* deleted object is the next one new may return, and giving a handle up   *)
(* leaves its entry in the map.  Tensors to be deleted with an executor    *)
(* are in its field owned: views the operator made, or, for Meshgrid, the  *)
(* output tensors of the caller.                                           *)
(*                                                                         *)
(* One host thread keeps several calls between their phases.  The maps     *)
(* take no lock, so calls are atomic here and never overlap.               *)
(***************************************************************************)
EXTENDS Naturals, FiniteSets

CONSTANTS
  Addrs,      \* host heap addresses
  NoAddr,     \* the null pointer
  Args,       \* what a call stashes: its communicator, equation, tensors
  NoArgs,     \* what a run without an entry falls back to (comm = nullptr)
  Programs,   \* [ops, room]: the operators of a program, the addresses its heap has
  GivesUp,    \* the operators whose handles it sometimes gives up
  MaxLost     \* bound: objects leaked before the program stops leaking

(* The operators, one representative per shape of the protocol.            *)
Nested == {"matmulAllReduce", "reduceScatter", "quantInplaceAdd", "transposeQuant"}
Composed == {"a2a", "allGatherMatmul", "addRmsNorm", "combineAddRmsNorm",
             "convBackward", "einsum", "quantAllReduce"}
Riding == {"groupedAllReduce", "weightQuantAllReduce"}
Lenient == Riding \cup {"quantAllReduce", "einsum"}
Stashing == Nested \cup Composed \cup Riding
Viewing == {"stack", "asStrided"}
OnTensors == Viewing \cup {"meshgrid", "pool"}
Operators == Stashing \cup OnTensors \cup {"plain"}

ASSUME AddrAssumption == NoAddr \notin Addrs
ASSUME ArgsAssumption == NoArgs \notin Args /\ Args # {}
ASSUME LostAssumption == MaxLost \in Nat
ASSUME ProgramsAssumption ==
  /\ Programs \subseteq [ops : SUBSET Operators, room : SUBSET Addrs]
  /\ GivesUp \subseteq Operators

HasTemp(k) == k \in {"reduceScatter", "quantInplaceAdd", "transposeQuant"}

MapOf(k) ==
  CASE k \in {"matmulAllReduce", "reduceScatter", "a2a"} -> "g_mc2"
    [] k = "quantInplaceAdd" -> "g_q"
    [] k = "transposeQuant" -> "g_tr"
    [] k = "allGatherMatmul" -> "g_agm"
    [] k = "addRmsNorm" -> "g_ar"
    [] k = "combineAddRmsNorm" -> "g_car"
    [] k = "convBackward" -> "g_convbwd"
    [] k = "einsum" -> "g_einsum_eq"
    [] k = "quantAllReduce" -> "g_qar"
    [] k = "groupedAllReduce" -> "g_gmar"
    [] k = "weightQuantAllReduce" -> "g_wqar"
    [] OTHER -> "none"

Maps == {MapOf(k) : k \in Stashing \cap UNION {p.ops : p \in Programs}}

VARIABLES
  program,   \* which of Programs runs
  heap,      \* addresses of the executors and tensors that are allocated
  mine,      \* tensors the program created and has not destroyed
  stash,     \* map -> (address -> entry)
  pending,   \* address -> [kind, args, uses, owned], the handles it holds
  lost,      \* addresses nothing refers to any more (history)
  last       \* [asked, used]: the arguments of the last run (history)

vars == <<program, heap, mine, stash, pending, lost, last>>

Entry == [inner : Addrs \cup {NoAddr}, temp : Addrs \cup {NoAddr}, args : Args]
Handle == [kind : Operators, args : Args \cup {NoArgs},
           uses : SUBSET Addrs, owned : SUBSET Addrs]
IsMap(f, S, T) == DOMAIN f \subseteq S /\ \A a \in DOMAIN f : f[a] \in T
Put(f, k, v) == [x \in DOMAIN f \cup {k} |-> IF x = k THEN v ELSE f[x]]
Erase(f, k) == [x \in DOMAIN f \ {k} |-> f[x]]
Free == program.room \ heap

Init ==
  /\ program \in Programs
  /\ heap = {} /\ mine = {}
  /\ stash = [m \in Maps |-> [a \in {} |-> 0]]
  /\ pending = [a \in {} |-> 0]
  /\ lost = {}
  /\ last = [asked |-> NoArgs, used |-> NoArgs]

-----------------------------------------------------------------------------
(* Operators named Mutant... are bugs this code could have; a run replaces *)
(* the operator that follows one by it, and must fail.                     *)

(* aclCreateTensor, and aclDestroyTensor once no call under way uses it.   *)
CreateTensor ==
  /\ program.ops \cap OnTensors # {}
  /\ \E t \in Free : heap' = heap \cup {t} /\ mine' = mine \cup {t}
  /\ UNCHANGED <<program, stash, pending, lost, last>>

DestroyTensor(t) ==
  /\ \A e \in DOMAIN pending : t \notin pending[e].uses
  /\ heap' = heap \ {t}
  /\ mine' = mine \ {t}
  /\ UNCHANGED <<program, stash, pending, lost, last>>

(* g[e] = {...}: operator[] overwrites what an abandoned call left there.  *)
MutantStoreIfAbsent(m, e, v) ==
  stash' = [stash EXCEPT ![m] = IF e \in DOMAIN @ THEN @ ELSE Put(@, e, v)]
MutantStoreDiscards(m, e, v) == UNCHANGED stash
Store(m, e, v) == stash' = [stash EXCEPT ![m] = Put(@, e, v)]

Hand(e, k, x, uses, owned) ==
  pending' = Put(pending, e, [kind |-> k, args |-> x, uses |-> uses, owned |-> owned])

(* What the first phase leaves allocated for the second.                   *)
Allocated(k, e, i, t) == {e, i} \cup (IF HasTemp(k) THEN {t} ELSE {})

(* GetWorkspaceSize that builds the nested executor now: the temporary     *)
(* tensor if there is one, the nested executor, then its own.              *)
GetNested(k, x) ==
  \E e, i, t \in Free :
    /\ e # i /\ t # e /\ t # i
    /\ heap' = heap \cup Allocated(k, e, i, t)
    /\ Store(MapOf(k), e,
             [inner |-> i, temp |-> IF HasTemp(k) THEN t ELSE NoAddr, args |-> x])
    /\ Hand(e, k, x, {}, {})
    /\ UNCHANGED <<program, mine, lost, last>>

MutantTempAfterFailure(t) == {t}
TempAfterFailure(t) == {}

(* The nested GetWorkspaceSize refuses: no executor is made, and the       *)
(* temporary made for it is destroyed.                                     *)
GetNestedFails(k) ==
  \E t \in Free :
    /\ HasTemp(k)
    /\ heap' = heap \cup TempAfterFailure(t)
    /\ UNCHANGED <<program, mine, stash, pending, lost, last>>

(* GetWorkspaceSize that only stashes its arguments, and the one of a base *)
(* operator, whose executor the riding operators hand on as their own.     *)
GetComposed(k, x) ==
  \E e \in Free :
    /\ heap' = heap \cup {e}
    /\ Store(MapOf(k), e, [inner |-> NoAddr, temp |-> NoAddr, args |-> x])
    /\ Hand(e, k, x, {}, {})
    /\ UNCHANGED <<program, mine, lost, last>>

(* Stack: one view per input; AsStrided: one view.                         *)
GetWithViews(k, ins) ==
  \E e \in Free, views \in SUBSET Free :
    /\ e \notin views
    /\ Cardinality(views) = IF k = "stack" THEN Cardinality(ins) ELSE 1
    /\ heap' = heap \cup views \cup {e}
    /\ Hand(e, k, NoArgs, ins, views)
    /\ UNCHANGED <<program, mine, stash, lost, last>>

ViewsAfterFailure(views) == {}

(* Stack refuses an input after it made views of the ones before.          *)
GetStackFails(ins) ==
  \E views \in SUBSET Free :
    /\ Cardinality(views) < Cardinality(ins)
    /\ heap' = heap \cup ViewsAfterFailure(views)
    /\ UNCHANGED <<program, mine, stash, pending, lost, last>>

(* An operator that keeps everything in its executor; Meshgrid files the   *)
(* caller's outputs under owned.                                           *)
GetPlain(k, x, uses) ==
  \E e \in Free :
    /\ heap' = heap \cup {e}
    /\ Hand(e, k, x, uses, IF k = "meshgrid" THEN uses ELSE {})
    /\ UNCHANGED <<program, mine, stash, lost, last>>

-----------------------------------------------------------------------------
EntryOf(e) == stash[MapOf(pending[e].kind)][e]
HasEntry(e) == pending[e].kind \in Stashing /\ e \in DOMAIN stash[MapOf(pending[e].kind)]
Ran(asked, used) == last' = [asked |-> asked, used |-> used]

(* What a run gives back: the nested executor (by the nested run, which    *)
(* deletes it even when it fails), the temporary, and its own executor.    *)
Released(e, v) == {e, v.inner, v.temp}

(* Xxx: the entry is copied and erased, then the work is launched, a       *)
(* failure of any part of it included, then everything is deleted.         *)
RunStrict(e) ==
  LET m == MapOf(pending[e].kind)
  IN  /\ pending[e].kind \in Stashing \ Lenient
      /\ HasEntry(e)
      /\ Ran(pending[e].args, EntryOf(e).args)
      /\ heap' = heap \ Released(e, EntryOf(e))
      /\ stash' = [stash EXCEPT ![m] = Erase(@, e)]
      /\ pending' = Erase(pending, e)
      /\ UNCHANGED <<program, mine, lost>>

(* Operators that take a missing entry for "no communicator", and einsum,  *)
(* whose operator[] makes an empty equation of it.                         *)
RunLenient(e) ==
  LET m == MapOf(pending[e].kind)
  IN  /\ pending[e].kind \in Lenient
      /\ Ran(pending[e].args, IF HasEntry(e) THEN EntryOf(e).args ELSE NoArgs)
      /\ heap' = heap \ {e}
      /\ stash' = [stash EXCEPT ![m] = Erase(@, e)]
      /\ pending' = Erase(pending, e)
      /\ UNCHANGED <<program, mine, lost>>

MutantOwnedAtRun(e) == pending[e].owned
OwnedAtRun(e) == IF pending[e].kind = "meshgrid" THEN {} ELSE pending[e].owned

(* The second phase without a side map, whether the launch succeeds or     *)
(* not; Meshgrid clears owned before it deletes its executor.              *)
RunPlain(e) ==
  /\ pending[e].kind \notin Stashing
  /\ Ran(pending[e].args, pending[e].args)
  /\ heap' = heap \ ({e} \cup OwnedAtRun(e))
  /\ pending' = Erase(pending, e)
  /\ UNCHANGED <<program, mine, stash, lost>>

(* A pooling operator on a type that is not 2 or 4 bytes wide: the macro   *)
(* returns from the middle of the function.                                *)
RunUnsupported(e) ==
  /\ pending[e].kind = "pool"
  /\ Cardinality(lost) < MaxLost
  /\ lost' = lost \cup {e}
  /\ pending' = Erase(pending, e)
  /\ UNCHANGED <<program, heap, mine, stash, last>>

OwnedAtDestroy(e) == pending[e].owned

(* aclDestroyAclOpExecutor: the executor and what it owns are deleted, the *)
(* side maps are not consulted.  The entry stays, and with it what only    *)
(* the entry knew.                                                         *)
Destroy(e) ==
  LET orphans == IF HasEntry(e) THEN {EntryOf(e).inner, EntryOf(e).temp} \ {NoAddr} ELSE {}
  IN  /\ pending[e].kind \in GivesUp
      /\ Cardinality(lost \cup orphans) <= MaxLost
      /\ heap' = heap \ ({e} \cup OwnedAtDestroy(e))
      /\ pending' = Erase(pending, e)
      /\ lost' = lost \cup orphans
      /\ UNCHANGED <<program, mine, stash, last>>

Next ==
  \/ CreateTensor
  \/ \E t \in mine : DestroyTensor(t)
  \/ \E k \in program.ops \cap Nested, x \in Args : GetNested(k, x)
  \/ \E k \in program.ops \cap Nested : GetNestedFails(k)
  \/ \E k \in program.ops \cap (Composed \cup Riding), x \in Args : GetComposed(k, x)
  \/ "plain" \in program.ops /\ \E x \in Args : GetPlain("plain", x, {})
  \/ "stack" \in program.ops /\ \E ins \in (SUBSET mine) \ {{}} :
       GetWithViews("stack", ins) \/ GetStackFails(ins)
  \/ "asStrided" \in program.ops /\ \E t \in mine : GetWithViews("asStrided", {t})
  \/ \E k \in program.ops \cap {"meshgrid", "pool"}, ts \in (SUBSET mine) \ {{}} :
       GetPlain(k, NoArgs, ts)
  \/ \E e \in DOMAIN pending :
       RunStrict(e) \/ RunLenient(e) \/ RunPlain(e) \/ RunUnsupported(e) \/ Destroy(e)

Spec == Init /\ [][Next]_vars

-----------------------------------------------------------------------------
TypeOK ==
  /\ program \in Programs
  /\ heap \subseteq Addrs /\ mine \subseteq Addrs /\ lost \subseteq Addrs
  /\ DOMAIN stash = Maps /\ \A m \in Maps : IsMap(stash[m], Addrs, Entry)
  /\ IsMap(pending, Addrs, Handle)
  /\ last \in [asked : Args \cup {NoArgs}, used : Args \cup {NoArgs}]

(* What the call of handle e will delete or still needs. *)
Needs(e) ==
  {e} \cup (IF HasEntry(e) THEN {EntryOf(e).inner, EntryOf(e).temp} \ {NoAddr} ELSE {})
      \cup (IF pending[e].kind = "meshgrid" THEN {} ELSE pending[e].owned)

(* The entry of every handle in the caller's hands is there and is the one *)
(* its own GetWorkspaceSize wrote, although an abandoned call of the same  *)
(* address, of this or of another operator, may have left one before it.   *)
EntryIsOwn ==
  \A e \in DOMAIN pending :
    pending[e].kind \in Stashing => HasEntry(e) /\ EntryOf(e).args = pending[e].args

(* A run computes with the communicator, equation and tensors its caller   *)
(* gave.  On the wrong communicator it would wait for ranks that never     *)
(* join; without one it would silently return a partial sum.               *)
RunsWithOwnArgs == last.used = last.asked

(* The executors, temporaries and views of two calls are different objects,*)
(* all still allocated, and none is the caller's: no run deletes what      *)
(* another one or the caller needs, and nothing is deleted twice.  What an *)
(* executor deletes are "temporary view tensors constructed internally"    *)
(* (internal.h:76).                                                        *)
OwnersDisjoint ==
  /\ mine \subseteq heap
  /\ \A e \in DOMAIN pending :
       /\ Needs(e) \subseteq heap \ mine
       /\ \A f \in DOMAIN pending : e # f => Needs(e) \cap Needs(f) = {}

(* Every path of both phases, failures included, frees all it allocated.   *)
(* Two things only leave objects behind: a handle given up whose entry     *)
(* names a nested executor, and a pooling call on an unsupported type.     *)
FreedOnEveryPath ==
  heap = lost \cup mine \cup UNION {Needs(e) : e \in DOMAIN pending}

(* A tensor the program created is alive until the program destroys it,    *)
(* whatever becomes of the handles that use it: executors delete only      *)
(* "temporary view tensors constructed internally" (internal.h:76).        *)
CallersTensorsLive == mine \subseteq heap

=============================================================================
