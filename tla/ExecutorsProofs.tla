-------------------------- MODULE ExecutorsProofs --------------------------
(***************************************************************************)
(* Proofs about the two-phase protocol of Executors, for every program,    *)
(* every heap and every set of operators whose handles are given up but    *)
(* Meshgrid, for which what is proved here is false.                       *)
(***************************************************************************)
EXTENDS Executors, TLAPS

(* What holds of a handle by itself: its entry is there, was written for   *)
(* it, and names no address of the handle's own; what only a nested call   *)
(* needs is in the entries of operators that delete it.                    *)
HandleOK(e) ==
  LET k == pending[e].kind
  IN  /\ k \in program.ops
      /\ k \in Stashing =>
           /\ HasEntry(e)
           /\ EntryOf(e).args = pending[e].args
           /\ e \notin {EntryOf(e).inner, EntryOf(e).temp}
      /\ k \in Lenient => EntryOf(e).inner = NoAddr /\ EntryOf(e).temp = NoAddr
      /\ k \in Stashing \cup {"plain", "pool"} => pending[e].owned = {}

Shape ==
  /\ program \in Programs
  /\ heap \subseteq Addrs
  /\ DOMAIN stash = Maps

(* What is lost is lost to everybody. *)
LostApart ==
  /\ lost \cap mine = {}
  /\ \A e \in DOMAIN pending : lost \cap Needs(e) = {}

IInv ==
  /\ Shape
  /\ \A e \in DOMAIN pending : HandleOK(e)
  /\ OwnersDisjoint
  /\ LostApart
  /\ FreedOnEveryPath
  /\ RunsWithOwnArgs

LEMMA MapInMaps ==
  ASSUME program \in Programs, NEW k \in program.ops, k \in Stashing
  PROVE  MapOf(k) \in Maps
BY DEF Maps

LEMMA RoomInAddrs ==
  ASSUME program \in Programs
  PROVE  Free \subseteq Addrs /\ Free \cap heap = {}
<1>1. program.room \subseteq Addrs
  BY ProgramsAssumption
<1> QED BY <1>1 DEF Free

(* Other addresses than e keep their entries in all maps. *)
EntriesKept(e) ==
  /\ DOMAIN stash' = Maps
  /\ \A m \in Maps : \A f : f # e =>
       /\ f \in DOMAIN stash'[m] <=> f \in DOMAIN stash[m]
       /\ stash'[m][f] = stash[m][f] \/ f \notin DOMAIN stash[m]

LEMMA StoreKeeps ==
  ASSUME DOMAIN stash = Maps, NEW m \in Maps, NEW e, NEW v, Store(m, e, v)
  PROVE  EntriesKept(e) /\ e \in DOMAIN stash'[m] /\ stash'[m][e] = v
<1>1. stash' = [stash EXCEPT ![m] = Put(stash[m], e, v)]
  BY DEF Store
<1> DEFINE g == Put(stash[m], e, v)
<1>2. /\ DOMAIN g = DOMAIN stash[m] \cup {e} /\ g[e] = v
      /\ \A f \in DOMAIN stash[m] : f # e => g[f] = stash[m][f]
  BY DEF Put
<1>3. stash' = [stash EXCEPT ![m] = g]
  BY <1>1
<1> HIDE DEF g
<1>4. DOMAIN stash' = Maps /\ stash'[m] = g /\ \A n \in Maps \ {m} : stash'[n] = stash[n]
  BY <1>3
<1> QED BY <1>2, <1>4 DEF EntriesKept

LEMMA EraseKeeps ==
  ASSUME DOMAIN stash = Maps, NEW m \in Maps, NEW e,
         stash' = [stash EXCEPT ![m] = Erase(@, e)]
  PROVE  EntriesKept(e)
<1>1. stash' = [stash EXCEPT ![m] = Erase(stash[m], e)]
  OBVIOUS
<1> DEFINE g == Erase(stash[m], e)
<1>2. /\ DOMAIN g = DOMAIN stash[m] \ {e}
      /\ \A f \in DOMAIN stash[m] : f # e => g[f] = stash[m][f]
  BY DEF Erase
<1>3. stash' = [stash EXCEPT ![m] = g]
  BY <1>1
<1> HIDE DEF g
<1>4. DOMAIN stash' = Maps /\ stash'[m] = g /\ \A n \in Maps \ {m} : stash'[n] = stash[n]
  BY <1>3
<1> QED BY <1>2, <1>4 DEF EntriesKept

(* A handle other than e looks the same after a step that touches e alone. *)
LEMMA OthersKept ==
  ASSUME Shape, NEW e, EntriesKept(e), UNCHANGED program,
         NEW f \in DOMAIN pending, f # e, HandleOK(f), pending'[f] = pending[f]
  PROVE  HandleOK(f)' /\ Needs(f)' = Needs(f)
<1>1. pending[f].kind \in program.ops /\ program \in Programs
  BY DEF HandleOK, Shape
<1>2. CASE pending[f].kind \in Stashing
  <2> DEFINE m == MapOf(pending[f].kind)
  <2>1. m \in Maps
    BY <1>1, <1>2, MapInMaps
  <2>2. f \in DOMAIN stash[m]
    BY <1>2 DEF HandleOK, HasEntry
  <2>3. f \in DOMAIN stash'[m] /\ stash'[m][f] = stash[m][f]
    BY <2>1, <2>2 DEF EntriesKept
  <2>4. (MapOf(pending[f].kind))' = m
    BY DEF MapOf
  <2>5. HasEntry(f) /\ HasEntry(f)' /\ EntryOf(f)' = EntryOf(f)
    BY <1>2, <2>2, <2>3, <2>4 DEF HasEntry, EntryOf
  <2> QED BY <2>5 DEF HandleOK, Needs
<1>3. CASE pending[f].kind \notin Stashing
  <2>1. ~HasEntry(f) /\ ~HasEntry(f)'
    BY <1>3 DEF HasEntry
  <2>2. pending[f].kind \notin Lenient
    BY <1>3 DEF Lenient, Stashing, Riding, Composed
  <2> QED BY <1>3, <2>1, <2>2 DEF HandleOK, Needs
<1> QED BY <1>2, <1>3

-----------------------------------------------------------------------------
(* A first phase: a new handle e, with what it allocated. *)
LEMMA Adds ==
  ASSUME IInv, NEW e, NEW A, A \subseteq Addrs, A \cap heap = {}, e \in A,
         NEW h, pending' = Put(pending, e, h), EntriesKept(e),
         heap' = heap \cup A, UNCHANGED <<program, mine, lost, last>>,
         HandleOK(e)', Needs(e)' = A
  PROVE  IInv'
<1>1. e \notin DOMAIN pending
  BY DEF IInv, OwnersDisjoint, Needs
<1>2. /\ DOMAIN pending' = DOMAIN pending \cup {e}
      /\ \A f \in DOMAIN pending : pending'[f] = pending[f]
  BY <1>1 DEF Put
<1>3. \A f \in DOMAIN pending : f # e /\ HandleOK(f)' /\ Needs(f)' = Needs(f)
  BY <1>1, <1>2, OthersKept DEF IInv
<1>4. Shape'
  BY DEF IInv, Shape, EntriesKept
<1>5. \A f \in DOMAIN pending : Needs(f) \subseteq heap \ mine
  BY DEF IInv, OwnersDisjoint
<1>6. OwnersDisjoint'
  <2>1. mine' \subseteq heap' /\ A \cap mine = {}
    BY DEF IInv, OwnersDisjoint
  <2>2. \A f \in DOMAIN pending' : Needs(f)' \subseteq heap' \ mine'
    BY <1>2, <1>3, <1>5, <2>1
  <2>3. \A f, g \in DOMAIN pending' : f # g => Needs(f)' \cap Needs(g)' = {}
    <3>1. \A f, g \in DOMAIN pending : f # g => Needs(f) \cap Needs(g) = {}
      BY DEF IInv, OwnersDisjoint
    <3>2. \A f \in DOMAIN pending : Needs(f) \cap A = {}
      BY <1>5
    <3> QED BY <1>2, <1>3, <3>1, <3>2
  <2> QED BY <2>1, <2>2, <2>3 DEF OwnersDisjoint
<1>7. LostApart'
  <2>1. lost \subseteq heap
    BY DEF IInv, FreedOnEveryPath
  <2> QED BY <1>2, <1>3, <2>1 DEF IInv, LostApart
<1>8. FreedOnEveryPath'
  <2> DEFINE R == UNION {Needs(f) : f \in DOMAIN pending}
  <2>1. heap = lost \cup mine \cup R
    BY DEF IInv, FreedOnEveryPath
  <2>2. (UNION {Needs(f)' : f \in DOMAIN pending'}) = R \cup A
    BY <1>2, <1>3
  <2> HIDE DEF R
  <2>3. heap' = lost' \cup mine' \cup (R \cup A)
    BY <2>1
  <2> QED BY <2>2, <2>3 DEF FreedOnEveryPath
<1>9. \A f \in DOMAIN pending' : HandleOK(f)'
  BY <1>2, <1>3
<1>10. RunsWithOwnArgs'
  BY DEF IInv, RunsWithOwnArgs
<1> QED BY <1>4, <1>6, <1>7, <1>8, <1>9, <1>10 DEF IInv

(* The end of a handle: all it needed is freed, but for what is lost. *)
LEMMA Removes ==
  ASSUME IInv, NEW e \in DOMAIN pending, pending' = Erase(pending, e), EntriesKept(e),
         NEW L, L \subseteq Needs(e), lost' = lost \cup L,
         heap' = heap \ (Needs(e) \ L), UNCHANGED <<program, mine>>, RunsWithOwnArgs'
  PROVE  IInv'
<1>1. /\ DOMAIN pending' = DOMAIN pending \ {e}
      /\ \A f \in DOMAIN pending' : pending'[f] = pending[f]
  BY DEF Erase
<1>2. \A f \in DOMAIN pending' : HandleOK(f)' /\ Needs(f)' = Needs(f)
  BY <1>1, OthersKept DEF IInv
<1>3. /\ mine \subseteq heap
      /\ \A f \in DOMAIN pending : Needs(f) \subseteq heap \ mine
      /\ \A f \in DOMAIN pending' : Needs(f) \cap Needs(e) = {}
      /\ \A f, g \in DOMAIN pending : f # g => Needs(f) \cap Needs(g) = {}
  BY <1>1 DEF IInv, OwnersDisjoint
<1>4. Shape'
  BY DEF IInv, Shape, EntriesKept
<1>5. OwnersDisjoint'
  <2>1. mine' \subseteq heap'
    BY <1>3
  <2>2. \A f \in DOMAIN pending' : Needs(f)' \subseteq heap' \ mine'
    BY <1>1, <1>2, <1>3
  <2>3. \A f, g \in DOMAIN pending' : f # g => Needs(f)' \cap Needs(g)' = {}
    BY <1>1, <1>2, <1>3
  <2> QED BY <2>1, <2>2, <2>3 DEF OwnersDisjoint
<1>6. LostApart'
  <2>1. lost \cap mine = {} /\ \A f \in DOMAIN pending : lost \cap Needs(f) = {}
    BY DEF IInv, LostApart
  <2>2. lost' \cap mine' = {}
    BY <1>3, <2>1
  <2>3. \A f \in DOMAIN pending' : lost' \cap Needs(f)' = {}
    BY <1>1, <1>2, <1>3, <2>1
  <2> QED BY <2>2, <2>3 DEF LostApart
<1>7. FreedOnEveryPath'
  <2> DEFINE R == UNION {Needs(f) : f \in DOMAIN pending'}
  <2>1. heap = lost \cup mine \cup UNION {Needs(f) : f \in DOMAIN pending}
    BY DEF IInv, FreedOnEveryPath
  <2>2. (UNION {Needs(f) : f \in DOMAIN pending}) = R \cup Needs(e)
    BY <1>1
  <2>3. (UNION {Needs(f)' : f \in DOMAIN pending'}) = R
    BY <1>2
  <2>4. R \cap Needs(e) = {}
    BY <1>3
  <2>5. lost \cap Needs(e) = {} /\ mine \cap Needs(e) = {}
    BY <1>3 DEF IInv, LostApart
  <2> HIDE DEF R
  <2>6. heap' = lost' \cup mine' \cup R
    BY <2>1, <2>2, <2>4, <2>5
  <2> QED BY <2>3, <2>6 DEF FreedOnEveryPath
<1> QED BY <1>2, <1>4, <1>5, <1>6, <1>7 DEF IInv

-----------------------------------------------------------------------------
(* The first phases. *)
LEMMA KindsDiffer ==
  /\ Nested \subseteq Stashing /\ Composed \cup Riding \subseteq Stashing
  /\ Nested \cap Lenient = {} /\ Lenient \subseteq Stashing
  /\ "meshgrid" \notin Stashing /\ "pool" \notin Stashing /\ "plain" \notin Stashing
  /\ "stack" \notin Stashing /\ "asStrided" \notin Stashing
BY DEF Nested, Composed, Riding, Lenient, Stashing

(* Stashing an entry v for a new handle e. *)
LEMMA Stashes ==
  ASSUME IInv, NEW k \in program.ops, k \in Stashing, NEW x, NEW e, NEW v,
         Store(MapOf(k), e, v), Hand(e, k, x, {}, {}), v.args = x,
         e \notin {v.inner, v.temp}, UNCHANGED program,
         k \in Lenient => v.inner = NoAddr /\ v.temp = NoAddr
  PROVE  /\ EntriesKept(e) /\ HandleOK(e)'
         /\ Needs(e)' = {e} \cup ({v.inner, v.temp} \ {NoAddr})
<1>1. MapOf(k) \in Maps
  BY MapInMaps DEF IInv, Shape
<1>2. EntriesKept(e) /\ e \in DOMAIN stash'[MapOf(k)] /\ stash'[MapOf(k)][e] = v
  BY <1>1, StoreKeeps DEF IInv, Shape
<1>3. pending'[e] = [kind |-> k, args |-> x, uses |-> {}, owned |-> {}]
  BY DEF Hand, Put
<1>4. (MapOf(pending[e].kind))' = MapOf(k)
  BY <1>3 DEF MapOf
<1>5. HasEntry(e)' /\ EntryOf(e)' = v
  BY <1>2, <1>3, <1>4 DEF HasEntry, EntryOf
<1>6. HandleOK(e)'
  BY <1>3, <1>5 DEF HandleOK
<1>7. Needs(e)' = {e} \cup ({v.inner, v.temp} \ {NoAddr})
  BY <1>3, <1>5, KindsDiffer DEF Needs
<1> QED BY <1>2, <1>6, <1>7

LEMMA NestedKeeps ==
  ASSUME IInv, NEW k \in program.ops \cap Nested, NEW x \in Args, GetNested(k, x)
  PROVE  IInv'
<1>1. PICK e \in Free, i \in Free, t \in Free :
        /\ e # i /\ t # e /\ t # i
        /\ heap' = heap \cup Allocated(k, e, i, t)
        /\ Store(MapOf(k), e,
                 [inner |-> i, temp |-> IF HasTemp(k) THEN t ELSE NoAddr, args |-> x])
        /\ Hand(e, k, x, {}, {})
        /\ UNCHANGED <<program, mine, lost, last>>
  BY DEF GetNested
<1> DEFINE v == [inner |-> i, temp |-> IF HasTemp(k) THEN t ELSE NoAddr, args |-> x]
<1>2. Free \subseteq Addrs /\ Free \cap heap = {} /\ NoAddr \notin Free
  BY RoomInAddrs, AddrAssumption DEF IInv, Shape
<1>3. e \notin {v.inner, v.temp} /\ v.args = x
  BY <1>1, <1>2
<1>4. k \in Stashing /\ k \notin Lenient
  BY KindsDiffer
<1>5. Store(MapOf(k), e, v)
  BY <1>1
<1>6. {e} \cup ({v.inner, v.temp} \ {NoAddr}) = Allocated(k, e, i, t)
  BY <1>2 DEF Allocated
<1> HIDE DEF v
<1>7. EntriesKept(e) /\ HandleOK(e)' /\ Needs(e)' = Allocated(k, e, i, t)
  BY <1>1, <1>3, <1>4, <1>5, <1>6, Stashes
<1>8. Allocated(k, e, i, t) \subseteq Addrs /\ Allocated(k, e, i, t) \cap heap = {}
      /\ e \in Allocated(k, e, i, t)
  BY <1>2 DEF Allocated
<1> QED BY <1>1, <1>7, <1>8, Adds DEF Hand

LEMMA ComposedKeeps ==
  ASSUME IInv, NEW k \in program.ops \cap (Composed \cup Riding), NEW x \in Args,
         GetComposed(k, x)
  PROVE  IInv'
<1>1. PICK e \in Free :
        /\ heap' = heap \cup {e}
        /\ Store(MapOf(k), e, [inner |-> NoAddr, temp |-> NoAddr, args |-> x])
        /\ Hand(e, k, x, {}, {})
        /\ UNCHANGED <<program, mine, lost, last>>
  BY DEF GetComposed
<1> DEFINE v == [inner |-> NoAddr, temp |-> NoAddr, args |-> x]
<1>2. Free \subseteq Addrs /\ Free \cap heap = {} /\ NoAddr \notin Free
  BY RoomInAddrs, AddrAssumption DEF IInv, Shape
<1>3. /\ e \notin {v.inner, v.temp} /\ v.args = x
      /\ v.inner = NoAddr /\ v.temp = NoAddr
      /\ Store(MapOf(k), e, v)
  BY <1>1, <1>2
<1>4. {e} \cup ({v.inner, v.temp} \ {NoAddr}) = {e}
  BY <1>3
<1>5. k \in Stashing
  BY KindsDiffer
<1> HIDE DEF v
<1>6. EntriesKept(e) /\ HandleOK(e)' /\ Needs(e)' = {e}
  BY <1>1, <1>3, <1>4, <1>5, Stashes
<1>7. {e} \subseteq Addrs /\ {e} \cap heap = {}
  BY <1>2
<1> QED BY <1>1, <1>6, <1>7, Adds DEF Hand

(* A handle without an entry. *)
LEMMA Unstashed ==
  ASSUME IInv, NEW k \in program.ops, k \notin Stashing, NEW x, NEW e, NEW uses, NEW owned,
         Hand(e, k, x, uses, owned), UNCHANGED <<program, stash>>,
         k \in {"plain", "pool"} => owned = {}
  PROVE  /\ EntriesKept(e) /\ HandleOK(e)'
         /\ Needs(e)' = {e} \cup (IF k = "meshgrid" THEN {} ELSE owned)
<1>1. pending'[e] = [kind |-> k, args |-> x, uses |-> uses, owned |-> owned]
  BY DEF Hand, Put
<1>2. EntriesKept(e)
  BY DEF EntriesKept, IInv, Shape
<1>3. ~HasEntry(e)' /\ k \notin Lenient
  BY <1>1, KindsDiffer DEF HasEntry
<1> QED BY <1>1, <1>2, <1>3 DEF HandleOK, Needs

LEMMA ViewsKeep ==
  ASSUME IInv, NEW k \in program.ops \cap Viewing, NEW ins, GetWithViews(k, ins)
  PROVE  IInv'
<1>1. PICK e \in Free, views \in SUBSET Free :
        /\ e \notin views
        /\ heap' = heap \cup views \cup {e}
        /\ Hand(e, k, NoArgs, ins, views)
        /\ UNCHANGED <<program, mine, stash, lost, last>>
  BY DEF GetWithViews
<1>2. Free \subseteq Addrs /\ Free \cap heap = {}
  BY RoomInAddrs DEF IInv, Shape
<1>3. k \notin Stashing /\ k \notin {"plain", "pool", "meshgrid"}
  BY KindsDiffer DEF Viewing
<1>4. EntriesKept(e) /\ HandleOK(e)' /\ Needs(e)' = {e} \cup views
  BY <1>1, <1>3, Unstashed
<1>5. {e} \cup views \subseteq Addrs /\ ({e} \cup views) \cap heap = {} /\ e \in {e} \cup views
  BY <1>2
<1>6. heap' = heap \cup ({e} \cup views)
  BY <1>1
<1> QED BY <1>1, <1>4, <1>5, <1>6, Adds DEF Hand

LEMMA PlainKeeps ==
  ASSUME IInv, NEW k \in program.ops \cap {"plain", "meshgrid", "pool"}, NEW x, NEW uses,
         GetPlain(k, x, uses)
  PROVE  IInv'
<1> DEFINE o == IF k = "meshgrid" THEN uses ELSE {}
<1>1. PICK e \in Free :
        /\ heap' = heap \cup {e}
        /\ Hand(e, k, x, uses, o)
        /\ UNCHANGED <<program, mine, stash, lost, last>>
  BY DEF GetPlain
<1>2. Free \subseteq Addrs /\ Free \cap heap = {}
  BY RoomInAddrs DEF IInv, Shape
<1>3. k \notin Stashing /\ (k \in {"plain", "pool"} => o = {})
  BY KindsDiffer
<1>4. {e} \cup (IF k = "meshgrid" THEN {} ELSE o) = {e}
  OBVIOUS
<1> HIDE DEF o
<1>5. EntriesKept(e) /\ HandleOK(e)' /\ Needs(e)' = {e}
  BY <1>1, <1>3, <1>4, Unstashed
<1>6. {e} \subseteq Addrs /\ {e} \cap heap = {}
  BY <1>2
<1> QED BY <1>1, <1>5, <1>6, Adds DEF Hand

-----------------------------------------------------------------------------
(* What the program does with its tensors. *)
LEMMA CreateKeeps ==
  ASSUME IInv, CreateTensor
  PROVE  IInv'
<1>1. PICK t \in Free : heap' = heap \cup {t} /\ mine' = mine \cup {t}
  BY DEF CreateTensor
<1>2. UNCHANGED <<program, stash, pending, lost, last>>
  BY DEF CreateTensor
<1>3. t \in Addrs /\ t \notin heap
  BY RoomInAddrs DEF IInv, Shape
<1>4. \A e \in DOMAIN pending : HandleOK(e)' /\ Needs(e)' = Needs(e)
  BY <1>2 DEF IInv, HandleOK, Needs, HasEntry, EntryOf
<1>5. Shape'
  BY <1>1, <1>2, <1>3 DEF IInv, Shape
<1>6. \A e \in DOMAIN pending : Needs(e) \subseteq heap \ mine
  BY DEF IInv, OwnersDisjoint
<1>7. OwnersDisjoint'
  BY <1>1, <1>2, <1>3, <1>4, <1>6 DEF IInv, OwnersDisjoint
<1>8. lost \subseteq heap
  BY DEF IInv, FreedOnEveryPath
<1>9. LostApart'
  BY <1>1, <1>2, <1>3, <1>4, <1>8 DEF IInv, LostApart
<1>10. FreedOnEveryPath'
  <2> DEFINE R == UNION {Needs(e) : e \in DOMAIN pending}
  <2>1. heap = lost \cup mine \cup R
    BY DEF IInv, FreedOnEveryPath
  <2>2. (UNION {Needs(e)' : e \in DOMAIN pending'}) = R
    BY <1>2, <1>4
  <2> HIDE DEF R
  <2>3. heap' = lost' \cup mine' \cup R
    BY <1>1, <1>2, <2>1
  <2> QED BY <2>2, <2>3 DEF FreedOnEveryPath
<1> QED BY <1>2, <1>4, <1>5, <1>7, <1>9, <1>10 DEF IInv, RunsWithOwnArgs

LEMMA DestroyTensorKeeps ==
  ASSUME IInv, NEW t \in mine, DestroyTensor(t)
  PROVE  IInv'
<1>1. /\ heap' = heap \ {t} /\ mine' = mine \ {t}
      /\ UNCHANGED <<program, stash, pending, lost, last>>
  BY DEF DestroyTensor
<1>2. \A e \in DOMAIN pending : HandleOK(e)' /\ Needs(e)' = Needs(e)
  BY <1>1 DEF IInv, HandleOK, Needs, HasEntry, EntryOf
<1>3. Shape'
  BY <1>1 DEF IInv, Shape
<1>4. \A e \in DOMAIN pending : Needs(e) \subseteq heap \ mine
  BY DEF IInv, OwnersDisjoint
<1>5. OwnersDisjoint'
  BY <1>1, <1>2, <1>4 DEF IInv, OwnersDisjoint
<1>6. LostApart' /\ t \notin lost
  BY <1>1, <1>2 DEF IInv, LostApart
<1>7. FreedOnEveryPath'
  <2> DEFINE R == UNION {Needs(e) : e \in DOMAIN pending}
  <2>1. heap = lost \cup mine \cup R
    BY DEF IInv, FreedOnEveryPath
  <2>2. (UNION {Needs(e)' : e \in DOMAIN pending'}) = R
    BY <1>1, <1>2
  <2>3. t \notin R
    BY <1>4
  <2> HIDE DEF R
  <2>4. heap' = lost' \cup mine' \cup R
    BY <1>1, <1>6, <2>1, <2>3
  <2> QED BY <2>2, <2>4 DEF FreedOnEveryPath
<1> QED BY <1>1, <1>2, <1>3, <1>5, <1>6, <1>7 DEF IInv, RunsWithOwnArgs

-----------------------------------------------------------------------------
(* The second phases, and giving a handle up. *)
LEMMA HandleFacts ==
  ASSUME IInv, NEW e \in DOMAIN pending
  PROVE  /\ HandleOK(e) /\ Needs(e) \subseteq heap /\ NoAddr \notin heap
         /\ DOMAIN stash = Maps
         /\ pending[e].kind \in Stashing => MapOf(pending[e].kind) \in Maps
BY AddrAssumption, MapInMaps DEF IInv, OwnersDisjoint, Shape, HandleOK

LEMMA RunStrictKeeps ==
  ASSUME IInv, NEW e \in DOMAIN pending, RunStrict(e)
  PROVE  IInv'
<1>1. /\ pending[e].kind \in Stashing /\ HandleOK(e) /\ NoAddr \notin heap
      /\ Needs(e) \subseteq heap /\ pending[e].kind # "meshgrid"
  BY HandleFacts, KindsDiffer DEF RunStrict
<1>2. EntriesKept(e)
  BY <1>1, HandleFacts, EraseKeeps DEF RunStrict
<1>3. heap' = heap \ (Needs(e) \ {}) /\ pending' = Erase(pending, e)
      /\ UNCHANGED <<program, mine, lost>>
  BY <1>1 DEF RunStrict, Released, Needs, HandleOK
<1>4. RunsWithOwnArgs'
  BY <1>1 DEF RunStrict, Ran, RunsWithOwnArgs, HandleOK
<1> DEFINE L == {}
<1>5. L \subseteq Needs(e) /\ lost' = lost \cup L /\ heap' = heap \ (Needs(e) \ L)
  BY <1>3
<1> HIDE DEF L
<1> QED BY <1>2, <1>3, <1>4, <1>5, Removes

LEMMA RunLenientKeeps ==
  ASSUME IInv, NEW e \in DOMAIN pending, RunLenient(e)
  PROVE  IInv'
<1>1. /\ pending[e].kind \in Lenient /\ pending[e].kind \in Stashing
      /\ HandleOK(e) /\ NoAddr \notin heap
      /\ Needs(e) \subseteq heap /\ pending[e].kind # "meshgrid"
  BY HandleFacts, KindsDiffer DEF RunLenient
<1>2. EntriesKept(e)
  BY <1>1, HandleFacts, EraseKeeps DEF RunLenient
<1>3. Needs(e) = {e}
  BY <1>1 DEF Needs, HandleOK
<1>4. /\ heap' = heap \ {e} /\ pending' = Erase(pending, e)
      /\ UNCHANGED <<program, mine, lost>>
  BY DEF RunLenient
<1>5. RunsWithOwnArgs'
  BY <1>1 DEF RunLenient, Ran, RunsWithOwnArgs, HandleOK
<1> DEFINE L == {}
<1>6. L \subseteq Needs(e) /\ lost' = lost \cup L /\ heap' = heap \ (Needs(e) \ L)
  BY <1>3, <1>4
<1> HIDE DEF L
<1> QED BY <1>2, <1>4, <1>5, <1>6, Removes

LEMMA RunPlainKeeps ==
  ASSUME IInv, NEW e \in DOMAIN pending, RunPlain(e)
  PROVE  IInv'
<1>1. EntriesKept(e)
  BY HandleFacts DEF RunPlain, EntriesKept
<1>2. Needs(e) = {e} \cup OwnedAtRun(e)
  BY DEF RunPlain, Needs, HasEntry, OwnedAtRun
<1>3. /\ heap' = heap \ Needs(e) /\ pending' = Erase(pending, e)
      /\ UNCHANGED <<program, mine, lost>>
  BY <1>2 DEF RunPlain
<1>4. RunsWithOwnArgs'
  BY DEF RunPlain, Ran, RunsWithOwnArgs
<1> DEFINE L == {}
<1>5. L \subseteq Needs(e) /\ lost' = lost \cup L /\ heap' = heap \ (Needs(e) \ L)
  BY <1>3
<1> HIDE DEF L
<1> QED BY <1>1, <1>3, <1>4, <1>5, Removes

LEMMA RunUnsupportedKeeps ==
  ASSUME IInv, NEW e \in DOMAIN pending, RunUnsupported(e)
  PROVE  IInv'
<1>1. EntriesKept(e)
  BY HandleFacts DEF RunUnsupported, EntriesKept
<1>2. Needs(e) = {e}
  BY HandleFacts, KindsDiffer DEF RunUnsupported, HandleOK, Needs, HasEntry
<1>3. /\ heap' = heap /\ lost' = lost \cup {e} /\ pending' = Erase(pending, e)
      /\ UNCHANGED <<program, mine, last>>
  BY DEF RunUnsupported
<1>4. RunsWithOwnArgs'
  BY <1>3 DEF IInv, RunsWithOwnArgs
<1> DEFINE L == {e}
<1>5. L \subseteq Needs(e) /\ lost' = lost \cup L /\ heap' = heap \ (Needs(e) \ L)
  BY <1>2, <1>3
<1> HIDE DEF L
<1> QED BY <1>1, <1>3, <1>4, <1>5, Removes

(* What only the entry knew is lost, the rest is deleted. *)
LEMMA DestroyKeeps ==
  ASSUME IInv, "meshgrid" \notin GivesUp, NEW e \in DOMAIN pending, Destroy(e)
  PROVE  IInv'
<1> DEFINE L == IF HasEntry(e) THEN {EntryOf(e).inner, EntryOf(e).temp} \ {NoAddr} ELSE {}
<1>1. /\ pending[e].kind # "meshgrid"
      /\ heap' = heap \ ({e} \cup pending[e].owned)
      /\ pending' = Erase(pending, e) /\ lost' = lost \cup L
      /\ UNCHANGED <<program, mine, stash, last>>
  BY DEF Destroy, OwnedAtDestroy
<1>2. Needs(e) = {e} \cup L \cup pending[e].owned
  BY <1>1 DEF Needs
<1>3. ({e} \cup pending[e].owned) \cap L = {}
  <2>1. CASE HasEntry(e)
    BY <2>1, HandleFacts DEF HandleOK, HasEntry
  <2>2. CASE ~HasEntry(e)
    BY <2>2
  <2> QED BY <2>1, <2>2
<1> HIDE DEF L
<1>4. L \subseteq Needs(e) /\ Needs(e) \ L = {e} \cup pending[e].owned
  BY <1>2, <1>3
<1>5. EntriesKept(e)
  BY <1>1, HandleFacts DEF EntriesKept
<1>6. RunsWithOwnArgs'
  BY <1>1 DEF IInv, RunsWithOwnArgs
<1>7. heap' = heap \ (Needs(e) \ L)
  BY <1>1, <1>4
<1> QED BY <1>1, <1>4, <1>5, <1>6, <1>7, Removes

-----------------------------------------------------------------------------
LEMMA InitIInv == Init => IInv
<1> SUFFICES ASSUME Init PROVE IInv
  OBVIOUS
<1>1. DOMAIN pending = {} /\ DOMAIN stash = Maps
  BY DEF Init
<1>2. Shape /\ LostApart /\ OwnersDisjoint /\ RunsWithOwnArgs
  BY <1>1 DEF Init, Shape, LostApart, OwnersDisjoint, RunsWithOwnArgs
<1>3. FreedOnEveryPath
  BY <1>1 DEF Init, FreedOnEveryPath
<1> QED BY <1>1, <1>2, <1>3 DEF IInv

LEMMA NextIInv == "meshgrid" \notin GivesUp /\ IInv /\ [Next]_vars => IInv'
<1> SUFFICES ASSUME "meshgrid" \notin GivesUp, IInv, [Next]_vars PROVE IInv'
  OBVIOUS
<1>1. CASE CreateTensor
  BY <1>1, CreateKeeps
<1>2. CASE \E t \in mine : DestroyTensor(t)
  BY <1>2, DestroyTensorKeeps
<1>3. CASE \E k \in program.ops \cap Nested, x \in Args : GetNested(k, x)
  BY <1>3, NestedKeeps
<1>4. CASE \/ \E k \in program.ops \cap Nested : GetNestedFails(k)
           \/ \E ins \in (SUBSET mine) \ {{}} : GetStackFails(ins)
           \/ UNCHANGED vars
  <2>1. UNCHANGED vars
    BY <1>4 DEF GetNestedFails, TempAfterFailure, GetStackFails, ViewsAfterFailure, vars
  <2>2. \A e \in DOMAIN pending : HandleOK(e)' /\ Needs(e)' = Needs(e)
    BY <2>1 DEF vars, IInv, HandleOK, Needs, HasEntry, EntryOf
  <2>3. OwnersDisjoint' /\ LostApart'
    BY <2>1, <2>2 DEF vars, IInv, OwnersDisjoint, LostApart
  <2>4. (UNION {Needs(e)' : e \in DOMAIN pending'}) = UNION {Needs(e) : e \in DOMAIN pending}
    BY <2>1, <2>2 DEF vars
  <2>5. FreedOnEveryPath'
    BY <2>1, <2>4 DEF vars, IInv, FreedOnEveryPath
  <2> QED BY <2>1, <2>2, <2>3, <2>5 DEF vars, IInv, Shape, RunsWithOwnArgs
<1>5. CASE \E k \in program.ops \cap (Composed \cup Riding), x \in Args : GetComposed(k, x)
  BY <1>5, ComposedKeeps
<1>6. CASE "plain" \in program.ops /\ \E x \in Args : GetPlain("plain", x, {})
  BY <1>6, PlainKeeps
<1>7. CASE \/ "stack" \in program.ops
              /\ \E ins \in (SUBSET mine) \ {{}} : GetWithViews("stack", ins)
           \/ "asStrided" \in program.ops /\ \E t \in mine : GetWithViews("asStrided", {t})
  BY <1>7, ViewsKeep DEF Viewing
<1>8. CASE \E k \in program.ops \cap {"meshgrid", "pool"}, ts \in (SUBSET mine) \ {{}} :
             GetPlain(k, NoArgs, ts)
  BY <1>8, PlainKeeps
<1>9. CASE \E e \in DOMAIN pending :
             RunStrict(e) \/ RunLenient(e) \/ RunPlain(e) \/ RunUnsupported(e) \/ Destroy(e)
  BY <1>9, RunStrictKeeps, RunLenientKeeps, RunPlainKeeps, RunUnsupportedKeeps, DestroyKeeps
<1> QED BY <1>1, <1>2, <1>3, <1>4, <1>5, <1>6, <1>7, <1>8, <1>9 DEF Next

LEMMA Invariance == "meshgrid" \notin GivesUp => (Spec => []IInv)
<1> SUFFICES ASSUME "meshgrid" \notin GivesUp PROVE Spec => []IInv
  OBVIOUS
<1>1. Init => IInv
  BY InitIInv
<1>2. IInv /\ [Next]_vars => IInv'
  BY NextIInv
<1> QED BY <1>1, <1>2, PTL DEF Spec

(* Whatever handles are abandoned and whatever addresses come back, the    *)
(* entry under the address of a live handle was made for that handle.      *)
THEOREM OwnEntries == "meshgrid" \notin GivesUp => (Spec => []EntryIsOwn)
<1> SUFFICES ASSUME "meshgrid" \notin GivesUp PROVE Spec => []EntryIsOwn
  OBVIOUS
<1>1. IInv => EntryIsOwn
  BY DEF IInv, HandleOK, EntryIsOwn
<1>2. Spec => []IInv
  BY Invariance
<1> QED BY <1>1, <1>2, PTL

(* A second phase computes with the arguments of its own first phase. *)
THEOREM OwnArguments == "meshgrid" \notin GivesUp => (Spec => []RunsWithOwnArgs)
<1> SUFFICES ASSUME "meshgrid" \notin GivesUp PROVE Spec => []RunsWithOwnArgs
  OBVIOUS
<1>1. IInv => RunsWithOwnArgs
  BY DEF IInv, HandleOK, RunsWithOwnArgs
<1>2. Spec => []IInv
  BY Invariance
<1> QED BY <1>1, <1>2, PTL

(* No call deletes what another or the caller still needs. *)
THEOREM NothingShared == "meshgrid" \notin GivesUp => (Spec => []OwnersDisjoint)
<1> SUFFICES ASSUME "meshgrid" \notin GivesUp PROVE Spec => []OwnersDisjoint
  OBVIOUS
<1>1. IInv => OwnersDisjoint
  BY DEF IInv
<1>2. Spec => []IInv
  BY Invariance
<1> QED BY <1>1, <1>2, PTL

(* Everything that is allocated is the program's, or some call will free   *)
(* it, or was left behind by one of the two leaks.                         *)
THEOREM NothingLeaks == "meshgrid" \notin GivesUp => (Spec => []FreedOnEveryPath)
<1> SUFFICES ASSUME "meshgrid" \notin GivesUp PROVE Spec => []FreedOnEveryPath
  OBVIOUS
<1>1. IInv => FreedOnEveryPath
  BY DEF IInv
<1>2. Spec => []IInv
  BY Invariance
<1> QED BY <1>1, <1>2, PTL

-----------------------------------------------------------------------------
(* Types of what the maps, the handles and the last run hold; the sets of  *)
(* addresses are typed by IInv.                                            *)
LEMMA PutTyped ==
  ASSUME NEW S, NEW T, NEW f, IsMap(f, S, T), NEW k \in S, NEW v \in T
  PROVE  IsMap(Put(f, k, v), S, T)
BY DEF IsMap, Put

LEMMA EraseTyped ==
  ASSUME NEW S, NEW T, NEW f, IsMap(f, S, T), NEW k
  PROVE  IsMap(Erase(f, k), S, T)
BY DEF IsMap, Erase

StashTyped == DOMAIN stash = Maps /\ \A m \in Maps : IsMap(stash[m], Addrs, Entry)
PendingTyped == IsMap(pending, Addrs, Handle)
LastTyped == last \in [asked : Args \cup {NoArgs}, used : Args \cup {NoArgs}]

LEMMA MapTyped ==
  ASSUME StashTyped, NEW m, NEW g, IsMap(g, Addrs, Entry),
         stash' = [stash EXCEPT ![m] = g]
  PROVE  StashTyped'
BY DEF StashTyped

LEMMA StoreTyped ==
  ASSUME StashTyped, NEW m \in Maps, NEW e \in Addrs, NEW v \in Entry, Store(m, e, v)
  PROVE  StashTyped'
<1> DEFINE g == Put(stash[m], e, v)
<1>1. IsMap(g, Addrs, Entry)
  BY PutTyped DEF StashTyped
<1>2. stash' = [stash EXCEPT ![m] = g]
  BY DEF Store
<1> HIDE DEF g
<1> QED BY <1>1, <1>2, MapTyped

LEMMA StashEraseTyped ==
  ASSUME StashTyped, NEW m \in Maps, NEW e, stash' = [stash EXCEPT ![m] = Erase(@, e)]
  PROVE  StashTyped'
<1> DEFINE g == Erase(stash[m], e)
<1>1. IsMap(g, Addrs, Entry)
  BY EraseTyped DEF StashTyped
<1>2. stash' = [stash EXCEPT ![m] = g]
  OBVIOUS
<1> HIDE DEF g
<1> QED BY <1>1, <1>2, MapTyped

LEMMA HandTyped ==
  ASSUME PendingTyped, NEW e \in Addrs, NEW k \in Operators, NEW x \in Args \cup {NoArgs},
         NEW uses \in SUBSET Addrs, NEW owned \in SUBSET Addrs, Hand(e, k, x, uses, owned)
  PROVE  PendingTyped'
<1>1. [kind |-> k, args |-> x, uses |-> uses, owned |-> owned] \in Handle
  BY DEF Handle
<1> QED BY <1>1, PutTyped DEF PendingTyped, Hand

LEMMA OpsAreOperators ==
  ASSUME program \in Programs
  PROVE  program.ops \subseteq Operators
BY ProgramsAssumption

LEMMA GetTypes ==
  ASSUME IInv, StashTyped, PendingTyped, LastTyped,
         \/ \E k \in program.ops \cap Nested, x \in Args : GetNested(k, x)
         \/ \E k \in program.ops \cap (Composed \cup Riding), x \in Args : GetComposed(k, x)
         \/ "plain" \in program.ops /\ \E x \in Args : GetPlain("plain", x, {})
         \/ \E k \in program.ops \cap Viewing, ins \in SUBSET mine : GetWithViews(k, ins)
         \/ \E k \in program.ops \cap {"meshgrid", "pool"}, ts \in SUBSET mine :
              GetPlain(k, NoArgs, ts)
  PROVE  StashTyped' /\ PendingTyped' /\ LastTyped'
<1>1. /\ Free \subseteq Addrs /\ mine \subseteq Addrs /\ program.ops \subseteq Operators
      /\ program \in Programs
  BY RoomInAddrs, OpsAreOperators DEF IInv, Shape, OwnersDisjoint
<1>2. CASE \E k \in program.ops \cap Nested, x \in Args : GetNested(k, x)
  <2>1. PICK k \in program.ops \cap Nested, x \in Args, e \in Free, i \in Free, t \in Free :
          /\ Store(MapOf(k), e,
                   [inner |-> i, temp |-> IF HasTemp(k) THEN t ELSE NoAddr, args |-> x])
          /\ Hand(e, k, x, {}, {})
          /\ UNCHANGED last
    BY ZenonT(60), <1>2 DEF GetNested
  <2>2. [inner |-> i, temp |-> IF HasTemp(k) THEN t ELSE NoAddr, args |-> x] \in Entry
    BY <1>1 DEF Entry
  <2>3. MapOf(k) \in Maps
    BY <1>1, KindsDiffer, MapInMaps
  <2>4. StashTyped'
    BY <1>1, <2>1, <2>2, <2>3, StoreTyped
  <2>5. PendingTyped'
    BY <1>1, <2>1, HandTyped
  <2> QED BY <2>1, <2>4, <2>5 DEF LastTyped
<1>3. CASE \E k \in program.ops \cap (Composed \cup Riding), x \in Args : GetComposed(k, x)
  <2>1. PICK k \in program.ops \cap (Composed \cup Riding), x \in Args, e \in Free :
          /\ Store(MapOf(k), e, [inner |-> NoAddr, temp |-> NoAddr, args |-> x])
          /\ Hand(e, k, x, {}, {})
          /\ UNCHANGED last
    BY <1>3 DEF GetComposed
  <2>2. [inner |-> NoAddr, temp |-> NoAddr, args |-> x] \in Entry
    BY DEF Entry
  <2>3. MapOf(k) \in Maps
    BY <1>1, KindsDiffer, MapInMaps
  <2>4. StashTyped'
    BY <1>1, <2>1, <2>2, <2>3, StoreTyped
  <2>5. PendingTyped'
    BY <1>1, <2>1, HandTyped
  <2> QED BY <2>1, <2>4, <2>5 DEF LastTyped
<1>4. CASE \E k \in program.ops \cap Viewing, ins \in SUBSET mine : GetWithViews(k, ins)
  <2>1. PICK k \in program.ops \cap Viewing, ins \in SUBSET mine, e \in Free,
             views \in SUBSET Free :
          Hand(e, k, NoArgs, ins, views) /\ UNCHANGED <<stash, last>>
    BY <1>4 DEF GetWithViews
  <2>2. PendingTyped'
    BY <1>1, <2>1, HandTyped
  <2> QED BY <2>1, <2>2 DEF StashTyped, LastTyped
<1>5. CASE \/ "plain" \in program.ops /\ \E x \in Args : GetPlain("plain", x, {})
           \/ \E k \in program.ops \cap {"meshgrid", "pool"}, ts \in SUBSET mine :
                GetPlain(k, NoArgs, ts)
  <2>1. PICK k \in program.ops, x \in Args \cup {NoArgs}, ts \in SUBSET mine :
          GetPlain(k, x, ts)
    BY <1>5
  <2>2. PICK e \in Free, owned \in SUBSET mine :
          Hand(e, k, x, ts, owned) /\ UNCHANGED <<stash, last>>
    BY <2>1 DEF GetPlain
  <2>3. PendingTyped'
    BY <1>1, <2>1, <2>2, HandTyped
  <2> QED BY <2>2, <2>3 DEF StashTyped, LastTyped
<1> QED BY <1>2, <1>3, <1>4, <1>5

LEMMA RunTypes ==
  ASSUME IInv, StashTyped, PendingTyped, LastTyped, NEW e \in DOMAIN pending,
         RunStrict(e) \/ RunLenient(e) \/ RunPlain(e) \/ RunUnsupported(e) \/ Destroy(e)
  PROVE  StashTyped' /\ PendingTyped' /\ LastTyped'
<1>1. PendingTyped'
  BY EraseTyped DEF PendingTyped, RunStrict, RunLenient, RunPlain, RunUnsupported, Destroy
<1>2. StashTyped'
  <2>1. CASE RunStrict(e) \/ RunLenient(e)
    <3>1. pending[e].kind \in Stashing
      BY <2>1, KindsDiffer DEF RunStrict, RunLenient
    <3>2. MapOf(pending[e].kind) \in Maps
      BY <3>1, HandleFacts
    <3> QED BY <2>1, <3>2, StashEraseTyped DEF RunStrict, RunLenient
  <2>2. CASE RunPlain(e) \/ RunUnsupported(e) \/ Destroy(e)
    BY <2>2 DEF RunPlain, RunUnsupported, Destroy, StashTyped
  <2> QED BY <2>1, <2>2
<1>3. LastTyped'
  <2>1. pending[e] \in Handle /\ pending[e].args \in Args \cup {NoArgs}
    BY DEF PendingTyped, IsMap, Handle
  <2>2. pending[e].kind \in Stashing => EntryOf(e).args = pending[e].args
    BY HandleFacts DEF HandleOK
  <2>3. CASE RunStrict(e)
    BY <2>1, <2>2, <2>3 DEF RunStrict, Ran, LastTyped
  <2>4. CASE RunLenient(e)
    BY <2>1, <2>2, <2>4, KindsDiffer DEF RunLenient, Ran, LastTyped
  <2>5. CASE RunPlain(e)
    BY <2>1, <2>5 DEF RunPlain, Ran, LastTyped
  <2>6. CASE RunUnsupported(e) \/ Destroy(e)
    BY <2>6 DEF RunUnsupported, Destroy, LastTyped
  <2> QED BY <2>3, <2>4, <2>5, <2>6
<1> QED BY <1>1, <1>2, <1>3

Types == StashTyped /\ PendingTyped /\ LastTyped

LEMMA NextTypes == IInv /\ Types /\ [Next]_vars => Types'
<1> SUFFICES ASSUME IInv, Types, [Next]_vars PROVE Types'
  OBVIOUS
<1> USE DEF Types
<1>1. CASE \/ CreateTensor
           \/ \E t \in mine : DestroyTensor(t)
           \/ \E k \in program.ops \cap Nested : GetNestedFails(k)
           \/ \E ins \in (SUBSET mine) \ {{}} : GetStackFails(ins)
           \/ UNCHANGED vars
  BY <1>1 DEF CreateTensor, DestroyTensor, GetNestedFails, GetStackFails, vars,
              StashTyped, PendingTyped, LastTyped
<1>2. CASE \E e \in DOMAIN pending :
             RunStrict(e) \/ RunLenient(e) \/ RunPlain(e) \/ RunUnsupported(e) \/ Destroy(e)
  BY <1>2, RunTypes
<1>3. mine \subseteq mine /\ {"stack", "asStrided"} = Viewing
  BY DEF Viewing
<1>4. CASE \/ \E k \in program.ops \cap Nested, x \in Args : GetNested(k, x)
           \/ \E k \in program.ops \cap (Composed \cup Riding), x \in Args : GetComposed(k, x)
           \/ "plain" \in program.ops /\ \E x \in Args : GetPlain("plain", x, {})
           \/ "stack" \in program.ops
              /\ \E ins \in (SUBSET mine) \ {{}} : GetWithViews("stack", ins)
           \/ "asStrided" \in program.ops /\ \E t \in mine : GetWithViews("asStrided", {t})
           \/ \E k \in program.ops \cap {"meshgrid", "pool"}, ts \in (SUBSET mine) \ {{}} :
                GetPlain(k, NoArgs, ts)
  BY <1>3, <1>4, GetTypes
<1> QED BY <1>1, <1>2, <1>4 DEF Next

(* The maps, the handles and the heap keep their types. *)
THEOREM TypeCorrect == "meshgrid" \notin GivesUp => (Spec => []TypeOK)
<1> SUFFICES ASSUME "meshgrid" \notin GivesUp PROVE Spec => []TypeOK
  OBVIOUS
<1>1. Init => Types
  BY DEF Init, Types, StashTyped, PendingTyped, LastTyped, IsMap
<1>2. IInv /\ Types /\ [Next]_vars => Types'
  BY NextTypes
<1>3. Spec => []IInv
  BY Invariance
<1>4. IInv /\ Types => TypeOK
  <2>1. IInv => heap \subseteq Addrs /\ mine \subseteq heap /\ lost \subseteq heap
                /\ program \in Programs
    BY DEF IInv, Shape, OwnersDisjoint, FreedOnEveryPath
  <2> QED BY <2>1 DEF TypeOK, Types, StashTyped, PendingTyped, LastTyped
<1> QED BY <1>1, <1>2, <1>3, <1>4, PTL DEF Spec
=============================================================================
