------------------------- MODULE ResourceTree_proof -------------------------
(***************************************************************************)
(* Proofs about ResourceTree, for any devices, FSAs, programs and lists    *)
(* and any number of changes and faults.                                   *)
(***************************************************************************)
EXTENDS ResourceTree, FiniteSetTheorems, WellFoundedInduction, TLAPS

(* The programs that were listed throughout and not misread. *)
Stable == Programs \ (withdrawn \cup excused)

(* Which readers run together. *)
Readers ==
    /\ redis # "off" => fsaPoll = Quiet /\ walk["derp"] = Off
    /\ walk["rediscovery"].pc # "off" => redis = "refresh"
    /\ redis = "refresh" => DOMAIN state.fsas = Devices
    /\ ~fsaPoll.on => fsaPoll = Quiet

(* A walk has lists to read, those it took along when they were cleared or *)
(* the tree's.                                                             *)
Walkable ==
    /\ fsaPoll.todo \subseteq DOMAIN state.fsas
    /\ \A t \in Walkers :
          walk[t].pc = "walk" => walk[t].todo \subseteq DOMAIN Held(t, state.fsas)

(* An FSA is held under its own device. *)
OwnLists == \A d \in DOMAIN state.fsas, f \in Fsas : f \in state.fsas[d] => Owner[f] = d

(* The origin of a stable program still names it. *)
OriginNames ==
    \A p \in Known \cap Stable :
        state.origin[p] # NoOrigin => state.origin[p] \in assigned /\ p \in lists[state.origin[p]]

(* What the fsa poll is to cancel. *)
RemovedLost == fsaPoll.removed \cap Stable = {}

(* The walk of t has noted p, an FSA that names p could not be read or is  *)
(* still ahead of it, or none was in the tree when it set out.             *)
Noted(t, p) ==
    walk[t].pc = "walk" =>
        \/ p \in walk[t].seen \/ p \in walk[t].missed
        \/ \E f \in assigned : p \in lists[f] /\ (f \in walk[t].unreachable \/ Ahead(t, f, state.fsas))
Followed == \A p \in Stable : p \in Assigned /\ \A t \in Walkers : Noted(t, p)

(* What the refresh of a rediscovery has seen it knows. *)
SeenKnown == walk["rediscovery"].pc = "walk" => walk["rediscovery"].seen \cap Stable \subseteq Known

IInv ==
    /\ TypeOK /\ Readers /\ Walkable /\ OwnLists
    /\ OriginNames /\ RemovedLost /\ Followed /\ SeenKnown
    /\ CancelledOnlyIfWithdrawn

-----------------------------------------------------------------------------
(* Lists as sets of entries with positions.                                *)

(* The least element of a set of numbers. *)
LEMMA LeastNat == ASSUME NEW S \in SUBSET Nat, S # {} PROVE \E x \in S : \A y \in S : x <= y
  <1> DEFINE R == OpToRel(<, Nat)
  <1>1. IsWellFoundedOn(R, Nat)
    BY NatLessThanWellFounded
  <1>2. \A x, y \in Nat : <<y, x>> \in R <=> y < x
    BY DEF OpToRel
  <1> HIDE DEF R
  <1>3. PICK x \in S : \A y \in S : ~ (<<y, x>> \in R)
    BY <1>1, WFMin
  <1>4. \A y \in S : ~(y < x)
    BY <1>2, <1>3
  <1> QED BY <1>4

(* A list that is not empty has a first entry. *)
LEMMA FirstIsIn ==
    ASSUME NEW L, L # {}, L \subseteq Fsas \/ L \subseteq Devices PROVE First(L) \in L
  <1>1. \A x \in L : Position[x] \in Nat
    BY ConstantsAssumption
  <1>2. PICK n \in {Position[x] : x \in L} : \A m \in {Position[x] : x \in L} : n <= m
    BY <1>1, LeastNat
  <1>3. \E x \in L : \A y \in L : Position[x] <= Position[y]
    BY <1>2
  <1> QED BY <1>3 DEF First

(* An entry's index is below the length, it differs from every other       *)
(* entry's, and entries added to the list do not lower it.                 *)
LEMMA IndexBelowLength ==
    ASSUME NEW L \in SUBSET Fsas, NEW x \in L
    PROVE  /\ IsFiniteSet(L) /\ IsFiniteSet(Before(L, x))
           /\ Cardinality(L) \in Nat /\ Cardinality(Before(L, x)) \in Nat
           /\ Cardinality(Before(L, x)) < Cardinality(L)
  <1>1. IsFiniteSet(L) /\ Before(L, x) \in SUBSET L /\ x \notin Before(L, x)
    BY FS_Subset, ConstantsAssumption DEF Before
  <1>2. IsFiniteSet(Before(L, x)) /\ Cardinality(Before(L, x)) <= Cardinality(L)
        /\ (Cardinality(L) = Cardinality(Before(L, x)) => L = Before(L, x))
    BY <1>1, FS_Subset
  <1>3. Cardinality(L) \in Nat /\ Cardinality(Before(L, x)) \in Nat
    BY <1>1, <1>2, FS_CardinalityType
  <1> QED BY <1>1, <1>2, <1>3

LEMMA IndexOrdered ==
    ASSUME NEW L \in SUBSET Fsas, NEW x \in L, NEW y \in L, Position[x] < Position[y]
    PROVE  Cardinality(Before(L, x)) < Cardinality(Before(L, y))
  <1>1. Before(L, y) \in SUBSET Fsas /\ x \in Before(L, y)
    BY DEF Before
  <1>2. Before(L, x) = Before(Before(L, y), x)
    BY ConstantsAssumption DEF Before
  <1> QED BY <1>1, <1>2, IndexBelowLength

LEMMA IndexUnique ==
    ASSUME NEW L \in SUBSET Fsas, NEW x \in L, NEW y \in L,
           Cardinality(Before(L, x)) = Cardinality(Before(L, y))
    PROVE  x = y
  <1>1. Position[x] \in Nat /\ Position[y] \in Nat
    BY ConstantsAssumption
  <1>2. ~(Position[x] < Position[y]) /\ ~(Position[y] < Position[x])
    BY IndexOrdered, IndexBelowLength
  <1> QED BY <1>1, <1>2, ConstantsAssumption

(* A list has an entry of every index below its length. *)
LEMMA EntryExists ==
    ASSUME NEW L \in SUBSET Fsas, NEW i \in Nat, i < Cardinality(L)
    PROVE  \E x \in L : Cardinality(Before(L, x)) = i
  <1> DEFINE idx(x) == Cardinality(Before(L, x))
  <1>1. IsFiniteSet(L) /\ Cardinality(L) \in Nat
    BY FS_Subset, FS_CardinalityType, ConstantsAssumption
  <1>2. \A x \in L : idx(x) \in Nat /\ idx(x) < Cardinality(L) /\ Position[x] \in Nat
    BY IndexBelowLength, ConstantsAssumption
  <1>3. \A x, y \in L : Position[x] < Position[y] => idx(x) < idx(y)
    BY IndexOrdered
  <1>4. ASSUME NEW K \in SUBSET L, K # {}
        PROVE  \E x \in K : \A y \in K : idx(y) <= idx(x) /\ (y # x => Position[y] < Position[x])
    <2> DEFINE gaps == {Cardinality(L) - idx(x) : x \in K}
    <2>1. gaps \in SUBSET Nat /\ gaps # {}
      BY <1>1, <1>2, <1>4
    <2>2. PICK n \in gaps : \A m \in gaps : n <= m
      BY <2>1, LeastNat
    <2>3. PICK x \in K : n = Cardinality(L) - idx(x)
      BY <2>2
    <2>4. \A y \in K : idx(y) <= idx(x)
      BY <1>1, <1>2, <2>2, <2>3
    <2>5. \A y \in K : ~(Position[x] < Position[y])
      BY <1>2, <1>3, <2>4
    <2>6. \A y \in K : y # x => Position[y] < Position[x]
      BY <1>2, <2>5, ConstantsAssumption
    <2> QED BY <2>4, <2>6
  <1>5. \E x \in L : idx(x) >= i
    <2>1. L # {}
      BY <1>1, FS_EmptySet
    <2>2. PICK x \in L : \A y \in L : y # x => Position[y] < Position[x]
      BY <1>4, <2>1
    <2>3. Before(L, x) = L \ {x}
      BY <1>2, <2>2 DEF Before
    <2>4. idx(x) = Cardinality(L) - 1
      BY <1>1, <2>3, FS_RemoveElement
    <2> QED BY <1>1, <2>2, <2>4
  <1>6. PICK n \in {idx(x) : x \in {y \in L : idx(y) >= i}} :
           \A m \in {idx(x) : x \in {y \in L : idx(y) >= i}} : n <= m
    <2> DEFINE up == {idx(x) : x \in {y \in L : idx(y) >= i}}
    <2>1. up \in SUBSET Nat /\ up # {}
      BY <1>2, <1>5
    <2> HIDE DEF up
    <2>2. \E n \in up : \A m \in up : n <= m
      BY <2>1, LeastNat
    <2> QED BY <2>2 DEF up
  <1>7. PICK x \in L : idx(x) = n /\ idx(x) >= i
    BY <1>6, Zenon
  <1>8. \A y \in L : idx(y) >= i => n <= idx(y)
    BY <1>6, Zenon
  <1>9. idx(x) = i
    <2> SUFFICES ASSUME idx(x) > i PROVE FALSE
      BY <1>2, <1>7
    <2>1. Before(L, x) \in SUBSET L /\ Before(L, x) # {} /\ IsFiniteSet(Before(L, x))
      BY <1>2, IndexBelowLength, FS_EmptySet DEF Before
    <2>2. PICK y \in Before(L, x) : \A z \in Before(L, x) : z # y => Position[z] < Position[y]
      BY <1>4, <2>1
    <2>3. y \in L /\ Position[y] < Position[x]
      BY <2>2 DEF Before
    <2>4. ASSUME NEW z \in L PROVE z \in Before(L, y) <=> z \in Before(L, x) /\ z # y
      <3>1. Position[x] \in Nat /\ Position[y] \in Nat /\ Position[z] \in Nat
        BY <1>2, <2>3
      <3>2. z \in Before(L, x) /\ z # y => Position[z] < Position[y]
        BY <2>2
      <3> QED BY <2>3, <3>1, <3>2 DEF Before
    <2>5. Before(L, y) = Before(L, x) \ {y}
      BY <2>1, <2>4 DEF Before
    <2>6. Cardinality(Before(L, x) \ {y}) = Cardinality(Before(L, x)) - 1
      BY <2>1, <2>2, FS_RemoveElement, Zenon
    <2>7. idx(y) = idx(x) - 1
      BY <2>5, <2>6
    <2> QED BY <1>2, <1>7, <1>8, <2>3, <2>7
  <1> QED BY <1>9

(* So the walk that stands at an FSA stands at one of its list. *)
LEMMA EntryIsIn ==
    ASSUME NEW L \in SUBSET Fsas, NEW i \in Nat, i < Cardinality(L)
    PROVE  Entry(L, i) \in L /\ Cardinality(Before(L, Entry(L, i))) = i
  BY EntryExists DEF Entry

-----------------------------------------------------------------------------
LEMMA PartialMaps ==
    ASSUME NEW S, NEW T, NEW x
    PROVE  x \in Partial(S, T) <=> DOMAIN x \subseteq S /\ x \in [DOMAIN x -> T]
  BY DEF Partial

LEMMA NothingIsPartial == \A S, T : Nothing \in Partial(S, T)
  <1>1. \A T : Nothing \in [{} -> T]
    BY DEF Nothing
  <1> QED BY <1>1 DEF Partial

LEMMA OffIsWalk == Off \in Walks /\ Off.pc = "off" /\ ~Off.detached /\ Off.seen = {}
  BY NothingIsPartial DEF Off, Walks

(* What TypeOK says of the parts of the state. *)
LEMMA Types ==
    ASSUME TypeOK
    PROVE  /\ DOMAIN state.fsas \subseteq Devices /\ Known \subseteq Programs
           /\ \A d \in DOMAIN state.fsas : state.fsas[d] \in SUBSET Fsas
           /\ \A p \in Known : state.origin[p] \in Fsas \cup {NoOrigin}
           /\ state.fsas \in Partial(Devices, SUBSET Fsas)
           /\ state.origin \in Partial(Programs, Fsas \cup {NoOrigin})
           /\ state.mapping \in SUBSET (Programs \X Devices)
           /\ \A t \in Walkers : walk[t] \in Walks
           /\ \A f \in assigned : f \in Fsas /\ Owner[f] \in Devices /\ lists[f] \in SUBSET Programs
           /\ NoOrigin \notin Fsas
  <1>1. state.fsas \in Partial(Devices, SUBSET Fsas)
        /\ state.origin \in Partial(Programs, Fsas \cup {NoOrigin})
        /\ state.mapping \in SUBSET (Programs \X Devices)
    BY DEF TypeOK, Trees
  <1>2. /\ DOMAIN state.fsas \subseteq Devices /\ state.fsas \in [DOMAIN state.fsas -> SUBSET Fsas]
        /\ Known \subseteq Programs /\ state.origin \in [Known -> Fsas \cup {NoOrigin}]
    BY <1>1, PartialMaps DEF Known
  <1>3. \A f \in assigned : f \in Fsas /\ Owner[f] \in Devices /\ lists[f] \in SUBSET Programs
    BY ConstantsAssumption DEF TypeOK
  <1> QED BY <1>1, <1>2, <1>3, ConstantsAssumption DEF TypeOK

(* The list of a device that a walk has to do. *)
LEMMA HeldIsList ==
    ASSUME TypeOK, Walkable, NEW t \in Walkers, walk[t].pc = "walk", NEW d \in walk[t].todo
    PROVE  Held(t, state.fsas)[d] \in SUBSET Fsas /\ walk[t].at \in Nat
  <1>1. walk[t] \in Walks /\ d \in DOMAIN Held(t, state.fsas)
    BY Types DEF Walkable
  <1>2. walk[t].own \in Partial(Devices, SUBSET Fsas) /\ walk[t].at \in Nat
    BY <1>1 DEF Walks
  <1>3. \A x \in DOMAIN walk[t].own : walk[t].own[x] \in SUBSET Fsas
    BY <1>2, PartialMaps
  <1> QED BY <1>1, <1>2, <1>3, Types DEF Held

(* A walk that stands at an FSA stands at one of the list it reads. *)
LEMMA AtIsIn ==
    ASSUME TypeOK, Walkable, NEW t \in Walkers, AtFsa(t)
    PROVE  /\ Current(t) \in ListOf(t) /\ Current(t) \in Fsas
           /\ ListOf(t) \in SUBSET Fsas /\ Device(t) \in walk[t].todo
           /\ Cardinality(Before(ListOf(t), Current(t))) = walk[t].at
  <1>1. Device(t) \in walk[t].todo
    <2>1. walk[t] \in Walks /\ walk[t].todo # {}
      BY Types DEF AtFsa
    <2> QED BY <2>1, FirstIsIn DEF Device, Walks
  <1>2. ListOf(t) \in SUBSET Fsas /\ walk[t].at \in Nat
    BY <1>1, HeldIsList DEF ListOf, AtFsa
  <1> QED BY <1>1, <1>2, EntryIsIn DEF AtFsa, Current

-----------------------------------------------------------------------------
(* The steps.                                                              *)

(* Programs are misread and withdrawn for good. *)
LEMMA StableShrinks ==
    ASSUME withdrawn \subseteq withdrawn', excused \subseteq excused' PROVE Stable' \subseteq Stable
  BY DEF Stable

(* A walk whose lists and tree stay as they are. *)
LEMMA NotedSame ==
    ASSUME NEW u \in Walkers, NEW p, Noted(u, p), walk'[u] = walk[u],
           state'.fsas = state.fsas, assigned' = assigned, lists' = lists
    PROVE  Noted(u, p)'
  BY DEF Noted, Ahead, Held, Device

(* A refresh that sets out has every listed program ahead or misses it. *)
LEMMA SettingOut ==
    ASSUME TypeOK, NEW fs \in Partial(Devices, SUBSET Fsas), NEW t \in Walkers,
           walk'[t] = SetOut(fs), state'.fsas = fs, assigned' = assigned, lists' = lists,
           NEW p \in Assigned
    PROVE  Noted(t, p)'
  <1>1. walk'[t].todo = DOMAIN fs /\ walk'[t].at = 0 /\ ~walk'[t].detached
        /\ walk'[t].pc = "walk"
        /\ walk'[t].missed = Assigned \ UNION {lists[f] : f \in {g \in assigned :
                                              Owner[g] \in DOMAIN fs /\ g \in fs[Owner[g]]}}
    BY DEF SetOut, Off
  <1> SUFFICES ASSUME p \notin walk'[t].missed PROVE Noted(t, p)'
    BY DEF Noted
  <1>2. PICK f \in assigned : p \in lists[f] /\ Owner[f] \in DOMAIN fs /\ f \in fs[Owner[f]]
    BY <1>1
  <1>3. fs[Owner[f]] \in SUBSET Fsas
    BY <1>2, PartialMaps
  <1>4. Cardinality(Before(fs[Owner[f]], f)) >= 0
    BY <1>2, <1>3, IndexBelowLength
  <1>5. Ahead(t, f, state.fsas)'
    BY <1>1, <1>2, <1>4 DEF Ahead, Held
  <1> QED BY <1>2, <1>5 DEF Noted

(* The entries of the lists are replaced under a walk: what it does not    *)
(* come to any more is misread.                                            *)
LEMMA ListsReplaced ==
    ASSUME NEW t \in Walkers, NEW p, Noted(t, p), p \notin PassedOver(state'.fsas),
           walk'[t] = walk[t], assigned' = assigned, lists' = lists
    PROVE  Noted(t, p)'
  <1>1. ASSUME NEW f \in assigned, p \in lists[f], Ahead(t, f, state.fsas)
        PROVE  Ahead(t, f, state.fsas)'
    <2>1. Ahead(t, f, state'.fsas)
      BY <1>1 DEF PassedOver
    <2> QED BY <2>1 DEF Ahead, Held, Device
  <1> QED BY <1>1 DEF Noted

LEMMA PassedOverIsListed ==
    ASSUME TypeOK, NEW fs PROVE PassedOver(fs) \subseteq Assigned /\ PassedOver(fs) \subseteq Programs
  <1>1. PassedOver(fs) \subseteq Assigned
    BY DEF PassedOver, Assigned
  <1>2. Assigned \subseteq Programs
    BY Types DEF Assigned
  <1> QED BY <1>1, <1>2

(* A step of one walker: what it does to the relations of the readers, and *)
(* what it must show of its own walk.                                      *)
LEMMA WalkMoves ==
    ASSUME IInv, NEW t \in Walkers, NEW r \in Walks, walk' = [walk EXCEPT ![t] = r],
           state'.fsas = state.fsas, assigned' = assigned, lists' = lists, fsaPoll' = fsaPoll,
           withdrawn' = withdrawn, excused \subseteq excused',
           redis' = redis \/ (t = "rediscovery" /\ redis = "refresh" /\ redis' = "off"),
           t = "derp" /\ redis # "off" => r = Off,
           t = "rediscovery" /\ r.pc # "off" => redis' = "refresh",
           t = "rediscovery" /\ redis' = "off" => r.pc = "off",
           r.pc = "walk" => r.todo \subseteq DOMAIN (IF r.detached THEN r.own ELSE state.fsas),
           \A p \in Stable' : Noted(t, p)'
    PROVE  Readers' /\ Walkable' /\ OwnLists' /\ RemovedLost' /\ Followed' /\ Stable' \subseteq Stable
  <1>1. walk'[t] = r /\ \A u \in Walkers : u # t => walk'[u] = walk[u]
    BY DEF IInv, TypeOK
  <1>2. Stable' \subseteq Stable
    BY StableShrinks
  <1>3. Readers'
    <2>1. redis' # "off" => fsaPoll' = Quiet /\ walk'["derp"] = Off
      BY <1>1 DEF IInv, Readers, Walkers
    <2>2. walk'["rediscovery"].pc # "off" => redis' = "refresh"
      BY <1>1 DEF IInv, Readers, Walkers
    <2>3. redis' = "refresh" => DOMAIN state'.fsas = Devices
      BY DEF IInv, Readers
    <2>4. ~fsaPoll'.on => fsaPoll' = Quiet
      BY DEF IInv, Readers
    <2>5. Quiet' = Quiet /\ Off' = Off
      BY DEF Quiet, Off, Nothing
    <2> QED BY <2>1, <2>2, <2>3, <2>4, <2>5 DEF Readers
  <1>4. Walkable'
    BY <1>1 DEF IInv, Walkable, Held
  <1>5. OwnLists' /\ RemovedLost'
    BY <1>2 DEF IInv, OwnLists, RemovedLost
  <1>6. Followed'
    <2>1. ASSUME NEW p \in Stable' PROVE p \in Assigned' /\ \A u \in Walkers : Noted(u, p)'
      <3>1. p \in Assigned /\ \A u \in Walkers : Noted(u, p)
        BY <1>2 DEF IInv, Followed
      <3>2. ASSUME NEW u \in Walkers, u # t PROVE Noted(u, p)'
        BY <1>1, <3>1, <3>2, NotedSame
      <3> QED BY <3>1, <3>2 DEF Assigned
    <2> QED BY <2>1 DEF Followed, Walkers
  <1> QED BY <1>2, <1>3, <1>4, <1>5, <1>6

(* A step that leaves the tree alone. *)
LEMMA TreeSame ==
    ASSUME IInv, Stable' \subseteq Stable, state' = state, assigned' = assigned, lists' = lists
    PROVE  OriginNames'
  BY DEF IInv, OriginNames, Known

LEMMA SeenSame ==
    ASSUME IInv, Stable' \subseteq Stable, Known \subseteq Known',
           walk'["rediscovery"].pc = "walk" => walk["rediscovery"].pc = "walk"
                                    /\ walk'["rediscovery"].seen = walk["rediscovery"].seen
    PROVE  SeenKnown'
  BY DEF IInv, SeenKnown

LEMMA EventSame ==
    ASSUME IInv, event' = event, withdrawn \subseteq withdrawn', excused \subseteq excused'
    PROVE  CancelledOnlyIfWithdrawn'
  BY DEF IInv, CancelledOnlyIfWithdrawn

LEMMA CancelsOnly ==
    ASSUME IInv, NEW ps, CancelProgram(ps), withdrawn' = withdrawn, excused \subseteq excused',
           ps \cap Stable' = {}
    PROVE  /\ event' \in [Programs -> {"none", "running", "cancelled"}]
           /\ CancelledOnlyIfWithdrawn'
  <1>1. \A p \in Programs : event'[p] = "cancelled" => event[p] = "cancelled" \/ p \in ps
    BY DEF CancelProgram
  <1>2. event' \in [Programs -> {"none", "running", "cancelled"}]
    BY DEF IInv, TypeOK, CancelProgram
  <1> QED BY <1>1, <1>2 DEF IInv, CancelledOnlyIfWithdrawn, Stable

LEMMA SetOutIsWalk ==
    ASSUME TypeOK, NEW fs \in Partial(Devices, SUBSET Fsas)
    PROVE  SetOut(fs) \in Walks /\ SetOut(fs).pc = "walk" /\ SetOut(fs).todo = DOMAIN fs
           /\ ~SetOut(fs).detached /\ SetOut(fs).seen = {}
  <1>1. DOMAIN fs \subseteq Devices
    BY PartialMaps
  <1>2. Assigned \subseteq Programs
    BY Types DEF Assigned
  <1>3. \A S : Assigned \ S \subseteq Programs
    BY <1>2
  <1> QED BY <1>1, <1>3, OffIsWalk DEF SetOut, Off, Walks

LEMMA WalkBeginStep == ASSUME IInv, NEW t \in Walkers, WalkBegin(t) PROVE IInv'
  <1> DEFINE r == SetOut(state.fsas)
  <1>1. r \in Walks /\ r.pc = "walk" /\ r.todo = DOMAIN state.fsas /\ ~r.detached
    BY SetOutIsWalk, Types DEF IInv
  <1>2. walk' = [walk EXCEPT ![t] = r] /\ t # "rediscovery" /\ (t = "derp" => redis = "off")
        /\ assigned' = assigned /\ lists' = lists /\ withdrawn' = withdrawn /\ changes' = changes
        /\ state' = state /\ fsaPoll' = fsaPoll /\ redis' = redis /\ previous' = previous
        /\ event' = event /\ excused' = excused /\ faults' = faults
    BY ConstantsAssumption DEF WalkBegin, server
  <1>3. walk'[t] = r /\ \A u \in Walkers : u # t => walk'[u] = walk[u]
    BY <1>2 DEF IInv, TypeOK
  <1>4. ASSUME NEW p \in Stable' PROVE Noted(t, p)'
    <2>1. p \in Assigned
      BY <1>2 DEF IInv, Followed, Stable
    <2> QED BY <1>2, <1>3, <2>1, SettingOut, Types DEF IInv
  <1> HIDE DEF r
  <1>5. Readers' /\ Walkable' /\ OwnLists' /\ RemovedLost' /\ Followed' /\ Stable' \subseteq Stable
    BY <1>1, <1>2, <1>4, WalkMoves
  <1>6. TypeOK'
    BY <1>1, <1>2 DEF IInv, TypeOK
  <1>7. SeenKnown'
    BY <1>2, <1>3, <1>5, SeenSame DEF Walkers, Known
  <1> QED BY <1>2, <1>5, <1>6, <1>7, TreeSame, EventSame DEF IInv

(* A walk that has read, or failed to read, the list it stands at. *)
LEMMA PassesOne ==
    ASSUME IInv, NEW t \in Walkers, AtFsa(t), NEW r \in Walks,
           walk' = [walk EXCEPT ![t] = r], state'.fsas = state.fsas,
           assigned' = assigned, lists' = lists,
           r.todo = walk[t].todo, r.at = walk[t].at + 1, r.missed = walk[t].missed,
           r.pc = "walk", r.detached = walk[t].detached, r.own = walk[t].own,
           walk[t].seen \subseteq r.seen, walk[t].unreachable \subseteq r.unreachable,
           NEW p \in Stable,
           Current(t) \in assigned /\ p \in lists[Current(t)]
               => p \in r.seen \/ Current(t) \in r.unreachable
    PROVE  Noted(t, p)'
  <1>1. walk'[t] = r /\ walk[t].pc = "walk"
    BY DEF IInv, TypeOK, AtFsa
  <1>2. CASE p \in walk[t].seen \/ p \in walk[t].missed
    BY <1>1, <1>2 DEF Noted
  <1>3. ASSUME NEW f \in assigned, p \in lists[f], f \in walk[t].unreachable \/ f = Current(t)
        PROVE  Noted(t, p)'
    BY <1>1, <1>3 DEF Noted
  <1>4. ASSUME NEW f \in assigned, p \in lists[f], Ahead(t, f, state.fsas), f # Current(t)
        PROVE  Noted(t, p)'
    <2> DEFINE L == Held(t, state.fsas)[Owner[f]]
    <2>1. Owner[f] \in walk[t].todo /\ f \in L /\ L \in SUBSET Fsas
          /\ (Owner[f] = Device(t) => Cardinality(Before(L, f)) >= walk[t].at)
      BY <1>1, <1>4, HeldIsList DEF IInv, Ahead
    <2>2. Cardinality(Before(L, f)) \in Nat /\ walk[t].at \in Nat
      BY <1>1, <2>1, IndexBelowLength, HeldIsList DEF IInv
    <2>3. Owner[f] = Device(t) => Cardinality(Before(L, f)) # walk[t].at
      <3> SUFFICES ASSUME Owner[f] = Device(t) PROVE Cardinality(Before(L, f)) # walk[t].at
        OBVIOUS
      <3>1. L = ListOf(t)
        BY DEF ListOf
      <3>2. Current(t) \in L /\ Cardinality(Before(L, Current(t))) = walk[t].at
        BY <3>1, AtIsIn DEF IInv
      <3> HIDE DEF L
      <3> QED BY <1>4, <2>1, <3>2, IndexUnique
    <2>4. Owner[f] = Device(t) => Cardinality(Before(L, f)) >= r.at
      BY <2>1, <2>2, <2>3
    <2>5. Device(t)' = Device(t) /\ Held(t, state.fsas)' = Held(t, state.fsas)
      BY <1>1 DEF Device, Held
    <2>6. Ahead(t, f, state.fsas)'
      BY <1>1, <2>1, <2>4, <2>5 DEF Ahead
    <2> QED BY <1>4, <2>6 DEF Noted
  <1>5. Noted(t, p)
    BY DEF IInv, Followed
  <1> QED BY <1>1, <1>2, <1>3, <1>4, <1>5 DEF Noted

(* Where a walk that reads lists may be. *)
LEMMA WalkingWhere ==
    ASSUME IInv, NEW t \in Walkers, walk[t].pc = "walk"
    PROVE  /\ t = "derp" => redis = "off"
           /\ t = "rediscovery" => redis = "refresh"
           /\ walk[t].todo \subseteq DOMAIN (IF walk[t].detached THEN walk[t].own ELSE state.fsas)
  BY OffIsWalk DEF IInv, Readers, Walkable, Held

LEMMA ListAbsentStep == ASSUME IInv, NEW t \in Walkers, ListAbsent(t) PROVE IInv'
  <1> DEFINE r == [walk[t] EXCEPT !.at = @ + 1]
  <1>1. walk[t] \in Walks /\ walk[t].pc = "walk" /\ AtFsa(t)
    BY Types DEF IInv, ListAbsent, AtFsa
  <1>2. r \in Walks /\ r.pc = "walk" /\ r.todo = walk[t].todo /\ r.at = walk[t].at + 1
        /\ r.seen = walk[t].seen /\ r.unreachable = walk[t].unreachable
        /\ r.detached = walk[t].detached /\ r.own = walk[t].own /\ r.missed = walk[t].missed
    BY <1>1 DEF Walks
  <1>3. walk' = [walk EXCEPT ![t] = r] /\ excused' = excused \cup lists[Current(t)]
        /\ assigned' = assigned /\ lists' = lists /\ withdrawn' = withdrawn /\ changes' = changes
        /\ state' = state /\ fsaPoll' = fsaPoll /\ redis' = redis /\ previous' = previous
        /\ event' = event
    BY DEF ListAbsent, server
  <1>4. faults' \in 0..MaxFaults
    BY ConstantsAssumption DEF ListAbsent, Fault, IInv, TypeOK
  <1> HIDE DEF r
  <1>5. ASSUME NEW p \in Stable' PROVE Noted(t, p)'
    <2>1. p \in Stable /\ p \notin lists[Current(t)]
      BY <1>3, <1>5 DEF Stable
    <2> QED BY <1>1, <1>2, <1>3, <1>5, <2>1, PassesOne
  <1>6. Readers' /\ Walkable' /\ OwnLists' /\ RemovedLost' /\ Followed' /\ Stable' \subseteq Stable
    BY <1>1, <1>2, <1>3, <1>5, WalkMoves, WalkingWhere
  <1>7. TypeOK'
    <2>1. excused' \subseteq Programs
      BY <1>1, <1>3, AtIsIn DEF IInv, TypeOK
    <2> QED BY <1>2, <1>3, <1>4, <2>1 DEF IInv, TypeOK
  <1>8. SeenKnown'
    BY <1>1, <1>2, <1>3, <1>6, SeenSame DEF IInv, TypeOK, Walkers, Known
  <1> QED BY <1>3, <1>6, <1>7, <1>8, TreeSame, EventSame DEF IInv

LEMMA ListPagingFaultStep == ASSUME IInv, NEW t \in Walkers, ListPagingFault(t) PROVE IInv'
  <1> DEFINE r == [walk[t] EXCEPT !.at = @ + 1, !.unreachable = @ \cup {Current(t)}]
  <1>1. walk[t] \in Walks /\ walk[t].pc = "walk" /\ AtFsa(t) /\ Current(t) \in Fsas
    <2>1. AtFsa(t)
      BY DEF ListPagingFault
    <2>2. Current(t) \in Fsas
      BY <2>1, AtIsIn DEF IInv
    <2> QED BY <2>1, <2>2, Types DEF IInv, AtFsa
  <1>2. r \in Walks /\ r.pc = "walk" /\ r.todo = walk[t].todo /\ r.at = walk[t].at + 1
        /\ r.seen = walk[t].seen /\ r.unreachable = walk[t].unreachable \cup {Current(t)}
        /\ r.detached = walk[t].detached /\ r.own = walk[t].own /\ r.missed = walk[t].missed
    <2>1. walk[t].at + 1 \in Nat /\ walk[t].unreachable \cup {Current(t)} \in SUBSET Fsas
      BY <1>1 DEF Walks
    <2>2. r = [walk[t] EXCEPT !.at = walk[t].at + 1,
                              !.unreachable = walk[t].unreachable \cup {Current(t)}]
      BY <1>1 DEF Walks
    <2> HIDE DEF r
    <2> QED BY <1>1, <2>1, <2>2 DEF Walks
  <1>3. walk' = [walk EXCEPT ![t] = r]
        /\ assigned' = assigned /\ lists' = lists /\ withdrawn' = withdrawn /\ changes' = changes
        /\ state' = state /\ fsaPoll' = fsaPoll /\ redis' = redis /\ previous' = previous
        /\ event' = event /\ excused' = excused
    BY DEF ListPagingFault, server
  <1>4. faults' \in 0..MaxFaults
    BY ConstantsAssumption DEF ListPagingFault, Fault, IInv, TypeOK
  <1> HIDE DEF r
  <1>5. ASSUME NEW p \in Stable' PROVE Noted(t, p)'
    <2>1. p \in Stable
      BY <1>3, <1>5 DEF Stable
    <2> QED BY <1>1, <1>2, <1>3, <1>5, <2>1, PassesOne
  <1>6. Readers' /\ Walkable' /\ OwnLists' /\ RemovedLost' /\ Followed' /\ Stable' \subseteq Stable
    BY <1>1, <1>2, <1>3, <1>5, WalkMoves, WalkingWhere
  <1>7. TypeOK'
    BY <1>2, <1>3, <1>4 DEF IInv, TypeOK
  <1>8. SeenKnown'
    BY <1>1, <1>2, <1>3, <1>6, SeenSame DEF IInv, TypeOK, Walkers, Known
  <1> QED BY <1>3, <1>6, <1>7, <1>8, TreeSame, EventSame DEF IInv

(* refresh_der_programs at a list: what it names is seen, known and mapped. *)
LEMMA ListReadStep == ASSUME IInv, NEW t \in Walkers, ListRead(t) PROVE IInv'
  <1> DEFINE ps == IF Current(t) \in assigned THEN lists[Current(t)] ELSE {}
             r  == [walk[t] EXCEPT !.at = @ + 1, !.seen = @ \cup ps]
             o  == [p \in Known \cup ps |-> IF p \in Known THEN state.origin[p] ELSE Current(t)]
  <1>1. walk[t] \in Walks /\ walk[t].pc = "walk" /\ AtFsa(t) /\ Current(t) \in Fsas
        /\ Device(t) \in walk[t].todo
    <2>1. AtFsa(t)
      BY DEF ListRead
    <2>2. Current(t) \in Fsas /\ Device(t) \in walk[t].todo
      BY <2>1, AtIsIn DEF IInv
    <2> QED BY <2>1, <2>2, Types DEF IInv, AtFsa
  <1>2. ps \in SUBSET Programs
        /\ (\A p \in ps : Current(t) \in assigned /\ p \in lists[Current(t)])
        /\ (Current(t) \in assigned => ps = lists[Current(t)])
    BY <1>1 DEF IInv, TypeOK
  <1>3. walk' = [walk EXCEPT ![t] = r] /\ state' = MapPrograms(t, ps)
        /\ assigned' = assigned /\ lists' = lists /\ withdrawn' = withdrawn /\ changes' = changes
        /\ fsaPoll' = fsaPoll /\ redis' = redis /\ previous' = previous
        /\ event' = event /\ excused' = excused /\ faults' = faults
    BY DEF ListRead, server
  <1> HIDE DEF ps
  <1>4. r \in Walks /\ r.pc = "walk" /\ r.todo = walk[t].todo /\ r.at = walk[t].at + 1
        /\ r.seen = walk[t].seen \cup ps /\ r.unreachable = walk[t].unreachable
        /\ r.detached = walk[t].detached /\ r.own = walk[t].own /\ r.missed = walk[t].missed
    <2>1. walk[t].at + 1 \in Nat /\ walk[t].seen \cup ps \in SUBSET Programs
      BY <1>1, <1>2 DEF Walks
    <2>2. r = [walk[t] EXCEPT !.at = walk[t].at + 1, !.seen = walk[t].seen \cup ps]
      BY <1>1 DEF Walks
    <2> HIDE DEF r
    <2> QED BY <1>1, <2>1, <2>2 DEF Walks
  <1>5. /\ o \in Partial(Programs, Fsas \cup {NoOrigin}) /\ DOMAIN o = Known \cup ps
        /\ \A p \in Known \cup ps : o[p] = IF p \in Known THEN state.origin[p] ELSE Current(t)
    <2>1. DOMAIN o = Known \cup ps /\ Known \cup ps \subseteq Programs
          /\ \A p \in Known \cup ps : o[p] \in Fsas \cup {NoOrigin}
      BY <1>1, <1>2, Types DEF IInv
    <2>2. o \in [Known \cup ps -> Fsas \cup {NoOrigin}]
      BY <2>1
    <2> QED BY <2>1, <2>2, PartialMaps
  <1> HIDE DEF r
  <1>6. state'.fsas = state.fsas /\ state'.origin = o /\ state' \in Trees
    <2>1. state' = [state EXCEPT !.origin = o, !.mapping = @ \cup (ps \X {Device(t)})]
      BY <1>3 DEF MapPrograms
    <2> HIDE DEF o
    <2>2. Device(t) \in Devices
      BY <1>1 DEF Walks
    <2>3. state.mapping \cup (ps \X {Device(t)}) \in SUBSET (Programs \X Devices)
      BY <1>2, <2>2, Types DEF IInv
    <2> QED BY <1>5, <2>1, <2>3 DEF IInv, TypeOK, Trees
  <1> HIDE DEF o
  <1>7. ASSUME NEW p \in Stable' PROVE Noted(t, p)'
    <2>1. p \in Stable /\ (Current(t) \in assigned /\ p \in lists[Current(t)] => p \in ps)
      BY <1>2, <1>3, <1>7 DEF Stable
    <2> QED BY <1>1, <1>3, <1>4, <1>6, <1>7, <2>1, PassesOne
  <1>8. Readers' /\ Walkable' /\ OwnLists' /\ RemovedLost' /\ Followed' /\ Stable' \subseteq Stable
    BY <1>1, <1>3, <1>4, <1>6, <1>7, WalkMoves, WalkingWhere
  <1>9. TypeOK'
    BY <1>3, <1>4, <1>6 DEF IInv, TypeOK
  <1>10. Known' = Known \cup ps
    BY <1>5, <1>6 DEF Known
  <1>11. SeenKnown'
    <2>1. CASE t = "rediscovery"
      BY <1>1, <1>3, <1>4, <1>8, <1>10, <2>1 DEF IInv, TypeOK, SeenKnown
    <2>2. CASE t # "rediscovery"
      BY <1>3, <1>8, <1>10, <2>2, SeenSame DEF IInv, TypeOK, Walkers
    <2> QED BY <2>1, <2>2
  <1>12. OriginNames'
    BY <1>2, <1>3, <1>5, <1>6, <1>8, <1>10 DEF IInv, OriginNames
  <1> QED BY <1>3, <1>8, <1>9, <1>11, <1>12, EventSame DEF IInv

LEMMA ListRaisesStep == ASSUME IInv, NEW t \in Walkers, ListRaises(t) PROVE IInv'
  <1>1. walk[t].pc = "walk" /\ walk' = [walk EXCEPT ![t] = Off]
        /\ redis' = (IF t = "rediscovery" THEN "off" ELSE redis)
        /\ previous' \in {previous, {}}
    BY DEF ListRaises, AtFsa, EndsWith
  <1>2. assigned' = assigned /\ lists' = lists /\ withdrawn' = withdrawn /\ changes' = changes
        /\ state' = state /\ fsaPoll' = fsaPoll
        /\ event' = event /\ excused' = excused
    BY DEF ListRaises, server
  <1>3. faults' \in 0..MaxFaults
    BY ConstantsAssumption DEF ListRaises, Fault, IInv, TypeOK
  <1>4. walk'[t] = Off /\ \A p : Noted(t, p)'
    BY <1>1, OffIsWalk DEF IInv, TypeOK, Noted
  <1>5. Readers' /\ Walkable' /\ OwnLists' /\ RemovedLost' /\ Followed' /\ Stable' \subseteq Stable
    BY <1>1, <1>2, <1>4, OffIsWalk, WalkMoves, WalkingWhere
  <1>6. TypeOK'
    BY <1>1, <1>2, <1>3, OffIsWalk DEF IInv, TypeOK
  <1>7. SeenKnown'
    BY <1>1, <1>2, <1>5, OffIsWalk, SeenSame DEF IInv, TypeOK, Walkers, Known
  <1> QED BY <1>2, <1>5, <1>6, <1>7, TreeSame, EventSame DEF IInv

(* No FSA of the device is left behind the last entry of its list. *)
LEMMA NextDeviceStep == ASSUME IInv, NEW t \in Walkers, NextDevice(t) PROVE IInv'
  <1> DEFINE r == [walk[t] EXCEPT !.todo = @ \ {Device(t)}, !.at = 0]
  <1>1. walk[t] \in Walks /\ walk[t].pc = "walk" /\ ~AtFsa(t) /\ walk[t].todo # {}
    BY Types DEF IInv, NextDevice
  <1>2. r \in Walks /\ r.pc = "walk" /\ r.todo = walk[t].todo \ {Device(t)} /\ r.at = 0
        /\ r.seen = walk[t].seen /\ r.unreachable = walk[t].unreachable
        /\ r.detached = walk[t].detached /\ r.own = walk[t].own /\ r.missed = walk[t].missed
    BY <1>1 DEF Walks
  <1>3. walk' = [walk EXCEPT ![t] = r]
        /\ assigned' = assigned /\ lists' = lists /\ withdrawn' = withdrawn /\ changes' = changes
        /\ state' = state /\ fsaPoll' = fsaPoll /\ redis' = redis /\ previous' = previous
        /\ event' = event /\ excused' = excused /\ faults' = faults
    BY DEF NextDevice, server
  <1> HIDE DEF r
  <1>4. ASSUME NEW p \in Stable' PROVE Noted(t, p)'
    <2>1. Noted(t, p)
      BY <1>3, <1>4 DEF IInv, Followed, Stable
    <2>2. walk'[t] = r /\ Held(t, state.fsas)' = Held(t, state.fsas)
      BY <1>2, <1>3 DEF IInv, TypeOK, Held
    <2>3. ASSUME NEW f \in assigned, Ahead(t, f, state.fsas) PROVE Ahead(t, f, state.fsas)'
      <3> DEFINE L == Held(t, state.fsas)[Owner[f]]
      <3>1. Owner[f] \in walk[t].todo /\ f \in L /\ L \in SUBSET Fsas /\ walk[t].at \in Nat
            /\ (Owner[f] = Device(t) => Cardinality(Before(L, f)) >= walk[t].at)
        BY <1>1, <2>3, HeldIsList DEF IInv, Ahead
      <3>2. Cardinality(Before(L, f)) \in Nat /\ Cardinality(Before(L, f)) < Cardinality(L)
            /\ Cardinality(L) \in Nat
        BY <3>1, IndexBelowLength
      <3>3. Owner[f] # Device(t)
        <4> SUFFICES ASSUME Owner[f] = Device(t) PROVE FALSE
          OBVIOUS
        <4>1. ListOf(t) = L
          BY DEF ListOf
        <4>2. ~(walk[t].at < Cardinality(L))
          BY <1>1, <4>1 DEF AtFsa
        <4> HIDE DEF L
        <4> QED BY <3>1, <3>2, <4>2
      <3>4. Owner[f] \in r.todo /\ Cardinality(Before(L, f)) >= r.at
        BY <1>2, <3>1, <3>2, <3>3
      <3> QED BY <1>2, <2>2, <3>1, <3>4 DEF Ahead
    <2> QED BY <1>1, <1>2, <1>3, <2>1, <2>2, <2>3 DEF Noted
  <1>5. Readers' /\ Walkable' /\ OwnLists' /\ RemovedLost' /\ Followed' /\ Stable' \subseteq Stable
    BY <1>1, <1>2, <1>3, <1>4, WalkMoves, WalkingWhere
  <1>6. TypeOK'
    BY <1>2, <1>3 DEF IInv, TypeOK
  <1>7. SeenKnown'
    BY <1>1, <1>2, <1>3, <1>5, SeenSame DEF IInv, TypeOK, Walkers, Known
  <1> QED BY <1>3, <1>5, <1>6, <1>7, TreeSame, EventSame DEF IInv

(* Programs are dropped from the tree. *)
LEMMA DropsPrograms ==
    ASSUME IInv, NEW ps, NEW m \in SUBSET state.mapping,
           state' = [state EXCEPT !.origin = [p \in Known \ ps |-> state.origin[p]], !.mapping = m]
    PROVE  /\ state' \in Trees /\ state'.fsas = state.fsas /\ Known' = Known \ ps
           /\ \A p \in Known' : state'.origin[p] = state.origin[p]
  <1> DEFINE o == [p \in Known \ ps |-> state.origin[p]]
  <1>1. o \in Partial(Programs, Fsas \cup {NoOrigin}) /\ DOMAIN o = Known \ ps
        /\ \A p \in Known \ ps : o[p] = state.origin[p]
    <2>1. DOMAIN o = Known \ ps /\ Known \ ps \subseteq Programs
          /\ \A p \in Known \ ps : o[p] \in Fsas \cup {NoOrigin}
      BY Types DEF IInv
    <2>2. o \in [Known \ ps -> Fsas \cup {NoOrigin}]
      BY <2>1
    <2> QED BY <2>1, <2>2, PartialMaps
  <1>2. m \in SUBSET (Programs \X Devices)
    BY Types DEF IInv
  <1> HIDE DEF o
  <1>3. state' = [state EXCEPT !.origin = o, !.mapping = m]
    BY DEF o
  <1>4. state' \in Trees /\ state'.fsas = state.fsas /\ state'.origin = o
    BY <1>1, <1>2, <1>3 DEF IInv, TypeOK, Trees
  <1> QED BY <1>1, <1>4 DEF Known

(* The pruning of refresh_der_programs: the walk is over, so it saw every  *)
(* stable program or could not read the list that names it.                *)
LEMMA PruneStep == ASSUME IInv, NEW t \in Walkers, Prune(t) PROVE IInv'
  <1> DEFINE stale == {p \in Known \ walk[t].seen : state.origin[p] \notin walk[t].unreachable}
             lost  == IF t = "rediscovery" THEN previous \ (Known \ stale) ELSE {}
             blind == walk[t].missed \cup UNION {lists[f] : f \in walk[t].unreachable}
             r     == [Off EXCEPT !.pc = "controls"]
             m     == {x \in state.mapping : x[1] \notin stale}
  <1>1. walk[t] \in Walks /\ walk[t].pc = "walk" /\ walk[t].todo = {}
    BY Types DEF IInv, Prune
  <1>2. r \in Walks /\ r.pc = "controls"
    BY OffIsWalk DEF Walks, Off
  <1>3. walk' = [walk EXCEPT ![t] = r] /\ CancelProgram(stale \cup lost)
        /\ excused' = excused \cup ((stale \cup lost) \cap blind)
    BY DEF Prune
  <1>4. state' = [state EXCEPT !.origin = [p \in Known \ stale |-> state.origin[p]], !.mapping = m]
    BY DEF Prune, Without, Known
  <1>5. assigned' = assigned /\ lists' = lists /\ withdrawn' = withdrawn /\ changes' = changes
        /\ fsaPoll' = fsaPoll /\ redis' = redis /\ previous' = previous /\ faults' = faults
    BY DEF Prune, server
  <1>6. stale \subseteq Known /\ stale \cap walk[t].seen = {} /\ m \in SUBSET state.mapping
        /\ lost \subseteq Programs /\ (t # "rediscovery" => lost = {})
        /\ lost \cap (Known \ stale) = {} /\ stale \subseteq Programs
    BY Types DEF IInv, TypeOK
  <1>7. walk[t].missed \subseteq blind /\ \A f \in walk[t].unreachable : lists[f] \subseteq blind
    OBVIOUS
  <1> HIDE DEF stale, lost, blind, r, m
  <1>8. state' \in Trees /\ state'.fsas = state.fsas /\ Known' = Known \ stale
        /\ \A p \in Known' : state'.origin[p] = state.origin[p]
    BY <1>4, <1>6, DropsPrograms
  <1>9. walk'[t] = r /\ \A p : Noted(t, p)'
    BY <1>2, <1>3 DEF IInv, TypeOK, Noted
  <1>10. Readers' /\ Walkable' /\ OwnLists' /\ RemovedLost' /\ Followed' /\ Stable' \subseteq Stable
    BY <1>1, <1>2, <1>3, <1>5, <1>8, <1>9, WalkMoves, WalkingWhere
  <1>11. ASSUME NEW p \in Stable' PROVE p \notin stale \cup lost
    <2>1. p \in Stable /\ ~(p \in stale \cup lost /\ p \in blind)
      BY <1>3, <1>10 DEF Stable
    <2>2. Noted(t, p)
      BY <2>1 DEF IInv, Followed
    <2>3. \A f : ~Ahead(t, f, state.fsas)
      BY <1>1 DEF Ahead
    <2>4. p \in walk[t].seen \/ p \in blind
      BY <1>1, <1>7, <2>2, <2>3 DEF Noted
    <2>5. CASE p \in walk[t].seen
      <3>1. p \notin stale
        BY <1>6, <2>5
      <3>2. t = "rediscovery" => p \in Known
        BY <1>1, <2>1, <2>5 DEF IInv, SeenKnown
      <3> QED BY <1>6, <3>1, <3>2
    <2> QED BY <2>1, <2>4, <2>5
  <1>12. /\ event' \in [Programs -> {"none", "running", "cancelled"}]
         /\ CancelledOnlyIfWithdrawn'
    BY <1>3, <1>5, <1>11, CancelsOnly
  <1>13. TypeOK'
    <2>1. excused' \subseteq Programs
      BY <1>3, <1>6 DEF IInv, TypeOK
    <2> QED BY <1>2, <1>3, <1>5, <1>8, <1>12, <2>1 DEF IInv, TypeOK
  <1>14. SeenKnown'
    <2>1. CASE t = "rediscovery"
      BY <1>2, <1>9, <2>1 DEF SeenKnown
    <2>2. CASE t # "rediscovery"
      BY <1>3, <1>8, <1>10, <1>11, <2>2 DEF IInv, TypeOK, SeenKnown, Walkers
    <2> QED BY <2>1, <2>2
  <1>15. OriginNames'
    BY <1>5, <1>8, <1>10 DEF IInv, OriginNames
  <1> QED BY <1>10, <1>12, <1>13, <1>14, <1>15 DEF IInv

LEMMA ControlsStep == ASSUME IInv, NEW t \in Walkers, Controls(t) PROVE IInv'
  <1>1. walk[t].pc = "controls" /\ walk' = [walk EXCEPT ![t] = Off]
        /\ redis' = (IF t = "rediscovery" THEN "off" ELSE redis)
        /\ previous' \in {previous, {}}
    BY DEF Controls, EndsWith
  <1>2. assigned' = assigned /\ lists' = lists /\ withdrawn' = withdrawn /\ changes' = changes
        /\ state' = state /\ fsaPoll' = fsaPoll
        /\ excused' = excused /\ faults' = faults
    BY DEF Controls, server
  <1>3. event' \in [Programs -> {"none", "running", "cancelled"}]
        /\ \A p \in Programs : event'[p] = "cancelled" => event[p] = "cancelled"
    BY DEF Controls, ProcessControls, IInv, TypeOK
  <1>4. walk'[t] = Off /\ \A p : Noted(t, p)'
    BY <1>1, OffIsWalk DEF IInv, TypeOK, Noted
  <1>5. t = "rediscovery" => redis = "refresh"
    BY <1>1 DEF IInv, Readers
  <1>6. Readers' /\ Walkable' /\ OwnLists' /\ RemovedLost' /\ Followed' /\ Stable' \subseteq Stable
    BY <1>1, <1>2, <1>4, <1>5, OffIsWalk, WalkMoves
  <1>7. TypeOK'
    BY <1>1, <1>2, <1>3, OffIsWalk DEF IInv, TypeOK
  <1>8. SeenKnown'
    BY <1>1, <1>2, <1>6, OffIsWalk, SeenSame DEF IInv, TypeOK, Walkers, Known
  <1>9. CancelledOnlyIfWithdrawn'
    BY <1>2, <1>3 DEF IInv, CancelledOnlyIfWithdrawn
  <1> QED BY <1>2, <1>6, <1>7, <1>8, <1>9, TreeSame DEF IInv

-----------------------------------------------------------------------------
(* The fsa poll.                                                           *)

LEMMA WalksStay ==
    ASSUME IInv, walk' = walk, state'.fsas = state.fsas, assigned' = assigned, lists' = lists,
           withdrawn' = withdrawn, excused \subseteq excused',
           fsaPoll'.todo \subseteq DOMAIN state.fsas
    PROVE  Walkable' /\ OwnLists' /\ Followed' /\ Stable' \subseteq Stable
  <1>1. Stable' \subseteq Stable
    BY StableShrinks
  <1>2. Walkable' /\ OwnLists'
    BY DEF IInv, Walkable, Held, OwnLists
  <1>3. ASSUME NEW p \in Stable' PROVE p \in Assigned' /\ \A t \in Walkers : Noted(t, p)'
    <2>1. p \in Assigned /\ \A t \in Walkers : Noted(t, p)
      BY <1>1, <1>3 DEF IInv, Followed
    <2> QED BY <2>1, NotedSame DEF Assigned
  <1> QED BY <1>1, <1>2, <1>3 DEF Followed, Walkers

(* What the fsa poll's progress says of the readers. *)
LEMMA PollReaders ==
    ASSUME IInv, walk' = walk, redis' = redis, redis = "off" \/ fsaPoll' = fsaPoll,
           ~fsaPoll'.on => fsaPoll' = Quiet, DOMAIN state'.fsas = DOMAIN state.fsas
    PROVE  Readers'
  <1>1. Quiet' = Quiet /\ Off' = Off
    BY DEF Quiet, Off, Nothing
  <1>2. redis' # "off" => fsaPoll' = Quiet /\ walk'["derp"] = Off
    BY DEF IInv, Readers
  <1>3. walk'["rediscovery"].pc # "off" => redis' = "refresh"
    BY DEF IInv, Readers
  <1>4. redis' = "refresh" => DOMAIN state'.fsas = Devices
    BY DEF IInv, Readers
  <1> QED BY <1>1, <1>2, <1>3, <1>4 DEF Readers

LEMMA FsaPollSteps ==
    ASSUME IInv, \/ FsaBegin
                 \/ FsaRaises
                 \/ \E d \in Devices : FsaPagingFault(d)
    PROVE  IInv'
  <1>1. assigned' = assigned /\ lists' = lists /\ withdrawn' = withdrawn /\ changes' = changes
        /\ state' = state /\ walk' = walk /\ redis' = redis /\ previous' = previous
        /\ event' = event /\ excused' = excused
    BY DEF FsaBegin, FsaRaises, FsaPagingFault, server
  <1>2. redis = "off"
    <2>1. fsaPoll.todo # {} => redis = "off"
      BY DEF IInv, Readers, Quiet
    <2> QED BY <2>1 DEF FsaBegin, FsaRaises, FsaPagingFault
  <1>3. faults' \in 0..MaxFaults
    BY ConstantsAssumption DEF FsaBegin, FsaRaises, FsaPagingFault, Fault, IInv, TypeOK
  <1>4. /\ fsaPoll' \in [on : BOOLEAN, todo : SUBSET Devices, removed : SUBSET Programs]
        /\ ~fsaPoll'.on => fsaPoll' = Quiet
        /\ fsaPoll'.removed \subseteq fsaPoll.removed
        /\ fsaPoll'.todo \subseteq DOMAIN state.fsas
    <2>1. CASE FsaBegin
      BY <2>1, Types DEF FsaBegin, IInv, TypeOK
    <2>2. CASE FsaRaises
      BY <2>2 DEF FsaRaises, Quiet
    <2>3. ASSUME NEW d \in Devices, FsaPagingFault(d)
          PROVE  /\ fsaPoll' \in [on : BOOLEAN, todo : SUBSET Devices, removed : SUBSET Programs]
                 /\ fsaPoll'.on /\ fsaPoll'.removed = fsaPoll.removed
                 /\ fsaPoll'.todo \subseteq fsaPoll.todo
      <3>1. fsaPoll.on
        BY <2>3 DEF FsaPagingFault, IInv, Readers, Quiet
      <3> QED BY <2>3, <3>1 DEF FsaPagingFault, IInv, TypeOK
    <2> QED BY <2>1, <2>2, <2>3 DEF IInv, Walkable
  <1>5. Walkable' /\ OwnLists' /\ Followed' /\ Stable' \subseteq Stable
    BY <1>1, <1>4, WalksStay
  <1>6. Readers'
    BY <1>1, <1>2, <1>4, <1>5, PollReaders
  <1>7. TypeOK'
    BY <1>1, <1>3, <1>4 DEF IInv, TypeOK
  <1>8. RemovedLost'
    BY <1>4, <1>5 DEF IInv, RemovedLost
  <1>9. SeenKnown'
    BY <1>1, <1>5, SeenSame DEF Known
  <1> QED BY <1>1, <1>5, <1>6, <1>7, <1>8, <1>9, TreeSame, EventSame DEF IInv

(* The FSA list of a device is replaced: a walk comes to what it had ahead *)
(* or is excused for the programs of what it passes over.                  *)
LEMMA FsaReadStep == ASSUME IInv, NEW d \in Devices, FsaRead(d) PROVE IInv'
  <1> DEFINE gone    == state.fsas[d] \ Listed(d)
             g       == [state.fsas EXCEPT ![d] = Listed(d)]
  <1>1. assigned' = assigned /\ lists' = lists /\ withdrawn' = withdrawn /\ changes' = changes
        /\ walk' = walk /\ redis' = redis /\ previous' = previous /\ event' = event
        /\ faults' = faults /\ d \in fsaPoll.todo
    BY DEF FsaRead, server
  <1>2. state' = [state EXCEPT !.fsas[d] = Listed(d)]
        /\ fsaPoll' = [fsaPoll EXCEPT !.todo = @ \ {d}, !.removed = @ \cup ProgramsFrom(gone)]
        /\ excused' = excused \cup PassedOver(g)
    BY DEF FsaRead
  <1>3. redis = "off" /\ fsaPoll.on /\ d \in DOMAIN state.fsas
    BY <1>1 DEF IInv, Readers, Walkable, Quiet
  <1>4. Listed(d) \in SUBSET Fsas
    BY DEF Listed, IInv, TypeOK
  <1>5. /\ state'.origin = state.origin /\ DOMAIN state'.fsas = DOMAIN state.fsas
        /\ state' \in Trees /\ state'.fsas = g
        /\ \A x \in DOMAIN state.fsas : state'.fsas[x] = IF x = d THEN Listed(d) ELSE state.fsas[x]
    <2>1. state' = [state EXCEPT !.fsas = g]
      BY <1>2
    <2>2. state.fsas \in [DOMAIN state.fsas -> SUBSET Fsas] /\ DOMAIN state.fsas \subseteq Devices
      BY Types, PartialMaps DEF IInv
    <2>3. g \in [DOMAIN state.fsas -> SUBSET Fsas] /\ DOMAIN g = DOMAIN state.fsas
          /\ \A x \in DOMAIN state.fsas : g[x] = IF x = d THEN Listed(d) ELSE state.fsas[x]
      BY <1>4, <2>2
    <2>4. g \in Partial(Devices, SUBSET Fsas)
      BY <2>2, <2>3, PartialMaps
    <2> HIDE DEF g
    <2> QED BY <2>1, <2>3, <2>4 DEF IInv, TypeOK, Trees
  <1>6. ProgramsFrom(gone) \subseteq Programs
    BY Types DEF ProgramsFrom, IInv
  <1> HIDE DEF g
  <1>7. excused \subseteq excused' /\ excused' \subseteq Programs
    BY <1>2, PassedOverIsListed DEF IInv, TypeOK
  <1>8. Stable' \subseteq Stable
    BY <1>1, <1>7, StableShrinks
  <1>9. TypeOK'
    <2>1. fsaPoll' \in [on : BOOLEAN, todo : SUBSET Devices, removed : SUBSET Programs]
      <3>1. fsaPoll.todo \ {d} \in SUBSET Devices
            /\ fsaPoll.removed \cup ProgramsFrom(gone) \in SUBSET Programs
        BY <1>6 DEF IInv, TypeOK
      <3> HIDE DEF gone
      <3> QED BY <1>2, <3>1 DEF IInv, TypeOK
    <2> QED BY <1>1, <1>5, <1>7, <2>1 DEF IInv, TypeOK
  <1>10. Readers'
    <2>1. fsaPoll'.on
      BY <1>2, <1>3 DEF IInv, TypeOK
    <2> QED BY <1>1, <1>3, <1>5, <2>1, PollReaders
  <1>11. Walkable'
    <2>1. fsaPoll'.todo \subseteq fsaPoll.todo
      BY <1>2 DEF IInv, TypeOK
    <2> QED BY <1>1, <1>5, <2>1 DEF IInv, Walkable, Held
  <1>12. OwnLists'
    <2>1. \A f \in Listed(d) : Owner[f] = d
      BY DEF Listed
    <2> QED BY <1>5, <2>1 DEF IInv, OwnLists
  <1>13. RemovedLost'
    <2>1. ASSUME NEW p \in Stable, p \in ProgramsFrom(gone) PROVE FALSE
      <3>1. p \in Known /\ state.origin[p] \in gone /\ gone \subseteq Fsas
        BY <1>3, <2>1, Types DEF ProgramsFrom, IInv
      <3>2. state.origin[p] \in assigned
        BY <3>1, Types DEF IInv, OriginNames
      <3>3. Owner[state.origin[p]] = d
        BY <1>3, <3>1 DEF IInv, OwnLists
      <3> QED BY <3>1, <3>2, <3>3 DEF Listed
    <2>2. fsaPoll'.removed = fsaPoll.removed \cup ProgramsFrom(gone)
      BY <1>2 DEF IInv, TypeOK
    <2> HIDE DEF gone
    <2> QED BY <1>8, <2>1, <2>2 DEF IInv, RemovedLost
  <1>14. Followed'
    <2>1. ASSUME NEW p \in Stable' PROVE p \in Assigned' /\ \A t \in Walkers : Noted(t, p)'
      <3>1. p \in Assigned /\ (\A t \in Walkers : Noted(t, p)) /\ p \notin PassedOver(state'.fsas)
        BY <1>2, <1>5, <1>8, <2>1 DEF IInv, Followed, Stable
      <3> QED BY <1>1, <3>1, ListsReplaced DEF Assigned
    <2> QED BY <2>1 DEF Followed, Walkers
  <1>15. OriginNames' /\ SeenKnown'
    BY <1>1, <1>5, <1>8 DEF IInv, OriginNames, SeenKnown, Known
  <1> QED BY <1>1, <1>7, <1>9, <1>10, <1>11, <1>12, <1>13, <1>14, <1>15, EventSame DEF IInv

LEMMA FsaEndStep == ASSUME IInv, FsaEnd PROVE IInv'
  <1>1. assigned' = assigned /\ lists' = lists /\ withdrawn' = withdrawn /\ changes' = changes
        /\ walk' = walk /\ redis' = redis /\ previous' = previous /\ excused' = excused
        /\ faults' = faults /\ fsaPoll.on /\ fsaPoll' = Quiet /\ CancelProgram(fsaPoll.removed)
    BY DEF FsaEnd, server
  <1>2. state' = [state EXCEPT !.origin = [p \in Known \ fsaPoll.removed |-> state.origin[p]],
                               !.mapping = state.mapping]
    BY DEF FsaEnd, IInv, TypeOK, Trees
  <1>3. redis = "off" /\ walk["rediscovery"].pc = "off"
    BY <1>1 DEF IInv, Readers, Quiet
  <1>4. state' \in Trees /\ state'.fsas = state.fsas /\ Known' = Known \ fsaPoll.removed
        /\ \A p \in Known' : state'.origin[p] = state.origin[p]
    BY <1>2, DropsPrograms
  <1>5. Quiet \in [on : BOOLEAN, todo : SUBSET Devices, removed : SUBSET Programs]
        /\ Quiet.todo = {} /\ Quiet.removed = {} /\ ~Quiet.on
    BY DEF Quiet
  <1>6. Walkable' /\ OwnLists' /\ Followed' /\ Stable' \subseteq Stable
    BY <1>1, <1>4, <1>5, WalksStay
  <1>7. Readers'
    BY <1>1, <1>3, <1>4, <1>6, PollReaders
  <1>8. /\ event' \in [Programs -> {"none", "running", "cancelled"}]
        /\ CancelledOnlyIfWithdrawn'
    BY <1>1, <1>6, CancelsOnly DEF IInv, RemovedLost
  <1>9. TypeOK'
    BY <1>1, <1>4, <1>5, <1>8 DEF IInv, TypeOK
  <1>10. RemovedLost' /\ SeenKnown'
    BY <1>1, <1>3, <1>5 DEF RemovedLost, SeenKnown
  <1>11. OriginNames'
    BY <1>1, <1>4, <1>6 DEF IInv, OriginNames
  <1> QED BY <1>6, <1>7, <1>8, <1>9, <1>10, <1>11 DEF IInv

-----------------------------------------------------------------------------
(* Rediscovery.                                                            *)

LEMMA EmptyTree ==
    Empty \in Trees /\ DOMAIN Empty.fsas = {} /\ DOMAIN Empty.origin = {}
  BY NothingIsPartial DEF Empty, Trees, Nothing

(* The state is cleared: the polls are gone, and a re-poll in the middle   *)
(* of its walk goes on with lists of its own.                              *)
LEMMA RediscoverStep == ASSUME IInv, Rediscover PROVE IInv'
  <1> DEFINE w(t) == IF t = "derp" THEN Off
                     ELSE IF walk[t].pc = "walk" /\ ~walk[t].detached
                          THEN [walk[t] EXCEPT !.detached = TRUE, !.own = state.fsas] ELSE walk[t]
  <1>1. assigned' = assigned /\ lists' = lists /\ withdrawn' = withdrawn /\ changes' = changes
        /\ event' = event /\ faults' = faults /\ redis = "off" /\ redis' = "discover"
        /\ previous' = Known /\ state' = Empty /\ fsaPoll' = Quiet /\ excused' = excused
    BY DEF Rediscover, server
  <1>2. walk' = [t \in Walkers |-> w(t)]
    BY DEF Rediscover
  <1>3. ASSUME NEW t \in Walkers
        PROVE  /\ w(t) \in Walks
               /\ w(t).pc = "walk" =>
                     /\ walk[t].pc = "walk" /\ w(t).detached /\ w(t).own = Held(t, state.fsas)
                     /\ w(t).todo = walk[t].todo /\ w(t).at = walk[t].at /\ w(t).seen = walk[t].seen
                     /\ w(t).missed = walk[t].missed /\ w(t).unreachable = walk[t].unreachable
    <2>1. walk[t] \in Walks /\ state.fsas \in Partial(Devices, SUBSET Fsas)
      BY Types DEF IInv
    <2>2. CASE t = "derp"
      BY <2>2, OffIsWalk
    <2>3. CASE t # "derp" /\ walk[t].pc = "walk" /\ ~walk[t].detached
      <3>1. w(t) = [walk[t] EXCEPT !.detached = TRUE, !.own = state.fsas]
        BY <2>3
      <3> HIDE DEF w
      <3> QED BY <2>1, <2>3, <3>1 DEF Walks, Held
    <2>4. CASE t # "derp" /\ ~(walk[t].pc = "walk" /\ ~walk[t].detached)
      BY <2>1, <2>4 DEF Held
    <2> QED BY <2>2, <2>3, <2>4
  <1>4. w("derp") = Off /\ w("rediscovery").pc = "off"
    BY <1>1 DEF IInv, Readers
  <1> HIDE DEF w
  <1>5. walk' \in [Walkers -> Walks] /\ \A t \in Walkers : walk'[t] = w(t)
    BY <1>2, <1>3 DEF Walkers
  <1>6. Stable' = Stable
    BY <1>1 DEF Stable
  <1>7. Quiet \in [on : BOOLEAN, todo : SUBSET Devices, removed : SUBSET Programs]
        /\ Quiet.todo = {} /\ Quiet.removed = {} /\ ~Quiet.on
    BY DEF Quiet
  <1>8. TypeOK'
    <2>1. Known \subseteq Programs
      BY Types DEF IInv
    <2> QED BY <1>1, <1>5, <1>7, <2>1, EmptyTree DEF IInv, TypeOK, Walkers
  <1>9. Readers'
    <2>1. walk'["derp"] = Off /\ walk'["rediscovery"].pc = "off"
      BY <1>4, <1>5 DEF Walkers
    <2>2. Off' = Off /\ Quiet' = Quiet
      BY DEF Off, Quiet, Nothing
    <2> QED BY <1>1, <2>1, <2>2 DEF Readers
  <1>10. Walkable'
    <2>1. ASSUME NEW t \in Walkers, walk'[t].pc = "walk"
          PROVE  walk'[t].todo \subseteq DOMAIN Held(t, state.fsas)'
      <3>1. walk'[t].detached /\ walk'[t].own = Held(t, state.fsas) /\ walk'[t].todo = walk[t].todo
            /\ walk[t].pc = "walk"
        BY <1>3, <1>5, <2>1
      <3> QED BY <3>1 DEF IInv, Walkable, Held
    <2> QED BY <1>1, <1>7, <2>1 DEF Walkable, Walkers
  <1>11. OwnLists' /\ RemovedLost' /\ SeenKnown' /\ OriginNames'
    <2>1. Known' = {} /\ DOMAIN state'.fsas = {}
      BY <1>1, EmptyTree DEF Known
    <2>2. walk'["rediscovery"].pc = "off"
      BY <1>4, <1>5 DEF Walkers
    <2> QED BY <1>1, <1>7, <2>1, <2>2 DEF OwnLists, RemovedLost, SeenKnown, OriginNames
  <1>12. Followed'
    <2>1. ASSUME NEW p \in Stable', NEW t \in Walkers PROVE Noted(t, p)'
      <3> SUFFICES ASSUME walk'[t].pc = "walk" PROVE Noted(t, p)'
        BY DEF Noted
      <3>1. /\ walk[t].pc = "walk" /\ walk'[t].detached /\ walk'[t].own = Held(t, state.fsas)
            /\ walk'[t].todo = walk[t].todo /\ walk'[t].at = walk[t].at
            /\ walk'[t].seen = walk[t].seen /\ walk'[t].missed = walk[t].missed
            /\ walk'[t].unreachable = walk[t].unreachable
        BY <1>3, <1>5
      <3>2. Noted(t, p)
        BY <1>6, <2>1 DEF IInv, Followed
      <3>3. ASSUME NEW f \in assigned, Ahead(t, f, state.fsas) PROVE Ahead(t, f, state.fsas)'
        <4>1. Held(t, state.fsas)' = Held(t, state.fsas) /\ Device(t)' = Device(t)
          BY <3>1 DEF Held, Device
        <4> QED BY <3>1, <3>3, <4>1 DEF Ahead
      <3> QED BY <1>1, <3>1, <3>2, <3>3 DEF Noted
    <2>2. \A p \in Stable' : p \in Assigned'
      BY <1>1, <1>6 DEF IInv, Followed, Assigned
    <2> QED BY <2>1, <2>2 DEF Followed, Walkers
  <1> QED BY <1>1, <1>8, <1>9, <1>10, <1>11, <1>12, EventSame DEF IInv

(* The first FSA of a list that names a program is one that names it. *)
LEMMA NamingIsListed ==
    ASSUME TypeOK, NEW fs \in SUBSET assigned, NEW p \in Names(fs), fs # {}
    PROVE  FirstNaming(fs, p) \in fs /\ p \in lists[FirstNaming(fs, p)]
  <1> DEFINE L == {f \in fs : p \in lists[f]}
  <1>1. L # {} /\ L \subseteq Fsas
    BY DEF Names, TypeOK
  <1>2. First(L) \in L
    BY <1>1, FirstIsIn
  <1> QED BY <1>2 DEF FirstNaming

(* A device is added: what is named by no FSA has no origin. *)
LEMMA AddDeviceStep ==
    ASSUME IInv, redis = "discover", redis' = redis, NEW d \in Undiscovered, NEW fs \in SUBSET Listed(d),
           NEW ps \in SUBSET Names(fs), state' = AddDevice(state, d, fs, ps),
           assigned' = assigned, lists' = lists, withdrawn' = withdrawn, changes' = changes,
           fsaPoll' = fsaPoll, walk' = walk, previous' = previous, event' = event,
           excused' = excused, faults' \in 0..MaxFaults
    PROVE  IInv'
  <1> DEFINE F == DOMAIN state.fsas
             g == [x \in F \cup {d} |-> IF x = d THEN fs ELSE state.fsas[x]]
             o == [p \in Known \cup ps |-> IF p \in Known THEN state.origin[p] ELSE FirstNaming(fs, p)]
  <1>1. fs \in SUBSET assigned /\ fs \in SUBSET Fsas /\ (\A f \in fs : Owner[f] = d)
        /\ d \in Devices /\ d \notin F
    BY DEF Listed, IInv, TypeOK, Undiscovered
  <1>2. ps \subseteq Programs
    BY <1>1, ConstantsAssumption DEF Names, IInv, TypeOK
  <1>3. \A p \in ps : IF fs = {} THEN FirstNaming(fs, p) = NoOrigin
                      ELSE FirstNaming(fs, p) \in fs /\ p \in lists[FirstNaming(fs, p)]
    BY <1>1, NamingIsListed DEF IInv, FirstNaming
  <1>4. state'.fsas = g /\ state'.origin = o /\ state'.mapping = state.mapping \cup (ps \X {d})
        /\ state' = [fsas |-> g, origin |-> o, mapping |-> state.mapping \cup (ps \X {d})]
    BY DEF AddDevice, Known
  <1>5. /\ g \in Partial(Devices, SUBSET Fsas) /\ DOMAIN g = F \cup {d}
        /\ \A x \in F \cup {d} : g[x] = IF x = d THEN fs ELSE state.fsas[x]
    <2>1. F \cup {d} \subseteq Devices /\ DOMAIN g = F \cup {d}
          /\ \A x \in F \cup {d} : g[x] \in SUBSET Fsas
      BY <1>1, Types DEF IInv
    <2>2. g \in [F \cup {d} -> SUBSET Fsas]
      BY <2>1
    <2> QED BY <2>1, <2>2, PartialMaps
  <1>6. /\ o \in Partial(Programs, Fsas \cup {NoOrigin}) /\ DOMAIN o = Known \cup ps
        /\ \A p \in Known \cup ps : o[p] = IF p \in Known THEN state.origin[p] ELSE FirstNaming(fs, p)
    <2>1. Known \cup ps \subseteq Programs /\ DOMAIN o = Known \cup ps
          /\ \A p \in Known \cup ps : o[p] \in Fsas \cup {NoOrigin}
      BY <1>1, <1>2, <1>3, Types DEF IInv
    <2>2. o \in [Known \cup ps -> Fsas \cup {NoOrigin}]
      BY <2>1
    <2> QED BY <2>1, <2>2, PartialMaps
  <1> HIDE DEF g, o
  <1>7. state' \in Trees
    <2>1. state.mapping \cup (ps \X {d}) \in SUBSET (Programs \X Devices)
      BY <1>1, <1>2, Types DEF IInv
    <2> QED BY <1>4, <1>5, <1>6, <2>1 DEF Trees
  <1>8. TypeOK'
    BY <1>7 DEF IInv, TypeOK
  <1>9. Stable' = Stable
    BY DEF Stable
  <1>10. Readers'
    BY DEF IInv, Readers, Quiet, Off, Nothing
  <1>11. Walkable'
    BY <1>4, <1>5 DEF IInv, Walkable, Held
  <1>12. OwnLists'
    BY <1>1, <1>4, <1>5 DEF IInv, OwnLists
  <1>13. Known' = Known \cup ps
    BY <1>4, <1>6 DEF Known
  <1>14. OriginNames'
    BY <1>1, <1>3, <1>4, <1>6, <1>9, <1>13 DEF IInv, OriginNames
  <1>15. RemovedLost' /\ SeenKnown'
    BY <1>9, <1>13 DEF IInv, RemovedLost, SeenKnown
  <1>16. Followed'
    <2>1. ASSUME NEW p \in Stable', NEW t \in Walkers PROVE Noted(t, p)'
      <3>1. Noted(t, p) /\ (walk[t].pc = "walk" => walk[t].todo \subseteq DOMAIN Held(t, state.fsas))
        BY <1>9 DEF IInv, Followed, Walkable
      <3>2. ASSUME NEW f \in assigned, Ahead(t, f, state.fsas) PROVE Ahead(t, f, state.fsas)'
        <4>1. Held(t, state.fsas)'[Owner[f]] = Held(t, state.fsas)[Owner[f]] /\ Device(t)' = Device(t)
          BY <1>1, <1>4, <1>5, <3>1, <3>2 DEF Held, Ahead, Device
        <4> QED BY <3>2, <4>1 DEF Ahead
      <3> QED BY <3>1, <3>2 DEF Noted
    <2> QED BY <1>9, <2>1 DEF IInv, Followed, Assigned, Walkers
  <1> QED BY <1>8, <1>10, <1>11, <1>12, <1>14, <1>15, <1>16, EventSame DEF IInv

LEMMA DiscoverDeviceStep ==
    ASSUME IInv, DiscoverDevice \/ DiscoverPagingFault PROVE IInv'
  <1> DEFINE d == First(Undiscovered)
  <1>1. redis = "discover" /\ redis' = redis /\ Undiscovered # {}
        /\ assigned' = assigned /\ lists' = lists /\ withdrawn' = withdrawn /\ changes' = changes
        /\ fsaPoll' = fsaPoll /\ walk' = walk /\ previous' = previous /\ event' = event
        /\ excused' = excused
    BY DEF DiscoverDevice, DiscoverPagingFault, server
  <1>2. faults' \in 0..MaxFaults
    BY ConstantsAssumption DEF DiscoverDevice, DiscoverPagingFault, Fault, IInv, TypeOK
  <1>3. d \in Undiscovered
    BY <1>1, FirstIsIn DEF Undiscovered
  <1> HIDE DEF d
  <1>4. \/ state' = AddDevice(state, d, Listed(d), Names(Listed(d)))
        \/ state' = AddDevice(state, d, {}, Fallback)
        \/ state' = AddDevice(state, d, Listed(d), {})
    BY DEF DiscoverDevice, DiscoverPagingFault, d
  <1>5. Fallback = Names({})
    BY DEF Names
  <1> QED BY <1>1, <1>2, <1>3, <1>4, <1>5, AddDeviceStep

(* discover() raises: the tree is left as it is.                           *)
LEMMA DiscoverRaisesStep == ASSUME IInv, DiscoverRaises PROVE IInv'
  <1>1. redis = "discover" /\ redis' = "off" /\ previous' = {}
        /\ assigned' = assigned /\ lists' = lists /\ withdrawn' = withdrawn /\ changes' = changes
        /\ state' = state /\ fsaPoll' = fsaPoll /\ walk' = walk /\ event' = event
        /\ excused' = excused
    BY DEF DiscoverRaises, server
  <1>2. faults' \in 0..MaxFaults
    BY ConstantsAssumption DEF DiscoverRaises, Fault, IInv, TypeOK
  <1>3. TypeOK'
    BY <1>1, <1>2 DEF IInv, TypeOK
  <1>4. Walkable' /\ OwnLists' /\ Followed' /\ Stable' \subseteq Stable
    BY <1>1, WalksStay DEF IInv, Walkable
  <1>5. Readers'
    BY <1>1 DEF IInv, Readers, Quiet, Walkers
  <1>6. RemovedLost' /\ SeenKnown' /\ OriginNames'
    BY <1>1, <1>4, TreeSame DEF IInv, RemovedLost, SeenKnown, Known
  <1> QED BY <1>1, <1>3, <1>4, <1>5, <1>6, EventSame DEF IInv

LEMMA DiscoveredStep == ASSUME IInv, Discovered PROVE IInv'
  <1> DEFINE g == [d \in Devices |-> Listed(d)]
             r == SetOut(g)
  <1>1. redis = "discover" /\ redis' = "refresh"
        /\ assigned' = assigned /\ lists' = lists /\ withdrawn' = withdrawn /\ changes' = changes
        /\ fsaPoll' = fsaPoll /\ previous' = previous /\ event' = event
        /\ excused' = excused \cup PassedOver(g) /\ faults' = faults /\ DOMAIN state.fsas = Devices
    BY DEF Discovered, server
  <1>2. state' = [state EXCEPT !.fsas = g] /\ walk' = [walk EXCEPT !["rediscovery"] = r]
    BY DEF Discovered
  <1>4. g \in Partial(Devices, SUBSET Fsas) /\ DOMAIN g = Devices /\ \A d \in Devices : g[d] = Listed(d)
    <2>1. g \in [Devices -> SUBSET Fsas]
      BY DEF Listed, IInv, TypeOK
    <2> QED BY <2>1, PartialMaps
  <1> HIDE DEF g
  <1>3. r \in Walks /\ r.pc = "walk" /\ ~r.detached /\ r.todo = Devices /\ r.seen = {}
    BY <1>4, SetOutIsWalk DEF IInv
  <1> HIDE DEF r
  <1>5. state' \in Trees /\ state'.fsas = g /\ state'.origin = state.origin
    BY <1>2, <1>4 DEF IInv, TypeOK, Trees
  <1>6. walk' \in [Walkers -> Walks] /\ walk'["rediscovery"] = r
        /\ \A t \in Walkers : t # "rediscovery" => walk'[t] = walk[t]
    BY <1>2, <1>3 DEF IInv, TypeOK, Walkers
  <1>7. Stable' \subseteq Stable
    BY <1>1, StableShrinks
  <1>8. TypeOK'
    <2>1. excused' \subseteq Programs
      BY <1>1, PassedOverIsListed DEF IInv, TypeOK
    <2> QED BY <1>1, <1>5, <1>6, <2>1 DEF IInv, TypeOK
  <1>9. Readers'
    BY <1>1, <1>4, <1>5, <1>6 DEF IInv, Readers, Walkers, Quiet, Off, Nothing
  <1>10. Walkable'
    <2>1. fsaPoll'.todo \subseteq DOMAIN state'.fsas
      BY <1>1, <1>4, <1>5 DEF IInv, Walkable
    <2>2. \A t \in Walkers : walk'[t].pc = "walk" => walk'[t].todo \subseteq DOMAIN Held(t, state.fsas)'
      BY <1>1, <1>3, <1>4, <1>5, <1>6 DEF IInv, Walkable, Held, Walkers
    <2> QED BY <2>1, <2>2 DEF Walkable
  <1>11. OwnLists'
    BY <1>1, <1>4, <1>5 DEF OwnLists, Listed
  <1>12. Known' = Known
    BY <1>5 DEF Known
  <1>13. RemovedLost' /\ SeenKnown' /\ OriginNames'
    BY <1>1, <1>3, <1>5, <1>6, <1>7, <1>12 DEF IInv, RemovedLost, SeenKnown, OriginNames
  <1>14. Followed'
    <2>1. ASSUME NEW p \in Stable' PROVE p \in Assigned' /\ \A t \in Walkers : Noted(t, p)'
      <3>1. p \in Assigned /\ (\A t \in Walkers : Noted(t, p)) /\ p \notin PassedOver(state'.fsas)
        BY <1>1, <1>5, <1>7, <2>1 DEF IInv, Followed, Stable
      <3>2. Noted("rediscovery", p)'
        BY <1>1, <1>4, <1>5, <1>6, <3>1, SettingOut DEF IInv, Walkers, r
      <3>3. \A t \in Walkers : t # "rediscovery" => Noted(t, p)'
        BY <1>1, <1>6, <3>1, ListsReplaced
      <3> QED BY <1>1, <3>1, <3>2, <3>3 DEF Assigned
    <2> QED BY <2>1 DEF Followed, Walkers
  <1> QED BY <1>1, <1>8, <1>9, <1>10, <1>11, <1>13, <1>14, EventSame DEF IInv

-----------------------------------------------------------------------------
(* The server changes: an FSA that named a program no longer names it only *)
(* if the program is withdrawn or moved.                                   *)
LEMMA ServerChangeStep == ASSUME IInv, ServerChange PROVE IInv'
  <1>1. state' = state /\ fsaPoll' = fsaPoll /\ walk' = walk /\ redis' = redis
        /\ previous' = previous /\ event' = event /\ faults' = faults
        /\ excused' = excused \cup Moved
        /\ withdrawn' = withdrawn \cup (Programs \ UNION {lists'[f] : f \in assigned'})
    BY DEF ServerChange
  <1>2. changes' \in 0..MaxChanges
    BY ConstantsAssumption DEF ServerChange, IInv, TypeOK
  <1>3. assigned' \subseteq Fsas /\ lists' \in [Fsas -> SUBSET Programs]
    BY ConstantsAssumption DEF ServerChange, IInv, TypeOK
  <1>4. excused' \subseteq Programs
    BY <1>1, <1>3 DEF Moved, IInv, TypeOK
  <1>5. Stable' \subseteq Stable
    BY <1>1, StableShrinks
  <1>6. ASSUME NEW p \in Stable', NEW f \in assigned, p \in lists[f]
        PROVE  f \in assigned' /\ p \in lists'[f]
    <2>1. p \in UNION {lists'[h] : h \in assigned'} /\ p \notin Moved
      BY <1>1, <1>6 DEF Stable
    <2> QED BY <1>6, <2>1 DEF Moved
  <1>7. TypeOK'
    BY <1>1, <1>2, <1>3, <1>4 DEF IInv, TypeOK
  <1>8. Readers'
    BY <1>1, <1>5 DEF IInv, Readers, Quiet, Off, Nothing
  <1>9. Walkable' /\ OwnLists' /\ RemovedLost'
    BY <1>1, <1>5 DEF IInv, Walkable, Held, OwnLists, RemovedLost
  <1>10. SeenKnown'
    BY <1>1, <1>5 DEF IInv, SeenKnown, Known
  <1>11. OriginNames'
    BY <1>1, <1>5, <1>6 DEF IInv, OriginNames, Known
  <1>12. Followed'
    <2>1. ASSUME NEW p \in Stable' PROVE p \in Assigned' /\ \A t \in Walkers : Noted(t, p)'
      <3>1. p \in Assigned /\ \A t \in Walkers : Noted(t, p)
        BY <1>5, <2>1 DEF IInv, Followed
      <3>2. p \in Assigned'
        BY <1>6, <2>1, <3>1 DEF Assigned
      <3>3. ASSUME NEW t \in Walkers, NEW f \in assigned, p \in lists[f],
                   f \in walk[t].unreachable \/ Ahead(t, f, state.fsas)
            PROVE  f \in assigned' /\ p \in lists'[f]
                   /\ (f \in walk'[t].unreachable \/ Ahead(t, f, state.fsas)')
        BY <1>1, <1>6, <2>1, <3>3 DEF Ahead, Held, Device
      <3>4. ASSUME NEW t \in Walkers PROVE Noted(t, p)'
        BY <1>1, <3>1, <3>3 DEF Noted
      <3> QED BY <3>2, <3>4
    <2> QED BY <2>1 DEF Followed, Walkers
  <1> QED BY <1>1, <1>7, <1>8, <1>9, <1>10, <1>11, <1>12, EventSame DEF IInv

LEMMA NextIInv == ASSUME IInv, [Next]_vars PROVE IInv'
  <1>1. CASE FsaStep
    BY <1>1, FsaPollSteps, FsaReadStep, FsaEndStep DEF FsaStep
  <1>2. CASE DiscoveryStep \/ Rediscover
    BY <1>2, DiscoverDeviceStep, DiscoverRaisesStep, DiscoveredStep, RediscoverStep DEF DiscoveryStep
  <1>3. ASSUME NEW t \in Walkers, WalkBegin(t) \/ WalkStep(t) PROVE IInv'
    BY <1>3, WalkBeginStep, ListReadStep, ListAbsentStep, ListPagingFaultStep, ListRaisesStep,
       NextDeviceStep, PruneStep, ControlsStep DEF WalkStep
  <1>4. CASE UNCHANGED vars
    <2>1. assigned' = assigned /\ lists' = lists /\ withdrawn' = withdrawn /\ changes' = changes
          /\ state' = state /\ fsaPoll' = fsaPoll /\ walk' = walk /\ redis' = redis
          /\ previous' = previous /\ event' = event /\ excused' = excused /\ faults' = faults
      BY <1>4 DEF vars
    <2>2. Walkable' /\ OwnLists' /\ Followed' /\ Stable' \subseteq Stable
      BY <2>1, WalksStay DEF IInv, Walkable
    <2>3. Readers'
      BY <2>1, <2>2 DEF IInv, Readers, Quiet, Off, Nothing
    <2>4. TypeOK'
      BY <2>1 DEF IInv, TypeOK
    <2>5. RemovedLost' /\ SeenKnown'
      BY <2>1, <2>2 DEF IInv, RemovedLost, SeenKnown, Known
    <2> QED BY <2>1, <2>2, <2>3, <2>4, <2>5, TreeSame, EventSame DEF IInv
  <1> QED BY <1>1, <1>2, <1>3, <1>4, ServerChangeStep DEF Next

LEMMA InitIInv == ASSUME Init PROVE IInv
  <1> DEFINE named == UNION {Names(Listed(d)) : d \in Devices}
             first(p) == First({d \in Devices : p \in Names(Listed(d))})
             g == [d \in Devices |-> Listed(d)]
             o == [p \in named |-> FirstNaming(Listed(first(p)), p)]
             m == UNION {Names(Listed(d)) \X {d} : d \in Devices}
  <1>1. assigned = Fsas /\ lists \in [Fsas -> SUBSET Programs] /\ state = Tree /\ fsaPoll = Quiet
        /\ walk = [t \in Walkers |-> Off] /\ redis = "off" /\ previous = {} /\ excused = {}
        /\ withdrawn = Programs \ Assigned /\ changes = 0 /\ faults = 0
    BY ConstantsAssumption DEF Init
  <1>2. event \in [Programs -> {"none", "running", "cancelled"}]
        /\ \A p \in Programs : event[p] # "cancelled"
    BY DEF Init
  <1>3. \A d \in Devices : Listed(d) \in SUBSET Fsas /\ Listed(d) \subseteq assigned
                           /\ Names(Listed(d)) \subseteq Programs
                           /\ \A f \in Listed(d) : Owner[f] = d
    BY <1>1, ConstantsAssumption DEF Listed, Names
  <1>4. state = [fsas |-> g, origin |-> o, mapping |-> m]
    BY <1>1 DEF Tree
  <1>5. g \in Partial(Devices, SUBSET Fsas) /\ DOMAIN g = Devices /\ \A d \in Devices : g[d] = Listed(d)
    <2>1. g \in [Devices -> SUBSET Fsas]
      BY <1>3
    <2> QED BY <2>1, PartialMaps
  <1>6. m \in SUBSET (Programs \X Devices)
    BY <1>3
  <1>7. ASSUME NEW p \in named
        PROVE  \/ FirstNaming(Listed(first(p)), p) = NoOrigin
               \/ /\ FirstNaming(Listed(first(p)), p) \in assigned
                  /\ p \in lists[FirstNaming(Listed(first(p)), p)]
    <2> DEFINE D == {d \in Devices : p \in Names(Listed(d))}
    <2>1. D # {} /\ D \subseteq Devices
      BY <1>7
    <2>2. First(D) \in D
      BY <2>1, FirstIsIn
    <2> HIDE DEF D
    <2>3. first(p) = First(D)
      BY DEF D
    <2>4. First(D) \in Devices /\ p \in Names(Listed(First(D)))
      BY <2>2 DEF D
    <2> HIDE DEF first
    <2>5. CASE Listed(first(p)) = {}
      BY <2>5 DEF FirstNaming
    <2>6. CASE Listed(first(p)) # {}
      <3> DEFINE fs == Listed(first(p))
                 L == {f \in fs : p \in lists[f]}
      <3>1. L # {} /\ L \subseteq Fsas
        BY <1>3, <2>3, <2>4, <2>6 DEF Names
      <3>2. First(L) \in L
        BY <3>1, FirstIsIn
      <3>3. FirstNaming(fs, p) = First(L)
        BY <2>6 DEF FirstNaming
      <3> QED BY <1>3, <2>3, <2>4, <3>2, <3>3
    <2> QED BY <2>5, <2>6
  <1>8. o \in Partial(Programs, Fsas \cup {NoOrigin}) /\ DOMAIN o = named
        /\ \A p \in named : o[p] = FirstNaming(Listed(first(p)), p)
    <2>1. named \subseteq Programs
      BY <1>3
    <2>2. DOMAIN o = named /\ \A p \in named : o[p] = FirstNaming(Listed(first(p)), p)
      OBVIOUS
    <2>3. \A p \in named : o[p] \in Fsas \cup {NoOrigin}
      BY <1>1, <1>7, <2>2
    <2>4. o \in [named -> Fsas \cup {NoOrigin}]
      BY <2>2, <2>3
    <2> QED BY <2>1, <2>2, <2>4, PartialMaps
  <1> HIDE DEF named, first, g, o, m
  <1>9. TypeOK
    <2>1. state \in Trees
      BY <1>4, <1>5, <1>6, <1>8 DEF Trees
    <2>2. walk \in [Walkers -> Walks]
      BY <1>1, OffIsWalk
    <2>3. fsaPoll \in [on : BOOLEAN, todo : SUBSET Devices, removed : SUBSET Programs]
      BY <1>1 DEF Quiet
    <2> QED BY <1>1, <1>2, <2>1, <2>2, <2>3, ConstantsAssumption DEF TypeOK
  <1>10. \A t \in Walkers : walk[t] = Off
    BY <1>1
  <1>11. Readers /\ Walkable
    BY <1>1, <1>10, OffIsWalk DEF Readers, Walkable, Quiet, Walkers
  <1>12. OwnLists
    BY <1>3, <1>4, <1>5 DEF OwnLists
  <1>13. OriginNames
    BY <1>4, <1>7, <1>8 DEF OriginNames, Known
  <1>14. RemovedLost /\ SeenKnown
    BY <1>1, <1>10, OffIsWalk DEF RemovedLost, SeenKnown, Quiet, Walkers
  <1>15. Followed
    <2>1. \A p \in Stable : p \in Assigned
      BY <1>1 DEF Stable
    <2>2. \A t \in Walkers : \A p : Noted(t, p)
      BY <1>10, OffIsWalk DEF Noted
    <2> QED BY <2>1, <2>2 DEF Followed
  <1>16. CancelledOnlyIfWithdrawn
    BY <1>2 DEF CancelledOnlyIfWithdrawn
  <1> QED BY <1>9, <1>11, <1>12, <1>13, <1>14, <1>15, <1>16 DEF IInv

(* IInv holds in every state: each program that stays listed and is not    *)
(* misread is met by every walk of the tree.                               *)
THEOREM Invariance == Spec => []IInv
  BY InitIInv, NextIInv, PTL DEF Spec

(* The tree, the readers and what they have collected keep their types,    *)
(* whatever replaces or clears a list under the readers that walk it.      *)
THEOREM TypeCorrect == Spec => []TypeOK
  <1>1. IInv => TypeOK
    BY DEF IInv
  <1> QED BY Invariance, <1>1, PTL

(* refresh_der_programs, refresh_function_set_assignments and              *)
(* trigger_rediscovery cancel the events of a program only if the server   *)
(* stopped listing it, but for the misreadings CancelledOnlyIfWithdrawn    *)
(* names, however changes, faults and readers interleave.                  *)
THEOREM NoneCancelledByMistake == Spec => []CancelledOnlyIfWithdrawn
  <1>1. IInv => CancelledOnlyIfWithdrawn
    BY DEF IInv
  <1> QED BY Invariance, <1>1, PTL

(* Of the programs that stay listed where they were: the FSA recorded as a *)
(* program's origin still lists it (_discover_program), the fsa poll never *)
(* has one to cancel (programs_from_fsa), and what the refresh of a        *)
(* rediscovery has seen is still known when it prunes.                     *)
THEOREM TreeKeepsListed == Spec => [](OriginNames /\ RemovedLost /\ SeenKnown)
  <1>1. IInv => OriginNames /\ RemovedLost /\ SeenKnown
    BY DEF IInv
  <1> QED BY Invariance, <1>1, PTL
=============================================================================
