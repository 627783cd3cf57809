-------------------------- MODULE CoordinatorProof --------------------------
(***************************************************************************)
(* The coordinator is a keyed mutex for any finite set of reconciles and   *)
(* any set of Gateway UIDs.                                                *)
(***************************************************************************)
EXTENDS Coordinator, FiniteSetTheorems, TLAPS

(* The entry local is set exactly between retain and releaseReference. *)
EntryWhileRetained ==
    \A w \in Workers : entry[w] = NoEntry <=> pc[w] \in {"idle", "called"}

(* No cell serves two UIDs. *)
EntriesInjective ==
    \A u, v \in UIDs : entries[u] = entries[v] /\ entries[u] # NoEntry => u = v

(* At most one reconcile has taken the token of an entry. *)
OneTokenPerEntry ==
    \A v, w \in Workers :
        HasToken(v) /\ HasToken(w) /\ entry[v] = entry[w] => v = w

IInv == /\ TypeOK
        /\ EntryWhileRetained
        /\ OneEntryPerUID
        /\ EntriesInjective
        /\ NoLeakedEntry
        /\ OneTokenPerEntry
        /\ PutNeverBlocks

-----------------------------------------------------------------------------
(* The calls that refer to a cell are finitely many, so they can be counted. *)
LEMMA UsersFinite == \A e : /\ IsFiniteSet(Users(e))
                            /\ Cardinality(Users(e)) \in Nat
<1>1. TAKE e
<1>2. Users(e) \in SUBSET Workers
  BY DEF Users
<1>3. IsFiniteSet(Users(e))
  BY <1>2, FS_Subset, WorkersFinite
<1> QED
  BY <1>3, FS_CardinalityType

(* A fresh coordinator satisfies the invariant. *)
LEMMA InitIInv == Init => IInv
<1> SUFFICES ASSUME Init PROVE IInv
  OBVIOUS
<1>1. TypeOK
  BY DEF Init, TypeOK, Positions
<1>2. EntryWhileRetained /\ OneEntryPerUID /\ EntriesInjective /\ NoLeakedEntry
  BY NilIsNoEntry
  DEF Init, EntryWhileRetained, OneEntryPerUID, EntriesInjective, NoLeakedEntry
<1>3. OneTokenPerEntry /\ PutNeverBlocks
  BY DEF Init, OneTokenPerEntry, PutNeverBlocks, HasToken
<1> QED
  BY <1>1, <1>2, <1>3 DEF IInv

(* Steps that leave the map, the counts and the locals alone keep the three *)
(* facts about them.                                                        *)
LEMMA QuietStep ==
  ASSUME IInv, UNCHANGED <<entries, refs, uid, entry>>
  PROVE  OneEntryPerUID' /\ EntriesInjective' /\ NoLeakedEntry'
<1>1. OneEntryPerUID' /\ EntriesInjective'
  BY DEF IInv, OneEntryPerUID, EntriesInjective
<1>2. \A e : Users(e)' = Users(e)
  BY DEF Users
<1>3. NoLeakedEntry'
  BY <1>2 DEF IInv, NoLeakedEntry
<1> QED
  BY <1>1, <1>3

(* Acquire starts: nothing is retained yet. *)
LEMMA CallStep ==
  ASSUME IInv, NEW w \in Workers, NEW u \in UIDs, Call(w, u)
  PROVE  IInv'
<1> USE DEF Call, Goto, IInv
<1>1. TypeOK'
  BY DEF TypeOK, Positions
<1>2. entry[w] = NoEntry
  BY DEF EntryWhileRetained
<1>3. EntryWhileRetained'
  BY <1>2 DEF TypeOK, EntryWhileRetained
<1>4. OneEntryPerUID' /\ EntriesInjective'
  BY <1>2 DEF TypeOK, OneEntryPerUID, EntriesInjective
<1>5. NoLeakedEntry'
  <2>1. \A e : Users(e)' = Users(e)
    BY DEF Users
  <2> QED
    BY <2>1 DEF NoLeakedEntry
<1>6. OneTokenPerEntry' /\ PutNeverBlocks'
  BY DEF TypeOK, OneTokenPerEntry, PutNeverBlocks, HasToken
<1> QED
  BY <1>1, <1>3, <1>4, <1>5, <1>6

(* The end of a call's context changes nothing but the flag that records it. *)
LEMMA CancelStep ==
  ASSUME IInv, NEW w \in Workers, Cancel(w)
  PROVE  IInv'
<1> USE DEF Cancel, IInv
<1>1. TypeOK' /\ EntryWhileRetained'
  BY DEF TypeOK, EntryWhileRetained
<1>2. OneTokenPerEntry' /\ PutNeverBlocks'
  BY DEF OneTokenPerEntry, PutNeverBlocks, HasToken
<1> QED
  BY <1>1, <1>2, QuietStep

(* retain, entry found: it gains a user and keeps its token. *)
LEMMA RetainFound ==
  ASSUME IInv, NEW w \in Workers, Retain(w), entries[uid[w]] # NoEntry
  PROVE  IInv'
<1>1. PICK e \in Entries : e = entries[uid[w]]
  BY DEF IInv, TypeOK
<1>2. /\ pc[w] = "called" /\ pc' = [pc EXCEPT ![w] = "waiting"]
      /\ entry' = [entry EXCEPT ![w] = e]
      /\ refs' = [refs EXCEPT ![e] = @ + 1]
      /\ UNCHANGED <<entries, ready, uid, canceled>>
  BY <1>1 DEF Retain, Goto
<1>3. entry[w] = NoEntry /\ e # NoEntry
  BY <1>2, NilIsNoEntry DEF IInv, TypeOK, EntryWhileRetained
<1> USE DEF IInv
<1>4. TypeOK'
  BY <1>2 DEF TypeOK, Positions
<1>5. EntryWhileRetained'
  BY <1>2, <1>3 DEF TypeOK, EntryWhileRetained
<1>6. OneEntryPerUID' /\ EntriesInjective'
  BY <1>1, <1>2 DEF TypeOK, OneEntryPerUID, EntriesInjective
<1>7. NoLeakedEntry'
  <2>1. Users(e)' = Users(e) \cup {w}
    BY <1>2 DEF Users, TypeOK
  <2>2. \A f \in Entries : f # e => Users(f)' = Users(f)
    BY <1>2, <1>3, NilIsNoEntry DEF Users, TypeOK
  <2>3. w \notin Users(e)
    BY <1>3 DEF Users
  <2>4. Cardinality(Users(e)') = Cardinality(Users(e)) + 1
    BY <2>1, <2>3, UsersFinite, FS_AddElement
  <2>5. refs[e] = Cardinality(Users(e))
    BY <1>1 DEF NoLeakedEntry, TypeOK
  <2>6. refs'[e] = Cardinality(Users(e)')
    BY <1>2, <2>4, <2>5 DEF TypeOK
  <2>7. \A f \in Entries : f # e => refs'[f] = refs[f]
    BY <1>2 DEF TypeOK
  <2> QED
    BY <1>2, <2>1, <2>2, <2>6, <2>7 DEF NoLeakedEntry
<1>8. OneTokenPerEntry' /\ PutNeverBlocks'
  BY <1>2 DEF TypeOK, OneTokenPerEntry, PutNeverBlocks, HasToken
<1> QED
  BY <1>4, <1>5, <1>6, <1>7, <1>8

(* retain, no entry: the new one has one user and one token, in a cell that *)
(* nobody refers to.                                                        *)
LEMMA RetainNew ==
  ASSUME IInv, NEW w \in Workers, Retain(w), entries[uid[w]] = NoEntry
  PROVE  IInv'
<1>1. PICK e \in Free :
        /\ entries' = [entries EXCEPT ![uid[w]] = e]
        /\ entry' = [entry EXCEPT ![w] = e]
        /\ ready' = [ready EXCEPT ![e] = 1]
        /\ refs' = [refs EXCEPT ![e] = 1]
  BY DEF Retain
<1>2. /\ pc[w] = "called" /\ pc' = [pc EXCEPT ![w] = "waiting"]
      /\ UNCHANGED <<uid, canceled>>
  BY DEF Retain, Goto
<1>3. /\ e \in Entries /\ e # NoEntry
      /\ \A u \in UIDs : entries[u] # e
      /\ \A v \in Workers : entry[v] # e
  BY NilIsNoEntry DEF Free
<1>4. entry[w] = NoEntry
  BY <1>2 DEF IInv, EntryWhileRetained
<1> USE DEF IInv
<1>5. TypeOK'
  BY <1>1, <1>2, <1>3 DEF TypeOK, Positions
<1>6. EntryWhileRetained'
  BY <1>1, <1>2, <1>3 DEF TypeOK, EntryWhileRetained
<1>7. OneEntryPerUID'
  BY <1>1, <1>2, <1>3 DEF TypeOK, OneEntryPerUID
<1>8. EntriesInjective'
  BY <1>1, <1>2, <1>3 DEF TypeOK, EntriesInjective
<1>9. NoLeakedEntry'
  <2>1. Users(e)' = {w}
    BY <1>1, <1>3 DEF Users, TypeOK
  <2>2. \A f \in Entries : f # e => Users(f)' = Users(f)
    BY <1>1, <1>4, NilIsNoEntry DEF Users, TypeOK
  <2>3. refs'[e] = Cardinality(Users(e)')
    BY <1>1, <1>3, <2>1, FS_Singleton, Zenon DEF TypeOK
  <2>4. \A f \in Entries : f # e => refs'[f] = refs[f]
    BY <1>1 DEF TypeOK
  <2>5. \A u \in UIDs, f \in Entries : entries'[u] = f => f = e \/ entries[u] = f
    BY <1>1 DEF TypeOK
  <2> QED
    BY <2>1, <2>2, <2>3, <2>4, <2>5 DEF NoLeakedEntry
<1>10. OneTokenPerEntry' /\ PutNeverBlocks'
  BY <1>1, <1>2, <1>3 DEF TypeOK, OneTokenPerEntry, PutNeverBlocks, HasToken
<1> QED
  BY <1>5, <1>6, <1>7, <1>8, <1>9, <1>10

(* The select, the second context check and the two sends move only the    *)
(* token and the position of one call.                                     *)
LEMMA TokenStep ==
  ASSUME IInv, NEW w \in Workers,
         SelectDone(w) \/ SelectReady(w) \/ CheckGranted(w) \/ PutBack(w) \/ Release(w)
  PROVE  IInv'
<1> USE DEF IInv, Goto, PutToken
<1>1. UNCHANGED <<entries, refs, uid, entry>>
  BY DEF SelectDone, SelectReady, CheckGranted, PutBack, Release
<1>2. entry[w] \in Entries
  BY DEF SelectDone, SelectReady, CheckGranted, PutBack, Release, EntryWhileRetained, TypeOK
<1>3. TypeOK'
  BY <1>2 DEF SelectDone, SelectReady, CheckGranted, PutBack, Release, TypeOK, Positions
<1>4. EntryWhileRetained'
  BY DEF SelectDone, SelectReady, CheckGranted, PutBack, Release, TypeOK, EntryWhileRetained
<1>5. OneTokenPerEntry' /\ PutNeverBlocks'
  <2> USE DEF TypeOK, OneTokenPerEntry, PutNeverBlocks, HasToken
  <2>1. CASE SelectDone(w)
    BY <2>1 DEF SelectDone
  <2>2. CASE SelectReady(w)
    BY <1>2, <2>2 DEF SelectReady
  <2>3. CASE CheckGranted(w)
    BY <2>3 DEF CheckGranted
  <2>4. CASE PutBack(w)
    BY <1>2, <2>4 DEF PutBack
  <2>5. CASE Release(w)
    BY <1>2, <2>5 DEF Release
  <2> QED
    BY <2>1, <2>2, <2>3, <2>4, <2>5
<1> QED
  BY <1>1, <1>3, <1>4, <1>5, QuietStep

(* releaseReference: the entry leaves the map exactly with its last user. *)
LEMMA DropStep ==
  ASSUME IInv, NEW w \in Workers, DropReference(w)
  PROVE  IInv'
<1> USE DEF IInv
<1>1. PICK e \in Entries : e = entry[w]
  BY DEF DropReference, Goto, EntryWhileRetained, TypeOK
<1>2. /\ pc[w] = "dropping" /\ pc' = [pc EXCEPT ![w] = "idle"]
      /\ refs' = [refs EXCEPT ![e] = @ - 1]
      /\ entry' = [entry EXCEPT ![w] = NoEntry]
      /\ canceled' = [canceled EXCEPT ![w] = FALSE]
      /\ UNCHANGED <<ready, uid>>
  BY <1>1 DEF DropReference, Goto
<1>3. entries[uid[w]] = e /\ e # NoEntry
  BY <1>1, NilIsNoEntry DEF OneEntryPerUID
<1>4. entries' = IF refs'[e] = 0 THEN [entries EXCEPT ![uid[w]] = NoEntry] ELSE entries
  BY <1>1, <1>3 DEF DropReference
<1>5. TypeOK'
  BY <1>2, <1>4 DEF TypeOK, Positions
<1>6. EntryWhileRetained'
  BY <1>2 DEF TypeOK, EntryWhileRetained
<1>7. Users(e)' = Users(e) \ {w}
  BY <1>2, <1>3 DEF Users, TypeOK
<1>8. refs'[e] = Cardinality(Users(e)')
  <2>1. refs[e] = Cardinality(Users(e))
    BY <1>3 DEF NoLeakedEntry, TypeOK
  <2>2. w \in Users(e)
    BY <1>1 DEF Users
  <2>3. Cardinality(Users(e)') = Cardinality(Users(e)) - 1
    BY <1>7, <2>2, UsersFinite, FS_RemoveElement, Zenon
  <2> QED
    BY <1>2, <2>1, <2>3 DEF TypeOK
<1>9. refs'[e] = 0 <=> Users(e)' = {}
  <2>1. IsFiniteSet(Users(e)')
    BY <1>7, UsersFinite, FS_RemoveElement
  <2> QED
    BY <1>8, <2>1, FS_EmptySet
<1>10. OneEntryPerUID'
  <2> SUFFICES ASSUME NEW v \in Workers, entry'[v] # NoEntry
               PROVE  entries'[uid'[v]] = entry'[v]
    BY DEF OneEntryPerUID
  <2>1. v # w /\ entry'[v] = entry[v] /\ entries[uid[v]] = entry[v]
    BY <1>2 DEF OneEntryPerUID, TypeOK
  <2>2. CASE entry[v] = e
    <3>1. v \in Users(e)'
      BY <2>1, <2>2 DEF Users
    <3> QED
      BY <1>2, <1>4, <1>9, <2>1, <3>1
  <2>3. CASE entry[v] # e
    BY <1>2, <1>3, <1>4, <2>1, <2>3 DEF TypeOK
  <2> QED
    BY <2>2, <2>3
<1>11. EntriesInjective'
  BY <1>4 DEF EntriesInjective, TypeOK
<1>12. NoLeakedEntry'
  <2>1. \A f \in Entries : f # e => Users(f)' = Users(f) /\ refs'[f] = refs[f]
    BY <1>1, <1>2, NilIsNoEntry DEF Users, TypeOK
  <2>2. \A u \in UIDs, f \in Entries : entries'[u] = f => entries[u] = f
    BY <1>4, NilIsNoEntry DEF TypeOK
  <2>3. \A u \in UIDs : entries'[u] = e => refs'[e] # 0
    BY <1>3, <1>4 DEF TypeOK, EntriesInjective
  <2> QED
    BY <1>8, <1>9, <2>1, <2>2, <2>3 DEF NoLeakedEntry
<1>13. OneTokenPerEntry' /\ PutNeverBlocks'
  BY <1>2 DEF TypeOK, OneTokenPerEntry, PutNeverBlocks, HasToken
<1> QED
  BY <1>5, <1>6, <1>10, <1>11, <1>12, <1>13

-----------------------------------------------------------------------------
(* Every step of the coordinator preserves the invariant. *)
LEMMA NextIInv == IInv /\ [Next]_vars => IInv'
<1> SUFFICES ASSUME IInv, [Next]_vars PROVE IInv'
  OBVIOUS
<1>1. CASE UNCHANGED vars
  <2>1. TypeOK' /\ EntryWhileRetained' /\ OneTokenPerEntry' /\ PutNeverBlocks'
    BY <1>1 DEF vars, IInv, TypeOK, EntryWhileRetained, OneTokenPerEntry,
                PutNeverBlocks, HasToken
  <2> QED
    BY <1>1, <2>1, QuietStep DEF vars, IInv
<1>2. CASE Next
  <2>1. PICK w \in Workers : \/ \E u \in UIDs : Call(w, u)
                             \/ Cancel(w)
                             \/ Retain(w)
                             \/ SelectDone(w)
                             \/ SelectReady(w)
                             \/ CheckGranted(w)
                             \/ PutBack(w)
                             \/ Release(w)
                             \/ DropReference(w)
    BY <1>2 DEF Next
  <2> QED
    BY <2>1, CallStep, CancelStep, RetainFound, RetainNew, TokenStep, DropStep
<1> QED
  BY <1>1, <1>2

(* The coordinator's state stays well formed; in particular no channel     *)
(* ever holds a second token.                                              *)
THEOREM TypeCorrect == Spec => []TypeOK
<1>1. IInv => TypeOK
  BY DEF IInv
<1> QED
  BY <1>1, InitIInv, NextIInv, PTL DEF Spec

(* acquire never lets two reconciles own the graph of one Gateway UID: with *)
(* equal UIDs they share the map's entry, and an entry has one token.       *)
THEOREM MutexCorrect == Spec => []MutualExclusion
<1>1. IInv => MutualExclusion
  <2> SUFFICES ASSUME IInv, NEW v \in Workers, NEW w \in Workers,
                      pc[v] = "holding", pc[w] = "holding", uid[v] = uid[w]
               PROVE  v = w
    BY DEF MutualExclusion
  <2>1. entry[v] = entry[w]
    BY DEF IInv, EntryWhileRetained, OneEntryPerUID
  <2> QED
    BY <2>1 DEF IInv, OneTokenPerEntry, HasToken
<1> QED
  BY <1>1, InitIInv, NextIInv, PTL DEF Spec

(* releaseReference neither cuts off a waiter nor leaves an entry behind,  *)
(* and the sends of acquire and release never block.                       *)
THEOREM EntriesCorrect ==
  Spec => [](OneEntryPerUID /\ NoLeakedEntry /\ PutNeverBlocks)
<1>1. IInv => OneEntryPerUID /\ NoLeakedEntry /\ PutNeverBlocks
  BY DEF IInv
<1> QED
  BY <1>1, InitIInv, NextIInv, PTL DEF Spec

-----------------------------------------------------------------------------
(* A grant that passes the second context check meets no other owner. *)
LEMMA GrantIsExclusive ==
  ASSUME IInv, NEW w \in Workers, pc[w] = "granted"
  PROVE  \A v \in Workers : ~(pc[v] = "holding" /\ uid[v] = uid[w])
<1> SUFFICES ASSUME NEW v \in Workers, pc[v] = "holding", uid[v] = uid[w]
             PROVE  FALSE
  OBVIOUS
<1>1. entry[v] = entry[w]
  BY DEF IInv, EntryWhileRetained, OneEntryPerUID
<1> QED
  BY <1>1 DEF IInv, OneTokenPerEntry, HasToken

(* Each step is a step of the keyed mutex, or invisible to callers. *)
LEMMA StepSimulation == IInv /\ [Next]_vars => [Lock!Next]_(Lock!vars)
<1> SUFFICES ASSUME IInv, [Next]_vars PROVE [Lock!Next]_(Lock!vars)
  OBVIOUS
<1> USE DEF Lock!vars
<1>1. CASE UNCHANGED vars
  BY <1>1 DEF vars
<1>2. ASSUME NEW w \in Workers, NEW u \in UIDs, Call(w, u)
      PROVE  Lock!Request(w, u)
  BY <1>2, Zenon DEF Call, Goto, Lock!Request, IInv, TypeOK
<1>3. ASSUME NEW w \in Workers,
             \/ Cancel(w) \/ Retain(w) \/ SelectReady(w)
             \/ PutBack(w) \/ DropReference(w)
      PROVE  UNCHANGED Lock!vars
  BY <1>3 DEF Cancel, Retain, SelectReady, PutBack, PutToken, DropReference,
              Goto, IInv, TypeOK
<1>4. ASSUME NEW w \in Workers, SelectDone(w) PROVE Lock!GiveUp(w)
  BY <1>4, Zenon DEF SelectDone, Goto, Lock!GiveUp, IInv, TypeOK
<1>5. ASSUME NEW w \in Workers, CheckGranted(w), canceled[w] PROVE Lock!GiveUp(w)
  BY <1>5, Zenon DEF CheckGranted, Goto, Lock!GiveUp, IInv, TypeOK
<1>6. ASSUME NEW w \in Workers, CheckGranted(w), ~canceled[w] PROVE Lock!Grant(w)
  <2>1. pc[w] = "granted" /\ pc' = [pc EXCEPT ![w] = "holding"] /\ uid' = uid
    BY <1>6 DEF CheckGranted, Goto
  <2>2. Lock!Owners(uid[w]) = {}
    BY <2>1, GrantIsExclusive DEF Lock!Owners
  <2> QED
    BY <2>1, <2>2, Zenon DEF Lock!Grant, IInv, TypeOK
<1>7. ASSUME NEW w \in Workers, Release(w) PROVE Lock!Release(w)
  BY <1>7, Zenon DEF Release, PutToken, Goto, Lock!Release, IInv, TypeOK
<1> QED
  BY <1>1, <1>2, <1>3, <1>4, <1>5, <1>6, <1>7 DEF Next, Lock!Next

(* acquire and its release function implement the keyed mutex the four     *)
(* callers of graph.Acquire rely on.                                       *)
THEOREM CoordinatorImplementsLock == Spec => LockSpec
<1>1. Init => Lock!Init
  BY DEF Init, Lock!Init
<1> QED
  BY <1>1, InitIInv, NextIInv, StepSimulation, PTL DEF Spec, LockSpec, Lock!Spec
=============================================================================
