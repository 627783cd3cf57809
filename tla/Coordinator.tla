---------------------------- MODULE Coordinator ----------------------------
(***************************************************************************)
(* internal/controller/graph/coordinator.go: the keyed lock every provider *)
(* mutation runs under.  Each Gateway UID in use has a heap entry with a   *)
(* one-token channel and a reference count; the map drops an entry with    *)
(* its last reference.  Retain and DropReference are the two critical      *)
(* sections of c.mu; the channel operations and the context checks between *)
(* them are separate steps, interleaved with every other reconcile.        *)
(***************************************************************************)
EXTENDS Integers, FiniteSets

CONSTANTS Workers,      \* reconciles that may run concurrently
          UIDs,         \* Gateway UIDs
          Entries,      \* heap cells for graphCoordinatorEntry
          NoEntry       \* the nil pointer

ASSUME WorkersFinite == IsFiniteSet(Workers)
ASSUME NilIsNoEntry == NoEntry \notin Entries

VARIABLES
    entries,    \* Coordinator.entries: UID -> entry
    ready,      \* entry.ready: number of buffered tokens
    refs,       \* entry.refs
    pc,         \* position of each call of acquire
    uid,        \* its gatewayUID argument
    entry,      \* its local variable entry
    canceled    \* whether its context has ended

vars == <<entries, ready, refs, pc, uid, entry, canceled>>

Positions == {"idle", "called", "waiting", "granted", "putback",
              "holding", "dropping"}

TypeOK == /\ entries \in [UIDs -> Entries \cup {NoEntry}]
          /\ ready \in [Entries -> {0, 1}]
          /\ refs \in [Entries -> Int]
          /\ pc \in [Workers -> Positions]
          /\ uid \in [Workers -> UIDs]
          /\ entry \in [Workers -> Entries \cup {NoEntry}]
          /\ canceled \in [Workers -> BOOLEAN]

Init == /\ entries = [u \in UIDs |-> NoEntry]
        /\ ready = [e \in Entries |-> 0]
        /\ refs = [e \in Entries |-> 0]
        /\ pc = [w \in Workers |-> "idle"]
        /\ uid \in [Workers -> UIDs]
        /\ entry = [w \in Workers |-> NoEntry]
        /\ canceled = [w \in Workers |-> FALSE]

Goto(w, from, to) == pc[w] = from /\ pc' = [pc EXCEPT ![w] = to]

(* A call with a live context (an ended one returns at once). *)
Call(w, u) == /\ Goto(w, "idle", "called")
              /\ uid' = [uid EXCEPT ![w] = u]
              /\ UNCHANGED <<entries, ready, refs, entry, canceled>>

(* The context of a call in progress ends: shutdown or a deadline. *)
Cancel(w) == /\ pc[w] # "idle"
             /\ ~canceled[w]
             /\ canceled' = [canceled EXCEPT ![w] = TRUE]
             /\ UNCHANGED <<entries, ready, refs, pc, uid, entry>>

(* A cell nothing points at: what the allocator may hand out. *)
Free == Entries \ ({entries[u] : u \in UIDs} \cup {entry[w] : w \in Workers})

Retain(w) ==
    /\ Goto(w, "called", "waiting")
    /\ \/ /\ entries[uid[w]] # NoEntry
          /\ entry' = [entry EXCEPT ![w] = entries[uid[w]]]
          /\ refs' = [refs EXCEPT ![entries[uid[w]]] = @ + 1]
          /\ UNCHANGED <<entries, ready>>
       \/ /\ entries[uid[w]] = NoEntry
          /\ \E e \in Free :
                /\ entries' = [entries EXCEPT ![uid[w]] = e]
                /\ entry' = [entry EXCEPT ![w] = e]
                /\ ready' = [ready EXCEPT ![e] = 1]
                /\ refs' = [refs EXCEPT ![e] = 1]
    /\ UNCHANGED <<uid, canceled>>

(* Mutants of SelectDone: a canceled wait forgets its reference, or goes on *)
(* as if it had the lock.                                                   *)
SelectDoneLeaks(w) == /\ canceled[w]
                      /\ Goto(w, "waiting", "idle")
                      /\ entry' = [entry EXCEPT ![w] = NoEntry]
                      /\ canceled' = [canceled EXCEPT ![w] = FALSE]
                      /\ UNCHANGED <<entries, ready, refs, uid>>

SelectDoneHolds(w) == /\ canceled[w]
                      /\ Goto(w, "waiting", "holding")
                      /\ UNCHANGED <<entries, ready, refs, uid, entry, canceled>>

(* The two arms of the select; when both are ready Go picks either. *)
SelectDone(w) == /\ canceled[w]
                 /\ Goto(w, "waiting", "dropping")
                 /\ UNCHANGED <<entries, ready, refs, uid, entry, canceled>>

SelectReady(w) == /\ Goto(w, "waiting", "granted")
                  /\ ready[entry[w]] = 1
                  /\ ready' = [ready EXCEPT ![entry[w]] = 0]
                  /\ UNCHANGED <<entries, refs, uid, entry, canceled>>

(* Mutant of CheckGranted: a canceled grant leaves without the give-back. *)
CheckGrantedLosesToken(w) ==
    /\ Goto(w, "granted", IF canceled[w] THEN "dropping" ELSE "holding")
    /\ UNCHANGED <<entries, ready, refs, uid, entry, canceled>>

(* The second look at the context, after the token has been taken. *)
CheckGranted(w) ==
    /\ Goto(w, "granted", IF canceled[w] THEN "putback" ELSE "holding")
    /\ UNCHANGED <<entries, ready, refs, uid, entry, canceled>>

(* A send on the one-slot channel: it blocks while the slot is full. *)
PutToken(w, from) == /\ Goto(w, from, "dropping")
                     /\ ready[entry[w]] = 0
                     /\ ready' = [ready EXCEPT ![entry[w]] = 1]
                     /\ UNCHANGED <<entries, refs, uid, entry, canceled>>

PutBack(w) == PutToken(w, "putback")

(* The release function; sync.Once makes every later call a no-op. *)
Release(w) == PutToken(w, "holding")

DropReference(w) ==
    /\ Goto(w, "dropping", "idle")
    /\ refs' = [refs EXCEPT ![entry[w]] = @ - 1]
    /\ entries' = IF refs'[entry[w]] = 0 /\ entries[uid[w]] = entry[w]
                  THEN [entries EXCEPT ![uid[w]] = NoEntry]
                  ELSE entries
    /\ entry' = [entry EXCEPT ![w] = NoEntry]
    /\ canceled' = [canceled EXCEPT ![w] = FALSE]
    /\ UNCHANGED <<ready, uid>>

Next == \E w \in Workers : \/ \E u \in UIDs : Call(w, u)
                           \/ Cancel(w)
                           \/ Retain(w)
                           \/ SelectDone(w)
                           \/ SelectReady(w)
                           \/ CheckGranted(w)
                           \/ PutBack(w)
                           \/ Release(w)
                           \/ DropReference(w)

Spec == Init /\ [][Next]_vars

(***************************************************************************)
(* A goroutine that can run does run.  Release is fair because the holder  *)
(* is inside a provider call bounded by operationContext and releases in a *)
(* defer.  SelectReady is strongly fair because the runtime queues the     *)
(* receivers of a channel first in, first out.                             *)
(***************************************************************************)
Fairness == \A w \in Workers : /\ WF_vars(Retain(w))
                               /\ WF_vars(SelectDone(w))
                               /\ SF_vars(SelectReady(w))
                               /\ WF_vars(CheckGranted(w))
                               /\ WF_vars(PutBack(w))
                               /\ WF_vars(Release(w))
                               /\ WF_vars(DropReference(w))

FairSpec == Spec /\ Fairness

-----------------------------------------------------------------------------
Users(e) == {w \in Workers : entry[w] = e}

HasToken(w) == pc[w] \in {"granted", "putback", "holding"}

(* Two reconciles never both own the graph of one Gateway UID, whatever    *)
(* cells were freed and reallocated between retain and releaseReference.   *)
MutualExclusion ==
    \A v, w \in Workers :
        pc[v] = "holding" /\ pc[w] = "holding" /\ uid[v] = uid[w] => v = w

(* Everyone who retained a UID shares the entry the map holds for it: the  *)
(* delete in releaseReference never cuts a waiter off from later callers.  *)
OneEntryPerUID ==
    \A w \in Workers : entry[w] # NoEntry => entries[uid[w]] = entry[w]

(* The map holds an entry exactly while a call refers to it, so abandoned  *)
(* waits leave nothing behind; refs counts those calls.                    *)
NoLeakedEntry ==
    \A u \in UIDs, e \in Entries :
        entries[u] = e => refs[e] = Cardinality(Users(e)) /\ Users(e) # {}

(* Whoever has the token finds the channel empty: neither the release      *)
(* function nor the give-back of a canceled grant can block on its send.   *)
PutNeverBlocks == \A w \in Workers : HasToken(w) => ready[entry[w]] = 0

(* A wait ends: with the lock or, once the context has ended, without it.  *)
WaitEnds == \A w \in Workers : pc[w] = "waiting" ~> pc[w] \in {"holding", "idle"}

(* acquire, with its map, channels and counts, is a keyed mutex. *)
Lock == INSTANCE KeyedMutex WITH
    status <- [w \in Workers |->
                  IF pc[w] = "holding" THEN "holding"
                  ELSE IF pc[w] \in {"called", "waiting", "granted"}
                  THEN "waiting" ELSE "idle"],
    key <- uid

(* Every step of the coordinator is a step of KeyedMutex or changes        *)
(* nothing a caller can see.                                               *)
LockSpec == Lock!Spec
=============================================================================
