----------------------------- MODULE ProbeProof -----------------------------
(***************************************************************************)
(* The state file of the capability probe accounts for every object in     *)
(* OpenStack, for any number of members, runs, cleanups, failures and      *)
(* crashes.                                                                *)
(***************************************************************************)
EXTENDS Probe, SequenceTheorems, TLAPS

Files == [here : BOOLEAN, torn : BOOLEAN, ids : SUBSET Resources]
Running == {"claim", "create", "save", "created", "update", "updated", "check"}
Cleaning == {"inspect", "fip", "delete", "deleted", "gone"}
Processes == [pc : {"idle"} \cup Running \cup Cleaning, ids : SUBSET Resources,
              todo : Seq(Resources)]

Types ==
    /\ cloud \subseteq Resources /\ lost \subseteq Resources
    /\ file \in Files /\ proc \in Processes /\ keep \in BOOLEAN
    /\ lb \in {"none", "PENDING", "ACTIVE", "DELETING"} /\ (lb = "none" <=> "lb" \notin cloud)
    /\ file.here \/ file.ids = {}
    /\ file.torn => file.here /\ file.ids = {}
    /\ proc.ids = {} \/ "lb" \in proc.ids
    /\ file.ids = {} \/ "lb" \in file.ids

(* What an object cannot exist without. *)
Parent(r) == CASE r = "lb" -> {}
               [] r \in {"fip", "listener", "pool"} -> {"lb"}
               [] r = "policy" -> {"listener"}
               [] r = "rule" -> {"policy"}
               [] OTHER -> {"pool"}

(* Whatever is left hangs from the load balancer, but for a Floating IP, and *)
(* a load balancer that is being deleted has nothing below it.               *)
Rooted ==
    /\ \A r \in cloud \ {"fip"} : Parent(r) \subseteq cloud
    /\ lb = "DELETING" => cloud \subseteq {"lb", "fip"}

Before(i) == {proc.todo[j] : j \in 1..i-1}

(* A run has created exactly what it remembers, and what it creates next     *)
(* comes after its parents.                                                  *)
RunState ==
    proc.pc \in Running =>
        /\ lost = {} /\ cloud = proc.ids /\ lb # "DELETING"
        /\ proc.pc = "claim" => proc.ids = {}
        /\ proc.pc # "check" => proc.todo # <<>>
        /\ \A i \in 1..Len(proc.todo) : Parent(proc.todo[i]) \subseteq proc.ids \cup Before(i)
        /\ proc.pc # "save" => file.ids = proc.ids
        /\ proc.pc = "save" => proc.ids = file.ids \cup {Head(proc.todo)}
        /\ proc.pc \in {"created", "update", "updated"} => Head(proc.todo) \in proc.ids

(* A cleanup knows all that the file names.  It gets to the end of its list  *)
(* only when the load balancer, the last of the list, is gone, and past the  *)
(* Floating IP only when that is gone.                                       *)
CleanupState ==
    proc.pc \in Cleaning =>
        /\ file.ids \subseteq proc.ids
        /\ proc.pc # "inspect" /\ proc.todo = <<>> => "lb" \notin proc.ids \cap cloud
        /\ proc.pc # "inspect" /\ proc.todo # <<>> =>
               "lb" \in proc.ids /\ proc.todo[Len(proc.todo)] = "lb"
        /\ proc.pc = "deleted" => Len(proc.todo) > 1
        /\ proc.pc = "gone" => proc.todo # <<>>
        /\ proc.pc \in {"delete", "deleted", "gone"} => "fip" \notin proc.ids \cap cloud

Accounted == cloud \subseteq file.ids \cup lost \cup Unsaved

IInv == Types /\ Rooted /\ RunState /\ CleanupState /\ Accounted

-----------------------------------------------------------------------------
(* The order in which a run creates its objects.                             *)
LEMMA CreateOrderIndices ==
  ASSUME NEW withFIP \in BOOLEAN
  PROVE  \E k \in {3, 4} :
           LET o == createOrder(withFIP)
               n == k + Len(Members)
           IN  /\ o \in Seq(Resources) /\ Len(o) = n + 3
               /\ o[1] = "lb" /\ o[k - 1] = "listener" /\ o[k] = "pool"
               /\ k = 4 => o[2] = "fip"
               /\ \A i \in k+1..n : o[i] \in Range(Members)
               /\ o[n + 1] = "monitor" /\ o[n + 2] = "policy" /\ o[n + 3] = "rule"
<1> DEFINE h == IF withFIP THEN <<"lb", "fip", "listener", "pool">> ELSE <<"lb", "listener", "pool">>
           t == <<"monitor", "policy", "rule">>
           k == IF withFIP THEN 4 ELSE 3
           m == Len(Members)
<1>1. Members \in Seq(Range(Members)) /\ Members \in Seq(Resources) /\ m \in Nat
  <2>1. Range(Members) \subseteq Resources
    BY DEF Resources
  <2> QED
    BY <2>1, MembersAssumption, SeqMonotonic, LenProperties
<1>2. h \in Seq(Resources) /\ Len(h) = k /\ t \in Seq(Resources) /\ Len(t) = 3
  <2>1. \A r \in Singles : r \in Resources
    BY DEF Resources
  <2>2. t \in Seq(Resources) /\ Len(t) = 3
    BY <2>1 DEF Singles
  <2>3. CASE withFIP
    BY <2>1, <2>2, <2>3 DEF Singles
  <2>4. CASE ~withFIP
    BY <2>1, <2>2, <2>4 DEF Singles
  <2> QED
    BY <2>3, <2>4
<1>3. createOrder(withFIP) = (h \o Members) \o t
  BY DEF createOrder
<1>4. /\ h \o Members \in Seq(Resources) /\ Len(h \o Members) = k + m
      /\ \A i \in 1..k+m : (h \o Members)[i] = IF i <= k THEN h[i] ELSE Members[i - k]
  BY <1>1, <1>2, ConcatProperties
<1>5. /\ createOrder(withFIP) \in Seq(Resources) /\ Len(createOrder(withFIP)) = k + m + 3
      /\ \A i \in 1..k+m+3 : createOrder(withFIP)[i]
                               = IF i <= k+m THEN (h \o Members)[i] ELSE t[i - (k+m)]
  BY <1>2, <1>3, <1>4, ConcatProperties
<1>6. \A i \in k+1..k+m : createOrder(withFIP)[i] \in Range(Members)
  <2>1. TAKE i \in k+1..k+m
  <2>2. i - k \in 1..m /\ createOrder(withFIP)[i] = Members[i - k]
    BY <1>1, <1>4, <1>5
  <2> QED
    BY <2>2, <1>1, ElementOfSeq
<1>7. \A i \in 1..k : createOrder(withFIP)[i] = h[i]
  BY <1>1, <1>4, <1>5
<1>8. /\ k \in {3, 4} /\ h[1] = "lb" /\ h[k - 1] = "listener" /\ h[k] = "pool"
      /\ k = 4 => h[2] = "fip"
      /\ t[1] = "monitor" /\ t[2] = "policy" /\ t[3] = "rule"
  OBVIOUS
<1> HIDE DEF h, t, k, m
<1>9. \A j \in 1..3 : createOrder(withFIP)[k+m+j] = t[j]
  <2>1. TAKE j \in 1..3
  <2>2. k+m+j \in 1..k+m+3 /\ ~(k+m+j <= k+m) /\ (k+m+j) - (k+m) = j
    BY <1>1, <1>8
  <2> QED
    BY <1>5, <2>2
<1>10. /\ createOrder(withFIP)[1] = "lb" /\ createOrder(withFIP)[k - 1] = "listener"
       /\ createOrder(withFIP)[k] = "pool" /\ (k = 4 => createOrder(withFIP)[2] = "fip")
  <2>1. {1, k - 1, k} \subseteq 1..k /\ (k = 4 => 2 \in 1..k)
    BY <1>8
  <2> QED
    BY <1>7, <1>8, <2>1
<1>11. /\ createOrder(withFIP)[k+m+1] = "monitor" /\ createOrder(withFIP)[k+m+2] = "policy"
       /\ createOrder(withFIP)[k+m+3] = "rule"
  BY <1>8, <1>9
<1>12. k \in {3, 4}
  BY <1>8
<1> WITNESS k \in {3, 4}
<1> QED
  BY <1>5, <1>6, <1>10, <1>11 DEF m

LEMMA ParentOf ==
  /\ Parent("lb") = {} /\ Parent("fip") = {"lb"} /\ Parent("listener") = {"lb"}
  /\ Parent("pool") = {"lb"} /\ Parent("policy") = {"listener"} /\ Parent("rule") = {"policy"}
  /\ Parent("monitor") = {"pool"} /\ \A r \in Range(Members) : Parent(r) = {"pool"}
<1>1. \A r \in Range(Members) : r \notin Singles
  BY MembersAssumption
<1> QED
  BY <1>1 DEF Parent, Singles

(* A run creates every object after its parent. *)
LEMMA ParentsComeFirst ==
  ASSUME NEW withFIP \in BOOLEAN
  PROVE  LET o == createOrder(withFIP)
         IN  \A i \in 1..Len(o) : Parent(o[i]) \subseteq {o[j] : j \in 1..i-1}
<1> DEFINE o == createOrder(withFIP)
           m == Len(Members)
<1>1. m \in Nat
  BY MembersAssumption, LenProperties
<1>2. PICK k \in {3, 4} :
        /\ o \in Seq(Resources) /\ Len(o) = k + m + 3
        /\ o[1] = "lb" /\ o[k - 1] = "listener" /\ o[k] = "pool"
        /\ k = 4 => o[2] = "fip"
        /\ \A i \in k+1..k+m : o[i] \in Range(Members)
        /\ o[k + m + 1] = "monitor" /\ o[k + m + 2] = "policy" /\ o[k + m + 3] = "rule"
  BY CreateOrderIndices
<1> HIDE DEF o, m
<1> SUFFICES ASSUME NEW i \in 1..k+m+3 PROVE Parent(o[i]) \subseteq {o[j] : j \in 1..i-1}
  BY <1>2 DEF o
<1>3. CASE i = 1
  BY <1>2, <1>3, ParentOf
<1>4. CASE i \in 2..k
  <2>1. 1 \in 1..i-1
    BY <1>1, <1>4
  <2>2. o[i] \in {"fip", "listener", "pool"}
    BY <1>2, <1>4
  <2>3. Parent(o[i]) = {o[1]}
    BY <1>2, <2>2, ParentOf
  <2> QED
    BY <2>1, <2>3
<1>5. CASE i \in k+1..k+m+1
  <2>1. k \in 1..i-1
    BY <1>1, <1>5
  <2>2. o[i] \in Range(Members) \cup {"monitor"}
    <3>1. CASE i \in k+1..k+m
      BY <1>2, <3>1
    <3>2. CASE i = k+m+1
      BY <1>2, <3>2
    <3> QED
      BY <1>1, <1>5, <3>1, <3>2
  <2>3. Parent(o[i]) = {o[k]}
    BY <1>2, <2>2, ParentOf
  <2> QED
    BY <2>1, <2>3
<1>6. CASE i = k+m+2
  <2>1. k-1 \in 1..i-1 /\ Parent(o[i]) = {o[k-1]}
    BY <1>1, <1>2, <1>6, ParentOf
  <2> QED
    BY <2>1
<1>7. CASE i = k+m+3
  <2>1. k+m+2 \in 1..i-1 /\ Parent(o[i]) = {o[k+m+2]}
    BY <1>1, <1>2, <1>7, ParentOf
  <2> QED
    BY <2>1
<1> QED
  BY <1>1, <1>3, <1>4, <1>5, <1>6, <1>7

(* A cleanup deletes the load balancer last. *)
LEMMA DeleteOrderEnd ==
  deleteOrder \in Seq(Resources) /\ deleteOrder # <<>> /\ deleteOrder[Len(deleteOrder)] = "lb"
<1> DEFINE h == <<"rule", "policy", "monitor">>
           t == <<"pool", "listener", "lb">>
           m == Len(Members)
<1>1. Members \in Seq(Resources) /\ m \in Nat
  <2>1. Range(Members) \subseteq Resources
    BY DEF Resources
  <2> QED
    BY <2>1, MembersAssumption, SeqMonotonic, LenProperties
<1>2. \A r \in Singles : r \in Resources
  BY DEF Resources
<1>3. h \in Seq(Resources) /\ Len(h) = 3 /\ t \in Seq(Resources) /\ Len(t) = 3 /\ t[3] = "lb"
  BY <1>2 DEF Singles
<1>4. deleteOrder = (h \o Members) \o t
  BY DEF deleteOrder
<1>5. h \o Members \in Seq(Resources) /\ Len(h \o Members) = 3 + m
  BY <1>1, <1>3, ConcatProperties
<1>6. /\ deleteOrder \in Seq(Resources) /\ Len(deleteOrder) = Len(h \o Members) + 3
      /\ \A i \in 1..Len(h \o Members) + 3 :
            deleteOrder[i] = IF i <= Len(h \o Members) THEN (h \o Members)[i]
                             ELSE t[i - Len(h \o Members)]
  BY <1>3, <1>4, <1>5, ConcatProperties
<1> HIDE DEF h, t, m
<1>7. 6+m \in 1..6+m /\ ~(6+m <= 3+m) /\ (6+m) - (3+m) = 3 /\ (3+m)+3 = 6+m
  BY <1>1 DEF m
<1>8. deleteOrder[6+m] = "lb" /\ Len(deleteOrder) = 6+m
  BY <1>3, <1>5, <1>6, <1>7
<1>9. deleteOrder # <<>>
  BY <1>1, <1>8, EmptySeq DEF m
<1> QED
  BY <1>6, <1>8, <1>9

-----------------------------------------------------------------------------
LEMMA IdleFacts == Idle \in Processes /\ Idle.pc = "idle" /\ Idle.ids = {}
BY DEF Idle, Processes, Running, Cleaning

(* A list that is not empty has a first element, one of the objects. *)
LEMMA TodoHead ==
  ASSUME NEW s \in Seq(Resources), s # <<>>
  PROVE  /\ Len(s) \in Nat /\ Len(s) >= 1 /\ Head(s) = s[1] /\ Head(s) \in Resources
         /\ Tail(s) \in Seq(Resources) /\ Len(Tail(s)) = Len(s) - 1
         /\ \A i \in 1..Len(s)-1 : Tail(s)[i] = s[i+1]
BY HeadTailProperties, EmptySeq, LenProperties

LEMMA InitIInv == Init => IInv
<1> SUFFICES ASSUME Init PROVE IInv
  OBVIOUS
<1>1. Types
  BY IdleFacts, Zenon DEF Init, Types, NoFile, Files
<1> QED
  BY <1>1, IdleFacts
  DEF Init, IInv, Rooted, RunState, CleanupState, Accounted, Running, Cleaning

(* A process that has ended promises nothing but what the file names. *)
LEMMA EndedStep ==
  ASSUME IInv, proc' = Idle, UNCHANGED <<cloud, lb, file, keep>>,
         lost' \subseteq Resources, cloud \subseteq file.ids \cup lost'
  PROVE  IInv'
<1>1. Types' /\ Rooted'
  BY IdleFacts DEF IInv, Types, Rooted
<1> QED
  BY <1>1, IdleFacts DEF IInv, RunState, CleanupState, Accounted, Running, Cleaning

(* Run claims the file when nothing that it could name is left, and with new *)
(* IDs what an earlier run lost is none of its concern.                      *)
LEMMA RunStep == ASSUME IInv, Run PROVE IInv'
<1>1. /\ proc.pc = "idle" /\ ~file.here /\ file' = [NoFile EXCEPT !.here = TRUE, !.torn = TRUE]
      /\ keep' \in BOOLEAN /\ cloud' = cloud \ lost /\ lost' = {}
      /\ lb' = IF "lb" \in cloud' THEN lb ELSE "none"
  BY DEF Run, Forget
<1>2. PICK withFIP \in BOOLEAN :
        proc' = [Idle EXCEPT !.pc = "claim", !.todo = createOrder(withFIP)]
  BY Zenon DEF Run
<1> DEFINE o == createOrder(withFIP)
<1>3. cloud' = {} /\ lb' = "none"
  BY <1>1 DEF IInv, Types, Accounted, Unsaved
<1>4. o \in Seq(Resources) /\ o # <<>>
  BY CreateOrderIndices, MembersAssumption, LenProperties, EmptySeq
<1>5. \A i \in 1..Len(o) : Parent(o[i]) \subseteq {o[j] : j \in 1..i-1}
  BY ParentsComeFirst
<1> HIDE DEF o
<1>6. proc' \in Processes /\ proc'.pc = "claim" /\ proc'.ids = {} /\ proc'.todo = o
  BY <1>2, <1>4, IdleFacts, Zenon DEF Idle, Processes, Running, o
<1>7. file' \in Files /\ file'.here /\ file'.ids = {}
  BY <1>1, Zenon DEF NoFile, Files
<1>8. RunState'
  <2>1. ASSUME NEW i \in 1..Len(o) PROVE Parent(o[i]) \subseteq Before(i)'
    <3>1. Before(i)' = {o[j] : j \in 1..i-1}
      BY <1>6 DEF Before
    <3> QED
      BY <1>5, <3>1
  <2> QED
    BY <1>1, <1>3, <1>4, <1>6, <1>7, <2>1 DEF RunState
<1>9. Types' /\ Rooted' /\ Accounted'
  BY <1>1, <1>3, <1>6, <1>7 DEF Types, Rooted, Accounted
<1>10. CleanupState'
  BY <1>6 DEF CleanupState, Cleaning
<1> QED
  BY <1>8, <1>9, <1>10 DEF IInv

(* The first state names nothing, as the claimed file does. *)
LEMMA CreateStateStep == ASSUME IInv, CreateState PROVE IInv'
<1>1. /\ proc.pc = "claim" /\ file' = [file EXCEPT !.torn = FALSE]
      /\ proc' = [proc EXCEPT !.pc = "create"] /\ UNCHANGED <<cloud, lb, keep, lost>>
  BY DEF CreateState, Goto
<1>2. /\ file' \in Files /\ file'.here = file.here /\ file'.torn = FALSE /\ file'.ids = file.ids
  BY <1>1 DEF IInv, Types, Files
<1>3. /\ proc' \in Processes /\ proc'.pc = "create" /\ proc'.ids = proc.ids
      /\ proc'.todo = proc.todo
  BY <1>1 DEF IInv, Types, Processes, Running
<1>4. Types' /\ Rooted'
  BY <1>1, <1>2, <1>3 DEF IInv, Types, Rooted
<1>5. RunState'
  BY <1>1, <1>2, <1>3 DEF IInv, RunState, Before, Running
<1>6. CleanupState' /\ Accounted'
  BY <1>1, <1>2, <1>3 DEF IInv, CleanupState, Accounted, Unsaved, Cleaning
<1> QED
  BY <1>4, <1>5, <1>6 DEF IInv

(* The next object is created below parents that exist. *)
LEMMA CreateStep == ASSUME IInv, createAndExerciseResources PROVE IInv'
<1> DEFINE r == Head(proc.todo)
<1>1. /\ proc.pc = "create" /\ cloud' = cloud \cup {r} /\ UNCHANGED <<file, keep, lost>>
      /\ lb' = IF r = "fip" THEN lb ELSE "PENDING"
      /\ proc' = [proc EXCEPT !.pc = "save", !.ids = @ \cup {r}]
  BY DEF createAndExerciseResources
<1>2. /\ lost = {} /\ cloud = proc.ids /\ lb # "DELETING" /\ proc.todo # <<>>
      /\ \A i \in 1..Len(proc.todo) : Parent(proc.todo[i]) \subseteq proc.ids \cup Before(i)
      /\ file.ids = proc.ids
  BY <1>1 DEF IInv, RunState, Running
<1>3. proc.todo \in Seq(Resources) /\ proc.ids \subseteq Resources
  BY DEF IInv, Types, Processes
<1>4. /\ Len(proc.todo) \in Nat /\ Len(proc.todo) >= 1 /\ r = proc.todo[1] /\ r \in Resources
  BY <1>2, <1>3, TodoHead
<1>5. Parent(r) \subseteq proc.ids
  <2>1. Before(1) = {}
    BY DEF Before
  <2> QED
    BY <1>2, <1>4, <2>1
<1>6. r = "lb" \/ "lb" \in proc.ids
  <2>1. r # "lb" => Parent(r) # {}
    BY DEF Parent
  <2> QED
    BY <1>5, <2>1 DEF IInv, Types
<1> HIDE DEF r
<1>7. /\ proc' \in Processes /\ proc'.pc = "save" /\ proc'.ids = proc.ids \cup {r}
      /\ proc'.todo = proc.todo
  BY <1>1, <1>3, <1>4, Zenon DEF IInv, Types, Processes, Running
<1>8. Types'
  <2>1. /\ lb' \in {"none", "PENDING", "ACTIVE", "DELETING"}
        /\ lb' = "none" <=> "lb" \notin cloud'
    BY <1>1, <1>2, <1>6 DEF IInv, Types
  <2> QED
    BY <1>1, <1>2, <1>3, <1>4, <1>6, <1>7, <2>1 DEF IInv, Types
<1>9. Rooted'
  BY <1>1, <1>2, <1>5 DEF IInv, Rooted
<1>10. RunState'
  BY <1>1, <1>2, <1>7 DEF RunState, Before, r
<1>11. Accounted' /\ CleanupState'
  BY <1>1, <1>2, <1>7 DEF Accounted, Unsaved, CleanupState, Cleaning, r
<1> QED
  BY <1>8, <1>9, <1>10, <1>11 DEF IInv

(* The file names what the process remembers: nothing is unsaved any more. *)
LEMMA SaveStep == ASSUME IInv, saveState PROVE IInv'
<1>1. /\ proc.pc = "save" /\ file' = [here |-> TRUE, torn |-> FALSE, ids |-> proc.ids]
      /\ proc' = [proc EXCEPT !.pc = "created"] /\ UNCHANGED <<cloud, lb, keep, lost>>
  BY DEF saveState, Goto
<1>2. /\ lost = {} /\ cloud = proc.ids /\ lb # "DELETING" /\ proc.todo # <<>>
      /\ \A i \in 1..Len(proc.todo) : Parent(proc.todo[i]) \subseteq proc.ids \cup Before(i)
      /\ proc.ids = file.ids \cup {Head(proc.todo)}
  BY <1>1 DEF IInv, RunState, Running
<1>3. /\ proc' \in Processes /\ proc'.pc = "created" /\ proc'.ids = proc.ids
      /\ proc'.todo = proc.todo /\ proc.ids \subseteq Resources
  BY <1>1 DEF IInv, Types, Processes, Running
<1>4. file' \in Files /\ file'.here /\ ~file'.torn /\ file'.ids = proc.ids
  BY <1>1, <1>3 DEF Files
<1>5. Types' /\ Rooted' /\ Accounted'
  BY <1>1, <1>2, <1>3, <1>4 DEF IInv, Types, Rooted, Accounted
<1>6. RunState'
  BY <1>1, <1>2, <1>3, <1>4 DEF RunState, Before
<1> QED
  BY <1>3, <1>5, <1>6 DEF IInv, CleanupState, Cleaning

(* Steps of a run that only read or update objects. *)
LEMMA RunGoesOn ==
  ASSUME IInv, UNCHANGED <<cloud, file, keep, lost>>, lb' \in {lb, "PENDING"},
         proc.pc \in {"created", "update", "updated"},
         proc' \in Processes, proc'.ids = proc.ids, "lb" \in proc.ids,
         \/ proc'.pc \in {"created", "update", "updated"} /\ proc'.todo = proc.todo
         \/ /\ proc.pc = "updated" /\ proc'.todo = Tail(proc.todo)
            /\ proc'.pc = IF Len(proc.todo) = 1 THEN "check" ELSE "create"
  PROVE  IInv'
<1>1. /\ lost = {} /\ cloud = proc.ids /\ lb # "DELETING" /\ proc.todo # <<>>
      /\ \A i \in 1..Len(proc.todo) : Parent(proc.todo[i]) \subseteq proc.ids \cup Before(i)
      /\ file.ids = proc.ids /\ Head(proc.todo) \in proc.ids
  BY DEF IInv, RunState, Running
<1>2. Types' /\ Rooted'
  BY <1>1 DEF IInv, Types, Rooted
<1>3. RunState'
  <2>1. CASE proc'.todo = proc.todo /\ proc'.pc \in {"created", "update", "updated"}
    BY <1>1, <2>1 DEF RunState, Before
  <2>2. CASE /\ proc'.todo = Tail(proc.todo)
             /\ proc'.pc = IF Len(proc.todo) = 1 THEN "check" ELSE "create"
    <3> DEFINE s == proc.todo
    <3>1. /\ s \in Seq(Resources) /\ s # <<>>
      BY <1>1 DEF IInv, Types, Processes
    <3>2. /\ Len(s) \in Nat /\ Len(s) >= 1 /\ Head(s) = s[1] /\ Tail(s) \in Seq(Resources)
          /\ Len(Tail(s)) = Len(s) - 1 /\ \A i \in 1..Len(s)-1 : Tail(s)[i] = s[i+1]
      BY <3>1, TodoHead
    <3>3. proc'.pc # "check" => Tail(s) # <<>>
      <4>1. Len(s) # 1 => Len(Tail(s)) # 0
        BY <3>2
      <4> QED
        BY <2>2, <4>1, EmptySeq, Zenon
    <3>4. ASSUME NEW i \in 1..Len(s)-1
          PROVE  Parent(Tail(s)[i]) \subseteq proc.ids \cup {Tail(s)[j] : j \in 1..i-1}
      <4>1. i+1 \in 1..Len(s) /\ Tail(s)[i] = s[i+1]
        BY <3>2
      <4>2. Parent(s[i+1]) \subseteq proc.ids \cup {s[j] : j \in 1..i}
        BY <1>1, <4>1 DEF Before
      <4>3. ASSUME NEW j \in 1..i, s[j] \notin proc.ids
            PROVE  s[j] \in {Tail(s)[l] : l \in 1..i-1}
        <5>1. j # 1 /\ j - 1 \in 1..i-1 /\ j - 1 \in 1..Len(s)-1
          BY <1>1, <3>2, <4>3
        <5>2. Tail(s)[j-1] = s[j]
          BY <3>2, <5>1
        <5> QED
          BY <5>1, <5>2, Zenon
      <4> QED
        BY <4>1, <4>2, <4>3
    <3>5. \A i \in 1..Len(proc'.todo) :
             Parent(proc'.todo[i]) \subseteq proc'.ids \cup {proc'.todo[j] : j \in 1..i-1}
      BY <2>2, <3>2, <3>4
    <3>6. proc'.pc \in {"check", "create"} /\ (proc'.pc # "check" => proc'.todo # <<>>)
      BY <2>2, <3>3
    <3>7. (proc'.pc # "save" => file'.ids = proc'.ids) /\ lost' = {} /\ cloud' = proc'.ids
      BY <1>1
    <3>8. lb' # "DELETING"
      BY <1>1
    <3> QED
      BY <3>5, <3>6, <3>7, <3>8 DEF RunState, Before
  <2> QED
    BY <2>1, <2>2
<1>4. proc'.pc \notin Cleaning
  BY DEF Cleaning
<1>5. Accounted'
  BY <1>1 DEF Accounted
<1> QED
  BY <1>2, <1>3, <1>4, <1>5 DEF IInv, CleanupState

(* In the middle of a run the load balancer exists. *)
LEMMA RunHasLoadBalancer ==
  ASSUME IInv, proc.pc \in {"created", "update", "updated"}
  PROVE  "lb" \in proc.ids
BY DEF IInv, RunState, Running, Types

LEMMA UpdateStep == ASSUME IInv, Update PROVE IInv'
<1>1. /\ proc.pc = "update" /\ UNCHANGED <<cloud, file, keep, lost>> /\ lb' \in {lb, "PENDING"}
      /\ proc' = [proc EXCEPT !.pc = "updated"]
  BY DEF Update, Goto
<1>2. /\ proc' \in Processes /\ proc'.pc = "updated" /\ proc'.ids = proc.ids
      /\ proc'.todo = proc.todo
  BY <1>1 DEF IInv, Types, Processes, Running
<1> QED
  BY <1>1, <1>2, RunGoesOn, RunHasLoadBalancer

(* A wait ends: the run goes on, or the cleanup with its next child. *)
LEMMA WaitStep == ASSUME IInv, waitActive PROVE IInv'
<1>1. UNCHANGED <<cloud, lb, file, keep, lost>>
  BY DEF waitActive
<1>2. CASE proc.pc = "created"
  <2>1. proc' = [proc EXCEPT !.pc = "update"]
    BY <1>2 DEF waitActive
  <2>2. /\ proc' \in Processes /\ proc'.pc = "update" /\ proc'.ids = proc.ids
        /\ proc'.todo = proc.todo
    BY <2>1 DEF IInv, Types, Processes, Running
  <2> QED
    BY <1>1, <1>2, <2>2, RunGoesOn, RunHasLoadBalancer
<1>3. CASE proc.pc = "updated"
  <2>1. proc' = [proc EXCEPT !.todo = Tail(@),
                             !.pc = IF Len(proc.todo) = 1 THEN "check" ELSE "create"]
    BY <1>3 DEF waitActive
  <2>2. proc.todo \in Seq(Resources) /\ proc.todo # <<>>
    BY <1>3 DEF IInv, RunState, Running, Types, Processes
  <2>3. Tail(proc.todo) \in Seq(Resources)
    BY <2>2, TodoHead
  <2>4. /\ proc' \in Processes /\ proc'.ids = proc.ids /\ proc'.todo = Tail(proc.todo)
        /\ proc'.pc = IF Len(proc.todo) = 1 THEN "check" ELSE "create"
    BY <2>1, <2>3, Zenon DEF IInv, Types, Processes, Running
  <2> QED
    BY <1>1, <1>3, <2>4, RunGoesOn, RunHasLoadBalancer
<1>4. CASE proc.pc = "deleted"
  <2> DEFINE s == proc.todo
  <2>1. proc' = [proc EXCEPT !.todo = Tail(@), !.pc = "delete"]
    BY <1>4 DEF waitActive
  <2>2. /\ file.ids \subseteq proc.ids /\ "fip" \notin proc.ids \cap cloud /\ Len(s) > 1
        /\ s # <<>> => "lb" \in proc.ids /\ s[Len(s)] = "lb"
    BY <1>4 DEF IInv, CleanupState, Cleaning
  <2>3. s \in Seq(Resources) /\ s # <<>>
    BY <2>2, EmptySeq DEF IInv, Types, Processes
  <2>4. /\ Len(s) \in Nat /\ Tail(s) \in Seq(Resources) /\ Len(Tail(s)) = Len(s) - 1
        /\ \A i \in 1..Len(s)-1 : Tail(s)[i] = s[i+1]
    BY <2>3, TodoHead
  <2>5. Tail(s) # <<>> /\ Tail(s)[Len(Tail(s))] = "lb"
    <3>1. Len(s) - 1 \in 1..Len(s)-1 /\ Len(Tail(s)) # 0 /\ (Len(s) - 1) + 1 = Len(s)
      BY <2>2, <2>4
    <3>2. Tail(s)[Len(s) - 1] = s[Len(s)]
      BY <2>4, <3>1
    <3> QED
      BY <2>2, <2>3, <2>4, <3>1, <3>2, EmptySeq, Zenon
  <2>6. /\ proc' \in Processes /\ proc'.ids = proc.ids /\ proc'.todo = Tail(s)
        /\ proc'.pc = "delete"
    BY <2>1, <2>4, Zenon DEF IInv, Types, Processes, Cleaning
  <2>7. CleanupState'
    BY <1>1, <2>2, <2>3, <2>5, <2>6 DEF CleanupState, Cleaning
  <2>8. Types' /\ Rooted'
    BY <1>1, <2>6 DEF IInv, Types, Rooted
  <2>9. RunState' /\ Accounted'
    BY <1>1, <1>4, <2>6 DEF IInv, RunState, Running, Accounted, Unsaved
  <2> QED
    BY <2>7, <2>8, <2>9 DEF IInv
<1> QED
  BY <1>2, <1>3, <1>4 DEF waitActive

(* A run that ends or fails cleans up after itself from memory, which knows  *)
(* at least what the file names.                                             *)
LEMMA DeferredStep ==
  ASSUME IInv, proc.pc \in Running, proc' = Deferred(proc), lost' = lost \cup Unsaved,
         UNCHANGED <<cloud, lb, file, keep>>
  PROVE  IInv'
<1>1. file.ids \subseteq proc.ids
  BY DEF IInv, RunState
<1>2. Unsaved \subseteq Resources
  <2>1. proc.pc = "save" => Head(proc.todo) \in Resources
    BY DEF IInv, RunState, Types, Processes
  <2> QED
    BY <2>1 DEF Unsaved
<1>3. lost' \subseteq Resources /\ cloud \subseteq file.ids \cup lost'
  BY <1>2 DEF IInv, Types, Accounted
<1>4. CASE proc' = Idle
  BY <1>3, <1>4, EndedStep
<1>5. CASE proc' = [proc EXCEPT !.pc = "inspect"]
  <2>1. /\ proc' \in Processes /\ proc'.pc = "inspect" /\ proc'.ids = proc.ids
    BY <1>5 DEF IInv, Types, Processes, Cleaning
  <2>2. Types' /\ Rooted'
    BY <1>3, <2>1 DEF IInv, Types, Rooted
  <2>3. CleanupState' /\ RunState' /\ Accounted'
    BY <1>1, <1>3, <2>1 DEF CleanupState, RunState, Running, Accounted
  <2> QED
    BY <2>2, <2>3 DEF IInv
<1> QED
  BY <1>4, <1>5 DEF Deferred

LEMMA RunEndsStep == ASSUME IInv, RunEnds PROVE IInv'
<1>1. Unsaved = {}
  BY DEF RunEnds, Unsaved
<1>2. proc.pc \in Running /\ lost' = lost \cup Unsaved
  BY <1>1 DEF RunEnds, Running
<1> QED
  BY <1>2, DeferredStep DEF RunEnds

(* A CreateState that fails has created nothing that the file could name. *)
LEMMA FailStep == ASSUME IInv, Fail \/ Crash PROVE IInv'
<1>1. /\ UNCHANGED <<cloud, lb, keep>> /\ lost' = lost \cup Unsaved
      /\ file' = file \/ (proc.pc = "claim" /\ file' = NoFile /\ proc' = Deferred(proc))
  BY DEF Fail, Crash, InRun
<1>2. CASE file' = file /\ proc' = Deferred(proc) /\ InRun
  BY <1>1, <1>2, DeferredStep DEF InRun, Running
<1>3. CASE file' = file /\ proc' = Idle
  <2>1. Unsaved \subseteq Resources
    <3>1. proc.pc = "save" => Head(proc.todo) \in Resources
      BY DEF IInv, RunState, Types, Processes, Running
    <3> QED
      BY <3>1 DEF Unsaved
  <2>2. lost' \subseteq Resources /\ cloud \subseteq file.ids \cup lost'
    BY <1>1, <2>1 DEF IInv, Types, Accounted
  <2> QED
    BY <1>1, <1>3, <2>2, EndedStep
<1>4. CASE proc.pc = "claim" /\ file' = NoFile /\ proc' = Deferred(proc)
  <2>1. cloud = {} /\ lost = {} /\ Unsaved = {} /\ proc' = Idle
    BY <1>4 DEF IInv, RunState, Running, Unsaved, Deferred
  <2>2. Types'
    BY <1>1, <1>4, <2>1, IdleFacts, Zenon DEF IInv, Types, NoFile, Files
  <2> QED
    BY <1>1, <2>1, <2>2, IdleFacts
    DEF IInv, Rooted, RunState, CleanupState, Accounted, Running, Cleaning
<1> QED
  BY <1>1, <1>2, <1>3, <1>4 DEF Fail, Crash

(* Octavia finishes: a deleted load balancer had nothing below it. *)
LEMMA SettleStep == ASSUME IInv, Settle PROVE IInv'
<1>1. UNCHANGED <<file, proc, keep, lost>>
  BY DEF Settle
<1>2. CASE lb = "PENDING" /\ lb' = "ACTIVE" /\ cloud' = cloud
  <2>1. Types' /\ Rooted'
    BY <1>1, <1>2 DEF IInv, Types, Rooted
  <2>2. RunState' /\ CleanupState' /\ Accounted'
    BY <1>1, <1>2 DEF IInv, RunState, Before, CleanupState, Accounted, Unsaved
  <2> QED
    BY <2>1, <2>2 DEF IInv
<1>3. CASE lb = "DELETING" /\ lb' = "none" /\ cloud' = cloud \ {"lb"}
  <2>1. cloud' \subseteq {"fip"} /\ proc.pc \notin Running
    BY <1>3 DEF IInv, Rooted, RunState
  <2>2. Types' /\ Rooted'
    BY <1>1, <1>3, <2>1 DEF IInv, Types, Rooted
  <2>3. RunState' /\ CleanupState' /\ Accounted'
    BY <1>1, <1>3, <2>1 DEF IInv, RunState, CleanupState, Accounted, Unsaved
  <2> QED
    BY <2>2, <2>3 DEF IInv
<1> QED
  BY <1>2, <1>3 DEF Settle

-----------------------------------------------------------------------------
(* Steps of a cleanup that touch neither the cloud nor the file. *)
LEMMA CleanupGoesOn ==
  ASSUME IInv, UNCHANGED <<cloud, lb, file, keep, lost>>, proc.pc \notin Running,
         proc' \in Processes, proc'.pc \in Cleaning, proc'.ids = {} \/ "lb" \in proc'.ids,
         CleanupState'
  PROVE  IInv'
<1>1. Types' /\ Rooted'
  BY DEF IInv, Types, Rooted
<1>2. RunState' /\ Accounted'
  BY DEF IInv, RunState, Running, Cleaning, Accounted, Unsaved
<1> QED
  BY <1>1, <1>2 DEF IInv

LEMMA CleanupStep == ASSUME IInv, Cleanup PROVE IInv'
<1>1. /\ proc.pc = "idle" /\ proc' = [Idle EXCEPT !.pc = "inspect", !.ids = file.ids]
      /\ UNCHANGED <<cloud, lb, file, keep, lost>>
  BY DEF Cleanup
<1>2. file.ids \subseteq Resources /\ (file.ids = {} \/ "lb" \in file.ids)
  BY DEF IInv, Types, Files
<1>3. proc' \in Processes /\ proc'.pc = "inspect" /\ proc'.ids = file.ids
  BY <1>1, <1>2, IdleFacts, Zenon DEF Idle, Processes, Cleaning
<1>4. CleanupState'
  BY <1>1, <1>3 DEF CleanupState
<1> QED
  BY <1>1, <1>2, <1>3, <1>4, CleanupGoesOn DEF Running, Cleaning

LEMMA InspectStep == ASSUME IInv, inspectLoadBalancer PROVE IInv'
<1> DEFINE s == IF {"lb"} \cap proc.ids \cap cloud = {} THEN <<>> ELSE deleteOrder
<1>1. /\ proc.pc = "inspect" /\ proc' = [proc EXCEPT !.pc = "fip", !.todo = s]
      /\ UNCHANGED <<cloud, lb, file, keep, lost>>
  BY DEF inspectLoadBalancer
<1>2. /\ s \in Seq(Resources) /\ (s = <<>> => "lb" \notin proc.ids \cap cloud)
      /\ s # <<>> => "lb" \in proc.ids /\ s[Len(s)] = "lb"
  BY DeleteOrderEnd, EmptySeq
<1> HIDE DEF s
<1>3. proc' \in Processes /\ proc'.pc = "fip" /\ proc'.ids = proc.ids /\ proc'.todo = s
  BY <1>1, <1>2, Zenon DEF IInv, Types, Processes, Cleaning
<1>4. CleanupState'
  BY <1>1, <1>2, <1>3 DEF IInv, CleanupState, Cleaning
<1> QED
  BY <1>1, <1>3, <1>4, CleanupGoesOn DEF Running, Cleaning, IInv, Types

(* The Floating IP goes first; one without its port ends the cleanup. *)
LEMMA FloatingIPStep == ASSUME IInv, deleteFloatingIP PROVE IInv'
<1>1. proc.pc = "fip" /\ UNCHANGED <<lb, file, keep, lost>>
  BY DEF deleteFloatingIP
<1>2. CASE proc' = Idle /\ cloud' = cloud
  BY <1>1, <1>2, EndedStep DEF IInv, Types, Accounted, Unsaved
<1>3. CASE /\ proc' = [proc EXCEPT !.pc = "delete"] /\ cloud' \in {cloud, cloud \ {"fip"}}
           /\ "fip" \notin proc.ids \cap cloud'
  <2>1. /\ proc' \in Processes /\ proc'.pc = "delete" /\ proc'.ids = proc.ids
        /\ proc'.todo = proc.todo
    BY <1>3 DEF IInv, Types, Processes, Cleaning
  <2>2. Types' /\ Rooted'
    <3>1. \A r \in cloud : "fip" \notin Parent(r)
      BY DEF Parent
    <3> QED
      BY <1>1, <1>3, <2>1, <3>1 DEF IInv, Types, Rooted
  <2>3. CleanupState'
    BY <1>1, <1>3, <2>1 DEF IInv, CleanupState, Cleaning
  <2>4. RunState' /\ Accounted'
    BY <1>1, <1>3, <2>1 DEF IInv, RunState, Running, Accounted, Unsaved
  <2> QED
    BY <2>2, <2>3, <2>4 DEF IInv
<1> QED
  BY <1>1, <1>2, <1>3 DEF deleteFloatingIP, Goto

(* With an object goes all that hangs from it. *)
LEMMA ChildrenClosed ==
  ASSUME NEW r \in Resources \ {"lb"}, NEW x \in Resources, NEW p \in Parent(x),
         p = r \/ p \in Children(r)
  PROVE  x \in Children(r)
<1>1. Range(Members) \cap Singles = {}
  BY MembersAssumption
<1>2. p \in {"lb", "listener", "pool", "policy"}
  BY DEF Parent
<1>3. p \in Children(r) => r = "listener" /\ p = "policy"
  BY <1>1, <1>2 DEF Children, Singles
<1>4. /\ p = "listener" => x = "policy"
      /\ p = "policy" => x = "rule"
      /\ p = "pool" => x \in Range(Members) \cup {"monitor"}
  BY DEF Parent, Resources, Singles
<1>5. /\ Children("listener") = {"policy", "rule"} /\ Children("policy") = {"rule"}
      /\ Children("pool") = Range(Members) \cup {"monitor"}
  BY DEF Children
<1> QED
  BY <1>2, <1>3, <1>4, <1>5

(* The cleanup list is worked off: the load balancer stays its last element, *)
(* and is accepted for deletion only when everything below it has gone.      *)
LEMMA DeleteChildStep == ASSUME IInv, deleteChild PROVE IInv'
<1> DEFINE s == proc.todo
           r == Head(s)
<1>1. proc.pc = "delete" /\ s # <<>> /\ UNCHANGED <<file, keep, lost>>
  BY DEF deleteChild
<1>2. /\ file.ids \subseteq proc.ids /\ "fip" \notin proc.ids \cap cloud
      /\ "lb" \in proc.ids /\ s[Len(s)] = "lb"
  BY <1>1 DEF IInv, CleanupState, Cleaning
<1>3. s \in Seq(Resources)
  BY DEF IInv, Types, Processes
<1>4. /\ Len(s) \in Nat /\ Len(s) >= 1 /\ r = s[1] /\ r \in Resources
      /\ Tail(s) \in Seq(Resources) /\ Len(Tail(s)) = Len(s) - 1
      /\ \A i \in 1..Len(s)-1 : Tail(s)[i] = s[i+1]
  BY <1>1, <1>3, TodoHead
<1>5. r # "lb" => Len(s) > 1
  BY <1>2, <1>4
<1> HIDE DEF r
<1>6. CASE r # "lb" /\ proc' = [proc EXCEPT !.todo = Tail(@)] /\ UNCHANGED <<cloud, lb>>
  <2>1. Len(s) - 1 \in 1..Len(s)-1 /\ Len(Tail(s)) # 0 /\ (Len(s) - 1) + 1 = Len(s)
    <3>1. Len(s) > 1 /\ Len(s) \in Nat /\ Len(Tail(s)) = Len(s) - 1
      BY <1>4, <1>5, <1>6
    <3>2. \A n \in Nat : n > 1 => n - 1 \in 1..n-1 /\ n - 1 # 0 /\ (n - 1) + 1 = n
      OBVIOUS
    <3> QED
      BY <3>1, <3>2, Zenon
  <2>2. Tail(s)[Len(Tail(s))] = "lb"
    <3>1. Tail(s)[Len(s) - 1] = s[Len(s)]
      BY <1>4, <2>1
    <3> QED
      BY <1>2, <1>4, <3>1, Zenon
  <2>3. Tail(s) # <<>>
    BY <1>4, <2>1, EmptySeq, Zenon
  <2>4. /\ proc' \in Processes /\ proc'.pc = "delete" /\ proc'.ids = proc.ids
        /\ proc'.todo = Tail(s)
    BY <1>1, <1>4, <1>6, Zenon DEF IInv, Types, Processes, Cleaning
  <2>5. CleanupState'
    BY <1>1, <1>2, <1>6, <2>2, <2>3, <2>4 DEF CleanupState
  <2> QED
    BY <1>1, <1>2, <1>6, <2>4, <2>5, CleanupGoesOn DEF Running, Cleaning
<1>7. CASE proc' = Idle /\ UNCHANGED <<cloud, lb>>
  BY <1>1, <1>7, EndedStep DEF IInv, Types, Accounted, Unsaved
<1>8. CASE /\ r = "lb" /\ lb = "ACTIVE" /\ cloud \cap {"listener", "pool"} = {}
           /\ proc' = [proc EXCEPT !.pc = "gone"] /\ lb' = "DELETING" /\ cloud' = cloud
  <2>1. /\ proc' \in Processes /\ proc'.pc = "gone" /\ proc'.ids = proc.ids /\ proc'.todo = s
    BY <1>8 DEF IInv, Types, Processes, Cleaning
  <2>2. cloud \subseteq {"lb", "fip"}
    <3>1. \A x \in cloud \ {"fip"} : Parent(x) \subseteq cloud
      BY DEF IInv, Rooted
    <3>2. "policy" \notin cloud /\ \A x \in Range(Members) \cup {"monitor"} : x \notin cloud
      BY <1>8, <3>1, ParentOf, MembersAssumption DEF Singles
    <3>3. "rule" \notin cloud
      BY <3>1, <3>2, ParentOf
    <3> QED
      BY <1>8, <3>2, <3>3 DEF IInv, Types, Resources, Singles
  <2>3. Types' /\ Rooted'
    BY <1>1, <1>8, <2>1, <2>2 DEF IInv, Types, Rooted
  <2>4. CleanupState'
    BY <1>1, <1>2, <1>8, <2>1 DEF CleanupState
  <2>5. RunState' /\ Accounted'
    BY <1>1, <1>8, <2>1 DEF IInv, RunState, Running, Accounted, Unsaved
  <2> QED
    BY <2>3, <2>4, <2>5 DEF IInv
<1>9. CASE /\ r # "lb" /\ r \in proc.ids \cap cloud /\ lb = "ACTIVE" /\ lb' = "PENDING"
           /\ proc' = [proc EXCEPT !.pc = "deleted"] /\ cloud' = cloud \ ({r} \cup Children(r))
  <2>1. /\ proc' \in Processes /\ proc'.pc = "deleted" /\ proc'.ids = proc.ids
        /\ proc'.todo = s
    BY <1>9 DEF IInv, Types, Processes, Cleaning
  <2>2. "lb" \notin Children(r) /\ "lb" \in cloud /\ "lb" \in cloud'
    BY <1>9, MembersAssumption DEF Children, Singles, IInv, Types
  <2>3. Rooted'
    <3>1. ASSUME NEW x \in cloud' \ {"fip"}, NEW p \in Parent(x) PROVE p \in cloud'
      <4>1. p \in cloud /\ x \in Resources /\ x \notin Children(r)
        BY <1>9, <3>1 DEF IInv, Types, Rooted
      <4>2. p # r /\ p \notin Children(r)
        BY <1>4, <1>9, <4>1, ChildrenClosed
      <4> QED
        BY <1>9, <4>1, <4>2
    <3> QED
      BY <1>9, <3>1 DEF Rooted
  <2>4. Types'
    BY <1>1, <1>9, <2>1, <2>2 DEF IInv, Types
  <2>5. CleanupState'
    BY <1>1, <1>2, <1>5, <1>9, <2>1 DEF CleanupState
  <2>6. RunState' /\ Accounted'
    BY <1>1, <1>9, <2>1 DEF IInv, RunState, Running, Accounted, Unsaved
  <2> QED
    BY <2>3, <2>4, <2>5, <2>6 DEF IInv
<1>10. r # "lb" /\ ~PassedOver(r) => r \in proc.ids \cap cloud /\ r # "fip"
  BY <1>2 DEF PassedOver
<1>11. AcceptsDelete(r) /\ r # "fip" =>
         lb = "ACTIVE" /\ (r = "lb" => cloud \cap {"listener", "pool"} = {})
  BY DEF AcceptsDelete
<1> QED
  BY <1>6, <1>7, <1>8, <1>9, <1>10, <1>11 DEF deleteChild, Goto, PassedOver, r

LEMMA WaitDeletedStep == ASSUME IInv, waitDeleted PROVE IInv'
<1>1. /\ proc.pc = "gone" /\ "lb" \notin cloud /\ UNCHANGED <<cloud, lb, file, keep, lost>>
      /\ proc' = [proc EXCEPT !.pc = "delete", !.todo = <<>>]
  BY DEF waitDeleted
<1>2. /\ proc' \in Processes /\ proc'.pc = "delete" /\ proc'.ids = proc.ids
      /\ proc'.todo = <<>>
  BY <1>1, EmptySeq, Zenon DEF IInv, Types, Processes, Cleaning
<1>3. CleanupState'
  BY <1>1, <1>2 DEF IInv, CleanupState, Cleaning
<1> QED
  BY <1>1, <1>2, <1>3, CleanupGoesOn DEF Running, Cleaning, IInv, Types

(* The file goes: nothing it names exists. *)
LEMMA RemoveStep == ASSUME IInv, removeStateFile PROVE IInv'
<1>1. /\ proc.pc = "delete" /\ proc.todo = <<>> /\ file' = NoFile /\ proc' = Idle
      /\ UNCHANGED <<cloud, lb, keep, lost>>
  BY DEF removeStateFile
<1>2. /\ file.ids \subseteq proc.ids /\ "lb" \notin proc.ids \cap cloud
      /\ "fip" \notin proc.ids \cap cloud
  BY <1>1 DEF IInv, CleanupState, Cleaning
<1>3. cloud \subseteq lost
  <2>1. SUFFICES ASSUME NEW x \in cloud, x \notin lost PROVE FALSE
    OBVIOUS
  <2>2. x \in proc.ids /\ "lb" \in proc.ids
    BY <1>1, <1>2, <2>1 DEF IInv, Types, Accounted, Unsaved
  <2>3. "lb" \notin cloud /\ x # "fip"
    BY <1>2, <2>1, <2>2
  <2>4. \A y \in cloud \ {"fip"} : Parent(y) \subseteq cloud
    BY DEF IInv, Rooted
  <2>5. "listener" \notin cloud /\ "pool" \notin cloud
    BY <2>3, <2>4, ParentOf
  <2>6. "policy" \notin cloud /\ \A y \in Range(Members) \cup {"monitor"} : y \notin cloud
    BY <2>4, <2>5, ParentOf, MembersAssumption DEF Singles
  <2>7. "rule" \notin cloud
    BY <2>4, <2>6, ParentOf
  <2> QED
    BY <2>1, <2>3, <2>5, <2>6, <2>7 DEF IInv, Types, Resources, Singles
<1>4. Types' /\ Rooted'
  BY <1>1, IdleFacts DEF IInv, Types, Rooted, NoFile, Files
<1> QED
  BY <1>1, <1>3, <1>4, IdleFacts
  DEF IInv, RunState, CleanupState, Accounted, Running, Cleaning

-----------------------------------------------------------------------------
LEMMA NextIInv == IInv /\ [Next]_vars => IInv'
<1> SUFFICES ASSUME IInv, [Next]_vars PROVE IInv'
  OBVIOUS
<1>1. CASE Working
  BY <1>1, CreateStateStep, CreateStep, SaveStep, WaitStep, UpdateStep, RunEndsStep, InspectStep,
     FloatingIPStep, DeleteChildStep, WaitDeletedStep, RemoveStep DEF Working
<1>2. CASE Run \/ Cleanup \/ Settle \/ Fail \/ Crash
  BY <1>2, RunStep, CleanupStep, SettleStep, FailStep
<1>3. CASE UNCHANGED vars
  BY <1>3 DEF vars, IInv, Types, Rooted, RunState, Before, CleanupState, Accounted, Unsaved
<1> QED
  BY <1>1, <1>2, <1>3 DEF Next

(* Whatever fails and whenever the process dies, every object in OpenStack   *)
(* is named by the state file, about to be saved, or lost between its        *)
(* creation and its save; in particular cleanupWithClients removes the file  *)
(* only after the last object it names, for any number of members.           *)
THEOREM ProbeRecords == Spec => []Recorded
<1>1. IInv => Recorded
  BY DEF IInv, Types, Accounted, Recorded, TypeOK, InRun, InCleanup, Files, Processes,
         Running, Cleaning
<1> QED
  BY <1>1, InitIInv, NextIInv, PTL DEF Spec
=============================================================================
