------------------------------- MODULE Probe -------------------------------
(***************************************************************************)
(* The Octavia capability probe: "run" creates a load balancer and its     *)
(* children one by one, records every ID in a state file and cleans up     *)
(* when it ends; "cleanup" deletes what the state file names.  The process *)
(* may crash, its calls may fail, and only the file survives it.           *)
(***************************************************************************)
EXTENDS Integers, Sequences, Functions

CONSTANTS Members,      \* the sequence of backend members, at least one
          MaxRuns,
          MaxCrashes,
          MaxFailures   \* calls, waits, saves and checks that fail or time out

Singles == {"lb", "fip", "listener", "pool", "monitor", "policy", "rule"}

ASSUME MembersAssumption ==
    /\ Members \in Seq(Range(Members)) /\ Len(Members) > 0 /\ IsInjective(Members)
    /\ Range(Members) \cap Singles = {}

VARIABLES cloud,   \* the OpenStack objects of the latest run that exist
          lb,      \* provisioning status of the load balancer
          file,    \* the state file: is it there, not yet readable, and its IDs
          proc,    \* the process: program counter, IDs in memory, what is left to do
          keep,    \* KeepResources of the current run
          lost,    \* objects of that run that were never saved (history)
          spent

vars == <<cloud, lb, file, proc, keep, lost, spent>>

Resources == Singles \cup Range(Members)
NoFile == [here |-> FALSE, torn |-> FALSE, ids |-> {}]
Idle == [pc |-> "idle", ids |-> {}, todo |-> <<>>]

createOrder(withFIP) ==
    (IF withFIP THEN <<"lb", "fip", "listener", "pool">> ELSE <<"lb", "listener", "pool">>)
      \o Members \o <<"monitor", "policy", "rule">>

(* Mutant of deleteOrder: the pool before the policy that redirects to it. *)
deleteOrderPoolFirst ==
    <<"monitor">> \o Members \o <<"pool", "rule", "policy", "listener", "lb">>

(* deleteL7Rule .. deleteListener, and the load balancer. *)
deleteOrder ==
    <<"rule", "policy", "monitor">> \o Members \o <<"pool", "listener", "lb">>

-----------------------------------------------------------------------------
(* Octavia and Neutron. *)
Children(r) == CASE r = "listener" -> {"policy", "rule"}
                 [] r = "policy" -> {"rule"}
                 [] r = "pool" -> Range(Members) \cup {"monitor"}
                 [] OTHER -> {}
AcceptsDelete(r) ==
    CASE r = "fip" -> TRUE
      [] r = "pool" -> lb = "ACTIVE" /\ "policy" \notin cloud
      [] r = "lb" -> lb = "ACTIVE" /\ cloud \cap {"listener", "pool"} = {}
      [] OTHER -> lb = "ACTIVE"
Settle ==
    /\ lb \in {"PENDING", "DELETING"}
    /\ IF lb = "PENDING" THEN lb' = "ACTIVE" /\ UNCHANGED cloud
       ELSE lb' = "none" /\ cloud' = cloud \ {"lb"}
    /\ UNCHANGED <<file, proc, keep, lost, spent>>

-----------------------------------------------------------------------------
Goto(pc) == proc' = [proc EXCEPT !.pc = pc]
Spend(kind, max) == spent[kind] < max /\ spent' = [spent EXCEPT ![kind] = @ + 1]

(* The deferred cleanup of Run works on the IDs in memory. *)
Deferred(p) == IF ~keep /\ "lb" \in p.ids THEN [p EXCEPT !.pc = "inspect"] ELSE Idle
InRun == proc.pc \in {"claim", "create", "save", "created", "update", "updated", "check"}
InCleanup == proc.pc \in {"inspect", "fip", "delete", "deleted", "gone"}

(* A new run has new IDs: what an earlier one lost is none of its objects. *)
Forget == /\ cloud' = cloud \ lost /\ lost' = {}
          /\ lb' = IF "lb" \in cloud' THEN lb ELSE "none"

(* Mutant of Run: a state file of an earlier run is written over. *)
RunOverwrites ==
    /\ proc.pc = "idle" /\ Spend("runs", MaxRuns)
    /\ file' = [NoFile EXCEPT !.here = TRUE, !.torn = TRUE]
    /\ keep' \in BOOLEAN
    /\ \E withFIP \in BOOLEAN :
          proc' = [Idle EXCEPT !.pc = "claim", !.todo = createOrder(withFIP)]
    /\ Forget

(* Run, up to where CreateState claims a path that no earlier run holds; it  *)
(* writes the first state in a second step.                                   *)
Run ==
    /\ proc.pc = "idle" /\ ~file.here /\ Spend("runs", MaxRuns)
    /\ file' = [NoFile EXCEPT !.here = TRUE, !.torn = TRUE]
    /\ keep' \in BOOLEAN
    /\ \E withFIP \in BOOLEAN :
          proc' = [Idle EXCEPT !.pc = "claim", !.todo = createOrder(withFIP)]
    /\ Forget

CreateState ==
    /\ proc.pc = "claim"
    /\ file' = [file EXCEPT !.torn = FALSE]
    /\ Goto("create")
    /\ UNCHANGED <<cloud, lb, keep, lost, spent>>

(* The objects are created when the load balancer is ACTIVE again. *)
createAndExerciseResources ==
    /\ proc.pc = "create"
    /\ LET r == Head(proc.todo)
       IN  /\ cloud' = cloud \cup {r}
           /\ lb' = IF r = "fip" THEN lb ELSE "PENDING"
           /\ proc' = [proc EXCEPT !.pc = "save", !.ids = @ \cup {r}]
    /\ UNCHANGED <<file, keep, lost, spent>>

saveState ==
    /\ proc.pc = "save"
    /\ file' = [here |-> TRUE, torn |-> FALSE, ids |-> proc.ids]
    /\ Goto("created")
    /\ UNCHANGED <<cloud, lb, keep, lost, spent>>

(* WaitLoadBalancerActive before the update; a Floating IP has no wait. *)
waitActive ==
    /\ \/ proc.pc \in {"created", "updated"} /\ (lb = "ACTIVE" \/ Head(proc.todo) = "fip")
       \/ proc.pc = "deleted" /\ lb = "ACTIVE"
    /\ proc' = IF proc.pc = "created" THEN [proc EXCEPT !.pc = "update"]
               ELSE [proc EXCEPT !.todo = Tail(@),
                                 !.pc = IF proc.pc = "deleted" THEN "delete"
                                        ELSE IF Len(proc.todo) = 1 THEN "check" ELSE "create"]
    /\ UNCHANGED <<cloud, lb, file, keep, lost, spent>>

Update ==
    /\ proc.pc = "update"
    /\ lb' = IF Head(proc.todo) = "fip" THEN lb ELSE "PENDING"
    /\ Goto("updated")
    /\ UNCHANGED <<cloud, file, keep, lost, spent>>

(* inspectResources and checkTraffic read only; then the deferred cleanup. *)
RunEnds ==
    /\ proc.pc = "check"
    /\ proc' = Deferred(proc)
    /\ UNCHANGED <<cloud, lb, file, keep, lost, spent>>

-----------------------------------------------------------------------------
(* The cleanup command starts from the file, if LoadState can decode it. *)
Cleanup ==
    /\ proc.pc = "idle" /\ file.here /\ ~file.torn
    /\ proc' = [Idle EXCEPT !.pc = "inspect", !.ids = file.ids]
    /\ UNCHANGED <<cloud, lb, file, keep, lost, spent>>

(* cleanupWithClients looks for the load balancer; without it there is only  *)
(* a Floating IP to delete.                                                  *)
inspectLoadBalancer ==
    /\ proc.pc = "inspect"
    /\ proc' = [proc EXCEPT !.pc = "fip",
                            !.todo = IF {"lb"} \cap proc.ids \cap cloud = {} THEN <<>>
                                     ELSE deleteOrder]
    /\ UNCHANGED <<cloud, lb, file, keep, lost, spent>>

(* A Floating IP that has lost its port is not the recorded one. *)
deleteFloatingIP ==
    /\ proc.pc = "fip"
    /\ IF "fip" \notin proc.ids \cap cloud
       THEN Goto("delete") /\ UNCHANGED cloud
       ELSE IF "lb" \in cloud
       THEN Goto("delete") /\ cloud' = cloud \ {"fip"}
       ELSE proc' = Idle /\ UNCHANGED cloud
    /\ UNCHANGED <<lb, file, keep, lost, spent>>

(* One child after the other: passed over when it has no ID or is gone, an   *)
(* error when Octavia refuses, else followed by a wait.  The load balancer,   *)
(* seen before, is deleted without another look: that it has gone meanwhile   *)
(* is an error.                                                               *)
PassedOver(r) ==
    r # "lb" /\ (r \notin proc.ids \cap cloud \/ (r = "rule" /\ "policy" \notin proc.ids))

deleteChild ==
    /\ proc.pc = "delete" /\ proc.todo # <<>>
    /\ LET r == Head(proc.todo)
       IN  IF PassedOver(r)
           THEN proc' = [proc EXCEPT !.todo = Tail(@)] /\ UNCHANGED <<cloud, lb>>
           ELSE IF ~AcceptsDelete(r)
           THEN proc' = Idle /\ UNCHANGED <<cloud, lb>>
           ELSE IF r = "lb"
           THEN Goto("gone") /\ lb' = "DELETING" /\ UNCHANGED cloud
           ELSE Goto("deleted") /\ lb' = "PENDING" /\ cloud' = cloud \ ({r} \cup Children(r))
    /\ UNCHANGED <<file, keep, lost, spent>>

waitDeleted ==
    /\ proc.pc = "gone" /\ "lb" \notin cloud
    /\ proc' = [proc EXCEPT !.pc = "delete", !.todo = <<>>]
    /\ UNCHANGED <<cloud, lb, file, keep, lost, spent>>

removeStateFile ==
    /\ proc.pc = "delete" /\ proc.todo = <<>>
    /\ file' = NoFile /\ proc' = Idle
    /\ UNCHANGED <<cloud, lb, keep, lost, spent>>

-----------------------------------------------------------------------------
(* An error ends the run in its deferred cleanup, and the cleanup for good; *)
(* a crash ends both.  When either happens between the creation of an object *)
(* and its save, the state file never names the object.  A CreateState that  *)
(* fails removes its file, if it can; one that dies leaves it as it is.      *)
Unsaved == IF proc.pc = "save" THEN {Head(proc.todo)} ELSE {}
Fail ==
    /\ InRun \/ InCleanup
    /\ Spend("failures", MaxFailures)
    /\ proc' = IF InRun THEN Deferred(proc) ELSE Idle
    /\ file' \in {file} \cup (IF proc.pc = "claim" THEN {NoFile} ELSE {})
    /\ lost' = lost \cup Unsaved
    /\ UNCHANGED <<cloud, lb, keep>>

Crash ==
    /\ InRun \/ InCleanup
    /\ Spend("crashes", MaxCrashes)
    /\ proc' = Idle
    /\ lost' = lost \cup Unsaved
    /\ UNCHANGED <<cloud, lb, file, keep>>

Init ==
    /\ cloud = {} /\ lb = "none" /\ file = NoFile /\ proc = Idle /\ keep = FALSE /\ lost = {}
    /\ spent = [runs |-> 0, crashes |-> 0, failures |-> 0]

Working == \/ CreateState \/ createAndExerciseResources \/ saveState \/ waitActive \/ Update
           \/ RunEnds \/ inspectLoadBalancer \/ deleteFloatingIP \/ deleteChild \/ waitDeleted
           \/ removeStateFile
Next == Run \/ Cleanup \/ Working \/ Settle \/ Fail \/ Crash

Spec == Init /\ [][Next]_vars

(* Octavia finishes what it accepted, a process goes on, and the operator    *)
(* runs cleanup as long as there is a state file.                            *)
FairSpec == Spec /\ WF_vars(Settle) /\ WF_vars(Working) /\ WF_vars(Cleanup)

-----------------------------------------------------------------------------
(* The file, the process and the load balancer's status are well formed, and *)
(* nothing is created before the load balancer that owns it.                 *)
TypeOK ==
    /\ cloud \subseteq Resources /\ file.ids \subseteq Resources /\ lost \subseteq Resources
    /\ lb \in {"none", "PENDING", "ACTIVE", "DELETING"} /\ (lb = "none" <=> "lb" \notin cloud)
    /\ file.here \/ file.ids = {}
    /\ file.torn => file.here /\ file.ids = {}
    /\ proc.pc = "idle" \/ InRun \/ InCleanup
    /\ proc.ids = {} \/ "lb" \in proc.ids

(* The state file names every object that exists, but the one being saved and *)
(* one whose save failed or never happened: whatever call fails and whenever   *)
(* the process dies, in the run or in any number of cleanups, the file goes    *)
(* only after the last object it names.  (With TypeOK.)                        *)
Recorded == TypeOK /\ cloud \subseteq file.ids \cup lost \cup Unsaved

(* Cleanup run again and again ends with nothing left and the state file gone, *)
(* from whatever the run or an earlier cleanup left, unless an object that was *)
(* never saved outlives its parents: nothing is deleted in an order that       *)
(* Octavia refuses every time, and an unsaved rule, member or monitor goes     *)
(* with its parent.  The one file that may stay is that of a run which ended   *)
(* inside CreateState, before its first object: no cleanup can read it, and    *)
(* every new run refuses it, until somebody removes it by hand.                *)
CleanupEnds ==
    <>[](\/ lost \cap cloud # {}
         \/ proc.pc = "idle" /\ cloud = {} /\ (file.here => file.torn))
=============================================================================
