----------------------------- MODULE KeyedMutex -----------------------------
(***************************************************************************)
(* What graph.Acquire promises its four callers: reconciles that ask for   *)
(* the OpenStack graph of one Gateway UID own it one at a time, a reconcile*)
(* may give up while it waits, and graphs of different UIDs are            *)
(* independent.  There is no map, no channel and no reference count here.  *)
(***************************************************************************)
CONSTANTS Workers,      \* reconciles that may run concurrently
          UIDs          \* Gateway UIDs

VARIABLES status,       \* status[w]: where reconcile w stands
          key           \* key[w]: the UID w asked for last

vars == <<status, key>>

TypeOK == /\ status \in [Workers -> {"idle", "waiting", "holding"}]
          /\ key \in [Workers -> UIDs]

Init == /\ status = [w \in Workers |-> "idle"]
        /\ key \in [Workers -> UIDs]

Owners(u) == {w \in Workers : status[w] = "holding" /\ key[w] = u}

Request(w, u) == /\ status[w] = "idle"
                 /\ status' = [status EXCEPT ![w] = "waiting"]
                 /\ key' = [key EXCEPT ![w] = u]

Grant(w) == /\ status[w] = "waiting"
            /\ Owners(key[w]) = {}
            /\ status' = [status EXCEPT ![w] = "holding"]
            /\ UNCHANGED key

GiveUp(w) == /\ status[w] = "waiting"
             /\ status' = [status EXCEPT ![w] = "idle"]
             /\ UNCHANGED key

Release(w) == /\ status[w] = "holding"
              /\ status' = [status EXCEPT ![w] = "idle"]
              /\ UNCHANGED key

Next == \E w \in Workers : \/ \E u \in UIDs : Request(w, u)
                           \/ Grant(w)
                           \/ GiveUp(w)
                           \/ Release(w)

Spec == Init /\ [][Next]_vars
=============================================================================
