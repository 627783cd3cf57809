-------------------------- MODULE MCProviderGraph --------------------------
(***************************************************************************)
(* Small instances of ProviderGraph.  The requests hold, for the paths of  *)
(* the routes, the path itself, one below it, a sibling that extends its   *)
(* last element, and an unrelated one.                                     *)
(***************************************************************************)
EXTENDS ProviderGraph

PathA  == <<"/", "a">>
PathAB == <<"/", "a", "/", "b">>
PathAX == <<"/", "a", "b">>
PathB  == <<"/", "b">>

MCRequests == {Slash, PathA, PathAB, PathAX, PathB} \X {"h", "g"}

PrefixA == [type |-> "PathPrefix", path |-> PathA \o Slash, host |-> "h",
            members |-> {1, 2}, health |-> "/"]
PrefixRoot == [type |-> "PathPrefix", path |-> <<>>, host |-> "g",
               members |-> {2}, health |-> "/healthz"]
ExactB == [type |-> "Exact", path |-> PathB, host |-> "",
           members |-> {1}, health |-> "/"]

Public == [port |-> 80, net |-> "ext"]
Private == [port |-> 80, net |-> ""]
PublicAlt == [port |-> 8080, net |-> "ext"]

(* Edits with a crash, drift of the objects, and late requests. *)
Still == [gateways |-> {Public}, routes |-> {PrefixA}, edits |-> 1, drifts |-> 0,
          lates |-> 0, crashes |-> 0]
Edits == [Still EXCEPT !.gateways = {Public, Private, PublicAlt},
                       !.routes = {PrefixA, PrefixRoot, ExactB}, !.edits = 3, !.crashes = 1]
Drifting == [Still EXCEPT !.routes = {PrefixA, ExactB}, !.drifts = 2]
Late == [Still EXCEPT !.routes = {[PrefixA EXCEPT !.members = {1}]}, !.lates = 2]

AllScenarios == {Edits, Drifting, Late}
OneDrift == {[Still EXCEPT !.drifts = 1]}
=============================================================================
