------------------------ MODULE MCGatewayReconciler ------------------------
(***************************************************************************)
(* GatewayReconciler for TLC: two listener ports, one class of the         *)
(* Gateway's name and, where stated, a class name that does not exist.     *)
(***************************************************************************)
EXTENDS GatewayReconciler

Still == [ports |-> {80}, classes |-> {"class"}, created |-> 1, edits |-> 1, class |-> 0,
          bundle |-> 0, tampers |-> 0, failures |-> 0, crashes |-> 0]

(* Edits, deletion and recreation, with lost annotations or with a crash; the *)
(* class changes hands; the CRD bundle changes, with the class or the spec.   *)
Edits == [Still EXCEPT !.ports = {80, 81}, !.created = 2, !.edits = 2, !.tampers = 1,
                       !.failures = 1]
Crashes == [Edits EXCEPT !.edits = 1, !.tampers = 0, !.crashes = 1]
Handoff == [Still EXCEPT !.classes = {"class", "missing"}, !.class = 2]
Bundle == [Handoff EXCEPT !.class = 1, !.bundle = 1]
Upgrade == [Bundle EXCEPT !.ports = {80, 81}, !.class = 0]

AllScenarios == {Edits, Crashes, Handoff, Bundle, Upgrade}
=============================================================================
