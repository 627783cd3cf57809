----------------------- MODULE MCHTTPRouteReconciler -----------------------
(***************************************************************************)
(* Small instances of HTTPRouteReconciler.                                 *)
(***************************************************************************)
EXTENDS HTTPRouteReconciler

Open == [port |-> 80, kind |-> "ok"]
Still == [names |-> {1}, parents |-> {1}, listeners |-> {Open}, shapes |-> {"ok"},
          backed |-> <<"ok">>, services |-> <<{}>>, errors |-> {}, made |-> 1, routes |-> 1,
          edits |-> 0, gateways |-> 0, backends |-> 0, class |-> 0, bundle |-> 0,
          tampers |-> 0, failures |-> 0, crashes |-> 0, drifts |-> 0]

(* A route moves between Gateways, one of which may be deleted; its Gateway   *)
(* is recreated, or refuses it; lost annotations; two routes that compete for *)
(* a Gateway, one of them leaving, or their Services becoming usable, or one  *)
(* unusable again, between the reads of one selection.                        *)
Moves == [Still EXCEPT !.parents = {1, 2}, !.edits = 1, !.gateways = 1]
Recreated == [Still EXCEPT !.made = 2, !.edits = 1, !.gateways = 1]
Refusing == [Still EXCEPT !.listeners = {Open, [Open EXCEPT !.kind = "refuses"]},
                         !.edits = 1, !.gateways = 1]
Tampered == [Still EXCEPT !.edits = 1, !.tampers = 1]
Selection == [Still EXCEPT !.names = {1, 2}, !.backed = <<"ok", "ok">>,
                           !.services = <<{}, {}>>, !.routes = 2, !.edits = 1]
Rivalry == [Selection EXCEPT !.backed = <<"wrong", "missing">>, !.edits = 0, !.backends = 2,
                             !.services = <<{"ok", "wrong"}, {"ok"}>>]
AttachScenarios == {Moves, Recreated, Refusing, Tampered, Selection, Rivalry}

(* Failures and a crash; the class changes hands; the CRD bundle changes; a   *)
(* route that an older one displaces, or whose Service rules it out again; a  *)
(* Gateway whose load balancer goes and comes back below a bound route.       *)
Faults == [Still EXCEPT !.shapes = {"ok", "bad"}, !.services = <<{"ok", "missing", "wrong"}>>,
                        !.errors = Failures,
                        !.edits = 1, !.backends = 1, !.failures = 1]
Crashes == [Faults EXCEPT !.services = <<{"ok", "wrong"}>>, !.crashes = 1,
                          !.errors = {ProviderFailurePolicyFor("Timeout")}]
Wavering == [Faults EXCEPT !.shapes = {"ok"}, !.errors = {ProviderFailurePolicyFor("Timeout")},
                           !.edits = 0, !.backends = 2]
Handoff == [Still EXCEPT !.edits = 1, !.class = 1]
Upgrade == [Still EXCEPT !.shapes = {"ok", "bad"}, !.edits = 1, !.bundle = 1]
Displaced == [Selection EXCEPT !.edits = 0, !.backends = 1,
                               !.services = <<{"wrong"}, {"wrong"}>>]
Rebuilt == [Still EXCEPT !.listeners = {Open, [Open EXCEPT !.kind = "invalid"]}, !.gateways = 2]
DetachScenarios == {Faults, Crashes, Wavering, Handoff, Upgrade, Displaced, Rebuilt}

(* A route that moves or is refused, also while its load balancer is         *)
(* disabled; a backend that stops being usable, a cleanup that fails and a   *)
(* drift: all three, or one of the last two with the backend coming back.    *)
Turns == [Still EXCEPT !.parents = {1, 2}, !.shapes = {"ok", "bad"}, !.edits = 1]
Repair == [Still EXCEPT !.services = <<{"ok", "wrong"}>>, !.errors = {ProviderFailurePolicyFor("Timeout")},
                        !.backends = 1, !.failures = 1, !.drifts = 1]
Returning == {[Repair EXCEPT !.backends = 2, !.drifts = 0],
              [Repair EXCEPT !.backends = 2, !.failures = 0]}
Disabled == [Turns EXCEPT !.parents = {1}, !.drifts = 1]
LiveScenarios == {Turns, Disabled, Repair} \cup Returning
=============================================================================
