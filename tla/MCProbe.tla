------------------------------ MODULE MCProbe ------------------------------
(* Two members: the loop over them can stop in between. *)
EXTENDS Probe

TwoMembers == <<"member1", "member2">>
=============================================================================
