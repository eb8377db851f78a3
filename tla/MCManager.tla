----------------------------- MODULE MCManager -----------------------------
(***************************************************************************)
(* Small instances of Manager for TLC: pairs of roles, restart modes and   *)
(* on_failure modes, with a budget of at most one restart per window.      *)
(* (A budget of zero makes on-failure the same as no, and always reaches   *)
(* its exhausted budget after one restart.)                                *)
(***************************************************************************)
EXTENDS Manager

AllPolicies ==
    {p \in [role : {"task", "sidecar"}, restart : {"no", "on-failure", "always"},
            max : {0, 1}, window : {0, 2}, onFailure : {"terminate", "continue"}] :
        /\ (p.restart = "no") = (p.max = 0)
        /\ (p.window > 0) = (p.max > 0)}

(* Every role, restart mode and on_failure mode, with a budget of one      *)
(* restart per tick: the two modes meet in one place only, an exhausted    *)
(* budget, which on-failure and always reach in the same way.              *)
Policy(role, restart, onFailure) ==
    LET n == IF restart = "no" THEN 0 ELSE 1
    IN  [role |-> role, restart |-> restart, max |-> n, window |-> n, onFailure |-> onFailure]

CorePolicies ==
    {Policy("task", "no", "terminate"), Policy("task", "always", "continue"),
     Policy("sidecar", "on-failure", "terminate"), Policy("sidecar", "no", "continue")}

RestartingPolicies == {p \in AllPolicies : p.restart = "on-failure"}
=============================================================================
