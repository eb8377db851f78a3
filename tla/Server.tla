------------------------------- MODULE Server -------------------------------
(***************************************************************************)
(* What the inbound and the outbound server promise the daemon that drives *)
(* them (internal/app/app.go): a set of endpoints, each serving one        *)
(* setting or nothing, that a two-phase reload moves to a new              *)
(* configuration, and a shutdown that waits for the connections.           *)
(*                                                                         *)
(* Prepare changes nothing that is served and Abort takes it back; a       *)
(* commit moves some endpoints at a time, each of them once and straight   *)
(* to its new setting, and ends with the new configuration whole.          *)
(*                                                                         *)
(* Modules Inbound and Outbound implement this specification; module App   *)
(* composes two instances of it.                                           *)
(***************************************************************************)

CONSTANTS
    Keys,      \* endpoints: bind addresses, or vsock ports
    Settings,  \* what an endpoint may serve
    Off        \* an endpoint that is not served

VARIABLES
    phase,     \* where the server's life, reload or shutdown is
    serving,   \* what each endpoint serves
    plan,      \* the prepared configuration
    busy       \* whether some connection is open

vars == <<phase, serving, plan, busy>>

Configurations == [Keys -> Settings \cup {Off}]

Nothing == [k \in Keys |-> Off]

Init ==
    /\ phase = "new"
    /\ serving = Nothing
    /\ plan = Nothing
    /\ busy = FALSE

Goto(from, to) == phase = from /\ phase' = to

-----------------------------------------------------------------------------

Start(c) ==
    /\ Goto("new", "idle")
    /\ serving' = c
    /\ UNCHANGED <<plan, busy>>

StartFail ==
    /\ Goto("new", "failed")
    /\ UNCHANGED <<serving, plan, busy>>

Prepare(c) ==
    /\ Goto("idle", "staged")
    /\ plan' = c
    /\ UNCHANGED <<serving, busy>>

(* PrepareApply fails, or AbortApply.                                      *)
Abort ==
    /\ Goto("staged", "idle")
    /\ plan' = Nothing
    /\ UNCHANGED <<serving, busy>>

Commit ==
    /\ Goto("staged", "committing")
    /\ UNCHANGED <<serving, plan, busy>>

Publish(ks) ==
    /\ phase = "committing"
    /\ serving' = [k \in Keys |-> IF k \in ks THEN plan[k] ELSE serving[k]]
    /\ UNCHANGED <<phase, plan, busy>>

EndCommit ==
    /\ Goto("committing", "idle")
    /\ serving = plan
    /\ plan' = Nothing
    /\ UNCHANGED <<serving, busy>>

Shutdown ==
    /\ Goto("idle", "stopping")
    /\ UNCHANGED <<serving, plan, busy>>

Close(ks) ==
    /\ phase = "stopping"
    /\ serving' = [k \in Keys |-> IF k \in ks THEN Off ELSE serving[k]]
    /\ UNCHANGED <<phase, plan, busy>>

(* Every goroutine of the server has returned.                             *)
Stopped ==
    /\ Goto("stopping", "stopped")
    /\ serving = Nothing /\ ~busy
    /\ UNCHANGED <<serving, plan, busy>>

(* Connections outlive the endpoint that accepted them.                    *)
Connect ==
    /\ serving # Nothing
    /\ busy' = TRUE
    /\ UNCHANGED <<phase, serving, plan>>

ConnEnd ==
    /\ busy' = FALSE
    /\ UNCHANGED <<phase, serving, plan>>

-----------------------------------------------------------------------------

Next ==
    \/ (\E c \in Configurations : Start(c) \/ Prepare(c)) \/ StartFail
    \/ Abort \/ Commit \/ EndCommit
    \/ \E ks \in SUBSET Keys : Publish(ks) \/ Close(ks)
    \/ Shutdown \/ Stopped \/ Connect \/ ConnEnd

Spec == Init /\ [][Next]_vars
=============================================================================
