----------------------------- MODULE AppProofs -----------------------------
(***************************************************************************)
(* The daemon's safety properties, for any endpoints, any set of           *)
(* configuration files, any capacity of sigCh and any number of reloads.   *)
(*                                                                         *)
(* Where the main goroutine is decides what phase the two servers and the  *)
(* metrics server are in, and the phase of a server decides what it        *)
(* serves; the properties read these two tables off at one point.          *)
(***************************************************************************)
EXTENDS App, SequenceTheorems, TLAPS

Active == {"idle", "stopping", "stopped"}

(* The phases of the two servers at each point of Start, Reload and        *)
(* Shutdown (app.go:138-344).                                             *)
PhasesAt ==
    /\ at = "startIn" => inPhase = "new" /\ outPhase = "new"
    /\ at = "startOut" => inPhase = "idle" /\ outPhase = "new"
    /\ at = "rollbackIn" => inPhase \in {"stopping", "stopped"} /\ outPhase \in {"failed", "idle"}
    /\ at = "rollbackOut" => inPhase = "stopped" /\ outPhase \in {"stopping", "stopped"}
    /\ at \in {"startMetrics", "loop", "load"} => inPhase = "idle" /\ outPhase = "idle"
    /\ at = "prepareIn" => inPhase = "staged" /\ outPhase = "idle"
    /\ at = "prepareOut" => inPhase = "staged" /\ outPhase = "staged"
    /\ at = "commitIn" => inPhase = "committing" /\ outPhase = "staged"
    /\ at = "commitOut" => inPhase = "idle" /\ outPhase = "committing"
    /\ at = "shutdown" => inPhase \in Active /\ outPhase \in Active
    /\ at = "exit0" => inPhase = "stopped" /\ outPhase = "stopped"
    /\ at = "exit1" => inPhase \in {"failed", "stopped"} /\ outPhase \in {"new", "failed", "stopped"}

(* What the inbound server serves and plans in each of its phases.         *)
InServes ==
    /\ inPhase \in {"new", "failed", "stopped"} => inServing = In!Nothing /\ ~inBusy
    /\ inPhase \in {"idle", "staged"} => inServing = IF at = "commitOut" THEN next.in ELSE cfg.in
    /\ inPhase \in {"new", "idle"} => inPlan = In!Nothing
    /\ inPhase \in {"staged", "committing"} => inPlan = next.in

(* The same of the outbound server.                                        *)
OutServes ==
    /\ outPhase \in {"new", "failed", "stopped"} => outServing = Out!Nothing /\ ~outBusy
    /\ outPhase \in {"idle", "staged"} => outServing = cfg.out
    /\ outPhase \in {"new", "idle"} => outPlan = Out!Nothing
    /\ outPhase \in {"staged", "committing"} => outPlan = next.out

(* The metrics server runs only between the end of Start and the exit.     *)
MetricsAt ==
    /\ at \in {"startIn", "startOut", "startMetrics", "rollbackIn", "rollbackOut"} =>
          metrics \in {"disabled", "unbound"}
    /\ Exited => metrics \notin {"serving", "draining"}

(* A connection is cut only by a goroutine that reports it, and status 0   *)
(* means that none has (app.go:333-343).                                   *)
CutIsForced == (forced = {} => ~cut) /\ (at = "exit0" => forced = {})

(* The inductive invariant: the types and the tables.                      *)
Tables == PhasesAt /\ InServes /\ OutServes /\ MetricsAt /\ CutIsForced

IInv == TypeOK /\ Tables

-----------------------------------------------------------------------------
(* TypeOK.                                                                 *)

(* Init (New has returned, app.go:81-119) has the types.                   *)
LEMMA InitType == Init => TypeOK
  <1> SUFFICES ASSUME Init PROVE TypeOK
    OBVIOUS
  <1>1. inBusy \in BOOLEAN /\ outBusy \in BOOLEAN /\ scrape \in BOOLEAN /\ cut \in BOOLEAN
    BY Zenon DEF Init, In!Init, Out!Init
  <1>2. inServing \in In!Configurations /\ inPlan \in In!Configurations
    BY DEF Init, In!Init, In!Nothing, In!Configurations
  <1>3. outServing \in Out!Configurations /\ outPlan \in Out!Configurations
    BY DEF Init, Out!Init, Out!Nothing, Out!Configurations
  <1> QED
    BY <1>1, <1>2, <1>3, AppAssumption DEF Init, TypeOK, In!Init, Out!Init, Points, Phases

(* Every step keeps them.                                                  *)
LEMMA TypeStep == TypeOK /\ [Next]_vars => TypeOK'
  <1> SUFFICES ASSUME TypeOK, [Next]_vars PROVE TypeOK'
    OBVIOUS
  <1> USE AppAssumption DEF TypeOK, Points, Phases, inVars, outVars, metricsVars, stopVars, mainVars,
         In!Configurations, Out!Configurations, In!Nothing, Out!Nothing
  <1>1. CASE StartIn
    BY <1>1 DEF StartIn, Goto, In!Start, In!Goto
  <1>2. CASE StartInFail
    BY <1>2 DEF StartInFail, Goto, In!StartFail, In!Goto
  <1>3. CASE StartOut
    BY <1>3 DEF StartOut, Goto, Out!Start, Out!Goto
  <1>4. CASE StartOutFail
    BY <1>4 DEF StartOutFail, Goto, Out!StartFail, Out!Goto, In!Shutdown, In!Goto
  <1>5. CASE StartMetrics
    BY <1>5 DEF StartMetrics, Goto
  <1>6. CASE StartMetricsFail
    BY <1>6 DEF StartMetricsFail, Goto, In!Shutdown, In!Goto
  <1>7. CASE RollbackOut
    BY <1>7 DEF RollbackOut, Goto, Out!Shutdown, Out!Goto
  <1>8. CASE StartReturn
    BY <1>8 DEF StartReturn, Goto
  <1>9. CASE LoadFail
    BY <1>9 DEF LoadFail, Goto
  <1>10. ASSUME NEW c \in Configs, Load(c) PROVE TypeOK'
    BY <1>10 DEF Load, In!Prepare, In!Goto
  <1>11. CASE PrepareInFail
    BY <1>11 DEF PrepareInFail, Goto, In!Abort, In!Goto
  <1>12. CASE PrepareOut
    BY <1>12 DEF PrepareOut, Goto, Out!Prepare, Out!Goto
  <1>13. CASE PrepareOutFail
    BY <1>13 DEF PrepareOutFail, Goto, Out!Abort, Out!Goto, In!Abort, In!Goto
  <1>14. CASE CommitIn
    BY <1>14 DEF CommitIn, Goto, In!Commit, In!Goto
  <1>15. ASSUME NEW ks \in SUBSET InKeys, PublishIn(ks) PROVE TypeOK'
    BY <1>15 DEF PublishIn, In!Publish
  <1>16. CASE CommitOut
    BY <1>16 DEF CommitOut, Goto, In!EndCommit, In!Goto, Out!Commit, Out!Goto
  <1>17. ASSUME NEW ks \in SUBSET OutKeys, PublishOut(ks) PROVE TypeOK'
    BY <1>17 DEF PublishOut, Out!Publish
  <1>18. CASE EndReload
    BY <1>18 DEF EndReload, Out!EndCommit, Out!Goto
  <1>19. CASE TakeHup
    BY <1>19 DEF TakeHup, Goto
  <1>20. CASE TakeTerm
    BY <1>20 DEF TakeTerm, Goto
  <1>21. CASE ShutdownReturn
    BY <1>21 DEF ShutdownReturn, Goto
  <1>22. CASE ShutdownIn
    BY <1>22 DEF ShutdownIn, In!Shutdown, In!Goto
  <1>23. ASSUME NEW ks \in SUBSET InKeys, CloseIn(ks) PROVE TypeOK'
    BY <1>23 DEF CloseIn, In!Close
  <1>24. CASE ForceIn
    BY <1>24 DEF ForceIn
  <1>25. CASE StoppedIn
    BY <1>25 DEF StoppedIn, In!Stopped, In!Goto
  <1>26. CASE ShutdownOut
    BY <1>26 DEF ShutdownOut, Out!Shutdown, Out!Goto
  <1>27. ASSUME NEW ks \in SUBSET OutKeys, CloseOut(ks) PROVE TypeOK'
    BY <1>27 DEF CloseOut, Out!Close
  <1>28. CASE ForceOut
    BY <1>28 DEF ForceOut
  <1>29. CASE StoppedOut
    BY <1>29 DEF StoppedOut, Out!Stopped, Out!Goto
  <1>30. CASE MetricsStop
    BY <1>30 DEF MetricsStop
  <1>31. CASE ForceMetrics
    BY <1>31 DEF ForceMetrics
  <1>32. CASE MetricsDrained
    BY <1>32 DEF MetricsDrained
  <1>33. ASSUME NEW s \in {"hup", "term"}, Signal(s) PROVE TypeOK'
    BY <1>33 DEF Signal
  <1>34. CASE ConnectIn
    BY <1>34 DEF ConnectIn, In!Connect
  <1>35. CASE ConnectOut
    BY <1>35 DEF ConnectOut, Out!Connect
  <1>36. CASE ConnEndIn
    <2>1. inBusy' \in BOOLEAN
      BY <1>36, Zenon DEF ConnEndIn, In!ConnEnd
    <2> QED
      BY <1>36, <2>1 DEF ConnEndIn, In!ConnEnd
  <1>37. CASE ConnEndOut
    <2>1. outBusy' \in BOOLEAN
      BY <1>37, Zenon DEF ConnEndOut, Out!ConnEnd
    <2> QED
      BY <1>37, <2>1 DEF ConnEndOut, Out!ConnEnd
  <1>38. CASE Scrape
    <2>1. scrape' \in BOOLEAN
      <3>1. CASE metrics = "serving"
        BY <1>38, <3>1 DEF Scrape
      <3>2. CASE metrics # "serving"
        BY <1>38, <3>2, Zenon DEF Scrape
      <3> QED
        BY <3>1, <3>2
    <2> QED
      BY <1>38, <2>1 DEF Scrape
  <1>39. CASE MetricsExit
    BY <1>39 DEF MetricsExit
  <1>40. CASE ExpireCtx
    BY <1>40 DEF ExpireCtx
  <1>41. CASE ExpireDrain
    BY <1>41 DEF ExpireDrain
  <1>42. CASE UNCHANGED vars
    BY <1>42 DEF vars
  <1> QED
    BY <1>1, <1>2, <1>3, <1>4, <1>5, <1>6, <1>7, <1>8, <1>9, <1>10, <1>11, <1>12,
       <1>13, <1>14, <1>15, <1>16, <1>17, <1>18, <1>19, <1>20, <1>21, <1>22, <1>23, <1>24,
       <1>25, <1>26, <1>27, <1>28, <1>29, <1>30, <1>31, <1>32, <1>33, <1>34, <1>35, <1>36,
       <1>37, <1>38, <1>39, <1>40, <1>41, <1>42
       DEF Next, Main, Start, Reload, StopIn, StopOut, StopMetrics

-----------------------------------------------------------------------------
(* The two tables.                                                         *)

(* New leaves the servers without an endpoint and a plan.                  *)
LEMMA InitInv == Init => IInv
  <1> SUFFICES ASSUME Init PROVE IInv
    OBVIOUS
  <1>1. TypeOK
    BY InitType
  <1> QED
    BY <1>1 DEF Init, In!Init, Out!Init, IInv, Tables, PhasesAt, InServes, OutServes,
       MetricsAt, CutIsForced, Exited

(* Each step of Start, Reload, Shutdown, of a server or of a peer moves    *)
(* both tables together.                                                   *)
LEMMA InvStep == IInv /\ [Next]_vars => IInv'
  <1> SUFFICES ASSUME TypeOK, TypeOK', Tables, [Next]_vars
               PROVE  Tables'
    BY TypeStep DEF IInv
  <1> USE DEF Tables, PhasesAt, InServes, OutServes, MetricsAt, CutIsForced, Exited,
         Active, inVars, outVars, metricsVars, stopVars, mainVars
  <1>1. CASE StartIn
    BY <1>1 DEF StartIn, Goto, In!Start, In!Goto
  <1>2. CASE StartInFail
    BY <1>2 DEF StartInFail, Goto, In!StartFail, In!Goto
  <1>3. CASE StartOut
    BY <1>3 DEF StartOut, Goto, Out!Start, Out!Goto
  <1>4. CASE StartOutFail
    BY <1>4 DEF StartOutFail, Goto, Out!StartFail, Out!Goto, In!Shutdown, In!Goto
  <1>5. CASE StartMetrics
    BY <1>5 DEF StartMetrics, Goto
  <1>6. CASE StartMetricsFail
    BY <1>6 DEF StartMetricsFail, Goto, In!Shutdown, In!Goto
  <1>7. CASE RollbackOut
    BY <1>7 DEF RollbackOut, Goto, Out!Shutdown, Out!Goto
  <1>8. CASE StartReturn
    BY <1>8 DEF StartReturn, Goto
  <1>9. CASE LoadFail
    BY <1>9 DEF LoadFail, Goto
  <1>10. ASSUME NEW c \in Configs, Load(c) PROVE Tables'
    BY <1>10 DEF Load, In!Prepare, In!Goto
  <1>11. CASE PrepareInFail
    BY <1>11 DEF PrepareInFail, Goto, In!Abort, In!Goto
  <1>12. CASE PrepareOut
    BY <1>12 DEF PrepareOut, Goto, Out!Prepare, Out!Goto
  <1>13. CASE PrepareOutFail
    BY <1>13 DEF PrepareOutFail, Goto, Out!Abort, Out!Goto, In!Abort, In!Goto
  <1>14. CASE CommitIn
    BY <1>14 DEF CommitIn, Goto, In!Commit, In!Goto
  <1>15. ASSUME NEW ks \in SUBSET InKeys, PublishIn(ks) PROVE Tables'
    BY <1>15 DEF PublishIn, In!Publish
  <1>16. CASE CommitOut
    BY <1>16 DEF CommitOut, Goto, In!EndCommit, In!Goto, Out!Commit, Out!Goto
  <1>17. ASSUME NEW ks \in SUBSET OutKeys, PublishOut(ks) PROVE Tables'
    BY <1>17 DEF PublishOut, Out!Publish
  <1>18. CASE EndReload
    BY <1>18 DEF EndReload, Out!EndCommit, Out!Goto
  <1>19. CASE TakeHup
    BY <1>19 DEF TakeHup, Goto
  <1>20. CASE TakeTerm
    BY <1>20 DEF TakeTerm, Goto
  <1>21. CASE ShutdownReturn
    BY <1>21 DEF ShutdownReturn, Goto
  <1>22. CASE ShutdownIn
    BY <1>22 DEF ShutdownIn, In!Shutdown, In!Goto
  <1>23. ASSUME NEW ks \in SUBSET InKeys, CloseIn(ks) PROVE Tables'
    BY <1>23 DEF CloseIn, In!Close
  <1>24. CASE ForceIn
    BY <1>24 DEF ForceIn
  <1>25. CASE StoppedIn
    BY <1>25 DEF StoppedIn, In!Stopped, In!Goto
  <1>26. CASE ShutdownOut
    BY <1>26 DEF ShutdownOut, Out!Shutdown, Out!Goto
  <1>27. ASSUME NEW ks \in SUBSET OutKeys, CloseOut(ks) PROVE Tables'
    BY <1>27 DEF CloseOut, Out!Close
  <1>28. CASE ForceOut
    BY <1>28 DEF ForceOut
  <1>29. CASE StoppedOut
    BY <1>29 DEF StoppedOut, Out!Stopped, Out!Goto
  <1>30. CASE MetricsStop
    BY <1>30 DEF MetricsStop
  <1>31. CASE ForceMetrics
    BY <1>31 DEF ForceMetrics
  <1>32. CASE MetricsDrained
    BY <1>32 DEF MetricsDrained
  <1>33. ASSUME NEW s \in {"hup", "term"}, Signal(s) PROVE Tables'
    BY <1>33 DEF Signal
  <1>34. CASE ConnectIn
    BY <1>34 DEF ConnectIn, In!Connect
  <1>35. CASE ConnectOut
    BY <1>35 DEF ConnectOut, Out!Connect
  <1>36. CASE ConnEndIn
    BY <1>36 DEF ConnEndIn, In!ConnEnd
  <1>37. CASE ConnEndOut
    BY <1>37 DEF ConnEndOut, Out!ConnEnd
  <1>38. CASE Scrape
    BY <1>38 DEF Scrape
  <1>39. CASE MetricsExit
    BY <1>39 DEF MetricsExit
  <1>40. CASE ExpireCtx
    BY <1>40 DEF ExpireCtx
  <1>41. CASE ExpireDrain
    BY <1>41 DEF ExpireDrain
  <1>42. CASE UNCHANGED vars
    BY <1>42 DEF vars
  <1> QED
    BY <1>1, <1>2, <1>3, <1>4, <1>5, <1>6, <1>7, <1>8, <1>9, <1>10, <1>11, <1>12,
       <1>13, <1>14, <1>15, <1>16, <1>17, <1>18, <1>19, <1>20, <1>21, <1>22, <1>23, <1>24,
       <1>25, <1>26, <1>27, <1>28, <1>29, <1>30, <1>31, <1>32, <1>33, <1>34, <1>35, <1>36,
       <1>37, <1>38, <1>39, <1>40, <1>41, <1>42
       DEF Next, Main, Start, Reload, StopIn, StopOut, StopMetrics

-----------------------------------------------------------------------------
(* The theorems.                                                           *)

(* The inductive invariant holds of every behaviour of the daemon.         *)
THEOREM IInvHolds == Spec => []IInv
  BY InitInv, InvStep, PTL DEF Spec

(* A reload is all or nothing over both servers: whenever the daemon waits *)
(* for a signal both serve currentCfg whole and hold no plan, and during a *)
(* reload outbound leaves the old configuration only after inbound has     *)
(* arrived at the new one (app.go:235-276).                                *)
THEOREM ReloadInvHolds == Spec => []ReloadInv
  <1>1. IInv => OneConfiguration
    BY DEF IInv, TypeOK, Tables, PhasesAt, InServes, OutServes, OneConfiguration
  <1>2. IInv => OutboundFollowsInbound
    <2> SUFFICES ASSUME IInv,
                        inPhase \in {"idle", "staged", "committing"},
                        outPhase \in {"idle", "staged", "committing"}
                 PROVE  /\ inServing # cfg.in => at \in {"commitIn", "commitOut"}
                        /\ outServing # cfg.out => at = "commitOut" /\ inServing = next.in
      BY DEF OutboundFollowsInbound
    <2> QED
      BY DEF IInv, TypeOK, Points, Tables, PhasesAt, InServes, OutServes, Active
  <1>3. IInv => ReloadInv
    BY <1>1, <1>2 DEF IInv, ReloadInv
  <1> QED
    BY <1>3, IInvHolds, PTL

(* When the process exits, after a failed start, its rollback or a         *)
(* shutdown, nothing is served, connected or scraped (app.go:138-205,      *)
(* 278-344).                                                               *)
THEOREM CleanExitHolds == Spec => []CleanExit
  <1>1. IInv => CleanExit
    BY DEF IInv, Tables, PhasesAt, InServes, OutServes, MetricsAt, Exited, CleanExit
  <1> QED
    BY <1>1, IInvHolds, PTL

(* Exit status 0 means that no connection was force-closed (app.go:333-343,*)
(* main.go runSignalLoop).                                                 *)
THEOREM ExitZeroHolds == Spec => []ExitZeroIsGraceful
  <1>1. IInv => ExitZeroIsGraceful
    BY DEF IInv, Tables, CutIsForced, ExitZeroIsGraceful
  <1> QED
    BY <1>1, IInvHolds, PTL
=============================================================================
