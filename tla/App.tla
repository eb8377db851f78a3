--------------------------------- MODULE App --------------------------------
(***************************************************************************)
(* The daemon's lifecycle (internal/app/app.go), the signal loop that      *)
(* drives it (cmd/vsockd/main.go) and the metrics server's shutdown        *)
(* (internal/metrics/metrics.go), over two instances of module Server, the *)
(* promise that modules Inbound and Outbound keep.                         *)
(*                                                                         *)
(* Start, Reload and Shutdown run in the main goroutine, one after the     *)
(* other; Shutdown waits for three goroutines of its own.  Beside them     *)
(* signals arrive, connections and scrapes begin and end, timers expire.   *)
(* Peers may hold a connection, and a scraper its request, for ever.       *)
(*                                                                         *)
(* The two timers of a shutdown are the grace of shutdownCtx and the one   *)
(* ServeMetrics took when the daemon started; only their order is kept.    *)
(***************************************************************************)
EXTENDS Integers, Sequences

CONSTANTS
    InKeys, OutKeys,  \* endpoints of the two servers
    Settings,         \* what an endpoint may serve
    Off,              \* an endpoint that is not served
    Configs,          \* valid configuration files
    SigCap            \* capacity of sigCh

ASSUME AppAssumption ==
    /\ Off \notin Settings
    /\ \A c \in Configs :
          /\ c.in \in [InKeys -> Settings \cup {Off}]
          /\ c.out \in [OutKeys -> Settings \cup {Off}]
          /\ c.grace \in Nat \ {0}
    /\ SigCap \in Nat \ {0}

VARIABLES
    inPhase, inServing, inPlan, inBusy,     \* the inbound server
    outPhase, outServing, outPlan, outBusy, \* the outbound server
    at,         \* where the main goroutine is
    cfg,        \* App.currentCfg
    next,       \* Reload's cfg
    sigs,       \* sigCh
    metrics,    \* the metrics server
    scrape,     \* whether a scrape is in flight
    drainGrace, \* the grace serveMetricsOn captured
    expired,    \* timers that have fired: "ctx" and "drain"
    forced,     \* goroutines of Shutdown that saw shutdownCtx expire
    cut         \* history: a proxied connection was force-closed

inVars == <<inPhase, inServing, inPlan, inBusy>>
outVars == <<outPhase, outServing, outPlan, outBusy>>
metricsVars == <<metrics, scrape, drainGrace>>
stopVars == <<expired, forced, cut>>
mainVars == <<at, cfg, next>>
vars == <<inVars, outVars, mainVars, sigs, metricsVars, stopVars>>

In == INSTANCE Server WITH
         Keys <- InKeys, phase <- inPhase, serving <- inServing, plan <- inPlan, busy <- inBusy

Out == INSTANCE Server WITH
         Keys <- OutKeys, phase <- outPhase, serving <- outServing, plan <- outPlan,
         busy <- outBusy

(* New has built the servers; resolveMetrics gave an endpoint, or none.    *)
Init ==
    /\ In!Init /\ Out!Init
    /\ at = "startIn"
    /\ cfg \in Configs /\ next = cfg
    /\ sigs = <<>>
    /\ metrics \in {"disabled", "unbound"}
    /\ scrape = FALSE /\ drainGrace = 0
    /\ expired = {} /\ forced = {} /\ cut = FALSE

Exited == at \in {"exit0", "exit1"}

Goto(from, to) == at = from /\ at' = to /\ UNCHANGED <<cfg, next>>

-----------------------------------------------------------------------------
(* Start, and its rollback, which has no deadline.                         *)

StartIn ==
    /\ Goto("startIn", "startOut")
    /\ In!Start(cfg.in)
    /\ UNCHANGED <<outVars, sigs, metricsVars, stopVars>>

StartInFail ==
    /\ Goto("startIn", "exit1")
    /\ In!StartFail
    /\ UNCHANGED <<outVars, sigs, metricsVars, stopVars>>

StartOut ==
    /\ Goto("startOut", IF metrics = "disabled" THEN "loop" ELSE "startMetrics")
    /\ Out!Start(cfg.out)
    /\ UNCHANGED <<inVars, sigs, metricsVars, stopVars>>

StartOutFailNoRollback ==
    /\ Goto("startOut", "exit1")
    /\ Out!StartFail
    /\ UNCHANGED <<inVars, sigs, metricsVars, stopVars>>

StartOutFail ==
    /\ Goto("startOut", "rollbackIn")
    /\ Out!StartFail /\ In!Shutdown
    /\ UNCHANGED <<sigs, metricsVars, stopVars>>

(* serveMetricsOn.                                                         *)
StartMetrics ==
    /\ Goto("startMetrics", "loop")
    /\ metrics' = "serving" /\ drainGrace' = cfg.grace
    /\ UNCHANGED <<inVars, outVars, sigs, scrape, stopVars>>

StartMetricsFail ==
    /\ Goto("startMetrics", "rollbackIn")
    /\ In!Shutdown
    /\ UNCHANGED <<outVars, sigs, metricsVars, stopVars>>

RollbackOut ==
    /\ Goto("rollbackIn", "rollbackOut")
    /\ inPhase = "stopped"
    /\ Out!Shutdown
    /\ UNCHANGED <<inVars, sigs, metricsVars, stopVars>>

StartReturn ==
    /\ \/ Goto("rollbackIn", "exit1") /\ inPhase = "stopped" /\ outPhase = "failed"
       \/ Goto("rollbackOut", "exit1") /\ outPhase = "stopped"
    /\ UNCHANGED <<inVars, outVars, sigs, metricsVars, stopVars>>

-----------------------------------------------------------------------------
(* runSignalLoop.                                                          *)

(* signal.Notify does not block: a signal that finds sigCh full is lost.   *)
Signal(s) ==
    /\ ~Exited
    /\ sigs' = IF Len(sigs) < SigCap THEN Append(sigs, s) ELSE sigs
    /\ UNCHANGED <<inVars, outVars, mainVars, metricsVars, stopVars>>

TakeHup ==
    /\ Goto("loop", "load")
    /\ sigs # <<>> /\ Head(sigs) = "hup"
    /\ sigs' = Tail(sigs)
    /\ UNCHANGED <<inVars, outVars, metricsVars, stopVars>>

TakeTerm ==
    /\ Goto("loop", "shutdown")
    /\ sigs # <<>> /\ Head(sigs) = "term"
    /\ sigs' = Tail(sigs)
    /\ UNCHANGED <<inVars, outVars, metricsVars, stopVars>>

-----------------------------------------------------------------------------
(* Reload.                                                                 *)

LoadFail ==
    /\ Goto("load", "loop")
    /\ UNCHANGED <<inVars, outVars, sigs, metricsVars, stopVars>>

Load(c) ==
    /\ at = "load" /\ at' = "prepareIn"
    /\ next' = c
    /\ In!Prepare(c.in)
    /\ UNCHANGED <<outVars, cfg, sigs, metricsVars, stopVars>>

PrepareInFail ==
    /\ Goto("prepareIn", "loop")
    /\ In!Abort
    /\ UNCHANGED <<outVars, sigs, metricsVars, stopVars>>

PrepareOut ==
    /\ Goto("prepareIn", "prepareOut")
    /\ Out!Prepare(next.out)
    /\ UNCHANGED <<inVars, sigs, metricsVars, stopVars>>

PrepareOutFailNoAbort ==
    /\ Goto("prepareOut", "loop")
    /\ Out!Abort
    /\ UNCHANGED <<inVars, sigs, metricsVars, stopVars>>

(* The failed PrepareApply has cleaned up after itself; inPlan is aborted. *)
PrepareOutFail ==
    /\ Goto("prepareOut", "loop")
    /\ Out!Abort /\ In!Abort
    /\ UNCHANGED <<sigs, metricsVars, stopVars>>

CommitIn ==
    /\ Goto("prepareOut", "commitIn")
    /\ In!Commit
    /\ UNCHANGED <<outVars, sigs, metricsVars, stopVars>>

PublishIn(ks) ==
    /\ In!Publish(ks)
    /\ UNCHANGED <<outVars, mainVars, sigs, metricsVars, stopVars>>

CommitOut ==
    /\ Goto("commitIn", "commitOut")
    /\ In!EndCommit /\ Out!Commit
    /\ UNCHANGED <<sigs, metricsVars, stopVars>>

PublishOut(ks) ==
    /\ Out!Publish(ks)
    /\ UNCHANGED <<inVars, mainVars, sigs, metricsVars, stopVars>>

EndReload ==
    /\ at = "commitOut" /\ at' = "loop"
    /\ Out!EndCommit
    /\ cfg' = next
    /\ UNCHANGED <<inVars, next, sigs, metricsVars, stopVars>>

-----------------------------------------------------------------------------
(* Shutdown: the servers, each in a goroutine of its own (and, one after   *)
(* the other, in the rollback of Start), and the metrics server.           *)

ShutdownIn ==
    /\ at = "shutdown" /\ In!Shutdown
    /\ UNCHANGED <<outVars, mainVars, sigs, metricsVars, stopVars>>

ShutdownOut ==
    /\ at = "shutdown" /\ Out!Shutdown
    /\ UNCHANGED <<inVars, mainVars, sigs, metricsVars, stopVars>>

CloseIn(ks) ==
    /\ In!Close(ks)
    /\ UNCHANGED <<outVars, mainVars, sigs, metricsVars, stopVars>>

CloseOut(ks) ==
    /\ Out!Close(ks)
    /\ UNCHANGED <<inVars, mainVars, sigs, metricsVars, stopVars>>

(* shutdownCtx is over while, or just as, the connections drain.           *)
ForceIn ==
    /\ "ctx" \in expired /\ "in" \notin forced
    /\ inPhase = "stopping" /\ inServing = In!Nothing
    /\ forced' = forced \cup {"in"} /\ cut' = (cut \/ inBusy)
    /\ UNCHANGED <<inVars, outVars, mainVars, sigs, metricsVars, expired>>

ForceOut ==
    /\ "ctx" \in expired /\ "out" \notin forced
    /\ outPhase = "stopping" /\ outServing = Out!Nothing
    /\ forced' = forced \cup {"out"} /\ cut' = (cut \/ outBusy)
    /\ UNCHANGED <<inVars, outVars, mainVars, sigs, metricsVars, expired>>

StoppedIn ==
    /\ In!Stopped
    /\ UNCHANGED <<outVars, mainVars, sigs, metricsVars, stopVars>>

StoppedOut ==
    /\ Out!Stopped
    /\ UNCHANGED <<inVars, mainVars, sigs, metricsVars, stopVars>>

(* metricsStop: srv.Shutdown closes the listener and waits for scrapes.    *)
MetricsStop ==
    /\ at = "shutdown" /\ metrics = "serving"
    /\ metrics' = "draining"
    /\ UNCHANGED <<inVars, outVars, mainVars, sigs, scrape, drainGrace, stopVars>>

(* Closing metricsLn a second time does nothing; metricsDone is awaited.   *)
ForceMetrics ==
    /\ "ctx" \in expired /\ "metrics" \notin forced /\ metrics = "draining"
    /\ forced' = forced \cup {"metrics"}
    /\ UNCHANGED <<inVars, outVars, mainVars, sigs, metricsVars, expired, cut>>

MetricsDrainedNoDeadline ==
    /\ metrics = "draining" /\ ~scrape
    /\ metrics' = "done"
    /\ UNCHANGED <<inVars, outVars, mainVars, sigs, scrape, drainGrace, stopVars>>

MetricsDrained ==
    /\ metrics = "draining" /\ (~scrape \/ "drain" \in expired)
    /\ metrics' = "done"
    /\ UNCHANGED <<inVars, outVars, mainVars, sigs, scrape, drainGrace, stopVars>>

(* srv.Serve failed by itself: it is logged and the daemon goes on.        *)
MetricsExit ==
    /\ ~Exited /\ metrics = "serving"
    /\ metrics' = "done"
    /\ UNCHANGED <<inVars, outVars, mainVars, sigs, scrape, drainGrace, stopVars>>

ShutdownReturnBlind ==
    /\ inPhase = "stopped" /\ outPhase = "stopped" /\ metrics \in {"disabled", "done"}
    /\ Goto("shutdown", IF "in" \notin forced THEN "exit0" ELSE "exit1")
    /\ UNCHANGED <<inVars, outVars, sigs, metricsVars, stopVars>>

ShutdownReturn ==
    /\ inPhase = "stopped" /\ outPhase = "stopped" /\ metrics \in {"disabled", "done"}
    /\ Goto("shutdown", IF forced = {} THEN "exit0" ELSE "exit1")
    /\ UNCHANGED <<inVars, outVars, sigs, metricsVars, stopVars>>

-----------------------------------------------------------------------------
(* Peers and timers.                                                       *)

ConnectIn ==
    /\ ~Exited /\ In!Connect
    /\ UNCHANGED <<outVars, mainVars, sigs, metricsVars, stopVars>>

ConnectOut ==
    /\ ~Exited /\ Out!Connect
    /\ UNCHANGED <<inVars, mainVars, sigs, metricsVars, stopVars>>

ConnEndIn ==
    /\ ~Exited /\ In!ConnEnd
    /\ UNCHANGED <<outVars, mainVars, sigs, metricsVars, stopVars>>

ConnEndOut ==
    /\ ~Exited /\ Out!ConnEnd
    /\ UNCHANGED <<inVars, mainVars, sigs, metricsVars, stopVars>>

Scrape ==
    /\ ~Exited /\ metrics \in {"serving", "draining"}
    /\ scrape' \in (IF metrics = "serving" THEN BOOLEAN ELSE {FALSE})
    /\ UNCHANGED <<inVars, outVars, mainVars, sigs, metrics, drainGrace, stopVars>>

ExpireCtx ==
    /\ at = "shutdown"
    /\ expired' = expired \cup {"ctx"}
    /\ UNCHANGED <<inVars, outVars, mainVars, sigs, metricsVars, forced, cut>>

(* Started after shutdownCtx: with no less grace it also ends after it.    *)
ExpireDrain ==
    /\ metrics = "draining" /\ (drainGrace < cfg.grace \/ "ctx" \in expired)
    /\ expired' = expired \cup {"drain"}
    /\ UNCHANGED <<inVars, outVars, mainVars, sigs, metricsVars, forced, cut>>

-----------------------------------------------------------------------------

Start ==
    \/ StartIn \/ StartInFail \/ StartOut \/ StartOutFail
    \/ StartMetrics \/ StartMetricsFail \/ RollbackOut \/ StartReturn

Reload ==
    \/ LoadFail \/ (\E c \in Configs : Load(c)) \/ PrepareInFail \/ PrepareOut \/ PrepareOutFail
    \/ CommitIn \/ PublishIn(InKeys) \/ CommitOut \/ PublishOut(OutKeys) \/ EndReload

StopIn == ShutdownIn \/ CloseIn(InKeys) \/ ForceIn \/ StoppedIn

StopOut == ShutdownOut \/ CloseOut(OutKeys) \/ ForceOut \/ StoppedOut

StopMetrics == MetricsStop \/ ForceMetrics \/ MetricsDrained

Main == Start \/ Reload \/ TakeHup \/ TakeTerm \/ ShutdownReturn

Next ==
    \/ Main \/ StopIn \/ StopOut \/ StopMetrics
    \/ (\E k \in InKeys : PublishIn({k}) \/ CloseIn({k}))
    \/ (\E k \in OutKeys : PublishOut({k}) \/ CloseOut({k}))
    \/ \E s \in {"hup", "term"} : Signal(s)
    \/ ConnectIn \/ ConnectOut \/ ConnEndIn \/ ConnEndOut
    \/ Scrape \/ MetricsExit \/ ExpireCtx \/ ExpireDrain

Spec == Init /\ [][Next]_vars

(* The goroutines are scheduled and the timers fire.  Nothing is assumed   *)
(* of signals, peers and scrapers, nor that a connection ends when         *)
(* Shutdown has closed it.                                                 *)
Fairness ==
    /\ WF_vars(Main) /\ WF_vars(StopIn) /\ WF_vars(StopOut) /\ WF_vars(StopMetrics)
    /\ WF_vars(ExpireCtx) /\ WF_vars(ExpireDrain)

FairSpec == Spec /\ Fairness

-----------------------------------------------------------------------------
(* Properties.                                                             *)

Points == {"startIn", "startOut", "startMetrics", "rollbackIn", "rollbackOut", "loop", "load",
           "prepareIn", "prepareOut", "commitIn", "commitOut", "shutdown", "exit0", "exit1"}

Phases == {"new", "failed", "idle", "staged", "committing", "stopping", "stopped"}

(* The shapes of the daemon's state; sigCh never exceeds its capacity.     *)
TypeOK ==
    /\ inPhase \in Phases /\ inServing \in In!Configurations /\ inPlan \in In!Configurations
    /\ outPhase \in Phases /\ outServing \in Out!Configurations /\ outPlan \in Out!Configurations
    /\ inBusy \in BOOLEAN /\ outBusy \in BOOLEAN
    /\ at \in Points /\ cfg \in Configs /\ next \in Configs
    /\ sigs \in Seq({"hup", "term"}) /\ Len(sigs) <= SigCap
    /\ metrics \in {"disabled", "unbound", "serving", "draining", "done"}
    /\ scrape \in BOOLEAN /\ drainGrace \in Nat
    /\ expired \subseteq {"ctx", "drain"} /\ forced \subseteq {"in", "out", "metrics"}
    /\ cut \in BOOLEAN

(* Whenever the daemon waits for a signal, both servers serve one and the  *)
(* same configuration, currentCfg, and neither holds a plan, whatever      *)
(* reloads have failed before, and wherever: "A failed reload leaves the   *)
(* running configuration unchanged" (app.go:223-233).                      *)
OneConfiguration ==
    at = "loop" =>
        /\ inPhase = "idle" /\ inServing = cfg.in /\ inPlan = In!Nothing
        /\ outPhase = "idle" /\ outServing = cfg.out /\ outPlan = Out!Nothing

(* What a client can see of a reload that stages two servers and commits   *)
(* them in turn: until both have staged the new configuration no endpoint  *)
(* leaves the old one, and the outbound server leaves it only when the     *)
(* inbound server has arrived at the new one whole (app.go:247-264).       *)
OutboundFollowsInbound ==
    inPhase \in {"idle", "staged", "committing"} /\ outPhase \in {"idle", "staged", "committing"} =>
        /\ inServing # cfg.in => at \in {"commitIn", "commitOut"}
        /\ outServing # cfg.out => at = "commitOut" /\ inServing = next.in

(* A reload is atomic over the two servers as far as two commits in turn   *)
(* can be: its state, at every step of it and of its failures.             *)
ReloadInv == TypeOK /\ OneConfiguration /\ OutboundFollowsInbound

(* When the process exits, after a failed start or a shutdown, no endpoint *)
(* is served, no connection is open and no metrics server runs: "After a   *)
(* failed Start the inbound listener on inPort must also be released"      *)
(* (app_test.go:472).                                                  *)
CleanExit ==
    Exited =>
        /\ inServing = In!Nothing /\ outServing = Out!Nothing
        /\ ~inBusy /\ ~outBusy
        /\ metrics \notin {"serving", "draining"}

(* Exit status 0 is given only when every proxied connection has ended by  *)
(* itself: a force-closed one makes Shutdown return an error, whichever of *)
(* the three goroutines ends first (app.go:333-343).                       *)
ExitZeroIsGraceful == at = "exit0" => ~cut

(* A server whose grace has run out loses its last connection.  Module     *)
(* Connection shows it of the connections that the sweep closes, and that  *)
(* one whose dial completes after the sweep may be an exception.           *)
ForcedConnsEnd == ("in" \in forced ~> ~inBusy) /\ ("out" \in forced ~> ~outBusy)

(* A termination signal that is in sigCh once the daemon runs ends the     *)
(* process, behind any reloads queued before it, with peers that never let *)
(* go until they are cut off and scrapers that never do, provided that cut *)
(* off connections end: "A second signal is not required" (README.md:679). *)
TermEndsDaemon ==
    ForcedConnsEnd =>
        (at \in {"loop", "load"} /\ (\E i \in 1 .. Len(sigs) : sigs[i] = "term") ~> Exited)

(* "Start must surface the bind error" (app_test.go:421): Start returns,   *)
(* with or without success.  It is violated: the rollback of a failed      *)
(* start waits for the connections the inbound server has accepted in the  *)
(* meantime, with a context that never ends.                               *)
StartReturns == at = "startIn" ~> at \in {"loop", "exit1"}
=============================================================================
