------------------------------ MODULE Manager ------------------------------
(***************************************************************************)
(* The supervisor's process manager (internal/supervisor/manager.go): its  *)
(* single-threaded run loop, the children it spawns, the goroutines that   *)
(* reap them and the SIGKILL timers of a shutdown.                         *)
(*                                                                         *)
(* A job is one spawn of a unit on its way back to the run loop: the live  *)
(* process (alive, SIGTERMed or SIGKILLed), then exited with its pipes not *)
(* yet at EOF, then its exitEvent, sent or about to be sent.  A spawn that *)
(* fails to start is an exitEvent at once.                                 *)
(***************************************************************************)
EXTENDS Integers, FiniteSets

CONSTANTS
    Units,      \* the configured processes
    Policies,   \* the role/restart/on_failure settings considered
    ExitCodes,  \* codes with which a child may exit by itself
    Orphans,    \* may a descendant keep a dead child's pipes open
    MaxTime     \* bound on the clock

(* What Process.validate accepts (config.go:201-245).                      *)
ValidPolicy(p) ==
    /\ p.role \in {"task", "sidecar"}
    /\ p.restart \in {"no", "on-failure", "always"}
    /\ p.onFailure \in {"terminate", "continue"}
    /\ p.max \in Nat /\ p.window \in Nat
    /\ p.restart # "no" /\ p.max > 0 => p.window > 0

ASSUME ManagerAssumption ==
    /\ \A p \in Policies : ValidPolicy(p)
    /\ ExitCodes \subseteq Nat
    /\ Orphans \in BOOLEAN
    /\ MaxTime \in Nat

VARIABLES
    cfg,           \* the policy of each unit, fixed by the configuration
    mpc,           \* the run loop: start, top, select or returned
    state,         \* unit.state
    hist,          \* unit.budget.history: the recorded restarts
    cmd,           \* unit.cmd: the last spawn that started, 0 = nil
    timer,         \* unit.killTimer: the spawn it will SIGKILL, 0 = nil
    shuttingDown,
    exitCode,
    ctx,           \* the context: live, done, or done and consumed
    jobs,          \* spawns whose exit has not been handled yet
    spawns,        \* number of spawns of each unit so far
    now,           \* the clock
    restarts,      \* history: every restart of each unit
    lastCode       \* history: the last exit the policy was applied to

unitVars == <<state, hist, cmd, timer>>
vars == <<cfg, mpc, unitVars, shuttingDown, exitCode, ctx, jobs, spawns, now,
          restarts, lastCode>>

Live == {"alive", "termed", "killed"}
Job == [u : Units, n : Nat \ {0}, phase : Live \cup {"exited", "event"}, code : Nat]
Restart == [n : Nat, t : Nat]

StartFailureCode == 127

(* classify reports a SIGKILLed child as 128 plus the signal's number.     *)
KilledCode == 128 + 9

Init ==
    /\ cfg \in [Units -> Policies]
    /\ mpc = "start"
    /\ state = [u \in Units |-> "running"]   \* procState's zero value
    /\ hist = [u \in Units |-> {}]
    /\ cmd = [u \in Units |-> 0]
    /\ timer = [u \in Units |-> 0]
    /\ shuttingDown = FALSE
    /\ exitCode = 0
    /\ ctx = "live"
    /\ jobs = {}
    /\ spawns = [u \in Units |-> 0]
    /\ now = 0
    /\ restarts = [u \in Units |-> {}]
    /\ lastCode = [u \in Units |-> 0]

-----------------------------------------------------------------------------
(* Helpers of the run loop.                                                *)

hasTasks == \E u \in Units : cfg[u].role = "task"

allTasksDone == \A u \in Units : cfg[u].role = "task" => state[u] = "done"

allTasksTerminal == \A u \in Units : cfg[u].role = "task" => state[u] # "running"

noTaskRunning == \A u \in Units : cfg[u].role = "task" => state[u] # "running"

(* runningCount() = 0.                                                     *)
noneRunning == \A u \in Units : state[u] # "running"

warrantsRestart(policy, code) ==
    \/ policy = "always"
    \/ policy = "on-failure" /\ code # 0

prunedOffByOne(u) ==
    IF cfg[u].window > 0 THEN {r \in hist[u] : r.t > now - cfg[u].window + 1} ELSE hist[u]

(* allow keeps the attempts younger than the window.                       *)
pruned(u) ==
    IF cfg[u].window > 0 THEN {r \in hist[u] : r.t > now - cfg[u].window} ELSE hist[u]

allow(u) == Cardinality(pruned(u)) < cfg[u].max

NewJob(u, started) ==
    [u |-> u, n |-> spawns[u] + 1, phase |-> IF started THEN "alive" ELSE "event",
     code |-> IF started THEN 0 ELSE StartFailureCode]

ResetCode(code) == exitCode' = code

setExitCode(code) == exitCode' = IF exitCode = 0 THEN code ELSE exitCode

(* The SIGTERM of beginShutdown reaches a unit's process if it is marked   *)
(* running and cmd is still that process.                                  *)
Signalled(j, st) ==
    IF j.phase = "alive" /\ st[j.u] = "running" /\ cmd[j.u] = j.n
    THEN [j EXCEPT !.phase = "termed"]
    ELSE j

BeginShutdownNoKill(js, st, tm) ==
    /\ shuttingDown' = TRUE
    /\ jobs' = {Signalled(j, st) : j \in js}
    /\ timer' = tm

(* beginShutdown, with jobs js, states st and timers tm as its caller left *)
(* them.  Its callers check that no shutdown has begun.                    *)
BeginShutdown(js, st, tm) ==
    /\ shuttingDown' = TRUE
    /\ jobs' = {Signalled(j, st) : j \in js}
    /\ timer' = [u \in Units |-> IF st[u] = "running" /\ cmd[u] # 0 THEN cmd[u] ELSE tm[u]]

-----------------------------------------------------------------------------
(* The run loop.                                                           *)

(* Run's first loop spawns every unit; those in failed do not start.       *)
Start ==
    /\ mpc = "start"
    /\ \E failed \in SUBSET Units :
          /\ jobs' = {NewJob(u, u \notin failed) : u \in Units}
          /\ cmd' = [u \in Units |-> IF u \in failed THEN 0 ELSE 1]
    /\ spawns' = [u \in Units |-> 1]
    /\ mpc' = "top"
    /\ UNCHANGED <<cfg, state, hist, timer, shuttingDown, exitCode, ctx, now,
                   restarts, lastCode>>

(* The checks at the top of Run's loop: shut down once every task is       *)
(* terminal, return once a shutdown has no running unit left.              *)
Top ==
    /\ mpc = "top"
    /\ IF ~shuttingDown /\ hasTasks /\ allTasksTerminal
       THEN BeginShutdown(jobs, state, timer)
       ELSE UNCHANGED <<shuttingDown, jobs, timer>>
    /\ mpc' = IF shuttingDown' /\ noneRunning THEN "returned" ELSE "select"
    /\ UNCHANGED <<cfg, state, hist, cmd, exitCode, ctx, spawns, now, restarts, lastCode>>

SelectSignal ==
    /\ mpc = "select" /\ ctx = "done"
    /\ ctx' = "consumed"
    /\ IF shuttingDown THEN UNCHANGED <<shuttingDown, jobs, timer>>
       ELSE BeginShutdown(jobs, state, timer)
    /\ mpc' = "top"
    /\ UNCHANGED <<cfg, state, hist, cmd, exitCode, spawns, now, restarts, lastCode>>

(* The parts of handleExit, for the exitEvent ev; ev's kill timer is       *)
(* stopped in each.                                                        *)

StoppedTimer(ev) == [timer EXCEPT ![ev.u] = 0]

RestartWhileShuttingDown(ev) ==
    /\ shuttingDown
    /\ jobs' = (jobs \ {ev}) \cup {NewJob(ev.u, TRUE)}
    /\ cmd' = [cmd EXCEPT ![ev.u] = spawns[ev.u] + 1]
    /\ spawns' = [spawns EXCEPT ![ev.u] = @ + 1]
    /\ timer' = StoppedTimer(ev)
    /\ UNCHANGED <<state, hist, shuttingDown, exitCode, restarts, lastCode>>

ExitWhileShuttingDown(ev) ==
    /\ shuttingDown
    /\ state' = [state EXCEPT ![ev.u] = "stopped"]
    /\ jobs' = jobs \ {ev}
    /\ timer' = StoppedTimer(ev)
    /\ UNCHANGED <<hist, cmd, shuttingDown, exitCode, spawns, restarts, lastCode>>

RestartUnit(ev) ==
    /\ ~shuttingDown
    /\ warrantsRestart(cfg[ev.u].restart, ev.code) /\ allow(ev.u)
    /\ LET r == [n |-> spawns[ev.u] + 1, t |-> now]
       IN  /\ hist' = [hist EXCEPT ![ev.u] = pruned(ev.u) \cup {r}]
           /\ restarts' = [restarts EXCEPT ![ev.u] = @ \cup {r}]
    /\ \E started \in BOOLEAN :
          /\ jobs' = (jobs \ {ev}) \cup {NewJob(ev.u, started)}
          /\ cmd' = IF started THEN [cmd EXCEPT ![ev.u] = spawns[ev.u] + 1] ELSE cmd
    /\ spawns' = [spawns EXCEPT ![ev.u] = @ + 1]
    /\ state' = [state EXCEPT ![ev.u] = "running"]
    /\ timer' = StoppedTimer(ev)
    /\ lastCode' = [lastCode EXCEPT ![ev.u] = ev.code]
    /\ UNCHANGED <<shuttingDown, exitCode>>

CompleteUnit(ev) ==
    /\ ~shuttingDown
    /\ ~warrantsRestart(cfg[ev.u].restart, ev.code) /\ ev.code = 0
    /\ state' = [state EXCEPT ![ev.u] = IF cfg[ev.u].role = "task" THEN "done" ELSE "stopped"]
    /\ jobs' = jobs \ {ev}
    /\ timer' = StoppedTimer(ev)
    /\ lastCode' = [lastCode EXCEPT ![ev.u] = ev.code]
    /\ UNCHANGED <<hist, cmd, shuttingDown, exitCode, spawns, restarts>>

(* applyOnFailure.                                                         *)
ContinueWithout(ev) ==
    /\ cfg[ev.u].onFailure = "continue"
    /\ IF cfg[ev.u].role = "task"
       THEN state' = [state EXCEPT ![ev.u] = "abandoned"] /\ setExitCode(ev.code)
       ELSE state' = [state EXCEPT ![ev.u] = "stopped"] /\ UNCHANGED exitCode
    /\ jobs' = jobs \ {ev}
    /\ timer' = StoppedTimer(ev)
    /\ UNCHANGED shuttingDown

Terminate(ev) ==
    /\ cfg[ev.u].onFailure = "terminate"
    /\ state' = [state EXCEPT ![ev.u] = "stopped"]
    /\ setExitCode(ev.code)
    /\ BeginShutdown(jobs \ {ev}, state', StoppedTimer(ev))

GiveUpUnit(ev) ==
    /\ ~shuttingDown
    /\ \/ /\ warrantsRestart(cfg[ev.u].restart, ev.code) /\ ~allow(ev.u)
          /\ hist' = [hist EXCEPT ![ev.u] = pruned(ev.u)]
       \/ /\ ~warrantsRestart(cfg[ev.u].restart, ev.code) /\ ev.code # 0
          /\ UNCHANGED hist
    /\ ContinueWithout(ev) \/ Terminate(ev)
    /\ lastCode' = [lastCode EXCEPT ![ev.u] = ev.code]
    /\ UNCHANGED <<cmd, spawns, restarts>>

HandleExit(ev) ==
    /\ mpc = "select" /\ ev.phase = "event"
    /\ ExitWhileShuttingDown(ev) \/ RestartUnit(ev) \/ CompleteUnit(ev) \/ GiveUpUnit(ev)
    /\ mpc' = "top"
    /\ UNCHANGED <<cfg, ctx, now>>

-----------------------------------------------------------------------------
(* Children, timers and the environment.                                   *)

Become(j, phase, code) ==
    jobs' = (jobs \ {j}) \cup {[j EXCEPT !.phase = phase, !.code = code]}

(* The process exits: by itself with any code, by the SIGKILL with 137.    *)
(* The pump goroutines then read its pipes to EOF.                         *)
ChildExit(j) ==
    /\ j.phase \in Live
    /\ \/ j.phase # "killed" /\ \E code \in ExitCodes : Become(j, "exited", code)
       \/ j.phase = "killed" /\ Become(j, "exited", KilledCode)
    /\ UNCHANGED <<cfg, mpc, unitVars, shuttingDown, exitCode, ctx, spawns, now,
                   restarts, lastCode>>

ReapTwice(j) ==
    /\ j.phase = "exited"
    /\ jobs' = jobs \cup {[j EXCEPT !.phase = "event"]}
    /\ UNCHANGED <<cfg, mpc, unitVars, shuttingDown, exitCode, ctx, spawns, now,
                   restarts, lastCode>>

(* EOF on both pipes, then Wait, then the send on exits.                   *)
Reap(j) ==
    /\ j.phase = "exited"
    /\ Become(j, "event", j.code)
    /\ UNCHANGED <<cfg, mpc, unitVars, shuttingDown, exitCode, ctx, spawns, now,
                   restarts, lastCode>>

(* termGrace elapses; a process that is already gone is left alone.        *)
KillTimerFires(u) ==
    /\ timer[u] # 0
    /\ timer' = [timer EXCEPT ![u] = 0]
    /\ jobs' = {IF j.u = u /\ j.n = timer[u] /\ j.phase \in Live
                THEN [j EXCEPT !.phase = "killed"] ELSE j : j \in jobs}
    /\ UNCHANGED <<cfg, mpc, state, hist, cmd, shuttingDown, exitCode, ctx, spawns, now,
                   restarts, lastCode>>

Cancel ==
    /\ ctx = "live" /\ ctx' = "done"
    /\ UNCHANGED <<cfg, mpc, unitVars, shuttingDown, exitCode, jobs, spawns, now,
                   restarts, lastCode>>

(* The clock is read only by handleExit and only until a shutdown begins;  *)
(* it need not move anywhere else.                                         *)
Tick ==
    /\ mpc = "select" /\ ~shuttingDown
    /\ now < MaxTime /\ now' = now + 1
    /\ UNCHANGED <<cfg, mpc, unitVars, shuttingDown, exitCode, ctx, jobs, spawns,
                   restarts, lastCode>>

-----------------------------------------------------------------------------

Loop == Start \/ Top \/ SelectSignal \/ \E ev \in jobs : HandleExit(ev)

Children == \E j \in jobs : ChildExit(j) \/ Reap(j)

Next == Loop \/ Children \/ (\E u \in Units : KillTimerFires(u)) \/ Cancel \/ Tick

Spec == Init /\ [][Next]_vars

(* The run loop is scheduled, timers fire, and a SIGKILLed process dies.   *)
(* The pipes of a dead child reach EOF unless a descendant still holds     *)
(* them.  No child is assumed to exit by itself or to obey SIGTERM.        *)
Fairness ==
    /\ WF_vars(Loop)
    /\ \A u \in Units : WF_vars(KillTimerFires(u))
    /\ \A u \in Units : WF_vars(\E j \in jobs : j.u = u /\ j.phase = "killed" /\ ChildExit(j))
    /\ ~Orphans => \A u \in Units : WF_vars(\E j \in jobs : j.u = u /\ Reap(j))

FairSpec == Spec /\ Fairness

-----------------------------------------------------------------------------
(* Properties.                                                             *)

(* The shapes of the manager's state.                                      *)
TypeOK ==
    /\ cfg \in [Units -> Policies]
    /\ mpc \in {"start", "top", "select", "returned"}
    /\ state \in [Units -> {"running", "done", "abandoned", "stopped"}]
    /\ hist \in [Units -> SUBSET Restart] /\ restarts \in [Units -> SUBSET Restart]
    /\ cmd \in [Units -> Nat] /\ timer \in [Units -> Nat] /\ spawns \in [Units -> Nat]
    /\ shuttingDown \in BOOLEAN /\ exitCode \in Nat
    /\ ctx \in {"live", "done", "consumed"}
    /\ jobs \subseteq Job
    /\ now \in Nat /\ lastCode \in [Units -> Nat]

(* The bookkeeping of manager.go never loses or doubles a process: a unit  *)
(* is marked running exactly while one spawn of it is on its way back to   *)
(* the loop, and a live process is the one unit.cmd can signal.            *)
OneJobPerUnit ==
    /\ \A j, k \in jobs : j.u = k.u => j = k
    /\ mpc # "start" => \A u \in Units : state[u] = "running" <=> \E j \in jobs : j.u = u
    /\ \A j \in jobs : j.phase \in Live => cmd[j.u] = j.n

(* Run returns only when every child has exited, been reaped and had its   *)
(* exit handled: nothing it started outlives it (manager.go:184-186).      *)
NoChildLeftBehind == mpc = "returned" => jobs = {}

(* Once a shutdown has begun, every child still alive has been sent        *)
(* SIGTERM, and its SIGKILL timer is armed for that very process           *)
(* (manager.go:377-396), also when restarts and start failures came first. *)
ShutdownReachesAll ==
    shuttingDown => \A j \in jobs :
        /\ j.phase # "alive"
        /\ j.phase = "termed" => timer[j.u] = j.n

(* "While shutting down, exits are recorded but never restarted - the      *)
(* single most important correctness rule" (manager.go:306-308).           *)
NoSpawnInShutdown == [][shuttingDown => spawns' = spawns]_vars

(* What OneJobPerUnit and ShutdownReachesAll rest on at the loop's ends    *)
(* and before a shutdown.                                                  *)
LoopEnds ==
    /\ mpc = "start" =>
          /\ jobs = {} /\ ~shuttingDown
          /\ \A u \in Units : state[u] = "running" /\ spawns[u] = 0
    /\ mpc = "returned" => shuttingDown /\ noneRunning
    /\ ~shuttingDown =>
          /\ \A j \in jobs : j.phase \notin {"termed", "killed"}
          /\ \A u \in Units : timer[u] = 0

recent(u) == {r \in restarts[u] : r.t > now - cfg[u].window}

(* The crash-loop cap: in no window of length restart_window is a unit     *)
(* restarted more than max_restarts times (manager.go:39-67).              *)
RestartBudget == \A u \in Units : Cardinality(recent(u)) <= cfg[u].max

(* Pruning never forgets a restart that still counts.                      *)
HistoryCoversWindow ==
    \A u \in Units :
        /\ IsFiniteSet(restarts[u])
        /\ recent(u) \subseteq hist[u] /\ hist[u] \subseteq restarts[u]
        /\ cfg[u].window = 0 => restarts[u] = {}

(* The resolved code is that of a unit which really failed and counts, and *)
(* a task given up on a failing exit is never reported as success          *)
(* (manager.go:354-375, 398-404).                                          *)
ExitCodeHonest ==
    /\ \A u \in Units : state[u] = "abandoned" /\ lastCode[u] # 0 => exitCode # 0
    /\ exitCode # 0 => \E u \in Units :
          /\ lastCode[u] = exitCode
          /\ state[u] \in {"abandoned", "stopped"}
          /\ cfg[u].role = "task" \/ cfg[u].onFailure = "terminate"

(* The strengthening that every step of the manager preserves.             *)
IInv ==
    /\ TypeOK /\ OneJobPerUnit /\ ShutdownReachesAll /\ LoopEnds /\ ExitCodeHonest
    /\ HistoryCoversWindow /\ RestartBudget

(* A shutdown ends, whatever the children do with SIGTERM: Run returns     *)
(* (README.md:561-570).                                                    *)
ShutdownCompletes == shuttingDown ~> mpc = "returned"

TasksSettled ==
    /\ \E u \in Units : cfg[u].role = "task"
    /\ \A u \in Units : cfg[u].role = "task" => state[u] \in {"done", "abandoned", "stopped"}

(* A cancelled context and the end of the last task both end the           *)
(* supervisor, however the select races exits against the signal.          *)
TriggersEndRun ==
    /\ ctx = "done" ~> mpc = "returned"
    /\ TasksSettled ~> mpc = "returned"
=============================================================================
