--------------------------- MODULE ManagerProofs ---------------------------
(***************************************************************************)
(* The manager's safety properties, for any set of units, any valid        *)
(* policies and any exit codes.                                            *)
(***************************************************************************)
EXTENDS Manager, FiniteSetTheorems, TLAPS

(* A fresh job (spawn, startFailed; manager.go:203-251) is well formed.    *)
LEMMA NewJobType ==
    ASSUME TypeOK, NEW u \in Units, NEW started \in BOOLEAN
    PROVE  /\ NewJob(u, started) \in Job
           /\ NewJob(u, started).u = u /\ NewJob(u, started).n = spawns[u] + 1
           /\ NewJob(u, started).phase = IF started THEN "alive" ELSE "event"
  BY DEF TypeOK, NewJob, Job, Live, StartFailureCode

(* A job's phase may change without disturbing its identity.               *)
LEMMA PhaseChange ==
    ASSUME NEW j \in Job, NEW phase \in Live \cup {"exited", "event"}
    PROVE  /\ [j EXCEPT !.phase = phase] \in Job
           /\ [j EXCEPT !.phase = phase].u = j.u
           /\ [j EXCEPT !.phase = phase].n = j.n
           /\ [j EXCEPT !.phase = phase].phase = phase
  BY DEF Job

(* The same for an exit, which also sets the code.                         *)
LEMMA ExitCodeChange ==
    ASSUME NEW j \in Job, NEW phase \in Live \cup {"exited", "event"}, NEW code \in Nat
    PROVE  /\ [j EXCEPT !.phase = phase, !.code = code] \in Job
           /\ [j EXCEPT !.phase = phase, !.code = code].u = j.u
           /\ [j EXCEPT !.phase = phase, !.code = code].n = j.n
           /\ [j EXCEPT !.phase = phase, !.code = code].phase = phase
  BY DEF Job

(* What the end of a process and the reaping of it do to its job: one      *)
(* phase further, with an exit code.                                       *)
LEMMA ExitStepShape ==
    ASSUME NEW j \in Job, ChildExit(j) \/ Reap(j)
    PROVE  \E phase \in {"exited", "event"}, code \in Nat :
               jobs' = (jobs \ {j}) \cup {[j EXCEPT !.phase = phase, !.code = code]}
  <1>1. j.code \in Nat /\ ExitCodes \subseteq Nat /\ KilledCode \in Nat
    BY ManagerAssumption DEF Job, KilledCode
  <1>2. CASE ChildExit(j)
    <2>1. PICK c \in ExitCodes \cup {KilledCode} : Become(j, "exited", c)
      BY <1>2 DEF ChildExit
    <2> QED
      BY <1>1, <2>1 DEF Become
  <1>3. CASE Reap(j)
    <2>1. Become(j, "event", j.code)
      BY <1>3 DEF Reap
    <2> QED
      BY <1>1, <2>1 DEF Become
  <1> QED
    BY <1>2, <1>3

(* What beginShutdown's SIGTERM (manager.go:390) does to one job.          *)
LEMMA SignalledJob ==
    ASSUME NEW j \in Job, NEW st
    PROVE  /\ Signalled(j, st) \in Job
           /\ Signalled(j, st).u = j.u /\ Signalled(j, st).n = j.n
           /\ \/ Signalled(j, st).phase = j.phase
              \/ j.phase = "alive" /\ Signalled(j, st).phase = "termed"
           /\ j.phase = "alive" /\ st[j.u] = "running" /\ cmd[j.u] = j.n
              => Signalled(j, st).phase = "termed"
  <1>1. CASE j.phase = "alive" /\ st[j.u] = "running" /\ cmd[j.u] = j.n
    <2>1. Signalled(j, st) = [j EXCEPT !.phase = "termed"]
      BY <1>1 DEF Signalled
    <2>2. "termed" \in Live \cup {"exited", "event"}
      BY DEF Live
    <2>3. /\ Signalled(j, st) \in Job /\ Signalled(j, st).u = j.u
          /\ Signalled(j, st).n = j.n /\ Signalled(j, st).phase = "termed"
      BY <2>1, <2>2, PhaseChange
    <2> QED
      BY <1>1, <2>3
  <1>2. CASE ~(j.phase = "alive" /\ st[j.u] = "running" /\ cmd[j.u] = j.n)
    <2>1. Signalled(j, st) = j
      BY <1>2 DEF Signalled
    <2> QED
      BY <1>2, <2>1
  <1> QED
    BY <1>1, <1>2

(* Every step of the manager keeps the shapes of its state.                *)
LEMMA TypeStep == TypeOK /\ [Next]_vars => TypeOK'
  <1> SUFFICES ASSUME TypeOK, [Next]_vars PROVE TypeOK'
    OBVIOUS
  <1> USE DEF TypeOK, unitVars
  <1>a. \A u \in Units : hist[u] \in SUBSET Restart /\ pruned(u) \in SUBSET Restart
    BY DEF pruned
  <1>b. ASSUME NEW js \in SUBSET Job, NEW st, NEW tm \in [Units -> Nat],
               BeginShutdown(js, st, tm)
        PROVE  shuttingDown' \in BOOLEAN /\ jobs' \subseteq Job /\ timer' \in [Units -> Nat]
    <2>1. \A j \in js : Signalled(j, st) \in Job
      BY SignalledJob
    <2> QED
      BY <1>b, <2>1 DEF BeginShutdown
  <1>1. CASE Start
    <2>1. PICK failed \in SUBSET Units :
              /\ jobs' = {NewJob(u, u \notin failed) : u \in Units}
              /\ cmd' = [u \in Units |-> IF u \in failed THEN 0 ELSE 1]
      BY <1>1 DEF Start
    <2>2. jobs' \subseteq Job
      <3>1. \A u \in Units : NewJob(u, u \notin failed) \in Job
        BY NewJobType
      <3> QED
        BY <2>1, <3>1
    <2> QED
      BY <1>1, <2>1, <2>2 DEF Start
  <1>2. CASE Top
    <2>1. shuttingDown' \in BOOLEAN /\ jobs' \subseteq Job /\ timer' \in [Units -> Nat]
      BY <1>2, <1>b DEF Top
    <2> QED
      BY <1>2, <2>1 DEF Top
  <1>3. CASE SelectSignal
    <2>1. shuttingDown' \in BOOLEAN /\ jobs' \subseteq Job /\ timer' \in [Units -> Nat]
      BY <1>3, <1>b DEF SelectSignal
    <2> QED
      BY <1>3, <2>1 DEF SelectSignal
  <1>4. ASSUME NEW ev \in jobs, HandleExit(ev) PROVE TypeOK'
    <2>1. /\ ev \in Job /\ ev.u \in Units /\ ev.code \in Nat
          /\ StoppedTimer(ev) \in [Units -> Nat]
      BY DEF Job, StoppedTimer
    <2>2. CASE ExitWhileShuttingDown(ev)
      BY <1>4, <2>1, <2>2 DEF HandleExit, ExitWhileShuttingDown
    <2>3. CASE RestartUnit(ev)
      <3>1. [n |-> spawns[ev.u] + 1, t |-> now] \in Restart
        BY <2>1 DEF Restart
      <3>2. hist' \in [Units -> SUBSET Restart] /\ restarts' \in [Units -> SUBSET Restart]
        BY <1>a, <2>1, <2>3, <3>1 DEF RestartUnit
      <3>3. PICK started \in BOOLEAN :
                /\ jobs' = (jobs \ {ev}) \cup {NewJob(ev.u, started)}
                /\ cmd' = IF started THEN [cmd EXCEPT ![ev.u] = spawns[ev.u] + 1] ELSE cmd
        BY <2>3 DEF RestartUnit
      <3>4. jobs' \subseteq Job
        BY <2>1, <3>3, NewJobType
      <3> QED
        BY <1>4, <2>1, <2>3, <3>2, <3>3, <3>4 DEF HandleExit, RestartUnit
    <2>4. CASE CompleteUnit(ev)
      BY <1>4, <2>1, <2>4 DEF HandleExit, CompleteUnit
    <2>5. CASE GiveUpUnit(ev)
      <3>1. hist' \in [Units -> SUBSET Restart]
        BY <1>a, <2>1, <2>5 DEF GiveUpUnit
      <3>2. CASE ContinueWithout(ev)
        BY <1>4, <2>1, <2>5, <3>1, <3>2 DEF HandleExit, GiveUpUnit, ContinueWithout, setExitCode
      <3>3. CASE Terminate(ev)
        <4>1. jobs \ {ev} \in SUBSET Job
          OBVIOUS
        <4>2. shuttingDown' \in BOOLEAN /\ jobs' \subseteq Job /\ timer' \in [Units -> Nat]
          BY <1>b, <2>1, <3>3, <4>1 DEF Terminate
        <4> QED
          BY <1>4, <2>1, <2>5, <3>1, <3>3, <4>2 DEF HandleExit, GiveUpUnit, Terminate, setExitCode
      <3> QED
        BY <2>5, <3>2, <3>3 DEF GiveUpUnit
    <2> QED
      BY <1>4, <2>2, <2>3, <2>4, <2>5 DEF HandleExit
  <1>5. ASSUME NEW j \in jobs, ChildExit(j) \/ Reap(j) PROVE TypeOK'
    <2>1. j \in Job
      OBVIOUS
    <2>2. PICK phase \in {"exited", "event"}, code \in Nat :
              jobs' = (jobs \ {j}) \cup {[j EXCEPT !.phase = phase, !.code = code]}
      BY <1>5, <2>1, ExitStepShape
    <2>3. [j EXCEPT !.phase = phase, !.code = code] \in Job
      BY <2>1, <2>2, ExitCodeChange
    <2>4. jobs' \subseteq Job
      BY <2>2, <2>3
    <2> QED
      BY <1>5, <2>4 DEF ChildExit, Reap
  <1>6. ASSUME NEW u \in Units, KillTimerFires(u) PROVE TypeOK'
    <2>1. jobs' \subseteq Job
      BY <1>6 DEF KillTimerFires, Job, Live
    <2> QED
      BY <1>6, <2>1 DEF KillTimerFires
  <1>7. CASE Cancel \/ Tick
    BY <1>7 DEF Cancel, Tick
  <1>8. CASE UNCHANGED vars
    BY <1>8 DEF vars
  <1> QED
    BY <1>1, <1>2, <1>3, <1>4, <1>5, <1>6, <1>7, <1>8 DEF Next, Loop, Children

(* NewManager's state (manager.go:125-164) has them.                       *)
LEMMA InitType == Init => TypeOK
  <1> SUFFICES ASSUME Init PROVE TypeOK
    OBVIOUS
  <1>1. /\ state \in [Units -> {"running", "done", "abandoned", "stopped"}]
        /\ hist \in [Units -> SUBSET Restart] /\ restarts \in [Units -> SUBSET Restart]
    BY DEF Init
  <1>2. /\ cmd \in [Units -> Nat] /\ timer \in [Units -> Nat] /\ spawns \in [Units -> Nat]
        /\ lastCode \in [Units -> Nat]
    BY DEF Init
  <1>3. /\ cfg \in [Units -> Policies] /\ mpc \in {"start", "top", "select", "returned"}
        /\ shuttingDown \in BOOLEAN /\ exitCode \in Nat
        /\ ctx \in {"live", "done", "consumed"} /\ jobs \subseteq Job /\ now \in Nat
    BY DEF Init
  <1> QED
    BY <1>1, <1>2, <1>3 DEF TypeOK

(* Spec => []TypeOK: the shapes of the manager's bookkeeping               *)
(* (manager.go:69-121), for every configuration config.go accepts.         *)
THEOREM TypeCorrect == Spec => []TypeOK
  BY InitType, TypeStep, PTL DEF Spec

-----------------------------------------------------------------------------
(* Jobs.                                                                   *)

JobsInv == OneJobPerUnit /\ ShutdownReachesAll /\ LoopEnds

(* A shutdown (manager.go:377-396) begun while each of the jobs js is the  *)
(* only one of a unit marked running signals every process among them.     *)
LEMMA BeginShutdownJobs ==
    ASSUME TypeOK, NEW js \in SUBSET Job, NEW st, NEW tm, BeginShutdown(js, st, tm),
           \A j, k \in js : j.u = k.u => j = k,
           \A j \in js : j.phase \in Live => cmd[j.u] = j.n,
           \A j \in js : st[j.u] = "running",
           \A j \in js : j.phase \notin {"termed", "killed"}
    PROVE  /\ \A j, k \in jobs' : j.u = k.u => j = k
           /\ \A j \in jobs' : j.phase \in Live => cmd[j.u] = j.n
           /\ \A u \in Units : (\E j \in jobs' : j.u = u) <=> (\E j \in js : j.u = u)
           /\ \A j \in jobs' : j.phase # "alive" /\ (j.phase = "termed" => timer'[j.u] = j.n)
           /\ shuttingDown'
  <1>1. /\ jobs' = {Signalled(j, st) : j \in js} /\ shuttingDown'
        /\ timer' = [u \in Units |-> IF st[u] = "running" /\ cmd[u] # 0 THEN cmd[u] ELSE tm[u]]
    BY DEF BeginShutdown
  <1>2. ASSUME NEW j \in js
        PROVE  /\ j.u \in Units /\ j.n # 0 /\ st[j.u] = "running"
               /\ j.phase \in {"alive", "exited", "event"}
               /\ Signalled(j, st).u = j.u /\ Signalled(j, st).n = j.n
               /\ Signalled(j, st).phase = IF j.phase = "alive" THEN "termed" ELSE j.phase
               /\ j.phase = "alive" => cmd[j.u] = j.n
    <2>1. j \in Job /\ j.phase \notin {"termed", "killed"} /\ st[j.u] = "running"
      OBVIOUS
    <2>2. j.u \in Units /\ j.n # 0 /\ j.phase \in {"alive", "exited", "event"}
      BY <2>1 DEF Job, Live
    <2>3. j.phase = "alive" => cmd[j.u] = j.n
      BY DEF Live
    <2>4. CASE j.phase = "alive"
      <3>1. Signalled(j, st).phase = "termed"
        BY <2>1, <2>3, <2>4, SignalledJob
      <3> QED
        BY <2>1, <2>2, <2>3, <2>4, <3>1, SignalledJob
    <2>5. CASE j.phase # "alive"
      BY <2>1, <2>2, <2>5 DEF Signalled
    <2> QED
      BY <2>4, <2>5
  <1>3. \A j, k \in jobs' : j.u = k.u => j = k
    <2> SUFFICES ASSUME NEW j \in js, NEW k \in js, Signalled(j, st).u = Signalled(k, st).u
                 PROVE  Signalled(j, st) = Signalled(k, st)
      BY <1>1
    <2> QED
      BY <1>2
  <1>4. \A j \in jobs' : j.phase \in Live => cmd[j.u] = j.n
    BY <1>1, <1>2 DEF Live
  <1>5. \A u \in Units : (\E j \in jobs' : j.u = u) <=> (\E j \in js : j.u = u)
    BY <1>1, <1>2
  <1>6. ASSUME NEW j \in jobs'
        PROVE  j.phase # "alive" /\ (j.phase = "termed" => timer'[j.u] = j.n)
    <2>1. PICK k \in js : j = Signalled(k, st)
      BY <1>1
    <2>2. /\ j.u = k.u /\ j.n = k.n /\ k.u \in Units /\ k.n # 0 /\ st[k.u] = "running"
          /\ j.phase = IF k.phase = "alive" THEN "termed" ELSE k.phase
          /\ k.phase \in {"alive", "exited", "event"}
          /\ k.phase = "alive" => cmd[k.u] = k.n
      BY <1>2, <2>1
    <2> QED
      BY <1>1, <2>2
  <1> QED
    BY <1>1, <1>3, <1>4, <1>5, <1>6

(* A job that only moves on to its next phase stays the unit's only job.   *)
LEMMA PhaseStepJobs ==
    ASSUME TypeOK, JobsInv, NEW j \in jobs, j.phase # "event",
           NEW phase \in {"exited", "event"}, NEW code \in Nat,
           jobs' = (jobs \ {j}) \cup {[j EXCEPT !.phase = phase, !.code = code]},
           UNCHANGED <<mpc, state, cmd, timer, shuttingDown, spawns>>
    PROVE  JobsInv'
  <1> DEFINE k == [j EXCEPT !.phase = phase, !.code = code]
  <1>1. j \in Job /\ phase \in Live \cup {"exited", "event"}
    BY DEF TypeOK
  <1>2. k.u = j.u /\ k.n = j.n /\ k.phase = phase
    BY <1>1 DEF Job
  <1>3. jobs' = (jobs \ {j}) \cup {k}
    OBVIOUS
  <1> HIDE DEF k
  <1>4. OneJobPerUnit'
    <2>1. \A a, b \in jobs' : a.u = b.u => a = b
      <3>1. \A a, b \in jobs : a.u = b.u => a = b
        BY DEF JobsInv, OneJobPerUnit
      <3>2. \A a \in jobs \ {j} : a.u # k.u
        BY <1>2, <3>1
      <3> QED
        BY <1>3, <3>1, <3>2
    <2>2. \A u \in Units : (\E a \in jobs' : a.u = u) <=> (\E a \in jobs : a.u = u)
      BY <1>2, <1>3
    <2>3. \A a \in jobs' : a.phase \in Live => cmd[a.u] = a.n
      BY <1>2, <1>3 DEF JobsInv, OneJobPerUnit, Live
    <2> QED
      BY <2>1, <2>2, <2>3 DEF JobsInv, OneJobPerUnit
  <1>5. ShutdownReachesAll'
    BY <1>2, <1>3 DEF JobsInv, ShutdownReachesAll
  <1>6. LoopEnds'
    BY <1>2, <1>3 DEF JobsInv, LoopEnds, noneRunning
  <1> QED
    BY <1>4, <1>5, <1>6 DEF JobsInv

(* beginShutdown called by the loop itself, for a signal or the end of the *)
(* last task.                                                              *)
LEMMA LoopShutdownJobs ==
    ASSUME TypeOK, JobsInv, mpc \in {"top", "select"}, ~shuttingDown,
           BeginShutdown(jobs, state, timer), UNCHANGED <<state, cmd, spawns>>,
           mpc' \in {"top", "select"} \/ (mpc' = "returned" /\ noneRunning)
    PROVE  JobsInv'
  <1>1. /\ jobs \in SUBSET Job
        /\ \A j, k \in jobs : j.u = k.u => j = k
        /\ \A j \in jobs : j.phase \in Live => cmd[j.u] = j.n
        /\ \A j \in jobs : j.phase \notin {"termed", "killed"}
    BY DEF TypeOK, JobsInv, OneJobPerUnit, LoopEnds
  <1>2. \A j \in jobs : state[j.u] = "running"
    BY DEF TypeOK, JobsInv, OneJobPerUnit, Job
  <1>3. /\ \A j, k \in jobs' : j.u = k.u => j = k
        /\ \A j \in jobs' : j.phase \in Live => cmd[j.u] = j.n
        /\ \A u \in Units : (\E j \in jobs' : j.u = u) <=> (\E j \in jobs : j.u = u)
        /\ \A j \in jobs' : j.phase # "alive" /\ (j.phase = "termed" => timer'[j.u] = j.n)
        /\ shuttingDown'
    BY <1>1, <1>2, BeginShutdownJobs
  <1>4. OneJobPerUnit'
    BY <1>3 DEF JobsInv, OneJobPerUnit
  <1>5. ShutdownReachesAll'
    BY <1>3 DEF ShutdownReachesAll
  <1>6. LoopEnds'
    BY <1>3 DEF LoopEnds, noneRunning
  <1> QED
    BY <1>4, <1>5, <1>6 DEF JobsInv

(* handleExit (manager.go:306-352) takes the only job of its unit away and *)
(* marks the unit no longer running, or replaces it by a new spawn.        *)
LEMMA HandleExitJobs ==
    ASSUME TypeOK, JobsInv, NEW ev \in jobs, HandleExit(ev)
    PROVE  JobsInv'
  <1>1. /\ mpc = "select" /\ mpc' = "top" /\ ev.phase = "event"
        /\ ev \in Job /\ ev.u \in Units
    BY DEF HandleExit, TypeOK, Job
  <1>2. \A j \in jobs \ {ev} : j.u # ev.u /\ j.u \in Units
    BY DEF JobsInv, OneJobPerUnit, TypeOK, Job
  <1>3. \A u \in Units : state[u] = "running" <=> \E j \in jobs : j.u = u
    BY <1>1 DEF JobsInv, OneJobPerUnit
  <1>4. \A j \in jobs \ {ev} : StoppedTimer(ev)[j.u] = timer[j.u]
    BY <1>1, <1>2 DEF StoppedTimer, TypeOK
  <1>b. (\A u \in Units : timer[u] = 0) => \A u \in Units : StoppedTimer(ev)[u] = 0
    BY <1>1 DEF StoppedTimer, TypeOK
  <1>5. ASSUME jobs' = jobs \ {ev}, NEW s \in {"done", "abandoned", "stopped"},
               state' = [state EXCEPT ![ev.u] = s], timer' = StoppedTimer(ev),
               UNCHANGED <<cmd, shuttingDown, spawns>>
        PROVE  JobsInv'
    <2>1. \A u \in Units : state'[u] = "running" <=> \E j \in jobs' : j.u = u
      BY <1>1, <1>2, <1>3, <1>5 DEF TypeOK
    <2>2. OneJobPerUnit'
      BY <1>5, <2>1 DEF JobsInv, OneJobPerUnit
    <2>3. ShutdownReachesAll'
      BY <1>4, <1>5 DEF JobsInv, ShutdownReachesAll
    <2>4. LoopEnds'
      BY <1>1, <1>5, <1>b DEF JobsInv, LoopEnds
    <2> QED
      BY <2>2, <2>3, <2>4 DEF JobsInv
  <1>6. CASE ExitWhileShuttingDown(ev)
    BY <1>5, <1>6 DEF ExitWhileShuttingDown
  <1>7. CASE CompleteUnit(ev)
    BY <1>5, <1>7 DEF CompleteUnit
  <1>8. CASE RestartUnit(ev)
    <2>1. PICK started \in BOOLEAN :
              /\ jobs' = (jobs \ {ev}) \cup {NewJob(ev.u, started)}
              /\ cmd' = IF started THEN [cmd EXCEPT ![ev.u] = spawns[ev.u] + 1] ELSE cmd
      BY <1>8 DEF RestartUnit
    <2> DEFINE new == NewJob(ev.u, started)
    <2>2. /\ new.u = ev.u /\ new.n = spawns[ev.u] + 1
          /\ new.phase = IF started THEN "alive" ELSE "event"
      BY <1>1, NewJobType
    <2>3. jobs' = (jobs \ {ev}) \cup {new}
      BY <2>1
    <2> HIDE DEF new
    <2>4. /\ ~shuttingDown /\ UNCHANGED shuttingDown
          /\ state' = [state EXCEPT ![ev.u] = "running"]
          /\ timer' = StoppedTimer(ev)
      BY <1>8 DEF RestartUnit
    <2>5. \A j, k \in jobs' : j.u = k.u => j = k
      BY <1>2, <2>2, <2>3 DEF JobsInv, OneJobPerUnit
    <2>6. \A u \in Units : state'[u] = "running" <=> \E j \in jobs' : j.u = u
      BY <1>1, <1>2, <1>3, <2>2, <2>3, <2>4 DEF TypeOK
    <2>7. \A j \in jobs' : j.phase \in Live => cmd'[j.u] = j.n
      <3>1. \A j \in jobs \ {ev} : cmd'[j.u] = cmd[j.u]
        BY <1>1, <1>2, <2>1 DEF TypeOK
      <3>2. new.phase \in Live => cmd'[new.u] = new.n
        BY <1>1, <2>1, <2>2 DEF TypeOK, Live
      <3> QED
        BY <2>3, <3>1, <3>2 DEF JobsInv, OneJobPerUnit
    <2>8. OneJobPerUnit'
      BY <2>5, <2>6, <2>7 DEF OneJobPerUnit
    <2>9. ShutdownReachesAll'
      BY <2>4 DEF ShutdownReachesAll
    <2>10. LoopEnds'
      BY <1>1, <1>b, <2>2, <2>3, <2>4 DEF JobsInv, LoopEnds
    <2> QED
      BY <2>8, <2>9, <2>10 DEF JobsInv
  <1>9. CASE GiveUpUnit(ev)
    <2>1. CASE ContinueWithout(ev)
      BY <1>5, <1>9, <2>1 DEF GiveUpUnit, ContinueWithout
    <2>2. CASE Terminate(ev)
      <3>1. /\ state' = [state EXCEPT ![ev.u] = "stopped"] /\ UNCHANGED <<cmd, spawns>>
            /\ ~shuttingDown /\ BeginShutdown(jobs \ {ev}, state', StoppedTimer(ev))
        BY <1>9, <2>2 DEF GiveUpUnit, Terminate
      <3>2. \A j \in jobs \ {ev} : state'[j.u] = "running"
        BY <1>1, <1>2, <1>3, <3>1 DEF TypeOK
      <3>3. /\ jobs \ {ev} \in SUBSET Job
            /\ \A j, k \in jobs \ {ev} : j.u = k.u => j = k
            /\ \A j \in jobs \ {ev} : j.phase \in Live => cmd[j.u] = j.n
            /\ \A j \in jobs \ {ev} : j.phase \notin {"termed", "killed"}
        BY <3>1 DEF TypeOK, JobsInv, OneJobPerUnit, LoopEnds
      <3> DEFINE js == jobs \ {ev}
                 tm == StoppedTimer(ev)
      <3> HIDE DEF js, tm
      <3>a. /\ js \in SUBSET Job /\ BeginShutdown(js, state', tm)
            /\ \A j, k \in js : j.u = k.u => j = k
            /\ \A j \in js : j.phase \in Live => cmd[j.u] = j.n
            /\ \A j \in js : state'[j.u] = "running"
            /\ \A j \in js : j.phase \notin {"termed", "killed"}
        BY <3>1, <3>2, <3>3 DEF js, tm
      <3>4. /\ \A j, k \in jobs' : j.u = k.u => j = k
            /\ \A j \in jobs' : j.phase \in Live => cmd[j.u] = j.n
            /\ \A u \in Units : (\E j \in jobs' : j.u = u) <=> (\E j \in js : j.u = u)
            /\ \A j \in jobs' : j.phase # "alive" /\ (j.phase = "termed" => timer'[j.u] = j.n)
            /\ shuttingDown'
        BY <3>a, BeginShutdownJobs
      <3>5. \A u \in Units : state'[u] = "running" <=> \E j \in jobs' : j.u = u
        BY <1>1, <1>2, <1>3, <3>1, <3>4 DEF TypeOK, js
      <3>6. OneJobPerUnit'
        BY <3>1, <3>4, <3>5 DEF OneJobPerUnit
      <3>7. ShutdownReachesAll' /\ LoopEnds'
        BY <1>1, <3>4 DEF ShutdownReachesAll, LoopEnds
      <3> QED
        BY <3>6, <3>7 DEF JobsInv
    <2> QED
      BY <1>9, <2>1, <2>2 DEF GiveUpUnit
  <1> QED
    BY <1>6, <1>7, <1>8, <1>9 DEF HandleExit

(* Every step keeps the marks, the processes and the timers in agreement.  *)
LEMMA JobsStep == TypeOK /\ JobsInv /\ [Next]_vars => JobsInv'
  <1> SUFFICES ASSUME TypeOK, JobsInv, [Next]_vars PROVE JobsInv'
    OBVIOUS
  <1>a. ASSUME UNCHANGED <<mpc, state, cmd, timer, shuttingDown, jobs, spawns>> PROVE JobsInv'
    BY <1>a DEF JobsInv, OneJobPerUnit, ShutdownReachesAll, LoopEnds, noneRunning
  <1>1. CASE Start
    <2>1. PICK failed \in SUBSET Units :
              /\ jobs' = {NewJob(u, u \notin failed) : u \in Units}
              /\ cmd' = [u \in Units |-> IF u \in failed THEN 0 ELSE 1]
      BY <1>1 DEF Start
    <2>2. /\ mpc' = "top" /\ ~shuttingDown /\ UNCHANGED <<state, shuttingDown, timer>>
          /\ \A u \in Units : state[u] = "running" /\ spawns[u] = 0
      BY <1>1 DEF Start, JobsInv, LoopEnds
    <2>3. \A u \in Units :
              /\ NewJob(u, u \notin failed).u = u
              /\ NewJob(u, u \notin failed).n = 1
              /\ NewJob(u, u \notin failed).phase = IF u \notin failed THEN "alive" ELSE "event"
      <3> SUFFICES ASSUME NEW u \in Units, NEW started \in BOOLEAN
                   PROVE  /\ NewJob(u, started).u = u /\ NewJob(u, started).n = 1
                          /\ NewJob(u, started).phase = IF started THEN "alive" ELSE "event"
        OBVIOUS
      <3>1. /\ NewJob(u, started).u = u /\ NewJob(u, started).n = spawns[u] + 1
            /\ NewJob(u, started).phase = IF started THEN "alive" ELSE "event"
        BY NewJobType
      <3> QED
        BY <2>2, <3>1
    <2>4. OneJobPerUnit'
      BY <2>1, <2>2, <2>3 DEF OneJobPerUnit, Live
    <2>5. ShutdownReachesAll' /\ LoopEnds'
      BY <2>1, <2>2, <2>3 DEF JobsInv, ShutdownReachesAll, LoopEnds
    <2> QED
      BY <2>4, <2>5 DEF JobsInv
  <1>2. CASE Top
    <2>1. CASE ~shuttingDown /\ hasTasks /\ allTasksTerminal
      BY <1>2, <2>1, LoopShutdownJobs DEF Top
    <2>2. CASE ~(~shuttingDown /\ hasTasks /\ allTasksTerminal)
      <3>1. /\ UNCHANGED <<state, cmd, timer, shuttingDown, jobs, spawns>>
            /\ mpc = "top" /\ mpc' = IF shuttingDown /\ noneRunning THEN "returned" ELSE "select"
        BY <1>2, <2>2 DEF Top
      <3> QED
        BY <3>1 DEF JobsInv, OneJobPerUnit, ShutdownReachesAll, LoopEnds, noneRunning
    <2> QED
      BY <2>1, <2>2
  <1>3. CASE SelectSignal
    <2>1. CASE shuttingDown
      <3>1. /\ UNCHANGED <<state, cmd, timer, shuttingDown, jobs, spawns>>
            /\ mpc = "select" /\ mpc' = "top"
        BY <1>3, <2>1 DEF SelectSignal
      <3> QED
        BY <3>1 DEF JobsInv, OneJobPerUnit, ShutdownReachesAll, LoopEnds
    <2>2. CASE ~shuttingDown
      BY <1>3, <2>2, LoopShutdownJobs DEF SelectSignal
    <2> QED
      BY <2>1, <2>2
  <1>4. ASSUME NEW ev \in jobs, HandleExit(ev) PROVE JobsInv'
    BY <1>4, HandleExitJobs
  <1>5. ASSUME NEW j \in jobs, ChildExit(j) \/ Reap(j) PROVE JobsInv'
    <2>2. PICK phase \in {"exited", "event"}, code \in Nat :
              jobs' = (jobs \ {j}) \cup {[j EXCEPT !.phase = phase, !.code = code]}
      BY <1>5, ExitStepShape DEF TypeOK
    <2>3. j.phase # "event" /\ UNCHANGED <<mpc, state, cmd, timer, shuttingDown, spawns>>
      BY <1>5 DEF ChildExit, Reap, Live, unitVars
    <2> QED
      BY <2>2, <2>3, PhaseStepJobs
  <1>6. ASSUME NEW u \in Units, KillTimerFires(u) PROVE JobsInv'
    <2> DEFINE hit(j) == j.u = u /\ j.n = timer[u] /\ j.phase \in Live
               after(j) == IF hit(j) THEN [j EXCEPT !.phase = "killed"] ELSE j
    <2>1. /\ jobs' = {after(j) : j \in jobs}
          /\ timer' = [timer EXCEPT ![u] = 0]
          /\ UNCHANGED <<mpc, state, cmd, shuttingDown, spawns>>
      BY <1>6 DEF KillTimerFires
    <2>2. ASSUME NEW j \in jobs
          PROVE  /\ j \in Job /\ after(j).u = j.u /\ after(j).n = j.n
                 /\ after(j).phase = IF hit(j) THEN "killed" ELSE j.phase
      <3>1. j \in Job /\ "killed" \in Live \cup {"exited", "event"}
        BY DEF TypeOK, Live
      <3>2. CASE hit(j)
        BY <3>1, <3>2, PhaseChange
      <3>3. CASE ~hit(j)
        BY <3>1, <3>3
      <3> QED
        BY <3>2, <3>3
    <2> HIDE DEF after
    <2>3. OneJobPerUnit'
      <3>1. \A j, k \in jobs' : j.u = k.u => j = k
        BY <2>1, <2>2 DEF JobsInv, OneJobPerUnit
      <3>2. \A v \in Units : (\E j \in jobs' : j.u = v) <=> (\E j \in jobs : j.u = v)
        BY <2>1, <2>2
      <3>3. \A j \in jobs' : j.phase \in Live => cmd[j.u] = j.n
        BY <2>1, <2>2 DEF JobsInv, OneJobPerUnit
      <3> QED
        BY <2>1, <3>1, <3>2, <3>3 DEF JobsInv, OneJobPerUnit
    <2>4. ShutdownReachesAll'
      <3> SUFFICES ASSUME shuttingDown, NEW j \in jobs
                   PROVE  /\ after(j).phase # "alive"
                          /\ after(j).phase = "termed" => timer'[after(j).u] = after(j).n
        BY <2>1 DEF ShutdownReachesAll
      <3>1. j.phase # "alive" /\ (j.phase = "termed" => timer[j.u] = j.n)
        BY DEF JobsInv, ShutdownReachesAll
      <3>2. CASE hit(j)
        BY <2>2, <3>2
      <3>3. CASE ~hit(j)
        <4>1. j.phase = "termed" => j.u # u
          BY <3>1, <3>3 DEF Live
        <4>2. j.u \in Units
          BY DEF TypeOK, Job
        <4> QED
          BY <2>1, <2>2, <3>1, <3>3, <4>1, <4>2 DEF TypeOK
      <3> QED
        BY <3>2, <3>3
    <2>5. LoopEnds'
      <3>1. timer[u] # 0
        BY <1>6 DEF KillTimerFires
      <3>2. mpc = "start" => jobs' = {}
        BY <2>1 DEF JobsInv, LoopEnds
      <3>3. shuttingDown
        BY <3>1 DEF JobsInv, LoopEnds
      <3> QED
        BY <2>1, <3>2, <3>3 DEF JobsInv, LoopEnds, noneRunning
    <2> QED
      BY <2>3, <2>4, <2>5 DEF JobsInv
  <1>7. CASE Cancel \/ Tick
    BY <1>7, <1>a DEF Cancel, Tick, unitVars
  <1>8. CASE UNCHANGED vars
    BY <1>8, <1>a DEF vars, unitVars
  <1> QED
    BY <1>1, <1>2, <1>3, <1>4, <1>5, <1>6, <1>7, <1>8 DEF Next, Loop, Children

-----------------------------------------------------------------------------
(* The exit code.                                                          *)

(* While the other units keep their states and codes, so does the one that *)
(* explains a non-zero exit code: it is not running.                       *)
LEMMA ExitCodeWitness ==
    ASSUME ExitCodeHonest, exitCode # 0, NEW e \in Units, state[e] = "running",
           UNCHANGED <<cfg, exitCode>>,
           \A u \in Units : u # e => state'[u] = state[u] /\ lastCode'[u] = lastCode[u]
    PROVE  \E u \in Units :
              /\ lastCode'[u] = exitCode' /\ state'[u] \in {"abandoned", "stopped"}
              /\ cfg'[u].role = "task" \/ cfg'[u].onFailure = "terminate"
  <1>1. PICK w \in Units :
           /\ lastCode[w] = exitCode
           /\ state[w] \in {"abandoned", "stopped"}
           /\ cfg[w].role = "task" \/ cfg[w].onFailure = "terminate"
    BY DEF ExitCodeHonest
  <1>2. w # e
    BY <1>1
  <1>3. /\ lastCode'[w] = exitCode' /\ state'[w] \in {"abandoned", "stopped"}
        /\ cfg'[w].role = "task" \/ cfg'[w].onFailure = "terminate"
    BY <1>1, <1>2
  <1> QED
    BY <1>3

(* ExitCodeHonest is preserved by every step.                              *)
LEMMA ExitCodeStep == TypeOK /\ JobsInv /\ ExitCodeHonest /\ [Next]_vars => ExitCodeHonest'
  <1> SUFFICES ASSUME TypeOK, JobsInv, ExitCodeHonest, [Next]_vars PROVE ExitCodeHonest'
    OBVIOUS
  <1>a. ASSUME UNCHANGED <<cfg, state, exitCode, lastCode>> PROVE ExitCodeHonest'
    BY <1>a DEF ExitCodeHonest
  <1>1. ASSUME NEW ev \in jobs, HandleExit(ev) PROVE ExitCodeHonest'
    <2>1. /\ UNCHANGED cfg /\ ev.u \in Units /\ ev.code \in Nat /\ mpc = "select"
      BY <1>1 DEF HandleExit, TypeOK, Job
    <2>2. state[ev.u] = "running"
      BY <2>1 DEF JobsInv, OneJobPerUnit
    <2>3. ASSUME NEW s, state' = [state EXCEPT ![ev.u] = s], s # "abandoned",
                 UNCHANGED exitCode,
                 lastCode' = [lastCode EXCEPT ![ev.u] = ev.code] \/ UNCHANGED lastCode
          PROVE  ExitCodeHonest'
      <3>1. \A u \in Units : u # ev.u => state'[u] = state[u] /\ lastCode'[u] = lastCode[u]
        BY <2>1, <2>3 DEF TypeOK
      <3>2. state'[ev.u] # "abandoned"
        BY <2>1, <2>3 DEF TypeOK
      <3>3. ASSUME NEW u \in Units, state'[u] = "abandoned", lastCode'[u] # 0
            PROVE  exitCode' # 0
        BY <2>3, <3>1, <3>2, <3>3 DEF ExitCodeHonest
      <3>4. ASSUME exitCode' # 0
            PROVE  \E u \in Units :
                      /\ lastCode'[u] = exitCode' /\ state'[u] \in {"abandoned", "stopped"}
                      /\ cfg'[u].role = "task" \/ cfg'[u].onFailure = "terminate"
        BY <2>1, <2>2, <2>3, <3>1, <3>4, ExitCodeWitness
      <3> QED
        BY <3>3, <3>4 DEF ExitCodeHonest
    <2>4. ASSUME NEW s \in {"abandoned", "stopped"}, state' = [state EXCEPT ![ev.u] = s],
                 setExitCode(ev.code), lastCode' = [lastCode EXCEPT ![ev.u] = ev.code],
                 cfg[ev.u].role = "task" \/ cfg[ev.u].onFailure = "terminate"
          PROVE  ExitCodeHonest'
      <3>1. \A u \in Units : u # ev.u => state'[u] = state[u] /\ lastCode'[u] = lastCode[u]
        BY <2>1, <2>4 DEF TypeOK
      <3>2. state'[ev.u] = s /\ lastCode'[ev.u] = ev.code
        BY <2>1, <2>4 DEF TypeOK
      <3>3. ASSUME NEW u \in Units, state'[u] = "abandoned", lastCode'[u] # 0
            PROVE  exitCode' # 0
        BY <2>4, <3>1, <3>2, <3>3 DEF ExitCodeHonest, setExitCode
      <3>4. ASSUME exitCode' # 0
            PROVE  \E u \in Units :
                      /\ lastCode'[u] = exitCode' /\ state'[u] \in {"abandoned", "stopped"}
                      /\ cfg'[u].role = "task" \/ cfg'[u].onFailure = "terminate"
        <4>1. CASE exitCode # 0
          <5>1. exitCode' = exitCode
            BY <2>4, <4>1 DEF setExitCode
          <5> QED
            BY <2>1, <2>2, <3>1, <4>1, <5>1, ExitCodeWitness
        <4>2. CASE exitCode = 0
          <5>1. exitCode' = ev.code
            BY <2>4, <4>2 DEF setExitCode
          <5> QED
            BY <2>1, <2>4, <3>2, <5>1
        <4> QED
          BY <4>1, <4>2
      <3> QED
        BY <3>3, <3>4 DEF ExitCodeHonest
    <2>5. CASE ExitWhileShuttingDown(ev)
      BY <2>3, <2>5 DEF ExitWhileShuttingDown
    <2>6. CASE RestartUnit(ev)
      BY <2>3, <2>6 DEF RestartUnit
    <2>7. CASE CompleteUnit(ev)
      <3> DEFINE s == IF cfg[ev.u].role = "task" THEN "done" ELSE "stopped"
      <3>1. s # "abandoned"
        OBVIOUS
      <3>2. /\ state' = [state EXCEPT ![ev.u] = s] /\ UNCHANGED exitCode
            /\ lastCode' = [lastCode EXCEPT ![ev.u] = ev.code]
        BY <2>7 DEF CompleteUnit
      <3> HIDE DEF s
      <3> QED
        BY <2>3, <3>1, <3>2
    <2>8. CASE GiveUpUnit(ev)
      <3>1. lastCode' = [lastCode EXCEPT ![ev.u] = ev.code]
        BY <2>8 DEF GiveUpUnit
      <3>2. CASE ContinueWithout(ev) /\ cfg[ev.u].role = "task"
        BY <2>4, <3>1, <3>2 DEF ContinueWithout
      <3>3. CASE ContinueWithout(ev) /\ cfg[ev.u].role # "task"
        BY <2>3, <3>1, <3>3 DEF ContinueWithout
      <3>4. CASE Terminate(ev)
        BY <2>4, <3>1, <3>4 DEF Terminate
      <3> QED
        BY <2>8, <3>2, <3>3, <3>4 DEF GiveUpUnit
    <2> QED
      BY <1>1, <2>5, <2>6, <2>7, <2>8 DEF HandleExit
  <1>2. CASE Start \/ Top \/ SelectSignal
    BY <1>2, <1>a DEF Start, Top, SelectSignal
  <1>3. CASE Children \/ (\E u \in Units : KillTimerFires(u)) \/ Cancel \/ Tick
    BY <1>3, <1>a DEF Children, ChildExit, Reap, KillTimerFires, Cancel, Tick, unitVars
  <1>4. CASE UNCHANGED vars
    BY <1>4, <1>a DEF vars, unitVars
  <1> QED
    BY <1>1, <1>2, <1>3, <1>4 DEF Next, Loop

-----------------------------------------------------------------------------
(* The restart budget.                                                     *)

BudgetInv == HistoryCoversWindow /\ RestartBudget

(* Time alone, or pruning, never breaks the budget.                        *)
LEMMA BudgetKept ==
    ASSUME TypeOK, BudgetInv, UNCHANGED <<cfg, restarts>>, now' \in Nat, now <= now',
           NEW u \in Units, hist'[u] = hist[u] \/ (now' = now /\ hist'[u] = pruned(u))
    PROVE  /\ IsFiniteSet(restarts'[u])
           /\ recent(u)' \subseteq hist'[u] /\ hist'[u] \subseteq restarts'[u]
           /\ cfg'[u].window = 0 => restarts'[u] = {}
           /\ Cardinality(recent(u)') <= cfg'[u].max
  <1>1. /\ cfg[u] \in Policies /\ cfg[u].window \in Nat /\ cfg[u].max \in Nat
        /\ now \in Nat /\ restarts[u] \in SUBSET Restart
    BY ManagerAssumption DEF TypeOK, ValidPolicy
  <1>2. /\ IsFiniteSet(restarts[u])
        /\ recent(u) \subseteq hist[u] /\ hist[u] \subseteq restarts[u]
        /\ cfg[u].window = 0 => restarts[u] = {}
        /\ Cardinality(recent(u)) <= cfg[u].max
    BY DEF BudgetInv, HistoryCoversWindow, RestartBudget
  <1>3. recent(u)' \subseteq recent(u)
    BY <1>1 DEF recent, Restart
  <1>4. recent(u) \subseteq restarts[u]
    BY DEF recent
  <1>5. IsFiniteSet(recent(u))
    BY <1>2, <1>4, FS_Subset
  <1>6. /\ IsFiniteSet(recent(u)') /\ Cardinality(recent(u)') <= Cardinality(recent(u))
    BY <1>3, <1>5, FS_Subset
  <1>7. Cardinality(recent(u)') \in Nat /\ Cardinality(recent(u)) \in Nat
    BY <1>5, <1>6, FS_CardinalityType
  <1>8. recent(u)' \subseteq hist'[u] /\ hist'[u] \subseteq restarts[u]
    <2>1. CASE hist'[u] = hist[u]
      BY <1>2, <1>3, <2>1
    <2>2. CASE now' = now /\ hist'[u] = pruned(u)
      BY <1>2, <2>2 DEF pruned, recent
    <2> QED
      BY <2>1, <2>2
  <1> QED
    BY <1>1, <1>2, <1>6, <1>7, <1>8

(* A permitted restart (manager.go:49-67) stays within the budget.         *)
LEMMA RestartKeepsBudget ==
    ASSUME TypeOK, BudgetInv, NEW ev \in jobs, RestartUnit(ev), UNCHANGED <<cfg, now>>
    PROVE  BudgetInv'
  <1> DEFINE u == ev.u
             r == [n |-> spawns[u] + 1, t |-> now]
  <1>1. u \in Units
    BY DEF TypeOK, Job
  <1>2. /\ hist' = [hist EXCEPT ![u] = pruned(u) \cup {r}]
        /\ restarts' = [restarts EXCEPT ![u] = restarts[u] \cup {r}]
        /\ warrantsRestart(cfg[u].restart, ev.code) /\ Cardinality(pruned(u)) < cfg[u].max
    BY DEF RestartUnit, allow
  <1>3. /\ ValidPolicy(cfg[u]) /\ cfg[u].window \in Nat /\ cfg[u].max \in Nat /\ now \in Nat
    BY <1>1, ManagerAssumption DEF TypeOK, ValidPolicy
  <1>4. /\ IsFiniteSet(restarts[u])
        /\ recent(u) \subseteq hist[u] /\ hist[u] \subseteq restarts[u]
        /\ cfg[u].window = 0 => restarts[u] = {}
    BY <1>1 DEF BudgetInv, HistoryCoversWindow
  <1>5. pruned(u) \subseteq restarts[u]
    BY <1>4 DEF pruned
  <1>6. IsFiniteSet(pruned(u)) /\ Cardinality(pruned(u)) \in Nat
    BY <1>4, <1>5, FS_Subset, FS_CardinalityType
  <1>7. cfg[u].window > 0
    <2>1. cfg[u].restart # "no"
      BY <1>2 DEF warrantsRestart
    <2>2. cfg[u].max > 0
      BY <1>2, <1>3, <1>6
    <2> QED
      BY <1>3, <2>1, <2>2 DEF ValidPolicy
  <1>8. pruned(u) = recent(u)
    BY <1>3, <1>4, <1>7 DEF pruned, recent
  <1> HIDE DEF r
  <1>9. r.t = now
    BY DEF r
  <1>10. /\ restarts'[u] = restarts[u] \cup {r} /\ hist'[u] = pruned(u) \cup {r}
         /\ \A v \in Units : v # u => restarts'[v] = restarts[v] /\ hist'[v] = hist[v]
    BY <1>1, <1>2 DEF TypeOK
  <1>11. recent(u)' = pruned(u) \cup {r}
    <2>1. recent(u)' = {x \in restarts[u] \cup {r} : x.t > now - cfg[u].window}
      BY <1>10 DEF recent
    <2> QED
      BY <1>3, <1>7, <1>8, <1>9, <2>1 DEF recent
  <1>12. /\ IsFiniteSet(restarts'[u])
         /\ recent(u)' \subseteq hist'[u] /\ hist'[u] \subseteq restarts'[u]
         /\ cfg'[u].window # 0
    <2>1. IsFiniteSet(restarts'[u])
      <3>1. IsFiniteSet(restarts[u])
        BY <1>4
      <3>2. IsFiniteSet(restarts[u] \cup {r})
        BY <3>1, FS_AddElement
      <3> QED
        BY <1>10, <3>2
    <2>2. recent(u)' \subseteq hist'[u]
      BY <1>10, <1>11
    <2>3. hist'[u] \subseteq restarts'[u]
      BY <1>5, <1>10
    <2>4. cfg'[u].window # 0
      BY <1>3, <1>7
    <2> QED
      BY <2>1, <2>2, <2>3, <2>4
  <1>13. Cardinality(recent(u)') <= cfg'[u].max
    <2>1. \/ Cardinality(pruned(u) \cup {r}) = Cardinality(pruned(u))
          \/ Cardinality(pruned(u) \cup {r}) = Cardinality(pruned(u)) + 1
      BY <1>6, FS_AddElement
    <2> QED
      BY <1>2, <1>3, <1>6, <1>11, <2>1
  <1> HIDE DEF u
  <1>14. ASSUME NEW v \in Units, v # u
         PROVE  /\ IsFiniteSet(restarts'[v])
                /\ recent(v)' \subseteq hist'[v] /\ hist'[v] \subseteq restarts'[v]
                /\ cfg'[v].window = 0 => restarts'[v] = {}
                /\ Cardinality(recent(v)') <= cfg'[v].max
    <2>1. restarts'[v] = restarts[v] /\ hist'[v] = hist[v]
      BY <1>10, <1>14
    <2>2. recent(v)' = recent(v)
      BY <2>1 DEF recent
    <2> QED
      BY <2>1, <2>2 DEF BudgetInv, HistoryCoversWindow, RestartBudget
  <1> QED
    BY <1>12, <1>13, <1>14 DEF BudgetInv, HistoryCoversWindow, RestartBudget

(* Every step keeps the restart history sufficient and within its cap.     *)
LEMMA BudgetStep == TypeOK /\ BudgetInv /\ [Next]_vars => BudgetInv'
  <1> SUFFICES ASSUME TypeOK, BudgetInv, [Next]_vars PROVE BudgetInv'
    OBVIOUS
  <1>a. ASSUME UNCHANGED <<cfg, restarts>>, now' \in Nat, now <= now',
               \A u \in Units : hist'[u] = hist[u] \/ (now' = now /\ hist'[u] = pruned(u))
        PROVE  BudgetInv'
    <2>1. \A u \in Units :
              /\ IsFiniteSet(restarts'[u])
              /\ recent(u)' \subseteq hist'[u] /\ hist'[u] \subseteq restarts'[u]
              /\ cfg'[u].window = 0 => restarts'[u] = {}
              /\ Cardinality(recent(u)') <= cfg'[u].max
      BY <1>a, BudgetKept
    <2> QED
      BY <2>1 DEF BudgetInv, HistoryCoversWindow, RestartBudget
  <1>b. now \in Nat
    BY DEF TypeOK
  <1>c. ASSUME UNCHANGED <<cfg, restarts, hist, now>> PROVE BudgetInv'
    BY <1>a, <1>b, <1>c
  <1>1. ASSUME NEW ev \in jobs, HandleExit(ev) PROVE BudgetInv'
    <2>1. UNCHANGED <<cfg, now>> /\ ev.u \in Units
      BY <1>1 DEF HandleExit, TypeOK, Job
    <2>2. CASE RestartUnit(ev)
      BY <2>1, <2>2, RestartKeepsBudget
    <2>3. CASE ExitWhileShuttingDown(ev) \/ CompleteUnit(ev)
      BY <1>c, <2>1, <2>3 DEF ExitWhileShuttingDown, CompleteUnit
    <2>4. CASE GiveUpUnit(ev)
      <3>1. UNCHANGED restarts /\ (hist' = hist \/ hist' = [hist EXCEPT ![ev.u] = pruned(ev.u)])
        BY <2>4 DEF GiveUpUnit
      <3>2. \A u \in Units : hist'[u] = hist[u] \/ hist'[u] = pruned(u)
        BY <2>1, <3>1 DEF TypeOK
      <3> QED
        BY <1>a, <1>b, <2>1, <3>1, <3>2
    <2> QED
      BY <1>1, <2>2, <2>3, <2>4 DEF HandleExit
  <1>2. CASE Start \/ Top \/ SelectSignal
    BY <1>2, <1>c DEF Start, Top, SelectSignal
  <1>3. CASE Children \/ (\E u \in Units : KillTimerFires(u)) \/ Cancel
    BY <1>3, <1>c DEF Children, ChildExit, Reap, KillTimerFires, Cancel, unitVars
  <1>4. CASE Tick
    BY <1>4, <1>a, <1>b DEF Tick, unitVars
  <1>5. CASE UNCHANGED vars
    BY <1>5, <1>c DEF vars, unitVars
  <1> QED
    BY <1>1, <1>2, <1>3, <1>4, <1>5 DEF Next, Loop

-----------------------------------------------------------------------------

(* Spec => []IInv: the inductive invariant behind the theorems below       *)
(* (manager.go as a whole).                                                *)
THEOREM IInvHolds == Spec => []IInv
  <1>1. ASSUME Init PROVE IInv
    <2>1. TypeOK
      BY <1>1, InitType
    <2>2. JobsInv
      BY <1>1 DEF Init, JobsInv, OneJobPerUnit, ShutdownReachesAll, LoopEnds
    <2>3. ExitCodeHonest
      BY <1>1 DEF Init, ExitCodeHonest
    <2>4. \A u \in Units : restarts[u] = {} /\ hist[u] = {} /\ recent(u) = {}
      BY <1>1 DEF Init, recent
    <2>5. \A u \in Units : cfg[u].max \in Nat
      BY <2>1, ManagerAssumption DEF TypeOK, ValidPolicy
    <2>6. BudgetInv
      BY <2>4, <2>5, FS_EmptySet DEF BudgetInv, HistoryCoversWindow, RestartBudget
    <2> QED
      BY <2>1, <2>2, <2>3, <2>6 DEF IInv, JobsInv, BudgetInv
  <1>2. IInv /\ [Next]_vars => IInv'
    BY TypeStep, JobsStep, ExitCodeStep, BudgetStep DEF IInv, JobsInv, BudgetInv
  <1> QED
    BY <1>1, <1>2, PTL DEF Spec

(* The manager's marks and the processes agree (manager.go:29-37, 69-87),  *)
(* for any interleaving of exits, restarts, start failures and shutdown.   *)
THEOREM OneJobPerUnitHolds == Spec => []OneJobPerUnit
  <1>1. IInv => OneJobPerUnit
    BY DEF IInv
  <1> QED
    BY <1>1, IInvHolds, PTL

(* Run never returns with a process alive or an exit unhandled             *)
(* (manager.go:184-186).                                                   *)
THEOREM NoChildLeftBehindHolds == Spec => []NoChildLeftBehind
  <1>1. IInv => NoChildLeftBehind
    <2> SUFFICES ASSUME IInv, mpc = "returned", NEW j \in jobs PROVE FALSE
      BY DEF NoChildLeftBehind
    <2>1. j.u \in Units
      BY DEF IInv, TypeOK, Job
    <2> QED
      BY <2>1 DEF IInv, OneJobPerUnit, LoopEnds, noneRunning
  <1> QED
    BY <1>1, IInvHolds, PTL

(* A shutdown signals every live child and arms its escalation             *)
(* (manager.go:377-396).                                                   *)
THEOREM ShutdownReachesAllHolds == Spec => []ShutdownReachesAll
  <1>1. IInv => ShutdownReachesAll
    BY DEF IInv
  <1> QED
    BY <1>1, IInvHolds, PTL

(* The crash-loop cap (manager.go:39-67) holds in every window, for every  *)
(* max_restarts and restart_window config.go accepts.                      *)
THEOREM RestartBudgetHolds == Spec => []RestartBudget
  <1>1. IInv => RestartBudget
    BY DEF IInv
  <1> QED
    BY <1>1, IInvHolds, PTL

(* The exit code is that of a unit that failed and counts                  *)
(* (manager.go:354-375, 398-404).                                          *)
THEOREM ExitCodeHonestHolds == Spec => []ExitCodeHonest
  <1>1. IInv => ExitCodeHonest
    BY DEF IInv
  <1> QED
    BY <1>1, IInvHolds, PTL

(* Nothing is spawned once a shutdown has begun (manager.go:306-324).      *)
THEOREM NoSpawnInShutdownHolds == Spec => NoSpawnInShutdown
  <1>1. ASSUME IInv, [Next]_vars, shuttingDown PROVE spawns' = spawns
    <2>1. ~Start
      BY <1>1 DEF Start, IInv, LoopEnds
    <2>2. \A ev \in jobs : HandleExit(ev) => UNCHANGED spawns
      BY <1>1 DEF HandleExit, ExitWhileShuttingDown, RestartUnit, CompleteUnit, GiveUpUnit
    <2> QED
      BY <1>1, <2>1, <2>2
         DEF Next, Loop, Top, SelectSignal, Children, ChildExit, Reap, KillTimerFires,
             Cancel, Tick, vars
  <1>2. IInv /\ [Next]_vars => [shuttingDown => spawns' = spawns]_vars
    BY <1>1
  <1> QED
    BY <1>2, IInvHolds, PTL DEF Spec, NoSpawnInShutdown
=============================================================================
