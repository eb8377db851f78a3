------------------------------ MODULE Outbound ------------------------------
(***************************************************************************)
(* The outbound server's listeners (internal/outbound/server.go) and the   *)
(* reference-counted log_relay sinks they own (internal/outbound/          *)
(* logrelay.go): construction and Start, the two-phase reload              *)
(* (PrepareApply, then CommitApply or AbortApply), the serial log_relay    *)
(* connection handlers that run beside it, and Shutdown.                   *)
(*                                                                         *)
(* Generation 0 is the configuration the daemon starts with, generation g  *)
(* that of the g-th reload.  A listener object is <<port, generation that  *)
(* created it>>; the sink opened for a port is <<port, generation>>; the   *)
(* settings of a listener (matchers, upstream or relayState) are the       *)
(* generation they come from.                                              *)
(*                                                                         *)
(* Reload and Shutdown exclude each other (App.reloadMu), so their         *)
(* progress is one program counter.  Connections of http and tcp listeners *)
(* have goroutines of their own and are not part of this module.           *)
(***************************************************************************)
EXTENDS Integers, FiniteSets

CONSTANTS
    Ports,       \* vsock ports that a configuration may mention
    Configs,     \* configurations: a mode for each port, or "off"
    MaxReloads   \* bound: reloads attempted

Modes == {"http", "tcp", "log"}

ASSUME OutboundAssumption ==
    /\ IsFiniteSet(Ports)
    /\ Configs \subseteq [Ports -> Modes \cup {"off"}]
    /\ MaxReloads \in Nat

Gens == 0 .. MaxReloads
Listeners == Ports \X Gens
Sinks == Ports \X Gens
Nil == -1

VARIABLES
    pc,        \* where New/Start, Reload or Shutdown is
    gen,       \* the last generation
    new,       \* the configuration of that generation
    todo,      \* its ports still to be constructed, staged or bound
    swaps,     \* ApplyPlan.swaps: ports whose new settings wait for commit
    newBinds,  \* ApplyPlan.newBinds: ports of new listeners without a loop
    job,       \* a close() or swap in progress: unlink or release
    listeners, \* Server.listeners: the generation of each port's object
    mode,      \* listener.mode
    live,      \* listener.relay (or matchers, upstream): its settings
    bound,     \* listeners whose socket is open (and done not closed)
    refs,      \* refSink.n
    open,      \* sinks whose file is open
    loop,      \* where each listener's accept loop is
    snap,      \* handleLogRelay's st: the settings it has loaded
    tracked,   \* listeners whose connection is in activeConn
    severed,   \* listeners whose connection Shutdown has closed
    committed  \* history: the generation and configuration in force

planVars == <<gen, new, todo, swaps, newBinds>>
sinkVars == <<refs, open>>
connVars == <<loop, snap, tracked, severed>>
vars == <<pc, planVars, job, listeners, mode, live, bound, sinkVars, connVars, committed>>

NoJob == [op |-> "none"]

Init ==
    /\ pc = "construct"
    /\ gen = 0
    /\ new \in Configs
    /\ todo = {p \in Ports : new[p] # "off"}
    /\ swaps = {} /\ newBinds = {}
    /\ job = NoJob
    /\ listeners = [p \in Ports |-> Nil]
    /\ mode = [l \in Listeners |-> "off"]
    /\ live = [l \in Listeners |-> Nil]
    /\ bound = {}
    /\ refs = [s \in Sinks |-> 0] /\ open = {}
    /\ loop = [l \in Listeners |-> "off"]
    /\ snap = [l \in Listeners |-> Nil]
    /\ tracked = {} /\ severed = {}
    /\ committed = [gen |-> Nil, config |-> [p \in Ports |-> "off"]]

-----------------------------------------------------------------------------
(* Sinks.                                                                  *)

(* openSink and newRefSink: the listener's own reference.                  *)
OpenSink(s) ==
    /\ refs' = [refs EXCEPT ![s] = 1]
    /\ open' = open \cup {s}

(* n-- under the mutex and, for the last reference, Close: one step, since *)
(* acquire refuses a sink whose count is zero and nobody else looks.       *)
Release(s) ==
    /\ refs' = [refs EXCEPT ![s] = @ - 1]
    /\ open' = IF refs[s] = 1 THEN open \ {s} ELSE open

(* Every sink in ss has one reference, of an object nobody else has seen.  *)
ReleaseAll(ss) ==
    /\ refs' = [s \in Sinks |-> IF s \in ss THEN refs[s] - 1 ELSE refs[s]]
    /\ open' = open \ {s \in ss : refs[s] = 1}

-----------------------------------------------------------------------------
(* NewServer and Start.                                                    *)

(* Sections are walked in this order: outbound, vsock_to_tcp, log_relay.   *)
Rank(m) == CASE m = "http" -> 1 [] m = "tcp" -> 2 [] m = "log" -> 3

IsNext(p) == p \in todo /\ \A q \in todo : Rank(new[p]) <= Rank(new[q])

Obj(p) == <<p, gen>>

ConstructListener(p) ==
    /\ pc = "construct" /\ IsNext(p)
    /\ listeners' = [listeners EXCEPT ![p] = gen]
    /\ mode' = [mode EXCEPT ![Obj(p)] = new[p]]
    /\ live' = [live EXCEPT ![Obj(p)] = gen]
    /\ IF new[p] = "log" THEN OpenSink(Obj(p)) ELSE UNCHANGED sinkVars
    /\ todo' = todo \ {p}
    /\ UNCHANGED <<pc, gen, new, swaps, newBinds, job, bound, connVars, committed>>

(* close() of the listeners ls, none of which has an accept loop.          *)
CloseUnstarted(ls) ==
    /\ bound' = bound \ ls
    /\ live' = [l \in Listeners |-> IF l \in ls /\ mode[l] = "log" THEN Nil ELSE live[l]]

OwnLogSinks(ls) == {l \in ls : mode[l] = "log"}

Built == {<<p, listeners[p]>> : p \in {q \in Ports : listeners[q] # Nil}}

(* A sink or matcher cannot be built: closeLogRelaySinks rolls back.       *)
ConstructFail(p) ==
    /\ pc = "construct" /\ IsNext(p)
    /\ live' = [l \in Listeners |-> IF l \in OwnLogSinks(Built) THEN Nil ELSE live[l]]
    /\ ReleaseAll(OwnLogSinks(Built))
    /\ pc' = "dead"
    /\ UNCHANGED <<planVars, job, listeners, mode, bound, connVars, committed>>

StartBinding ==
    /\ pc = "construct" /\ todo = {}
    /\ pc' = "bind" /\ todo' = {p \in Ports : new[p] # "off"}
    /\ UNCHANGED <<gen, new, swaps, newBinds, job, listeners, mode, live, bound, sinkVars,
                   connVars, committed>>

Bind(p) ==
    /\ pc = "bind" /\ IsNext(p)
    /\ bound' = bound \cup {Obj(p)}
    /\ todo' = todo \ {p}
    /\ UNCHANGED <<pc, gen, new, swaps, newBinds, job, listeners, mode, live, sinkVars,
                   connVars, committed>>

BindFail(p) ==
    /\ pc = "bind" /\ IsNext(p)
    /\ CloseUnstarted(Built)
    /\ ReleaseAll(OwnLogSinks(Built))
    /\ pc' = "dead"
    /\ UNCHANGED <<planVars, job, listeners, mode, connVars, committed>>

StartLoops ==
    /\ pc = "bind" /\ todo = {}
    /\ loop' = [l \in Listeners |-> IF l \in bound THEN "accept" ELSE loop[l]]
    /\ committed' = [gen |-> gen, config |-> new]
    /\ pc' = "idle"
    /\ UNCHANGED <<planVars, job, listeners, mode, live, bound, sinkVars, snap, tracked, severed>>

-----------------------------------------------------------------------------
(* PrepareApply: stage the next configuration, one entry at a time.        *)

BeginReload(c) ==
    /\ pc = "idle" /\ gen < MaxReloads
    /\ gen' = gen + 1 /\ new' = c
    /\ todo' = {p \in Ports : c[p] # "off"}
    /\ swaps' = {} /\ newBinds' = {}
    /\ pc' = "stage"
    /\ UNCHANGED <<job, listeners, mode, live, bound, sinkVars, connVars, committed>>

Current(p) == <<p, listeners[p]>>

StageSwap(p) ==
    /\ pc = "stage" /\ IsNext(p)
    /\ listeners[p] # Nil /\ mode[Current(p)] = new[p]
    /\ swaps' = swaps \cup {p}
    /\ IF new[p] = "log" THEN OpenSink(Obj(p)) ELSE UNCHANGED sinkVars
    /\ todo' = todo \ {p}
    /\ UNCHANGED <<pc, gen, new, newBinds, job, listeners, mode, live, bound, connVars, committed>>

StageBind(p) ==
    /\ pc = "stage" /\ IsNext(p) /\ listeners[p] = Nil
    /\ mode' = [mode EXCEPT ![Obj(p)] = new[p]]
    /\ live' = [live EXCEPT ![Obj(p)] = gen]
    /\ bound' = bound \cup {Obj(p)}
    /\ IF new[p] = "log" THEN OpenSink(Obj(p)) ELSE UNCHANGED sinkVars
    /\ newBinds' = newBinds \cup {p}
    /\ todo' = todo \ {p}
    /\ UNCHANGED <<pc, gen, new, swaps, job, listeners, connVars, committed>>

StagedSinks == {Obj(p) : p \in {q \in swaps \cup newBinds : new[q] = "log"}}

Staged == {Obj(p) : p \in newBinds}

(* cleanup and AbortApply: close the new listeners and release the sinks   *)
(* of the swaps.                                                           *)
DiscardPlan ==
    /\ CloseUnstarted(Staged)
    /\ ReleaseAll(StagedSinks)

EndReload ==
    /\ pc' = "idle" /\ todo' = {} /\ swaps' = {} /\ newBinds' = {}
    /\ UNCHANGED <<gen, new>>

(* An entry fails: its listener cannot be built (a sink does not open), or *)
(* its port runs in another mode, or does not bind.  What its constructor  *)
(* opened is released again.                                               *)
StageFail(p) ==
    /\ pc = "stage" /\ IsNext(p)
    /\ DiscardPlan
    /\ EndReload
    /\ UNCHANGED <<job, listeners, mode, connVars, committed>>

AbortApply ==
    /\ pc = "stage" /\ todo = {}
    /\ DiscardPlan
    /\ EndReload
    /\ UNCHANGED <<job, listeners, mode, connVars, committed>>

-----------------------------------------------------------------------------
(* CommitApply.                                                            *)

BeginCommit ==
    /\ pc = "stage" /\ todo = {}
    /\ pc' = "swap"
    /\ UNCHANGED <<planVars, job, listeners, mode, live, bound, sinkVars, connVars, committed>>

(* The new settings are stored; for log_relay, the old sink's reference is *)
(* still to be released.                                                   *)
CommitSwap(p) ==
    /\ pc = "swap" /\ job = NoJob /\ p \in swaps
    /\ swaps' = swaps \ {p}
    /\ live' = [live EXCEPT ![Current(p)] = gen]
    /\ job' = IF new[p] = "log" THEN [op |-> "release", s |-> <<p, live[Current(p)]>>] ELSE NoJob
    /\ UNCHANGED <<pc, gen, new, todo, newBinds, listeners, mode, bound, sinkVars, connVars,
                   committed>>

CommitStart ==
    /\ pc = "swap" /\ job = NoJob /\ swaps = {}
    /\ loop' = [l \in Listeners |-> IF l \in Staged THEN "accept" ELSE loop[l]]
    /\ pc' = "close"
    /\ UNCHANGED <<planVars, job, listeners, mode, live, bound, sinkVars, snap, tracked, severed,
                   committed>>

(* close() of a running listener: done and the socket, then closeSink,     *)
(* which unlinks the relayState and releases its sink.                     *)
CloseListener(l) ==
    /\ job = NoJob
    /\ bound' = bound \ {l}
    /\ job' = IF mode[l] = "log" THEN [op |-> "unlink", l |-> l] ELSE NoJob

CommitClose(p) ==
    /\ pc = "close" /\ new[p] = "off" /\ listeners[p] # Nil /\ Current(p) \in bound
    /\ CloseListener(Current(p))
    /\ UNCHANGED <<pc, planVars, listeners, mode, live, sinkVars, connVars, committed>>

JobUnlink ==
    /\ job.op = "unlink"
    /\ job' = [op |-> "release", s |-> <<job.l[1], live[job.l]>>]
    /\ live' = [live EXCEPT ![job.l] = Nil]
    /\ UNCHANGED <<pc, planVars, listeners, mode, bound, sinkVars, connVars, committed>>

JobRelease ==
    /\ job.op = "release"
    /\ Release(job.s)
    /\ job' = NoJob
    /\ UNCHANGED <<pc, planVars, listeners, mode, live, bound, connVars, committed>>

CommitEndKeepsRemoved ==
    /\ pc = "close" /\ job = NoJob
    /\ listeners' = [p \in Ports |-> IF p \in newBinds THEN gen ELSE listeners[p]]
    /\ committed' = [gen |-> gen, config |-> new]
    /\ EndReload
    /\ UNCHANGED <<job, mode, live, bound, sinkVars, connVars>>

(* s.listeners = p.next.                                                   *)
CommitEnd ==
    /\ pc = "close" /\ job = NoJob
    /\ \A p \in Ports : new[p] = "off" /\ listeners[p] # Nil => Current(p) \notin bound
    /\ listeners' = [p \in Ports |-> IF new[p] = "off" THEN Nil
                                     ELSE IF p \in newBinds THEN gen ELSE listeners[p]]
    /\ committed' = [gen |-> gen, config |-> new]
    /\ EndReload
    /\ UNCHANGED <<job, mode, live, bound, sinkVars, connVars>>

-----------------------------------------------------------------------------
(* Shutdown.                                                               *)

Shutdown ==
    /\ pc = "idle" /\ pc' = "shutdown"
    /\ UNCHANGED <<planVars, job, listeners, mode, live, bound, sinkVars, connVars, committed>>

ShutdownClose(p) ==
    /\ pc = "shutdown" /\ listeners[p] # Nil /\ Current(p) \in bound
    /\ CloseListener(Current(p))
    /\ UNCHANGED <<pc, planVars, listeners, mode, live, sinkVars, connVars, committed>>

ShutdownWait ==
    /\ pc = "shutdown" /\ job = NoJob
    /\ \A p \in Ports : listeners[p] # Nil => Current(p) \notin bound
    /\ pc' = "wait"
    /\ UNCHANGED <<planVars, job, listeners, mode, live, bound, sinkVars, connVars, committed>>

(* The grace period is over: every tracked connection is closed.           *)
GraceExpires ==
    /\ pc = "wait" /\ pc' = "forced"
    /\ severed' = severed \cup tracked
    /\ UNCHANGED <<planVars, job, listeners, mode, live, bound, sinkVars, loop, snap, tracked,
                   committed>>

(* wg.Wait returns: no accept loop, and so no relay, is left.              *)
ShutdownReturn ==
    /\ pc \in {"wait", "forced"} /\ pc' = "returned"
    /\ \A l \in Listeners : loop[l] \in {"off", "exited"}
    /\ UNCHANGED <<planVars, job, listeners, mode, live, bound, sinkVars, connVars, committed>>

-----------------------------------------------------------------------------
(* The accept loop of a listener; log_relay handles its connections        *)
(* inline.  A temporary Accept error leaves the loop where it is.          *)

ServerUnchanged ==
    UNCHANGED <<pc, planVars, job, listeners, mode, live, bound, committed>>

LoopGoto(l, point) == loop' = [loop EXCEPT ![l] = point]

Accept(l) ==
    /\ loop[l] = "accept" /\ l \in bound /\ mode[l] = "log"
    /\ LoopGoto(l, "track")
    /\ severed' = severed \ {l}
    /\ ServerUnchanged /\ UNCHANGED <<sinkVars, snap, tracked>>

AcceptClosed(l) ==
    /\ loop[l] = "accept" /\ l \notin bound
    /\ LoopGoto(l, "exited")
    /\ ServerUnchanged /\ UNCHANGED <<sinkVars, snap, tracked, severed>>

NoTrackConn(l) ==
    /\ loop[l] = "track"
    /\ LoopGoto(l, "load")
    /\ ServerUnchanged /\ UNCHANGED <<sinkVars, snap, tracked, severed>>

TrackConn(l) ==
    /\ loop[l] = "track"
    /\ tracked' = tracked \cup {l}
    /\ LoopGoto(l, "load")
    /\ ServerUnchanged /\ UNCHANGED <<sinkVars, snap, severed>>

Load(l) ==
    /\ loop[l] = "load"
    /\ snap' = [snap EXCEPT ![l] = live[l]]
    /\ LoopGoto(l, IF live[l] = Nil THEN "untrack" ELSE "acquire")
    /\ ServerUnchanged /\ UNCHANGED <<sinkVars, tracked, severed>>

SinkOf(l) == <<l[1], snap[l]>>

AcquireUnchecked(l) ==
    /\ loop[l] = "acquire"
    /\ LoopGoto(l, "relay")
    /\ refs' = [refs EXCEPT ![SinkOf(l)] = @ + 1]
    /\ ServerUnchanged /\ UNCHANGED <<open, snap, tracked, severed>>

(* acquire refuses a sink already released to zero; the handler retries.   *)
Acquire(l) ==
    /\ loop[l] = "acquire"
    /\ IF refs[SinkOf(l)] = 0
       THEN LoopGoto(l, "load") /\ UNCHANGED refs
       ELSE LoopGoto(l, "relay") /\ refs' = [refs EXCEPT ![SinkOf(l)] = @ + 1]
    /\ ServerUnchanged /\ UNCHANGED <<open, snap, tracked, severed>>

RelayEndNoRelease(l) ==
    /\ loop[l] = "relay"
    /\ LoopGoto(l, "untrack")
    /\ ServerUnchanged /\ UNCHANGED <<sinkVars, snap, tracked, severed>>

(* The peer closes, a read or a write fails, or Shutdown has closed the    *)
(* connection: the deferred release.                                       *)
RelayEnd(l) ==
    /\ loop[l] = "relay"
    /\ Release(SinkOf(l))
    /\ LoopGoto(l, "untrack")
    /\ ServerUnchanged /\ UNCHANGED <<snap, tracked, severed>>

UntrackConn(l) ==
    /\ loop[l] = "untrack"
    /\ tracked' = tracked \ {l}
    /\ LoopGoto(l, "accept")
    /\ ServerUnchanged /\ UNCHANGED <<sinkVars, snap, severed>>

-----------------------------------------------------------------------------

Boot ==
    \/ \E p \in Ports : ConstructListener(p) \/ ConstructFail(p) \/ Bind(p) \/ BindFail(p)
    \/ StartBinding \/ StartLoops

Prepare == \E p \in Ports : StageSwap(p) \/ StageBind(p) \/ StageFail(p)

Commit == (\E p \in Ports : CommitSwap(p) \/ CommitClose(p)) \/ CommitStart \/ CommitEnd

Stopping == (\E p \in Ports : ShutdownClose(p)) \/ ShutdownWait \/ ShutdownReturn

Jobs == JobUnlink \/ JobRelease

(* The steps of a handler that wait for nothing outside the daemon.        *)
Handler(l) ==
    \/ AcceptClosed(l) \/ TrackConn(l) \/ Load(l) \/ Acquire(l) \/ UntrackConn(l)
    \/ l \in severed /\ RelayEnd(l)

Next ==
    \/ Boot
    \/ \E c \in Configs : BeginReload(c)
    \/ Prepare \/ AbortApply \/ BeginCommit \/ Commit
    \/ Shutdown \/ Stopping \/ GraceExpires \/ Jobs
    \/ \E l \in Listeners : Accept(l) \/ RelayEnd(l) \/ Handler(l)

Spec == Init /\ [][Next]_vars

(* The goroutines are scheduled, the grace timer fires, and a read from a  *)
(* closed connection fails.  No peer is assumed to connect or to hang up.  *)
Fairness ==
    /\ WF_vars(Stopping \/ Jobs)
    /\ WF_vars(GraceExpires)
    /\ \A l \in Listeners : WF_vars(Handler(l))

FairSpec == Spec /\ Fairness

-----------------------------------------------------------------------------
(* Properties.                                                             *)

(* The shapes of the server's state; a reference count is never negative.  *)
TypeOK ==
    /\ pc \in {"construct", "bind", "dead", "idle", "stage", "swap", "close", "shutdown",
               "wait", "forced", "returned"}
    /\ gen \in Gens /\ new \in Configs
    /\ todo \subseteq Ports /\ swaps \subseteq Ports /\ newBinds \subseteq Ports
    /\ job \in {NoJob} \cup [op : {"unlink"}, l : Listeners] \cup [op : {"release"}, s : Sinks]
    /\ listeners \in [Ports -> Gens \cup {Nil}]
    /\ mode \in [Listeners -> Modes \cup {"off"}]
    /\ live \in [Listeners -> Gens \cup {Nil}]
    /\ bound \subseteq Listeners
    /\ refs \in [Sinks -> Nat] /\ open \subseteq Sinks
    /\ loop \in [Listeners -> {"off", "accept", "track", "load", "acquire", "relay", "untrack",
                               "exited"}]
    /\ snap \in [Listeners -> Gens \cup {Nil}]
    /\ tracked \subseteq Listeners /\ severed \subseteq Listeners

(* Who holds a reference to a sink: a log_relay listener whose relayState  *)
(* has it, a relay in progress, a staged swap and a release under way.     *)
ListenerHolds(s) == {l \in Listeners : mode[l] = "log" /\ <<l[1], live[l]>> = s}
RelayHolds(s) == {l \in Listeners : loop[l] = "relay" /\ SinkOf(l) = s}
PlanHolds(s) == {p \in swaps : new[p] = "log" /\ Obj(p) = s}
JobHolds(s) == {j \in {job} : j = [op |-> "release", s |-> s]}

(* The count of every sink is the number of its holders: no path of        *)
(* construction, reload, rollback, connection or shutdown takes or drops a *)
(* reference too many (logrelay.go refSink).                               *)
RefsExact ==
    \A s \in Sinks :
        refs[s] = Cardinality(ListenerHolds(s)) + Cardinality(RelayHolds(s))
                  + Cardinality(PlanHolds(s)) + Cardinality(JobHolds(s))

(* A file is open exactly while its sink is referenced: "without ever      *)
(* closing it out from under that relay", and a reload that fails or is    *)
(* aborted leaks no descriptor (logrelay.go:38-47, server.go:439-456).     *)
OpenIffReferenced == \A s \in Sinks : s \in open <=> refs[s] > 0

(* A connection being relayed writes to an open file, whatever reload or   *)
(* shutdown goes on beside it.                                             *)
NoWriteAfterClose == \A l \in Listeners : loop[l] = "relay" => SinkOf(l) \in open

(* A failed acquire is always answered by the next Load: the settings a    *)
(* listener offers are never a sink already released, so the retry loop of *)
(* handleLogRelay does not spin.                                           *)
NoDeadSettings ==
    \A l \in Listeners : mode[l] = "log" /\ live[l] # Nil => refs[<<l[1], live[l]>>] > 0

(* The state of the sinks at every step of a reload, its failure, a relay  *)
(* or a shutdown: counts are exact, files open accordingly, and no         *)
(* listener offers a released one.                                         *)
SinkInv == TypeOK /\ RefsExact /\ OpenIffReferenced /\ NoDeadSettings

(* Between reloads the server serves exactly the configuration last        *)
(* committed, whole: every port of it has its socket, its accept loop, its *)
(* mode and that configuration's settings, and no other socket is open.  A *)
(* failed reload changes nothing of this (app.go:223-233).                 *)
ServesCommitted ==
    pc = "idle" =>
        /\ bound = {Current(p) : p \in {q \in Ports : committed.config[q] # "off"}}
        /\ \A p \in Ports :
              IF committed.config[p] = "off" THEN listeners[p] = Nil
              ELSE /\ listeners[p] # Nil
                   /\ mode[Current(p)] = committed.config[p]
                   /\ live[Current(p)] = committed.gen
                   /\ loop[Current(p)] \notin {"off", "exited"}

(* A daemon that has stopped, or failed to start, holds no file and no     *)
(* socket.                                                                 *)
NothingLeftOpen == pc \in {"dead", "returned"} => open = {} /\ bound = {}

(* What is open is what is configured: the last committed configuration    *)
(* while the server runs, and nothing once it has ended.                   *)
OutboundConfigInv == ServesCommitted /\ NothingLeftOpen

(* Shutdown returns, also with peers that never hang up and with relays of *)
(* listeners that an earlier reload removed (server.go:474-507).           *)
ShutdownReturns == pc = "shutdown" ~> pc = "returned"

-----------------------------------------------------------------------------
(* The promise of module Server: what each port serves is the mode and the *)
(* settings of the one listener that is bound to it and has an accept      *)
(* loop.                                                                   *)

Phase ==
    CASE pc \in {"construct", "bind"} -> "new"
      [] pc = "dead" -> "failed"
      [] pc = "stage" -> "staged"
      [] pc \in {"swap", "close"} -> "committing"
      [] pc \in {"shutdown", "wait", "forced"} -> "stopping"
      [] pc = "returned" -> "stopped"
      [] OTHER -> pc

Unserved == <<>>

Accepting(p) == {l \in bound : l[1] = p /\ loop[l] # "off"}

Serving ==
    [p \in Ports |->
        IF Accepting(p) = {} THEN Unserved
        ELSE LET l == CHOOSE x \in Accepting(p) : TRUE IN <<mode[l], live[l]>>]

Plan ==
    [p \in Ports |->
        IF pc \in {"stage", "swap", "close"} /\ new[p] # "off" THEN <<new[p], gen>> ELSE Unserved]

S == INSTANCE Server WITH
        Keys <- Ports, Settings <- Modes \X Gens, Off <- Unserved,
        phase <- Phase, serving <- Serving, plan <- Plan,
        busy <- \E l \in Listeners : loop[l] \notin {"off", "accept", "exited"}

(* The outbound server keeps Server's promise: matchers, upstream and sink *)
(* of a port change only in a commit, together and straight to the new     *)
(* ones, and a commit ends with the whole new configuration served         *)
(* (server.go:215-470).                                                    *)
ImplementsServer == S!Spec
=============================================================================
