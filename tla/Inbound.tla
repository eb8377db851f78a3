------------------------------- MODULE Inbound ------------------------------
(***************************************************************************)
(* The inbound server's listeners (internal/inbound/server.go): Start, the *)
(* two-phase reload that swaps route tables under running connections, the *)
(* accept loops and Shutdown.  What a connection does after it has been    *)
(* routed, and how Shutdown forces it to end, is module Connection.        *)
(*                                                                         *)
(* Generation 0 is the configuration the daemon starts with, generation g  *)
(* that of the g-th reload.  A configuration gives each address an entry:  *)
(* an HTTP mode, whose route table is known by its generation, or the      *)
(* vsock target of a tcp_to_vsock listener.  A listener object is          *)
(* <<address, generation that created it>>.                                *)
(*                                                                         *)
(* Reload and Shutdown exclude each other (App.reloadMu), so their         *)
(* progress is one program counter.                                        *)
(***************************************************************************)
EXTENDS Integers, FiniteSets

CONSTANTS
    Addrs,       \* bind:port addresses that a configuration may mention
    Targets,     \* vsock targets (cid and port) of tcp_to_vsock
    Configs,     \* configurations: an entry for each address, or "off"
    Conns,       \* bound: connections open at a time
    MaxReloads   \* bound: reloads attempted

HTTPModes == {"http-host", "tls-sni"}

ASSUME InboundAssumption ==
    /\ IsFiniteSet(Addrs) /\ IsFiniteSet(Conns)
    /\ Targets \cap (HTTPModes \cup {"off"}) = {}
    /\ Configs \subseteq [Addrs -> HTTPModes \cup Targets \cup {"off"}]
    /\ MaxReloads \in Nat

Gens == 0 .. MaxReloads
Listeners == Addrs \X Gens
Nil == -1

VARIABLES
    pc,        \* where Start, Reload or Shutdown is
    gen,       \* the last generation
    new,       \* the configuration of that generation
    todo,      \* its addresses still to be bound or staged
    swaps,     \* ApplyPlan.swaps: kept addresses whose routes wait for commit
    newBinds,  \* ApplyPlan.newBinds: addresses of new listeners
    listeners, \* Server.listeners: the generation of each address's object
    entry,     \* listener.mode and, for tcp_to_vsock, its target
    routes,    \* listener.routes, by generation
    bound,     \* listeners whose socket is open
    loop,      \* where each accept loop is
    conn,      \* the connections
    committed  \* history: the generations committed, and the configuration

planVars == <<gen, new, todo, swaps, newBinds>>
vars == <<pc, planVars, listeners, entry, routes, bound, loop, conn, committed>>

NoConn == [at |-> "none"]

Mode(x) == IF x \in Targets THEN "tcp_to_vsock" ELSE x

Configured(c) == {a \in Addrs : c[a] # "off"}

(* NewServer has built the listeners; nothing is bound yet.                *)
Init ==
    /\ pc = "bind"
    /\ gen = 0
    /\ new \in Configs
    /\ todo = Configured(new)
    /\ swaps = {} /\ newBinds = {}
    /\ listeners = [a \in Addrs |-> IF new[a] = "off" THEN Nil ELSE 0]
    /\ entry = [l \in Listeners |-> IF l[2] = 0 THEN new[l[1]] ELSE "off"]
    /\ routes = [l \in Listeners |-> IF l[2] = 0 /\ new[l[1]] # "off" THEN 0 ELSE Nil]
    /\ bound = {}
    /\ loop = [l \in Listeners |-> "off"]
    /\ conn = [c \in Conns |-> NoConn]
    /\ committed = [gens |-> {}, config |-> [a \in Addrs |-> "off"]]

Obj(a) == <<a, gen>>
Current(a) == <<a, listeners[a]>>

(* Entries are walked in this order: inbound, then tcp_to_vsock.           *)
IsNext(a) ==
    /\ a \in todo
    /\ new[a] \in Targets => \A b \in todo : new[b] \in Targets

-----------------------------------------------------------------------------
(* Start.                                                                  *)

Bind(a) ==
    /\ pc = "bind" /\ IsNext(a)
    /\ bound' = bound \cup {Obj(a)}
    /\ todo' = todo \ {a}
    /\ UNCHANGED <<pc, gen, new, swaps, newBinds, listeners, entry, routes, loop, conn, committed>>

BindFail(a) ==
    /\ pc = "bind" /\ IsNext(a)
    /\ bound' = {}
    /\ pc' = "dead"
    /\ UNCHANGED <<planVars, listeners, entry, routes, loop, conn, committed>>

StartLoops ==
    /\ pc = "bind" /\ todo = {}
    /\ loop' = [l \in Listeners |-> IF l \in bound THEN "accept" ELSE loop[l]]
    /\ committed' = [gens |-> {gen}, config |-> new]
    /\ pc' = "idle"
    /\ UNCHANGED <<planVars, listeners, entry, routes, bound, conn>>

-----------------------------------------------------------------------------
(* PrepareApply.                                                           *)

BeginReload(c) ==
    /\ pc = "idle" /\ gen < MaxReloads
    /\ gen' = gen + 1 /\ new' = c
    /\ todo' = Configured(c)
    /\ swaps' = {} /\ newBinds' = {}
    /\ pc' = "stage"
    /\ UNCHANGED <<listeners, entry, routes, bound, loop, conn, committed>>

(* The listener's key (address and mode) exists; a tcp_to_vsock target     *)
(* must not change.                                                        *)
KeepableAnyTarget(a) == listeners[a] # Nil /\ Mode(entry[Current(a)]) = Mode(new[a])
Keepable(a) == listeners[a] # Nil /\ entry[Current(a)] = new[a]

StageKeepNow(a) ==
    /\ pc = "stage" /\ IsNext(a) /\ Keepable(a)
    /\ swaps' = swaps \cup {a} /\ todo' = todo \ {a}
    /\ routes' = [routes EXCEPT ![Current(a)] = gen]
    /\ UNCHANGED <<pc, gen, new, newBinds, listeners, entry, bound, loop, conn, committed>>

StageKeep(a) ==
    /\ pc = "stage" /\ IsNext(a) /\ Keepable(a)
    /\ swaps' = swaps \cup {a} /\ todo' = todo \ {a}
    /\ UNCHANGED <<pc, gen, new, newBinds, listeners, entry, routes, bound, loop, conn, committed>>

StageBind(a) ==
    /\ pc = "stage" /\ IsNext(a) /\ listeners[a] = Nil
    /\ newBinds' = newBinds \cup {a} /\ todo' = todo \ {a}
    /\ bound' = bound \cup {Obj(a)}
    /\ entry' = [entry EXCEPT ![Obj(a)] = new[a]]
    /\ routes' = [routes EXCEPT ![Obj(a)] = gen]
    /\ UNCHANGED <<pc, gen, new, swaps, listeners, loop, conn, committed>>

EndReload ==
    /\ pc' = "idle" /\ todo' = {} /\ swaps' = {} /\ newBinds' = {}
    /\ UNCHANGED <<gen, new>>

Staged == {Obj(a) : a \in newBinds}

(* cleanup and AbortApply.                                                 *)
DiscardPlan == bound' = bound \ Staged

(* Another mode or target on a bound address, or a bind that fails.        *)
StageFail(a) ==
    /\ pc = "stage" /\ IsNext(a) /\ ~Keepable(a)
    /\ DiscardPlan /\ EndReload
    /\ UNCHANGED <<listeners, entry, routes, loop, conn, committed>>

(* The outbound server's PrepareApply has failed.                          *)
AbortApply ==
    /\ pc = "stage" /\ todo = {}
    /\ DiscardPlan /\ EndReload
    /\ UNCHANGED <<listeners, entry, routes, loop, conn, committed>>

-----------------------------------------------------------------------------
(* CommitApply.                                                            *)

BeginCommit ==
    /\ pc = "stage" /\ todo = {}
    /\ pc' = "swap"
    /\ UNCHANGED <<planVars, listeners, entry, routes, bound, loop, conn, committed>>

CommitSwap(a) ==
    /\ pc = "swap" /\ a \in swaps
    /\ routes' = [routes EXCEPT ![Current(a)] = gen]
    /\ swaps' = swaps \ {a}
    /\ UNCHANGED <<pc, gen, new, todo, newBinds, listeners, entry, bound, loop, conn, committed>>

CommitStart ==
    /\ pc = "swap" /\ swaps = {}
    /\ loop' = [l \in Listeners |-> IF l \in Staged THEN "accept" ELSE loop[l]]
    /\ pc' = "close"
    /\ UNCHANGED <<planVars, listeners, entry, routes, bound, conn, committed>>

RemovedIfNotNew(a) == a \notin newBinds /\ listeners[a] # Nil

(* In p.existing and not in p.kept.                                        *)
Removed(a) == new[a] = "off" /\ listeners[a] # Nil

CommitClose(a) ==
    /\ pc = "close" /\ Removed(a) /\ Current(a) \in bound
    /\ bound' = bound \ {Current(a)}
    /\ UNCHANGED <<pc, planVars, listeners, entry, routes, loop, conn, committed>>

(* s.listeners = p.next.                                                   *)
CommitEnd ==
    /\ pc = "close" /\ \A a \in Addrs : Removed(a) => Current(a) \notin bound
    /\ listeners' = [a \in Addrs |-> IF new[a] = "off" THEN Nil
                                     ELSE IF a \in newBinds THEN gen ELSE listeners[a]]
    /\ committed' = [gens |-> committed.gens \cup {gen}, config |-> new]
    /\ EndReload
    /\ UNCHANGED <<entry, routes, bound, loop, conn>>

-----------------------------------------------------------------------------
(* Shutdown: the listeners in s.listeners, then every goroutine.           *)

Shutdown ==
    /\ pc = "idle" /\ pc' = "shutdown"
    /\ UNCHANGED <<planVars, listeners, entry, routes, bound, loop, conn, committed>>

ShutdownClose(a) ==
    /\ pc = "shutdown" /\ listeners[a] # Nil /\ Current(a) \in bound
    /\ bound' = bound \ {Current(a)}
    /\ UNCHANGED <<pc, planVars, listeners, entry, routes, loop, conn, committed>>

ShutdownReturn ==
    /\ pc = "shutdown" /\ \A a \in Addrs : listeners[a] # Nil => Current(a) \notin bound
    /\ \A l \in Listeners : loop[l] \in {"off", "exited"}
    /\ \A c \in Conns : conn[c].at = "none"
    /\ pc' = "returned"
    /\ UNCHANGED <<planVars, listeners, entry, routes, bound, loop, conn, committed>>

-----------------------------------------------------------------------------
(* Accept loops and connections.  A temporary Accept error leaves the loop *)
(* where it is.                                                            *)

ServerUnchanged == UNCHANGED <<pc, planVars, listeners, entry, routes, bound, committed>>

Accept(l, c) ==
    /\ loop[l] = "accept" /\ l \in bound /\ conn[c].at = "none"
    /\ conn' = [conn EXCEPT ![c] = [at |-> "sniff", l |-> l, used |-> Nil]]
    /\ ServerUnchanged /\ UNCHANGED loop

AcceptClosed(l) ==
    /\ loop[l] = "accept" /\ l \notin bound
    /\ loop' = [loop EXCEPT ![l] = "exited"]
    /\ ServerUnchanged /\ UNCHANGED conn

(* handle, after sniff: the table is loaded once, at this point; handleTCP *)
(* goes to the listener's target.                                          *)
Route(c) ==
    /\ conn[c].at = "sniff"
    /\ conn' = [conn EXCEPT ![c].at = "routed", ![c].used = routes[conn[c].l]]
    /\ ServerUnchanged /\ UNCHANGED loop

ConnEnd(c) ==
    /\ conn[c].at # "none"
    /\ conn' = [conn EXCEPT ![c] = NoConn]
    /\ ServerUnchanged /\ UNCHANGED loop

-----------------------------------------------------------------------------

Starting == (\E a \in Addrs : Bind(a) \/ BindFail(a)) \/ StartLoops

Prepare == \E a \in Addrs : StageKeep(a) \/ StageBind(a) \/ StageFail(a)

Commit ==
    (\E a \in Addrs : CommitSwap(a) \/ CommitClose(a)) \/ BeginCommit \/ CommitStart \/ CommitEnd

Next ==
    \/ Starting
    \/ \E c \in Configs : BeginReload(c)
    \/ Prepare \/ AbortApply \/ Commit
    \/ Shutdown \/ (\E a \in Addrs : ShutdownClose(a)) \/ ShutdownReturn
    \/ \E l \in Listeners : AcceptClosed(l) \/ \E c \in Conns : Accept(l, c)
    \/ \E c \in Conns : Route(c) \/ ConnEnd(c)

Spec == Init /\ [][Next]_vars

-----------------------------------------------------------------------------
(* Properties.                                                             *)

(* The shapes of the server's state; no address has two open sockets.      *)
TypeOK ==
    /\ pc \in {"bind", "dead", "idle", "stage", "swap", "close", "shutdown", "returned"}
    /\ gen \in Gens /\ new \in Configs
    /\ todo \subseteq Addrs /\ swaps \subseteq Addrs /\ newBinds \subseteq Addrs
    /\ listeners \in [Addrs -> Gens \cup {Nil}]
    /\ entry \in [Listeners -> HTTPModes \cup Targets \cup {"off"}]
    /\ routes \in [Listeners -> Gens \cup {Nil}]
    /\ bound \subseteq Listeners
    /\ \A k, l \in bound : k[1] = l[1] => k = l
    /\ loop \in [Listeners -> {"off", "accept", "exited"}]
    /\ \A c \in Conns :
          conn[c] \in {NoConn} \cup [at : {"sniff", "routed"}, l : Listeners,
                                     used : Gens \cup {Nil}]

(* Between reloads the server serves exactly the last committed            *)
(* configuration: every address of it has one open socket with an accept   *)
(* loop, that mode or that very target and the routes of the generation    *)
(* that was committed, and no other socket is open.  "A failed reload ...  *)
(* the running config is left untouched" (README.md:674-676).              *)
InboundServesCommitted ==
    pc = "idle" =>
        /\ bound = {Current(a) : a \in Configured(committed.config)}
        /\ \A a \in Addrs :
              IF committed.config[a] = "off" THEN listeners[a] = Nil
              ELSE /\ listeners[a] # Nil
                   /\ entry[Current(a)] = committed.config[a]
                   /\ routes[Current(a)] \in committed.gens
                   /\ \A g \in committed.gens : g <= routes[Current(a)]
                   /\ loop[Current(a)] = "accept"

(* A reload never interrupts an address that it keeps: its socket stays    *)
(* open through staging, commit, failure and abort.                        *)
KeptStaysBound ==
    \A a \in Addrs :
        /\ pc \in {"stage", "swap", "close"}
        /\ committed.config[a] # "off" /\ new[a] = committed.config[a]
        => Current(a) \in bound /\ loop[Current(a)] = "accept"

(* No connection is routed by the table of a reload that failed or was     *)
(* aborted: only by one that was committed, or whose commit has begun.     *)
RoutedByCommitted ==
    \A c \in Conns : conn[c].at = "routed" =>
        \/ conn[c].used \in committed.gens
        \/ conn[c].used = gen /\ pc \in {"swap", "close"}

(* A daemon that has stopped, or failed to start, holds no socket.         *)
NoSocketLeft == pc \in {"dead", "returned"} => bound = {}

(* What is open is what is configured, one socket to an address: the last  *)
(* committed configuration while the server runs, and nothing once it has  *)
(* ended.                                                                  *)
InboundConfigInv == TypeOK /\ InboundServesCommitted /\ NoSocketLeft

-----------------------------------------------------------------------------
(* The promise of module Server: what each address serves is the entry and *)
(* the routes of the one listener that is bound to it and accepts.         *)

Phase ==
    CASE pc = "bind" -> "new"
      [] pc = "dead" -> "failed"
      [] pc = "stage" -> "staged"
      [] pc \in {"swap", "close"} -> "committing"
      [] pc = "shutdown" -> "stopping"
      [] pc = "returned" -> "stopped"
      [] OTHER -> pc

Unserved == <<>>

Accepting(a) == {l \in bound : l[1] = a /\ loop[l] = "accept"}

Serving ==
    [a \in Addrs |->
        IF Accepting(a) = {} THEN Unserved
        ELSE LET l == CHOOSE x \in Accepting(a) : TRUE IN <<entry[l], routes[l]>>]

Plan ==
    [a \in Addrs |->
        IF pc \in {"stage", "swap", "close"} /\ new[a] # "off" THEN <<new[a], gen>> ELSE Unserved]

S == INSTANCE Server WITH
        Keys <- Addrs, Settings <- (HTTPModes \cup Targets) \X Gens, Off <- Unserved,
        phase <- Phase, serving <- Serving, plan <- Plan,
        busy <- \E c \in Conns : conn[c].at # "none"

(* The inbound server keeps Server's promise: no step of a reload, of its  *)
(* failure or abort, of a connection or of Shutdown serves an address      *)
(* anything but what was committed or, once the commit has begun, its new  *)
(* setting (server.go:196-370).                                            *)
ImplementsServer == S!Spec
=============================================================================
