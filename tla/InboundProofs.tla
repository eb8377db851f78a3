---------------------------- MODULE InboundProofs ---------------------------
(***************************************************************************)
(* The inbound server's safety properties, for any addresses, targets and  *)
(* configurations, any number of connections and any number of reloads,    *)
(* and that it implements module Server.                                   *)
(*                                                                         *)
(* The properties of InboundConfigInv speak of a server between two        *)
(* reloads, of one that is dead and of one that has returned.  What makes  *)
(* them inductive is what holds on the way: which socket each address has  *)
(* while a plan is staged, committed or taken back, and that no loop runs  *)
(* on a listener of a generation that has not been committed.              *)
(***************************************************************************)
EXTENDS Inbound, TLAPS

Reloading == {"stage", "swap", "close"}

(* The server is up: Start has returned and Shutdown has not been called.  *)
Up == {"idle"} \cup Reloading

(* The connections are a function, and so is the committed configuration;  *)
(* only generations that have been reached are committed.                  *)
Shapes ==
    /\ conn \in [Conns -> {NoConn} \cup [at : {"sniff", "routed"}, l : Listeners,
                                         used : Gens \cup {Nil}]]
    /\ committed \in [gens : SUBSET Gens,
                      config : [Addrs -> HTTPModes \cup Targets \cup {"off"}]]
    /\ \A g \in committed.gens : g <= gen /\ (pc \in Reloading => g < gen)

(* Start binds the entries of its configuration one by one and serves none *)
(* of them before all are bound (server.go:141-163).                       *)
AtStart ==
    pc = "bind" =>
        /\ gen = 0 /\ todo \subseteq Configured(new)
        /\ \A a \in Addrs :
              /\ listeners[a] = IF new[a] = "off" THEN Nil ELSE gen
              /\ entry[Obj(a)] = new[a]
              /\ new[a] # "off" => routes[Obj(a)] = gen
              /\ \A g \in Gens :
                    <<a, g>> \in bound <=> g = gen /\ new[a] # "off" /\ a \notin todo

NotServed ==
    pc \in {"bind", "dead"} =>
        /\ \A l \in Listeners : loop[l] = "off"
        /\ \A c \in Conns : conn[c] = NoConn

(* What listeners, entry and the committed configuration say of an address *)
(* agrees while the server is up; a listener is no younger than the last   *)
(* generation, and older than the one that is being staged.                *)
Agree ==
    pc \in Up => \A a \in Addrs :
        /\ listeners[a] = Nil <=> committed.config[a] = "off"
        /\ listeners[a] # Nil => /\ listeners[a] <= gen
                                 /\ pc \in Reloading => listeners[a] < gen
                                 /\ entry[Current(a)] = committed.config[a]

(* The plan: an entry is still to be walked, kept or newly bound           *)
(* (PrepareApply, server.go:198-308).                                      *)
PlanSound ==
    pc \in Reloading =>
        /\ \A a \in swaps : new[a] # "off" /\ Keepable(a)
        /\ \A a \in newBinds :
              /\ new[a] # "off" /\ listeners[a] = Nil
              /\ entry[Obj(a)] = new[a] /\ routes[Obj(a)] = gen

Walked ==
    /\ pc = "stage" =>
          \A a \in Addrs : new[a] # "off" => a \in todo \cup swaps \cup newBinds
    /\ pc = "stage" => todo \subseteq Configured(new) /\ todo \cap newBinds = {}
    /\ pc \in {"swap", "close"} =>
          \A a \in Addrs : new[a] # "off" => a \in newBinds \/ Keepable(a)

(* The sockets: those of the listeners and, during a reload, those that    *)
(* the plan has bound; CommitApply and Shutdown close some of them.        *)
Sockets ==
    /\ pc = "idle" =>
          \A a \in Addrs, g \in Gens : <<a, g>> \in bound <=> listeners[a] = g
    /\ pc \in {"stage", "swap"} =>
          \A a \in Addrs, g \in Gens :
              <<a, g>> \in bound <=> listeners[a] = g \/ (a \in newBinds /\ g = gen)
    /\ pc = "close" =>
          \A a \in Addrs, g \in Gens :
              /\ <<a, g>> \in bound => listeners[a] = g \/ (a \in newBinds /\ g = gen)
              /\ a \in newBinds /\ g = gen => <<a, g>> \in bound
              /\ listeners[a] = g /\ new[a] # "off" => <<a, g>> \in bound
    /\ pc = "shutdown" =>
          \A a \in Addrs, g \in Gens : <<a, g>> \in bound => listeners[a] = g
    /\ pc \in {"dead", "returned"} => bound = {}

(* The accept loops: one for each open socket of a listener, none for what *)
(* is staged.                                                              *)
Loops ==
    /\ pc \in Up => \A a \in Addrs :
          listeners[a] # Nil /\ (pc = "close" => new[a] # "off") => loop[Current(a)] = "accept"
    /\ pc = "close" => \A a \in newBinds : loop[Obj(a)] = "accept"
    /\ \A a \in Addrs, g \in Gens :
          loop[<<a, g>>] # "off" =>
              /\ g <= gen
              /\ pc \in {"stage", "swap"} => g < gen

(* The routes: between reloads those of the newest committed generation,   *)
(* and during a commit those of the generation that is being committed.    *)
Tables ==
    /\ pc \in {"idle", "stage"} => \A a \in Addrs :
          listeners[a] # Nil =>
              /\ routes[Current(a)] \in committed.gens
              /\ \A g \in committed.gens : g <= routes[Current(a)]
    /\ pc \in {"swap", "close"} => \A a \in Addrs :
          Keepable(a) /\ new[a] # "off" => a \in swaps \/ routes[Current(a)] = gen
    /\ pc = "close" => swaps = {}

(* A listener whose loop has run holds a table that was committed, or is   *)
(* being so; a connection belongs to such a listener.                      *)
Routable ==
    \A l \in Listeners :
        loop[l] # "off" =>
            \/ routes[l] \in committed.gens
            \/ routes[l] = gen /\ pc \in {"swap", "close"}

Accepted == \A c \in Conns : conn[c].at # "none" => loop[conn[c].l] # "off"

(* The inductive invariant.                                                *)
IInv ==
    /\ TypeOK /\ Shapes /\ AtStart /\ NotServed /\ Agree /\ PlanSound /\ Walked
    /\ Sockets /\ Loops /\ Tables /\ Routable /\ Accepted /\ RoutedByCommitted
-----------------------------------------------------------------------------
(* Listeners are pairs.                                                    *)
LEMMA Pairs ==
    /\ \A a \in Addrs, g \in Gens : <<a, g>> \in Listeners
    /\ \A l \in Listeners : l[1] \in Addrs /\ l[2] \in Gens /\ l = <<l[1], l[2]>>
    /\ Nil \notin Gens
    /\ \A g \in Gens : g \in Nat
  BY InboundAssumption DEF Listeners, Gens, Nil

(* The last entry is bound: the loops start (server.go:155-161).           *)
LEMMA StartLoopsStep == IInv /\ StartLoops => IInv'
  <1> SUFFICES ASSUME IInv, StartLoops PROVE IInv'
    OBVIOUS
  <1>0. Nil \notin Gens /\ \A g \in Gens : g \in Nat
    BY Pairs
  <1>1. /\ pc' = "idle" /\ gen \in Gens /\ gen \in Nat
        /\ UNCHANGED <<gen, new, todo, swaps, newBinds, listeners, entry, routes, bound, conn>>
    BY <1>0 DEF IInv, TypeOK, StartLoops, planVars
  <1>2. \A a \in Addrs : listeners[a] = IF new[a] = "off" THEN Nil ELSE gen
    BY DEF IInv, AtStart, StartLoops
  <1>3. \A a \in Addrs :
          /\ entry[<<a, gen>>] = new[a]
          /\ new[a] # "off" => routes[<<a, gen>>] = gen
          /\ \A g \in Gens : <<a, g>> \in bound <=> g = gen /\ new[a] # "off"
    BY DEF IInv, AtStart, StartLoops, Obj
  <1>4. committed' = [gens |-> {gen}, config |-> new]
    BY <1>1 DEF StartLoops
  <1>5. /\ \A l \in Listeners : loop'[l] = IF l \in bound THEN "accept" ELSE "off"
        /\ loop' \in [Listeners -> {"off", "accept", "exited"}]
    BY DEF IInv, TypeOK, NotServed, StartLoops
  <1>6. \A a \in Addrs : listeners'[a] # Nil =>
          /\ entry'[Current(a)'] = new[a] /\ routes'[Current(a)'] = gen
          /\ loop'[Current(a)'] = "accept"
    BY <1>0, <1>1, <1>2, <1>3, <1>5, Pairs DEF Current
  <1>7. TypeOK' /\ Shapes'
    BY <1>1, <1>4, <1>5, InboundAssumption DEF IInv, TypeOK, Shapes, Reloading
  <1>8. Agree'
    BY <1>0, <1>1, <1>2, <1>4, <1>6 DEF Agree, Up, Reloading
  <1>9. Sockets'
    BY <1>0, <1>1, <1>2, <1>3 DEF Sockets
  <1>10. Loops' /\ Routable'
    <2>1. \A a \in Addrs, g \in Gens :
            loop'[<<a, g>>] # "off" => g = gen /\ routes[<<a, g>>] = gen
      BY <1>3, <1>5, Pairs
    <2>2. Loops'
      BY <1>0, <1>1, <1>6, <2>1 DEF Loops
    <2>3. Routable'
      BY <1>1, <1>4, <2>1, Pairs DEF Routable
    <2> QED
      BY <2>2, <2>3
  <1>11. Tables'
    BY <1>1, <1>4, <1>6 DEF Tables
  <1>12. Accepted' /\ RoutedByCommitted'
    BY <1>1 DEF IInv, NotServed, NoConn, Accepted, RoutedByCommitted, StartLoops
  <1>13. AtStart' /\ NotServed' /\ PlanSound' /\ Walked'
    BY <1>1 DEF AtStart, NotServed, PlanSound, Walked, Reloading
  <1> QED
    BY <1>7, <1>8, <1>9, <1>10, <1>11, <1>12, <1>13 DEF IInv

(* The commit ends: s.listeners = p.next (server.go:335-336).              *)
LEMMA CommitEndStep == IInv /\ CommitEnd => IInv'
  <1> SUFFICES ASSUME IInv, CommitEnd PROVE IInv'
    OBVIOUS
  <1> USE Pairs
  <1>1. /\ pc = "close" /\ pc' = "idle" /\ gen \in Gens
        /\ UNCHANGED <<gen, new, entry, routes, bound, loop, conn>>
    BY DEF IInv, TypeOK, CommitEnd, EndReload
  <1>2. committed' = [gens |-> committed.gens \cup {gen}, config |-> new]
    BY DEF CommitEnd
  <1>3. /\ listeners' \in [Addrs -> Gens \cup {Nil}]
        /\ \A a \in Addrs : listeners'[a] = IF new[a] = "off" THEN Nil
                                             ELSE IF a \in newBinds THEN gen ELSE listeners[a]
    BY <1>1 DEF CommitEnd, IInv, TypeOK
  <1>4. \A a \in Addrs : new[a] # "off" /\ a \notin newBinds => Keepable(a)
    BY <1>1 DEF IInv, Walked
  <1>5. \A a \in newBinds : listeners[a] = Nil /\ new[a] # "off" /\ a \in Addrs
    BY <1>1 DEF IInv, TypeOK, PlanSound, Reloading
  <1>6. \A a \in Addrs : new[a] = "off" => \A g \in Gens : <<a, g>> \notin bound
    <2>1. \A a \in Addrs : new[a] = "off" /\ listeners[a] # Nil => <<a, listeners[a]>> \notin bound
      BY DEF CommitEnd, Removed, Current
    <2> QED
      BY <1>1, <1>5, <2>1 DEF IInv, Sockets
  <1>7. \A a \in Addrs, g \in Gens : <<a, g>> \in bound <=> listeners'[a] = g
    <2> TAKE a \in Addrs, g \in Gens
    <2>1. CASE new[a] = "off"
      BY <1>3, <1>6, <2>1
    <2>2. CASE new[a] # "off" /\ a \in newBinds
      BY <1>1, <1>3, <1>5, <2>2 DEF IInv, Sockets
    <2>3. CASE new[a] # "off" /\ a \notin newBinds
      BY <1>1, <1>3, <2>3 DEF IInv, Sockets
    <2> QED
      BY <2>1, <2>2, <2>3
  <1>8. \A a \in Addrs : new[a] # "off" =>
          LET l == <<a, listeners'[a]>>
          IN  entry[l] = new[a] /\ routes[l] = gen /\ loop[l] = "accept"
    <2> TAKE a \in Addrs
    <2> HAVE new[a] # "off"
    <2>1. CASE a \in newBinds
      BY <1>1, <1>3, <2>1 DEF IInv, PlanSound, Loops, Reloading, Obj
    <2>2. CASE a \notin newBinds
      BY <1>1, <1>3, <1>4, <2>2 DEF IInv, Keepable, Tables, Loops, Up, Reloading, Current
    <2> QED
      BY <2>1, <2>2
  <1>9. TypeOK'
    BY <1>1, <1>3 DEF IInv, TypeOK, CommitEnd, EndReload
  <1>10. Shapes'
    BY <1>1, <1>2, InboundAssumption DEF IInv, TypeOK, Shapes, Reloading
  <1>11. Agree'
    <2>1. \A a \in Addrs : new[a] # "off" => listeners'[a] \in Gens /\ listeners'[a] <= gen
      BY <1>1, <1>3, <1>4 DEF IInv, TypeOK, Agree, Up, Reloading, Keepable
    <2> QED
      BY <1>1, <1>2, <1>3, <1>8, <2>1 DEF Agree, Up, Reloading, Current
  <1>12. Sockets'
    BY <1>1, <1>7 DEF Sockets
  <1>13. Loops'
    <2>1. \A a \in Addrs, g \in Gens : loop[<<a, g>>] # "off" => g <= gen
      BY DEF IInv, Loops
    <2> QED
      BY <1>1, <1>3, <1>8, <2>1 DEF Loops, Current
  <1>14. Tables'
    <2>1. \A g \in committed.gens : g <= gen
      BY DEF IInv, Shapes
    <2> QED
      BY <1>1, <1>2, <1>3, <1>8, <2>1 DEF Tables, Current
  <1>15. Routable' /\ Accepted' /\ RoutedByCommitted'
    BY <1>1, <1>2 DEF IInv, Routable, Accepted, RoutedByCommitted
  <1>16. AtStart' /\ NotServed' /\ PlanSound' /\ Walked'
    BY <1>1 DEF AtStart, NotServed, PlanSound, Walked, Reloading
  <1> QED
    BY <1>9, <1>10, <1>11, <1>12, <1>13, <1>14, <1>15, <1>16 DEF IInv

(* A connection loads its listener's table (server.go:566-596).            *)
LEMMA RouteStep == ASSUME IInv, NEW c \in Conns, Route(c) PROVE IInv'
  <1>1. /\ UNCHANGED <<pc, gen, new, todo, swaps, newBinds, listeners, entry, routes, bound, loop>>
        /\ committed' = committed
    BY DEF Route, ServerUnchanged, planVars
  <1>2. /\ conn[c] \in [at : {"sniff", "routed"}, l : Listeners, used : Gens \cup {Nil}]
        /\ pc \notin {"bind", "dead"} /\ loop[conn[c].l] # "off"
        /\ routes[conn[c].l] \in Gens \cup {Nil}
    BY DEF IInv, TypeOK, Shapes, NotServed, Accepted, NoConn, Route
  <1>3. /\ DOMAIN conn' = Conns
        /\ \A b \in Conns : b # c => conn'[b] = conn[b]
        /\ conn'[c] = [conn[c] EXCEPT !.at = "routed", !.used = routes[conn[c].l]]
        /\ conn' = [b \in Conns |-> conn'[b]]
    BY DEF IInv, Shapes, Route
  <1>4. conn'[c] \in [at : {"sniff", "routed"}, l : Listeners, used : Gens \cup {Nil}]
    BY <1>2, <1>3
  <1>5. conn'[c].at = "routed" /\ conn'[c].l = conn[c].l /\ conn'[c].used = routes[conn[c].l]
    BY <1>2, <1>3
  <1>6. TypeOK' /\ Shapes'
    BY <1>1, <1>3, <1>4 DEF IInv, TypeOK, Shapes, Reloading
  <1>7. Accepted' /\ RoutedByCommitted'
    <2>1. conn[c].l \in Listeners
      BY <1>2
    <2>2. conn'[c].used \in committed.gens \/ (conn'[c].used = gen /\ pc \in {"swap", "close"})
      BY <1>2, <1>5, <2>1 DEF IInv, Routable
    <2>3. Accepted'
      <3> SUFFICES ASSUME NEW b \in Conns, conn'[b].at # "none"
                   PROVE  loop[conn'[b].l] # "off"
        BY <1>1 DEF Accepted
      <3>1. CASE b = c
        BY <1>2, <1>5, <3>1
      <3>2. CASE b # c
        BY <1>3, <3>2 DEF IInv, Accepted
      <3> QED
        BY <3>1, <3>2
    <2>4. RoutedByCommitted'
      <3> SUFFICES ASSUME NEW b \in Conns, conn'[b].at = "routed"
                   PROVE  \/ conn'[b].used \in committed.gens
                          \/ conn'[b].used = gen /\ pc \in {"swap", "close"}
        BY <1>1 DEF RoutedByCommitted
      <3>1. CASE b = c
        BY <2>2, <3>1
      <3>2. CASE b # c
        BY <1>3, <3>2 DEF IInv, RoutedByCommitted
      <3> QED
        BY <3>1, <3>2
    <2> QED
      BY <2>3, <2>4
  <1>8. NotServed' /\ AtStart' /\ Agree' /\ PlanSound' /\ Walked'
    BY <1>1, <1>2 DEF IInv, NotServed, AtStart, Agree, PlanSound, Walked, Reloading, Up, Current,
                      Obj, Keepable, Configured
  <1>9. Sockets' /\ Loops' /\ Tables' /\ Routable'
    BY <1>1 DEF IInv, Sockets, Loops, Tables, Routable, Up, Current, Obj, Keepable
  <1> QED
    BY <1>6, <1>7, <1>8, <1>9 DEF IInv

(* Every step keeps the invariant.                                         *)
LEMMA InvStep == IInv /\ [Next]_vars => IInv'
  <1> SUFFICES ASSUME IInv, [Next]_vars PROVE IInv'
    OBVIOUS
  <1> USE Pairs, InboundAssumption
      DEF IInv, TypeOK, Shapes, AtStart, NotServed, Agree, PlanSound, Walked, Sockets, Loops,
          Tables, Routable, Accepted, RoutedByCommitted, Up, Reloading, Configured, Keepable, Current, Obj,
          NoConn
  <1>1. ASSUME NEW a \in Addrs, Bind(a) PROVE IInv'
    BY <1>1 DEF Bind, IsNext, Obj
  <1>2. ASSUME NEW a \in Addrs, BindFail(a) PROVE IInv'
    BY <1>2 DEF BindFail, planVars
  <1>3. CASE StartLoops
    BY <1>3, StartLoopsStep
  <1>4. ASSUME NEW c \in Configs, BeginReload(c) PROVE IInv'
    <2>1. gen' \in Gens /\ gen' = gen + 1 /\ gen \in Nat
      BY <1>4 DEF BeginReload, Gens
    <2>2. TypeOK' /\ Shapes'
      BY <1>4, <2>1 DEF BeginReload
    <2>3. Agree' /\ Loops'
      BY <1>4, <2>1 DEF BeginReload
    <2>4. Sockets' /\ Walked'
      BY <1>4, <2>1 DEF BeginReload
    <2>5. /\ AtStart' /\ NotServed' /\ PlanSound' /\ Tables' /\ Routable'
          /\ Accepted' /\ RoutedByCommitted'
      BY <1>4, <2>1 DEF BeginReload
    <2> QED
      BY <2>2, <2>3, <2>4, <2>5 DEF IInv
  <1>5. ASSUME NEW a \in Addrs, StageKeep(a) PROVE IInv'
    BY <1>5 DEF StageKeep, IsNext
  <1>6. ASSUME NEW a \in Addrs, StageBind(a) PROVE IInv'
    BY <1>6 DEF StageBind, IsNext
  <1>7. ASSUME NEW a \in Addrs, StageFail(a) PROVE IInv'
    BY <1>7 DEF StageFail, IsNext, DiscardPlan, Staged, EndReload
  <1>8. CASE AbortApply
    BY <1>8 DEF AbortApply, DiscardPlan, Staged, EndReload
  <1>9. CASE BeginCommit
    <2>1. Walked' /\ Sockets'
      BY <1>9 DEF BeginCommit, planVars
    <2>2. Tables' /\ Routable' /\ RoutedByCommitted'
      BY <1>9 DEF BeginCommit, planVars
    <2>3. /\ TypeOK' /\ Shapes' /\ AtStart' /\ NotServed' /\ Agree' /\ PlanSound'
          /\ Loops' /\ Accepted'
      BY <1>9 DEF BeginCommit, planVars
    <2> QED
      BY <2>1, <2>2, <2>3 DEF IInv
  <1>10. ASSUME NEW a \in Addrs, CommitSwap(a) PROVE IInv'
    BY <1>10 DEF CommitSwap
  <1>11. CASE CommitStart
    BY <1>11 DEF CommitStart, planVars, Staged
  <1>12. ASSUME NEW a \in Addrs, CommitClose(a) PROVE IInv'
    BY <1>12 DEF CommitClose, planVars, Removed
  <1>13. CASE CommitEnd
    BY <1>13, CommitEndStep
  <1>14. CASE Shutdown
    BY <1>14 DEF Shutdown, planVars
  <1>15. ASSUME NEW a \in Addrs, ShutdownClose(a) PROVE IInv'
    BY <1>15 DEF ShutdownClose, planVars
  <1>16. CASE ShutdownReturn
    BY <1>16 DEF ShutdownReturn, planVars
  <1>17. ASSUME NEW l \in Listeners, AcceptClosed(l) PROVE IInv'
    BY <1>17 DEF AcceptClosed, ServerUnchanged, planVars
  <1>18. ASSUME NEW l \in Listeners, NEW c \in Conns, Accept(l, c) PROVE IInv'
    BY <1>18 DEF Accept, ServerUnchanged, planVars
  <1>19. ASSUME NEW c \in Conns, Route(c) PROVE IInv'
    BY <1>19, RouteStep
  <1>20. ASSUME NEW c \in Conns, ConnEnd(c) PROVE IInv'
    BY <1>20 DEF ConnEnd, ServerUnchanged, planVars
  <1>21. CASE UNCHANGED vars
    BY <1>21 DEF vars, planVars
  <1> QED
    BY <1>1, <1>2, <1>3, <1>4, <1>5, <1>6, <1>7, <1>8, <1>9, <1>10, <1>11, <1>12, <1>13, <1>14,
       <1>15, <1>16, <1>17, <1>18, <1>19, <1>20, <1>21
       DEF Next, Starting, Prepare, Commit

(* Nothing is bound before Start (NewServer, server.go:70-107).            *)
LEMMA InitInv == Init => IInv
  <1> SUFFICES ASSUME Init PROVE IInv
    OBVIOUS
  <1>1. gen \in Gens /\ gen = 0 /\ pc = "bind"
    BY InboundAssumption DEF Init, Gens
  <1>2. TypeOK
    BY <1>1, InboundAssumption, Pairs DEF Init, TypeOK, Configured
  <1>3. Shapes
    BY <1>1 DEF Init, Shapes
  <1>4. AtStart
    BY <1>1, Pairs DEF Init, AtStart, Configured, Obj
  <1>5. NotServed /\ Agree /\ PlanSound /\ Walked /\ Sockets /\ Loops /\ Tables
    BY <1>1, Pairs
       DEF Init, NotServed, Agree, PlanSound, Walked, Sockets, Loops, Tables, Up, Reloading
  <1>6. Routable /\ Accepted /\ RoutedByCommitted
    BY Pairs DEF Init, Routable, Accepted, RoutedByCommitted, NoConn
  <1> QED
    BY <1>2, <1>3, <1>4, <1>5, <1>6 DEF IInv

-----------------------------------------------------------------------------
(* The theorems.                                                           *)

(* The inductive invariant holds.                                          *)
THEOREM IInvHolds == Spec => []IInv
  BY InitInv, InvStep, PTL DEF Spec

(* Between reloads exactly the committed configuration is served, and      *)
(* after the end nothing is (server.go:141-404).                           *)
THEOREM InboundConfigInvHolds == Spec => []InboundConfigInv
  <1>1. IInv => InboundConfigInv
    <2> SUFFICES ASSUME IInv PROVE InboundConfigInv
      OBVIOUS
    <2>1. ASSUME pc = "idle"
          PROVE  bound = {Current(a) : a \in Configured(committed.config)}
      <3>1. \A a \in Addrs, g \in Gens : <<a, g>> \in bound <=> listeners[a] = g
        BY <2>1 DEF IInv, Sockets
      <3>2. \A a \in Addrs : listeners[a] \in Gens <=> committed.config[a] # "off"
        BY <2>1, Pairs DEF IInv, TypeOK, Agree, Up
      <3>3. bound \subseteq Listeners
        BY DEF IInv, TypeOK
      <3> QED
        BY <3>1, <3>2, <3>3, Pairs DEF Current, Configured
    <2>2. InboundServesCommitted
      <3> SUFFICES ASSUME pc = "idle", NEW a \in Addrs
                   PROVE  IF committed.config[a] = "off" THEN listeners[a] = Nil
                          ELSE /\ listeners[a] # Nil
                               /\ entry[Current(a)] = committed.config[a]
                               /\ routes[Current(a)] \in committed.gens
                               /\ \A g \in committed.gens : g <= routes[Current(a)]
                               /\ loop[Current(a)] = "accept"
        BY <2>1 DEF InboundServesCommitted
      <3> QED
        BY DEF IInv, Agree, Tables, Loops, Up
    <2>3. NoSocketLeft
      BY DEF IInv, Sockets, NoSocketLeft
    <2> QED
      BY <2>2, <2>3 DEF IInv, InboundConfigInv
  <1> QED
    BY <1>1, IInvHolds, PTL

(* A reload never interrupts an address that it keeps (server.go:198-338). *)
THEOREM KeptStaysBoundHolds == Spec => []KeptStaysBound
  <1>1. IInv => KeptStaysBound
    <2> SUFFICES ASSUME IInv, NEW a \in Addrs, pc \in Reloading,
                        committed.config[a] # "off", new[a] = committed.config[a]
                 PROVE  Current(a) \in bound /\ loop[Current(a)] = "accept"
      BY DEF KeptStaysBound, Reloading
    <2>1. listeners[a] # Nil /\ listeners[a] \in Gens
      BY DEF IInv, TypeOK, Agree, Up
    <2>2. Current(a) \in bound
      BY <2>1 DEF IInv, Sockets, Current, Reloading
    <2>3. loop[Current(a)] = "accept"
      BY <2>1 DEF IInv, Loops, Up
    <2> QED
      BY <2>2, <2>3
  <1> QED
    BY <1>1, IInvHolds, PTL

(* No connection is routed by a table that was not committed               *)
(* (server.go:313-338, 566-596).                                           *)
THEOREM RoutedByCommittedHolds == Spec => []RoutedByCommitted
  <1>1. IInv => RoutedByCommitted
    BY DEF IInv
  <1> QED
    BY <1>1, IInvHolds, PTL

-----------------------------------------------------------------------------
(* The refinement.  Serving[a] is a choice; since no address has two open  *)
(* sockets it is the entry and the routes of the one socket that accepts.  *)

Serves(a, g) == <<a, g>> \in bound /\ loop[<<a, g>>] = "accept"

ServingSpec ==
    /\ Serving = [a \in Addrs |-> Serving[a]]
    /\ \A a \in Addrs, g \in Gens :
          Serves(a, g) => Serving[a] = <<entry[<<a, g>>], routes[<<a, g>>]>>
    /\ \A a \in Addrs : (\A g \in Gens : ~Serves(a, g)) => Serving[a] = Unserved

(* A step that leaves what an address serves as it was.                    *)
SameAt(a) ==
    \A g \in Gens :
        /\ Serves(a, g)' <=> Serves(a, g)
        /\ Serves(a, g) => /\ entry'[<<a, g>>] = entry[<<a, g>>]
                           /\ routes'[<<a, g>>] = routes[<<a, g>>]

(* No address has two open sockets, so the choice is determined: a new     *)
(* listener is bound only where none is (server.go:230-276).               *)
LEMMA ServingIs == TypeOK => ServingSpec
  <1> SUFFICES ASSUME TypeOK PROVE ServingSpec
    OBVIOUS
  <1>1. Serving = [a \in Addrs |-> Serving[a]]
    BY DEF Serving
  <1>2. ASSUME NEW a \in Addrs, NEW g \in Gens, Serves(a, g)
        PROVE  Serving[a] = <<entry[<<a, g>>], routes[<<a, g>>]>>
    <2>1. <<a, g>> \in Accepting(a)
      BY <1>2 DEF Serves, Accepting
    <2>2. \A l \in Accepting(a) : l = <<a, g>>
      <3> TAKE l \in Accepting(a)
      <3>1. l \in bound /\ l[1] = a /\ <<a, g>> \in bound /\ <<a, g>>[1] = a
        BY <1>2 DEF Accepting, Serves
      <3> QED
        BY <3>1 DEF TypeOK
    <2>3. Accepting(a) # {} /\ (CHOOSE x \in Accepting(a) : TRUE) = <<a, g>>
      BY <2>1, <2>2
    <2> QED
      BY <2>3 DEF Serving
  <1>3. ASSUME NEW a \in Addrs, \A g \in Gens : ~Serves(a, g) PROVE Serving[a] = Unserved
    <2>1. Accepting(a) = {}
      BY <1>3, Pairs DEF Accepting, Serves, TypeOK
    <2> QED
      BY <2>1 DEF Serving
  <1> QED
    BY <1>1, <1>2, <1>3 DEF ServingSpec

(* What SameAt says of Serving.                                            *)
LEMMA ServingStays ==
    ASSUME ServingSpec, ServingSpec', NEW a \in Addrs, SameAt(a) PROVE Serving'[a] = Serving[a]
  <1>1. CASE \A g \in Gens : ~Serves(a, g)
    <2>1. \A g \in Gens : ~Serves(a, g)'
      BY <1>1 DEF SameAt
    <2> QED
      BY <1>1, <2>1 DEF ServingSpec
  <1>2. ASSUME NEW g \in Gens, Serves(a, g) PROVE Serving'[a] = Serving[a]
    <2>1. Serves(a, g)'
      BY <1>2 DEF SameAt
    <2>2. Serving'[a] = <<entry'[<<a, g>>], routes'[<<a, g>>]>>
      BY <2>1 DEF ServingSpec
    <2>3. Serving[a] = <<entry[<<a, g>>], routes[<<a, g>>]>>
      BY <1>2 DEF ServingSpec
    <2> QED
      BY <1>2, <2>2, <2>3 DEF SameAt
  <1> QED
    BY <1>1, <1>2

(* A step that serves every address as before changes nothing.             *)
LEMMA AllServingStay ==
    ASSUME ServingSpec, ServingSpec', \A a \in Addrs : SameAt(a) PROVE Serving' = Serving
  <1>1. \A a \in Addrs : Serving'[a] = Serving[a]
    BY ServingStays
  <1> QED
    BY <1>1 DEF ServingSpec

(* A step that leaves the sockets, the loops and the tables alone.         *)
LEMMA Untouched ==
    ASSUME ServingSpec, ServingSpec', UNCHANGED <<entry, routes, bound, loop>>
    PROVE  Serving' = Serving
  <1>1. \A a \in Addrs : SameAt(a)
    BY DEF SameAt, Serves
  <1> QED
    BY <1>1, AllServingStay

(* The steps of Start (server.go:141-163): none serves anything but the    *)
(* last, which serves the configuration.                                   *)
LEMMA StartRefines ==
    ASSUME IInv, IInv', ServingSpec, ServingSpec', Starting PROVE S!Next \/ UNCHANGED S!vars
  <1>1. ASSUME NEW a \in Addrs, Bind(a) PROVE UNCHANGED S!vars
    <2>1. \A b \in Addrs : SameAt(b)
      BY <1>1, Pairs DEF IInv, NotServed, SameAt, Serves, Bind
    <2>2. Serving' = Serving
      BY <2>1, AllServingStay
    <2> QED
      BY <1>1, <2>2 DEF Bind, S!vars, Phase, Plan
  <1>2. ASSUME NEW a \in Addrs, BindFail(a) PROVE S!StartFail
    <2>1. \A b \in Addrs : SameAt(b)
      BY <1>2, Pairs DEF IInv, NotServed, SameAt, Serves, BindFail
    <2>2. Serving' = Serving
      BY <2>1, AllServingStay
    <2> QED
      BY <1>2, <2>2 DEF BindFail, planVars, S!StartFail, S!Goto, Phase, Plan
  <1>3. ASSUME StartLoops PROVE \E c \in S!Configurations : S!Start(c)
    <2>1. pc = "bind" /\ pc' = "idle" /\ UNCHANGED <<gen, new, conn>>
      BY <1>3 DEF StartLoops, planVars
    <2>2. ASSUME NEW a \in Addrs, NEW g \in Gens, Serves(a, g)'
          PROVE  Serving'[a] \in (HTTPModes \cup Targets) \X Gens
      <3>1. /\ listeners'[a] = g /\ listeners'[a] # Nil /\ committed'.config[a] # "off"
            /\ entry'[Current(a)'] = committed'.config[a] /\ routes'[Current(a)'] \in committed'.gens
        BY <2>1, <2>2, Pairs DEF IInv, Sockets, Agree, Tables, Serves, Up
      <3>2. committed'.config[a] \in HTTPModes \cup Targets /\ committed'.gens \subseteq Gens
        BY <3>1 DEF IInv, Shapes
      <3>3. Current(a)' = <<a, g>>
        BY <3>1 DEF Current
      <3>4. entry'[<<a, g>>] \in HTTPModes \cup Targets /\ routes'[<<a, g>>] \in Gens
        BY <3>1, <3>2, <3>3
      <3> QED
        BY <2>2, <3>4 DEF ServingSpec
    <2>3. \A a \in Addrs : Serving'[a] \in (HTTPModes \cup Targets) \X Gens \cup {Unserved}
      BY <2>2 DEF ServingSpec
    <2>4. Serving' \in S!Configurations
      BY <2>3 DEF ServingSpec, S!Configurations
    <2> QED
      BY <2>1, <2>4 DEF S!Start, S!Goto, Phase, Plan
  <1> QED
    BY <1>1, <1>2, <1>3 DEF Starting, S!Next

(* A staged listener has no loop before CommitApply starts it              *)
(* (server.go:325-330).                                                    *)
LEMMA NoStagedLoop ==
    ASSUME IInv, pc \in {"stage", "swap"}, NEW a \in Addrs PROVE loop[Obj(a)] = "off"
  <1> SUFFICES ASSUME loop[Obj(a)] # "off" PROVE FALSE
    OBVIOUS
  <1>1. gen \in Gens /\ gen \in Nat
    BY Pairs DEF IInv, TypeOK
  <1>2. \A g \in Gens : loop[<<a, g>>] # "off" => g < gen
    BY DEF IInv, Loops
  <1>3. gen < gen
    BY <1>1, <1>2 DEF Obj
  <1> QED
    BY <1>1, <1>3

(* The steps of PrepareApply and of its failure (server.go:198-308,        *)
(* 342-349): what is staged has no loop, so nothing that is served changes.*)
LEMMA PrepareRefines ==
    ASSUME IInv, ServingSpec, ServingSpec',
           Prepare \/ AbortApply \/ \E c \in Configs : BeginReload(c)
    PROVE  S!Next \/ UNCHANGED S!vars
  <1>1. ASSUME NEW c \in Configs, BeginReload(c) PROVE \E p \in S!Configurations : S!Prepare(p)
    <2>1. Serving' = Serving
      BY <1>1, Untouched DEF BeginReload
    <2>2. \A a \in Addrs : new'[a] \in HTTPModes \cup Targets \cup {"off"}
      BY <1>1, InboundAssumption DEF BeginReload
    <2>3. gen' \in Gens
      BY <1>1, InboundAssumption DEF BeginReload, IInv, TypeOK, Gens
    <2>4. Plan' \in S!Configurations
      BY <2>2, <2>3 DEF Plan, S!Configurations
    <2> QED
      BY <1>1, <2>1, <2>4 DEF BeginReload, S!Prepare, S!Goto, Phase
  <1>2. ASSUME NEW a \in Addrs, StageKeep(a) PROVE UNCHANGED S!vars
    <2>1. Serving' = Serving
      BY <1>2, Untouched DEF StageKeep
    <2> QED
      BY <1>2, <2>1 DEF StageKeep, S!vars, Phase, Plan
  <1>3. ASSUME NEW a \in Addrs, StageBind(a) PROVE UNCHANGED S!vars
    <2>1. \A b \in Addrs : SameAt(b)
      <3>1. loop[Obj(a)] = "off"
        BY <1>3, NoStagedLoop DEF StageBind
      <3> QED
        BY <1>3, <3>1, Pairs DEF IInv, TypeOK, SameAt, Serves, StageBind, Obj
    <2>2. Serving' = Serving
      BY <2>1, AllServingStay
    <2> QED
      BY <1>3, <2>2 DEF StageBind, S!vars, Phase, Plan
  <1>4. ASSUME pc = "stage", DiscardPlan, EndReload, UNCHANGED <<entry, routes, loop, conn>>
        PROVE  S!Abort
    <2>1. \A b \in Addrs : SameAt(b)
      <3>1. \A b \in Addrs : loop[Obj(b)] = "off"
        BY <1>4, NoStagedLoop
      <3> QED
        BY <1>4, <3>1, Pairs DEF IInv, TypeOK, SameAt, Serves, DiscardPlan, Staged, Obj
    <2>2. Serving' = Serving
      BY <2>1, AllServingStay
    <2>3. Plan' = S!Nothing
      BY <1>4 DEF EndReload, Plan, S!Nothing
    <2> QED
      BY <1>4, <2>2, <2>3 DEF EndReload, S!Abort, S!Goto, Phase
  <1>5. ASSUME NEW a \in Addrs, StageFail(a) PROVE S!Abort
    BY <1>4, <1>5 DEF StageFail
  <1>6. ASSUME AbortApply PROVE S!Abort
    BY <1>4, <1>6 DEF AbortApply
  <1> QED
    BY <1>1, <1>2, <1>3, <1>5, <1>6 DEF Prepare, S!Next

(* A step that moves the addresses of ks to their planned setting and      *)
(* leaves the others alone is a Publish.                                   *)
LEMMA Publishes ==
    ASSUME ServingSpec, ServingSpec', NEW ks \in SUBSET Addrs,
           pc \in {"swap", "close"}, pc' \in {"swap", "close"}, UNCHANGED <<gen, new, conn>>,
           \A a \in Addrs \ ks : SameAt(a), \A a \in ks : Serving'[a] = Plan[a]
    PROVE  S!Publish(ks)
  <1>1. \A a \in Addrs \ ks : Serving'[a] = Serving[a]
    BY ServingStays
  <1>2. Serving' = [a \in Addrs |-> IF a \in ks THEN Plan[a] ELSE Serving[a]]
    BY <1>1 DEF ServingSpec
  <1>3. Phase = "committing" /\ Phase' = "committing" /\ Plan' = Plan
    BY DEF Phase, Plan
  <1> QED
    BY <1>2, <1>3 DEF S!Publish

(* The steps of CommitApply (server.go:313-338): a kept address moves to   *)
(* its new table at its Store, a new one when its loop starts and a        *)
(* removed one when its listener is closed.                                *)
LEMMA CommitRefines ==
    ASSUME IInv, ServingSpec, ServingSpec', Commit PROVE S!Next \/ UNCHANGED S!vars
  <1>1. ASSUME BeginCommit PROVE S!Commit
    <2>1. Serving' = Serving
      BY <1>1, Untouched DEF BeginCommit
    <2> QED
      BY <1>1, <2>1 DEF BeginCommit, planVars, S!Commit, S!Goto, Phase, Plan
  <1>2. ASSUME NEW a \in Addrs, CommitSwap(a) PROVE S!Publish({a})
    <2>1. /\ listeners[a] \in Gens /\ entry[Current(a)] = new[a] /\ new[a] # "off"
          /\ Current(a) \in bound /\ loop[Current(a)] = "accept" /\ Current(a) \in Listeners
      BY <1>2, Pairs DEF CommitSwap, IInv, TypeOK, PlanSound, Keepable, Sockets, Loops, Reloading, Up,
                         Current
    <2>2. Serving'[a] = Plan[a]
      <3>1. Serves(a, listeners[a])'
        BY <1>2, <2>1 DEF CommitSwap, Serves, Current
      <3>2. entry'[Current(a)] = new[a] /\ routes'[Current(a)] = gen
        <4>1. DOMAIN routes = Listeners
          BY DEF IInv, TypeOK
        <4>2. routes' = [routes EXCEPT ![Current(a)] = gen] /\ entry' = entry
          BY <1>2 DEF CommitSwap
        <4> QED
          BY <2>1, <4>1, <4>2
      <3>3. Serving'[a] = <<entry'[Current(a)], routes'[Current(a)]>>
        <4>1. listeners' = listeners
          BY <1>2 DEF CommitSwap
        <4> QED
          BY <2>1, <3>1, <4>1 DEF ServingSpec, Current
      <3> QED
        BY <1>2, <2>1, <3>2, <3>3 DEF CommitSwap, Plan
    <2>3. \A b \in Addrs \ {a} : SameAt(b)
      BY <1>2, <2>1, Pairs DEF CommitSwap, IInv, TypeOK, SameAt, Serves, Current
    <2> QED
      BY <1>2, <2>2, <2>3, Publishes DEF CommitSwap
  <1>3. ASSUME CommitStart PROVE S!Publish(newBinds)
    <2>1. newBinds \subseteq Addrs /\ gen \in Gens
      BY DEF IInv, TypeOK
    <2>2. ASSUME NEW a \in newBinds PROVE Serving'[a] = Plan[a]
      <3>1. /\ Obj(a) \in bound /\ Obj(a) \in Listeners /\ new[a] # "off"
            /\ entry[Obj(a)] = new[a] /\ routes[Obj(a)] = gen
        BY <1>3, <2>1, <2>2, Pairs DEF CommitStart, IInv, PlanSound, Sockets, Reloading, Obj
      <3>2. loop'[Obj(a)] = "accept"
        BY <1>3, <2>2, <3>1 DEF CommitStart, Staged
      <3>3. UNCHANGED <<gen, bound, entry, routes>>
        BY <1>3 DEF CommitStart, planVars
      <3>4. Serves(a, gen)'
        BY <3>1, <3>2, <3>3 DEF Serves, Obj
      <3>5. Serving'[a] = <<entry'[<<a, gen>>], routes'[<<a, gen>>]>>
        BY <2>1, <2>2, <3>3, <3>4 DEF ServingSpec
      <3> QED
        BY <1>3, <2>1, <2>2, <3>1, <3>3, <3>5 DEF CommitStart, Plan, Obj
    <2>3. \A b \in Addrs \ newBinds : SameAt(b)
      BY <1>3, Pairs DEF CommitStart, IInv, TypeOK, SameAt, Serves, Staged, Obj
    <2> QED
      BY <1>3, <2>1, <2>2, <2>3, Publishes DEF CommitStart, planVars
  <1>4. ASSUME NEW a \in Addrs, CommitClose(a) PROVE S!Publish({a})
    <2>1. \A g \in Gens : ~Serves(a, g)'
      <3>1. a \notin newBinds
        BY <1>4 DEF CommitClose, Removed, IInv, PlanSound, Reloading
      <3>2. \A g \in Gens : <<a, g>> \in bound => <<a, g>> = Current(a)
        BY <1>4, <3>1 DEF CommitClose, IInv, Sockets, Current
      <3> QED
        BY <1>4, <3>2 DEF CommitClose, Serves
    <2>2. Serving'[a] = Plan[a]
      BY <1>4, <2>1 DEF CommitClose, Removed, ServingSpec, Plan
    <2>3. \A b \in Addrs \ {a} : SameAt(b)
      BY <1>4 DEF CommitClose, SameAt, Serves, Current
    <2> QED
      BY <1>4, <2>2, <2>3, Publishes DEF CommitClose, planVars
  <1>5. ASSUME CommitEnd PROVE S!EndCommit
    <2>1. Serving' = Serving
      BY <1>5, Untouched DEF CommitEnd
    <2>2. ASSUME NEW a \in Addrs PROVE Serving[a] = Plan[a]
      <3>1. CASE new[a] = "off"
        <4>1. \A g \in Gens : <<a, g>> \notin bound
          <5>1. pc = "close" /\ (listeners[a] # Nil => <<a, listeners[a]>> \notin bound)
            BY <1>5, <3>1 DEF CommitEnd, Removed, Current
          <5>2. a \notin newBinds
            BY <3>1, <5>1 DEF IInv, PlanSound, Reloading
          <5> QED
            BY <5>1, <5>2, Pairs DEF IInv, Sockets
        <4> QED
          BY <3>1, <4>1 DEF ServingSpec, Serves, Plan
      <3>2. CASE new[a] # "off" /\ a \in newBinds
        <4>1. gen \in Gens /\ Serves(a, gen) /\ entry[<<a, gen>>] = new[a] /\ routes[<<a, gen>>] = gen
          BY <1>5, <3>2 DEF CommitEnd, IInv, TypeOK, PlanSound, Loops, Sockets, Reloading, Serves, Obj
        <4> QED
          BY <1>5, <3>2, <4>1 DEF ServingSpec, Plan, CommitEnd
      <3>3. CASE new[a] # "off" /\ a \notin newBinds
        <4>1. Keepable(a) /\ a \notin swaps
          BY <1>5, <3>3 DEF CommitEnd, IInv, Walked, Tables
        <4>2. /\ listeners[a] \in Gens /\ loop[Current(a)] = "accept"
              /\ entry[Current(a)] = new[a] /\ routes[Current(a)] = gen
          BY <1>5, <3>3, <4>1 DEF CommitEnd, IInv, TypeOK, Tables, Loops, Keepable, Up, Reloading
        <4>3. Serves(a, listeners[a])
          BY <1>5, <3>3, <4>2 DEF CommitEnd, IInv, Sockets, Serves, Current
        <4>4. Serving[a] = <<entry[Current(a)], routes[Current(a)]>>
          BY <4>2, <4>3 DEF ServingSpec, Current
        <4> QED
          BY <1>5, <3>3, <4>2, <4>4 DEF Plan, CommitEnd
      <3> QED
        BY <3>1, <3>2, <3>3
    <2>3. Serving = Plan
      BY <2>2 DEF ServingSpec, Plan
    <2>4. Plan' = S!Nothing
      BY <1>5 DEF CommitEnd, EndReload, Plan, S!Nothing
    <2> QED
      BY <1>5, <2>1, <2>3, <2>4 DEF CommitEnd, EndReload, S!EndCommit, S!Goto, Phase
  <1>6. newBinds \subseteq Addrs
    BY DEF IInv, TypeOK
  <1> QED
    BY <1>1, <1>2, <1>3, <1>4, <1>5, <1>6 DEF Commit, S!Next

(* Shutdown (server.go:373-404) and the connections (server.go:523-625).   *)
LEMMA RunRefines ==
    ASSUME IInv, ServingSpec, ServingSpec',
           \/ Shutdown \/ (\E a \in Addrs : ShutdownClose(a)) \/ ShutdownReturn
           \/ \E l \in Listeners : AcceptClosed(l) \/ \E c \in Conns : Accept(l, c)
           \/ \E c \in Conns : Route(c) \/ ConnEnd(c)
    PROVE  S!Next \/ UNCHANGED S!vars
  <1>1. ASSUME Shutdown PROVE S!Shutdown
    <2>1. Serving' = Serving
      BY <1>1, Untouched DEF Shutdown
    <2> QED
      BY <1>1, <2>1 DEF Shutdown, planVars, S!Shutdown, S!Goto, Phase, Plan
  <1>2. ASSUME NEW a \in Addrs, ShutdownClose(a) PROVE S!Close({a})
    <2>1. \A g \in Gens : ~Serves(a, g)'
      <3>1. \A g \in Gens : <<a, g>> \in bound => <<a, g>> = Current(a)
        BY <1>2 DEF ShutdownClose, IInv, Sockets, Current
      <3> QED
        BY <1>2, <3>1 DEF ShutdownClose, Serves
    <2>2. Serving'[a] = Unserved
      BY <2>1 DEF ServingSpec
    <2>3. \A b \in Addrs \ {a} : SameAt(b)
      BY <1>2 DEF ShutdownClose, SameAt, Serves, Current
    <2>4. \A b \in Addrs \ {a} : Serving'[b] = Serving[b]
      BY <2>3, ServingStays
    <2>5. Serving' = [b \in Addrs |-> IF b \in {a} THEN Unserved ELSE Serving[b]]
      BY <2>2, <2>4 DEF ServingSpec
    <2> QED
      BY <1>2, <2>5 DEF ShutdownClose, planVars, S!Close, Phase, Plan
  <1>3. ASSUME ShutdownReturn PROVE S!Stopped
    <2>1. Serving' = Serving
      BY <1>3, Untouched DEF ShutdownReturn
    <2>2. \A a \in Addrs, g \in Gens : ~Serves(a, g)
      BY <1>3, Pairs DEF ShutdownReturn, Serves
    <2>3. Serving = S!Nothing
      BY <2>2 DEF ServingSpec, S!Nothing
    <2> QED
      BY <1>3, <2>1, <2>3 DEF ShutdownReturn, planVars, S!Stopped, S!Goto, Phase, Plan
  <1>4. ASSUME NEW l \in Listeners, AcceptClosed(l) PROVE UNCHANGED S!vars
    <2>1. \A a \in Addrs : SameAt(a)
      BY <1>4, Pairs DEF AcceptClosed, ServerUnchanged, IInv, TypeOK, SameAt, Serves
    <2>2. Serving' = Serving
      BY <2>1, AllServingStay
    <2> QED
      BY <1>4, <2>2 DEF AcceptClosed, ServerUnchanged, planVars, S!vars, Phase, Plan
  <1>5. ASSUME NEW l \in Listeners, NEW c \in Conns, Accept(l, c) PROVE S!Connect
    <2>1. Serving' = Serving
      BY <1>5, Untouched DEF Accept, ServerUnchanged
    <2>2. Serving # S!Nothing
      <3>1. Serves(l[1], l[2])
        BY <1>5, Pairs DEF Accept, Serves
      <3>2. Serving[l[1]] = <<entry[l], routes[l]>> /\ l[1] \in Addrs
        BY <3>1, Pairs DEF ServingSpec
      <3>3. S!Nothing[l[1]] = << >>
        BY <3>2 DEF S!Nothing, Unserved
      <3>4. <<entry[l], routes[l]>> # << >>
        OBVIOUS
      <3> QED
        BY <3>2, <3>3, <3>4
    <2>3. \E b \in Conns : conn'[b].at # "none"
      BY <1>5 DEF Accept, IInv, Shapes
    <2> QED
      BY <1>5, <2>1, <2>2, <2>3 DEF Accept, ServerUnchanged, planVars, S!Connect, Phase, Plan
  <1>6. ASSUME NEW c \in Conns, Route(c) PROVE UNCHANGED S!vars
    <2>1. Serving' = Serving
      BY <1>6, Untouched DEF Route, ServerUnchanged
    <2>2. (\E b \in Conns : conn[b].at # "none") /\ \E b \in Conns : conn'[b].at # "none"
      <3>1. conn[c].at # "none" /\ conn'[c].at # "none"
        BY <1>6 DEF Route, IInv, Shapes, NoConn
      <3> QED
        BY <3>1
    <2> QED
      BY <1>6, <2>1, <2>2 DEF Route, ServerUnchanged, planVars, S!vars, Phase, Plan
  <1>7. ASSUME NEW c \in Conns, ConnEnd(c) PROVE S!ConnEnd \/ UNCHANGED S!vars
    <2>1. Serving' = Serving
      BY <1>7, Untouched DEF ConnEnd, ServerUnchanged
    <2>2. \E b \in Conns : conn[b].at # "none"
      BY <1>7 DEF ConnEnd
    <2>3. Phase' = Phase /\ Plan' = Plan
      BY <1>7 DEF ConnEnd, ServerUnchanged, planVars, Phase, Plan
    <2>4. CASE \E b \in Conns : conn'[b].at # "none"
      BY <2>1, <2>2, <2>3, <2>4 DEF S!vars
    <2>5. CASE ~ \E b \in Conns : conn'[b].at # "none"
      BY <2>1, <2>3, <2>5 DEF S!ConnEnd
    <2> QED
      BY <2>4, <2>5
  <1> QED
    BY <1>1, <1>2, <1>3, <1>4, <1>5, <1>6, <1>7 DEF S!Next

(* The inbound server implements module Server: a reload, its failure or   *)
(* its abort, a connection and Shutdown serve an address nothing but what  *)
(* was committed or, once the commit has begun, its new setting            *)
(* (server.go:198-404).                                                    *)
THEOREM ImplementsServerHolds == Spec => ImplementsServer
  <1>1. Init => S!Init
    <2> SUFFICES ASSUME Init PROVE S!Init
      OBVIOUS
    <2>1. Serving = S!Nothing
      BY DEF Init, Serving, Accepting, S!Nothing
    <2>2. Plan = S!Nothing /\ Phase = "new"
      BY DEF Init, Plan, Phase, S!Nothing
    <2>3. ~ \E c \in Conns : conn[c].at # "none"
      BY DEF Init, NoConn
    <2> QED
      BY <2>1, <2>2, <2>3 DEF S!Init
  <1>2. IInv /\ IInv' /\ [Next]_vars => [S!Next]_(S!vars)
    <2> SUFFICES ASSUME IInv, IInv', [Next]_vars PROVE S!Next \/ UNCHANGED S!vars
      OBVIOUS
    <2>1. ServingSpec
      BY ServingIs DEF IInv
    <2>2. TypeOK' => ServingSpec'
      BY ServingIs, PTL
    <2>3. ServingSpec'
      BY <2>2 DEF IInv
    <2>4. CASE UNCHANGED vars
      <3>1. Serving' = Serving
        BY <2>1, <2>3, <2>4, Untouched DEF vars
      <3> QED
        BY <2>4, <3>1 DEF vars, planVars, S!vars, Phase, Plan
    <2> QED
      BY <2>1, <2>3, <2>4, StartRefines, PrepareRefines, CommitRefines, RunRefines DEF Next
  <1> QED
    BY <1>1, <1>2, IInvHolds, PTL DEF Spec, ImplementsServer, S!Spec
=============================================================================
