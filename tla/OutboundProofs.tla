--------------------------- MODULE OutboundProofs ---------------------------
(***************************************************************************)
(* The outbound server's safety properties, for any ports, any             *)
(* configurations and any number of reloads, and that it implements module *)
(* Server.                                                                 *)
(*                                                                         *)
(* The invariant has two layers.  Structure says, at each point of Start,  *)
(* a reload and Shutdown, which listener each port has, which sockets are  *)
(* open, what settings a listener offers and which loops run; it does not  *)
(* mention a reference count.  On top of it the counts are exact because   *)
(* every step moves the holders of a sink and its count together, and a    *)
(* new sink starts at a count of zero.                                     *)
(***************************************************************************)
EXTENDS Outbound, FiniteSetTheorems, TLAPS

Reloading == {"stage", "swap", "close"}

(* The server is up: Start has returned and Shutdown has not been called.  *)
Up == {"idle"} \cup Reloading

Starting == {"construct", "bind"}

(* TypeOK without the sinks; the history is typed too, and the committed   *)
(* generation is older than the one that is being staged.                  *)
Shapes ==
    /\ pc \in {"construct", "bind", "dead", "idle", "stage", "swap", "close", "shutdown",
               "wait", "forced", "returned"}
    /\ gen \in Gens /\ new \in Configs
    /\ todo \subseteq Ports /\ swaps \subseteq Ports /\ newBinds \subseteq Ports
    /\ job \in {NoJob} \cup [op : {"unlink"}, l : Listeners] \cup [op : {"release"}, s : Sinks]
    /\ listeners \in [Ports -> Gens \cup {Nil}]
    /\ mode \in [Listeners -> Modes \cup {"off"}]
    /\ live \in [Listeners -> Gens \cup {Nil}]
    /\ bound \subseteq Listeners
    /\ loop \in [Listeners -> {"off", "accept", "track", "load", "acquire", "relay", "untrack",
                               "exited"}]
    /\ snap \in [Listeners -> Gens \cup {Nil}]
    /\ tracked \subseteq Listeners /\ severed \subseteq Listeners
    /\ committed \in [gen : Gens \cup {Nil}, config : [Ports -> Modes \cup {"off"}]]

Ordered ==
    pc \in Up =>
        /\ committed.gen \in Gens /\ committed.gen <= gen
        /\ pc \in Reloading => committed.gen < gen

(* NewServer has built the listener of a port.                             *)
IsBuilt(p) == new[p] # "off" /\ (pc = "bind" \/ p \notin todo)

(* NewServer and Start take the entries one by one (server.go:105-214).    *)
AtStart ==
    pc \in Starting =>
        /\ todo \subseteq {p \in Ports : new[p] # "off"}
        /\ \A p \in Ports :
              /\ listeners[p] = IF IsBuilt(p) THEN gen ELSE Nil
              /\ IsBuilt(p) => mode[Obj(p)] = new[p] /\ live[Obj(p)] = gen
              /\ \A g \in Gens :
                    /\ mode[<<p, g>>] # "off" => g = gen /\ IsBuilt(p)
                    /\ <<p, g>> \in bound <=>
                          pc = "bind" /\ g = gen /\ new[p] # "off" /\ p \notin todo

NotServed == pc \in Starting \cup {"dead"} => \A l \in Listeners : loop[l] = "off"

(* Where there is no reload there is no plan, and where nothing is closed  *)
(* there is no job.                                                        *)
Quiet ==
    /\ pc \notin {"stage", "swap"} => swaps = {}
    /\ pc \notin Reloading => newBinds = {}
    /\ pc \notin {"swap", "close", "shutdown"} => job = NoJob

Agree ==
    pc \in Up => \A p \in Ports :
        /\ listeners[p] = Nil <=> committed.config[p] = "off"
        /\ listeners[p] # Nil => /\ listeners[p] <= gen
                                 /\ pc \in Reloading => listeners[p] < gen
                                 /\ mode[Current(p)] = committed.config[p]

Kept(p) == listeners[p] # Nil /\ mode[Current(p)] = new[p] /\ new[p] # "off"

(* The plan: an entry is still to be walked, swapped or newly bound        *)
(* (PrepareApply, server.go:257-384).                                      *)
PlanSound ==
    pc \in Reloading =>
        /\ \A p \in swaps : Kept(p)
        /\ \A p \in newBinds :
              /\ new[p] # "off" /\ listeners[p] = Nil
              /\ mode[Obj(p)] = new[p] /\ live[Obj(p)] = gen

Walked ==
    /\ pc = "stage" =>
          /\ todo \subseteq {p \in Ports : new[p] # "off"}
          /\ todo \cap (swaps \cup newBinds) = {}
          /\ \A p \in Ports : new[p] # "off" => p \in todo \cup swaps \cup newBinds
    /\ pc \in {"swap", "close"} =>
          \A p \in Ports : new[p] # "off" => p \in newBinds \/ Kept(p)

(* The sockets: those of the listeners and, during a reload, those that    *)
(* the plan has bound; CommitApply and Shutdown close some of them.        *)
Sockets ==
    /\ pc = "idle" =>
          \A p \in Ports, g \in Gens : <<p, g>> \in bound <=> listeners[p] = g
    /\ pc \in {"stage", "swap"} =>
          \A p \in Ports, g \in Gens :
              <<p, g>> \in bound <=> listeners[p] = g \/ (p \in newBinds /\ g = gen)
    /\ pc = "close" =>
          \A p \in Ports, g \in Gens :
              /\ <<p, g>> \in bound => listeners[p] = g \/ (p \in newBinds /\ g = gen)
              /\ p \in newBinds /\ g = gen => <<p, g>> \in bound
              /\ listeners[p] = g /\ new[p] # "off" => <<p, g>> \in bound
    /\ pc = "shutdown" =>
          \A p \in Ports, g \in Gens : <<p, g>> \in bound => listeners[p] = g
    /\ pc \in {"dead", "wait", "forced", "returned"} => bound = {}

(* The settings that the listeners offer: between reloads the committed    *)
(* ones, and during a commit the new ones once they are stored.            *)
Settings ==
    /\ pc \in {"idle", "stage"} =>
          \A p \in Ports : listeners[p] # Nil => live[Current(p)] = committed.gen
    /\ pc = "swap" => \A p \in swaps : live[Current(p)] = committed.gen
    /\ pc \in {"swap", "close"} =>
          \A p \in Ports : Kept(p) /\ p \notin swaps => live[Current(p)] = gen

(* A log_relay listener has a relayState exactly while its socket is open, *)
(* or until the close() that is under way unlinks it; before Start has     *)
(* bound them, all that NewServer has built have one.                      *)
Offered ==
    /\ \A l \in bound : live[l] # Nil
    /\ \A l \in Listeners : mode[l] = "log" /\ live[l] # Nil =>
          l \in bound \/ pc \in Starting \/ job = [op |-> "unlink", l |-> l]
    /\ job.op = "unlink" =>
          /\ mode[job.l] = "log" /\ live[job.l] # Nil /\ job.l \notin bound
          /\ pc = "close" \/ pc = "shutdown"
          /\ pc = "close" => new[job.l[1]] = "off"

(* The accept loops; a handler that is about to take or holds a reference  *)
(* has loaded settings.                                                    *)
Loops ==
    /\ pc \in Up => \A p \in Ports :
          listeners[p] # Nil /\ (pc = "close" => new[p] # "off") =>
              loop[Current(p)] \notin {"off", "exited"}
    /\ pc = "close" => \A p \in newBinds : loop[Obj(p)] \notin {"off", "exited"}
    /\ \A l \in Listeners : loop[l] \in {"acquire", "relay"} => snap[l] # Nil

(* An object of the generation that is being staged is new.                *)
FreshObjects ==
    \A p \in Ports, g \in Gens :
        /\ mode[<<p, g>>] # "off" => g <= gen /\ (pc = "stage" /\ g = gen => p \in newBinds)
        /\ loop[<<p, g>>] # "off" => g <= gen /\ (pc \in {"stage", "swap"} => g < gen)

Placed ==
    /\ Shapes /\ Ordered /\ AtStart /\ NotServed /\ Quiet /\ Agree /\ PlanSound /\ Walked
    /\ Sockets /\ Settings /\ Offered /\ Loops

Structure == Placed /\ FreshObjects

(* A sink that the plan, or NewServer, has not opened yet has no           *)
(* reference.                                                              *)
FreshSinks ==
    \A p \in Ports, g \in Gens :
        refs[<<p, g>>] > 0 =>
            /\ g <= gen
            /\ pc = "construct" => p \notin todo
            /\ pc = "stage" /\ g = gen => p \in swaps \cup newBinds

(* Shutdown returns after the last accept loop.                            *)
Drained == pc = "returned" => \A l \in Listeners : loop[l] \in {"off", "exited"}

(* The inductive invariant.                                                *)
IInv == Structure /\ TypeOK /\ FreshSinks /\ RefsExact /\ OpenIffReferenced /\ Drained
-----------------------------------------------------------------------------
(* Structure.                                                              *)

(* Listeners and sinks are pairs.                                          *)
LEMMA Pairs ==
    /\ \A p \in Ports, g \in Gens : <<p, g>> \in Listeners
    /\ \A l \in Listeners : l[1] \in Ports /\ l[2] \in Gens /\ l = <<l[1], l[2]>>
    /\ Listeners = Sinks
    /\ Nil \notin Gens
    /\ \A g \in Gens : g \in Nat
  BY OutboundAssumption DEF Listeners, Sinks, Gens, Nil

(* NewServer or Start fails: what was built is closed again                *)
(* (server.go:159-165, 199-206).                                           *)
LEMMA StartFailStep ==
    ASSUME Placed, NEW p \in Ports, ConstructFail(p) \/ BindFail(p) PROVE Placed'
  <1>1. /\ pc \in Starting /\ pc' = "dead"
        /\ UNCHANGED <<gen, new, todo, swaps, newBinds, job, listeners, mode>>
        /\ UNCHANGED <<loop, snap, tracked, severed, committed>>
    BY DEF ConstructFail, BindFail, planVars, connVars, Starting
  <1>2. \A l \in Listeners : mode[l] = "log" => l \in Built
    <2> SUFFICES ASSUME NEW l \in Listeners, mode[l] = "log" PROVE l \in Built
      OBVIOUS
    <2>1. l[1] \in Ports /\ l[2] \in Gens /\ l = <<l[1], l[2]>>
      BY Pairs
    <2>2. l[2] = gen /\ IsBuilt(l[1]) /\ listeners[l[1]] = l[2] /\ listeners[l[1]] # Nil
      BY <1>1, <2>1, Pairs DEF Placed, AtStart
    <2> QED
      BY <2>1, <2>2 DEF Built
  <1>3. bound' = {} /\ live' \in [Listeners -> Gens \cup {Nil}]
    <2>1. CASE ConstructFail(p)
      <3>1. bound = {} /\ bound' = bound
        BY <2>1, Pairs DEF ConstructFail, Placed, Shapes, AtStart, Starting
      <3> QED
        BY <2>1, <3>1 DEF ConstructFail, Placed, Shapes
    <2>2. CASE BindFail(p)
      <3>1. \A l \in bound : l \in Built
        BY <2>2, Pairs DEF BindFail, Placed, Shapes, AtStart, Starting, Built, IsBuilt
      <3> QED
        BY <2>2, <3>1 DEF BindFail, CloseUnstarted, Placed, Shapes
    <2> QED
      BY <2>1, <2>2
  <1>4. \A l \in Listeners : mode[l] = "log" => live'[l] = Nil
    BY <1>2 DEF ConstructFail, BindFail, CloseUnstarted, OwnLogSinks
  <1>5. swaps = {} /\ newBinds = {} /\ job = NoJob /\ NoJob.op # "unlink"
    BY <1>1 DEF Placed, Quiet, Starting, Reloading, NoJob
  <1>6. Shapes'
    BY <1>1, <1>3 DEF Placed, Shapes
  <1>7. Offered'
    BY <1>1, <1>3, <1>4, <1>5 DEF Offered
  <1>8. Ordered' /\ AtStart' /\ Quiet' /\ Agree' /\ PlanSound' /\ Walked' /\ Sockets' /\ Settings'
    BY <1>1, <1>3, <1>5 DEF Ordered, AtStart, Quiet, Agree, PlanSound, Walked, Sockets, Settings, Up,
                            Reloading, Starting
  <1>9. NotServed' /\ Loops'
    BY <1>1 DEF Placed, NotServed, Loops, Up, Reloading, Starting
  <1> QED
    BY <1>6, <1>7, <1>8, <1>9 DEF Placed

(* The last entry is bound: the loops start (server.go:207-213).           *)
LEMMA StartLoopsStep == Placed /\ StartLoops => Placed'
  <1> SUFFICES ASSUME Placed, StartLoops PROVE Placed'
    OBVIOUS
  <1>0. Nil \notin Gens /\ \A g \in Gens : g \in Nat
    BY Pairs
  <1>1. /\ pc = "bind" /\ pc' = "idle" /\ gen \in Gens /\ gen \in Nat
        /\ UNCHANGED <<gen, new, todo, swaps, newBinds, job, listeners, mode, live, bound, snap>>
        /\ UNCHANGED <<tracked, severed>>
    BY <1>0 DEF Placed, Shapes, StartLoops, planVars
  <1>2. \A p \in Ports : listeners[p] = IF new[p] = "off" THEN Nil ELSE gen
    BY <1>1 DEF Placed, AtStart, Starting, IsBuilt
  <1>3. \A p \in Ports :
          /\ new[p] # "off" => mode[<<p, gen>>] = new[p] /\ live[<<p, gen>>] = gen
          /\ \A g \in Gens : <<p, g>> \in bound <=> g = gen /\ new[p] # "off"
    BY <1>1 DEF Placed, AtStart, StartLoops, Starting, IsBuilt, Obj
  <1>4. committed' = [gen |-> gen, config |-> new]
    BY DEF StartLoops
  <1>5. /\ \A l \in Listeners : loop'[l] = IF l \in bound THEN "accept" ELSE "off"
        /\ loop' \in [Listeners -> {"off", "accept", "track", "load", "acquire", "relay",
                                    "untrack", "exited"}]
    BY <1>1 DEF Placed, Shapes, NotServed, Starting, StartLoops
  <1>6. \A p \in Ports : listeners'[p] # Nil =>
          /\ mode'[Current(p)'] = new[p] /\ live'[Current(p)'] = gen
          /\ loop'[Current(p)'] = "accept"
    BY <1>0, <1>1, <1>2, <1>3, <1>5, Pairs DEF Current
  <1>7. Shapes'
    BY <1>1, <1>4, <1>5, OutboundAssumption DEF Placed, Shapes
  <1>8. Ordered' /\ Agree' /\ Settings'
    BY <1>0, <1>1, <1>2, <1>4, <1>6 DEF Ordered, Agree, Settings, Up, Reloading
  <1>9. Sockets'
    BY <1>0, <1>1, <1>2, <1>3 DEF Sockets
  <1>10. Loops'
    BY <1>1, <1>5, <1>6 DEF Loops
  <1>11. Offered'
    <2>1. \A l \in Listeners : mode[l] = "log" => l \in bound
      <3> SUFFICES ASSUME NEW l \in Listeners, mode[l] = "log" PROVE l \in bound
        OBVIOUS
      <3>1. l[1] \in Ports /\ l[2] \in Gens /\ l = <<l[1], l[2]>>
        BY Pairs
      <3>2. l[2] = gen /\ new[l[1]] # "off"
        BY <1>1, <3>1 DEF Placed, AtStart, Starting, IsBuilt
      <3> QED
        BY <1>3, <3>1, <3>2
    <2>2. job = NoJob /\ NoJob.op # "unlink"
      BY <1>1 DEF Placed, Quiet, NoJob
    <2> QED
      BY <1>1, <2>1, <2>2 DEF Placed, Offered
  <1>12. AtStart' /\ NotServed' /\ Quiet' /\ PlanSound' /\ Walked'
    BY <1>1 DEF Placed, AtStart, NotServed, Quiet, PlanSound, Walked, Reloading, Starting
  <1> QED
    BY <1>7, <1>8, <1>9, <1>10, <1>11, <1>12 DEF Placed

(* The commit ends: s.listeners = p.next (server.go:435-436).              *)
LEMMA CommitEndStep == Placed /\ CommitEnd => Placed'
  <1> SUFFICES ASSUME Placed, CommitEnd PROVE Placed'
    OBVIOUS
  <1>0. Nil \notin Gens /\ \A g \in Gens : g \in Nat
    BY Pairs
  <1>1. /\ pc = "close" /\ pc' = "idle" /\ gen \in Gens /\ gen \in Nat
        /\ UNCHANGED <<gen, new, job, mode, live, bound, loop, snap, tracked, severed>>
        /\ todo' = {} /\ swaps' = {} /\ newBinds' = {} /\ job = NoJob
    BY <1>0 DEF Placed, Shapes, CommitEnd, EndReload, connVars
  <1>2. committed' = [gen |-> gen, config |-> new]
    BY DEF CommitEnd
  <1>3. /\ listeners' \in [Ports -> Gens \cup {Nil}]
        /\ \A p \in Ports : listeners'[p] = IF new[p] = "off" THEN Nil
                                            ELSE IF p \in newBinds THEN gen ELSE listeners[p]
    BY <1>1 DEF CommitEnd, Placed, Shapes
  <1>4. \A p \in Ports : new[p] # "off" /\ p \notin newBinds => Kept(p)
    BY <1>1 DEF Placed, Walked
  <1>5. \A p \in newBinds : listeners[p] = Nil /\ new[p] # "off" /\ p \in Ports
    BY <1>1 DEF Placed, Shapes, PlanSound, Reloading
  <1>6. \A p \in Ports : new[p] = "off" => \A g \in Gens : <<p, g>> \notin bound
    <2>1. \A p \in Ports : new[p] = "off" /\ listeners[p] # Nil => <<p, listeners[p]>> \notin bound
      BY DEF CommitEnd, Current
    <2> QED
      BY <1>0, <1>1, <1>5, <2>1 DEF Placed, Sockets
  <1>7. \A p \in Ports, g \in Gens : <<p, g>> \in bound <=> listeners'[p] = g
    <2> TAKE p \in Ports, g \in Gens
    <2>1. CASE new[p] = "off"
      BY <1>0, <1>3, <1>6, <2>1
    <2>2. CASE new[p] # "off" /\ p \in newBinds
      BY <1>0, <1>1, <1>3, <1>5, <2>2 DEF Placed, Sockets
    <2>3. CASE new[p] # "off" /\ p \notin newBinds
      BY <1>1, <1>3, <2>3 DEF Placed, Sockets
    <2> QED
      BY <2>1, <2>2, <2>3
  <1>8. \A p \in Ports : new[p] # "off" =>
          /\ mode[<<p, listeners'[p]>>] = new[p] /\ live[<<p, listeners'[p]>>] = gen
          /\ loop[<<p, listeners'[p]>>] \notin {"off", "exited"}
    <2> TAKE p \in Ports
    <2> HAVE new[p] # "off"
    <2>1. CASE p \in newBinds
      BY <1>1, <1>3, <2>1 DEF Placed, PlanSound, Loops, Reloading, Obj
    <2>2. CASE p \notin newBinds
      BY <1>1, <1>3, <1>4, <2>2 DEF Placed, Quiet, Kept, Settings, Loops, Up, Reloading, Current
    <2> QED
      BY <2>1, <2>2
  <1>9. Shapes'
    BY <1>1, <1>2, <1>3, OutboundAssumption DEF Placed, Shapes
  <1>10. Ordered' /\ Agree'
    <2>1. \A p \in Ports : new[p] # "off" => listeners'[p] \in Gens /\ listeners'[p] <= gen
      BY <1>1, <1>3, <1>4 DEF Placed, Shapes, Agree, Up, Reloading, Kept
    <2> QED
      BY <1>0, <1>1, <1>2, <1>3, <1>8, <2>1 DEF Ordered, Agree, Up, Reloading, Current
  <1>11. Sockets'
    BY <1>1, <1>7 DEF Sockets
  <1>12. Settings' /\ Loops'
    BY <1>1, <1>2, <1>3, <1>8 DEF Placed, Settings, Loops, Current
  <1>13. Offered'
    BY <1>1 DEF Placed, Offered, Starting, NoJob
  <1>14. AtStart' /\ NotServed' /\ Quiet' /\ PlanSound' /\ Walked'
    BY <1>1 DEF AtStart, NotServed, Quiet, PlanSound, Walked, Reloading, Starting
  <1> QED
    BY <1>9, <1>10, <1>11, <1>12, <1>13, <1>14 DEF Placed

(* Every step keeps what is where.                                         *)
LEMMA PlacedStep == Placed /\ [Next]_vars => Placed'
  <1> SUFFICES ASSUME Placed, [Next]_vars PROVE Placed'
    OBVIOUS
  <1> USE Pairs, OutboundAssumption
      DEF Placed, Shapes, Ordered, AtStart, NotServed, Quiet, Agree, PlanSound, Walked, Sockets,
          Settings, Offered, Loops, Up, Reloading, Starting, IsBuilt, Kept, Current, Obj, NoJob,
          Modes
  <1>1. ASSUME NEW p \in Ports, ConstructListener(p) PROVE Placed'
    BY <1>1 DEF ConstructListener, IsNext, connVars
  <1>2. ASSUME NEW p \in Ports, ConstructFail(p) PROVE Placed'
    BY <1>2, StartFailStep
  <1>3. CASE StartBinding
    BY <1>3 DEF StartBinding, connVars
  <1>4. ASSUME NEW p \in Ports, Bind(p) PROVE Placed'
    BY <1>4 DEF Bind, IsNext, connVars
  <1>5. ASSUME NEW p \in Ports, BindFail(p) PROVE Placed'
    BY <1>5, StartFailStep
  <1>6. CASE StartLoops
    BY <1>6, StartLoopsStep
  <1>7. ASSUME NEW c \in Configs, BeginReload(c) PROVE Placed'
    <2>1. gen' \in Gens /\ gen' = gen + 1 /\ gen \in Nat
      BY <1>7 DEF BeginReload, Gens
    <2>2. Shapes'
      BY <1>7, <2>1 DEF BeginReload, connVars
    <2>3. /\ Ordered' /\ AtStart' /\ NotServed' /\ Quiet' /\ Agree' /\ PlanSound'
          /\ Walked' /\ Sockets' /\ Settings' /\ Offered' /\ Loops'
      BY <1>7, <2>1 DEF BeginReload, connVars
    <2> QED
      BY <2>2, <2>3
  <1>8. ASSUME NEW p \in Ports, StageSwap(p) PROVE Placed'
    BY <1>8 DEF StageSwap, IsNext, connVars
  <1>9. ASSUME NEW p \in Ports, StageBind(p) PROVE Placed'
    BY <1>9 DEF StageBind, IsNext, connVars
  <1>10. ASSUME NEW p \in Ports, StageFail(p) PROVE Placed'
    BY <1>10 DEF StageFail, IsNext, DiscardPlan, CloseUnstarted, Staged, EndReload, connVars
  <1>11. CASE AbortApply
    BY <1>11 DEF AbortApply, DiscardPlan, CloseUnstarted, Staged, EndReload, connVars
  <1>12. CASE BeginCommit
    <2>1. ASSUME NEW p \in Ports, Kept(p) PROVE p \in swaps
      BY <1>12, <2>1 DEF BeginCommit
    <2>2. Settings'
      BY <1>12, <2>1 DEF BeginCommit, planVars
    <2>3. /\ Shapes' /\ Ordered' /\ AtStart' /\ NotServed' /\ Quiet' /\ Agree'
          /\ PlanSound' /\ Walked' /\ Sockets' /\ Offered' /\ Loops'
      BY <1>12 DEF BeginCommit, planVars, connVars
    <2> QED
      BY <2>2, <2>3
  <1>13. ASSUME NEW p \in Ports, CommitSwap(p) PROVE Placed'
    BY <1>13 DEF CommitSwap, connVars
  <1>14. CASE CommitStart
    BY <1>14 DEF CommitStart, planVars, Staged
  <1>15. ASSUME NEW p \in Ports, CommitClose(p) PROVE Placed'
    <2>1. /\ Shapes' /\ Ordered' /\ AtStart' /\ NotServed' /\ Quiet' /\ Agree'
          /\ PlanSound' /\ Walked' /\ Settings'
      BY <1>15 DEF CommitClose, CloseListener, planVars, connVars
    <2>2. Sockets'
      BY <1>15 DEF CommitClose, CloseListener, planVars
    <2>3. Offered'
      <3> DEFINE l == Current(p)
      <3>1. /\ pc = "close" /\ pc' = pc /\ new[p] = "off" /\ l \in bound /\ l[1] = p
            /\ job = NoJob /\ bound' = bound \ {l}
            /\ job' = IF mode[l] = "log" THEN [op |-> "unlink", l |-> l] ELSE NoJob
            /\ UNCHANGED <<new, mode, live>>
        BY <1>15 DEF CommitClose, CloseListener, planVars
      <3> HIDE DEF l
      <3> QED
        BY <3>1
    <2>4. Loops'
      BY <1>15 DEF CommitClose, CloseListener, planVars, connVars
    <2> QED
      BY <2>1, <2>2, <2>3, <2>4
  <1>16. CASE CommitEnd
    BY <1>16, CommitEndStep
  <1>17. CASE JobUnlink
    BY <1>17 DEF JobUnlink, planVars, connVars
  <1>18. CASE JobRelease
    BY <1>18 DEF JobRelease, planVars, connVars
  <1>19. CASE Shutdown
    BY <1>19 DEF Shutdown, planVars, connVars
  <1>20. ASSUME NEW p \in Ports, ShutdownClose(p) PROVE Placed'
    <2>1. Offered'
      <3>1. CASE mode[Current(p)] = "log"
        BY <1>20, <3>1 DEF ShutdownClose, CloseListener
      <3>2. CASE mode[Current(p)] # "log"
        BY <1>20, <3>2 DEF ShutdownClose, CloseListener
      <3> QED
        BY <3>1, <3>2
    <2>2. /\ Shapes' /\ Ordered' /\ AtStart' /\ NotServed' /\ Quiet' /\ Agree'
          /\ PlanSound' /\ Walked' /\ Sockets' /\ Settings' /\ Loops'
      BY <1>20 DEF ShutdownClose, CloseListener, planVars, connVars
    <2> QED
      BY <2>1, <2>2
  <1>21. CASE ShutdownWait
    BY <1>21 DEF ShutdownWait, planVars, connVars
  <1>22. CASE GraceExpires
    BY <1>22 DEF GraceExpires, planVars
  <1>23. CASE ShutdownReturn
    BY <1>23 DEF ShutdownReturn, planVars, connVars
  <1>24. ASSUME NEW l \in Listeners, Accept(l) PROVE Placed'
    BY <1>24 DEF Accept, LoopGoto, ServerUnchanged, planVars
  <1>25. ASSUME NEW l \in Listeners, AcceptClosed(l) PROVE Placed'
    BY <1>25 DEF AcceptClosed, LoopGoto, ServerUnchanged, planVars
  <1>26. ASSUME NEW l \in Listeners, TrackConn(l) PROVE Placed'
    BY <1>26 DEF TrackConn, LoopGoto, ServerUnchanged, planVars
  <1>27. ASSUME NEW l \in Listeners, Load(l) PROVE Placed'
    BY <1>27 DEF Load, LoopGoto, ServerUnchanged, planVars
  <1>28. ASSUME NEW l \in Listeners, Acquire(l) PROVE Placed'
    <2>1. /\ UNCHANGED <<pc, gen, new, todo, swaps, newBinds, job, listeners, mode, live, bound,
                         committed, snap, tracked, severed>>
          /\ loop[l] = "acquire"
          /\ \E to \in {"load", "relay"} : loop' = [loop EXCEPT ![l] = to]
      BY <1>28 DEF Acquire, LoopGoto, ServerUnchanged, planVars
    <2>2. /\ Shapes' /\ Ordered' /\ AtStart' /\ NotServed' /\ Quiet' /\ Agree'
          /\ PlanSound' /\ Walked' /\ Sockets' /\ Settings' /\ Offered'
      BY <2>1
    <2>3. Loops'
      BY <2>1
    <2> QED
      BY <2>2, <2>3
  <1>29. ASSUME NEW l \in Listeners, RelayEnd(l) PROVE Placed'
    BY <1>29 DEF RelayEnd, LoopGoto, ServerUnchanged, planVars
  <1>30. ASSUME NEW l \in Listeners, UntrackConn(l) PROVE Placed'
    BY <1>30 DEF UntrackConn, LoopGoto, ServerUnchanged, planVars
  <1>31. CASE UNCHANGED vars
    BY <1>31 DEF vars, planVars, connVars
  <1> QED
    BY <1>1, <1>2, <1>3, <1>4, <1>5, <1>6, <1>7, <1>8, <1>9, <1>10, <1>11, <1>12, <1>13, <1>14,
       <1>15, <1>16, <1>17, <1>18, <1>19, <1>20, <1>21, <1>22, <1>23, <1>24, <1>25, <1>26, <1>27, <1>28,
       <1>29, <1>30, <1>31
       DEF Next, Boot, Prepare, Commit, Stopping, Jobs, Handler

(* A step that starts no loop, builds no object and begins no reload.      *)
LEMMA FreshKept ==
    ASSUME FreshObjects, gen' = gen, mode' = mode,
           \A l \in Listeners : loop'[l] # "off" => loop[l] # "off",
           pc' = "stage" => pc = "stage" /\ newBinds \subseteq newBinds',
           pc' = "swap" => pc \in {"stage", "swap"}
    PROVE  FreshObjects'
  <1> SUFFICES ASSUME NEW p \in Ports, NEW g \in Gens
               PROVE  /\ mode[<<p, g>>] # "off" =>
                            g <= gen /\ (pc' = "stage" /\ g = gen => p \in newBinds')
                      /\ loop'[<<p, g>>] # "off" => g <= gen /\ (pc' \in {"stage", "swap"} => g < gen)
    BY DEF FreshObjects
  <1>1. <<p, g>> \in Listeners
    BY Pairs
  <1>2. mode[<<p, g>>] # "off" => g <= gen /\ (pc = "stage" /\ g = gen => p \in newBinds)
    BY DEF FreshObjects
  <1>3. loop[<<p, g>>] # "off" => g <= gen /\ (pc \in {"stage", "swap"} => g < gen)
    BY DEF FreshObjects
  <1> QED
    BY <1>1, <1>2, <1>3

(* An object built at this generation for a port that now has been walked. *)
LEMMA FreshBuilt ==
    ASSUME FreshObjects, Placed, NEW p \in Ports, gen' = gen, loop' = loop, pc' = pc,
           mode' = [mode EXCEPT ![Obj(p)] = new[p]], newBinds' = newBinds \cup {p} \/ pc # "stage"
    PROVE  FreshObjects'
  <1> SUFFICES ASSUME NEW q \in Ports, NEW g \in Gens
               PROVE  /\ mode'[<<q, g>>] # "off" =>
                            g <= gen /\ (pc = "stage" /\ g = gen => q \in newBinds')
                      /\ loop[<<q, g>>] # "off" => g <= gen /\ (pc \in {"stage", "swap"} => g < gen)
    BY DEF FreshObjects
  <1>1. loop[<<q, g>>] # "off" => g <= gen /\ (pc \in {"stage", "swap"} => g < gen)
    BY DEF FreshObjects
  <1>2. mode[<<q, g>>] # "off" => g <= gen /\ (pc = "stage" /\ g = gen => q \in newBinds)
    BY DEF FreshObjects
  <1>3. gen \in Gens /\ gen \in Nat /\ <<q, g>> \in Listeners
    BY Pairs DEF Placed, Shapes
  <1>4. <<q, g>> = Obj(p) \/ mode'[<<q, g>>] = mode[<<q, g>>]
    BY <1>3 DEF Placed, Shapes
  <1>5. <<q, g>> = Obj(p) => q = p /\ g = gen
    BY DEF Obj
  <1>6. g = gen => g <= gen
    BY <1>3
  <1> QED
    BY <1>1, <1>2, <1>4, <1>5, <1>6

(* Every step keeps the freshness of what is not yet built.                *)
LEMMA FreshStep == Structure /\ [Next]_vars => FreshObjects'
  <1> SUFFICES ASSUME Structure, [Next]_vars PROVE FreshObjects'
    OBVIOUS
  <1> USE DEF Structure
  <1>1. ASSUME NEW p \in Ports, ConstructListener(p) \/ StageBind(p) PROVE FreshObjects'
    BY <1>1, FreshBuilt DEF ConstructListener, StageBind, connVars
  <1>2. CASE StartLoops
    <2>1. /\ pc = "bind" /\ pc' = "idle" /\ gen' = gen /\ mode' = mode
          /\ gen \in Gens /\ gen \in Nat
      BY <1>2, Pairs DEF StartLoops, planVars, Placed, Shapes
    <2>2. ASSUME NEW p \in Ports, NEW g \in Gens, loop'[<<p, g>>] # "off" PROVE g = gen
      <3>1. <<p, g>> \in Listeners /\ loop[<<p, g>>] = "off"
        BY <2>1, Pairs DEF Placed, NotServed, Starting
      <3>2. <<p, g>> \in bound
        BY <1>2, <2>2, <3>1 DEF StartLoops
      <3> QED
        BY <2>1, <3>2 DEF Placed, AtStart, Starting
    <2>3. \A p \in Ports, g \in Gens : mode[<<p, g>>] # "off" => g <= gen
      BY DEF FreshObjects
    <2>4. \A p \in Ports, g \in Gens : loop'[<<p, g>>] # "off" => g <= gen
      <3>1. gen <= gen
        BY <2>1
      <3> QED
        BY <2>2, <3>1
    <2> QED
      BY <2>1, <2>3, <2>4 DEF FreshObjects
  <1>3. ASSUME NEW c \in Configs, BeginReload(c) PROVE FreshObjects'
    <2>1. gen' = gen + 1 /\ mode' = mode /\ loop' = loop /\ gen \in Nat
      BY <1>3, Pairs DEF BeginReload, connVars, Placed, Shapes
    <2>2. \A g \in Gens : g <= gen => g <= gen' /\ g < gen' /\ g # gen'
      BY <2>1, Pairs
    <2>3. \A p \in Ports, g \in Gens :
            (mode[<<p, g>>] # "off" => g <= gen) /\ (loop[<<p, g>>] # "off" => g <= gen)
      BY DEF FreshObjects
    <2> QED
      BY <2>1, <2>2, <2>3 DEF FreshObjects
  <1>4. CASE CommitStart
    <2>1. pc' = "close" /\ gen' = gen /\ mode' = mode /\ gen \in Gens /\ gen \in Nat
      BY <1>4, Pairs DEF CommitStart, planVars, Placed, Shapes
    <2>2. ASSUME NEW p \in Ports, NEW g \in Gens, loop'[<<p, g>>] # "off"
          PROVE  g = gen \/ loop[<<p, g>>] # "off"
      BY <1>4, <2>2, Pairs DEF CommitStart, Staged, Obj
    <2>3. \A p \in Ports, g \in Gens :
            (mode[<<p, g>>] # "off" => g <= gen) /\ (loop[<<p, g>>] # "off" => g <= gen)
      BY DEF FreshObjects
    <2>4. \A p \in Ports, g \in Gens : loop'[<<p, g>>] # "off" => g <= gen
      <3>1. gen <= gen
        BY <2>1
      <3> QED
        BY <2>2, <2>3, <3>1
    <2> QED
      BY <2>1, <2>3, <2>4 DEF FreshObjects
  <1>5. CASE (\E p \in Ports : ConstructFail(p) \/ Bind(p) \/ BindFail(p)) \/ StartBinding
    BY <1>5, FreshKept DEF ConstructFail, Bind, BindFail, StartBinding, planVars, connVars
  <1>6. CASE (\E p \in Ports : StageSwap(p) \/ StageFail(p)) \/ AbortApply \/ BeginCommit
    BY <1>6, FreshKept DEF StageSwap, StageFail, AbortApply, BeginCommit, EndReload, planVars, connVars
  <1>7. CASE (\E p \in Ports : CommitSwap(p) \/ CommitClose(p) \/ ShutdownClose(p)) \/ CommitEnd
    BY <1>7, FreshKept DEF CommitSwap, CommitClose, ShutdownClose, CommitEnd, EndReload, planVars,
                           connVars
  <1>8. CASE Shutdown \/ ShutdownWait \/ ShutdownReturn \/ GraceExpires \/ Jobs
    BY <1>8, FreshKept DEF Shutdown, ShutdownWait, ShutdownReturn, GraceExpires, Jobs, JobUnlink,
                           JobRelease, planVars, connVars
  <1>9. ASSUME NEW l \in Listeners, Accept(l) \/ RelayEnd(l) \/ Handler(l) PROVE FreshObjects'
    <2>1. /\ gen' = gen /\ mode' = mode /\ pc' = pc /\ newBinds' = newBinds /\ loop[l] # "off"
          /\ \E x : loop' = [loop EXCEPT ![l] = x]
      BY <1>9 DEF Accept, RelayEnd, Handler, AcceptClosed, TrackConn, Load, Acquire, UntrackConn,
                  LoopGoto, ServerUnchanged, planVars
    <2>2. \A k \in Listeners : loop'[k] # "off" => loop[k] # "off"
      BY <2>1 DEF Placed, Shapes
    <2> QED
      BY <2>1, <2>2, FreshKept
  <1>10. CASE UNCHANGED vars
    BY <1>10, FreshKept DEF vars, planVars, connVars
  <1> QED
    BY <1>1, <1>2, <1>3, <1>4, <1>5, <1>6, <1>7, <1>8, <1>9, <1>10
       DEF Next, Boot, Prepare, Commit, Stopping

(* Every step keeps the structure.                                         *)
LEMMA StructureStep == Structure /\ [Next]_vars => Structure'
  BY PlacedStep, FreshStep DEF Structure

-----------------------------------------------------------------------------
(* Reference counts.  RefsExact compares a count with the number of        *)
(* holders; Count is that number.                                          *)

Count(s) ==
    Cardinality(ListenerHolds(s)) + Cardinality(RelayHolds(s))
    + Cardinality(PlanHolds(s)) + Cardinality(JobHolds(s))

SinkState ==
    /\ refs \in [Sinks -> Nat] /\ open \subseteq Sinks
    /\ \A s \in Sinks : refs[s] = Count(s)
    /\ OpenIffReferenced

(* Which of the four groups of holders a step leaves alone.                *)
SameL(s) == ListenerHolds(s)' = ListenerHolds(s)
SameR(s) == RelayHolds(s)' = RelayHolds(s)
SameP(s) == PlanHolds(s)' = PlanHolds(s)
SameJ(s) == JobHolds(s)' = JobHolds(s)

(* The groups are finite.                                                  *)
LEMMA HoldersFinite ==
    Shapes => \A s : /\ IsFiniteSet(ListenerHolds(s)) /\ IsFiniteSet(RelayHolds(s))
                     /\ IsFiniteSet(PlanHolds(s)) /\ IsFiniteSet(JobHolds(s))
  <1> SUFFICES ASSUME Shapes, NEW s
               PROVE  /\ IsFiniteSet(ListenerHolds(s)) /\ IsFiniteSet(RelayHolds(s))
                      /\ IsFiniteSet(PlanHolds(s)) /\ IsFiniteSet(JobHolds(s))
    OBVIOUS
  <1>1. IsFiniteSet(Listeners)
    <2>1. IsFiniteSet(Gens)
      BY FS_Interval, OutboundAssumption DEF Gens
    <2> QED
      BY <2>1, FS_Product, OutboundAssumption DEF Listeners
  <1>2. ListenerHolds(s) \in SUBSET Listeners /\ RelayHolds(s) \in SUBSET Listeners
    BY DEF ListenerHolds, RelayHolds
  <1>3. PlanHolds(s) \in SUBSET Ports
    BY DEF PlanHolds, Shapes
  <1>4. IsFiniteSet({job}) /\ JobHolds(s) \in SUBSET {job}
    BY FS_Singleton DEF JobHolds
  <1> QED
    BY <1>1, <1>2, <1>3, <1>4, FS_Subset, OutboundAssumption

(* The cardinalities that Count adds are numbers.                          *)
LEMMA HoldersCounted ==
    Shapes => \A s : /\ Cardinality(ListenerHolds(s)) \in Nat /\ Cardinality(RelayHolds(s)) \in Nat
                     /\ Cardinality(PlanHolds(s)) \in Nat /\ Cardinality(JobHolds(s)) \in Nat
  BY HoldersFinite, FS_CardinalityType

(* An element more.                                                        *)
LEMMA CardAdd ==
    ASSUME NEW A, NEW B, NEW x, IsFiniteSet(A), x \notin A, B = A \cup {x}
    PROVE  Cardinality(B) = Cardinality(A) + 1
  BY FS_AddElement

(* An element less.                                                        *)
LEMMA CardDel ==
    ASSUME NEW A, NEW B, NEW x, IsFiniteSet(A), x \in A, B = A \ {x}
    PROVE  Cardinality(B) = Cardinality(A) - 1
  BY FS_RemoveElement

(* Nothing moves.                                                          *)
LEMMA CountSame ==
    ASSUME NEW s, SameL(s), SameR(s), SameP(s), SameJ(s) PROVE Count(s)' = Count(s)
  BY DEF Count, SameL, SameR, SameP, SameJ

(* A sink is opened: acquire and release see a count of one                *)
(* (newRefSink, logrelay.go:52).                                           *)
LEMMA OpenKeeps ==
    ASSUME SinkState, NEW x \in Sinks, refs[x] = 0, OpenSink(x),
           \A s \in Sinks : Count(s)' = IF s = x THEN Count(s) + 1 ELSE Count(s)
    PROVE  SinkState'
  <1>1. \A s \in Sinks : refs'[s] = IF s = x THEN refs[s] + 1 ELSE refs[s]
    BY DEF SinkState, OpenSink
  <1>2. refs' \in [Sinks -> Nat] /\ open' \subseteq Sinks
    BY DEF SinkState, OpenSink
  <1>3. \A s \in Sinks : refs'[s] = Count(s)'
    BY <1>1 DEF SinkState
  <1>4. \A s \in Sinks : s \in open' <=> refs'[s] > 0
    BY <1>1 DEF SinkState, OpenSink, OpenIffReferenced
  <1> QED
    BY <1>2, <1>3, <1>4 DEF SinkState, OpenIffReferenced

(* A relay takes a reference to an open sink (acquire, logrelay.go:72-80). *)
LEMMA TakeKeeps ==
    ASSUME SinkState, NEW x \in Sinks, refs[x] # 0, refs' = [refs EXCEPT ![x] = @ + 1], open' = open,
           \A s \in Sinks : Count(s)' = IF s = x THEN Count(s) + 1 ELSE Count(s)
    PROVE  SinkState'
  <1>1. \A s \in Sinks : refs'[s] = IF s = x THEN refs[s] + 1 ELSE refs[s]
    BY DEF SinkState
  <1>2. refs' \in [Sinks -> Nat] /\ open' \subseteq Sinks
    BY DEF SinkState
  <1>3. \A s \in Sinks : refs'[s] = Count(s)'
    BY <1>1 DEF SinkState
  <1>4. \A s \in Sinks : s \in open' <=> refs'[s] > 0
    BY <1>1 DEF SinkState, OpenIffReferenced
  <1> QED
    BY <1>2, <1>3, <1>4 DEF SinkState, OpenIffReferenced

(* References are dropped, each by a holder that had it (release,          *)
(* logrelay.go:84-92).                                                     *)
LEMMA DropKeeps ==
    ASSUME SinkState, NEW ss \in SUBSET Sinks, ReleaseAll(ss), \A s \in ss : refs[s] > 0,
           \A s \in Sinks : Count(s)' = IF s \in ss THEN Count(s) - 1 ELSE Count(s)
    PROVE  SinkState'
  <1>1. \A s \in Sinks : refs'[s] = IF s \in ss THEN refs[s] - 1 ELSE refs[s]
    BY DEF ReleaseAll
  <1>2. \A s \in ss : refs[s] \in Nat /\ refs[s] - 1 \in Nat
    BY DEF SinkState
  <1>3. refs' \in [Sinks -> Nat] /\ open' \subseteq Sinks
    BY <1>2 DEF SinkState, ReleaseAll
  <1>4. \A s \in Sinks : refs'[s] = Count(s)'
    BY <1>1 DEF SinkState
  <1>5. \A s \in Sinks : s \in open' <=> refs'[s] > 0
    BY <1>1, <1>2 DEF SinkState, ReleaseAll, OpenIffReferenced
  <1> QED
    BY <1>3, <1>4, <1>5 DEF SinkState, OpenIffReferenced

(* One reference is dropped.                                               *)
LEMMA ReleaseIsReleaseAll ==
    ASSUME SinkState, NEW x \in Sinks, Release(x) PROVE ReleaseAll({x})
  <1>1. refs' = [s \in Sinks |-> IF s \in {x} THEN refs[s] - 1 ELSE refs[s]]
    BY DEF Release, SinkState
  <1>2. open' = open \ {s \in {x} : refs[s] = 1}
    BY DEF Release
  <1> QED
    BY <1>1, <1>2 DEF ReleaseAll

(* No reference moves.                                                     *)
LEMMA StillKeeps ==
    ASSUME SinkState, UNCHANGED <<refs, open>>, \A s \in Sinks : Count(s)' = Count(s)
    PROVE  SinkState'
  BY DEF SinkState, OpenIffReferenced

-----------------------------------------------------------------------------
(* What leaves a group of holders alone.                                   *)

(* No settings are stored and no object is built.                          *)
LEMMA KeepL == ASSUME UNCHANGED <<mode, live>>, NEW s PROVE SameL(s)
  BY DEF SameL, ListenerHolds

(* No relay begins or ends, and none changes its settings.                 *)
LEMMA KeepR ==
    ASSUME \A l \in Listeners : loop'[l] = "relay" <=> loop[l] = "relay",
           \A l \in Listeners : loop[l] = "relay" => snap'[l] = snap[l], NEW s
    PROVE  SameR(s)
  BY DEF SameR, RelayHolds, SinkOf

(* No swap is staged or taken out of the plan.                             *)
LEMMA KeepP ==
    ASSUME UNCHANGED <<swaps, new, gen>> \/ (swaps = {} /\ swaps' = {}), NEW s PROVE SameP(s)
  BY DEF SameP, PlanHolds, Obj

(* No release is scheduled or done.                                        *)
LEMMA KeepJ ==
    ASSUME job' = job \/ (job.op # "release" /\ job'.op # "release"), NEW s PROVE SameJ(s)
  <1>1. CASE job' = job
    BY <1>1 DEF SameJ, JobHolds
  <1>2. CASE job.op # "release" /\ job'.op # "release"
    <2>1. [op |-> "release", s |-> s].op = "release"
      OBVIOUS
    <2> QED
      BY <1>2, <2>1 DEF SameJ, JobHolds
  <1> QED
    BY <1>1, <1>2

-----------------------------------------------------------------------------
(* The steps that move references.                                         *)

(* A sink that is about to be opened has no reference                      *)
(* (newLogRelayListener, logrelay.go:347-374).                             *)
LEMMA NewSinkUnused ==
    ASSUME IInv, NEW p \in Ports, p \in todo, pc \in {"construct", "stage"}
    PROVE  Obj(p) \in Sinks /\ Obj(p) \in Listeners /\ refs[Obj(p)] = 0
  <1>1. gen \in Gens /\ Obj(p) \in Sinks /\ Obj(p) \in Listeners
    BY Pairs DEF IInv, TypeOK, Obj
  <1>2. refs[Obj(p)] \in Nat
    BY <1>1 DEF IInv, TypeOK
  <1>3. ~(refs[Obj(p)] > 0)
    <2>1. pc = "stage" => p \notin swaps \cup newBinds
      BY DEF IInv, Structure, Placed, Walked
    <2> QED
      BY <1>1, <2>1 DEF IInv, FreshSinks, Obj
  <1> QED
    BY <1>1, <1>2, <1>3

(* A listener is built, with its sink (newLogRelayListener).               *)
LEMMA BuildMoves ==
    ASSUME IInv, NEW p \in Ports, Obj(p) \in Listeners, mode[Obj(p)] = "off",
           mode' = [mode EXCEPT ![Obj(p)] = new[p]], live' = [live EXCEPT ![Obj(p)] = gen], NEW s
    PROVE  ListenerHolds(s)' = IF new[p] = "log" /\ s = Obj(p)
                               THEN ListenerHolds(s) \cup {Obj(p)} ELSE ListenerHolds(s)
  <1>1. \A l \in Listeners : l # Obj(p) => mode'[l] = mode[l] /\ live'[l] = live[l]
    BY DEF IInv, TypeOK
  <1>2. mode'[Obj(p)] = new[p] /\ live'[Obj(p)] = gen
    BY DEF IInv, TypeOK
  <1>3. Obj(p) \notin ListenerHolds(s)
    BY DEF ListenerHolds
  <1>4. <<Obj(p)[1], gen>> = Obj(p)
    BY DEF Obj
  <1> QED
    BY <1>1, <1>2, <1>3, <1>4 DEF ListenerHolds

(* The object that is about to be built is new.                            *)
LEMMA NewObjectUnused ==
    ASSUME Structure, NEW p \in Ports, p \in todo, pc \in {"construct", "stage"}
    PROVE  mode[Obj(p)] = "off"
  <1>1. gen \in Gens
    BY DEF Structure, Placed, Shapes
  <1>2. CASE pc = "construct"
    <2>1. mode[<<p, gen>>] # "off" => IsBuilt(p)
      BY <1>1, <1>2 DEF Structure, Placed, AtStart, Starting
    <2> QED
      BY <1>2, <2>1 DEF IsBuilt, Obj
  <1>3. CASE pc = "stage"
    <2>1. p \notin newBinds
      BY <1>3 DEF Structure, Placed, Walked
    <2>2. mode[<<p, gen>>] # "off" => p \in newBinds
      BY <1>1, <1>3 DEF Structure, FreshObjects
    <2> QED
      BY <2>1, <2>2 DEF Obj
  <1> QED
    BY <1>2, <1>3

(* NewServer builds a listener, or PrepareApply does.                      *)
LEMMA BuildStep ==
    ASSUME IInv, SinkState, NEW p \in Ports, ConstructListener(p) \/ StageBind(p) PROVE SinkState'
  <1>1. Obj(p) \in Sinks /\ Obj(p) \in Listeners /\ refs[Obj(p)] = 0 /\ mode[Obj(p)] = "off"
    BY NewSinkUnused, NewObjectUnused DEF IInv, ConstructListener, StageBind, IsNext
  <1>2. \A s : SameR(s) /\ SameP(s) /\ SameJ(s)
    BY KeepR, KeepP, KeepJ DEF ConstructListener, StageBind, connVars
  <1>3. ASSUME NEW s \in Sinks
        PROVE  ListenerHolds(s)' = IF new[p] = "log" /\ s = Obj(p)
                                   THEN ListenerHolds(s) \cup {Obj(p)} ELSE ListenerHolds(s)
    BY <1>1, BuildMoves DEF ConstructListener, StageBind
  <1>4. Obj(p) \notin ListenerHolds(Obj(p))
    BY <1>1 DEF ListenerHolds
  <1>5. ASSUME NEW s \in Sinks
        PROVE  Count(s)' = IF new[p] = "log" /\ s = Obj(p) THEN Count(s) + 1 ELSE Count(s)
    <2>1. CASE new[p] = "log" /\ s = Obj(p)
      <3>1. ListenerHolds(s)' = ListenerHolds(s) \cup {Obj(p)}
        BY <1>3, <2>1
      <3>2. Cardinality(ListenerHolds(s)') = Cardinality(ListenerHolds(s)) + 1
        BY <1>4, <2>1, <3>1, CardAdd, HoldersFinite DEF IInv, Structure, Placed
      <3> QED
        BY <1>2, <2>1, <3>2, HoldersCounted
           DEF IInv, Structure, Placed, Count, SameR, SameP, SameJ
    <2>2. CASE ~(new[p] = "log" /\ s = Obj(p))
      BY <1>2, <1>3, <2>2, CountSame DEF SameL
    <2> QED
      BY <2>1, <2>2
  <1>6. CASE new[p] = "log"
    <2>1. OpenSink(Obj(p))
      BY <1>6 DEF ConstructListener, StageBind
    <2> QED
      BY <1>1, <1>5, <1>6, <2>1, OpenKeeps
  <1>7. CASE new[p] # "log"
    <2>1. UNCHANGED <<refs, open>>
      BY <1>7 DEF ConstructListener, StageBind, sinkVars
    <2> QED
      BY <1>5, <1>7, <2>1, StillKeeps
  <1> QED
    BY <1>6, <1>7

(* PrepareApply stages new settings for a running listener.                *)
LEMMA StageSwapStep ==
    ASSUME IInv, SinkState, NEW p \in Ports, StageSwap(p) PROVE SinkState'
  <1>1. /\ Obj(p) \in Sinks /\ refs[Obj(p)] = 0 /\ p \notin swaps
        /\ swaps' = swaps \cup {p} /\ UNCHANGED <<new, gen>>
    BY NewSinkUnused DEF IInv, Structure, Placed, Walked, StageSwap, IsNext
  <1>2. \A s : SameL(s) /\ SameR(s) /\ SameJ(s)
    BY KeepL, KeepR, KeepJ DEF StageSwap, connVars
  <1>3. ASSUME NEW s \in Sinks
        PROVE  PlanHolds(s)' = IF new[p] = "log" /\ s = Obj(p)
                               THEN PlanHolds(s) \cup {p} ELSE PlanHolds(s)
    BY <1>1 DEF PlanHolds, Obj
  <1>4. \A s : p \notin PlanHolds(s)
    BY <1>1 DEF PlanHolds
  <1>5. ASSUME NEW s \in Sinks
        PROVE  Count(s)' = IF new[p] = "log" /\ s = Obj(p) THEN Count(s) + 1 ELSE Count(s)
    <2>1. CASE new[p] = "log" /\ s = Obj(p)
      <3>1. Cardinality(PlanHolds(s)') = Cardinality(PlanHolds(s)) + 1
        BY <1>3, <1>4, <2>1, CardAdd, HoldersFinite DEF IInv, Structure, Placed
      <3> QED
        BY <1>2, <2>1, <3>1, HoldersCounted
           DEF IInv, Structure, Placed, Count, SameL, SameR, SameJ
    <2>2. CASE ~(new[p] = "log" /\ s = Obj(p))
      BY <1>2, <1>3, <2>2, CountSame DEF SameP
    <2> QED
      BY <2>1, <2>2
  <1>6. CASE new[p] = "log"
    BY <1>1, <1>5, <1>6, OpenKeeps DEF StageSwap
  <1>7. CASE new[p] # "log"
    <2>1. UNCHANGED <<refs, open>>
      BY <1>7 DEF StageSwap, sinkVars
    <2> QED
      BY <1>5, <1>7, <2>1, StillKeeps
  <1> QED
    BY <1>6, <1>7
(* A sink with a holder has a reference.                                   *)
LEMMA HeldIsCounted ==
    ASSUME Shapes, NEW s,
           ListenerHolds(s) # {} \/ RelayHolds(s) # {} \/ PlanHolds(s) # {} \/ JobHolds(s) # {}
    PROVE  Count(s) > 0
  <1>1. /\ Cardinality(ListenerHolds(s)) \in Nat /\ Cardinality(RelayHolds(s)) \in Nat
        /\ Cardinality(PlanHolds(s)) \in Nat /\ Cardinality(JobHolds(s)) \in Nat
    BY HoldersCounted
  <1>2. \/ Cardinality(ListenerHolds(s)) # 0 \/ Cardinality(RelayHolds(s)) # 0
        \/ Cardinality(PlanHolds(s)) # 0 \/ Cardinality(JobHolds(s)) # 0
    BY HoldersFinite, FS_EmptySet
  <1> QED
    BY <1>1, <1>2 DEF Count

(* NewServer or Start fails: every listener that it has built gives up its *)
(* own sink.                                                               *)
LEMMA StartFailDrops ==
    ASSUME IInv, SinkState, NEW p \in Ports, ConstructFail(p) \/ BindFail(p) PROVE SinkState'
  <1> DEFINE ss == OwnLogSinks(Built)
  <1>0. Shapes /\ gen \in Gens /\ Nil \notin Gens
    BY Pairs DEF IInv, Structure, Placed, Shapes
  <1>1. /\ pc \in Starting /\ UNCHANGED <<mode, loop, snap, swaps, new, gen, job>>
        /\ ReleaseAll(ss)
    BY DEF ConstructFail, BindFail, planVars, connVars, Starting
  <1>2. ASSUME NEW l \in Listeners, mode[l] = "log" PROVE l \in Built /\ <<l[1], live[l]>> = l
    <2>1. l[1] \in Ports /\ l[2] \in Gens /\ l = <<l[1], l[2]>>
      BY Pairs
    <2>2. /\ l[2] = gen /\ IsBuilt(l[1]) /\ listeners[l[1]] = l[2] /\ listeners[l[1]] # Nil
          /\ live[Obj(l[1])] = gen
      BY <1>0, <1>1, <1>2, <2>1 DEF IInv, Structure, Placed, AtStart
    <2> QED
      BY <2>1, <2>2 DEF Built, Obj
  <1>3. ss = {l \in Listeners : mode[l] = "log"} /\ ss \in SUBSET Sinks
    <2>1. Built \subseteq Listeners
      BY Pairs DEF Built, IInv, Structure, Placed, Shapes
    <2> QED
      BY <1>2, <2>1, Pairs DEF OwnLogSinks
  <1>4. \A l \in Listeners : mode[l] = "log" => live'[l] = Nil
    BY <1>2 DEF ConstructFail, BindFail, CloseUnstarted, OwnLogSinks
  <1> HIDE DEF ss
  <1>5. \A s : SameR(s) /\ SameP(s) /\ SameJ(s)
    BY <1>1, KeepR, KeepP, KeepJ
  <1>6. ASSUME NEW s \in Sinks
        PROVE  /\ ListenerHolds(s)' = {}
               /\ ListenerHolds(s) = IF s \in ss THEN {s} ELSE {}
    <2>1. s[2] \in Gens
      BY Pairs
    <2>2. ListenerHolds(s)' = {}
      BY <1>0, <1>1, <1>4, <2>1 DEF ListenerHolds
    <2>3. ListenerHolds(s) = IF s \in ss THEN {s} ELSE {}
      BY <1>2, <1>3 DEF ListenerHolds
    <2> QED
      BY <2>2, <2>3
  <1>7. \A s \in Sinks : Count(s)' = IF s \in ss THEN Count(s) - 1 ELSE Count(s)
    <2> TAKE s \in Sinks
    <2>1. CASE s \in ss
      <3>1. Cardinality(ListenerHolds(s)') = 0 /\ Cardinality(ListenerHolds(s)) = 1
        BY <1>6, <2>1, FS_EmptySet, FS_Singleton
      <3> QED
        BY <1>0, <1>5, <2>1, <3>1, HoldersCounted DEF Count, SameR, SameP, SameJ
    <2>2. CASE s \notin ss
      BY <1>5, <1>6, <2>2, CountSame DEF SameL
    <2> QED
      BY <2>1, <2>2
  <1>8. \A s \in ss : refs[s] > 0
    BY <1>0, <1>3, <1>6, HeldIsCounted DEF SinkState
  <1> QED
    BY <1>1, <1>3, <1>7, <1>8, DropKeeps

(* PrepareApply fails or AbortApply discards the plan: the new listeners   *)
(* and the staged swaps give up their sinks.                               *)
LEMMA DiscardDrops ==
    ASSUME IInv, SinkState, pc = "stage", DiscardPlan, swaps' = {},
           UNCHANGED <<mode, loop, snap, new, gen, job>>
    PROVE  SinkState'
  <1> DEFINE ss == StagedSinks
  <1>0. Shapes /\ gen \in Gens /\ Nil \notin Gens /\ swaps \subseteq Ports /\ newBinds \subseteq Ports
    BY Pairs DEF IInv, Structure, Placed, Shapes
  <1>1. \A q \in newBinds : /\ q \notin swaps /\ Obj(q) \in Listeners
                            /\ mode[Obj(q)] = new[q] /\ live[Obj(q)] = gen
    BY <1>0, Pairs DEF IInv, Structure, Placed, PlanSound, Kept, Reloading, Obj
  <1>2. ss \in SUBSET Sinks
    BY <1>0, Pairs DEF StagedSinks, Obj
  <1>3. \A l \in Listeners :
          live'[l] = IF l \in Staged /\ mode[l] = "log" THEN Nil ELSE live[l]
    BY DEF DiscardPlan, CloseUnstarted
  <1>4. \A s : SameR(s) /\ SameJ(s)
    BY KeepR, KeepJ
  <1>5. \A l \in Listeners : l \in Staged => <<l[1], live[l]>> = l
    BY <1>1 DEF Staged, Obj
  <1>6. ASSUME NEW s \in Sinks
        PROVE  /\ PlanHolds(s)' = {}
               /\ ~(s \in Staged /\ mode[s] = "log") => SameL(s)
               /\ s \in Staged /\ mode[s] = "log" =>
                    s \in ListenerHolds(s) /\ ListenerHolds(s)' = ListenerHolds(s) \ {s}
    <2>1. s[2] \in Gens /\ s \in Listeners
      BY Pairs
    <2>2. PlanHolds(s)' = {}
      BY DEF PlanHolds
    <2>3. CASE s \in Staged /\ mode[s] = "log"
      BY <1>0, <1>3, <1>5, <2>1, <2>2, <2>3 DEF ListenerHolds
    <2>4. CASE ~(s \in Staged /\ mode[s] = "log")
      BY <1>0, <1>3, <1>5, <2>1, <2>2, <2>4 DEF ListenerHolds, SameL
    <2> QED
      BY <2>3, <2>4
  <1>7. \A q, r \in Ports : Obj(q) = Obj(r) => q = r
    BY DEF Obj
  <1>8. ASSUME NEW s \in Sinks
        PROVE  /\ Count(s)' = IF s \in ss THEN Count(s) - 1 ELSE Count(s)
               /\ s \in ss => Count(s) > 0
    <2>1. CASE \E q \in swaps : new[q] = "log" /\ s = Obj(q)
      <3>1. PICK q \in swaps : new[q] = "log" /\ s = Obj(q)
        BY <2>1
      <3>2. s \in ss
        BY <3>1 DEF StagedSinks
      <3>3. SameL(s)
        <4>1. s \notin Staged
          BY <1>0, <1>1, <1>7, <3>1 DEF Staged
        <4> QED
          BY <1>6, <4>1
      <3>4. PlanHolds(s) = {q}
        BY <1>0, <1>7, <3>1 DEF PlanHolds
      <3>5. Cardinality(PlanHolds(s)) = 1 /\ Cardinality(PlanHolds(s)') = 0
        BY <1>6, <3>4, FS_EmptySet, FS_Singleton
      <3>6. Count(s)' = Count(s) - 1
        BY <1>0, <1>4, <3>3, <3>5, HoldersCounted DEF Count, SameL, SameR, SameJ
      <3> QED
        BY <1>0, <3>2, <3>4, <3>6, HeldIsCounted
    <2>2. CASE ~\E q \in swaps : new[q] = "log" /\ s = Obj(q)
      <3>1. SameP(s)
        BY <1>6, <2>2 DEF PlanHolds, SameP
      <3>2. s \in ss <=> s \in Staged /\ mode[s] = "log"
        BY <1>1, <2>2 DEF StagedSinks, Staged
      <3>3. CASE s \in ss
        <4>1. s \in ListenerHolds(s) /\ ListenerHolds(s)' = ListenerHolds(s) \ {s}
          BY <1>6, <3>2, <3>3
        <4>2. Cardinality(ListenerHolds(s)') = Cardinality(ListenerHolds(s)) - 1
          BY <1>0, <4>1, CardDel, HoldersFinite
        <4>3. Count(s)' = Count(s) - 1
          BY <1>0, <1>4, <3>1, <4>2, HoldersCounted DEF Count, SameP, SameR, SameJ
        <4> QED
          BY <1>0, <3>3, <4>1, <4>3, HeldIsCounted
      <3>4. CASE s \notin ss
        BY <1>4, <1>6, <3>1, <3>2, <3>4, CountSame
      <3> QED
        BY <3>3, <3>4
    <2> QED
      BY <2>1, <2>2
  <1>9. ReleaseAll(ss) /\ \A s \in ss : refs[s] > 0
    BY <1>2, <1>8 DEF DiscardPlan, SinkState
  <1> HIDE DEF ss
  <1> QED
    BY <1>2, <1>8, <1>9, DropKeeps
(* A release is scheduled: the job holds the reference from now on.        *)
LEMMA JobTakes ==
    ASSUME job.op # "release", NEW x, job' = [op |-> "release", s |-> x], NEW s
    PROVE  /\ s # x => SameJ(s)
           /\ s = x => Cardinality(JobHolds(s)) = 0 /\ Cardinality(JobHolds(s)') = 1
  <1>1. JobHolds(s) = {}
    <2>1. [op |-> "release", s |-> s].op = "release"
      OBVIOUS
    <2> QED
      BY <2>1 DEF JobHolds
  <1>2. s # x => JobHolds(s)' = {}
    <2>1. [op |-> "release", s |-> s].s = s /\ [op |-> "release", s |-> x].s = x
      OBVIOUS
    <2> QED
      BY <2>1 DEF JobHolds
  <1>3. s = x => JobHolds(s)' = {job'}
    BY DEF JobHolds
  <1> QED
    BY <1>1, <1>2, <1>3, FS_EmptySet, FS_Singleton DEF SameJ

(* A swap stores the new settings: the listener takes over the staged      *)
(* reference, and the job that of the old sink.                            *)
LEMMA CommitSwapStep ==
    ASSUME IInv, SinkState, NEW p \in Ports, CommitSwap(p) PROVE SinkState'
  <1> DEFINE L == Current(p)
             old == <<p, live[L]>>
  <1>0. Shapes /\ gen \in Gens
    BY DEF IInv, Structure, Placed, Shapes
  <1>1. /\ pc = "swap" /\ job = NoJob /\ p \in swaps /\ swaps' = swaps \ {p}
        /\ UNCHANGED <<gen, new, mode, loop, snap, refs, open>>
        /\ live' = [live EXCEPT ![L] = gen]
    BY DEF CommitSwap, sinkVars, connVars
  <1>2. Kept(p) /\ live[L] = committed.gen
    BY <1>1 DEF IInv, Structure, Placed, PlanSound, Settings, Reloading
  <1>3. L \in Listeners /\ L[1] = p /\ mode[L] = new[p]
    BY <1>0, <1>2, Pairs DEF Kept, Current, Shapes
  <1>4. live[L] # gen
    <2>1. committed.gen < gen /\ committed.gen \in Gens
      BY <1>1 DEF IInv, Structure, Placed, Ordered, Up, Reloading
    <2>2. committed.gen \in Nat /\ gen \in Nat
      BY <1>0, <2>1, Pairs
    <2>3. committed.gen # gen
      BY <2>1, <2>2
    <2> QED
      BY <1>2, <2>3
  <1>5. \A l \in Listeners : live'[l] = IF l = L THEN gen ELSE live[l]
    BY <1>0, <1>1 DEF Shapes
  <1>6. \A s : SameR(s)
    BY <1>1, KeepR
  <1>7. CASE new[p] # "log"
    <2>1. job' = job
      BY <1>1, <1>7 DEF CommitSwap
    <2>2. \A s : SameL(s)
      BY <1>1, <1>3, <1>5, <1>7 DEF SameL, ListenerHolds
    <2>3. \A s : SameP(s)
      BY <1>1, <1>7 DEF SameP, PlanHolds, Obj
    <2>4. \A s : SameJ(s)
      BY <2>1, KeepJ
    <2> QED
      BY <1>1, <1>6, <2>2, <2>3, <2>4, CountSame, StillKeeps
  <1>8. CASE new[p] = "log"
    <2>1. job' = [op |-> "release", s |-> old] /\ job.op # "release"
      BY <1>1, <1>8 DEF CommitSwap, NoJob
    <2>2. old # Obj(p)
      BY <1>4 DEF Obj
    <2> HIDE DEF L
    <2>3. ASSUME NEW s
          PROVE  /\ s = old => L \in ListenerHolds(s) /\ ListenerHolds(s)' = ListenerHolds(s) \ {L}
                 /\ s = Obj(p) => /\ L \notin ListenerHolds(s)
                                  /\ ListenerHolds(s)' = ListenerHolds(s) \cup {L}
                 /\ s # old /\ s # Obj(p) => SameL(s)
      BY <1>1, <1>3, <1>5, <1>8, <2>2 DEF ListenerHolds, SameL, Obj
    <2>4. ASSUME NEW s
          PROVE  /\ s = Obj(p) => p \in PlanHolds(s) /\ PlanHolds(s)' = PlanHolds(s) \ {p}
                 /\ s # Obj(p) => SameP(s)
      BY <1>1, <1>8 DEF PlanHolds, SameP, Obj
    <2> HIDE DEF old
    <2>5. ASSUME NEW s \in Sinks PROVE Count(s)' = Count(s)
      <3>1. CASE s = old
        <4>1. Cardinality(ListenerHolds(s)') = Cardinality(ListenerHolds(s)) - 1
          BY <1>0, <2>3, <3>1, CardDel, HoldersFinite
        <4>2. Cardinality(JobHolds(s)) = 0 /\ Cardinality(JobHolds(s)') = 1
          BY <2>1, <3>1, JobTakes
        <4>3. SameP(s) /\ SameR(s)
          BY <1>6, <2>2, <2>4, <3>1
        <4> QED
          BY <1>0, <4>1, <4>2, <4>3, HoldersCounted DEF Count, SameP, SameR
      <3>2. CASE s = Obj(p)
        <4>1. Cardinality(ListenerHolds(s)') = Cardinality(ListenerHolds(s)) + 1
          BY <1>0, <2>3, <3>2, CardAdd, HoldersFinite
        <4>2. Cardinality(PlanHolds(s)') = Cardinality(PlanHolds(s)) - 1
          BY <1>0, <2>4, <3>2, CardDel, HoldersFinite
        <4>3. SameJ(s) /\ SameR(s)
          BY <1>6, <2>1, <2>2, <3>2, JobTakes
        <4> QED
          BY <1>0, <4>1, <4>2, <4>3, HoldersCounted DEF Count, SameJ, SameR
      <3>3. CASE s # old /\ s # Obj(p)
        BY <1>6, <2>1, <2>3, <2>4, <3>3, JobTakes, CountSame
      <3> QED
        BY <3>1, <3>2, <3>3
    <2> QED
      BY <1>1, <2>5, StillKeeps
  <1> QED
    BY <1>7, <1>8

(* closeSink unlinks the relayState: its reference passes to the job.      *)
LEMMA JobUnlinkStep == ASSUME IInv, SinkState, JobUnlink PROVE SinkState'
  <1> DEFINE L == job.l
             old == <<L[1], live[L]>>
  <1>0. Shapes /\ Nil \notin Gens
    BY Pairs DEF IInv, Structure, Placed
  <1>1. /\ job.op = "unlink" /\ job.op # "release" /\ job' = [op |-> "release", s |-> old]
        /\ UNCHANGED <<gen, new, swaps, mode, loop, snap, refs, open>>
        /\ live' = [live EXCEPT ![L] = Nil]
    BY DEF JobUnlink, planVars, sinkVars, connVars
  <1>2. L \in Listeners
    BY <1>0, <1>1 DEF Shapes, NoJob
  <1>3. mode[L] = "log"
    BY <1>1 DEF IInv, Structure, Placed, Offered
  <1>4. \A l \in Listeners : live'[l] = IF l = L THEN Nil ELSE live[l]
    BY <1>0, <1>1 DEF Shapes
  <1>5. \A s : SameR(s) /\ SameP(s)
    BY <1>1, KeepR, KeepP
  <1> HIDE DEF L
  <1>6. ASSUME NEW s \in Sinks
        PROVE  /\ s = old => L \in ListenerHolds(s) /\ ListenerHolds(s)' = ListenerHolds(s) \ {L}
               /\ s # old => SameL(s)
    <2>1. s[2] \in Gens
      BY Pairs
    <2> QED
      BY <1>0, <1>1, <1>2, <1>3, <1>4, <2>1 DEF ListenerHolds, SameL
  <1> HIDE DEF old
  <1>7. ASSUME NEW s \in Sinks PROVE Count(s)' = Count(s)
    <2>1. CASE s = old
      <3>1. Cardinality(ListenerHolds(s)') = Cardinality(ListenerHolds(s)) - 1
        BY <1>0, <1>6, <2>1, CardDel, HoldersFinite
      <3>2. Cardinality(JobHolds(s)) = 0 /\ Cardinality(JobHolds(s)') = 1
        BY <1>1, <2>1, JobTakes
      <3> QED
        BY <1>0, <1>5, <3>1, <3>2, HoldersCounted DEF Count, SameP, SameR
    <2>2. CASE s # old
      BY <1>1, <1>5, <1>6, <2>2, JobTakes, CountSame
    <2> QED
      BY <2>1, <2>2
  <1> QED
    BY <1>1, <1>7, StillKeeps

(* The job drops the reference that it holds.                              *)
LEMMA JobReleaseStep == ASSUME IInv, SinkState, JobRelease PROVE SinkState'
  <1> DEFINE x == job.s
  <1>0. Shapes
    BY DEF IInv, Structure, Placed
  <1>1. /\ job.op = "release" /\ job' = NoJob /\ Release(x)
        /\ UNCHANGED <<gen, new, swaps, mode, live, loop, snap>>
    BY DEF JobRelease, planVars, connVars
  <1>2. x \in Sinks /\ job = [op |-> "release", s |-> x]
    BY <1>0, <1>1 DEF Shapes, NoJob
  <1>3. \A s : SameL(s) /\ SameR(s) /\ SameP(s)
    BY <1>1, KeepL, KeepR, KeepP
  <1> HIDE DEF x
  <1>4. ASSUME NEW s
        PROVE  /\ JobHolds(s) = IF s = x THEN {job} ELSE {}
               /\ JobHolds(s)' = {}
    <2>1. [op |-> "release", s |-> s].s = s /\ [op |-> "release", s |-> x].s = x
      OBVIOUS
    <2>2. NoJob.op # "release" /\ [op |-> "release", s |-> s].op = "release"
      BY DEF NoJob
    <2>3. JobHolds(s)' = {}
      BY <1>1, <2>2 DEF JobHolds
    <2>4. s = x => JobHolds(s) = {job}
      BY <1>2 DEF JobHolds
    <2>5. s # x => JobHolds(s) = {}
      BY <1>2, <2>1 DEF JobHolds
    <2> QED
      BY <2>3, <2>4, <2>5
  <1>5. \A s \in Sinks : Count(s)' = IF s \in {x} THEN Count(s) - 1 ELSE Count(s)
    <2> TAKE s \in Sinks
    <2>1. CASE s = x
      <3>1. Cardinality(JobHolds(s)) = 1 /\ Cardinality(JobHolds(s)') = 0
        BY <1>4, <2>1, FS_EmptySet, FS_Singleton
      <3> QED
        BY <1>0, <1>3, <2>1, <3>1, HoldersCounted DEF Count, SameL, SameR, SameP
    <2>2. CASE s # x
      BY <1>3, <1>4, <2>2, CountSame DEF SameJ
    <2> QED
      BY <2>1, <2>2
  <1>6. \A s \in {x} : refs[s] > 0
    BY <1>0, <1>2, <1>4, HeldIsCounted DEF SinkState
  <1> QED
    BY <1>1, <1>2, <1>5, <1>6, ReleaseIsReleaseAll, DropKeeps
(* A handler takes a reference, unless its sink is released already.       *)
LEMMA AcquireStep ==
    ASSUME IInv, SinkState, NEW l \in Listeners, Acquire(l) PROVE SinkState'
  <1> DEFINE x == SinkOf(l)
  <1>0. Shapes
    BY DEF IInv, Structure, Placed
  <1>1. /\ loop[l] = "acquire"
        /\ UNCHANGED <<gen, new, swaps, job, mode, live, snap, open>>
    BY DEF Acquire, ServerUnchanged, planVars
  <1>2. x \in Sinks
    <2>1. snap[l] # Nil
      BY <1>1 DEF IInv, Structure, Placed, Loops
    <2> QED
      BY <1>0, <2>1, Pairs DEF Shapes, SinkOf
  <1>3. \A s : SameL(s) /\ SameP(s) /\ SameJ(s)
    BY <1>1, KeepL, KeepP, KeepJ
  <1> HIDE DEF x
  <1>4. CASE refs[x] = 0
    <2>1. loop' = [loop EXCEPT ![l] = "load"] /\ refs' = refs
      BY <1>4 DEF Acquire, LoopGoto, x
    <2>2. \A s : SameR(s)
      BY <1>0, <1>1, <2>1, KeepR DEF Shapes
    <2> QED
      BY <1>1, <1>3, <2>1, <2>2, CountSame, StillKeeps
  <1>5. CASE refs[x] # 0
    <2>1. loop' = [loop EXCEPT ![l] = "relay"] /\ refs' = [refs EXCEPT ![x] = @ + 1]
      BY <1>5 DEF Acquire, LoopGoto, x
    <2>2. \A k \in Listeners : loop'[k] = IF k = l THEN "relay" ELSE loop[k]
      BY <1>0, <2>1 DEF Shapes
    <2>3. ASSUME NEW s
          PROVE  /\ s = x => l \notin RelayHolds(s) /\ RelayHolds(s)' = RelayHolds(s) \cup {l}
                 /\ s # x => SameR(s)
      BY <1>1, <2>2 DEF RelayHolds, SameR, SinkOf, x
    <2>4. \A s \in Sinks : Count(s)' = IF s = x THEN Count(s) + 1 ELSE Count(s)
      <3> TAKE s \in Sinks
      <3>1. CASE s = x
        <4>1. Cardinality(RelayHolds(s)') = Cardinality(RelayHolds(s)) + 1
          BY <1>0, <2>3, <3>1, CardAdd, HoldersFinite
        <4> QED
          BY <1>0, <1>3, <3>1, <4>1, HoldersCounted DEF Count, SameL, SameP, SameJ
      <3>2. CASE s # x
        BY <1>3, <2>3, <3>2, CountSame
      <3> QED
        BY <3>1, <3>2
    <2> QED
      BY <1>1, <1>2, <1>5, <2>1, <2>4, TakeKeeps
  <1> QED
    BY <1>4, <1>5

(* A relay ends and drops its reference.                                   *)
LEMMA RelayEndStep ==
    ASSUME IInv, SinkState, NEW l \in Listeners, RelayEnd(l) PROVE SinkState'
  <1> DEFINE x == SinkOf(l)
  <1>0. Shapes
    BY DEF IInv, Structure, Placed
  <1>1. /\ loop[l] = "relay" /\ loop' = [loop EXCEPT ![l] = "untrack"] /\ Release(x)
        /\ UNCHANGED <<gen, new, swaps, job, mode, live, snap>>
    BY DEF RelayEnd, LoopGoto, ServerUnchanged, planVars
  <1>2. x \in Sinks
    <2>1. snap[l] # Nil
      BY <1>1 DEF IInv, Structure, Placed, Loops
    <2> QED
      BY <1>0, <2>1, Pairs DEF Shapes, SinkOf
  <1>3. \A s : SameL(s) /\ SameP(s) /\ SameJ(s)
    BY <1>1, KeepL, KeepP, KeepJ
  <1>4. \A k \in Listeners : loop'[k] = IF k = l THEN "untrack" ELSE loop[k]
    BY <1>0, <1>1 DEF Shapes
  <1> HIDE DEF x
  <1>5. ASSUME NEW s
        PROVE  /\ s = x => l \in RelayHolds(s) /\ RelayHolds(s)' = RelayHolds(s) \ {l}
               /\ s # x => SameR(s)
    BY <1>1, <1>4 DEF RelayHolds, SameR, SinkOf, x
  <1>6. \A s \in Sinks : Count(s)' = IF s \in {x} THEN Count(s) - 1 ELSE Count(s)
    <2> TAKE s \in Sinks
    <2>1. CASE s = x
      <3>1. Cardinality(RelayHolds(s)') = Cardinality(RelayHolds(s)) - 1
        BY <1>0, <1>5, <2>1, CardDel, HoldersFinite
      <3> QED
        BY <1>0, <1>3, <2>1, <3>1, HoldersCounted DEF Count, SameL, SameP, SameJ
    <2>2. CASE s # x
      BY <1>3, <1>5, <2>2, CountSame
    <2> QED
      BY <2>1, <2>2
  <1>7. \A s \in {x} : refs[s] > 0
    BY <1>0, <1>2, <1>5, HeldIsCounted DEF SinkState
  <1> QED
    BY <1>1, <1>2, <1>6, <1>7, ReleaseIsReleaseAll, DropKeeps

(* The steps that move no reference.                                       *)
LEMMA OtherStep ==
    ASSUME IInv, SinkState,
           \/ StartBinding \/ StartLoops \/ BeginCommit \/ CommitStart
           \/ CommitEnd \/ Shutdown \/ ShutdownWait \/ ShutdownReturn \/ GraceExpires
           \/ \E p \in Ports : Bind(p) \/ CommitClose(p) \/ ShutdownClose(p)
           \/ \E c \in Configs : BeginReload(c)
           \/ \E l \in Listeners : \/ Accept(l) \/ AcceptClosed(l) \/ TrackConn(l) \/ Load(l)
                                   \/ UntrackConn(l)
           \/ UNCHANGED vars
    PROVE  SinkState'
  <1>0. Shapes
    BY DEF IInv, Structure, Placed
  <1>1. UNCHANGED <<refs, open>> /\ UNCHANGED <<mode, live>>
    BY DEF StartBinding, StartLoops, BeginCommit, CommitStart, CommitEnd, Shutdown, ShutdownWait,
           ShutdownReturn, GraceExpires, Bind, CommitClose, ShutdownClose, BeginReload, Accept,
           AcceptClosed, TrackConn, Load, UntrackConn, ServerUnchanged, sinkVars, vars
  <1>2. UNCHANGED <<swaps, new, gen>> \/ (swaps = {} /\ swaps' = {})
    <2>1. CASE \E c \in Configs : BeginReload(c)
      BY <2>1 DEF BeginReload, IInv, Structure, Placed, Quiet
    <2>2. CASE CommitEnd
      BY <2>2 DEF CommitEnd, EndReload, IInv, Structure, Placed, Quiet
    <2> QED
      BY <2>1, <2>2
         DEF StartBinding, StartLoops, BeginCommit, CommitStart, Shutdown, ShutdownWait,
             ShutdownReturn, GraceExpires, Bind, CommitClose, ShutdownClose, Accept, AcceptClosed,
             TrackConn, Load, UntrackConn, ServerUnchanged, planVars, vars
  <1>3. job' = job \/ (job.op # "release" /\ job'.op # "release")
    BY DEF StartBinding, StartLoops, BeginCommit, CommitStart, CommitEnd, Shutdown, ShutdownWait,
           ShutdownReturn, GraceExpires, Bind, CommitClose, ShutdownClose, BeginReload, Accept,
           AcceptClosed, TrackConn, Load, UntrackConn, ServerUnchanged, CloseListener, NoJob, vars
  <1>4. /\ \A l \in Listeners : loop'[l] = "relay" <=> loop[l] = "relay"
        /\ \A l \in Listeners : loop[l] = "relay" => snap'[l] = snap[l]
    <2>1. CASE StartLoops
      <3>1. \A l \in Listeners : loop[l] = "off"
        BY <2>1 DEF StartLoops, IInv, Structure, Placed, NotServed, Starting
      <3> QED
        BY <2>1, <3>1 DEF StartLoops
    <2>2. CASE CommitStart
      <3>1. \A l \in Staged : loop[l] = "off"
        <4>1. pc = "swap" /\ gen \in Gens /\ gen \in Nat /\ newBinds \subseteq Ports
          BY <1>0, <2>2, Pairs DEF CommitStart, Shapes
        <4>2. ~(gen < gen)
          BY <4>1
        <4>3. \A q \in Ports : loop[<<q, gen>>] # "off" => gen < gen
          BY <4>1 DEF IInv, Structure, FreshObjects
        <4> QED
          BY <4>1, <4>2, <4>3 DEF Staged, Obj
      <3> QED
        BY <2>2, <3>1 DEF CommitStart
    <2>3. CASE \E l \in Listeners : \/ Accept(l) \/ AcceptClosed(l) \/ TrackConn(l) \/ Load(l)
                                    \/ UntrackConn(l)
      <3>1. PICK l \in Listeners : \/ Accept(l) \/ AcceptClosed(l) \/ TrackConn(l) \/ Load(l)
                                   \/ UntrackConn(l)
        BY <2>3
      <3>2. /\ loop[l] # "relay" /\ \E to : to # "relay" /\ loop' = [loop EXCEPT ![l] = to]
            /\ \E to : snap' = [snap EXCEPT ![l] = to] \/ snap' = snap
        BY <3>1 DEF Accept, AcceptClosed, TrackConn, Load, UntrackConn, LoopGoto
      <3> QED
        BY <1>0, <3>2 DEF Shapes
    <2> QED
      BY <2>1, <2>2, <2>3
         DEF StartBinding, BeginCommit, CommitEnd, Shutdown, ShutdownWait, ShutdownReturn,
             GraceExpires, Bind, CommitClose, ShutdownClose, BeginReload, connVars, vars
  <1>5. \A s \in Sinks : Count(s)' = Count(s)
    BY <1>1, <1>2, <1>3, <1>4, KeepL, KeepR, KeepP, KeepJ, CountSame
  <1> QED
    BY <1>1, <1>5, StillKeeps

(* Every step moves the holders of a sink and its count together.          *)
LEMMA SinkStep == ASSUME IInv, SinkState, [Next]_vars PROVE SinkState'
  <1>1. CASE \E p \in Ports : StageFail(p)
    BY <1>1, DiscardDrops DEF StageFail, EndReload, connVars
  <1>2. CASE AbortApply
    BY <1>2, DiscardDrops DEF AbortApply, EndReload, connVars
  <1> QED
    BY <1>1, <1>2, BuildStep, StageSwapStep, StartFailDrops, CommitSwapStep, JobUnlinkStep,
       JobReleaseStep, AcquireStep, RelayEndStep, OtherStep
       DEF Next, Boot, Prepare, Commit, Stopping, Jobs, Handler
-----------------------------------------------------------------------------
(* The invariant.                                                          *)

(* Dropping references gives no sink one.                                  *)
LEMMA RefsFall ==
    ASSUME SinkState, (\E x : Release(x)) \/ (\E ss : ReleaseAll(ss)) \/ refs' = refs,
           NEW s \in Sinks, refs'[s] > 0
    PROVE  refs[s] > 0
  <1>1. refs[s] \in Nat
    BY DEF SinkState
  <1>2. refs'[s] = refs[s] \/ refs'[s] = refs[s] - 1
    BY DEF Release, ReleaseAll, SinkState
  <1> QED
    BY <1>1, <1>2

(* What leaves the sinks that are still to be opened alone.                *)
LEMMA FreshSinksKept ==
    ASSUME FreshSinks, \A s \in Sinks : refs'[s] > 0 => refs[s] > 0, gen' = gen,
           pc' = "construct" => pc = "construct" /\ todo' \subseteq todo,
           pc' = "stage" => pc = "stage" /\ swaps \subseteq swaps' /\ newBinds \subseteq newBinds'
    PROVE  FreshSinks'
  <1>1. \A p \in Ports, g \in Gens : refs'[<<p, g>>] > 0 => refs[<<p, g>>] > 0
    BY Pairs
  <1> QED
    BY <1>1 DEF FreshSinks

(* The entry that opens a sink is taken off the list and into the plan.    *)
LEMMA FreshSinksOpened ==
    ASSUME IInv, SinkState, NEW p \in Ports, ConstructListener(p) \/ StageSwap(p) \/ StageBind(p)
    PROVE  FreshSinks'
  <1>1. /\ pc \in {"construct", "stage"} /\ pc' = pc /\ gen' = gen /\ todo' = todo \ {p}
        /\ swaps \subseteq swaps' /\ newBinds \subseteq newBinds'
        /\ pc = "stage" => p \in swaps' \cup newBinds'
    BY DEF ConstructListener, StageSwap, StageBind
  <1>2. gen \in Gens /\ gen \in Nat
    BY Pairs DEF IInv, TypeOK
  <1>3. \A s \in Sinks : s # Obj(p) => refs'[s] = refs[s]
    BY DEF ConstructListener, StageSwap, StageBind, OpenSink, sinkVars, SinkState
  <1> SUFFICES ASSUME NEW q \in Ports, NEW g \in Gens, refs'[<<q, g>>] > 0
               PROVE  /\ g <= gen'
                      /\ pc' = "construct" => q \notin todo'
                      /\ pc' = "stage" /\ g = gen' => q \in swaps' \cup newBinds'
    BY DEF FreshSinks
  <1>4. CASE <<q, g>> = Obj(p)
    <2>1. q = p /\ g = gen
      BY <1>4 DEF Obj
    <2>2. gen <= gen
      BY <1>2
    <2> QED
      BY <1>1, <2>1, <2>2
  <1>5. CASE <<q, g>> # Obj(p)
    <2>1. refs[<<q, g>>] > 0
      BY <1>3, <1>5, Pairs
    <2> QED
      BY <1>1, <2>1 DEF IInv, FreshSinks
  <1> QED
    BY <1>4, <1>5

(* The sinks that are still to be opened stay unreferenced.                *)
LEMMA FreshSinksStep == ASSUME IInv, SinkState, [Next]_vars PROVE FreshSinks'
  <1>0. FreshSinks
    BY DEF IInv
  <1>1. CASE \E p \in Ports : ConstructListener(p) \/ StageSwap(p) \/ StageBind(p)
    BY <1>1, FreshSinksOpened
  <1>2. ASSUME NEW c \in Configs, BeginReload(c) PROVE FreshSinks'
    <2>1. /\ gen' = gen + 1 /\ pc' = "stage" /\ refs' = refs
          /\ gen \in Nat /\ \A g \in Gens : g \in Nat
      BY <1>2, Pairs DEF BeginReload, sinkVars, IInv, TypeOK
    <2>2. \A p \in Ports, g \in Gens : refs'[<<p, g>>] > 0 => g <= gen
      BY <1>0, <2>1 DEF FreshSinks
    <2>3. \A g \in Gens : g <= gen => g <= gen' /\ g # gen'
      BY <2>1
    <2> QED
      BY <2>1, <2>2, <2>3 DEF FreshSinks
  <1>3. ASSUME NEW l \in Listeners, Acquire(l) PROVE FreshSinks'
    <2>1. UNCHANGED <<pc, gen, todo, swaps, newBinds>>
      BY <1>3 DEF Acquire, ServerUnchanged, planVars
    <2>2. \A s \in Sinks : refs'[s] > 0 => refs[s] > 0
      <3> TAKE s \in Sinks
      <3>1. refs[s] \in Nat
        BY DEF SinkState
      <3>2. refs'[s] = refs[s] \/ refs[s] # 0
        BY <1>3 DEF Acquire, SinkState
      <3> QED
        BY <3>1, <3>2
    <2> QED
      BY <1>0, <2>1, <2>2, FreshSinksKept
  <1>4. CASE \/ \E p \in Ports : ConstructFail(p) \/ Bind(p) \/ BindFail(p)
             \/ StartBinding \/ StartLoops
    <2>1. \A s \in Sinks : refs'[s] > 0 => refs[s] > 0
      BY <1>4, RefsFall DEF ConstructFail, Bind, BindFail, StartBinding, StartLoops, sinkVars
    <2>2. gen' = gen /\ pc' \notin {"construct", "stage"}
      BY <1>4 DEF ConstructFail, Bind, BindFail, StartBinding, StartLoops, planVars
    <2> QED
      BY <1>0, <2>1, <2>2, FreshSinksKept
  <1>5. CASE (\E p \in Ports : StageFail(p) \/ CommitSwap(p) \/ CommitClose(p) \/ ShutdownClose(p))
             \/ AbortApply \/ BeginCommit \/ CommitStart \/ CommitEnd
    <2>1. \A s \in Sinks : refs'[s] > 0 => refs[s] > 0
      BY <1>5, RefsFall DEF StageFail, CommitSwap, CommitClose, ShutdownClose, AbortApply, BeginCommit,
                            CommitStart, CommitEnd, DiscardPlan, sinkVars
    <2>2. gen' = gen /\ pc' \notin {"construct", "stage"}
      BY <1>5 DEF StageFail, CommitSwap, CommitClose, ShutdownClose, AbortApply, BeginCommit,
                  CommitStart, CommitEnd, EndReload, planVars
    <2> QED
      BY <1>0, <2>1, <2>2, FreshSinksKept
  <1>6. CASE \/ Shutdown \/ ShutdownWait \/ ShutdownReturn \/ GraceExpires \/ Jobs
             \/ \E l \in Listeners : \/ Accept(l) \/ AcceptClosed(l) \/ TrackConn(l) \/ Load(l)
                                     \/ UntrackConn(l) \/ RelayEnd(l)
             \/ UNCHANGED vars
    <2>1. \A s \in Sinks : refs'[s] > 0 => refs[s] > 0
      BY <1>6, RefsFall DEF Shutdown, ShutdownWait, ShutdownReturn, GraceExpires, Jobs, JobUnlink,
                            JobRelease, Accept, AcceptClosed, TrackConn, Load, UntrackConn, RelayEnd,
                            sinkVars, vars
    <2>2. /\ gen' = gen /\ (pc' = pc \/ pc' \notin {"construct", "stage"})
          /\ UNCHANGED <<todo, swaps, newBinds>>
      BY <1>6 DEF Shutdown, ShutdownWait, ShutdownReturn, GraceExpires, Jobs, JobUnlink, JobRelease,
                  Accept, AcceptClosed, TrackConn, Load, UntrackConn, RelayEnd, ServerUnchanged,
                  planVars, vars
    <2> QED
      BY <1>0, <2>1, <2>2, FreshSinksKept
  <1> QED
    BY <1>1, <1>2, <1>3, <1>4, <1>5, <1>6 DEF Next, Boot, Prepare, Commit, Stopping, Handler

(* No loop starts again once Shutdown has returned.                        *)
LEMMA DrainedStep == ASSUME IInv, [Next]_vars PROVE Drained'
  <1> SUFFICES ASSUME pc' = "returned", NEW k \in Listeners PROVE loop'[k] \in {"off", "exited"}
    BY DEF Drained
  <1>1. CASE ShutdownReturn
    BY <1>1 DEF ShutdownReturn, connVars
  <1>2. CASE \/ Boot \/ (\E c \in Configs : BeginReload(c)) \/ Prepare \/ AbortApply \/ BeginCommit
             \/ CommitStart \/ CommitEnd \/ Shutdown \/ ShutdownWait \/ GraceExpires
             \/ \E p \in Ports : CommitSwap(p) \/ CommitClose(p) \/ ShutdownClose(p)
    BY <1>2 DEF Boot, BeginReload, Prepare, AbortApply, BeginCommit, CommitStart, CommitEnd, Shutdown,
                ShutdownWait, GraceExpires, CommitSwap, CommitClose, ShutdownClose,
                ConstructListener, ConstructFail, Bind, BindFail, StartBinding, StartLoops, StageSwap,
                StageBind, StageFail, EndReload
  <1>3. CASE Jobs \/ UNCHANGED vars
    BY <1>3 DEF Jobs, JobUnlink, JobRelease, connVars, vars, IInv, Drained
  <1>4. ASSUME NEW l \in Listeners, Accept(l) \/ RelayEnd(l) \/ Handler(l) PROVE FALSE
    <2>1. pc = "returned" /\ loop[l] \notin {"off", "exited"}
      BY <1>4 DEF Accept, RelayEnd, Handler, AcceptClosed, TrackConn, Load, Acquire, UntrackConn,
                  ServerUnchanged
    <2> QED
      BY <2>1 DEF IInv, Drained
  <1> QED
    BY <1>1, <1>2, <1>3, <1>4 DEF Next, Commit, Stopping

(* SinkState says of the sinks what the properties say.                    *)
LEMMA SinkStateIs ==
    Shapes => (SinkState <=> TypeOK /\ RefsExact /\ OpenIffReferenced)
  BY DEF Shapes, SinkState, TypeOK, RefsExact, Count

(* Every step keeps the invariant.                                         *)
LEMMA InvStep == IInv /\ [Next]_vars => IInv'
  <1> SUFFICES ASSUME IInv, [Next]_vars PROVE IInv'
    OBVIOUS
  <1>1. Structure' /\ Shapes'
    BY StructureStep DEF IInv, Structure, Placed
  <1>2. SinkState
    BY SinkStateIs DEF IInv, Structure, Placed
  <1>3. SinkState' /\ FreshSinks' /\ Drained'
    BY <1>2, SinkStep, FreshSinksStep, DrainedStep
  <1>4. Shapes' => (SinkState' <=> TypeOK' /\ RefsExact' /\ OpenIffReferenced')
    BY SinkStateIs, PTL
  <1> QED
    BY <1>1, <1>3, <1>4 DEF IInv
(* The initial states satisfy it.                                          *)
LEMMA InitInv == Init => IInv
  <1> SUFFICES ASSUME Init PROVE IInv
    OBVIOUS
  <1>1. gen \in Gens /\ gen = 0 /\ pc = "construct" /\ Nil \notin Gens
    BY OutboundAssumption, Pairs DEF Init, Gens
  <1>2. Shapes /\ TypeOK
    BY <1>1, OutboundAssumption DEF Init, Shapes, TypeOK
  <1>3. AtStart
    BY <1>1, Pairs DEF Init, AtStart, IsBuilt
  <1>4. /\ Ordered /\ NotServed /\ Quiet /\ Agree /\ PlanSound /\ Walked /\ Sockets /\ Settings
        /\ Loops /\ Drained
    BY <1>1, Pairs DEF Init, Ordered, NotServed, Quiet, Agree, PlanSound, Walked, Sockets, Settings,
                       Loops, Drained, Up, Reloading
  <1>5. Offered
    BY <1>1 DEF Init, Offered, Starting, NoJob
  <1>6. FreshObjects /\ FreshSinks
    BY Pairs DEF Init, FreshObjects, FreshSinks, Sinks
  <1>7. RefsExact /\ OpenIffReferenced
    <2>1. \A s \in Sinks : /\ ListenerHolds(s) = {} /\ RelayHolds(s) = {} /\ PlanHolds(s) = {}
                           /\ JobHolds(s) = {}
      <3> TAKE s \in Sinks
      <3>1. ListenerHolds(s) = {} /\ RelayHolds(s) = {} /\ PlanHolds(s) = {}
        BY DEF Init, ListenerHolds, RelayHolds, PlanHolds
      <3>2. [op |-> "release", s |-> s].op = "release" /\ NoJob.op # "release"
        BY DEF NoJob
      <3>3. JobHolds(s) = {}
        BY <3>2 DEF Init, JobHolds
      <3> QED
        BY <3>1, <3>3
    <2>2. Cardinality({}) = 0
      BY FS_EmptySet
    <2>3. \A s \in Sinks : refs[s] = 0 /\ s \notin open
      BY DEF Init
    <2>4. RefsExact
      BY <2>1, <2>2, <2>3 DEF RefsExact
    <2> QED
      BY <2>3, <2>4 DEF OpenIffReferenced
  <1> QED
    BY <1>2, <1>3, <1>4, <1>5, <1>6, <1>7 DEF IInv, Structure, Placed

-----------------------------------------------------------------------------
(* The theorems.                                                           *)

(* The inductive invariant holds.                                          *)
THEOREM IInvHolds == Spec => []IInv
  BY InitInv, InvStep, PTL DEF Spec

(* The reference counts are exact, files are open accordingly and no       *)
(* listener offers a released sink, through construction, reload, its      *)
(* failure, relays and Shutdown (logrelay.go refSink).                     *)
THEOREM SinkInvHolds == Spec => []SinkInv
  <1>1. IInv => SinkInv
    <2> SUFFICES ASSUME IInv PROVE SinkInv
      OBVIOUS
    <2>1. SinkState /\ Shapes
      BY SinkStateIs DEF IInv, Structure, Placed
    <2>2. ASSUME NEW l \in Listeners, mode[l] = "log", live[l] # Nil
          PROVE  refs[<<l[1], live[l]>>] > 0
      <3> DEFINE s == <<l[1], live[l]>>
      <3>1. s \in Sinks
        BY <2>1, <2>2, Pairs DEF Shapes
      <3>2. l \in ListenerHolds(s)
        BY <2>2 DEF ListenerHolds
      <3> HIDE DEF s
      <3>3. refs[s] > 0
        BY <2>1, <3>1, <3>2, HeldIsCounted DEF SinkState
      <3> QED
        BY <3>3 DEF s
    <2> QED
      BY <2>2 DEF IInv, SinkInv, NoDeadSettings
  <1> QED
    BY <1>1, IInvHolds, PTL

(* A connection that is being relayed writes to an open file, whatever     *)
(* reload or shutdown goes on beside it (logrelay.go handleLogRelay).      *)
THEOREM NoWriteAfterCloseHolds == Spec => []NoWriteAfterClose
  <1>1. IInv => NoWriteAfterClose
    <2> SUFFICES ASSUME IInv, NEW l \in Listeners, loop[l] = "relay" PROVE SinkOf(l) \in open
      BY DEF NoWriteAfterClose
    <2>1. SinkState /\ Shapes
      BY SinkStateIs DEF IInv, Structure, Placed
    <2>2. SinkOf(l) \in Sinks
      <3>1. snap[l] # Nil
        BY DEF IInv, Structure, Placed, Loops
      <3> QED
        BY <2>1, <3>1, Pairs DEF Shapes, SinkOf
    <2>3. l \in RelayHolds(SinkOf(l))
      BY DEF RelayHolds
    <2>4. refs[SinkOf(l)] > 0
      BY <2>1, <2>2, <2>3, HeldIsCounted DEF SinkState
    <2> QED
      BY <2>1, <2>2, <2>4 DEF SinkState, OpenIffReferenced
  <1> QED
    BY <1>1, IInvHolds, PTL

(* Between reloads exactly the committed configuration is served, and      *)
(* after the end nothing is open (server.go PrepareApply to Shutdown).     *)
THEOREM OutboundConfigInvHolds == Spec => []OutboundConfigInv
  <1>1. IInv => ServesCommitted
    <2> SUFFICES ASSUME IInv, pc = "idle" PROVE ServesCommitted
      BY DEF ServesCommitted
    <2>1. \A p \in Ports, g \in Gens : <<p, g>> \in bound <=> listeners[p] = g
      BY DEF IInv, Structure, Placed, Sockets
    <2>2. \A p \in Ports : listeners[p] \in Gens <=> committed.config[p] # "off"
      BY Pairs DEF IInv, Structure, Placed, Shapes, Agree, Up
    <2>3. bound = {Current(p) : p \in {q \in Ports : committed.config[q] # "off"}}
      <3>1. bound \subseteq Listeners
        BY DEF IInv, TypeOK
      <3> QED
        BY <2>1, <2>2, <3>1, Pairs DEF Current
    <2>4. ASSUME NEW p \in Ports
          PROVE  IF committed.config[p] = "off" THEN listeners[p] = Nil
                 ELSE /\ listeners[p] # Nil
                      /\ mode[Current(p)] = committed.config[p]
                      /\ live[Current(p)] = committed.gen
                      /\ loop[Current(p)] \notin {"off", "exited"}
      BY DEF IInv, Structure, Placed, Agree, Settings, Loops, Up
    <2> QED
      BY <2>3, <2>4 DEF ServesCommitted
  <1>2. IInv => NothingLeftOpen
    <2> SUFFICES ASSUME IInv, pc \in {"dead", "returned"} PROVE open = {} /\ bound = {}
      BY DEF NothingLeftOpen
    <2>1. SinkState /\ Shapes /\ bound = {}
      BY SinkStateIs DEF IInv, Structure, Placed, Sockets
    <2>2. swaps = {} /\ job = NoJob /\ NoJob.op = "none"
      BY DEF IInv, Structure, Placed, Quiet, NoJob
    <2>3. \A l \in Listeners : loop[l] # "relay" /\ ~(mode[l] = "log" /\ live[l] # Nil)
      <3> TAKE l \in Listeners
      <3>1. loop[l] \in {"off", "exited"}
        BY DEF IInv, Structure, Placed, NotServed, Drained
      <3>2. [op |-> "unlink", l |-> l].op = "unlink"
        OBVIOUS
      <3>3. ~(mode[l] = "log" /\ live[l] # Nil)
        BY <2>1, <2>2, <3>2 DEF IInv, Structure, Placed, Offered, Starting
      <3> QED
        BY <3>1, <3>3
    <2>4. ASSUME NEW s \in Sinks PROVE s \notin open
      <3>1. RelayHolds(s) = {} /\ PlanHolds(s) = {}
        BY <2>2, <2>3 DEF RelayHolds, PlanHolds
      <3>2. ListenerHolds(s) = {}
        <4>1. s[2] \in Gens /\ Nil \notin Gens
          BY Pairs
        <4> QED
          BY <2>3, <4>1 DEF ListenerHolds
      <3>3. JobHolds(s) = {}
        <4>1. [op |-> "release", s |-> s].op = "release"
          OBVIOUS
        <4> QED
          BY <2>2, <4>1 DEF JobHolds
      <3>4. Count(s) = 0
        BY <3>1, <3>2, <3>3, FS_EmptySet DEF Count
      <3> QED
        BY <2>1, <3>4 DEF SinkState, OpenIffReferenced
    <2> QED
      BY <2>1, <2>4 DEF SinkState
  <1> QED
    BY <1>1, <1>2, IInvHolds, PTL DEF OutboundConfigInv
-----------------------------------------------------------------------------
(* The refinement.  Serving[p] is a choice; since no port has two open     *)
(* sockets it is the mode and the settings of the one that has a loop.     *)

Serves(p, g) == <<p, g>> \in bound /\ loop[<<p, g>>] # "off"

Busy == \E l \in Listeners : loop[l] \notin {"off", "accept", "exited"}

ServingSpec ==
    /\ Serving = [p \in Ports |-> Serving[p]]
    /\ \A p \in Ports, g \in Gens :
          Serves(p, g) => Serving[p] = <<mode[<<p, g>>], live[<<p, g>>]>>
    /\ \A p \in Ports : (\A g \in Gens : ~Serves(p, g)) => Serving[p] = Unserved

(* A step that leaves what a port serves as it was.                        *)
SameAt(p) ==
    \A g \in Gens :
        /\ Serves(p, g)' <=> Serves(p, g)
        /\ Serves(p, g) => mode'[<<p, g>>] = mode[<<p, g>>] /\ live'[<<p, g>>] = live[<<p, g>>]

(* A port has one socket at most (server.go PrepareApply).                 *)
LEMMA OneSocket ==
    ASSUME Placed, NEW p \in Ports, NEW g \in Gens, NEW h \in Gens,
           <<p, g>> \in bound, <<p, h>> \in bound
    PROVE  g = h
  <1>1. CASE pc \in Starting
    BY <1>1 DEF Placed, AtStart
  <1>2. CASE pc \in Reloading
    <2>1. p \in newBinds => listeners[p] = Nil
      BY <1>2 DEF Placed, PlanSound
    <2> QED
      BY <1>2, <2>1, Pairs DEF Placed, Sockets, Reloading
  <1>3. CASE pc \notin Starting \cup Reloading
    BY <1>3 DEF Placed, Shapes, Sockets, Starting, Reloading
  <1> QED
    BY <1>1, <1>2, <1>3

(* Serving is what ServingSpec says.                                       *)
LEMMA ServingIs == Placed => ServingSpec
  <1> SUFFICES ASSUME Placed PROVE ServingSpec
    OBVIOUS
  <1>1. Serving = [p \in Ports |-> Serving[p]]
    BY DEF Serving
  <1>2. ASSUME NEW p \in Ports, NEW g \in Gens, Serves(p, g)
        PROVE  Serving[p] = <<mode[<<p, g>>], live[<<p, g>>]>>
    <2>1. <<p, g>> \in Accepting(p)
      BY <1>2 DEF Serves, Accepting
    <2>2. \A l \in Accepting(p) : l = <<p, g>>
      <3> TAKE l \in Accepting(p)
      <3>1. l \in bound /\ l[1] = p /\ <<p, g>> \in bound
        BY <1>2 DEF Accepting, Serves
      <3>2. l[2] \in Gens /\ l = <<p, l[2]>>
        BY <3>1, Pairs DEF Placed, Shapes
      <3>3. l[2] = g
        BY <3>1, <3>2, OneSocket
      <3> QED
        BY <3>2, <3>3
    <2>3. Accepting(p) # {} /\ (CHOOSE x \in Accepting(p) : TRUE) = <<p, g>>
      BY <2>1, <2>2
    <2> QED
      BY <2>3 DEF Serving
  <1>3. ASSUME NEW p \in Ports, \A g \in Gens : ~Serves(p, g) PROVE Serving[p] = Unserved
    <2>1. Accepting(p) = {}
      BY <1>3, Pairs DEF Accepting, Serves, Placed, Shapes
    <2> QED
      BY <2>1 DEF Serving
  <1> QED
    BY <1>1, <1>2, <1>3 DEF ServingSpec

(* What SameAt says of Serving.                                            *)
LEMMA ServingStays ==
    ASSUME ServingSpec, ServingSpec', NEW p \in Ports, SameAt(p) PROVE Serving'[p] = Serving[p]
  <1>1. CASE \A g \in Gens : ~Serves(p, g)
    <2>1. \A g \in Gens : ~Serves(p, g)'
      BY <1>1 DEF SameAt
    <2> QED
      BY <1>1, <2>1 DEF ServingSpec
  <1>2. ASSUME NEW g \in Gens, Serves(p, g) PROVE Serving'[p] = Serving[p]
    <2>1. Serves(p, g)'
      BY <1>2 DEF SameAt
    <2>2. Serving'[p] = <<mode'[<<p, g>>], live'[<<p, g>>]>>
      BY <2>1 DEF ServingSpec
    <2>3. Serving[p] = <<mode[<<p, g>>], live[<<p, g>>]>>
      BY <1>2 DEF ServingSpec
    <2> QED
      BY <1>2, <2>2, <2>3 DEF SameAt
  <1> QED
    BY <1>1, <1>2

(* A step that serves every port as before changes nothing.                *)
LEMMA AllServingStay ==
    ASSUME ServingSpec, ServingSpec', \A p \in Ports : SameAt(p) PROVE Serving' = Serving
  <1>1. \A p \in Ports : Serving'[p] = Serving[p]
    BY ServingStays
  <1> QED
    BY <1>1 DEF ServingSpec

(* A step that leaves the sockets, the loops and the settings alone.       *)
LEMMA Untouched ==
    ASSUME ServingSpec, ServingSpec', UNCHANGED <<mode, live, bound, loop>>
    PROVE  Serving' = Serving
  <1>1. \A p \in Ports : SameAt(p)
    BY DEF SameAt, Serves
  <1> QED
    BY <1>1, AllServingStay

(* The steps of NewServer and Start: none serves anything but the last,    *)
(* which serves the configuration.                                         *)
LEMMA StartRefines ==
    ASSUME IInv, IInv', ServingSpec, ServingSpec', Boot PROVE S!Next \/ UNCHANGED S!vars
  <1>1. pc \in Starting /\ \A l \in Listeners : loop[l] = "off"
    BY DEF Boot, ConstructListener, ConstructFail, Bind, BindFail, StartBinding, StartLoops, Starting,
           IInv, Structure, Placed, NotServed
  <1>2. ASSUME loop' = loop PROVE Serving' = Serving
    <2>1. \A p \in Ports : SameAt(p)
      BY <1>1, <1>2, Pairs DEF SameAt, Serves
    <2> QED
      BY <2>1, AllServingStay
  <1>3. ASSUME (\E p \in Ports : ConstructListener(p) \/ Bind(p)) \/ StartBinding
        PROVE  UNCHANGED S!vars
    <2>1. loop' = loop /\ pc' \in Starting
      BY <1>3 DEF ConstructListener, Bind, StartBinding, connVars, Starting
    <2>2. Phase' = Phase /\ Plan' = Plan
      BY <1>1, <2>1 DEF Phase, Plan, Starting
    <2> QED
      BY <1>2, <2>1, <2>2 DEF S!vars
  <1>4. ASSUME NEW p \in Ports, ConstructFail(p) \/ BindFail(p) PROVE S!StartFail
    <2>1. loop' = loop /\ pc' = "dead"
      BY <1>4 DEF ConstructFail, BindFail, connVars
    <2>2. Phase = "new" /\ Phase' = "failed" /\ Plan' = Plan
      BY <1>1, <2>1 DEF Phase, Plan, Starting
    <2> QED
      BY <1>2, <2>1, <2>2 DEF S!StartFail, S!Goto
  <1>5. ASSUME StartLoops PROVE \E c \in S!Configurations : S!Start(c)
    <2>1. pc = "bind" /\ pc' = "idle"
      BY <1>5 DEF StartLoops
    <2>2. ASSUME NEW p \in Ports, NEW g \in Gens, Serves(p, g)' PROVE Serving'[p] \in Modes \X Gens
      <3>1. /\ listeners'[p] = g /\ listeners'[p] # Nil /\ committed'.config[p] # "off"
            /\ mode'[Current(p)'] = committed'.config[p] /\ live'[Current(p)'] = committed'.gen
        BY <2>1, <2>2, Pairs DEF IInv, Structure, Placed, Sockets, Agree, Settings, Serves, Up
      <3>2. committed'.config[p] \in Modes /\ committed'.gen \in Gens
        BY <2>1, <3>1 DEF IInv, Structure, Placed, Shapes, Ordered, Up
      <3>3. Current(p)' = <<p, g>>
        BY <3>1 DEF Current
      <3>4. mode'[<<p, g>>] \in Modes /\ live'[<<p, g>>] \in Gens
        BY <3>1, <3>2, <3>3
      <3> QED
        BY <2>2, <3>4 DEF ServingSpec
    <2>3. \A p \in Ports : Serving'[p] \in Modes \X Gens \cup {Unserved}
      BY <2>2 DEF ServingSpec
    <2>4. Serving' \in S!Configurations
      BY <2>3 DEF ServingSpec, S!Configurations
    <2>5. ~Busy /\ ~Busy'
      BY <1>1, <1>5 DEF StartLoops, Busy
    <2> QED
      BY <2>1, <2>4, <2>5 DEF S!Start, S!Goto, Phase, Plan, Busy
  <1> QED
    BY <1>3, <1>4, <1>5 DEF Boot, S!Next

(* A staged listener has no loop before CommitApply starts it.             *)
LEMMA NoStagedLoop ==
    ASSUME IInv, pc \in {"stage", "swap"}, NEW p \in Ports PROVE loop[Obj(p)] = "off"
  <1> SUFFICES ASSUME loop[Obj(p)] # "off" PROVE FALSE
    OBVIOUS
  <1>1. gen \in Gens /\ gen \in Nat
    BY Pairs DEF IInv, TypeOK
  <1>2. \A g \in Gens : loop[<<p, g>>] # "off" => g < gen
    BY DEF IInv, Structure, FreshObjects
  <1>3. gen < gen
    BY <1>1, <1>2 DEF Obj
  <1> QED
    BY <1>1, <1>3

(* The steps of PrepareApply, of its failure and of AbortApply: what is    *)
(* staged has no loop, so nothing that is served changes.                  *)
LEMMA PrepareRefines ==
    ASSUME IInv, ServingSpec, ServingSpec',
           Prepare \/ AbortApply \/ \E c \in Configs : BeginReload(c)
    PROVE  S!Next \/ UNCHANGED S!vars
  <1>1. ASSUME NEW c \in Configs, BeginReload(c) PROVE \E d \in S!Configurations : S!Prepare(d)
    <2>1. Serving' = Serving /\ loop' = loop
      BY <1>1, Untouched DEF BeginReload, connVars
    <2>2. \A p \in Ports : new'[p] \in Modes \cup {"off"}
      BY <1>1, OutboundAssumption DEF BeginReload
    <2>3. gen' \in Gens
      BY <1>1, OutboundAssumption DEF BeginReload, IInv, TypeOK, Gens
    <2>4. Plan' \in S!Configurations
      BY <2>2, <2>3 DEF Plan, S!Configurations
    <2> QED
      BY <1>1, <2>1, <2>4 DEF BeginReload, S!Prepare, S!Goto, Phase
  <1>2. ASSUME NEW p \in Ports, StageSwap(p) PROVE UNCHANGED S!vars
    <2>1. Serving' = Serving
      BY <1>2, Untouched DEF StageSwap, connVars
    <2> QED
      BY <1>2, <2>1 DEF StageSwap, connVars, S!vars, Phase, Plan
  <1>3. ASSUME NEW p \in Ports, StageBind(p) PROVE UNCHANGED S!vars
    <2>1. \A q \in Ports : SameAt(q)
      <3>1. loop[Obj(p)] = "off" /\ loop' = loop
        BY <1>3, NoStagedLoop DEF StageBind, connVars
      <3> QED
        BY <1>3, <3>1, Pairs DEF IInv, TypeOK, SameAt, Serves, StageBind, Obj
    <2>2. Serving' = Serving
      BY <2>1, AllServingStay
    <2> QED
      BY <1>3, <2>2 DEF StageBind, connVars, S!vars, Phase, Plan
  <1>4. ASSUME pc = "stage", DiscardPlan, EndReload, UNCHANGED <<mode, loop>> PROVE S!Abort
    <2>1. \A q \in Ports : SameAt(q)
      <3>1. \A q \in Ports : loop[Obj(q)] = "off"
        BY <1>4, NoStagedLoop
      <3>2. newBinds \subseteq Ports
        BY DEF IInv, TypeOK
      <3>3. \A q \in Ports, g \in Gens : loop[<<q, g>>] # "off" => <<q, g>> \notin Staged
        BY <3>1, <3>2 DEF Staged
      <3> QED
        BY <1>4, <3>3, Pairs DEF SameAt, Serves, DiscardPlan, CloseUnstarted
    <2>2. Serving' = Serving
      BY <2>1, AllServingStay
    <2>3. Plan' = S!Nothing
      BY <1>4 DEF EndReload, Plan, S!Nothing
    <2> QED
      BY <1>4, <2>2, <2>3 DEF EndReload, S!Abort, S!Goto, Phase
  <1>5. ASSUME NEW p \in Ports, StageFail(p) PROVE S!Abort
    BY <1>4, <1>5 DEF StageFail, connVars
  <1>6. ASSUME AbortApply PROVE S!Abort
    BY <1>4, <1>6 DEF AbortApply, connVars
  <1> QED
    BY <1>1, <1>2, <1>3, <1>5, <1>6 DEF Prepare, S!Next
(* A step that moves the ports of ks to their planned setting and leaves   *)
(* the others alone is a Publish.                                          *)
LEMMA Publishes ==
    ASSUME ServingSpec, ServingSpec', NEW ks \in SUBSET Ports,
           pc \in {"swap", "close"}, pc' \in {"swap", "close"}, UNCHANGED <<gen, new>>, Busy' = Busy,
           \A p \in Ports \ ks : SameAt(p), \A p \in ks : Serving'[p] = Plan[p]
    PROVE  S!Publish(ks)
  <1>1. \A p \in Ports \ ks : Serving'[p] = Serving[p]
    BY ServingStays
  <1>2. Serving' = [p \in Ports |-> IF p \in ks THEN Plan[p] ELSE Serving[p]]
    BY <1>1 DEF ServingSpec
  <1>3. Phase = "committing" /\ Phase' = "committing" /\ Plan' = Plan
    BY DEF Phase, Plan
  <1> QED
    BY <1>2, <1>3 DEF S!Publish, Busy

(* The steps of CommitApply: a kept port moves to its new settings at its  *)
(* Store, a new one when its loop starts and a removed one when its        *)
(* listener is closed.                                                     *)
LEMMA CommitRefines ==
    ASSUME IInv, ServingSpec, ServingSpec', Commit \/ BeginCommit PROVE S!Next \/ UNCHANGED S!vars
  <1>0. Shapes /\ gen \in Gens /\ newBinds \subseteq Ports
    BY DEF IInv, Structure, Placed, Shapes
  <1>1. ASSUME BeginCommit PROVE S!Commit
    <2>1. Serving' = Serving
      BY <1>1, Untouched DEF BeginCommit, connVars
    <2> QED
      BY <1>1, <2>1 DEF BeginCommit, planVars, connVars, S!Commit, S!Goto, Phase, Plan
  <1>2. ASSUME NEW p \in Ports, CommitSwap(p) PROVE S!Publish({p})
    <2>1. /\ pc = "swap" /\ pc' = pc /\ p \in swaps /\ live' = [live EXCEPT ![Current(p)] = gen]
          /\ UNCHANGED <<gen, new, mode, bound, loop, listeners>>
      BY <1>2 DEF CommitSwap, connVars
    <2>2. Kept(p) /\ listeners[p] \in Gens
      BY <1>0, <2>1 DEF IInv, Structure, Placed, PlanSound, Shapes, Kept, Reloading
    <2>3. Current(p) \in bound /\ loop[Current(p)] # "off" /\ Current(p) \in Listeners
      BY <2>1, <2>2, Pairs DEF IInv, Structure, Placed, Sockets, Loops, Up, Reloading, Kept, Current
    <2>4. mode'[Current(p)] = new[p] /\ live'[Current(p)] = gen
      BY <1>0, <2>1, <2>2, <2>3 DEF Kept, Shapes
    <2>5. Serves(p, listeners[p])'
      BY <2>1, <2>3 DEF Serves, Current
    <2>6. Serving'[p] = <<mode'[Current(p)], live'[Current(p)]>>
      BY <2>1, <2>2, <2>5 DEF ServingSpec, Current
    <2>7. Serving'[p] = Plan[p]
      BY <2>1, <2>2, <2>4, <2>6 DEF Plan, Kept
    <2>8. \A q \in Ports \ {p} : SameAt(q)
      BY <1>0, <2>1, Pairs DEF Shapes, SameAt, Serves, Current
    <2> QED
      BY <2>1, <2>7, <2>8, Publishes DEF Busy
  <1>3. ASSUME CommitStart PROVE S!Publish(newBinds)
    <2>1. /\ pc = "swap" /\ pc' = "close" /\ UNCHANGED <<gen, new, mode, live, bound>>
          /\ loop' = [l \in Listeners |-> IF l \in Staged THEN "accept" ELSE loop[l]]
      BY <1>3 DEF CommitStart, planVars
    <2>2. ASSUME NEW p \in newBinds PROVE Serving'[p] = Plan[p]
      <3>1. /\ Obj(p) \in bound /\ Obj(p) \in Listeners /\ new[p] # "off"
            /\ mode[Obj(p)] = new[p] /\ live[Obj(p)] = gen
        BY <1>0, <2>1, <2>2, Pairs DEF IInv, Structure, Placed, PlanSound, Sockets, Reloading, Obj
      <3>2. loop'[Obj(p)] # "off"
        BY <2>1, <2>2, <3>1 DEF Staged
      <3>3. Serves(p, gen)'
        BY <2>1, <3>1, <3>2 DEF Serves, Obj
      <3>4. Serving'[p] = <<mode'[<<p, gen>>], live'[<<p, gen>>]>>
        BY <1>0, <2>1, <2>2, <3>3 DEF ServingSpec
      <3> QED
        BY <1>0, <2>1, <2>2, <3>1, <3>4 DEF Plan, Obj
    <2>3. \A q \in Ports \ newBinds : SameAt(q)
      <3>1. \A q \in Ports \ newBinds, g \in Gens : <<q, g>> \notin Staged
        BY DEF Staged, Obj
      <3>2. \A q \in Ports \ newBinds, g \in Gens : loop'[<<q, g>>] = loop[<<q, g>>]
        BY <2>1, <3>1, Pairs
      <3> QED
        BY <2>1, <3>2 DEF SameAt, Serves
    <2>4. Busy' = Busy
      <3>1. \A q \in Ports : loop[Obj(q)] = "off"
        BY <2>1, NoStagedLoop
      <3>2. \A l \in Staged : loop[l] = "off"
        BY <1>0, <3>1 DEF Staged
      <3> QED
        BY <2>1, <3>2 DEF Busy
    <2> QED
      BY <1>0, <2>1, <2>2, <2>3, <2>4, Publishes
  <1>4. ASSUME NEW p \in Ports, CommitClose(p) PROVE S!Publish({p})
    <2>1. /\ pc = "close" /\ pc' = pc /\ new[p] = "off" /\ bound' = bound \ {Current(p)}
          /\ UNCHANGED <<gen, new, mode, live, loop>>
      BY <1>4 DEF CommitClose, CloseListener, planVars, connVars
    <2>2. \A g \in Gens : ~Serves(p, g)'
      <3>1. p \notin newBinds
        BY <2>1 DEF IInv, Structure, Placed, PlanSound, Reloading
      <3>2. \A g \in Gens : <<p, g>> \in bound => <<p, g>> = Current(p)
        BY <2>1, <3>1 DEF IInv, Structure, Placed, Sockets, Current
      <3> QED
        BY <2>1, <3>2 DEF Serves
    <2>3. Serving'[p] = Plan[p]
      BY <2>1, <2>2 DEF ServingSpec, Plan
    <2>4. \A q \in Ports \ {p} : SameAt(q)
      BY <2>1 DEF SameAt, Serves, Current
    <2> QED
      BY <2>1, <2>3, <2>4, Publishes DEF Busy
  <1>5. ASSUME CommitEnd PROVE S!EndCommit
    <2>1. Serving' = Serving /\ loop' = loop /\ pc = "close" /\ pc' = "idle"
      BY <1>5, Untouched DEF CommitEnd, EndReload, connVars
    <2>2. ASSUME NEW p \in Ports PROVE Serving[p] = Plan[p]
      <3>1. CASE new[p] = "off"
        <4>1. \A g \in Gens : <<p, g>> \notin bound
          <5>1. listeners[p] # Nil => <<p, listeners[p]>> \notin bound
            BY <1>5, <3>1 DEF CommitEnd, Current
          <5>2. p \notin newBinds
            BY <2>1, <3>1 DEF IInv, Structure, Placed, PlanSound, Reloading
          <5> QED
            BY <2>1, <5>1, <5>2, Pairs DEF IInv, Structure, Placed, Sockets
        <4> QED
          BY <3>1, <4>1 DEF ServingSpec, Serves, Plan
      <3>2. CASE new[p] # "off" /\ p \in newBinds
        <4>1. Obj(p) \in bound /\ loop[Obj(p)] # "off" /\ mode[Obj(p)] = new[p] /\ live[Obj(p)] = gen
          BY <1>0, <2>1, <3>2 DEF IInv, Structure, Placed, PlanSound, Loops, Sockets, Reloading, Obj
        <4>2. Serves(p, gen)
          BY <4>1 DEF Serves, Obj
        <4>3. Serving[p] = <<mode[Obj(p)], live[Obj(p)]>>
          BY <1>0, <4>2 DEF ServingSpec, Obj
        <4> QED
          BY <2>1, <3>2, <4>1, <4>3 DEF Plan
      <3>3. CASE new[p] # "off" /\ p \notin newBinds
        <4>1. Kept(p) /\ p \notin swaps
          BY <2>1, <3>3 DEF IInv, Structure, Placed, Walked, Quiet
        <4>2. /\ listeners[p] \in Gens /\ loop[Current(p)] # "off"
              /\ mode[Current(p)] = new[p] /\ live[Current(p)] = gen
          BY <1>0, <2>1, <3>3, <4>1 DEF IInv, Structure, Placed, Settings, Shapes, Loops, Kept, Up,
                                        Reloading
        <4>3. Serves(p, listeners[p])
          BY <2>1, <3>3, <4>2 DEF IInv, Structure, Placed, Sockets, Serves, Current
        <4>4. Serving[p] = <<mode[Current(p)], live[Current(p)]>>
          BY <4>2, <4>3 DEF ServingSpec, Current
        <4> QED
          BY <2>1, <3>3, <4>2, <4>4 DEF Plan
      <3> QED
        BY <3>1, <3>2, <3>3
    <2>3. Serving = Plan
      BY <2>2 DEF ServingSpec, Plan
    <2>4. Plan' = S!Nothing
      BY <2>1 DEF Plan, S!Nothing
    <2> QED
      BY <2>1, <2>3, <2>4 DEF S!EndCommit, S!Goto, Phase
  <1> QED
    BY <1>0, <1>1, <1>2, <1>3, <1>4, <1>5 DEF Commit, S!Next

(* Shutdown, and the closing of a sink after its listener.                 *)
LEMMA StopRefines ==
    ASSUME IInv, ServingSpec, ServingSpec', Shutdown \/ Stopping \/ GraceExpires \/ Jobs
    PROVE  S!Next \/ UNCHANGED S!vars
  <1>1. ASSUME Shutdown PROVE S!Shutdown
    <2>1. Serving' = Serving
      BY <1>1, Untouched DEF Shutdown, connVars
    <2> QED
      BY <1>1, <2>1 DEF Shutdown, planVars, connVars, S!Shutdown, S!Goto, Phase, Plan
  <1>2. ASSUME NEW p \in Ports, ShutdownClose(p) PROVE S!Close({p})
    <2>1. /\ pc = "shutdown" /\ pc' = pc /\ bound' = bound \ {Current(p)}
          /\ UNCHANGED <<gen, new, mode, live, loop>>
      BY <1>2 DEF ShutdownClose, CloseListener, planVars, connVars
    <2>2. \A g \in Gens : ~Serves(p, g)'
      <3>1. \A g \in Gens : <<p, g>> \in bound => <<p, g>> = Current(p)
        BY <2>1 DEF IInv, Structure, Placed, Sockets, Current
      <3> QED
        BY <2>1, <3>1 DEF Serves
    <2>3. Serving'[p] = Unserved
      BY <2>2 DEF ServingSpec
    <2>4. \A q \in Ports \ {p} : SameAt(q)
      BY <2>1 DEF SameAt, Serves, Current
    <2>5. \A q \in Ports \ {p} : Serving'[q] = Serving[q]
      BY <2>4, ServingStays
    <2>6. Serving' = [q \in Ports |-> IF q \in {p} THEN Unserved ELSE Serving[q]]
      BY <2>3, <2>5 DEF ServingSpec
    <2> QED
      BY <2>1, <2>6 DEF S!Close, Phase, Plan
  <1>3. ASSUME ShutdownWait \/ GraceExpires PROVE UNCHANGED S!vars
    <2>1. /\ pc \in {"shutdown", "wait"} /\ pc' \in {"wait", "forced"}
          /\ UNCHANGED <<mode, live, bound, loop>>
      BY <1>3 DEF ShutdownWait, GraceExpires, connVars
    <2>2. Serving' = Serving
      BY <2>1, Untouched
    <2> QED
      BY <2>1, <2>2 DEF S!vars, Phase, Plan
  <1>4. ASSUME ShutdownReturn PROVE S!Stopped
    <2>1. /\ pc \in {"wait", "forced"} /\ pc' = "returned" /\ UNCHANGED <<mode, live, bound, loop>>
          /\ ~Busy /\ bound = {}
      BY <1>4 DEF ShutdownReturn, connVars, Busy, IInv, Structure, Placed, Sockets
    <2>2. Serving' = Serving
      BY <2>1, Untouched
    <2>3. Serving = S!Nothing
      BY <2>1 DEF ServingSpec, Serves, S!Nothing
    <2> QED
      BY <2>1, <2>2, <2>3 DEF S!Stopped, S!Goto, Phase, Plan, Busy
  <1>5. ASSUME Jobs PROVE UNCHANGED S!vars
    <2>1. UNCHANGED <<pc, gen, new, mode, bound, loop>>
      BY <1>5 DEF Jobs, JobUnlink, JobRelease, planVars, connVars
    <2>2. \A p \in Ports : SameAt(p)
      <3>1. CASE JobRelease
        BY <2>1, <3>1 DEF JobRelease, SameAt, Serves
      <3>2. CASE JobUnlink
        <4>1. job.l \notin bound /\ live' = [live EXCEPT ![job.l] = Nil]
          BY <3>2 DEF JobUnlink, IInv, Structure, Placed, Offered
        <4>2. \A l \in bound : live'[l] = live[l]
          BY <4>1 DEF IInv, TypeOK
        <4> QED
          BY <2>1, <4>2 DEF SameAt, Serves
      <3> QED
        BY <1>5, <3>1, <3>2 DEF Jobs
    <2>3. Serving' = Serving
      BY <2>2, AllServingStay
    <2> QED
      BY <2>1, <2>3 DEF S!vars, Phase, Plan
  <1> QED
    BY <1>1, <1>2, <1>3, <1>4, <1>5 DEF Stopping, S!Next

(* The accept loops: a connection makes the server busy, and the end of    *)
(* the last one idle again.                                                *)
LEMMA LoopRefines ==
    ASSUME IInv, ServingSpec, ServingSpec', NEW l \in Listeners,
           Accept(l) \/ RelayEnd(l) \/ Handler(l)
    PROVE  S!Next \/ UNCHANGED S!vars
  <1>0. loop \in [Listeners -> {"off", "accept", "track", "load", "acquire", "relay", "untrack",
                                "exited"}]
    BY DEF IInv, TypeOK
  <1>1. /\ UNCHANGED <<pc, gen, new, mode, live, bound>>
        /\ loop[l] # "off" /\ loop[l] # "exited"
        /\ \E to : to # "off" /\ loop' = [loop EXCEPT ![l] = to]
    BY DEF Accept, RelayEnd, Handler, AcceptClosed, TrackConn, Load, Acquire, UntrackConn, LoopGoto,
           ServerUnchanged, planVars
  <1>2. Phase' = Phase /\ Plan' = Plan
    BY <1>1 DEF Phase, Plan
  <1>3. Serving' = Serving
    <2>1. \A k \in Listeners : loop'[k] # "off" <=> loop[k] # "off"
      BY <1>0, <1>1
    <2>2. \A p \in Ports : SameAt(p)
      BY <1>1, <2>1, Pairs DEF SameAt, Serves
    <2> QED
      BY <2>2, AllServingStay
  <1>4. CASE Busy' = Busy
    BY <1>2, <1>3, <1>4 DEF S!vars, Busy
  <1>5. CASE ~Busy'
    BY <1>2, <1>3, <1>5 DEF S!ConnEnd, S!Next, Busy
  <1>6. CASE Busy' /\ ~Busy
    <2>1. loop[l] = "accept"
      BY <1>0, <1>1, <1>6 DEF Busy
    <2>2. l \in bound
      <3>1. CASE AcceptClosed(l)
        <4>1. \A k \in Listeners : loop'[k] = IF k = l THEN "exited" ELSE loop[k]
          BY <1>0, <3>1 DEF AcceptClosed, LoopGoto
        <4> QED
          BY <1>6, <4>1 DEF Busy
      <3>2. CASE ~AcceptClosed(l)
        BY <2>1, <3>2 DEF Accept, RelayEnd, Handler, TrackConn, Load, Acquire, UntrackConn
      <3> QED
        BY <3>1, <3>2
    <2>3. Serving # S!Nothing
      <3>1. Serves(l[1], l[2])
        BY <2>1, <2>2, Pairs DEF Serves
      <3>2. Serving[l[1]] = <<mode[l], live[l]>> /\ l[1] \in Ports
        BY <3>1, Pairs DEF ServingSpec
      <3>3. S!Nothing[l[1]] = << >>
        BY <3>2 DEF S!Nothing, Unserved
      <3>4. <<mode[l], live[l]>> # << >>
        OBVIOUS
      <3> QED
        BY <3>2, <3>3, <3>4
    <2> QED
      BY <1>2, <1>3, <1>6, <2>3 DEF S!Connect, S!Next, Busy
  <1>7. Busy \in BOOLEAN /\ Busy' \in BOOLEAN
    BY DEF Busy
  <1> QED
    BY <1>4, <1>5, <1>6, <1>7

(* The outbound server implements module Server: a reload, its failure or  *)
(* its abort, a relay and Shutdown serve a port nothing but what was       *)
(* committed or, once the commit has begun, its new setting, and a commit  *)
(* ends with the whole plan served.                                        *)
THEOREM ImplementsServerHolds == Spec => ImplementsServer
  <1>1. Init => S!Init
    <2> SUFFICES ASSUME Init PROVE S!Init
      OBVIOUS
    <2>1. Serving = S!Nothing
      BY DEF Init, Serving, Accepting, S!Nothing
    <2>2. Plan = S!Nothing /\ Phase = "new"
      BY DEF Init, Plan, Phase, S!Nothing
    <2>3. ~ \E l \in Listeners : loop[l] \notin {"off", "accept", "exited"}
      BY DEF Init
    <2> QED
      BY <2>1, <2>2, <2>3 DEF S!Init
  <1>2. IInv /\ IInv' /\ [Next]_vars => [S!Next]_(S!vars)
    <2> SUFFICES ASSUME IInv, IInv', [Next]_vars PROVE S!Next \/ UNCHANGED S!vars
      OBVIOUS
    <2>1. ServingSpec
      BY ServingIs DEF IInv, Structure
    <2>2. Placed' => ServingSpec'
      BY ServingIs, PTL
    <2>3. ServingSpec'
      BY <2>2 DEF IInv, Structure
    <2>4. CASE UNCHANGED vars
      <3>1. Serving' = Serving
        BY <2>1, <2>3, <2>4, Untouched DEF vars, connVars
      <3> QED
        BY <2>4, <3>1 DEF vars, planVars, connVars, S!vars, Phase, Plan
    <2> QED
      BY <2>1, <2>3, <2>4, StartRefines, PrepareRefines, CommitRefines, StopRefines, LoopRefines
         DEF Next
  <1> QED
    BY <1>1, <1>2, IInvHolds, PTL DEF Spec, ImplementsServer, S!Spec
=============================================================================
