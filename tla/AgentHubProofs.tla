---------------------------- MODULE AgentHubProofs ----------------------------
(***************************************************************************)
(* AgentHub for any number of sessions, phones and ports: a port names one     *)
(* phone, and what the hub's table shows is true.  AgentSender for any number    *)
(* of connections and any bounds: the queues are accounted for, nobody          *)
(* monopolises the WebSocket, and whoever sleeps is owed a notification.        *)
(*                                                                         *)
(* The argument about the hub.  Rows are only added for devices without one and  *)
(* ports without one, so PortsNotShared keeps itself.  A device whose listener   *)
(* is starting or up holds its port (PortsHeld): a session binds a port only     *)
(* when nobody listens to it, and lets go of it only together with the device.   *)
(* And the agent is online only while somebody will still take it offline        *)
(* (Shown): the session in the table, a teardown under way - or nobody, if a     *)
(* sender broke.                                                            *)
(*                                                                         *)
(* The argument about the sender.  A connection has one turn exactly if it has   *)
(* data (OneTurn), so the turns are at most as many as the connections, and      *)
(* what passed a connection and its place among the turns are together at most   *)
(* that number (PassedFew): each chunk of another adds one to the first and      *)
(* takes one from the second.  A reader without room has data queued, hence a    *)
(* turn, hence the sender is awake.                                          *)
(***************************************************************************)
EXTENDS MCAgents, FiniteSetTheorems, SequenceTheorems, TLAPS

Entered == {"apply", "starting", "serve"}
Active(s, d) == dev[s][d] \in {"starting", "up"}
Tearing(s) == pc[s] \in {"evicting", "ending"}

Ids ==
    /\ agent.id = 0 => ~agent.online
    /\ \A s \in Sessions : pc[s] \in Entered => id[s] # 0

PortsKnown ==
    \A s \in Sessions, d \in Devices :
        dev[s][d] # "none" \/ d \in todo[s] => port[s][d] \in Ports

PortsHeld ==
    \A s \in Sessions, d \in Devices : Active(s, d) =>
        /\ listening[port[s][d]] = s
        /\ \A e \in Devices : Active(s, e) /\ port[s][e] = port[s][d] => e = d

OnlineIsOwed ==
    agent.online =>
        \/ entry # None /\ id[entry] = agent.id
        \/ \E s \in Sessions : Tearing(s) /\ id[victim[s]] = agent.id
        \/ \E s \in broken : id[s] = agent.id

Shown ==
    /\ \A s \in Sessions : pc[s] \in Before => s \notin closed
    /\ entry # None => pc[entry] \in Entered \/ entry \in broken
    /\ entry \in closed => entry \in broken

IInv ==
    TypeOK /\ PortsNotShared /\ Ids /\ PortsKnown /\ PortsHeld /\ OnlineIsOwed /\ Shown

-----------------------------------------------------------------------------
(* Rows and ports of a report.                                              *)

(* The rows after a report are rows, and still unique.                       *)
LEMMA PersistRows ==
    ASSUME TypeOK, PortsNotShared,
           NEW s \in Sessions, NEW i \in 1 .. MaxAgents, NEW reported \in SUBSET Devices,
           Persist(s, i, reported)
    PROVE  mappings' \subseteq Mappings /\ PortsNotShared'
<1> DEFINE fresh == {d \in reported : MappedPort(mappings, i, d) = {}}
<1>0. PICK ds \in SUBSET fresh : \E f \in PickedPorts(mappings, i, ds) :
        mappings' = mappings \cup {[agent |-> i, device |-> d, port |-> f[d]] : d \in ds}
  BY DEF Persist
<1>1. PICK f \in PickedPorts(mappings, i, ds) :
        mappings' = mappings \cup {[agent |-> i, device |-> d, port |-> f[d]] : d \in ds}
  BY <1>0
<1>2. /\ \A d \in ds : f[d] \in Ports \ UsedPorts(mappings)
      /\ \A d, e \in ds : d # e => f[d] # f[e]
  BY <1>1 DEF PickedPorts
<1>3. \A d \in ds, m \in mappings : m.port # f[d] /\ ~(m.agent = i /\ m.device = d)
  BY <1>1, <1>2 DEF UsedPorts, MappedPort
<1>4. mappings' \subseteq Mappings
  <2> SUFFICES ASSUME NEW d \in ds
               PROVE  [agent |-> i, device |-> d, port |-> f[d]] \in Mappings
    BY <1>1 DEF TypeOK
  <2> QED  BY <1>1, <1>2 DEF Mappings
<1>5. ASSUME NEW m \in mappings', NEW n \in mappings',
             m.port = n.port \/ (m.agent = n.agent /\ m.device = n.device)
      PROVE  m = n
  <2>1. CASE m \in mappings /\ n \in mappings
    BY <2>1, <1>5 DEF PortsNotShared
  <2>2. CASE m \in mappings /\ n \notin mappings
    <3>1. PICK d \in ds : n = [agent |-> i, device |-> d, port |-> f[d]]
      BY <1>1, <2>2
    <3> QED  BY <3>1, <2>2, <1>3, <1>5
  <2>3. CASE m \notin mappings /\ n \in mappings
    <3>1. PICK d \in ds : m = [agent |-> i, device |-> d, port |-> f[d]]
      BY <1>1, <2>3
    <3> QED  BY <3>1, <2>3, <1>3, <1>5
  <2>4. CASE m \notin mappings /\ n \notin mappings
    <3>1. PICK d \in ds : m = [agent |-> i, device |-> d, port |-> f[d]]
      BY <1>1, <2>4
    <3>2. PICK e \in ds : n = [agent |-> i, device |-> e, port |-> f[e]]
      BY <1>1, <2>4
    <3> QED  BY <3>1, <3>2, <1>2, <1>5
  <2> QED  BY <2>1, <2>2, <2>3, <2>4
<1> QED  BY <1>4, <1>5 DEF PortsNotShared

(* A report gives the devices to look at their ports, and leaves the ports of    *)
(* devices with a runtime and of other sessions alone.                          *)
LEMMA PersistPorts ==
    ASSUME TypeOK, PortsNotShared,
           NEW s \in Sessions, NEW i \in 1 .. MaxAgents, NEW reported \in SUBSET Devices,
           Persist(s, i, reported)
    PROVE  /\ port' \in [Sessions -> [Devices -> Ports \cup {0}]]
           /\ todo' \in [Sessions -> SUBSET Devices] /\ wanted' \in [Sessions -> SUBSET Devices]
           /\ \A t \in Sessions \ {s} : port'[t] = port[t] /\ todo'[t] = todo[t]
           /\ \A d \in Devices :
                 /\ dev[s][d] # "none" => port'[s][d] = port[s][d]
                 /\ dev[s][d] = "none" /\ d \in todo'[s] => port'[s][d] \in Ports
<1> DEFINE given == {d \in reported : MappedPort(mappings', i, d) # {}}
           given_port(d) == CHOOSE p \in MappedPort(mappings', i, d) : TRUE
<1>1. /\ wanted' = [wanted EXCEPT ![s] = given]
      /\ todo' = [todo EXCEPT ![s] = given]
      /\ port' = [port EXCEPT ![s] = [d \in Devices |->
                    IF d \in given /\ dev[s][d] = "none" THEN given_port(d) ELSE port[s][d]]]
  BY DEF Persist
<1>2. ASSUME NEW d \in given PROVE given_port(d) \in Ports
  <2>1. MappedPort(mappings', i, d) \subseteq Ports
    BY PersistRows DEF MappedPort, Mappings
  <2> QED  BY <2>1
<1> HIDE DEF given, given_port
<1>3. given \subseteq Devices
  BY DEF given
<1>4. \A d \in Devices : port[s][d] \in Ports \cup {0}
  BY DEF TypeOK
<1>5. /\ port \in [Sessions -> [Devices -> Ports \cup {0}]]
      /\ todo \in [Sessions -> SUBSET Devices] /\ wanted \in [Sessions -> SUBSET Devices]
  BY DEF TypeOK
<1> QED  BY <1>1, <1>2, <1>3, <1>4, <1>5

-----------------------------------------------------------------------------
(* Steps.  Each lemma shows that IInv outlives a group of actions.             *)

(* A step that leaves runtimes, ports and listeners alone keeps what is said of  *)
(* them, if no more devices are looked at.                                       *)
LEMMA PortsRest ==
    ASSUME PortsKnown, PortsHeld, UNCHANGED <<dev, port, listening>>,
           \A s \in Sessions : todo'[s] \subseteq todo[s]
    PROVE  PortsKnown' /\ PortsHeld'
<1>1. \A s \in Sessions, d \in Devices : Active(s, d)' <=> Active(s, d)
  BY DEF Active
<1> QED  BY <1>1 DEF PortsKnown, PortsHeld

(* A report looked into the database.                                           *)
LEMMA PersistKeepsPorts ==
    ASSUME TypeOK, PortsNotShared, PortsKnown, PortsHeld,
           NEW s \in Sessions, NEW i \in 1 .. MaxAgents, NEW reported \in SUBSET Devices,
           Persist(s, i, reported), UNCHANGED <<dev, listening>>
    PROVE  PortsKnown' /\ PortsHeld'
<1>1. \A t \in Sessions, d \in Devices :
        /\ Active(t, d)' <=> Active(t, d)
        /\ Active(t, d) => port'[t][d] = port[t][d]
        /\ dev[t][d] # "none" => port'[t][d] = port[t][d]
  BY PersistPorts DEF Active
<1>2. PortsKnown'
  <2> SUFFICES ASSUME NEW t \in Sessions, NEW d \in Devices,
                      dev[t][d] # "none" \/ d \in todo'[t]
               PROVE  port'[t][d] \in Ports
    BY DEF PortsKnown
  <2>1. CASE dev[t][d] # "none"
    BY <2>1, <1>1 DEF PortsKnown
  <2>2. CASE dev[t][d] = "none" /\ t = s
    BY <2>2, PersistPorts
  <2>3. CASE dev[t][d] = "none" /\ t # s
    BY <2>3, PersistPorts DEF PortsKnown
  <2> QED  BY <2>1, <2>2, <2>3
<1>3. PortsHeld'
  BY <1>1 DEF PortsHeld
<1> QED  BY <1>2, <1>3

(* A session enters the table.                                                 *)
LEMMA EnterStep ==
    ASSUME IInv, NEW s \in Sessions, NEW reported \in Lists,
           pc[s] \in {"new", "cleared"}, Enter(s, reported)
    PROVE  IInv'
<1> USE DEF IInv
<1>0. reported \in SUBSET Devices
  BY HubAssumption
<1>1. PICK i \in IF agent = NoAgent THEN {lastId, lastId + 1} \ {0} ELSE {agent.id} :
        /\ i <= MaxAgents
        /\ agent' = [id |-> i, online |-> TRUE]
        /\ lastId' = IF i > lastId THEN i ELSE lastId
        /\ entry' = s /\ id' = [id EXCEPT ![s] = i]
        /\ Persist(s, i, reported)
        /\ pc' = [pc EXCEPT ![s] = "apply"]
        /\ UNCHANGED <<closed, victim, dev, listening, deleting, broken>>
  BY DEF Enter
<1>2. i \in 1 .. MaxAgents
  <2>1. lastId \in Nat /\ agent.id \in Nat /\ MaxAgents \in Nat
    BY HubAssumption DEF TypeOK
  <2>2. agent.id = 0 => agent = NoAgent
    <3>1. agent \in [id : 0 .. MaxAgents, online : BOOLEAN]
      BY DEF TypeOK
    <3>2. agent.id = 0 => agent.online = FALSE
      BY <3>1 DEF Ids
    <3> QED  BY <3>1, <3>2 DEF NoAgent
  <2> QED  BY <1>1, <2>1, <2>2
<1>3. PortsNotShared' /\ mappings' \subseteq Mappings
  BY <1>0, <1>1, <1>2, PersistRows
<1>4. TypeOK'
  <2>1. /\ agent' \in [id : 0 .. MaxAgents, online : BOOLEAN] /\ lastId' \in 0 .. MaxAgents
        /\ id' \in [Sessions -> 0 .. MaxAgents]
    BY <1>1, <1>2, HubAssumption DEF TypeOK
  <2>2. /\ port' \in [Sessions -> [Devices -> Ports \cup {0}]]
        /\ todo' \in [Sessions -> SUBSET Devices] /\ wanted' \in [Sessions -> SUBSET Devices]
    BY <1>0, <1>1, <1>2, PersistPorts
  <2>3. /\ entry' \in Sessions \cup {None}
        /\ pc' \in [Sessions -> Before \cup {"apply", "starting", "serve", "ending", "ended"}]
    BY <1>1 DEF TypeOK
  <2> QED  BY <1>1, <1>3, <2>1, <2>2, <2>3 DEF TypeOK
<1>5. Ids'
  <2>1. agent'.id # 0
    BY <1>1, <1>2
  <2>2. \A t \in Sessions : pc'[t] \in Entered => id'[t] # 0
    BY <1>1, <1>2 DEF Ids, TypeOK
  <2> QED  BY <2>1, <2>2 DEF Ids
<1>6. PortsKnown' /\ PortsHeld'
  BY <1>0, <1>1, <1>2, PersistKeepsPorts
<1>7. OnlineIsOwed'
  <2>1. entry' # None /\ id'[entry'] = agent'.id
    BY <1>1, HubAssumption DEF None, TypeOK
  <2> QED  BY <2>1 DEF OnlineIsOwed
<1>8. Shown'
  <2>1. s \notin closed
    BY DEF Shown, Before
  <2>2. \A t \in Sessions : pc'[t] \in Before => t \notin closed
    BY <1>1 DEF Shown, Before, TypeOK
  <2>3. pc'[s] \in Entered
    BY <1>1 DEF TypeOK, Entered
  <2> QED  BY <1>1, <2>1, <2>2, <2>3 DEF Shown
<1> QED  BY <1>3, <1>4, <1>5, <1>6, <1>7, <1>8

(* The agent reports its devices again.                                        *)
LEMMA ReportStep ==
    ASSUME IInv, NEW s \in Sessions, NEW reported \in Lists, Report(s, reported)
    PROVE  IInv'
<1> USE DEF IInv
<1>0. reported \in SUBSET Devices
  BY HubAssumption
<1>1. /\ pc[s] = "serve" /\ Persist(s, id[s], reported)
      /\ pc' = [pc EXCEPT ![s] = "apply"]
      /\ UNCHANGED <<entry, closed, victim, dev, id, listening, agent, lastId, deleting, broken>>
  BY DEF Report
<1>2. id[s] \in 1 .. MaxAgents
  BY <1>1, HubAssumption DEF Ids, Entered, TypeOK
<1>3. PortsNotShared' /\ mappings' \subseteq Mappings
  BY <1>0, <1>1, <1>2, PersistRows
<1>4. TypeOK'
  <2>2. /\ port' \in [Sessions -> [Devices -> Ports \cup {0}]]
        /\ todo' \in [Sessions -> SUBSET Devices] /\ wanted' \in [Sessions -> SUBSET Devices]
    BY <1>0, <1>1, <1>2, PersistPorts
  <2>3. pc' \in [Sessions -> Before \cup {"apply", "starting", "serve", "ending", "ended"}]
    BY <1>1 DEF TypeOK
  <2> QED  BY <1>1, <1>3, <2>2, <2>3 DEF TypeOK
<1>5. Ids'
  BY <1>1, <1>2 DEF Ids, TypeOK
<1>6. PortsKnown' /\ PortsHeld'
  BY <1>0, <1>1, <1>2, PersistKeepsPorts
<1>7. OnlineIsOwed'
  <2>1. \A t \in Sessions : Tearing(t)' <=> Tearing(t)
    BY <1>1 DEF Tearing, TypeOK
  <2> QED  BY <1>1, <2>1 DEF OnlineIsOwed
<1>8. Shown'
  BY <1>1 DEF Shown, Before, Entered, TypeOK
<1> QED  BY <1>3, <1>4, <1>5, <1>6, <1>7, <1>8

(* A runtime leaves its session, and its listener the port.                     *)
LEMMA RemovedKeepsPorts ==
    ASSUME TypeOK, PortsKnown, PortsHeld, NEW t \in Sessions, NEW d \in Devices,
           dev[t][d] # "none", Removed(t, d), UNCHANGED <<port, todo>>
    PROVE  /\ dev' \in [Sessions -> [Devices -> {"none", "starting", "up", "error"}]]
           /\ listening' \in [Ports -> Sessions \cup {None}]
           /\ PortsKnown' /\ PortsHeld'
<1>1. /\ dev' = [dev EXCEPT ![t][d] = "none"]
      /\ listening' = IF dev[t][d] = "up" THEN [listening EXCEPT ![port[t][d]] = None]
                      ELSE listening
  BY DEF Removed
<1>2. /\ dev' \in [Sessions -> [Devices -> {"none", "starting", "up", "error"}]]
      /\ listening' \in [Ports -> Sessions \cup {None}]
  BY <1>1 DEF TypeOK
<1>3. \A s \in Sessions, e \in Devices :
        dev'[s][e] = IF s = t /\ e = d THEN "none" ELSE dev[s][e]
  BY <1>1 DEF TypeOK
<1>4. PortsKnown'
  <2>1. \A s \in Sessions, e \in Devices : dev'[s][e] # "none" => dev[s][e] # "none"
    BY <1>3
  <2> QED  BY <2>1 DEF PortsKnown
<1>5. PortsHeld'
  <2>1. \A s \in Sessions, e \in Devices :
          Active(s, e)' => Active(s, e) /\ ~(s = t /\ e = d)
    BY <1>3 DEF Active
  <2>2. ASSUME NEW s \in Sessions, NEW e \in Devices, Active(s, e)'
        PROVE  listening'[port[s][e]] = s
    <3>1. listening[port[s][e]] = s /\ port[s][e] \in Ports
      BY <2>1, <2>2 DEF PortsHeld, PortsKnown, Active
    <3>2. CASE dev[t][d] = "up" /\ port[s][e] = port[t][d]
      <4>1. Active(t, d)
        BY <3>2 DEF Active
      <4>2. s = t
        BY <3>1, <3>2, <4>1 DEF PortsHeld
      <4> QED  BY <2>1, <2>2, <3>2, <4>1, <4>2 DEF PortsHeld
    <3>3. CASE ~(dev[t][d] = "up" /\ port[s][e] = port[t][d])
      BY <3>1, <3>3, <1>1 DEF TypeOK
    <3> QED  BY <3>2, <3>3
  <2> QED  BY <2>1, <2>2 DEF PortsHeld
<1> QED  BY <1>2, <1>4, <1>5

LEMMA RemoveStep ==
    ASSUME IInv, NEW s \in Sessions, NEW d \in Devices,
           RemoveDevice(s, d) \/ CloseDevice(s, d)
    PROVE  IInv'
<1> USE DEF IInv
<1>1. PICK t \in Sessions : dev[t][d] # "none" /\ Removed(t, d)
  BY DEF RemoveDevice, CloseDevice, TypeOK
<1>2. UNCHANGED <<entry, pc, closed, victim, port, todo, wanted, id, rows, deleting, broken>>
  BY DEF RemoveDevice, CloseDevice
<1>3. /\ dev' \in [Sessions -> [Devices -> {"none", "starting", "up", "error"}]]
      /\ listening' \in [Ports -> Sessions \cup {None}]
      /\ PortsKnown' /\ PortsHeld'
  BY <1>1, <1>2, RemovedKeepsPorts
<1>4. TypeOK'
  BY <1>2, <1>3 DEF TypeOK, rows
<1>5. PortsNotShared' /\ Ids'
  BY <1>2 DEF PortsNotShared, Ids, rows
<1>6. OnlineIsOwed' /\ Shown'
  <2>1. \A u \in Sessions : Tearing(u)' <=> Tearing(u)
    BY <1>2 DEF Tearing
  <2> QED  BY <1>2, <2>1 DEF OnlineIsOwed, Shown, rows
<1> QED  BY <1>3, <1>4, <1>5, <1>6

(* A session binds a port that nobody listens to, or remembers that it could not. *)
LEMMA StartListenerStep ==
    ASSUME IInv, NEW s \in Sessions, NEW d \in Devices, StartListener(s, d)
    PROVE  IInv'
<1> USE DEF IInv
<1>1. /\ pc[s] = "apply" /\ d \in todo[s] /\ dev[s][d] = "none"
      /\ todo' = [todo EXCEPT ![s] = @ \ {d}]
      /\ UNCHANGED <<entry, closed, victim, port, wanted, id, rows, deleting, broken>>
  BY DEF StartListener
<1>2. port[s][d] \in Ports
  BY <1>1 DEF PortsKnown
<1>3. \A t \in Sessions : todo'[t] \subseteq todo[t]
  BY <1>1 DEF TypeOK
<1>4. CASE listening[port[s][d]] = None
  <2>1. /\ listening' = [listening EXCEPT ![port[s][d]] = s]
        /\ dev' = [dev EXCEPT ![s][d] = "starting"]
        /\ pc' = [pc EXCEPT ![s] = "starting"]
    BY <1>4 DEF StartListener
  <2>2. TypeOK'
    BY <1>1, <1>2, <2>1 DEF TypeOK, rows
  <2>3. PortsNotShared' /\ Ids'
    BY <1>1, <2>1 DEF PortsNotShared, Ids, Entered, TypeOK, rows
  <2>4. \A t \in Sessions, e \in Devices :
          dev'[t][e] = IF t = s /\ e = d THEN "starting" ELSE dev[t][e]
    BY <2>1 DEF TypeOK
  <2>5. PortsKnown'
    BY <1>1, <1>2, <1>3, <2>4 DEF PortsKnown
  <2>6. PortsHeld'
    <3>1. \A t \in Sessions, e \in Devices :
            Active(t, e)' <=> Active(t, e) \/ (t = s /\ e = d)
      BY <2>4 DEF Active
    <3>2. \A t \in Sessions, e \in Devices :
            Active(t, e) => port[t][e] \in Ports /\ port[t][e] # port[s][d]
      <4> SUFFICES ASSUME NEW t \in Sessions, NEW e \in Devices, Active(t, e)
                   PROVE  port[t][e] \in Ports /\ port[t][e] # port[s][d]
        OBVIOUS
      <4>1. listening[port[t][e]] = t /\ port[t][e] \in Ports
        BY DEF PortsHeld, PortsKnown, Active
      <4>2. t # None
        BY HubAssumption DEF None
      <4> QED  BY <4>1, <4>2, <1>4
    <3>3. ASSUME NEW t \in Sessions, NEW e \in Devices, Active(t, e)'
          PROVE  listening'[port[t][e]] = t
      <4>1. CASE t = s /\ e = d
        BY <4>1, <1>2, <2>1 DEF TypeOK
      <4>2. CASE Active(t, e)
        <5>1. port[t][e] # port[s][d]
          BY <4>2, <3>2
        <5> QED  BY <4>2, <5>1, <2>1, <3>2 DEF PortsHeld, TypeOK
      <4> QED  BY <3>1, <3>3, <4>1, <4>2
    <3>4. ASSUME NEW t \in Sessions, NEW e \in Devices, NEW f \in Devices,
                 Active(t, e)', Active(t, f)', port[t][f] = port[t][e]
          PROVE  f = e
      BY <3>1, <3>2, <3>4 DEF PortsHeld
    <3> QED  BY <3>3, <3>4, <1>1 DEF PortsHeld
  <2>7. OnlineIsOwed'
    <3>1. \A t \in Sessions : Tearing(t)' <=> Tearing(t)
      BY <1>1, <2>1 DEF Tearing, TypeOK
    <3> QED  BY <1>1, <3>1 DEF OnlineIsOwed, rows
  <2>8. Shown'
    BY <1>1, <2>1 DEF Shown, Before, Entered, TypeOK
  <2> QED  BY <2>2, <2>3, <2>5, <2>6, <2>7, <2>8
<1>5. CASE listening[port[s][d]] # None
  <2>1. dev' = [dev EXCEPT ![s][d] = "error"] /\ UNCHANGED <<pc, listening>>
    BY <1>5 DEF StartListener
  <2>2. TypeOK'
    BY <1>1, <1>2, <2>1 DEF TypeOK, rows
  <2>3. PortsNotShared' /\ Ids' /\ Shown'
    BY <1>1, <2>1 DEF PortsNotShared, Ids, Shown, rows
  <2>4. \A t \in Sessions, e \in Devices :
          dev'[t][e] = IF t = s /\ e = d THEN "error" ELSE dev[t][e]
    BY <2>1 DEF TypeOK
  <2>5. PortsKnown'
    BY <1>1, <1>2, <1>3, <2>4 DEF PortsKnown
  <2>6. PortsHeld'
    <3>1. \A t \in Sessions, e \in Devices : Active(t, e)' <=> Active(t, e)
      BY <1>1, <2>4 DEF Active
    <3> QED  BY <3>1, <1>1, <2>1 DEF PortsHeld
  <2>7. OnlineIsOwed'
    <3>1. \A t \in Sessions : Tearing(t)' <=> Tearing(t)
      BY <2>1 DEF Tearing
    <3> QED  BY <1>1, <3>1 DEF OnlineIsOwed, rows
  <2> QED  BY <2>2, <2>3, <2>5, <2>6, <2>7
<1> QED  BY <1>4, <1>5

LEMMA ListenerReadyStep ==
    ASSUME IInv, NEW s \in Sessions, ListenerReady(s)
    PROVE  IInv'
<1> USE DEF IInv
<1>1. /\ pc[s] = "starting"
      /\ dev' = [dev EXCEPT ![s] =
                    [d \in Devices |-> IF @[d] = "starting" THEN "up" ELSE @[d]]]
      /\ pc' = [pc EXCEPT ![s] = "apply"]
      /\ UNCHANGED <<entry, closed, victim, port, todo, wanted, id, listening, rows, deleting,
                     broken>>
  BY DEF ListenerReady
<1>2. \A t \in Sessions, d \in Devices :
        dev'[t][d] = IF t = s /\ dev[t][d] = "starting" THEN "up" ELSE dev[t][d]
  BY <1>1 DEF TypeOK
<1>3. TypeOK'
  <2>1. dev' \in [Sessions -> [Devices -> {"none", "starting", "up", "error"}]]
    <3>1. \A d \in Devices : (IF dev[s][d] = "starting" THEN "up" ELSE dev[s][d])
                                 \in {"none", "starting", "up", "error"}
      BY DEF TypeOK
    <3> QED  BY <1>1, <3>1 DEF TypeOK
  <2>2. pc' \in [Sessions -> Before \cup {"apply", "starting", "serve", "ending", "ended"}]
    BY <1>1 DEF TypeOK
  <2> QED  BY <1>1, <2>1, <2>2 DEF TypeOK, rows
<1>4. PortsNotShared' /\ Ids' /\ Shown'
  BY <1>1 DEF PortsNotShared, Ids, Shown, Entered, Before, TypeOK, rows
<1>5. PortsKnown'
  BY <1>1, <1>2 DEF PortsKnown
<1>6. PortsHeld'
  <2>1. \A t \in Sessions, e \in Devices : Active(t, e)' <=> Active(t, e)
    BY <1>2 DEF Active
  <2> QED  BY <2>1, <1>1 DEF PortsHeld
<1>7. OnlineIsOwed'
  <2>1. \A t \in Sessions : Tearing(t)' <=> Tearing(t)
    BY <1>1 DEF Tearing, TypeOK
  <2> QED  BY <1>1, <2>1 DEF OnlineIsOwed, rows
<1> QED  BY <1>3, <1>4, <1>5, <1>6, <1>7

(* A device is skipped, or all devices are done.                                *)
LEMMA AppliedStep ==
    ASSUME IInv, NEW s \in Sessions, Applied(s) \/ \E d \in Devices : KeepDevice(s, d)
    PROVE  IInv'
<1> USE DEF IInv
<1>1. /\ UNCHANGED <<entry, closed, victim, dev, port, wanted, id, listening, rows, deleting,
                     broken>>
      /\ pc[s] = "apply"
      /\ pc' = pc \/ pc' = [pc EXCEPT ![s] = IF s \in closed THEN "ended" ELSE "serve"]
      /\ todo' = todo \/ \E ds \in SUBSET todo[s] : todo' = [todo EXCEPT ![s] = ds]
  BY DEF Applied, KeepDevice
<1>2. TypeOK'
  <2>1. todo' \in [Sessions -> SUBSET Devices]
    <3>1. CASE todo' = todo
      BY <3>1 DEF TypeOK
    <3>2. CASE \E ds \in SUBSET todo[s] : todo' = [todo EXCEPT ![s] = ds]
      <4>1. PICK ds \in SUBSET todo[s] : todo' = [todo EXCEPT ![s] = ds]
        BY <3>2
      <4>2. ds \in SUBSET Devices
        BY DEF TypeOK
      <4> QED  BY <4>1, <4>2 DEF TypeOK
    <3> QED  BY <1>1, <3>1, <3>2
  <2>2. pc' \in [Sessions -> Before \cup {"apply", "starting", "serve", "ending", "ended"}]
    BY <1>1 DEF TypeOK
  <2> QED  BY <1>1, <2>1, <2>2 DEF TypeOK, rows
<1>3. PortsNotShared' /\ Ids'
  BY <1>1 DEF PortsNotShared, Ids, Entered, TypeOK, rows
<1>4. PortsKnown' /\ PortsHeld'
  <2>1. \A t \in Sessions : todo'[t] \subseteq todo[t]
    <3>1. CASE todo' = todo
      BY <3>1
    <3>2. CASE \E ds \in SUBSET todo[s] : todo' = [todo EXCEPT ![s] = ds]
      BY <3>2 DEF TypeOK
    <3> QED  BY <1>1, <3>1, <3>2
  <2> QED  BY <1>1, <2>1, PortsRest
<1>5. Shown'
  BY <1>1 DEF Shown, Before, Entered, TypeOK
<1>6. OnlineIsOwed'
  <2>1. \A t \in Sessions : Tearing(t)' <=> Tearing(t)
    BY <1>1 DEF Tearing, TypeOK
  <2> QED  BY <1>1, <2>1 DEF OnlineIsOwed, rows
<1> QED  BY <1>2, <1>3, <1>4, <1>5, <1>6

(* A session is closed and torn down: by a newer one, or by its own handler.      *)
LEMMA CloseStep ==
    ASSUME IInv, NEW s \in Sessions, Evict(s) \/ Leave(s)
    PROVE  IInv'
<1> USE DEF IInv
<1>1. PICK t \in Sessions \ closed :
        /\ closed' = closed \cup {t} /\ entry' = IF entry = t THEN None ELSE entry
        /\ victim' = [victim EXCEPT ![s] = t]
        /\ \/ pc[s] = "new" /\ t = entry /\ pc' = [pc EXCEPT ![s] = "evicting"]
           \/ pc[s] = "serve" /\ t = s /\ pc' = [pc EXCEPT ![s] = "ending"]
  <2>1. CASE Evict(s)
    <3>1. entry \in Sessions \ closed
      BY <2>1 DEF Evict, TypeOK
    <3> QED  BY <2>1, <3>1 DEF Evict, LeaveTable
  <2>2. CASE Leave(s)
    BY <2>2 DEF Leave, LeaveTable
  <2> QED  BY <2>1, <2>2
<1>2. UNCHANGED <<dev, port, todo, wanted, id, listening, rows, deleting, broken>>
  BY DEF Evict, Leave
<1>3. None \notin Sessions
  BY HubAssumption DEF None
<1>4. TypeOK'
  <2>1. pc' \in [Sessions -> Before \cup {"apply", "starting", "serve", "ending", "ended"}]
    BY <1>1, ZenonT(30) DEF TypeOK, Before
  <2>2. victim' \in [Sessions -> Sessions]
    BY <1>1 DEF TypeOK
  <2> QED  BY <1>1, <1>2, <2>1, <2>2 DEF TypeOK, rows
<1>5. PortsNotShared' /\ Ids'
  BY <1>1, <1>2 DEF PortsNotShared, Ids, Entered, TypeOK, rows
<1>6. PortsKnown' /\ PortsHeld'
  BY <1>2, PortsRest
<1>7. pc[t] \notin Before
  BY <1>1, <1>3 DEF Shown, Before, Entered, TypeOK
<1>8. Shown'
  <2>1. \A u \in Sessions : pc'[u] \in Before => u \notin closed'
    <3> SUFFICES ASSUME NEW u \in Sessions, pc'[u] \in Before PROVE u \notin closed'
      OBVIOUS
    <3>1. pc[u] \in Before
      BY <1>1 DEF TypeOK, Before
    <3> QED  BY <3>1, <1>1, <1>7 DEF Shown
  <2>2. entry' # None => pc'[entry'] \in Entered \/ entry' \in broken
    <3> SUFFICES ASSUME entry' # None, entry' \notin broken PROVE pc'[entry'] \in Entered
      OBVIOUS
    <3>1. entry' = entry /\ entry # t /\ pc[entry] \in Entered
      BY <1>1 DEF Shown
    <3>2. entry # s
      BY <1>1, <3>1 DEF Entered
    <3> QED  BY <1>1, <3>1, <3>2 DEF TypeOK
  <2>3. entry' \in closed' => entry' \in broken
    <3>1. None \notin closed'
      BY <1>1, <1>3 DEF TypeOK
    <3> QED  BY <1>1, <3>1 DEF Shown
  <2> QED  BY <1>2, <2>1, <2>2, <2>3 DEF Shown
<1>9. OnlineIsOwed'
  <2>1. Tearing(s)' /\ victim'[s] = t
    BY <1>1 DEF Tearing, TypeOK
  <2>2. \A u \in Sessions : Tearing(u) => Tearing(u)' /\ victim'[u] = victim[u]
    BY <1>1 DEF Tearing, TypeOK
  <2> SUFFICES ASSUME agent.online
               PROVE  \/ entry' # None /\ id[entry'] = agent.id
                      \/ \E u \in Sessions : Tearing(u)' /\ id[victim'[u]] = agent.id
                      \/ \E u \in broken : id[u] = agent.id
    BY <1>2 DEF OnlineIsOwed, rows
  <2>3. CASE entry # None /\ id[entry] = agent.id
    <3>1. CASE entry = t
      BY <2>1, <2>3, <3>1
    <3>2. CASE entry # t
      BY <1>1, <2>3, <3>2
    <3> QED  BY <3>1, <3>2
  <2>4. CASE \E u \in Sessions : Tearing(u) /\ id[victim[u]] = agent.id
    BY <2>2, <2>4
  <2> QED  BY <2>3, <2>4 DEF OnlineIsOwed
<1> QED  BY <1>4, <1>5, <1>6, <1>8, <1>9

(* A handler ends whose session was torn down by another.                        *)
LEMMA LeaveClosedStep ==
    ASSUME IInv, NEW s \in Sessions, LeaveClosed(s)
    PROVE  IInv'
<1> USE DEF IInv
<1>1. /\ pc[s] = "serve" /\ s \in closed /\ pc' = [pc EXCEPT ![s] = "ended"]
      /\ UNCHANGED <<entry, closed, victim, dev, port, todo, wanted, id, listening, rows,
                     deleting, broken>>
  BY DEF LeaveClosed
<1>2. TypeOK' /\ PortsNotShared'
  BY <1>1 DEF TypeOK, PortsNotShared, rows
<1>3. Ids' /\ Shown'
  BY <1>1 DEF Ids, Shown, Entered, Before, TypeOK, rows
<1>4. PortsKnown' /\ PortsHeld'
  BY <1>1, PortsRest
<1>5. OnlineIsOwed'
  <2>1. \A t \in Sessions : Tearing(t)' <=> Tearing(t)
    BY <1>1 DEF Tearing, TypeOK
  <2> QED  BY <1>1, <2>1 DEF OnlineIsOwed, rows
<1> QED  BY <1>2, <1>3, <1>4, <1>5

(* The teardown ends: the agent is offline, if it is still the same agent.        *)
LEMMA TornStep ==
    ASSUME IInv, NEW s \in Sessions, Torn(s)
    PROVE  IInv'
<1> USE DEF IInv
<1>1. /\ Tearing(s) /\ agent' = [agent EXCEPT !.online = @ /\ id[victim[s]] # agent.id]
      /\ pc' = [pc EXCEPT ![s] = IF @ = "evicting" THEN "cleared" ELSE "ended"]
      /\ UNCHANGED <<entry, closed, victim, dev, port, todo, wanted, id, listening, mappings,
                     lastId, deleting, broken>>
  BY DEF Torn, OfflineRow, Tearing
<1>2. /\ agent' \in [id : 0 .. MaxAgents, online : BOOLEAN] /\ agent'.id = agent.id
      /\ agent'.online => agent.online /\ id[victim[s]] # agent.id
  <2>1. agent \in [id : 0 .. MaxAgents, online : BOOLEAN]
    BY DEF TypeOK
  <2>2. (agent.online /\ id[victim[s]] # agent.id) \in BOOLEAN
    OBVIOUS
  <2> QED  BY <1>1, <2>1, <2>2
<1>3. pc' \in [Sessions -> Before \cup {"apply", "starting", "serve", "ending", "ended"}]
  BY <1>1 DEF TypeOK, Before
<1>4. TypeOK' /\ PortsNotShared'
  BY <1>1, <1>2, <1>3 DEF TypeOK, PortsNotShared
<1>5. Ids'
  BY <1>1, <1>2 DEF Ids, Entered, Tearing, TypeOK
<1>6. PortsKnown' /\ PortsHeld'
  BY <1>1, PortsRest
<1>7. Shown'
  BY <1>1 DEF Shown, Tearing, Before, Entered, TypeOK
<1>8. OnlineIsOwed'
  <2> SUFFICES ASSUME agent'.online
               PROVE  \/ entry # None /\ id[entry] = agent.id
                      \/ \E u \in Sessions : Tearing(u)' /\ id[victim[u]] = agent.id
                      \/ \E u \in broken : id[u] = agent.id
    BY <1>1, <1>2 DEF OnlineIsOwed
  <2>1. \A u \in Sessions \ {s} : Tearing(u) => Tearing(u)'
    BY <1>1 DEF Tearing, TypeOK
  <2> QED  BY <1>2, <2>1 DEF OnlineIsOwed
<1> QED  BY <1>4, <1>5, <1>6, <1>7, <1>8

(* The sender of a session fails.                                              *)
LEMMA SendFailsStep ==
    ASSUME IInv, NEW s \in Sessions, SendFails(s)
    PROVE  IInv'
<1> USE DEF IInv
<1>1. /\ pc[s] \notin Before
      /\ closed' = closed \cup {s} /\ broken' = broken \cup {s}
      /\ UNCHANGED <<entry, pc, victim, dev, port, todo, wanted, id, listening, rows, deleting>>
  BY DEF SendFails
<1>2. TypeOK' /\ PortsNotShared' /\ Ids' /\ Shown'
  BY <1>1 DEF TypeOK, PortsNotShared, Ids, Shown, rows
<1>3. PortsKnown' /\ PortsHeld'
  BY <1>1, PortsRest
<1>4. OnlineIsOwed'
  <2>1. \A t \in Sessions : Tearing(t)' <=> Tearing(t)
    BY <1>1 DEF Tearing
  <2> QED  BY <1>1, <2>1 DEF OnlineIsOwed, rows
<1> QED  BY <1>2, <1>3, <1>4

(* The agent is deleted.                                                       *)
LEMMA DeleteStep ==
    ASSUME IInv, DeleteCheck \/ DeleteCommit
    PROVE  IInv'
<1> USE DEF IInv
<1>1. UNCHANGED <<hub, lastId>>
  BY DEF DeleteCheck, DeleteCommit, rows
<1>2. agent' = agent \/ agent' = NoAgent
  BY DEF DeleteCheck, DeleteCommit, rows
<1>3. mappings' \subseteq mappings
  BY DEF DeleteCheck, DeleteCommit, rows
<1>4. deleting' \in [id : 0 .. MaxAgents, maps : SUBSET Mappings]
  <2>1. agent \in [id : 0 .. MaxAgents, online : BOOLEAN] /\ mappings \subseteq Mappings
    BY DEF TypeOK
  <2> QED  BY <2>1, HubAssumption DEF DeleteCheck, DeleteCommit, NoDelete
<1>5. TypeOK'
  <2>1. agent' \in [id : 0 .. MaxAgents, online : BOOLEAN]
    <3>1. NoAgent \in [id : 0 .. MaxAgents, online : BOOLEAN]
      BY HubAssumption DEF NoAgent
    <3> QED  BY <1>2, <3>1 DEF TypeOK
  <2> QED  BY <1>1, <1>3, <1>4, <2>1 DEF TypeOK, hub
<1>6. PortsNotShared'
  BY <1>3 DEF PortsNotShared
<1>7. Ids'
  BY <1>1, <1>2 DEF Ids, NoAgent, hub
<1>8. PortsKnown' /\ PortsHeld'
  BY <1>1, PortsRest DEF hub
<1>9. Shown'
  BY <1>1 DEF Shown, hub
<1>10. OnlineIsOwed'
  <2>1. \A t \in Sessions : Tearing(t)' <=> Tearing(t)
    BY <1>1 DEF Tearing, hub
  <2> QED  BY <1>1, <1>2, <2>1 DEF OnlineIsOwed, NoAgent, hub
<1> QED  BY <1>5, <1>6, <1>7, <1>8, <1>9, <1>10

-----------------------------------------------------------------------------
(* The theorems.                                                            *)

LEMMA InitIInv == Init => IInv
<1> SUFFICES ASSUME Init PROVE IInv
  OBVIOUS
<1>1. TypeOK
  <2>1. NoAgent \in [id : 0 .. MaxAgents, online : BOOLEAN]
    BY HubAssumption DEF NoAgent
  <2>2. NoDelete \in [id : 0 .. MaxAgents, maps : SUBSET Mappings]
    BY HubAssumption DEF NoDelete
  <2> QED  BY <2>1, <2>2, HubAssumption DEF Init, TypeOK, Before
<1>2. PortsNotShared /\ Ids
  BY DEF Init, PortsNotShared, Ids, Entered, NoAgent
<1>3. PortsKnown /\ PortsHeld
  BY DEF Init, PortsKnown, PortsHeld, Active
<1>4. OnlineIsOwed /\ Shown
  BY HubAssumption DEF Init, OnlineIsOwed, Shown, NoAgent, None
<1> QED  BY <1>1, <1>2, <1>3, <1>4 DEF IInv

LEMMA StepIInv == IInv /\ [Next]_vars => IInv'
<1> SUFFICES ASSUME IInv, [Next]_vars PROVE IInv'
  OBVIOUS
<1>1. ASSUME NEW s \in Sessions, Handler(s) PROVE IInv'
  <2>1. CASE Applied(s) \/ \E d \in Devices : KeepDevice(s, d)
    BY <2>1, AppliedStep
  <2>2. CASE ListenerReady(s)
    BY <2>2, ListenerReadyStep
  <2>3. CASE LeaveClosed(s)
    BY <2>3, LeaveClosedStep
  <2>4. CASE Torn(s)
    BY <2>4, TornStep
  <2>5. CASE \E d \in Devices : RemoveDevice(s, d) \/ CloseDevice(s, d)
    BY <2>5, RemoveStep
  <2>6. CASE \E d \in Devices : StartListener(s, d)
    BY <2>6, StartListenerStep
  <2>7. CASE \E ds \in Lists : EnterAfterEviction(s, ds)
    BY <2>7, EnterStep DEF EnterAfterEviction
  <2> QED  BY <1>1, <2>1, <2>2, <2>3, <2>4, <2>5, <2>6, <2>7 DEF Handler
<1>2. ASSUME NEW s \in Sessions, Evict(s) \/ Leave(s) PROVE IInv'
  BY <1>2, CloseStep
<1>3. ASSUME NEW s \in Sessions, SendFails(s) PROVE IInv'
  BY <1>3, SendFailsStep
<1>4. ASSUME NEW s \in Sessions, NEW ds \in Lists, Register(s, ds) PROVE IInv'
  BY <1>4, EnterStep DEF Register
<1>5. ASSUME NEW s \in Sessions, NEW ds \in Lists, Report(s, ds) PROVE IInv'
  BY <1>5, ReportStep
<1>6. CASE DeleteCheck \/ DeleteCommit
  BY <1>6, DeleteStep
<1>7. CASE UNCHANGED vars
  <2>1. UNCHANGED <<entry, pc, closed, victim, dev, port, todo, wanted, id, listening, broken,
                    agent, mappings, lastId, deleting>>
    BY <1>7 DEF vars, hub, rows
  <2>2. TypeOK' /\ PortsNotShared' /\ Ids' /\ Shown'
    BY <2>1 DEF IInv, TypeOK, PortsNotShared, Ids, Shown
  <2>3. PortsKnown' /\ PortsHeld'
    BY <2>1, PortsRest DEF IInv
  <2>4. OnlineIsOwed'
    <3>1. \A t \in Sessions : Tearing(t)' <=> Tearing(t)
      BY <2>1 DEF Tearing
    <3> QED  BY <2>1, <3>1 DEF IInv, OnlineIsOwed
  <2> QED  BY <2>2, <2>3, <2>4 DEF IInv
<1> QED  BY <1>1, <1>2, <1>3, <1>4, <1>5, <1>6, <1>7 DEF Next

(* IInv holds in every reachable state.                                       *)
THEOREM Invariance == Spec => []IInv
<1> QED  BY InitIInv, StepIInv, PTL DEF Spec

(* A tunnel port names one device of one agent, for every number of sessions,   *)
(* phones and ports, also when rows are deleted while a session is being         *)
(* registered (_allocate_ports, delete_agent).                                  *)
THEOREM PortsCorrectness == Spec => []PortsNotShared
<1>1. IInv => PortsNotShared
  BY DEF IInv
<1> QED  BY <1>1, Invariance, PTL

(* The hub's table tells the truth, for every number of sessions that replace    *)
(* each other: the ports that the keeper is told to connect are listened to by   *)
(* the session shown, and unless a sender broke, that session is live and the     *)
(* agent offline when the last one has ended.                                   *)
THEOREM TableCorrectness == Spec => []TableIsTrue
<1>1. IInv => TableIsTrue
  <2> SUFFICES ASSUME IInv PROVE TableIsTrue
    OBVIOUS
  <2>1. PortsListenedTo
    <3> SUFFICES ASSUME NEW p \in DesiredPorts PROVE listening[p] = entry
      BY DEF PortsListenedTo
    <3>1. PICK d \in Devices : entry # None /\ dev[entry][d] = "up" /\ p = port[entry][d]
      BY DEF DesiredPorts
    <3>2. entry \in Sessions /\ Active(entry, d)
      BY <3>1 DEF Active, IInv, TypeOK
    <3> QED  BY <3>1, <3>2 DEF IInv, PortsHeld
  <2>2. ASSUME \A s \in Sessions : pc[s] \in {"new", "ended"}
        PROVE  /\ entry \in broken \cup {None}
               /\ agent.online => \E s \in broken : id[s] = agent.id
    <3>1. entry \in broken \cup {None}
      BY <2>2 DEF IInv, TypeOK, Shown, Entered
    <3>2. \A s \in Sessions : ~Tearing(s)
      BY <2>2 DEF Tearing
    <3> QED  BY <3>1, <3>2 DEF IInv, OnlineIsOwed
  <2> QED  BY <2>1, <2>2 DEF TableIsTrue, IInv, Shown
<1> QED  BY <1>1, Invariance, PTL



-----------------------------------------------------------------------------
(* The sender's module counts as this one does.                               *)
LEMMA SameCardinality == \A S : Send!Cardinality(S) = Cardinality(S)
BY DEF Send!Cardinality, Cardinality

(* The elements of a finite set of numbers can be counted off.               *)
LEMMA Ranks ==
    ASSUME NEW n \in Nat, NEW K \in SUBSET (1 .. n)
    PROVE  /\ IsFiniteSet(K)
           /\ \A k \in 1 .. Cardinality(K) : \E i \in K :
                 Cardinality({j \in K : j <= i}) = k
           /\ \A i \in K : Cardinality({j \in K : j <= i}) \in 1 .. i
           /\ \A i \in K : Cardinality({j \in K : j <= i}) <= Cardinality(K)
<1> DEFINE below(i) == {j \in K : j <= i}
           rank == [i \in K |-> Cardinality(below(i))]
<1>1. IsFiniteSet(K) /\ Cardinality(K) \in Nat /\ \A i \in K : i \in Nat /\ i >= 1
  <2>1. IsFiniteSet(1 .. n)
    BY FS_Interval
  <2>2. IsFiniteSet(K)
    BY <2>1, FS_Subset
  <2> QED  BY <2>2, FS_CardinalityType
<1>2. ASSUME NEW i \in K
      PROVE  /\ IsFiniteSet(below(i)) /\ Cardinality(below(i)) \in 1 .. i
             /\ Cardinality(below(i)) <= Cardinality(K)
  <2>1. IsFiniteSet(below(i)) /\ Cardinality(below(i)) <= Cardinality(K)
    BY <1>1, FS_Subset
  <2>2. IsFiniteSet(1 .. i) /\ Cardinality(1 .. i) = i
    BY FS_Interval
  <2>3. i \in below(i)
    BY <1>1
  <2>4. \A x \in below(i) : x \in 1 .. i
    BY <1>1
  <2>5. Cardinality(below(i)) <= i
    <3> HIDE DEF below
    <3>1. below(i) \in SUBSET (1 .. i)
      BY <2>4
    <3> QED  BY <2>2, <3>1, FS_Subset
  <2>6. Cardinality(below(i)) \in Nat /\ Cardinality(below(i)) # 0
    BY <2>1, <2>3, FS_CardinalityType, FS_EmptySet
  <2> QED  BY <2>1, <2>5, <2>6
<1>3. rank \in [K -> 1 .. Cardinality(K)]
  BY <1>1, <1>2
<1>4. ASSUME NEW i \in K, NEW j \in K, i < j PROVE rank[i] < rank[j]
  <2>1. \A x \in below(i) : x \in below(j)
    BY <1>1, <1>4
  <2>2. j \in below(j) /\ j \notin below(i)
    BY <1>1, <1>4
  <2>3. Cardinality(below(i)) <= Cardinality(below(j)) /\ Cardinality(below(i)) # Cardinality(below(j))
    <3> HIDE DEF below
    <3>1. below(i) \in SUBSET below(j)
      BY <2>1
    <3> QED  BY <1>2, <2>2, <3>1, FS_Subset
  <2> QED  BY <1>2, <2>3
<1>5. \A i, j \in K : rank[i] = rank[j] => i = j
  <2> SUFFICES ASSUME NEW i \in K, NEW j \in K, rank[i] = rank[j], i # j PROVE FALSE
    OBVIOUS
  <2>1. i < j \/ j < i
    OBVIOUS
  <2>2. rank[i] \in Nat /\ rank[j] \in Nat
    BY <1>3
  <2> QED  BY <1>4, <2>1, <2>2
<1>6. rank \in Injection(K, 1 .. Cardinality(K))
  BY <1>3, <1>5 DEF Injection, IsInjective
<1>7. IsFiniteSet(1 .. Cardinality(K)) /\ Cardinality(1 .. Cardinality(K)) = Cardinality(K)
  BY <1>1, FS_Interval
<1>8. rank \in Surjection(K, 1 .. Cardinality(K))
  BY <1>6, <1>7, FS_Injection
<1>9. \A k \in 1 .. Cardinality(K) : \E i \in K : rank[i] = k
  BY <1>8 DEF Surjection
<1> QED  BY <1>1, <1>2, <1>9

(* What Without keeps is what is not the element, each at its place or earlier, *)
(* and nothing twice that was not twice before.                              *)
LEMMA WithoutFacts ==
    ASSUME NEW S, NEW s \in Seq(S), NEW c,
           \A i, j \in DOMAIN s : s[i] = s[j] => i = j
    PROVE  LET w == Send!Without(s, c)
           IN /\ w \in Seq(S)
              /\ \A k \in DOMAIN w : \E i \in DOMAIN s : i >= k /\ w[k] = s[i] /\ s[i] # c
              /\ \A i \in DOMAIN s : s[i] # c => \E k \in DOMAIN w : w[k] = s[i]
              /\ \A k, l \in DOMAIN w : w[k] = w[l] => k = l
<1> DEFINE kept == {i \in DOMAIN s : s[i] # c}
           rank(i) == Send!Cardinality({j \in kept : j <= i})
           at(k) == CHOOSE i \in kept : rank(i) = k
           m == Send!Cardinality(kept)
           w == [k \in 1 .. m |-> s[at(k)]]
<1>1. DOMAIN s = 1 .. Len(s) /\ Len(s) \in Nat /\ kept \in SUBSET (1 .. Len(s))
  BY LenProperties
<1>2. /\ m \in Nat
      /\ \A k \in 1 .. m : \E i \in kept : rank(i) = k
      /\ \A i \in kept : rank(i) \in 1 .. i /\ rank(i) <= m
  <2>1. \A T : Send!Cardinality(T) = Cardinality(T)
    BY SameCardinality
  <2> HIDE DEF kept
  <2>2. IsFiniteSet(kept)
    BY <1>1, Ranks
  <2>3. m \in Nat
    BY <2>1, <2>2, FS_CardinalityType
  <2>4. \A k \in 1 .. m : \E i \in kept : rank(i) = k
    <3>1. m = Cardinality(kept) /\ \A i : rank(i) = Cardinality({j \in kept : j <= i})
      BY <2>1
    <3>2. \A k \in 1 .. Cardinality(kept) : \E i \in kept : Cardinality({j \in kept : j <= i}) = k
      BY <1>1, Ranks
    <3> HIDE DEF rank, m
    <3> QED  BY <3>1, <3>2
  <2>5. \A i \in kept : rank(i) \in 1 .. i /\ rank(i) <= m
    BY <1>1, <2>1, Ranks
  <2> QED  BY <2>3, <2>4, <2>5
<1>3. ASSUME NEW k \in 1 .. m PROVE at(k) \in kept /\ rank(at(k)) = k /\ at(k) >= k
  <2>1. at(k) \in kept /\ rank(at(k)) = k
    <3> HIDE DEF kept, rank
    <3> QED  BY <1>2
  <2>2. rank(at(k)) \in 1 .. at(k) /\ at(k) \in Nat
    <3> HIDE DEF rank, at
    <3> QED  BY <1>1, <1>2, <2>1
  <2> HIDE DEF kept, rank, at
  <2> QED  BY <2>1, <2>2
<1>4. ASSUME NEW i \in kept PROVE at(rank(i)) = i
  <2>1. rank(i) \in 1 .. m
    <3> HIDE DEF rank, kept
    <3> QED  BY <1>2, <1>1
  <2>2. \A k, l \in kept : rank(k) = rank(l) => k = l
    <3> SUFFICES ASSUME NEW k \in kept, NEW l \in kept, k < l PROVE rank(k) # rank(l)
      BY <1>1
    <3>1. IsFiniteSet({j \in kept : j <= l})
      <4>1. IsFiniteSet(kept)
        <5> HIDE DEF kept
        <5> QED  BY <1>1, Ranks
      <4> HIDE DEF kept
      <4> QED  BY <4>1, FS_Subset
    <3>2. {j \in kept : j <= k} \subseteq {j \in kept : j <= l} /\ l \in {j \in kept : j <= l}
          /\ l \notin {j \in kept : j <= k}
      BY <1>1
    <3> QED  BY <3>1, <3>2, FS_Subset, SameCardinality
  <2>3. at(rank(i)) \in kept /\ rank(at(rank(i))) = rank(i)
    <3> HIDE DEF rank, kept, at, m
    <3> QED  BY <2>1, <1>3
  <2> HIDE DEF rank, kept, at, m
  <2> QED  BY <2>2, <2>3
<1>5. w \in Seq(S)
  <2>1. \A k \in 1 .. m : s[at(k)] \in S
    BY <1>1, <1>3, ElementOfSeq
  <2> HIDE DEF at, m
  <2> QED  BY <1>2, <2>1, IsASeq
<1>6. DOMAIN w = 1 .. m /\ \A k \in 1 .. m : w[k] = s[at(k)]
  OBVIOUS
<1>7. \A k \in 1 .. m : \E i \in DOMAIN s : i >= k /\ w[k] = s[i] /\ s[i] # c
  BY <1>3, <1>6
<1>8. \A i \in DOMAIN s : s[i] # c => \E k \in 1 .. m : w[k] = s[i]
  <2> SUFFICES ASSUME NEW i \in kept PROVE \E k \in 1 .. m : w[k] = s[i]
    OBVIOUS
  <2>1. rank(i) \in 1 .. m
    <3> HIDE DEF rank, kept
    <3> QED  BY <1>2, <1>1
  <2> HIDE DEF kept, rank, at
  <2> QED  BY <1>4, <2>1
<1>9. \A k, l \in 1 .. m : w[k] = w[l] => k = l
  <2> SUFFICES ASSUME NEW k \in 1 .. m, NEW l \in 1 .. m, s[at(k)] = s[at(l)] PROVE k = l
    OBVIOUS
  <2>1. at(k) = at(l)
    <3>1. at(k) \in DOMAIN s /\ at(l) \in DOMAIN s
      BY <1>3
    <3> HIDE DEF at
    <3> QED  BY <3>1
  <2>2. rank(at(k)) = k /\ rank(at(l)) = l
    BY <1>3
  <2> HIDE DEF rank, at
  <2> QED  BY <2>1, <2>2
<1>10. Send!Without(s, c) = w
  BY DEF Send!Without
<1> HIDE DEF w
<1> QED  BY <1>5, <1>6, <1>7, <1>8, <1>9, <1>10

Payloads == Seq(1 .. MaxPayload)

(* A queue has finitely many chunks, and none exactly if it is empty.         *)
LEMMA ChunksFinite ==
    ASSUME NEW q \in Payloads
    PROVE  /\ IsFiniteSet(Send!Chunks(q)) /\ Cardinality(Send!Chunks(q)) \in Nat
           /\ Cardinality(Send!Chunks(q)) = 0 <=> q = <<>>
<1> DEFINE box == (1 .. Len(q)) \X (1 .. MaxPayload)
<1>1. Len(q) \in Nat /\ MaxPayload \in Nat
  BY SenderAssumption, LenProperties DEF Payloads
<1>2. IsFiniteSet(1 .. Len(q)) /\ IsFiniteSet(1 .. MaxPayload)
  BY <1>1, FS_Interval
<1>3. IsFiniteSet(box)
  BY <1>2, FS_Product
<1>4. Send!Chunks(q) \in SUBSET box
  BY DEF Send!Chunks
<1>5. IsFiniteSet(Send!Chunks(q))
  <2> HIDE DEF box
  <2> QED  BY <1>3, <1>4, FS_Subset
<1>6. q = <<>> => Send!Chunks(q) = {}
  <2> SUFFICES ASSUME q = <<>> PROVE \A x \in Send!Chunks(q) : FALSE
    OBVIOUS
  <2>1. Len(q) = 0
    OBVIOUS
  <2> QED  BY <2>1 DEF Send!Chunks
<1>7. q # <<>> => <<1, 1>> \in Send!Chunks(q)
  <2> SUFFICES ASSUME q # <<>> PROVE <<1, 1>> \in Send!Chunks(q)
    OBVIOUS
  <2>1. Len(q) >= 1
    BY <1>1, EmptySeq DEF Payloads
  <2>2. q[1] \in 1 .. MaxPayload
    BY <1>1, <2>1, ElementOfSeq DEF Payloads
  <2> QED  BY <1>1, <2>1, <2>2 DEF Send!Chunks
<1> QED  BY <1>5, <1>6, <1>7, FS_CardinalityType, FS_EmptySet

(* A payload adds its chunks.                                                *)
LEMMA ChunksAppended ==
    ASSUME NEW q \in Payloads, NEW n \in 1 .. MaxPayload
    PROVE  /\ Append(q, n) \in Payloads /\ Append(q, n) # <<>>
           /\ Cardinality(Send!Chunks(Append(q, n))) = Cardinality(Send!Chunks(q)) + n
<1> DEFINE r == Append(q, n)
           new == {Len(q) + 1} \X (1 .. n)
<1>1. /\ r \in Payloads /\ r # <<>> /\ Len(q) \in Nat /\ Len(r) = Len(q) + 1
      /\ \A i \in 1 .. Len(q) : r[i] = q[i]
      /\ r[Len(q) + 1] = n
  BY AppendProperties, LenProperties DEF Payloads
<1>2. MaxPayload \in Nat /\ n \in Nat
  BY SenderAssumption
<1>3. IsFiniteSet(new) /\ Cardinality(new) = n
  <2>1. IsFiniteSet(1 .. n) /\ Cardinality(1 .. n) = n
    BY <1>2, FS_Interval
  <2>2. IsFiniteSet({Len(q) + 1}) /\ Cardinality({Len(q) + 1}) = 1
    BY FS_Singleton
  <2>3. IsFiniteSet(new) /\ Cardinality(new) = 1 * n
    BY <2>1, <2>2, FS_Product
  <2> QED  BY <1>2, <2>3
<1>4. Send!Chunks(r) = Send!Chunks(q) \cup new
  <2>1. \A x : x \in Send!Chunks(r) <=>
                 /\ x \in (1 .. Len(q) + 1) \X (1 .. MaxPayload)
                 /\ x[2] <= IF x[1] = Len(q) + 1 THEN n ELSE q[x[1]]
    <3> HIDE DEF r
    <3> QED  BY <1>1 DEF Send!Chunks
  <2>2. \A x : x \in Send!Chunks(q) <=> x \in (1 .. Len(q)) \X (1 .. MaxPayload) /\ x[2] <= q[x[1]]
    BY DEF Send!Chunks
  <2>3. \A x : x \in new <=> x \in (1 .. Len(q) + 1) \X (1 .. MaxPayload) /\ x[1] = Len(q) + 1 /\ x[2] <= n
    BY <1>1, <1>2
  <2>4. ASSUME NEW x PROVE x \in Send!Chunks(r) <=> x \in Send!Chunks(q) \cup new
    <3> HIDE DEF new, r
    <3> QED  BY <1>1, <2>1, <2>2, <2>3
  <2> HIDE DEF new, r
  <2> QED  BY <2>4
<1>5. Send!Chunks(q) \cap new = {}
  <2>1. \A x \in Send!Chunks(q) : x[1] # Len(q) + 1
    BY <1>1 DEF Send!Chunks
  <2> QED  BY <2>1
<1>6. IsFiniteSet(Send!Chunks(q)) /\ Cardinality(Send!Chunks(q)) \in Nat
  BY ChunksFinite
<1>7. Cardinality(Send!Chunks(q) \cup new) = Cardinality(Send!Chunks(q)) + n - Cardinality({})
  <2> HIDE DEF new
  <2> QED  BY <1>3, <1>5, <1>6, FS_Union
<1> QED  BY <1>1, <1>2, <1>4, <1>6, <1>7, FS_EmptySet

(* What the sender leaves of a queue.                                        *)
Rest(q) == IF Head(q) = 1 THEN Tail(q) ELSE <<Head(q) - 1>> \o Tail(q)

(* Taking a chunk from the payload in front takes one.                        *)
LEMMA ChunkTaken ==
    ASSUME NEW q \in Payloads, q # <<>>
    PROVE  Rest(q) \in Payloads
           /\ Cardinality(Send!Chunks(Rest(q))) = Cardinality(Send!Chunks(q)) - 1
<1> DEFINE r == Rest(q)
           h == q[1]
           old == Send!Chunks(q) \ {<<1, h>>}
<1>1. /\ Len(q) \in Nat /\ Len(q) >= 1 /\ h \in 1 .. MaxPayload /\ Head(q) = h
      /\ Tail(q) \in Payloads /\ Len(Tail(q)) = Len(q) - 1
      /\ \A i \in 1 .. Len(q) - 1 : Tail(q)[i] = q[i + 1]
  <2>1. Len(q) \in Nat /\ Len(q) >= 1
    BY EmptySeq, LenProperties DEF Payloads
  <2>2. h \in 1 .. MaxPayload
    <3>1. 1 \in 1 .. Len(q)
      BY <2>1
    <3> QED  BY <3>1, ElementOfSeq DEF Payloads
  <2> QED  BY <2>1, <2>2, HeadTailProperties DEF Payloads
<1>2. MaxPayload \in Nat
  BY SenderAssumption
<1>3. Cardinality(old) = Cardinality(Send!Chunks(q)) - 1
  <2>1. <<1, h>> \in Send!Chunks(q)
    BY <1>1 DEF Send!Chunks
  <2> QED  BY <2>1, ChunksFinite, FS_RemoveElement
<1>4. CASE h = 1
  <2>1. r = Tail(q)
    BY <1>1, <1>4 DEF Rest
  <2> DEFINE f == [x \in Send!Chunks(Tail(q)) |-> <<x[1] + 1, x[2]>>]
  <2>2. \A x : x \in Send!Chunks(Tail(q)) <=>
                 /\ x \in (1 .. Len(q) - 1) \X (1 .. MaxPayload)
                 /\ x[2] <= q[x[1] + 1]
    BY <1>1 DEF Send!Chunks
  <2>3. \A x : x \in old <=>
                 /\ x \in (2 .. Len(q)) \X (1 .. MaxPayload)
                 /\ x[2] <= q[x[1]]
    BY <1>1, <1>2, <1>4 DEF Send!Chunks
  <2>4. f \in [Send!Chunks(Tail(q)) -> old]
    <3>1. ASSUME NEW x \in Send!Chunks(Tail(q)) PROVE <<x[1] + 1, x[2]>> \in old
      <4> HIDE DEF old
      <4> QED  BY <1>1, <1>2, <2>2, <2>3
    <3> HIDE DEF old
    <3> QED  BY <3>1
  <2>5. ASSUME NEW x \in Send!Chunks(Tail(q)), NEW y \in Send!Chunks(Tail(q)), f[x] = f[y]
        PROVE  x = y
    <3>1. x \in Nat \X Nat /\ y \in Nat \X Nat
      BY <1>1, <1>2, <2>2
    <3> QED  BY <2>5, <3>1
  <2>6. ASSUME NEW y \in old PROVE \E x \in Send!Chunks(Tail(q)) : f[x] = y
    <3>1. y \in (2 .. Len(q)) \X (1 .. MaxPayload) /\ y[2] <= q[y[1]]
      BY <2>3
    <3>2. <<y[1] - 1, y[2]>> \in Send!Chunks(Tail(q))
      BY <1>1, <1>2, <2>2, <3>1
    <3>3. f[<<y[1] - 1, y[2]>>] = y
      BY <1>1, <3>1, <3>2
    <3> QED  BY <3>2, <3>3
  <2>7. f \in Bijection(Send!Chunks(Tail(q)), old)
    <3> HIDE DEF f, old
    <3> QED  BY <2>4, <2>5, <2>6 DEF Bijection, Injection, Surjection, IsInjective
  <2>8. IsFiniteSet(Send!Chunks(Tail(q)))
    BY <1>1, ChunksFinite
  <2>9. Cardinality(old) = Cardinality(Send!Chunks(Tail(q)))
    <3> HIDE DEF f, old
    <3> QED  BY <2>7, <2>8, FS_Bijection DEF ExistsBijection
  <2> QED  BY <1>1, <1>3, <2>1, <2>9
<1>5. CASE h # 1
  <2>1. r = <<h - 1>> \o Tail(q)
    BY <1>1, <1>5 DEF Rest
  <2>2. <<h - 1>> \in Payloads /\ Len(<<h - 1>>) = 1
    BY <1>1, <1>2, <1>5 DEF Payloads
  <2>3. r \in Payloads /\ Len(r) = Len(q)
    BY <1>1, <2>1, <2>2, ConcatProperties DEF Payloads
  <2>4. \A i \in 1 .. Len(q) : r[i] = IF i = 1 THEN h - 1 ELSE q[i]
    BY <1>1, <2>1, <2>2, ConcatProperties DEF Payloads
  <2>5. \A x : x \in Send!Chunks(r) <=>
                 /\ x \in (1 .. Len(q)) \X (1 .. MaxPayload)
                 /\ x[2] <= IF x[1] = 1 THEN h - 1 ELSE q[x[1]]
    <3> HIDE DEF r
    <3> QED  BY <2>3, <2>4 DEF Send!Chunks
  <2>6. \A x : x \in old <=> x \in (1 .. Len(q)) \X (1 .. MaxPayload) /\ x[2] <= q[x[1]] /\ x # <<1, h>>
    BY DEF Send!Chunks
  <2>7. ASSUME NEW x PROVE x \in Send!Chunks(r) <=> x \in old
    <3>1. CASE x \notin (1 .. Len(q)) \X (1 .. MaxPayload)
      <4> HIDE DEF r, old
      <4> QED  BY <2>5, <2>6, <3>1
    <3>2. CASE x \in (1 .. Len(q)) \X (1 .. MaxPayload)
      <4>1. x = <<1, h>> <=> x[1] = 1 /\ x[2] = h
        BY <3>2
      <4>2. x[1] \in Nat /\ x[2] \in Nat /\ h \in Nat
        BY <1>1, <1>2, <3>2
      <4> HIDE DEF r, old
      <4> QED  BY <2>5, <2>6, <3>2, <4>1, <4>2
    <3> QED  BY <3>1, <3>2
  <2>8. Send!Chunks(r) = old
    <3> HIDE DEF r, old
    <3> QED  BY <2>7
  <2> QED  BY <1>3, <2>3, <2>8
<1> QED  BY <1>4, <1>5

(* No more turns than connections, as nobody has two.                        *)
LEMMA TurnsBounded ==
    ASSUME NEW t \in Seq(Conns), \A i, j \in DOMAIN t : t[i] = t[j] => i = j
    PROVE  Len(t) \in Nat /\ Len(t) <= Cardinality(Conns)
<1>1. Len(t) \in Nat /\ DOMAIN t = 1 .. Len(t) /\ t \in [1 .. Len(t) -> Conns]
  BY LenProperties
<1>2. t \in Injection(1 .. Len(t), Conns)
  BY <1>1 DEF Injection, IsInjective
<1>3. Cardinality(1 .. Len(t)) <= Cardinality(Conns)
  BY <1>2, SenderAssumption, FS_Injection
<1>4. Cardinality(1 .. Len(t)) = Len(t)
  BY <1>1, FS_Interval
<1> QED  BY <1>1, <1>3, <1>4

-----------------------------------------------------------------------------
(* The sender of a session.                                                  *)

\* How many may wait for a turn.
N == Cardinality(Conns)

(* Who has data has one turn.                                                *)
OneTurn ==
    /\ \A i, j \in DOMAIN turns : turns[i] = turns[j] => i = j
    /\ \A c \in Conns : queue[c] # <<>> <=> \E i \in DOMAIN turns : turns[i] = c

Counted == \A c \in Conns : pending[c] = Cardinality(Send!Chunks(queue[c]))

(* What passed a connection and what is still before it are at most the others. *)
PassedFew ==
    /\ passed \in [Conns -> Nat]
    /\ \A c \in Conns : passed[c] <= N - 1
    /\ \A i \in DOMAIN turns : passed[turns[i]] + i <= N

(* Whoever has something to send, or waits for room, has started the sender.   *)
SenderStarts ==
    /\ \A c \in Conns : reader[c] = "blocked" => payload[c] \in 1 .. MaxPayload
    /\ ~shut => /\ turns # <<>> => sender # Send!NoSender
                /\ \A c \in Conns : reader[c] = "blocked" => sender # Send!NoSender

QueueInv == OneTurn /\ Counted /\ PassedFew
SleepInv == SenderStarts /\ SleepersAreOwed
SenderInv == Send!TypeOK /\ QueueInv /\ SleepInv

LEMMA QueuesRest ==
    ASSUME QueueInv, UNCHANGED <<queue, pending, turns, passed>>
    PROVE  QueueInv'
BY DEF QueueInv, OneTurn, Counted, PassedFew, N

LEMMA ConnsCounted ==
    /\ N \in Nat /\ (Conns # {} => N >= 1) /\ Send!Cardinality(Conns) = N
    /\ MaxPending \in Nat /\ MaxPayload \in Nat /\ MaxPayload <= MaxPending
<1>1. IsFiniteSet(Conns) /\ N \in Nat /\ (N = 0 <=> Conns = {})
  BY SenderAssumption, FS_CardinalityType, FS_EmptySet DEF N
<1>2. MaxPending \in Nat /\ MaxPayload \in Nat /\ MaxPayload <= MaxPending
  BY SenderAssumption
<1> QED  BY <1>1, <1>2, SameCardinality DEF N

(* A connection without room has data, and a turn.                           *)
LEMMA NoRoomHasTurn ==
    ASSUME SenderInv, NEW c \in Conns, NEW n \in 1 .. MaxPayload, Send!NoRoom(c, n)
    PROVE  turns # <<>>
<1>1. pending[c] \in Nat /\ pending[c] # 0
  BY ConnsCounted DEF SenderInv, Send!TypeOK, Send!NoRoom
<1>2. queue[c] \in Payloads
  BY DEF SenderInv, Send!TypeOK, Payloads
<1>3. queue[c] # <<>>
  BY <1>1, <1>2, ChunksFinite DEF SenderInv, QueueInv, Counted
<1>4. PICK i \in DOMAIN turns : turns[i] = c
  BY <1>3 DEF SenderInv, QueueInv, OneTurn
<1>5. turns \in Seq(Conns)
  BY DEF SenderInv, Send!TypeOK
<1> QED  BY <1>4, <1>5, EmptySeq, LenProperties

LEMMA SendControlStep ==
    ASSUME SenderInv, NEW w \in Controls, Send!SendControl(w)
    PROVE  SenderInv'
<1>1. Send!TypeOK'
  <2>1. Append(control, w) \in Seq(Controls)
    BY AppendProperties DEF SenderInv, Send!TypeOK
  <2>2. sender' \in {sender, Send!Ready}
    BY DEF Send!SendControl, Send!SenderStarted
  <2> QED  BY <2>1, <2>2 DEF SenderInv, Send!TypeOK, Send!SendControl, Send!NotifyAll, Send!Ready
<1>2. QueueInv'
  BY QueuesRest DEF SenderInv, Send!SendControl
<1>3. SleepInv'
  <2>1. CASE shut
    BY <2>1 DEF SenderInv, SleepInv, SenderStarts, SleepersAreOwed, Send!SleepersAreOwed,
                Send!NoRoom, Send!SendControl
  <2>2. CASE ~shut
    <3>1. sender' # Send!NoSender
      BY <2>2 DEF Send!SendControl, Send!SenderStarted, Send!NoSender, Send!Ready
    <3> QED  BY <2>2, <3>1 DEF SenderInv, SleepInv, SenderStarts, SleepersAreOwed,
                Send!SleepersAreOwed, Send!SendControl, Send!NotifyAll
  <2> QED  BY <2>1, <2>2
<1> QED  BY <1>1, <1>2, <1>3 DEF SenderInv

(* What SendData and Retry share: c is awake and has a sender.               *)
LEMMA TrySendStep ==
    ASSUME SenderInv, NEW c \in Conns, NEW n \in 1 .. MaxPayload, c \notin asleep,
           Send!TrySend(c, n), UNCHANGED <<shut, control, caller, gone, teardown>>,
           sender' = sender \/ (sender = Send!NoSender /\ sender' = Send!Ready),
           ~shut => sender' # Send!NoSender
    PROVE  SenderInv'
<1> USE DEF SenderInv
<1>0. queue[c] \in Payloads /\ turns \in Seq(Conns) /\ "sender" \notin Conns /\ c # "sender"
  BY SenderAssumption DEF Send!TypeOK, Payloads
<1>1. CASE UNCHANGED <<queue, pending, turns, passed>>
  <2>1. Send!TypeOK'
    <3>1. sender' \in {Send!NoSender, Send!Ready, [pc |-> "data"]}
                       \cup [pc : {"control"}, caller : Controls]
      BY DEF Send!TypeOK
    <3>2. reader' \in [Conns -> {"running", "blocked", "ended"}]
          /\ payload' \in [Conns -> 0 .. MaxPayload] /\ asleep' \subseteq Conns \cup {"sender"}
      <4>1. /\ \E x \in {"running", "blocked", "ended"} : reader' = [reader EXCEPT ![c] = x]
            /\ \E x \in 0 .. MaxPayload : payload' = [payload EXCEPT ![c] = x]
            /\ asleep' \in {asleep, asleep \cup {c}, {}}
        BY ConnsCounted DEF Send!TrySend, Send!NotifyAll
      <4> QED  BY <4>1 DEF Send!TypeOK
    <3> QED  BY <1>1, <3>1, <3>2 DEF Send!TypeOK
  <2>2. QueueInv'
    BY <1>1, QueuesRest
  <2> USE <2>1, <2>2
  <2>3. CASE ~shut /\ c \notin gone /\ Send!NoRoom(c, n)
    <3>1. reader' = [reader EXCEPT ![c] = "blocked"] /\ payload' = [payload EXCEPT ![c] = n]
          /\ asleep' = asleep \cup {c}
      BY <2>3 DEF Send!TrySend
    <3>2. turns # <<>>
      BY <2>3, NoRoomHasTurn
    <3>3. "sender" \notin asleep
      BY <3>2 DEF SleepInv, SleepersAreOwed, Send!SleepersAreOwed
    <3> QED  BY <1>0, <1>1, <2>3, <3>1, <3>3 DEF Send!TypeOK, SleepInv, SenderStarts,
                SleepersAreOwed, Send!SleepersAreOwed, Send!NoRoom
  <2>4. CASE shut \/ c \in gone
    <3>1. reader' = [reader EXCEPT ![c] = "ended"] /\ payload' = [payload EXCEPT ![c] = 0]
          /\ asleep' = asleep
      BY <2>4 DEF Send!TrySend
    <3> QED  BY <1>0, <1>1, <3>1 DEF Send!TypeOK, SleepInv, SenderStarts, SleepersAreOwed,
                Send!SleepersAreOwed, Send!NoRoom, Send!NoSender, Send!Ready
  <2>5. CASE ~shut /\ c \notin gone /\ ~Send!NoRoom(c, n)
    <3>1. reader' = [reader EXCEPT ![c] = "running"] /\ payload' = [payload EXCEPT ![c] = 0]
          /\ asleep' = {}
      BY <2>5 DEF Send!TrySend, Send!NotifyAll
    <3> QED  BY <1>1, <2>5, <3>1 DEF Send!TypeOK, SleepInv, SenderStarts, SleepersAreOwed,
                Send!SleepersAreOwed
  <2> QED  BY <2>1, <2>2, <2>3, <2>4, <2>5
<1>2. CASE ~shut /\ c \notin gone /\ ~Send!NoRoom(c, n)
  <2>1. /\ queue' = [queue EXCEPT ![c] = Append(queue[c], n)]
        /\ pending' = [pending EXCEPT ![c] = pending[c] + n]
        /\ turns' = (IF queue[c] = <<>> THEN Append(turns, c) ELSE turns)
        /\ passed' = [passed EXCEPT ![c] = IF queue[c] = <<>> THEN 0 ELSE passed[c]]
        /\ reader' = [reader EXCEPT ![c] = "running"]
        /\ payload' = [payload EXCEPT ![c] = 0]
        /\ asleep' = {}
    BY <1>2 DEF Send!TrySend, Send!NotifyAll, Send!WithTurn
  <2>2. /\ Append(queue[c], n) \in Payloads /\ Append(queue[c], n) # <<>>
        /\ Cardinality(Send!Chunks(Append(queue[c], n))) = Cardinality(Send!Chunks(queue[c])) + n
    BY <1>0, ChunksAppended
  <2>3. /\ Append(turns, c) \in Seq(Conns) /\ Len(turns) \in Nat
        /\ DOMAIN turns = 1 .. Len(turns) /\ DOMAIN Append(turns, c) = 1 .. Len(turns) + 1
        /\ \A i \in 1 .. Len(turns) : Append(turns, c)[i] = turns[i]
        /\ Append(turns, c)[Len(turns) + 1] = c
    BY <1>0, AppendProperties, LenProperties
  <2>4. pending[c] + n \in 0 .. MaxPending
    BY <1>2, ConnsCounted DEF Send!NoRoom, Send!TypeOK
  <2>5. Send!TypeOK'
    <3>1. sender' \in {Send!NoSender, Send!Ready, [pc |-> "data"]}
                       \cup [pc : {"control"}, caller : Controls]
      BY DEF Send!TypeOK
    <3>2. reader' \in [Conns -> {"running", "blocked", "ended"}]
          /\ payload' \in [Conns -> 0 .. MaxPayload] /\ asleep' \subseteq Conns \cup {"sender"}
      BY <2>1, ConnsCounted DEF Send!TypeOK
    <3>3. queue' \in [Conns -> Payloads]
      BY <2>1, <2>2 DEF Send!TypeOK, Payloads
    <3>4. pending' \in [Conns -> 0 .. MaxPending] /\ turns' \in Seq(Conns)
      BY <2>1, <2>3, <2>4, <1>0 DEF Send!TypeOK
    <3> QED  BY <3>1, <3>2, <3>3, <3>4 DEF Send!TypeOK, Payloads
  <2>6. OneTurn'
    <3>1. CASE queue[c] # <<>>
      BY <2>1, <2>2, <3>1 DEF QueueInv, OneTurn, Send!TypeOK
    <3>2. CASE queue[c] = <<>>
      <4>1. \A i \in DOMAIN turns : turns[i] # c
        BY <3>2 DEF QueueInv, OneTurn
      <4>2. turns' = Append(turns, c)
        BY <2>1, <3>2
      <4>3. \A i, j \in DOMAIN turns' : turns'[i] = turns'[j] => i = j
        BY <2>3, <4>1, <4>2 DEF QueueInv, OneTurn
      <4>4. ASSUME NEW d \in Conns PROVE queue'[d] # <<>> <=> \E i \in DOMAIN turns' : turns'[i] = d
        <5>1. CASE d = c
          <6>1. queue'[d] # <<>>
            BY <2>1, <2>2, <5>1 DEF Send!TypeOK
          <6>2. Len(turns) + 1 \in DOMAIN turns' /\ turns'[Len(turns) + 1] = d
            BY <2>3, <4>2, <5>1
          <6> QED  BY <6>1, <6>2
        <5>2. CASE d # c
          <6>1. queue'[d] = queue[d]
            BY <2>1, <5>2 DEF Send!TypeOK
          <6>2. ASSUME NEW i \in DOMAIN turns, turns[i] = d PROVE i \in DOMAIN turns' /\ turns'[i] = d
            BY <2>3, <4>2, <6>2
          <6>3. ASSUME NEW i \in DOMAIN turns', turns'[i] = d PROVE i \in DOMAIN turns /\ turns[i] = d
            BY <2>3, <4>2, <5>2, <6>3
          <6>4. queue[d] # <<>> <=> \E i \in DOMAIN turns : turns[i] = d
            BY DEF QueueInv, OneTurn
          <6> QED  BY <6>1, <6>2, <6>3, <6>4
        <5> QED  BY <5>1, <5>2
      <4> QED  BY <4>3, <4>4 DEF OneTurn
    <3> QED  BY <3>1, <3>2
  <2>7. Counted'
    BY <2>1, <2>2 DEF QueueInv, Counted, Send!TypeOK
  <2>8. PassedFew'
    <3>1. N' = N /\ N \in Nat /\ N >= 1
      BY ConnsCounted DEF N
    <3>2. passed' \in [Conns -> Nat] /\ \A d \in Conns : passed'[d] <= N - 1
      BY <2>1, <3>1 DEF QueueInv, PassedFew
    <3>3. CASE queue[c] # <<>>
      BY <2>1, <3>1, <3>2, <3>3 DEF QueueInv, PassedFew
    <3>4. CASE queue[c] = <<>>
      <4>1. \A i \in DOMAIN turns : turns[i] # c /\ turns[i] \in Conns
        BY <1>0, <3>4, ElementOfSeq, LenProperties DEF QueueInv, OneTurn
      <4>2. turns' = Append(turns, c) /\ passed' = [passed EXCEPT ![c] = 0]
        BY <2>1, <3>4
      <4>3. Len(turns) + 1 <= N
        <5>1. \A i, j \in DOMAIN Append(turns, c) : Append(turns, c)[i] = Append(turns, c)[j] => i = j
          BY <2>6, <4>2 DEF OneTurn
        <5>2. Len(Append(turns, c)) = Len(turns) + 1
          BY <1>0, AppendProperties
        <5> QED  BY <2>3, <5>1, <5>2, TurnsBounded DEF N
      <4>4. ASSUME NEW i \in 1 .. Len(turns) + 1 PROVE passed'[turns'[i]] + i <= N
        <5>1. CASE i = Len(turns) + 1
          BY <2>3, <4>2, <4>3, <5>1, <3>1 DEF QueueInv, PassedFew
        <5>2. CASE i # Len(turns) + 1
          <6>1. i \in DOMAIN turns /\ turns'[i] = turns[i]
            BY <2>3, <4>2, <5>2
          <6> QED  BY <4>1, <4>2, <6>1 DEF QueueInv, PassedFew
        <5> QED  BY <5>1, <5>2
      <4> QED  BY <2>3, <3>1, <3>2, <4>2, <4>4 DEF PassedFew
    <3> QED  BY <3>3, <3>4
  <2>9. SleepInv'
    BY <1>2, <2>1 DEF Send!TypeOK, SleepInv, SenderStarts, SleepersAreOwed, Send!SleepersAreOwed
  <2> QED  BY <2>5, <2>6, <2>7, <2>8, <2>9 DEF QueueInv
<1> QED  BY <1>1, <1>2 DEF Send!TrySend

LEMMA SendDataStep ==
    ASSUME SenderInv, NEW c \in Conns, NEW n \in 1 .. MaxPayload, Send!SendData(c, n)
    PROVE  SenderInv'
<1>1. c \notin asleep
  BY DEF Send!SendData, SenderInv, SleepInv, SleepersAreOwed, Send!SleepersAreOwed
<1>2. /\ sender' = sender \/ (sender = Send!NoSender /\ sender' = Send!Ready)
      /\ sender' # Send!NoSender
  BY DEF Send!SendData, Send!SenderStarted, Send!NoSender, Send!Ready
<1> QED  BY <1>1, <1>2, TrySendStep DEF Send!SendData

LEMMA RetryStep ==
    ASSUME SenderInv, NEW c \in Conns, Send!Retry(c)
    PROVE  SenderInv'
<1>1. payload[c] \in 1 .. MaxPayload /\ (~shut => sender # Send!NoSender)
  BY DEF Send!Retry, SenderInv, SleepInv, SenderStarts
<1> QED  BY <1>1, TrySendStep DEF Send!Retry

LEMMA DiscardStep ==
    ASSUME SenderInv, NEW c \in Conns, Send!Discard(c)
    PROVE  SenderInv'
<1> USE DEF SenderInv
<1> DEFINE w == Send!Without(turns, c)
<1>1. /\ queue' = [queue EXCEPT ![c] = <<>>] /\ pending' = [pending EXCEPT ![c] = 0]
      /\ turns' = w /\ asleep' = {} /\ gone' = gone \cup {c}
      /\ UNCHANGED <<shut, control, caller, reader, payload, sender, teardown, passed>>
  BY DEF Send!Discard, Send!NotifyAll
<1>2. /\ w \in Seq(Conns)
      /\ \A k \in DOMAIN w : \E i \in DOMAIN turns : i >= k /\ w[k] = turns[i] /\ turns[i] # c
      /\ \A i \in DOMAIN turns : turns[i] # c => \E k \in DOMAIN w : w[k] = turns[i]
      /\ \A k, l \in DOMAIN w : w[k] = w[l] => k = l
  BY WithoutFacts DEF Send!TypeOK, QueueInv, OneTurn
<1> HIDE DEF w
<1>3. <<>> \in Payloads /\ <<>> \in Seq(1 .. MaxPayload)
  BY EmptySeq DEF Payloads
<1>4. Send!TypeOK'
  BY <1>1, <1>2, <1>3, ConnsCounted DEF Send!TypeOK
<1>5. OneTurn'
  <2>1. \A k, l \in DOMAIN turns' : turns'[k] = turns'[l] => k = l
    BY <1>1, <1>2
  <2>2. ASSUME NEW d \in Conns PROVE queue'[d] # <<>> <=> \E k \in DOMAIN w : w[k] = d
    <3>1. queue'[d] = IF d = c THEN <<>> ELSE queue[d]
      BY <1>1 DEF Send!TypeOK
    <3>2. queue[d] # <<>> <=> \E i \in DOMAIN turns : turns[i] = d
      BY DEF QueueInv, OneTurn
    <3>3. CASE d = c
      BY <1>2, <3>1, <3>3
    <3>4. CASE d # c
      BY <1>2, <3>1, <3>2, <3>4
    <3> QED  BY <3>3, <3>4
  <2> QED  BY <1>1, <2>1, <2>2 DEF OneTurn
<1>6. Counted'
  BY <1>1, <1>3, ChunksFinite DEF QueueInv, Counted, Send!TypeOK
<1>7. PassedFew'
  <2>1. ASSUME NEW k \in DOMAIN w PROVE passed[w[k]] + k <= N
    <3>1. PICK i \in DOMAIN turns : i >= k /\ w[k] = turns[i]
      BY <1>2
    <3>2. k \in Nat /\ i \in Nat /\ turns[i] \in Conns
      <4>1. turns \in Seq(Conns) /\ w \in Seq(Conns)
        BY <1>2 DEF Send!TypeOK
      <4>2. DOMAIN turns = 1 .. Len(turns) /\ DOMAIN w = 1 .. Len(w)
        BY <4>1, LenProperties
      <4> QED  BY <4>1, <4>2, ElementOfSeq
    <3>3. passed[turns[i]] + i <= N /\ passed[turns[i]] \in Nat /\ N \in Nat
      BY <3>2, ConnsCounted DEF QueueInv, PassedFew
    <3> QED  BY <3>1, <3>2, <3>3
  <2> QED  BY <1>1, <2>1 DEF QueueInv, PassedFew, N
<1>8. SleepInv'
  <2>1. turns' # <<>> => turns # <<>>
    <3> SUFFICES ASSUME turns' # <<>> PROVE turns # <<>>
      OBVIOUS
    <3>1. 1 \in DOMAIN w
      BY <1>1, <1>2, EmptySeq, LenProperties
    <3>2. PICK i \in DOMAIN turns : w[1] = turns[i]
      BY <1>2, <3>1
    <3> QED  BY <3>2, EmptySeq, LenProperties DEF Send!TypeOK
  <2> QED  BY <1>1, <2>1 DEF SleepInv, SenderStarts, SleepersAreOwed, Send!SleepersAreOwed
<1> QED  BY <1>4, <1>5, <1>6, <1>7, <1>8 DEF QueueInv

(* What the connections that wait have let pass grows by one, and the one that  *)
(* was first moves behind them.                                              *)
LEMMA TakeChunkStep ==
    ASSUME SenderInv, Send!TakeChunk
    PROVE  SenderInv'
<1> USE DEF SenderInv
<1> DEFINE c == turns[1]
           rest == Rest(queue[c])
           t == Tail(turns)
<1>1. /\ turns \in Seq(Conns) /\ Len(turns) \in Nat /\ Len(turns) >= 1
      /\ DOMAIN turns = 1 .. Len(turns) /\ Head(turns) = c
      /\ t \in Seq(Conns) /\ Len(t) = Len(turns) - 1 /\ DOMAIN t = 1 .. Len(turns) - 1
      /\ \A k \in 1 .. Len(turns) - 1 : t[k] = turns[k + 1]
      /\ \A k \in 1 .. Len(turns) : turns[k] \in Conns
  <2>1. turns \in Seq(Conns) /\ turns # <<>>
    BY DEF Send!TypeOK, Send!TakeChunk
  <2>2. Len(turns) \in Nat /\ Len(turns) >= 1 /\ DOMAIN turns = 1 .. Len(turns)
    BY <2>1, EmptySeq, LenProperties
  <2>3. \A k \in 1 .. Len(turns) : turns[k] \in Conns
    BY <2>1, <2>2, ElementOfSeq
  <2>4. t \in Seq(Conns) /\ Len(t) = Len(turns) - 1
        /\ \A k \in 1 .. Len(t) : t[k] = turns[k + 1]
    BY <2>1, HeadTailProperties
  <2>5. DOMAIN t = 1 .. Len(t)
    BY <2>4, LenProperties
  <2> QED  BY <2>1, <2>2, <2>3, <2>4, <2>5
<1>2. c \in Conns /\ queue[c] \in Payloads /\ queue[c] # <<>>
  <2>1. c \in Conns /\ 1 \in DOMAIN turns
    BY <1>1
  <2>2. queue[c] \in Payloads
    BY <2>1 DEF Send!TypeOK, Payloads
  <2> HIDE DEF c
  <2>3. turns[1] = c
    BY DEF c
  <2> QED  BY <2>1, <2>2, <2>3 DEF QueueInv, OneTurn
<1>3. /\ queue' = [queue EXCEPT ![c] = rest]
      /\ pending' = [pending EXCEPT ![c] = pending[c] - 1]
      /\ turns' = IF rest = <<>> THEN t ELSE Append(t, c)
      /\ passed' = [d \in Conns |-> IF d = c \/ d \notin Send!ToSet(turns) THEN 0
                                    ELSE IF passed[d] <= Send!Cardinality(Conns)
                                         THEN passed[d] + 1 ELSE passed[d]]
      /\ sender' = [pc |-> "data"] /\ asleep' = {}
      /\ UNCHANGED <<shut, control, caller, gone, reader, payload, teardown>>
  BY <1>1 DEF Send!TakeChunk, Send!RoomMade, Send!NotifyAll, Send!NextTurns, Rest
<1>4. /\ rest \in Payloads
      /\ Cardinality(Send!Chunks(rest)) = Cardinality(Send!Chunks(queue[c])) - 1
  BY <1>2, ChunkTaken
<1>5. /\ Append(t, c) \in Seq(Conns) /\ DOMAIN Append(t, c) = 1 .. Len(turns)
      /\ \A k \in 1 .. Len(turns) - 1 : Append(t, c)[k] = turns[k + 1]
      /\ Append(t, c)[Len(turns)] = c
  <2>1. /\ Append(t, c) \in Seq(Conns) /\ Len(Append(t, c)) = Len(t) + 1
        /\ \A k \in 1 .. Len(t) : Append(t, c)[k] = t[k]
        /\ Append(t, c)[Len(t) + 1] = c
    BY <1>1, <1>2, AppendProperties
  <2>2. DOMAIN Append(t, c) = 1 .. Len(Append(t, c))
    BY <2>1, LenProperties
  <2>3. Len(t) + 1 = Len(turns) /\ Len(t) = Len(turns) - 1
    BY <1>1
  <2>4. DOMAIN Append(t, c) = 1 .. Len(turns) /\ Append(t, c)[Len(turns)] = c
    <3> HIDE DEF t, c
    <3> QED  BY <2>1, <2>2, <2>3
  <2>5. ASSUME NEW k \in 1 .. Len(turns) - 1 PROVE Append(t, c)[k] = turns[k + 1]
    <3>1. Append(t, c)[k] = t[k] /\ t[k] = turns[k + 1]
      BY <1>1, <2>1, <2>3
    <3> QED  BY <3>1
  <2> HIDE DEF t, c
  <2> QED  BY <2>1, <2>4, <2>5
<1> HIDE DEF rest, t
<1>6. pending[c] - 1 \in 0 .. MaxPending
  <2>1. Cardinality(Send!Chunks(queue[c])) \in Nat /\ Cardinality(Send!Chunks(queue[c])) # 0
    BY <1>2, ChunksFinite
  <2>2. pending[c] = Cardinality(Send!Chunks(queue[c])) /\ pending[c] \in 0 .. MaxPending
    BY <1>2 DEF QueueInv, Counted, Send!TypeOK
  <2> QED  BY <2>1, <2>2, ConnsCounted
<1> HIDE DEF c
<1>7. Send!TypeOK'
  <2>1. queue' \in [Conns -> Payloads]
    BY <1>3, <1>4 DEF Send!TypeOK, Payloads
  <2>2. pending' \in [Conns -> 0 .. MaxPending] /\ turns' \in Seq(Conns)
    BY <1>1, <1>3, <1>5, <1>6 DEF Send!TypeOK
  <2> QED  BY <1>3, <2>1, <2>2 DEF Send!TypeOK, Payloads
\* The turns afterwards: those of before but the first, and c again if it has more.
<1>8. /\ \A k \in DOMAIN turns' : \/ /\ k + 1 \in DOMAIN turns /\ turns'[k] = turns[k + 1]
                                     /\ turns'[k] # c
                                  \/ /\ k = Len(turns) /\ turns'[k] = c /\ rest # <<>>
      /\ DOMAIN turns' \in SUBSET (1 .. Len(turns))
      /\ \A k \in DOMAIN turns : k # 1 => k - 1 \in DOMAIN turns' /\ turns'[k - 1] = turns[k]
      /\ rest # <<>> => Len(turns) \in DOMAIN turns'
  <2>1. \A k \in 2 .. Len(turns) : turns[k] # c
    <3> SUFFICES ASSUME NEW k \in 2 .. Len(turns), turns[k] = turns[1] PROVE FALSE
      BY DEF c
    <3> QED  BY <1>1 DEF QueueInv, OneTurn
  <2>2. CASE rest = <<>>
    BY <1>1, <1>3, <2>1, <2>2
  <2>3. CASE rest # <<>>
    <3>1. turns' = Append(t, c)
      BY <1>3, <2>3
    <3>2. DOMAIN turns' = 1 .. Len(turns) /\ turns'[Len(turns)] = c
          /\ \A k \in 1 .. Len(turns) - 1 : turns'[k] = turns[k + 1]
      BY <1>5, <3>1
    <3>3. ASSUME NEW k \in 1 .. Len(turns), k # Len(turns)
          PROVE  k + 1 \in DOMAIN turns /\ turns'[k] = turns[k + 1] /\ turns'[k] # c
      BY <1>1, <2>1, <3>2, <3>3
    <3>4. ASSUME NEW k \in DOMAIN turns, k # 1
          PROVE  k - 1 \in DOMAIN turns' /\ turns'[k - 1] = turns[k]
      <4>1. k - 1 \in 1 .. Len(turns) - 1 /\ (k - 1) + 1 = k
        BY <1>1, <3>4
      <4> QED  BY <3>2, <4>1
    <3>5. Len(turns) \in 1 .. Len(turns)
      BY <1>1
    <3> QED  BY <2>3, <3>2, <3>3, <3>4, <3>5
  <2> QED  BY <2>2, <2>3
<1>9. OneTurn'
  <2>1. ASSUME NEW k \in DOMAIN turns', NEW l \in DOMAIN turns', turns'[k] = turns'[l] PROVE k = l
    <3>1. k \in Nat /\ l \in Nat
      BY <1>1, <1>8
    <3>2. CASE turns'[k] = c
      BY <1>8, <2>1, <3>2
    <3>3. CASE turns'[k] # c
      <4>1. k + 1 \in DOMAIN turns /\ l + 1 \in DOMAIN turns /\ turns[k + 1] = turns[l + 1]
        BY <1>8, <2>1, <3>3
      <4>2. k + 1 = l + 1
        BY <4>1 DEF QueueInv, OneTurn
      <4> QED  BY <3>1, <4>2
    <3> QED  BY <3>2, <3>3
  <2>2. ASSUME NEW d \in Conns PROVE queue'[d] # <<>> <=> \E k \in DOMAIN turns' : turns'[k] = d
    <3>1. queue'[d] = IF d = c THEN rest ELSE queue[d]
      BY <1>3 DEF Send!TypeOK
    <3>2. queue[d] # <<>> <=> \E k \in DOMAIN turns : turns[k] = d
      BY DEF QueueInv, OneTurn
    <3>3. CASE d = c
      BY <1>8, <3>1, <3>3
    <3>4. CASE d # c
      <4>1. ASSUME NEW k \in DOMAIN turns, turns[k] = d PROVE \E l \in DOMAIN turns' : turns'[l] = d
        BY <1>8, <3>4, <4>1 DEF c
      <4>2. ASSUME NEW k \in DOMAIN turns', turns'[k] = d PROVE \E l \in DOMAIN turns : turns[l] = d
        BY <1>8, <3>4, <4>2
      <4> QED  BY <3>1, <3>2, <3>4, <4>1, <4>2
    <3> QED  BY <3>3, <3>4
  <2> QED  BY <2>1, <2>2 DEF OneTurn
<1>10. Counted'
  <2>1. ASSUME NEW d \in Conns PROVE pending'[d] = Cardinality(Send!Chunks(queue'[d]))
    <3>1. pending[d] = Cardinality(Send!Chunks(queue[d]))
      BY DEF QueueInv, Counted
    <3>2. CASE d = c
      BY <1>2, <1>3, <1>4, <3>1, <3>2 DEF Send!TypeOK
    <3>3. CASE d # c
      BY <1>3, <3>1, <3>3 DEF Send!TypeOK
    <3> QED  BY <3>2, <3>3
  <2> QED  BY <2>1 DEF Counted
<1>11. PassedFew'
  <2>1. N \in Nat /\ N' = N /\ Send!Cardinality(Conns) = N /\ N >= 1
    BY <1>2, ConnsCounted DEF N
  <2>2. ASSUME NEW d \in Conns
        PROVE  /\ passed'[d] \in Nat /\ passed'[d] <= N - 1
               /\ \A k \in DOMAIN turns : turns[k] = d /\ k # 1 => passed'[d] <= passed[d] + 1
               /\ d = c => passed'[d] = 0
    <3>1. passed[d] \in Nat /\ passed[d] <= N - 1
      BY DEF QueueInv, PassedFew
    <3>2. passed'[d] = IF d = c \/ d \notin Send!ToSet(turns) THEN 0
                       ELSE IF passed[d] <= N THEN passed[d] + 1 ELSE passed[d]
      BY <1>3, <2>1
    <3>3. d # c /\ d \in Send!ToSet(turns) => passed[d] + 1 <= N - 1
      <4> SUFFICES ASSUME d # c, d \in Send!ToSet(turns) PROVE passed[d] + 1 <= N - 1
        OBVIOUS
      <4>1. PICK k \in DOMAIN turns : turns[k] = d
        BY DEF Send!ToSet
      <4>2. k # 1 /\ k \in Nat /\ k >= 2
        BY <1>1, <4>1 DEF c
      <4>3. passed[d] + k <= N
        BY <4>1 DEF QueueInv, PassedFew
      <4> QED  BY <2>1, <3>1, <4>2, <4>3
    <3> QED  BY <2>1, <3>1, <3>2, <3>3
  <2>3. Len(turns) <= N
    BY <1>1, TurnsBounded DEF QueueInv, OneTurn, N
  <2>4. ASSUME NEW k \in DOMAIN turns' PROVE passed'[turns'[k]] + k <= N
    <3>1. k \in 1 .. Len(turns)
      BY <1>8
    <3>2. CASE k + 1 \in DOMAIN turns /\ turns'[k] = turns[k + 1]
      <4>1. turns'[k] \in Conns
        BY <1>1, <3>2
      <4>2. passed[turns'[k]] + (k + 1) <= N /\ passed[turns'[k]] \in Nat
        BY <3>2, <4>1 DEF QueueInv, PassedFew
      <4>3. passed'[turns'[k]] <= passed[turns'[k]] + 1 /\ passed'[turns'[k]] \in Nat
        <5>1. k + 1 # 1
          BY <3>1
        <5> QED  BY <2>2, <3>2, <4>1, <5>1
      <4> QED  BY <2>1, <3>1, <4>2, <4>3
    <3>3. CASE k = Len(turns) /\ turns'[k] = c
      BY <1>1, <1>2, <2>1, <2>2, <2>3, <3>3
    <3> QED  BY <1>8, <3>2, <3>3
  <2>5. passed' \in [Conns -> Nat]
    <3>1. passed' = [d \in Conns |-> passed'[d]]
      BY <1>3
    <3> QED  BY <2>2, <3>1
  <2> QED  BY <2>1, <2>2, <2>4, <2>5 DEF PassedFew
<1>12. SleepInv'
  <2>1. ~shut => turns # <<>> /\ sender # Send!NoSender /\ sender' # Send!NoSender
    BY DEF Send!TakeChunk, Send!Ready, Send!NoSender
  <2> QED  BY <1>3, <2>1 DEF SleepInv, SenderStarts, SleepersAreOwed, Send!SleepersAreOwed
<1> QED  BY <1>7, <1>9, <1>10, <1>11, <1>12 DEF QueueInv

(* The steps that leave the queues alone.                                    *)
LEMMA QuietStep ==
    ASSUME SenderInv,
           \/ Send!SenderSleeps \/ Send!SenderEnds \/ Send!TakeControl
           \/ Send!Sent \/ Send!BeginTeardown
    PROVE  SenderInv'
<1> USE DEF SenderInv
<1>1. QueueInv'
  BY QueuesRest DEF Send!SenderSleeps, Send!SenderEnds, Send!TakeControl, Send!Sent,
                    Send!BeginTeardown
<1>2. CASE Send!SenderSleeps
  <2>1. Send!TypeOK'
    BY <1>2 DEF Send!SenderSleeps, Send!TypeOK
  <2>2. \A d \in Conns : d \notin asleep
    <3> SUFFICES ASSUME NEW d \in Conns, d \in asleep PROVE FALSE
      OBVIOUS
    <3>1. reader[d] = "blocked" /\ Send!NoRoom(d, payload[d]) /\ payload[d] \in 1 .. MaxPayload
      BY DEF SleepInv, SenderStarts, SleepersAreOwed, Send!SleepersAreOwed
    <3> QED  BY <1>2, <3>1, NoRoomHasTurn DEF Send!SenderSleeps
  <2>3. SleepInv'
    BY <1>2, <2>2, SenderAssumption DEF Send!SenderSleeps, SleepInv, SenderStarts,
        SleepersAreOwed, Send!SleepersAreOwed
  <2> QED  BY <1>1, <2>1, <2>3
<1>3. CASE Send!SenderEnds
  <2>1. Send!TypeOK'
    BY <1>3 DEF Send!SenderEnds, Send!TypeOK
  <2>2. SleepInv'
    BY <1>3 DEF Send!SenderEnds, SleepInv, SenderStarts, SleepersAreOwed,
        Send!SleepersAreOwed, Send!NoRoom
  <2> QED  BY <1>1, <2>1, <2>2
<1>4. CASE Send!TakeControl
  <2>1. control \in Seq(Controls) /\ control # <<>>
    BY <1>4 DEF Send!TakeControl, Send!TypeOK
  <2>2. Head(control) \in Controls /\ Tail(control) \in Seq(Controls)
    BY <2>1, HeadTailProperties
  <2>3. Send!TypeOK'
    BY <1>4, <2>2 DEF Send!TakeControl, Send!TypeOK
  <2>4. SleepInv'
    BY <1>4 DEF Send!TakeControl, SleepInv, SenderStarts, SleepersAreOwed,
        Send!SleepersAreOwed, Send!NoRoom, Send!NoSender, Send!Ready
  <2> QED  BY <1>1, <2>3, <2>4
<1>5. CASE Send!Sent
  <2>1. sender # Send!NoSender /\ sender # Send!Ready
    BY <1>5 DEF Send!Sent, Send!NoSender, Send!Ready
  <2>2. Send!TypeOK'
    BY <1>5 DEF Send!Sent, Send!TypeOK
  <2>3. SleepInv'
    BY <1>5, <2>1 DEF Send!Sent, SleepInv, SenderStarts, SleepersAreOwed,
        Send!SleepersAreOwed, Send!NoRoom, Send!NoSender, Send!Ready
  <2> QED  BY <1>1, <2>2, <2>3
<1>6. CASE Send!BeginTeardown
  <2>1. Send!TypeOK'
    BY <1>6 DEF Send!BeginTeardown, Send!TypeOK
  <2>2. SleepInv'
    BY <1>6 DEF Send!BeginTeardown, SleepInv, SenderStarts, SleepersAreOwed,
        Send!SleepersAreOwed, Send!NoRoom
  <2> QED  BY <1>1, <2>1, <2>2
<1> QED  BY <1>2, <1>3, <1>4, <1>5, <1>6

(* No queues, no turns, nobody asleep.                                       *)
LEMMA EmptyQueues ==
    ASSUME turns = <<>>, queue = [c \in Conns |-> <<>>], pending = [c \in Conns |-> 0],
           PassedFew \/ passed = [c \in Conns |-> 0]
    PROVE  QueueInv
<1>1. <<>> \in Payloads
  BY EmptySeq DEF Payloads
<1>2. Counted
  BY <1>1, ChunksFinite DEF Counted
<1>3. DOMAIN turns = {}
  BY EmptySeq, LenProperties
<1>4. PassedFew
  BY <1>3, ConnsCounted DEF PassedFew
<1> QED  BY <1>2, <1>3, <1>4 DEF QueueInv, OneTurn

LEMMA EmptiedStep ==
    ASSUME SenderInv, Send!SendFails \/ Send!Shutdown
    PROVE  SenderInv'
<1> USE DEF SenderInv
<1>1. Send!Emptied /\ UNCHANGED <<gone, reader, payload, passed>>
  BY DEF Send!SendFails, Send!Shutdown
<1>2. Send!TypeOK'
  <2>1. caller' \in [Controls -> {"idle", "waiting", "returned", "failed"}]
        /\ teardown' \in {"no", "closing", "done"}
    BY DEF Send!SendFails, Send!Shutdown, Send!TypeOK
  <2>2. <<>> \in Seq(Controls) /\ <<>> \in Seq(Conns) /\ <<>> \in Seq(1 .. MaxPayload)
    BY EmptySeq
  <2> QED  BY <1>1, <2>1, <2>2, ConnsCounted DEF Send!Emptied, Send!NotifyAll, Send!TypeOK
<1>3. QueueInv'
  <2>1. PassedFew' \/ passed' = [c \in Conns |-> 0]
    <3>1. DOMAIN turns' = {}
      BY <1>1, EmptySeq, LenProperties DEF Send!Emptied
    <3> QED  BY <1>1, <3>1 DEF QueueInv, PassedFew, N
  <2>2. <<>> \in Payloads
    BY EmptySeq DEF Payloads
  <2>3. Counted'
    BY <1>1, <2>2, ChunksFinite DEF Counted, Send!Emptied
  <2>4. OneTurn'
    BY <1>1, EmptySeq, LenProperties DEF OneTurn, Send!Emptied
  <2>5. PassedFew'
    <3>1. DOMAIN turns' = {}
      BY <1>1, EmptySeq, LenProperties DEF Send!Emptied
    <3> QED  BY <1>1, <3>1 DEF QueueInv, PassedFew, N
  <2> QED  BY <2>3, <2>4, <2>5 DEF QueueInv
<1>4. SleepInv'
  BY <1>1 DEF Send!Emptied, Send!NotifyAll, SleepInv, SenderStarts, SleepersAreOwed,
      Send!SleepersAreOwed
<1> QED  BY <1>2, <1>3, <1>4

LEMMA InitSenderInv ==
    ASSUME Send!Init
    PROVE  SenderInv
<1>1. Send!TypeOK
  <2>1. <<>> \in Seq(Controls) /\ <<>> \in Seq(Conns) /\ <<>> \in Seq(1 .. MaxPayload)
    BY EmptySeq
  <2>2. control \in Seq(Controls) /\ turns \in Seq(Conns)
        /\ queue \in [Conns -> Seq(1 .. MaxPayload)]
    BY <2>1 DEF Send!Init
  <2>3. pending \in [Conns -> 0 .. MaxPending] /\ payload \in [Conns -> 0 .. MaxPayload]
    BY ConnsCounted DEF Send!Init
  <2> QED  BY <2>2, <2>3 DEF Send!Init, Send!TypeOK
<1>2. QueueInv
  BY EmptyQueues DEF Send!Init
<1>3. SleepInv
  BY DEF Send!Init, SleepInv, SenderStarts, SleepersAreOwed, Send!SleepersAreOwed
<1> QED  BY <1>1, <1>2, <1>3 DEF SenderInv

(* The invariant of the sender is inductive.                                 *)
LEMMA SenderStep ==
    ASSUME SenderInv, Send!Next \/ UNCHANGED senderVars
    PROVE  SenderInv'
<1>1. CASE \E w \in Controls : Send!SendControl(w)
  BY <1>1, SendControlStep
<1>2. CASE \E c \in Conns : Send!Retry(c)
  BY <1>2, RetryStep
<1>3. CASE \E c \in Conns : Send!Discard(c)
  BY <1>3, DiscardStep
<1>4. CASE \E c \in Conns, n \in 1 .. MaxPayload : Send!SendData(c, n)
  BY <1>4, SendDataStep
<1>5. CASE Send!TakeChunk
  BY <1>5, TakeChunkStep
<1>6. CASE Send!SenderSleeps \/ Send!SenderEnds \/ Send!TakeControl \/ Send!Sent
           \/ Send!BeginTeardown
  BY <1>6, QuietStep
<1>7. CASE Send!SendFails \/ Send!Shutdown
  BY <1>7, EmptiedStep
<1>8. CASE UNCHANGED senderVars
  <2>1. QueueInv'
    BY <1>8, QueuesRest DEF SenderInv, senderVars
  <2> QED  BY <1>8, <2>1 DEF SenderInv, senderVars, Send!TypeOK, SleepInv, SenderStarts,
            SleepersAreOwed, Send!SleepersAreOwed, Send!NoRoom
<1> QED  BY <1>1, <1>2, <1>3, <1>4, <1>5, <1>6, <1>7, <1>8 DEF Send!Next, Send!Sender

(* In a sequence without repetitions something is nowhere or at one place.    *)
LEMMA TurnsOf ==
    ASSUME SenderInv, NEW c \in Conns
    PROVE  Send!Cardinality({i \in DOMAIN turns : turns[i] = c})
             = IF queue[c] = <<>> THEN 0 ELSE 1
<1> DEFINE at == {i \in DOMAIN turns : turns[i] = c}
<1>1. CASE queue[c] = <<>>
  <2>1. at = {}
    BY <1>1 DEF SenderInv, QueueInv, OneTurn
  <2> QED  BY <1>1, <2>1, FS_EmptySet, SameCardinality
<1>2. CASE queue[c] # <<>>
  <2>1. PICK i \in DOMAIN turns : turns[i] = c
    BY <1>2 DEF SenderInv, QueueInv, OneTurn
  <2>2. at = {i}
    BY <2>1 DEF SenderInv, QueueInv, OneTurn
  <2> QED  BY <1>2, <2>2, FS_Singleton, SameCardinality
<1> QED  BY <1>1, <1>2

LEMMA SenderProperties ==
    ASSUME SenderInv
    PROVE  Send!QueuesAccounted /\ NoMonopoly /\ SleepersAreOwed
<1>1. Send!QueuesAccounted
  <2> SUFFICES ASSUME NEW c \in Conns
               PROVE  /\ pending[c] = Send!Cardinality(Send!Chunks(queue[c]))
                      /\ pending[c] <= MaxPending
                      /\ Send!Cardinality({i \in DOMAIN turns : turns[i] = c})
                           = IF queue[c] = <<>> THEN 0 ELSE 1
    BY DEF Send!QueuesAccounted
  <2> QED  BY TurnsOf, SameCardinality, ConnsCounted DEF SenderInv, QueueInv, Counted, Send!TypeOK
<1>2. NoMonopoly
  BY ConnsCounted DEF SenderInv, QueueInv, PassedFew, NoMonopoly, Send!NoMonopoly
<1> QED  BY <1>1, <1>2 DEF SenderInv, SleepInv

-----------------------------------------------------------------------------
(* The keeper, and the modules together.                                     *)

KeeperInv ==
    /\ Keep!TypeOK
    /\ keeper.pc = "rest" => keeper.cut = {} /\ keeper.repair = {}

LEMMA KeeperStep ==
    ASSUME KeeperInv, Keep!Next \/ UNCHANGED keeperVars
    PROVE  KeeperInv'
<1> USE DEF KeeperInv, Keep!TypeOK
<1>1. ASSUME NEW p \in Tunnels,
             \/ Keep!PortReady(p) \/ Keep!PortGone(p) \/ Keep!AdbNotices(p)
             \/ Keep!AdbLoses(p) \/ Keep!Accept(p)
      PROVE  KeeperInv'
  BY <1>1 DEF Keep!PortReady, Keep!PortGone, Keep!AdbNotices, Keep!AdbLoses, Keep!Accept
<1>2. ASSUME NEW p \in Tunnels, Keep!Cut(p) \/ Keep!Repair(p) \/ Keep!CommandFails(p)
      PROVE  KeeperInv'
  BY <1>2 DEF Keep!Cut, Keep!Repair, Keep!CommandFails
<1>3. CASE Keep!Look
  BY <1>3 DEF Keep!Look
<1>4. CASE Keep!List
  BY <1>4 DEF Keep!List
<1>5. CASE Keep!ListFails \/ Keep!RoundEnds
  BY <1>5 DEF Keep!ListFails, Keep!RoundEnds, Keep!Resting
<1>6. CASE UNCHANGED keeperVars
  BY <1>6 DEF keeperVars
<1> QED  BY <1>1, <1>2, <1>3, <1>4, <1>5, <1>6 DEF Keep!Next

(* All of it, whichever behaviour the modules show.                          *)
AgentsInv == IInv /\ SenderInv /\ (mode = "keep" => KeeperInv)

LEMMA InitAgentsInv == MCInit => AgentsInv
<1> SUFFICES ASSUME MCInit PROVE AgentsInv
  OBVIOUS
<1>1. Init /\ Send!Init /\ (mode = "keep" => Keep!Init)
  BY DEF MCInit
<1>2. mode = "keep" => KeeperInv
  BY <1>1 DEF Keep!Init, Keep!Resting, KeeperInv, Keep!TypeOK
<1> QED  BY <1>1, <1>2, InitIInv, InitSenderInv DEF AgentsInv

LEMMA StepAgentsInv == AgentsInv /\ [MCNext]_mcVars => AgentsInv'
<1> SUFFICES ASSUME AgentsInv, [MCNext]_mcVars PROVE AgentsInv'
  OBVIOUS
<1>1. [Next]_vars /\ mode' = mode
  BY DEF MCNext, mcVars
<1>2. Send!Next \/ UNCHANGED senderVars
  BY DEF MCNext, mcVars
<1>3. mode = "keep" => Keep!Next \/ UNCHANGED keeperVars
  BY DEF MCNext, mcVars
<1> QED  BY <1>1, <1>2, <1>3, StepIInv, SenderStep, KeeperStep DEF AgentsInv

THEOREM AgentsInvariance == MCSpec => []AgentsInv
<1> QED  BY InitAgentsInv, StepAgentsInv, PTL DEF MCSpec

(* AgentSender: the bytes that are counted for a connection are what its queue    *)
(* holds, within the bound, and it has one turn coming exactly if it has data.    *)
(* And each module about agents keeps its types.                             *)
THEOREM QueuesCorrectness == MCSpec => []QueuesAccounted
<1>1. AgentsInv => QueuesAccounted
  BY SenderProperties DEF AgentsInv, IInv, SenderInv, KeeperInv, QueuesAccounted
<1> QED  BY <1>1, AgentsInvariance, PTL

(* AgentSender: whatever the number of connections, one with data waits for at   *)
(* most one chunk of each other.                                             *)
THEOREM TurnsCorrectness == MCSpec => []NoMonopoly
<1>1. AgentsInv => NoMonopoly
  BY SenderProperties DEF AgentsInv
<1> QED  BY <1>1, AgentsInvariance, PTL

(* AgentSender: nobody sleeps on the condition who would not be woken: what the   *)
(* sleeper waits for is not there, and who is to bring it about is awake.       *)
THEOREM SleepersCorrectness == MCSpec => []SleepersAreOwed
<1>1. AgentsInv => SleepersAreOwed
  BY SenderProperties DEF AgentsInv
<1> QED  BY <1>1, AgentsInvariance, PTL

=============================================================================
