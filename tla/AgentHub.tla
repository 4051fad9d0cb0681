------------------------------- MODULE AgentHub -------------------------------
(***************************************************************************)
(* The hub for remote device agents (device_agents/hub.py), its REST and     *)
(* WebSocket endpoints (api/device_agents.py), for one agent name.  An agent    *)
(* connects from time to time: each connection is a session with a handler.    *)
(* A session listens on one local port per reported device; ports belong to    *)
(* (agent, device) pairs in the database.  A new session of the same name      *)
(* tears the old one down before it enters the table.                          *)
(*                                                                         *)
(* Everything here but the deletion of an agent runs in one event loop: an     *)
(* action is what runs between two awaits.  The hub's lock is never held       *)
(* across an await, so it orders nothing.                                      *)
(***************************************************************************)
EXTENDS Naturals, FiniteSets

CONSTANTS Sessions,     \* connections of the agent
          Devices,      \* usb serials of its phones
          Lists,        \* the device lists it may report
          Ports,        \* the range of tunnel ports
          MaxAgents     \* bound on the ids of agent rows

ASSUME HubAssumption ==
    "none" \notin Sessions /\ Lists \subseteq SUBSET Devices /\ MaxAgents \in Nat

VARIABLES
  entry,      \* _sessions[name]
  pc,         \* per session: where its handler stands
  closed,     \* the sessions with closed = True
  victim,     \* per session: whom its handler tears down
  dev,        \* per session: the runtime of each device
  port,       \* per session: tunnel_port of each device
  todo,       \* per session: reported devices still to be looked at
  wanted,     \* per session: port_map, the devices of the last report
  id,         \* per session: agent_id
  listening,  \* per port: the session whose listener is bound to it
  agent,      \* the row of the agent
  mappings,   \* the rows (agent, device, port)
  lastId,     \* the last id given to an agent row
  deleting,   \* a DELETE request between its check and its commit
  broken      \* history: the sessions whose sender failed before they were torn down

hub == <<entry, pc, closed, victim, dev, port, todo, wanted, id, listening, broken>>
rows == <<agent, mappings, lastId>>
vars == <<hub, rows, deleting>>

None == "none"
NoAgent == [id |-> 0, online |-> FALSE]
NoDelete == [id |-> 0, maps |-> {}]
Before == {"new", "evicting", "cleared"}
Mappings == [agent : 1 .. MaxAgents, device : Devices, port : Ports]

Init ==
    /\ entry = None /\ closed = {}
    /\ pc = [s \in Sessions |-> "new"] /\ victim = [s \in Sessions |-> s]
    /\ dev = [s \in Sessions |-> [d \in Devices |-> "none"]]
    /\ port = [s \in Sessions |-> [d \in Devices |-> 0]]
    /\ todo = [s \in Sessions |-> {}] /\ wanted = [s \in Sessions |-> {}]
    /\ id = [s \in Sessions |-> 0]
    /\ listening = [p \in Ports |-> None]
    /\ agent = NoAgent /\ mappings = {} /\ lastId = 0
    /\ deleting = NoDelete /\ broken = {}

-----------------------------------------------------------------------------
(* Ports of devices.                                                        *)

MappedPort(maps, i, d) == {m.port : m \in {x \in maps : x.agent = i /\ x.device = d}}
UsedPorts(maps) == {m.port : m \in maps}

\* A slip: only the ports of this agent count as used.
PickedPortsOwn(maps, i, ds) ==
    {f \in [ds -> Ports \ UsedPorts({m \in maps : m.agent = i})] :
        \A d, e \in ds : d # e => f[d] # f[e]}

\* _pick_free_port for the devices ds in the order of the report: the lowest free ports.
PickedPorts(maps, i, ds) ==
    LET free == Ports \ UsedPorts(maps)
        lowest == {p \in free : Cardinality({q \in free : q < p}) < Cardinality(ds)}
    IN {f \in [ds -> lowest] : \A d, e \in ds : d # e => f[d] # f[e]}

\* _persist_device_mappings: devices without a row get one while ports last.
Persist(s, i, reported) ==
    LET fresh == {d \in reported : MappedPort(mappings, i, d) = {}}
        free == Cardinality(Ports \ UsedPorts(mappings))
    IN \E ds \in SUBSET fresh :
          /\ Cardinality(ds) = IF Cardinality(fresh) < free THEN Cardinality(fresh) ELSE free
          /\ \E f \in PickedPorts(mappings, i, ds) :
                LET maps == mappings \cup {[agent |-> i, device |-> d, port |-> f[d]] : d \in ds}
                    given == {d \in reported : MappedPort(maps, i, d) # {}}
                IN /\ mappings' = maps
                   /\ wanted' = [wanted EXCEPT ![s] = given]
                   /\ todo' = [todo EXCEPT ![s] = given]
                   /\ port' = [port EXCEPT ![s] = [d \in Devices |->
                                 IF d \in given /\ dev[s][d] = "none"
                                 THEN CHOOSE p \in MappedPort(maps, i, d) : TRUE
                                 ELSE port[s][d]]]

-----------------------------------------------------------------------------
(* Registration.                                                            *)

\* handle_session from _persist_agent_online to the first await: the session enters the
\* table, whoever is in it by now.  SQLite gives the id of the last row again if that row
\* was deleted and no later one exists.
Enter(s, reported) ==
    \E i \in IF agent = NoAgent THEN {lastId, lastId + 1} \ {0} ELSE {agent.id} :
       /\ i <= MaxAgents
       /\ agent' = [id |-> i, online |-> TRUE]
       /\ lastId' = IF i > lastId THEN i ELSE lastId
       /\ entry' = s /\ id' = [id EXCEPT ![s] = i]
       /\ Persist(s, i, reported)
       /\ pc' = [pc EXCEPT ![s] = "apply"]
       /\ UNCHANGED <<closed, victim, dev, listening, deleting, broken>>

\* No session of this name, or one that is closed already, which _teardown_session skips.
Register(s, reported) ==
    /\ pc[s] = "new" /\ entry \in closed \cup {None}
    /\ Enter(s, reported)

\* A slip: the session is closed, and the table is left for later.
LeaveTableLate(t) == UNCHANGED entry

\* _teardown_session: closed and out of the table in one step.
LeaveTable(t) == entry' = IF entry = t THEN None ELSE entry

Evict(s) ==
    /\ pc[s] = "new" /\ entry \notin closed \cup {None}
    /\ closed' = closed \cup {entry} /\ LeaveTable(entry)
    /\ victim' = [victim EXCEPT ![s] = entry]
    /\ pc' = [pc EXCEPT ![s] = "evicting"]
    /\ UNCHANGED <<dev, port, todo, wanted, id, listening, rows, deleting, broken>>

EnterAfterEviction(s, reported) == pc[s] = "cleared" /\ Enter(s, reported)

-----------------------------------------------------------------------------
(* The device list of a session.                                            *)

\* _remove_device_runtime: a listener that is still being started is not known yet.
Removed(t, d) ==
    /\ dev' = [dev EXCEPT ![t][d] = "none"]
    /\ listening' = IF dev[t][d] = "up" THEN [listening EXCEPT ![port[t][d]] = None]
                    ELSE listening

RemoveDevice(s, d) ==
    /\ pc[s] = "apply" /\ dev[s][d] # "none" /\ d \notin wanted[s]
    /\ Removed(s, d)
    /\ UNCHANGED <<entry, pc, closed, victim, port, todo, wanted, id, rows, deleting,
                   broken>>

AllRemoved(s) == \A d \in Devices : dev[s][d] # "none" => d \in wanted[s]

\* A device that is known keeps its runtime, also one whose listener failed.
KeepDevice(s, d) ==
    /\ pc[s] = "apply" /\ AllRemoved(s) /\ d \in todo[s] /\ dev[s][d] # "none"
    /\ todo' = [todo EXCEPT ![s] = @ \ {d}]
    /\ UNCHANGED <<entry, pc, closed, victim, dev, port, wanted, id, listening, rows,
                   deleting, broken>>

\* _start_listener up to the await of start_server; the port may be in use.
StartListener(s, d) ==
    /\ pc[s] = "apply" /\ AllRemoved(s) /\ d \in todo[s] /\ dev[s][d] = "none"
    /\ todo' = [todo EXCEPT ![s] = @ \ {d}]
    /\ IF listening[port[s][d]] = None
       THEN /\ listening' = [listening EXCEPT ![port[s][d]] = s]
            /\ dev' = [dev EXCEPT ![s][d] = "starting"]
            /\ pc' = [pc EXCEPT ![s] = "starting"]
       ELSE /\ dev' = [dev EXCEPT ![s][d] = "error"]
            /\ UNCHANGED <<pc, listening>>
    /\ UNCHANGED <<entry, closed, victim, port, wanted, id, rows, deleting, broken>>

\* runtime.listener = server, though the runtime may have left the session meanwhile.
ListenerReady(s) ==
    /\ pc[s] = "starting"
    /\ dev' = [dev EXCEPT ![s] = [d \in Devices |-> IF @[d] = "starting" THEN "up" ELSE @[d]]]
    /\ pc' = [pc EXCEPT ![s] = "apply"]
    /\ UNCHANGED <<entry, closed, victim, port, todo, wanted, id, listening, rows, deleting,
                   broken>>

\* "registered" is sent; on a closed session that fails, and its handler ends.
Applied(s) ==
    /\ pc[s] = "apply" /\ todo[s] = {} /\ AllRemoved(s)
    /\ pc' = [pc EXCEPT ![s] = IF s \in closed THEN "ended" ELSE "serve"]
    /\ UNCHANGED <<entry, closed, victim, dev, port, todo, wanted, id, listening, rows,
                   deleting, broken>>

\* The agent reports its devices again.
Report(s, reported) ==
    /\ pc[s] = "serve" /\ s \notin closed
    /\ Persist(s, id[s], reported)
    /\ pc' = [pc EXCEPT ![s] = "apply"]
    /\ UNCHANGED <<entry, closed, victim, dev, id, listening, agent, lastId, deleting,
                   broken>>

-----------------------------------------------------------------------------
(* The end of a session.                                                    *)

\* The agent disconnects, or is silent for too long.
Leave(s) ==
    /\ pc[s] = "serve" /\ s \notin closed
    /\ closed' = closed \cup {s} /\ LeaveTable(s)
    /\ victim' = [victim EXCEPT ![s] = s]
    /\ pc' = [pc EXCEPT ![s] = "ending"]
    /\ UNCHANGED <<dev, port, todo, wanted, id, listening, rows, deleting, broken>>

\* _receive_loop returns, and _teardown_session finds the session closed: nothing is done.
LeaveClosed(s) ==
    /\ pc[s] = "serve" /\ s \in closed
    /\ pc' = [pc EXCEPT ![s] = "ended"]
    /\ UNCHANGED <<entry, closed, victim, dev, port, todo, wanted, id, listening, rows,
                   deleting, broken>>

CloseDevice(s, d) ==
    /\ pc[s] \in {"evicting", "ending"} /\ dev[victim[s]][d] # "none"
    /\ Removed(victim[s], d)
    /\ UNCHANGED <<entry, pc, closed, victim, port, todo, wanted, id, rows, deleting,
                   broken>>

\* _persist_agent_offline, by agent_id.
OfflineRow(s) == [agent EXCEPT !.online = @ /\ id[victim[s]] # agent.id]

\* The rest of _teardown_session; the handler of a new session goes on to Enter.
Torn(s) ==
    /\ pc[s] \in {"evicting", "ending"} /\ \A d \in Devices : dev[victim[s]][d] = "none"
    /\ agent' = OfflineRow(s)
    /\ pc' = [pc EXCEPT ![s] = IF @ = "evicting" THEN "cleared" ELSE "ended"]
    /\ UNCHANGED <<entry, closed, victim, dev, port, todo, wanted, id, listening, mappings,
                   lastId, deleting, broken>>

\* _sender_loop fails: shutdown_sender marks the session closed.
SendFails(s) ==
    /\ pc[s] \notin Before \cup {"ended"} /\ s \notin closed
    /\ closed' = closed \cup {s} /\ broken' = broken \cup {s}
    /\ UNCHANGED <<entry, pc, victim, dev, port, todo, wanted, id, listening, rows, deleting>>

-----------------------------------------------------------------------------
(* DELETE /device-agents/{id}, in a thread of its own.                        *)

DeleteCheck ==
    /\ deleting = NoDelete /\ agent # NoAgent /\ entry = None
    /\ deleting' = [id |-> agent.id, maps |-> {m \in mappings : m.agent = agent.id}]
    /\ UNCHANGED <<hub, rows>>

DeleteCommit ==
    /\ deleting # NoDelete
    /\ mappings' = mappings \ deleting.maps
    /\ agent' = IF agent.id = deleting.id THEN NoAgent ELSE agent
    /\ deleting' = NoDelete
    /\ UNCHANGED <<hub, lastId>>

-----------------------------------------------------------------------------
\* desired_ports: what the keeper of adb connections is told.
DesiredPorts ==
    IF entry = None THEN {}
    ELSE {port[entry][d] : d \in {e \in Devices : dev[entry][e] = "up"}}

-----------------------------------------------------------------------------
\* What the event loop does by itself.
Handler(s) ==
    \/ Applied(s) \/ ListenerReady(s) \/ LeaveClosed(s) \/ Torn(s)
    \/ \E d \in Devices : RemoveDevice(s, d) \/ KeepDevice(s, d) \/ StartListener(s, d)
                          \/ CloseDevice(s, d)
    \/ \E ds \in Lists : EnterAfterEviction(s, ds)

Next ==
    \/ \E s \in Sessions : Handler(s) \/ Evict(s) \/ Leave(s) \/ SendFails(s)
    \/ \E s \in Sessions, ds \in Lists : Register(s, ds) \/ Report(s, ds)
    \/ DeleteCheck \/ DeleteCommit

Spec == Init /\ [][Next]_vars

-----------------------------------------------------------------------------
(* All parts have their types, and rows of one device or one port are unique. *)
TypeOK ==
    /\ entry \in Sessions \cup {None} /\ closed \subseteq Sessions /\ broken \subseteq closed
    /\ pc \in [Sessions -> Before \cup {"apply", "starting", "serve", "ending", "ended"}]
    /\ victim \in [Sessions -> Sessions]
    /\ dev \in [Sessions -> [Devices -> {"none", "starting", "up", "error"}]]
    /\ port \in [Sessions -> [Devices -> Ports \cup {0}]]
    /\ todo \in [Sessions -> SUBSET Devices] /\ wanted \in [Sessions -> SUBSET Devices]
    /\ id \in [Sessions -> 0 .. MaxAgents]
    /\ listening \in [Ports -> Sessions \cup {None}]
    /\ agent \in [id : 0 .. MaxAgents, online : BOOLEAN] /\ lastId \in 0 .. MaxAgents
    /\ mappings \subseteq Mappings
    /\ deleting \in [id : 0 .. MaxAgents, maps : SUBSET Mappings]

(* A tunnel port belongs to one device of one agent, also after deletions     *)
(* and with the range nearly used up: the serial 127.0.0.1:port stays the      *)
(* name of one phone.                                                         *)
PortsNotShared ==
    \A m, n \in mappings : m.port = n.port \/ (m.agent = n.agent /\ m.device = n.device) => m = n

\* Every port that the keeper is told to connect is listened to by the session shown.
PortsListenedTo == \A p \in DesiredPorts : listening[p] = entry

(* Whom the table shows is not torn down, and when the last session has ended   *)
(* the agent is offline and out of the table ("the platform marks the agent      *)
(* OFFLINE and disconnects its devices", REMOTE_DEVICE_AGENT.md) - but for        *)
(* sessions whose sender failed first.  Whatever failed, every port that the      *)
(* keeper is told to connect is listened to by the session shown, whichever        *)
(* sessions of the name replace each other meanwhile.                            *)
TableIsTrue ==
    /\ PortsListenedTo
    /\ entry \in closed => entry \in broken
    /\ (\A s \in Sessions : pc[s] \in {"new", "ended"}) =>
          /\ entry \in broken \cup {None}
          /\ agent.online => \E s \in broken : id[s] = agent.id

=============================================================================
