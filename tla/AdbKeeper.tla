------------------------------ MODULE AdbKeeper ------------------------------
(***************************************************************************)
(* The keeper of adb connections to tunnel ports                             *)
(* (device_agents/adb_keeper.py): every round it compares the ports that the  *)
(* hub wants connected with what the adb server lists, cuts what is gone and   *)
(* connects or repairs the rest.  The hub (AgentHub: DesiredPorts) appears as   *)
(* ports that become ready and stop being so, the adb server as a list of      *)
(* entries that changes by itself; every adb command may fail.                 *)
(***************************************************************************)
EXTENDS Naturals

CONSTANTS Ports   \* the tunnel ports; adb entries of others are not touched

VARIABLES
  ready,    \* the ports with a listener of a live session
  locked,   \* the phones whose user has not yet accepted this adb server
  adb,      \* per port: the entry of the adb server
  keeper    \* whether a round is under way, what was desired, what is to be done

vars == <<ready, locked, adb, keeper>>

Resting == [pc |-> "rest", desired |-> {}, cut |-> {}, repair |-> {}]
LeaveAlone == {"unauthorized"}

Init ==
    /\ ready = {} /\ locked \in SUBSET Ports
    /\ adb \in [Ports -> {"none", "offline"}]   \* entries of an earlier run of the server
    /\ keeper = Resting

PortReady(p) ==
    /\ p \notin ready /\ ready' = ready \cup {p}
    /\ UNCHANGED <<locked, adb, keeper>>

PortGone(p) ==
    /\ p \in ready /\ ready' = ready \ {p}
    /\ UNCHANGED <<locked, adb, keeper>>

\* adb sees that a connection is broken, or loses one that is not.
AdbNotices(p) ==
    /\ adb[p] \in {"device", "unauthorized"} /\ p \notin ready
    /\ adb' = [adb EXCEPT ![p] = "offline"]
    /\ UNCHANGED <<ready, locked, keeper>>
AdbLoses(p) ==
    /\ adb[p] = "device" /\ p \in ready
    /\ adb' = [adb EXCEPT ![p] = "offline"]
    /\ UNCHANGED <<ready, locked, keeper>>

\* The user of the phone accepts the key of the adb server.
Accept(p) ==
    /\ p \in locked /\ locked' = locked \ {p}
    /\ adb' = [adb EXCEPT ![p] = IF @ = "unauthorized" THEN "device" ELSE @]
    /\ UNCHANGED <<ready, keeper>>

-----------------------------------------------------------------------------
\* _loop, woken by the hub or by its timer, and _sync_once up to the first await.
Look ==
    /\ keeper.pc = "rest"
    /\ keeper' = [keeper EXCEPT !.pc = "list", !.desired = ready]
    /\ UNCHANGED <<ready, locked, adb>>

\* A slip: an entry that adb lists counts as connected.
NeedsRepairIfAbsent(p) == adb[p] = "none"

NeedsRepair(p) == adb[p] \notin LeaveAlone \cup {"device"}

\* adb devices: the list is compared with what was desired before.
List ==
    /\ keeper.pc = "list"
    /\ keeper' = [keeper EXCEPT !.pc = "work",
                    !.cut = {p \in Ports \ keeper.desired : adb[p] # "none"},
                    !.repair = {p \in keeper.desired : NeedsRepair(p)}]
    /\ UNCHANGED <<ready, locked, adb>>
ListFails ==
    /\ keeper.pc = "list" /\ keeper' = Resting
    /\ UNCHANGED <<ready, locked, adb>>

\* _disconnect of a port that is not desired.
Cut(p) ==
    /\ keeper.pc = "work" /\ p \in keeper.cut
    /\ adb' = [adb EXCEPT ![p] = "none"]
    /\ keeper' = [keeper EXCEPT !.cut = @ \ {p}]
    /\ UNCHANGED <<ready, locked>>

\* _repair: disconnect what is listed, then connect.
Repair(p) ==
    /\ keeper.pc = "work" /\ p \in keeper.repair
    /\ adb' = [adb EXCEPT ![p] = IF p \notin ready THEN "none"
                                 ELSE IF p \in locked THEN "unauthorized" ELSE "device"]
    /\ keeper' = [keeper EXCEPT !.repair = @ \ {p}]
    /\ UNCHANGED <<ready, locked>>

\* A command fails or times out: the next round is the retry.
CommandFails(p) ==
    /\ keeper.pc = "work" /\ p \in keeper.cut \cup keeper.repair
    /\ keeper' = [keeper EXCEPT !.cut = @ \ {p}, !.repair = @ \ {p}]
    /\ UNCHANGED <<ready, locked, adb>>

\* gather: the round ends when all commands have.
RoundEnds ==
    /\ keeper.pc = "work" /\ keeper.cut = {} /\ keeper.repair = {}
    /\ keeper' = Resting
    /\ UNCHANGED <<ready, locked, adb>>

Next ==
    \/ \E p \in Ports : PortReady(p) \/ PortGone(p) \/ AdbNotices(p) \/ AdbLoses(p) \/ Accept(p)
    \/ \E p \in Ports : Cut(p) \/ Repair(p) \/ CommandFails(p)
    \/ Look \/ List \/ ListFails \/ RoundEnds

Spec == Init /\ [][Next]_vars

\* The keeper's timer fires and its commands end; adb notices broken connections; a command
\* that is issued again and again succeeds at some time.
Fairness ==
    /\ WF_vars(Look) /\ SF_vars(List) /\ WF_vars(RoundEnds)
    /\ \A p \in Ports : SF_vars(Cut(p)) /\ SF_vars(Repair(p)) /\ WF_vars(AdbNotices(p))

FairSpec == Spec /\ Fairness

-----------------------------------------------------------------------------
(* What the keeper does is about ports that adb lists or the hub desired.      *)
TypeOK ==
    /\ ready \subseteq Ports /\ locked \subseteq Ports
    /\ adb \in [Ports -> {"none", "device", "offline", "unauthorized"}]
    /\ keeper \in [pc : {"rest", "list", "work"}, desired : SUBSET Ports,
                   cut : SUBSET Ports, repair : SUBSET Ports]
    /\ keeper.cut \cap keeper.desired = {} /\ keeper.repair \subseteq keeper.desired

(* Whatever fails on the way, adb converges: a tunnel that is ready for good,   *)
(* whose phone accepts and whose connection holds, becomes a device, and the    *)
(* entry of a tunnel that is gone for good disappears.                          *)
AdbConverges ==
    \A p \in Ports :
        /\ <>[](p \in ready /\ p \notin locked) /\ <>[][~AdbLoses(p)]_vars => <>[](adb[p] = "device")
        /\ <>[](p \notin ready) => <>[](adb[p] = "none")

=============================================================================
