------------------------------- MODULE MCAgents -------------------------------
(***************************************************************************)
(* The modules about remote agents, one behaviour each (mode): the hub while    *)
(* three sessions of an agent with one phone follow each other and the agent is *)
(* deleted; the hub while two sessions plug a phone in and out; the sender of   *)
(* a session; the keeper.  Whoever has not the turn rests, without steps.        *)
(***************************************************************************)
EXTENDS AgentHub, Sequences

CONSTANTS s1, s2, s3, d1, d2,
          Conns, Controls, MaxPending, MaxPayload,   \* of the sender
          Tunnels                                    \* the keeper's ports

\* TCP_READ_CHUNK is less than TUNNEL_CONNECTION_MAX_PENDING_BYTES.
ASSUME SenderAssumption ==
    /\ IsFiniteSet(Conns) /\ "sender" \notin Conns
    /\ MaxPending \in Nat /\ MaxPayload \in 1 .. MaxPending

VARIABLES
  mode,
  shut, control, caller, queue, pending, turns, gone, reader, payload, sender, asleep,
  teardown, passed,
  ready, locked, adb, keeper

Send == INSTANCE AgentSender WITH closed <- shut
Keep == INSTANCE AdbKeeper WITH Ports <- Tunnels

senderVars == <<shut, control, caller, queue, pending, turns, gone, reader, payload, sender,
                asleep, teardown, passed>>
keeperVars == <<ready, locked, adb, keeper>>
mcVars == <<mode, vars, senderVars, keeperVars>>

KeeperRests ==
    /\ ready = {} /\ locked = {} /\ adb = [p \in Tunnels |-> "none"]
    /\ keeper = [pc |-> "off"]

MCInit ==
    /\ mode \in {"hub", "plug", "send", "keep"} /\ Init /\ Send!Init
    /\ IF mode = "keep" THEN Keep!Init ELSE KeeperRests

\* What the two behaviours of the hub leave out, to keep them small.
OnePhone == broken' = {} /\ \A s \in Sessions : wanted'[s] \subseteq {d1}
TwoSessions == deleting' = NoDelete /\ lastId' <= 1 /\ pc'[s3] = "new"

MCNext ==
    \/ mode = "hub" /\ Next /\ OnePhone /\ UNCHANGED <<mode, senderVars, keeperVars>>
    \/ mode = "plug" /\ Next /\ TwoSessions /\ UNCHANGED <<mode, senderVars, keeperVars>>
    \/ mode = "send" /\ Send!Next /\ UNCHANGED <<mode, vars, keeperVars>>
    \/ mode = "keep" /\ Keep!Next /\ UNCHANGED <<mode, vars, senderVars>>

MCSpec == MCInit /\ [][MCNext]_mcVars /\ Send!Fairness /\ Keep!Fairness

-----------------------------------------------------------------------------
(* AgentHub: the agent is offline when its last session has ended, though sending  *)
(* may have failed (REMOTE_DEVICE_AGENT.md:58).                                  *)
BrokenIsOffline ==
    (\A s \in Sessions : pc[s] \in {"new", "ended"}) => entry = None /\ ~agent.online

(* AgentSender: counters, queues and turns of tunnel connections agree; and each   *)
(* module keeps its types.                                                       *)
QueuesAccounted ==
    /\ Send!QueuesAccounted /\ TypeOK
    /\ mode = "send" => Send!TypeOK
    /\ mode = "keep" => Keep!TypeOK

(* AgentSender: one chunk of another connection at most before one's turn. *)
NoMonopoly == Send!NoMonopoly

(* AgentSender: whoever sleeps is owed a notification. *)
SleepersAreOwed == Send!SleepersAreOwed

(* AgentSender: a reader that waits for room goes on. *)
BlockedReaderGoesOn == Send!BlockedReaderGoesOn

(* AdbKeeper: adb converges to the tunnels that stay. *)
AdbConverges == mode = "keep" => Keep!AdbConverges

=============================================================================
