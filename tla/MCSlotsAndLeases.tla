--------------------------- MODULE MCSlotsAndLeases ---------------------------
(***************************************************************************)
(* Who waits for a slot and gets on, and who occupies a device.  A behaviour    *)
(* (mode) is one of                                                             *)
(*   "slots"  - three requests at the limiter itself (ExecutionLimiter);        *)
(*   "leases" - a lease, a Fastbot task, a queued run and an install on one     *)
(*              device, with crashes of the server (DeviceLease);               *)
(*   "row"    - a Fastbot task and a WebSocket run on that device, with the     *)
(*              operations that write its row: sweep, unlock, reboot.           *)
(* Whoever has not the turn rests.                                              *)
(***************************************************************************)
EXTENDS MCDeviceLease

CONSTANTS w1, w2, w3

VARIABLES mode, demand, state, queue, slots, call, lease, signals

limiterVars == <<demand, state, queue, slots, call, lease, signals>>

Limiter == INSTANCE ExecutionLimiter WITH Waiters <- {w1, w2, w3}, NoUser <- NoRun

MixInit ==
    /\ mode \in {"slots", "leases", "row"} /\ Init /\ Limiter!Init
    /\ mode # "slots" => \A w \in {w1, w2, w3} : demand[w].device = NoDevice

\* The runs of the mode "row".
AtTheRow == FastbotRuns \cup Streams

MixNext ==
    \/ mode = "slots" /\ Limiter!Next /\ UNCHANGED <<mode, vars>>
    \/ /\ mode = "leases" /\ Next
       /\ disturbed' = disturbed /\ sweep' = sweep /\ unlock' = unlock
       /\ UNCHANGED <<mode, limiterVars>>
    \/ /\ mode = "row" /\ Next
       /\ \A r \in Runs : pc'[r] # "dead" /\ (r \notin AtTheRow => pc'[r] = "idle")
       /\ UNCHANGED <<mode, limiterVars>>

MixSpec ==
    MixInit /\ [][MixNext]_<<mode, vars, limiterVars>> /\ Fairness /\ Limiter!Fairness

-----------------------------------------------------------------------------
(* The thread of a request that was granted a slot takes or returns it; and an        *)
(* aborted or timed out one leaves the queue, though no task need end.               *)
WaitersHear == Limiter!GrantedIsTaken /\ Limiter!SignalledLeaves

(* If tasks end, every run and every request ends: nobody waits for ever.             *)
EverybodyEnds == EveryRunEnds /\ Limiter!EveryRequestEnds
=============================================================================
