--------------------------- MODULE SlotAllocator ---------------------------
(***************************************************************************)
(* What backend/execution_limiter.py promises its callers, with no lock,   *)
(* no waiting thread, no counter and no lease object: requests become      *)
(* pending, pending requests become holders of an execution slot, and      *)
(* after every change the slots are topped up.  The three limits of the    *)
(* module's documentation (lines 4-7) hold at all times, no request is     *)
(* left pending while it fits, and requests with the same demand are       *)
(* served in the order of their arrival.  How a top-up chooses among       *)
(* requests with different demands is left open.                           *)
(***************************************************************************)
EXTENDS Integers, FiniteSets

CONSTANTS
    Waiters,     \* the requests
    Users,       \* the users that make them
    Devices,     \* the devices they name
    NoDevice,    \* a request that needs no device
    MaxGlobal,   \* slots in all
    MaxPerUser   \* slots of one user

VARIABLES
    demand,      \* demand[w]: the user and the device of request w
    pending,     \* pending[w]: arrival number of w, 0 when w is not pending
    holders      \* the requests that occupy a slot

vars == <<demand, pending, holders>>

Demands == [user : Users, device : Devices \cup {NoDevice}]

Pending(p) == {w \in Waiters : p[w] > 0}

\* The three limits: in all, for one user, for one device.
LimitsRespected(h) ==
    /\ Cardinality(h) <= MaxGlobal
    /\ \A u \in Users : Cardinality({w \in h : demand[w].user = u}) <= MaxPerUser
    /\ \A v, w \in h :
          v # w => \/ demand[v].device = NoDevice
                   \/ demand[v].device # demand[w].device

\* Whatever w asks for, v asks for no more: w cannot fit where v does not.
AsksNoMore(v, w) ==
    /\ demand[v].user = demand[w].user
    /\ demand[v].device \in {NoDevice, demand[w].device}

\* The slots are topped up from the pending requests p.
TopUp(p, h) ==
    \E granted \in SUBSET Pending(p) :
        /\ LimitsRespected(h \cup granted)
        /\ \A w \in Pending(p) \ granted : ~LimitsRespected(h \cup granted \cup {w})
        /\ \A w \in granted, v \in Pending(p) :
              p[v] < p[w] /\ AsksNoMore(v, w) => v \in granted
        /\ holders' = h \cup granted
        /\ pending' = [w \in Waiters |-> IF w \in granted THEN 0 ELSE p[w]]

Init ==
    /\ demand \in [Waiters -> Demands]
    /\ pending = [w \in Waiters |-> 0]
    /\ holders = {}

\* A request arrives behind every pending one.
Request(w) ==
    /\ w \notin Pending(pending) \cup holders
    /\ \E n \in 1..Cardinality(Waiters) :
          /\ \A v \in Waiters : pending[v] < n
          /\ TopUp([pending EXCEPT ![w] = n], holders)
    /\ demand' = demand

\* A pending request is withdrawn: cancelled, aborted or out of time.
Withdraw(w) ==
    /\ w \in Pending(pending)
    /\ pending' = [pending EXCEPT ![w] = 0]
    /\ UNCHANGED holders
    /\ demand' = demand

\* A slot is given back and handed on in the same step.
GiveBack(w) ==
    /\ w \in holders
    /\ TopUp(pending, holders \ {w})
    /\ demand' = demand

Next == \E w \in Waiters : Request(w) \/ Withdraw(w) \/ GiveBack(w)

Spec == Init /\ [][Next]_vars
=============================================================================
