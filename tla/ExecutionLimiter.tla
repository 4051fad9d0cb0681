-------------------------- MODULE ExecutionLimiter --------------------------
(***************************************************************************)
(* backend/execution_limiter.py: the limiter that hands out execution      *)
(* slots, with its FIFO queue, its tickets and its leases.                 *)
(*                                                                         *)
(* One Condition protects the queue and the counters, so each critical     *)
(* section is one action here.  Every request has a thread of its own      *)
(* (call[w] says where it stands); any other thread may cancel its ticket, *)
(* set its abort event or release its lease at any moment.  What is done   *)
(* outside the lock is a step of its own: storing the lease in the ticket  *)
(* (line 151) and the first half of ExecutionLease.release (lines 91-94).  *)
(***************************************************************************)
EXTENDS Integers, FiniteSets

CONSTANTS
    Waiters,     \* the _Waiter objects: one for each call of enqueue
    Users,       \* user ids
    Devices,     \* device serials
    NoDevice,    \* device_serial = None
    NoUser,      \* no owner
    MaxGlobal,   \* max_global
    MaxPerUser   \* max_concurrent_per_user

\* _limit_from_env refuses a limit that is not positive (lines 597-608).
ASSUME LimiterAssumption ==
    /\ IsFiniteSet(Waiters)
    /\ NoDevice \notin Devices
    /\ NoUser \notin Users
    /\ MaxGlobal \in Nat \ {0}
    /\ MaxPerUser \in Nat \ {0}

VARIABLES
    demand,   \* demand[w]: user_id and device_serial, fixed by _Waiter.__init__
    state,    \* state[w]: _Waiter.state, "NEW" before the object exists
    queue,    \* _queue: queue[w] is the arrival number of w, 0 when w is not in it
    slots,    \* _active_count, _active_users and _device_owners
    call,     \* call[w]: where the thread that made request w stands
    lease,    \* lease[w]: the ExecutionLease of w
    signals   \* signals[w]: what may end the wait of w: its abort event, its deadline

vars == <<demand, state, queue, slots, call, lease, signals>>

Demands == [user : Users, device : Devices \cup {NoDevice}]

WaiterStates == {"NEW", "WAITING", "GRANTED", "CLAIMED", "CANCELLED"}

\* "ticket": holds a ticket without lease, wait() not called yet;
\* "checking", "parked": in _wait_for_grant, about to test / in cond.wait;
\* "claimed": has the lease, ticket.lease not assigned yet;
\* "leased": runs its task; "done" / "failed": through with the limiter.
Calls == {"idle", "ticket", "checking", "parked", "claimed", "leased", "done", "failed"}

LeaseStates == {"none", "live", "releasing", "released"}

Signals == {"abort", "deadline"}

TypeOK ==
    /\ demand \in [Waiters -> Demands]
    /\ state \in [Waiters -> WaiterStates]
    /\ queue \in [Waiters -> Nat]
    /\ slots \in [count : Nat, users : [Users -> Nat],
                  owners : [Devices -> Users \cup {NoUser}]]
    /\ call \in [Waiters -> Calls]
    /\ lease \in [Waiters -> LeaseStates]
    /\ signals \in [Waiters -> SUBSET Signals]

Init ==
    /\ demand \in [Waiters -> Demands]
    /\ state = [w \in Waiters |-> "NEW"]
    /\ queue = [w \in Waiters |-> 0]
    /\ slots = [count |-> 0, users |-> [u \in Users |-> 0],
                owners |-> [d \in Devices |-> NoUser]]
    /\ call = [w \in Waiters |-> "idle"]
    /\ lease = [w \in Waiters |-> "none"]
    /\ signals = [w \in Waiters |-> {}]

-----------------------------------------------------------------------------
(* The counters and the scan of the queue.                                 *)

\* Faulty variants: definitions named after the one they precede, each with one
\* plausible slip.  No specification uses them; they show what the properties catch.
CanAdmitOneTooMany(s, w) ==
    /\ s.count <= MaxGlobal
    /\ s.users[demand[w].user] < MaxPerUser
    /\ demand[w].device # NoDevice => s.owners[demand[w].device] = NoUser

\* _can_admit_locked
CanAdmit(s, w) ==
    /\ s.count < MaxGlobal
    /\ s.users[demand[w].user] < MaxPerUser
    /\ demand[w].device # NoDevice => s.owners[demand[w].device] = NoUser

\* _admit_locked for every request of ws
Admit(s, ws) ==
    [count  |-> s.count + Cardinality(ws),
     users  |-> [u \in Users |->
                   s.users[u] + Cardinality({w \in ws : demand[w].user = u})],
     owners |-> [d \in Devices |->
                   IF \E w \in ws : demand[w].device = d
                   THEN demand[CHOOSE w \in ws : demand[w].device = d].user
                   ELSE s.owners[d]]]

\* _release_counts_locked; the user's entry disappears at 0, the count stays >= 0
ReleaseCounts(s, w) ==
    [count  |-> IF s.count > 0 THEN s.count - 1 ELSE 0,
     users  |-> [s.users EXCEPT ![demand[w].user] = IF @ > 0 THEN @ - 1 ELSE 0],
     owners |-> [d \in Devices |-> IF d = demand[w].device THEN NoUser ELSE s.owners[d]]]

\* The requests that the scan of queue q considers.
Waiting(q, st) == {w \in Waiters : q[w] > 0 /\ st[w] = "WAITING"}

\* The scan runs from the newest request to the oldest.
ScanGrantsNewestFirst(s, q, st, ws) ==
    /\ ws \subseteq Waiting(q, st)
    /\ \A w \in Waiting(q, st) :
          w \in ws <=> CanAdmit(Admit(s, {v \in ws : q[v] > q[w]}), w)

\* _grant_ready_locked: the scan admits the requests ws and no other.  Each one
\* is judged on the slots left by those the scan has admitted before it.
ScanGrants(s, q, st, ws) ==
    /\ ws \subseteq Waiting(q, st)
    /\ \A w \in Waiting(q, st) :
          w \in ws <=> CanAdmit(Admit(s, {v \in ws : q[v] < q[w]}), w)

\* The requests that the scan passed over keep their place, all others leave.
Remaining(q, st, ws) ==
    [w \in Waiters |-> IF w \in Waiting(q, st) \ ws THEN q[w] ELSE 0]

Granted(st, ws) == [w \in Waiters |-> IF w \in ws THEN "GRANTED" ELSE st[w]]

\* The notification is forgotten.
WakeNobody(c) == c

\* notify_all
WakeAll(c) == [w \in Waiters |-> IF c[w] = "parked" THEN "checking" ELSE c[w]]

-----------------------------------------------------------------------------
(* Requests.                                                               *)

\* enqueue: append, scan, and claim at once what the scan granted.
Enqueue(w) ==
    /\ call[w] = "idle"
    /\ LET arrivals == Cardinality({v \in Waiters : state[v] # "NEW"})
           q  == [queue EXCEPT ![w] = arrivals + 1]
           st == [state EXCEPT ![w] = "WAITING"]
       IN  \E ws \in SUBSET Waiting(q, st) :
              /\ ScanGrants(slots, q, st, ws)
              /\ slots' = Admit(slots, ws)
              /\ queue' = Remaining(q, st, ws)
              /\ LET c == IF ws = {} THEN call ELSE WakeAll(call)
                 IN  IF w \in ws
                     THEN /\ state' = [Granted(st, ws) EXCEPT ![w] = "CLAIMED"]
                          /\ lease' = [lease EXCEPT ![w] = "live"]
                          /\ call' = [c EXCEPT ![w] = "leased"]
                     ELSE /\ state' = Granted(st, ws)
                          /\ call' = [c EXCEPT ![w] = "ticket"]
                          /\ UNCHANGED lease
    /\ UNCHANGED <<demand, signals>>

\* ExecutionTicket.wait enters _wait_for_grant.
StartWait(w) ==
    /\ call[w] = "ticket"
    /\ call' = [call EXCEPT ![w] = "checking"]
    /\ UNCHANGED <<demand, state, queue, slots, lease, signals>>

\* _wait_for_grant, first test: a granted slot is claimed, whatever the
\* abort event and the clock say.
Claim(w) ==
    /\ call[w] = "checking"
    /\ state[w] = "GRANTED"
    /\ state' = [state EXCEPT ![w] = "CLAIMED"]
    /\ lease' = [lease EXCEPT ![w] = "live"]
    /\ call' = [call EXCEPT ![w] = "claimed"]
    /\ UNCHANGED <<demand, queue, slots, signals>>

\* _wait_for_grant, second test: somebody cancelled the ticket.
ObserveCancelled(w) ==
    /\ call[w] = "checking"
    /\ state[w] = "CANCELLED"
    /\ call' = [call EXCEPT ![w] = "failed"]
    /\ UNCHANGED <<demand, state, queue, slots, lease, signals>>

\* _wait_for_grant, third and fourth test: abort event set, or out of time.
LeaveQueue(w) ==
    /\ call[w] = "checking"
    /\ state[w] = "WAITING"
    /\ signals[w] # {}
    /\ state' = [state EXCEPT ![w] = "CANCELLED"]
    /\ queue' = [queue EXCEPT ![w] = 0]
    /\ call' = [call EXCEPT ![w] = "failed"]
    /\ UNCHANGED <<demand, slots, lease, signals>>

\* Nothing to do yet: cond.wait.
Park(w) ==
    /\ call[w] = "checking"
    /\ state[w] = "WAITING"
    /\ signals[w] = {}
    /\ call' = [call EXCEPT ![w] = "parked"]
    /\ UNCHANGED <<demand, state, queue, slots, lease, signals>>

\* The wait does not poll its abort event.
WakeAtDeadline(w) ==
    /\ call[w] = "parked"
    /\ "deadline" \in signals[w]
    /\ call' = [call EXCEPT ![w] = "checking"]
    /\ UNCHANGED <<demand, state, queue, slots, lease, signals>>

\* cond.wait returns by itself: the poll finds the abort event, or the time is
\* up.  (A poll that finds neither parks again and changes nothing.)
Wake(w) ==
    /\ call[w] = "parked"
    /\ signals[w] # {}
    /\ call' = [call EXCEPT ![w] = "checking"]
    /\ UNCHANGED <<demand, state, queue, slots, lease, signals>>

\* ExecutionTicket.wait stores the lease, after the lock was given up.
StoreLease(w) ==
    /\ call[w] = "claimed"
    /\ call' = [call EXCEPT ![w] = "leased"]
    /\ UNCHANGED <<demand, state, queue, slots, lease, signals>>

\* A run is cancelled (abort_event.set), or the deadline of the wait passes.
RaiseAbort(w) ==
    /\ call[w] \in {"ticket", "checking", "parked"}
    /\ signals' = [signals EXCEPT ![w] = @ \cup {"abort"}]
    /\ UNCHANGED <<demand, state, queue, slots, call, lease>>

PassDeadline(w) ==
    /\ call[w] \in {"checking", "parked"}
    /\ signals' = [signals EXCEPT ![w] = @ \cup {"deadline"}]
    /\ UNCHANGED <<demand, state, queue, slots, call, lease>>

-----------------------------------------------------------------------------
(* Cancelling a ticket, releasing a lease.                                 *)

\* A granted request is cancelled without giving its slot back.
CancelWaiterLeaks(w, c) ==
    /\ call' = WakeAll(c)
    /\ IF state[w] \in {"WAITING", "GRANTED"}
       THEN /\ state' = [state EXCEPT ![w] = "CANCELLED"]
            /\ queue' = [queue EXCEPT ![w] = 0]
       ELSE UNCHANGED <<state, queue>>
    /\ UNCHANGED <<demand, slots, lease, signals>>

\* A request claimed a moment ago is treated like one only granted.
CancelWaiterTakesClaimed(w, c) ==
    /\ call' = WakeAll(c)
    /\ IF state[w] = "CLAIMED"
       THEN /\ state' = [state EXCEPT ![w] = "CANCELLED"]
            /\ slots' = ReleaseCounts(slots, w)
       ELSE UNCHANGED <<state, slots>>
    /\ UNCHANGED <<demand, queue, lease, signals>>

\* _cancel_waiter / _remove_waiter_locked, called by a thread that leaves the
\* threads' positions as in c: a waiting request leaves the queue, a granted one
\* gives its slot to others, a claimed one is left alone.
CancelWaiter(w, c) ==
    /\ call' = WakeAll(c)
    /\ \/ /\ state[w] = "WAITING"
          /\ state' = [state EXCEPT ![w] = "CANCELLED"]
          /\ queue' = [queue EXCEPT ![w] = 0]
          /\ UNCHANGED slots
       \/ /\ state[w] = "GRANTED"
          /\ LET s  == ReleaseCounts(slots, w)
                 st == [state EXCEPT ![w] = "CANCELLED"]
             IN  \E ws \in SUBSET Waiting(queue, st) :
                    /\ ScanGrants(s, queue, st, ws)
                    /\ slots' = Admit(s, ws)
                    /\ queue' = Remaining(queue, st, ws)
                    /\ state' = Granted(st, ws)
       \/ /\ state[w] \in {"CLAIMED", "CANCELLED"}
          /\ UNCHANGED <<state, queue, slots>>
    /\ UNCHANGED <<demand, lease, signals>>

\* The requester gives its ticket up instead of waiting (acquire_lease without
\* timeout, or a run that was cancelled before it began to wait).
Abandon(w) ==
    /\ call[w] = "ticket"
    /\ CancelWaiter(w, [call EXCEPT ![w] = "failed"])

\* Another thread calls ticket.cancel() while ticket.lease is still None.
CancelTicket(w) ==
    /\ call[w] \in {"ticket", "checking", "parked", "claimed"}
    /\ CancelWaiter(w, call)

\* ExecutionLease.release, under _release_lock: only the first call goes on.
BeginRelease(w, c) ==
    /\ lease' = [lease EXCEPT ![w] = IF @ = "live" THEN "releasing" ELSE @]
    /\ call' = c
    /\ UNCHANGED <<demand, state, queue, slots, signals>>

\* The requester's task has ended; it releases its lease and is done.
ReleaseByRequester(w) ==
    /\ call[w] = "leased"
    /\ BeginRelease(w, [call EXCEPT ![w] = "done"])

\* ticket.cancel() of another thread once ticket.lease is set.
ReleaseByOther(w) ==
    /\ call[w] = "leased"
    /\ lease[w] = "live"
    /\ BeginRelease(w, call)

\* The slot is given back, and nobody looks at the queue.
FinishReleaseNoScan(w) ==
    /\ lease[w] = "releasing"
    /\ lease' = [lease EXCEPT ![w] = "released"]
    /\ slots' = ReleaseCounts(slots, w)
    /\ call' = WakeAll(call)
    /\ UNCHANGED <<demand, state, queue, signals>>

\* _release_lease: give the slot back, hand it on, wake everybody.
FinishRelease(w) ==
    /\ lease[w] = "releasing"
    /\ lease' = [lease EXCEPT ![w] = "released"]
    /\ LET s == ReleaseCounts(slots, w)
       IN  \E ws \in SUBSET Waiting(queue, state) :
              /\ ScanGrants(s, queue, state, ws)
              /\ slots' = Admit(s, ws)
              /\ queue' = Remaining(queue, state, ws)
              /\ state' = Granted(state, ws)
    /\ call' = WakeAll(call)
    /\ UNCHANGED <<demand, signals>>

-----------------------------------------------------------------------------
\* What a thread inside the limiter does on its own.
Internal(w) ==
    \/ Claim(w) \/ ObserveCancelled(w) \/ LeaveQueue(w)
    \/ Park(w) \/ Wake(w) \/ StoreLease(w) \/ FinishRelease(w)

Next ==
    \E w \in Waiters :
        \/ Enqueue(w) \/ StartWait(w) \/ Abandon(w)
        \/ Internal(w)
        \/ RaiseAbort(w) \/ PassDeadline(w)
        \/ CancelTicket(w) \/ ReleaseByRequester(w) \/ ReleaseByOther(w)

Spec == Init /\ [][Next]_vars

\* Threads that can run do run, and a holder of a ticket waits or gives it up;
\* nothing is assumed about how long a task holds its lease.
Fairness ==
    \A w \in Waiters : WF_vars(Internal(w)) /\ WF_vars(StartWait(w) \/ Abandon(w))

FairSpec == Spec /\ Fairness

-----------------------------------------------------------------------------
(* Properties.                                                             *)

\* The requests that occupy a slot: granted and not taken yet, or claimed by a
\* lease whose release has not reached the counters.
Holders ==
    {w \in Waiters : \/ state[w] = "GRANTED"
                     \/ state[w] = "CLAIMED" /\ lease[w] \in {"live", "releasing"}}

HoldersOf(u) == {w \in Holders : demand[w].user = u}

\* The counters are exactly what the tickets and leases account for: no path
\* through cancel, abort, timeout and (double) release leaks a slot or frees
\* one twice.  With the types of the variables.
SlotAccounting ==
    /\ TypeOK
    /\ slots.count = Cardinality(Holders)
    /\ \A u \in Users : slots.users[u] = Cardinality(HoldersOf(u))
    /\ \A d \in Devices :
          slots.owners[d] = NoUser <=> \A w \in Holders : demand[w].device # d

\* The documented limits hold for the real holders, and a device has one holder
\* at a time, the one its owner entry names.
SlotLimits ==
    /\ Cardinality(Holders) <= MaxGlobal
    /\ \A u \in Users : Cardinality(HoldersOf(u)) <= MaxPerUser
    /\ \A v, w \in Holders :
          demand[v].device = demand[w].device /\ demand[v].device # NoDevice => v = w
    /\ \A w \in Holders :
          demand[w].device # NoDevice => slots.owners[demand[w].device] = demand[w].user

\* Between two critical sections no queued request could be admitted: whatever
\* frees a slot also hands it on, and a request that leaves the queue frees none.
WorkConserving ==
    /\ \A w \in Waiters : state[w] = "WAITING" <=> queue[w] > 0
    /\ \A w \in Waiters : queue[w] > 0 => ~CanAdmit(slots, w)

\* A thread sleeps in cond.wait only while its request is undecided: a grant or
\* a cancellation made by another thread always comes with a notification.
NoLostWakeup == \A w \in Waiters : call[w] = "parked" => state[w] = "WAITING"

\* A cancelled or timed-out request is never granted again, and what a
\* requester was told (failed) is what the counters say.
FailedHoldsNothing ==
    \A w \in Waiters : call[w] = "failed" => w \notin Holders /\ queue[w] = 0

\* Once a slot was claimed only the release of its own lease gives it back:
\* cancelling another request or releasing another lease never takes it away.
ClaimedUntilReleased ==
    [][\A w \in Waiters :
          lease[w] = "live" /\ w \in Holders =>
             w \in Holders' \/ lease'[w] = "released"]_vars

\* No step takes a claimed slot away but the release of its own lease, nor leaves
\* a slot or a place in the queue to a request whose caller was told it failed:
\* ClaimedUntilReleased and FailedHoldsNothing in one.
OwnedOrNothing ==
    [][/\ FailedHoldsNothing'
       /\ \A w \in Waiters :
             lease[w] = "live" /\ w \in Holders => w \in Holders' \/ lease'[w] = "released"]_vars

\* A thread in the limiter whose slot was granted picks it up (or somebody
\* cancels it), and an aborted or expired request leaves the queue, even if no
\* running task ever ends.
GrantedIsTaken == \A w \in Waiters : state[w] = "GRANTED" ~> state[w] # "GRANTED"
SignalledLeaves ==
    \A w \in Waiters : state[w] = "WAITING" /\ signals[w] # {} ~> state[w] # "WAITING"

\* When every task ends and releases its lease (the callers do so in a finally
\* clause or a with statement), every request ends: with its task run or with an
\* error.
EveryRequestEnds ==
    (\A w \in Waiters : []<>(call[w] # "leased")) =>
        \A w \in Waiters : call[w] = "ticket" ~> call[w] \in {"done", "failed"}

\* _grant_ready_locked's documentation (lines 268-269): competition for the same
\* resource is strictly first come, first served.  For a device this says that
\* a device is not granted past an earlier request for the same device.
DeviceFirstComeFirstServed ==
    [][\A w, v \in Waiters :
          /\ w \notin Holders /\ w \in Holders'
          /\ demand[w].device # NoDevice /\ demand[v].device = demand[w].device
          /\ queue[v] > 0 /\ (queue[w] = 0 \/ queue[v] < queue[w])
          => state'[v] # "WAITING"]_vars

\* The limiter implements the abstract allocator.
Allocator == INSTANCE SlotAllocator WITH pending <- queue, holders <- Holders
AllocatorSpec == Allocator!Spec
=============================================================================
