---------------------------- MODULE DeviceLease ----------------------------
(***************************************************************************)
(* Who occupies a device: the device row of the database (status and       *)
(* lease_task_id), the slot of the execution limiter and Fastbot's process *)
(* lock, as they are taken and given back by                               *)
(*   - LeasedRuns: backend/device_execution_lease.py, used by inspections, *)
(*     compatibility cells and Fastbot tasks (FastbotRuns);                *)
(*   - PlainRuns: queued case and scenario runs, which hold a slot only;   *)
(*   - Installs: package installation, which refuses to wait for a slot;   *)
(*   - Streams: WebSocket runs, which take no slot at all;                 *)
(* and as they are overwritten by the operations on the device itself: the *)
(* adb sweep of the device list, unlock, reboot, and a crash of the server *)
(* process, which only the row survives.  Devices are Android devices.     *)
(*                                                                         *)
(* The limiter is used through its abstract specification SlotAllocator.   *)
(***************************************************************************)
EXTENDS Integers, FiniteSets

CONSTANTS
    LeasedRuns, FastbotRuns, PlainRuns, Installs, Streams,
    Devices,
    DeviceOf,    \* DeviceOf[r]: the device of run r
    UserOf,      \* UserOf[r]: the user that run r is counted for
    Users,
    NoRun,       \* lease_task_id = None, serial not in _device_locks
    NoDevice,
    MaxGlobal, MaxPerUser,
    Operations   \* the operations on devices that may happen: a subset of
                 \* {"sweep", "unlock", "reboot", "crash"}

LimiterRuns == LeasedRuns \cup PlainRuns \cup Installs
Runs == LimiterRuns \cup Streams

ASSUME LeaseAssumption ==
    /\ FastbotRuns \subseteq LeasedRuns
    /\ LeasedRuns \cap (PlainRuns \cup Installs) = {} /\ PlainRuns \cap Installs = {}
    /\ LimiterRuns \cap Streams = {} /\ IsFiniteSet(LimiterRuns)
    /\ NoRun \notin Runs
    /\ NoDevice \notin Devices
    /\ DeviceOf \in [Runs -> Devices]
    /\ UserOf \in [Runs -> Users]

VARIABLES
    status,       \* status[d]: Device.status
    owner,        \* owner[d]: Device.lease_task_id
    fastbotLock,  \* _device_locks of api/fastbot.py
    pending,      \* the limiter: the queue
    holders,      \* the limiter: the runs that hold a slot
    pc,           \* pc[r]: where run r stands
    sweep,        \* sweep[d]: the status a running adb sweep has read, or "none"
    unlock,       \* unlock[d]: the unlock request under way: the status it has
                  \* read, or "none", and whether Fastbot's lock is removed yet
    disturbed     \* history, read by no action: the devices whose status somebody
                  \* who did not ask the limiter has written

vars == <<status, owner, disturbed, fastbotLock, pending, holders, pc, sweep, unlock>>

Statuses == {"IDLE", "BUSY", "OFFLINE"}

\* "checked": an install or Fastbot request that has passed its first test;
\* "locked": Fastbot's lock set; "queued": in the limiter; "slot": holds a slot;
\* "cleared": has a slot and passed the last test before it takes the row;
\* "holding": runs and owns the row; "running": runs, the row says BUSY only;
\* "restoring": found the row BUSY, has to write IDLE; "released": row dealt
\* with; "failing", "refused": did not get the row; "unlocking": slot given back, Fastbot's
\* lock still to be removed; "dead": lost in a crash.
PCs == {"idle", "checked", "locked", "queued", "slot", "cleared", "holding", "running",
        "restoring", "released", "failing", "refused", "unlocking", "done", "dead"}

TypeOK ==
    /\ status \in [Devices -> Statuses]
    /\ owner \in [Devices -> LeasedRuns \cup {NoRun}]
    /\ fastbotLock \in [Devices -> FastbotRuns \cup {NoRun}]
    /\ pending \in [LimiterRuns -> Nat]
    /\ holders \subseteq LimiterRuns
    /\ pc \in [Runs -> PCs]
    /\ sweep \in [Devices -> Statuses \cup {"none"}]
    /\ unlock \in [Devices -> [read : Statuses \cup {"none"}, lockGone : BOOLEAN]]
    /\ disturbed \subseteq Devices

Demand == [r \in LimiterRuns |-> [user |-> UserOf[r], device |-> DeviceOf[r]]]

Slots == INSTANCE SlotAllocator WITH Waiters <- LimiterRuns, demand <- Demand

NoUnlock == [read |-> "none", lockGone |-> FALSE]

Init ==
    /\ status = [d \in Devices |-> "IDLE"]
    /\ owner = [d \in Devices |-> NoRun]
    /\ fastbotLock = [d \in Devices |-> NoRun]
    /\ Slots!Init
    /\ pc = [r \in Runs |-> "idle"]
    /\ sweep = [d \in Devices |-> "none"]
    /\ unlock = [d \in Devices |-> NoUnlock]
    /\ disturbed = {}

Goto(r, place) == pc' = [pc EXCEPT ![r] = place]

SetStatus(d, s) == status' = [status EXCEPT ![d] = s] /\ UNCHANGED disturbed

\* The same by somebody who did not ask the limiter.
Overwrite(d, s) == /\ status' = [status EXCEPT ![d] = s]
                   /\ disturbed' = disturbed \cup {d}

slotVars == <<pending, holders>>
rowVars == <<status, owner, disturbed>>
requestVars == <<sweep, unlock>>

-----------------------------------------------------------------------------
(* Before the limiter: what the request handlers look at.                  *)

\* Fastbot's create handlers test the lock and the row, then await adb.
FastbotPrecheck(r) ==
    /\ r \in FastbotRuns /\ pc[r] = "idle"
    /\ fastbotLock[DeviceOf[r]] = NoRun
    /\ status[DeviceOf[r]] = "IDLE" /\ owner[DeviceOf[r]] = NoRun
    /\ Goto(r, "checked")
    /\ UNCHANGED <<rowVars, fastbotLock, slotVars, requestVars>>

\* _lock_device: the lock is set whoever has it by now.
FastbotLock(r) ==
    /\ r \in FastbotRuns /\ pc[r] = "checked"
    /\ fastbotLock' = [fastbotLock EXCEPT ![DeviceOf[r]] = r]
    /\ Goto(r, "locked")
    /\ UNCHANGED <<rowVars, slotVars, requestVars>>

\* install_package_on_device: only an idle device is accepted.
InstallPrecheck(r) ==
    /\ r \in Installs /\ pc[r] = "idle"
    /\ status[DeviceOf[r]] = "IDLE"
    /\ Goto(r, "checked")
    /\ UNCHANGED <<rowVars, fastbotLock, slotVars, requestVars>>

-----------------------------------------------------------------------------
(* The limiter.                                                            *)

MayEnqueue(r) ==
    \/ r \in PlainRuns \cup (LeasedRuns \ FastbotRuns) /\ pc[r] = "idle"
    \/ r \in FastbotRuns /\ pc[r] = "locked"
    \/ r \in Installs /\ pc[r] = "checked"

\* Faulty variants, as in ExecutionLimiter: EnqueueUngranted, FailLeaks and the
\* like stand before the definition they vary and are used by no specification.
\* The result of the enqueue is ignored: everybody goes on as if granted.
EnqueueUngranted(r) ==
    /\ MayEnqueue(r)
    /\ Slots!Request(r)
    /\ Goto(r, "slot")
    /\ UNCHANGED <<rowVars, fastbotLock, requestVars>>

\* limiter.enqueue: either the slot is there at once or the run waits.
Enqueue(r) ==
    /\ MayEnqueue(r)
    /\ Slots!Request(r)
    /\ Goto(r, IF r \in holders' THEN "slot" ELSE "queued")
    /\ UNCHANGED <<rowVars, fastbotLock, requestVars>>

\* ticket.wait returns the lease.  An install does not wait.
TakeSlot(r) ==
    /\ pc[r] = "queued" /\ r \in holders /\ r \notin Installs
    /\ Goto(r, "slot")
    /\ UNCHANGED <<rowVars, fastbotLock, slotVars, requestVars>>

After(r) == IF r \in FastbotRuns THEN "unlocking" ELSE "done"

\* The wait ends without a slot: timeout, abort, or the install that does not
\* wait, whose ticket.cancel gives back a slot granted meanwhile.
GiveUp(r) ==
    /\ pc[r] = "queued"
    /\ \/ Slots!Withdraw(r)
       \/ r \in Installs /\ Slots!GiveBack(r)
    /\ Goto(r, After(r))
    /\ UNCHANGED <<rowVars, fastbotLock, requestVars>>

-----------------------------------------------------------------------------
(* DeviceExecutionLease.                                                   *)

\* acquire, with the slot: legacy_fastbot_device_locked.
CheckFastbotLock(r) ==
    /\ r \in LeasedRuns \ FastbotRuns /\ pc[r] = "slot"
    /\ Goto(r, IF fastbotLock[DeviceOf[r]] = NoRun THEN "cleared" ELSE "failing")
    /\ UNCHANGED <<rowVars, fastbotLock, slotVars, requestVars>>

ReadyToClaim(r) ==
    \/ r \in LeasedRuns \ FastbotRuns /\ pc[r] = "cleared"
    \/ r \in FastbotRuns /\ pc[r] = "slot"

\* acquire, the conditional UPDATE: idle and unowned becomes busy and owned.
Claim(r) ==
    /\ ReadyToClaim(r)
    /\ status[DeviceOf[r]] = "IDLE" /\ owner[DeviceOf[r]] = NoRun
    /\ SetStatus(DeviceOf[r], "BUSY")
    /\ owner' = [owner EXCEPT ![DeviceOf[r]] = r]
    /\ Goto(r, "holding")
    /\ UNCHANGED <<fastbotLock, slotVars, requestVars>>

\* acquire, the UPDATE matched no row.
ClaimRefused(r) ==
    /\ ReadyToClaim(r)
    /\ status[DeviceOf[r]] # "IDLE" \/ owner[DeviceOf[r]] # NoRun
    /\ Goto(r, "failing")
    /\ UNCHANGED <<rowVars, fastbotLock, slotVars, requestVars>>

\* The error path does not release the limiter lease.
FailLeaks(r) ==
    /\ pc[r] = "failing"
    /\ Goto(r, After(r))
    /\ UNCHANGED <<rowVars, fastbotLock, slotVars, requestVars>>

\* The error path: the limiter lease is released.
Fail(r) ==
    /\ pc[r] = "failing"
    /\ Slots!GiveBack(r)
    /\ Goto(r, After(r))
    /\ UNCHANGED <<rowVars, fastbotLock, requestVars>>

\* Only a device that still looks busy is released.
ReleaseRowIfBusy(r) ==
    /\ pc[r] = "holding"
    /\ IF owner[DeviceOf[r]] = r /\ status[DeviceOf[r]] = "BUSY"
       THEN /\ SetStatus(DeviceOf[r], "IDLE")
            /\ owner' = [owner EXCEPT ![DeviceOf[r]] = NoRun]
       ELSE UNCHANGED rowVars
    /\ Goto(r, "released")
    /\ UNCHANGED <<fastbotLock, slotVars, requestVars>>

\* release, first half: the row becomes idle if this run still owns it,
\* whatever its status has become meanwhile.
ReleaseRow(r) ==
    /\ pc[r] = "holding"
    /\ IF owner[DeviceOf[r]] = r
       THEN /\ SetStatus(DeviceOf[r], "IDLE")
            /\ owner' = [owner EXCEPT ![DeviceOf[r]] = NoRun]
       ELSE UNCHANGED rowVars
    /\ Goto(r, "released")
    /\ UNCHANGED <<fastbotLock, slotVars, requestVars>>

\* _unlock_device: the lock is removed whoever has it.
FastbotUnlock(r) ==
    /\ pc[r] = "unlocking"
    /\ fastbotLock' = [fastbotLock EXCEPT ![DeviceOf[r]] = NoRun]
    /\ Goto(r, "done")
    /\ UNCHANGED <<rowVars, slotVars, requestVars>>

-----------------------------------------------------------------------------
(* Runs that do not own the row.                                           *)

\* install_package_on_device, with the slot: the row is read again.  Refused or
\* not, the finally clause follows, which restores a row that says BUSY.
InstallRecheck(r) ==
    /\ r \in Installs /\ pc[r] = "slot"
    /\ Goto(r, IF status[DeviceOf[r]] = "IDLE" THEN "cleared" ELSE "refused")
    /\ UNCHANGED <<rowVars, fastbotLock, slotVars, requestVars>>

\* status = BUSY, without a look at the row: a case or scenario run has its
\* slot, a WebSocket run needs none.
MarkBusy(r) ==
    /\ \/ r \in PlainRuns /\ pc[r] = "slot"
       \/ r \in Installs /\ pc[r] = "cleared"
       \/ r \in Streams /\ pc[r] = "idle"
    /\ IF r \in Streams THEN Overwrite(DeviceOf[r], "BUSY") ELSE SetStatus(DeviceOf[r], "BUSY")
    /\ Goto(r, "running")
    /\ UNCHANGED <<owner, fastbotLock, slotVars, requestVars>>

\* restore_device_status_after_execution reads the row ...
RestoreRead(r) ==
    /\ pc[r] \in {"running", "refused"}
    /\ Goto(r, IF status[DeviceOf[r]] = "BUSY" THEN "restoring" ELSE "released")
    /\ UNCHANGED <<rowVars, fastbotLock, slotVars, requestVars>>

\* ... and writes IDLE if it was busy; the lease owner is not looked at.
RestoreWrite(r) ==
    /\ pc[r] = "restoring"
    /\ SetStatus(DeviceOf[r], "IDLE")
    /\ Goto(r, "released")
    /\ UNCHANGED <<owner, fastbotLock, slotVars, requestVars>>

\* The last step of all runs with a slot: ExecutionLease.release.
ReleaseSlot(r) ==
    /\ pc[r] = "released"
    /\ IF r \in Streams THEN UNCHANGED slotVars ELSE Slots!GiveBack(r)
    /\ Goto(r, After(r))
    /\ UNCHANGED <<rowVars, fastbotLock, requestVars>>

-----------------------------------------------------------------------------
(* Operations on the device.                                               *)

\* list_devices loads the rows, then awaits adb.
SweepRead(d) ==
    /\ "sweep" \in Operations /\ sweep[d] = "none"
    /\ sweep' = [sweep EXCEPT ![d] = status[d]]
    /\ UNCHANGED <<rowVars, fastbotLock, slotVars, pc, unlock>>

\* adb has answered: the device is on line, or it is not.
SweepOnline(d) ==
    /\ sweep[d] # "none"
    /\ IF sweep[d] = "OFFLINE" THEN Overwrite(d, "IDLE") ELSE UNCHANGED <<status, disturbed>>
    /\ sweep' = [sweep EXCEPT ![d] = "none"]
    /\ UNCHANGED <<owner, fastbotLock, slotVars, pc, unlock>>

SweepOffline(d) ==
    /\ sweep[d] # "none"
    /\ IF sweep[d] # "OFFLINE" THEN Overwrite(d, "OFFLINE") ELSE UNCHANGED <<status, disturbed>>
    /\ sweep' = [sweep EXCEPT ![d] = "none"]
    /\ UNCHANGED <<owner, fastbotLock, slotVars, pc, unlock>>

\* unlock_device reads the row and awaits the adb commands that kill processes;
\* that it also aborts the run on the device is seen from here as the end of
\* that run's task.
UnlockRead(d) ==
    /\ "unlock" \in Operations /\ unlock[d].read = "none"
    /\ unlock' = [unlock EXCEPT ![d].read = status[d]]
    /\ UNCHANGED <<rowVars, fastbotLock, slotVars, pc, sweep>>

UnlockFastbot(d) ==
    /\ unlock[d].read # "none" /\ ~unlock[d].lockGone
    /\ fastbotLock' = [fastbotLock EXCEPT ![d] = NoRun]
    /\ unlock' = [unlock EXCEPT ![d].lockGone = TRUE]
    /\ UNCHANGED <<rowVars, slotVars, pc, sweep>>

\* The status becomes IDLE; it is not written if it was read as IDLE.  The other
\* columns of the lease stay.
UnlockRow(d) ==
    /\ unlock[d].lockGone
    /\ IF unlock[d].read = "IDLE" THEN UNCHANGED <<status, disturbed>> ELSE Overwrite(d, "IDLE")
    /\ unlock' = [unlock EXCEPT ![d] = NoUnlock]
    /\ UNCHANGED <<owner, fastbotLock, slotVars, pc, sweep>>

\* reboot_device
Reboot(d) ==
    /\ "reboot" \in Operations
    /\ Overwrite(d, "OFFLINE")
    /\ UNCHANGED <<owner, fastbotLock, slotVars, pc, requestVars>>

\* The server process dies and is started again: the limiter and the locks are
\* new, on_startup leaves the device rows as they are.
Crash ==
    /\ "crash" \in Operations
    /\ pc' = [r \in Runs |-> IF pc[r] \in {"idle", "done"} THEN pc[r] ELSE "dead"]
    /\ pending' = [r \in LimiterRuns |-> 0]
    /\ holders' = {}
    /\ fastbotLock' = [d \in Devices |-> NoRun]
    /\ sweep' = [d \in Devices |-> "none"]
    /\ unlock' = [d \in Devices |-> NoUnlock]
    /\ UNCHANGED rowVars

-----------------------------------------------------------------------------
\* What a run does once it has been asked for; its own end is EndTask.
Advance(r) ==
    \/ FastbotLock(r) \/ Enqueue(r) \/ TakeSlot(r)
    \/ CheckFastbotLock(r) \/ Claim(r) \/ ClaimRefused(r) \/ Fail(r)
    \/ InstallRecheck(r) \/ MarkBusy(r)
    \/ RestoreWrite(r) \/ ReleaseSlot(r) \/ FastbotUnlock(r)

EndTask(r) == ReleaseRow(r) \/ RestoreRead(r)

Next ==
    \/ \E r \in Runs : \/ FastbotPrecheck(r) \/ InstallPrecheck(r)
                       \/ Advance(r) \/ GiveUp(r) \/ EndTask(r)
    \/ \E d \in Devices : \/ SweepRead(d) \/ SweepOnline(d) \/ SweepOffline(d)
                          \/ UnlockRead(d) \/ UnlockFastbot(d) \/ UnlockRow(d)
                          \/ Reboot(d)
    \/ Crash

Spec == Init /\ [][Next]_vars

\* The threads of the server run, and every task ends (by itself or aborted);
\* nothing is assumed of requests, of timeouts and of the devices.
Fairness ==
    \A r \in Runs : /\ WF_vars(pc[r] # "idle" /\ Advance(r))
                    /\ WF_vars(EndTask(r))
                    /\ WF_vars(r \in Installs /\ GiveUp(r))

FairSpec == Spec /\ Fairness

-----------------------------------------------------------------------------
(* Properties.                                                             *)

Active(r) == pc[r] \notin {"idle", "done", "dead"}

\* The runs that drive their device.
Driving(r) == pc[r] \in {"holding", "running"}

\* The limiter's documentation (line 7): a device executes one task at a time.
\* It holds for all runs that ask the limiter (queued runs, leases, installs),
\* whatever sweeps, unlocks, reboots and WebSocket runs write to the row.
OneTaskPerDevice ==
    \A r, v \in LimiterRuns : Driving(r) /\ Driving(v) /\ DeviceOf[r] = DeviceOf[v] => r = v

\* As long as nobody outside the limiter has written the row, a device that is
\* driven is shown BUSY, and under a lease with the owner it has: no run's late
\* restore reaches into the next one's time.
DrivenIsBusy ==
    \A r \in Runs : DeviceOf[r] \notin disturbed =>
        /\ Driving(r) => status[DeviceOf[r]] = "BUSY"
        /\ pc[r] = "holding" => owner[DeviceOf[r]] = r

\* Both, with the types of the variables.
DeviceExclusive == TypeOK /\ OneTaskPerDevice /\ DrivenIsBusy

\* No way through acquire, its failures, timeouts and release keeps a slot.
NoSlotLeaks ==
    /\ \A r \in LimiterRuns : r \in holders \/ pending[r] > 0 => Active(r)
    /\ \A r \in LimiterRuns : Driving(r) => r \in holders

\* Whatever the sweep, unlock and reboot wrote meanwhile: when all runs of a
\* device are over (and none was lost in a crash), it has no owner and is not
\* BUSY, so it can be used again.
DeviceLeftClean ==
    \A d \in Devices :
        (\A r \in Runs : DeviceOf[r] = d => pc[r] \in {"idle", "done"})
            => owner[d] = NoRun /\ status[d] # "BUSY"

\* Every run that was accepted ends, lease or no lease.
EveryRunEnds == \A r \in Runs : Active(r) ~> ~Active(r)

\* docs/EXECUTION_SPEC.md:177: only the owner may bring the device back to IDLE,
\* so that the end of an old task does not unlock the task that runs now.
OnlyOwnerSetsIdle ==
    [][\A r \in Runs :
          pc[r] = "holding" /\ pc'[r] = "holding" /\ status[DeviceOf[r]] = "BUSY"
             => status'[DeviceOf[r]] # "IDLE"]_vars

\* unlock_device "releases the device lock by force" (devices.py:2096), the way
\* out when no owner is alive any more (docs/EXECUTION_SPEC.md:179): afterwards
\* such a device can be leased again.
UnlockFreesDevice ==
    [][\A d \in Devices :
          UnlockRow(d) /\ (owner[d] # NoRun => pc[owner[d]] = "dead")
             => owner'[d] = NoRun]_vars
=============================================================================
