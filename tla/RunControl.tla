----------------------------- MODULE RunControl -----------------------------
(***************************************************************************)
(* Starting, queueing, cancelling and ending runs: backend/run_control.py  *)
(* (the registry of runs and the abort event of every device) together     *)
(* with the code that calls it:                                            *)
(*   - CaseRuns: backend/api/cases.py, one thread for each run;            *)
(*   - ScenarioRuns: backend/scenario_execution.py, each run with its      *)
(*     TestExecution row;                                                  *)
(*   - Streams: backend/api/ws_run.py, which does not ask the limiter;     *)
(*   - POST /runs/cancel (backend/api/runs.py) and POST /unlock            *)
(*     (backend/api/devices.py).                                           *)
(* The registry and the event table have locks of their own and hold them  *)
(* for one operation each; a database commit is one step.  Where a handler *)
(* registers an event and at once lists its record, this is one step: no   *)
(* operation reads both tables.  Slots come from the limiter, used through *)
(* its abstract specification SlotAllocator.                               *)
(* Device rows are the subject of DeviceLease.                             *)
(***************************************************************************)
EXTENDS Integers, FiniteSets

CONSTANTS
    CaseRuns, ScenarioRuns, Streams,
    TheCase,      \* the TestCase that all case and WebSocket runs execute
    Devices,
    DeviceOf,     \* DeviceOf[r]: the device of run r
    UserOf,       \* UserOf[r]: the user that run r is counted for
    Users,
    NoRun,        \* no event registered for the device
    NoDevice,
    MaxGlobal, MaxPerUser,
    MaxCancels,   \* bound: how often /runs/cancel is called
    Happenings    \* a subset of {"unlock", "disconnect", "delete", "dbfault"}

QueuedRuns == CaseRuns \cup ScenarioRuns
Runs == QueuedRuns \cup Streams

\* A TestExecution row for each scenario run, one TestCase row for the others.
Rows == ScenarioRuns \cup {TheCase}

ASSUME RunAssumption ==
    /\ NoRun \notin Runs /\ TheCase \notin Runs
    /\ NoDevice \notin Devices
    /\ CaseRuns \cap ScenarioRuns = {} /\ Streams \cap QueuedRuns = {}
    /\ IsFiniteSet(QueuedRuns)
    /\ DeviceOf \in [Runs -> Devices]
    /\ UserOf \in [Runs -> Users]
    /\ MaxCancels \in Nat

\* A record of the registry with its abort event.  Scenario runs have two: one
\* while they are queued, another one while they run.
Records == Runs \X {"queue", "run"}

RunRecord(r) == <<r, "run">>
QueueRecord(r) == IF r \in ScenarioRuns THEN <<r, "queue">> ELSE <<r, "run">>

VARIABLES
    pc,            \* pc[r]: where run r stands
    queued,        \* the runs that found no free slot when they were enqueued
    outcome,       \* outcome[r]: the result of r once it is decided
    row,           \* row[x]: last_run_status of the case, status of an execution
    listed,        \* RunRegistry._runs
    recordStatus,  \* RunRecord.status, also of records no longer listed
    signalled,     \* the records whose abort event is set
    deviceEvent,   \* _device_abort_events: the run whose event is registered
    pending,       \* the limiter: the queue
    holders,       \* the limiter: the runs that hold a slot
    canceller,     \* the thread of /runs/cancel
    cancels,       \* how often /runs/cancel was called
    unlocker,      \* the thread of /unlock
    wanted         \* history: the runs whose record a cancel marked before
                   \* their outcome was decided

vars == <<pc, queued, outcome, row, listed, recordStatus, signalled, deviceEvent,
          pending, holders, canceller, cancels, unlocker, wanted>>

slotVars == <<pending, holders>>
registryVars == <<listed, recordStatus>>
cancelVars == <<canceller, cancels, unlocker, wanted>>

ActiveStatuses == {"RUNNING", "PENDING", "QUEUED"}  \* RUNNING_STATUSES
Outcomes == {"ENDED", "ERROR", "ABORTED"}           \* "ENDED": the task's own result

\* "created": execution row written; "enqueued": holds a ticket; "recorded": in
\* the registry, row not written; "checking": scenario about to look at its row;
\* "waiting": in ticket.wait; "granted": has the slot after a wait; "promoted",
\* "installing": on the way from QUEUED to RUNNING; "ready": has slot and thread;
\* "starting", "preparing": scenario start; "running"; "reporting": outcome
\* decided, not written; "finalizing": WebSocket run's finally; "unregistering",
\* "unlisting", "releasing": the finally clauses; "closing", "closed": wait
\* ended without slot; "undoing": the handler failed; "lost": thread died.
PCs == {"idle", "created", "enqueued", "recorded", "checking", "waiting", "granted",
        "promoted", "installing", "ready", "starting", "preparing", "running",
        "reporting", "finalizing", "unregistering", "unlisting", "releasing",
        "closing", "closed", "undoing", "done", "lost"}

TypeOK ==
    /\ pc \in [Runs -> PCs]
    /\ queued \subseteq QueuedRuns
    /\ outcome \in [Runs -> Outcomes \cup {"none"}]
    /\ row \in [Rows -> ActiveStatuses \cup Outcomes \cup {"GONE"}]
    /\ listed \subseteq Records
    /\ recordStatus \in [Records -> ActiveStatuses \cup Outcomes]
    /\ signalled \subseteq Records
    /\ deviceEvent \in [Devices -> Runs \cup {NoRun}]
    /\ pending \in [QueuedRuns -> Nat] /\ holders \subseteq QueuedRuns
    /\ canceller \in [phase : {"idle", "marking", "rows"}, targets : SUBSET Runs,
                      todo : SUBSET Records, hit : SUBSET Devices, rows : SUBSET Rows]
    /\ cancels \in 0..MaxCancels
    /\ unlocker \in [phase : {"idle", "signalled", "rows"}, device : Devices \cup {NoDevice},
                     rows : SUBSET ScenarioRuns]
    /\ wanted \subseteq Runs

Demand == [r \in QueuedRuns |-> [user |-> UserOf[r], device |-> DeviceOf[r]]]

Slots == INSTANCE SlotAllocator WITH Waiters <- QueuedRuns, demand <- Demand

NoCancel == [phase |-> "idle", targets |-> {}, todo |-> {}, hit |-> {}, rows |-> {}]
NoUnlock == [phase |-> "idle", device |-> NoDevice, rows |-> {}]

\* The runs of parties are asked for, and used calls of /runs/cancel are over.
InitFor(parties, used) ==
    /\ pc = [r \in Runs |-> IF r \in parties THEN "idle" ELSE "done"]
    /\ queued = {}
    /\ outcome = [r \in Runs |-> "none"]
    /\ row = [x \in Rows |-> "ENDED"]
    /\ listed = {}
    /\ recordStatus = [o \in Records |-> "PENDING"]
    /\ signalled = {}
    /\ deviceEvent = [d \in Devices |-> NoRun]
    /\ Slots!Init
    /\ canceller = NoCancel /\ cancels = used /\ wanted = {}
    /\ unlocker = NoUnlock

Init == InitFor(Runs, 0)

Goto(r, place) == pc' = [pc EXCEPT ![r] = place]

RowOf(r) == IF r \in ScenarioRuns THEN r ELSE TheCase

\* A case that was deleted has no row to be written.
WriteRow(r, s) == row' = [row EXCEPT ![RowOf(r)] = IF @ = "GONE" THEN @ ELSE s]

\* registry.register / complete; complete sets the status if one is passed.
List(o, s) ==
    /\ listed' = listed \cup {o}
    /\ recordStatus' = [recordStatus EXCEPT ![o] = s]

Unlist(o, s) ==
    /\ listed' = listed \ {o}
    /\ recordStatus' = [recordStatus EXCEPT ![o] = IF o \in listed THEN s ELSE @]

\* register_device_abort / unregister_device_abort
RegisterEvent(r) == deviceEvent' = [deviceEvent EXCEPT ![DeviceOf[r]] = r]
UnregisterEvent(r) == deviceEvent' = [deviceEvent EXCEPT ![DeviceOf[r]] = NoRun]

\* trigger_device_abort: the events it sets for the devices ds.
EventsOf(ds) == {RunRecord(deviceEvent[d]) : d \in {e \in ds : deviceEvent[e] # NoRun}}

\* Faulty variants, as in ExecutionLimiter, stand before the definition whose
\* name they extend: MakeRecordOverwrites, CloseRowSkipped, CloseRecordLeft,
\* InstallFreshEvent, DropQueueRecordLeft and FinalizeStreamSkipped.

-----------------------------------------------------------------------------
(* Asking for a run.                                                       *)

\* run_scenario_batch writes the execution row before it enqueues.
CreateRow(r) ==
    /\ r \in ScenarioRuns /\ pc[r] = "idle"
    /\ WriteRow(r, "PENDING")
    /\ Goto(r, "created")
    /\ UNCHANGED <<queued, outcome, registryVars, signalled, deviceEvent, slotVars, cancelVars>>

\* limiter.enqueue; queued is what the handler keeps of ticket.lease.
Enqueue(r) ==
    /\ pc[r] = IF r \in ScenarioRuns THEN "created" ELSE "idle"
    /\ r \in QueuedRuns /\ row[RowOf(r)] # "GONE"
    /\ Slots!Request(r)
    /\ queued' = IF r \in holders' THEN queued ELSE queued \cup {r}
    /\ Goto(r, "enqueued")
    /\ UNCHANGED <<outcome, row, registryVars, signalled, deviceEvent, cancelVars>>

\* A queued run registers its event for the device like any other.
MakeRecordOverwrites(r) ==
    /\ \/ r \in CaseRuns /\ pc[r] = "enqueued"
       \/ r \in Streams /\ pc[r] = "idle" /\ row[TheCase] # "GONE"
    /\ List(RunRecord(r), IF r \in queued THEN "QUEUED" ELSE "RUNNING")
    /\ RegisterEvent(r)
    /\ Goto(r, "recorded")
    /\ UNCHANGED <<queued, outcome, row, signalled, slotVars, cancelVars>>

\* _make_case_run_record, and the same in websocket_run_case: only a run that
\* need not wait registers its event for the device.
MakeRecord(r) ==
    /\ \/ r \in CaseRuns /\ pc[r] = "enqueued"
       \/ r \in Streams /\ pc[r] = "idle" /\ row[TheCase] # "GONE"
    /\ List(RunRecord(r), IF r \in queued THEN "QUEUED" ELSE "RUNNING")
    /\ IF r \in queued THEN UNCHANGED deviceEvent ELSE RegisterEvent(r)
    /\ Goto(r, "recorded")
    /\ UNCHANGED <<queued, outcome, row, signalled, slotVars, cancelVars>>

\* The handler's last write, after which the run's thread starts.  A scenario
\* run that need not wait keeps its PENDING row.  (If the case had this status
\* already when the handler read it, the ORM leaves the status out of the write;
\* the model writes it always.)
StartRow(r) ==
    /\ \/ r \in CaseRuns \cup Streams /\ pc[r] = "recorded" /\ row[TheCase] # "GONE"
       \/ r \in ScenarioRuns /\ pc[r] = "enqueued"
    /\ IF r \in queued THEN WriteRow(r, "QUEUED")
       ELSE IF r \in ScenarioRuns THEN UNCHANGED row
       ELSE WriteRow(r, "RUNNING")
    /\ Goto(r, IF r \notin queued THEN "ready"
               ELSE IF r \in ScenarioRuns THEN "checking" ELSE "waiting")
    /\ UNCHANGED <<queued, outcome, registryVars, signalled, deviceEvent, slotVars, cancelVars>>

\* That write fails with the database, or because the case that the handler has
\* read was deleted meanwhile.
StartFails == "dbfault" \in Happenings \/ row[TheCase] = "GONE"

\* run_test_case, except clause, when that write fails: the ticket is cancelled
\* first ...
HandlerFails(r) ==
    /\ StartFails
    /\ r \in CaseRuns /\ pc[r] = "recorded"
    /\ Slots!Withdraw(r) \/ Slots!GiveBack(r)
    /\ Goto(r, IF r \in queued THEN "unlisting" ELSE "undoing")
    /\ outcome' = [outcome EXCEPT ![r] = "ERROR"]
    /\ UNCHANGED <<queued, row, registryVars, signalled, deviceEvent, cancelVars>>

\* ... then the device's event is unregistered.
UndoEvent(r) ==
    /\ pc[r] = "undoing"
    /\ UnregisterEvent(r)
    /\ Goto(r, "unlisting")
    /\ UNCHANGED <<queued, outcome, row, registryVars, signalled, slotVars, cancelVars>>

-----------------------------------------------------------------------------
(* Waiting for a slot.                                                     *)

\* _wait_for_queued_scenario_slot: a run that was aborted already gives its
\* ticket up; otherwise a record of its own makes it cancellable.
CheckRow(r) ==
    /\ pc[r] = "checking"
    /\ IF row[r] = "ABORTED"
       THEN /\ Slots!Withdraw(r) \/ Slots!GiveBack(r)
            /\ Goto(r, "done")
            /\ UNCHANGED <<row, registryVars>>
       ELSE /\ WriteRow(r, "QUEUED")
            /\ List(QueueRecord(r), "QUEUED")
            /\ Goto(r, "waiting")
            /\ UNCHANGED slotVars
    /\ UNCHANGED <<queued, outcome, signalled, deviceEvent, cancelVars>>

\* ticket.wait returns a lease, even to a run that was aborted meanwhile.
Granted(r) ==
    /\ pc[r] = "waiting" /\ r \in holders
    /\ Goto(r, "granted")
    /\ UNCHANGED <<queued, outcome, row, registryVars, signalled, deviceEvent, slotVars, cancelVars>>

\* ticket.wait ends with QueueAbortedError or, unless aborted, QueueTimeoutError.
WaitEnds(r) ==
    /\ pc[r] = "waiting"
    /\ Slots!Withdraw(r)
    /\ outcome' = [outcome EXCEPT ![r] =
                     IF QueueRecord(r) \in signalled THEN "ABORTED" ELSE "ERROR"]
    /\ Goto(r, "closing")
    /\ UNCHANGED <<queued, row, registryVars, signalled, deviceEvent, cancelVars>>

\* The row of a run that never ran is left as it was.
CloseRowSkipped(r) ==
    /\ pc[r] = "closing"
    /\ Goto(r, "closed")
    /\ UNCHANGED <<queued, outcome, row, registryVars, signalled, deviceEvent, slotVars, cancelVars>>

\* The run did not run: its row gets the outcome, its record leaves the registry.
CloseRow(r) ==
    /\ pc[r] = "closing"
    /\ WriteRow(r, outcome[r])
    /\ Goto(r, "closed")
    /\ UNCHANGED <<queued, outcome, registryVars, signalled, deviceEvent, slotVars, cancelVars>>

CloseRecordLeft(r) ==
    /\ pc[r] = "closed"
    /\ recordStatus' = [recordStatus EXCEPT ![QueueRecord(r)] = outcome[r]]
    /\ Goto(r, "done")
    /\ UNCHANGED <<queued, outcome, row, listed, signalled, deviceEvent, slotVars, cancelVars>>

CloseRecord(r) ==
    /\ pc[r] = "closed"
    /\ Unlist(QueueRecord(r), outcome[r])
    /\ Goto(r, "done")
    /\ UNCHANGED <<queued, outcome, row, signalled, deviceEvent, slotVars, cancelVars>>

\* _wait_for_queued_case_slot after the grant: record, row, device event.
Promote(r) ==
    /\ r \in CaseRuns /\ pc[r] = "granted"
    /\ recordStatus' = [recordStatus EXCEPT ![RunRecord(r)] =
                          IF RunRecord(r) \in listed THEN "RUNNING" ELSE @]
    /\ Goto(r, "promoted")
    /\ UNCHANGED <<queued, outcome, row, listed, signalled, deviceEvent, slotVars, cancelVars>>

PromoteRow(r) ==
    /\ pc[r] = "promoted"
    /\ WriteRow(r, "RUNNING")
    /\ Goto(r, "installing")
    /\ UNCHANGED <<queued, outcome, registryVars, signalled, deviceEvent, slotVars, cancelVars>>

\* That write fails; no handler of the thread knows of the lease yet.
PromoteFails(r) ==
    /\ "dbfault" \in Happenings
    /\ pc[r] = "promoted"
    /\ Goto(r, "lost")
    /\ UNCHANGED <<queued, outcome, row, registryVars, signalled, deviceEvent, slotVars, cancelVars>>

\* The device gets a new event in place of the one of the queued run.
InstallFreshEvent(r) ==
    /\ pc[r] = "installing"
    /\ RegisterEvent(r)
    /\ signalled' = signalled \ {RunRecord(r)}
    /\ Goto(r, "ready")
    /\ UNCHANGED <<queued, outcome, row, registryVars, slotVars, cancelVars>>

Install(r) ==
    /\ pc[r] = "installing"
    /\ RegisterEvent(r)
    /\ Goto(r, "ready")
    /\ UNCHANGED <<queued, outcome, row, registryVars, signalled, slotVars, cancelVars>>

\* The record of the queued run stays.
DropQueueRecordLeft(r) ==
    /\ r \in ScenarioRuns /\ pc[r] = "granted"
    /\ Goto(r, "ready")
    /\ UNCHANGED <<queued, outcome, row, registryVars, signalled, deviceEvent, slotVars, cancelVars>>

\* _wait_for_queued_scenario_slot after the grant: the record of the queued run
\* is removed; the run will register another one.
DropQueueRecord(r) ==
    /\ r \in ScenarioRuns /\ pc[r] = "granted"
    /\ Unlist(QueueRecord(r), recordStatus[QueueRecord(r)])
    /\ Goto(r, "ready")
    /\ UNCHANGED <<queued, outcome, row, signalled, deviceEvent, slotVars, cancelVars>>

-----------------------------------------------------------------------------
(* Running.                                                                *)

\* Case and WebSocket runs have all they need, if the case is still there.
BeginRun(r) ==
    /\ r \in CaseRuns \cup Streams /\ pc[r] = "ready"
    /\ r \in CaseRuns => row[TheCase] # "GONE"
    /\ Goto(r, "running")
    /\ UNCHANGED <<queued, outcome, row, registryVars, signalled, deviceEvent, slotVars, cancelVars>>

\* The case was deleted meanwhile: the finally clauses follow.
CaseGone(r) ==
    /\ r \in CaseRuns /\ pc[r] = "ready" /\ row[TheCase] = "GONE"
    /\ outcome' = [outcome EXCEPT ![r] = "ERROR"]
    /\ Goto(r, "unregistering")
    /\ UNCHANGED <<queued, row, registryVars, signalled, deviceEvent, slotVars, cancelVars>>

\* _run_single_device_sync: an aborted execution does not start ...
ReadRow(r) ==
    /\ r \in ScenarioRuns /\ pc[r] = "ready"
    /\ Goto(r, IF row[r] = "ABORTED" THEN "releasing" ELSE "starting")
    /\ UNCHANGED <<queued, outcome, row, registryVars, signalled, deviceEvent, slotVars, cancelVars>>

\* ... any other one becomes RUNNING ...
StartScenario(r) ==
    /\ pc[r] = "starting"
    /\ WriteRow(r, "RUNNING")
    /\ Goto(r, "preparing")
    /\ UNCHANGED <<queued, outcome, registryVars, signalled, deviceEvent, slotVars, cancelVars>>

\* ... and _prepare_cross_platform_device_execution registers event and record.
Prepare(r) ==
    /\ pc[r] = "preparing"
    /\ RegisterEvent(r)
    /\ List(RunRecord(r), "RUNNING")
    /\ Goto(r, "running")
    /\ UNCHANGED <<queued, outcome, row, signalled, slotVars, cancelVars>>

\* The runner returns (or raises); whether the run was aborted is asked now.
EndTask(r) ==
    /\ pc[r] = "running"
    /\ outcome' = [outcome EXCEPT ![r] =
                     IF RunRecord(r) \in signalled THEN "ABORTED" ELSE "ENDED"]
    /\ Goto(r, "reporting")
    /\ UNCHANGED <<queued, row, registryVars, signalled, deviceEvent, slotVars, cancelVars>>

\* The row gets the outcome.
WriteOutcome(r) ==
    /\ pc[r] = "reporting"
    /\ WriteRow(r, outcome[r])
    /\ Goto(r, IF r \in Streams THEN "finalizing" ELSE "unregistering")
    /\ UNCHANGED <<queued, outcome, registryVars, signalled, deviceEvent, slotVars, cancelVars>>

\* A WebSocket run whose task, or one of its writes, fails comes to its finally
\* clause with the row as it is.
StreamFails(r) ==
    /\ r \in Streams
    /\ \/ pc[r] \in {"ready", "running"}
       \/ pc[r] = "recorded" /\ StartFails
       \/ pc[r] = "reporting" /\ "dbfault" \in Happenings
    /\ outcome' = [outcome EXCEPT ![r] =
                     IF @ # "none" THEN @
                     ELSE IF RunRecord(r) \in signalled THEN "ABORTED" ELSE "ERROR"]
    /\ Goto(r, "finalizing")
    /\ UNCHANGED <<queued, row, registryVars, signalled, deviceEvent, slotVars, cancelVars>>

\* A WebSocket run that failed leaves its row alone.
FinalizeStreamSkipped(r) ==
    /\ pc[r] = "finalizing"
    /\ Goto(r, "unregistering")
    /\ UNCHANGED <<queued, outcome, row, registryVars, signalled, deviceEvent, slotVars, cancelVars>>

\* websocket_run_case, finally: a row that still says RUNNING is settled.
FinalizeStream(r) ==
    /\ pc[r] = "finalizing"
    /\ IF row[RowOf(r)] = "RUNNING"
       THEN WriteRow(r, IF RunRecord(r) \in signalled THEN "ABORTED" ELSE "ERROR")
       ELSE UNCHANGED row
    /\ Goto(r, "unregistering")
    /\ UNCHANGED <<queued, outcome, registryVars, signalled, deviceEvent, slotVars, cancelVars>>

\* The finally clauses: the device's event goes, whoever registered it ...
Unregister(r) ==
    /\ pc[r] = "unregistering"
    /\ UnregisterEvent(r)
    /\ Goto(r, "unlisting")
    /\ UNCHANGED <<queued, outcome, row, registryVars, signalled, slotVars, cancelVars>>

\* ... the record ...
UnlistRun(r) ==
    /\ pc[r] = "unlisting"
    /\ Unlist(RunRecord(r),
              IF outcome[r] = "ERROR" /\ r \in CaseRuns THEN "ERROR"
              ELSE IF RunRecord(r) \in signalled THEN "ABORTED"
              ELSE recordStatus[RunRecord(r)])
    /\ Goto(r, IF r \in holders THEN "releasing" ELSE "done")
    /\ UNCHANGED <<queued, outcome, row, signalled, deviceEvent, slotVars, cancelVars>>

\* ... and the slot.
ReleaseSlot(r) ==
    /\ pc[r] = "releasing"
    /\ Slots!GiveBack(r)
    /\ Goto(r, "done")
    /\ UNCHANGED <<queued, outcome, row, registryVars, signalled, deviceEvent, cancelVars>>

-----------------------------------------------------------------------------
(* POST /runs/cancel: one thread at a time.                                *)

\* RunRegistry._match: the active records of the runs asked for, which are one
\* run or all runs of the target.
CancelMatch(runs) ==
    /\ canceller.phase = "idle" /\ cancels < MaxCancels
    /\ canceller' = [NoCancel EXCEPT
          !.phase = "marking", !.targets = runs,
          !.todo = {o \in listed : o[1] \in runs /\ recordStatus[o] \in ActiveStatuses}]
    /\ cancels' = cancels + 1
    /\ UNCHANGED <<pc, queued, outcome, row, registryVars, signalled, deviceEvent, slotVars, unlocker, wanted>>

\* RunRegistry.cancel, one record: its own event is set; unless it was queued
\* its device is to be signalled too.
CancelRecord(o) ==
    /\ o \in canceller.todo
    /\ recordStatus' = [recordStatus EXCEPT ![o] = "ABORTED"]
    /\ signalled' = signalled \cup {o}
    /\ canceller' = [canceller EXCEPT
          !.todo = @ \ {o},
          !.hit = IF recordStatus[o] = "QUEUED" THEN @ ELSE @ \cup {DeviceOf[o[1]]}]
    /\ wanted' = IF outcome[o[1]] = "none" THEN wanted \cup {o[1]} ELSE wanted
    /\ UNCHANGED <<pc, queued, outcome, row, listed, deviceEvent, slotVars, cancels, unlocker>>

\* RunRegistry.cancel, second loop: the event that is registered for the device.
CancelSignal(d) ==
    /\ canceller.todo = {} /\ d \in canceller.hit
    /\ signalled' = signalled \cup EventsOf({d})
    /\ canceller' = [canceller EXCEPT !.hit = @ \ {d}]
    /\ UNCHANGED <<pc, queued, outcome, row, registryVars, deviceEvent, slotVars, cancels, unlocker, wanted>>

\* cancel_runs then reads the rows: the case's, which is written if it does not
\* say ABORTED already, or those of the active executions.
CancelReadRows ==
    /\ canceller.phase = "marking" /\ canceller.todo = {} /\ canceller.hit = {}
    /\ canceller' = [canceller EXCEPT
          !.phase = "rows",
          !.rows = {x \in {RowOf(r) : r \in canceller.targets} :
                       row[x] \in IF x = TheCase THEN ActiveStatuses \cup {"ENDED", "ERROR"}
                                  ELSE ActiveStatuses}]
    /\ UNCHANGED <<pc, queued, outcome, row, registryVars, signalled, deviceEvent, slotVars, cancels, unlocker, wanted>>

\* ... and commits them as ABORTED.
CancelWriteRows ==
    /\ canceller.phase = "rows"
    /\ row' = [x \in Rows |-> IF x \in canceller.rows /\ row[x] # "GONE"
                              THEN "ABORTED" ELSE row[x]]
    /\ canceller' = NoCancel
    /\ UNCHANGED <<pc, queued, outcome, registryVars, signalled, deviceEvent, slotVars, cancels, unlocker, wanted>>

\* What a user may ask to cancel.
CancelRequests ==
    ({{r} : r \in Runs} \cup {CaseRuns \cup Streams, ScenarioRuns}) \ {{}}

Cancel ==
    \/ \E runs \in CancelRequests : CancelMatch(runs)
    \/ \E o \in Records : CancelRecord(o)
    \/ \E d \in Devices : CancelSignal(d)
    \/ CancelReadRows \/ CancelWriteRows

-----------------------------------------------------------------------------
(* Signals from elsewhere.                                                 *)

\* unlock_device signals the device (its effect on the device is in DeviceLease),
Unlock(d) ==
    /\ "unlock" \in Happenings /\ unlocker.phase = "idle"
    /\ signalled' = signalled \cup EventsOf({d})
    /\ unlocker' = [NoUnlock EXCEPT !.phase = "signalled", !.device = d]
    /\ UNCHANGED <<pc, queued, outcome, row, registryVars, deviceEvent, slotVars,
                   canceller, cancels, wanted>>

\* reads the executions that run on the device
UnlockReadRows ==
    /\ unlocker.phase = "signalled"
    /\ unlocker' = [unlocker EXCEPT
          !.phase = "rows",
          !.rows = {x \in ScenarioRuns : row[x] = "RUNNING" /\ DeviceOf[x] = unlocker.device}]
    /\ UNCHANGED <<pc, queued, outcome, row, registryVars, signalled, deviceEvent, slotVars,
                   canceller, cancels, wanted>>

\* and writes them off.
UnlockWriteRows ==
    /\ unlocker.phase = "rows"
    /\ row' = [x \in Rows |-> IF x \in unlocker.rows THEN "ERROR" ELSE row[x]]
    /\ unlocker' = NoUnlock
    /\ UNCHANGED <<pc, queued, outcome, registryVars, signalled, deviceEvent, slotVars,
                   canceller, cancels, wanted>>

\* _watch_ws_disconnect: the client of a WebSocket run has gone.
Disconnect(r) ==
    /\ "disconnect" \in Happenings
    /\ r \in Streams /\ pc[r] \in {"recorded", "ready", "running", "reporting"}
    /\ signalled' = signalled \cup {RunRecord(r)}
    /\ UNCHANGED <<pc, queued, outcome, row, registryVars, deviceEvent, slotVars, cancelVars>>

\* The test case is deleted.
DeleteCase ==
    /\ "delete" \in Happenings
    /\ row' = [row EXCEPT ![TheCase] = "GONE"]
    /\ UNCHANGED <<pc, queued, outcome, registryVars, signalled, deviceEvent, slotVars, cancelVars>>

-----------------------------------------------------------------------------
\* What the threads of the server do on their own once a run was asked for.
Advance(r) ==
    \/ (pc[r] # "idle" /\ (Enqueue(r) \/ MakeRecord(r)))
    \/ StartRow(r) \/ UndoEvent(r)
    \/ CheckRow(r) \/ Granted(r) \/ CloseRow(r) \/ CloseRecord(r)
    \/ Promote(r) \/ PromoteRow(r) \/ Install(r) \/ DropQueueRecord(r)
    \/ BeginRun(r) \/ CaseGone(r) \/ ReadRow(r) \/ StartScenario(r) \/ Prepare(r)
    \/ WriteOutcome(r) \/ FinalizeStream(r)
    \/ Unregister(r) \/ UnlistRun(r) \/ ReleaseSlot(r)

Ask(r) == CreateRow(r) \/ (pc[r] = "idle" /\ (Enqueue(r) \/ MakeRecord(r)))

Next ==
    \/ \E r \in Runs : \/ Ask(r) \/ Advance(r) \/ WaitEnds(r) \/ EndTask(r)
                       \/ HandlerFails(r) \/ PromoteFails(r) \/ StreamFails(r)
                       \/ Disconnect(r)
    \/ Cancel
    \/ DeleteCase
    \/ \E d \in Devices : Unlock(d)
    \/ UnlockReadRows \/ UnlockWriteRows

Spec == Init /\ [][Next]_vars

\* The server's threads run, a handler to its end or to its failure; a wait ends
\* and a task ends when it was aborted (both poll their event), and otherwise
\* perhaps never.
Fairness ==
    /\ \A r \in Runs :
          /\ WF_vars(Advance(r) \/ HandlerFails(r))
          /\ WF_vars(QueueRecord(r) \in signalled /\ WaitEnds(r))
          /\ WF_vars(RunRecord(r) \in signalled /\ EndTask(r))
    /\ WF_vars(canceller.phase # "idle" /\ Cancel)

FairSpec == Spec /\ Fairness

-----------------------------------------------------------------------------
(* Properties.                                                             *)

\* The runs whose task may be driving the device.
Driving(r) == pc[r] = "running"

\* While a run's task drives a device, the event registered for the device is
\* its own, so unlock and cancel reach it.  cases.py:375: a queued run must not
\* overwrite the event that the occupant has registered.
OccupantHearsDevice == \A r \in Runs : Driving(r) => deviceEvent[DeviceOf[r]] = r

\* A run that drives a device can be found and cancelled, and a run that is over
\* is no longer offered: the registry lists the former and not the latter.
RegistryMirrorsRuns ==
    \A r \in Runs :
        /\ Driving(r) => RunRecord(r) \in listed /\ recordStatus[RunRecord(r)] # "QUEUED"
        /\ pc[r] = "waiting" => QueueRecord(r) \in listed
        /\ pc[r] \in {"idle", "done"} => RunRecord(r) \notin listed /\ QueueRecord(r) \notin listed

\* When no run of a case or execution is under way, its row does not say that one
\* is: whatever the order of the writes of runs that share the row, of cancel and
\* of unlock.
RowsSettle ==
    \A x \in Rows :
        (\A r \in Runs : RowOf(r) = x => pc[r] \in {"idle", "done"})
        => row[x] \notin ActiveStatuses

\* A cancel that finds a case or WebSocket run before its task has ended wins: the
\* run does not end with a result of its own.  (EXECUTION_SPEC.md:178: the user's
\* abort sets the abort_event that the executor checks.)  An execution of a scenario
\* may lose it, with the record and the event that it had in the queue
\* (scenario_execution.py:600).
CancelSticks == \A r \in wanted \ ScenarioRuns : outcome[r] # "ENDED"

\* The driver of a device is never a run without slot: cancelling, timing out and
\* failing give a slot back exactly when the task is over.
SlotCoversTask ==
    \A r \in QueuedRuns : /\ Driving(r) => r \in holders
                          /\ pc[r] \in {"idle", "done"} => r \notin holders /\ pending[r] = 0

\* The registry holds what the threads do, and live threads hold the slots.
RegistryInOrder == TypeOK /\ RegistryMirrorsRuns /\ SlotCoversTask

\* A cancelled run comes to its end, queued or running.
CancelledRunEnds == \A r \in Runs : r \in wanted ~> pc[r] = "done"

\* run_control.py:199: cancelling a queued run sends no abort to the device's
\* occupant, and cancel_runs cancels "runs for the requested target" only
\* (runs.py:28).  Without unlock and disconnect a run is aborted only if it was
\* asked for.
OnlyRequestedStop ==
    [][\A r \in Runs :
          RunRecord(r) \in signalled' \ signalled => r \in canceller.targets]_vars
=============================================================================
