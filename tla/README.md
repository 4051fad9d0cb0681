# AutoDroid: formal models

AutoDroid is a test platform for Android and iOS devices: a FastAPI server (`src/backend`) that
runs test cases, scenarios, explorations ("inspections"), compatibility matrices and Fastbot
monkey tests on a pool of devices, with a Vue front end. The hard part is not any single test:
it is that dozens of threads, asyncio tasks and HTTP handlers share a few devices, one
in-process limiter, a registry of runs, a table of abort events and the rows of a database,
each with a lock (or a transaction) of its own. This directory models that part in TLA+,
checks it with TLC and proves what matters most with TLAPS.

## The system

| Component | State | Operations | Hard behaviour | What makes it correct |
|---|---|---|---|---|
| Execution limiter (`execution_limiter.py`) | FIFO queue, counters of server, users, devices; tickets and leases | `enqueue`, `wait`, `cancel`, `release`, `acquire_lease` | many threads on one condition variable; abort, deadline and grant race | limits hold, counters are exact, nobody admissible waits, nobody sleeps forever |
| Device lease (`device_execution_lease.py`) | `Device.status`, `lease_task_id`; a limiter lease | `acquire`, `release` | slot in memory, owner in the database: two resources, failures in between | one task per device, no slot kept, the row returns to IDLE |
| Other writers of the device row (`api/ws_run.py`, `api/packages.py`, `api/fastbot.py`, `api/devices.py`, `cross_platform_execution.py`) | the same row, Fastbot's process lock | mark BUSY, restore, adb sweep, unlock, reboot | read, await, write; crash | a late writer does not reach into the next run's time |
| Run control (`run_control.py`) | registry of runs, abort event of each device | register, update, complete, cancel, trigger | events shared by device; records read outside the lock | a signal reaches the run it is for, and only that |
| Case, WebSocket and scenario runs (`api/cases.py`, `api/ws_run.py`, `scenario_execution.py`, `api/scenarios.py`, `api/runs.py`) | `TestCase.last_run_status`, `TestExecution.status`, threads | start, queue, promote, run, finish, cancel | handler fails half-way; cancel meets grant; several runs write one row | cancelled runs stop, rows settle, slots return |
| Version lock (`version_lock.py`) | `version` of cases and scenarios | guarded write, `sync-legacy` | concurrent editors | no update lost |
| Artifact store (`artifact_store.py`, `retention_service.py`) | assets, references, files | store, reference, release, materialise, collect | file system and database are not one transaction | no referenced file is deleted |
| Device agents (`device_agents/`) | sessions, tunnels, adb connections | register, replace, send, tear down, reconcile | reconnect during teardown, failing sends | one live session per name |
| Inspection live stream (`inspection/live.py`) | runs, bounded queues, tickets | publish, subscribe, consume, expire | slow viewers, late publishers | viewers see the last state, in order |
| Inspection and compatibility runs (`inspection/`, `api/inspections.py`, `api/compatibility.py`) | run and cell rows, a lease | start, step, cancel, finish, delete | cancel at every stage, long leases | rows and leases end with the run |
| Scheduler (`scheduler_service.py`, `api/tasks.py`) | cron jobs, task rows | trigger, run now, restore | manual and timed trigger together | no double run |
| API testing (`api_testing/`) | runs, items | start, cancel, recover | restart in the middle | interrupted runs are settled |
| Device streaming, drivers, WDA ports | processes, sockets, pools, ports | start, stop, borrow | mostly I/O | - |
| Reports, settings, users, client uploads, front end | rows | create, read, update, delete | - | - |

How they interact: a request enqueues at the **limiter** and gets a ticket; the run's thread
waits on the ticket and then either takes the **device lease** (inspection, compatibility,
Fastbot) or just marks the row BUSY (cases, scenarios). It registers an abort event for the
device and a record in the **registry**; cancel finds the record, unlock finds the event. At
the end it restores the row, removes event and record and releases the slot, which lets the
limiter grant the next one. WebSocket runs do all of this except asking the limiter.

## The modules

| Module | Models | Uses |
|---|---|---|
| `SlotAllocator` | what the limiter promises: a queue, a set of holders, and grants in order of arrival | - |
| `ExecutionLimiter` | `execution_limiter.py` with its condition variable | INSTANCE `SlotAllocator` (refinement) |
| `DeviceLease` | who occupies a device: row, slot, Fastbot's lock | INSTANCE `SlotAllocator` (as the limiter) |
| `RunControl` | runs, their records, events and rows | INSTANCE `SlotAllocator` (as the limiter) |
| `StepEditing` | cases and scenarios with their version tokens, and every operation on them | - |
| `ArtifactStore` | contents, rows, references, the collector and its file deletion | - |
| `AgentHub` | sessions of one agent, the session table, tunnel ports, listeners | - |
| `AgentSender` | the queues and the sender of one session | - |
| `AdbKeeper` | the keeper of the adb connections | - |
| `InspectionLive` | the live channel of a run, its subscriptions and pages | - |
| `InspectionRun` | the life of an inspection run, from its row to the release of the device | - |
| `CompatRun` | the life of a compatibility run and its cells | - |
| `Exploration` | the exploration loop of a branch and its frontier of pages | - |
| `ExecutionLimiterProofs`, `DeviceLeaseProofs`, `RunControlProofs`, `StepEditingProofs`, `ArtifactStoreProofs`, `AgentHubProofs`, `ServicesProofs`, `ExplorationProofs` | theorems and proofs; `ServicesProofs` is about the three modules of inspection and compatibility runs | EXTENDS or INSTANCE of each |
| `MCExecutionLimiter`, `MCDeviceLease`, `MCSlotsAndLeases`, `MCRunControl`, `MCStepEditing`, `MCArtifactStore`, `MCAgents`, `MCServices`, `MCExploration` | instances for TLC | EXTENDS or INSTANCE of each |

The composition is by refinement: `ExecutionLimiter` is shown to implement `SlotAllocator`
(property `AllocatorSpec` of run `limiter_safety`, theorem `Refinement`), and the two modules
above it use the allocator's three actions (`Request`, `Withdraw`, `GiveBack`) where the code
calls the limiter. The other components share no state with these but the device row, which
`InspectionRun` and `CompatRun` take and return in one step each, as `DeviceLease` shows that
they may.

Some instances put independent modules side by side so that one run answers for several: a
variable `mode`, chosen initially and never changed, says which of them moves, and each
property is the conjunction of what is asked of each. `MCSlotsAndLeases` has the limiter
(`slots`) and the device (`leases`, and `row` for those who write its row unasked); `MCAgents` the hub
(`hub`, and `plug` for a phone that comes and goes), the sender (`send`) and the keeper
(`keep`); `MCServices` the live view, inspection runs and compatibility runs (`live`, `run`,
`compat`). State counts add up, they do not multiply.

**Correspondence.** One action is what the code does under one hold of a lock, or in one
database transaction; a read that is followed at once by the write of the same transaction is
one step, a read before an `await`, before another commit or before work on the device is a
step of its own. Where a thread stands between steps is `call[w]` in the limiter and `pc[..]`
elsewhere.

- *ExecutionLimiter*: `Enqueue` = `enqueue` (append, scan, maybe claim); `StartWait`, `Claim`,
  `ObserveCancelled`, `LeaveQueue`, `Park`, `Wake`, `StoreLease` = the loop of
  `_wait_for_grant`; `CancelTicket`/`Abandon` = `ticket.cancel` and the failing `acquire_lease`;
  `BeginRelease`/`FinishRelease` = the two locks of `ExecutionLease.release`. Limits are
  positive because `_limit_from_env` refuses anything else (`LimiterAssumption`).
- *DeviceLease*: `Claim`/`ClaimRefused` = the conditional UPDATE; `ReleaseRow`/`ReleaseSlot` =
  the two halves of `release`; `RestoreRead`/`RestoreWrite` =
  `restore_device_status_after_execution`; `Sweep*`, `Unlock*`, `Reboot`, `Crash` = the
  operations on the device. Values that an ORM object has loaded are kept (`sweep`, `unlock`),
  because SQLAlchemy writes a column only if it changed since it was loaded. `disturbed` is a
  history variable, read by no action: the devices whose status somebody outside the limiter
  (a WebSocket run, sweep, unlock, reboot) has written.
- *RunControl*: `MakeRecord` ... `ReleaseSlot` follow a run through `cases.py`,
  `scenario_execution.py` and `ws_run.py` in the order of the source; `Cancel*` are the
  separate steps of `/runs/cancel` (match, mark each record, signal each device, read rows,
  commit); `HandlerFails`, `PromoteFails`, `StreamFails` are the error paths.
- *StepEditing*: a save is what the code does in a transaction, with the guarded UPDATE
  (`UPDATE .. WHERE version = token`) as the point where two clients meet; clients keep what
  they were shown (`seen`) and where their token came from (`source`), and send that token or
  none. A save may be empty. Rows are deleted by key, and a key is handed out again once its row
  is gone, as SQLite does without AUTOINCREMENT (one key stands for the rows of a save; rows of
  other cases that take a freed key are left out). The answer of a save reads the token after
  its commit (`AnswerToken`) and then the rows by their keys (`AnswerSteps`), which fails if one
  is missing. The two copies of a case's steps and the tokens of both rows are written in the
  order of the source, with the failing write that the handler rolls back.
- *ArtifactStore*: content, row and reference are three steps of a store; the collector marks
  what nobody refers to, lets the grace period pass, checks once more, unlinks file by file and
  commits. Time is a counter of hours that may advance between any two steps.
- *AgentHub*: `Register` evicts the former session of the name; teardown is a sequence of
  awaits (listeners, table, row), and another session may register in between. Ports come from
  a range and are kept by device. *AgentSender*: queue by class of frame, the sender's turn,
  readers that block on a full queue. *AdbKeeper*: one round per desired set, connect,
  disconnect, and adb's own opinion.
- *InspectionLive*: publications carry a sequence number, a page keeps the last one it showed,
  a new stream of the same run begins with a snapshot. *InspectionRun*: the thread of a run,
  its abort event, its rows and branches, and the handlers that cancel, delete and unlock.
  *CompatRun*: the same with cells, whose bodies run in threads (`asyncio.to_thread`), and
  summaries of the run that read (`SummaryReads`) and write later (`SummaryWrites`). An error
  makes the run ERROR and closes the loop without waiting for the threads (`Failed`,
  `CloseLoop`): they work on (`LeftBehind`), a device granted to a closed loop is nobody's
  (`AcquiredForNobody`), and the abort event stays as it was.
- *Exploration*: `f` is the frontier with everything that `_execute_branch` keeps of pages and
  actions; its helpers (`Track`, `Enqueue`, `Expand`, `Close`, `Sweep` ...) are operators from
  frontier to frontier, and an action is the chain of helpers that the code calls between two
  calls of the device. What the app answers is a choice.

Definitions such as `CancelWaiterLeaks` or `InstallFreshEvent` are deliberate faulty variants:
each stands before the definition whose name it extends and shows that a property would catch
that slip. No specification uses them.

## What the runs check

| Run | Result | States | Shows |
|---|---|---|---|
| `limiter_safety` | pass | 84352 | three users, two devices, two slots: types, exact counters, limits, nobody admissible waits, no lost wake-up, failed requests hold nothing; the limiter implements `SlotAllocator` |
| `slots_and_leases` | pass | 45199 | who is granted a slot takes or returns it, who is aborted leaves, nobody waits forever; on one device with crashes one task at a time, the row tells it, no slot is lost, every run ends; and a Fastbot task and a WebSocket run on a device whose row sweep, unlock and reboot overwrite: it is free when all are over |
| `run_cases` | pass | 108554 | queued runs of a case, two cancels, deletion: signals reach the run that drives the device, registry and rows agree with the runs, cancels stick, a cancelled run ends |
| `run_mix` | pass | 1059065 | case runs, scenario runs and a WebSocket run with failing writes, disconnect and unlock: rows settle, the registry and the slots are in order |
| `steps` | pass | 3822496 | two clients that send tokens or do not: a guarded save replaces only what its client was shown with the token, but for the answers named under Observations; a token wins once, both copies agree |
| `artifacts` | pass | 2462672 | evidence can be read, grace is kept, with crashes, missing files and a collector that unlinks file by file |
| `agents` | pass | 219199 | ports are not shared, the table is true, queues are accounted for, nobody monopolises the sender, whoever sleeps is owed a notification, a blocked reader goes on, adb converges |
| `services` | pass | 290113 | pages never go back and learn the end, cancels are heard and stay, rows settle, nothing drives for a deleted run but a thread that a failed compatibility run left behind |
| `exploration` | pass | 1480401 | no page is forgotten, no action is performed twice or on a wrong page, the exploration ends |
| `artifact_overlap` | violated | 34913 | finding 1 |
| `agent_broken_send` | violated | 1536 | finding 2 |
| `stale_capture` | violated | 7374 | finding 3 |

**Bounds.** Two or three runs per kind, one device (two in `limiter_safety`), one to three users,
limits of one or two. A conflict needs a holder and a waiter, and a third party to pass the
waiter or to inherit what the holder left; limits of one and two make "at the limit" and "below
it" both occur. Runs happen once each (a second life of a thread is another member of the set).
What else is bounded:

- `MaxCancels` calls of `/runs/cancel`, and the sets `Happenings` and `Operations` of outside
  events. In `slots_and_leases` crashes meet four runs that ask the limiter (`leases`), and the
  other writers of the row a Fastbot task (`row`): what the row becomes depends on who wrote it
  last, and one lease is enough to be overwritten at each of its steps.
- `run_mix` starts with one of four parties (`PartiesSpec`): two executions of a scenario with
  cancels; these, or two case runs, with a WebSocket run; one case run with a WebSocket run and
  cancels. Case and scenario runs write different rows and meet only at the device's event.
- `steps`: three writes (`MaxWrites`): a save, one that invalidates it, one that could win with
  the spent token. Three keys (`RowIds`), so that a key can be given again or not. `CONSTRAINT
  OneWild` follows a behaviour no further after two requests wrote without a token: one is
  enough to excuse the other client's loss.
- `artifacts`: grace and lifetime of one hour and three hours in all: before, within and after
  each. `CONSTRAINT NoOverlap` leaves out every store of a content on the collector's list,
  from the start of a collection (`StartGc`) to its commit. That is more than the window in which
  the code does lose files, between check and commit; `artifact_overlap` shows that loss, and
  `artifacts` says nothing of it.
- `agents`: two ports for two devices, so that the range is used up; `hub` has three sessions of
  an agent with one phone, and a second agent row after a deletion, `plug` two sessions whose
  phones come and go (`OnePhone`, `TwoSessions`). `services`: one publication more than the end,
  three streams, two inspection runs of one id with `Reuse = FALSE` (an id is given again only
  when its former run is over; with `TRUE` see Observations), one crash.
- `exploration`: four pages (`MCExploration`): the root scrolls, two pages share a surface and
  a logical page, one is out of scope; both schedulers.

`CHECK_DEADLOCK FALSE` where all runs may be over and then nothing is left to do; `exploration`
does check for deadlock. Symmetry is used with safety
properties only, over runs of the same kind and over the keys of rows.

**Fairness.** Weak fairness of what server threads do on their own: they are OS threads or asyncio
tasks that only block on the condition variable, on a lock held for a few statements or on the
database. `Condition.wait` with a time limit wakes by itself, so a deadline and the polling of the
abort event (every 0.2 s) are fair once they are due. The same holds of the sender of a session,
of live pages and of inspection threads. The keeper's adb commands have strong fairness: each may
fail, but the round is repeated every few seconds, and a command that is issued again and again
succeeds at some time. Nothing is assumed of users, timeouts and outside events. That a *task*
ends is assumed only where the property is about the others, and for `CancelledRunEnds` only for a
task whose abort event is set, as the runner polls it between steps. `Exploration` states that the
thread does not stop before its end (every call of the device has a timeout); it is written
without `WF`, as all of `Next` is enabled until then.

The last definitions of some modules are properties that a comment, a docstring or intuition
suggests and that the code does not have: those with a run are findings, the others are listed
as observations, and TLC refutes them on instances like those of the runs.

## Findings

1. **A store loses its file to the collector** (`artifact_overlap`): the collector deletes the file
   after its check for references and commits the row later (`artifact_store.py:1335`); a store of
   the same content in between refers to both. The docstring (`artifact_store.py:1293`) says that
   it "never breaks a live reference".
2. **An agent whose send failed stays online** (`agent_broken_send`): `shutdown_sender` marks the
   session closed (`hub.py:282`), and `_teardown_session` returns at once for a closed one
   (`hub.py:908`), so table, listeners and row stay. `docs/REMOTE_DEVICE_AGENT.md:58` promises
   OFFLINE.
3. **A stale capture of the root is used** (`stale_capture`): an unknown path compares like the
   root's empty one (`engine.py:6774`), so actions of the root may be performed on another page,
   against the comment at `engine.py:6778-6781`.

**Observations.** Disagreements that the models show without a run of their own:

- *Limiter.* A waiter for a device is passed by a later one for the same device if its own user
  is at the limit (`DeviceFirstComeFirstServed`; `execution_limiter.py:268` says "strictly first
  come first served").
- *Device row.* The end of a WebSocket run sets BUSY to IDLE without a look at the owner
  (`OnlyOwnerSetsIdle`; `cross_platform_execution.py:1091` against `EXECUTION_SPEC.md:177`); it does
  not ask the limiter either, so `OneTaskPerDevice` speaks of `LimiterRuns` only. After a crash under a lease
  no code path clears `lease_task_id` but the lost owner's (`UnlockFreesDevice`; `devices.py:2155`).
- *Runs.* A cancel of a scenario run between grant and new record is dropped (`CancelSticks` over
  scenario runs; `scenario_execution.py:600`). A queued record that times out between `_match` and
  the loop counts as running, and the occupant of its device is aborted (`OnlyRequestedStop`;
  `run_control.py:195-199`). A failing write between grant and `with` keeps the slot
  (`PromoteFails`; `cases.py:1014`). A failing handler removes the next run's event
  (`HandlerFails`), as does the thread of a deleted case beside a scenario run
  (`cases.py:1196`), so that `OccupantHearsDevice` holds for runs of one kind only.
- *Version tokens.* The answer of a save of a scenario, or of a save that leaves a case without
  steps, may carry the token of a later save (`AnswerCarriesOwnToken`; `scenarios.py:260-265`,
  `cases.py:941-951`: the row is loaded again after the commit, and an empty list has no row
  that could be missing). The next guarded save of that client overwrites what it never saw.
  `NoLostUpdate` says that this is the only way in which one guarded save loses another. What
  `update_test_case` wrote may be overwritten by a save with an older token (`UpdateIsProtected`;
  the comment at `cases.py:805` says it may not).
- *Agents.* Callers that wait for a control message are not let go when the session ends
  (`ShutdownAnswersAll`; `hub.py:216-221`).
- *Inspections.* A cancel that comes after the engine's last look at its event does not make the
  run ABORTED (`CancelledEndsAborted`; `engine.py:9777-9780`); with an id given again too early
  the old thread unregisters the new run's event (`CancelIsHeard` with `Reuse = TRUE`;
  `engine.py:9839`); a page may call a run finished whose engine still works (`FinishedIsOver`;
  `inspections.py:1863`).
- *Compatibility.* The stored end of a run overwrites a cancel (`CancelIsAuthoritative`;
  `compatibility.py:3314`); the background thread may end with a device leased (`DevicesGivenBack`;
  `compatibility.py:3298`). When a summary fails, the run becomes ERROR while threads drive on
  (3277-3325): their devices stay leased, but the run may be deleted under them, so
  `DeletedRunRests` and `NoResurrection` make an exception of a run that has given up
  (`GivenUp`). A cell's summary that runs only then finds ERROR and makes the row RUNNING, for good
  (1012-1050); a device acquired for the closed loop is released by nobody (2558-2570).
- *Exploration.* Final labels are overwritten at the end (`LabelsStay`; `engine.py:9087-9105`
  against the comments at 5522 and 6667), a covered page is queued once more
  (`CoveredOwesNothing`; 5096), results are overwritten by a stale queue entry (`ResultStays`;
  6873-6885). A page both expanded and queued loses actions that it showed since (5688-5721). With
  the coverage scheduler a scroll that lands on another page with nothing new leaves that page
  tracked and never queued (8605-8612), which is why `FrontierSettles` speaks of pages that
  were queued.

## What is proved

The theorems hold for every value of the constants that the named assumptions allow: any numbers
of runs, users, devices, contents, clients, sessions or pages and any limits. The invariants that
the runs check are not inductive as they stand; each proof module defines the strengthening
(`IInv`), which says where a thread stands and what is then true of everything it has touched,
shows that `Init` establishes it and that each action keeps it (a lemma for each action, or one
for each helper that the actions share), and derives the properties from it. Beside the hypotheses
named in the table each theorem rests on the assumption that its module states of its constants
(`LimiterAssumption`, `LeaseAssumption`, `RunAssumption`, `EditingAssumption`, `StoreAssumption`,
`HubAssumption`, `SenderAssumption`, `BoundsAssumption`, `ExplorationAssumption`), which TLC evaluates on the
instances. `Invariance` (of every proof module but `ServicesProofs`, where each of the three
systems has a lemma of its own) is `Spec => []IInv` for its strengthening.

| Theorem | States | Under |
|---|---|---|
| `AccountingCorrectness`, `LimitsCorrectness`, `WorkConservation`, `WakeupCorrectness`, `OwnershipCorrectness` | `SlotAccounting` (with `TypeOK`), `SlotLimits`, `WorkConserving`, `NoLostWakeup` with `FailedHoldsNothing`, `OwnedOrNothing` of `ExecutionLimiter` | `LimiterAssumption` (limits positive, waiters finite) |
| `Refinement` | `AllocatorSpec`: the limiter implements `SlotAllocator` | the same |
| `AllocatorPromise`, `FirstComeFirstServed` | `Promise` of `SlotAllocator`: limits hold, nobody pending would fit; and, through the refinement, `NobodyIsPassed` of the limiter: no slot goes past an earlier request that asks for no more (not checked by a run of its own) | the same |
| `SlotsAreGivenBack`, `DevicesAreLeftClean`, `DevicesAreExclusive` | `NoSlotLeaks`, `DeviceLeftClean`, `DeviceExclusive` of `DeviceLease` | - |
| `RowsAreSettled`, `CancelIsKept`, `RegistryCorrectness` | `RowsSettle`, `CancelSticks`, `RegistryInOrder` of `RunControl` | - |
| `OccupantIsHeard` | `OccupantHearsDevice` | `OneKind` |
| `MixCorrectness` | `MixInOrder` of `MCRunControl`, for every party that may meet (`PartiesSpec`) | - |
| `EditorsSeeWhatTheyReplace`, `TokensAreSpent`, `BothCopiesWritten` | `NoLostUpdate`, `OneWinnerPerToken`, `CopiesInOrder` of `StepEditing` | - |
| `EvidenceStaysReadable`, `GraceIsKept` | `EvidenceReadable`, `GraceInOrder` of `ArtifactStore` | `[]NoOverlap` |
| `PortsCorrectness`, `TableCorrectness` | `PortsNotShared`, `TableIsTrue` of `AgentHub` | `HubAssumption` |
| `QueuesCorrectness`, `TurnsCorrectness`, `SleepersCorrectness` | `QueuesAccounted` (with the types of hub, sender and keeper), `NoMonopoly`, `SleepersAreOwed` of `AgentSender` | `SenderAssumption` (no payload is larger than the bound) |
| `CancelledStaysSo`, `PagesOnlyGoOn` | `NoResurrection` of `CompatRun`, `PageNeverGoesBack` of `InspectionLive` | `BoundsAssumption` |
| `RunsAreSettled`, `DeletedRunsRest` | `RunsSettle`, `DeletedIsNotDriven` | `~Reuse` |
| `FrontierCorrectness`, `OnPageOnly`, `OnceOnly` | `FrontierInOrder`, `ActsOnParent`, `AtMostOnce` of `Exploration` | `ExplorationAssumption` |

The arguments, in short:

- *Limiter.* The counters *equal* the number of holders (`Exact`: all, of each user, of each
  device) and stay within the limits (`Within`); ticket, queue, state and position of each waiter
  agree (`Coherent`). The scan of the queue is not recursive but a choice of the greedy set of
  grants (`ScanGrants`), so a step first changes the books of one waiter and then adds a set that
  the scan admits; one lemma for each half carries `IInv` over both. *Refinement*: what a scan
  grants is a `TopUp` of the allocator (`ScanTopsUp`): it is within the limits, leaves nobody whom
  they would allow, and passes no earlier request that asks for no more than one it grants. So
  each change of the limiter's books is a `Request`, `Withdraw` or `GiveBack` with the top-up that
  follows it, and the order of service is proved once, of the allocator, and holds of the limiter.
- *Device row.* `SlotsFollow` (where a run has its slot), `OneHolder`, `OwnersHold` (the owner of
  a row is at work or dead) and `BusyIsOwed` (a row that is BUSY has somebody who will reset it).
  One task per device follows from the slots alone. That the row tells it is claimed for a device
  only until somebody outside the limiter has written its row (`disturbed`), because the code does
  not have it otherwise (see Observations); such a run disturbs its device before it drives it
  (`StreamsDisturb`), and of the others only the holder of the device's slot writes the row.
- *Runs.* `Places`, `SlotsHeld`, `Listing` (record and registry), `RowsOwed`, `CancelHeard`.
  `Occupied` says whose event a device has, and is inductive only where runs of one kind meet
  (`OneKind`). Where kinds may meet, but executions of a scenario were the only ones asked for
  (`MixInOrder`), the others are told by their outcome: a run that is leaving without one was never
  under way (`Decided`), so as long as the parties are `Absent` the argument for one kind goes
  through, failing writes included.
- *Steps.* Requests that write are numbered (`Numbering`), a time stamp is the number of a
  request that has written (`Stamps`), and a token that won is behind the row (`Spent`). `Guarded`
  says what a client knows, or is about to know, if its token is the row's (`Current`): it was
  shown the steps of the row, unless the token came with an answer that is not `Informed`. As
  keys are used again, an answer whose rows are all there may show those of a later save; then
  it shows these (all rows of a case come from one save, `Stored`), and they go with its token.
- *Artifacts.* `Storing` and `Releasing` say what a thread knows of its content, `Doomed` and
  `ScanKnows` the same of the collector's list, `OrphansKnown` why it may be on it. `NoOverlap` is
  a hypothesis about the behaviour, since without it the property is false (finding 1).
- *Agents.* A listener that starts or is up holds its port (`PortsHeld`), and an agent is online
  only while somebody is going to take it offline (`OnlineIsOwed`), or its sender broke. In the
  sender a connection has one turn if and only if it has data (`OneTurn`), so there are at most as
  many turns as connections, and what passed a connection and its place among the turns together
  stay below that number (`PassedFew`). Bytes are counted, not summed: a queue's positions and
  bytes form a set (`Chunks`) whose cardinality the counter equals (`Counted`). A reader without
  room has data in its queue, hence a turn, hence the sender is awake or started (`SenderStarts`):
  that is `SleepersAreOwed`, the safety half of `BlockedReaderGoesOn`. A connection is taken out of
  the turns by rank (`Without`: the k-th element that stays) and not by a recursion, and a lemma
  says that every other turn keeps its order and only moves forward.
- *Inspection and compatibility runs.* The abort event of a run is found by every cancel until the
  engine has taken its last look (`CancelReachesEngine`, `CancelReachesCells`), and a row that is
  not settled has a thread that will settle it (`RowIsOwed`), unless that thread has given up;
  who drives a device has it leased, left behind or not; in the live view the channel holds
  the newest snapshot of the newest stream (`NewestStream`) and an end is the last word
  (`EndsStay`).
- *Exploration.* `Owed`: every page that was ever queued is in the queue, at work, expanded, has
  an action left (and is found by `Unresolved` once more), or has a final label. One lemma says
  of each helper of the frontier that it keeps this, and an action is a chain of such helpers.
  `CallsAttempted` (what was performed was marked before) gives `AtMostOnce`; `Placed` (a capture
  at hand shows the page the device is on, but for the root's) gives `ActsOnParent`.

Only model-checked is all liveness (`WaitersHear`, `EverybodyEnds`, `CancelledRunEnds`,
`BlockedReaderGoesOn`, `AdbConverges`, `EveryPageLearnsTheEnd`, `CancelIsHeard`, `ExplorationEnds`),
which is beyond the prover. Every invariant and every action property of the runs is proved.

## What is not modelled, and why

Inside the modelled parts: the batch handler of cases (several devices, one row write), reports
and summaries, iOS states (`WDA_DOWN`), database errors other than those named in `Happenings`,
a scenario deleted while it is queued, positions in the queue and statistics (read only).
`StartRow` always writes the status, where the ORM leaves out one that the handler has read
already; the row then shows an active status less often than the model says. Of the exploration:
priorities in the queue, overlays that close themselves, the buffer of transitions, the
verification of stable paths; coverage of a role by anything but a performed action
(`NO_NEW_COVERAGE`, verification by observation, sampling; `engine.py:7234-7265`, 5216-5272,
6168-6189) and reuse of a family without the coverage scheduler (5122-5125), so that `Skip` has
fewer reasons than the code; the limit of variants at a scroll (8341-8364), the closing of a page
whose enqueue is refused (5589-5603), and the order of the checks before a cycle is recognised
(8534-8587). Of agents: tokens and the parsing of frames. Of artifacts: the
report of the store's health and the mirroring of old files. Two pairs of steps are one:
disconnect and connect of a repair (`AdbKeeper.Repair`), the selection of expired references and
their release (`ArtifactStore.StartGc`).

Whole components: page semantics and replay of steps (`inspection/semantics.py`,
`inspection/replay.py` and the coverage of one vendor's business pages) are data processing whose
results `Exploration` takes as choices; device streaming, drivers and the pool of WDA ports are
processes and sockets; the scheduler only says when a scenario run starts; API testing, client
runs, reports, settings and users are rows that one request writes; the front end is a view.

## Plan

Done: every module of the table above and the theorems. Left for later:

1. Crash and restart in `RunControl`; the batch handler.
2. Life cycle of API test runs with their recovery at start-up; streams of a device; the pool
   of WDA ports.
