----------------------------- MODULE InspectionRun -----------------------------
(***************************************************************************)
(* The life of an inspection run (inspection/engine.py, inspection/runtime.py,  *)
(* api/inspections.py): created as a row and a background task, cancelled        *)
(* through an event of its own, deleted when its row says that it is over.  The  *)
(* rows of one id are modelled: SQLite gives the id of the newest run again once  *)
(* that run is deleted, and the table of events, the lease and the engine know a   *)
(* run by its id only.  What an inspection does on the device is left out.        *)
(***************************************************************************)
EXTENDS Naturals

CONSTANTS
  MaxRuns,      \* bound: runs that get the id, one after the other
  Cancels,      \* cancel requests
  MaxCrashes,   \* bound: restarts of the server
  EarlyReuse    \* the id may be given again before the engine, the cancels and the
                \* deletion of the former run are done

Gens == 1 .. MaxRuns

VARIABLES
  row,       \* the row and its branch rows, or none
  created,   \* runs created so far
  engine,    \* per run: the steps of execute_inspection_run
  event,     \* per run: the abort event its engine was given
  final,     \* per run: final_status
  table,     \* _RUN_ABORT_EVENTS of the id, 0 for none
  set,       \* the events that are set
  events,    \* events made so far
  holder,    \* the run whose engine holds the device, 0 for none
  onDevice,  \* the event registered for the device
  cancel,    \* per cancel request: how far it is, and the run it found
  deleter,   \* the delete request: idle, deleting or discarding
  creator,   \* the create request: idle or stored
  crashes,
  inTime     \* history: runs cancelled before the last look of their engine

vars == <<row, created, engine, event, final, table, set, events, holder, onDevice, cancel,
          deleter, creator, crashes, inTime>>

NoRow == [run |-> 0, status |-> "none", stage |-> "none", branches |-> "none"]
Active == {"PENDING", "RUNNING"}
Terminal == {"PASS", "ERROR", "ABORTED"}

Init ==
    /\ row = NoRow /\ created = 0 /\ table = 0 /\ set = {} /\ events = 0
    /\ engine = [g \in Gens |-> "none"] /\ event = [g \in Gens |-> 0]
    /\ final = [g \in Gens |-> "none"]
    /\ holder = 0 /\ onDevice = 0
    /\ cancel = [k \in Cancels |-> [pc |-> "idle", run |-> 0]]
    /\ deleter = "idle" /\ creator = "idle" /\ crashes = 0 /\ inTime = {}

-----------------------------------------------------------------------------
(* The table of events.                                                     *)

\* abort_event_for_run: the event of the id, made if there is none.
EventOfId == IF table = 0 THEN events + 1 ELSE table
EventKept == table' = EventOfId /\ events' = IF table = 0 THEN events + 1 ELSE events

\* A slip: only an event that is there is set.
AbortIfThere ==
    /\ set' = IF table = 0 THEN set ELSE set \cup {table}
    /\ UNCHANGED <<table, events>>

\* request_abort.
RequestAbort == EventKept /\ set' = set \cup {EventOfId}

-----------------------------------------------------------------------------
(* Creation.                                                                *)

Alive(g) == engine[g] \notin {"none", "done"}

FormerIsOver ==
    /\ deleter = "idle" /\ \A g \in Gens : ~Alive(g)
    /\ \A k \in Cancels : cancel[k].pc \in {"idle", "done"}

\* create_run commits the rows.
Create ==
    /\ row = NoRow /\ creator = "idle" /\ deleter # "deleting" /\ created < MaxRuns
    /\ ~EarlyReuse => FormerIsOver
    /\ created' = created + 1 /\ creator' = "stored"
    /\ row' = [run |-> created + 1, status |-> "PENDING", stage |-> "waiting",
               branches |-> "active"]
    /\ UNCHANGED <<engine, event, final, table, set, events, holder, onDevice, cancel, deleter,
                   crashes, inTime>>

\* ... and hands the event of the id to the background task.
Launch ==
    /\ creator = "stored" /\ creator' = "idle"
    /\ EventKept
    /\ event' = [event EXCEPT ![created] = EventOfId]
    /\ engine' = [engine EXCEPT ![created] = "queued"]
    /\ UNCHANGED <<row, created, final, set, holder, onDevice, cancel, deleter, crashes, inTime>>

-----------------------------------------------------------------------------
(* execute_inspection_run.                                                  *)

Step(g, from, to) == engine[g] = from /\ engine' = [engine EXCEPT ![g] = to]

Begin(g) ==
    /\ \/ row = NoRow /\ Step(g, "queued", "done") /\ table' = 0
       \/ row # NoRow /\ Step(g, "queued", "checking") /\ UNCHANGED table
    /\ UNCHANGED <<row, created, event, final, set, events, holder, onDevice, cancel, deleter,
                   creator, crashes, inTime>>

\* A slip: the branches keep their status.
BranchesLeft == row

\* _finish_active_branches, _finish_branch: no branch stays PENDING or RUNNING.
BranchesEnded == IF row = NoRow THEN row ELSE [row EXCEPT !.branches = "ended"]

\* An exception, or the end of the work: the finally clause comes next.
Ends(g, from, status) ==
    /\ Step(g, from, "ending")
    /\ final' = [final EXCEPT ![g] = status]
    /\ row' = BranchesEnded
    /\ UNCHANGED <<created, event, table, set, events, holder, onDevice, cancel, deleter,
                   creator, crashes, inTime>>

\* _check_abort.
Aborted(g, from) == event[g] \in set /\ Ends(g, from, "ABORTED")
Unaborted(g, from, to) ==
    /\ event[g] \notin set /\ Step(g, from, to)
    /\ UNCHANGED <<row, created, event, final, table, set, events, holder, onDevice, cancel,
                   deleter, creator, crashes, inTime>>

FirstCheck(g) == Aborted(g, "checking") \/ Unaborted(g, "checking", "leasing")

\* DeviceExecutionLease.acquire.
Lease(g) ==
    /\ holder = 0 /\ Step(g, "leasing", "leased") /\ holder' = g
    /\ UNCHANGED <<row, created, event, final, table, set, events, onDevice, cancel, deleter,
                   creator, crashes, inTime>>

\* acquire raises when the wait is aborted, times out or finds the device occupied:
\* the run fails as if the infrastructure had.
LeaseFails(g) == Ends(g, "leasing", "ERROR")

Register(g) ==
    /\ Step(g, "leased", "registered") /\ onDevice' = event[g]
    /\ UNCHANGED <<row, created, event, final, table, set, events, holder, cancel, deleter,
                   creator, crashes, inTime>>

SecondCheck(g) == Aborted(g, "registered") \/ Unaborted(g, "registered", "starting")

\* The row becomes RUNNING, whatever it was; without a row the function returns.
Start(g) ==
    /\ Step(g, "starting", IF row = NoRow THEN "ending" ELSE "driving")
    /\ row' = IF row = NoRow THEN row ELSE [row EXCEPT !.status = "RUNNING", !.stage = "working"]
    /\ final' = [final EXCEPT ![g] = IF row = NoRow THEN "ERROR" ELSE @]
    /\ UNCHANGED <<created, event, table, set, events, holder, onDevice, cancel, deleter,
                   creator, crashes, inTime>>

\* The device is driven until the work is done, fails or is aborted.
Work(g) == event[g] \notin set /\ Ends(g, "driving", "PASS")
Break(g) == Ends(g, "driving", "ERROR")
WorkAborted(g) == Aborted(g, "driving")

\* The finally clause: the device event, the lease, the row, the event of the run.
Unregister(g) ==
    /\ Step(g, "ending", "releasing")
    /\ onDevice' = IF holder = g THEN 0 ELSE onDevice
    /\ UNCHANGED <<row, created, event, final, table, set, events, holder, cancel, deleter,
                   creator, crashes, inTime>>

Release(g) ==
    /\ Step(g, "releasing", "summing")
    /\ holder' = IF holder = g THEN 0 ELSE holder
    /\ UNCHANGED <<row, created, event, final, table, set, events, onDevice, cancel, deleter,
                   creator, crashes, inTime>>

\* _update_run_summary writes the row of the id.
Summarise(g) ==
    /\ Step(g, "summing", "closing")
    /\ row' = IF row = NoRow THEN row
              ELSE [row EXCEPT !.status = final[g], !.stage = "final"]
    /\ UNCHANGED <<created, event, final, table, set, events, holder, onDevice, cancel, deleter,
                   creator, crashes, inTime>>

\* discard_abort_event removes the event of the id.
Close(g) ==
    /\ Step(g, "closing", "done") /\ table' = 0
    /\ UNCHANGED <<row, created, event, final, set, events, holder, onDevice, cancel, deleter,
                   creator, crashes, inTime>>

-----------------------------------------------------------------------------
(* cancel_run.                                                              *)

CancelLook(k) ==
    /\ cancel[k].pc = "idle" /\ row.status \in Active
    /\ cancel' = [cancel EXCEPT ![k] = [pc |-> "aborting", run |-> row.run]]
    /\ UNCHANGED <<row, created, engine, event, final, table, set, events, holder, onDevice,
                   deleter, creator, crashes, inTime>>

LooksAgain(g) ==
    engine[g] \in {"none", "queued", "checking", "leasing", "leased", "registered", "starting",
                   "driving"}

CancelAborts(k) ==
    /\ cancel[k].pc = "aborting" /\ RequestAbort
    /\ cancel' = [cancel EXCEPT ![k].pc = "storing"]
    /\ inTime' = IF row.run = cancel[k].run /\ LooksAgain(row.run) THEN inTime \cup {row.run}
                 ELSE inTime
    /\ UNCHANGED <<row, created, engine, event, final, holder, onDevice, deleter, creator,
                   crashes>>

\* The row of the id becomes ABORTED; without a row the request fails.
CancelStores(k) ==
    /\ cancel[k].pc = "storing" /\ cancel' = [cancel EXCEPT ![k].pc = "done"]
    /\ row' = IF row = NoRow THEN row
              ELSE [row EXCEPT !.status = "ABORTED", !.stage = "cancelling"]
    /\ UNCHANGED <<created, engine, event, final, table, set, events, holder, onDevice, deleter,
                   creator, crashes, inTime>>

\* The device is unlocked: the event registered for it is set.
Unlock ==
    /\ onDevice # 0 /\ onDevice \notin set /\ set' = set \cup {onDevice}
    /\ UNCHANGED <<row, created, engine, event, final, table, events, holder, onDevice, cancel,
                   deleter, creator, crashes, inTime>>

-----------------------------------------------------------------------------
(* delete_run.                                                              *)

\* A slip: only the status of the row counts.
LeftByStatus == row.status \in Terminal

\* The status is terminal and the lease of the device does not name the run.
LeftByEngine == row.status \in Terminal /\ holder = 0

\* The checks; a row that still says "cancelling" is brought to its end.
DeleteLook ==
    /\ deleter = "idle" /\ row # NoRow /\ LeftByEngine
    /\ deleter' = "deleting"
    /\ row' = IF row.status = "ABORTED" /\ row.stage = "cancelling"
              THEN [row EXCEPT !.stage = "final", !.branches = "ended"] ELSE row
    /\ UNCHANGED <<created, engine, event, final, table, set, events, holder, onDevice, cancel,
                   creator, crashes, inTime>>

DeleteCommit ==
    /\ deleter = "deleting" /\ deleter' = "discarding" /\ row' = NoRow
    /\ UNCHANGED <<created, engine, event, final, table, set, events, holder, onDevice, cancel,
                   creator, crashes, inTime>>

DeleteDiscards ==
    /\ deleter = "discarding" /\ deleter' = "idle" /\ table' = 0
    /\ UNCHANGED <<row, created, engine, event, final, set, events, holder, onDevice, cancel,
                   creator, crashes, inTime>>

\* A restart: rows and the lease in the device row stay, the rest is lost.
Crash ==
    /\ crashes < MaxCrashes /\ crashes' = crashes + 1
    /\ engine' = [g \in Gens |-> IF Alive(g) THEN "done" ELSE engine[g]]
    /\ table' = 0 /\ onDevice' = 0 /\ deleter' = "idle" /\ creator' = "idle"
    /\ cancel' = [k \in Cancels |-> [cancel[k] EXCEPT !.pc = IF @ = "idle" THEN @ ELSE "done"]]
    /\ UNCHANGED <<row, created, event, final, set, events, holder, inTime>>

-----------------------------------------------------------------------------
Next ==
    \/ Create \/ Launch \/ Unlock \/ Crash
    \/ DeleteLook \/ DeleteCommit \/ DeleteDiscards
    \/ \E k \in Cancels : CancelLook(k) \/ CancelAborts(k) \/ CancelStores(k)
    \/ \E g \in Gens : \/ Begin(g) \/ FirstCheck(g) \/ Lease(g) \/ LeaseFails(g)
                       \/ Register(g) \/ SecondCheck(g) \/ Start(g)
                       \/ Work(g) \/ Break(g) \/ WorkAborted(g)
                       \/ Unregister(g) \/ Release(g) \/ Summarise(g) \/ Close(g)

\* Threads go on and an abort is noticed; the work itself need not end.
Fairness ==
    /\ WF_vars(Launch)
    /\ \A k \in Cancels : WF_vars(CancelAborts(k) \/ CancelStores(k))
    /\ \A g \in Gens : WF_vars(\/ Begin(g) \/ FirstCheck(g) \/ Lease(g)
                               \/ (event[g] \in set /\ LeaseFails(g))
                               \/ Register(g) \/ SecondCheck(g) \/ Start(g) \/ WorkAborted(g)
                               \/ Unregister(g) \/ Release(g) \/ Summarise(g) \/ Close(g))

Spec == Init /\ [][Next]_vars /\ Fairness

-----------------------------------------------------------------------------
(* The variables keep their types. *)
TypeOK ==
    /\ row = NoRow \/ row \in [run : Gens, status : Active \cup Terminal,
                               stage : {"waiting", "working", "cancelling", "final"},
                               branches : {"active", "ended"}]
    /\ created \in 0 .. MaxRuns /\ holder \in 0 .. MaxRuns /\ inTime \subseteq Gens
    /\ final \in [Gens -> Terminal \cup {"none"}]
    /\ events \in Nat /\ {table, onDevice} \subseteq 0 .. events
    /\ set \subseteq 1 .. events /\ event \in [Gens -> 0 .. events]
    /\ cancel \in [Cancels -> [pc : {"idle", "aborting", "storing", "done"}, run : 0 .. MaxRuns]]
    /\ deleter \in {"idle", "deleting", "discarding"} /\ creator \in {"idle", "stored"}
    /\ engine \in [Gens -> {"none", "queued", "checking", "leasing", "leased", "registered",
                            "starting", "driving", "ending", "releasing", "summing", "closing",
                            "done"}]
    /\ crashes \in 0 .. MaxCrashes

(* When no engine, creation or cancel is at work any more, a row is not left       *)
(* PENDING or RUNNING and neither are its branches; a restart may leave them.     *)
RowsOfRunsSettle ==
    (crashes = 0 /\ creator = "idle" /\ row # NoRow /\ \A g \in Gens : ~Alive(g)) =>
        row.status \in Terminal /\ row.branches = "ended"

(* A device is not driven for a run whose rows were deleted.                      *)
DrivenHasRow == \A g \in Gens : engine[g] = "driving" => row # NoRow

(* A run that was cancelled before its engine's last look at its event ends,        *)
(* although its work need not end by itself, and not as passed, although the engine *)
(* writes the row without looking.  It needs that the id is not given again too     *)
(* early (EarlyReuse).                                                           *)
CancelIsHeard == \A g \in Gens : g \in inTime ~> (~Alive(g) /\ final[g] # "PASS")

(* Who cancels a run sees it end as ABORTED.                                     *)
CancelledEndsAborted ==
    \A g \in inTime : row.run = g /\ engine[g] \in {"closing", "done"} /\ crashes = 0
                        => row.status = "ABORTED"
=============================================================================
