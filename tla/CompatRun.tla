------------------------------- MODULE CompatRun -------------------------------
(***************************************************************************)
(* A compatibility run (api/compatibility.py): one background thread with an   *)
(* event loop, one task per cell (device) in it, all listening to one event;    *)
(* requests that cancel and delete the run, and unlocks of its devices.  The     *)
(* start of a cell and the cancel exclude each other by a lock; the end of the    *)
(* run is written without it.  What a cell does with its pages is left out.       *)
(*                                                                             *)
(* A cell waits for its device, works on it and gives it back in threads of their *)
(* own (asyncio.to_thread).  An error that leaves the loop closes it, but waits    *)
(* for none of these threads: they go on, and what their task had left to do is    *)
(* done, in part, when the task is collected as garbage.                          *)
(***************************************************************************)
EXTENDS Naturals

CONSTANTS
  Cells,
  MayFail,      \* the database may refuse the summary that ends a cell
  MaxCrashes    \* bound: restarts of the server

VARIABLES
  row,      \* CompatibilityRun.status, or none after the deletion
  cell,     \* CompatibilityCell.status
  task,     \* per cell: the steps of _execute_cell
  back,     \* the background thread: queued, cells, comparing, read, failed, closing, done
  result,   \* what the final summary found: the status it will write
  table,    \* an event for the run is in _RUN_ABORT_EVENTS
  set,      \* that event is set
  leased,   \* the cells whose device is leased
  onDevice, \* the cells whose device has the event registered
  cancel,   \* the cancel request: idle, found or done
  deleter,  \* the delete request: idle or checked
  crashes

vars == <<row, cell, task, back, result, table, set, leased, onDevice, cancel, deleter,
          crashes>>

Terminal == {"PASS", "FAIL", "ERROR", "ABORTED"}
Statuses == Terminal \cup {"PENDING", "RUNNING"}

Init ==
    /\ row = "PENDING" /\ cell = [c \in Cells |-> "PENDING"]
    /\ task = [c \in Cells |-> "none"] /\ back = "queued" /\ result = "none"
    /\ table = FALSE /\ set = FALSE
    /\ leased = {} /\ onDevice = {} /\ cancel = "idle" /\ deleter = "idle" /\ crashes = 0

-----------------------------------------------------------------------------
(* The background thread.                                                   *)

\* _execute_run_async: the event of the run, which a cancel may have set already, and a
\* task for every cell row.
Begin ==
    /\ back = "queued" /\ back' = "cells"
    /\ table' = TRUE /\ set' = (table /\ set)
    /\ task' = [c \in Cells |-> IF row = "none" THEN "ended" ELSE "new"]
    /\ UNCHANGED <<row, cell, result, leased, onDevice, cancel, deleter, crashes>>

\* The loop runs the tasks, for a moment also after an error.
LoopRuns == back \in {"cells", "failed", "closing"}

Moves(c, from, to) ==
    /\ LoopRuns /\ task[c] = from /\ task' = [task EXCEPT ![c] = to]

\* A slip: the rows are not read again under the lock.
StaysUnread(c) == FALSE

\* The reasons not to start a cell, read under the lock.
Stays(c) == set \/ row = "ABORTED" \/ cell[c] = "ABORTED"

StartCell(c) ==
    /\ \/ /\ row = "none" \/ Stays(c)
          /\ Moves(c, "new", "ended") /\ UNCHANGED <<row, cell>>
       \/ /\ row # "none" /\ ~Stays(c)
          /\ Moves(c, "new", "waiting")
          /\ cell' = [cell EXCEPT ![c] = "RUNNING"] /\ row' = "RUNNING"
    /\ UNCHANGED <<back, result, table, set, leased, onDevice, cancel, deleter, crashes>>

\* The loop goes through every task before it goes on with one.
Resumed(c) == \A d \in Cells : task[d] # "new"

\* A cell ends with a status; the finally clause comes next.
CellEnds(c, from, status) ==
    /\ Moves(c, from, "ending")
    /\ cell' = [cell EXCEPT ![c] = status]
    /\ UNCHANGED <<row, back, result, table, set, leased, onDevice, cancel, deleter,
                   crashes>>

Lease(c) ==
    /\ Resumed(c) /\ Moves(c, "waiting", "leased") /\ leased' = leased \cup {c}
    /\ UNCHANGED <<row, cell, back, result, table, set, onDevice, cancel, deleter, crashes>>

\* The device is occupied, or the wait was aborted: the cell fails in both cases.
LeaseFails(c) == Resumed(c) /\ CellEnds(c, "waiting", "FAIL")

\* _is_cancelled.
Cancelled == set \/ row = "ABORTED"

\* The abort event is registered only now; a cancel that came before is noticed.
Register(c) ==
    /\ Moves(c, "leased", "registered") /\ onDevice' = onDevice \cup {c}
    /\ UNCHANGED <<row, cell, back, result, table, set, leased, cancel, deleter, crashes>>

Look(c) ==
    \/ Cancelled /\ CellEnds(c, "registered", "ABORTED")
    \/ /\ ~Cancelled /\ Moves(c, "registered", "working")
       /\ UNCHANGED <<row, cell, back, result, table, set, leased, onDevice, cancel,
                      deleter, crashes>>

\* The body ends, fails, or notices the cancel.
Work(c) == \E s \in {"PASS", "FAIL"} : CellEnds(c, "working", s)
WorkAborted(c) == Cancelled /\ CellEnds(c, "working", "ABORTED")

Unregister(c) ==
    /\ Moves(c, "ending", "releasing") /\ onDevice' = onDevice \ {c}
    /\ UNCHANGED <<row, cell, back, result, table, set, leased, cancel, deleter, crashes>>

Released(c) == leased \ {c}

Release(c) ==
    /\ Moves(c, "releasing", "summing") /\ leased' = Released(c)
    /\ UNCHANGED <<row, cell, back, result, table, set, onDevice, cancel, deleter, crashes>>

\* _update_run_summary(final=False) leaves ABORTED and RUNNING as they are; of a run that
\* ended with an error it makes a RUNNING one, in a second step.
SummaryReads == IF row = "ERROR" THEN "stale" ELSE "ended"

CellSummed(c) ==
    /\ Moves(c, "summing", SummaryReads)
    /\ UNCHANGED <<row, cell, back, result, table, set, leased, onDevice, cancel, deleter,
                   crashes>>

SummaryWrites(c) ==
    /\ task[c] = "stale" /\ task' = [task EXCEPT ![c] = "ended"]
    /\ row' = IF row = "none" THEN row ELSE "RUNNING"
    /\ UNCHANGED <<cell, back, result, table, set, leased, onDevice, cancel, deleter,
                   crashes>>

\* It fails: the exception reaches gather, which does not wait for the other tasks.
CellSummaryFails(c) ==
    /\ MayFail /\ Moves(c, "summing", "ended")
    /\ back' = IF back = "cells" THEN "failed" ELSE back
    /\ UNCHANGED <<row, cell, result, table, set, leased, onDevice, cancel, deleter,
                   crashes>>

\* All cells have ended: devices are compared with each other.
Gathered ==
    /\ back = "cells" /\ \A c \in Cells : task[c] = "ended"
    /\ back' = "comparing"
    /\ UNCHANGED <<row, cell, task, result, table, set, leased, onDevice, cancel, deleter,
                   crashes>>

\* _update_run_summary(final=True): the status it chooses from what it reads.
Summary ==
    IF row = "ABORTED" THEN "ABORTED"
    ELSE IF \E c \in Cells : cell[c] = "FAIL"
    THEN IF \A c \in Cells : cell[c] \in Terminal THEN "FAIL" ELSE "RUNNING"
    ELSE IF \A c \in Cells : cell[c] = "PASS" THEN "PASS" ELSE "ERROR"

FinalRead ==
    /\ back = "comparing" /\ back' = "read" /\ result' = Summary
    /\ UNCHANGED <<row, cell, task, table, set, leased, onDevice, cancel, deleter, crashes>>

\* The status is written if it differs from the one that was read; the event goes.
FinalWrite ==
    /\ back = "read" /\ back' = "done" /\ table' = FALSE
    /\ row' = IF row = "none" \/ result \in {"ABORTED", "RUNNING"} THEN row ELSE result
    /\ UNCHANGED <<cell, task, result, set, leased, onDevice, cancel, deleter, crashes>>

\* Where a task stands that has the loop for itself: it awaits nothing.
Busy == {"registered", "ending", "stale"}

\* The outer handler.  The event of the run is discarded, not set.
Failed ==
    /\ back = "failed" /\ back' = "closing" /\ \A c \in Cells : task[c] \notin Busy
    /\ row' = IF row \in {"none", "ABORTED"} THEN row ELSE "ERROR"
    /\ table' = FALSE
    /\ UNCHANGED <<cell, task, result, set, leased, onDevice, cancel, deleter, crashes>>

\* What a task leaves behind when the loop is closed: the thread it waited for.
LeftBehind(t) ==
    CASE t = "waiting" -> "acquiring"
      [] t = "working" -> "adrift"
      [] t = "releasing" -> "returning"
      [] OTHER -> "ended"

CloseLoop ==
    /\ back = "closing" /\ back' = "done" /\ \A c \in Cells : task[c] \notin Busy
    /\ task' = [c \in Cells |-> LeftBehind(task[c])]
    /\ UNCHANGED <<row, cell, result, table, set, leased, onDevice, cancel, deleter, crashes>>

-----------------------------------------------------------------------------
(* The threads that were left behind.                                       *)

\* One that still waits for the device may get it, and nobody gives it back.
AcquiredForNobody(c) ==
    /\ task[c] = "acquiring" /\ task' = [task EXCEPT ![c] = "ended"]
    /\ leased' \in {leased, leased \cup {c}}
    /\ UNCHANGED <<row, cell, back, result, table, set, onDevice, cancel, deleter, crashes>>

Returned(c) ==
    /\ task[c] = "returning" /\ task' = [task EXCEPT ![c] = "ended"] /\ leased' = Released(c)
    /\ UNCHANGED <<row, cell, back, result, table, set, onDevice, cancel, deleter, crashes>>

\* One that drives the device goes on to the end of what it was called for.
WorkedOn(c) ==
    /\ task[c] = "adrift" /\ task' = [task EXCEPT ![c] = "dropped"]
    /\ UNCHANGED <<row, cell, back, result, table, set, leased, onDevice, cancel, deleter,
                   crashes>>

\* Then its task is collected, and the finally clause runs.  Without a running loop the
\* release fails and is logged, and the summary reads the run, or has it in its session
\* as it was; in a thread with a loop the release is sent off and nothing follows.
Collected(c) ==
    /\ task[c] = "dropped" /\ onDevice' = onDevice \ {c}
    /\ \/ /\ leased' = leased
          /\ \E t \in {SummaryReads, "ended"} : task' = [task EXCEPT ![c] = t]
       \/ leased' = Released(c) /\ task' = [task EXCEPT ![c] = "ended"]
    /\ UNCHANGED <<row, cell, back, result, table, set, cancel, deleter, crashes>>

-----------------------------------------------------------------------------
(* Requests.                                                                *)

CancelLook ==
    /\ cancel = "idle" /\ row \in {"PENDING", "RUNNING"} /\ cancel' = "found"
    /\ table' = TRUE /\ set' = (set /\ table)
    /\ UNCHANGED <<row, cell, task, back, result, leased, onDevice, deleter, crashes>>

\* cancel_run under the lock, with the row as it was read before: the event, the row and
\* the cells that did not start.
CancelStore ==
    /\ cancel = "found" /\ cancel' = "done"
    /\ set' = (set \/ back # "done")
    /\ row' = IF row = "none" THEN row ELSE "ABORTED"
    /\ cell' = [c \in Cells |-> IF cell[c] = "PENDING" THEN "ABORTED" ELSE cell[c]]
    /\ UNCHANGED <<task, back, result, table, leased, onDevice, deleter, crashes>>

\* An unlock of one device sets the event that all cells listen to.
Unlock ==
    /\ onDevice # {} /\ ~set /\ set' = TRUE
    /\ UNCHANGED <<row, cell, task, back, result, table, leased, onDevice, cancel, deleter,
                   crashes>>

\* Terminal, and no cell of an aborted run is at work.
Deletable ==
    /\ row \in Terminal
    /\ row = "ABORTED" => \A c \in Cells : cell[c] \in Terminal

DeleteLook ==
    /\ deleter = "idle" /\ Deletable /\ deleter' = "checked"
    /\ UNCHANGED <<row, cell, task, back, result, table, set, leased, onDevice, cancel,
                   crashes>>

DeleteCommit ==
    /\ deleter = "checked" /\ deleter' = "idle" /\ row' = "none" /\ table' = FALSE
    /\ UNCHANGED <<cell, task, back, result, set, leased, onDevice, cancel, crashes>>

\* A restart: rows and leases in device rows stay.
Crash ==
    /\ crashes < MaxCrashes /\ crashes' = crashes + 1
    /\ back' = "done" /\ task' = [c \in Cells |-> "ended"]
    /\ table' = FALSE /\ onDevice' = {} /\ deleter' = "idle"
    /\ cancel' = IF cancel = "found" THEN "done" ELSE cancel
    /\ UNCHANGED <<row, cell, result, set, leased>>

-----------------------------------------------------------------------------
Next ==
    \/ Begin \/ Gathered \/ FinalRead \/ FinalWrite \/ Failed \/ CloseLoop
    \/ \E c \in Cells : \/ StartCell(c) \/ Lease(c) \/ LeaseFails(c) \/ Register(c) \/ Look(c)
                        \/ Work(c) \/ WorkAborted(c) \/ Unregister(c) \/ Release(c)
                        \/ CellSummed(c) \/ SummaryWrites(c) \/ CellSummaryFails(c)
                        \/ AcquiredForNobody(c) \/ Returned(c) \/ WorkedOn(c) \/ Collected(c)
    \/ CancelLook \/ CancelStore \/ Unlock \/ DeleteLook \/ DeleteCommit \/ Crash

Spec == Init /\ [][Next]_vars

-----------------------------------------------------------------------------
(* The variables keep their types. *)
TypeOK ==
    /\ row \in Statuses \cup {"none"} /\ cell \in [Cells -> Statuses]
    /\ task \in [Cells -> {"none", "new", "waiting", "leased", "registered", "working", "ending",
                           "releasing", "summing", "stale", "ended",
                           "acquiring", "adrift", "returning", "dropped"}]
    /\ back \in {"queued", "cells", "comparing", "read", "failed", "closing", "done"}
    /\ result \in Statuses \cup {"none"} /\ {table, set} \subseteq BOOLEAN
    /\ {leased, onDevice} \subseteq SUBSET Cells
    /\ cancel \in {"idle", "found", "done"} /\ deleter \in {"idle", "checked"}
    /\ crashes \in 0 .. MaxCrashes

\* The background thread ended early, by an error or with the server.
GivenUp == back = "closing" \/ (back = "done" /\ result = "none")

(* A cancelled run or cell never becomes RUNNING again (compatibility.py 2482):    *)
(* the race of the cancel with the start of the cells and with the summaries.  Of  *)
(* a run whose thread has given up, the cells only.                               *)
NoResurrection ==
    [][ /\ row = "ABORTED" /\ ~GivenUp => row' # "RUNNING"
        /\ \A c \in Cells : cell[c] = "ABORTED" => cell'[c] = "ABORTED" ]_vars

(* Whoever drives a device has it leased, and still has if the run's thread has     *)
(* given up and left it behind; no cell works for a run that was deleted, unless   *)
(* it was left behind so.                                                        *)
DeletedRunRests ==
    /\ \A c \in Cells : task[c] \in {"working", "adrift"} => c \in leased
    /\ row = "none" /\ ~GivenUp => \A c \in Cells : task[c] \notin {"working", "adrift"}

(* When the background thread has summed the run up, the run and every cell have    *)
(* an end, so that the run can be deleted, and every device was given back, unless *)
(* the server was restarted.                                                     *)
RunLeavesNothing ==
    (back = "done" /\ result # "none" /\ crashes = 0) =>
        /\ row \in Terminal \cup {"none"} /\ leased = {}
        /\ row # "none" => \A c \in Cells : cell[c] \in Terminal

(* "A cancellation request is authoritative" (compatibility.py 3311): a cancelled  *)
(* run stays ABORTED.                                                            *)
CancelIsAuthoritative == [][row = "ABORTED" => row' \in {"ABORTED", "none"}]_vars

(* Whatever fails, the background thread gives back every device it leased.        *)
DevicesGivenBack == (back = "done" /\ crashes = 0) => leased = {}
=============================================================================
