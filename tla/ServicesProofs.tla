---------------------------- MODULE ServicesProofs ----------------------------
(***************************************************************************)
(* Inspection and compatibility runs for any number of viewers, cancels, cells, *)
(* runs and restarts.                                                        *)
(***************************************************************************)
EXTENDS MCServices, TLAPS

-----------------------------------------------------------------------------
(* Compatibility runs.                                                       *)

AtWork == {"waiting", "leased", "registered", "working"}
Leasing == {"leased", "registered", "working", "ending", "releasing"}
Past == {"ending", "releasing", "summing", "ended"}

(* The run was not interrupted: no restart, and no error that ended it early. *)
Orderly == crashes = 0 /\ back # "failed" /\ ~Compat!GivenUp

(* A thread that outlived the loop, and its task until it is collected.       *)
Outliving == {"acquiring", "adrift", "returning", "dropped"}

(* A cell at work says RUNNING; one that has not begun is as it was created, or *)
(* cancelled; and the tasks are over with the thread.                        *)
CellsTold ==
    \A c \in Cells :
        /\ task[c] \in AtWork => cell[c] = "RUNNING"
        /\ task[c] \in {"none", "new"} => cell[c] \in {"PENDING", "ABORTED"}
        /\ task[c] = "none" <=> back = "queued"
        /\ back \in {"comparing", "read"} => task[c] = "ended"
        /\ back = "done" => task[c] \in Outliving \cup {"stale", "ended"}
        /\ back = "done" /\ task[c] # "ended" => result = "none"
        /\ task[c] \in Outliving => back = "done"

(* Who hears of a cancel has no cell left that could still begin.            *)
CancelReachesCells ==
    /\ set \/ compat = "ABORTED" =>
           compat = "none" \/ \A c \in Cells : cell[c] # "PENDING"
    /\ compat # "none" /\ back \in {"cells", "failed", "closing"} =>
           \A c \in Cells : task[c] # "new" => cell[c] # "PENDING"
    /\ \A c \in Cells :
          task[c] \in Leasing \cup {"summing"} => \A e \in Cells : task[e] # "new"
    /\ back \in {"failed", "closing"} => \A c \in Cells : task[c] # "new"
    /\ \A c \in Cells : task[c] \in Outliving =>
           compat = "none" \/ \A e \in Cells : cell[e] # "PENDING"
    /\ \A c \in onDevice : task[c] \in {"registered", "working", "ending", "adrift", "dropped"}

(* What is deleted, or about to be, is not at work, unless its thread gave up; *)
(* who writes a run that ended in an error back has such a run, too.           *)
DeletedRests ==
    /\ compat \in {"PASS", "FAIL", "ERROR"} => back \in {"closing", "done"}
    /\ compat = "none" \/ deleter = "checked" =>
          \/ back = "done" \/ Compat!GivenUp
          \/ compat \in {"ABORTED", "none"} /\ \A c \in Cells : task[c] \notin AtWork
    /\ \A c \in Cells : task[c] = "stale" => Compat!GivenUp

(* Who has a device at work has it leased.                                   *)
WorkIsLeased ==
    \A c \in Cells : task[c] \in {"leased", "registered", "working", "adrift"} => c \in leased

(* An uninterrupted run leaves its leases and its rows in order.             *)
RunInOrder ==
    /\ back \notin {"read", "done"} => result = "none"
    /\ Orderly =>
        /\ \A c \in leased : task[c] \in Leasing
        /\ compat # "none" => \A c \in Cells : task[c] \in Past => cell[c] \in Compat!Terminal
        /\ back \in {"read", "done"} =>
              /\ result \in {"ABORTED", "PASS", "FAIL", "ERROR", "RUNNING"}
              /\ result = "ABORTED" => compat \in {"ABORTED", "none"}
              /\ result = "RUNNING" => compat = "none"
        /\ back = "done" => compat \in Compat!Terminal \cup {"none"}

CompatInv ==
    /\ Compat!TypeOK /\ CellsTold /\ CancelReachesCells
    /\ DeletedRests /\ WorkIsLeased /\ RunInOrder

-----------------------------------------------------------------------------
(* Inspection runs.                                                          *)

Early == {"queued", "checking", "leasing", "leased", "registered"}
Owning == {"leased", "registered", "starting", "driving"}
Late == {"ending", "releasing", "summing", "closing", "done"}

(* One engine at most is alive: that of the run created last.                *)
OneEngine ==
    /\ \A g \in 1 .. MaxRuns : Run!Alive(g) => g = created /\ creator = "idle"
    /\ \A g \in 1 .. MaxRuns : g > created => engine[g] = "none"
    /\ creator = "stored" => created > 0 /\ engine[created] = "none"
    /\ creator = "stored" => runDeleter # "discarding" \/ inspection = Run!NoRow
    /\ \A g \in 1 .. MaxRuns : engine[g] \in Owning => holder = g

(* While the row is there, the table holds the event that the engine was given. *)
EngineHasEvent ==
    /\ \A g \in 1 .. MaxRuns :
          Run!Alive(g) /\ inspection # Run!NoRow => runTable = event[g] /\ event[g] # 0
    /\ runDeleter = "discarding" => inspection = Run!NoRow

CancelUnderWay ==
    inspection.status \in Run!Terminal \/ \E k \in Cancels : runCancel[k].pc = "storing"

(* An engine that has not looked at its event for the last time will find it set, *)
(* if the row has a final status or a cancel is about to write it.           *)
CancelReachesEngine ==
    CancelUnderWay /\ inspection # Run!NoRow =>
        /\ \A g \in 1 .. MaxRuns : engine[g] \in Early => event[g] \in runSet
        /\ creator = "stored" => runTable # 0 /\ runTable \in runSet

(* What is about to be deleted is over, and is not driven.                   *)
DeletedIsOver ==
    /\ runDeleter = "deleting" =>
          /\ inspection # Run!NoRow /\ inspection.status \in Run!Terminal
          /\ \A g \in 1 .. MaxRuns : engine[g] \notin {"starting", "driving"}
    /\ Run!DrivenHasRow

(* The engine of a row that is not over is still going to end it.            *)
RowIsOwed ==
    /\ \A g \in 1 .. MaxRuns :
          /\ engine[g] \in Late \ {"done"} => final[g] \in Run!Terminal
          /\ engine[g] \in Late \ {"done"} => inspection = Run!NoRow \/ inspection.branches = "ended"
    /\ inspection # Run!NoRow /\ creator = "idle" /\ runCrashes = 0 =>
          /\ created > 0 /\ engine[created] # "none"
          /\ engine[created] = "done" => inspection.branches = "ended"
          /\ engine[created] \in {"closing", "done"} => inspection.status \in Run!Terminal

(* A cancel under way has found a run.                                       *)
CancelFoundRun == \A k \in Cancels : runCancel[k].pc = "idle" \/ runCancel[k].run \in Run!Gens

RunInv ==
    /\ Run!TypeOK /\ CancelFoundRun /\ OneEngine /\ EngineHasEvent /\ CancelReachesEngine
    /\ DeletedIsOver /\ RowIsOwed

-----------------------------------------------------------------------------
(* The live view.                                                            *)

InSight == {chan.snap} \cup {pub[p].snap : p \in Live!Publishers} \cup {slot[v] : v \in Viewers}
               \cup {shown[v] : v \in Viewers}

(* The channel holds the newest snapshot of the newest stream.               *)
NewestStream ==
    /\ chan = Live!NoChannel => streams < MaxStreams
    /\ chan # Live!NoChannel => chan.snap.stream = streams /\ streams > 0
    /\ streams <= MaxStreams
    /\ \A s \in InSight : /\ s.stream <= streams
                          /\ s.stream > 0 /\ s.stream = chan.snap.stream => s.rev <= chan.snap.rev

(* The end of a stream is not taken back by a later snapshot of it.          *)
EndsStay ==
    \A s, t \in InSight :
        s.stream > 0 /\ s.stream = t.stream /\ s.rev <= t.rev /\ s.terminal => t.terminal

(* What belongs to no stream is nothing, or the word that the channel closed. *)
NothingElse ==
    /\ \A p \in Live!Publishers : pub[p] = Live!NoPublication \/ pub[p].snap.stream > 0
    /\ \A v \in Viewers : slot[v] \in {Live!Nothing, Live!Closed} \/ slot[v].stream > 0
    /\ \A v \in Viewers : shown[v] = Live!Nothing \/ shown[v].stream > 0

LiveInv == Live!TypeOK /\ NewestStream /\ EndsStay /\ NothingElse

-----------------------------------------------------------------------------
(* Steps of a compatibility run.                                             *)

LEMMA CompatType ==
    ASSUME CompatInv, Compat!Next
    PROVE  Compat!TypeOK'
<1> USE BoundsAssumption DEF CompatInv
<1>1. ASSUME NEW c \in Cells, Compat!StartCell(c)
     PROVE  Compat!TypeOK'
  BY <1>1 DEF Compat!StartCell, Compat!Moves, Compat!LoopRuns, Compat!Stays,
     Compat!TypeOK, Compat!Statuses, Compat!Terminal
<1>2. ASSUME NEW c \in Cells, Compat!Lease(c) \/ Compat!LeaseFails(c)
     PROVE  Compat!TypeOK'
  BY <1>2 DEF Compat!Lease, Compat!LeaseFails, Compat!Moves, Compat!LoopRuns,
     Compat!CellEnds, Compat!Resumed, Compat!TypeOK, Compat!Statuses, Compat!Terminal
<1>3. ASSUME NEW c \in Cells,
             Compat!Register(c) \/ Compat!Look(c) \/ Compat!Work(c) \/ Compat!WorkAborted(c)
     PROVE  Compat!TypeOK'
  BY <1>3 DEF Compat!Register, Compat!Look, Compat!Work, Compat!WorkAborted,
     Compat!Moves, Compat!LoopRuns, Compat!CellEnds, Compat!Cancelled, Compat!TypeOK,
     Compat!Statuses, Compat!Terminal
<1>4. ASSUME NEW c \in Cells, Compat!Unregister(c) \/ Compat!Release(c)
     PROVE  Compat!TypeOK'
  BY <1>4 DEF Compat!Unregister, Compat!Release, Compat!Moves, Compat!LoopRuns,
     Compat!Released, Compat!TypeOK, Compat!Statuses, Compat!Terminal
<1>5. ASSUME NEW c \in Cells,
             Compat!CellSummed(c) \/ Compat!SummaryWrites(c) \/ Compat!CellSummaryFails(c)
     PROVE  Compat!TypeOK'
  BY <1>5 DEF Compat!CellSummed, Compat!SummaryWrites, Compat!CellSummaryFails,
     Compat!Moves, Compat!LoopRuns, Compat!SummaryReads, Compat!TypeOK, Compat!Statuses,
     Compat!Terminal
<1>6. ASSUME NEW c \in Cells,
             Compat!AcquiredForNobody(c) \/ Compat!Returned(c) \/ Compat!WorkedOn(c)
     PROVE  Compat!TypeOK'
  BY <1>6 DEF Compat!AcquiredForNobody, Compat!Returned, Compat!WorkedOn,
     Compat!Released, Compat!TypeOK, Compat!Statuses, Compat!Terminal
<1>7. ASSUME NEW c \in Cells, Compat!Collected(c)
     PROVE  Compat!TypeOK'
  BY <1>7 DEF Compat!Collected, Compat!Released, Compat!SummaryReads, Compat!TypeOK,
     Compat!Statuses, Compat!Terminal
<1>8. CASE Compat!Begin
  BY <1>8, ZenonT(30) DEF Compat!Begin, Compat!TypeOK, Compat!Statuses, Compat!Terminal
<1>9. CASE Compat!Gathered
  BY <1>9, ZenonT(30) DEF Compat!Gathered, Compat!TypeOK, Compat!Statuses,
     Compat!Terminal
<1>10. CASE Compat!FinalRead
  BY <1>10, ZenonT(30) DEF Compat!FinalRead, Compat!Summary, Compat!TypeOK,
     Compat!Statuses, Compat!Terminal
<1>11. CASE Compat!FinalWrite
  BY <1>11, ZenonT(30) DEF Compat!FinalWrite, Compat!Summary, Compat!TypeOK,
     Compat!Statuses, Compat!Terminal
<1>12. CASE Compat!Failed
  BY <1>12, ZenonT(30) DEF Compat!Failed, Compat!Busy, Compat!TypeOK, Compat!Statuses,
     Compat!Terminal
<1>13. CASE Compat!CloseLoop
  BY <1>13 DEF Compat!CloseLoop, Compat!Busy, Compat!LeftBehind, Compat!TypeOK,
     Compat!Statuses, Compat!Terminal
<1>14. CASE Compat!CancelLook
  BY <1>14 DEF Compat!CancelLook, Compat!TypeOK, Compat!Statuses, Compat!Terminal
<1>15. CASE Compat!Unlock
  BY <1>15 DEF Compat!Unlock, Compat!TypeOK, Compat!Statuses, Compat!Terminal
<1>16. CASE Compat!CancelStore
  BY <1>16 DEF Compat!CancelStore, Compat!TypeOK, Compat!Statuses, Compat!Terminal
<1>17. CASE Compat!DeleteLook
  BY <1>17, ZenonT(30) DEF Compat!DeleteLook, Compat!Deletable, Compat!TypeOK,
     Compat!Statuses, Compat!Terminal
<1>18. CASE Compat!DeleteCommit
  BY <1>18, ZenonT(30) DEF Compat!DeleteCommit, Compat!Deletable, Compat!TypeOK,
     Compat!Statuses, Compat!Terminal
<1>19. CASE Compat!Crash
  <2>1. crashes' \in 0 .. MaxCrashes
    BY <1>19 DEF Compat!Crash, Compat!TypeOK
  <2> QED  BY <1>19, <2>1 DEF Compat!Crash, Compat!TypeOK
<1> QED  BY <1>1, <1>2, <1>3, <1>4, <1>5, <1>6, <1>7, <1>8, <1>9, <1>10, <1>11,
             <1>12, <1>13, <1>14, <1>15, <1>16, <1>17, <1>18, <1>19 DEF Compat!Next

LEMMA CellsToldStep ==
    ASSUME CompatInv, Compat!Next
    PROVE  CellsTold'
<1> USE DEF CompatInv
<1>1. ASSUME NEW c \in Cells, Compat!StartCell(c)
     PROVE  CellsTold'
  BY <1>1 DEF Compat!StartCell, Compat!Moves, Compat!LoopRuns, Compat!Stays, CellsTold,
     AtWork, Outliving, RunInOrder, Compat!TypeOK
<1>2. ASSUME NEW c \in Cells, Compat!Lease(c) \/ Compat!LeaseFails(c)
     PROVE  CellsTold'
  BY <1>2 DEF Compat!Lease, Compat!LeaseFails, Compat!Moves, Compat!LoopRuns,
     Compat!CellEnds, Compat!Resumed, CellsTold, AtWork, Outliving, RunInOrder,
     Compat!TypeOK
<1>3. ASSUME NEW c \in Cells,
             Compat!Register(c) \/ Compat!Look(c) \/ Compat!Work(c) \/ Compat!WorkAborted(c)
     PROVE  CellsTold'
  BY <1>3 DEF Compat!Register, Compat!Look, Compat!Work, Compat!WorkAborted,
     Compat!Moves, Compat!LoopRuns, Compat!CellEnds, Compat!Cancelled, CellsTold,
     AtWork, Outliving, RunInOrder, Compat!TypeOK
<1>4. ASSUME NEW c \in Cells, Compat!Unregister(c) \/ Compat!Release(c)
     PROVE  CellsTold'
  BY <1>4 DEF Compat!Unregister, Compat!Release, Compat!Moves, Compat!LoopRuns,
     Compat!Released, CellsTold, AtWork, Outliving, RunInOrder, Compat!TypeOK
<1>5. ASSUME NEW c \in Cells,
             Compat!CellSummed(c) \/ Compat!SummaryWrites(c) \/ Compat!CellSummaryFails(c)
     PROVE  CellsTold'
  BY <1>5 DEF Compat!CellSummed, Compat!SummaryWrites, Compat!CellSummaryFails,
     Compat!Moves, Compat!LoopRuns, Compat!SummaryReads, CellsTold, AtWork, Outliving,
     RunInOrder, Compat!TypeOK
<1>6. ASSUME NEW c \in Cells,
             Compat!AcquiredForNobody(c) \/ Compat!Returned(c) \/ Compat!WorkedOn(c)
     PROVE  CellsTold'
  BY <1>6 DEF Compat!AcquiredForNobody, Compat!Returned, Compat!WorkedOn,
     Compat!Released, CellsTold, AtWork, Outliving, RunInOrder, Compat!TypeOK
<1>7. ASSUME NEW c \in Cells, Compat!Collected(c)
     PROVE  CellsTold'
  BY <1>7 DEF Compat!Collected, Compat!Released, Compat!SummaryReads, CellsTold, AtWork,
     Outliving, RunInOrder, Compat!TypeOK
<1>8. CASE Compat!Begin \/ Compat!Gathered
  BY <1>8 DEF Compat!Begin, Compat!Gathered, CellsTold, AtWork, Outliving, RunInOrder,
     Compat!TypeOK
<1>9. CASE Compat!FinalRead \/ Compat!FinalWrite
  BY <1>9 DEF Compat!FinalRead, Compat!FinalWrite, Compat!Summary, CellsTold, AtWork,
     Outliving, RunInOrder, Compat!TypeOK
<1>10. CASE Compat!Failed
  BY <1>10 DEF Compat!Failed, Compat!Busy, CellsTold, AtWork, Outliving, RunInOrder,
     Compat!TypeOK
<1>11. CASE Compat!CloseLoop
  BY <1>11 DEF Compat!CloseLoop, Compat!Busy, Compat!LeftBehind, CellsTold, AtWork,
     Outliving, RunInOrder, Compat!TypeOK
<1>12. CASE Compat!CancelLook \/ Compat!Unlock
  BY <1>12 DEF Compat!CancelLook, Compat!Unlock, CellsTold, AtWork, Outliving,
     RunInOrder, Compat!TypeOK
<1>13. CASE Compat!CancelStore
  BY <1>13 DEF Compat!CancelStore, CellsTold, AtWork, Outliving, RunInOrder,
     Compat!TypeOK
<1>14. CASE Compat!DeleteLook \/ Compat!DeleteCommit
  BY <1>14 DEF Compat!DeleteLook, Compat!DeleteCommit, Compat!Deletable, CellsTold,
     AtWork, Outliving, RunInOrder, Compat!TypeOK
<1>15. CASE Compat!Crash
  BY <1>15 DEF Compat!Crash, CellsTold, AtWork, Outliving, RunInOrder, Compat!TypeOK
<1> QED  BY <1>1, <1>2, <1>3, <1>4, <1>5, <1>6, <1>7, <1>8, <1>9, <1>10, <1>11,
             <1>12, <1>13, <1>14, <1>15 DEF Compat!Next

LEMMA CancelReachesCellsStep ==
    ASSUME CompatInv, Compat!Next
    PROVE  CancelReachesCells'
<1> USE DEF CompatInv
<1>1. ASSUME NEW c \in Cells, Compat!StartCell(c)
     PROVE  CancelReachesCells'
  BY <1>1 DEF Compat!StartCell, Compat!Moves, Compat!LoopRuns, Compat!Stays,
     CancelReachesCells, Leasing, Outliving, CellsTold, AtWork, Compat!TypeOK
<1>2. ASSUME NEW c \in Cells, Compat!Lease(c) \/ Compat!LeaseFails(c)
     PROVE  CancelReachesCells'
  BY <1>2 DEF Compat!Lease, Compat!LeaseFails, Compat!Moves, Compat!LoopRuns,
     Compat!CellEnds, Compat!Resumed, CancelReachesCells, Leasing, Outliving, CellsTold,
     AtWork, Compat!TypeOK
<1>3. ASSUME NEW c \in Cells,
             Compat!Register(c) \/ Compat!Look(c) \/ Compat!Work(c) \/ Compat!WorkAborted(c)
     PROVE  CancelReachesCells'
  BY <1>3 DEF Compat!Register, Compat!Look, Compat!Work, Compat!WorkAborted,
     Compat!Moves, Compat!LoopRuns, Compat!CellEnds, Compat!Cancelled,
     CancelReachesCells, Leasing, Outliving, CellsTold, AtWork, Compat!TypeOK
<1>4. ASSUME NEW c \in Cells, Compat!Unregister(c) \/ Compat!Release(c)
     PROVE  CancelReachesCells'
  BY <1>4 DEF Compat!Unregister, Compat!Release, Compat!Moves, Compat!LoopRuns,
     Compat!Released, CancelReachesCells, Leasing, Outliving, CellsTold, AtWork,
     Compat!TypeOK
<1>5. ASSUME NEW c \in Cells,
             Compat!CellSummed(c) \/ Compat!SummaryWrites(c) \/ Compat!CellSummaryFails(c)
     PROVE  CancelReachesCells'
  BY <1>5 DEF Compat!CellSummed, Compat!SummaryWrites, Compat!CellSummaryFails,
     Compat!Moves, Compat!LoopRuns, Compat!SummaryReads, CancelReachesCells, Leasing,
     Outliving, CellsTold, AtWork, Compat!TypeOK
<1>6. ASSUME NEW c \in Cells,
             Compat!AcquiredForNobody(c) \/ Compat!Returned(c) \/ Compat!WorkedOn(c)
     PROVE  CancelReachesCells'
  BY <1>6 DEF Compat!AcquiredForNobody, Compat!Returned, Compat!WorkedOn,
     Compat!Released, CancelReachesCells, Leasing, Outliving, CellsTold, AtWork,
     Compat!TypeOK
<1>7. ASSUME NEW c \in Cells, Compat!Collected(c)
     PROVE  CancelReachesCells'
  BY <1>7 DEF Compat!Collected, Compat!Released, Compat!SummaryReads,
     CancelReachesCells, Leasing, Outliving, CellsTold, AtWork, Compat!TypeOK
<1>8. CASE Compat!Begin \/ Compat!Gathered
  BY <1>8 DEF Compat!Begin, Compat!Gathered, CancelReachesCells, Leasing, Outliving,
     CellsTold, AtWork, Compat!TypeOK
<1>9. CASE Compat!FinalRead \/ Compat!FinalWrite
  BY <1>9 DEF Compat!FinalRead, Compat!FinalWrite, Compat!Summary, CancelReachesCells,
     Leasing, Outliving, CellsTold, AtWork, Compat!TypeOK
<1>10. CASE Compat!Failed
  BY <1>10 DEF Compat!Failed, Compat!Busy, CancelReachesCells, Leasing, Outliving,
     CellsTold, AtWork, Compat!TypeOK
<1>11. CASE Compat!CloseLoop
  BY <1>11 DEF Compat!CloseLoop, Compat!Busy, Compat!LeftBehind, CancelReachesCells,
     Leasing, Outliving, CellsTold, AtWork, Compat!TypeOK
<1>12. CASE Compat!CancelLook
  BY <1>12 DEF Compat!CancelLook, CancelReachesCells, Leasing, Outliving, CellsTold,
     AtWork, Compat!TypeOK
<1>13. CASE Compat!Unlock
  <2>1. /\ compat' = compat /\ cell' = cell /\ task' = task /\ back' = back
        /\ leased' = leased /\ onDevice' = onDevice /\ onDevice # {}
    BY <1>13 DEF Compat!Unlock
  <2>2. PICK c \in Cells : task[c] \in {"registered", "working", "ending", "adrift", "dropped"}
    BY <2>1 DEF CancelReachesCells, Compat!TypeOK
  <2>3. compat = "none" \/ \A e \in Cells : cell[e] # "PENDING"
    <3>1. CASE task[c] \in Outliving
      BY <3>1 DEF CancelReachesCells
    <3>2. CASE task[c] \notin Outliving
      <4>1. \A e \in Cells : task[e] # "new"
        BY <2>2, <3>2 DEF CancelReachesCells, Leasing, Outliving
      <4>2. task[c] \notin {"none", "stale", "ended"}
        BY <2>2
      <4>3. back \in {"cells", "failed", "closing"}
        BY <3>2, <4>2 DEF CellsTold, Compat!TypeOK
      <4> QED  BY <4>1, <4>3 DEF CancelReachesCells
    <3> QED  BY <3>1, <3>2
  <2> QED  BY <2>1, <2>3 DEF CancelReachesCells
<1>14. CASE Compat!CancelStore
  BY <1>14 DEF Compat!CancelStore, CancelReachesCells, Leasing, Outliving, CellsTold,
     AtWork, Compat!TypeOK
<1>15. CASE Compat!DeleteLook \/ Compat!DeleteCommit
  BY <1>15 DEF Compat!DeleteLook, Compat!DeleteCommit, Compat!Deletable,
     CancelReachesCells, Leasing, Outliving, CellsTold, AtWork, Compat!TypeOK
<1>16. CASE Compat!Crash
  BY <1>16 DEF Compat!Crash, CancelReachesCells, Leasing, Outliving, CellsTold, AtWork,
     Compat!TypeOK
<1> QED  BY <1>1, <1>2, <1>3, <1>4, <1>5, <1>6, <1>7, <1>8, <1>9, <1>10, <1>11,
             <1>12, <1>13, <1>14, <1>15, <1>16 DEF Compat!Next

LEMMA DeletedRestsStep ==
    ASSUME CompatInv, Compat!Next
    PROVE  DeletedRests'
<1> USE DEF CompatInv
<1>1. ASSUME NEW c \in Cells, Compat!StartCell(c)
     PROVE  DeletedRests'
  BY <1>1 DEF Compat!StartCell, Compat!Moves, Compat!LoopRuns, Compat!Stays,
     DeletedRests, AtWork, Outliving, RunInOrder, CellsTold, CancelReachesCells,
     Compat!GivenUp, Compat!TypeOK, Compat!Terminal
<1>2. ASSUME NEW c \in Cells, Compat!Lease(c) \/ Compat!LeaseFails(c)
     PROVE  DeletedRests'
  BY <1>2 DEF Compat!Lease, Compat!LeaseFails, Compat!Moves, Compat!LoopRuns,
     Compat!CellEnds, Compat!Resumed, DeletedRests, AtWork, Outliving, RunInOrder,
     CellsTold, CancelReachesCells, Compat!GivenUp, Compat!TypeOK, Compat!Terminal
<1>3. ASSUME NEW c \in Cells,
             Compat!Register(c) \/ Compat!Look(c) \/ Compat!Work(c) \/ Compat!WorkAborted(c)
     PROVE  DeletedRests'
  BY <1>3 DEF Compat!Register, Compat!Look, Compat!Work, Compat!WorkAborted,
     Compat!Moves, Compat!LoopRuns, Compat!CellEnds, Compat!Cancelled, DeletedRests,
     AtWork, Outliving, RunInOrder, CellsTold, CancelReachesCells, Compat!GivenUp,
     Compat!TypeOK, Compat!Terminal
<1>4. ASSUME NEW c \in Cells, Compat!Unregister(c) \/ Compat!Release(c)
     PROVE  DeletedRests'
  BY <1>4 DEF Compat!Unregister, Compat!Release, Compat!Moves, Compat!LoopRuns,
     Compat!Released, DeletedRests, AtWork, Outliving, RunInOrder, CellsTold,
     CancelReachesCells, Compat!GivenUp, Compat!TypeOK, Compat!Terminal
<1>5. ASSUME NEW c \in Cells,
             Compat!CellSummed(c) \/ Compat!SummaryWrites(c) \/ Compat!CellSummaryFails(c)
     PROVE  DeletedRests'
  BY <1>5 DEF Compat!CellSummed, Compat!SummaryWrites, Compat!CellSummaryFails,
     Compat!Moves, Compat!LoopRuns, Compat!SummaryReads, DeletedRests, AtWork,
     Outliving, RunInOrder, CellsTold, CancelReachesCells, Compat!GivenUp,
     Compat!TypeOK, Compat!Terminal
<1>6. ASSUME NEW c \in Cells,
             Compat!AcquiredForNobody(c) \/ Compat!Returned(c) \/ Compat!WorkedOn(c)
     PROVE  DeletedRests'
  BY <1>6 DEF Compat!AcquiredForNobody, Compat!Returned, Compat!WorkedOn,
     Compat!Released, DeletedRests, AtWork, Outliving, RunInOrder, CellsTold,
     CancelReachesCells, Compat!GivenUp, Compat!TypeOK, Compat!Terminal
<1>7. ASSUME NEW c \in Cells, Compat!Collected(c)
     PROVE  DeletedRests'
  BY <1>7 DEF Compat!Collected, Compat!Released, Compat!SummaryReads, DeletedRests,
     AtWork, Outliving, RunInOrder, CellsTold, CancelReachesCells, Compat!GivenUp,
     Compat!TypeOK, Compat!Terminal
<1>8. CASE Compat!Begin \/ Compat!Gathered
  BY <1>8 DEF Compat!Begin, Compat!Gathered, DeletedRests, AtWork, Outliving,
     RunInOrder, CellsTold, CancelReachesCells, Compat!GivenUp, Compat!TypeOK,
     Compat!Terminal
<1>9. CASE Compat!FinalRead \/ Compat!FinalWrite
  BY <1>9 DEF Compat!FinalRead, Compat!FinalWrite, Compat!Summary, DeletedRests, AtWork,
     Outliving, RunInOrder, CellsTold, CancelReachesCells, Compat!GivenUp,
     Compat!TypeOK, Compat!Terminal
<1>10. CASE Compat!Failed
  BY <1>10 DEF Compat!Failed, Compat!Busy, DeletedRests, AtWork, Outliving, RunInOrder,
     CellsTold, CancelReachesCells, Compat!GivenUp, Compat!TypeOK, Compat!Terminal
<1>11. CASE Compat!CloseLoop
  BY <1>11 DEF Compat!CloseLoop, Compat!Busy, Compat!LeftBehind, DeletedRests, AtWork,
     Outliving, RunInOrder, CellsTold, CancelReachesCells, Compat!GivenUp,
     Compat!TypeOK, Compat!Terminal
<1>12. CASE Compat!CancelLook \/ Compat!Unlock
  BY <1>12 DEF Compat!CancelLook, Compat!Unlock, DeletedRests, AtWork, Outliving,
     RunInOrder, CellsTold, CancelReachesCells, Compat!GivenUp, Compat!TypeOK,
     Compat!Terminal
<1>13. CASE Compat!CancelStore
  BY <1>13 DEF Compat!CancelStore, DeletedRests, AtWork, Outliving, RunInOrder,
     CellsTold, CancelReachesCells, Compat!GivenUp, Compat!TypeOK, Compat!Terminal
<1>14. CASE Compat!DeleteLook \/ Compat!DeleteCommit
  BY <1>14 DEF Compat!DeleteLook, Compat!DeleteCommit, Compat!Deletable, DeletedRests,
     AtWork, Outliving, RunInOrder, CellsTold, CancelReachesCells, Compat!GivenUp,
     Compat!TypeOK, Compat!Terminal
<1>15. CASE Compat!Crash
  BY <1>15 DEF Compat!Crash, DeletedRests, AtWork, Outliving, RunInOrder, CellsTold,
     CancelReachesCells, Compat!GivenUp, Compat!TypeOK, Compat!Terminal
<1> QED  BY <1>1, <1>2, <1>3, <1>4, <1>5, <1>6, <1>7, <1>8, <1>9, <1>10, <1>11,
             <1>12, <1>13, <1>14, <1>15 DEF Compat!Next

LEMMA WorkIsLeasedStep ==
    ASSUME CompatInv, Compat!Next
    PROVE  WorkIsLeased'
<1> USE DEF CompatInv
<1>1. ASSUME NEW c \in Cells, Compat!StartCell(c)
     PROVE  WorkIsLeased'
  BY <1>1 DEF Compat!StartCell, Compat!Moves, Compat!LoopRuns, Compat!Stays,
     WorkIsLeased, Leasing, AtWork, CellsTold, CancelReachesCells, Compat!TypeOK
<1>2. ASSUME NEW c \in Cells, Compat!Lease(c) \/ Compat!LeaseFails(c)
     PROVE  WorkIsLeased'
  BY <1>2 DEF Compat!Lease, Compat!LeaseFails, Compat!Moves, Compat!LoopRuns,
     Compat!CellEnds, Compat!Resumed, WorkIsLeased, Leasing, AtWork, CellsTold,
     CancelReachesCells, Compat!TypeOK
<1>3. ASSUME NEW c \in Cells,
             Compat!Register(c) \/ Compat!Look(c) \/ Compat!Work(c) \/ Compat!WorkAborted(c)
     PROVE  WorkIsLeased'
  BY <1>3 DEF Compat!Register, Compat!Look, Compat!Work, Compat!WorkAborted,
     Compat!Moves, Compat!LoopRuns, Compat!CellEnds, Compat!Cancelled, WorkIsLeased,
     Leasing, AtWork, CellsTold, CancelReachesCells, Compat!TypeOK
<1>4. ASSUME NEW c \in Cells, Compat!Unregister(c) \/ Compat!Release(c)
     PROVE  WorkIsLeased'
  BY <1>4 DEF Compat!Unregister, Compat!Release, Compat!Moves, Compat!LoopRuns,
     Compat!Released, WorkIsLeased, Leasing, AtWork, CellsTold, CancelReachesCells,
     Compat!TypeOK
<1>5. ASSUME NEW c \in Cells,
             Compat!CellSummed(c) \/ Compat!SummaryWrites(c) \/ Compat!CellSummaryFails(c)
     PROVE  WorkIsLeased'
  BY <1>5 DEF Compat!CellSummed, Compat!SummaryWrites, Compat!CellSummaryFails,
     Compat!Moves, Compat!LoopRuns, Compat!SummaryReads, WorkIsLeased, Leasing, AtWork,
     CellsTold, CancelReachesCells, Compat!TypeOK
<1>6. ASSUME NEW c \in Cells,
             Compat!AcquiredForNobody(c) \/ Compat!Returned(c) \/ Compat!WorkedOn(c)
     PROVE  WorkIsLeased'
  BY <1>6 DEF Compat!AcquiredForNobody, Compat!Returned, Compat!WorkedOn,
     Compat!Released, WorkIsLeased, Leasing, AtWork, CellsTold, CancelReachesCells,
     Compat!TypeOK
<1>7. ASSUME NEW c \in Cells, Compat!Collected(c)
     PROVE  WorkIsLeased'
  BY <1>7 DEF Compat!Collected, Compat!Released, Compat!SummaryReads, WorkIsLeased,
     Leasing, AtWork, CellsTold, CancelReachesCells, Compat!TypeOK
<1>8. CASE Compat!Begin \/ Compat!Gathered
  BY <1>8 DEF Compat!Begin, Compat!Gathered, WorkIsLeased, Leasing, AtWork, CellsTold,
     CancelReachesCells, Compat!TypeOK
<1>9. CASE Compat!FinalRead \/ Compat!FinalWrite
  BY <1>9 DEF Compat!FinalRead, Compat!FinalWrite, Compat!Summary, WorkIsLeased,
     Leasing, AtWork, CellsTold, CancelReachesCells, Compat!TypeOK
<1>10. CASE Compat!Failed
  BY <1>10 DEF Compat!Failed, Compat!Busy, WorkIsLeased, Leasing, AtWork, CellsTold,
     CancelReachesCells, Compat!TypeOK
<1>11. CASE Compat!CloseLoop
  BY <1>11 DEF Compat!CloseLoop, Compat!Busy, Compat!LeftBehind, WorkIsLeased, Leasing,
     AtWork, CellsTold, CancelReachesCells, Compat!TypeOK
<1>12. CASE Compat!CancelLook \/ Compat!Unlock
  BY <1>12 DEF Compat!CancelLook, Compat!Unlock, WorkIsLeased, Leasing, AtWork,
     CellsTold, CancelReachesCells, Compat!TypeOK
<1>13. CASE Compat!CancelStore
  BY <1>13 DEF Compat!CancelStore, WorkIsLeased, Leasing, AtWork, CellsTold,
     CancelReachesCells, Compat!TypeOK
<1>14. CASE Compat!DeleteLook \/ Compat!DeleteCommit
  BY <1>14 DEF Compat!DeleteLook, Compat!DeleteCommit, Compat!Deletable, WorkIsLeased,
     Leasing, AtWork, CellsTold, CancelReachesCells, Compat!TypeOK
<1>15. CASE Compat!Crash
  BY <1>15 DEF Compat!Crash, WorkIsLeased, Leasing, AtWork, CellsTold,
     CancelReachesCells, Compat!TypeOK
<1> QED  BY <1>1, <1>2, <1>3, <1>4, <1>5, <1>6, <1>7, <1>8, <1>9, <1>10, <1>11,
             <1>12, <1>13, <1>14, <1>15 DEF Compat!Next

LEMMA RunInOrderStep ==
    ASSUME CompatInv, Compat!Next
    PROVE  RunInOrder'
<1> USE BoundsAssumption DEF CompatInv
<1>1. ASSUME NEW c \in Cells, Compat!StartCell(c)
     PROVE  RunInOrder'
  BY <1>1 DEF Compat!StartCell, Compat!Moves, Compat!LoopRuns, Compat!Stays, RunInOrder,
     Orderly, Past, Outliving, Leasing, AtWork, CellsTold, CancelReachesCells,
     DeletedRests, Compat!GivenUp, Compat!TypeOK, Compat!Terminal, Compat!Statuses
<1>2. ASSUME NEW c \in Cells, Compat!Lease(c) \/ Compat!LeaseFails(c)
     PROVE  RunInOrder'
  BY <1>2 DEF Compat!Lease, Compat!LeaseFails, Compat!Moves, Compat!LoopRuns,
     Compat!CellEnds, Compat!Resumed, RunInOrder, Orderly, Past, Outliving, Leasing,
     AtWork, CellsTold, CancelReachesCells, DeletedRests, Compat!GivenUp, Compat!TypeOK,
     Compat!Terminal, Compat!Statuses
<1>3. ASSUME NEW c \in Cells,
             Compat!Register(c) \/ Compat!Look(c) \/ Compat!Work(c) \/ Compat!WorkAborted(c)
     PROVE  RunInOrder'
  BY <1>3 DEF Compat!Register, Compat!Look, Compat!Work, Compat!WorkAborted,
     Compat!Moves, Compat!LoopRuns, Compat!CellEnds, Compat!Cancelled, RunInOrder,
     Orderly, Past, Outliving, Leasing, AtWork, CellsTold, CancelReachesCells,
     DeletedRests, Compat!GivenUp, Compat!TypeOK, Compat!Terminal, Compat!Statuses
<1>4. ASSUME NEW c \in Cells, Compat!Unregister(c) \/ Compat!Release(c)
     PROVE  RunInOrder'
  BY <1>4 DEF Compat!Unregister, Compat!Release, Compat!Moves, Compat!LoopRuns,
     Compat!Released, RunInOrder, Orderly, Past, Outliving, Leasing, AtWork, CellsTold,
     CancelReachesCells, DeletedRests, Compat!GivenUp, Compat!TypeOK, Compat!Terminal,
     Compat!Statuses
<1>5. ASSUME NEW c \in Cells,
             Compat!CellSummed(c) \/ Compat!SummaryWrites(c) \/ Compat!CellSummaryFails(c)
     PROVE  RunInOrder'
  BY <1>5 DEF Compat!CellSummed, Compat!SummaryWrites, Compat!CellSummaryFails,
     Compat!Moves, Compat!LoopRuns, Compat!SummaryReads, RunInOrder, Orderly, Past,
     Outliving, Leasing, AtWork, CellsTold, CancelReachesCells, DeletedRests,
     Compat!GivenUp, Compat!TypeOK, Compat!Terminal, Compat!Statuses
<1>6. ASSUME NEW c \in Cells,
             Compat!AcquiredForNobody(c) \/ Compat!Returned(c) \/ Compat!WorkedOn(c)
     PROVE  RunInOrder'
  BY <1>6 DEF Compat!AcquiredForNobody, Compat!Returned, Compat!WorkedOn,
     Compat!Released, RunInOrder, Orderly, Past, Outliving, Leasing, AtWork, CellsTold,
     CancelReachesCells, DeletedRests, Compat!GivenUp, Compat!TypeOK, Compat!Terminal,
     Compat!Statuses
<1>7. ASSUME NEW c \in Cells, Compat!Collected(c)
     PROVE  RunInOrder'
  BY <1>7 DEF Compat!Collected, Compat!Released, Compat!SummaryReads, RunInOrder,
     Orderly, Past, Outliving, Leasing, AtWork, CellsTold, CancelReachesCells,
     DeletedRests, Compat!GivenUp, Compat!TypeOK, Compat!Terminal, Compat!Statuses
<1>8. CASE Compat!Begin \/ Compat!Gathered
  BY <1>8 DEF Compat!Begin, Compat!Gathered, RunInOrder, Orderly, Past, Outliving,
     Leasing, AtWork, CellsTold, CancelReachesCells, DeletedRests, Compat!GivenUp,
     Compat!TypeOK, Compat!Terminal, Compat!Statuses
<1>9. CASE Compat!FinalRead \/ Compat!FinalWrite
  BY <1>9 DEF Compat!FinalRead, Compat!FinalWrite, Compat!Summary, RunInOrder, Orderly,
     Past, Outliving, Leasing, AtWork, CellsTold, CancelReachesCells, DeletedRests,
     Compat!GivenUp, Compat!TypeOK, Compat!Terminal, Compat!Statuses
<1>10. CASE Compat!Failed
  BY <1>10 DEF Compat!Failed, Compat!Busy, RunInOrder, Orderly, Past, Outliving,
     Leasing, AtWork, CellsTold, CancelReachesCells, DeletedRests, Compat!GivenUp,
     Compat!TypeOK, Compat!Terminal, Compat!Statuses
<1>11. CASE Compat!CloseLoop
  BY <1>11 DEF Compat!CloseLoop, Compat!Busy, Compat!LeftBehind, RunInOrder, Orderly,
     Past, Outliving, Leasing, AtWork, CellsTold, CancelReachesCells, DeletedRests,
     Compat!GivenUp, Compat!TypeOK, Compat!Terminal, Compat!Statuses
<1>12. CASE Compat!CancelLook \/ Compat!Unlock
  BY <1>12 DEF Compat!CancelLook, Compat!Unlock, RunInOrder, Orderly, Past, Outliving,
     Leasing, AtWork, CellsTold, CancelReachesCells, DeletedRests, Compat!GivenUp,
     Compat!TypeOK, Compat!Terminal, Compat!Statuses
<1>13. CASE Compat!CancelStore
  BY <1>13 DEF Compat!CancelStore, RunInOrder, Orderly, Past, Outliving, Leasing,
     AtWork, CellsTold, CancelReachesCells, DeletedRests, Compat!GivenUp, Compat!TypeOK,
     Compat!Terminal, Compat!Statuses
<1>14. CASE Compat!DeleteLook \/ Compat!DeleteCommit
  BY <1>14 DEF Compat!DeleteLook, Compat!DeleteCommit, Compat!Deletable, RunInOrder,
     Orderly, Past, Outliving, Leasing, AtWork, CellsTold, CancelReachesCells,
     DeletedRests, Compat!GivenUp, Compat!TypeOK, Compat!Terminal, Compat!Statuses
<1>15. CASE Compat!Crash
  BY <1>15 DEF Compat!Crash, RunInOrder, Orderly, Past, Outliving, Leasing, AtWork,
     CellsTold, CancelReachesCells, DeletedRests, Compat!GivenUp, Compat!TypeOK,
     Compat!Terminal, Compat!Statuses
<1> QED  BY <1>1, <1>2, <1>3, <1>4, <1>5, <1>6, <1>7, <1>8, <1>9, <1>10, <1>11,
             <1>12, <1>13, <1>14, <1>15 DEF Compat!Next

-----------------------------------------------------------------------------
(* Steps of an inspection run.                                               *)

EngineSteps ==
    {"none", "queued", "checking", "leasing", "leased", "registered", "starting", "driving",
     "ending", "releasing", "summing", "closing", "done"}

(* A step of an engine: where it goes, and what it writes on the way.        *)
Path ==
    {<<"queued", "checking">>, <<"queued", "done">>, <<"checking", "leasing">>,
     <<"checking", "ending">>, <<"leasing", "leased">>, <<"leasing", "ending">>,
     <<"leased", "registered">>, <<"registered", "starting">>, <<"registered", "ending">>,
     <<"starting", "driving">>, <<"starting", "ending">>, <<"driving", "ending">>,
     <<"ending", "releasing">>, <<"releasing", "summing">>, <<"summing", "closing">>,
     <<"closing", "done">>}

Rewritten(g, to) ==
    IF inspection = Run!NoRow THEN inspection
    ELSE IF to = "ending" THEN [inspection EXCEPT !.branches = "ended"]
    ELSE IF to = "driving" THEN [inspection EXCEPT !.status = "RUNNING", !.stage = "working"]
    ELSE IF to = "closing" THEN [inspection EXCEPT !.status = final[g], !.stage = "final"]
    ELSE inspection

EngineGoes(g, from, to) ==
    /\ <<from, to>> \in Path /\ engine[g] = from /\ engine' = [engine EXCEPT ![g] = to]
    /\ runTable' = IF to = "done" THEN 0 ELSE runTable
    /\ inspection' = Rewritten(g, to)
    /\ to = "leased" => holder = 0 /\ holder' = g
    /\ to \in Owning \ {"leased"} => holder' = holder
    /\ holder' \in {0, g, holder} /\ runDevice' \in {0, event[g], runDevice}
    /\ to \in {"leasing", "starting"} => event[g] \notin runSet
    /\ to = "ending" => \E s \in Run!Terminal : final' = [final EXCEPT ![g] = s]
    /\ to # "ending" => final' = final
    /\ to = "driving" => inspection # Run!NoRow
    /\ from = "queued" /\ to = "done" => inspection = Run!NoRow
    /\ UNCHANGED <<created, event, runSet, events, runCancel, runDeleter, creator, runCrashes,
                   inTime>>

EngineActs(g) ==
    \/ Run!Begin(g) \/ Run!FirstCheck(g) \/ Run!Lease(g) \/ Run!LeaseFails(g)
    \/ Run!Register(g) \/ Run!SecondCheck(g) \/ Run!Start(g)
    \/ Run!Work(g) \/ Run!Break(g) \/ Run!WorkAborted(g)
    \/ Run!Unregister(g) \/ Run!Release(g) \/ Run!Summarise(g) \/ Run!Close(g)

LEMMA EnginePath ==
    ASSUME Run!TypeOK, NEW g \in Run!Gens, EngineActs(g)
    PROVE  \E from, to \in EngineSteps : EngineGoes(g, from, to)
<1>1. CASE Run!Begin(g)
  BY <1>1 DEF EngineGoes, EngineSteps, Path, Rewritten, Owning, Run!Begin, Run!Step,
     Run!Terminal, Run!TypeOK, Run!NoRow
<1>2. CASE Run!FirstCheck(g)
  BY <1>2 DEF EngineGoes, EngineSteps, Path, Rewritten, Owning, Run!FirstCheck, Run!Step,
     Run!Aborted, Run!Unaborted, Run!Ends, Run!BranchesEnded, Run!Terminal, Run!TypeOK,
     Run!NoRow
<1>3. CASE Run!SecondCheck(g)
  BY <1>3 DEF EngineGoes, EngineSteps, Path, Rewritten, Owning, Run!SecondCheck,
     Run!Step, Run!Aborted, Run!Unaborted, Run!Ends, Run!BranchesEnded, Run!Terminal,
     Run!TypeOK, Run!NoRow
<1>4. CASE Run!Lease(g) \/ Run!Register(g)
  BY <1>4 DEF EngineGoes, EngineSteps, Path, Rewritten, Owning, Run!Lease, Run!Register,
     Run!Step, Run!Terminal, Run!TypeOK, Run!NoRow
<1>5. CASE Run!LeaseFails(g) \/ Run!Work(g)
  BY <1>5 DEF EngineGoes, EngineSteps, Path, Rewritten, Owning, Run!LeaseFails, Run!Work,
     Run!Step, Run!Ends, Run!Aborted, Run!BranchesEnded, Run!Terminal, Run!TypeOK,
     Run!NoRow
<1>6. CASE Run!Break(g) \/ Run!WorkAborted(g)
  BY <1>6 DEF EngineGoes, EngineSteps, Path, Rewritten, Owning, Run!Break,
     Run!WorkAborted, Run!Step, Run!Ends, Run!Aborted, Run!BranchesEnded, Run!Terminal,
     Run!TypeOK, Run!NoRow
<1>7. CASE Run!Start(g)
  BY <1>7, ZenonT(30) DEF EngineGoes, EngineSteps, Path, Rewritten, Owning, Run!Start, Run!Step,
     Run!Terminal, Run!TypeOK, Run!NoRow
<1>8. CASE Run!Unregister(g) \/ Run!Release(g)
  BY <1>8 DEF EngineGoes, EngineSteps, Path, Rewritten, Owning, Run!Unregister,
     Run!Release, Run!Step, Run!Terminal, Run!TypeOK, Run!NoRow
<1>9. CASE Run!Summarise(g) \/ Run!Close(g)
  BY <1>9 DEF EngineGoes, EngineSteps, Path, Rewritten, Owning, Run!Summarise, Run!Close,
     Run!Step, Run!Terminal, Run!TypeOK, Run!NoRow
<1> QED  BY <1>1, <1>2, <1>3, <1>4, <1>5, <1>6, <1>7, <1>8, <1>9 DEF EngineActs

RunRow == [run : Run!Gens, status : Run!Active \cup Run!Terminal,
           stage : {"waiting", "working", "cancelling", "final"}, branches : {"active", "ended"}]

(* What a step of the engine makes of the row.                               *)
LEMMA RowOfEngine ==
    ASSUME RunInv, NEW g \in Run!Gens, NEW from, NEW to, EngineGoes(g, from, to)
    PROVE  /\ inspection = Run!NoRow <=> inspection' = Run!NoRow
           /\ inspection # Run!NoRow =>
                 /\ inspection' \in RunRow
                 /\ inspection'.status = IF to = "driving" THEN "RUNNING"
                                         ELSE IF to = "closing" THEN final[g]
                                         ELSE inspection.status
                 /\ inspection'.branches = IF to = "ending" THEN "ended" ELSE inspection.branches
<1>1. inspection = Run!NoRow \/ inspection \in RunRow
  BY DEF RunInv, Run!TypeOK, RunRow
<1>2. to = "closing" => final[g] \in Run!Terminal
  BY DEF RunInv, RowIsOwed, Late, EngineGoes, Path, Run!Gens
<1>3. \A r \in RunRow : r # Run!NoRow
  BY BoundsAssumption DEF RunRow, Run!NoRow, Run!Gens
<1>4. CASE inspection = Run!NoRow
  BY <1>4 DEF EngineGoes, Rewritten
<1>5. CASE inspection # Run!NoRow
  <2>1. inspection \in RunRow
    BY <1>1, <1>5
  <2>2. inspection' = Rewritten(g, to)
    BY DEF EngineGoes
  <2>3. CASE to = "ending"
    BY <1>3, <1>5, <2>1, <2>2, <2>3 DEF Rewritten, RunRow
  <2>4. CASE to = "driving"
    BY <1>3, <1>5, <2>1, <2>2, <2>4 DEF Rewritten, RunRow, Run!Active
  <2>5. CASE to = "closing"
    BY <1>2, <1>3, <1>5, <2>1, <2>2, <2>5 DEF Rewritten, RunRow
  <2>6. CASE to \notin {"ending", "driving", "closing"}
    BY <1>3, <1>5, <2>1, <2>2, <2>6 DEF Rewritten
  <2> QED  BY <2>3, <2>4, <2>5, <2>6
<1> QED  BY <1>4, <1>5

(* What is known of the engine that takes a step.                            *)
LEMMA EngineAtWork ==
    ASSUME RunInv, NEW g \in Run!Gens, NEW from, NEW to, EngineGoes(g, from, to)
    PROVE  /\ Run!Alive(g) /\ g = created /\ creator = "idle"
           /\ \A h \in Run!Gens : h # g => ~Run!Alive(h)
           /\ \A h \in Run!Gens : engine'[h] = IF h = g THEN to ELSE engine[h]
<1>1. Run!Alive(g)
  BY DEF EngineGoes, Path, Run!Alive
<1>2. \A h \in Run!Gens : engine'[h] = IF h = g THEN to ELSE engine[h]
  BY DEF EngineGoes, RunInv, Run!TypeOK
<1> QED  BY <1>1, <1>2 DEF RunInv, OneEngine, Run!Gens

LEMMA RunType ==
    ASSUME RunInv, ~Reuse, Run!Next
    PROVE  Run!TypeOK'
<1> USE BoundsAssumption DEF RunInv
<1>1. ASSUME NEW g \in Run!Gens, EngineActs(g) PROVE Run!TypeOK'
  <2>1. PICK from, to \in EngineSteps : EngineGoes(g, from, to)
    BY <1>1, EnginePath
  <2>2. /\ inspection = Run!NoRow <=> inspection' = Run!NoRow
        /\ inspection # Run!NoRow =>
              /\ inspection' \in RunRow
              /\ inspection'.status = IF to = "driving" THEN "RUNNING"
                                      ELSE IF to = "closing" THEN final[g]
                                      ELSE inspection.status
              /\ inspection'.branches = IF to = "ending" THEN "ended" ELSE inspection.branches
    BY <2>1, RowOfEngine
  <2>3. /\ Run!Alive(g) /\ g = created /\ creator = "idle"
        /\ \A h \in Run!Gens : h # g => ~Run!Alive(h)
        /\ \A h \in Run!Gens : engine'[h] = IF h = g THEN to ELSE engine[h]
    BY <2>1, EngineAtWork
  <2>4. (inspection = Run!NoRow \/ inspection \in RunRow)'
    BY <2>1, <2>2, <2>3 DEF EngineGoes, Path, Run!Alive, Run!NoRow, Run!Active,
       Run!Terminal, Run!Gens, Run!TypeOK, RunRow, EngineSteps
  <2>5. (created \in 0 .. MaxRuns /\ inTime \subseteq Run!Gens)'
    BY <2>1, <2>2, <2>3 DEF EngineGoes, Path, Run!Alive, Run!NoRow, Run!Active,
       Run!Terminal, Run!Gens, Run!TypeOK, RunRow, EngineSteps
  <2>6. (holder \in 0 .. MaxRuns)'
    BY <2>1, <2>2, <2>3 DEF EngineGoes, Path, Run!Alive, Run!NoRow, Run!Active,
       Run!Terminal, Run!Gens, Run!TypeOK, RunRow, EngineSteps
  <2>7. (final \in [Run!Gens -> Run!Terminal \cup {"none"}])'
    <3>1. CASE to = "ending"
      <4>1. PICK s \in Run!Terminal : final' = [final EXCEPT ![g] = s]
        BY <2>1, <3>1 DEF EngineGoes
      <4> QED  BY <4>1 DEF Run!TypeOK
    <3>2. CASE to # "ending"
      BY <2>1, <3>2 DEF EngineGoes, Run!TypeOK
    <3> QED  BY <3>1, <3>2
  <2>8. (events \in Nat /\ {runTable, runDevice} \subseteq 0 .. events)'
    BY <2>1, <2>2, <2>3 DEF EngineGoes, Path, Run!Alive, Run!NoRow, Run!Active,
       Run!Terminal, Run!Gens, Run!TypeOK, RunRow, EngineSteps
  <2>9. (runSet \subseteq 1 .. events)'
    BY <2>1, <2>2, <2>3 DEF EngineGoes, Path, Run!Alive, Run!NoRow, Run!Active,
       Run!Terminal, Run!Gens, Run!TypeOK, RunRow, EngineSteps
  <2>10. (event \in [Run!Gens -> 0 .. events])'
    BY <2>1, <2>2, <2>3 DEF EngineGoes, Path, Run!Alive, Run!NoRow, Run!Active,
       Run!Terminal, Run!Gens, Run!TypeOK, RunRow, EngineSteps
  <2>11. (runCancel \in [Cancels -> [pc : {"idle", "aborting", "storing", "done"},
                                     run : 0 .. MaxRuns]])'
    BY <2>1, <2>2, <2>3 DEF EngineGoes, Path, Run!Alive, Run!NoRow, Run!Active,
       Run!Terminal, Run!Gens, Run!TypeOK, RunRow, EngineSteps
  <2>12. (runDeleter \in {"idle", "deleting", "discarding"} /\ creator \in {"idle", "stored"})'
    BY <2>1, <2>2, <2>3 DEF EngineGoes, Path, Run!Alive, Run!NoRow, Run!Active,
       Run!Terminal, Run!Gens, Run!TypeOK, RunRow, EngineSteps
  <2>13. (engine \in [Run!Gens -> EngineSteps])'
    BY <2>1, <2>2, <2>3 DEF EngineGoes, Path, Run!Alive, Run!NoRow, Run!Active,
       Run!Terminal, Run!Gens, Run!TypeOK, RunRow, EngineSteps
  <2>14. (runCrashes \in 0 .. MaxCrashes)'
    BY <2>1, <2>2, <2>3 DEF EngineGoes, Path, Run!Alive, Run!NoRow, Run!Active,
       Run!Terminal, Run!Gens, Run!TypeOK, RunRow, EngineSteps
  <2> QED  BY <2>4, <2>5, <2>6, <2>7, <2>8, <2>9, <2>10, <2>11, <2>12, <2>13,
              <2>14 DEF Run!TypeOK, RunRow, EngineSteps
<1>2. ASSUME NEW k \in Cancels, Run!CancelLook(k) PROVE Run!TypeOK'
  BY <1>2 DEF Run!CancelLook, Run!Alive, Run!NoRow, Run!Active, Run!Terminal, Run!Gens,
     Run!TypeOK
<1>3. ASSUME NEW k \in Cancels, Run!CancelAborts(k) PROVE Run!TypeOK'
  <2>1. (inspection = Run!NoRow \/ inspection \in RunRow)'
    BY <1>3 DEF Run!CancelAborts, Run!RequestAbort, Run!EventKept, Run!EventOfId,
       Run!Alive, Run!NoRow, Run!Active, Run!Terminal, Run!Gens, Run!TypeOK, RunRow,
       EngineSteps
  <2>2. (created \in 0 .. MaxRuns /\ inTime \subseteq Run!Gens)'
    <3>1. inTime' \subseteq inTime \cup {runCancel[k].run}
      BY <1>3 DEF Run!CancelAborts
    <3>2. runCancel[k].run \in Run!Gens
      BY <1>3 DEF Run!CancelAborts, CancelFoundRun
    <3> QED  BY <1>3, <3>1, <3>2 DEF Run!CancelAborts, Run!TypeOK
  <2>3. (holder \in 0 .. MaxRuns)'
    BY <1>3 DEF Run!CancelAborts, Run!RequestAbort, Run!EventKept, Run!EventOfId,
       Run!Alive, Run!NoRow, Run!Active, Run!Terminal, Run!Gens, Run!TypeOK, RunRow,
       EngineSteps
  <2>4. (final \in [Run!Gens -> Run!Terminal \cup {"none"}])'
    BY <1>3 DEF Run!CancelAborts, Run!RequestAbort, Run!EventKept, Run!EventOfId,
       Run!Alive, Run!NoRow, Run!Active, Run!Terminal, Run!Gens, Run!TypeOK, RunRow,
       EngineSteps
  <2>5. (events \in Nat /\ {runTable, runDevice} \subseteq 0 .. events)'
    BY <1>3 DEF Run!CancelAborts, Run!RequestAbort, Run!EventKept, Run!EventOfId,
       Run!Alive, Run!NoRow, Run!Active, Run!Terminal, Run!Gens, Run!TypeOK, RunRow,
       EngineSteps
  <2>6. (runSet \subseteq 1 .. events)'
    BY <1>3 DEF Run!CancelAborts, Run!RequestAbort, Run!EventKept, Run!EventOfId,
       Run!Alive, Run!NoRow, Run!Active, Run!Terminal, Run!Gens, Run!TypeOK, RunRow,
       EngineSteps
  <2>7. (event \in [Run!Gens -> 0 .. events])'
    BY <1>3 DEF Run!CancelAborts, Run!RequestAbort, Run!EventKept, Run!EventOfId,
       Run!Alive, Run!NoRow, Run!Active, Run!Terminal, Run!Gens, Run!TypeOK, RunRow,
       EngineSteps
  <2>8. (runCancel \in [Cancels -> [pc : {"idle", "aborting", "storing", "done"},
                                    run : 0 .. MaxRuns]])'
    BY <1>3 DEF Run!CancelAborts, Run!RequestAbort, Run!EventKept, Run!EventOfId,
       Run!Alive, Run!NoRow, Run!Active, Run!Terminal, Run!Gens, Run!TypeOK, RunRow,
       EngineSteps
  <2>9. (runDeleter \in {"idle", "deleting", "discarding"} /\ creator \in {"idle", "stored"})'
    BY <1>3 DEF Run!CancelAborts, Run!RequestAbort, Run!EventKept, Run!EventOfId,
       Run!Alive, Run!NoRow, Run!Active, Run!Terminal, Run!Gens, Run!TypeOK, RunRow,
       EngineSteps
  <2>10. (engine \in [Run!Gens -> EngineSteps])'
    BY <1>3 DEF Run!CancelAborts, Run!RequestAbort, Run!EventKept, Run!EventOfId,
       Run!Alive, Run!NoRow, Run!Active, Run!Terminal, Run!Gens, Run!TypeOK, RunRow,
       EngineSteps
  <2>11. (runCrashes \in 0 .. MaxCrashes)'
    BY <1>3 DEF Run!CancelAborts, Run!RequestAbort, Run!EventKept, Run!EventOfId,
       Run!Alive, Run!NoRow, Run!Active, Run!Terminal, Run!Gens, Run!TypeOK, RunRow,
       EngineSteps
  <2> QED  BY <2>1, <2>2, <2>3, <2>4, <2>5, <2>6, <2>7, <2>8, <2>9, <2>10,
              <2>11 DEF Run!TypeOK, RunRow, EngineSteps
<1>4. ASSUME NEW k \in Cancels, Run!CancelStores(k) PROVE Run!TypeOK'
  BY <1>4 DEF Run!CancelStores, Run!Alive, Run!NoRow, Run!Active, Run!Terminal, Run!Gens,
     Run!TypeOK
<1>5. CASE Run!Create
  BY <1>5 DEF Run!Create, Run!FormerIsOver, Run!Alive, Run!NoRow, Run!Active,
     Run!Terminal, Run!Gens, Run!TypeOK
<1>6. CASE Run!Launch
  <2>1. (inspection = Run!NoRow \/ inspection \in RunRow)'
    BY <1>6 DEF Run!Launch, Run!EventKept, Run!EventOfId, Run!Alive, Run!NoRow,
       Run!Active, Run!Terminal, Run!Gens, Run!TypeOK, RunRow, EngineSteps
  <2>2. (created \in 0 .. MaxRuns /\ inTime \subseteq Run!Gens)'
    BY <1>6 DEF Run!Launch, Run!EventKept, Run!EventOfId, Run!Alive, Run!NoRow,
       Run!Active, Run!Terminal, Run!Gens, Run!TypeOK, RunRow, EngineSteps
  <2>3. (holder \in 0 .. MaxRuns)'
    BY <1>6 DEF Run!Launch, Run!EventKept, Run!EventOfId, Run!Alive, Run!NoRow,
       Run!Active, Run!Terminal, Run!Gens, Run!TypeOK, RunRow, EngineSteps
  <2>4. (final \in [Run!Gens -> Run!Terminal \cup {"none"}])'
    BY <1>6 DEF Run!Launch, Run!EventKept, Run!EventOfId, Run!Alive, Run!NoRow,
       Run!Active, Run!Terminal, Run!Gens, Run!TypeOK, RunRow, EngineSteps
  <2>5. (events \in Nat /\ {runTable, runDevice} \subseteq 0 .. events)'
    BY <1>6 DEF Run!Launch, Run!EventKept, Run!EventOfId, Run!Alive, Run!NoRow,
       Run!Active, Run!Terminal, Run!Gens, Run!TypeOK, RunRow, EngineSteps
  <2>6. (runSet \subseteq 1 .. events)'
    BY <1>6 DEF Run!Launch, Run!EventKept, Run!EventOfId, Run!Alive, Run!NoRow,
       Run!Active, Run!Terminal, Run!Gens, Run!TypeOK, RunRow, EngineSteps
  <2>7. (event \in [Run!Gens -> 0 .. events])'
    <3>1. Run!EventOfId \in 0 .. events' /\ event \in [Run!Gens -> 0 .. events']
      BY <1>6 DEF Run!Launch, Run!EventKept, Run!EventOfId, Run!TypeOK
    <3> QED  BY <1>6, <3>1 DEF Run!Launch
  <2>8. (runCancel \in [Cancels -> [pc : {"idle", "aborting", "storing", "done"},
                                    run : 0 .. MaxRuns]])'
    BY <1>6 DEF Run!Launch, Run!EventKept, Run!EventOfId, Run!Alive, Run!NoRow,
       Run!Active, Run!Terminal, Run!Gens, Run!TypeOK, RunRow, EngineSteps
  <2>9. (runDeleter \in {"idle", "deleting", "discarding"} /\ creator \in {"idle", "stored"})'
    BY <1>6 DEF Run!Launch, Run!EventKept, Run!EventOfId, Run!Alive, Run!NoRow,
       Run!Active, Run!Terminal, Run!Gens, Run!TypeOK, RunRow, EngineSteps
  <2>10. (engine \in [Run!Gens -> EngineSteps])'
    BY <1>6 DEF Run!Launch, Run!EventKept, Run!EventOfId, Run!Alive, Run!NoRow,
       Run!Active, Run!Terminal, Run!Gens, Run!TypeOK, RunRow, EngineSteps
  <2>11. (runCrashes \in 0 .. MaxCrashes)'
    BY <1>6 DEF Run!Launch, Run!EventKept, Run!EventOfId, Run!Alive, Run!NoRow,
       Run!Active, Run!Terminal, Run!Gens, Run!TypeOK, RunRow, EngineSteps
  <2> QED  BY <2>1, <2>2, <2>3, <2>4, <2>5, <2>6, <2>7, <2>8, <2>9, <2>10,
              <2>11 DEF Run!TypeOK, RunRow, EngineSteps
<1>7. CASE Run!Unlock
  <2>1. (inspection = Run!NoRow \/ inspection \in RunRow)'
    BY <1>7 DEF Run!Unlock, Run!Alive, Run!NoRow, Run!Active, Run!Terminal, Run!Gens,
       Run!TypeOK, RunRow, EngineSteps
  <2>2. (created \in 0 .. MaxRuns /\ inTime \subseteq Run!Gens)'
    BY <1>7 DEF Run!Unlock, Run!Alive, Run!NoRow, Run!Active, Run!Terminal, Run!Gens,
       Run!TypeOK, RunRow, EngineSteps
  <2>3. (holder \in 0 .. MaxRuns)'
    BY <1>7 DEF Run!Unlock, Run!Alive, Run!NoRow, Run!Active, Run!Terminal, Run!Gens,
       Run!TypeOK, RunRow, EngineSteps
  <2>4. (final \in [Run!Gens -> Run!Terminal \cup {"none"}])'
    BY <1>7 DEF Run!Unlock, Run!Alive, Run!NoRow, Run!Active, Run!Terminal, Run!Gens,
       Run!TypeOK, RunRow, EngineSteps
  <2>5. (events \in Nat /\ {runTable, runDevice} \subseteq 0 .. events)'
    BY <1>7 DEF Run!Unlock, Run!Alive, Run!NoRow, Run!Active, Run!Terminal, Run!Gens,
       Run!TypeOK, RunRow, EngineSteps
  <2>6. (runSet \subseteq 1 .. events)'
    <3>1. runDevice \in 1 .. events /\ events' = events /\ runSet \subseteq 1 .. events
      BY <1>7 DEF Run!Unlock, Run!TypeOK
    <3> QED  BY <1>7, <3>1 DEF Run!Unlock
  <2>7. (event \in [Run!Gens -> 0 .. events])'
    BY <1>7 DEF Run!Unlock, Run!Alive, Run!NoRow, Run!Active, Run!Terminal, Run!Gens,
       Run!TypeOK, RunRow, EngineSteps
  <2>8. (runCancel \in [Cancels -> [pc : {"idle", "aborting", "storing", "done"},
                                    run : 0 .. MaxRuns]])'
    BY <1>7 DEF Run!Unlock, Run!Alive, Run!NoRow, Run!Active, Run!Terminal, Run!Gens,
       Run!TypeOK, RunRow, EngineSteps
  <2>9. (runDeleter \in {"idle", "deleting", "discarding"} /\ creator \in {"idle", "stored"})'
    BY <1>7 DEF Run!Unlock, Run!Alive, Run!NoRow, Run!Active, Run!Terminal, Run!Gens,
       Run!TypeOK, RunRow, EngineSteps
  <2>10. (engine \in [Run!Gens -> EngineSteps])'
    BY <1>7 DEF Run!Unlock, Run!Alive, Run!NoRow, Run!Active, Run!Terminal, Run!Gens,
       Run!TypeOK, RunRow, EngineSteps
  <2>11. (runCrashes \in 0 .. MaxCrashes)'
    BY <1>7 DEF Run!Unlock, Run!Alive, Run!NoRow, Run!Active, Run!Terminal, Run!Gens,
       Run!TypeOK, RunRow, EngineSteps
  <2> QED  BY <2>1, <2>2, <2>3, <2>4, <2>5, <2>6, <2>7, <2>8, <2>9, <2>10,
              <2>11 DEF Run!TypeOK, RunRow, EngineSteps
<1>8. CASE Run!Crash
  <2>1. (inspection = Run!NoRow \/ inspection \in RunRow)'
    BY <1>8 DEF Run!Crash, Run!Alive, Run!NoRow, Run!Active, Run!Terminal, Run!Gens,
       Run!TypeOK, RunRow, EngineSteps
  <2>2. (created \in 0 .. MaxRuns /\ inTime \subseteq Run!Gens)'
    BY <1>8 DEF Run!Crash, Run!Alive, Run!NoRow, Run!Active, Run!Terminal, Run!Gens,
       Run!TypeOK, RunRow, EngineSteps
  <2>3. (holder \in 0 .. MaxRuns)'
    BY <1>8 DEF Run!Crash, Run!Alive, Run!NoRow, Run!Active, Run!Terminal, Run!Gens,
       Run!TypeOK, RunRow, EngineSteps
  <2>4. (final \in [Run!Gens -> Run!Terminal \cup {"none"}])'
    BY <1>8 DEF Run!Crash, Run!Alive, Run!NoRow, Run!Active, Run!Terminal, Run!Gens,
       Run!TypeOK, RunRow, EngineSteps
  <2>5. (events \in Nat /\ {runTable, runDevice} \subseteq 0 .. events)'
    BY <1>8 DEF Run!Crash, Run!Alive, Run!NoRow, Run!Active, Run!Terminal, Run!Gens,
       Run!TypeOK, RunRow, EngineSteps
  <2>6. (runSet \subseteq 1 .. events)'
    BY <1>8 DEF Run!Crash, Run!Alive, Run!NoRow, Run!Active, Run!Terminal, Run!Gens,
       Run!TypeOK, RunRow, EngineSteps
  <2>7. (event \in [Run!Gens -> 0 .. events])'
    BY <1>8 DEF Run!Crash, Run!Alive, Run!NoRow, Run!Active, Run!Terminal, Run!Gens,
       Run!TypeOK, RunRow, EngineSteps
  <2>8. (runCancel \in [Cancels -> [pc : {"idle", "aborting", "storing", "done"},
                                    run : 0 .. MaxRuns]])'
    BY <1>8, SMTT(30) DEF Run!Crash, Run!Alive, Run!NoRow, Run!Active, Run!Terminal, Run!Gens,
       Run!TypeOK, RunRow, EngineSteps
  <2>9. (runDeleter \in {"idle", "deleting", "discarding"} /\ creator \in {"idle", "stored"})'
    BY <1>8 DEF Run!Crash, Run!Alive, Run!NoRow, Run!Active, Run!Terminal, Run!Gens,
       Run!TypeOK, RunRow, EngineSteps
  <2>10. (engine \in [Run!Gens -> EngineSteps])'
    BY <1>8 DEF Run!Crash, Run!Alive, Run!NoRow, Run!Active, Run!Terminal, Run!Gens,
       Run!TypeOK, RunRow, EngineSteps
  <2>11. (runCrashes \in 0 .. MaxCrashes)'
    BY <1>8 DEF Run!Crash, Run!Alive, Run!NoRow, Run!Active, Run!Terminal, Run!Gens,
       Run!TypeOK, RunRow, EngineSteps
  <2> QED  BY <2>1, <2>2, <2>3, <2>4, <2>5, <2>6, <2>7, <2>8, <2>9, <2>10,
              <2>11 DEF Run!TypeOK, RunRow, EngineSteps
<1>9. CASE Run!DeleteLook
  BY <1>9 DEF Run!DeleteLook, Run!LeftByEngine, Run!Alive, Run!NoRow, Run!Active,
     Run!Terminal, Run!Gens, Run!TypeOK
<1>10. CASE Run!DeleteCommit
  BY <1>10 DEF Run!DeleteCommit, Run!Alive, Run!NoRow, Run!Active, Run!Terminal,
     Run!Gens, Run!TypeOK
<1>11. CASE Run!DeleteDiscards
  BY <1>11 DEF Run!DeleteDiscards, Run!Alive, Run!NoRow, Run!Active, Run!Terminal,
     Run!Gens, Run!TypeOK
<1> QED  BY <1>1, <1>2, <1>3, <1>4, <1>5, <1>6, <1>7, <1>8, <1>9, <1>10,
            <1>11 DEF Run!Next, EngineActs

LEMMA CancelFoundRunStep ==
    ASSUME RunInv, ~Reuse, Run!Next
    PROVE  CancelFoundRun'
<1> USE BoundsAssumption DEF RunInv
<1>1. ASSUME NEW g \in Run!Gens, EngineActs(g) PROVE CancelFoundRun'
  <2>1. PICK from, to \in EngineSteps : EngineGoes(g, from, to)
    BY <1>1, EnginePath
  <2>2. /\ inspection = Run!NoRow <=> inspection' = Run!NoRow
        /\ inspection # Run!NoRow =>
              /\ inspection' \in RunRow
              /\ inspection'.status = IF to = "driving" THEN "RUNNING"
                                      ELSE IF to = "closing" THEN final[g]
                                      ELSE inspection.status
              /\ inspection'.branches = IF to = "ending" THEN "ended" ELSE inspection.branches
    BY <2>1, RowOfEngine
  <2>3. /\ Run!Alive(g) /\ g = created /\ creator = "idle"
        /\ \A h \in Run!Gens : h # g => ~Run!Alive(h)
        /\ \A h \in Run!Gens : engine'[h] = IF h = g THEN to ELSE engine[h]
    BY <2>1, EngineAtWork
  <2> QED  BY <2>1, <2>2, <2>3 DEF EngineGoes, Path, Run!Alive, Run!NoRow, Run!Active,
              Run!Terminal, Run!Gens, Run!TypeOK, CancelFoundRun, RunRow
<1>2. ASSUME NEW k \in Cancels, Run!CancelLook(k) PROVE CancelFoundRun'
  BY <1>2 DEF Run!CancelLook, Run!Alive, Run!NoRow, Run!Active, Run!Terminal, Run!Gens,
     Run!TypeOK, CancelFoundRun, RunRow
<1>3. ASSUME NEW k \in Cancels, Run!CancelAborts(k) PROVE CancelFoundRun'
  BY <1>3 DEF Run!CancelAborts, Run!RequestAbort, Run!EventKept, Run!EventOfId,
     Run!Alive, Run!NoRow, Run!Active, Run!Terminal, Run!Gens, Run!TypeOK,
     CancelFoundRun, RunRow
<1>4. ASSUME NEW k \in Cancels, Run!CancelStores(k) PROVE CancelFoundRun'
  BY <1>4 DEF Run!CancelStores, Run!Alive, Run!NoRow, Run!Active, Run!Terminal, Run!Gens,
     Run!TypeOK, CancelFoundRun, RunRow
<1>5. CASE Run!Create
  BY <1>5 DEF Run!Create, Run!FormerIsOver, Run!Alive, Run!NoRow, Run!Active,
     Run!Terminal, Run!Gens, Run!TypeOK, CancelFoundRun, RunRow
<1>6. CASE Run!Launch
  BY <1>6 DEF Run!Launch, Run!EventKept, Run!EventOfId, Run!Alive, Run!NoRow, Run!Active,
     Run!Terminal, Run!Gens, Run!TypeOK, CancelFoundRun, RunRow
<1>7. CASE Run!Unlock
  BY <1>7 DEF Run!Unlock, Run!Alive, Run!NoRow, Run!Active, Run!Terminal, Run!Gens,
     Run!TypeOK, CancelFoundRun, RunRow
<1>8. CASE Run!Crash
  BY <1>8 DEF Run!Crash, Run!Alive, Run!NoRow, Run!Active, Run!Terminal, Run!Gens,
     Run!TypeOK, CancelFoundRun, RunRow
<1>9. CASE Run!DeleteLook
  BY <1>9 DEF Run!DeleteLook, Run!LeftByEngine, Run!Alive, Run!NoRow, Run!Active,
     Run!Terminal, Run!Gens, Run!TypeOK, CancelFoundRun, RunRow
<1>10. CASE Run!DeleteCommit
  BY <1>10 DEF Run!DeleteCommit, Run!Alive, Run!NoRow, Run!Active, Run!Terminal,
     Run!Gens, Run!TypeOK, CancelFoundRun, RunRow
<1>11. CASE Run!DeleteDiscards
  BY <1>11 DEF Run!DeleteDiscards, Run!Alive, Run!NoRow, Run!Active, Run!Terminal,
     Run!Gens, Run!TypeOK, CancelFoundRun, RunRow
<1> QED  BY <1>1, <1>2, <1>3, <1>4, <1>5, <1>6, <1>7, <1>8, <1>9, <1>10,
            <1>11 DEF Run!Next, EngineActs

LEMMA OneEngineStep ==
    ASSUME RunInv, ~Reuse, Run!Next
    PROVE  OneEngine'
<1> USE BoundsAssumption DEF RunInv
<1>1. ASSUME NEW g \in Run!Gens, EngineActs(g) PROVE OneEngine'
  <2>1. PICK from, to \in EngineSteps : EngineGoes(g, from, to)
    BY <1>1, EnginePath
  <2>2. /\ inspection = Run!NoRow <=> inspection' = Run!NoRow
        /\ inspection # Run!NoRow =>
              /\ inspection' \in RunRow
              /\ inspection'.status = IF to = "driving" THEN "RUNNING"
                                      ELSE IF to = "closing" THEN final[g]
                                      ELSE inspection.status
              /\ inspection'.branches = IF to = "ending" THEN "ended" ELSE inspection.branches
    BY <2>1, RowOfEngine
  <2>3. /\ Run!Alive(g) /\ g = created /\ creator = "idle"
        /\ \A h \in Run!Gens : h # g => ~Run!Alive(h)
        /\ \A h \in Run!Gens : engine'[h] = IF h = g THEN to ELSE engine[h]
    BY <2>1, EngineAtWork
  <2>4. (\A h \in 1 .. MaxRuns : Run!Alive(h) => h = created /\ creator = "idle")'
    BY <2>1, <2>2, <2>3 DEF EngineGoes, Path, Run!Alive, Run!NoRow, Run!Active,
       Run!Terminal, Run!Gens, Run!TypeOK, OneEngine, Owning
  <2>5. (\A h \in 1 .. MaxRuns : h > created => engine[h] = "none")'
    BY <2>1, <2>2, <2>3 DEF EngineGoes, Path, Run!Alive, Run!NoRow, Run!Active,
       Run!Terminal, Run!Gens, Run!TypeOK, OneEngine, Owning
  <2>6. (creator = "stored" => created > 0 /\ engine[created] = "none")'
    BY <2>1, <2>2, <2>3 DEF EngineGoes, Path, Run!Alive, Run!NoRow, Run!Active,
       Run!Terminal, Run!Gens, Run!TypeOK, OneEngine, Owning
  <2>7. (creator = "stored" => runDeleter # "discarding" \/ inspection = Run!NoRow)'
    BY <2>1, <2>2, <2>3 DEF EngineGoes, Path, Run!Alive, Run!NoRow, Run!Active,
       Run!Terminal, Run!Gens, Run!TypeOK, OneEngine, Owning
  <2>8. (\A h \in 1 .. MaxRuns : engine[h] \in Owning => holder = h)'
    <3>1. to \in Owning => holder' = g
      <4>1. CASE to = "leased"
        BY <2>1, <4>1 DEF EngineGoes
      <4>2. CASE to \in Owning \ {"leased"}
        <5>1. from \in Owning
          BY <2>1, <4>2 DEF EngineGoes, Path, Owning
        <5> QED  BY <2>1, <4>2, <5>1 DEF EngineGoes, OneEngine, Run!Gens
      <4> QED  BY <4>1, <4>2
    <3>2. \A h \in Run!Gens : engine'[h] \in Owning => h = g
      BY <2>3 DEF Run!Alive, Owning
    <3> QED  BY <2>3, <3>1, <3>2 DEF Run!Gens
  <2> QED  BY <2>4, <2>5, <2>6, <2>7, <2>8 DEF OneEngine
<1>2. ASSUME NEW k \in Cancels, Run!CancelLook(k) PROVE OneEngine'
  BY <1>2 DEF Run!CancelLook, Run!Alive, Run!NoRow, Run!Active, Run!Terminal, Run!Gens,
     Run!TypeOK, OneEngine, Owning
<1>3. ASSUME NEW k \in Cancels, Run!CancelAborts(k) PROVE OneEngine'
  BY <1>3 DEF Run!CancelAborts, Run!RequestAbort, Run!EventKept, Run!EventOfId,
     Run!Alive, Run!NoRow, Run!Active, Run!Terminal, Run!Gens, Run!TypeOK, OneEngine,
     Owning
<1>4. ASSUME NEW k \in Cancels, Run!CancelStores(k) PROVE OneEngine'
  BY <1>4 DEF Run!CancelStores, Run!Alive, Run!NoRow, Run!Active, Run!Terminal, Run!Gens,
     Run!TypeOK, OneEngine, Owning
<1>5. CASE Run!Create
  BY <1>5 DEF Run!Create, Run!FormerIsOver, Run!Alive, Run!NoRow, Run!Active,
     Run!Terminal, Run!Gens, Run!TypeOK, OneEngine, Owning
<1>6. CASE Run!Launch
  BY <1>6 DEF Run!Launch, Run!EventKept, Run!EventOfId, Run!Alive, Run!NoRow, Run!Active,
     Run!Terminal, Run!Gens, Run!TypeOK, OneEngine, Owning
<1>7. CASE Run!Unlock
  BY <1>7 DEF Run!Unlock, Run!Alive, Run!NoRow, Run!Active, Run!Terminal, Run!Gens,
     Run!TypeOK, OneEngine, Owning
<1>8. CASE Run!Crash
  BY <1>8 DEF Run!Crash, Run!Alive, Run!NoRow, Run!Active, Run!Terminal, Run!Gens,
     Run!TypeOK, OneEngine, Owning
<1>9. CASE Run!DeleteLook
  BY <1>9 DEF Run!DeleteLook, Run!LeftByEngine, Run!Alive, Run!NoRow, Run!Active,
     Run!Terminal, Run!Gens, Run!TypeOK, OneEngine, Owning
<1>10. CASE Run!DeleteCommit
  BY <1>10 DEF Run!DeleteCommit, Run!Alive, Run!NoRow, Run!Active, Run!Terminal,
     Run!Gens, Run!TypeOK, OneEngine, Owning
<1>11. CASE Run!DeleteDiscards
  BY <1>11 DEF Run!DeleteDiscards, Run!Alive, Run!NoRow, Run!Active, Run!Terminal,
     Run!Gens, Run!TypeOK, OneEngine, Owning
<1> QED  BY <1>1, <1>2, <1>3, <1>4, <1>5, <1>6, <1>7, <1>8, <1>9, <1>10,
            <1>11 DEF Run!Next, EngineActs

LEMMA EngineHasEventStep ==
    ASSUME RunInv, ~Reuse, Run!Next
    PROVE  EngineHasEvent'
<1> USE BoundsAssumption DEF RunInv
<1>1. ASSUME NEW g \in Run!Gens, EngineActs(g) PROVE EngineHasEvent'
  <2>1. PICK from, to \in EngineSteps : EngineGoes(g, from, to)
    BY <1>1, EnginePath
  <2>2. /\ inspection = Run!NoRow <=> inspection' = Run!NoRow
        /\ inspection # Run!NoRow =>
              /\ inspection' \in RunRow
              /\ inspection'.status = IF to = "driving" THEN "RUNNING"
                                      ELSE IF to = "closing" THEN final[g]
                                      ELSE inspection.status
              /\ inspection'.branches = IF to = "ending" THEN "ended" ELSE inspection.branches
    BY <2>1, RowOfEngine
  <2>3. /\ Run!Alive(g) /\ g = created /\ creator = "idle"
        /\ \A h \in Run!Gens : h # g => ~Run!Alive(h)
        /\ \A h \in Run!Gens : engine'[h] = IF h = g THEN to ELSE engine[h]
    BY <2>1, EngineAtWork
  <2> QED  BY <2>1, <2>2, <2>3 DEF EngineGoes, Path, Run!Alive, Run!NoRow, Run!Active,
              Run!Terminal, Run!Gens, Run!TypeOK, EngineHasEvent, OneEngine
<1>2. ASSUME NEW k \in Cancels, Run!CancelLook(k) PROVE EngineHasEvent'
  BY <1>2 DEF Run!CancelLook, Run!Alive, Run!NoRow, Run!Active, Run!Terminal, Run!Gens,
     Run!TypeOK, EngineHasEvent, OneEngine
<1>3. ASSUME NEW k \in Cancels, Run!CancelAborts(k) PROVE EngineHasEvent'
  BY <1>3 DEF Run!CancelAborts, Run!RequestAbort, Run!EventKept, Run!EventOfId,
     Run!Alive, Run!NoRow, Run!Active, Run!Terminal, Run!Gens, Run!TypeOK,
     EngineHasEvent, OneEngine
<1>4. ASSUME NEW k \in Cancels, Run!CancelStores(k) PROVE EngineHasEvent'
  BY <1>4 DEF Run!CancelStores, Run!Alive, Run!NoRow, Run!Active, Run!Terminal, Run!Gens,
     Run!TypeOK, EngineHasEvent, OneEngine
<1>5. CASE Run!Create
  BY <1>5 DEF Run!Create, Run!FormerIsOver, Run!Alive, Run!NoRow, Run!Active,
     Run!Terminal, Run!Gens, Run!TypeOK, EngineHasEvent, OneEngine
<1>6. CASE Run!Launch
  BY <1>6 DEF Run!Launch, Run!EventKept, Run!EventOfId, Run!Alive, Run!NoRow, Run!Active,
     Run!Terminal, Run!Gens, Run!TypeOK, EngineHasEvent, OneEngine
<1>7. CASE Run!Unlock
  BY <1>7 DEF Run!Unlock, Run!Alive, Run!NoRow, Run!Active, Run!Terminal, Run!Gens,
     Run!TypeOK, EngineHasEvent, OneEngine
<1>8. CASE Run!Crash
  BY <1>8 DEF Run!Crash, Run!Alive, Run!NoRow, Run!Active, Run!Terminal, Run!Gens,
     Run!TypeOK, EngineHasEvent, OneEngine
<1>9. CASE Run!DeleteLook
  BY <1>9 DEF Run!DeleteLook, Run!LeftByEngine, Run!Alive, Run!NoRow, Run!Active,
     Run!Terminal, Run!Gens, Run!TypeOK, EngineHasEvent, OneEngine
<1>10. CASE Run!DeleteCommit
  BY <1>10 DEF Run!DeleteCommit, Run!Alive, Run!NoRow, Run!Active, Run!Terminal,
     Run!Gens, Run!TypeOK, EngineHasEvent, OneEngine
<1>11. CASE Run!DeleteDiscards
  BY <1>11 DEF Run!DeleteDiscards, Run!Alive, Run!NoRow, Run!Active, Run!Terminal,
     Run!Gens, Run!TypeOK, EngineHasEvent, OneEngine
<1> QED  BY <1>1, <1>2, <1>3, <1>4, <1>5, <1>6, <1>7, <1>8, <1>9, <1>10,
            <1>11 DEF Run!Next, EngineActs

LEMMA CancelReachesEngineStep ==
    ASSUME RunInv, ~Reuse, Run!Next
    PROVE  CancelReachesEngine'
<1> USE BoundsAssumption DEF RunInv
<1>1. ASSUME NEW g \in Run!Gens, EngineActs(g) PROVE CancelReachesEngine'
  <2>1. PICK from, to \in EngineSteps : EngineGoes(g, from, to)
    BY <1>1, EnginePath
  <2>2. /\ inspection = Run!NoRow <=> inspection' = Run!NoRow
        /\ inspection # Run!NoRow =>
              /\ inspection' \in RunRow
              /\ inspection'.status = IF to = "driving" THEN "RUNNING"
                                      ELSE IF to = "closing" THEN final[g]
                                      ELSE inspection.status
              /\ inspection'.branches = IF to = "ending" THEN "ended" ELSE inspection.branches
    BY <2>1, RowOfEngine
  <2>3. /\ Run!Alive(g) /\ g = created /\ creator = "idle"
        /\ \A h \in Run!Gens : h # g => ~Run!Alive(h)
        /\ \A h \in Run!Gens : engine'[h] = IF h = g THEN to ELSE engine[h]
    BY <2>1, EngineAtWork
  <2>4. (CancelUnderWay /\ inspection # Run!NoRow =>
             \A h \in 1 .. MaxRuns : engine[h] \in Early => event[h] \in runSet)'
    <3>1. CASE to \in Early
      <4>1. CancelUnderWay' => CancelUnderWay
        BY <2>1, <2>2, <3>1 DEF EngineGoes, CancelUnderWay, Run!NoRow, Early
      <4>2. from \in Early
        BY <2>1, <3>1 DEF EngineGoes, Path, Early
      <4> QED  BY <2>1, <2>2, <2>3, <4>1, <4>2 DEF EngineGoes, CancelReachesEngine,
                  Run!Gens
    <3>2. CASE to \notin Early
      <4>1. \A h \in Run!Gens : engine'[h] \notin Early
        BY <2>3, <3>2 DEF Run!Alive, Early
      <4> QED  BY <4>1 DEF Run!Gens
    <3> QED  BY <3>1, <3>2
  <2>5. (CancelUnderWay /\ inspection # Run!NoRow /\ creator = "stored" =>
             runTable # 0 /\ runTable \in runSet)'
    BY <2>1, <2>2, <2>3 DEF EngineGoes, Path, Run!Alive, Run!NoRow, Run!Active,
       Run!Terminal, Run!Gens, Run!TypeOK, CancelReachesEngine, CancelUnderWay, Early,
       EngineHasEvent, OneEngine
  <2> QED  BY <2>4, <2>5 DEF CancelReachesEngine
<1>2. ASSUME NEW k \in Cancels, Run!CancelLook(k) PROVE CancelReachesEngine'
  BY <1>2 DEF Run!CancelLook, Run!Alive, Run!NoRow, Run!Active, Run!Terminal, Run!Gens,
     Run!TypeOK, CancelReachesEngine, CancelUnderWay, Early, EngineHasEvent, OneEngine
<1>3. ASSUME NEW k \in Cancels, Run!CancelAborts(k) PROVE CancelReachesEngine'
  <2>1. (CancelUnderWay /\ inspection # Run!NoRow =>
             \A h \in 1 .. MaxRuns : engine[h] \in Early => event[h] \in runSet)'
    BY <1>3, SMTT(30) DEF Run!CancelAborts, Run!RequestAbort, Run!EventKept, Run!EventOfId,
       Run!Alive, Run!NoRow, Run!Active, Run!Terminal, Run!Gens, Run!TypeOK,
       CancelReachesEngine, CancelUnderWay, Early, EngineHasEvent, OneEngine
  <2>2. (CancelUnderWay /\ inspection # Run!NoRow /\ creator = "stored" =>
             runTable # 0 /\ runTable \in runSet)'
    BY <1>3 DEF Run!CancelAborts, Run!RequestAbort, Run!EventKept, Run!EventOfId,
       Run!Alive, Run!NoRow, Run!Active, Run!Terminal, Run!Gens, Run!TypeOK,
       CancelReachesEngine, CancelUnderWay, Early, EngineHasEvent, OneEngine
  <2> QED  BY <2>1, <2>2 DEF CancelReachesEngine
<1>4. ASSUME NEW k \in Cancels, Run!CancelStores(k) PROVE CancelReachesEngine'
  BY <1>4 DEF Run!CancelStores, Run!Alive, Run!NoRow, Run!Active, Run!Terminal, Run!Gens,
     Run!TypeOK, CancelReachesEngine, CancelUnderWay, Early, EngineHasEvent, OneEngine
<1>5. CASE Run!Create
  BY <1>5 DEF Run!Create, Run!FormerIsOver, Run!Alive, Run!NoRow, Run!Active,
     Run!Terminal, Run!Gens, Run!TypeOK, CancelReachesEngine, CancelUnderWay, Early,
     EngineHasEvent, OneEngine
<1>6. CASE Run!Launch
  BY <1>6 DEF Run!Launch, Run!EventKept, Run!EventOfId, Run!Alive, Run!NoRow, Run!Active,
     Run!Terminal, Run!Gens, Run!TypeOK, CancelReachesEngine, CancelUnderWay, Early,
     EngineHasEvent, OneEngine
<1>7. CASE Run!Unlock
  BY <1>7 DEF Run!Unlock, Run!Alive, Run!NoRow, Run!Active, Run!Terminal, Run!Gens,
     Run!TypeOK, CancelReachesEngine, CancelUnderWay, Early, EngineHasEvent, OneEngine
<1>8. CASE Run!Crash
  BY <1>8 DEF Run!Crash, Run!Alive, Run!NoRow, Run!Active, Run!Terminal, Run!Gens,
     Run!TypeOK, CancelReachesEngine, CancelUnderWay, Early, EngineHasEvent, OneEngine
<1>9. CASE Run!DeleteLook
  BY <1>9 DEF Run!DeleteLook, Run!LeftByEngine, Run!Alive, Run!NoRow, Run!Active,
     Run!Terminal, Run!Gens, Run!TypeOK, CancelReachesEngine, CancelUnderWay, Early,
     EngineHasEvent, OneEngine
<1>10. CASE Run!DeleteCommit
  BY <1>10 DEF Run!DeleteCommit, Run!Alive, Run!NoRow, Run!Active, Run!Terminal,
     Run!Gens, Run!TypeOK, CancelReachesEngine, CancelUnderWay, Early, EngineHasEvent,
     OneEngine
<1>11. CASE Run!DeleteDiscards
  BY <1>11 DEF Run!DeleteDiscards, Run!Alive, Run!NoRow, Run!Active, Run!Terminal,
     Run!Gens, Run!TypeOK, CancelReachesEngine, CancelUnderWay, Early, EngineHasEvent,
     OneEngine
<1> QED  BY <1>1, <1>2, <1>3, <1>4, <1>5, <1>6, <1>7, <1>8, <1>9, <1>10,
            <1>11 DEF Run!Next, EngineActs

LEMMA DeletedIsOverStep ==
    ASSUME RunInv, ~Reuse, Run!Next
    PROVE  DeletedIsOver'
<1> USE BoundsAssumption DEF RunInv
<1>1. ASSUME NEW g \in Run!Gens, EngineActs(g) PROVE DeletedIsOver'
  <2>1. PICK from, to \in EngineSteps : EngineGoes(g, from, to)
    BY <1>1, EnginePath
  <2>2. /\ inspection = Run!NoRow <=> inspection' = Run!NoRow
        /\ inspection # Run!NoRow =>
              /\ inspection' \in RunRow
              /\ inspection'.status = IF to = "driving" THEN "RUNNING"
                                      ELSE IF to = "closing" THEN final[g]
                                      ELSE inspection.status
              /\ inspection'.branches = IF to = "ending" THEN "ended" ELSE inspection.branches
    BY <2>1, RowOfEngine
  <2>3. /\ Run!Alive(g) /\ g = created /\ creator = "idle"
        /\ \A h \in Run!Gens : h # g => ~Run!Alive(h)
        /\ \A h \in Run!Gens : engine'[h] = IF h = g THEN to ELSE engine[h]
    BY <2>1, EngineAtWork
  <2>4. (runDeleter = "deleting" =>
             inspection # Run!NoRow /\ inspection.status \in Run!Terminal)'
    <3>1. CASE to = "driving"
      BY <2>1, <3>1 DEF EngineGoes, Path, DeletedIsOver, Run!Gens
    <3>2. CASE to # "driving"
      <4>1. to = "closing" => final[g] \in Run!Terminal
        BY <2>1 DEF EngineGoes, Path, RowIsOwed, Late, Run!Gens
      <4> QED  BY <2>1, <2>2, <3>2, <4>1 DEF EngineGoes, DeletedIsOver
    <3> QED  BY <3>1, <3>2
  <2>5. (runDeleter = "deleting" =>
             \A h \in 1 .. MaxRuns : engine[h] \notin {"starting", "driving"})'
    BY <2>1, <2>2, <2>3, SMTT(30) DEF EngineGoes, Path, Run!Alive, Run!NoRow, Run!Active,
       Run!Terminal, Run!Gens, Run!TypeOK, DeletedIsOver, Run!DrivenHasRow, OneEngine,
       CancelReachesEngine, CancelUnderWay, Early, Owning
  <2>6. (\A h \in 1 .. MaxRuns : engine[h] = "driving" => inspection # Run!NoRow)'
    BY <2>1, <2>2, <2>3 DEF EngineGoes, Path, Run!Alive, Run!NoRow, Run!Active,
       Run!Terminal, Run!Gens, Run!TypeOK, DeletedIsOver, Run!DrivenHasRow, OneEngine,
       CancelReachesEngine, CancelUnderWay, Early, Owning
  <2> QED  BY <2>4, <2>5, <2>6 DEF DeletedIsOver, Run!DrivenHasRow, Run!Gens
<1>2. ASSUME NEW k \in Cancels, Run!CancelLook(k) PROVE DeletedIsOver'
  BY <1>2 DEF Run!CancelLook, Run!Alive, Run!NoRow, Run!Active, Run!Terminal, Run!Gens,
     Run!TypeOK, DeletedIsOver, Run!DrivenHasRow, OneEngine, CancelReachesEngine,
     CancelUnderWay, Early, Owning
<1>3. ASSUME NEW k \in Cancels, Run!CancelAborts(k) PROVE DeletedIsOver'
  BY <1>3 DEF Run!CancelAborts, Run!RequestAbort, Run!EventKept, Run!EventOfId,
     Run!Alive, Run!NoRow, Run!Active, Run!Terminal, Run!Gens, Run!TypeOK, DeletedIsOver,
     Run!DrivenHasRow, OneEngine, CancelReachesEngine, CancelUnderWay, Early, Owning
<1>4. ASSUME NEW k \in Cancels, Run!CancelStores(k) PROVE DeletedIsOver'
  BY <1>4, ZenonT(30) DEF Run!CancelStores, Run!Alive, Run!NoRow, Run!Active, Run!Terminal, Run!Gens,
     Run!TypeOK, DeletedIsOver, Run!DrivenHasRow, OneEngine, CancelReachesEngine,
     CancelUnderWay, Early, Owning
<1>5. CASE Run!Create
  BY <1>5 DEF Run!Create, Run!FormerIsOver, Run!Alive, Run!NoRow, Run!Active,
     Run!Terminal, Run!Gens, Run!TypeOK, DeletedIsOver, Run!DrivenHasRow, OneEngine,
     CancelReachesEngine, CancelUnderWay, Early, Owning
<1>6. CASE Run!Launch
  BY <1>6 DEF Run!Launch, Run!EventKept, Run!EventOfId, Run!Alive, Run!NoRow, Run!Active,
     Run!Terminal, Run!Gens, Run!TypeOK, DeletedIsOver, Run!DrivenHasRow, OneEngine,
     CancelReachesEngine, CancelUnderWay, Early, Owning
<1>7. CASE Run!Unlock
  BY <1>7 DEF Run!Unlock, Run!Alive, Run!NoRow, Run!Active, Run!Terminal, Run!Gens,
     Run!TypeOK, DeletedIsOver, Run!DrivenHasRow, OneEngine, CancelReachesEngine,
     CancelUnderWay, Early, Owning
<1>8. CASE Run!Crash
  BY <1>8 DEF Run!Crash, Run!Alive, Run!NoRow, Run!Active, Run!Terminal, Run!Gens,
     Run!TypeOK, DeletedIsOver, Run!DrivenHasRow, OneEngine, CancelReachesEngine,
     CancelUnderWay, Early, Owning
<1>9. CASE Run!DeleteLook
  <2>1. (runDeleter = "deleting" =>
             inspection # Run!NoRow /\ inspection.status \in Run!Terminal)'
    <3>1. inspection \in RunRow /\ inspection.status \in Run!Terminal
      BY <1>9 DEF Run!DeleteLook, Run!LeftByEngine, Run!TypeOK, RunRow
    <3>2. inspection'.status = inspection.status /\ inspection' \in RunRow
      BY <1>9, <3>1 DEF Run!DeleteLook, RunRow
    <3> QED  BY <3>1, <3>2 DEF RunRow, Run!NoRow, Run!Gens
  <2>2. (runDeleter = "deleting" =>
             \A h \in 1 .. MaxRuns : engine[h] \notin {"starting", "driving"})'
    BY <1>9 DEF Run!DeleteLook, Run!LeftByEngine, Run!Alive, Run!NoRow, Run!Active,
       Run!Terminal, Run!Gens, Run!TypeOK, DeletedIsOver, Run!DrivenHasRow, OneEngine,
       CancelReachesEngine, CancelUnderWay, Early, Owning
  <2>3. (\A h \in 1 .. MaxRuns : engine[h] = "driving" => inspection # Run!NoRow)'
    BY <1>9 DEF Run!DeleteLook, Run!LeftByEngine, Run!Alive, Run!NoRow, Run!Active,
       Run!Terminal, Run!Gens, Run!TypeOK, DeletedIsOver, Run!DrivenHasRow, OneEngine,
       CancelReachesEngine, CancelUnderWay, Early, Owning
  <2> QED  BY <2>1, <2>2, <2>3 DEF DeletedIsOver, Run!DrivenHasRow, Run!Gens
<1>10. CASE Run!DeleteCommit
  BY <1>10 DEF Run!DeleteCommit, Run!Alive, Run!NoRow, Run!Active, Run!Terminal,
     Run!Gens, Run!TypeOK, DeletedIsOver, Run!DrivenHasRow, OneEngine,
     CancelReachesEngine, CancelUnderWay, Early, Owning
<1>11. CASE Run!DeleteDiscards
  BY <1>11 DEF Run!DeleteDiscards, Run!Alive, Run!NoRow, Run!Active, Run!Terminal,
     Run!Gens, Run!TypeOK, DeletedIsOver, Run!DrivenHasRow, OneEngine,
     CancelReachesEngine, CancelUnderWay, Early, Owning
<1> QED  BY <1>1, <1>2, <1>3, <1>4, <1>5, <1>6, <1>7, <1>8, <1>9, <1>10,
            <1>11 DEF Run!Next, EngineActs

LEMMA RowIsOwedStep ==
    ASSUME RunInv, ~Reuse, Run!Next
    PROVE  RowIsOwed'
<1> USE BoundsAssumption DEF RunInv
<1>1. ASSUME NEW g \in Run!Gens, EngineActs(g) PROVE RowIsOwed'
  <2>1. PICK from, to \in EngineSteps : EngineGoes(g, from, to)
    BY <1>1, EnginePath
  <2>2. /\ inspection = Run!NoRow <=> inspection' = Run!NoRow
        /\ inspection # Run!NoRow =>
              /\ inspection' \in RunRow
              /\ inspection'.status = IF to = "driving" THEN "RUNNING"
                                      ELSE IF to = "closing" THEN final[g]
                                      ELSE inspection.status
              /\ inspection'.branches = IF to = "ending" THEN "ended" ELSE inspection.branches
    BY <2>1, RowOfEngine
  <2>3. /\ Run!Alive(g) /\ g = created /\ creator = "idle"
        /\ \A h \in Run!Gens : h # g => ~Run!Alive(h)
        /\ \A h \in Run!Gens : engine'[h] = IF h = g THEN to ELSE engine[h]
    BY <2>1, EngineAtWork
  <2>4. (\A h \in 1 .. MaxRuns : engine[h] \in Late \ {"done"} => final[h] \in Run!Terminal)'
    <3>1. ASSUME NEW h \in Run!Gens, engine'[h] \in Late \ {"done"}
          PROVE  final'[h] \in Run!Terminal
      <4>1. CASE to = "ending"
        <5>1. PICK s \in Run!Terminal : final' = [final EXCEPT ![g] = s]
          BY <2>1, <4>1 DEF EngineGoes
        <5>2. DOMAIN final = Run!Gens
          BY DEF Run!TypeOK
        <5>3. h # g => engine[h] \in Late \ {"done"}
          BY <2>3, <3>1
        <5> QED  BY <3>1, <5>1, <5>2, <5>3 DEF RowIsOwed, Run!Gens
      <4>2. CASE to # "ending"
        <5>1. final' = final
          BY <2>1, <4>2 DEF EngineGoes
        <5>2. engine[h] \in Late \ {"done"}
          BY <2>1, <2>3, <3>1, <4>2 DEF EngineGoes, Path, Late
        <5> QED  BY <3>1, <5>1, <5>2 DEF RowIsOwed, Run!Gens
      <4> QED  BY <4>1, <4>2
    <3> QED  BY <3>1 DEF Run!Gens
  <2>5. (\A h \in 1 .. MaxRuns :
             engine[h] \in Late \ {"done"} =>
                 inspection = Run!NoRow \/ inspection.branches = "ended")'
    BY <2>1, <2>2, <2>3 DEF EngineGoes, Path, Run!Alive, Run!NoRow, Run!Active,
       Run!Terminal, Run!Gens, Run!TypeOK, RowIsOwed, OneEngine, Late
  <2>6. (inspection # Run!NoRow /\ creator = "idle" /\ runCrashes = 0 =>
             /\ created > 0 /\ engine[created] # "none"
             /\ engine[created] = "done" => inspection.branches = "ended"
             /\ engine[created] \in {"closing", "done"} => inspection.status \in Run!Terminal)'
    BY <2>1, <2>2, <2>3 DEF EngineGoes, Path, Run!Alive, Run!NoRow, Run!Active,
       Run!Terminal, Run!Gens, Run!TypeOK, RowIsOwed, OneEngine, Late
  <2> QED  BY <2>4, <2>5, <2>6 DEF RowIsOwed
<1>2. ASSUME NEW k \in Cancels, Run!CancelLook(k) PROVE RowIsOwed'
  BY <1>2 DEF Run!CancelLook, Run!Alive, Run!NoRow, Run!Active, Run!Terminal, Run!Gens,
     Run!TypeOK, RowIsOwed, OneEngine, Late
<1>3. ASSUME NEW k \in Cancels, Run!CancelAborts(k) PROVE RowIsOwed'
  BY <1>3 DEF Run!CancelAborts, Run!RequestAbort, Run!EventKept, Run!EventOfId,
     Run!Alive, Run!NoRow, Run!Active, Run!Terminal, Run!Gens, Run!TypeOK, RowIsOwed,
     OneEngine, Late
<1>4. ASSUME NEW k \in Cancels, Run!CancelStores(k) PROVE RowIsOwed'
  BY <1>4 DEF Run!CancelStores, Run!Alive, Run!NoRow, Run!Active, Run!Terminal, Run!Gens,
     Run!TypeOK, RowIsOwed, OneEngine, Late
<1>5. CASE Run!Create
  BY <1>5 DEF Run!Create, Run!FormerIsOver, Run!Alive, Run!NoRow, Run!Active,
     Run!Terminal, Run!Gens, Run!TypeOK, RowIsOwed, OneEngine, Late
<1>6. CASE Run!Launch
  BY <1>6 DEF Run!Launch, Run!EventKept, Run!EventOfId, Run!Alive, Run!NoRow, Run!Active,
     Run!Terminal, Run!Gens, Run!TypeOK, RowIsOwed, OneEngine, Late
<1>7. CASE Run!Unlock
  BY <1>7 DEF Run!Unlock, Run!Alive, Run!NoRow, Run!Active, Run!Terminal, Run!Gens,
     Run!TypeOK, RowIsOwed, OneEngine, Late
<1>8. CASE Run!Crash
  BY <1>8 DEF Run!Crash, Run!Alive, Run!NoRow, Run!Active, Run!Terminal, Run!Gens,
     Run!TypeOK, RowIsOwed, OneEngine, Late
<1>9. CASE Run!DeleteLook
  BY <1>9 DEF Run!DeleteLook, Run!LeftByEngine, Run!Alive, Run!NoRow, Run!Active,
     Run!Terminal, Run!Gens, Run!TypeOK, RowIsOwed, OneEngine, Late
<1>10. CASE Run!DeleteCommit
  BY <1>10 DEF Run!DeleteCommit, Run!Alive, Run!NoRow, Run!Active, Run!Terminal,
     Run!Gens, Run!TypeOK, RowIsOwed, OneEngine, Late
<1>11. CASE Run!DeleteDiscards
  BY <1>11 DEF Run!DeleteDiscards, Run!Alive, Run!NoRow, Run!Active, Run!Terminal,
     Run!Gens, Run!TypeOK, RowIsOwed, OneEngine, Late
<1> QED  BY <1>1, <1>2, <1>3, <1>4, <1>5, <1>6, <1>7, <1>8, <1>9, <1>10,
            <1>11 DEF Run!Next, EngineActs


-----------------------------------------------------------------------------
(* Steps of the live view.                                                   *)

LiveStatuses == Live!Terminal \cup {"RUNNING", "none"}
Chans == [snap : Live!Snapshots, subs : SUBSET Viewers, expires : BOOLEAN]
Pubs == [snap : Live!Snapshots, to : SUBSET Viewers]

(* Snapshots are made from snapshots.                                        *)
LEMMA SnapshotTypes ==
    /\ Live!Nothing \in Live!Snapshots /\ Live!Closed \in Live!Snapshots
    /\ Live!NoChannel \in Chans /\ Live!NoPublication \in Pubs
<1>1. Live!Nothing \in Live!Snapshots
  BY BoundsAssumption DEF Live!Nothing, Live!Snapshots
<1>2. Live!Closed \in Live!Snapshots
  BY <1>1 DEF Live!Closed, Live!Snapshots
<1> QED  BY <1>1, <1>2 DEF Live!NoChannel, Live!NoPublication, Chans, Pubs

(* A channel that is opened is the one that is there, or that of the next stream. *)
LEMMA OpenedIs ==
    ASSUME LiveInv, NEW status \in LiveStatuses
    PROVE  /\ Live!Opened(status) \in Chans
           /\ chan # Live!NoChannel => Live!Opened(status) = chan
           /\ chan = Live!NoChannel =>
                 /\ Live!Opened(status).snap.stream = streams + 1 /\ streams < MaxStreams
                 /\ ~Live!Opened(status).snap.terminal
<1>1. CASE chan # Live!NoChannel
  BY <1>1 DEF LiveInv, Live!TypeOK, Chans, Live!Opened
<1>2. CASE chan = Live!NoChannel
  <2> DEFINE s == [stream |-> streams + 1, rev |-> 0, status |-> status, terminal |-> FALSE]
  <2>1. streams \in 0 .. MaxStreams + 1 /\ streams < MaxStreams
    BY <1>2 DEF LiveInv, Live!TypeOK, NewestStream
  <2>2. s \in Live!Snapshots
    BY <2>1, BoundsAssumption DEF Live!Snapshots, LiveStatuses
  <2>3. Live!Opened(status) = [snap |-> s, subs |-> {}, expires |-> FALSE]
    BY <1>2 DEF Live!Opened
  <2> HIDE DEF s
  <2>4. Live!Opened(status) \in Chans
    BY <2>2, <2>3 DEF Chans
  <2>5. s.stream = streams + 1 /\ ~s.terminal
    BY DEF s
  <2> QED  BY <1>2, <2>1, <2>3, <2>4, <2>5
<1> QED  BY <1>1, <1>2

(* The channel says something new.                                           *)
News ==
    /\ chan' # Live!NoChannel /\ chan'.snap.stream = streams' /\ chan'.snap.stream > 0
    /\ \/ /\ chan # Live!NoChannel /\ streams' = streams
          /\ chan'.snap.rev > chan.snap.rev
          /\ chan.snap.terminal => chan'.snap.terminal
       \/ chan = Live!NoChannel /\ streams < MaxStreams /\ streams' = streams + 1

LEMMA PublishIs ==
    ASSUME LiveInv, NEW p \in Live!Publishers, NEW status \in LiveStatuses, NEW last \in BOOLEAN,
           Live!Publish(p, status, last)
    PROVE  /\ chan' \in Chans /\ streams' \in 0 .. MaxStreams + 1
           /\ \E t \in SUBSET Viewers :
                 pub' = [pub EXCEPT ![p] = [snap |-> chan'.snap, to |-> t]]
           /\ News
<1> DEFINE c == Live!Opened(status)
           s == Live!NextSnapshot(c.snap, status, last)
<1>1. /\ c \in Chans
      /\ chan # Live!NoChannel => c = chan
      /\ chan = Live!NoChannel => c.snap.stream = streams + 1 /\ streams < MaxStreams
  BY OpenedIs
<1>2. chan' = [c EXCEPT !.snap = s] /\ pub' = [pub EXCEPT ![p] = [snap |-> s, to |-> c.subs]]
  BY DEF Live!Publish
<1>3. streams' = IF chan = Live!NoChannel THEN streams + 1 ELSE streams
  BY DEF Live!Publish, Live!StreamCounted
<1>4. s = [c.snap EXCEPT !.rev = @ + 1, !.status = status, !.terminal = @ \/ last]
  BY DEF Live!NextSnapshot
<1> HIDE DEF c, s
<1>5. c.snap \in Live!Snapshots /\ c.subs \in SUBSET Viewers
  BY <1>1 DEF Chans
<1>6. s \in Live!Snapshots
  <2>1. PICK b : b = (c.snap.terminal \/ last)
    OBVIOUS
  <2>2. b \in BOOLEAN /\ c.snap.rev + 1 \in Nat /\ c.snap.stream \in 0 .. MaxStreams + 1
    BY <1>5, <2>1 DEF Live!Snapshots
  <2>3. s = [stream |-> c.snap.stream, rev |-> c.snap.rev + 1, status |-> status, terminal |-> b]
    BY <1>4, <1>5, <2>1 DEF Live!Snapshots
  <2> QED  BY <2>2, <2>3 DEF Live!Snapshots, LiveStatuses
<1>7. /\ s.stream = c.snap.stream /\ s.rev = c.snap.rev + 1 /\ s.rev > c.snap.rev
      /\ c.snap.terminal => s.terminal
  BY <1>4, <1>5 DEF Live!Snapshots
<1>8. chan'.snap = s /\ chan' \in Chans
  BY <1>1, <1>2, <1>6 DEF Chans
<1>9. /\ streams \in 0 .. MaxStreams + 1
      /\ chan # Live!NoChannel => streams > 0 /\ chan.snap.stream = streams
  BY DEF LiveInv, Live!TypeOK, NewestStream
<1>10. chan'.snap.stream = streams' /\ streams' > 0 /\ streams' \in 0 .. MaxStreams + 1
  BY <1>1, <1>3, <1>7, <1>8, <1>9, BoundsAssumption
<1>11. chan' # Live!NoChannel
  BY <1>10 DEF Live!NoChannel, Live!Nothing
<1>12. News
  BY <1>1, <1>3, <1>7, <1>8, <1>10, <1>11 DEF News
<1> QED  BY <1>2, <1>5, <1>8, <1>10, <1>12

LEMMA LiveType ==
    ASSUME LiveInv, Live!Next
    PROVE  Live!TypeOK'
<1> DEFINE T == /\ liveRow \in LiveStatuses
                /\ worker \in {"none", "queued", "running", "over", "closing", "done"}
                /\ news \in 0 .. MaxNews
                /\ canceller \in {"idle", "stored", "done"}
                /\ chan \in Chans
                /\ pub \in [Live!Publishers -> Pubs]
                /\ saw \in [Viewers -> LiveStatuses]
                /\ page \in [Viewers -> {"off", "seeding", "asking", "open"}]
                /\ slot \in [Viewers -> Live!Snapshots]
                /\ shown \in [Viewers -> Live!Snapshots]
                /\ streams \in 0 .. MaxStreams + 1
                /\ runs \in 1 .. MaxRuns
                /\ liveCrashes \in 0 .. MaxCrashes
<1>a. T /\ (T' => Live!TypeOK')
  BY DEF LiveInv, Live!TypeOK, LiveStatuses, Chans, Pubs, Live!Publishers
<1> USE <1>a, SnapshotTypes, BoundsAssumption
<1>1. ASSUME NEW p \in Live!Publishers, Live!Offer(p) PROVE Live!TypeOK'
  <2>1. (slot \in [Viewers -> Live!Snapshots])'
    BY <1>1 DEF Live!Offer, Live!Terminal, LiveStatuses, Chans, Pubs
  <2>2. (pub \in [Live!Publishers -> Pubs])'
    BY <1>1 DEF Live!Offer, Live!Terminal, LiveStatuses, Pubs
  <2>3. UNCHANGED <<liveRow, worker, news, canceller, chan,
                      saw, page, shown, streams, runs, liveCrashes>>
    BY <1>1 DEF Live!Offer, Live!Terminal, LiveStatuses
  <2> QED  BY <2>1, <2>2, <2>3
<1>2. ASSUME Live!Expire PROVE Live!TypeOK'
  <2>1. (chan \in Chans)'
    BY <1>2 DEF Live!Expire, Live!Terminal, LiveStatuses, Chans, Pubs
  <2>2. (slot \in [Viewers -> Live!Snapshots])'
    BY <1>2 DEF Live!Expire, Live!Terminal, LiveStatuses, Chans, Pubs
  <2>3. UNCHANGED <<liveRow, worker, news, canceller, pub,
                      saw, page, shown, streams, runs, liveCrashes>>
    BY <1>2 DEF Live!Expire, Live!Terminal, LiveStatuses
  <2> QED  BY <2>1, <2>2, <2>3
<1>3. ASSUME Live!Crash PROVE Live!TypeOK'
  <2>1. (liveCrashes \in 0 .. MaxCrashes)'
    BY <1>3 DEF Live!Crash, Live!Terminal, LiveStatuses
  <2>2. (worker \in {"none", "queued", "running", "over", "closing", "done"})'
    BY <1>3 DEF Live!Crash, Live!Terminal, LiveStatuses
  <2>3. (chan \in Chans)'
    BY <1>3 DEF Live!Crash, Live!Terminal, LiveStatuses, Chans, Pubs
  <2>4. (pub \in [Live!Publishers -> Pubs])'
    BY <1>3 DEF Live!Crash, Live!Terminal, LiveStatuses, Pubs
  <2>5. (canceller \in {"idle", "stored", "done"})'
    BY <1>3 DEF Live!Crash, Live!Terminal, LiveStatuses
  <2>6. (saw \in [Viewers -> LiveStatuses])'
    BY <1>3 DEF Live!Crash, Live!Terminal, LiveStatuses
  <2>7. (page \in [Viewers -> {"off", "seeding", "asking", "open"}])'
    BY <1>3 DEF Live!Crash, Live!Terminal, LiveStatuses
  <2>8. (slot \in [Viewers -> Live!Snapshots])'
    BY <1>3 DEF Live!Crash, Live!Terminal, LiveStatuses, Chans, Pubs
  <2>9. UNCHANGED <<liveRow, news,
                      shown, streams, runs>>
    BY <1>3 DEF Live!Crash, Live!Terminal, LiveStatuses
  <2> QED  BY <2>1, <2>2, <2>3, <2>4, <2>5, <2>6, <2>7, <2>8, <2>9
<1>4. ASSUME Live!StartLive PROVE Live!TypeOK'
  <2>1. (worker \in {"none", "queued", "running", "over", "closing", "done"})'
    BY <1>4 DEF Live!StartLive, Live!StreamCounted, Live!Terminal, LiveStatuses
  <2>2. (chan \in Chans)'
    <3>1. "RUNNING" \in LiveStatuses
      BY DEF LiveStatuses
    <3> QED  BY <1>4, <3>1, OpenedIs DEF Live!StartLive
  <2>3. (streams \in 0 .. MaxStreams + 1)'
    <3>1. streams \in 0 .. MaxStreams + 1 /\ (chan = Live!NoChannel => streams < MaxStreams)
      BY DEF LiveInv, Live!TypeOK, NewestStream
    <3> QED  BY <1>4, <3>1 DEF Live!StartLive, Live!StreamCounted
  <2>4. UNCHANGED <<liveRow, news, canceller, pub, saw,
                      page, slot, shown, runs, liveCrashes>>
    BY <1>4 DEF Live!StartLive, Live!StreamCounted, Live!Terminal, LiveStatuses
  <2> QED  BY <2>1, <2>2, <2>3, <2>4
<1>5. ASSUME Live!PublishNews PROVE Live!TypeOK'
  <2>1. PICK p, status, last : p = "engine" /\ status = "RUNNING" /\ last = FALSE
    OBVIOUS
  <2>2. /\ p \in Live!Publishers /\ status \in LiveStatuses
        /\ last \in BOOLEAN /\ Live!Publish(p, status, last)
    BY <1>5, <2>1 DEF Live!PublishNews, Live!Terminal, LiveStatuses, Live!Publishers
  <2>3. /\ chan' \in Chans /\ streams' \in 0 .. MaxStreams + 1
        /\ \E t \in SUBSET Viewers :
              pub' = [pub EXCEPT ![p] = [snap |-> chan'.snap, to |-> t]]
    BY <2>2, PublishIs
  <2>4. pub' \in [Live!Publishers -> Pubs]
    <3>1. chan'.snap \in Live!Snapshots
      BY <2>3 DEF Chans
    <3> QED  BY <2>2, <2>3, <3>1 DEF Pubs
  <2>5. (news \in 0 .. MaxNews)'
    BY <1>5 DEF Live!PublishNews, Live!Terminal, LiveStatuses
  <2>6. UNCHANGED <<liveRow, worker, canceller, saw,
                      page, slot, shown, runs, liveCrashes>>
    BY <1>5 DEF Live!PublishNews, Live!Terminal, LiveStatuses
  <2> QED  BY <2>3, <2>4, <2>5, <2>6
<1>6. ASSUME Live!EngineReturns PROVE Live!TypeOK'
  <2>1. (pub \in [Live!Publishers -> Pubs])'
    BY <1>6 DEF Live!EngineReturns, Live!Returned, Live!Settled, Live!Terminal,
       LiveStatuses, Pubs
  <2>2. UNCHANGED <<liveRow, worker, news, canceller, chan, saw,
                      page, slot, shown, streams, runs, liveCrashes>>
    BY <1>6 DEF Live!EngineReturns, Live!Returned, Live!Settled, Live!Terminal,
       LiveStatuses
  <2> QED  BY <2>1, <2>2
<1>7. ASSUME Live!Summarise PROVE Live!TypeOK'
  <2>1. (worker \in {"none", "queued", "running", "over", "closing", "done"})'
    BY <1>7 DEF Live!Summarise, Live!Terminal, LiveStatuses
  <2>2. (liveRow \in LiveStatuses)'
    BY <1>7 DEF Live!Summarise, Live!Terminal, LiveStatuses
  <2>3. UNCHANGED <<news, canceller, chan, pub, saw,
                      page, slot, shown, streams, runs, liveCrashes>>
    BY <1>7 DEF Live!Summarise, Live!Terminal, LiveStatuses
  <2> QED  BY <2>1, <2>2, <2>3
<1>8. ASSUME Live!FinishRun PROVE Live!TypeOK'
  <2>1. PICK p, status, last : p = "engine" /\ status = "OVER" /\ last = TRUE
    OBVIOUS
  <2>2. /\ p \in Live!Publishers /\ status \in LiveStatuses
        /\ last \in BOOLEAN /\ Live!Publish(p, status, last)
    BY <1>8, <2>1 DEF Live!FinishRun, Live!Terminal, LiveStatuses, Live!Publishers
  <2>3. /\ chan' \in Chans /\ streams' \in 0 .. MaxStreams + 1
        /\ \E t \in SUBSET Viewers :
              pub' = [pub EXCEPT ![p] = [snap |-> chan'.snap, to |-> t]]
    BY <2>2, PublishIs
  <2>4. pub' \in [Live!Publishers -> Pubs]
    <3>1. chan'.snap \in Live!Snapshots
      BY <2>3 DEF Chans
    <3> QED  BY <2>2, <2>3, <3>1 DEF Pubs
  <2>5. (worker \in {"none", "queued", "running", "over", "closing", "done"})'
    BY <1>8 DEF Live!FinishRun, Live!Terminal, LiveStatuses
  <2>6. UNCHANGED <<liveRow, news, canceller, saw,
                      page, slot, shown, runs, liveCrashes>>
    BY <1>8 DEF Live!FinishRun, Live!Terminal, LiveStatuses
  <2> QED  BY <2>3, <2>4, <2>5, <2>6
<1>9. ASSUME Live!FinishReturns PROVE Live!TypeOK'
  <2>1. (pub \in [Live!Publishers -> Pubs])'
    BY <1>9 DEF Live!FinishReturns, Live!Returned, Live!Settled, Live!Terminal,
       LiveStatuses, Pubs
  <2>2. (worker \in {"none", "queued", "running", "over", "closing", "done"})'
    BY <1>9 DEF Live!FinishReturns, Live!Returned, Live!Settled, Live!Terminal,
       LiveStatuses
  <2>3. (chan \in Chans)'
    BY <1>9 DEF Live!FinishReturns, Live!Returned, Live!Settled, Live!Terminal,
       LiveStatuses, Chans, Pubs
  <2>4. UNCHANGED <<liveRow, news, canceller, saw, page,
                      slot, shown, streams, runs, liveCrashes>>
    BY <1>9 DEF Live!FinishReturns, Live!Returned, Live!Settled, Live!Terminal,
       LiveStatuses
  <2> QED  BY <2>1, <2>2, <2>3, <2>4
<1>10. ASSUME Live!CancelRow PROVE Live!TypeOK'
  <2>1. (canceller \in {"idle", "stored", "done"})'
    BY <1>10 DEF Live!CancelRow, Live!Terminal, LiveStatuses
  <2>2. (liveRow \in LiveStatuses)'
    BY <1>10 DEF Live!CancelRow, Live!Terminal, LiveStatuses
  <2>3. UNCHANGED <<worker, news, chan, pub, saw,
                      page, slot, shown, streams, runs, liveCrashes>>
    BY <1>10 DEF Live!CancelRow, Live!Terminal, LiveStatuses
  <2> QED  BY <2>1, <2>2, <2>3
<1>11. ASSUME Live!CancelPublishes PROVE Live!TypeOK'
  <2>1. PICK p, status, last : p = "cancel" /\ status = "ABORTED" /\ last = FALSE
    OBVIOUS
  <2>2. /\ p \in Live!Publishers /\ status \in LiveStatuses
        /\ last \in BOOLEAN /\ Live!Publish(p, status, last)
    BY <1>11, <2>1 DEF Live!CancelPublishes, Live!Terminal, LiveStatuses, Live!Publishers
  <2>3. /\ chan' \in Chans /\ streams' \in 0 .. MaxStreams + 1
        /\ \E t \in SUBSET Viewers :
              pub' = [pub EXCEPT ![p] = [snap |-> chan'.snap, to |-> t]]
    BY <2>2, PublishIs
  <2>4. pub' \in [Live!Publishers -> Pubs]
    <3>1. chan'.snap \in Live!Snapshots
      BY <2>3 DEF Chans
    <3> QED  BY <2>2, <2>3, <3>1 DEF Pubs
  <2>5. (canceller \in {"idle", "stored", "done"})'
    BY <1>11 DEF Live!CancelPublishes, Live!Terminal, LiveStatuses
  <2>6. UNCHANGED <<liveRow, worker, news, saw,
                      page, slot, shown, runs, liveCrashes>>
    BY <1>11 DEF Live!CancelPublishes, Live!Terminal, LiveStatuses
  <2> QED  BY <2>3, <2>4, <2>5, <2>6
<1>12. ASSUME Live!CancelReturns PROVE Live!TypeOK'
  <2>1. (pub \in [Live!Publishers -> Pubs])'
    BY <1>12 DEF Live!CancelReturns, Live!Returned, Live!Settled, Live!Terminal,
       LiveStatuses, Pubs
  <2>2. UNCHANGED <<liveRow, worker, news, canceller, chan, saw,
                      page, slot, shown, streams, runs, liveCrashes>>
    BY <1>12 DEF Live!CancelReturns, Live!Returned, Live!Settled, Live!Terminal,
       LiveStatuses
  <2> QED  BY <2>1, <2>2
<1>13. ASSUME Live!DeleteRun PROVE Live!TypeOK'
  <2>1. (liveRow \in LiveStatuses)'
    BY <1>13 DEF Live!DeleteRun, Live!Terminal, LiveStatuses
  <2>2. UNCHANGED <<worker, news, canceller, chan, pub, saw,
                      page, slot, shown, streams, runs, liveCrashes>>
    BY <1>13 DEF Live!DeleteRun, Live!Terminal, LiveStatuses
  <2> QED  BY <2>1, <2>2
<1>14. ASSUME Live!CreateRun PROVE Live!TypeOK'
  <2>1. (liveRow \in LiveStatuses)'
    BY <1>14 DEF Live!CreateRun, Live!Terminal, LiveStatuses
  <2>2. (worker \in {"none", "queued", "running", "over", "closing", "done"})'
    BY <1>14 DEF Live!CreateRun, Live!Terminal, LiveStatuses
  <2>3. (runs \in 1 .. MaxRuns)'
    BY <1>14 DEF Live!CreateRun, Live!Terminal, LiveStatuses
  <2>4. (news \in 0 .. MaxNews)'
    BY <1>14 DEF Live!CreateRun, Live!Terminal, LiveStatuses
  <2>5. (canceller \in {"idle", "stored", "done"})'
    BY <1>14 DEF Live!CreateRun, Live!Terminal, LiveStatuses
  <2>6. (shown \in [Viewers -> Live!Snapshots])'
    BY <1>14 DEF Live!CreateRun, Live!Terminal, LiveStatuses, Chans, Pubs
  <2>7. UNCHANGED <<chan, pub, saw,
                      page, slot, streams, liveCrashes>>
    BY <1>14 DEF Live!CreateRun, Live!Terminal, LiveStatuses
  <2> QED  BY <2>1, <2>2, <2>3, <2>4, <2>5, <2>6, <2>7
<1>15. ASSUME NEW v \in Viewers, Live!Refresh(v) PROVE Live!TypeOK'
  <2>1. (shown \in [Viewers -> Live!Snapshots])'
    BY <1>15 DEF Live!Refresh, Live!Merge, Live!Terminal, LiveStatuses, Chans, Pubs
  <2>2. (page \in [Viewers -> {"off", "seeding", "asking", "open"}])'
    BY <1>15 DEF Live!Refresh, Live!Merge, Live!Terminal, LiveStatuses
  <2>3. (saw \in [Viewers -> LiveStatuses])'
    BY <1>15 DEF Live!Refresh, Live!Merge, Live!Terminal, LiveStatuses
  <2>4. UNCHANGED <<liveRow, worker, news, canceller, chan,
                      pub, slot, streams, runs, liveCrashes>>
    BY <1>15 DEF Live!Refresh, Live!Merge, Live!Terminal, LiveStatuses
  <2> QED  BY <2>1, <2>2, <2>3, <2>4
<1>16. ASSUME NEW v \in Viewers, Live!Seed(v) PROVE Live!TypeOK'
  <2>1. PICK p, status, last : p = v /\ status = saw[v] /\ last = (saw[v] \in Live!Terminal)
    OBVIOUS
  <2>2. /\ p \in Live!Publishers /\ status \in LiveStatuses
        /\ last \in BOOLEAN /\ Live!Publish(p, status, last)
    BY <1>16, <2>1 DEF Live!Seed, Live!Terminal, LiveStatuses, Live!Publishers
  <2>3. /\ chan' \in Chans /\ streams' \in 0 .. MaxStreams + 1
        /\ \E t \in SUBSET Viewers :
              pub' = [pub EXCEPT ![p] = [snap |-> chan'.snap, to |-> t]]
    BY <2>2, PublishIs
  <2>4. pub' \in [Live!Publishers -> Pubs]
    <3>1. chan'.snap \in Live!Snapshots
      BY <2>3 DEF Chans
    <3> QED  BY <2>2, <2>3, <3>1 DEF Pubs
  <2>5. (saw \in [Viewers -> LiveStatuses])'
    BY <1>16 DEF Live!Seed, Live!Terminal, LiveStatuses
  <2>6. UNCHANGED <<liveRow, worker, news, canceller,
                      page, slot, shown, runs, liveCrashes>>
    BY <1>16 DEF Live!Seed, Live!Terminal, LiveStatuses
  <2> QED  BY <2>3, <2>4, <2>5, <2>6
<1>17. ASSUME NEW v \in Viewers, Live!SeedReturns(v) PROVE Live!TypeOK'
  <2>1. (pub \in [Live!Publishers -> Pubs])'
    BY <1>17 DEF Live!SeedReturns, Live!Returned, Live!Settled, Live!Merge,
       Live!Terminal, LiveStatuses, Pubs
  <2>2. (shown \in [Viewers -> Live!Snapshots])'
    <3>1. pub[v].snap \in Live!Snapshots
      BY DEF Pubs, Live!Publishers
    <3> QED  BY <1>17, <3>1 DEF Live!SeedReturns, Live!Merge
  <2>3. (page \in [Viewers -> {"off", "seeding", "asking", "open"}])'
    BY <1>17 DEF Live!SeedReturns, Live!Returned, Live!Settled, Live!Merge,
       Live!Terminal, LiveStatuses
  <2>4. (chan \in Chans)'
    BY <1>17 DEF Live!SeedReturns, Live!Returned, Live!Settled, Live!Merge,
       Live!Terminal, LiveStatuses, Chans, Pubs
  <2>5. UNCHANGED <<liveRow, worker, news, canceller,
                      saw, slot, streams, runs, liveCrashes>>
    BY <1>17 DEF Live!SeedReturns, Live!Returned, Live!Settled, Live!Merge,
       Live!Terminal, LiveStatuses
  <2> QED  BY <2>1, <2>2, <2>3, <2>4, <2>5
<1>18. ASSUME NEW v \in Viewers, Live!Subscribe(v) PROVE Live!TypeOK'
  <2>1. (page \in [Viewers -> {"off", "seeding", "asking", "open"}])'
    BY <1>18 DEF Live!Subscribe, Live!Terminal, LiveStatuses
  <2>2. (chan \in Chans)'
    BY <1>18 DEF Live!Subscribe, Live!Terminal, LiveStatuses, Chans, Pubs
  <2>3. (slot \in [Viewers -> Live!Snapshots])'
    BY <1>18 DEF Live!Subscribe, Live!Terminal, LiveStatuses, Chans, Pubs
  <2>4. UNCHANGED <<liveRow, worker, news, canceller, pub,
                      saw, shown, streams, runs, liveCrashes>>
    BY <1>18 DEF Live!Subscribe, Live!Terminal, LiveStatuses
  <2> QED  BY <2>1, <2>2, <2>3, <2>4
<1>19. ASSUME NEW v \in Viewers, Live!Receive(v) PROVE Live!TypeOK'
  <2>1. (shown \in [Viewers -> Live!Snapshots])'
    BY <1>19 DEF Live!Receive, Live!Received, Live!Unsubscribed, Live!Merge,
       Live!Terminal, LiveStatuses, Chans, Pubs
  <2>2. (slot \in [Viewers -> Live!Snapshots])'
    BY <1>19 DEF Live!Receive, Live!Received, Live!Unsubscribed, Live!Merge,
       Live!Terminal, LiveStatuses, Chans, Pubs
  <2>3. (page \in [Viewers -> {"off", "seeding", "asking", "open"}])'
    BY <1>19 DEF Live!Receive, Live!Received, Live!Unsubscribed, Live!Merge,
       Live!Terminal, LiveStatuses
  <2>4. (chan \in Chans)'
    BY <1>19 DEF Live!Receive, Live!Received, Live!Unsubscribed, Live!Merge,
       Live!Terminal, LiveStatuses, Chans, Pubs
  <2>5. UNCHANGED <<liveRow, worker, news, canceller,
                      pub, saw, streams, runs, liveCrashes>>
    BY <1>19 DEF Live!Receive, Live!Received, Live!Unsubscribed, Live!Merge,
       Live!Terminal, LiveStatuses
  <2> QED  BY <2>1, <2>2, <2>3, <2>4, <2>5
<1>20. ASSUME NEW v \in Viewers, Live!HeartbeatSent(v) PROVE Live!TypeOK'
  <2>1. (shown \in [Viewers -> Live!Snapshots])'
    BY <1>20 DEF Live!HeartbeatSent, Live!Heartbeat, Live!Received, Live!Unsubscribed,
       Live!Merge, Live!Terminal, LiveStatuses, Chans, Pubs
  <2>2. (slot \in [Viewers -> Live!Snapshots])'
    BY <1>20 DEF Live!HeartbeatSent, Live!Heartbeat, Live!Received, Live!Unsubscribed,
       Live!Merge, Live!Terminal, LiveStatuses, Chans, Pubs
  <2>3. (page \in [Viewers -> {"off", "seeding", "asking", "open"}])'
    BY <1>20 DEF Live!HeartbeatSent, Live!Heartbeat, Live!Received, Live!Unsubscribed,
       Live!Merge, Live!Terminal, LiveStatuses
  <2>4. (chan \in Chans)'
    BY <1>20 DEF Live!HeartbeatSent, Live!Heartbeat, Live!Received, Live!Unsubscribed,
       Live!Merge, Live!Terminal, LiveStatuses, Chans, Pubs
  <2>5. UNCHANGED <<liveRow, worker, news, canceller,
                      pub, saw, streams, runs, liveCrashes>>
    BY <1>20 DEF Live!HeartbeatSent, Live!Heartbeat, Live!Received, Live!Unsubscribed,
       Live!Merge, Live!Terminal, LiveStatuses
  <2> QED  BY <2>1, <2>2, <2>3, <2>4, <2>5
<1>21. ASSUME NEW v \in Viewers, Live!Leave(v) PROVE Live!TypeOK'
  <2>1. (page \in [Viewers -> {"off", "seeding", "asking", "open"}])'
    BY <1>21 DEF Live!Leave, Live!Unsubscribed, Live!Terminal, LiveStatuses
  <2>2. (slot \in [Viewers -> Live!Snapshots])'
    BY <1>21 DEF Live!Leave, Live!Unsubscribed, Live!Terminal, LiveStatuses, Chans, Pubs
  <2>3. (chan \in Chans)'
    BY <1>21 DEF Live!Leave, Live!Unsubscribed, Live!Terminal, LiveStatuses, Chans, Pubs
  <2>4. UNCHANGED <<liveRow, worker, news, canceller, pub,
                      saw, shown, streams, runs, liveCrashes>>
    BY <1>21 DEF Live!Leave, Live!Unsubscribed, Live!Terminal, LiveStatuses
  <2> QED  BY <2>1, <2>2, <2>3, <2>4
<1> QED  BY <1>1, <1>2, <1>3, <1>4, <1>5, <1>6, <1>7, <1>8, <1>9, <1>10, <1>11, <1>12,
            <1>13, <1>14, <1>15, <1>16, <1>17, <1>18, <1>19, <1>20, <1>21 DEF Live!Next

(* The channel says nothing new.                                             *)
Quiet ==
    /\ streams' = streams
    /\ \/ chan' = Live!NoChannel /\ (chan = Live!NoChannel \/ streams < MaxStreams)
       \/ chan # Live!NoChannel /\ chan' # Live!NoChannel /\ chan'.snap = chan.snap

Known == InSight \cup {Live!Nothing, Live!Closed, chan'.snap}

(* What is in sight after a step was so before, or is what the channel says now. *)
LEMMA LiveStep ==
    ASSUME LiveInv, Live!Next
    PROVE  (Quiet \/ News) /\ InSight' \subseteq Known
<1>a. /\ chan.snap \in InSight /\ \A p \in Live!Publishers : pub[p].snap \in InSight
      /\ \A v \in Viewers : slot[v] \in InSight /\ shown[v] \in InSight
  BY DEF InSight
<1>b. /\ InSight \subseteq Known
      /\ Live!Nothing \in Known /\ Live!Closed \in Known /\ chan'.snap \in Known
  BY DEF Known
<1>c. ASSUME \A p \in Live!Publishers : pub'[p].snap \in Known,
             \A v \in Viewers : slot'[v] \in Known, \A v \in Viewers : shown'[v] \in Known
      PROVE  InSight' \subseteq Known
  BY <1>b, <1>c DEF InSight
<1>d. /\ chan \in Chans /\ pub \in [Live!Publishers -> Pubs] /\ Viewers \subseteq Live!Publishers
      /\ slot \in [Viewers -> Live!Snapshots] /\ shown \in [Viewers -> Live!Snapshots]
      /\ streams \in 0 .. MaxStreams + 1 /\ saw \in [Viewers -> LiveStatuses]
  BY DEF LiveInv, Live!TypeOK, Live!Publishers, Chans, Pubs, LiveStatuses
<1>e. /\ chan # Live!NoChannel => chan.snap.stream = streams /\ streams > 0
      /\ chan = Live!NoChannel => streams < MaxStreams
  BY DEF LiveInv, NewestStream
<1>f. /\ Live!NoChannel.snap = Live!Nothing /\ Live!NoPublication.snap = Live!Nothing
      /\ Live!Nothing.stream = 0
  BY DEF Live!NoChannel, Live!NoPublication, Live!Nothing
<1> USE <1>a, <1>b, <1>c, <1>d, <1>e, <1>f
<1>1. ASSUME NEW p \in Live!Publishers,
             Live!Offer(p) PROVE (Quiet \/ News) /\ InSight' \subseteq Known
  <2>1. Quiet
    BY <1>1 DEF Live!Offer, Live!Terminal, LiveStatuses, Quiet, Live!NoChannel, Chans
  <2>2. \A q \in Live!Publishers : pub'[q].snap \in Known
    BY <1>1 DEF Live!Offer, Live!Terminal, LiveStatuses, Pubs
  <2>3. \A u \in Viewers : slot'[u] \in Known
    BY <1>1 DEF Live!Offer, Live!Terminal, LiveStatuses, Chans, Pubs
  <2>4. \A u \in Viewers : shown'[u] \in Known
    BY <1>1 DEF Live!Offer, Live!Terminal, LiveStatuses, Chans, Pubs
  <2> QED  BY <2>1, <2>2, <2>3, <2>4
<1>2. ASSUME Live!Expire PROVE (Quiet \/ News) /\ InSight' \subseteq Known
  <2>1. Quiet
    BY <1>2 DEF Live!Expire, Live!Terminal, LiveStatuses, Quiet, Live!NoChannel, Chans
  <2>2. \A q \in Live!Publishers : pub'[q].snap \in Known
    BY <1>2 DEF Live!Expire, Live!Terminal, LiveStatuses, Pubs
  <2>3. \A u \in Viewers : slot'[u] \in Known
    BY <1>2 DEF Live!Expire, Live!Terminal, LiveStatuses, Chans, Pubs
  <2>4. \A u \in Viewers : shown'[u] \in Known
    BY <1>2 DEF Live!Expire, Live!Terminal, LiveStatuses, Chans, Pubs
  <2> QED  BY <2>1, <2>2, <2>3, <2>4
<1>3. ASSUME Live!Crash PROVE (Quiet \/ News) /\ InSight' \subseteq Known
  <2>1. Quiet
    BY <1>3 DEF Live!Crash, Live!Terminal, LiveStatuses, Quiet, Live!NoChannel, Chans
  <2>2. \A q \in Live!Publishers : pub'[q].snap \in Known
    BY <1>3 DEF Live!Crash, Live!Terminal, LiveStatuses, Pubs
  <2>3. \A u \in Viewers : slot'[u] \in Known
    BY <1>3 DEF Live!Crash, Live!Terminal, LiveStatuses, Chans, Pubs
  <2>4. \A u \in Viewers : shown'[u] \in Known
    BY <1>3 DEF Live!Crash, Live!Terminal, LiveStatuses, Chans, Pubs
  <2> QED  BY <2>1, <2>2, <2>3, <2>4
<1>4. ASSUME Live!StartLive PROVE (Quiet \/ News) /\ InSight' \subseteq Known
  <2>1. Quiet \/ News
    <3>1. "RUNNING" \in LiveStatuses
      BY DEF LiveStatuses
    <3>4. CASE UNCHANGED <<chan, streams>>
      BY <1>4, <3>4 DEF Live!StartLive, Quiet
    <3>2. CASE chan = Live!NoChannel /\ ~UNCHANGED <<chan, streams>>
      <4>1. chan'.snap.stream = streams + 1 /\ streams' = streams + 1
        BY <1>4, <3>1, <3>2, OpenedIs DEF Live!StartLive, Live!StreamCounted
      <4>2. chan' # Live!NoChannel
        BY <4>1
      <4> QED  BY <3>2, <4>1, <4>2 DEF News
    <3>3. CASE chan # Live!NoChannel
      BY <1>4, <3>1, <3>3, OpenedIs DEF Live!StartLive, Live!StreamCounted, Quiet
    <3> QED  BY <3>2, <3>3, <3>4
  <2>2. \A q \in Live!Publishers : pub'[q].snap \in Known
    BY <1>4 DEF Live!StartLive, Live!StreamCounted, Live!Terminal, LiveStatuses, Pubs
  <2>3. \A u \in Viewers : slot'[u] \in Known
    BY <1>4 DEF Live!StartLive, Live!StreamCounted, Live!Terminal, LiveStatuses, Chans,
       Pubs
  <2>4. \A u \in Viewers : shown'[u] \in Known
    BY <1>4 DEF Live!StartLive, Live!StreamCounted, Live!Terminal, LiveStatuses, Chans,
       Pubs
  <2> QED  BY <2>1, <2>2, <2>3, <2>4
<1>5. ASSUME Live!PublishNews PROVE (Quiet \/ News) /\ InSight' \subseteq Known
  <2>1. PICK p, status, last : p = "engine" /\ status = "RUNNING" /\ last = FALSE
    OBVIOUS
  <2>2. /\ p \in Live!Publishers /\ status \in LiveStatuses
        /\ last \in BOOLEAN /\ Live!Publish(p, status, last)
    BY <1>5, <2>1 DEF Live!PublishNews, Live!Terminal, LiveStatuses, Live!Publishers
  <2>3. News /\ \E t \in SUBSET Viewers :
                     pub' = [pub EXCEPT ![p] = [snap |-> chan'.snap, to |-> t]]
    BY <2>2, PublishIs
  <2>4. \A q \in Live!Publishers : pub'[q].snap \in Known
    BY <2>3
  <2>5. \A u \in Viewers : slot'[u] \in Known
    BY <1>5 DEF Live!PublishNews, Live!Terminal, LiveStatuses, Chans, Pubs
  <2>6. \A u \in Viewers : shown'[u] \in Known
    BY <1>5 DEF Live!PublishNews, Live!Terminal, LiveStatuses, Chans, Pubs
  <2> QED  BY <2>3, <2>4, <2>5, <2>6
<1>6. ASSUME Live!EngineReturns PROVE (Quiet \/ News) /\ InSight' \subseteq Known
  <2>1. Quiet
    BY <1>6 DEF Live!EngineReturns, Live!Returned, Live!Settled, Live!Terminal,
       LiveStatuses, Quiet, Live!NoChannel, Chans
  <2>2. \A q \in Live!Publishers : pub'[q].snap \in Known
    BY <1>6 DEF Live!EngineReturns, Live!Returned, Live!Settled, Live!Terminal,
       LiveStatuses, Pubs
  <2>3. \A u \in Viewers : slot'[u] \in Known
    BY <1>6 DEF Live!EngineReturns, Live!Returned, Live!Settled, Live!Terminal,
       LiveStatuses, Chans, Pubs
  <2>4. \A u \in Viewers : shown'[u] \in Known
    BY <1>6 DEF Live!EngineReturns, Live!Returned, Live!Settled, Live!Terminal,
       LiveStatuses, Chans, Pubs
  <2> QED  BY <2>1, <2>2, <2>3, <2>4
<1>7. ASSUME Live!Summarise PROVE (Quiet \/ News) /\ InSight' \subseteq Known
  <2>1. Quiet
    BY <1>7 DEF Live!Summarise, Live!Terminal, LiveStatuses, Quiet, Live!NoChannel, Chans
  <2>2. \A q \in Live!Publishers : pub'[q].snap \in Known
    BY <1>7 DEF Live!Summarise, Live!Terminal, LiveStatuses, Pubs
  <2>3. \A u \in Viewers : slot'[u] \in Known
    BY <1>7 DEF Live!Summarise, Live!Terminal, LiveStatuses, Chans, Pubs
  <2>4. \A u \in Viewers : shown'[u] \in Known
    BY <1>7 DEF Live!Summarise, Live!Terminal, LiveStatuses, Chans, Pubs
  <2> QED  BY <2>1, <2>2, <2>3, <2>4
<1>8. ASSUME Live!FinishRun PROVE (Quiet \/ News) /\ InSight' \subseteq Known
  <2>1. PICK p, status, last : p = "engine" /\ status = "OVER" /\ last = TRUE
    OBVIOUS
  <2>2. /\ p \in Live!Publishers /\ status \in LiveStatuses
        /\ last \in BOOLEAN /\ Live!Publish(p, status, last)
    BY <1>8, <2>1 DEF Live!FinishRun, Live!Terminal, LiveStatuses, Live!Publishers
  <2>3. News /\ \E t \in SUBSET Viewers :
                     pub' = [pub EXCEPT ![p] = [snap |-> chan'.snap, to |-> t]]
    BY <2>2, PublishIs
  <2>4. \A q \in Live!Publishers : pub'[q].snap \in Known
    BY <2>3
  <2>5. \A u \in Viewers : slot'[u] \in Known
    BY <1>8 DEF Live!FinishRun, Live!Terminal, LiveStatuses, Chans, Pubs
  <2>6. \A u \in Viewers : shown'[u] \in Known
    BY <1>8 DEF Live!FinishRun, Live!Terminal, LiveStatuses, Chans, Pubs
  <2> QED  BY <2>3, <2>4, <2>5, <2>6
<1>9. ASSUME Live!FinishReturns PROVE (Quiet \/ News) /\ InSight' \subseteq Known
  <2>1. Quiet
    BY <1>9 DEF Live!FinishReturns, Live!Returned, Live!Settled, Live!Terminal,
       LiveStatuses, Quiet, Live!NoChannel, Chans
  <2>2. \A q \in Live!Publishers : pub'[q].snap \in Known
    BY <1>9 DEF Live!FinishReturns, Live!Returned, Live!Settled, Live!Terminal,
       LiveStatuses, Pubs
  <2>3. \A u \in Viewers : slot'[u] \in Known
    BY <1>9 DEF Live!FinishReturns, Live!Returned, Live!Settled, Live!Terminal,
       LiveStatuses, Chans, Pubs
  <2>4. \A u \in Viewers : shown'[u] \in Known
    BY <1>9 DEF Live!FinishReturns, Live!Returned, Live!Settled, Live!Terminal,
       LiveStatuses, Chans, Pubs
  <2> QED  BY <2>1, <2>2, <2>3, <2>4
<1>10. ASSUME Live!CancelRow PROVE (Quiet \/ News) /\ InSight' \subseteq Known
  <2>1. Quiet
    BY <1>10 DEF Live!CancelRow, Live!Terminal, LiveStatuses, Quiet, Live!NoChannel, Chans
  <2>2. \A q \in Live!Publishers : pub'[q].snap \in Known
    BY <1>10 DEF Live!CancelRow, Live!Terminal, LiveStatuses, Pubs
  <2>3. \A u \in Viewers : slot'[u] \in Known
    BY <1>10 DEF Live!CancelRow, Live!Terminal, LiveStatuses, Chans, Pubs
  <2>4. \A u \in Viewers : shown'[u] \in Known
    BY <1>10 DEF Live!CancelRow, Live!Terminal, LiveStatuses, Chans, Pubs
  <2> QED  BY <2>1, <2>2, <2>3, <2>4
<1>11. ASSUME Live!CancelPublishes PROVE (Quiet \/ News) /\ InSight' \subseteq Known
  <2>1. PICK p, status, last : p = "cancel" /\ status = "ABORTED" /\ last = FALSE
    OBVIOUS
  <2>2. /\ p \in Live!Publishers /\ status \in LiveStatuses
        /\ last \in BOOLEAN /\ Live!Publish(p, status, last)
    BY <1>11, <2>1 DEF Live!CancelPublishes, Live!Terminal, LiveStatuses, Live!Publishers
  <2>3. News /\ \E t \in SUBSET Viewers :
                     pub' = [pub EXCEPT ![p] = [snap |-> chan'.snap, to |-> t]]
    BY <2>2, PublishIs
  <2>4. \A q \in Live!Publishers : pub'[q].snap \in Known
    BY <2>3
  <2>5. \A u \in Viewers : slot'[u] \in Known
    BY <1>11 DEF Live!CancelPublishes, Live!Terminal, LiveStatuses, Chans, Pubs
  <2>6. \A u \in Viewers : shown'[u] \in Known
    BY <1>11 DEF Live!CancelPublishes, Live!Terminal, LiveStatuses, Chans, Pubs
  <2> QED  BY <2>3, <2>4, <2>5, <2>6
<1>12. ASSUME Live!CancelReturns PROVE (Quiet \/ News) /\ InSight' \subseteq Known
  <2>1. Quiet
    BY <1>12 DEF Live!CancelReturns, Live!Returned, Live!Settled, Live!Terminal,
       LiveStatuses, Quiet, Live!NoChannel, Chans
  <2>2. \A q \in Live!Publishers : pub'[q].snap \in Known
    BY <1>12 DEF Live!CancelReturns, Live!Returned, Live!Settled, Live!Terminal,
       LiveStatuses, Pubs
  <2>3. \A u \in Viewers : slot'[u] \in Known
    BY <1>12 DEF Live!CancelReturns, Live!Returned, Live!Settled, Live!Terminal,
       LiveStatuses, Chans, Pubs
  <2>4. \A u \in Viewers : shown'[u] \in Known
    BY <1>12 DEF Live!CancelReturns, Live!Returned, Live!Settled, Live!Terminal,
       LiveStatuses, Chans, Pubs
  <2> QED  BY <2>1, <2>2, <2>3, <2>4
<1>13. ASSUME Live!DeleteRun PROVE (Quiet \/ News) /\ InSight' \subseteq Known
  <2>1. Quiet
    BY <1>13 DEF Live!DeleteRun, Live!Terminal, LiveStatuses, Quiet, Live!NoChannel, Chans
  <2>2. \A q \in Live!Publishers : pub'[q].snap \in Known
    BY <1>13 DEF Live!DeleteRun, Live!Terminal, LiveStatuses, Pubs
  <2>3. \A u \in Viewers : slot'[u] \in Known
    BY <1>13 DEF Live!DeleteRun, Live!Terminal, LiveStatuses, Chans, Pubs
  <2>4. \A u \in Viewers : shown'[u] \in Known
    BY <1>13 DEF Live!DeleteRun, Live!Terminal, LiveStatuses, Chans, Pubs
  <2> QED  BY <2>1, <2>2, <2>3, <2>4
<1>14. ASSUME Live!CreateRun PROVE (Quiet \/ News) /\ InSight' \subseteq Known
  <2>1. Quiet
    BY <1>14 DEF Live!CreateRun, Live!Terminal, LiveStatuses, Quiet, Live!NoChannel, Chans
  <2>2. \A q \in Live!Publishers : pub'[q].snap \in Known
    BY <1>14 DEF Live!CreateRun, Live!Terminal, LiveStatuses, Pubs
  <2>3. \A u \in Viewers : slot'[u] \in Known
    BY <1>14 DEF Live!CreateRun, Live!Terminal, LiveStatuses, Chans, Pubs
  <2>4. \A u \in Viewers : shown'[u] \in Known
    BY <1>14 DEF Live!CreateRun, Live!Terminal, LiveStatuses, Chans, Pubs
  <2> QED  BY <2>1, <2>2, <2>3, <2>4
<1>15. ASSUME NEW v \in Viewers,
              Live!Refresh(v) PROVE (Quiet \/ News) /\ InSight' \subseteq Known
  <2>1. Quiet
    BY <1>15 DEF Live!Refresh, Live!Merge, Live!Terminal, LiveStatuses, Quiet,
       Live!NoChannel, Chans
  <2>2. \A q \in Live!Publishers : pub'[q].snap \in Known
    BY <1>15 DEF Live!Refresh, Live!Merge, Live!Terminal, LiveStatuses, Pubs
  <2>3. \A u \in Viewers : slot'[u] \in Known
    BY <1>15 DEF Live!Refresh, Live!Merge, Live!Terminal, LiveStatuses, Chans, Pubs
  <2>4. \A u \in Viewers : shown'[u] \in Known
    BY <1>15 DEF Live!Refresh, Live!Merge, Live!Terminal, LiveStatuses, Chans, Pubs
  <2> QED  BY <2>1, <2>2, <2>3, <2>4
<1>16. ASSUME NEW v \in Viewers,
              Live!Seed(v) PROVE (Quiet \/ News) /\ InSight' \subseteq Known
  <2>1. PICK p, status, last : p = v /\ status = saw[v] /\ last = (saw[v] \in Live!Terminal)
    OBVIOUS
  <2>2. /\ p \in Live!Publishers /\ status \in LiveStatuses
        /\ last \in BOOLEAN /\ Live!Publish(p, status, last)
    BY <1>16, <2>1 DEF Live!Seed, Live!Terminal, LiveStatuses, Live!Publishers
  <2>3. News /\ \E t \in SUBSET Viewers :
                     pub' = [pub EXCEPT ![p] = [snap |-> chan'.snap, to |-> t]]
    BY <2>2, PublishIs
  <2>4. \A q \in Live!Publishers : pub'[q].snap \in Known
    BY <2>3
  <2>5. \A u \in Viewers : slot'[u] \in Known
    BY <1>16 DEF Live!Seed, Live!Terminal, LiveStatuses, Chans, Pubs
  <2>6. \A u \in Viewers : shown'[u] \in Known
    BY <1>16 DEF Live!Seed, Live!Terminal, LiveStatuses, Chans, Pubs
  <2> QED  BY <2>3, <2>4, <2>5, <2>6
<1>17. ASSUME NEW v \in Viewers,
              Live!SeedReturns(v) PROVE (Quiet \/ News) /\ InSight' \subseteq Known
  <2>1. Quiet
    BY <1>17 DEF Live!SeedReturns, Live!Returned, Live!Settled, Live!Merge,
       Live!Terminal, LiveStatuses, Quiet, Live!NoChannel, Chans
  <2>2. \A q \in Live!Publishers : pub'[q].snap \in Known
    BY <1>17 DEF Live!SeedReturns, Live!Returned, Live!Settled, Live!Merge,
       Live!Terminal, LiveStatuses, Pubs
  <2>3. \A u \in Viewers : slot'[u] \in Known
    BY <1>17 DEF Live!SeedReturns, Live!Returned, Live!Settled, Live!Merge,
       Live!Terminal, LiveStatuses, Chans, Pubs
  <2>4. \A u \in Viewers : shown'[u] \in Known
    BY <1>17 DEF Live!SeedReturns, Live!Returned, Live!Settled, Live!Merge,
       Live!Terminal, LiveStatuses, Chans, Pubs
  <2> QED  BY <2>1, <2>2, <2>3, <2>4
<1>18. ASSUME NEW v \in Viewers,
              Live!Subscribe(v) PROVE (Quiet \/ News) /\ InSight' \subseteq Known
  <2>1. Quiet
    BY <1>18 DEF Live!Subscribe, Live!Terminal, LiveStatuses, Quiet, Live!NoChannel, Chans
  <2>2. \A q \in Live!Publishers : pub'[q].snap \in Known
    BY <1>18 DEF Live!Subscribe, Live!Terminal, LiveStatuses, Pubs
  <2>3. \A u \in Viewers : slot'[u] \in Known
    BY <1>18 DEF Live!Subscribe, Live!Terminal, LiveStatuses, Chans, Pubs
  <2>4. \A u \in Viewers : shown'[u] \in Known
    BY <1>18 DEF Live!Subscribe, Live!Terminal, LiveStatuses, Chans, Pubs
  <2> QED  BY <2>1, <2>2, <2>3, <2>4
<1>19. ASSUME NEW v \in Viewers,
              Live!Receive(v) PROVE (Quiet \/ News) /\ InSight' \subseteq Known
  <2>1. Quiet
    BY <1>19 DEF Live!Receive, Live!Received, Live!Unsubscribed, Live!Merge,
       Live!Terminal, LiveStatuses, Quiet, Live!NoChannel, Chans
  <2>2. \A q \in Live!Publishers : pub'[q].snap \in Known
    BY <1>19 DEF Live!Receive, Live!Received, Live!Unsubscribed, Live!Merge,
       Live!Terminal, LiveStatuses, Pubs
  <2>3. \A u \in Viewers : slot'[u] \in Known
    BY <1>19 DEF Live!Receive, Live!Received, Live!Unsubscribed, Live!Merge,
       Live!Terminal, LiveStatuses, Chans, Pubs
  <2>4. \A u \in Viewers : shown'[u] \in Known
    BY <1>19 DEF Live!Receive, Live!Received, Live!Unsubscribed, Live!Merge,
       Live!Terminal, LiveStatuses, Chans, Pubs
  <2> QED  BY <2>1, <2>2, <2>3, <2>4
<1>20. ASSUME NEW v \in Viewers,
              Live!HeartbeatSent(v) PROVE (Quiet \/ News) /\ InSight' \subseteq Known
  <2>1. Quiet
    BY <1>20 DEF Live!HeartbeatSent, Live!Heartbeat, Live!Received, Live!Unsubscribed,
       Live!Merge, Live!Terminal, LiveStatuses, Quiet, Live!NoChannel, Chans
  <2>2. \A q \in Live!Publishers : pub'[q].snap \in Known
    BY <1>20 DEF Live!HeartbeatSent, Live!Heartbeat, Live!Received, Live!Unsubscribed,
       Live!Merge, Live!Terminal, LiveStatuses, Pubs
  <2>3. \A u \in Viewers : slot'[u] \in Known
    BY <1>20 DEF Live!HeartbeatSent, Live!Heartbeat, Live!Received, Live!Unsubscribed,
       Live!Merge, Live!Terminal, LiveStatuses, Chans, Pubs
  <2>4. \A u \in Viewers : shown'[u] \in Known
    BY <1>20 DEF Live!HeartbeatSent, Live!Heartbeat, Live!Received, Live!Unsubscribed,
       Live!Merge, Live!Terminal, LiveStatuses, Chans, Pubs
  <2> QED  BY <2>1, <2>2, <2>3, <2>4
<1>21. ASSUME NEW v \in Viewers,
              Live!Leave(v) PROVE (Quiet \/ News) /\ InSight' \subseteq Known
  <2>1. Quiet
    <3>1. chan' = [chan EXCEPT !.subs = @ \ {v}] /\ streams' = streams
      BY <1>21 DEF Live!Leave, Live!Unsubscribed
    <3>2. CASE chan = Live!NoChannel
      <4>1. Live!NoChannel.subs = {} /\ {} \ {v} = {}
        BY DEF Live!NoChannel
      <4>2. chan' = Live!NoChannel
        BY <3>1, <3>2, <4>1 DEF Live!NoChannel
      <4> QED  BY <3>1, <3>2, <4>2 DEF Quiet
    <3>3. CASE chan # Live!NoChannel
      <4>1. chan'.snap = chan.snap
        BY <3>1 DEF Chans
      <4>2. chan' # Live!NoChannel
        BY <3>3, <4>1
      <4> QED  BY <3>1, <3>3, <4>1, <4>2 DEF Quiet
    <3> QED  BY <3>2, <3>3
  <2>2. \A q \in Live!Publishers : pub'[q].snap \in Known
    BY <1>21 DEF Live!Leave, Live!Unsubscribed, Live!Terminal, LiveStatuses, Pubs
  <2>3. \A u \in Viewers : slot'[u] \in Known
    BY <1>21 DEF Live!Leave, Live!Unsubscribed, Live!Terminal, LiveStatuses, Chans, Pubs
  <2>4. \A u \in Viewers : shown'[u] \in Known
    BY <1>21 DEF Live!Leave, Live!Unsubscribed, Live!Terminal, LiveStatuses, Chans, Pubs
  <2> QED  BY <2>1, <2>2, <2>3, <2>4
<1> QED  BY <1>1, <1>2, <1>3, <1>4, <1>5, <1>6, <1>7, <1>8, <1>9, <1>10, <1>11, <1>12,
            <1>13, <1>14, <1>15, <1>16, <1>17, <1>18, <1>19, <1>20, <1>21 DEF Live!Next

(* What belongs to no stream is nothing, or the word that the channel closed. *)
LEMMA NothingElseStep ==
    ASSUME LiveInv, Live!Next
    PROVE  NothingElse'
<1>a. /\ chan \in Chans /\ pub \in [Live!Publishers -> Pubs] /\ Viewers \subseteq Live!Publishers
      /\ slot \in [Viewers -> Live!Snapshots] /\ shown \in [Viewers -> Live!Snapshots]
      /\ streams \in 0 .. MaxStreams + 1 /\ saw \in [Viewers -> LiveStatuses]
  BY DEF LiveInv, Live!TypeOK, Live!Publishers, Chans, Pubs, LiveStatuses
<1>b. chan # Live!NoChannel => chan.snap.stream > 0
  BY DEF LiveInv, NewestStream
<1>c. /\ \A p \in Live!Publishers : pub[p] = Live!NoPublication \/ pub[p].snap.stream > 0
      /\ \A v \in Viewers : slot[v] \in {Live!Nothing, Live!Closed} \/ slot[v].stream > 0
      /\ \A v \in Viewers : shown[v] = Live!Nothing \/ shown[v].stream > 0
  BY DEF LiveInv, NothingElse
<1> USE <1>a, <1>b, <1>c
<1>1. ASSUME NEW p \in Live!Publishers, Live!Offer(p) PROVE NothingElse'
  <2>1. \A q \in Live!Publishers : pub'[q] = Live!NoPublication \/ pub'[q].snap.stream > 0
    <3>1. PICK v \in pub[p].to : pub' = [pub EXCEPT ![p].to = @ \ {v}]
      BY <1>1 DEF Live!Offer
    <3>2. pub[p].snap.stream > 0
      BY <3>1 DEF Live!NoPublication
    <3>3. \A q \in Live!Publishers : q # p => pub'[q] = pub[q]
      BY <3>1
    <3>4. pub'[p].snap = pub[p].snap
      BY <3>1 DEF Pubs
    <3> QED  BY <3>2, <3>3, <3>4
  <2>2. \A u \in Viewers : slot'[u] \in {Live!Nothing, Live!Closed} \/ slot'[u].stream > 0
    BY <1>1 DEF Live!Offer, Live!Terminal, LiveStatuses, Chans, Pubs, Live!NoPublication
  <2>3. \A u \in Viewers : shown'[u] = Live!Nothing \/ shown'[u].stream > 0
    BY <1>1 DEF Live!Offer, Live!Terminal, LiveStatuses, Chans, Pubs, Live!NoPublication
  <2> QED  BY <2>1, <2>2, <2>3 DEF NothingElse
<1>2. ASSUME Live!Expire PROVE NothingElse'
  <2>1. \A q \in Live!Publishers : pub'[q] = Live!NoPublication \/ pub'[q].snap.stream > 0
    BY <1>2 DEF Live!Expire, Live!Terminal, LiveStatuses, Pubs
  <2>2. \A u \in Viewers : slot'[u] \in {Live!Nothing, Live!Closed} \/ slot'[u].stream > 0
    BY <1>2 DEF Live!Expire, Live!Terminal, LiveStatuses, Chans, Pubs
  <2>3. \A u \in Viewers : shown'[u] = Live!Nothing \/ shown'[u].stream > 0
    BY <1>2 DEF Live!Expire, Live!Terminal, LiveStatuses, Chans, Pubs
  <2> QED  BY <2>1, <2>2, <2>3 DEF NothingElse
<1>3. ASSUME Live!Crash PROVE NothingElse'
  <2>1. \A q \in Live!Publishers : pub'[q] = Live!NoPublication \/ pub'[q].snap.stream > 0
    BY <1>3 DEF Live!Crash, Live!Terminal, LiveStatuses, Pubs
  <2>2. \A u \in Viewers : slot'[u] \in {Live!Nothing, Live!Closed} \/ slot'[u].stream > 0
    BY <1>3 DEF Live!Crash, Live!Terminal, LiveStatuses, Chans, Pubs
  <2>3. \A u \in Viewers : shown'[u] = Live!Nothing \/ shown'[u].stream > 0
    BY <1>3 DEF Live!Crash, Live!Terminal, LiveStatuses, Chans, Pubs
  <2> QED  BY <2>1, <2>2, <2>3 DEF NothingElse
<1>4. ASSUME Live!StartLive PROVE NothingElse'
  <2>1. \A q \in Live!Publishers : pub'[q] = Live!NoPublication \/ pub'[q].snap.stream > 0
    BY <1>4 DEF Live!StartLive, Live!StreamCounted, Live!Terminal, LiveStatuses, Pubs
  <2>2. \A u \in Viewers : slot'[u] \in {Live!Nothing, Live!Closed} \/ slot'[u].stream > 0
    BY <1>4 DEF Live!StartLive, Live!StreamCounted, Live!Terminal, LiveStatuses, Chans,
       Pubs
  <2>3. \A u \in Viewers : shown'[u] = Live!Nothing \/ shown'[u].stream > 0
    BY <1>4 DEF Live!StartLive, Live!StreamCounted, Live!Terminal, LiveStatuses, Chans,
       Pubs
  <2> QED  BY <2>1, <2>2, <2>3 DEF NothingElse
<1>5. ASSUME Live!PublishNews PROVE NothingElse'
  <2>1. PICK p, status, last : p = "engine" /\ status = "RUNNING" /\ last = FALSE
    OBVIOUS
  <2>2. /\ p \in Live!Publishers /\ status \in LiveStatuses
        /\ last \in BOOLEAN /\ Live!Publish(p, status, last)
    BY <1>5, <2>1 DEF Live!PublishNews, Live!Terminal, LiveStatuses, Live!Publishers
  <2>3. chan'.snap.stream > 0 /\ \E t \in SUBSET Viewers :
             pub' = [pub EXCEPT ![p] = [snap |-> chan'.snap, to |-> t]]
    BY <2>2, PublishIs DEF News
  <2>4. \A q \in Live!Publishers : pub'[q] = Live!NoPublication \/ pub'[q].snap.stream > 0
    BY <2>3
  <2>5. \A u \in Viewers : slot'[u] \in {Live!Nothing, Live!Closed} \/ slot'[u].stream > 0
    BY <1>5 DEF Live!PublishNews, Live!Terminal, LiveStatuses, Chans, Pubs
  <2>6. \A u \in Viewers : shown'[u] = Live!Nothing \/ shown'[u].stream > 0
    BY <1>5 DEF Live!PublishNews, Live!Terminal, LiveStatuses, Chans, Pubs
  <2> QED  BY <2>4, <2>5, <2>6 DEF NothingElse
<1>6. ASSUME Live!EngineReturns PROVE NothingElse'
  <2>1. \A q \in Live!Publishers : pub'[q] = Live!NoPublication \/ pub'[q].snap.stream > 0
    BY <1>6 DEF Live!EngineReturns, Live!Returned, Live!Settled, Live!Terminal,
       LiveStatuses, Pubs
  <2>2. \A u \in Viewers : slot'[u] \in {Live!Nothing, Live!Closed} \/ slot'[u].stream > 0
    BY <1>6 DEF Live!EngineReturns, Live!Returned, Live!Settled, Live!Terminal,
       LiveStatuses, Chans, Pubs
  <2>3. \A u \in Viewers : shown'[u] = Live!Nothing \/ shown'[u].stream > 0
    BY <1>6 DEF Live!EngineReturns, Live!Returned, Live!Settled, Live!Terminal,
       LiveStatuses, Chans, Pubs
  <2> QED  BY <2>1, <2>2, <2>3 DEF NothingElse
<1>7. ASSUME Live!Summarise PROVE NothingElse'
  <2>1. \A q \in Live!Publishers : pub'[q] = Live!NoPublication \/ pub'[q].snap.stream > 0
    BY <1>7 DEF Live!Summarise, Live!Terminal, LiveStatuses, Pubs
  <2>2. \A u \in Viewers : slot'[u] \in {Live!Nothing, Live!Closed} \/ slot'[u].stream > 0
    BY <1>7 DEF Live!Summarise, Live!Terminal, LiveStatuses, Chans, Pubs
  <2>3. \A u \in Viewers : shown'[u] = Live!Nothing \/ shown'[u].stream > 0
    BY <1>7 DEF Live!Summarise, Live!Terminal, LiveStatuses, Chans, Pubs
  <2> QED  BY <2>1, <2>2, <2>3 DEF NothingElse
<1>8. ASSUME Live!FinishRun PROVE NothingElse'
  <2>1. PICK p, status, last : p = "engine" /\ status = "OVER" /\ last = TRUE
    OBVIOUS
  <2>2. /\ p \in Live!Publishers /\ status \in LiveStatuses
        /\ last \in BOOLEAN /\ Live!Publish(p, status, last)
    BY <1>8, <2>1 DEF Live!FinishRun, Live!Terminal, LiveStatuses, Live!Publishers
  <2>3. chan'.snap.stream > 0 /\ \E t \in SUBSET Viewers :
             pub' = [pub EXCEPT ![p] = [snap |-> chan'.snap, to |-> t]]
    BY <2>2, PublishIs DEF News
  <2>4. \A q \in Live!Publishers : pub'[q] = Live!NoPublication \/ pub'[q].snap.stream > 0
    BY <2>3
  <2>5. \A u \in Viewers : slot'[u] \in {Live!Nothing, Live!Closed} \/ slot'[u].stream > 0
    BY <1>8 DEF Live!FinishRun, Live!Terminal, LiveStatuses, Chans, Pubs
  <2>6. \A u \in Viewers : shown'[u] = Live!Nothing \/ shown'[u].stream > 0
    BY <1>8 DEF Live!FinishRun, Live!Terminal, LiveStatuses, Chans, Pubs
  <2> QED  BY <2>4, <2>5, <2>6 DEF NothingElse
<1>9. ASSUME Live!FinishReturns PROVE NothingElse'
  <2>1. \A q \in Live!Publishers : pub'[q] = Live!NoPublication \/ pub'[q].snap.stream > 0
    BY <1>9 DEF Live!FinishReturns, Live!Returned, Live!Settled, Live!Terminal,
       LiveStatuses, Pubs
  <2>2. \A u \in Viewers : slot'[u] \in {Live!Nothing, Live!Closed} \/ slot'[u].stream > 0
    BY <1>9 DEF Live!FinishReturns, Live!Returned, Live!Settled, Live!Terminal,
       LiveStatuses, Chans, Pubs
  <2>3. \A u \in Viewers : shown'[u] = Live!Nothing \/ shown'[u].stream > 0
    BY <1>9 DEF Live!FinishReturns, Live!Returned, Live!Settled, Live!Terminal,
       LiveStatuses, Chans, Pubs
  <2> QED  BY <2>1, <2>2, <2>3 DEF NothingElse
<1>10. ASSUME Live!CancelRow PROVE NothingElse'
  <2>1. \A q \in Live!Publishers : pub'[q] = Live!NoPublication \/ pub'[q].snap.stream > 0
    BY <1>10 DEF Live!CancelRow, Live!Terminal, LiveStatuses, Pubs
  <2>2. \A u \in Viewers : slot'[u] \in {Live!Nothing, Live!Closed} \/ slot'[u].stream > 0
    BY <1>10 DEF Live!CancelRow, Live!Terminal, LiveStatuses, Chans, Pubs
  <2>3. \A u \in Viewers : shown'[u] = Live!Nothing \/ shown'[u].stream > 0
    BY <1>10 DEF Live!CancelRow, Live!Terminal, LiveStatuses, Chans, Pubs
  <2> QED  BY <2>1, <2>2, <2>3 DEF NothingElse
<1>11. ASSUME Live!CancelPublishes PROVE NothingElse'
  <2>1. PICK p, status, last : p = "cancel" /\ status = "ABORTED" /\ last = FALSE
    OBVIOUS
  <2>2. /\ p \in Live!Publishers /\ status \in LiveStatuses
        /\ last \in BOOLEAN /\ Live!Publish(p, status, last)
    BY <1>11, <2>1 DEF Live!CancelPublishes, Live!Terminal, LiveStatuses, Live!Publishers
  <2>3. chan'.snap.stream > 0 /\ \E t \in SUBSET Viewers :
             pub' = [pub EXCEPT ![p] = [snap |-> chan'.snap, to |-> t]]
    BY <2>2, PublishIs DEF News
  <2>4. \A q \in Live!Publishers : pub'[q] = Live!NoPublication \/ pub'[q].snap.stream > 0
    BY <2>3
  <2>5. \A u \in Viewers : slot'[u] \in {Live!Nothing, Live!Closed} \/ slot'[u].stream > 0
    BY <1>11 DEF Live!CancelPublishes, Live!Terminal, LiveStatuses, Chans, Pubs
  <2>6. \A u \in Viewers : shown'[u] = Live!Nothing \/ shown'[u].stream > 0
    BY <1>11 DEF Live!CancelPublishes, Live!Terminal, LiveStatuses, Chans, Pubs
  <2> QED  BY <2>4, <2>5, <2>6 DEF NothingElse
<1>12. ASSUME Live!CancelReturns PROVE NothingElse'
  <2>1. \A q \in Live!Publishers : pub'[q] = Live!NoPublication \/ pub'[q].snap.stream > 0
    BY <1>12 DEF Live!CancelReturns, Live!Returned, Live!Settled, Live!Terminal,
       LiveStatuses, Pubs
  <2>2. \A u \in Viewers : slot'[u] \in {Live!Nothing, Live!Closed} \/ slot'[u].stream > 0
    BY <1>12 DEF Live!CancelReturns, Live!Returned, Live!Settled, Live!Terminal,
       LiveStatuses, Chans, Pubs
  <2>3. \A u \in Viewers : shown'[u] = Live!Nothing \/ shown'[u].stream > 0
    BY <1>12 DEF Live!CancelReturns, Live!Returned, Live!Settled, Live!Terminal,
       LiveStatuses, Chans, Pubs
  <2> QED  BY <2>1, <2>2, <2>3 DEF NothingElse
<1>13. ASSUME Live!DeleteRun PROVE NothingElse'
  <2>1. \A q \in Live!Publishers : pub'[q] = Live!NoPublication \/ pub'[q].snap.stream > 0
    BY <1>13 DEF Live!DeleteRun, Live!Terminal, LiveStatuses, Pubs
  <2>2. \A u \in Viewers : slot'[u] \in {Live!Nothing, Live!Closed} \/ slot'[u].stream > 0
    BY <1>13 DEF Live!DeleteRun, Live!Terminal, LiveStatuses, Chans, Pubs
  <2>3. \A u \in Viewers : shown'[u] = Live!Nothing \/ shown'[u].stream > 0
    BY <1>13 DEF Live!DeleteRun, Live!Terminal, LiveStatuses, Chans, Pubs
  <2> QED  BY <2>1, <2>2, <2>3 DEF NothingElse
<1>14. ASSUME Live!CreateRun PROVE NothingElse'
  <2>1. \A q \in Live!Publishers : pub'[q] = Live!NoPublication \/ pub'[q].snap.stream > 0
    BY <1>14 DEF Live!CreateRun, Live!Terminal, LiveStatuses, Pubs
  <2>2. \A u \in Viewers : slot'[u] \in {Live!Nothing, Live!Closed} \/ slot'[u].stream > 0
    BY <1>14 DEF Live!CreateRun, Live!Terminal, LiveStatuses, Chans, Pubs
  <2>3. \A u \in Viewers : shown'[u] = Live!Nothing \/ shown'[u].stream > 0
    BY <1>14 DEF Live!CreateRun, Live!Terminal, LiveStatuses, Chans, Pubs
  <2> QED  BY <2>1, <2>2, <2>3 DEF NothingElse
<1>15. ASSUME NEW v \in Viewers, Live!Refresh(v) PROVE NothingElse'
  <2>1. \A q \in Live!Publishers : pub'[q] = Live!NoPublication \/ pub'[q].snap.stream > 0
    BY <1>15 DEF Live!Refresh, Live!Merge, Live!Terminal, LiveStatuses, Pubs
  <2>2. \A u \in Viewers : slot'[u] \in {Live!Nothing, Live!Closed} \/ slot'[u].stream > 0
    BY <1>15 DEF Live!Refresh, Live!Merge, Live!Terminal, LiveStatuses, Chans, Pubs
  <2>3. \A u \in Viewers : shown'[u] = Live!Nothing \/ shown'[u].stream > 0
    BY <1>15 DEF Live!Refresh, Live!Merge, Live!Terminal, LiveStatuses, Chans, Pubs
  <2> QED  BY <2>1, <2>2, <2>3 DEF NothingElse
<1>16. ASSUME NEW v \in Viewers, Live!Seed(v) PROVE NothingElse'
  <2>1. PICK p, status, last : p = v /\ status = saw[v] /\ last = (saw[v] \in Live!Terminal)
    OBVIOUS
  <2>2. /\ p \in Live!Publishers /\ status \in LiveStatuses
        /\ last \in BOOLEAN /\ Live!Publish(p, status, last)
    BY <1>16, <2>1 DEF Live!Seed, Live!Terminal, LiveStatuses, Live!Publishers
  <2>3. chan'.snap.stream > 0 /\ \E t \in SUBSET Viewers :
             pub' = [pub EXCEPT ![p] = [snap |-> chan'.snap, to |-> t]]
    BY <2>2, PublishIs DEF News
  <2>4. \A q \in Live!Publishers : pub'[q] = Live!NoPublication \/ pub'[q].snap.stream > 0
    BY <2>3
  <2>5. \A u \in Viewers : slot'[u] \in {Live!Nothing, Live!Closed} \/ slot'[u].stream > 0
    BY <1>16 DEF Live!Seed, Live!Terminal, LiveStatuses, Chans, Pubs
  <2>6. \A u \in Viewers : shown'[u] = Live!Nothing \/ shown'[u].stream > 0
    BY <1>16 DEF Live!Seed, Live!Terminal, LiveStatuses, Chans, Pubs
  <2> QED  BY <2>4, <2>5, <2>6 DEF NothingElse
<1>17. ASSUME NEW v \in Viewers, Live!SeedReturns(v) PROVE NothingElse'
  <2>1. \A q \in Live!Publishers : pub'[q] = Live!NoPublication \/ pub'[q].snap.stream > 0
    BY <1>17 DEF Live!SeedReturns, Live!Returned, Live!Settled, Live!Merge,
       Live!Terminal, LiveStatuses, Pubs, Live!NoPublication
  <2>2. \A u \in Viewers : slot'[u] \in {Live!Nothing, Live!Closed} \/ slot'[u].stream > 0
    BY <1>17 DEF Live!SeedReturns, Live!Returned, Live!Settled, Live!Merge,
       Live!Terminal, LiveStatuses, Chans, Pubs, Live!NoPublication
  <2>3. \A u \in Viewers : shown'[u] = Live!Nothing \/ shown'[u].stream > 0
    BY <1>17 DEF Live!SeedReturns, Live!Returned, Live!Settled, Live!Merge,
       Live!Terminal, LiveStatuses, Chans, Pubs, Live!NoPublication
  <2> QED  BY <2>1, <2>2, <2>3 DEF NothingElse
<1>18. ASSUME NEW v \in Viewers, Live!Subscribe(v) PROVE NothingElse'
  <2>1. \A q \in Live!Publishers : pub'[q] = Live!NoPublication \/ pub'[q].snap.stream > 0
    BY <1>18 DEF Live!Subscribe, Live!Terminal, LiveStatuses, Pubs
  <2>2. \A u \in Viewers : slot'[u] \in {Live!Nothing, Live!Closed} \/ slot'[u].stream > 0
    BY <1>18 DEF Live!Subscribe, Live!Terminal, LiveStatuses, Chans, Pubs
  <2>3. \A u \in Viewers : shown'[u] = Live!Nothing \/ shown'[u].stream > 0
    BY <1>18 DEF Live!Subscribe, Live!Terminal, LiveStatuses, Chans, Pubs
  <2> QED  BY <2>1, <2>2, <2>3 DEF NothingElse
<1>19. ASSUME NEW v \in Viewers, Live!Receive(v) PROVE NothingElse'
  <2>1. \A q \in Live!Publishers : pub'[q] = Live!NoPublication \/ pub'[q].snap.stream > 0
    BY <1>19 DEF Live!Receive, Live!Received, Live!Unsubscribed, Live!Merge,
       Live!Terminal, LiveStatuses, Pubs, Live!NoPublication
  <2>2. \A u \in Viewers : slot'[u] \in {Live!Nothing, Live!Closed} \/ slot'[u].stream > 0
    BY <1>19 DEF Live!Receive, Live!Received, Live!Unsubscribed, Live!Merge,
       Live!Terminal, LiveStatuses, Chans, Pubs, Live!NoPublication
  <2>3. \A u \in Viewers : shown'[u] = Live!Nothing \/ shown'[u].stream > 0
    BY <1>19 DEF Live!Receive, Live!Received, Live!Unsubscribed, Live!Merge,
       Live!Terminal, LiveStatuses, Chans, Pubs, Live!NoPublication
  <2> QED  BY <2>1, <2>2, <2>3 DEF NothingElse
<1>20. ASSUME NEW v \in Viewers, Live!HeartbeatSent(v) PROVE NothingElse'
  <2>1. \A q \in Live!Publishers : pub'[q] = Live!NoPublication \/ pub'[q].snap.stream > 0
    BY <1>20 DEF Live!HeartbeatSent, Live!Heartbeat, Live!Received, Live!Unsubscribed,
       Live!Merge, Live!Terminal, LiveStatuses, Pubs
  <2>2. \A u \in Viewers : slot'[u] \in {Live!Nothing, Live!Closed} \/ slot'[u].stream > 0
    BY <1>20 DEF Live!HeartbeatSent, Live!Heartbeat, Live!Received, Live!Unsubscribed,
       Live!Merge, Live!Terminal, LiveStatuses, Chans, Pubs
  <2>3. \A u \in Viewers : shown'[u] = Live!Nothing \/ shown'[u].stream > 0
    BY <1>20 DEF Live!HeartbeatSent, Live!Heartbeat, Live!Received, Live!Unsubscribed,
       Live!Merge, Live!Terminal, LiveStatuses, Chans, Pubs
  <2> QED  BY <2>1, <2>2, <2>3 DEF NothingElse
<1>21. ASSUME NEW v \in Viewers, Live!Leave(v) PROVE NothingElse'
  <2>1. \A q \in Live!Publishers : pub'[q] = Live!NoPublication \/ pub'[q].snap.stream > 0
    BY <1>21 DEF Live!Leave, Live!Unsubscribed, Live!Terminal, LiveStatuses, Pubs
  <2>2. \A u \in Viewers : slot'[u] \in {Live!Nothing, Live!Closed} \/ slot'[u].stream > 0
    BY <1>21 DEF Live!Leave, Live!Unsubscribed, Live!Terminal, LiveStatuses, Chans, Pubs
  <2>3. \A u \in Viewers : shown'[u] = Live!Nothing \/ shown'[u].stream > 0
    BY <1>21 DEF Live!Leave, Live!Unsubscribed, Live!Terminal, LiveStatuses, Chans, Pubs
  <2> QED  BY <2>1, <2>2, <2>3 DEF NothingElse
<1> QED  BY <1>1, <1>2, <1>3, <1>4, <1>5, <1>6, <1>7, <1>8, <1>9, <1>10, <1>11, <1>12,
            <1>13, <1>14, <1>15, <1>16, <1>17, <1>18, <1>19, <1>20, <1>21 DEF Live!Next

(* Snapshots of one stream do not contradict each other.                     *)
LEMMA NewestStreamStep ==
    ASSUME LiveInv, Live!Next
    PROVE  NewestStream'
<1>1. (Quiet \/ News) /\ InSight' \subseteq Known
  BY LiveStep
<1>2. streams \in 0 .. MaxStreams + 1 /\ Live!Nothing.stream = 0 /\ Live!Closed.stream = 0
  BY DEF LiveInv, Live!TypeOK, Live!Nothing, Live!Closed
<1>3. chan.snap \in Live!Snapshots /\ \A s \in InSight : s \in Live!Snapshots
  BY DEF LiveInv, Live!TypeOK, InSight
<1>4. Live!NoChannel.snap.stream = 0
  BY DEF Live!NoChannel, Live!Nothing
<1>5. CASE Quiet
  <2>1. chan'.snap \in {chan.snap, Live!NoChannel.snap}
    BY <1>5 DEF Quiet
  <2>2. \A s \in Known : s \in InSight \/ s.stream = 0
    BY <1>2, <1>4, <2>1 DEF Known, InSight
  <2>3. \A s \in Known : s.stream <= streams
    BY <1>2, <2>2 DEF LiveInv, NewestStream
  <2>4. \A s \in Known : s.stream > 0 /\ s.stream = chan'.snap.stream => s.rev <= chan'.snap.rev
    BY <1>4, <2>1, <2>2 DEF LiveInv, NewestStream
  <2> QED  BY <1>1, <1>2, <1>4, <1>5, <2>1, <2>3, <2>4 DEF LiveInv, NewestStream, Quiet
<1>6. CASE News
  <2>1. streams' \in {streams, streams + 1} /\ streams' <= MaxStreams
    BY <1>2, <1>6, BoundsAssumption DEF News, LiveInv, NewestStream
  <2>2. \A s \in Known : s \in InSight \/ s.stream = 0 \/ s = chan'.snap
    BY <1>2 DEF Known
  <2>3. \A s \in InSight : s.stream <= streams
    BY DEF LiveInv, NewestStream
  <2>4. \A s \in Known : s.stream <= streams'
    BY <1>2, <1>3, <1>6, <2>1, <2>2, <2>3, BoundsAssumption DEF News, Live!Snapshots
  <2>5. chan'.snap \in Live!Snapshots
    BY LiveType DEF Live!TypeOK
  <2>6. \A s \in Known : s.stream > 0 /\ s.stream = chan'.snap.stream => s.rev <= chan'.snap.rev
    <3>1. SUFFICES ASSUME NEW s \in InSight, s.stream > 0, s.stream = chan'.snap.stream
                   PROVE  s.rev <= chan'.snap.rev
      BY <2>2, <2>5 DEF Live!Snapshots
    <3>2. streams' = streams /\ chan # Live!NoChannel /\ chan'.snap.rev > chan.snap.rev
      BY <1>2, <1>6, <2>3, <3>1 DEF News
    <3>3. s.rev <= chan.snap.rev
      BY <1>6, <3>1, <3>2 DEF News, LiveInv, NewestStream
    <3> QED  BY <1>3, <2>5, <3>1, <3>2, <3>3 DEF Live!Snapshots
  <2> QED  BY <1>1, <1>6, <2>1, <2>4, <2>6 DEF NewestStream, News
<1> QED  BY <1>1, <1>5, <1>6

LEMMA EndsStayStep ==
    ASSUME LiveInv, Live!Next
    PROVE  EndsStay'
<1>1. (Quiet \/ News) /\ InSight' \subseteq Known
  BY LiveStep
<1>2. Live!Nothing.stream = 0 /\ Live!Closed.stream = 0 /\ Live!NoChannel.snap.stream = 0
  BY DEF Live!Nothing, Live!Closed, Live!NoChannel
<1>3. chan.snap \in InSight /\ \A s \in InSight : s \in Live!Snapshots /\ s.stream <= streams
  BY DEF LiveInv, Live!TypeOK, NewestStream, InSight
<1>4. \A s, t \in InSight :
          s.stream > 0 /\ s.stream = t.stream /\ s.rev <= t.rev /\ s.terminal => t.terminal
  BY DEF LiveInv, EndsStay
<1>5. CASE Quiet
  <2>1. \A s \in Known : s \in InSight \/ s.stream = 0
    BY <1>2, <1>3, <1>5 DEF Known, Quiet
  <2>2. \A s, t \in Known :
            s.stream > 0 /\ s.stream = t.stream /\ s.rev <= t.rev /\ s.terminal => t.terminal
    BY <1>4, <2>1
  <2> QED  BY <1>1, <2>2 DEF EndsStay
<1>6. CASE News
  <2>1. streams \in 0 .. MaxStreams + 1 /\ chan'.snap \in Live!Snapshots
    BY LiveType DEF LiveInv, Live!TypeOK
  <2>2. \A s \in Known : s \in InSight \/ s.stream = 0 \/ s = chan'.snap
    BY <1>2 DEF Known
  <2>3. ASSUME NEW s \in InSight, s.stream > 0, s.stream = chan'.snap.stream
        PROVE  s.rev < chan'.snap.rev /\ (s.terminal => chan'.snap.terminal)
    <3>1. streams' = streams /\ chan # Live!NoChannel /\ chan'.snap.rev > chan.snap.rev
          /\ (chan.snap.terminal => chan'.snap.terminal) /\ s.stream = chan.snap.stream
      BY <1>3, <1>6, <2>1, <2>3 DEF News, LiveInv, NewestStream
    <3>2. s.rev <= chan.snap.rev
      BY <2>3, <3>1 DEF LiveInv, NewestStream
    <3>3. s.terminal => chan.snap.terminal
      BY <1>3, <1>4, <2>3, <3>1, <3>2
    <3> QED  BY <1>3, <2>1, <2>3, <3>1, <3>2, <3>3 DEF Live!Snapshots
  <2>4. \A s, t \in Known :
            s.stream > 0 /\ s.stream = t.stream /\ s.rev <= t.rev /\ s.terminal => t.terminal
    <3>1. SUFFICES ASSUME NEW s \in Known, NEW t \in Known, s.stream > 0, s.stream = t.stream,
                          s.rev <= t.rev, s.terminal
                   PROVE  t.terminal
      OBVIOUS
    <3>2. CASE s \in InSight /\ t \in InSight
      BY <1>4, <3>1, <3>2
    <3>3. CASE s \in InSight /\ t = chan'.snap
      BY <2>3, <3>1, <3>3
    <3>4. CASE s = chan'.snap /\ t = chan'.snap
      BY <3>1, <3>4
    <3>5. CASE s = chan'.snap /\ t \in InSight
      BY <1>3, <2>1, <2>3, <3>1, <3>5 DEF Live!Snapshots
    <3> QED  BY <2>2, <3>1, <3>2, <3>3, <3>4, <3>5
  <2> QED  BY <1>1, <2>4 DEF EndsStay
<1> QED  BY <1>1, <1>5, <1>6

(* Merging a snapshot that is in sight does not take a page back.            *)
LEMMA MergeIs ==
    ASSUME LiveInv, NEW old \in InSight, NEW new \in InSight, new.stream > 0,
           NEW merged, merged = Live!Merge(old, new)
    PROVE  \/ merged.stream > old.stream
           \/ /\ merged.stream = old.stream /\ merged.rev >= old.rev
              /\ old.terminal => merged.terminal
<1>1. old \in Live!Snapshots /\ new \in Live!Snapshots
  BY DEF LiveInv, Live!TypeOK, InSight
<1>2. /\ old.stream \in Nat /\ new.stream \in Nat /\ old.rev \in Nat /\ new.rev \in Nat
  BY <1>1, BoundsAssumption DEF Live!Snapshots
<1>3. new.stream = old.stream /\ old.rev <= new.rev /\ old.terminal => new.terminal
  BY DEF LiveInv, EndsStay
<1>4. CASE merged = old
  BY <1>2, <1>4
<1>5. CASE merged # old
  <2>1. merged = new /\ ~(old.stream # 0 /\ new.stream < old.stream)
        /\ ~(new.stream = old.stream /\ new.rev < old.rev)
    BY <1>5 DEF Live!Merge
  <2> QED  BY <1>2, <1>3, <2>1
<1> QED  BY <1>4, <1>5

LEMMA PageStep ==
    ASSUME LiveInv, Live!Next
    PROVE  \A v \in Viewers :
               shown'[v] # Live!Nothing =>
                 \/ shown'[v].stream > shown[v].stream
                 \/ /\ shown'[v].stream = shown[v].stream /\ shown'[v].rev >= shown[v].rev
                    /\ shown[v].terminal => shown'[v].terminal
<1> TAKE v \in Viewers
<1>1. /\ shown[v] \in InSight /\ slot[v] \in InSight /\ chan.snap \in InSight
      /\ pub[v].snap \in InSight /\ shown \in [Viewers -> Live!Snapshots]
  BY DEF InSight, Live!Publishers, LiveInv, Live!TypeOK
<1>2. /\ chan # Live!NoChannel => chan.snap.stream > 0
      /\ pub[v] # Live!NoPublication => pub[v].snap.stream > 0
      /\ slot[v] \notin {Live!Nothing, Live!Closed} => slot[v].stream > 0
  BY DEF LiveInv, NewestStream, NothingElse, Live!Publishers
<1>3. \/ shown'[v] = shown[v] \/ shown'[v] = Live!Nothing
      \/ \E new \in {slot[v], chan.snap, pub[v].snap} :
             new.stream > 0 /\ shown'[v] = Live!Merge(shown[v], new)
  <2>1. ASSUME NEW p \in Live!Publishers, Live!Offer(p)
        PROVE shown'[v] \in {shown[v], Live!Nothing}
             \/ \E new \in {slot[v], chan.snap, pub[v].snap} :
                    new.stream > 0 /\ shown'[v] = Live!Merge(shown[v], new)
    BY <1>1, <1>2, <2>1 DEF Live!Offer
  <2>2. ASSUME Live!Expire
        PROVE shown'[v] \in {shown[v], Live!Nothing}
             \/ \E new \in {slot[v], chan.snap, pub[v].snap} :
                    new.stream > 0 /\ shown'[v] = Live!Merge(shown[v], new)
    BY <1>1, <1>2, <2>2 DEF Live!Expire
  <2>3. ASSUME Live!Crash
        PROVE shown'[v] \in {shown[v], Live!Nothing}
             \/ \E new \in {slot[v], chan.snap, pub[v].snap} :
                    new.stream > 0 /\ shown'[v] = Live!Merge(shown[v], new)
    BY <1>1, <1>2, <2>3 DEF Live!Crash
  <2>4. ASSUME Live!StartLive
        PROVE shown'[v] \in {shown[v], Live!Nothing}
             \/ \E new \in {slot[v], chan.snap, pub[v].snap} :
                    new.stream > 0 /\ shown'[v] = Live!Merge(shown[v], new)
    BY <1>1, <1>2, <2>4 DEF Live!StartLive, Live!StreamCounted
  <2>5. ASSUME Live!PublishNews
        PROVE shown'[v] \in {shown[v], Live!Nothing}
             \/ \E new \in {slot[v], chan.snap, pub[v].snap} :
                    new.stream > 0 /\ shown'[v] = Live!Merge(shown[v], new)
    BY <1>1, <1>2, <2>5 DEF Live!PublishNews
  <2>6. ASSUME Live!EngineReturns
        PROVE shown'[v] \in {shown[v], Live!Nothing}
             \/ \E new \in {slot[v], chan.snap, pub[v].snap} :
                    new.stream > 0 /\ shown'[v] = Live!Merge(shown[v], new)
    BY <1>1, <1>2, <2>6 DEF Live!EngineReturns, Live!Returned
  <2>7. ASSUME Live!Summarise
        PROVE shown'[v] \in {shown[v], Live!Nothing}
             \/ \E new \in {slot[v], chan.snap, pub[v].snap} :
                    new.stream > 0 /\ shown'[v] = Live!Merge(shown[v], new)
    BY <1>1, <1>2, <2>7 DEF Live!Summarise
  <2>8. ASSUME Live!FinishRun
        PROVE shown'[v] \in {shown[v], Live!Nothing}
             \/ \E new \in {slot[v], chan.snap, pub[v].snap} :
                    new.stream > 0 /\ shown'[v] = Live!Merge(shown[v], new)
    BY <1>1, <1>2, <2>8 DEF Live!FinishRun
  <2>9. ASSUME Live!FinishReturns
        PROVE shown'[v] \in {shown[v], Live!Nothing}
             \/ \E new \in {slot[v], chan.snap, pub[v].snap} :
                    new.stream > 0 /\ shown'[v] = Live!Merge(shown[v], new)
    BY <1>1, <1>2, <2>9 DEF Live!FinishReturns, Live!Returned
  <2>10. ASSUME Live!CancelRow
        PROVE shown'[v] \in {shown[v], Live!Nothing}
             \/ \E new \in {slot[v], chan.snap, pub[v].snap} :
                    new.stream > 0 /\ shown'[v] = Live!Merge(shown[v], new)
    BY <1>1, <1>2, <2>10 DEF Live!CancelRow
  <2>11. ASSUME Live!CancelPublishes
        PROVE shown'[v] \in {shown[v], Live!Nothing}
             \/ \E new \in {slot[v], chan.snap, pub[v].snap} :
                    new.stream > 0 /\ shown'[v] = Live!Merge(shown[v], new)
    BY <1>1, <1>2, <2>11 DEF Live!CancelPublishes
  <2>12. ASSUME Live!CancelReturns
        PROVE shown'[v] \in {shown[v], Live!Nothing}
             \/ \E new \in {slot[v], chan.snap, pub[v].snap} :
                    new.stream > 0 /\ shown'[v] = Live!Merge(shown[v], new)
    BY <1>1, <1>2, <2>12 DEF Live!CancelReturns, Live!Returned
  <2>13. ASSUME Live!DeleteRun
        PROVE shown'[v] \in {shown[v], Live!Nothing}
             \/ \E new \in {slot[v], chan.snap, pub[v].snap} :
                    new.stream > 0 /\ shown'[v] = Live!Merge(shown[v], new)
    BY <1>1, <1>2, <2>13 DEF Live!DeleteRun
  <2>14. ASSUME Live!CreateRun
        PROVE shown'[v] \in {shown[v], Live!Nothing}
             \/ \E new \in {slot[v], chan.snap, pub[v].snap} :
                    new.stream > 0 /\ shown'[v] = Live!Merge(shown[v], new)
    BY <1>1, <1>2, <2>14 DEF Live!CreateRun
  <2>15. ASSUME NEW u \in Viewers, Live!Refresh(u)
        PROVE shown'[v] \in {shown[v], Live!Nothing}
             \/ \E new \in {slot[v], chan.snap, pub[v].snap} :
                    new.stream > 0 /\ shown'[v] = Live!Merge(shown[v], new)
    BY <1>1, <1>2, <2>15 DEF Live!Refresh
  <2>16. ASSUME NEW u \in Viewers, Live!Seed(u)
        PROVE shown'[v] \in {shown[v], Live!Nothing}
             \/ \E new \in {slot[v], chan.snap, pub[v].snap} :
                    new.stream > 0 /\ shown'[v] = Live!Merge(shown[v], new)
    BY <1>1, <1>2, <2>16 DEF Live!Seed
  <2>17. ASSUME NEW u \in Viewers, Live!SeedReturns(u)
        PROVE shown'[v] \in {shown[v], Live!Nothing}
             \/ \E new \in {slot[v], chan.snap, pub[v].snap} :
                    new.stream > 0 /\ shown'[v] = Live!Merge(shown[v], new)
    BY <1>1, <1>2, <2>17 DEF Live!SeedReturns, Live!Returned
  <2>18. ASSUME NEW u \in Viewers, Live!Subscribe(u)
        PROVE shown'[v] \in {shown[v], Live!Nothing}
             \/ \E new \in {slot[v], chan.snap, pub[v].snap} :
                    new.stream > 0 /\ shown'[v] = Live!Merge(shown[v], new)
    BY <1>1, <1>2, <2>18 DEF Live!Subscribe
  <2>19. ASSUME NEW u \in Viewers, Live!Receive(u)
        PROVE shown'[v] \in {shown[v], Live!Nothing}
             \/ \E new \in {slot[v], chan.snap, pub[v].snap} :
                    new.stream > 0 /\ shown'[v] = Live!Merge(shown[v], new)
    BY <1>1, <1>2, <2>19 DEF Live!Receive, Live!Received, Live!Unsubscribed
  <2>20. ASSUME NEW u \in Viewers, Live!HeartbeatSent(u)
        PROVE shown'[v] \in {shown[v], Live!Nothing}
             \/ \E new \in {slot[v], chan.snap, pub[v].snap} :
                    new.stream > 0 /\ shown'[v] = Live!Merge(shown[v], new)
    BY <1>1, <1>2, <2>20 DEF Live!HeartbeatSent, Live!Heartbeat, Live!Received,
       Live!Unsubscribed
  <2>21. ASSUME NEW u \in Viewers, Live!Leave(u)
        PROVE shown'[v] \in {shown[v], Live!Nothing}
             \/ \E new \in {slot[v], chan.snap, pub[v].snap} :
                    new.stream > 0 /\ shown'[v] = Live!Merge(shown[v], new)
    BY <1>1, <1>2, <2>21 DEF Live!Leave, Live!Unsubscribed
  <2> QED  BY <2>1, <2>2, <2>3, <2>4, <2>5, <2>6, <2>7, <2>8, <2>9, <2>10, <2>11, <2>12,
              <2>13, <2>14, <2>15, <2>16, <2>17, <2>18, <2>19, <2>20, <2>21 DEF Live!Next
<1>4. CASE shown'[v] = shown[v]
  BY <1>1, <1>4, BoundsAssumption DEF Live!Snapshots
<1>5. CASE \E new \in {slot[v], chan.snap, pub[v].snap} :
               new.stream > 0 /\ shown'[v] = Live!Merge(shown[v], new)
  BY <1>1, <1>5, MergeIs
<1> QED  BY <1>3, <1>4, <1>5


-----------------------------------------------------------------------------
(* What holds of the three together.                                         *)

LEMMA CompatKept ==
    ASSUME CompatInv, [Compat!Next]_compatVars
    PROVE  CompatInv'
<1>1. CASE Compat!Next
  BY <1>1, CompatType, CellsToldStep, CancelReachesCellsStep, DeletedRestsStep,
     WorkIsLeasedStep, RunInOrderStep DEF CompatInv
<1>2. CASE UNCHANGED compatVars
  BY <1>2 DEF compatVars, CompatInv, CellsTold, CancelReachesCells, DeletedRests,
     WorkIsLeased, RunInOrder, Orderly, Compat!GivenUp, Compat!TypeOK
<1> QED  BY <1>1, <1>2

LEMMA RunKept ==
    ASSUME RunInv, ~Reuse, [Run!Next]_runVars
    PROVE  RunInv'
<1>1. CASE Run!Next
  BY <1>1, RunType, CancelFoundRunStep, OneEngineStep, EngineHasEventStep,
     CancelReachesEngineStep,
     DeletedIsOverStep, RowIsOwedStep DEF RunInv
<1>2. CASE UNCHANGED runVars
  <2>1. Run!TypeOK'
    BY <1>2 DEF runVars, RunInv, Run!TypeOK
  <2>2. (CancelFoundRun /\ OneEngine /\ EngineHasEvent)'
    BY <1>2 DEF runVars, RunInv, CancelFoundRun, OneEngine, EngineHasEvent, Run!Alive
  <2>3. (CancelReachesEngine /\ DeletedIsOver /\ RowIsOwed)'
    BY <1>2 DEF runVars, RunInv, CancelReachesEngine, CancelUnderWay, DeletedIsOver,
       RowIsOwed,
       Run!DrivenHasRow
  <2> QED  BY <2>1, <2>2, <2>3 DEF RunInv
<1> QED  BY <1>1, <1>2

LEMMA LiveKept ==
    ASSUME LiveInv, [Live!Next]_liveVars
    PROVE  LiveInv'
<1>1. CASE Live!Next
  BY <1>1, LiveType, NewestStreamStep, EndsStayStep, NothingElseStep DEF LiveInv
<1>2. CASE UNCHANGED liveVars
  BY <1>2 DEF liveVars, LiveInv, Live!TypeOK, NewestStream, EndsStay, NothingElse, InSight
<1> QED  BY <1>1, <1>2

(* The invariant.  The live view is there in its own behaviours only.        *)
IInv == CompatInv /\ (mode = "live" => LiveInv)

LEMMA Initially ==
    ASSUME Init
    PROVE  IInv /\ RunInv
<1>1. CompatInv
  <2>1. Compat!Init
    BY DEF Init
  <2>2. Compat!TypeOK
    <3>1. crashes \in 0 .. MaxCrashes
      BY <2>1, BoundsAssumption DEF Compat!Init
    <3> QED  BY <2>1, <3>1 DEF Compat!Init, Compat!TypeOK, Compat!Statuses,
                Compat!Terminal
  <2>3. CellsTold /\ CancelReachesCells
    BY <2>1 DEF Compat!Init, CellsTold, CancelReachesCells, AtWork, Leasing, Outliving
  <2>4. DeletedRests /\ WorkIsLeased /\ RunInOrder
    BY <2>1 DEF Compat!Init, DeletedRests, WorkIsLeased, RunInOrder, Orderly, AtWork, Leasing,
       Past, Compat!GivenUp
  <2> QED  BY <2>2, <2>3, <2>4 DEF CompatInv
<1>2. RunInv
  <2>1. Run!TypeOK
    BY BoundsAssumption DEF Init, Run!Init, Run!TypeOK
  <2>2. CancelFoundRun /\ OneEngine /\ EngineHasEvent
    BY DEF Init, Run!Init, CancelFoundRun, OneEngine, EngineHasEvent, Run!Alive,
       Run!Gens, Owning
  <2>3. inspection = Run!NoRow
    BY DEF Init, Run!Init
  <2>4. CancelReachesEngine /\ DeletedIsOver /\ RowIsOwed
    BY <2>3 DEF Init, Run!Init, CancelReachesEngine, DeletedIsOver, RowIsOwed,
       Run!DrivenHasRow,
       Run!Gens, Late
  <2> QED  BY <2>1, <2>2, <2>4 DEF RunInv
<1>3. ASSUME mode = "live" PROVE LiveInv
  <2>1. Live!Init
    BY <1>3 DEF Init
  <2>2. Live!TypeOK
    BY <2>1, SnapshotTypes, BoundsAssumption
       DEF Live!Init, Live!TypeOK, Chans, Pubs, LiveStatuses, Live!Terminal
  <2>3. /\ chan = Live!NoChannel /\ \A p \in Live!Publishers : pub[p] = Live!NoPublication
        /\ \A v \in Viewers : slot[v] = Live!Nothing /\ shown[v] = Live!Nothing
        /\ streams = 0
    BY <2>1 DEF Live!Init
  <2>4. \A s \in InSight : s = Live!Nothing
    BY <2>3 DEF InSight, Live!NoChannel, Live!NoPublication
  <2>5. Live!Nothing.stream = 0
    BY DEF Live!Nothing
  <2>6. NewestStream
    BY <2>3, <2>4, <2>5, BoundsAssumption DEF NewestStream
  <2>7. EndsStay /\ NothingElse
    BY <2>3, <2>4, <2>5 DEF EndsStay, NothingElse
  <2> QED  BY <2>2, <2>6, <2>7 DEF LiveInv
<1> QED  BY <1>1, <1>2, <1>3 DEF IInv

(* One of the three takes a step, and the others rest.                       *)
LEMMA OneSteps ==
    ASSUME [Next]_vars
    PROVE  /\ mode' = mode /\ [Compat!Next]_compatVars /\ [Run!Next]_runVars
           /\ mode = "live" => [Live!Next]_liveVars
           /\ mode # "live" => UNCHANGED liveVars
BY DEF Next, vars, compatVars, runVars, liveVars

LEMMA Inductive ==
    ASSUME IInv, [Next]_vars
    PROVE  IInv'
BY OneSteps, CompatKept, LiveKept DEF IInv

LEMMA RunInductive ==
    ASSUME RunInv, ~Reuse, [Next]_vars
    PROVE  RunInv'
BY OneSteps, RunKept

LEMMA Invariance == Spec => []IInv
<1>1. Init => IInv
  BY Initially
<1>2. IInv /\ [Next]_vars => IInv'
  BY Inductive
<1> QED  BY <1>1, <1>2, PTL DEF Spec

LEMMA RunInvariance == ~Reuse => (Spec => []RunInv)
<1> SUFFICES ASSUME ~Reuse PROVE Spec => []RunInv
  OBVIOUS
<1>1. Init => RunInv
  BY Initially
<1>2. RunInv /\ [Next]_vars => RunInv'
  BY RunInductive
<1> QED  BY <1>1, <1>2, PTL DEF Spec

(* What was cancelled does not run again: neither a compatibility run whose thread *)
(* has not given up nor any cell goes back from ABORTED, however the cancel races *)
(* with the start of the cells, their ends, the summaries, a deletion and a       *)
(* restart.                                                                     *)
THEOREM CancelledStaysSo == Spec => NoResurrection
<1>1. ASSUME CompatInv, [Compat!Next]_compatVars
      PROVE  [/\ compat = "ABORTED" /\ ~Compat!GivenUp => compat' # "RUNNING"
              /\ \A c \in Cells : cell[c] = "ABORTED" => cell'[c] = "ABORTED"]_compatVars
  <2> SUFFICES ASSUME Compat!Next
               PROVE  /\ compat = "ABORTED" /\ ~Compat!GivenUp => compat' # "RUNNING"
                      /\ \A c \in Cells : cell[c] = "ABORTED" => cell'[c] = "ABORTED"
    BY <1>1
  <2> DEFINE P == /\ compat = "ABORTED" /\ ~Compat!GivenUp => compat' # "RUNNING"
                  /\ \A c \in Cells : cell[c] = "ABORTED" => cell'[c] = "ABORTED"
  <2>1. ASSUME NEW c \in Cells, Compat!StartCell(c)
       PROVE  P
    BY <1>1, <2>1 DEF Compat!StartCell, Compat!Moves, Compat!LoopRuns, Compat!Stays,
       CompatInv, CellsTold, AtWork, DeletedRests, RunInOrder, Compat!TypeOK
  <2>2. ASSUME NEW c \in Cells, Compat!Lease(c) \/ Compat!LeaseFails(c)
       PROVE  P
    BY <1>1, <2>2 DEF Compat!Lease, Compat!LeaseFails, Compat!Moves, Compat!LoopRuns,
       Compat!CellEnds, Compat!Resumed, CompatInv, CellsTold, AtWork, DeletedRests,
       RunInOrder, Compat!TypeOK
  <2>3. ASSUME NEW c \in Cells,
               Compat!Register(c) \/ Compat!Look(c) \/ Compat!Work(c) \/ Compat!WorkAborted(c)
       PROVE  P
    BY <1>1, <2>3 DEF Compat!Register, Compat!Look, Compat!Work, Compat!WorkAborted,
       Compat!Moves, Compat!LoopRuns, Compat!CellEnds, Compat!Cancelled, CompatInv,
       CellsTold, AtWork, DeletedRests, RunInOrder, Compat!TypeOK
  <2>4. ASSUME NEW c \in Cells, Compat!Unregister(c) \/ Compat!Release(c)
       PROVE  P
    BY <1>1, <2>4 DEF Compat!Unregister, Compat!Release, Compat!Moves, Compat!LoopRuns,
       Compat!Released, CompatInv, CellsTold, AtWork, DeletedRests, RunInOrder,
       Compat!TypeOK
  <2>5. ASSUME NEW c \in Cells,
               Compat!CellSummed(c) \/ Compat!SummaryWrites(c) \/ Compat!CellSummaryFails(c)
       PROVE  P
    BY <1>1, <2>5 DEF Compat!CellSummed, Compat!SummaryWrites, Compat!CellSummaryFails,
       Compat!Moves, Compat!LoopRuns, Compat!SummaryReads, CompatInv, CellsTold, AtWork,
       DeletedRests, RunInOrder, Compat!TypeOK
  <2>6. ASSUME NEW c \in Cells,
               Compat!AcquiredForNobody(c) \/ Compat!Returned(c) \/ Compat!WorkedOn(c)
       PROVE  P
    BY <1>1, <2>6 DEF Compat!AcquiredForNobody, Compat!Returned, Compat!WorkedOn,
       Compat!Released, CompatInv, CellsTold, AtWork, DeletedRests, RunInOrder,
       Compat!TypeOK
  <2>7. ASSUME NEW c \in Cells, Compat!Collected(c)
       PROVE  P
    BY <1>1, <2>7 DEF Compat!Collected, Compat!Released, Compat!SummaryReads, CompatInv,
       CellsTold, AtWork, DeletedRests, RunInOrder, Compat!TypeOK
  <2>8. CASE Compat!Begin \/ Compat!Gathered
    BY <1>1, <2>8 DEF Compat!Begin, Compat!Gathered, CompatInv, CellsTold, AtWork,
       DeletedRests, RunInOrder, Compat!TypeOK
  <2>9. CASE Compat!FinalRead \/ Compat!FinalWrite
    BY <1>1, <2>9 DEF Compat!FinalRead, Compat!FinalWrite, Compat!Summary, CompatInv,
       CellsTold, AtWork, DeletedRests, RunInOrder, Compat!TypeOK
  <2>10. CASE Compat!Failed
    BY <1>1, <2>10 DEF Compat!Failed, Compat!Busy, CompatInv, CellsTold, AtWork,
       DeletedRests, RunInOrder, Compat!TypeOK
  <2>11. CASE Compat!CloseLoop
    BY <1>1, <2>11 DEF Compat!CloseLoop, Compat!Busy, Compat!LeftBehind, CompatInv,
       CellsTold, AtWork, DeletedRests, RunInOrder, Compat!TypeOK
  <2>12. CASE Compat!CancelLook \/ Compat!Unlock
    BY <1>1, <2>12 DEF Compat!CancelLook, Compat!Unlock, CompatInv, CellsTold, AtWork,
       DeletedRests, RunInOrder, Compat!TypeOK
  <2>13. CASE Compat!CancelStore
    BY <1>1, <2>13 DEF Compat!CancelStore, CompatInv, CellsTold, AtWork, DeletedRests,
       RunInOrder, Compat!TypeOK
  <2>14. CASE Compat!DeleteLook \/ Compat!DeleteCommit
    BY <1>1, <2>14 DEF Compat!DeleteLook, Compat!DeleteCommit, Compat!Deletable,
       CompatInv, CellsTold, AtWork, DeletedRests, RunInOrder, Compat!TypeOK
  <2>15. CASE Compat!Crash
    BY <1>1, <2>15 DEF Compat!Crash, CompatInv, CellsTold, AtWork, DeletedRests,
       RunInOrder, Compat!TypeOK
  <2> QED  BY <2>1, <2>2, <2>3, <2>4, <2>5, <2>6, <2>7, <2>8, <2>9, <2>10, <2>11,
               <2>12, <2>13, <2>14, <2>15 DEF Compat!Next
<1>2. IInv /\ [Next]_vars =>
          [/\ compat = "ABORTED" /\ ~Compat!GivenUp => compat' # "RUNNING"
           /\ \A c \in Cells : cell[c] = "ABORTED" => cell'[c] = "ABORTED"]_Compat!vars
  BY <1>1, OneSteps DEF IInv, Compat!vars, compatVars
<1> QED  BY <1>2, Invariance, PTL DEF Spec, NoResurrection, Compat!NoResurrection

(* What a page shows of a run never goes back, for any number of viewers, streams *)
(* and publications.                                                         *)
THEOREM PagesOnlyGoOn == Spec => PageNeverGoesBack
<1>1. IInv /\ [Next]_vars =>
          [\A v \in Viewers :
               shown'[v] # Live!Nothing =>
                 \/ shown'[v].stream > shown[v].stream
                 \/ /\ shown'[v].stream = shown[v].stream /\ shown'[v].rev >= shown[v].rev
                    /\ shown[v].terminal => shown'[v].terminal]_Live!vars
  BY OneSteps, PageStep DEF IInv, Live!vars, liveVars
<1> QED  BY <1>1, Invariance, PTL DEF Spec, PageNeverGoesBack, Live!PageNeverGoesBack

(* Runs that are over, inspections and compatibility runs alike, have their rows *)
(* settled, provided that no id is given again while its former run is at work. *)
THEOREM RunsAreSettled == ~Reuse => (Spec => []RunsSettle)
<1> SUFFICES ASSUME ~Reuse PROVE Spec => []RunsSettle
  OBVIOUS
<1>1. RunInv => Run!RowsOfRunsSettle
  <2> SUFFICES ASSUME RunInv, runCrashes = 0, creator = "idle", inspection # Run!NoRow,
                      \A g \in Run!Gens : ~Run!Alive(g)
               PROVE  inspection.status \in Run!Terminal /\ inspection.branches = "ended"
    BY DEF Run!RowsOfRunsSettle
  <2>1. created \in Run!Gens
    BY DEF RunInv, RowIsOwed, Run!TypeOK, Run!Gens
  <2>2. engine[created] = "done"
    BY <2>1 DEF RunInv, RowIsOwed, Run!Alive
  <2> QED  BY <2>2 DEF RunInv, RowIsOwed
<1>2. CompatInv => Compat!RunLeavesNothing
  BY DEF CompatInv, Compat!RunLeavesNothing, Compat!TypeOK, Compat!Statuses,
     Compat!Terminal, Compat!GivenUp, RunInOrder, Orderly, Past, Leasing, CellsTold
<1>3. IInv /\ RunInv => RunsSettle
  BY <1>1, <1>2 DEF IInv, RunsSettle, RunInv, LiveInv, CompatInv
<1> QED  BY <1>3, Invariance, RunInvariance, PTL

(* No device is driven for an inspection that was deleted.  Who drives a device for *)
(* a compatibility run has it leased, and drives for no deleted run, but for the    *)
(* threads that a run left behind when it failed.                                  *)
THEOREM DeletedRunsRest == ~Reuse => (Spec => []DeletedIsNotDriven)
<1> SUFFICES ASSUME ~Reuse PROVE Spec => []DeletedIsNotDriven
  OBVIOUS
<1>1. CompatInv => Compat!DeletedRunRests
  BY DEF CompatInv, DeletedRests, WorkIsLeased, CellsTold, AtWork, Outliving,
     Compat!GivenUp, Compat!DeletedRunRests
<1>2. IInv /\ RunInv => DeletedIsNotDriven
  BY <1>1 DEF IInv, RunInv, DeletedIsOver, DeletedIsNotDriven
<1> QED  BY <1>2, Invariance, RunInvariance, PTL

=============================================================================
