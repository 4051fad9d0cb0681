------------------------------ MODULE MCServices ------------------------------
(***************************************************************************)
(* Inspection and compatibility runs, one behaviour each (mode): the live view *)
(* of an inspection run, the life of inspection runs with one id, and a        *)
(* compatibility run.  Whoever has not the turn rests.                           *)
(***************************************************************************)
EXTENDS Naturals, FiniteSets

CONSTANTS Viewers, Cancels, Cells,
          MaxNews, MaxStreams, MaxRuns, MaxCrashes,
          MayFail,
          Reuse     \* an id may be given again while its former run is still at work

ASSUME BoundsAssumption ==
    MaxNews \in Nat /\ MaxStreams \in Nat \ {0} /\ MaxRuns \in Nat \ {0} /\ MaxCrashes \in Nat

VARIABLES
  mode,
  liveRow, worker, news, chan, pub, canceller, saw, page, slot, shown, streams, runs,
  liveCrashes,
  inspection, created, engine, event, final, runTable, runSet, events, holder, runDevice,
  runCancel, runDeleter, creator, runCrashes, inTime,
  compat, cell, task, back, result, table, set, leased, onDevice, cancel, deleter, crashes

Live == INSTANCE InspectionLive WITH row <- liveRow, crashes <- liveCrashes
Run == INSTANCE InspectionRun WITH
  EarlyReuse <- Reuse, row <- inspection, table <- runTable, set <- runSet,
  onDevice <- runDevice, cancel <- runCancel, deleter <- runDeleter, crashes <- runCrashes
Compat == INSTANCE CompatRun WITH row <- compat

liveVars == <<liveRow, worker, news, chan, pub, canceller, saw, page, slot, shown, streams,
              runs, liveCrashes>>
runVars == <<inspection, created, engine, event, final, runTable, runSet, events, holder,
             runDevice, runCancel, runDeleter, creator, runCrashes, inTime>>
compatVars == <<compat, cell, task, back, result, table, set, leased, onDevice, cancel,
                deleter, crashes>>
vars == <<mode, liveVars, runVars, compatVars>>

\* The live view rests when there is no run; the others wait for a first step.
LiveRests ==
    /\ liveRow = "none" /\ worker = "none" /\ news = 0 /\ chan = Live!NoChannel
    /\ pub = [p \in Live!Publishers |-> Live!NoPublication] /\ canceller = "done"
    /\ saw = [v \in Viewers |-> "none"] /\ page = [v \in Viewers |-> "off"]
    /\ slot = [v \in Viewers |-> Live!Nothing] /\ shown = [v \in Viewers |-> Live!Nothing]
    /\ streams = 0 /\ runs = MaxRuns /\ liveCrashes = 0

Init ==
    /\ mode \in {"live", "run", "compat"} /\ Run!Init /\ Compat!Init
    /\ IF mode = "live" THEN Live!Init ELSE LiveRests

Next ==
    \/ mode = "live" /\ Live!Next /\ UNCHANGED <<mode, runVars, compatVars>>
    \/ mode = "run" /\ Run!Next /\ UNCHANGED <<mode, liveVars, compatVars>>
    \/ mode = "compat" /\ Compat!Next /\ UNCHANGED <<mode, liveVars, runVars>>

Spec == Init /\ [][Next]_vars /\ Live!Fairness /\ Run!Fairness

-----------------------------------------------------------------------------
(* What an inspection or compatibility run leaves behind, and the types.         *)
RunsSettle ==
    /\ mode = "live" => Live!TypeOK
    /\ mode = "run" => Run!TypeOK /\ Run!RowsOfRunsSettle
    /\ mode = "compat" => Compat!TypeOK /\ Compat!RunLeavesNothing

(* No device is driven for a run that was deleted, but by a thread that a       *)
(* compatibility run left behind when it gave up, and that one has its device   *)
(* leased.                                                                      *)
DeletedIsNotDriven == Run!DrivenHasRow /\ Compat!DeletedRunRests

(* InspectionLive: what a page shows of a run never goes back.                   *)
PageNeverGoesBack == Live!PageNeverGoesBack

(* InspectionLive: a page that stays learns that the run is over.                *)
EveryPageLearnsTheEnd == Live!EveryPageLearnsTheEnd

(* InspectionRun: a run that was cancelled in time ends, and not as passed.       *)
CancelIsHeard == Run!CancelIsHeard

(* CompatRun: what was cancelled does not run again.                             *)
NoResurrection == Compat!NoResurrection
=============================================================================
