--------------------------- MODULE RunControlProofs ---------------------------
(*****************************************************************************)
(* Proofs about RunControl, for any sets of case, scenario and WebSocket runs *)
(* and any devices.  IInv says, for every place a run can be at, what is then *)
(* true of its slot, of its registry records, of its row and of its event; a *)
(* property follows from the clause about the state it names.  One lemma per *)
(* action shows that IInv outlives it.  Occupied, which the cancel by device *)
(* needs, is inductive only where no two kinds of runs share a device: the   *)
(* handler of a case run and the WebSocket run write the device's event      *)
(* without holding the device's slot.  Where kinds are there but only        *)
(* executions of scenarios were asked for, Decided shows that the others stay *)
(* away: whoever is on its way out has an outcome.                           *)
(*****************************************************************************)
EXTENDS MCRunControl, FiniteSetTheorems, TLAPS

-----------------------------------------------------------------------------
(* The inductive invariant.                                                  *)

(* The places of each kind of run.                                           *)
CasePlaces ==
    {"idle", "enqueued", "recorded", "waiting", "granted", "promoted", "installing", "ready",
     "running", "reporting", "unregistering", "unlisting", "releasing", "closing", "closed",
     "undoing", "done", "lost"}
ScenarioPlaces ==
    {"idle", "created", "enqueued", "checking", "waiting", "granted", "ready", "starting",
     "preparing", "running", "reporting", "unregistering", "unlisting", "releasing", "closing",
     "closed", "done"}
StreamPlaces ==
    {"idle", "recorded", "ready", "running", "reporting", "finalizing", "unregistering",
     "unlisting", "done"}

(* A run is at a place of its kind, and one that reports has an outcome.     *)
Places ==
    /\ \A r \in CaseRuns : pc[r] \in CasePlaces
    /\ \A r \in ScenarioRuns : pc[r] \in ScenarioPlaces
    /\ \A r \in Streams : pc[r] \in StreamPlaces
    /\ \A r \in Runs : pc[r] \in {"reporting", "closing", "closed"} => outcome[r] # "none"

(* Where a run asks for its slot, and where it has it.                       *)
Queueing == {"enqueued", "recorded", "checking", "waiting"}
Holding ==
    {"granted", "promoted", "installing", "ready", "starting", "preparing", "running",
     "reporting", "unregistering", "releasing", "lost"}

(* The slot of a run follows its place; no two holders share a device.       *)
SlotsHeld ==
    /\ \A r \in QueuedRuns :
          /\ pc[r] \notin Queueing => pending[r] = 0
          /\ pc[r] \in Holding \/ (pc[r] \in Queueing /\ r \notin queued) => r \in holders
          /\ pc[r] \notin Holding \cup Queueing \cup {"unlisting"} => r \notin holders
          /\ r \in holders => pending[r] = 0
    /\ \A r, q \in holders : DeviceOf[r] = DeviceOf[q] => r = q

(* The records a run has in the registry follow its place.  A run that may be *)
(* driving is not listed as QUEUED.                                          *)
RunListed(r) ==
    pc[r] \in IF r \in ScenarioRuns THEN {"running", "reporting", "unregistering", "unlisting"}
              ELSE (CasePlaces \cup StreamPlaces) \ {"idle", "enqueued", "releasing", "done"}
QueueListed(r) == r \in ScenarioRuns /\ pc[r] \in {"waiting", "granted", "closing", "closed"}

Listing ==
    /\ \A r \in Runs : /\ <<r, "run">> \in listed <=> RunListed(r)
                       /\ <<r, "queue">> \in listed <=> QueueListed(r)
    /\ \A r \in Runs :
          pc[r] \in {"promoted", "installing", "running"}
              \/ (r \notin ScenarioRuns /\ pc[r] = "ready")
              \/ (pc[r] = "recorded" /\ r \notin queued)
          => recordStatus[<<r, "run">>] # "QUEUED"

(* A row that says QUEUED or RUNNING has a run that is still to write it: the *)
(* run of the scenario itself, or one of the runs that share the case's row. *)
CaseOwes ==
    {"waiting", "granted", "promoted", "installing", "ready", "running", "reporting", "closing",
     "lost"}
ScenarioOwes ==
    {"created", "enqueued", "checking", "waiting", "granted", "ready", "starting", "preparing",
     "running", "reporting", "closing"}
StreamOwes == {"ready", "running", "reporting", "finalizing"}

RowsOwed ==
    /\ \A r \in ScenarioRuns : row[r] \in ActiveStatuses => pc[r] \in ScenarioOwes
    /\ row[TheCase] \in ActiveStatuses =>
          \/ \E r \in CaseRuns : pc[r] \in CaseOwes
          \/ row[TheCase] = "RUNNING" /\ \E r \in Streams : pc[r] \in StreamOwes

(* A cancelled case or WebSocket run has its event set and did not end as if *)
(* nobody had cancelled it; the canceller has no second record of it to visit. *)
CancelHeard ==
    /\ \A r \in Runs \ ScenarioRuns : <<r, "queue">> \notin canceller.todo
    /\ \A r \in wanted \ ScenarioRuns : <<r, "run">> \in signalled /\ outcome[r] # "ENDED"

IInv == TypeOK /\ Places /\ SlotsHeld /\ Listing /\ RowsOwed /\ CancelHeard

-----------------------------------------------------------------------------
(* The device's event.                                                       *)

(* All runs are scenario executions, or all are case runs whose handlers do not *)
(* fail with the database.                                                   *)
OneKind == Streams = {} /\ (CaseRuns = {} \/ (ScenarioRuns = {} /\ "dbfault" \notin Happenings))

(* Who drives, and a case run that is about to, is the one whose event the   *)
(* device has; a handler that takes its own event back finds nobody driving. *)
Occupied ==
    /\ \A r \in Runs : pc[r] = "running" => deviceEvent[DeviceOf[r]] = r
    /\ \A r \in CaseRuns :
          /\ row[TheCase] # "GONE" /\ (pc[r] = "ready" \/ (pc[r] = "recorded" /\ r \notin queued))
             => deviceEvent[DeviceOf[r]] = r
          /\ pc[r] = "undoing" =>
                /\ row[TheCase] = "GONE"
                /\ \A q \in Runs : DeviceOf[q] = DeviceOf[r] => pc[q] # "running"


-----------------------------------------------------------------------------
(* Facts about kinds of runs and about slots.                                *)

LEMMA KindFacts ==
    /\ \A r \in Runs : \/ r \in CaseRuns /\ r \notin ScenarioRuns /\ r \notin Streams
                       \/ r \notin CaseRuns /\ r \in ScenarioRuns /\ r \notin Streams
                       \/ r \notin CaseRuns /\ r \notin ScenarioRuns /\ r \in Streams
    /\ TheCase \notin Runs
BY RunAssumption DEF Runs, QueuedRuns

(* A top-up grants pending requests only, and never two for one device.      *)
LEMMA TopUpFacts ==
    ASSUME NEW p \in [QueuedRuns -> Nat], NEW h \in SUBSET QueuedRuns, Slots!TopUp(p, h)
    PROVE  /\ pending' \in [QueuedRuns -> Nat] /\ holders' \in SUBSET QueuedRuns
           /\ \A q \in QueuedRuns :
                 /\ q \in h => q \in holders'
                 /\ q \in holders' => q \in h \/ p[q] > 0
                 /\ q \in holders' /\ q \notin h => pending'[q] = 0
                 /\ pending'[q] = 0 \/ pending'[q] = p[q]
           /\ \A r, q \in holders' : DeviceOf[r] = DeviceOf[q] => r = q
<1>1. PICK granted \in SUBSET Slots!Pending(p) :
        /\ Slots!LimitsRespected(h \cup granted)
        /\ holders' = h \cup granted
        /\ pending' = [w \in QueuedRuns |-> IF w \in granted THEN 0 ELSE p[w]]
  BY DEF Slots!TopUp
<1>2. \A q \in granted : q \in QueuedRuns /\ p[q] > 0
  BY DEF Slots!Pending
<1>3. ASSUME NEW r \in holders', NEW q \in holders', r # q
      PROVE  DeviceOf[r] # DeviceOf[q]
  <2>1. r \in QueuedRuns /\ q \in QueuedRuns
    BY <1>1, <1>2
  <2>2. DeviceOf[r] # NoDevice
    BY <2>1, RunAssumption DEF Runs
  <2>3. Demand[r].device = DeviceOf[r] /\ Demand[q].device = DeviceOf[q]
    BY <2>1 DEF Demand
  <2> QED  BY <1>1, <1>3, <2>2, <2>3 DEF Slots!LimitsRespected
<1> QED  BY <1>1, <1>2, <1>3

LEMMA SameCardinality == \A S : Slots!Cardinality(S) = Cardinality(S)
BY DEF Slots!Cardinality, Cardinality, Slots!IsFiniteSet, IsFiniteSet

(* Whatever is done with the request of a run: others keep their slots, and only *)
(* who is pending gets one.                                                  *)
LEMMA SlotFacts ==
    ASSUME TypeOK, SlotsHeld, NEW r \in QueuedRuns,
           Slots!Request(r) \/ Slots!Withdraw(r) \/ Slots!GiveBack(r)
    PROVE  /\ pending' \in [QueuedRuns -> Nat] /\ holders' \in SUBSET QueuedRuns
           /\ \A q \in QueuedRuns \ {r} :
                 /\ q \in holders => q \in holders'
                 /\ q \in holders' => q \in holders \/ pending[q] > 0
                 /\ pending[q] = 0 => pending'[q] = 0
           /\ \A q \in holders' : pending'[q] = 0
           /\ \A s, q \in holders' : DeviceOf[s] = DeviceOf[q] => s = q
           /\ ~Slots!Request(r) => r \notin holders' /\ pending'[r] = 0
<1> USE DEF TypeOK
<1>1. \A q \in holders : pending[q] = 0
  BY DEF SlotsHeld
<1>2. CASE Slots!Request(r)
  <2>1. PICK n \in 1 .. Cardinality(QueuedRuns) :
          Slots!TopUp([pending EXCEPT ![r] = n], holders)
    BY <1>2, SameCardinality DEF Slots!Request
  <2>2. n \in Nat
    BY <2>1, RunAssumption, FS_CardinalityType
  <2> DEFINE p == [pending EXCEPT ![r] = n]
  <2>3. r \notin holders
    BY <1>2 DEF Slots!Request
  <2>4. p \in [QueuedRuns -> Nat] /\ \A q \in QueuedRuns \ {r} : p[q] = pending[q]
    BY <2>2
  <2> HIDE DEF p
  <2>5. Slots!TopUp(p, holders)
    BY <2>1 DEF p
  <2>6. /\ pending' \in [QueuedRuns -> Nat] /\ holders' \in SUBSET QueuedRuns
        /\ \A q \in QueuedRuns :
              /\ q \in holders => q \in holders'
              /\ q \in holders' => q \in holders \/ p[q] > 0
              /\ q \in holders' /\ q \notin holders => pending'[q] = 0
              /\ pending'[q] = 0 \/ pending'[q] = p[q]
        /\ \A s, q \in holders' : DeviceOf[s] = DeviceOf[q] => s = q
    BY <2>4, <2>5, TopUpFacts
  <2> QED  BY <1>1, <1>2, <2>3, <2>4, <2>6
<1>3. CASE Slots!Withdraw(r) /\ ~Slots!Request(r)
  <2>1. pending' = [pending EXCEPT ![r] = 0] /\ holders' = holders /\ pending[r] > 0
    BY <1>3 DEF Slots!Withdraw, Slots!Pending
  <2> QED  BY <1>1, <1>3, <2>1 DEF SlotsHeld
<1>4. CASE Slots!GiveBack(r) /\ ~Slots!Request(r)
  <2>1. r \in holders /\ Slots!TopUp(pending, holders \ {r})
    BY <1>4 DEF Slots!GiveBack
  <2> QED  BY <1>1, <1>4, <2>1, TopUpFacts
<1> QED  BY <1>2, <1>3, <1>4

-----------------------------------------------------------------------------
(* Steps.  Each lemma shows that IInv outlives an action.                    *)

LEMMA CreateRowStep ==
    ASSUME IInv, NEW r \in Runs, CreateRow(r)
    PROVE  IInv'
<1> USE DEF IInv
<1>1. /\ r \in ScenarioRuns
      /\ pc[r] = "idle"
      /\ row' = [row EXCEPT ![RowOf(r)] = IF @ = "GONE" THEN @ ELSE "PENDING"]
      /\ pc' = [pc EXCEPT ![r] = "created"]
      /\ UNCHANGED <<queued, outcome, listed, recordStatus, signalled, deviceEvent,
                     pending, holders, canceller, cancels, unlocker, wanted>>
  BY DEF CreateRow, Goto, registryVars, slotVars, cancelVars, WriteRow
<1>2. \A q \in Runs : pc'[q] = IF q = r THEN "created" ELSE pc[q]
  BY <1>1 DEF TypeOK
<1>3. TypeOK'
  BY <1>1, <1>2 DEF TypeOK, PCs, ActiveStatuses, Outcomes, Rows, RowOf
<1>4. Places'
  BY <1>1, <1>2, KindFacts DEF Places, CasePlaces, ScenarioPlaces, StreamPlaces
<1>5. SlotsHeld'
  BY <1>1, <1>2, KindFacts DEF SlotsHeld, Queueing, Holding, TypeOK, Runs, QueuedRuns
<1>6. Listing'
  BY <1>1, <1>2, KindFacts DEF Listing, RunListed, QueueListed, CasePlaces, StreamPlaces
<1>7. RowsOwed'
  BY <1>1, <1>2, KindFacts DEF RowsOwed, RowOf, TypeOK, Rows, ActiveStatuses, Outcomes,
     CaseOwes, ScenarioOwes, StreamOwes, Runs, QueuedRuns
<1>8. CancelHeard'
  BY <1>1, <1>2, KindFacts DEF CancelHeard
<1> QED  BY <1>3, <1>4, <1>5, <1>6, <1>7, <1>8

LEMMA UndoEventStep ==
    ASSUME IInv, NEW r \in Runs, UndoEvent(r)
    PROVE  IInv'
<1> USE DEF IInv
<1>1. /\ pc[r] = "undoing"
      /\ deviceEvent' = [deviceEvent EXCEPT ![DeviceOf[r]] = NoRun]
      /\ pc' = [pc EXCEPT ![r] = "unlisting"]
      /\ UNCHANGED <<queued, outcome, row, listed, recordStatus, signalled, pending,
                     holders, canceller, cancels, unlocker, wanted>>
  BY DEF UndoEvent, Goto, registryVars, slotVars, cancelVars, UnregisterEvent
<1>2. \A q \in Runs : pc'[q] = IF q = r THEN "unlisting" ELSE pc[q]
  BY <1>1 DEF TypeOK
<1>3. r \in CaseRuns
  BY <1>1, KindFacts DEF Places, ScenarioPlaces, StreamPlaces
<1>4. TypeOK'
  BY <1>1, <1>2, <1>3, RunAssumption DEF TypeOK, PCs
<1>5. Places'
  BY <1>1, <1>2, <1>3, KindFacts DEF Places, CasePlaces, ScenarioPlaces, StreamPlaces
<1>6. SlotsHeld'
  BY <1>1, <1>2, <1>3, KindFacts DEF SlotsHeld, Queueing, Holding, TypeOK, Runs,
     QueuedRuns
<1>7. Listing'
  BY <1>1, <1>2, <1>3, KindFacts DEF Listing, RunListed, QueueListed, CasePlaces,
     StreamPlaces
<1>8. RowsOwed'
  BY <1>1, <1>2, <1>3, KindFacts DEF RowsOwed, RowOf, TypeOK, Rows, ActiveStatuses,
     Outcomes, CaseOwes, ScenarioOwes, StreamOwes, Runs, QueuedRuns
<1>9. CancelHeard'
  BY <1>1, <1>2, <1>3, KindFacts DEF CancelHeard
<1> QED  BY <1>4, <1>5, <1>6, <1>7, <1>8, <1>9

LEMMA GrantedStep ==
    ASSUME IInv, NEW r \in Runs, Granted(r)
    PROVE  IInv'
<1> USE DEF IInv
<1>1. /\ pc[r] = "waiting"
      /\ r \in holders
      /\ pc' = [pc EXCEPT ![r] = "granted"]
      /\ UNCHANGED <<queued, outcome, row, listed, recordStatus, signalled, deviceEvent,
                     pending, holders, canceller, cancels, unlocker, wanted>>
  BY DEF Granted, Goto, registryVars, slotVars, cancelVars
<1>2. \A q \in Runs : pc'[q] = IF q = r THEN "granted" ELSE pc[q]
  BY <1>1 DEF TypeOK
<1>3. TypeOK'
  BY <1>1, <1>2, KindFacts DEF TypeOK, PCs
<1>4. Places'
  BY <1>1, <1>2, KindFacts DEF Places, CasePlaces, ScenarioPlaces, StreamPlaces
<1>5. SlotsHeld'
  BY <1>1, <1>2, KindFacts DEF SlotsHeld, Queueing, Holding, TypeOK, Runs, QueuedRuns
<1>6. Listing'
  BY <1>1, <1>2, KindFacts DEF Listing, RunListed, QueueListed, CasePlaces, StreamPlaces
<1>7. RowsOwed'
  BY <1>1, <1>2, KindFacts DEF RowsOwed, RowOf, TypeOK, Rows, ActiveStatuses, Outcomes,
     CaseOwes, ScenarioOwes, StreamOwes, Runs, QueuedRuns
<1>8. CancelHeard'
  BY <1>1, <1>2, KindFacts DEF CancelHeard
<1> QED  BY <1>3, <1>4, <1>5, <1>6, <1>7, <1>8

LEMMA CloseRowStep ==
    ASSUME IInv, NEW r \in Runs, CloseRow(r)
    PROVE  IInv'
<1> USE DEF IInv
<1>1. /\ pc[r] = "closing"
      /\ row' = [row EXCEPT ![RowOf(r)] = IF @ = "GONE" THEN @ ELSE outcome[r]]
      /\ pc' = [pc EXCEPT ![r] = "closed"]
      /\ UNCHANGED <<queued, outcome, listed, recordStatus, signalled, deviceEvent,
                     pending, holders, canceller, cancels, unlocker, wanted>>
  BY DEF CloseRow, Goto, registryVars, slotVars, cancelVars, WriteRow
<1>2. \A q \in Runs : pc'[q] = IF q = r THEN "closed" ELSE pc[q]
  BY <1>1 DEF TypeOK
<1>3. outcome[r] \in Outcomes
  BY <1>1 DEF Places, TypeOK
<1>4. TypeOK'
  BY <1>1, <1>2, <1>3, KindFacts DEF TypeOK, PCs
<1>5. Places'
  BY <1>1, <1>2, <1>3, KindFacts DEF Places, CasePlaces, ScenarioPlaces, StreamPlaces
<1>6. SlotsHeld'
  BY <1>1, <1>2, <1>3, KindFacts DEF SlotsHeld, Queueing, Holding, TypeOK, Runs,
     QueuedRuns
<1>7. Listing'
  BY <1>1, <1>2, <1>3, KindFacts DEF Listing, RunListed, QueueListed, CasePlaces,
     StreamPlaces
<1>8. RowsOwed'
  BY <1>1, <1>2, <1>3, KindFacts DEF RowsOwed, RowOf, TypeOK, Rows, ActiveStatuses,
     Outcomes, CaseOwes, ScenarioOwes, StreamOwes, Runs, QueuedRuns
<1>9. CancelHeard'
  BY <1>1, <1>2, <1>3, KindFacts DEF CancelHeard
<1> QED  BY <1>4, <1>5, <1>6, <1>7, <1>8, <1>9

LEMMA PromoteStep ==
    ASSUME IInv, NEW r \in Runs, Promote(r)
    PROVE  IInv'
<1> USE DEF IInv
<1>1. /\ r \in CaseRuns
      /\ pc[r] = "granted"
      /\ recordStatus' = [recordStatus EXCEPT ![RunRecord(r)] =
                          IF RunRecord(r) \in listed THEN "RUNNING" ELSE @]
      /\ pc' = [pc EXCEPT ![r] = "promoted"]
      /\ UNCHANGED <<queued, outcome, row, listed, signalled, deviceEvent, pending,
                     holders, canceller, cancels, unlocker, wanted>>
  BY DEF Promote, Goto, registryVars, slotVars, cancelVars
<1>2. \A q \in Runs : pc'[q] = IF q = r THEN "promoted" ELSE pc[q]
  BY <1>1 DEF TypeOK
<1>3. <<r, "run">> \in listed
  BY <1>1, KindFacts DEF Listing, RunListed, CasePlaces
<1>4. recordStatus' = [recordStatus EXCEPT ![<<r, "run">>] = "RUNNING"]
  BY <1>1, <1>3 DEF RunRecord
<1>5. \A q \in Runs : recordStatus'[<<q, "run">>] =
                       IF q = r THEN "RUNNING" ELSE recordStatus[<<q, "run">>]
  BY <1>4 DEF TypeOK, Records
<1>6. TypeOK'
  BY <1>1, <1>2, <1>3, <1>4, <1>5 DEF TypeOK, PCs, ActiveStatuses
<1>7. Places'
  BY <1>1, <1>2, <1>3, <1>4, <1>5, KindFacts DEF Places, CasePlaces, ScenarioPlaces,
     StreamPlaces
<1>8. SlotsHeld'
  BY <1>1, <1>2, <1>3, <1>4, <1>5, KindFacts DEF SlotsHeld, Queueing, Holding, TypeOK,
     Runs, QueuedRuns
<1>9. Listing'
  BY <1>1, <1>2, <1>3, <1>4, <1>5, KindFacts DEF Listing, RunListed, QueueListed,
     CasePlaces, StreamPlaces
<1>10. RowsOwed'
  BY <1>1, <1>2, <1>3, <1>4, <1>5, KindFacts DEF RowsOwed, RowOf, TypeOK, Rows,
     ActiveStatuses, Outcomes, CaseOwes, ScenarioOwes, StreamOwes, Runs, QueuedRuns
<1>11. CancelHeard'
  BY <1>1, <1>2, <1>3, <1>4, <1>5, KindFacts DEF CancelHeard
<1> QED  BY <1>6, <1>7, <1>8, <1>9, <1>10, <1>11

LEMMA PromoteRowStep ==
    ASSUME IInv, NEW r \in Runs, PromoteRow(r)
    PROVE  IInv'
<1> USE DEF IInv
<1>1. /\ pc[r] = "promoted"
      /\ row' = [row EXCEPT ![RowOf(r)] = IF @ = "GONE" THEN @ ELSE "RUNNING"]
      /\ pc' = [pc EXCEPT ![r] = "installing"]
      /\ UNCHANGED <<queued, outcome, listed, recordStatus, signalled, deviceEvent,
                     pending, holders, canceller, cancels, unlocker, wanted>>
  BY DEF PromoteRow, Goto, registryVars, slotVars, cancelVars, WriteRow
<1>2. \A q \in Runs : pc'[q] = IF q = r THEN "installing" ELSE pc[q]
  BY <1>1 DEF TypeOK
<1>3. r \in CaseRuns
  BY <1>1, KindFacts DEF Places, ScenarioPlaces, StreamPlaces
<1>4. TypeOK'
  BY <1>1, <1>2, <1>3 DEF TypeOK, PCs, ActiveStatuses, Outcomes
<1>5. Places'
  BY <1>1, <1>2, <1>3, KindFacts DEF Places, CasePlaces, ScenarioPlaces, StreamPlaces
<1>6. SlotsHeld'
  BY <1>1, <1>2, <1>3, KindFacts DEF SlotsHeld, Queueing, Holding, TypeOK, Runs,
     QueuedRuns
<1>7. Listing'
  BY <1>1, <1>2, <1>3, KindFacts DEF Listing, RunListed, QueueListed, CasePlaces,
     StreamPlaces
<1>8. RowsOwed'
  BY <1>1, <1>2, <1>3, KindFacts DEF RowsOwed, RowOf, TypeOK, Rows, ActiveStatuses,
     Outcomes, CaseOwes, ScenarioOwes, StreamOwes, Runs, QueuedRuns
<1>9. CancelHeard'
  BY <1>1, <1>2, <1>3, KindFacts DEF CancelHeard
<1> QED  BY <1>4, <1>5, <1>6, <1>7, <1>8, <1>9

LEMMA PromoteFailsStep ==
    ASSUME IInv, NEW r \in Runs, PromoteFails(r)
    PROVE  IInv'
<1> USE DEF IInv
<1>1. /\ pc[r] = "promoted"
      /\ pc' = [pc EXCEPT ![r] = "lost"]
      /\ UNCHANGED <<queued, outcome, row, listed, recordStatus, signalled, deviceEvent,
                     pending, holders, canceller, cancels, unlocker, wanted>>
  BY DEF PromoteFails, Goto, registryVars, slotVars, cancelVars
<1>2. \A q \in Runs : pc'[q] = IF q = r THEN "lost" ELSE pc[q]
  BY <1>1 DEF TypeOK
<1>3. TypeOK'
  BY <1>1, <1>2, KindFacts DEF TypeOK, PCs
<1>4. Places'
  BY <1>1, <1>2, KindFacts DEF Places, CasePlaces, ScenarioPlaces, StreamPlaces
<1>5. SlotsHeld'
  BY <1>1, <1>2, KindFacts DEF SlotsHeld, Queueing, Holding, TypeOK, Runs, QueuedRuns
<1>6. Listing'
  BY <1>1, <1>2, KindFacts DEF Listing, RunListed, QueueListed, CasePlaces, StreamPlaces
<1>7. RowsOwed'
  BY <1>1, <1>2, KindFacts DEF RowsOwed, RowOf, TypeOK, Rows, ActiveStatuses, Outcomes,
     CaseOwes, ScenarioOwes, StreamOwes, Runs, QueuedRuns
<1>8. CancelHeard'
  BY <1>1, <1>2, KindFacts DEF CancelHeard
<1> QED  BY <1>3, <1>4, <1>5, <1>6, <1>7, <1>8

LEMMA InstallStep ==
    ASSUME IInv, NEW r \in Runs, Install(r)
    PROVE  IInv'
<1> USE DEF IInv
<1>1. /\ pc[r] = "installing"
      /\ deviceEvent' = [deviceEvent EXCEPT ![DeviceOf[r]] = r]
      /\ pc' = [pc EXCEPT ![r] = "ready"]
      /\ UNCHANGED <<queued, outcome, row, listed, recordStatus, signalled, pending,
                     holders, canceller, cancels, unlocker, wanted>>
  BY DEF Install, Goto, registryVars, slotVars, cancelVars, RegisterEvent
<1>2. \A q \in Runs : pc'[q] = IF q = r THEN "ready" ELSE pc[q]
  BY <1>1 DEF TypeOK
<1>3. TypeOK'
  BY <1>1, <1>2, KindFacts DEF TypeOK, PCs
<1>4. Places'
  BY <1>1, <1>2, KindFacts DEF Places, CasePlaces, ScenarioPlaces, StreamPlaces
<1>5. SlotsHeld'
  BY <1>1, <1>2, KindFacts DEF SlotsHeld, Queueing, Holding, TypeOK, Runs, QueuedRuns
<1>6. Listing'
  BY <1>1, <1>2, KindFacts DEF Listing, RunListed, QueueListed, CasePlaces, StreamPlaces
<1>7. RowsOwed'
  BY <1>1, <1>2, KindFacts DEF RowsOwed, RowOf, TypeOK, Rows, ActiveStatuses, Outcomes,
     CaseOwes, ScenarioOwes, StreamOwes, Runs, QueuedRuns
<1>8. CancelHeard'
  BY <1>1, <1>2, KindFacts DEF CancelHeard
<1> QED  BY <1>3, <1>4, <1>5, <1>6, <1>7, <1>8

LEMMA BeginRunStep ==
    ASSUME IInv, NEW r \in Runs, BeginRun(r)
    PROVE  IInv'
<1> USE DEF IInv
<1>1. /\ r \in CaseRuns \cup Streams
      /\ pc[r] = "ready"
      /\ pc' = [pc EXCEPT ![r] = "running"]
      /\ UNCHANGED <<queued, outcome, row, listed, recordStatus, signalled, deviceEvent,
                     pending, holders, canceller, cancels, unlocker, wanted>>
  BY DEF BeginRun, Goto, registryVars, slotVars, cancelVars
<1>2. \A q \in Runs : pc'[q] = IF q = r THEN "running" ELSE pc[q]
  BY <1>1 DEF TypeOK
<1>3. TypeOK'
  BY <1>1, <1>2, KindFacts DEF TypeOK, PCs
<1>4. Places'
  BY <1>1, <1>2, KindFacts DEF Places, CasePlaces, ScenarioPlaces, StreamPlaces
<1>5. SlotsHeld'
  BY <1>1, <1>2, KindFacts DEF SlotsHeld, Queueing, Holding, TypeOK, Runs, QueuedRuns
<1>6. Listing'
  BY <1>1, <1>2, KindFacts DEF Listing, RunListed, QueueListed, CasePlaces, StreamPlaces
<1>7. RowsOwed'
  BY <1>1, <1>2, KindFacts DEF RowsOwed, RowOf, TypeOK, Rows, ActiveStatuses, Outcomes,
     CaseOwes, ScenarioOwes, StreamOwes, Runs, QueuedRuns
<1>8. CancelHeard'
  BY <1>1, <1>2, KindFacts DEF CancelHeard
<1> QED  BY <1>3, <1>4, <1>5, <1>6, <1>7, <1>8

LEMMA CaseGoneStep ==
    ASSUME IInv, NEW r \in Runs, CaseGone(r)
    PROVE  IInv'
<1> USE DEF IInv
<1>1. /\ r \in CaseRuns
      /\ pc[r] = "ready"
      /\ row[TheCase] = "GONE"
      /\ outcome' = [outcome EXCEPT ![r] = "ERROR"]
      /\ pc' = [pc EXCEPT ![r] = "unregistering"]
      /\ UNCHANGED <<queued, row, listed, recordStatus, signalled, deviceEvent, pending,
                     holders, canceller, cancels, unlocker, wanted>>
  BY DEF CaseGone, Goto, registryVars, slotVars, cancelVars
<1>2. \A q \in Runs : pc'[q] = IF q = r THEN "unregistering" ELSE pc[q]
  BY <1>1 DEF TypeOK
<1>3. TypeOK'
  BY <1>1, <1>2 DEF TypeOK, PCs, ActiveStatuses, Outcomes
<1>4. Places'
  BY <1>1, <1>2, KindFacts DEF Places, CasePlaces, ScenarioPlaces, StreamPlaces
<1>5. SlotsHeld'
  BY <1>1, <1>2, KindFacts DEF SlotsHeld, Queueing, Holding, TypeOK, Runs, QueuedRuns
<1>6. Listing'
  BY <1>1, <1>2, KindFacts DEF Listing, RunListed, QueueListed, CasePlaces, StreamPlaces
<1>7. RowsOwed'
  BY <1>1, <1>2, KindFacts DEF RowsOwed, RowOf, TypeOK, Rows, ActiveStatuses, Outcomes,
     CaseOwes, ScenarioOwes, StreamOwes, Runs, QueuedRuns
<1>8. CancelHeard'
  BY <1>1, <1>2, KindFacts DEF CancelHeard
<1> QED  BY <1>3, <1>4, <1>5, <1>6, <1>7, <1>8

LEMMA ReadRowStep ==
    ASSUME IInv, NEW r \in Runs, ReadRow(r)
    PROVE  IInv'
<1> USE DEF IInv
<1>1. /\ r \in ScenarioRuns
      /\ pc[r] = "ready"
      /\ pc' = [pc EXCEPT ![r] = IF row[r] = "ABORTED" THEN "releasing" ELSE "starting"]
      /\ UNCHANGED <<queued, outcome, row, listed, recordStatus, signalled, deviceEvent,
                     pending, holders, canceller, cancels, unlocker, wanted>>
  BY DEF ReadRow, Goto, registryVars, slotVars, cancelVars
<1>2. \A q \in Runs : pc'[q] = IF q = r THEN IF row[r] = "ABORTED" THEN "releasing" ELSE "starting" ELSE pc[q]
  BY <1>1 DEF TypeOK
<1>3. TypeOK'
  BY <1>1, <1>2, KindFacts DEF TypeOK, PCs
<1>4. Places'
  BY <1>1, <1>2, KindFacts DEF Places, CasePlaces, ScenarioPlaces, StreamPlaces
<1>5. SlotsHeld'
  BY <1>1, <1>2, KindFacts DEF SlotsHeld, Queueing, Holding, TypeOK, Runs, QueuedRuns
<1>6. Listing'
  BY <1>1, <1>2, KindFacts DEF Listing, RunListed, QueueListed, CasePlaces, StreamPlaces
<1>7. RowsOwed'
  BY <1>1, <1>2, KindFacts DEF RowsOwed, RowOf, TypeOK, Rows, ActiveStatuses, Outcomes,
     CaseOwes, ScenarioOwes, StreamOwes, Runs, QueuedRuns
<1>8. CancelHeard'
  BY <1>1, <1>2, KindFacts DEF CancelHeard
<1> QED  BY <1>3, <1>4, <1>5, <1>6, <1>7, <1>8

LEMMA StartScenarioStep ==
    ASSUME IInv, NEW r \in Runs, StartScenario(r)
    PROVE  IInv'
<1> USE DEF IInv
<1>1. /\ pc[r] = "starting"
      /\ row' = [row EXCEPT ![RowOf(r)] = IF @ = "GONE" THEN @ ELSE "RUNNING"]
      /\ pc' = [pc EXCEPT ![r] = "preparing"]
      /\ UNCHANGED <<queued, outcome, listed, recordStatus, signalled, deviceEvent,
                     pending, holders, canceller, cancels, unlocker, wanted>>
  BY DEF StartScenario, Goto, registryVars, slotVars, cancelVars, WriteRow
<1>2. \A q \in Runs : pc'[q] = IF q = r THEN "preparing" ELSE pc[q]
  BY <1>1 DEF TypeOK
<1>3. r \in ScenarioRuns
  BY <1>1, KindFacts DEF Places, CasePlaces, StreamPlaces
<1>4. TypeOK'
  BY <1>1, <1>2, <1>3 DEF TypeOK, PCs, ActiveStatuses, Outcomes
<1>5. Places'
  BY <1>1, <1>2, <1>3, KindFacts DEF Places, CasePlaces, ScenarioPlaces, StreamPlaces
<1>6. SlotsHeld'
  BY <1>1, <1>2, <1>3, KindFacts DEF SlotsHeld, Queueing, Holding, TypeOK, Runs,
     QueuedRuns
<1>7. Listing'
  BY <1>1, <1>2, <1>3, KindFacts DEF Listing, RunListed, QueueListed, CasePlaces,
     StreamPlaces
<1>8. RowsOwed'
  BY <1>1, <1>2, <1>3, KindFacts DEF RowsOwed, RowOf, TypeOK, Rows, ActiveStatuses,
     Outcomes, CaseOwes, ScenarioOwes, StreamOwes, Runs, QueuedRuns
<1>9. CancelHeard'
  BY <1>1, <1>2, <1>3, KindFacts DEF CancelHeard
<1> QED  BY <1>4, <1>5, <1>6, <1>7, <1>8, <1>9

LEMMA EndTaskStep ==
    ASSUME IInv, NEW r \in Runs, EndTask(r)
    PROVE  IInv'
<1> USE DEF IInv
<1>1. /\ pc[r] = "running"
      /\ outcome' = [outcome EXCEPT ![r] =
                     IF RunRecord(r) \in signalled THEN "ABORTED" ELSE "ENDED"]
      /\ pc' = [pc EXCEPT ![r] = "reporting"]
      /\ UNCHANGED <<queued, row, listed, recordStatus, signalled, deviceEvent, pending,
                     holders, canceller, cancels, unlocker, wanted>>
  BY DEF EndTask, Goto, registryVars, slotVars, cancelVars
<1>2. \A q \in Runs : pc'[q] = IF q = r THEN "reporting" ELSE pc[q]
  BY <1>1 DEF TypeOK
<1>3. TypeOK'
  BY <1>1, <1>2 DEF TypeOK, PCs, Outcomes
<1>4. Places'
  BY <1>1, <1>2, KindFacts DEF Places, CasePlaces, ScenarioPlaces, StreamPlaces, TypeOK
<1>5. SlotsHeld'
  BY <1>1, <1>2, KindFacts DEF SlotsHeld, Queueing, Holding, TypeOK, Runs, QueuedRuns
<1>6. Listing'
  BY <1>1, <1>2, KindFacts DEF Listing, RunListed, QueueListed, CasePlaces, StreamPlaces
<1>7. RowsOwed'
  BY <1>1, <1>2, KindFacts DEF RowsOwed, RowOf, TypeOK, Rows, ActiveStatuses, Outcomes,
     CaseOwes, ScenarioOwes, StreamOwes, Runs, QueuedRuns
<1>8. CancelHeard'
  BY <1>1, <1>2 DEF CancelHeard, RunRecord, TypeOK
<1> QED  BY <1>3, <1>4, <1>5, <1>6, <1>7, <1>8

LEMMA WriteOutcomeStep ==
    ASSUME IInv, NEW r \in Runs, WriteOutcome(r)
    PROVE  IInv'
<1> USE DEF IInv
<1>1. /\ pc[r] = "reporting"
      /\ row' = [row EXCEPT ![RowOf(r)] = IF @ = "GONE" THEN @ ELSE outcome[r]]
      /\ pc' = [pc EXCEPT ![r] = IF r \in Streams THEN "finalizing" ELSE "unregistering"]
      /\ UNCHANGED <<queued, outcome, listed, recordStatus, signalled, deviceEvent,
                     pending, holders, canceller, cancels, unlocker, wanted>>
  BY DEF WriteOutcome, Goto, registryVars, slotVars, cancelVars, WriteRow
<1>2. \A q \in Runs : pc'[q] = IF q = r THEN IF r \in Streams THEN "finalizing" ELSE "unregistering" ELSE pc[q]
  BY <1>1 DEF TypeOK
<1>3. outcome[r] \in Outcomes
  BY <1>1 DEF Places, TypeOK
<1>4. TypeOK'
  BY <1>1, <1>2, <1>3, KindFacts DEF TypeOK, PCs
<1>5. Places'
  BY <1>1, <1>2, <1>3, KindFacts DEF Places, CasePlaces, ScenarioPlaces, StreamPlaces
<1>6. SlotsHeld'
  BY <1>1, <1>2, <1>3, KindFacts DEF SlotsHeld, Queueing, Holding, TypeOK, Runs,
     QueuedRuns
<1>7. Listing'
  BY <1>1, <1>2, <1>3, KindFacts DEF Listing, RunListed, QueueListed, CasePlaces,
     StreamPlaces
<1>8. RowsOwed'
  BY <1>1, <1>2, <1>3, KindFacts DEF RowsOwed, RowOf, TypeOK, Rows, ActiveStatuses,
     Outcomes, CaseOwes, ScenarioOwes, StreamOwes, Runs, QueuedRuns
<1>9. CancelHeard'
  BY <1>1, <1>2, <1>3, KindFacts DEF CancelHeard
<1> QED  BY <1>4, <1>5, <1>6, <1>7, <1>8, <1>9

LEMMA UnregisterStep ==
    ASSUME IInv, NEW r \in Runs, Unregister(r)
    PROVE  IInv'
<1> USE DEF IInv
<1>1. /\ pc[r] = "unregistering"
      /\ deviceEvent' = [deviceEvent EXCEPT ![DeviceOf[r]] = NoRun]
      /\ pc' = [pc EXCEPT ![r] = "unlisting"]
      /\ UNCHANGED <<queued, outcome, row, listed, recordStatus, signalled, pending,
                     holders, canceller, cancels, unlocker, wanted>>
  BY DEF Unregister, Goto, registryVars, slotVars, cancelVars, UnregisterEvent
<1>2. \A q \in Runs : pc'[q] = IF q = r THEN "unlisting" ELSE pc[q]
  BY <1>1 DEF TypeOK
<1>3. TypeOK'
  BY <1>1, <1>2, KindFacts DEF TypeOK, PCs
<1>4. Places'
  BY <1>1, <1>2, KindFacts DEF Places, CasePlaces, ScenarioPlaces, StreamPlaces
<1>5. SlotsHeld'
  BY <1>1, <1>2, KindFacts DEF SlotsHeld, Queueing, Holding, TypeOK, Runs, QueuedRuns
<1>6. Listing'
  BY <1>1, <1>2, KindFacts DEF Listing, RunListed, QueueListed, CasePlaces, StreamPlaces
<1>7. RowsOwed'
  BY <1>1, <1>2, KindFacts DEF RowsOwed, RowOf, TypeOK, Rows, ActiveStatuses, Outcomes,
     CaseOwes, ScenarioOwes, StreamOwes, Runs, QueuedRuns
<1>8. CancelHeard'
  BY <1>1, <1>2, KindFacts DEF CancelHeard
<1> QED  BY <1>3, <1>4, <1>5, <1>6, <1>7, <1>8

LEMMA MakeRecordStep ==
    ASSUME IInv, NEW r \in Runs, MakeRecord(r)
    PROVE  IInv'
<1> USE DEF IInv
<1>1. /\ \/ r \in CaseRuns /\ pc[r] = "enqueued"
         \/ r \in Streams /\ pc[r] = "idle"
      /\ deviceEvent' = IF r \in queued THEN deviceEvent
                        ELSE [deviceEvent EXCEPT ![DeviceOf[r]] = r]
      /\ listed' = listed \cup {RunRecord(r)}
      /\ recordStatus' = [recordStatus EXCEPT ![RunRecord(r)] = IF r \in queued THEN "QUEUED" ELSE "RUNNING"]
      /\ pc' = [pc EXCEPT ![r] = "recorded"]
      /\ UNCHANGED <<queued, outcome, row, signalled, pending, holders, canceller, cancels,
                     unlocker, wanted>>
  BY DEF MakeRecord, Goto, registryVars, slotVars, cancelVars, List, RegisterEvent
<1>2. \A q \in Runs : pc'[q] = IF q = r THEN "recorded" ELSE pc[q]
  BY <1>1 DEF TypeOK
<1>3. deviceEvent' \in [Devices -> Runs \cup {NoRun}]
  BY <1>1, RunAssumption DEF TypeOK
<1>4. recordStatus' \in [Records -> ActiveStatuses \cup Outcomes]
  BY <1>1 DEF TypeOK, ActiveStatuses
<1>5. listed' \subseteq Records
  BY <1>1 DEF TypeOK, Records, RunRecord
<1>6. \A q \in Runs : recordStatus'[<<q, "run">>] =
                       IF q # r THEN recordStatus[<<q, "run">>]
                       ELSE IF r \in queued THEN "QUEUED" ELSE "RUNNING"
  BY <1>1 DEF TypeOK, Records, RunRecord
<1>7. TypeOK'
  BY <1>1, <1>2, <1>3, <1>4, <1>5, <1>6 DEF TypeOK, PCs
<1>8. Places'
  BY <1>1, <1>2, <1>3, <1>4, <1>5, <1>6, KindFacts DEF Places, CasePlaces,
     ScenarioPlaces, StreamPlaces
<1>9. SlotsHeld'
  BY <1>1, <1>2, <1>3, <1>4, <1>5, <1>6, KindFacts DEF SlotsHeld, Queueing, Holding,
     TypeOK, Runs, QueuedRuns
<1>10. Listing'
  BY <1>1, <1>2, <1>3, <1>4, <1>5, <1>6, KindFacts DEF Listing, RunListed, QueueListed,
     RunRecord, CasePlaces, StreamPlaces
<1>11. RowsOwed'
  BY <1>1, <1>2, <1>3, <1>4, <1>5, <1>6, KindFacts DEF RowsOwed, RowOf, TypeOK, Rows,
     ActiveStatuses, Outcomes, CaseOwes, ScenarioOwes, StreamOwes, Runs, QueuedRuns
<1>12. CancelHeard'
  BY <1>1, <1>2, <1>3, <1>4, <1>5, <1>6, KindFacts DEF CancelHeard
<1> QED  BY <1>7, <1>8, <1>9, <1>10, <1>11, <1>12

LEMMA CloseRecordStep ==
    ASSUME IInv, NEW r \in Runs, CloseRecord(r)
    PROVE  IInv'
<1> USE DEF IInv
<1>1. /\ pc[r] = "closed"
      /\ listed' = listed \ {QueueRecord(r)}
      /\ recordStatus' = [recordStatus EXCEPT ![QueueRecord(r)] = IF QueueRecord(r) \in listed THEN outcome[r] ELSE @]
      /\ pc' = [pc EXCEPT ![r] = "done"]
      /\ UNCHANGED <<queued, outcome, row, signalled, deviceEvent, pending, holders,
                     canceller, cancels, unlocker, wanted>>
  BY DEF CloseRecord, Goto, registryVars, slotVars, cancelVars, Unlist
<1>2. \A q \in Runs : pc'[q] = IF q = r THEN "done" ELSE pc[q]
  BY <1>1 DEF TypeOK
<1>3. r \in CaseRuns \cup ScenarioRuns /\ outcome[r] \in Outcomes
  BY <1>1, KindFacts DEF Places, StreamPlaces, TypeOK
<1>4. recordStatus' \in [Records -> ActiveStatuses \cup Outcomes]
  BY <1>1, <1>3 DEF TypeOK
<1>5. \A q \in Runs \ {r} : recordStatus'[<<q, "run">>] = recordStatus[<<q, "run">>]
  BY <1>1 DEF TypeOK, Records, QueueRecord
<1>6. TypeOK'
  BY <1>1, <1>2, <1>3, <1>4, <1>5 DEF TypeOK, PCs
<1>7. Places'
  BY <1>1, <1>2, <1>3, <1>4, <1>5, KindFacts DEF Places, CasePlaces, ScenarioPlaces,
     StreamPlaces
<1>8. SlotsHeld'
  BY <1>1, <1>2, <1>3, <1>4, <1>5, KindFacts DEF SlotsHeld, Queueing, Holding, TypeOK,
     Runs, QueuedRuns
<1>9. Listing'
  BY <1>1, <1>2, <1>3, <1>4, <1>5, KindFacts DEF Listing, RunListed, QueueListed,
     QueueRecord, CasePlaces, StreamPlaces
<1>10. RowsOwed'
  BY <1>1, <1>2, <1>3, <1>4, <1>5, KindFacts DEF RowsOwed, RowOf, TypeOK, Rows,
     ActiveStatuses, Outcomes, CaseOwes, ScenarioOwes, StreamOwes, Runs, QueuedRuns
<1>11. CancelHeard'
  BY <1>1, <1>2, <1>3, <1>4, <1>5, KindFacts DEF CancelHeard
<1> QED  BY <1>6, <1>7, <1>8, <1>9, <1>10, <1>11

LEMMA DropQueueRecordStep ==
    ASSUME IInv, NEW r \in Runs, DropQueueRecord(r)
    PROVE  IInv'
<1> USE DEF IInv
<1>1. /\ r \in ScenarioRuns
      /\ pc[r] = "granted"
      /\ listed' = listed \ {QueueRecord(r)}
      /\ recordStatus' = [recordStatus EXCEPT ![QueueRecord(r)] = IF QueueRecord(r) \in listed THEN recordStatus[QueueRecord(r)] ELSE @]
      /\ pc' = [pc EXCEPT ![r] = "ready"]
      /\ UNCHANGED <<queued, outcome, row, signalled, deviceEvent, pending, holders,
                     canceller, cancels, unlocker, wanted>>
  BY DEF DropQueueRecord, Goto, registryVars, slotVars, cancelVars, Unlist
<1>2. \A q \in Runs : pc'[q] = IF q = r THEN "ready" ELSE pc[q]
  BY <1>1 DEF TypeOK
<1>3. TypeOK'
  BY <1>1, <1>2 DEF TypeOK, PCs, ActiveStatuses, Outcomes, RunRecord, QueueRecord, Records
<1>4. Places'
  BY <1>1, <1>2, KindFacts DEF Places, CasePlaces, ScenarioPlaces, StreamPlaces
<1>5. SlotsHeld'
  BY <1>1, <1>2, KindFacts DEF SlotsHeld, Queueing, Holding, TypeOK, Runs, QueuedRuns
<1>6. Listing'
  BY <1>1, <1>2, KindFacts DEF Listing, RunListed, QueueListed, CasePlaces, StreamPlaces,
     RunRecord, QueueRecord, Records, TypeOK
<1>7. RowsOwed'
  BY <1>1, <1>2, KindFacts DEF RowsOwed, RowOf, TypeOK, Rows, ActiveStatuses, Outcomes,
     CaseOwes, ScenarioOwes, StreamOwes, Runs, QueuedRuns
<1>8. CancelHeard'
  BY <1>1, <1>2, KindFacts DEF CancelHeard
<1> QED  BY <1>3, <1>4, <1>5, <1>6, <1>7, <1>8

LEMMA PrepareStep ==
    ASSUME IInv, NEW r \in Runs, Prepare(r)
    PROVE  IInv'
<1> USE DEF IInv
<1>1. /\ pc[r] = "preparing"
      /\ deviceEvent' = [deviceEvent EXCEPT ![DeviceOf[r]] = r]
      /\ listed' = listed \cup {RunRecord(r)}
      /\ recordStatus' = [recordStatus EXCEPT ![RunRecord(r)] = "RUNNING"]
      /\ pc' = [pc EXCEPT ![r] = "running"]
      /\ UNCHANGED <<queued, outcome, row, signalled, pending, holders, canceller, cancels,
                     unlocker, wanted>>
  BY DEF Prepare, Goto, registryVars, slotVars, cancelVars, List, RegisterEvent
<1>2. \A q \in Runs : pc'[q] = IF q = r THEN "running" ELSE pc[q]
  BY <1>1 DEF TypeOK
<1>3. r \in ScenarioRuns
  BY <1>1, KindFacts DEF Places, CasePlaces, StreamPlaces
<1>4. deviceEvent' \in [Devices -> Runs \cup {NoRun}]
  BY <1>1, RunAssumption DEF TypeOK
<1>5. recordStatus' \in [Records -> ActiveStatuses \cup Outcomes]
  BY <1>1 DEF TypeOK, ActiveStatuses
<1>6. listed' \subseteq Records
  BY <1>1 DEF TypeOK, Records, RunRecord
<1>7. TypeOK'
  BY <1>1, <1>2, <1>3, <1>4, <1>5, <1>6 DEF TypeOK, PCs
<1>8. Places'
  BY <1>1, <1>2, <1>3, <1>4, <1>5, <1>6, KindFacts DEF Places, CasePlaces,
     ScenarioPlaces, StreamPlaces
<1>9. SlotsHeld'
  BY <1>1, <1>2, <1>3, <1>4, <1>5, <1>6, KindFacts DEF SlotsHeld, Queueing, Holding,
     TypeOK, Runs, QueuedRuns
<1>10. Listing'
  BY <1>1, <1>2, <1>3, <1>4, <1>5, <1>6, KindFacts DEF Listing, RunListed, QueueListed,
     CasePlaces, StreamPlaces, RunRecord, QueueRecord, Records, TypeOK
<1>11. RowsOwed'
  BY <1>1, <1>2, <1>3, <1>4, <1>5, <1>6, KindFacts DEF RowsOwed, RowOf, TypeOK, Rows,
     ActiveStatuses, Outcomes, CaseOwes, ScenarioOwes, StreamOwes, Runs, QueuedRuns
<1>12. CancelHeard'
  BY <1>1, <1>2, <1>3, <1>4, <1>5, <1>6, KindFacts DEF CancelHeard
<1> QED  BY <1>7, <1>8, <1>9, <1>10, <1>11, <1>12

LEMMA UnlistRunStep ==
    ASSUME IInv, NEW r \in Runs, UnlistRun(r)
    PROVE  IInv'
<1> USE DEF IInv
<1>1. /\ pc[r] = "unlisting"
      /\ recordStatus' = [recordStatus EXCEPT ![RunRecord(r)] = recordStatus'[RunRecord(r)]]
      /\ recordStatus'[RunRecord(r)] \in ActiveStatuses \cup Outcomes
      /\ listed' = listed \ {RunRecord(r)}
      /\ pc' = [pc EXCEPT ![r] = IF r \in holders THEN "releasing" ELSE "done"]
      /\ UNCHANGED <<queued, outcome, row, signalled, deviceEvent, pending, holders,
                     canceller, cancels, unlocker, wanted>>
  BY DEF UnlistRun, Goto, registryVars, slotVars, cancelVars, Unlist, RunRecord, Records,
     TypeOK, Outcomes
<1>2. \A q \in Runs : pc'[q] = IF q = r THEN IF r \in holders THEN "releasing" ELSE "done" ELSE pc[q]
  BY <1>1 DEF TypeOK
<1>3. TypeOK'
  BY <1>1, <1>2, ZenonT(30) DEF TypeOK, PCs, ActiveStatuses, Outcomes, RunRecord, QueueRecord, Records
<1>4. Places'
  BY <1>1, <1>2, KindFacts DEF Places, CasePlaces, ScenarioPlaces, StreamPlaces, TypeOK,
     QueuedRuns
<1>5. SlotsHeld'
  BY <1>1, <1>2, KindFacts DEF SlotsHeld, Queueing, Holding, TypeOK, Runs, QueuedRuns
<1>6. Listing'
  BY <1>1, <1>2, KindFacts DEF Listing, RunListed, QueueListed, CasePlaces, StreamPlaces,
     RunRecord, QueueRecord, Records, TypeOK
<1>7. RowsOwed'
  BY <1>1, <1>2, KindFacts DEF RowsOwed, RowOf, TypeOK, Rows, ActiveStatuses, Outcomes,
     CaseOwes, ScenarioOwes, StreamOwes, Runs, QueuedRuns
<1>8. CancelHeard'
  BY <1>1, <1>2, KindFacts DEF CancelHeard
<1> QED  BY <1>3, <1>4, <1>5, <1>6, <1>7, <1>8

LEMMA StreamFailsStep ==
    ASSUME IInv, NEW r \in Runs, StreamFails(r)
    PROVE  IInv'
<1> USE DEF IInv
<1>1. /\ r \in Streams
      /\ pc[r] \in {"ready", "running", "recorded", "reporting"}
      /\ \E o \in Outcomes \ {"ENDED"} :
            outcome' = [outcome EXCEPT ![r] = IF @ # "none" THEN @ ELSE o]
      /\ pc' = [pc EXCEPT ![r] = "finalizing"]
      /\ UNCHANGED <<queued, row, listed, recordStatus, signalled, deviceEvent, pending,
                     holders, canceller, cancels, unlocker, wanted>>
  BY DEF StreamFails, Goto, registryVars, slotVars, cancelVars, Outcomes
<1>2. \A q \in Runs : pc'[q] = IF q = r THEN "finalizing" ELSE pc[q]
  BY <1>1 DEF TypeOK
<1>3. TypeOK'
  BY <1>1, <1>2 DEF TypeOK, PCs, Outcomes
<1>4. Places'
  BY <1>1, <1>2, KindFacts DEF Places, CasePlaces, ScenarioPlaces, StreamPlaces, TypeOK
<1>5. SlotsHeld'
  BY <1>1, <1>2, KindFacts DEF SlotsHeld, Queueing, Holding, TypeOK, Runs, QueuedRuns
<1>6. Listing'
  BY <1>1, <1>2, KindFacts DEF Listing, RunListed, QueueListed, CasePlaces, StreamPlaces
<1>7. RowsOwed'
  BY <1>1, <1>2, KindFacts DEF RowsOwed, RowOf, TypeOK, Rows, ActiveStatuses, Outcomes,
     CaseOwes, ScenarioOwes, StreamOwes, Runs, QueuedRuns
<1>8. CancelHeard'
  BY <1>1, <1>2 DEF CancelHeard, TypeOK
<1> QED  BY <1>3, <1>4, <1>5, <1>6, <1>7, <1>8

LEMMA FinalizeStreamStep ==
    ASSUME IInv, NEW r \in Runs, FinalizeStream(r)
    PROVE  IInv'
<1> USE DEF IInv
<1>1. /\ pc[r] = "finalizing"
      /\ \/ row' = row /\ row[RowOf(r)] # "RUNNING"
         \/ \E s \in {"ABORTED", "ERROR"} :
               row' = [row EXCEPT ![RowOf(r)] = IF @ = "GONE" THEN @ ELSE s]
      /\ pc' = [pc EXCEPT ![r] = "unregistering"]
      /\ UNCHANGED <<queued, outcome, listed, recordStatus, signalled, deviceEvent,
                     pending, holders, canceller, cancels, unlocker, wanted>>
  BY DEF FinalizeStream, Goto, registryVars, slotVars, cancelVars, WriteRow
<1>2. \A q \in Runs : pc'[q] = IF q = r THEN "unregistering" ELSE pc[q]
  BY <1>1 DEF TypeOK
<1>3. r \in Streams
  BY <1>1, KindFacts DEF Places, CasePlaces, ScenarioPlaces
<1>4. TypeOK'
  BY <1>1, <1>2, <1>3 DEF TypeOK, PCs, Outcomes
<1>5. Places'
  BY <1>1, <1>2, <1>3, KindFacts DEF Places, CasePlaces, ScenarioPlaces, StreamPlaces
<1>6. SlotsHeld'
  BY <1>1, <1>2, <1>3, KindFacts DEF SlotsHeld, Queueing, Holding, TypeOK, Runs,
     QueuedRuns
<1>7. Listing'
  BY <1>1, <1>2, <1>3, KindFacts DEF Listing, RunListed, QueueListed, CasePlaces,
     StreamPlaces
<1>8. RowsOwed'
  BY <1>1, <1>2, <1>3, KindFacts DEF RowsOwed, RowOf, TypeOK, Rows, ActiveStatuses,
     Outcomes, CaseOwes, ScenarioOwes, StreamOwes, Runs, QueuedRuns
<1>9. CancelHeard'
  BY <1>1, <1>2, <1>3, KindFacts DEF CancelHeard
<1> QED  BY <1>4, <1>5, <1>6, <1>7, <1>8, <1>9

LEMMA StartRowStep ==
    ASSUME IInv, NEW r \in Runs, StartRow(r)
    PROVE  IInv'
<1> USE DEF IInv
<1>1. /\ \/ r \in CaseRuns \cup Streams /\ pc[r] = "recorded"
         \/ r \in ScenarioRuns /\ pc[r] = "enqueued"
      /\ IF r \in queued THEN row' = [row EXCEPT ![RowOf(r)] = IF @ = "GONE" THEN @ ELSE "QUEUED"]
         ELSE IF r \in ScenarioRuns THEN row' = row
         ELSE row' = [row EXCEPT ![RowOf(r)] = IF @ = "GONE" THEN @ ELSE "RUNNING"]
      /\ pc' = [pc EXCEPT ![r] = IF r \notin queued THEN "ready"
                             ELSE IF r \in ScenarioRuns THEN "checking" ELSE "waiting"]
      /\ UNCHANGED <<queued, outcome, listed, recordStatus, signalled, deviceEvent,
                     pending, holders, canceller, cancels, unlocker, wanted>>
  BY DEF StartRow, Goto, registryVars, slotVars, cancelVars, WriteRow
<1>2. \A q \in Runs : pc'[q] = IF q = r THEN IF r \notin queued THEN "ready"
                             ELSE IF r \in ScenarioRuns THEN "checking" ELSE "waiting" ELSE pc[q]
  BY <1>1 DEF TypeOK
<1>3. TypeOK'
  BY <1>1, <1>2 DEF TypeOK, PCs, ActiveStatuses
<1>4. Places'
  BY <1>1, <1>2, KindFacts DEF Places, CasePlaces, ScenarioPlaces, StreamPlaces, TypeOK,
     QueuedRuns
<1>5. SlotsHeld'
  BY <1>1, <1>2, KindFacts DEF SlotsHeld, Queueing, Holding, TypeOK, Runs, QueuedRuns
<1>6. Listing'
  BY <1>1, <1>2, KindFacts DEF Listing, RunListed, QueueListed, CasePlaces, StreamPlaces
<1>7. RowsOwed'
  BY <1>1, <1>2, KindFacts DEF RowsOwed, RowOf, TypeOK, Rows, ActiveStatuses, Outcomes,
     CaseOwes, ScenarioOwes, StreamOwes, Runs, QueuedRuns
<1>8. CancelHeard'
  BY <1>1, <1>2, KindFacts DEF CancelHeard
<1> QED  BY <1>3, <1>4, <1>5, <1>6, <1>7, <1>8

LEMMA EnqueueStep ==
    ASSUME IInv, NEW r \in Runs, Enqueue(r)
    PROVE  IInv'
<1> USE DEF IInv
<1>1. /\ r \in QueuedRuns /\ Slots!Request(r)
      /\ pc[r] = IF r \in ScenarioRuns THEN "created" ELSE "idle"
      /\ queued' = IF r \in holders' THEN queued ELSE queued \cup {r}
      /\ pc' = [pc EXCEPT ![r] = "enqueued"]
      /\ UNCHANGED <<outcome, row, listed, recordStatus, signalled, deviceEvent, canceller,
                     cancels, unlocker, wanted>>
  BY DEF Enqueue, Goto, registryVars, slotVars, cancelVars
<1>2. \A q \in Runs : pc'[q] = IF q = r THEN "enqueued" ELSE pc[q]
  BY <1>1 DEF TypeOK
<1>3. /\ pending' \in [QueuedRuns -> Nat] /\ holders' \in SUBSET QueuedRuns
      /\ \A q \in QueuedRuns \ {r} :
            /\ q \in holders => q \in holders'
            /\ q \in holders' => q \in holders \/ pending[q] > 0
            /\ pending[q] = 0 => pending'[q] = 0
      /\ \A q \in holders' : pending'[q] = 0
      /\ \A s, q \in holders' : DeviceOf[s] = DeviceOf[q] => s = q
  BY <1>1, SlotFacts
<1>4. TypeOK'
  BY <1>1, <1>2, <1>3 DEF TypeOK, PCs, Outcomes
<1>5. Places'
  BY <1>1, <1>2, <1>3, KindFacts DEF Places, CasePlaces, ScenarioPlaces, StreamPlaces,
     QueuedRuns
<1>6. SlotsHeld'
  BY <1>1, <1>2, <1>3, KindFacts DEF SlotsHeld, Queueing, Holding, TypeOK, Runs,
     QueuedRuns
<1>7. Listing'
  BY <1>1, <1>2, <1>3, KindFacts DEF Listing, RunListed, QueueListed, CasePlaces,
     StreamPlaces
<1>8. RowsOwed'
  BY <1>1, <1>2, <1>3, KindFacts DEF RowsOwed, RowOf, TypeOK, Rows, ActiveStatuses,
     Outcomes, CaseOwes, ScenarioOwes, StreamOwes, Runs, QueuedRuns
<1>9. CancelHeard'
  BY <1>1, <1>2, <1>3, KindFacts DEF CancelHeard
<1> QED  BY <1>4, <1>5, <1>6, <1>7, <1>8, <1>9

LEMMA HandlerFailsStep ==
    ASSUME IInv, NEW r \in Runs, HandlerFails(r)
    PROVE  IInv'
<1> USE DEF IInv
<1>1. /\ r \in CaseRuns /\ pc[r] = "recorded"
      /\ r \in QueuedRuns
      /\ Slots!Withdraw(r) \/ Slots!GiveBack(r)
      /\ outcome' = [outcome EXCEPT ![r] = "ERROR"]
      /\ pc' = [pc EXCEPT ![r] = IF r \in queued THEN "unlisting" ELSE "undoing"]
      /\ UNCHANGED <<queued, row, listed, recordStatus, signalled, deviceEvent, canceller,
                     cancels, unlocker, wanted>>
  BY DEF HandlerFails, Goto, registryVars, slotVars, cancelVars, QueuedRuns
<1>2. \A q \in Runs : pc'[q] = IF q = r THEN IF r \in queued THEN "unlisting" ELSE "undoing" ELSE pc[q]
  BY <1>1 DEF TypeOK
<1>3. ~Slots!Request(r)
  BY <1>1 DEF Slots!Request, Slots!Withdraw, Slots!GiveBack, Slots!Pending
<1>4. /\ pending' \in [QueuedRuns -> Nat] /\ holders' \in SUBSET QueuedRuns
      /\ \A q \in QueuedRuns \ {r} :
            /\ q \in holders => q \in holders'
            /\ q \in holders' => q \in holders \/ pending[q] > 0
            /\ pending[q] = 0 => pending'[q] = 0
      /\ \A q \in holders' : pending'[q] = 0
      /\ \A s, q \in holders' : DeviceOf[s] = DeviceOf[q] => s = q
      /\ r \notin holders' /\ pending'[r] = 0
  BY <1>1, <1>3, SlotFacts
<1>5. TypeOK'
  BY <1>1, <1>2, <1>3, <1>4 DEF TypeOK, PCs, Outcomes
<1>6. Places'
  BY <1>1, <1>2, <1>3, <1>4, KindFacts DEF Places, CasePlaces, ScenarioPlaces,
     StreamPlaces
<1>7. SlotsHeld'
  BY <1>1, <1>2, <1>3, <1>4, KindFacts DEF SlotsHeld, Queueing, Holding, TypeOK, Runs,
     QueuedRuns
<1>8. Listing'
  BY <1>1, <1>2, <1>3, <1>4, KindFacts DEF Listing, RunListed, QueueListed, CasePlaces,
     StreamPlaces
<1>9. RowsOwed'
  BY <1>1, <1>2, <1>3, <1>4, KindFacts DEF RowsOwed, RowOf, TypeOK, Rows, ActiveStatuses,
     Outcomes, CaseOwes, ScenarioOwes, StreamOwes, Runs, QueuedRuns
<1>10. CancelHeard'
  BY <1>1, <1>2, <1>3, <1>4, KindFacts DEF CancelHeard
<1> QED  BY <1>5, <1>6, <1>7, <1>8, <1>9, <1>10

LEMMA WaitEndsStep ==
    ASSUME IInv, NEW r \in Runs, WaitEnds(r)
    PROVE  IInv'
<1> USE DEF IInv
<1>1. /\ pc[r] = "waiting"
      /\ r \in QueuedRuns /\ Slots!Withdraw(r)
      /\ outcome' = [outcome EXCEPT ![r] =
                     IF QueueRecord(r) \in signalled THEN "ABORTED" ELSE "ERROR"]
      /\ pc' = [pc EXCEPT ![r] = "closing"]
      /\ UNCHANGED <<queued, row, listed, recordStatus, signalled, deviceEvent, canceller,
                     cancels, unlocker, wanted>>
  BY DEF WaitEnds, Goto, registryVars, slotVars, cancelVars, Slots!Withdraw, Slots!Pending
<1>2. \A q \in Runs : pc'[q] = IF q = r THEN "closing" ELSE pc[q]
  BY <1>1 DEF TypeOK
<1>3. ~Slots!Request(r)
  BY <1>1 DEF Slots!Request, Slots!Withdraw, Slots!Pending
<1>4. /\ pending' \in [QueuedRuns -> Nat] /\ holders' \in SUBSET QueuedRuns
      /\ \A q \in QueuedRuns \ {r} :
            /\ q \in holders => q \in holders'
            /\ q \in holders' => q \in holders \/ pending[q] > 0
            /\ pending[q] = 0 => pending'[q] = 0
      /\ \A q \in holders' : pending'[q] = 0
      /\ \A s, q \in holders' : DeviceOf[s] = DeviceOf[q] => s = q
      /\ r \notin holders' /\ pending'[r] = 0
  BY <1>1, <1>3, SlotFacts
<1>5. TypeOK'
  BY <1>1, <1>2, <1>3, <1>4 DEF TypeOK, PCs, Outcomes
<1>6. Places'
  BY <1>1, <1>2, <1>3, <1>4, KindFacts DEF Places, CasePlaces, ScenarioPlaces,
     StreamPlaces, QueuedRuns, TypeOK
<1>7. SlotsHeld'
  BY <1>1, <1>2, <1>3, <1>4, KindFacts DEF SlotsHeld, Queueing, Holding, TypeOK, Runs,
     QueuedRuns
<1>8. Listing'
  BY <1>1, <1>2, <1>3, <1>4, KindFacts DEF Listing, RunListed, QueueListed, CasePlaces,
     StreamPlaces
<1>9. RowsOwed'
  BY <1>1, <1>2, <1>3, <1>4, KindFacts DEF RowsOwed, RowOf, TypeOK, Rows, ActiveStatuses,
     Outcomes, CaseOwes, ScenarioOwes, StreamOwes, Runs, QueuedRuns
<1>10. CancelHeard'
  BY <1>1, <1>2, <1>3, <1>4, KindFacts DEF CancelHeard
<1> QED  BY <1>5, <1>6, <1>7, <1>8, <1>9, <1>10

LEMMA ReleaseSlotStep ==
    ASSUME IInv, NEW r \in Runs, ReleaseSlot(r)
    PROVE  IInv'
<1> USE DEF IInv
<1>1. /\ pc[r] = "releasing"
      /\ r \in QueuedRuns /\ Slots!GiveBack(r)
      /\ pc' = [pc EXCEPT ![r] = "done"]
      /\ UNCHANGED <<queued, outcome, row, listed, recordStatus, signalled, deviceEvent,
                     canceller, cancels, unlocker, wanted>>
  BY DEF ReleaseSlot, Goto, registryVars, slotVars, cancelVars, Slots!GiveBack, TypeOK
<1>2. \A q \in Runs : pc'[q] = IF q = r THEN "done" ELSE pc[q]
  BY <1>1 DEF TypeOK
<1>3. ~Slots!Request(r)
  BY <1>1 DEF Slots!Request, Slots!GiveBack
<1>4. /\ pending' \in [QueuedRuns -> Nat] /\ holders' \in SUBSET QueuedRuns
      /\ \A q \in QueuedRuns \ {r} :
            /\ q \in holders => q \in holders'
            /\ q \in holders' => q \in holders \/ pending[q] > 0
            /\ pending[q] = 0 => pending'[q] = 0
      /\ \A q \in holders' : pending'[q] = 0
      /\ \A s, q \in holders' : DeviceOf[s] = DeviceOf[q] => s = q
      /\ r \notin holders' /\ pending'[r] = 0
  BY <1>1, <1>3, SlotFacts
<1>5. TypeOK'
  BY <1>1, <1>2, <1>3, <1>4 DEF TypeOK, PCs, Outcomes
<1>6. Places'
  BY <1>1, <1>2, <1>3, <1>4, KindFacts DEF Places, CasePlaces, ScenarioPlaces,
     StreamPlaces
<1>7. SlotsHeld'
  BY <1>1, <1>2, <1>3, <1>4, KindFacts DEF SlotsHeld, Queueing, Holding, TypeOK, Runs,
     QueuedRuns
<1>8. Listing'
  BY <1>1, <1>2, <1>3, <1>4, KindFacts DEF Listing, RunListed, QueueListed, CasePlaces,
     StreamPlaces
<1>9. RowsOwed'
  BY <1>1, <1>2, <1>3, <1>4, KindFacts DEF RowsOwed, RowOf, TypeOK, Rows, ActiveStatuses,
     Outcomes, CaseOwes, ScenarioOwes, StreamOwes, Runs, QueuedRuns
<1>10. CancelHeard'
  BY <1>1, <1>2, <1>3, <1>4, KindFacts DEF CancelHeard
<1> QED  BY <1>5, <1>6, <1>7, <1>8, <1>9, <1>10

LEMMA CheckAbortedStep ==
    ASSUME IInv, NEW r \in Runs, CheckRow(r), row[r] = "ABORTED"
    PROVE  IInv'
<1> USE DEF IInv
<1>1. /\ r \in ScenarioRuns /\ r \in QueuedRuns
      /\ pc[r] = "checking" /\ row[r] = "ABORTED"
      /\ Slots!Withdraw(r) \/ Slots!GiveBack(r)
      /\ pc' = [pc EXCEPT ![r] = "done"]
      /\ UNCHANGED <<queued, outcome, row, listed, recordStatus, signalled, deviceEvent,
                     canceller, cancels, unlocker, wanted>>
  BY DEF CheckRow, Goto, registryVars, slotVars, cancelVars, QueuedRuns, IInv, Places,
     CasePlaces, StreamPlaces, Runs
<1>2. \A q \in Runs : pc'[q] = IF q = r THEN "done" ELSE pc[q]
  BY <1>1 DEF TypeOK
<1>3. ~Slots!Request(r)
  BY <1>1 DEF Slots!Request, Slots!Withdraw, Slots!GiveBack, Slots!Pending
<1>4. /\ pending' \in [QueuedRuns -> Nat] /\ holders' \in SUBSET QueuedRuns
      /\ \A q \in QueuedRuns \ {r} :
            /\ q \in holders => q \in holders'
            /\ q \in holders' => q \in holders \/ pending[q] > 0
            /\ pending[q] = 0 => pending'[q] = 0
      /\ \A q \in holders' : pending'[q] = 0
      /\ \A s, q \in holders' : DeviceOf[s] = DeviceOf[q] => s = q
      /\ r \notin holders' /\ pending'[r] = 0
  BY <1>1, <1>3, SlotFacts
<1>5. TypeOK'
  BY <1>1, <1>2, <1>3, <1>4 DEF TypeOK, PCs, Outcomes
<1>6. Places'
  BY <1>1, <1>2, <1>3, <1>4, KindFacts DEF Places, CasePlaces, ScenarioPlaces,
     StreamPlaces
<1>7. SlotsHeld'
  BY <1>1, <1>2, <1>3, <1>4, KindFacts DEF SlotsHeld, Queueing, Holding, TypeOK, Runs,
     QueuedRuns
<1>8. Listing'
  BY <1>1, <1>2, <1>3, <1>4, KindFacts DEF Listing, RunListed, QueueListed, CasePlaces,
     StreamPlaces
<1>9. RowsOwed'
  BY <1>1, <1>2, <1>3, <1>4, KindFacts DEF RowsOwed, RowOf, TypeOK, Rows, ActiveStatuses,
     Outcomes, CaseOwes, ScenarioOwes, StreamOwes, Runs, QueuedRuns
<1>10. CancelHeard'
  BY <1>1, <1>2, <1>3, <1>4, KindFacts DEF CancelHeard
<1> QED  BY <1>5, <1>6, <1>7, <1>8, <1>9, <1>10

LEMMA CheckWaitsStep ==
    ASSUME IInv, NEW r \in Runs, CheckRow(r), row[r] # "ABORTED"
    PROVE  IInv'
<1> USE DEF IInv
<1>1. /\ pc[r] = "checking"
      /\ row' = [row EXCEPT ![RowOf(r)] = IF @ = "GONE" THEN @ ELSE "QUEUED"]
      /\ listed' = listed \cup {QueueRecord(r)}
      /\ recordStatus' = [recordStatus EXCEPT ![QueueRecord(r)] = "QUEUED"]
      /\ pc' = [pc EXCEPT ![r] = "waiting"]
      /\ UNCHANGED <<queued, outcome, signalled, deviceEvent, pending, holders, canceller,
                     cancels, unlocker, wanted>>
  BY DEF CheckRow, Goto, registryVars, slotVars, cancelVars, List, WriteRow
<1>2. \A q \in Runs : pc'[q] = IF q = r THEN "waiting" ELSE pc[q]
  BY <1>1 DEF TypeOK
<1>3. r \in ScenarioRuns
  BY <1>1, KindFacts DEF Places, CasePlaces, StreamPlaces
<1>4. recordStatus' \in [Records -> ActiveStatuses \cup Outcomes]
  BY <1>1 DEF TypeOK, ActiveStatuses
<1>5. listed' \subseteq Records
  BY <1>1 DEF TypeOK, Records, QueueRecord
<1>6. \A q \in Runs : recordStatus'[<<q, "run">>] = recordStatus[<<q, "run">>]
  BY <1>1, <1>3 DEF TypeOK, Records, QueueRecord
<1>7. TypeOK'
  BY <1>1, <1>2, <1>3, <1>4, <1>5, <1>6 DEF TypeOK, PCs, ActiveStatuses
<1>8. Places'
  BY <1>1, <1>2, <1>3, <1>4, <1>5, <1>6, KindFacts DEF Places, CasePlaces,
     ScenarioPlaces, StreamPlaces
<1>9. SlotsHeld'
  BY <1>1, <1>2, <1>3, <1>4, <1>5, <1>6, KindFacts DEF SlotsHeld, Queueing, Holding,
     TypeOK, Runs, QueuedRuns
<1>10. Listing'
  BY <1>1, <1>2, <1>3, <1>4, <1>5, <1>6, KindFacts DEF Listing, RunListed, QueueListed,
     QueueRecord, CasePlaces, StreamPlaces
<1>11. RowsOwed'
  BY <1>1, <1>2, <1>3, <1>4, <1>5, <1>6, KindFacts DEF RowsOwed, RowOf, TypeOK, Rows,
     ActiveStatuses, Outcomes, CaseOwes, ScenarioOwes, StreamOwes, Runs, QueuedRuns
<1>12. CancelHeard'
  BY <1>1, <1>2, <1>3, <1>4, <1>5, <1>6, KindFacts DEF CancelHeard
<1> QED  BY <1>7, <1>8, <1>9, <1>10, <1>11, <1>12

LEMMA CancelMatchStep ==
    ASSUME IInv, NEW runs \in SUBSET Runs, CancelMatch(runs)
    PROVE  IInv'
<1> USE DEF IInv
<1>1. /\ cancels < MaxCancels
      /\ cancels' = cancels + 1
      /\ canceller' = [phase |-> "marking", targets |-> runs,
           todo |-> {o \in listed : o[1] \in runs /\ recordStatus[o] \in ActiveStatuses},
           hit |-> {}, rows |-> {}]
      /\ UNCHANGED <<pc, queued, outcome, row, listed, recordStatus, signalled,
                     deviceEvent, pending, holders, unlocker, wanted>>
  BY DEF CancelMatch, registryVars, slotVars, cancelVars, NoCancel
<1>2. cancels' \in 0 .. MaxCancels
  BY <1>1, RunAssumption DEF TypeOK
<1>3. TypeOK'
  BY <1>1, <1>2 DEF TypeOK
<1>4. Places'
  BY <1>1, <1>2 DEF Places
<1>5. SlotsHeld'
  BY <1>1, <1>2 DEF SlotsHeld
<1>6. Listing'
  BY <1>1, <1>2 DEF Listing, RunListed, QueueListed
<1>7. RowsOwed'
  BY <1>1, <1>2 DEF RowsOwed
<1>8. CancelHeard'
  BY <1>1, <1>2 DEF CancelHeard, Listing, QueueListed
<1> QED  BY <1>3, <1>4, <1>5, <1>6, <1>7, <1>8

LEMMA CancelRecordStep ==
    ASSUME IInv, NEW o \in Records, CancelRecord(o)
    PROVE  IInv'
<1> USE DEF IInv
<1>1. /\ o \in canceller.todo
      /\ recordStatus' = [recordStatus EXCEPT ![o] = "ABORTED"]
      /\ signalled' = signalled \cup {o}
      /\ canceller' = [canceller EXCEPT
           !.todo = @ \ {o},
           !.hit = IF recordStatus[o] = "QUEUED" THEN @ ELSE @ \cup {DeviceOf[o[1]]}]
      /\ wanted' = IF outcome[o[1]] = "none" THEN wanted \cup {o[1]} ELSE wanted
      /\ UNCHANGED <<pc, queued, outcome, row, listed, deviceEvent, pending, holders,
                     cancels, unlocker>>
  BY DEF CancelRecord, registryVars, slotVars, cancelVars
<1>2. o[1] \in Runs
  BY DEF Records
<1>3. PICK ds \in SUBSET Devices : canceller' = [canceller EXCEPT !.todo = @ \ {o}, !.hit = ds]
  <2>1. DeviceOf[o[1]] \in Devices /\ canceller.hit \in SUBSET Devices
    BY <1>2, RunAssumption DEF TypeOK
  <2>2. CASE recordStatus[o] = "QUEUED"
    BY <1>1, <2>1, <2>2
  <2>3. CASE recordStatus[o] # "QUEUED"
    <3>1. canceller.hit \cup {DeviceOf[o[1]]} \in SUBSET Devices
      BY <2>1
    <3> QED  BY <1>1, <2>3, <3>1
  <2> QED  BY <2>2, <2>3
<1>4. canceller' \in [phase : {"idle", "marking", "rows"}, targets : SUBSET Runs,
                       todo : SUBSET Records, hit : SUBSET Devices, rows : SUBSET Rows]
  <2>1. canceller \in [phase : {"idle", "marking", "rows"}, targets : SUBSET Runs,
                        todo : SUBSET Records, hit : SUBSET Devices, rows : SUBSET Rows]
    BY DEF TypeOK
  <2> QED  BY <1>3, <2>1
<1>5. canceller'.todo \subseteq canceller.todo
  BY <1>3 DEF TypeOK
<1>6. TypeOK'
  BY <1>1, <1>2, <1>3, <1>4, <1>5, RunAssumption DEF TypeOK, Outcomes
<1>7. Places'
  BY <1>1, <1>2, <1>3, <1>4, <1>5 DEF Places
<1>8. SlotsHeld'
  BY <1>1, <1>2, <1>3, <1>4, <1>5 DEF SlotsHeld
<1>9. Listing'
  BY <1>1, <1>2, <1>3, <1>4, <1>5 DEF Listing, RunListed, QueueListed, TypeOK, Records
<1>10. RowsOwed'
  BY <1>1, <1>2, <1>3, <1>4, <1>5 DEF RowsOwed
<1>11. CancelHeard'
  BY <1>1, <1>2, <1>3, <1>4, <1>5 DEF CancelHeard, TypeOK, Records
<1> QED  BY <1>6, <1>7, <1>8, <1>9, <1>10, <1>11

LEMMA CancelSignalStep ==
    ASSUME IInv, NEW d \in Devices, CancelSignal(d)
    PROVE  IInv'
<1> USE DEF IInv
<1>1. /\ signalled' = signalled \cup EventsOf({d})
      /\ canceller' = [canceller EXCEPT !.hit = @ \ {d}]
      /\ UNCHANGED <<pc, queued, outcome, row, listed, recordStatus, deviceEvent, pending,
                     holders, cancels, unlocker, wanted>>
  BY DEF CancelSignal, registryVars, slotVars, cancelVars
<1>2. EventsOf({d}) \subseteq Records
  BY DEF EventsOf, RunRecord, Records, TypeOK
<1>3. TypeOK'
  BY <1>1, <1>2 DEF TypeOK
<1>4. Places'
  BY <1>1, <1>2 DEF Places
<1>5. SlotsHeld'
  BY <1>1, <1>2 DEF SlotsHeld
<1>6. Listing'
  BY <1>1, <1>2 DEF Listing, RunListed, QueueListed
<1>7. RowsOwed'
  BY <1>1, <1>2 DEF RowsOwed
<1>8. CancelHeard'
  BY <1>1, <1>2 DEF CancelHeard, TypeOK
<1> QED  BY <1>3, <1>4, <1>5, <1>6, <1>7, <1>8

LEMMA CancelReadRowsStep ==
    ASSUME IInv, CancelReadRows
    PROVE  IInv'
<1> USE DEF IInv
<1>1. /\ canceller' = [canceller EXCEPT !.phase = "rows",
           !.rows = {x \in {RowOf(r) : r \in canceller.targets} :
                        row[x] \in IF x = TheCase THEN ActiveStatuses \cup {"ENDED", "ERROR"}
                                   ELSE ActiveStatuses}]
      /\ UNCHANGED <<pc, queued, outcome, row, listed, recordStatus, signalled,
                     deviceEvent, pending, holders, cancels, unlocker, wanted>>
  BY DEF CancelReadRows, registryVars, slotVars, cancelVars
<1>2. \A r \in canceller.targets : RowOf(r) \in Rows
  BY DEF RowOf, Rows, TypeOK
<1>3. \E xs \in SUBSET Rows : canceller' = [canceller EXCEPT !.phase = "rows", !.rows = xs]
  BY <1>1, <1>2
<1>4. TypeOK'
  BY <1>1, <1>3 DEF TypeOK
<1>5. Places'
  BY <1>1, <1>2, <1>3 DEF Places
<1>6. SlotsHeld'
  BY <1>1, <1>2, <1>3 DEF SlotsHeld
<1>7. Listing'
  BY <1>1, <1>2, <1>3 DEF Listing, RunListed, QueueListed
<1>8. RowsOwed'
  BY <1>1, <1>2, <1>3 DEF RowsOwed
<1>9. CancelHeard'
  BY <1>1, <1>3 DEF CancelHeard, TypeOK
<1> QED  BY <1>4, <1>5, <1>6, <1>7, <1>8, <1>9

LEMMA CancelWriteRowsStep ==
    ASSUME IInv, CancelWriteRows
    PROVE  IInv'
<1> USE DEF IInv
<1>1. /\ row' = [x \in Rows |-> IF x \in canceller.rows /\ row[x] # "GONE"
                              THEN "ABORTED" ELSE row[x]]
      /\ canceller' = [phase |-> "idle", targets |-> {}, todo |-> {}, hit |-> {}, rows |-> {}]
      /\ UNCHANGED <<pc, queued, outcome, listed, recordStatus, signalled, deviceEvent,
                     pending, holders, cancels, unlocker, wanted>>
  BY DEF CancelWriteRows, registryVars, slotVars, cancelVars, NoCancel
<1>2. TypeOK'
  BY <1>1 DEF TypeOK, Outcomes
<1>3. Places'
  BY <1>1 DEF Places
<1>4. SlotsHeld'
  BY <1>1 DEF SlotsHeld
<1>5. Listing'
  BY <1>1 DEF Listing, RunListed, QueueListed
<1>6. RowsOwed'
  BY <1>1 DEF RowsOwed, ActiveStatuses, Outcomes, TypeOK, Rows
<1>7. CancelHeard'
  BY <1>1 DEF CancelHeard
<1> QED  BY <1>2, <1>3, <1>4, <1>5, <1>6, <1>7

LEMMA UnlockStep ==
    ASSUME IInv, NEW d \in Devices, Unlock(d)
    PROVE  IInv'
<1> USE DEF IInv
<1>1. /\ signalled' = signalled \cup EventsOf({d})
      /\ unlocker' = [phase |-> "signalled", device |-> d, rows |-> {}]
      /\ UNCHANGED <<pc, queued, outcome, row, listed, recordStatus, deviceEvent, pending,
                     holders, canceller, cancels, wanted>>
  BY DEF Unlock, registryVars, slotVars, cancelVars, NoUnlock
<1>2. EventsOf({d}) \subseteq Records
  BY DEF EventsOf, RunRecord, Records, TypeOK
<1>3. TypeOK'
  BY <1>1, <1>2 DEF TypeOK
<1>4. Places'
  BY <1>1, <1>2 DEF Places
<1>5. SlotsHeld'
  BY <1>1, <1>2 DEF SlotsHeld
<1>6. Listing'
  BY <1>1, <1>2 DEF Listing, RunListed, QueueListed
<1>7. RowsOwed'
  BY <1>1, <1>2 DEF RowsOwed
<1>8. CancelHeard'
  BY <1>1, <1>2 DEF CancelHeard
<1> QED  BY <1>3, <1>4, <1>5, <1>6, <1>7, <1>8

LEMMA UnlockReadRowsStep ==
    ASSUME IInv, UnlockReadRows
    PROVE  IInv'
<1> USE DEF IInv
<1>1. /\ \E xs \in SUBSET ScenarioRuns : unlocker' = [unlocker EXCEPT !.phase = "rows", !.rows = xs]
      /\ UNCHANGED <<pc, queued, outcome, row, listed, recordStatus, signalled,
                     deviceEvent, pending, holders, canceller, cancels, wanted>>
  BY DEF UnlockReadRows, registryVars, slotVars, cancelVars, Rows
<1>2. TypeOK'
  BY <1>1 DEF TypeOK
<1>3. Places'
  BY <1>1 DEF Places
<1>4. SlotsHeld'
  BY <1>1 DEF SlotsHeld
<1>5. Listing'
  BY <1>1 DEF Listing, RunListed, QueueListed
<1>6. RowsOwed'
  BY <1>1 DEF RowsOwed
<1>7. CancelHeard'
  BY <1>1 DEF CancelHeard
<1> QED  BY <1>2, <1>3, <1>4, <1>5, <1>6, <1>7

LEMMA UnlockWriteRowsStep ==
    ASSUME IInv, UnlockWriteRows
    PROVE  IInv'
<1> USE DEF IInv
<1>1. /\ row' = [x \in Rows |-> IF x \in unlocker.rows THEN "ERROR" ELSE row[x]]
      /\ unlocker' = [phase |-> "idle", device |-> NoDevice, rows |-> {}]
      /\ UNCHANGED <<pc, queued, outcome, listed, recordStatus, signalled, deviceEvent,
                     pending, holders, canceller, cancels, wanted>>
  BY DEF UnlockWriteRows, registryVars, slotVars, cancelVars, NoUnlock
<1>2. TypeOK'
  BY <1>1 DEF TypeOK, Outcomes
<1>3. Places'
  BY <1>1 DEF Places
<1>4. SlotsHeld'
  BY <1>1 DEF SlotsHeld
<1>5. Listing'
  BY <1>1 DEF Listing, RunListed, QueueListed
<1>6. RowsOwed'
  BY <1>1 DEF RowsOwed, ActiveStatuses, Outcomes, TypeOK, Rows
<1>7. CancelHeard'
  BY <1>1 DEF CancelHeard
<1> QED  BY <1>2, <1>3, <1>4, <1>5, <1>6, <1>7

LEMMA DisconnectStep ==
    ASSUME IInv, NEW r \in Runs, Disconnect(r)
    PROVE  IInv'
<1> USE DEF IInv
<1>1. /\ signalled' = signalled \cup {<<r, "run">>}
      /\ UNCHANGED <<pc, queued, outcome, row, listed, recordStatus, deviceEvent, pending,
                     holders, canceller, cancels, unlocker, wanted>>
  BY DEF Disconnect, registryVars, slotVars, cancelVars, RunRecord
<1>2. TypeOK'
  BY <1>1 DEF TypeOK, Records
<1>3. Places'
  BY <1>1 DEF Places
<1>4. SlotsHeld'
  BY <1>1 DEF SlotsHeld
<1>5. Listing'
  BY <1>1 DEF Listing, RunListed, QueueListed
<1>6. RowsOwed'
  BY <1>1 DEF RowsOwed
<1>7. CancelHeard'
  BY <1>1 DEF CancelHeard
<1> QED  BY <1>2, <1>3, <1>4, <1>5, <1>6, <1>7

LEMMA DeleteCaseStep ==
    ASSUME IInv, DeleteCase
    PROVE  IInv'
<1> USE DEF IInv
<1>1. /\ row' = [row EXCEPT ![TheCase] = "GONE"]
      /\ UNCHANGED <<pc, queued, outcome, listed, recordStatus, signalled, deviceEvent,
                     pending, holders, canceller, cancels, unlocker, wanted>>
  BY DEF DeleteCase, registryVars, slotVars, cancelVars
<1>2. TypeOK'
  BY <1>1 DEF TypeOK
<1>3. Places'
  BY <1>1 DEF Places
<1>4. SlotsHeld'
  BY <1>1 DEF SlotsHeld
<1>5. Listing'
  BY <1>1 DEF Listing, RunListed, QueueListed
<1>6. RowsOwed'
  BY <1>1, KindFacts DEF RowsOwed, ActiveStatuses, Outcomes, TypeOK, Rows, Runs,
     QueuedRuns
<1>7. CancelHeard'
  BY <1>1 DEF CancelHeard
<1> QED  BY <1>2, <1>3, <1>4, <1>5, <1>6, <1>7

-----------------------------------------------------------------------------
(* All steps together.                                                       *)

LEMMA InitForIInv ==
    ASSUME NEW parties \in SUBSET Runs, NEW used \in 0 .. MaxCancels, InitFor(parties, used)
    PROVE  IInv
<1> USE DEF InitFor
<1>1. TypeOK
  <2>1. NoCancel \in [phase : {"idle", "marking", "rows"}, targets : SUBSET Runs,
                      todo : SUBSET Records, hit : SUBSET Devices, rows : SUBSET Rows]
    BY DEF NoCancel
  <2>2. NoUnlock \in [phase : {"idle", "signalled", "rows"}, device : Devices \cup {NoDevice},
                      rows : SUBSET ScenarioRuns]
    BY DEF NoUnlock
  <2> QED  BY <2>1, <2>2 DEF TypeOK, PCs, Outcomes, ActiveStatuses, Slots!Init
<1>2. Places
  BY DEF Places, CasePlaces, ScenarioPlaces, StreamPlaces, Runs, QueuedRuns
<1>3. SlotsHeld
  BY DEF SlotsHeld, Slots!Init, Queueing, Holding, Runs
<1>4. Listing
  BY DEF Listing, RunListed, QueueListed
<1>5. RowsOwed
  BY DEF RowsOwed, ActiveStatuses, Rows
<1>6. CancelHeard
  BY DEF CancelHeard, NoCancel
<1> QED  BY <1>1, <1>2, <1>3, <1>4, <1>5, <1>6 DEF IInv

LEMMA InitIInv == Init => IInv
<1>1. Runs \in SUBSET Runs /\ 0 \in 0 .. MaxCancels
  BY RunAssumption
<1> QED  BY <1>1, InitForIInv DEF Init

LEMMA StepIInv == IInv /\ [Next]_vars => IInv'
<1> SUFFICES ASSUME IInv, [Next]_vars PROVE IInv'
  OBVIOUS
<1>1. ASSUME NEW r \in Runs, Ask(r) \/ Advance(r) PROVE IInv'
  <2>1. CASE CreateRow(r) \/ Enqueue(r) \/ MakeRecord(r) \/ StartRow(r) \/ UndoEvent(r)
    BY <2>1, CreateRowStep, EnqueueStep, MakeRecordStep, StartRowStep, UndoEventStep
  <2>2. CASE CheckRow(r) \/ Granted(r) \/ CloseRow(r) \/ CloseRecord(r)
    BY <2>2, CheckAbortedStep, CheckWaitsStep, GrantedStep, CloseRowStep, CloseRecordStep
  <2>3. CASE Promote(r) \/ PromoteRow(r) \/ Install(r) \/ DropQueueRecord(r)
    BY <2>3, PromoteStep, PromoteRowStep, InstallStep, DropQueueRecordStep
  <2>4. CASE BeginRun(r) \/ CaseGone(r) \/ ReadRow(r) \/ StartScenario(r) \/ Prepare(r)
    BY <2>4, BeginRunStep, CaseGoneStep, ReadRowStep, StartScenarioStep, PrepareStep
  <2>5. CASE WriteOutcome(r) \/ FinalizeStream(r) \/ Unregister(r) \/ UnlistRun(r)
             \/ ReleaseSlot(r)
    BY <2>5, WriteOutcomeStep, FinalizeStreamStep, UnregisterStep, UnlistRunStep,
       ReleaseSlotStep
  <2> QED  BY <1>1, <2>1, <2>2, <2>3, <2>4, <2>5 DEF Ask, Advance
<1>2. ASSUME NEW r \in Runs,
             WaitEnds(r) \/ EndTask(r) \/ HandlerFails(r) \/ PromoteFails(r) \/ StreamFails(r)
             \/ Disconnect(r)
      PROVE  IInv'
  BY <1>2, WaitEndsStep, EndTaskStep, HandlerFailsStep, PromoteFailsStep, StreamFailsStep,
     DisconnectStep
<1>3. ASSUME NEW runs \in CancelRequests, CancelMatch(runs) PROVE IInv'
  <2>1. runs \in SUBSET Runs
    BY DEF CancelRequests, Runs, QueuedRuns
  <2> QED  BY <1>3, <2>1, CancelMatchStep
<1>4. CASE (\E o \in Records : CancelRecord(o)) \/ (\E d \in Devices : CancelSignal(d))
           \/ CancelReadRows \/ CancelWriteRows
  BY <1>4, CancelRecordStep, CancelSignalStep, CancelReadRowsStep, CancelWriteRowsStep
<1>5. CASE DeleteCase \/ (\E d \in Devices : Unlock(d)) \/ UnlockReadRows \/ UnlockWriteRows
  BY <1>5, DeleteCaseStep, UnlockStep, UnlockReadRowsStep, UnlockWriteRowsStep
<1>6. CASE UNCHANGED vars
  BY <1>6 DEF vars, IInv, TypeOK, Places, SlotsHeld, Listing, RunListed, QueueListed,
     RowsOwed,
              CancelHeard
<1> QED  BY <1>1, <1>2, <1>3, <1>4, <1>5, <1>6 DEF Next, Cancel

-----------------------------------------------------------------------------
(* The event of the device, when all runs are of one kind.                   *)

(* Two runs that hold, or were given, a slot for one device are the same run. *)
LEMMA Alone ==
    ASSUME IInv, NEW r \in QueuedRuns, NEW q \in QueuedRuns,
           pc[r] \in Holding \/ (pc[r] \in Queueing /\ r \notin queued),
           pc[q] \in Holding \/ (pc[q] \in Queueing /\ q \notin queued),
           DeviceOf[q] = DeviceOf[r]
    PROVE  q = r
BY DEF IInv, SlotsHeld

(* A step that registers no event and brings no run where it needs one.      *)
LEMMA OccupiedRest ==
    ASSUME Occupied, UNCHANGED deviceEvent, queued \subseteq queued',
           row[TheCase] = "GONE" => row'[TheCase] = "GONE",
           \A r \in Runs : pc'[r] = "running" => pc[r] = "running",
           \A r \in CaseRuns :
              pc'[r] \in {"ready", "recorded", "undoing"} => pc[r] = pc'[r]
    PROVE  Occupied'
BY DEF Occupied, Runs, QueuedRuns

LEMMA StepOccupied ==
    ASSUME IInv, OneKind, Occupied, [Next]_vars
    PROVE  Occupied'
<1> USE KindFacts, RunAssumption DEF IInv
<1>0. Streams = {} /\ Runs = QueuedRuns /\ (CaseRuns = {} \/ ScenarioRuns = {})
  BY DEF OneKind, Runs, QueuedRuns
<1>1. ASSUME NEW r \in Runs,
             \/ CreateRow(r) \/ Enqueue(r) \/ CheckRow(r) \/ Granted(r) \/ CloseRow(r)
             \/ CloseRecord(r) \/ Promote(r) \/ PromoteRow(r) \/ DropQueueRecord(r)
             \/ CaseGone(r) \/ ReadRow(r) \/ StartScenario(r) \/ WriteOutcome(r)
             \/ FinalizeStream(r) \/ UnlistRun(r) \/ ReleaseSlot(r) \/ WaitEnds(r)
             \/ EndTask(r) \/ PromoteFails(r) \/ StreamFails(r) \/ Disconnect(r)
      PROVE  Occupied'
  <2>1. UNCHANGED deviceEvent /\ queued \subseteq queued'
    BY <1>1 DEF CreateRow, Enqueue, CheckRow, Granted, CloseRow, CloseRecord, Promote,
       PromoteRow,
       DropQueueRecord, CaseGone, ReadRow, StartScenario, WriteOutcome, FinalizeStream, UnlistRun,
       ReleaseSlot, WaitEnds, EndTask, PromoteFails, StreamFails, Disconnect
  <2>2. row' = row \/ \E s \in ActiveStatuses \cup Outcomes \cup {"none"} : WriteRow(r, s)
    BY <1>1 DEF CreateRow, Enqueue, CheckRow, Granted, CloseRow, CloseRecord, Promote,
       PromoteRow,
       DropQueueRecord, CaseGone, ReadRow, StartScenario, WriteOutcome, FinalizeStream, UnlistRun,
       ReleaseSlot, WaitEnds, EndTask, PromoteFails, StreamFails, Disconnect, ActiveStatuses,
       Outcomes, TypeOK
  <2>3. row[TheCase] = "GONE" => row'[TheCase] = "GONE"
    BY <2>2 DEF WriteRow, TypeOK, Rows
  <2>4. \/ pc' = pc
        \/ \E to \in PCs \ {"running", "recorded", "undoing"} :
              /\ pc' = [pc EXCEPT ![r] = to]
              /\ to = "ready" => r \in ScenarioRuns
    BY <1>0, <1>1 DEF CreateRow, Enqueue, CheckRow, Granted, CloseRow, CloseRecord,
       Promote,
       PromoteRow, DropQueueRecord, CaseGone, ReadRow, StartScenario, WriteOutcome,
       FinalizeStream, UnlistRun, ReleaseSlot, WaitEnds, EndTask, PromoteFails, StreamFails,
       Disconnect, Goto, PCs
  <2>5. /\ \A q \in Runs : pc'[q] = "running" => pc[q] = "running"
        /\ \A q \in CaseRuns :
              pc'[q] \in {"ready", "recorded", "undoing"} => pc[q] = pc'[q]
    <3>1. CASE pc' = pc
      BY <3>1
    <3>2. CASE \E to \in PCs \ {"running", "recorded", "undoing"} :
                 /\ pc' = [pc EXCEPT ![r] = to]
                 /\ to = "ready" => r \in ScenarioRuns
      <4> PICK to \in PCs \ {"running", "recorded", "undoing"} :
                 /\ pc' = [pc EXCEPT ![r] = to]
                 /\ to = "ready" => r \in ScenarioRuns
        BY <3>2
      <4>1. \A q \in Runs : pc'[q] = IF q = r THEN to ELSE pc[q]
        BY DEF TypeOK
      <4> QED  BY <4>1, <1>1 DEF Runs, QueuedRuns
    <3> QED  BY <2>4, <3>1, <3>2
  <2> QED  BY <2>1, <2>3, <2>5, OccupiedRest
<1>2. CASE \/ \E runs \in CancelRequests : CancelMatch(runs)
           \/ \E o \in Records : CancelRecord(o)
           \/ \E d \in Devices : CancelSignal(d) \/ Unlock(d)
           \/ CancelReadRows \/ CancelWriteRows \/ DeleteCase \/ UnlockReadRows
           \/ UnlockWriteRows
  <2>1. UNCHANGED <<pc, queued, deviceEvent>>
    BY <1>2 DEF CancelMatch, CancelRecord, CancelSignal, Unlock, CancelReadRows,
       CancelWriteRows,
       DeleteCase, UnlockReadRows, UnlockWriteRows
  <2>2. row[TheCase] = "GONE" => row'[TheCase] = "GONE"
    <3>1. CASE CancelWriteRows
      BY <3>1 DEF CancelWriteRows, Rows
    <3>2. CASE UnlockWriteRows
      BY <3>2 DEF UnlockWriteRows, Rows, TypeOK, Runs, QueuedRuns
    <3>3. CASE DeleteCase
      BY <3>3 DEF DeleteCase, TypeOK, Rows
    <3> QED  BY <1>2, <3>1, <3>2, <3>3 DEF CancelMatch, CancelRecord, CancelSignal,
                Unlock,
             CancelReadRows, UnlockReadRows
  <2> QED  BY <2>1, <2>2, OccupiedRest
<1>3. ASSUME NEW r \in Runs, StartRow(r) PROVE Occupied'
  <2>1. /\ pc[r] \in {"recorded", "enqueued"} /\ UNCHANGED <<deviceEvent, queued>>
        /\ \A q \in Runs \ {r} : pc'[q] = pc[q]
        /\ pc'[r] \in {"ready", "checking", "waiting"}
        /\ r \in CaseRuns => pc[r] = "recorded"
        /\ pc'[r] = "ready" => r \notin queued
        /\ row' = row \/ \E s \in {"QUEUED", "RUNNING"} : WriteRow(r, s)
    BY <1>3 DEF StartRow, Goto, TypeOK
  <2>2. row[TheCase] = "GONE" <=> row'[TheCase] = "GONE"
    BY <2>1 DEF WriteRow, TypeOK, Rows, RowOf
  <2> QED  BY <2>1, <2>2 DEF Occupied, Runs, QueuedRuns
<1>4. ASSUME NEW r \in Runs, HandlerFails(r) PROVE Occupied'
  <2>1. /\ r \in CaseRuns /\ pc[r] = "recorded" /\ UNCHANGED <<deviceEvent, queued, row>>
        /\ \A q \in Runs \ {r} : pc'[q] = pc[q]
        /\ pc'[r] = IF r \in queued THEN "unlisting" ELSE "undoing"
    BY <1>4 DEF HandlerFails, Goto, TypeOK
  <2>2. row[TheCase] = "GONE"
    BY <1>4, <2>1 DEF HandlerFails, StartFails, OneKind
  <2>3. r \notin queued =>
           \A q \in Runs : DeviceOf[q] = DeviceOf[r] /\ pc[q] = "running" => q = r
    BY <1>0, <2>1, Alone DEF Holding, Queueing
  <2>4. \A q \in Runs : pc'[q] = "running" => pc[q] = "running" /\ q # r
    BY <2>1
  <2> QED  BY <2>1, <2>2, <2>3, <2>4 DEF Occupied, Runs, QueuedRuns
<1>5. ASSUME NEW r \in Runs, UndoEvent(r) PROVE Occupied'
  <2>1. /\ pc[r] = "undoing" /\ UNCHANGED <<queued, row>>
        /\ \A q \in Runs \ {r} : pc'[q] = pc[q]
        /\ pc'[r] = "unlisting"
        /\ \A q \in Runs : DeviceOf[q] # DeviceOf[r] =>
              deviceEvent'[DeviceOf[q]] = deviceEvent[DeviceOf[q]]
    BY <1>5 DEF UndoEvent, UnregisterEvent, Goto, TypeOK
  <2>2. r \in CaseRuns
    BY <2>1, <1>0 DEF Places, ScenarioPlaces, Runs, QueuedRuns
  <2> QED  BY <2>1, <2>2 DEF Occupied, Runs, QueuedRuns
<1>6. ASSUME NEW r \in Runs, Unregister(r) PROVE Occupied'
  <2>1. /\ pc[r] = "unregistering" /\ UNCHANGED <<queued, row>>
        /\ \A q \in Runs \ {r} : pc'[q] = pc[q]
        /\ pc'[r] = "unlisting"
        /\ \A q \in Runs : DeviceOf[q] # DeviceOf[r] =>
              deviceEvent'[DeviceOf[q]] = deviceEvent[DeviceOf[q]]
    BY <1>6 DEF Unregister, UnregisterEvent, Goto, TypeOK
  <2>2. \A q \in Runs :
          pc[q] \in {"running", "ready"} \/ (pc[q] = "recorded" /\ q \notin queued)
          => DeviceOf[q] # DeviceOf[r]
    BY <1>0, <2>1, Alone DEF Holding, Queueing
  <2> QED  BY <2>1, <2>2 DEF Occupied, Runs, QueuedRuns
<1>7. ASSUME NEW r \in Runs, MakeRecord(r) \/ Install(r) \/ Prepare(r) PROVE Occupied'
  <2>1. /\ UNCHANGED queued
        /\ \A q \in Runs \ {r} : pc'[q] = pc[q]
        /\ \/ pc[r] = "enqueued" /\ pc'[r] = "recorded"
           \/ pc[r] = "installing" /\ pc'[r] = "ready"
           \/ pc[r] = "preparing" /\ pc'[r] = "running" /\ r \in ScenarioRuns
        /\ deviceEvent' = IF pc[r] = "enqueued" /\ r \in queued THEN deviceEvent
                          ELSE [deviceEvent EXCEPT ![DeviceOf[r]] = r]
        /\ UNCHANGED row
    BY <1>7, <1>0 DEF MakeRecord, Install, Prepare, RegisterEvent, Goto, TypeOK, Places,
       CasePlaces, Runs, QueuedRuns
  <2>2. CASE pc[r] = "enqueued" /\ r \in queued
    BY <2>1, <2>2 DEF Occupied, Runs, QueuedRuns
  <2>3. CASE ~(pc[r] = "enqueued" /\ r \in queued)
    <3>1. \A q \in Runs \ {r} :
            pc[q] \in {"running", "ready"} \/ (pc[q] = "recorded" /\ q \notin queued)
            => DeviceOf[q] # DeviceOf[r]
      BY <1>0, <2>1, <2>3, Alone DEF Holding, Queueing
    <3>2. \A q \in Runs : deviceEvent'[DeviceOf[q]] =
            IF DeviceOf[q] = DeviceOf[r] THEN r ELSE deviceEvent[DeviceOf[q]]
      BY <2>1, <2>3 DEF TypeOK
    <3>3. pc'[r] = "running" => CaseRuns = {}
      BY <1>0, <2>1
    <3> QED  BY <2>1, <3>1, <3>2, <3>3 DEF Occupied, Runs, QueuedRuns
  <2> QED  BY <2>2, <2>3
<1>8. ASSUME NEW r \in Runs, BeginRun(r) PROVE Occupied'
  <2>1. /\ r \in CaseRuns /\ pc[r] = "ready" /\ row[TheCase] # "GONE"
        /\ UNCHANGED <<queued, row, deviceEvent>>
        /\ \A q \in Runs \ {r} : pc'[q] = pc[q]
        /\ pc'[r] = "running"
    BY <1>0, <1>8 DEF BeginRun, Goto, TypeOK
  <2> QED  BY <2>1 DEF Occupied, Runs, QueuedRuns
<1>9. CASE UNCHANGED vars
  BY <1>9 DEF vars, Occupied
<1> QED  BY <1>1, <1>2, <1>3, <1>4, <1>5, <1>6, <1>7, <1>8, <1>9 DEF Next, Cancel, Ask,
            Advance

-----------------------------------------------------------------------------
(* When kinds of runs meet.                                                  *)

(* No case or WebSocket run was asked for.                                   *)
Absent == \A r \in CaseRuns \cup Streams : outcome[r] = "none" /\ pc[r] = "done"

(* Such a run is on its way out only with an outcome: whoever is done without *)
(* one never started.                                                        *)
Leaving == {"undoing", "finalizing", "unregistering", "unlisting", "releasing"}
Decided == \A r \in CaseRuns \cup Streams : pc[r] \in Leaving => outcome[r] # "none"

MixInv == IInv /\ Decided /\ (Absent => OccupantHearsDevice)

(* What a step of r does to the places and outcomes of runs.                 *)
LEMMA OutcomeStep ==
    ASSUME IInv, Decided, NEW r \in Runs,
           \/ Ask(r) \/ Advance(r) \/ WaitEnds(r) \/ EndTask(r) \/ HandlerFails(r)
           \/ PromoteFails(r) \/ StreamFails(r) \/ Disconnect(r)
    PROVE  /\ \A q \in Runs \ {r} : pc'[q] = pc[q] /\ outcome'[q] = outcome[q]
           /\ outcome[r] # "none" => outcome'[r] # "none"
           /\ r \notin ScenarioRuns =>
                 /\ pc'[r] \in Leaving => outcome'[r] # "none"
                 /\ pc[r] # "done" /\ pc'[r] = "done" => outcome'[r] # "none"
<1> USE KindFacts DEF IInv
<1>0. pc \in [Runs -> PCs] /\ outcome \in [Runs -> Outcomes \cup {"none"}]
  BY DEF TypeOK
<1>1. CASE \/ CreateRow(r) \/ Enqueue(r) \/ MakeRecord(r) \/ StartRow(r) \/ CheckRow(r)
           \/ Granted(r) \/ CloseRow(r) \/ Promote(r) \/ PromoteRow(r) \/ Install(r)
           \/ DropQueueRecord(r) \/ BeginRun(r) \/ ReadRow(r) \/ StartScenario(r)
           \/ Prepare(r) \/ PromoteFails(r) \/ Disconnect(r)
  <2>1. outcome' = outcome
    BY <1>1 DEF CreateRow, Enqueue, MakeRecord, StartRow, CheckRow, Granted, CloseRow,
       Promote, PromoteRow, Install, DropQueueRecord, BeginRun, ReadRow, StartScenario, Prepare,
       PromoteFails, Disconnect
  <2>2. CASE r \in ScenarioRuns
    BY <1>0, <1>1, <2>1, <2>2 DEF CreateRow, Enqueue, MakeRecord, StartRow, CheckRow,
       Granted, CloseRow, Promote, PromoteRow, Install, DropQueueRecord, BeginRun, ReadRow,
       StartScenario, Prepare, PromoteFails, Disconnect, Goto
  <2>3. CASE r \notin ScenarioRuns
    <3>1. pc' = pc \/ \E to \in PCs \ (Leaving \cup {"done"}) : pc' = [pc EXCEPT ![r] = to]
      <4>1. pc[r] # "checking"
        BY <2>3 DEF Places, CasePlaces, StreamPlaces
      <4> QED  BY <1>1, <2>3, <4>1 DEF CreateRow, Enqueue, MakeRecord, StartRow, CheckRow,
           Granted, CloseRow, Promote, PromoteRow, Install, DropQueueRecord, BeginRun, ReadRow,
           StartScenario, Prepare, PromoteFails, Disconnect, Goto, PCs, Leaving, Places
    <3>2. \A q \in Runs \ {r} : pc'[q] = pc[q]
      BY <1>0, <3>1
    <3>3. pc'[r] = pc[r] \/ pc'[r] \notin Leaving \cup {"done"}
      BY <1>0, <3>1
    <3> QED  BY <1>0, <2>1, <2>3, <3>2, <3>3 DEF Decided
  <2> QED  BY <2>2, <2>3
<1>2. CASE HandlerFails(r) \/ CaseGone(r) \/ StreamFails(r) \/ WaitEnds(r) \/ EndTask(r)
  <2>1. \E to \in PCs \ {"done"} : pc' = [pc EXCEPT ![r] = to]
    BY <1>2 DEF HandlerFails, CaseGone, StreamFails, WaitEnds, EndTask, Goto, PCs
  <2>2. \E x : x # "none" /\ outcome' = [outcome EXCEPT ![r] = x]
    BY <1>2 DEF HandlerFails, CaseGone, StreamFails, WaitEnds, EndTask
  <2> QED  BY <1>0, <2>1, <2>2
<1>3. CASE UndoEvent(r) \/ CloseRecord(r) \/ WriteOutcome(r) \/ FinalizeStream(r)
           \/ Unregister(r) \/ UnlistRun(r) \/ ReleaseSlot(r)
  <2>1. outcome' = outcome /\ \E to \in PCs : pc' = [pc EXCEPT ![r] = to]
    BY <1>3 DEF UndoEvent, CloseRecord, WriteOutcome, FinalizeStream, Unregister, UnlistRun,
       ReleaseSlot, Goto, PCs
  <2>2. pc[r] \in Leaving \cup {"closed", "reporting"}
    BY <1>3 DEF UndoEvent, CloseRecord, WriteOutcome, FinalizeStream, Unregister, UnlistRun,
       ReleaseSlot, Leaving
  <2>3. r \notin ScenarioRuns => outcome[r] # "none"
    BY <2>2 DEF Places, Decided
  <2> QED  BY <1>0, <2>1, <2>3
<1> QED  BY <1>1, <1>2, <1>3 DEF Ask, Advance

(* The event of the device changes only when a run registers its own or takes *)
(* it back, and only one that is alone on the device does.                    *)
LEMMA HeardStep ==
    ASSUME IInv, Absent, OccupantHearsDevice, NEW r \in ScenarioRuns,
           \/ Ask(r) \/ Advance(r) \/ WaitEnds(r) \/ EndTask(r) \/ HandlerFails(r)
           \/ PromoteFails(r) \/ StreamFails(r) \/ Disconnect(r),
           \A q \in Runs \ {r} : pc'[q] = pc[q]
    PROVE  OccupantHearsDevice'
<1> USE KindFacts, RunAssumption DEF IInv, OccupantHearsDevice, Driving
<1>0. \A q \in Runs : pc[q] = "running" => q \in QueuedRuns
  BY DEF Absent, Runs, QueuedRuns
<1>1. CASE Prepare(r) \/ Unregister(r)
  <2>1. pc[r] \in Holding /\ r \in QueuedRuns
    BY <1>1 DEF Prepare, Unregister, Holding, QueuedRuns
  <2>2. \A q \in Runs \ {r} : pc[q] = "running" => DeviceOf[q] # DeviceOf[r]
    BY <1>0, <2>1, Alone DEF Holding
  <2>3. \A q \in Runs : DeviceOf[q] # DeviceOf[r] =>
          deviceEvent'[DeviceOf[q]] = deviceEvent[DeviceOf[q]]
    BY <1>1 DEF Prepare, Unregister, RegisterEvent, UnregisterEvent, TypeOK
  <2>4. pc'[r] = "running" => deviceEvent'[DeviceOf[r]] = r
    BY <1>1 DEF Prepare, Unregister, RegisterEvent, Goto, TypeOK
  <2> QED  BY <2>2, <2>3, <2>4
<1>2. CASE ~(Prepare(r) \/ Unregister(r))
  <2>1. pc[r] \in ScenarioPlaces /\ r \notin CaseRuns /\ r \notin Streams
    BY DEF Places, Runs, QueuedRuns
  <2>2. ~(\/ MakeRecord(r) \/ UndoEvent(r) \/ Install(r) \/ BeginRun(r) \/ CaseGone(r)
          \/ Promote(r) \/ PromoteRow(r) \/ PromoteFails(r) \/ HandlerFails(r)
          \/ FinalizeStream(r) \/ StreamFails(r) \/ Disconnect(r))
    BY <2>1 DEF MakeRecord, UndoEvent, Install, BeginRun, CaseGone, Promote, PromoteRow,
       PromoteFails, HandlerFails, FinalizeStream, StreamFails, Disconnect, ScenarioPlaces
  <2>3. CASE \/ CreateRow(r) \/ Enqueue(r) \/ StartRow(r) \/ CheckRow(r) \/ Granted(r)
             \/ CloseRow(r) \/ CloseRecord(r) \/ WaitEnds(r)
    <3>1. deviceEvent' = deviceEvent
      BY <2>3 DEF CreateRow, Enqueue, StartRow, CheckRow, Granted, CloseRow, CloseRecord,
         WaitEnds
    <3>2. \E to \in PCs \ {"running"} : pc' = [pc EXCEPT ![r] = to]
      BY <2>3 DEF CreateRow, Enqueue, StartRow, CheckRow, Granted, CloseRow, CloseRecord,
         WaitEnds, Goto, PCs
    <3> QED  BY <3>1, <3>2 DEF TypeOK
  <2>4. CASE \/ DropQueueRecord(r) \/ ReadRow(r) \/ StartScenario(r) \/ EndTask(r)
             \/ WriteOutcome(r) \/ UnlistRun(r) \/ ReleaseSlot(r)
    <3>1. deviceEvent' = deviceEvent
      BY <2>4 DEF DropQueueRecord, ReadRow, StartScenario, EndTask, WriteOutcome, UnlistRun,
         ReleaseSlot
    <3>2. \E to \in PCs \ {"running"} : pc' = [pc EXCEPT ![r] = to]
      BY <2>4 DEF DropQueueRecord, ReadRow, StartScenario, EndTask, WriteOutcome, UnlistRun,
         ReleaseSlot, Goto, PCs
    <3> QED  BY <3>1, <3>2 DEF TypeOK
  <2> QED  BY <1>2, <2>2, <2>3, <2>4 DEF Ask, Advance
<1> QED  BY <1>1, <1>2

LEMMA StepMixInv == MixInv /\ [Next]_vars => MixInv'
<1> SUFFICES ASSUME MixInv, [Next]_vars PROVE MixInv'
  OBVIOUS
<1>0. IInv' /\ IInv /\ Decided
  BY StepIInv DEF MixInv
<1>1. ASSUME NEW r \in Runs,
             \/ Ask(r) \/ Advance(r) \/ WaitEnds(r) \/ EndTask(r) \/ HandlerFails(r)
             \/ PromoteFails(r) \/ StreamFails(r) \/ Disconnect(r)
      PROVE  MixInv'
  <2>1. /\ \A q \in Runs \ {r} : pc'[q] = pc[q] /\ outcome'[q] = outcome[q]
        /\ outcome[r] # "none" => outcome'[r] # "none"
        /\ r \notin ScenarioRuns =>
              /\ pc'[r] \in Leaving => outcome'[r] # "none"
              /\ pc[r] # "done" /\ pc'[r] = "done" => outcome'[r] # "none"
    BY <1>0, <1>1, OutcomeStep
  <2>2. Decided'
    BY <1>0, <2>1, KindFacts DEF Decided, Runs, QueuedRuns
  <2>3. ASSUME Absent' PROVE Absent /\ r \in ScenarioRuns
    <3>1. Absent
      BY <2>1, <2>3, KindFacts DEF Absent, Runs, QueuedRuns
    <3>2. CASE r \notin ScenarioRuns
      <4>1. pc[r] = "done" /\ r \in CaseRuns \cup Streams
        BY <3>1, <3>2, KindFacts DEF Absent
      <4>2. Disconnect(r) => FALSE
        BY <4>1 DEF Disconnect
      <4> QED  BY <1>1, <3>2, <4>1, <4>2, KindFacts DEF Ask, Advance, CreateRow, Enqueue,
             MakeRecord, StartRow,
             UndoEvent, CheckRow, Granted, CloseRow, CloseRecord, Promote, PromoteRow, Install,
             DropQueueRecord, BeginRun, CaseGone, ReadRow, StartScenario, Prepare, WriteOutcome,
             FinalizeStream, Unregister, UnlistRun, ReleaseSlot, WaitEnds, EndTask, HandlerFails,
             PromoteFails, StreamFails
    <3> QED  BY <3>1, <3>2
  <2>4. Absent' => OccupantHearsDevice'
    BY <1>0, <1>1, <2>1, <2>3, HeardStep DEF MixInv
  <2> QED  BY <1>0, <2>2, <2>4 DEF MixInv
<1>2. CASE UNCHANGED <<pc, outcome, deviceEvent>>
  BY <1>0, <1>2 DEF MixInv, Decided, Absent, OccupantHearsDevice, Driving
<1>3. CASE Cancel \/ DeleteCase \/ (\E d \in Devices : Unlock(d)) \/ UnlockReadRows
           \/ UnlockWriteRows \/ UNCHANGED vars
  BY <1>2, <1>3 DEF Cancel, CancelMatch, CancelRecord, CancelSignal, CancelReadRows,
     CancelWriteRows, DeleteCase, Unlock, UnlockReadRows, UnlockWriteRows, vars
<1> QED  BY <1>1, <1>3 DEF Next

(* The invariant says that the registry is in order.                         *)
LEMMA InvIsOrder == IInv => RegistryInOrder
<1> SUFFICES ASSUME IInv PROVE RegistryMirrorsRuns /\ SlotCoversTask
  BY DEF IInv, RegistryInOrder
<1>1. RegistryMirrorsRuns
  <2> SUFFICES ASSUME NEW r \in Runs
               PROVE  /\ Driving(r) => /\ RunRecord(r) \in listed
                                       /\ recordStatus[RunRecord(r)] # "QUEUED"
                      /\ pc[r] = "waiting" => QueueRecord(r) \in listed
                      /\ pc[r] \in {"idle", "done"} =>
                            RunRecord(r) \notin listed /\ QueueRecord(r) \notin listed
    BY DEF RegistryMirrorsRuns
  <2>1. RunRecord(r) = <<r, "run">> /\ (<<r, "run">> \in listed <=> RunListed(r))
    BY DEF RunRecord, IInv, Listing
  <2>2. QueueRecord(r) = (IF r \in ScenarioRuns THEN <<r, "queue">> ELSE <<r, "run">>)
        /\ (<<r, "queue">> \in listed <=> QueueListed(r))
    BY DEF QueueRecord, IInv, Listing
  <2> QED  BY <2>1, <2>2 DEF Driving, RunListed, QueueListed, CasePlaces, StreamPlaces,
              IInv,
           Listing
<1>2. SlotCoversTask
  BY DEF IInv, SlotsHeld, SlotCoversTask, Driving, Holding, Queueing, Runs
<1> QED  BY <1>1, <1>2

-----------------------------------------------------------------------------
(* The theorems.                                                             *)

(* IInv holds in every reachable state.                                      *)
THEOREM Invariance == Spec => []IInv
<1> QED  BY InitIInv, StepIInv, PTL DEF Spec

(* Whatever the order in which runs that share a row, cancel and unlock write it, *)
(* a row of which no run is left under way does not say that one is.         *)
THEOREM RowsAreSettled == Spec => []RowsSettle
<1>1. IInv => RowsSettle
  <2> SUFFICES ASSUME IInv, NEW x \in Rows,
                      \A r \in Runs : RowOf(r) = x => pc[r] \in {"idle", "done"}
               PROVE  row[x] \notin ActiveStatuses
    BY DEF RowsSettle
  <2>1. CASE x \in ScenarioRuns
    <3>1. x \in Runs /\ pc[x] \in {"idle", "done"}
      BY <2>1 DEF RowOf, Runs, QueuedRuns
    <3> QED  BY <2>1, <3>1 DEF IInv, RowsOwed, ScenarioOwes
  <2>2. CASE x = TheCase
    <3>1. \A r \in CaseRuns \cup Streams : r \in Runs /\ pc[r] \in {"idle", "done"}
      BY <2>2, KindFacts DEF RowOf, Runs, QueuedRuns
    <3> QED  BY <2>2, <3>1 DEF IInv, RowsOwed, CaseOwes, StreamOwes
  <2> QED  BY <2>1, <2>2 DEF Rows
<1> QED  BY <1>1, Invariance, PTL

(* A cancel that reaches a case or WebSocket run before its task has ended is *)
(* never lost, in the queue, at the grant or while the run drives its device. *)
THEOREM CancelIsKept == Spec => []CancelSticks
<1>1. IInv => CancelSticks
  BY DEF IInv, CancelHeard, CancelSticks
<1> QED  BY <1>1, Invariance, PTL

(* The registry lists exactly what can be cancelled, and every task holds a slot, *)
(* for any number of runs of the three kinds.                                *)
THEOREM RegistryCorrectness == Spec => []RegistryInOrder
<1> QED  BY InvIsOrder, Invariance, PTL

(* Cancel and unlock reach the run that drives the device, if all runs are   *)
(* executions of scenarios, or all are case runs whose handlers do not fail with *)
(* the database.                                                             *)
THEOREM OccupantIsHeard == OneKind => (Spec => []OccupantHearsDevice)
<1> SUFFICES ASSUME OneKind PROVE Spec => []OccupantHearsDevice
  OBVIOUS
<1>1. Init => Occupied
  BY DEF Init, InitFor, Occupied, Runs, QueuedRuns
<1>2. IInv /\ Occupied /\ [Next]_vars => Occupied'
  BY StepOccupied
<1>3. Occupied => OccupantHearsDevice
  BY DEF Occupied, OccupantHearsDevice, Driving
<1> QED  BY <1>1, <1>2, <1>3, Invariance, PTL DEF Spec

(* Whichever parties meet: registry and slots are in order, and if only executions *)
(* of scenarios are there, unlock and cancel reach the one that drives the device, *)
(* also when their handlers' writes fail.                                    *)
THEOREM MixCorrectness == PartiesSpec => []MixInOrder
<1> DEFINE Parties ==
             \/ InitFor(ScenarioRuns, 0)
             \/ InitFor(ScenarioRuns \cup Streams, MaxCancels)
             \/ InitFor(CaseRuns \cup Streams, MaxCancels)
             \/ \E c \in CaseRuns : InitFor({c} \cup Streams, 0)
<1>1. Parties => MixInv
  <2>1. ASSUME NEW parties \in SUBSET Runs, NEW used \in 0 .. MaxCancels,
               InitFor(parties, used)
        PROVE  MixInv
    BY <2>1, InitForIInv DEF InitFor, MixInv, Decided, Leaving, Absent, OccupantHearsDevice,
       Driving, Runs, QueuedRuns
  <2>2. 0 \in 0 .. MaxCancels /\ MaxCancels \in 0 .. MaxCancels
    BY RunAssumption
  <2>3. /\ ScenarioRuns \in SUBSET Runs /\ ScenarioRuns \cup Streams \in SUBSET Runs
        /\ CaseRuns \cup Streams \in SUBSET Runs
        /\ \A c \in CaseRuns : {c} \cup Streams \in SUBSET Runs
    BY DEF Runs, QueuedRuns
  <2> QED  BY <2>1, <2>2, <2>3
<1>2. MixInv => MixInOrder
  BY InvIsOrder DEF MixInv, MixInOrder, Absent
<1> QED  BY <1>1, <1>2, StepMixInv, PTL DEF PartiesSpec

=============================================================================
