--------------------------- MODULE DeviceLeaseProofs ---------------------------
(***************************************************************************)
(* DeviceLease for any runs and devices: no way through acquire, its failures, *)
(* timeouts, the release and a crash keeps a slot; a device whose runs are all *)
(* over is free; one of the runs that ask the limiter at a time drives a      *)
(* device; and as long as nobody else has written its row, the row tells it. *)
(*                                                                           *)
(* The argument.  Where a run stands says whether it asks for a slot or has  *)
(* one (SlotsFollow).  The owner of a row is the run that holds it, or one that *)
(* a crash took away (OwnersHold), and a row that says BUSY has somebody who is *)
(* going to write it again (BusyIsOwed): nobody but the owner leaves "holding", *)
(* and restore looks at the row in the step that decides whether to write.   *)
(***************************************************************************)
EXTENDS DeviceLease, FiniteSetTheorems, TLAPS

(* Where a run has its slot, and where it may be waiting for it.             *)
Holding ==
    {"slot", "cleared", "holding", "running", "restoring", "released", "failing", "refused"}

SlotsFollow ==
    \A r \in LimiterRuns :
        /\ pc[r] \in Holding => r \in holders
        /\ pc[r] = "queued" => r \in holders \/ pending[r] > 0
        /\ pc[r] \notin Holding \cup {"queued"} => r \notin holders
        /\ pc[r] # "queued" \/ r \in holders => pending[r] = 0

OneHolder == \A r, v \in holders : DeviceOf[r] = DeviceOf[v] => r = v

(* A row that has an owner belongs to a run that holds it, or to a lost one. *)
OwnersHold ==
    /\ \A d \in Devices :
          owner[d] # NoRun => DeviceOf[owner[d]] = d /\ pc[owner[d]] \in {"holding", "dead"}
    /\ \A r \in Runs : pc[r] = "holding" => owner[DeviceOf[r]] = r

(* A row that says BUSY has a run that will write it, or lost it.            *)
BusyIsOwed ==
    \A d \in Devices : status[d] = "BUSY" =>
        \E r \in Runs : /\ DeviceOf[r] = d
                        /\ pc[r] \in {"holding", "running", "restoring", "dead"}

IInv == TypeOK /\ SlotsFollow /\ OneHolder /\ OwnersHold /\ BusyIsOwed

(* A WebSocket run has written the row as soon as it is at work.             *)
StreamsDisturb == \A r \in Streams : pc[r] # "idle" => DeviceOf[r] \in disturbed

(* The part of the argument that is about the devices nobody has disturbed.  *)
Told == StreamsDisturb /\ DrivenIsBusy

-----------------------------------------------------------------------------
(* The limiter's answers.                                                    *)

(* A top-up grants pending requests only, and never two for one device.      *)
LEMMA TopUpFacts ==
    ASSUME NEW p \in [LimiterRuns -> Nat], NEW h \in SUBSET LimiterRuns, Slots!TopUp(p, h)
    PROVE  /\ pending' \in [LimiterRuns -> Nat] /\ holders' \in SUBSET LimiterRuns
           /\ \A q \in LimiterRuns :
                 /\ q \in h => q \in holders'
                 /\ q \in holders' => q \in h \/ p[q] > 0
                 /\ q \in holders' /\ q \notin h => pending'[q] = 0
                 /\ q \notin holders' => pending'[q] = p[q]
                 /\ pending'[q] = 0 \/ pending'[q] = p[q]
           /\ OneHolder'
<1>1. PICK granted \in SUBSET Slots!Pending(p) :
        /\ Slots!LimitsRespected(h \cup granted)
        /\ holders' = h \cup granted
        /\ pending' = [w \in LimiterRuns |-> IF w \in granted THEN 0 ELSE p[w]]
  BY DEF Slots!TopUp
<1>2. \A q \in granted : q \in LimiterRuns /\ p[q] > 0
  BY DEF Slots!Pending
<1>3. ASSUME NEW r \in holders', NEW q \in holders', r # q
      PROVE  DeviceOf[r] # DeviceOf[q]
  <2>1. r \in LimiterRuns /\ q \in LimiterRuns
    BY <1>1, <1>2
  <2>2. DeviceOf[r] # NoDevice
    BY <2>1, LeaseAssumption DEF Runs
  <2>3. Demand[r].device = DeviceOf[r] /\ Demand[q].device = DeviceOf[q]
    BY <2>1 DEF Demand
  <2> QED  BY <1>1, <1>3, <2>2, <2>3 DEF Slots!LimitsRespected
<1> QED  BY <1>1, <1>2, <1>3 DEF OneHolder

LEMMA SameCardinality == \A S : Slots!Cardinality(S) = Cardinality(S)
BY DEF Slots!Cardinality, Cardinality, Slots!IsFiniteSet, IsFiniteSet

(* A run that asks goes on as the limiter answered.                          *)
LEMMA Asked ==
    ASSUME TypeOK, SlotsFollow, OneHolder, NEW r \in LimiterRuns, Slots!Request(r),
           pc' = [pc EXCEPT ![r] = IF r \in holders' THEN "slot" ELSE "queued"]
    PROVE  /\ pending' \in [LimiterRuns -> Nat] /\ holders' \subseteq LimiterRuns
           /\ SlotsFollow' /\ OneHolder'
<1>1. PICK n \in 1 .. Cardinality(LimiterRuns) :
        Slots!TopUp([pending EXCEPT ![r] = n], holders)
  BY SameCardinality DEF Slots!Request
<1>2. n \in Nat /\ n > 0
  BY <1>1, LeaseAssumption, FS_CardinalityType
<1> DEFINE p == [pending EXCEPT ![r] = n]
<1>3. r \notin holders
  BY DEF Slots!Request
<1>4. /\ p \in [LimiterRuns -> Nat] /\ p[r] > 0
      /\ \A q \in LimiterRuns \ {r} : p[q] = pending[q]
  BY <1>2 DEF TypeOK
<1> HIDE DEF p
<1>5. Slots!TopUp(p, holders)
  BY <1>1 DEF p
<1>6. holders \in SUBSET LimiterRuns
  BY DEF TypeOK
<1>7. /\ pending' \in [LimiterRuns -> Nat] /\ holders' \in SUBSET LimiterRuns
      /\ \A q \in LimiterRuns :
            /\ q \in holders => q \in holders'
            /\ q \in holders' => q \in holders \/ p[q] > 0
            /\ q \in holders' /\ q \notin holders => pending'[q] = 0
            /\ q \notin holders' => pending'[q] = p[q]
            /\ pending'[q] = 0 \/ pending'[q] = p[q]
      /\ OneHolder'
  BY <1>4, <1>5, <1>6, TopUpFacts
<1>8. \A q \in LimiterRuns :
        pc'[q] = IF q = r THEN IF r \in holders' THEN "slot" ELSE "queued" ELSE pc[q]
  BY DEF TypeOK, Runs
<1> QED  BY <1>3, <1>4, <1>7, <1>8 DEF SlotsFollow, Holding, TypeOK

(* A run that withdraws its request or gives its slot back has neither.      *)
LEMMA LetGo ==
    ASSUME TypeOK, SlotsFollow, OneHolder, NEW r \in LimiterRuns, NEW to \in {"done", "unlocking"},
           Slots!Withdraw(r) \/ Slots!GiveBack(r), pc' = [pc EXCEPT ![r] = to]
    PROVE  /\ pending' \in [LimiterRuns -> Nat] /\ holders' \subseteq LimiterRuns
           /\ SlotsFollow' /\ OneHolder'
<1>1. \A q \in LimiterRuns : pc'[q] = IF q = r THEN to ELSE pc[q]
  BY DEF TypeOK, Runs
<1>2. CASE Slots!Withdraw(r)
  <2>1. pending' = [pending EXCEPT ![r] = 0] /\ holders' = holders /\ pending[r] > 0
    BY <1>2 DEF Slots!Withdraw, Slots!Pending
  <2>2. r \notin holders
    BY <2>1 DEF SlotsFollow
  <2> QED  BY <1>1, <2>1, <2>2 DEF SlotsFollow, OneHolder, Holding, TypeOK
<1>3. CASE Slots!GiveBack(r)
  <2>1. r \in holders /\ Slots!TopUp(pending, holders \ {r})
    BY <1>3 DEF Slots!GiveBack
  <2>2. pending \in [LimiterRuns -> Nat] /\ holders \ {r} \in SUBSET LimiterRuns
    BY DEF TypeOK
  <2>3. /\ pending' \in [LimiterRuns -> Nat] /\ holders' \in SUBSET LimiterRuns
        /\ \A q \in LimiterRuns :
              /\ q \in holders \ {r} => q \in holders'
              /\ q \in holders' => q \in holders \ {r} \/ pending[q] > 0
              /\ q \in holders' /\ q \notin holders \ {r} => pending'[q] = 0
              /\ q \notin holders' => pending'[q] = pending[q]
              /\ pending'[q] = 0 \/ pending'[q] = pending[q]
        /\ OneHolder'
    BY <2>1, <2>2, TopUpFacts
  <2>4. pending[r] = 0
    BY <2>1 DEF SlotsFollow
  <2> QED  BY <1>1, <2>1, <2>3, <2>4 DEF SlotsFollow, Holding, TypeOK
<1> QED  BY <1>2, <1>3

-----------------------------------------------------------------------------
(* What a step leaves as it was.                                             *)

Moves(r, to) == pc' = [pc EXCEPT ![r] = to]

(* A run that goes on without the limiter keeps what it has.                 *)
LEMMA SlotsStay ==
    ASSUME TypeOK, SlotsFollow, OneHolder, UNCHANGED slotVars,
           NEW r \in Runs, NEW to \in PCs, Moves(r, to),
           r \in LimiterRuns =>
               \/ pc[r] \in Holding /\ to \in Holding
               \/ pc[r] = "queued" /\ r \in holders /\ to \in Holding
               \/ {pc[r], to} \cap (Holding \cup {"queued"}) = {}
    PROVE  SlotsFollow' /\ OneHolder'
<1>1. \A q \in Runs : pc'[q] = IF q = r THEN to ELSE pc[q]
  BY DEF TypeOK, Moves
<1>2. SlotsFollow'
  BY <1>1 DEF SlotsFollow, slotVars, Holding, Runs
<1> QED  BY <1>2 DEF OneHolder, slotVars

Writing == {"holding", "running", "restoring", "dead"}

(* A run that does not hold the row goes on: the rows stay as true as they were. *)
LEMMA RowsStay ==
    ASSUME TypeOK, OwnersHold, BusyIsOwed, UNCHANGED rowVars,
           NEW r \in Runs, NEW to \in PCs, Moves(r, to),
           pc[r] \notin Writing, to # "holding"
    PROVE  OwnersHold' /\ BusyIsOwed'
<1>1. \A q \in Runs : pc'[q] = IF q = r THEN to ELSE pc[q]
  BY DEF TypeOK, Moves
<1>2. OwnersHold'
  BY <1>1 DEF OwnersHold, rowVars, Writing, TypeOK, Runs, LimiterRuns
<1>3. BusyIsOwed'
  BY <1>1 DEF BusyIsOwed, rowVars, Writing
<1> QED  BY <1>2, <1>3

-----------------------------------------------------------------------------
(* Steps.                                                                    *)

(* What follows the request handlers' looks, the wait and the looks at the row. *)
LEMMA GoesOn ==
    ASSUME IInv, NEW r \in Runs,
           \/ FastbotPrecheck(r) \/ FastbotLock(r) \/ InstallPrecheck(r) \/ TakeSlot(r)
           \/ CheckFastbotLock(r) \/ ClaimRefused(r) \/ FastbotUnlock(r) \/ InstallRecheck(r)
           \/ r \in Streams /\ ReleaseSlot(r)
    PROVE  IInv'
<1> USE LeaseAssumption DEF IInv
<1>1. PICK to \in PCs :
        /\ Moves(r, to) /\ pc[r] \notin Writing /\ to # "holding"
        /\ r \in LimiterRuns =>
              \/ pc[r] \in Holding /\ to \in Holding
              \/ pc[r] = "queued" /\ r \in holders /\ to \in Holding
              \/ {pc[r], to} \cap (Holding \cup {"queued"}) = {}
  BY DEF FastbotPrecheck, FastbotLock, InstallPrecheck, TakeSlot, CheckFastbotLock,
     ClaimRefused,
     ReadyToClaim, FastbotUnlock, InstallRecheck, ReleaseSlot, Goto, Moves, PCs, Writing, Holding,
     After, LimiterRuns
<1>2. /\ UNCHANGED <<rowVars, slotVars, sweep, unlock>>
      /\ fastbotLock' \in [Devices -> FastbotRuns \cup {NoRun}]
  BY DEF FastbotPrecheck, FastbotLock, InstallPrecheck, TakeSlot, CheckFastbotLock,
     ClaimRefused,
     FastbotUnlock, InstallRecheck, ReleaseSlot, TypeOK, requestVars
<1>3. TypeOK'
  BY <1>1, <1>2 DEF TypeOK, Moves, rowVars, slotVars
<1>4. SlotsFollow' /\ OneHolder'
  BY <1>1, <1>2, SlotsStay
<1>5. OwnersHold' /\ BusyIsOwed'
  BY <1>1, <1>2, RowsStay
<1> QED  BY <1>3, <1>4, <1>5

LEMMA AskedStep ==
    ASSUME IInv, NEW r \in Runs, Enqueue(r)
    PROVE  IInv'
<1> USE LeaseAssumption DEF IInv
<1>1. /\ Slots!Request(r) /\ r \in LimiterRuns /\ pc[r] \notin Writing
      /\ UNCHANGED <<rowVars, fastbotLock, sweep, unlock>>
      /\ pc' = [pc EXCEPT ![r] = IF r \in holders' THEN "slot" ELSE "queued"]
  BY DEF Enqueue, MayEnqueue, Goto, requestVars, Writing, LimiterRuns
<1>2. /\ pending' \in [LimiterRuns -> Nat] /\ holders' \subseteq LimiterRuns
      /\ SlotsFollow' /\ OneHolder'
  BY <1>1, Asked
<1>3. PICK to \in {"slot", "queued"} : Moves(r, to)
  BY <1>1 DEF Moves
<1>4. TypeOK'
  BY <1>1, <1>2, <1>3 DEF TypeOK, Moves, rowVars, PCs
<1>5. OwnersHold' /\ BusyIsOwed'
  BY <1>1, <1>3, RowsStay DEF PCs
<1> QED  BY <1>2, <1>4, <1>5

LEMMA LetGoStep ==
    ASSUME IInv, NEW r \in Runs, GiveUp(r) \/ Fail(r) \/ (r \notin Streams /\ ReleaseSlot(r))
    PROVE  IInv'
<1> USE LeaseAssumption DEF IInv
<1>1. /\ Slots!Withdraw(r) \/ Slots!GiveBack(r)
      /\ pc[r] \notin Writing /\ UNCHANGED <<rowVars, fastbotLock, sweep, unlock>>
      /\ Moves(r, After(r))
  BY DEF GiveUp, Fail, ReleaseSlot, Goto, requestVars, Writing, Moves
<1>2. r \in LimiterRuns
  BY <1>1 DEF Slots!Withdraw, Slots!GiveBack, Slots!Pending, TypeOK
<1>3. PICK to \in {"done", "unlocking"} : Moves(r, to)
  BY <1>1 DEF After
<1>4. /\ pending' \in [LimiterRuns -> Nat] /\ holders' \subseteq LimiterRuns
      /\ SlotsFollow' /\ OneHolder'
  BY <1>1, <1>2, <1>3, LetGo DEF Moves
<1>5. TypeOK'
  BY <1>1, <1>3, <1>4 DEF TypeOK, Moves, rowVars, PCs
<1>6. OwnersHold' /\ BusyIsOwed'
  BY <1>1, <1>3, RowsStay DEF PCs
<1> QED  BY <1>4, <1>5, <1>6

(* The row is taken, and given back by the run that has it.                  *)
LEMMA RowStep ==
    ASSUME IInv, NEW r \in Runs, Claim(r) \/ ReleaseRow(r)
    PROVE  IInv'
<1> USE LeaseAssumption DEF IInv
<1>0. DeviceOf[r] \in Devices /\ NoRun \notin Runs
  OBVIOUS
<1>1. CASE Claim(r)
  <2>1. /\ r \in LeasedRuns /\ pc[r] \in {"slot", "cleared"} /\ owner[DeviceOf[r]] = NoRun
        /\ status' = [status EXCEPT ![DeviceOf[r]] = "BUSY"]
        /\ owner' = [owner EXCEPT ![DeviceOf[r]] = r]
        /\ Moves(r, "holding") /\ UNCHANGED <<disturbed, fastbotLock, slotVars, sweep, unlock>>
    BY <1>1 DEF Claim, ReadyToClaim, SetStatus, Goto, Moves, requestVars
  <2>2. \A q \in Runs : pc'[q] = IF q = r THEN "holding" ELSE pc[q]
    BY <2>1 DEF TypeOK, Moves
  <2>3. TypeOK'
    BY <2>1 DEF TypeOK, Moves, slotVars, PCs, Statuses
  <2>4. SlotsFollow' /\ OneHolder'
    BY <2>1, SlotsStay DEF Holding, PCs
  <2>5. OwnersHold'
    BY <1>0, <2>1, <2>2 DEF OwnersHold, TypeOK, Runs, LimiterRuns
  <2>6. BusyIsOwed'
    <3>1. pc'[r] = "holding" /\ \A q \in Runs : pc[q] \in Writing => pc'[q] = pc[q]
      BY <2>1, <2>2 DEF Writing
    <3>2. \A d \in Devices : d # DeviceOf[r] => status'[d] = status[d]
      BY <2>1 DEF TypeOK
    <3> QED  BY <3>1, <3>2 DEF BusyIsOwed, Writing
  <2> QED  BY <2>3, <2>4, <2>5, <2>6
<1>2. CASE ReleaseRow(r)
  <2>1. pc[r] = "holding" /\ owner[DeviceOf[r]] = r
    BY <1>2 DEF ReleaseRow, OwnersHold
  <2>2. /\ status' = [status EXCEPT ![DeviceOf[r]] = "IDLE"]
        /\ owner' = [owner EXCEPT ![DeviceOf[r]] = NoRun]
        /\ Moves(r, "released") /\ UNCHANGED <<disturbed, fastbotLock, slotVars, sweep, unlock>>
    BY <1>2, <2>1 DEF ReleaseRow, SetStatus, Goto, Moves, requestVars
  <2>3. \A q \in Runs : pc'[q] = IF q = r THEN "released" ELSE pc[q]
    BY <2>2 DEF TypeOK, Moves
  <2>4. TypeOK'
    BY <2>2 DEF TypeOK, Moves, slotVars, PCs, Statuses
  <2>5. SlotsFollow' /\ OneHolder'
    BY <2>1, <2>2, SlotsStay DEF Holding, PCs
  <2>6. OwnersHold'
    <3>1. \A d \in Devices :
            owner'[d] = IF d = DeviceOf[r] THEN NoRun ELSE owner[d]
      BY <2>2 DEF TypeOK
    <3>2. \A d \in Devices : owner[d] \in Runs \cup {NoRun}
      BY DEF TypeOK, Runs, LimiterRuns
    <3>3. \A d \in Devices :
            owner'[d] # NoRun =>
                DeviceOf[owner'[d]] = d /\ pc'[owner'[d]] \in {"holding", "dead"}
      BY <2>3, <3>1, <3>2 DEF OwnersHold
    <3>4. \A q \in Runs : pc'[q] = "holding" => owner'[DeviceOf[q]] = q
      BY <2>1, <2>3, <3>1 DEF OwnersHold
    <3> QED  BY <3>3, <3>4 DEF OwnersHold
  <2>7. BusyIsOwed'
    BY <1>0, <2>2, <2>3 DEF BusyIsOwed, TypeOK
  <2> QED  BY <2>4, <2>5, <2>6, <2>7
<1> QED  BY <1>1, <1>2

(* Runs that write the status without owning the row.                        *)
LEMMA StatusStep ==
    ASSUME IInv, NEW r \in Runs, MarkBusy(r) \/ RestoreRead(r) \/ RestoreWrite(r)
    PROVE  IInv'
<1> USE LeaseAssumption DEF IInv
<1>0. DeviceOf[r] \in Devices /\ NoRun \notin Runs
  OBVIOUS
<1>1. PICK to \in {"running", "restoring", "released"} :
        /\ Moves(r, to) /\ pc[r] # "holding" /\ pc[r] # "dead"
        /\ UNCHANGED <<owner, fastbotLock, slotVars, sweep, unlock>>
        /\ status' \in [Devices -> Statuses] /\ disturbed' \subseteq Devices
        /\ r \in LimiterRuns => pc[r] \in Holding
        /\ \A d \in Devices \ {DeviceOf[r]} : status'[d] = status[d]
        /\ status'[DeviceOf[r]] = "BUSY" => to # "released"
  <2>1. CASE MarkBusy(r)
    <3>1. /\ status' = [status EXCEPT ![DeviceOf[r]] = "BUSY"] /\ disturbed' \subseteq Devices
          /\ Moves(r, "running") /\ pc[r] \in {"slot", "cleared", "idle"}
          /\ UNCHANGED <<owner, fastbotLock, slotVars, sweep, unlock>>
          /\ r \in LimiterRuns => pc[r] \in Holding
      BY <1>0, <2>1 DEF MarkBusy, SetStatus, Overwrite, Goto, Moves, requestVars, TypeOK,
         Holding, LimiterRuns
    <3> QED  BY <1>0, <3>1 DEF TypeOK, Statuses
  <2>2. CASE RestoreRead(r)
    BY <1>0, <2>2 DEF RestoreRead, Goto, Moves, requestVars, rowVars, TypeOK, Statuses,
       Holding, LimiterRuns
  <2>3. CASE RestoreWrite(r)
    BY <1>0, <2>3 DEF RestoreWrite, SetStatus, Goto, Moves, requestVars, TypeOK, Statuses,
       Holding, LimiterRuns
  <2> QED  BY <2>1, <2>2, <2>3
<1>2. \A q \in Runs : pc'[q] = IF q = r THEN to ELSE pc[q]
  BY <1>1 DEF TypeOK, Moves
<1>3. TypeOK'
  BY <1>1 DEF TypeOK, Moves, slotVars, PCs
<1>4. SlotsFollow' /\ OneHolder'
  BY <1>1, SlotsStay DEF Holding, PCs
<1>5. OwnersHold'
  BY <1>1, <1>2 DEF OwnersHold, TypeOK, Runs, LimiterRuns
<1>6. BusyIsOwed'
  BY <1>0, <1>1, <1>2 DEF BusyIsOwed
<1> QED  BY <1>3, <1>4, <1>5, <1>6

(* The operations on a device never make it busy and never name an owner.    *)
LEMMA DeviceStep ==
    ASSUME IInv, NEW d \in Devices,
           \/ SweepRead(d) \/ SweepOnline(d) \/ SweepOffline(d)
           \/ UnlockRead(d) \/ UnlockFastbot(d) \/ UnlockRow(d) \/ Reboot(d)
    PROVE  IInv'
<1> USE DEF IInv
<1>1. /\ UNCHANGED <<owner, pending, holders, pc>>
      /\ status' \in [Devices -> Statuses] /\ disturbed' \subseteq Devices
      /\ \A e \in Devices : status'[e] = "BUSY" => status[e] = "BUSY"
  BY DEF SweepRead, SweepOnline, SweepOffline, UnlockRead, UnlockFastbot, UnlockRow,
     Reboot,
     Overwrite, rowVars, slotVars, requestVars, TypeOK, Statuses
<1>2. /\ fastbotLock' \in [Devices -> FastbotRuns \cup {NoRun}]
      /\ sweep' \in [Devices -> Statuses \cup {"none"}]
  BY DEF SweepRead, SweepOnline, SweepOffline, UnlockRead, UnlockFastbot, UnlockRow,
     Reboot,
     requestVars, TypeOK
<1>3. unlock' \in [Devices -> [read : Statuses \cup {"none"}, lockGone : BOOLEAN]]
  <2>1. CASE UnlockRead(d)
    BY <2>1 DEF UnlockRead, TypeOK
  <2>2. CASE UnlockFastbot(d)
    BY <2>2 DEF UnlockFastbot, TypeOK
  <2>3. CASE UnlockRow(d)
    BY <2>3 DEF UnlockRow, NoUnlock, TypeOK
  <2>4. CASE SweepRead(d) \/ SweepOnline(d) \/ SweepOffline(d) \/ Reboot(d)
    BY <2>4 DEF SweepRead, SweepOnline, SweepOffline, Reboot, requestVars, TypeOK
  <2> QED  BY <2>1, <2>2, <2>3, <2>4
<1>4. TypeOK'
  BY <1>1, <1>2, <1>3 DEF TypeOK
<1> QED  BY <1>1, <1>4 DEF SlotsFollow, OneHolder, OwnersHold, BusyIsOwed

(* A crash takes slots, locks and requests; rows stay, and so do their debtors. *)
LEMMA CrashStep ==
    ASSUME IInv, Crash
    PROVE  IInv'
<1> USE LeaseAssumption DEF IInv
<1>1. TypeOK'
  BY DEF Crash, TypeOK, PCs, NoUnlock, rowVars
<1>2. SlotsFollow' /\ OneHolder'
  BY DEF Crash, SlotsFollow, OneHolder, Holding, Runs
<1>3. OwnersHold'
  BY DEF Crash, OwnersHold, rowVars, TypeOK, Runs, LimiterRuns
<1>4. BusyIsOwed'
  BY DEF Crash, BusyIsOwed, rowVars
<1> QED  BY <1>1, <1>2, <1>3, <1>4

(* The inductive invariant holds at all times.                               *)
THEOREM Invariance == Spec => []IInv
<1>1. Init => IInv
  BY LeaseAssumption DEF Init, IInv, Slots!Init, TypeOK, SlotsFollow, OneHolder,
     OwnersHold,
     BusyIsOwed, Holding, PCs, Statuses, NoUnlock, Runs
<1>2. IInv /\ [Next]_vars => IInv'
  <2> SUFFICES ASSUME IInv, [Next]_vars PROVE IInv'
    OBVIOUS
  <2>1. ASSUME NEW r \in Runs, FastbotPrecheck(r) \/ InstallPrecheck(r) \/ Advance(r) \/ GiveUp(r)
                               \/ EndTask(r)
        PROVE  IInv'
    BY <2>1, GoesOn, AskedStep, LetGoStep, RowStep, StatusStep DEF Advance, EndTask
  <2>2. CASE UNCHANGED vars
    BY <2>2 DEF vars, IInv, TypeOK, SlotsFollow, OneHolder, OwnersHold, BusyIsOwed
  <2> QED  BY <2>1, <2>2, DeviceStep, CrashStep DEF Next
<1> QED  BY <1>1, <1>2, PTL DEF Spec

(* NoSlotLeaks: refused, timed out, failed, released or lost in a crash, no run *)
(* keeps a slot, and whoever drives under the limiter has one.               *)
THEOREM SlotsAreGivenBack == Spec => []NoSlotLeaks
<1>1. IInv => NoSlotLeaks
  BY DEF IInv, SlotsFollow, NoSlotLeaks, Active, Driving, Holding, TypeOK
<1> QED  BY <1>1, Invariance, PTL

(* DeviceLeftClean: whatever was written meanwhile, a device whose runs are all *)
(* over has no owner and is not BUSY.                                        *)
THEOREM DevicesAreLeftClean == Spec => []DeviceLeftClean
<1>1. IInv => DeviceLeftClean
  BY LeaseAssumption, SMTT(30) DEF IInv, OwnersHold, BusyIsOwed, DeviceLeftClean, TypeOK, Runs,
     LimiterRuns
<1> QED  BY <1>1, Invariance, PTL

(* What the disturbed devices become: whoever is outside the limiter adds the *)
(* one it writes, and nobody else writes a row without a slot.               *)
LEMMA ToldStaysForRuns ==
    ASSUME IInv, Told, NEW r \in Runs,
           FastbotPrecheck(r) \/ InstallPrecheck(r) \/ Advance(r) \/ GiveUp(r) \/ EndTask(r)
    PROVE  Told'
<1> USE LeaseAssumption DEF IInv, Told
<1>1. PICK to \in PCs : pc' = [pc EXCEPT ![r] = to]
  BY DEF Advance, EndTask, FastbotPrecheck, InstallPrecheck, FastbotLock, Enqueue,
     TakeSlot, GiveUp, CheckFastbotLock, Claim, ClaimRefused, Fail, ReleaseRow, FastbotUnlock,
     InstallRecheck, MarkBusy, RestoreRead, RestoreWrite, ReleaseSlot, Goto, PCs, After
<1>2. \A q \in Runs : pc'[q] = IF q = r THEN to ELSE pc[q]
  BY <1>1 DEF TypeOK
<1>3. CASE ~(Claim(r) \/ ReleaseRow(r) \/ MarkBusy(r) \/ RestoreWrite(r))
  <2>0. r \in Streams => pc[r] # "idle"
    BY <1>3 DEF Advance, EndTask, FastbotPrecheck, InstallPrecheck, FastbotLock,
       Enqueue, MayEnqueue, LimiterRuns,
       TakeSlot, GiveUp, CheckFastbotLock, ClaimRefused, ReadyToClaim, Fail, FastbotUnlock,
       InstallRecheck, RestoreRead, ReleaseSlot
  <2>1. UNCHANGED rowVars /\ ~Driving(r)'
    BY <1>3 DEF Advance, EndTask, FastbotPrecheck, InstallPrecheck, FastbotLock, Enqueue,
       TakeSlot, GiveUp, CheckFastbotLock, ClaimRefused, Fail, FastbotUnlock, InstallRecheck,
       RestoreRead, ReleaseSlot, Goto, After, Driving, TypeOK
  <2>2. \A q \in Runs : Driving(q)' => Driving(q) /\ pc'[q] = pc[q]
    BY <1>2, <2>1 DEF Driving
  <2>3. StreamsDisturb'
    BY <1>2, <2>0, <2>1 DEF StreamsDisturb, rowVars, Runs
  <2> QED  BY <2>1, <2>2, <2>3 DEF DrivenIsBusy, Driving, rowVars
<1>4. CASE r \in Streams /\ (MarkBusy(r) \/ RestoreWrite(r))
  <2>1. /\ disturbed \subseteq disturbed' /\ DeviceOf[r] \in disturbed' /\ owner' = owner
        /\ \A d \in Devices \ {DeviceOf[r]} : status'[d] = status[d]
    BY <1>4 DEF MarkBusy, RestoreWrite, SetStatus, Overwrite, StreamsDisturb, TypeOK
  <2>2. StreamsDisturb'
    BY <1>2, <2>1 DEF StreamsDisturb, Runs
  <2>3. DrivenIsBusy'
    <3> SUFFICES ASSUME NEW q \in Runs, DeviceOf[q] \notin disturbed'
                 PROVE  /\ Driving(q)' => status'[DeviceOf[q]] = "BUSY"
                        /\ pc'[q] = "holding" => owner'[DeviceOf[q]] = q
      BY DEF DrivenIsBusy, Driving
    <3>1. q # r /\ pc'[q] = pc[q] /\ DeviceOf[q] \in Devices \ {DeviceOf[r]}
      BY <1>2, <2>1
    <3> QED  BY <2>1, <3>1 DEF DrivenIsBusy, Driving
  <2> QED  BY <2>2, <2>3
<1>5. CASE r \notin Streams /\ (Claim(r) \/ ReleaseRow(r) \/ MarkBusy(r) \/ RestoreWrite(r))
  <2>1. /\ pc[r] \in Holding /\ disturbed' = disturbed
        /\ \A d \in Devices \ {DeviceOf[r]} : status'[d] = status[d] /\ owner'[d] = owner[d]
    BY <1>5 DEF Claim, ReadyToClaim, ReleaseRow, MarkBusy, RestoreWrite, Holding,
       SetStatus, rowVars, TypeOK
  <2>2. StreamsDisturb'
    BY <1>2, <1>5, <2>1 DEF StreamsDisturb, Runs
  <2>3. Driving(r)' => /\ status'[DeviceOf[r]] = "BUSY"
                       /\ pc'[r] = "holding" => owner'[DeviceOf[r]] = r
    BY <1>5 DEF Claim, ReleaseRow, MarkBusy, RestoreWrite, SetStatus, Goto, Driving,
       TypeOK
  <2>4. ASSUME NEW q \in Runs, q # r, DeviceOf[q] \notin disturbed', Driving(q)'
        PROVE  status'[DeviceOf[q]] = "BUSY" /\ (pc'[q] = "holding" => owner'[DeviceOf[q]] = q)
    <3>1. pc'[q] = pc[q] /\ Driving(q)
      BY <1>2, <2>4 DEF Driving
    <3>2. q \in LimiterRuns /\ r \in LimiterRuns
      BY <1>5, <2>1, <2>4, <3>1 DEF StreamsDisturb, Driving, Runs
    <3>3. DeviceOf[q] # DeviceOf[r]
      BY <2>1, <2>4, <3>1, <3>2 DEF SlotsFollow, OneHolder, Driving, Holding
    <3>4. DeviceOf[q] \in Devices \ {DeviceOf[r]}
      BY <3>3
    <3> QED  BY <2>1, <2>4, <3>1, <3>4 DEF DrivenIsBusy
  <2>5. ASSUME NEW q \in Runs, DeviceOf[q] \notin disturbed'
        PROVE  /\ Driving(q)' => status'[DeviceOf[q]] = "BUSY"
               /\ pc'[q] = "holding" => owner'[DeviceOf[q]] = q
    BY <2>3, <2>4, <2>5 DEF Driving
  <2> QED  BY <2>2, <2>5 DEF DrivenIsBusy, Driving
<1> QED  BY <1>3, <1>4, <1>5 DEF Claim, ReleaseRow, ReadyToClaim, OwnersHold, TypeOK, LimiterRuns

LEMMA ToldStaysForDevices ==
    ASSUME IInv, Told, NEW d \in Devices,
           \/ SweepRead(d) \/ SweepOnline(d) \/ SweepOffline(d)
           \/ UnlockRead(d) \/ UnlockFastbot(d) \/ UnlockRow(d) \/ Reboot(d)
    PROVE  Told'
<1> USE LeaseAssumption DEF IInv, Told
<1>1. /\ pc' = pc /\ owner' = owner /\ disturbed \subseteq disturbed'
      /\ \A e \in Devices : e \notin disturbed' => status'[e] = status[e]
  BY DEF SweepRead, SweepOnline, SweepOffline, UnlockRead, UnlockFastbot, UnlockRow,
     Reboot, Overwrite, rowVars, TypeOK
<1>2. \A r \in Runs : DeviceOf[r] \in Devices
  OBVIOUS
<1> QED  BY <1>1, <1>2 DEF StreamsDisturb, DrivenIsBusy, Driving

THEOREM ToldAtAllTimes == Spec => []Told
<1>1. Init => Told
  BY DEF Init, Told, StreamsDisturb, DrivenIsBusy, Driving, Runs
<1>2. IInv /\ Told /\ [Next]_vars => Told'
  <2> SUFFICES ASSUME IInv, Told, [Next]_vars PROVE Told'
    OBVIOUS
  <2>1. CASE Crash
    BY <2>1 DEF Crash, Told, StreamsDisturb, DrivenIsBusy, Driving, rowVars, Runs
  <2>2. CASE UNCHANGED vars
    BY <2>2 DEF vars, Told, StreamsDisturb, DrivenIsBusy, Driving
  <2> QED  BY <2>1, <2>2, ToldStaysForRuns, ToldStaysForDevices DEF Next
<1> QED  BY <1>1, <1>2, Invariance, PTL DEF Spec

(* DeviceExclusive: one of the runs that ask the limiter at a time drives a  *)
(* device; and as long as nobody else has written the row, the row tells which. *)
THEOREM DevicesAreExclusive == Spec => []DeviceExclusive
<1>1. IInv /\ Told => DeviceExclusive
  BY DEF IInv, Told, SlotsFollow, OneHolder, DeviceExclusive, OneTaskPerDevice, Driving,
     Holding
<1> QED  BY <1>1, Invariance, ToldAtAllTimes, PTL
=============================================================================
