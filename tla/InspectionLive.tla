---------------------------- MODULE InspectionLive ----------------------------
(***************************************************************************)
(* The live view of an inspection run (inspection/live.py with its callers in  *)
(* engine.py and api/inspections.py, and the page InspectionLivePanel.vue).    *)
(* The engine, a cancel and a reader who finds no channel publish complete      *)
(* snapshots; the snapshot is numbered under the registry's lock but handed to   *)
(* the subscribers after it was released, so that publications may overtake each *)
(* other.  A subscriber keeps one snapshot; its WebSocket sends it, or after 5   *)
(* silent seconds the current one.  The page drops what is older than what it    *)
(* shows.  Pages, actions and frontiers in a snapshot are left out.             *)
(***************************************************************************)
EXTENDS Naturals, FiniteSets

CONSTANTS
  Viewers,
  MaxNews,      \* bound: publications of the engine before the end of a run
  MaxStreams,   \* bound: channels opened
  MaxRuns,      \* bound: runs that get the id, one after the deletion of the other
  MaxCrashes    \* bound: restarts of the server

VARIABLES
  row,      \* InspectionRun.status, or none
  worker,   \* execute_inspection_run: none, queued, running, over, closing or done
  news,     \* publications of the engine so far
  chan,     \* the channel of the run in the registry
  pub,      \* per publisher: the snapshot it still has to offer, and to whom
  canceller,\* the cancel request: idle, stored or done
  saw,      \* per viewer: the row's status read by the request that seeds a channel
  page,     \* per viewer: off, seeding, asking or open (its WebSocket is subscribed)
  slot,     \* per viewer: the queue of its subscription
  shown,    \* per viewer: the snapshot its page shows
  streams, runs, crashes   \* counters of the bounds

vars == <<row, worker, news, chan, pub, canceller, saw, page, slot, shown, streams, runs,
          crashes>>

Publishers == {"engine", "cancel"} \cup Viewers
Nothing == [stream |-> 0, rev |-> 0, status |-> "none", terminal |-> FALSE]
Closed == [Nothing EXCEPT !.terminal = TRUE]
NoChannel == [snap |-> Nothing, subs |-> {}, expires |-> FALSE]
NoPublication == [snap |-> Nothing, to |-> {}]
Terminal == {"OVER", "ABORTED"}

Init ==
    /\ row = "RUNNING" /\ worker = "queued" /\ news = 0 /\ chan = NoChannel
    /\ pub = [p \in Publishers |-> NoPublication] /\ canceller = "idle"
    /\ saw = [v \in Viewers |-> "none"] /\ page = [v \in Viewers |-> "off"]
    /\ slot = [v \in Viewers |-> Nothing] /\ shown = [v \in Viewers |-> Nothing]
    /\ streams = 0 /\ runs = 1 /\ crashes = 0

-----------------------------------------------------------------------------
(* The registry.                                                            *)

\* start_run: a channel that is there is kept.
Opened(status) ==
    IF chan # NoChannel THEN chan
    ELSE [snap |-> [stream |-> streams + 1, rev |-> 0, status |-> status, terminal |-> FALSE],
          subs |-> {}, expires |-> FALSE]

StreamCounted == streams' = IF chan = NoChannel THEN streams + 1 ELSE streams

\* The next snapshot of a channel; a patch without `terminal` keeps it.
NextSnapshot(snap, status, final) ==
    [snap EXCEPT !.rev = @ + 1, !.status = status, !.terminal = @ \/ final]

\* publish under the lock: number the snapshot, store it, remember the subscribers.
Publish(p, status, final) ==
    LET c == Opened(status)
        s == NextSnapshot(c.snap, status, final)
    IN /\ pub[p] = NoPublication
       /\ chan' = [c EXCEPT !.snap = s]
       /\ pub' = [pub EXCEPT ![p] = [snap |-> s, to |-> c.subs]]
       /\ StreamCounted

\* publish after the lock: replace what the subscriber has not read yet.
Offer(p) ==
    /\ \E v \in pub[p].to :
         /\ slot' = IF slot[v] = Closed THEN slot ELSE [slot EXCEPT ![v] = pub[p].snap]
         /\ pub' = [pub EXCEPT ![p].to = @ \ {v}]
    /\ UNCHANGED <<row, worker, news, chan, canceller, saw, page, shown, streams, runs, crashes>>

\* publish returns.
Returned(p) == pub[p] # NoPublication /\ pub[p].to = {}
Settled(p) == pub' = [pub EXCEPT ![p] = NoPublication]

\* _cleanup_locked, ten minutes after the end: longer than any request or publication.
Expire ==
    /\ chan.expires /\ \A p \in Publishers : pub[p] = NoPublication
    /\ canceller # "stored" /\ \A v \in Viewers : page[v] # "seeding"
    /\ streams < MaxStreams
    /\ chan' = NoChannel
    /\ slot' = [v \in Viewers |-> IF v \in chan.subs THEN Closed ELSE slot[v]]
    /\ UNCHANGED <<row, worker, news, pub, canceller, saw, page, shown, streams, runs, crashes>>

-----------------------------------------------------------------------------
(* The engine.                                                              *)

\* The background task opens the channel and goes on, unless the run was deleted.
StartLive ==
    /\ worker = "queued"
    /\ \/ /\ row # "none" /\ worker' = "running"
          /\ chan' = Opened("RUNNING") /\ StreamCounted
       \/ row = "none" /\ worker' = "done" /\ UNCHANGED <<chan, streams>>
    /\ UNCHANGED <<row, news, pub, canceller, saw, page, slot, shown, runs, crashes>>

\* _publish_live.
PublishNews ==
    /\ worker = "running" /\ news < MaxNews /\ news' = news + 1
    /\ Publish("engine", "RUNNING", FALSE)
    /\ UNCHANGED <<row, worker, canceller, saw, page, slot, shown, runs, crashes>>

EngineReturns ==
    /\ worker = "running" /\ Returned("engine") /\ Settled("engine")
    /\ UNCHANGED <<row, worker, news, chan, canceller, saw, page, slot, shown, streams, runs,
                   crashes>>

\* _update_run_summary writes the final status.
Summarise ==
    /\ worker = "running" /\ pub["engine"] = NoPublication
    /\ worker' = "over" /\ row' = IF row = "none" THEN row ELSE "OVER"
    /\ UNCHANGED <<news, chan, pub, canceller, saw, page, slot, shown, streams, runs, crashes>>

\* finish_run publishes the end; when that has returned, the channel will expire.
FinishRun ==
    /\ worker = "over" /\ worker' = "closing"
    /\ Publish("engine", "OVER", TRUE)
    /\ UNCHANGED <<row, news, canceller, saw, page, slot, shown, runs, crashes>>

FinishReturns ==
    /\ worker = "closing" /\ Returned("engine") /\ Settled("engine")
    /\ worker' = "done"
    /\ chan' = IF chan = NoChannel THEN chan ELSE [chan EXCEPT !.expires = TRUE]
    /\ UNCHANGED <<row, news, canceller, saw, page, slot, shown, streams, runs, crashes>>

-----------------------------------------------------------------------------
(* Requests that write.                                                     *)

\* cancel_run: the row first, the channel afterwards.
CancelRow ==
    /\ canceller = "idle" /\ row = "RUNNING"
    /\ canceller' = "stored" /\ row' = "ABORTED"
    /\ UNCHANGED <<worker, news, chan, pub, saw, page, slot, shown, streams, runs, crashes>>

CancelPublishes ==
    /\ canceller = "stored" /\ canceller' = "done"
    /\ Publish("cancel", "ABORTED", FALSE)
    /\ UNCHANGED <<row, worker, news, saw, page, slot, shown, runs, crashes>>

CancelReturns ==
    /\ Returned("cancel") /\ Settled("cancel")
    /\ UNCHANGED <<row, worker, news, chan, canceller, saw, page, slot, shown, streams, runs,
                   crashes>>

\* delete_run removes the rows; the registry keeps its channel.  That the engine holds
\* its device, which would refuse the deletion, is left out (see InspectionRun).
DeleteRun ==
    /\ row \in Terminal /\ row' = "none"
    /\ UNCHANGED <<worker, news, chan, pub, canceller, saw, page, slot, shown, streams, runs,
                   crashes>>

\* create_run after the deletion of the newest run: SQLite gives its id again.
CreateRun ==
    /\ row = "none" /\ worker \in {"none", "done"} /\ canceller # "stored" /\ runs < MaxRuns
    /\ pub = [p \in Publishers |-> NoPublication] /\ \A v \in Viewers : page[v] = "off"
    /\ row' = "RUNNING" /\ worker' = "queued" /\ runs' = runs + 1
    /\ news' = 0 /\ canceller' = "idle" /\ shown' = [v \in Viewers |-> Nothing]
    /\ UNCHANGED <<chan, pub, saw, page, slot, streams, crashes>>

-----------------------------------------------------------------------------
(* The page and its requests.                                               *)

\* A slip: the page shows whatever comes.
MergeAnything(old, new) == new

\* mergeInspectionLiveSnapshot.
Merge(old, new) ==
    IF \/ old.stream # 0 /\ new.stream < old.stream
       \/ new.stream = old.stream /\ new.rev < old.rev
    THEN old
    ELSE new

Ended(snap) == snap.terminal \/ snap.status \in Terminal

\* refreshSnapshot: the current snapshot, or a channel has to be seeded.
Refresh(v) ==
    /\ page[v] = "off" /\ row # "none" /\ ~Ended(shown[v])
    /\ \/ /\ chan # NoChannel
          /\ shown' = [shown EXCEPT ![v] = Merge(@, chan.snap)]
          /\ page' = [page EXCEPT ![v] = "asking"]
          /\ UNCHANGED saw
       \/ /\ chan = NoChannel /\ streams < MaxStreams
          /\ saw' = [saw EXCEPT ![v] = row]
          /\ page' = [page EXCEPT ![v] = "seeding"]
          /\ UNCHANGED shown
    /\ UNCHANGED <<row, worker, news, chan, pub, canceller, slot, streams, runs, crashes>>

\* _ensure_live_snapshot publishes what the row said: the stage, or the end.
Seed(v) ==
    /\ page[v] = "seeding" /\ saw[v] # "none"
    /\ Publish(v, saw[v], saw[v] \in Terminal)
    /\ saw' = [saw EXCEPT ![v] = "none"]
    /\ UNCHANGED <<row, worker, news, canceller, page, slot, shown, runs, crashes>>

SeedReturns(v) ==
    /\ page[v] = "seeding" /\ Returned(v) /\ Settled(v)
    /\ shown' = [shown EXCEPT ![v] = Merge(@, pub[v].snap)]
    /\ page' = [page EXCEPT ![v] = "asking"]
    /\ chan' = IF chan # NoChannel /\ pub[v].snap.terminal
               THEN [chan EXCEPT !.expires = TRUE] ELSE chan
    /\ UNCHANGED <<row, worker, news, canceller, saw, slot, streams, runs, crashes>>

\* The WebSocket of the page subscribes, unless the channel is gone; a page that shows
\* the end opens none.
Subscribe(v) ==
    /\ page[v] = "asking"
    /\ \/ /\ chan # NoChannel /\ ~Ended(shown[v])
          /\ page' = [page EXCEPT ![v] = "open"]
          /\ chan' = [chan EXCEPT !.subs = @ \cup {v}]
          /\ slot' = [slot EXCEPT ![v] = chan.snap]
       \/ /\ chan = NoChannel \/ Ended(shown[v])
          /\ page' = [page EXCEPT ![v] = "off"]
          /\ UNCHANGED <<chan, slot>>
    /\ UNCHANGED <<row, worker, news, pub, canceller, saw, shown, streams, runs, crashes>>

\* unsubscribe, when the WebSocket ends.
Unsubscribed(v) ==
    /\ page' = [page EXCEPT ![v] = "off"]
    /\ slot' = [slot EXCEPT ![v] = Nothing]
    /\ chan' = [chan EXCEPT !.subs = @ \ {v}]

\* The page gets a snapshot; the server closes after the terminal one.
Received(v, snap) ==
    /\ shown' = [shown EXCEPT ![v] = Merge(@, snap)]
    /\ \/ snap.terminal /\ Unsubscribed(v)
       \/ /\ ~snap.terminal
          /\ slot' = [slot EXCEPT ![v] = Nothing]
          /\ UNCHANGED <<page, chan>>

Receive(v) ==
    /\ page[v] = "open" /\ slot[v] # Nothing
    /\ \/ slot[v] = Closed /\ Unsubscribed(v) /\ UNCHANGED shown
       \/ slot[v] # Closed /\ Received(v, slot[v])
    /\ UNCHANGED <<row, worker, news, pub, canceller, saw, streams, runs, crashes>>

\* A slip: after 5 silent seconds the loop only goes on waiting.
HeartbeatSkipped(v) == FALSE /\ Received(v, chan.snap)

\* After 5 silent seconds the current snapshot is sent.
Heartbeat(v) ==
    \/ chan = NoChannel /\ Unsubscribed(v) /\ UNCHANGED shown
    \/ chan # NoChannel /\ Received(v, chan.snap)

HeartbeatSent(v) ==
    /\ page[v] = "open" /\ slot[v] = Nothing /\ Heartbeat(v)
    /\ UNCHANGED <<row, worker, news, pub, canceller, saw, streams, runs, crashes>>

\* The page is left, or the connection breaks.
Leave(v) ==
    /\ page[v] = "open" /\ Unsubscribed(v)
    /\ UNCHANGED <<row, worker, news, pub, canceller, saw, shown, streams, runs, crashes>>

\* A restart: the registry, the engine and the connections are lost.
Crash ==
    /\ crashes < MaxCrashes /\ crashes' = crashes + 1 /\ streams < MaxStreams
    /\ worker' = "none" /\ chan' = NoChannel
    /\ pub' = [p \in Publishers |-> NoPublication]
    /\ canceller' = "done" /\ saw' = [v \in Viewers |-> "none"]
    /\ page' = [v \in Viewers |-> "off"] /\ slot' = [v \in Viewers |-> Nothing]
    /\ UNCHANGED <<row, news, shown, streams, runs>>

-----------------------------------------------------------------------------
Next ==
    \/ \E p \in Publishers : Offer(p)
    \/ Expire \/ Crash
    \/ StartLive \/ PublishNews \/ EngineReturns \/ Summarise \/ FinishRun \/ FinishReturns
    \/ CancelRow \/ CancelPublishes \/ CancelReturns \/ DeleteRun \/ CreateRun
    \/ \E v \in Viewers : \/ Refresh(v) \/ Seed(v) \/ SeedReturns(v) \/ Subscribe(v)
                          \/ Receive(v) \/ HeartbeatSent(v) \/ Leave(v)

\* Threads go on, requests are answered, and a page that is off asks again; a page need
\* not be left and a cancel, a deletion or a crash need not come.
Fairness ==
    /\ WF_vars(StartLive \/ Offer("engine") \/ EngineReturns \/ Summarise \/ FinishRun
               \/ FinishReturns)
    /\ WF_vars(CancelPublishes \/ Offer("cancel") \/ CancelReturns)
    /\ \A v \in Viewers : WF_vars(\/ Refresh(v) \/ Seed(v) \/ Offer(v) \/ SeedReturns(v)
                                  \/ Subscribe(v) \/ Receive(v) \/ HeartbeatSent(v))

Spec == Init /\ [][Next]_vars /\ Fairness

-----------------------------------------------------------------------------
Snapshots == [stream : 0 .. MaxStreams + 1, rev : Nat, status : Terminal \cup {"RUNNING", "none"},
              terminal : BOOLEAN]

(* The variables keep their types. *)
TypeOK ==
    /\ row \in Terminal \cup {"RUNNING", "none"}
    /\ worker \in {"none", "queued", "running", "over", "closing", "done"}
    /\ news \in 0 .. MaxNews /\ canceller \in {"idle", "stored", "done"}
    /\ chan \in [snap : Snapshots, subs : SUBSET Viewers, expires : BOOLEAN]
    /\ pub \in [Publishers -> [snap : Snapshots, to : SUBSET Viewers]]
    /\ saw \in [Viewers -> Terminal \cup {"RUNNING", "none"}]
    /\ page \in [Viewers -> {"off", "seeding", "asking", "open"}]
    /\ slot \in [Viewers -> Snapshots] /\ shown \in [Viewers -> Snapshots]
    /\ streams \in 0 .. MaxStreams + 1 /\ runs \in 1 .. MaxRuns /\ crashes \in 0 .. MaxCrashes

(* The slot of a subscriber may hold an older snapshot than it held before       *)
(* (live.py 722: offers are made outside the lock), but what a page shows of a run  *)
(* never goes back to an older stream or revision, and a shown end is not taken    *)
(* back while the stream lasts.                                                  *)
PageNeverGoesBack ==
    [][\A v \in Viewers :
         shown'[v] # Nothing =>
           \/ shown'[v].stream > shown[v].stream
           \/ /\ shown'[v].stream = shown[v].stream /\ shown'[v].rev >= shown[v].rev
              /\ shown[v].terminal => shown'[v].terminal]_vars

(* A page that stays with a run learns that it is over, although the terminal      *)
(* snapshot may be overwritten in its slot by an older one, the channel may expire *)
(* and the server may restart.                                                   *)
EveryPageLearnsTheEnd ==
    \A v \in Viewers : row = "OVER" ~> (Ended(shown[v]) \/ row = "none")

(* "inspection run finished" (api/inspections.py 3447) is said of a run whose      *)
(* engine has ended or whose cancel was stored.                                   *)
FinishedIsOver ==
    \A v \in Viewers : shown[v].terminal => worker \notin {"queued", "running"} \/ row # "RUNNING"
=============================================================================
