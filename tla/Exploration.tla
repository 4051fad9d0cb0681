------------------------------ MODULE Exploration ------------------------------
(***************************************************************************)
(* How an inspection branch explores an app: _execute_branch of            *)
(* backend/inspection/engine.py.  One thread takes pages from a queue,      *)
(* brings the device to the page, performs the page's actions one by one,   *)
(* and puts the pages that they lead to into the queue, until the queue is   *)
(* empty or the budget is used up.  The app answers as it likes: an action   *)
(* may lead anywhere, fail, or leave the app, and the way back may be lost.  *)
(*                                                                         *)
(* Abstractions: a page and its replay path are one value, since a page is   *)
(* reached by one path; queues and action lists are sets, since their order  *)
(* is a matter of priorities; a status is one of five classes.  Actions      *)
(* that close an overlay, which may be repeated, are left out.               *)
(***************************************************************************)
EXTENDS Naturals

CONSTANTS
    Pages, Root,
    Key,         \* Key[p]: the logical page, without Coverage: variants have the same
    Acts,        \* Acts[p]: the actions of page p; one name is one role
    Hidden,      \* Hidden[p]: those that only a later capture may show
    Leads,       \* Leads[a]: the pages where action a may lead
    Scrolls,     \* the actions that scroll
    Surface,     \* Surface[p]: pages of one surface share the roles they covered
    OutOfScope,  \* pages outside of a branch with scope "single_page"
    Schedulers   \* a subset of BOOLEAN: with coverage_scheduler, or without

VARIABLES
    f,           \* the frontier: what is known, queued, attempted, finished; and
                 \* coverage_scheduler: only then surfaces, reuse and handoffs exist
    pc, parent, doing, todo,
    capture,     \* parent_capture is there and matches the parent
    exhausted,   \* parent_recovery_exhausted
    diverged,    \* the parent's recovery_status is PATH_DIVERGED
    ready,       \* ready_captures
    device,      \* current_device_path: a page, "unknown", or "between"
    at,          \* where the device really is: a page or "elsewhere"
    retry,       \* pages with a recovery_retry_count of 1
    rebuilt,     \* sequence numbers since the last rebuilding, and its failures
    label,       \* terminal_frontier_status, once it is set
    called       \* what the device was asked to do

vars == <<f, pc, parent, doing, todo, capture, exhausted, diverged, ready, device, at,
          retry, rebuilt, label, called>>

Actions == UNION {Acts[p] : p \in Pages}
Surfaces == {Surface[p] : p \in Pages}

(* Nobody scrolls out of the scope of the root: the key of a scrolled page joins those *)
(* in scope (engine.py:8564).                                                     *)
ASSUME ExplorationAssumption ==
    /\ Root \in Pages \ OutOfScope /\ Pages \cap {"unknown", "between", "elsewhere"} = {}
    /\ Acts \in [Pages -> SUBSET Actions]
    /\ Leads \in [Actions -> SUBSET Pages]
    /\ \A a \in Scrolls \cap Actions : Leads[a] \cap OutOfScope = {}
    /\ Schedulers \subseteq BOOLEAN

Open == {"PENDING", "INVOKED"}            \* "ACTIVE" lasts for one step only
Covering == {"PASS", "REUSED"}            \* _SURFACE_COVERED_ACTION_STATUSES
Statuses == Open \cup Covering \cup {"CLOSED", "FILTERED"}
Working == {"DISCOVERED", "QUEUED", "DEFERRED", "EXPANDING"}
Settled == {"EXPANDED", "COVERED_BY_SURFACE", "SCOPE_SKIPPED", "BUDGET_SKIPPED", "ABORTED"}

TypeOK ==
    /\ \A p \in Pages : f.known[p] \subseteq Acts[p] /\ f.acts[p] \subseteq f.known[p]
    /\ f.status \in [Pages -> [Actions -> Statuses]]
    /\ f.label \in [Pages -> Working \cup Settled]
    /\ f.queued \subseteq f.enqueued /\ f.enqueued \cup f.expanded \subseteq f.tracked
    /\ f.late \subseteq f.known[parent]
    /\ f.tracked \cup f.surfaced \cup f.scoped \cup ready \cup retry \subseteq Pages
    /\ f.covered \in [Surfaces -> SUBSET Actions]
    /\ pc \in {"top", "limit", "recover", "loop", "invoked", "restore", "verify",
               "end", "crashed"}
    /\ parent \in Pages /\ todo \subseteq Acts[parent]
    /\ {capture, exhausted, diverged} \subseteq BOOLEAN
    /\ device \in Pages \cup {"unknown", "between"} /\ at \in Pages \cup {"elsewhere"}
    /\ rebuilt \in [since : {"never", "same", "moved"}, failures : 0..1]
    /\ label \in Settled \cup {"none"}

-----------------------------------------------------------------------------
(* The frontier, g being one.                                                    *)
LogicalKey(g, p) == IF g.coverage THEN p ELSE Key[p]
\* Faulty variant: what was attempted before is not looked up.
PendingAll(g, p, as) == as

Pending(g, p, as) == {a \in as : <<LogicalKey(g, p), a>> \notin g.attempted}
Terminal(g, p) == \A a \in g.known[p] : g.status[p][a] \notin Open

SurfaceCovered(g, p, as) == g.coverage /\ as # {} /\ as \subseteq g.covered[Surface[p]]

\* The pages ps are closed: each action of theirs that is open.
Closed(g, ps) ==
    [g EXCEPT !.status = [p \in Pages |-> [a \in Actions |->
        IF p \in ps /\ a \in g.known[p] /\ @[p][a] \in Open THEN "CLOSED" ELSE @[p][a]]]]

SetStatus(g, p, as, s) ==
    [g EXCEPT !.status[p] = [a \in Actions |-> IF a \in as THEN s ELSE @[a]],
              !.covered[Surface[p]] = IF s \in Covering THEN @ \cup as ELSE @]

Attempt(g, p, as) == [g EXCEPT !.attempted = @ \cup {<<LogicalKey(g, p), a>> : a \in as}]

\* mark_state_expanded_if_terminal
Expand(g, p) ==
    IF Terminal(g, p) /\ p \notin g.scoped
    THEN [g EXCEPT !.expanded = @ \cup {p}, !.label[p] = "EXPANDED"] ELSE g

\* finalize_unqueued_work; the page may be in the queue all the same.
Close(g, p, l) ==
    IF p \in g.scoped \/ Terminal(g, p) THEN Expand(g, p)
    ELSE [Closed(g, {p}) EXCEPT !.label[p] = l]

CloseCovered(g, p) == [Close(g, p, "COVERED_BY_SURFACE") EXCEPT !.surfaced = @ \cup {p}]

\* enqueue: whole if the caller gives no list of actions.
Enqueue(g, p, as, whole, front) ==
    LET rest == Pending(g, p, as) IN
    IF p \in g.scoped \/ (rest = {} /\ (~whole \/ p \in g.expanded)) THEN g
    ELSE IF /\ ~front /\ p # Root /\ p \notin g.queued \cup g.expanded
            /\ SurfaceCovered(g, p, rest)
    THEN CloseCovered(g, p)
    ELSE [g EXCEPT !.expanded = IF p \in g.queued THEN @ ELSE @ \ {p},
                   !.queued = @ \cup {p}, !.acts[p] = @ \cup rest,
                   !.enqueued = @ \cup {p}, !.label[p] = "QUEUED"]

\* Faulty variant: pages that fell out of the queue are forgotten.
UnresolvedQueued(g) == g.queued

Unresolved(g) == g.queued \cup {p \in g.enqueued \ g.expanded : ~Terminal(g, p)}

\* Pages that are open but not in the queue are put into it once more, each as by enqueue.
Requeued(g) ==
    LET due == {p \in Unresolved(g) \ g.scoped : Pending(g, p, g.known[p]) # {}}
        over == {p \in due \ {Root} : SurfaceCovered(g, p, Pending(g, p, g.known[p]))}
        back == due \ over
    IN  [Closed(g, over) EXCEPT
            !.surfaced = @ \cup over, !.queued = @ \cup back, !.enqueued = @ \cup back,
            !.acts = [p \in Pages |->
                @[p] \cup IF p \in back THEN Pending(g, p, g.known[p]) ELSE {}],
            !.label = [p \in Pages |-> IF p \in over THEN "COVERED_BY_SURFACE"
                                      ELSE IF p \in back THEN "QUEUED" ELSE @[p]]]

Dequeue(g, p) == [g EXCEPT !.queued = @ \ {p}, !.acts[p] = {}, !.late = {}]

\* track_work: a page that is seen again may show more (grow).  If the object in the queue
\* or at work is the tracked one and no copy, its list grows too (listed).
Track(g, p, grow, listed) ==
    LET more == IF grow /\ listed /\ p \in g.tracked THEN Acts[p] \ g.known[p] ELSE {} IN
    [g EXCEPT !.tracked = @ \cup {p},
              !.known[p] =
                  IF grow THEN Acts[p] ELSE IF p \in g.tracked THEN @ ELSE Acts[p] \ Hidden[p],
              !.acts[p] = IF p \in g.queued THEN @ \cup more ELSE @,
              !.late = IF p = parent THEN @ \cup more ELSE @]

\* Roles that were exercised on some page (family and contract coverage).
Exercised(g) == {a \in Actions : g.coverage /\ \E p \in Pages : g.status[p][a] \in Covering}

\* finalize_capture_reuse: as are covered by what was done elsewhere, or sampled out.
Reuse(g, p, as, s) ==
    IF as = {} THEN g ELSE Expand(SetStatus(Attempt(g, p, as), p, as, s), p)

\* When the exploration's share is used up, what is left is closed.
Sweep(g) ==
    LET due == g.tracked \ g.surfaced
        ended == {p \in due \ g.scoped : Terminal(g, p)}
        closed == {p \in due \ g.scoped : ~Terminal(g, p)}
        over == {p \in due : ~Terminal(g, p) /\ SurfaceCovered(g, p, Pending(g, p, g.known[p]))}
    IN  [Closed(g, closed) EXCEPT
            !.expanded = @ \cup ended, !.surfaced = @ \cup over,
            !.label = [p \in Pages |-> IF p \in ended THEN "EXPANDED"
                                      ELSE IF p \in closed \cap over THEN "COVERED_BY_SURFACE"
                                      ELSE IF p \in closed THEN "BUDGET_SKIPPED" ELSE @[p]]]

\* The finally block: every open action gets status s, every page that is not
\* expanded the label l, if there is one.
Finalized(g, s, l) ==
    [g EXCEPT
        !.status = [p \in Pages |-> [a \in Actions |->
            IF a \notin g.known[p] \/ @[p][a] \notin Open THEN @[p][a]
            ELSE IF @[p][a] = "INVOKED" THEN "CLOSED" ELSE s]],
        !.label = [p \in Pages |->
            IF l = "none" \/ p \notin g.tracked \/ p \in g.expanded THEN @[p] ELSE l]]

-----------------------------------------------------------------------------
Init ==
    /\ \E c \in Schedulers : f =
           [known |-> [p \in Pages |-> IF p = Root THEN Acts[p] \ Hidden[p] ELSE {}],
            status |-> [p \in Pages |-> [a \in Actions |-> "PENDING"]],
            tracked |-> {Root}, attempted |-> {}, queued |-> {Root}, enqueued |-> {Root}, expanded |-> {},
            acts |-> [p \in Pages |-> IF p = Root THEN Acts[p] \ Hidden[p] ELSE {}],
            label |-> [p \in Pages |-> IF p = Root THEN "QUEUED" ELSE "DISCOVERED"],
            covered |-> [s \in Surfaces |-> {}], surfaced |-> {}, scoped |-> {}, late |-> {},
            coverage |-> c]
    /\ pc = "top" /\ parent = Root /\ doing = "none" /\ todo = {}
    /\ capture = FALSE /\ exhausted = FALSE /\ diverged = FALSE
    /\ ready = {} /\ device = "unknown" /\ at = Root /\ retry = {}
    /\ rebuilt = [since |-> "never", failures |-> 0] /\ label = "none" /\ called = {}

Progress == [rebuilt EXCEPT !.since = IF @ = "same" THEN "moved" ELSE @]

-----------------------------------------------------------------------------
(* Between two pages.                                                            *)
Limit ==
    /\ pc \in {"top", "limit"}
    /\ LET g == Sweep(f) IN
       f' = [g EXCEPT !.queued = {}, !.acts = [p \in Pages |-> {}]]
    /\ pc' = "verify"
    /\ UNCHANGED <<parent, doing, todo, capture, exhausted, diverged, ready, device, at,
                   retry, rebuilt, label, called>>

Drained ==
    /\ pc = "top" /\ f.queued = {} /\ Unresolved(f) = {}
    /\ pc' = "verify"
    /\ UNCHANGED <<f, parent, doing, todo, capture, exhausted, diverged, ready, device, at,
                   retry, rebuilt, label, called>>

\* Pages that fell out of the queue with actions left are queued once more ...
Rebuild ==
    /\ pc = "top" /\ f.queued = {} /\ Unresolved(f) # {}
    /\ ~(rebuilt.since = "same" /\ rebuilt.failures = 1)
    /\ f' = Requeued(f)
    /\ device' = IF f'.queued # {} THEN "unknown" ELSE device
    /\ rebuilt' = [since |-> "same", failures |-> IF rebuilt.since = "same" THEN 1 ELSE 0]
    /\ UNCHANGED <<pc, parent, doing, todo, capture, exhausted, diverged, ready, at, retry,
                   label, called>>

\* ... but not for ever: FRONTIER_INCOMPLETE.
GiveUp ==
    /\ pc = "top" /\ f.queued = {} /\ Unresolved(f) # {}
    /\ rebuilt.since = "same" /\ rebuilt.failures = 1
    /\ f' = Finalized(f, "CLOSED", "ABORTED") /\ pc' = "end"
    /\ UNCHANGED <<parent, doing, todo, capture, exhausted, diverged, ready, device, at,
                   retry, rebuilt, label, called>>

PopExpanded(p) ==
    /\ pc = "top" /\ p \in f.queued \cap f.expanded
    /\ f' = Dequeue(f, p) /\ ready' = ready \ {p}
    /\ UNCHANGED <<pc, parent, doing, todo, capture, exhausted, diverged, device, at,
                   retry, rebuilt, label, called>>

\* Faulty variant: the path that the device is on is not compared.
AtPathUnread(p) == TRUE

\* The capture that led to the page is used if the device is still there: an unknown
\* path is compared like the root's, which is empty.
AtPath(p) == device = p \/ (device = "unknown" /\ p = Root)

Pop(p) ==
    /\ pc = "top" /\ p \in f.queued \ f.expanded
    /\ f' = [Dequeue(f, p) EXCEPT !.label[p] = "EXPANDING"]
    /\ parent' = p /\ todo' = f.acts[p] /\ ready' = ready \ {p}
    /\ capture' = (p \in ready /\ AtPath(p))
    /\ IF capture' THEN pc' = "loop" /\ retry' = retry \ {p}
       ELSE pc' = "recover" /\ retry' = retry
    /\ exhausted' = FALSE /\ diverged' = FALSE
    /\ UNCHANGED <<doing, device, at, rebuilt, label, called>>

\* same_state
SamePage == at # "elsewhere" /\ LogicalKey(f, at) = LogicalKey(f, parent)

-----------------------------------------------------------------------------
(* A page's turn.                                                                *)

\* The end of a turn: g is the frontier, as are the actions left, d is the path.
Wrap(g, as, d) ==
    /\ f' = IF Terminal(g, parent) THEN Expand(g, parent)
            ELSE Enqueue(g, parent, as, FALSE, FALSE)
    /\ device' = d /\ pc' = "top"
    /\ todo' = {} /\ capture' = FALSE /\ exhausted' = FALSE /\ diverged' = FALSE

\* _ensure_parent: the device shows the page, or is brought there.
ParentFound ==
    /\ pc = "recover" \/ (pc = "loop" /\ ~capture /\ ~exhausted /\ Pending(f, parent, todo) # {})
    /\ pc' = "loop" /\ capture' = TRUE /\ diverged' = FALSE /\ at' = parent
    /\ retry' = retry \ {parent}
    /\ UNCHANGED <<f, parent, doing, todo, exhausted, ready, device, rebuilt, label, called>>

\* The rest of the parent's list; the loop itself goes on with the list it began with.
Left(g) == todo \cup g.late

\* defer_parent_recovery: put off once, unless the path has diverged (d).
Deferred == [Enqueue(f, parent, Left(f), FALSE, FALSE) EXCEPT !.label[parent] = "DEFERRED"]
\* Faulty variant: recovery_retry_count is not looked at.
MayDeferAgain(d) == ~d /\ Pending(f, parent, Left(f)) # {} /\ parent \in Deferred.queued

MayDefer(d) ==
    /\ ~d /\ parent \notin retry
    /\ Pending(f, parent, Left(f)) # {} /\ parent \in Deferred.queued

Abandoned == SetStatus(Attempt(f, parent, Left(f)), parent, Left(f), "CLOSED")

ParentLost(d) ==
    /\ pc = "recover" /\ at' = "elsewhere"
    /\ f' = IF MayDefer(d) THEN Deferred ELSE Expand(Abandoned, parent)
    /\ retry' = IF d THEN retry ELSE retry \cup {parent}
    /\ device' = "unknown" /\ pc' = "top" /\ todo' = {} /\ rebuilt' = Progress
    /\ UNCHANGED <<parent, doing, capture, exhausted, diverged, ready, label, called>>

\* In the loop: the way back was lost after an action, or is lost now.
ParentLostLater(d) ==
    /\ pc = "loop" /\ ~capture /\ Pending(f, parent, todo) # {}
    /\ exhausted => d = diverged
    /\ at' = IF exhausted THEN at ELSE "elsewhere"
    /\ IF MayDefer(d) THEN Wrap(Deferred, Left(f), "unknown") ELSE Wrap(Abandoned, {}, "unknown")
    /\ retry' = IF d THEN retry ELSE retry \cup {parent}
    /\ rebuilt' = Progress
    /\ UNCHANGED <<parent, doing, ready, label, called>>

EndTurn ==
    /\ pc = "loop" /\ todo = {}
    /\ Wrap(f, f.late, IF capture THEN parent ELSE "unknown")
    /\ UNCHANGED <<parent, doing, ready, at, retry, rebuilt, label, called>>

\* The share of device actions is used up: the rest is left for Limit.
LimitInTurn ==
    /\ pc = "loop" /\ todo # {}
    /\ f' = IF Terminal(f, parent) THEN Expand(f, parent)
            ELSE Enqueue(f, parent, Left(f), FALSE, FALSE)
    /\ pc' = "limit" /\ todo' = {} /\ capture' = FALSE /\ exhausted' = FALSE
    /\ diverged' = FALSE
    /\ UNCHANGED <<parent, doing, ready, device, at, retry, rebuilt, label, called>>

Fresh(a) == pc = "loop" /\ a \in Pending(f, parent, todo)

\* Attempted before: SKIPPED, whatever the status was.
SkipAgain(a) ==
    /\ pc = "loop" /\ a \in todo \ Pending(f, parent, todo)
    /\ f' = SetStatus(f, parent, {a}, "CLOSED")
    /\ todo' = todo \ {a} /\ rebuilt' = Progress
    /\ UNCHANGED <<pc, parent, doing, capture, exhausted, diverged, ready, device, at,
                   retry, label, called>>

\* Blocked, unsafe, sampled out, exhausted; or covered by what was done elsewhere.
Skip(a) ==
    /\ Fresh(a)
    /\ \E s \in {"CLOSED", "REUSED"} :
        /\ s = "REUSED" => a \in Exercised(f)
        /\ f' = SetStatus(Attempt(f, parent, {a}), parent, {a}, s)
    /\ todo' = todo \ {a} /\ rebuilt' = Progress
    /\ UNCHANGED <<pc, parent, doing, capture, exhausted, diverged, ready, device, at,
                   retry, label, called>>

\* No unique locator; or none, and then a new capture shows whether this is the page.
NotLocated(a) ==
    /\ Fresh(a) /\ capture
    /\ f' = SetStatus(Attempt(f, parent, {a}), parent, {a}, "CLOSED")
    /\ capture' \in {TRUE, SamePage}
    /\ todo' = todo \ {a} /\ retry' = retry \ {parent} /\ rebuilt' = Progress
    /\ UNCHANGED <<pc, parent, doing, exhausted, diverged, ready, device, at, label, called>>

CallFails(a) ==
    /\ Fresh(a) /\ capture
    /\ f' = SetStatus(Attempt(f, parent, {a}), parent, {a}, "CLOSED")
    /\ capture' = FALSE /\ at' = "elsewhere" /\ called' = called \cup {<<parent, a>>}
    /\ todo' = todo \ {a} /\ retry' = retry \ {parent} /\ rebuilt' = Progress
    /\ UNCHANGED <<pc, parent, doing, exhausted, diverged, ready, device, label>>

Invoke(a) ==
    /\ Fresh(a) /\ capture
    /\ f' = SetStatus(Attempt(f, parent, {a}), parent, {a}, "INVOKED")
    /\ at' \in Leads[a] \cup {"elsewhere"}
    /\ pc' = "invoked" /\ doing' = a /\ called' = called \cup {<<parent, a>>}
    /\ todo' = todo \ {a} /\ retry' = retry \ {parent} /\ rebuilt' = Progress
    /\ UNCHANGED <<parent, capture, exhausted, diverged, ready, device, label>>

-----------------------------------------------------------------------------
(* After an action: where did it lead?                                           *)

LeftApp ==
    /\ pc = "invoked" /\ at = "elsewhere"
    /\ f' = SetStatus(f, parent, {doing}, "CLOSED")
    /\ pc' = "loop" /\ capture' = FALSE
    /\ UNCHANGED <<parent, doing, todo, exhausted, diverged, ready, device, at, retry,
                   rebuilt, label, called>>

\* NO_EFFECT, or VARIANT_LIMIT: nothing is recorded but the action.
Unrecorded ==
    /\ pc = "invoked" /\ at # "elsewhere" /\ doing \notin Scrolls
    /\ f' = SetStatus(f, parent, {doing}, "CLOSED")
    /\ pc' = IF SamePage THEN "loop" ELSE "restore"
    /\ capture' = SamePage
    /\ UNCHANGED <<parent, doing, todo, exhausted, diverged, ready, device, at, retry,
                   rebuilt, label, called>>

\* The frontier with the page recorded; then, what it shares with others is not done
\* again (whole: nothing else is left of it).
Recorded(s) ==
    {SetStatus(Track(f, at, grow, listed), parent, {doing}, s) : grow, listed \in BOOLEAN}

Captured ==
    UNION {{[g |-> Reuse(g, at, as, s), reused |-> as # {}] :
                as \in IF at = parent THEN {{}}
                       ELSE SUBSET (Pending(g, at, g.known[at]) \cap Exercised(g)),
                s \in {"REUSED", "CLOSED"}} : g \in Recorded("PASS")}

NothingLeft(c) == c.reused /\ Terminal(c.g, at)

\* A page with nothing left, out of scope, or too deep or not to be reached again is
\* not queued; others are.
Routed(c) ==
    IF NothingLeft(c) THEN {c.g}
    ELSE IF at \in OutOfScope
    THEN {[Close(c.g, at, "SCOPE_SKIPPED") EXCEPT !.scoped = @ \cup {at}]}
    ELSE {Close(c.g, at, "ABORTED"), Enqueue(c.g, at, c.g.known[at], TRUE, FALSE)}

\* The trail repeats itself: CYCLE_CONVERGED.
Converged == {IF at \in g.queued THEN g ELSE Close(g, at, "ABORTED") : g \in Recorded("CLOSED")}

Arrive ==
    /\ pc = "invoked" /\ at # "elsewhere" /\ doing \notin Scrolls
    /\ f' \in Converged \cup UNION {Routed(c) : c \in Captured}
    /\ pc' = IF SamePage THEN "loop" ELSE "restore"
    /\ capture' = SamePage
    /\ UNCHANGED <<parent, doing, todo, exhausted, diverged, ready, device, at, retry,
                   rebuilt, label, called>>

\* The page is new, or was found by its place on the screen: it comes next, with the
\* capture at hand, and the rest of the parent later.
Handoff ==
    /\ pc = "invoked" /\ at # "elsewhere" /\ doing \notin Scrolls
    /\ f.coverage /\ at # parent /\ at \notin OutOfScope
    /\ \E c \in Captured :
        /\ ~NothingLeft(c) /\ Pending(c.g, at, c.g.known[at]) # {}
        /\ LET own == Enqueue(c.g, parent, Left(c.g), FALSE, FALSE)
           IN  Wrap(Enqueue(own, at, own.known[at], TRUE, TRUE), Left(c.g), at)
    /\ ready' = ready \cup {at}
    /\ UNCHANGED <<parent, doing, at, retry, rebuilt, label, called>>

\* A scroll.  With Coverage the scrolled page is the page itself, and its capture is
\* kept.  moved: it looks like another page; view: it shows something new; direct: it
\* comes next.
Scroll ==
    /\ pc = "invoked" /\ at # "elsewhere" /\ doing \in Scrolls
    /\ \E moved, view, direct \in BOOLEAN :
        \E g \in Recorded("PASS") \cup (IF view THEN {} ELSE Converged) :
        /\ IF at = parent THEN moved => f.coverage ELSE moved = ~SamePage
        /\ view => moved
        /\ moved /\ ~view => f.coverage \/ g \in Converged
        /\ ready' = ready \cup (IF (f.coverage /\ at = parent) \/ (view /\ direct)
                               THEN {at} ELSE {})
        /\ IF moved
           THEN LET own == Enqueue(g, parent, Left(g), FALSE, direct \/ ~view)
                    both == IF view THEN Enqueue(own, at, own.known[at], TRUE, direct) ELSE own
                IN  Wrap(both, Left(g), IF view THEN at ELSE "between")
           ELSE /\ f' = g /\ pc' = "loop" /\ capture' = TRUE
                /\ UNCHANGED <<todo, exhausted, diverged, device>>
    /\ UNCHANGED <<parent, doing, at, retry, rebuilt, label, called>>

\* _restore_parent_after_transition: navigation, back, or the path once more.
Restored ==
    /\ pc = "restore" /\ pc' = "loop" /\ capture' = TRUE /\ at' = parent
    /\ UNCHANGED <<f, parent, doing, todo, exhausted, diverged, ready, device, retry,
                   rebuilt, label, called>>

NotRestored ==
    /\ pc = "restore" /\ pc' = "loop" /\ exhausted' = TRUE /\ at' = "elsewhere"
    /\ diverged' \in BOOLEAN
    /\ UNCHANGED <<f, parent, doing, todo, capture, ready, device, retry, rebuilt, label,
                   called>>

-----------------------------------------------------------------------------
(* The end, and what interrupts a turn.                                          *)
InTurn == pc \in {"recover", "loop", "invoked", "restore"} \/ (pc = "top" /\ f.queued # {})
Verifying == pc = "verify" /\ label = "none"

Stop(g, s, l, end) ==
    /\ f' = Finalized(g, s, l) /\ pc' = end
    /\ UNCHANGED <<parent, doing, todo, capture, exhausted, diverged, ready, device, at,
                   retry, rebuilt, label, called>>

Verified ==
    /\ pc = "verify"
    /\ Stop(f, IF label = "none" THEN "FILTERED" ELSE "CLOSED", label, "end")

\* ExplorationBudgetExceeded: an action that was invoked is closed, the rest swept.
ShareSpent ==
    /\ InTurn
    /\ f' = Sweep(IF pc = "invoked" THEN SetStatus(f, parent, {doing}, "CLOSED") ELSE f)
    /\ label' = "BUDGET_SKIPPED" /\ pc' = "verify"
    /\ UNCHANGED <<parent, doing, todo, capture, exhausted, diverged, ready, device, at,
                   retry, rebuilt, called>>

\* BudgetExceeded or InspectionAborted, in a turn or while paths are verified.
BudgetSpent == (InTurn \/ Verifying) /\ Stop(f, "CLOSED", "BUDGET_SKIPPED", "end")
Cancelled == (InTurn \/ Verifying) /\ Stop(f, "CLOSED", "ABORTED", "end")

\* Whatever nobody expects, e.g. DeviceDisconnected: the frontier stays as it is.
Crash == InTurn /\ Stop(f, "FILTERED", "none", "crashed")

Over == pc \in {"end", "crashed"}

Next ==
    \/ Limit \/ Crash \/ Verified \/ Drained \/ Rebuild \/ GiveUp
    \/ ParentFound \/ EndTurn \/ LimitInTurn
    \/ LeftApp \/ Unrecorded \/ Arrive \/ Handoff \/ Scroll \/ Restored \/ NotRestored
    \/ ShareSpent \/ BudgetSpent \/ Cancelled
    \/ \E p \in Pages : PopExpanded(p) \/ Pop(p)
    \/ \E d \in BOOLEAN : ParentLost(d) \/ ParentLostLater(d)
    \/ \E a \in Actions : SkipAgain(a) \/ Skip(a) \/ NotLocated(a) \/ CallFails(a) \/ Invoke(a)
    \/ Over /\ UNCHANGED vars

Spec == Init /\ [][Next]_vars
\* The thread does not stop before its end: every call of the device has a timeout.  (This
\* is WF_vars(Next), as Next is enabled until then; the deadlock check shows it.)
Fairness == <>[]Over \/ []<><<TRUE>>_vars
FairSpec == Spec /\ Fairness

-----------------------------------------------------------------------------
(* An action is performed on the page that it belongs to (engine.py:6778) -       *)
(* or on a wrong page in the turn of the root: see CaptureIsCurrent.              *)
ActsOnParent ==
    [][pc = "loop" /\ pc' = "invoked" /\ parent # Root => SamePage]_vars

(* The same for every page, as the comment says: a capture is reused only while   *)
(* the device is on the path that produced it.  The root's is also reused when     *)
(* nobody knows where the device is.                                             *)
CaptureIsCurrent ==
    [][pc = "loop" /\ pc' = "invoked" => SamePage]_vars

(* No action of a page is performed twice, however often the page is queued,       *)
(* deferred or rebuilt.                                                          *)
AtMostOnce ==
    [][pc = "loop" /\ pc' = "invoked" => <<parent, doing'>> \notin called]_vars

(* When a branch has ended, each page that was ever queued and not explored to the    *)
(* end has a final label, and no action of it fell through as never queued, however   *)
(* often it fell out of the queue.  Excepted: a page that was closed as covered by its  *)
(* surface and then showed more.                                                  *)
FrontierSettles ==
    pc = "end" =>
        \A p \in f.enqueued \ (f.expanded \cup f.surfaced) :
            /\ f.label[p] \in Settled
            /\ \A a \in f.known[p] : f.status[p][a] \notin Open \cup {"FILTERED"}

(* The types, and: no page of the frontier is forgotten when the branch ends.       *)
FrontierInOrder == TypeOK /\ FrontierSettles

(* Whatever the app does, the exploration comes to an end.                        *)
ExplorationEnds == <>Over

-----------------------------------------------------------------------------
(* Not true of the code.  A result stays: a queue entry made while the page was at  *)
(* work lists actions that are performed later in the same turn; when it is taken,   *)
(* their results are overwritten by SKIPPED, or by PARENT_RECOVERY_FAILED.          *)
ResultStays ==
    [][\A p \in Pages, a \in Actions : f.status[p][a] = "PASS" => f'.status[p][a] = "PASS"]_vars

(* Not true of the code.  engine.py:5522: SCOPE_SKIPPED "must survive the           *)
(* end-of-run sweeps"; and a page covered by its surface is no blind spot (6667). The  *)
(* finally block relabels both.                                                  *)
LabelsStay ==
    [][\A p \in Pages :
          f.label[p] \in {"SCOPE_SKIPPED", "COVERED_BY_SURFACE"} => f'.label[p] = f.label[p]]_vars

(* Not true of the code.  engine.py:5096: an instance of a surface whose roles were    *)
(* all exercised owes nothing.  When it is seen again it counts as expanded, and when  *)
(* it is seen once more it is queued: the look at the surface is for others only.      *)
CoveredOwesNothing ==
    [][\A p \in f.surfaced :
          SurfaceCovered(f, p, f'.known[p]) => p \notin f'.queued \ f.queued]_vars
=============================================================================
