--------------------------- MODULE ExplorationProofs ---------------------------
(***************************************************************************)
(* Proofs about Exploration, for any pages, actions, surfaces and places      *)
(* where actions lead: no page of the frontier is forgotten, no action is      *)
(* performed twice, and none on a wrong page but those of the root.            *)
(*                                                                         *)
(* The frontier is worked on by operators (SetStatus, Close, Enqueue ...)      *)
(* that the actions combine.  One lemma for each operator says that it keeps   *)
(* what is owed to every page (Owed); an action then is a chain of these.       *)
(***************************************************************************)
EXTENDS Exploration, TLAPS

-----------------------------------------------------------------------------
(* What holds of the frontier, g being one.                                  *)
Keys == Pages \cup {Key[p] : p \in Pages}
Labels == Working \cup Settled

Frontiers ==
    [tracked : SUBSET Pages, known : [Pages -> SUBSET Actions],
     status : [Pages -> [Actions -> Statuses]], attempted : SUBSET (Keys \X Actions),
     queued : SUBSET Pages, enqueued : SUBSET Pages, expanded : SUBSET Pages,
     acts : [Pages -> SUBSET Actions], label : [Pages -> Labels],
     covered : [Surfaces -> SUBSET Actions], surfaced : SUBSET Pages, scoped : SUBSET Pages,
     late : SUBSET Actions, coverage : BOOLEAN]

(* Its lists hold what was seen, and what is queued or done is tracked.        *)
Shown(g) ==
    /\ g \in Frontiers /\ \A p \in Pages \ g.tracked : g.known[p] = {}
    /\ \A p \in Pages : g.known[p] \subseteq Acts[p] /\ g.acts[p] \subseteq g.known[p]
    /\ g.late \subseteq g.known[parent] /\ parent \in g.enqueued
    /\ g.queued \subseteq g.enqueued /\ g.enqueued \cup g.expanded \subseteq g.tracked

(* Every page that was queued is in the queue, at work (one of ws), has actions    *)
(* left, or is finished and says so.                                            *)
Owed(g, ws) ==
    /\ g.scoped \subseteq OutOfScope /\ g.enqueued \cap OutOfScope = {}
    /\ \A p \in Pages, a \in Actions : g.status[p][a] # "FILTERED"
    /\ \A p \in g.enqueued \ (g.queued \cup g.expanded \cup g.surfaced \cup ws) :
          Terminal(g, p) => g.label[p] \in Settled

(* Nothing is left of the pages that were queued.                              *)
Swept(g) ==
    \A p \in g.enqueued \ (g.expanded \cup g.surfaced) :
        Terminal(g, p) /\ g.label[p] \in Settled

(* A frontier h that came from g has forgotten nothing.                         *)
Follows(g, h) ==
    /\ h.coverage = g.coverage /\ g.attempted \subseteq h.attempted
    /\ g.enqueued \subseteq h.enqueued /\ g.tracked \subseteq h.tracked
    /\ \A p \in Pages : g.known[p] \subseteq h.known[p]

-----------------------------------------------------------------------------
(* The inductive invariant.                                                  *)
AtWork == IF pc \in {"recover", "loop", "invoked", "restore"} THEN {parent} ELSE {}

Bookkeeping ==
    /\ ready \subseteq Pages /\ retry \subseteq Pages
    /\ pc \in {"top", "limit", "recover", "loop", "invoked", "restore", "verify",
               "end", "crashed"}
    /\ capture \in BOOLEAN /\ exhausted \in BOOLEAN /\ diverged \in BOOLEAN
    /\ device \in Pages \cup {"unknown", "between"} /\ at \in Pages \cup {"elsewhere"}
    /\ rebuilt \in [since : {"never", "same", "moved"}, failures : 0..1]
    /\ label \in {"none", "BUDGET_SKIPPED"}

Types == Shown(f) /\ parent \in Pages /\ todo \subseteq f.known[parent] /\ Bookkeeping

(* What the device was asked to do has been attempted.                         *)
CallsAttempted ==
    \A c \in called : c[1] \in Pages /\ <<LogicalKey(f, c[1]), c[2]>> \in f.attempted

(* The device is where it is said to be, if it is said to be on a page - but for   *)
(* the root, whose path is that of a device nobody knows the place of.           *)
Placed ==
    /\ pc = "invoked" => doing \in Actions /\ (at # "elsewhere" => at \in Leads[doing])
    /\ pc = "restore" => ~capture
    /\ pc = "loop" /\ capture /\ parent # Root => SamePage
    /\ pc = "top" /\ device \in Pages \ {Root} =>
           at # "elsewhere" /\ LogicalKey(f, at) = LogicalKey(f, device)

IInv ==
    /\ Types /\ CallsAttempted /\ Placed
    /\ ~Over => Owed(f, AtWork)
    /\ pc = "verify" /\ label = "none" => Swept(f)
    /\ FrontierSettles

-----------------------------------------------------------------------------
(* The operators on the frontier keep what is owed.                           *)

\* h has the fields of g but for those named in F.
Same(g, h, F) ==
    /\ h \in Frontiers
    /\ "tracked" \in F \/ h.tracked = g.tracked
    /\ "known" \in F \/ h.known = g.known
    /\ "status" \in F \/ h.status = g.status
    /\ "attempted" \in F \/ h.attempted = g.attempted
    /\ "queued" \in F \/ h.queued = g.queued
    /\ "enqueued" \in F \/ h.enqueued = g.enqueued
    /\ "expanded" \in F \/ h.expanded = g.expanded
    /\ "acts" \in F \/ h.acts = g.acts
    /\ "label" \in F \/ h.label = g.label
    /\ "covered" \in F \/ h.covered = g.covered
    /\ "surfaced" \in F \/ h.surfaced = g.surfaced
    /\ "scoped" \in F \/ h.scoped = g.scoped
    /\ "late" \in F \/ h.late = g.late
    /\ "coverage" \in F \/ h.coverage = g.coverage

\* What g kept, h keeps: nothing of what it knows is lost, and ws are at work.
Keeps(g, h, ws) == Shown(h) /\ Owed(h, ws) /\ Follows(g, h)

\* Statuses of a page at work may change as they like, but to FILTERED.
LEMMA SetStatusKeeps ==
    ASSUME NEW g, NEW ws, Shown(g), Owed(g, ws), NEW p \in Pages, NEW as \in SUBSET Actions,
           NEW s \in Statuses \ {"FILTERED"}
    PROVE  Keeps(g, SetStatus(g, p, as, s), ws \cup {p})
<1> DEFINE h == SetStatus(g, p, as, s)
           st == [g.status EXCEPT ![p] = [a \in Actions |-> IF a \in as THEN s ELSE g.status[p][a]]]
           co == [g.covered EXCEPT ![Surface[p]] = IF s \in Covering THEN g.covered[Surface[p]] \cup as
                                                   ELSE g.covered[Surface[p]]]
<1>1. h = [g EXCEPT !.status = st, !.covered = co]
  BY Zenon DEF SetStatus
<1>2. st \in [Pages -> [Actions -> Statuses]] /\ co \in [Surfaces -> SUBSET Actions]
  BY DEF Shown, Frontiers, Surfaces
<1>3. \A q \in Pages, a \in Actions : st[q][a] = IF q = p /\ a \in as THEN s ELSE g.status[q][a]
  BY DEF Shown, Frontiers
<1> HIDE DEF st, co, h
<1>4. Same(g, h, {"status", "covered"}) /\ h.status = st
  BY <1>1, <1>2 DEF Shown, Frontiers, Same
<1>5. \A q \in Pages \ {p} : Terminal(h, q) <=> Terminal(g, q)
  <2>1. h.known = g.known /\ \A q \in Pages : g.known[q] \subseteq Actions
    BY <1>4 DEF Same, Shown, Frontiers
  <2> QED  BY <1>3, <1>4, <2>1 DEF Terminal
<1>6. Shown(h) /\ Follows(g, h)
  BY <1>4 DEF Shown, Follows, Same
<1>7. Owed(h, ws \cup {p})
  <2>1. \A q \in Pages, a \in Actions : h.status[q][a] # "FILTERED"
    BY <1>3, <1>4 DEF Owed
  <2>2. g.enqueued \subseteq Pages
    BY DEF Shown, Frontiers
  <2> QED  BY <1>4, <1>5, <2>1, <2>2 DEF Owed, Same
<1> QED  BY <1>6, <1>7 DEF Keeps, h

\* What is attempted is remembered.
LEMMA AttemptKeeps ==
    ASSUME NEW g, NEW ws, Shown(g), Owed(g, ws), NEW p \in Pages, NEW as \in SUBSET Actions
    PROVE  /\ Keeps(g, Attempt(g, p, as), ws)
           /\ \A a \in as : <<LogicalKey(g, p), a>> \in Attempt(g, p, as).attempted
<1> DEFINE h == Attempt(g, p, as)
           tried == g.attempted \cup {<<LogicalKey(g, p), a>> : a \in as}
<1>1. h = [g EXCEPT !.attempted = tried]
  BY DEF Attempt
<1>2. tried \in SUBSET (Keys \X Actions) /\ g.attempted \subseteq tried
  <2>1. LogicalKey(g, p) \in Keys
    BY DEF LogicalKey, Keys
  <2>2. g.attempted \in SUBSET (Keys \X Actions)
    BY DEF Shown, Frontiers
  <2>3. \A a \in as : <<LogicalKey(g, p), a>> \in Keys \X Actions
    BY <2>1
  <2> QED  BY <2>2, <2>3
<1>3. \A a \in as : <<LogicalKey(g, p), a>> \in tried
  OBVIOUS
<1> HIDE DEF tried, h
<1>4. Same(g, h, {"attempted"}) /\ h.attempted = tried
  BY <1>1, <1>2 DEF Shown, Frontiers, Same
<1>5. \A q \in Pages : Terminal(h, q) <=> Terminal(g, q)
  BY <1>4 DEF Terminal, Same
<1>6. Shown(h) /\ Follows(g, h)
  BY <1>2, <1>4 DEF Shown, Follows, Same
<1>7. Owed(h, ws)
  BY <1>4, <1>5 DEF Owed, Same, Shown, Frontiers
<1> QED  BY <1>3, <1>4, <1>6, <1>7 DEF Keeps, h

\* The pages ps are finished, as far as their actions go.
LEMMA ClosedIs ==
    ASSUME NEW g, NEW ws, Shown(g), Owed(g, ws), NEW ps \in SUBSET Pages
    PROVE  /\ Same(g, Closed(g, ps), {"status"})
           /\ \A p \in ps : Terminal(Closed(g, ps), p)
           /\ \A p \in Pages \ ps : Terminal(Closed(g, ps), p) <=> Terminal(g, p)
           /\ \A p \in Pages, a \in Actions : Closed(g, ps).status[p][a] # "FILTERED"
<1> DEFINE h == Closed(g, ps)
           st == [p \in Pages |-> [a \in Actions |->
                     IF p \in ps /\ a \in g.known[p] /\ g.status[p][a] \in Open THEN "CLOSED"
                     ELSE g.status[p][a]]]
<1>1. h = [g EXCEPT !.status = st]
  BY DEF Closed
<1>2. st \in [Pages -> [Actions -> Statuses]]
  BY DEF Shown, Frontiers, Statuses
<1>3. \A p \in Pages, a \in Actions : st[p][a] =
          IF p \in ps /\ a \in g.known[p] /\ g.status[p][a] \in Open THEN "CLOSED"
          ELSE g.status[p][a]
  OBVIOUS
<1> HIDE DEF st, h
<1>4. Same(g, h, {"status"}) /\ h.status = st
  BY <1>1, <1>2 DEF Shown, Frontiers, Same
<1>5. h.known = g.known /\ \A q \in Pages : g.known[q] \subseteq Actions
  BY <1>4 DEF Same, Shown, Frontiers
<1>6. \A p \in ps : Terminal(h, p)
  BY <1>3, <1>4, <1>5 DEF Terminal, Open
<1>7. \A p \in Pages \ ps : Terminal(h, p) <=> Terminal(g, p)
  BY <1>3, <1>4, <1>5 DEF Terminal
<1>8. \A p \in Pages, a \in Actions : h.status[p][a] # "FILTERED"
  BY <1>3, <1>4 DEF Owed
<1> QED  BY <1>4, <1>6, <1>7, <1>8 DEF h

\* A page that is expanded is not at work any more.
LEMMA ExpandKeeps ==
    ASSUME NEW g, NEW ws, Shown(g), Owed(g, ws), NEW p \in g.tracked
    PROVE  Keeps(g, Expand(g, p), ws \ {p})
<1>1. p \in Pages /\ g.enqueued \subseteq Pages
  BY DEF Shown, Frontiers
<1>2. CASE ~(Terminal(g, p) /\ p \notin g.scoped)
  <2>1. p \in g.enqueued => ~Terminal(g, p)
    BY <1>2 DEF Owed
  <2>2. Owed(g, ws \ {p})
    BY <2>1 DEF Owed
  <2> QED  BY <1>2, <2>2 DEF Expand, Keeps, Follows
<1>3. CASE Terminal(g, p) /\ p \notin g.scoped
  <2> DEFINE la == [g.label EXCEPT ![p] = "EXPANDED"]
             h == [g EXCEPT !.expanded = g.expanded \cup {p}, !.label = la]
  <2>1. Expand(g, p) = h
    BY <1>3, Zenon DEF Expand
  <2>a. la \in [Pages -> Labels] /\ \A q \in Pages \ {p} : la[q] = g.label[q]
    BY DEF Shown, Frontiers, Labels, Settled
  <2> HIDE DEF la
  <2>2. /\ Same(g, h, {"expanded", "label"}) /\ h.expanded = g.expanded \cup {p} /\ h.label = la
    BY <1>1, <2>a DEF Shown, Frontiers, Same
  <2>3. \A q \in Pages \ {p} : h.label[q] = g.label[q]
    BY <2>a, <2>2
  <2> HIDE DEF h
  <2>4. \A q \in Pages : Terminal(h, q) <=> Terminal(g, q)
    BY <2>2 DEF Terminal, Same
  <2>5. Shown(h) /\ Follows(g, h)
    BY <2>2 DEF Shown, Follows, Same
  <2>6. Owed(h, ws \ {p})
    BY <1>1, <2>2, <2>3, <2>4 DEF Owed, Same
  <2> QED  BY <2>1, <2>5, <2>6 DEF Keeps
<1> QED  BY <1>2, <1>3

\* The same for a page that is closed.
LEMMA CloseKeeps ==
    ASSUME NEW g, NEW ws, Shown(g), Owed(g, ws), NEW p \in g.tracked, NEW l \in Settled
    PROVE  Keeps(g, Close(g, p, l), ws \ {p})
<1>1. p \in Pages /\ g.enqueued \subseteq Pages
  BY DEF Shown, Frontiers
<1>2. CASE p \in g.scoped \/ Terminal(g, p)
  BY <1>2, ExpandKeeps DEF Close
<1>3. CASE ~(p \in g.scoped \/ Terminal(g, p))
  <2> DEFINE c == Closed(g, {p})
             h == [c EXCEPT !.label = [c.label EXCEPT ![p] = l]]
  <2>1. Close(g, p, l) = h
    BY <1>3, Zenon DEF Close
  <2>2. /\ Same(g, c, {"status"}) /\ \A q \in Pages \ {p} : Terminal(c, q) <=> Terminal(g, q)
        /\ \A q \in Pages, a \in Actions : c.status[q][a] # "FILTERED"
    BY <1>1, ClosedIs
  <2> HIDE DEF c
  <2>3. Same(g, h, {"status", "label"}) /\ h.status = c.status /\ h.label = [g.label EXCEPT ![p] = l]
    BY <2>2 DEF Shown, Frontiers, Same, Labels
  <2>4. \A q \in Pages : h.label[q] = IF q = p THEN l ELSE g.label[q]
    BY <2>3 DEF Shown, Frontiers
  <2> HIDE DEF h
  <2>5. \A q \in Pages \ {p} : Terminal(h, q) <=> Terminal(g, q)
    BY <2>2, <2>3, ZenonT(30) DEF Terminal, Same
  <2>6. Shown(h) /\ Follows(g, h)
    BY <2>3 DEF Shown, Follows, Same
  <2>7. Owed(h, ws \ {p})
    BY <1>1, <2>2, <2>3, <2>4, <2>5 DEF Owed, Same
  <2> QED  BY <2>1, <2>6, <2>7 DEF Keeps
<1> QED  BY <1>2, <1>3

\* The same for a page whose surface is covered.
LEMMA CloseCoveredKeeps ==
    ASSUME NEW g, NEW ws, Shown(g), Owed(g, ws), NEW p \in g.tracked
    PROVE  Keeps(g, CloseCovered(g, p), ws \ {p})
<1> DEFINE c == Close(g, p, "COVERED_BY_SURFACE")
           h == CloseCovered(g, p)
<1>1. p \in Pages
  BY DEF Shown, Frontiers
<1>2. Keeps(g, c, ws \ {p})
  BY CloseKeeps DEF Settled
<1>3. h = [c EXCEPT !.surfaced = c.surfaced \cup {p}]
  BY DEF CloseCovered
<1> HIDE DEF c, h
<1>4. Same(c, h, {"surfaced"}) /\ h.surfaced = c.surfaced \cup {p}
  <2>1. c \in Frontiers
    BY <1>2 DEF Keeps, Shown
  <2>2. c.surfaced \cup {p} \in SUBSET Pages
    BY <1>1, <2>1 DEF Frontiers
  <2> QED  BY <1>3, <2>1, <2>2 DEF Frontiers, Same
<1>5. \A q \in Pages : Terminal(h, q) <=> Terminal(c, q)
  BY <1>4 DEF Terminal, Same
<1>6. c.enqueued \subseteq Pages
  BY <1>2 DEF Keeps, Shown, Frontiers
<1>7. Shown(h) /\ Follows(g, h)
  BY <1>2, <1>4 DEF Keeps, Shown, Follows, Same
<1>8. Owed(h, ws \ {p})
  BY <1>2, <1>4, <1>5, <1>6 DEF Keeps, Owed, Same
<1> QED  BY <1>7, <1>8 DEF Keeps, h

\* More may be at work than is needed.
LEMMA OwedMore ==
    ASSUME NEW g, NEW vs, NEW ws, Owed(g, vs), vs \subseteq ws
    PROVE  Owed(g, ws)
BY Zenon DEF Owed

\* A page that is queued is not forgotten, at work or not.
LEMMA OwedQueued ==
    ASSUME NEW g, NEW ws, Owed(g, ws), NEW p \in g.queued
    PROVE  Owed(g, ws \ {p})
BY DEF Owed

\* A page that is put into the queue is not at work any more, if it has actions left.
LEMMA EnqueueKeeps ==
    ASSUME NEW g, NEW ws, Shown(g), Owed(g, ws), NEW p \in g.tracked \ OutOfScope,
           NEW as \in SUBSET g.known[p], NEW whole \in BOOLEAN, NEW front \in BOOLEAN
    PROVE  /\ Keeps(g, Enqueue(g, p, as, whole, front), ws)
           /\ ~Terminal(g, p) => Keeps(g, Enqueue(g, p, as, whole, front), ws \ {p})
<1> DEFINE h == Enqueue(g, p, as, whole, front)
           ex == IF p \in g.queued THEN g.expanded ELSE g.expanded \ {p}
           ac == [g.acts EXCEPT ![p] = g.acts[p] \cup Pending(g, p, as)]
           la == [g.label EXCEPT ![p] = "QUEUED"]
           q == [g EXCEPT !.expanded = ex, !.queued = g.queued \cup {p}, !.acts = ac,
                          !.enqueued = g.enqueued \cup {p}, !.label = la]
<1>1. p \in Pages /\ g.enqueued \subseteq Pages
  BY DEF Shown, Frontiers
<1>2. h \in {g, CloseCovered(g, p), q}
  BY Zenon DEF Enqueue
<1>3. CASE h = g
  <2>1. ~Terminal(g, p) => Owed(g, ws \ {p})
    BY DEF Owed
  <2> QED  BY <1>3, <2>1 DEF Keeps, Follows
<1>4. CASE h = CloseCovered(g, p)
  <2>1. Keeps(g, h, ws \ {p})
    BY <1>4, CloseCoveredKeeps
  <2>2. Keeps(g, h, ws)
    BY <2>1, OwedMore DEF Keeps
  <2> QED  BY <2>1, <2>2
<1>5. CASE h = q
  <2>1. /\ ex \in SUBSET g.expanded /\ g.expanded \subseteq ex \cup {p}
        /\ (p \in ex => p \in g.queued)
    OBVIOUS
  <2>2. /\ ac \in [Pages -> SUBSET Actions]
        /\ \A r \in Pages : ac[r] \subseteq g.known[r]
    BY <1>1 DEF Shown, Frontiers, Pending
  <2>3. la \in [Pages -> Labels] /\ \A r \in Pages \ {p} : la[r] = g.label[r]
    BY DEF Shown, Frontiers, Labels, Working
  <2> HIDE DEF ex, ac, la
  <2>4. /\ Same(g, q, {"expanded", "queued", "acts", "enqueued", "label"})
        /\ q.expanded = ex /\ q.queued = g.queued \cup {p} /\ q.acts = ac
        /\ q.enqueued = g.enqueued \cup {p} /\ q.label = la
    <3>1. /\ g \in Frontiers /\ ex \in SUBSET Pages
          /\ g.queued \cup {p} \in SUBSET Pages /\ g.enqueued \cup {p} \in SUBSET Pages
      BY <1>1, <2>1 DEF Shown, Frontiers
    <3> QED  BY <2>2, <2>3, <3>1 DEF Frontiers, Same
  <2> HIDE DEF q, h
  <2>5. \A r \in Pages : Terminal(q, r) <=> Terminal(g, r)
    BY <2>4 DEF Terminal, Same
  <2>6. Shown(q) /\ Follows(g, q)
    BY <2>1, <2>2, <2>4 DEF Shown, Follows, Same
  <2>7. Owed(q, ws \ {p})
    BY <1>1, <2>1, <2>3, <2>4, <2>5 DEF Owed, Same
  <2>8. Owed(q, ws)
    BY <2>7, OwedMore
  <2> QED  BY <1>5, <2>6, <2>7, <2>8 DEF Keeps, h
<1> QED  BY <1>2, <1>3, <1>4, <1>5

\* A page that leaves the queue is at work, unless it was expanded before.
LEMMA DequeueKeeps ==
    ASSUME NEW g, Shown(g), Owed(g, {}), NEW p \in g.queued
    PROVE  /\ Keeps(g, Dequeue(g, p), {p})
           /\ p \in g.expanded => Keeps(g, Dequeue(g, p), {})
           /\ Dequeue(g, p).late = {}
<1> DEFINE ac == [g.acts EXCEPT ![p] = {}]
           h == Dequeue(g, p)
<1>1. p \in Pages /\ g.enqueued \subseteq Pages
  BY DEF Shown, Frontiers
<1>2. h = [g EXCEPT !.queued = g.queued \ {p}, !.acts = ac, !.late = {}]
  BY Zenon DEF Dequeue
<1>3. /\ ac \in [Pages -> SUBSET Actions]
      /\ \A r \in Pages : ac[r] \subseteq g.known[r]
  BY <1>1 DEF Shown, Frontiers
<1> HIDE DEF ac, h
<1>4. Same(g, h, {"queued", "acts", "late"}) /\ h.queued = g.queued \ {p} /\ h.acts = ac /\ h.late = {}
  BY <1>2, <1>3 DEF Shown, Frontiers, Same
<1>5. \A r \in Pages : Terminal(h, r) <=> Terminal(g, r)
  BY <1>4 DEF Terminal, Same
<1>6. Shown(h) /\ Follows(g, h)
  BY <1>3, <1>4 DEF Shown, Follows, Same
<1>7. Owed(h, {p}) /\ (p \in g.expanded => Owed(h, {}))
  BY <1>1, <1>4, <1>5 DEF Owed, Same
<1> QED  BY <1>4, <1>6, <1>7 DEF Keeps, h

\* A page that is seen may show more, but is not forgotten.
LEMMA TrackKeeps ==
    ASSUME NEW g, NEW ws, Shown(g), Owed(g, ws), NEW p \in Pages,
           NEW grow \in BOOLEAN, NEW listed \in BOOLEAN
    PROVE  Keeps(g, Track(g, p, grow, listed), ws) /\ p \in Track(g, p, grow, listed).tracked
<1> DEFINE h == Track(g, p, grow, listed)
           more == IF grow /\ listed /\ p \in g.tracked THEN Acts[p] \ g.known[p] ELSE {}
           k == IF grow THEN Acts[p] ELSE IF p \in g.tracked THEN g.known[p]
                                          ELSE Acts[p] \ Hidden[p]
           b == IF p \in g.queued THEN g.acts[p] \cup more ELSE g.acts[p]
           la == IF p = parent THEN g.late \cup more ELSE g.late
           kn == [g.known EXCEPT ![p] = k]
           ac == [g.acts EXCEPT ![p] = b]
<1>1. h = [g EXCEPT !.tracked = g.tracked \cup {p}, !.known = kn, !.acts = ac, !.late = la]
  BY Zenon DEF Track
<1>2. /\ k \in SUBSET Actions /\ k \subseteq Acts[p] /\ more \subseteq k /\ g.known[p] \subseteq k
      /\ b \subseteq k
  <2>1. Acts[p] \in SUBSET Actions /\ g.known[p] \subseteq Acts[p] /\ g.acts[p] \subseteq g.known[p]
    BY DEF Actions, Shown
  <2>2. p \notin g.tracked => g.known[p] = {}
    BY DEF Shown
  <2> QED  BY <2>1, <2>2
<1>3. /\ \A r \in Pages : kn[r] = IF r = p THEN k ELSE g.known[r]
      /\ \A r \in Pages : ac[r] = IF r = p THEN b ELSE g.acts[r]
      /\ g.late \subseteq la /\ la \subseteq g.late \cup more /\ (p # parent => la = g.late)
  BY DEF Shown, Frontiers
<1> HIDE DEF k, b, more, la
<1>4. kn \in [Pages -> SUBSET Actions] /\ ac \in [Pages -> SUBSET Actions] /\ la \in SUBSET Actions
  <2>1. b \in SUBSET Actions /\ more \in SUBSET Actions /\ g.late \in SUBSET Actions
    BY <1>2 DEF Shown, Frontiers
  <2> QED  BY <1>2, <1>3, <2>1 DEF Shown, Frontiers
<1> HIDE DEF kn, ac, h
<1>5. /\ Same(g, h, {"tracked", "known", "acts", "late"}) /\ h.tracked = g.tracked \cup {p}
      /\ h.known = kn /\ h.acts = ac /\ h.late = la
  BY <1>1, <1>4 DEF Shown, Frontiers, Same
<1>6. \A r \in Pages : Terminal(h, r) => Terminal(g, r)
  BY <1>2, <1>3, <1>5 DEF Terminal, Same
<1>7. h.late \subseteq h.known[parent]
  <2>1. CASE p = parent
    BY <1>2, <1>3, <1>5, <2>1 DEF Shown, Same
  <2>2. CASE p # parent /\ parent \in Pages
    BY <1>3, <1>5, <2>2 DEF Shown, Same
  <2>3. parent \in Pages
    BY DEF Shown, Frontiers
  <2> QED  BY <2>1, <2>2, <2>3
<1>8. Shown(h) /\ Follows(g, h)
  BY <1>2, <1>3, <1>5, <1>7 DEF Shown, Follows, Same
<1>9. Owed(h, ws)
  <2>1. g.enqueued \subseteq Pages
    BY DEF Shown, Frontiers
  <2> QED  BY <1>5, <1>6, <2>1 DEF Owed, Same
<1> QED  BY <1>5, <1>8, <1>9 DEF Keeps, h

\* What is kept twice is kept.
LEMMA KeepsOn ==
    ASSUME NEW g, NEW h, NEW i, NEW vs, NEW ws, Keeps(g, h, vs), Keeps(h, i, ws)
    PROVE  Keeps(g, i, ws)
<1>1. \A p \in Pages : g.known[p] \subseteq i.known[p]
  BY Zenon DEF Keeps, Follows
<1> QED  BY <1>1, Zenon DEF Keeps, Follows

\* More may be at work than is needed.
LEMMA KeepsMore ==
    ASSUME NEW g, NEW h, NEW vs, NEW ws, Keeps(g, h, vs), vs \subseteq ws
    PROVE  Keeps(g, h, ws)
BY OwedMore, Zenon DEF Keeps

\* The label of a page at work is nobody's business.
LEMMA RelabelKeeps ==
    ASSUME NEW g, NEW ws, Shown(g), Owed(g, ws), NEW p \in ws, NEW l \in Labels
    PROVE  Keeps(g, [g EXCEPT !.label[p] = l], ws)
<1> DEFINE la == [g.label EXCEPT ![p] = l]
           h == [g EXCEPT !.label = la]
<1>1. [g EXCEPT !.label[p] = l] = h
  BY Zenon
<1>2. la \in [Pages -> Labels] /\ \A q \in Pages \ {p} : la[q] = g.label[q]
  BY DEF Shown, Frontiers
<1> HIDE DEF la
<1>3. Same(g, h, {"label"}) /\ h.label = la
  BY <1>2 DEF Shown, Frontiers, Same
<1> HIDE DEF h
<1>4. \A q \in Pages : Terminal(h, q) <=> Terminal(g, q)
  BY <1>3 DEF Terminal, Same
<1>5. Shown(h) /\ Follows(g, h)
  BY <1>3 DEF Shown, Follows, Same
<1>6. Owed(h, ws)
  <2>1. g.enqueued \subseteq Pages
    BY DEF Shown, Frontiers
  <2> QED  BY <1>2, <1>3, <1>4, <2>1 DEF Owed, Same
<1> QED  BY <1>1, <1>5, <1>6 DEF Keeps

\* Nor is a page out of scope, once it is noted.
LEMMA ScopeKeeps ==
    ASSUME NEW g, NEW ws, Shown(g), Owed(g, ws), NEW p \in Pages \cap OutOfScope
    PROVE  Keeps(g, [g EXCEPT !.scoped = @ \cup {p}], ws)
<1> DEFINE h == [g EXCEPT !.scoped = @ \cup {p}]
<1>1. Same(g, h, {"scoped"}) /\ h.scoped = g.scoped \cup {p}
  BY DEF Shown, Frontiers, Same
<1> HIDE DEF h
<1>2. \A q \in Pages : Terminal(h, q) <=> Terminal(g, q)
  BY <1>1 DEF Terminal, Same
<1>3. Shown(h) /\ Follows(g, h)
  BY <1>1 DEF Shown, Follows, Same
<1>4. Owed(h, ws)
  <2>1. g.enqueued \subseteq Pages
    BY DEF Shown, Frontiers
  <2> QED  BY <1>1, <1>2, <2>1 DEF Owed, Same
<1> QED  BY <1>3, <1>4 DEF Keeps, h

\* What is known of other pages is used for a page that was captured.
LEMMA ReuseKeeps ==
    ASSUME NEW g, NEW ws, Shown(g), Owed(g, ws), NEW p \in g.tracked,
           NEW as \in SUBSET Actions, NEW s \in {"REUSED", "CLOSED"}
    PROVE  Keeps(g, Reuse(g, p, as, s), ws)
<1>1. CASE as = {}
  BY <1>1 DEF Reuse, Keeps, Follows
<1>2. CASE as # {}
  <2> DEFINE h == Attempt(g, p, as)
             i == SetStatus(h, p, as, s)
  <2>1. p \in Pages
    BY DEF Shown, Frontiers
  <2>2. Keeps(g, h, ws)
    BY <2>1, AttemptKeeps
  <2>3. Shown(h) /\ Owed(h, ws)
    BY <2>2 DEF Keeps
  <2> HIDE DEF h
  <2>4. s \in Statuses \ {"FILTERED"}
    BY DEF Statuses, Covering
  <2>5. Keeps(h, i, ws \cup {p})
    BY <2>1, <2>3, <2>4, SetStatusKeeps
  <2>6. Shown(i) /\ Owed(i, ws \cup {p}) /\ p \in i.tracked
    BY <2>2, <2>5 DEF Keeps, Follows
  <2> HIDE DEF i
  <2>7. Keeps(i, Expand(i, p), (ws \cup {p}) \ {p})
    BY <2>6, ExpandKeeps
  <2>8. Keeps(g, Expand(i, p), (ws \cup {p}) \ {p})
    BY <2>2, <2>5, <2>7, KeepsOn
  <2>9. Reuse(g, p, as, s) = Expand(i, p)
    BY <1>2 DEF Reuse, i, h
  <2> QED  BY <2>8, <2>9, KeepsMore
<1> QED  BY <1>1, <1>2

\* The parent's turn ends: what is left of it is queued.
LEMMA WrapKeeps ==
    ASSUME NEW g, Shown(g), Owed(g, {parent}), NEW as \in SUBSET g.known[parent]
    PROVE  Keeps(g, IF Terminal(g, parent) THEN Expand(g, parent)
                    ELSE Enqueue(g, parent, as, FALSE, FALSE), {})
<1>1. parent \in g.tracked \ OutOfScope
  BY DEF Shown, Owed
<1>2. {parent} \ {parent} = {}
  OBVIOUS
<1>3. CASE Terminal(g, parent)
  BY <1>1, <1>2, <1>3, ExpandKeeps
<1>4. CASE ~Terminal(g, parent)
  <2>1. Keeps(g, Enqueue(g, parent, as, FALSE, FALSE), {parent} \ {parent})
    BY <1>1, <1>4, EnqueueKeeps
  <2> QED  BY <1>2, <1>4, <2>1
<1> QED  BY <1>3, <1>4

-----------------------------------------------------------------------------
(* The ends of a branch.                                                      *)

\* The sweep leaves nothing over, whatever was at work.
LEMMA SweepKeeps ==
    ASSUME NEW g, NEW ws, Shown(g), Owed(g, ws)
    PROVE  Keeps(g, Sweep(g), {}) /\ Swept(Sweep(g))
<1> DEFINE due == g.tracked \ g.surfaced
           ended == {p \in due \ g.scoped : Terminal(g, p)}
           closed == {p \in due \ g.scoped : ~Terminal(g, p)}
           over == {p \in due : ~Terminal(g, p) /\ SurfaceCovered(g, p, Pending(g, p, g.known[p]))}
           c == Closed(g, closed)
           la == [p \in Pages |-> IF p \in ended THEN "EXPANDED"
                                  ELSE IF p \in closed \cap over THEN "COVERED_BY_SURFACE"
                                  ELSE IF p \in closed THEN "BUDGET_SKIPPED" ELSE g.label[p]]
           h == [c EXCEPT !.expanded = c.expanded \cup ended, !.surfaced = c.surfaced \cup over,
                          !.label = la]
<1>1. closed \in SUBSET Pages /\ ended \in SUBSET g.tracked /\ over \in SUBSET Pages
      /\ g.tracked \subseteq Pages
  BY DEF Shown, Frontiers
<1>2. \A p \in g.enqueued \ (ended \cup g.surfaced) : p \in closed
  <2>1. \A p \in g.enqueued : p \in g.tracked /\ p \notin g.scoped
    BY DEF Shown, Owed
  <2> QED  BY <2>1
<1>3. /\ Same(g, c, {"status"}) /\ \A p \in closed : Terminal(c, p)
      /\ \A q \in Pages, a \in Actions : c.status[q][a] # "FILTERED"
  BY <1>1, ClosedIs
<1>4. Sweep(g) = h
  <2>1. c.label = g.label /\ c.expanded = g.expanded /\ c.surfaced = g.surfaced
    BY <1>3 DEF Same
  <2> HIDE DEF c, due
  <2>2. Sweep(g) = [c EXCEPT !.expanded = @ \cup ended, !.surfaced = @ \cup over,
            !.label = [p \in Pages |-> IF p \in ended THEN "EXPANDED"
                                      ELSE IF p \in closed \cap over THEN "COVERED_BY_SURFACE"
                                      ELSE IF p \in closed THEN "BUDGET_SKIPPED" ELSE @[p]]]
    BY Zenon DEF Sweep, c, due
  <2> HIDE DEF ended, closed, over
  <2> QED  BY <2>1, <2>2
<1>5. /\ la \in [Pages -> Labels] /\ \A p \in closed : la[p] \in Settled
      /\ \A p \in ended : p \in Pages
  <2> HIDE DEF over, ended
  <2>1. \A p \in Pages : la[p] \in Labels
    BY DEF Labels, Settled, Shown, Frontiers
  <2>2. \A p \in closed : la[p] \in {"EXPANDED", "COVERED_BY_SURFACE", "BUDGET_SKIPPED"}
    BY <1>1
  <2> QED  BY <1>1, <2>1, <2>2 DEF Settled
<1> HIDE DEF c, la, closed, ended, over, due
<1>6. /\ Same(c, h, {"expanded", "surfaced", "label"}) /\ h.label = la
      /\ h.expanded = g.expanded \cup ended /\ h.surfaced = g.surfaced \cup over
  BY <1>1, <1>3, <1>5 DEF Same, Frontiers
<1> HIDE DEF h
<1>7. \A p \in closed : Terminal(h, p)
  BY <1>3, <1>6 DEF Terminal, Same
<1>8. Shown(h) /\ Follows(g, h)
  <2>1. Same(g, h, {"status", "expanded", "surfaced", "label"})
    BY <1>3, <1>6 DEF Same
  <2>2. h.expanded \subseteq g.tracked
    BY <1>1, <1>6 DEF Shown
  <2> QED  BY <2>1, <2>2 DEF Shown, Follows, Same
<1>9. Swept(h)
  <2>1. h.enqueued = g.enqueued
    BY <1>3, <1>6 DEF Same
  <2> QED  BY <1>2, <1>5, <1>6, <1>7, <2>1 DEF Swept
<1>10. Owed(h, {})
  <2>1. h.enqueued = g.enqueued /\ h.scoped = g.scoped /\ h.status = c.status
    BY <1>3, <1>6 DEF Same
  <2>2. \A p \in h.enqueued \ (h.queued \cup h.expanded \cup h.surfaced \cup {}) :
            h.label[p] \in Settled
    BY <1>9 DEF Swept
  <2> QED  BY <1>3, <2>1, <2>2 DEF Owed
<1> QED  BY <1>4, <1>8, <1>9, <1>10 DEF Keeps

\* Nothing open is left by the finally block, and what it finds settled it leaves.
LEMMA FinalizedKeeps ==
    ASSUME NEW g, NEW ws, Shown(g), Owed(g, ws), NEW s \in {"FILTERED", "CLOSED"},
           NEW l \in Settled \cup {"none"}
    PROVE  LET h == Finalized(g, s, l) IN
           /\ Shown(h) /\ Follows(g, h)
           /\ h.known = g.known
           /\ h.enqueued = g.enqueued /\ h.expanded = g.expanded /\ h.surfaced = g.surfaced
           /\ \A p \in Pages, a \in Actions :
                 /\ s = "CLOSED" => h.status[p][a] # "FILTERED"
                 /\ a \in h.known[p] /\ s = "CLOSED" => h.status[p][a] \notin Open
                 /\ a \in g.known[p] /\ g.status[p][a] \notin Open => h.status[p][a] = g.status[p][a]
           /\ l = "none" => h.label = g.label
           /\ l # "none" => \A p \in g.tracked \ g.expanded : h.label[p] = l
<1> DEFINE h == Finalized(g, s, l)
           st == [p \in Pages |-> [a \in Actions |->
                     IF a \notin g.known[p] \/ g.status[p][a] \notin Open THEN g.status[p][a]
                     ELSE IF g.status[p][a] = "INVOKED" THEN "CLOSED" ELSE s]]
           la == [p \in Pages |->
                     IF l = "none" \/ p \notin g.tracked \/ p \in g.expanded THEN g.label[p] ELSE l]
<1>1. h = [g EXCEPT !.status = st, !.label = la]
  BY Zenon DEF Finalized
<1>2. st \in [Pages -> [Actions -> Statuses]]
  BY DEF Shown, Frontiers, Statuses
<1>3. la \in [Pages -> Labels]
  BY DEF Shown, Frontiers, Labels
<1>4. \A p \in Pages, a \in Actions : st[p][a] =
          IF a \notin g.known[p] \/ g.status[p][a] \notin Open THEN g.status[p][a]
          ELSE IF g.status[p][a] = "INVOKED" THEN "CLOSED" ELSE s
  OBVIOUS
<1>5. /\ l = "none" => la = g.label
      /\ l # "none" => \A p \in g.tracked \ g.expanded : la[p] = l
  BY DEF Shown, Frontiers
<1> HIDE DEF st, la, h
<1>6. Same(g, h, {"status", "label"}) /\ h.status = st /\ h.label = la
  BY <1>1, <1>2, <1>3 DEF Shown, Frontiers, Same
<1>7. Shown(h) /\ Follows(g, h)
  BY <1>6 DEF Shown, Follows, Same
<1>8. \A p \in Pages, a \in Actions :
                 /\ s = "CLOSED" => h.status[p][a] # "FILTERED"
                 /\ a \in h.known[p] /\ s = "CLOSED" => h.status[p][a] \notin Open
                 /\ a \in g.known[p] /\ g.status[p][a] \notin Open => h.status[p][a] = g.status[p][a]
  <2>1. h.known = g.known
    BY <1>6 DEF Same
  <2>2. "CLOSED" \notin Open
    BY DEF Open
  <2> QED  BY <1>4, <1>6, <2>1, <2>2 DEF Owed
<1>9. h.known = g.known /\ h.enqueued = g.enqueued /\ h.expanded = g.expanded /\ h.surfaced = g.surfaced
  BY <1>6 DEF Same
<1> QED  BY <1>5, <1>6, <1>7, <1>8, <1>9 DEF h

\* Pages that fell out of the queue are queued, or closed as covered.
LEMMA RequeuedKeeps ==
    ASSUME NEW g, Shown(g), Owed(g, {}), g.queued = {}
    PROVE  Keeps(g, Requeued(g), {})
<1> DEFINE due == {p \in Unresolved(g) \ g.scoped : Pending(g, p, g.known[p]) # {}}
           over == {p \in due \ {Root} : SurfaceCovered(g, p, Pending(g, p, g.known[p]))}
           back == due \ over
           c == Closed(g, over)
           ac == [p \in Pages |-> g.acts[p] \cup IF p \in back THEN Pending(g, p, g.known[p]) ELSE {}]
           la == [p \in Pages |-> IF p \in over THEN "COVERED_BY_SURFACE"
                                  ELSE IF p \in back THEN "QUEUED" ELSE g.label[p]]
           h == [c EXCEPT !.surfaced = c.surfaced \cup over, !.queued = c.queued \cup back,
                          !.enqueued = c.enqueued \cup back, !.acts = ac, !.label = la]
<1>1. over \in SUBSET Pages /\ back \in SUBSET g.enqueued /\ g.enqueued \in SUBSET g.tracked
      /\ g.tracked \subseteq Pages
  <2>1. Unresolved(g) \subseteq g.enqueued
    BY DEF Unresolved
  <2> QED  BY <2>1 DEF Shown, Frontiers
<1>2. /\ Same(g, c, {"status"}) /\ \A p \in over : Terminal(c, p)
      /\ \A p \in Pages \ over : Terminal(c, p) <=> Terminal(g, p)
      /\ \A q \in Pages, a \in Actions : c.status[q][a] # "FILTERED"
  <2> HIDE DEF over
  <2> QED  BY <1>1, ClosedIs
<1>3. Requeued(g) = h
  <2>1. /\ c.label = g.label /\ c.acts = g.acts
    BY <1>2 DEF Same
  <2>2. Requeued(g) = [c EXCEPT
            !.surfaced = @ \cup over, !.queued = @ \cup back, !.enqueued = @ \cup back,
            !.acts = [p \in Pages |->
                @[p] \cup IF p \in back THEN Pending(g, p, g.known[p]) ELSE {}],
            !.label = [p \in Pages |-> IF p \in over THEN "COVERED_BY_SURFACE"
                                      ELSE IF p \in back THEN "QUEUED" ELSE @[p]]]
    BY Zenon DEF Requeued
  <2> HIDE DEF c, back, over
  <2> QED  BY <2>1, <2>2
<1>4. ac \in [Pages -> SUBSET Actions] /\ \A p \in Pages : ac[p] \subseteq g.known[p]
  <2> HIDE DEF back, over
  <2> QED  BY DEF Shown, Frontiers, Pending
<1>5. /\ la \in [Pages -> Labels] /\ \A p \in Pages \ (over \cup back) : la[p] = g.label[p]
  <2> HIDE DEF back, over
  <2> QED  BY DEF Labels, Settled, Working, Shown, Frontiers
<1> HIDE DEF due, over, back, c, ac, la
<1>b. c.queued \cup back \in SUBSET Pages /\ c.enqueued \cup back \in SUBSET Pages
  BY <1>1, <1>2 DEF Same, Frontiers
<1>6. /\ Same(c, h, {"surfaced", "queued", "enqueued", "acts", "label"}) /\ h.label = la
      /\ h.acts = ac /\ h.queued = c.queued \cup back /\ h.enqueued = c.enqueued \cup back
      /\ h.surfaced = c.surfaced \cup over
  BY <1>1, <1>2, <1>4, <1>5, <1>b DEF Same, Frontiers
<1> HIDE DEF h
<1>7. /\ Same(g, h, {"status", "surfaced", "queued", "enqueued", "acts", "label"})
      /\ h.enqueued = g.enqueued /\ h.queued = back /\ h.status = c.status
      /\ h.surfaced = g.surfaced \cup over
  BY <1>1, <1>2, <1>6 DEF Same
<1>8. \A p \in Pages \ over : Terminal(h, p) <=> Terminal(g, p)
  BY <1>2, <1>6 DEF Terminal, Same
<1>9. Shown(h) /\ Follows(g, h)
  BY <1>1, <1>4, <1>6, <1>7 DEF Shown, Follows, Same
<1>10. Owed(h, {})
  <2>1. \A p \in h.enqueued \ (h.queued \cup h.expanded \cup h.surfaced \cup {}) :
            p \in Pages \ (over \cup back) /\ p \in g.enqueued \ (g.queued \cup g.expanded \cup g.surfaced \cup {})
    BY <1>1, <1>7 DEF Same
  <2>2. \A p \in h.enqueued \ (h.queued \cup h.expanded \cup h.surfaced \cup {}) :
            Terminal(h, p) => h.label[p] \in Settled
    BY <1>5, <1>6, <1>8, <2>1 DEF Owed
  <2> QED  BY <1>2, <1>7, <2>2 DEF Owed, Same
<1> QED  BY <1>3, <1>9, <1>10 DEF Keeps

-----------------------------------------------------------------------------
(* Each action keeps the invariant.                                           *)

\* What was called stays attempted.
LEMMA CallsKept ==
    ASSUME CallsAttempted, Follows(f, f'), called' = called
    PROVE  CallsAttempted'
BY DEF CallsAttempted, Follows, LogicalKey

\* A call is attempted before it is made.
LEMMA CallAttempted ==
    ASSUME CallsAttempted, parent \in Pages, NEW a, Follows(f, f'),
           <<LogicalKey(f, parent), a>> \in f'.attempted,
           called' = called \cup {<<parent, a>>}
    PROVE  CallsAttempted'
<1>1. LogicalKey(f, parent) = LogicalKey(f', parent)
  BY DEF LogicalKey, Follows
<1>2. <<LogicalKey(f', parent), a>> \in f'.attempted
  BY <1>1
<1>3. ASSUME NEW c \in called
      PROVE  c[1] \in Pages /\ <<LogicalKey(f', c[1]), c[2]>> \in f'.attempted
  BY DEF CallsAttempted, Follows, LogicalKey
<1> QED  BY <1>2, <1>3 DEF CallsAttempted, LogicalKey

\* What an action shows of itself, when it neither ends the branch nor changes the page.
LEMMA GoesOn ==
    ASSUME IInv, Keeps(f, f', AtWork'), parent' = parent, todo' \subseteq todo,
           pc' \notin {"verify", "end"}, Bookkeeping', CallsAttempted', Placed'
    PROVE  IInv'
<1>1. Types'
  <2>1. Shown(f)'
    BY DEF Keeps, Shown
  <2>2. parent' \in Pages /\ todo' \subseteq f'.known[parent']
    BY DEF Keeps, Follows, IInv, Types
  <2> QED  BY <2>1, <2>2 DEF Types
<1>2. Owed(f, AtWork)'
  BY DEF Keeps, Owed
<1> QED  BY <1>1, <1>2 DEF IInv, FrontierSettles

\* The facts that the actions start from.
LEMMA AtStart ==
    ASSUME IInv, ~Over
    PROVE  /\ Shown(f) /\ Owed(f, AtWork) /\ Follows(f, f)
           /\ parent \in Pages /\ parent \in f.tracked /\ parent \notin OutOfScope
           /\ Left(f) \subseteq f.known[parent] /\ todo \subseteq f.known[parent]
           /\ f.known[parent] \subseteq Actions
           /\ Bookkeeping /\ CallsAttempted /\ Placed
<1>1. /\ Shown(f) /\ Owed(f, AtWork) /\ todo \subseteq f.known[parent] /\ parent \in Pages
      /\ Bookkeeping /\ CallsAttempted /\ Placed
  BY DEF IInv, Types
<1>2. f.known[parent] \subseteq Actions /\ Follows(f, f)
  BY <1>1 DEF Shown, Frontiers, Follows
<1>3. parent \in f.tracked /\ parent \notin OutOfScope /\ Left(f) \subseteq f.known[parent]
  BY <1>1 DEF Shown, Owed, Left
<1> QED  BY <1>1, <1>2, <1>3

\* Progress is a way to note progress.
LEMMA ProgressIs ==
    ASSUME Bookkeeping
    PROVE  Progress \in [since : {"never", "same", "moved"}, failures : 0..1]
BY DEF Bookkeeping, Progress

\* An action of the parent is done with: status s, after it was attempted if tried.
LEMMA DoneWith ==
    ASSUME IInv, ~Over, NEW as \in SUBSET Actions, NEW s \in Statuses \ {"FILTERED"}
    PROVE  /\ Keeps(f, SetStatus(f, parent, as, s), AtWork \cup {parent})
           /\ LET h == SetStatus(Attempt(f, parent, as), parent, as, s) IN
              /\ Keeps(f, h, AtWork \cup {parent})
              /\ \A a \in as : <<LogicalKey(f, parent), a>> \in h.attempted
<1>1. Shown(f) /\ Owed(f, AtWork) /\ parent \in Pages
  BY AtStart
<1> DEFINE g == Attempt(f, parent, as)
           h == SetStatus(g, parent, as, s)
<1>2. Keeps(f, g, AtWork) /\ \A a \in as : <<LogicalKey(f, parent), a>> \in g.attempted
  BY <1>1, AttemptKeeps
<1>3. Shown(g) /\ Owed(g, AtWork)
  BY <1>2 DEF Keeps
<1> HIDE DEF g
<1>4. Keeps(g, h, AtWork \cup {parent})
  BY <1>1, <1>3, SetStatusKeeps
<1> HIDE DEF h
<1>5. Keeps(f, h, AtWork \cup {parent})
  BY <1>2, <1>4, KeepsOn
<1>6. \A a \in as : <<LogicalKey(f, parent), a>> \in h.attempted
  BY <1>2, <1>4 DEF Keeps, Follows
<1>7. Keeps(f, SetStatus(f, parent, as, s), AtWork \cup {parent})
  BY <1>1, SetStatusKeeps
<1> QED  BY <1>5, <1>6, <1>7 DEF h, g

\* An action of the parent is not performed.
LEMMA SkipStep ==
    ASSUME IInv, NEW a \in Actions, SkipAgain(a) \/ Skip(a) \/ NotLocated(a)
    PROVE  IInv'
<1>1. pc = "loop" /\ pc' = "loop" /\ parent' = parent /\ AtWork = {parent} /\ AtWork' = {parent}
  BY DEF SkipAgain, Skip, NotLocated, Fresh, AtWork
<1>2. ~Over
  BY <1>1 DEF Over
<1>3. Keeps(f, f', AtWork')
  <2>1. \A s \in {"CLOSED", "REUSED"} : s \in Statuses \ {"FILTERED"}
    BY DEF Statuses, Covering
  <2>2. {a} \in SUBSET Actions /\ AtWork \cup {parent} = {parent}
    BY <1>1
  <2>3. \E s \in {"CLOSED", "REUSED"} :
            \/ f' = SetStatus(f, parent, {a}, s)
            \/ f' = SetStatus(Attempt(f, parent, {a}), parent, {a}, s)
    BY DEF SkipAgain, Skip, NotLocated
  <2> QED  BY <1>1, <1>2, <2>1, <2>2, <2>3, DoneWith
<1>4. Bookkeeping'
  BY <1>2, AtStart, ProgressIs, ZenonT(30) DEF SkipAgain, Skip, NotLocated, Bookkeeping, SamePage
<1>5. CallsAttempted'
  <2>1. called' = called
    BY DEF SkipAgain, Skip, NotLocated
  <2> QED  BY <1>2, <1>3, <2>1, AtStart, CallsKept DEF Keeps
<1>6. Placed'
  <2>1. SamePage' = SamePage
    BY <1>1, <1>3 DEF Keeps, Follows, SamePage, LogicalKey, SkipAgain, Skip, NotLocated
  <2>2. capture' => capture \/ SamePage'
    BY <2>1 DEF SkipAgain, Skip, NotLocated, Fresh
  <2> QED  BY <1>1, <1>2, <2>1, <2>2, AtStart DEF Placed, SkipAgain, Skip, NotLocated
<1>7. todo' \subseteq todo
  BY DEF SkipAgain, Skip, NotLocated
<1> QED  BY <1>1, <1>3, <1>4, <1>5, <1>6, <1>7, GoesOn

\* An action of the parent is performed.
LEMMA CallStep ==
    ASSUME IInv, NEW a \in Actions, CallFails(a) \/ Invoke(a)
    PROVE  IInv'
<1>1. /\ pc = "loop" /\ pc' \in {"loop", "invoked"} /\ parent' = parent
      /\ AtWork = {parent} /\ AtWork' = {parent}
  BY DEF CallFails, Invoke, Fresh, AtWork
<1>2. ~Over
  BY <1>1 DEF Over
<1>3. PICK s \in {"CLOSED", "INVOKED"} : f' = SetStatus(Attempt(f, parent, {a}), parent, {a}, s)
  BY DEF CallFails, Invoke
<1>4. Keeps(f, f', AtWork') /\ <<LogicalKey(f, parent), a>> \in f'.attempted
  <2>1. s \in Statuses \ {"FILTERED"} /\ {a} \in SUBSET Actions /\ AtWork \cup {parent} = {parent}
    BY <1>1 DEF Statuses, Open
  <2> QED  BY <1>1, <1>2, <1>3, <2>1, DoneWith
<1>5. Bookkeeping'
  <2>1. Leads[a] \subseteq Pages
    BY ExplorationAssumption
  <2> QED  BY <1>2, <2>1, AtStart, ProgressIs DEF CallFails, Invoke, Bookkeeping
<1>6. CallsAttempted'
  <2>1. called' = called \cup {<<parent, a>>}
    BY DEF CallFails, Invoke
  <2> QED  BY <1>2, <1>4, <2>1, AtStart, CallAttempted DEF Keeps
<1>7. Placed'
  BY <1>1 DEF Placed, CallFails, Invoke
<1>8. todo' \subseteq todo
  BY DEF CallFails, Invoke
<1> QED  BY <1>1, <1>4, <1>5, <1>6, <1>7, <1>8, GoesOn

\* The device is brought to the parent, or is lost.
LEMMA BackStep ==
    ASSUME IInv, ParentFound \/ Restored \/ NotRestored
    PROVE  IInv'
<1>1. /\ pc \in {"recover", "loop", "restore"} /\ pc' = "loop" /\ parent' = parent
      /\ AtWork = {parent} /\ AtWork' = {parent} /\ f' = f /\ called' = called /\ todo' = todo
  BY DEF ParentFound, Restored, NotRestored, AtWork
<1>2. ~Over
  BY <1>1 DEF Over
<1>3. Keeps(f, f', AtWork')
  BY <1>1, <1>2, AtStart DEF Keeps
<1>4. Bookkeeping'
  BY <1>2, AtStart DEF ParentFound, Restored, NotRestored, Bookkeeping
<1>5. CallsAttempted'
  BY <1>1, <1>2, AtStart, CallsKept
<1>6. Placed'
  <2>1. parent \in Pages /\ Placed
    BY <1>2, AtStart
  <2>2. parent # "elsewhere"
    BY <2>1, ExplorationAssumption
  <2>3. CASE ParentFound \/ Restored
    BY <1>1, <2>2, <2>3 DEF Placed, SamePage, ParentFound, Restored
  <2>4. CASE NotRestored
    BY <1>1, <2>1, <2>4 DEF Placed, NotRestored
  <2> QED  BY <2>3, <2>4
<1> QED  BY <1>1, <1>3, <1>4, <1>5, <1>6, GoesOn

\* The page that an action led to is not recorded, or recorded and routed.
LEMMA InvokedStep ==
    ASSUME IInv, pc = "invoked", Keeps(f, f', {parent}),
           pc' \in {"loop", "restore"}, pc' = "restore" => ~capture',
           capture' \in BOOLEAN, capture' => SamePage,
           ready' \subseteq Pages,
           UNCHANGED <<parent, todo, exhausted, diverged, device, at, retry, rebuilt, label, called>>
    PROVE  IInv'
<1>1. AtWork' = {parent} /\ ~Over
  BY DEF AtWork, Over
<1>2. Bookkeeping'
  BY <1>1, AtStart DEF Bookkeeping
<1>3. CallsAttempted'
  BY <1>1, AtStart, CallsKept DEF Keeps
<1>4. Placed'
  <2>1. SamePage' = SamePage
    BY DEF Keeps, Follows, SamePage, LogicalKey
  <2> QED  BY <2>1 DEF Placed
<1> QED  BY <1>1, <1>2, <1>3, <1>4, GoesOn

\* The action led to nothing new.
LEMMA UnrecordedStep ==
    ASSUME IInv, LeftApp \/ Unrecorded
    PROVE  IInv'
<1>1. pc = "invoked" /\ ~Over /\ AtWork = {parent} /\ f' = SetStatus(f, parent, {doing}, "CLOSED")
  BY DEF LeftApp, Unrecorded, AtWork, Over
<1>2. doing \in Actions
  BY <1>1, AtStart DEF Placed
<1>3. Keeps(f, f', {parent})
  <2>1. "CLOSED" \in Statuses \ {"FILTERED"} /\ {doing} \in SUBSET Actions
        /\ AtWork \cup {parent} = {parent}
    BY <1>1, <1>2 DEF Statuses
  <2> QED  BY <1>1, <2>1, DoneWith
<1>4. /\ pc' \in {"loop", "restore"} /\ (pc' = "restore" => ~capture')
      /\ capture' \in BOOLEAN /\ (capture' => SamePage)
  BY DEF LeftApp, Unrecorded, SamePage
<1>5. ready' \subseteq Pages
  BY <1>1, AtStart DEF LeftApp, Unrecorded, Bookkeeping
<1>6. UNCHANGED <<parent, todo, exhausted, diverged, device, at, retry, rebuilt, label, called>>
  BY DEF LeftApp, Unrecorded
<1> QED  BY <1>1, <1>3, <1>4, <1>5, <1>6, InvokedStep

\* The page where an action led is recorded, and perhaps reuses what is known elsewhere.
LEMMA RecordedKeeps ==
    ASSUME IInv, pc = "invoked", at # "elsewhere", NEW s \in {"PASS", "CLOSED"},
           NEW g \in Recorded(s)
    PROVE  Keeps(f, g, {parent}) /\ at \in g.tracked /\ at \in Pages
<1>1. /\ Shown(f) /\ Owed(f, {parent}) /\ at \in Pages /\ doing \in Actions /\ parent \in Pages
  BY AtStart DEF Over, AtWork, Placed, Bookkeeping
<1>2. PICK grow \in BOOLEAN, listed \in BOOLEAN :
          g = SetStatus(Track(f, at, grow, listed), parent, {doing}, s)
  BY DEF Recorded
<1> DEFINE h == Track(f, at, grow, listed)
<1>3. Keeps(f, h, {parent}) /\ at \in h.tracked
  BY <1>1, TrackKeeps
<1>4. Shown(h) /\ Owed(h, {parent})
  BY <1>3 DEF Keeps
<1> HIDE DEF h
<1>5. s \in Statuses \ {"FILTERED"} /\ {doing} \in SUBSET Actions /\ {parent} \cup {parent} = {parent}
  BY <1>1 DEF Statuses, Covering
<1>6. Keeps(h, SetStatus(h, parent, {doing}, s), {parent})
  BY <1>1, <1>4, <1>5, SetStatusKeeps
<1>7. Keeps(h, g, {parent})
  BY <1>2, <1>6 DEF h
<1>8. Keeps(f, g, {parent})
  BY <1>3, <1>7, KeepsOn
<1> QED  BY <1>1, <1>3, <1>7, <1>8 DEF Keeps, Follows

\* The same with what it reuses.
LEMMA CapturedKeeps ==
    ASSUME IInv, pc = "invoked", at # "elsewhere", NEW c \in Captured
    PROVE  Keeps(f, c.g, {parent}) /\ at \in c.g.tracked /\ at \in Pages
<1>1. PICK g \in Recorded("PASS"), as \in SUBSET Actions, s \in {"REUSED", "CLOSED"} :
          c = [g |-> Reuse(g, at, as, s), reused |-> as # {}]
  BY DEF Captured, Exercised
<1>2. Keeps(f, g, {parent}) /\ at \in g.tracked /\ at \in Pages
  BY RecordedKeeps
<1>3. Shown(g) /\ Owed(g, {parent})
  BY <1>2 DEF Keeps
<1>4. Keeps(g, Reuse(g, at, as, s), {parent})
  BY <1>2, <1>3, ReuseKeeps
<1>5. c.g = Reuse(g, at, as, s)
  BY <1>1
<1>6. Keeps(f, c.g, {parent})
  BY <1>2, <1>4, <1>5, KeepsOn
<1> QED  BY <1>2, <1>4, <1>5, <1>6 DEF Keeps, Follows

\* Closing a page leaves the parent at work, be it the same page or another.
LEMMA ClosingKeeps ==
    ASSUME NEW g, Keeps(f, g, {parent}), NEW p \in g.tracked, NEW l \in Settled
    PROVE  Keeps(f, Close(g, p, l), {parent})
<1>1. Keeps(g, Close(g, p, l), {parent} \ {p})
  BY CloseKeeps DEF Keeps
<1>2. Keeps(f, Close(g, p, l), {parent} \ {p})
  BY <1>1, KeepsOn
<1> QED  BY <1>2, KeepsMore

\* And so does queueing one.
LEMMA QueueingKeeps ==
    ASSUME NEW g, Keeps(f, g, {parent}), NEW p \in g.tracked \ OutOfScope,
           NEW as \in SUBSET g.known[p], NEW whole \in BOOLEAN, NEW front \in BOOLEAN
    PROVE  Keeps(f, Enqueue(g, p, as, whole, front), {parent})
<1>1. Keeps(g, Enqueue(g, p, as, whole, front), {parent})
  BY EnqueueKeeps DEF Keeps
<1> QED  BY <1>1, KeepsOn

\* The page is then queued, closed or left.
LEMMA RoutedKeeps ==
    ASSUME IInv, pc = "invoked", at # "elsewhere", NEW c \in Captured, NEW g \in Routed(c)
    PROVE  Keeps(f, g, {parent})
<1>1. Keeps(f, c.g, {parent}) /\ at \in c.g.tracked /\ at \in Pages
  BY CapturedKeeps
<1>2. CASE g = c.g
  BY <1>1, <1>2
<1>3. CASE at \in OutOfScope /\ g = [Close(c.g, at, "SCOPE_SKIPPED") EXCEPT !.scoped = @ \cup {at}]
  <2> DEFINE h == Close(c.g, at, "SCOPE_SKIPPED")
  <2>1. Keeps(f, h, {parent})
    BY <1>1, ClosingKeeps DEF Settled
  <2>2. Shown(h) /\ Owed(h, {parent})
    BY <2>1 DEF Keeps
  <2> HIDE DEF h
  <2>3. Keeps(h, [h EXCEPT !.scoped = @ \cup {at}], {parent})
    BY <1>1, <1>3, <2>2, ScopeKeeps
  <2>4. Keeps(f, [h EXCEPT !.scoped = @ \cup {at}], {parent})
    BY <2>1, <2>3, KeepsOn
  <2> QED  BY <1>3, <2>4 DEF h
<1>4. CASE g = Close(c.g, at, "ABORTED")
  BY <1>1, <1>4, ClosingKeeps DEF Settled
<1>5. CASE at \notin OutOfScope /\ g = Enqueue(c.g, at, c.g.known[at], TRUE, FALSE)
  BY <1>1, <1>5, QueueingKeeps
<1>6. \/ g = c.g
      \/ at \in OutOfScope /\ g = [Close(c.g, at, "SCOPE_SKIPPED") EXCEPT !.scoped = @ \cup {at}]
      \/ g = Close(c.g, at, "ABORTED")
      \/ at \notin OutOfScope /\ g = Enqueue(c.g, at, c.g.known[at], TRUE, FALSE)
  BY Zenon DEF Routed
<1> QED  BY <1>2, <1>3, <1>4, <1>5, <1>6

\* A page that closes a cycle is closed.
LEMMA ConvergedKeeps ==
    ASSUME IInv, pc = "invoked", at # "elsewhere", NEW g \in Converged
    PROVE  Keeps(f, g, {parent}) /\ at \in g.tracked
<1>1. PICK h \in Recorded("CLOSED") : g = IF at \in h.queued THEN h ELSE Close(h, at, "ABORTED")
  BY DEF Converged
<1>2. Keeps(f, h, {parent}) /\ at \in h.tracked
  BY RecordedKeeps
<1>3. Keeps(h, Close(h, at, "ABORTED"), {parent} \ {at})
  BY <1>2, CloseKeeps DEF Keeps, Settled
<1>4. CASE at \in h.queued
  BY <1>1, <1>2, <1>4
<1>5. CASE at \notin h.queued
  <2>1. g = Close(h, at, "ABORTED")
    BY <1>1, <1>5
  <2>2. Keeps(f, g, {parent} \ {at})
    BY <1>2, <1>3, <2>1, KeepsOn
  <2>3. Keeps(f, g, {parent})
    BY <2>2, KeepsMore
  <2>4. at \in g.tracked
    BY <1>2, <1>3, <2>1 DEF Keeps, Follows
  <2> QED  BY <2>3, <2>4
<1> QED  BY <1>4, <1>5

\* The action led to a page.
LEMMA ArriveStep ==
    ASSUME IInv, Arrive
    PROVE  IInv'
<1>1. pc = "invoked" /\ at # "elsewhere"
  BY DEF Arrive
<1>2. Keeps(f, f', {parent})
  <2>1. f' \in Converged \/ \E c \in Captured : f' \in Routed(c)
    BY DEF Arrive
  <2> QED  BY <1>1, <2>1, ConvergedKeeps, RoutedKeeps
<1>3. /\ pc' \in {"loop", "restore"} /\ (pc' = "restore" => ~capture')
      /\ capture' \in BOOLEAN /\ (capture' => SamePage)
  BY DEF Arrive, SamePage
<1>4. ready' \subseteq Pages
  <2>1. ~Over
    BY <1>1 DEF Over
  <2> QED  BY <2>1, AtStart DEF Arrive, Bookkeeping
<1>5. UNCHANGED <<parent, todo, exhausted, diverged, device, at, retry, rebuilt, label, called>>
  BY DEF Arrive
<1> QED  BY <1>1, <1>2, <1>3, <1>4, <1>5, InvokedStep

-----------------------------------------------------------------------------
(* The ends of a turn.                                                        *)

\* The turn of the parent is over.
LEMMA WrapStep ==
    ASSUME IInv, ~Over, NEW g, Keeps(f, g, {parent}), NEW as \in SUBSET g.known[parent],
           f' = IF Terminal(g, parent) THEN Expand(g, parent)
                ELSE Enqueue(g, parent, as, FALSE, FALSE),
           pc' \in {"top", "limit"}, parent' = parent, todo' = {}, called' = called, Bookkeeping',
           pc' = "top" /\ device' \in Pages \ {Root} =>
               at' # "elsewhere" /\ LogicalKey(f, at') = LogicalKey(f, device')
    PROVE  IInv'
<1>1. AtWork' = {}
  BY DEF AtWork
<1>2. Keeps(f, f', AtWork')
  <2>1. Keeps(g, f', {})
    BY WrapKeeps DEF Keeps
  <2> QED  BY <1>1, <2>1, KeepsOn
<1>3. CallsAttempted'
  BY <1>2, AtStart, CallsKept DEF Keeps
<1>4. Placed'
  BY <1>2 DEF Placed, Keeps, Follows, LogicalKey
<1>5. todo' \subseteq todo /\ pc' \notin {"verify", "end"}
  OBVIOUS
<1> QED  BY <1>2, <1>3, <1>4, <1>5, GoesOn

\* The list of the parent is worked off, or the budget is.
LEMMA EndTurnStep ==
    ASSUME IInv, EndTurn \/ LimitInTurn
    PROVE  IInv'
<1>1. pc = "loop" /\ ~Over /\ AtWork = {parent}
  BY DEF EndTurn, LimitInTurn, Over, AtWork
<1>2. Keeps(f, f, {parent}) /\ parent \in Pages /\ Bookkeeping /\ Placed
  BY <1>1, AtStart DEF Keeps
<1>3. PICK as \in SUBSET f.known[parent] :
          f' = IF Terminal(f, parent) THEN Expand(f, parent)
               ELSE Enqueue(f, parent, as, FALSE, FALSE)
  <2>1. f.late \subseteq Left(f) /\ Left(f) \subseteq f.known[parent]
    BY <1>1, AtStart DEF Left
  <2> QED  BY <2>1 DEF EndTurn, LimitInTurn, Wrap
<1>4. Bookkeeping'
  BY <1>2 DEF EndTurn, LimitInTurn, Wrap, Bookkeeping
<1>5. pc' = "top" /\ device' \in Pages \ {Root} =>
          at' # "elsewhere" /\ LogicalKey(f, at') = LogicalKey(f, device')
  <2>1. CASE EndTurn
    <3>1. "unknown" \notin Pages
      BY ExplorationAssumption
    <3> QED  BY <1>1, <1>2, <2>1, <3>1 DEF EndTurn, Wrap, Placed, SamePage
  <2>2. CASE LimitInTurn
    BY <2>2 DEF LimitInTurn
  <2> QED  BY <2>1, <2>2 DEF EndTurn, LimitInTurn
<1>6. pc' \in {"top", "limit"} /\ parent' = parent /\ todo' = {} /\ called' = called
  BY DEF EndTurn, LimitInTurn, Wrap
<1> QED  BY <1>1, <1>2, <1>3, <1>4, <1>5, <1>6, WrapStep

\* A parent that was lost is put off, or what is left of it is given up.
LEMMA LostKeeps ==
    ASSUME IInv, ~Over, AtWork = {parent}
    PROVE  /\ Keeps(f, Abandoned, {parent})
           /\ Keeps(f, Deferred, {parent})
           /\ parent \in Deferred.queued => Keeps(f, Deferred, {})
<1>1. Keeps(f, Abandoned, {parent})
  <2>1. Left(f) \in SUBSET Actions /\ "CLOSED" \in Statuses \ {"FILTERED"}
        /\ {parent} \cup {parent} = {parent}
    BY AtStart DEF Statuses
  <2> QED  BY <2>1, DoneWith DEF Abandoned
<1> DEFINE h == Enqueue(f, parent, Left(f), FALSE, FALSE)
           d == [h EXCEPT !.label[parent] = "DEFERRED"]
<1>2. Keeps(f, h, {parent})
  <2>1. Keeps(f, f, {parent}) /\ parent \in f.tracked \ OutOfScope /\ Left(f) \in SUBSET f.known[parent]
    BY AtStart DEF Keeps
  <2> QED  BY <2>1, QueueingKeeps
<1>3. Shown(h) /\ Owed(h, {parent}) /\ Deferred = d
  BY <1>2 DEF Keeps, Deferred
<1> HIDE DEF h
<1>4. Keeps(h, d, {parent})
  BY <1>3, RelabelKeeps DEF Labels, Working
<1> HIDE DEF d
<1>5. Keeps(f, d, {parent})
  BY <1>2, <1>4, KeepsOn
<1>6. parent \in d.queued => Keeps(f, d, {})
  <2>1. {parent} \ {parent} = {}
    OBVIOUS
  <2> QED  BY <1>5, <2>1, OwedQueued DEF Keeps
<1> QED  BY <1>1, <1>3, <1>5, <1>6

\* The parent cannot be brought back at the beginning of its turn.
LEMMA LostStep ==
    ASSUME IInv, NEW d \in BOOLEAN, ParentLost(d)
    PROVE  IInv'
<1>1. pc = "recover" /\ ~Over /\ AtWork = {parent} /\ AtWork' = {} /\ pc' = "top"
  BY DEF ParentLost, Over, AtWork
<1>2. Keeps(f, f', AtWork')
  <2>1. CASE MayDefer(d)
    <3>1. f' = Deferred /\ parent \in Deferred.queued
      BY <2>1 DEF ParentLost, MayDefer
    <3> QED  BY <1>1, <3>1, LostKeeps
  <2>2. CASE ~MayDefer(d)
    <3>1. Keeps(f, Abandoned, {parent}) /\ parent \in f.tracked
      BY <1>1, AtStart, LostKeeps
    <3>2. Keeps(Abandoned, Expand(Abandoned, parent), {parent} \ {parent})
      BY <3>1, ExpandKeeps DEF Keeps, Follows
    <3>3. Keeps(f, Expand(Abandoned, parent), {parent} \ {parent})
      BY <3>1, <3>2, KeepsOn
    <3>4. f' = Expand(Abandoned, parent) /\ {parent} \ {parent} = {}
      BY <2>2 DEF ParentLost
    <3> QED  BY <1>1, <3>3, <3>4
  <2> QED  BY <2>1, <2>2
<1>3. Bookkeeping'
  BY <1>1, AtStart, ProgressIs DEF ParentLost, Bookkeeping
<1>4. CallsAttempted'
  BY <1>1, <1>2, AtStart, CallsKept DEF Keeps, ParentLost
<1>5. Placed'
  <2>1. device' \notin Pages
    BY ExplorationAssumption DEF ParentLost
  <2> QED  BY <1>1, <2>1 DEF Placed
<1>6. parent' = parent /\ todo' \subseteq todo
  BY DEF ParentLost
<1> QED  BY <1>1, <1>2, <1>3, <1>4, <1>5, <1>6, GoesOn

\* Nor later, after an action.
LEMMA LostLaterStep ==
    ASSUME IInv, NEW d \in BOOLEAN, ParentLostLater(d)
    PROVE  IInv'
<1>1. pc = "loop" /\ ~Over /\ AtWork = {parent}
  BY DEF ParentLostLater, Over, AtWork
<1>2. PICK g \in {Abandoned, Deferred}, as \in {{}, Left(f)} :
          Wrap(g, as, "unknown") /\ as \in SUBSET f.known[parent]
  <2>1. Left(f) \in SUBSET f.known[parent]
    BY <1>1, AtStart
  <2> QED  BY <2>1 DEF ParentLostLater
<1>3. Keeps(f, g, {parent})
  BY <1>1, <1>2, LostKeeps
<1>4. as \in SUBSET g.known[parent]
  BY <1>1, <1>2, <1>3, AtStart DEF Keeps, Follows
<1>5. Bookkeeping'
  BY <1>1, <1>2, AtStart, ProgressIs DEF ParentLostLater, Wrap, Bookkeeping
<1>6. /\ f' = IF Terminal(g, parent) THEN Expand(g, parent)
              ELSE Enqueue(g, parent, as, FALSE, FALSE)
      /\ pc' = "top" /\ todo' = {} /\ device' = "unknown"
  BY <1>2 DEF Wrap
<1>7. device' \notin Pages
  BY <1>6, ExplorationAssumption
<1>8. parent' = parent /\ called' = called
  BY DEF ParentLostLater
<1> HIDE DEF Abandoned, Deferred
<1> QED  BY <1>1, <1>3, <1>4, <1>5, <1>6, <1>7, <1>8, WrapStep

\* The page comes next, before the rest of the parent.
LEMMA HandoffStep ==
    ASSUME IInv, Handoff
    PROVE  IInv'
<1>1. pc = "invoked" /\ ~Over /\ at # "elsewhere" /\ at \notin OutOfScope
      /\ parent \in Pages /\ parent \notin OutOfScope /\ Bookkeeping
  <2>1. pc = "invoked" /\ at # "elsewhere" /\ at \notin OutOfScope
    BY DEF Handoff
  <2>2. ~Over
    BY <2>1 DEF Over
  <2> QED  BY <2>1, <2>2, AtStart
<1>2. PICK c \in Captured :
          Wrap(Enqueue(Enqueue(c.g, parent, Left(c.g), FALSE, FALSE), at,
                       Enqueue(c.g, parent, Left(c.g), FALSE, FALSE).known[at], TRUE, TRUE),
               Left(c.g), at)
  BY DEF Handoff
<1> DEFINE g == c.g
           own == Enqueue(g, parent, Left(g), FALSE, FALSE)
           both == Enqueue(own, at, own.known[at], TRUE, TRUE)
<1>3. Keeps(f, g, {parent}) /\ at \in g.tracked /\ at \in Pages
  BY <1>1, CapturedKeeps
<1>4. Wrap(both, Left(g), at)
  BY <1>2
<1>5. Left(g) \subseteq g.known[parent] /\ parent \in g.tracked
  BY <1>1, <1>3, AtStart DEF Left, Keeps, Follows, Shown
<1> HIDE DEF g
<1>6. Keeps(f, own, {parent})
  BY <1>1, <1>3, <1>5, QueueingKeeps
<1>7. Keeps(g, own, {parent})
  BY <1>1, <1>3, <1>5, EnqueueKeeps DEF Keeps
<1>8. at \in own.tracked /\ Left(g) \subseteq own.known[parent]
  BY <1>1, <1>3, <1>5, <1>7 DEF Keeps, Follows
<1> HIDE DEF own
<1>9. Keeps(f, both, {parent}) /\ Keeps(own, both, {parent})
  BY <1>1, <1>6, <1>8, QueueingKeeps, EnqueueKeeps DEF Keeps
<1>10. Left(g) \subseteq both.known[parent]
  BY <1>1, <1>8, <1>9 DEF Keeps, Follows
<1> HIDE DEF both
<1>11. Bookkeeping'
  BY <1>1, <1>3, <1>4 DEF Handoff, Wrap, Bookkeeping
<1>12. /\ f' = IF Terminal(both, parent) THEN Expand(both, parent)
               ELSE Enqueue(both, parent, Left(g), FALSE, FALSE)
       /\ pc' = "top" /\ todo' = {} /\ device' = at
  BY <1>4 DEF Wrap
<1>13. parent' = parent /\ called' = called /\ at' = at
  BY DEF Handoff
<1> QED  BY <1>1, <1>9, <1>10, <1>11, <1>12, <1>13, WrapStep

\* A scroll within the page goes on with its turn; one that leads on ends it.
LEMMA ScrollStep ==
    ASSUME IInv, Scroll
    PROVE  IInv'
<1>1. pc = "invoked" /\ ~Over /\ at # "elsewhere" /\ doing \in Scrolls
  BY DEF Scroll, Over
<1>2. /\ parent \in Pages /\ parent \notin OutOfScope /\ Bookkeeping /\ at \in Pages
      /\ at \notin OutOfScope /\ todo \subseteq f.known[parent] /\ parent \in f.tracked
  <2>1. Bookkeeping /\ Placed
    BY <1>1, AtStart
  <2>2. at \in Leads[doing] /\ doing \in Scrolls \cap Actions /\ at \in Pages
    BY <1>1, <2>1 DEF Placed, Bookkeeping
  <2> QED  BY <1>1, <2>1, <2>2, AtStart, ExplorationAssumption
<1>a. PICK moved \in BOOLEAN, view \in BOOLEAN, direct \in BOOLEAN :
        \E g \in Recorded("PASS") \cup (IF view THEN {} ELSE Converged) :
        /\ IF at = parent THEN moved => f.coverage ELSE moved = ~SamePage
        /\ view => moved
        /\ moved /\ ~view => f.coverage \/ g \in Converged
        /\ ready' = ready \cup (IF (f.coverage /\ at = parent) \/ (view /\ direct)
                               THEN {at} ELSE {})
        /\ IF moved
           THEN LET own == Enqueue(g, parent, Left(g), FALSE, direct \/ ~view)
                    both == IF view THEN Enqueue(own, at, own.known[at], TRUE, direct) ELSE own
                IN  Wrap(both, Left(g), IF view THEN at ELSE "between")
           ELSE /\ f' = g /\ pc' = "loop" /\ capture' = TRUE
                /\ UNCHANGED <<todo, exhausted, diverged, device>>
  BY Zenon DEF Scroll
<1>3. PICK g \in Recorded("PASS") \cup (IF view THEN {} ELSE Converged) :
        /\ IF at = parent THEN moved => f.coverage ELSE moved = ~SamePage
        /\ ready' = ready \cup (IF (f.coverage /\ at = parent) \/ (view /\ direct)
                               THEN {at} ELSE {})
        /\ IF moved
           THEN LET own == Enqueue(g, parent, Left(g), FALSE, direct \/ ~view)
                    both == IF view THEN Enqueue(own, at, own.known[at], TRUE, direct) ELSE own
                IN  Wrap(both, Left(g), IF view THEN at ELSE "between")
           ELSE /\ f' = g /\ pc' = "loop" /\ capture' = TRUE
                /\ UNCHANGED <<todo, exhausted, diverged, device>>
  BY <1>a, Zenon
<1>4. UNCHANGED <<parent, doing, at, retry, rebuilt, label, called>> /\ ready' \subseteq Pages
  BY <1>2, <1>3 DEF Scroll, Bookkeeping
<1>5. Keeps(f, g, {parent}) /\ at \in g.tracked
  BY <1>1, <1>3, RecordedKeeps, ConvergedKeeps
<1>6. CASE moved
  <2> DEFINE own == Enqueue(g, parent, Left(g), FALSE, direct \/ ~view)
             both == IF view THEN Enqueue(own, at, own.known[at], TRUE, direct) ELSE own
             to == IF view THEN at ELSE "between"
  <2>1. Wrap(both, Left(g), to)
    BY <1>3, <1>6
  <2>2. Left(g) \subseteq g.known[parent] /\ parent \in g.tracked
    BY <1>2, <1>5 DEF Left, Keeps, Follows, Shown
  <2>3. (direct \/ ~view) \in BOOLEAN
    OBVIOUS
  <2>4. Keeps(f, own, {parent}) /\ Keeps(g, own, {parent})
    BY <1>2, <1>5, <2>2, <2>3, QueueingKeeps, EnqueueKeeps DEF Keeps
  <2>5. at \in own.tracked /\ Left(g) \subseteq own.known[parent]
    BY <1>2, <1>5, <2>2, <2>4 DEF Keeps, Follows
  <2> HIDE DEF own
  <2>6. Keeps(f, both, {parent}) /\ Left(g) \subseteq both.known[parent]
    <3>1. CASE view
      <4> DEFINE last == Enqueue(own, at, own.known[at], TRUE, direct)
      <4>1. Keeps(f, last, {parent}) /\ Keeps(own, last, {parent})
        BY <1>2, <2>4, <2>5, QueueingKeeps, EnqueueKeeps DEF Keeps
      <4> HIDE DEF last
      <4>2. Left(g) \subseteq last.known[parent]
        BY <1>2, <2>5, <4>1 DEF Keeps, Follows
      <4> QED  BY <3>1, <4>1, <4>2 DEF last
    <3>2. CASE ~view
      BY <2>4, <2>5, <3>2
    <3> QED  BY <3>1, <3>2
  <2> HIDE DEF both
  <2>7. /\ f' = IF Terminal(both, parent) THEN Expand(both, parent)
                ELSE Enqueue(both, parent, Left(g), FALSE, FALSE)
        /\ pc' = "top" /\ todo' = {} /\ device' = to
        /\ capture' = FALSE /\ exhausted' = FALSE /\ diverged' = FALSE
    BY <2>1 DEF Wrap
  <2>8. Bookkeeping'
    BY <1>2, <1>4, <2>7 DEF Bookkeeping
  <2>9. pc' = "top" /\ device' \in Pages \ {Root} =>
            at' # "elsewhere" /\ LogicalKey(f, at') = LogicalKey(f, device')
    <3>1. "between" \notin Pages
      BY ExplorationAssumption
    <3> QED  BY <1>1, <1>4, <2>7, <3>1
  <2>10. parent' = parent /\ called' = called
    BY <1>4
  <2> QED  BY <1>1, <2>6, <2>7, <2>8, <2>9, <2>10, WrapStep
<1>7. CASE ~moved
  <2>1. f' = g /\ pc' = "loop" /\ capture' = TRUE /\ UNCHANGED <<todo, exhausted, diverged, device>>
    BY <1>3, <1>7
  <2>2. SamePage
    BY <1>1, <1>3, <1>7 DEF SamePage
  <2> QED  BY <1>1, <1>4, <1>5, <2>1, <2>2, InvokedStep
<1> QED  BY <1>6, <1>7

-----------------------------------------------------------------------------
(* Between two pages.                                                         *)

\* The next page is taken from the queue.
LEMMA PopStep ==
    ASSUME IInv, NEW p \in Pages, Pop(p)
    PROVE  IInv'
<1>1. /\ pc = "top" /\ ~Over /\ AtWork = {} /\ p \in f.queued \ f.expanded /\ parent' = p
      /\ pc' \in {"loop", "recover"} /\ AtWork' = {p}
  BY DEF Pop, Over, AtWork
<1> DEFINE g == Dequeue(f, p)
           h == [g EXCEPT !.label[p] = "EXPANDING"]
<1>2. Shown(f) /\ Owed(f, {}) /\ Bookkeeping /\ CallsAttempted /\ Placed
  BY <1>1, AtStart
<1>3. Keeps(f, g, {p}) /\ g.late = {} /\ f' = h
  <2>1. Keeps(f, g, {p}) /\ g.late = {}
    BY <1>1, <1>2, DequeueKeeps
  <2>2. f' = h
    BY Zenon DEF Pop
  <2> QED  BY <2>1, <2>2
<1>4. Shown(g) /\ Owed(g, {p})
  BY <1>3 DEF Keeps
<1> HIDE DEF g
<1>5. Keeps(g, h, {p}) /\ h.late = {}
  BY <1>3, <1>4, RelabelKeeps DEF Labels, Working
<1> HIDE DEF h
<1>6. Keeps(f, f', {p}) /\ f'.late = {}
  BY <1>3, <1>5, KeepsOn
<1>7. Types'
  <2>1. p \in f.enqueued /\ p \in f'.enqueued
    BY <1>1, <1>2, <1>6 DEF Shown, Keeps, Follows
  <2>2. Shown(f)'
    BY <1>1, <1>6, <2>1 DEF Keeps, Shown
  <2>3. todo' \subseteq f'.known[p]
    BY <1>2, <1>6 DEF Pop, Shown, Keeps, Follows
  <2>4. Bookkeeping'
    BY <1>2 DEF Pop, Bookkeeping, AtPath
  <2> QED  BY <1>1, <2>2, <2>3, <2>4 DEF Types
<1>8. CallsAttempted'
  BY <1>2, <1>6, CallsKept DEF Keeps, Pop
<1>9. Placed'
  <2>1. capture' /\ p # Root => at # "elsewhere" /\ LogicalKey(f, at) = LogicalKey(f, p)
    BY <1>1, <1>2 DEF Pop, AtPath, Placed
  <2>2. at' = at
    BY DEF Pop
  <2> QED  BY <1>1, <1>6, <2>1, <2>2 DEF Placed, SamePage, Keeps, Follows, LogicalKey
<1>10. Owed(f, AtWork)'
  BY <1>1, <1>6 DEF Keeps, Owed
<1> QED  BY <1>1, <1>7, <1>8, <1>9, <1>10 DEF IInv, FrontierSettles

\* An entry of a page that was explored meanwhile is dropped; what fell out is queued.
LEMMA QueueStep ==
    ASSUME IInv, Rebuild \/ \E p \in Pages : PopExpanded(p)
    PROVE  IInv'
<1>1. /\ pc = "top" /\ pc' = "top" /\ parent' = parent /\ todo' = todo /\ ~Over /\ AtWork = {} /\ AtWork' = {}
      /\ called' = called
  BY DEF Rebuild, PopExpanded, Over, AtWork
<1>2. Shown(f) /\ Owed(f, {}) /\ Bookkeeping /\ CallsAttempted /\ Placed
  BY <1>1, AtStart
<1>3. Keeps(f, f', AtWork')
  <2>1. CASE Rebuild
    BY <1>1, <1>2, <2>1, RequeuedKeeps DEF Rebuild
  <2>2. CASE \E p \in Pages : PopExpanded(p)
    <3>1. PICK p \in Pages : p \in f.queued /\ p \in f.expanded /\ f' = Dequeue(f, p)
      BY <2>2 DEF PopExpanded
    <3> QED  BY <1>1, <1>2, <3>1, DequeueKeeps
  <2> QED  BY <2>1, <2>2
<1>4. Bookkeeping'
  BY <1>2 DEF Rebuild, PopExpanded, Bookkeeping
<1>5. CallsAttempted'
  BY <1>1, <1>2, <1>3, CallsKept DEF Keeps
<1>6. Placed'
  <2>1. device' = device \/ device' \notin Pages
    BY ExplorationAssumption DEF Rebuild, PopExpanded
  <2>2. at' = at
    BY DEF Rebuild, PopExpanded
  <2> QED  BY <1>1, <1>2, <1>3, <2>1, <2>2 DEF Placed, Keeps, Follows, LogicalKey
<1> QED  BY <1>1, <1>3, <1>4, <1>5, <1>6, GoesOn

-----------------------------------------------------------------------------
(* The ends of the branch.                                                    *)

\* What is left when the queue is empty, or was swept.
LEMMA VerifyStep ==
    ASSUME IInv, Limit \/ Drained \/ ShareSpent
    PROVE  IInv'
<1>1. /\ pc' = "verify" /\ ~Over /\ parent' = parent /\ todo' = todo /\ called' = called
      /\ AtWork' = {}
  BY DEF Limit, Drained, ShareSpent, InTurn, Over, AtWork
<1>2. Shown(f) /\ Owed(f, AtWork) /\ Bookkeeping /\ CallsAttempted /\ Follows(f, f)
  BY <1>1, AtStart
<1>3. Keeps(f, f', {}) /\ Swept(f')
  <2>1. CASE Limit
    <3> DEFINE g == Sweep(f)
               ac == [p \in Pages |-> {}]
               h == [g EXCEPT !.queued = {}, !.acts = ac]
    <3>1. Keeps(f, g, {}) /\ Swept(g)
      BY <1>2, SweepKeeps
    <3>2. f' = h
      BY <2>1, Zenon DEF Limit
    <3> HIDE DEF g
    <3>3. ac \in [Pages -> SUBSET Actions] /\ \A p \in Pages : ac[p] = {}
      OBVIOUS
    <3> HIDE DEF ac
    <3>4. Same(g, h, {"queued", "acts"}) /\ h.queued = {} /\ h.acts = ac
      BY <3>1, <3>3 DEF Keeps, Shown, Frontiers, Same
    <3> HIDE DEF h
    <3>5. \A q \in Pages : Terminal(h, q) <=> Terminal(g, q)
      BY <3>4 DEF Terminal, Same
    <3>6. Shown(h) /\ Follows(g, h)
      BY <3>1, <3>3, <3>4 DEF Keeps, Shown, Follows, Same
    <3>7. g.enqueued \subseteq Pages
      BY <3>1 DEF Keeps, Shown, Frontiers
    <3>8. Swept(h)
      BY <3>1, <3>4, <3>5, <3>7 DEF Swept, Same
    <3>9. Owed(h, {})
      <4>1. \A p \in h.enqueued \ (h.queued \cup h.expanded \cup h.surfaced \cup {}) :
                h.label[p] \in Settled
        BY <3>8 DEF Swept
      <4> QED  BY <3>1, <3>4, <4>1 DEF Keeps, Owed, Same
    <3>10. Keeps(g, h, {})
      BY <3>6, <3>9 DEF Keeps
    <3> QED  BY <3>1, <3>2, <3>8, <3>10, KeepsOn
  <2>2. CASE Drained
    <3>1. f' = f /\ pc = "top" /\ f.queued = {} /\ Unresolved(f) = {}
      BY <2>2 DEF Drained
    <3>2. Owed(f, {})
      BY <1>2, <3>1 DEF AtWork
    <3>3. \A p \in f.enqueued \ f.expanded : Terminal(f, p)
      BY <3>1 DEF Unresolved
    <3>4. Swept(f)
      BY <3>1, <3>2, <3>3 DEF Swept, Owed
    <3> QED  BY <1>2, <3>1, <3>2, <3>4 DEF Keeps
  <2>3. CASE ShareSpent
    <3>1. PICK g : f' = Sweep(g) /\ g = IF pc = "invoked" THEN SetStatus(f, parent, {doing}, "CLOSED") ELSE f
      BY <2>3 DEF ShareSpent
    <3>2. Keeps(f, g, AtWork \cup {parent})
      <4>1. CASE pc = "invoked"
        <5>1. {doing} \in SUBSET Actions /\ "CLOSED" \in Statuses \ {"FILTERED"}
          BY <1>1, <4>1, AtStart DEF Placed, Statuses
        <5> QED  BY <1>1, <3>1, <4>1, <5>1, DoneWith
      <4>2. CASE pc # "invoked"
        BY <1>2, <3>1, <4>2, OwedMore DEF Keeps
      <4> QED  BY <4>1, <4>2
    <3>3. Keeps(g, Sweep(g), {}) /\ Swept(Sweep(g))
      BY <3>2, SweepKeeps DEF Keeps
    <3>4. Keeps(f, Sweep(g), {})
      BY <3>2, <3>3, KeepsOn
    <3> QED  BY <3>1, <3>3, <3>4
  <2> QED  BY <2>1, <2>2, <2>3
<1>4. Types'
  <2>1. Shown(f)'
    BY <1>1, <1>3 DEF Keeps, Shown
  <2>2. parent' \in Pages /\ todo' \subseteq f'.known[parent']
    BY <1>1, <1>3, AtStart DEF Keeps, Follows
  <2>3. Bookkeeping'
    BY <1>2 DEF Limit, Drained, ShareSpent, Bookkeeping
  <2> QED  BY <2>1, <2>2, <2>3 DEF Types
<1>5. CallsAttempted'
  BY <1>1, <1>2, <1>3, CallsKept DEF Keeps
<1>6. Placed'
  BY <1>1 DEF Placed
<1>7. Owed(f, AtWork)' /\ Swept(f)'
  BY <1>1, <1>3 DEF Keeps, Owed, Swept, Terminal
<1> QED  BY <1>1, <1>4, <1>5, <1>6, <1>7 DEF IInv, FrontierSettles

\* The finally block settles what is left.
LEMMA EndStep ==
    ASSUME IInv, Crash \/ Verified \/ GiveUp \/ BudgetSpent \/ Cancelled
    PROVE  IInv'
<1>1. /\ pc' \in {"end", "crashed"} /\ ~Over
      /\ UNCHANGED <<parent, doing, todo, capture, exhausted, diverged, ready, device, at,
                     retry, rebuilt, label, called>>
  BY DEF Crash, Verified, GiveUp, BudgetSpent, Cancelled, Stop, InTurn, Verifying, Over
<1>2. Shown(f) /\ Owed(f, AtWork) /\ Bookkeeping /\ CallsAttempted
  BY <1>1, AtStart
<1>3. PICK s \in {"FILTERED", "CLOSED"}, l \in {"none", "BUDGET_SKIPPED", "ABORTED"} :
        /\ f' = Finalized(f, s, l)
        /\ \/ pc' = "crashed"
           \/ s = "CLOSED" /\ l # "none"
           \/ s = "FILTERED" /\ l = "none" /\ pc = "verify" /\ label = "none"
  BY <1>2 DEF Crash, Verified, GiveUp, BudgetSpent, Cancelled, Stop, Bookkeeping
<1>4. /\ Shown(f') /\ Follows(f, f') /\ f'.known = f.known
      /\ f'.enqueued = f.enqueued /\ f'.expanded = f.expanded /\ f'.surfaced = f.surfaced
      /\ \A p \in Pages, a \in Actions :
            /\ s = "CLOSED" => f'.status[p][a] # "FILTERED"
            /\ a \in f'.known[p] /\ s = "CLOSED" => f'.status[p][a] \notin Open
            /\ a \in f.known[p] /\ f.status[p][a] \notin Open => f'.status[p][a] = f.status[p][a]
      /\ l = "none" => f'.label = f.label
      /\ l # "none" => \A p \in f.tracked \ f.expanded : f'.label[p] = l
  <2>1. l \in Settled \cup {"none"}
    BY DEF Settled
  <2> QED  BY <1>2, <1>3, <2>1, FinalizedKeeps
<1>5. Types'
  <2>1. Shown(f)'
    BY <1>1, <1>4 DEF Shown
  <2>2. parent' \in Pages /\ todo' \subseteq f'.known[parent']
    BY <1>1, <1>4, AtStart
  <2>3. Bookkeeping'
    BY <1>1, <1>2 DEF Bookkeeping
  <2> QED  BY <2>1, <2>2, <2>3 DEF Types
<1>6. CallsAttempted'
  BY <1>1, <1>2, <1>4, CallsKept
<1>7. Placed'
  BY <1>1 DEF Placed
<1>8. FrontierSettles'
  <2> SUFFICES ASSUME pc' = "end", NEW p \in f.enqueued \ (f.expanded \cup f.surfaced)
               PROVE  /\ f'.label[p] \in Settled
                      /\ \A a \in f.known[p] : f'.status[p][a] \notin Open \cup {"FILTERED"}
    BY <1>4 DEF FrontierSettles
  <2>1. p \in Pages /\ f.known[p] \subseteq Actions /\ p \in f.tracked
    BY <1>2 DEF Shown, Frontiers
  <2>2. CASE s = "CLOSED" /\ l # "none"
    BY <1>3, <1>4, <2>1, <2>2 DEF Settled
  <2>3. CASE s = "FILTERED" /\ l = "none" /\ pc = "verify" /\ label = "none"
    <3>1. Terminal(f, p) /\ f.label[p] \in Settled
      BY <2>3 DEF IInv, Swept
    <3> QED  BY <1>2, <1>4, <2>1, <2>3, <3>1 DEF Terminal, Owed
  <2> QED  BY <1>3, <2>2, <2>3
<1> QED  BY <1>1, <1>5, <1>6, <1>7, <1>8 DEF IInv, Over

-----------------------------------------------------------------------------
(* The theorems.                                                              *)

\* The invariant holds at the start.
LEMMA Initially ==
    ASSUME Init
    PROVE  IInv
<1> USE ExplorationAssumption
<1>1. PICK c \in BOOLEAN : f =
           [known |-> [p \in Pages |-> IF p = Root THEN Acts[p] \ Hidden[p] ELSE {}],
            status |-> [p \in Pages |-> [a \in Actions |-> "PENDING"]],
            tracked |-> {Root}, attempted |-> {}, queued |-> {Root}, enqueued |-> {Root}, expanded |-> {},
            acts |-> [p \in Pages |-> IF p = Root THEN Acts[p] \ Hidden[p] ELSE {}],
            label |-> [p \in Pages |-> IF p = Root THEN "QUEUED" ELSE "DISCOVERED"],
            covered |-> [s \in Surfaces |-> {}], surfaced |-> {}, scoped |-> {}, late |-> {},
            coverage |-> c]
  BY DEF Init
<1>2. /\ pc = "top" /\ parent = Root /\ todo = {} /\ called = {} /\ device = "unknown"
      /\ AtWork = {}
  BY DEF Init, AtWork
<1>3. f \in Frontiers
  <2>1. f.known \in [Pages -> SUBSET Actions] /\ f.acts \in [Pages -> SUBSET Actions]
    BY <1>1 DEF Actions
  <2>2. f.status \in [Pages -> [Actions -> Statuses]] /\ f.label \in [Pages -> Labels]
        /\ f.covered \in [Surfaces -> SUBSET Actions]
    BY <1>1 DEF Statuses, Open, Labels, Working
  <2> QED  BY <1>1, <2>1, <2>2 DEF Frontiers
<1>4. Shown(f)
  BY <1>1, <1>2, <1>3 DEF Shown
<1>5. Owed(f, {})
  BY <1>1 DEF Owed
<1>6. Types
  <2>1. Bookkeeping
    <3>1. rebuilt \in [since : {"never", "same", "moved"}, failures : 0..1]
      BY DEF Init
    <3> QED  BY <3>1, Zenon DEF Init, Bookkeeping
  <2> QED  BY <1>2, <1>4, <2>1 DEF Types
<1>7. CallsAttempted /\ Placed
  BY <1>2 DEF CallsAttempted, Placed
<1> QED  BY <1>2, <1>5, <1>6, <1>7 DEF IInv, FrontierSettles

\* Every step keeps it.
LEMMA Inductive ==
    ASSUME IInv, [Next]_vars
    PROVE  IInv'
<1>1. CASE UNCHANGED vars
  BY <1>1 DEF vars, IInv, Types, Shown, Bookkeeping, CallsAttempted, LogicalKey, Placed, SamePage,
              Over, AtWork, Owed, Terminal, Swept, FrontierSettles
<1>2. CASE Limit \/ Drained \/ ShareSpent
  BY <1>2, VerifyStep
<1>3. CASE Crash \/ Verified \/ GiveUp \/ BudgetSpent \/ Cancelled
  BY <1>3, EndStep
<1>4. CASE Rebuild \/ \E p \in Pages : PopExpanded(p)
  BY <1>4, QueueStep
<1>5. CASE \E p \in Pages : Pop(p)
  BY <1>5, PopStep
<1>6. CASE ParentFound \/ Restored \/ NotRestored
  BY <1>6, BackStep
<1>7. CASE EndTurn \/ LimitInTurn
  BY <1>7, EndTurnStep
<1>8. CASE \E d \in BOOLEAN : ParentLost(d) \/ ParentLostLater(d)
  BY <1>8, LostStep, LostLaterStep
<1>9. CASE \E a \in Actions : SkipAgain(a) \/ Skip(a) \/ NotLocated(a) \/ CallFails(a) \/ Invoke(a)
  BY <1>9, SkipStep, CallStep
<1>10. CASE LeftApp \/ Unrecorded
  BY <1>10, UnrecordedStep
<1>11. CASE Arrive
  BY <1>11, ArriveStep
<1>12. CASE Handoff
  BY <1>12, HandoffStep
<1>13. CASE Scroll
  BY <1>13, ScrollStep
<1> QED  BY <1>1, <1>2, <1>3, <1>4, <1>5, <1>6, <1>7, <1>8, <1>9, <1>10, <1>11, <1>12, <1>13
         DEF Next

(* The frontier keeps its types and its books: see IInv.                        *)
THEOREM Invariance == Spec => []IInv
<1>1. Init => IInv
  BY Initially
<1>2. IInv /\ [Next]_vars => IInv'
  BY Inductive
<1> QED  BY <1>1, <1>2, PTL DEF Spec

(* When a branch ends, no page that was ever queued is forgotten, and all actions   *)
(* of it are accounted for, whatever the app did and however the exploration ended     *)
(* but by a crash.                                                             *)
THEOREM FrontierCorrectness == Spec => []FrontierInOrder
<1>1. IInv => FrontierInOrder
  <2> SUFFICES ASSUME IInv PROVE TypeOK /\ FrontierSettles
    BY DEF FrontierInOrder
  <2>1. Shown(f) /\ parent \in Pages /\ todo \subseteq f.known[parent] /\ Bookkeeping
    BY DEF IInv, Types
  <2>2. f \in Frontiers /\ todo \subseteq Acts[parent]
    BY <2>1 DEF Shown
  <2>3. /\ f.status \in [Pages -> [Actions -> Statuses]] /\ f.label \in [Pages -> Working \cup Settled]
        /\ f.covered \in [Surfaces -> SUBSET Actions]
        /\ f.tracked \cup f.surfaced \cup f.scoped \subseteq Pages
    BY <2>2 DEF Frontiers, Labels
  <2>4. label \in Settled \cup {"none"}
    BY <2>1 DEF Bookkeeping, Settled
  <2>5. TypeOK
    BY <2>1, <2>2, <2>3, <2>4 DEF TypeOK, Shown, Bookkeeping
  <2> QED  BY <2>5 DEF IInv
<1> QED  BY <1>1, Invariance, PTL

\* Only one action gets from the loop to an action of the page.
LEMMA InvokeOnly ==
    ASSUME [Next]_vars, pc = "loop", pc' = "invoked"
    PROVE  \E a \in Actions : Invoke(a)
<1>1. Next
  BY DEF vars
<1> QED  BY <1>1 DEF Next, Limit, Crash, Verified, Drained, Rebuild, GiveUp, ParentFound, EndTurn,
                  LimitInTurn, LeftApp, Unrecorded, Arrive, Handoff, Scroll, Restored, NotRestored,
                  ShareSpent, BudgetSpent, Cancelled, PopExpanded, Pop, ParentLost, ParentLostLater,
                  SkipAgain, Skip, NotLocated, CallFails, Wrap, Stop, Over

(* An action of a page is performed only while the device shows that page, but for     *)
(* the root's: there the capture may be stale.                                   *)
THEOREM OnPageOnly == Spec => ActsOnParent
<1>1. IInv /\ [Next]_vars => [pc = "loop" /\ pc' = "invoked" /\ parent # Root => SamePage]_vars
  <2> SUFFICES ASSUME IInv, [Next]_vars, pc = "loop", pc' = "invoked", parent # Root
               PROVE  SamePage
    OBVIOUS
  <2>1. capture
    BY InvokeOnly DEF Invoke
  <2> QED  BY <2>1 DEF IInv, Placed
<1> QED  BY <1>1, Invariance, PTL DEF Spec, ActsOnParent

(* No action of a page is performed a second time, however often the page is queued,    *)
(* put off or found again.                                                        *)
THEOREM OnceOnly == Spec => AtMostOnce
<1>1. IInv /\ [Next]_vars =>
          [pc = "loop" /\ pc' = "invoked" => <<parent, doing'>> \notin called]_vars
  <2> SUFFICES ASSUME IInv, [Next]_vars, pc = "loop", pc' = "invoked"
               PROVE  <<parent, doing'>> \notin called
    OBVIOUS
  <2>1. PICK a \in Actions : Invoke(a)
    BY InvokeOnly
  <2>2. doing' = a /\ <<LogicalKey(f, parent), a>> \notin f.attempted
    BY <2>1 DEF Invoke, Fresh, Pending
  <2>3. ASSUME <<parent, a>> \in called PROVE FALSE
    BY <2>2, <2>3 DEF IInv, CallsAttempted
  <2> QED  BY <2>2, <2>3
<1> QED  BY <1>1, Invariance, PTL DEF Spec, AtMostOnce
=============================================================================
