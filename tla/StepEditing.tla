----------------------------- MODULE StepEditing -----------------------------
(***************************************************************************)
(* Several editors (desktop, web, app) change the steps of one test case    *)
(* or one scenario (api/cases.py, api/scenarios.py) under the optimistic    *)
(* lock of version_lock.py.  A case keeps its steps twice: in the column    *)
(* "steps" (legacy) and as rows of their own (rows), which is what readers  *)
(* are shown; a scenario has rows only.                                     *)
(*                                                                         *)
(* What is written is abstracted to who wrote it: each writing request has *)
(* a number, and its content is that number; 0 is the content at the start.*)
(* SQLite runs a SELECT outside of a transaction and takes its one write    *)
(* lock at the first DELETE, INSERT or UPDATE, so a read is a step of its   *)
(* own and the writes of one transaction are one step.  The rows one        *)
(* transaction inserts have one key here.  Tables are made without          *)
(* AUTOINCREMENT, so the key of a deleted row may be handed out again (to a *)
(* row of this case; of others nothing is modelled).  The new step model is *)
(* switched on, as is the default (feature_flags.py:42).                    *)
(***************************************************************************)
EXTENDS Naturals, FiniteSets

CONSTANTS Clients,      \* editors: each sends one request after the other
          MaxWrites,    \* bound on the number of writing requests
          Operations,   \* what editors do, a subset of AllOperations
          Guards,       \* the sets of tokens each editor may send with a save
          RowIds,       \* the primary keys of rows of steps
          NoRow         \* the case or scenario was deleted

AllOperations == {"view", "load", "put", "update", "sync", "rename", "delete"}
Writing == AllOperations \ {"view", "load"}

ASSUME EditingAssumption ==
    /\ MaxWrites \in Nat
    /\ Operations \subseteq AllOperations
    /\ Guards \in [Clients -> SUBSET SUBSET {"version", "stamp"}]
    /\ Clients \cap Nat = {}

VARIABLES
  kind,     \* "case" or "scenario"
  row,      \* version, updated_at (stamp) and the column of steps, or NoRow
  rows,     \* rows of steps: <<content, primary key>>
  client,   \* what each editor knows, and where its request stands
  made,     \* writing requests so far
  wild,     \* history: the requests that wrote and compared no token
  wins,     \* history: <<request, kind of token, token>> of guarded saves
  lost      \* history: what guarded saves replaced that their editors had not seen

vars == <<kind, row, rows, client, made, wild, wins, lost>>

Numbers == 0 .. MaxWrites
Ids == Numbers \cup Clients     \* a client's name stands for its GET request
Rows == [version : Nat, stamp : Numbers, legacy : SUBSET Numbers]

(***************************************************************************)
(* Where a request stands:                                                 *)
(*   idle      none under way            row     a GET, before it reads     *)
(*   steps     the row was read, the step rows were not                     *)
(*   old       before the rows to be replaced are selected                  *)
(*   write     before the transaction that writes                           *)
(*   refresh   update_test_case has committed the column, not the rows      *)
(*   copy      before the rows are written from the column                  *)
(*   answer    committed, the token of the answer is not read yet           *)
(*   saved     the token of the answer was read, its steps were not         *)
(***************************************************************************)
Points == {"idle", "row", "steps", "old", "write", "refresh", "copy", "answer", "saved"}

Tokens == [version : Nat, stamp : Numbers]

\* Where an editor has its token from: a GET (or an update) that then read the steps, or
\* the answer to a save.
Sources == {"none", "read", "answer"}

ClientStates ==
    [pc : Points, op : AllOperations, guard : SUBSET {"version", "stamp"},
     token : Tokens, source : Sources, loaded : Tokens, seen : SUBSET Numbers, me : Ids,
     legacy : SUBSET Numbers, old : SUBSET RowIds, saved : SUBSET RowIds]

Losses ==
    [by : Numbers, replaced : SUBSET Numbers, seen : SUBSET Numbers, source : Sources]

Contents(set) == {r[1] : r \in set}
Keys(set) == {r[2] : r \in set}

\* What an editor is shown: the rows of steps, or the column if there are none.
Shown(legacy, set) == IF set = {} THEN legacy ELSE Contents(set)

NoToken == [version |-> 0, stamp |-> 0]
TokenOf(r) == [version |-> r.version, stamp |-> r.stamp]

Fresh(c) ==
    [pc |-> "idle", op |-> "view", guard |-> {}, token |-> NoToken, source |-> "none",
     loaded |-> NoToken, seen |-> {}, me |-> c, legacy |-> {}, old |-> {}, saved |-> {}]

\* A case whose steps were migrated or not yet, or a scenario; nobody has opened it.
Init ==
    /\ kind \in {"case", "scenario"}
    /\ row = [version |-> 1, stamp |-> 0, legacy |-> IF kind = "case" THEN {0} ELSE {}]
    /\ rows \in {{}} \cup {{<<0, id>>} : id \in RowIds}
    /\ kind = "scenario" => rows # {}
    /\ client = [c \in Clients |-> Fresh(c)]
    /\ made = 0 /\ wild = {} /\ wins = {} /\ lost = {}

Update(c, f) == client' = [client EXCEPT ![c] = f]
At(c, op, pc) == client[c].op = op /\ client[c].pc = pc
\* The request is over, and the editor knows this now.
Knows(c, token, seen, source) ==
    Update(c, [Fresh(c) EXCEPT !.token = token, !.seen = seen, !.source = source])
\* It ends with an error: the editor knows what it knew before.
Ends(c) == Knows(c, client[c].token, client[c].seen, client[c].source)

\* It has committed, with these rows as the steps; the answer is left.
Committed(c, set) ==
    Update(c, [client[c] EXCEPT !.pc = "answer", !.saved = Keys(set),
                  !.guard = {}, !.loaded = NoToken, !.legacy = {}, !.old = {}])

TakesPart(op) == op \in Operations /\ (op \in {"load", "update", "sync"} => kind = "case")
                                   /\ (op = "rename" => kind = "scenario")

FirstPoint(op) == CASE op = "load" -> "steps"
                    [] op = "view" -> "row"
                    [] op \in {"sync", "delete"} \/ (op = "put" /\ kind = "case") -> "old"
                    [] OTHER -> "write"

-----------------------------------------------------------------------------
(* Reading: GET /cases/{id}, GET .../steps, and the answer of an update.    *)

\* A request begins by loading the row (404 if it is gone).  A GET of the steps reads the
\* version header together with it.
Begin(c, op, guard) ==
    /\ client[c].pc = "idle" /\ TakesPart(op) /\ row # NoRow
    /\ op \in Writing => made < MaxWrites
    /\ guard # {} => op = "put" /\ client[c].token.version # 0
    /\ op = "put" => guard \in Guards[c]
    /\ made' = IF op \in Writing THEN made + 1 ELSE made
    /\ Update(c, [client[c] EXCEPT !.pc = FirstPoint(op), !.op = op, !.guard = guard,
                     !.me = IF op \in Writing THEN made + 1 ELSE c,
                     !.loaded = TokenOf(row),
                     !.legacy = IF op \in {"load", "sync"} THEN row.legacy ELSE {}])
    /\ UNCHANGED <<kind, row, rows, wild, wins, lost>>

\* TestCaseRead.from_orm, or the version header: the token the editor will send back.
ReadToken(c) ==
    /\ client[c].pc = "row"
    /\ IF row = NoRow
       THEN Ends(c)
       ELSE Update(c, [client[c] EXCEPT !.pc = "steps", !.legacy = row.legacy,
                          !.token = TokenOf(row)])
    /\ UNCHANGED <<kind, row, rows, made, wild, wins, lost>>

\* _enrich_case_read: the rows are selected after the case was loaded.
ReadSteps(c) ==
    /\ client[c].pc = "steps" /\ client[c].op # "load"
    /\ Knows(c, client[c].token, Shown(client[c].legacy, rows), "read")
    /\ UNCHANGED <<kind, row, rows, made, wild, wins, lost>>

\* get_case_standard_steps: a case without rows is migrated by its first reader.
LoadSteps(c) ==
    /\ At(c, "load", "steps")
    /\ IF rows = {} /\ client[c].legacy # {}
       THEN Update(c, [client[c] EXCEPT !.pc = "old"])
       ELSE Knows(c, client[c].loaded, Contents(rows), "read")
    /\ UNCHANGED <<kind, row, rows, made, wild, wins, lost>>

-----------------------------------------------------------------------------
(* Writing the steps of a case.                                             *)

\* _replace_standard_steps: the rows to be deleted are selected before the first DELETE.
ReadOld(c) ==
    /\ client[c].pc = "old"
    /\ Update(c, [client[c] EXCEPT !.old = Keys(rows),
                     !.pc = IF client[c].op \in {"load", "update"} THEN "copy" ELSE "write"])
    /\ UNCHANGED <<kind, row, rows, made, wild, wins, lost>>

\* A DELETE goes by key: of a row that is gone it deletes nothing, or the row that has its
\* key now; what others inserted meanwhile under other keys stays.
Remaining(c) == {r \in rows : r[2] \notin client[c].old}

\* The rows after the replacement: the new ones get a key that is free then.
Replacements(c, contents) ==
    {Remaining(c) \cup (contents \X {id}) : id \in RowIds \ Keys(Remaining(c))}

\* What a request may write: a list of steps of its own, or the empty list.
Written(c) == {{}, {client[c].me}}

\* A slip: the version is compared with the row as it was when the request began.
MatchesLoaded(c) ==
    /\ "version" \in client[c].guard => client[c].loaded.version = client[c].token.version
    /\ "stamp" \in client[c].guard => client[c].loaded.stamp = client[c].token.stamp

\* VersionGuard: every token that was sent has to match (none, if none was sent).
Matches(c) ==
    /\ "version" \in client[c].guard => row.version = client[c].token.version
    /\ "stamp" \in client[c].guard => row.stamp = client[c].token.stamp

\* The history of a save that replaces what the editors were shown.
Remember(c, before) ==
    LET me == client[c].me
        sent == client[c].token
    IN IF client[c].guard = {}
       THEN wild' = wild \cup {me} /\ UNCHANGED <<wins, lost>>
       ELSE /\ wins' = wins \cup {<<me, g, sent[g]>> : g \in client[c].guard}
            /\ lost' = IF before = client[c].seen THEN lost
                       ELSE lost \cup {[by |-> me, replaced |-> before, seen |-> client[c].seen,
                                       source |-> client[c].source]}
            /\ UNCHANGED wild

\* A slip: the version is not counted up.
SavedSameVersion(c, legacy) ==
    row' = [version |-> row.version, stamp |-> client[c].me, legacy |-> legacy]

\* write_with_version_lock: the guard is part of the UPDATE, which counts the version up.
Saved(c, legacy) ==
    row' = [version |-> row.version + 1, stamp |-> client[c].me, legacy |-> legacy]

\* replace_case_standard_steps: the rows, and the column from what the rows then are.
PutCase(c) ==
    /\ At(c, "put", "write") /\ kind = "case" /\ row # NoRow /\ Matches(c)
    /\ \E contents \in Written(c) : rows' \in Replacements(c, contents)
    /\ Saved(c, Contents(rows'))
    /\ Remember(c, Shown(row.legacy, rows))
    /\ Committed(c, rows')
    /\ UNCHANGED <<kind, made>>

\* A slip: the rows that were replaced before the comparison are not rolled back.
PutRefusedHalfWritten(c) ==
    /\ At(c, "put", "write") /\ (row # NoRow => ~Matches(c))
    /\ rows' \in IF kind = "case" THEN Replacements(c, {client[c].me}) ELSE {rows}
    /\ Ends(c)
    /\ UNCHANGED <<kind, row, made, wild, wins, lost>>

\* No row matched: 409, or 404 if it is gone.  The rows were replaced before the
\* comparison and are rolled back.
PutRefused(c) ==
    /\ At(c, "put", "write") /\ (row # NoRow => ~Matches(c))
    /\ Ends(c)
    /\ UNCHANGED <<kind, row, rows, made, wild, wins, lost>>

\* update_scenario_steps compares first; the rows are then selected under the write lock,
\* and the new ones inserted before those are deleted.
PutScenario(c) ==
    /\ At(c, "put", "write") /\ kind = "scenario" /\ row # NoRow /\ Matches(c)
    /\ \E contents \in Written(c), id \in RowIds \ Keys(rows) : rows' = contents \X {id}
    /\ Saved(c, {})
    /\ Remember(c, Contents(rows))
    /\ Committed(c, rows')
    /\ UNCHANGED <<kind, made>>

\* The writes of the ORM: the version counted up from the one that was loaded.
WrittenOver(c, legacy) ==
    row' = [version |-> client[c].loaded.version + 1, stamp |-> client[c].me, legacy |-> legacy]

\* update_test_case, first transaction: the column.
UpdateCase(c) ==
    /\ At(c, "update", "write") /\ row # NoRow
    /\ \E contents \in Written(c) : WrittenOver(c, contents)
    /\ wild' = wild \cup {client[c].me}
    /\ Update(c, [client[c] EXCEPT !.pc = "refresh"])
    /\ UNCHANGED <<kind, rows, made, wins, lost>>

\* ... its refresh, which may load what another request has written since.
RefreshCase(c) ==
    /\ At(c, "update", "refresh")
    /\ IF row = NoRow
       THEN Ends(c)
       ELSE Update(c, [client[c] EXCEPT !.pc = "old", !.legacy = row.legacy])
    /\ UNCHANGED <<kind, row, rows, made, wild, wins, lost>>

\* Rows are written from the column: the second transaction of an update, and the
\* migration by a GET, which changes no version.
CopySteps(c) ==
    /\ client[c].pc = "copy"
    /\ rows' \in Replacements(c, client[c].legacy)
    /\ wild' = wild \cup {client[c].me}
    /\ IF client[c].op = "update"
       THEN Update(c, [client[c] EXCEPT !.pc = "row", !.legacy = {}, !.old = {}])
       ELSE Committed(c, rows')
    /\ UNCHANGED <<kind, row, made, wins, lost>>

\* sync_case_standard_steps_from_legacy: rows from the column, the version set from the
\* one loaded.
SyncCase(c) ==
    /\ At(c, "sync", "write") /\ row # NoRow
    /\ rows' \in Replacements(c, client[c].legacy)
    /\ WrittenOver(c, row.legacy)
    /\ wild' = wild \cup {client[c].me}
    /\ Committed(c, rows')
    /\ UNCHANGED <<kind, made, wins, lost>>

\* update_scenario: name and description; the version is left as it is.
RenameScenario(c) ==
    /\ At(c, "rename", "write") /\ row # NoRow
    /\ row' = [row EXCEPT !.stamp = client[c].me]
    /\ Ends(c)
    /\ UNCHANGED <<kind, rows, made, wild, wins, lost>>

\* delete_test_case, delete_scenario: with the rows selected before.
Delete(c) ==
    /\ At(c, "delete", "write") /\ row # NoRow
    /\ row' = NoRow
    /\ rows' = Remaining(c)
    /\ Ends(c)
    /\ UNCHANGED <<kind, made, wild, wins, lost>>

\* The row is gone: the UPDATE or DELETE of the ORM fails and is rolled back.
WriteFails(c) ==
    /\ client[c].pc = "write" /\ client[c].op # "put" /\ row = NoRow
    /\ Ends(c)
    /\ UNCHANGED <<kind, row, rows, made, wild, wins, lost>>

-----------------------------------------------------------------------------
(* The answer is read from the database again, since the commit expired      *)
(* what the session had loaded.                                              *)

\* The answer for a scenario holds the token and the number of steps only; that for a case
\* holds the steps too.
AnswerToken(c) ==
    /\ client[c].pc = "answer"
    /\ IF row = NoRow THEN Ends(c)
       ELSE IF kind = "case"
       THEN Update(c, [client[c] EXCEPT !.pc = "saved", !.loaded = TokenOf(row)])
       ELSE Knows(c, TokenOf(row), IF client[c].saved = {} THEN {} ELSE {client[c].me}, "answer")
    /\ UNCHANGED <<kind, row, rows, made, wild, wins, lost>>

\* The saved rows are loaded by their keys: the answer fails if one is gone, and shows what
\* another has put there if it was handed out again.  Of no rows none can be gone.
AnswerSteps(c) ==
    /\ client[c].pc = "saved"
    /\ LET kept == {r \in rows : r[2] \in client[c].saved}
       IN  IF Keys(kept) = client[c].saved
           THEN Knows(c, client[c].loaded, Contents(kept), "answer")
           ELSE Ends(c)
    /\ UNCHANGED <<kind, row, rows, made, wild, wins, lost>>

-----------------------------------------------------------------------------
Next ==
    \E c \in Clients :
        \/ \E op \in Operations, g \in Guards[c] \cup {{}} : Begin(c, op, g)
        \/ ReadToken(c) \/ ReadSteps(c) \/ LoadSteps(c) \/ ReadOld(c)
        \/ PutCase(c) \/ PutScenario(c) \/ PutRefused(c)
        \/ UpdateCase(c) \/ RefreshCase(c) \/ CopySteps(c) \/ SyncCase(c)
        \/ RenameScenario(c) \/ Delete(c) \/ WriteFails(c)
        \/ AnswerToken(c) \/ AnswerSteps(c)

Spec == Init /\ [][Next]_vars

-----------------------------------------------------------------------------
(* The type of every variable; versions start at one and rows hold contents. *)
TypeOK ==
    /\ kind \in {"case", "scenario"}
    /\ row \in Rows \cup {NoRow}
    /\ rows \subseteq Numbers \X RowIds
    /\ client \in [Clients -> ClientStates]
    /\ made \in Numbers
    /\ wild \subseteq Ids
    /\ wins \subseteq Numbers \X {"version", "stamp"} \X Nat
    /\ lost \subseteq Losses

(* A save that compares its token replaces only what its editor was shown    *)
(* with it, although token and steps are read one after the other (the 409 of *)
(* version_lock.py asks editors to pull again and then save): of a case as    *)
(* long as nobody writes without a token, of a scenario always.  Excepted is  *)
(* a token that came with the answer to a save and was not read together with *)
(* the steps: of a scenario, and of a case whose steps the save had emptied.  *)
NoLostUpdate ==
    wild = {} \/ kind = "scenario" =>
        \A l \in lost : l.source = "answer" /\ (kind = "case" => l.seen = {})

(* Saves that were sent with the same token do not both succeed, whichever   *)
(* token it is; for scenarios even if others write without one.              *)
OneWinnerPerToken ==
    wild = {} \/ kind = "scenario" =>
        \A a, b \in wins : a[2] = b[2] /\ a[3] = b[3] => a = b

(* Column and rows of a case say the same, so a save is written to both or,   *)
(* if it is refused, to neither (replace_case_standard_steps); only a case    *)
(* that nobody has saved may still lack its rows.                             *)
CopiesAgree ==
    kind = "case" /\ row # NoRow /\ wild = {} =>
        row.legacy = Contents(rows) \/ (rows = {} /\ row.version = 1)

(* A save reaches both copies of the steps or neither, with the types of the  *)
(* variables.                                                                *)
CopiesInOrder == TypeOK /\ CopiesAgree

(* The answer to a save carries the token for the next one                   *)
(* (version_lock.py:22), so an editor that goes on with it overwrites nothing *)
(* it has not seen.                                                           *)
AnswerCarriesOwnToken == wild = {} => lost = {}

(* What update_test_case wrote is not overwritten by a save of the steps      *)
(* with an older token (the comment at cases.py:805).                         *)
UpdateIsProtected ==
    \A l \in lost : l.replaced \cap wild = {}

=============================================================================
