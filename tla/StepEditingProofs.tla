-------------------------- MODULE StepEditingProofs --------------------------
(***************************************************************************)
(* Proofs about StepEditing: with the optimistic lock a save replaces only  *)
(* what its editor was shown together with the token, and no token is good  *)
(* for two saves, for any number of editors, requests and keys.             *)
(***************************************************************************)
EXTENDS StepEditing, TLAPS

-----------------------------------------------------------------------------
(* The inductive invariant.                                                *)

\* Requests that write are numbered; a GET has the name of its client.
Numbering ==
    \A c \in Clients :
        /\ client[c].op \in Writing => client[c].me \in 1 .. made
        /\ client[c].op \notin Writing => client[c].me = c
        /\ \A d \in Clients : c # d => client[c].me # client[d].me
        /\ client[c].op \in {"load", "update", "sync"} => kind = "case"
        /\ client[c].op = "rename" => kind = "scenario"
        /\ client[c].pc \in {"idle", "row", "steps"} => client[c].op # "put"
        /\ client[c].pc = "row" => client[c].op # "load"
        /\ client[c].pc \in {"write", "refresh"} => client[c].op \in Writing
        /\ client[c].pc \in {"old", "answer", "saved"} => client[c].op # "view"
        /\ client[c].pc = "copy" => client[c].op \in {"load", "update"}
        /\ client[c].guard # {} => client[c].op = "put" /\ client[c].token.version # 0

\* The time stamps that the row, a token or a save that won carries.
Used ==
    {n \in Nat :
        \/ row # NoRow /\ row.stamp = n
        \/ \E d \in Clients : n \in {client[d].token.stamp, client[d].loaded.stamp}
        \/ \E a \in wins : a[2] = "stamp" /\ a[3] = n}

\* Request c has not written its number yet.
Unwritten(c) ==
    \/ client[c].pc = "write"
    \/ client[c].pc = "old" /\ client[c].op # "update"

\* Time stamps are numbers of requests that have written.
Stamps ==
    /\ \A n \in Used : n <= made
    /\ \A c \in Clients :
          Unwritten(c) /\ client[c].op \in Writing => client[c].me \notin Used

\* A token that a save has won with is not the row's any more.
Spent ==
    wild = {} \/ kind = "scenario" =>
        /\ \A a, b \in wins : a[2] = b[2] /\ a[3] = b[3] => a = b
        /\ row # NoRow =>
               \A a \in wins : /\ a[2] = "version" => a[3] < row.version
                               /\ a[2] = "stamp" => a[3] # row.stamp

\* No token is ahead of the row, and one that has its time stamp has its version.
Whole(t) ==
    t.version # 0 => /\ t.version <= row.version
                     /\ t.stamp = row.stamp => t.version = row.version

\* The editor has read the steps after its token, or with it in the answer to a save.
Informed(s) == s.source = "read" \/ (kind = "case" /\ s.source = "answer" /\ s.seen # {})

\* What client c knows, or is about to know, if its token is the row's.
Current(c) ==
    LET s == client[c]
    IN  /\ Whole(s.token) /\ Whole(s.loaded)
        /\ s.pc # "steps" \/ s.op = "load" =>
               /\ s.token.version # 0 => s.source # "none"
               /\ Informed(s) /\ s.token.version = row.version =>
                      s.seen = Shown(row.legacy, rows)
        /\ s.pc = "steps" /\ s.op # "load" =>
               /\ s.token.version # 0
               /\ s.token.version = row.version => s.legacy = row.legacy
        /\ s.pc = "steps" /\ s.op = "load" =>
               /\ s.loaded.version # 0
               /\ s.loaded.version = row.version => s.legacy = row.legacy
        /\ kind = "case" /\ s.op = "put" /\ s.pc = "write" /\ s.token.version = row.version =>
               s.old = Keys(rows)

\* The rows come from one save; a case that was saved has the same steps in its column,
\* which a scenario does not have.
Stored ==
    /\ kind = "case" => /\ row.legacy = Contents(rows) \/ (rows = {} /\ row.version = 1)
                        /\ \A r, q \in rows : r[2] = q[2]
    /\ kind = "scenario" => row.legacy = {}

\* A case that nobody has written without a token, or a scenario.
Guarded ==
    wild = {} \/ kind = "scenario" =>
        /\ \A l \in lost : l.source = "answer" /\ (kind = "case" => l.seen = {})
        /\ row # NoRow => row.version # 0 /\ Stored /\ \A c \in Clients : Current(c)

IInv == TypeOK /\ Numbering /\ Stamps /\ Spent /\ Guarded

-----------------------------------------------------------------------------
(* Types.                                                                  *)

\* What is written lies within the bound on requests.
LEMMA NumbersOf ==
    ASSUME TypeOK, Numbering, NEW c \in Clients
    PROVE  /\ client[c] \in ClientStates
           /\ Fresh(c) \in ClientStates
           /\ made \in Nat /\ made <= MaxWrites /\ made \in Numbers
           /\ client[c].op \in Writing => client[c].me \in Numbers
           /\ Contents(rows) \subseteq Numbers
           /\ row # NoRow => row \in Rows /\ TokenOf(row) \in Tokens
<1>1. client[c] \in ClientStates
  BY DEF TypeOK
<1>2. Fresh(c) \in ClientStates
  BY EditingAssumption DEF Fresh, ClientStates, Points, AllOperations, Tokens, NoToken, Numbers, Ids,
     Sources
<1>3. made \in Nat /\ made <= MaxWrites /\ made \in Numbers
  BY EditingAssumption DEF TypeOK, Numbers
<1>4. client[c].op \in Writing => client[c].me \in Numbers
  BY <1>3, EditingAssumption DEF Numbering, Numbers
<1>5. Contents(rows) \subseteq Numbers
  BY DEF TypeOK, Contents
<1>7. row # NoRow => row \in Rows /\ TokenOf(row) \in Tokens
  BY DEF TypeOK, Rows, TokenOf, Tokens
<1> QED
  BY <1>1, <1>2, <1>3, <1>4, <1>5, <1>7

\* Setting the state of one client.
LEMMA UpdateType ==
    ASSUME TypeOK, NEW c \in Clients, NEW f \in ClientStates, Update(c, f)
    PROVE  client' \in [Clients -> ClientStates]
BY DEF Update, TypeOK

\* A request that is over leaves a client of the right type ...
LEMMA KnowsType ==
    ASSUME TypeOK, Numbering, NEW c \in Clients, NEW token \in Tokens, NEW seen \in SUBSET Numbers,
           NEW source \in Sources, Knows(c, token, seen, source)
    PROVE  client' \in [Clients -> ClientStates]
<1>1. [Fresh(c) EXCEPT !.token = token, !.seen = seen, !.source = source] \in ClientStates
  BY NumbersOf DEF ClientStates
<1> QED
  BY <1>1, UpdateType DEF Knows

LEMMA EndsType ==
    ASSUME TypeOK, Numbering, NEW c \in Clients, Ends(c)
    PROVE  client' \in [Clients -> ClientStates]
<1>1. /\ client[c].token \in Tokens /\ client[c].seen \in SUBSET Numbers
      /\ client[c].source \in Sources
  BY NumbersOf DEF ClientStates
<1> QED
  BY <1>1, KnowsType DEF Ends

\* ... and so does one that has committed.
LEMMA CommittedType ==
    ASSUME TypeOK, Numbering, NEW c \in Clients, NEW set \in SUBSET (Numbers \X RowIds),
           Committed(c, set)
    PROVE  client' \in [Clients -> ClientStates]
<1>1. client[c] \in ClientStates /\ NoToken \in Tokens
  BY NumbersOf, EditingAssumption DEF NoToken, Tokens, Numbers
<1>2. Keys(set) \in SUBSET RowIds
  BY DEF Keys
<1>3. PICK g \in ClientStates :
         g = [client[c] EXCEPT !.pc = "answer", !.saved = Keys(set), !.guard = {}]
  BY <1>1, <1>2 DEF ClientStates, Points
<1>4. [g EXCEPT !.loaded = NoToken, !.legacy = {}, !.old = {}] \in ClientStates
  BY <1>1 DEF ClientStates
<1> QED
  BY <1>3, <1>4, UpdateType DEF Committed

\* What a save leaves with the contents t.
LEMMA ReplacedType ==
    ASSUME TypeOK, NEW c \in Clients, NEW t \in SUBSET Numbers, rows' \in Replacements(c, t)
    PROVE  /\ rows' \in SUBSET (Numbers \X RowIds)
           /\ Contents(rows') \in SUBSET Numbers
<1>1. PICK id \in RowIds : rows' = Remaining(c) \cup (t \X {id})
  BY DEF Replacements
<1>2. Remaining(c) \subseteq Numbers \X RowIds
  BY DEF Remaining, TypeOK
<1>3. rows' \in SUBSET (Numbers \X RowIds)
  BY <1>1, <1>2
<1> QED
  BY <1>3 DEF Contents

\* A request writes its number or nothing.
LEMMA WrittenType ==
    ASSUME TypeOK, Numbering, NEW c \in Clients, client[c].op \in Writing, NEW t \in Written(c)
    PROVE  t \in SUBSET Numbers
BY NumbersOf DEF Written

\* The history keeps its type.
LEMMA RememberType ==
    ASSUME TypeOK, Numbering, NEW c \in Clients, client[c].op \in Writing,
           NEW before \in SUBSET Numbers, Remember(c, before)
    PROVE  /\ wild' \subseteq Ids
           /\ wins' \subseteq Numbers \X {"version", "stamp"} \X Nat
           /\ lost' \subseteq Losses
<1> DEFINE me == client[c].me
           sent == client[c].token
<1>1. me \in Numbers /\ sent \in Tokens /\ client[c].guard \subseteq {"version", "stamp"}
  BY NumbersOf DEF ClientStates
<1>2. sent["version"] \in Nat /\ sent["stamp"] \in Nat
  BY <1>1 DEF Tokens, Numbers
<1>3. CASE client[c].guard = {}
  <2>1. wild' = wild \cup {me} /\ wins' = wins /\ lost' = lost
    BY <1>3 DEF Remember
  <2>2. /\ wild \subseteq Ids
        /\ wins \subseteq Numbers \X {"version", "stamp"} \X Nat
        /\ lost \subseteq Losses
    BY DEF TypeOK
  <2> HIDE DEF me, sent
  <2> QED
    BY <1>1, <2>1, <2>2 DEF Ids
<1>4. CASE client[c].guard # {}
  <2>1. /\ wins' = wins \cup {<<me, g, sent[g]>> : g \in client[c].guard}
        /\ lost' = IF before = client[c].seen THEN lost
                   ELSE lost \cup {[by |-> me, replaced |-> before, seen |-> client[c].seen,
                                   source |-> client[c].source]}
        /\ wild' = wild
    BY <1>4 DEF Remember
  <2>3. client[c].seen \in SUBSET Numbers /\ client[c].source \in Sources
    BY NumbersOf DEF ClientStates
  <2>4. lost' \subseteq Losses
    BY <1>1, <2>1, <2>3 DEF TypeOK, Losses
  <2>2. \A g \in client[c].guard : g \in {"version", "stamp"} /\ sent[g] \in Nat
    BY <1>1, <1>2
  <2> HIDE DEF me, sent
  <2> QED
    BY <1>1, <2>1, <2>2, <2>4 DEF TypeOK
<1> QED
  BY <1>3, <1>4

LEMMA TypeStep ==
    ASSUME TypeOK, Numbering, [Next]_vars
    PROVE  TypeOK'
<1>1. ASSUME NEW c \in Clients, NEW op \in Operations, NEW g \in Guards[c] \cup {{}},
             Begin(c, op, g)
      PROVE  TypeOK'
  <2>1. /\ client[c] \in ClientStates
        /\ made + 1 \in Nat
        /\ row \in Rows /\ TokenOf(row) \in Tokens
    BY <1>1, NumbersOf DEF Begin
  <2>2. made' \in Numbers
    BY <1>1, NumbersOf, EditingAssumption DEF Begin, Numbers
  <2>3. /\ FirstPoint(op) \in Points
        /\ op \in AllOperations
        /\ g \in SUBSET {"version", "stamp"}
        /\ (IF op \in Writing THEN made + 1 ELSE c) \in Ids
        /\ (IF op \in {"load", "sync"} THEN row.legacy ELSE {}) \in SUBSET Numbers
    BY <1>1, <2>1, <2>2, EditingAssumption DEF Begin, FirstPoint, Points, Ids, Rows
  <2>4. PICK f \in ClientStates :
           f = [client[c] EXCEPT !.pc = FirstPoint(op), !.op = op, !.guard = g]
    BY <2>1, <2>3 DEF ClientStates
  <2>5. [f EXCEPT !.me = IF op \in Writing THEN made + 1 ELSE c,
                  !.loaded = TokenOf(row),
                  !.legacy = IF op \in {"load", "sync"} THEN row.legacy ELSE {}] \in ClientStates
    BY <2>1, <2>3 DEF ClientStates
  <2>6. client' \in [Clients -> ClientStates]
    BY <1>1, <2>4, <2>5, UpdateType DEF Begin
  <2> QED
    BY <1>1, <2>2, <2>6 DEF Begin, TypeOK
<1>2. ASSUME NEW c \in Clients, ReadToken(c)
      PROVE  TypeOK'
  <2>1. client[c] \in ClientStates
    BY NumbersOf
  <2>2. CASE row = NoRow
    BY <1>2, <2>2, EndsType DEF ReadToken, TypeOK
  <2>3. CASE row # NoRow
    <3>1. [client[c] EXCEPT !.pc = "steps", !.legacy = row.legacy, !.token = TokenOf(row)] \in ClientStates
      BY <2>1, <2>3, NumbersOf DEF ClientStates, Points, Rows
    <3> QED
      BY <1>2, <2>3, <3>1, UpdateType DEF ReadToken, TypeOK
  <2> QED
    BY <2>2, <2>3
<1>3. ASSUME NEW c \in Clients, ReadSteps(c)
      PROVE  TypeOK'
  <2>1. client[c] \in ClientStates
    BY NumbersOf
  <2>2. Shown(client[c].legacy, rows) \in SUBSET Numbers /\ client[c].token \in Tokens
    BY <2>1, NumbersOf DEF Shown, ClientStates
  <2> QED
    BY <1>3, <2>2, KnowsType DEF ReadSteps, TypeOK, Sources
<1>4. ASSUME NEW c \in Clients, LoadSteps(c)
      PROVE  TypeOK'
  <2>1. client[c] \in ClientStates
    BY NumbersOf
  <2>2. [client[c] EXCEPT !.pc = "old"] \in ClientStates /\ client[c].loaded \in Tokens
    BY <2>1 DEF ClientStates, Points
  <2>3. Contents(rows) \in SUBSET Numbers
    BY NumbersOf
  <2> QED
    BY <1>4, <2>2, <2>3, KnowsType, UpdateType DEF LoadSteps, TypeOK, Sources
<1>5. ASSUME NEW c \in Clients, ReadOld(c)
      PROVE  TypeOK'
  <2>1. client[c] \in ClientStates
    BY NumbersOf
  <2>3. Keys(rows) \in SUBSET RowIds
    BY DEF Keys, TypeOK
  <2>2. [client[c] EXCEPT !.old = Keys(rows),
                     !.pc = IF client[c].op \in {"load", "update"} THEN "copy" ELSE "write"] \in ClientStates
    BY <2>1, <2>3, ZenonT(30) DEF ClientStates, Points
  <2> QED
    BY <1>5, <2>2, UpdateType DEF ReadOld, TypeOK
<1>6. ASSUME NEW c \in Clients, PutCase(c)
      PROVE  TypeOK'
  <2>2. client[c].op \in Writing /\ client[c].me \in Numbers
    BY <1>6, NumbersOf DEF PutCase, At, Writing, AllOperations
  <2>3. /\ rows' \in SUBSET (Numbers \X RowIds)
        /\ Contents(rows') \in SUBSET Numbers
    <3>1. PICK t \in Written(c) : rows' \in Replacements(c, t)
      BY <1>6 DEF PutCase
    <3> QED
      BY <2>2, <3>1, WrittenType, ReplacedType
  <2>4. row' \in Rows
    <3>1. row.version \in Nat
      BY <1>6, NumbersOf DEF PutCase, Rows
    <3>2. PICK t \in SUBSET Numbers :
             row' = [version |-> row.version + 1, stamp |-> client[c].me, legacy |-> t]
      BY <1>6, <2>3 DEF PutCase, Saved
    <3> QED
      BY <2>2, <3>1, <3>2 DEF Rows
  <2>5. Shown(row.legacy, rows) \in SUBSET Numbers
    BY <1>6, NumbersOf DEF PutCase, Shown, Rows
  <2>6. /\ wild' \subseteq Ids
        /\ wins' \subseteq Numbers \X {"version", "stamp"} \X Nat
        /\ lost' \subseteq Losses
    BY <1>6, <2>2, <2>5, RememberType DEF PutCase
  <2>7. client' \in [Clients -> ClientStates]
    BY <1>6, <2>3, CommittedType DEF PutCase
  <2> QED
    BY <1>6, <2>3, <2>4, <2>6, <2>7 DEF PutCase, TypeOK
<1>7. ASSUME NEW c \in Clients, PutScenario(c)
      PROVE  TypeOK'
  <2>2. client[c].op \in Writing /\ client[c].me \in Numbers
    BY <1>7, NumbersOf DEF PutScenario, At, Writing, AllOperations
  <2>3. rows' \in SUBSET (Numbers \X RowIds)
    <3>1. PICK t \in Written(c), id \in RowIds : rows' = t \X {id}
      BY <1>7 DEF PutScenario
    <3> QED
      BY <2>2, <3>1, WrittenType
  <2>4. row' \in Rows
    BY <1>7, <2>2, NumbersOf DEF PutScenario, Saved, Rows
  <2>5. Contents(rows) \in SUBSET Numbers
    BY NumbersOf
  <2>6. /\ wild' \subseteq Ids
        /\ wins' \subseteq Numbers \X {"version", "stamp"} \X Nat
        /\ lost' \subseteq Losses
    BY <1>7, <2>2, <2>5, RememberType DEF PutScenario
  <2>7. client' \in [Clients -> ClientStates]
    BY <1>7, <2>3, CommittedType DEF PutScenario
  <2> QED
    BY <1>7, <2>3, <2>4, <2>6, <2>7 DEF PutScenario, TypeOK
<1>8. ASSUME NEW c \in Clients, PutRefused(c)
      PROVE  TypeOK'
  <2> QED
    BY <1>8, EndsType DEF PutRefused, TypeOK
<1>9. ASSUME NEW c \in Clients, UpdateCase(c)
      PROVE  TypeOK'
  <2>1. client[c] \in ClientStates
    BY NumbersOf
  <2>2. client[c].me \in Numbers /\ client[c].loaded \in Tokens
    BY <1>9, <2>1, NumbersOf DEF UpdateCase, At, Writing, AllOperations, ClientStates
  <2>3. row' \in Rows
    <3>1. PICK t \in Written(c) : WrittenOver(c, t)
      BY <1>9 DEF UpdateCase
    <3> QED
      BY <2>2, <3>1 DEF Written, WrittenOver, Rows, Tokens
  <2>4. [client[c] EXCEPT !.pc = "refresh"] \in ClientStates
    BY <2>1 DEF ClientStates, Points
  <2> QED
    BY <1>9, <2>2, <2>3, <2>4, UpdateType DEF UpdateCase, TypeOK, Ids
<1>10. ASSUME NEW c \in Clients, RefreshCase(c)
      PROVE  TypeOK'
  <2>1. client[c] \in ClientStates
    BY NumbersOf
  <2>2. CASE row = NoRow
    BY <1>10, <2>2, EndsType DEF RefreshCase, TypeOK
  <2>3. CASE row # NoRow
    <3>1. [client[c] EXCEPT !.pc = "old", !.legacy = row.legacy] \in ClientStates
      BY <2>1, <2>3, NumbersOf DEF ClientStates, Points, Rows
    <3> QED
      BY <1>10, <2>3, <3>1, UpdateType DEF RefreshCase, TypeOK
  <2> QED
    BY <2>2, <2>3
<1>11. ASSUME NEW c \in Clients, CopySteps(c)
      PROVE  TypeOK'
  <2>1. client[c] \in ClientStates
    BY NumbersOf
  <2>2. rows' \in SUBSET (Numbers \X RowIds) /\ client[c].me \in Ids
    BY <1>11, <2>1, ReplacedType DEF CopySteps, ClientStates
  <2>3. [client[c] EXCEPT !.pc = "row", !.legacy = {}, !.old = {}] \in ClientStates
    BY <2>1 DEF ClientStates, Points
  <2>4. client' \in [Clients -> ClientStates]
    BY <1>11, <2>2, <2>3, UpdateType, CommittedType DEF CopySteps
  <2> QED
    BY <1>11, <2>2, <2>4 DEF CopySteps, TypeOK
<1>12. ASSUME NEW c \in Clients, SyncCase(c)
      PROVE  TypeOK'
  <2>1. client[c] \in ClientStates
    BY NumbersOf
  <2>2. /\ client[c].me \in Numbers
        /\ client[c].loaded \in Tokens
        /\ client[c].legacy \in SUBSET Numbers
    BY <1>12, <2>1, NumbersOf DEF SyncCase, At, Writing, AllOperations, ClientStates
  <2>3. row' \in Rows
    BY <1>12, <2>2, NumbersOf DEF SyncCase, WrittenOver, Rows, Tokens
  <2>4. rows' \in SUBSET (Numbers \X RowIds)
    BY <1>12, <2>2, ReplacedType DEF SyncCase
  <2>5. client' \in [Clients -> ClientStates]
    BY <1>12, <2>4, CommittedType DEF SyncCase
  <2> QED
    BY <1>12, <2>2, <2>3, <2>4, <2>5 DEF SyncCase, TypeOK, Ids
<1>13. ASSUME NEW c \in Clients, RenameScenario(c)
      PROVE  TypeOK'
  <2>2. client[c].me \in Numbers
    BY <1>13, NumbersOf DEF RenameScenario, At, Writing, AllOperations
  <2>3. row' \in Rows
    BY <1>13, <2>2, NumbersOf DEF RenameScenario, Rows
  <2> QED
    BY <1>13, <2>3, EndsType DEF RenameScenario, TypeOK
<1>14. ASSUME NEW c \in Clients, Delete(c)
      PROVE  TypeOK'
  <2> QED
    BY <1>14, EndsType DEF Delete, TypeOK, Remaining
<1>15. ASSUME NEW c \in Clients, WriteFails(c)
      PROVE  TypeOK'
  <2> QED
    BY <1>15, EndsType DEF WriteFails, TypeOK
<1>16. ASSUME NEW c \in Clients, AnswerToken(c)
      PROVE  TypeOK'
  <2>1. client[c] \in ClientStates
    BY NumbersOf
  <2>2. CASE row = NoRow
    BY <1>16, <2>2, EndsType DEF AnswerToken, TypeOK
  <2>3. CASE row # NoRow /\ kind = "case"
    <3>1. [client[c] EXCEPT !.pc = "saved", !.loaded = TokenOf(row)] \in ClientStates
      BY <2>1, <2>3, NumbersOf DEF ClientStates, Points
    <3> QED
      BY <1>16, <2>3, <3>1, UpdateType DEF AnswerToken, TypeOK
  <2>4. CASE row # NoRow /\ kind # "case"
    <3>1. client[c].op \in AllOperations \ {"view", "load"}
      BY <1>16, <2>1, <2>4 DEF AnswerToken, Numbering, ClientStates
    <3>2. client[c].me \in Numbers
      BY <3>1, NumbersOf DEF Writing
    <3>3. client' \in [Clients -> ClientStates]
      BY <1>16, <2>4, <3>2, NumbersOf, KnowsType DEF AnswerToken, Sources
    <3> QED
      BY <1>16, <3>3 DEF AnswerToken, TypeOK
  <2> QED
    BY <2>2, <2>3, <2>4
<1>17. ASSUME NEW c \in Clients, AnswerSteps(c)
      PROVE  TypeOK'
  <2>1. client[c].loaded \in Tokens
    BY NumbersOf DEF ClientStates
  <2>2. Contents({r \in rows : r[2] \in client[c].saved}) \in SUBSET Numbers
    BY DEF Contents, TypeOK
  <2>3. client' \in [Clients -> ClientStates]
    BY <1>17, <2>1, <2>2, EndsType, KnowsType DEF AnswerSteps, Sources
  <2> QED
    BY <1>17, <2>3 DEF AnswerSteps, TypeOK
<1>18. CASE UNCHANGED vars
  BY <1>18 DEF vars, TypeOK
<1> QED
  BY <1>1, <1>2, <1>3, <1>4, <1>5, <1>6, <1>7, <1>8, <1>9, <1>10, <1>11, <1>12, <1>13, <1>14, <1>15, <1>16, <1>17, <1>18 DEF Next

-----------------------------------------------------------------------------
(* The numbers of requests.                                                *)

\* Only client c changes.
OnlyClient(c) == \A d \in Clients \ {c} : client'[d] = client[d]

\* The request of c is over.
Over(c) ==
    LET t == client'[c]
    IN  /\ t.pc = "idle" /\ t.op = "view" /\ t.me = c /\ t.guard = {}
        /\ t.loaded = NoToken /\ t.old = {} /\ t.saved = {} /\ t.legacy = {}

LEMMA KnowsFrame ==
    ASSUME TypeOK, NEW c \in Clients, NEW token, NEW seen, NEW source,
           Knows(c, token, seen, source)
    PROVE  /\ OnlyClient(c) /\ Over(c)
           /\ client'[c].token = token /\ client'[c].seen = seen /\ client'[c].source = source
<1>1. /\ OnlyClient(c)
      /\ client'[c] = [Fresh(c) EXCEPT !.token = token, !.seen = seen, !.source = source]
  BY DEF Knows, Update, TypeOK, OnlyClient
<1> QED
  BY <1>1 DEF Over, Fresh

LEMMA EndsFrame ==
    ASSUME TypeOK, NEW c \in Clients, Ends(c)
    PROVE  /\ OnlyClient(c) /\ Over(c)
           /\ client'[c].token = client[c].token /\ client'[c].seen = client[c].seen
           /\ client'[c].source = client[c].source
BY KnowsFrame DEF Ends

LEMMA CommittedFrame ==
    ASSUME TypeOK, NEW c \in Clients, NEW set, Committed(c, set)
    PROVE  LET s == client[c]
               t == client'[c]
           IN  /\ OnlyClient(c)
               /\ t.pc = "answer" /\ t.guard = {} /\ t.loaded = NoToken
               /\ t.op = s.op /\ t.me = s.me /\ t.token = s.token /\ t.seen = s.seen
               /\ t.source = s.source
<1>1. /\ OnlyClient(c)
      /\ client'[c] = [client[c] EXCEPT !.pc = "answer", !.saved = Keys(set),
                         !.guard = {}, !.loaded = NoToken, !.legacy = {}, !.old = {}]
      /\ client[c] \in ClientStates
  BY DEF Committed, Update, TypeOK, OnlyClient
<1> QED
  BY <1>1 DEF ClientStates

\* What a request under way keeps.
Kept(c) ==
    LET s == client[c]
        t == client'[c]
    IN  /\ t.op = s.op /\ t.me = s.me
        /\ t.guard = {} \/ (t.guard = s.guard /\ t.token = s.token)

\* A request keeps its number until it is over.
LEMMA NumberingFrame ==
    ASSUME TypeOK, Numbering, NEW c \in Clients, OnlyClient(c), UNCHANGED <<made, kind>>,
           \/ Over(c)
           \/ /\ Kept(c)
              /\ client'[c].pc \in {"idle", "row", "steps"} => client[c].op # "put"
              /\ client'[c].pc = "row" => client[c].op # "load"
              /\ client'[c].pc \in {"write", "refresh"} => client[c].op \in Writing
              /\ client'[c].pc \in {"old", "answer", "saved"} => client[c].op # "view"
              /\ client'[c].pc = "copy" => client[c].op \in {"load", "update"}
    PROVE  Numbering'
<1>1. ASSUME NEW d \in Clients
      PROVE  /\ client'[d].op \in Writing => client'[d].me \in 1 .. made
             /\ client'[d].op \notin Writing => client'[d].me = d
             /\ client'[d].op \in {"load", "update", "sync"} => kind = "case"
             /\ client'[d].op = "rename" => kind = "scenario"
             /\ client'[d].pc \in {"idle", "row", "steps"} => client'[d].op # "put"
             /\ client'[d].pc = "row" => client'[d].op # "load"
             /\ client'[d].pc \in {"write", "refresh"} => client'[d].op \in Writing
             /\ client'[d].pc \in {"old", "answer", "saved"} => client'[d].op # "view"
             /\ client'[d].pc = "copy" => client'[d].op \in {"load", "update"}
             /\ client'[d].guard # {} => client'[d].op = "put" /\ client'[d].token.version # 0
  <2>1. CASE d # c
    BY <2>1 DEF Numbering, OnlyClient
  <2>2. CASE d = c /\ Over(c)
    BY <2>2 DEF Over, Writing
  <2>3. CASE d = c /\ ~Over(c)
    BY <2>3 DEF Kept, Numbering
  <2> QED
    BY <2>1, <2>2, <2>3
<1>2. ASSUME NEW d \in Clients, NEW e \in Clients, d # e
      PROVE  client'[d].me # client'[e].me
  <2>1. \A x \in Clients : client'[x].me = client[x].me \/ client'[x].me = x
    BY DEF OnlyClient, Over, Kept
  <2>2. \A x \in Clients : client[x].me \in 1 .. made \/ client[x].me = x
    BY DEF Numbering
  <2>3. client[d].me # client[e].me
    BY <1>2 DEF Numbering
  <2>4. d \notin 1 .. made /\ e \notin 1 .. made
    BY EditingAssumption
  <2> QED
    BY <1>2, <2>1, <2>2, <2>3, <2>4
<1> QED
  BY <1>1, <1>2 DEF Numbering

\* The time stamps of tokens come from the row.
LEMMA StampsKept ==
    ASSUME TypeOK, Numbering, Stamps, NEW c \in Clients, OnlyClient(c), made' = made,
           row' # NoRow => row # NoRow /\ row'.stamp = row.stamp, wins' = wins,
           \/ client'[c].token.stamp \in {client[c].token.stamp, client[c].loaded.stamp}
           \/ row # NoRow /\ client'[c].token.stamp = row.stamp,
           \/ client'[c].loaded.stamp \in {client[c].loaded.stamp, 0}
           \/ row # NoRow /\ client'[c].loaded.stamp = row.stamp,
           Unwritten(c)' /\ client'[c].op \in Writing =>
               Unwritten(c) /\ client[c].op \in Writing /\ client'[c].me = client[c].me
    PROVE  Stamps'
<1>1. \A n \in Used' : n \in Used \/ n = 0
  BY DEF Used, OnlyClient
<1>2. made \in Nat
  BY NumbersOf
<1>3. \A n \in Used' : n <= made'
  BY <1>1, <1>2 DEF Stamps
<1>4. ASSUME NEW d \in Clients, Unwritten(d)', client'[d].op \in Writing
      PROVE  client'[d].me \notin Used'
  <2>1. Unwritten(d) /\ client[d].op \in Writing /\ client'[d].me = client[d].me
    BY <1>4 DEF OnlyClient, Unwritten
  <2>2. client[d].me # 0 /\ client[d].me \notin Used
    BY <2>1, <1>2 DEF Stamps, Numbering
  <2> QED
    BY <1>1, <2>1, <2>2
<1> QED
  BY <1>3, <1>4 DEF Stamps

\* A request stamps the row with its number, once.
LEMMA StampsWritten ==
    ASSUME TypeOK, Numbering, Stamps, NEW c \in Clients, OnlyClient(c), made' = made,
           client[c].op \in Writing, Unwritten(c), row'.stamp = client[c].me,
           \A a \in wins' : a \in wins \/ (a[2] = "stamp" => a[3] = client[c].token.stamp),
           client'[c].token.stamp = client[c].token.stamp,
           client'[c].loaded.stamp \in {client[c].loaded.stamp, 0},
           ~Unwritten(c)' \/ client'[c].op \notin Writing
    PROVE  Stamps'
<1>1. \A n \in Used' : n \in Used \/ n = 0 \/ n = client[c].me
  BY DEF Used, OnlyClient
<1>2. made \in Nat /\ client[c].me \in 1 .. made
  BY NumbersOf DEF Numbering
<1>3. \A n \in Used' : n <= made'
  BY <1>1, <1>2 DEF Stamps
<1>4. ASSUME NEW d \in Clients, Unwritten(d)', client'[d].op \in Writing
      PROVE  client'[d].me \notin Used'
  <2>1. d # c /\ client'[d] = client[d]
    BY <1>4 DEF OnlyClient
  <2>2. Unwritten(d) /\ client[d].op \in Writing
    BY <1>4, <2>1 DEF Unwritten
  <2>3. client[d].me # 0 /\ client[d].me \notin Used /\ client[d].me # client[c].me
    BY <1>2, <2>1, <2>2 DEF Stamps, Numbering
  <2> QED
    BY <1>1, <2>1, <2>3
<1> QED
  BY <1>3, <1>4 DEF Stamps

-----------------------------------------------------------------------------
(* Steps that write nothing.                                               *)

\* What the others know stays true while the row and the steps stay.
LEMMA QuietStep ==
    ASSUME IInv, NEW c \in Clients, TypeOK', Numbering', OnlyClient(c),
           UNCHANGED <<kind, row, rows, made, wild, wins, lost>>,
           \/ client'[c].token \in {client[c].token, client[c].loaded}
           \/ row # NoRow /\ client'[c].token = TokenOf(row),
           \/ client'[c].loaded \in {client[c].loaded, NoToken}
           \/ row # NoRow /\ client'[c].loaded = TokenOf(row),
           Unwritten(c)' /\ client'[c].op \in Writing =>
               Unwritten(c) /\ client[c].op \in Writing /\ client'[c].me = client[c].me,
           (wild = {} \/ kind = "scenario") /\ row # NoRow => Current(c)'
    PROVE  IInv'
<1>1. Stamps'
  BY StampsKept DEF IInv, TokenOf, NoToken
<1>2. Spent'
  BY DEF IInv, Spent
<1>3. Guarded'
  <2>1. ASSUME wild = {} \/ kind = "scenario", row # NoRow, NEW d \in Clients
        PROVE  Current(d)'
    <3>1. CASE d = c
      BY <2>1, <3>1
    <3>2. CASE d # c
      <4>1. Current(d) /\ client'[d] = client[d]
        BY <2>1, <3>2 DEF IInv, Guarded, OnlyClient
      <4> QED
        BY <4>1 DEF Current, Whole, Informed
    <3> QED
      BY <3>1, <3>2
  <2>2. Stored' = Stored
    BY DEF Stored
  <2> QED
    BY <2>1, <2>2 DEF IInv, Guarded
<1> QED
  BY <1>1, <1>2, <1>3 DEF IInv

\* Each quiet action.  First those that end a request without a new token.
LEMMA EndsStep ==
    ASSUME IInv, TypeOK', NEW c \in Clients, Ends(c), client[c].pc # "steps",
           UNCHANGED <<kind, row, rows, made, wild, wins, lost>>
    PROVE  IInv'
<1>1. /\ OnlyClient(c) /\ Over(c)
      /\ client'[c].token = client[c].token /\ client'[c].seen = client[c].seen
      /\ client'[c].source = client[c].source
  BY EndsFrame DEF IInv
<1>2. Numbering'
  BY <1>1, NumberingFrame DEF IInv
<1>3. ASSUME wild = {} \/ kind = "scenario", row # NoRow
      PROVE  Current(c)'
  BY <1>1, <1>3 DEF IInv, Guarded, Current, Whole, Informed, Over, NoToken
<1>4. client'[c].loaded = NoToken /\ client'[c].op \notin Writing
  BY <1>1 DEF Over, Writing
<1> QED
  BY <1>1, <1>2, <1>3, <1>4, QuietStep DEF IInv

LEMMA ReadTokenStep ==
    ASSUME IInv, TypeOK', NEW c \in Clients, ReadToken(c)
    PROVE  IInv'
<1>1. client[c].pc = "row" /\ UNCHANGED <<kind, row, rows, made, wild, wins, lost>>
  BY DEF ReadToken
<1>2. CASE row = NoRow
  BY <1>1, <1>2, EndsStep DEF ReadToken
<1>3. CASE row # NoRow
  <2>1. /\ client[c] \in ClientStates /\ OnlyClient(c)
        /\ client'[c] = [client[c] EXCEPT !.pc = "steps", !.legacy = row.legacy,
                           !.token = TokenOf(row)]
    BY <1>3, NumbersOf DEF ReadToken, Update, IInv, TypeOK, OnlyClient
  <2>2. /\ client'[c].pc = "steps" /\ client'[c].legacy = row.legacy
        /\ client'[c].token = TokenOf(row) /\ client'[c].loaded = client[c].loaded
        /\ client'[c].op = client[c].op /\ client'[c].me = client[c].me
        /\ client'[c].guard = client[c].guard
    BY <2>1 DEF ClientStates
  <2>3. client[c].op \notin {"put", "load"} /\ client[c].guard = {}
    BY <1>1 DEF IInv, Numbering
  <2>4. Numbering'
    BY <1>1, <2>1, <2>2, <2>3, NumberingFrame DEF IInv, Kept
  <2>5. ASSUME wild = {} \/ kind = "scenario"
        PROVE  Current(c)'
    <3>1. Whole(client[c].loaded) /\ row.version # 0 /\ row.version \in Nat
      BY <1>3, <2>5, NumbersOf DEF IInv, Guarded, Current, Rows
    <3> QED
      BY <1>1, <2>2, <2>3, <3>1 DEF Current, Whole, TokenOf
  <2>6. ~Unwritten(c)'
    BY <2>2 DEF Unwritten
  <2> QED
    BY <1>1, <1>3, <2>1, <2>2, <2>4, <2>5, <2>6, QuietStep
<1> QED
  BY <1>2, <1>3

LEMMA ReadStepsStep ==
    ASSUME IInv, TypeOK', NEW c \in Clients, ReadSteps(c)
    PROVE  IInv'
<1>1. /\ client[c].pc = "steps" /\ client[c].op # "load"
      /\ UNCHANGED <<kind, row, rows, made, wild, wins, lost>>
  BY DEF ReadSteps
<1>2. /\ OnlyClient(c) /\ Over(c) /\ client'[c].token = client[c].token
      /\ client'[c].seen = Shown(client[c].legacy, rows) /\ client'[c].source = "read"
  BY KnowsFrame DEF ReadSteps, IInv
<1>3. Numbering'
  BY <1>1, <1>2, NumberingFrame DEF IInv
<1>4. ASSUME wild = {} \/ kind = "scenario", row # NoRow
      PROVE  Current(c)'
  <2>1. /\ Whole(client[c].token) /\ client[c].token.version # 0
        /\ client[c].token.version = row.version => client[c].legacy = row.legacy
    BY <1>1, <1>4 DEF IInv, Guarded, Current
  <2>2. client[c].token.version = row.version => client'[c].seen = Shown(row.legacy, rows)
    BY <1>2, <2>1
  <2> QED
    BY <1>1, <1>2, <2>1, <2>2 DEF Current, Whole, Over, NoToken
<1>5. client'[c].loaded = NoToken /\ client'[c].op \notin Writing
  BY <1>2 DEF Over, Writing
<1> QED
  BY <1>1, <1>2, <1>3, <1>4, <1>5, QuietStep

LEMMA LoadStepsStep ==
    ASSUME IInv, TypeOK', NEW c \in Clients, LoadSteps(c)
    PROVE  IInv'
<1>1. /\ client[c].pc = "steps" /\ client[c].op = "load"
      /\ UNCHANGED <<kind, row, rows, made, wild, wins, lost>>
  BY DEF LoadSteps, At
<1>2. CASE rows = {} /\ client[c].legacy # {}
  <2>1. /\ client[c] \in ClientStates /\ OnlyClient(c)
        /\ client'[c] = [client[c] EXCEPT !.pc = "old"]
    BY <1>2, NumbersOf DEF LoadSteps, Update, IInv, TypeOK, OnlyClient
  <2>2. /\ client'[c].pc = "old" /\ client'[c].op = client[c].op
        /\ client'[c].me = client[c].me /\ client'[c].guard = client[c].guard
        /\ client'[c].token = client[c].token /\ client'[c].loaded = client[c].loaded
        /\ client'[c].seen = client[c].seen /\ client'[c].source = client[c].source
    BY <2>1 DEF ClientStates
  <2>3. Numbering'
    BY <1>1, <2>1, <2>2, NumberingFrame DEF IInv, Kept
  <2>4. ASSUME wild = {} \/ kind = "scenario", row # NoRow
        PROVE  Current(c)'
    BY <1>1, <2>2, <2>4 DEF IInv, Guarded, Current, Whole, Informed
  <2>5. client'[c].op \notin Writing
    BY <1>1, <2>2 DEF Writing
  <2> QED
    BY <1>1, <2>1, <2>2, <2>3, <2>4, <2>5, QuietStep
<1>3. CASE ~(rows = {} /\ client[c].legacy # {})
  <2>1. /\ OnlyClient(c) /\ Over(c) /\ client'[c].token = client[c].loaded
        /\ client'[c].seen = Contents(rows) /\ client'[c].source = "read"
    BY <1>3, KnowsFrame DEF LoadSteps, IInv
  <2>2. Numbering'
    BY <1>1, <2>1, NumberingFrame DEF IInv
  <2>3. ASSUME wild = {} \/ kind = "scenario", row # NoRow
        PROVE  Current(c)'
    <3>1. /\ Whole(client[c].loaded) /\ client[c].loaded.version # 0
          /\ client[c].loaded.version = row.version => client[c].legacy = row.legacy
      BY <1>1, <2>3 DEF IInv, Guarded, Current
    <3>2. client[c].loaded.version = row.version => Contents(rows) = Shown(row.legacy, rows)
      BY <1>3, <3>1 DEF Shown, Contents
    <3> QED
      BY <1>1, <2>1, <3>1, <3>2 DEF Current, Whole, Over, NoToken
  <2>4. client'[c].loaded = NoToken /\ client'[c].op \notin Writing
    BY <2>1 DEF Over, Writing
  <2> QED
    BY <1>1, <2>1, <2>2, <2>3, <2>4, QuietStep
<1> QED
  BY <1>2, <1>3

LEMMA ReadOldStep ==
    ASSUME IInv, TypeOK', NEW c \in Clients, ReadOld(c)
    PROVE  IInv'
<1>1. client[c].pc = "old" /\ UNCHANGED <<kind, row, rows, made, wild, wins, lost>>
  BY DEF ReadOld
<1>2. /\ client[c] \in ClientStates /\ OnlyClient(c)
      /\ client'[c] = [client[c] EXCEPT !.old = Keys(rows),
                         !.pc = IF client[c].op \in {"load", "update"} THEN "copy" ELSE "write"]
  BY NumbersOf DEF ReadOld, Update, IInv, TypeOK, OnlyClient
<1>3. /\ client'[c].pc = (IF client[c].op \in {"load", "update"} THEN "copy" ELSE "write")
      /\ client'[c].old = Keys(rows) /\ client'[c].op = client[c].op
      /\ client'[c].me = client[c].me /\ client'[c].guard = client[c].guard
      /\ client'[c].token = client[c].token /\ client'[c].loaded = client[c].loaded
      /\ client'[c].seen = client[c].seen /\ client'[c].source = client[c].source
  BY <1>2 DEF ClientStates
<1>4. client[c].op \in AllOperations \ {"view"}
  BY <1>1, <1>2 DEF IInv, Numbering, ClientStates
<1>5. client'[c].pc = "write" => client[c].op \in Writing
  BY <1>3, <1>4 DEF Writing
<1>6. Numbering'
  BY <1>1, <1>2, <1>3, <1>4, <1>5, NumberingFrame DEF IInv, Kept
<1>7. ASSUME wild = {} \/ kind = "scenario", row # NoRow
      PROVE  Current(c)'
  BY <1>1, <1>3, <1>7 DEF IInv, Guarded, Current, Whole, Informed
<1>8. Unwritten(c)' => Unwritten(c)
  BY <1>1, <1>3 DEF Unwritten
<1> QED
  BY <1>1, <1>2, <1>3, <1>6, <1>7, <1>8, QuietStep

LEMMA RefreshCaseStep ==
    ASSUME IInv, TypeOK', NEW c \in Clients, RefreshCase(c)
    PROVE  IInv'
<1>1. /\ client[c].pc = "refresh" /\ client[c].op = "update"
      /\ UNCHANGED <<kind, row, rows, made, wild, wins, lost>>
  BY DEF RefreshCase, At
<1>2. CASE row = NoRow
  BY <1>1, <1>2, EndsStep DEF RefreshCase
<1>3. CASE row # NoRow
  <2>1. /\ client[c] \in ClientStates /\ OnlyClient(c)
        /\ client'[c] = [client[c] EXCEPT !.pc = "old", !.legacy = row.legacy]
    BY <1>3, NumbersOf DEF RefreshCase, Update, IInv, TypeOK, OnlyClient
  <2>2. /\ client'[c].pc = "old" /\ client'[c].op = client[c].op
        /\ client'[c].me = client[c].me /\ client'[c].guard = client[c].guard
        /\ client'[c].token = client[c].token /\ client'[c].loaded = client[c].loaded
        /\ client'[c].seen = client[c].seen /\ client'[c].source = client[c].source
    BY <2>1 DEF ClientStates
  <2>3. Numbering'
    BY <1>1, <2>1, <2>2, NumberingFrame DEF IInv, Kept
  <2>4. ASSUME wild = {} \/ kind = "scenario"
        PROVE  Current(c)'
    BY <1>1, <1>3, <2>2, <2>4 DEF IInv, Guarded, Current, Whole, Informed
  <2>5. ~Unwritten(c)'
    BY <1>1, <2>2 DEF Unwritten
  <2> QED
    BY <1>1, <2>1, <2>2, <2>3, <2>4, <2>5, QuietStep
<1> QED
  BY <1>2, <1>3

LEMMA AnswerTokenStep ==
    ASSUME IInv, TypeOK', NEW c \in Clients, AnswerToken(c)
    PROVE  IInv'
<1>1. client[c].pc = "answer" /\ UNCHANGED <<kind, row, rows, made, wild, wins, lost>>
  BY DEF AnswerToken
<1>2. CASE row = NoRow
  BY <1>1, <1>2, EndsStep DEF AnswerToken
<1>3. CASE row # NoRow /\ kind = "case"
  <2>1. /\ client[c] \in ClientStates /\ OnlyClient(c)
        /\ client'[c] = [client[c] EXCEPT !.pc = "saved", !.loaded = TokenOf(row)]
    BY <1>3, NumbersOf DEF AnswerToken, Update, IInv, TypeOK, OnlyClient
  <2>2. /\ client'[c].pc = "saved" /\ client'[c].loaded = TokenOf(row)
        /\ client'[c].token = client[c].token /\ client'[c].seen = client[c].seen
        /\ client'[c].source = client[c].source /\ client'[c].op = client[c].op
        /\ client'[c].me = client[c].me /\ client'[c].guard = client[c].guard
    BY <2>1 DEF ClientStates
  <2>3. client[c].op # "view"
    BY <1>1 DEF IInv, Numbering
  <2>4. Numbering'
    BY <1>1, <2>1, <2>2, <2>3, NumberingFrame DEF IInv, Kept
  <2>5. ASSUME wild = {} \/ kind = "scenario"
        PROVE  Current(c)'
    <3>1. Current(c) /\ row.version \in Nat
      BY <1>3, <2>5, NumbersOf DEF IInv, Guarded, Rows
    <3> QED
      BY <1>1, <2>2, <3>1 DEF Current, Whole, Informed, TokenOf
  <2>6. ~Unwritten(c)'
    BY <2>2 DEF Unwritten
  <2> QED
    BY <1>1, <1>3, <2>1, <2>2, <2>4, <2>5, <2>6, QuietStep
<1>4. CASE row # NoRow /\ kind # "case"
  <2>1. /\ OnlyClient(c) /\ Over(c) /\ client'[c].token = TokenOf(row)
        /\ client'[c].source = "answer"
    BY <1>4, KnowsFrame DEF AnswerToken, IInv
  <2>2. Numbering'
    BY <1>1, <2>1, NumberingFrame DEF IInv
  <2>3. ASSUME wild = {} \/ kind = "scenario"
        PROVE  Current(c)'
    <3>1. row.version \in Nat
      BY <1>4, NumbersOf DEF IInv, Rows
    <3> QED
      BY <1>1, <1>4, <2>1, <3>1 DEF Current, Whole, Informed, TokenOf, Over, NoToken
  <2>4. client'[c].loaded = NoToken /\ client'[c].op \notin Writing
    BY <2>1 DEF Over, Writing
  <2> QED
    BY <1>1, <1>4, <2>1, <2>2, <2>3, <2>4, QuietStep
<1> QED
  BY <1>2, <1>3, <1>4

LEMMA AnswerStepsStep ==
    ASSUME IInv, TypeOK', NEW c \in Clients, AnswerSteps(c)
    PROVE  IInv'
<1> DEFINE kept == {r \in rows : r[2] \in client[c].saved}
<1>1. client[c].pc = "saved" /\ UNCHANGED <<kind, row, rows, made, wild, wins, lost>>
  BY DEF AnswerSteps
<1>2. CASE Ends(c)
  BY <1>1, <1>2, EndsStep
<1>3. CASE ~Ends(c)
  <2>1. Knows(c, client[c].loaded, Contents(kept), "answer")
    BY <1>3 DEF AnswerSteps
  <2>2. /\ OnlyClient(c) /\ Over(c) /\ client'[c].token = client[c].loaded
        /\ client'[c].seen = Contents(kept) /\ client'[c].source = "answer"
    BY <2>1, KnowsFrame DEF IInv
  <2>3. Numbering'
    BY <1>1, <2>2, NumberingFrame DEF IInv
  <2>4. ASSUME wild = {} \/ kind = "scenario", row # NoRow
        PROVE  Current(c)'
    <3>1. Whole(client[c].loaded)
      BY <2>4 DEF IInv, Guarded, Current
    <3>2. ASSUME kind = "case", Contents(kept) # {}
          PROVE  Contents(kept) = Shown(row.legacy, rows)
      <4>1. \A r, q \in rows : r[2] = q[2]
        BY <2>4, <3>2 DEF IInv, Guarded, Stored
      <4>2. kept # {}
        BY <3>2 DEF Contents
      <4>3. kept = rows
        BY <4>1, <4>2
      <4> QED
        BY <4>2, <4>3 DEF Shown
    <3> QED
      BY <1>1, <2>2, <3>1, <3>2 DEF Current, Whole, Informed, Over, NoToken
  <2>5. client'[c].loaded = NoToken /\ client'[c].op \notin Writing
    BY <2>2 DEF Over, Writing
  <2> QED
    BY <1>1, <2>2, <2>3, <2>4, <2>5, QuietStep
<1> QED
  BY <1>2, <1>3

-----------------------------------------------------------------------------
(* Steps that begin a request or write.                                    *)

LEMMA BeginStep ==
    ASSUME IInv, TypeOK', NEW c \in Clients, NEW op \in Operations,
           NEW g \in Guards[c] \cup {{}}, Begin(c, op, g)
    PROVE  IInv'
<1> DEFINE me == IF op \in Writing THEN made + 1 ELSE c
<1>1. /\ client[c].pc = "idle" /\ TakesPart(op) /\ row # NoRow
      /\ g # {} => op = "put" /\ client[c].token.version # 0
      /\ made' = IF op \in Writing THEN made + 1 ELSE made
      /\ UNCHANGED <<kind, row, rows, wild, wins, lost>>
  BY DEF Begin
<1>2. /\ client[c] \in ClientStates /\ OnlyClient(c) /\ made \in Nat
      /\ client'[c] = [client[c] EXCEPT !.pc = FirstPoint(op), !.op = op, !.guard = g,
                         !.me = me, !.loaded = TokenOf(row),
                         !.legacy = IF op \in {"load", "sync"} THEN row.legacy ELSE {}]
  BY NumbersOf DEF Begin, Update, IInv, TypeOK, OnlyClient
<1> HIDE DEF me
<1>3. /\ client'[c].pc = FirstPoint(op) /\ client'[c].op = op /\ client'[c].guard = g
      /\ client'[c].me = me /\ client'[c].loaded = TokenOf(row)
      /\ client'[c].legacy = IF op \in {"load", "sync"} THEN row.legacy ELSE {}
      /\ client'[c].token = client[c].token /\ client'[c].seen = client[c].seen
      /\ client'[c].source = client[c].source
  BY <1>2 DEF ClientStates
<1>4. /\ op \in AllOperations
      /\ op \in {"load", "update", "sync"} => kind = "case"
      /\ op = "rename" => kind = "scenario"
      /\ op \in Writing => FirstPoint(op) \in {"old", "write"}
      /\ op = "view" => FirstPoint(op) = "row"
      /\ op = "load" => FirstPoint(op) = "steps"
      /\ op = "put" /\ kind = "case" => FirstPoint(op) = "old"
  BY <1>1, EditingAssumption DEF TakesPart, FirstPoint, AllOperations, Writing
<1>5. Numbering'
  <2>1. ASSUME NEW d \in Clients
        PROVE  /\ client'[d].op \in Writing => client'[d].me \in 1 .. made'
               /\ client'[d].op \notin Writing => client'[d].me = d
               /\ client'[d].op \in {"load", "update", "sync"} => kind' = "case"
               /\ client'[d].op = "rename" => kind' = "scenario"
               /\ client'[d].pc \in {"idle", "row", "steps"} => client'[d].op # "put"
               /\ client'[d].pc = "row" => client'[d].op # "load"
               /\ client'[d].pc \in {"write", "refresh"} => client'[d].op \in Writing
               /\ client'[d].pc \in {"old", "answer", "saved"} => client'[d].op # "view"
               /\ client'[d].pc = "copy" => client'[d].op \in {"load", "update"}
               /\ client'[d].guard # {} => client'[d].op = "put" /\ client'[d].token.version # 0
    <3>1. CASE d # c
      <4>1. client'[d] = client[d]
        BY <1>2, <3>1 DEF OnlyClient
      <4>2. client[d].op \in Writing => client[d].me \in 1 .. made'
        BY <1>1, <1>2 DEF IInv, Numbering
      <4> QED
        BY <1>1, <4>1, <4>2 DEF IInv, Numbering
    <3>2. CASE d = c
      <4>1. /\ op \in Writing \/ op \in {"view", "load"}
            /\ {"put", "update", "sync"} \subseteq Writing
            /\ "view" \notin Writing /\ "load" \notin Writing
        BY <1>4 DEF Writing, AllOperations
      <4>2. /\ op \in Writing => me \in 1 .. made'
            /\ op \notin Writing => me = c
        BY <1>1, <1>2 DEF me
      <4> QED
        BY <1>1, <1>3, <1>4, <3>2, <4>1, <4>2
    <3> QED
      BY <3>1, <3>2
  <2>2. ASSUME NEW d \in Clients, NEW e \in Clients, d # e
        PROVE  client'[d].me # client'[e].me
    <3>1. \A x \in Clients : client[x].me \in 1 .. made \/ client[x].me = x
      BY DEF IInv, Numbering
    <3>2. \A x \in Clients : x \notin Nat
      BY EditingAssumption
    <3>3. client[d].me # client[e].me
      BY <2>2 DEF IInv, Numbering
    <3>4. \A x \in Clients : client'[x].me = (IF x = c THEN me ELSE client[x].me)
      BY <1>2, <1>3 DEF OnlyClient
    <3> QED
      BY <1>2, <2>2, <3>1, <3>2, <3>3, <3>4 DEF me
  <2> QED
    BY <2>1, <2>2 DEF Numbering
<1>6. Stamps'
  <2>1. Used' \subseteq Used
    <3>1. \A d \in Clients : /\ client'[d].token = client[d].token
                             /\ client'[d].loaded.stamp \in {client[d].loaded.stamp, row.stamp}
      <4>1. /\ client'[c].token = client[c].token
            /\ client'[c].loaded.stamp = row.stamp
        BY <1>3 DEF TokenOf
      <4>2. \A d \in Clients : d # c => client'[d] = client[d]
        BY <1>2 DEF OnlyClient
      <4> QED
        BY <4>1, <4>2
    <3> QED
      BY <1>1, <3>1 DEF Used
  <2>2. \A n \in Used' : n <= made'
    BY <1>1, <1>2, <2>1 DEF IInv, Stamps, Used
  <2>3. ASSUME NEW d \in Clients, Unwritten(d)', client'[d].op \in Writing
        PROVE  client'[d].me \notin Used'
    <3>1. CASE d # c
      BY <1>2, <2>1, <2>3, <3>1 DEF IInv, Stamps, OnlyClient, Unwritten
    <3>2. CASE d = c
      <4>1. client'[d].me = made + 1
        BY <1>3, <2>3, <3>2 DEF me
      <4> QED
        BY <1>2, <2>1, <4>1 DEF IInv, Stamps
    <3> QED
      BY <3>1, <3>2
  <2> QED
    BY <2>2, <2>3 DEF Stamps
<1>7. Spent'
  BY <1>1 DEF IInv, Spent
<1>8. Guarded'
  <2>1. ASSUME wild = {} \/ kind = "scenario", NEW d \in Clients
        PROVE  Current(d)'
    <3>1. CASE d = c
      <4>1. Current(c) /\ row.version # 0 /\ row.version \in Nat
        BY <1>1, <2>1, NumbersOf DEF IInv, Guarded, Rows
      <4>2. op = "put" /\ kind = "case" => FirstPoint(op) # "write"
        BY <1>4
      <4>5. client[c].pc # "steps"
        BY <1>1
      <4>3. FirstPoint(op) = "steps" => op = "load"
        BY <1>4 DEF AllOperations, Writing
      <4> QED
        BY <1>1, <1>3, <1>4, <3>1, <4>1, <4>2, <4>3, <4>5
           DEF Current, Whole, Informed, TokenOf
    <3>2. CASE d # c
      <4>1. Current(d) /\ client'[d] = client[d]
        BY <1>1, <1>2, <2>1, <3>2 DEF IInv, Guarded, OnlyClient
      <4> QED
        BY <1>1, <4>1 DEF Current, Whole, Informed
    <3> QED
      BY <3>1, <3>2
  <2>2. Stored' = Stored
    BY <1>1 DEF Stored
  <2> QED
    BY <1>1, <2>1, <2>2 DEF IInv, Guarded
<1> QED
  BY <1>5, <1>6, <1>7, <1>8 DEF IInv

\* A save counts the version up and stamps the row with a number not used before.
LEMMA SavedSpends ==
    ASSUME IInv, NEW c \in Clients, row # NoRow, client[c].op \in Writing, Unwritten(c),
           kind' = kind, Matches(c), row'.version = row.version + 1, row'.stamp = client[c].me,
           NEW before, Remember(c, before), client[c].guard = {} => kind = "scenario"
    PROVE  Spent'
<1> DEFINE me == client[c].me
           sent == client[c].token
<1>1. row.version \in Nat /\ client[c] \in ClientStates /\ row.stamp \in Nat
  BY NumbersOf DEF IInv, Rows, Numbers
<1>2. \A a \in wins : a[2] \in {"version", "stamp"} /\ a[3] \in Nat
  BY DEF IInv, TypeOK
<1>3. \A a \in wins : a[2] = "stamp" => a[3] # me
  BY <1>2 DEF IInv, Stamps, Used
<1>4. row.stamp # me
  BY <1>1 DEF IInv, Stamps, Used
<1>5. CASE client[c].guard = {}
  BY <1>1, <1>2, <1>3, <1>5 DEF Remember, IInv, Spent
<1>6. CASE client[c].guard # {}
  <2>1. /\ wins' = wins \cup {<<me, g, sent[g]>> : g \in client[c].guard}
        /\ wild' = wild
    BY <1>6 DEF Remember
  <2>2. \A g \in client[c].guard : \/ g = "version" /\ sent[g] = row.version
                                   \/ g = "stamp" /\ sent[g] = row.stamp
    BY <1>1 DEF Matches, ClientStates
  <2>3. ASSUME wild = {} \/ kind = "scenario"
        PROVE  /\ \A a \in wins : /\ a[2] = "version" => a[3] < row.version
                                  /\ a[2] = "stamp" => a[3] # row.stamp
               /\ \A a, b \in wins : a[2] = b[2] /\ a[3] = b[3] => a = b
    BY <2>3 DEF IInv, Spent
  <2>4. \A a \in wins' : \/ a \in wins
                         \/ a = <<me, "version", row.version>>
                         \/ a = <<me, "stamp", row.stamp>>
    BY <2>1, <2>2
  <2> HIDE DEF me, sent
  <2>5. ASSUME wild = {} \/ kind = "scenario"
        PROVE  \A a \in wins' : /\ a[2] = "version" => a[3] < row.version + 1
                                /\ a[2] = "stamp" => a[3] # me
    BY <1>1, <1>2, <1>3, <1>4, <2>3, <2>4, <2>5
  <2>6. ASSUME wild = {} \/ kind = "scenario", NEW a \in wins', NEW b \in wins',
               a[2] = b[2], a[3] = b[3]
        PROVE  a = b
    <3>1. \A x \in wins' \ wins : \/ x[2] = "version" /\ x[3] = row.version
                                  \/ x[2] = "stamp" /\ x[3] = row.stamp
      BY <2>4
    <3>2. \A x \in wins : /\ x[2] = "version" => x[3] # row.version
                          /\ x[2] = "stamp" => x[3] # row.stamp
      <4>1. \A n \in Nat : n < row.version => n # row.version
        BY <1>1
      <4> QED
        BY <1>2, <2>3, <2>6, <4>1
    <3>3. CASE a \in wins /\ b \in wins
      BY <2>3, <2>6, <3>3
    <3>4. CASE a \in wins' \ wins /\ b \in wins' \ wins
      BY <2>4, <2>6, <3>4
    <3> QED
      BY <2>6, <3>1, <3>2, <3>3, <3>4
  <2>7. row'.version = row.version + 1 /\ row'.stamp = me
    BY DEF me
  <2>8. ASSUME wild' = {} \/ kind' = "scenario"
        PROVE  /\ \A a, b \in wins' : a[2] = b[2] /\ a[3] = b[3] => a = b
               /\ \A a \in wins' : /\ a[2] = "version" => a[3] < row'.version
                                   /\ a[2] = "stamp" => a[3] # row'.stamp
    <3>1. wild = {} \/ kind = "scenario"
      BY <2>1, <2>8
    <3> QED
      BY <2>5, <2>6, <2>7, <3>1
  <2> QED
    BY <2>8 DEF Spent
<1> QED
  BY <1>5, <1>6

\* The numbers and stamps after a save of the steps.
LEMMA PutStep ==
    ASSUME IInv, TypeOK', NEW c \in Clients, At(c, "put", "write"), row # NoRow, Matches(c),
           UNCHANGED <<kind, made>>, NEW set, Committed(c, set),
           NEW legacy, Saved(c, legacy), NEW before, Remember(c, before)
    PROVE  /\ Numbering' /\ Stamps'
           /\ client[c].guard # {} \/ kind = "scenario" => Spent'
<1>1. /\ client[c].op = "put" /\ client[c].pc = "write" /\ Unwritten(c)
      /\ client[c].op \in Writing /\ row'.version = row.version + 1
      /\ row'.stamp = client[c].me
  BY DEF At, Unwritten, Writing, AllOperations, Saved
<1>2. LET s == client[c]
          t == client'[c]
      IN  /\ OnlyClient(c)
          /\ t.pc = "answer" /\ t.guard = {} /\ t.loaded = NoToken
          /\ t.op = s.op /\ t.me = s.me /\ t.token = s.token
  BY CommittedFrame DEF IInv
<1>3. Numbering'
  BY <1>1, <1>2, NumberingFrame DEF IInv, Kept
<1>4. \A a \in wins' : a \in wins \/ (a[2] = "stamp" => a[3] = client[c].token.stamp)
  <2>1. client[c] \in ClientStates
    BY NumbersOf DEF IInv
  <2>2. \A g \in client[c].guard : g = "stamp" => client[c].token[g] = client[c].token.stamp
    BY <2>1 DEF ClientStates, Tokens
  <2> QED
    BY <2>2 DEF Remember
<1>5. Stamps'
  <2>1. ~Unwritten(c)' /\ client'[c].loaded.stamp = 0
    BY <1>2 DEF Unwritten, NoToken
  <2> QED
    BY <1>1, <1>2, <1>4, <2>1, StampsWritten DEF IInv
<1>6. client[c].guard # {} \/ kind = "scenario" => Spent'
  BY <1>1, SavedSpends
<1> QED
  BY <1>3, <1>5, <1>6

\* A guarded save has the row's version as its token ...
LEMMA TokenIsCurrent ==
    ASSUME IInv, wild = {} \/ kind = "scenario", NEW c \in Clients, At(c, "put", "write"),
           row # NoRow, Matches(c), client[c].guard # {}
    PROVE  /\ client[c].token.version = row.version
           /\ client[c].source # "none"
           /\ Informed(client[c]) => client[c].seen = Shown(row.legacy, rows)
           /\ kind = "case" => client[c].old = Keys(rows)
<1>1. /\ client[c].op = "put" /\ client[c].pc = "write"
      /\ client[c].guard \subseteq {"version", "stamp"}
      /\ client[c].token.version # 0
  BY NumbersOf DEF IInv, Numbering, At, ClientStates
<1>2. Current(c)
  BY DEF IInv, Guarded
<1>3. client[c].token.version = row.version
  <2>1. "version" \in client[c].guard \/ "stamp" \in client[c].guard
    BY <1>1
  <2> QED
    BY <1>1, <1>2, <2>1 DEF Matches, Current, Whole
<1> QED
  BY <1>1, <1>2, <1>3 DEF Current

\* ... so it loses nothing that its editor has not seen, unless the token came with an answer.
LEMMA NothingLost ==
    ASSUME IInv, wild = {} \/ kind = "scenario", NEW c \in Clients, At(c, "put", "write"),
           row # NoRow, Matches(c), UNCHANGED kind, Remember(c, Shown(row.legacy, rows))
    PROVE  \A l \in lost' : l.source = "answer" /\ (kind' = "case" => l.seen = {})
<1> DEFINE s == client[c]
<1>1. \A l \in lost : l.source = "answer" /\ (kind = "case" => l.seen = {})
  BY DEF IInv, Guarded
<1>2. CASE s.guard = {}
  BY <1>1, <1>2 DEF Remember
<1>3. CASE s.guard # {}
  <2>1. /\ s.source # "none"
        /\ Informed(s) => s.seen = Shown(row.legacy, rows)
    BY <1>3, TokenIsCurrent
  <2>2. s.source \in {"none", "read", "answer"} /\ kind \in {"case", "scenario"}
    BY NumbersOf DEF IInv, TypeOK, ClientStates, Sources
  <2>3. \A l \in lost' : l \in lost \/ (/\ l.source = s.source /\ l.seen = s.seen
                                        /\ s.seen # Shown(row.legacy, rows))
    BY <1>3 DEF Remember
  <2>4. s.seen # Shown(row.legacy, rows) =>
           s.source = "answer" /\ (kind = "case" => s.seen = {})
    BY <2>1, <2>2 DEF Informed
  <2> HIDE DEF s
  <2> QED
    BY <1>1, <2>3, <2>4
<1> QED
  BY <1>2, <1>3

\* After a save all tokens are behind.
LEMMA TokensBehind ==
    ASSUME IInv, wild = {} \/ kind = "scenario", NEW c \in Clients, At(c, "put", "write"),
           row # NoRow, UNCHANGED kind, NEW set, Committed(c, set), NEW legacy, Saved(c, legacy)
    PROVE  row'.version # 0 /\ row'.legacy = legacy /\ \A d \in Clients : Current(d)'
<1> DEFINE me == client[c].me
<1>1. /\ client[c].op = "put" /\ client[c].pc = "write" /\ client[c].op \in Writing
      /\ row.version \in Nat
      /\ row'.version = row.version + 1 /\ row'.stamp = me /\ row'.legacy = legacy
  BY NumbersOf DEF IInv, At, Writing, AllOperations, Saved, Rows
<1>2. me \in Nat /\ me \notin Used
  BY <1>1, NumbersOf DEF IInv, Numbering, Stamps, Unwritten
<1>3. ASSUME NEW d \in Clients
      PROVE  Current(d)'
  <2>1. client[d].token.stamp # me /\ client[d].loaded.stamp # me
    BY <1>2 DEF Used
  <2>2. client[d].token.version \in Nat /\ client[d].loaded.version \in Nat
    BY NumbersOf DEF IInv, ClientStates, Tokens
  <2>3. Current(d)
    BY DEF IInv, Guarded
  <2>4. /\ client[d].token.version # 0 => client[d].token.version <= row.version
        /\ client[d].loaded.version # 0 => client[d].loaded.version <= row.version
    BY <2>3 DEF Current, Whole
  <2>5. client[d].token.version # row'.version /\ client[d].loaded.version # row'.version
    BY <1>1, <2>2, <2>4
  <2>6. CASE d = c
    <3>1. /\ client'[c].pc = "answer" /\ client'[c].loaded = NoToken
          /\ client'[c].token = client[c].token /\ client'[c].op = client[c].op
          /\ client'[c].source = client[c].source
      BY CommittedFrame DEF IInv
    <3>2. client[c].token.version # 0 => client[c].source # "none"
      BY <1>1, <2>3, <2>6 DEF Current
    <3>3. Whole(client[c].token)'
      BY <1>1, <2>1, <2>2, <2>4, <2>6, <3>1 DEF Whole
    <3> QED
      BY <2>5, <2>6, <3>1, <3>2, <3>3 DEF Current, Whole, NoToken
  <2>7. CASE d # c
    <3>1. client'[d] = client[d]
      BY <2>7, CommittedFrame DEF IInv, OnlyClient
    <3>2. Whole(client[d].token)' /\ Whole(client[d].loaded)'
      BY <1>1, <2>1, <2>2, <2>4, <3>1 DEF Whole
    <3> QED
      BY <2>3, <2>5, <3>1, <3>2 DEF Current
  <2> QED
    BY <2>6, <2>7
<1> QED
  BY <1>1, <1>3

LEMMA PutCaseStep ==
    ASSUME IInv, TypeOK', NEW c \in Clients, PutCase(c)
    PROVE  IInv'
<1>1. /\ At(c, "put", "write") /\ kind = "case" /\ row # NoRow /\ Matches(c)
      /\ Saved(c, Contents(rows'))
      /\ Remember(c, Shown(row.legacy, rows))
      /\ Committed(c, rows')
      /\ UNCHANGED <<kind, made>>
  BY DEF PutCase
<1>2. /\ Numbering' /\ Stamps'
      /\ client[c].guard # {} => Spent'
  BY <1>1, PutStep
<1>3. CASE client[c].guard = {}
  <2>1. wild' # {}
    BY <1>1, <1>3 DEF Remember
  <2> QED
    BY <1>1, <1>2, <2>1 DEF IInv, Spent, Guarded
<1>4. CASE client[c].guard # {}
  <2>1. wild' = wild
    BY <1>1, <1>4 DEF Remember
  <2>2. ASSUME wild = {}
        PROVE  Guarded'
    <3>1. \A l \in lost' : l.source = "answer" /\ (kind' = "case" => l.seen = {})
      BY <1>1, <2>2, NothingLost
    <3>2. /\ row'.version # 0 /\ row'.legacy = Contents(rows')
          /\ \A d \in Clients : Current(d)'
      BY <1>1, <2>2, TokensBehind
    <3>3. client[c].old = Keys(rows)
      BY <1>1, <1>4, <2>2, TokenIsCurrent
    <3>4. Remaining(c) = {}
      BY <3>3 DEF Remaining, Keys
    <3>5. PICK contents \in Written(c) : rows' \in Replacements(c, contents)
      BY DEF PutCase
    <3>6. PICK id \in RowIds : rows' = Remaining(c) \cup (contents \X {id})
      BY <3>5 DEF Replacements
    <3>7. \A r, q \in rows' : r[2] = q[2]
      BY <3>4, <3>6
    <3> QED
      BY <1>1, <3>1, <3>2, <3>7 DEF Guarded, Stored
  <2>3. Guarded'
    BY <1>1, <2>1, <2>2 DEF Guarded
  <2> QED
    BY <1>2, <1>4, <2>3 DEF IInv
<1> QED
  BY <1>3, <1>4

LEMMA PutScenarioStep ==
    ASSUME IInv, TypeOK', NEW c \in Clients, PutScenario(c)
    PROVE  IInv'
<1>1. /\ At(c, "put", "write") /\ kind = "scenario" /\ row # NoRow /\ Matches(c)
      /\ Saved(c, {})
      /\ Remember(c, Contents(rows))
      /\ Committed(c, rows')
      /\ UNCHANGED <<kind, made>>
  BY DEF PutScenario
<1>2. Numbering' /\ Stamps' /\ Spent'
  BY <1>1, PutStep
<1>3. Guarded'
  <2>1. row.legacy = {}
    BY <1>1 DEF IInv, Guarded, Stored
  <2>2. Contents(rows) = Shown(row.legacy, rows)
    BY <2>1 DEF Shown, Contents
  <2>3. \A l \in lost' : l.source = "answer" /\ (kind' = "case" => l.seen = {})
    BY <1>1, <2>2, NothingLost
  <2>4. row'.version # 0 /\ row'.legacy = {} /\ \A d \in Clients : Current(d)'
    BY <1>1, TokensBehind
  <2> QED
    BY <1>1, <2>3, <2>4 DEF Guarded, Stored
<1> QED
  BY <1>2, <1>3 DEF IInv

\* A refused save and a write to a row that is gone change nothing.
LEMMA RefusedStep ==
    ASSUME IInv, TypeOK', NEW c \in Clients, PutRefused(c) \/ WriteFails(c)
    PROVE  IInv'
<1>1. /\ client[c].pc = "write" /\ Ends(c)
      /\ UNCHANGED <<kind, row, rows, made, wild, wins, lost>>
  BY DEF PutRefused, WriteFails, At
<1> QED
  BY <1>1, EndsStep

\* After a write without a token nothing is claimed of a case.
LEMMA WildStep ==
    ASSUME IInv, TypeOK', Numbering', Stamps', kind = "case", kind' = kind, wild' # {}
    PROVE  IInv'
BY DEF IInv, Spent, Guarded

LEMMA UpdateCaseStep ==
    ASSUME IInv, TypeOK', NEW c \in Clients, UpdateCase(c)
    PROVE  IInv'
<1>1. /\ client[c].op = "update" /\ client[c].pc = "write" /\ wild' # {}
      /\ row'.stamp = client[c].me
      /\ UNCHANGED <<kind, rows, made, wins, lost>>
  BY DEF UpdateCase, At, WrittenOver
<1>2. kind = "case" /\ client[c].op \in Writing /\ Unwritten(c)
  BY <1>1 DEF IInv, Numbering, Writing, AllOperations, Unwritten
<1>3. /\ client[c] \in ClientStates /\ OnlyClient(c)
      /\ client'[c] = [client[c] EXCEPT !.pc = "refresh"]
  BY NumbersOf DEF UpdateCase, Update, IInv, TypeOK, OnlyClient
<1>4. /\ client'[c].pc = "refresh" /\ client'[c].op = client[c].op
      /\ client'[c].me = client[c].me /\ client'[c].guard = client[c].guard
      /\ client'[c].token = client[c].token /\ client'[c].loaded = client[c].loaded
  BY <1>3 DEF ClientStates
<1>5. Numbering'
  BY <1>1, <1>2, <1>3, <1>4, NumberingFrame DEF IInv, Kept
<1>6. ~Unwritten(c)'
  BY <1>4 DEF Unwritten
<1>7. Stamps'
  BY <1>1, <1>2, <1>3, <1>4, <1>6, StampsWritten DEF IInv
<1> QED
  BY <1>1, <1>2, <1>5, <1>7, WildStep

LEMMA CopyStepsStep ==
    ASSUME IInv, TypeOK', NEW c \in Clients, CopySteps(c)
    PROVE  IInv'
<1>1. /\ client[c].pc = "copy" /\ wild' # {}
      /\ UNCHANGED <<kind, row, made, wins, lost>>
  BY DEF CopySteps
<1>2. CASE client[c].op = "update"
  <2>1. /\ client[c] \in ClientStates /\ OnlyClient(c)
        /\ client'[c] = [client[c] EXCEPT !.pc = "row", !.legacy = {}, !.old = {}]
    BY <1>2, NumbersOf DEF CopySteps, Update, IInv, TypeOK, OnlyClient
  <2>2. /\ client'[c].pc = "row" /\ client'[c].op = client[c].op
        /\ client'[c].me = client[c].me /\ client'[c].guard = client[c].guard
        /\ client'[c].token = client[c].token /\ client'[c].loaded = client[c].loaded
    BY <2>1 DEF ClientStates
  <2>3. Numbering' /\ kind = "case"
    BY <1>1, <1>2, <2>1, <2>2, NumberingFrame DEF IInv, Numbering, Kept
  <2>4. ~Unwritten(c)'
    BY <2>2 DEF Unwritten
  <2>5. Stamps'
    BY <1>1, <2>1, <2>2, <2>4, StampsKept DEF IInv
  <2> QED
    BY <1>1, <2>3, <2>5, WildStep
<1>3. CASE client[c].op # "update"
  <2>1. /\ OnlyClient(c)
        /\ client'[c].pc = "answer" /\ client'[c].guard = {} /\ client'[c].loaded = NoToken
        /\ client'[c].op = client[c].op /\ client'[c].me = client[c].me
        /\ client'[c].token = client[c].token
    BY <1>3, CommittedFrame DEF CopySteps, IInv
  <2>2. Numbering'
    <3>1. Kept(c) /\ client[c].op # "view"
      BY <1>1, <2>1 DEF IInv, Numbering, Kept
    <3> QED
      BY <1>1, <2>1, <3>1, NumberingFrame DEF IInv
  <2>3. ~Unwritten(c)' /\ client'[c].loaded.stamp = 0
    BY <2>1 DEF Unwritten, NoToken
  <2>4. Stamps'
    BY <1>1, <2>1, <2>3, StampsKept DEF IInv
  <2>5. kind = "case"
    BY <1>1 DEF IInv, Numbering
  <2> QED
    BY <1>1, <2>2, <2>4, <2>5, WildStep
<1> QED
  BY <1>2, <1>3

LEMMA SyncCaseStep ==
    ASSUME IInv, TypeOK', NEW c \in Clients, SyncCase(c)
    PROVE  IInv'
<1>1. /\ client[c].op = "sync" /\ client[c].pc = "write" /\ wild' # {}
      /\ row'.stamp = client[c].me
      /\ UNCHANGED <<kind, made, wins, lost>>
  BY DEF SyncCase, At, WrittenOver
<1>2. kind = "case" /\ client[c].op \in Writing /\ Unwritten(c)
  BY <1>1 DEF IInv, Numbering, Writing, AllOperations, Unwritten
<1>3. /\ OnlyClient(c)
      /\ client'[c].pc = "answer" /\ client'[c].guard = {} /\ client'[c].loaded = NoToken
      /\ client'[c].op = client[c].op /\ client'[c].me = client[c].me
      /\ client'[c].token = client[c].token
  BY CommittedFrame DEF SyncCase, IInv
<1>4. Numbering'
  BY <1>1, <1>2, <1>3, NumberingFrame DEF IInv, Kept
<1>5. ~Unwritten(c)' /\ client'[c].loaded.stamp = 0
  BY <1>3 DEF Unwritten, NoToken
<1>6. Stamps'
  BY <1>1, <1>2, <1>3, <1>5, StampsWritten DEF IInv
<1> QED
  BY <1>1, <1>2, <1>4, <1>6, WildStep

LEMMA RenameScenarioStep ==
    ASSUME IInv, TypeOK', NEW c \in Clients, RenameScenario(c)
    PROVE  IInv'
<1>1. /\ client[c].op = "rename" /\ client[c].pc = "write" /\ row # NoRow
      /\ row' = [row EXCEPT !.stamp = client[c].me]
      /\ UNCHANGED <<kind, rows, made, wild, wins, lost>>
  BY DEF RenameScenario, At
<1>2. client[c].op \in Writing /\ Unwritten(c)
  BY <1>1 DEF Writing, AllOperations, Unwritten
<1>3. /\ OnlyClient(c) /\ Over(c) /\ client'[c].token = client[c].token
      /\ client'[c].seen = client[c].seen /\ client'[c].source = client[c].source
  BY EndsFrame DEF RenameScenario, IInv
<1>4. row'.version = row.version /\ row'.stamp = client[c].me
  BY <1>1, NumbersOf DEF IInv, Rows
<1>5. Numbering'
  BY <1>1, <1>3, NumberingFrame DEF IInv
<1>6. client'[c].op \notin Writing /\ client'[c].loaded.stamp = 0
  BY <1>3 DEF Over, Writing, NoToken
<1>7. Stamps'
  BY <1>1, <1>2, <1>3, <1>4, <1>6, StampsWritten DEF IInv
<1>8. Spent'
  <2>1. \A a \in wins : a[2] = "stamp" => a[3] # client[c].me
    <3>1. \A a \in wins : a[3] \in Nat
      BY DEF IInv, TypeOK
    <3> QED
      BY <1>2, <3>1 DEF IInv, Stamps, Used
  <2> QED
    BY <1>1, <1>4, <2>1 DEF IInv, Spent
<1>9. Guarded'
  <2>1. kind = "scenario"
    BY <1>1 DEF IInv, Numbering
  <2>2. row'.legacy = row.legacy
    BY <1>1, NumbersOf DEF IInv, Rows
  <2>3. ASSUME NEW d \in Clients
        PROVE  Current(d)'
    <3>1. Current(d)
      BY <1>1, <2>1 DEF IInv, Guarded
    <3>2. client[c].me \in Nat /\ client[c].me \notin Used
      BY <1>2, NumbersOf DEF IInv, Numbering, Stamps
    <3>3. client[d].token.stamp # client[c].me /\ client[d].loaded.stamp # client[c].me
      BY <3>2 DEF Used
    <3>4. CASE d = c
      BY <1>1, <1>3, <1>4, <2>1, <2>2, <3>1, <3>3, <3>4
         DEF Current, Whole, Informed, Over, NoToken
    <3>5. CASE d # c
      <4>1. client'[d] = client[d]
        BY <1>3, <3>5 DEF OnlyClient
      <4> QED
        BY <1>1, <1>4, <2>1, <2>2, <3>1, <3>3, <4>1 DEF Current, Whole, Informed
    <3> QED
      BY <3>4, <3>5
  <2> QED
    BY <1>1, <1>4, <2>1, <2>2, <2>3 DEF IInv, Guarded, Stored
<1> QED
  BY <1>5, <1>7, <1>8, <1>9 DEF IInv

LEMMA DeleteStep ==
    ASSUME IInv, TypeOK', NEW c \in Clients, Delete(c)
    PROVE  IInv'
<1>1. row' = NoRow /\ UNCHANGED <<kind, made, wild, wins, lost>>
  BY DEF Delete
<1>2. OnlyClient(c) /\ Over(c) /\ client'[c].token = client[c].token
  BY EndsFrame DEF Delete, IInv
<1>3. Numbering'
  BY <1>1, <1>2, NumberingFrame DEF IInv
<1>4. client'[c].op \notin Writing /\ client'[c].loaded.stamp = 0
  BY <1>2 DEF Over, Writing, NoToken
<1>5. Stamps'
  BY <1>1, <1>2, <1>4, StampsKept DEF IInv
<1> QED
  BY <1>1, <1>3, <1>5 DEF IInv, Spent, Guarded

-----------------------------------------------------------------------------
(* The invariant holds at the start, and every step keeps it.              *)

LEMMA InitIInv ==
    ASSUME Init
    PROVE  IInv
<1>1. /\ kind \in {"case", "scenario"}
      /\ row = [version |-> 1, stamp |-> 0, legacy |-> IF kind = "case" THEN {0} ELSE {}]
      /\ rows \in {{}} \cup {{<<0, id>>} : id \in RowIds}
      /\ kind = "scenario" => rows # {}
      /\ made = 0 /\ wild = {} /\ wins = {} /\ lost = {}
  BY DEF Init
<1>2. \A c \in Clients : client[c] = Fresh(c)
  BY DEF Init
<1>3. \A c \in Clients : Fresh(c) \in ClientStates
  BY EditingAssumption DEF Fresh, ClientStates, Points, AllOperations, Tokens, NoToken, Numbers, Ids,
     Sources
<1>4. row.version = 1 /\ row.stamp = 0 /\ row.legacy = (IF kind = "case" THEN {0} ELSE {})
  BY <1>1
<1>5. TypeOK
  <2>1. 0 \in Numbers
    BY EditingAssumption DEF Numbers
  <2>2. row \in Rows /\ rows \subseteq Numbers \X RowIds
    BY <1>1, <2>1 DEF Rows
  <2>3. client \in [Clients -> ClientStates]
    BY <1>3 DEF Init
  <2> QED
    BY <1>1, <2>1, <2>2, <2>3 DEF TypeOK
<1>6. \A c \in Clients :
         /\ client[c].pc = "idle" /\ client[c].op = "view" /\ client[c].me = c
         /\ client[c].guard = {} /\ client[c].token = NoToken /\ client[c].loaded = NoToken
  <2>1. ASSUME NEW c \in Clients
        PROVE  /\ Fresh(c).pc = "idle" /\ Fresh(c).op = "view" /\ Fresh(c).me = c
               /\ Fresh(c).guard = {} /\ Fresh(c).token = NoToken /\ Fresh(c).loaded = NoToken
    BY DEF Fresh
  <2> QED
    BY <1>2, <2>1
<1>7. Numbering
  BY <1>6 DEF Numbering, Writing
<1>8. Stamps
  <2>1. Used \subseteq {0}
    BY <1>1, <1>4, <1>6 DEF Used, NoToken
  <2> QED
    BY <1>1, <1>6, <2>1 DEF Stamps, Writing
<1>9. Spent
  BY <1>1 DEF Spent
<1>10. Guarded
  <2>1. ASSUME NEW c \in Clients
        PROVE  Current(c)
    <3>1. client[c].pc = "idle" /\ client[c].token.version = 0 /\ client[c].loaded.version = 0
      BY <1>6 DEF NoToken
    <3> QED
      BY <1>4, <3>1 DEF Current, Whole
  <2>2. Stored
    <3>1. rows = {} \/ (Contents(rows) = {0} /\ \A r, q \in rows : r[2] = q[2])
      BY <1>1 DEF Contents
    <3> QED
      BY <1>1, <1>4, <3>1 DEF Stored
  <2> QED
    BY <1>1, <1>4, <2>1, <2>2 DEF Guarded
<1> QED
  BY <1>5, <1>7, <1>8, <1>9, <1>10 DEF IInv

LEMMA NextIInv ==
    ASSUME IInv, [Next]_vars
    PROVE  IInv'
<1>1. TypeOK'
  BY TypeStep DEF IInv
<1>2. CASE UNCHANGED vars
  <2>1. UNCHANGED Used
    BY <1>2 DEF vars, Used
  <2>2. Numbering' /\ Stamps'
    BY <1>2, <2>1 DEF vars, IInv, Numbering, Stamps, Unwritten
  <2>3. Spent'
    BY <1>2 DEF vars, IInv, Spent
  <2>4. Guarded'
    <3>1. \A c \in Clients : Current(c) => Current(c)'
      BY <1>2 DEF vars, Current, Whole, Informed
    <3>2. Stored' = Stored
      BY <1>2 DEF vars, Stored
    <3> QED
      BY <1>2, <3>1, <3>2 DEF vars, IInv, Guarded
  <2> QED
    BY <1>1, <2>2, <2>3, <2>4 DEF IInv
<1>3. CASE Next
  <2>1. PICK c \in Clients :
           \/ \E op \in Operations, g \in Guards[c] \cup {{}} : Begin(c, op, g)
           \/ ReadToken(c) \/ ReadSteps(c) \/ LoadSteps(c) \/ ReadOld(c)
           \/ PutCase(c) \/ PutScenario(c) \/ PutRefused(c)
           \/ UpdateCase(c) \/ RefreshCase(c) \/ CopySteps(c) \/ SyncCase(c)
           \/ RenameScenario(c) \/ Delete(c) \/ WriteFails(c)
           \/ AnswerToken(c) \/ AnswerSteps(c)
    BY <1>3 DEF Next
  <2> QED
    BY <1>1, <2>1, BeginStep, ReadTokenStep, ReadStepsStep, LoadStepsStep, ReadOldStep,
       PutCaseStep, PutScenarioStep, RefusedStep, UpdateCaseStep, RefreshCaseStep,
       CopyStepsStep, SyncCaseStep, RenameScenarioStep, DeleteStep, AnswerTokenStep,
       AnswerStepsStep
<1> QED
  BY <1>2, <1>3

-----------------------------------------------------------------------------
(* What follows.                                                           *)

(* In every reachable state the requests are numbered, time stamps name the *)
(* requests that have written, spent tokens are not the row's, and editors  *)
(* of a scenario or of a guarded case know what their token stands for      *)
(* (cases.py, scenarios.py, version_lock.py).                               *)
THEOREM Invariance == Spec => []IInv
<1>1. Init => IInv
  BY InitIInv
<1>2. IInv /\ [Next]_vars => IInv'
  BY NextIInv
<1> QED
  BY <1>1, <1>2, PTL DEF Spec

(* A save that compares its token replaces only what its editor was shown   *)
(* with it: of a case while nobody writes without a token, of a scenario    *)
(* always.  Excepted are tokens from the answer to a save of a scenario, or *)
(* to a save of a case that left no steps (write_with_version_lock).        *)
THEOREM EditorsSeeWhatTheyReplace == Spec => []NoLostUpdate
<1>1. IInv => NoLostUpdate
  BY DEF IInv, Guarded, NoLostUpdate
<1> QED
  BY <1>1, Invariance, PTL

(* A token is good for one save, by either of its parts: of a case while    *)
(* everyone sends tokens, of a scenario even if others do not (VersionGuard). *)
THEOREM TokensAreSpent == Spec => []OneWinnerPerToken
<1>1. IInv => OneWinnerPerToken
  BY DEF IInv, Spent, OneWinnerPerToken
<1> QED
  BY <1>1, Invariance, PTL

(* The column and the rows of a case hold the same steps, unless nobody has *)
(* saved it, and every variable has its type (replace_case_standard_steps). *)
THEOREM BothCopiesWritten == Spec => []CopiesInOrder
<1>1. IInv => CopiesInOrder
  <2>1. ASSUME IInv, kind = "case", row # NoRow, wild = {}
        PROVE  row.legacy = Contents(rows) \/ (rows = {} /\ row.version = 1)
    BY <2>1 DEF IInv, Guarded, Stored
  <2> QED
    BY <2>1 DEF IInv, CopiesInOrder, CopiesAgree
<1> QED
  BY <1>1, Invariance, PTL

=============================================================================
