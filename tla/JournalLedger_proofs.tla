------------------------ MODULE JournalLedger_proofs ------------------------
(***************************************************************************)
(* Type correctness of the journal, for any number of requests, entries,   *)
(* accounts and contents, and the lemmas on operators it rests on.         *)
(***************************************************************************)
EXTENDS JournalLedgerProps, SequenceTheorems, TLAPS

\* Every handler is a sequence of known statements.
LEMMA ScriptType ==
    ASSUME NEW j \in JobSet
    PROVE  Script(j) \in Seq(Labels)
<1> USE DEF Labels, InTransaction
<1>1. CASE j.op = "create"
  <2>1. CASE j.posted
    BY <1>1, <2>1 DEF Script
  <2>2. CASE ~j.posted
    BY <1>1, <2>2 DEF Script
  <2>3. QED  BY <2>1, <2>2
<1>2. CASE j.op = "edit"
  BY <1>2 DEF Script
<1>3. CASE j.op = "post"
  BY <1>3 DEF Script
<1>4. CASE j.op = "void"
  BY <1>4 DEF Script
<1>5. CASE j.op = "correct"
  BY <1>5 DEF Script
<1>6. CASE j.op = "bank"
  BY <1>6 DEF Script
<1>7. CASE j.op = "match"
  BY <1>7 DEF Script
<1>8. CASE j.op = "lock"
  BY <1>8 DEF Script
<1>9. QED  BY <1>1, <1>2, <1>3, <1>4, <1>5, <1>6, <1>7, <1>8 DEF JobSet, Ops

\* The next statement and the rest of a running handler are well typed.
LEMMA StatementOf ==
    ASSUME Typed, NEW r \in Requests, todo[r] # <<>>
    PROVE  /\ Head(todo[r]) \in Labels
           /\ Tail(todo[r]) \in Seq(Labels)
  BY HeadTailProperties DEF Typed

\* What a request sees, its own uncommitted rows included, is a ledger.
LEMMA ViewType ==
    ASSUME Typed, NEW r \in Requests
    PROVE  /\ View(r) \in [Entries -> Rows]
           /\ HeadOf(r) \in Heads \union {Null}
  BY DEF Typed, TxType, View, HeadOf

\* A statement waits only for resources PostgreSQL knows.
LEMMA WantsType ==
    ASSUME Typed, NEW r \in Requests
    PROVE  Wants(r) \subseteq Resources
  BY DEF Typed, Wants, Appended, JobSet, Resources, Sums

\* A transaction that wrote nothing is well typed.
LEMMA NoTxType == NoTx \in TxType
  BY DEF NoTx, TxType

\* A rollback keeps the types, whatever the handler goes on with.
LEMMA AbortType ==
    ASSUME Typed, NEW r \in Requests, NEW rest \in Seq(Labels), Abort(r, rest)
    PROVE  Typed'
<1>1. holder' \in [Resources -> Holders]
  BY DEF Abort, Release, Typed, Holders
<1>2. /\ tx' \in [Requests -> TxType]
      /\ sum' \in [Requests -> Sums \union {Null}]
      /\ todo' \in [Requests -> Seq(Labels)]
  BY NoTxType DEF Abort, Typed
<1>3. res' \in [Requests -> Answers]
  BY DEF Abort, Answers, Typed
<1>4. QED  BY <1>1, <1>2, <1>3 DEF Abort, Typed, db

\* Every start, a database and the requests sent to it, is well typed.
THEOREM TypeInit == Init => Typed
<1> SUFFICES ASSUME Init PROVE Typed
  OBVIOUS
<1>1. job \in [Requests -> JobSet]
  BY WorkloadsAssumption DEF Init
<1>2. PICK s \in Starts : /\ entry = s.entry
                         /\ head = s.head
                         /\ balance = [a \in Accounts |-> Counted(s.entry, a)]
  BY DEF Init
<1>3. /\ entry \in [Entries -> Rows] /\ head \in Heads \union {Null}
      /\ balance \in [Accounts -> SUBSET Postings]
  BY <1>2, StartsAssumption DEF Counted
<1>4. todo \in [Requests -> Seq(Labels)]
  BY <1>1, ScriptType DEF Init
<1>5. tx \in [Requests -> TxType]
  BY NoTxType DEF Init
<1>6. pre \in [Requests -> Contents]
  BY <1>1 DEF Init, JobSet
<1>7. QED  BY <1>1, <1>3, <1>4, <1>5, <1>6 DEF Init, Typed, Holders, Answers

\* So does the answer of a handler that leaves the database alone.
LEMMA AnswerType ==
    ASSUME Typed, NEW r \in Requests, NEW a \in Answers, Answer(r, a),
           UNCHANGED <<db, holder, tx, job, mem>>
    PROVE  Typed'
<1>1. <<>> \in Seq(Labels)
  OBVIOUS
<1>2. /\ todo' \in [Requests -> Seq(Labels)]
      /\ res' \in [Requests -> Answers]
  BY <1>1 DEF Answer, Typed
<1>3. QED  BY <1>2 DEF Typed, db, mem

\* Going on to the next statement keeps the handlers well typed.
LEMMA AdvanceType ==
    ASSUME Typed, NEW r \in Requests, todo[r] # <<>>, Advance(r)
    PROVE  todo' \in [Requests -> Seq(Labels)]
  BY StatementOf DEF Advance, Typed

\* The parts of a transaction's writes, one by one.
LEMMA TxFields ==
    ASSUME NEW t \in TxType
    PROVE  /\ t.rows \in [Entries -> Rows \union {Null}]
           /\ t.head \in Heads \union {Null}
           /\ t.gl \in [Accounts -> Sums \union {Null}]
           /\ t.audit \in SUBSET AuditRows
           /\ t.corr \in SUBSET Links
           /\ t.linked \in SUBSET Entries
  BY DEF TxType

\* Writing one row keeps a transaction well typed ...
LEMMA WriteRowType ==
    ASSUME NEW t \in TxType, NEW e \in Entries, NEW row \in Rows
    PROVE  [t EXCEPT !.rows[e] = row] \in TxType
<1>1. [t.rows EXCEPT ![e] = row] \in [Entries -> Rows \union {Null}]
  BY TxFields
<1>2. QED  BY <1>1 DEF TxType

\* ... and so do the transactions of all requests when one of them changes.
LEMMA TxSetType ==
    ASSUME Typed, NEW r \in Requests, NEW t \in TxType, tx' = [tx EXCEPT ![r] = t]
    PROVE  tx' \in [Requests -> TxType]
  BY DEF Typed

\* The parts of a request, and of the entry it is about to seal.
LEMMA JobType ==
    ASSUME Typed, NEW r \in Requests
    PROVE  /\ job[r].entry \in Entries /\ job[r].content \in Contents
           /\ job[r].counter \in Entries /\ job[r].replacement \in Entries
           /\ job[r].posted \in BOOLEAN /\ job[r].key \in Keys \union {Null}
           /\ job[r].op \in Ops
           /\ tx[r] \in TxType
           /\ Appended(r) \in Entries
  BY DEF Typed, JobSet, Appended

\* A row as create, a correction or a bank flow inserts it.
LEMMA NewRowType ==
    ASSUME NEW s \in Statuses, NEW c \in Contents, NEW u \in KeyUses \union {Null}
    PROVE  NewRow(s, c, u) \in Rows
  BY DEF NewRow, Rows

\* UPDATE of the target row by post, void or edit keeps the types.
LEMMA UpdateType ==
    ASSUME Typed, NEW r \in Requests, NEW row \in Rows, Update(r, row)
    PROVE  Typed'
<1>1. todo' \in [Requests -> Seq(Labels)]
  BY StatementOf DEF Update, At, Advance, Typed
<1>2. tx' \in [Requests -> TxType]
  <2> DEFINE t == [tx[r] EXCEPT !.rows[job[r].entry] = row]
  <2>1. tx' = [tx EXCEPT ![r] = t]
    BY DEF Update
  <2>2. t \in TxType
    BY WriteRowType, JobType
  <2>3. QED  BY <2>1, <2>2, TxSetType
<1>3. holder' \in [Resources -> Holders]
  BY DEF Update, Take, Typed, Holders
<1>4. QED  BY <1>1, <1>2, <1>3 DEF Update, Typed, db, mem

\* computeEntryHashV2 gives a seal.
LEMMA SealType ==
    ASSUME NEW e \in Entries, NEW row \in Rows, NEW p \in Seals \union {Null}
    PROVE  Seal("v2", e, row, p) \in Seals
  BY DEF Seal, Seals, Rows

\* The previousHash the primitive offers is a seal, or NULL at a root.
LEMMA PreviousType ==
    ASSUME NEW rows \in [Entries -> Rows], NEW h \in Heads \union {Null}, NEW e \in Entries,
           NEW p \in Previous(rows, h, e)
    PROVE  p \in Seals \union {Null}
  BY DEF Previous, LegacyMembers, Heads, Rows

\* Every statement of every handler keeps the types.
THEOREM TypeNext == Typed /\ [Next]_vars => Typed'
<1> SUFFICES ASSUME Typed, [Next]_vars PROVE Typed'
  OBVIOUS
<1>1. CASE UNCHANGED vars
  BY <1>1 DEF Typed, vars, db, mem
<1>2. ASSUME NEW r \in Requests, Lookup(r) PROVE Typed'
  <2>1. CASE Advance(r) /\ UNCHANGED <<db, holder, tx, job, mem, res>>
    <3>1. todo' \in [Requests -> Seq(Labels)]
      BY <1>2, <2>1, AdvanceType DEF Lookup, At
    <3>2. QED  BY <2>1, <3>1 DEF Typed, db, mem
  <2>2. CASE \E a \in Answers : Answer(r, a) /\ UNCHANGED <<db, holder, tx, job, mem>>
    BY <2>2, AnswerType
  <2>3. QED  BY <1>2, <2>1, <2>2 DEF Lookup, Answers
<1>3. ASSUME NEW r \in Requests, Read(r) PROVE Typed'
  <2>1. CASE entry[job[r].entry].status = Required(job[r].op)
    <3>1. todo' \in [Requests -> Seq(Labels)]
      BY <1>3, <2>1, AdvanceType DEF Read, At
    <3>2. entry[job[r].entry].content \in Contents
      BY JobType DEF Typed, Rows
    <3>3. pre' \in [Requests -> Contents] /\ due' \in [Requests -> SUBSET Accounts]
      BY <1>3, <2>1, <3>2, ContentsAssumption DEF Read, Typed
    <3>4. QED  BY <1>3, <2>1, <3>1, <3>3 DEF Read, Typed, db
  <2>2. CASE entry[job[r].entry].status # Required(job[r].op)
    BY <1>3, <2>2, AnswerType DEF Read, Answers, mem
  <2>3. QED  BY <2>1, <2>2
<1>4. ASSUME NEW r \in Requests, LinkCheck(r) PROVE Typed'
  <2>1. CASE Advance(r) /\ UNCHANGED <<db, holder, tx, job, mem, res>>
    <3>1. todo' \in [Requests -> Seq(Labels)]
      BY <1>4, <2>1, AdvanceType DEF LinkCheck, At
    <3>2. QED  BY <2>1, <3>1 DEF Typed, db, mem
  <2>2. CASE \E a \in Answers : Answer(r, a) /\ UNCHANGED <<db, holder, tx, job, mem>>
    BY <2>2, AnswerType
  <2>3. QED  BY <1>4, <2>1, <2>2 DEF LinkCheck, Answers
<1>5. ASSUME NEW r \in Requests, FiscalPass(r) PROVE Typed'
  BY <1>5, StatementOf DEF FiscalPass, At, Advance, Answer, Typed, db, mem
<1>6. ASSUME NEW r \in Requests, FiscalRefuse(r) PROVE Typed'
  <2>1. <<>> \in Seq(Labels)
    OBVIOUS
  <2>2. QED  BY <1>6, <2>1, AbortType DEF FiscalRefuse
<1>7. ASSUME NEW r \in Requests, InsertOne(r) PROVE Typed'
  <2>1. todo' \in [Requests -> Seq(Labels)]
    BY <1>7, StatementOf DEF InsertOne, At, Advance, Typed
  <2>2. tx' \in [Requests -> TxType]
    <3> DEFINE e == job[r].entry
               s == IF job[r].op = "bank" \/ job[r].posted THEN "posted" ELSE "draft"
               row == NewRow(s, job[r].content, KeyUse(r))
               t == [tx[r] EXCEPT !.rows[e] = row,
                                  !.linked = IF job[r].op = "bank" THEN {e} ELSE {}]
    <3>1. tx' = [tx EXCEPT ![r] = t]
      BY <1>7 DEF InsertOne
    <3>2. KeyUse(r) \in KeyUses \union {Null}
      BY JobType DEF KeyUse, KeyUses
    <3>3. s \in Statuses
      BY DEF Statuses
    <3>4. row \in Rows
      BY <3>2, <3>3, JobType, NewRowType
    <3> HIDE DEF s, row
    <3>5. [tx[r] EXCEPT !.rows[e] = row] \in TxType
      BY <3>4, JobType, WriteRowType
    <3>6. (IF job[r].op = "bank" THEN {e} ELSE {}) \in SUBSET Entries
      BY JobType
    <3>7. t \in TxType
      BY <3>5, <3>6 DEF TxType
    <3>8. QED  BY <3>1, <3>7, TxSetType
  <2>3. holder' \in [Resources -> Holders]
    BY <1>7 DEF InsertOne, Take, Typed, Holders
  <2>4. due' \in [Requests -> SUBSET Accounts]
    BY <1>7, ContentsAssumption DEF InsertOne, Typed, JobSet
  <2>5. QED  BY <1>7, <2>1, <2>2, <2>3, <2>4 DEF InsertOne, Typed, db, mem
<1>8. ASSUME NEW r \in Requests, InsertDuplicate(r) PROVE Typed'
  <2>1. <<"winner">> \in Seq(Labels)
    BY DEF Labels
  <2>2. QED  BY <1>8, <2>1, AbortType DEF InsertDuplicate
<1>9. ASSUME NEW r \in Requests, Winner(r) PROVE Typed'
  BY <1>9, AnswerType DEF Winner, Answers
<1>10. ASSUME NEW r \in Requests, InsertPair(r) PROVE Typed'
  <2>1. todo' \in [Requests -> Seq(Labels)]
    BY <1>10, StatementOf DEF InsertPair, At, Advance, Typed
  <2>2. tx' \in [Requests -> TxType]
    <3> DEFINE row1 == NewRow("posted", Reversal[pre[r]], Null)
               row2 == NewRow("posted", job[r].content, Null)
               t1 == [tx[r] EXCEPT !.rows[job[r].counter] = row1]
               t2 == [t1 EXCEPT !.rows[job[r].replacement] = row2]
    <3>1. tx' = [tx EXCEPT ![r] = t2]
      BY ZenonT(30), <1>10 DEF InsertPair, Typed
    <3>2. "posted" \in Statuses /\ Reversal[pre[r]] \in Contents
      BY ContentsAssumption DEF Statuses, Typed
    <3>3. row1 \in Rows /\ row2 \in Rows
      BY <3>2, JobType, NewRowType
    <3> HIDE DEF row1, row2
    <3>4. t1 \in TxType
      BY <3>3, JobType, WriteRowType
    <3> HIDE DEF t1
    <3>5. t2 \in TxType
      BY <3>3, <3>4, JobType, WriteRowType
    <3>6. QED  BY <3>1, <3>5, TxSetType
  <2>3. holder' \in [Resources -> Holders]
    BY <1>10 DEF InsertPair, Take, Typed, Holders
  <2>4. due' \in [Requests -> SUBSET Accounts]
    BY <1>10, ContentsAssumption DEF InsertPair, Typed, JobSet
  <2>5. QED  BY <1>10, <2>1, <2>2, <2>3, <2>4 DEF InsertPair, Typed, db, mem
<1>11. ASSUME NEW r \in Requests, Reread(r) PROVE Typed'
  <2>1. CASE Abort(r, <<>>)
    <3>1. <<>> \in Seq(Labels)
      OBVIOUS
    <3>2. QED  BY <2>1, <3>1, AbortType
  <2>2. CASE ~Abort(r, <<>>)
    <3>1. todo' \in [Requests -> Seq(Labels)]
      BY <1>11, <2>2, AdvanceType DEF Reread, At
    <3>2. entry[job[r].entry].content \in Contents
      BY JobType DEF Typed, Rows
    <3>3. QED  BY <1>11, <2>2, <3>1, <3>2 DEF Reread, Typed, db
  <2>3. QED  BY <2>1, <2>2
<1>12. ASSUME NEW r \in Requests, PostUpdate(r) PROVE Typed'
  <2>1. View(r)[job[r].entry] \in Rows /\ "posted" \in Statuses
    BY JobType, ViewType DEF Statuses
  <2>2. [View(r)[job[r].entry] EXCEPT !.status = "posted"] \in Rows
    BY <2>1 DEF Rows
  <2>3. QED  BY <1>12, <2>2, UpdateType DEF PostUpdate
<1>13. ASSUME NEW r \in Requests, VoidUpdate(r) PROVE Typed'
  <2>1. View(r)[job[r].entry] \in Rows /\ "void" \in Statuses
    BY JobType, ViewType DEF Statuses
  <2>2. [View(r)[job[r].entry] EXCEPT !.status = "void"] \in Rows
    BY <2>1 DEF Rows
  <2>3. QED  BY <1>13, <2>2, UpdateType DEF VoidUpdate
<1>14. ASSUME NEW r \in Requests, EditUpdate(r) PROVE Typed'
  <2>1. View(r)[job[r].entry] \in Rows /\ job[r].content \in Contents
    BY JobType, ViewType
  <2>2. [View(r)[job[r].entry] EXCEPT !.content = job[r].content] \in Rows
    BY <2>1 DEF Rows
  <2>3. QED  BY <1>14, <2>2, UpdateType DEF EditUpdate
<1>15. ASSUME NEW r \in Requests, SealAppend(r) PROVE Typed'
  <2>1. todo' \in [Requests -> Seq(Labels)]
    BY <1>15, StatementOf DEF SealAppend, AtAppend, At, Advance, Typed
  <2>2. tx' \in [Requests -> TxType]
    <3> DEFINE e == Appended(r)
               row == View(r)[e]
    <3>1. e \in Entries
      BY JobType
    <3>2. row \in Rows
      BY <3>1, ViewType
    <3>3. PICK p \in Previous(View(r), HeadOf(r), e) :
             tx' = [tx EXCEPT ![r].rows[e] =
                                [row EXCEPT !.hash = Seal("v2", e, row, p), !.prev = p],
                              ![r].head = [hash |-> Seal("v2", e, row, p), entry |-> e]]
      BY <1>15 DEF SealAppend
    <3>4. p \in Seals \union {Null}
      BY <3>1, ViewType, PreviousType
    <3>5. Seal("v2", e, row, p) \in Seals
      BY <3>1, <3>2, <3>4, SealType
    <3> DEFINE s == Seal("v2", e, row, p)
               t == [tx[r] EXCEPT !.rows[e] = [row EXCEPT !.hash = s, !.prev = p]]
    <3>6. [row EXCEPT !.hash = s, !.prev = p] \in Rows
      BY <3>2, <3>4, <3>5 DEF Rows
    <3> HIDE DEF e, row, s
    <3>7. t \in TxType
      BY <3>1, <3>6, JobType, WriteRowType
    <3>8. [hash |-> s, entry |-> e] \in Heads
      BY <3>1, <3>5 DEF Heads, s
    <3>9. [t EXCEPT !.head = [hash |-> s, entry |-> e]] \in TxType
      BY <3>7, <3>8 DEF TxType
    <3>10. tx' = [tx EXCEPT ![r] = [t EXCEPT !.head = [hash |-> s, entry |-> e]]]
      BY <3>3 DEF s
    <3>11. QED  BY <3>9, <3>10, TxSetType
  <2>3. holder' \in [Resources -> Holders]
    BY <1>15 DEF SealAppend, Take, Typed, Holders
  <2>4. QED  BY <1>15, <2>1, <2>2, <2>3 DEF SealAppend, Typed, db, mem
<1>16. ASSUME NEW r \in Requests, AppendRefused(r) PROVE Typed'
  <2>1. <<"certify">> \in Seq(Labels) /\ <<>> \in Seq(Labels)
    BY DEF Labels
  <2>2. QED  BY <1>16, <2>1, AbortType DEF AppendRefused
<1>17. ASSUME NEW r \in Requests, AppendBlocked(r) PROVE Typed'
  <2>1. <<>> \in Seq(Labels)
    OBVIOUS
  <2>2. QED  BY <1>17, <2>1, AbortType DEF AppendBlocked
<1>18. ASSUME NEW r \in Requests, Certify(r) PROVE Typed'
  BY <1>18, AnswerType DEF Certify, Answers
<1>19. ASSUME NEW r \in Requests, Audit(r) PROVE Typed'
  <2>1. todo' \in [Requests -> Seq(Labels)]
    BY <1>19, StatementOf DEF Audit, At, Advance, Typed
  <2>2. tx' \in [Requests -> TxType]
    <3>1. PICK p \in IF AuditTails = {} THEN {Null} ELSE {a.by : a \in AuditTails} :
             tx' = [tx EXCEPT ![r] = [tx[r] EXCEPT !.audit = {[by |-> r, prev |-> p]}]]
      BY <1>19 DEF Audit
    <3>2. p \in Requests \union {Null}
      BY <3>1 DEF AuditTails, AuditRows, Typed
    <3>3. {[by |-> r, prev |-> p]} \in SUBSET AuditRows
      BY <3>2 DEF AuditRows
    <3>4. [tx[r] EXCEPT !.audit = {[by |-> r, prev |-> p]}] \in TxType
      BY <3>3, JobType DEF TxType
    <3>5. QED  BY <3>1, <3>4, TxSetType
  <2>3. holder' \in [Resources -> Holders]
    BY <1>19 DEF Audit, Take, Typed, Holders
  <2>4. QED  BY <1>19, <2>1, <2>2, <2>3 DEF Audit, Typed, db, mem
<1>20. ASSUME NEW r \in Requests, LinkCorrection(r) PROVE Typed'
  <2>1. CASE Abort(r, <<>>)
    <3>1. <<>> \in Seq(Labels)
      OBVIOUS
    <3>2. QED  BY <2>1, <3>1, AbortType
  <2>2. CASE ~Abort(r, <<>>)
    <3>1. todo' \in [Requests -> Seq(Labels)]
      BY <1>20, <2>2, StatementOf DEF LinkCorrection, At, Advance, Typed
    <3>2. tx' \in [Requests -> TxType]
      <4> DEFINE l == {[original |-> job[r].entry, counter |-> job[r].counter,
                        replacement |-> job[r].replacement]}
      <4>1. tx' = [tx EXCEPT ![r] = [tx[r] EXCEPT !.corr = l]]
        BY <1>20, <2>2 DEF LinkCorrection
      <4>2. l \in SUBSET Links
        BY JobType DEF Links
      <4>3. [tx[r] EXCEPT !.corr = l] \in TxType
        BY <4>2, JobType DEF TxType
      <4>4. QED  BY <4>1, <4>3, TxSetType
    <3>3. holder' \in [Resources -> Holders]
      BY <1>20, <2>2 DEF LinkCorrection, Take, Typed, Holders
    <3>4. QED  BY <1>20, <2>2, <3>1, <3>2, <3>3 DEF LinkCorrection, Typed, db, mem
  <2>3. QED  BY <2>1, <2>2
<1>21. ASSUME NEW r \in Requests, RecalcRead(r) PROVE Typed'
  <2>1. sum' \in [Requests -> Sums \union {Null}]
    BY <1>21 DEF RecalcRead, Typed, Sums, Counted
  <2>2. QED  BY <1>21, <2>1 DEF RecalcRead, Typed, db
<1>22. ASSUME NEW r \in Requests, RecalcWrite(r) PROVE Typed'
  <2>1. todo' \in [Requests -> Seq(Labels)]
    BY <1>22, StatementOf DEF RecalcWrite, At, Advance, Typed
  <2>2. tx' \in [Requests -> TxType]
    <3> DEFINE g == [tx[r].gl EXCEPT ![sum[r].account] = sum[r]]
    <3>1. tx' = [tx EXCEPT ![r] = [tx[r] EXCEPT !.gl = g]]
      BY <1>22 DEF RecalcWrite
    <3>2. sum[r] \in Sums
      BY <1>22 DEF RecalcWrite, Typed
    <3>3. g \in [Accounts -> Sums \union {Null}]
      BY <3>2, JobType, TxFields DEF Sums
    <3>4. [tx[r] EXCEPT !.gl = g] \in TxType
      BY <3>3, JobType DEF TxType
    <3>5. QED  BY <3>1, <3>4, TxSetType
  <2>3. holder' \in [Resources -> Holders]
    BY <1>22 DEF RecalcWrite, Take, Typed, Holders
  <2>4. QED  BY <1>22, <2>1, <2>2, <2>3 DEF RecalcWrite, Typed, db, mem
<1>23. ASSUME NEW r \in Requests, Commit(r) PROVE Typed'
  <2>1. entry' \in [Entries -> Rows] /\ head' \in Heads \union {Null}
    BY <1>23, ViewType DEF Commit
  <2>2. /\ balance' \in [Accounts -> SUBSET Postings]
        /\ audit' \subseteq AuditRows /\ corr' \subseteq Links /\ linked' \subseteq Entries
        /\ raced' \subseteq Entries
    BY <1>23, TxFields, JobType DEF Commit, Typed, Sums
  <2>3. tx' \in [Requests -> TxType] /\ holder' \in [Resources -> Holders]
    BY <1>23, NoTxType DEF Commit, Release, Typed, Holders
  <2>4. <<>> \in Seq(Labels)
    OBVIOUS
  <2>5. todo' \in [Requests -> Seq(Labels)] /\ res' \in [Requests -> Answers]
    BY <1>23, <2>4 DEF Commit, Answer, Answers, Typed
  <2>6. QED  BY <1>23, <2>1, <2>2, <2>3, <2>5 DEF Commit, Typed, mem
<1>24. ASSUME NEW r \in Requests, DeadlockVictim(r) PROVE Typed'
  <2>1. <<>> \in Seq(Labels)
    OBVIOUS
  <2>2. QED  BY <1>24, <2>1, AbortType DEF DeadlockVictim
<1>25. ASSUME NEW r \in Requests, ReadPeriod(r) PROVE Typed'
  <2>1. CASE Advance(r) /\ UNCHANGED <<db, holder, tx, job, mem, res>>
    <3>1. todo' \in [Requests -> Seq(Labels)]
      BY <1>25, <2>1, AdvanceType DEF ReadPeriod, At
    <3>2. QED  BY <2>1, <3>1 DEF Typed, db, mem
  <2>2. CASE \E a \in Answers : Answer(r, a) /\ UNCHANGED <<db, holder, tx, job, mem>>
    BY <2>2, AnswerType
  <2>3. QED  BY <1>25, <2>1, <2>2 DEF ReadPeriod, Answers
<1>26. ASSUME NEW r \in Requests, LockPeriod(r) PROVE Typed'
  <2>1. <<>> \in Seq(Labels)
    OBVIOUS
  <2>2. /\ todo' \in [Requests -> Seq(Labels)]
        /\ res' \in [Requests -> Answers]
        /\ locked' \in BOOLEAN
    BY <1>26, <2>1 DEF LockPeriod, Answer, Answers, Typed
  <2>3. QED  BY <1>26, <2>2 DEF LockPeriod, Typed, mem
<1>27. ASSUME NEW r \in Requests, Fail(r) PROVE Typed'
  <2>1. <<>> \in Seq(Labels)
    OBVIOUS
  <2>2. QED  BY <1>27, <2>1, AbortType DEF Fail
<1>28. ASSUME NEW r \in Requests, MatchUpdate(r) PROVE Typed'
  <2>1. CASE Abort(r, <<>>)
    <3>1. <<>> \in Seq(Labels)
      OBVIOUS
    <3>2. QED  BY <2>1, <3>1, AbortType
  <2>2. CASE ~Abort(r, <<>>)
    <3>1. todo' \in [Requests -> Seq(Labels)]
      BY <1>28, <2>2, StatementOf DEF MatchUpdate, At, Advance, Typed
    <3>2. tx' \in [Requests -> TxType]
      <4>1. tx' = [tx EXCEPT ![r] = [tx[r] EXCEPT !.linked = {job[r].entry}]]
        BY <1>28, <2>2 DEF MatchUpdate
      <4>2. [tx[r] EXCEPT !.linked = {job[r].entry}] \in TxType
        BY JobType DEF TxType
      <4>3. QED  BY <4>1, <4>2, TxSetType
    <3>3. holder' \in [Resources -> Holders]
      BY <1>28, <2>2 DEF MatchUpdate, Take, Typed, Holders
    <3>4. QED  BY <1>28, <2>2, <3>1, <3>2, <3>3 DEF MatchUpdate, Typed, db, mem
  <2>3. QED  BY <2>1, <2>2
<1>29. QED
  BY <1>1, <1>2, <1>3, <1>4, <1>5, <1>6, <1>7, <1>8, <1>9, <1>10, <1>11, <1>12, <1>13, <1>14, <1>15, <1>16, <1>17, <1>18, <1>19, <1>20, <1>21, <1>22, <1>23, <1>24, <1>25, <1>26, <1>27, <1>28 DEF Next, Step

\* The types hold in every state the requests can reach: rows, balances, locks,
\* uncommitted writes and answers alike.
THEOREM TypesHold == Spec => []Typed
<1>1. QED  BY TypeInit, TypeNext, PTL DEF Spec

=============================================================================
