--------------------------- MODULE BankBooks_proofs ---------------------------
(***************************************************************************)
(* For every number of requests and transactions and every job they have:  *)
(* the rows, entries and handlers of BankBooks stay well formed, a rule    *)
(* application that stands keeps the rows it acquired, and of concurrent   *)
(* reverts of one application one wins. A transaction no handler has       *)
(* crossed counts once in the ledger, links what was booked for it, and    *)
(* can be reached while it awaits review. For the mixes that keep posts    *)
(* and rollbacks of one application apart a rollback is whole; without     *)
(* approvals the stored balance is the sum of what is posted.              *)
(***************************************************************************)
EXTENDS BankBooksProps, FiniteSetTheorems, TLAPS

\* No row of an application that stands goes to another.
RowsKept ==
    \A t \in Txns, k \in Requests :
      row[t].record = k /\ record[k] = "applied" /\ record'[k] = "applied"
          => row'[t].record = k

(* What the client assumptions give of a request. *)

\* A job in a typed state is a job a client can ask for.
LEMMA JobTyped ==
    ASSUME HandlersTyped, NEW r \in Requests
    PROVE  /\ job[r] \in JobSet
           /\ job[r].op \in {"post", "reconcile", "approve", "reject", "reclassify", "autoAmount"}
                => Txn(r) \in Txns /\ job[r].txns = {Txn(r)}
           /\ job[r].op \in {"revert", "post", "complete", "cancel"} => job[r].ref \in Requests
<1>1. job \in [Requests -> JobSet]
  BY WorkloadsAssumption DEF HandlersTyped
<1>2. ASSUME job[r].op \in {"post", "reconcile", "approve", "reject", "reclassify", "autoAmount"}
      PROVE  Txn(r) \in Txns /\ job[r].txns = {Txn(r)}
  <2>1. \E t \in Txns : job[r].txns = {t}
    BY <1>2, WorkloadsAssumption DEF HandlersTyped
  <2> QED  BY <2>1 DEF Txn
<1> QED  BY <1>1, <1>2, WorkloadsAssumption DEF HandlersTyped

\* The history names transactions of the account.
LEMMA CrossedTyped ==
    ASSUME HandlersTyped, NEW r \in Requests, NEW a, Answer(r, a)
    PROVE  crossed' \in SUBSET Txns
<1>1. job[r].txns \in SUBSET Txns /\ batch[r] \in SUBSET Txns
  BY JobTyped DEF HandlersTyped, JobSet
<1>2. Crossing(r) \subseteq Txns
  BY <1>1 DEF Crossing
<1> QED  BY <1>2 DEF Answer, HandlersTyped

\* Reading the database changes the memory of one handler only.
LEMMA ReadStep ==
    ASSUME IInv, NEW r \in Requests, NEW T \in SUBSET Txns, NEW E \in SUBSET Entries,
           NEW ok \in BOOLEAN, NEW next \in Labels \ {"done"}, pc[r] # "done",
           Read(r, T, E, ok, next),
           ok => \A e \in E : entry[e].status # "absent",
           ok /\ next = "write" /\ job[r].op = "revert"
               => /\ record[job[r].ref] # "absent"
                  /\ \A t \in T : row[t].record = job[r].ref
    PROVE  IInv' /\ RowsKept
<1> USE DEF IInv, TypeOK
<1>1. /\ UNCHANGED <<row, entry, record, period, balance, job>>
      /\ pc' = [pc EXCEPT ![r] = IF ok THEN next ELSE "done"]
      /\ res' = IF ok THEN res ELSE [res EXCEPT ![r] = "refused"]
      /\ seen' = [seen EXCEPT ![r] = row]
      /\ batch' = [batch EXCEPT ![r] = T]
      /\ found' = [found EXCEPT ![r] = E]
  BY DEF Read, Goto, Answer, Remember, books
<1>2. RowsTyped' /\ LinksExist' /\ PostedIsSealed' /\ AppliedRowsAreClaimed'
  BY <1>1 DEF RowsTyped, LinksExist, PostedIsSealed, AppliedRowsAreClaimed, Posted
<1>9. crossed' \in SUBSET Txns
  BY CrossedTyped DEF Read, Goto, HandlersTyped
<1>3. HandlersTyped'
  BY <1>1, <1>9 DEF HandlersTyped, RowsTyped, Labels, Answers
<1>4. FoundExist'
  BY <1>1 DEF FoundExist, HandlersTyped
<1>5. RecordIsNew'
  BY <1>1 DEF RecordIsNew, HandlersTyped
<1>6. RevertsOwnRows'
  BY <1>1 DEF RevertsOwnRows, HandlersTyped
<1>7. RevertedIsReverted' /\ OneRevertWins'
  BY <1>1 DEF RevertedIsReverted, OneRevertWins, HandlersTyped
<1>8. RowsKept
  BY <1>1 DEF RowsKept
<1> QED  BY <1>2, <1>3, <1>4, <1>5, <1>6, <1>7, <1>8

\* A read of rows only.
LEMMA RowReadStep ==
    ASSUME IInv, NEW r \in Requests, NEW T \in SUBSET Txns,
           NEW ok \in BOOLEAN, NEW next \in Labels \ {"done"}, pc[r] # "done",
           Read(r, T, {}, ok, next), job[r].op # "revert"
    PROVE  IInv' /\ RowsKept
<1>1. {} \in SUBSET Entries
  OBVIOUS
<1> QED  BY <1>1, ReadStep

\* A handler that answers after a write that leaves the applications, and the
\* rows they claim, as they are.
LEMMA WriteStep ==
    ASSUME IInv, NEW r \in Requests, NEW a \in Answers \ {"reverted"}, pc[r] # "done",
           Answer(r, a), UNCHANGED <<record, job, mem>>,
           RowsTyped', LinksExist', PostedIsSealed',
           \A e \in Entries : entry[e].status # "absent" => entry'[e].status # "absent",
           \A t \in Txns : row'[t].record = row[t].record /\ (row[t].rule => row'[t].rule)
    PROVE  IInv' /\ RowsKept
<1> USE DEF IInv, TypeOK
<1>1. /\ UNCHANGED <<record, job, seen, batch, found>>
      /\ pc' = [pc EXCEPT ![r] = "done"]
      /\ res' = [res EXCEPT ![r] = a]
  BY DEF Answer, mem
<1>2. HandlersTyped'
  BY <1>1, CrossedTyped DEF HandlersTyped, Labels
<1>3. FoundExist'
  BY <1>1 DEF FoundExist, HandlersTyped
<1>4. RecordIsNew' /\ AppliedRowsAreClaimed'
  BY <1>1 DEF RecordIsNew, AppliedRowsAreClaimed, HandlersTyped
<1>5. RevertsOwnRows'
  BY <1>1 DEF RevertsOwnRows, HandlersTyped
<1>6. RevertedIsReverted' /\ OneRevertWins'
  BY <1>1 DEF RevertedIsReverted, OneRevertWins, HandlersTyped
<1>7. RowsKept
  BY DEF RowsKept
<1> QED  BY <1>2, <1>3, <1>4, <1>5, <1>6, <1>7

\* A write that changes rows only, and gives them no link to a missing entry.
LEMMA RowStep ==
    ASSUME IInv, NEW r \in Requests, NEW a \in Answers \ {"reverted"}, pc[r] # "done",
           Answer(r, a), UNCHANGED <<entry, record, period, job, mem>>,
           row' \in [Txns -> Rows],
           \A t \in Txns : row'[t].record = row[t].record /\ (row[t].rule => row'[t].rule),
           \A t \in Txns : row'[t].entry \notin {Null, row[t].entry}
                               => entry[row'[t].entry].status # "absent"
    PROVE  IInv' /\ RowsKept
<1>1. RowsTyped'
  BY DEF RowsTyped, IInv, TypeOK
<1>2. LinksExist' /\ PostedIsSealed'
  BY DEF LinksExist, PostedIsSealed, Posted, IInv, TypeOK
<1> QED  BY <1>1, <1>2, WriteStep

\* The invariant holds of an account as imported.
LEMMA InitIInv == Init => IInv
<1> SUFFICES ASSUME Init PROVE IInv
  OBVIOUS
<1>1. \A t : /\ Initially(t) \in Rows /\ Initially(t).entry = Null
               /\ Initially(t).record = Null
  BY DEF Initially, Absent, Imported, Rows
<1>2. RowsTyped
  BY <1>1 DEF Init, RowsTyped, EntryRows
<1>3. HandlersTyped
  BY <1>1 DEF Init, HandlersTyped, Labels, Answers
<1>4. LinksExist /\ PostedIsSealed
  BY <1>1 DEF Init, LinksExist, PostedIsSealed, Posted
<1>5. FoundExist /\ RecordIsNew /\ AppliedRowsAreClaimed
  BY <1>1, NullAssumption DEF Init, FoundExist, RecordIsNew, AppliedRowsAreClaimed
<1>6. RevertsOwnRows /\ RevertedIsReverted /\ OneRevertWins
  BY DEF Init, RevertsOwnRows, RevertedIsReverted, OneRevertWins
<1> QED  BY <1>2, <1>3, <1>4, <1>5, <1>6 DEF IInv, TypeOK

-----------------------------------------------------------------------------
(* Entries, and the rows that link them. *)

\* Every id of an entry is a pair.
LEMMA EntryIds ==
    /\ \A r \in Requests, t \in Txns \union {Null} : <<r, t>> \in Entries
    /\ \A e \in Entries : e[1] \in Requests /\ e[2] \in Txns \union {Null} /\ e = <<e[1], e[2]>>
BY DEF Entries

\* A new entry that is posted is sealed.
LEMMA NewEntryTyped ==
    ASSUME NEW s \in {"draft", "pending_review", "posted"}, NEW k \in Requests \union {Null}
    PROVE  /\ NewEntry(s, k) \in EntryRows
           /\ NewEntry(s, k).status = s /\ NewEntry(s, k).sealed = (s = "posted")
BY DEF NewEntry, EntryRows

\* Voiding entries keeps the table typed, creates none and posts none.
LEMMA VoidedTyped ==
    ASSUME NEW T \in [Entries -> EntryRows], NEW E
    PROVE  /\ Voided(T, E) \in [Entries -> EntryRows]
           /\ \A e \in Entries :
                /\ T[e].status # "absent" => Voided(T, E)[e].status # "absent"
                /\ Voided(T, E)[e].status = "posted" => T[e].status = "posted"
                /\ Voided(T, E)[e].sealed = T[e].sealed
BY DEF Voided, EntryRows

-----------------------------------------------------------------------------
(* The reads of the handlers. *)

\* No read breaks the invariant.
LEMMA ReadsKeep ==
    ASSUME IInv, NEW r \in Requests,
           \/ Match(r) \/ Reread(r) \/ ReadRecord(r) \/ ReadDraft(r) \/ Find(r)
           \/ ReadReview(r) \/ ReadRow(r) \/ Scan(r) \/ ReadReconciled(r)
           \/ CheckPeriods(r) \/ ReadIgnored(r) \/ ReadOpen(r) \/ ReadPeriod(r)
           \/ CheckDifference(r) \/ CheckUnmatched(r)
    PROVE  IInv' /\ RowsKept
<1>1. HandlersTyped /\ RowsTyped
  BY DEF IInv, TypeOK
<1>2. job[r].txns \in SUBSET Txns /\ batch[r] \in SUBSET Txns
  BY <1>1, JobTyped DEF HandlersTyped, JobSet
<1>3. {"write", "reread", "periods", "difference", "unmatched", "unlink"}
         \subseteq Labels \ {"done"}
  BY DEF Labels
<1>4. CASE Match(r)
  <2> DEFINE T == {t \in job[r].txns : Eligible(row[t])}
             next == IF job[r].op = "apply" THEN "reread" ELSE "write"
             ok == T # {}
  <2>1. pc[r] # "done" /\ job[r].op # "revert" /\ Read(r, T, {}, ok, next)
    BY <1>4 DEF Match, At
  <2>2. T \in SUBSET Txns /\ next \in Labels \ {"done"} /\ ok \in BOOLEAN
    BY <1>2, <1>3
  <2> HIDE DEF T, next, ok
  <2> QED  BY <1>3, <2>1, <2>2, RowReadStep
<1>5. CASE Reread(r)
  <2> DEFINE T == {t \in batch[r] : Eligible(row[t])}
  <2>1. pc[r] # "done" /\ job[r].op # "revert" /\ Read(r, T, {}, TRUE, "write")
    BY <1>5 DEF Reread, At
  <2>2. T \in SUBSET Txns
    BY <1>2
  <2> HIDE DEF T
  <2> QED  BY <1>3, <2>1, <2>2, RowReadStep
<1>6. CASE ReadRecord(r)
  <2> DEFINE T == {t \in Txns : row[t].record = job[r].ref}
             E == {e \in Entries : /\ entry[e].record = job[r].ref
                                   /\ entry[e].status \notin {"absent", "void"}}
  <2>1. pc[r] # "done" /\ Read(r, T, E, record[job[r].ref] = "applied", "write")
    BY <1>6 DEF ReadRecord, At
  <2>2. /\ T \in SUBSET Txns /\ E \in SUBSET Entries
        /\ \A t \in T : row[t].record = job[r].ref
        /\ \A e \in E : entry[e].status # "absent"
    OBVIOUS
  <2> HIDE DEF T, E
  <2> QED  BY <1>3, <2>1, <2>2, ReadStep
<1>7. CASE ReadDraft(r)
  <2>1. /\ pc[r] # "done" /\ job[r].op = "post"
        /\ Read(r, {}, {Draft(r)}, entry[Draft(r)].status = "draft", "write")
    BY <1>7 DEF ReadDraft, At
  <2>2. Draft(r) \in Entries
    BY <1>1, <2>1, JobTyped DEF Draft, Entries
  <2>3. {Draft(r)} \in SUBSET Entries
    BY <2>2
  <2> QED  BY <1>3, <2>1, <2>3, ReadStep
<1>8. CASE Find(r)
  <2> DEFINE T == job[r].txns
             ok == Txn(r) \in Stored /\ ~row[Txn(r)].reconciled
  <2>1. pc[r] # "done" /\ job[r].op # "revert" /\ Read(r, T, {}, ok, "write")
    BY <1>8 DEF Find, At
  <2>2. T \in SUBSET Txns /\ ok \in BOOLEAN
    BY <1>2, Zenon
  <2> HIDE DEF T, ok
  <2> QED  BY <1>3, <2>1, <2>2, RowReadStep
<1>9. CASE ReadReview(r)
  <2> DEFINE T == job[r].txns
             ok == row[Txn(r)].status = "pending_review"
  <2>1. pc[r] # "done" /\ job[r].op # "revert" /\ Read(r, T, {}, ok, "write")
    BY <1>9 DEF ReadReview, At
  <2>2. T \in SUBSET Txns /\ ok \in BOOLEAN
    BY <1>2, Zenon
  <2> HIDE DEF T, ok
  <2> QED  BY <1>3, <2>1, <2>2, RowReadStep
<1>10. CASE ReadRow(r)
  <2> DEFINE T == job[r].txns
             ok == Txn(r) \in Stored /\ job[r].gl # Null
  <2>1. pc[r] # "done" /\ job[r].op # "revert" /\ Read(r, T, {}, ok, "write")
    BY <1>10 DEF ReadRow, At
  <2>2. T \in SUBSET Txns /\ ok \in BOOLEAN
    BY <1>2, Zenon
  <2> HIDE DEF T, ok
  <2> QED  BY <1>3, <2>1, <2>2, RowReadStep
<1>11. CASE Scan(r)
  <2> DEFINE T == {t \in job[r].txns \intersect Stored : ~row[t].reconciled}
  <2>1. /\ pc[r] # "done" /\ job[r].op # "revert"
        /\ Read(r, T, Posted(entry), T # {}, "write")
    BY <1>11 DEF Scan, At
  <2>2. /\ T \in SUBSET Txns /\ Posted(entry) \in SUBSET Entries
        /\ \A e \in Posted(entry) : entry[e].status # "absent"
    BY <1>2 DEF Posted
  <2> HIDE DEF T
  <2> QED  BY <1>3, <2>1, <2>2, ReadStep
<1>12. CASE ReadReconciled(r)
  <2> DEFINE T == {t \in job[r].txns : row[t].reconciled}
             ok == T # {}
  <2>1. pc[r] # "done" /\ job[r].op # "revert" /\ Read(r, T, {}, ok, "periods")
    BY <1>12 DEF ReadReconciled, At
  <2>2. T \in SUBSET Txns /\ ok \in BOOLEAN
    BY <1>2
  <2> HIDE DEF T, ok
  <2> QED  BY <1>3, <2>1, <2>2, RowReadStep
<1>13. CASE CheckPeriods(r)
  <2> DEFINE ok == \A t \in batch[r] :
               seen[r][t].period # Null => period[seen[r][t].period] # "completed"
  <2>1. pc[r] # "done" /\ job[r].op # "revert" /\ Read(r, batch[r], {}, ok, "write")
    BY <1>13 DEF CheckPeriods, At
  <2>2. ok \in BOOLEAN
    OBVIOUS
  <2> HIDE DEF ok
  <2> QED  BY <1>2, <1>3, <2>1, <2>2, RowReadStep
<1>14. CASE ReadIgnored(r)
  <2> DEFINE ok == \A t \in job[r].txns : ~row[t].reconciled
  <2>1. pc[r] # "done" /\ job[r].op # "revert" /\ Read(r, job[r].txns, {}, ok, "write")
    BY <1>14 DEF ReadIgnored, At
  <2>2. ok \in BOOLEAN
    OBVIOUS
  <2> HIDE DEF ok
  <2> QED  BY <1>2, <1>3, <2>1, <2>2, RowReadStep
<1>15. CASE ReadOpen(r)
  <2> DEFINE ok == \A p \in Requests : period[p] # "open"
  <2>1. pc[r] # "done" /\ job[r].op # "revert" /\ Read(r, {}, {}, ok, "write")
    BY <1>15 DEF ReadOpen, At
  <2>2. ok \in BOOLEAN
    OBVIOUS
  <2> HIDE DEF ok
  <2> QED  BY <1>3, <2>1, <2>2, RowReadStep
<1>16. CASE ReadPeriod(r)
  <2> DEFINE ok == period[job[r].ref] = "open"
             next == IF job[r].op = "complete" THEN "difference" ELSE "unlink"
  <2>1. pc[r] # "done" /\ job[r].op # "revert" /\ Read(r, {}, {}, ok, next)
    BY <1>16 DEF ReadPeriod, At
  <2>2. {} \in SUBSET Txns /\ next \in Labels \ {"done"} /\ ok \in BOOLEAN
    BY <1>3
  <2> HIDE DEF next, ok
  <2> QED  BY <2>1, <2>2, RowReadStep
<1>17. CASE CheckDifference(r)
  <2> DEFINE ok == Book(entry) = Statement
  <2>1. pc[r] # "done" /\ job[r].op # "revert" /\ Read(r, {}, {}, ok, "unmatched")
    BY <1>17 DEF CheckDifference, At
  <2>2. {} \in SUBSET Txns /\ ok \in BOOLEAN
    OBVIOUS
  <2> HIDE DEF ok
  <2> QED  BY <1>3, <2>1, <2>2, RowReadStep
<1>18. CASE CheckUnmatched(r)
  <2> DEFINE ok == Unmatched = {}
  <2>1. pc[r] # "done" /\ job[r].op # "revert" /\ Read(r, {}, {}, ok, "write")
    BY <1>18 DEF CheckUnmatched, At
  <2>2. {} \in SUBSET Txns /\ ok \in BOOLEAN
    OBVIOUS
  <2> HIDE DEF ok
  <2> QED  BY <1>3, <2>1, <2>2, RowReadStep
<1> QED  BY <1>4, <1>5, <1>6, <1>7, <1>8, <1>9, <1>10, <1>11, <1>12, <1>13,
            <1>14, <1>15, <1>16, <1>17, <1>18

-----------------------------------------------------------------------------
(* The writes of rule applications and rollbacks. *)

\* Classifying eligible rows takes none from an application that stands.
LEMMA ClaimKeeps ==
    ASSUME IInv, NEW r \in Requests, pc[r] # "done", job[r].op \in {"apply", "single"},
           NEW G \in SUBSET Txns, \A t \in G : Eligible(row[t]),
           NEW B \in SUBSET G, Claim(r, G, B),
           Answer(r, "ok"), UNCHANGED <<period, job, mem>>
    PROVE  IInv' /\ RowsKept
<1>1. RowsTyped /\ HandlersTyped /\ record[r] = "absent"
  BY DEF IInv, TypeOK, RecordIsNew
<1>2. job[r] \in JobSet
  BY <1>1, JobTyped
<1> DEFINE status == IF job[r].review THEN "draft" ELSE "posted"
<1>3. /\ NewEntry(status, r) \in EntryRows
      /\ NewEntry(status, r).status = status
      /\ NewEntry(status, r).sealed = (status = "posted")
  BY NewEntryTyped
<1>4. /\ row' = [t \in Txns |->
                   IF t \in G
                   THEN [row[t] EXCEPT !.gl = job[r].gl, !.rule = TRUE, !.record = r,
                                       !.entry = IF t \in B THEN <<r, t>> ELSE @]
                   ELSE row[t]]
      /\ entry' = [e \in Entries |->
                     IF e[1] = r /\ e[2] \in B THEN NewEntry(status, r) ELSE entry[e]]
      /\ record' = IF G = {} THEN record ELSE [record EXCEPT ![r] = "applied"]
  BY DEF Claim
<1> HIDE DEF status
<1>5. row' \in [Txns -> Rows]
  <2> SUFFICES ASSUME NEW t \in Txns PROVE row'[t] \in Rows
    BY <1>4
  <2>1. row[t] \in Rows /\ <<r, t>> \in Entries /\ job[r].gl \in Accounts \union {Null}
    BY <1>1, <1>2, EntryIds DEF RowsTyped, JobSet
  <2>2. CASE t \notin G
    BY <1>4, <2>1, <2>2
  <2>3. CASE t \in G /\ t \in B
    BY <1>4, <2>1, <2>3 DEF Rows
  <2>4. CASE t \in G /\ t \notin B
    BY <1>4, <2>1, <2>4 DEF Rows
  <2> QED  BY <2>2, <2>3, <2>4
<1>6. entry' \in [Entries -> EntryRows]
  BY <1>1, <1>3, <1>4 DEF RowsTyped
<1>7. RowsTyped'
  BY <1>1, <1>4, <1>5, <1>6 DEF RowsTyped
<1>8. \A e \in Entries : entry[e].status # "absent" => entry'[e].status # "absent"
  BY <1>3, <1>4 DEF status
<1>9. LinksExist'
  <2> SUFFICES ASSUME NEW t \in Txns, row'[t].entry # Null
               PROVE  entry'[row'[t].entry].status # "absent"
    BY DEF LinksExist
  <2>1. CASE t \in B
    <3>1. row'[t].entry = <<r, t>>
      BY <1>1, <1>4, <2>1 DEF RowsTyped, Rows
    <3>2. <<r, t>> \in Entries /\ entry'[<<r, t>>] = NewEntry(status, r)
      BY <1>4, <2>1, EntryIds
    <3> QED  BY <1>3, <3>1, <3>2 DEF status
  <2>2. CASE t \notin B
    <3>1. row'[t].entry = row[t].entry
      <4>1. row[t] \in Rows
        BY <1>1 DEF RowsTyped
      <4>2. t \notin G => row'[t] = row[t]
        BY <1>4
      <4>3. t \in G => row'[t].entry = row[t].entry
        BY <1>4, <2>2, <4>1 DEF Rows
      <4> QED  BY <4>2, <4>3
    <3>2. row[t].entry \in Entries /\ entry[row[t].entry].status # "absent"
      BY <1>1, <3>1 DEF RowsTyped, Rows, LinksExist, IInv, TypeOK
    <3> QED  BY <1>8, <3>1, <3>2
  <2> QED  BY <2>1, <2>2
<1>10. PostedIsSealed'
  BY <1>3, <1>4 DEF PostedIsSealed, Posted, IInv, TypeOK
<1>11. /\ pc' = [pc EXCEPT ![r] = "done"] /\ res' = [res EXCEPT ![r] = "ok"]
       /\ UNCHANGED <<job, seen, batch, found>>
  BY DEF Answer, mem
<1>12. HandlersTyped'
  BY <1>1, <1>11, CrossedTyped DEF HandlersTyped, Labels, Answers
<1>13. FoundExist'
  BY <1>1, <1>8, <1>11 DEF FoundExist, HandlersTyped, IInv
<1>14. RecordIsNew'
  BY <1>1, <1>4, <1>11 DEF RecordIsNew, HandlersTyped, RowsTyped, IInv
<1>15. \A t \in Txns :
         /\ t \in G => row'[t].rule /\ row'[t].record = r
         /\ t \notin G => row'[t] = row[t]
  <2> SUFFICES ASSUME NEW t \in Txns
               PROVE  /\ t \in G => row'[t].rule /\ row'[t].record = r
                      /\ t \notin G => row'[t] = row[t]
    OBVIOUS
  <2>1. row[t] \in Rows
    BY <1>1 DEF RowsTyped
  <2> QED  BY <1>4, <2>1 DEF Rows
<1>16. \A t \in Txns, k \in Requests :
         row[t].record = k /\ record[k] = "applied" => t \notin G
  BY DEF AppliedRowsAreClaimed, IInv, Eligible
<1>17. \A k \in Requests : record'[k] = record[k] \/ (k = r /\ record'[k] = "applied")
  BY <1>1, <1>4 DEF RowsTyped
<1>18. AppliedRowsAreClaimed'
  <2> SUFFICES ASSUME NEW t \in Txns, NEW k \in Requests, row'[t].record = k
               PROVE  record'[k] # "absent" /\ (record'[k] = "applied" => row'[t].rule)
    BY DEF AppliedRowsAreClaimed
  <2>1. CASE t \in G
    <3>1. k = r /\ row'[t].rule
      BY <1>15, <2>1
    <3>2. record'[r] = "applied"
      BY <1>1, <1>4, <2>1 DEF RowsTyped
    <3> QED  BY <3>1, <3>2
  <2>2. CASE t \notin G
    <3>1. row[t].record = k /\ k # r
      BY <1>1, <1>15, <2>2 DEF AppliedRowsAreClaimed, IInv
    <3> QED  BY <1>15, <1>17, <2>2, <3>1 DEF AppliedRowsAreClaimed, IInv
  <2> QED  BY <2>1, <2>2
<1>19. RevertsOwnRows'
  <2> SUFFICES ASSUME NEW q \in Requests, job'[q].op = "revert", pc'[q] = "write"
               PROVE  /\ record'[job'[q].ref] # "absent"
                      /\ record'[job'[q].ref] = "applied"
                           => \A t \in batch'[q] : row'[t].record = job'[q].ref
    BY DEF RevertsOwnRows
  <2>1. job[q].op = "revert" /\ pc[q] = "write" /\ batch'[q] = batch[q]
    BY <1>1, <1>11 DEF HandlersTyped
  <2>2. job[q].ref \in Requests /\ batch[q] \in SUBSET Txns
    BY <1>1, <2>1, JobTyped DEF HandlersTyped
  <2>3. /\ record[job[q].ref] # "absent"
        /\ record[job[q].ref] = "applied"
              => \A t \in batch[q] : row[t].record = job[q].ref
    BY <2>1 DEF RevertsOwnRows, IInv
  <2>4. job[q].ref # r /\ record'[job[q].ref] = record[job[q].ref]
    BY <1>1, <1>17, <2>2, <2>3
  <2>5. ASSUME record[job[q].ref] = "applied", NEW t \in batch[q]
        PROVE  row'[t].record = job[q].ref
    <3>1. t \in Txns /\ row[t].record = job[q].ref
      BY <2>2, <2>3, <2>5
    <3>2. t \notin G
      BY <1>16, <2>2, <2>5, <3>1
    <3> QED  BY <1>15, <3>1, <3>2
  <2>6. job'[q].ref = job[q].ref /\ batch'[q] = batch[q]
    BY <1>11
  <2> QED  BY <2>3, <2>4, <2>5, <2>6
<1>20. RevertedIsReverted' /\ OneRevertWins'
  <2>1. \A q \in Requests :
          res'[q] = "reverted" => q # r /\ res[q] = "reverted" /\ pc'[q] = pc[q]
    BY <1>1, <1>11 DEF HandlersTyped
  <2>2. \A k \in Requests : record[k] = "reverted" => record'[k] = "reverted"
    BY <1>1, <1>17
  <2>3. \A q \in Requests : job[q].op = "revert" => job[q].ref \in Requests
    BY <1>1, JobTyped DEF HandlersTyped
  <2>4. RevertedIsReverted'
    BY <1>11, <2>1, <2>2, <2>3 DEF RevertedIsReverted, IInv
  <2>5. OneRevertWins'
    BY <1>11, <2>1 DEF OneRevertWins, IInv
  <2> QED  BY <2>4, <2>5
<1>21. RowsKept
  BY <1>15, <1>16 DEF RowsKept
<1>22. TypeOK'
  BY <1>7, <1>9, <1>10, <1>12 DEF TypeOK
<1> QED  BY <1>13, <1>14, <1>18, <1>19, <1>20, <1>21, <1>22 DEF IInv

\* Both kinds of rule application classify rows that are still eligible.
LEMMA AcquireKeeps ==
    ASSUME IInv, NEW r \in Requests, Acquire(r) \/ AcquireSingle(r)
    PROVE  IInv' /\ RowsKept
<1> DEFINE G == {t \in batch[r] : Eligible(row[t])}
<1>1. G \in SUBSET Txns /\ (\A t \in G : Eligible(row[t])) /\ {} \in SUBSET G /\ G \in SUBSET G
  BY DEF IInv, TypeOK, HandlersTyped
<1>2. PICK B \in SUBSET G : Claim(r, G, B)
  BY <1>1 DEF Acquire, AcquireSingle
<1>3. /\ pc[r] # "done" /\ job[r].op \in {"apply", "single"}
      /\ Answer(r, "ok") /\ UNCHANGED <<period, job, mem>>
  BY DEF Acquire, AcquireSingle, At
<1> HIDE DEF G
<1> QED  BY <1>1, <1>2, <1>3, ClaimKeeps

\* A rollback voids entries and frees the rows of the application it ends.
LEMMA RevertKeeps ==
    ASSUME IInv, NEW r \in Requests, Revert(r)
    PROVE  IInv' /\ RowsKept
<1> DEFINE k == job[r].ref
<1>1. RowsTyped /\ HandlersTyped /\ k \in Requests
  BY JobTyped DEF IInv, TypeOK, Revert, At
<1>2. /\ job[r].op = "revert" /\ pc[r] = "write" /\ record[k] = "applied"
      /\ entry' = Voided(entry, found[r]) /\ row' = Unlinked(r)
      /\ record' = [record EXCEPT ![k] = "reverted"]
      /\ pc' = [pc EXCEPT ![r] = "done"] /\ res' = [res EXCEPT ![r] = "reverted"]
      /\ UNCHANGED <<period, job, seen, batch, found>>
  BY DEF Revert, At, Answer, mem
<1>3. \A t \in batch[r] : row[t].record = k
  BY <1>2 DEF IInv, RevertsOwnRows
<1> HIDE DEF k
<1>4. /\ entry' \in [Entries -> EntryRows]
      /\ \A e \in Entries :
           /\ entry[e].status # "absent" => entry'[e].status # "absent"
           /\ entry'[e].status = "posted" => entry[e].status = "posted"
           /\ entry'[e].sealed = entry[e].sealed
  BY <1>1, <1>2, VoidedTyped DEF RowsTyped
<1>5. \A t \in Txns :
        /\ row'[t] \in Rows /\ row'[t].record = row[t].record
        /\ t \in batch[r] => row'[t].entry = Null
        /\ t \notin batch[r] => row'[t] = row[t]
  <2> SUFFICES ASSUME NEW t \in Txns
               PROVE  /\ row'[t] \in Rows /\ row'[t].record = row[t].record
                      /\ t \in batch[r] => row'[t].entry = Null
                      /\ t \notin batch[r] => row'[t] = row[t]
    OBVIOUS
  <2>1. row[t] \in Rows
    BY <1>1 DEF RowsTyped
  <2> QED  BY <1>2, <2>1 DEF Rows, Unlinked
<1>6. RowsTyped'
  BY <1>1, <1>2, <1>4, <1>5 DEF RowsTyped, Unlinked
<1>7. LinksExist'
  BY <1>1, <1>4, <1>5 DEF LinksExist, RowsTyped, Rows, IInv, TypeOK
<1>8. PostedIsSealed'
  BY <1>4 DEF PostedIsSealed, Posted, IInv, TypeOK
<1>9. HandlersTyped'
  <2>1. Answer(r, "reverted")
    BY DEF Revert
  <2> QED  BY <1>1, <1>2, <2>1, CrossedTyped DEF HandlersTyped, Labels, Answers
<1>10. FoundExist' /\ RecordIsNew'
  BY <1>1, <1>2, <1>4 DEF FoundExist, RecordIsNew, HandlersTyped, RowsTyped, IInv
<1>11. AppliedRowsAreClaimed'
  BY <1>1, <1>2, <1>3, <1>5 DEF AppliedRowsAreClaimed, RowsTyped, IInv
<1>12. RevertsOwnRows'
  <2> SUFFICES ASSUME NEW q \in Requests, job'[q].op = "revert", pc'[q] = "write"
               PROVE  /\ record'[job'[q].ref] # "absent"
                      /\ record'[job'[q].ref] = "applied"
                           => \A t \in batch'[q] : row'[t].record = job'[q].ref
    BY DEF RevertsOwnRows
  <2>1. job[q].op = "revert" /\ pc[q] = "write"
    BY <1>1, <1>2 DEF HandlersTyped
  <2>2. job[q].ref \in Requests /\ batch[q] \in SUBSET Txns
    BY <1>1, <2>1, JobTyped DEF HandlersTyped
  <2> QED  BY <1>1, <1>2, <1>5, <2>1, <2>2 DEF RevertsOwnRows, RowsTyped, IInv
<1>13. RevertedIsReverted'
  <2> SUFFICES ASSUME NEW q \in Requests, res'[q] = "reverted"
               PROVE  /\ job'[q].op = "revert" /\ pc'[q] = "done"
                      /\ record'[job'[q].ref] = "reverted"
    BY DEF RevertedIsReverted
  <2>1. CASE q = r
    BY <1>1, <1>2, <2>1 DEF HandlersTyped, RowsTyped, k
  <2>2. CASE q # r
    <3>1. job[q].op = "revert" /\ pc[q] = "done" /\ record[job[q].ref] = "reverted"
      BY <1>1, <1>2, <2>2 DEF RevertedIsReverted, IInv, HandlersTyped
    <3>2. job[q].ref \in Requests
      BY <1>1, <3>1, JobTyped
    <3> QED  BY <1>1, <1>2, <2>2, <3>1, <3>2 DEF HandlersTyped, RowsTyped
  <2> QED  BY <2>1, <2>2
<1>14. OneRevertWins'
  <2>1. \A q \in Requests : q # r /\ res'[q] = "reverted" => job[q].ref # k
    BY <1>1, <1>2 DEF RevertedIsReverted, IInv, HandlersTyped
  <2>2. \A q \in Requests : q # r => res'[q] = res[q]
    BY <1>1, <1>2 DEF HandlersTyped
  <2> QED  BY <1>2, <2>1, <2>2 DEF OneRevertWins, IInv, k
<1>15. RowsKept
  BY <1>5 DEF RowsKept
<1> QED
  BY <1>6, <1>7, <1>8, <1>9, <1>10, <1>11, <1>12, <1>13, <1>14, <1>15 DEF IInv, TypeOK

-----------------------------------------------------------------------------
(* The other writes leave the applications, and the rows they claim, alone. *)

\* A write of one row and of entries that keeps the links it does not change.
LEMMA BookStep ==
    ASSUME IInv, NEW r \in Requests, NEW a \in Answers \ {"reverted"}, pc[r] # "done",
           Answer(r, a), UNCHANGED <<record, period, job, mem>>,
           row' \in [Txns -> Rows], entry' \in [Entries -> EntryRows],
           \A t \in Txns : row'[t].record = row[t].record /\ (row[t].rule => row'[t].rule),
           \A t \in Txns : row'[t].entry \notin {Null, row[t].entry}
                               => entry'[row'[t].entry].status # "absent",
           \A e \in Entries :
             /\ entry[e].status # "absent" => entry'[e].status # "absent"
             /\ entry'[e].status = "posted"
                  => entry'[e].sealed \/ (entry[e].status = "posted" /\ entry'[e].sealed = entry[e].sealed)
    PROVE  IInv' /\ RowsKept
<1>1. RowsTyped'
  BY DEF RowsTyped, IInv, TypeOK
<1>2. LinksExist'
  <2> SUFFICES ASSUME NEW t \in Txns, row'[t].entry # Null
               PROVE  entry'[row'[t].entry].status # "absent"
    BY DEF LinksExist
  <2>1. CASE row'[t].entry = row[t].entry
    BY <2>1 DEF LinksExist, RowsTyped, Rows, IInv, TypeOK
  <2> QED  BY <2>1
<1>3. PostedIsSealed'
  BY DEF PostedIsSealed, Posted, IInv, TypeOK
<1> QED  BY <1>1, <1>2, <1>3, WriteStep

\* An import inserts rows, and links the entries it books.
LEMMA ImportKeeps ==
    ASSUME IInv, NEW r \in Requests, Import(r)
    PROVE  IInv' /\ RowsKept
<1> DEFINE T == job[r].txns \ Stored
           B == IF job[r].gl = Null THEN {} ELSE T
           n == NewEntry("posted", Null)
<1>1. /\ RowsTyped /\ HandlersTyped /\ job[r] \in JobSet /\ B \subseteq T
      /\ pc[r] # "done" /\ Answer(r, "ok") /\ UNCHANGED <<record, period, job, mem>>
  BY JobTyped DEF IInv, TypeOK, Import, At
<1>2. n \in EntryRows /\ n.status = "posted" /\ n.sealed
  BY NewEntryTyped
<1>3. PICK ruled \in BOOLEAN :
        row' = [t \in Txns |->
                  IF t \in T
                  THEN [Imported EXCEPT !.gl = job[r].gl, !.rule = ruled,
                                        !.entry = IF t \in B THEN <<r, t>> ELSE Null]
                  ELSE row[t]]
  BY DEF Import
<1>4. entry' = [e \in Entries |-> IF e[1] = r /\ e[2] \in B THEN n ELSE entry[e]]
  BY DEF Import
<1>5. \A t \in Txns : t \in T => row[t].record = Null /\ ~row[t].rule
  BY DEF Stored, Absent, Imported
<1> HIDE DEF B, T, n
<1>6. \A t \in Txns :
        /\ row'[t] \in Rows /\ row'[t].record = row[t].record
        /\ row[t].rule => row'[t].rule
        /\ row'[t].entry \in {Null, row[t].entry} \/ (t \in B /\ row'[t].entry = <<r, t>>)
  <2> SUFFICES ASSUME NEW t \in Txns
               PROVE  /\ row'[t] \in Rows /\ row'[t].record = row[t].record
                      /\ row[t].rule => row'[t].rule
                      /\ \/ row'[t].entry \in {Null, row[t].entry}
                         \/ t \in B /\ row'[t].entry = <<r, t>>
    OBVIOUS
  <2> DEFINE en == IF t \in B THEN <<r, t>> ELSE Null
  <2>1. /\ en \in Entries \union {Null} /\ job[r].gl \in Accounts \union {Null}
        /\ en = Null \/ (t \in B /\ en = <<r, t>>)
    BY <1>1, EntryIds DEF JobSet
  <2>2. CASE t \in T
    <3>1. row'[t] = [Imported EXCEPT !.gl = job[r].gl, !.rule = ruled, !.entry = en]
      BY <1>3, <2>2
    <3> HIDE DEF en
    <3> QED  BY <1>5, <2>1, <2>2, <3>1 DEF Imported, Rows
  <2>3. CASE t \notin T
    BY <1>1, <1>3, <2>3 DEF RowsTyped
  <2> QED  BY <2>2, <2>3
<1>7. row' \in [Txns -> Rows]
  BY <1>3, <1>6
<1>8. entry' \in [Entries -> EntryRows]
  BY <1>1, <1>2, <1>4 DEF RowsTyped
<1>9. /\ \A t \in B \intersect Txns : entry'[<<r, t>>].status # "absent"
      /\ \A e \in Entries :
           /\ entry[e].status # "absent" => entry'[e].status # "absent"
           /\ entry'[e].status = "posted" => entry'[e].sealed \/ entry'[e] = entry[e]
  BY <1>2, <1>4, EntryIds
<1>10. \A t \in Txns : row'[t].entry \notin {Null, row[t].entry}
                           => entry'[row'[t].entry].status # "absent"
  <2> SUFFICES ASSUME NEW t \in Txns, row'[t].entry \notin {Null, row[t].entry}
               PROVE  entry'[row'[t].entry].status # "absent"
    OBVIOUS
  <2>1. t \in B /\ row'[t].entry = <<r, t>>
    BY <1>6
  <2> QED  BY <1>9, <2>1
<1> QED  BY <1>1, <1>6, <1>7, <1>8, <1>9, <1>10, BookStep DEF Answers

\* Posting a draft seals it.
LEMMA PostKeeps ==
    ASSUME IInv, NEW r \in Requests, Post(r)
    PROVE  IInv' /\ RowsKept
<1>1. RowsTyped /\ HandlersTyped /\ Draft(r) \in Entries
  BY JobTyped, EntryIds DEF IInv, TypeOK, Post, At, Draft
<1>2. /\ pc[r] # "done" /\ UNCHANGED <<row, record, period, job, mem>>
  BY DEF Post, At
<1>7. PICK a \in Answers \ {"reverted"} : Answer(r, a)
  BY DEF Post, Answers
<1>3. \/ entry' = entry
      \/ entry' = [entry EXCEPT ![Draft(r)].status = "posted", ![Draft(r)].sealed = TRUE]
  BY DEF Post
<1>4. entry' \in [Entries -> EntryRows]
  BY <1>1, <1>3 DEF RowsTyped, EntryRows
<1>5. \A e \in Entries :
        /\ entry[e].status # "absent" => entry'[e].status # "absent"
        /\ entry'[e].status = "posted" => entry'[e].sealed \/ entry'[e] = entry[e]
  BY <1>1, <1>3 DEF RowsTyped, EntryRows
<1>6. row' \in [Txns -> Rows]
  BY <1>1, <1>2 DEF RowsTyped
<1> QED  BY <1>7, <1>2, <1>4, <1>5, <1>6, BookStep

\* A reconciliation links the entry it books.
LEMMA ReconcileKeeps ==
    ASSUME IInv, NEW r \in Requests, Reconcile(r)
    PROVE  IInv' /\ RowsKept
<1> DEFINE t == Txn(r)
           status == IF Warned(r) THEN "pending_review" ELSE "posted"
<1>1. /\ RowsTyped /\ HandlersTyped /\ job[r] \in JobSet /\ t \in Txns
      /\ pc[r] # "done" /\ Answer(r, "ok") /\ UNCHANGED <<record, period, job, mem>>
  BY JobTyped DEF IInv, TypeOK, Reconcile, At
<1>2. <<r, t>> \in Entries
  BY <1>1, EntryIds
<1>3. /\ NewEntry(status, Null) \in EntryRows
      /\ NewEntry(status, Null).status = status
      /\ NewEntry(status, Null).sealed = (status = "posted")
  BY NewEntryTyped
<1>4. \/ Creates(r) /\ entry' = [entry EXCEPT ![<<r, t>>] = NewEntry(status, Null)]
      \/ ~Creates(r) /\ entry' = entry
  BY DEF Reconcile
<1>5. row' = [row EXCEPT ![t] = Reconciled(row[t], r)]
  BY DEF Reconcile
<1> HIDE DEF t
<1>6. /\ row' \in [Txns -> Rows]
      /\ \A u \in Txns :
           /\ row'[u].record = row[u].record /\ row'[u].rule = row[u].rule
           /\ row'[u].entry = row[u].entry \/ (Creates(r) /\ row'[u].entry = <<r, t>>)
  <2>1. row[t] \in Rows /\ job[r].gl \in Accounts \union {Null}
        /\ job[r].ref \in Requests \union {Null}
    BY <1>1 DEF RowsTyped, JobSet
  <2> DEFINE x == row[t]
             y == Reconciled(x, r)
             gl == IF seen[r][t].entry = Null /\ job[r].gl # Null THEN job[r].gl ELSE x.gl
             st == IF Warned(r) THEN "pending_review" ELSE x.status
             pd == IF job[r].ref # Null THEN job[r].ref ELSE x.period
             en == IF Creates(r) THEN <<r, t>> ELSE x.entry
  <2>2. y = [x EXCEPT !.reconciled = TRUE, !.gl = gl, !.status = st,
                      !.period = pd, !.entry = en]
    BY DEF Reconciled, t
  <2>3. /\ gl \in Accounts \union {Null} /\ pd \in Requests \union {Null}
        /\ st \in {"absent", "posted", "pending_review", "suspense"}
        /\ en \in Entries \union {Null}
        /\ en = x.entry \/ (Creates(r) /\ en = <<r, t>>)
    BY <1>1, <1>2, <2>1 DEF Rows
  <2> HIDE DEF gl, st, pd, en, y
  <2>4. y \in Rows /\ y.record = x.record /\ y.rule = x.rule /\ y.entry = en
    BY <2>1, <2>2, <2>3 DEF Rows
  <2>5. row' = [row EXCEPT ![t] = y]
    BY <1>5 DEF y
  <2> HIDE DEF x
  <2> QED  BY <1>1, <2>3, <2>4, <2>5 DEF RowsTyped, x
<1>7. entry' \in [Entries -> EntryRows]
  BY <1>1, <1>3, <1>4 DEF RowsTyped
<1>8. \A e \in Entries :
        /\ entry[e].status # "absent" => entry'[e].status # "absent"
        /\ entry'[e].status = "posted" => entry'[e].sealed \/ entry'[e] = entry[e]
  BY <1>1, <1>2, <1>3, <1>4 DEF RowsTyped
<1>9. Creates(r) => entry'[<<r, t>>].status # "absent"
  BY <1>1, <1>2, <1>3, <1>4 DEF RowsTyped
<1> QED  BY <1>1, <1>6, <1>7, <1>8, <1>9, BookStep DEF Answers

\* Approving posts and seals the pending entry.
LEMMA ApproveKeeps ==
    ASSUME IInv, NEW r \in Requests, Approve(r)
    PROVE  IInv' /\ RowsKept
<1>1. /\ RowsTyped /\ Txn(r) \in Txns
      /\ pc[r] # "done" /\ Answer(r, "ok") /\ UNCHANGED <<record, period, job, mem>>
  BY JobTyped DEF IInv, TypeOK, Approve, At
<1>2. row' = [row EXCEPT ![Txn(r)].status = "posted"]
  BY DEF Approve
<1>3. \A e \in Entries :
        entry'[e] \in {entry[e], [entry[e] EXCEPT !.status = "posted", !.sealed = TRUE]}
  BY DEF Approve
<1>4. /\ row' \in [Txns -> Rows]
      /\ \A t \in Txns : /\ row'[t].record = row[t].record /\ row'[t].rule = row[t].rule
                         /\ row'[t].entry = row[t].entry
  BY <1>1, <1>2 DEF RowsTyped, Rows
<1>5. \A e \in Entries :
        /\ entry'[e] \in EntryRows
        /\ entry[e].status # "absent" => entry'[e].status # "absent"
        /\ entry'[e].status = "posted" => entry'[e].sealed \/ entry'[e] = entry[e]
  <2> SUFFICES ASSUME NEW e \in Entries
               PROVE  /\ entry'[e] \in EntryRows
                      /\ entry[e].status # "absent" => entry'[e].status # "absent"
                      /\ entry'[e].status = "posted" => entry'[e].sealed \/ entry'[e] = entry[e]
    OBVIOUS
  <2>1. entry[e] \in EntryRows
    BY <1>1 DEF RowsTyped
  <2>2. CASE entry'[e] = entry[e]
    BY <2>1, <2>2
  <2>3. CASE entry'[e] = [entry[e] EXCEPT !.status = "posted", !.sealed = TRUE]
    BY <2>1, <2>3 DEF EntryRows
  <2> QED  BY <1>3, <2>2, <2>3
<1>6. entry' \in [Entries -> EntryRows]
  <2>1. entry' = [e \in Entries |-> entry'[e]]
    BY DEF Approve
  <2> QED  BY <1>5, <2>1
<1> QED  BY <1>1, <1>4, <1>5, <1>6, BookStep DEF Answers

\* Rejecting voids the pending entry.
LEMMA RejectKeeps ==
    ASSUME IInv, NEW r \in Requests, Reject(r)
    PROVE  IInv' /\ RowsKept
<1> DEFINE gl == IF Suspense # Null THEN Suspense ELSE seen[r][Txn(r)].gl
<1>1. /\ RowsTyped /\ HandlersTyped /\ Txn(r) \in Txns
      /\ pc[r] # "done" /\ Answer(r, "ok") /\ UNCHANGED <<record, period, job, mem>>
  BY JobTyped DEF IInv, TypeOK, Reject, At
<1>2. row' = [row EXCEPT ![Txn(r)] =
                [@ EXCEPT !.status = "suspense", !.reconciled = FALSE, !.gl = gl]]
  BY DEF Reject
<1>3. gl \in Accounts \union {Null}
  BY <1>1, SuspenseAssumption DEF HandlersTyped, Rows
<1> HIDE DEF gl
<1>4. /\ row' \in [Txns -> Rows]
      /\ \A t \in Txns : /\ row'[t].record = row[t].record /\ row'[t].rule = row[t].rule
                         /\ row'[t].entry = row[t].entry
  <2>1. /\ row' = [u \in Txns |-> row'[u]]
        /\ \A t \in Txns :
             row'[t] = IF t = Txn(r)
                       THEN [row[t] EXCEPT !.status = "suspense", !.reconciled = FALSE, !.gl = gl]
                       ELSE row[t]
    BY <1>1, <1>2 DEF RowsTyped
  <2>2. \A t \in Txns : row[t] \in Rows
    BY <1>1 DEF RowsTyped
  <2> SUFFICES ASSUME NEW t \in Txns
               PROVE  /\ row'[t] \in Rows
                      /\ row'[t].record = row[t].record /\ row'[t].rule = row[t].rule
                      /\ row'[t].entry = row[t].entry
    BY <2>1
  <2>3. CASE t = Txn(r)
    <3>1. row'[t] = [row[t] EXCEPT !.status = "suspense", !.reconciled = FALSE, !.gl = gl]
      BY <2>1, <2>3
    <3> QED  BY <1>3, <2>2, <3>1 DEF Rows
  <2>4. CASE t # Txn(r)
    BY <2>1, <2>2, <2>4
  <2> QED  BY <2>3, <2>4
<1>5. entry' = Voided(entry, Pending(r))
  BY DEF Reject
<1>6. entry' \in [Entries -> EntryRows]
  BY <1>1, <1>5, VoidedTyped DEF RowsTyped
<1>7. \A e \in Entries :
        /\ entry[e].status # "absent" => entry'[e].status # "absent"
        /\ entry'[e].status = "posted" => entry[e].status = "posted"
        /\ entry'[e].sealed = entry[e].sealed
  BY <1>1, <1>5, VoidedTyped DEF RowsTyped
<1> QED  BY <1>1, <1>4, <1>6, <1>7, BookStep DEF Answers

\* Reclassifying voids the entry it read and links the one it books.
LEMMA ReclassifyKeeps ==
    ASSUME IInv, NEW r \in Requests, Reclassify(r)
    PROVE  IInv' /\ RowsKept
<1> DEFINE t == Txn(r)
           V == Voided(entry, {seen[r][Txn(r)].entry} \ {Null})
           n == NewEntry("posted", Null)
<1>1. /\ RowsTyped /\ t \in Txns /\ job[r] \in JobSet
      /\ pc[r] # "done" /\ Answer(r, "ok") /\ UNCHANGED <<record, period, job, mem>>
  BY JobTyped DEF IInv, TypeOK, Reclassify, At
<1>2. <<r, t>> \in Entries /\ n \in EntryRows /\ n.status = "posted" /\ n.sealed
  BY <1>1, EntryIds, NewEntryTyped
<1>3. /\ V \in [Entries -> EntryRows]
      /\ \A e \in Entries :
           /\ entry[e].status # "absent" => V[e].status # "absent"
           /\ V[e].status = "posted" => entry[e].status = "posted"
           /\ V[e].sealed = entry[e].sealed
  BY <1>1, VoidedTyped DEF RowsTyped
<1>4. /\ row' = [row EXCEPT ![t].gl = job[r].gl, ![t].entry = <<r, t>>]
      /\ entry' = [V EXCEPT ![<<r, t>>] = n]
  BY DEF Reclassify
<1> HIDE DEF t, V, n
<1>5. /\ row' \in [Txns -> Rows]
      /\ \A u \in Txns :
           /\ row'[u].record = row[u].record /\ row'[u].rule = row[u].rule
           /\ row'[u].entry \in {row[u].entry, <<r, t>>}
  <2> DEFINE y == [row[t] EXCEPT !.gl = job[r].gl, !.entry = <<r, t>>]
  <2>1. row' = [row EXCEPT ![t] = y]
    BY <1>4
  <2>2. row[t] \in Rows /\ job[r].gl \in Accounts \union {Null}
    BY <1>1 DEF RowsTyped, JobSet
  <2>3. /\ y \in Rows /\ y.record = row[t].record /\ y.rule = row[t].rule
        /\ y.entry = <<r, t>>
    BY <1>2, <2>2 DEF Rows
  <2> HIDE DEF y
  <2> QED  BY <1>1, <2>1, <2>3 DEF RowsTyped
<1>6. entry' \in [Entries -> EntryRows]
  BY <1>2, <1>3, <1>4
<1>7. /\ entry'[<<r, t>>].status # "absent"
      /\ \A e \in Entries :
           /\ entry[e].status # "absent" => entry'[e].status # "absent"
           /\ entry'[e].status = "posted"
                => entry'[e].sealed
                   \/ (entry[e].status = "posted" /\ entry'[e].sealed = entry[e].sealed)
  BY <1>2, <1>3, <1>4
<1> QED  BY <1>1, <1>5, <1>6, <1>7, BookStep DEF Answers

\* Matching writes a row of its columns.
LEMMA MatchedTyped ==
    ASSUME NEW x \in Rows, NEW r \in Requests, job[r] \in JobSet
    PROVE  /\ Matched(x, r) \in Rows
           /\ Matched(x, r).record = x.record /\ Matched(x, r).rule = x.rule
           /\ Matched(x, r).entry = x.entry
<1> DEFINE pd == IF job[r].ref # Null THEN job[r].ref ELSE x.period
<1>1. pd \in Requests \union {Null} /\ job[r].gl \in Accounts \union {Null}
  BY DEF Rows, JobSet
<1>2. Matched(x, r) = [x EXCEPT !.reconciled = TRUE, !.gl = job[r].gl, !.period = pd]
  BY DEF Matched
<1> HIDE DEF pd
<1> QED  BY <1>1, <1>2 DEF Rows

\* A match by rule links the entries it books.
LEMMA MatchByRuleKeeps ==
    ASSUME IInv, NEW r \in Requests, MatchByRule(r)
    PROVE  IInv' /\ RowsKept
<1> DEFINE B == {t \in batch[r] : job[r].entries /\ seen[r][t].entry = Null}
           n == NewEntry("posted", Null)
<1>1. /\ RowsTyped /\ HandlersTyped /\ job[r] \in JobSet
      /\ pc[r] # "done" /\ Answer(r, "ok") /\ UNCHANGED <<record, period, job, mem>>
  BY JobTyped DEF IInv, TypeOK, MatchByRule, At
<1>2. n \in EntryRows /\ n.status = "posted" /\ n.sealed
  BY NewEntryTyped
<1>3. /\ row' = [t \in Txns |->
                   IF t \in batch[r]
                   THEN [Matched(row[t], r) EXCEPT
                           !.rule = TRUE, !.entry = IF t \in B THEN <<r, t>> ELSE @]
                   ELSE row[t]]
      /\ entry' = [e \in Entries |-> IF e[1] = r /\ e[2] \in B THEN n ELSE entry[e]]
  BY DEF MatchByRule
<1> HIDE DEF B, n
<1>4. \A t \in Txns :
        /\ row'[t] \in Rows /\ row'[t].record = row[t].record
        /\ row[t].rule => row'[t].rule
        /\ row'[t].entry = row[t].entry \/ (t \in B /\ row'[t].entry = <<r, t>>)
  <2> SUFFICES ASSUME NEW t \in Txns
               PROVE  /\ row'[t] \in Rows /\ row'[t].record = row[t].record
                      /\ row[t].rule => row'[t].rule
                      /\ row'[t].entry = row[t].entry \/ (t \in B /\ row'[t].entry = <<r, t>>)
    OBVIOUS
  <2> DEFINE x == Matched(row[t], r)
             en == IF t \in B THEN <<r, t>> ELSE x.entry
  <2>1. /\ row[t] \in Rows
        /\ x \in Rows /\ x.record = row[t].record /\ x.rule = row[t].rule
        /\ x.entry = row[t].entry
    BY <1>1, MatchedTyped DEF RowsTyped
  <2>2. /\ en \in Entries \union {Null}
        /\ en = row[t].entry \/ (t \in B /\ en = <<r, t>>)
    BY <2>1, EntryIds DEF Rows
  <2>3. CASE t \in batch[r]
    <3>1. row'[t] = [x EXCEPT !.rule = TRUE, !.entry = en]
      BY <1>3, <2>3
    <3> HIDE DEF x, en
    <3>2. row'[t] \in Rows /\ row'[t].record = x.record /\ row'[t].rule /\ row'[t].entry = en
      BY <2>1, <2>2, <3>1 DEF Rows
    <3> QED  BY <2>1, <2>2, <3>2
  <2>4. CASE t \notin batch[r]
    BY <1>3, <2>1, <2>4
  <2> QED  BY <2>3, <2>4
<1>5. row' \in [Txns -> Rows]
  BY <1>3, <1>4
<1>6. entry' \in [Entries -> EntryRows]
  BY <1>1, <1>2, <1>3 DEF RowsTyped
<1>7. /\ \A t \in B \intersect Txns : entry'[<<r, t>>].status # "absent"
      /\ \A e \in Entries :
           /\ entry[e].status # "absent" => entry'[e].status # "absent"
           /\ entry'[e].status = "posted" => entry'[e].sealed \/ entry'[e] = entry[e]
  BY <1>2, <1>3, EntryIds
<1>8. \A t \in Txns : row'[t].entry \notin {Null, row[t].entry}
                          => entry'[row'[t].entry].status # "absent"
  <2> SUFFICES ASSUME NEW t \in Txns, row'[t].entry \notin {Null, row[t].entry}
               PROVE  entry'[row'[t].entry].status # "absent"
    OBVIOUS
  <2>1. t \in B /\ row'[t].entry = <<r, t>>
    BY <1>4
  <2> QED  BY <1>7, <2>1
<1> QED  BY <1>1, <1>4, <1>5, <1>6, <1>7, <1>8, BookStep DEF Answers

\* A match by amount links an entry that was found, hence exists.
LEMMA MatchByAmountKeeps ==
    ASSUME IInv, NEW r \in Requests, MatchByAmount(r)
    PROVE  IInv' /\ RowsKept
<1> DEFINE t == Txn(r)
           x == Matched(row[t], r)
<1>1. /\ RowsTyped /\ HandlersTyped /\ job[r] \in JobSet /\ t \in Txns
      /\ pc[r] # "done" /\ Answer(r, "ok") /\ UNCHANGED <<entry, record, period, job, mem>>
  BY JobTyped DEF IInv, TypeOK, MatchByAmount, At
<1>2. found[r] \in SUBSET Entries /\ \A e \in found[r] : entry[e].status # "absent"
  BY <1>1 DEF IInv, FoundExist, HandlersTyped, MatchByAmount, At
<1>3. \/ row' = row
      \/ \E e \in found[r] : row' = [row EXCEPT ![t] = [x EXCEPT !.entry = e]]
  BY DEF MatchByAmount
<1>4. x \in Rows /\ x.record = row[t].record /\ x.rule = row[t].rule
  BY <1>1, MatchedTyped DEF RowsTyped
<1> HIDE DEF t, x
<1>5. CASE row' = row
  BY <1>1, <1>5, RowStep DEF RowsTyped, Answers
<1>6. ASSUME NEW e \in found[r], row' = [row EXCEPT ![t] = [x EXCEPT !.entry = e]]
      PROVE  IInv' /\ RowsKept
  <2>1. /\ row' \in [Txns -> Rows]
        /\ \A u \in Txns : /\ row'[u].record = row[u].record /\ row'[u].rule = row[u].rule
                           /\ row'[u].entry \in {row[u].entry, e}
    <3>1. /\ [x EXCEPT !.entry = e] \in Rows
          /\ [x EXCEPT !.entry = e].record = x.record /\ [x EXCEPT !.entry = e].rule = x.rule
          /\ [x EXCEPT !.entry = e].entry = e
      BY <1>2, <1>4 DEF Rows
    <3> QED  BY <1>1, <1>4, <1>6, <3>1 DEF RowsTyped
  <2> QED  BY <1>1, <1>2, <2>1, RowStep DEF Answers
<1> QED  BY <1>3, <1>5, <1>6

\* Undoing and ignoring touch no link.
LEMMA RowWritesKeep ==
    ASSUME IInv, NEW r \in Requests, Unreconcile(r) \/ Ignore(r)
    PROVE  IInv' /\ RowsKept
<1>1. /\ RowsTyped
      /\ pc[r] # "done" /\ Answer(r, "ok") /\ UNCHANGED <<entry, record, period, job, mem>>
  BY DEF IInv, TypeOK, Unreconcile, Ignore, At
<1>2. row' = [t \in Txns |-> row'[t]]
  BY DEF Unreconcile, Ignore
<1>3. \A t \in Txns : \/ row'[t] = row[t]
                      \/ row'[t] = [row[t] EXCEPT !.reconciled = FALSE, !.period = Null]
                      \/ row'[t] = [row[t] EXCEPT !.ignored = (job[r].op = "ignore")]
  BY DEF Unreconcile, Ignore
<1>4. \A t \in Txns : /\ row'[t] \in Rows /\ row'[t].record = row[t].record
                      /\ row'[t].rule = row[t].rule /\ row'[t].entry = row[t].entry
  <2> SUFFICES ASSUME NEW t \in Txns
               PROVE  /\ row'[t] \in Rows /\ row'[t].record = row[t].record
                      /\ row'[t].rule = row[t].rule /\ row'[t].entry = row[t].entry
    OBVIOUS
  <2>1. row[t] \in Rows
    BY <1>1 DEF RowsTyped
  <2>2. CASE row'[t] = row[t]
    BY <2>1, <2>2
  <2>3. CASE row'[t] = [row[t] EXCEPT !.reconciled = FALSE, !.period = Null]
    BY <2>1, <2>3 DEF Rows
  <2>4. CASE row'[t] = [row[t] EXCEPT !.ignored = (job[r].op = "ignore")]
    <3> DEFINE b == job[r].op = "ignore"
    <3>1. b \in BOOLEAN
      OBVIOUS
    <3>2. row'[t] = [row[t] EXCEPT !.ignored = b]
      BY <2>4
    <3> HIDE DEF b
    <3> QED  BY <2>1, <3>1, <3>2 DEF Rows
  <2> QED  BY <1>3, <2>2, <2>3, <2>4
<1>5. row' \in [Txns -> Rows]
  BY <1>2, <1>4
<1> QED  BY <1>1, <1>4, <1>5, RowStep DEF Answers

\* An adjustment books an entry no row links.
LEMMA AdjustKeeps ==
    ASSUME IInv, NEW r \in Requests, Adjust(r)
    PROVE  IInv' /\ RowsKept
<1> DEFINE n == NewEntry("posted", Null)
<1>1. /\ RowsTyped /\ <<r, Null>> \in Entries
      /\ n \in EntryRows /\ n.status = "posted" /\ n.sealed
  BY EntryIds, NewEntryTyped DEF IInv, TypeOK
<1>2. /\ pc[r] # "done" /\ Answer(r, "ok") /\ UNCHANGED <<row, record, period, job, mem>>
      /\ entry' = [entry EXCEPT ![<<r, Null>>] = n]
  BY DEF Adjust, At
<1> HIDE DEF n
<1>3. /\ entry' \in [Entries -> EntryRows]
      /\ \A e \in Entries :
           /\ entry[e].status # "absent" => entry'[e].status # "absent"
           /\ entry'[e].status = "posted" => entry'[e].sealed \/ entry'[e] = entry[e]
  BY <1>1, <1>2 DEF RowsTyped
<1>4. row' \in [Txns -> Rows] /\ row' = row
  BY <1>1, <1>2 DEF RowsTyped
<1> QED  BY <1>2, <1>3, <1>4, BookStep DEF Answers

\* A period changes its status only; a handler that ends changes nothing.
LEMMA PeriodWritesKeep ==
    ASSUME IInv, NEW r \in Requests, Start(r) \/ Complete(r) \/ Cancel(r) \/ Fail(r)
    PROVE  IInv' /\ RowsKept
<1>1. RowsTyped /\ HandlersTyped /\ LinksExist /\ PostedIsSealed
  BY DEF IInv, TypeOK
<1>2. /\ pc[r] # "done" /\ UNCHANGED <<row, entry, record, job, mem>>
      /\ \E a \in Answers \ {"reverted"} : Answer(r, a)
  BY DEF Start, Complete, Cancel, Fail, At, books, Answers
<1>3. PICK a \in Answers \ {"reverted"} : Answer(r, a)
  BY <1>2
<1>4. period' \in [Requests -> {"absent", "open", "completed", "cancelled"}]
  BY <1>1 DEF RowsTyped, Start, Complete, Cancel, Fail, books
<1>5. RowsTyped' /\ LinksExist' /\ PostedIsSealed'
  BY <1>1, <1>2, <1>4 DEF RowsTyped, LinksExist, PostedIsSealed, Posted
<1> QED  BY <1>2, <1>3, <1>5, WriteStep

\* Cancelling takes the rows out of the period before it changes the period.
LEMMA UnlinkKeeps ==
    ASSUME IInv, NEW r \in Requests, Unlink(r)
    PROVE  IInv' /\ RowsKept
<1>1. RowsTyped /\ HandlersTyped /\ job[r].op = "cancel" /\ pc[r] # "done"
  BY DEF IInv, TypeOK, Unlink, At
<1>2. /\ row' = [t \in Txns |-> IF row[t].period = job[r].ref
                                THEN [row[t] EXCEPT !.period = Null] ELSE row[t]]
      /\ pc' = [pc EXCEPT ![r] = "write"]
      /\ UNCHANGED <<entry, record, period, job, seen, batch, found, res, crossed>>
  BY DEF Unlink, Goto, mem
<1>3. \A t \in Txns : /\ row'[t] \in Rows /\ row'[t].record = row[t].record
                      /\ row'[t].rule = row[t].rule /\ row'[t].entry = row[t].entry
  <2> SUFFICES ASSUME NEW t \in Txns
               PROVE  /\ row'[t] \in Rows /\ row'[t].record = row[t].record
                      /\ row'[t].rule = row[t].rule /\ row'[t].entry = row[t].entry
    OBVIOUS
  <2>1. row[t] \in Rows
    BY <1>1 DEF RowsTyped
  <2> QED  BY <1>2, <2>1 DEF Rows
<1>4. RowsTyped'
  BY <1>1, <1>2, <1>3 DEF RowsTyped
<1>5. LinksExist' /\ PostedIsSealed'
  BY <1>2, <1>3 DEF LinksExist, PostedIsSealed, Posted, IInv, TypeOK
<1>6. HandlersTyped'
  BY <1>1, <1>2 DEF HandlersTyped, Labels
<1>7. FoundExist' /\ RecordIsNew' /\ AppliedRowsAreClaimed'
  BY <1>1, <1>2, <1>3 DEF FoundExist, RecordIsNew, AppliedRowsAreClaimed, HandlersTyped, IInv
<1>8. RevertsOwnRows'
  BY <1>1, <1>2, <1>3 DEF RevertsOwnRows, HandlersTyped, IInv
<1>9. RevertedIsReverted' /\ OneRevertWins'
  BY <1>1, <1>2 DEF RevertedIsReverted, OneRevertWins, HandlersTyped, IInv
<1>10. RowsKept
  BY <1>3 DEF RowsKept
<1> QED  BY <1>4, <1>5, <1>6, <1>7, <1>8, <1>9, <1>10 DEF IInv, TypeOK

-----------------------------------------------------------------------------
(* The theorems. *)

\* The invariant is inductive.
LEMMA IInvStep == IInv /\ [Next]_vars => IInv' /\ [RowsKept]_vars
<1> SUFFICES ASSUME IInv, [Next]_vars PROVE IInv' /\ [RowsKept]_vars
  OBVIOUS
<1>1. CASE UNCHANGED vars
  BY <1>1 DEF vars, books, mem, IInv, TypeOK, RowsTyped, HandlersTyped, LinksExist,
       PostedIsSealed, Posted, FoundExist, RecordIsNew, AppliedRowsAreClaimed,
       RevertsOwnRows, RevertedIsReverted, OneRevertWins
<1>2. ASSUME Next PROVE IInv' /\ RowsKept
  <2> USE <1>2
  <2>1. PICK r \in Requests :
          \/ Match(r) \/ Reread(r) \/ ReadRecord(r) \/ ReadDraft(r) \/ Find(r)
             \/ ReadReview(r) \/ ReadRow(r) \/ Scan(r) \/ ReadReconciled(r)
             \/ CheckPeriods(r) \/ ReadIgnored(r) \/ ReadOpen(r) \/ ReadPeriod(r)
             \/ CheckDifference(r) \/ CheckUnmatched(r)
          \/ Import(r)
          \/ Acquire(r) \/ AcquireSingle(r) \/ Revert(r) \/ Post(r) \/ Reconcile(r)
          \/ Approve(r) \/ Reject(r) \/ Reclassify(r) \/ MatchByRule(r)
          \/ MatchByAmount(r) \/ Unreconcile(r) \/ Ignore(r) \/ Adjust(r)
          \/ Start(r) \/ Complete(r) \/ Cancel(r) \/ Fail(r) \/ Unlink(r)
    BY DEF Next
  <2> QED
    BY <2>1, ReadsKeep, ImportKeeps, AcquireKeeps, RevertKeeps, PostKeeps, ReconcileKeeps, ApproveKeeps,
       RejectKeeps, ReclassifyKeeps, MatchByRuleKeeps, MatchByAmountKeeps, RowWritesKeep,
       AdjustKeeps, PeriodWritesKeep, UnlinkKeeps
<1> QED  BY <1>1, <1>2

\* The invariant holds in every reachable state.
LEMMA IInvHolds == Spec => []IInv
<1> QED  BY InitIInv, IInvStep, PTL DEF Spec

\* Rows, entries and handlers keep the columns and statuses of the schema, a row
\* links an entry that exists, and a posted entry is sealed.
THEOREM BankTypeOK == Spec => []TypeOK
<1>1. IInv => TypeOK
  BY DEF IInv
<1> QED  BY <1>1, IInvHolds, PTL

\* Of the reverts of one application, one succeeds.
THEOREM OneRevertOfAnApplicationWins == Spec => []OneRevertWins
<1>1. IInv => OneRevertWins
  BY DEF IInv
<1> QED  BY <1>1, IInvHolds, PTL

\* A rule application that stands keeps every row it acquired (ADR-013).
THEOREM ApplicationsKeepTheirRows == Spec => AppliedKeepsItsRows
<1>1. IInv /\ [Next]_vars
        => [\A t \in Txns, k \in Requests :
              row[t].record = k /\ record[k] = "applied" /\ record'[k] = "applied"
                  => row'[t].record = k]_vars
  BY IInvStep DEF RowsKept
<1> QED  BY <1>1, IInvHolds, PTL DEF Spec, AppliedKeepsItsRows
-----------------------------------------------------------------------------
(* Whose entries, rows and batches are: what the theorems below need  *)
(* of every state, whatever the requests are.                                *)

\* A handler goes on with rows it was asked about; a rollback, with those it read.
BatchIsAsked ==
    \A r \in Requests : job[r].op # "revert" => batch[r] \subseteq job[r].txns

\* An entry is made by the request it names, for a transaction it was asked about.
\* Only an application leaves drafts, and marks its entries with its record; only
\* a reconciliation asks for a review.
Made(e) ==
    /\ job[e[1]].op \in {"import", "apply", "reconcile", "reclassify", "autoRule", "adjust"}
    /\ e[2] # Null => e[2] \in job[e[1]].txns
    /\ entry[e].record = IF job[e[1]].op = "apply" THEN e[1] ELSE Null
    /\ entry[e].status = "draft" => job[e[1]].op = "apply"
    /\ entry[e].status = "pending_review" => job[e[1]].op = "reconcile" /\ e[2] # Null
    /\ job[e[1]].op = "apply" => record[e[1]] # "absent"

EntriesAreOwn ==
    \A e \in Entries : IF entry[e].status = "absent" THEN entry[e].record = Null ELSE Made(e)

\* A row names the application that acquired it, which was asked about it.
RowsAreOwn ==
    \A t \in Txns :
      row[t].record # Null => /\ job[row[t].record].op \in {"apply", "single"}
                              /\ t \in job[row[t].record].txns

\* Only a request that names the application reverts it.
UndoneByRevert ==
    \A k \in Requests :
      record[k] = "reverted" => \E r \in Requests : job[r].op = "revert" /\ job[r].ref = k

\* What is posted from review is the entry of an application.
DraftsAreOfApplications ==
    \A r \in Requests :
      job[r].op = "post" /\ pc[r] = "write"
          => entry[Draft(r)].status # "absent" /\ job[job[r].ref].op = "apply"

\* What a handler read a row to link exists.
SeenExist ==
    \A r \in Requests, t \in Txns :
      seen[r][t].entry # Null => entry[seen[r][t].entry].status # "absent"

\* A rollback finds entries of its application only.
FoundAreOwn ==
    \A r \in Requests :
      job[r].op = "revert" /\ pc[r] = "write" => \A e \in found[r] : e[1] = job[r].ref

Origins ==
    /\ BatchIsAsked /\ EntriesAreOwn /\ RowsAreOwn
    /\ UndoneByRevert /\ DraftsAreOfApplications /\ SeenExist /\ FoundAreOwn

-----------------------------------------------------------------------------
(* The mixes of requests some theorems are about. *)

\* No draft is posted of an application that somebody rolls back.
PostsApart ==
    \A q, r \in Requests :
      job[q].op = "revert" /\ job[r].op = "post" => job[q].ref # job[r].ref

-----------------------------------------------------------------------------
(* A rollback and the entries of its application. *)

\* A rollback that can still win has found every entry in force of its application.
FoundCovers ==
    \A r \in Requests :
      job[r].op = "revert" /\ pc[r] = "write" /\ record[job[r].ref] = "applied"
          => \A e \in Entries :
               entry[e].record = job[r].ref /\ entry[e].status # "void" => e \in found[r]

RevertInv == PostsApart => FoundCovers /\ RevertIsWhole

-----------------------------------------------------------------------------
(* Entries in force and the rows that link them. *)

InForce(e) == entry[e].status \in {"draft", "pending_review", "posted"}

\* Every entry in force made for a transaction that no handler has crossed is the
\* one the transaction links, and if the entry awaits review, so does the row.
LinkInv ==
    \A e \in Entries :
      InForce(e) /\ e[2] \notin crossed \union {Null}
          => /\ row[e[2]].entry = e
             /\ entry[e].status = "pending_review" => row[e[2]].status = "pending_review"

-----------------------------------------------------------------------------
(* The stored balance. *)

\* Without an approval, which posts an entry and refreshes nothing, the stored
\* balance is the sum of the posted entries.
NoApproval == \A r \in Requests : job[r].op # "approve"

\* What a set of entries sums to, under given jobs.
SumOf(P, j) ==
    MapThenSumSet(LAMBDA e : IF e[2] = Null THEN j[e[1]].amount ELSE Amount[e[2]], P)

BalanceInv == NoApproval => balance = SumOf(Posted(entry), job)
-----------------------------------------------------------------------------
(* What each write does to the rows, entries and records: the columns that the *)
(* properties above are about.                                                 *)

\* The link, application and review of a row, and its match, stay as they are.
SameLink(t) ==
    /\ row'[t].entry = row[t].entry /\ row'[t].record = row[t].record
    /\ row'[t].status = row[t].status

SameRow(t) ==
    /\ SameLink(t)
    /\ row'[t].reconciled = row[t].reconciled /\ row'[t].ignored = row[t].ignored

\* The memory and the position of every handler but r.
OthersWait(r) ==
    \A q \in Requests \ {r} :
      /\ pc'[q] = pc[q] /\ seen'[q] = seen[q]
      /\ batch'[q] = batch[q] /\ found'[q] = found[q]

\* A handler that ends remembers nothing new.
Ended(r) ==
    /\ UNCHANGED <<job, seen, batch, found>>
    /\ pc'[r] = "done" /\ OthersWait(r)

\* An answer ends the handler and touches no other.
LEMMA AnswerEnds ==
    ASSUME HandlersTyped, NEW r \in Requests, NEW a, Answer(r, a), UNCHANGED <<job, mem>>
    PROVE  Ended(r)
BY DEF Ended, OthersWait, Answer, mem, HandlersTyped

\* Inserts the rows T, which are not there yet, and books those in B.
Inserts(r, T, B) ==
    /\ B \subseteq T /\ T \subseteq job[r].txns
    /\ \A t \in Txns :
         /\ row'[t].record = row[t].record
         /\ t \notin T => row'[t] = row[t]
         /\ t \in T => /\ row[t].entry = Null
                       /\ row'[t].entry = IF t \in B THEN <<r, t>> ELSE Null
    /\ \A e \in Entries :
         IF e[1] = r /\ e[2] \in B THEN entry'[e] = NewEntry("posted", Null)
         ELSE entry'[e] = entry[e]
    /\ balance' = IF B = {} THEN balance ELSE Book(entry')

\* An import adds rows and the entries that book them, and changes no other.
LEMMA ImportDoes ==
    ASSUME IInv, NEW r \in Requests, Import(r)
    PROVE  /\ Ended(r) /\ job[r].op = "import" /\ pc[r] = "begin"
           /\ UNCHANGED <<record, period>>
           /\ \E T \in SUBSET Txns, B \in SUBSET Txns : Inserts(r, T, B)
<1> DEFINE T == job[r].txns \ Stored
           B == IF job[r].gl = Null THEN {} ELSE T
<1>1. /\ RowsTyped /\ HandlersTyped /\ job[r] \in JobSet /\ Answer(r, "ok")
      /\ UNCHANGED <<record, period, job, mem>>
      /\ job[r].op = "import" /\ pc[r] = "begin"
      /\ entry' = [e \in Entries |->
                     IF e[1] = r /\ e[2] \in B THEN NewEntry("posted", Null) ELSE entry[e]]
      /\ balance' = IF B = {} THEN balance ELSE Book(entry')
  BY JobTyped DEF IInv, TypeOK, Import, At
<1>2. PICK ruled \in BOOLEAN :
        row' = [t \in Txns |->
                  IF t \in T
                  THEN [Imported EXCEPT !.gl = job[r].gl, !.rule = ruled,
                                        !.entry = IF t \in B THEN <<r, t>> ELSE Null]
                  ELSE row[t]]
  BY DEF Import
<1>3. Ended(r) /\ T \in SUBSET Txns /\ B \in SUBSET T /\ B \in SUBSET Txns /\ T \subseteq job[r].txns
  BY <1>1, AnswerEnds DEF JobSet
<1>4. \A t \in Txns : t \in T => row[t].entry = Null /\ row[t].record = Null
  BY DEF Stored, Absent, Imported
<1> HIDE DEF B, T
<1>5. Inserts(r, T, B)
  BY <1>1, <1>2, <1>3, <1>4 DEF Inserts, Imported
<1> QED  BY <1>1, <1>3, <1>5

\* Acquires the rows G, and books those in B.
Acquires(r, G, B) ==
    /\ B \subseteq G /\ (job[r].op = "single" => B = {})
    /\ \A t \in Txns :
         /\ row'[t].status = row[t].status
         /\ row'[t].reconciled = row[t].reconciled
         /\ row'[t].ignored = row[t].ignored
         /\ t \notin G => SameLink(t)
         /\ t \in G => /\ Eligible(row[t]) /\ row'[t].record = r
                       /\ row'[t].entry = IF t \in B THEN <<r, t>> ELSE Null
    /\ \A e \in Entries :
         IF e[1] = r /\ e[2] \in B
         THEN entry'[e] = NewEntry(IF job[r].review THEN "draft" ELSE "posted", r)
         ELSE entry'[e] = entry[e]
    /\ record' = IF G = {} THEN record ELSE [record EXCEPT ![r] = "applied"]
    /\ balance' = IF job[r].review \/ B = {} THEN balance ELSE Book(entry')

\* A rule application links, marks and books rows that were eligible.
LEMMA AcquireDoes ==
    ASSUME IInv, NEW r \in Requests, Acquire(r) \/ AcquireSingle(r)
    PROVE  /\ Ended(r) /\ job[r].op \in {"apply", "single"} /\ pc[r] = "write"
           /\ UNCHANGED period
           /\ \E G \in SUBSET batch[r], B \in SUBSET Txns : Acquires(r, G, B)
<1> DEFINE G == {t \in batch[r] : Eligible(row[t])}
<1>1. /\ RowsTyped /\ HandlersTyped /\ Answer(r, "ok") /\ UNCHANGED <<period, job, mem>>
      /\ job[r].op \in {"apply", "single"} /\ pc[r] = "write"
  BY DEF IInv, TypeOK, Acquire, AcquireSingle, At
<1>2. batch[r] \in SUBSET Txns
  BY <1>1 DEF HandlersTyped
<1>3. PICK B \in SUBSET G : Claim(r, G, B) /\ (job[r].op = "single" => B = {})
  <2>1. CASE Acquire(r)
    <3>1. job[r].op = "apply" /\ Claim(r, G, IF job[r].gl = Null THEN {} ELSE G)
      BY <2>1 DEF Acquire, At
    <3>2. (IF job[r].gl = Null THEN {} ELSE G) \in SUBSET G
      OBVIOUS
    <3> QED  BY <3>1, <3>2
  <2>2. CASE AcquireSingle(r)
    <3>1. Claim(r, G, {}) /\ {} \in SUBSET G
      BY <2>2 DEF AcquireSingle
    <3> QED  BY <3>1
  <2> QED  BY <2>1, <2>2
<1>4. /\ row' = [t \in Txns |->
                   IF t \in G
                   THEN [row[t] EXCEPT !.gl = job[r].gl, !.rule = TRUE, !.record = r,
                                       !.entry = IF t \in B THEN <<r, t>> ELSE @]
                   ELSE row[t]]
      /\ entry' = [e \in Entries |->
                     IF e[1] = r /\ e[2] \in B
                     THEN NewEntry(IF job[r].review THEN "draft" ELSE "posted", r)
                     ELSE entry[e]]
      /\ record' = IF G = {} THEN record ELSE [record EXCEPT ![r] = "applied"]
      /\ balance' = IF job[r].review \/ B = {} THEN balance ELSE Book(entry')
  BY <1>3 DEF Claim
<1>5. \A t \in Txns :
        /\ row'[t].status = row[t].status
        /\ row'[t].reconciled = row[t].reconciled
        /\ row'[t].ignored = row[t].ignored
        /\ t \notin G => SameLink(t)
        /\ t \in G => /\ Eligible(row[t]) /\ row'[t].record = r
                      /\ row'[t].entry = IF t \in B THEN <<r, t>> ELSE Null
  <2> SUFFICES ASSUME NEW t \in Txns
               PROVE  /\ row'[t].status = row[t].status
                      /\ row'[t].reconciled = row[t].reconciled
                      /\ row'[t].ignored = row[t].ignored
                      /\ t \notin G => SameLink(t)
                      /\ t \in G => /\ Eligible(row[t]) /\ row'[t].record = r
                                    /\ row'[t].entry = IF t \in B THEN <<r, t>> ELSE Null
    OBVIOUS
  <2>1. row[t] \in Rows
    BY <1>1 DEF RowsTyped
  <2>2. CASE t \notin G
    <3>1. row'[t] = row[t]
      BY <1>4, <2>2
    <3> QED  BY <2>2, <3>1 DEF SameLink
  <2>3. CASE t \in G
    <3> DEFINE en == IF t \in B THEN <<r, t>> ELSE row[t].entry
    <3>1. Eligible(row[t]) /\ row[t].entry = Null
      BY <2>3 DEF Eligible
    <3>2. row'[t] = [row[t] EXCEPT !.gl = job[r].gl, !.rule = TRUE, !.record = r, !.entry = en]
      BY <1>4, <2>3
    <3>3. en = IF t \in B THEN <<r, t>> ELSE Null
      BY <3>1
    <3> HIDE DEF en
    <3> QED  BY <2>1, <2>3, <3>1, <3>2, <3>3 DEF Rows
  <2> QED  BY <2>2, <2>3
<1>6. G \in SUBSET batch[r] /\ B \in SUBSET Txns /\ B \subseteq G
  BY <1>2, <1>3
<1> HIDE DEF G
<1>7. Ended(r)
  BY <1>1, AnswerEnds
<1>8. Acquires(r, G, B)
  BY <1>1, <1>3, <1>4, <1>5, <1>6 DEF Acquires
<1> QED  BY <1>1, <1>6, <1>7, <1>8

\* A rollback voids what it found and unlinks the rows it read.
LEMMA RevertDoes ==
    ASSUME IInv, NEW r \in Requests, Revert(r)
    PROVE  /\ Ended(r) /\ job[r].op = "revert" /\ pc[r] = "write"
           /\ UNCHANGED period
           /\ job[r].ref \in Requests /\ record[job[r].ref] = "applied"
           /\ record' = [record EXCEPT ![job[r].ref] = "reverted"]
           /\ \A t \in Txns :
                /\ row'[t].record = row[t].record /\ row'[t].status = row[t].status
                /\ row'[t].reconciled = row[t].reconciled
                /\ row'[t].ignored = row[t].ignored
                /\ row'[t].entry = IF t \in batch[r] THEN Null ELSE row[t].entry
           /\ \A e \in Entries :
                IF e \in found[r] THEN /\ entry'[e].status = "void"
                                       /\ entry'[e].record = entry[e].record
                ELSE entry'[e] = entry[e]
           /\ balance' = IF found[r] = {} THEN balance ELSE Book(entry')
<1>1. /\ RowsTyped /\ HandlersTyped /\ Answer(r, "reverted") /\ UNCHANGED <<period, job, mem>>
      /\ job[r].op = "revert" /\ pc[r] = "write" /\ record[job[r].ref] = "applied"
      /\ record' = [record EXCEPT ![job[r].ref] = "reverted"]
      /\ row' = Unlinked(r) /\ entry' = Voided(entry, found[r])
      /\ balance' = IF found[r] = {} THEN balance ELSE Book(entry')
  BY DEF IInv, TypeOK, Revert, At
<1>2. Ended(r) /\ job[r].ref \in Requests
  BY <1>1, AnswerEnds, JobTyped
<1>3. \A t \in Txns :
                /\ row'[t].record = row[t].record /\ row'[t].status = row[t].status
                /\ row'[t].reconciled = row[t].reconciled
                /\ row'[t].ignored = row[t].ignored
                /\ row'[t].entry = IF t \in batch[r] THEN Null ELSE row[t].entry
  <2> SUFFICES ASSUME NEW t \in Txns
               PROVE  /\ row'[t].record = row[t].record /\ row'[t].status = row[t].status
                      /\ row'[t].reconciled = row[t].reconciled
                      /\ row'[t].ignored = row[t].ignored
                      /\ row'[t].entry = IF t \in batch[r] THEN Null ELSE row[t].entry
    OBVIOUS
  <2>1. row'[t] = IF t \in batch[r]
                  THEN [row[t] EXCEPT !.gl = Null, !.rule = FALSE, !.entry = Null]
                  ELSE row[t]
    BY <1>1 DEF Unlinked
  <2>2. row[t] \in Rows
    BY <1>1 DEF RowsTyped
  <2> QED  BY <2>1, <2>2 DEF Rows
<1>4. \A e \in Entries :
                IF e \in found[r] THEN /\ entry'[e].status = "void"
                                       /\ entry'[e].record = entry[e].record
                ELSE entry'[e] = entry[e]
  BY <1>1 DEF Voided, RowsTyped, EntryRows
<1> QED  BY <1>1, <1>2, <1>3, <1>4

\* Posting from review posts a draft.
LEMMA PostDoes ==
    ASSUME IInv, NEW r \in Requests, Post(r)
    PROVE  /\ Ended(r) /\ job[r].op = "post" /\ pc[r] = "write" /\ Draft(r) \in Entries
           /\ UNCHANGED <<row, record, period>>
           /\ \/ UNCHANGED <<entry, balance>>
              \/ /\ \A e \in Entries :
                      IF e = Draft(r) THEN /\ entry'[e].status = "posted"
                                           /\ entry'[e].record = entry[e].record
                      ELSE entry'[e] = entry[e]
                 /\ balance' = Book(entry')
<1>1. /\ RowsTyped /\ HandlersTyped /\ UNCHANGED <<row, record, period, job, mem>>
      /\ job[r].op = "post" /\ pc[r] = "write"
  BY DEF IInv, TypeOK, Post, At
<1>2. PICK a : Answer(r, a)
  BY DEF Post
<1>3. Ended(r) /\ Draft(r) \in Entries
  BY <1>1, <1>2, AnswerEnds, JobTyped, EntryIds DEF Draft
<1>4. \/ UNCHANGED <<entry, balance>>
      \/ /\ entry' = [entry EXCEPT ![Draft(r)].status = "posted", ![Draft(r)].sealed = TRUE]
         /\ balance' = Book(entry')
  BY DEF Post
<1>5. ASSUME entry' = [entry EXCEPT ![Draft(r)].status = "posted", ![Draft(r)].sealed = TRUE]
      PROVE  \A e \in Entries :
               IF e = Draft(r) THEN /\ entry'[e].status = "posted"
                                    /\ entry'[e].record = entry[e].record
               ELSE entry'[e] = entry[e]
  BY <1>1, <1>3, <1>5 DEF RowsTyped, EntryRows
<1> QED  BY <1>1, <1>3, <1>4, <1>5

\* A reconciliation marks its row, and links the entry it books.
LEMMA ReconcileDoes ==
    ASSUME IInv, NEW r \in Requests, Reconcile(r)
    PROVE  /\ Ended(r) /\ job[r].op = "reconcile" /\ pc[r] = "write" /\ Txn(r) \in Txns
           /\ job[r].txns = {Txn(r)} /\ <<r, Txn(r)>> \in Entries
           /\ UNCHANGED <<record, period>>
           /\ \A t \in Txns \ {Txn(r)} : SameRow(t)
           /\ row'[Txn(r)].record = row[Txn(r)].record
           /\ row'[Txn(r)].reconciled /\ row'[Txn(r)].ignored = row[Txn(r)].ignored
           /\ row'[Txn(r)].status = IF Warned(r) THEN "pending_review" ELSE row[Txn(r)].status
           /\ row'[Txn(r)].entry = IF Creates(r) THEN <<r, Txn(r)>> ELSE row[Txn(r)].entry
           /\ \A e \in Entries :
                IF Creates(r) /\ e = <<r, Txn(r)>>
                THEN entry'[e] = NewEntry(IF Warned(r) THEN "pending_review" ELSE "posted", Null)
                ELSE entry'[e] = entry[e]
           /\ IF Creates(r) THEN balance' = Book(entry') ELSE UNCHANGED <<entry, balance>>
<1>1. /\ RowsTyped /\ HandlersTyped /\ Answer(r, "ok") /\ UNCHANGED <<record, period, job, mem>>
      /\ job[r].op = "reconcile" /\ pc[r] = "write"
  BY DEF IInv, TypeOK, Reconcile, At
<1>2. Ended(r) /\ Txn(r) \in Txns /\ job[r].txns = {Txn(r)} /\ <<r, Txn(r)>> \in Entries
  BY <1>1, AnswerEnds, JobTyped, EntryIds
<1>3. row' = [row EXCEPT ![Txn(r)] = Reconciled(row[Txn(r)], r)]
  BY DEF Reconcile
<1>4. \A t \in Txns \ {Txn(r)} : SameRow(t)
  BY <1>1, <1>3 DEF RowsTyped, SameRow, SameLink
<1>5. row'[Txn(r)] = Reconciled(row[Txn(r)], r) /\ row[Txn(r)] \in Rows
  BY <1>1, <1>2, <1>3 DEF RowsTyped
<1>6. /\ row'[Txn(r)].record = row[Txn(r)].record
      /\ row'[Txn(r)].reconciled /\ row'[Txn(r)].ignored = row[Txn(r)].ignored
      /\ row'[Txn(r)].status = IF Warned(r) THEN "pending_review" ELSE row[Txn(r)].status
      /\ row'[Txn(r)].entry = IF Creates(r) THEN <<r, Txn(r)>> ELSE row[Txn(r)].entry
  <2> DEFINE x == row[Txn(r)]
             gl == IF seen[r][Txn(r)].entry = Null /\ job[r].gl # Null THEN job[r].gl ELSE x.gl
             st == IF Warned(r) THEN "pending_review" ELSE x.status
             pd == IF job[r].ref # Null THEN job[r].ref ELSE x.period
             en == IF Creates(r) THEN <<r, Txn(r)>> ELSE x.entry
  <2>1. row'[Txn(r)] = [x EXCEPT !.reconciled = TRUE, !.gl = gl, !.status = st,
                                 !.period = pd, !.entry = en]
    BY <1>5 DEF Reconciled
  <2>2. x \in Rows
    BY <1>5
  <2> HIDE DEF x, gl, st, pd, en
  <2>3. /\ row'[Txn(r)].record = x.record /\ row'[Txn(r)].reconciled = TRUE
        /\ row'[Txn(r)].ignored = x.ignored /\ row'[Txn(r)].status = st
        /\ row'[Txn(r)].entry = en
    BY <2>1, <2>2 DEF Rows
  <2> QED  BY <2>3 DEF x, st, en
<1>7. \/ /\ Creates(r) /\ balance' = Book(entry')
         /\ entry' = [entry EXCEPT ![<<r, Txn(r)>>] =
                        NewEntry(IF Warned(r) THEN "pending_review" ELSE "posted", Null)]
      \/ ~Creates(r) /\ UNCHANGED <<entry, balance>>
  BY DEF Reconcile
<1>8. \A e \in Entries :
        IF Creates(r) /\ e = <<r, Txn(r)>>
        THEN entry'[e] = NewEntry(IF Warned(r) THEN "pending_review" ELSE "posted", Null)
        ELSE entry'[e] = entry[e]
  BY <1>1, <1>2, <1>7 DEF RowsTyped
<1> QED  BY <1>1, <1>2, <1>4, <1>6, <1>7, <1>8

\* An approval posts the pending entry and takes the row out of review.
LEMMA ApproveDoes ==
    ASSUME IInv, NEW r \in Requests, Approve(r)
    PROVE  /\ Ended(r) /\ job[r].op = "approve" /\ pc[r] = "write" /\ Txn(r) \in Txns
           /\ job[r].txns = {Txn(r)}
           /\ UNCHANGED <<record, period, balance>>
           /\ \A t \in Txns :
                /\ t # Txn(r) => SameRow(t)
                /\ row'[t].record = row[t].record /\ row'[t].entry = row[t].entry
                /\ row'[t].reconciled = row[t].reconciled
                /\ row'[t].ignored = row[t].ignored
           /\ row'[Txn(r)].status = "posted"
           /\ \A e \in Entries :
                IF e \in Pending(r) THEN /\ entry'[e].status = "posted"
                                         /\ entry'[e].record = entry[e].record
                ELSE entry'[e] = entry[e]
<1>1. /\ RowsTyped /\ HandlersTyped /\ Answer(r, "ok")
      /\ UNCHANGED <<record, period, balance, job, mem>>
      /\ job[r].op = "approve" /\ pc[r] = "write"
  BY DEF IInv, TypeOK, Approve, At
<1>2. Ended(r) /\ Txn(r) \in Txns /\ job[r].txns = {Txn(r)}
  BY <1>1, AnswerEnds, JobTyped
<1>3. row' = [row EXCEPT ![Txn(r)].status = "posted"]
  BY DEF Approve
<1>4. /\ \A t \in Txns :
           /\ t # Txn(r) => SameRow(t)
           /\ row'[t].record = row[t].record /\ row'[t].entry = row[t].entry
           /\ row'[t].reconciled = row[t].reconciled
           /\ row'[t].ignored = row[t].ignored
      /\ row'[Txn(r)].status = "posted"
  BY <1>1, <1>2, <1>3 DEF RowsTyped, Rows, SameRow, SameLink
<1>5. \A e \in Entries :
        IF e \in Pending(r) THEN entry'[e] = [entry[e] EXCEPT !.status = "posted", !.sealed = TRUE]
        ELSE entry'[e] = entry[e]
  BY DEF Approve
<1>6. \A e \in Entries :
        IF e \in Pending(r) THEN /\ entry'[e].status = "posted"
                                 /\ entry'[e].record = entry[e].record
        ELSE entry'[e] = entry[e]
  <2>1. \A e \in Entries : entry[e] \in EntryRows
    BY <1>1 DEF RowsTyped
  <2> QED  BY <1>5, <2>1 DEF EntryRows
<1> QED  BY <1>1, <1>2, <1>4, <1>6

\* A rejection voids the pending entry and moves the row to suspense.
LEMMA RejectDoes ==
    ASSUME IInv, NEW r \in Requests, Reject(r)
    PROVE  /\ Ended(r) /\ job[r].op = "reject" /\ pc[r] = "write" /\ Txn(r) \in Txns
           /\ job[r].txns = {Txn(r)}
           /\ UNCHANGED <<record, period, balance>>
           /\ \A t \in Txns :
                /\ t # Txn(r) => SameRow(t)
                /\ row'[t].record = row[t].record /\ row'[t].entry = row[t].entry
           /\ row'[Txn(r)].status = "suspense"
           /\ \A e \in Entries :
                IF e \in Pending(r) THEN /\ entry'[e].status = "void"
                                         /\ entry'[e].record = entry[e].record
                ELSE entry'[e] = entry[e]
<1>1. /\ RowsTyped /\ HandlersTyped /\ Answer(r, "ok")
      /\ UNCHANGED <<record, period, balance, job, mem>>
      /\ job[r].op = "reject" /\ pc[r] = "write" /\ entry' = Voided(entry, Pending(r))
  BY DEF IInv, TypeOK, Reject, At
<1>2. Ended(r) /\ Txn(r) \in Txns /\ job[r].txns = {Txn(r)}
  BY <1>1, AnswerEnds, JobTyped
<1> DEFINE gl == IF Suspense # Null THEN Suspense ELSE seen[r][Txn(r)].gl
<1>3. row' = [row EXCEPT ![Txn(r)] =
                [@ EXCEPT !.status = "suspense", !.reconciled = FALSE, !.gl = gl]]
  BY DEF Reject
<1> HIDE DEF gl
<1>4. /\ \A t \in Txns :
           /\ t # Txn(r) => SameRow(t)
           /\ row'[t].record = row[t].record /\ row'[t].entry = row[t].entry
      /\ row'[Txn(r)].status = "suspense"
  <2>1. \A t \in Txns :
          row'[t] = IF t = Txn(r)
                    THEN [row[t] EXCEPT !.status = "suspense", !.reconciled = FALSE, !.gl = gl]
                    ELSE row[t]
    BY <1>1, <1>3 DEF RowsTyped
  <2>2. \A t \in Txns : row[t] \in Rows
    BY <1>1 DEF RowsTyped
  <2>3. \A t \in Txns : t # Txn(r) => SameRow(t)
    BY <2>1 DEF SameRow, SameLink
  <2>4. /\ \A t \in Txns : row'[t].record = row[t].record /\ row'[t].entry = row[t].entry
        /\ row'[Txn(r)].status = "suspense"
    BY <1>2, <2>1, <2>2 DEF Rows
  <2> QED  BY <2>3, <2>4
<1>5. \A e \in Entries :
        IF e \in Pending(r) THEN /\ entry'[e].status = "void"
                                 /\ entry'[e].record = entry[e].record
        ELSE entry'[e] = entry[e]
  BY <1>1 DEF Voided, RowsTyped, EntryRows
<1> QED  BY <1>1, <1>2, <1>4, <1>5

\* A reclassification voids the entry it read and links the one it books.
LEMMA ReclassifyDoes ==
    ASSUME IInv, NEW r \in Requests, Reclassify(r)
    PROVE  /\ Ended(r) /\ job[r].op = "reclassify" /\ pc[r] = "write" /\ Txn(r) \in Txns
           /\ job[r].txns = {Txn(r)} /\ <<r, Txn(r)>> \in Entries
           /\ UNCHANGED <<record, period>>
           /\ \A t \in Txns :
                /\ t # Txn(r) => SameRow(t)
                /\ row'[t].record = row[t].record /\ row'[t].status = row[t].status
                /\ row'[t].reconciled = row[t].reconciled
                /\ row'[t].ignored = row[t].ignored
           /\ row'[Txn(r)].entry = <<r, Txn(r)>>
           /\ \A e \in Entries :
                \/ e = <<r, Txn(r)>> /\ entry'[e] = NewEntry("posted", Null)
                \/ /\ e # <<r, Txn(r)>>
                   /\ IF e = seen[r][Txn(r)].entry
                      THEN entry'[e].status = "void" /\ entry'[e].record = entry[e].record
                      ELSE entry'[e] = entry[e]
           /\ balance' = Book(entry')
<1> DEFINE t0 == Txn(r)
           s == seen[r][Txn(r)].entry
           V == Voided(entry, {s} \ {Null})
           n == NewEntry("posted", Null)
<1>1. /\ RowsTyped /\ HandlersTyped /\ Answer(r, "ok")
      /\ UNCHANGED <<record, period, job, mem>>
      /\ job[r].op = "reclassify" /\ pc[r] = "write"
      /\ row' = [row EXCEPT ![t0].gl = job[r].gl, ![t0].entry = <<r, t0>>]
      /\ entry' = [V EXCEPT ![<<r, t0>>] = n] /\ balance' = Book(entry')
  BY DEF IInv, TypeOK, Reclassify, At
<1>2. Ended(r) /\ t0 \in Txns /\ job[r].txns = {t0} /\ <<r, t0>> \in Entries
  BY <1>1, AnswerEnds, JobTyped, EntryIds
<1>3. n.status = "posted" /\ Null \notin Entries
  BY NullAssumption DEF Entries, NewEntry
<1>4. \A e \in Entries :
        IF e = s THEN V[e].status = "void" /\ V[e].record = entry[e].record
        ELSE V[e] = entry[e]
  BY <1>1, <1>3 DEF Voided, RowsTyped, EntryRows
<1>5. V = [e \in Entries |-> V[e]]
  BY DEF Voided
<1> HIDE DEF V, n
<1>6. \A e \in Entries :
        \/ e = <<r, t0>> /\ entry'[e] = n
        \/ /\ e # <<r, t0>>
           /\ IF e = s THEN entry'[e].status = "void" /\ entry'[e].record = entry[e].record
              ELSE entry'[e] = entry[e]
  BY <1>1, <1>2, <1>4, <1>5
<1>7. \A t \in Txns :
        /\ t # t0 => SameRow(t)
        /\ row'[t].record = row[t].record /\ row'[t].status = row[t].status
        /\ row'[t].reconciled = row[t].reconciled
        /\ row'[t].ignored = row[t].ignored
        /\ t = t0 => row'[t].entry = <<r, t0>>
  <2> SUFFICES ASSUME NEW t \in Txns
               PROVE  /\ t # t0 => SameRow(t)
                      /\ row'[t].record = row[t].record /\ row'[t].status = row[t].status
                      /\ row'[t].reconciled = row[t].reconciled
                      /\ row'[t].ignored = row[t].ignored
                      /\ t = t0 => row'[t].entry = <<r, t0>>
    OBVIOUS
  <2> HIDE DEF t0
  <2>1. row[t] \in Rows /\ row' = [row EXCEPT ![t0] = [@ EXCEPT !.gl = job[r].gl, !.entry = <<r, t0>>]]
    BY <1>1 DEF RowsTyped
  <2>2. CASE t # t0
    <3>1. row'[t] = row[t]
      BY <1>1, <2>1, <2>2 DEF RowsTyped
    <3> QED  BY <2>2, <3>1 DEF SameRow, SameLink
  <2>3. CASE t = t0
    <3>1. row'[t] = [row[t] EXCEPT !.gl = job[r].gl, !.entry = <<r, t0>>]
      BY <1>1, <2>1, <2>3 DEF RowsTyped
    <3> DEFINE en == <<r, t0>>
               gl == job[r].gl
    <3>2. row'[t] = [row[t] EXCEPT !.gl = gl, !.entry = en]
      BY <3>1
    <3> HIDE DEF en, gl, s
    <3>3. row[t] \in Rows
      BY <2>1
    <3>4. /\ row'[t].record = row[t].record /\ row'[t].status = row[t].status
          /\ row'[t].reconciled = row[t].reconciled
          /\ row'[t].ignored = row[t].ignored
          /\ row'[t].entry = en
      BY <3>2, <3>3 DEF Rows
    <3> QED  BY <2>3, <3>4 DEF en
  <2> QED  BY <2>2, <2>3
<1> QED  BY <1>1, <1>2, <1>6, <1>7 DEF n

\* Marks the rows of its batch, and books those in B.
Matches(r, B) ==
    /\ \A t \in B : job[r].entries /\ seen[r][t].entry = Null
    /\ \A t \in Txns :
         /\ t \notin batch[r] => SameRow(t)
         /\ row'[t].record = row[t].record /\ row'[t].status = row[t].status
         /\ row[t].reconciled => row'[t].reconciled
         /\ row'[t].ignored = row[t].ignored
         /\ row'[t].entry = IF t \in B THEN <<r, t>> ELSE row[t].entry
    /\ \A e \in Entries :
         IF e[1] = r /\ e[2] \in B THEN entry'[e] = NewEntry("posted", Null)
         ELSE entry'[e] = entry[e]
    /\ balance' = IF B = {} THEN balance ELSE Book(entry')

\* A match by rule marks the rows of its batch, and links those it books.
LEMMA MatchByRuleDoes ==
    ASSUME IInv, NEW r \in Requests, MatchByRule(r)
    PROVE  /\ Ended(r) /\ job[r].op = "autoRule" /\ pc[r] = "write"
           /\ UNCHANGED <<record, period>>
           /\ \E B \in SUBSET batch[r] : Matches(r, B)
<1> DEFINE B == {t \in batch[r] : job[r].entries /\ seen[r][t].entry = Null}
<1>1. /\ RowsTyped /\ HandlersTyped /\ job[r] \in JobSet /\ Answer(r, "ok")
      /\ UNCHANGED <<record, period, job, mem>>
      /\ job[r].op = "autoRule" /\ pc[r] = "write"
      /\ row' = [t \in Txns |->
                   IF t \in batch[r]
                   THEN [Matched(row[t], r) EXCEPT
                           !.rule = TRUE, !.entry = IF t \in B THEN <<r, t>> ELSE @]
                   ELSE row[t]]
      /\ entry' = [e \in Entries |->
                     IF e[1] = r /\ e[2] \in B THEN NewEntry("posted", Null) ELSE entry[e]]
      /\ balance' = IF B = {} THEN balance ELSE Book(entry')
  BY JobTyped DEF IInv, TypeOK, MatchByRule, At
<1>2. Ended(r) /\ B \in SUBSET batch[r]
  BY <1>1, AnswerEnds
<1>6. \A t \in B : job[r].entries /\ seen[r][t].entry = Null
  OBVIOUS
<1> HIDE DEF B
<1>3. \A t \in Txns :
        /\ t \notin batch[r] => SameRow(t)
        /\ row'[t].record = row[t].record /\ row'[t].status = row[t].status
        /\ row[t].reconciled => row'[t].reconciled
        /\ row'[t].ignored = row[t].ignored
        /\ row'[t].entry = IF t \in B THEN <<r, t>> ELSE row[t].entry
  <2> SUFFICES ASSUME NEW t \in Txns
               PROVE  /\ t \notin batch[r] => SameRow(t)
                      /\ row'[t].record = row[t].record /\ row'[t].status = row[t].status
                      /\ row[t].reconciled => row'[t].reconciled
                      /\ row'[t].ignored = row[t].ignored
                      /\ row'[t].entry = IF t \in B THEN <<r, t>> ELSE row[t].entry
    OBVIOUS
  <2>1. row[t] \in Rows
    BY <1>1 DEF RowsTyped
  <2>2. CASE t \notin batch[r]
    <3>1. row'[t] = row[t] /\ t \notin B
      BY <1>1, <1>2, <2>2
    <3> QED  BY <2>2, <3>1 DEF SameRow, SameLink
  <2>3. CASE t \in batch[r]
    <3> DEFINE x == Matched(row[t], r)
               en == IF t \in B THEN <<r, t>> ELSE x.entry
               pd == IF job[r].ref # Null THEN job[r].ref ELSE row[t].period
    <3>1. x = [row[t] EXCEPT !.reconciled = TRUE, !.gl = job[r].gl, !.period = pd]
      BY DEF Matched
    <3>2. row'[t] = [x EXCEPT !.rule = TRUE, !.entry = en]
      BY <1>1, <2>3
    <3> HIDE DEF pd
    <3>3. x.entry = row[t].entry
      BY <2>1, <3>1 DEF Rows
    <3> HIDE DEF x, en
    <3>4. /\ row'[t].record = row[t].record /\ row'[t].status = row[t].status
          /\ row'[t].reconciled = TRUE /\ row'[t].ignored = row[t].ignored
          /\ row'[t].entry = en
      BY <2>1, <3>1, <3>2 DEF Rows
    <3> QED  BY <2>3, <3>3, <3>4 DEF en
  <2> QED  BY <2>2, <2>3
<1>4. \A e \in Entries :
        IF e[1] = r /\ e[2] \in B THEN entry'[e] = NewEntry("posted", Null)
        ELSE entry'[e] = entry[e]
  BY <1>1
<1>5. Matches(r, B)
  BY <1>1, <1>3, <1>4, <1>6 DEF Matches
<1> QED  BY <1>1, <1>2, <1>5

\* A match by amount links an entry it found and no other row links.
LEMMA MatchByAmountDoes ==
    ASSUME IInv, NEW r \in Requests, MatchByAmount(r)
    PROVE  /\ Ended(r) /\ job[r].op = "autoAmount" /\ pc[r] = "write" /\ Txn(r) \in Txns
           /\ job[r].txns = {Txn(r)}
           /\ UNCHANGED <<entry, record, period, balance>>
           /\ \A t \in Txns :
                /\ t # Txn(r) => SameRow(t)
                /\ row'[t].record = row[t].record /\ row'[t].status = row[t].status
                /\ row[t].reconciled => row'[t].reconciled
                /\ row'[t].ignored = row[t].ignored
           /\ \/ row'[Txn(r)].entry = row[Txn(r)].entry
              \/ \A t \in Txns \ {Txn(r)} : row[t].entry # row'[Txn(r)].entry
<1> DEFINE t0 == Txn(r)
           x == Matched(row[t0], r)
           pd == IF job[r].ref # Null THEN job[r].ref ELSE row[t0].period
<1>1. /\ RowsTyped /\ HandlersTyped /\ Answer(r, "ok")
      /\ UNCHANGED <<entry, record, period, balance, job, mem>>
      /\ job[r].op = "autoAmount" /\ pc[r] = "write"
  BY DEF IInv, TypeOK, MatchByAmount, At
<1>2. Ended(r) /\ t0 \in Txns /\ job[r].txns = {t0}
  BY <1>1, AnswerEnds, JobTyped
<1>3. \/ row' = row
      \/ \E e \in found[r] : /\ \A t \in Txns \ {t0} : row[t].entry # e
                             /\ row' = [row EXCEPT ![t0] = [x EXCEPT !.entry = e]]
  BY DEF MatchByAmount
<1>4. x = [row[t0] EXCEPT !.reconciled = TRUE, !.gl = job[r].gl, !.period = pd]
  BY DEF Matched
<1>5. row[t0] \in Rows
  BY <1>1, <1>2 DEF RowsTyped
<1> HIDE DEF t0, x, pd
<1>6. CASE row' = row
  BY <1>1, <1>2, <1>6 DEF SameRow, SameLink, t0
<1>7. ASSUME NEW e \in found[r], \A t \in Txns \ {t0} : row[t].entry # e,
             row' = [row EXCEPT ![t0] = [x EXCEPT !.entry = e]]
      PROVE  /\ \A t \in Txns :
                  /\ t # t0 => SameRow(t)
                  /\ row'[t].record = row[t].record /\ row'[t].status = row[t].status
                  /\ row[t].reconciled => row'[t].reconciled
                  /\ row'[t].ignored = row[t].ignored
             /\ row'[t0].entry = e
  <2>1. \A t \in Txns : t # t0 => row'[t] = row[t]
    BY <1>1, <1>7 DEF RowsTyped
  <2>2. row'[t0] = [x EXCEPT !.entry = e]
    BY <1>1, <1>2, <1>7 DEF RowsTyped, t0
  <2>3. /\ row'[t0].record = row[t0].record /\ row'[t0].status = row[t0].status
        /\ row'[t0].reconciled = TRUE
        /\ row'[t0].ignored = row[t0].ignored /\ row'[t0].entry = e
    BY <1>4, <1>5, <2>2 DEF Rows
  <2> QED  BY <2>1, <2>3 DEF SameRow, SameLink
<1> QED  BY <1>1, <1>2, <1>3, <1>6, <1>7 DEF t0

\* A reconciliation changes no entry but its own, and ends.
LEMMA ReconcileOwns ==
    ASSUME IInv, NEW r \in Requests, Reconcile(r)
    PROVE  /\ job[r].op = "reconcile" /\ Txn(r) \in job[r].txns
           /\ UNCHANGED job /\ pc'[r] = "done"
           /\ \A x \in Entries : x # <<r, Txn(r)>> => entry'[x] = entry[x]
<1>1. job[r].op = "reconcile" /\ job[r].txns = {Txn(r)}
  BY JobTyped DEF IInv, TypeOK, Reconcile, At
<1>3. Ended(r)
  BY ReconcileDoes
<1>2. \A x \in Entries : x # <<r, Txn(r)>> => entry'[x] = entry[x]
  BY ReconcileDoes
<1> QED  BY <1>1, <1>2, <1>3 DEF Ended

\* A reclassification changes its own entry and the one it replaces.
LEMMA ReclassifyOwns ==
    ASSUME IInv, NEW r \in Requests, Reclassify(r)
    PROVE  \A x \in Entries :
             x # <<r, Txn(r)>> /\ x # seen[r][Txn(r)].entry => entry'[x] = entry[x]
<1>1. \A x \in Entries :
        \/ x = <<r, Txn(r)>>
        \/ IF x = seen[r][Txn(r)].entry THEN TRUE ELSE entry'[x] = entry[x]
  <2> SUFFICES ASSUME NEW x \in Entries
               PROVE  \/ x = <<r, Txn(r)>>
                      \/ IF x = seen[r][Txn(r)].entry THEN TRUE ELSE entry'[x] = entry[x]
    OBVIOUS
  <2>1. \/ x = <<r, Txn(r)>>
        \/ IF x = seen[r][Txn(r)].entry
           THEN entry'[x].status = "void" /\ entry'[x].record = entry[x].record
           ELSE entry'[x] = entry[x]
    BY ReclassifyDoes
  <2> QED  BY <2>1
<1> QED  BY <1>1

\* An adjustment books an entry of no transaction.
LEMMA AdjustDoes ==
    ASSUME IInv, NEW r \in Requests, Adjust(r)
    PROVE  /\ Ended(r) /\ job[r].op = "adjust" /\ pc[r] = "begin" /\ <<r, Null>> \in Entries
           /\ UNCHANGED <<row, record, period>>
           /\ \A e \in Entries :
                IF e = <<r, Null>> THEN entry'[e] = NewEntry("posted", Null)
                ELSE entry'[e] = entry[e]
           /\ balance' = Book(entry')
<1>1. /\ RowsTyped /\ HandlersTyped /\ Answer(r, "ok")
      /\ UNCHANGED <<row, record, period, job, mem>>
      /\ job[r].op = "adjust" /\ pc[r] = "begin" /\ balance' = Book(entry')
      /\ entry' = [entry EXCEPT ![<<r, Null>>] = NewEntry("posted", Null)]
  BY DEF IInv, TypeOK, Adjust, At
<1>2. Ended(r) /\ <<r, Null>> \in Entries
  BY <1>1, AnswerEnds, EntryIds
<1> QED  BY <1>1, <1>2 DEF RowsTyped

\* The other writes change neither entries nor links, nor do they forget a match,
\* unless they are asked to undo one.
Quiet(r) ==
    \/ Unreconcile(r) \/ Ignore(r) \/ Start(r) \/ Complete(r) \/ Cancel(r)
    \/ Fail(r) \/ Unlink(r)

\* The steps that book nothing leave the entries, links and reviews of the rows.
LEMMA QuietDoes ==
    ASSUME IInv, NEW r \in Requests, Quiet(r)
    PROVE  /\ UNCHANGED <<entry, record, balance, job, seen, batch, found>>
           /\ OthersWait(r) /\ pc[r] # "done"
           /\ pc'[r] = "done" \/ (pc'[r] = "write" /\ job[r].op = "cancel")
           /\ \A t \in Txns :
                /\ SameLink(t)
                /\ job[r].op \notin {"unreconcile", "unignore"}
                     => /\ row[t].reconciled => row'[t].reconciled
                        /\ row[t].ignored => row'[t].ignored
<1>1. RowsTyped /\ HandlersTyped
  BY DEF IInv, TypeOK
<1>2. /\ UNCHANGED <<entry, record, balance, job, seen, batch, found>>
      /\ OthersWait(r) /\ pc[r] # "done"
      /\ pc'[r] = "done" \/ (pc'[r] = "write" /\ job[r].op = "cancel")
  BY <1>1 DEF Quiet, Unreconcile, Ignore, Start, Complete, Cancel, Fail, Unlink, At,
       Answer, Goto, books, mem, OthersWait, HandlersTyped
<1>3. SUFFICES ASSUME NEW t \in Txns
               PROVE  /\ SameLink(t)
                      /\ job[r].op \notin {"unreconcile", "unignore"}
                           => /\ row[t].reconciled => row'[t].reconciled
                              /\ row[t].ignored => row'[t].ignored
  BY <1>2
<1>4. row[t] \in Rows
  BY <1>1 DEF RowsTyped
<1>5. CASE Start(r) \/ Complete(r) \/ Cancel(r) \/ Fail(r)
  BY <1>5 DEF Start, Complete, Cancel, Fail, books, SameLink
<1>6. CASE Unreconcile(r)
  <2>1. /\ job[r].op = "unreconcile"
        /\ row'[t] \in {row[t], [row[t] EXCEPT !.reconciled = FALSE, !.period = Null]}
    BY <1>6 DEF Unreconcile, At
  <2> QED  BY <1>4, <2>1 DEF Rows, SameLink
<1>7. CASE Ignore(r)
  <2> DEFINE b == job[r].op = "ignore"
  <2>1. /\ job[r].op \in {"ignore", "unignore"}
        /\ row'[t] = row[t] \/ row'[t] = [row[t] EXCEPT !.ignored = b]
    BY <1>7 DEF Ignore, At
  <2> HIDE DEF b
  <2>2. /\ row'[t].entry = row[t].entry /\ row'[t].record = row[t].record
        /\ row'[t].status = row[t].status /\ row'[t].reconciled = row[t].reconciled
        /\ row'[t].ignored \in {row[t].ignored, b}
    BY <1>4, <2>1 DEF Rows
  <2>3. b <=> job[r].op = "ignore"
    BY DEF b
  <2>4. SameLink(t) /\ (row[t].reconciled => row'[t].reconciled)
    BY <2>2 DEF SameLink
  <2>5. job[r].op # "unignore" => b = TRUE
    BY <2>1, <2>3
  <2>6. job[r].op # "unignore" => (row[t].ignored => row'[t].ignored)
    BY <2>2, <2>5
  <2> QED  BY <2>4, <2>6
<1>8. CASE Unlink(r)
  <2>1. row'[t] \in {row[t], [row[t] EXCEPT !.period = Null]}
    BY <1>8 DEF Unlink
  <2> QED  BY <1>4, <2>1 DEF Rows, SameLink
<1> QED  BY <1>5, <1>6, <1>7, <1>8 DEF Quiet

\* What any read does.
LEMMA ReadFrame ==
    ASSUME HandlersTyped, NEW r \in Requests, NEW T, NEW E, NEW ok \in BOOLEAN, NEW next,
           Read(r, T, E, ok, next)
    PROVE  /\ UNCHANGED <<row, entry, record, period, balance, job>>
           /\ OthersWait(r)
           /\ seen'[r] = row /\ batch'[r] = T /\ found'[r] = E
           /\ pc'[r] = "write" => ok /\ next = "write"
BY DEF Read, Goto, Answer, Remember, books, OthersWait, HandlersTyped

\* A read changes the memory of one handler. It stores rows it was asked about, and
\* goes on to write only after the test of its kind.
Reads(r) ==
    \/ Match(r) \/ Reread(r) \/ ReadRecord(r) \/ ReadDraft(r) \/ Find(r)
    \/ ReadReview(r) \/ ReadRow(r) \/ Scan(r) \/ ReadReconciled(r)
    \/ CheckPeriods(r) \/ ReadIgnored(r) \/ ReadOpen(r) \/ ReadPeriod(r)
    \/ CheckDifference(r) \/ CheckUnmatched(r)

\* A read changes its own handler only, which remembers what is stored.
LEMMA ReadDoes ==
    ASSUME IInv, BatchIsAsked, NEW r \in Requests, Reads(r)
    PROVE  /\ UNCHANGED <<row, entry, record, period, balance, job>>
           /\ OthersWait(r) /\ pc[r] # "done" /\ seen'[r] = row
           /\ job[r].op # "revert" => batch'[r] \subseteq job[r].txns
           /\ pc'[r] = "write" =>
                /\ job[r].op = "revert"
                     => found'[r] = {e \in Entries : /\ entry[e].record = job[r].ref
                                                     /\ entry[e].status \notin {"absent", "void"}}
                /\ job[r].op = "post" => entry[Draft(r)].status = "draft"
<1>1. HandlersTyped
  BY DEF IInv, TypeOK
<1> DEFINE Done(T, E, ok, next) ==
      /\ UNCHANGED <<row, entry, record, period, balance, job>>
      /\ OthersWait(r)
      /\ seen'[r] = row /\ batch'[r] = T /\ found'[r] = E
      /\ pc'[r] = "write" => ok /\ next = "write"
<1>2. CASE Match(r)
  <2> DEFINE T == {t \in job[r].txns : Eligible(row[t])}
             E == {}
             ok == T # {}
             next == IF job[r].op = "apply" THEN "reread" ELSE "write"
  <2>1. job[r].op \in {"apply", "single"} /\ pc[r] # "done" /\ Read(r, T, E, ok, next)
    BY <1>2 DEF Match, At
  <2>2. ok \in BOOLEAN
    OBVIOUS
  <2> HIDE DEF T, E, ok, next
  <2>3. Done(T, E, ok, next)
    BY <1>1, <2>1, <2>2, ReadFrame
  <2> QED  BY <2>1, <2>3 DEF T, E, ok, next, BatchIsAsked
<1>3. CASE Reread(r)
  <2> DEFINE T == {t \in batch[r] : Eligible(row[t])}
             E == {}
             ok == TRUE
             next == "write"
  <2>1. job[r].op \in {"apply"} /\ pc[r] # "done" /\ Read(r, T, E, ok, next)
    BY <1>3 DEF Reread, At
  <2>2. ok \in BOOLEAN
    OBVIOUS
  <2> HIDE DEF T, E, ok, next
  <2>3. Done(T, E, ok, next)
    BY <1>1, <2>1, <2>2, ReadFrame
  <2> QED  BY <2>1, <2>3 DEF T, E, ok, next, BatchIsAsked
<1>4. CASE ReadRecord(r)
  <2> DEFINE T == {t \in Txns : row[t].record = job[r].ref}
             E == {e \in Entries : /\ entry[e].record = job[r].ref
                                   /\ entry[e].status \notin {"absent", "void"}}
             ok == record[job[r].ref] = "applied"
             next == "write"
  <2>1. job[r].op \in {"revert"} /\ pc[r] # "done" /\ Read(r, T, E, ok, next)
    BY <1>4 DEF ReadRecord, At
  <2>2. ok \in BOOLEAN
    OBVIOUS
  <2> HIDE DEF T, E, ok, next
  <2>3. Done(T, E, ok, next)
    BY <1>1, <2>1, <2>2, ReadFrame
  <2> QED  BY <2>1, <2>3 DEF T, E, ok, next, BatchIsAsked
<1>5. CASE ReadDraft(r)
  <2> DEFINE T == {}
             E == {Draft(r)}
             ok == entry[Draft(r)].status = "draft"
             next == "write"
  <2>1. job[r].op \in {"post"} /\ pc[r] # "done" /\ Read(r, T, E, ok, next)
    BY <1>5 DEF ReadDraft, At
  <2>2. ok \in BOOLEAN
    OBVIOUS
  <2> HIDE DEF T, E, ok, next
  <2>3. Done(T, E, ok, next)
    BY <1>1, <2>1, <2>2, ReadFrame
  <2> QED  BY <2>1, <2>3 DEF T, E, ok, next, BatchIsAsked
<1>6. CASE Find(r)
  <2> DEFINE T == job[r].txns
             E == {}
             ok == Txn(r) \in Stored /\ ~row[Txn(r)].reconciled
             next == "write"
  <2>1. job[r].op \in {"reconcile"} /\ pc[r] # "done" /\ Read(r, T, E, ok, next)
    BY <1>6 DEF Find, At
  <2>2. ok \in BOOLEAN
    OBVIOUS
  <2> HIDE DEF T, E, ok, next
  <2>3. Done(T, E, ok, next)
    BY <1>1, <2>1, <2>2, ReadFrame
  <2> QED  BY <2>1, <2>3 DEF T, E, ok, next, BatchIsAsked
<1>7. CASE ReadReview(r)
  <2> DEFINE T == job[r].txns
             E == {}
             ok == row[Txn(r)].status = "pending_review"
             next == "write"
  <2>1. job[r].op \in {"approve", "reject"} /\ pc[r] # "done" /\ Read(r, T, E, ok, next)
    BY <1>7 DEF ReadReview, At
  <2>2. ok \in BOOLEAN
    OBVIOUS
  <2> HIDE DEF T, E, ok, next
  <2>3. Done(T, E, ok, next)
    BY <1>1, <2>1, <2>2, ReadFrame
  <2> QED  BY <2>1, <2>3 DEF T, E, ok, next, BatchIsAsked
<1>8. CASE ReadRow(r)
  <2> DEFINE T == job[r].txns
             E == {}
             ok == Txn(r) \in Stored /\ job[r].gl # Null
             next == "write"
  <2>1. job[r].op \in {"reclassify"} /\ pc[r] # "done" /\ Read(r, T, E, ok, next)
    BY <1>8 DEF ReadRow, At
  <2>2. ok \in BOOLEAN
    OBVIOUS
  <2> HIDE DEF T, E, ok, next
  <2>3. Done(T, E, ok, next)
    BY <1>1, <2>1, <2>2, ReadFrame
  <2> QED  BY <2>1, <2>3 DEF T, E, ok, next, BatchIsAsked
<1>9. CASE Scan(r)
  <2> DEFINE T == {t \in job[r].txns \intersect Stored : ~row[t].reconciled}
             E == Posted(entry)
             ok == T # {}
             next == "write"
  <2>1. job[r].op \in {"autoRule", "autoAmount"} /\ pc[r] # "done" /\ Read(r, T, E, ok, next)
    BY <1>9 DEF Scan, At
  <2>2. ok \in BOOLEAN
    OBVIOUS
  <2> HIDE DEF T, E, ok, next
  <2>3. Done(T, E, ok, next)
    BY <1>1, <2>1, <2>2, ReadFrame
  <2> QED  BY <2>1, <2>3 DEF T, E, ok, next, BatchIsAsked
<1>10. CASE ReadReconciled(r)
  <2> DEFINE T == {t \in job[r].txns : row[t].reconciled}
             E == {}
             ok == T # {}
             next == "periods"
  <2>1. job[r].op \in {"unreconcile"} /\ pc[r] # "done" /\ Read(r, T, E, ok, next)
    BY <1>10 DEF ReadReconciled, At
  <2>2. ok \in BOOLEAN
    OBVIOUS
  <2> HIDE DEF T, E, ok, next
  <2>3. Done(T, E, ok, next)
    BY <1>1, <2>1, <2>2, ReadFrame
  <2> QED  BY <2>1, <2>3 DEF T, E, ok, next, BatchIsAsked
<1>11. CASE CheckPeriods(r)
  <2> DEFINE T == batch[r]
             E == {}
             ok == \A t \in batch[r] :
                     seen[r][t].period # Null => period[seen[r][t].period] # "completed"
             next == "write"
  <2>1. job[r].op \in {"unreconcile"} /\ pc[r] # "done" /\ Read(r, T, E, ok, next)
    BY <1>11 DEF CheckPeriods, At
  <2>2. ok \in BOOLEAN
    OBVIOUS
  <2> HIDE DEF T, E, ok, next
  <2>3. Done(T, E, ok, next)
    BY <1>1, <2>1, <2>2, ReadFrame
  <2> QED  BY <2>1, <2>3 DEF T, E, ok, next, BatchIsAsked
<1>12. CASE ReadIgnored(r)
  <2> DEFINE T == job[r].txns
             E == {}
             ok == \A t \in job[r].txns : ~row[t].reconciled
             next == "write"
  <2>1. job[r].op \in {"ignore"} /\ pc[r] # "done" /\ Read(r, T, E, ok, next)
    BY <1>12 DEF ReadIgnored, At
  <2>2. ok \in BOOLEAN
    OBVIOUS
  <2> HIDE DEF T, E, ok, next
  <2>3. Done(T, E, ok, next)
    BY <1>1, <2>1, <2>2, ReadFrame
  <2> QED  BY <2>1, <2>3 DEF T, E, ok, next, BatchIsAsked
<1>13. CASE ReadOpen(r)
  <2> DEFINE T == {}
             E == {}
             ok == \A p \in Requests : period[p] # "open"
             next == "write"
  <2>1. job[r].op \in {"start"} /\ pc[r] # "done" /\ Read(r, T, E, ok, next)
    BY <1>13 DEF ReadOpen, At
  <2>2. ok \in BOOLEAN
    OBVIOUS
  <2> HIDE DEF T, E, ok, next
  <2>3. Done(T, E, ok, next)
    BY <1>1, <2>1, <2>2, ReadFrame
  <2> QED  BY <2>1, <2>3 DEF T, E, ok, next, BatchIsAsked
<1>14. CASE ReadPeriod(r)
  <2> DEFINE T == {}
             E == {}
             ok == period[job[r].ref] = "open"
             next == IF job[r].op = "complete" THEN "difference" ELSE "unlink"
  <2>1. job[r].op \in {"complete", "cancel"} /\ pc[r] # "done" /\ Read(r, T, E, ok, next)
    BY <1>14 DEF ReadPeriod, At
  <2>2. ok \in BOOLEAN
    OBVIOUS
  <2> HIDE DEF T, E, ok, next
  <2>3. Done(T, E, ok, next)
    BY <1>1, <2>1, <2>2, ReadFrame
  <2> QED  BY <2>1, <2>3 DEF T, E, ok, next, BatchIsAsked
<1>15. CASE CheckDifference(r)
  <2> DEFINE T == {}
             E == {}
             ok == Book(entry) = Statement
             next == "unmatched"
  <2>1. job[r].op \in {"complete"} /\ pc[r] # "done" /\ Read(r, T, E, ok, next)
    BY <1>15 DEF CheckDifference, At
  <2>2. ok \in BOOLEAN
    OBVIOUS
  <2> HIDE DEF T, E, ok, next
  <2>3. Done(T, E, ok, next)
    BY <1>1, <2>1, <2>2, ReadFrame
  <2> QED  BY <2>1, <2>3 DEF T, E, ok, next, BatchIsAsked
<1>16. CASE CheckUnmatched(r)
  <2> DEFINE T == {}
             E == {}
             ok == Unmatched = {}
             next == "write"
  <2>1. job[r].op \in {"complete"} /\ pc[r] # "done" /\ Read(r, T, E, ok, next)
    BY <1>16 DEF CheckUnmatched, At
  <2>2. ok \in BOOLEAN
    OBVIOUS
  <2> HIDE DEF T, E, ok, next
  <2>3. Done(T, E, ok, next)
    BY <1>1, <2>1, <2>2, ReadFrame
  <2> QED  BY <2>1, <2>3 DEF T, E, ok, next, BatchIsAsked
<1> QED
  BY <1>2, <1>3, <1>4, <1>5, <1>6, <1>7, <1>8, <1>9, <1>10, <1>11,
     <1>12, <1>13, <1>14, <1>15, <1>16 DEF Reads

-----------------------------------------------------------------------------
(* Origins is an invariant. *)

\* An entry stays as it is, is posted or voided, or is made by the request.
EntryStep(r, e) ==
    \/ entry'[e] = entry[e]
    \/ /\ entry[e].status # "absent" /\ entry'[e].record = entry[e].record
       /\ entry'[e].status \in {"posted", "void"}
    \/ /\ e[1] = r /\ entry'[e].status \in {"draft", "pending_review", "posted"}
       /\ job[r].op \in {"import", "apply", "reconcile", "reclassify", "autoRule", "adjust"}
       /\ e[2] # Null => e[2] \in job[r].txns
       /\ entry'[e].record = IF job[r].op = "apply" THEN r ELSE Null
       /\ entry'[e].status = "draft" => job[r].op = "apply"
       /\ entry'[e].status = "pending_review" => job[r].op = "reconcile" /\ e[2] # Null
       /\ job[r].op = "apply" => record'[r] = "applied"

\* The record of an application is made by the application and reverted by a rollback.
RecordStep(r, k) ==
    \/ record'[k] = record[k]
    \/ k = r /\ job[r].op \in {"apply", "single"} /\ record'[k] = "applied"
    \/ /\ job[r].op = "revert" /\ k = job[r].ref
       /\ record[k] = "applied" /\ record'[k] = "reverted"

\* A row keeps its application, or an application acquires it.
OwnerStep(r, t) ==
    \/ row'[t].record = row[t].record
    \/ row'[t].record = r /\ job[r].op \in {"apply", "single"} /\ t \in job[r].txns

Writes(r) ==
    \/ Import(r) \/ Acquire(r) \/ AcquireSingle(r) \/ Revert(r) \/ Post(r) \/ Reconcile(r)
    \/ Approve(r) \/ Reject(r) \/ Reclassify(r) \/ MatchByRule(r) \/ MatchByAmount(r) \/ Adjust(r)

\* Every write is made of these.
LEMMA WritesDo ==
    ASSUME IInv, Origins, NEW r \in Requests, Writes(r)
    PROVE  /\ Ended(r) /\ pc[r] # "done"
           /\ \A e \in Entries : EntryStep(r, e)
           /\ \A k \in Requests : RecordStep(r, k)
           /\ \A t \in Txns : OwnerStep(r, t)
<1>1. HandlersTyped /\ RowsTyped
  BY DEF IInv, TypeOK
<1>2. \A s, k : NewEntry(s, k).status = s /\ NewEntry(s, k).record = k
  BY DEF NewEntry
<1>3. \A e \in Entries : e[1] \in Requests /\ e[2] \in Txns \union {Null} /\ e = <<e[1], e[2]>>
  BY EntryIds
<1>14. CASE Import(r)
  <2>1. PICK T \in SUBSET Txns, B \in SUBSET Txns : Inserts(r, T, B)
    BY <1>14, ImportDoes
  <2>2. \A e \in Entries :
          \/ entry'[e] = entry[e]
          \/ /\ e[1] = r /\ e[2] \in job[r].txns /\ entry'[e].record = Null
             /\ entry'[e].status = "posted"
    BY <1>2, <2>1 DEF Inserts
  <2>3. \A e \in Entries : EntryStep(r, e)
    BY <1>14, <2>2, ImportDoes DEF EntryStep
  <2> QED  BY <1>14, <2>1, <2>3, ImportDoes DEF Inserts, RecordStep, OwnerStep
<1>4. CASE Acquire(r) \/ AcquireSingle(r)
  <2>1. PICK G \in SUBSET batch[r], B \in SUBSET Txns : Acquires(r, G, B)
    BY <1>4, AcquireDoes
  <2>2. Ended(r) /\ pc[r] # "done" /\ job[r].op \in {"apply", "single"}
    BY <1>4, AcquireDoes
  <2>3. G \subseteq job[r].txns
    BY <2>2 DEF Origins, BatchIsAsked
  <2>4. record' = IF G = {} THEN record ELSE [record EXCEPT ![r] = "applied"]
    BY <2>1 DEF Acquires
  <2>5. B \subseteq G /\ (job[r].op = "single" => B = {})
    BY <2>1 DEF Acquires
  <2>6. \A k \in Requests : RecordStep(r, k)
    BY <1>1, <2>2, <2>4 DEF RecordStep, RowsTyped
  <2>7. B # {} => record'[r] = "applied" /\ job[r].op = "apply"
    BY <1>1, <2>2, <2>4, <2>5 DEF RowsTyped
  <2>8. \A e \in Entries : EntryStep(r, e)
    <3>1. \A e \in Entries :
            IF e[1] = r /\ e[2] \in B
            THEN entry'[e].status \in {"draft", "posted"} /\ entry'[e].record = r
            ELSE entry'[e] = entry[e]
      BY <1>2, <2>1 DEF Acquires
    <3> QED  BY <2>2, <2>3, <2>5, <2>7, <3>1 DEF EntryStep
  <2>9. \A t \in Txns : OwnerStep(r, t)
    BY <2>1, <2>2, <2>3 DEF OwnerStep, SameLink, Acquires
  <2> QED  BY <2>2, <2>6, <2>8, <2>9
<1>5. CASE Revert(r)
  <2>1. \A e \in found[r] : entry[e].status # "absent"
    BY <1>5, RevertDoes DEF IInv, FoundExist
  <2>2. \A e \in Entries : EntryStep(r, e)
    BY <1>5, <2>1, RevertDoes DEF EntryStep
  <2>3. \A k \in Requests : RecordStep(r, k)
    BY <1>1, <1>5, RevertDoes DEF RecordStep, RowsTyped
  <2> QED  BY <1>5, <2>2, <2>3, RevertDoes DEF OwnerStep
<1>6. CASE Post(r)
  <2>1. entry[Draft(r)].status # "absent"
    BY <1>6, PostDoes DEF Origins, DraftsAreOfApplications
  <2> QED  BY <1>6, <2>1, PostDoes DEF EntryStep, RecordStep, OwnerStep
<1>7. CASE Reconcile(r)
  <2>1. /\ job[r].op = "reconcile" /\ Txn(r) \in job[r].txns /\ Txn(r) # Null
        /\ \A e \in Entries :
             \/ entry'[e] = entry[e]
             \/ /\ e = <<r, Txn(r)>> /\ entry'[e].record = Null
                /\ entry'[e].status \in {"pending_review", "posted"}
    <3>1. /\ job[r].op = "reconcile" /\ Txn(r) \in Txns /\ job[r].txns = {Txn(r)}
          /\ \A e \in Entries :
               IF Creates(r) /\ e = <<r, Txn(r)>>
               THEN entry'[e] = NewEntry(IF Warned(r) THEN "pending_review" ELSE "posted", Null)
               ELSE entry'[e] = entry[e]
      BY <1>7, ReconcileDoes
    <3> QED  BY <3>1, NullAssumption DEF NewEntry
  <2>2. \A e \in Entries : EntryStep(r, e)
    BY <2>1 DEF EntryStep
  <2> QED  BY <1>7, <2>2, ReconcileDoes DEF RecordStep, OwnerStep, SameRow, SameLink
<1>8. CASE Approve(r)
  <2>1. \A e \in Pending(r) : entry[e].status # "absent"
    BY DEF Pending
  <2> QED  BY <1>8, <2>1, ApproveDoes DEF EntryStep, RecordStep, OwnerStep
<1>9. CASE Reject(r)
  <2>1. \A e \in Pending(r) : entry[e].status # "absent"
    BY DEF Pending
  <2> QED  BY <1>9, <2>1, RejectDoes DEF EntryStep, RecordStep, OwnerStep
<1>10. CASE Reclassify(r)
  <2> DEFINE s == seen[r][Txn(r)].entry
  <2>1. /\ job[r].op = "reclassify" /\ Txn(r) \in job[r].txns /\ Txn(r) \in Txns
        /\ \A e \in Entries :
             \/ entry'[e] = entry[e]
             \/ e = s /\ entry'[e].status = "void" /\ entry'[e].record = entry[e].record
             \/ /\ e = <<r, Txn(r)>> /\ entry'[e].record = Null
                /\ entry'[e].status = "posted"
    <3>1. /\ job[r].op = "reclassify" /\ Txn(r) \in Txns /\ job[r].txns = {Txn(r)}
          /\ \A e \in Entries :
                \/ e = <<r, Txn(r)>> /\ entry'[e] = NewEntry("posted", Null)
                \/ /\ e # <<r, Txn(r)>>
                   /\ IF e = s
                      THEN entry'[e].status = "void" /\ entry'[e].record = entry[e].record
                      ELSE entry'[e] = entry[e]
      BY <1>10, ReclassifyDoes
    <3> QED  BY <3>1 DEF NewEntry
  <2>2. s \in Entries => s # Null
    BY NullAssumption DEF Entries
  <2>3. s \in Entries => entry[s].status # "absent"
    BY <2>1, <2>2 DEF Origins, SeenExist
  <2> HIDE DEF s
  <2>4. \A e \in Entries : EntryStep(r, e)
    BY <2>1, <2>3 DEF EntryStep
  <2> QED  BY <1>10, <2>4, ReclassifyDoes DEF RecordStep, OwnerStep
<1>11. CASE MatchByRule(r)
  <2>1. PICK B \in SUBSET batch[r] : Matches(r, B)
    BY <1>11, MatchByRuleDoes
  <2>2. B \subseteq job[r].txns /\ job[r].op = "autoRule"
    BY <1>11, MatchByRuleDoes DEF Origins, BatchIsAsked
  <2>3. \A e \in Entries :
          \/ entry'[e] = entry[e]
          \/ /\ e[1] = r /\ e[2] \in B /\ entry'[e].record = Null
             /\ entry'[e].status = "posted"
    BY <1>2, <2>1 DEF Matches
  <2>4. \A e \in Entries : EntryStep(r, e)
    BY <2>2, <2>3 DEF EntryStep
  <2>5. \A t \in Txns : OwnerStep(r, t)
    BY <2>1 DEF Matches, OwnerStep
  <2> QED  BY <1>11, <2>4, <2>5, MatchByRuleDoes DEF RecordStep
<1>12. CASE MatchByAmount(r)
  BY <1>12, MatchByAmountDoes DEF EntryStep, RecordStep, OwnerStep
<1>13. CASE Adjust(r)
  <2>1. /\ job[r].op = "adjust"
        /\ \A e \in Entries :
             \/ entry'[e] = entry[e]
             \/ /\ e = <<r, Null>> /\ entry'[e].record = Null
                /\ entry'[e].status = "posted"
    <3>1. /\ job[r].op = "adjust"
          /\ \A e \in Entries : IF e = <<r, Null>> THEN entry'[e] = NewEntry("posted", Null)
                               ELSE entry'[e] = entry[e]
      BY <1>13, AdjustDoes
    <3> QED  BY <3>1 DEF NewEntry
  <2>2. \A e \in Entries : EntryStep(r, e)
    BY <2>1 DEF EntryStep
  <2> QED  BY <1>13, <2>2, AdjustDoes DEF RecordStep, OwnerStep
<1> QED
  BY <1>4, <1>5, <1>6, <1>7, <1>8, <1>9, <1>10, <1>11, <1>12, <1>13, <1>14 DEF Writes

\* Origins hold of an account as imported.
LEMMA InitOrigins == Init => Origins
<1> SUFFICES ASSUME Init PROVE Origins
  OBVIOUS
<1>1. \A t \in Txns : row[t].entry = Null /\ row[t].record = Null
  BY DEF Init, Initially, Absent, Imported
<1>2. \A r \in Requests : pc[r] = "begin" /\ batch[r] = {} /\ seen[r] = row /\ record[r] = "absent"
  BY DEF Init
<1>3. \A e \in Entries : entry[e].status = "absent" /\ entry[e].record = Null
  BY DEF Init
<1> QED
  BY <1>1, <1>2, <1>3 DEF Origins, BatchIsAsked, EntriesAreOwn, RowsAreOwn, UndoneByRevert,
     DraftsAreOfApplications, SeenExist, FoundAreOwn

\* A read keeps them: what it reads to link exists, and what it reads as a draft is
\* the entry of an application.
LEMMA ReadsKeepOrigins ==
    ASSUME IInv, Origins, NEW r \in Requests, Reads(r)
    PROVE  Origins'
<1>1. /\ UNCHANGED <<row, entry, record, period, job>>
      /\ OthersWait(r) /\ pc[r] # "done" /\ seen'[r] = row
      /\ job[r].op # "revert" => batch'[r] \subseteq job[r].txns
      /\ pc'[r] = "write" /\ job[r].op = "post" => entry[Draft(r)].status = "draft"
      /\ pc'[r] = "write" /\ job[r].op = "revert"
           => \A e \in found'[r] : /\ e \in Entries /\ entry[e].record = job[r].ref
                                  /\ entry[e].status # "absent"
  BY ReadDoes DEF Origins
<1>2. HandlersTyped /\ RowsTyped /\ LinksExist
  BY DEF IInv, TypeOK
<1>3. BatchIsAsked'
  BY <1>1 DEF BatchIsAsked, OthersWait, Origins
<1>4. EntriesAreOwn' /\ RowsAreOwn' /\ UndoneByRevert'
  BY <1>1 DEF EntriesAreOwn, Made, RowsAreOwn, UndoneByRevert, Origins
<1>5. DraftsAreOfApplications'
  <2> SUFFICES ASSUME NEW q \in Requests, job[q].op = "post", pc'[q] = "write"
               PROVE  entry[Draft(q)].status # "absent" /\ job[job[q].ref].op = "apply"
    BY <1>1 DEF DraftsAreOfApplications, Draft, Txn
  <2>1. CASE q # r
    BY <1>1, <2>1 DEF DraftsAreOfApplications, OthersWait, Origins
  <2>2. CASE q = r
    <3>1. entry[Draft(r)].status = "draft" /\ Draft(r) \in Entries /\ Draft(r)[1] = job[r].ref
      BY <1>1, <1>2, <2>2, JobTyped, EntryIds DEF Draft
    <3> QED  BY <2>2, <3>1 DEF EntriesAreOwn, Made, Origins
  <2> QED  BY <2>1, <2>2
<1>6. SeenExist'
  <2>1. \A t \in Txns : row[t].entry # Null => entry[row[t].entry].status # "absent"
    BY <1>2 DEF LinksExist
  <2> QED  BY <1>1, <2>1 DEF SeenExist, OthersWait, Origins
<1>7. FoundAreOwn'
  <2> SUFFICES ASSUME NEW q \in Requests, job[q].op = "revert", pc'[q] = "write",
                      NEW e \in found'[q]
               PROVE  e[1] = job[q].ref
    BY <1>1 DEF FoundAreOwn
  <2>1. CASE q # r
    BY <1>1, <2>1 DEF FoundAreOwn, OthersWait, Origins
  <2>2. CASE q = r
    <3>1. e \in Entries /\ entry[e].record = job[r].ref /\ entry[e].status # "absent"
      BY <1>1, <2>2
    <3>2. job[r].ref # Null
      BY <1>2, <2>2, JobTyped, NullAssumption
    <3> QED  BY <2>2, <3>1, <3>2 DEF EntriesAreOwn, Made, Origins
  <2> QED  BY <2>1, <2>2
<1> QED  BY <1>3, <1>4, <1>5, <1>6, <1>7 DEF Origins

\* A write keeps them.
LEMMA WritesKeepOrigins ==
    ASSUME IInv, Origins, NEW r \in Requests, Writes(r)
    PROVE  Origins'
<1>1. /\ UNCHANGED <<job, seen, batch, found>> /\ pc'[r] = "done" /\ OthersWait(r) /\ pc[r] # "done"
      /\ \A e \in Entries : EntryStep(r, e)
      /\ \A k \in Requests : RecordStep(r, k)
      /\ \A t \in Txns : OwnerStep(r, t)
  BY WritesDo DEF Ended
<1>2. HandlersTyped /\ RowsTyped
  BY DEF IInv, TypeOK
<1>3. BatchIsAsked'
  BY <1>1 DEF BatchIsAsked, Origins
<1>4. \A e \in Entries : entry[e].status # "absent" => entry'[e].status # "absent"
  BY <1>1 DEF EntryStep
<1>5. \A k \in Requests : record[k] # "absent" => record'[k] # "absent"
  BY <1>1 DEF RecordStep
<1>6. EntriesAreOwn'
  <2> SUFFICES ASSUME NEW e \in Entries
               PROVE  IF entry'[e].status = "absent" THEN entry'[e].record = Null ELSE Made(e)'
    BY DEF EntriesAreOwn
  <2>1. e[1] \in Requests
    BY EntryIds
  <2>2. CASE entry'[e] = entry[e]
    BY <1>1, <1>5, <2>1, <2>2 DEF EntriesAreOwn, Made, Origins
  <2>3. CASE /\ entry[e].status # "absent" /\ entry'[e].record = entry[e].record
             /\ entry'[e].status \in {"posted", "void"}
    BY <1>1, <1>5, <2>1, <2>3 DEF EntriesAreOwn, Made, Origins
  <2>4. CASE e[1] = r /\ entry'[e].status \in {"draft", "pending_review", "posted"}
             /\ job[r].op \in {"import", "apply", "reconcile", "reclassify", "autoRule", "adjust"}
             /\ (e[2] # Null => e[2] \in job[r].txns)
             /\ entry'[e].record = (IF job[r].op = "apply" THEN r ELSE Null)
             /\ (entry'[e].status = "draft" => job[r].op = "apply")
             /\ (entry'[e].status = "pending_review" => job[r].op = "reconcile" /\ e[2] # Null)
             /\ (job[r].op = "apply" => record'[r] = "applied")
    BY <1>1, <2>4 DEF Made
  <2> QED  BY <1>1, <2>2, <2>3, <2>4 DEF EntryStep
<1>7. RowsAreOwn'
  BY <1>1 DEF RowsAreOwn, OwnerStep, Origins
<1>8. UndoneByRevert'
  BY <1>1 DEF UndoneByRevert, RecordStep, Origins
<1>9. DraftsAreOfApplications'
  <2> SUFFICES ASSUME NEW q \in Requests, job[q].op = "post", pc'[q] = "write"
               PROVE  entry'[Draft(q)].status # "absent" /\ job[job[q].ref].op = "apply"
    BY <1>1 DEF DraftsAreOfApplications, Draft, Txn
  <2>1. q # r /\ pc[q] = "write"
    BY <1>1 DEF OthersWait
  <2>2. Draft(q) \in Entries
    BY <1>2, JobTyped, EntryIds DEF Draft
  <2> QED  BY <1>4, <2>1, <2>2 DEF DraftsAreOfApplications, Origins
<1>10. SeenExist'
  <2>1. \A q \in Requests, t \in Txns : seen[q][t].entry \in Entries \union {Null}
    BY <1>2 DEF HandlersTyped, Rows
  <2> QED  BY <1>1, <1>4, <2>1 DEF SeenExist, Origins
<1>11. FoundAreOwn'
  BY <1>1 DEF FoundAreOwn, OthersWait, Origins
<1> QED  BY <1>3, <1>6, <1>7, <1>8, <1>9, <1>10, <1>11 DEF Origins

\* Every other step keeps them.
LEMMA QuietKeepsOrigins ==
    ASSUME IInv, Origins, NEW r \in Requests, Quiet(r)
    PROVE  Origins'
<1>1. /\ UNCHANGED <<entry, record, job, seen, batch, found>>
      /\ OthersWait(r)
      /\ pc'[r] = "done" \/ (pc'[r] = "write" /\ job[r].op = "cancel")
      /\ \A t \in Txns : row'[t].record = row[t].record
  BY QuietDoes DEF SameLink
<1>2. BatchIsAsked' /\ EntriesAreOwn' /\ RowsAreOwn' /\ UndoneByRevert' /\ SeenExist'
  BY <1>1 DEF BatchIsAsked, EntriesAreOwn, Made, RowsAreOwn, UndoneByRevert, SeenExist, Origins
<1>3. DraftsAreOfApplications' /\ FoundAreOwn'
  BY <1>1 DEF DraftsAreOfApplications, Draft, Txn, FoundAreOwn, OthersWait, Origins
<1> QED  BY <1>2, <1>3 DEF Origins

\* The steps of a handler.
Steps(r) == Reads(r) \/ Writes(r) \/ Quiet(r)

\* A step is a step of one request.
LEMMA NextIsSteps == Next => \E r \in Requests : Steps(r)
BY DEF Next, Steps, Reads, Writes, Quiet

\* Origins is inductive.
LEMMA OriginsStep == IInv /\ Origins /\ [Next]_vars => Origins'
<1> SUFFICES ASSUME IInv, Origins, [Next]_vars PROVE Origins'
  OBVIOUS
<1>1. CASE UNCHANGED vars
  BY <1>1 DEF vars, books, mem, Origins, BatchIsAsked, EntriesAreOwn, Made, RowsAreOwn,
       UndoneByRevert, DraftsAreOfApplications, Draft, Txn, SeenExist, FoundAreOwn
<1>2. CASE Next
  <2>1. PICK r \in Requests : Steps(r)
    BY <1>2, NextIsSteps
  <2> QED  BY <2>1, ReadsKeepOrigins, WritesKeepOrigins, QuietKeepsOrigins DEF Steps
<1> QED  BY <1>1, <1>2

\* Origins hold in every reachable state.
LEMMA OriginsHold == Spec => [](IInv /\ Origins)
<1>1. Init => IInv /\ Origins
  BY InitIInv, InitOrigins
<1>2. IInv /\ Origins /\ [Next]_vars => (IInv /\ Origins)'
  BY IInvStep, OriginsStep
<1> QED  BY <1>1, <1>2, PTL DEF Spec

-----------------------------------------------------------------------------
(* A reverted application leaves no entry in force. *)

\* A handler that ends where it was leaves what rollbacks wait for.
LEMMA RevertStep ==
    ASSUME IInv, Origins, RevertInv, NEW r \in Requests, Steps(r)
    PROVE  RevertInv'
<1>1. HandlersTyped /\ RowsTyped
  BY DEF IInv, TypeOK
<1>2. job' = job
  BY ReadDoes, WritesDo, QuietDoes DEF Steps, Ended, Origins
<1> SUFFICES ASSUME PostsApart PROVE FoundCovers' /\ RevertIsWhole'
  BY <1>2 DEF RevertInv, PostsApart
<1>3. FoundCovers /\ RevertIsWhole
  BY DEF RevertInv
<1>4. \A q \in Requests : job[q].op = "revert" => job[q].ref \in Requests
  BY <1>1, JobTyped
<1>5. CASE Reads(r)
  <2>1. /\ UNCHANGED <<row, entry, record>> /\ OthersWait(r)
        /\ pc'[r] = "write" /\ job[r].op = "revert"
             => found'[r] = {e \in Entries : /\ entry[e].record = job[r].ref
                                             /\ entry[e].status \notin {"absent", "void"}}
    BY <1>5, ReadDoes DEF Origins
  <2>2. RevertIsWhole'
    BY <1>3, <2>1 DEF RevertIsWhole
  <2>3. ASSUME NEW q \in Requests, job[q].op = "revert", pc'[q] = "write",
               record[job[q].ref] = "applied",
               NEW e \in Entries, entry[e].record = job[q].ref, entry[e].status # "void"
        PROVE  e \in found'[q]
    <3>1. entry[e].status # "absent"
      BY <1>4, <2>3, NullAssumption DEF Origins, EntriesAreOwn
    <3>2. CASE q = r
      BY <2>1, <2>3, <3>1, <3>2
    <3>3. CASE q # r
      BY <1>3, <2>1, <2>3, <3>3 DEF FoundCovers, OthersWait
    <3> QED  BY <3>2, <3>3
  <2>4. FoundCovers'
    BY <1>2, <2>1, <2>3 DEF FoundCovers
  <2> QED  BY <2>2, <2>4
<1>6. CASE Quiet(r)
  <2>1. /\ UNCHANGED <<entry, record, job, found>> /\ OthersWait(r)
        /\ pc'[r] = "done" \/ (pc'[r] = "write" /\ job[r].op = "cancel")
    BY <1>6, QuietDoes
  <2>2. RevertIsWhole'
    BY <1>3, <2>1 DEF RevertIsWhole
  <2>3. FoundCovers'
    BY <1>3, <2>1 DEF FoundCovers, OthersWait
  <2> QED  BY <2>2, <2>3
<1>7. CASE Writes(r)
  <2>1. /\ UNCHANGED <<job, found>> /\ pc'[r] = "done" /\ OthersWait(r) /\ pc[r] # "done"
        /\ \A e \in Entries : EntryStep(r, e)
        /\ \A k \in Requests : RecordStep(r, k)
    BY <1>7, WritesDo DEF Ended
  \* An entry of an application somebody rolls back is not voided and then posted.
  <2>2. ASSUME NEW e \in Entries, NEW k \in Requests, entry'[e].record = k,
               record[k] # "absent"
        PROVE  /\ entry[e].record = k
               /\ (\E q \in Requests : job[q].op = "revert" /\ job[q].ref = k)
                     => (entry[e].status = "void" => entry'[e].status = "void")
    <3>1. entry[e].record = k
      <4>1. job[r].op = "apply" => record[r] = "absent"
        BY <2>1 DEF IInv, RecordIsNew
      <4> QED  BY <2>1, <2>2, <4>1, NullAssumption DEF EntryStep
    <3>2. entry[e].status # "absent" /\ e[1] = k /\ job[k].op = "apply"
      BY <3>1, NullAssumption, EntryIds DEF Origins, EntriesAreOwn, Made
    <3>3. ASSUME entry[e].status = "void", entry'[e].status # "void",
                 NEW q \in Requests, job[q].op = "revert", job[q].ref = k
          PROVE  FALSE
      <4>1. CASE Acquire(r) \/ AcquireSingle(r)
        <5>1. record[r] = "absent" /\ e[1] # r
          BY <2>2, <3>2, <4>1, AcquireDoes DEF IInv, RecordIsNew
        <5> QED  BY <3>3, <4>1, <5>1, AcquireDoes DEF Acquires
      <4>2. CASE Revert(r)
        BY <3>3, <4>2, RevertDoes
      <4>3. CASE Post(r)
        <5>1. e = Draft(r)
          BY <3>3, <4>3, PostDoes
        <5>2. Draft(r)[1] = job[r].ref
          BY DEF Draft
        <5> QED  BY <3>2, <3>3, <4>3, <5>1, <5>2, PostDoes DEF PostsApart
      <4>4. CASE Reconcile(r)
        <5>1. job[r].op = "reconcile"
          BY <4>4, ReconcileOwns
        <5>2. \A x \in Entries : x = <<r, Txn(r)>> \/ entry'[x] = entry[x]
          BY <4>4, ReconcileOwns
        <5> QED  BY <3>2, <3>3, <5>1, <5>2
      <4>5. CASE Approve(r)
        <5>1. e \in Pending(r)
          BY <3>3, <4>5, ApproveDoes
        <5> QED  BY <3>3, <5>1 DEF Pending
      <4>6. CASE Reject(r)
        BY <3>3, <4>6, RejectDoes
      <4>7. CASE Reclassify(r)
        <5>1. /\ job[r].op = "reclassify"
              /\ entry'[e] = entry[e] \/ e = <<r, Txn(r)>> \/ entry'[e].status = "void"
          BY <4>7, ReclassifyDoes
        <5> QED  BY <3>2, <3>3, <5>1
      <4>8. CASE MatchByRule(r)
        <5>1. job[r].op = "autoRule" /\ (entry'[e] = entry[e] \/ e[1] = r)
          BY <4>8, MatchByRuleDoes DEF Matches
        <5> QED  BY <3>2, <3>3, <5>1
      <4>9. CASE MatchByAmount(r)
        BY <3>3, <4>9, MatchByAmountDoes
      <4>10. CASE Adjust(r)
        <5>1. job[r].op = "adjust" /\ (entry'[e] = entry[e] \/ e = <<r, Null>>)
          BY <4>10, AdjustDoes
        <5> QED  BY <3>2, <3>3, <5>1
      <4>11. CASE Import(r)
        <5>1. job[r].op = "import" /\ (entry'[e] = entry[e] \/ e[1] = r)
          BY <4>11, ImportDoes DEF Inserts
        <5> QED  BY <3>2, <3>3, <5>1
      <4> QED
        BY <1>7, <4>11, <4>1, <4>2, <4>3, <4>4, <4>5, <4>6, <4>7, <4>8, <4>9, <4>10 DEF Writes
    <3> QED  BY <3>1, <3>3
  <2>3. FoundCovers'
    <3> SUFFICES ASSUME NEW q \in Requests, job[q].op = "revert", pc'[q] = "write",
                        record'[job[q].ref] = "applied", NEW e \in Entries,
                        entry'[e].record = job[q].ref, entry'[e].status # "void"
                 PROVE  e \in found[q]
      BY <2>1 DEF FoundCovers
    <3>1. q # r /\ pc[q] = "write" /\ job[q].ref \in Requests
      BY <1>4, <2>1 DEF OthersWait
    <3>2. record[job[q].ref] = "applied"
      <4>1. record[job[q].ref] # "absent"
        BY <3>1 DEF IInv, RevertsOwnRows
      <4>2. job[r].op \in {"apply", "single"} => record[r] = "absent"
        BY <2>1 DEF IInv, RecordIsNew
      <4> QED  BY <2>1, <3>1, <4>1, <4>2 DEF RecordStep
    <3>3. entry[e].record = job[q].ref /\ entry[e].status # "void"
      BY <2>2, <3>1, <3>2
    <3> QED  BY <1>3, <3>1, <3>2, <3>3 DEF FoundCovers
  <2>4. RevertIsWhole'
    <3> SUFFICES ASSUME NEW k \in Requests, record'[k] = "reverted",
                        NEW e \in Entries, entry'[e].record = k
                 PROVE  entry'[e].status = "void"
      BY DEF RevertIsWhole
    <3>1. record[k] # "absent"
      <4>1. job[r].op \in {"apply", "single"} => record[r] = "absent"
        BY <2>1 DEF IInv, RecordIsNew
      <4> QED  BY <2>1, <4>1 DEF RecordStep
    <3>2. entry[e].record = k
      BY <2>2, <3>1
    <3>3. CASE record[k] = "reverted"
      <4>1. entry[e].status = "void" /\ \E q \in Requests : job[q].op = "revert" /\ job[q].ref = k
        BY <1>3, <3>2, <3>3 DEF RevertIsWhole, Origins, UndoneByRevert
      <4> QED  BY <2>2, <3>1, <4>1
    <3>4. CASE record[k] # "reverted"
      <4>1. job[r].op = "revert" /\ k = job[r].ref /\ record[k] = "applied"
        BY <2>1, <3>4 DEF RecordStep
      <4>2. Revert(r)
        BY <1>7, <4>1, ImportDoes, AcquireDoes, PostDoes, ReconcileDoes, ApproveDoes, RejectDoes,
           ReclassifyDoes, MatchByRuleDoes, MatchByAmountDoes, AdjustDoes DEF Writes
      <4>3. entry[e].status # "void" => e \in found[r]
        BY <1>3, <3>2, <4>1, <4>2, RevertDoes DEF FoundCovers
      <4> QED  BY <4>2, <4>3, RevertDoes
    <3> QED  BY <3>3, <3>4
  <2> QED  BY <2>3, <2>4
<1> QED  BY <1>5, <1>6, <1>7 DEF Steps

\* The rollback property is inductive.
LEMMA RevertInvStep == IInv /\ Origins /\ RevertInv /\ [Next]_vars => RevertInv'
<1> SUFFICES ASSUME IInv, Origins, RevertInv, [Next]_vars PROVE RevertInv'
  OBVIOUS
<1>1. CASE UNCHANGED vars
  BY <1>1 DEF vars, books, mem, RevertInv, PostsApart, FoundCovers, RevertIsWhole
<1>2. CASE Next
  BY <1>2, NextIsSteps, RevertStep
<1> QED  BY <1>1, <1>2

\* A rollback that can still win covers its application, in every state.
LEMMA RevertInvHolds == Spec => [](IInv /\ Origins /\ RevertInv)
<1>1. Init => RevertInv
  BY DEF Init, RevertInv, FoundCovers, RevertIsWhole
<1>2. IInv /\ Origins /\ RevertInv /\ [Next]_vars => RevertInv'
  BY RevertInvStep
<1> QED  BY <1>1, <1>2, OriginsHold, PTL DEF Spec

-----------------------------------------------------------------------------
(* Every entry in force is the one its row links. *)

\* What the steps have in common: their handler was not done, and no job changes.
LEMMA StepsFrame ==
    ASSUME IInv, Origins, NEW r \in Requests, Steps(r)
    PROVE  job' = job /\ pc[r] # "done" /\ crossed \subseteq crossed'
<1>1. job' = job /\ pc[r] # "done"
  BY ReadDoes, WritesDo, QuietDoes DEF Steps, Ended, Origins
<1>2. \E a : Answer(r, a) \/ UNCHANGED crossed
  BY DEF Steps, Reads, Writes, Quiet, Read, Goto, Import, Acquire, AcquireSingle, Revert, Post,
     Reconcile, Approve, Reject, Reclassify, MatchByRule, MatchByAmount, Adjust, Unreconcile,
     Ignore, Start, Complete, Cancel, Fail, Unlink, Match, Reread, ReadRecord, ReadDraft, Find,
     ReadReview, ReadRow, Scan, ReadReconciled, CheckPeriods, ReadIgnored, ReadOpen, ReadPeriod,
     CheckDifference, CheckUnmatched
<1> QED  BY <1>1, <1>2 DEF Answer

\* A handler that writes upon a row crosses it when Crossing says so.
LEMMA WritesCross ==
    ASSUME NEW r \in Requests,
           \/ Revert(r) \/ Reconcile(r) \/ Approve(r) \/ Reject(r)
           \/ Reclassify(r) \/ MatchByRule(r) \/ MatchByAmount(r)
           \/ Post(r) /\ entry' # entry
    PROVE  crossed' = crossed \union Crossing(r)
<1>1. pc[r] = "write" /\ \E a \in {"ok", "reverted"} : Answer(r, a)
  BY DEF At, Revert, Reconcile, Approve, Reject, Reclassify, MatchByRule, MatchByAmount, Post
<1> QED  BY <1>1 DEF Answer

\* The links are kept by every step: a handler that writes a row finds the link it has
\* read, or crosses the row.
LEMMA LinksKept ==
    ASSUME IInv, Origins, LinkInv, NEW r \in Requests, Steps(r)
    PROVE  LinkInv'
<1> SUFFICES ASSUME NEW e \in Entries, InForce(e)', e[2] \notin crossed' \union {Null}
             PROVE  /\ row'[e[2]].entry = e
                    /\ entry'[e].status = "pending_review"
                         => row'[e[2]].status = "pending_review"
  BY DEF LinkInv
<1>1. HandlersTyped /\ RowsTyped
  BY DEF IInv, TypeOK
<1>2. e # Null /\ e[1] \in Requests /\ e[2] \in Txns /\ e = <<e[1], e[2]>>
  BY NullAssumption, EntryIds DEF Entries
<1>3. e[2] \notin crossed /\ pc[r] # "done"
  BY StepsFrame
<1>4. InForce(e) => /\ row[e[2]].entry = e
                    /\ entry[e].status = "pending_review" => row[e[2]].status = "pending_review"
  BY <1>2, <1>3 DEF LinkInv
<1>5. /\ entry'[e].status \in {"draft", "pending_review", "posted"}
      /\ entry'[e] = entry[e] => InForce(e)
  BY DEF InForce
<1>6. \A s, k : NewEntry(s, k).status = s
  BY DEF NewEntry
<1>7. CASE Reads(r) \/ Quiet(r)
  BY <1>2, <1>4, <1>5, <1>7, ReadDoes, QuietDoes DEF SameLink, Origins
<1>8. CASE Import(r)
  <2>1. PICK T \in SUBSET Txns, B \in SUBSET Txns : Inserts(r, T, B)
    BY <1>8, ImportDoes
  <2>2. CASE e[1] = r /\ e[2] \in B
    BY <1>2, <1>6, <2>1, <2>2 DEF Inserts
  <2>3. CASE ~(e[1] = r /\ e[2] \in B)
    <3>1. entry'[e] = entry[e] /\ row[e[2]].entry = e
      BY <1>4, <1>5, <2>1, <2>3 DEF Inserts
    <3>2. e[2] \notin T
      BY <1>2, <2>1, <3>1 DEF Inserts
    <3> QED  BY <1>2, <1>4, <1>5, <2>1, <3>1, <3>2 DEF Inserts, SameLink
  <2> QED  BY <2>2, <2>3
<1>9. CASE Acquire(r) \/ AcquireSingle(r)
  <2>1. PICK G \in SUBSET batch[r], B \in SUBSET Txns : Acquires(r, G, B)
    BY <1>9, AcquireDoes
  <2>2. CASE e[1] = r /\ e[2] \in B
    <3>1. entry'[e].status \in {"draft", "posted"} /\ row'[e[2]].entry = e
      BY <1>2, <1>6, <2>1, <2>2 DEF Acquires
    <3> QED  BY <3>1
  <2>3. CASE ~(e[1] = r /\ e[2] \in B)
    <3>1. entry'[e] = entry[e] /\ row[e[2]].entry = e
      BY <1>4, <1>5, <2>1, <2>3 DEF Acquires
    <3>2. e[2] \notin G
      BY <1>2, <2>1, <3>1 DEF Acquires, Eligible
    <3> QED  BY <1>2, <1>4, <1>5, <2>1, <3>1, <3>2 DEF Acquires, SameLink
  <2> QED  BY <2>2, <2>3
<1>10. CASE Revert(r)
  <2>1. /\ job[r].op = "revert" /\ e \notin found[r] /\ entry'[e] = entry[e]
        /\ row'[e[2]].entry = IF e[2] \in batch[r] THEN Null ELSE row[e[2]].entry
        /\ row'[e[2]].status = row[e[2]].status
    BY <1>2, <1>5, <1>10, RevertDoes
  <2>2. e[2] \notin Crossing(r) /\ row[e[2]].entry = e
    BY <1>4, <1>5, <1>10, <2>1, WritesCross
  <2>3. e[2] \notin batch[r]
    BY <1>2, <2>1, <2>2 DEF Crossing
  <2> QED  BY <1>4, <1>5, <2>1, <2>3
<1>11. CASE Post(r)
  <2>1. /\ row' = row /\ job[r].op = "post" /\ Draft(r) \in Entries
        /\ entry'[e] # entry[e] => e = Draft(r) /\ entry'[e].status = "posted"
    BY <1>11, PostDoes
  <2>2. CASE entry'[e] = entry[e]
    BY <1>4, <1>5, <2>1, <2>2
  <2>3. CASE entry'[e] # entry[e]
    <3>1. e = <<job[r].ref, Txn(r)>> /\ job[r].txns = {Txn(r)} /\ e[2] = Txn(r)
      BY <1>1, <2>1, <2>3, JobTyped DEF Draft
    <3>2. e[2] \notin Crossing(r)
      BY <1>11, <2>3, WritesCross
    <3>3. entry[e].status \in {"draft", "posted"}
      BY <2>1, <3>1, <3>2 DEF Crossing
    <3> QED  BY <1>4, <2>1, <2>3, <3>3 DEF InForce
  <2> QED  BY <2>2, <2>3
<1>12. CASE Reconcile(r)
  <2>1. /\ job[r].op = "reconcile" /\ job[r].txns = {Txn(r)} /\ Txn(r) \in Txns
        /\ \A t \in Txns \ {Txn(r)} : SameRow(t)
        /\ row'[Txn(r)].status = IF Warned(r) THEN "pending_review" ELSE row[Txn(r)].status
        /\ row'[Txn(r)].entry = IF Creates(r) THEN <<r, Txn(r)>> ELSE row[Txn(r)].entry
    BY <1>12, ReconcileDoes
  <2>2. \/ entry'[e] = entry[e] /\ ~(Creates(r) /\ e = <<r, Txn(r)>>)
        \/ /\ Creates(r) /\ e = <<r, Txn(r)>>
           /\ entry'[e] = NewEntry(IF Warned(r) THEN "pending_review" ELSE "posted", Null)
    BY <1>12, ReconcileDoes
  <2>3. CASE Creates(r) /\ e = <<r, Txn(r)>>
    BY <1>6, <2>1, <2>2, <2>3
  <2>4. CASE entry'[e] = entry[e] /\ ~(Creates(r) /\ e = <<r, Txn(r)>>)
    <3>1. row[e[2]].entry = e /\ e[2] \notin Crossing(r)
      BY <1>4, <1>5, <1>12, <2>4, WritesCross
    <3>2. CASE e[2] # Txn(r)
      BY <1>2, <1>4, <1>5, <2>1, <2>4, <3>2 DEF SameRow, SameLink
    <3>3. CASE e[2] = Txn(r)
      <4>1. ~Creates(r)
        BY <1>2, <2>1, <3>1, <3>3 DEF Crossing, Creates
      <4> QED  BY <1>4, <1>5, <2>1, <2>4, <3>3, <4>1
    <3> QED  BY <3>2, <3>3
  <2> QED  BY <2>2, <2>3, <2>4
<1>13. CASE Approve(r) \/ Reject(r)
  <2>1. /\ job[r].op \in {"approve", "reject"} /\ job[r].txns = {Txn(r)}
        /\ \A t \in Txns : t # Txn(r) => SameRow(t)
        /\ row'[e[2]].entry = row[e[2]].entry
        /\ entry'[e] = entry[e] \/ e \in Pending(r)
        /\ e \in Pending(r) => entry'[e].status # "pending_review"
    BY <1>2, <1>13, ApproveDoes, RejectDoes
  <2>2. e \in Pending(r) => InForce(e)
    BY DEF Pending, InForce
  <2>3. row'[e[2]].entry = e
    BY <1>4, <1>5, <2>1, <2>2
  <2>4. ASSUME entry'[e].status = "pending_review" PROVE e[2] # Txn(r)
    <3>1. entry[e].status = "pending_review" /\ e \notin Pending(r) /\ row[e[2]].entry = e
      BY <1>4, <1>5, <2>1, <2>4
    <3>2. e[2] \notin Crossing(r)
      BY <1>13, WritesCross
    <3> QED  BY <1>2, <2>1, <3>1, <3>2 DEF Crossing, Pending
  <2> QED  BY <1>2, <1>4, <1>5, <2>1, <2>3, <2>4 DEF SameRow, SameLink
<1>14. CASE Reclassify(r)
  <2>1. /\ job[r].op = "reclassify" /\ Txn(r) \in Txns /\ job[r].txns = {Txn(r)}
        /\ \A t \in Txns : /\ t # Txn(r) => SameRow(t)
                           /\ row'[t].status = row[t].status
        /\ row'[Txn(r)].entry = <<r, Txn(r)>>
    BY <1>14, ReclassifyDoes
  <2>2. \/ e = <<r, Txn(r)>> /\ entry'[e] = NewEntry("posted", Null)
        \/ /\ e # <<r, Txn(r)>> /\ e # seen[r][Txn(r)].entry /\ entry'[e] = entry[e]
    <3>1. \A x \in Entries :
            \/ x = <<r, Txn(r)>> /\ entry'[x] = NewEntry("posted", Null)
            \/ /\ x # <<r, Txn(r)>>
               /\ IF x = seen[r][Txn(r)].entry
                  THEN entry'[x].status = "void" /\ entry'[x].record = entry[x].record
                  ELSE entry'[x] = entry[x]
      BY <1>14, ReclassifyDoes
    <3> QED  BY <1>5, <3>1
  <2>3. CASE e = <<r, Txn(r)>> /\ entry'[e] = NewEntry("posted", Null)
    BY <1>6, <2>1, <2>3
  <2>4. CASE e # <<r, Txn(r)>> /\ e # seen[r][Txn(r)].entry /\ entry'[e] = entry[e]
    <3>1. row[e[2]].entry = e /\ e[2] \notin Crossing(r)
      BY <1>4, <1>5, <1>14, <2>4, WritesCross
    <3>2. e[2] # Txn(r)
      BY <2>1, <2>4, <3>1 DEF Crossing
    <3> QED  BY <1>2, <1>4, <1>5, <2>1, <2>4, <3>2 DEF SameRow, SameLink
  <2> QED  BY <2>2, <2>3, <2>4
<1>15. CASE MatchByRule(r)
  <2>1. PICK B \in SUBSET batch[r] : Matches(r, B)
    BY <1>15, MatchByRuleDoes
  <2>2. CASE e[1] = r /\ e[2] \in B
    BY <1>2, <1>6, <2>1, <2>2 DEF Matches
  <2>3. CASE ~(e[1] = r /\ e[2] \in B)
    <3>1. entry'[e] = entry[e] /\ row[e[2]].entry = e /\ e[2] \notin Crossing(r)
      BY <1>4, <1>5, <1>15, <2>1, <2>3, WritesCross DEF Matches
    <3>2. e[2] \notin B
      BY <1>2, <1>15, <2>1, <3>1, MatchByRuleDoes DEF Crossing, Matches
    <3> QED  BY <1>2, <1>4, <1>5, <2>1, <3>1, <3>2 DEF Matches
  <2> QED  BY <2>2, <2>3
<1>16. CASE MatchByAmount(r)
  <2>1. /\ job[r].op = "autoAmount" /\ job[r].txns = {Txn(r)}
        /\ \A t \in Txns : /\ t # Txn(r) => SameRow(t)
                           /\ row'[t].status = row[t].status
        /\ entry'[e] = entry[e]
    BY <1>16, MatchByAmountDoes
  <2>2. row[e[2]].entry = e /\ e[2] \notin Crossing(r)
    BY <1>4, <1>5, <1>16, <2>1, WritesCross
  <2>3. e[2] = Txn(r) => row'[e[2]].entry = e
    BY <1>2, <2>1, <2>2 DEF Crossing
  <2> QED  BY <1>2, <1>4, <1>5, <2>1, <2>2, <2>3 DEF SameRow, SameLink
<1>17. CASE Adjust(r)
  <2>1. row' = row /\ (e = <<r, Null>> \/ entry'[e] = entry[e])
    BY <1>17, AdjustDoes
  <2> QED  BY <1>2, <1>4, <1>5, <2>1
<1> QED
  BY <1>7, <1>8, <1>9, <1>10, <1>11, <1>12, <1>13, <1>14, <1>15, <1>16, <1>17
  DEF Steps, Writes

\* The links are inductive.
LEMMA LinkInvStep == IInv /\ Origins /\ LinkInv /\ [Next]_vars => LinkInv'
<1> SUFFICES ASSUME IInv, Origins, LinkInv, [Next]_vars PROVE LinkInv'
  OBVIOUS
<1>1. CASE UNCHANGED vars
  BY <1>1 DEF vars, books, LinkInv, InForce
<1>2. CASE Next
  BY <1>2, NextIsSteps, LinksKept
<1> QED  BY <1>1, <1>2

\* Entries in force are linked, in every state.
LEMMA LinkInvHolds == Spec => [](IInv /\ Origins /\ LinkInv)
<1>1. Init => LinkInv
  BY DEF Init, LinkInv, InForce
<1>2. IInv /\ Origins /\ LinkInv /\ [Next]_vars => LinkInv'
  BY LinkInvStep
<1> QED  BY <1>1, <1>2, OriginsHold, PTL DEF Spec

-----------------------------------------------------------------------------
(* The stored balance. *)

\* The balance a refresh computes is the sum of what is posted.
LEMMA BookIsSum == \A T : Book(T) = SumOf(Posted(T), job)
BY DEF Book, SumOf, EntryAmount

\* Nothing posted sums to zero.
LEMMA SumOfNone == \A j : SumOf({}, j) = 0
<1> TAKE j
<1>1. SUBSET {} = {{}}
  OBVIOUS
<1> QED  BY <1>1 DEF SumOf, MapThenSumSet, MapThenFoldSet

\* A step refreshes the balance, or leaves it and what is posted.
LEMMA BalanceStep ==
    ASSUME IInv, Origins, NoApproval, NEW r \in Requests, Steps(r)
    PROVE  \/ balance' = Book(entry')
           \/ balance' = balance /\ Posted(entry') = Posted(entry)
<1>1. \A s, k : NewEntry(s, k).status = s
  BY DEF NewEntry
<1>2. CASE Reads(r) \/ Quiet(r)
  BY <1>2, ReadDoes, QuietDoes DEF Origins
<1>3. CASE Acquire(r) \/ AcquireSingle(r)
  <2>1. PICK G \in SUBSET batch[r], B \in SUBSET Txns : Acquires(r, G, B)
    BY <1>3, AcquireDoes
  <2>2. balance' = IF job[r].review \/ B = {} THEN balance ELSE Book(entry')
    BY <2>1 DEF Acquires
  <2>3. ASSUME job[r].review \/ B = {}, NEW e \in Entries
        PROVE  entry'[e].status = "posted" <=> entry[e].status = "posted"
    <3>1. entry'[e] = entry[e] \/ (e[1] = r /\ e[2] \in B /\ entry'[e].status = "draft")
      BY <1>1, <2>1, <2>3 DEF Acquires
    <3>2. e[1] = r => entry[e].status = "absent"
      <4>1. job[r].op \in {"apply", "single"} /\ record[r] = "absent"
        BY <1>3, AcquireDoes DEF IInv, RecordIsNew
      <4> QED  BY <4>1 DEF Origins, EntriesAreOwn, Made
    <3> QED  BY <3>1, <3>2
  <2> QED  BY <2>2, <2>3 DEF Posted
<1>4. CASE Revert(r)
  <2>1. found[r] = {} => \A e \in Entries : entry'[e] = entry[e]
    BY <1>4, RevertDoes
  <2> QED  BY <1>4, <2>1, RevertDoes DEF Posted
<1>5. CASE Post(r)
  BY <1>5, PostDoes
<1>6. CASE Reconcile(r)
  BY <1>6, ReconcileDoes
<1>7. CASE Approve(r)
  BY <1>7, ApproveDoes DEF NoApproval
<1>8. CASE Reject(r)
  <2>1. \A e \in Entries : entry'[e].status = "posted" <=> entry[e].status = "posted"
    BY <1>8, RejectDoes DEF Pending
  <2> QED  BY <1>8, <2>1, RejectDoes DEF Posted
<1>9. CASE Reclassify(r)
  BY <1>9, ReclassifyDoes
<1>10. CASE MatchByRule(r)
  <2>1. PICK B \in SUBSET batch[r] : Matches(r, B)
    BY <1>10, MatchByRuleDoes
  <2>2. B = {} => \A e \in Entries : entry'[e] = entry[e]
    BY <2>1 DEF Matches
  <2> QED  BY <2>1, <2>2 DEF Matches, Posted
<1>11. CASE MatchByAmount(r)
  BY <1>11, MatchByAmountDoes
<1>12. CASE Adjust(r)
  BY <1>12, AdjustDoes
<1>13. CASE Import(r)
  <2>1. PICK T \in SUBSET Txns, B \in SUBSET Txns : Inserts(r, T, B)
    BY <1>13, ImportDoes
  <2>2. B = {} => \A e \in Entries : entry'[e] = entry[e]
    BY <2>1 DEF Inserts
  <2> QED  BY <2>1, <2>2 DEF Inserts, Posted
<1> QED
  BY <1>13, <1>2, <1>3, <1>4, <1>5, <1>6, <1>7, <1>8, <1>9, <1>10, <1>11, <1>12 DEF Steps, Writes

\* A step without approvals keeps the stored balance the sum of what is posted.
LEMMA BalanceInvStep == IInv /\ Origins /\ BalanceInv /\ [Next]_vars => BalanceInv'
<1> SUFFICES ASSUME IInv, Origins, BalanceInv, [Next]_vars PROVE BalanceInv'
  OBVIOUS
<1>1. /\ job' = job
      /\ NoApproval => \/ balance' = Book(entry')
                       \/ balance' = balance /\ Posted(entry') = Posted(entry)
  <2>1. CASE UNCHANGED vars
    BY <2>1 DEF vars, books
  <2>2. CASE Next
    <3>1. PICK r \in Requests : Steps(r)
      BY <2>2, NextIsSteps
    <3> QED  BY <3>1, StepsFrame, BalanceStep
  <2> QED  BY <2>1, <2>2
<1>2. NoApproval' <=> NoApproval
  BY <1>1 DEF NoApproval
<1>3. NoApproval => balance' = SumOf(Posted(entry'), job')
  BY <1>1, BookIsSum DEF BalanceInv
<1>4. Posted(entry)' = Posted(entry')
  BY DEF Posted
<1> QED  BY <1>2, <1>3, <1>4 DEF BalanceInv

-----------------------------------------------------------------------------
(* The theorems about mixes of requests. *)

\* A reverted application leaves none of its entries in force, drafts included,
\* unless a draft of it is posted from review meanwhile (ADR-013).
THEOREM RevertIsWholeUnlessPosted == Spec => [](PostsApart => RevertIsWhole)
<1>1. RevertInv => (PostsApart => RevertIsWhole)
  BY DEF RevertInv
<1> QED  BY <1>1, RevertInvHolds, PTL

\* Every posted entry made for a transaction is the one it links, whatever requests
\* overlap, unless a handler wrote the row upon a link it had not read.
THEOREM PostingsStayLinked == Spec => []PostingsAreLinked
<1>1. LinkInv => PostingsAreLinked
  BY DEF LinkInv, InForce, PostingsAreLinked, Posted
<1> QED  BY <1>1, LinkInvHolds, PTL

\* Hence a transaction that no handler has crossed counts at most once in the ledger
\* (reconciliation.service.ts: "avoiding double-posting").
THEOREM NothingCountsTwice ==
    Spec => [](\A t \in Txns \ crossed : Cardinality({e \in Posted(entry) : e[2] = t}) <= 1)
<1>1. LinkInv => \A t \in Txns \ crossed : Cardinality({e \in Posted(entry) : e[2] = t}) <= 1
  <2> SUFFICES ASSUME LinkInv, NEW t \in Txns \ crossed
               PROVE  Cardinality({e \in Posted(entry) : e[2] = t}) <= 1
    OBVIOUS
  <2>1. \A e \in Posted(entry) : e[2] = t => row[t].entry = e
    BY NullAssumption DEF LinkInv, InForce, Posted
  <2>2. {e \in Posted(entry) : e[2] = t} \subseteq {row[t].entry}
    BY <2>1
  <2>3. Cardinality({row[t].entry}) = 1 /\ IsFiniteSet({row[t].entry})
    BY FS_Singleton
  <2>4. Cardinality({e \in Posted(entry) : e[2] = t}) <= Cardinality({row[t].entry})
    BY <2>2, <2>3, FS_Subset
  <2> QED  BY <2>3, <2>4
<1> QED  BY <1>1, LinkInvHolds, PTL

\* And an entry that awaits review can be reached from a row in review.
THEOREM PendingStaysReachable == Spec => []PendingIsReachable
<1>1. Origins /\ LinkInv => PendingIsReachable
  <2> SUFFICES ASSUME Origins, LinkInv, NEW e \in Entries,
                      entry[e].status = "pending_review", e[2] \notin crossed
               PROVE  \E t \in Txns : row[t].entry = e /\ row[t].status = "pending_review"
    BY DEF PendingIsReachable
  <2>1. e[2] \in Txns /\ e[2] # Null
    BY EntryIds DEF Origins, EntriesAreOwn, Made
  <2> QED  BY <2>1 DEF LinkInv, InForce
<1> QED  BY <1>1, LinkInvHolds, PTL

\* Without approvals, which refresh no balance, the stored balance of the bank account
\* is the sum of its posted entries, whatever else overlaps.
THEOREM BalanceWithoutApprovals == Spec => [](NoApproval => StoredBalanceIsBook)
<1>1. Init => BalanceInv
  <2> SUFFICES ASSUME Init PROVE balance = SumOf(Posted(entry), job)
    BY DEF BalanceInv
  <2>1. balance = 0 /\ Posted(entry) = {}
    BY DEF Init, Posted
  <2> QED  BY <2>1, SumOfNone
<1>2. IInv /\ Origins /\ BalanceInv /\ [Next]_vars => BalanceInv'
  BY BalanceInvStep
<1>3. BalanceInv => (NoApproval => StoredBalanceIsBook)
  BY BookIsSum DEF BalanceInv, StoredBalanceIsBook
<1> QED  BY <1>1, <1>2, <1>3, OriginsHold, PTL DEF Spec
=============================================================================
