------------------------------- MODULE BankBooks -------------------------------
(***************************************************************************)
(* The transactions of one bank account and the journal entries that book  *)
(* them: importing, applying bank rules and rolling them back, reconciling,*)
(* reviewing, reclassifying, matching automatically, and periods.          *)
(*                                                                         *)
(* A handler is its reads, one step each, and its writes. The writes of a  *)
(* database transaction, from the first to the commit, are one step: from  *)
(* its first write on a transaction holds the rows it wrote, and what it   *)
(* reads afterwards are rows it holds. Statements outside a transaction    *)
(* are steps of their own. How the entries are sealed and their balances   *)
(* summed statement by statement is the subject of JournalLedger.          *)
(***************************************************************************)
EXTENDS Integers, FiniteSets, FiniteSetsExt

CONSTANTS
    Requests,   \* HTTP requests; one also names the record or period it creates
    Txns,       \* the bank transactions of the account
    Accounts,   \* GL accounts the other side of a booking can go to
    Null,       \* SQL NULL
    Amount,     \* Amount[t]: what t adds to the bank account, in cents
    Odd,        \* Odd[t]: accounts whose type is suspicious for the sign of t
    Suspense,   \* the suspense account (code 1050), or Null
    Workloads   \* the assignments of a job to every request

ASSUME NullAssumption ==
    /\ Null \notin Requests \union Txns \union Accounts
    /\ Null \notin Requests \X (Txns \union {Null})

\* A transaction of nothing is booked by no handler.
ASSUME AmountAssumption == Amount \in [Txns -> Int \ {0}]

ASSUME SuspenseAssumption == Suspense \in Accounts \union {Null}

Ops == {"import", "apply", "single", "revert", "post", "reconcile", "approve", "reject",
        "reclassify", "autoRule", "autoAmount", "unreconcile", "ignore",
        "unignore", "start", "complete", "cancel", "adjust"}

\* "txns" is the one transaction of the request, or the lines of an import, or the
\* batch of apply, single, autoRule, unreconcile and ignore. "entries": createJournalEntries of a
\* reconciliation. "review": the policy of an apply asks for it. "ref": the
\* period or the rule application meant. "amount": what an adjustment books.
JobSet == [op: Ops, txns: SUBSET Txns, gl: Accounts \union {Null},
           entries: BOOLEAN, review: BOOLEAN, ref: Requests \union {Null},
           amount: Int]

\* What a client can ask for: these handlers take one transaction, and these
\* name the application or the period they mean.
ASSUME WorkloadsAssumption ==
    \A w \in Workloads :
      /\ w \in [Requests -> JobSet]
      /\ \A r \in Requests :
           /\ w[r].op \in {"post", "reconcile", "approve", "reject", "reclassify", "autoAmount"}
                => \E t \in Txns : w[r].txns = {t}
           /\ w[r].op \in {"revert", "post", "complete", "cancel"} => w[r].ref \in Requests

\* The entry request e[1] creates to book transaction e[2]; an adjustment books none.
Entries == Requests \X (Txns \union {Null})

\* "rule" is whether matchedRuleId is set; "absent", that it is not imported yet.
Rows == [reconciled: BOOLEAN, ignored: BOOLEAN,
         status: {"absent", "posted", "pending_review", "suspense"},
         gl: Accounts \union {Null}, rule: BOOLEAN,
         entry: Entries \union {Null}, period: Requests \union {Null},
         record: Requests \union {Null}]

\* "sealed" is whether the entry has joined the hash chain.
EntryRows == [status: {"absent", "draft", "pending_review", "posted", "void"},
              sealed: BOOLEAN, record: Requests \union {Null}]

VARIABLES
    row,        \* BankTransaction rows
    entry,      \* JournalEntry rows
    record,     \* RuleApplyRecord.state, by the request that applied
    period,     \* ReconciliationPeriod.status, by the request that started it
    balance,    \* stored GlAccount.balance of the bank account
    job,        \* what each request asks for
    pc,         \* how far each handler is
    seen,       \* the rows each handler read
    batch,      \* the rows it goes on with
    found,      \* the entries it read
    res,        \* the answer given
    crossed     \* history, see Crossing

books == <<row, entry, record, period, balance>>
mem == <<seen, batch, found>>
vars == <<books, job, pc, mem, res, crossed>>

-----------------------------------------------------------------------------
(* Rows, entries and balances. *)

Txn(r) == CHOOSE t \in job[r].txns : TRUE

\* A row as an import inserts it, before it is classified.
Imported == [reconciled |-> FALSE, ignored |-> FALSE, status |-> "posted",
             gl |-> Null, rule |-> FALSE, entry |-> Null, period |-> Null,
             record |-> Null]

Absent == [Imported EXCEPT !.status = "absent"]

Stored == {t \in Txns : row[t] # Absent}

\* ELIGIBLE_FOR_CLASSIFICATION_FILTER, forgetting that a rule claimed the row.
EligibleAgain(x) == x # Absent /\ ~x.reconciled /\ ~x.ignored

\* ELIGIBLE_FOR_CLASSIFICATION_FILTER.
Eligible(x) ==
    /\ x # Absent
    /\ ~x.reconciled /\ ~x.ignored
    /\ x.entry = Null /\ ~x.rule /\ x.gl = Null

EntryAmount(e) == IF e[2] = Null THEN job[e[1]].amount ELSE Amount[e[2]]

Posted(rows) == {e \in Entries : rows[e].status = "posted"}

\* recalculateBalance of the bank account: all posted entries of the company.
Book(rows) == MapThenSumSet(EntryAmount, Posted(rows))

\* The closing balance of the latest statement; the account opened at zero.
Statement == MapThenSumSet(LAMBDA t : Amount[t], Stored)

\* Mutant of NewEntry: a posted entry does not join the chain.
NewEntryUnsealed(status, by) ==
    [status |-> status, sealed |-> FALSE, record |-> by]

\* appendEntryToJournalChain seals exactly the entries that are posted.
NewEntry(status, by) ==
    [status |-> status, sealed |-> status = "posted", record |-> by]

Voided(rows, E) ==
    [e \in Entries |-> IF e \in E THEN [rows[e] EXCEPT !.status = "void"] ELSE rows[e]]

-----------------------------------------------------------------------------
(* The steps of a handler. *)

At(r, op, label) == job[r].op = op /\ pc[r] = label

Goto(r, label) == pc' = [pc EXCEPT ![r] = label] /\ UNCHANGED <<res, crossed>>

\* History, not in the code: the transactions whose link r overwrites, unlinks or
\* reviews although it is not the link, or not one of the entries, that r read; an
\* amount match looks at no link at all. A draft that r posts may be one no more.
Crossing(r) ==
    {t \in IF job[r].op \in {"autoRule", "revert"} THEN batch[r] ELSE job[r].txns :
       \/ /\ job[r].op \in {"reclassify", "approve", "reject"}
          /\ row[t].entry # seen[r][t].entry
       \/ /\ job[r].op \in {"reconcile", "autoRule"} /\ job[r].entries
          /\ seen[r][t].entry = Null /\ row[t].entry # Null
       \/ job[r].op = "autoAmount" /\ row[t].entry \notin {Null, row'[t].entry}
       \/ job[r].op = "revert" /\ row[t].entry \notin found[r] \union {Null}
       \/ job[r].op = "post" /\ entry[<<job[r].ref, t>>].status \notin {"draft", "posted"}}

\* Ends the handler; only one that has written its rows has crossed any.
Answer(r, a) ==
    /\ pc' = [pc EXCEPT ![r] = "done"]
    /\ res' = [res EXCEPT ![r] = a]
    /\ crossed' = IF pc[r] = "write" /\ a \in {"ok", "reverted"}
                  THEN crossed \union Crossing(r) ELSE crossed

\* Remembers the rows as they are, those to go on with, and entries.
Remember(r, T, E) ==
    /\ seen' = [seen EXCEPT ![r] = row]
    /\ batch' = [batch EXCEPT ![r] = T]
    /\ found' = [found EXCEPT ![r] = E]

\* A handler that reads T and E, and refuses when ok is false.
Read(r, T, E, ok, next) ==
    /\ IF ok THEN Goto(r, next) ELSE Answer(r, "refused")
    /\ Remember(r, T, E)
    /\ UNCHANGED <<books, job>>

\* A guard that refuses (a locked fiscal period), an aborted database
\* transaction, a lost connection: the handler ends where it is.
Fail(r) ==
    /\ pc[r] # "done"
    /\ Answer(r, "failed")
    /\ UNCHANGED <<books, job, mem>>

-----------------------------------------------------------------------------
(* Importing a statement: importTransactions. *)

\* Inserts the lines that are not stored yet, as one transaction; when an account
\* is known for them, by a rule or otherwise, it books them. What becomes of the
\* lines of a file one by one is the subject of StatementIntake.
Import(r) ==
    /\ At(r, "import", "begin")
    /\ LET T == job[r].txns \ Stored
           B == IF job[r].gl = Null THEN {} ELSE T
       IN  /\ \E ruled \in IF job[r].gl = Null THEN {FALSE} ELSE BOOLEAN :
                row' = [t \in Txns |->
                          IF t \in T
                          THEN [Imported EXCEPT
                                  !.gl = job[r].gl, !.rule = ruled,
                                  !.entry = IF t \in B THEN <<r, t>> ELSE Null]
                          ELSE row[t]]
           /\ entry' = [e \in Entries |->
                          IF e[1] = r /\ e[2] \in B THEN NewEntry("posted", Null)
                          ELSE entry[e]]
           /\ balance' = IF B = {} THEN balance ELSE Book(entry')
    /\ Answer(r, "ok")
    /\ UNCHANGED <<record, period, job, mem>>

-----------------------------------------------------------------------------
(* Applying bank rules: POST /api/bank-rules/apply-all and /bank-rules/[id]. *)

\* matchTransactions, outside the transaction. No candidate: nothing to apply.
Match(r) ==
    /\ \/ At(r, "apply", "begin")
       \/ At(r, "single", "begin")
    /\ LET T == {t \in job[r].txns : Eligible(row[t])}
       IN  Read(r, T, {}, T # {}, IF job[r].op = "apply" THEN "reread" ELSE "write")

\* executeApplyAll: the candidates still unmatched.
Reread(r) ==
    /\ At(r, "apply", "reread")
    /\ Read(r, {t \in batch[r] : Eligible(row[t])}, {}, TRUE, "write")

\* The writes of a rule application that classifies the rows G and books those in B.
Claim(r, G, B) ==
    LET status == IF job[r].review THEN "draft" ELSE "posted"
    IN  /\ row' = [t \in Txns |->
                     IF t \in G
                     THEN [row[t] EXCEPT
                             !.gl = job[r].gl, !.rule = TRUE, !.record = r,
                             !.entry = IF t \in B THEN <<r, t>> ELSE @]
                     ELSE row[t]]
        /\ entry' = [e \in Entries |->
                       IF e[1] = r /\ e[2] \in B THEN NewEntry(status, r) ELSE entry[e]]
        /\ record' = IF G = {} THEN record ELSE [record EXCEPT ![r] = "applied"]
        /\ balance' = IF job[r].review \/ B = {} THEN balance ELSE Book(entry')

\* Mutant of Acquire: books every row it matched, acquired or not.
AcquireStale(r) ==
    /\ At(r, "apply", "write")
    /\ LET G == {t \in batch[r] : Eligible(row[t])}
       IN  Claim(r, G, IF job[r].gl = Null THEN {} ELSE batch[r])
    /\ Answer(r, "ok")
    /\ UNCHANGED <<period, job, mem>>

\* Classifies the rows that are still eligible when it comes to lock them, and
\* books, links and records those; a loser that acquires none leaves no record.
Acquire(r) ==
    /\ At(r, "apply", "write")
    /\ LET G == {t \in batch[r] : Eligible(row[t])}
       IN  Claim(r, G, IF job[r].gl = Null THEN {} ELSE G)
    /\ Answer(r, "ok")
    /\ UNCHANGED <<period, job, mem>>

\* executeSingleRuleClassificationApply: classifies, books nothing.
AcquireSingle(r) ==
    /\ At(r, "single", "write")
    /\ Claim(r, {t \in batch[r] : Eligible(row[t])}, {})
    /\ Answer(r, "ok")
    /\ UNCHANGED <<period, job, mem>>

-----------------------------------------------------------------------------
(* Rolling a rule application back: .../applications/[id]/rollback. *)

ReadRecord(r) ==
    /\ At(r, "revert", "begin")
    /\ Read(r, {t \in Txns : row[t].record = job[r].ref},
            {e \in Entries : /\ entry[e].record = job[r].ref
                             /\ entry[e].status \notin {"absent", "void"}},
            record[job[r].ref] = "applied", "write")

Unlinked(r) ==
    [t \in Txns |-> IF t \in batch[r]
                    THEN [row[t] EXCEPT !.gl = Null, !.rule = FALSE, !.entry = Null]
                    ELSE row[t]]

\* Mutant of Revert: without the compare-and-swap on the record.
RevertBlindly(r) ==
    /\ At(r, "revert", "write")
    /\ entry' = Voided(entry, found[r])
    /\ row' = Unlinked(r)
    /\ record' = [record EXCEPT ![job[r].ref] = "reverted"]
    /\ balance' = IF found[r] = {} THEN balance ELSE Book(entry')
    /\ Answer(r, "reverted")
    /\ UNCHANGED <<period, job, mem>>

\* Mutant of Revert: drafts are left alone, as they count in no balance.
RevertPosted(r) ==
    /\ At(r, "revert", "write")
    /\ record[job[r].ref] = "applied"
    /\ entry' = Voided(entry, found[r] \intersect Posted(entry))
    /\ row' = Unlinked(r)
    /\ record' = [record EXCEPT ![job[r].ref] = "reverted"]
    /\ balance' = IF found[r] = {} THEN balance ELSE Book(entry')
    /\ Answer(r, "reverted")
    /\ UNCHANGED <<period, job, mem>>

\* Voids what it read as not void, unlinks the rows it read, and claims the
\* record; when another revert has, the whole transaction is rolled back (Fail).
Revert(r) ==
    /\ At(r, "revert", "write")
    /\ record[job[r].ref] = "applied"
    /\ entry' = Voided(entry, found[r])
    /\ row' = Unlinked(r)
    /\ record' = [record EXCEPT ![job[r].ref] = "reverted"]
    /\ balance' = IF found[r] = {} THEN balance ELSE Book(entry')
    /\ Answer(r, "reverted")
    /\ UNCHANGED <<period, job, mem>>

-----------------------------------------------------------------------------
(* Posting a draft left for review: POST /api/journal/[id]. *)

Draft(r) == <<job[r].ref, Txn(r)>>

ReadDraft(r) ==
    /\ At(r, "post", "begin")
    /\ Read(r, {}, {Draft(r)}, entry[Draft(r)].status = "draft", "write")

\* The row is updated by id; the chain refuses an entry it has sealed already.
Post(r) ==
    /\ At(r, "post", "write")
    /\ IF entry[Draft(r)].sealed
       THEN /\ Answer(r, IF entry[Draft(r)].status = "posted" THEN "ok" ELSE "failed")
            /\ UNCHANGED <<entry, balance>>
       ELSE /\ entry' = [entry EXCEPT ![Draft(r)].status = "posted",
                                      ![Draft(r)].sealed = TRUE]
            /\ balance' = Book(entry')
            /\ Answer(r, "ok")
    /\ UNCHANGED <<row, record, period, job, mem>>

-----------------------------------------------------------------------------
(* Reconciling by hand: ReconciliationService.reconcile, one transaction. *)

\* The transaction count of the period is written last; without the row, the
\* whole reconciliation aborts. The status of the period is not looked at.
PeriodExists(r) == job[r].ref # Null => period[job[r].ref] # "absent"

\* A transaction that is reconciled already is skipped.
Find(r) ==
    /\ At(r, "reconcile", "begin")
    /\ Read(r, job[r].txns, {}, Txn(r) \in Stored /\ ~row[Txn(r)].reconciled, "write")

\* The account is suspicious for the amount, or contradicts the one booked.
Warned(r) ==
    LET old == seen[r][Txn(r)]
    IN  /\ job[r].gl # Null
        /\ \/ job[r].gl \in Odd[Txn(r)]
           \/ old.entry # Null /\ old.gl \notin {Null, job[r].gl}

\* Contract 1:1: a transaction that had an entry when it was read gets no other.
Creates(r) ==
    /\ job[r].entries /\ job[r].gl # Null
    /\ seen[r][Txn(r)].entry = Null

\* What it writes to the row, by id, whatever has become of it.
Reconciled(x, r) ==
    [x EXCEPT
       !.reconciled = TRUE,
       !.gl = IF seen[r][Txn(r)].entry = Null /\ job[r].gl # Null THEN job[r].gl ELSE @,
       !.status = IF Warned(r) THEN "pending_review" ELSE @,
       !.period = IF job[r].ref # Null THEN job[r].ref ELSE @,
       !.entry = IF Creates(r) THEN <<r, Txn(r)>> ELSE @]

Reconcile(r) ==
    /\ At(r, "reconcile", "write")
    /\ PeriodExists(r)
    /\ row' = [row EXCEPT ![Txn(r)] = Reconciled(@, r)]
    /\ IF Creates(r)
       THEN /\ entry' = [entry EXCEPT ![<<r, Txn(r)>>] =
                           NewEntry(IF Warned(r) THEN "pending_review" ELSE "posted", Null)]
            /\ balance' = Book(entry')
       ELSE UNCHANGED <<entry, balance>>
    /\ Answer(r, "ok")
    /\ UNCHANGED <<record, period, job, mem>>

-----------------------------------------------------------------------------
(* Reviewing a suspicious transaction: POST /api/reconciliation/review. *)

ReadReview(r) ==
    /\ \/ At(r, "approve", "begin")
       \/ At(r, "reject", "begin")
    /\ Read(r, job[r].txns, {}, row[Txn(r)].status = "pending_review", "write")

\* The entry the row linked when it was read, if it is pending now.
Pending(r) ==
    {e \in Entries : e = seen[r][Txn(r)].entry /\ entry[e].status = "pending_review"}

\* Posts the pending entry; the balance of its accounts is left as it is.
Approve(r) ==
    /\ At(r, "approve", "write")
    /\ row' = [row EXCEPT ![Txn(r)].status = "posted"]
    /\ entry' = [e \in Entries |->
                   IF e \in Pending(r)
                   THEN [entry[e] EXCEPT !.status = "posted", !.sealed = TRUE]
                   ELSE entry[e]]
    /\ Answer(r, "ok")
    /\ UNCHANGED <<record, period, balance, job, mem>>

\* Mutant of Reject: forgets the pending entry.
RejectRowOnly(r) ==
    /\ At(r, "reject", "write")
    /\ row' = [row EXCEPT ![Txn(r)].status = "suspense", ![Txn(r)].reconciled = FALSE]
    /\ Answer(r, "ok")
    /\ UNCHANGED <<entry, record, period, balance, job, mem>>

\* Voids the pending entry and moves the row to suspense, still linked to it.
Reject(r) ==
    /\ At(r, "reject", "write")
    /\ row' = [row EXCEPT ![Txn(r)] =
                 [@ EXCEPT !.status = "suspense", !.reconciled = FALSE,
                           !.gl = IF Suspense # Null THEN Suspense
                                  ELSE seen[r][Txn(r)].gl]]
    /\ entry' = Voided(entry, Pending(r))
    /\ Answer(r, "ok")
    /\ UNCHANGED <<record, period, balance, job, mem>>

-----------------------------------------------------------------------------
(* Giving a transaction another account: PATCH /api/transactions/[id]. *)

ReadRow(r) ==
    /\ At(r, "reclassify", "begin")
    /\ Read(r, job[r].txns, {}, Txn(r) \in Stored /\ job[r].gl # Null, "write")

\* Voids the entry the row linked when it was read, whatever it links now, and
\* books the transaction again.
Reclassify(r) ==
    /\ At(r, "reclassify", "write")
    /\ row' = [row EXCEPT ![Txn(r)].gl = job[r].gl, ![Txn(r)].entry = <<r, Txn(r)>>]
    /\ entry' = [Voided(entry, {seen[r][Txn(r)].entry} \ {Null})
                   EXCEPT ![<<r, Txn(r)>>] = NewEntry("posted", Null)]
    /\ balance' = Book(entry')
    /\ Answer(r, "ok")
    /\ UNCHANGED <<record, period, job, mem>>

-----------------------------------------------------------------------------
(* Matching automatically: POST /api/reconciliation/auto. *)

\* The unreconciled rows, and the posted entries an amount can match.
Scan(r) ==
    /\ \/ At(r, "autoRule", "begin")
       \/ At(r, "autoAmount", "begin")
    /\ LET T == {t \in job[r].txns \intersect Stored : ~row[t].reconciled}
       IN  Read(r, T, Posted(entry), T # {}, "write")

\* What both matches write to a row, by id.
Matched(x, r) ==
    [x EXCEPT !.reconciled = TRUE, !.gl = job[r].gl,
              !.period = IF job[r].ref # Null THEN job[r].ref ELSE @]

\* Rows a rule matched; those without an entry when scanned are booked on request.
MatchByRule(r) ==
    /\ At(r, "autoRule", "write")
    /\ PeriodExists(r)
    /\ LET B == {t \in batch[r] : job[r].entries /\ seen[r][t].entry = Null}
       IN  /\ row' = [t \in Txns |->
                        IF t \in batch[r]
                        THEN [Matched(row[t], r) EXCEPT
                                !.rule = TRUE,
                                !.entry = IF t \in B THEN <<r, t>> ELSE @]
                        ELSE row[t]]
           /\ entry' = [e \in Entries |->
                          IF e[1] = r /\ e[2] \in B THEN NewEntry("posted", Null)
                          ELSE entry[e]]
           /\ balance' = IF B = {} THEN balance ELSE Book(entry')
    /\ Answer(r, "ok")
    /\ UNCHANGED <<record, period, job, mem>>

\* A row matched to an entry of its amount that no other row links
\* (BankTransaction.journalEntryId is unique: else the transaction aborts).
MatchByAmount(r) ==
    /\ At(r, "autoAmount", "write")
    /\ PeriodExists(r)
    /\ \/ \E e \in found[r] :
            /\ EntryAmount(e) = Amount[Txn(r)]
            /\ \A t \in Txns \ {Txn(r)} : row[t].entry # e
            /\ row' = [row EXCEPT ![Txn(r)] = [Matched(@, r) EXCEPT !.entry = e]]
       \/ /\ \A e \in found[r] : EntryAmount(e) # Amount[Txn(r)]
          /\ row' = row
    /\ Answer(r, "ok")
    /\ UNCHANGED <<entry, record, period, balance, job, mem>>

-----------------------------------------------------------------------------
(* Undoing, ignoring, adjusting: statements outside any transaction. *)

ReadReconciled(r) ==
    /\ At(r, "unreconcile", "begin")
    /\ LET T == {t \in job[r].txns : row[t].reconciled}
       IN  Read(r, T, {}, T # {}, "periods")

\* S22(d): refused when one of the periods it read is completed.
CheckPeriods(r) ==
    /\ At(r, "unreconcile", "periods")
    /\ Read(r, batch[r], {},
            \A t \in batch[r] :
               seen[r][t].period # Null => period[seen[r][t].period] # "completed",
            "write")

Unreconcile(r) ==
    /\ At(r, "unreconcile", "write")
    /\ row' = [t \in Txns |-> IF t \in batch[r]
                              THEN [row[t] EXCEPT !.reconciled = FALSE, !.period = Null]
                              ELSE row[t]]
    /\ Answer(r, "ok")
    /\ UNCHANGED <<entry, record, period, balance, job, mem>>

ReadIgnored(r) ==
    /\ At(r, "ignore", "begin")
    /\ Read(r, job[r].txns, {}, \A t \in job[r].txns : ~row[t].reconciled, "write")

Ignore(r) ==
    /\ \/ At(r, "ignore", "write")
       \/ At(r, "unignore", "begin")
    /\ row' = [t \in Txns |-> IF t \in job[r].txns \intersect Stored
                              THEN [row[t] EXCEPT !.ignored = (job[r].op = "ignore")]
                              ELSE row[t]]
    /\ Answer(r, "ok")
    /\ UNCHANGED <<entry, record, period, balance, job, mem>>

\* POST /api/reconciliation/adjustment: an entry that books no transaction.
Adjust(r) ==
    /\ At(r, "adjust", "begin")
    /\ entry' = [entry EXCEPT ![<<r, Null>>] = NewEntry("posted", Null)]
    /\ balance' = Book(entry')
    /\ Answer(r, "ok")
    /\ UNCHANGED <<row, record, period, job, mem>>

-----------------------------------------------------------------------------
(* Reconciliation periods: POST /api/reconciliation/periods. *)

ReadOpen(r) ==
    /\ At(r, "start", "begin")
    /\ Read(r, {}, {}, \A p \in Requests : period[p] # "open", "write")

Start(r) ==
    /\ At(r, "start", "write")
    /\ period' = [period EXCEPT ![r] = "open"]
    /\ Answer(r, "ok")
    /\ UNCHANGED <<row, entry, record, balance, job, mem>>

ReadPeriod(r) ==
    /\ \/ At(r, "complete", "begin")
       \/ At(r, "cancel", "begin")
    /\ Read(r, {}, {}, period[job[r].ref] = "open",
            IF job[r].op = "complete" THEN "difference" ELSE "unlink")

\* The books differ from the statement: refused.
CheckDifference(r) ==
    /\ At(r, "complete", "difference")
    /\ Read(r, {}, {}, Book(entry) = Statement, "unmatched")

Unmatched == {t \in Stored : ~row[t].reconciled /\ ~row[t].ignored}

\* Something is left unreconciled: refused.
CheckUnmatched(r) ==
    /\ At(r, "complete", "unmatched")
    /\ Read(r, {}, {}, Unmatched = {}, "write")

Complete(r) ==
    /\ At(r, "complete", "write")
    /\ period' = [period EXCEPT ![job[r].ref] = "completed"]
    /\ Answer(r, "ok")
    /\ UNCHANGED <<row, entry, record, balance, job, mem>>

Unlink(r) ==
    /\ At(r, "cancel", "unlink")
    /\ row' = [t \in Txns |-> IF row[t].period = job[r].ref
                              THEN [row[t] EXCEPT !.period = Null] ELSE row[t]]
    /\ Goto(r, "write")
    /\ UNCHANGED <<entry, record, period, balance, job, mem>>

Cancel(r) ==
    /\ At(r, "cancel", "write")
    /\ period' = [period EXCEPT ![job[r].ref] = "cancelled"]
    /\ Answer(r, "ok")
    /\ UNCHANGED <<row, entry, record, balance, job, mem>>

-----------------------------------------------------------------------------

\* Lines that an import brings are not there before it.
Initially(t) ==
    IF \E r \in Requests : job[r].op = "import" /\ t \in job[r].txns
    THEN Absent ELSE Imported

Init ==
    /\ job \in Workloads
    /\ row = [t \in Txns |-> Initially(t)]
    /\ entry = [e \in Entries |-> [status |-> "absent", sealed |-> FALSE, record |-> Null]]
    /\ record = [r \in Requests |-> "absent"]
    /\ period = [r \in Requests |-> "absent"]
    /\ balance = 0
    /\ pc = [r \in Requests |-> "begin"]
    /\ seen = [r \in Requests |-> row]
    /\ batch = [r \in Requests |-> {}]
    /\ found = [r \in Requests |-> {}]
    /\ res = [r \in Requests |-> "none"]
    /\ crossed = {}

Next ==
    \E r \in Requests :
      \/ Import(r)
      \/ Match(r) \/ Reread(r) \/ Acquire(r) \/ AcquireSingle(r)
      \/ ReadRecord(r) \/ Revert(r)
      \/ ReadDraft(r) \/ Post(r)
      \/ Find(r) \/ Reconcile(r)
      \/ ReadReview(r) \/ Approve(r) \/ Reject(r)
      \/ ReadRow(r) \/ Reclassify(r)
      \/ Scan(r) \/ MatchByRule(r) \/ MatchByAmount(r)
      \/ ReadReconciled(r) \/ CheckPeriods(r) \/ Unreconcile(r)
      \/ ReadIgnored(r) \/ Ignore(r) \/ Adjust(r)
      \/ ReadOpen(r) \/ Start(r)
      \/ ReadPeriod(r) \/ CheckDifference(r) \/ CheckUnmatched(r) \/ Complete(r)
      \/ Unlink(r) \/ Cancel(r)
      \/ Fail(r)

Spec == Init /\ [][Next]_vars
=============================================================================
