# Verification of the accounting core

TLA+ specifications, TLC runs and TLAPS proofs for this accounting application
(Next.js route handlers, Prisma, PostgreSQL). The repository keeps the books of
several companies. Every handler is a sequence of `await`ed SQL statements;
handlers of any number of processes interleave between statements, and the
database runs at its default isolation level, Read Committed. The restore of a
company adds files that several processes share and a recovery after a crash.
That is where the hard part of the program lies, and it is what the
specifications model.

## 1. Inventory

| Component | State | Operations | Where |
|---|---|---|---|
| Journal entries | `JournalEntry`, `JournalLine`, `JournalCorrection`, `GlAccount.balance` | create (idempotent), edit a draft, post, void, correct, posting of a bank transaction | `lib/services/journal*.ts`, `app/api/journal/**` |
| Journal hash chain | `JournalEntry.hash/previousHash/hashVersion`, `JournalChainHead` | append, adopt a legacy chain, verify | `lib/journal-chain.ts`, `lib/journal-hash.ts` |
| Audit log chain | `AuditLog.hash/previousHash` | append, verify | `lib/audit.ts` |
| Fiscal periods | `FiscalPeriod.isLocked` | lock, unlock, generate, guard of every posting | `lib/fiscal-period-guard.ts`, `app/api/fiscal-periods/**` |
| Fiscal year close | closing entry, all periods | close a year | `lib/services/closing-engine.ts` |
| Bank reconciliation | `BankTransaction`, its journal entry, `ReconciliationPeriod` | reconcile, auto-match, review, ignore, unreconcile, adjust, complete a period | `lib/services/reconciliation.service.ts`, `app/api/reconciliation/**` |
| Classification | `BankTransaction.glAccountId`, journal | reclassify, roll back automation | `transaction-reclassification.service.ts` |
| Rule application | `RuleApplyRecord`, `BankRule` | apply one, apply all, roll back | `apply-all-*.ts`, `rollback-apply.service.ts` |
| Rule engine | none (pure) | match, rank, resolve precedence | `lib/rule-engine/**`, `rule-*-engine.ts` |
| Import | `BankStatement`, `BankTransaction`, `BankAccount` balances | identify lines, store a statement, classify, post | `import.service.ts` |
| AI proposals | `AiProposal` rows of imported lines | accept, correct, reject | `ai-proposal-approval.service.ts` |
| Learned knowledge | `MemoryItem`, `EntityNode` | learn a treatment, observe, detect and degrade conflicts, authorise patterns, resolve, rehabilitate, merge entities | `memory/classification-knowledge.ts`, `transaction-reclassification.service.ts`, `entity-memory.service.ts` |
| Identity | `User`, `IdentityPendingRegistration`, `Company` | request and confirm a code, invite, change, delete, first administrator | `lib/identity/**`, `auth.service.ts`, `app/api/admin/users/**` |
| Backup and restore | lease, marker and lock files, recovery journal, receipt, the company's rows and files | admit, close, drain, restore, recover after a crash, first installation | `lib/backup*`, `scripts/company-recovery.mjs`, `app/api/bootstrap/restore` |
| Limits and caches | in-process maps, `AiQuota` | admit, expire | `rate-limiter.ts`, `cache.ts`, `ai-quota.ts` |
| Entitlements, reports, UI | flags; none | read | |

How they interact: every writer of the ledger (journal routes, bank flows, rule
application, import, year close) calls `appendEntryToJournalChain`,
`recalculateBalance`, `assertActiveFiscalPeriod` and, except the bank flows,
`createAuditLogWithRetry` on its own transaction client. They share the head
row of the chain, the rows of the accounts, the advisory lock of the audit tail
and the period rows, and they take them in different orders. A reclassification
teaches the knowledge after its commit; the import and the rules ask that
knowledge, and the import leaves proposals that a person turns into
reclassifications. Every request that is not the recovery itself enters through
the maintenance gate, which a restore closes.

What is hard, component by component:

* journal: a status read before the transaction that changes it; a balance
  aggregated in one statement and written in the next; posts that race and must
  answer the loser; retries with one idempotency key; a correction made of two
  entries that must be sealed in order; deadlocks between handlers;
* chain: two appends that see one tail; a legacy chain with no head; posted
  history that was never sealed; a seal that must survive every later edit;
* audit: one tail for all companies, found by a query and not by a row lock;
* periods: a guard that reads a flag nobody locks;
* bank flows: a row matched, reconciled, reclassified or claimed by a rule from
  what was read before the transaction that writes it; an application rolled
  back twice, or while one of its drafts is posted; a review answered after the
  row went on; a period completed while its matches change;
* import: two imports of overlapping files; a statement inserted under a unique
  key while another transaction has done so and not committed; lines the
  classifier fails on; balances written from statements read without a lock; a
  person and a rule that decide one line; rows of one day inserted in two orders;
* knowledge: no statement of it runs under a lock, so every "there is none yet"
  and every confidence is written upon a reading that may be old; a merge that
  writes back what it read before; a description that people hand to another
  entity; a crash between a conflict and the degradation it calls for;
* identity: two first registrations; two administrators who delete each other;
  a code mailed before the account was deleted; a first installation that fails
  and removes by the archive's ids;
* restore: an operation between its two looks at the marker; a process that
  dies between two file operations or in the middle of one; two owners that
  resume one maintenance; COMMIT sent and its answer lost; files replaced one by
  one; a file changed by hand meanwhile;
* year close: sums read long before the closing entry is written.

## 2. Modules

| Module | What it is |
|---|---|
| `GeneralLedger` | the abstract promise: a sequence of postings that grows at its end, postings annulled once and for good, balances always equal to their sum |
| `JournalLedger` | the journal, chain, audit, correction and period-lock handlers over a Read Committed database: state, one action per statement, fairness |
| `JournalLedgerProps` | the type invariant, safety invariants, action properties, liveness, and the refinement to `GeneralLedger` |
| `JournalLedger_proofs`, `JournalChain_proofs`, `JournalRecords_proofs` | types; the chain never forks, seals are for ever, a finite chain is one walk; keys, audit rows, corrections, bank entries, posts, the chain's root, balances, and the refinement |
| `BankBooks` | the bank transactions of one account and the entries that book them: rule applications and rollbacks, posting of drafts, reconciliation, review, reclassification, automatic matching, periods |
| `BankBooksProps`, `BankBooks_proofs` | its properties and inductive invariants; types, one winner among rollbacks, applications keep their rows, reverts are whole, entries in force are linked and count once, the stored balance |
| `MaintenanceGate` | leases, marker and recovery lock in the directory every process shares; processes that die and start |
| `CoordinatedRestore` | extends the gate: the transaction of a restore, its intent and receipt, the files, the recoveries |
| `RestorePromise` | the abstract promise: a company changes hands in one step, at a moment when nobody is inside |
| `CoordinatedRestoreProps` | the properties of both, and the refinement to `RestorePromise` |
| `CoordinatedRestore_proofs` | the gate's exclusion; the restore's types, whole archive, hand edits and refinement |
| `StructuralPatterns` | descriptions, structures, when one matches and two overlap: pure operators |
| `LearnedKnowledge`, `LearnedKnowledgeProps`, `LearnedKnowledge_proofs` | the memory store and the calls that learn, contradict, authorise, resolve, rehabilitate and merge; all its properties proved |
| `StatementIntake`, `StatementIntakeProps`, `StatementIntake_proofs` | imports of bank statements, the proposals they leave, and the decisions of people and rules; all its properties proved |
| `AccountAccess`, `AccountAccessProps`, `AccountAccess_proofs` | registrations, the first administrator, invitations, deletions, the first-install restore |
| `MC...` | the instances TLC explores, one module for each specification |

`JournalLedger` and `BankBooks` meet at a booking. `JournalLedger` has it
statement by statement, with the chain, the aggregate of the balance and the
locks (its `bank` request is `createFromBankTransaction`); `BankBooks` takes what
it does as one step and follows the bank transaction through the handlers around
it, and `StatementIntake` does the same for the lines of a file.
`CoordinatedRestore` composes the gate with the database and the files;
`AccountAccess` takes the gate in its simplest form, closed until nothing runs.
What `LearnedKnowledge` answers is the nondeterministic verdict of
`StatementIntake`.

### How `JournalLedger` corresponds to the code

`entry`, `head`, `balance`, `audit`, `corr`, `linked` and `locked` are the
committed tables (`linked`: the entries some bank transaction names). `tx[r]` holds the uncommitted writes of request `r`; `View(r)`
is what its statements see (committed rows, overlaid with its own), which is
Read Committed. `holder` is the lock table of PostgreSQL: the row of the chain
head, the advisory lock of the audit tail, entry and account rows, and a key
being inserted into one of the two unique indexes. A statement that wants a
lock runs only when it is free or its own, and keeps it to the end of the
transaction. `pre`, `due` and `sum` are the handler's local variables: what it
read before its transaction, the accounts it still has to recalculate, the
aggregate between its two statements.

`Script(j)` gives the statements of each handler in the order the code awaits
them, and every label has its action: `Lookup`, `Read`, `LinkCheck` (before the
transaction), `FiscalPass/FiscalRefuse`, `InsertOne`, `InsertDuplicate`,
`InsertPair`, `Reread`, `PostUpdate`, `VoidUpdate`, `EditUpdate`, `MatchUpdate`
(the automatic match by amount, which links a bank transaction to an entry that
is already posted), `SealAppend`,
`AppendRefused`, `AppendBlocked`, `Audit`, `LinkCorrection`, `RecalcRead`,
`RecalcWrite`, `Commit`, and after an abort `Winner` and `Certify`. `Fail` is
any statement error, timeout or crash; `DeadlockVictim` is PostgreSQL's
detector. `ReadPeriod` and `LockPeriod` are the lock route, which runs without
a transaction. `raced` is a history variable that only a property reads: the
entries a match linked while a void or a correction of them was past its look-up
of links, or done (`Overtaken`).

Data abstractions:

* a *content* stands for date, description, reference and lines together, with
  the accounts its lines touch; amounts are abstracted by representing a balance
  as the set of postings it sums, so a balance is right exactly when the set is;
* an HMAC is the record of what it commits to (version, entry, content,
  predecessor). Two are equal exactly when what they commit to is. The V1 format
  covers totals and not lines; since legacy rows are edited by no handler here,
  it is given the content too. A predecessor is named by its entry id: a set of
  seals with each its own entry has no two alike;
* one company, one period: handlers of different companies share only the audit
  lock, and the guard asks one yes/no question.

### How `BankBooks` corresponds to the code

`row`, `entry`, `record`, `period` and `balance` are the tables
`BankTransaction`, `JournalEntry`, `RuleApplyRecord`, `ReconciliationPeriod` and
the stored balance of the bank's GL account. `job[r]` is the request, `pc[r]`
where its handler is, and `seen`, `batch`, `found` what it keeps in local
variables across an `await`. Every read a handler decides on is a step of its
own (`Match`, `Reread`, `ReadRecord`, `ReadDraft`, `Find`, `ReadReview`,
`ReadRow`, `Scan`, `ReadReconciled`, `CheckPeriods`, `ReadIgnored`, `ReadOpen`,
`ReadPeriod`, `CheckDifference`, `CheckUnmatched`), and so is every write made
outside a transaction (`Unreconcile`, `Ignore`, `Start`, `Complete`, `Unlink`,
`Cancel`). A transaction is `absent` until `Import` inserts it, classified or not. The writes of one database transaction are one step (`Acquire`,
`AcquireSingle`, `Revert`, `Post`, `Reconcile`, `Approve`, `Reject`,
`Reclassify`, `MatchByRule`, `MatchByAmount`, `Adjust`): what the code reads
after its first write are rows it has locked by then, and two such transactions
that lock in opposite orders lose one of them, which is `Fail`. `crossed` is a
history variable that only properties read (`Crossing`): the transactions that a
handler has written although their link was not the one it had read, and those
that a match by amount, which looks at no link, took from another entry.

Abstractions: an entry is named by the request and the transaction it books,
and its lines by that transaction's amount; an account that is suspicious for a
sign is a member of `Odd[t]`; reconcile, review, reclassify and the match by
amount take one transaction per request, while applications, the match by rule,
unreconcile and ignore take a batch; one rule per application. Left out: the
guard of pending human decisions (it is in `StatementIntake`), fiscal and tenant
refusals (`Fail`), audit rows. The void of a posted entry is in `JournalLedger`.
Recalculations that race are too: here a balance is the sum of the moment.

### How `MaintenanceGate` and `CoordinatedRestore` correspond to the code

`lease`, `marker` and `lock` are the files of the maintenance directory, `up`
the processes, `pc[o]` where an operation, a restore or a resumption stands, and
`own[o]` the maintenance it believes it owns. The gate's calls use synchronous
file operations: within a process nothing runs between the steps of one call
(`MidCall`, `Turn`), while other processes may run between any two and the
process may die at any. A record whose writer dies while writing is `Torn`;
`leaseIds` then throws, as does everything that reads the leases. `Admit`,
`WriteLease`, `Recheck`, `Finish` are an ordinary request; `Begin`,
`PublishMarker`, `Drain`, `DrainExpires` close the application; `CheckOwner`,
`LockRecovery`, `Revalidate`, `EndRecovery`, `Unmark`, `Unlock` are
`runRecovery` and `release`; `Resume` and `ResumeOffline` are the recovery from
inside the application and the operator's command.

`db` and `file[f]` are represented by who wrote them last. `tx[r]` is the
restore's transaction as the database knows it: once `SendCommit` has run, the
database commits or aborts it by itself (`CommitTx`, `AbortTx`), whatever happens
to the process. `intent[r]` is the recovery journal, with the image of each file
before. An owner in recovery goes through `WriteIntent`, `SendCommit`,
`Confirmed` or `NotConfirmed`, `PlanFiles`, `ReplaceFile` one file at a time,
`FilesReplaced`; a later one begins at `ReadReceipt`, which takes the company's
advisory lock, so that it waits for a transaction still open. `Diverged` is a
file that holds neither image; `HandEdit` puts it there. `Crash` loses `work`,
`verdict` and `todo` and keeps the files and the database. Not modelled:
retention of snapshots, archive formats and their validation, the restore of
legacy archives.

### How `LearnedKnowledge` corresponds to the code

`items` is the memory store in the order of creation; `heir` the entity each one
was merged into; `payee` the entity whose alias a description is, which
`EditAlias` (the routes that add and remove aliases, and the merge's rollback)
hands to another or to nobody for the descriptions in `Shared`, under the company
lock that a merge holds; `call[c]` a request and what it has read. A correction is
`StartLearn`, `ReadTreatment`, `CreateTreatment` or `UpdateTreatment`,
`ReadResolutions`, `ReadPending`, `Promote`, `Observe`, `ReadPatterns`,
`ReadEvidence`, `Detect`, `ReadConflicts`, `PersistConflict`, `Settle`,
`LoadTargets`, `Degrade`, in the order `executeKnowledgeEnginePhase` awaits them.
`StartDiscovery` to `EndDiscovery` is the route of structural candidates, and
the other calls are the authorisation of a candidate, the resolution of a
conflict, the rehabilitation of an item, and the merge of two entities, which
reads in `StartMerge` and writes in `Commit`. A structure is a sequence of tokens
in which some are any token. `stale` and `strays` are history variables: they
name the entities, and the items, that were written upon a reading another call
had made false, and only properties read them.

Abstractions: the direction is always `any`, as all callers pass it; `getById`
followed by `updateConfidence` is one step, and so is the check for the same
content with the record that follows; the reads of a merge are one step, and a
merge names choices exactly when there are collisions; a crash is a call that
takes no further step. Role knowledge, evidence of rule executions and the
confirmation of an unknown entity are left out.

Since two entities may have been observed for one transaction, a merge can find
the same content under its target: `transferItem` then skips the item and leaves
it active under the source, as
`tests/integration/entity-merge-ke-consolidation.test.ts:1175-1178` expects. The
merge here does the same (`IsTwin`), and `MergeLosesNothing` asks of such an item
that the heir holds its content (`HeldByHeir`).

### How `StatementIntake` corresponds to the code

`accounts`, `statements`, `rows` and `proposals` are the committed tables;
`calls[c]` an import: `Receive`, `LookUp`, `OpenStatement`, `Classify`,
`InsertRow`, `TraceAndPost`, `ReadStatements`, `Commit` or `Abort`. The look-up
of hashes is before the transaction. Rows are inserted one at a time, in the order
of their days and, within a day, of the file, which may be any (`Turn`, `Sooner`).
What an open transaction has inserted is in its call; another transaction that
inserts the same statement key or hash waits for it (`Vacant`, `Clear`), two that
wait for each other's rows are a deadlock, of which PostgreSQL aborts one
(`Abort`), and the advisory lock of the audit trail (`TrailFree`) is taken by the
first trace of a classification and kept to the commit. `EditNumber` changes an
account's number, which is part of every hash. `ReadForEdit`, `WriteEdit` and
`RefuseEdit` are the same route with a balance in its body: it reads the
statements outside a transaction and later writes the balance it computed from
them, under no lock. `outdated` is a history variable that only properties read:
the accounts edited with the balance of statements that were not all any more.
`Decide` and `Reclassify` are a person, `ApplyRule` a rule, which leaves out rows
with an undecided proposal.

Abstractions: the verdict on a line is nondeterministic and the lines are
classified in one step; the look for a statement and its INSERT are one step;
`Abort` is a locked period, a timeout or a crash; `accepted` stands for accepted
and corrected, `by = "engine"` for knowledge and rules. The legacy hash, CSV
layout memory, shadow metrics and the audit written after the commit are left
out, as is `isActive` in the route that edits an account.

### How `AccountAccess` corresponds to the code

`user[e]` is the account of an address, `request[e]` its registration request with
the number of the code that stands, `grants` the addresses that presented the
setup token, `companies` what can be administered, `marker` the closed
installation. A confirmation is `BeginConfirmation`, `ProveCode` (which takes the
lock of the address), `CountAccounts` (which takes the lock of the first
registration), `Confirm`. A deletion is `BeginDeletion`, `NameIdentity`,
`ListAdmins`, `LockRows`, `CheckDeletion`, `Remove`; `BeginChange` and `Change`
are PATCH; `Invite` stands for accounts made by an administrator and by the
invitation of a company. `BeginFirstInstall`, `Prepare`, `CloseInstallation`,
`Restore`, `RefuseArchive`, `LeaveInDoubt`, `Discard` are the restore into an
installation without companies. `Lapse` is the end of a code or of a grant.
Passwords, sessions, rate budgets, the change of an address and password
recovery are left out; PATCH changes role and activity together.

## 3. Runs

Deadlock checking is off because requests end. The journal runs use
`MCJournalLedger`. Three requests run at a time: every race listed in section 1 is between two
handlers, and the third supplies the step in the middle (post, void, post again)
or the second conflicting lock. Entry ids suffice for all of them to create
what they create. The contents `c1`, `c2` share one account and differ in
another, with a reversal each, so that balances conflict and differ.

| Run | Instance | Properties |
|---|---|---|
| `ledger_core` | every mix of three of {post, void ×2, create posted ×3 with one key, create a draft}, one sealed entry and one draft | `TypeOK`, `PostAnswersTruthfully`, `BalancesAreExact`, `AuditIsLinear`, `OneEntryPerKey`, `ImplementsGeneralLedger` |
| `ledger_chain` | every mix of three of {post, void, edit, create, bank posting, void of it, match of it, match of the standing entry, two corrections, period lock}, from a fresh company, an empty one, a legacy chain with a void member, an unsealed history; 0.7 million states | `ChainIsLinear`, `NoRootOverUnsealed`, `CorrectionsAreWhole`, `BankEntriesStand`, `SealsAreForever` |
| `ledger_liveness` | triples whose handlers take locks in opposite orders | `EveryRequestEnds` |
| `edit_race` | post, edit, void | `SealMatchesContent` (violated) |
| `close_race` | post, lock, void | `ClosedPeriodTakesNoPosting` (violated) |

The bank runs use `MCBankBooks`: a deposit and a withdrawal of one amount, so
that the account can be balanced and a suspicious account exists for each; four
requests, so that there are an application, a second one or something done to
its rows, and two rollbacks at once.

| Run | Instance | Properties |
|---|---|---|
| `bank_flow` | 188 mixes of four requests: two applications (posted, in review, single) with rollbacks, marks, ignores and unreconciles; drafts being posted; suspicious rows approved, rejected, unreconciled; periods started, completed and cancelled around matches; an application or a reconciliation crossed by a reconciliation, a reclassification or an automatic match of the same row, and then by a match by amount, a review or a rollback; imports of the rows meanwhile; 0.2 million states | `TypeOK`, `PostingsAreLinked`, `PendingIsReachable`, `RevertIsWhole`, `OneRevertWins`, `AppliedKeepsItsRows` |
| `double_post` | apply, reclassify, roll back, apply again, one at a time | `AtMostOnePosting` (violated) |

Bookings of one transaction may overlap in any way here. What the code then
promises has one exception, written into the properties and not into the mixes: a
transaction in `crossed` was written by a handler upon a link it had not read, and
of it nothing is claimed. For every other, `PostingsAreLinked` and
`PendingIsReachable` hold in every mix, and they are proved for every mix (section
4), as are `AppliedKeepsItsRows`, `OneRevertWins` and `TypeOK`, which need no
exception. What happens to those in `crossed` is shown by `amount_match.cfg` and
`review_race.cfg`. The one overlap the mixes leave out is a draft posted while
its application is rolled back, which `RevertIsWhole` does not survive
(`revert_race.cfg`). That a completed period has no unmatched transaction is claimed
by the code and does not hold (`complete_race.cfg`, section 6): no property of the
passing run is about it.

| Run | Instance | Properties |
|---|---|---|
| `restore_recovery` | three processes (one the operator's), a request, two restores, a resumption in the application and one by the operator, two files; two crashes, one restart; a million states | `TypeOK`, `NoWorkWhileRecovering`, `OneOwnerActs`, `OpenMeansWhole`, `HandEditsStand`, `ImplementsPromise` |
| `restore_live` | the same with one restore and one file, under `FairSpec` | `InDoubtEnds` |
| `knowledge` | three calls of any kind, two entities, two accounts, a description whose alias people move, six stores that earlier corrections left (empty; a pattern authorised; a conflict resolved; two candidates; two entities with a treatment and a pattern each; one description observed for both entities); a million states | `TypeOK`, `OneVoice`, `ContestedIsNotCertain`, `MergeLosesNothing`, `ContradictionsAreRecorded` |
| `intake` | two imports, one edit of a balance, and any number of decisions, rules and edits of numbers between them; two accounts both numbered `unknown` at first, two overlapping files that list lines of one day in opposite orders, one with a repeated line, a line of amount zero and a closing balance; 1.7 million states | `TypeOK`, `OneRowPerLine`, `LinesAreAccountedFor`, `BalanceIsNewestClosing`, `DeadlocksAreOfOneDay` |
| `access` | three calls of more than one step and any others between them, two addresses of which one is the archive owner's, two codes, an installation that begins empty or with both as administrators; 1.6 million states | `FirstAdminIsAlone`, `LastAdminKept`, `AccountsComeFromStandingRequests`, `RestoredIsNotDiscarded` |

Why these bounds are enough: a recovery that dies and is resumed needs two
crashes; two owners of one maintenance need a resumption of each kind; a pass
over two files can be half done. A contradiction between two corrections needs a
third call that authorises or merges, and a merge needs two entities with
knowledge of their own. Two imports are enough to race for a hash, a statement, the
trail or a balance, and overlap with each of the others. Two administrators
delete each other, and a third call registers, invites or restores meanwhile. Two
of the properties of `access` are narrower than their hazard:
`RestoredIsNotDiscarded` is about the rows of the companies, not of the users, and
`double_post` runs its requests one after the other, so that the concurrent case
of the same hazard is left to `crossed` in `bank_flow`. In `knowledge`, a correction
that crashes between the conflict and the degradation is the exception of
`ContestedIsNotCertain`: that the contested item then stays certain is what the code
does, and the property does not catch it.

What the passing journal runs show: create, post and void keep the ledger exact, in
spite of reading before they write, because each takes the audit lock before
it aggregates; that lock, which is there for the audit chain, is what
serialises the balances. A void entry stays void although `UPDATE ... WHERE id`
would reopen it: the append that follows refuses a sealed row and
rolls the update back. The refinement says the same of the whole: at every
commit the reader's ledger grows at its end or has one posting annulled.

What the others show: the gate's second look at the marker is what excludes
work from a recovery, and the revalidation under the lock what leaves one owner;
whatever dies and when, an application that is open holds the whole archive or
nothing of it. The import never stores a line twice under one number, and its
totals are those of what it stored; its balances are right only because a
classified import holds the audit lock, once more a lock that is there for
something else, and until an edit of the account, which takes no lock, overwrites
them. Two imports lock statement, rows and trail in one order, and the rows by their
days, so that the deadlocks which remain are between lines of one day. The knowledge has no locks, and the properties say exactly how
far it can be trusted without them: every exception (`stale`, `strays`, `late`, a
correction still under way) names an interleaving that happens. The first
administrator is alone and the last one stays because of the one lock of first
registrations and the `FOR UPDATE` of the administrators' rows.

What the violated runs show is a disagreement between the code and what it says
of itself; each is described under `findings` in `PROJECT.json`.

Fairness. `ledger_liveness`: each request's handler steps are weakly fair. Node
resumes a handler whose promise resolved, PostgreSQL grants a lock that is free
to one of its waiters, and aborts one transaction of a deadlock. No fairness is
assumed of `Fail`. Weak fairness is enough since a request's lock, once free,
may be taken by others only finitely often: requests are finite and run once.
`restore_live`: PostgreSQL ends every transaction (weak); a call that has begun
goes on while its process runs (weak); the operator stops processes and runs the
recovery command, again if the database did not answer (strong, since what
enables it may go and come back). Crashes are not fair. `InDoubtEnds` then says
that a restore in doubt is settled, unless a lease or the lock file is torn or a
file was changed by hand: the code refuses those until a person has looked.

## 4. Proofs

`TypesHold`: `Spec => []Typed`, for any sets of requests, entries,
accounts, contents and keys, from the five named assumptions of
`JournalLedger` (NULL is no value, `Touches` and `Reversal` are total functions,
the workloads are requests, every start is a database whose chain verifies and
whose idempotency keys are unique, as the index of the table makes them). `TypeOK`
asks besides that an answered request has no lock and no pending write, which needs
to know that whoever holds a lock is about to end its transaction
(`LocksAreOfWriters`, over `RecordInv` below): `TypeCorrect`, `Spec => []TypeOK`.

`ChainSafe`: `Spec => []ChainIsLinear`, and `SealsSafe`: `Spec =>
SealsAreForever`. `ChainIsLinear` is not inductive: a commit publishes what a
transaction prepared long before. The strengthening `ChainInv` adds

* `WritesAreLocked`: a transaction holds the lock of every row and of the head
  it has written and not committed;
* `SealsAreKept`: it never changes a committed seal, and adds one only once it
  has written, hence holds, the head;
* `ViewsAreLinear`: the chain as every transaction sees it is linear.

The argument: an append extends the chain of its own view at the tail
(`AppendKeepsLinear`, `ExtendTail`); a commit makes that view the committed one;
and no other view breaks, because a transaction that sealed something holds the
head, so that no other has (`CommitKeepsChain`). Updates of status or content
leave seals alone (`UpdateKeepsChain`), and fresh ids carry none
(`UnusedIsUnsealed`). `ChainInv` was first checked with TLC on the instance of
`ledger_chain`.

`KeysSafe`, `AuditSafe`, `CorrectionsSafe`, `BankSafe`, `PostsSafe`, `RootSafe` and
`BalancesSafe`: the seven other invariants of the journal's runs. Six of them, with
the fourth on its own `BankInv`, rest on one invariant, `RecordInv`, since what a handler may do at one statement
depends on what it did several statements earlier:

* `InOrder`: what is still to come is an ordered part of the handler, in which
  whatever completes an entry (seal, link, audit row, balance) stands between the
  one write and the commit. It is what makes "r has inserted but not yet linked" a
  state about which something can be said;
* `OwnRows`, `Seen`: a transaction writes its own ids, posted entries never go
  back to drafts, and what a handler read of its entry before the transaction is
  still so, as far as the handler relies on it;
* `KeyPending`, `AuditPending`, `LinkPending`: a key, an audit row, a correction
  that is not committed is under its lock, and nobody else has committed one;
* `ToSeal`, `PairPending`, `PostPending`: what a transaction has posted is sealed or
  is going to be before the commit, the pair of a correction by one link;
* `KeysStand`, `AuditStands`, `PostsStand`: the committed half of the same.

`BankSafe`, `Spec => []BankEntriesStand`, has no premise: a match may link any entry
at any moment. `BankInv` says that a void or a correction past its look-up has an
entry that no bank transaction links, unless a match overtook it (`raced`), and that
an entry which is not posted any more, or is corrected, owes it to a request that
has been answered: a match that finds the entry posted and links it later either sees
such a request under way or done, and then the entry is in `raced`, or none.

`PostsSafe` has the hypothesis `SealedStarts` (no start has a posted entry without
a seal) and `RootSafe` the hypothesis `RootedStarts` (no start has a v2 root beside
one): a database that already violates the property is not repaired by the code.
`RootInv` says for the second that two transactions which together would break
it do not share an unsealed entry, as the head of the chain is locked.
`CorrectionsAreWhole` says that a counter-entry reverses its original only if no
PUT is in flight for that original: one that read the draft rewrites the lines
of the posted entry (that is `SealMatchesContent`, violated in `edit_race`), after
the correction as well as before it.

`BalancesSafe` says `AuditedWorkloads => (Spec => []BalancesAreExact)`: stored
balances are exact as long as every request is a create, post, void or lock.
`BalanceInv` says that a transaction which has aggregated an account holds the
audit lock, that nobody else has committed a change of that account's lines since,
and hence that what it is about to store is the sum over its own view. With a
correction or a bank posting in flight it is false (`balance_race.cfg`).
These invariants were checked with TLC on `ledger_core` and `ledger_chain`.

`JournalImplementsLedger` says that the journal implements `GeneralLedger`:
`AuditedWorkloads /\ SealedStarts /\ SealedAsWritten => (Spec => ImplementsGeneralLedger)`.
The first premise is that of `BalancesSafe` (the promise includes the balances, and an
edit may rewrite the lines of a sealed entry); the others say of the history that
whatever was posted is sealed, as it stands now, and that it has an end. The
ledger a reader sees is the walk along the chain, which `WalkOf` computes level by
level. `Linear` is second-order: every set of members that holds the root and is
closed under succession is all of them. That is the induction these proofs go by,
where the library's induction theorems cannot be used: every member is at the end
of a path from the root (`PathTo`), a finite chain has a member nobody follows, by
the pigeonhole principle (`TailExists`), so that the chain is one walk (`WalkExists`),
its levels are the entries of that walk (`WalkLevels`), and one more seal can only
stand at its end (`WalkGrows`). `LedgerInv` adds to the invariants above that a seal
says what its entry says and that only a void writes void (`MatchInv`), and that
the sealed entries are finitely many. A commit then adds one posting, annuls one for
good, or changes nothing a reader sees (`LedgerCommit`, `LedgerStep`), and what is in force
of the walk is what `recalculateBalance` counts (`InForceIsCounted`).

`BankTypeOK`, `OneRevertOfAnApplicationWins` and `ApplicationsKeepTheirRows`:
`Spec => []TypeOK`, `Spec => []OneRevertWins`, `Spec => AppliedKeepsItsRows`
for `BankBooks`, with any requests, transactions, accounts and jobs, from its
named assumptions (NULL is no value and no entry id, amounts are not zero, the suspense account
is an account or absent, each request names what its route requires). None of
the three is inductive alone. `IInv` adds that an application has no record
until it claims its rows (`RecordIsNew`); that a row of an application that
stands carries its rule, hence is not eligible and cannot be claimed again
(`AppliedRowsAreClaimed`, which is what the `matchedRuleId` conjunct of the
filter is for); that a rollback which can still win has read rows of its own
application only (`RevertsOwnRows`); that who answered "reverted" left the
record so (`RevertedIsReverted`), so that the compare-and-swap admits no other;
and that the entries a handler found exist (`FoundExist`), so that a match by
amount links one. Reads change one handler's memory (`ReadStep`), most writes
change no application (`BookStep`, `RowStep`), and acquisition and rollback are
done in full (`ClaimKeeps`, `RevertKeeps`). TLC checked `IInv` on `bank_flow`.

Five theorems about the bookings rest on three more invariants. `Origins` says
whose things are: a handler goes on with rows it was asked about (`BatchIsAsked`),
an entry is made by the request it names and for a row that request was asked
about (`EntriesAreOwn`), a row names an application that acquired it (`RowsAreOwn`),
a rollback finds entries of its application (`FoundAreOwn`). It holds for every mix.
Two of the theorems have premises, which section 6 shows to be needed:

* `RevertIsWholeUnlessPosted`, `Spec => [](PostsApart => RevertIsWhole)`:
  `PostsApart` says that nobody posts a draft of an application that somebody
  rolls back (`revert_race.cfg`). `RevertInv` says that a rollback which can
  still win has found every entry in force of its application (`FoundCovers`):
  an application makes its entries when it claims its record, before any rollback
  can read it, and whoever else voids one takes nothing from what was found;
* `PostingsStayLinked`, `NothingCountsTwice` and `PendingStaysReachable`, `Spec =>
  []PostingsAreLinked`, at most one posted entry for each transaction that is not in
  `crossed`, and `Spec => []PendingIsReachable`: for every mix of requests, those
  that book one transaction past each other included. `LinkInv` says that an
  entry in force whose transaction is not in `crossed` is the one its row links,
  and that the row is in review when the entry is. It is inductive because every
  handler that takes a link from a row has found the entry it takes away, or is
  recorded in `crossed` by that very write: what the theorems add to the exception is
  that nothing else, in any number of overlapping requests, unlinks an entry;
* `BalanceWithoutApprovals`, `Spec => [](NoApproval => StoredBalanceIsBook)`: every
  write that changes what is posted refreshes the balance in the same
  transaction, save the approval (`approve_balance.cfg`). Nothing is needed of the sum
  but that the same entries have the same one, so the fold stays closed.

TLC checked `IInv`, `Origins` and the invariants that rest on it on `bank_flow`. That a
completed period has no unmatched transaction is false (`complete_race.cfg`), and
has no theorem.

`RecoveryExcludesWork` and `LockExcludes`: `Spec => []NoWorkWhileRecovering` and
`Spec => []OneOwnerActs`, for any processes, operations and bounds on crashes,
from the one assumption of `MaintenanceGate` (kinds of operations are disjoint,
the operator's process runs nothing else, its command runs once at a time).
`GateInv` is inductive for the gate alone (`GateSpecInv`): who is not at rest is
in a running process (`Live`), an admitted operation has its lease (`Leased`), an
owner has the marker it published, once (`Owning`, `PublishedOnce`, `MarkerHeld`),
the lock on disk is its one holder's (`LockHeld`, `OneHolder`), and from its second
look at the leases on nobody works beside an owner (`Fenced`). Every step of the
restore is a step of the gate or leaves it alone (`RestoreKeepsGate`), so that it
inherits the invariant (`RestoreGateInv`).

`RestoreTypes`, `AbsenceStays`, `OpenIsWhole`, `HandEditsKept` and
`RestoreImplementsPromise`: types, `Spec => []AbsenceIsFinal`, `Spec =>
[]OpenMeansWhole`, `Spec => HandEditsStand` and `Spec => ImplementsPromise`. `RestoreInv` adds to the gate what transaction, intent,
receipt and files say of each other: the intent is recorded before the transaction
and under the marker (`Journalled`); before its recovery a restore has recorded and
sent nothing, and one that undoes has recorded nothing (`Unrecorded`); a verdict is
what the database says for good (`Judged`), because the receipt is read under the
lock a live transaction holds; a file that an owner has no longer to do holds its
final image (`Applied`); nobody works while a restore is in doubt (`Quieted`); and
the marker of a recorded restore is removed over settled files only (`Closing`).
The mapping shows a reader
the files as they will be once the restore is settled: then `CommitTx` is the one
step at which the company changes hands, and every file replaced later is
invisible. `OpenIsWhole` needs besides who has written what: a file was written by a
restore that committed or by somebody who worked (`Wrote`), the writers of the images
in a recorded intent write no more (`Past`), and of two restores that committed a
file the later did not find what the earlier found (`Apart`), so that its undoing
cannot bring that back. With `OpenMeansWhole` these three are `WholeInv`, inductive
beside `RestoreInv` and the invariant of the hand edits: every step rests, publishes,
reopens, records or writes (`Kinds`), and only the last two touch it. TLC checked
`WholeInv` on `restore_recovery`.

`AccessTypes`, `RestoredStays`, `OnlyStandingRequests`, `OneFirstAdmin` and
`LastAdminStays`: types, and all four properties of `AccountAccessProps`, for any
addresses, calls and codes. They assume (`AccessAssumption`) of an installation at
the start only that whoever is in it has confirmed an address or was invited.
`LockInv` says that an address has one holder (`IdentityAlone`), the first
registration one confirmation at a time (`ConfirmsAlone`), a locked row one deletion,
which has locked its target (`RowsAlone`), and that no installation goes on beside a
restored archive (`Undisturbed`), from which `RestoredStays` follows. `CodeStands`
adds that a proved code is the one of the request, as only the holder of the address
replaces it. `FirstInv` adds that whoever registered is confirmed (`Rooted`) and that
nobody else has, while a first administrator is confirmed (`NobodyElse`). `Guarded`
adds that those a deletion counted and locked are administrators, which every
change of a row respects because it waits for the lock (`GuardedRows`). The premise of
`LastAdminKept` is the part that the proof needs: an account the deletion counted
but had not locked, as it became administrator in between, may be demoted again.

`IntakeTypes`, `NoDuplicateLine`, `EveryLineAccountedFor`, `BalanceFollowsStatements`
and `DeadlocksOfOneDay`: all five properties of `StatementIntakeProps`, for any imports,
files, accounts and numbers, from `IntakeAssumption` alone (files have lines, and
amounts and balances are integers). `IInv` says what open transactions hold
against each other: hashes (`InsertedIsNew`, `InsertedApart`), keys of statements
(`CreatedIsNew`, `CreatedApart`) and the trail (`TrailIsAlone`); that each line of a
file is at every point reported, stored or about to be stored (`LinesTracked`); and
that what a call read of its account's statements still stands when it commits, if
all of them are traced (`ReadingsStand`), because another that could have committed
would have held the same lock. An edit carries the balance of the statements it has
read (`EditsStand`): when it writes, either they are all there are, or the account is
`outdated`. The steps of an import before its commit change
that import's memory only (`Moves`), those of people and rules leave a row its hash
and its statement (`Decides`). That a sum of amounts is an integer, and that a set
of statements has a newest, is an induction on finite sets; it is done with
`LeastSubset`, a lemma about a set of subsets, and with the existence and uniqueness
of a function that satisfies the equation of the fold (`SumsExist`, `SumsUnique`).
`DeadlocksOfOneDay` follows from the order in which locks are taken: who waits for a
statement has inserted nothing, who waits for the trail has inserted all, and rows are
inserted by their day (`RowsInOrder`); so, if everybody waits, those whose next row has
the latest day wait for each other's rows of that day (`LatestExists`). TLC checked `IInv` on
`intake`.

`KnowledgeIsWellFormed`, `EntitiesHaveOneVoice`, `ContestedKnowledgeIsUncertain`,
`MergesLoseNothing` and `ContradictionsAreKept`: all five properties of
`LearnedKnowledgeProps`, for any calls, entities, accounts and descriptions, from
`KnowledgeAssumption`: a store to begin with is one that calls without a race leave
(its items refer to earlier ones, nothing certain is questioned, an entity has one
voice, and what was generalised from observations is about their entity). Without a
lock a call can rely only on what nothing takes back: the types of items, what was
observed and generalised and whose it is after all merges, conflicts and their
resolutions. `Lasts` says that every step keeps that, and `Knows` states what each
call has read in such terms, so that no step of another call makes it false
(`KnowsLasts`). `Granted` is what a promotion or a rehabilitation relies on: what
questioned the item up to the reading has been resolved; whatever is pending has come
since, and is in `late`. `Grounded` is what a candidate rests on, `Opposed` why a
correction that degrades has its conflict on record. `Imaged` says of a merge under
way what may have changed since it read: items were added, and treatments written;
what came for its source is a stray (`MergesApart`: one merge at a time). Steps that
read, add an item, or write one are `Gentle`: they leave heirs and what is generalised
alone (`ReadingKeeps`, `AddingKeeps`, `WritingKeeps`). The commit of a merge is done in
full (`CommitKeeps`): what it moves comes under the target (`MergeAgrees`,
`MergeMoves`), a twin it skips has its content there, and what an earlier merge
left under its source for the like reason is still held by the new heir (`HeldIn` says
it of the store the merge has read). TLC checked `IInv` on `knowledge`.

Left to TLC: liveness and ENABLED (`EveryRequestEnds`, `InDoubtEnds`). Every other
property of the passing runs has its theorem.

## 5. Plan

Done: the journal, its chain, audit and period lock; the bank books; the gate
and the restore with their refinement; the learned knowledge; the intake; the
accounts. What is left, in order:

1. the year close as a handler of `JournalLedger` (sums read before the
   transaction, no look for an earlier closing entry), and unlocking a period;
2. an abstract specification of `BankBooks`, one booking in force for each bank
   transaction, and the part of the code that implements it; the rollback of an
   automated decision and the idempotency key of apply-all;
3. `ChainVerdict`: `buildChainVerdict` and `deriveLegacyTail` as algorithms,
   checked against the definition `Linear` over all small databases;
4. sessions and the change of an address in `AccountAccess`; AI quota.

## 6. Known limits and what is not modelled

The code does not exclude the following; a property whose premise, exception or mix
leaves one out says so. Each has a configuration beside the runs, in which TLC finds
the behaviour:

| Configuration | Property it breaks | What happens |
|---|---|---|
| `balance_race.cfg` | `BalancesAreExact` | a void and the correction of another entry aggregate one account at the same time; the older sum is written last |
| `correct_then_void.cfg` | `CorrectedOriginalStands` | an entry that has been corrected is voided as well, so that it is annulled twice |
| `match_void.cfg` | `LinkedEntriesStand` | an automatic match by amount links a posted entry after a void of it has looked for links; the same match links an entry that has been corrected before |
| `revert_race.cfg` | `RevertIsWhole` | a draft is posted while its application is rolled back and stays posted |
| `amount_match.cfg` | `AllPostingsAreLinked` | one request after the other, an automatic match by amount links a booked row to another entry and leaves its own posted and unlinked |
| `review_race.cfg` | `AllPendingIsReachable` | an approval has read a row in review without an entry; the row is unreconciled and reconciled again with one that awaits review; the approval posts the row and the entry is out of reach |
| `complete_race.cfg` | `CompletedMeansMatched` | a match is undone, or a statement imported, between the count of unmatched transactions and the update that completes the period |
| `approve_balance.cfg` | `StoredBalanceIsBook` | a suspicious row is approved; its entry is posted and the stored balance is not recalculated |
| `period_evidence.cfg` | `EvidenceStands` | a row reconciled in a completed period is rejected in review |
| `balance_edit.cfg` | `BalanceAlwaysFollows` | an edit of the account computes its balance from statements read before an import commits and writes it afterwards |
| `restore_fence.cfg` | `RefusedReopens` | a refused restore drains again to take its marker back, times out, and leaves the application closed with nothing to recover |

Some contradict what the repository says. `periods/route.ts:167-170` says that a
period can only be completed when nothing is left unreconciled (`complete_race.cfg`);
`unreconcile/route.ts:58` calls a transaction of a completed period locked evidence, and
`docs/invariants.md:12` says that a reconciled transaction is not edited
(`period_evidence.cfg`; the reclassification below as well); `closing-engine.ts:98-100`
says that every other posting path refreshes the stored balance
(`approve_balance.cfg`); `journal/[id]/route.ts:429-432` and
`journal-correction.service.ts` say what a void and a correction leave standing
(`match_void.cfg`, `correct_then_void.cfg`). About the remaining ones no doc or
comment was found that claims the opposite. The three that are runs (`edit_race`,
`close_race`, `double_post`) are described under `findings` in `PROJECT.json`.

Others were read in the code and have no configuration: two reconciliations (or
a reconciliation and a reclassification) that both found a row without an entry
each book it (they occur in `bank_flow`, where the row is in `crossed`); a row rejected in review keeps its link to the entry it voided
(`reconciliation/review/route.ts:104`); neither reclassification nor the rollback
of an application looks at `isReconciled`; the unique index on
`journalEntryId` makes an automatic match that lost a race an error and not a
miss; PATCH may demote or disable the last administrator; the count that admits
a first installation is read before it (`bootstrap/restore/route.ts:140`), and
the role a confirmation writes back may be stale (`auth.service.ts:197`); accounts without
a number share the number `unknown`, hence their hashes (`import.service.ts:848`);
a lease file torn by a crash closes the application until somebody removes it.

Not modelled: the fiscal year close and the rest of section 5; validation before
the first write, tenant and role gates, entitlements (they refuse and change
nothing); rendering, reports, exports, installer, scripts other than the recovery
command; parsers of bank files; the pure ranking of rules; HTTP itself, whose lost
answers are requests sent again; in-process rate limits and caches, which expire;
the components marked `not_modelled` in `PROJECT.json`.
