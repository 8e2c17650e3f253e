---------------------------- MODULE JournalLedger ----------------------------
(***************************************************************************)
(* The general ledger of one company: the journal entries, the hash chain  *)
(* that seals the posted ones, the stored balance of every GL account, the *)
(* chained audit log and the fiscal-period lock, under concurrent HTTP     *)
(* requests.                                                               *)
(*                                                                         *)
(* Every request runs the statements of its handler one at a time against  *)
(* PostgreSQL at Read Committed: a statement sees the committed rows and   *)
(* the request's own uncommitted ones; a row or advisory lock, once taken, *)
(* is kept until the transaction commits or aborts.                        *)
(*                                                                         *)
(* An account balance is represented by the set of postings it sums, and a *)
(* seal (the HMAC of an entry) by what it commits to: two seals are equal  *)
(* exactly when version, entry, lines and predecessor are.                 *)
(***************************************************************************)
EXTENDS Naturals, Sequences

CONSTANTS
    Requests,   \* HTTP requests in flight
    Entries,    \* journal entry ids, those not yet created included
    Accounts,   \* GL accounts
    Contents,   \* what PUT may change: date, description, lines
    Keys,       \* idempotency keys
    Null,       \* SQL NULL
    Touches,    \* Touches[c]: the GL accounts the lines of c move
    Reversal,   \* Reversal[c]: c with debit and credit swapped
    Dated,      \* contents dated inside the fiscal period that may be locked
    Workloads,  \* the assignments of a job to every request
    Starts      \* the databases a behaviour may start from

Ops == {"create", "edit", "post", "void", "correct", "bank", "match", "lock"}

Statuses == {"absent", "draft", "posted", "void"}

\* What a client asks for. "entry" is the target, or the fresh id of create and
\* bank; "counter" and "replacement" are the fresh ids of a correction.
JobSet == [op: Ops, entry: Entries, content: Contents, posted: BOOLEAN,
           key: Keys \union {Null}, counter: Entries, replacement: Entries]

Seals == [ver: {"v1", "v2"}, entry: Entries, content: Contents,
          prev: Entries \union {Null}]

KeyUses == [key: Keys, content: Contents, posted: BOOLEAN]

\* The content of an absent row stands for nothing and is never read.
Rows == [status: Statuses, content: Contents,
         hash: Seals \union {Null}, prev: Seals \union {Null},
         use: KeyUses \union {Null}]

Heads == [hash: Seals, entry: Entries]

Postings == Entries \X Contents

\* An aggregate over the postings, for the row of an account.
Sums == [account: Accounts, value: SUBSET Postings]

Links == [original: Entries, counter: Entries, replacement: Entries]

AuditRows == [by: Requests, prev: Requests \union {Null}]

\* Everything PostgreSQL locks on behalf of a transaction here: the row of the
\* chain head, the advisory lock of the audit tail, the rows of entries and
\* accounts, and a key being inserted into one of the three unique indexes.
Resources ==
    {<<"head">>, <<"audit">>}
        \union ({"row"} \X Entries) \union ({"gl"} \X Accounts)
        \union ({"key"} \X Keys) \union ({"corr"} \X Entries)
        \union ({"match"} \X Entries)

Holders == Requests \union {Null}

VARIABLES
    entry,      \* committed JournalEntry rows
    head,       \* committed JournalChainHead row, Null while lastHash is NULL
    balance,    \* committed GlAccount.balance, as the postings it sums
    audit,      \* committed, hashed AuditLog rows
    corr,       \* committed JournalCorrection rows
    linked,     \* entries some BankTransaction.journalEntryId refers to
    raced,      \* history, not in the code: see Overtaken
    locked,     \* FiscalPeriod.isLocked
    holder,     \* who holds each lock
    tx,         \* uncommitted writes of each request
    job,        \* what each request does
    todo,       \* the statements each request still has to run
    pre,        \* content a handler read before its transaction, at first its input's
    due,        \* accounts recalculateBalance still has to visit
    sum,        \* aggregate computed and not yet written
    res         \* answer given to the client

db == <<entry, head, balance, audit, corr, linked, raced, locked>>
mem == <<pre, due, sum>>
vars == <<db, holder, tx, job, todo, mem, res>>

-----------------------------------------------------------------------------
(* The statements of each handler, in the order the code awaits them. *)

Script(j) ==
    CASE j.op = "create" ->
             IF j.posted
             THEN <<"lookup", "fiscal", "insert", "audit", "recalc", "append", "commit">>
             ELSE <<"lookup", "fiscal", "insert", "audit", "commit">>
      [] j.op = "edit" ->
             <<"read", "fiscal", "update", "audit", "commit">>
      [] j.op = "post" ->
             <<"read", "fiscal", "update", "append", "audit", "recalc", "commit">>
      [] j.op = "void" ->
             <<"read", "linkCheck", "fiscal", "update", "audit", "recalc", "commit">>
      [] j.op = "correct" ->
             <<"read", "linkCheck", "fiscal", "reread", "fiscal", "insert",
               "append", "link", "appendLast", "recalc", "audit", "commit">>
      [] j.op = "bank" ->
             <<"fiscal", "insert", "append", "recalc", "commit">>
      [] j.op = "match" ->
             <<"read", "fiscal", "match", "audit", "commit">>
      [] j.op = "lock" ->
             <<"readPeriod", "lockPeriod">>

InTransaction == {"fiscal", "insert", "update", "match", "reread", "append", "link",
                  "appendLast", "audit", "recalc", "commit"}

Labels == InTransaction
              \union {"lookup", "read", "linkCheck", "readPeriod", "lockPeriod",
                      "certify", "winner"}

At(r, s) == todo[r] # <<>> /\ Head(todo[r]) = s

Advance(r) == todo' = [todo EXCEPT ![r] = Tail(@)]

Answer(r, a) ==
    /\ res' = [res EXCEPT ![r] = a]
    /\ todo' = [todo EXCEPT ![r] = <<>>]

-----------------------------------------------------------------------------
(* Read Committed: what request r sees, and how its transaction ends. *)

NoTx == [rows |-> [e \in Entries |-> Null], head |-> Null,
         gl |-> [a \in Accounts |-> Null], audit |-> {}, corr |-> {}, linked |-> {}]

View(r) == [e \in Entries |-> IF tx[r].rows[e] # Null THEN tx[r].rows[e] ELSE entry[e]]

HeadOf(r) == IF tx[r].head # Null THEN tx[r].head ELSE head

\* recalculateBalance: the lines of every posted entry of the company.
Counted(rows, a) ==
    {p \in Postings : /\ rows[p[1]].status = "posted"
                      /\ rows[p[1]].content = p[2]
                      /\ a \in Touches[p[2]]}

\* The entry the next append of r seals.
Appended(r) ==
    IF job[r].op # "correct" THEN job[r].entry
    ELSE IF At(r, "append") THEN job[r].counter ELSE job[r].replacement

\* The locks the next statement of r must take.
Wants(r) ==
    IF todo[r] = <<>> THEN {}
    ELSE CASE Head(todo[r]) = "insert" /\ job[r].key # Null -> {<<"key", job[r].key>>}
           [] Head(todo[r]) = "update" -> {<<"row", job[r].entry>>}
           [] Head(todo[r]) \in {"append", "appendLast"} ->
                  {<<"head">>, <<"row", Appended(r)>>}
           [] Head(todo[r]) = "audit" -> {<<"audit">>}
           [] Head(todo[r]) = "link" -> {<<"corr", job[r].entry>>}
           [] Head(todo[r]) = "match" -> {<<"match", job[r].entry>>}
           [] Head(todo[r]) = "recalc" /\ sum[r] # Null -> {<<"gl", sum[r].account>>}
           [] OTHER -> {}

Granted(r) == \A x \in Wants(r) : holder[x] \in {Null, r}

Take(r, X) == holder' = [x \in Resources |-> IF x \in X THEN r ELSE holder[x]]

Release(r) == holder' = [x \in Resources |-> IF holder[x] = r THEN Null ELSE holder[x]]

\* Mutant of Abort: the transaction is never closed and keeps its locks.
AbortLeaks(r, rest) ==
    /\ tx' = [tx EXCEPT ![r] = NoTx]
    /\ sum' = [sum EXCEPT ![r] = Null]
    /\ todo' = [todo EXCEPT ![r] = rest]
    /\ IF rest = <<>> THEN res' = [res EXCEPT ![r] = "failed"] ELSE res' = res
    /\ UNCHANGED <<db, holder, job, pre, due>>

\* Rolls r back; the handler goes on with rest, or has answered when rest is empty.
Abort(r, rest) ==
    /\ Release(r)
    /\ tx' = [tx EXCEPT ![r] = NoTx]
    /\ sum' = [sum EXCEPT ![r] = Null]
    /\ todo' = [todo EXCEPT ![r] = rest]
    /\ IF rest = <<>> THEN res' = [res EXCEPT ![r] = "failed"] ELSE res' = res
    /\ UNCHANGED <<db, job, pre, due>>

-----------------------------------------------------------------------------
(* Statements before the transaction. *)

\* JournalService.create: the idempotency lookup precedes every validation.
Lookup(r) ==
    /\ At(r, "lookup")
    /\ LET found == {e \in Entries : /\ job[r].key # Null
                                     /\ entry[e].use # Null
                                     /\ entry[e].use.key = job[r].key}
       IN  IF found = {} THEN Advance(r) /\ res' = res
           ELSE \E e \in found :
                  Answer(r, IF entry[e].use.content = job[r].content
                               /\ entry[e].use.posted = job[r].posted
                            THEN "replayed" ELSE "conflict")
    /\ UNCHANGED <<db, holder, tx, job, mem>>

\* The status a handler requires of the row it reads before its transaction; a
\* match, which reads inside its own, looks for posted entries and for no others.
Required(op) == IF op \in {"edit", "post"} THEN "draft" ELSE "posted"

Read(r) ==
    /\ At(r, "read")
    /\ LET row == entry[job[r].entry] IN
         IF row.status = Required(job[r].op)
         THEN /\ pre' = [pre EXCEPT ![r] = row.content]
              /\ due' = [due EXCEPT ![r] = Touches[row.content]]
              /\ Advance(r)
              /\ res' = res
         ELSE Answer(r, "refused") /\ UNCHANGED <<pre, due>>
    /\ UNCHANGED <<db, holder, tx, job, sum>>

\* Mutant of LinkCheck: the linked transaction is not looked up.
LinkUnseen(r) ==
    /\ At(r, "linkCheck")
    /\ Advance(r)
    /\ UNCHANGED <<db, holder, tx, job, mem, res>>

\* An entry made by a bank flow is neither voided nor corrected here.
LinkCheck(r) ==
    /\ At(r, "linkCheck")
    /\ IF job[r].entry \in linked THEN Answer(r, "refused")
       ELSE Advance(r) /\ res' = res
    /\ UNCHANGED <<db, holder, tx, job, mem>>

-----------------------------------------------------------------------------
(* Statements inside the transaction. *)

\* The content whose date assertActiveFiscalPeriod is given.
CheckedContent(r) ==
    IF job[r].op \in {"post", "void", "match"} THEN pre[r] ELSE job[r].content

\* A draft edit that sends no date keeps the row's and skips the guard.
KeepsDate(r) ==
    job[r].op = "edit" /\ (job[r].content \in Dated <=> pre[r] \in Dated)

FiscalPass(r) ==
    /\ At(r, "fiscal")
    /\ ~locked \/ CheckedContent(r) \notin Dated \/ KeepsDate(r)
    /\ Advance(r)
    /\ UNCHANGED <<db, holder, tx, job, mem, res>>

FiscalRefuse(r) ==
    /\ At(r, "fiscal")
    /\ locked /\ CheckedContent(r) \in Dated
    /\ Abort(r, <<>>)

NewRow(s, c, u) == [status |-> s, content |-> c, hash |-> Null, prev |-> Null, use |-> u]

KeyUse(r) ==
    IF job[r].key = Null THEN Null
    ELSE [key |-> job[r].key, content |-> job[r].content, posted |-> job[r].posted]

KeyTaken(r) ==
    \E e \in Entries : /\ job[r].key # Null
                       /\ entry[e].use # Null
                       /\ entry[e].use.key = job[r].key

\* A new id is unused: no row has it and no other transaction is inserting it.
Unused(r, e) == entry[e].status = "absent" /\ holder[<<"row", e>>] = Null

InsertOne(r) ==
    /\ At(r, "insert") /\ job[r].op \in {"create", "bank"}
    /\ Granted(r) /\ ~KeyTaken(r)
    /\ LET e == job[r].entry
           s == IF job[r].op = "bank" \/ job[r].posted THEN "posted" ELSE "draft"
       IN  /\ Unused(r, e)
           /\ tx' = [tx EXCEPT ![r].rows[e] = NewRow(s, job[r].content, KeyUse(r)),
                               ![r].linked = IF job[r].op = "bank" THEN {e} ELSE {}]
           /\ Take(r, Wants(r) \union {<<"row", e>>})
           /\ due' = [due EXCEPT ![r] = IF s = "posted" THEN Touches[job[r].content] ELSE {}]
    /\ Advance(r)
    /\ UNCHANGED <<db, job, pre, sum, res>>

\* P2002 on (companyId, idempotencyKey): create goes and reads the winner.
InsertDuplicate(r) ==
    /\ At(r, "insert") /\ job[r].op = "create"
    /\ Granted(r) /\ KeyTaken(r)
    /\ Abort(r, <<"winner">>)

\* Mutant of Winner: the loser is served the winner without comparing requests.
WinnerUnchecked(r) ==
    /\ At(r, "winner")
    /\ Answer(r, "replayed")
    /\ UNCHANGED <<db, holder, tx, job, mem>>

Winner(r) ==
    /\ At(r, "winner")
    /\ \E e \in Entries :
         /\ entry[e].use # Null /\ entry[e].use.key = job[r].key
         /\ Answer(r, IF entry[e].use.content = job[r].content
                         /\ entry[e].use.posted = job[r].posted
                      THEN "replayed" ELSE "conflict")
    /\ UNCHANGED <<db, holder, tx, job, mem>>

\* The counter-entry and the replacement, both posted and not yet sealed.
InsertPair(r) ==
    /\ At(r, "insert") /\ job[r].op = "correct"
    /\ LET c == job[r].counter
           p == job[r].replacement
       IN  /\ c # p /\ Unused(r, c) /\ Unused(r, p)
           /\ tx' = [tx EXCEPT ![r].rows[c] = NewRow("posted", Reversal[pre[r]], Null),
                               ![r].rows[p] = NewRow("posted", job[r].content, Null)]
           /\ Take(r, {<<"row", c>>, <<"row", p>>})
    /\ due' = [due EXCEPT ![r] = Touches[pre[r]] \union Touches[job[r].content]]
    /\ Advance(r)
    /\ UNCHANGED <<db, job, pre, sum, res>>

\* applyCorrection reads the original again and looks for an earlier correction.
Reread(r) ==
    /\ At(r, "reread")
    /\ IF /\ entry[job[r].entry].status = "posted"
          /\ \A k \in corr : k.original # job[r].entry
       THEN /\ pre' = [pre EXCEPT ![r] = entry[job[r].entry].content]
            /\ Advance(r)
            /\ UNCHANGED <<db, holder, tx, job, due, sum, res>>
       ELSE Abort(r, <<>>)

\* UPDATE ... WHERE id: it waits for the row and rewrites its latest version,
\* whatever status that version has by then.
Update(r, row) ==
    /\ At(r, "update") /\ Granted(r)
    /\ tx' = [tx EXCEPT ![r].rows[job[r].entry] = row]
    /\ Take(r, Wants(r))
    /\ Advance(r)
    /\ UNCHANGED <<db, job, mem, res>>

PostUpdate(r) ==
    job[r].op = "post" /\ Update(r, [View(r)[job[r].entry] EXCEPT !.status = "posted"])

\* Mutant of VoidUpdate: the entry goes back to draft.
VoidReopens(r) ==
    job[r].op = "void" /\ Update(r, [View(r)[job[r].entry] EXCEPT !.status = "draft"])

VoidUpdate(r) ==
    job[r].op = "void" /\ Update(r, [View(r)[job[r].entry] EXCEPT !.status = "void"])

EditUpdate(r) ==
    job[r].op = "edit"
        /\ Update(r, [View(r)[job[r].entry] EXCEPT !.content = job[r].content])

\* An automatic match by amount links a bank transaction to an entry it found
\* posted. The unique index on BankTransaction.journalEntryId admits one link.
MatchUpdate(r) ==
    /\ At(r, "match") /\ Granted(r)
    /\ IF job[r].entry \in linked
       THEN Abort(r, <<>>)
       ELSE /\ tx' = [tx EXCEPT ![r].linked = {job[r].entry}]
            /\ Take(r, Wants(r))
            /\ Advance(r)
            /\ UNCHANGED <<db, job, mem, res>>

-----------------------------------------------------------------------------
(* appendEntryToJournalChain. *)

Sealed(rows) == {e \in Entries : rows[e].hash # Null}

Seal(v, e, row, p) ==
    [ver |-> v, entry |-> e, content |-> row.content,
     prev |-> IF p = Null THEN Null ELSE p.entry]

Certified(rows, e) == rows[e].hash = Seal("v1", e, rows[e], rows[e].prev)

LegacyMembers(rows) ==
    {e \in Entries : /\ rows[e].status \in {"posted", "void"}
                     /\ rows[e].hash # Null
                     /\ rows[e].hash.ver = "v1"}

\* The members M are one chain: two of them never share a predecessor, and every
\* set that holds the root and the successors of its elements is all of M.
Chained(rows, M) ==
    /\ \A e, f \in M : rows[e].prev = rows[f].prev => e = f
    /\ \A S \in SUBSET M :
         (\A e \in M : (\/ rows[e].prev = Null
                        \/ \E f \in S : rows[e].prev = rows[f].hash) => e \in S)
             => S = M

\* The chain that rows and head h make: one walk through all sealed entries,
\* every seal that of its own entry, the head on the member nobody follows.
Linear(rows, h) ==
    /\ Chained(rows, Sealed(rows))
    /\ \A e \in Sealed(rows) : /\ rows[e].hash.entry = e
                               /\ rows[e].status \in {"posted", "void"}
    /\ h = Null => \A e \in Sealed(rows) : rows[e].hash.ver = "v1"
    /\ h # Null => /\ rows[h.entry].hash = h.hash
                   /\ \A e \in Sealed(rows) : rows[e].prev # h.hash

\* deriveLegacyTail: t ends the only walk from the only root through every
\* legacy member, each of which is certified under its own contract.
IsLegacyTail(rows, t) ==
    LET M == LegacyMembers(rows) IN
      /\ t \in M
      /\ \A e \in M : Certified(rows, e)
      /\ Chained(rows, M)
      /\ \A e \in M : rows[e].prev # rows[t].hash

\* Mutant of Previous: no look at the posted entries that were never sealed.
PreviousUnscanned(rows, h, e) ==
    IF h # Null THEN {h.hash}
    ELSE IF LegacyMembers(rows) = {} THEN {Null}
         ELSE {rows[t].hash : t \in {m \in LegacyMembers(rows) : IsLegacyTail(rows, m)}}

\* The previousHash the chain offers to entry e, as a set: empty when the
\* primitive refuses (head mismatch, uncertifiable legacy, unsealed history).
Previous(rows, h, e) ==
    IF h # Null
    THEN IF /\ rows[h.entry].hash = h.hash
            /\ h.hash.ver = "v1" => Certified(rows, h.entry)
         THEN {h.hash} ELSE {}
    ELSE IF LegacyMembers(rows) # {}
         THEN {rows[t].hash : t \in {m \in LegacyMembers(rows) : IsLegacyTail(rows, m)}}
         ELSE IF \E f \in Entries \ {e} : rows[f].status = "posted" /\ rows[f].hash = Null
              THEN {} ELSE {Null}

AtAppend(r) == At(r, "append") \/ At(r, "appendLast")

\* Mutant of Appendable: a sealed entry may be sealed again.
AppendableTwice(row) == row.status = "posted"

Appendable(row) == row.status = "posted" /\ row.hash = Null

\* Mutant of SealAppend: the head is read without FOR UPDATE.
SealUnlocked(r) ==
    /\ AtAppend(r)
    /\ LET e == Appended(r)
           row == View(r)[e]
       IN  /\ Appendable(row)
           /\ \E p \in Previous(View(r), HeadOf(r), e) :
                LET s == Seal("v2", e, row, p) IN
                  tx' = [tx EXCEPT ![r].rows[e] = [row EXCEPT !.hash = s, !.prev = p],
                                   ![r].head = [hash |-> s, entry |-> e]]
    /\ Advance(r)
    /\ UNCHANGED <<db, holder, job, mem, res>>

SealAppend(r) ==
    /\ AtAppend(r)
    /\ LET e == Appended(r)
           row == View(r)[e]
       IN  /\ Appendable(row) /\ Granted(r)
           /\ \E p \in Previous(View(r), HeadOf(r), e) :
                LET s == Seal("v2", e, row, p) IN
                  tx' = [tx EXCEPT ![r].rows[e] = [row EXCEPT !.hash = s, !.prev = p],
                                   ![r].head = [hash |-> s, entry |-> e]]
    /\ Take(r, Wants(r))
    /\ Advance(r)
    /\ UNCHANGED <<db, job, mem, res>>

\* Mutant of AppendRefused: the refusal is swallowed and the transaction goes on.
AppendSkipped(r) ==
    /\ AtAppend(r)
    /\ ~Appendable(View(r)[Appended(r)])
    /\ Advance(r)
    /\ UNCHANGED <<db, holder, tx, job, mem, res>>

\* CHAIN_ALREADY_HASHED and CHAIN_NOT_POSTED need no lock on the head. Only the
\* post handler catches the first, and goes on to re-certify the entry.
AppendRefused(r) ==
    /\ AtAppend(r)
    /\ LET row == View(r)[Appended(r)]
       IN  /\ ~Appendable(row)
           /\ Abort(r, IF /\ job[r].op = "post"
                          /\ row.status = "posted"
                          /\ row.hash.ver = "v2"
                       THEN <<"certify">> ELSE <<>>)

AppendBlocked(r) ==
    /\ AtAppend(r)
    /\ Appendable(View(r)[Appended(r)]) /\ Granted(r)
    /\ Previous(View(r), HeadOf(r), Appended(r)) = {}
    /\ Abort(r, <<>>)

\* sealedRaceLoserGuard: success only for a row that is posted and sealed now.
Certify(r) ==
    /\ At(r, "certify")
    /\ LET row == entry[job[r].entry]
       IN  Answer(r, IF row.status = "posted" /\ row.hash # Null /\ row.hash.ver = "v2"
                     THEN "ok" ELSE "failed")
    /\ UNCHANGED <<db, holder, tx, job, mem>>

-----------------------------------------------------------------------------
(* Audit, correction link, balances, end of the transaction. *)

\* The tail is a hashed row no other row links to.
AuditTails == {a \in audit : \A s \in audit : s.prev # a.by}

\* Mutant of Audit: the tail is read without the advisory lock.
AuditUnlocked(r) ==
    /\ At(r, "audit")
    /\ \E p \in IF AuditTails = {} THEN {Null} ELSE {a.by : a \in AuditTails} :
         tx' = [tx EXCEPT ![r].audit = {[by |-> r, prev |-> p]}]
    /\ Advance(r)
    /\ UNCHANGED <<db, holder, job, mem, res>>

Audit(r) ==
    /\ At(r, "audit") /\ Granted(r)
    /\ Take(r, Wants(r))
    /\ \E p \in IF AuditTails = {} THEN {Null} ELSE {a.by : a \in AuditTails} :
         tx' = [tx EXCEPT ![r].audit = {[by |-> r, prev |-> p]}]
    /\ Advance(r)
    /\ UNCHANGED <<db, job, mem, res>>

\* Mutant of LinkCorrection: no unique index on the original.
LinkUnchecked(r) ==
    /\ At(r, "link")
    /\ tx' = [tx EXCEPT ![r].corr =
                 {[original |-> job[r].entry, counter |-> job[r].counter,
                   replacement |-> job[r].replacement]}]
    /\ Advance(r)
    /\ UNCHANGED <<db, holder, job, mem, res>>

LinkCorrection(r) ==
    /\ At(r, "link") /\ Granted(r)
    /\ IF \E k \in corr : k.original = job[r].entry
       THEN Abort(r, <<>>)
       ELSE /\ tx' = [tx EXCEPT ![r].corr =
                        {[original |-> job[r].entry, counter |-> job[r].counter,
                          replacement |-> job[r].replacement]}]
            /\ Take(r, Wants(r))
            /\ Advance(r)
            /\ UNCHANGED <<db, job, mem, res>>

\* Mutant of RecalcRead: the aggregate runs outside the transaction.
RecalcOutside(r) ==
    /\ At(r, "recalc") /\ sum[r] = Null
    /\ \E a \in due[r] :
         sum' = [sum EXCEPT ![r] = [account |-> a, value |-> Counted(entry, a)]]
    /\ UNCHANGED <<db, holder, tx, job, todo, pre, due, res>>

\* recalculateBalance reads the aggregate in one statement ...
RecalcRead(r) ==
    /\ At(r, "recalc") /\ sum[r] = Null
    /\ \E a \in due[r] :
         sum' = [sum EXCEPT ![r] = [account |-> a, value |-> Counted(View(r), a)]]
    /\ UNCHANGED <<db, holder, tx, job, todo, pre, due, res>>

\* ... and writes the account's row in the next.
RecalcWrite(r) ==
    /\ At(r, "recalc") /\ sum[r] # Null /\ Granted(r)
    /\ tx' = [tx EXCEPT ![r].gl[sum[r].account] = sum[r]]
    /\ Take(r, Wants(r))
    /\ due' = [due EXCEPT ![r] = @ \ {sum[r].account}]
    /\ sum' = [sum EXCEPT ![r] = Null]
    /\ IF due[r] = {sum[r].account} THEN Advance(r) ELSE todo' = todo
    /\ UNCHANGED <<db, job, pre, res>>

\* The entry e that a match links when it commits, though a void or a correction
\* of e is past its look-up of linked transactions, or has been made.
Overtaken(r, e) ==
    /\ job[r].op = "match" /\ e \in tx[r].linked
    /\ \E q \in Requests :
         /\ job[q].op \in {"void", "correct"} /\ job[q].entry = e
         /\ \/ res[q] = "ok"
            \/ todo[q] # <<>> /\ Head(todo[q]) \notin {"read", "linkCheck"}

Commit(r) ==
    /\ At(r, "commit")
    /\ entry' = View(r)
    /\ head' = HeadOf(r)
    /\ balance' = [a \in Accounts |->
                     IF tx[r].gl[a] # Null THEN tx[r].gl[a].value ELSE balance[a]]
    /\ audit' = audit \union tx[r].audit
    /\ corr' = corr \union tx[r].corr
    /\ linked' = linked \union tx[r].linked
    /\ raced' = raced \union {e \in Entries : Overtaken(r, e)}
    /\ Release(r)
    /\ tx' = [tx EXCEPT ![r] = NoTx]
    /\ Answer(r, "ok")
    /\ UNCHANGED <<locked, job, mem>>

\* A statement fails, the transaction exceeds its timeout or the process dies.
Fail(r) ==
    /\ todo[r] # <<>> /\ Head(todo[r]) \in InTransaction
    /\ Abort(r, <<>>)

\* PostgreSQL's deadlock detector: r waits in a cycle of waiting requests.
Deadlocked(r) ==
    \E D \in SUBSET Requests :
      /\ r \in D
      /\ \A q \in D : \E x \in Wants(q) : holder[x] \in D \ {q}

DeadlockVictim(r) == Deadlocked(r) /\ Abort(r, <<>>)

-----------------------------------------------------------------------------
(* POST /api/fiscal-periods/[id]/lock: two statements, no transaction. *)

ReadPeriod(r) ==
    /\ At(r, "readPeriod")
    /\ IF locked THEN Answer(r, "refused") ELSE Advance(r) /\ res' = res
    /\ UNCHANGED <<db, holder, tx, job, mem>>

LockPeriod(r) ==
    /\ At(r, "lockPeriod")
    /\ locked' = TRUE
    /\ Answer(r, "ok")
    /\ UNCHANGED <<entry, head, balance, audit, corr, linked, raced, holder, tx, job, mem>>

-----------------------------------------------------------------------------
(* What the constants must be. *)

ASSUME NullAssumption ==
    /\ Null \notin Requests
    /\ Null \notin Entries
    /\ Null \notin Seals
    /\ Null \notin Heads
    /\ Null \notin Rows
    /\ Null \notin Keys
    /\ Null \notin KeyUses
    /\ Null \notin Sums

ASSUME ContentsAssumption ==
    /\ Touches \in [Contents -> SUBSET Accounts]
    /\ Reversal \in [Contents -> Contents]

ASSUME WorkloadsAssumption == Workloads \subseteq [Requests -> JobSet]

\* A behaviour starts from a database whose chain verifies.
ASSUME StartsAssumption ==
    \A s \in Starts : /\ s.entry \in [Entries -> Rows]
                      /\ s.head \in Heads \union {Null}
                      /\ Linear(s.entry, s.head)

\* The unique index of (companyId, idempotencyKey); an id no row has has no key.
ASSUME KeysAssumption ==
    \A s \in Starts : \A e \in Entries : s.entry[e].use # Null =>
        /\ s.entry[e].status # "absent"
        /\ \A f \in Entries :
             s.entry[f].use # Null /\ s.entry[f].use.key = s.entry[e].use.key => e = f

-----------------------------------------------------------------------------

Init ==
    /\ \E s \in Starts :
         /\ entry = s.entry
         /\ head = s.head
         /\ balance = [a \in Accounts |-> Counted(s.entry, a)]
    /\ audit = {} /\ corr = {} /\ linked = {} /\ raced = {} /\ locked = FALSE
    /\ holder = [x \in Resources |-> Null]
    /\ tx = [r \in Requests |-> NoTx]
    /\ job \in Workloads
    /\ todo = [r \in Requests |-> Script(job[r])]
    /\ pre = [r \in Requests |-> job[r].content]
    /\ due = [r \in Requests |-> {}]
    /\ sum = [r \in Requests |-> Null]
    /\ res = [r \in Requests |-> "none"]

\* The steps of the code; Fail is the environment's.
Step(r) ==
    \/ Lookup(r) \/ Read(r) \/ LinkCheck(r)
    \/ FiscalPass(r) \/ FiscalRefuse(r)
    \/ InsertOne(r) \/ InsertDuplicate(r) \/ Winner(r) \/ InsertPair(r) \/ Reread(r)
    \/ PostUpdate(r) \/ VoidUpdate(r) \/ EditUpdate(r) \/ MatchUpdate(r)
    \/ SealAppend(r) \/ AppendRefused(r) \/ AppendBlocked(r) \/ Certify(r)
    \/ Audit(r) \/ LinkCorrection(r) \/ RecalcRead(r) \/ RecalcWrite(r)
    \/ Commit(r) \/ DeadlockVictim(r) \/ ReadPeriod(r) \/ LockPeriod(r)

Next == \E r \in Requests : Step(r) \/ Fail(r)

Spec == Init /\ [][Next]_vars

\* Node keeps running a handler whose promise is pending, PostgreSQL grants a
\* free lock and breaks a deadlock by aborting one transaction.
Fairness == \A r \in Requests : WF_vars(Step(r))

FairSpec == Spec /\ Fairness
=============================================================================
