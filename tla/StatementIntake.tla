---------------------------- MODULE StatementIntake ----------------------------
(***************************************************************************)
(* How bank statements come in.  An import reads the lines of one file,    *)
(* leaves out those the company already has, by a hash of their content    *)
(* and of the account's number, and stores the rest in one transaction     *)
(* with their classification, their postings and the account's balance.    *)
(* A line the classifier left to a person comes with a proposal, which the *)
(* person accepts, corrects or rejects; rules may classify the others      *)
(* afterwards.  An account is edited meanwhile: its number, its balance.   *)
(*                                                                         *)
(* What an open transaction has written is in its call until it commits.   *)
(* The row locks and unique indexes of the database are the guards of the  *)
(* steps that wait for them.  Which verdict the classifier gives is left   *)
(* open (LearnedKnowledge), as is whether a period is locked               *)
(* (JournalLedger): a refused posting is one of the ways to abort.         *)
(***************************************************************************)
EXTENDS Integers, Sequences, FiniteSets, FiniteSetsExt

CONSTANTS
    Calls,        \* imports; each brings one file
    Editors,      \* requests that edit the balance of an account
    Entered,      \* balances they enter
    BankAccounts, \* the bank accounts of one company
    Numbers,      \* account numbers: several accounts may share one
    FirstNumber,  \* the number of each account to begin with
    Lines,        \* contents of a statement line: date, amount, text, reference
    Amount,       \* the amount of each line: deposits are positive
    Day,          \* the day of each line
    Expected,     \* what the classifier may say of each line
    Files         \* statements: [lines, from, to, opening, closing]

\* What the classifier can say of a line: an account, from its knowledge or a
\* rule; nothing; nothing, with a proposal for a person; or that it failed.
Verdicts == {"account", "none", "proposal", "error"}

\* A statement covers a period of days and may report its closing balance.
ASSUME IntakeAssumption ==
    /\ IsFiniteSet(Calls)
    /\ Entered \subseteq Int
    /\ FirstNumber \in [BankAccounts -> Numbers]
    /\ Amount \in [Lines -> Int]
    /\ Day \in [Lines -> Int]
    /\ Expected \in [Lines -> SUBSET Verdicts]
    /\ \A f \in Files :
        /\ f.lines \in Seq(Lines)
        /\ f.lines # <<>>
        /\ f.from \in Int /\ f.to \in Int /\ f.opening \in Int
        /\ f.closing \subseteq Int

VARIABLES
    accounts,   \* the bank accounts: number, initial balance, balance
    statements, \* the statements stored
    rows,       \* the bank transactions stored
    proposals,  \* classifications waiting for a person, or decided
    calls,      \* where each import stands, and what it has read and written
    edits,      \* what each edit of a balance has read
    outdated    \* history: accounts an edit gave the balance of statements gone by

vars == <<accounts, statements, rows, proposals, calls, edits, outdated>>

Idle == [at |-> "idle"]
Failed == [at |-> "failed"]
Refused == [at |-> "refused"]

\* What an answer says, for a call that ends well.
Answer(k, outcome) ==
    [at |-> outcome, file |-> k.file, account |-> k.account, number |-> k.number,
     rejected |-> k.rejected]

-----------------------------------------------------------------------------
Hash(n, l) == <<n, l>>

Stored == {r.hash : r \in rows}

LinesOf(f) == {f.lines[i] : i \in DOMAIN f.lines}

\* Lines the file brings more than once.
Repeated(f) ==
    {f.lines[i] : i \in {j \in DOMAIN f.lines : \E k \in 1 .. (j - 1) : f.lines[k] = f.lines[j]}}

Key(c) == [account |-> calls[c].account, from |-> calls[c].file.from, to |-> calls[c].file.to]

KeyOf(s) == [account |-> s.account, from |-> s.from, to |-> s.to]

Credits(S) == MapThenSumSet(LAMBDA l : IF Amount[l] > 0 THEN Amount[l] ELSE 0, S)
Debits(S) == MapThenSumSet(LAMBDA l : IF Amount[l] < 0 THEN -Amount[l] ELSE 0, S)

\* The lines a call stores: all but those the classifier failed on.
Kept(c) == {l \in calls[c].fresh : calls[c].verdict[l] # "error"}

\* The lines its totals are taken over.
SummedFresh(c) == calls[c].fresh

Summed(c) == Kept(c)

\* What a row says of its classification when it is stored.
Classified(v) == IF v = "account" THEN "engine" ELSE "none"

Booking(by, l) == by # "none" /\ Amount[l] # 0

NewRow(c, l) ==
    LET by == Classified(calls[c].verdict[l])
    IN  [hash |-> Hash(calls[c].number, l), account |-> calls[c].account, line |-> l,
         from |-> calls[c].file.from, to |-> calls[c].file.to,
         by |-> by, booked |-> Booking(by, l)]

\* Its statement.  The totals are those of the lines it stores, a reported
\* closing balance wins over the computed one.  traced, which nothing reads, is
\* whether the import took the lock of the audit trail.
NewStatement(c) ==
    LET f == calls[c].file
        in == Credits(Summed(c))
        out == Debits(Summed(c))
    IN  [account |-> calls[c].account, from |-> f.from, to |-> f.to, opening |-> f.opening,
         closing |-> IF f.closing # {} THEN CHOOSE b \in f.closing : TRUE
                     ELSE f.opening + in - out,
         credits |-> in, debits |-> out,
         traced |-> \E l \in Kept(c) : Classified(calls[c].verdict[l]) # "none"]

\* Statements are ordered by their first day, then by their last.
Before(s, t) == s.from < t.from \/ (s.from = t.from /\ s.to <= t.to)

Oldest(S) == CHOOSE s \in S : \A t \in S : Before(s, t)
Newest(S) == CHOOSE s \in S : \A t \in S : Before(t, s)

StatementsOf(a) == {s \in statements : s.account = a}

\* The transaction is open, and what it has written so far.
InTransaction(c) == calls[c].at \in {"classifying", "inserting", "tracing", "totalling", "closing"}
HasInserted(c) == calls[c].at \in {"tracing", "totalling", "closing"}

Inserted(c) ==
    IF calls[c].at = "inserting" THEN calls[c].done
    ELSE IF HasInserted(c) THEN Kept(c) ELSE {}

HoldsTrail(c) ==
    /\ calls[c].at \in {"totalling", "closing"}
    /\ NewStatement(c).traced

-----------------------------------------------------------------------------
Init ==
    /\ accounts = [a \in BankAccounts |-> [number |-> FirstNumber[a], initial |-> 0, balance |-> 0]]
    /\ statements = {}
    /\ rows = {}
    /\ proposals = {}
    /\ calls = [c \in Calls |-> Idle]
    /\ edits = [e \in Editors |-> Idle]
    /\ outdated = {}

Store == <<accounts, statements, rows, proposals, edits, outdated>>

\* A file arrives for an account; the account's number is read once.
Receive(c, f, a) ==
    /\ calls[c] = Idle
    /\ calls' = [calls EXCEPT ![c] =
                    [at |-> "hashing", file |-> f, account |-> a, number |-> accounts[a].number]]
    /\ UNCHANGED Store

\* The lines the company does not have yet, each once.
Fresh(c) == {l \in LinesOf(calls[c].file) : Hash(calls[c].number, l) \notin Stored}

NothingNew(fresh) == fresh = {}

LookUp(c) ==
    /\ calls[c].at = "hashing"
    /\ LET fresh == Fresh(c)
           k == calls[c]
           read == [at |-> "opening", file |-> k.file, account |-> k.account,
                    number |-> k.number, fresh |-> fresh,
                    rejected |-> fresh \intersect Repeated(k.file)]
       IN  calls' = [calls EXCEPT ![c] =
                        IF NothingNew(fresh) THEN Answer(read, "skipped") ELSE read]
    /\ UNCHANGED Store

\* The transaction opens.  The statement is looked for and created; the unique
\* index waits for another that is being created for the same period.
Vacant(c) == \A d \in Calls \ {c} : InTransaction(d) => Key(d) # Key(c)

Taken(c) == \E s \in statements : KeyOf(s) = Key(c)

OpenStatement(c) ==
    /\ calls[c].at = "opening"
    /\ Vacant(c)
    /\ calls' = [calls EXCEPT ![c] =
                    IF Taken(c) THEN Refused ELSE [@ EXCEPT !.at = "classifying"]]
    /\ UNCHANGED Store

\* Every line is classified.  The lines the classifier fails on are reported;
\* if there is no other the import is rolled back.
Failing(k, verdict) == {l \in k.fresh : verdict[l] = "error"}

Reports(k, verdict) == k.rejected \union Failing(k, verdict)

Judgements(c) ==
    {v \in [calls[c].fresh -> Verdicts] : \A l \in calls[c].fresh : v[l] \in Expected[l]}

Classify(c, verdict) ==
    /\ calls[c].at = "classifying"
    /\ LET k == calls[c]
       IN  calls' = [calls EXCEPT ![c] =
                        IF Failing(k, verdict) = k.fresh THEN Failed
                        ELSE [at |-> "inserting", file |-> k.file, account |-> k.account,
                              number |-> k.number, fresh |-> k.fresh,
                              rejected |-> Reports(k, verdict), verdict |-> verdict,
                              done |-> {}]]
    /\ UNCHANGED Store

\* The rows are inserted one by one, by their day and on one day as they stand in
\* the file.  The unique index of the hash waits for an insertion of the same hash
\* that is not committed, and refuses one that is.
Place(f, l) == Min({i \in DOMAIN f.lines : f.lines[i] = l})

SoonerInFile(f, l, m) == Place(f, l) < Place(f, m)

Sooner(f, l, m) == Day[l] < Day[m] \/ (Day[l] = Day[m] /\ Place(f, l) < Place(f, m))

Turn(c, l) ==
    /\ l \in Kept(c) \ calls[c].done
    /\ \A m \in Kept(c) \ calls[c].done : ~ Sooner(calls[c].file, m, l)

InsertedBy(d, h) == \E l \in Inserted(d) : Hash(calls[d].number, l) = h

Clear(c, l) == \A d \in Calls \ {c} : ~ InsertedBy(d, Hash(calls[c].number, l))

UniqueUnchecked(c, l) == TRUE

Unique(c, l) == Hash(calls[c].number, l) \notin Stored

InsertRow(c, l) ==
    /\ calls[c].at = "inserting"
    /\ Turn(c, l)
    /\ Clear(c, l)
    /\ LET k == calls[c]
       IN  calls' = [calls EXCEPT ![c] =
                        IF ~ Unique(c, l) THEN Failed
                        ELSE IF k.done \union {l} # Kept(c) THEN [k EXCEPT !.done = @ \union {l}]
                        ELSE [at |-> "tracing", file |-> k.file, account |-> k.account,
                              number |-> k.number, fresh |-> k.fresh, rejected |-> k.rejected,
                              verdict |-> k.verdict]]
    /\ UNCHANGED Store

\* Each final classification is traced in the audit trail, whose lock lasts
\* until the commit, and booked.
TrailIgnored(c) == TRUE

TrailFree(c) == \A d \in Calls \ {c} : ~ HoldsTrail(d)

TraceAndPost(c) ==
    /\ calls[c].at = "tracing"
    /\ NewStatement(c).traced => TrailFree(c)
    /\ calls' = [calls EXCEPT ![c].at = "totalling"]
    /\ UNCHANGED Store

\* The account's balances: the statements committed by now, and its own.
ReadStatements(c) ==
    /\ calls[c].at = "totalling"
    /\ LET k == calls[c]
           seen == StatementsOf(k.account) \union {NewStatement(c)}
       IN  calls' = [calls EXCEPT ![c] =
                        [at |-> "closing", file |-> k.file, account |-> k.account,
                         number |-> k.number, fresh |-> k.fresh, rejected |-> k.rejected,
                         verdict |-> k.verdict,
                         initial |-> Oldest(seen).opening, balance |-> Newest(seen).closing]]
    /\ UNCHANGED Store

\* A line the rules left open may come with a proposal.
Asked(c) == {l \in Kept(c) : calls[c].verdict[l] = "proposal"}

Commit(c) ==
    /\ calls[c].at = "closing"
    /\ statements' = statements \union {NewStatement(c)}
    /\ rows' = rows \union {NewRow(c, l) : l \in Kept(c)}
    /\ proposals' = proposals \union
                    {[hash |-> Hash(calls[c].number, l), status |-> "pending"] : l \in Asked(c)}
    /\ accounts' = [accounts EXCEPT ![calls[c].account].initial = calls[c].initial,
                                    ![calls[c].account].balance = calls[c].balance]
    /\ calls' = [calls EXCEPT ![c] = Answer(@, "imported")]
    /\ outdated' = outdated \ {calls[c].account}
    /\ UNCHANGED edits

\* The statement budget is spent, a period is locked, a write fails, or the
\* database ends a deadlock.
Abort(c) ==
    /\ InTransaction(c)
    /\ calls' = [calls EXCEPT ![c] = Failed]
    /\ UNCHANGED Store

-----------------------------------------------------------------------------
\* The account is given another number.
EditNumber(a, n) ==
    /\ accounts' = [accounts EXCEPT ![a].number = n]
    /\ UNCHANGED <<statements, rows, proposals, calls, edits, outdated>>

\* Or a balance: the one entered as long as there is no statement, else that of
\* the statements there are.  They are read before the account is written, a new
\* number with the balance; a request with a wrong balance is refused.
ReadForEdit(e, a, b) ==
    /\ edits[e] = Idle
    /\ LET seen == StatementsOf(a)
       IN  edits' = [edits EXCEPT ![e] =
                        [at |-> "read", account |-> a, seen |-> seen,
                         initial |-> IF seen = {} THEN b ELSE Oldest(seen).opening,
                         balance |-> IF seen = {} THEN b ELSE Newest(seen).closing]]
    /\ UNCHANGED <<accounts, statements, rows, proposals, calls, outdated>>

WriteEdit(e, n) ==
    /\ edits[e] # Idle
    /\ LET a == edits[e].account
       IN  /\ accounts' = [accounts EXCEPT ![a] =
                              [number |-> n, initial |-> edits[e].initial,
                               balance |-> edits[e].balance]]
           /\ outdated' = IF StatementsOf(a) = edits[e].seen THEN outdated \ {a}
                          ELSE outdated \union {a}
    /\ edits' = [edits EXCEPT ![e] = Idle]
    /\ UNCHANGED <<statements, rows, proposals, calls>>

RefuseEdit(e) ==
    /\ edits[e] # Idle
    /\ edits' = [edits EXCEPT ![e] = Idle]
    /\ UNCHANGED <<accounts, statements, rows, proposals, calls, outdated>>

ByPerson(r) == [r EXCEPT !.by = "person", !.booked = Booking("person", r.line)]
ByRule(r) == [r EXCEPT !.by = "engine", !.booked = Booking("engine", r.line)]

\* A pending proposal is decided: its state and the books change together.  It
\* is accepted as it stands or with another account.
NamesLine(p, r) == r.line = p.hash[2]

Names(p, r) == r.hash = p.hash

Decide(p, r, decision) ==
    /\ p.status = "pending"
    /\ Names(p, r)
    /\ proposals' = (proposals \ {p}) \union {[p EXCEPT !.status = decision]}
    /\ rows' = IF decision = "rejected" THEN rows
               ELSE (rows \ {r}) \union {ByPerson(r)}
    /\ UNCHANGED <<accounts, statements, calls, edits, outdated>>

\* Somebody reclassifies a transaction without looking at its proposal.
Reclassify(r) ==
    /\ r.by # "person"
    /\ rows' = (rows \ {r}) \union {ByPerson(r)}
    /\ UNCHANGED <<accounts, statements, proposals, calls, edits, outdated>>

\* A rule is applied to an unclassified transaction no proposal is pending for.
Undecided(h) == \E p \in proposals : p.hash = h /\ p.status = "pending"

Eligible(r) == r.by = "none" /\ ~ Undecided(r.hash)

ApplyRule(r) ==
    /\ Eligible(r)
    /\ rows' = (rows \ {r}) \union {ByRule(r)}
    /\ UNCHANGED <<accounts, statements, proposals, calls, edits, outdated>>

-----------------------------------------------------------------------------
Step(c) ==
    \/ LookUp(c)
    \/ OpenStatement(c)
    \/ calls[c].at = "classifying" /\ \E verdict \in Judgements(c) : Classify(c, verdict)
    \/ calls[c].at = "inserting" /\ \E l \in Kept(c) : InsertRow(c, l)
    \/ TraceAndPost(c)
    \/ ReadStatements(c)
    \/ Commit(c)

People ==
    \/ \E a \in BankAccounts, n \in Numbers : EditNumber(a, n)
    \/ \E e \in Editors, a \in BankAccounts, b \in Entered : ReadForEdit(e, a, b)
    \/ \E e \in Editors, n \in Numbers : WriteEdit(e, n)
    \/ \E e \in Editors : RefuseEdit(e)
    \/ \E p \in proposals, r \in rows, decision \in {"accepted", "rejected"} :
          Decide(p, r, decision)
    \/ \E r \in rows : Reclassify(r) \/ ApplyRule(r)

Next ==
    \/ \E c \in Calls, f \in Files, a \in BankAccounts : Receive(c, f, a)
    \/ \E c \in Calls : Step(c) \/ Abort(c)
    \/ People

Spec == Init /\ [][Next]_vars

===============================================================================
