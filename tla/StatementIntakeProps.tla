-------------------------- MODULE StatementIntakeProps --------------------------
(* What the intake of statements promises.                                 *)
EXTENDS StatementIntake

Days == UNION {{f.from, f.to} : f \in Files}

CallTypeOK(k) ==
    \/ k \in {Idle, Failed, Refused}
    \/ /\ k.at \in {"hashing", "opening", "classifying", "inserting", "tracing", "totalling",
                    "closing", "imported", "skipped"}
       /\ k.file \in Files /\ k.account \in BankAccounts /\ k.number \in Numbers
       /\ k.at # "hashing" => k.rejected \subseteq LinesOf(k.file)
       /\ k.at \notin {"hashing", "imported", "skipped"} =>
            k.fresh # {} /\ k.fresh \subseteq LinesOf(k.file)
       /\ k.at \in {"inserting", "tracing", "totalling", "closing"} =>
            k.verdict \in [k.fresh -> Verdicts]
       /\ k.at = "inserting" => k.done \subseteq k.fresh
       /\ k.at = "closing" => k.initial \in Int /\ k.balance \in Int

\* A proposal is about a transaction that is stored; one that was accepted or
\* corrected has reached the books.
ProposalsHaveRows ==
    \A p \in proposals :
        \E r \in rows :
            /\ r.hash = p.hash
            /\ p.status = "accepted" => r.by = "person"

\* Every variable has its type, and every proposal its transaction.
TypeOK ==
    /\ accounts \in [BankAccounts -> [number : Numbers, initial : Int, balance : Int]]
    /\ \A s \in statements :
        /\ DOMAIN s = {"account", "from", "to", "opening", "closing", "credits", "debits", "traced"}
        /\ s.account \in BankAccounts
        /\ s.from \in Days /\ s.to \in Days
    /\ \A r \in rows :
        /\ DOMAIN r = {"hash", "account", "line", "from", "to", "by", "booked"}
        /\ r.hash \in Numbers \X Lines
        /\ r.by \in {"none", "engine", "person"}
        /\ r.booked \in BOOLEAN
    /\ proposals \subseteq
        [hash : Numbers \X Lines, status : {"pending", "accepted", "rejected"}]
    /\ ProposalsHaveRows
    /\ DOMAIN calls = Calls
    /\ \A c \in Calls : CallTypeOK(calls[c])
    /\ DOMAIN edits = Editors
    /\ \A e \in Editors : edits[e] # Idle =>
        /\ edits[e].account \in BankAccounts
        /\ edits[e].seen \subseteq statements
        /\ edits[e].initial \in Int /\ edits[e].balance \in Int
    /\ outdated \subseteq BankAccounts

\* One line is booked once: of two rows of an account with the same content,
\* one was stored under a number the account had before.
OneRowPerLine ==
    \A r, s \in rows :
        r.account = s.account /\ r.line = s.line /\ r # s => r.hash # s.hash

RowsOf(s) == {r \in rows : KeyOf(r) = KeyOf(s)}

\* A statement comes with its rows, all of them and no others.
StatementsAddUp ==
    /\ \A s \in statements :
        /\ RowsOf(s) # {}
        /\ s.credits = Credits({r.line : r \in RowsOf(s)})
        /\ s.debits = Debits({r.line : r \in RowsOf(s)})
    /\ \A r \in rows : \E s \in statements : KeyOf(s) = KeyOf(r)

\* An import that ends well accounts for every line of its file: the line is
\* reported, or stored under the number the account had (which another account
\* may share); and the totals of its statement are the sums of what is stored,
\* whatever the classifier refused and whatever was imported at the same time.
LinesAreAccountedFor ==
    /\ StatementsAddUp
    /\ \A c \in Calls : calls[c].at \in {"imported", "skipped"} =>
        \A l \in LinesOf(calls[c].file) :
            \/ l \in calls[c].rejected
            \/ \E r \in rows : r.hash = Hash(calls[c].number, l)

\* The balance of an account is what its newest statement closes with, and its
\* initial balance what the oldest opens with, if each of its imports
\* classified something: those hold the lock of the audit trail from before
\* they read the statements until they commit.  An account edited with the
\* balance of statements that were not the last any more is excepted, until it
\* is written again: an edit takes no lock.
FollowsStatements(a) ==
    (/\ StatementsOf(a) # {}
     /\ \A s \in StatementsOf(a) : s.traced)
        => /\ accounts[a].balance = Newest(StatementsOf(a)).closing
           /\ accounts[a].initial = Oldest(StatementsOf(a)).opening

BalanceIsNewestClosing == \A a \in BankAccounts \ outdated : FollowsStatements(a)

\* Without the exception, to show the limit: an edit that has read the statements
\* overwrites the balance of an import that has committed since.
BalanceAlwaysFollows == \A a \in BankAccounts : FollowsStatements(a)

\* The call waits for another one's statement, rows or traces.
WaitsToInsert(c, l) == calls[c].at = "inserting" /\ Turn(c, l) /\ ~ Clear(c, l)

Waits(c) ==
    \/ calls[c].at = "opening" /\ ~ Vacant(c)
    \/ calls[c].at = "inserting" /\ \E l \in Kept(c) : WaitsToInsert(c, l)
    \/ calls[c].at = "tracing" /\ NewStatement(c).traced /\ ~ TrailFree(c)

\* Imports can wait for each other in a circle, which the database breaks, only
\* over lines of one day, which their files may list in any order: everything
\* else is taken in one order.  So while an import waits, another whose
\* transaction is open can go on, or some wait for each other's lines of a day.
DeadlocksAreOfOneDay ==
    (\E c \in Calls : Waits(c)) =>
        \/ \E d \in Calls : InTransaction(d) /\ ~ Waits(d)
        \/ \E D \in SUBSET Calls, day \in {Day[l] : l \in Lines} :
            /\ D # {}
            /\ \A c \in D : \E l \in Kept(c) :
                /\ WaitsToInsert(c, l)
                /\ Day[l] = day
                /\ \E d \in D \ {c} : InsertedBy(d, Hash(calls[c].number, l))

===============================================================================
