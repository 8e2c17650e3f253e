--------------------------- MODULE MCJournalLedger ---------------------------
(* The instance of the journal TLC explores: one entry already posted and    *)
(* sealed, one draft, four ids to create, and three requests at a time.      *)
EXTENDS JournalLedgerProps, FiniteSetsExt, TLC

CONSTANTS r1, r2, r3, e0, e1, e2, e3, e4, e5, e6, c1, c1r, c2, c2r, k1,
          cash, sales, fees

MCTouches == c1 :> {cash, sales} @@ c1r :> {cash, sales}
                 @@ c2 :> {cash, fees} @@ c2r :> {cash, fees}

MCReversal == c1 :> c1r @@ c1r :> c1 @@ c2 :> c2r @@ c2r :> c2

Blank == NewRow("absent", c1, Null)
Sealing(v, e, c, s) ==
    [NewRow(s, c, Null) EXCEPT
        !.hash = [ver |-> v, entry |-> e, content |-> c, prev |-> Null]]

\* A company whose chain has its v2 root, and a draft.
Fresh == [entry |-> [e \in Entries |->
                       CASE e = e0 -> Sealing("v2", e0, c1, "posted")
                         [] e = e1 -> NewRow("draft", c1, Null)
                         [] OTHER -> Blank],
          head |-> [hash |-> Sealing("v2", e0, c1, "posted").hash, entry |-> e0]]

\* A company with no ledger yet.
Empty == [entry |-> [e \in Entries |-> IF e = e1 THEN NewRow("draft", c1, Null) ELSE Blank],
          head |-> Null]

\* A legacy chain of two, one member voided since, that no v2 entry extends.
Legacy == [entry |-> [e \in Entries |->
                        CASE e = e0 -> Sealing("v1", e0, c1, "posted")
                          [] e = e6 -> [Sealing("v1", e6, c2, "void") EXCEPT
                                          !.hash.prev = e0,
                                          !.prev = Sealing("v1", e0, c1, "posted").hash]
                          [] e = e1 -> NewRow("draft", c1, Null)
                          [] OTHER -> Blank],
           head |-> Null]

\* A posted entry from before the chain existed.
Unsealed == [entry |-> [e \in Entries |->
                          CASE e = e0 -> NewRow("posted", c1, Null)
                            [] e = e1 -> NewRow("draft", c1, Null)
                            [] OTHER -> Blank],
             head |-> Null]

J(op, e, c, p, k) == [op |-> op, entry |-> e, content |-> c, posted |-> p, key |-> k,
                      counter |-> e, replacement |-> e]

Post1    == J("post", e1, c1, FALSE, Null)
Void0    == J("void", e0, c1, FALSE, Null)
Void1    == J("void", e1, c1, FALSE, Null)
Edit1    == J("edit", e1, c2, FALSE, Null)
Create2  == J("create", e2, c1, TRUE, k1)
Retry3   == J("create", e3, c1, TRUE, k1)
Other3   == J("create", e3, c2, TRUE, k1)
Draft3   == J("create", e3, c2, FALSE, Null)
Bank3    == J("bank", e3, c2, FALSE, Null)
VoidBank == J("void", e3, c1, FALSE, Null)
Match0   == J("match", e0, c1, FALSE, Null)
MatchBank == J("match", e3, c1, FALSE, Null)
FixBank  == [J("correct", e3, c2, FALSE, Null) EXCEPT !.counter = e4, !.replacement = e5]
Correct0 == [J("correct", e0, c2, FALSE, Null) EXCEPT !.counter = e4, !.replacement = e5]
Again0   == [J("correct", e0, c2, FALSE, Null) EXCEPT !.counter = e2, !.replacement = e3]
Lock     == J("lock", e0, c1, FALSE, Null)

Three(a, b, c) == r1 :> a @@ r2 :> b @@ r3 :> c

Created(j) ==
    CASE j.op \in {"create", "bank"} -> {j.entry}
      [] j.op = "correct" -> {j.counter, j.replacement}
      [] OTHER -> {}

Combinations(jobs) ==
    {w \in [Requests -> jobs] :
        \A q, r \in Requests : q # r => Created(w[q]) \intersect Created(w[r]) = {}}

Symmetry == Permutations(Requests)

\* Every mix of three creates, posts and voids.
CoreWorkloads == Combinations({Post1, Void1, Void0, Create2, Retry3, Other3, Draft3})
CoreStarts == {Fresh}

\* Every mix of three handlers that append to the chain, or edit, void, match or
\* lock what it holds.
ChainWorkloads ==
    Combinations({Post1, Void0, Edit1, Create2, Bank3, VoidBank, Correct0, Again0,
                  Match0, MatchBank, Lock})
ChainStarts == {Fresh, Empty, Legacy, Unsealed}

\* Handlers that take their locks in opposite orders.
LiveWorkloads ==
    {Three(Post1, Create2, Correct0), Three(Bank3, Create2, Void0), Three(Retry3, Create2, Post1)}
LiveStarts == {Fresh}

\* The races the findings are about.
EditWorkloads == {Three(Post1, Edit1, Void0)}
StaleWorkloads == {Three(Post1, Void1, Correct0)}
CloseWorkloads == {Three(Post1, Lock, Void0)}
CorrectWorkloads == {Three(Post1, Void0, Correct0)}
MatchWorkloads == {Three(Post1, Void0, Match0)}
=============================================================================
