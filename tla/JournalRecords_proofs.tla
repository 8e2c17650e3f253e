------------------------ MODULE JournalRecords_proofs ------------------------
(***************************************************************************)
(* What the journal keeps beside its chain: idempotency keys, corrections, *)
(* entries of bank flows, audit rows, posted entries, the root of the      *)
(* chain and balances, for any number of requests, entries and accounts.   *)
(***************************************************************************)
EXTENDS JournalChain_proofs

-----------------------------------------------------------------------------
(* Where a handler stands. *)

Writes == {"insert", "update", "match"}
Fills == {"append", "link", "appendLast", "audit", "recalc"}
Before == Labels \ (Writes \union Fills \union {"commit"})

\* What may follow a statement.
After(s) ==
    CASE s = "commit" -> {}
      [] s = "appendLast" -> (Fills \ {"append", "appendLast"}) \union {"commit"}
      [] s \in Writes -> Fills \union {"commit"}
      [] s \in Fills \ {"appendLast"} -> (Fills \ {s}) \union {"commit"}
      [] s = "fiscal" -> Labels \ {"read", "lookup"}
      [] OTHER -> Labels \ {"read", "lookup", s}

StatementsOf(op) ==
    CASE op = "create" -> {"lookup", "fiscal", "insert", "audit", "recalc", "append",
                           "commit", "winner"}
      [] op = "edit" -> {"read", "fiscal", "update", "audit", "commit"}
      [] op = "post" -> {"read", "fiscal", "update", "append", "audit", "recalc", "commit",
                         "certify"}
      [] op = "void" -> {"read", "linkCheck", "fiscal", "update", "audit", "recalc", "commit"}
      [] op = "correct" -> {"read", "linkCheck", "fiscal", "reread", "insert", "append", "link",
                            "appendLast", "recalc", "audit", "commit"}
      [] op = "bank" -> {"fiscal", "insert", "append", "recalc", "commit"}
      [] op = "match" -> {"read", "fiscal", "match", "audit", "commit"}
      [] OTHER -> {"readPeriod", "lockPeriod"}

Has(t, s) == \E i \in 1..Len(t) : t[i] = s

\* The statements that a write leaves for later, which the commit may not do without.
Needed(j) ==
    CASE j.op = "create" -> IF j.posted THEN {"append"} ELSE {}
      [] j.op = "bank" -> {"append"}
      [] j.op = "post" -> {"append", "audit"}
      [] j.op = "correct" -> {"append", "link", "appendLast"}
      [] OTHER -> {}

\* The rest t of the handler of j: its statements, in an order in which one that fills
\* the entry follows the one write and precedes the commit.
InOrder(t, j) ==
    /\ \A i \in 1..Len(t) :
        /\ t[i] \in StatementsOf(j.op)
        /\ \A k \in (i + 1)..Len(t) : t[k] \in After(t[i])
        /\ t[i] \in Writes \union Fills => Has(t, "commit")
        /\ t[i] \in Before /\ Has(t, "commit") => \E k \in (i + 1)..Len(t) : t[k] \in Writes
        /\ t[i] = "read" /\ j.op \in {"void", "correct"} => Has(t, "linkCheck")
        /\ t[i] = "read" /\ j.op = "correct" => Has(t, "reread")
        /\ t[i] = "append" /\ j.op = "correct" => Has(t, "appendLast")
        /\ t[i] \in Writes => \A s \in Needed(j) : Has(t, s)

\* The statement s is still to come.
Ahead(r, s) == Has(todo[r], s)

Runs(r) == todo[r] # <<>>

\* r has written its entry and not yet committed.
Writing(r) == Ahead(r, "commit") /\ \A s \in Labels : Ahead(r, s) => s \in Fills \union {"commit"}

HasRead(r) == job[r].op \in {"edit", "post", "void", "correct"} /\ Runs(r) /\ ~Ahead(r, "read")

Final == {"posted", "void"}

-----------------------------------------------------------------------------
(* What a request may have written, by where it stands. *)

\* Ids a transaction makes new, and those it may write.
Created(r) ==
    CASE job[r].op \in {"create", "bank"} -> {job[r].entry}
      [] job[r].op = "correct" -> {job[r].counter, job[r].replacement}
      [] OTHER -> {}

Targets(r) ==
    CASE job[r].op = "correct" -> Created(r)
      [] job[r].op = "match" -> {}
      [] OTHER -> {job[r].entry}

\* A row that is not new keeps what only an edit may change, and never goes back.
OwnRows(r) ==
    \A e \in Entries : tx[r].rows[e] # Null =>
        /\ e \in Targets(r)
        /\ e \in Created(r) => entry[e].status = "absent"
        /\ tx[r].rows[e].status # "absent"
        /\ entry[e].status \in Final => tx[r].rows[e].status \in Final
        /\ entry[e].status # "absent" /\ job[r].op # "edit" =>
                tx[r].rows[e].content = entry[e].content
        /\ job[r].op = "edit" => tx[r].rows[e].status = entry[e].status
        /\ job[r].op = "post" => tx[r].rows[e].status = "posted"
        /\ job[r].op = "void" => tx[r].rows[e].status = "void"

\* What a request has found of its entry is still so.
Seen(r) ==
    /\ HasRead(r) => entry[job[r].entry].status # "absent"
    /\ HasRead(r) /\ job[r].op \in {"void", "correct"} => entry[job[r].entry].status \in Final
    /\ HasRead(r) /\ job[r].op = "edit" => \A k \in corr : job[r].entry # k.counter

Unsealed(row) == row.status \in Final /\ row.hash = Null

AppendAhead(r, e) ==
    \/ Ahead(r, "append") /\ (job[r].op = "correct" => e = job[r].counter)
    \/ Ahead(r, "appendLast") /\ e = job[r].replacement

\* A row without a seal had none before, or is about to get it.
ToSeal(r) ==
    \A e \in Entries : tx[r].rows[e] # Null /\ Unsealed(tx[r].rows[e]) =>
        \/ Unsealed(entry[e]) /\ tx[r].rows[e].status \in {entry[e].status, "void"}
        \/ tx[r].rows[e].status = "posted" /\ AppendAhead(r, e)

\* A new key is locked, and in no committed row.
KeyPending(r) ==
    \A e \in Entries : tx[r].rows[e] # Null =>
        /\ entry[e].status # "absent" => tx[r].rows[e].use = entry[e].use
        /\ entry[e].status = "absent" /\ tx[r].rows[e].use # Null =>
             /\ e = job[r].entry
             /\ holder[<<"key", tx[r].rows[e].use.key>>] = r
             /\ \A f \in Entries :
                  entry[f].use # Null => entry[f].use.key # tx[r].rows[e].use.key
        /\ job[r].op = "create" => tx[r].rows[e].use = KeyUse(r)

Tails == IF AuditTails = {} THEN {Null} ELSE {a.by : a \in AuditTails}

\* The audit row of r follows the tail, which is locked.
AuditPending(r) ==
    /\ Writing(r) /\ job[r].op = "post" /\ ~Ahead(r, "audit") => tx[r].audit # {}
    /\ tx[r].audit # {} => /\ holder[<<"audit">>] = r
                           /\ \E p \in Tails : tx[r].audit = {[by |-> r, prev |-> p]}

LinkOf(r) == [original |-> job[r].entry, counter |-> job[r].counter,
              replacement |-> job[r].replacement]

\* The first correction of its original, and the only one.
LinkPending(r) ==
    tx[r].corr # {} => /\ job[r].op = "correct" /\ tx[r].corr = {LinkOf(r)}
                       /\ holder[<<"corr", job[r].entry>>] = r
                       /\ \A k \in corr : k.original # job[r].entry

\* The two entries of a correction, as far as they have been sealed.
PairPending(r) ==
    job[r].op = "correct" /\ Writing(r) =>
        LET c == tx[r].rows[job[r].counter]
            p == tx[r].rows[job[r].replacement]
        IN  /\ job[r].counter # job[r].replacement
            /\ c # Null /\ p # Null
            /\ c.content = Reversal[pre[r]]
            /\ ~Ahead(r, "append") => c.hash # Null
            /\ ~Ahead(r, "append") /\ Ahead(r, "appendLast") =>
                 tx[r].head # Null /\ tx[r].head.hash = c.hash
            /\ ~Ahead(r, "appendLast") => p.hash # Null /\ p.prev = c.hash
            /\ ~Ahead(r, "link") => tx[r].corr # {}

\* What a correction reverses is what its original says.
Reversed(r) ==
    job[r].op = "correct" /\ Runs(r) /\ ~Ahead(r, "reread") /\ Unedited(job[r].entry) =>
        pre[r] = entry[job[r].entry].content

\* A bank flow links the entry it creates, a match one that it found.
LinkedPending(r) ==
    tx[r].linked # {} => /\ job[r].op \in {"bank", "match"} /\ tx[r].linked = {job[r].entry}
                         /\ job[r].op = "bank" => /\ tx[r].rows[job[r].entry] # Null
                                                 /\ tx[r].rows[job[r].entry].status = "posted"

PostedBy(e) == {a \in audit : job[a.by].op = "post" /\ job[a.by].entry = e}

\* A post seals an entry nobody has sealed, and leaves its audit row.
PostPending(r) ==
    job[r].op = "post" =>
        /\ Writing(r) => /\ tx[r].rows[job[r].entry] # Null
                         /\ ~Ahead(r, "append") => /\ tx[r].rows[job[r].entry].hash # Null
                                                   /\ entry[job[r].entry].hash = Null
        /\ HasRead(r) => entry[job[r].entry].status = "draft" \/ PostedBy(job[r].entry) # {}
        /\ res[r] = "ok" => /\ PostedBy(job[r].entry) # {}
                            /\ entry[job[r].entry].status \in Final

\* A transaction that writes has written its entry, and a create that is answered
\* with an entry has one with its key and its request.
Served(r) ==
    /\ job[r].op \notin {"correct", "match"} /\ Writing(r) => tx[r].rows[job[r].entry] # Null
    /\ job[r].op = "create" /\ job[r].key # Null /\ res[r] \in {"ok", "replayed"} =>
        \E e \in Entries : entry[e].use = KeyUse(r)

\* All of it.
Record(r) ==
    /\ InOrder(todo[r], job[r])
    /\ Writing(r) \/ tx[r] = NoTx
    /\ OwnRows(r) /\ Seen(r) /\ ToSeal(r) /\ KeyPending(r) /\ AuditPending(r)
    /\ LinkPending(r) /\ PairPending(r) /\ Reversed(r) /\ LinkedPending(r)
    /\ PostPending(r) /\ Served(r)

\* What the committed rows say of each other.
KeysStand ==
    /\ \A e \in Entries : entry[e].status = "absent" => entry[e].use = Null
    /\ \A e, f \in Entries :
         entry[e].use # Null /\ entry[f].use # Null /\ entry[e].use.key = entry[f].use.key
             => e = f

AuditStands ==
    /\ AuditIsLinear /\ IsFiniteSet(audit)
    /\ \A a \in audit : ~Runs(a.by)

PostsStand ==
    \A e \in Entries :
        /\ \A a, b \in PostedBy(e) : a = b
        /\ PostedBy(e) # {} => entry[e].hash # Null

RecordInv ==
    /\ \A r \in Requests : Record(r)
    /\ KeysStand /\ AuditStands /\ PostsStand
    /\ CorrectionsAreWhole
    /\ \A k \in corr : entry[k.original].status \in Final

\* A chain with a v2 root leaves no posted entry unsealed, in any transaction.
Rooted(rows) == \E f \in Sealed(rows) : rows[f].prev = Null /\ rows[f].hash.ver = "v2"

Open(rows) == {e \in Entries : rows[e].status = "posted" /\ rows[e].hash = Null}

RootInv ==
    /\ Rooted(entry) => Open(entry) = {}
    /\ \A r \in Requests : Rooted(View(r)) => Open(entry) \intersect Open(View(r)) = {}

-----------------------------------------------------------------------------
(* Handlers as sequences. *)

\* The kinds of statements, and what each handler is made of.
LEMMA LabelSets ==
    /\ Writes \subseteq Labels /\ Fills \subseteq Labels /\ "commit" \in Labels
    /\ \A s \in Labels : s \in Before \/ s \in Writes \/ s \in Fills \/ s = "commit"
    /\ \A op \in Ops : StatementsOf(op) \subseteq Labels
    /\ \A s : After(s) \subseteq Labels
  BY DEF Writes, Fills, Before, Labels, InTransaction, StatementsOf, After

\* What is still to come after a statement was to come before it.
LEMMA TailHas ==
    ASSUME NEW t \in Seq(Labels), t # <<>>
    PROVE  /\ Tail(t) \in Seq(Labels) /\ Head(t) \in Labels
           /\ \A s : Has(Tail(t), s) => Has(t, s)
           /\ \A s : Has(t, s) => s = Head(t) \/ Has(Tail(t), s)
           /\ Has(t, Head(t))
<1>1. /\ Tail(t) \in Seq(Labels) /\ Head(t) = t[1] /\ Len(t) \in Nat /\ Len(t) >= 1
      /\ Len(Tail(t)) = Len(t) - 1
      /\ \A i \in 1..Len(Tail(t)) : Tail(t)[i] = t[i + 1]
      /\ Head(t) \in Labels
  OBVIOUS
<1>2. ASSUME NEW s, Has(Tail(t), s) PROVE Has(t, s)
  <2>1. PICK i \in 1..Len(Tail(t)) : Tail(t)[i] = s
    BY <1>2 DEF Has
  <2>2. i + 1 \in 1..Len(t) /\ t[i + 1] = s
    BY <1>1, <2>1
  <2>3. QED  BY <2>2 DEF Has
<1>3. ASSUME NEW s, Has(t, s) PROVE s = Head(t) \/ Has(Tail(t), s)
  <2>1. PICK i \in 1..Len(t) : t[i] = s
    BY <1>3 DEF Has
  <2>2. CASE i = 1
    BY <1>1, <2>1, <2>2
  <2>3. CASE i # 1
    <3>1. i - 1 \in 1..Len(Tail(t)) /\ Tail(t)[i - 1] = s
      BY <1>1, <2>1, <2>3
    <3>2. QED  BY <3>1 DEF Has
  <2>4. QED  BY <2>2, <2>3
<1>4. Has(t, Head(t))
  BY <1>1 DEF Has
<1>5. QED  BY <1>1, <1>2, <1>3, <1>4

\* The rest of a handler is in order after each of its statements.
LEMMA TailInOrder ==
    ASSUME NEW t \in Seq(Labels), t # <<>>, NEW j, InOrder(t, j)
    PROVE  /\ InOrder(Tail(t), j)
           /\ Head(t) \in StatementsOf(j.op)
           /\ \A s : Has(Tail(t), s) => s \in After(Head(t)) /\ s \in StatementsOf(j.op)
           /\ Head(t) \in Writes \union Fills => Has(Tail(t), "commit")
           /\ Head(t) \in Before /\ Has(t, "commit") => \E w \in Writes : Has(Tail(t), w)
<1>1. /\ Tail(t) \in Seq(Labels) /\ Head(t) = t[1] /\ Len(t) \in Nat /\ Len(t) >= 1
      /\ Len(Tail(t)) = Len(t) - 1
      /\ \A i \in 1..Len(Tail(t)) : Tail(t)[i] = t[i + 1] /\ i + 1 \in 1..Len(t)
      /\ \A i \in 2..Len(t) : Tail(t)[i - 1] = t[i] /\ i - 1 \in 1..Len(Tail(t))
  OBVIOUS
<1>2. /\ 1 \in 1..Len(t) /\ t[1] \in StatementsOf(j.op)
      /\ \A k \in 2..Len(t) : t[k] \in After(t[1])
      /\ t[1] \in Writes \union Fills => Has(t, "commit")
      /\ t[1] \in Before /\ Has(t, "commit") => \E k \in 2..Len(t) : t[k] \in Writes
  BY <1>1 DEF InOrder
<1>3. ASSUME NEW s, Has(Tail(t), s) PROVE s \in After(Head(t)) /\ s \in StatementsOf(j.op)
  <2>1. PICK i \in 1..Len(Tail(t)) : Tail(t)[i] = s
    BY <1>3 DEF Has
  <2>2. i + 1 \in 2..Len(t) /\ i + 1 \in 1..Len(t) /\ t[i + 1] = s
    BY <1>1, <2>1
  <2>3. QED  BY <1>1, <1>2, <2>2 DEF InOrder
<1>4. Head(t) \in Writes \union Fills => Has(Tail(t), "commit")
  <2>1. "commit" \notin Writes \union Fills
    BY DEF Writes, Fills
  <2>2. QED  BY <1>1, <1>2, <2>1, TailHas
<1>5. Head(t) \in Before /\ Has(t, "commit") => \E w \in Writes : Has(Tail(t), w)
  <2>1. SUFFICES ASSUME Head(t) \in Before, Has(t, "commit")
                 PROVE  \E w \in Writes : Has(Tail(t), w)
    OBVIOUS
  <2>2. PICK k \in 2..Len(t) : t[k] \in Writes
    BY <1>1, <1>2, <2>1
  <2>3. Has(Tail(t), t[k])
    BY <1>1 DEF Has
  <2>4. QED  BY <2>2, <2>3
<1>6. InOrder(Tail(t), j)
  <2>1. SUFFICES ASSUME NEW i \in 1..Len(Tail(t))
                 PROVE  /\ Tail(t)[i] \in StatementsOf(j.op)
                        /\ \A k \in (i + 1)..Len(Tail(t)) : Tail(t)[k] \in After(Tail(t)[i])
                        /\ Tail(t)[i] \in Writes \union Fills => Has(Tail(t), "commit")
                        /\ Tail(t)[i] \in Before /\ Has(Tail(t), "commit") =>
                             \E k \in (i + 1)..Len(Tail(t)) : Tail(t)[k] \in Writes
                        /\ Tail(t)[i] = "read" /\ j.op \in {"void", "correct"} =>
                             Has(Tail(t), "linkCheck")
                        /\ Tail(t)[i] = "read" /\ j.op = "correct" => Has(Tail(t), "reread")
                        /\ Tail(t)[i] = "append" /\ j.op = "correct" =>
                             Has(Tail(t), "appendLast")
                        /\ Tail(t)[i] \in Writes => \A s \in Needed(j) : Has(Tail(t), s)
    BY DEF InOrder
  <2>2. /\ Tail(t)[i] = t[i + 1] /\ i + 1 \in 1..Len(t) /\ i \in Nat
        /\ \A k \in (i + 1)..Len(Tail(t)) :
             Tail(t)[k] = t[k + 1] /\ k + 1 \in ((i + 1) + 1)..Len(t)
        /\ \A k \in ((i + 1) + 1)..Len(t) :
             Tail(t)[k - 1] = t[k] /\ k - 1 \in (i + 1)..Len(Tail(t))
    BY <1>1
  <2>3. /\ t[i + 1] \in StatementsOf(j.op)
        /\ \A k \in ((i + 1) + 1)..Len(t) : t[k] \in After(t[i + 1])
        /\ t[i + 1] \in Writes \union Fills => Has(t, "commit")
        /\ t[i + 1] \in Before /\ Has(t, "commit") =>
             \E k \in ((i + 1) + 1)..Len(t) : t[k] \in Writes
        /\ t[i + 1] = "read" /\ j.op \in {"void", "correct"} => Has(t, "linkCheck")
        /\ t[i + 1] = "read" /\ j.op = "correct" => Has(t, "reread")
        /\ t[i + 1] = "append" /\ j.op = "correct" => Has(t, "appendLast")
        /\ t[i + 1] \in Writes => \A s \in Needed(j) : Has(t, s)
        /\ t[i + 1] \in After(t[1])
    BY <1>1, <2>2 DEF InOrder
  <2>4. Tail(t)[i] \in Writes \union Fills => Has(Tail(t), "commit")
    <3>1. SUFFICES ASSUME Tail(t)[i] \in Writes \union Fills, ~Has(Tail(t), "commit")
                   PROVE  FALSE
      OBVIOUS
    <3>2. Has(t, "commit") /\ Head(t) = "commit"
      BY <2>2, <2>3, <3>1, TailHas
    <3>3. t[i + 1] \in After("commit")
      BY <1>1, <1>2, <2>2, <3>2
    <3>4. QED  BY <3>3 DEF After, Writes, Fills
  <2>5. /\ Tail(t)[i] = "read" /\ j.op \in {"void", "correct"} => Has(Tail(t), "linkCheck")
        /\ Tail(t)[i] = "read" /\ j.op = "correct" => Has(Tail(t), "reread")
    <3>1. "read" \notin After("linkCheck") /\ "read" \notin After("reread")
      BY DEF After, Writes, Fills
    <3>2. QED  BY <1>1, <2>2, <2>3, <3>1, TailHas
  <2>6. Tail(t)[i] \in Writes => \A s \in Needed(j) : Has(Tail(t), s)
    <3>1. ASSUME NEW s \in Needed(j), Tail(t)[i] \in Writes PROVE Has(Tail(t), s)
      <4>1. Has(t, s) /\ t[i + 1] \in After(t[1]) /\ t[i + 1] \in Writes
        BY <2>2, <2>3, <3>1
      <4>2. s \in Fills
        BY <3>1 DEF Needed, Fills
      <4>3. t[1] # s
        BY <4>1, <4>2 DEF After, Fills, Writes
      <4>4. QED  BY <1>1, <4>1, <4>3, TailHas
    <3>2. QED  BY <3>1
  <2>7. Tail(t)[i] = "append" /\ j.op = "correct" => Has(Tail(t), "appendLast")
    <3>1. "append" \notin After("appendLast")
      BY DEF After, Writes, Fills
    <3>2. QED  BY <1>1, <2>2, <2>3, <3>1, TailHas
  <2>8. QED  BY <2>2, <2>3, <2>4, <2>5, <2>6, <2>7, TailHas
<1>7. QED  BY <1>1, <1>2, <1>3, <1>4, <1>5, <1>6

\* Going on to the next statement.
LEMMA Onward ==
    ASSUME Typed, NEW r \in Requests, NEW s, At(r, s), Advance(r),
           InOrder(todo[r], job[r]), job' = job
    PROVE  /\ InOrder(todo[r], job[r])'
           /\ s \in StatementsOf(job[r].op) /\ s \in Labels /\ Ahead(r, s) /\ Runs(r)
           /\ \A x : Ahead(r, x)' => Ahead(r, x) /\ x \in After(s) /\ x \in StatementsOf(job[r].op)
           /\ \A x : Ahead(r, x) => x = s \/ Ahead(r, x)'
           /\ s \in Writes \union Fills => Ahead(r, "commit")'
           /\ s \in Before /\ Ahead(r, "commit") => \E w \in Writes : Ahead(r, w)'
           /\ \A q \in Requests \ {r} : todo'[q] = todo[q]
<1>1. /\ todo[r] \in Seq(Labels) /\ todo[r] # <<>> /\ Head(todo[r]) = s /\ job[r].op \in Ops
      /\ todo'[r] = Tail(todo[r])
  BY JobType DEF Typed, At, Advance
<1>2. QED  BY <1>1, TailHas, TailInOrder DEF Ahead, Runs, At, Advance, Typed

\* Every handler begins with its statements in order.
LEMMA ScriptInOrder ==
    ASSUME NEW j \in JobSet
    PROVE  InOrder(Script(j), j)
<1> USE DEF Needed, InOrder, Has, StatementsOf, After, Writes, Fills, Before, Labels, InTransaction
<1>1. CASE j.op = "create"
  <2>1. CASE j.posted
    BY <1>1, <2>1 DEF Script
  <2>2. CASE ~j.posted
    BY <1>1, <2>2 DEF Script
  <2>3. QED  BY <2>1, <2>2
<1>2. CASE j.op = "edit"
  BY <1>2 DEF Script
<1>3. CASE j.op = "post"
  BY <1>3 DEF Script
<1>4. CASE j.op = "void"
  BY <1>4 DEF Script
<1>5. CASE j.op = "correct"
  BY <1>5 DEF Script
<1>6. CASE j.op = "bank"
  BY <1>6 DEF Script
<1>7. CASE j.op = "match"
  BY <1>7 DEF Script
<1>8. CASE j.op = "lock"
  BY <1>8 DEF Script
<1>9. QED  BY <1>1, <1>2, <1>3, <1>4, <1>5, <1>6, <1>7, <1>8 DEF JobSet, Ops

-----------------------------------------------------------------------------
(* What every kind of step leaves alone. *)

\* The rows a transaction writes are rows, its keys keys that can be locked.
LEMMA RowsOf ==
    ASSUME Typed, NEW r \in Requests, NEW e \in Entries
    PROVE  /\ entry[e] \in Rows /\ entry[e].status \in Statuses
           /\ tx[r].rows[e] \in Rows \union {Null}
           /\ entry[e].use # Null => /\ entry[e].use \in KeyUses /\ entry[e].use.key \in Keys
                                     /\ <<"key", entry[e].use.key>> \in Resources
           /\ tx[r].rows[e] # Null =>
                /\ tx[r].rows[e] \in Rows /\ tx[r].rows[e].status \in Statuses
                /\ tx[r].rows[e].use # Null =>
                     /\ tx[r].rows[e].use \in KeyUses /\ tx[r].rows[e].use.key \in Keys
                     /\ <<"key", tx[r].rows[e].use.key>> \in Resources
  BY JobType, TxFields DEF Typed, Rows, KeyUses, Resources

\* The locks that are always there.
LEMMA MoreLocks ==
    /\ <<"audit">> \in Resources
    /\ \A e \in Entries : <<"corr", e>> \in Resources
  BY DEF Resources

Committed == <<entry, corr, linked, audit, job>>

\* Other requests are where they were after any step that is not a commit.
LEMMA OthersStand ==
    ASSUME Typed, NEW q \in Requests, Record(q), UNCHANGED Committed,
           tx'[q] = tx[q], todo'[q] = todo[q], pre'[q] = pre[q], res'[q] = res[q],
           \A x \in Resources : holder[x] = q => holder'[x] = q
    PROVE  Record(q)'
<1>1. /\ \A s : Ahead(q, s)' = Ahead(q, s)
      /\ Runs(q)' = Runs(q) /\ Created(q)' = Created(q)
      /\ LinkOf(q)' = LinkOf(q) /\ KeyUse(q)' = KeyUse(q)
      /\ AuditTails' = AuditTails
      /\ \A e : PostedBy(e)' = PostedBy(e)
      /\ \A e : Unedited(e)' = Unedited(e)
  BY DEF Committed, Ahead, Runs, Created, LinkOf, KeyUse, AuditTails, PostedBy, Unedited
<1>2. /\ Writing(q)' = Writing(q) /\ HasRead(q)' = HasRead(q)
      /\ Targets(q)' = Targets(q) /\ Tails' = Tails
      /\ \A e : AppendAhead(q, e)' = AppendAhead(q, e)
  BY <1>1 DEF Committed, Writing, HasRead, Targets, Tails, AppendAhead
<1>3. /\ InOrder(todo[q], job[q])' /\ (Writing(q) \/ tx[q] = NoTx)'
  BY <1>1, <1>2 DEF Record, Committed
<1>4. OwnRows(q)'
  BY <1>1, <1>2 DEF Record, Committed, OwnRows
<1>5. Seen(q)'
  BY <1>1, <1>2 DEF Record, Committed, Seen
<1>6. ToSeal(q)'
  BY <1>1, <1>2 DEF Record, Committed, ToSeal
<1>7. KeyPending(q)'
  BY ZenonT(30), <1>1, <1>2, RowsOf DEF Record, Committed, KeyPending
<1>8. AuditPending(q)' /\ LinkPending(q)'
  BY <1>1, <1>2, MoreLocks, JobType DEF Record, Committed, AuditPending, LinkPending
<1>9. PairPending(q)' /\ Reversed(q)' /\ LinkedPending(q)'
  BY <1>1, <1>2 DEF Record, Committed, PairPending, Reversed, LinkedPending
<1>10. PostPending(q)' /\ Served(q)'
  BY <1>1, <1>2 DEF Record, Committed, PostPending, Served
<1>11. QED  BY <1>3, <1>4, <1>5, <1>6, <1>7, <1>8, <1>9, <1>10 DEF Record

\* A transaction that wrote nothing has nothing pending.
LEMMA Blank ==
    /\ NoTx.head = Null /\ \A e \in Entries : NoTx.rows[e] = Null
    /\ NoTx.audit = {} /\ NoTx.corr = {} /\ NoTx.linked = {}
  BY DEF NoTx

\* A request that has written nothing holds what is said of its writes.
LEMMA BlankStands ==
    ASSUME NEW r \in Requests, tx[r] = NoTx, ~Writing(r)
    PROVE  /\ OwnRows(r) /\ ToSeal(r) /\ KeyPending(r) /\ AuditPending(r) /\ LinkPending(r)
           /\ PairPending(r) /\ LinkedPending(r)
  BY Blank DEF OwnRows, ToSeal, KeyPending, AuditPending, LinkPending, PairPending, LinkedPending

\* A step of r that commits nothing keeps all if it keeps what is said of r.
LEMMA StepStands ==
    ASSUME Typed, RecordInv, NEW r \in Requests, Runs(r), UNCHANGED Committed, Record(r)',
           \A q \in Requests \ {r} :
               /\ tx'[q] = tx[q] /\ todo'[q] = todo[q] /\ pre'[q] = pre[q] /\ res'[q] = res[q]
               /\ \A x \in Resources : holder[x] = q => holder'[x] = q
    PROVE  RecordInv'
<1>1. \A q \in Requests : Record(q)'
  <2>1. ASSUME NEW q \in Requests, q # r PROVE Record(q)'
    BY <2>1, OthersStand DEF RecordInv
  <2>2. QED  BY <2>1
<1>2. KeysStand' /\ PostsStand'
  BY DEF RecordInv, Committed, KeysStand, PostsStand, PostedBy
<1>3. AuditStands'
  <2>1. \A a \in audit : a.by # r /\ a.by \in Requests
    BY DEF RecordInv, AuditStands, Typed, AuditRows
  <2>2. AuditIsLinear'
    BY DEF RecordInv, AuditStands, AuditIsLinear, AuditTails, Committed
  <2>3. QED  BY <2>1, <2>2 DEF RecordInv, AuditStands, Committed, Runs
<1>4. CorrectionsAreWhole'
  BY DEF RecordInv, Committed, CorrectionsAreWhole, Unedited
<1>5. QED  BY <1>1, <1>2, <1>3, <1>4 DEF RecordInv, Committed

\* Before it writes, a handler has nothing pending.
LEMMA NotYet ==
    ASSUME Typed, NEW r \in Requests, Record(r), NEW s \in Before, At(r, s)
    PROVE  /\ tx[r] = NoTx /\ ~Writing(r) /\ Runs(r) /\ Ahead(r, s)
           /\ s \in StatementsOf(job[r].op)
<1>1. /\ todo[r] \in Seq(Labels) /\ Head(todo[r]) = s /\ todo[r] # <<>> /\ job[r].op \in Ops
  BY JobType DEF Typed, At
<1>2. Ahead(r, s) /\ s \in StatementsOf(job[r].op)
  BY <1>1, TailHas, TailInOrder DEF Ahead, Record
<1>3. QED  BY <1>1, <1>2 DEF Writing, Before, Record, Runs

\* The rests a rollback leaves.
LEMMA ShortOrder ==
    /\ \A j : InOrder(<<>>, j)
    /\ \A j : j.op = "create" => InOrder(<<"winner">>, j)
    /\ \A j : j.op = "post" => InOrder(<<"certify">>, j)
    /\ \A s : ~Has(<<>>, s)
    /\ \A s, x : Has(<<x>>, s) <=> s = x
  BY DEF InOrder, Has, StatementsOf, After, Writes, Fills, Before

\* A rollback.
LEMMA AbortStands ==
    ASSUME Typed, RecordInv, NEW r \in Requests, Runs(r), NEW rest, Abort(r, rest),
           \/ rest = <<>>
           \/ rest = <<"winner">> /\ job[r].op = "create"
           \/ rest = <<"certify">> /\ job[r].op = "post" /\ HasRead(r)
    PROVE  RecordInv'
<1>1. /\ UNCHANGED Committed /\ tx'[r] = NoTx /\ todo'[r] = rest /\ pre' = pre
      /\ res'[r] = IF rest = <<>> THEN "failed" ELSE res[r]
      /\ \A q \in Requests \ {r} : tx'[q] = tx[q] /\ todo'[q] = todo[q] /\ res'[q] = res[q]
      /\ job' = job
  BY DEF Abort, Typed, db, Committed
<1>2. Record(r)
  BY DEF RecordInv
<1>3. /\ InOrder(todo[r], job[r])' /\ ~Ahead(r, "commit")'
      /\ Runs(r)' => \/ job[r].op = "create"
                     \/ job[r].op = "post" /\ HasRead(r)
  BY <1>1, ShortOrder DEF Ahead, Runs
<1>4. ~Writing(r)'
  BY <1>3 DEF Writing
<1>5. /\ OwnRows(r)' /\ ToSeal(r)' /\ KeyPending(r)' /\ AuditPending(r)' /\ LinkPending(r)'
      /\ PairPending(r)' /\ LinkedPending(r)'
  BY <1>1, <1>4, Blank DEF OwnRows, ToSeal, KeyPending, AuditPending, LinkPending, PairPending,
     LinkedPending
<1>6. Seen(r)' /\ Reversed(r)'
  BY <1>1, <1>2, <1>3 DEF Seen, Reversed, HasRead, Committed, Record
<1>7. PostPending(r)' /\ Served(r)'
  <2>1. \A e : PostedBy(e)' = PostedBy(e)
    BY <1>1 DEF PostedBy, Committed
  <2>2. KeyUse(r)' = KeyUse(r)
    BY <1>1 DEF KeyUse
  <2>3. QED  BY <1>1, <1>2, <1>3, <1>4, <2>1, <2>2 DEF PostPending, Served, HasRead, Committed, Record
<1>8. Record(r)'
  BY <1>1, <1>3, <1>5, <1>6, <1>7 DEF Record
<1>9. \A q \in Requests \ {r} : \A x \in Resources : holder[x] = q => holder'[x] = q
  BY ReleaseHolds DEF Abort
<1>10. QED  BY <1>1, <1>8, <1>9, StepStands

\* An answer given before anything is written.
LEMMA AnswerStands ==
    ASSUME Typed, RecordInv, NEW r \in Requests, NEW s \in Before, At(r, s), NEW a, Answer(r, a),
           UNCHANGED <<Committed, holder, tx, pre>>,
           job[r].op = "post" /\ a = "ok" =>
               PostedBy(job[r].entry) # {} /\ entry[job[r].entry].status \in Final,
           job[r].op = "create" /\ job[r].key # Null /\ a \in {"ok", "replayed"} =>
               \E e \in Entries : entry[e].use = KeyUse(r)
    PROVE  RecordInv'
<1>1. /\ UNCHANGED Committed /\ tx' = tx /\ todo'[r] = <<>> /\ pre' = pre /\ res'[r] = a
      /\ \A q \in Requests \ {r} : todo'[q] = todo[q] /\ res'[q] = res[q]
      /\ job' = job /\ holder' = holder
  BY DEF Answer, Typed, Committed
<1>2. Record(r) /\ tx[r] = NoTx /\ Runs(r)
  BY NotYet DEF RecordInv
<1>3. InOrder(todo[r], job[r])' /\ ~Ahead(r, "commit")' /\ ~Runs(r)'
  BY <1>1, ShortOrder DEF Ahead, Runs
<1>4. ~Writing(r)'
  BY <1>3 DEF Writing
<1>5. /\ OwnRows(r)' /\ ToSeal(r)' /\ KeyPending(r)' /\ AuditPending(r)' /\ LinkPending(r)'
      /\ PairPending(r)' /\ LinkedPending(r)'
  BY <1>1, <1>2, <1>4, Blank DEF OwnRows, ToSeal, KeyPending, AuditPending, LinkPending,
     PairPending, LinkedPending
<1>6. Seen(r)' /\ Reversed(r)'
  BY <1>3 DEF Seen, Reversed, HasRead
<1>7. PostPending(r)' /\ Served(r)'
  <2>1. \A e : PostedBy(e)' = PostedBy(e)
    BY <1>1 DEF PostedBy, Committed
  <2>2. KeyUse(r)' = KeyUse(r)
    BY <1>1 DEF KeyUse
  <2>3. QED  BY <1>1, <1>3, <1>4, <2>1, <2>2 DEF PostPending, Served, HasRead, Committed
<1>8. Record(r)'
  BY <1>1, <1>2, <1>3, <1>5, <1>6, <1>7 DEF Record
<1>9. QED  BY <1>1, <1>2, <1>8, StepStands

\* A statement that only reads; what read, linkCheck and reread find is given.
LEMMA PassStands ==
    ASSUME Typed, RecordInv, NEW r \in Requests, NEW s \in Before, At(r, s), Advance(r),
           UNCHANGED <<db, holder, tx, job, res>>,
           \A q \in Requests \ {r} : pre'[q] = pre[q],
           s \in {"read", "linkCheck"} => Seen(r)',
           s \in {"read", "reread"} \/ pre' = pre,
           s \in {"read", "reread"} /\ job[r].op = "correct" =>
               pre'[r] = entry[job[r].entry].content,
           s = "read" /\ job[r].op = "post" => entry[job[r].entry].status = "draft"
    PROVE  RecordInv'
<1>1. /\ UNCHANGED Committed /\ tx' = tx /\ res' = res /\ job' = job /\ holder' = holder
  BY DEF db, Committed
<1>2. /\ Record(r) /\ tx[r] = NoTx /\ Runs(r) /\ ~Writing(r) /\ s \in StatementsOf(job[r].op)
  BY NotYet DEF RecordInv
<1>3. /\ InOrder(todo[r], job[r])'
      /\ \A x : Ahead(r, x)' => Ahead(r, x) /\ x \in After(s)
      /\ \A x : Ahead(r, x) => x = s \/ Ahead(r, x)'
      /\ Ahead(r, "commit") => \E w \in Writes : Ahead(r, w)'
      /\ \A q \in Requests \ {r} : todo'[q] = todo[q]
  BY <1>1, <1>2, Onward DEF Record
<1>4. ~Writing(r)'
  BY <1>3, LabelSets DEF Writing, Writes, Fills
<1>5. /\ OwnRows(r)' /\ ToSeal(r)' /\ KeyPending(r)' /\ AuditPending(r)' /\ LinkPending(r)'
      /\ PairPending(r)' /\ LinkedPending(r)'
  BY <1>1, <1>2, <1>4, Blank DEF OwnRows, ToSeal, KeyPending, AuditPending, LinkPending,
     PairPending, LinkedPending
<1>6. Seen(r)'
  <2>1. SUFFICES ASSUME s \notin {"read", "linkCheck"} PROVE Seen(r)'
    OBVIOUS
  <2>2. HasRead(r)' => HasRead(r)
    BY <1>1, <1>2, <1>3, <2>1 DEF HasRead
  <2>3. QED  BY <1>1, <1>2, <2>2 DEF Seen, Committed, Record
<1>7. Reversed(r)'
  <2>1. SUFFICES ASSUME job[r].op = "correct", ~Ahead(r, "reread")', Unedited(job[r].entry)
                 PROVE  pre'[r] = entry[job[r].entry].content
    BY <1>1 DEF Reversed, Committed, Unedited
  <2>2. CASE s \in {"read", "reread"}
    BY <2>1, <2>2
  <2>3. CASE s \notin {"read", "reread"}
    <3>1. ~Ahead(r, "reread") /\ pre' = pre
      BY <1>3, <2>1, <2>3
    <3>2. QED  BY <1>2, <2>1, <3>1 DEF Reversed, Record
  <2>4. QED  BY <2>2, <2>3
<1>8. PostPending(r)' /\ Served(r)'
  <2>1. \A e : PostedBy(e)' = PostedBy(e)
    BY <1>1 DEF PostedBy, Committed
  <2>2. KeyUse(r)' = KeyUse(r)
    BY <1>1 DEF KeyUse
  <2>3. s # "read" => (HasRead(r)' => HasRead(r))
    BY <1>1, <1>2, <1>3 DEF HasRead
  <2>4. QED  BY <1>1, <1>2, <1>4, <2>1, <2>2, <2>3 DEF PostPending, Served, Committed, Record
<1>9. Record(r)'
  BY <1>1, <1>2, <1>3, <1>5, <1>6, <1>7, <1>8 DEF Record
<1>10. QED  BY <1>1, <1>2, <1>3, <1>9, StepStands

-----------------------------------------------------------------------------
(* The steps that write nothing. *)

\* Where a handler stands, from its next statement.
LEMMA Coming ==
    ASSUME Typed, NEW r \in Requests, NEW s, At(r, s), InOrder(todo[r], job[r])
    PROVE  /\ Runs(r) /\ Ahead(r, s) /\ s \in Labels /\ s \in StatementsOf(job[r].op)
           /\ \A x : Ahead(r, x) => x = s \/ x \in After(s)
           /\ s \in Writes \union Fills => Ahead(r, "commit")
<1>1. /\ todo[r] \in Seq(Labels) /\ todo[r] # <<>> /\ Head(todo[r]) = s /\ job[r].op \in Ops
  BY JobType DEF Typed, At
<1>2. QED  BY <1>1, TailHas, TailInOrder DEF Ahead, Runs

\* An entry with the key, the lines and the state of r was made for its request.
LEMMA SameUse ==
    ASSUME Typed, NEW r \in Requests, job[r].key # Null, NEW e \in Entries, entry[e].use # Null,
           entry[e].use.key = job[r].key, entry[e].use.content = job[r].content,
           entry[e].use.posted = job[r].posted
    PROVE  entry[e].use = KeyUse(r)
<1>1. entry[e].use \in KeyUses
  BY RowsOf
<1>2. QED  BY <1>1 DEF KeyUse, KeyUses

\* Looking a key up, before and after an insertion that was refused.
LEMMA LookupStands ==
    ASSUME Typed, RecordInv, NEW r \in Requests, Lookup(r) \/ Winner(r)
    PROVE  RecordInv'
<1>1. PICK s \in {"lookup", "winner"} : At(r, s)
  BY DEF Lookup, Winner
<1>2. s \in Before /\ Record(r) /\ UNCHANGED <<db, holder, tx, job, mem>>
  BY DEF RecordInv, Before, Labels, InTransaction, Writes, Fills, Lookup, Winner
<1>3. job[r].op = "create"
  BY <1>1, <1>2, NotYet, JobType DEF StatementsOf, Ops
<1>4. CASE Advance(r) /\ res' = res
  BY <1>1, <1>2, <1>3, <1>4, PassStands DEF mem
<1>5. CASE ~(Advance(r) /\ res' = res)
  <2>1. PICK e \in Entries, a \in {"replayed", "conflict"} :
           /\ entry[e].use # Null /\ entry[e].use.key = job[r].key /\ Answer(r, a)
           /\ a = "replayed" => /\ entry[e].use.content = job[r].content
                                /\ entry[e].use.posted = job[r].posted
    BY <1>5 DEF Lookup, Winner
  <2>2. job[r].key # Null /\ a = "replayed" => entry[e].use = KeyUse(r)
    BY <2>1, SameUse
  <2>3. UNCHANGED <<Committed, holder, tx, pre>>
    BY <1>2 DEF db, mem, Committed
  <2>4. QED  BY <1>1, <1>2, <1>3, <2>1, <2>2, <2>3, AnswerStands
<1>6. QED  BY <1>4, <1>5

\* The read of the entry, with the test of its status.
LEMMA ReadStands ==
    ASSUME Typed, RecordInv, ChainInv, NEW r \in Requests, Read(r)
    PROVE  RecordInv'
<1>1. /\ At(r, "read") /\ "read" \in Before /\ Record(r)
      /\ UNCHANGED <<db, holder, tx, job, sum>>
  BY DEF RecordInv, Before, Labels, InTransaction, Writes, Fills, Read
<1>2. job[r].op \in {"edit", "post", "void", "correct", "match"}
  BY <1>1, NotYet, JobType DEF StatementsOf, Ops
<1> DEFINE row == entry[job[r].entry]
<1>3. CASE row.status = Required(job[r].op)
  <2>1. /\ Advance(r) /\ res' = res /\ pre' = [pre EXCEPT ![r] = row.content]
    BY <1>3 DEF Read
  <2>2. row.status \in {"draft", "posted"} /\ (job[r].op = "post" => row.status = "draft")
        /\ (job[r].op = "edit" => row.status = "draft")
        /\ (job[r].op \in {"void", "correct"} => row.status \in Final)
    BY <1>2, <1>3 DEF Required, Final
  <2>3. \A k \in corr : entry[k.counter].status \in Final /\ k.counter \in Entries
    BY DEF RecordInv, CorrectionsAreWhole, ChainInv, ChainIsLinear, Linear, Sealed, Final,
       Typed, Links
  <2>4. Seen(r)'
    BY <1>1, <2>2, <2>3 DEF Seen, HasRead, db, Final
  <2>5. QED  BY <1>1, <2>1, <2>2, <2>4, PassStands DEF Typed
<1>4. CASE row.status # Required(job[r].op)
  <2>1. Answer(r, "refused") /\ UNCHANGED <<Committed, holder, tx, pre>>
    BY <1>1, <1>4 DEF Read, db, Committed
  <2>2. QED  BY <1>1, <2>1, AnswerStands
<1>5. QED  BY <1>3, <1>4

\* The test that no bank flow links the entry.
LEMMA LinkCheckStands ==
    ASSUME Typed, RecordInv, NEW r \in Requests, LinkCheck(r)
    PROVE  RecordInv'
<1>1. /\ At(r, "linkCheck") /\ "linkCheck" \in Before /\ Record(r)
      /\ UNCHANGED <<db, holder, tx, job, mem>>
  BY DEF RecordInv, Before, Labels, InTransaction, Writes, Fills, LinkCheck
<1>2. job[r].op \in {"void", "correct"}
  BY <1>1, NotYet, JobType DEF StatementsOf, Ops
<1>3. CASE job[r].entry \notin linked
  <2>1. Advance(r) /\ res' = res /\ pre' = pre
    BY <1>1, <1>3 DEF LinkCheck, mem
  <2>2. HasRead(r)' => HasRead(r)
    BY <1>1, <2>1, Onward DEF Record, HasRead
  <2>3. Seen(r)'
    BY <1>1, <1>2, <1>3, <2>2 DEF Record, Seen, db, HasRead
  <2>4. QED  BY <1>1, <2>1, <2>3, PassStands
<1>4. CASE job[r].entry \in linked
  <2>1. Answer(r, "refused") /\ UNCHANGED <<Committed, holder, tx, pre>>
    BY <1>1, <1>4 DEF LinkCheck, db, mem, Committed
  <2>2. QED  BY <1>1, <2>1, AnswerStands
<1>5. QED  BY <1>3, <1>4

\* The read of what a correction reverses.
LEMMA RereadStands ==
    ASSUME Typed, RecordInv, NEW r \in Requests, Reread(r)
    PROVE  RecordInv'
<1>1. At(r, "reread") /\ "reread" \in Before /\ Runs(r)
  BY DEF Before, Labels, InTransaction, Writes, Fills, Reread, At, Runs
<1>2. CASE Abort(r, <<>>)
  BY <1>1, <1>2, AbortStands
<1>3. CASE ~Abort(r, <<>>)
  <2>1. /\ pre' = [pre EXCEPT ![r] = entry[job[r].entry].content]
        /\ Advance(r) /\ UNCHANGED <<db, holder, tx, job, res>>
    BY <1>3 DEF Reread
  <2>2. QED  BY <1>1, <2>1, PassStands DEF Typed
<1>4. QED  BY <1>2, <1>3

\* The read of the certificate after a post.
LEMMA CertifyStands ==
    ASSUME Typed, RecordInv, NEW r \in Requests, Certify(r)
    PROVE  RecordInv'
<1>1. /\ At(r, "certify") /\ "certify" \in Before /\ Record(r)
      /\ UNCHANGED <<Committed, holder, tx, pre>>
  BY DEF RecordInv, Before, Labels, InTransaction, Writes, Fills, Certify, Committed, db, mem
<1>2. job[r].op = "post"
  BY <1>1, NotYet, JobType DEF StatementsOf, Ops
<1>3. PICK a \in {"ok", "failed"} :
         Answer(r, a) /\ (a = "ok" => entry[job[r].entry].status = "posted")
  BY DEF Certify
<1>4. HasRead(r)
  <2>1. "read" \notin After("certify")
    BY DEF After, Writes, Fills
  <2>2. QED  BY <1>1, <1>2, <2>1, Coming DEF HasRead, Record
<1>5. a = "ok" => PostedBy(job[r].entry) # {} /\ entry[job[r].entry].status \in Final
  BY <1>1, <1>2, <1>3, <1>4 DEF Record, PostPending, Final
<1>6. QED  BY <1>1, <1>2, <1>3, <1>5, AnswerStands

\* The two statements of a period lock.
LEMMA PeriodStands ==
    ASSUME Typed, RecordInv, NEW r \in Requests, ReadPeriod(r) \/ LockPeriod(r)
    PROVE  RecordInv'
<1>1. PICK s \in {"readPeriod", "lockPeriod"} : At(r, s)
  BY DEF ReadPeriod, LockPeriod
<1>2. /\ s \in Before /\ Record(r)
      /\ UNCHANGED <<Committed, holder, tx, pre>>
  BY DEF RecordInv, Before, Labels, InTransaction, Writes, Fills, ReadPeriod, LockPeriod,
     Committed, db, mem
<1>3. job[r].op = "lock"
  BY <1>1, <1>2, NotYet, JobType DEF StatementsOf, Ops
<1>4. CASE Advance(r) /\ res' = res /\ UNCHANGED db
  BY <1>1, <1>2, <1>3, <1>4, PassStands DEF Committed
<1>5. CASE ~(Advance(r) /\ res' = res /\ UNCHANGED db)
  <2>1. PICK a \in {"ok", "refused"} : Answer(r, a)
    BY <1>5 DEF ReadPeriod, LockPeriod, db
  <2>2. QED  BY <1>1, <1>2, <1>3, <2>1, AnswerStands
<1>6. QED  BY <1>4, <1>5

\* A step of r that changes neither rows nor statements.
LEMMA QuietStands ==
    ASSUME Typed, RecordInv, UNCHANGED <<Committed, holder, tx, todo, pre, res>>
    PROVE  RecordInv'
<1>1. \A q \in Requests : Record(q)'
  BY OthersStand DEF RecordInv
<1>2. KeysStand' /\ PostsStand' /\ AuditStands' /\ CorrectionsAreWhole'
  BY DEF RecordInv, Committed, KeysStand, PostsStand, PostedBy, AuditStands, AuditIsLinear,
     AuditTails, Runs, CorrectionsAreWhole, Unedited
<1>3. QED  BY <1>1, <1>2 DEF RecordInv, Committed

\* The fiscal guard, passed.
LEMMA FiscalStands ==
    ASSUME Typed, RecordInv, NEW r \in Requests, FiscalPass(r)
    PROVE  RecordInv'
  BY PassStands DEF FiscalPass, mem, Before, Labels, InTransaction, Writes, Fills

\* A statement that is refused, or fails.
LEMMA RollbackStands ==
    ASSUME Typed, RecordInv, NEW r \in Requests,
           \/ FiscalRefuse(r) \/ InsertDuplicate(r) \/ AppendRefused(r) \/ AppendBlocked(r)
           \/ DeadlockVictim(r) \/ Fail(r)
    PROVE  RecordInv'
<1>1. Runs(r) /\ Record(r)
  <2>1. FiscalRefuse(r) \/ InsertDuplicate(r) \/ AppendRefused(r) \/ AppendBlocked(r) \/ Fail(r)
          => Runs(r)
    BY DEF FiscalRefuse, InsertDuplicate, AppendRefused, AppendBlocked, AtAppend, Fail, At, Runs
  <2>2. DeadlockVictim(r) => Runs(r)
    BY DEF DeadlockVictim, Deadlocked, Wants, Runs
  <2>3. QED  BY <2>1, <2>2 DEF RecordInv
<1>2. CASE InsertDuplicate(r)
  BY <1>1, <1>2, AbortStands DEF InsertDuplicate
<1>3. CASE AppendRefused(r)
  <2>1. PICK s \in {"append", "appendLast"} : At(r, s)
    BY <1>3 DEF AppendRefused, AtAppend
  <2>2. "read" \notin After(s) /\ s # "read"
    BY DEF After, Writes, Fills
  <2>3. job[r].op = "post" => HasRead(r)
    BY <1>1, <2>1, <2>2, Coming DEF HasRead, Record
  <2>4. QED  BY <1>1, <1>3, <2>3, AbortStands DEF AppendRefused
<1>4. CASE Abort(r, <<>>)
  BY <1>1, <1>4, AbortStands
<1>5. QED  BY <1>2, <1>3, <1>4 DEF FiscalRefuse, AppendBlocked, DeadlockVictim, Fail

-----------------------------------------------------------------------------
(* The statements that write the entry. *)

\* What a transaction still has to do once it has written its entry.
LEMMA Written ==
    ASSUME Typed, NEW r \in Requests, NEW s \in Writes, At(r, s), Advance(r), Record(r),
           job' = job
    PROVE  /\ tx[r] = NoTx /\ ~Writing(r) /\ Writing(r)' /\ Runs(r) /\ Runs(r)'
           /\ InOrder(todo[r], job[r])' /\ s \in StatementsOf(job[r].op)
           /\ \A x \in Needed(job[r]) : Ahead(r, x)'
           /\ ~Ahead(r, "read") /\ ~Ahead(r, "linkCheck") /\ ~Ahead(r, "reread")
           /\ ~Ahead(r, "read")' /\ ~Ahead(r, "linkCheck")' /\ ~Ahead(r, "reread")'
           /\ \A q \in Requests \ {r} : todo'[q] = todo[q]
<1>1. /\ InOrder(todo[r], job[r]) /\ s \in Labels
  BY LabelSets DEF Record
<1>2. /\ InOrder(todo[r], job[r])' /\ s \in StatementsOf(job[r].op) /\ Ahead(r, s) /\ Runs(r)
      /\ \A x : Ahead(r, x)' => Ahead(r, x) /\ x \in After(s)
      /\ \A x : Ahead(r, x) => x = s \/ Ahead(r, x)'
      /\ Ahead(r, "commit")'
      /\ \A q \in Requests \ {r} : todo'[q] = todo[q]
  BY <1>1, Onward
<1>3. \A x : Ahead(r, x) => x = s \/ x \in After(s)
  BY <1>2
<1>4. After(s) = Fills \union {"commit"}
  BY DEF After, Writes, Fills
<1>5. tx[r] = NoTx /\ ~Writing(r)
  BY <1>1, <1>2 DEF Writing, Writes, Fills, Record
<1>6. Writing(r)' /\ Runs(r)'
  <2>1. Runs(r)'
    BY <1>2, ShortOrder DEF Ahead, Runs
  <2>2. QED  BY <1>2, <1>4, <2>1 DEF Writing
<1>7. \A x \in Needed(job[r]) : Ahead(r, x)'
  <2>1. \A x \in Needed(job[r]) : Ahead(r, x)
    BY <1>1, <1>2 DEF InOrder, Ahead, Has
  <2>2. \A x \in Needed(job[r]) : x # s
    BY DEF Needed, Writes
  <2>3. QED  BY <1>2, <2>1, <2>2
<1>8. \A x \in {"read", "linkCheck", "reread"} : x # s /\ x \notin After(s)
  BY <1>4 DEF Writes, Fills
<1>9. QED  BY <1>2, <1>3, <1>5, <1>6, <1>7, <1>8

\* The write of an entry, given what it makes of the rows.
LEMMA WriteStands ==
    ASSUME Typed, RecordInv, NEW r \in Requests, NEW s \in Writes, At(r, s), Advance(r),
           UNCHANGED <<Committed, pre, res>>,
           \A q \in Requests \ {r} :
               /\ tx'[q] = tx[q] /\ \A x \in Resources : holder[x] = q => holder'[x] = q,
           tx'[r].audit = {}, tx'[r].corr = {},
           OwnRows(r)', ToSeal(r)', KeyPending(r)', LinkedPending(r)',
           job[r].op \notin {"correct", "match"} => tx'[r].rows[job[r].entry] # Null,
           job[r].op = "correct" =>
               /\ job[r].counter # job[r].replacement
               /\ tx'[r].rows[job[r].counter] # Null /\ tx'[r].rows[job[r].replacement] # Null
               /\ tx'[r].rows[job[r].counter].content = Reversal[pre[r]]
    PROVE  RecordInv'
<1>1. Record(r) /\ job' = job /\ UNCHANGED Committed /\ pre' = pre /\ res' = res
  BY DEF RecordInv, Committed
<1>2. /\ Writing(r)' /\ Runs(r) /\ Runs(r)' /\ InOrder(todo[r], job[r])'
      /\ \A x \in Needed(job[r]) : Ahead(r, x)'
      /\ ~Ahead(r, "read") /\ ~Ahead(r, "linkCheck") /\ ~Ahead(r, "reread")
      /\ ~Ahead(r, "read")' /\ ~Ahead(r, "linkCheck")' /\ ~Ahead(r, "reread")'
      /\ \A q \in Requests \ {r} : todo'[q] = todo[q]
  BY <1>1, Written
<1>3. Seen(r)' /\ Reversed(r)'
  <2>1. HasRead(r)' = HasRead(r)
    BY <1>1, <1>2 DEF HasRead
  <2>2. Unedited(job[r].entry)' = Unedited(job[r].entry)
    BY <1>1 DEF Unedited
  <2>3. QED  BY <1>1, <1>2, <2>1, <2>2 DEF Record, Seen, Reversed, Committed
<1>4. AuditPending(r)' /\ LinkPending(r)'
  BY <1>1, <1>2 DEF AuditPending, LinkPending, Needed
<1>5. PairPending(r)'
  <2>1. SUFFICES ASSUME job[r].op = "correct"
                 PROVE  Ahead(r, "append")' /\ Ahead(r, "appendLast")' /\ Ahead(r, "link")'
    BY <1>1 DEF PairPending
  <2>2. QED  BY <1>2, <2>1 DEF Needed
<1>6. PostPending(r)' /\ Served(r)'
  <2>1. \A e : PostedBy(e)' = PostedBy(e)
    BY <1>1 DEF PostedBy, Committed
  <2>2. KeyUse(r)' = KeyUse(r)
    BY <1>1 DEF KeyUse
  <2>3. HasRead(r)' = HasRead(r)
    BY <1>1, <1>2 DEF HasRead
  <2>4. job[r].op = "post" => Ahead(r, "append")'
    BY <1>2 DEF Needed
  <2>5. QED  BY <1>1, <2>1, <2>2, <2>3, <2>4 DEF PostPending, Served, Committed, Record
<1>7. Record(r)'
  BY <1>2, <1>3, <1>4, <1>5, <1>6 DEF Record
<1>8. QED  BY <1>1, <1>2, <1>7, StepStands

\* The insertion of a new entry.
LEMMA InsertOneStands ==
    ASSUME Typed, RecordInv, NEW r \in Requests, InsertOne(r)
    PROVE  RecordInv'
<1> DEFINE e == job[r].entry
           s == IF job[r].op = "bank" \/ job[r].posted THEN "posted" ELSE "draft"
           row == NewRow(s, job[r].content, KeyUse(r))
<1>1. /\ At(r, "insert") /\ job[r].op \in {"create", "bank"} /\ Granted(r) /\ ~KeyTaken(r)
      /\ Unused(r, e) /\ Take(r, Wants(r) \union {<<"row", e>>}) /\ Advance(r)
      /\ UNCHANGED <<Committed, pre, res>> /\ Record(r) /\ "insert" \in Writes /\ job' = job
      /\ entry' = entry
  BY DEF InsertOne, db, Committed, RecordInv, Writes
<1>2. /\ tx[r] = NoTx /\ \A x \in Needed(job[r]) : Ahead(r, x)'
      /\ e \in Entries /\ tx[r] \in TxType
  BY <1>1, Written, JobType
<1>3. /\ tx'[r].rows = [tx[r].rows EXCEPT ![e] = row]
      /\ tx'[r].linked = IF job[r].op = "bank" THEN {e} ELSE {}
      /\ tx'[r].audit = tx[r].audit /\ tx'[r].corr = tx[r].corr
      /\ \A q \in Requests \ {r} : tx'[q] = tx[q]
  <2>1. tx' = [tx EXCEPT ![r].rows[e] = row,
                         ![r].linked = IF job[r].op = "bank" THEN {e} ELSE {}]
    BY DEF InsertOne
  <2>2. QED  BY <1>2, <2>1 DEF Typed, TxType
<1>4. /\ tx'[r].rows[e] = row /\ \A x \in Entries : x # e => tx'[r].rows[x] = Null
      /\ tx'[r].audit = {} /\ tx'[r].corr = {}
  BY <1>2, <1>3, Blank, TxFields
<1>5. /\ row.status = s /\ row.content = job[r].content /\ row.hash = Null
      /\ row.use = KeyUse(r) /\ row # Null
  <2>1. row \in Rows
    BY NewRowType, JobType DEF Statuses, KeyUse, KeyUses
  <2>2. QED  BY <2>1, NullAssumption DEF NewRow
<1>6. /\ \A q \in Requests \ {r} : \A x \in Resources : holder[x] = q => holder'[x] = q
      /\ \A x \in Wants(r) : holder'[x] = r
  <2>1. Wants(r) \union {<<"row", e>>} \in SUBSET Resources
    BY <1>2, WantsType, LockNames
  <2>2. \A x \in Wants(r) \union {<<"row", e>>} : holder[x] \in {Null, r}
    BY <1>1 DEF Granted, Unused
  <2>3. QED  BY <1>1, <2>1, <2>2, TakeHolds
<1>7. OwnRows(r)'
  BY <1>1, <1>4, <1>5 DEF OwnRows, Targets, Created, Unused, Final
<1>8. ToSeal(r)'
  <2>1. s = "posted" => Ahead(r, "append")'
    BY <1>1, <1>2 DEF Needed
  <2>2. QED  BY <1>1, <1>4, <1>5, <2>1 DEF ToSeal, Unsealed, Final, AppendAhead
<1>9. KeyPending(r)'
  <2>1. KeyUse(r)' = KeyUse(r)
    BY <1>1 DEF KeyUse
  <2>2. KeyUse(r) # Null => job[r].key # Null /\ KeyUse(r).key = job[r].key
    BY DEF KeyUse
  <2>3. KeyUse(r) # Null => holder'[<<"key", KeyUse(r).key>>] = r
    BY <1>1, <1>6, <2>2 DEF Wants, At
  <2>4. KeyUse(r) # Null => \A f \in Entries : entry[f].use # Null => entry[f].use.key # KeyUse(r).key
    BY <1>1, <2>2 DEF KeyTaken
  <2>5. QED  BY <1>1, <1>4, <1>5, <2>1, <2>3, <2>4 DEF KeyPending, Unused
<1>10. LinkedPending(r)'
  BY <1>1, <1>3, <1>4, <1>5 DEF LinkedPending
<1>11. QED  BY <1>1, <1>2, <1>3, <1>4, <1>5, <1>6, <1>7, <1>8, <1>9, <1>10, WriteStands

\* The insertion of the two entries of a correction.
LEMMA InsertPairStands ==
    ASSUME Typed, RecordInv, NEW r \in Requests, InsertPair(r)
    PROVE  RecordInv'
<1> DEFINE c == job[r].counter
           p == job[r].replacement
           crow == NewRow("posted", Reversal[pre[r]], Null)
           prow == NewRow("posted", job[r].content, Null)
<1>1. /\ At(r, "insert") /\ job[r].op = "correct" /\ c # p
      /\ Unused(r, c) /\ Unused(r, p) /\ Take(r, {<<"row", c>>, <<"row", p>>}) /\ Advance(r)
      /\ UNCHANGED <<Committed, pre, res>> /\ Record(r) /\ "insert" \in Writes /\ job' = job
      /\ entry' = entry
  BY DEF InsertPair, db, Committed, RecordInv, Writes
<1>2. /\ tx[r] = NoTx /\ \A x \in Needed(job[r]) : Ahead(r, x)'
      /\ c \in Entries /\ p \in Entries /\ tx[r] \in TxType
  BY <1>1, Written, JobType
<1>3. /\ tx'[r].rows = [tx[r].rows EXCEPT ![c] = crow, ![p] = prow]
      /\ tx'[r].linked = tx[r].linked
      /\ tx'[r].audit = tx[r].audit /\ tx'[r].corr = tx[r].corr
      /\ \A q \in Requests \ {r} : tx'[q] = tx[q]
  <2>1. tx' = [tx EXCEPT ![r].rows[c] = crow, ![r].rows[p] = prow]
    BY DEF InsertPair
  <2>2. QED  BY <1>1, <1>2, <2>1 DEF Typed, TxType
<1>4. /\ tx'[r].rows[c] = crow /\ tx'[r].rows[p] = prow
      /\ \A x \in Entries : x \notin {c, p} => tx'[r].rows[x] = Null
      /\ tx'[r].audit = {} /\ tx'[r].corr = {} /\ tx'[r].linked = {}
  BY <1>1, <1>2, <1>3, Blank, TxFields
<1>5. /\ crow.status = "posted" /\ crow.content = Reversal[pre[r]] /\ crow.hash = Null
      /\ prow.status = "posted" /\ prow.hash = Null
      /\ crow.use = Null /\ prow.use = Null /\ crow # Null /\ prow # Null
  <2>1. crow \in Rows /\ prow \in Rows
    BY NewRowType, JobType, ContentsAssumption DEF Statuses, Typed
  <2>2. QED  BY <2>1, NullAssumption DEF NewRow
<1>6. \A q \in Requests \ {r} : \A x \in Resources : holder[x] = q => holder'[x] = q
  BY <1>1, <1>2, LockNames, TakeHolds DEF Unused
<1>7. OwnRows(r)'
  BY <1>1, <1>4, <1>5 DEF OwnRows, Targets, Created, Unused, Final
<1>8. ToSeal(r)'
  <2>1. Ahead(r, "append")' /\ Ahead(r, "appendLast")'
    BY <1>1, <1>2 DEF Needed
  <2>2. QED  BY <1>1, <1>4, <1>5, <2>1 DEF ToSeal, AppendAhead
<1>9. KeyPending(r)'
  BY <1>1, <1>4, <1>5 DEF KeyPending, Unused
<1>10. LinkedPending(r)'
  BY <1>4 DEF LinkedPending
<1>11. /\ job[r].counter # job[r].replacement
       /\ tx'[r].rows[job[r].counter] # Null /\ tx'[r].rows[job[r].replacement] # Null
       /\ tx'[r].rows[job[r].counter].content = Reversal[pre[r]]
  BY <1>1, <1>4, <1>5
<1>12. tx'[r].audit = {} /\ tx'[r].corr = {} /\ \A q \in Requests \ {r} : tx'[q] = tx[q]
  BY <1>3, <1>4
<1> HIDE DEF c, p, crow, prow
<1>13. QED  BY <1>1, <1>6, <1>7, <1>8, <1>9, <1>10, <1>11, <1>12, WriteStands

\* The update of an entry that exists, by post, void or edit.
LEMMA UpdateStands ==
    ASSUME Typed, RecordInv, NEW r \in Requests, PostUpdate(r) \/ VoidUpdate(r) \/ EditUpdate(r)
    PROVE  RecordInv'
<1> DEFINE e == job[r].entry
           old == entry[e]
<1>1. PICK row :
        /\ Update(r, row)
        /\ \/ job[r].op = "post" /\ row = [View(r)[e] EXCEPT !.status = "posted"]
           \/ job[r].op = "void" /\ row = [View(r)[e] EXCEPT !.status = "void"]
           \/ job[r].op = "edit" /\ row = [View(r)[e] EXCEPT !.content = job[r].content]
  BY DEF PostUpdate, VoidUpdate, EditUpdate
<1>2. /\ At(r, "update") /\ Granted(r) /\ Take(r, Wants(r)) /\ Advance(r)
      /\ UNCHANGED <<Committed, pre, res>> /\ Record(r) /\ "update" \in Writes /\ job' = job
      /\ entry' = entry /\ corr' = corr
  BY <1>1 DEF Update, db, mem, Committed, RecordInv, Writes
<1>3. /\ tx[r] = NoTx /\ \A x \in Needed(job[r]) : Ahead(r, x)'
      /\ e \in Entries /\ tx[r] \in TxType
      /\ Runs(r) /\ ~Ahead(r, "read")
  BY <1>2, Written, JobType
<1>4. /\ View(r)[e] = old /\ old \in Rows /\ row \in Rows
      /\ row.hash = old.hash /\ row.use = old.use
      /\ \/ job[r].op = "post" /\ row.status = "posted" /\ row.content = old.content
         \/ job[r].op = "void" /\ row.status = "void" /\ row.content = old.content
         \/ job[r].op = "edit" /\ row.status = old.status
  <2>1. View(r)[e] = old /\ old \in Rows
    BY <1>3, Blank, ViewOf, RowsOf
  <2>2. QED  BY <1>1, <2>1, JobType DEF Rows, Statuses
<1>5. /\ tx'[r].rows = [tx[r].rows EXCEPT ![e] = row]
      /\ tx'[r].linked = tx[r].linked
      /\ tx'[r].audit = tx[r].audit /\ tx'[r].corr = tx[r].corr
      /\ \A q \in Requests \ {r} : tx'[q] = tx[q]
  <2>1. tx' = [tx EXCEPT ![r].rows[e] = row]
    BY <1>1 DEF Update
  <2>2. QED  BY <1>3, <2>1 DEF Typed, TxType
<1>6. /\ tx'[r].rows[e] = row /\ row # Null
      /\ \A x \in Entries : x # e => tx'[r].rows[x] = Null
      /\ tx'[r].audit = {} /\ tx'[r].corr = {} /\ tx'[r].linked = {}
  BY <1>3, <1>4, <1>5, Blank, TxFields, NullAssumption
<1>7. \A q \in Requests \ {r} : \A x \in Resources : holder[x] = q => holder'[x] = q
  BY <1>2, WantsHeld
<1>8. old.status # "absent" /\ (job[r].op = "void" => old.status \in Final)
  BY <1>2, <1>3, <1>4 DEF Record, Seen, HasRead
<1>9. OwnRows(r)'
  BY <1>2, <1>4, <1>6, <1>8 DEF OwnRows, Targets, Created, Final
<1>10. ToSeal(r)'
  <2>1. job[r].op = "post" => Ahead(r, "append")'
    BY <1>3 DEF Needed
  <2>2. QED  BY <1>2, <1>4, <1>6, <1>8, <2>1 DEF ToSeal, Unsealed, AppendAhead
<1>11. KeyPending(r)'
  BY <1>2, <1>4, <1>6, <1>8 DEF KeyPending
<1>12. LinkedPending(r)'
  BY <1>6 DEF LinkedPending
<1>13. QED  BY <1>2, <1>4, <1>5, <1>6, <1>7, <1>9, <1>10, <1>11, <1>12, WriteStands

\* The link of a bank transaction to an entry that is there.
LEMMA MatchStands ==
    ASSUME Typed, RecordInv, NEW r \in Requests, MatchUpdate(r)
    PROVE  RecordInv'
<1>1. /\ At(r, "match") /\ Granted(r) /\ Record(r) /\ Runs(r) /\ "match" \in Writes
  BY DEF MatchUpdate, RecordInv, Writes, At, Runs
<1>2. CASE Abort(r, <<>>)
  BY <1>1, <1>2, AbortStands
<1>3. CASE ~Abort(r, <<>>)
  <2>1. /\ tx' = [tx EXCEPT ![r].linked = {job[r].entry}]
        /\ Take(r, Wants(r)) /\ Advance(r)
        /\ UNCHANGED <<Committed, pre, res>> /\ job' = job
    BY <1>3 DEF MatchUpdate, db, mem, Committed
  <2>2. tx[r] = NoTx /\ "match" \in StatementsOf(job[r].op)
    BY <1>1, <2>1, Written
  <2>3. job[r].op = "match"
    BY <2>2, JobType DEF StatementsOf, Ops
  <2>4. /\ tx'[r].linked = {job[r].entry} /\ tx'[r].rows = tx[r].rows
        /\ tx'[r].audit = tx[r].audit /\ tx'[r].corr = tx[r].corr
        /\ \A q \in Requests \ {r} : tx'[q] = tx[q]
    BY <2>1, JobType DEF Typed, TxType
  <2>5. /\ tx'[r].audit = {} /\ tx'[r].corr = {}
        /\ \A e \in Entries : tx'[r].rows[e] = Null
    BY <2>2, <2>4, Blank
  <2>6. OwnRows(r)' /\ ToSeal(r)' /\ KeyPending(r)'
    BY <2>5 DEF OwnRows, ToSeal, KeyPending
  <2>7. LinkedPending(r)'
    BY <2>1, <2>3, <2>4 DEF LinkedPending
  <2>8. \A q \in Requests : \A x \in Resources : holder[x] = q => holder'[x] = q
    BY <1>1, <2>1, WantsHeld
  <2>9. QED  BY <1>1, <2>1, <2>3, <2>4, <2>5, <2>6, <2>7, <2>8, WriteStands
<1>4. QED  BY <1>2, <1>3

-----------------------------------------------------------------------------
(* The statements between the write of the entry and the commit. *)

\* recalculateBalance is one statement per account.
Goes(r, s) == Advance(r) \/ (s = "recalc" /\ todo' = todo)

\* A statement after the write: the others are still to come as before.
LEMMA Filled ==
    ASSUME Typed, NEW r \in Requests, NEW s \in Fills, At(r, s), Record(r), job' = job,
           Goes(r, s)
    PROVE  /\ Writing(r) /\ Writing(r)' /\ Runs(r) /\ Runs(r)'
           /\ InOrder(todo[r], job[r])' /\ s \in StatementsOf(job[r].op) /\ Ahead(r, s)
           /\ \A x \in Labels : x # s => (Ahead(r, x)' <=> Ahead(r, x))
           /\ s # "recalc" => ~Ahead(r, s)'
           /\ ~Ahead(r, "read") /\ ~Ahead(r, "linkCheck") /\ ~Ahead(r, "reread")
           /\ s = "appendLast" => ~Ahead(r, "append")
           /\ \A q \in Requests \ {r} : todo'[q] = todo[q]
<1>1. InOrder(todo[r], job[r])
  BY DEF Record
<1>2. /\ Runs(r) /\ Ahead(r, s) /\ s \in StatementsOf(job[r].op) /\ Ahead(r, "commit")
      /\ \A x : Ahead(r, x) => x = s \/ x \in After(s)
  BY <1>1, Coming
<1>3. /\ After(s) \subseteq Fills \union {"commit"} /\ s \notin After(s)
      /\ "append" \notin After("appendLast")
      /\ \A x \in {"read", "linkCheck", "reread"} : x \notin Fills \union {"commit"}
      /\ "commit" \notin Fills /\ "commit" \in Labels
  BY DEF After, Fills, Writes, Labels, InTransaction
<1>4. Writing(r) /\ ~Ahead(r, "read") /\ ~Ahead(r, "linkCheck") /\ ~Ahead(r, "reread")
      /\ (s = "appendLast" => ~Ahead(r, "append"))
  BY <1>2, <1>3 DEF Writing
<1>5. CASE Advance(r)
  <2>1. /\ InOrder(todo[r], job[r])'
        /\ \A x : Ahead(r, x)' => Ahead(r, x) /\ x \in After(s)
        /\ \A x : Ahead(r, x) => x = s \/ Ahead(r, x)'
        /\ \A q \in Requests \ {r} : todo'[q] = todo[q]
    BY <1>1, <1>5, Onward
  <2>2. Ahead(r, "commit")'
    BY <1>2, <1>3, <2>1
  <2>3. Runs(r)' /\ Writing(r)'
    BY <1>3, <2>1, <2>2, ShortOrder DEF Ahead, Runs, Writing
  <2>4. QED  BY <1>2, <1>3, <1>4, <2>1, <2>3
<1>6. CASE s = "recalc" /\ todo' = todo
  <2>1. \A x : Ahead(r, x)' = Ahead(r, x)
    BY <1>6 DEF Ahead
  <2>2. QED  BY <1>1, <1>2, <1>4, <1>6, <2>1 DEF Runs, Writing
<1>7. QED  BY <1>5, <1>6 DEF Goes

\* Such a statement, given what it makes of the writes of r.
LEMMA FillStands ==
    ASSUME Typed, RecordInv, NEW r \in Requests, NEW s \in Fills, At(r, s),
           Goes(r, s),
           UNCHANGED <<Committed, pre, res>>,
           \A q \in Requests : \A x \in Resources : holder[x] = q => holder'[x] = q,
           \A q \in Requests \ {r} : tx'[q] = tx[q],
           OwnRows(r)', ToSeal(r)', KeyPending(r)', AuditPending(r)', LinkPending(r)',
           PairPending(r)', LinkedPending(r)',
           \A e \in Entries : tx[r].rows[e] # Null => tx'[r].rows[e] # Null,
           job[r].op = "post" /\ ~Ahead(r, "append")' =>
               tx'[r].rows[job[r].entry].hash # Null /\ entry[job[r].entry].hash = Null
    PROVE  RecordInv'
<1>1. Record(r) /\ job' = job /\ UNCHANGED Committed /\ pre' = pre /\ res' = res
  BY DEF RecordInv, Committed
<1>2. /\ Writing(r) /\ Writing(r)' /\ Runs(r) /\ Runs(r)' /\ InOrder(todo[r], job[r])'
      /\ ~Ahead(r, "read") /\ ~Ahead(r, "linkCheck") /\ ~Ahead(r, "reread")
      /\ \A x \in Labels : x # s => (Ahead(r, x)' <=> Ahead(r, x))
      /\ \A q \in Requests \ {r} : todo'[q] = todo[q]
  BY <1>1, Filled
<1>3. ~Ahead(r, "read")' /\ ~Ahead(r, "linkCheck")' /\ ~Ahead(r, "reread")'
  BY <1>2 DEF Fills, Labels, InTransaction
<1>4. HasRead(r)' = HasRead(r)
  BY <1>1, <1>2, <1>3 DEF HasRead
<1>5. Seen(r)' /\ Reversed(r)'
  <2>1. Unedited(job[r].entry)' = Unedited(job[r].entry)
    BY <1>1 DEF Unedited
  <2>2. QED  BY <1>1, <1>2, <1>3, <1>4, <2>1 DEF Record, Seen, Reversed, Committed
<1>6. PostPending(r)' /\ Served(r)'
  <2>1. \A e : PostedBy(e)' = PostedBy(e)
    BY <1>1 DEF PostedBy, Committed
  <2>2. KeyUse(r)' = KeyUse(r)
    BY <1>1 DEF KeyUse
  <2>3. job[r].entry \in Entries
    BY JobType
  <2>4. QED  BY <1>1, <1>2, <1>4, <2>1, <2>2, <2>3 DEF PostPending, Served, Committed, Record
<1>7. Record(r)'
  BY <1>2, <1>5, <1>6 DEF Record
<1>8. QED  BY <1>1, <1>2, <1>7, StepStands

\* What is said of the rows of r is so while they stay as they are.
LEMMA SameRows ==
    ASSUME Typed, NEW r \in Requests, Record(r), UNCHANGED Committed,
           tx'[r].rows = tx[r].rows, tx'[r].linked = tx[r].linked,
           Ahead(r, "append")' <=> Ahead(r, "append"),
           Ahead(r, "appendLast")' <=> Ahead(r, "appendLast"),
           \A x \in Resources : holder[x] = r => holder'[x] = r
    PROVE  OwnRows(r)' /\ ToSeal(r)' /\ KeyPending(r)' /\ LinkedPending(r)'
<1>1. /\ Created(r)' = Created(r) /\ KeyUse(r)' = KeyUse(r)
      /\ Record(r) /\ entry' = entry /\ job' = job
  BY DEF Committed, Created, KeyUse
<1>2. /\ Targets(r)' = Targets(r)
      /\ \A e : AppendAhead(r, e)' <=> AppendAhead(r, e)
  BY <1>1 DEF Targets, AppendAhead
<1>3. OwnRows(r)' /\ ToSeal(r)' /\ LinkedPending(r)'
  BY <1>1, <1>2 DEF Record, OwnRows, ToSeal, LinkedPending
<1>4. KeyPending(r)'
  BY <1>1, RowsOf DEF Record, KeyPending
<1>5. QED  BY <1>3, <1>4

\* The audit row.
LEMMA AuditTraced ==
    ASSUME Typed, RecordInv, NEW r \in Requests, Audit(r)
    PROVE  RecordInv'
<1>1. /\ At(r, "audit") /\ Goes(r, "audit") /\ Granted(r) /\ Take(r, Wants(r)) /\ Record(r)
      /\ UNCHANGED <<Committed, pre, res>> /\ "audit" \in Fills /\ job' = job /\ entry' = entry
  BY DEF Audit, db, mem, Committed, RecordInv, Fills, Goes
<1>2. PICK p \in Tails : tx' = [tx EXCEPT ![r].audit = {[by |-> r, prev |-> p]}]
  BY DEF Audit, Tails
<1>3. /\ tx'[r].rows = tx[r].rows /\ tx'[r].linked = tx[r].linked /\ tx'[r].corr = tx[r].corr
      /\ tx'[r].head = tx[r].head /\ tx'[r].audit = {[by |-> r, prev |-> p]}
      /\ \A q \in Requests \ {r} : tx'[q] = tx[q]
  BY <1>2, JobType DEF Typed, TxType
<1>4. /\ \A x \in Labels : x # "audit" => (Ahead(r, x)' <=> Ahead(r, x))
      /\ Writing(r) /\ Writing(r)'
  BY <1>1, Filled
<1>5. /\ Ahead(r, "append")' <=> Ahead(r, "append")
      /\ Ahead(r, "appendLast")' <=> Ahead(r, "appendLast")
      /\ Ahead(r, "link")' <=> Ahead(r, "link")
  BY <1>4 DEF Labels, InTransaction
<1>6. \A q \in Requests : \A x \in Resources : holder[x] = q => holder'[x] = q
  BY <1>1, WantsHeld
<1>7. holder'[<<"audit">>] = r
  <2>1. <<"audit">> \in Wants(r)
    BY <1>1 DEF Wants, At
  <2>2. QED  BY <1>1, <2>1, WantsHeld
<1>8. OwnRows(r)' /\ ToSeal(r)' /\ KeyPending(r)' /\ LinkedPending(r)'
  BY <1>1, <1>3, <1>5, <1>6, SameRows
<1>9. AuditPending(r)'
  <2>1. Tails' = Tails
    BY <1>1 DEF Tails, AuditTails, Committed
  <2>2. QED  BY <1>3, <1>7, <2>1 DEF AuditPending
<1>10. LinkPending(r)'
  <2>1. LinkOf(r)' = LinkOf(r) /\ <<"corr", job[r].entry>> \in Resources
    BY <1>1, MoreLocks, JobType DEF LinkOf
  <2>2. QED  BY <1>1, <1>3, <1>6, <2>1 DEF LinkPending, Record, Committed
<1>11. PairPending(r)'
  BY <1>1, <1>3, <1>4, <1>5 DEF PairPending, Record
<1>12. job[r].op = "post" /\ ~Ahead(r, "append")' =>
         tx'[r].rows[job[r].entry].hash # Null /\ entry[job[r].entry].hash = Null
  BY <1>1, <1>3, <1>4, <1>5 DEF PostPending, Record
<1>13. QED  BY <1>1, <1>3, <1>6, <1>8, <1>9, <1>10, <1>11, <1>12, FillStands

\* The row that links a correction to its original.
LEMMA LinkStands ==
    ASSUME Typed, RecordInv, NEW r \in Requests, LinkCorrection(r)
    PROVE  RecordInv'
<1>1. /\ At(r, "link") /\ Granted(r) /\ Record(r) /\ Runs(r) /\ "link" \in Fills
  BY DEF LinkCorrection, RecordInv, Fills, At, Runs
<1>2. CASE Abort(r, <<>>)
  BY <1>1, <1>2, AbortStands
<1>3. CASE ~Abort(r, <<>>)
  <2>1. /\ \A k \in corr : k.original # job[r].entry
        /\ tx' = [tx EXCEPT ![r].corr = {LinkOf(r)}]
        /\ Take(r, Wants(r)) /\ Goes(r, "link")
        /\ UNCHANGED <<Committed, pre, res>> /\ job' = job /\ entry' = entry
    BY <1>3 DEF LinkCorrection, LinkOf, db, mem, Committed, Goes
  <2>2. /\ tx'[r].rows = tx[r].rows /\ tx'[r].linked = tx[r].linked
        /\ tx'[r].corr = {LinkOf(r)} /\ tx'[r].audit = tx[r].audit
        /\ tx'[r].head = tx[r].head
        /\ \A q \in Requests \ {r} : tx'[q] = tx[q]
    BY <2>1, JobType DEF Typed, TxType
  <2>3. /\ \A x \in Labels : x # "link" => (Ahead(r, x)' <=> Ahead(r, x))
        /\ Writing(r) /\ Writing(r)' /\ "link" \in StatementsOf(job[r].op)
    BY <1>1, <2>1, Filled
  <2>4. /\ Ahead(r, "append")' <=> Ahead(r, "append")
        /\ Ahead(r, "appendLast")' <=> Ahead(r, "appendLast")
        /\ Ahead(r, "audit")' <=> Ahead(r, "audit")
    BY <2>3 DEF Labels, InTransaction
  <2>5. job[r].op = "correct"
    BY <2>3, JobType DEF StatementsOf, Ops
  <2>6. \A q \in Requests : \A x \in Resources : holder[x] = q => holder'[x] = q
    BY <1>1, <2>1, WantsHeld
  <2>7. holder'[<<"corr", job[r].entry>>] = r
    <3>1. <<"corr", job[r].entry>> \in Wants(r)
      BY <1>1 DEF Wants, At
    <3>2. QED  BY <1>1, <2>1, <3>1, WantsHeld
  <2>8. OwnRows(r)' /\ ToSeal(r)' /\ KeyPending(r)' /\ LinkedPending(r)'
    BY <1>1, <2>1, <2>2, <2>4, <2>6, SameRows
  <2>9. AuditPending(r)'
    <3>1. Tails' = Tails
      BY <2>1 DEF Tails, AuditTails, Committed
    <3>2. QED  BY <1>1, <2>1, <2>2, <2>3, <2>4, <2>6, <3>1, MoreLocks DEF AuditPending, Record
  <2>10. LinkPending(r)'
    <3>1. LinkOf(r)' = LinkOf(r)
      BY <2>1 DEF LinkOf
    <3>2. QED  BY <2>1, <2>2, <2>5, <2>7, <3>1 DEF LinkPending, Committed
  <2>11. PairPending(r)'
    BY <1>1, <2>1, <2>2, <2>3, <2>4 DEF PairPending, Record
  <2>12. QED  BY <1>1, <2>1, <2>2, <2>5, <2>6, <2>8, <2>9, <2>10, <2>11, FillStands
<1>4. QED  BY <1>2, <1>3

\* A balance that is written.
LEMMA RecalcStands ==
    ASSUME Typed, RecordInv, NEW r \in Requests, RecalcWrite(r)
    PROVE  RecordInv'
<1>1. /\ At(r, "recalc") /\ Goes(r, "recalc") /\ Granted(r) /\ Take(r, Wants(r))
      /\ Record(r) /\ UNCHANGED <<Committed, pre, res>> /\ "recalc" \in Fills /\ job' = job
      /\ entry' = entry /\ tx' = [tx EXCEPT ![r].gl[sum[r].account] = sum[r]]
  BY DEF RecalcWrite, db, Committed, RecordInv, Fills, Goes
<1>2. /\ tx'[r].rows = tx[r].rows /\ tx'[r].linked = tx[r].linked /\ tx'[r].corr = tx[r].corr
      /\ tx'[r].head = tx[r].head /\ tx'[r].audit = tx[r].audit
      /\ \A q \in Requests \ {r} : tx'[q] = tx[q]
  BY <1>1, JobType DEF Typed, TxType
<1>3. /\ \A x \in Labels : x # "recalc" => (Ahead(r, x)' <=> Ahead(r, x))
      /\ Writing(r) /\ Writing(r)'
  BY <1>1, Filled
<1>4. /\ Ahead(r, "append")' <=> Ahead(r, "append")
      /\ Ahead(r, "appendLast")' <=> Ahead(r, "appendLast")
      /\ Ahead(r, "link")' <=> Ahead(r, "link")
      /\ Ahead(r, "audit")' <=> Ahead(r, "audit")
  BY <1>3 DEF Labels, InTransaction
<1>5. \A q \in Requests : \A x \in Resources : holder[x] = q => holder'[x] = q
  BY <1>1, WantsHeld
<1>6. OwnRows(r)' /\ ToSeal(r)' /\ KeyPending(r)' /\ LinkedPending(r)'
  BY <1>1, <1>2, <1>4, <1>5, SameRows
<1>7. AuditPending(r)' /\ LinkPending(r)'
  <2>1. /\ Tails' = Tails /\ LinkOf(r)' = LinkOf(r)
        /\ <<"corr", job[r].entry>> \in Resources /\ <<"audit">> \in Resources
    BY <1>1, MoreLocks, JobType DEF Tails, AuditTails, Committed, LinkOf
  <2>2. QED  BY <1>1, <1>2, <1>3, <1>4, <1>5, <2>1 DEF AuditPending, LinkPending, Record, Committed
<1>8. PairPending(r)'
  BY <1>1, <1>2, <1>3, <1>4 DEF PairPending, Record
<1>9. job[r].op = "post" /\ ~Ahead(r, "append")' =>
        tx'[r].rows[job[r].entry].hash # Null /\ entry[job[r].entry].hash = Null
  BY <1>1, <1>2, <1>3, <1>4 DEF PostPending, Record
<1>10. QED  BY <1>1, <1>2, <1>5, <1>6, <1>7, <1>8, <1>9, FillStands

\* The append to the chain: the entry gets its hash.
LEMMA SealStands ==
    ASSUME Typed, Typed', RecordInv, ChainInv, NEW r \in Requests, SealAppend(r)
    PROVE  RecordInv'
<1> DEFINE e == Appended(r)
           row == View(r)[e]
<1>1. PICK s \in {"append", "appendLast"} : At(r, s)
  BY DEF SealAppend, AtAppend
<1>2. /\ s \in Fills /\ Goes(r, s) /\ Granted(r) /\ Take(r, Wants(r)) /\ Record(r)
      /\ UNCHANGED <<Committed, pre, res>> /\ job' = job /\ entry' = entry
      /\ row.status = "posted" /\ row.hash = Null
  BY <1>1 DEF SealAppend, Appendable, db, mem, Committed, RecordInv, Fills, Goes
<1>3. /\ Writing(r) /\ Writing(r)' /\ s \in StatementsOf(job[r].op) /\ Ahead(r, s)
      /\ \A x \in Labels : x # s => (Ahead(r, x)' <=> Ahead(r, x))
      /\ ~Ahead(r, s)' /\ (s = "appendLast" => ~Ahead(r, "append"))
  BY <1>1, <1>2, Filled
<1>4. /\ s = "append" => (Ahead(r, "appendLast")' <=> Ahead(r, "appendLast"))
      /\ s = "appendLast" => (Ahead(r, "append")' <=> Ahead(r, "append"))
      /\ Ahead(r, "link")' <=> Ahead(r, "link")
      /\ Ahead(r, "audit")' <=> Ahead(r, "audit")
  BY <1>3 DEF Labels, InTransaction
<1>5. /\ e \in Entries /\ e \in Targets(r)
      /\ job[r].op # "correct" => e = job[r].entry /\ s = "append"
      /\ job[r].op = "correct" => e = IF s = "append" THEN job[r].counter ELSE job[r].replacement
  BY <1>1, <1>3, JobType DEF Appended, At, Targets, Created, StatementsOf
<1>6. /\ tx[r].rows[e] # Null /\ row = tx[r].rows[e] /\ row \in Rows
      /\ job[r].op = "correct" =>
            job[r].counter # job[r].replacement
  <2>1. tx[r].rows[e] # Null /\ (job[r].op = "correct" => job[r].counter # job[r].replacement)
    <3>1. job[r].op # "match"
      BY <1>3 DEF StatementsOf
    <3>2. CASE job[r].op = "correct"
      BY <1>2, <1>3, <1>5, <3>2 DEF Record, PairPending
    <3>3. CASE job[r].op # "correct"
      BY <1>2, <1>3, <1>5, <3>1, <3>3 DEF Record, Served
    <3>4. QED  BY <3>2, <3>3
  <2>2. QED  BY <1>5, <2>1, ViewOf, RowsOf
<1>7. PICK p \in Previous(View(r), HeadOf(r), e) :
         tx' = [tx EXCEPT ![r].rows[e] = [row EXCEPT !.hash = Seal("v2", e, row, p), !.prev = p],
                          ![r].head = [hash |-> Seal("v2", e, row, p), entry |-> e]]
  BY DEF SealAppend
<1> DEFINE sl == Seal("v2", e, row, p)
           new == [row EXCEPT !.hash = sl, !.prev = p]
<1>8. /\ tx'[r].rows = [tx[r].rows EXCEPT ![e] = new]
      /\ tx'[r].head = [hash |-> sl, entry |-> e]
      /\ tx'[r].linked = tx[r].linked /\ tx'[r].corr = tx[r].corr
      /\ tx'[r].audit = tx[r].audit
      /\ \A q \in Requests \ {r} : tx'[q] = tx[q]
  BY <1>7, JobType DEF Typed, TxType
<1>9. /\ sl \in Seals /\ sl # Null /\ p \in Seals \union {Null}
      /\ new \in Rows /\ new # Null
      /\ new.hash = sl /\ new.prev = p /\ new.status = "posted" /\ new.content = row.content
      /\ new.use = row.use
  <2>1. p \in Seals \union {Null}
    BY <1>5, ViewType, PreviousType
  <2>2. sl \in Seals
    BY <1>5, <1>6, <2>1, SealType
  <2>3. QED  BY <1>2, <1>6, <2>1, <2>2, NullAssumption DEF Rows
<1> HIDE DEF sl, new
<1>10. /\ tx'[r].rows[e] = new
       /\ \A x \in Entries : x # e => tx'[r].rows[x] = tx[r].rows[x]
       /\ tx'[r].head # Null /\ tx'[r].head.hash = sl
  <2>1. tx'[r].head \in Heads
    BY <1>5, <1>8, <1>9 DEF Heads
  <2>2. QED  BY <1>5, <1>8, <2>1, JobType, TxFields, NullAssumption
<1>11. \A q \in Requests : \A x \in Resources : holder[x] = q => holder'[x] = q
  BY <1>2, WantsHeld
<1>12. Created(r)' = Created(r) /\ Targets(r)' = Targets(r) /\ KeyUse(r)' = KeyUse(r)
       /\ LinkOf(r)' = LinkOf(r) /\ Tails' = Tails
  BY <1>2 DEF Created, Targets, KeyUse, LinkOf, Tails, AuditTails, Committed
<1>13. OwnRows(r)'
  BY <1>2, <1>6, <1>9, <1>10, <1>12 DEF OwnRows, Record
<1>14. ToSeal(r)'
  <2>1. SUFFICES ASSUME NEW f \in Entries, tx[r].rows[f] # Null, f # e, AppendAhead(r, f)
                 PROVE  AppendAhead(r, f)'
    BY <1>2, <1>9, <1>10 DEF ToSeal, Record, Unsealed
  <2>2. f \in Targets(r)
    BY <1>2, <2>1 DEF OwnRows, Record
  <2>3. job[r].op = "correct" /\ f \in {job[r].counter, job[r].replacement}
    BY <1>5, <2>1, <2>2 DEF Targets, Created
  <2>4. CASE s = "append"
    BY <1>2, <1>4, <1>5, <2>1, <2>3, <2>4 DEF AppendAhead
  <2>5. CASE s = "appendLast"
    BY <1>3, <1>5, <2>1, <2>3, <2>5 DEF AppendAhead
  <2>6. QED  BY <2>4, <2>5
<1>15. KeyPending(r)'
  <2>1. \A x \in Entries : tx'[r].rows[x] # Null =>
          tx[r].rows[x] # Null /\ tx'[r].rows[x].use = tx[r].rows[x].use
    BY <1>6, <1>9, <1>10
  <2>2. \A x \in Entries : tx[r].rows[x] # Null /\ tx[r].rows[x].use # Null =>
          <<"key", tx[r].rows[x].use.key>> \in Resources
    BY RowsOf
  <2>3. KeyPending(r) /\ entry' = entry /\ job' = job
    BY <1>2 DEF Record
  <2>4. QED  BY <1>11, <1>12, <2>1, <2>2, <2>3 DEF KeyPending
<1>16. AuditPending(r)' /\ LinkPending(r)'
  BY <1>2, <1>3, <1>4, <1>8, <1>11, <1>12, MoreLocks, JobType
  DEF AuditPending, LinkPending, Record, Committed
<1>17. PairPending(r)'
  <2>1. SUFFICES ASSUME job[r].op = "correct" PROVE PairPending(r)'
    BY <1>2 DEF PairPending
  <2> DEFINE c == job[r].counter
             l == job[r].replacement
  <2>2. /\ c # l /\ c \in Entries /\ l \in Entries
        /\ tx[r].rows[c] # Null /\ tx[r].rows[l] # Null
        /\ tx[r].rows[c].content = Reversal[pre[r]]
        /\ ~Ahead(r, "append") => tx[r].rows[c].hash # Null
        /\ ~Ahead(r, "append") /\ Ahead(r, "appendLast") =>
              tx[r].head # Null /\ tx[r].head.hash = tx[r].rows[c].hash
        /\ ~Ahead(r, "link") => tx[r].corr # {}
    BY <1>2, <1>3, <2>1, JobType DEF Record, PairPending
  <2>3. CASE s = "append"
    <3>1. Ahead(r, "appendLast")'
      BY <1>1, <1>2, <1>3, <1>4, <2>1, <2>3 DEF Record, InOrder, Ahead, Has
    <3>2. e = c
      BY <1>5, <2>1, <2>3
    <3>3. QED  BY <1>2, <1>4, <1>6, <1>8, <1>9, <1>10, <2>1, <2>2, <2>3, <3>1, <3>2 DEF PairPending
  <2>4. CASE s = "appendLast"
    <3>1. e = l /\ ~Ahead(r, "append") /\ ~Ahead(r, "append")' /\ ~Ahead(r, "appendLast")'
      BY <1>3, <1>4, <1>5, <2>1, <2>4
    <3>2. p = tx[r].rows[c].hash
      BY <1>3, <2>2, <2>4, <3>1 DEF HeadOf, Previous
    <3>3. QED  BY <1>2, <1>4, <1>6, <1>8, <1>9, <1>10, <2>1, <2>2, <2>4, <3>1, <3>2 DEF PairPending
  <2>5. QED  BY <2>3, <2>4
<1>18. LinkedPending(r)'
  BY <1>2, <1>6, <1>8, <1>9, <1>10, <1>12, JobType DEF LinkedPending, Record
<1>19. job[r].op = "post" /\ ~Ahead(r, "append")' =>
         tx'[r].rows[job[r].entry].hash # Null /\ entry[job[r].entry].hash = Null
  <2>1. entry[e].hash = Null
    BY <1>2, <1>5, <1>6 DEF ChainInv, SealsAreKept, SameSeal
  <2>2. QED  BY <1>5, <1>9, <1>10, <2>1
<1>20. \A x \in Entries : tx[r].rows[x] # Null => tx'[r].rows[x] # Null
  BY <1>9, <1>10
<1> HIDE DEF e, row
<1>21. QED
  BY <1>1, <1>2, <1>8, <1>11, <1>13, <1>14, <1>15, <1>16, <1>17, <1>18, <1>19, <1>20, FillStands

-----------------------------------------------------------------------------
(* The commit. *)

\* What a transaction that commits has done.
LEMMA AtCommit ==
    ASSUME Typed, RecordInv, NEW r \in Requests, Commit(r)
    PROVE  /\ Record(r) /\ Runs(r) /\ Writing(r) /\ job[r].op # "lock"
           /\ \A s : Ahead(r, s) => s = "commit"
           /\ job[r].op \in {"edit", "post", "void", "correct"} => HasRead(r)
           /\ UNCHANGED <<job, pre>>
           /\ todo'[r] = <<>> /\ tx'[r] = NoTx /\ res'[r] = "ok"
           /\ \A q \in Requests \ {r} : tx'[q] = tx[q] /\ todo'[q] = todo[q] /\ res'[q] = res[q]
           /\ audit' = audit \union tx[r].audit /\ corr' = corr \union tx[r].corr
           /\ linked' = linked \union tx[r].linked
           /\ \A q \in Requests \ {r} : \A x \in Resources : holder[x] = q => holder'[x] = q
<1>1. At(r, "commit") /\ Record(r) /\ todo[r] \in Seq(Labels)
  BY DEF Commit, RecordInv, Typed
<1>2. /\ Runs(r) /\ Ahead(r, "commit") /\ "commit" \in StatementsOf(job[r].op)
      /\ \A x : Ahead(r, x) => x = "commit" \/ x \in After("commit")
  BY <1>1, Coming DEF Record
<1>3. \A x : Ahead(r, x) => x = "commit"
  BY <1>2 DEF After, Writes, Fills
<1>4. Writing(r) /\ job[r].op # "lock"
  BY <1>2, <1>3 DEF Writing, StatementsOf
<1>5. /\ UNCHANGED <<job, pre>>
      /\ todo'[r] = <<>> /\ tx'[r] = NoTx /\ res'[r] = "ok"
      /\ \A q \in Requests \ {r} : tx'[q] = tx[q] /\ todo'[q] = todo[q] /\ res'[q] = res[q]
      /\ audit' = audit \union tx[r].audit /\ corr' = corr \union tx[r].corr
      /\ linked' = linked \union tx[r].linked /\ Release(r)
  BY DEF Commit, Answer, mem, Typed
<1>6. \A q \in Requests \ {r} : \A x \in Resources : holder[x] = q => holder'[x] = q
  BY <1>5, ReleaseHolds
<1>7. ~Ahead(r, "read")
  BY <1>3
<1>8. job[r].op \in {"edit", "post", "void", "correct"} => HasRead(r)
  BY <1>2, <1>7 DEF HasRead
<1>9. QED  BY <1>1, <1>2, <1>3, <1>4, <1>5, <1>6, <1>8

\* What becomes of a row: nothing, or what the transaction has written.
LEMMA CommittedRows ==
    ASSUME Typed, RecordInv, ChainInv, NEW r \in Requests, Commit(r), NEW e \in Entries
    PROVE  /\ tx[r].rows[e] = Null => entry'[e] = entry[e]
           /\ tx[r].rows[e] # Null => entry'[e] = tx[r].rows[e]
           /\ entry[e].status # "absent" =>
                entry'[e].status # "absent" /\ entry'[e].use = entry[e].use
           /\ entry[e].status \in Final => entry'[e].status \in Final
           /\ entry[e].hash # Null => /\ entry'[e].hash = entry[e].hash
                                      /\ entry'[e].prev = entry[e].prev
           /\ entry[e].status # "absent" /\ (job[r].op = "edit" => job[r].entry # e) =>
                entry'[e].content = entry[e].content
           /\ Unsealed(entry'[e]) =>
                Unsealed(entry[e]) /\ entry'[e].status \in {entry[e].status, "void"}
<1>1. /\ Record(r) /\ \A s : Ahead(r, s) => s = "commit"
  BY AtCommit
<1>2. /\ entry'[e] = View(r)[e]
      /\ tx[r].rows[e] = Null => entry'[e] = entry[e]
      /\ tx[r].rows[e] # Null => entry'[e] = tx[r].rows[e]
  BY ViewOf DEF Commit
<1>3. CASE tx[r].rows[e] = Null
  BY <1>2, <1>3
<1>4. CASE tx[r].rows[e] # Null
  <2>1. /\ e \in Targets(r) /\ entry'[e] = tx[r].rows[e]
        /\ tx[r].rows[e].status # "absent"
        /\ entry[e].status \in Final => tx[r].rows[e].status \in Final
        /\ entry[e].status # "absent" /\ job[r].op # "edit" =>
                tx[r].rows[e].content = entry[e].content
    BY <1>1, <1>2, <1>4 DEF Record, OwnRows
  <2>2. entry[e].status # "absent" => tx[r].rows[e].use = entry[e].use
    BY <1>1, <1>4 DEF Record, KeyPending
  <2>3. entry[e].hash # Null => tx[r].rows[e].hash = entry[e].hash /\ tx[r].rows[e].prev = entry[e].prev
    BY <1>4 DEF ChainInv, SealsAreKept, SameSeal
  <2>4. job[r].op = "edit" => e = job[r].entry
    BY <2>1 DEF Targets
  <2>5. Unsealed(entry'[e]) => Unsealed(entry[e]) /\ entry'[e].status \in {entry[e].status, "void"}
    BY <1>1, <1>4, <2>1 DEF Record, ToSeal, AppendAhead
  <2>6. QED  BY <1>4, <2>1, <2>2, <2>3, <2>4, <2>5
<1>5. QED  BY <1>3, <1>4

\* The rows another transaction has written are not touched.
LEMMA OtherRows ==
    ASSUME Typed, ChainInv, NEW r \in Requests, Commit(r), NEW q \in Requests \ {r},
           NEW e \in Entries, tx[q].rows[e] # Null
    PROVE  entry'[e] = entry[e] /\ tx[r].rows[e] = Null
  BY ViewOf DEF Commit, ChainInv, WritesAreLocked

\* An id that r makes new is in no committed row, so in no row another request read.
LEMMA CreatedIsNew ==
    ASSUME Typed, NEW r \in Requests, Record(r), NEW e \in Entries, e \in Created(r),
           tx[r].rows[e] # Null
    PROVE  entry[e].status = "absent"
  BY DEF Record, OwnRows

\* A correction a transaction adds is the first of its original, between new entries.
LEMMA LinkIsNew ==
    ASSUME Typed, NEW r \in Requests, Record(r), Writing(r), NEW k \in tx[r].corr
    PROVE  /\ job[r].op = "correct" /\ k = LinkOf(r)
           /\ k.original = job[r].entry /\ k.counter = job[r].counter
           /\ k.replacement = job[r].replacement
           /\ entry[k.counter].status = "absent" /\ entry[k.replacement].status = "absent"
           /\ holder[<<"corr", k.original>>] = r
           /\ \A l \in corr : l.original # k.original
<1>1. /\ job[r].op = "correct" /\ k = LinkOf(r)
      /\ holder[<<"corr", job[r].entry>>] = r
      /\ \A l \in corr : l.original # job[r].entry
  BY DEF Record, LinkPending
<1>2. /\ k.original = job[r].entry /\ k.counter = job[r].counter
      /\ k.replacement = job[r].replacement
  BY <1>1 DEF LinkOf
<1>3. tx[r].rows[job[r].counter] # Null /\ tx[r].rows[job[r].replacement] # Null
  BY <1>1 DEF Record, PairPending
<1>4. /\ job[r].counter \in Created(r) /\ job[r].replacement \in Created(r)
      /\ job[r].counter \in Entries /\ job[r].replacement \in Entries
  BY <1>1, JobType DEF Created
<1>5. QED  BY <1>1, <1>2, <1>3, <1>4, CreatedIsNew

\* What is said of another request stays so.
LEMMA CommitOther ==
    ASSUME Typed, RecordInv, ChainInv, NEW r \in Requests, Commit(r), NEW q \in Requests \ {r}
    PROVE  Record(q)'
<1>1. /\ Record(r) /\ Runs(r) /\ Writing(r) /\ job[r].op # "lock"
      /\ \A s : Ahead(r, s) => s = "commit"
      /\ job[r].op \in {"edit", "post", "void", "correct"} => HasRead(r)
      /\ UNCHANGED <<job, pre>> /\ tx'[q] = tx[q] /\ todo'[q] = todo[q] /\ res'[q] = res[q]
      /\ audit' = audit \union tx[r].audit /\ corr' = corr \union tx[r].corr
      /\ linked' = linked \union tx[r].linked
      /\ \A x \in Resources : holder[x] = q => holder'[x] = q
      /\ job' = job /\ pre' = pre
  BY AtCommit
<1>2. Record(q)
  BY DEF RecordInv
<1>3. /\ \A s : Ahead(q, s)' = Ahead(q, s)
      /\ Runs(q)' = Runs(q) /\ Created(q)' = Created(q)
      /\ LinkOf(q)' = LinkOf(q) /\ KeyUse(q)' = KeyUse(q)
      /\ \A e : Unedited(e)' = Unedited(e)
      /\ \A e : PostedBy(e) # {} => PostedBy(e)' # {}
  BY <1>1 DEF Ahead, Runs, Created, LinkOf, KeyUse, PostedBy, Unedited
<1>4. /\ Writing(q)' = Writing(q) /\ HasRead(q)' = HasRead(q)
      /\ Targets(q)' = Targets(q) /\ \A e : AppendAhead(q, e)' = AppendAhead(q, e)
  BY <1>1, <1>3 DEF Writing, HasRead, Targets, AppendAhead
<1>5. \A e \in Entries : tx[q].rows[e] # Null => entry'[e] = entry[e]
  BY OtherRows
<1>6. InOrder(todo[q], job[q])' /\ (Writing(q) \/ tx[q] = NoTx)'
  <2>1. InOrder(todo[q], job[q])'
    BY <1>1, <1>2 DEF Record
  <2>2. QED  BY <1>1, <1>2, <1>4, <2>1 DEF Record
<1>7. OwnRows(q)' /\ ToSeal(q)' /\ LinkedPending(q)' /\ PairPending(q)'
  <2>1. OwnRows(q)'
    <3>1. tx'[q] = tx[q] /\ job' = job /\ OwnRows(q)
      BY <1>1, <1>2 DEF Record
    <3>2. Targets(q)' = Targets(q) /\ Created(q)' = Created(q)
      BY <1>3, <1>4
    <3>3. \A e \in Entries : tx[q].rows[e] # Null => entry'[e] = entry[e]
      BY <1>5
    <3>4. QED  BY <3>1, <3>2, <3>3 DEF OwnRows
  <2>2. ToSeal(q)'
    BY <1>1, <1>2, <1>3, <1>4, <1>5 DEF Record, ToSeal
  <2>3. LinkedPending(q)'
    BY <1>1, <1>2, <1>3, <1>4 DEF Record, LinkedPending
  <2>4. PairPending(q)'
    BY <1>1, <1>2, <1>3, <1>4 DEF Record, PairPending
  <2>5. QED  BY <2>1, <2>2, <2>3, <2>4
<1>8. Seen(q)'
  <2>1. job[q].entry \in Entries
    BY JobType
  <2>2. HasRead(q) => /\ entry[job[q].entry].status # "absent"
                      /\ entry'[job[q].entry].status # "absent"
    BY <1>2, <2>1, CommittedRows DEF Record, Seen
  <2>3. HasRead(q) /\ job[q].op \in {"void", "correct"} => entry'[job[q].entry].status \in Final
    BY <1>2, <2>1, CommittedRows DEF Record, Seen
  <2>4. HasRead(q) /\ job[q].op = "edit" => \A k \in corr' : job[q].entry # k.counter
    <3>1. SUFFICES ASSUME HasRead(q), job[q].op = "edit", NEW k \in corr'
                   PROVE  job[q].entry # k.counter
      OBVIOUS
    <3>2. CASE k \in corr
      BY <1>2, <3>1, <3>2 DEF Record, Seen
    <3>3. CASE k \in tx[r].corr
      <4>1. entry[k.counter].status = "absent"
        BY <1>1, <3>3, LinkIsNew
      <4>2. QED  BY <2>2, <3>1, <4>1
    <3>4. QED  BY <1>1, <3>1, <3>2, <3>3
  <2>5. QED  BY <1>1, <1>4, <2>2, <2>3, <2>4 DEF Seen
<1>9. KeyPending(q)'
  <2>1. ASSUME NEW e \in Entries, tx[q].rows[e] # Null, entry[e].status = "absent",
               tx[q].rows[e].use # Null, NEW f \in Entries, entry'[f].use # Null
        PROVE  entry'[f].use.key # tx[q].rows[e].use.key
    <3>1. /\ <<"key", tx[q].rows[e].use.key>> \in Resources
          /\ holder[<<"key", tx[q].rows[e].use.key>>] = q
          /\ entry[f].use # Null => entry[f].use.key # tx[q].rows[e].use.key
      BY <1>2, <2>1, RowsOf DEF Record, KeyPending
    <3>2. CASE entry'[f].use = entry[f].use
      BY <2>1, <3>1, <3>2
    <3>3. CASE entry'[f].use # entry[f].use
      <4>1. tx[r].rows[f] # Null /\ entry'[f] = tx[r].rows[f] /\ entry[f].status = "absent"
        BY <3>3, CommittedRows
      <4>2. holder[<<"key", entry'[f].use.key>>] = r
        BY <1>1, <2>1, <4>1 DEF Record, KeyPending
      <4>3. QED  BY <3>1, <4>2
    <3>4. QED  BY <3>2, <3>3
  <2>2. \A e \in Entries : tx[q].rows[e] # Null /\ tx[q].rows[e].use # Null =>
          <<"key", tx[q].rows[e].use.key>> \in Resources
    BY RowsOf
  <2>3. KeyPending(q)
    BY <1>2 DEF Record
  <2>4. QED  BY <1>1, <1>3, <1>5, <2>1, <2>2, <2>3 DEF KeyPending
<1>10. AuditPending(q)'
  <2>1. tx[q].audit # {} => Tails' = Tails
    <3>1. tx[q].audit # {} => tx[r].audit = {}
      BY <1>1, <1>2 DEF Record, AuditPending
    <3>2. QED  BY <1>1, <3>1 DEF Tails, AuditTails
  <2>2. QED  BY <1>1, <1>2, <1>3, <1>4, <2>1, MoreLocks DEF Record, AuditPending
<1>11. LinkPending(q)'
  <2>1. tx[q].corr # {} => \A k \in corr' : k.original # job[q].entry
    BY <1>1, <1>2, LinkIsNew DEF Record, LinkPending
  <2>2. <<"corr", job[q].entry>> \in Resources
    BY MoreLocks, JobType
  <2>3. QED  BY <1>1, <1>2, <1>3, <2>1, <2>2 DEF Record, LinkPending
<1>12. Reversed(q)'
  <2>1. SUFFICES ASSUME job[q].op = "correct", Runs(q), ~Ahead(q, "reread"),
                        Unedited(job[q].entry)
                 PROVE  entry'[job[q].entry].content = entry[job[q].entry].content
    BY <1>1, <1>2, <1>3 DEF Record, Reversed
  <2>2. ~Ahead(q, "read")
    BY <1>2, <2>1 DEF Record, InOrder, Ahead, Has
  <2>3. entry[job[q].entry].status # "absent" /\ job[q].entry \in Entries
    BY <1>2, <2>1, <2>2, JobType DEF Record, Seen, HasRead
  <2>4. job[r].op = "edit" => job[r].entry # job[q].entry
    BY <2>1 DEF Unedited
  <2>5. QED  BY <2>3, <2>4, CommittedRows
<1>13. PostPending(q)'
  <2>1. SUFFICES ASSUME job[q].op = "post" PROVE PostPending(q)'
    BY <1>1 DEF PostPending
  <2> DEFINE e == job[q].entry
  <2>2. e \in Entries
    BY JobType
  <2>3. PostedBy(e) # {} => PostedBy(e)' # {}
    BY <1>1 DEF PostedBy
  <2>4. Writing(q) => /\ tx[q].rows[e] # Null
                      /\ ~Ahead(q, "append") => /\ tx[q].rows[e].hash # Null
                                                /\ entry'[e].hash = Null
    BY <1>2, <1>5, <2>1, <2>2 DEF Record, PostPending
  <2>5. HasRead(q) => entry'[e].status = "draft" \/ PostedBy(e)' # {}
    <3>1. SUFFICES ASSUME entry[e].status = "draft", entry'[e].status # "draft"
                   PROVE  PostedBy(e)' # {}
      BY <1>2, <2>1, <2>3 DEF Record, PostPending
    <3>2. tx[r].rows[e] # Null /\ entry'[e] = tx[r].rows[e]
      BY <2>2, <3>1, CommittedRows
    <3>3. e \in Targets(r) /\ e \notin Created(r)
          /\ (job[r].op = "edit" => tx[r].rows[e].status = entry[e].status)
      BY <1>1, <2>2, <3>1, <3>2 DEF Record, OwnRows
    <3>4. job[r].op \in {"post", "void"} /\ e = job[r].entry
      BY <1>1, <3>1, <3>2, <3>3, JobType DEF Targets, Created, Ops
    <3>5. job[r].op = "post"
      BY <1>1, <3>1, <3>4 DEF Record, Seen, Final
    <3>6. tx[r].audit # {}
      BY <1>1, <3>5 DEF Record, AuditPending
    <3>7. PICK p : tx[r].audit = {[by |-> r, prev |-> p]}
      BY <1>1, <3>6 DEF Record, AuditPending
    <3>8. [by |-> r, prev |-> p] \in PostedBy(e)'
      BY <1>1, <3>4, <3>5, <3>7 DEF PostedBy
    <3>9. QED  BY <3>8
  <2>6. res[q] = "ok" => PostedBy(e)' # {} /\ entry'[e].status \in Final
    BY <1>2, <2>1, <2>2, <2>3, CommittedRows DEF Record, PostPending
  <2>7. QED  BY <1>1, <1>3, <1>4, <2>4, <2>5, <2>6 DEF PostPending
<1>14. Served(q)'
  <2>1. ASSUME NEW e \in Entries, entry[e].use = KeyUse(q), job[q].key # Null
        PROVE  entry'[e].use = KeyUse(q)
    <3>1. KeyUse(q) # Null
      BY <2>1, JobType, NullAssumption DEF KeyUse, KeyUses
    <3>2. entry[e].status # "absent"
      BY <2>1, <3>1 DEF RecordInv, KeysStand
    <3>3. QED  BY <2>1, <3>2, CommittedRows
  <2>2. QED  BY <1>1, <1>2, <1>3, <1>4, <2>1 DEF Record, Served
<1>15. QED
  BY <1>6, <1>7, <1>8, <1>9, <1>10, <1>11, <1>12, <1>13, <1>14 DEF Record

\* What is said of the transaction that has committed.
LEMMA CommitSelf ==
    ASSUME Typed, RecordInv, ChainInv, NEW r \in Requests, Commit(r)
    PROVE  Record(r)'
<1>1. /\ Record(r) /\ Writing(r) /\ \A s : Ahead(r, s) => s = "commit"
      /\ job' = job /\ todo'[r] = <<>> /\ tx'[r] = NoTx /\ res'[r] = "ok"
      /\ audit' = audit \union tx[r].audit
  BY AtCommit
<1>2. InOrder(todo[r], job[r])' /\ ~Ahead(r, "commit")' /\ ~Runs(r)'
  BY <1>1, ShortOrder DEF Ahead, Runs
<1>3. ~Writing(r)'
  BY <1>2 DEF Writing
<1>4. /\ OwnRows(r)' /\ ToSeal(r)' /\ KeyPending(r)' /\ AuditPending(r)' /\ LinkPending(r)'
      /\ PairPending(r)' /\ LinkedPending(r)'
  BY <1>1, <1>3, Blank DEF OwnRows, ToSeal, KeyPending, AuditPending, LinkPending,
     PairPending, LinkedPending
<1>5. Seen(r)' /\ Reversed(r)'
  BY <1>2 DEF Seen, Reversed, HasRead
<1> DEFINE e == job[r].entry
<1>6. e \in Entries /\ KeyUse(r)' = KeyUse(r)
  BY <1>1, JobType DEF KeyUse
<1>7. job[r].op \notin {"correct", "match"} => tx[r].rows[e] # Null /\ entry'[e] = tx[r].rows[e]
  BY <1>1, <1>6, CommittedRows DEF Record, Served
<1>8. PostPending(r)'
  <2>1. SUFFICES ASSUME job[r].op = "post"
                 PROVE  PostedBy(e)' # {} /\ entry'[e].status \in Final
    BY <1>1, <1>2, <1>3 DEF PostPending, HasRead
  <2>2. tx[r].audit # {}
    BY <1>1, <2>1 DEF Record, AuditPending
  <2>3. PICK p : tx[r].audit = {[by |-> r, prev |-> p]}
    BY <1>1, <2>2 DEF Record, AuditPending
  <2>4. [by |-> r, prev |-> p] \in PostedBy(e)'
    BY <1>1, <2>1, <2>3 DEF PostedBy
  <2>5. entry'[e].status \in Final
    BY <1>1, <1>6, <1>7, <2>1 DEF Record, OwnRows, Final
  <2>6. QED  BY <2>4, <2>5
<1>9. Served(r)'
  <2>1. job[r].op = "create" => entry'[e].use = KeyUse(r)
    BY <1>1, <1>6, <1>7 DEF Record, KeyPending
  <2>2. QED  BY <1>1, <1>3, <1>6, <2>1 DEF Served
<1>10. QED  BY <1>1, <1>2, <1>4, <1>5, <1>8, <1>9 DEF Record

\* A commit leaves one entry per key.
LEMMA CommitKeys ==
    ASSUME Typed, RecordInv, ChainInv, NEW r \in Requests, Commit(r)
    PROVE  KeysStand'
<1>1. Record(r) /\ KeysStand
  BY AtCommit DEF RecordInv
<1>2. \A e \in Entries : entry'[e].use # entry[e].use =>
        /\ e = job[r].entry /\ entry[e].use = Null
        /\ \A f \in Entries : entry[f].use # Null => entry[f].use.key # entry'[e].use.key
  <2>1. SUFFICES ASSUME NEW e \in Entries, entry'[e].use # entry[e].use
                 PROVE  /\ e = job[r].entry /\ entry[e].use = Null
                        /\ \A f \in Entries :
                              entry[f].use # Null => entry[f].use.key # entry'[e].use.key
    OBVIOUS
  <2>2. /\ tx[r].rows[e] # Null /\ entry'[e] = tx[r].rows[e] /\ entry[e].status = "absent"
        /\ entry[e].use = Null
    BY <1>1, <2>1, CommittedRows DEF KeysStand
  <2>3. QED  BY <1>1, <2>1, <2>2 DEF Record, KeyPending
<1>3. ASSUME NEW e \in Entries, entry'[e].status = "absent" PROVE entry'[e].use = Null
  <2>1. tx[r].rows[e] = Null
    BY <1>1, <1>3, CommittedRows DEF Record, OwnRows
  <2>2. QED  BY <1>1, <1>3, <2>1, CommittedRows DEF KeysStand
<1>4. ASSUME NEW e \in Entries, NEW f \in Entries, entry'[e].use # Null, entry'[f].use # Null,
             entry'[e].use.key = entry'[f].use.key
      PROVE  e = f
  <2>1. CASE entry'[e].use = entry[e].use /\ entry'[f].use = entry[f].use
    BY <1>1, <1>4, <2>1 DEF KeysStand
  <2>2. CASE entry'[e].use # entry[e].use /\ entry'[f].use # entry[f].use
    BY <1>2, <2>2
  <2>3. CASE entry'[e].use # entry[e].use /\ entry'[f].use = entry[f].use
    BY <1>2, <1>4, <2>3
  <2>4. CASE entry'[e].use = entry[e].use /\ entry'[f].use # entry[f].use
    BY <1>2, <1>4, <2>4
  <2>5. QED  BY <2>1, <2>2, <2>3, <2>4
<1>5. QED  BY <1>3, <1>4 DEF KeysStand

\* One more audit row goes behind the tail.
LEMMA CommitAudit ==
    ASSUME Typed, RecordInv, ChainInv, NEW r \in Requests, Commit(r)
    PROVE  AuditStands'
<1>1. /\ Record(r) /\ Runs(r) /\ todo'[r] = <<>> /\ audit' = audit \union tx[r].audit
      /\ \A q \in Requests \ {r} : todo'[q] = todo[q]
  BY AtCommit
<1>2. /\ AuditIsLinear /\ IsFiniteSet(audit) /\ \A a \in audit : ~Runs(a.by)
      /\ audit \subseteq AuditRows
  BY DEF RecordInv, AuditStands, Typed
<1>3. CASE tx[r].audit = {}
  <2>1. audit' = audit
    BY <1>1, <1>3
  <2>2. AuditIsLinear' /\ IsFiniteSet(audit)'
    BY <1>2, <2>1 DEF AuditIsLinear, AuditTails
  <2>3. \A a \in audit : ~Runs(a.by)'
    BY <1>1, <1>2 DEF Runs, AuditRows
  <2>4. QED  BY <2>1, <2>2, <2>3 DEF AuditStands
<1>4. CASE tx[r].audit # {}
  <2>1. PICK p \in Tails : tx[r].audit = {[by |-> r, prev |-> p]}
    BY <1>1, <1>4 DEF Record, AuditPending
  <2> DEFINE new == [by |-> r, prev |-> p]
  <2>2. /\ audit' = audit \union {new} /\ new.by = r /\ new.prev = p
        /\ \A a \in audit : a.by # r /\ a.by \in Requests
    BY <1>1, <1>2, <2>1 DEF AuditRows
  <2> HIDE DEF new
  <2>3. \A a \in audit : a.prev # r
    <3>1. r # Null
      BY NullAssumption
    <3>2. QED  BY <1>2, <2>2, <3>1 DEF AuditIsLinear
  <2>4. IsFiniteSet(audit')
    BY <1>2, <2>2, FS_AddElement
  <2>5. CASE audit = {}
    <3>1. p = Null
      BY <2>1, <2>5 DEF Tails, AuditTails
    <3>2. AuditTails' = {new}
      BY <2>2, <2>5, <3>1, NullAssumption DEF AuditTails
    <3>3. Cardinality(AuditTails') = 1
      BY <3>2, FS_Singleton
    <3>4. AuditIsLinear'
      BY <2>2, <2>5, <3>1, <3>3 DEF AuditIsLinear
    <3>5. \A a \in audit' : ~Runs(a.by)'
      BY <1>1, <2>2, <2>5 DEF Runs
    <3>6. QED  BY <2>4, <3>4, <3>5 DEF AuditStands
  <2>6. CASE audit # {}
    <3>1. Cardinality(AuditTails) = 1 /\ IsFiniteSet(AuditTails)
      BY <1>2, <2>6, FS_Subset DEF AuditIsLinear, AuditTails
    <3>2. PICK t : AuditTails = {t}
      BY <3>1, FS_Singleton
    <3>3. t \in audit /\ p = t.by /\ \A a \in audit : a.prev # p
      BY <2>1, <3>2 DEF Tails, AuditTails
    <3>4. AuditTails' = {new}
      <4>1. \A a \in audit' : a.prev # r
        BY <2>2, <2>3, <3>3
      <4>2. new \in AuditTails'
        BY <2>2, <4>1 DEF AuditTails
      <4>3. ASSUME NEW a \in audit PROVE a \notin AuditTails'
        <5>1. CASE a = t
          BY <2>2, <3>3, <5>1 DEF AuditTails
        <5>2. CASE a # t
          <6>1. \E s \in audit : s.prev = a.by
            BY <3>2, <5>2 DEF AuditTails
          <6>2. QED  BY <2>2, <6>1 DEF AuditTails
        <5>3. QED  BY <5>1, <5>2
      <4>4. AuditTails' \subseteq audit'
        BY DEF AuditTails
      <4>5. QED  BY <2>2, <4>2, <4>3, <4>4
    <3>5. Cardinality(AuditTails') = 1
      BY <3>4, FS_Singleton
    <3>6. AuditIsLinear'
      BY <1>2, <2>2, <3>3, <3>5 DEF AuditIsLinear
    <3>7. \A a \in audit' : ~Runs(a.by)'
      BY <1>1, <1>2, <2>2 DEF Runs
    <3>8. QED  BY <2>4, <3>6, <3>7 DEF AuditStands
  <2>7. QED  BY <2>5, <2>6
<1>5. QED  BY <1>3, <1>4

\* The post that seals an entry is the first that has.
LEMMA CommitPosts ==
    ASSUME Typed, RecordInv, ChainInv, NEW r \in Requests, Commit(r)
    PROVE  PostsStand'
<1>1. /\ Record(r) /\ Writing(r) /\ \A s : Ahead(r, s) => s = "commit"
      /\ job' = job /\ audit' = audit \union tx[r].audit
  BY AtCommit
<1>2. ASSUME NEW e \in Entries
      PROVE  /\ \A a, b \in PostedBy(e)' : a = b
             /\ PostedBy(e)' # {} => entry'[e].hash # Null
  <2>1. /\ \A a, b \in PostedBy(e) : a = b
        /\ PostedBy(e) # {} => entry[e].hash # Null /\ entry'[e].hash # Null
    BY CommittedRows DEF RecordInv, PostsStand
  <2>2. CASE PostedBy(e)' = PostedBy(e)
    BY <2>1, <2>2
  <2>3. CASE PostedBy(e)' # PostedBy(e)
    <3>1. tx[r].audit # {}
      BY <1>1, <2>3 DEF PostedBy
    <3>2. PICK p : tx[r].audit = {[by |-> r, prev |-> p]}
      BY <1>1, <3>1 DEF Record, AuditPending
    <3>3. job[r].op = "post" /\ job[r].entry = e
      BY <1>1, <2>3, <3>2 DEF PostedBy
    <3>4. tx[r].rows[e] # Null /\ tx[r].rows[e].hash # Null /\ entry[e].hash = Null
      BY <1>1, <3>3 DEF Record, PostPending
    <3>5. PostedBy(e) = {} /\ entry'[e].hash # Null
      BY <2>1, <3>4, CommittedRows
    <3>6. PostedBy(e)' \subseteq {[by |-> r, prev |-> p]}
      BY <1>1, <3>2, <3>5 DEF PostedBy
    <3>7. QED  BY <3>5, <3>6
  <2>4. QED  BY <2>2, <2>3
<1>3. QED  BY <1>2 DEF PostsStand

\* A commit leaves every correction whole.
LEMMA CommitCorrections ==
    ASSUME Typed, RecordInv, ChainInv, NEW r \in Requests, Commit(r)
    PROVE  /\ CorrectionsAreWhole'
           /\ \A k \in corr' : entry'[k.original].status \in Final
<1>1. /\ Record(r) /\ Writing(r) /\ \A s : Ahead(r, s) => s = "commit"
      /\ job' = job /\ corr' = corr \union tx[r].corr /\ Runs(r)
      /\ job[r].op \in {"edit", "post", "void", "correct"} => HasRead(r)
  BY AtCommit
<1>2. \A e : Unedited(e)' = Unedited(e)
  BY <1>1 DEF Unedited
<1>3. ASSUME NEW k \in corr
      PROVE  /\ entry'[k.original].status \in Final
             /\ Unedited(k.original) =>
                  entry'[k.counter].content = Reversal[entry'[k.original].content]
             /\ entry'[k.replacement].prev = entry'[k.counter].hash
             /\ entry'[k.counter].hash # Null /\ entry'[k.replacement].hash # Null
  <2>1. /\ k.original \in Entries /\ k.counter \in Entries /\ k.replacement \in Entries
    BY DEF Typed, Links
  <2>2. /\ entry[k.original].status \in Final
        /\ Unedited(k.original) => entry[k.counter].content = Reversal[entry[k.original].content]
        /\ entry[k.replacement].prev = entry[k.counter].hash
        /\ entry[k.counter].hash # Null /\ entry[k.replacement].hash # Null
    BY DEF RecordInv, CorrectionsAreWhole
  <2>3. entry[k.counter].status \in Final
    BY <2>1, <2>2 DEF ChainInv, ChainIsLinear, Linear, Sealed, Final
  <2>4. job[r].op = "edit" => job[r].entry # k.counter
    BY <1>1 DEF Record, Seen
  <2>5. entry'[k.counter].content = entry[k.counter].content
    BY <2>1, <2>3, <2>4, CommittedRows DEF Final
  <2>6. Unedited(k.original) => entry'[k.original].content = entry[k.original].content
    BY <2>1, <2>2, CommittedRows DEF Final, Unedited
  <2>7. entry'[k.original].status \in Final
    BY <2>1, <2>2, CommittedRows
  <2>8. /\ entry'[k.counter].hash = entry[k.counter].hash
        /\ entry'[k.replacement].hash = entry[k.replacement].hash
        /\ entry'[k.replacement].prev = entry[k.replacement].prev
    BY <2>1, <2>2, CommittedRows
  <2>9. QED  BY <2>2, <2>5, <2>6, <2>7, <2>8
<1>4. ASSUME NEW k \in tx[r].corr
      PROVE  /\ entry'[k.original].status \in Final
             /\ Unedited(k.original) =>
                  entry'[k.counter].content = Reversal[entry'[k.original].content]
             /\ entry'[k.replacement].prev = entry'[k.counter].hash
             /\ entry'[k.counter].hash # Null /\ entry'[k.replacement].hash # Null
  <2>1. /\ job[r].op = "correct" /\ k.original = job[r].entry /\ k.counter = job[r].counter
        /\ k.replacement = job[r].replacement
        /\ k.original \in Entries /\ k.counter \in Entries /\ k.replacement \in Entries
    BY ZenonT(30), <1>1, LinkIsNew, JobType
  <2>2. /\ tx[r].rows[k.counter] # Null /\ tx[r].rows[k.replacement] # Null
        /\ tx[r].rows[k.counter].content = Reversal[pre[r]]
        /\ tx[r].rows[k.counter].hash # Null /\ tx[r].rows[k.replacement].hash # Null
        /\ tx[r].rows[k.replacement].prev = tx[r].rows[k.counter].hash
    BY <1>1, <2>1 DEF Record, PairPending
  <2>3. entry'[k.counter] = tx[r].rows[k.counter]
        /\ entry'[k.replacement] = tx[r].rows[k.replacement]
    BY <2>1, <2>2, CommittedRows
  <2>4. entry[k.original].status \in Final
    BY <1>1, <2>1 DEF Record, Seen
  <2>5. /\ entry'[k.original].status \in Final
        /\ entry'[k.original].content = entry[k.original].content
    BY <2>1, <2>4, CommittedRows DEF Final
  <2>6. Unedited(k.original) => pre[r] = entry[k.original].content
    BY <1>1, <2>1 DEF Record, Reversed
  <2>7. QED  BY <2>2, <2>3, <2>5, <2>6
<1>5. \A k, l \in corr' : k.original = l.original => k = l
  <2>1. \A k, l \in corr : k.original = l.original => k = l
    BY DEF RecordInv, CorrectionsAreWhole
  <2>2. \A k \in tx[r].corr : k = LinkOf(r) /\ \A l \in corr : l.original # k.original
    BY <1>1, LinkIsNew
  <2>3. QED  BY <1>1, <2>1, <2>2
<1>6. QED  BY <1>1, <1>2, <1>3, <1>4, <1>5 DEF CorrectionsAreWhole

\* A commit keeps all of it.
LEMMA CommitStands ==
    ASSUME Typed, RecordInv, ChainInv, NEW r \in Requests, Commit(r)
    PROVE  RecordInv'
<1>1. \A q \in Requests : Record(q)'
  <2>1. ASSUME NEW q \in Requests, q # r PROVE Record(q)'
    BY <2>1, CommitOther
  <2>2. QED  BY <2>1, CommitSelf
<1>2. QED
  BY <1>1, CommitKeys, CommitAudit, CommitPosts, CommitCorrections DEF RecordInv

-----------------------------------------------------------------------------
(* Every step. *)

\* A handler that has not begun has read and written nothing.
LEMMA NotBegun ==
    ASSUME NEW r \in Requests, job[r] \in JobSet, todo[r] = Script(job[r])
    PROVE  /\ job[r].op \in {"edit", "post", "void", "correct", "match"} => Ahead(r, "read")
           /\ ~Writing(r)
<1>1. job[r].op \in {"edit", "post", "void", "correct", "match"} => Ahead(r, "read")
  <2>1. job[r].op \in {"edit", "post", "void", "correct", "match"} =>
          Script(job[r])[1] = "read" /\ 1 \in 1..Len(Script(job[r]))
    BY DEF Script
  <2>2. QED  BY <2>1 DEF Ahead, Has
<1>2. job[r].op \in {"create", "bank"} => Ahead(r, "fiscal")
  <2>1. job[r].op = "bank" => Script(job[r])[1] = "fiscal" /\ 1 \in 1..Len(Script(job[r]))
    BY DEF Script
  <2>2. job[r].op = "create" => Script(job[r])[2] = "fiscal" /\ 2 \in 1..Len(Script(job[r]))
    BY DEF Script
  <2>3. QED  BY <2>1, <2>2 DEF Ahead, Has
<1>3. job[r].op = "lock" => ~Ahead(r, "commit")
  BY DEF Ahead, Has, Script
<1>4. QED  BY <1>1, <1>2, <1>3 DEF Writing, Fills, Labels, InTransaction, JobSet, Ops

\* It holds at the start.
LEMMA RecordInit == Init => RecordInv
<1> SUFFICES ASSUME Init PROVE RecordInv
  OBVIOUS
<1>2. PICK s \in Starts : entry = s.entry
  BY DEF Init
<1>3. Typed
  BY TypeInit
<1>4. ASSUME NEW r \in Requests PROVE Record(r)
  <2>1. /\ todo[r] = Script(job[r]) /\ tx[r] = NoTx /\ res[r] = "none" /\ job[r] \in JobSet
        /\ corr = {}
    BY <1>3 DEF Init, Typed
  <2>2. InOrder(todo[r], job[r])
    BY <2>1, ScriptInOrder
  <2>3. /\ job[r].op \in {"edit", "post", "void", "correct", "match"} => Ahead(r, "read")
        /\ ~Writing(r)
    BY <2>1, NotBegun
  <2>4. /\ OwnRows(r) /\ ToSeal(r) /\ KeyPending(r) /\ AuditPending(r) /\ LinkPending(r)
        /\ PairPending(r) /\ LinkedPending(r)
    BY <2>1, <2>3, BlankStands
  <2>5. ~HasRead(r)
    BY <2>3 DEF HasRead
  <2>6. Seen(r)
    BY <2>5 DEF Seen
  <2>7. Reversed(r)
    <3>1. job[r].op = "correct" => Ahead(r, "reread")
      BY <2>1, <2>2, <2>3 DEF InOrder, Ahead, Has
    <3>2. QED  BY <3>1 DEF Reversed
  <2>8. PostPending(r) /\ Served(r)
    BY <2>1, <2>3, <2>5 DEF PostPending, Served
  <2>9. QED  BY <2>1, <2>2, <2>4, <2>6, <2>7, <2>8 DEF Record
<1>5. audit = {} /\ corr = {}
  BY DEF Init
<1>6. KeysStand
  BY <1>2, KeysAssumption DEF KeysStand
<1>7. AuditStands /\ PostsStand
  BY <1>5, FS_EmptySet DEF AuditStands, AuditIsLinear, PostsStand, PostedBy
<1>8. CorrectionsAreWhole
  BY <1>5 DEF CorrectionsAreWhole
<1>9. QED  BY <1>4, <1>5, <1>6, <1>7, <1>8 DEF RecordInv

\* Every step keeps it.
LEMMA RecordNext == Typed /\ ChainInv /\ RecordInv /\ [Next]_vars => RecordInv'
<1> SUFFICES ASSUME Typed, ChainInv, RecordInv, [Next]_vars PROVE RecordInv'
  OBVIOUS
<1>2. Typed'
  BY TypeNext
<1>3. CASE UNCHANGED vars
  BY <1>3, QuietStands DEF vars, db, mem, Committed
<1>4. ASSUME NEW r \in Requests, Step(r) \/ Fail(r) PROVE RecordInv'
  <2>1. CASE Lookup(r) \/ Winner(r)
    BY <2>1, LookupStands
  <2>2. CASE Read(r)
    BY <2>2, ReadStands
  <2>3. CASE LinkCheck(r)
    BY <2>3, LinkCheckStands
  <2>4. CASE FiscalPass(r)
    BY <2>4, FiscalStands
  <2>5. CASE FiscalRefuse(r) \/ InsertDuplicate(r) \/ AppendRefused(r) \/ AppendBlocked(r)
               \/ DeadlockVictim(r) \/ Fail(r)
    BY <2>5, RollbackStands
  <2>6. CASE InsertOne(r)
    BY <2>6, InsertOneStands
  <2>7. CASE InsertPair(r)
    BY <2>7, InsertPairStands
  <2>8. CASE Reread(r)
    BY <2>8, RereadStands
  <2>9. CASE PostUpdate(r) \/ VoidUpdate(r) \/ EditUpdate(r)
    BY <2>9, UpdateStands
  <2>10. CASE SealAppend(r)
    BY <1>2, <2>10, SealStands
  <2>11. CASE Certify(r)
    BY <2>11, CertifyStands
  <2>12. CASE Audit(r)
    BY <2>12, AuditTraced
  <2>13. CASE LinkCorrection(r)
    BY <2>13, LinkStands
  <2>14. CASE RecalcRead(r)
    BY <2>14, QuietStands DEF RecalcRead, db, Committed
  <2>15. CASE RecalcWrite(r)
    BY <2>15, RecalcStands
  <2>16. CASE Commit(r)
    BY <2>16, CommitStands
  <2>17. CASE ReadPeriod(r) \/ LockPeriod(r)
    BY <2>17, PeriodStands
  <2>18. CASE MatchUpdate(r)
    BY <2>18, MatchStands
  <2>19. QED
    BY <1>4, <2>1, <2>2, <2>3, <2>4, <2>5, <2>6, <2>7, <2>8, <2>9, <2>10, <2>11, <2>12,
       <2>13, <2>14, <2>15, <2>16, <2>17, <2>18 DEF Step
<1>5. QED  BY <1>3, <1>4 DEF Next

-----------------------------------------------------------------------------
(* What the journal keeps, for any number of requests, entries and keys. *)

\* Where every handler stands, what it may have written and what it has locked agree with
\* the committed rows, in every reachable state.
THEOREM RecordCorrect == Spec => [](Typed /\ ChainInv /\ RecordInv)
<1>1. Init => Typed /\ ChainInv /\ RecordInv
  BY TypeInit, ChainInit, RecordInit
<1>2. Typed /\ ChainInv /\ RecordInv /\ [Next]_vars => (Typed /\ ChainInv /\ RecordInv)'
  BY TypeNext, ChainNext, RecordNext
<1>3. QED  BY <1>1, <1>2, PTL DEF Spec

\* One entry per idempotency key, and the same answer only to the same request.
THEOREM KeysSafe == Spec => []OneEntryPerKey
<1>1. Typed /\ RecordInv => OneEntryPerKey
  <2> SUFFICES ASSUME Typed, RecordInv PROVE OneEntryPerKey
    OBVIOUS
  <2>1. \A e, f \in Entries :
          entry[e].use # Null /\ entry[f].use # Null /\ entry[e].use.key = entry[f].use.key
              => e = f
    BY DEF RecordInv, KeysStand
  <2>2. ASSUME NEW k \in Keys, NEW q \in ServedByKey(k), NEW r \in ServedByKey(k)
        PROVE  job[q].content = job[r].content /\ job[q].posted = job[r].posted
    <3>1. /\ q \in Requests /\ job[q].op = "create" /\ job[q].key = k /\ k # Null
          /\ res[q] \in {"ok", "replayed"}
          /\ r \in Requests /\ job[r].op = "create" /\ job[r].key = k
          /\ res[r] \in {"ok", "replayed"}
      BY NullAssumption DEF ServedByKey
    <3>2. PICK e \in Entries : entry[e].use = KeyUse(q)
      BY <3>1 DEF RecordInv, Record, Served
    <3>3. PICK f \in Entries : entry[f].use = KeyUse(r)
      BY <3>1 DEF RecordInv, Record, Served
    <3>4. /\ KeyUse(q) = [key |-> k, content |-> job[q].content, posted |-> job[q].posted]
          /\ KeyUse(r) = [key |-> k, content |-> job[r].content, posted |-> job[r].posted]
      BY <3>1 DEF KeyUse
    <3>5. KeyUse(q) # Null /\ KeyUse(r) # Null
      BY <3>1, <3>4, JobType, NullAssumption DEF KeyUses
    <3>6. e = f
      BY <2>1, <3>2, <3>3, <3>4, <3>5
    <3>7. QED  BY <3>2, <3>3, <3>4, <3>6
  <2>3. QED  BY <2>1, <2>2 DEF OneEntryPerKey
<1>2. QED  BY <1>1, RecordCorrect, PTL

\* The hashed audit rows are one chain (audit.ts).
THEOREM AuditSafe == Spec => []AuditIsLinear
<1>1. RecordInv => AuditIsLinear
  BY DEF RecordInv, AuditStands
<1>2. QED  BY <1>1, RecordCorrect, PTL

\* A correction is whole, and the only one of its original.
THEOREM CorrectionsSafe == Spec => []CorrectionsAreWhole
<1>1. RecordInv => CorrectionsAreWhole
  BY DEF RecordInv
<1>2. QED  BY <1>1, RecordCorrect, PTL

-----------------------------------------------------------------------------
(* The entries that bank transactions link. *)

\* A void or a correction past its look-up of linked transactions.
HasChecked(r) ==
    /\ job[r].op \in {"void", "correct"} /\ Runs(r)
    /\ ~Ahead(r, "linkCheck") /\ ~Ahead(r, "read")

\* A match that has found its entry posted.
HasFound(r) == job[r].op = "match" /\ Runs(r) /\ ~Ahead(r, "read")

VoidAnswered(e) ==
    \E q \in Requests : job[q].op = "void" /\ job[q].entry = e /\ res[q] = "ok"

\* What makes BankEntriesStand inductive: no link is behind a void or a correction
\* that looked and found none, unless a match overtook it; an entry that was found
\* posted is so until a void of it is answered; whoever corrected was answered.
BankInv ==
    /\ BankEntriesStand
    /\ \A r \in Requests : Runs(r) => res[r] = "none"
    /\ \A r \in Requests : HasChecked(r) => job[r].entry \notin linked \ raced
    /\ \A r \in Requests : HasFound(r) =>
         entry[job[r].entry].status = "posted" \/ VoidAnswered(job[r].entry)
    /\ \A k \in corr : \E q \in Requests :
         job[q].op = "correct" /\ job[q].entry = k.original /\ res[q] = "ok"

\* It holds before any request has run.
LEMMA BankInit == Init => BankInv
<1> SUFFICES ASSUME Init PROVE BankInv
  OBVIOUS
<1>1. Typed
  BY TypeInit
<1>2. linked = {} /\ corr = {} /\ \A r \in Requests : res[r] = "none"
  BY DEF Init
<1>3. ASSUME NEW r \in Requests PROVE ~HasChecked(r) /\ ~HasFound(r)
  <2>1. todo[r] = Script(job[r]) /\ job[r] \in JobSet
    BY <1>1 DEF Init, Typed
  <2>2. job[r].op \in {"void", "correct", "match"} => Ahead(r, "read")
    BY <2>1, NotBegun
  <2>3. QED  BY <2>2 DEF HasChecked, HasFound
<1>4. QED  BY <1>2, <1>3 DEF BankInv, BankEntriesStand

\* A step of r that commits nothing, given what r has found by it.
LEMMA BankStep ==
    ASSUME BankInv, NEW r \in Requests, Runs(r),
           UNCHANGED <<entry, corr, linked, raced, job>>,
           \A q \in Requests \ {r} : todo'[q] = todo[q] /\ res'[q] = res[q],
           Runs(r)' => res'[r] = res[r],
           HasChecked(r)' => HasChecked(r) \/ job[r].entry \notin linked,
           HasFound(r)' => HasFound(r) \/ entry[job[r].entry].status = "posted"
    PROVE  BankInv'
<1>1. \A q \in Requests \ {r} :
        /\ Runs(q)' = Runs(q) /\ HasChecked(q)' = HasChecked(q) /\ HasFound(q)' = HasFound(q)
  BY DEF Runs, HasChecked, HasFound, Ahead
<1>2. \A q \in Requests : res[q] = "ok" => res'[q] = "ok"
  BY DEF BankInv
<1>3. \A e : VoidAnswered(e) => VoidAnswered(e)'
  BY <1>2 DEF VoidAnswered
<1>4. BankEntriesStand'
  BY DEF BankInv, BankEntriesStand
<1>5. \A q \in Requests : Runs(q)' => res'[q] = "none"
  BY <1>1 DEF BankInv
<1>6. \A q \in Requests : HasChecked(q)' => job[q].entry \notin linked \ raced
  BY <1>1 DEF BankInv
<1>7. \A q \in Requests : HasFound(q)' =>
        entry[job[q].entry].status = "posted" \/ VoidAnswered(job[q].entry)'
  BY <1>1, <1>3 DEF BankInv
<1>8. \A k \in corr : \E q \in Requests :
        job[q].op = "correct" /\ job[q].entry = k.original /\ res'[q] = "ok"
  BY <1>2 DEF BankInv
<1>9. QED  BY <1>4, <1>5, <1>6, <1>7, <1>8 DEF BankInv

\* A statement that goes on, or has to be run once more.
LEMMA BankAdvance ==
    ASSUME Typed, RecordInv, BankInv, NEW r \in Requests, NEW s, At(r, s),
           Advance(r) \/ todo' = todo, UNCHANGED <<entry, corr, linked, raced, job, res>>,
           s = "read" /\ job[r].op = "match" => entry[job[r].entry].status = "posted",
           s = "linkCheck" => job[r].entry \notin linked
    PROVE  BankInv'
<1>1. Runs(r) /\ InOrder(todo[r], job[r])
  BY DEF At, Runs, RecordInv, Record
<1>2. CASE todo' = todo
  <2>1. Runs(r)' = Runs(r) /\ HasChecked(r)' = HasChecked(r) /\ HasFound(r)' = HasFound(r)
    BY <1>2 DEF Runs, HasChecked, HasFound, Ahead
  <2>2. QED  BY <1>1, <1>2, <2>1, BankStep
<1>3. CASE Advance(r)
  <2>1. /\ \A x : Ahead(r, x) => x = s \/ Ahead(r, x)'
        /\ \A q \in Requests \ {r} : todo'[q] = todo[q]
    BY <1>1, <1>3, Onward
  <2>2. HasFound(r)' => HasFound(r) \/ entry[job[r].entry].status = "posted"
    BY <1>1, <2>1 DEF HasFound
  <2>3. HasChecked(r)' => HasChecked(r) \/ job[r].entry \notin linked
    <3>1. CASE s = "read"
      <4>1. Ahead(r, "read") /\ todo[r] \in Seq(Labels)
        BY <1>1, <3>1, Coming DEF Typed
      <4>2. job[r].op \in {"void", "correct"} => Ahead(r, "linkCheck")
        BY <1>1, <4>1 DEF InOrder, Ahead, Has
      <4>3. QED  BY <2>1, <3>1, <4>2 DEF HasChecked
    <3>2. CASE s # "read"
      BY <1>1, <2>1, <3>2 DEF HasChecked
    <3>3. QED  BY <3>1, <3>2
  <2>4. QED  BY <1>1, <2>1, <2>2, <2>3, BankStep
<1>4. QED  BY <1>2, <1>3

\* An answer that commits nothing.
LEMMA BankAnswer ==
    ASSUME Typed, BankInv, NEW r \in Requests, Runs(r), NEW a, Answer(r, a),
           UNCHANGED <<entry, corr, linked, raced, job>>
    PROVE  BankInv'
<1>1. /\ todo'[r] = <<>>
      /\ \A q \in Requests \ {r} : todo'[q] = todo[q] /\ res'[q] = res[q]
  BY DEF Answer, Typed
<1>2. ~Runs(r)' /\ ~HasChecked(r)' /\ ~HasFound(r)'
  BY <1>1 DEF Runs, HasChecked, HasFound
<1>3. QED  BY <1>1, <1>2, BankStep

\* A rollback.
LEMMA BankAbort ==
    ASSUME Typed, BankInv, NEW r \in Requests, Runs(r), NEW rest, Abort(r, rest),
           rest = <<>> \/ job[r].op \in {"create", "post"}
    PROVE  BankInv'
<1>1. /\ todo'[r] = rest /\ UNCHANGED <<entry, corr, linked, raced, job>> /\ job' = job
      /\ rest # <<>> => res' = res
      /\ \A q \in Requests \ {r} : todo'[q] = todo[q] /\ res'[q] = res[q]
  BY DEF Abort, Typed, db
<1>2. (Runs(r)' => res'[r] = res[r]) /\ ~HasChecked(r)' /\ ~HasFound(r)'
  BY <1>1 DEF Runs, HasChecked, HasFound
<1>3. QED  BY <1>1, <1>2, BankStep

\* A link a transaction adds is of the entry it creates, or of the one it matches.
LEMMA LinkedIsOwn ==
    ASSUME Typed, NEW r \in Requests, Record(r), NEW e \in tx[r].linked
    PROVE  /\ job[r].op \in {"bank", "match"} /\ e = job[r].entry /\ e \in Entries
           /\ job[r].op = "bank" => /\ entry[e].status = "absent" /\ tx[r].rows[e] # Null
                                    /\ tx[r].rows[e].status = "posted"
<1>1. /\ job[r].op \in {"bank", "match"} /\ e = job[r].entry /\ e \in Entries
      /\ job[r].op = "bank" => tx[r].rows[e] # Null /\ tx[r].rows[e].status = "posted"
  BY JobType DEF Record, LinkedPending
<1>2. job[r].op = "bank" => e \in Created(r)
  BY <1>1 DEF Created
<1>3. QED  BY <1>1, <1>2, CreatedIsNew

\* Only a void takes a posted entry out of force.
LEMMA PostedStays ==
    ASSUME Typed, RecordInv, ChainInv, NEW r \in Requests, Commit(r), NEW e \in Entries,
           entry[e].status = "posted"
    PROVE  entry'[e].status = "posted" \/ (job[r].op = "void" /\ job[r].entry = e)
<1>1. Record(r) /\ job[r].op # "lock"
  BY AtCommit
<1>2. SUFFICES ASSUME tx[r].rows[e] # Null, ~(job[r].op = "void" /\ job[r].entry = e)
               PROVE  tx[r].rows[e].status = "posted"
  BY CommittedRows
<1>3. e \in Targets(r) /\ e \notin Created(r)
      /\ (job[r].op = "edit" => tx[r].rows[e].status = entry[e].status)
      /\ (job[r].op = "post" => tx[r].rows[e].status = "posted")
  BY <1>1, <1>2 DEF Record, OwnRows
<1>4. job[r].op \in {"post", "void", "edit"} /\ e = job[r].entry
  BY <1>1, <1>3, JobType DEF Targets, Created, Ops
<1>5. QED  BY <1>2, <1>3, <1>4

\* A commit leaves the linked entries posted and uncorrected, and marks an entry as
\* raced when its link comes too late for a void or a correction to see it.
LEMMA BankCommit ==
    ASSUME Typed, RecordInv, ChainInv, BankInv, NEW r \in Requests, Commit(r)
    PROVE  BankInv'
<1>1. /\ Record(r) /\ Runs(r) /\ Writing(r) /\ \A s : Ahead(r, s) => s = "commit"
      /\ job' = job /\ todo'[r] = <<>> /\ res'[r] = "ok"
      /\ corr' = corr \union tx[r].corr /\ linked' = linked \union tx[r].linked
      /\ \A q \in Requests \ {r} : todo'[q] = todo[q] /\ res'[q] = res[q]
  BY AtCommit
<1>2. raced' = raced \union {e \in Entries : Overtaken(r, e)}
  BY DEF Commit
<1>3. /\ ~Runs(r)' /\ ~HasChecked(r)' /\ ~HasFound(r)'
      /\ \A q \in Requests \ {r} :
           Runs(q)' = Runs(q) /\ HasChecked(q)' = HasChecked(q) /\ HasFound(q)' = HasFound(q)
  BY <1>1 DEF Runs, HasChecked, HasFound, Ahead
<1>4. /\ job[r].op \in {"void", "correct"} => HasChecked(r)
      /\ job[r].op = "match" => HasFound(r)
  BY <1>1 DEF HasChecked, HasFound
<1>5. ASSUME NEW e \in linked \ raced
      PROVE  entry'[e].status = "posted" /\ \A k \in corr' : k.original # e
  <2>1. entry[e].status = "posted" /\ e \in Entries /\ \A k \in corr : k.original # e
    BY DEF BankInv, BankEntriesStand, Typed
  <2>2. job[r].op \in {"void", "correct"} => job[r].entry # e
    BY <1>4 DEF BankInv
  <2>3. \A k \in tx[r].corr : k.original # e
    BY ZenonT(30), <1>1, <2>2, LinkIsNew
  <2>4. QED  BY <1>1, <2>1, <2>2, <2>3, PostedStays
<1>6. ASSUME NEW e \in tx[r].linked, e \notin raced'
      PROVE  entry'[e].status = "posted" /\ \A k \in corr' : k.original # e
  <2>1. /\ job[r].op \in {"bank", "match"} /\ e = job[r].entry /\ e \in Entries
        /\ job[r].op = "bank" => /\ entry[e].status = "absent" /\ tx[r].rows[e] # Null
                                 /\ tx[r].rows[e].status = "posted"
    BY <1>1, LinkedIsOwn
  <2>2. tx[r].corr = {}
    BY <1>1, <2>1 DEF Record, LinkPending
  <2>3. CASE job[r].op = "bank"
    <3>1. \A k \in corr : k.original # e
      BY <2>1, <2>3 DEF RecordInv, Final
    <3>2. QED  BY <1>1, <2>1, <2>2, <2>3, <3>1, CommittedRows
  <2>4. CASE job[r].op = "match"
    <3>1. ~Overtaken(r, e)
      BY <1>2, <1>6, <2>1
    <3>2. \A q \in Requests : job[q].op \in {"void", "correct"} /\ job[q].entry = e => res[q] # "ok"
      BY <2>4, <3>1 DEF Overtaken
    <3>3. entry[e].status = "posted"
      BY <1>4, <2>1, <2>4, <3>2 DEF BankInv, VoidAnswered
    <3>4. \A k \in corr : k.original # e
      BY <3>2 DEF BankInv
    <3>5. entry'[e].status = "posted"
      BY <2>1, <2>4, <3>3, PostedStays
    <3>6. QED  BY <1>1, <2>2, <3>4, <3>5
  <2>5. QED  BY <2>1, <2>3, <2>4
<1>7. BankEntriesStand'
  BY <1>1, <1>2, <1>5, <1>6 DEF BankEntriesStand
<1>8. \A q \in Requests : Runs(q)' => res'[q] = "none"
  BY <1>1, <1>3 DEF BankInv
<1>9. ASSUME NEW q \in Requests, HasChecked(q)' PROVE job[q].entry \notin linked' \ raced'
  <2>1. q # r /\ HasChecked(q) /\ job[q].op \in {"void", "correct"}
    BY <1>3, <1>9 DEF HasChecked
  <2>2. job[q].entry \notin linked \ raced
    BY <2>1 DEF BankInv
  <2>3. ASSUME job[q].entry \in tx[r].linked PROVE job[q].entry \in raced'
    <3>1. /\ job[r].op \in {"bank", "match"} /\ job[q].entry \in Entries
          /\ job[r].op = "bank" => entry[job[q].entry].status = "absent"
      BY <1>1, <2>3, LinkedIsOwn
    <3>2. entry[job[q].entry].status # "absent"
      BY <2>1 DEF RecordInv, Record, Seen, HasChecked, HasRead
    <3>3. todo[q] # <<>> /\ Head(todo[q]) \notin {"read", "linkCheck"}
      <4>1. todo[q] \in Seq(Labels) /\ todo[q] # <<>>
        BY <2>1 DEF Typed, HasChecked, Runs
      <4>2. Ahead(q, Head(todo[q]))
        BY <4>1, TailHas DEF Ahead
      <4>3. QED  BY <2>1, <4>1, <4>2 DEF HasChecked
    <3>4. Overtaken(r, job[q].entry)
      BY <2>1, <2>3, <3>1, <3>2, <3>3 DEF Overtaken
    <3>5. QED  BY <1>2, <3>1, <3>4
  <2>4. QED  BY <1>1, <1>2, <2>2, <2>3
<1>10. ASSUME NEW q \in Requests, HasFound(q)'
       PROVE  entry'[job[q].entry].status = "posted" \/ VoidAnswered(job[q].entry)'
  <2>1. HasFound(q) /\ job[q].entry \in Entries
    BY <1>3, <1>10, JobType
  <2>2. CASE entry[job[q].entry].status = "posted"
    BY <1>1, <2>1, <2>2, PostedStays DEF VoidAnswered
  <2>3. CASE VoidAnswered(job[q].entry)
    BY <1>1, <2>3 DEF VoidAnswered
  <2>4. QED  BY <2>1, <2>2, <2>3 DEF BankInv
<1>11. ASSUME NEW k \in corr'
       PROVE  \E q \in Requests :
                job[q].op = "correct" /\ job[q].entry = k.original /\ res'[q] = "ok"
  <2>1. CASE k \in corr
    BY <1>1, <2>1 DEF BankInv
  <2>2. CASE k \in tx[r].corr
    <3>1. job[r].op = "correct" /\ job[r].entry = k.original
      BY ZenonT(30), <1>1, <2>2, LinkIsNew
    <3>2. QED  BY <1>1, <3>1
  <2>3. QED  BY <1>1, <1>11, <2>1, <2>2
<1>12. QED  BY <1>1, <1>7, <1>8, <1>9, <1>10, <1>11 DEF BankInv

\* Every step keeps it.
LEMMA BankNext == Typed /\ ChainInv /\ RecordInv /\ BankInv /\ [Next]_vars => BankInv'
<1> SUFFICES ASSUME Typed, ChainInv, RecordInv, BankInv, [Next]_vars PROVE BankInv'
  OBVIOUS
<1>1. CASE UNCHANGED vars
  BY <1>1 DEF vars, db, BankInv, BankEntriesStand, Runs, HasChecked, HasFound, Ahead, VoidAnswered
<1>2. ASSUME NEW r \in Requests, Step(r) \/ Fail(r) PROVE BankInv'
  <2>1. CASE Commit(r)
    BY <2>1, BankCommit
  <2>2. CASE FiscalRefuse(r) \/ AppendBlocked(r) \/ DeadlockVictim(r) \/ Fail(r)
    <3>1. Runs(r)
      BY <2>2 DEF FiscalRefuse, AppendBlocked, AtAppend, At, DeadlockVictim, Deadlocked, Wants,
                  Fail, Runs
    <3>2. QED  BY <2>2, <3>1, BankAbort DEF FiscalRefuse, AppendBlocked, DeadlockVictim, Fail
  <2>3. CASE InsertDuplicate(r) \/ AppendRefused(r)
    BY <2>3, BankAbort DEF InsertDuplicate, AppendRefused, AtAppend, At, Runs
  <2>4. CASE Lookup(r) \/ Winner(r) \/ Certify(r) \/ ReadPeriod(r)
    <3>1. UNCHANGED <<entry, corr, linked, raced, job>>
      BY <2>4 DEF Lookup, Winner, Certify, ReadPeriod, db
    <3>2. PICK s \in {"lookup", "winner", "certify", "readPeriod"} : At(r, s)
      BY <2>4 DEF Lookup, Winner, Certify, ReadPeriod
    <3>3. CASE Advance(r) /\ res' = res
      BY <3>1, <3>2, <3>3, BankAdvance
    <3>4. CASE \E a : Answer(r, a)
      BY <3>1, <3>2, <3>4, BankAnswer DEF At, Runs
    <3>5. QED  BY <2>4, <3>3, <3>4 DEF Lookup, Winner, Certify, ReadPeriod
  <2>5. CASE LockPeriod(r)
    BY <2>5, BankAnswer DEF LockPeriod, At, Runs
  <2>6. CASE Read(r)
    <3>1. At(r, "read") /\ UNCHANGED <<entry, corr, linked, raced, job>>
      BY <2>6 DEF Read, db
    <3>2. CASE entry[job[r].entry].status = Required(job[r].op)
      BY <2>6, <3>1, <3>2, BankAdvance DEF Read, Required
    <3>3. CASE entry[job[r].entry].status # Required(job[r].op)
      BY <2>6, <3>1, <3>3, BankAnswer DEF Read, At, Runs
    <3>4. QED  BY <3>2, <3>3
  <2>7. CASE LinkCheck(r)
    <3>1. At(r, "linkCheck") /\ UNCHANGED <<entry, corr, linked, raced, job>>
      BY <2>7 DEF LinkCheck, db
    <3>2. CASE job[r].entry \in linked
      BY <2>7, <3>1, <3>2, BankAnswer DEF LinkCheck, At, Runs
    <3>3. CASE job[r].entry \notin linked
      BY <2>7, <3>1, <3>3, BankAdvance DEF LinkCheck
    <3>4. QED  BY <3>2, <3>3
  <2>8. CASE FiscalPass(r) \/ InsertOne(r) \/ InsertPair(r) \/ SealAppend(r) \/ Audit(r)
             \/ RecalcRead(r) \/ RecalcWrite(r)
    <3>1. UNCHANGED <<entry, corr, linked, raced, job, res>> /\ (Advance(r) \/ todo' = todo)
      BY <2>8 DEF FiscalPass, InsertOne, InsertPair, SealAppend, Audit, RecalcRead, RecalcWrite, db
    <3>2. PICK s \in {"fiscal", "insert", "append", "appendLast", "audit", "recalc"} : At(r, s)
      BY <2>8 DEF FiscalPass, InsertOne, InsertPair, SealAppend, AtAppend, Audit, RecalcRead,
                  RecalcWrite
    <3>3. QED  BY <3>1, <3>2, BankAdvance
  <2>9. CASE PostUpdate(r) \/ VoidUpdate(r) \/ EditUpdate(r)
    BY <2>9, BankAdvance DEF PostUpdate, VoidUpdate, EditUpdate, Update, db
  <2>10. CASE Reread(r) \/ LinkCorrection(r) \/ MatchUpdate(r)
    <3>1. PICK s \in {"reread", "link", "match"} : At(r, s)
      BY <2>10 DEF Reread, LinkCorrection, MatchUpdate
    <3>2. CASE Abort(r, <<>>)
      BY <3>1, <3>2, BankAbort DEF At, Runs
    <3>3. CASE ~Abort(r, <<>>)
      <4>1. Advance(r) /\ UNCHANGED <<entry, corr, linked, raced, job, res>>
        BY <2>10, <3>3 DEF Reread, LinkCorrection, MatchUpdate, db
      <4>2. QED  BY <3>1, <4>1, BankAdvance
    <3>4. QED  BY <3>2, <3>3
  <2>11. QED
    BY <1>2, <2>1, <2>2, <2>3, <2>4, <2>5, <2>6, <2>7, <2>8, <2>9, <2>10 DEF Step
<1>3. QED  BY <1>1, <1>2 DEF Next

\* No entry that a bank transaction links is voided or corrected, unless a match
\* linked it while the void or the correction was past its look-up or made.
THEOREM BankSafe == Spec => []BankEntriesStand
<1>1. Typed /\ ChainInv /\ RecordInv /\ BankInv /\ [Next]_vars => BankInv'
  BY BankNext
<1>2. BankInv => BankEntriesStand
  BY DEF BankInv
<1>3. QED  BY <1>1, <1>2, BankInit, RecordCorrect, PTL DEF Spec

-----------------------------------------------------------------------------
(* Transactions that have ended. *)

\* Locks are held only by a transaction that has written.
LocksAreOfWriters == \A r \in Requests : \A x \in Resources : holder[x] = r => Writing(r)

\* A step of r that gives a lock to r alone, and only once r has written.
LEMMA LocksStep ==
    ASSUME LocksAreOfWriters, NEW r \in Requests,
           \A q \in Requests \ {r} : todo'[q] = todo[q],
           \A q \in Requests \ {r} : \A x \in Resources : holder'[x] = q => holder[x] = q,
           Writing(r)' \/ \A x \in Resources : holder'[x] # r
    PROVE  LocksAreOfWriters'
<1>1. \A q \in Requests \ {r} : Writing(q)' = Writing(q)
  BY DEF Writing, Ahead
<1>2. QED  BY <1>1 DEF LocksAreOfWriters

\* Every step keeps it: a lock is taken by the write or after it, and given back
\* with the transaction, however that ends.
LEMMA LocksNext == Typed /\ RecordInv /\ LocksAreOfWriters /\ [Next]_vars => LocksAreOfWriters'
<1> SUFFICES ASSUME Typed, RecordInv, LocksAreOfWriters, [Next]_vars
             PROVE  LocksAreOfWriters'
  OBVIOUS
<1>1. CASE UNCHANGED <<holder, todo>>
  BY <1>1 DEF LocksAreOfWriters, Writing, Ahead
<1>2. ASSUME NEW r \in Requests, Step(r) \/ Fail(r) PROVE LocksAreOfWriters'
  <2>1. CASE Commit(r) \/ \E rest : Abort(r, rest)
    <3>1. Release(r) /\ \A q \in Requests \ {r} : todo'[q] = todo[q]
      BY <2>1 DEF Commit, Answer, Abort, Typed
    <3>2. \A x \in Resources :
            holder'[x] # r /\ \A q \in Requests \ {r} : holder'[x] = q => holder[x] = q
      BY <3>1, NullAssumption DEF Release
    <3>3. QED  BY <3>1, <3>2, LocksStep
  <2>2. CASE /\ Lookup(r) \/ Winner(r) \/ Certify(r) \/ ReadPeriod(r) \/ LockPeriod(r)
                \/ Read(r) \/ LinkCheck(r) \/ FiscalPass(r) \/ Reread(r)
             /\ ~Abort(r, <<>>)
    <3>1. PICK s \in {"lookup", "winner", "certify", "readPeriod", "lockPeriod", "read",
                      "linkCheck", "fiscal", "reread"} : At(r, s)
      BY <2>2 DEF Lookup, Winner, Certify, ReadPeriod, LockPeriod, Read, LinkCheck, FiscalPass,
                  Reread
    <3>2. s \in Before
      BY DEF Before, Labels, InTransaction, Writes, Fills
    <3>3. ~Writing(r)
      BY <3>1, <3>2, NotYet DEF RecordInv
    <3>4. holder' = holder /\ (Advance(r) \/ \E a : Answer(r, a))
      BY <2>2 DEF Lookup, Winner, Certify, ReadPeriod, LockPeriod, Read, LinkCheck, FiscalPass,
                  Reread
    <3>5. \A q \in Requests \ {r} : todo'[q] = todo[q]
      BY <3>4 DEF Advance, Answer, Typed
    <3>6. QED  BY <3>3, <3>4, <3>5, LocksStep DEF LocksAreOfWriters
  <2>3. CASE /\ InsertOne(r) \/ InsertPair(r) \/ PostUpdate(r) \/ VoidUpdate(r) \/ EditUpdate(r)
                \/ MatchUpdate(r)
             /\ ~Abort(r, <<>>)
    <3>1. PICK s \in Writes : At(r, s)
      BY <2>3 DEF InsertOne, InsertPair, PostUpdate, VoidUpdate, EditUpdate, Update, MatchUpdate,
                  Writes
    <3>2. Advance(r) /\ job' = job /\ \E X : Take(r, X)
      BY <2>3 DEF InsertOne, InsertPair, PostUpdate, VoidUpdate, EditUpdate, Update, MatchUpdate
    <3>3. Writing(r)' /\ \A q \in Requests \ {r} : todo'[q] = todo[q]
      BY <3>1, <3>2, Written DEF RecordInv
    <3>4. \A q \in Requests \ {r} : \A x \in Resources : holder'[x] = q => holder[x] = q
      BY <3>2 DEF Take
    <3>5. QED  BY <3>3, <3>4, LocksStep
  <2>4. CASE /\ SealAppend(r) \/ Audit(r) \/ LinkCorrection(r) \/ RecalcWrite(r)
             /\ ~Abort(r, <<>>)
    <3>1. PICK s \in Fills : At(r, s) /\ Goes(r, s)
      BY <2>4 DEF SealAppend, AtAppend, Audit, LinkCorrection, RecalcWrite, At, Fills, Goes
    <3>2. job' = job /\ \E X : Take(r, X)
      BY <2>4 DEF SealAppend, Audit, LinkCorrection, RecalcWrite
    <3>3. Writing(r)' /\ \A q \in Requests \ {r} : todo'[q] = todo[q]
      BY <3>1, <3>2, Filled DEF RecordInv
    <3>4. \A q \in Requests \ {r} : \A x \in Resources : holder'[x] = q => holder[x] = q
      BY <3>2 DEF Take
    <3>5. QED  BY <3>3, <3>4, LocksStep
  <2>5. CASE RecalcRead(r)
    BY <1>1, <2>5 DEF RecalcRead
  <2>6. CASE FiscalRefuse(r) \/ InsertDuplicate(r) \/ AppendRefused(r) \/ AppendBlocked(r)
               \/ DeadlockVictim(r) \/ Fail(r)
    BY <2>1, <2>6 DEF FiscalRefuse, InsertDuplicate, AppendRefused, AppendBlocked, DeadlockVictim,
                      Fail
  <2>7. QED  BY <1>2, <2>1, <2>2, <2>3, <2>4, <2>5, <2>6 DEF Step
<1>3. QED  BY <1>1, <1>2 DEF Next, vars

\* In every reachable state the types hold, and a request that has been answered holds
\* no lock and has no write left, whether it committed, failed or was a deadlock's victim.
THEOREM TypeCorrect == Spec => []TypeOK
<1>1. Init => LocksAreOfWriters
  BY NullAssumption DEF Init, LocksAreOfWriters
<1>2. Typed /\ RecordInv /\ LocksAreOfWriters /\ [Next]_vars => LocksAreOfWriters'
  BY LocksNext
<1>3. Typed /\ RecordInv /\ LocksAreOfWriters => TypeOK
  <2>1. SUFFICES ASSUME Typed, RecordInv, LocksAreOfWriters, NEW r \in Requests, todo[r] = <<>>
                 PROVE  tx[r] = NoTx /\ \A x \in Resources : holder[x] # r
    BY DEF TypeOK
  <2>2. ~Writing(r)
    BY <2>1, ShortOrder DEF Writing, Ahead
  <2>3. QED  BY <2>1, <2>2 DEF RecordInv, Record, LocksAreOfWriters
<1>4. QED  BY <1>1, <1>2, <1>3, RecordCorrect, PTL DEF Spec

-----------------------------------------------------------------------------
(* Posts. *)

\* A history without legacy rows: every posted entry was sealed.
SealedStarts == \A s \in Starts : \A e \in Entries : ~Unsealed(s.entry[e])

\* No step leaves a posted entry unsealed.
LEMMA SealedNext ==
    ASSUME Typed, ChainInv, RecordInv, PostedIsSealed, [Next]_vars
    PROVE  PostedIsSealed'
<1>1. CASE entry' = entry
  BY <1>1 DEF PostedIsSealed
<1>2. CASE entry' # entry
  <2>1. PICK r \in Requests : Commit(r)
    BY <1>2, OnlyCommitWrites
  <2>2. QED  BY <2>1, CommittedRows DEF PostedIsSealed, Unsealed, Final
<1>3. QED  BY <1>1, <1>2

\* From a history in which every posted entry is sealed, every one stays sealed,
\* and a post that is answered with success left its entry posted with exactly
\* one audit row, losers of the race included (posting.service.ts).
THEOREM PostsSafe == SealedStarts => (Spec => []PostAnswersTruthfully)
<1> SUFFICES ASSUME SealedStarts PROVE Spec => []PostAnswersTruthfully
  OBVIOUS
<1>1. Init => PostedIsSealed
  BY DEF SealedStarts, Unsealed, Final, Init, PostedIsSealed
<1>2. Typed /\ ChainInv /\ RecordInv /\ PostedIsSealed /\ [Next]_vars => PostedIsSealed'
  BY SealedNext
<1>3. Typed /\ RecordInv /\ PostedIsSealed => PostAnswersTruthfully
  <2> SUFFICES ASSUME Typed, RecordInv, PostedIsSealed,
                      NEW r \in Requests, job[r].op = "post", res[r] = "ok"
               PROVE  /\ entry[job[r].entry].status \in {"posted", "void"}
                      /\ Cardinality({a \in audit : /\ job[a.by].op = "post"
                                                    /\ job[a.by].entry = job[r].entry}) = 1
    BY DEF PostAnswersTruthfully
  <2>1. job[r].entry \in Entries
    BY JobType
  <2>2. PostedBy(job[r].entry) # {} /\ entry[job[r].entry].status \in Final
    BY DEF RecordInv, Record, PostPending
  <2>3. \A a, b \in PostedBy(job[r].entry) : a = b
    BY <2>1 DEF RecordInv, PostsStand
  <2>4. PICK a : PostedBy(job[r].entry) = {a}
    BY <2>2, <2>3
  <2>5. Cardinality(PostedBy(job[r].entry)) = 1
    BY <2>4, FS_Singleton
  <2>6. QED  BY <2>2, <2>5 DEF PostedBy, Final
<1>4. Spec => []PostedIsSealed
  BY <1>1, <1>2, RecordCorrect, PTL DEF Spec
<1>5. QED  BY <1>3, <1>4, RecordCorrect, PTL

-----------------------------------------------------------------------------
(* The root of the chain. *)

\* Rows are rooted by what they have sealed.
LEMMA SameRoot ==
    ASSUME NEW rows, NEW old, \A e \in Entries : SameSeal(rows[e], old[e]), Rooted(rows)
    PROVE  Rooted(old)
  BY DEF Rooted, Sealed, SameSeal

\* A step that seals nothing and commits nothing.
LEMMA RootKept ==
    ASSUME RootInv, entry' = entry,
           \A q \in Requests : \/ tx'[q].rows = tx[q].rows
                               \/ \A e \in Entries : SameSeal(View(q)'[e], entry[e])
    PROVE  RootInv'
<1>1. /\ Rooted(entry)' = Rooted(entry) /\ Open(entry)' = Open(entry)
      /\ Rooted(entry) => Open(entry) = {}
  BY DEF RootInv, Rooted, Sealed, Open
<1>2. ASSUME NEW q \in Requests, Rooted(View(q))'
      PROVE  (Open(entry) \intersect Open(View(q)) = {})'
  <2>1. CASE tx'[q].rows = tx[q].rows
    <3>1. View(q)' = View(q)
      BY <2>1 DEF View
    <3>2. Rooted(View(q)) /\ Open(View(q))' = Open(View(q))
      BY <1>2, <3>1 DEF Rooted, Sealed, Open
    <3>3. QED  BY <1>1, <3>2 DEF RootInv
  <2>2. CASE \A e \in Entries : SameSeal(View(q)'[e], entry[e])
    <3>1. Rooted(View(q)')
      BY <1>2 DEF Rooted, Sealed
    <3>2. Rooted(entry)
      BY <2>2, <3>1, SameRoot
    <3>3. QED  BY <1>1, <3>2
  <2>3. QED  BY <2>1, <2>2
<1>3. QED  BY <1>1, <1>2 DEF RootInv

\* A rollback gives no transaction a root.
LEMMA RootAbort ==
    ASSUME Typed, RootInv, NEW r \in Requests, NEW rest, Abort(r, rest)
    PROVE  RootInv'
<1>1. /\ entry' = entry /\ tx'[r] = NoTx /\ \A q \in Requests \ {r} : tx'[q] = tx[q]
  BY DEF Abort, Typed, db
<1>2. \A e \in Entries : View(r)'[e] = entry[e]
  BY <1>1, NoTxIsBlank DEF View
<1>3. QED  BY <1>1, <1>2, RootKept DEF SameSeal

\* The first writes of a transaction seal nothing.
LEMMA RootWrite ==
    ASSUME Typed, Typed', ChainInv, RecordInv, RootInv, NEW r \in Requests,
           InsertOne(r) \/ InsertPair(r) \/ PostUpdate(r) \/ VoidUpdate(r) \/ EditUpdate(r)
    PROVE  RootInv'
<1>1. PICK s \in Writes : At(r, s)
  BY DEF InsertOne, InsertPair, PostUpdate, VoidUpdate, EditUpdate, Update, Writes
<1>2. /\ Advance(r) /\ job' = job /\ entry' = entry /\ Record(r)
      /\ \A q \in Requests \ {r} : tx'[q] = tx[q]
  BY DEF InsertOne, InsertPair, PostUpdate, VoidUpdate, EditUpdate, Update, RecordInv, db, Typed
<1>3. tx[r] = NoTx /\ tx[r] \in TxType
  BY <1>1, <1>2, Written, JobType
<1>4. \A e \in Entries : entry[e].status = "absent" => entry[e].hash = Null
  BY DEF ChainInv, ChainIsLinear, Linear, Sealed
<1>5. \A e \in Entries : tx'[r].rows[e] # Null => SameSeal(tx'[r].rows[e], entry[e])
  <2> DEFINE x == job[r].entry
  <2>1. CASE InsertOne(r)
    <3>1. PICK row : /\ tx'[r].rows = [tx[r].rows EXCEPT ![x] = row]
                     /\ row.hash = Null /\ entry[x].status = "absent"
      <4>1. PICK st, y : tx' = [tx EXCEPT ![r].rows[x] = NewRow(st, job[r].content, KeyUse(r)),
                                          ![r].linked = y]
        BY <2>1 DEF InsertOne
      <4>2. tx'[r].rows = [tx[r].rows EXCEPT ![x] = NewRow(st, job[r].content, KeyUse(r))]
        BY <1>3, <4>1 DEF Typed, TxType
      <4>3. entry[x].status = "absent" /\ NewRow(st, job[r].content, KeyUse(r)).hash = Null
        BY <2>1 DEF InsertOne, Unused, NewRow
      <4>4. QED  BY <4>2, <4>3
    <3>2. \A e \in Entries : e # x => tx'[r].rows[e] = Null
      BY <1>3, <3>1, Blank, TxFields
    <3>3. QED  BY <1>3, <1>4, <3>1, <3>2, TxFields, JobType DEF SameSeal
  <2>2. CASE InsertPair(r)
    <3> DEFINE c == job[r].counter
               p == job[r].replacement
    <3>1. PICK crow, prow :
             /\ tx'[r].rows = [tx[r].rows EXCEPT ![c] = crow, ![p] = prow]
             /\ crow.hash = Null /\ prow.hash = Null
             /\ entry[c].status = "absent" /\ entry[p].status = "absent" /\ c # p
      <4>1. PICK y, z : tx' = [tx EXCEPT ![r].rows[c] = NewRow("posted", y, Null),
                                         ![r].rows[p] = NewRow("posted", z, Null)]
        BY <2>2 DEF InsertPair
      <4>2. tx'[r].rows = [tx[r].rows EXCEPT ![c] = NewRow("posted", y, Null),
                                             ![p] = NewRow("posted", z, Null)]
        BY <1>3, <4>1, JobType DEF Typed, TxType
      <4>3. /\ entry[c].status = "absent" /\ entry[p].status = "absent" /\ c # p
            /\ NewRow("posted", y, Null).hash = Null /\ NewRow("posted", z, Null).hash = Null
        BY <2>2 DEF InsertPair, Unused, NewRow
      <4>4. QED  BY <4>2, <4>3
    <3>2. \A e \in Entries : e \notin {c, p} => tx'[r].rows[e] = Null
      BY <1>3, <3>1, Blank, TxFields
    <3>3. QED  BY <1>3, <1>4, <3>1, <3>2, TxFields, JobType DEF SameSeal
  <2>3. CASE PostUpdate(r) \/ VoidUpdate(r) \/ EditUpdate(r)
    <3>1. View(r)[x] = entry[x] /\ entry[x] \in Rows
      BY <1>3, Blank, ViewOf, RowsOf, JobType
    <3>2. PICK row : /\ Update(r, row)
                     /\ row.hash = entry[x].hash /\ row.prev = entry[x].prev
      BY <2>3, <3>1 DEF PostUpdate, VoidUpdate, EditUpdate, Rows
    <3>3. tx'[r].rows = [tx[r].rows EXCEPT ![x] = row]
      BY <1>3, <3>2 DEF Update, Typed, TxType
    <3>4. \A e \in Entries : e # x => tx'[r].rows[e] = Null
      BY <1>3, <3>3, Blank, TxFields
    <3>5. QED  BY <1>3, <3>2, <3>3, <3>4, TxFields, JobType DEF SameSeal
  <2>4. QED  BY <2>1, <2>2, <2>3
<1>6. \A e \in Entries : SameSeal(View(r)'[e], entry[e])
  BY <1>2, <1>5 DEF View, SameSeal
<1>7. QED  BY <1>2, <1>6, RootKept

\* A new root is offered only when nothing posted is left unsealed.
LEMMA RootSeal ==
    ASSUME Typed, RootInv, NEW r \in Requests, SealAppend(r)
    PROVE  RootInv'
<1> DEFINE e == Appended(r)
           row == View(r)[e]
<1>1. PICK p \in Previous(View(r), HeadOf(r), e) :
         tx' = [tx EXCEPT ![r].rows[e] = [row EXCEPT !.hash = Seal("v2", e, row, p), !.prev = p],
                          ![r].head = [hash |-> Seal("v2", e, row, p), entry |-> e]]
  BY DEF SealAppend
<1> DEFINE new == [row EXCEPT !.hash = Seal("v2", e, row, p), !.prev = p]
<1>2. /\ entry' = entry /\ e \in Entries /\ row \in Rows /\ tx[r] \in TxType
      /\ \A q \in Requests \ {r} : tx'[q] = tx[q]
  BY <1>1, JobType, ViewType DEF SealAppend, db, Typed
<1>3. /\ tx'[r].rows = [tx[r].rows EXCEPT ![e] = new]
      /\ new.hash # Null /\ new.prev = p /\ new # Null
  <2>1. p \in Seals \union {Null}
    BY <1>2, ViewType, PreviousType
  <2>2. Seal("v2", e, row, p) \in Seals
    BY <1>2, <2>1, SealType
  <2>3. new \in Rows /\ new.hash = Seal("v2", e, row, p) /\ new.prev = p
    BY <1>2, <2>1, <2>2 DEF Rows
  <2>4. tx'[r].rows = [tx[r].rows EXCEPT ![e] = new]
    BY <1>1, <1>2 DEF Typed, TxType
  <2>5. QED  BY <2>2, <2>3, <2>4, NullAssumption
<1> HIDE DEF new
<1>4. View(r)'[e] = new /\ \A f \in Entries : f # e => View(r)'[f] = View(r)[f]
  BY <1>2, <1>3, TxFields DEF View
<1>5. /\ Rooted(entry)' = Rooted(entry) /\ Open(entry)' = Open(entry)
      /\ Rooted(entry) => Open(entry) = {}
  BY <1>2 DEF RootInv, Rooted, Sealed, Open
<1>6. Rooted(View(r))' => (Open(entry) \intersect Open(View(r)) = {})'
  <2>1. Open(View(r))' \subseteq Open(View(r)) \ {e}
    BY <1>2, <1>3, <1>4 DEF Open
  <2>2. CASE p = Null
    <3>1. \A f \in Entries \ {e} : ~(View(r)[f].status = "posted" /\ View(r)[f].hash = Null)
      <4>1. HeadOf(r) # Null => HeadOf(r).hash # Null
        BY ViewType, NullAssumption DEF Heads
      <4>2. \A t \in LegacyMembers(View(r)) : View(r)[t].hash # Null
        BY DEF LegacyMembers
      <4>3. QED  BY <1>1, <2>2, <4>1, <4>2 DEF Previous
    <3>2. QED  BY <2>1, <3>1 DEF Open
  <2>3. CASE p # Null
    <3>1. Rooted(View(r))' => Rooted(View(r))
      BY <1>3, <1>4, <2>3 DEF Rooted, Sealed
    <3>2. QED  BY <1>5, <2>1, <3>1 DEF RootInv
  <2>4. QED  BY <2>2, <2>3
<1>7. ASSUME NEW q \in Requests \ {r}, Rooted(View(q))'
      PROVE  (Open(entry) \intersect Open(View(q)) = {})'
  <2>1. View(q)' = View(q)
    BY <1>2 DEF View
  <2>2. Rooted(View(q)) /\ Open(View(q))' = Open(View(q))
    BY <1>7, <2>1 DEF Rooted, Sealed, Open
  <2>3. QED  BY <1>5, <2>2 DEF RootInv
<1>8. QED  BY <1>5, <1>6, <1>7 DEF RootInv

\* The view of another transaction is rooted by its own writes or by the committed ones.
LEMMA RootCommit ==
    ASSUME Typed, ChainInv, RecordInv, RootInv, NEW r \in Requests, Commit(r)
    PROVE  RootInv'
<1>1. /\ entry' = View(r) /\ tx'[r] = NoTx /\ \A q \in Requests \ {r} : tx'[q] = tx[q]
  BY AtCommit DEF Commit
<1>2. Open(entry') \subseteq Open(entry) /\ Open(entry') = Open(View(r))
  BY <1>1, CommittedRows DEF Open, Unsealed, Final
<1>3. Rooted(entry') => Open(entry') = {}
  BY <1>1, <1>2 DEF RootInv
<1>4. /\ Rooted(entry)' => Rooted(entry')
      /\ Open(entry)' = Open(entry')
  BY DEF Rooted, Sealed, Open
<1>5. ASSUME NEW q \in Requests, Rooted(View(q))'
      PROVE  (Open(entry) \intersect Open(View(q)) = {})'
  <2>1. CASE q = r
    <3>1. \A e \in Entries : View(r)'[e] = entry'[e]
      BY <1>1, NoTxIsBlank DEF View
    <3>2. Rooted(entry')
      BY <1>5, <2>1, <3>1 DEF Rooted, Sealed
    <3>3. QED  BY <1>3, <1>4, <3>2
  <2>2. CASE q # r
    <3>1. PICK f \in Entries : /\ View(q)'[f].hash # Null /\ View(q)'[f].prev = Null
                               /\ View(q)'[f].hash.ver = "v2"
      BY <1>5 DEF Rooted, Sealed
    <3>2. CASE tx[q].rows[f] = Null
      <4>1. View(q)'[f] = entry'[f]
        BY <1>1, <2>2, <3>2 DEF View
      <4>2. Rooted(entry')
        BY <3>1, <4>1 DEF Rooted, Sealed
      <4>3. QED  BY <1>3, <1>4, <4>2
    <3>3. CASE tx[q].rows[f] # Null
      <4>1. View(q)'[f] = View(q)[f]
        BY <1>1, <2>2, <3>3 DEF View
      <4>2. Rooted(View(q))
        BY <3>1, <4>1 DEF Rooted, Sealed
      <4>3. Open(entry) \intersect Open(View(q)) = {}
        BY <4>2 DEF RootInv
      <4>4. ASSUME NEW x \in Open(entry'), x \in Open(View(q)') PROVE FALSE
        <5>1. x \in Open(entry) /\ x \in Entries
          BY <1>2, <4>4 DEF Open
        <5>2. x \in Open(View(q))
          BY <1>1, <2>2, <4>4, <5>1 DEF Open, View
        <5>3. QED  BY <4>3, <5>1, <5>2
      <4>5. QED  BY <4>4 DEF Open
    <3>4. QED  BY <3>2, <3>3
  <2>3. QED  BY <2>1, <2>2
<1>6. QED  BY <1>3, <1>4, <1>5 DEF RootInv

\* Every step keeps the root covering.
LEMMA RootNext == Typed /\ ChainInv /\ RecordInv /\ RootInv /\ [Next]_vars => RootInv'
<1> SUFFICES ASSUME Typed, ChainInv, RecordInv, RootInv, [Next]_vars PROVE RootInv'
  OBVIOUS
<1>1. Typed'
  BY TypeNext
<1>2. CASE UNCHANGED vars
  BY <1>2, RootKept DEF vars, db
<1>3. ASSUME NEW r \in Requests, Step(r) \/ Fail(r) PROVE RootInv'
  <2>1. CASE \E rest : Abort(r, rest)
    BY <2>1, RootAbort
  <2>2. CASE InsertOne(r) \/ InsertPair(r) \/ PostUpdate(r) \/ VoidUpdate(r) \/ EditUpdate(r)
    BY <1>1, <2>2, RootWrite
  <2>3. CASE SealAppend(r)
    BY <2>3, RootSeal
  <2>4. CASE Commit(r)
    BY <2>4, RootCommit
  <2>5. CASE Lookup(r) \/ Read(r) \/ LinkCheck(r) \/ FiscalPass(r) \/ Winner(r) \/ Certify(r)
               \/ RecalcRead(r) \/ ReadPeriod(r) \/ LockPeriod(r)
    <3>1. entry' = entry /\ tx' = tx
      BY <2>5 DEF Lookup, Read, LinkCheck, FiscalPass, Winner, Certify, RecalcRead, ReadPeriod,
         LockPeriod, db
    <3>2. QED  BY <3>1, RootKept
  <2>6. CASE Audit(r) \/ LinkCorrection(r) \/ RecalcWrite(r) \/ Reread(r) \/ MatchUpdate(r)
    <3>1. SUFFICES ASSUME ~(\E rest : Abort(r, rest)) PROVE RootInv'
      BY <2>1
    <3>2. entry' = entry /\ tx'[r].rows = tx[r].rows /\ \A q \in Requests \ {r} : tx'[q] = tx[q]
      <4>1. CASE Audit(r)
        <5>1. PICK y : tx' = [tx EXCEPT ![r].audit = y]
          BY <4>1 DEF Audit
        <5>2. QED  BY <4>1, <5>1 DEF Audit, db, Typed, TxType
      <4>2. CASE LinkCorrection(r)
        <5>1. PICK y : tx' = [tx EXCEPT ![r].corr = y]
          BY <3>1, <4>2 DEF LinkCorrection
        <5>2. entry' = entry
          BY <3>1, <4>2 DEF LinkCorrection, db
        <5>3. QED  BY <5>1, <5>2 DEF Typed, TxType
      <4>3. CASE RecalcWrite(r)
        BY <4>3 DEF RecalcWrite, db, Typed, TxType
      <4>4. CASE Reread(r)
        BY <3>1, <4>4 DEF Reread, db
      <4>5. CASE MatchUpdate(r)
        <5>1. PICK y : tx' = [tx EXCEPT ![r].linked = y]
          BY <3>1, <4>5 DEF MatchUpdate
        <5>2. entry' = entry
          BY <3>1, <4>5 DEF MatchUpdate, db
        <5>3. QED  BY <5>1, <5>2 DEF Typed, TxType
      <4>6. QED  BY <2>6, <4>1, <4>2, <4>3, <4>4, <4>5
    <3>3. QED  BY <3>2, RootKept
  <2>7. FiscalRefuse(r) \/ InsertDuplicate(r) \/ AppendRefused(r) \/ AppendBlocked(r)
          \/ DeadlockVictim(r) \/ Fail(r) => \E rest : Abort(r, rest)
    BY DEF FiscalRefuse, InsertDuplicate, AppendRefused, AppendBlocked, DeadlockVictim, Fail
  <2>8. QED  BY <1>3, <2>1, <2>2, <2>3, <2>4, <2>5, <2>6, <2>7 DEF Step
<1>4. QED  BY <1>2, <1>3 DEF Next

\* A history whose chain, if it was opened by a v2 root, left no posted entry unsealed.
RootedStarts == \A s \in Starts : Rooted(s.entry) => Open(s.entry) = {}

\* From such a history, no v2 root is ever opened over a posted row without a seal,
\* not even by two transactions of which each sees the other's row unposted.
THEOREM RootSafe == RootedStarts => (Spec => []NoRootOverUnsealed)
<1> SUFFICES ASSUME RootedStarts PROVE Spec => []NoRootOverUnsealed
  OBVIOUS
<1>1. Init => RootInv
  <2> SUFFICES ASSUME Init PROVE RootInv
    OBVIOUS
  <2>1. Rooted(entry) => Open(entry) = {}
    BY DEF Init, RootedStarts
  <2>2. ASSUME NEW r \in Requests, Rooted(View(r)) PROVE Open(entry) = {}
    <3>1. \A e \in Entries : View(r)[e] = entry[e]
      BY NoTxIsBlank DEF Init, View
    <3>2. Rooted(entry)
      BY <2>2, <3>1 DEF Rooted, Sealed
    <3>3. QED  BY <2>1, <3>2
  <2>3. QED  BY <2>1, <2>2 DEF RootInv
<1>2. Typed /\ ChainInv /\ RecordInv /\ RootInv /\ [Next]_vars => RootInv'
  BY RootNext
<1>3. Typed /\ RootInv => NoRootOverUnsealed
  <2> SUFFICES ASSUME Typed, RootInv, Open(entry) # {},
                      NEW f \in Sealed(entry), entry[f].prev = Null
               PROVE  entry[f].hash.ver = "v1"
    BY DEF NoRootOverUnsealed, Open
  <2>1. entry[f].hash.ver # "v2"
    BY DEF RootInv, Rooted
  <2>2. entry[f].hash \in Seals
    BY DEF Typed, Sealed, Rows
  <2>3. QED  BY <2>1, <2>2 DEF Seals
<1>4. Spec => []RootInv
  BY <1>1, <1>2, RecordCorrect, PTL DEF Spec
<1>5. QED  BY <1>3, <1>4, RecordCorrect, PTL

-----------------------------------------------------------------------------
(* The balances. *)

\* Handlers that take the lock of the audit trail before they aggregate.
Audited == {"create", "post", "void", "lock"}

AuditedWorkloads == \A w \in Workloads : \A r \in Requests : w[r].op \in Audited

Recalculates(j) == j.op \in {"post", "void"} \/ (j.op = "create" /\ j.posted)

\* In the rest of a handler the audit row precedes the balances, and a write precedes the
\* audit row and the balances it moves.
AuditFirst(t, j) ==
    /\ \A i, k \in 1..Len(t) : t[i] = "recalc" /\ t[k] = "audit" => k < i
    /\ \A i \in 1..Len(t) : t[i] \in Writes =>
         Has(t, "audit") /\ (Recalculates(j) => Has(t, "recalc"))

\* What r has written moves no posted line of account a.
Still(r, a) ==
    \A e \in Entries : tx[r].rows[e] # Null =>
        tx[r].rows[e].status = "draft" \/ a \notin Touches[tx[r].rows[e].content]

\* r has the lock of the audit trail whenever it has an aggregate, so that nobody else
\* commits; and each account it moves is aggregated, or still due.
Balanced(r) ==
    /\ job[r].op \in Audited
    /\ AuditFirst(todo[r], job[r])
    /\ Writing(r) /\ ~Ahead(r, "audit") => holder[<<"audit">>] = r
    /\ Ahead(r, "update") /\ ~Ahead(r, "read") => due[r] = Touches[entry[job[r].entry].content]
    /\ sum[r] # Null => At(r, "recalc") /\ sum[r].value = Counted(View(r), sum[r].account)
    /\ \A a \in Accounts :
        /\ tx[r].gl[a] # Null => /\ Writing(r) /\ ~Ahead(r, "audit")
                                 /\ tx[r].gl[a].value = Counted(View(r), a)
        /\ Writing(r) /\ tx[r].gl[a] = Null =>
             (a \in due[r] /\ Ahead(r, "recalc")) \/ Still(r, a)

BalanceInv == BalancesAreExact /\ \A r \in Requests : Balanced(r)

\* What counts in a balance is the status and the lines of the rows.
LEMMA SameCount ==
    ASSUME NEW rows, NEW old, NEW a,
           \A e \in Entries : rows[e].status = old[e].status /\ rows[e].content = old[e].content
    PROVE  Counted(rows, a) = Counted(old, a)
  BY DEF Counted, Postings

\* The order of the statements, one by one.
LEMMA TailFirst ==
    ASSUME NEW t \in Seq(Labels), t # <<>>, NEW j, InOrder(t, j), AuditFirst(t, j)
    PROVE  /\ AuditFirst(Tail(t), j)
           /\ Head(t) = "recalc" => ~Has(t, "audit")
           /\ Head(t) \in Writes => /\ Has(Tail(t), "audit")
                                    /\ Recalculates(j) => Has(Tail(t), "recalc")
<1>1. /\ Tail(t) \in Seq(Labels) /\ Head(t) = t[1] /\ Len(t) \in Nat /\ Len(t) >= 1
      /\ Len(Tail(t)) = Len(t) - 1
      /\ \A i \in 1..Len(Tail(t)) : Tail(t)[i] = t[i + 1] /\ i + 1 \in 1..Len(t)
      /\ 1 \in 1..Len(t)
  OBVIOUS
<1>2. Head(t) = "recalc" => ~Has(t, "audit")
  BY <1>1 DEF AuditFirst, Has
<1>3. Head(t) \in Writes => Has(Tail(t), "audit") /\ (Recalculates(j) => Has(Tail(t), "recalc"))
  <2>1. "recalc" \notin Writes /\ "audit" \notin Writes
    BY DEF Writes
  <2>2. QED  BY <1>1, <2>1, TailHas DEF AuditFirst
<1>4. ASSUME NEW i \in 1..Len(Tail(t)), NEW k \in 1..Len(Tail(t)),
             Tail(t)[i] = "recalc", Tail(t)[k] = "audit"
      PROVE  k < i
  <2>1. k + 1 < i + 1
    BY <1>1, <1>4 DEF AuditFirst
  <2>2. QED  BY <2>1
<1>5. ASSUME NEW i \in 1..Len(Tail(t)), Tail(t)[i] \in Writes
      PROVE  Has(Tail(t), "audit") /\ (Recalculates(j) => Has(Tail(t), "recalc"))
  <2>1. /\ Has(t, "audit") /\ (Recalculates(j) => Has(t, "recalc"))
        /\ t[i + 1] \in After(t[1])
    BY <1>1, <1>5 DEF AuditFirst, InOrder
  <2>2. t[1] # "recalc" /\ t[1] # "audit"
    BY <1>1, <1>5, <2>1 DEF After, Writes, Fills
  <2>3. QED  BY <1>1, <2>1, <2>2, TailHas
<1>6. QED  BY <1>2, <1>3, <1>4, <1>5 DEF AuditFirst

\* Every handler begins so, and every rest a rollback leaves.
LEMMA ScriptFirst ==
    ASSUME NEW j \in JobSet
    PROVE  /\ j.op \in Audited => AuditFirst(Script(j), j)
           /\ AuditFirst(<<>>, j) /\ AuditFirst(<<"winner">>, j) /\ AuditFirst(<<"certify">>, j)
<1> USE DEF AuditFirst, Has, Writes, Audited, Recalculates
<1>1. CASE j.op = "create"
  <2>1. CASE j.posted
    BY <1>1, <2>1 DEF Script
  <2>2. CASE ~j.posted
    BY <1>1, <2>2 DEF Script
  <2>3. QED  BY <2>1, <2>2
<1>2. CASE j.op = "post"
  BY <1>2 DEF Script
<1>3. CASE j.op = "void"
  BY <1>3 DEF Script
<1>4. CASE j.op = "lock"
  BY <1>4 DEF Script
<1>5. CASE j.op \notin Audited
  BY <1>5
<1>6. QED  BY <1>1, <1>2, <1>3, <1>4, <1>5

\* A request that another one's step leaves alone.
LEMMA OtherBalanced ==
    ASSUME Typed, NEW q \in Requests, Balanced(q), entry' = entry, job' = job,
           tx'[q] = tx[q], todo'[q] = todo[q], due'[q] = due[q], sum'[q] = sum[q],
           \A x \in Resources : holder[x] = q => holder'[x] = q
    PROVE  Balanced(q)'
<1>1. /\ \A s : Ahead(q, s)' = Ahead(q, s)
      /\ Writing(q)' = Writing(q)
      /\ \A s : At(q, s)' = At(q, s)
      /\ \A a : Still(q, a)' = Still(q, a)
      /\ \A a : Counted(View(q), a)' = Counted(View(q), a)
  BY DEF Ahead, Writing, At, Still, Counted, View
<1>2. QED  BY <1>1, MoreLocks DEF Balanced

\* A step of r that commits nothing.
LEMMA BalancedStep ==
    ASSUME Typed, BalanceInv, NEW r \in Requests, entry' = entry, balance' = balance,
           job' = job, Balanced(r)',
           \A q \in Requests \ {r} :
               /\ tx'[q] = tx[q] /\ todo'[q] = todo[q] /\ due'[q] = due[q] /\ sum'[q] = sum[q]
               /\ \A x \in Resources : holder[x] = q => holder'[x] = q
    PROVE  BalanceInv'
<1>1. \A q \in Requests : Balanced(q)'
  <2>1. ASSUME NEW q \in Requests, q # r PROVE Balanced(q)'
    BY <2>1, OtherBalanced DEF BalanceInv
  <2>2. QED  BY <2>1
<1>2. BalancesAreExact'
  BY DEF BalanceInv, BalancesAreExact, Counted
<1>3. QED  BY <1>1, <1>2 DEF BalanceInv

\* A request with no writes, no aggregate and no write ahead of it.
LEMMA BlankBalanced ==
    ASSUME Typed, NEW r \in Requests, job[r].op \in Audited, AuditFirst(todo[r], job[r]),
           tx[r] = NoTx, sum[r] = Null, ~Writing(r),
           Ahead(r, "update") /\ ~Ahead(r, "read") =>
               due[r] = Touches[entry[job[r].entry].content]
    PROVE  Balanced(r)
<1>1. \A a \in Accounts : tx[r].gl[a] = Null
  BY DEF NoTx
<1>2. QED  BY <1>1 DEF Balanced

\* A rollback.
LEMMA BalancedAbort ==
    ASSUME Typed, Typed', RecordInv, BalanceInv, NEW r \in Requests, NEW rest,
           rest \in {<<>>, <<"winner">>, <<"certify">>}, Abort(r, rest)
    PROVE  BalanceInv'
<1>1. /\ entry' = entry /\ balance' = balance /\ job' = job /\ due' = due
      /\ tx'[r] = NoTx /\ todo'[r] = rest /\ sum'[r] = Null /\ Release(r)
      /\ \A q \in Requests \ {r} : tx'[q] = tx[q] /\ todo'[q] = todo[q] /\ sum'[q] = sum[q]
  BY DEF Abort, Typed, db
<1>2. \A q \in Requests \ {r} : \A x \in Resources : holder[x] = q => holder'[x] = q
  BY <1>1, ReleaseHolds
<1>3. ~Ahead(r, "commit")' /\ ~Ahead(r, "update")'
  BY <1>1, ShortOrder DEF Ahead
<1>4. AuditFirst(todo[r], job[r])' /\ job'[r].op \in Audited
  BY ZenonT(30), <1>1, ScriptFirst DEF Typed, BalanceInv, Balanced
<1>5. Balanced(r)'
  <2>1. ~Writing(r)'
    BY <1>3 DEF Writing
  <2>2. \A a \in Accounts : tx'[r].gl[a] = Null
    BY <1>1 DEF NoTx
  <2>3. QED  BY <1>1, <1>3, <1>4, <2>1, <2>2 DEF Balanced
<1>6. QED  BY <1>1, <1>2, <1>5, BalancedStep

\* A statement before the write.
LEMMA BalancedBefore ==
    ASSUME Typed, RecordInv, BalanceInv, NEW r \in Requests, NEW s \in Before, At(r, s),
           UNCHANGED <<entry, balance, holder, tx, job, sum>>,
           \/ Advance(r) /\ s # "read" /\ due' = due
           \/ Advance(r) /\ due' = [due EXCEPT ![r] = Touches[entry[job[r].entry].content]]
           \/ due' = due /\ \E a : Answer(r, a)
    PROVE  BalanceInv'
<1>1. /\ Record(r) /\ Balanced(r) /\ todo[r] \in Seq(Labels) /\ todo[r] # <<>>
      /\ tx[r] = NoTx /\ InOrder(todo[r], job[r])
  BY NotYet DEF RecordInv, BalanceInv, Typed, Record, At
<1>2. sum[r] = Null
  BY <1>1 DEF Balanced, At, Before, Fills
<1>3. \A q \in Requests \ {r} : todo'[q] = todo[q] /\ due'[q] = due[q]
  BY DEF Advance, Answer, Typed
<1>4. /\ ~Writing(r)' /\ AuditFirst(todo'[r], job[r])
      /\ Ahead(r, "update")' /\ ~Ahead(r, "read")' =>
           due'[r] = Touches[entry[job[r].entry].content]
  <2>1. CASE Advance(r)
    <3>1. /\ todo'[r] = Tail(todo[r])
          /\ \A x : Ahead(r, x)' => Ahead(r, x)
          /\ \A x : Ahead(r, x) => x = s \/ Ahead(r, x)'
          /\ Ahead(r, "commit") => \E w \in Writes : Ahead(r, w)'
      BY <1>1, <2>1, Onward DEF Advance, Typed
    <3>2. ~Writing(r)'
      BY <3>1, LabelSets DEF Writing, Writes, Fills
    <3>3. AuditFirst(todo'[r], job[r])
      BY <1>1, <3>1, TailFirst DEF Balanced
    <3>4. CASE s # "read" /\ due' = due
      BY <1>1, <3>1, <3>2, <3>3, <3>4 DEF Balanced
    <3>5. CASE due' = [due EXCEPT ![r] = Touches[entry[job[r].entry].content]]
      BY <3>2, <3>3, <3>5 DEF Typed
    <3>6. CASE \E a : Answer(r, a)
      <4>1. todo'[r] = <<>>
        BY <3>6 DEF Answer, Typed
      <4>2. ~Ahead(r, "update")'
        BY <4>1, ShortOrder DEF Ahead
      <4>3. QED  BY <3>2, <3>3, <4>2
    <3>7. QED  BY <3>4, <3>5, <3>6
  <2>2. CASE \E a : Answer(r, a)
    <3>1. todo'[r] = <<>>
      BY <2>2 DEF Answer, Typed
    <3>2. ~Ahead(r, "update")' /\ ~Ahead(r, "commit")'
      BY <3>1, ShortOrder DEF Ahead
    <3>3. AuditFirst(todo'[r], job[r])
      BY <3>1, ScriptFirst DEF Typed
    <3>4. QED  BY <3>2, <3>3 DEF Writing
  <2>3. QED  BY <2>1, <2>2
<1>5. \A a \in Accounts : tx'[r].gl[a] = Null
  BY <1>1 DEF NoTx
<1>6. Balanced(r)'
  BY <1>1, <1>2, <1>4, <1>5 DEF Balanced
<1>7. QED  BY <1>3, <1>6, BalancedStep

\* The write of an entry, given what it makes of the accounts still due.
LEMMA BalancedWrite ==
    ASSUME Typed, RecordInv, BalanceInv, NEW r \in Requests, NEW s \in Writes,
           At(r, s), Advance(r), UNCHANGED <<entry, balance, job, sum>>,
           tx'[r].gl = tx[r].gl,
           \A q \in Requests \ {r} :
               /\ tx'[q] = tx[q] /\ due'[q] = due[q]
               /\ \A x \in Resources : holder[x] = q => holder'[x] = q,
           \A a \in Accounts : (Recalculates(job[r]) /\ a \in due'[r]) \/ Still(r, a)'
    PROVE  BalanceInv'
<1>1. /\ Record(r) /\ Balanced(r) /\ todo[r] \in Seq(Labels) /\ todo[r] # <<>>
      /\ InOrder(todo[r], job[r]) /\ Head(todo[r]) = s
  BY DEF RecordInv, BalanceInv, Typed, Record, At
<1>2. /\ tx[r] = NoTx /\ Writing(r)'
      /\ \A q \in Requests \ {r} : todo'[q] = todo[q]
  BY <1>1, Written
<1>3. /\ AuditFirst(todo'[r], job[r]) /\ Ahead(r, "audit")'
      /\ Recalculates(job[r]) => Ahead(r, "recalc")'
  <2>1. todo'[r] = Tail(todo[r])
    BY DEF Advance, Typed
  <2>2. AuditFirst(todo[r], job[r])
    BY <1>1 DEF Balanced
  <2>3. /\ AuditFirst(Tail(todo[r]), job[r]) /\ Has(Tail(todo[r]), "audit")
        /\ Recalculates(job[r]) => Has(Tail(todo[r]), "recalc")
    BY <1>1, <2>2, TailFirst
  <2>4. QED  BY <2>1, <2>3 DEF Ahead
<1>4. sum[r] = Null
  BY <1>1 DEF Balanced, At, Writes
<1>5. \A a \in Accounts : tx'[r].gl[a] = Null
  BY <1>2 DEF NoTx
<1>6. ~Ahead(r, "update")'
  BY <1>2, LabelSets DEF Writing, Writes, Fills
<1>7. Balanced(r)'
  BY <1>1, <1>2, <1>3, <1>4, <1>5, <1>6 DEF Balanced
<1>8. QED  BY <1>2, <1>7, BalancedStep

\* The write of an entry by a create.
LEMMA BalancedInsert ==
    ASSUME Typed, RecordInv, BalanceInv, NEW r \in Requests, InsertOne(r)
    PROVE  BalanceInv'
<1> DEFINE e == job[r].entry
           s == IF job[r].posted THEN "posted" ELSE "draft"
           row == NewRow(s, job[r].content, KeyUse(r))
<1>1. /\ At(r, "insert") /\ Advance(r) /\ "insert" \in Writes /\ Record(r) /\ Balanced(r)
      /\ UNCHANGED <<entry, balance, job, sum>>
      /\ Take(r, Wants(r) \union {<<"row", e>>}) /\ Granted(r) /\ Unused(r, e)
      /\ job[r].op \in {"create", "bank"}
  BY DEF InsertOne, db, RecordInv, BalanceInv, Writes
<1>2. job[r].op = "create" /\ e \in Entries /\ tx[r] \in TxType
  BY <1>1, JobType DEF Balanced, Audited
<1>3. /\ tx' = [tx EXCEPT ![r].rows[e] = row, ![r].linked = {}]
      /\ due' = [due EXCEPT ![r] = IF s = "posted" THEN Touches[job[r].content] ELSE {}]
  BY <1>2 DEF InsertOne
<1>4. /\ tx'[r].rows = [tx[r].rows EXCEPT ![e] = row] /\ tx'[r].gl = tx[r].gl
      /\ \A q \in Requests \ {r} : tx'[q] = tx[q] /\ due'[q] = due[q]
      /\ due'[r] = IF s = "posted" THEN Touches[job[r].content] ELSE {}
  BY <1>2, <1>3 DEF Typed, TxType
<1>5. \A q \in Requests \ {r} : \A x \in Resources : holder[x] = q => holder'[x] = q
  BY <1>1, <1>2, TakeHolds, NullAssumption DEF Granted, Take, Unused
<1>6. \A f \in Entries : tx'[r].rows[f] # Null => f = e /\ tx'[r].rows[f] = row
  BY <1>1, <1>2, <1>4, Written, Blank, TxFields
<1>7. ASSUME NEW a \in Accounts PROVE (Recalculates(job[r]) /\ a \in due'[r]) \/ Still(r, a)'
  <2>1. row.status = s /\ row.content = job[r].content
    BY DEF NewRow
  <2>2. CASE job[r].posted
    BY <1>2, <1>4, <1>6, <2>1, <2>2 DEF Recalculates, Still
  <2>3. CASE ~job[r].posted
    BY <1>6, <2>1, <2>3 DEF Still
  <2>4. QED  BY <2>2, <2>3
<1>8. QED  BY <1>1, <1>4, <1>5, <1>7, BalancedWrite

\* The write of an entry by a post or a void.
LEMMA BalancedUpdate ==
    ASSUME Typed, RecordInv, BalanceInv, NEW r \in Requests, PostUpdate(r) \/ VoidUpdate(r)
    PROVE  BalanceInv'
<1> DEFINE e == job[r].entry
<1>1. PICK st \in {"posted", "void"} :
         job[r].op \in {"post", "void"} /\ Update(r, [View(r)[e] EXCEPT !.status = st])
  <2>1. CASE PostUpdate(r)
    BY <2>1 DEF PostUpdate
  <2>2. CASE VoidUpdate(r)
    BY <2>2 DEF VoidUpdate
  <2>3. QED  BY <2>1, <2>2
<1> DEFINE row == [View(r)[e] EXCEPT !.status = st]
<1>2. /\ At(r, "update") /\ Advance(r) /\ "update" \in Writes /\ Record(r) /\ Balanced(r)
      /\ UNCHANGED <<entry, balance, job, sum, due>> /\ Take(r, Wants(r)) /\ Granted(r)
      /\ tx' = [tx EXCEPT ![r].rows[e] = row]
      /\ e \in Entries /\ tx[r] \in TxType
  BY <1>1, JobType DEF Update, db, mem, RecordInv, BalanceInv, Writes
<1>3. /\ tx'[r].rows = [tx[r].rows EXCEPT ![e] = row] /\ tx'[r].gl = tx[r].gl
      /\ \A q \in Requests \ {r} : tx'[q] = tx[q] /\ due'[q] = due[q]
  BY <1>2 DEF Typed, TxType
<1>4. \A q \in Requests \ {r} : \A x \in Resources : holder[x] = q => holder'[x] = q
  BY <1>2, TakeHolds, NullAssumption DEF Granted, Take
<1>5. /\ tx[r] = NoTx /\ ~Ahead(r, "read") /\ Ahead(r, "update")
      /\ \A f \in Entries : tx'[r].rows[f] # Null => f = e /\ tx'[r].rows[f] = row
  BY <1>2, <1>3, Written, Onward, Blank, TxFields DEF Record
<1>6. row.content = entry[e].content
  BY <1>2, <1>5, Blank, ViewOf, RowsOf DEF Rows
<1>7. due[r] = Touches[entry[e].content]
  BY <1>2, <1>5 DEF Balanced
<1>8. ASSUME NEW a \in Accounts PROVE (Recalculates(job[r]) /\ a \in due'[r]) \/ Still(r, a)'
  BY <1>1, <1>2, <1>5, <1>6, <1>7 DEF Recalculates, Still
<1>9. QED  BY <1>2, <1>3, <1>4, <1>8, BalancedWrite

\* A statement after the write, given what it makes of the aggregates.
LEMMA BalancedFill ==
    ASSUME Typed, RecordInv, BalanceInv, NEW r \in Requests, NEW s \in Fills, At(r, s),
           Goes(r, s), UNCHANGED <<entry, balance, job>>,
           \A x \in Labels : At(r, x)' => At(r, x) \/ sum'[r] = Null,
           s = "audit" => holder'[<<"audit">>] = r,
           \A q \in Requests : \A x \in Resources : holder[x] = q => holder'[x] = q,
           \A q \in Requests \ {r} :
               tx'[q] = tx[q] /\ due'[q] = due[q] /\ sum'[q] = sum[q],
           sum'[r] # Null => /\ s = "recalc" /\ todo' = todo
                             /\ sum'[r].value = Counted(View(r), sum'[r].account),
           \A a : Counted(View(r), a)' = Counted(View(r), a),
           \A a : Still(r, a) => Still(r, a)',
           \A a \in Accounts :
               /\ tx'[r].gl[a] # Null =>
                    tx'[r].gl[a] = tx[r].gl[a] \/ (s = "recalc" /\ tx'[r].gl[a].value = Counted(View(r), a))
               /\ tx'[r].gl[a] = Null => tx[r].gl[a] = Null,
           \A a \in due[r] : a \in due'[r] \/ (s = "recalc" /\ tx'[r].gl[a] # Null),
           s = "recalc" /\ todo' # todo => \A a \in Accounts : tx'[r].gl[a] # Null \/ a \notin due[r]
    PROVE  BalanceInv'
<1>1. /\ Record(r) /\ Balanced(r) /\ todo[r] \in Seq(Labels) /\ todo[r] # <<>>
      /\ InOrder(todo[r], job[r]) /\ Head(todo[r]) = s
  BY DEF RecordInv, BalanceInv, Typed, Record, At
<1>2. /\ Writing(r) /\ Writing(r)' /\ Ahead(r, s)
      /\ \A x \in Labels : x # s => (Ahead(r, x)' <=> Ahead(r, x))
      /\ s # "recalc" => ~Ahead(r, s)'
      /\ \A q \in Requests \ {r} : todo'[q] = todo[q]
  BY <1>1, Filled
<1>3. /\ AuditFirst(todo'[r], job[r])
      /\ s = "recalc" => ~Ahead(r, "audit")
  <2>1. AuditFirst(todo[r], job[r])
    BY <1>1 DEF Balanced
  <2>2. todo'[r] = todo[r] \/ todo'[r] = Tail(todo[r])
    BY DEF Goes, Advance, Typed
  <2>3. QED  BY <1>1, <2>1, <2>2, TailFirst DEF Ahead
<1>4. {"audit", "recalc", "update"} \subseteq Labels
  BY DEF Labels, InTransaction
<1>5. ~Ahead(r, "update")'
  BY <1>2, <1>4, LabelSets DEF Writing, Writes, Fills
<1>6. ~Ahead(r, "audit")' => holder'[<<"audit">>] = r
  BY <1>1, <1>2, <1>4, MoreLocks DEF Balanced
<1>7. ~Ahead(r, "audit") => ~Ahead(r, "audit")'
  BY <1>2, <1>4
<1>8. sum'[r] # Null => At(r, "recalc")' /\ sum'[r].value = Counted(View(r), sum'[r].account)
  BY <1>1 DEF At
<1>9. ASSUME NEW a \in Accounts, tx'[r].gl[a] # Null
      PROVE  ~Ahead(r, "audit")' /\ tx'[r].gl[a].value = Counted(View(r), a)
  BY <1>1, <1>3, <1>7, <1>9 DEF Balanced
<1>10. ASSUME NEW a \in Accounts, tx'[r].gl[a] = Null
       PROVE  (a \in due'[r] /\ Ahead(r, "recalc")') \/ Still(r, a)'
  <2>1. tx[r].gl[a] = Null
    BY <1>10
  <2>2. (a \in due[r] /\ Ahead(r, "recalc")) \/ Still(r, a)
    BY <1>1, <1>2, <2>1 DEF Balanced
  <2>3. CASE a \in due[r] /\ Ahead(r, "recalc")
    <3>1. a \in due'[r]
      BY <1>10, <2>3
    <3>2. s = "recalc" => todo' = todo
      BY <1>10, <2>3
    <3>3. Ahead(r, "recalc")'
      <4>1. CASE s = "recalc"
        BY <2>3, <3>2, <4>1 DEF Ahead
      <4>2. CASE s # "recalc"
        BY <1>2, <1>4, <2>3, <4>2
      <4>3. QED  BY <4>1, <4>2
    <3>4. QED  BY <3>1, <3>3
  <2>4. QED  BY <2>2, <2>3
<1>11. Balanced(r)'
  BY <1>1, <1>2, <1>3, <1>5, <1>6, <1>8, <1>9, <1>10 DEF Balanced
<1>12. QED  BY <1>2, <1>11, BalancedStep

\* The audit row.
LEMMA BalancedAudit ==
    ASSUME Typed, RecordInv, BalanceInv, NEW r \in Requests, Audit(r)
    PROVE  BalanceInv'
<1>1. /\ At(r, "audit") /\ Goes(r, "audit") /\ Granted(r) /\ Take(r, Wants(r))
      /\ "audit" \in Fills /\ UNCHANGED <<entry, balance, job, due, sum>>
      /\ Wants(r) = {<<"audit">>}
  BY DEF Audit, db, mem, Fills, Goes, Wants, At
<1>2. PICK y : tx' = [tx EXCEPT ![r].audit = y]
  BY DEF Audit
<1>3. /\ tx'[r].rows = tx[r].rows /\ tx'[r].gl = tx[r].gl
      /\ \A q \in Requests \ {r} : tx'[q] = tx[q]
  BY <1>2, JobType DEF Typed, TxType
<1>4. /\ \A q \in Requests : \A x \in Resources : holder[x] = q => holder'[x] = q
      /\ holder'[<<"audit">>] = r
  BY <1>1, MoreLocks, TakeHolds DEF Granted
<1>5. sum[r] = Null
  BY <1>1 DEF BalanceInv, Balanced, At
<1>6. View(r)' = View(r)
  BY <1>1, <1>3 DEF View
<1>7. \A a : Counted(View(r), a)' = Counted(View(r), a)
  BY <1>6 DEF Counted
<1>8. \A a : Still(r, a) => Still(r, a)'
  BY <1>3 DEF Still
<1>9. QED  BY <1>1, <1>3, <1>4, <1>5, <1>7, <1>8, BalancedFill

\* The append to the chain.
LEMMA BalancedSeal ==
    ASSUME Typed, Typed', RecordInv, BalanceInv, NEW r \in Requests, SealAppend(r)
    PROVE  BalanceInv'
<1> DEFINE e == Appended(r)
           row == View(r)[e]
<1>1. PICK s \in {"append", "appendLast"} : At(r, s)
  BY DEF SealAppend, AtAppend
<1>2. /\ s \in Fills /\ Goes(r, s) /\ Granted(r) /\ Take(r, Wants(r)) /\ Record(r) /\ Balanced(r)
      /\ UNCHANGED <<entry, balance, job, due, sum>>
      /\ e \in Entries /\ row \in Rows /\ tx[r] \in TxType
  BY <1>1, JobType, ViewType DEF SealAppend, db, mem, RecordInv, BalanceInv, Fills, Goes
<1>3. PICK p \in Previous(View(r), HeadOf(r), e) :
         tx' = [tx EXCEPT ![r].rows[e] = [row EXCEPT !.hash = Seal("v2", e, row, p), !.prev = p],
                          ![r].head = [hash |-> Seal("v2", e, row, p), entry |-> e]]
  BY DEF SealAppend
<1> DEFINE new == [row EXCEPT !.hash = Seal("v2", e, row, p), !.prev = p]
<1>4. new.status = row.status /\ new.content = row.content /\ new \in Rows /\ new # Null
  <2>1. p \in Seals \union {Null}
    BY <1>2, ViewType, PreviousType
  <2>2. Seal("v2", e, row, p) \in Seals
    BY <1>2, <2>1, SealType
  <2>3. QED  BY <1>2, <2>1, <2>2, NullAssumption DEF Rows
<1>5. /\ tx'[r].rows = [tx[r].rows EXCEPT ![e] = new] /\ tx'[r].gl = tx[r].gl
      /\ \A q \in Requests \ {r} : tx'[q] = tx[q]
  BY <1>2, <1>3 DEF Typed, TxType
<1> HIDE DEF new
<1>6. tx[r].rows[e] # Null /\ row = tx[r].rows[e]
  <2>1. job[r].op \notin {"correct", "match"}
    BY <1>2 DEF Balanced, Audited
  <2>2. e = job[r].entry /\ Writing(r)
    BY <1>1, <1>2, <2>1, Filled DEF Appended
  <2>3. QED  BY <1>2, <2>1, <2>2 DEF Record, Served, View
<1>7. \A q \in Requests : \A x \in Resources : holder[x] = q => holder'[x] = q
  BY <1>2, WantsType, TakeHolds DEF Granted
<1>8. sum[r] = Null
  BY <1>1, <1>2 DEF Balanced, At
<1>9. \A f \in Entries : /\ View(r)'[f].status = View(r)[f].status
                         /\ View(r)'[f].content = View(r)[f].content
  BY <1>2, <1>4, <1>5, TxFields DEF View
<1>10. \A a : Counted(View(r), a)' = Counted(View(r), a)
  <2>1. \A a : Counted(View(r)', a) = Counted(View(r), a)
    BY <1>9, SameCount
  <2>2. \A a : Counted(View(r), a)' = Counted(View(r)', a)
    BY DEF Counted
  <2>3. QED  BY <2>1, <2>2
<1>11. \A a : Still(r, a) => Still(r, a)'
  BY <1>2, <1>4, <1>5, <1>6, TxFields DEF Still
<1>12. QED  BY <1>1, <1>2, <1>5, <1>7, <1>8, <1>10, <1>11, BalancedFill

\* The two statements of a balance.
LEMMA BalancedRecalc ==
    ASSUME Typed, RecordInv, BalanceInv, NEW r \in Requests, RecalcRead(r) \/ RecalcWrite(r)
    PROVE  BalanceInv'
<1>1. /\ At(r, "recalc") /\ Goes(r, "recalc") /\ "recalc" \in Fills /\ Balanced(r)
      /\ UNCHANGED <<entry, balance, job>> /\ tx[r] \in TxType
  BY JobType DEF RecalcRead, RecalcWrite, db, Fills, Goes, BalanceInv
<1>2. CASE RecalcRead(r)
  <2>1. /\ UNCHANGED <<holder, tx, todo, due>>
        /\ \E a \in due[r] : sum' = [sum EXCEPT ![r] = [account |-> a, value |-> Counted(View(r), a)]]
    BY <1>2 DEF RecalcRead
  <2>2. /\ \A q \in Requests \ {r} : sum'[q] = sum[q]
        /\ sum'[r].value = Counted(View(r), sum'[r].account)
    BY <2>1 DEF Typed
  <2>3. /\ \A a : Counted(View(r), a)' = Counted(View(r), a)
        /\ \A a : Still(r, a) => Still(r, a)'
        /\ \A x : At(r, x)' = At(r, x)
    BY <1>1, <2>1 DEF Counted, View, Still, At
  <2>4. QED  BY <1>1, <2>1, <2>2, <2>3, BalancedFill
<1>3. CASE RecalcWrite(r)
  <2>1. /\ sum[r] # Null /\ Granted(r) /\ Take(r, Wants(r))
        /\ tx' = [tx EXCEPT ![r].gl[sum[r].account] = sum[r]]
        /\ due' = [due EXCEPT ![r] = @ \ {sum[r].account}]
        /\ sum' = [sum EXCEPT ![r] = Null]
        /\ todo' # todo => due[r] = {sum[r].account}
    BY <1>3 DEF RecalcWrite
  <2> DEFINE b == sum[r].account
             v == sum[r]
  <2>2. b \in Accounts /\ v.value = Counted(View(r), b) /\ v # Null
    <3>1. sum[r] \in Sums
      BY <2>1 DEF Typed
    <3>2. v.value = Counted(View(r), b)
      BY <1>1, <2>1 DEF Balanced
    <3>3. QED  BY <3>1, <3>2, NullAssumption DEF Sums
  <2>3. /\ tx'[r].rows = tx[r].rows /\ tx'[r].gl = [tx[r].gl EXCEPT ![b] = v]
        /\ \A q \in Requests \ {r} : tx'[q] = tx[q] /\ due'[q] = due[q] /\ sum'[q] = sum[q]
        /\ due'[r] = due[r] \ {b} /\ sum'[r] = Null
    BY <1>1, <2>1 DEF Typed, TxType
  <2>4. \A q \in Requests : \A x \in Resources : holder[x] = q => holder'[x] = q
    BY <2>1, WantsType, TakeHolds DEF Granted
  <2>5. /\ \A a : Counted(View(r), a)' = Counted(View(r), a)
        /\ \A a : Still(r, a) => Still(r, a)'
    BY <1>1, <2>3 DEF Counted, View, Still
  <2>6. \A a \in Accounts : /\ a = b => tx'[r].gl[a] = v
                            /\ a # b => tx'[r].gl[a] = tx[r].gl[a]
    BY <1>1, <2>3, TxFields
  <2> HIDE DEF b, v
  <2>7. /\ \A a \in Accounts :
             /\ tx'[r].gl[a] # Null =>
                    tx'[r].gl[a] = tx[r].gl[a] \/ tx'[r].gl[a].value = Counted(View(r), a)
             /\ tx'[r].gl[a] = Null => tx[r].gl[a] = Null
        /\ \A a \in due[r] : a \in due'[r] \/ tx'[r].gl[a] # Null
        /\ todo' # todo => \A a \in Accounts : tx'[r].gl[a] # Null \/ a \notin due[r]
    BY <2>1, <2>2, <2>3, <2>6 DEF b
  <2>8. QED  BY ZenonT(30), <1>1, <2>3, <2>4, <2>5, <2>7, BalancedFill
<1>4. QED  BY <1>2, <1>3

\* While a transaction commits, no other one has an aggregate.
LEMMA AloneAtCommit ==
    ASSUME Typed, RecordInv, BalanceInv, NEW r \in Requests, Commit(r), NEW q \in Requests \ {r}
    PROVE  sum[q] = Null /\ \A a \in Accounts : tx[q].gl[a] = Null
<1>1. holder[<<"audit">>] = r
  BY AtCommit DEF BalanceInv, Balanced
<1>2. ~(Writing(q) /\ ~Ahead(q, "audit"))
  BY <1>1 DEF BalanceInv, Balanced
<1>3. sum[q] = Null
  <2>1. SUFFICES ASSUME At(q, "recalc") PROVE Writing(q) /\ ~Ahead(q, "audit")
    BY <1>2 DEF BalanceInv, Balanced
  <2>2. Record(q) /\ todo[q] \in Seq(Labels) /\ todo[q] # <<>> /\ InOrder(todo[q], job[q])
        /\ AuditFirst(todo[q], job[q]) /\ Head(todo[q]) = "recalc"
    BY <2>1 DEF RecordInv, BalanceInv, Balanced, Typed, Record, At
  <2>3. ~Ahead(q, "audit")
    BY <2>2, TailFirst DEF Ahead
  <2>4. Ahead(q, "commit") /\ \A x : Ahead(q, x) => x = "recalc" \/ x \in After("recalc")
    BY <2>1, <2>2, Coming DEF Fills
  <2>5. QED  BY <2>3, <2>4 DEF Writing, After, Fills, Writes
<1>4. QED  BY <1>2, <1>3 DEF BalanceInv, Balanced

\* A commit writes the balances of the rows it writes.
LEMMA BalancedCommit ==
    ASSUME Typed, ChainInv, RecordInv, BalanceInv, NEW r \in Requests, Commit(r)
    PROVE  BalanceInv'
<1>1. /\ entry' = View(r) /\ job' = job /\ due' = due /\ sum' = sum /\ Record(r) /\ Balanced(r)
      /\ tx'[r] = NoTx /\ todo'[r] = <<>> /\ Writing(r) /\ \A s : Ahead(r, s) => s = "commit"
      /\ \A q \in Requests \ {r} : tx'[q] = tx[q] /\ todo'[q] = todo[q]
      /\ \A q \in Requests \ {r} : \A x \in Resources : holder[x] = q => holder'[x] = q
      /\ balance' = [a \in Accounts |-> IF tx[r].gl[a] # Null THEN tx[r].gl[a].value ELSE balance[a]]
      /\ At(r, "commit")
  BY AtCommit DEF Commit, mem, BalanceInv
<1>2. BalancesAreExact'
  <2>1. ASSUME NEW a \in Accounts, tx[r].gl[a] = Null
        PROVE  Counted(View(r), a) = Counted(entry, a)
    <3>1. Still(r, a)
      BY <1>1, <2>1 DEF Balanced
    <3>2. ASSUME NEW e \in Entries
          PROVE  \/ View(r)[e] = entry[e]
                 \/ /\ View(r)[e].status # "posted" \/ a \notin Touches[View(r)[e].content]
                    /\ entry[e].status # "posted" \/ a \notin Touches[entry[e].content]
      <4>1. CASE tx[r].rows[e] = Null
        BY <4>1, ViewOf
      <4>2. CASE tx[r].rows[e] # Null
        <5>1. /\ View(r)[e] = tx[r].rows[e]
              /\ entry[e].status \in Final => tx[r].rows[e].status \in Final
              /\ entry[e].status # "absent" =>
                    tx[r].rows[e].content = entry[e].content
          BY <1>1, <4>2, ViewOf DEF Record, OwnRows, Balanced, Audited
        <5>2. tx[r].rows[e].status = "draft" \/ a \notin Touches[tx[r].rows[e].content]
          BY <3>1, <4>2 DEF Still
        <5>3. QED  BY <5>1, <5>2 DEF Final
      <4>3. QED  BY <4>1, <4>2
    <3>3. QED  BY <3>2 DEF Counted, Postings
  <2>2. ASSUME NEW a \in Accounts PROVE balance'[a] = Counted(View(r), a)
    <3>1. CASE tx[r].gl[a] = Null
      BY <1>1, <2>1, <3>1 DEF BalanceInv, BalancesAreExact
    <3>2. CASE tx[r].gl[a] # Null
      BY <1>1, <3>2 DEF Balanced
    <3>3. QED  BY <3>1, <3>2
  <2>3. \A a \in Accounts : Counted(entry, a)' = Counted(View(r), a)
    BY <1>1 DEF Counted
  <2>4. QED  BY <2>2, <2>3 DEF BalancesAreExact
<1>3. Balanced(r)'
  <2>1. sum'[r] = Null /\ \A a \in Accounts : tx'[r].gl[a] = Null
    BY <1>1 DEF Balanced, At, NoTx
  <2>2. ~Ahead(r, "commit")' /\ ~Ahead(r, "update")'
    BY <1>1, ShortOrder DEF Ahead
  <2>3. ~Writing(r)'
    BY <2>2 DEF Writing
  <2>4. AuditFirst(todo'[r], job'[r]) /\ job'[r].op \in Audited
    BY <1>1, ScriptFirst DEF Typed, Balanced
  <2>5. QED  BY <2>1, <2>2, <2>3, <2>4 DEF Balanced
<1>4. ASSUME NEW q \in Requests \ {r} PROVE Balanced(q)'
  <2>1. /\ Balanced(q) /\ Record(q) /\ sum[q] = Null /\ \A a \in Accounts : tx[q].gl[a] = Null
        /\ tx'[q] = tx[q] /\ todo'[q] = todo[q]
    BY <1>1, AloneAtCommit DEF BalanceInv, RecordInv
  <2>2. /\ \A s : Ahead(q, s)' = Ahead(q, s)
        /\ Writing(q)' = Writing(q)
        /\ \A a : Still(q, a)' = Still(q, a)
    BY <2>1 DEF Ahead, Writing, Still
  <2>3. ASSUME Ahead(q, "update"), ~Ahead(q, "read")
        PROVE  entry'[job[q].entry].content = entry[job[q].entry].content
    <3>1. Runs(q) /\ "update" \in StatementsOf(job[q].op)
      BY <2>1, <2>3, ShortOrder DEF Record, InOrder, Ahead, Has, Runs
    <3>2. HasRead(q)
      <4>1. job[q].op \in {"edit", "post", "void"}
        BY <3>1, JobType DEF StatementsOf, Ops
      <4>2. QED  BY <2>3, <3>1, <4>1 DEF HasRead
    <3>3. entry[job[q].entry].status # "absent" /\ job[r].op # "edit"
      BY <1>1, <2>1, <3>2 DEF Record, Seen, Balanced, Audited
    <3>4. QED  BY <3>3, CommittedRows, JobType
  <2>4. holder[<<"audit">>] = q => holder'[<<"audit">>] = q
    BY <1>1, MoreLocks
  <2>5. QED  BY <1>1, <2>1, <2>2, <2>3, <2>4 DEF Balanced
<1>5. QED  BY <1>2, <1>3, <1>4 DEF BalanceInv

\* Every step keeps the balances.
LEMMA BalancedNext ==
    Typed /\ ChainInv /\ RecordInv /\ BalanceInv /\ [Next]_vars => BalanceInv'
<1> SUFFICES ASSUME Typed, ChainInv, RecordInv, BalanceInv, [Next]_vars PROVE BalanceInv'
  OBVIOUS
<1>1. Typed'
  BY TypeNext
<1>2. CASE UNCHANGED vars
  <2>1. \A q \in Requests : Balanced(q)'
    BY <1>2, OtherBalanced DEF BalanceInv, vars, db, mem
  <2>2. BalancesAreExact'
    BY <1>2 DEF BalanceInv, BalancesAreExact, Counted, vars, db
  <2>3. QED  BY <2>1, <2>2 DEF BalanceInv
<1>3. ASSUME NEW r \in Requests, Step(r) \/ Fail(r) PROVE BalanceInv'
  <2>1. CASE \E rest \in {<<>>, <<"winner">>, <<"certify">>} : Abort(r, rest)
    BY <1>1, <2>1, BalancedAbort
  <2>2. FiscalRefuse(r) \/ InsertDuplicate(r) \/ AppendRefused(r) \/ AppendBlocked(r)
          \/ DeadlockVictim(r) \/ Fail(r)
            => \E rest \in {<<>>, <<"winner">>, <<"certify">>} : Abort(r, rest)
    BY DEF FiscalRefuse, InsertDuplicate, AppendRefused, AppendBlocked, DeadlockVictim, Fail
  <2>3. CASE Read(r)
    <3>1. /\ At(r, "read") /\ "read" \in Before /\ UNCHANGED <<entry, balance, holder, tx, job, sum>>
      BY <2>3 DEF Read, db, Before, Labels, InTransaction, Writes, Fills
    <3>2. \/ /\ Advance(r)
             /\ due' = [due EXCEPT ![r] = Touches[entry[job[r].entry].content]]
          \/ due' = due /\ \E a : Answer(r, a)
      BY <2>3 DEF Read
    <3>3. QED  BY <3>1, <3>2, BalancedBefore
  <2>4. CASE Lookup(r) \/ LinkCheck(r) \/ FiscalPass(r) \/ Winner(r) \/ Certify(r)
               \/ ReadPeriod(r) \/ LockPeriod(r)
    <3>1. /\ UNCHANGED <<entry, balance, holder, tx, job, sum>> /\ due' = due
          /\ \E s \in Before \ {"read"} : At(r, s)
          /\ Advance(r) \/ \E a : Answer(r, a)
      <4> USE DEF db, mem, Before, Labels, InTransaction, Writes, Fills
      <4>1. CASE Lookup(r)
        BY <4>1 DEF Lookup
      <4>2. CASE LinkCheck(r)
        BY <4>2 DEF LinkCheck
      <4>3. CASE FiscalPass(r)
        BY <4>3 DEF FiscalPass
      <4>4. CASE Winner(r)
        BY <4>4 DEF Winner
      <4>5. CASE Certify(r)
        BY <4>5 DEF Certify
      <4>6. CASE ReadPeriod(r)
        BY <4>6 DEF ReadPeriod
      <4>7. CASE LockPeriod(r)
        BY <4>7 DEF LockPeriod
      <4>8. QED  BY <2>4, <4>1, <4>2, <4>3, <4>4, <4>5, <4>6, <4>7
    <3>2. QED  BY <3>1, BalancedBefore
  <2>5. CASE InsertOne(r)
    BY <2>5, BalancedInsert
  <2>6. CASE PostUpdate(r) \/ VoidUpdate(r)
    BY <2>6, BalancedUpdate
  <2>7. CASE SealAppend(r)
    BY <1>1, <2>7, BalancedSeal
  <2>8. CASE Audit(r)
    BY <2>8, BalancedAudit
  <2>9. CASE RecalcRead(r) \/ RecalcWrite(r)
    BY <2>9, BalancedRecalc
  <2>10. CASE Commit(r)
    BY <2>10, BalancedCommit
  <2>11. ~InsertPair(r) /\ ~EditUpdate(r) /\ ~Reread(r) /\ ~LinkCorrection(r) /\ ~MatchUpdate(r)
    <3>1. job[r].op \in Audited /\ Record(r)
      BY DEF BalanceInv, Balanced, RecordInv
    <3>2. ~At(r, "reread") /\ ~At(r, "link") /\ ~At(r, "match")
      <4>1. StatementsOf(job[r].op) \intersect {"reread", "link", "match"} = {}
        BY <3>1 DEF Audited, StatementsOf
      <4>2. ASSUME NEW s, At(r, s) PROVE s \in StatementsOf(job[r].op)
        BY <3>1, <4>2, TailInOrder DEF At, Typed, Record
      <4>3. QED  BY <4>1, <4>2
    <3>3. QED  BY <3>1, <3>2 DEF InsertPair, EditUpdate, Reread, LinkCorrection, MatchUpdate, Audited
  <2>12. QED
    BY <1>3, <2>1, <2>2, <2>3, <2>4, <2>5, <2>6, <2>7, <2>8, <2>9, <2>10, <2>11 DEF Step
<1>4. QED  BY <1>2, <1>3 DEF Next

\* No transaction has begun, and the balances are those of the history.
LEMMA BalanceInit ==
    ASSUME AuditedWorkloads, Init
    PROVE  BalanceInv
<1>1. Typed
  BY TypeInit
<1>2. BalancesAreExact
  BY DEF Init, BalancesAreExact, Counted
<1>3. ASSUME NEW r \in Requests PROVE Balanced(r)
  <2>1. /\ job[r] \in JobSet /\ job[r].op \in Audited /\ todo[r] = Script(job[r])
        /\ tx[r] = NoTx /\ sum[r] = Null
    BY WorkloadsAssumption DEF Init, AuditedWorkloads
  <2>2. AuditFirst(todo[r], job[r])
    BY <2>1, ScriptFirst
  <2>3. ~Writing(r) /\ (Ahead(r, "update") => Ahead(r, "read"))
    <3>1. /\ ~Writing(r) /\ InOrder(todo[r], job[r])
          /\ job[r].op \in {"edit", "post", "void", "correct", "match"} => Ahead(r, "read")
      BY <2>1, NotBegun, ScriptInOrder
    <3>2. Ahead(r, "update") => "update" \in StatementsOf(job[r].op)
      BY <3>1 DEF InOrder, Ahead, Has
    <3>3. QED  BY <2>1, <3>1, <3>2 DEF StatementsOf, Audited
  <2>4. QED  BY <1>1, <2>1, <2>2, <2>3, BlankBalanced
<1>4. QED  BY <1>2, <1>3 DEF BalanceInv

\* As long as every handler in flight aggregates under the lock of the audit trail (create,
\* post and void do; a correction takes it after the balances, a bank flow never, and a
\* PUT may move lines that are posted), every stored balance is the sum of the posted
\* lines in every committed state.
THEOREM BalancesSafe == AuditedWorkloads => (Spec => []BalancesAreExact)
<1> SUFFICES ASSUME AuditedWorkloads PROVE Spec => []BalancesAreExact
  OBVIOUS
<1>1. Init => BalanceInv
  BY BalanceInit
<1>2. Typed /\ ChainInv /\ RecordInv /\ BalanceInv /\ [Next]_vars => BalanceInv'
  BY BalancedNext
<1>3. BalanceInv => BalancesAreExact
  BY DEF BalanceInv
<1>4. QED  BY <1>1, <1>2, <1>3, RecordCorrect, PTL DEF Spec

-----------------------------------------------------------------------------
(* The general ledger. *)

\* What a request seals is what it has written, and only a void writes void.
WritesMatch(q) ==
    \A e \in Entries : tx[q].rows[e] # Null =>
        /\ tx[q].rows[e].hash # Null => tx[q].rows[e].hash.content = tx[q].rows[e].content
        /\ tx[q].rows[e].status = "void" => job[q].op = "void"

MatchInv == SealMatchesContent /\ \A q \in Requests : WritesMatch(q)

\* A step that writes the rows of r and commits nothing.
LEMMA MatchStep ==
    ASSUME MatchInv, NEW r \in Requests, entry' = entry, job' = job, WritesMatch(r)',
           \A q \in Requests \ {r} : tx'[q].rows = tx[q].rows
    PROVE  MatchInv'
<1>1. SealMatchesContent'
  BY DEF MatchInv, SealMatchesContent, Sealed
<1>2. \A q \in Requests \ {r} : WritesMatch(q)'
  BY DEF MatchInv, WritesMatch
<1>3. QED  BY <1>1, <1>2 DEF MatchInv

\* A step that writes no rows.
LEMMA MatchKept ==
    ASSUME MatchInv, entry' = entry, job' = job, \A q \in Requests : tx'[q].rows = tx[q].rows
    PROVE  MatchInv'
  BY DEF MatchInv, SealMatchesContent, Sealed, WritesMatch

\* A rollback forgets what was written.
LEMMA MatchAbort ==
    ASSUME Typed, MatchInv, NEW r \in Requests, NEW rest, Abort(r, rest)
    PROVE  MatchInv'
<1>1. /\ entry' = entry /\ job' = job /\ tx'[r] = NoTx
      /\ \A q \in Requests \ {r} : tx'[q] = tx[q]
  BY DEF Abort, Typed, db
<1>2. WritesMatch(r)'
  BY <1>1, NoTxIsBlank DEF WritesMatch
<1>3. QED  BY <1>1, <1>2, MatchStep

\* A new entry is not sealed, and an update that is no edit leaves the lines.
LEMMA MatchWrite ==
    ASSUME Typed, RecordInv, MatchInv, NEW r \in Requests, job[r].op \in Audited,
           InsertOne(r) \/ PostUpdate(r) \/ VoidUpdate(r)
    PROVE  MatchInv'
<1> DEFINE x == job[r].entry
<1>1. PICK s \in Writes : At(r, s)
  BY DEF InsertOne, PostUpdate, VoidUpdate, Update, Writes
<1>2. /\ Advance(r) /\ job' = job /\ entry' = entry /\ Record(r)
      /\ \A q \in Requests \ {r} : tx'[q] = tx[q]
  BY DEF InsertOne, PostUpdate, VoidUpdate, Update, RecordInv, db, Typed
<1>3. tx[r] = NoTx /\ tx[r] \in TxType /\ x \in Entries
  BY <1>1, <1>2, Written, JobType
<1>4. PICK row : /\ tx'[r].rows = [tx[r].rows EXCEPT ![x] = row]
                 /\ row.hash # Null => row.hash.content = row.content
                 /\ row.status = "void" => job[r].op = "void"
  <2>1. CASE InsertOne(r)
    <3> DEFINE st == IF job[r].op = "bank" \/ job[r].posted THEN "posted" ELSE "draft"
    <3>1. PICK y :
             tx' = [tx EXCEPT ![r].rows[x] = NewRow(st, job[r].content, KeyUse(r)),
                              ![r].linked = y]
      BY <2>1 DEF InsertOne
    <3>2. tx'[r].rows = [tx[r].rows EXCEPT ![x] = NewRow(st, job[r].content, KeyUse(r))]
      BY <1>3, <3>1 DEF Typed, TxType
    <3>3. /\ NewRow(st, job[r].content, KeyUse(r)).hash = Null
          /\ NewRow(st, job[r].content, KeyUse(r)).status # "void"
      BY DEF NewRow
    <3>4. QED  BY <3>2, <3>3
  <2>2. CASE PostUpdate(r) \/ VoidUpdate(r)
    <3>1. View(r)[x] = entry[x] /\ entry[x] \in Rows
      BY <1>3, Blank, ViewOf, RowsOf, JobType
    <3>2. PICK row : /\ Update(r, row)
                     /\ row.hash = entry[x].hash /\ row.content = entry[x].content
                     /\ row.status = "void" => job[r].op = "void"
      BY <2>2, <3>1 DEF PostUpdate, VoidUpdate, Rows
    <3>3. tx'[r].rows = [tx[r].rows EXCEPT ![x] = row]
      BY <1>3, <3>2 DEF Update, Typed, TxType
    <3>4. QED  BY <1>3, <3>2, <3>3 DEF MatchInv, SealMatchesContent, Sealed
  <2>3. QED  BY <2>1, <2>2
<1>5. \A e \in Entries : e # x => tx'[r].rows[e] = Null
  BY <1>3, <1>4, Blank, TxFields
<1>6. WritesMatch(r)'
  BY <1>2, <1>3, <1>4, <1>5, TxFields DEF WritesMatch
<1>7. QED  BY <1>2, <1>6, MatchStep

\* A seal is computed from the lines it is stored with.
LEMMA MatchSeal ==
    ASSUME Typed, MatchInv, NEW r \in Requests, SealAppend(r)
    PROVE  MatchInv'
<1> DEFINE e == Appended(r)
           row == View(r)[e]
<1>1. PICK p \in Previous(View(r), HeadOf(r), e) :
         tx' = [tx EXCEPT ![r].rows[e] = [row EXCEPT !.hash = Seal("v2", e, row, p), !.prev = p],
                          ![r].head = [hash |-> Seal("v2", e, row, p), entry |-> e]]
  BY DEF SealAppend
<1> DEFINE new == [row EXCEPT !.hash = Seal("v2", e, row, p), !.prev = p]
<1>2. /\ entry' = entry /\ job' = job /\ e \in Entries /\ row \in Rows /\ tx[r] \in TxType
      /\ row.status = "posted"
      /\ \A q \in Requests \ {r} : tx'[q] = tx[q]
  BY <1>1, JobType, ViewType DEF SealAppend, Appendable, db, Typed
<1>3. /\ tx'[r].rows = [tx[r].rows EXCEPT ![e] = new]
      /\ new.hash.content = new.content /\ new.status = "posted"
  <2>1. new.hash = Seal("v2", e, row, p) /\ new.content = row.content /\ new.status = row.status
    BY <1>2 DEF Rows
  <2>2. tx'[r].rows = [tx[r].rows EXCEPT ![e] = new]
    BY <1>1, <1>2 DEF Typed, TxType
  <2>3. QED  BY <1>2, <2>1, <2>2 DEF Seal
<1> HIDE DEF new
<1>4. WritesMatch(r)'
  BY <1>2, <1>3, TxFields DEF MatchInv, WritesMatch
<1>5. QED  BY <1>2, <1>4, MatchStep

\* A commit writes what the transaction has written.
LEMMA MatchCommit ==
    ASSUME Typed, ChainInv, RecordInv, MatchInv, NEW r \in Requests, Commit(r)
    PROVE  MatchInv'
<1>1. /\ tx'[r] = NoTx /\ job' = job /\ \A q \in Requests \ {r} : tx'[q] = tx[q]
  BY AtCommit
<1>2. SealMatchesContent'
  <2>1. ASSUME NEW e \in Entries, entry'[e].hash # Null
        PROVE  entry'[e].hash.content = entry'[e].content
    BY <2>1, CommittedRows DEF MatchInv, SealMatchesContent, Sealed, WritesMatch
  <2>2. QED  BY <2>1 DEF SealMatchesContent, Sealed
<1>3. \A q \in Requests : WritesMatch(q)'
  BY <1>1, NoTxIsBlank DEF MatchInv, WritesMatch
<1>4. QED  BY <1>2, <1>3 DEF MatchInv

\* Without edits and corrections, a seal keeps saying what its entry says.
LEMMA MatchNext ==
    ASSUME Typed, ChainInv, RecordInv, BalanceInv, MatchInv, [Next]_vars
    PROVE  MatchInv'
<1>1. CASE UNCHANGED vars
  BY <1>1, MatchKept DEF vars, db
<1>2. ASSUME NEW r \in Requests, Step(r) \/ Fail(r) PROVE MatchInv'
  <2>0. job[r].op \in Audited
    BY DEF BalanceInv, Balanced
  <2>1. CASE \E rest : Abort(r, rest)
    BY <2>1, MatchAbort
  <2>2. CASE InsertOne(r) \/ PostUpdate(r) \/ VoidUpdate(r)
    BY <2>0, <2>2, MatchWrite
  <2>3. CASE SealAppend(r)
    BY <2>3, MatchSeal
  <2>4. CASE Commit(r)
    BY <2>4, MatchCommit
  <2>5. CASE Lookup(r) \/ Read(r) \/ LinkCheck(r) \/ FiscalPass(r) \/ Winner(r) \/ Certify(r)
               \/ RecalcRead(r) \/ ReadPeriod(r) \/ LockPeriod(r)
    <3>1. entry' = entry /\ tx' = tx /\ job' = job
      BY <2>5 DEF Lookup, Read, LinkCheck, FiscalPass, Winner, Certify, RecalcRead, ReadPeriod,
         LockPeriod, db
    <3>2. QED  BY <3>1, MatchKept
  <2>6. CASE Audit(r) \/ LinkCorrection(r) \/ RecalcWrite(r) \/ Reread(r) \/ MatchUpdate(r)
    <3>1. SUFFICES ASSUME ~(\E rest : Abort(r, rest)) PROVE MatchInv'
      BY <2>1
    <3>2. /\ entry' = entry /\ job' = job /\ tx'[r].rows = tx[r].rows
          /\ \A q \in Requests \ {r} : tx'[q] = tx[q]
      <4>1. CASE Audit(r)
        <5>1. PICK y : tx' = [tx EXCEPT ![r].audit = y]
          BY <4>1 DEF Audit
        <5>2. QED  BY <4>1, <5>1 DEF Audit, db, Typed, TxType
      <4>2. CASE LinkCorrection(r)
        <5>1. PICK y : tx' = [tx EXCEPT ![r].corr = y]
          BY <3>1, <4>2 DEF LinkCorrection
        <5>2. entry' = entry /\ job' = job
          BY <3>1, <4>2 DEF LinkCorrection, db
        <5>3. QED  BY <5>1, <5>2 DEF Typed, TxType
      <4>3. CASE RecalcWrite(r)
        BY <4>3 DEF RecalcWrite, db, Typed, TxType
      <4>4. CASE Reread(r)
        BY <3>1, <4>4 DEF Reread, db
      <4>5. CASE MatchUpdate(r)
        <5>1. PICK y : tx' = [tx EXCEPT ![r].linked = y]
          BY <3>1, <4>5 DEF MatchUpdate
        <5>2. entry' = entry /\ job' = job
          BY <3>1, <4>5 DEF MatchUpdate, db
        <5>3. QED  BY <5>1, <5>2 DEF Typed, TxType
      <4>6. QED  BY <2>6, <4>1, <4>2, <4>3, <4>4, <4>5
    <3>3. QED  BY <3>2, MatchKept
  <2>7. FiscalRefuse(r) \/ InsertDuplicate(r) \/ AppendRefused(r) \/ AppendBlocked(r)
          \/ DeadlockVictim(r) \/ Fail(r) => \E rest : Abort(r, rest)
    BY DEF FiscalRefuse, InsertDuplicate, AppendRefused, AppendBlocked, DeadlockVictim, Fail
  <2>8. ~InsertPair(r) /\ ~EditUpdate(r)
    BY <2>0 DEF InsertPair, EditUpdate, Audited
  <2>9. QED  BY <1>2, <2>1, <2>2, <2>3, <2>4, <2>5, <2>6, <2>7, <2>8 DEF Step
<1>3. QED  BY <1>1, <1>2 DEF Next

Voided(rows) == {e \in Sealed(rows) : rows[e].status = "void"}

\* Rows whose chain is finite and says what they say, with all that is posted in it.
Ledgered(rows) ==
    /\ rows \in [Entries -> Rows]
    /\ \E h : Linear(rows, h)
    /\ IsFiniteSet(Sealed(rows))
    /\ \A e \in Entries : rows[e].status \in Final => rows[e].hash # Null
    /\ \A e \in Sealed(rows) : rows[e].hash.content = rows[e].content

\* The walk shows each sealed entry once, with its lines.
LEMMA WalkShows ==
    ASSUME NEW rows, Ledgered(rows)
    PROVE  \E n \in Nat : \E w :
             /\ IsWalk(rows, w, n)
             /\ WalkOf(rows) = [i \in 1..n |-> <<w[i], rows[w[i]].content>>]
             /\ WalkOf(rows) \in Seq(Entries \X Contents) /\ Len(WalkOf(rows)) = n
             /\ \A i \in 1..n : WalkOf(rows)[i] = <<w[i], rows[w[i]].content>>
<1>1. PICK h : Linear(rows, h)
  BY DEF Ledgered
<1>2. PICK n, w : IsWalk(rows, w, n)
  BY <1>1, WalkExists DEF Ledgered
<1>3. n \in Nat /\ \A i \in 1..n : w[i] \in Sealed(rows) /\ w[i] \in Entries
  BY <1>2 DEF IsWalk, IsPath, Sealed
<1>4. WalkOf(rows) = [i \in 1..n |-> <<w[i], rows[w[i]].hash.content>>]
  BY <1>1, <1>2, WalkIs
<1>5. \A i \in 1..n : rows[w[i]].hash.content = rows[w[i]].content /\ rows[w[i]].content \in Contents
  BY <1>3 DEF Ledgered, Rows
<1>6. WalkOf(rows) = [i \in 1..n |-> <<w[i], rows[w[i]].content>>]
  BY <1>4, <1>5
<1> DEFINE v == [i \in 1..n |-> <<w[i], rows[w[i]].content>>]
<1>7. v \in Seq(Entries \X Contents) /\ Len(v) = n /\ \A i \in 1..n : v[i] = <<w[i], rows[w[i]].content>>
  BY <1>3, <1>5
<1>8. WalkOf(rows) = v
  BY <1>6
<1> HIDE DEF v
<1>9. /\ WalkOf(rows) \in Seq(Entries \X Contents) /\ Len(WalkOf(rows)) = n
      /\ \A i \in 1..n : WalkOf(rows)[i] = <<w[i], rows[w[i]].content>>
  BY <1>7, <1>8
<1>10. QED  BY <1>2, <1>3, <1>6, <1>9, Zenon

\* What is in force of the walk is what recalculateBalance counts.
LEMMA InForceIsCounted ==
    ASSUME NEW rows, Ledgered(rows), NEW a \in Accounts
    PROVE  Ledger!InForce(WalkOf(rows), Voided(rows), a) = Counted(rows, a)
<1>1. PICK n, w :
         /\ n \in Nat /\ IsWalk(rows, w, n) /\ Len(WalkOf(rows)) = n
         /\ \A i \in 1..n : WalkOf(rows)[i] = <<w[i], rows[w[i]].content>>
  BY WalkShows
<1> DEFINE l == WalkOf(rows)
<1>2. Ledger!InForce(l, Voided(rows), a) =
         {l[i] : i \in {k \in 1..n : l[k][1] \notin Voided(rows) /\ a \in Touches[l[k][2]]}}
  BY <1>1 DEF Ledger!InForce
<1>3. \A i \in 1..n : /\ w[i] \in Sealed(rows) /\ w[i] \in Entries
                      /\ rows[w[i]].status \in Final /\ rows[w[i]].content \in Contents
                      /\ l[i] = <<w[i], rows[w[i]].content>>
                      /\ l[i][1] = w[i] /\ l[i][2] = rows[w[i]].content
  BY <1>1 DEF IsWalk, IsPath, Sealed, Ledgered, Linear, Final, Rows
<1> HIDE DEF l
<1>4. ASSUME NEW i \in 1..n, l[i][1] \notin Voided(rows), a \in Touches[l[i][2]]
      PROVE  l[i] \in Counted(rows, a)
  <2>1. l[i] \in Postings /\ rows[l[i][1]].content = l[i][2]
    BY <1>3 DEF Postings
  <2>2. rows[l[i][1]].status = "posted"
    BY <1>3, <1>4 DEF Voided, Final
  <2>3. QED  BY <1>4, <2>1, <2>2 DEF Counted
<1>5. ASSUME NEW p \in Counted(rows, a)
      PROVE  \E i \in 1..n : /\ l[i] = p
                             /\ l[i][1] \notin Voided(rows) /\ a \in Touches[l[i][2]]
  <2>1. /\ p \in Entries \X Contents /\ rows[p[1]].status = "posted"
        /\ rows[p[1]].content = p[2] /\ a \in Touches[p[2]]
    BY <1>5 DEF Counted, Postings
  <2>2. p[1] \in Sealed(rows)
    BY <2>1 DEF Ledgered, Final, Sealed
  <2>3. PICK i \in 1..n : w[i] = p[1]
    BY <1>1, <2>2 DEF IsWalk
  <2>4. l[i] = p
    BY <1>3, <2>1, <2>3
  <2>5. QED  BY <1>3, <2>1, <2>3, <2>4 DEF Voided
<1>6. {l[i] : i \in {k \in 1..n : l[k][1] \notin Voided(rows) /\ a \in Touches[l[k][2]]}}
         = Counted(rows, a)
  BY <1>4, <1>5
<1>7. QED  BY <1>2, <1>6 DEF l

\* Rows with the same seals show the same walk.
LEMMA SameWalk ==
    ASSUME NEW rows, Ledgered(rows), NEW rows2, Ledgered(rows2),
           Sealed(rows2) = Sealed(rows),
           \A f \in Sealed(rows) : rows2[f].hash = rows[f].hash /\ rows2[f].prev = rows[f].prev
    PROVE  WalkOf(rows2) = WalkOf(rows)
<1>1. PICK h, h2 : Linear(rows, h) /\ Linear(rows2, h2)
  BY DEF Ledgered
<1>2. PICK n, w : IsWalk(rows, w, n)
  BY <1>1, WalkExists DEF Ledgered
<1>3. n \in Nat /\ \A i \in 1..n : w[i] \in Sealed(rows) /\ (i # 1 => w[i - 1] \in Sealed(rows))
  BY <1>2 DEF IsWalk, IsPath
<1>4. IsWalk(rows2, w, n)
  BY <1>2, <1>3 DEF IsWalk, IsPath
<1>5. /\ WalkOf(rows) = [i \in 1..n |-> <<w[i], rows[w[i]].hash.content>>]
      /\ WalkOf(rows2) = [i \in 1..n |-> <<w[i], rows2[w[i]].hash.content>>]
  BY <1>1, <1>2, <1>4, WalkIs
<1>6. QED  BY <1>3, <1>5

\* One more seal extends the walk by its entry.
LEMMA LongerWalk ==
    ASSUME NEW rows, Ledgered(rows), NEW rows2, Ledgered(rows2), NEW e, e \notin Sealed(rows),
           Sealed(rows2) = Sealed(rows) \union {e},
           \A f \in Sealed(rows) : rows2[f].hash = rows[f].hash /\ rows2[f].prev = rows[f].prev
    PROVE  Ledger!Extends(WalkOf(rows), WalkOf(rows2)) /\ Ledger!NoRepeat(WalkOf(rows2))
<1>1. PICK h, h2 : Linear(rows, h) /\ Linear(rows2, h2)
  BY DEF Ledgered
<1>2. PICK n, w : IsWalk(rows, w, n)
  BY <1>1, WalkExists DEF Ledgered
<1> DEFINE v == [i \in 1..(n + 1) |-> IF i = n + 1 THEN e ELSE w[i]]
<1>3. n \in Nat /\ IsWalk(rows2, v, n + 1)
  BY <1>1, <1>2, WalkGrows DEF IsWalk
<1>4. /\ \A i \in 1..n : w[i] \in Sealed(rows) /\ v[i] = w[i]
      /\ \A i, k \in 1..(n + 1) : v[i] = v[k] => i = k
  BY <1>2, <1>3 DEF IsWalk, IsPath
<1> HIDE DEF v
<1> DEFINE l == [i \in 1..n |-> <<w[i], rows[w[i]].hash.content>>]
           m == [i \in 1..(n + 1) |-> <<v[i], rows2[v[i]].hash.content>>]
<1>5. WalkOf(rows) = l /\ WalkOf(rows2) = m
  BY <1>1, <1>2, <1>3, WalkIs
<1>6. Len(l) = n /\ Len(m) = n + 1 /\ \A i \in 1..n : m[i] = l[i]
  BY <1>3, <1>4
<1> HIDE DEF l, m
<1>7. SubSeq(m, 1, n) = l
  <2>1. SubSeq(m, 1, n) = [i \in 1..n |-> m[i]]
    BY <1>3
  <2>2. l = [i \in 1..n |-> l[i]]
    BY DEF l
  <2>3. QED  BY <1>6, <2>1, <2>2
<1>8. \A i, k \in 1..(n + 1) : m[i][1] = m[k][1] => i = k
  BY <1>4 DEF m
<1>9. Ledger!Extends(l, m) /\ Ledger!NoRepeat(m)
  BY <1>3, <1>6, <1>7, <1>8 DEF Ledger!Extends, Ledger!NoRepeat
<1>10. QED  BY <1>5, <1>9

LedgerInv ==
    /\ Typed /\ ChainInv /\ RecordInv /\ BalanceInv /\ MatchInv /\ PostedIsSealed
    /\ IsFiniteSet(Sealed(entry))

\* Such are the committed rows, and the balances are of what they show.
LEMMA EntryIsLedgered ==
    ASSUME LedgerInv
    PROVE  Ledgered(entry) /\ \A a \in Accounts : balance[a] = Counted(entry, a)
  BY DEF LedgerInv, Typed, ChainInv, ChainIsLinear, BalanceInv, BalancesAreExact, MatchInv,
         SealMatchesContent, PostedIsSealed, Ledgered, Final

\* And so they are after a step.
LEMMA EntryIsLedgeredNext ==
    ASSUME LedgerInv'
    PROVE  Ledgered(entry') /\ \A a \in Accounts : balance'[a] = Counted(entry', a)
<1>1. Typed' /\ ChainIsLinear' /\ BalancesAreExact' /\ SealMatchesContent' /\ PostedIsSealed'
      /\ IsFiniteSet(Sealed(entry))'
  BY DEF LedgerInv, ChainInv, BalanceInv, MatchInv
<1>2. \E h : Linear(entry', h)
  <2>1. Linear(entry, head)' => Linear(entry', head')
    BY DEF Linear, Chained, Sealed
  <2>2. QED  BY <1>1, <2>1 DEF ChainIsLinear
<1>3. IsFiniteSet(Sealed(entry'))
  <2>1. Sealed(entry)' = Sealed(entry')
    BY DEF Sealed
  <2>2. QED  BY <1>1, <2>1
<1>4. \A e \in Sealed(entry') : entry'[e].hash.content = entry'[e].content
  BY <1>1 DEF SealMatchesContent, Sealed
<1>5. \A a \in Accounts : balance'[a] = Counted(entry', a)
  BY <1>1 DEF BalancesAreExact, Counted
<1>6. QED  BY <1>1, <1>2, <1>3, <1>4, <1>5 DEF Typed, PostedIsSealed, Ledgered, Final

\* What one commit does to the chain: it seals its entry, or voids it for good.
LEMMA LedgerCommit ==
    ASSUME LedgerInv, LedgerInv', NEW r \in Requests, Commit(r)
    PROVE  LET e == job[r].entry IN
           /\ e \in Entries
           /\ \A f \in Entries \ {e} : entry'[f] = entry[f]
           /\ \A f \in Sealed(entry) : entry'[f].hash = entry[f].hash /\ entry'[f].prev = entry[f].prev
           /\ \/ e \in Sealed(entry') \ Sealed(entry) /\ entry'[e].status # "void"
              \/ e \notin Sealed(entry') \union Sealed(entry)
              \/ e \in Sealed(entry) /\ entry'[e].status \in {"void", entry[e].status}
<1> DEFINE e == job[r].entry
<1>1. /\ e \in Entries /\ job[r].op \in Audited /\ Record(r) /\ WritesMatch(r)
      /\ \A s : Ahead(r, s) => s = "commit"
      /\ Writing(r) /\ (job[r].op = "void" => HasRead(r))
  BY JobType, AtCommit DEF LedgerInv, BalanceInv, Balanced, RecordInv, MatchInv
<1>2. \A f \in Entries \ {e} : entry'[f] = entry[f]
  <2>1. \A f \in Entries \ {e} : tx[r].rows[f] = Null
    BY <1>1 DEF Record, OwnRows, Targets, Audited
  <2>2. QED  BY <2>1, CommittedRows DEF LedgerInv
<1>3. \A f \in Sealed(entry) : entry'[f].hash = entry[f].hash /\ entry'[f].prev = entry[f].prev
  BY CommittedRows DEF Sealed, LedgerInv
<1>4. \/ tx[r].rows[e] = Null /\ entry'[e] = entry[e]
      \/ tx[r].rows[e] # Null /\ entry'[e] = tx[r].rows[e]
  BY <1>1, CommittedRows DEF LedgerInv
<1>5. CASE e \notin Sealed(entry) /\ e \in Sealed(entry')
  <2>1. entry'[e] = tx[r].rows[e] /\ tx[r].rows[e] # Null
    BY <1>4, <1>5 DEF Sealed
  <2>2. ASSUME job[r].op = "void" PROVE FALSE
    <3>1. entry[e].status \in Final
      BY <1>1, <2>2 DEF Record, Seen
    <3>2. QED  BY <1>1, <1>5, <3>1 DEF LedgerInv, PostedIsSealed, Final, Sealed
  <2>3. entry'[e].status # "void"
    BY <1>1, <2>1, <2>2 DEF WritesMatch
  <2>4. QED  BY <1>1, <1>2, <1>3, <1>5, <2>3
<1>6. CASE e \in Sealed(entry)
  <2>1. entry[e].status \in Final /\ entry[e].hash # Null
    BY <1>6 DEF LedgerInv, ChainInv, ChainIsLinear, Linear, Final, Sealed
  <2>2. entry'[e].status \in {"void", entry[e].status}
    <3>1. CASE tx[r].rows[e] = Null
      BY <1>4, <3>1
    <3>2. CASE tx[r].rows[e] # Null
      <4>1. entry'[e] = tx[r].rows[e]
        BY <1>4, <3>2
      <4>2. job[r].op # "create"
        BY <1>1, <2>1, <3>2 DEF Record, OwnRows, Created, Final
      <4>3. job[r].op # "post"
        <5>1. ~Ahead(r, "append")
          BY <1>1
        <5>2. QED  BY <1>1, <2>1, <5>1 DEF Record, PostPending
      <4>4. job[r].op # "lock"
        BY AtCommit DEF LedgerInv
      <4>5. job[r].op = "void"
        BY <1>1, <4>2, <4>3, <4>4 DEF Audited
      <4>6. QED  BY <1>1, <3>2, <4>1, <4>5 DEF Record, OwnRows
    <3>3. QED  BY <3>1, <3>2
  <2>3. QED  BY <1>1, <1>2, <1>3, <1>6, <2>2
<1>7. CASE e \notin Sealed(entry) /\ e \notin Sealed(entry')
  BY <1>1, <1>2, <1>3, <1>7
<1>8. QED  BY <1>5, <1>6, <1>7

\* The sealed entries stay finitely many.
LEMMA FiniteNext ==
    ASSUME Typed, ChainInv, RecordInv, BalanceInv, IsFiniteSet(Sealed(entry)), [Next]_vars
    PROVE  IsFiniteSet(Sealed(entry))'
<1>1. CASE entry' = entry
  <2>1. Sealed(entry)' = Sealed(entry)
    BY <1>1 DEF Sealed
  <2>2. QED  BY <2>1
<1>2. CASE entry' # entry
  <2>1. PICK r \in Requests : Commit(r)
    BY <1>2, OnlyCommitWrites
  <2>2. Record(r) /\ job[r].op \in Audited
    BY DEF RecordInv, BalanceInv, Balanced
  <2>3. Sealed(entry)' \subseteq Sealed(entry) \union {job[r].entry}
    BY <2>1, <2>2, CommittedRows DEF Sealed, Record, OwnRows, Targets, Audited
  <2>4. IsFiniteSet(Sealed(entry) \union {job[r].entry})
    BY FS_AddElement
  <2>5. QED  BY <2>3, <2>4, FS_Subset
<1>3. QED  BY <1>1, <1>2

LEMMA LedgerNext == LedgerInv /\ [Next]_vars => LedgerInv'
  BY TypeNext, ChainNext, RecordNext, BalancedNext, MatchNext, SealedNext, FiniteNext DEF LedgerInv

\* A step of the journal is one of the general ledger, or none.
LEMMA LedgerStep ==
    ASSUME LedgerInv, [Next]_vars
    PROVE  [Ledger!Next]_(Ledger!vars)
<1>1. LedgerInv'
  BY LedgerNext
<1>2. /\ Ledgered(entry) /\ \A a \in Accounts : balance[a] = Counted(entry, a)
      /\ Ledgered(entry') /\ \A a \in Accounts : balance'[a] = Counted(entry', a)
      /\ balance \in [Accounts -> SUBSET Postings] /\ balance' \in [Accounts -> SUBSET Postings]
  BY <1>1, EntryIsLedgered, EntryIsLedgeredNext DEF LedgerInv, Typed
<1>3. /\ Walk = WalkOf(entry) /\ Walk' = WalkOf(entry')
      /\ Annulled = Voided(entry) /\ Annulled' = Voided(entry')
  <2>1. Walk' = WalkOf(entry')
    BY DEF Walk, WalkOf, LevelsOf, Sealed
  <2>2. Annulled' = Voided(entry')
    BY DEF Annulled, Voided, Sealed
  <2>3. QED  BY <2>1, <2>2 DEF Walk, Annulled, Voided
<1>4. Ledger!Balanced'
  <2>1. \A a \in Accounts : Ledger!InForce(WalkOf(entry'), Voided(entry'), a) = Counted(entry', a)
    BY <1>2, InForceIsCounted
  <2>2. QED  BY <1>2, <1>3, <2>1 DEF Ledger!Balanced, Ledger!InForce
<1>5. CASE entry' = entry
  <2>1. balance' = balance
    BY <1>2, <1>5
  <2>2. QED  BY <1>3, <1>5, <2>1 DEF Ledger!vars
<1>6. CASE entry' # entry
  <2>1. PICK r \in Requests : Commit(r)
    BY <1>6, OnlyCommitWrites
  <2> DEFINE e == job[r].entry
  <2>2. /\ e \in Entries
        /\ \A f \in Entries \ {e} : entry'[f] = entry[f]
        /\ \A f \in Sealed(entry) : entry'[f].hash = entry[f].hash /\ entry'[f].prev = entry[f].prev
        /\ \/ e \in Sealed(entry') \ Sealed(entry) /\ entry'[e].status # "void"
           \/ e \notin Sealed(entry') \union Sealed(entry)
           \/ e \in Sealed(entry) /\ entry'[e].status \in {"void", entry[e].status}
    BY <1>1, <2>1, LedgerCommit
  <2> HIDE DEF e
  <2>3. CASE e \in Sealed(entry') \ Sealed(entry) /\ entry'[e].status # "void"
    <3>1. Sealed(entry') = Sealed(entry) \union {e}
      BY <2>2, <2>3 DEF Sealed
    <3>2. Voided(entry') = Voided(entry)
      BY <2>2, <2>3 DEF Voided, Sealed
    <3>3. Ledger!Extends(Walk, Walk') /\ Ledger!NoRepeat(Walk')
      BY <1>2, <1>3, <2>2, <2>3, <3>1, LongerWalk
    <3>4. Ledger!Record
      BY <1>3, <1>4, <3>2, <3>3 DEF Ledger!Record
    <3>5. QED  BY <3>4 DEF Ledger!Next
  <2>4. CASE e \notin Sealed(entry') \ Sealed(entry)
    <3>1. Sealed(entry') = Sealed(entry)
      <4>1. \A f \in Sealed(entry) : f \in Sealed(entry')
        BY <2>2 DEF Sealed
      <4>2. \A f \in Sealed(entry') : f \in Sealed(entry)
        BY <2>2, <2>4 DEF Sealed
      <4>3. QED  BY <4>1, <4>2
    <3>2. Walk' = Walk
      BY <1>2, <1>3, <2>2, <3>1, SameWalk
    <3>3. CASE e \in Sealed(entry) /\ entry[e].status # "void" /\ entry'[e].status = "void"
      <4>1. Annulled' = Annulled \union {e} /\ e \notin Annulled
        BY <1>3, <2>2, <3>1, <3>3 DEF Voided, Sealed
      <4>2. e \in Ledger!Recorded
        <5>1. PICK n, w :
                 /\ n \in Nat /\ IsWalk(entry, w, n) /\ Len(WalkOf(entry)) = n
                 /\ \A i \in 1..n : WalkOf(entry)[i] = <<w[i], entry[w[i]].content>>
          BY <1>2, WalkShows
        <5>2. PICK i \in 1..n : w[i] = e
          BY <3>3, <5>1 DEF IsWalk
        <5>3. Walk[i][1] = e /\ i \in 1..Len(Walk)
          BY <1>3, <5>1, <5>2
        <5>4. QED  BY <5>3 DEF Ledger!Recorded
      <4>3. Ledger!Annul
        BY <1>4, <3>2, <4>1, <4>2 DEF Ledger!Annul
      <4>4. QED  BY <4>3 DEF Ledger!Next
    <3>4. CASE ~(e \in Sealed(entry) /\ entry[e].status # "void" /\ entry'[e].status = "void")
      <4>1. Voided(entry') = Voided(entry)
        <5>1. e \in Sealed(entry) => entry'[e].status = entry[e].status
          BY <2>2, <2>4, <3>4
        <5>2. QED  BY <2>2, <3>1, <5>1 DEF Voided, Sealed
      <4>2. \A a \in Accounts : Counted(entry', a) = Counted(entry, a)
        BY <1>2, <3>2, <1>3, <4>1, InForceIsCounted
      <4>3. balance' = balance
        BY <1>2, <4>2
      <4>4. QED  BY <1>3, <3>2, <4>1, <4>3 DEF Ledger!vars
    <3>5. QED  BY <3>3, <3>4
  <2>5. QED  BY <2>3, <2>4, <2>2
<1>7. QED  BY <1>5, <1>6

\* A history with an end, whose seals say what its entries say.
SealedAsWritten ==
    \A s \in Starts :
        /\ IsFiniteSet(Sealed(s.entry))
        /\ \A e \in Sealed(s.entry) : s.entry[e].hash.content = s.entry[e].content

\* With handlers that aggregate under the lock of the audit trail, from a history in which
\* whatever was posted is sealed as it stands, the journal implements the general ledger:
\* each commit adds one posting at the end, annuls one for good, or changes nothing a
\* reader sees, and the stored balances are at every moment the sums of what is in force.
THEOREM JournalImplementsLedger ==
    AuditedWorkloads /\ SealedStarts /\ SealedAsWritten => (Spec => ImplementsGeneralLedger)
<1> SUFFICES ASSUME AuditedWorkloads, SealedStarts, SealedAsWritten
             PROVE  Spec => ImplementsGeneralLedger
  OBVIOUS
<1>1. Init => LedgerInv
  <2> SUFFICES ASSUME Init PROVE LedgerInv
    OBVIOUS
  <2>1. Typed /\ ChainInv /\ RecordInv /\ BalanceInv
    BY TypeInit, ChainInit, RecordInit, BalanceInit
  <2>2. MatchInv
    BY NoTxIsBlank DEF Init, SealedAsWritten, MatchInv, SealMatchesContent, WritesMatch
  <2>3. PostedIsSealed /\ IsFiniteSet(Sealed(entry))
    BY DEF Init, SealedStarts, SealedAsWritten, PostedIsSealed, Unsealed, Final
  <2>4. QED  BY <2>1, <2>2, <2>3 DEF LedgerInv
<1>2. LedgerInv => Ledger!Init
  <2> SUFFICES ASSUME LedgerInv PROVE Ledger!Init
    OBVIOUS
  <2>1. Ledgered(entry) /\ \A a \in Accounts : balance[a] = Counted(entry, a)
    BY EntryIsLedgered
  <2>2. PICK n, w :
           /\ n \in Nat /\ IsWalk(entry, w, n) /\ Len(WalkOf(entry)) = n
           /\ WalkOf(entry) \in Seq(Entries \X Contents)
           /\ \A i \in 1..n : WalkOf(entry)[i] = <<w[i], entry[w[i]].content>>
    BY <2>1, WalkShows
  <2>3. Ledger!NoRepeat(Walk)
    BY <2>2 DEF Walk, Ledger!NoRepeat, IsWalk, IsPath
  <2>4. Annulled \subseteq Ledger!Recorded
    BY <2>2 DEF Walk, Annulled, Ledger!Recorded, IsWalk
  <2>5. Ledger!Balanced
    <3>1. \A a \in Accounts : Ledger!InForce(WalkOf(entry), Voided(entry), a) = Counted(entry, a)
      BY <2>1, InForceIsCounted
    <3>2. Annulled = Voided(entry)
      BY DEF Annulled, Voided
    <3>3. QED  BY <2>1, <3>1, <3>2 DEF Ledger!Balanced, Walk
  <2>6. QED  BY <2>2, <2>3, <2>4, <2>5 DEF Ledger!Init, Walk
<1>3. LedgerInv /\ [Next]_vars => [Ledger!Next]_(Ledger!vars)
  BY LedgerStep
<1>4. LedgerInv /\ [Next]_vars => LedgerInv'
  BY LedgerNext
<1>5. QED
  BY <1>1, <1>2, <1>3, <1>4, PTL DEF Spec, ImplementsGeneralLedger, Ledger!Spec
=============================================================================
