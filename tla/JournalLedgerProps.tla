-------------------------- MODULE JournalLedgerProps -------------------------
(***************************************************************************)
(* What must hold of the journal of a company, stated over JournalLedger.  *)
(***************************************************************************)
EXTENDS JournalLedger, FiniteSets

-----------------------------------------------------------------------------
(* Types. *)

TxType == [rows: [Entries -> Rows \union {Null}], head: Heads \union {Null},
           gl: [Accounts -> Sums \union {Null}],
           audit: SUBSET AuditRows, corr: SUBSET Links, linked: SUBSET Entries]

Answers == {"none", "ok", "replayed", "conflict", "refused", "failed"}

\* Every variable stays in its type: rows carry a known status and seal, a
\* balance sums postings, a lock has one holder, a request a known answer.
Typed ==
    /\ entry \in [Entries -> Rows]
    /\ head \in Heads \union {Null}
    /\ balance \in [Accounts -> SUBSET Postings]
    /\ audit \subseteq AuditRows
    /\ corr \subseteq Links
    /\ linked \subseteq Entries
    /\ raced \subseteq Entries
    /\ locked \in BOOLEAN
    /\ holder \in [Resources -> Holders]
    /\ tx \in [Requests -> TxType]
    /\ job \in [Requests -> JobSet]
    /\ todo \in [Requests -> Seq(Labels)]
    /\ pre \in [Requests -> Contents]
    /\ due \in [Requests -> SUBSET Accounts]
    /\ sum \in [Requests -> Sums \union {Null}]
    /\ res \in [Requests -> Answers]

\* A request that has been answered, however its transaction ended, holds no lock
\* and leaves no write that is neither committed nor gone.
TypeOK ==
    /\ Typed
    /\ \A r \in Requests : todo[r] = <<>> =>
         /\ tx[r] = NoTx
         /\ \A x \in Resources : holder[x] # r

-----------------------------------------------------------------------------
(* The hash chain. *)

\* The committed chain never forks, breaks, or loses its head, whatever the
\* interleaving of creates, posts, voids, corrections and bank postings
\* (journal-chain.ts: concurrent appends cannot read the same lastHash).
ChainIsLinear == Linear(entry, head)

\* What makes ChainIsLinear inductive: a transaction holds the lock of all it
\* has written; it never replaces a committed seal, and adds one only while it
\* holds the head; and every transaction sees a linear chain, its own
\* uncommitted seals included.
WritesAreLocked ==
    \A r \in Requests :
      /\ tx[r].head # Null => holder[<<"head">>] = r
      /\ \A e \in Entries : tx[r].rows[e] # Null => holder[<<"row", e>>] = r

SameSeal(row, other) == row.hash = other.hash /\ (row.hash # Null => row.prev = other.prev)

SealsAreKept ==
    \A r \in Requests : \A e \in Entries :
      tx[r].rows[e] # Null /\ (tx[r].head = Null \/ entry[e].hash # Null)
          => SameSeal(tx[r].rows[e], entry[e])

ViewsAreLinear == \A r \in Requests : Linear(View(r), HeadOf(r))

ChainInv == WritesAreLocked /\ SealsAreKept /\ ChainIsLinear /\ ViewsAreLinear

\* A seal is for ever: no later commit changes the hash or the link of a sealed
\* entry (journal-chain.ts: "double append prevention").
SealsAreForever ==
    [][\A e \in Entries : entry[e].hash # Null =>
          /\ entry'[e].hash = entry[e].hash
          /\ entry'[e].prev = entry[e].prev]_entry

\* No fresh v2 root is opened over a posted row that was never sealed
\* (journal-chain.ts: it would permanently split the ledger integrity state).
NoRootOverUnsealed ==
    (\E e \in Entries : entry[e].status = "posted" /\ entry[e].hash = Null)
        => \A f \in Sealed(entry) : entry[f].prev = Null => entry[f].hash.ver = "v1"

\* The lines of a sealed entry are those its hash was computed from.
SealMatchesContent ==
    \A e \in Sealed(entry) : entry[e].hash.content = entry[e].content

-----------------------------------------------------------------------------
(* Status. *)

\* No entry leaves its draft without a seal, in any handler or failure: the
\* status and the append share one transaction. So a post answered with success
\* left its entry sealed, and exactly one of the posts of that entry wrote the
\* audit row, losers of the race included.
PostedIsSealed ==
    \A e \in Entries : entry[e].status \in {"posted", "void"} => entry[e].hash # Null

PostAnswersTruthfully ==
    /\ PostedIsSealed
    /\ \A r \in Requests : job[r].op = "post" /\ res[r] = "ok" =>
         /\ entry[job[r].entry].status \in {"posted", "void"}
         /\ Cardinality({a \in audit : /\ job[a.by].op = "post"
                                       /\ job[a.by].entry = job[r].entry}) = 1

-----------------------------------------------------------------------------
(* Balances, audit, idempotency, corrections. *)

\* At every committed state the stored balance of every account is the sum of
\* the posted lines, though each transaction aggregates before it writes.
BalancesAreExact ==
    \A a \in Accounts : balance[a] = Counted(entry, a)

\* The hashed audit rows are one chain, though each writer finds the tail by
\* itself (audit.ts: concurrent writers can never fork the chain).
AuditIsLinear ==
    /\ \A a, b \in audit : a.prev = b.prev => a = b
    /\ \A a \in audit : a.prev # Null => \E b \in audit : b.by = a.prev
    /\ audit # {} => Cardinality(AuditTails) = 1

\* An idempotency key names at most one entry, and two creates that use it are
\* both answered with that entry only if they ask for the same thing: retries
\* that overlap create nothing twice and hide nothing.
ServedByKey(k) ==
    {r \in Requests : /\ job[r].op = "create" /\ job[r].key = k
                      /\ res[r] \in {"ok", "replayed"}}

OneEntryPerKey ==
    /\ \A e, f \in Entries :
         entry[e].use # Null /\ entry[f].use # Null /\ entry[e].use.key = entry[f].use.key
             => e = f
    /\ \A k \in Keys : \A q, r \in ServedByKey(k) :
         job[q].content = job[r].content /\ job[q].posted = job[r].posted

\* No PUT edits the lines of e: one that read the draft may rewrite the lines of
\* the posted entry (SealMatchesContent), a corrected original's included.
Unedited(e) == \A r \in Requests : job[r].op = "edit" => job[r].entry # e

\* An original is corrected at most once, and a correction is whole: its
\* counter-entry reverses the original and its replacement follows it in the
\* chain, both posted by the same transaction, although the lines of the original
\* are read before it is known that nobody else corrects it.
CorrectionsAreWhole ==
    /\ \A k, l \in corr : k.original = l.original => k = l
    /\ \A k \in corr :
         /\ Unedited(k.original) =>
              entry[k.counter].content = Reversal[entry[k.original].content]
         /\ entry[k.replacement].prev = entry[k.counter].hash
         /\ entry[k.counter].hash # Null /\ entry[k.replacement].hash # Null

\* No entry that a bank transaction links is voided or corrected behind it, be it
\* made by a bank flow or matched later by its amount. An entry matched while a
\* void or a correction was past its look-up is excepted, as the code looks once
\* and before its transaction: LinkedEntriesStand.
BankEntriesStand ==
    \A e \in linked \ raced :
        entry[e].status = "posted" /\ \A k \in corr : k.original # e

\* Whatever overlaps (journal/[id]/route.ts:429-432: else the transaction would be
\* linked to a void entry and its movement disappear from balances and reports).
LinkedEntriesStand ==
    \A e \in linked : entry[e].status = "posted" /\ \A k \in corr : k.original # e

\* A locked fiscal period takes no new posting (docs/invariants.md).
ClosedPeriodTakesNoPosting ==
    [][locked => \A e \in Entries :
          entry[e].status # "posted" /\ entry'[e].content \in Dated
              => entry'[e].status # "posted"]_entry

\* A corrected original stays in the ledger beside its counter-entry
\* (journal-correction.service.ts: "original kept intact").
CorrectedOriginalStands ==
    \A k \in corr : entry[k.original].status = "posted"

-----------------------------------------------------------------------------
(* Progress. *)

\* Every request is answered: whatever lock order the handlers use, no cycle of
\* waiting transactions lasts.
EveryRequestEnds == \A r \in Requests : <>(todo[r] = <<>>)

-----------------------------------------------------------------------------
(* The ledger a reader sees: the walk along the chain from its root. *)

\* Level i: the sealed entries i steps along the chain of rows.
LevelsOf(rows) ==
    LET level[i \in 1..Cardinality(Sealed(rows))] ==
            IF i = 1 THEN {e \in Sealed(rows) : rows[e].prev = Null}
            ELSE {e \in Sealed(rows) : \E f \in level[i - 1] : rows[e].prev = rows[f].hash}
    IN  level

WalkOf(rows) ==
    [i \in 1..Cardinality(Sealed(rows)) |->
        IF LevelsOf(rows)[i] = {} THEN <<Null, Null>>
        ELSE LET e == CHOOSE e \in LevelsOf(rows)[i] : TRUE IN <<e, rows[e].hash.content>>]

Walk == WalkOf(entry)

Annulled == {e \in Sealed(entry) : entry[e].status = "void"}

Ledger == INSTANCE GeneralLedger WITH ledger <- Walk, annulled <- Annulled

\* The journal implements the general ledger: committed transactions only add
\* postings at the end or annul one for good, and keep the balances in step. So
\* void is final, though a post that read the draft gets its turn after others
\* have posted and voided it; and what counts in a balance is in the chain.
ImplementsGeneralLedger == Ledger!Spec
=============================================================================
