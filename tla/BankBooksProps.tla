---------------------------- MODULE BankBooksProps ----------------------------
(***************************************************************************)
(* What must hold of the transactions of a bank account and their entries, *)
(* stated over BankBooks.                                                  *)
(***************************************************************************)
EXTENDS BankBooks

Answers == {"none", "ok", "reverted", "refused", "failed"}

Labels == {"begin", "reread", "periods", "difference", "unmatched", "unlink",
           "write", "done"}

RowsTyped ==
    /\ row \in [Txns -> Rows]
    /\ entry \in [Entries -> EntryRows]
    /\ record \in [Requests -> {"absent", "applied", "reverted"}]
    /\ period \in [Requests -> {"absent", "open", "completed", "cancelled"}]

HandlersTyped ==
    /\ job \in Workloads
    /\ pc \in [Requests -> Labels]
    /\ seen \in [Requests -> [Txns -> Rows]]
    /\ batch \in [Requests -> SUBSET Txns]
    /\ found \in [Requests -> SUBSET Entries]
    /\ res \in [Requests -> Answers]
    /\ crossed \in SUBSET Txns

LinksExist == \A t \in Txns : row[t].entry # Null => entry[row[t].entry].status # "absent"

PostedIsSealed == \A e \in Posted(entry) : entry[e].sealed

\* Rows, entries, records and periods have the columns and statuses of the
\* schema; a row links an entry that exists, and a posted entry is sealed
\* (schema.prisma: the foreign keys; journal-chain.ts: every posted entry).
TypeOK == RowsTyped /\ HandlersTyped /\ LinksExist /\ PostedIsSealed

-----------------------------------------------------------------------------
(* Booking. *)

\* Every posted entry made for a bank transaction is the one the transaction
\* links, so none is booked twice or out of reach (the contract 1:1). Of the
\* transactions that a handler wrote upon a link it had not read, the code does not
\* promise it: AtMostOnePosting and AllPostingsAreLinked.
PostingsAreLinked ==
    \A e \in Posted(entry) : e[2] \notin crossed \union {Null} => row[e[2]].entry = e

\* Whatever overlaps. An automatic match by amount links a booked row to another
\* entry, one request after the other.
AllPostingsAreLinked == \A e \in Posted(entry) : e[2] # Null => row[e[2]].entry = e

\* A bank transaction counts at most once in the ledger
\* (reconciliation.service.ts: "avoiding double-posting").
AtMostOnePosting ==
    \A t \in Txns : Cardinality({e \in Posted(entry) : e[2] = t}) <= 1

\* The stored balance of the bank account is the sum of its posted entries
\* whenever no transaction is open (closing-engine.ts: every posting path
\* refreshes it).
StoredBalanceIsBook == balance = Book(entry)

\* An entry that awaits review can be reached: some row in review links it, so
\* that an administrator can still approve or reject it. The same exception: an
\* approval or a rejection goes by the link it read (review/route.ts:26-56).
PendingIsReachable ==
    \A e \in Entries :
      entry[e].status = "pending_review" /\ e[2] \notin crossed
          => \E t \in Txns : row[t].entry = e /\ row[t].status = "pending_review"

\* Whatever overlaps. A row in review without an entry that is unreconciled, and
\* reconciled again with one, between the two steps of an approval breaks it.
AllPendingIsReachable ==
    \A e \in Entries :
      entry[e].status = "pending_review"
          => \E t \in Txns : row[t].entry = e /\ row[t].status = "pending_review"

-----------------------------------------------------------------------------
(* Rule applications (ADR-013). *)

\* A reverted application leaves none of its entries in force, drafts included
\* (ADR-013: "void de journals"). A draft that is being posted meanwhile breaks it.
RevertIsWhole ==
    \A k \in Requests :
      record[k] = "reverted"
          => \A e \in Entries : entry[e].record = k => entry[e].status = "void"

\* Of the reverts of one application, however they interleave, one succeeds.
OneRevertWins ==
    \A q, r \in Requests :
      q # r /\ res[q] = "reverted" /\ res[r] = "reverted" => job[q].ref # job[r].ref

\* What makes the two above and below inductive: an application has no record
\* until it claims its rows; a row of an application that stands is claimed by a
\* rule, hence not eligible; and a revert that can still win unlinks rows of its
\* own application only.
RecordIsNew ==
    \A r \in Requests :
      job[r].op \in {"apply", "single"} /\ pc[r] # "done" => record[r] = "absent"

AppliedRowsAreClaimed ==
    \A t \in Txns, k \in Requests :
      row[t].record = k
          => record[k] # "absent" /\ (record[k] = "applied" => row[t].rule)

RevertsOwnRows ==
    \A r \in Requests :
      job[r].op = "revert" /\ pc[r] = "write"
          => /\ record[job[r].ref] # "absent"
             /\ record[job[r].ref] = "applied"
                  => \A t \in batch[r] : row[t].record = job[r].ref

RevertedIsReverted ==
    \A r \in Requests :
      res[r] = "reverted"
          => job[r].op = "revert" /\ pc[r] = "done" /\ record[job[r].ref] = "reverted"

FoundExist ==
    \A r \in Requests :
      pc[r] # "done" => \A e \in found[r] : entry[e].status # "absent"

IInv ==
    /\ TypeOK /\ FoundExist
    /\ RecordIsNew /\ AppliedRowsAreClaimed /\ RevertsOwnRows
    /\ RevertedIsReverted /\ OneRevertWins

\* While an application stands, no other request takes a row it acquired.
AppliedKeepsItsRows ==
    [][\A t \in Txns, k \in Requests :
          row[t].record = k /\ record[k] = "applied" /\ record'[k] = "applied"
              => row'[t].record = k]_vars

-----------------------------------------------------------------------------
(* Reconciliation periods. *)

\* A period is completed only when no transaction of the account is left unmatched
\* (periods/route.ts:167-170, S22(c)). A match undone, or a statement imported,
\* between the count and the update breaks it.
CompletedMeansMatched ==
    [][\A p \in Requests :
          period[p] # "completed" /\ period'[p] = "completed" => Unmatched = {}]_vars

\* A transaction reconciled in a completed period stays reconciled in it
\* (S22(d): "locked evidence").
EvidenceStands ==
    [][\A t \in Txns, p \in Requests :
          row[t].reconciled /\ row[t].period = p /\ period[p] = "completed"
              => row'[t].reconciled /\ row'[t].period = p]_vars
=============================================================================
