---------------------------- MODULE GeneralLedger ----------------------------
(***************************************************************************)
(* What the ledger of a company promises, with no locks, transactions or   *)
(* hashes: a sequence of postings that only grows at its end, a posting    *)
(* that may be annulled once and for good, and account balances that are   *)
(* at every moment the sum of the postings in force.                       *)
(***************************************************************************)
EXTENDS Naturals, Sequences

CONSTANTS Entries, Contents, Accounts, Touches

VARIABLES
    ledger,     \* the postings <<entry, content>> in the order they were made
    annulled,   \* entries that were voided
    balance     \* balance[a]: the postings the stored balance of a sums

vars == <<ledger, annulled, balance>>

Recorded == {ledger[i][1] : i \in 1..Len(ledger)}

InForce(l, gone, a) ==
    {l[i] : i \in {k \in 1..Len(l) : l[k][1] \notin gone /\ a \in Touches[l[k][2]]}}

NoRepeat(l) == \A i, k \in 1..Len(l) : l[i][1] = l[k][1] => i = k

Extends(l, m) == Len(l) < Len(m) /\ SubSeq(m, 1, Len(l)) = l

Balanced == \A a \in Accounts : balance[a] = InForce(ledger, annulled, a)

Init ==
    /\ ledger \in Seq(Entries \X Contents) /\ NoRepeat(ledger)
    /\ annulled \subseteq Recorded
    /\ Balanced

\* One posting, or a counter-entry and its replacement at once.
Record ==
    /\ Extends(ledger, ledger') /\ NoRepeat(ledger')
    /\ annulled' = annulled
    /\ Balanced'

Annul ==
    /\ ledger' = ledger
    /\ \E e \in Recorded \ annulled : annulled' = annulled \union {e}
    /\ Balanced'

Next == Record \/ Annul

Spec == Init /\ [][Next]_vars
=============================================================================
