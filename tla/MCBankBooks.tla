----------------------------- MODULE MCBankBooks -----------------------------
(* The instance of the bank books TLC explores: a deposit and a withdrawal of *)
(* the same amount, and four or five requests at a time.                      *)
EXTENDS BankBooksProps, TLC

CONSTANTS r1, r2, r3, r4, r5, t1, t2, sales, fees, suspense

MCAmount == t1 :> 1 @@ t2 :> -1
MCOdd == t1 :> {fees} @@ t2 :> {sales}

J(op, T) == [op |-> op, txns |-> T, gl |-> Null, entries |-> FALSE,
             review |-> FALSE, ref |-> Null, amount |-> 0]
To(j, a) == [j EXCEPT !.gl = a]
Booked(j) == [j EXCEPT !.entries = TRUE]
Reviewed(j) == [j EXCEPT !.review = TRUE]
On(j, r) == [j EXCEPT !.ref = r]

Four(a, b, c, d) == r1 :> a @@ r2 :> b @@ r3 :> c @@ r4 :> d
Five(a, b, c, d, e) == Four(a, b, c, d) @@ r5 :> e

Applied(T) == To(J("apply", T), sales)
Single(T) == To(J("single", T), sales)
Undo(r) == On(J("revert", {}), r)
Post1 == On(J("post", {t1}), r1)
Recon(t, a) == Booked(To(J("reconcile", {t}), a))
Mark(t) == J("reconcile", {t})
Auto(t) == Booked(To(J("autoRule", {t}), sales))
Reclass(t, a) == To(J("reclassify", {t}), a)
ByAmount(t) == To(J("autoAmount", {t}), sales)
File(T) == J("import", T)
Adjust1 == [To(J("adjust", {}), sales) EXCEPT !.amount = 1]
Begin == J("start", {})
Complete1 == On(J("complete", {}), r1)
Cancel1 == On(J("cancel", {}), r1)

\* Rule applications and rollbacks of the same rows, with what may happen to a
\* row meanwhile, in every interleaving.
RuleWorkloads ==
    {Four(a, b, c, d) :
        a \in {Applied({t1, t2}), Reviewed(Applied({t1, t2})), Single({t1, t2})},
        b \in {Applied({t2}), Single({t1}), Reviewed(Applied({t1})), Mark(t1)},
        c \in {Undo(r1), Mark(t2), J("ignore", {t1})},
        d \in {Undo(r1), Undo(r2), J("unreconcile", {t1, t2})}}
    \union
    {Four(Applied({t1}), Undo(r1), Undo(r1), a) : a \in {Applied({t1}), Single({t1})}}

\* Entries that wait for a human: drafts posted, suspicious rows reviewed.
ReviewWorkloads ==
    {Four(Reviewed(Applied({t1})), Post1, a, b) :
        a \in {Mark(t1), Applied({t1}), Post1},
        b \in {J("unreconcile", {t1}), Post1, J("ignore", {t1})}}
    \union
    {Four(Recon(t1, fees), a, b, c) :
        a \in {J("approve", {t1}), J("unreconcile", {t1})},
        b \in {J("reject", {t1}), Mark(t1)},
        c \in {J("approve", {t1}), J("ignore", {t1}), J("reject", {t1})}}

\* Reconciliation periods, and the other ways a row is matched or booked.
PeriodWorkloads ==
    {Four(Begin, On(Recon(t1, sales), r1), On(c, r1), d) :
        c \in {Auto(t2), Recon(t2, fees)}, d \in {Complete1, Cancel1}}
    \union
    {Four(Begin, J("ignore", {t1, t2}), c, Complete1) :
        c \in {Begin, Cancel1, Complete1}}
    \union
    {Four(Adjust1, To(J("autoAmount", {t1}), sales), c, J("unignore", {t1})) :
        c \in {Reclass(t2, fees), J("unreconcile", {t1})}}

\* Handlers that book one transaction past each other.
CrossingWorkloads ==
    {Four(a, b, c, d) :
        a \in {Applied({t1}), Recon(t1, fees)},
        b \in {Recon(t1, sales), Reclass(t1, fees), Auto(t1)},
        c \in {ByAmount(t1), J("approve", {t1}), J("unreconcile", {t1})},
        d \in {Undo(r1), J("reject", {t1})}}

\* Statements imported while others match, book and complete.
ImportWorkloads ==
    {Four(To(File({t1, t2}), a), File({t2}), b, c) :
        a \in {Null, sales}, b \in {Applied({t1, t2}), Recon(t2, fees)},
        c \in {Reclass(t2, fees), J("ignore", {t1, t2}), Auto(t1)}}

FlowWorkloads ==
    RuleWorkloads \union ReviewWorkloads \union PeriodWorkloads
        \union CrossingWorkloads \union ImportWorkloads

\* The behaviours the findings are about.
ReapplyWorkloads == {Four(Applied({t1}), Reclass(t1, fees), Undo(r1), Applied({t1}))}

\* One request at a time: no two of them overlap.
Serial == Cardinality({r \in Requests : pc[r] \notin {"begin", "done"}}) <= 1

ApproveWorkloads ==
    {Four(Recon(t1, fees), J("approve", {t1}), Recon(t2, fees), Mark(t2))}
RevertWorkloads == {Four(Reviewed(Applied({t1})), Post1, Undo(r1), Mark(t1))}
RematchWorkloads == {Four(Applied({t1}), Adjust1, ByAmount(t1), Mark(t2))}
RereviewWorkloads ==
    {Four(To(Mark(t1), fees), J("approve", {t1}), J("unreconcile", {t1}), Recon(t1, fees))}
CompleteWorkloads ==
    {Four(Begin, On(Recon(t1, sales), r1), c, Complete1) :
        c \in {File({t2}), J("unreconcile", {t1})}}
EvidenceWorkloads ==
    {Five(Begin, On(To(J("reconcile", {t1}), fees), r1), J("ignore", {t2}),
          Complete1, J("reject", {t1}))}
=============================================================================
