---------------------------- MODULE RestorePromise ----------------------------
(***************************************************************************)
(* What a restore promises to the operations of an installation: the rows  *)
(* of a company and its files become those of the archive in one step, at  *)
(* a moment when no operation is admitted.  Every other change of them is  *)
(* made by an admitted operation.                                          *)
(***************************************************************************)
CONSTANTS
    Requests, \* operations that are admitted, edit and leave
    Restores, \* restores, each of the archive that bears its name
    Parts,    \* the parts of a company: its rows, and each of its files
    Original  \* what every part holds at first

VARIABLES
    inside, \* the operations admitted now
    books   \* the last writer of each part

Init == inside = {} /\ books = [x \in Parts |-> Original]

Enter(o) == o \notin inside /\ inside' = inside \union {o} /\ UNCHANGED books

Leave(gone) == gone # {} /\ gone \subseteq inside /\ inside' = inside \ gone /\ UNCHANGED books

Edit(o, x) == o \in inside /\ books' = [books EXCEPT ![x] = o] /\ UNCHANGED inside

Restore(r) == inside = {} /\ books' = [x \in Parts |-> r] /\ UNCHANGED inside

Next ==
    \/ \E o \in Requests : Enter(o) \/ \E x \in Parts : Edit(o, x)
    \/ \E gone \in SUBSET Requests : Leave(gone)
    \/ \E r \in Restores : Restore(r)

Spec == Init /\ [][Next]_<<inside, books>>
=============================================================================
