---------------------------- MODULE MCAccountAccess ----------------------------
(* Two addresses, one of them the archive owner's; an installation begins   *)
(* empty, or with both as administrators.                                   *)
EXTENDS AccountAccessProps, TLC

CONSTANTS a, b

Admin == Account("super_admin", TRUE, "start")

MCStarts ==
    {[user |-> [e \in Emails |-> NoOne], companies |-> {}],
     [user |-> [e \in Emails |-> Admin], companies |-> {a}]}

MCSymmetry == Permutations(Calls)
===============================================================================
