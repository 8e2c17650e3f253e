--------------------------- MODULE MCStatementIntake ---------------------------
(* Two accounts of which none has a number at first, overlapping files that *)
(* list the lines of one day in opposite orders.                           *)
EXTENDS StatementIntakeProps, TLC

MCFirstNumber == [a \in BankAccounts |-> "unknown"]
MCAmount == [fee |-> -1, sale |-> 3, note |-> 0]
MCDay == [fee |-> 1, sale |-> 2, note |-> 2]
MCExpected ==
    [fee |-> {"account", "error"}, sale |-> {"none"}, note |-> {"proposal"}]
MCFiles ==
    {[lines |-> <<"fee", "sale", "note">>, from |-> 1, to |-> 2, opening |-> 0, closing |-> {}],
     [lines |-> <<"note", "sale", "fee", "sale">>, from |-> 1, to |-> 3, opening |-> 5,
      closing |-> {9}]}

MCSymmetry == Permutations(Calls) \union Permutations(BankAccounts)
===============================================================================
