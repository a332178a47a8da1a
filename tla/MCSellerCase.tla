---------------------------- MODULE MCSellerCase ----------------------------
(* Values for the constant AccountsOf of SellerCase.                       *)
EXTENDS SellerCase, FiniteSets

\* Every buyer has one shared account, and no two share one.
OneAccountEach ==
    CHOOSE f \in [Peers -> {{n} : n \in 1..Cardinality(Peers)}] :
        \A b, c \in Peers : b # c => f[b] # f[c]

\* Every buyer names one of two accounts, as after a restart of his.
TwoAccountsEach == [b \in Peers |-> {1, 2}]
=============================================================================
