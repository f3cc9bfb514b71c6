------------------------------ MODULE MCAccounts ------------------------------
(* An instance of Accounts for TLC.  Ids are chosen by CHOOSE, so they are *)
(* not symmetric.                                                          *)
EXTENDS Accounts, TLC

Symmetry == Permutations(Username) \cup Permutations(Email) \cup
            Permutations(Request)
=============================================================================
