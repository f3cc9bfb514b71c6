-------------------------------- MODULE MCInbox --------------------------------
(* An instance of Inbox for TLC.  Ids are chosen by CHOOSE. *)
EXTENDS Inbox, TLC

Symmetry == Permutations(Request)
===============================================================================
