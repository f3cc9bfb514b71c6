-------------------------------- MODULE MCGate --------------------------------
(* An instance of Gate for TLC: a production environment with a shared     *)
(* storage, staging without Cloudflare on the same storage with too high a *)
(* hop count, production without a storage, and production without an      *)
(* origin secret, which does not start.  Senders write nothing to          *)
(* X-Forwarded-For, or an address.                                         *)
EXTENDS Gate, TLC

Good == [env |-> "production", debug |-> FALSE, bypass |-> FALSE,
         strong |-> TRUE, localhost |-> FALSE, secret |-> "long",
         hops |-> 1, shared |-> TRUE]

Environments ==
    {Good, [Good EXCEPT !.env = "staging", !.secret = "none", !.hops = 2],
     [Good EXCEPT !.shared = FALSE], [Good EXCEPT !.secret = "none"]}

Claims == {<<>>} \cup {<<c>> : c \in Client}

Symmetry == Permutations(Process) \cup Permutations(Client)
===============================================================================
