----------------------------- MODULE MCAccounts -----------------------------
(* An administrator and an analyst from the seed, and two ids to create.     *)
EXTENDS Accounts, TLC
CONSTANTS u1, u2, u3, u4, r1, r2, r3, c1
MCNameOf == u1 :> "admin" @@ u2 :> "analyst" @@ u3 :> "analyst" @@ u4 :> "analyst"
MCSymmetry == Permutations(Requests) \cup Permutations({u3, u4})
=============================================================================
