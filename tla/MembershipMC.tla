----------------------------- MODULE MembershipMC -----------------------------
(* Membership on small instances.                                           *)
EXTENDS Membership, TLC

(* The requests are alike, and so are the users.                            *)
Symmetry == Permutations(Request) \cup Permutations(User)
===============================================================================
