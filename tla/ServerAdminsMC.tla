--------------------------- MODULE ServerAdminsMC ---------------------------
(* ServerAdmins instantiated for TLC.                                       *)
EXTENDS ServerAdmins, TLC

(* Neither users nor requests are told apart but by what they did. *)
Alike == Permutations(User) \cup Permutations(Request)
=============================================================================
