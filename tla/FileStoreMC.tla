---------------------------- MODULE FileStoreMC ----------------------------
(* Files and avatars share no state but the requests: a run of both at once would only multiply
   one by the other, so a behaviour is followed while it keeps to one of the two. *)
EXTENDS FileStore, TLC

CONSTANT MaxVersion    \* renames of a file that are followed

Symmetric == Permutations(Requests) \cup Permutations(Members) \cup Permutations(Files)
               \cup Permutations(Names) \cup Permutations(Exts)

AvatarsInUse == \E p \in objects : p[1] \in Members

InScope ==
  /\ AvatarsInUse => minted = {}
  /\ Cardinality(torn) <= 1
  /\ \A f \in Existing : rows[f].version <= MaxVersion
=============================================================================
