----------------------------- MODULE ContentMC -----------------------------
(* Three items in each list, at first in the order of their names; a behaviour stays with the
   tasks, the pages and their navigation, the events and keys, the cards, or the handles: no
   request reads or writes two of these. *)
EXTENDS Content, TLC

CONSTANTS i1, i2, i3, h1, h2, h3

InOrder == i1 :> 1 @@ i2 :> 2 @@ i3 :> 3
OwnedBy == i1 :> i2 @@ i2 :> i2 @@ i3 :> i3
Dates == 0 :> "0" @@ 1 :> "1"
InOrgs == {<<i1, i1>>, <<i2, i1>>, <<i2, i2>>, <<i3, i3>>}
Groups == {{"todo"}, {"page", "nav"}, {"event", "key"}, {"card", "deck"}, {"profile", "organization"}}
\* Pages are edited two, and arranged three, at a time.
Edited == \A r \in Requests : request[r] # NoRow => ~ (request[r].kind = "page" /\ request[r].item = i1)
Symmetric == Permutations(Requests) \cup Permutations({h1, h3})
=============================================================================
