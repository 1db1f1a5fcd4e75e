------------------------------ MODULE Membership ------------------------------
(* The roster and the invitations of one organization                       *)
(* (apps/organizations and its migration).  Requests run side by side, each *)
(* in one READ COMMITTED transaction: it passes the gate, checks in Python, *)
(* starts its statement (when row level security asks who the caller is),   *)
(* waits for the row's lock, meets the trigger, and commits.  What it has   *)
(* written and not committed is in its draft, which nobody else sees.       *)
EXTENDS Naturals, FiniteSets

CONSTANTS
  User,         \* users
  Invitation,   \* rows of org_invitations
  Request,      \* requests, each made once
  None,         \* no user, no invitation
  MaxOpen,      \* how many requests may be open at once
  MaxFaults     \* bound: how many fail for a reason of their own

ASSUME NoneAssumption == None \notin User \cup Invitation
ASSUME NamesAssumption == User \cap Invitation = {}
ASSUME BoundAssumption ==
  /\ IsFiniteSet(Request)
  /\ MaxOpen \in Nat \ {0}
  /\ MaxFaults \in Nat

VARIABLES
  org,          \* the organization exists
  role,         \* role[u]: the committed row of memberships, or "none"
  version,      \* version[u]: its optimistic lock
  invitation,   \* invitation[i]: [status, email, version]
  founders,     \* members before the first request
  req,          \* req[r]: [kind, actor, target, inv, role]
  step,         \* step[r]: where the request stands
  saw,          \* saw[r]: [role, version] of the row the ORM has loaded
  granted,      \* granted[r]: whether the policies let its statement through
  locked,       \* locked[r]: rows it holds
  draft,        \* draft[r]: [role, status, drop, fact], what it will commit
  raced,        \* two drafts have each ended another ownership
  faults        \* faults so far

committed == <<org, role, version, invitation>>
local == <<req, saw, granted>>
vars == <<committed, founders, local, step, locked, draft, raced, faults>>

Roles == {"owner", "member"}
Statuses == {"unused", "pending", "accepted", "revoked"}
Facts == {"", "left", "removed", "role_changed", "joined", "sent", "revoked", "forgotten"}
Kinds == {"leave", "remove", "set_role", "invite", "revoke", "accept", "forget"}
OwnerKinds == {"remove", "set_role", "invite", "revoke"}    \* behind CurrentOwnerMembership
DeleteKinds == {"leave", "remove", "forget"}

Asked ==
  [kind : Kinds, actor : User, target : User, inv : Invitation \cup {None}, role : Roles]
Unloaded == [role |-> "none", version |-> 0]
NoDraft == [role |-> "keep", status |-> "keep", drop |-> FALSE, fact |-> ""]

Open == {r \in Request : step[r] \notin {"new", "done", "refused"}}
Members == {u \in User : role[u] # "none"}
Owners == {u \in User : role[u] = "owner"}
NoInvitation == [status |-> "unused", email |-> None, version |-> 0]
Pending(u) == [status |-> "pending", email |-> u, version |-> 1]
Row(u) == [role |-> role[u], version |-> version[u]]

(* create_org_with_owner seats the first owner; others may have joined, and *)
(* invitations may be pending.                                              *)
Init ==
  /\ org = TRUE
  /\ role \in {f \in [User -> Roles \cup {"none"}] : \E u \in User : f[u] = "owner"}
  /\ version = [u \in User |-> IF role[u] = "none" THEN 0 ELSE 1]
  /\ invitation \in [Invitation -> {NoInvitation} \cup {Pending(u) : u \in User}]
  /\ founders = Members
  /\ req = [r \in Request |-> None]
  /\ step = [r \in Request |-> "new"]
  /\ saw = [r \in Request |-> Unloaded]
  /\ granted = [r \in Request |-> FALSE]
  /\ locked = [r \in Request |-> {}]
  /\ draft = [r \in Request |-> NoDraft]
  /\ raced = FALSE
  /\ faults = 0

Goes(r, s) == step' = [step EXCEPT ![r] = s]
Is(r, kinds) == req[r].kind \in kinds
Target(r) == req[r].target

-----------------------------------------------------------------------------
(* Reads: the gate and the checks in Python.                                *)

Gate(q) ==
  CASE q.kind \in OwnerKinds -> role[q.actor] = "owner"
    [] q.kind = "leave" -> role[q.actor] # "none"
    [] q.kind = "accept" -> /\ invitation[q.inv].status = "pending"
                            /\ invitation[q.inv].email = q.actor
    [] OTHER -> TRUE

(* A request names what it needs: an invitation a new row, a revocation and *)
(* an acceptance theirs, everything else none.                              *)
Sensible(q) ==
  /\ (q.inv # None) <=> (q.kind \in {"invite", "revoke", "accept"})
  /\ q.kind = "invite" => /\ invitation[q.inv].status = "unused"
                          /\ \A r \in Open : req[r].inv # q.inv
  /\ q.kind \in {"leave", "accept", "revoke", "forget"} => q.target = q.actor
  /\ q.kind # "set_role" => q.role = "member"

(* The gate's SELECT also loads the caller's row into the session.          *)
Arrive(r) ==
  \E q \in Asked :
    /\ step[r] = "new" /\ Cardinality(Open) < MaxOpen
    /\ Sensible(q)
    /\ req' = [req EXCEPT ![r] = q]
    /\ Goes(r, IF org /\ Gate(q) THEN "gated" ELSE "refused")
    /\ saw' = [saw EXCEPT ![r] =
                 IF q.kind \in {"leave", "remove", "set_role"} /\ q.target = q.actor
                 THEN Row(q.actor) ELSE Unloaded]
    /\ UNCHANGED <<committed, founders, granted, locked, draft, raced, faults>>

(* get_membership: a caller who is no member sees no row; a row the session *)
(* has loaded keeps the attributes it had then.                             *)
Found(r) == role[req[r].actor] # "none" /\ role[Target(r)] # "none"
Loaded(r) ==
  IF ~Found(r) THEN Unloaded ELSE IF saw[r] = Unloaded THEN Row(Target(r)) ELSE saw[r]

LastOwnerCheck(m) == m.role = "owner" /\ Cardinality(Owners) <= 1

(* ensure_not_last_owner, then what the handler reads before it writes.     *)
Check(r) ==
  LET m == Loaded(r) IN
  /\ step[r] = "gated"
  /\ \/ /\ Is(r, {"leave", "remove"})
        /\ Goes(r, IF LastOwnerCheck(m) THEN "refused" ELSE "checked")
        /\ saw' = [saw EXCEPT ![r] = m]
        /\ UNCHANGED draft
     \/ /\ Is(r, {"set_role"})
        /\ Goes(r, CASE m = Unloaded \/ (req[r].role = "member" /\ LastOwnerCheck(m)) -> "refused"
                     [] m # Unloaded /\ m.role = req[r].role -> "written"
                     [] OTHER -> "checked")
        /\ saw' = [saw EXCEPT ![r] = m]
        /\ draft' = [draft EXCEPT ![r].fact = "role_changed"]
     \/ /\ Is(r, {"invite"})
        /\ Goes(r, IF \/ role[Target(r)] # "none"
                      \/ \E i \in Invitation : /\ invitation[i].status = "pending"
                                               /\ invitation[i].email = Target(r)
                   THEN "refused" ELSE "checked")
        /\ UNCHANGED <<saw, draft>>
     \/ /\ Is(r, {"revoke"})
        /\ LET i == invitation[req[r].inv] IN
           /\ Goes(r, CASE i.status = "unused" \/ role[req[r].actor] # "owner" -> "refused"
                        [] i.status = "revoked" /\ role[req[r].actor] = "owner" -> "written"
                        [] OTHER -> "checked")
           /\ saw' = [saw EXCEPT ![r].version = i.version]
        /\ draft' = [draft EXCEPT ![r].fact = "revoked"]
     \/ /\ Is(r, {"accept"})
        /\ Goes(r, "checked")
        /\ UNCHANGED <<saw, draft>>
     \/ /\ Is(r, {"forget"})
        /\ Goes(r, CASE role[Target(r)] = "none" -> "written"
                     [] role[Target(r)] # "none" /\ Owners = {Target(r)} -> "dropping"
                     [] OTHER -> "checked")
        /\ saw' = [saw EXCEPT ![r] = Row(Target(r))]
        /\ UNCHANGED draft
  /\ UNCHANGED <<committed, founders, req, granted, locked, raced, faults>>

-----------------------------------------------------------------------------
(* Statements.                                                              *)

(* The policies, as the statement's snapshot answers them.  The worker's    *)
(* session and the SECURITY DEFINER function are under none.                *)
Policy(r) ==
  CASE Is(r, {"leave", "accept", "forget"}) -> TRUE
    [] Is(r, {"remove"}) -> role[req[r].actor] = "owner" \/ Target(r) = req[r].actor
    [] OTHER -> role[req[r].actor] = "owner"

Issue(r) ==
  /\ step[r] = "checked"
  /\ granted' = [granted EXCEPT ![r] = Policy(r)]
  /\ Goes(r, "issued")
  /\ UNCHANGED <<committed, founders, req, saw, locked, draft, raced, faults>>

Free(x, r) == \A s \in Request \ {r} : x \notin locked[s]

(* prevent_last_owner_removal, on a snapshot taken once the row is locked:  *)
(* it sees no other owner, committed.                                       *)
NoTrigger(u) == FALSE                       \* mutant
Trigger(u) == Owners = {u}

EndsOwnership(r) ==
  /\ draft[r].role \in {"none", "member"}
  /\ role[Target(r)] = "owner"

(* Whether another open draft ends the ownership of somebody else.          *)
Races(r) == \E s \in Open : EndsOwnership(s) /\ Target(s) # Target(r)

Refuse(r) == Goes(r, "refused") /\ UNCHANGED <<locked, draft, raced>>

WriteRow(r, new, fact) ==
  /\ draft' = [draft EXCEPT ![r].role = new, ![r].fact = fact]
  /\ locked' = [locked EXCEPT ![r] = @ \cup {Target(r)}]
  /\ raced' = (raced \/ (role[Target(r)] = "owner" /\ new # "owner" /\ Races(r)))

DepartureFact(r) ==
  CASE Is(r, {"leave"}) -> "left" [] Is(r, {"remove"}) -> "removed" [] OTHER -> "forgotten"

(* remove_member is a DELETE without the version; the worker deletes the    *)
(* object it has loaded, with it.                                           *)
Matches(r) ==
  /\ granted[r] /\ role[Target(r)] # "none"
  /\ Is(r, {"set_role", "forget"}) => version[Target(r)] = saw[r].version

DepartureToldAlways(r) == "left"                       \* mutant
DepartureTold(r) == ""                                 \* nothing to remove: no fact

Delete(r) ==
  /\ step[r] = "issued" /\ Is(r, DeleteKinds)
  /\ Free(Target(r), r)
  /\ \/ /\ Matches(r) /\ ~Trigger(Target(r))
        /\ WriteRow(r, "none", DepartureFact(r))
        /\ Goes(r, IF Is(r, {"forget"}) THEN "deleted" ELSE "written")
     \/ /\ ~Matches(r) /\ Is(r, {"leave"})
        /\ draft' = [draft EXCEPT ![r].fact = DepartureTold(r)]
        /\ Goes(r, "written")
        /\ UNCHANGED <<locked, raced>>
     \/ /\ (~Matches(r) /\ ~Is(r, {"leave"})) \/ (Matches(r) /\ Trigger(Target(r)))
        /\ Refuse(r)
  /\ UNCHANGED <<committed, founders, local, faults>>

(* update_member_role, under the version lock.                              *)
SetRole(r) ==
  LET barred == req[r].role = "member" /\ Trigger(Target(r)) IN
  /\ step[r] = "issued" /\ Is(r, {"set_role"})
  /\ Free(Target(r), r)
  /\ \/ /\ Matches(r) /\ ~barred
        /\ WriteRow(r, req[r].role, "role_changed")
        /\ Goes(r, "written")
     \/ (~Matches(r) \/ barred) /\ Refuse(r)
  /\ UNCHANGED <<committed, founders, local, faults>>

(* accept_org_invitation: the row is locked, then its status read again.    *)
AnyStatus(i) == "pending"                   \* mutant: trusts the Python check
StatusOf(i) == invitation[i].status

LockInvitation(r) ==
  LET status == StatusOf(req[r].inv) IN
  /\ step[r] = "issued" /\ Is(r, {"accept"})
  /\ Free(req[r].inv, r)
  /\ \/ /\ status = "pending"
        /\ Goes(r, "seating")
        /\ locked' = [locked EXCEPT ![r] = @ \cup {req[r].inv}]
        /\ UNCHANGED draft
     \/ /\ status = "accepted"
        /\ Goes(r, "written")
        /\ locked' = [locked EXCEPT ![r] = @ \cup {req[r].inv}]
        /\ draft' = [draft EXCEPT ![r].fact = "joined"]
     \/ /\ status \in {"unused", "revoked"}
        /\ Goes(r, "refused")
        /\ UNCHANGED <<locked, draft>>
  /\ UNCHANGED <<committed, founders, local, raced, faults>>

(* The INSERT waits for whoever holds the key, and does nothing on a        *)
(* conflict.                                                                *)
Seat(r) ==
  LET seats == role[Target(r)] = "none" IN
  /\ step[r] = "seating"
  /\ Free(Target(r), r)
  /\ Goes(r, "written")
  /\ draft' = [draft EXCEPT ![r].role = IF seats THEN "member" ELSE "keep",
                            ![r].status = "accepted", ![r].fact = "joined"]
  /\ locked' = [locked EXCEPT ![r] = IF seats THEN @ \cup {Target(r)} ELSE @]
  /\ UNCHANGED <<committed, founders, local, raced, faults>>

Invite(r) ==
  /\ step[r] = "issued" /\ Is(r, {"invite"})
  /\ \/ /\ granted[r] /\ org
        /\ Free(req[r].inv, r)
        /\ draft' = [draft EXCEPT ![r].status = "pending", ![r].fact = "sent"]
        /\ locked' = [locked EXCEPT ![r] = @ \cup {req[r].inv}]
        /\ Goes(r, "written")
        /\ UNCHANGED raced
     \/ ~(granted[r] /\ org) /\ Refuse(r)
  /\ UNCHANGED <<committed, founders, local, faults>>

Revoke(r) ==
  LET i == invitation[req[r].inv]
      matches == granted[r] /\ i.status # "unused" /\ i.version = saw[r].version
  IN
  /\ step[r] = "issued" /\ Is(r, {"revoke"})
  /\ Free(req[r].inv, r)
  /\ \/ /\ matches
        /\ draft' = [draft EXCEPT ![r].status = "revoked"]
        /\ locked' = [locked EXCEPT ![r] = @ \cup {req[r].inv}]
        /\ Goes(r, "written")
        /\ UNCHANGED raced
     \/ ~matches /\ Refuse(r)
  /\ UNCHANGED <<committed, founders, local, faults>>

(* _forget_user: the org goes when nobody remains.                          *)
Remain(r) ==
  /\ step[r] = "deleted"
  /\ Goes(r, IF Members \subseteq {Target(r)} THEN "dropping" ELSE "written")
  /\ UNCHANGED <<committed, founders, local, locked, draft, raced, faults>>

(* The DELETE of the org cascades, and waits for every row somebody holds.  *)
Drop(r) ==
  /\ step[r] = "dropping"
  /\ \A s \in Request \ {r} : locked[s] = {}
  /\ draft' = [draft EXCEPT ![r].drop = org, ![r].fact = "forgotten"]
  /\ locked' = [locked EXCEPT ![r] = User \cup Invitation]
  /\ Goes(r, "written")
  /\ UNCHANGED <<committed, founders, local, raced, faults>>

-----------------------------------------------------------------------------
(* The end of a request.                                                    *)

Become(u, new) ==
  CASE new = "keep" -> Row(u)
    [] new = "none" -> Unloaded
    [] OTHER -> [role |-> new, version |-> version[u] + 1]

(* accept_org_invitation is no ORM write: it leaves the version alone.      *)
Invited(i, r) ==
  CASE draft[r].status = "pending" -> Pending(Target(r))
    [] draft[r].status = "accepted" -> [invitation[i] EXCEPT !.status = "accepted"]
    [] draft[r].status = "revoked" ->
         [invitation[i] EXCEPT !.status = "revoked", !.version = @ + 1]
    [] OTHER -> invitation[i]

Commit(r) ==
  LET dropped == draft[r].drop IN
  /\ step[r] = "written"
  /\ Goes(r, "done")
  /\ org' = (org /\ ~dropped)
  /\ role' = [u \in User |->
       IF dropped THEN "none"
       ELSE IF u = Target(r) THEN Become(u, draft[r].role).role ELSE role[u]]
  /\ version' = [u \in User |->
       IF dropped THEN 0
       ELSE IF u = Target(r) THEN Become(u, draft[r].role).version ELSE version[u]]
  /\ invitation' = [i \in Invitation |->
       IF dropped THEN NoInvitation
       ELSE IF i = req[r].inv THEN Invited(i, r) ELSE invitation[i]]
  /\ locked' = [locked EXCEPT ![r] = {}]
  /\ UNCHANGED <<founders, local, draft, raced, faults>>

(* Refused by an exception: the session rolls back, and its locks go.       *)
Fails(r) ==
  /\ r \in Open
  /\ faults < MaxFaults
  /\ faults' = faults + 1
  /\ Goes(r, "refused")
  /\ locked' = [locked EXCEPT ![r] = {}]
  /\ UNCHANGED <<committed, founders, local, draft, raced>>

Handle(r) ==
  \/ Arrive(r) \/ Check(r) \/ Issue(r)
  \/ Delete(r) \/ SetRole(r) \/ LockInvitation(r) \/ Seat(r) \/ Invite(r) \/ Revoke(r)
  \/ Remain(r) \/ Drop(r)
  \/ Commit(r) \/ Fails(r)

Next == \E r \in Request : Handle(r)

Spec == Init /\ [][Next]_vars

-----------------------------------------------------------------------------
(* Every variable has its type.                                             *)
TypeOK ==
  /\ org \in BOOLEAN
  /\ role \in [User -> Roles \cup {"none"}]
  /\ version \in [User -> Nat]
  /\ invitation \in
       [Invitation -> [status : Statuses, email : User \cup {None}, version : Nat]]
  /\ founders \subseteq User
  /\ req \in [Request -> Asked \cup {None}]
  /\ step \in [Request -> {"new", "gated", "checked", "issued", "seating", "deleted",
                           "dropping", "written", "done", "refused"}]
  /\ saw \in [Request -> [role : Roles \cup {"none"}, version : Nat]]
  /\ granted \in [Request -> BOOLEAN]
  /\ locked \in [Request -> SUBSET (User \cup Invitation)]
  /\ draft \in [Request -> [role : Roles \cup {"keep", "none"},
                            status : Statuses \cup {"keep"},
                            drop : BOOLEAN, fact : Facts]]
  /\ raced \in BOOLEAN
  /\ faults \in 0 .. MaxFaults

(* "The trigger also closes the race the Python check leaves": as long as   *)
(* it stands, the organization has an owner.                                *)
OwnerKept == org => Owners # {}

(* What is left of it: the last owner is only ever lost to two requests     *)
(* that end two ownerships and have not committed when they write.          *)
OwnerKeptUnlessRaced == raced \/ OwnerKept

Done(u) == {r \in Request : step[r] = "done" /\ Target(r) = u}
Joins(u) == {r \in Done(u) : Is(r, {"accept"}) /\ draft[r].role = "member"}
Departures(u) == {r \in Done(u) : draft[r].fact \in {"left", "removed"}}
Forgotten(u) == {r \in Done(u) : Is(r, {"forget"}) /\ draft[r].role = "none"}

(* The journal balances the roster: each time a user's membership ended,    *)
(* one MemberLeft or MemberRemoved was recorded, whoever removed them and   *)
(* however many at once, and none when there was nothing to remove.         *)
EveryDepartureToldOnce ==
  org => \A u \in User :
    (IF u \in founders THEN 1 ELSE 0) + Cardinality(Joins(u)) =
      (IF u \in Members THEN 1 ELSE 0)
        + Cardinality(Departures(u)) + Cardinality(Forgotten(u))

(* An invitation seats one member once: accepted twice at a time, or again  *)
(* after that member has left, it seats nobody.                             *)
SeatsOnce ==
  org => \A i \in Invitation :
    Cardinality({r \in Request : /\ step[r] = "done" /\ Is(r, {"accept"})
                                 /\ req[r].inv = i /\ draft[r].role = "member"}) <= 1

(* Once a revocation has committed, its invitation admits nobody, not even  *)
(* a request that found it pending.                                         *)
RevokedAdmitsNobody ==
  [][\A r \in Request :
       step[r] = "written" /\ step'[r] = "done" /\ Is(r, {"accept"})
         /\ invitation[req[r].inv].status = "revoked"
       => draft[r].role = "keep"]_vars
=============================================================================
