------------------------- MODULE OrganizationsProofs -------------------------
(* Theorems about what the members of an organization share: its roster     *)
(* (Membership), for any users, invitations and requests, and what they     *)
(* edit (Content), for any items, handles, limits and requests.             *)
(* Membership: five inductive invariants, each on top of the one before it  *)
(* or of LInv:                                                              *)
(*   TInv  types, and what a request that has arrived asks for;             *)
(*   LInv  a row is held by one request, and a draft holds what it changes; *)
(*   OInv  before any race, the open drafts that end an ownership all end   *)
(*         the same one, and its trigger saw another owner;                 *)
(*   SInv  a request about to seat holds its pending invitation;            *)
(*   BInv  a draft that ends a membership was written over one, and the     *)
(*         commits balance.                                                 *)
(* Content: a request that begins takes one of eight forms (StepForms), and *)
(* ten invariants, on top of RowsInv and mostly of VInv:                    *)
(*   RowsInv     types, and what the fact of a request says of its plan;    *)
(*   VInv        a row as old as the one a request saw is the one it saw;   *)
(*   KInv        what is told of a row is what became of it, once;          *)
(*   WInv        the writes done and those in flight stay within the bound; *)
(*   ListsInv    what a request on a list in order may leave of it;         *)
(*   OverlapInv  what two requests in flight are both at is on record;      *)
(*   PlacesInv   no two items of a list share a position, and none will by  *)
(*               a request that the version lock would let write;           *)
(*   NamesInv    a handle is held once, and not by another than the request *)
(*               about to take it;                                          *)
(*   CardsInv    a review in flight still has the room it was counted in,   *)
(*               and finds no card where it saw none;                       *)
(*   OwnersInv   so does the creation of an organization.                   *)
EXTENDS Membership, Content, FiniteSetTheorems, WellFoundedInduction, TLAPS

Drafts == [role : Roles \cup {"keep", "none"}, status : Statuses \cup {"keep"},
           drop : BOOLEAN, fact : Facts]

LEMMA FactDraft ==
  ASSUME draft \in [Request -> Drafts], NEW r \in Request, NEW c \in Facts, NEW d,
         d = [draft EXCEPT ![r].fact = c]
  PROVE  /\ d \in [Request -> Drafts]
         /\ \A s \in Request : /\ d[s].role = draft[s].role
                               /\ d[s].status = draft[s].status
                               /\ d[s].drop = draft[s].drop
BY DEF Drafts

LEMMA RoleDraft ==
  ASSUME draft \in [Request -> Drafts], NEW r \in Request, NEW d,
         NEW a \in Roles \cup {"keep", "none"}, NEW c \in Facts,
         d = [draft EXCEPT ![r].role = a, ![r].fact = c]
  PROVE  /\ d \in [Request -> Drafts]
         /\ d[r].role = a /\ d[r].status = draft[r].status /\ d[r].drop = draft[r].drop
         /\ \A s \in Request \ {r} : d[s] = draft[s]
BY DEF Drafts

LEMMA SeatDraft ==
  ASSUME draft \in [Request -> Drafts], NEW r \in Request, NEW d,
         NEW a \in Roles \cup {"keep", "none"},
         d = [draft EXCEPT ![r].role = a, ![r].status = "accepted", ![r].fact = "joined"]
  PROVE  /\ d \in [Request -> Drafts]
         /\ d[r].role = a /\ d[r].status = "accepted" /\ d[r].drop = draft[r].drop
         /\ \A s \in Request \ {r} : d[s] = draft[s]
BY DEF Drafts, Facts, Statuses

LEMMA StatusDraft ==
  ASSUME draft \in [Request -> Drafts], NEW r \in Request, NEW d,
         NEW b \in Statuses,
         \/ \E c \in Facts : d = [draft EXCEPT ![r].status = b, ![r].fact = c]
         \/ d = [draft EXCEPT ![r].status = b]
  PROVE  /\ d \in [Request -> Drafts]
         /\ d[r].role = draft[r].role /\ d[r].status = b /\ d[r].drop = draft[r].drop
         /\ \A s \in Request \ {r} : d[s] = draft[s]
BY DEF Drafts

LEMMA DropDraft ==
  ASSUME draft \in [Request -> Drafts], NEW r \in Request, NEW d,
         NEW a \in BOOLEAN,
         d = [draft EXCEPT ![r].drop = a, ![r].fact = "forgotten"]
  PROVE  /\ d \in [Request -> Drafts]
         /\ d[r].role = draft[r].role /\ d[r].status = draft[r].status /\ d[r].drop = a
         /\ \A s \in Request \ {r} : d[s] = draft[s]
BY DEF Drafts, Facts

-----------------------------------------------------------------------------
(* Types; a request that has arrived asks for something, and for an         *)
(* invitation if its kind is about one.                                     *)
Saws == [role : Roles \cup {"none"}, version : Nat]
Invitations == [status : Statuses, email : User \cup {None}, version : Nat]
About == {"invite", "revoke", "accept"}
Asking ==
  \A r \in Request : step[r] # "new" =>
    req[r] \in Asked /\ (req[r].kind \in About => req[r].inv # None)
TInv == TypeOK /\ Asking

LEMMA RowTyped == ASSUME TypeOK, NEW u \in User PROVE Row(u) \in Saws
BY DEF TypeOK, Row, Saws

LEMMA UnloadedTyped == Unloaded \in Saws
BY DEF Unloaded, Saws

LEMMA NoDraftTyped == NoDraft \in Drafts
BY DEF NoDraft, Drafts, Facts

LEMMA TInit == Init => TInv
<1> SUFFICES ASSUME Init PROVE TInv
  OBVIOUS
<1>1. role \in [User -> Roles \cup {"none"}] /\ version \in [User -> Nat] /\ founders \subseteq User
  BY DEF Init, Members
<1>2. invitation \in [Invitation -> Invitations]
  BY DEF Init, Invitations, NoInvitation, Pending, Statuses
<1>3. saw \in [Request -> Saws] /\ draft \in [Request -> Drafts]
  BY UnloadedTyped, NoDraftTyped DEF Init
<1>4. org \in BOOLEAN /\ raced \in BOOLEAN
  BY Zenon DEF Init
<1>5. /\ req \in [Request -> Asked \cup {None}]
      /\ step \in [Request -> {"new", "gated", "checked", "issued", "seating", "deleted",
                               "dropping", "written", "done", "refused"}]
      /\ granted \in [Request -> BOOLEAN]
      /\ locked \in [Request -> SUBSET (User \cup Invitation)]
      /\ faults \in 0 .. MaxFaults /\ Asking
  BY BoundAssumption DEF Init, Asking
<1>6. QED
  BY <1>1, <1>2, <1>3, <1>4, <1>5 DEF TInv, TypeOK, Saws, Invitations, Drafts

(* What every action but Arrive keeps of the requests.                      *)
LEMMA AskedOf ==
  ASSUME TInv, NEW r \in Request, step[r] # "new"
  PROVE  /\ req[r] \in Asked /\ req[r].kind \in Kinds /\ req[r].actor \in User
         /\ req[r].inv \in Invitation \cup {None} /\ req[r].role \in Roles
         /\ Target(r) \in User
         /\ req[r].kind \in About => req[r].inv \in Invitation
BY DEF TInv, Asking, Asked, Target

LEMMA StepTyped ==
  ASSUME TInv, NEW r \in Request, step[r] # "new", req' = req,
         NEW x \in {"gated", "checked", "issued", "seating", "deleted", "dropping",
                    "written", "done", "refused"}, Goes(r, x)
  PROVE  /\ step' \in [Request -> {"new", "gated", "checked", "issued", "seating",
                                   "deleted", "dropping", "written", "done", "refused"}]
         /\ Asking'
BY DEF TInv, TypeOK, Asking, Goes

LEMMA TRead ==
  ASSUME TInv, NEW r \in Request, Arrive(r) \/ Check(r) \/ Issue(r)
  PROVE  TInv'
<1> USE DEF TInv
<1>1. ASSUME Arrive(r) PROVE TInv'
  <2>1. PICK q \in Asked :
          /\ Sensible(q)
          /\ req' = [req EXCEPT ![r] = q]
          /\ Goes(r, IF org /\ Gate(q) THEN "gated" ELSE "refused")
          /\ saw' = [saw EXCEPT ![r] =
                 IF q.kind \in {"leave", "remove", "set_role"} /\ q.target = q.actor
                 THEN Row(q.actor) ELSE Unloaded]
    BY <1>1 DEF Arrive
  <2>2. q.actor \in User
    BY DEF Asked
  <2>3. saw' \in [Request -> Saws]
    BY <2>1, <2>2, RowTyped, UnloadedTyped DEF TypeOK, Saws
  <2>4. req' \in [Request -> Asked \cup {None}] /\ Asking'
    BY <2>1 DEF TypeOK, Asking, Goes, Sensible, About
  <2>5. step' \in [Request -> {"new", "gated", "checked", "issued", "seating", "deleted",
                               "dropping", "written", "done", "refused"}]
    BY <2>1 DEF TypeOK, Goes
  <2>6. UNCHANGED <<committed, founders, granted, locked, draft, raced, faults>>
    BY <1>1 DEF Arrive
  <2>7. QED
    BY <2>3, <2>4, <2>5, <2>6 DEF TypeOK, Saws, committed
<1>2. ASSUME Check(r) PROVE TInv'
  <2>1. step[r] # "new" /\ UNCHANGED <<committed, founders, req, granted, locked, raced, faults>>
    BY <1>2 DEF Check
  <2>2. Target(r) \in User /\ req[r].actor \in User /\ req[r].inv \in Invitation \cup {None}
    BY <2>1, AskedOf
  <2>3. Loaded(r) \in Saws /\ Row(Target(r)) \in Saws
    BY <2>2, RowTyped, UnloadedTyped DEF Loaded, TypeOK, Saws
  <2>4. ASSUME NEW c \in Facts, draft' = [draft EXCEPT ![r].fact = c]
        PROVE  draft' \in [Request -> Drafts]
    BY <2>4, FactDraft DEF TypeOK, Drafts
  <2>5. draft' \in [Request -> Drafts]
    <3>1. {"role_changed", "revoked"} \subseteq Facts
      BY DEF Facts
    <3>2. \/ UNCHANGED draft
          \/ draft' = [draft EXCEPT ![r].fact = "role_changed"]
          \/ draft' = [draft EXCEPT ![r].fact = "revoked"]
      BY <1>2 DEF Check
    <3>3. draft \in [Request -> Drafts]
      BY DEF TypeOK, Drafts
    <3>4. CASE UNCHANGED draft
      BY <3>3, <3>4
    <3>5. CASE draft' = [draft EXCEPT ![r].fact = "role_changed"]
      BY <2>4, <3>1, <3>5
    <3>6. CASE draft' = [draft EXCEPT ![r].fact = "revoked"]
      BY <2>4, <3>1, <3>6
    <3> QED BY <3>2, <3>4, <3>5, <3>6
  <2>6. saw' \in [Request -> Saws]
    <3>0. saw \in [Request -> Saws]
      BY DEF TypeOK, Saws
    <3>1. CASE Is(r, {"revoke"})
      <4>1. req[r].inv \in Invitation
        BY <2>1, <3>1, AskedOf DEF Is, About
      <4>2. invitation[req[r].inv].version \in Nat
        BY <4>1 DEF TypeOK
      <4>3. saw' = [saw EXCEPT ![r].version = invitation[req[r].inv].version]
        BY <1>2, <3>1 DEF Check, Is
      <4> QED BY <3>0, <4>2, <4>3 DEF Saws
    <3>2. CASE ~Is(r, {"revoke"})
      <4>1. \/ UNCHANGED saw
            \/ saw' = [saw EXCEPT ![r] = Loaded(r)]
            \/ saw' = [saw EXCEPT ![r] = Row(Target(r))]
        BY <1>2, <3>2 DEF Check
      <4> QED BY <2>3, <3>0, <4>1
    <3> QED BY <3>1, <3>2
  <2>7. Asking' /\ step' \in [Request -> {"new", "gated", "checked", "issued", "seating",
                               "deleted", "dropping", "written", "done", "refused"}]
    <3>1. \/ Goes(r, "refused") \/ Goes(r, "checked") \/ Goes(r, "written")
          \/ Goes(r, "dropping")
      BY <1>2 DEF Check, Goes
    <3> QED BY <2>1, <3>1, StepTyped
  <2>8. QED
    BY <2>1, <2>5, <2>6, <2>7 DEF TypeOK, Saws, Drafts, committed
<1>3. ASSUME Issue(r) PROVE TInv'
  <2>1. Policy(r) \in BOOLEAN
    BY Zenon DEF Policy
  <2>2. granted' \in [Request -> BOOLEAN]
    BY <1>3, <2>1 DEF Issue, TypeOK
  <2>3. Asking' /\ step' \in [Request -> {"new", "gated", "checked", "issued", "seating",
                               "deleted", "dropping", "written", "done", "refused"}]
    BY <1>3, StepTyped DEF Issue
  <2>4. QED
    BY <1>3, <2>2, <2>3 DEF Issue, TypeOK, committed
<1>4. QED
  BY <1>1, <1>2, <1>3

LEMMA TWriteRow ==
  ASSUME TInv, NEW r \in Request, step[r] # "new", NEW new \in Roles \cup {"none"},
         NEW fact \in Facts, WriteRow(r, new, fact)
  PROVE  /\ draft' \in [Request -> Drafts]
         /\ locked' \in [Request -> SUBSET (User \cup Invitation)]
         /\ raced' \in BOOLEAN
<1>1. draft' \in [Request -> Drafts]
  BY RoleDraft DEF WriteRow, TInv, TypeOK, Drafts
<1>2. locked' \in [Request -> SUBSET (User \cup Invitation)]
  BY AskedOf DEF WriteRow, TInv, TypeOK
<1>3. raced' \in BOOLEAN
  BY Zenon DEF WriteRow
<1>4. QED
  BY <1>1, <1>2, <1>3

LEMMA TRefuse ==
  ASSUME TInv, NEW r \in Request, Refuse(r)
  PROVE  /\ draft' \in [Request -> Drafts]
         /\ locked' \in [Request -> SUBSET (User \cup Invitation)]
         /\ raced' \in BOOLEAN
BY DEF Refuse, TInv, TypeOK, Drafts

(* What a statement may change.                                             *)
LEMMA TStatement ==
  ASSUME TInv, NEW r \in Request, step[r] # "new",
         NEW x \in {"seating", "deleted", "dropping", "written", "refused"}, Goes(r, x),
         UNCHANGED <<committed, founders, local, faults>>,
         draft' \in [Request -> Drafts],
         locked' \in [Request -> SUBSET (User \cup Invitation)],
         raced' \in BOOLEAN
  PROVE  TInv'
<1>1. /\ Asking'
      /\ step' \in [Request -> {"new", "gated", "checked", "issued", "seating",
                                "deleted", "dropping", "written", "done", "refused"}]
  BY StepTyped DEF local
<1>2. QED
  BY <1>1 DEF TInv, TypeOK, Drafts, committed, local

LEMMA FactNames ==
  /\ {"left", "forgotten", "role_changed", "joined", "sent", ""} \subseteq Facts
  /\ \A r \in Request : DepartureFact(r) \in Facts
BY DEF Facts, DepartureFact

LEMMA TDelete == ASSUME TInv, NEW r \in Request, Delete(r) PROVE TInv'
<1>1. step[r] # "new" /\ UNCHANGED <<committed, founders, local, faults>>
  BY DEF Delete
<1>2. CASE Matches(r) /\ ~Trigger(Target(r)) /\ WriteRow(r, "none", DepartureFact(r))
           /\ Goes(r, IF Is(r, {"forget"}) THEN "deleted" ELSE "written")
  BY <1>1, <1>2, TWriteRow, TStatement, FactNames
<1>3. CASE /\ draft' = [draft EXCEPT ![r].fact = DepartureTold(r)]
           /\ Goes(r, "written") /\ UNCHANGED <<locked, raced>>
  <2>1. draft' \in [Request -> Drafts]
    BY <1>3, FactDraft, FactNames DEF TInv, TypeOK, Drafts, DepartureTold
  <2>2. QED
    BY <1>1, <1>3, <2>1, TStatement DEF TInv, TypeOK
<1>4. CASE Refuse(r)
  <2>1. Goes(r, "refused")
    BY <1>4 DEF Refuse
  <2>2. QED
    BY <1>1, <1>4, <2>1, TRefuse, TStatement
<1>5. QED
  BY <1>2, <1>3, <1>4 DEF Delete

LEMMA TSetRole == ASSUME TInv, NEW r \in Request, SetRole(r) PROVE TInv'
<1>1. step[r] # "new" /\ UNCHANGED <<committed, founders, local, faults>>
  BY DEF SetRole
<1>2. CASE WriteRow(r, req[r].role, "role_changed") /\ Goes(r, "written")
  <2>1. req[r].role \in Roles
    BY <1>1, AskedOf
  <2>2. QED
    BY <1>1, <1>2, <2>1, TWriteRow, TStatement, FactNames
<1>3. CASE Refuse(r)
  <2>1. Goes(r, "refused")
    BY <1>3 DEF Refuse
  <2>2. QED
    BY <1>1, <1>3, <2>1, TRefuse, TStatement
<1>4. QED
  BY <1>2, <1>3 DEF SetRole

LEMMA TLockInvitation == ASSUME TInv, NEW r \in Request, LockInvitation(r) PROVE TInv'
<1>1. step[r] # "new" /\ UNCHANGED <<committed, founders, local, raced, faults>>
  BY DEF LockInvitation
<1>2. req[r].inv \in Invitation
  BY <1>1, AskedOf DEF LockInvitation, Is, About
<1>3. locked' \in [Request -> SUBSET (User \cup Invitation)]
  BY <1>2 DEF LockInvitation, TInv, TypeOK
<1>4. draft' \in [Request -> Drafts]
  <2>1. UNCHANGED draft \/ draft' = [draft EXCEPT ![r].fact = "joined"]
    BY DEF LockInvitation
  <2>2. QED
    BY <2>1, FactDraft, FactNames DEF TInv, TypeOK, Drafts
<1>5. Goes(r, "seating") \/ Goes(r, "written") \/ Goes(r, "refused")
  BY DEF LockInvitation
<1>6. QED
  BY <1>1, <1>3, <1>4, <1>5, TStatement DEF TInv, TypeOK

LEMMA TSeat == ASSUME TInv, NEW r \in Request, Seat(r) PROVE TInv'
<1>1. step[r] # "new" /\ UNCHANGED <<committed, founders, local, raced, faults>> /\ Goes(r, "written")
  BY DEF Seat
<1>2. Target(r) \in User
  BY <1>1, AskedOf
<1>3. locked' \in [Request -> SUBSET (User \cup Invitation)]
  BY <1>2 DEF Seat, TInv, TypeOK
<1>4. draft' \in [Request -> Drafts]
  <2> DEFINE a == IF role[Target(r)] = "none" THEN "member" ELSE "keep"
  <2>1. a \in Roles \cup {"keep", "none"}
    BY DEF Roles
  <2>2. draft' = [draft EXCEPT ![r].role = a, ![r].status = "accepted", ![r].fact = "joined"]
    BY DEF Seat
  <2>3. draft \in [Request -> Drafts]
    BY DEF TInv, TypeOK, Drafts
  <2> HIDE DEF a
  <2>4. QED
    BY <2>1, <2>2, <2>3, SeatDraft
<1>5. QED
  BY <1>1, <1>3, <1>4, TStatement DEF TInv, TypeOK

LEMMA TInvite == ASSUME TInv, NEW r \in Request, Invite(r) PROVE TInv'
<1>1. step[r] # "new" /\ UNCHANGED <<committed, founders, local, faults>>
  BY DEF Invite
<1>2. req[r].inv \in Invitation
  BY <1>1, AskedOf DEF Invite, Is, About
<1>3. CASE /\ draft' = [draft EXCEPT ![r].status = "pending", ![r].fact = "sent"]
           /\ locked' = [locked EXCEPT ![r] = @ \cup {req[r].inv}]
           /\ Goes(r, "written") /\ UNCHANGED raced
  <2>1. draft' \in [Request -> Drafts]
    <3>1. \E c \in Facts : draft' = [draft EXCEPT ![r].status = "pending", ![r].fact = c]
      BY <1>3, FactNames
    <3>2. draft \in [Request -> Drafts] /\ "pending" \in Statuses
      BY DEF TInv, TypeOK, Drafts, Statuses
    <3>3. QED
      BY <3>1, <3>2, StatusDraft
  <2>2. locked' \in [Request -> SUBSET (User \cup Invitation)]
    BY <1>2, <1>3 DEF TInv, TypeOK
  <2>3. QED
    BY <1>1, <1>3, <2>1, <2>2, TStatement DEF TInv, TypeOK
<1>4. CASE Refuse(r)
  <2>1. Goes(r, "refused")
    BY <1>4 DEF Refuse
  <2>2. QED
    BY <1>1, <1>4, <2>1, TRefuse, TStatement
<1>5. QED
  BY <1>3, <1>4 DEF Invite

LEMMA TRevoke == ASSUME TInv, NEW r \in Request, Revoke(r) PROVE TInv'
<1>1. step[r] # "new" /\ UNCHANGED <<committed, founders, local, faults>>
  BY DEF Revoke
<1>2. req[r].inv \in Invitation
  BY <1>1, AskedOf DEF Revoke, Is, About
<1>3. CASE /\ draft' = [draft EXCEPT ![r].status = "revoked"]
           /\ locked' = [locked EXCEPT ![r] = @ \cup {req[r].inv}]
           /\ Goes(r, "written") /\ UNCHANGED raced
  <2>1. draft' \in [Request -> Drafts]
    BY <1>3, StatusDraft DEF TInv, TypeOK, Drafts, Statuses
  <2>2. locked' \in [Request -> SUBSET (User \cup Invitation)]
    BY <1>2, <1>3 DEF TInv, TypeOK
  <2>3. QED
    BY <1>1, <1>3, <2>1, <2>2, TStatement DEF TInv, TypeOK
<1>4. CASE Refuse(r)
  <2>1. Goes(r, "refused")
    BY <1>4 DEF Refuse
  <2>2. QED
    BY <1>1, <1>4, <2>1, TRefuse, TStatement
<1>5. QED
  BY <1>3, <1>4 DEF Revoke

LEMMA TDrop == ASSUME TInv, NEW r \in Request, Remain(r) \/ Drop(r) PROVE TInv'
<1>1. step[r] # "new" /\ UNCHANGED <<committed, founders, local, raced, faults>>
  BY DEF Remain, Drop
<1>2. Goes(r, "written") \/ Goes(r, "dropping")
  BY DEF Remain, Drop
<1>3. locked' \in [Request -> SUBSET (User \cup Invitation)]
  BY DEF Remain, Drop, TInv, TypeOK
<1>4. draft' \in [Request -> Drafts]
  <2>1. UNCHANGED draft \/ draft' = [draft EXCEPT ![r].drop = org, ![r].fact = "forgotten"]
    BY DEF Remain, Drop
  <2>2. QED
    BY <2>1, DropDraft DEF TInv, TypeOK, Drafts
<1>5. QED
  BY <1>1, <1>2, <1>3, <1>4, TStatement DEF TInv, TypeOK

LEMMA TCommit == ASSUME TInv, NEW r \in Request, Commit(r) PROVE TInv'
<1>1. step[r] # "new" /\ UNCHANGED <<founders, local, draft, raced, faults>> /\ Goes(r, "done")
  BY DEF Commit
<1>2. /\ Asking'
      /\ step' \in [Request -> {"new", "gated", "checked", "issued", "seating",
                                "deleted", "dropping", "written", "done", "refused"}]
  BY <1>1, StepTyped DEF local
<1>3. draft[r] \in Drafts
  BY DEF TInv, TypeOK, Drafts
<1>4. ASSUME NEW u \in User
      PROVE  Become(u, draft[r].role) \in Saws
  <2>1. Row(u) \in Saws /\ version[u] \in Nat
    BY RowTyped DEF TInv, TypeOK
  <2>2. CASE draft[r].role \in {"keep", "none"}
    BY <2>1, <2>2, UnloadedTyped DEF Become
  <2>3. CASE draft[r].role \in Roles
    BY <2>1, <2>3 DEF Become, Saws, Roles
  <2>4. QED
    BY <1>3, <2>2, <2>3 DEF Drafts
<1>5. role' \in [User -> Roles \cup {"none"}] /\ version' \in [User -> Nat]
  BY <1>4 DEF Commit, Saws, TInv, TypeOK
<1>6. ASSUME NEW i \in Invitation
      PROVE  Invited(i, r) \in Invitations /\ NoInvitation \in Invitations
  <2>1. invitation[i] \in Invitations
    BY DEF TInv, TypeOK, Invitations
  <2>2. Target(r) \in User
    BY <1>1, AskedOf
  <2>3. Pending(Target(r)) \in Invitations /\ NoInvitation \in Invitations
    BY <2>2 DEF Pending, NoInvitation, Invitations, Statuses
  <2>4. [invitation[i] EXCEPT !.status = "accepted"] \in Invitations
    BY <2>1 DEF Invitations, Statuses
  <2>5. [invitation[i] EXCEPT !.status = "revoked", !.version = @ + 1] \in Invitations
    <3> DEFINE v == invitation[i].version + 1
    <3>1. v \in Nat /\ "revoked" \in Statuses
      BY <2>1 DEF Invitations, Statuses
    <3> HIDE DEF v
    <3>2. [invitation[i] EXCEPT !.status = "revoked", !.version = v] \in Invitations
      BY <2>1, <3>1 DEF Invitations
    <3> QED BY <3>2 DEF v
  <2>6. QED
    BY <2>1, <2>3, <2>4, <2>5 DEF Invited
<1>7. invitation' \in [Invitation -> Invitations]
  BY <1>6 DEF Commit, TInv, TypeOK, Invitations
<1>8. locked' \in [Request -> SUBSET (User \cup Invitation)]
  BY DEF Commit, TInv, TypeOK
<1>9. org' \in BOOLEAN
  BY Zenon DEF Commit
<1>10. QED
  BY <1>1, <1>2, <1>5, <1>7, <1>8, <1>9 DEF TInv, TypeOK, Invitations, local

LEMMA TFails == ASSUME TInv, NEW r \in Request, Fails(r) PROVE TInv'
<1>1. step[r] # "new"
  BY DEF Fails, Open
<1>2. /\ Asking'
      /\ step' \in [Request -> {"new", "gated", "checked", "issued", "seating",
                                "deleted", "dropping", "written", "done", "refused"}]
  BY <1>1, StepTyped DEF Fails, local
<1>3. locked' \in [Request -> SUBSET (User \cup Invitation)] /\ faults' \in 0 .. MaxFaults
  BY BoundAssumption DEF Fails, TInv, TypeOK
<1>4. QED
  BY <1>2, <1>3 DEF Fails, TInv, TypeOK, committed, local

LEMMA TNext == TInv /\ [Next]_vars => TInv'
<1> SUFFICES ASSUME TInv, [Next]_vars PROVE TInv'
  OBVIOUS
<1>1. CASE UNCHANGED vars
  BY <1>1 DEF vars, committed, local, TInv, TypeOK, Asking
<1>2. ASSUME NEW r \in Request, Handle(r) PROVE TInv'
  BY <1>2, TRead, TDelete, TSetRole, TLockInvitation, TSeat, TInvite, TRevoke, TDrop,
     TCommit, TFails DEF Handle
<1>3. QED
  BY <1>1, <1>2 DEF Next

(* Every variable keeps its type, for any users, invitations and requests.  *)
THEOREM TypeCorrect == Spec => []TypeOK
<1>1. TInv => TypeOK
  BY DEF TInv
<1>2. QED
  BY <1>1, TInit, TNext, PTL DEF Spec

-----------------------------------------------------------------------------
(* Locks.  A row is held by one request at a time, and what an open request *)
(* has drafted it holds; a draft is the work of its request's own kind.     *)
Early == {"new", "gated", "checked", "issued", "seating"}
Disjoint == \A r, s \in Request : r # s => locked[r] \cap locked[s] = {}

Begins(r) ==
  /\ step[r] \in Early =>
       draft[r].role = "keep" /\ draft[r].status = "keep" /\ draft[r].drop = FALSE
  /\ step[r] = "seating" => Is(r, {"accept"}) /\ req[r].inv \in locked[r]
  /\ step[r] \in {"deleted", "dropping"} =>
       Is(r, {"forget"}) /\ draft[r].status = "keep" /\ draft[r].drop = FALSE

OfItsKind(r) ==
  step[r] # "new" =>
    /\ draft[r].status = "pending" => Is(r, {"invite"})
    /\ draft[r].status = "accepted" => Is(r, {"accept"})
    /\ draft[r].status = "revoked" => Is(r, {"revoke"})
    /\ draft[r].status # "unused"
    /\ Is(r, {"accept"}) /\ draft[r].role # "keep" =>
         draft[r].role = "member" /\ draft[r].status = "accepted"

HoldsDraft(r) ==
  r \in Open =>
    /\ draft[r].role # "keep" => Target(r) \in locked[r]
    /\ draft[r].status # "keep" => req[r].inv \in locked[r]
    /\ draft[r].drop = TRUE => locked[r] = User \cup Invitation

Lawful(r) == Begins(r) /\ OfItsKind(r) /\ HoldsDraft(r)
LInv == TInv /\ Disjoint /\ \A r \in Request : Lawful(r)

(* A step of one request touches no other.                                  *)
LEMMA Others ==
  ASSUME TInv, NEW r \in Request, Handle(r), NEW s \in Request \ {r}
  PROVE  /\ req'[s] = req[s] /\ step'[s] = step[s]
         /\ draft'[s] = draft[s] /\ locked'[s] = locked[s]
<1> USE DEF TInv, TypeOK
<1>1. req'[s] = req[s]
  BY DEF Handle, Arrive, Check, Issue, Delete, SetRole, LockInvitation, Seat, Invite,
         Revoke, Remain, Drop, Commit, Fails, local
<1>2. step'[s] = step[s]
  BY DEF Handle, Arrive, Check, Issue, Delete, SetRole, LockInvitation, Seat, Invite,
         Revoke, Remain, Drop, Commit, Fails, Goes, Refuse
<1>3. draft'[s] = draft[s]
  BY DEF Handle, Arrive, Check, Issue, Delete, SetRole, LockInvitation, Seat, Invite,
         Revoke, Remain, Drop, Commit, Fails, WriteRow, Refuse
<1>4. locked'[s] = locked[s]
  BY DEF Handle, Arrive, Check, Issue, Delete, SetRole, LockInvitation, Seat, Invite,
         Revoke, Remain, Drop, Commit, Fails, WriteRow, Refuse
<1>5. QED
  BY <1>1, <1>2, <1>3, <1>4

(* What it takes was free.                                                  *)
LEMMA Takes ==
  ASSUME TInv, NEW r \in Request, Handle(r), NEW x \in locked'[r], x \notin locked[r]
  PROVE  \A s \in Request \ {r} : x \notin locked[s]
<1> USE DEF TInv, TypeOK
<1>1. CASE Delete(r) \/ SetRole(r)
  BY <1>1 DEF Delete, SetRole, WriteRow, Refuse, Free
<1>2. CASE LockInvitation(r) \/ Seat(r)
  BY <1>2 DEF LockInvitation, Seat, Free
<1>3. CASE Invite(r) \/ Revoke(r)
  BY <1>3 DEF Invite, Revoke, Refuse, Free
<1>4. CASE Drop(r)
  BY <1>4 DEF Drop
<1>5. CASE Arrive(r) \/ Check(r) \/ Issue(r) \/ Remain(r) \/ Commit(r) \/ Fails(r)
  BY <1>5 DEF Arrive, Check, Issue, Remain, Commit, Fails
<1>6. QED
  BY <1>1, <1>2, <1>3, <1>4, <1>5 DEF Handle

LEMMA DisjointNext ==
  ASSUME TInv, Disjoint, NEW r \in Request, Handle(r)
  PROVE  Disjoint'
<1> SUFFICES ASSUME NEW s \in Request, NEW t \in Request, s # t
             PROVE  locked'[s] \cap locked'[t] = {}
  BY DEF Disjoint
<1>1. CASE s # r /\ t # r
  BY <1>1, Others DEF Disjoint
<1>2. CASE s = r
  BY <1>2, Others, Takes DEF Disjoint
<1>3. CASE t = r
  BY <1>3, Others, Takes DEF Disjoint
<1>4. QED
  BY <1>1, <1>2, <1>3

(* The steps that draft no write.                                           *)
Silent(r) ==
  \/ Arrive(r) \/ Check(r) \/ Issue(r) \/ LockInvitation(r) \/ Remain(r)
  \/ Commit(r) \/ Fails(r) \/ Refuse(r)
  \/ draft' = [draft EXCEPT ![r].fact = DepartureTold(r)]

LEMMA SilentDraft ==
  ASSUME TInv, NEW r \in Request, Silent(r)
  PROVE  /\ draft'[r].role = draft[r].role /\ draft'[r].status = draft[r].status
         /\ draft'[r].drop = draft[r].drop
<1>1. draft \in [Request -> Drafts]
  BY DEF TInv, TypeOK, Drafts
<1>2. UNCHANGED draft \/ \E c \in Facts : draft' = [draft EXCEPT ![r].fact = c]
  BY DEF Silent, Arrive, Check, Issue, LockInvitation, Remain, Commit, Fails, Refuse,
         DepartureTold, Facts
<1>3. QED
  BY <1>1, <1>2, FactDraft

LEMMA OthersLawful ==
  ASSUME LInv, NEW r \in Request, Handle(r), NEW s \in Request \ {r}
  PROVE  Lawful(s)'
BY Others DEF LInv, Lawful, Begins, OfItsKind, HoldsDraft, Open, Is, Target

LEMMA LInit == Init => LInv
<1> SUFFICES ASSUME Init PROVE LInv
  OBVIOUS
<1>1. Disjoint /\ \A r \in Request : Lawful(r)
  BY DEF Init, Disjoint, Lawful, Begins, OfItsKind, HoldsDraft, Open, NoDraft
<1>2. QED
  BY <1>1, TInit DEF LInv

(* A request that reads, is refused or ends drafts nothing more.            *)
LEMMA SilentLawful ==
  ASSUME LInv, NEW r \in Request, Arrive(r) \/ Check(r) \/ Issue(r) \/ Commit(r) \/ Fails(r)
  PROVE  Lawful(r)'
<1> USE DEF LInv, Lawful
<1>0. /\ draft'[r].role = draft[r].role /\ draft'[r].status = draft[r].status
      /\ draft'[r].drop = draft[r].drop
  BY SilentDraft DEF Silent
<1>1. step \in [Request -> {"new", "gated", "checked", "issued", "seating", "deleted",
                           "dropping", "written", "done", "refused"}]
  BY DEF TInv, TypeOK
<1>2. CASE Arrive(r)
  BY <1>0, <1>1, <1>2 DEF Arrive, Goes, Begins, OfItsKind, HoldsDraft, Open, Early
<1>3. CASE Check(r)
  <2>1. step[r] = "gated" /\ req' = req /\ locked' = locked
    BY <1>3 DEF Check
  <2>2. step'[r] \in {"refused", "checked", "written"} \/ (step'[r] = "dropping" /\ Is(r, {"forget"}))
    BY <1>1, <1>3 DEF Check, Goes
  <2>3. QED
    BY <1>0, <2>1, <2>2 DEF Begins, OfItsKind, HoldsDraft, Open, Early, Is
<1>4. CASE Issue(r)
  <2>1. step[r] = "checked" /\ req' = req /\ locked' = locked /\ step'[r] = "issued"
    BY <1>1, <1>4 DEF Issue, Goes
  <2>2. QED
    BY <1>0, <2>1 DEF Begins, OfItsKind, HoldsDraft, Open, Early, Is
<1>5. CASE Commit(r) \/ Fails(r)
  <2>1. step[r] # "new" /\ req' = req /\ step'[r] \in {"done", "refused"}
    BY <1>1, <1>5 DEF Commit, Fails, Goes, local, Open
  <2>2. QED
    BY <1>0, <2>1 DEF Begins, OfItsKind, HoldsDraft, Open, Early, Is
<1>6. QED
  BY <1>2, <1>3, <1>4, <1>5

LEMMA RefusedLawful ==
  ASSUME LInv, NEW r \in Request, step[r] # "new", Refuse(r), UNCHANGED local
  PROVE  Lawful(r)'
<1>1. step'[r] = "refused" /\ draft'[r] = draft[r] /\ req' = req
  BY DEF LInv, TInv, TypeOK, Refuse, Goes, local
<1>2. QED
  BY <1>1 DEF LInv, Lawful, Begins, OfItsKind, HoldsDraft, Open, Early, Is

LEMMA WrittenLawful ==
  ASSUME LInv, NEW r \in Request, step[r] = "issued", UNCHANGED local,
         Is(r, DeleteKinds) \/ Is(r, {"set_role"}),
         NEW new \in Roles \cup {"none"}, NEW fact \in Facts, WriteRow(r, new, fact),
         Goes(r, "written") \/ (Goes(r, "deleted") /\ Is(r, {"forget"}))
  PROVE  Lawful(r)'
<1>1. /\ draft'[r].role = new /\ draft'[r].status = draft[r].status
      /\ draft'[r].drop = draft[r].drop
  BY RoleDraft DEF WriteRow, LInv, TInv, TypeOK, Drafts
<1>2. req' = req /\ step'[r] \in {"written", "deleted"} /\ Target(r) \in locked'[r]
  BY DEF LInv, TInv, TypeOK, Goes, local, WriteRow
<1>3. step'[r] = "deleted" => Is(r, {"forget"})
  BY DEF LInv, TInv, TypeOK, Goes
<1>4. /\ draft[r].role = "keep" /\ draft[r].status = "keep" /\ draft[r].drop = FALSE
  BY DEF LInv, Lawful, Begins, Early
<1>5. QED
  BY <1>1, <1>2, <1>3, <1>4
  DEF Lawful, Begins, OfItsKind, HoldsDraft, Open, Early, Is, Target, DeleteKinds

LEMMA RosterLawful ==
  ASSUME LInv, NEW r \in Request, Delete(r) \/ SetRole(r)
  PROVE  Lawful(r)'
<1>1. step[r] = "issued" /\ UNCHANGED local
  BY DEF Delete, SetRole
<1>2. CASE Refuse(r)
  BY <1>1, <1>2, RefusedLawful
<1>3. CASE Delete(r) /\ ~Refuse(r)
  <2>1. CASE WriteRow(r, "none", DepartureFact(r))
             /\ Goes(r, IF Is(r, {"forget"}) THEN "deleted" ELSE "written")
    BY <1>1, <1>3, <2>1, WrittenLawful, FactNames DEF Delete
  <2>2. CASE /\ draft' = [draft EXCEPT ![r].fact = DepartureTold(r)]
             /\ Goes(r, "written") /\ UNCHANGED <<locked, raced>>
    <3>1. /\ draft'[r].role = draft[r].role /\ draft'[r].status = draft[r].status
          /\ draft'[r].drop = draft[r].drop
      BY <2>2, SilentDraft DEF Silent, LInv
    <3>2. step'[r] = "written" /\ req' = req
      BY <1>1, <2>2 DEF LInv, TInv, TypeOK, Goes, local
    <3>3. QED
      BY <1>1, <3>1, <3>2 DEF LInv, Lawful, Begins, OfItsKind, HoldsDraft, Open, Early, Is
  <2>3. QED
    BY <1>3, <2>1, <2>2 DEF Delete
<1>4. CASE SetRole(r) /\ ~Refuse(r)
  <2>1. req[r].role \in Roles
    BY <1>1, AskedOf DEF LInv
  <2>2. WriteRow(r, req[r].role, "role_changed") /\ Goes(r, "written") /\ Is(r, {"set_role"})
    BY <1>4 DEF SetRole
  <2>3. QED
    BY <1>1, <2>1, <2>2, WrittenLawful, FactNames
<1>5. QED
  BY <1>2, <1>3, <1>4

LEMMA InvitationLawful ==
  ASSUME LInv, NEW r \in Request, LockInvitation(r) \/ Seat(r) \/ Invite(r) \/ Revoke(r)
  PROVE  Lawful(r)'
<1>1. step[r] \in {"issued", "seating"} /\ UNCHANGED local /\ req' = req
  BY DEF LockInvitation, Seat, Invite, Revoke, local
<1>2. /\ draft[r].role = "keep" /\ draft[r].status = "keep" /\ draft[r].drop = FALSE
  BY <1>1 DEF LInv, Lawful, Begins, Early
<1>3. /\ draft \in [Request -> Drafts] /\ locked \in [Request -> SUBSET (User \cup Invitation)]
      /\ step \in [Request -> {"new", "gated", "checked", "issued", "seating", "deleted",
                               "dropping", "written", "done", "refused"}]
  BY DEF LInv, TInv, TypeOK, Drafts
<1>4. CASE LockInvitation(r)
  <2>1. /\ draft'[r].role = draft[r].role /\ draft'[r].status = draft[r].status
        /\ draft'[r].drop = draft[r].drop
    BY <1>4, SilentDraft DEF Silent, LInv
  <2>2. step'[r] \in {"seating", "written", "refused"}
    BY <1>3, <1>4 DEF LockInvitation, Goes
  <2>3. step'[r] = "seating" => Is(r, {"accept"}) /\ req[r].inv \in locked'[r]
    BY <1>3, <1>4 DEF LockInvitation, Goes
  <2>4. QED
    BY <1>1, <1>2, <2>1, <2>2, <2>3 DEF Lawful, Begins, OfItsKind, HoldsDraft, Open, Early, Is
<1>5. CASE Seat(r)
  <2> DEFINE a == IF role[Target(r)] = "none" THEN "member" ELSE "keep"
  <2>1. a \in {"member", "keep"} /\ a \in Roles \cup {"keep", "none"}
    BY DEF Roles
  <2>2. draft' = [draft EXCEPT ![r].role = a, ![r].status = "accepted", ![r].fact = "joined"]
    BY <1>5 DEF Seat
  <2>3. step'[r] = "written" /\ step[r] = "seating"
    BY <1>3, <1>5 DEF Seat, Goes
  <2>4. (a = "member" => Target(r) \in locked'[r]) /\ locked[r] \subseteq locked'[r]
    BY <1>3, <1>5 DEF Seat
  <2> HIDE DEF a
  <2>5. draft'[r].role = a /\ draft'[r].status = "accepted" /\ draft'[r].drop = draft[r].drop
    <3>1. draft \in [Request -> Drafts] /\ a \in Roles \cup {"keep", "none"}
      BY <1>3, <2>1
    <3>2. QED
      BY <2>2, <3>1 DEF Drafts, Facts, Statuses
  <2>6. Is(r, {"accept"}) /\ req[r].inv \in locked[r]
    BY <2>3 DEF LInv, Lawful, Begins
  <2>7. QED
    BY <1>1, <1>2, <2>1, <2>3, <2>4, <2>5, <2>6
    DEF Lawful, Begins, OfItsKind, HoldsDraft, Open, Early, Is, Target
<1>6. CASE Refuse(r)
  BY <1>1, <1>6, RefusedLawful
<1>7. CASE Invite(r) /\ ~Refuse(r)
  <2>1. /\ draft' = [draft EXCEPT ![r].status = "pending", ![r].fact = "sent"]
        /\ locked' = [locked EXCEPT ![r] = @ \cup {req[r].inv}]
        /\ Goes(r, "written") /\ Is(r, {"invite"})
    BY <1>7 DEF Invite
  <2>2. draft'[r].role = draft[r].role /\ draft'[r].status = "pending" /\ draft'[r].drop = draft[r].drop
    <3>1. \E c \in Facts : draft' = [draft EXCEPT ![r].status = "pending", ![r].fact = c]
      BY <2>1, FactNames
    <3>2. "pending" \in Statuses
      BY DEF Statuses
    <3>3. QED
      BY <1>3, <3>1, <3>2, StatusDraft
  <2>3. step'[r] = "written" /\ req[r].inv \in locked'[r]
    BY <1>3, <2>1 DEF Goes
  <2>4. QED
    BY <1>1, <1>2, <2>1, <2>2, <2>3
    DEF Lawful, Begins, OfItsKind, HoldsDraft, Open, Early, Is
<1>8. CASE Revoke(r) /\ ~Refuse(r)
  <2>1. /\ draft' = [draft EXCEPT ![r].status = "revoked"]
        /\ locked' = [locked EXCEPT ![r] = @ \cup {req[r].inv}]
        /\ Goes(r, "written") /\ Is(r, {"revoke"})
    BY <1>8 DEF Revoke
  <2>2. draft'[r].role = draft[r].role /\ draft'[r].status = "revoked" /\ draft'[r].drop = draft[r].drop
    BY <1>3, <2>1, StatusDraft DEF Statuses
  <2>3. step'[r] = "written" /\ req[r].inv \in locked'[r]
    BY <1>3, <2>1 DEF Goes
  <2>4. QED
    BY <1>1, <1>2, <2>1, <2>2, <2>3
    DEF Lawful, Begins, OfItsKind, HoldsDraft, Open, Early, Is
<1>9. QED
  BY <1>4, <1>5, <1>6, <1>7, <1>8

LEMMA DropLawful ==
  ASSUME LInv, NEW r \in Request, Remain(r) \/ Drop(r)
  PROVE  Lawful(r)'
<1>1. /\ req' = req /\ step[r] \in {"deleted", "dropping"}
      /\ step'[r] \in {"dropping", "written"}
  BY DEF Remain, Drop, local, Goes, LInv, TInv, TypeOK
<1>2. Is(r, {"forget"}) /\ draft[r].status = "keep" /\ draft[r].drop = FALSE
  BY <1>1 DEF LInv, Lawful, Begins
<1>3. CASE Remain(r)
  <2>1. UNCHANGED <<draft, locked>>
    BY <1>3 DEF Remain
  <2>2. QED
    BY <1>1, <1>2, <2>1 DEF LInv, Lawful, Begins, OfItsKind, HoldsDraft, Open, Early, Is, Target
<1>4. CASE Drop(r)
  <2>1. draft'[r].role = draft[r].role /\ draft'[r].status = draft[r].status
    BY <1>4, DropDraft DEF Drop, LInv, TInv, TypeOK, Drafts
  <2>2. step'[r] = "written" /\ locked'[r] = User \cup Invitation
    BY <1>4 DEF Drop, Goes, LInv, TInv, TypeOK
  <2>3. Target(r) \in User
    BY <1>1, AskedOf DEF LInv
  <2>4. QED
    BY <1>1, <1>2, <2>1, <2>2, <2>3 DEF Lawful, Begins, OfItsKind, HoldsDraft, Open, Early, Is, Target
<1>5. QED
  BY <1>3, <1>4

LEMMA LNext == LInv /\ [Next]_vars => LInv'
<1> SUFFICES ASSUME LInv, [Next]_vars PROVE LInv'
  OBVIOUS
<1>1. TInv'
  BY TNext DEF LInv
<1>2. CASE UNCHANGED vars
  BY <1>1, <1>2
  DEF LInv, vars, committed, local, Disjoint, Lawful, Begins, OfItsKind, HoldsDraft, Open, Is, Target
<1>3. ASSUME NEW r \in Request, Handle(r) PROVE LInv'
  <2>1. Disjoint'
    BY <1>3, DisjointNext DEF LInv
  <2>2. Lawful(r)'
    BY <1>3, SilentLawful, RosterLawful, InvitationLawful, DropLawful DEF Handle
  <2>3. QED
    BY <1>1, <1>3, <2>1, <2>2, OthersLawful DEF LInv
<1>4. QED
  BY <1>2, <1>3 DEF Next

(* No two requests hold one row, and each open draft holds every row it     *)
(* will change: what the commits apply, nobody else can be changing.        *)
THEOREM LocksHeld == Spec => []LInv
BY LInit, LNext, PTL DEF Spec

-----------------------------------------------------------------------------
(* The last owner.  Unless two drafts ended two ownerships, the drafts that *)
(* end one all end the same one, hence are one draft (it holds the row),    *)
(* and the trigger saw another owner, whom nobody can take away meanwhile.  *)
Safe ==
  /\ Owners # {}
  /\ \A r \in Open : EndsOwnership(r) => \E v \in Owners : v # Target(r)
  /\ \A r, s \in Open : EndsOwnership(r) /\ EndsOwnership(s) => Target(r) = Target(s)
OInv == ~raced /\ org => Safe

LEMMA OInit == Init => OInv
BY DEF Init, OInv, Safe, Owners, Open

(* Two drafts that end ownerships of one user are one.                      *)
LEMMA OneDraft ==
  ASSUME LInv, NEW r \in Open, NEW s \in Open, draft[r].role # "keep",
         draft[s].role # "keep", Target(r) = Target(s)
  PROVE  r = s
BY DEF LInv, Lawful, HoldsDraft, Disjoint, Open

(* A step that neither commits nor drafts an end of ownership.              *)
LEMMA OKept ==
  ASSUME LInv, OInv, NEW r \in Request, Handle(r), UNCHANGED <<org, role>>,
         ~raced' => ~raced, r \in Open' /\ EndsOwnership(r)' => r \in Open /\ EndsOwnership(r),
         step[r] # "new" => req' = req
  PROVE  OInv'
<1> SUFFICES ASSUME ~raced', org' PROVE Safe'
  BY DEF OInv
<1>1. Owners' = Owners
  BY DEF Owners
<1>2. ASSUME NEW s \in Open', EndsOwnership(s)'
      PROVE  s \in Open /\ EndsOwnership(s) /\ Target(s)' = Target(s)
  <2>1. CASE s = r
    BY <1>2, <2>1 DEF Open, Target
  <2>2. CASE s # r
    BY <1>2, <2>2, Others DEF LInv, Open, EndsOwnership, Target
  <2>3. QED
    BY <2>1, <2>2
<1>3. QED
  BY <1>1, <1>2 DEF OInv, Safe

(* A draft that ends an ownership: the trigger saw another owner, and no    *)
(* other draft was ending another's.                                        *)
LEMMA OWrites ==
  ASSUME LInv, OInv, NEW r \in Request, Handle(r), step[r] = "issued",
         NEW new \in Roles \cup {"none"}, NEW fact \in Facts, WriteRow(r, new, fact),
         new # "owner" => ~Trigger(Target(r)), Free(Target(r), r),
         UNCHANGED <<org, role, req>>
  PROVE  OInv'
<1> SUFFICES ASSUME ~raced', org' PROVE Safe'
  BY DEF OInv
<1>1. Owners' = Owners /\ ~raced /\ org /\ Safe
  BY DEF Owners, WriteRow, OInv
<1>2. draft'[r].role = new /\ Target(r)' = Target(r) /\ r \in Open
  BY RoleDraft DEF WriteRow, LInv, TInv, TypeOK, Drafts, Target, Open
<1>3. ASSUME NEW s \in Open', s # r, EndsOwnership(s)'
      PROVE  s \in Open /\ EndsOwnership(s) /\ Target(s)' = Target(s)
  BY <1>3, Others DEF LInv, Open, EndsOwnership, Target
<1>4. CASE ~EndsOwnership(r)'
  BY <1>1, <1>3, <1>4 DEF Safe
<1>5. CASE EndsOwnership(r)'
  <2>1. role[Target(r)] = "owner" /\ new # "owner"
    BY <1>2, <1>5 DEF EndsOwnership
  <2>2. Target(r) \in User
    BY AskedOf DEF LInv
  <2>3. \E v \in Owners : v # Target(r)
    BY <1>1, <2>1, <2>2 DEF Safe, Trigger, Owners
  <2>4. ~Races(r)
    BY <2>1 DEF WriteRow
  <2>5. ASSUME NEW s \in Open', s # r, EndsOwnership(s)' PROVE Target(s) = Target(r)
    BY <1>3, <2>4, <2>5 DEF Races
  <2>6. QED
    BY <1>1, <1>2, <1>3, <2>3, <2>5 DEF Safe
<1>6. QED
  BY <1>4, <1>5

LEMMA OCommit ==
  ASSUME LInv, OInv, NEW r \in Request, Commit(r)
  PROVE  OInv'
<1> SUFFICES ASSUME ~raced', org' PROVE Safe'
  BY DEF OInv
<1>1. /\ ~raced /\ org /\ Safe /\ draft[r].drop # TRUE
      /\ UNCHANGED <<draft, req>> /\ step[r] = "written" /\ Handle(r)
  BY DEF Commit, OInv, local, Handle
<1>2. draft[r].drop = FALSE /\ r \in Open /\ Target(r) \in User /\ r \notin Open'
  BY <1>1, AskedOf DEF LInv, TInv, TypeOK, Open, Commit, Goes
<1>3. \A u \in User :
        role'[u] = IF u = Target(r) THEN Become(u, draft[r].role).role ELSE role[u]
  BY <1>2 DEF Commit
<1>4. ASSUME NEW s \in Open'
      PROVE  /\ s \in Open /\ s # r /\ Target(s)' = Target(s) /\ Target(s) \in User
             /\ draft[s].role # "keep" /\ draft[r].role # "keep" => Target(s) # Target(r)
  <2>1. s \in Open /\ s # r /\ Target(s)' = Target(s)
    BY <1>1, <1>2, Others DEF LInv, Open, Target
  <2>2. Target(s) \in User
    BY <2>1, AskedOf DEF LInv, Open
  <2>3. QED
    BY <1>2, <2>1, <2>2, OneDraft
<1>5. CASE draft[r].role = "keep"
  <2>1. role' = role
    BY <1>3, <1>5 DEF Become, Row, LInv, TInv, TypeOK, Commit
  <2>2. Owners' = Owners /\ \A s \in Open' : EndsOwnership(s)' => EndsOwnership(s)
    BY <1>1, <1>4, <2>1 DEF Owners, EndsOwnership
  <2>3. QED
    BY <1>1, <1>4, <2>2 DEF Safe
<1>6. CASE draft[r].role = "owner"
  <2>1. Owners' = Owners \cup {Target(r)}
    BY <1>2, <1>3, <1>6 DEF Become, Owners
  <2>2. \A s \in Open' : EndsOwnership(s)' => EndsOwnership(s)
    BY <1>1, <1>3, <1>4, <1>6 DEF EndsOwnership
  <2>3. QED
    BY <1>1, <1>4, <2>1, <2>2 DEF Safe
<1>7. CASE draft[r].role \in {"none", "member"}
  <2>1. Owners' = Owners \ {Target(r)}
    BY <1>2, <1>3, <1>7 DEF Become, Owners, Unloaded
  <2>2. \A s \in Open' : EndsOwnership(s)' => EndsOwnership(s) /\ Target(s) # Target(r)
    BY <1>1, <1>3, <1>4, <1>7 DEF EndsOwnership
  <2>3. CASE role[Target(r)] = "owner"
    <3>1. EndsOwnership(r)
      BY <1>7, <2>3 DEF EndsOwnership
    <3>2. \A s \in Open' : ~EndsOwnership(s)'
      BY <1>1, <1>2, <1>4, <2>2, <3>1 DEF Safe
    <3>3. QED
      BY <1>1, <1>2, <2>1, <3>1, <3>2 DEF Safe
  <2>4. CASE role[Target(r)] # "owner"
    <3>1. Owners' = Owners
      BY <2>1, <2>4 DEF Owners
    <3>2. QED
      BY <1>1, <1>4, <2>2, <3>1 DEF Safe
  <2>5. QED
    BY <2>3, <2>4
<1>8. draft[r].role \in Roles \cup {"keep", "none"}
  BY DEF LInv, TInv, TypeOK
<1>9. QED
  BY <1>5, <1>6, <1>7, <1>8 DEF Roles

LEMMA ONext == LInv /\ OInv /\ [Next]_vars => OInv'
<1> SUFFICES ASSUME LInv, OInv, [Next]_vars PROVE OInv'
  OBVIOUS
<1>1. CASE UNCHANGED vars
  BY <1>1 DEF vars, committed, local, OInv, Safe, Owners, Open, EndsOwnership, Target
<1>2. ASSUME NEW r \in Request, Commit(r) PROVE OInv'
  BY <1>2, OCommit
<1>3. ASSUME NEW r \in Request, Handle(r), step[r] = "issued",
             NEW new \in Roles \cup {"none"}, NEW fact \in Facts, WriteRow(r, new, fact),
             new # "owner" => ~Trigger(Target(r)), Delete(r) \/ SetRole(r)
      PROVE  OInv'
  BY <1>3, OWrites DEF Delete, SetRole, committed, local
<1>4. ASSUME NEW r \in Request, Handle(r), Delete(r) \/ SetRole(r)
      PROVE  OInv'
  <2>1. step[r] = "issued" /\ UNCHANGED <<org, role, req>>
    BY <1>4 DEF Delete, SetRole, committed, local
  <2>2. CASE WriteRow(r, "none", DepartureFact(r)) /\ ~Trigger(Target(r)) /\ Delete(r)
    BY <1>3, <1>4, <2>1, <2>2, FactNames
  <2>3. CASE WriteRow(r, req[r].role, "role_changed") /\ SetRole(r)
             /\ ~(req[r].role = "member" /\ Trigger(Target(r)))
    <3>1. req[r].role \in Roles
      BY <2>1, AskedOf DEF LInv
    <3>2. QED
      BY <1>3, <1>4, <2>1, <2>3, <3>1, FactNames DEF Roles
  <2>4. CASE \/ Refuse(r)
             \/ draft' = [draft EXCEPT ![r].fact = DepartureTold(r)] /\ UNCHANGED raced
    <3>1. draft'[r].role = draft[r].role
      BY <2>4, SilentDraft DEF Silent, LInv
    <3>2. draft'[r].role = "keep"
      BY <2>1, <3>1 DEF LInv, Lawful, Begins, Early
    <3>3. raced' = raced
      BY <2>4 DEF Refuse
    <3>4. QED
      BY <1>4, <2>1, <3>2, <3>3, OKept DEF EndsOwnership
  <2>5. QED
    BY <1>4, <2>2, <2>3, <2>4 DEF Delete, SetRole
<1>5. ASSUME NEW r \in Request, Handle(r), ~Commit(r), ~Delete(r), ~SetRole(r)
      PROVE  OInv'
  <2>1. UNCHANGED <<org, role, raced>> /\ (step[r] # "new" => req' = req)
    BY <1>5 DEF Handle, Arrive, Check, Issue, LockInvitation, Seat, Invite, Revoke, Remain,
                Drop, Fails, Refuse, committed, local
  <2>2. r \in Open' /\ EndsOwnership(r)' => r \in Open /\ EndsOwnership(r)
    <3>1. CASE Arrive(r)
      <4>1. step[r] = "new" /\ draft'[r].role = draft[r].role
        BY <3>1, SilentDraft DEF Silent, LInv, Arrive
      <4>2. QED
        BY <4>1 DEF LInv, Lawful, Begins, Early, EndsOwnership
    <3>2. CASE Fails(r)
      BY <3>2 DEF Fails, Goes, Open, LInv, TInv, TypeOK
    <3>3. CASE Seat(r)
      <4> DEFINE a == IF role[Target(r)] = "none" THEN "member" ELSE "keep"
      <4>1. draft' = [draft EXCEPT ![r].role = a, ![r].status = "accepted", ![r].fact = "joined"]
        BY <3>3 DEF Seat
      <4>2. draft \in [Request -> Drafts]
        BY DEF LInv, TInv, TypeOK, Drafts
      <4>3. draft'[r].role = a /\ req' = req
        BY <3>3, <4>1, <4>2 DEF Drafts, Seat, local
      <4>4. QED
        BY <2>1, <4>3 DEF EndsOwnership, Target
    <3>4. CASE Check(r) \/ Issue(r) \/ LockInvitation(r) \/ Invite(r) \/ Revoke(r)
               \/ Remain(r) \/ Drop(r)
      <4>1. draft'[r].role = draft[r].role
        <5>1. CASE Silent(r)
          BY <5>1, SilentDraft DEF LInv
        <5>2. CASE ~Silent(r)
          <6>1. \/ draft' = [draft EXCEPT ![r].status = "pending", ![r].fact = "sent"]
                \/ draft' = [draft EXCEPT ![r].status = "revoked"]
                \/ draft' = [draft EXCEPT ![r].drop = org, ![r].fact = "forgotten"]
            BY <3>4, <5>2 DEF Silent, Invite, Revoke, Drop
          <6>2. draft \in [Request -> Drafts]
            BY DEF LInv, TInv, TypeOK, Drafts
          <6>3. QED
            BY <6>1, <6>2 DEF Drafts
        <5>3. QED
          BY <5>1, <5>2
      <4>2. r \in Open /\ req' = req
        BY <3>4 DEF Check, Issue, LockInvitation, Invite, Revoke, Remain, Drop, Open, local
      <4>3. QED
        BY <2>1, <4>1, <4>2 DEF EndsOwnership, Target
    <3>5. QED
      BY <1>5, <3>1, <3>2, <3>3, <3>4 DEF Handle
  <2>3. QED
    BY <1>5, <2>1, <2>2, OKept
<1>6. QED
  BY <1>2, <1>4, <1>5, <1>1 DEF Next

(* The last owner is only ever lost to two requests that end two            *)
(* ownerships and have not committed when they write: one request after the *)
(* other, Python's check and the trigger keep one, for any number of users  *)
(* and requests.                                                            *)
THEOREM AnOwnerRemains == Spec => []OwnerKeptUnlessRaced
<1>1. OInv => OwnerKeptUnlessRaced
  BY DEF OInv, Safe, OwnerKeptUnlessRaced, OwnerKept
<1>2. QED
  BY <1>1, LInit, LNext, OInit, ONext, PTL DEF Spec

-----------------------------------------------------------------------------
(* Invitations.  Whoever is about to seat a member holds an invitation that *)
(* is still pending; whoever has seated one has left it accepted, or        *)
(* revoked since; and nobody takes a row that another request is filling.   *)
Seating(r) ==
  r \in Open /\ (step[r] = "seating" \/ (Is(r, {"accept"}) /\ draft[r].role = "member"))
Seated(r) == step[r] = "done" /\ Is(r, {"accept"}) /\ draft[r].role = "member"
Decided(r) == r \in Open /\ draft[r].status \in {"accepted", "revoked"}
Inviting(r) == r \in Open /\ Is(r, {"invite"})
StatusAt(r) == invitation[req[r].inv].status

SInv ==
  /\ \A r \in Request : Seating(r) => StatusAt(r) = "pending"
  /\ \A r \in Request : Decided(r) => StatusAt(r) # "unused"
  /\ \A r \in Request : Inviting(r) => StatusAt(r) = "unused"
  /\ \A r, s \in Request : Inviting(r) /\ Inviting(s) /\ req[r].inv = req[s].inv => r = s
  /\ org => \A r \in Request : Seated(r) => StatusAt(r) \in {"accepted", "revoked"}
  /\ org => \A r, s \in Request :
       Seated(r) /\ Seated(s) /\ req[r].inv = req[s].inv => r = s

LEMMA SInit == Init => SInv
BY DEF Init, SInv, Seating, Seated, Decided, Inviting, Open

LEMMA HoldsInvitation ==
  ASSUME LInv, NEW r \in Request, Seating(r) \/ Decided(r)
  PROVE  req[r].inv \in locked[r] /\ req[r].inv \in Invitation
<1>1. step[r] # "new" /\ r \in Open
  BY DEF Seating, Decided, Open
<1>2. Is(r, {"accept", "revoke"})
  BY <1>1 DEF LInv, Lawful, Begins, OfItsKind, Seating, Decided, Is
<1>3. QED
  BY <1>1, <1>2, AskedOf
  DEF LInv, Lawful, Begins, OfItsKind, HoldsDraft, Seating, Decided, Is, About

(* What the others are at does not change.                                  *)
LEMMA OthersAt ==
  ASSUME LInv, NEW r \in Request, Handle(r), NEW s \in Request \ {r}
  PROVE  /\ Seating(s)' = Seating(s) /\ Seated(s)' = Seated(s)
         /\ Decided(s)' = Decided(s) /\ Inviting(s)' = Inviting(s)
         /\ req'[s] = req[s]
BY Others DEF LInv, Seating, Seated, Decided, Inviting, Open, Is

LEMMA SCommit ==
  ASSUME LInv, SInv, NEW r \in Request, Commit(r)
  PROVE  SInv'
<1>0. Handle(r) /\ step[r] = "written" /\ r \in Open /\ UNCHANGED <<req, draft>>
  BY DEF Commit, Handle, local, Open
<1>1. step'[r] = "done"
  BY DEF Commit, Goes, LInv, TInv, TypeOK
<1>2. ~Seating(r)' /\ ~Decided(r)' /\ ~Inviting(r)'
  BY <1>1 DEF Seating, Decided, Inviting, Open
<1>3. Seated(r)' => Seating(r) /\ draft[r].status = "accepted"
  BY <1>0 DEF Seating, Seated, Is, LInv, Lawful, OfItsKind
<1>4. CASE draft[r].drop = TRUE
  <2>1. locked[r] = User \cup Invitation
    BY <1>0, <1>4 DEF LInv, Lawful, HoldsDraft
  <2>2. ASSUME NEW s \in Request \ {r}, Seating(s) \/ Decided(s)
        PROVE  FALSE
    BY <2>1, <2>2, HoldsInvitation DEF LInv, Disjoint
  <2>3. ASSUME NEW s \in Request, Inviting(s)' PROVE StatusAt(s)' = "unused"
    <3>1. s # r /\ Inviting(s) /\ req'[s] = req[s]
      BY <1>0, <1>2, <2>3, OthersAt
    <3>2. req[s].inv \in Invitation
      BY <3>1, AskedOf DEF LInv, Inviting, Is, About, Open
    <3>3. QED
      BY <1>4, <3>1, <3>2 DEF Commit, StatusAt, NoInvitation
  <2>4. org' = FALSE
    BY <1>4 DEF Commit
  <2>5. QED
    BY <1>0, <1>2, <2>2, <2>3, <2>4, OthersAt DEF SInv
<1>5. CASE draft[r].drop = FALSE
  <2>1. org' = org
    BY <1>5 DEF Commit, LInv, TInv, TypeOK
  <2>2. ASSUME NEW i \in Invitation, i # req[r].inv \/ draft[r].status = "keep"
        PROVE  invitation'[i] = invitation[i]
    BY <1>5, <2>2 DEF Commit, Invited
  <2>3. draft[r].status \in {"pending", "accepted", "revoked", "keep"}
    BY <1>0 DEF LInv, TInv, TypeOK, Lawful, OfItsKind, Statuses
  <2>4. ASSUME draft[r].status \in {"accepted", "revoked"}
        PROVE  StatusAt(r)' = draft[r].status
    <3>1. req[r].inv \in Invitation
      BY <1>0, <2>4, HoldsInvitation DEF Decided
    <3>2. invitation'[req[r].inv] = Invited(req[r].inv, r)
      BY <1>5, <3>1 DEF Commit
    <3>3. invitation[req[r].inv] \in Invitations
      BY <3>1 DEF LInv, TInv, TypeOK, Invitations
    <3>4. Invited(req[r].inv, r).status = draft[r].status
      BY <2>4, <3>3 DEF Invited, Invitations
    <3>5. QED
      BY <1>0, <3>2, <3>4 DEF StatusAt
  <2>5. ASSUME NEW s \in Request \ {r}, Seating(s) \/ Decided(s)
        PROVE  StatusAt(s)' = StatusAt(s)
    <3>1. req[s].inv \in Invitation /\ req[s].inv \in locked[s]
      BY <2>5, HoldsInvitation
    <3>2. draft[r].status # "keep" => req[r].inv \in locked[r]
      BY <1>0 DEF LInv, Lawful, HoldsDraft
    <3>3. QED
      BY <1>0, <2>2, <3>1, <3>2 DEF StatusAt, LInv, Disjoint
  <2>6. ASSUME NEW s \in Request \ {r}, Inviting(s)
        PROVE  StatusAt(s)' = StatusAt(s)
    <3>1. req[s].inv \in Invitation
      BY <2>6, AskedOf DEF LInv, Inviting, Is, About, Open
    <3>2. CASE req[s].inv # req[r].inv \/ draft[r].status = "keep"
      BY <1>0, <2>2, <3>1, <3>2 DEF StatusAt
    <3>3. CASE req[s].inv = req[r].inv /\ draft[r].status = "pending"
      BY <1>0, <2>6, <3>3 DEF SInv, Inviting, LInv, Lawful, OfItsKind
    <3>4. CASE req[s].inv = req[r].inv /\ draft[r].status \in {"accepted", "revoked"}
      BY <1>0, <2>6, <3>4 DEF SInv, Decided, StatusAt
    <3>5. QED
      BY <2>3, <3>2, <3>3, <3>4
  <2>7. ASSUME org, NEW s \in Request \ {r}, Seated(s)
        PROVE  StatusAt(s)' \in {"accepted", "revoked"}
    <3>1. step[s] # "new" /\ req[s].inv \in Invitation
      BY <2>7, AskedOf DEF LInv, Seated, Is, About
    <3>2. StatusAt(s) \in {"accepted", "revoked"}
      BY <2>7 DEF SInv
    <3>3. CASE req[s].inv # req[r].inv \/ draft[r].status = "keep"
      BY <1>0, <2>2, <3>1, <3>2, <3>3 DEF StatusAt
    <3>4. CASE req[s].inv = req[r].inv /\ draft[r].status = "pending"
      BY <1>0, <3>2, <3>4 DEF SInv, Inviting, StatusAt, LInv, Lawful, OfItsKind
    <3>5. CASE req[s].inv = req[r].inv /\ draft[r].status \in {"accepted", "revoked"}
      BY <1>0, <2>4, <3>5 DEF StatusAt
    <3>6. QED
      BY <2>3, <3>3, <3>4, <3>5
  <2>8. Seated(r)' => StatusAt(r)' = "accepted" /\ StatusAt(r) = "pending"
    BY <1>3, <2>4 DEF SInv
  <2>9. ASSUME org, NEW s \in Request \ {r}, Seated(s), Seated(r)'
        PROVE  req[s].inv # req[r].inv
    BY <2>8, <2>9 DEF SInv, StatusAt
  <2>10. /\ \A s \in Request : Seating(s)' => StatusAt(s)' = "pending"
         /\ \A s \in Request : Decided(s)' => StatusAt(s)' # "unused"
         /\ \A s \in Request : Inviting(s)' => StatusAt(s)' = "unused"
    BY <1>0, <1>2, <2>5, <2>6, OthersAt DEF SInv
  <2>11. \A s, t \in Request :
           Inviting(s)' /\ Inviting(t)' /\ req'[s].inv = req'[t].inv => s = t
    BY <1>0, <1>2, OthersAt DEF SInv
  <2>12. org' => \A s \in Request : Seated(s)' => StatusAt(s)' \in {"accepted", "revoked"}
    BY <1>0, <2>1, <2>7, <2>8, OthersAt
  <2>13. org' => \A s, t \in Request :
           Seated(s)' /\ Seated(t)' /\ req'[s].inv = req'[t].inv => s = t
    BY <1>0, <2>1, <2>9, OthersAt DEF SInv
  <2>14. QED
    BY <2>10, <2>11, <2>12, <2>13 DEF SInv
<1>6. QED
  BY <1>4, <1>5 DEF LInv, TInv, TypeOK

(* A step that leaves the invitations alone, and the rest to its request.   *)
LEMMA SKept ==
  ASSUME LInv, SInv, NEW r \in Request, Handle(r), UNCHANGED <<org, invitation, req>>,
         Seating(r)' => StatusAt(r) = "pending",
         Decided(r)' => StatusAt(r) # "unused",
         Inviting(r)' => Inviting(r),
         Seated(r)' => Seated(r)
  PROVE  SInv'
<1>1. /\ \A s \in Request \ {r} :
            /\ Seating(s)' = Seating(s) /\ Seated(s)' = Seated(s)
            /\ Decided(s)' = Decided(s) /\ Inviting(s)' = Inviting(s)
      /\ \A s \in Request : StatusAt(s)' = StatusAt(s)
  BY OthersAt DEF StatusAt
<1>2. QED
  BY <1>1 DEF SInv

LEMMA SArrive == ASSUME LInv, SInv, NEW r \in Request, Arrive(r) PROVE SInv'
<1>1. PICK q \in Asked :
        /\ Sensible(q) /\ step[r] = "new"
        /\ req' = [req EXCEPT ![r] = q]
        /\ Goes(r, IF org /\ Gate(q) THEN "gated" ELSE "refused")
  BY DEF Arrive
<1>2. Handle(r) /\ UNCHANGED <<org, invitation, draft>>
  BY DEF Arrive, Handle, committed
<1>3. req'[r] = q /\ step'[r] \in {"gated", "refused"}
  BY <1>1 DEF LInv, TInv, TypeOK, Goes
<1>4. draft'[r].role = "keep" /\ draft'[r].status = "keep"
  BY <1>1, <1>2 DEF LInv, Lawful, Begins, Early
<1>5. ~Seating(r)' /\ ~Decided(r)' /\ ~Seated(r)' /\ r \notin Open
  BY <1>1, <1>3, <1>4 DEF Seating, Decided, Seated, Open
<1>6. Inviting(r)' => /\ invitation[q.inv].status = "unused"
                      /\ \A s \in Open : req[s].inv # q.inv
  BY <1>1, <1>3 DEF Inviting, Is, Sensible
<1>7. \A s \in Request \ {r} : StatusAt(s)' = StatusAt(s) /\ req'[s] = req[s]
  BY <1>2, OthersAt DEF StatusAt
<1>8. StatusAt(r)' = invitation[q.inv].status
  BY <1>2, <1>3 DEF StatusAt
<1>9. /\ \A s \in Request : Seating(s)' => StatusAt(s)' = "pending"
      /\ \A s \in Request : Decided(s)' => StatusAt(s)' # "unused"
      /\ \A s \in Request : Inviting(s)' => StatusAt(s)' = "unused"
  BY <1>2, <1>5, <1>6, <1>7, <1>8, OthersAt DEF SInv
<1>10. ASSUME NEW s \in Request, NEW t \in Request, Inviting(s)', Inviting(t)',
              req'[s].inv = req'[t].inv
       PROVE  s = t
  <2>1. CASE s # r /\ t # r
    BY <1>2, <1>7, <1>10, <2>1, OthersAt DEF SInv
  <2>2. ASSUME NEW x \in Request \ {r}, Inviting(x)', Inviting(r)' PROVE req'[x].inv # req'[r].inv
    BY <1>2, <1>3, <1>6, <1>7, <2>2, OthersAt DEF Inviting
  <2>3. QED
    BY <1>10, <2>1, <2>2
<1>11. /\ org' => \A s \in Request : Seated(s)' => StatusAt(s)' \in {"accepted", "revoked"}
       /\ org' => \A s, t \in Request :
            Seated(s)' /\ Seated(t)' /\ req'[s].inv = req'[t].inv => s = t
  BY <1>2, <1>5, <1>7, OthersAt DEF SInv
<1>12. QED
  BY <1>9, <1>10, <1>11 DEF SInv

LEMMA SNext == LInv /\ SInv /\ [Next]_vars => SInv'
<1> SUFFICES ASSUME LInv, SInv, [Next]_vars PROVE SInv'
  OBVIOUS
<1>1. CASE UNCHANGED vars
  BY <1>1 DEF vars, committed, local, SInv, Seating, Seated, Decided, Inviting, StatusAt, Open, Is
<1>2. ASSUME NEW r \in Request, Handle(r), ~Arrive(r), ~Commit(r)
      PROVE  SInv'
  <2>1. UNCHANGED <<org, invitation, req>> /\ r \in Open
    BY <1>2 DEF Handle, Check, Issue, Delete, SetRole, LockInvitation, Seat, Invite, Revoke,
                Remain, Drop, Fails, committed, local, Open
  <2>2. step'[r] # "done" /\ Lawful(r)'
    <3>1. LInv'
      BY <1>2, LNext DEF Next
    <3>2. step'[r] # "done"
      BY <1>2 DEF Handle, Check, Issue, Delete, SetRole, LockInvitation, Seat, Invite, Revoke,
                  Remain, Drop, Fails, Goes, Refuse, LInv, TInv, TypeOK
    <3>3. QED
      BY <3>1, <3>2 DEF LInv
  <2>3. (Inviting(r)' => Inviting(r)) /\ ~Seated(r)'
    BY <2>1, <2>2 DEF Inviting, Seated, Is
  <2>4. CASE LockInvitation(r)
    <3>1. draft'[r].role = "keep" /\ draft'[r].status = "keep"
      BY <2>4, SilentDraft DEF Silent, LInv, LockInvitation, Lawful, Begins, Early
    <3>2. Seating(r)' => StatusAt(r) = "pending"
      BY <2>4, <3>1 DEF LockInvitation, Seating, StatusAt, StatusOf, Goes, LInv, TInv, TypeOK
    <3>3. ~Decided(r)'
      BY <3>1 DEF Decided
    <3>4. QED
      BY <1>2, <2>1, <2>3, <3>2, <3>3, SKept
  <2>5. CASE Seat(r)
    <3>1. StatusAt(r) = "pending"
      BY <2>1, <2>5 DEF Seat, SInv, Seating
    <3>2. QED
      BY <1>2, <2>1, <2>3, <3>1, SKept
  <2>6. CASE Revoke(r) /\ ~Refuse(r)
    <3>1. StatusAt(r) # "unused" /\ Is(r, {"revoke"}) /\ step'[r] = "written"
      BY <2>6 DEF Revoke, StatusAt, Goes, LInv, TInv, TypeOK
    <3>2. ~Seating(r)'
      BY <2>1, <3>1 DEF Seating, Is
    <3>3. QED
      BY <1>2, <2>1, <2>3, <3>1, <3>2, SKept
  <2>7. CASE Fails(r) \/ Refuse(r)
    <3>1. r \notin Open'
      BY <2>7 DEF Fails, Refuse, Goes, Open, LInv, TInv, TypeOK
    <3>2. QED
      BY <1>2, <2>1, <2>3, <3>1, SKept DEF Seating, Decided
  <2>8. CASE \/ Check(r) \/ Issue(r) \/ Remain(r) \/ Drop(r)
             \/ (Delete(r) /\ ~Refuse(r)) \/ (SetRole(r) /\ ~Refuse(r))
             \/ (Invite(r) /\ ~Refuse(r))
    <3>1. step'[r] # "seating"
      BY <2>8 DEF Check, Issue, Remain, Drop, Delete, SetRole, Invite, Goes, LInv, TInv, TypeOK
    <3>2. Is(r, {"accept"}) => draft'[r].role = draft[r].role
      <4>1. CASE Check(r) \/ Issue(r) \/ Remain(r)
        BY <4>1, SilentDraft DEF Silent, LInv
      <4>2. CASE Drop(r) \/ Delete(r) \/ SetRole(r) \/ (Invite(r) /\ ~Refuse(r))
        BY <4>2 DEF Drop, Delete, SetRole, Invite, Is, DeleteKinds, LInv, Lawful, Begins
      <4>3. QED
        BY <2>8, <4>1, <4>2
    <3>3. Seating(r)' => StatusAt(r) = "pending"
      BY <2>1, <3>1, <3>2 DEF Seating, SInv, Is
    <3>4. draft'[r].status = draft[r].status \/ draft'[r].status = "pending"
      <4>1. draft \in [Request -> Drafts]
        BY DEF LInv, TInv, TypeOK, Drafts
      <4>2. CASE Check(r) \/ Issue(r) \/ Remain(r)
        BY <4>2, SilentDraft DEF Silent, LInv
      <4>3. CASE Drop(r) \/ (Invite(r) /\ ~Refuse(r))
        BY <4>1, <4>3 DEF Drop, Invite, Drafts
      <4>4. CASE (Delete(r) /\ ~Refuse(r)) \/ (SetRole(r) /\ ~Refuse(r))
        BY <4>1, <4>4 DEF Delete, SetRole, WriteRow, Drafts
      <4>5. QED
        BY <2>8, <4>2, <4>3, <4>4
    <3>5. Decided(r)' => StatusAt(r) # "unused"
      BY <2>1, <3>4 DEF Decided, SInv
    <3>6. QED
      BY <1>2, <2>1, <2>3, <3>3, <3>5, SKept
  <2>9. QED
    BY <1>2, <2>4, <2>5, <2>6, <2>7, <2>8 DEF Handle
<1>3. QED
  BY <1>1, <1>2, SArrive, SCommit DEF Next

(* An invitation seats one member once, however many requests accept it at  *)
(* a time or again after that member has left: the second one to lock the   *)
(* row finds it accepted.                                                   *)
THEOREM OneSeatPerInvitation == Spec => []SeatsOnce
<1>1. SInv => SeatsOnce
  <2> SUFFICES ASSUME SInv, org, NEW i \in Invitation
               PROVE  Cardinality({r \in Request : /\ step[r] = "done" /\ Is(r, {"accept"})
                         /\ req[r].inv = i /\ draft[r].role = "member"}) <= 1
    BY DEF SeatsOnce
  <2> DEFINE S == {r \in Request : /\ step[r] = "done" /\ Is(r, {"accept"})
                                   /\ req[r].inv = i /\ draft[r].role = "member"}
  <2>1. \A r, s \in S : r = s
    BY DEF SInv, Seated
  <2> HIDE DEF S
  <2>2. CASE S = {}
    BY <2>2, FS_EmptySet DEF S
  <2>3. CASE S # {}
    <3>1. PICK r \in S : TRUE
      BY <2>3
    <3>2. S = {r}
      BY <2>1, <3>1
    <3>3. Cardinality(S) = 1
      BY <3>2, FS_Singleton
    <3>4. QED
      BY <3>3 DEF S
  <2>4. QED
    BY <2>2, <2>3
<1>2. QED
  BY <1>1, LInit, LNext, SInit, SNext, PTL DEF Spec

(* A revocation is final: once it has committed, its invitation admits      *)
(* nobody, not even a request that found it pending.                        *)
THEOREM RevocationIsFinal == Spec => RevokedAdmitsNobody
<1>1. ASSUME LInv, SInv, NEW r \in Request, step[r] = "written", Is(r, {"accept"}),
             invitation[req[r].inv].status = "revoked"
      PROVE  draft[r].role = "keep"
  <2>1. draft[r].role # "keep" => Seating(r)
    BY <1>1 DEF LInv, Lawful, OfItsKind, Seating, Open
  <2>2. QED
    BY <1>1, <2>1 DEF SInv, StatusAt
<1>2. LInv /\ SInv /\ [Next]_vars =>
        [\A r \in Request :
           step[r] = "written" /\ step'[r] = "done" /\ Is(r, {"accept"})
             /\ invitation[req[r].inv].status = "revoked"
           => draft[r].role = "keep"]_vars
  BY <1>1
<1>3. QED
  BY <1>2, LInit, LNext, SInit, SNext, PTL DEF Spec, RevokedAdmitsNobody

-----------------------------------------------------------------------------
(* Departures.  A draft that ends a membership was written over one that    *)
(* exists, and holds its row until it commits; so does one that begins a    *)
(* membership, over none.  Each commit then adds one request to one side of *)
(* the balance of its target.                                               *)
Leaving == {"left", "removed"}
Fit(r) ==
  r \in Open \/ step[r] = "new" =>
    /\ draft[r].fact \in Leaving <=> Is(r, {"leave", "remove"}) /\ draft[r].role = "none"
    /\ draft[r].role = "none" => Is(r, DeleteKinds)
    /\ draft[r].role \in Roles => Is(r, {"accept", "set_role"})
    /\ draft[r].role \in Roles /\ Is(r, {"accept"}) => role[Target(r)] = "none"
    /\ draft[r].role = "none" \/ (draft[r].role \in Roles /\ Is(r, {"set_role"})) =>
         role[Target(r)] # "none"

Member(u) == IF u \in Members THEN 1 ELSE 0
WasFounder(u) == IF u \in founders THEN 1 ELSE 0
Balanced(u) ==
  WasFounder(u) + Cardinality(Joins(u)) =
    Member(u) + Cardinality(Departures(u)) + Cardinality(Forgotten(u))

BInv == (\A r \in Request : Fit(r)) /\ (org => \A u \in User : Balanced(u))

LEMMA BInit == Init => BInv
<1> SUFFICES ASSUME Init PROVE BInv
  OBVIOUS
<1>1. \A r \in Request : Fit(r)
  BY DEF Init, Fit, NoDraft, Leaving, Roles
<1>2. ASSUME NEW u \in User PROVE Balanced(u)
  <2>1. Joins(u) = {} /\ Departures(u) = {} /\ Forgotten(u) = {}
    BY DEF Init, Joins, Departures, Forgotten, Done
  <2>2. WasFounder(u) = Member(u) /\ Member(u) \in Nat
    BY DEF Init, WasFounder, Member
  <2>3. QED
    BY <2>1, <2>2, FS_EmptySet DEF Balanced
<1>3. QED
  BY <1>1, <1>2 DEF BInv

(* Nobody else changes the row that a draft is about.                       *)
LEMMA RowStays ==
  ASSUME LInv, NEW r \in Request, Handle(r), NEW s \in Request \ {r},
         s \in Open, draft[s].role # "keep"
  PROVE  role'[Target(s)] = role[Target(s)]
<1>1. Target(s) \in User /\ Target(s) \in locked[s]
  BY AskedOf DEF LInv, Lawful, HoldsDraft, Open
<1>2. CASE Commit(r)
  <2>1. r \in Open
    BY <1>2 DEF Commit, Open
  <2>2. draft[r].drop = FALSE
    BY <1>1, <2>1 DEF LInv, TInv, TypeOK, Lawful, HoldsDraft, Disjoint
  <2>3. CASE Target(s) # Target(r)
    BY <1>1, <1>2, <2>2, <2>3 DEF Commit
  <2>4. CASE Target(s) = Target(r)
    <3>1. draft[r].role = "keep"
      BY <2>1, <2>4, OneDraft
    <3>2. QED
      BY <1>1, <1>2, <2>2, <3>1 DEF Commit, Become, Row
  <2>5. QED
    BY <2>3, <2>4
<1>3. CASE ~Commit(r)
  BY <1>3 DEF Handle, Arrive, Check, Issue, Delete, SetRole, LockInvitation, Seat, Invite,
              Revoke, Remain, Drop, Fails, committed
<1>4. QED
  BY <1>2, <1>3

LEMMA OthersFit ==
  ASSUME LInv, NEW r \in Request, Handle(r), NEW s \in Request \ {r}, Fit(s)
  PROVE  Fit(s)'
<1>1. /\ req'[s] = req[s] /\ step'[s] = step[s] /\ draft'[s] = draft[s]
      /\ Target(s)' = Target(s)
  BY Others DEF LInv, Target
<1>2. s \in Open /\ draft[s].role # "keep" => role'[Target(s)] = role[Target(s)]
  BY RowStays
<1>3. step[s] = "new" => draft[s].role = "keep"
  BY DEF LInv, Lawful, Begins, Early
<1>4. QED
  BY <1>1, <1>2, <1>3 DEF Fit, Open, Is, Roles

LEMMA OwnFit ==
  ASSUME LInv, NEW r \in Request, Handle(r), Fit(r), ~Commit(r)
  PROVE  Fit(r)'
<1>1. role' = role /\ (step[r] # "new" => req' = req)
  BY DEF Handle, Arrive, Check, Issue, Delete, SetRole, LockInvitation, Seat, Invite,
         Revoke, Remain, Drop, Fails, committed, local
<1>2. draft \in [Request -> Drafts] /\ draft[r] \in Drafts
  BY DEF LInv, TInv, TypeOK, Drafts
<1>3. step[r] \in Early => draft[r].role = "keep"
  BY DEF LInv, Lawful, Begins
<1>4. step[r] # "new" => req[r].kind \in Kinds
  BY AskedOf DEF LInv
<1>5. CASE Fails(r) \/ Refuse(r)
  BY <1>5 DEF Fails, Refuse, Goes, Fit, Open, LInv, TInv, TypeOK
<1>6. CASE Arrive(r)
  <2>1. draft' = draft /\ step[r] = "new" /\ draft[r].role = "keep"
    BY <1>3, <1>6 DEF Arrive, Early
  <2>2. draft[r].fact \notin Leaving
    <3>1. draft[r].fact \in Leaving => draft[r].role = "none"
      BY <2>1 DEF Fit
    <3>2. QED
      BY <2>1, <3>1
  <2>3. QED
    BY <2>1, <2>2 DEF Fit, Roles, Is
<1>7. CASE Check(r) \/ Issue(r) \/ LockInvitation(r) \/ Remain(r)
  <2>1. /\ draft'[r].role = draft[r].role /\ req' = req /\ r \in Open
    BY <1>1, <1>7, SilentDraft DEF Silent, LInv, Check, Issue, LockInvitation, Remain, Open
  <2>2. draft'[r].fact = draft[r].fact
        \/ (draft'[r].fact \in {"role_changed", "revoked", "joined"} /\ step[r] \in Early)
    <3>1. CASE Check(r)
      <4>1. \/ UNCHANGED draft
            \/ draft' = [draft EXCEPT ![r].fact = "role_changed"]
            \/ draft' = [draft EXCEPT ![r].fact = "revoked"]
        BY <3>1 DEF Check
      <4>2. step[r] \in Early
        BY <3>1 DEF Check, Early
      <4>3. QED
        BY <1>2, <4>1, <4>2 DEF Drafts
    <3>2. CASE LockInvitation(r)
      <4>1. UNCHANGED draft \/ draft' = [draft EXCEPT ![r].fact = "joined"]
        BY <3>2 DEF LockInvitation
      <4>2. step[r] \in Early
        BY <3>2 DEF LockInvitation, Early
      <4>3. QED
        BY <1>2, <4>1, <4>2 DEF Drafts
    <3>3. CASE Issue(r) \/ Remain(r)
      BY <3>3 DEF Issue, Remain
    <3>4. QED
      BY <1>7, <3>1, <3>2, <3>3
  <2>3. QED
    BY <1>1, <1>3, <2>1, <2>2 DEF Fit, Leaving, Is, Target
<1>8. CASE Delete(r) /\ ~Refuse(r)
  <2>1. step[r] = "issued" /\ draft[r].role = "keep" /\ req' = req /\ Is(r, DeleteKinds)
    BY <1>1, <1>3, <1>8 DEF Delete, Early
  <2>2. CASE Matches(r) /\ WriteRow(r, "none", DepartureFact(r))
    <3>1. draft'[r].role = "none" /\ draft'[r].fact = DepartureFact(r)
      BY <1>2, <2>2 DEF WriteRow, Drafts
    <3>2. DepartureFact(r) \in Leaving <=> Is(r, {"leave", "remove"})
      BY <2>1 DEF DepartureFact, Leaving, Is, DeleteKinds
    <3>3. role[Target(r)] # "none"
      BY <2>2 DEF Matches
    <3>4. QED
      BY <1>1, <2>1, <3>1, <3>2, <3>3 DEF Fit, Is, Target, Roles
  <2>3. CASE draft' = [draft EXCEPT ![r].fact = DepartureTold(r)]
    <3>1. draft'[r].role = "keep" /\ draft'[r].fact = ""
      BY <1>2, <2>1, <2>3 DEF DepartureTold, Drafts
    <3>2. QED
      BY <3>1 DEF Fit, Leaving, Roles
  <2>4. QED
    BY <1>8, <2>2, <2>3 DEF Delete
<1>9. CASE SetRole(r) /\ ~Refuse(r)
  <2>1. WriteRow(r, req[r].role, "role_changed") /\ Matches(r) /\ Is(r, {"set_role"})
    BY <1>9 DEF SetRole
  <2>2. step[r] = "issued" /\ req[r].role \in Roles /\ req' = req
    BY <1>1, <1>9, AskedOf DEF SetRole, LInv
  <2>3. draft'[r].role = req[r].role /\ draft'[r].fact = "role_changed"
    BY <1>2, <2>1 DEF WriteRow, Drafts
  <2>4. role[Target(r)] # "none"
    BY <2>1 DEF Matches
  <2>5. QED
    BY <1>1, <2>1, <2>2, <2>3, <2>4 DEF Fit, Is, Target, Roles, Leaving
<1>10. CASE Seat(r)
  <2> DEFINE a == IF role[Target(r)] = "none" THEN "member" ELSE "keep"
  <2>1. draft' = [draft EXCEPT ![r].role = a, ![r].status = "accepted", ![r].fact = "joined"]
    BY <1>10 DEF Seat
  <2>2. draft'[r].role = a /\ draft'[r].fact = "joined"
    BY <1>2, <2>1 DEF Drafts
  <2>3. Is(r, {"accept"}) /\ req' = req
    BY <1>1, <1>10 DEF Seat, LInv, Lawful, Begins
  <2>4. QED
    BY <1>1, <2>2, <2>3 DEF Fit, Is, Target, Roles, Leaving
<1>11. CASE (Invite(r) /\ ~Refuse(r)) \/ (Revoke(r) /\ ~Refuse(r))
  <2>1. step[r] = "issued" /\ draft[r].role = "keep"
    BY <1>3, <1>11 DEF Invite, Revoke, Early
  <2>2. draft[r].fact \notin Leaving
    <3>1. draft[r].fact \in Leaving => draft[r].role = "none"
      BY <2>1 DEF Fit, Open
    <3>2. QED
      BY <2>1, <3>1
  <2>3. draft'[r].role = "keep" /\ draft'[r].fact \notin Leaving
    BY <1>2, <1>11, <2>1, <2>2 DEF Invite, Revoke, Drafts, Leaving
  <2>4. QED
    BY <2>3 DEF Fit, Roles
<1>12. CASE Drop(r)
  <2>1. step[r] = "dropping" /\ req' = req /\ Is(r, {"forget"})
    BY <1>1, <1>12 DEF Drop, LInv, Lawful, Begins
  <2>2. draft'[r].role = draft[r].role /\ draft'[r].fact = "forgotten"
    BY <1>2, <1>12 DEF Drop, Drafts
  <2>3. QED
    BY <1>1, <2>1, <2>2 DEF Fit, Leaving, Is, Target, Open
<1>13. QED
  BY <1>5, <1>6, <1>7, <1>8, <1>9, <1>10, <1>11, <1>12 DEF Handle

LEMMA Countable ==
  ASSUME NEW u \in User
  PROVE  /\ IsFiniteSet(Joins(u)) /\ Cardinality(Joins(u)) \in Nat
         /\ IsFiniteSet(Departures(u)) /\ Cardinality(Departures(u)) \in Nat
         /\ IsFiniteSet(Forgotten(u)) /\ Cardinality(Forgotten(u)) \in Nat
<1>1. /\ Joins(u) \in SUBSET Request /\ Departures(u) \in SUBSET Request
      /\ Forgotten(u) \in SUBSET Request
  BY DEF Joins, Departures, Forgotten, Done
<1>2. IsFiniteSet(Joins(u)) /\ IsFiniteSet(Departures(u)) /\ IsFiniteSet(Forgotten(u))
  BY <1>1, FS_Subset, BoundAssumption
<1>3. QED
  BY <1>2, FS_CardinalityType

(* A step that does not commit settles nothing.                             *)
LEMMA BKept ==
  ASSUME LInv, NEW r \in Request, Handle(r), ~Commit(r), NEW u \in User, Balanced(u)
  PROVE  Balanced(u)'
<1>1. role' = role /\ founders' = founders
  BY DEF Handle, Arrive, Check, Issue, Delete, SetRole, LockInvitation, Seat, Invite,
         Revoke, Remain, Drop, Fails, committed
<1>2. step[r] # "done"
  BY DEF Handle, Arrive, Check, Issue, Delete, SetRole, LockInvitation, Seat, Invite,
         Revoke, Remain, Drop, Fails, Open
<1>3. step'[r] # "done"
  BY DEF Handle, Arrive, Check, Issue, Delete, SetRole, LockInvitation, Seat, Invite,
         Revoke, Remain, Drop, Fails, Goes, Refuse, LInv, TInv, TypeOK
<1>4. ASSUME NEW s \in Request \ {r}
      PROVE  /\ req'[s] = req[s] /\ step'[s] = step[s] /\ draft'[s] = draft[s]
             /\ Target(s)' = Target(s)
  BY Others DEF LInv, Target
<1>5. Done(u)' = Done(u) /\ r \notin Done(u)
  BY <1>2, <1>3, <1>4 DEF Done
<1>6. /\ Joins(u)' = Joins(u) /\ Departures(u)' = Departures(u)
      /\ Forgotten(u)' = Forgotten(u)
  BY <1>4, <1>5 DEF Joins, Departures, Forgotten, Done, Is
<1>7. Member(u)' = Member(u) /\ WasFounder(u)' = WasFounder(u)
  BY <1>1 DEF Member, Members, WasFounder
<1>8. QED
  BY <1>6, <1>7 DEF Balanced

(* A commit settles one request, on the side its draft puts it.             *)
LEMMA BCommit ==
  ASSUME LInv, NEW r \in Request, Commit(r), Fit(r), org', NEW u \in User, Balanced(u)
  PROVE  Balanced(u)'
<1>1. /\ step[r] = "written" /\ r \in Open /\ draft[r] \in Drafts /\ draft[r].drop = FALSE
      /\ req' = req /\ draft' = draft /\ founders' = founders
  BY DEF Commit, Open, local, LInv, TInv, TypeOK, Drafts
<1>2. \A s \in Request : step'[s] = IF s = r THEN "done" ELSE step[s]
  BY DEF Commit, Goes, LInv, TInv, TypeOK
<1>3. WasFounder(u)' = WasFounder(u) /\ WasFounder(u) \in Nat /\ Member(u) \in Nat
  BY <1>1 DEF WasFounder, Member
<1>4. r \notin Done(u) /\ Done(u)' = IF Target(r) = u THEN Done(u) \cup {r} ELSE Done(u)
  BY <1>1, <1>2 DEF Done, Target
<1>5. r \notin Joins(u) /\ r \notin Departures(u) /\ r \notin Forgotten(u)
  BY <1>4 DEF Joins, Departures, Forgotten
<1>6. \A S : IsFiniteSet(S) /\ r \notin S => Cardinality(S \cup {r}) = Cardinality(S) + 1
  BY FS_AddElement
<1>7. ASSUME Joins(u)' = Joins(u), Departures(u)' = Departures(u),
             Forgotten(u)' = Forgotten(u), role[u] = "none" <=> role'[u] = "none"
      PROVE  Balanced(u)'
  BY <1>3, <1>7 DEF Balanced, Member, Members
<1>8. CASE u # Target(r)
  <2>1. role'[u] = role[u]
    BY <1>1, <1>8 DEF Commit
  <2>2. /\ Joins(u)' = Joins(u) /\ Departures(u)' = Departures(u)
        /\ Forgotten(u)' = Forgotten(u)
    BY <1>1, <1>4, <1>8 DEF Joins, Departures, Forgotten, Is
  <2>3. QED
    BY <1>7, <2>1, <2>2
<1>9. CASE u = Target(r) /\ draft[r].role = "keep"
  <2>1. role'[u] = role[u]
    BY <1>1, <1>9 DEF Commit, Become, Row
  <2>2. draft[r].fact \notin Leaving
    BY <1>1, <1>9 DEF Fit
  <2>3. /\ Joins(u)' = Joins(u) /\ Departures(u)' = Departures(u)
        /\ Forgotten(u)' = Forgotten(u)
    BY <1>1, <1>4, <1>9, <2>2 DEF Joins, Departures, Forgotten, Is, Leaving
  <2>4. QED
    BY <1>7, <2>1, <2>3
<1>10. CASE u = Target(r) /\ draft[r].role = "none"
  <2>1. role'[u] = "none" /\ role[u] # "none" /\ Is(r, DeleteKinds)
    BY <1>1, <1>10 DEF Commit, Become, Unloaded, Fit
  <2>2. Member(u) = 1 /\ Member(u)' = 0
    BY <2>1 DEF Member, Members
  <2>3. CASE Is(r, {"forget"})
    <3>1. draft[r].fact \notin Leaving
      BY <1>1, <2>3 DEF Fit, Is
    <3>2. /\ Joins(u)' = Joins(u) /\ Departures(u)' = Departures(u)
          /\ Forgotten(u)' = Forgotten(u) \cup {r}
      BY <1>1, <1>4, <1>10, <2>3, <3>1 DEF Joins, Departures, Forgotten, Is, Leaving
    <3>3. Cardinality(Forgotten(u)') = Cardinality(Forgotten(u)) + 1
      BY <1>5, <1>6, <3>2, Countable
    <3>4. QED
      BY <1>3, <2>2, <3>2, <3>3, Countable DEF Balanced
  <2>4. CASE Is(r, {"leave", "remove"})
    <3>1. draft[r].fact \in Leaving
      BY <1>1, <1>10, <2>4 DEF Fit
    <3>2. /\ Joins(u)' = Joins(u) /\ Departures(u)' = Departures(u) \cup {r}
          /\ Forgotten(u)' = Forgotten(u)
      BY <1>1, <1>4, <1>10, <2>4, <3>1 DEF Joins, Departures, Forgotten, Is, Leaving
    <3>3. Cardinality(Departures(u)') = Cardinality(Departures(u)) + 1
      BY <1>5, <1>6, <3>2, Countable
    <3>4. QED
      BY <1>3, <2>2, <3>2, <3>3, Countable DEF Balanced
  <2>5. QED
    BY <2>1, <2>3, <2>4 DEF Is, DeleteKinds
<1>11. CASE u = Target(r) /\ draft[r].role \in Roles
  <2>1. role'[u] = draft[r].role /\ role'[u] # "none"
    BY <1>1, <1>11 DEF Commit, Become, Roles
  <2>2. draft[r].fact \notin Leaving
    BY <1>1, <1>11 DEF Fit, Roles
  <2>3. CASE Is(r, {"accept"})
    <3>1. role[u] = "none" /\ draft[r].role = "member"
      BY <1>1, <1>11, <2>3 DEF Fit, LInv, Lawful, OfItsKind, Roles
    <3>2. Member(u) = 0 /\ Member(u)' = 1
      BY <2>1, <3>1 DEF Member, Members
    <3>3. /\ Joins(u)' = Joins(u) \cup {r} /\ Departures(u)' = Departures(u)
          /\ Forgotten(u)' = Forgotten(u)
      BY <1>1, <1>4, <1>11, <2>2, <2>3, <3>1 DEF Joins, Departures, Forgotten, Is, Leaving
    <3>4. Cardinality(Joins(u)') = Cardinality(Joins(u)) + 1
      BY <1>5, <1>6, <3>3, Countable
    <3>5. QED
      BY <1>3, <3>2, <3>3, <3>4, Countable DEF Balanced
  <2>4. CASE Is(r, {"set_role"})
    <3>1. role[u] # "none"
      BY <1>1, <1>11, <2>4 DEF Fit
    <3>2. /\ Joins(u)' = Joins(u) /\ Departures(u)' = Departures(u)
          /\ Forgotten(u)' = Forgotten(u)
      BY <1>1, <1>4, <1>11, <2>2, <2>4 DEF Joins, Departures, Forgotten, Is, Leaving, Roles
    <3>3. QED
      BY <1>7, <2>1, <3>1, <3>2
  <2>5. QED
    BY <1>1, <1>11, <2>3, <2>4 DEF Fit, Is
<1>12. QED
  BY <1>1, <1>8, <1>9, <1>10, <1>11 DEF Drafts

(* What a committed draft was fit for, nobody can ask again.                *)
LEMMA CommittedFit ==
  ASSUME LInv, NEW r \in Request, Commit(r)
  PROVE  Fit(r)'
<1>1. step'[r] = "done"
  BY DEF Commit, Goes, LInv, TInv, TypeOK
<1>2. QED
  BY <1>1 DEF Fit, Open

LEMMA BNext == LInv /\ BInv /\ [Next]_vars => BInv'
<1> SUFFICES ASSUME LInv, BInv, [Next]_vars PROVE BInv'
  OBVIOUS
<1>1. ASSUME NEW r \in Request, Handle(r) PROVE BInv'
  <2>1. \A s \in Request : Fit(s)'
    <3>1. Fit(r)'
      BY <1>1, OwnFit, CommittedFit DEF BInv
    <3>2. QED
      BY <1>1, <3>1, OthersFit DEF BInv
  <2>2. ASSUME org', NEW u \in User PROVE Balanced(u)'
    <3>1. org
      BY <1>1, <2>2 DEF Handle, Arrive, Check, Issue, Delete, SetRole, LockInvitation, Seat,
         Invite, Revoke, Remain, Drop, Commit, Fails, committed
    <3>2. QED
      BY <1>1, <2>2, <3>1, BKept, BCommit DEF BInv
  <2>3. QED
    BY <2>1, <2>2 DEF BInv
<1>2. CASE UNCHANGED vars
  BY <1>2 DEF vars, committed, local, BInv, Fit, Open, Is, Target, Balanced, WasFounder, Member,
     Members, Joins, Departures, Forgotten, Done
<1>3. QED
  BY <1>1, <1>2 DEF Next

(* The journal balances the roster: each membership that ended was told     *)
(* once, as MemberLeft or MemberRemoved, unless its user was forgotten.     *)
THEOREM EveryDepartureIsTold == Spec => []EveryDepartureToldOnce
<1>1. BInv => EveryDepartureToldOnce
  BY DEF BInv, Balanced, WasFounder, Member, EveryDepartureToldOnce
<1>2. QED
  BY <1>1, LInit, LNext, BInit, BNext, PTL DEF Spec
-----------------------------------------------------------------------------
(* Content: rows and requests. *)

Notes == [created: Nat, ended: Nat, says: Values \cup FactsTold \cup {NoRow}, echo: BOOLEAN]

ToldTables == {"todo", "page", "event", "key"}

\* A row that a request leaves standing or gone as it saw it, with the value it saw.
Kept(q, j) ==
  /\ q.plan[j] = NoRow <=> q.seen[j] = NoRow
  /\ q.seen[j] # NoRow => q.plan[j].value = q.seen[j].value

\* What the fact of a request in flight says of its plan.
Formed(q) ==
  /\ q.fact # NoRow => q.kind \in ToldTables
  /\ q.fact = "created" => q.seen[q.item] = NoRow /\ q.plan[q.item] # NoRow
  /\ q.fact = "ended" =>
       /\ q.seen[q.item] # NoRow
       /\ \/ q.kind # "key" /\ q.plan[q.item] = NoRow
          \/ q.kind = "key" /\ q.plan[q.item] # NoRow /\ q.plan[q.item].value = "revoked" /\ q.seen[q.item].value = "live"
  /\ q.fact \notin {"created", "ended", NoRow} =>
       q.kind # "key" /\ q.seen[q.item] # NoRow /\ q.plan[q.item] # NoRow /\ q.plan[q.item].value = q.fact
  /\ q.fact \notin {"created", NoRow} => \A j \in Items \ {q.item} : q.plan[j] = q.seen[j]
  /\ q.kind \in ToldTables =>
       /\ \A j \in Items \ {q.item} : Kept(q, j)
       /\ q.fact = NoRow => Kept(q, q.item) \/ (q.seen[q.item] = NoRow /\ q.plan[q.item] # NoRow)
       /\ \A j \in Items : q.plan[j] # NoRow /\ (q.kind # "key" \/ q.seen[j] = NoRow) => q.plan[j].value # "revoked"
  /\ q.kind = "profile" => \A i \in Items : q.plan[i] # NoRow

\* A request that has only counted the tasks found room.
CountInv == counted \in [Requests -> {NoRow} \cup {n \in Nat : n < Limit}]

RowsInv ==
  /\ CountInv
  /\ rows \in [Ids -> TableRow \cup {NoRow}]
  /\ request \in [Requests -> RequestState \cup {NoRow}]
  /\ told \in [Journaled -> Notes]
  /\ today \in 0..MaxDay
  /\ writes \in Nat
  /\ \A i \in Items : rows[<<"profile", i>>] # NoRow
  /\ \A kind \in {"todo", "page", "event"}, i \in Items :
       rows[<<kind, i>>] # NoRow => rows[<<kind, i>>].value # "revoked"
  /\ \A r \in Requests : request[r] # NoRow => Formed(request[r])

(* What a request that begins may be: one of eight forms. *)
Starts(r, q) ==
  /\ request[r] = NoRow /\ q.kind \in scope /\ writes < MaxWrites /\ q.seen = List(q.kind)
  /\ request' = [request EXCEPT ![r] = q]
  /\ counted' = [counted EXCEPT ![r] = NoRow]
  /\ overlapped' = overlapped \cup UNION {Crossed(q, request[s]) : s \in {t \in Requests : request[t] # NoRow}}
  /\ UNCHANGED <<rows, told, today, scope, writes>>

Old(q) == rows[<<q.kind, q.item>>]
Alone(q, row) == q.plan = [q.seen EXCEPT ![q.item] = row]

Prepends(q) ==
  /\ q.kind = "todo" /\ New("todo", q.item) /\ q.plan = Prepended(q.seen, q.item)
  /\ q.fact \in {"created", NoRow} /\ q.claims \in {FirstTask, FirstTask \cup {"late"}} /\ q.above = NoRow
  /\ q.item = Seeded \/ "late" \in q.claims \/ RoomForTask

Rearranges(q) ==
  /\ q.kind \in {"todo", "nav"} /\ q.plan = Reordered(q.seen, q.item, q.above)
  /\ q.fact = NoRow /\ q.claims = {}

\* A row that keeps its place, and its value but for what the fact says.
Amended(kind, fact, old, row) ==
  \/ row = NoRow /\ kind \in {"todo", "page", "event"} /\ fact = "ended"
  \/ row = NoRow /\ kind = "nav" /\ fact = NoRow
  \/ row = [old EXCEPT !.value = "revoked"] /\ old.value = "live" /\ kind = "key" /\ fact = "ended"
  \/ \E v \in Nat : /\ row = [old EXCEPT !.version = v]
                    /\ kind \in {"todo", "page", "event", "organization"} /\ fact = NoRow
  \/ \E v \in Nat : /\ row = [old EXCEPT !.value = fact, !.version = v]
                    /\ \/ kind = "todo" /\ fact \in {"open", "done"}
                       \/ kind = "page" /\ fact \in Visibilities

Edits(q) ==
  /\ Old(q) # NoRow /\ q.claims = {} /\ q.above = NoRow
  /\ Amended(q.kind, q.fact, Old(q), q.plan[q.item]) /\ Alone(q, q.plan[q.item])

Created(kind, i, fact, row) ==
  \/ kind = "page" /\ Unused(kind, i) /\ fact = "created" /\ row = Fresh(0, "draft")
  \/ kind = "event" /\ Unused(kind, i) /\ fact = "created" /\ row = Fresh(0, "set")
  \/ kind = "key" /\ Unused(kind, i) /\ fact = "created" /\ row = Fresh(0, "live")
  \/ kind = "deck" /\ fact = NoRow /\ row = Fresh(0, "subscribed")

Creates(q) ==
  /\ Old(q) = NoRow /\ q.claims = {} /\ q.above = NoRow
  /\ Created(q.kind, q.item, q.fact, q.plan[q.item]) /\ Alone(q, q.plan[q.item])

SeedsPage(q) ==
  /\ q.kind = "page" /\ q.item = Seeded /\ New("page", Seeded) /\ q.fact = NoRow
  /\ q.claims = {"nav"} /\ q.above = NoRow
  /\ Alone(q, Fresh(LastPlace(List("nav")) + 1, "public"))

AddsPlace(q) ==
  /\ q.kind = "nav" /\ Old(q) = NoRow /\ rows[<<"page", q.item>>] # NoRow
  /\ q.fact = NoRow /\ q.claims = {"nav"} /\ q.above = NoRow
  /\ Alone(q, Fresh(LastPlace(List("nav")) + 1, "shown"))

Reviews(q) ==
  /\ q.kind = "card" /\ q.fact = NoRow /\ q.above = NoRow /\ RoomForReview(q.item)
  /\ q.claims = IF q.item \in ReviewedOn(today) THEN {} ELSE {"card"}
  /\ \E learned \in BOOLEAN : Alone(q, Scheduled(q.item, learned))

TakesName(q, handle) ==
  /\ q.kind \in {"profile", "organization"} /\ q.fact = NoRow /\ q.above = NoRow
  /\ \E shown \in SUBSET ({"profile", "organization"} \X Items) :
       /\ Available(handle, <<q.kind, q.item>>, shown)
       /\ unseen' = IF Holders(handle) \subseteq shown \cup {<<q.kind, q.item>>} THEN unseen ELSE unseen \cup {handle}
  /\ \/ /\ Old(q) # NoRow /\ q.claims = {handle} /\ Alone(q, [Old(q) EXCEPT !.value = handle])
     \/ /\ Old(q) = NoRow /\ q.kind = "organization" /\ q.claims = {Founder[q.item], handle}
        /\ \/ Cardinality(Owned(Founder[q.item])) < MaxOwned /\ Alone(q, Fresh(0, handle))
           \/ PersonalOwned(Founder[q.item]) = {} /\ Alone(q, Fresh(1, handle))

Plain(q) ==
  \/ Prepends(q) \/ Rearranges(q) \/ Edits(q) \/ Creates(q) \/ SeedsPage(q) \/ AddsPlace(q) \/ Reviews(q)

Opening ==
  \E r \in Requests, q \in RequestState :
    /\ Starts(r, q)
    /\ \/ Plain(q) /\ unseen' = unseen
       \/ \E handle \in Handles : TakesName(q, handle)

\* A step that touches no row and no request in flight: at most, one counts the tasks.
Idles ==
  /\ UNCHANGED <<rows, request, told, overlapped, unseen, today, scope, writes>>
  /\ \/ counted' = counted
     \/ \E r \in Requests : counted' = [counted EXCEPT ![r] = Cardinality(Existing(List("todo")))] /\ RoomForTask

-----------------------------------------------------------------------------
LEMMA ListIsTyped ==
  ASSUME RowsInv, NEW kind \in Tables
  PROVE  List(kind) \in [Items -> TableRow \cup {NoRow}]
BY DEF RowsInv, List, Ids

LEMMA RowIsTyped ==
  ASSUME RowsInv, NEW kind \in Tables, NEW i \in Items
  PROVE  /\ rows[<<kind, i>>] \in TableRow \cup {NoRow}
         /\ List(kind)[i] = rows[<<kind, i>>]
BY DEF RowsInv, List, Ids

LEMMA NoRowIsNoRow ==
  /\ NoRow \notin TableRow /\ NoRow \notin RequestState /\ NoRow \notin Items
  /\ NoRow \notin FactsTold /\ NoRow \notin Values
  /\ NoRow \notin {"created", "ended", "open", "done", "draft", "members", "public"}
  /\ MaxWrites \in Nat /\ MaxDay \in Nat /\ Seeded \in Items
BY ContentAssumption DEF FactsTold, Visibilities

LEMMA FreshIsTyped ==
  ASSUME NEW place \in Nat, NEW value \in Values
  PROVE  Fresh(place, value) \in TableRow
BY DEF Fresh, TableRow

LEMMA IndexIsNat ==
  ASSUME NEW list, NEW among \in SUBSET Items, NEW i
  PROVE  Index(list, among, i) \in Nat
<1>1. IsFiniteSet({j \in among : Precedes(list, j, i)})
  BY FS_Subset, ContentAssumption
<1> QED BY <1>1, FS_CardinalityType DEF Index

LEMMA ReorderedIsTyped ==
  ASSUME NEW list \in [Items -> TableRow \cup {NoRow}], NEW i \in Items, NEW above \in Items \cup {NoRow}
  PROVE  Reordered(list, i, above) \in [Items -> TableRow \cup {NoRow}]
<1> DEFINE others == Existing(list) \ {i}
           at == IF above = NoRow THEN Cardinality(others) ELSE Index(list, others, above)
           place(j) == LET n == Index(list, others, j) IN IF j = i THEN at ELSE IF n < at THEN n ELSE n + 1
           made == [j \in Items |-> IF list[j] = NoRow THEN NoRow ELSE [list[j] EXCEPT !.place = place(j)]]
<1>1. others \subseteq Items /\ IsFiniteSet(others)
  BY FS_Subset, ContentAssumption DEF Existing
<1>2. at \in Nat
  BY <1>1, FS_CardinalityType, IndexIsNat
<1>3. \A j \in Items : place(j) \in Nat
  BY <1>1, <1>2, IndexIsNat
<1> HIDE DEF at, place
<1>4. made \in [Items -> TableRow \cup {NoRow}]
  BY <1>3 DEF TableRow
<1>5. Reordered(list, i, above) \in {list, made}
  BY DEF Reordered, at, place
<1> QED BY <1>4, <1>5

LEMMA PrependedIsTyped ==
  ASSUME NEW list \in [Items -> TableRow \cup {NoRow}], NEW i \in Items
  PROVE  Prepended(list, i) \in [Items -> TableRow \cup {NoRow}]
BY DEF Prepended, TableRow, Fresh, Values

LEMMA LastPlaceIsNat ==
  ASSUME NEW list \in [Items -> TableRow \cup {NoRow}]
  PROVE  /\ LastPlace(list) \in Nat
         /\ \A i \in Existing(list) : list[i].place <= LastPlace(list)
<1> DEFINE E == Existing(list)
           Over(i) == {j \in E : list[i].place < list[j].place}
<1>1. E \subseteq Items /\ IsFiniteSet(E) /\ \A i \in E : list[i].place \in Nat
  BY FS_Subset, ContentAssumption DEF Existing, TableRow
<1>2. CASE E = {}
  BY <1>2 DEF LastPlace
<1>3. CASE E # {}
  <2>1. IsWellFoundedOn(StrictSubsetOrdering(E), SUBSET E)
    BY <1>1, FS_StrictSubsetOrderingWellFounded, FS_FiniteSubsetsOfFinite
  <2> DEFINE Overs == {Over(i) : i \in E}
  <2>2. Overs \subseteq SUBSET E /\ Overs # {}
    <3>1. \A i \in E : Over(i) \in SUBSET E
      OBVIOUS
    <3> HIDE DEF Over
    <3> QED
      BY <1>3, <3>1
  <2>3. PICK s \in Overs : \A t \in Overs : ~ (<<t, s>> \in StrictSubsetOrdering(E))
    BY <2>1, <2>2, WFMin
  <2>4. PICK i \in E : s = Over(i)
    BY <2>3
  <2>5. ASSUME NEW j \in E, list[i].place < list[j].place PROVE FALSE
    <3>1. Over(j) \subseteq Over(i) /\ j \in Over(i) /\ j \notin Over(j)
      BY <1>1, <2>5
    <3>2. <<Over(j), Over(i)>> \in StrictSubsetOrdering(E)
      BY <2>2, <3>1 DEF StrictSubsetOrdering
    <3> QED
      BY <2>3, <2>4, <3>2
  <2>6. \A j \in E : list[j].place <= list[i].place
    BY <1>1, <2>5
  <2>7. \E n \in {list[j].place : j \in E} : \A j \in E : list[j].place <= n
    BY <2>6
  <2> QED
    BY <1>1, <1>3, <2>7 DEF LastPlace
<1> QED
  BY <1>2, <1>3

LEMMA BeginStarts ==
  ASSUME NEW r, NEW kind, NEW i, NEW plan, NEW fact, NEW claims, NEW above,
         Begin(r, kind, i, plan, fact, claims, above), NEW q,
         q = [kind |-> kind, item |-> i, seen |-> List(kind), plan |-> plan, fact |-> fact,
              claims |-> claims, above |-> above]
  PROVE  Starts(r, q)
BY DEF Begin, Starts

AskedFor(kind, i, plan, fact, claims, above) ==
  [kind |-> kind, item |-> i, seen |-> List(kind), plan |-> plan, fact |-> fact,
   claims |-> claims, above |-> above]

LEMMA AskedIsTyped ==
  ASSUME RowsInv, NEW kind \in Tables, NEW i \in Items, NEW plan \in [Items -> TableRow \cup {NoRow}],
         NEW fact \in FactsTold \cup {NoRow}, NEW claims \in SUBSET ({"todo", "late", "nav", "card"} \cup Handles \cup Items),
         NEW above \in Items \cup {NoRow}
  PROVE  AskedFor(kind, i, plan, fact, claims, above) \in RequestState
BY ListIsTyped DEF AskedFor, RequestState

LEMMA BeginOpens ==
  ASSUME RowsInv, NEW r \in Requests, NEW kind \in Tables, NEW i \in Items, NEW plan \in [Items -> TableRow \cup {NoRow}],
         NEW fact \in FactsTold \cup {NoRow}, NEW claims \in SUBSET ({"todo", "late", "nav", "card"} \cup Handles \cup Items),
         NEW above \in Items \cup {NoRow},
         Begin(r, kind, i, plan, fact, claims, above),
         LET q == AskedFor(kind, i, plan, fact, claims, above)
         IN (Plain(q) /\ unseen' = unseen) \/ (\E handle \in Handles : TakesName(q, handle))
  PROVE  Opening
<1> DEFINE q == AskedFor(kind, i, plan, fact, claims, above)
<1>1. q \in RequestState
  BY AskedIsTyped
<1>2. Starts(r, q)
  BY BeginStarts DEF AskedFor
<1> QED
  BY <1>1, <1>2 DEF Opening

LEMMA EditOpens ==
  ASSUME RowsInv, NEW r \in Requests, NEW kind \in Tables, NEW i \in Items, NEW row \in TableRow \cup {NoRow},
         NEW fact \in FactsTold \cup {NoRow}, Edit(r, kind, i, row, fact), unseen' = unseen,
         Plain(AskedFor(kind, i, [List(kind) EXCEPT ![i] = row], fact, {}, NoRow))
  PROVE  Opening
<1>1. [List(kind) EXCEPT ![i] = row] \in [Items -> TableRow \cup {NoRow}]
  BY ListIsTyped
<1> QED
  BY <1>1, BeginOpens DEF Edit

LEMMA AskedFields ==
  ASSUME NEW kind, NEW i, NEW plan, NEW fact, NEW claims, NEW above, NEW q, q = AskedFor(kind, i, plan, fact, claims, above)
  PROVE  /\ q.kind = kind /\ q.item = i /\ q.seen = List(kind) /\ q.plan = plan /\ q.fact = fact
         /\ q.claims = claims /\ q.above = above
BY DEF AskedFor

\* An update or a deletion of one row.
LEMMA EditingOpens ==
  ASSUME RowsInv, NEW r \in Requests, NEW kind \in Tables, NEW i \in Items, NEW row \in TableRow \cup {NoRow},
         NEW fact \in FactsTold \cup {NoRow}, Edit(r, kind, i, row, fact), unseen' = unseen,
         \/ rows[<<kind, i>>] # NoRow /\ Amended(kind, fact, rows[<<kind, i>>], row)
         \/ rows[<<kind, i>>] = NoRow /\ Created(kind, i, fact, row)
  PROVE  Opening
<1> DEFINE q == AskedFor(kind, i, [List(kind) EXCEPT ![i] = row], fact, {}, NoRow)
<1>1. /\ q.kind = kind /\ q.item = i /\ q.seen = List(kind) /\ q.plan = [List(kind) EXCEPT ![i] = row]
      /\ q.fact = fact /\ q.claims = {} /\ q.above = NoRow
  BY DEF AskedFor
<1> HIDE DEF q
<1>2. Old(q) = rows[<<kind, i>>]
  BY <1>1 DEF Old
<1>3. q.plan[i] = row /\ Alone(q, row)
  BY <1>1, ListIsTyped DEF Alone
<1>4. Edits(q) \/ Creates(q)
  BY <1>1, <1>2, <1>3 DEF Edits, Creates
<1> QED
  BY <1>4, EditOpens DEF Plain, q

LEMMA ValueRow ==
  ASSUME NEW row \in TableRow, NEW v \in Values, NEW n \in Nat
  PROVE  /\ [row EXCEPT !.value = v] \in TableRow
         /\ [row EXCEPT !.version = n] \in TableRow
         /\ [row EXCEPT !.value = v] = [row EXCEPT !.value = v, !.version = row.version]
         /\ [[row EXCEPT !.value = v] EXCEPT !.version = n] = [row EXCEPT !.value = v, !.version = n]
         /\ [[row EXCEPT !.value = row.value] EXCEPT !.version = n] = [row EXCEPT !.version = n]
         /\ row = [row EXCEPT !.version = row.version]
         /\ row.version \in Nat
BY DEF TableRow

LEMMA TouchedForm ==
  ASSUME NEW row \in TableRow
  PROVE  /\ Touched(row) \in TableRow
         /\ Touched(row) = [row EXCEPT !.version = MaxWrites + 1]
         /\ \A kind \in {"todo", "page", "event", "organization"} : Amended(kind, NoRow, row, Touched(row))
<1>1. MaxWrites + 1 \in Nat
  BY NoRowIsNoRow
<1>2. Touched(row) \in TableRow
  BY <1>1 DEF Touched, TableRow
<1>3. Touched(row) = [row EXCEPT !.version = MaxWrites + 1]
  BY DEF Touched
<1> QED
  BY <1>1, <1>2, <1>3 DEF Amended

LEMMA LimitIsNat == Limit \in Nat /\ NoRow \notin Nat
BY ContentAssumption

LEMMA ListForms ==
  ASSUME RowsInv, NEW r \in Requests, NEW i \in Items, ListSteps(r, i) \/ SeedTodo(r), unseen' = unseen
  PROVE  Opening
<1> USE DEF Tables
<1>0. counted[r] # NoRow => RoomForTask \/ LateCount(r) = {"late"}
  <2>1. Cardinality(Existing(List("todo"))) \in Nat
    BY FS_Subset, FS_CardinalityType, ContentAssumption DEF Existing
  <2> QED
    BY <2>1, LimitIsNat DEF RowsInv, CountInv, RoomForTask, LateCount
<1>1. ASSUME NEW j \in Items, NEW fact \in {"created", NoRow}, New("todo", j),
             NEW claims \in {FirstTask, FirstTask \cup {"late"}}, j = Seeded \/ "late" \in claims \/ RoomForTask,
             Begin(r, "todo", j, Prepended(List("todo"), j), fact, claims, NoRow)
      PROVE Opening
  <2> DEFINE q == AskedFor("todo", j, Prepended(List("todo"), j), fact, claims, NoRow)
  <2>1. /\ q.kind = "todo" /\ q.item = j /\ q.seen = List("todo") /\ q.plan = Prepended(List("todo"), j)
        /\ q.fact = fact /\ q.claims = claims /\ q.above = NoRow
    BY AskedFields
  <2>2. Prepended(List("todo"), j) \in [Items -> TableRow \cup {NoRow}]
    BY ListIsTyped, PrependedIsTyped
  <2>3. claims \in SUBSET ({"todo", "late", "nav", "card"} \cup Handles \cup Items) /\ fact \in FactsTold \cup {NoRow}
    BY DEF FirstTask, FactsTold
  <2> HIDE DEF q
  <2>4. Plain(q)
    BY <1>1, <2>1 DEF Plain, Prepends
  <2> QED
    BY <1>1, <2>2, <2>3, <2>4, BeginOpens DEF q
<1>2. CASE AddTodo(r, i)
  <2>1. /\ counted[r] # NoRow /\ New("todo", i)
        /\ Begin(r, "todo", i, Prepended(List("todo"), i), "created", FirstTask \cup LateCount(r), NoRow)
    BY <1>2 DEF AddTodo, Unused
  <2>2. FirstTask \cup LateCount(r) \in {FirstTask, FirstTask \cup {"late"}}
    BY DEF LateCount
  <2>3. RoomForTask \/ "late" \in FirstTask \cup LateCount(r)
    BY <1>0, <2>1
  <2> QED
    BY <1>1, <2>1, <2>2, <2>3
<1>3. CASE SeedTodo(r)
  BY <1>1, <1>3, NoRowIsNoRow DEF SeedTodo
<1> DEFINE old == rows[<<"todo", i>>]
<1>4. CASE EditTodo(r, i)
  <2>1. old \in TableRow /\ old # NoRow /\ Edit(r, "todo", i, Touched(old), NoRow)
    BY <1>4, RowIsTyped DEF EditTodo
  <2>2. Touched(old) \in TableRow /\ Amended("todo", NoRow, old, Touched(old))
    BY <2>1, TouchedForm
  <2> QED
    BY <2>1, <2>2, EditingOpens DEF FactsTold
<1>5. CASE DeleteTodo(r, i)
  <2>1. Amended("todo", "ended", old, NoRow)
    BY DEF Amended
  <2> QED
    BY <1>5, <2>1, EditingOpens DEF DeleteTodo, FactsTold
<1>6. ASSUME NEW value \in {"open", "done"}, TickTodo(r, i, value) PROVE Opening
  <2> DEFINE row == [old EXCEPT !.value = value]
  <2>1. old \in TableRow /\ old # NoRow /\ Edit(r, "todo", i, row, value) /\ value \in Values /\ value \in FactsTold
    BY <1>6, RowIsTyped DEF TickTodo, Values, FactsTold
  <2>2. row \in TableRow /\ Amended("todo", value, old, row)
    BY <2>1, ValueRow DEF Amended
  <2> HIDE DEF row
  <2> QED
    BY <2>1, <2>2, EditingOpens
<1>7. ASSUME NEW above \in Items \cup {NoRow}, MoveTodo(r, i, above) PROVE Opening
  <2> DEFINE q == AskedFor("todo", i, Reordered(List("todo"), i, above), NoRow, {}, above)
  <2>1. /\ q.kind = "todo" /\ q.item = i /\ q.seen = List("todo") /\ q.plan = Reordered(List("todo"), i, above)
        /\ q.fact = NoRow /\ q.claims = {} /\ q.above = above
    BY AskedFields
  <2>2. Reordered(List("todo"), i, above) \in [Items -> TableRow \cup {NoRow}]
    BY ListIsTyped, ReorderedIsTyped
  <2> HIDE DEF q
  <2>3. Plain(q)
    BY <2>1 DEF Plain, Rearranges
  <2> QED
    BY <1>7, <2>2, <2>3, BeginOpens DEF q, MoveTodo
<1> QED
  BY <1>2, <1>3, <1>4, <1>5, <1>6, <1>7 DEF ListSteps

LEMMA FreshForms ==
  ASSUME NEW place \in Nat
  PROVE  \A v \in Values : Fresh(place, v) \in TableRow
BY DEF Fresh, TableRow

LEMMA PageForms ==
  ASSUME RowsInv, NEW r \in Requests, NEW i \in Items, NEW as \in OrgRoles,
         PageSteps(r, i, as) \/ SeedPage(r), unseen' = unseen
  PROVE  Opening
<1> USE DEF Tables
<1> DEFINE old == rows[<<"page", i>>]
<1>0. {"created", "ended"} \cup Visibilities \subseteq FactsTold /\ Visibilities \subseteq Values
  BY DEF FactsTold, Values
<1>1. CASE CreatePage(r, i)
  <2>1. Fresh(0, "draft") \in TableRow
    BY FreshForms DEF Values, Visibilities
  <2>2. Created("page", i, "created", Fresh(0, "draft")) /\ old = NoRow
    BY <1>1 DEF CreatePage, Unused, New, Created
  <2> QED
    BY <1>0, <1>1, <2>1, <2>2, EditingOpens DEF CreatePage
<1>2. CASE DeletePage(r, i, as)
  <2>1. Amended("page", "ended", old, NoRow)
    BY DEF Amended
  <2> QED
    BY <1>0, <1>2, <2>1, EditingOpens DEF DeletePage
<1>3. CASE AddNav(r, i, as)
  <2> DEFINE row == Fresh(LastPlace(List("nav")) + 1, "shown")
             q == AskedFor("nav", i, [List("nav") EXCEPT ![i] = row], NoRow, {"nav"}, NoRow)
  <2>1. row \in TableRow
    <3>1. LastPlace(List("nav")) + 1 \in Nat
      BY ListIsTyped, LastPlaceIsNat
    <3> QED
      BY <3>1, FreshForms DEF Values
  <2>2. [List("nav") EXCEPT ![i] = row] \in [Items -> TableRow \cup {NoRow}]
    <3> HIDE DEF row
    <3> QED
      BY <2>1, ListIsTyped
  <2>3. /\ q.kind = "nav" /\ q.item = i /\ q.seen = List("nav") /\ q.plan = [List("nav") EXCEPT ![i] = row]
        /\ q.fact = NoRow /\ q.claims = {"nav"} /\ q.above = NoRow
    BY DEF AskedFor
  <2> HIDE DEF q
  <2>4. AddsPlace(q)
    BY <1>3, <2>3 DEF AddsPlace, Alone, AddNav, Old
  <2> HIDE DEF row
  <2>5. Begin(r, "nav", i, [List("nav") EXCEPT ![i] = row], NoRow, {"nav"}, NoRow)
    BY <1>3 DEF AddNav, row
  <2> QED
    BY <1>0, <2>2, <2>4, <2>5, BeginOpens DEF Plain, q
<1>4. CASE RemoveNav(r, i, as)
  <2>1. Amended("nav", NoRow, rows[<<"nav", i>>], NoRow)
    BY DEF Amended
  <2> QED
    BY <1>0, <1>4, <2>1, EditingOpens DEF RemoveNav
<1>5. ASSUME NEW v \in Visibilities, UpdatePage(r, i, as, v) PROVE Opening
  <2> DEFINE set == [old EXCEPT !.value = v]
             row == Touched(set)
             fact == IF v = old.value THEN NoRow ELSE v
  <2>1. old \in TableRow /\ old # NoRow /\ Edit(r, "page", i, row, fact)
    BY <1>5, RowIsTyped DEF UpdatePage
  <2>2. set \in TableRow
    BY <1>0, <2>1, ValueRow
  <2>3. row \in TableRow /\ row = [set EXCEPT !.version = MaxWrites + 1] /\ MaxWrites + 1 \in Nat
    <3> HIDE DEF set
    <3> QED
      BY <2>2, TouchedForm, NoRowIsNoRow
  <2>4. fact \in FactsTold \cup {NoRow}
    BY <1>0
  <2>5. CASE v = old.value
    <3>1. row = [old EXCEPT !.version = MaxWrites + 1]
      BY <1>0, <2>1, <2>3, <2>5, ValueRow
    <3>2. fact = NoRow
      BY <2>5
    <3> HIDE DEF row, fact
    <3>3. Amended("page", fact, old, row)
      BY <2>3, <3>1, <3>2 DEF Amended
    <3> QED
      BY <2>1, <2>3, <2>4, <3>3, EditingOpens
  <2>6. CASE v # old.value
    <3>1. row = [old EXCEPT !.value = v, !.version = MaxWrites + 1]
      BY <1>0, <2>1, <2>3, ValueRow
    <3>2. fact = v
      BY <2>6
    <3> HIDE DEF row, fact
    <3>3. Amended("page", fact, old, row)
      BY <2>3, <3>1, <3>2 DEF Amended
    <3> QED
      BY <2>1, <2>3, <2>4, <3>3, EditingOpens
  <2> QED
    BY <2>5, <2>6
<1>6. ASSUME NEW v \in Visibilities, SetVisibility(r, i, as, v) PROVE Opening
  <2> DEFINE row == [old EXCEPT !.value = v]
  <2>1. old \in TableRow /\ old # NoRow /\ Edit(r, "page", i, row, v)
    BY <1>6, RowIsTyped DEF SetVisibility
  <2>2. row \in TableRow /\ row = [old EXCEPT !.value = v, !.version = old.version] /\ old.version \in Nat
    BY <1>0, <2>1, ValueRow
  <2> HIDE DEF row
  <2>3. Amended("page", v, old, row)
    BY <2>2 DEF Amended
  <2> QED
    BY <1>0, <2>1, <2>2, <2>3, EditingOpens
<1>7. ASSUME NEW place \in Items \cup {NoRow}, MoveNav(r, i, as, place) PROVE Opening
  <2> DEFINE above == AbovePage(place)
             q == AskedFor("nav", i, Reordered(List("nav"), i, above), NoRow, {}, above)
  <2>1. /\ q.kind = "nav" /\ q.item = i /\ q.seen = List("nav") /\ q.plan = Reordered(List("nav"), i, above)
        /\ q.fact = NoRow /\ q.claims = {} /\ q.above = above
    BY DEF AskedFor
  <2>2. above \in Items \cup {NoRow}
    BY DEF AbovePage
  <2>3. Reordered(List("nav"), i, above) \in [Items -> TableRow \cup {NoRow}]
    BY <2>2, ListIsTyped, ReorderedIsTyped
  <2> HIDE DEF q
  <2>4. Plain(q)
    BY <2>1 DEF Plain, Rearranges
  <2>5. Begin(r, "nav", i, Reordered(List("nav"), i, above), NoRow, {}, above)
    BY <1>7 DEF MoveNav
  <2> HIDE DEF above
  <2> QED
    BY <1>0, <2>2, <2>3, <2>4, <2>5, BeginOpens DEF q
<1>8. CASE SeedPage(r)
  <2> DEFINE row == Fresh(LastPlace(List("nav")) + 1, "public")
             q == AskedFor("page", Seeded, [List("page") EXCEPT ![Seeded] = row], NoRow, {"nav"}, NoRow)
  <2>1. row \in TableRow
    <3>1. LastPlace(List("nav")) + 1 \in Nat
      BY ListIsTyped, LastPlaceIsNat
    <3> QED
      BY <1>0, <3>1, FreshForms DEF Visibilities
  <2>2. [List("page") EXCEPT ![Seeded] = row] \in [Items -> TableRow \cup {NoRow}] /\ Seeded \in Items
    <3> HIDE DEF row
    <3> QED
      BY <2>1, ListIsTyped, NoRowIsNoRow
  <2>3. /\ q.kind = "page" /\ q.item = Seeded /\ q.seen = List("page")
        /\ q.plan = [List("page") EXCEPT ![Seeded] = row]
        /\ q.fact = NoRow /\ q.claims = {"nav"} /\ q.above = NoRow
    BY DEF AskedFor
  <2> HIDE DEF q
  <2>4. SeedsPage(q)
    BY <1>8, <2>3 DEF SeedsPage, Alone, SeedPage, Old
  <2> HIDE DEF row
  <2>5. Begin(r, "page", Seeded, [List("page") EXCEPT ![Seeded] = row], NoRow, {"nav"}, NoRow)
    BY <1>8 DEF SeedPage, row
  <2> QED
    BY <1>0, <2>2, <2>4, <2>5, BeginOpens DEF Plain, q
<1> QED
  BY <1>1, <1>2, <1>3, <1>4, <1>5, <1>6, <1>7, <1>8 DEF PageSteps
LEMMA ScheduledIsTyped ==
  ASSUME RowsInv, NEW i \in Items, NEW learned \in BOOLEAN
  PROVE  Scheduled(i, learned) \in TableRow
<1> DEFINE next == IF learned THEN Level(i) + 1 ELSE 1
           row == IF rows[<<"card", i>>] = NoRow THEN Fresh(0, Day[today]) ELSE rows[<<"card", i>>]
           level == IF next > 9 THEN 9 ELSE next
<1>1. "card" \in Tables /\ Day[today] \in Values
  BY DEF Tables, Values, RowsInv
<1>2. row \in TableRow
  <2>1. Fresh(0, Day[today]) \in TableRow
    BY <1>1, FreshForms
  <2> QED
    BY <1>1, <2>1, RowIsTyped
<1>3. Level(i) \in Nat
  BY <1>1, RowIsTyped DEF Level, TableRow
<1>4. level \in Nat
  BY <1>3
<1> HIDE DEF level, row
<1>5. [row EXCEPT !.place = level, !.value = Day[today]] \in TableRow
  BY <1>1, <1>2, <1>4 DEF TableRow
<1> QED
  BY <1>5 DEF Scheduled, level, row

LEMMA OtherForms ==
  ASSUME RowsInv, NEW r \in Requests, NEW i \in Items, OtherSteps(r, i), unseen' = unseen
  PROVE  Opening
<1> USE DEF Tables
<1>0. {"created", "ended"} \subseteq FactsTold /\ {"set", "live", "revoked", "subscribed"} \subseteq Values
  BY DEF FactsTold, Values
<1>1. CASE CreateEvent(r, i)
  <2>1. Fresh(0, "set") \in TableRow /\ rows[<<"event", i>>] = NoRow
    BY <1>0, <1>1, FreshForms DEF CreateEvent, Unused, New
  <2>2. Created("event", i, "created", Fresh(0, "set"))
    BY <1>1 DEF CreateEvent, Unused, Created
  <2> QED
    BY <1>0, <1>1, <2>1, <2>2, EditingOpens DEF CreateEvent
<1>2. CASE UpdateEvent(r, i)
  <2> DEFINE old == rows[<<"event", i>>]
  <2>1. old \in TableRow /\ old # NoRow /\ Edit(r, "event", i, Touched(old), NoRow)
    BY <1>2, RowIsTyped DEF UpdateEvent
  <2>2. Touched(old) \in TableRow /\ Amended("event", NoRow, old, Touched(old))
    BY <2>1, TouchedForm
  <2> QED
    BY <1>0, <2>1, <2>2, EditingOpens
<1>3. CASE DeleteEvent(r, i)
  <2>1. Amended("event", "ended", rows[<<"event", i>>], NoRow)
    BY DEF Amended
  <2> QED
    BY <1>0, <1>3, <2>1, EditingOpens DEF DeleteEvent
<1>4. CASE CreateKey(r, i)
  <2>1. Fresh(0, "live") \in TableRow /\ rows[<<"key", i>>] = NoRow
    BY <1>0, <1>4, FreshForms DEF CreateKey, Unused, New
  <2>2. Created("key", i, "created", Fresh(0, "live"))
    BY <1>4 DEF CreateKey, Unused, Created
  <2> QED
    BY <1>0, <1>4, <2>1, <2>2, EditingOpens DEF CreateKey
<1>5. CASE RevokeKey(r, i)
  <2> DEFINE old == rows[<<"key", i>>]
             row == [old EXCEPT !.value = "revoked"]
  <2>1. old \in TableRow /\ old # NoRow /\ old.value = "live" /\ Edit(r, "key", i, row, "ended")
    BY <1>5, RowIsTyped DEF RevokeKey, Revocable
  <2>2. row \in TableRow /\ Amended("key", "ended", old, row)
    BY <1>0, <2>1, ValueRow DEF Amended
  <2> HIDE DEF row
  <2> QED
    BY <1>0, <2>1, <2>2, EditingOpens
<1>6. CASE Subscribe(r, i)
  <2>1. Fresh(0, "subscribed") \in TableRow /\ rows[<<"deck", i>>] = NoRow
    BY <1>0, <1>6, FreshForms DEF Subscribe
  <2>2. Created("deck", i, NoRow, Fresh(0, "subscribed"))
    BY DEF Created
  <2> QED
    BY <1>0, <1>6, <2>1, <2>2, EditingOpens DEF Subscribe
<1>7. ASSUME NEW learned \in BOOLEAN, ReviewCard(r, i, learned) PROVE Opening
  <2> DEFINE row == Scheduled(i, learned)
             claims == IF i \in ReviewedOn(today) THEN {} ELSE {"card"}
             q == AskedFor("card", i, [List("card") EXCEPT ![i] = row], NoRow, claims, NoRow)
  <2>1. row \in TableRow
    BY ScheduledIsTyped
  <2>2. [List("card") EXCEPT ![i] = row] \in [Items -> TableRow \cup {NoRow}]
    <3> HIDE DEF row
    <3> QED
      BY <2>1, ListIsTyped
  <2>3. /\ q.kind = "card" /\ q.item = i /\ q.seen = List("card") /\ q.plan = [List("card") EXCEPT ![i] = row]
        /\ q.fact = NoRow /\ q.claims = claims /\ q.above = NoRow
    BY DEF AskedFor
  <2> HIDE DEF q
  <2>4. Reviews(q)
    BY <1>7, <2>3 DEF Reviews, Alone, ReviewCard
  <2>5. claims \in SUBSET ({"todo", "late", "nav", "card"} \cup Handles \cup Items)
    OBVIOUS
  <2> HIDE DEF row, claims
  <2>6. Begin(r, "card", i, [List("card") EXCEPT ![i] = row], NoRow, claims, NoRow)
    BY <1>7 DEF ReviewCard, row, claims
  <2> QED
    BY <1>0, <2>2, <2>4, <2>5, <2>6, BeginOpens DEF Plain, q
<1>8. CASE RenameOrganization(r, i)
  <2> DEFINE old == rows[<<"organization", i>>]
  <2>1. old \in TableRow /\ old # NoRow /\ Edit(r, "organization", i, Touched(old), NoRow)
    BY <1>8, RowIsTyped DEF RenameOrganization
  <2>2. Touched(old) \in TableRow /\ Amended("organization", NoRow, old, Touched(old))
    BY <2>1, TouchedForm
  <2> QED
    BY <1>0, <2>1, <2>2, EditingOpens
<1>9. ASSUME NEW other \in BOOLEAN, UpdateOrgTimezone(r, i, other) PROVE Opening
  <2> DEFINE old == rows[<<"organization", i>>]
             row == IF other THEN Touched(old) ELSE old
  <2>1. old \in TableRow /\ old # NoRow /\ Edit(r, "organization", i, row, NoRow)
    BY <1>9, RowIsTyped DEF UpdateOrgTimezone
  <2>2. Touched(old) \in TableRow /\ Amended("organization", NoRow, old, Touched(old))
    BY <2>1, TouchedForm
  <2>3. Amended("organization", NoRow, old, old)
    <3>1. old = [old EXCEPT !.version = old.version] /\ old.version \in Nat
      BY <1>0, <2>1, ValueRow
    <3> HIDE DEF old
    <3> QED
      BY <3>1 DEF Amended
  <2>4. row \in TableRow /\ Amended("organization", NoRow, old, row)
    BY <2>1, <2>2, <2>3
  <2> HIDE DEF row
  <2> QED
    BY <1>0, <2>1, <2>4, EditingOpens
<1> QED
  BY <1>1, <1>2, <1>3, <1>4, <1>5, <1>6, <1>7, <1>8, <1>9 DEF OtherSteps

LEMMA TakeOpens ==
  ASSUME RowsInv, NEW r \in Requests, NEW kind \in {"profile", "organization"}, NEW i \in Items,
         NEW handle \in Handles, NEW shown \in SUBSET ({"profile", "organization"} \X Items), NEW row \in TableRow,
         NEW claims \in SUBSET Items, Take(r, <<kind, i>>, handle, shown, row, claims),
         \/ rows[<<kind, i>>] # NoRow /\ claims = {} /\ row = [rows[<<kind, i>>] EXCEPT !.value = handle]
         \/ /\ rows[<<kind, i>>] = NoRow /\ kind = "organization" /\ claims = {Founder[i]}
            /\ \/ Cardinality(Owned(Founder[i])) < MaxOwned /\ row = Fresh(0, handle)
               \/ PersonalOwned(Founder[i]) = {} /\ row = Fresh(1, handle)
  PROVE  Opening
<1> DEFINE all == claims \cup {handle}
           q == AskedFor(kind, i, [List(kind) EXCEPT ![i] = row], NoRow, all, NoRow)
<1>1. kind \in Tables /\ all \in SUBSET ({"todo", "late", "nav", "card"} \cup Handles \cup Items)
  BY DEF Tables, FactsTold
<1>2. [List(kind) EXCEPT ![i] = row] \in [Items -> TableRow \cup {NoRow}]
  BY <1>1, ListIsTyped
<1>3. /\ q.kind = kind /\ q.item = i /\ q.seen = List(kind) /\ q.plan = [List(kind) EXCEPT ![i] = row]
      /\ q.fact = NoRow /\ q.claims = all /\ q.above = NoRow
  BY DEF AskedFor
<1>4. Begin(r, kind, i, [List(kind) EXCEPT ![i] = row], NoRow, all, NoRow)
  BY DEF Take
<1>5. /\ Available(handle, <<kind, i>>, shown)
      /\ unseen' = IF Holders(handle) \subseteq shown \cup {<<kind, i>>} THEN unseen ELSE unseen \cup {handle}
  BY DEF Take
<1>6. all = {handle} \/ all = {Founder[i], handle}
  OBVIOUS
<1> HIDE DEF q, all
<1>7. Alone(q, row) /\ Old(q) = rows[<<kind, i>>]
  BY <1>3 DEF Alone, Old
<1>8. TakesName(q, handle)
  <2>1. CASE rows[<<kind, i>>] # NoRow /\ claims = {} /\ row = [rows[<<kind, i>>] EXCEPT !.value = handle]
    <3>1. all = {handle}
      BY <2>1 DEF all
    <3> QED
      BY <1>3, <1>5, <1>7, <2>1, <3>1 DEF TakesName
  <2>2. CASE /\ rows[<<kind, i>>] = NoRow /\ kind = "organization" /\ claims = {Founder[i]}
             /\ \/ Cardinality(Owned(Founder[i])) < MaxOwned /\ row = Fresh(0, handle)
                \/ PersonalOwned(Founder[i]) = {} /\ row = Fresh(1, handle)
    <3>1. all = {Founder[i], handle}
      BY <2>2 DEF all
    <3> QED
      BY <1>3, <1>5, <1>7, <2>2, <3>1 DEF TakesName
  <2> QED
    BY <2>1, <2>2
<1> QED
  BY <1>1, <1>2, <1>4, <1>8, NoRowIsNoRow, BeginOpens DEF q

LEMMA HandleForms ==
  ASSUME RowsInv, NEW r \in Requests, NEW i \in Items, NEW handle \in Handles, HandleSteps(r, i, handle)
  PROVE  Opening
<1> USE DEF Tables
<1>0. /\ \A user \in Items : Shown(user) \in SUBSET ({"profile", "organization"} \X Items)
      /\ handle \in Values /\ {} \in SUBSET Items /\ {Founder[i]} \in SUBSET Items
  BY ContentAssumption DEF Shown, Values
<1>1. ASSUME NEW kind \in {"profile", "organization"}, NEW user \in Items, rows[<<kind, i>>] # NoRow,
             TakeHandle(r, <<kind, i>>, handle, Shown(user))
      PROVE  Opening
  <2> DEFINE row == [rows[<<kind, i>>] EXCEPT !.value = handle]
  <2>1. Take(r, <<kind, i>>, handle, Shown(user), row, {})
    BY <1>1 DEF TakeHandle
  <2>2. row \in TableRow
    <3>1. kind \in Tables
      OBVIOUS
    <3>2. rows[<<kind, i>>] \in TableRow
      BY <1>1, <3>1, RowIsTyped
    <3> QED
      BY <1>0, <3>2 DEF TableRow
  <2> DEFINE shown == Shown(user)
  <2>3. shown \in SUBSET ({"profile", "organization"} \X Items)
    BY <1>0
  <2> HIDE DEF shown, row
  <2>4. Take(r, <<kind, i>>, handle, shown, row, {})
    BY <2>1 DEF shown
  <2>5. row = [rows[<<kind, i>>] EXCEPT !.value = handle]
    BY DEF row
  <2> QED
    BY <1>0, <1>1, <2>2, <2>3, <2>4, <2>5, TakeOpens
<1>2. ASSUME NEW shown \in SUBSET ({"profile", "organization"} \X Items), NEW row \in TableRow,
             CreateWithOwner(r, i, handle, shown, row),
             \/ Cardinality(Owned(Founder[i])) < MaxOwned /\ row = Fresh(0, handle)
             \/ PersonalOwned(Founder[i]) = {} /\ row = Fresh(1, handle)
      PROVE  Opening
  BY <1>0, <1>2, TakeOpens DEF CreateWithOwner
<1>3. Fresh(0, handle) \in TableRow /\ Fresh(1, handle) \in TableRow
  BY <1>0, FreshForms
<1>4. CASE UpdateProfile(r, i, handle)
  BY <1>1, <1>4 DEF UpdateProfile, RowsInv
<1>5. CASE AutoHandle(r, i, handle)
  BY <1>1, <1>5 DEF AutoHandle, RowsInv
<1>6. CASE CreateOrganization(r, i, handle)
  BY <1>0, <1>2, <1>3, <1>6, ContentAssumption DEF CreateOrganization
<1>7. CASE CreatePersonalOrg(r, i, handle)
  BY <1>2, <1>3, <1>7 DEF CreatePersonalOrg
<1>8. ASSUME NEW user \in Items, UpdateOrgHandle(r, i, user, handle) PROVE Opening
  BY <1>1, <1>8 DEF UpdateOrgHandle
<1> QED
  BY <1>4, <1>5, <1>6, <1>7, <1>8 DEF HandleSteps

LEMMA StepForms ==
  ASSUME RowsInv, [ContentNext]_contentVars
  PROVE  \/ Opening
         \/ \E r \in Requests : (Write(r) \/ Fail(r)) /\ unseen' = unseen
         \/ NextDay /\ unseen' = unseen
         \/ Idles
<1>1. ASSUME NEW r \in Requests, SeedTodo(r), unseen' = unseen PROVE Opening
  BY <1>1, ListForms, NoRowIsNoRow
<1>2. ASSUME NEW r \in Requests, SeedPage(r), unseen' = unseen PROVE Opening
  BY <1>2, PageForms, NoRowIsNoRow DEF OrgRoles
<1>3. ASSUME NEW r \in Requests, CountTodos(r), unseen' = unseen PROVE Idles
  BY <1>3 DEF CountTodos, Idles
<1>4. UNCHANGED contentVars => Idles
  BY DEF contentVars, Idles
<1> QED
  BY <1>1, <1>2, <1>3, <1>4, ListForms, PageForms, OtherForms, HandleForms DEF ContentNext
LEMMA ReorderedKeeps ==
  ASSUME NEW list \in [Items -> TableRow \cup {NoRow}], NEW i \in Items, NEW above \in Items \cup {NoRow},
         NEW j \in Items
  PROVE  /\ Reordered(list, i, above)[j] = NoRow <=> list[j] = NoRow
         /\ list[j] # NoRow => /\ Reordered(list, i, above)[j].value = list[j].value
                               /\ Reordered(list, i, above)[j].version = list[j].version
<1> DEFINE others == Existing(list) \ {i}
           at == IF above = NoRow THEN Cardinality(others) ELSE Index(list, others, above)
           place(k) == LET n == Index(list, others, k) IN IF k = i THEN at ELSE IF n < at THEN n ELSE n + 1
           made == [k \in Items |-> IF list[k] = NoRow THEN NoRow ELSE [list[k] EXCEPT !.place = place(k)]]
<1>1. Reordered(list, i, above) \in {list, made}
  BY DEF Reordered
<1>2. made[j] = IF list[j] = NoRow THEN NoRow ELSE [list[j] EXCEPT !.place = place(j)]
  OBVIOUS
<1>3. place(j) \in Nat
  BY IndexIsNat, FS_Subset, FS_CardinalityType, ContentAssumption DEF Existing
<1> HIDE DEF made, place
<1>4. list[j] # NoRow => /\ made[j] \in TableRow /\ made[j] # NoRow
                         /\ made[j].value = list[j].value /\ made[j].version = list[j].version
  BY <1>2, <1>3, NoRowIsNoRow DEF TableRow
<1> QED
  BY <1>1, <1>2, <1>4

LEMMA QuietFormed ==
  ASSUME NEW q, q.fact = NoRow, q.kind \notin ToldTables, q.kind = "profile" => \A i \in Items : q.plan[i] # NoRow
  PROVE  Formed(q)
BY NoRowIsNoRow DEF Formed

LEMMA MovedRow ==
  ASSUME NEW row \in TableRow, NEW n \in Nat
  PROVE  /\ [row EXCEPT !.place = n] \in TableRow /\ [row EXCEPT !.place = n].value = row.value
         /\ [row EXCEPT !.place = @ + 1] = [row EXCEPT !.place = row.place + 1]
         /\ row.place \in Nat
BY DEF TableRow

LEMMA PlainFormed ==
  ASSUME RowsInv, NEW q \in RequestState, q.seen = List(q.kind), Plain(q)
  PROVE  Formed(q)
<1>0. q.kind \in Tables /\ q.item \in Items /\ q.seen \in [Items -> TableRow \cup {NoRow}]
      /\ q.plan \in [Items -> TableRow \cup {NoRow}] /\ q.above \in Items \cup {NoRow}
  BY DEF RequestState
<1>1. \A j \in Items : q.seen[j] = rows[<<q.kind, j>>]
  BY DEF List
<1>2. Old(q) = q.seen[q.item]
  BY <1>0, <1>1 DEF Old
<1>3. \A j \in Items : q.kind \in {"todo", "page", "event"} /\ q.seen[j] # NoRow => q.seen[j].value # "revoked"
  BY <1>1 DEF RowsInv
<1>4. CASE Prepends(q)
  <2>1. \A j \in Items : q.plan[j] = IF j = q.item THEN Fresh(0, "open")
                     ELSE IF q.seen[j] = NoRow THEN NoRow ELSE [q.seen[j] EXCEPT !.place = @ + 1]
    BY <1>4 DEF Prepends, Prepended
  <2>2. Fresh(0, "open") # NoRow /\ Fresh(0, "open").value = "open"
    BY FreshForms, NoRowIsNoRow DEF Fresh, Values
  <2>3. \A j \in Items \ {q.item} : q.seen[j] # NoRow => q.plan[j] # NoRow /\ q.plan[j].value = q.seen[j].value
    <3> SUFFICES ASSUME NEW j \in Items \ {q.item}, q.seen[j] # NoRow
                 PROVE  q.plan[j] # NoRow /\ q.plan[j].value = q.seen[j].value
      OBVIOUS
    <3> DEFINE row == q.seen[j]
    <3>1. row \in TableRow /\ row.place + 1 \in Nat
      BY <1>0 DEF TableRow
    <3>2. q.plan[j] = [row EXCEPT !.place = @ + 1]
      BY <2>1
    <3> HIDE DEF row
    <3>3. q.plan[j] \in TableRow /\ q.plan[j].value = row.value
      BY <3>1, <3>2, MovedRow
    <3> QED
      BY <3>3, NoRowIsNoRow DEF row
  <2>4. q.seen[q.item] = NoRow /\ q.kind = "todo" /\ q.fact \in {"created", NoRow}
    BY <1>1, <1>0, <1>4 DEF Prepends, New
  <2>5. \A j \in Items \ {q.item} : Kept(q, j)
    BY <2>1, <2>3 DEF Kept
  <2>6. \A j \in Items : q.plan[j] # NoRow => q.plan[j].value # "revoked"
    BY <1>0, <1>3, <2>1, <2>2, <2>3, <2>4
  <2>7. q.plan[q.item] # NoRow
    BY <1>0, <2>1, <2>2
  <2> QED
    BY <2>4, <2>5, <2>6, <2>7, NoRowIsNoRow DEF Formed, ToldTables
<1>5. CASE Rearranges(q)
  <2>1. \A j \in Items : Kept(q, j)
    BY <1>0, <1>5, ReorderedKeeps DEF Rearranges, Kept
  <2>2. q.kind \in {"todo", "nav"} /\ q.fact = NoRow
    BY <1>5 DEF Rearranges
  <2>3. q.kind = "todo" => \A j \in Items : q.plan[j] # NoRow => q.plan[j].value # "revoked"
    BY <1>3, <2>1 DEF Kept
  <2> QED
    BY <1>0, <2>1, <2>2, <2>3, NoRowIsNoRow DEF Formed, ToldTables
<1>6. CASE Edits(q)
  <2> DEFINE row == q.plan[q.item]
  <2>1. q.seen[q.item] \in TableRow /\ q.plan = [q.seen EXCEPT ![q.item] = row]
    BY <1>0, <1>2, <1>6 DEF Edits, Alone
  <2>2. \A j \in Items \ {q.item} : q.plan[j] = q.seen[j] /\ Kept(q, j)
    BY <2>1, <1>0 DEF Kept
  <2>3. PICK old \in TableRow : old = q.seen[q.item] /\ Amended(q.kind, q.fact, old, row)
    BY <1>2, <1>6, <2>1 DEF Edits
  <2>4. row \in TableRow \cup {NoRow}
    BY <1>0
  <2> HIDE DEF row
  <2>5. CASE row = NoRow /\ q.kind \in {"todo", "page", "event"} /\ q.fact = "ended"
    BY <1>0, <1>3, <2>1, <2>2, <2>3, <2>5, NoRowIsNoRow DEF Formed, ToldTables, row
  <2>6. CASE row = NoRow /\ q.kind = "nav" /\ q.fact = NoRow
    BY <2>6, QuietFormed DEF ToldTables
  <2>7. CASE row = [old EXCEPT !.value = "revoked"] /\ old.value = "live" /\ q.kind = "key" /\ q.fact = "ended"
    <3>1. row # NoRow /\ row.value = "revoked"
      BY <2>3, <2>7, NoRowIsNoRow, ValueRow DEF TableRow, Values
    <3> QED
      BY <1>0, <2>1, <2>2, <2>3, <2>7, <3>1, NoRowIsNoRow DEF Formed, ToldTables, row
  <2>8. CASE \E v \in Nat : /\ row = [old EXCEPT !.version = v]
                            /\ q.kind \in {"todo", "page", "event", "organization"} /\ q.fact = NoRow
    <3>1. row # NoRow /\ row.value = old.value
      BY <2>3, <2>8, NoRowIsNoRow DEF TableRow
    <3>2. Kept(q, q.item)
      BY <1>0, <2>1, <2>3, <3>1, NoRowIsNoRow DEF Kept, row
    <3>3. q.kind # "organization" => \A j \in Items : q.plan[j] # NoRow => q.plan[j].value # "revoked"
      BY <1>0, <1>3, <2>1, <2>2, <2>3, <2>8, <3>1, NoRowIsNoRow DEF row
    <3> QED
      BY <2>2, <2>8, <3>2, <3>3, <1>0, NoRowIsNoRow, QuietFormed DEF Formed, ToldTables
  <2>9. CASE \E v \in Nat : /\ row = [old EXCEPT !.value = q.fact, !.version = v]
                            /\ \/ q.kind = "todo" /\ q.fact \in {"open", "done"}
                               \/ q.kind = "page" /\ q.fact \in Visibilities
    <3>1. row # NoRow /\ row.value = q.fact
      <4>1. q.fact \in Values
        BY <2>9 DEF Values
      <4> QED
        <5>1. PICK v \in Nat : row = [old EXCEPT !.value = q.fact, !.version = v]
          BY <2>9
        <5>2. [old EXCEPT !.value = q.fact, !.version = v] \in TableRow
          BY <2>3, <4>1 DEF TableRow
        <5>3. [old EXCEPT !.value = q.fact, !.version = v].value = q.fact
          BY <2>3 DEF TableRow
        <5> QED
          BY <5>1, <5>2, <5>3, NoRowIsNoRow
    <3>2. q.fact \notin {"created", "ended", "revoked"} /\ q.kind \in {"todo", "page"}
      BY <2>9 DEF Visibilities
    <3>3. \A j \in Items : q.plan[j] # NoRow => q.plan[j].value # "revoked"
      BY <1>0, <1>3, <2>1, <2>2, <2>3, <3>1, <3>2, NoRowIsNoRow DEF row
    <3>4. q.fact = NoRow => Kept(q, q.item) \/ (q.seen[q.item] = NoRow /\ q.plan[q.item] # NoRow)
      <4>1. CASE q.fact = NoRow
        <5>1. NoRow \in {"open", "done"} \cup Visibilities
          BY <4>1, <2>9
        <5> QED
          BY <5>1, NoRowIsNoRow DEF Visibilities
      <4> QED
        BY <4>1
    <3> QED
      BY <2>1, <2>2, <2>3, <3>1, <3>2, <3>3, <3>4, NoRowIsNoRow DEF Formed, ToldTables, row
  <2> QED
    BY <2>3, <2>5, <2>6, <2>7, <2>8, <2>9 DEF Amended
<1>7. CASE Creates(q) \/ SeedsPage(q)
  <2> DEFINE row == q.plan[q.item]
  <2>1. q.seen[q.item] = NoRow /\ q.plan = [q.seen EXCEPT ![q.item] = row]
    BY <1>0, <1>1, <1>2, <1>7 DEF Creates, SeedsPage, Alone, New
  <2>2. \A j \in Items \ {q.item} : q.plan[j] = q.seen[j] /\ Kept(q, j)
    BY <2>1, <1>0 DEF Kept
  <2>3. q.kind \in {"page", "event", "key", "deck"} /\ q.fact \in {"created", NoRow} /\ row # NoRow
    <3>1. LastPlace(List("nav")) + 1 \in Nat
      BY ListIsTyped, LastPlaceIsNat DEF Tables
    <3> QED
      BY <1>7, <1>0, <3>1, FreshForms, NoRowIsNoRow DEF Creates, SeedsPage, Created, Alone, Values, Visibilities
  <2>4. row.value # "revoked"
    BY <1>7, <1>0 DEF Creates, SeedsPage, Created, Alone, Fresh
  <2>5. q.kind = "deck" => q.fact = NoRow
    BY <1>7 DEF Creates, Created, SeedsPage
  <2>6. \A j \in Items : q.plan[j] # NoRow /\ (q.kind # "key" \/ q.seen[j] = NoRow) /\ q.kind # "deck" => q.plan[j].value # "revoked"
    BY <1>0, <1>3, <2>1, <2>2, <2>3, <2>4
  <2> QED
    BY <2>1, <2>2, <2>3, <2>5, <2>6, NoRowIsNoRow DEF Formed, ToldTables
<1>8. CASE AddsPlace(q) \/ Reviews(q)
  BY <1>8, QuietFormed DEF AddsPlace, Reviews, ToldTables
<1> QED
  BY <1>4, <1>5, <1>6, <1>7, <1>8 DEF Plain

LEMMA TakesFormed ==
  ASSUME RowsInv, NEW q \in RequestState, q.seen = List(q.kind), NEW handle \in Handles, TakesName(q, handle)
  PROVE  Formed(q)
<1>0. q.kind \in Tables /\ q.item \in Items /\ q.seen \in [Items -> TableRow \cup {NoRow}]
      /\ q.plan \in [Items -> TableRow \cup {NoRow}]
  BY DEF RequestState
<1>1. \A j \in Items : q.seen[j] = rows[<<q.kind, j>>]
  BY DEF List
<1>4. q.fact = NoRow
  BY DEF TakesName
<1>2. CASE q.kind = "profile"
  <2>1. \A j \in Items : q.seen[j] # NoRow
    BY <1>1, <1>2 DEF RowsInv
  <2>2. Old(q) \in TableRow /\ Alone(q, [Old(q) EXCEPT !.value = handle])
    BY <1>0, <1>1, <1>2, <2>1 DEF TakesName, Old
  <2>3. handle \in Values
    BY DEF Values
  <2>4. [Old(q) EXCEPT !.value = handle] \in TableRow
    BY <2>2, <2>3, ValueRow
  <2>5. \A j \in Items : q.plan[j] # NoRow
    BY <1>0, <2>1, <2>2, <2>4, NoRowIsNoRow DEF Alone
  <2> QED
    BY <1>2, <1>4, <2>5, QuietFormed DEF ToldTables
<1>3. CASE q.kind = "organization"
  BY <1>3, <1>4, QuietFormed DEF ToldTables
<1> QED
  BY <1>2, <1>3 DEF TakesName
LEMMA OpeningIs ==
  ASSUME RowsInv, Opening
  PROVE  \E r \in Requests, q \in RequestState :
           /\ Starts(r, q) /\ Formed(q)
           /\ \/ Plain(q) /\ unseen' = unseen
              \/ \E handle \in Handles : TakesName(q, handle)
BY PlainFormed, TakesFormed DEF Opening, Starts

LEMMA VersionedRow ==
  ASSUME NEW row \in TableRow, NEW n \in Nat, NEW new, new = [row EXCEPT !.version = n]
  PROVE  new \in TableRow /\ new.value = row.value /\ new.place = row.place /\ new.version = n
BY DEF TableRow

LEMMA NotesFields ==
  ASSUME NEW t \in Notes, NEW n \in Nat, NEW v \in Values \cup FactsTold \cup {NoRow}
  PROVE  [t EXCEPT !.created = n, !.says = v] \in Notes
BY DEF Notes

LEMMA FreshFields ==
  ASSUME NEW n, NEW v
  PROVE  Fresh(n, v).value = v /\ Fresh(n, v).place = n /\ Fresh(n, v).version = 0
BY DEF Fresh

\* What a commit leaves of a row.
LEMMA LeaveCases ==
  ASSUME RowsInv, NEW q \in RequestState, NEW kind \in Tables, NEW i \in Items, NEW row, row = Leave(q, <<kind, i>>)
  PROVE  /\ row \in TableRow \cup {NoRow}
         /\ kind = q.kind /\ i \in Changed(q) =>
              \/ q.plan[i] = NoRow /\ row = NoRow
              \/ /\ q.plan[i] # NoRow /\ row # NoRow /\ row.value = q.plan[i].value
                 /\ row.place = q.plan[i].place /\ row.version = writes + 1
         /\ kind # q.kind \/ i \notin Changed(q) =>
              \/ row = rows[<<kind, i>>]
              \/ kind = "nav" /\ q.kind = "page" /\ row = NoRow /\ i \in Changed(q) /\ q.plan[i] = NoRow
              \/ /\ kind = "nav" /\ q.kind = "page" /\ i = Seeded /\ q.seen[i] = NoRow /\ q.plan[i] # NoRow
                 /\ row # NoRow /\ row.place = q.plan[i].place /\ row.version = writes + 1
<1>0. /\ q.plan \in [Items -> TableRow \cup {NoRow}] /\ q.seen \in [Items -> TableRow \cup {NoRow}]
      /\ writes + 1 \in Nat /\ rows[<<kind, i>>] \in TableRow \cup {NoRow}
  BY RowIsTyped DEF RequestState, RowsInv
<1> DEFINE id == <<kind, i>>
<1>1. id[1] = kind /\ id[2] = i
  OBVIOUS
<1>2. CASE kind = q.kind /\ i \in Changed(q)
  <2>1. row = IF q.plan[i] = NoRow THEN NoRow ELSE [q.plan[i] EXCEPT !.version = writes + 1]
    BY <1>1, <1>2 DEF Leave, Changed
  <2>2. q.plan[i] # NoRow => row \in TableRow /\ row.value = q.plan[i].value /\ row.place = q.plan[i].place
                             /\ row.version = writes + 1
    <3> DEFINE p == q.plan[i]  n == writes + 1
    <3>1. row = IF p = NoRow THEN NoRow ELSE [p EXCEPT !.version = n]
      BY <2>1
    <3>2. p \in TableRow \cup {NoRow} /\ n \in Nat
      BY <1>0
    <3> HIDE DEF p, n
    <3>3. p # NoRow => row = [p EXCEPT !.version = n] /\ p \in TableRow
      BY <3>1, <3>2
    <3>4. p # NoRow => row \in TableRow /\ row.value = p.value /\ row.place = p.place /\ row.version = n
      BY <3>2, <3>3, VersionedRow
    <3> QED
      BY <3>4 DEF p, n
  <2> QED
    BY <1>2, <2>1, <2>2, NoRowIsNoRow
<1>3. CASE ~ (kind = q.kind /\ i \in Changed(q))
  <2>1. ~ (id[1] = q.kind /\ q.plan[id[2]] # q.seen[id[2]])
    BY <1>1, <1>3 DEF Changed
  <2>2. CASE Cascades(q, id)
    <3>1. row = NoRow
      BY <2>1, <2>2 DEF Leave
    <3> QED
      BY <1>0, <1>1, <1>3, <2>2, <3>1 DEF Cascades
  <2>3. CASE ~ Cascades(q, id) /\ Accompanies(q, id)
    <3>1. row = [Fresh(q.plan[Seeded].place, "shown") EXCEPT !.version = writes + 1]
      BY <2>1, <2>3 DEF Leave
    <3>2. kind = "nav" /\ q.kind = "page" /\ i = Seeded /\ q.seen[i] = NoRow /\ q.plan[i] # NoRow
      BY <1>1, <2>3 DEF Accompanies
    <3>3. Fresh(q.plan[Seeded].place, "shown") \in TableRow
      <4>1. q.plan[i].place \in Nat
        BY <1>0, <3>2 DEF TableRow
      <4> QED
        BY <3>2, <4>1, FreshForms DEF Values
    <3>4. row \in TableRow /\ row.place = q.plan[i].place /\ row.version = writes + 1
      <4> DEFINE p == Fresh(q.plan[Seeded].place, "shown")  n == writes + 1
      <4>1. row = [p EXCEPT !.version = n] /\ p \in TableRow /\ n \in Nat
        BY <1>0, <3>1, <3>3
      <4>2. p.place = q.plan[i].place
        BY <3>2, FreshFields
      <4> HIDE DEF p, n
      <4>3. row \in TableRow /\ row.place = p.place /\ row.version = n
        BY <4>1, VersionedRow
      <4> QED
        BY <4>2, <4>3 DEF n
    <3> QED
      BY <1>3, <3>2, <3>4, NoRowIsNoRow
  <2>4. CASE ~ Cascades(q, id) /\ ~ Accompanies(q, id)
    <3>1. row = rows[id]
      BY <2>1, <2>4 DEF Leave
    <3> QED
      BY <1>0, <1>3, <3>1
  <2> QED
    BY <2>2, <2>3, <2>4
<1> QED
  BY <1>2, <1>3

LEMMA TellIsTyped ==
  ASSUME RowsInv, NEW q \in RequestState, Formed(q), NEW t \in Notes, q.fact # NoRow
  PROVE  Tell(q, t) \in Notes
<1>1. q.fact \in FactsTold /\ q.plan[q.item] \in TableRow \cup {NoRow}
  BY DEF RequestState
<1>2. CASE q.fact = "created"
  <2>1. q.plan[q.item].value \in Values \cup {NoRow}
    BY <1>1, <1>2 DEF Formed, TableRow
  <2> DEFINE v == q.plan[q.item].value
  <2> DEFINE n == t.created + 1
  <2>2. Tell(q, t) = [t EXCEPT !.created = n, !.says = v]
    BY <1>2 DEF Tell
  <2>3. v \in Values \cup FactsTold \cup {NoRow} /\ n \in Nat
    BY <2>1 DEF Notes
  <2> HIDE DEF v, n
  <2> QED
    BY <2>2, <2>3, NotesFields
<1>3. CASE q.fact = "ended"
  BY <1>3 DEF Tell, Notes
<1>4. CASE q.fact \notin {"created", "ended"}
  <2>1. Tell(q, t) = [t EXCEPT !.says = q.fact, !.echo = Changed(q) = {}]
    BY <1>4 DEF Tell
  <2>2. (Changed(q) = {}) \in BOOLEAN
    OBVIOUS
  <2> QED
    BY <1>1, <2>1, <2>2 DEF Notes
<1> QED
  BY <1>2, <1>3, <1>4

LEMMA InitTyped == ContentInit => RowsInv
<1> SUFFICES ASSUME ContentInit PROVE RowsInv
  OBVIOUS
<1>1. PICK standing \in {{}, {Seeded}, Items} :
       /\ rows = [id \in Ids |-> IF id[1] = "profile" THEN Fresh(0, NoRow)
                                ELSE IF id[2] \in standing /\ id[1] \in scope THEN Standing(id, standing) ELSE NoRow]
       /\ told = [id \in Journaled |-> IF rows[id] # NoRow
                                THEN [Untold EXCEPT !.created = 1, !.says = rows[id].value] ELSE Untold]
  BY DEF ContentInit
<1>2. ASSUME NEW id \in Ids
      PROVE  /\ Standing(id, standing) \in TableRow \cup {NoRow}
             /\ id[1] \in {"todo", "page", "event"} /\ Standing(id, standing) # NoRow =>
                  Standing(id, standing).value # "revoked"
  <2> DEFINE place == Cardinality({j \in standing : Rank[j] < Rank[id[2]]})
  <2>0. standing \subseteq Items
    BY NoRowIsNoRow
  <2>1. place \in Nat
    BY <2>0, FS_Subset, FS_CardinalityType, ContentAssumption
  <2> HIDE DEF place
  <2>2. Standing(id, standing) \in {Fresh(place, "open"), Fresh(0, "public"), Fresh(place + 1, "shown"), NoRow}
    BY DEF Standing, place
  <2>3. {"open", "public", "shown"} \subseteq Values
    BY DEF Values, Visibilities
  <2> QED
    BY <2>1, <2>2, <2>3, FreshForms, FreshFields
<1>3. Fresh(0, NoRow) \in TableRow
  BY DEF Fresh, TableRow
<1>4. rows \in [Ids -> TableRow \cup {NoRow}]
  BY <1>1, <1>2, <1>3
<1>5. \A i \in Items : rows[<<"profile", i>>] # NoRow
  BY <1>1, <1>3, NoRowIsNoRow DEF Ids, Tables
<1>6. \A kind \in {"todo", "page", "event"}, i \in Items :
        rows[<<kind, i>>] # NoRow => rows[<<kind, i>>].value # "revoked"
  BY <1>1, <1>2 DEF Ids, Tables
<1>7. told \in [Journaled -> Notes]
  <2>1. Journaled \subseteq Ids
    BY DEF Journaled, Ids, Tables
  <2>2. \A id \in Journaled : rows[id] # NoRow => rows[id].value \in Values \cup {NoRow}
    BY <1>4, <2>1 DEF TableRow
  <2>3. \A id \in Journaled : told[id] = IF rows[id] # NoRow
                                THEN [Untold EXCEPT !.created = 1, !.says = rows[id].value] ELSE Untold
    BY <1>1
  <2>4. \A id \in Journaled : told[id] \in Notes
    <3> SUFFICES ASSUME NEW id \in Journaled PROVE told[id] \in Notes
      OBVIOUS
    <3> DEFINE v == rows[id].value
    <3>1. rows[id] # NoRow => v \in Values \cup {NoRow} /\ told[id] = [Untold EXCEPT !.created = 1, !.says = v]
      BY <2>2, <2>3
    <3>2. rows[id] = NoRow => told[id] = Untold
      BY <2>3
    <3>3. Untold \in Notes
      BY DEF Untold, Notes
    <3> HIDE DEF v
    <3>4. CASE rows[id] # NoRow
      <4>1. v \in Values \cup FactsTold \cup {NoRow}
        BY <3>1, <3>4
      <4>2. [Untold EXCEPT !.created = 1, !.says = v] \in Notes
        BY <3>3, <4>1, NotesFields
      <4> QED
        BY <3>1, <3>4, <4>2
    <3> QED
      BY <3>2, <3>3, <3>4
  <2> QED
    BY <1>1, <2>4
<1>8. 0 \in 0..MaxDay
  BY NoRowIsNoRow
<1>9. today \in 0..MaxDay /\ writes \in Nat /\ request \in [Requests -> RequestState \cup {NoRow}]
      /\ CountInv /\ \A r \in Requests : request[r] = NoRow
  BY <1>8 DEF ContentInit, CountInv
<1> QED
  BY <1>4, <1>5, <1>6, <1>7, <1>9 DEF RowsInv

LEMMA StepCounted == RowsInv /\ [ContentNext]_contentVars => CountInv'
<1> SUFFICES ASSUME RowsInv, [ContentNext]_contentVars PROVE CountInv'
  OBVIOUS
<1>1. \/ counted' = counted
      \/ \E r \in Requests : counted' = [counted EXCEPT ![r] = NoRow]
      \/ \E r \in Requests : counted' = [counted EXCEPT ![r] = Cardinality(Existing(List("todo")))] /\ RoomForTask
  BY StepForms DEF Opening, Starts, Write, Fail, NextDay, Idles
<1>2. Cardinality(Existing(List("todo"))) \in Nat
  BY FS_Subset, FS_CardinalityType, ContentAssumption DEF Existing
<1> QED
  BY <1>1, <1>2 DEF RowsInv, CountInv, RoomForTask

LEMMA StepRowsTyped == RowsInv /\ [ContentNext]_contentVars => RowsInv'
<1> SUFFICES ASSUME RowsInv, [ContentNext]_contentVars PROVE RowsInv'
  OBVIOUS
<1>0. CountInv'
  BY StepCounted
<1>1. CASE Opening
  <2>1. PICK r \in Requests, q \in RequestState : Starts(r, q) /\ Formed(q)
    BY <1>1, OpeningIs
  <2>2. request' \in [Requests -> RequestState \cup {NoRow}]
        /\ \A s \in Requests : request'[s] = IF s = r THEN q ELSE request[s]
    BY <2>1 DEF Starts, RowsInv
  <2>3. \A s \in Requests : request'[s] # NoRow => Formed(request'[s])
    BY <2>1, <2>2 DEF RowsInv
  <2> QED
    BY <1>0, <2>1, <2>2, <2>3 DEF RowsInv, Starts
<1>2. ASSUME NEW r \in Requests, Write(r) PROVE RowsInv'
  <2> DEFINE q == request[r]
  <2>1. q \in RequestState /\ Formed(q) /\ rows' = [id \in Ids |-> Leave(q, id)]
        /\ told' = (IF q.fact = NoRow THEN told ELSE [told EXCEPT ![<<q.kind, q.item>>] = Tell(q, @)])
        /\ writes' = (IF Changed(q) = {} THEN writes ELSE writes + 1)
        /\ request' = [request EXCEPT ![r] = NoRow] /\ today' = today
    BY <1>2 DEF Write, RowsInv
  <2> HIDE DEF q
  <2>2. \A kind \in Tables, i \in Items : rows'[<<kind, i>>] = Leave(q, <<kind, i>>)
    BY <2>1 DEF Ids
  <2>3. \A id \in Ids : rows'[id] \in TableRow \cup {NoRow}
    BY <2>1, <2>2, LeaveCases DEF Ids
  <2>4. rows' \in [Ids -> TableRow \cup {NoRow}]
    BY <2>1, <2>3
  <2>5. told' \in [Journaled -> Notes]
    <3>1. \A id \in Journaled : q.fact # NoRow => Tell(q, told[id]) \in Notes
      BY <2>1, TellIsTyped DEF RowsInv
    <3> QED
      BY <2>1, <3>1 DEF RowsInv
  <2>6. ASSUME NEW i \in Items PROVE rows'[<<"profile", i>>] # NoRow
    <3>1. "profile" \in Tables /\ "profile" # "nav"
      BY DEF Tables
    <3>2. q.kind = "profile" => q.plan[i] # NoRow
      BY <2>1 DEF Formed
    <3>3. rows[<<"profile", i>>] # NoRow
      BY DEF RowsInv
    <3> QED
      BY <2>1, <2>2, <3>1, <3>2, <3>3, LeaveCases
  <2>7. ASSUME NEW kind \in {"todo", "page", "event"}, NEW i \in Items, rows'[<<kind, i>>] # NoRow
        PROVE  rows'[<<kind, i>>].value # "revoked"
    <3>1. kind \in Tables /\ kind # "nav" /\ kind \in ToldTables /\ kind # "key"
      BY DEF Tables, ToldTables
    <3>2. q.kind = kind => (q.plan[i] # NoRow => q.plan[i].value # "revoked")
      BY <2>1, <3>1 DEF Formed
    <3>3. rows[<<kind, i>>] # NoRow => rows[<<kind, i>>].value # "revoked"
      BY DEF RowsInv
    <3> QED
      BY <2>1, <2>2, <2>7, <3>1, <3>2, <3>3, LeaveCases
  <2>8. /\ request' \in [Requests -> RequestState \cup {NoRow}] /\ writes' \in Nat
        /\ \A s \in Requests : request'[s] # NoRow => Formed(request'[s])
    BY <2>1 DEF RowsInv
  <2>9. today' \in 0..MaxDay
    BY <2>1 DEF RowsInv
  <2> QED
    BY <1>0, <2>4, <2>5, <2>6, <2>7, <2>8, <2>9 DEF RowsInv
<1>3. ASSUME NEW r \in Requests, Fail(r) PROVE RowsInv'
  <2>1. /\ request' \in [Requests -> RequestState \cup {NoRow}]
        /\ \A s \in Requests : request'[s] # NoRow => Formed(request'[s])
    BY <1>3 DEF RowsInv, Fail
  <2> QED
    BY <1>0, <1>3, <2>1 DEF RowsInv, Fail
<1>4. CASE NextDay
  <2>1. today' \in 0..MaxDay
    BY <1>4, NoRowIsNoRow DEF RowsInv, NextDay
  <2> QED
    BY <1>0, <1>4, <2>1 DEF RowsInv, NextDay
<1>5. CASE Idles
  BY <1>0, <1>5 DEF RowsInv, Idles
<1> QED
  BY <1>1, <1>2, <1>3, <1>4, <1>5, StepForms
-----------------------------------------------------------------------------
VInv ==
  /\ \A kind \in Tables, i \in Items : rows[<<kind, i>>] # NoRow => rows[<<kind, i>>].version <= writes
  /\ \A r \in Requests, i \in Items : request[r] # NoRow /\ request[r].seen[i] # NoRow =>
       /\ request[r].seen[i].version <= writes
       /\ rows[<<request[r].kind, i>>] # NoRow
          /\ rows[<<request[r].kind, i>>].version = request[r].seen[i].version =>
          rows[<<request[r].kind, i>>] = request[r].seen[i]

LEMMA WriteLeaves ==
  ASSUME RowsInv, NEW r \in Requests, Write(r), NEW kind \in Tables, NEW i \in Items
  PROVE  /\ rows'[<<kind, i>>] = Leave(request[r], <<kind, i>>)
         /\ \/ rows'[<<kind, i>>] = rows[<<kind, i>>]
            \/ rows'[<<kind, i>>] = NoRow
            \/ rows'[<<kind, i>>].version = writes + 1 /\ writes' = writes + 1
         /\ writes' \in {writes, writes + 1}
<1> DEFINE q == request[r]
<1>1. q \in RequestState /\ rows' = [id \in Ids |-> Leave(q, id)]
      /\ writes' = (IF Changed(q) = {} THEN writes ELSE writes + 1)
  BY DEF Write, RowsInv
<1> HIDE DEF q
<1>2. rows'[<<kind, i>>] = Leave(q, <<kind, i>>)
  BY <1>1 DEF Ids
<1>3. q.seen[i] = NoRow /\ q.plan[i] # NoRow => i \in Changed(q)
  BY DEF Changed
<1>4. i \in Changed(q) => writes' = writes + 1
  BY <1>1
<1> QED
  BY <1>1, <1>2, <1>3, <1>4, LeaveCases DEF q

LEMMA StepVersions == RowsInv /\ VInv /\ [ContentNext]_contentVars => VInv'
<1> SUFFICES ASSUME RowsInv, VInv, [ContentNext]_contentVars PROVE VInv'
  OBVIOUS
<1>0. writes \in Nat
  BY DEF RowsInv
<1>1. CASE Opening
  <2>1. PICK r \in Requests, q \in RequestState : Starts(r, q)
    BY <1>1 DEF Opening
  <2>2. \A s \in Requests : request'[s] = IF s = r THEN q ELSE request[s]
    BY <2>1 DEF Starts, RowsInv
  <2>3. \A i \in Items : q.seen[i] = rows[<<q.kind, i>>]
    BY <2>1 DEF Starts, List
  <2>4. q.kind \in Tables
    BY DEF RequestState
  <2>5. rows' = rows /\ writes' = writes
    BY <2>1 DEF Starts
  <2> QED
    BY <2>2, <2>3, <2>4, <2>5 DEF VInv
<1>2. ASSUME NEW r \in Requests, Write(r) PROVE VInv'
  <2>1. \A s \in Requests : request'[s] = IF s = r THEN NoRow ELSE request[s]
    BY <1>2 DEF Write, RowsInv
  <2>2. writes' \in {writes, writes + 1}
    BY <1>2 DEF Write
  <2>3. ASSUME NEW kind \in Tables, NEW i \in Items, rows'[<<kind, i>>] # NoRow
        PROVE  rows'[<<kind, i>>].version <= writes'
    BY <1>0, <1>2, <2>2, <2>3, WriteLeaves, RowIsTyped DEF VInv, TableRow
  <2>4. ASSUME NEW s \in Requests, NEW i \in Items, request'[s] # NoRow, request'[s].seen[i] # NoRow
        PROVE  /\ request'[s].seen[i].version <= writes'
               /\ rows'[<<request'[s].kind, i>>] # NoRow
                  /\ rows'[<<request'[s].kind, i>>].version = request'[s].seen[i].version =>
                  rows'[<<request'[s].kind, i>>] = request'[s].seen[i]
    <3>1. s # r /\ request'[s] = request[s] /\ request[s] \in RequestState
      BY <2>1, <2>4 DEF RowsInv
    <3>2. request[s].kind \in Tables /\ request[s].seen[i] \in TableRow
      BY <2>4, <3>1 DEF RequestState
    <3>3. request[s].seen[i].version \in Nat /\ request[s].seen[i].version <= writes
      BY <2>4, <3>1, <3>2 DEF VInv, TableRow
    <3> QED
      BY <1>0, <1>2, <2>2, <2>4, <3>1, <3>2, <3>3, WriteLeaves DEF VInv
  <2> QED
    BY <2>3, <2>4 DEF VInv
<1>3. ASSUME NEW r \in Requests, Fail(r) PROVE VInv'
  <2>1. \A s \in Requests : request'[s] = IF s = r THEN NoRow ELSE request[s]
    BY <1>3 DEF Fail, RowsInv
  <2>2. rows' = rows /\ writes' = writes
    BY <1>3 DEF Fail
  <2> QED
    BY <2>1, <2>2 DEF VInv
<1>4. CASE NextDay
  BY <1>4 DEF VInv, NextDay
<1>5. CASE Idles
  BY <1>5 DEF VInv, Idles
<1> QED
  BY <1>1, <1>2, <1>3, <1>4, <1>5, StepForms

-----------------------------------------------------------------------------
Over(id) == rows[id] = NoRow \/ rows[id].value = "revoked"

\* A request in flight that would make the row of an item.
Makes(q, i) == q.seen[i] = NoRow /\ q.plan[i] # NoRow

NotedOnce(id) ==
  /\ told[id].created \in {0, 1} /\ told[id].ended \in {0, 1}
  /\ ~ Over(id) => told[id].ended = 0
  /\ told[id].created = 1 /\ Over(id) => told[id].ended = 1
  /\ ~ Over(id) => told[id].says = NoRow \/ told[id].echo \/ told[id].says = rows[id].value
  /\ rows[id] = NoRow /\ told[id].created = 0 /\ told[id].ended = 0 => told[id].says = NoRow

KInv ==
  /\ \A kind \in ToldTables, i \in Items : NotedOnce(<<kind, i>>)
  /\ \A r \in Requests, i \in Items : request[r] # NoRow /\ request[r].kind \in ToldTables =>
       LET id == <<request[r].kind, i>>
       IN /\ request[r].seen[i] # NoRow => rows[id] # NoRow \/ told[id].ended = 1
          /\ Makes(request[r], i) => rows[id] = NoRow /\ told[id].created = 0 /\ told[id].ended = 0
  /\ \A r, s \in Requests, i \in Items :
       r # s /\ request[r] # NoRow /\ request[s] # NoRow /\ request[r].kind = request[s].kind
       /\ request[r].kind \in ToldTables /\ Makes(request[r], i) => ~ Makes(request[s], i)

LEMMA MakesItsItem ==
  ASSUME NEW q, Formed(q), q.kind \in ToldTables, NEW i \in Items, Makes(q, i)
  PROVE  i = q.item
BY DEF Formed, Kept, Makes

LEMMA MakesNew ==
  ASSUME RowsInv, NEW q \in RequestState, q.seen = List(q.kind), Plain(q), q.kind \in ToldTables,
         NEW i \in Items, Makes(q, i)
  PROVE  New(q.kind, i)
<1>0. q.item = i /\ q.kind \in Tables /\ q.above \in Items \cup {NoRow} /\ q.seen \in [Items -> TableRow \cup {NoRow}]
      /\ q.seen[i] = NoRow /\ q.plan[i] # NoRow
  BY PlainFormed, MakesItsItem DEF RequestState, Makes
<1>1. Old(q) = NoRow
  BY <1>0 DEF Old, List
<1>2. ~ Rearranges(q)
  BY <1>0, ReorderedKeeps DEF Rearranges
<1>3. ~ Edits(q)
  BY <1>1 DEF Edits
<1>4. CASE Creates(q)
  BY <1>0, <1>4 DEF Creates, Created, ToldTables, Unused
<1>5. CASE Prepends(q) \/ SeedsPage(q)
  BY <1>0, <1>5 DEF Prepends, SeedsPage
<1>6. ~ AddsPlace(q) /\ ~ Reviews(q)
  BY DEF AddsPlace, Reviews, ToldTables
<1> QED
  BY <1>2, <1>3, <1>4, <1>5, <1>6 DEF Plain

\* What a commit finds and leaves of a row that the journal tells of.
LEMMA CommitFinds ==
  ASSUME RowsInv, VInv, NEW r \in Requests, Write(r), NEW q, q = request[r], NEW i \in Items,
         q.kind \in ToldTables, i \in Changed(q)
  PROVE  /\ q.seen[i] # NoRow => rows[<<q.kind, i>>] = q.seen[i]
         /\ q.plan[i] = NoRow => rows'[<<q.kind, i>>] = NoRow
         /\ q.plan[i] # NoRow => rows'[<<q.kind, i>>] # NoRow /\ rows'[<<q.kind, i>>].value = q.plan[i].value
<1>1. q \in RequestState /\ q # NoRow /\ Allowed(q)
  BY DEF Write, RowsInv
<1>2. q.kind \in Tables
  BY <1>1 DEF RequestState
<1>3. q.seen[i] # NoRow => Unstale(q, i)
  BY <1>1 DEF Allowed
<1>4. q.seen[i] # NoRow => rows[<<q.kind, i>>] = q.seen[i]
  BY <1>1, <1>3 DEF Unstale, VInv
<1> QED
  BY <1>1, <1>2, <1>4, LeaveCases, WriteLeaves

LEMMA CommitKeeps ==
  ASSUME RowsInv, NEW r \in Requests, Write(r), NEW q, q = request[r], NEW kind \in ToldTables, NEW i \in Items,
         kind # q.kind \/ i \notin Changed(q)
  PROVE  rows'[<<kind, i>>] = rows[<<kind, i>>]
<1>1. q \in RequestState /\ kind \in Tables /\ kind # "nav"
  BY DEF Write, RowsInv, ToldTables, Tables
<1> QED
  BY <1>1, LeaveCases, WriteLeaves

LEMMA CommitNotes ==
  ASSUME RowsInv, VInv, KInv, NEW r \in Requests, Write(r), NEW kind \in ToldTables, NEW i \in Items
  PROVE  NotedOnce(<<kind, i>>)'
<1> DEFINE q == request[r]  id == <<kind, i>>  t == told[id]
<1>1. /\ q \in RequestState /\ q # NoRow /\ Formed(q)
      /\ told' = (IF q.fact = NoRow THEN told ELSE [told EXCEPT ![<<q.kind, q.item>>] = Tell(q, @)])
  BY DEF Write, RowsInv
<1>2. NotedOnce(id)
  BY DEF KInv
<1>3. id \in Journaled /\ t \in Notes /\ q.item \in Items
  BY <1>1 DEF Journaled, ToldTables, RowsInv, RequestState
<1>4. CASE q.kind # kind
  <2>1. rows'[id] = rows[id]
    BY <1>4, CommitKeeps
  <2>2. told'[id] = told[id]
    BY <1>1, <1>3, <1>4 DEF RowsInv
  <2> QED
    BY <1>2, <2>1, <2>2 DEF NotedOnce, Over
<1>5. ASSUME q.kind = kind PROVE NotedOnce(id)'
  <2>1. CASE q.fact = NoRow
    <3>1. told'[id] = told[id]
      BY <1>1, <2>1
    <3>2. CASE i \notin Changed(q)
      <4>1. rows'[id] = rows[id]
        BY <3>2, CommitKeeps
      <4> QED
        BY <1>2, <3>1, <4>1 DEF NotedOnce, Over
    <3>3. CASE i \in Changed(q) /\ Makes(q, i)
      <4>1. rows[id] = NoRow /\ t.created = 0 /\ t.ended = 0
        BY <1>1, <1>5, <3>3 DEF KInv
      <4>2. rows'[id] # NoRow /\ rows'[id].value = q.plan[i].value
        BY <1>5, <3>3, CommitFinds DEF Makes
      <4>3. q.plan[i].value # "revoked"
        BY <1>1, <1>5, <3>3 DEF Formed, Makes
      <4> QED
        BY <1>2, <3>1, <4>1, <4>2, <4>3 DEF NotedOnce, Over
    <3>4. CASE i \in Changed(q) /\ ~ Makes(q, i)
      <4>1. Kept(q, i)
        BY <1>1, <1>5, <2>1, <3>4 DEF Formed, Makes
      <4>2. q.seen[i] # NoRow /\ q.plan[i] # NoRow /\ q.plan[i].value = q.seen[i].value
        BY <3>4, <4>1 DEF Kept, Changed
      <4>3. rows[id] = q.seen[i] /\ rows'[id] # NoRow /\ rows'[id].value = rows[id].value
        BY <1>5, <3>4, <4>2, CommitFinds
      <4> QED
        BY <1>2, <3>1, <4>2, <4>3 DEF NotedOnce, Over
    <3> QED
      BY <3>2, <3>3, <3>4
  <2>2. CASE q.fact # NoRow /\ i # q.item
    <3>1. told'[id] = told[id]
      BY <1>1, <1>3, <2>2 DEF RowsInv
    <3>2. Kept(q, i)
      BY <1>1, <1>5, <2>2 DEF Formed
    <3>3. CASE i \notin Changed(q)
      <4>1. rows'[id] = rows[id]
        BY <3>3, CommitKeeps
      <4> QED
        BY <1>2, <3>1, <4>1 DEF NotedOnce, Over
    <3>4. CASE i \in Changed(q)
      <4>2. q.seen[i] # NoRow /\ q.plan[i] # NoRow /\ q.plan[i].value = q.seen[i].value
        BY <3>4, <3>2 DEF Kept, Changed
      <4>3. rows[id] = q.seen[i] /\ rows'[id] # NoRow /\ rows'[id].value = rows[id].value
        BY <1>5, <3>4, <4>2, CommitFinds
      <4> QED
        BY <1>2, <3>1, <4>2, <4>3 DEF NotedOnce, Over
    <3> QED
      BY <3>3, <3>4
  <2>3. CASE q.fact # NoRow /\ i = q.item
    <3>1. told'[id] = Tell(q, t)
      BY <1>1, <1>3, <1>5, <2>3 DEF RowsInv
    <3>2. CASE q.fact = "created"
      <4>1. Makes(q, i) /\ i \in Changed(q)
        BY <1>1, <2>3, <3>2 DEF Formed, Makes, Changed
      <4>2. rows[id] = NoRow /\ t.created = 0 /\ t.ended = 0
        BY <1>1, <1>5, <4>1 DEF KInv
      <4>3. rows'[id] # NoRow /\ rows'[id].value = q.plan[i].value
        BY <1>5, <4>1, CommitFinds DEF Makes
      <4>4. q.plan[i].value # "revoked"
        BY <1>1, <1>5, <4>1 DEF Formed, Makes
      <4>5. told'[id].created = 1 /\ told'[id].ended = 0 /\ told'[id].says = q.plan[i].value
        <5> DEFINE v == q.plan[i].value
        <5>1. told'[id] = [t EXCEPT !.created = @ + 1, !.says = v]
          BY <2>3, <3>1, <3>2 DEF Tell
        <5> HIDE DEF v
        <5>2. told'[id].created = t.created + 1 /\ told'[id].ended = t.ended /\ told'[id].says = v
          BY <1>3, <5>1 DEF Notes
        <5> QED
          BY <4>2, <5>2 DEF v
      <4> QED
        BY <4>3, <4>4, <4>5 DEF NotedOnce, Over
    <3>3. CASE q.fact = "ended"
      <4>1. /\ q.seen[i] # NoRow
            /\ \/ kind # "key" /\ q.plan[i] = NoRow
               \/ kind = "key" /\ q.plan[i] # NoRow /\ q.plan[i].value = "revoked" /\ q.seen[i].value = "live"
        BY <1>1, <1>5, <2>3, <3>3 DEF Formed
      <4>2. i \in Changed(q)
        BY <4>1 DEF Changed
      <4>3. rows[id] = q.seen[i]
        BY <1>5, <4>1, <4>2, CommitFinds
      <4>4. ~ Over(id)
        BY <4>1, <4>3 DEF Over, RowsInv, ToldTables
      <4>5. rows'[id] = NoRow \/ rows'[id].value = "revoked"
        BY <1>5, <4>1, <4>2, CommitFinds
      <4>6. told'[id].created = t.created /\ told'[id].ended = 1
        BY <1>2, <1>3, <3>1, <3>3, <4>4 DEF Tell, Notes, NotedOnce
      <4> QED
        BY <1>2, <4>5, <4>6 DEF NotedOnce, Over
    <3>4. CASE q.fact \notin {"created", "ended"}
      <4>1. told'[id] = [t EXCEPT !.says = q.fact, !.echo = Changed(q) = {}]
        BY <3>1, <3>4 DEF Tell
      <4>2. told'[id].created = t.created /\ told'[id].ended = t.ended /\ told'[id].says = q.fact
            /\ told'[id].echo = (Changed(q) = {})
        BY <1>3, <4>1 DEF Notes
      <4>3. q.seen[i] # NoRow /\ q.plan[i] # NoRow /\ q.plan[i].value = q.fact /\ kind # "key"
        BY <1>1, <1>5, <2>3, <3>4 DEF Formed
      <4>4. \A j \in Items \ {i} : q.plan[j] = q.seen[j]
        BY <1>1, <2>3, <3>4 DEF Formed
      <4>5. rows[id] # NoRow \/ t.ended = 1
        BY <1>1, <1>5, <4>3 DEF KInv
      <4>6. CASE i \in Changed(q)
        <5>1. rows[id] = q.seen[i] /\ rows'[id] # NoRow /\ rows'[id].value = q.fact
          BY <1>5, <4>3, <4>6, CommitFinds
        <5>2. ~ Over(id)
          BY <4>3, <5>1 DEF Over, RowsInv, ToldTables
        <5>3. q.fact # "revoked"
          BY <1>1, <1>5, <4>3 DEF Formed
        <5> QED
          BY <1>2, <4>2, <5>1, <5>2, <5>3 DEF NotedOnce, Over
      <4>7. CASE i \notin Changed(q)
        <5>1. Changed(q) = {}
          BY <4>4, <4>7 DEF Changed
        <5>2. rows'[id] = rows[id]
          BY <4>7, CommitKeeps
        <5>3. told'[id].echo
          BY <4>2, <5>1
        <5> QED
          BY <1>2, <4>2, <4>5, <5>2, <5>3 DEF NotedOnce, Over
      <4> QED
        BY <4>6, <4>7
    <3> QED
      BY <3>2, <3>3, <3>4
  <2> QED
    BY <2>1, <2>2, <2>3
<1> QED
  BY <1>4, <1>5
LEMMA StepNotes == RowsInv /\ VInv /\ KInv /\ [ContentNext]_contentVars => KInv'
<1> SUFFICES ASSUME RowsInv, VInv, KInv, [ContentNext]_contentVars PROVE KInv'
  OBVIOUS
<1>1. CASE Opening
  <2>1. PICK r \in Requests, q \in RequestState :
          /\ Starts(r, q) /\ Formed(q) /\ (Plain(q) \/ \E handle \in Handles : TakesName(q, handle))
    BY <1>1, OpeningIs
  <2>2. \A s \in Requests : request'[s] = IF s = r THEN q ELSE request[s]
    BY <2>1 DEF Starts, RowsInv
  <2>3. \A i \in Items : q.seen[i] = rows[<<q.kind, i>>]
    BY <2>1 DEF Starts, List
  <2>4. rows' = rows /\ told' = told /\ request[r] = NoRow
    BY <2>1 DEF Starts
  <2>5. ASSUME q.kind \in ToldTables, NEW i \in Items, Makes(q, i) PROVE New(q.kind, i)
    <3>1. Plain(q)
      BY <2>1, <2>5 DEF TakesName, ToldTables
    <3> QED
      BY <2>1, <2>5, <3>1, MakesNew DEF Starts
  <2>6. ASSUME NEW kind \in ToldTables, NEW i \in Items PROVE NotedOnce(<<kind, i>>)'
    BY <2>4 DEF KInv, NotedOnce, Over
  <2>7. ASSUME NEW s \in Requests, NEW i \in Items, request'[s] # NoRow, request'[s].kind \in ToldTables
        PROVE  LET id == <<request'[s].kind, i>>
               IN /\ request'[s].seen[i] # NoRow => rows'[id] # NoRow \/ told'[id].ended = 1
                  /\ Makes(request'[s], i) => rows'[id] = NoRow /\ told'[id].created = 0 /\ told'[id].ended = 0
    <3>1. CASE s = r
      BY <2>2, <2>3, <2>4, <2>5, <2>7, <3>1 DEF New
    <3>2. CASE s # r
      BY <2>2, <2>4, <2>7, <3>2 DEF KInv
    <3> QED
      BY <3>1, <3>2
  <2>8. ASSUME NEW s \in Requests, NEW u \in Requests, NEW i \in Items, s # u, request'[s] # NoRow, request'[u] # NoRow,
               request'[s].kind = request'[u].kind, request'[s].kind \in ToldTables,
               Makes(request'[s], i), Makes(request'[u], i)
        PROVE  FALSE
    <3>1. ASSUME NEW v \in Requests, v # r, request[v] # NoRow, request[v].kind = q.kind, q.kind \in ToldTables,
                 Makes(q, i), Makes(request[v], i)
          PROVE  FALSE
      <4>1. New(q.kind, i)
        BY <2>5, <3>1
      <4>2. request[v].item = i
        BY <3>1, MakesItsItem DEF RowsInv
      <4> QED
        BY <3>1, <4>1, <4>2 DEF New
    <3>2. CASE s = r
      BY <2>2, <2>8, <3>1, <3>2
    <3>3. CASE u = r
      BY <2>2, <2>8, <3>1, <3>3
    <3>4. CASE s # r /\ u # r
      BY <2>2, <2>8, <3>4 DEF KInv
    <3> QED
      BY <3>2, <3>3, <3>4
  <2> QED
    BY <2>6, <2>7, <2>8 DEF KInv
<1>2. ASSUME NEW r \in Requests, Write(r) PROVE KInv'
  <2> DEFINE q == request[r]
  <2>1. \A s \in Requests : request'[s] = IF s = r THEN NoRow ELSE request[s]
    BY <1>2 DEF Write, RowsInv
  <2>2. q \in RequestState /\ Formed(q) /\ q # NoRow
        /\ told' = (IF q.fact = NoRow THEN told ELSE [told EXCEPT ![<<q.kind, q.item>>] = Tell(q, @)])
    BY <1>2 DEF Write, RowsInv
  <2>3. ASSUME NEW s \in Requests, NEW i \in Items, request'[s] # NoRow, request'[s].kind \in ToldTables
        PROVE  LET id == <<request'[s].kind, i>>
               IN /\ request'[s].seen[i] # NoRow => rows'[id] # NoRow \/ told'[id].ended = 1
                  /\ Makes(request'[s], i) => rows'[id] = NoRow /\ told'[id].created = 0 /\ told'[id].ended = 0
    <3> DEFINE kind == request[s].kind  id == <<kind, i>>
    <3>1. s # r /\ request'[s] = request[s] /\ request[s] # NoRow /\ kind \in ToldTables
      BY <2>1, <2>3
    <3>2. id \in Journaled /\ q.item \in Items
      BY <2>2, <3>1 DEF Journaled, ToldTables, RequestState
    <3>3. NotedOnce(id)' /\ NotedOnce(id)
      BY <1>2, <3>1, CommitNotes DEF KInv
    <3>4. /\ request[s].seen[i] # NoRow => rows[id] # NoRow \/ told[id].ended = 1
          /\ Makes(request[s], i) => rows[id] = NoRow /\ told[id].created = 0 /\ told[id].ended = 0
      BY <3>1 DEF KInv
    <3>5. told[id] \in Notes /\ told'[id] = IF q.fact # NoRow /\ kind = q.kind /\ i = q.item THEN Tell(q, told[id]) ELSE told[id]
      BY <2>2, <3>2 DEF RowsInv
    <3>6. told'[id].ended = told[id].ended \/ (q.fact = "ended" /\ kind = q.kind /\ i = q.item)
      <4>1. CASE q.fact \in {"created", "ended", NoRow}
        <5> DEFINE v == q.plan[q.item].value
        <5>1. q.fact = "created" => Tell(q, told[id]) = [told[id] EXCEPT !.created = @ + 1, !.says = v]
          BY DEF Tell
        <5> HIDE DEF v
        <5>2. q.fact = "created" => Tell(q, told[id]).ended = told[id].ended
          BY <3>5, <5>1 DEF Notes
        <5> QED
          BY <3>5, <4>1, <5>2
      <4>2. CASE q.fact \notin {"created", "ended", NoRow}
        <5> DEFINE none == Changed(q) = {}
        <5>1. Tell(q, told[id]) = [told[id] EXCEPT !.says = q.fact, !.echo = none]
          BY <4>2 DEF Tell
        <5> HIDE DEF none
        <5>2. Tell(q, told[id]).ended = told[id].ended
          BY <3>5, <5>1 DEF Notes
        <5> QED
          BY <3>5, <5>2
      <4> QED
        BY <4>1, <4>2
    <3>7. told[id].ended = 1 => told'[id].ended = 1
      <4>1. CASE q.fact = "ended" /\ kind = q.kind /\ i = q.item
        <5>1. q.seen[i] # NoRow /\ i \in Changed(q)
          BY <2>2, <4>1 DEF Formed, Changed
        <5>2. rows[id] = q.seen[i]
          BY <1>2, <3>1, <4>1, <5>1, CommitFinds
        <5>3. ~ Over(id)
          <6>1. q.kind = "key" => q.seen[i].value = "live"
            BY <2>2, <4>1 DEF Formed
          <6> QED
            BY <3>1, <4>1, <5>1, <5>2, <6>1 DEF Over, RowsInv, ToldTables
        <5> QED
          BY <3>3, <5>3 DEF NotedOnce
      <4> QED
        BY <3>6, <4>1
    <3>8. rows[id] # NoRow => rows'[id] # NoRow \/ told'[id].ended = 1
      <4>1. SUFFICES ASSUME rows[id] # NoRow, rows'[id] = NoRow PROVE told'[id].ended = 1
        OBVIOUS
      <4>2. kind = q.kind /\ i \in Changed(q)
        BY <1>2, <3>1, <4>1, CommitKeeps
      <4>3. q.plan[i] = NoRow /\ q.seen[i] # NoRow
        BY <1>2, <3>1, <4>1, <4>2, CommitFinds DEF Changed
      <4>4. ~ Kept(q, i)
        BY <4>3 DEF Kept
      <4>5. i = q.item /\ q.fact = "ended"
        BY <2>2, <3>1, <4>2, <4>3, <4>4 DEF Formed
      <4>6. rows[id] = q.seen[i]
        BY <1>2, <3>1, <4>2, <4>3, CommitFinds
      <4>7. ~ Over(id)
        <5>1. q.kind # "key"
          BY <2>2, <4>3, <4>5 DEF Formed
        <5> QED
          BY <3>1, <4>1, <4>2, <5>1 DEF Over, RowsInv, ToldTables
      <4>8. told[id].ended = 0
        BY <3>3, <4>7 DEF NotedOnce
      <4>9. told'[id] = [told[id] EXCEPT !.ended = @ + 1]
        BY <3>5, <4>2, <4>5, NoRowIsNoRow DEF Tell
      <4> QED
        BY <3>5, <4>8, <4>9 DEF Notes
    <3>9. ASSUME Makes(request[s], i)
          PROVE  rows'[id] = NoRow /\ told'[id].created = 0 /\ told'[id].ended = 0
      <4>1. rows[id] = NoRow /\ told[id].created = 0 /\ told[id].ended = 0
        BY <3>4, <3>9
      <4>2. CASE kind = q.kind /\ i \in Changed(q)
        <5>1. q.seen[i] = NoRow
          BY <1>2, <3>1, <4>1, <4>2, CommitFinds
        <5>2. Makes(q, i)
          BY <4>2, <5>1 DEF Makes, Changed
        <5> QED
          BY <2>2, <3>1, <3>9, <4>2, <5>2 DEF KInv
      <4>3. CASE ~ (kind = q.kind /\ i \in Changed(q))
        <5>1. rows'[id] = NoRow
          BY <1>2, <3>1, <4>1, <4>3, CommitKeeps
        <5>2. CASE q.fact \in {"created", "ended"} /\ kind = q.kind /\ i = q.item
          <6>1. i \in Changed(q)
            BY <2>2, <5>2 DEF Formed, Changed
          <6> QED
            BY <4>3, <5>2, <6>1
        <5>3. CASE ~ (q.fact # NoRow /\ kind = q.kind /\ i = q.item)
          BY <3>5, <4>1, <5>1, <5>3
        <5>4. CASE q.fact \notin {"created", "ended", NoRow} /\ kind = q.kind /\ i = q.item
          <6> DEFINE none == Changed(q) = {}
          <6>1. told'[id] = [told[id] EXCEPT !.says = q.fact, !.echo = none]
            BY <3>5, <5>4 DEF Tell
          <6> HIDE DEF none
          <6> QED
            BY <3>5, <4>1, <5>1, <6>1 DEF Notes
        <5> QED
          BY <5>2, <5>3, <5>4
      <4> QED
        BY <4>2, <4>3
    <3> QED
      BY <3>1, <3>4, <3>7, <3>8, <3>9
  <2>4. ASSUME NEW s \in Requests, NEW u \in Requests, NEW i \in Items, s # u, request'[s] # NoRow, request'[u] # NoRow,
               request'[s].kind = request'[u].kind, request'[s].kind \in ToldTables,
               Makes(request'[s], i), Makes(request'[u], i)
        PROVE  FALSE
    BY <2>1, <2>4 DEF KInv
  <2>5. ASSUME NEW kind \in ToldTables, NEW i \in Items PROVE NotedOnce(<<kind, i>>)'
    BY <1>2, CommitNotes
  <2> QED
    BY <2>3, <2>4, <2>5 DEF KInv
<1>3. ASSUME NEW r \in Requests, Fail(r) PROVE KInv'
  <2>1. \A s \in Requests : request'[s] = IF s = r THEN NoRow ELSE request[s]
    BY <1>3 DEF Fail, RowsInv
  <2>2. rows' = rows /\ told' = told
    BY <1>3 DEF Fail
  <2> QED
    BY <2>1, <2>2 DEF KInv, NotedOnce, Over
<1>4. CASE NextDay
  BY <1>4 DEF KInv, NextDay, NotedOnce, Over
<1>5. CASE Idles
  BY <1>5 DEF KInv, Idles, NotedOnce, Over
<1> QED
  BY <1>1, <1>2, <1>3, <1>4, <1>5, StepForms

LEMMA InitNotes == ContentInit => VInv /\ KInv
<1> SUFFICES ASSUME ContentInit PROVE VInv /\ KInv
  OBVIOUS
<1>1. PICK standing \in {{}, {Seeded}, Items} :
       /\ rows = [id \in Ids |-> IF id[1] = "profile" THEN Fresh(0, NoRow)
                                ELSE IF id[2] \in standing /\ id[1] \in scope THEN Standing(id, standing) ELSE NoRow]
       /\ told = [id \in Journaled |-> IF rows[id] # NoRow
                                THEN [Untold EXCEPT !.created = 1, !.says = rows[id].value] ELSE Untold]
  BY DEF ContentInit
<1>2. writes = 0 /\ \A r \in Requests : request[r] = NoRow
  BY DEF ContentInit
<1>3. ASSUME NEW id \in Ids, rows[id] # NoRow
      PROVE  rows[id].version = 0 /\ (id[1] \in ToldTables => rows[id].value # "revoked")
  <2> DEFINE place == Cardinality({j \in standing : Rank[j] < Rank[id[2]]})
  <2> HIDE DEF place
  <2>1. Standing(id, standing) \in {Fresh(place, "open"), Fresh(0, "public"), Fresh(place + 1, "shown"), NoRow}
    BY DEF Standing, place
  <2>2. \/ rows[id] \in {Fresh(place, "open"), Fresh(0, "public"), Fresh(place + 1, "shown")}
        \/ rows[id] = Fresh(0, NoRow) /\ id[1] = "profile"
    BY <1>1, <1>3, <2>1
  <2> QED
    BY <2>2, FreshFields DEF ToldTables
<1>4. VInv
  BY <1>2, <1>3 DEF VInv, Ids
<1>5. ASSUME NEW kind \in ToldTables, NEW i \in Items PROVE NotedOnce(<<kind, i>>)
  <2> DEFINE id == <<kind, i>>  v == rows[id].value
  <2>1. id \in Journaled /\ id \in Ids /\ id[1] \in ToldTables
    BY DEF Journaled, ToldTables, Ids, Tables
  <2>2. CASE rows[id] = NoRow
    <3>1. told[id] = Untold
      BY <1>1, <2>1, <2>2
    <3> QED
      BY <2>2, <3>1 DEF Untold, NotedOnce, Over
  <2>3. CASE rows[id] # NoRow
    <3>1. told[id] = [Untold EXCEPT !.created = 1, !.says = v]
      BY <1>1, <2>1, <2>3
    <3>2. v # "revoked"
      BY <1>3, <2>1, <2>3
    <3>3. ~ Over(id)
      BY <2>3, <3>2 DEF Over
    <3> HIDE DEF v
    <3>4. told[id].created = 1 /\ told[id].ended = 0 /\ told[id].says = v
      BY <3>1 DEF Untold
    <3> QED
      BY <2>3, <3>3, <3>4 DEF NotedOnce, v
  <2> QED
    BY <2>2, <2>3
<1>6. \A kind \in ToldTables, i \in Items : NotedOnce(<<kind, i>>)
  BY <1>5
<1>7. KInv
  <2>1. ASSUME NEW r \in Requests, request[r] # NoRow PROVE FALSE
    BY <1>2, <2>1
  <2>2. \A r \in Requests, i \in Items : request[r] # NoRow /\ request[r].kind \in ToldTables =>
       LET id == <<request[r].kind, i>>
       IN /\ request[r].seen[i] # NoRow => rows[id] # NoRow \/ told[id].ended = 1
          /\ Makes(request[r], i) => rows[id] = NoRow /\ told[id].created = 0 /\ told[id].ended = 0
    BY <2>1
  <2>3. \A r, s \in Requests, i \in Items :
       r # s /\ request[r] # NoRow /\ request[s] # NoRow /\ request[r].kind = request[s].kind
       /\ request[r].kind \in ToldTables /\ Makes(request[r], i) => ~ Makes(request[s], i)
    BY <2>1
  <2> QED
    BY <1>6, <2>2, <2>3 DEF KInv
<1> QED
  BY <1>4, <1>7

\* What a visitor reads is a public page.
LEMMA VisitorsReadPublic ==
  ASSUME NEW i \in ReadAs(NoRow)
  PROVE  i \in Items /\ rows[<<"page", i>>] # NoRow /\ rows[<<"page", i>>].value = "public"
<1>1. i \in ListedPages(NoRow) \/ i \in ViewedPages(NoRow) \/ i \in NavPages(NoRow)
  BY DEF ReadAs
<1> QED
  BY <1>1 DEF ListedPages, ViewedPages, NavPages, NavItems, VisiblePages, Opens, Existing, List

\* The journal and the rows of every behaviour agree as JournalTellsRows has it.
THEOREM JournalAgrees == ContentSpec => []JournalTellsRows
<1>1. ContentInit => RowsInv /\ VInv /\ KInv
  BY InitTyped, InitNotes
<1>2. RowsInv /\ VInv /\ KInv /\ [ContentNext]_contentVars => (RowsInv /\ VInv /\ KInv)'
  BY StepRowsTyped, StepVersions, StepNotes
<1>3. RowsInv /\ KInv => JournalTellsRows
  <2> SUFFICES ASSUME RowsInv, KInv, NEW kind \in ToldTables, NEW i \in Items
               PROVE  LET id == <<kind, i>>
                          ended == rows[id] = NoRow \/ rows[id].value = "revoked"
                      IN /\ told[id].ended <= 1
                         /\ told[id].created = 1 => (told[id].ended = 1) = ended
                         /\ told[id].says = NoRow \/ told[id].echo \/ ended \/ told[id].says = rows[id].value
                         /\ id[1] = "page" /\ id[2] \in ReadAs(NoRow) =>
                              told[id].says \in {NoRow, "public"} \/ told[id].echo
    BY DEF JournalTellsRows, Journaled, ToldTables
  <2> DEFINE id == <<kind, i>>
  <2>1. NotedOnce(id)
    BY DEF KInv
  <2>2. told[id].ended <= 1
    BY <2>1 DEF NotedOnce
  <2>3. told[id].created = 1 => (told[id].ended = 1) = Over(id)
    BY <2>1 DEF NotedOnce, Over
  <2>4. told[id].says = NoRow \/ told[id].echo \/ Over(id) \/ told[id].says = rows[id].value
    BY <2>1 DEF NotedOnce
  <2>5. ASSUME kind = "page", i \in ReadAs(NoRow)
        PROVE  told[id].says \in {NoRow, "public"} \/ told[id].echo
    BY <2>1, <2>5, VisitorsReadPublic DEF NotedOnce, Over
  <2> QED
    BY <2>2, <2>3, <2>4, <2>5 DEF Over
<1> QED
  BY <1>1, <1>2, <1>3, PTL DEF ContentSpec
-----------------------------------------------------------------------------
InFlight == {r \in Requests : request[r] # NoRow}

\* A request writes once, and none begins when the writes are spent.
WInv == writes + Cardinality(InFlight) <= MaxWrites + Cardinality(Requests)

LEMMA InFlightCount ==
  /\ IsFiniteSet(InFlight) /\ Cardinality(InFlight) \in Nat
  /\ Cardinality(InFlight) <= Cardinality(Requests) /\ Cardinality(Requests) \in Nat
BY FS_Subset, FS_CardinalityType, ContentAssumption DEF InFlight

LEMMA StepCounts == RowsInv /\ WInv /\ [ContentNext]_contentVars => WInv'
<1> SUFFICES ASSUME RowsInv, WInv, [ContentNext]_contentVars PROVE WInv'
  OBVIOUS
<1>0. writes \in Nat /\ MaxWrites \in Nat
  BY NoRowIsNoRow DEF RowsInv
<1>1. CASE Opening
  <2>1. writes' = writes /\ writes < MaxWrites
    BY <1>1 DEF Opening, Starts
  <2>2. Cardinality(InFlight') <= Cardinality(Requests) /\ Cardinality(InFlight') \in Nat
    BY FS_Subset, FS_CardinalityType, ContentAssumption DEF InFlight
  <2> QED
    BY <1>0, <2>1, <2>2, InFlightCount DEF WInv
<1>2. ASSUME NEW r \in Requests, Write(r) \/ Fail(r) PROVE WInv'
  <2>1. InFlight' = InFlight \ {r} /\ r \in InFlight
    BY <1>2 DEF InFlight, Write, Fail, RowsInv
  <2>2. Cardinality(InFlight') = Cardinality(InFlight) - 1
    BY <2>1, InFlightCount, FS_RemoveElement
  <2>3. writes' \in {writes, writes + 1}
    BY <1>2 DEF Write, Fail
  <2> QED
    BY <1>0, <2>2, <2>3, InFlightCount DEF WInv
<1>3. CASE NextDay \/ Idles
  <2>1. InFlight' = InFlight /\ writes' = writes
    BY <1>3 DEF NextDay, Idles, InFlight
  <2> QED
    BY <2>1 DEF WInv
<1> QED
  BY <1>1, <1>2, <1>3, StepForms

\* Rows, plans and facts hold values of their kinds, and the writes stay within their bound.
THEOREM ContentTypeCorrect == ContentSpec => []ContentTypeOK
<1>1. ContentInit => RowsInv /\ VInv /\ KInv /\ WInv
  <2>1. ContentInit => WInv
    <3> SUFFICES ASSUME ContentInit PROVE WInv
      OBVIOUS
    <3>1. writes = 0
      BY DEF ContentInit
    <3> QED
      BY <3>1, InFlightCount, NoRowIsNoRow DEF WInv
  <2> QED
    BY <2>1, InitTyped, InitNotes
<1>2. RowsInv /\ VInv /\ KInv /\ WInv /\ [ContentNext]_contentVars => (RowsInv /\ VInv /\ KInv /\ WInv)'
  BY StepRowsTyped, StepVersions, StepNotes, StepCounts
<1>3. RowsInv /\ KInv /\ WInv => ContentTypeOK
  <2> SUFFICES ASSUME RowsInv, KInv, WInv PROVE ContentTypeOK
    OBVIOUS
  <2>1. writes \in Nat /\ writes <= MaxWrites + Cardinality(Requests)
    BY InFlightCount, NoRowIsNoRow DEF WInv, RowsInv
  <2>2. writes \in 0 .. MaxWrites + Cardinality(Requests)
    BY <2>1, InFlightCount, NoRowIsNoRow
  <2>3. \A id \in Journaled : told[id].created + told[id].ended \in 0..2
    <3> SUFFICES ASSUME NEW kind \in ToldTables, NEW i \in Items
                 PROVE  told[<<kind, i>>].created + told[<<kind, i>>].ended \in 0..2
      BY DEF Journaled, ToldTables
    <3> QED
      BY DEF KInv, NotedOnce
  <2>4. \A r \in Requests : request[r] # NoRow =>
       /\ request[r].kind \in Tables /\ request[r].item \in Items
       /\ request[r].seen \in [Items -> TableRow \cup {NoRow}]
       /\ request[r].plan \in [Items -> TableRow \cup {NoRow}]
    BY DEF RowsInv, RequestState
  <2>5. \A r \in Requests : counted[r] # NoRow => counted[r] \in Nat /\ counted[r] < Limit
    BY DEF RowsInv, CountInv
  <2> QED
    BY <2>2, <2>3, <2>4, <2>5 DEF ContentTypeOK, RowsInv
<1> QED
  BY <1>1, <1>2, <1>3, PTL DEF ContentSpec
-----------------------------------------------------------------------------
(* Lists in order. *)
LEMMA PrecedesOrders ==
  ASSUME NEW list \in [Items -> TableRow \cup {NoRow}]
  PROVE  /\ \A i \in Existing(list) : ~ Precedes(list, i, i)
         /\ \A i, j \in Existing(list) : i # j => Precedes(list, i, j) \/ Precedes(list, j, i)
         /\ \A i, j, k \in Existing(list) : Precedes(list, i, j) /\ Precedes(list, j, k) => Precedes(list, i, k)
<1>1. \A i \in Existing(list) : list[i].place \in Nat /\ Rank[i] \in Nat
  BY ContentAssumption DEF Existing, TableRow
<1>2. \A i, j \in Existing(list) : Rank[i] = Rank[j] => i = j
  BY ContentAssumption DEF Existing
<1> QED
  BY <1>1, <1>2 DEF Precedes

LEMMA IndexGrows ==
  ASSUME NEW list \in [Items -> TableRow \cup {NoRow}], NEW among \in SUBSET Existing(list),
         NEW i \in among, NEW j \in Existing(list), Precedes(list, i, j)
  PROVE  Index(list, among, i) < Index(list, among, j)
<1> DEFINE before(k) == {l \in among : Precedes(list, l, k)}
<1>1. IsFiniteSet(before(j)) /\ IsFiniteSet(before(i))
  BY FS_Subset, ContentAssumption DEF Existing
<1>2. before(i) \subseteq before(j)
  BY PrecedesOrders
<1>3. i \in before(j) /\ i \notin before(i)
  BY PrecedesOrders
<1> HIDE DEF before
<1>4. Cardinality(before(i)) <= Cardinality(before(j)) /\ Cardinality(before(i)) # Cardinality(before(j))
  BY <1>1, <1>2, <1>3, FS_Subset
<1>5. Cardinality(before(i)) \in Nat /\ Cardinality(before(j)) \in Nat
  BY <1>1, FS_CardinalityType
<1> QED
  BY <1>4, <1>5 DEF Index, before

LEMMA IndexWithin ==
  ASSUME NEW list \in [Items -> TableRow \cup {NoRow}], NEW among \in SUBSET Existing(list), NEW j \in Items
  PROVE  /\ IsFiniteSet(among) /\ Cardinality(among) \in Nat
         /\ Index(list, among, j) \in 0 .. Cardinality(among)
         /\ j \in among => Index(list, among, j) < Cardinality(among)
<1> DEFINE before == {l \in among : Precedes(list, l, j)}
<1>1. IsFiniteSet(among) /\ before \subseteq among
  BY FS_Subset, ContentAssumption DEF Existing
<1>2. j \in among => j \notin before
  BY PrecedesOrders
<1> HIDE DEF before
<1>3. Cardinality(before) <= Cardinality(among) /\ (j \in among => Cardinality(before) # Cardinality(among))
  BY <1>1, <1>2, FS_Subset
<1>4. Cardinality(before) \in Nat /\ Cardinality(among) \in Nat
  BY <1>1, FS_CardinalityType, FS_Subset
<1> QED
  BY <1>1, <1>3, <1>4 DEF Index, before

\* A list rearranged is numbered from 0, each number once, with the item just above the other one.
LEMMA ReorderedPlaces ==
  ASSUME NEW list \in [Items -> TableRow \cup {NoRow}], NEW i \in Existing(list),
         NEW above \in (Existing(list) \ {i}) \cup {NoRow}, NEW plan, plan = Reordered(list, i, above)
  PROVE  /\ Cardinality(Existing(list)) \in Nat
         /\ \A j \in Existing(list) : plan[j].place \in 0 .. Cardinality(Existing(list)) - 1
         /\ \A j, k \in Existing(list) : j # k => plan[j].place # plan[k].place
         /\ above # NoRow => plan[above].place = plan[i].place + 1
<1> DEFINE E == Existing(list)
           others == E \ {i}
           at == IF above = NoRow THEN Cardinality(others) ELSE Index(list, others, above)
           place(j) == LET n == Index(list, others, j) IN IF j = i THEN at ELSE IF n < at THEN n ELSE n + 1
           size == Cardinality(others)
           ix(j) == Index(list, others, j)
<1>1. others \subseteq Existing(list) /\ IsFiniteSet(others) /\ size \in Nat /\ E \subseteq Items /\ IsFiniteSet(E)
      /\ i \in Items
  BY FS_Subset, IndexWithin, ContentAssumption DEF Existing
<1>2. Cardinality(E) = size + 1
  BY <1>1, FS_RemoveElement, FS_CardinalityType
<1>3. plan = [j \in Items |-> IF list[j] = NoRow THEN NoRow ELSE [list[j] EXCEPT !.place = place(j)]]
  BY DEF Reordered
<1>4. at \in 0 .. size
  BY <1>1, IndexWithin
<1>5. \A j \in others : ix(j) \in Nat /\ ix(j) < size
  BY <1>1, IndexWithin
<1>6. \A j, k \in others : j # k => ix(j) # ix(k)
  BY <1>1, <1>5, IndexGrows, PrecedesOrders
<1>7. place(i) = at /\ \A j \in others : place(j) = IF ix(j) < at THEN ix(j) ELSE ix(j) + 1
  OBVIOUS
<1>8. above # NoRow => above \in others /\ ix(above) = at
  OBVIOUS
<1> HIDE DEF place, at, ix, size, others
<1>9. \A j \in E : j = i \/ j \in others
  BY DEF others
<1>10. \A j \in E : place(j) \in 0 .. size
  BY <1>1, <1>4, <1>5, <1>7, <1>9
<1>11. \A j, k \in others : j # k => place(j) # place(k)
  BY <1>4, <1>5, <1>6, <1>7
<1>12. \A j \in others : place(j) # place(i)
  BY <1>4, <1>5, <1>7
<1>13. above # NoRow => place(above) = place(i) + 1
  BY <1>4, <1>5, <1>7, <1>8
<1>14. \A j \in E : plan[j].place = place(j)
  <2> SUFFICES ASSUME NEW j \in E PROVE plan[j].place = place(j)
    OBVIOUS
  <2> DEFINE p == place(j)
  <2>1. list[j] \in TableRow /\ list[j] # NoRow /\ j \in Items
    BY DEF Existing
  <2>2. plan[j] = [list[j] EXCEPT !.place = p]
    BY <1>3, <2>1
  <2> HIDE DEF p
  <2>3. plan[j].place = p
    BY <2>1, <2>2 DEF TableRow
  <2> QED
    BY <2>3 DEF p
<1> QED
  <2>1. \A j, k \in E : j # k => place(j) # place(k)
    BY <1>9, <1>11, <1>12
  <2>2. above # NoRow => above \in E
    OBVIOUS
  <2> QED
    BY <1>2, <1>1, <1>10, <1>13, <1>14, <2>1, <2>2

-----------------------------------------------------------------------------
(* What the requests in flight on the two lists in order would leave. *)
Arranges(q) ==
  q.kind \in {"todo", "nav"} /\ q.claims = {} /\ q.plan = Reordered(q.seen, q.item, q.above)

AddsTask(q) ==
  /\ q.kind = "todo" /\ q.seen[q.item] = NoRow /\ q.plan = Prepended(q.seen, q.item) /\ q.above = NoRow
  /\ q.claims \ {"late"} = IF Existing(q.seen) = {} THEN {"todo"} ELSE {}
  /\ q.item = Seeded \/ "late" \in q.claims \/ Cardinality(Existing(q.seen)) < Limit

JoinsMenu(q) ==
  /\ q.kind = "nav" /\ JoinsNav(q) /\ q.above = NoRow /\ q.seen[q.item] = NoRow /\ q.plan[q.item] # NoRow
  /\ \A j \in Items \ {q.item} : q.plan[j] = q.seen[j]

\* No row but its own, which keeps its place or goes.
Spares(q) ==
  /\ q.above = NoRow
  /\ \A j \in Items \ {q.item} : q.plan[j] = q.seen[j]
  /\ q.seen[q.item] # NoRow
  /\ q.plan[q.item] # NoRow => q.plan[q.item].place = q.seen[q.item].place

ListShape(q) ==
  /\ q.kind = "todo" => Arranges(q) \/ AddsTask(q) \/ Spares(q)
  /\ q.kind = "nav" => Arranges(q) \/ JoinsMenu(q) \/ Spares(q)
  /\ q.kind \notin {"todo", "nav"} => q.above = NoRow
  /\ q.kind = "page" /\ Makes(q, Seeded) => JoinsNav(q)

LEMMA EditsSpare ==
  ASSUME RowsInv, NEW q \in RequestState, q.seen = List(q.kind), Edits(q)
  PROVE  Spares(q)
<1>0. q.kind \in Tables /\ q.item \in Items /\ q.seen \in [Items -> TableRow \cup {NoRow}]
      /\ q.plan \in [Items -> TableRow \cup {NoRow}] /\ q.fact \in FactsTold \cup {NoRow}
  BY DEF RequestState
<1>1. q.seen[q.item] = Old(q) /\ Old(q) # NoRow /\ Old(q) \in TableRow
  BY <1>0 DEF Edits, Old, List
<1>2. \A j \in Items \ {q.item} : q.plan[j] = q.seen[j]
  BY <1>0 DEF Edits, Alone
<1>3. ASSUME NEW row, NEW old \in TableRow, Amended(q.kind, q.fact, old, row)
      PROVE  row = NoRow \/ row.place = old.place
  BY <1>3 DEF Amended, TableRow
<1> QED
  BY <1>1, <1>2, <1>3 DEF Spares, Edits

LEMMA ListsAreShaped ==
  ASSUME RowsInv, NEW q \in RequestState, q.seen = List(q.kind),
         Plain(q) \/ \E handle \in Handles : TakesName(q, handle)
  PROVE  ListShape(q)
<1>0. q.kind \in Tables /\ q.item \in Items /\ q.seen \in [Items -> TableRow \cup {NoRow}]
      /\ q.plan \in [Items -> TableRow \cup {NoRow}]
  BY DEF RequestState
<1>1. \A j \in Items : q.seen[j] = rows[<<q.kind, j>>]
  BY DEF List
<1>2. CASE Prepends(q)
  <2>1. AddsTask(q)
    BY <1>0, <1>1, <1>2 DEF Prepends, AddsTask, FirstTask, RoomForTask, New
  <2> QED
    BY <2>1 DEF ListShape, AddsTask
<1>3. CASE Rearranges(q)
  BY <1>3 DEF Rearranges, Arranges, ListShape
<1>4. CASE Edits(q)
  <2>1. Spares(q)
    BY <1>4, EditsSpare
  <2>2. ~ Makes(q, Seeded)
    BY <2>1, NoRowIsNoRow DEF Spares, Makes
  <2> QED
    BY <2>1, <2>2 DEF ListShape, Spares
<1>5. CASE Creates(q)
  <2>1. q.kind \notin {"todo", "nav"} /\ q.above = NoRow /\ (q.kind = "page" => q.item # Seeded)
    BY <1>5 DEF Creates, Created, Unused
  <2>2. q.item # Seeded => q.plan[Seeded] = q.seen[Seeded]
    BY <1>0, <1>5, NoRowIsNoRow DEF Creates, Alone
  <2> QED
    BY <2>1, <2>2 DEF ListShape, Makes
<1>6. CASE SeedsPage(q)
  BY <1>6 DEF SeedsPage, ListShape, JoinsNav
<1>7. CASE AddsPlace(q)
  <2>1. q.seen[q.item] = NoRow /\ q.kind = "nav" /\ JoinsNav(q) /\ q.above = NoRow
    BY <1>0, <1>1, <1>7 DEF AddsPlace, Old, JoinsNav
  <2>2. LastPlace(List("nav")) + 1 \in Nat
    BY ListIsTyped, LastPlaceIsNat DEF Tables
  <2>3. q.plan[q.item] # NoRow /\ \A j \in Items \ {q.item} : q.plan[j] = q.seen[j]
    BY <1>0, <1>7, <2>2, FreshForms, NoRowIsNoRow DEF AddsPlace, Alone, Values
  <2> QED
    BY <2>1, <2>3 DEF ListShape, JoinsMenu
<1>8. CASE Reviews(q) \/ \E handle \in Handles : TakesName(q, handle)
  BY <1>8 DEF Reviews, TakesName, ListShape
<1> QED
  BY <1>2, <1>3, <1>4, <1>5, <1>6, <1>7, <1>8 DEF Plain

ListsInv == \A r \in Requests : request[r] # NoRow => ListShape(request[r])

\* What is in flight after a step was, or has just begun.
LEMMA InFlightAfter ==
  ASSUME RowsInv, [ContentNext]_contentVars, NEW r \in Requests, request'[r] # NoRow, NEW q, q = request'[r]
  PROVE  /\ q \in RequestState
         /\ \/ q = request[r]
            \/ /\ request[r] = NoRow /\ q.seen = List(q.kind)
               /\ Plain(q) \/ \E handle \in Handles : TakesName(q, handle)
<1>1. CASE Opening
  BY <1>1 DEF Opening, Starts, RowsInv
<1>2. ASSUME NEW s \in Requests, Write(s) \/ Fail(s) PROVE q = request[r] /\ request[r] \in RequestState
  BY <1>2 DEF Write, Fail, RowsInv
<1>3. CASE NextDay \/ Idles
  BY <1>3 DEF NextDay, Idles, RowsInv
<1> QED
  BY <1>1, <1>2, <1>3, StepForms

LEMMA StepLists == RowsInv /\ ListsInv /\ [ContentNext]_contentVars => ListsInv'
BY InFlightAfter, ListsAreShaped DEF ListsInv

-----------------------------------------------------------------------------
\* A request whose rows are as it saw them, so that the version lock lets it write.
ChangesUnmoved(q) == \A i \in Changed(q) : q.seen[i] # NoRow => rows[<<q.kind, i>>] = q.seen[i]

LEMMA WriteUnmoved ==
  ASSUME RowsInv, VInv, NEW r \in Requests, Write(r), NEW q, q = request[r],
         q.kind # "card"
  PROVE  /\ ChangesUnmoved(q) /\ \A i \in Changed(q) : q.seen[i] = NoRow => rows[<<q.kind, i>>] = NoRow
<1>1. q \in RequestState /\ q # NoRow /\ Allowed(q)
  BY DEF Write, RowsInv
<1>2. \A i \in Changed(q) : i \in Items
  BY DEF Changed
<1> QED
  BY <1>1, <1>2 DEF Allowed, Unstale, VInv, ChangesUnmoved

\* What a request that rearranges does, if anything.
LEMMA ArrangedPlaces ==
  ASSUME NEW q \in RequestState, Arranges(q), Changed(q) # {}
  PROVE  /\ q.item \in Existing(q.seen) /\ q.above \in (Existing(q.seen) \ {q.item}) \cup {NoRow}
         /\ Changed(q) \subseteq Existing(q.seen) /\ Existing(q.plan) = Existing(q.seen)
         /\ Cardinality(Existing(q.seen)) \in Nat
         /\ \A j \in Existing(q.seen) : q.plan[j].place \in 0 .. Cardinality(Existing(q.seen)) - 1
         /\ \A j, k \in Existing(q.seen) : j # k => q.plan[j].place # q.plan[k].place
         /\ q.above # NoRow => q.plan[q.above].place = q.plan[q.item].place + 1
<1>0. q.item \in Items /\ q.above \in Items \cup {NoRow} /\ q.seen \in [Items -> TableRow \cup {NoRow}]
  BY DEF RequestState
<1>1. q.plan # q.seen
  BY DEF Changed
<1>2. q.item \in Existing(q.seen) /\ q.above \in (Existing(q.seen) \ {q.item}) \cup {NoRow}
  BY <1>1 DEF Arranges, Reordered
<1>3. \A j \in Items : q.plan[j] = NoRow <=> q.seen[j] = NoRow
  BY <1>0, ReorderedKeeps DEF Arranges
<1>4. Changed(q) \subseteq Existing(q.seen) /\ Existing(q.plan) = Existing(q.seen)
  BY <1>3 DEF Changed, Existing
<1> QED
  BY <1>0, <1>2, <1>4, ReorderedPlaces DEF Arranges

\* A move that changes its item's position leaves the item above the one it names, as MovesLand has it.
THEOREM MovesLandRight == ContentSpec => MovesLand
<1>1. ContentInit => RowsInv /\ VInv /\ ListsInv
  BY InitTyped, InitNotes DEF ListsInv, ContentInit
<1>2. RowsInv /\ VInv /\ ListsInv /\ [ContentNext]_contentVars => (RowsInv /\ VInv /\ ListsInv)'
  BY StepRowsTyped, StepVersions, StepLists
<1> DEFINE Lands ==
      \A r \in Requests :
       LET q == request[r]
       IN /\ q # NoRow /\ request'[r] = NoRow /\ rows' # rows
          /\ q.kind \in {"todo", "nav"} /\ q.above # NoRow /\ q.item \in Changed(q) /\ ~ WentUp(q)
          => Above([j \in Items |-> rows'[<<q.kind, j>>]], q.item, q.above)
<1>3. RowsInv /\ VInv /\ ListsInv /\ [ContentNext]_contentVars => [Lands]_contentVars
  <2> SUFFICES ASSUME RowsInv, VInv, ListsInv, [ContentNext]_contentVars, NEW r \in Requests, NEW q, q = request[r],
                      q # NoRow, request'[r] = NoRow, rows' # rows, q.kind \in {"todo", "nav"}, q.above # NoRow,
                      q.item \in Changed(q), ~ WentUp(q)
               PROVE  Above([j \in Items |-> rows'[<<q.kind, j>>]], q.item, q.above)
    OBVIOUS
  <2>1. Write(r)
    <3>1. ~ Opening
      BY DEF Opening, Starts, RowsInv
    <3>2. ~ NextDay /\ ~ Idles
      BY DEF NextDay, Idles
    <3>3. \A s \in Requests : Write(s) \/ Fail(s) => s = r
      BY DEF Write, Fail, RowsInv
    <3> QED
      BY <3>1, <3>2, <3>3, StepForms DEF Fail
  <2>2. q \in RequestState /\ Arranges(q) /\ q.item \in Items /\ q.kind \in Tables
    BY DEF ListsInv, ListShape, Spares, AddsTask, JoinsMenu, RowsInv, RequestState
  <2> DEFINE kind == q.kind  i == q.item  a == q.above
  <2>3. /\ i \in Existing(q.seen) /\ a \in Existing(q.seen) /\ a \in Items /\ i \in Items
        /\ q.plan[a].place = q.plan[i].place + 1 /\ q.plan[i].place \in Nat
        /\ q.plan[i] # NoRow /\ q.plan[a] # NoRow
    <3>1. /\ i \in Existing(q.seen) /\ a \in Existing(q.seen) /\ Existing(q.plan) = Existing(q.seen)
          /\ q.plan[a].place = q.plan[i].place + 1
      BY <2>2, ArrangedPlaces
    <3>2. q.plan[i].place \in 0 .. Cardinality(Existing(q.seen)) - 1 /\ Cardinality(Existing(q.seen)) \in Nat
      BY <2>2, <3>1, ArrangedPlaces
    <3>3. q.plan[i].place \in Nat
      BY <3>2
    <3> QED
      BY <3>1, <3>3 DEF Existing
  <2>4. rows'[<<kind, i>>] = Leave(q, <<kind, i>>) /\ rows'[<<kind, a>>] = Leave(q, <<kind, a>>)
    BY <2>1, <2>2, <2>3, WriteLeaves
  <2>5. rows'[<<kind, i>>].place = q.plan[i].place
    BY <2>2, <2>3, <2>4, LeaveCases
  <2>6. CASE a \in Changed(q)
    <3>1. rows'[<<kind, a>>].place = q.plan[a].place
      BY <2>2, <2>3, <2>4, <2>6, LeaveCases
    <3> QED
      BY <2>3, <2>5, <3>1 DEF Above
  <2>7. CASE a \notin Changed(q)
    <3>1. rows'[<<kind, a>>] = rows[<<kind, a>>]
      BY <2>2, <2>3, <2>4, <2>7, LeaveCases
    <3>2. q.plan[a] = q.seen[a]
      BY <2>3, <2>7 DEF Changed
    <3>3. rows[<<kind, a>>] # NoRow => rows[<<kind, a>>].place \in Nat /\ ~ (rows[<<kind, a>>].place < q.seen[a].place)
      BY <2>2, <2>3, RowIsTyped DEF WentUp, TableRow
    <3> QED
      BY <2>3, <2>5, <3>1, <3>2, <3>3 DEF Above, Existing
  <2> QED
    BY <2>6, <2>7
<1> QED
  BY <1>1, <1>2, <1>3, PTL DEF ContentSpec, MovesLand
-----------------------------------------------------------------------------
(* Positions. *)
OverlapInv ==
  \A r, s \in Requests : r # s /\ request[r] # NoRow /\ request[s] # NoRow =>
    Crossed(request[r], request[s]) \subseteq overlapped

Distinct(list) == \A i, j \in Existing(list) : i # j => list[i].place # list[j].place

\* The places a request would give are not those of rows it leaves alone.
Avoids(q) ==
  \A j \in Existing(List(q.kind)) \ Changed(q), i \in Changed(q) : rows[<<q.kind, j>>].place # q.plan[i].place

\* While the version lock would let it write, a request that numbers a list has seen every row of it.
AimOK(q) ==
  q.kind \in {"todo", "nav"} \ overlapped /\ ChangesUnmoved(q) =>
    /\ AddsTask(q) \/ (Arranges(q) /\ Changed(q) # {}) => Existing(List(q.kind)) \subseteq Existing(q.seen)
    /\ Arranges(q) /\ Changed(q) # {} => Distinct(q.seen) /\ Avoids(q)

\* Of two moves that could both be written, the places given are apart.
ApartOK(q, s) ==
  /\ q.kind = s.kind /\ q.kind \in {"todo", "nav"} \ overlapped /\ Arranges(q) /\ Arranges(s)
  /\ ChangesUnmoved(q) /\ ChangesUnmoved(s) /\ Changed(q) \cap Changed(s) = {}
  => \A i \in Changed(q), j \in Changed(s) : q.plan[i].place # s.plan[j].place

JoinOK(q) ==
  "nav" \notin overlapped /\ q.kind \in {"nav", "page"} /\ JoinsNav(q) =>
    \A j \in Existing(List("nav")) : rows[<<"nav", j>>].place < q.plan[q.item].place

PlacesInv ==
  /\ \A kind \in {"todo", "nav"} \ overlapped : Distinct(List(kind))
  /\ \A r \in Requests : request[r] # NoRow => AimOK(request[r]) /\ JoinOK(request[r])
  /\ \A r, s \in Requests : r # s /\ request[r] # NoRow /\ request[s] # NoRow => ApartOK(request[r], request[s])
LEMMA CrossedCommutes == \A q, s : Crossed(q, s) = Crossed(s, q)
BY DEF Crossed

LEMMA OverlappedGrows ==
  ASSUME RowsInv, [ContentNext]_contentVars
  PROVE  overlapped \subseteq overlapped'
BY StepForms DEF Opening, Starts, Write, Fail, NextDay, Idles

LEMMA StepOverlap == RowsInv /\ OverlapInv /\ [ContentNext]_contentVars => OverlapInv'
<1> SUFFICES ASSUME RowsInv, OverlapInv, [ContentNext]_contentVars PROVE OverlapInv'
  OBVIOUS
<1>1. CASE Opening
  <2>1. PICK r \in Requests, q \in RequestState : Starts(r, q)
    BY <1>1 DEF Opening
  <2>2. \A s \in Requests : request'[s] = IF s = r THEN q ELSE request[s]
    BY <2>1 DEF Starts, RowsInv
  <2>3. \A s \in Requests : request[s] # NoRow => Crossed(q, request[s]) \subseteq overlapped'
    BY <2>1 DEF Starts
  <2>4. overlapped \subseteq overlapped'
    BY OverlappedGrows
  <2> QED
    BY <2>2, <2>3, <2>4, CrossedCommutes DEF OverlapInv
<1>2. ASSUME NEW r \in Requests, Write(r) \/ Fail(r) PROVE OverlapInv'
  BY <1>2 DEF Write, Fail, OverlapInv, RowsInv
<1>3. CASE NextDay \/ Idles
  BY <1>3 DEF NextDay, Idles, OverlapInv
<1> QED
  BY <1>1, <1>2, <1>3, StepForms

LEMMA NumbersBelow ==
  ASSUME NEW n \in Nat
  PROVE  IsFiniteSet(0 .. n - 1) /\ Cardinality(0 .. n - 1) = n
<1>1. 0 \in Int /\ n - 1 \in Int
  OBVIOUS
<1> QED
  BY <1>1, FS_Interval

\* The places that a move gives are those its items had, where these were of the numbering already.
LEMMA OldPlaces ==
  ASSUME NEW q \in RequestState, Arranges(q), Changed(q) # {}, Distinct(q.seen),
         \A i \in Changed(q) : q.seen[i].place \in 0 .. Cardinality(Existing(q.seen)) - 1,
         NEW i \in Changed(q)
  PROVE  \E j \in Changed(q) : q.plan[i].place = q.seen[j].place
<1> DEFINE S == Existing(q.seen)  C == Changed(q)  D == 0 .. Cardinality(S) - 1  P == {q.plan[j].place : j \in C}
           f == [j \in S |-> q.plan[j].place]  g == [j \in C |-> q.seen[j].place]  h == [j \in C |-> q.plan[j].place]
<1>1. /\ C \subseteq S /\ Cardinality(S) \in Nat /\ IsFiniteSet(S) /\ IsFiniteSet(C)
      /\ \A j \in S : q.plan[j].place \in D
      /\ \A j, k \in S : j # k => q.plan[j].place # q.plan[k].place
  BY ArrangedPlaces, FS_Subset, ContentAssumption DEF Existing
<1>2. IsFiniteSet(D) /\ Cardinality(D) = Cardinality(S)
  BY <1>1, NumbersBelow
<1>3. f \in Surjection(S, D)
  <2> HIDE DEF D
  <2>1. f \in Injection(S, D)
    BY <1>1 DEF Injection, IsInjective
  <2> QED
    BY <1>1, <1>2, <2>1, FS_Injection
<1>4. ASSUME NEW j \in C PROVE q.seen[j].place \in P
  <2>1. PICK k \in S : q.plan[k].place = q.seen[j].place
    BY <1>3 DEF Surjection
  <2>2. CASE k \in C
    BY <2>1, <2>2
  <2>3. CASE k \notin C
    <3>1. q.plan[k] = q.seen[k] /\ j \in S
      BY <1>1, <2>3 DEF Changed, Existing
    <3> QED
      BY <2>1, <2>3, <3>1 DEF Distinct
  <2> QED
    BY <2>2, <2>3
<1>5. h \in Surjection(C, P) /\ h \in Injection(C, P)
  BY <1>1 DEF Surjection, Injection, IsInjective
<1>6. IsFiniteSet(P) /\ Cardinality(P) = Cardinality(C)
  <2> HIDE DEF P, h, C
  <2> QED
    BY <1>1, <1>5, FS_Surjection
<1>7. g \in Injection(C, P)
  <2> HIDE DEF P
  <2> QED
    BY <1>1, <1>4 DEF Injection, IsInjective, Distinct
<1>8. g \in Surjection(C, P)
  <2> HIDE DEF P, g, C
  <2> QED
    BY <1>6, <1>7, FS_Injection
<1>9. q.plan[i].place \in P
  OBVIOUS
<1> QED
  BY <1>8, <1>9 DEF Surjection

\* Two moves of one list, of different rows: one in flight and one that has just read.
LEMMA BeginApart ==
  ASSUME RowsInv, NEW q \in RequestState, NEW w \in RequestState, q.kind = w.kind, w.seen = List(w.kind),
         Arranges(q), Arranges(w), Distinct(q.seen), ChangesUnmoved(q), Existing(List(q.kind)) \subseteq Existing(q.seen),
         Changed(q) \cap Changed(w) = {}, NEW i \in Changed(q), NEW j \in Changed(w)
  PROVE  q.plan[i].place # w.plan[j].place
<1> DEFINE S == Existing(q.seen)  N == Existing(w.seen)
<1>1. /\ Changed(q) \subseteq S /\ Changed(w) \subseteq N /\ N \subseteq S
      /\ Cardinality(S) \in Nat /\ Cardinality(N) \in Nat
      /\ \A k \in N : w.plan[k].place \in 0 .. Cardinality(N) - 1
      /\ \A k, l \in N : k # l => w.plan[k].place # w.plan[l].place
  BY ArrangedPlaces
<1>2. Cardinality(N) <= Cardinality(S)
  BY <1>1, FS_Subset, ContentAssumption DEF Existing
<1>3. ASSUME NEW k \in Changed(q) PROVE k \in N /\ w.plan[k] = q.seen[k]
  <2>1. q.seen[k] # NoRow /\ k \in Items
    BY <1>1 DEF Existing
  <2>2. rows[<<q.kind, k>>] = q.seen[k] /\ w.seen[k] = rows[<<q.kind, k>>]
    BY <2>1 DEF ChangesUnmoved, List
  <2>3. w.plan[k] = w.seen[k]
    BY <2>1 DEF Changed
  <2> QED
    BY <2>1, <2>2, <2>3 DEF Existing
<1>4. \A k \in Changed(q) : q.seen[k].place \in 0 .. Cardinality(S) - 1
  BY <1>1, <1>2, <1>3
<1>5. PICK k \in Changed(q) : q.plan[i].place = q.seen[k].place
  BY <1>4, OldPlaces
<1> QED
  BY <1>1, <1>3, <1>5
\* A request in flight that may still write after another has written was not touched by it.
LEMMA StillUnmoved ==
  ASSUME RowsInv, VInv, NEW w \in Requests, Write(w), NEW r \in Requests, NEW q, q = request[r], q # NoRow,
         ChangesUnmoved(q)'
  PROVE  /\ ChangesUnmoved(q)
         /\ \A i \in Changed(q) : q.seen[i] # NoRow =>
              /\ rows'[<<q.kind, i>>] = q.seen[i] /\ rows[<<q.kind, i>>] = q.seen[i]
              /\ request[w].kind = q.kind => i \notin Changed(request[w])
<1> SUFFICES ASSUME NEW i \in Changed(q), q.seen[i] # NoRow
             PROVE  /\ rows'[<<q.kind, i>>] = q.seen[i] /\ rows[<<q.kind, i>>] = q.seen[i]
                    /\ request[w].kind = q.kind => i \notin Changed(request[w])
  BY DEF ChangesUnmoved
<1>1. q \in RequestState /\ q.kind \in Tables /\ i \in Items /\ q.seen[i] \in TableRow /\ request[w] \in RequestState
  BY DEF RowsInv, RequestState, Changed, Write
<1>2. rows'[<<q.kind, i>>] = q.seen[i]
  BY DEF ChangesUnmoved
<1>3. q.seen[i].version \in Nat /\ q.seen[i].version <= writes /\ writes \in Nat
  BY <1>1 DEF VInv, TableRow, RowsInv
<1>4. rows'[<<q.kind, i>>] = rows[<<q.kind, i>>]
  BY <1>1, <1>2, <1>3, WriteLeaves
<1>5. request[w].kind = q.kind => i \notin Changed(request[w])
  <2>1. rows'[<<q.kind, i>>] = Leave(request[w], <<q.kind, i>>)
    BY <1>1, WriteLeaves
  <2> QED
    BY <1>1, <1>2, <1>3, <2>1, LeaveCases
<1> QED
  BY <1>2, <1>4, <1>5

(* What a commit does to a list in order: one of four things. *)
Shrinks(kind) ==
  \A j \in Items : rows'[<<kind, j>>] # NoRow =>
    rows[<<kind, j>>] # NoRow /\ rows'[<<kind, j>>].place = rows[<<kind, j>>].place

Renumbers(kind, q) ==
  /\ q.kind = kind /\ Arranges(q) /\ Changed(q) # {} /\ ChangesUnmoved(q)
  /\ \A j \in Items : IF j \in Changed(q) THEN rows'[<<kind, j>>] # NoRow /\ rows'[<<kind, j>>].place = q.plan[j].place
                                          ELSE rows'[<<kind, j>>] = rows[<<kind, j>>]

Pushes(kind, q) ==
  /\ kind = "todo" /\ AddsTask(q) /\ ChangesUnmoved(q)
  /\ rows[<<kind, q.item>>] = NoRow /\ rows'[<<kind, q.item>>] # NoRow /\ rows'[<<kind, q.item>>].place = 0
  /\ \A j \in Items \ {q.item} :
       IF q.seen[j] = NoRow THEN rows'[<<kind, j>>] = rows[<<kind, j>>]
         ELSE /\ rows'[<<kind, j>>] # NoRow /\ j \in Changed(q)
              /\ rows'[<<kind, j>>].place = rows[<<kind, j>>].place + 1

Extends(kind, q) ==
  /\ kind = "nav" /\ q.kind \in {"nav", "page"} /\ JoinsNav(q)
  /\ rows'[<<kind, q.item>>] # NoRow /\ rows'[<<kind, q.item>>].place = q.plan[q.item].place
  /\ \A j \in Items \ {q.item} : rows'[<<kind, j>>] # NoRow =>
       rows[<<kind, j>>] # NoRow /\ rows'[<<kind, j>>].place = rows[<<kind, j>>].place

LEMMA Outcomes ==
  ASSUME RowsInv, VInv, ListsInv, NEW w \in Requests, Write(w), NEW q, q = request[w], NEW kind \in {"todo", "nav"}
  PROVE  Shrinks(kind) \/ Renumbers(kind, q) \/ Pushes(kind, q) \/ Extends(kind, q)
<1>0. /\ q \in RequestState /\ ListShape(q) /\ Formed(q) /\ kind \in Tables /\ q.item \in Items /\ q.kind \in Tables
      /\ q.seen \in [Items -> TableRow \cup {NoRow}] /\ q.plan \in [Items -> TableRow \cup {NoRow}]
  BY DEF Write, RowsInv, ListsInv, RequestState, Tables
<1>1. \A j \in Items : rows'[<<kind, j>>] = Leave(q, <<kind, j>>)
  BY <1>0, WriteLeaves
<1>2. q.kind # "card" => ChangesUnmoved(q) /\ \A i \in Changed(q) : q.seen[i] = NoRow => rows[<<q.kind, i>>] = NoRow
  BY WriteUnmoved
<1>3. CASE q.kind # kind /\ ~ (kind = "nav" /\ q.kind = "page" /\ Makes(q, Seeded))
  <2>1. \A j \in Items : rows'[<<kind, j>>] \in {rows[<<kind, j>>], NoRow}
    BY <1>0, <1>1, <1>3, LeaveCases DEF Makes
  <2> QED
    BY <2>1 DEF Shrinks
<1>4. CASE kind = "nav" /\ q.kind = "page" /\ Makes(q, Seeded)
  <2>1. q.item = Seeded /\ JoinsNav(q)
    BY <1>0, <1>4, MakesItsItem, NoRowIsNoRow DEF ListShape, ToldTables
  <2>2. ASSUME NEW j \in Items \ {q.item} PROVE rows'[<<kind, j>>] \in {rows[<<kind, j>>], NoRow}
    <3>1. j # Seeded /\ rows'[<<kind, j>>] = Leave(q, <<kind, j>>) /\ kind # q.kind
      BY <1>1, <1>4, <2>1
    <3> QED
      BY <1>0, <3>1, LeaveCases
  <2>3. rows'[<<kind, q.item>>] # NoRow /\ rows'[<<kind, q.item>>].place = q.plan[q.item].place
    <3>1. Accompanies(q, <<kind, q.item>>) /\ ~ Cascades(q, <<kind, q.item>>)
      BY <1>4, <2>1 DEF Accompanies, Cascades, Makes
    <3>2. rows'[<<kind, q.item>>] = [Fresh(q.plan[Seeded].place, "shown") EXCEPT !.version = writes + 1]
      BY <1>0, <1>1, <1>4, <3>1 DEF Leave
    <3>3. Fresh(q.plan[Seeded].place, "shown") \in TableRow /\ writes + 1 \in Nat
      <4>1. q.plan[Seeded].place \in Nat
        BY <1>0, <1>4, <2>1 DEF Makes, TableRow
      <4> QED
        BY <4>1, FreshForms DEF Values, RowsInv
    <3>4. rows'[<<kind, q.item>>] \in TableRow /\ rows'[<<kind, q.item>>].place = Fresh(q.plan[Seeded].place, "shown").place
      <4> DEFINE p == Fresh(q.plan[Seeded].place, "shown")  n == writes + 1
      <4> HIDE DEF p, n
      <4>1. rows'[<<kind, q.item>>] = [p EXCEPT !.version = n] /\ p \in TableRow /\ n \in Nat
        BY <3>2, <3>3 DEF p, n
      <4> QED
        BY <4>1, VersionedRow DEF p
    <3> QED
      BY <2>1, <3>4, FreshFields, NoRowIsNoRow
  <2> QED
    BY <1>4, <2>1, <2>2, <2>3 DEF Extends
<1>5. CASE q.kind = kind /\ Arranges(q)
  <2>1. CASE Changed(q) = {}
    <3>1. \A j \in Items : rows'[<<kind, j>>] = rows[<<kind, j>>]
      BY <1>0, <1>1, <1>5, <2>1, LeaveCases
    <3> QED
      BY <3>1 DEF Shrinks
  <2>2. CASE Changed(q) # {}
    <3>1. \A j \in Changed(q) : q.plan[j] # NoRow
      BY <1>0, <1>5, <2>2, ArrangedPlaces DEF Existing
    <3>2. \A j \in Items : IF j \in Changed(q) THEN rows'[<<kind, j>>] # NoRow /\ rows'[<<kind, j>>].place = q.plan[j].place
                                          ELSE rows'[<<kind, j>>] = rows[<<kind, j>>]
      BY <1>0, <1>1, <1>5, <3>1, LeaveCases
    <3> QED
      BY <1>2, <1>5, <2>2, <3>2 DEF Renumbers, Arranges
  <2> QED
    BY <2>1, <2>2
<1>6. CASE q.kind = kind /\ AddsTask(q)
  <2>1. \A j \in Items : q.plan[j] = IF j = q.item THEN Fresh(0, "open")
                     ELSE IF q.seen[j] = NoRow THEN NoRow ELSE [q.seen[j] EXCEPT !.place = @ + 1]
    BY <1>6 DEF AddsTask, Prepended
  <2>2. q.plan[q.item] # NoRow /\ q.plan[q.item].place = 0 /\ q.seen[q.item] = NoRow /\ q.item \in Changed(q)
    <3>1. Fresh(0, "open") \in TableRow /\ Fresh(0, "open").place = 0
      BY FreshForms, FreshFields DEF Values
    <3>2. q.plan[q.item] = Fresh(0, "open") /\ q.seen[q.item] = NoRow
      BY <1>0, <1>6, <2>1 DEF AddsTask
    <3> QED
      BY <1>0, <3>1, <3>2, NoRowIsNoRow DEF Changed
  <2>3. rows[<<kind, q.item>>] = NoRow /\ rows'[<<kind, q.item>>] # NoRow /\ rows'[<<kind, q.item>>].place = 0
    BY <1>0, <1>1, <1>2, <1>6, <2>2, LeaveCases
  <2>4. ASSUME NEW j \in Items \ {q.item}, q.seen[j] = NoRow PROVE rows'[<<kind, j>>] = rows[<<kind, j>>]
    <3>1. j \notin Changed(q)
      BY <2>1, <2>4 DEF Changed
    <3> QED
      BY <1>0, <1>1, <1>6, <3>1, LeaveCases
  <2>5. ASSUME NEW j \in Items \ {q.item}, q.seen[j] # NoRow
        PROVE  /\ rows'[<<kind, j>>] # NoRow /\ j \in Changed(q)
               /\ rows'[<<kind, j>>].place = rows[<<kind, j>>].place + 1
    <3> DEFINE row == q.seen[j]
    <3>1. row \in TableRow /\ row.place \in Nat /\ row.place + 1 \in Nat
      BY <1>0, <2>5 DEF TableRow
    <3>2. q.plan[j] = [row EXCEPT !.place = @ + 1]
      BY <2>1, <2>5
    <3>3. q.plan[j] \in TableRow /\ q.plan[j].place = row.place + 1
      <4> HIDE DEF row
      <4> QED
        BY <3>1, <3>2 DEF TableRow
    <3>4. j \in Changed(q) /\ q.plan[j] # NoRow
      BY <3>1, <3>3, NoRowIsNoRow DEF Changed
    <3>5. rows[<<kind, j>>] = row
      BY <1>2, <1>6, <2>5, <3>4 DEF ChangesUnmoved, AddsTask
    <3> QED
      BY <1>0, <1>1, <1>6, <3>3, <3>4, <3>5, LeaveCases
  <2> QED
    BY <1>2, <1>6, <2>3, <2>4, <2>5 DEF Pushes, AddsTask
<1>7. CASE q.kind = kind /\ Spares(q)
  <2>1. \A j \in Items \ {q.item} : rows'[<<kind, j>>] = rows[<<kind, j>>]
    BY <1>0, <1>1, <1>7, LeaveCases DEF Spares, Changed
  <2>2. rows'[<<kind, q.item>>] # NoRow =>
          rows[<<kind, q.item>>] # NoRow /\ rows'[<<kind, q.item>>].place = rows[<<kind, q.item>>].place
    <3>1. CASE q.item \in Changed(q)
      <4>1. rows[<<kind, q.item>>] = q.seen[q.item] /\ q.seen[q.item] # NoRow
        BY <1>2, <1>7, <3>1 DEF ChangesUnmoved, Spares
      <4>2. \/ rows'[<<kind, q.item>>] = NoRow
            \/ q.plan[q.item] # NoRow /\ rows'[<<kind, q.item>>].place = q.plan[q.item].place
        BY <1>0, <1>1, <1>7, <3>1, LeaveCases
      <4> QED
        BY <1>7, <4>1, <4>2 DEF Spares
    <3>2. CASE q.item \notin Changed(q)
      BY <1>0, <1>1, <1>7, <3>2, LeaveCases
    <3> QED
      BY <3>1, <3>2
  <2> QED
    BY <2>1, <2>2 DEF Shrinks
<1>8. CASE q.kind = kind /\ JoinsMenu(q)
  <2>1. ASSUME NEW j \in Items \ {q.item} PROVE rows'[<<kind, j>>] = rows[<<kind, j>>]
    <3>1. j \notin Changed(q) /\ rows'[<<kind, j>>] = Leave(q, <<kind, j>>)
      BY <1>1, <1>8 DEF JoinsMenu, Changed
    <3> QED
      BY <1>0, <1>8, <3>1, LeaveCases
  <2>2. q.item \in Changed(q) /\ q.plan[q.item] # NoRow
    BY <1>0, <1>8 DEF JoinsMenu, Changed
  <2>3. rows'[<<kind, q.item>>] # NoRow /\ rows'[<<kind, q.item>>].place = q.plan[q.item].place
    BY <1>0, <1>1, <1>8, <2>2, LeaveCases
  <2> QED
    BY <1>8, <2>1, <2>3 DEF Extends, JoinsMenu
<1> QED
  BY <1>0, <1>3, <1>4, <1>5, <1>6, <1>7, <1>8 DEF ListShape
\* What a commit has found: the rows of the list are those it saw, or the item is new to it.
LEMMA CommitAims ==
  ASSUME RowsInv, VInv, PlacesInv, NEW w \in Requests, NEW q, q = request[w], q # NoRow,
         NEW kind \in {"todo", "nav"} \ overlapped
  PROVE  /\ Renumbers(kind, q) => /\ Existing(List(kind)) \subseteq Existing(q.seen) /\ Avoids(q)
                                  /\ Existing(List(kind))' = Existing(List(kind))
         /\ Pushes(kind, q) => Existing(List(kind)) = Existing(q.seen)
         /\ Extends(kind, q) => \A j \in Existing(List(kind)) : rows[<<kind, j>>].place < q.plan[q.item].place
<1>0. q \in RequestState /\ AimOK(q) /\ JoinOK(q)
  BY DEF PlacesInv, RowsInv
<1>1. ASSUME Renumbers(kind, q)
      PROVE  /\ Existing(List(kind)) \subseteq Existing(q.seen) /\ Avoids(q)
             /\ Existing(List(kind))' = Existing(List(kind))
  <2>1. Existing(List(kind)) \subseteq Existing(q.seen) /\ Avoids(q)
    BY <1>0, <1>1 DEF AimOK, Renumbers
  <2>2. \A j \in Changed(q) : q.seen[j] # NoRow /\ rows[<<kind, j>>] # NoRow
    <3>1. q.kind = kind /\ Arranges(q) /\ Changed(q) # {} /\ ChangesUnmoved(q)
      BY <1>1 DEF Renumbers
    <3>2. Changed(q) \subseteq Existing(q.seen)
      BY <1>0, <3>1, ArrangedPlaces
    <3>3. \A j \in Changed(q) : q.seen[j] # NoRow
      BY <3>2 DEF Existing
    <3> QED
      BY <3>1, <3>3 DEF ChangesUnmoved
  <2>3. \A j \in Items : rows'[<<kind, j>>] = NoRow <=> rows[<<kind, j>>] = NoRow
    BY <1>1, <2>2 DEF Renumbers
  <2> QED
    BY <2>1, <2>3 DEF Existing, List
<1>2. ASSUME Pushes(kind, q) PROVE Existing(List(kind)) = Existing(q.seen)
  <2>1. Existing(List(kind)) \subseteq Existing(q.seen)
    BY <1>0, <1>2 DEF AimOK, Pushes, AddsTask
  <2>2. \A j \in Items : q.seen[j] # NoRow => j \in Changed(q) /\ rows[<<kind, j>>] # NoRow
    BY <1>2 DEF Pushes, AddsTask, ChangesUnmoved
  <2> QED
    BY <2>1, <2>2 DEF Existing, List
<1>3. ASSUME Extends(kind, q) PROVE \A j \in Existing(List(kind)) : rows[<<kind, j>>].place < q.plan[q.item].place
  BY <1>0, <1>3 DEF JoinOK, Extends
<1> QED
  BY <1>1, <1>2, <1>3

LEMMA CommitKeepsDistinct ==
  ASSUME RowsInv, VInv, ListsInv, PlacesInv, NEW w \in Requests, Write(w), NEW kind \in {"todo", "nav"} \ overlapped
  PROVE  Distinct(List(kind))'
<1> DEFINE q == request[w]  N == Existing(List(kind))
<1>0. /\ q \in RequestState /\ q # NoRow /\ Distinct(List(kind)) /\ q.item \in Items /\ kind \in Tables
      /\ \A j \in N : rows[<<kind, j>>].place \in Nat /\ j \in Items
      /\ \A j \in Items : List(kind)[j] = rows[<<kind, j>>] /\ List(kind)'[j] = rows'[<<kind, j>>]
  BY RowIsTyped DEF Write, RowsInv, PlacesInv, List, Existing, TableRow, Tables, RequestState
<1>1. SUFFICES ASSUME NEW i \in Items, NEW j \in Items, rows'[<<kind, i>>] # NoRow, rows'[<<kind, j>>] # NoRow, i # j
               PROVE  rows'[<<kind, i>>].place # rows'[<<kind, j>>].place
  BY <1>0 DEF Distinct, Existing, List
<1>2. \A k, l \in Items : rows[<<kind, k>>] # NoRow /\ rows[<<kind, l>>] # NoRow /\ k # l =>
        rows[<<kind, k>>].place # rows[<<kind, l>>].place
  BY <1>0 DEF Distinct, Existing
<1>3. CASE Shrinks(kind)
  BY <1>1, <1>2, <1>3 DEF Shrinks
<1>4. CASE Renumbers(kind, q)
  <2> HIDE DEF q
  <2>1. N \subseteq Existing(q.seen) /\ Avoids(q) /\ i \in N /\ j \in N
    BY <1>0, <1>1, <1>4, CommitAims DEF q, Existing
  <2>2. \A k, l \in Existing(q.seen) : k # l => q.plan[k].place # q.plan[l].place
    BY <1>0, <1>4, ArrangedPlaces DEF Renumbers
  <2>3. \A k \in N \ Changed(q), l \in Changed(q) : rows[<<kind, k>>].place # q.plan[l].place
    BY <1>4, <2>1 DEF Avoids, Renumbers
  <2>4. \A k \in N : rows[<<kind, k>>] # NoRow
    BY <1>0 DEF Existing
  <2>5. CASE i \in Changed(q) /\ j \in Changed(q)
    BY <1>1, <1>4, <2>1, <2>2, <2>5 DEF Renumbers
  <2>6. CASE i \in Changed(q) /\ j \notin Changed(q)
    BY <1>1, <1>4, <2>1, <2>3, <2>6 DEF Renumbers
  <2>7. CASE i \notin Changed(q) /\ j \in Changed(q)
    BY <1>1, <1>4, <2>1, <2>3, <2>7 DEF Renumbers
  <2>8. CASE i \notin Changed(q) /\ j \notin Changed(q)
    BY <1>1, <1>2, <1>4, <2>1, <2>8 DEF Renumbers
  <2> QED
    BY <2>5, <2>6, <2>7, <2>8
<1>5. CASE Pushes(kind, q)
  <2> HIDE DEF q
  <2>1. N = Existing(q.seen)
    BY <1>0, <1>5, CommitAims DEF q
  <2>2. \A k \in Items \ {q.item} : rows'[<<kind, k>>] # NoRow =>
          k \in N /\ rows'[<<kind, k>>].place = rows[<<kind, k>>].place + 1
    BY <1>0, <1>5, <2>1 DEF Pushes, Existing
  <2>3. rows'[<<kind, q.item>>].place = 0
    BY <1>5 DEF Pushes
  <2>4. \A k \in N : rows[<<kind, k>>] # NoRow
    BY <1>0 DEF Existing
  <2> QED
    BY <1>0, <1>1, <1>2, <2>2, <2>3, <2>4
<1>6. CASE Extends(kind, q)
  <2> HIDE DEF q
  <2>1. \A k \in N : rows[<<kind, k>>].place < q.plan[q.item].place
    BY <1>0, <1>6, CommitAims DEF q
  <2>2. \A k \in Items \ {q.item} : rows'[<<kind, k>>] # NoRow =>
          k \in N /\ rows[<<kind, k>>] # NoRow /\ rows'[<<kind, k>>].place = rows[<<kind, k>>].place
    BY <1>0, <1>6 DEF Extends, Existing
  <2>3. rows'[<<kind, q.item>>].place = q.plan[q.item].place
    BY <1>6 DEF Extends
  <2>4. ASSUME NEW k \in Items \ {q.item}, rows'[<<kind, k>>] # NoRow
        PROVE rows'[<<kind, k>>].place # rows'[<<kind, q.item>>].place
    <3>1. k \in N /\ rows'[<<kind, k>>].place = rows[<<kind, k>>].place
      BY <2>2, <2>4
    <3>2. rows[<<kind, k>>].place < q.plan[q.item].place /\ rows[<<kind, k>>].place \in Nat
      BY <1>0, <2>1, <3>1
    <3> QED
      BY <2>3, <3>1, <3>2
  <2> QED
    BY <1>1, <1>2, <2>2, <2>4
<1> QED
  BY <1>0, <1>3, <1>4, <1>5, <1>6, Outcomes

LEMMA CommitKeepsAims ==
  ASSUME RowsInv, VInv, ListsInv, OverlapInv, PlacesInv, NEW w \in Requests, Write(w),
         NEW r \in Requests, r # w, NEW s, s = request[r], s # NoRow
  PROVE  AimOK(s)' /\ JoinOK(s)'
<1> DEFINE q == request[w]
<1>0. /\ q \in RequestState /\ q # NoRow /\ s \in RequestState /\ AimOK(s) /\ JoinOK(s) /\ overlapped' = overlapped
      /\ s.seen \in [Items -> TableRow \cup {NoRow}]
  BY DEF Write, RowsInv, PlacesInv, RequestState
<1>1. Crossed(q, s) \subseteq overlapped
  BY <1>0 DEF OverlapInv
<1> HIDE DEF q
<1>2. ASSUME s.kind \in {"todo", "nav"} \ overlapped, ChangesUnmoved(s)', AddsTask(s) \/ (Arranges(s) /\ Changed(s) # {})
      PROVE  /\ Existing(List(s.kind))' \subseteq Existing(s.seen)
             /\ Arranges(s) => Distinct(s.seen) /\ Avoids(s)'
  <2> DEFINE kind == s.kind  N == Existing(List(kind))
  <2>1. /\ ChangesUnmoved(s)
        /\ \A i \in Changed(s) : s.seen[i] # NoRow =>
             /\ rows'[<<kind, i>>] = s.seen[i] /\ rows[<<kind, i>>] = s.seen[i]
             /\ q.kind = kind => i \notin Changed(q)
    BY <1>2, StillUnmoved DEF q
  <2>2. /\ N \subseteq Existing(s.seen)
        /\ Arranges(s) => Distinct(s.seen) /\ Avoids(s) /\ Changed(s) \subseteq Existing(s.seen) /\ Changed(s) # {}
    <3>1. Arranges(s) => Changed(s) # {}
      <4> SUFFICES ASSUME AddsTask(s) PROVE Changed(s) # {}
        BY <1>2
      <4>1. s.item \in Items /\ Fresh(0, "open") \in TableRow
        BY <1>0, FreshForms DEF RequestState, Values
      <4>2. s.plan[s.item] = Fresh(0, "open") /\ s.seen[s.item] = NoRow
        BY <4>1 DEF AddsTask, Prepended
      <4> QED
        BY <4>1, <4>2, NoRowIsNoRow DEF Changed
    <3> QED
      BY <1>0, <1>2, <2>1, <3>1, ArrangedPlaces DEF AimOK
  <2>3. \A j \in Items : (j \in N <=> rows[<<kind, j>>] # NoRow) /\ (j \in N' <=> rows'[<<kind, j>>] # NoRow)
    BY DEF Existing, List
  <2>4. N \subseteq Items /\ N' \subseteq Items
    BY DEF Existing
  <2>5. CASE Shrinks(kind)
    <3>1. N' \subseteq N
      BY <2>3, <2>4, <2>5 DEF Shrinks
    <3>2. Avoids(s) => Avoids(s)'
      BY <2>3, <2>5, <3>1 DEF Shrinks, Avoids, Existing
    <3> QED
      BY <2>2, <3>1, <3>2
  <2>6. CASE Renumbers(kind, q)
    <3>1. N' = N
      BY <1>0, <1>2, <2>6, CommitAims DEF q
    <3>2. ASSUME Arranges(s) PROVE Avoids(s)'
      <4>1. Changed(s) \cap Changed(q) = {}
        BY <2>1, <2>2, <2>6, <3>2 DEF Renumbers, Existing
      <4>2. ApartOK(q, s)
        BY <1>0 DEF PlacesInv, q
      <4>3. \A i \in Changed(q), j \in Changed(s) : q.plan[i].place # s.plan[j].place
        BY <1>2, <2>1, <2>6, <3>2, <4>1, <4>2 DEF ApartOK, Renumbers
      <4>4. \A j \in N \ Changed(s), i \in Changed(s) : rows[<<kind, j>>].place # s.plan[i].place
        BY <2>2, <3>2 DEF Avoids
      <4>5. \A j \in N' \ Changed(s), i \in Changed(s) : rows'[<<kind, j>>].place # s.plan[i].place
        BY <2>4, <2>6, <3>1, <4>3, <4>4 DEF Renumbers
      <4> QED
        BY <4>5 DEF Avoids
    <3> QED
      BY <2>2, <3>1, <3>2
  <2>7. CASE Pushes(kind, q)
    <3>1. N = Existing(q.seen) /\ \A j \in Existing(q.seen) : j \in Changed(q) /\ q.kind = kind
      <4>1. \A j \in Items : q.seen[j] # NoRow => j \in Changed(q) /\ q.kind = kind
        BY <2>7 DEF Pushes, AddsTask
      <4> QED
        BY <1>0, <1>2, <2>7, <4>1, CommitAims DEF q, Existing
    <3>2. CASE Arranges(s)
      <4>1. PICK i \in Changed(s) : TRUE
        BY <2>2, <3>2
      <4>2. s.seen[i] # NoRow /\ i \in Items
        BY <2>2, <3>2, <4>1 DEF Existing
      <4>3. i \in N
        BY <2>1, <2>3, <4>2
      <4> QED
        BY <2>1, <3>1, <4>2, <4>3
    <3>3. CASE AddsTask(s)
      <4>1. \A i \in Existing(s.seen) : i \in Changed(s) /\ s.seen[i] # NoRow
        <5> SUFFICES ASSUME NEW i \in Existing(s.seen) PROVE i \in Changed(s) /\ s.seen[i] # NoRow
          OBVIOUS
        <5> DEFINE row == s.seen[i]
        <5>1. i \in Items /\ row # NoRow /\ row \in TableRow /\ i # s.item
          BY <1>0, <3>3 DEF Existing, AddsTask
        <5>2. s.plan[i] = [row EXCEPT !.place = @ + 1]
          BY <3>3, <5>1 DEF AddsTask, Prepended
        <5> HIDE DEF row
        <5>3. s.plan[i].place = row.place + 1 /\ row.place \in Nat
          BY <5>1, <5>2 DEF TableRow
        <5>4. s.plan[i] # row
          BY <5>3
        <5> QED
          BY <5>1, <5>4 DEF Changed, row
      <4>2. Existing(s.seen) = {}
        <5> SUFFICES ASSUME NEW i \in Existing(s.seen) PROVE FALSE
          OBVIOUS
        <5>1. i \in Items /\ i \in Changed(s) /\ s.seen[i] # NoRow
          BY <4>1 DEF Existing
        <5>2. rows[<<kind, i>>] # NoRow
          BY <2>1, <5>1
        <5>3. i \in N
          BY <2>3, <5>1, <5>2
        <5> QED
          BY <2>1, <3>1, <5>1, <5>3
      <4>3. Existing(q.seen) = {}
        BY <2>2, <3>1, <4>2
      <4>4. "todo" \in q.claims /\ "todo" \in s.claims
        BY <2>7, <3>3, <4>2, <4>3 DEF AddsTask, Pushes
      <4>5. "todo" \in Crossed(q, s)
        BY <4>4 DEF Crossed
      <4> QED
        BY <1>1, <1>2, <2>7, <4>5 DEF Pushes
    <3> QED
      BY <1>2, <3>2, <3>3
  <2>8. CASE Extends(kind, q)
    <3>1. s.kind = "nav" /\ JoinsNav(q)
      BY <2>8 DEF Extends
    <3>2. Arranges(s) /\ Changed(s) # {}
      BY <1>2, <3>1 DEF AddsTask
    <3>3. s.item \in Existing(s.plan)
      BY <1>0, <3>2, ArrangedPlaces
    <3>4. MovesNav(s)
      BY <3>1, <3>2, <3>3 DEF MovesNav, Arranges, Existing
    <3>5. "nav" \in Crossed(q, s)
      BY <3>1, <3>4 DEF Crossed
    <3> QED
      BY <1>1, <1>2, <3>1, <3>5
  <2> QED
    BY <1>2, <2>5, <2>6, <2>7, <2>8, Outcomes DEF q
<1>3. AimOK(s)'
  BY <1>0, <1>2 DEF AimOK
<1>4. ASSUME "nav" \notin overlapped, s.kind \in {"nav", "page"}, JoinsNav(s), NEW j \in Existing(List("nav"))'
      PROVE  rows'[<<"nav", j>>].place < s.plan[s.item].place
  <2>1. \A k \in Existing(List("nav")) : rows[<<"nav", k>>].place < s.plan[s.item].place
    BY <1>0, <1>4 DEF JoinOK
  <2>2. j \in Items /\ rows'[<<"nav", j>>] # NoRow /\ (j \in Existing(List("nav")) <=> rows[<<"nav", j>>] # NoRow)
    BY <1>4 DEF Existing, List
  <2>3. CASE Shrinks("nav")
    BY <2>1, <2>2, <2>3 DEF Shrinks
  <2>4. ~ Renumbers("nav", q)
    <3> SUFFICES ASSUME Renumbers("nav", q) PROVE FALSE
      OBVIOUS
    <3>1. q.item \in Existing(q.plan) /\ q.kind = "nav" /\ q.claims = {}
      BY <1>0, ArrangedPlaces DEF Renumbers, Arranges
    <3>2. MovesNav(q)
      BY <3>1 DEF MovesNav, Existing
    <3> QED
      BY <1>1, <1>4, <3>2 DEF Crossed
  <2>5. ~ Pushes("nav", q)
    BY DEF Pushes
  <2>6. ~ Extends("nav", q)
    BY <1>1, <1>4 DEF Extends, Crossed, JoinsNav
  <2> QED
    BY <2>3, <2>4, <2>5, <2>6, Outcomes DEF q
<1>5. JoinOK(s)'
  BY <1>0, <1>4 DEF JoinOK
<1> QED
  BY <1>3, <1>5

\* A request that has just read.
LEMMA BeginPlaces ==
  ASSUME RowsInv, PlacesInv, NEW r \in Requests, NEW q \in RequestState, Starts(r, q),
         Plain(q) \/ \E handle \in Handles : TakesName(q, handle)
  PROVE  /\ AimOK(q)' /\ JoinOK(q)'
         /\ \A s \in RequestState : AimOK(s) => ApartOK(q, s)' /\ ApartOK(s, q)'
<1>0. /\ rows' = rows /\ overlapped \subseteq overlapped' /\ q.seen = List(q.kind) /\ q.kind \in Tables /\ q.item \in Items
      /\ q.seen \in [Items -> TableRow \cup {NoRow}]
  BY DEF Starts, RequestState
<1>1. \A j \in Items : q.seen[j] = rows[<<q.kind, j>>]
  BY <1>0 DEF List
<1>2. Existing(List(q.kind))' = Existing(q.seen)
  BY <1>0 DEF List
<1>3. ASSUME q.kind \in {"todo", "nav"} \ overlapped' PROVE Distinct(q.seen)
  BY <1>0, <1>3 DEF PlacesInv
<1>4. ASSUME Arranges(q), Changed(q) # {} PROVE Avoids(q)'
  <2> SUFFICES ASSUME NEW j \in Existing(q.seen) \ Changed(q), NEW i \in Changed(q)
               PROVE  rows[<<q.kind, j>>].place # q.plan[i].place
    BY <1>0, <1>2 DEF Avoids
  <2>1. i \in Existing(q.seen) /\ q.plan[j].place # q.plan[i].place /\ j \in Items
    BY <1>4, ArrangedPlaces DEF Existing
  <2> QED
    BY <1>1, <2>1 DEF Changed
<1>5. AimOK(q)'
  BY <1>2, <1>3, <1>4 DEF AimOK
<1>6. JoinOK(q)'
  <2> SUFFICES ASSUME q.kind \in {"nav", "page"}, JoinsNav(q), NEW j \in Existing(List("nav"))
               PROVE  rows[<<"nav", j>>].place < q.plan[q.item].place
    BY <1>0 DEF JoinOK, List
  <2>1. AddsPlace(q) \/ SeedsPage(q)
    BY DEF Plain, Prepends, Rearranges, Edits, Creates, Reviews, TakesName, JoinsNav
  <2>2. List("nav") \in [Items -> TableRow \cup {NoRow}] /\ j \in Items /\ List("nav")[j] = rows[<<"nav", j>>]
        /\ List("nav")[j] \in TableRow
    BY ListIsTyped DEF Tables, Existing, List
  <2>3. LastPlace(List("nav")) \in Nat /\ List("nav")[j].place <= LastPlace(List("nav")) /\ List("nav")[j].place \in Nat
    BY <2>2, LastPlaceIsNat DEF TableRow
  <2>4. q.plan[q.item].place = LastPlace(List("nav")) + 1
    BY <1>0, <2>1, <2>3, FreshFields DEF AddsPlace, SeedsPage, Alone
  <2> QED
    BY <2>2, <2>3, <2>4
<1>7. ASSUME NEW s \in RequestState, AimOK(s), q.kind = s.kind, q.kind \in {"todo", "nav"} \ overlapped',
             Arranges(q), Arranges(s), ChangesUnmoved(s), Changed(q) \cap Changed(s) = {},
             NEW i \in Changed(q), NEW j \in Changed(s)
      PROVE  q.plan[i].place # s.plan[j].place
  <2>1. Distinct(s.seen) /\ Existing(List(s.kind)) \subseteq Existing(s.seen)
    BY <1>0, <1>7 DEF AimOK
  <2> QED
    BY <1>0, <1>7, <2>1, BeginApart
<1>8. ASSUME NEW s \in RequestState, AimOK(s) PROVE ApartOK(q, s)' /\ ApartOK(s, q)'
  <2>1. ChangesUnmoved(s)' = ChangesUnmoved(s)
    BY <1>0 DEF ChangesUnmoved
  <2> QED
    BY <1>7, <1>8, <2>1 DEF ApartOK
<1> QED
  BY <1>5, <1>6, <1>8

\* What other requests aim at does not change where the rows do not.
LEMMA StillPlaces ==
  ASSUME rows' = rows, overlapped \subseteq overlapped', NEW q, NEW s
  PROVE  /\ AimOK(q) => AimOK(q)'
         /\ JoinOK(q) => JoinOK(q)'
         /\ ApartOK(q, s) => ApartOK(q, s)'
<1>1. AimOK(q) => AimOK(q)'
  BY DEF AimOK, ChangesUnmoved, List, Avoids
<1>2. JoinOK(q) => JoinOK(q)'
  BY DEF JoinOK, List
<1>3. ApartOK(q, s) => ApartOK(q, s)'
  BY DEF ApartOK, ChangesUnmoved
<1> QED
  BY <1>1, <1>2, <1>3

LEMMA StepPlaces ==
  RowsInv /\ VInv /\ ListsInv /\ OverlapInv /\ PlacesInv /\ [ContentNext]_contentVars => PlacesInv'
<1> SUFFICES ASSUME RowsInv, VInv, ListsInv, OverlapInv, PlacesInv, [ContentNext]_contentVars PROVE PlacesInv'
  OBVIOUS
<1>0. overlapped \subseteq overlapped'
  BY OverlappedGrows
<1>1. \A s \in Requests : request[s] # NoRow => request[s] \in RequestState /\ AimOK(request[s]) /\ JoinOK(request[s])
  BY DEF PlacesInv, RowsInv
<1>2. ASSUME rows' = rows PROVE \A kind \in {"todo", "nav"} \ overlapped' : Distinct(List(kind))'
  BY <1>0, <1>2 DEF PlacesInv, Distinct, List
<1>3. CASE Opening
  <2>1. PICK r \in Requests, q \in RequestState :
          Starts(r, q) /\ (Plain(q) \/ \E handle \in Handles : TakesName(q, handle))
    BY <1>3 DEF Opening
  <2>2. rows' = rows /\ \A s \in Requests : request'[s] = IF s = r THEN q ELSE request[s]
    BY <2>1 DEF Starts, RowsInv
  <2>3. AimOK(q)' /\ JoinOK(q)' /\ \A s \in RequestState : AimOK(s) => ApartOK(q, s)' /\ ApartOK(s, q)'
    BY <2>1, BeginPlaces
  <2>4. ASSUME NEW s \in Requests, NEW p, p = request'[s], p # NoRow PROVE AimOK(p)' /\ JoinOK(p)'
    BY <1>0, <1>1, <2>2, <2>3, <2>4, StillPlaces
  <2>5. ASSUME NEW s \in Requests, NEW t \in Requests, s # t, NEW p, p = request'[s], NEW o, o = request'[t],
               p # NoRow, o # NoRow
        PROVE  ApartOK(p, o)'
    <3>1. CASE s # r /\ t # r
      <4>1. ApartOK(p, o)
        BY <2>2, <2>5, <3>1 DEF PlacesInv
      <4> QED
        BY <1>0, <2>2, <4>1, StillPlaces
    <3>2. CASE s = r
      BY <1>1, <2>2, <2>3, <2>5, <3>2
    <3>3. CASE t = r
      BY <1>1, <2>2, <2>3, <2>5, <3>3
    <3> QED
      BY <3>1, <3>2, <3>3
  <2> QED
    BY <1>2, <2>2, <2>4, <2>5 DEF PlacesInv
<1>4. ASSUME NEW w \in Requests, Write(w) PROVE PlacesInv'
  <2>1. overlapped' = overlapped /\ \A s \in Requests : request'[s] = IF s = w THEN NoRow ELSE request[s]
    BY <1>4 DEF Write, RowsInv
  <2>2. \A kind \in {"todo", "nav"} \ overlapped' : Distinct(List(kind))'
    BY <1>4, <2>1, CommitKeepsDistinct
  <2>3. ASSUME NEW s \in Requests, NEW p, p = request'[s], p # NoRow PROVE AimOK(p)' /\ JoinOK(p)'
    BY <1>4, <2>1, <2>3, CommitKeepsAims
  <2>4. ASSUME NEW s \in Requests, NEW t \in Requests, s # t, NEW p, p = request'[s], NEW o, o = request'[t],
               p # NoRow, o # NoRow
        PROVE  ApartOK(p, o)'
    <3>1. ApartOK(p, o) /\ p = request[s] /\ o = request[t]
      BY <2>1, <2>4 DEF PlacesInv
    <3>2. (ChangesUnmoved(p)' => ChangesUnmoved(p)) /\ (ChangesUnmoved(o)' => ChangesUnmoved(o))
      BY <1>4, <2>4, <3>1, StillUnmoved
    <3> QED
      BY <2>1, <3>1, <3>2 DEF ApartOK
  <2> QED
    BY <2>2, <2>3, <2>4 DEF PlacesInv
<1>5. ASSUME rows' = rows, \A s \in Requests : request'[s] \in {request[s], NoRow} PROVE PlacesInv'
  <2>1. ASSUME NEW s \in Requests, NEW p, p = request'[s], p # NoRow PROVE AimOK(p)' /\ JoinOK(p)'
    BY <1>0, <1>1, <1>5, <2>1, StillPlaces
  <2>2. ASSUME NEW s \in Requests, NEW t \in Requests, s # t, NEW p, p = request'[s], NEW o, o = request'[t],
               p # NoRow, o # NoRow
        PROVE  ApartOK(p, o)'
    <3>1. ApartOK(p, o)
      BY <1>5, <2>2 DEF PlacesInv
    <3> QED
      BY <1>0, <1>5, <3>1, StillPlaces
  <2> QED
    BY <1>2, <1>5, <2>1, <2>2 DEF PlacesInv
<1>6. ASSUME NEW s \in Requests, Fail(s) PROVE PlacesInv'
  BY <1>5, <1>6 DEF Fail, RowsInv
<1>7. CASE NextDay \/ Idles
  BY <1>5, <1>7 DEF NextDay, Idles
<1> QED
  BY <1>3, <1>4, <1>6, <1>7, StepForms

LEMMA StandingPlaces ==
  ASSUME ContentInit, NEW kind \in {"todo", "nav"}
  PROVE  Distinct(List(kind))
<1>1. PICK standing \in {{}, {Seeded}, Items} :
        rows = [id \in Ids |-> IF id[1] = "profile" THEN Fresh(0, NoRow)
                                ELSE IF id[2] \in standing /\ id[1] \in scope THEN Standing(id, standing) ELSE NoRow]
  BY DEF ContentInit
<1>0. standing \in SUBSET Items
  BY NoRowIsNoRow
<1> DEFINE below(i) == {j \in standing : Rank[j] < Rank[i]}
<1>2. ASSUME NEW i \in standing, NEW j \in standing, Rank[i] < Rank[j]
      PROVE  Cardinality(below(i)) < Cardinality(below(j))
  <2>1. IsFiniteSet(below(i)) /\ IsFiniteSet(below(j))
    BY <1>0, FS_Subset, ContentAssumption
  <2>2. below(i) \subseteq below(j) /\ i \in below(j) /\ i \notin below(i)
    BY <1>0, <1>2, ContentAssumption
  <2> HIDE DEF below
  <2>3. Cardinality(below(i)) <= Cardinality(below(j)) /\ Cardinality(below(i)) # Cardinality(below(j))
    BY <2>1, <2>2, FS_Subset
  <2>4. Cardinality(below(i)) \in Nat /\ Cardinality(below(j)) \in Nat
    BY <2>1, FS_CardinalityType
  <2> QED
    BY <2>3, <2>4
<1>3. \A i \in standing : Cardinality(below(i)) \in Nat
  BY <1>0, FS_Subset, FS_CardinalityType, ContentAssumption
<1>4. ASSUME NEW i \in standing, NEW j \in standing, i # j PROVE Cardinality(below(i)) # Cardinality(below(j))
  <2>1. Rank[i] \in Nat /\ Rank[j] \in Nat /\ Rank[i] # Rank[j]
    BY <1>0, <1>4, ContentAssumption
  <2> HIDE DEF below
  <2> QED
    BY <1>2, <1>3, <2>1
<1>5. ASSUME NEW i \in Items, rows[<<kind, i>>] # NoRow
      PROVE  /\ i \in standing
             /\ rows[<<kind, i>>].place = IF kind = "todo" THEN Cardinality(below(i)) ELSE Cardinality(below(i)) + 1
  <2>1. <<kind, i>> \in Ids
    BY DEF Ids, Tables
  <2>2. rows[<<kind, i>>] = Standing(<<kind, i>>, standing) /\ i \in standing
    BY <1>1, <1>5, <2>1
  <2>3. Standing(<<kind, i>>, standing) = IF kind = "todo" THEN Fresh(Cardinality(below(i)), "open")
                                                 ELSE Fresh(Cardinality(below(i)) + 1, "shown")
    BY DEF Standing
  <2> HIDE DEF below
  <2> QED
    BY <2>2, <2>3, FreshFields
<1> HIDE DEF below
<1>6. ASSUME NEW i \in Existing(List(kind)), NEW j \in Existing(List(kind)), i # j
      PROVE  List(kind)[i].place # List(kind)[j].place
  <2>1. i \in Items /\ j \in Items /\ rows[<<kind, i>>] # NoRow /\ rows[<<kind, j>>] # NoRow
        /\ List(kind)[i] = rows[<<kind, i>>] /\ List(kind)[j] = rows[<<kind, j>>]
    BY DEF Existing, List
  <2> QED
    BY <1>3, <1>4, <1>5, <1>6, <2>1
<1> QED
  BY <1>6 DEF Distinct

LEMMA InitPlaces == ContentInit => ListsInv /\ OverlapInv /\ PlacesInv
<1> SUFFICES ASSUME ContentInit PROVE ListsInv /\ OverlapInv /\ PlacesInv
  OBVIOUS
<1>1. \A r \in Requests : request[r] = NoRow
  BY DEF ContentInit
<1> QED
  BY <1>1, StandingPlaces DEF ListsInv, OverlapInv, PlacesInv
-----------------------------------------------------------------------------
(* Handles. *)
Named == {"profile", "organization"}

\* A request about a profile or an organization changes that row alone, and its handle only to one it claims.
NameShape(q) ==
  q.kind \in Named =>
    /\ \A j \in Items \ {q.item} : q.plan[j] = q.seen[j]
    /\ q.plan[q.item] # NoRow
    /\ \/ q.plan[q.item].value \in q.claims
       \/ q.seen[q.item] # NoRow /\ q.plan[q.item].value = q.seen[q.item].value

\* A handle claimed by a request that no other crossed is nobody else's.
StillFree(q) ==
  \A handle \in (Handles \cap q.claims) \ (overlapped \cup unseen) :
    q.kind \in Named /\ q.plan[q.item].value = handle => Holders(handle) \subseteq {<<q.kind, q.item>>}

OncePerList(kind) ==
  \A i, j \in Existing(List(kind)) :
    i # j /\ rows[<<kind, i>>].value = rows[<<kind, j>>].value => rows[<<kind, i>>].value = NoRow

NamesInv ==
  /\ \A kind \in Named : OncePerList(kind)
  /\ \A handle \in Handles \ (overlapped \cup unseen) : \A h, g \in Holders(handle) : h = g
  /\ \A r \in Requests : request[r] # NoRow => NameShape(request[r]) /\ StillFree(request[r])

LEMMA NamesAreShaped ==
  ASSUME RowsInv, NEW q \in RequestState, q.seen = List(q.kind),
         Plain(q) \/ \E handle \in Handles : TakesName(q, handle)
  PROVE  NameShape(q)
<1>0. q.kind \in Tables /\ q.item \in Items /\ q.seen \in [Items -> TableRow \cup {NoRow}]
      /\ q.plan \in [Items -> TableRow \cup {NoRow}] /\ q.seen[q.item] = Old(q)
  BY DEF RequestState, List, Old
<1> SUFFICES ASSUME q.kind \in Named PROVE NameShape(q)
  BY DEF NameShape
<1>1. CASE Plain(q)
  <2>1. Edits(q)
    BY <1>1 DEF Plain, Prepends, Rearranges, Creates, Created, SeedsPage, AddsPlace, Reviews, Named
  <2>2. \A j \in Items \ {q.item} : q.plan[j] = q.seen[j]
    BY <1>0, <2>1 DEF Edits, Alone
  <2>3. PICK v \in Nat : q.plan[q.item] = [Old(q) EXCEPT !.version = v]
    BY <2>1 DEF Edits, Amended, Named
  <2> DEFINE old == Old(q)  row == q.plan[q.item]
  <2>4. old # NoRow /\ old \in TableRow
    BY <1>0, <2>1 DEF Edits
  <2>5. row \in TableRow /\ row.value = old.value
    <3>1. row = [old EXCEPT !.version = v]
      BY <2>3
    <3> HIDE DEF old, row
    <3> QED
      BY <2>4, <3>1, VersionedRow
  <2> QED
    BY <1>0, <2>2, <2>4, <2>5, NoRowIsNoRow DEF NameShape
<1>2. ASSUME NEW handle \in Handles, TakesName(q, handle) PROVE NameShape(q)
  <2>1. handle \in Values /\ handle \in q.claims
    BY <1>2 DEF Values, TakesName
  <2>2. PICK row \in TableRow : row.value = handle /\ Alone(q, row)
    <3>1. CASE Old(q) # NoRow /\ Alone(q, [Old(q) EXCEPT !.value = handle])
      <4> DEFINE old == Old(q)
      <4>1. old \in TableRow
        BY <1>0, <3>1
      <4>2. [old EXCEPT !.value = handle] \in TableRow /\ [old EXCEPT !.value = handle].value = handle
        <5> HIDE DEF old
        <5> QED
          BY <2>1, <4>1 DEF TableRow
      <4> QED
        BY <3>1, <4>2
    <3>2. CASE Alone(q, Fresh(0, handle)) \/ Alone(q, Fresh(1, handle))
      BY <2>1, <3>2, FreshForms, FreshFields
    <3> QED
      BY <1>2, <3>1, <3>2 DEF TakesName
  <2>3. q.plan[q.item] = row /\ \A j \in Items \ {q.item} : q.plan[j] = q.seen[j]
    BY <1>0, <2>2 DEF Alone
  <2> QED
    BY <2>1, <2>2, <2>3, NoRowIsNoRow DEF NameShape
<1> QED
  BY <1>1, <1>2

LEMMA UnseenGrows ==
  ASSUME RowsInv, [ContentNext]_contentVars
  PROVE  unseen \subseteq unseen'
BY StepForms DEF Opening, TakesName, Idles

LEMMA TakenFree ==
  ASSUME RowsInv, NEW q \in RequestState, rows' = rows, q.seen = List(q.kind),
         Plain(q) \/ \E handle \in Handles : TakesName(q, handle)
  PROVE  StillFree(q)'
<1> SUFFICES ASSUME NEW handle \in Handles, handle \in q.claims, handle \notin unseen', q.kind \in Named,
                    q.plan[q.item].value = handle
             PROVE  Holders(handle) \subseteq {<<q.kind, q.item>>}
  BY DEF StillFree, Holders
<1>1. ~ Plain(q)
  BY DEF Plain, Prepends, Rearranges, Edits, Creates, Created, SeedsPage, AddsPlace, Reviews, Named
<1>2. PICK name \in Handles : TakesName(q, name)
  BY <1>1
<1>3. name = handle
  <2>0. q.kind \in Tables /\ q.item \in Items /\ q.seen \in [Items -> TableRow \cup {NoRow}] /\ q.seen[q.item] = Old(q)
    BY DEF RequestState, List, Old
  <2>1. CASE Old(q) # NoRow /\ Alone(q, [Old(q) EXCEPT !.value = name])
    <3> DEFINE old == Old(q)
    <3>1. old \in TableRow /\ q.plan[q.item] = [old EXCEPT !.value = name]
      BY <2>0, <2>1 DEF Alone
    <3> HIDE DEF old
    <3> QED
      BY <3>1 DEF TableRow
  <2>2. CASE Alone(q, Fresh(0, name)) \/ Alone(q, Fresh(1, name))
    BY <2>0, <2>2, FreshFields DEF Alone
  <2> QED
    BY <1>2, <2>1, <2>2 DEF TakesName
<1>4. PICK shown : /\ Available(handle, <<q.kind, q.item>>, shown)
                   /\ unseen' = IF Holders(handle) \subseteq shown \cup {<<q.kind, q.item>>} THEN unseen
                                                                                            ELSE unseen \cup {handle}
  BY <1>2, <1>3 DEF TakesName
<1>5. Holders(handle) \subseteq shown \cup {<<q.kind, q.item>>}
  BY <1>4
<1> QED
  BY <1>4, <1>5 DEF Available

\* What a commit does to the rows that hold handles: one of them changes, if any.
LEMMA CommitNames ==
  ASSUME RowsInv, VInv, NEW w \in Requests, Write(w), NEW q, q = request[w], NameShape(q),
         NEW kind \in Named, NEW i \in Items
  PROVE  \/ rows'[<<kind, i>>] = rows[<<kind, i>>]
         \/ /\ kind = q.kind /\ i = q.item /\ rows'[<<kind, i>>] # NoRow
            /\ rows'[<<kind, i>>].value = q.plan[i].value /\ Unique(q, i) /\ q.plan[i] # NoRow
            /\ q.seen[i] # NoRow => rows[<<kind, i>>] = q.seen[i]
<1>0. q \in RequestState /\ q # NoRow /\ Allowed(q) /\ kind \in Tables /\ kind # "nav"
      /\ rows'[<<kind, i>>] = Leave(q, <<kind, i>>)
  <2>1. kind \in Tables /\ kind # "nav"
    BY DEF Named, Tables
  <2>2. q \in RequestState /\ q # NoRow /\ Allowed(q)
    BY DEF Write, RowsInv
  <2> QED
    BY <2>1, <2>2, WriteLeaves
<1>1. CASE kind # q.kind \/ i \notin Changed(q)
  BY <1>0, <1>1, LeaveCases
<1>2. CASE kind = q.kind /\ i \in Changed(q)
  <2>1. i = q.item /\ q.plan[i] # NoRow
    BY <1>2 DEF NameShape, Changed
  <2>2. rows'[<<kind, i>>] # NoRow /\ rows'[<<kind, i>>].value = q.plan[i].value
    BY <1>0, <1>2, <2>1, LeaveCases
  <2>3. Unique(q, i)
    BY <1>0, <1>2, <2>1 DEF Allowed
  <2>4. q.seen[i] # NoRow => rows[<<kind, i>>] = q.seen[i]
    BY <1>0, <1>2, WriteUnmoved DEF ChangesUnmoved, Named
  <2> QED
    BY <1>2, <2>1, <2>2, <2>3, <2>4
<1> QED
  BY <1>1, <1>2

LEMMA HoldersAfter ==
  ASSUME RowsInv, VInv, NEW w \in Requests, Write(w), NEW q, q = request[w], NameShape(q),
         NEW handle \in Handles, NEW h \in Holders(handle)'
  PROVE  \/ h \in Holders(handle)
         \/ q.kind \in Named /\ h = <<q.kind, q.item>> /\ q.plan[q.item].value = handle /\ handle \in q.claims
<1>1. PICK kind \in Named, i \in Items : h = <<kind, i>>
  BY DEF Holders, Named
<1>2. rows'[<<kind, i>>] # NoRow /\ rows'[<<kind, i>>].value = handle
  BY <1>1 DEF Holders
<1>3. rows[<<kind, i>>] # NoRow /\ rows[<<kind, i>>].value = handle => h \in Holders(handle)
  BY <1>1 DEF Holders, Named
<1>4. CASE rows'[<<kind, i>>] = rows[<<kind, i>>]
  BY <1>2, <1>3, <1>4
<1>5. CASE /\ kind = q.kind /\ i = q.item /\ rows'[<<kind, i>>].value = q.plan[i].value
           /\ q.seen[i] # NoRow => rows[<<kind, i>>] = q.seen[i]
  BY <1>1, <1>2, <1>3, <1>5 DEF NameShape
<1> QED
  BY <1>4, <1>5, CommitNames

LEMMA StepNames == RowsInv /\ VInv /\ OverlapInv /\ NamesInv /\ [ContentNext]_contentVars => NamesInv'
<1> SUFFICES ASSUME RowsInv, VInv, OverlapInv, NamesInv, [ContentNext]_contentVars PROVE NamesInv'
  OBVIOUS
<1>0. overlapped \subseteq overlapped' /\ unseen \subseteq unseen'
  BY OverlappedGrows, UnseenGrows
<1>1. ASSUME rows' = rows PROVE NamesInv'
  <2>1. \A kind \in Named : OncePerList(kind)'
    BY <1>1 DEF NamesInv, OncePerList, List
  <2>2. \A handle \in Handles \ (overlapped \cup unseen)' : \A h, g \in Holders(handle)' : h = g
    BY <1>0, <1>1 DEF NamesInv, Holders
  <2>3. ASSUME NEW r \in Requests, request'[r] # NoRow, NEW q, q = request'[r] PROVE NameShape(q) /\ StillFree(q)'
    <3>1. CASE q = request[r]
      BY <1>0, <1>1, <2>3, <3>1 DEF NamesInv, StillFree, Holders
    <3>2. CASE q.seen = List(q.kind) /\ q \in RequestState /\ (Plain(q) \/ \E handle \in Handles : TakesName(q, handle))
      BY <1>1, <3>2, TakenFree, NamesAreShaped
    <3> QED
      BY <2>3, <3>1, <3>2, InFlightAfter
  <2>4. \A r \in Requests : request'[r] # NoRow => NameShape(request'[r]) /\ StillFree(request[r])'
    BY <2>3
  <2> QED
    BY <2>1, <2>2, <2>4 DEF NamesInv, NameShape
<1>2. ASSUME NEW w \in Requests, Write(w) PROVE NamesInv'
  <2> DEFINE q == request[w]
  <2>0. /\ q \in RequestState /\ q # NoRow /\ NameShape(q) /\ StillFree(q) /\ q.item \in Items
        /\ overlapped' = overlapped
        /\ \A s \in Requests : request'[s] = IF s = w THEN NoRow ELSE request[s]
    BY <1>2 DEF Write, RowsInv, NamesInv, RequestState
  <2> HIDE DEF q
  <2>1. ASSUME NEW kind \in Named, NEW i \in Items, NEW j \in Items, i # j,
               rows'[<<kind, i>>] # NoRow, rows'[<<kind, j>>] # NoRow,
               rows'[<<kind, i>>].value = rows'[<<kind, j>>].value
        PROVE  rows'[<<kind, i>>].value = NoRow
    <3>1. \A k, l \in Items : k # l /\ rows[<<kind, k>>] # NoRow /\ rows[<<kind, l>>] # NoRow
             /\ rows[<<kind, k>>].value = rows[<<kind, l>>].value => rows[<<kind, k>>].value = NoRow
      BY DEF NamesInv, OncePerList, Existing, List
    <3>2. \A k \in Items : \/ rows'[<<kind, k>>] = rows[<<kind, k>>]
                           \/ /\ kind = q.kind /\ k = q.item /\ rows'[<<kind, k>>].value = q.plan[k].value
                              /\ Unique(q, k) /\ q.plan[k] # NoRow
      BY <1>2, <2>0, CommitNames DEF q
    <3>3. CASE rows'[<<kind, i>>] = rows[<<kind, i>>] /\ rows'[<<kind, j>>] = rows[<<kind, j>>]
      BY <2>1, <3>1, <3>3
    <3>4. CASE rows'[<<kind, i>>] # rows[<<kind, i>>]
      BY <2>1, <3>2, <3>4 DEF Unique, Named
    <3>5. CASE rows'[<<kind, j>>] # rows[<<kind, j>>]
      BY <2>1, <3>2, <3>5 DEF Unique, Named
    <3> QED
      BY <3>3, <3>4, <3>5
  <2>2. \A kind \in Named : OncePerList(kind)'
    BY <2>1 DEF OncePerList, Existing, List
  <2>3. ASSUME NEW handle \in Handles \ (overlapped \cup unseen)', NEW h \in Holders(handle)', NEW g \in Holders(handle)'
        PROVE  h = g
    <3>1. handle \in Handles \ (overlapped \cup unseen)
      BY <1>0
    <3>2. handle \in q.claims /\ q.kind \in Named /\ q.plan[q.item].value = handle =>
            Holders(handle) \subseteq {<<q.kind, q.item>>}
      BY <2>0, <3>1 DEF StillFree
    <3>3. \A a, b \in Holders(handle) : a = b
      BY <3>1 DEF NamesInv
    <3>4. \A a \in Holders(handle)' :
            \/ a \in Holders(handle)
            \/ q.kind \in Named /\ a = <<q.kind, q.item>> /\ q.plan[q.item].value = handle /\ handle \in q.claims
      BY <1>2, <2>0, HoldersAfter DEF q
    <3> QED
      BY <3>2, <3>3, <3>4
  <2>4. ASSUME NEW r \in Requests, request'[r] # NoRow, NEW s, s = request'[r] PROVE NameShape(s) /\ StillFree(s)'
    <3>1. r # w /\ s = request[r] /\ NameShape(s) /\ StillFree(s)
      BY <2>0, <2>4 DEF NamesInv
    <3>2. q.claims \cap s.claims \subseteq overlapped
      BY <2>0, <2>4, <3>1 DEF OverlapInv, Crossed, q
    <3>3. ASSUME NEW handle \in (Handles \cap s.claims) \ (overlapped \cup unseen)', s.kind \in Named,
                 s.plan[s.item].value = handle, NEW h \in Holders(handle)'
          PROVE  h = <<s.kind, s.item>>
      <4>1. Holders(handle) \subseteq {<<s.kind, s.item>>}
        BY <1>0, <3>1, <3>3 DEF StillFree
      <4>2. h \in Holders(handle) \/ handle \in q.claims
        BY <1>2, <2>0, <3>3, HoldersAfter DEF q
      <4> QED
        BY <2>0, <3>2, <3>3, <4>1, <4>2
    <3> QED
      BY <3>1, <3>3 DEF StillFree
  <2>5. \A r \in Requests : request'[r] # NoRow => NameShape(request'[r]) /\ StillFree(request[r])'
    BY <2>4
  <2> QED
    BY <2>2, <2>3, <2>5 DEF NamesInv, NameShape
<1>3. Opening => rows' = rows
  BY DEF Opening, Starts
<1>4. \A r \in Requests : Fail(r) => rows' = rows
  BY DEF Fail
<1>5. NextDay \/ Idles => rows' = rows
  BY DEF NextDay, Idles
<1> QED
  BY <1>1, <1>2, <1>3, <1>4, <1>5, StepForms

LEMMA InitNames == ContentInit => NamesInv
<1> SUFFICES ASSUME ContentInit PROVE NamesInv
  OBVIOUS
<1>1. ASSUME NEW kind \in Named, NEW i \in Items, rows[<<kind, i>>] # NoRow PROVE rows[<<kind, i>>].value = NoRow
  <2>1. <<kind, i>> \in Ids
    BY DEF Named, Ids, Tables
  <2>2. rows[<<kind, i>>] = Fresh(0, NoRow)
    BY <1>1, <2>1 DEF ContentInit, Standing, Named
  <2> QED
    BY <2>2, FreshFields
<1>2. \A kind \in Named : OncePerList(kind)
  BY <1>1 DEF OncePerList, Existing, List
<1>3. \A handle \in Handles : Holders(handle) = {}
  BY <1>1, NoRowIsNoRow DEF Holders, Named, Values
<1>4. \A r \in Requests : request[r] = NoRow
  BY DEF ContentInit
<1> QED
  BY <1>2, <1>3, <1>4 DEF NamesInv

\* No two items of a list share a position, nor two rows a handle, but where UniqueUnlessRaced says so.
THEOREM NothingTwiceUnlessRaced == ContentSpec => []UniqueUnlessRaced
<1> DEFINE IInv == RowsInv /\ VInv /\ ListsInv /\ OverlapInv /\ PlacesInv /\ NamesInv
<1>1. ContentInit => IInv
  BY InitTyped, InitNotes, InitPlaces, InitNames
<1>2. IInv /\ [ContentNext]_contentVars => IInv'
  BY StepRowsTyped, StepVersions, StepLists, StepOverlap, StepPlaces, StepNames
<1>3. IInv => UniqueUnlessRaced
  <2> SUFFICES ASSUME IInv PROVE UniqueUnlessRaced
    OBVIOUS
  <2>1. ASSUME NEW kind \in {"todo", "nav"} \ overlapped, NEW i \in Existing(List(kind)), NEW j \in Existing(List(kind)),
               i # j
        PROVE  rows[<<kind, i>>].place # rows[<<kind, j>>].place
    BY <2>1 DEF PlacesInv, Distinct, List, Existing
  <2>2. ASSUME NEW handle \in Handles, NEW h \in Holders(handle), NEW g \in Holders(handle), h # g
        PROVE  h[1] # g[1] /\ handle \in overlapped \cup unseen
    <3>1. handle \in overlapped \cup unseen
      BY <2>2 DEF NamesInv
    <3>2. PICK kind \in Named, i \in Items : h = <<kind, i>>
      BY DEF Holders, Named
    <3>3. PICK gkind \in Named, j \in Items : g = <<gkind, j>>
      BY DEF Holders, Named
    <3>4. /\ rows[<<kind, i>>] # NoRow /\ rows[<<kind, i>>].value = handle
          /\ rows[<<gkind, j>>] # NoRow /\ rows[<<gkind, j>>].value = handle
      BY <3>2, <3>3 DEF Holders
    <3>5. handle # NoRow
      BY NoRowIsNoRow DEF Values
    <3>6. kind # gkind
      <4> SUFFICES ASSUME kind = gkind PROVE FALSE
        OBVIOUS
      <4>1. i # j /\ i \in Existing(List(kind)) /\ j \in Existing(List(kind))
        BY <2>2, <3>2, <3>3, <3>4 DEF Existing, List
      <4> QED
        BY <3>4, <3>5, <4>1 DEF NamesInv, OncePerList
    <3> QED
      BY <3>1, <3>2, <3>3, <3>6
  <2> QED
    BY <2>1, <2>2 DEF UniqueUnlessRaced
<1> QED
  <2> HIDE DEF IInv
  <2> QED
    BY <1>1, <1>2, <1>3, PTL DEF ContentSpec
-----------------------------------------------------------------------------
(* Limits. *)
MarkedOn(date) == {i \in Existing(List("card")) : rows[<<"card", i>>].value = date}

CardShape(q) ==
  q.kind = "card" =>
    /\ \A j \in Items \ {q.item} : q.plan[j] = q.seen[j]
    /\ q.plan[q.item] # NoRow /\ q.plan[q.item].place \in 1..9
    /\ \E d \in 0..today :
         /\ q.plan[q.item].value = Day[d]
         /\ q.seen[q.item] # NoRow => \E e \in 0..d : q.seen[q.item].value = Day[e]
    /\ "card" \notin q.claims => q.seen[q.item] # NoRow /\ q.seen[q.item].value = q.plan[q.item].value

CardRow(i) ==
  rows[<<"card", i>>] # NoRow =>
    rows[<<"card", i>>].place \in 1..9 /\ \E d \in 0..today : rows[<<"card", i>>].value = Day[d]

\* What a review was counted with still holds of its day, unless another was counted with it.
CountHolds(q) ==
  "card" \notin overlapped /\ q.kind = "card" =>
    /\ "card" \in q.claims =>
         /\ Cardinality(MarkedOn(q.plan[q.item].value)) < DailyLimit
         /\ q.item \notin MarkedOn(q.plan[q.item].value)
    /\ q.seen[q.item] = NoRow => rows[<<"card", q.item>>] = NoRow

CardsInv ==
  /\ \A i \in Items : CardRow(i)
  /\ "card" \notin overlapped => \A d \in 0..MaxDay : Cardinality(MarkedOn(Day[d])) <= DailyLimit
  /\ \A r \in Requests : request[r] # NoRow => CardShape(request[r]) /\ CountHolds(request[r])

\* A request about an organization edits it where it stands, or makes it for its founder.
OrgShape(q) ==
  q.kind = "organization" =>
    /\ q.seen[q.item] # NoRow => q.plan[q.item].place = q.seen[q.item].place
    /\ q.seen[q.item] = NoRow => Founder[q.item] \in q.claims /\ q.plan[q.item].place \in {0, 1}

RoomHolds(q) ==
  q.kind = "organization" /\ q.seen[q.item] = NoRow /\ Founder[q.item] \notin overlapped =>
    IF q.plan[q.item].place = 0 THEN Cardinality(Owned(Founder[q.item])) < MaxOwned
                                ELSE PersonalOwned(Founder[q.item]) = {}

OwnersInv ==
  /\ \A user \in Items \ overlapped : Cardinality(PersonalOwned(user)) <= 1
  /\ \A r \in Requests : request[r] # NoRow => OrgShape(request[r]) /\ RoomHolds(request[r])

LEMMA LimitsAreNumbers == Limit \in Nat /\ DailyLimit \in Nat /\ MaxOwned \in Nat
BY ContentAssumption

LEMMA SmallSets ==
  ASSUME NEW S \in SUBSET Items
  PROVE  IsFiniteSet(S) /\ Cardinality(S) \in Nat /\ \A T \in SUBSET S : Cardinality(T) <= Cardinality(S)
BY FS_Subset, FS_CardinalityType, ContentAssumption

LEMMA OneMore ==
  ASSUME NEW S \in SUBSET Items, NEW i
  PROVE  Cardinality(S \cup {i}) \in Nat /\ Cardinality(S \cup {i}) <= Cardinality(S) + 1
BY SmallSets, FS_AddElement, FS_CardinalityType

LEMMA ScheduledMarks ==
  ASSUME RowsInv, NEW i \in Items, NEW learned \in BOOLEAN, NEW made, made = Scheduled(i, learned)
  PROVE  made # NoRow /\ made.place \in 1..9 /\ made.value = Day[today]
<1> DEFINE next == IF learned THEN Level(i) + 1 ELSE 1
           row == IF rows[<<"card", i>>] = NoRow THEN Fresh(0, Day[today]) ELSE rows[<<"card", i>>]
           level == IF next > 9 THEN 9 ELSE next
<1>1. "card" \in Tables /\ Day[today] \in Values
  BY DEF Tables, Values, RowsInv
<1>2. row \in TableRow
  <2>1. Fresh(0, Day[today]) \in TableRow
    BY <1>1, FreshForms
  <2> QED
    BY <1>1, <2>1, RowIsTyped
<1>3. Level(i) \in Nat
  BY <1>1, RowIsTyped DEF Level, TableRow
<1>4. level \in 1..9
  BY <1>3
<1>5. made = [row EXCEPT !.place = level, !.value = Day[today]]
  BY DEF Scheduled
<1> HIDE DEF level, row
<1>6. made.place = level /\ made.value = Day[today]
  BY <1>2, <1>5 DEF TableRow
<1> QED
  BY <1>4, <1>6, ScheduledIsTyped, NoRowIsNoRow

LEMMA BeginCard ==
  ASSUME RowsInv, \A i \in Items : CardRow(i), NEW q \in RequestState, q.seen = List(q.kind),
         rows' = rows, today' = today, overlapped \subseteq overlapped',
         Plain(q) \/ \E handle \in Handles : TakesName(q, handle)
  PROVE  CardShape(q)' /\ CountHolds(q)'
<1>0. q.item \in Items /\ q.seen \in [Items -> TableRow \cup {NoRow}] /\ today \in Nat
      /\ \A j \in Items : q.seen[j] = rows[<<q.kind, j>>]
  BY DEF RequestState, RowsInv, List
<1> SUFFICES ASSUME q.kind = "card" PROVE CardShape(q)' /\ CountHolds(q)'
  BY DEF CardShape, CountHolds
<1>1. Reviews(q)
  BY DEF Plain, Prepends, Rearranges, Edits, Amended, Creates, Created, SeedsPage, AddsPlace, TakesName
<1>2. PICK learned \in BOOLEAN : Alone(q, Scheduled(q.item, learned))
  BY <1>1 DEF Reviews
<1>3. q.plan[q.item] = Scheduled(q.item, learned) /\ \A j \in Items \ {q.item} : q.plan[j] = q.seen[j]
  BY <1>0, <1>2 DEF Alone
<1>4. q.plan[q.item] # NoRow /\ q.plan[q.item].place \in 1..9 /\ q.plan[q.item].value = Day[today]
  BY <1>0, <1>3, ScheduledMarks
<1>5. q.seen[q.item] # NoRow => \E e \in 0..today : q.seen[q.item].value = Day[e]
  BY <1>0 DEF CardRow
<1>6. MarkedOn(Day[today]) = ReviewedOn(today)
  BY DEF MarkedOn, ReviewedOn
<1>7. q.item \in ReviewedOn(today) <=> q.seen[q.item] # NoRow /\ q.seen[q.item].value = Day[today]
  BY <1>0 DEF ReviewedOn, Existing, List
<1>8. CardShape(q)
  <2>1. today \in 0..today
    BY <1>0
  <2>2. "card" \notin q.claims => q.item \in ReviewedOn(today)
    BY <1>1 DEF Reviews
  <2> QED
    BY <1>3, <1>4, <1>5, <1>7, <2>1, <2>2 DEF CardShape
<1>9. CountHolds(q)
  <2>1. "card" \in q.claims => q.item \notin ReviewedOn(today) /\ Cardinality(ReviewedOn(today)) < DailyLimit
    BY <1>1 DEF Reviews, RoomForReview
  <2> QED
    BY <1>0, <1>4, <1>6, <2>1 DEF CountHolds
<1> QED
  BY <1>8, <1>9 DEF CardShape, CountHolds, MarkedOn, List

\* What a commit does to the cards: one of them changes, if any.
LEMMA CommitCard ==
  ASSUME RowsInv, VInv, NEW w \in Requests, Write(w), NEW q, q = request[w], CardShape(q), NEW i \in Items
  PROVE  \/ rows'[<<"card", i>>] = rows[<<"card", i>>]
         \/ /\ q.kind = "card" /\ i = q.item /\ rows'[<<"card", i>>] # NoRow
            /\ rows'[<<"card", i>>].value = q.plan[i].value /\ rows'[<<"card", i>>].place = q.plan[i].place
            /\ q.seen[i] # NoRow => rows[<<"card", i>>] = q.seen[i]
<1>0. q \in RequestState /\ q # NoRow /\ Allowed(q) /\ "card" \in Tables
      /\ rows'[<<"card", i>>] = Leave(q, <<"card", i>>)
  <2>1. "card" \in Tables
    BY DEF Tables
  <2>2. q \in RequestState /\ q # NoRow /\ Allowed(q)
    BY DEF Write, RowsInv
  <2> QED
    BY <2>1, <2>2, WriteLeaves
<1>1. CASE q.kind # "card" \/ i \notin Changed(q)
  BY <1>0, <1>1, LeaveCases
<1>2. CASE q.kind = "card" /\ i \in Changed(q)
  <2>1. i = q.item /\ q.plan[i] # NoRow
    BY <1>2 DEF CardShape, Changed
  <2>2. rows'[<<"card", i>>] # NoRow /\ rows'[<<"card", i>>].value = q.plan[i].value
        /\ rows'[<<"card", i>>].place = q.plan[i].place
    BY <1>0, <1>2, <2>1, LeaveCases
  <2>3. q.seen[i] # NoRow => rows[<<"card", i>>] = q.seen[i]
    BY <1>0, <1>2 DEF Allowed, Unstale, VInv
  <2> QED
    BY <1>2, <2>1, <2>2, <2>3
<1> QED
  BY <1>1, <1>2

LEMMA CommitMarks ==
  ASSUME RowsInv, VInv, NEW w \in Requests, Write(w), NEW q, q = request[w], CardShape(q), CountHolds(q),
         "card" \notin overlapped
  PROVE  /\ q.kind # "card" \/ "card" \notin q.claims => \A v : MarkedOn(v)' = MarkedOn(v)
         /\ \A v : MarkedOn(v)' \subseteq IF q.kind = "card" /\ "card" \in q.claims /\ q.plan[q.item].value = v
                                            THEN MarkedOn(v) \cup {q.item} ELSE MarkedOn(v)
         /\ q.kind = "card" /\ q.seen[q.item] = NoRow => rows[<<"card", q.item>>] = NoRow
<1> DEFINE CardOf(i) == rows[<<"card", i>>]
<1>1. \A i \in Items : \/ rows'[<<"card", i>>] = CardOf(i)
                       \/ /\ q.kind = "card" /\ i = q.item /\ rows'[<<"card", i>>] # NoRow
                          /\ rows'[<<"card", i>>].value = q.plan[i].value
                          /\ q.seen[i] # NoRow => CardOf(i) = q.seen[i]
  BY CommitCard
<1>2. \A v : \A i : /\ i \in MarkedOn(v) <=> i \in Items /\ CardOf(i) # NoRow /\ CardOf(i).value = v
                    /\ i \in MarkedOn(v)' <=> i \in Items /\ rows'[<<"card", i>>] # NoRow /\ rows'[<<"card", i>>].value = v
  BY DEF MarkedOn, Existing, List
<1> HIDE DEF CardOf
<1>3. ASSUME q.kind # "card" \/ "card" \notin q.claims, NEW v PROVE MarkedOn(v)' = MarkedOn(v)
  <2>1. \A i \in Items : \/ rows'[<<"card", i>>] = CardOf(i)
                         \/ /\ rows'[<<"card", i>>] # NoRow /\ CardOf(i) # NoRow
                            /\ rows'[<<"card", i>>].value = CardOf(i).value
    BY <1>1, <1>3 DEF CardShape
  <2>2. \A i : i \in MarkedOn(v)' <=> i \in MarkedOn(v)
    BY <1>2, <2>1
  <2> QED
    BY <2>2
<1>4. ASSUME NEW v, NEW i \in MarkedOn(v)', i \notin MarkedOn(v)
      PROVE  q.kind = "card" /\ "card" \in q.claims /\ q.plan[q.item].value = v /\ i = q.item
  <2>1. i \in Items /\ rows'[<<"card", i>>].value = v /\ ~ (CardOf(i) # NoRow /\ CardOf(i).value = v)
        /\ rows'[<<"card", i>>] # NoRow
    BY <1>2, <1>4
  <2>2. q.kind = "card" /\ i = q.item /\ q.plan[i].value = v
    BY <1>1, <2>1
  <2>3. MarkedOn(v)' # MarkedOn(v)
    BY <1>4
  <2>4. "card" \in q.claims
    BY <1>3, <2>3
  <2> QED
    BY <2>2, <2>4
<1>5. q.kind = "card" /\ q.seen[q.item] = NoRow => rows[<<"card", q.item>>] = NoRow
  BY DEF CountHolds
<1> QED
  BY <1>3, <1>4, <1>5

LEMMA StepCards == RowsInv /\ VInv /\ OverlapInv /\ CardsInv /\ [ContentNext]_contentVars => CardsInv'
<1> SUFFICES ASSUME RowsInv, VInv, OverlapInv, CardsInv, [ContentNext]_contentVars PROVE CardsInv'
  OBVIOUS
<1>0. overlapped \subseteq overlapped' /\ today \in Nat
  BY OverlappedGrows DEF RowsInv
<1>1. ASSUME rows' = rows, today' = today PROVE CardsInv'
  <2>1. \A i \in Items : CardRow(i)'
    BY <1>1 DEF CardsInv, CardRow
  <2>2. "card" \notin overlapped' => \A d \in 0..MaxDay : Cardinality(MarkedOn(Day[d]))' <= DailyLimit
    BY <1>0, <1>1 DEF CardsInv, MarkedOn, List
  <2>3. ASSUME NEW r \in Requests, request'[r] # NoRow, NEW q, q = request'[r] PROVE CardShape(q)' /\ CountHolds(q)'
    <3>1. CASE q = request[r]
      <4>1. CardShape(q) /\ CountHolds(q)
        BY <2>3, <3>1 DEF CardsInv
      <4> QED
        BY <1>0, <1>1, <4>1 DEF CardShape, CountHolds, MarkedOn, List
    <3>2. CASE q.seen = List(q.kind) /\ q \in RequestState /\ (Plain(q) \/ \E handle \in Handles : TakesName(q, handle))
      BY <1>0, <1>1, <3>2, BeginCard DEF CardsInv
    <3> QED
      BY <2>3, <3>1, <3>2, InFlightAfter
  <2>4. \A r \in Requests : request'[r] # NoRow => CardShape(request[r])' /\ CountHolds(request[r])'
    BY <2>3
  <2> QED
    BY <2>1, <2>2, <2>4 DEF CardsInv
<1>2. ASSUME NEW w \in Requests, Write(w) PROVE CardsInv'
  <2> DEFINE q == request[w]
  <2>0. /\ q \in RequestState /\ q # NoRow /\ CardShape(q) /\ CountHolds(q) /\ q.item \in Items
        /\ overlapped' = overlapped /\ today' = today
        /\ \A s \in Requests : request'[s] = IF s = w THEN NoRow ELSE request[s]
    BY <1>2 DEF Write, RowsInv, CardsInv, RequestState
  <2> HIDE DEF q
  <2>1. ASSUME NEW i \in Items PROVE CardRow(i)'
    <3>1. CardRow(i)
      BY DEF CardsInv
    <3>2. CASE rows'[<<"card", i>>] = rows[<<"card", i>>]
      BY <2>0, <3>1, <3>2 DEF CardRow
    <3>3. CASE /\ q.kind = "card" /\ i = q.item /\ rows'[<<"card", i>>].value = q.plan[i].value
               /\ rows'[<<"card", i>>].place = q.plan[i].place
      BY <2>0, <3>3 DEF CardRow, CardShape
    <3> QED
      BY <1>2, <2>0, <3>2, <3>3, CommitCard DEF q
  <2>2. ASSUME "card" \notin overlapped', NEW d \in 0..MaxDay PROVE Cardinality(MarkedOn(Day[d])') <= DailyLimit
    <3> DEFINE v == Day[d]  S == MarkedOn(v)  T == MarkedOn(v)'
    <3>1. S \in SUBSET Items /\ Cardinality(S) <= DailyLimit
      BY <2>0, <2>2 DEF CardsInv, MarkedOn, Existing
    <3>2. T \subseteq IF q.kind = "card" /\ "card" \in q.claims /\ q.plan[q.item].value = v THEN S \cup {q.item} ELSE S
      BY <1>2, <2>0, <2>2, CommitMarks DEF q
    <3>3. q.kind = "card" /\ "card" \in q.claims /\ q.plan[q.item].value = v => Cardinality(S) < DailyLimit
      BY <2>0, <2>2 DEF CountHolds
    <3> HIDE DEF S, T, v
    <3>4. CASE q.kind = "card" /\ "card" \in q.claims /\ q.plan[q.item].value = v
      <4>1. S \cup {q.item} \in SUBSET Items /\ T \in SUBSET (S \cup {q.item}) /\ T \in SUBSET Items
        BY <2>0, <3>1, <3>2, <3>4
      <4>2. Cardinality(T) <= Cardinality(S \cup {q.item}) /\ Cardinality(T) \in Nat
        BY <4>1, SmallSets
      <4>3. Cardinality(S \cup {q.item}) \in Nat /\ Cardinality(S \cup {q.item}) <= Cardinality(S) + 1
            /\ Cardinality(S) \in Nat
        BY <3>1, OneMore, SmallSets
      <4>4. Cardinality(T) <= DailyLimit
        BY <3>3, <3>4, <4>2, <4>3, LimitsAreNumbers
      <4> QED
        BY <4>4 DEF T, v
    <3>5. CASE ~ (q.kind = "card" /\ "card" \in q.claims /\ q.plan[q.item].value = v)
      <4>1. T \in SUBSET S /\ T \in SUBSET Items
        BY <3>1, <3>2, <3>5
      <4>2. Cardinality(T) <= Cardinality(S) /\ Cardinality(T) \in Nat /\ Cardinality(S) \in Nat
        BY <3>1, <4>1, SmallSets
      <4>3. Cardinality(T) <= DailyLimit
        BY <3>1, <4>2, LimitsAreNumbers
      <4> QED
        BY <4>3 DEF T, v
    <3> QED
      BY <3>4, <3>5
  <2>3. ASSUME NEW r \in Requests, request'[r] # NoRow, NEW s, s = request'[r] PROVE CardShape(s)' /\ CountHolds(s)'
    <3>1. r # w /\ s = request[r] /\ CardShape(s) /\ CountHolds(s)
      BY <2>0, <2>3 DEF CardsInv
    <3>2. q.claims \cap s.claims \subseteq overlapped
      BY <2>0, <2>3, <3>1 DEF OverlapInv, Crossed, q
    <3>3. CardShape(s)'
      BY <2>0, <3>1 DEF CardShape
    <3>4. ASSUME "card" \notin overlapped', s.kind = "card", "card" \in s.claims
          PROVE  /\ Cardinality(MarkedOn(s.plan[s.item].value)') < DailyLimit
                 /\ s.item \notin MarkedOn(s.plan[s.item].value)'
      <4>1. "card" \notin q.claims /\ "card" \notin overlapped
        BY <2>0, <3>2, <3>4
      <4>2. MarkedOn(s.plan[s.item].value)' = MarkedOn(s.plan[s.item].value)
        BY <1>2, <2>0, <4>1, CommitMarks DEF q
      <4> QED
        BY <3>1, <3>4, <4>1, <4>2 DEF CountHolds
    <3>5. ASSUME "card" \notin overlapped', s.kind = "card", s.seen[s.item] = NoRow
          PROVE  rows'[<<"card", s.item>>] = NoRow
      <4>1. "card" \in s.claims /\ "card" \notin overlapped
        BY <2>0, <3>1, <3>5 DEF CardShape
      <4>2. "card" \notin q.claims /\ rows[<<"card", s.item>>] = NoRow
        BY <3>1, <3>2, <3>5, <4>1 DEF CountHolds
      <4>3. s.item \in Items
        BY <2>3, <3>1 DEF RowsInv, RequestState
      <4>4. ~ (q.kind = "card" /\ s.item = q.item /\ (q.seen[q.item] # NoRow => rows[<<"card", q.item>>] = q.seen[q.item]))
        BY <2>0, <4>2 DEF CardShape
      <4> QED
        BY <1>2, <2>0, <4>2, <4>3, <4>4, CommitCard DEF q
    <3>6. CountHolds(s)'
      BY <3>4, <3>5 DEF CountHolds
    <3> QED
      BY <3>3, <3>6
  <2>4. \A r \in Requests : request'[r] # NoRow => CardShape(request[r])' /\ CountHolds(request[r])'
    BY <2>3
  <2> QED
    BY <2>1, <2>2, <2>4 DEF CardsInv
<1>3. CASE NextDay
  <2>1. rows' = rows /\ overlapped' = overlapped /\ request' = request /\ today' = today + 1
    BY <1>3 DEF NextDay
  <2>2. \A d \in 0..today : d \in 0..today'
    BY <1>0, <2>1
  <2>3. \A i \in Items : CardRow(i)'
    BY <2>1, <2>2 DEF CardsInv, CardRow
  <2>4. ASSUME NEW r \in Requests, request[r] # NoRow, NEW q, q = request[r] PROVE CardShape(q)' /\ CountHolds(q)'
    <3>1. CardShape(q) /\ CountHolds(q)
      BY <2>4 DEF CardsInv
    <3> QED
      BY <2>1, <2>2, <3>1 DEF CardShape, CountHolds, MarkedOn, List
  <2>5. \A r \in Requests : request'[r] # NoRow => CardShape(request[r])' /\ CountHolds(request[r])'
    BY <2>1, <2>4
  <2>6. "card" \notin overlapped' => \A d \in 0..MaxDay : Cardinality(MarkedOn(Day[d]))' <= DailyLimit
    BY <2>1 DEF CardsInv, MarkedOn, List
  <2> QED
    BY <2>3, <2>5, <2>6 DEF CardsInv
<1>4. Opening => rows' = rows /\ today' = today
  BY DEF Opening, Starts
<1>5. \A r \in Requests : Fail(r) => rows' = rows /\ today' = today
  BY DEF Fail
<1>6. Idles => rows' = rows /\ today' = today
  BY DEF Idles
<1> QED
  BY <1>1, <1>2, <1>3, <1>4, <1>5, <1>6, StepForms

LEMMA BeginOwner ==
  ASSUME RowsInv, NEW q \in RequestState, q.seen = List(q.kind), rows' = rows, overlapped \subseteq overlapped',
         Plain(q) \/ \E handle \in Handles : TakesName(q, handle)
  PROVE  OrgShape(q) /\ RoomHolds(q)'
<1>0. q.kind \in Tables /\ q.item \in Items /\ q.seen \in [Items -> TableRow \cup {NoRow}] /\ q.seen[q.item] = Old(q)
  BY DEF RequestState, List, Old
<1> SUFFICES ASSUME q.kind = "organization" PROVE OrgShape(q) /\ RoomHolds(q)'
  BY DEF OrgShape, RoomHolds
<1>1. CASE Plain(q)
  <2>1. Edits(q)
    BY <1>1 DEF Plain, Prepends, Rearranges, Creates, Created, SeedsPage, AddsPlace, Reviews
  <2>2. PICK v \in Nat : q.plan[q.item] = [Old(q) EXCEPT !.version = v]
    BY <2>1 DEF Edits, Amended
  <2>3. Old(q) # NoRow
    BY <2>1 DEF Edits
  <2>4. q.plan[q.item].place = Old(q).place
    BY <1>0, <2>2, <2>3 DEF TableRow
  <2> QED
    BY <1>0, <2>3, <2>4 DEF OrgShape, RoomHolds
<1>2. ASSUME NEW handle \in Handles, TakesName(q, handle), Old(q) # NoRow PROVE OrgShape(q) /\ RoomHolds(q)'
  <2> DEFINE old == Old(q)
  <2>1. q.plan[q.item] = [old EXCEPT !.value = handle] /\ old \in TableRow
    BY <1>0, <1>2 DEF TakesName, Alone
  <2>2. q.plan[q.item].place = old.place
    <3> HIDE DEF old
    <3> QED
      BY <2>1 DEF TableRow
  <2> QED
    BY <1>0, <1>2, <2>2 DEF OrgShape, RoomHolds
<1>3. ASSUME NEW handle \in Handles, TakesName(q, handle), Old(q) = NoRow PROVE OrgShape(q) /\ RoomHolds(q)'
  <2>1. /\ q.claims = {Founder[q.item], handle}
        /\ \/ Cardinality(Owned(Founder[q.item])) < MaxOwned /\ q.plan[q.item].place = 0
           \/ PersonalOwned(Founder[q.item]) = {} /\ q.plan[q.item].place = 1
    BY <1>0, <1>3, FreshFields DEF TakesName, Alone
  <2> QED
    BY <1>0, <1>3, <2>1 DEF OrgShape, RoomHolds, Owned, PersonalOwned, List
<1> QED
  BY <1>1, <1>2, <1>3

\* What a commit does to a user's organizations: it adds one, if any.
LEMMA CommitOwners ==
  ASSUME RowsInv, VInv, NEW w \in Requests, Write(w), NEW q, q = request[w], NameShape(q), OrgShape(q), NEW user \in Items
  PROVE  \/ Owned(user)' = Owned(user) /\ PersonalOwned(user)' = PersonalOwned(user)
         \/ /\ q.kind = "organization" /\ q.seen[q.item] = NoRow /\ Founder[q.item] = user
            /\ Owned(user)' = Owned(user) \cup {q.item} /\ q.item \notin Owned(user) /\ q.item \in Items
            /\ \/ q.plan[q.item].place = 0 /\ PersonalOwned(user)' = PersonalOwned(user)
               \/ q.plan[q.item].place = 1 /\ PersonalOwned(user)' = PersonalOwned(user) \cup {q.item}
<1> DEFINE Stands(i) == rows[<<"organization", i>>]  Becomes(i) == rows'[<<"organization", i>>]
<1>0. q \in RequestState /\ q # NoRow /\ q.item \in Items /\ "organization" \in Tables
  BY DEF Write, RowsInv, Tables, RequestState
<1>1. ASSUME NEW i \in Items
      PROVE  \/ Becomes(i) = Stands(i)
             \/ /\ q.kind = "organization" /\ i = q.item /\ Becomes(i) # NoRow /\ Becomes(i).place = q.plan[i].place
                /\ q.seen[i] # NoRow => Stands(i) = q.seen[i]
                /\ q.seen[i] = NoRow => Stands(i) = NoRow
  <2>1. Becomes(i) = Leave(q, <<"organization", i>>)
    BY <1>0, WriteLeaves
  <2>2. CASE q.kind # "organization" \/ i \notin Changed(q)
    BY <1>0, <2>1, <2>2, LeaveCases
  <2>3. CASE q.kind = "organization" /\ i \in Changed(q)
    <3>1. i = q.item /\ q.plan[i] # NoRow
      BY <2>3 DEF NameShape, Named, Changed
    <3>2. Becomes(i) # NoRow /\ Becomes(i).place = q.plan[i].place
      BY <1>0, <2>1, <2>3, <3>1, LeaveCases
    <3>3. (q.seen[i] # NoRow => Stands(i) = q.seen[i]) /\ (q.seen[i] = NoRow => Stands(i) = NoRow)
      BY <2>3, WriteUnmoved DEF ChangesUnmoved
    <3> QED
      BY <2>3, <3>1, <3>2, <3>3
  <2> QED
    BY <2>2, <2>3
<1>2. \A i : /\ i \in Owned(user) <=> i \in Items /\ Stands(i) # NoRow /\ Founder[i] = user
             /\ i \in Owned(user)' <=> i \in Items /\ Becomes(i) # NoRow /\ Founder[i] = user
             /\ i \in PersonalOwned(user) <=> i \in Items /\ Stands(i) # NoRow /\ Founder[i] = user /\ Stands(i).place = 1
             /\ i \in PersonalOwned(user)' <=> i \in Items /\ Becomes(i) # NoRow /\ Founder[i] = user /\ Becomes(i).place = 1
  BY DEF Owned, PersonalOwned, Existing, List
<1> HIDE DEF Stands, Becomes
<1>3. CASE q.kind = "organization" /\ q.seen[q.item] = NoRow /\ Becomes(q.item) # Stands(q.item)
  <2>1. /\ \A i \in Items : i # q.item => Becomes(i) = Stands(i)
        /\ Stands(q.item) = NoRow /\ Becomes(q.item) # NoRow /\ Becomes(q.item).place = q.plan[q.item].place
        /\ q.plan[q.item].place \in {0, 1}
    BY <1>0, <1>1, <1>3 DEF OrgShape
  <2>2. CASE Founder[q.item] = user
    <3>1. Owned(user)' = Owned(user) \cup {q.item} /\ q.item \notin Owned(user)
      <4>1. \A i : i \in Owned(user)' <=> i \in Owned(user) \cup {q.item}
        BY <1>0, <1>2, <2>1, <2>2
      <4>2. q.item \notin Owned(user)
        BY <1>2, <2>1
      <4> QED
        BY <4>1, <4>2
    <3>2. CASE q.plan[q.item].place = 0
      <4>1. \A i : i \in PersonalOwned(user)' <=> i \in PersonalOwned(user)
        BY <1>2, <2>1, <3>2
      <4>2. PersonalOwned(user)' = PersonalOwned(user)
        BY <4>1
      <4> QED
        BY <1>0, <1>3, <2>2, <3>1, <3>2, <4>2
    <3>3. CASE q.plan[q.item].place = 1
      <4>1. \A i : i \in PersonalOwned(user)' <=> i \in PersonalOwned(user) \cup {q.item}
        BY <1>0, <1>2, <2>1, <2>2, <3>3
      <4>2. PersonalOwned(user)' = PersonalOwned(user) \cup {q.item}
        BY <4>1
      <4> QED
        BY <1>0, <1>3, <2>2, <3>1, <3>3, <4>2
    <3> QED
      BY <2>1, <3>2, <3>3
  <2>3. CASE Founder[q.item] # user
    <3>1. \A i : (i \in Owned(user)' <=> i \in Owned(user)) /\ (i \in PersonalOwned(user)' <=> i \in PersonalOwned(user))
      BY <1>2, <2>1, <2>3
    <3> QED
      BY <3>1
  <2> QED
    BY <2>2, <2>3
<1>4. CASE ~ (q.kind = "organization" /\ q.seen[q.item] = NoRow /\ Becomes(q.item) # Stands(q.item))
  <2>1. \A i \in Items : \/ Becomes(i) = Stands(i)
                         \/ Becomes(i) # NoRow /\ Stands(i) # NoRow /\ Becomes(i).place = Stands(i).place
    BY <1>1, <1>4 DEF OrgShape
  <2>2. \A i : (i \in Owned(user)' <=> i \in Owned(user)) /\ (i \in PersonalOwned(user)' <=> i \in PersonalOwned(user))
    BY <1>2, <2>1
  <2> QED
    BY <2>2
<1> QED
  BY <1>3, <1>4

LEMMA StepOwners ==
  RowsInv /\ VInv /\ OverlapInv /\ NamesInv /\ OwnersInv /\ [ContentNext]_contentVars => OwnersInv'
<1> SUFFICES ASSUME RowsInv, VInv, OverlapInv, NamesInv, OwnersInv, [ContentNext]_contentVars PROVE OwnersInv'
  OBVIOUS
<1>0. overlapped \subseteq overlapped'
  BY OverlappedGrows
<1>1. ASSUME rows' = rows PROVE OwnersInv'
  <2>1. \A user \in Items \ overlapped' : Cardinality(PersonalOwned(user)') <= 1
    BY <1>0, <1>1 DEF OwnersInv, PersonalOwned, Owned, List
  <2>2. ASSUME NEW r \in Requests, request'[r] # NoRow, NEW q, q = request'[r] PROVE OrgShape(q) /\ RoomHolds(q)'
    <3>1. CASE q = request[r]
      <4>1. OrgShape(q) /\ RoomHolds(q)
        BY <2>2, <3>1 DEF OwnersInv
      <4> QED
        BY <1>0, <1>1, <4>1 DEF RoomHolds, PersonalOwned, Owned, List
    <3>2. CASE q.seen = List(q.kind) /\ q \in RequestState /\ (Plain(q) \/ \E handle \in Handles : TakesName(q, handle))
      BY <1>0, <1>1, <3>2, BeginOwner
    <3> QED
      BY <2>2, <3>1, <3>2, InFlightAfter
  <2>3. \A r \in Requests : request'[r] # NoRow => OrgShape(request'[r]) /\ RoomHolds(request[r])'
    BY <2>2
  <2> QED
    BY <2>1, <2>3 DEF OwnersInv, OrgShape
<1>2. ASSUME NEW w \in Requests, Write(w) PROVE OwnersInv'
  <2> DEFINE q == request[w]
  <2>0. /\ q # NoRow /\ NameShape(q) /\ OrgShape(q) /\ RoomHolds(q) /\ overlapped' = overlapped
        /\ \A s \in Requests : request'[s] = IF s = w THEN NoRow ELSE request[s]
    BY <1>2 DEF Write, RowsInv, NamesInv, OwnersInv
  <2> HIDE DEF q
  <2>1. ASSUME NEW user \in Items \ overlapped' PROVE Cardinality(PersonalOwned(user)') <= 1
    <3>1. user \in Items \ overlapped /\ Cardinality(PersonalOwned(user)) <= 1
      BY <2>0, <2>1 DEF OwnersInv
    <3>2. CASE PersonalOwned(user)' = PersonalOwned(user)
      BY <3>1, <3>2
    <3>3. CASE /\ q.kind = "organization" /\ q.seen[q.item] = NoRow /\ Founder[q.item] = user
               /\ q.plan[q.item].place = 1 /\ PersonalOwned(user)' = PersonalOwned(user) \cup {q.item}
      <4>1. PersonalOwned(user) = {}
        BY <2>0, <3>1, <3>3 DEF RoomHolds
      <4>2. PersonalOwned(user)' = {q.item}
        BY <3>3, <4>1
      <4>3. Cardinality({q.item}) = 1
        BY FS_Singleton
      <4> QED
        BY <4>2, <4>3
    <3> QED
      BY <1>2, <2>0, <3>2, <3>3, CommitOwners DEF q
  <2>2. ASSUME NEW r \in Requests, request'[r] # NoRow, NEW s, s = request'[r] PROVE OrgShape(s) /\ RoomHolds(s)'
    <3>1. r # w /\ s = request[r] /\ OrgShape(s) /\ RoomHolds(s) /\ s \in RequestState
      BY <2>0, <2>2 DEF OwnersInv, RowsInv
    <3>2. q.claims \cap s.claims \subseteq overlapped
      BY <2>0, <2>2, <3>1 DEF OverlapInv, Crossed, q
    <3>3. ASSUME s.kind = "organization", s.seen[s.item] = NoRow, Founder[s.item] \notin overlapped
          PROVE  Owned(Founder[s.item])' = Owned(Founder[s.item])
                 /\ PersonalOwned(Founder[s.item])' = PersonalOwned(Founder[s.item])
      <4> DEFINE user == Founder[s.item]
      <4>1. user \in Items /\ user \in s.claims
        BY <3>1, <3>3, ContentAssumption DEF OrgShape, RequestState
      <4> HIDE DEF user
      <4>2. ~ (q.kind = "organization" /\ q.seen[q.item] = NoRow /\ Founder[q.item] = user)
        BY <2>0, <3>2, <3>3, <4>1 DEF OrgShape, user
      <4>3. Owned(user)' = Owned(user) /\ PersonalOwned(user)' = PersonalOwned(user)
        BY <1>2, <2>0, <4>1, <4>2, CommitOwners DEF q
      <4> QED
        BY <4>3 DEF user
    <3> QED
      BY <2>0, <3>1, <3>3 DEF RoomHolds
  <2>3. \A r \in Requests : request'[r] # NoRow => OrgShape(request'[r]) /\ RoomHolds(request[r])'
    BY <2>2
  <2> QED
    BY <2>1, <2>3 DEF OwnersInv, OrgShape
<1>3. Opening => rows' = rows
  BY DEF Opening, Starts
<1>4. \A r \in Requests : Fail(r) => rows' = rows
  BY DEF Fail
<1>5. NextDay \/ Idles => rows' = rows
  BY DEF NextDay, Idles
<1> QED
  BY <1>1, <1>2, <1>3, <1>4, <1>5, StepForms

LEMMA InitLimits == ContentInit => CardsInv /\ OwnersInv
<1> SUFFICES ASSUME ContentInit PROVE CardsInv /\ OwnersInv
  OBVIOUS
<1>1. ASSUME NEW kind \in {"card", "organization"}, NEW i \in Items PROVE rows[<<kind, i>>] = NoRow
  <2>1. <<kind, i>> \in Ids
    BY DEF Ids, Tables
  <2> QED
    BY <2>1 DEF ContentInit, Standing
<1>2. \A r \in Requests : request[r] = NoRow
  BY DEF ContentInit
<1>3. \A v : MarkedOn(v) = {}
  BY <1>1 DEF MarkedOn, Existing, List
<1>4. \A user : PersonalOwned(user) = {}
  BY <1>1 DEF PersonalOwned, Owned, Existing, List
<1>5. Cardinality({}) = 0
  BY FS_EmptySet
<1>6. \A d \in 0..MaxDay : Cardinality(MarkedOn(Day[d])) <= DailyLimit
  BY <1>3, <1>5, LimitsAreNumbers
<1>7. \A user \in Items : Cardinality(PersonalOwned(user)) <= 1
  BY <1>4, <1>5
<1>8. \A i \in Items : CardRow(i)
  BY <1>1 DEF CardRow
<1> QED
  BY <1>2, <1>6, <1>7, <1>8 DEF CardsInv, OwnersInv

LEMMA TasksCounted ==
  ASSUME RowsInv, VInv, ListsInv, PlacesInv, [ContentNext]_contentVars, "todo" \notin overlapped, ~ CommitsLate
  PROVE  \/ Existing(List("todo"))' \ Existing(List("todo")) \subseteq {Seeded}
         \/ Cardinality(Existing(List("todo")))' <= Limit
<1> DEFINE E == Existing(List("todo"))
<1>0. E \in SUBSET Items /\ E' \in SUBSET Items
  BY DEF Existing
<1>2. ASSUME rows' = rows PROVE E' = E
  BY <1>2 DEF Existing, List
<1>3. ASSUME NEW w \in Requests, Write(w) PROVE E' \ E \subseteq {Seeded} \/ Cardinality(E') <= Limit
  <2> DEFINE q == request[w]
  <2>0. q \in RequestState /\ q # NoRow /\ "late" \notin q.claims
    BY <1>3 DEF Write, RowsInv, CommitsLate
  <2>1. Shrinks("todo") \/ Renumbers("todo", q) \/ Pushes("todo", q)
    BY <1>3, Outcomes DEF Extends
  <2> HIDE DEF q
  <2>2. \A j : (j \in E <=> j \in Items /\ rows[<<"todo", j>>] # NoRow)
               /\ (j \in E' <=> j \in Items /\ rows'[<<"todo", j>>] # NoRow)
    BY DEF Existing, List
  <2>3. CASE Shrinks("todo")
    BY <2>2, <2>3 DEF Shrinks
  <2>4. CASE Renumbers("todo", q)
    BY <2>0, <2>4, CommitAims DEF q
  <2>5. CASE Pushes("todo", q)
    <3>1. E = Existing(q.seen)
      BY <2>0, <2>5, CommitAims DEF q
    <3>2. \A j : j \in E' => j \in E \cup {q.item}
      BY <2>2, <2>5, <3>1 DEF Pushes, Existing
    <3>3. CASE q.item = Seeded
      BY <3>2, <3>3
    <3>4. CASE Cardinality(E) < Limit
      <4> HIDE DEF E
      <4>1. E' \in SUBSET (E \cup {q.item})
        BY <3>2
      <4>2. q.item \in Items
        BY <2>0 DEF RequestState
      <4>3. E \cup {q.item} \in SUBSET Items
        BY <1>0, <4>2
      <4>4. Cardinality(E') <= Cardinality(E \cup {q.item}) /\ Cardinality(E') \in Nat
        BY <1>0, <4>1, <4>3, SmallSets
      <4>5. Cardinality(E \cup {q.item}) <= Cardinality(E) + 1 /\ Cardinality(E) \in Nat
            /\ Cardinality(E \cup {q.item}) \in Nat
        BY <1>0, OneMore, SmallSets
      <4> QED
        BY <3>4, <4>4, <4>5, LimitsAreNumbers
    <3> QED
      BY <2>0, <2>5, <3>1, <3>3, <3>4 DEF Pushes, AddsTask
  <2> QED
    BY <2>1, <2>3, <2>4, <2>5
<1>4. Opening => rows' = rows
  BY DEF Opening, Starts
<1>5. \A r \in Requests : Fail(r) => rows' = rows
  BY DEF Fail
<1>6. NextDay \/ Idles => rows' = rows
  BY DEF NextDay, Idles
<1> QED
  BY <1>2, <1>3, <1>4, <1>5, <1>6, StepForms

LEMMA MarksOfADay == \A day : ReviewedOn(day) = MarkedOn(Day[day])
BY DEF ReviewedOn, MarkedOn

LEMMA ReviewsStay ==
  ASSUME RowsInv, VInv, CardsInv, [ContentNext]_contentVars, "card" \notin overlapped, today' = today
  PROVE  ReviewedOn(today) \subseteq ReviewedOn(today)'
<1>1. ASSUME rows' = rows PROVE ReviewedOn(today) \subseteq ReviewedOn(today)'
  BY <1>1 DEF ReviewedOn, Existing, List
<1>2. ASSUME NEW w \in Requests, Write(w), NEW i \in ReviewedOn(today) PROVE i \in ReviewedOn(today)'
  <2> DEFINE q == request[w]
  <2>0. q # NoRow /\ CardShape(q) /\ CountHolds(q) /\ today \in 0..MaxDay
    BY <1>2 DEF Write, RowsInv, CardsInv
  <2>1. i \in Items /\ rows[<<"card", i>>] # NoRow /\ rows[<<"card", i>>].value = Day[today]
    BY DEF ReviewedOn, Existing, List
  <2>2. rows'[<<"card", i>>] # NoRow /\ rows'[<<"card", i>>].value = Day[today] => i \in ReviewedOn(today)'
    BY <2>1 DEF ReviewedOn, Existing, List
  <2> HIDE DEF q
  <2>3. CASE rows'[<<"card", i>>] = rows[<<"card", i>>]
    BY <2>1, <2>2, <2>3
  <2>4. CASE /\ q.kind = "card" /\ i = q.item /\ rows'[<<"card", i>>] # NoRow
             /\ rows'[<<"card", i>>].value = q.plan[i].value
             /\ q.seen[i] # NoRow => rows[<<"card", i>>] = q.seen[i]
    <3>1. q.seen[i] # NoRow /\ q.seen[i].value = Day[today]
      BY <2>0, <2>1, <2>4 DEF CountHolds
    <3>2. PICK d \in 0..today : q.plan[i].value = Day[d] /\ \E e \in 0..d : q.seen[i].value = Day[e]
      BY <2>0, <2>4, <3>1 DEF CardShape
    <3>3. PICK e \in 0..d : q.seen[i].value = Day[e]
      BY <3>2
    <3>4. \A m, n \in 0..MaxDay : Day[m] = Day[n] => m = n
      BY ContentAssumption
    <3>5. e = today
      <4>1. e \in 0..MaxDay /\ Day[e] = Day[today]
        BY <2>0, <3>1, <3>3, NoRowIsNoRow
      <4> QED
        BY <2>0, <3>4, <4>1
    <3>6. d = today
      BY <2>0, <3>3, <3>5
    <3> QED
      BY <2>2, <2>4, <3>2, <3>6
  <2> QED
    BY <1>2, <2>0, <2>1, <2>3, <2>4, CommitCard DEF q
<1>3. Opening => rows' = rows
  BY DEF Opening, Starts
<1>4. \A r \in Requests : Fail(r) => rows' = rows
  BY DEF Fail
<1>5. NextDay \/ Idles => rows' = rows
  BY DEF NextDay, Idles
<1> QED
  BY <1>1, <1>2, <1>3, <1>4, <1>5, StepForms

LEMMA NotDueAgain ==
  ASSUME RowsInv, CardsInv, NEW i \in ReviewedOn(today)
  PROVE  i \notin DOMAIN SessionOfDay
<1>1. i \in Items /\ rows[<<"card", i>>] # NoRow /\ rows[<<"card", i>>].value = Day[today] /\ today \in 0..MaxDay
      /\ rows[<<"card", i>>].place \in 1..9
  BY DEF ReviewedOn, Existing, List, CardsInv, CardRow, RowsInv
<1>2. (CHOOSE n \in 0..MaxDay : rows[<<"card", i>>].value = Day[n]) = today
  BY <1>1, ContentAssumption
<1>3. NextReview(i) = Intervals[rows[<<"card", i>>].place] + today
  BY <1>1, <1>2 DEF NextReview, Level
<1>4. \A n \in 1..9 : Intervals[n] \in Nat /\ Intervals[n] >= 1
  BY DEF Intervals
<1>5. ~ Due(i)
  BY <1>1, <1>3, <1>4 DEF Due
<1> QED
  BY <1>5 DEF SessionOfDay

LEMMA OwnersCounted ==
  ASSUME RowsInv, VInv, NamesInv, OwnersInv, [ContentNext]_contentVars, NEW user \in Items \ overlapped
  PROVE  \/ Cardinality(Owned(user))' <= MaxOwned
         \/ Owned(user)' = Owned(user) \/ PersonalOwned(user)' # PersonalOwned(user)
<1>1. rows' = rows => Owned(user)' = Owned(user)
  BY DEF Owned, List
<1>2. ASSUME NEW w \in Requests, Write(w)
      PROVE  \/ Cardinality(Owned(user)') <= MaxOwned
             \/ Owned(user)' = Owned(user) \/ PersonalOwned(user)' # PersonalOwned(user)
  <2> DEFINE q == request[w]
  <2>0. q # NoRow /\ NameShape(q) /\ OrgShape(q) /\ RoomHolds(q) /\ Owned(user) \in SUBSET Items
        /\ PersonalOwned(user) \subseteq Owned(user)
    BY <1>2 DEF Write, NamesInv, OwnersInv, Owned, PersonalOwned, Existing
  <2> HIDE DEF q
  <2>1. ASSUME q.kind = "organization", q.seen[q.item] = NoRow, Founder[q.item] = user, q.plan[q.item].place = 0,
               Owned(user)' = Owned(user) \cup {q.item}
        PROVE  Cardinality(Owned(user)') <= MaxOwned
    <3>1. Cardinality(Owned(user)) < MaxOwned
      BY <2>0, <2>1 DEF RoomHolds
    <3>2. Cardinality(Owned(user) \cup {q.item}) <= Cardinality(Owned(user)) + 1
          /\ Cardinality(Owned(user) \cup {q.item}) \in Nat /\ Cardinality(Owned(user)) \in Nat
      BY <2>0, OneMore, SmallSets
    <3> QED
      BY <2>1, <3>1, <3>2, LimitsAreNumbers
  <2>2. ASSUME q.item \notin Owned(user), PersonalOwned(user)' = PersonalOwned(user) \cup {q.item}
        PROVE  PersonalOwned(user)' # PersonalOwned(user)
    BY <2>0, <2>2
  <2> QED
    BY <1>2, <2>0, <2>1, <2>2, CommitOwners DEF q
<1>3. Opening => rows' = rows
  BY DEF Opening, Starts
<1>4. \A r \in Requests : Fail(r) => rows' = rows
  BY DEF Fail
<1>5. NextDay \/ Idles => rows' = rows
  BY DEF NextDay, Idles
<1> QED
  BY <1>1, <1>2, <1>3, <1>4, <1>5, StepForms

\* No limit is passed and no review is lost or due again, but where LimitsKeptUnlessRaced says so.
THEOREM LimitsAreKeptUnlessRaced == ContentSpec => LimitsKeptUnlessRaced
<1> DEFINE IInv == RowsInv /\ VInv /\ ListsInv /\ OverlapInv /\ PlacesInv /\ NamesInv /\ CardsInv /\ OwnersInv
           Within ==
             /\ \/ "todo" \in overlapped \/ CommitsLate
                \/ Existing(List("todo"))' \ Existing(List("todo")) \subseteq {Seeded}
                \/ Cardinality(Existing(List("todo")))' <= Limit
             /\ "card" \in overlapped \/
                  /\ \A day \in 0..today : Cardinality(ReviewedOn(day))' <= DailyLimit
                  /\ today' = today => ReviewedOn(today) \subseteq ReviewedOn(today)'
             /\ \A i \in ReviewedOn(today) : i \notin DOMAIN SessionOfDay
             /\ \A user \in Items \ overlapped :
                  /\ Cardinality(PersonalOwned(user)) <= 1
                  /\ \/ Cardinality(Owned(user))' <= MaxOwned
                     \/ Owned(user)' = Owned(user) \/ PersonalOwned(user)' # PersonalOwned(user)
<1>1. ContentInit => IInv
  BY InitTyped, InitNotes, InitPlaces, InitNames, InitLimits
<1>2. IInv /\ [ContentNext]_contentVars => IInv'
  BY StepRowsTyped, StepVersions, StepLists, StepOverlap, StepPlaces, StepNames, StepCards, StepOwners
<1>3. IInv /\ [ContentNext]_contentVars => [Within]_contentVars
  <2> SUFFICES ASSUME IInv, [ContentNext]_contentVars PROVE [Within]_contentVars
    OBVIOUS
  <2>1. (today \in 0..MaxDay /\ 0..today \subseteq 0..MaxDay)
    <3>1. today \in 0..MaxDay
      BY DEF RowsInv
    <3> QED
      BY <3>1, NoRowIsNoRow
  <2>2. ASSUME "card" \notin overlapped, NEW day \in 0..today
        PROVE  Cardinality(ReviewedOn(day)') <= DailyLimit
    <3>1. CardsInv'
      BY StepCards
    <3>2. CASE "card" \notin overlapped'
      <4>1. Cardinality(MarkedOn(Day[day])') <= DailyLimit
        BY <2>1, <2>2, <3>1, <3>2 DEF CardsInv
      <4>2. ReviewedOn(day)' = MarkedOn(Day[day])'
        BY DEF ReviewedOn, MarkedOn
      <4> QED
        BY <4>1, <4>2
    <3>3. CASE "card" \in overlapped'
      <4>1. rows' = rows
        <5>1. \A r \in Requests : Write(r) => overlapped' = overlapped
          BY DEF Write
        <5>2. \A r \in Requests : Fail(r) => overlapped' = overlapped
          BY DEF Fail
        <5>3. NextDay => overlapped' = overlapped
          BY DEF NextDay
        <5>4. Opening => rows' = rows
          BY DEF Opening, Starts
        <5> QED
          BY <2>2, <3>3, <5>1, <5>2, <5>3, <5>4, StepForms DEF Idles
      <4>2. Cardinality(MarkedOn(Day[day])) <= DailyLimit
        BY <2>1, <2>2 DEF CardsInv
      <4>3. ReviewedOn(day)' = MarkedOn(Day[day])
        BY <4>1 DEF ReviewedOn, MarkedOn, List
      <4> QED
        BY <4>2, <4>3
    <3> QED
      BY <3>2, <3>3
  <2>3. \/ "todo" \in overlapped \/ CommitsLate
        \/ Existing(List("todo"))' \ Existing(List("todo")) \subseteq {Seeded}
        \/ Cardinality(Existing(List("todo")))' <= Limit
    BY TasksCounted
  <2>4. "card" \in overlapped \/ (today' = today => ReviewedOn(today) \subseteq ReviewedOn(today)')
    BY ReviewsStay
  <2>5. \A i \in ReviewedOn(today) : i \notin DOMAIN SessionOfDay
    BY NotDueAgain
  <2>6. \A user \in Items \ overlapped :
          /\ Cardinality(PersonalOwned(user)) <= 1
          /\ \/ Cardinality(Owned(user))' <= MaxOwned
             \/ Owned(user)' = Owned(user) \/ PersonalOwned(user)' # PersonalOwned(user)
    BY OwnersCounted DEF OwnersInv
  <2> QED
    BY <2>2, <2>3, <2>4, <2>5, <2>6
<1> QED
  <2> HIDE DEF IInv
  <2> QED
    BY <1>1, <1>2, <1>3, PTL DEF ContentSpec, LimitsKeptUnlessRaced
=============================================================================
