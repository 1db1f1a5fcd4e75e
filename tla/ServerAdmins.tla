---------------------------- MODULE ServerAdmins ----------------------------
(* Who administers the server: the console's grants and revocations, the    *)
(* disabling and deleting of accounts, a user leaving, and the promotion of *)
(* the first user.  The roles live in GoTrue, which offers no transaction   *)
(* and no compare-and-set; the advisory lock and the facts live in          *)
(* PostgreSQL.  A request therefore locks, reads GoTrue, writes GoTrue and  *)
(* commits, and anything may happen between two of those steps.             *)
EXTENDS Naturals, FiniteSets

CONSTANTS User, Request, NoOne, NoUser,
          MaxFaults     \* bounds the faults of a behaviour, of all kinds together

ASSUME NoOneIsNoRequest == NoOne \notin Request

VARIABLES
  account,    \* [User -> state]: GoTrue's account, a deleted one kept as a record
  role,       \* GoTrue: the accounts whose app_metadata says admin
  banned,     \* GoTrue: the disabled accounts
  token,      \* the users an admin token was minted for: it may outlive the role
  lock,       \* pg_advisory_xact_lock: the request holding it
  phase, op, target,    \* [Request -> ...]: the request in flight
  told,       \* the users whose UserDeleted fact is committed
  task,       \* [User -> state]: the UserCreated task of bootstrap_first_admin
  founders,   \* history: the users that task promoted
  raced,      \* history: two bootstraps both found no admin before either wrote
  crossed,    \* history: a promotion while a request was removing that user
  refused,    \* history: the users whose promotion GoTrue refused
  late,       \* history: a write landed after its request had lost the lock
  lost,       \* history: the users deleted by a request that never committed
  faults

gotrue == <<account, role, banned>>
requests == <<lock, phase, op, target, told>>
bootstrap == <<task, founders, raced, crossed, refused>>
history == <<late, lost, faults>>
vars == <<gotrue, token, requests, bootstrap, history>>

(* list_server_admins: soft-deleted accounts are skipped, so they neither   *)
(* count nor act; a banned admin keeps the role and cannot act.             *)
Live == {u \in User : account[u] = "live"}
Admins == Live \cap role
Acting == Admins \ banned

(* ensure_not_last_admin, for an action that removes u. *)
CountsBanned(u) ==                \* mutant: an admin who cannot sign in counts
  u \in Acting => \E v \in Admins : v # u
NotLastAdmin(u) == u \in Acting => \E v \in Acting : v # u

Op == {"grant", "revoke", "disable", "delete", "leave"}

Init ==
  /\ account = [u \in User |-> "none"]
  /\ role = {} /\ banned = {} /\ token = {}
  /\ lock = NoOne
  /\ phase = [r \in Request |-> "idle"]
  /\ op = [r \in Request |-> "none"]
  /\ target = [r \in Request |-> NoUser]
  /\ told = {}
  /\ task = [u \in User |-> "none"]
  /\ founders = {} /\ raced = FALSE /\ crossed = FALSE /\ refused = {}
  /\ late = FALSE /\ lost = {} /\ faults = 0

-----------------------------------------------------------------------------
(* GoTrue inserts the user, and the trigger records the fact whose delivery *)
(* enqueues the bootstrap, in one transaction.                              *)
SignUp(u) ==
  /\ account[u] = "none"
  /\ account' = [account EXCEPT ![u] = "live"]
  /\ task' = [task EXCEPT ![u] = "queued"]
  /\ UNCHANGED <<role, banned, token, requests, founders, raced, crossed, refused,
                 history>>

-----------------------------------------------------------------------------
(* A request that changes who is admin: admitted, locked, decided on a      *)
(* fresh list, written to GoTrue, committed.                                *)

(* The console's routes want an admin token, and an admin disables or       *)
(* deletes somebody else; leaving wants the password, so an open account.   *)
Admitted(o, by, u) ==
  IF o = "leave" THEN by = u /\ u \in Live \ banned
  ELSE by \in token /\ (o \in {"disable", "delete"} => by # u)

Ask(r) ==
  /\ phase[r] = "idle"
  /\ \E o \in Op, by \in User, u \in User :
       /\ account[u] # "none"
       /\ Admitted(o, by, u)
       /\ op' = [op EXCEPT ![r] = o]
       /\ target' = [target EXCEPT ![r] = u]
  /\ phase' = [phase EXCEPT ![r] = "waiting"]
  /\ UNCHANGED <<gotrue, token, lock, told, bootstrap, history>>

FreeAlways == TRUE                \* mutant: the count is taken without the lock
Free == lock = NoOne
Acquire(r) ==
  /\ phase[r] = "waiting"
  /\ Free
  /\ lock' = r
  /\ phase' = [phase EXCEPT ![r] = "locked"]
  /\ UNCHANGED <<gotrue, token, op, target, told, bootstrap, history>>

Release(r) == lock' = IF lock = r THEN NoOne ELSE lock

Over(r) ==
  /\ phase' = [phase EXCEPT ![r] = "idle"]
  /\ op' = [op EXCEPT ![r] = "none"]
  /\ target' = [target EXCEPT ![r] = NoUser]

(* The transaction's end, committed or rolled back, gives the lock up. *)
End(r) == Release(r) /\ Over(r)

(* grant_admin and set_admin write only what changes; the removals only     *)
(* what leaves another acting admin.                                        *)
Allowed(o, u) ==
  CASE o = "grant" -> u \in Live \ role
    [] o = "revoke" -> u \in Admins /\ NotLastAdmin(u)
    [] OTHER -> NotLastAdmin(u)

Decide(r) ==
  /\ phase[r] = "locked"
  /\ IF Allowed(op[r], target[r])
     THEN phase' = [phase EXCEPT ![r] = "writing"] /\ UNCHANGED <<lock, op, target>>
     ELSE End(r)
  /\ UNCHANGED <<gotrue, token, told, bootstrap, history>>

SoftDeleted(u) == [account EXCEPT ![u] = "deleted"]

(* What GoTrue does when the write reaches it. *)
Written(o, u) ==
  /\ role' = CASE o = "grant" -> role \cup {u}
               [] o = "revoke" -> role \ {u}
               [] OTHER -> role
  /\ token' = token \cup role'
  /\ banned' = IF o = "disable" THEN banned \cup {u} ELSE banned
  /\ account' = IF o \in {"delete", "leave"} THEN SoftDeleted(u) ELSE account

Write(r) ==
  /\ phase[r] = "writing"
  /\ Written(op[r], target[r])
  /\ phase' = [phase EXCEPT ![r] = "written"]
  /\ UNCHANGED <<lock, op, target, told, bootstrap, history>>

(* GoTrue answers with an error: the request raises and rolls back. *)
WriteRefused(r) ==
  /\ faults < MaxFaults
  /\ phase[r] = "writing"
  /\ End(r)
  /\ faults' = faults + 1
  /\ UNCHANGED <<gotrue, token, told, bootstrap, late, lost>>

(* The deletion's fact, which the clean-ups key on. *)
DeletionFactOfAdmins(o, u) ==     \* mutant: a self-deletion records no UserDeleted
  IF o = "delete" THEN {u} ELSE {}
DeletionFact(o, u) == IF o \in {"delete", "leave"} THEN {u} ELSE {}

Commit(r) ==
  /\ phase[r] = "written"
  /\ told' = told \cup DeletionFact(op[r], target[r])
  /\ End(r)
  /\ UNCHANGED <<gotrue, token, bootstrap, history>>

(* The GoTrue client gives up waiting, or the process dies, with the write  *)
(* under way: the transaction is over and the write is still going.         *)
Sever(r) ==
  /\ faults < MaxFaults
  /\ phase[r] = "writing"
  /\ phase' = [phase EXCEPT ![r] = "adrift"]
  /\ Release(r)
  /\ faults' = faults + 1
  /\ UNCHANGED <<gotrue, token, op, target, told, bootstrap, late, lost>>

Land(r) ==
  /\ phase[r] = "adrift"
  /\ Written(op[r], target[r])
  /\ Over(r)
  /\ late' = TRUE
  /\ lost' = lost \cup DeletionFact(op[r], target[r])
  /\ UNCHANGED <<lock, told, bootstrap, faults>>

Vanish(r) ==
  /\ phase[r] = "adrift"
  /\ Over(r)
  /\ UNCHANGED <<gotrue, token, lock, told, bootstrap, history>>

(* The commit fails, or the process dies, once GoTrue has answered. *)
CommitFails(r) ==
  /\ faults < MaxFaults
  /\ phase[r] = "written"
  /\ End(r)
  /\ lost' = lost \cup DeletionFact(op[r], target[r])
  /\ faults' = faults + 1
  /\ UNCHANGED <<gotrue, token, told, bootstrap, late>>

(* enable_user writes GoTrue with no lock and no check. *)
Enable(u) ==
  /\ token # {}
  /\ u \in banned
  /\ banned' = banned \ {u}
  /\ UNCHANGED <<account, role, token, requests, bootstrap, history>>

-----------------------------------------------------------------------------
(* _bootstrap_first_admin: a queued task per user, run at least once, which *)
(* takes no lock.                                                           *)

AnyOtherUser == Cardinality(Live) > 1      \* mutant: "first" read off the user count
AnyAdmin == Admins # {}

(* It lists the accounts and stops unless its user is there and no admin is. *)
List(u) ==
  /\ task[u] = "queued"
  /\ LET goesOn == ~AnyAdmin /\ u \in Live IN
       /\ task' = [task EXCEPT ![u] = IF goesOn THEN "listed" ELSE "done"]
       /\ raced' = (raced \/ (goesOn /\ \E v \in User \ {u} : task[v] = "listed"))
  /\ UNCHANGED <<gotrue, token, requests, founders, crossed, refused, history>>

BeingRemoved(u) ==
  \E r \in Request : phase[r] = "writing" /\ target[r] = u /\ op[r] # "grant"

Unpromoted == UNCHANGED <<role, token, founders, crossed>>
Promoted(u) ==
  /\ u \in Live
  /\ role' = role \cup {u}
  /\ token' = token \cup {u}
  /\ founders' = founders \cup {u}
  /\ crossed' = (crossed \/ BeingRemoved(u))

(* A user deleted since is a 404, swallowed. *)
Promote(u) ==
  /\ task[u] = "listed"
  /\ Promoted(u) \/ (u \notin Live /\ Unpromoted)
  /\ task' = [task EXCEPT ![u] = "done"]
  /\ UNCHANGED <<account, banned, requests, raced, refused, history>>

(* So is every other answer GoTrue gives, a 429 or a 500: the task is done. *)
PromotionRefused(u) ==
  /\ faults < MaxFaults
  /\ task[u] = "listed"
  /\ task' = [task EXCEPT ![u] = "done"]
  /\ refused' = refused \cup {u}
  /\ faults' = faults + 1
  /\ UNCHANGED <<gotrue, token, requests, founders, raced, crossed, late, lost>>

(* No answer, or a dead worker: the queue runs the task again, whether or   *)
(* not the write was done.                                                  *)
Redeliver(u) ==
  /\ faults < MaxFaults
  /\ task[u] = "listed"
  /\ Promoted(u) \/ Unpromoted
  /\ task' = [task EXCEPT ![u] = "queued"]
  /\ faults' = faults + 1
  /\ UNCHANGED <<account, banned, requests, raced, refused, late, lost>>

-----------------------------------------------------------------------------
Serve(r) ==
  \/ Ask(r) \/ Acquire(r) \/ Decide(r) \/ Write(r) \/ Commit(r)
  \/ WriteRefused(r) \/ CommitFails(r) \/ Sever(r) \/ Land(r) \/ Vanish(r)
Founding(u) ==
  List(u) \/ Promote(u) \/ PromotionRefused(u) \/ Redeliver(u)

Next ==
  \/ \E u \in User : SignUp(u) \/ Enable(u) \/ Founding(u)
  \/ \E r \in Request : Serve(r)

Spec == Init /\ [][Next]_vars

-----------------------------------------------------------------------------
TypeOK ==
  /\ account \in [User -> {"none", "live", "deleted"}]
  /\ role \subseteq User /\ banned \subseteq User /\ token \subseteq User
  /\ lock \in Request \cup {NoOne}
  /\ phase \in [Request -> {"idle", "waiting", "locked", "writing", "written", "adrift"}]
  /\ op \in [Request -> Op \cup {"none"}]
  /\ target \in [Request -> User \cup {NoUser}]
  /\ told \subseteq User
  /\ task \in [User -> {"none", "queued", "listed", "done"}]
  /\ founders \subseteq User /\ raced \in BOOLEAN /\ crossed \in BOOLEAN /\ refused \subseteq User
  /\ late \in BOOLEAN /\ lost \subseteq User /\ faults \in Nat

(* Once the first user was promoted, somebody can always administer the     *)
(* server, whatever requests overlap, unless the promotion, which takes no  *)
(* lock, crossed a removal, or a write outlived its lock (admin_guard, and  *)
(* every path that takes it).                                               *)
ActingAdminKept == founders # {} /\ ~crossed /\ ~late => Acting # {}

(* Only the first user becomes admin by signing up: a second founder needs  *)
(* two bootstraps that both saw no admin, or the loss of the first founder  *)
(* (_bootstrap_first_admin; server-admins.feature, "A later registered user *)
(* is not a server admin").                                                 *)
OneFounderUnlessRaced == raced \/ crossed \/ late \/ Cardinality(founders) <= 1

(* While nobody was promoted, every user whose bootstrap is done is gone or *)
(* was refused by GoTrue: none was passed over (_bootstrap_first_admin).    *)
NobodyPassedOver ==
  founders = {} =>
    \A u \in User : task[u] = "done" => account[u] = "deleted" \/ u \in refused

(* The fact of a deletion and the deletion, in two systems: no fact without *)
(* the closed account, and no closed account without the fact, but while    *)
(* the request is about to commit or when it died before (account_delete,   *)
(* delete_user: GoTrue last, then the commit).                              *)
DeletionTold ==
  /\ \A u \in told : account[u] = "deleted"
  /\ \A u \in User : account[u] = "deleted" =>
       \/ u \in told \cup lost
       \/ \E r \in Request : target[r] = u /\ phase[r] = "written"
=============================================================================
