------------------------- MODULE ServerAdminsProofs -------------------------
(* Proofs about ServerAdmins, for any users, requests and faults.           *)
EXTENDS ServerAdmins, FiniteSetTheorems, TLAPS

(* The type invariant, with a request under way having an operation and a   *)
(* user who signed up.                                                      *)
UnderWay ==
  \A r \in Request : phase[r] # "idle" =>
    target[r] \in User /\ op[r] \in Op /\ account[target[r]] # "none"
Registered == \A u \in User : task[u] # "none" => account[u] # "none"
TInv == TypeOK /\ UnderWay /\ Registered

LEMMA TInit == Init => TInv
<1> SUFFICES ASSUME Init PROVE TInv
  OBVIOUS
<1>1. raced \in BOOLEAN /\ crossed \in BOOLEAN /\ late \in BOOLEAN
  BY Zenon DEF Init
<1>2. QED
  BY <1>1 DEF Init, TInv, TypeOK, UnderWay, Registered

LEMMA TWritten ==
  ASSUME TInv, NEW r \in Request, phase[r] # "idle", Written(op[r], target[r])
  PROVE  /\ role' \subseteq User /\ banned' \subseteq User /\ token' \subseteq User
         /\ account' \in [User -> {"none", "live", "deleted"}]
         /\ \A u \in User : account[u] # "none" => account'[u] # "none"
  BY DEF TInv, TypeOK, UnderWay, Written, SoftDeleted

LEMMA TPromoted ==
  ASSUME TInv, NEW u \in User, Promoted(u) \/ Unpromoted
  PROVE  /\ role' \subseteq User /\ token' \subseteq User /\ founders' \subseteq User
         /\ crossed' \in BOOLEAN
<1>1. role' \subseteq User /\ token' \subseteq User /\ founders' \subseteq User
  BY DEF TInv, TypeOK, Promoted, Unpromoted
<1>2. crossed' \in BOOLEAN
  BY Zenon DEF TInv, TypeOK, Promoted, Unpromoted
<1>3. QED
  BY <1>1, <1>2

LEMMA TNext == TInv /\ [Next]_vars => TInv'
<1> SUFFICES ASSUME TInv, [Next]_vars PROVE TInv'
  OBVIOUS
<1> USE DEF TInv, TypeOK, UnderWay, Registered
<1>1. CASE UNCHANGED vars
  BY <1>1 DEF vars, gotrue, requests, bootstrap, history
<1>2. ASSUME NEW u \in User, SignUp(u) PROVE TInv'
  BY <1>2 DEF SignUp, requests, history
<1>3. ASSUME NEW u \in User, Enable(u) PROVE TInv'
  BY <1>3 DEF Enable, requests, bootstrap, history
<1>4. ASSUME NEW u \in User, List(u) PROVE TInv'
  <2>1. raced' \in BOOLEAN
    BY <1>4, Zenon DEF List
  <2>2. QED
    BY <1>4, <2>1 DEF List, gotrue, requests, history
<1>5. ASSUME NEW u \in User, Promote(u) PROVE TInv'
  <2>1. Promoted(u) \/ Unpromoted
    BY <1>5 DEF Promote
  <2>2. QED
    BY <1>5, <2>1, TPromoted DEF Promote, requests, history
<1>6. ASSUME NEW u \in User, PromotionRefused(u) PROVE TInv'
  BY <1>6 DEF PromotionRefused, gotrue, requests
<1>7. ASSUME NEW u \in User, Redeliver(u) PROVE TInv'
  <2>1. Promoted(u) \/ Unpromoted
    BY <1>7 DEF Redeliver
  <2>2. QED
    BY <1>7, <2>1, TPromoted DEF Redeliver, requests
<1>8. ASSUME NEW r \in Request, Ask(r) PROVE TInv'
  BY <1>8 DEF Ask, gotrue, bootstrap, history
<1>9. ASSUME NEW r \in Request, Acquire(r) PROVE TInv'
  BY <1>9 DEF Acquire, gotrue, bootstrap, history
<1>10. ASSUME NEW r \in Request, Decide(r) PROVE TInv'
  BY <1>10 DEF Decide, End, Release, Over, gotrue, bootstrap, history
<1>11. ASSUME NEW r \in Request, Write(r) PROVE TInv'
  BY <1>11, TWritten DEF Write, bootstrap, history
<1>12. ASSUME NEW r \in Request, WriteRefused(r) PROVE TInv'
  BY <1>12 DEF WriteRefused, End, Release, Over, gotrue, bootstrap
<1>13. ASSUME NEW r \in Request, Commit(r) PROVE TInv'
  BY <1>13 DEF Commit, DeletionFact, End, Release, Over, gotrue, bootstrap, history
<1>14. ASSUME NEW r \in Request, CommitFails(r) PROVE TInv'
  BY <1>14 DEF CommitFails, DeletionFact, End, Release, Over, gotrue, bootstrap
<1>15. ASSUME NEW r \in Request, Sever(r) PROVE TInv'
  BY <1>15 DEF Sever, Release, gotrue, bootstrap
<1>16. ASSUME NEW r \in Request, Land(r) PROVE TInv'
  BY <1>16, TWritten DEF Land, DeletionFact, Over, bootstrap
<1>17. ASSUME NEW r \in Request, Vanish(r) PROVE TInv'
  BY <1>17 DEF Vanish, Over, gotrue, bootstrap, history
<1>18. QED
  BY <1>1, <1>2, <1>3, <1>4, <1>5, <1>6, <1>7, <1>8, <1>9, <1>10, <1>11, <1>12,
     <1>13, <1>14, <1>15, <1>16, <1>17
  DEF Next, Serve, Founding

(* Every variable keeps its type. *)
THEOREM TypeCorrect == Spec => []TypeOK
<1>1. TInv => TypeOK
  BY DEF TInv
<1>2. QED
  BY <1>1, TInit, TNext, PTL DEF Spec

-----------------------------------------------------------------------------
(* The lock: only its holder reads the accounts, writes them and commits.   *)
Holding == {"locked", "writing", "written"}
LockHeld == \A r \in Request : phase[r] \in Holding => lock = r

LEMMA LockNext == TInv /\ LockHeld /\ [Next]_vars => LockHeld'
<1> SUFFICES ASSUME TInv, LockHeld, [Next]_vars PROVE LockHeld'
  OBVIOUS
<1> USE NoOneIsNoRequest DEF TInv, TypeOK, LockHeld, Holding
<1>1. CASE UNCHANGED requests
  BY <1>1 DEF requests
<1>2. CASE UNCHANGED vars
  BY <1>1, <1>2 DEF vars
<1>3. ASSUME NEW u \in User, SignUp(u) \/ Enable(u) \/ Founding(u) PROVE LockHeld'
  BY <1>1, <1>3
  DEF SignUp, Enable, Founding, List, Promote, PromotionRefused, Redeliver
<1>4. ASSUME NEW r \in Request, Ask(r) \/ Vanish(r) \/ Land(r) PROVE LockHeld'
  BY <1>4 DEF Ask, Vanish, Land, Over
<1>5. ASSUME NEW r \in Request, Acquire(r) PROVE LockHeld'
  BY <1>5 DEF Acquire, Free
<1>6. ASSUME NEW r \in Request, Decide(r) PROVE LockHeld'
  BY <1>6 DEF Decide, End, Release, Over
<1>7. ASSUME NEW r \in Request, Write(r) PROVE LockHeld'
  BY <1>7 DEF Write
<1>8. ASSUME NEW r \in Request, Commit(r) \/ CommitFails(r) \/ WriteRefused(r)
      PROVE  LockHeld'
  BY <1>8 DEF Commit, CommitFails, WriteRefused, End, Release, Over
<1>9. ASSUME NEW r \in Request, Sever(r) PROVE LockHeld'
  BY <1>9 DEF Sever, Release
<1>10. QED
  BY <1>2, <1>3, <1>4, <1>5, <1>6, <1>7, <1>8, <1>9 DEF Next, Serve

(* Before the first promotion there is no role, no token and no ban, and    *)
(* nobody can ask for anything but to leave.                                *)
Founded ==
  founders = {} =>
    /\ role = {} /\ token = {} /\ banned = {}
    /\ \A r \in Request : phase[r] # "idle" => op[r] = "leave"

LEMMA FoundedWritten ==
  ASSUME Founded, founders = {}, NEW r \in Request, phase[r] # "idle",
         Written(op[r], target[r])
  PROVE  role' = {} /\ token' = {} /\ banned' = {}
  BY DEF Founded, Written

LEMMA FoundedNext == TInv /\ Founded /\ [Next]_vars => Founded'
<1> SUFFICES ASSUME TInv, Founded, [Next]_vars, founders' = {}
    PROVE  /\ role' = {} /\ token' = {} /\ banned' = {}
           /\ \A r \in Request : phase'[r] # "idle" => op'[r] = "leave"
  BY DEF Founded
<1> DEFINE Goal == /\ role' = {} /\ token' = {} /\ banned' = {}
                   /\ \A r \in Request : phase'[r] # "idle" => op'[r] = "leave"
<1> USE DEF TInv, TypeOK, UnderWay
<1>0. (founders = {} /\ Unpromoted) \/ UNCHANGED founders
  <2>1. ASSUME NEW u \in User, Promoted(u) PROVE FALSE
    BY <2>1 DEF Promoted
  <2>2. ASSUME NEW u \in User, Promote(u) \/ Redeliver(u) PROVE founders = {}
    BY <2>1, <2>2 DEF Promote, Redeliver, Unpromoted
  <2>3. QED
    BY <2>2 DEF Next, Serve, Founding, SignUp, Enable, List, PromotionRefused, Ask,
      Acquire, Decide, Write, WriteRefused, Commit, CommitFails, Sever, Land, Vanish,
      bootstrap, vars, Unpromoted
<1>1. /\ founders = {} /\ role = {} /\ token = {} /\ banned = {}
      /\ \A r \in Request : phase[r] # "idle" => op[r] = "leave"
  BY <1>0 DEF Founded, Unpromoted
<1>2. CASE UNCHANGED vars
  BY <1>1, <1>2 DEF vars, gotrue, requests, bootstrap
<1>3. ASSUME NEW u \in User, SignUp(u) \/ Enable(u) \/ List(u) \/ PromotionRefused(u)
      PROVE  Goal
  BY <1>1, <1>3 DEF SignUp, Enable, List, PromotionRefused, gotrue, requests
<1>4. ASSUME NEW u \in User, Promote(u) \/ Redeliver(u) PROVE Goal
  BY <1>1, <1>4 DEF Promote, Redeliver, Promoted, Unpromoted, requests
<1>5. ASSUME NEW r \in Request, Ask(r) PROVE Goal
  BY <1>1, <1>5 DEF Ask, Admitted, gotrue
<1>6. ASSUME NEW r \in Request,
             \/ Acquire(r) \/ Decide(r) \/ WriteRefused(r) \/ Commit(r)
             \/ CommitFails(r) \/ Sever(r) \/ Vanish(r)
      PROVE  Goal
  BY <1>1, <1>6 DEF Acquire, Decide, WriteRefused, Commit, CommitFails, Sever, Vanish,
    End, Release, Over, gotrue
<1>7. ASSUME NEW r \in Request, Write(r) \/ Land(r) PROVE Goal
  BY <1>1, <1>7, FoundedWritten DEF Write, Land, Over
<1>8. QED
  BY <1>2, <1>3, <1>4, <1>5, <1>6, <1>7 DEF Next, Serve, Founding

-----------------------------------------------------------------------------
(* No promotion crossed a removal, and no write outlived its lock. *)
Orderly == ~crossed /\ ~late

(* The argument: a removal that was allowed still leaves another acting     *)
(* admin when it is written, because the holder of the lock is the only one *)
(* that can take an acting admin away.                                      *)
Removing(r) == phase[r] = "writing" /\ op[r] # "grant"
Kept == Orderly /\ founders # {} => Acting # {}
Spared == Orderly => \A r \in Request : Removing(r) => NotLastAdmin(target[r])
AInv == TInv /\ LockHeld /\ Founded /\ Kept /\ Spared

LEMMA Orderliness == Orderly' /\ [Next]_vars => Orderly
<1> DEFINE Later == (crossed => crossed') /\ (late => late')
<1>1. ASSUME NEW u \in User, Promoted(u) \/ Unpromoted PROVE crossed => crossed'
  BY <1>1 DEF Promoted, Unpromoted
<1>2. CASE UNCHANGED <<crossed, late>>
  BY <1>2 DEF Orderly
<1>3. ASSUME NEW u \in User, Promote(u) \/ Redeliver(u) PROVE Later
  BY <1>1, <1>3 DEF Promote, Redeliver, history
<1>4. ASSUME NEW r \in Request, Land(r) PROVE Later
  BY <1>4 DEF Land, bootstrap
<1>5. [Next]_vars => UNCHANGED <<crossed, late>> \/ Later
  BY <1>3, <1>4 DEF Next, Serve, Founding, SignUp, Enable, List, PromotionRefused, Ask,
    Acquire, Decide, Write, WriteRefused, Commit, CommitFails, Sever, Vanish,
    bootstrap, history, vars
<1>6. QED
  BY <1>2, <1>5 DEF Orderly

LEMMA NotCrossed ==
  ASSUME Orderly', NEW u \in User, Promoted(u), NEW r \in Request, Removing(r)
  PROVE  target[r] # u
<1>1. ~BeingRemoved(u)
  BY Zenon DEF Orderly, Promoted
<1>2. QED
  BY <1>1 DEF BeingRemoved, Removing

(* More acting admins, of whom none was the target of a removal before. *)
LEMMA MoreActing ==
  ASSUME AInv, Orderly, UNCHANGED <<phase, op, target>>, Acting \subseteq Acting',
         \A r \in Request : Removing(r) /\ target[r] \in Acting' \ Acting => Acting # {}
  PROVE  Spared'
<1> USE DEF AInv, Spared, NotLastAdmin, Removing
<1>1. SUFFICES ASSUME NEW r \in Request, Removing(r), target[r] \in Acting'
      PROVE  \E v \in Acting' : v # target[r]
  OBVIOUS
<1>2. CASE target[r] \in Acting
  BY <1>1, <1>2
<1>3. CASE target[r] \notin Acting
  BY <1>1, <1>3
<1>4. QED
  BY <1>2, <1>3

LEMMA AInit == Init => AInv
<1>1. Init => LockHeld /\ Founded /\ Spared
  BY DEF Init, LockHeld, Holding, Founded, Spared, Removing
<1>2. Init => Kept
  BY DEF Init, Kept
<1>3. QED
  BY <1>1, <1>2, TInit DEF AInv

LEMMA KeptNext == AInv /\ [Next]_vars => Kept' /\ Spared'
<1> SUFFICES ASSUME AInv, [Next]_vars, Orderly'
    PROVE  (founders' # {} => Acting' # {}) /\ Spared'
  BY DEF Kept, Spared
<1> DEFINE Goal == (founders' # {} => Acting' # {}) /\ Spared'
<1>0. Orderly /\ (founders # {} => Acting # {})
  BY Orderliness DEF AInv, Kept
<1> USE DEF AInv, TInv, TypeOK
<1>1. CASE UNCHANGED <<gotrue, phase, op, target, founders>>
  <2>1. UNCHANGED Acting
    BY <1>1 DEF gotrue, Acting, Admins, Live
  <2>2. QED
    BY <1>0, <1>1, <2>1, MoreActing
<1>2. CASE UNCHANGED vars
  BY <1>1, <1>2 DEF vars, requests, bootstrap
<1>3. ASSUME NEW u \in User, SignUp(u) PROVE Goal
  <2>1. Acting \subseteq Acting'
    BY <1>3 DEF SignUp, Acting, Admins, Live
  <2>2. ASSUME NEW v \in User, v # u, v \in Acting' PROVE v \in Acting
    BY <1>3, <2>2 DEF SignUp, Acting, Admins, Live
  <2>3. ASSUME NEW r \in Request, Removing(r) PROVE target[r] \in User /\ target[r] # u
    BY <1>3, <2>3 DEF SignUp, UnderWay, Removing
  <2>4. UNCHANGED <<phase, op, target, founders>>
    BY <1>3 DEF SignUp, requests
  <2>5. QED
    BY <1>0, <2>1, <2>2, <2>3, <2>4, MoreActing
<1>4. ASSUME NEW u \in User, Enable(u) PROVE Goal
  <2>1. Acting \subseteq Acting'
    BY <1>4 DEF Enable, Acting, Admins, Live
  <2>2. UNCHANGED <<phase, op, target, founders>>
    BY <1>4 DEF Enable, requests, bootstrap
  <2>3. founders # {}
    BY <1>4 DEF Enable, Founded
  <2>4. QED
    BY <1>0, <2>1, <2>2, <2>3, MoreActing
<1>5. ASSUME NEW u \in User, List(u) \/ PromotionRefused(u) PROVE Goal
  BY <1>1, <1>5 DEF List, PromotionRefused, requests
<1>6. ASSUME NEW u \in User, Promote(u) \/ Redeliver(u), ~Promoted(u) PROVE Goal
  BY <1>1, <1>6 DEF Promote, Redeliver, Unpromoted, requests, gotrue
<1>7. ASSUME NEW u \in User, Promote(u) \/ Redeliver(u), Promoted(u) PROVE Goal
  <2>1. UNCHANGED <<account, banned, phase, op, target>>
    BY <1>7 DEF Promote, Redeliver, requests
  <2>2. Acting \subseteq Acting' /\ \A v \in Acting' \ Acting : v = u
    BY <1>7, <2>1 DEF Promoted, Acting, Admins, Live
  <2>3. Acting' # {}
    <3>1. CASE founders # {}
      BY <1>0, <2>2, <3>1
    <3>2. CASE founders = {}
      BY <1>7, <2>1, <3>2 DEF Founded, Promoted, Acting, Admins, Live
    <3>3. QED
      BY <3>1, <3>2
  <2>4. Spared'
    BY <1>0, <1>7, <2>1, <2>2, NotCrossed, MoreActing
  <2>5. QED
    BY <2>3, <2>4
<1>8. ASSUME NEW r \in Request, Ask(r) \/ Acquire(r) \/ Sever(r)
             \/ Commit(r) \/ CommitFails(r) \/ WriteRefused(r) \/ Vanish(r)
      PROVE  Goal
  <2>1. UNCHANGED Acting /\ UNCHANGED founders
    BY <1>8 DEF Ask, Acquire, Sever, Commit, CommitFails, WriteRefused, Vanish, gotrue,
      bootstrap, Acting, Admins, Live
  <2>2. \A q \in Request : Removing(q)' => Removing(q) /\ UNCHANGED target[q]
    BY <1>8 DEF Ask, Acquire, Sever, Commit, CommitFails, WriteRefused, Vanish, End,
      Release, Over, Removing
  <2>3. QED
    BY <1>0, <2>1, <2>2 DEF Spared, NotLastAdmin
<1>9. ASSUME NEW r \in Request, Decide(r) PROVE Goal
  <2>1. UNCHANGED Acting /\ UNCHANGED founders
    BY <1>9 DEF Decide, gotrue, bootstrap, Acting, Admins, Live
  <2>2. \A q \in Request \ {r} : Removing(q)' => Removing(q) /\ UNCHANGED target[q]
    BY <1>9 DEF Decide, End, Release, Over, Removing
  <2>3. Removing(r)' => NotLastAdmin(target[r]) /\ UNCHANGED target[r]
    BY <1>9 DEF Decide, End, Release, Over, Removing, Allowed, UnderWay, Op
  <2>4. QED
    BY <1>0, <2>1, <2>2, <2>3 DEF Spared, NotLastAdmin
<1>10. ASSUME NEW r \in Request, Write(r) PROVE Goal
  <2>1. UNCHANGED founders
    BY <1>10 DEF Write, bootstrap
  <2>2. ASSUME NEW q \in Request PROVE ~Removing(q)'
    BY <1>10 DEF Write, Removing, LockHeld, Holding
  <2>3. CASE op[r] = "grant"
    <3>1. Acting \subseteq Acting'
      BY <1>10, <2>3 DEF Write, Written, Acting, Admins, Live
    <3>2. QED
      BY <1>0, <2>1, <2>2, <3>1 DEF Spared
  <2>4. CASE op[r] # "grant"
    <3>1. NotLastAdmin(target[r])
      BY <1>0, <1>10, <2>4 DEF Write, Spared, Removing
    <3>2. \A v \in Acting : v # target[r] => v \in Acting'
      BY <1>10, <2>4 DEF Write, Written, SoftDeleted, Acting, Admins, Live
    <3>3. QED
      BY <1>0, <2>1, <2>2, <3>1, <3>2 DEF Spared, NotLastAdmin
  <2>5. QED
    BY <2>3, <2>4
<1>11. ASSUME NEW r \in Request, Land(r) PROVE FALSE
  BY <1>11, Zenon DEF Land, Orderly
<1>12. QED
  BY <1>2, <1>3, <1>4, <1>5, <1>6, <1>7, <1>8, <1>9, <1>10, <1>11
  DEF Next, Serve, Founding

LEMMA ANext == AInv /\ [Next]_vars => AInv'
  BY TNext, LockNext, FoundedNext, KeptNext DEF AInv

(* Somebody can always administer the server once its first user was        *)
(* promoted, but for the two interleavings the property names.              *)
THEOREM AnActingAdminRemains == Spec => []ActingAdminKept
<1>1. AInv => ActingAdminKept
  BY Zenon DEF AInv, Kept, ActingAdminKept, Orderly
<1>2. QED
  BY <1>1, AInit, ANext, PTL DEF Spec

-----------------------------------------------------------------------------
(* The bootstrap: a task ends without a promotion only because an admin is  *)
(* there, the user is gone or GoTrue refused.                               *)
LEMMA PassedNext == AInv /\ NobodyPassedOver /\ [Next]_vars => NobodyPassedOver'
<1> SUFFICES ASSUME AInv, NobodyPassedOver, [Next]_vars, founders' = {},
                    NEW u \in User, task'[u] = "done"
             PROVE  account'[u] = "deleted" \/ u \in refused'
  BY DEF NobodyPassedOver
<1> DEFINE Goal == account'[u] = "deleted" \/ u \in refused'
<1> USE DEF AInv, TInv, TypeOK
<1>1. ASSUME founders = {}, task[u] = "done" PROVE account[u] = "deleted" \/ u \in refused
  BY <1>1 DEF NobodyPassedOver
<1>2. CASE UNCHANGED <<account, task, founders, refused>>
  BY <1>1, <1>2
<1>3. CASE UNCHANGED vars
  BY <1>2, <1>3 DEF vars, gotrue, bootstrap
<1>4. ASSUME NEW v \in User, SignUp(v) PROVE Goal
  BY <1>1, <1>4 DEF SignUp, Registered
<1>5. ASSUME NEW v \in User, Enable(v) PROVE Goal
  BY <1>2, <1>5 DEF Enable, bootstrap
<1>6. ASSUME NEW v \in User, List(v) PROVE Goal
  <2>1. Admins = {}
    BY <1>6 DEF List, Founded, Admins
  <2>2. CASE v = u
    BY <1>6, <2>1, <2>2 DEF List, AnyAdmin, Live, Registered, gotrue
  <2>3. CASE v # u
    BY <1>1, <1>6, <2>3 DEF List, gotrue
  <2>4. QED
    BY <2>2, <2>3
<1>7. ASSUME NEW v \in User, Promote(v) PROVE Goal
  BY <1>1, <1>7 DEF Promote, Promoted, Unpromoted, Live, Registered
<1>8. ASSUME NEW v \in User, PromotionRefused(v) \/ Redeliver(v) PROVE Goal
  BY <1>1, <1>8 DEF PromotionRefused, Redeliver, Promoted, Unpromoted, gotrue
<1>9. ASSUME NEW r \in Request, Write(r) \/ Land(r) PROVE Goal
  BY <1>1, <1>9 DEF Write, Land, Written, SoftDeleted, bootstrap
<1>10. ASSUME NEW r \in Request, Ask(r) \/ Acquire(r) \/ Decide(r) \/ Commit(r)
              \/ WriteRefused(r) \/ CommitFails(r) \/ Sever(r) \/ Vanish(r)
       PROVE  Goal
  BY <1>2, <1>10 DEF Ask, Acquire, Decide, Commit, WriteRefused, CommitFails, Sever,
    Vanish, gotrue, bootstrap
<1>11. QED
  BY <1>3, <1>4, <1>5, <1>6, <1>7, <1>8, <1>9, <1>10 DEF Next, Serve, Founding

(* Nobody who signed up before there was an admin is forgotten. *)
THEOREM NoUserIsPassedOver == Spec => []NobodyPassedOver
<1>1. Init => NobodyPassedOver
  BY DEF Init, NobodyPassedOver
<1>2. QED
  BY <1>1, AInit, ANext, PassedNext, PTL DEF Spec

-----------------------------------------------------------------------------
(* One bootstrap at a time is past its reading, and none once a user was    *)
(* promoted, since from then on there is an admin to see.                   *)
Unraced == Orderly /\ ~raced
OneAtATime ==
  Unraced =>
    /\ \A u, v \in User : task[u] = "listed" /\ task[v] = "listed" => u = v
    /\ founders # {} => \A u \in User : task[u] # "listed"
    /\ \A u, v \in founders : u = v

LEMMA Unracing == Unraced' /\ [Next]_vars => Unraced
<1>1. ASSUME NEW u \in User, List(u) PROVE raced => raced'
  BY <1>1 DEF List
<1>2. [Next]_vars => (raced => raced')
  BY <1>1 DEF Next, Serve, Founding, SignUp, Enable, Promote, PromotionRefused, Redeliver,
    Ask, Acquire, Decide, Write, WriteRefused, Commit, CommitFails, Sever, Land, Vanish,
    bootstrap, vars
<1>3. QED
  BY <1>2, Orderliness DEF Unraced

LEMMA OneNext == AInv /\ OneAtATime /\ [Next]_vars => OneAtATime'
<1> SUFFICES ASSUME AInv, OneAtATime, [Next]_vars, Unraced' PROVE OneAtATime'
  BY DEF OneAtATime
<1>0. /\ Orderly
      /\ \A u, v \in User : task[u] = "listed" /\ task[v] = "listed" => u = v
      /\ founders # {} => \A u \in User : task[u] # "listed"
      /\ \A u, v \in founders : u = v
  BY Unracing DEF OneAtATime, Unraced
<1> USE DEF AInv, TInv, TypeOK
<1>1. CASE UNCHANGED <<task, founders>>
  BY <1>0, <1>1 DEF OneAtATime
<1>2. CASE UNCHANGED vars
  BY <1>1, <1>2 DEF vars, bootstrap
<1>3. ASSUME NEW u \in User, SignUp(u) PROVE OneAtATime'
  BY <1>0, <1>3 DEF SignUp, OneAtATime
<1>4. ASSUME NEW u \in User, List(u) PROVE OneAtATime'
  <2>1. CASE AnyAdmin \/ u \notin Live
    BY <1>0, <1>4, <2>1 DEF List, OneAtATime
  <2>2. CASE ~AnyAdmin /\ u \in Live
    <3>1. founders = {}
      BY <1>0, <2>2 DEF AnyAdmin, Kept, Acting
    <3>2. \A v \in User \ {u} : task[v] # "listed"
      <4>1. raced' = (raced \/ \E v \in User \ {u} : task[v] = "listed")
        BY <1>4, <2>2 DEF List
      <4>2. ~raced'
        BY Zenon DEF Unraced
      <4>3. QED
        BY <4>1, <4>2
    <3>3. QED
      BY <1>4, <3>1, <3>2 DEF List, OneAtATime
  <2>3. QED
    BY <2>1, <2>2
<1>5. ASSUME NEW u \in User, Promote(u) \/ PromotionRefused(u) \/ Redeliver(u)
      PROVE  OneAtATime'
  <2>1. task[u] = "listed" /\ founders = {}
    BY <1>0, <1>5 DEF Promote, PromotionRefused, Redeliver
  <2>2. \A v \in User : task'[v] # "listed"
    BY <1>0, <1>5, <2>1 DEF Promote, PromotionRefused, Redeliver
  <2>3. founders' \subseteq {u}
    BY <1>5, <2>1 DEF Promote, PromotionRefused, Redeliver, Promoted, Unpromoted
  <2>4. QED
    BY <2>2, <2>3 DEF OneAtATime
<1>6. ASSUME NEW u \in User, Enable(u) PROVE OneAtATime'
  BY <1>1, <1>6 DEF Enable, bootstrap
<1>7. ASSUME NEW r \in Request, Serve(r) PROVE OneAtATime'
  BY <1>1, <1>7 DEF Serve, Ask, Acquire, Decide, Write, WriteRefused, Commit,
    CommitFails, Sever, Land, Vanish, bootstrap
<1>8. QED
  BY <1>2, <1>3, <1>4, <1>5, <1>6, <1>7 DEF Next, Founding

(* One user at most becomes admin by signing up. *)
THEOREM TheFounderIsTheOnlyOne == Spec => []OneFounderUnlessRaced
<1>1. Init => OneAtATime
  BY DEF Init, OneAtATime
<1>2. ASSUME OneAtATime, Unraced PROVE Cardinality(founders) <= 1
  <2>1. CASE founders = {}
    BY <2>1, FS_EmptySet
  <2>2. CASE founders # {}
    <3>1. PICK u \in founders : TRUE
      BY <2>2
    <3>2. \A v \in founders : v = u
      BY <1>2, <3>1 DEF OneAtATime
    <3>3. founders = {u}
      BY <3>1, <3>2
    <3>4. Cardinality({u}) = 1
      BY FS_Singleton
    <3>5. QED
      BY <3>3, <3>4
  <2>3. QED
    BY <2>1, <2>2
<1>3. OneAtATime => OneFounderUnlessRaced
  <2>1. Unraced \/ raced \/ crossed \/ late
    BY Zenon DEF Unraced, Orderly
  <2>2. QED
    BY <1>2, <2>1 DEF OneFounderUnlessRaced
<1>4. QED
  BY <1>1, <1>3, AInit, ANext, OneNext, PTL DEF Spec

-----------------------------------------------------------------------------
(* A request about to commit a deletion has closed the account. *)
Told(r) == IF phase[r] = "written" THEN DeletionFact(op[r], target[r]) ELSE {}
Agreement ==
  \A u \in User :
    account[u] = "deleted" <=> u \in told \cup lost \/ \E r \in Request : u \in Told(r)

LEMMA AgreementNext == TInv /\ Agreement /\ [Next]_vars => Agreement'
<1> SUFFICES ASSUME TInv, Agreement, [Next]_vars, NEW u \in User
             PROVE  account'[u] = "deleted" <=>
                      u \in told' \cup lost' \/ \E r \in Request : u \in Told(r)'
  BY DEF Agreement
<1> DEFINE Goal == account'[u] = "deleted" <=>
                      u \in told' \cup lost' \/ \E r \in Request : u \in Told(r)'
<1>0. account[u] = "deleted" <=> u \in told \cup lost \/ \E r \in Request : u \in Told(r)
  BY DEF Agreement
<1> USE DEF TInv, TypeOK, UnderWay
<1>1. CASE UNCHANGED <<account, requests, lost>>
  BY <1>0, <1>1 DEF requests, Told
<1>2. CASE UNCHANGED vars
  BY <1>1, <1>2 DEF vars, gotrue, history
<1>3. ASSUME NEW v \in User, SignUp(v) PROVE Goal
  <2>1. account'[u] = "deleted" <=> account[u] = "deleted"
    BY <1>3 DEF SignUp
  <2>2. QED
    BY <1>0, <1>3, <2>1 DEF SignUp, requests, history, Told
<1>4. ASSUME NEW v \in User, Enable(v) \/ Founding(v) PROVE Goal
  BY <1>1, <1>4 DEF Enable, Founding, List, Promote, PromotionRefused, Redeliver,
    gotrue, history
<1>5. ASSUME NEW r \in Request, Ask(r) \/ Acquire(r) \/ Decide(r) \/ WriteRefused(r)
             \/ Sever(r) \/ Vanish(r)
      PROVE  Goal
  <2>1. \A q \in Request : Told(q)' = Told(q)
    BY <1>5 DEF Ask, Acquire, Decide, WriteRefused, Sever, Vanish, End, Release, Over,
      Told
  <2>2. UNCHANGED <<account, told, lost>>
    BY <1>5 DEF Ask, Acquire, Decide, WriteRefused, Sever, Vanish, End, Release, Over,
      gotrue, history
  <2>3. QED
    BY <1>0, <2>1, <2>2
<1>6. ASSUME NEW r \in Request, Commit(r) \/ CommitFails(r) PROVE Goal
  <2>1. Told(r)' = {} /\ \A q \in Request \ {r} : Told(q)' = Told(q)
    BY <1>6 DEF Commit, CommitFails, End, Release, Over, Told
  <2>2. UNCHANGED account /\ told' \cup lost' = told \cup lost \cup Told(r)
    BY <1>6 DEF Commit, CommitFails, gotrue, history, Told
  <2>3. QED
    BY <1>0, <2>1, <2>2
<1>7. ASSUME NEW r \in Request, Written(op[r], target[r]), phase[r] # "idle"
      PROVE  account'[u] = "deleted" <=>
               account[u] = "deleted" \/ u \in DeletionFact(op[r], target[r])
  BY <1>7 DEF Written, SoftDeleted, DeletionFact
<1>8. ASSUME NEW r \in Request, Write(r) PROVE Goal
  <2>1. /\ Told(r) = {} /\ Told(r)' = DeletionFact(op[r], target[r])
        /\ \A q \in Request \ {r} : Told(q)' = Told(q)
    BY <1>8 DEF Write, Told, DeletionFact
  <2>2. UNCHANGED <<told, lost>> /\ phase[r] # "idle" /\ Written(op[r], target[r])
    BY <1>8 DEF Write, history
  <2>3. QED
    BY <1>0, <1>7, <2>1, <2>2
<1>9. ASSUME NEW r \in Request, Land(r) PROVE Goal
  <2>1. \A q \in Request : Told(q)' = Told(q)
    BY <1>9 DEF Land, Over, Told
  <2>2. /\ told' = told /\ lost' = lost \cup DeletionFact(op[r], target[r])
        /\ phase[r] # "idle" /\ Written(op[r], target[r])
    BY <1>9 DEF Land
  <2>3. QED
    BY <1>0, <1>7, <2>1, <2>2
<1>10. QED
  BY <1>2, <1>3, <1>4, <1>5, <1>6, <1>8, <1>9 DEF Next, Serve

(* A deletion is told, and only a deletion is, unless its request died. *)
THEOREM DeletionsAreTold == Spec => []DeletionTold
<1>1. Init => Agreement
  BY DEF Init, Agreement, Told
<1>2. ASSUME TInv, Agreement PROVE DeletionTold
  <2>1. \A u \in told : account[u] = "deleted"
    BY <1>2 DEF TInv, TypeOK, Agreement
  <2>2. ASSUME NEW u \in User, NEW r \in Request, u \in Told(r)
        PROVE  target[r] = u /\ phase[r] = "written"
    BY <2>2 DEF Told, DeletionFact
  <2>3. QED
    BY <1>2, <2>1, <2>2 DEF Agreement, DeletionTold
<1>3. QED
  BY <1>1, <1>2, TInit, TNext, AgreementNext, PTL DEF Spec
=============================================================================
