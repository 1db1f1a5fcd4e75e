--------------------------- MODULE SessionsProofs ---------------------------
(***************************************************************************)
(* What Sessions promises, proved for any number of accounts, admins,      *)
(* browsers, sessions and answers on their way.  The invariant says of the *)
(* cookies a browser holds, and of those every answer would leave it with: *)
(* each token names a session that was told (KeptInv), that no other       *)
(* browser has (OwnInv), whose disguise is bounded and whose tokens are    *)
(* the newest the browser has seen (FateInv), and GoTrue still takes it    *)
(* (UseInv).  A handler only ever moves sessions forward (Evolve).         *)
(***************************************************************************)
EXTENDS Sessions, TLAPS

\* A jar over the sessions numbered by D; an answer's cookies, laid over an empty jar, make one.
JarsOver(D) ==
  [access: [sid: D, aal: {1, 2}, old: BOOLEAN] \cup {None}, refresh: [sid: D, gen: Nat] \cup {None},
   ends: Nat,
   stash: [sid: D, aal: {1, 2}, old: BOOLEAN] \cup {None},
   stashRefresh: [sid: D, gen: Nat] \cup {None},
   deadline: Nat, mfa: [sid: D, method: Methods] \cup {None}, verifier: BOOLEAN]

CookiesOK(D, c) == DOMAIN c \subseteq DOMAIN Empty /\ Over(c, Empty) \in JarsOver(D)

LEMMA EmptyIsAJar == ASSUME NEW D PROVE Empty \in JarsOver(D)
BY DEF Empty, JarsOver

LEMMA JarsNow == Jars = JarsOver(DOMAIN sessions)
BY DEF Jars, JarsOver, AccessTokens, RefreshTokens, HandOffs

LEMMA JarsGrow ==
  ASSUME NEW D, NEW E, D \subseteq E
  PROVE  JarsOver(D) \subseteq JarsOver(E)
BY DEF JarsOver

LEMMA CookiesGrow ==
  ASSUME NEW D, NEW E, D \subseteq E, NEW c, CookiesOK(D, c)
  PROVE  CookiesOK(E, c)
BY JarsGrow DEF CookiesOK

LEMMA Applied ==
  ASSUME NEW D, NEW c, CookiesOK(D, c), NEW j \in JarsOver(D)
  PROVE  /\ Over(c, j) \in JarsOver(D)
         /\ Over(c, j).access = IF "access" \in DOMAIN c THEN Over(c, Empty).access ELSE j.access
         /\ Over(c, j).refresh = IF "refresh" \in DOMAIN c THEN Over(c, Empty).refresh ELSE j.refresh
         /\ Over(c, j).ends = IF "ends" \in DOMAIN c THEN Over(c, Empty).ends ELSE j.ends
         /\ Over(c, j).stash = IF "stash" \in DOMAIN c THEN Over(c, Empty).stash ELSE j.stash
         /\ Over(c, j).stashRefresh
              = IF "stashRefresh" \in DOMAIN c THEN Over(c, Empty).stashRefresh ELSE j.stashRefresh
         /\ Over(c, j).deadline = IF "deadline" \in DOMAIN c THEN Over(c, Empty).deadline ELSE j.deadline
         /\ Over(c, j).mfa = IF "mfa" \in DOMAIN c THEN Over(c, Empty).mfa ELSE j.mfa
<1> USE DEF CookiesOK
<1>1. DOMAIN Empty = {"access", "refresh", "ends", "stash", "stashRefresh", "deadline", "mfa", "verifier"}
  BY DEF Empty
<1>2. DOMAIN j = DOMAIN Empty
  BY <1>1 DEF JarsOver
<1>3. \A f \in DOMAIN Empty : Over(c, j)[f] = IF f \in DOMAIN c THEN Over(c, Empty)[f] ELSE j[f]
  BY <1>2 DEF Over
<1>4. /\ Over(c, j).access = IF "access" \in DOMAIN c THEN Over(c, Empty).access ELSE j.access
      /\ Over(c, j).refresh = IF "refresh" \in DOMAIN c THEN Over(c, Empty).refresh ELSE j.refresh
      /\ Over(c, j).ends = IF "ends" \in DOMAIN c THEN Over(c, Empty).ends ELSE j.ends
      /\ Over(c, j).stash = IF "stash" \in DOMAIN c THEN Over(c, Empty).stash ELSE j.stash
  BY <1>1, <1>3
<1>5. /\ Over(c, j).stashRefresh
              = IF "stashRefresh" \in DOMAIN c THEN Over(c, Empty).stashRefresh ELSE j.stashRefresh
      /\ Over(c, j).deadline = IF "deadline" \in DOMAIN c THEN Over(c, Empty).deadline ELSE j.deadline
      /\ Over(c, j).mfa = IF "mfa" \in DOMAIN c THEN Over(c, Empty).mfa ELSE j.mfa
      /\ Over(c, j).verifier = IF "verifier" \in DOMAIN c THEN Over(c, Empty).verifier ELSE j.verifier
  BY <1>1, <1>3
<1>6. Over(c, j) = [f \in DOMAIN Empty |-> Over(c, j)[f]]
  BY <1>2 DEF Over
<1>7. Over(c, j) \in JarsOver(D)
  BY <1>1, <1>4, <1>5, <1>6 DEF JarsOver
<1> QED BY <1>4, <1>5, <1>7

----------------------------------------------------------------------------
(* What is known of cookies j, or of what an answer makes of them, v, with *)
(* the sessions ss.                                                        *)

RefreshIn(j) == {j.refresh, j.stashRefresh} \ {None}

Names(j) == {t.sid : t \in {j.access, j.refresh, j.stash, j.stashRefresh, j.mfa} \ {None}}

\* A session's facts: one, or one per code, and none of a disguise.
Told(it) ==
  /\ Len(it.told) <= IF it.codes = 0 THEN 1 ELSE it.codes
  /\ \A i \in DOMAIN it.told : it.told[i] = SignedIn(it.via, it.codes > 0)
  /\ it.via = "disguise" => it.told = <<>>

\* A session in hand was told; one waiting for its first code was not yet.
Handed(ss, j) ==
  \A t \in {j.access, j.stash} \ {None} : ss[t.sid].via # "disguise" => ss[t.sid].told # <<>>

Asked(ss, j) ==
  j.mfa # None => /\ ss[j.mfa.sid].via = j.mfa.method
                  /\ ss[j.mfa.sid].codes = 0 => ss[j.mfa.sid].told = <<>>

\* Access and refresh tokens come together, and of one session.
Paired(j) ==
  /\ j.access = None <=> j.refresh = None
  /\ j.access # None => j.access.sid = j.refresh.sid
  /\ j.stash = None <=> j.stashRefresh = None
  /\ j.stash # None => j.stash.sid = j.stashRefresh.sid

\* No token is of a generation GoTrue has not reached.
Reached(ss, j) == \A t \in RefreshIn(j) : t.gen <= ss[t.sid].gen

Kept(ss, j) == Handed(ss, j) /\ Asked(ss, j) /\ Paired(j) /\ Reached(ss, j)

\* An answer sets or drops all the cookies of a session, and all those of a stash.
Whole(c) ==
  /\ "access" \in DOMAIN c <=> "refresh" \in DOMAIN c
  /\ "access" \in DOMAIN c <=> "ends" \in DOMAIN c
  /\ "stash" \in DOMAIN c <=> "stashRefresh" \in DOMAIN c
  /\ "stash" \in DOMAIN c <=> "deadline" \in DOMAIN c

Overlaid(ss, s) == \E t \in DOMAIN ss : ss[t].via = "disguise" /\ ss[t].by = s

\* A disguise ends with its stash, which is the admin's; one that is stashed was put on over.
Bounded(ss, v) ==
  /\ v.access # None /\ ss[v.access.sid].via = "disguise" /\ ss[v.access.sid].aal = 1
       /\ ~ Overlaid(ss, v.access.sid) =>
       /\ v.ends <= ss[v.access.sid].window
       /\ v.deadline # 0
       /\ v.deadline <= ss[v.access.sid].window
       /\ v.ends <= v.deadline
       /\ v.stash # None
       /\ v.stash.sid = ss[v.access.sid].by
       /\ ss[v.stash.sid].sub \in Admins
  /\ v.stash # None /\ ss[v.stash.sid].via = "disguise" => Overlaid(ss, v.stash.sid)

Distinct(v) ==
  /\ v.access # None /\ v.stash # None => v.access.sid # v.stash.sid
  /\ v.access # None /\ v.mfa # None => v.access.sid # v.mfa.sid
  /\ v.stash # None /\ v.mfa # None => v.stash.sid # v.mfa.sid

\* v holds no older token of j's session than j does: a renewal does not outdate it.
Ahead(v, j) ==
  j.refresh # None => \A t \in RefreshIn(v) : t.sid = j.refresh.sid => t.gen >= j.refresh.gen

Fate(ss, v, j) == Bounded(ss, v) /\ Distinct(v) /\ Ahead(v, j)

\* GoTrue takes the refresh token r, if its session lives.
Takes(ss, r) == ss[r.sid].live => ss[r.sid].gen - r.gen \in {0, 1}

Usable(ss, j) == \A t \in RefreshIn(j) : Takes(ss, t)

----------------------------------------------------------------------------
(* The invariant. *)

\* The jar an answer would make, and its cookies on their own.
View(m) == Over(m.cookies, jar[m.to])

Bare(m) == Over(m.cookies, Empty)

\* Facts, and tokens that agree with them, in every jar and answer.
KeptInv ==
  /\ \A s \in DOMAIN sessions : Told(sessions[s])
  /\ \A b \in Browsers : Kept(sessions, jar[b])
  /\ \A m \in wire : Kept(sessions, Bare(m)) /\ Whole(m.cookies)

\* No session is in two browsers' hands.
OwnInv ==
  \A x, y \in Browsers : x # y =>
    /\ Names(jar[x]) \cap Names(jar[y]) = {}
    /\ \A m \in wire : m.to = y => Names(jar[x]) \cap Names(Bare(m)) = {}
    /\ \A m, n \in wire : m.to = x /\ n.to = y => Names(Bare(m)) \cap Names(Bare(n)) = {}

\* Of a browser that applied its answers in order, now and with any answer not yet outdated.
FateInv ==
  \A b \in Browsers \ crossed :
    /\ Fate(sessions, jar[b], jar[b])
    /\ \A m \in wire : m.to = b /\ ~ m.late => Fate(sessions, View(m), jar[b])

Unanswered(b) == \A m \in wire : m.to # b

Sole(m) == \A n \in wire : n.to = m.to => n = m

\* Of one that also missed nothing: now if nothing is on its way, and with its only answer if one is.
UseInv ==
  \A b \in Browsers \ (crossed \cup missed) :
    /\ Unanswered(b) => Usable(sessions, jar[b])
    /\ \A m \in wire : m.to = b /\ ~ m.late /\ Sole(m) => Usable(sessions, View(m))

Inv == TypeOK /\ KeptInv /\ OwnInv /\ FateInv /\ UseInv

----------------------------------------------------------------------------
(* How the sessions of a step relate: a session's level, generation and    *)
(* facts only grow, and a revoked one does not come back.                  *)

Evolves(x, y) ==
  /\ y.sub = x.sub /\ y.via = x.via /\ y.window = x.window /\ y.by = x.by
  /\ x.gen <= y.gen
  /\ y.aal = 1 => x.aal = 1
  /\ y.live => x.live
  /\ x.told # <<>> => y.told # <<>>
  /\ y.codes = 0 => y.told = x.told /\ x.codes = 0

Evolve(ss, tt) ==
  /\ ss \in Seq(SessionRecords) /\ tt \in Seq(SessionRecords)
  /\ DOMAIN ss \subseteq DOMAIN tt
  /\ \A s \in DOMAIN ss : Evolves(ss[s], tt[s])

LEMMA KeptGrows ==
  ASSUME NEW ss, NEW tt, Evolve(ss, tt), NEW j \in JarsOver(DOMAIN ss), Kept(ss, j)
  PROVE  Kept(tt, j)
<1>1. Handed(tt, j)
  BY DEF Evolve, Evolves, Kept, Handed, JarsOver
<1>2. Asked(tt, j)
  BY DEF Evolve, Evolves, Kept, Asked, JarsOver
<1>3. Reached(tt, j)
  <2> SUFFICES ASSUME NEW t \in RefreshIn(j)  PROVE t.gen <= tt[t.sid].gen
    BY DEF Reached
  <2>1. t.sid \in DOMAIN ss /\ t.gen \in Nat
    BY DEF RefreshIn, JarsOver
  <2>2. t.gen <= ss[t.sid].gen
    BY DEF Kept, Reached
  <2>3. ss[t.sid].gen <= tt[t.sid].gen
    BY <2>1 DEF Evolve, Evolves
  <2>4. ss[t.sid] \in SessionRecords /\ tt[t.sid] \in SessionRecords
    BY <2>1 DEF Evolve
  <2>5. ss[t.sid].gen \in Nat /\ tt[t.sid].gen \in Nat
    BY <2>4 DEF SessionRecords
  <2> QED BY <2>1, <2>2, <2>3, <2>5
<1> QED BY <1>1, <1>2, <1>3 DEF Kept

LEMMA FateGrows ==
  ASSUME NEW ss, NEW tt, Evolve(ss, tt), NEW v \in JarsOver(DOMAIN ss), NEW j, Fate(ss, v, j)
  PROVE  Fate(tt, v, j)
<1>1. \A s \in DOMAIN ss : Overlaid(ss, s) => Overlaid(tt, s)
  BY DEF Overlaid, Evolve, Evolves
<1>2. Bounded(tt, v)
  BY <1>1 DEF Fate, Bounded, Evolve, Evolves, JarsOver
<1> QED BY <1>2 DEF Fate

LEMMA KeptTogether ==
  ASSUME NEW ss, NEW D, NEW c, CookiesOK(D, c), Whole(c), NEW j \in JarsOver(D),
         Kept(ss, j), Kept(ss, Over(c, Empty))
  PROVE  Kept(ss, Over(c, j))
<1> DEFINE e == Over(c, Empty)  v == Over(c, j)
<1>1. /\ v.access = IF "access" \in DOMAIN c THEN e.access ELSE j.access
      /\ v.refresh = IF "refresh" \in DOMAIN c THEN e.refresh ELSE j.refresh
      /\ v.stash = IF "stash" \in DOMAIN c THEN e.stash ELSE j.stash
      /\ v.stashRefresh = IF "stashRefresh" \in DOMAIN c THEN e.stashRefresh ELSE j.stashRefresh
      /\ v.mfa = IF "mfa" \in DOMAIN c THEN e.mfa ELSE j.mfa
  BY Applied
<1> HIDE DEF e, v
<1>2. Kept(ss, e)
  BY DEF e
<1>3. Handed(ss, v)
  BY <1>1, <1>2 DEF Kept, Handed
<1>4. Asked(ss, v)
  BY <1>1, <1>2 DEF Kept, Asked
<1>5. Paired(v)
  BY <1>1, <1>2 DEF Kept, Paired, Whole
<1>6. Reached(ss, v)
  BY <1>1, <1>2 DEF Kept, Reached, RefreshIn
<1>7. Kept(ss, v)
  BY <1>3, <1>4, <1>5, <1>6 DEF Kept
<1> QED BY <1>7 DEF v

LEMMA NamesTogether ==
  ASSUME NEW D, NEW c, CookiesOK(D, c), NEW j \in JarsOver(D)
  PROVE  Names(Over(c, j)) \subseteq Names(j) \cup Names(Over(c, Empty))
<1> DEFINE e == Over(c, Empty)  v == Over(c, j)
<1>1. /\ v.access = IF "access" \in DOMAIN c THEN e.access ELSE j.access
      /\ v.refresh = IF "refresh" \in DOMAIN c THEN e.refresh ELSE j.refresh
      /\ v.stash = IF "stash" \in DOMAIN c THEN e.stash ELSE j.stash
      /\ v.stashRefresh = IF "stashRefresh" \in DOMAIN c THEN e.stashRefresh ELSE j.stashRefresh
      /\ v.mfa = IF "mfa" \in DOMAIN c THEN e.mfa ELSE j.mfa
  BY Applied
<1> HIDE DEF e, v
<1>2. Names(v) \subseteq Names(j) \cup Names(e)
  BY <1>1 DEF Names
<1> QED BY <1>2 DEF e, v

LEMMA NamesAreSessions ==
  ASSUME NEW D, NEW j \in JarsOver(D)
  PROVE  Names(j) \subseteq D
BY DEF Names, JarsOver

LEMMA Typed ==
  ASSUME TypeOK
  PROVE  /\ sessions \in Seq(SessionRecords)
         /\ \A b \in Browsers : jar[b] \in JarsOver(DOMAIN sessions)
         /\ \A m \in wire : /\ m.to \in Browsers
                            /\ m.late \in BOOLEAN
                            /\ CookiesOK(DOMAIN sessions, m.cookies)
                            /\ m = [to |-> m.to, cookies |-> m.cookies, late |-> m.late]
<1>1. Jars = JarsOver(DOMAIN sessions)
  BY JarsNow
<1>2. \A m \in wire : m \in Answers
  BY DEF TypeOK
<1>3. \A m \in wire : m.to \in Browsers /\ m.late \in BOOLEAN
                      /\ m = [to |-> m.to, cookies |-> m.cookies, late |-> m.late]
  BY <1>2 DEF Answers
<1> QED BY <1>1, <1>3 DEF TypeOK, CookiesOK

LEMMA Views ==
  ASSUME Inv, NEW m \in wire
  PROVE  /\ View(m) \in JarsOver(DOMAIN sessions)
         /\ Bare(m) \in JarsOver(DOMAIN sessions)
         /\ Kept(sessions, View(m))
         /\ Names(View(m)) \subseteq Names(jar[m.to]) \cup Names(Bare(m))
<1>1. m.to \in Browsers /\ CookiesOK(DOMAIN sessions, m.cookies)
      /\ jar[m.to] \in JarsOver(DOMAIN sessions)
  BY Typed DEF Inv
<1>2. Kept(sessions, jar[m.to]) /\ Kept(sessions, Bare(m)) /\ Whole(m.cookies)
  BY <1>1 DEF Inv, KeptInv
<1>3. View(m) \in JarsOver(DOMAIN sessions) /\ Bare(m) \in JarsOver(DOMAIN sessions)
  BY <1>1, Applied DEF View, Bare, CookiesOK
<1>4. Kept(sessions, View(m))
  BY <1>1, <1>2, KeptTogether DEF View, Bare
<1>5. Names(View(m)) \subseteq Names(jar[m.to]) \cup Names(Bare(m))
  BY <1>1, NamesTogether DEF View, Bare
<1> QED BY <1>3, <1>4, <1>5

----------------------------------------------------------------------------
(* A handler of browser b, which leaves the jars alone, and the answer n it may send. *)

\* Sessions move forward, and only those of b's cookies are renewed.
Handles(b) ==
  /\ jar' = jar
  /\ crossed' = crossed
  /\ missed \subseteq missed'
  /\ Evolve(sessions, sessions')
  /\ \A s \in DOMAIN sessions' : Told(sessions'[s])
  /\ \A s \in DOMAIN sessions : s \notin Names(jar[b]) => sessions'[s].gen = sessions[s].gen

Letter(b, n) == [to |-> b, cookies |-> n, late |-> FALSE]

\* The answer n keeps, for b, what the invariant asks of an answer.
Sends(b, n) ==
  /\ wire' = wire \cup {Letter(b, n)}
  /\ CookiesOK(DOMAIN sessions', n)
  /\ Whole(n)
  /\ Kept(sessions', Over(n, Empty))
  /\ Names(Over(n, Empty)) \subseteq Names(jar[b]) \cup (DOMAIN sessions' \ DOMAIN sessions)
  /\ b \notin crossed => Fate(sessions', Over(n, jar[b]), jar[b])
  /\ /\ b \notin crossed \cup missed'
     /\ \/ Usable(sessions, jar[b])
        \/ Letter(b, n) \in wire /\ Usable(sessions, Over(n, jar[b]))
     => Usable(sessions', Over(n, jar[b]))

\* No answer: whatever b holds, or is about to, is still good.
KeepsSilent(b) ==
  /\ wire' = wire
  /\ b \notin crossed \cup missed' =>
       /\ Unanswered(b) /\ Usable(sessions, jar[b]) => Usable(sessions', jar[b])
       /\ \A m \in wire : m.to = b /\ ~ m.late /\ Usable(sessions, View(m))
            => Usable(sessions', View(m))

LEMMA HandlesKept ==
  ASSUME Inv, NEW b \in Browsers, Handles(b),
         wire' = wire \/ \E n : Sends(b, n)
  PROVE  KeptInv'
<1>1. Evolve(sessions, sessions') /\ jar' = jar
  BY DEF Handles
<1>2. \A x \in Browsers : Kept(sessions', jar'[x])
  BY <1>1, Typed, KeptGrows DEF Inv, KeptInv
<1>3. ASSUME NEW m \in wire  PROVE Kept(sessions', Over(m.cookies, Empty)) /\ Whole(m.cookies)
  <2>1. Bare(m) \in JarsOver(DOMAIN sessions)
    BY Views
  <2>2. Kept(sessions, Bare(m)) /\ Whole(m.cookies)
    BY DEF Inv, KeptInv
  <2>3. Kept(sessions', Bare(m))
    BY <1>1, <2>1, <2>2, KeptGrows
  <2> QED BY <2>2, <2>3 DEF Bare
<1>4. ASSUME NEW m \in wire'  PROVE Kept(sessions', Over(m.cookies, Empty)) /\ Whole(m.cookies)
  <2>1. CASE m \in wire
    BY <2>1, <1>3
  <2>2. CASE m \notin wire
    <3>1. PICK n : Sends(b, n) /\ m = Letter(b, n)
      BY <2>2 DEF Sends
    <3>2. m.cookies = n
      BY <3>1 DEF Letter
    <3> QED BY <3>1, <3>2 DEF Sends
  <2> QED BY <2>1, <2>2
<1>5. \A s \in DOMAIN sessions' : Told(sessions'[s])
  BY DEF Handles
<1> QED BY <1>2, <1>4, <1>5 DEF KeptInv, Bare

\* New sessions are in nobody's hands.
LEMMA HandlesOwned ==
  ASSUME Inv, NEW b \in Browsers, Handles(b),
         wire' = wire \/ \E n : Sends(b, n)
  PROVE  OwnInv'
<1>1. jar' = jar
  BY DEF Handles
<1>2. \A x \in Browsers : Names(jar[x]) \subseteq DOMAIN sessions
  BY Typed, NamesAreSessions DEF Inv
<1>3. \A m \in wire : m.to \in Browsers /\ Names(Bare(m)) \subseteq DOMAIN sessions
  BY Typed, Views, NamesAreSessions DEF Inv
<1>4. \A m \in wire' : m \in wire \/
        (m.to = b /\ Names(Bare(m)) \subseteq Names(jar[b]) \cup (DOMAIN sessions' \ DOMAIN sessions))
  <2> SUFFICES ASSUME NEW m \in wire', m \notin wire
               PROVE  m.to = b /\ Names(Bare(m)) \subseteq Names(jar[b]) \cup (DOMAIN sessions' \ DOMAIN sessions)
    OBVIOUS
  <2>1. PICK n : Sends(b, n) /\ m = Letter(b, n)
    BY DEF Sends
  <2>2. m.cookies = n /\ m.to = b
    BY <2>1 DEF Letter
  <2> QED BY <2>1, <2>2 DEF Sends, Bare
<1>5. OwnInv
  BY DEF Inv
<1>6. ASSUME NEW x \in Browsers, NEW y \in Browsers, x # y
      PROVE  /\ Names(jar[x]) \cap Names(jar[y]) = {}
             /\ \A m \in wire' : m.to = y => Names(jar[x]) \cap Names(Bare(m)) = {}
             /\ \A m, n \in wire' : m.to = x /\ n.to = y => Names(Bare(m)) \cap Names(Bare(n)) = {}
  <2>1. Names(jar[x]) \cap Names(jar[y]) = {}
    BY <1>5, <1>6 DEF OwnInv
  <2>2. ASSUME NEW m \in wire', m.to = y  PROVE Names(jar[x]) \cap Names(Bare(m)) = {}
    <3>1. CASE m \in wire
      BY <1>5, <1>6, <2>2, <3>1 DEF OwnInv
    <3>2. CASE m \notin wire
      BY <1>2, <1>4, <2>1, <2>2, <3>2
    <3> QED BY <3>1, <3>2
  <2>3. ASSUME NEW m \in wire', NEW n \in wire', m.to = x, n.to = y
        PROVE  Names(Bare(m)) \cap Names(Bare(n)) = {}
    <3>1. CASE m \in wire /\ n \in wire
      BY <1>5, <1>6, <2>3, <3>1 DEF OwnInv
    <3>2. CASE m \notin wire
      <4>1. n \in wire /\ x = b
        BY <1>4, <1>6, <2>3, <3>2
      <4>2. Names(jar[x]) \cap Names(Bare(n)) = {}
        BY <4>1, <1>5, <1>6, <2>3 DEF OwnInv
      <4> QED BY <1>3, <1>4, <3>2, <4>1, <4>2
    <3>3. CASE n \notin wire
      <4>1. m \in wire /\ y = b
        BY <1>4, <1>6, <2>3, <3>3
      <4>2. Names(jar[y]) \cap Names(Bare(m)) = {}
        BY <4>1, <1>5, <1>6, <2>3 DEF OwnInv
      <4> QED BY <1>3, <1>4, <3>3, <4>1, <4>2
    <3> QED BY <3>1, <3>2, <3>3
  <2> QED BY <2>1, <2>2, <2>3
<1> QED BY <1>1, <1>6 DEF OwnInv, Bare

LEMMA HandlesFate ==
  ASSUME Inv, NEW b \in Browsers, Handles(b),
         wire' = wire \/ \E n : Sends(b, n)
  PROVE  FateInv'
<1>1. jar' = jar /\ crossed' = crossed /\ Evolve(sessions, sessions')
  BY DEF Handles
<1> SUFFICES ASSUME NEW x \in Browsers \ crossed
             PROVE  /\ Fate(sessions', jar[x], jar[x])
                    /\ \A m \in wire' : m.to = x /\ ~ m.late
                         => Fate(sessions', Over(m.cookies, jar[m.to]), jar[x])
  BY <1>1 DEF FateInv, View
<1>2. Fate(sessions', jar[x], jar[x])
  BY <1>1, Typed, FateGrows DEF Inv, FateInv
<1>3. ASSUME NEW m \in wire', m.to = x, ~ m.late
      PROVE  Fate(sessions', Over(m.cookies, jar[m.to]), jar[x])
  <2>1. CASE m \in wire
    <3>1. Fate(sessions, View(m), jar[x]) /\ View(m) \in JarsOver(DOMAIN sessions)
      BY <1>3, <2>1, Views DEF Inv, FateInv
    <3>2. Fate(sessions', View(m), jar[x])
      BY <1>1, <3>1, FateGrows
    <3> QED BY <3>2 DEF View
  <2>2. CASE m \notin wire
    <3>1. PICK n : Sends(b, n) /\ m = Letter(b, n)
      BY <2>2 DEF Sends
    <3>2. m.cookies = n /\ m.to = b
      BY <3>1 DEF Letter
    <3> QED BY <1>3, <3>1, <3>2 DEF Sends
  <2> QED BY <2>1, <2>2
<1> QED BY <1>2, <1>3

\* Somebody else's tokens are left as they were.
LEMMA OthersUsable ==
  ASSUME NEW ss, NEW tt, NEW v \in JarsOver(DOMAIN ss), Evolve(ss, tt), Usable(ss, v),
         \A s \in Names(v) : tt[s].gen = ss[s].gen
  PROVE  Usable(tt, v)
<1> SUFFICES ASSUME NEW t \in RefreshIn(v), tt[t.sid].live  PROVE tt[t.sid].gen - t.gen \in {0, 1}
  BY DEF Usable, Takes
<1>1. t.sid \in Names(v)
  BY DEF RefreshIn, Names
<1>2. t.sid \in DOMAIN ss
  BY <1>1, NamesAreSessions
<1>3. ss[t.sid].live
  BY <1>2 DEF Evolve, Evolves
<1> QED BY <1>1, <1>3 DEF Usable, Takes

LEMMA HandlesUsable ==
  ASSUME Inv, NEW b \in Browsers, Handles(b),
         KeepsSilent(b) \/ \E n : Sends(b, n)
  PROVE  UseInv'
<1>1. /\ jar' = jar /\ crossed' = crossed /\ Evolve(sessions, sessions') /\ missed \subseteq missed'
      /\ \A s \in DOMAIN sessions : s \notin Names(jar[b]) => sessions'[s].gen = sessions[s].gen
  BY DEF Handles
<1>2. wire \subseteq wire' /\ \A m \in wire' : m \notin wire => m.to = b
  <2>1. CASE KeepsSilent(b)
    BY <2>1 DEF KeepsSilent
  <2>2. CASE \E n : Sends(b, n)
    <3>1. PICK n : Sends(b, n)
      BY <2>2
    <3>2. wire' = wire \cup {Letter(b, n)}
      BY <3>1 DEF Sends
    <3>3. Letter(b, n).to = b
      BY DEF Letter
    <3> QED BY <3>2, <3>3
  <2> QED BY <2>1, <2>2
<1> SUFFICES ASSUME NEW x \in Browsers \ (crossed \cup missed')
             PROVE  /\ (\A m \in wire' : m.to # x) => Usable(sessions', jar[x])
                    /\ \A m \in wire' : m.to = x /\ ~ m.late /\ (\A n \in wire' : n.to = x => n = m)
                         => Usable(sessions', Over(m.cookies, jar[m.to]))
  BY <1>1 DEF UseInv, View, Unanswered, Sole
<1>3. x \in Browsers \ (crossed \cup missed)
  BY <1>1
<1>4. CASE x # b
  <2>1. \A s \in DOMAIN sessions : s \in Names(jar[x]) => sessions'[s].gen = sessions[s].gen
    BY <1>1, <1>4 DEF Inv, OwnInv
  <2>2. Names(jar[x]) \subseteq DOMAIN sessions /\ jar[x] \in JarsOver(DOMAIN sessions)
    BY Typed, NamesAreSessions DEF Inv
  <2>3. ASSUME \A m \in wire' : m.to # x  PROVE Usable(sessions', jar[x])
    <3>1. Usable(sessions, jar[x])
      BY <1>2, <1>3, <2>3 DEF Inv, UseInv, Unanswered
    <3> QED BY <1>1, <2>1, <2>2, <3>1, OthersUsable
  <2>4. ASSUME NEW m \in wire', m.to = x, ~ m.late, \A n \in wire' : n.to = x => n = m
        PROVE  Usable(sessions', Over(m.cookies, jar[m.to]))
    <3>1. m \in wire
      BY <1>2, <1>4, <2>4
    <3>2. Usable(sessions, View(m))
      BY <1>2, <1>3, <2>4, <3>1 DEF Inv, UseInv, Sole
    <3>3. View(m) \in JarsOver(DOMAIN sessions) /\ Names(View(m)) \subseteq Names(jar[x]) \cup Names(Bare(m))
      BY <2>4, <3>1, Views
    <3>4. Names(jar[b]) \cap Names(Bare(m)) = {}
      BY <1>4, <2>4, <3>1 DEF Inv, OwnInv
    <3>5. Names(View(m)) \subseteq DOMAIN sessions
      BY <3>3, NamesAreSessions
    <3>6. \A s \in Names(View(m)) : sessions'[s].gen = sessions[s].gen
      BY <1>1, <2>1, <3>3, <3>4, <3>5
    <3>7. Usable(sessions', View(m))
      BY <1>1, <3>2, <3>3, <3>6, OthersUsable
    <3> QED BY <3>7 DEF View
  <2> QED BY <2>3, <2>4
<1>5. CASE x = b /\ KeepsSilent(b)
  <2>1. wire' = wire
    BY <1>5 DEF KeepsSilent
  <2>2. ASSUME \A m \in wire' : m.to # x  PROVE Usable(sessions', jar[x])
    <3>1. Usable(sessions, jar[x]) /\ Unanswered(x)
      BY <1>3, <2>1, <2>2 DEF Inv, UseInv, Unanswered
    <3> QED BY <1>5, <3>1 DEF KeepsSilent
  <2>3. ASSUME NEW m \in wire', m.to = x, ~ m.late, \A n \in wire' : n.to = x => n = m
        PROVE  Usable(sessions', Over(m.cookies, jar[m.to]))
    <3>1. Usable(sessions, View(m))
      BY <1>3, <2>1, <2>3 DEF Inv, UseInv, Sole
    <3>2. Usable(sessions', View(m))
      BY <1>5, <2>1, <2>3, <3>1 DEF KeepsSilent
    <3> QED BY <3>2 DEF View
  <2> QED BY <2>2, <2>3
<1>6. CASE x = b /\ \E n : Sends(b, n)
  <2>1. PICK n : Sends(b, n)
    BY <1>6
  <2>2. Letter(b, n) \in wire' /\ Letter(b, n).to = b /\ Letter(b, n).cookies = n /\ ~ Letter(b, n).late
    BY <2>1 DEF Sends, Letter
  <2>3. ASSUME NEW m \in wire', m.to = x, ~ m.late, \A k \in wire' : k.to = x => k = m
        PROVE  Usable(sessions', Over(m.cookies, jar[m.to]))
    <3>1. m = Letter(b, n)
      BY <1>6, <2>2, <2>3
    <3>2. CASE m \in wire
      <4>1. Usable(sessions, View(m))
        BY <1>2, <1>3, <2>3, <3>2 DEF Inv, UseInv, Sole
      <4>2. Usable(sessions, Over(n, jar[b]))
        BY <2>2, <3>1, <4>1 DEF View
      <4> QED BY <1>6, <2>1, <2>2, <3>1, <3>2, <4>2 DEF Sends
    <3>3. CASE m \notin wire
      <4>1. Unanswered(b)
        BY <1>2, <1>6, <2>3, <3>3 DEF Unanswered
      <4>2. Usable(sessions, jar[b])
        BY <1>3, <1>6, <4>1 DEF Inv, UseInv
      <4>3. b \notin crossed \cup missed'
        BY <1>6
      <4>4. Usable(sessions', Over(n, jar[b]))
        <5>1. /\ b \notin crossed \cup missed'
              /\ \/ Usable(sessions, jar[b])
                 \/ Letter(b, n) \in wire /\ Usable(sessions, Over(n, jar[b]))
              => Usable(sessions', Over(n, jar[b]))
          BY <2>1, Zenon DEF Sends
        <5> QED BY <4>2, <4>3, <5>1, Zenon
      <4> QED BY <2>2, <3>1, <4>4
    <3> QED BY <3>2, <3>3
  <2> QED BY <1>6, <2>2, <2>3
<1> QED BY <1>4, <1>5, <1>6

----------------------------------------------------------------------------
(* What the handlers make of the sessions. *)

LEMMA EvolveChain ==
  ASSUME NEW ss, NEW tt, NEW uu, Evolve(ss, tt), Evolve(tt, uu)
  PROVE  Evolve(ss, uu)
<1>1. ASSUME NEW s \in DOMAIN ss  PROVE Evolves(ss[s], uu[s])
  <2>1. s \in DOMAIN tt /\ s \in DOMAIN uu
    BY DEF Evolve
  <2>2. Evolves(ss[s], tt[s]) /\ Evolves(tt[s], uu[s])
    BY <2>1 DEF Evolve
  <2>3. ss[s] \in SessionRecords /\ tt[s] \in SessionRecords /\ uu[s] \in SessionRecords
    BY <2>1 DEF Evolve
  <2>4. ss[s].gen \in Nat /\ tt[s].gen \in Nat /\ uu[s].gen \in Nat
    BY <2>3 DEF SessionRecords
  <2>5. ss[s].gen <= uu[s].gen
    BY <2>2, <2>4 DEF Evolves
  <2> QED BY <2>2, <2>5 DEF Evolves
<1> QED BY <1>1 DEF Evolve

LEMMA EvolveStill ==
  ASSUME NEW ss \in Seq(SessionRecords)
  PROVE  Evolve(ss, ss)
<1>1. \A s \in DOMAIN ss : ss[s] \in SessionRecords
  OBVIOUS
<1>2. \A s \in DOMAIN ss : ss[s].gen \in Nat
  BY <1>1 DEF SessionRecords
<1>3. \A s \in DOMAIN ss : ss[s].gen <= ss[s].gen
  BY <1>2
<1> QED BY <1>3 DEF Evolve, Evolves

LEMMA EvolveAppend ==
  ASSUME NEW ss \in Seq(SessionRecords), NEW x \in SessionRecords
  PROVE  /\ Evolve(ss, Append(ss, x))
         /\ DOMAIN Append(ss, x) = DOMAIN ss \cup {Len(ss) + 1}
         /\ Len(ss) + 1 \notin DOMAIN ss
         /\ \A s \in DOMAIN ss : Append(ss, x)[s] = ss[s]
         /\ Append(ss, x)[Len(ss) + 1] = x
<1>1. DOMAIN ss = 1..Len(ss) /\ Len(ss) \in Nat
  OBVIOUS
<1>2. Append(ss, x) \in Seq(SessionRecords) /\ DOMAIN Append(ss, x) = 1..(Len(ss) + 1)
  OBVIOUS
<1>3. \A s \in DOMAIN ss : Append(ss, x)[s] = ss[s]
  BY <1>1
<1>4. Append(ss, x)[Len(ss) + 1] = x
  BY <1>1
<1>5. DOMAIN Append(ss, x) = DOMAIN ss \cup {Len(ss) + 1} /\ Len(ss) + 1 \notin DOMAIN ss
  BY <1>1, <1>2
<1>6. Evolve(ss, ss)
  BY EvolveStill
<1>7. Evolve(ss, Append(ss, x))
  BY <1>2, <1>3, <1>5, <1>6 DEF Evolve
<1> QED BY <1>3, <1>4, <1>5, <1>7

\* One session changes.
LEMMA EvolveOne ==
  ASSUME NEW ss \in Seq(SessionRecords), NEW s \in DOMAIN ss, NEW x \in SessionRecords,
         Evolves(ss[s], x)
  PROVE  /\ Evolve(ss, [ss EXCEPT ![s] = x])
         /\ DOMAIN [ss EXCEPT ![s] = x] = DOMAIN ss
         /\ Len([ss EXCEPT ![s] = x]) = Len(ss)
         /\ \A t \in DOMAIN ss : t # s => [ss EXCEPT ![s] = x][t] = ss[t]
         /\ [ss EXCEPT ![s] = x][s] = x
<1>1. DOMAIN ss = 1..Len(ss) /\ Len(ss) \in Nat
  OBVIOUS
<1>2. [ss EXCEPT ![s] = x] \in Seq(SessionRecords) /\ DOMAIN [ss EXCEPT ![s] = x] = DOMAIN ss
      /\ Len([ss EXCEPT ![s] = x]) = Len(ss)
  OBVIOUS
<1>3. \A t \in DOMAIN ss : t # s => [ss EXCEPT ![s] = x][t] = ss[t]
  OBVIOUS
<1>4. [ss EXCEPT ![s] = x][s] = x
  OBVIOUS
<1>5. Evolve(ss, ss)
  BY EvolveStill
<1>6. Evolve(ss, [ss EXCEPT ![s] = x])
  BY <1>2, <1>3, <1>4, <1>5 DEF Evolve
<1> QED BY <1>2, <1>3, <1>4, <1>6

LEMMA RecordTypes ==
  ASSUME NEW x \in SessionRecords
  PROVE  /\ x.sub \in Users /\ x.via \in Methods \cup {"disguise"} /\ x.aal \in {1, 2}
         /\ x.gen \in Nat /\ x.live \in BOOLEAN /\ x.codes \in 0..MaxCodes /\ x.codes \in Nat
         /\ x.window \in Nat /\ x.by \in Nat
         /\ x.told \in Seq([method: Methods, two_factor: BOOLEAN])
BY SessionsAssumption DEF SessionRecords

LEMMA Rotated ==
  ASSUME TypeOK, NEW b \in Browsers, NEW tt, tt = Rotate(jar[b], sessions),
         \A s \in DOMAIN sessions : Told(sessions[s])
  PROVE  /\ tt \in Seq(SessionRecords)
         /\ Evolve(sessions, tt)
         /\ DOMAIN tt = DOMAIN sessions
         /\ Len(tt) = Len(sessions)
         /\ \A s \in DOMAIN tt : Told(tt[s])
         /\ \A s \in DOMAIN sessions : tt[s].aal = sessions[s].aal /\ tt[s].live = sessions[s].live
         /\ \A s \in DOMAIN sessions : s \notin Names(jar[b]) => tt[s].gen = sessions[s].gen
         /\ Renews(jar[b]) =>
              /\ jar[b].refresh # None /\ jar[b].access # None
              /\ jar[b].refresh.sid \in DOMAIN sessions
              /\ jar[b].refresh.gen \in Nat
              /\ sessions[jar[b].refresh.sid].gen - jar[b].refresh.gen \in {0, 1}
              /\ tt[jar[b].refresh.sid].gen = jar[b].refresh.gen + 1
              /\ \A s \in DOMAIN sessions : s # jar[b].refresh.sid => tt[s].gen = sessions[s].gen
         /\ ~ Renews(jar[b]) => tt = sessions
<1>1. sessions \in Seq(SessionRecords) /\ jar[b] \in JarsOver(DOMAIN sessions)
  BY Typed
<1>2. CASE ~ Renews(jar[b])
  <2>1. tt = sessions
    BY <1>2 DEF Rotate
  <2>2. Evolve(sessions, sessions)
    BY <1>1, EvolveStill
  <2> QED BY <1>1, <1>2, <2>1, <2>2
<1>3. CASE Renews(jar[b])
  <2>1. PICK r, q : r = jar[b].refresh /\ q = r.sid
    OBVIOUS
  <2>2. r # None /\ jar[b].access # None /\ sessions[q].gen - r.gen \in {0, 1}
    BY <1>3, <2>1 DEF Renews, Swappable
  <2>3. q \in DOMAIN sessions /\ r.gen \in Nat
    BY <1>1, <2>1, <2>2 DEF JarsOver
  <2>4. PICK old : old = sessions[q]
    OBVIOUS
  <2>5. old \in SessionRecords /\ old.gen \in Nat
    BY <1>1, <2>3, <2>4, RecordTypes
  <2>6. old.gen <= r.gen + 1 /\ r.gen + 1 \in Nat
    BY <2>2, <2>3, <2>4, <2>5
  <2>7. PICK new : new = [old EXCEPT !.gen = r.gen + 1]
    OBVIOUS
  <2>8. /\ new \in SessionRecords
        /\ new.gen = r.gen + 1 /\ new.sub = old.sub /\ new.via = old.via /\ new.aal = old.aal
        /\ new.live = old.live /\ new.codes = old.codes /\ new.window = old.window /\ new.by = old.by
        /\ new.told = old.told
    BY <2>5, <2>6, <2>7 DEF SessionRecords
  <2>9. Evolves(sessions[q], new)
    BY <2>4, <2>6, <2>8 DEF Evolves
  <2>16. tt = [sessions EXCEPT ![q] = new]
    BY <1>1, <1>3, <2>1, <2>3, <2>4, <2>5, <2>7 DEF Rotate, SessionRecords
  <2>10. /\ Evolve(sessions, tt) /\ DOMAIN tt = DOMAIN sessions /\ Len(tt) = Len(sessions)
         /\ \A t \in DOMAIN sessions : t # q => tt[t] = sessions[t]
         /\ tt[q] = new
    <3>1. \A x \in SessionRecords : Evolves(sessions[q], x) =>
            /\ Evolve(sessions, [sessions EXCEPT ![q] = x])
            /\ DOMAIN [sessions EXCEPT ![q] = x] = DOMAIN sessions
            /\ Len([sessions EXCEPT ![q] = x]) = Len(sessions)
            /\ \A t \in DOMAIN sessions : t # q => [sessions EXCEPT ![q] = x][t] = sessions[t]
            /\ [sessions EXCEPT ![q] = x][q] = x
      BY <1>1, <2>3, EvolveOne
    <3>2. new \in SessionRecords
      BY <2>8
    <3>3. /\ Evolve(sessions, [sessions EXCEPT ![q] = new])
          /\ DOMAIN [sessions EXCEPT ![q] = new] = DOMAIN sessions
          /\ Len([sessions EXCEPT ![q] = new]) = Len(sessions)
          /\ \A t \in DOMAIN sessions : t # q => [sessions EXCEPT ![q] = new][t] = sessions[t]
          /\ [sessions EXCEPT ![q] = new][q] = new
      BY <2>9, <3>1, <3>2
    <3> QED BY <2>16, <3>3, Zenon
  <2>11. q \in Names(jar[b])
    BY <2>1, <2>2 DEF Names
  <2>12. Told(new)
    <3>1. Told(old)
      BY <2>3, <2>4
    <3> QED BY <2>8, <3>1 DEF Told
  <2>13. \A s \in DOMAIN tt : Told(tt[s])
    BY <2>10, <2>12
  <2>14. \A s \in DOMAIN sessions : tt[s].aal = sessions[s].aal /\ tt[s].live = sessions[s].live
    BY <2>4, <2>8, <2>10
  <2>15. tt \in Seq(SessionRecords)
    BY <2>10 DEF Evolve
  <2> QED BY <1>3, <2>1, <2>2, <2>3, <2>8, <2>10, <2>11, <2>13, <2>14, <2>15
<1> QED BY <1>2, <1>3

LEMMA NewRecord ==
  ASSUME NEW u \in Users, NEW via \in Methods \cup {"disguise"}
  PROVE  /\ Opened(u, via) \in SessionRecords
         /\ Told(Opened(u, via))
         /\ Opened(u, via).via = via /\ Opened(u, via).gen = 0 /\ Opened(u, via).codes = 0
         /\ Opened(u, via).told = <<>>
<1>1. Forever \in Nat /\ 0 \in 0..MaxCodes
  BY SessionsAssumption DEF Forever
<1>2. <<>> \in Seq([method: Methods, two_factor: BOOLEAN])
  OBVIOUS
<1>3. Opened(u, via) \in SessionRecords
  BY <1>1, <1>2 DEF Opened, SessionRecords
<1> QED BY <1>3 DEF Opened, Told

\* The session of a ceremony without a second factor.
FirstTold(u, via) == Tell(Opened(u, via), SignedIn(via, FALSE))

LEMMA ToldRecord ==
  ASSUME NEW u \in Users, NEW via \in Methods
  PROVE  /\ FirstTold(u, via) \in SessionRecords /\ Told(FirstTold(u, via))
         /\ FirstTold(u, via).told # <<>> /\ FirstTold(u, via).gen = 0 /\ FirstTold(u, via).via = via
<1>1. Opened(u, via) \in SessionRecords /\ Opened(u, via).told = <<>>
      /\ Opened(u, via).gen = 0 /\ Opened(u, via).codes = 0 /\ Opened(u, via).via = via
  BY NewRecord
<1>12. PICK fact : fact = SignedIn(via, FALSE)
  OBVIOUS
<1>2. fact \in [method: Methods, two_factor: BOOLEAN]
  BY <1>12 DEF SignedIn
<1>3. /\ <<fact>> \in Seq([method: Methods, two_factor: BOOLEAN]) /\ Len(<<fact>>) = 1
      /\ DOMAIN <<fact>> = {1} /\ <<fact>>[1] = fact /\ <<fact>> # <<>>
  BY <1>2
<1>4. PICK x : x = FirstTold(u, via)
  OBVIOUS
<1>5. x = [Opened(u, via) EXCEPT !.told = <<fact>>]
  BY <1>1, <1>12, <1>4 DEF FirstTold, Tell, SessionRecords, SignedIn
<1>6. PICK one : /\ one = <<fact>>
                 /\ one \in Seq([method: Methods, two_factor: BOOLEAN]) /\ Len(one) = 1
                 /\ DOMAIN one = {1} /\ one[1] = fact /\ one # <<>>
  BY <1>3
<1>7. x = [Opened(u, via) EXCEPT !.told = one]
  BY <1>5, <1>6
<1>8. x \in SessionRecords
  BY <1>1, <1>6, <1>7 DEF SessionRecords
<1>9. x.told = one /\ x.gen = 0 /\ x.via = via /\ x.codes = 0
  BY <1>1, <1>7 DEF SessionRecords
<1>10. via # "disguise"
  BY DEF Methods
<1>11. Told(x)
  <2>1. Len(x.told) <= 1
    BY <1>6, <1>9
  <2>2. \A i \in DOMAIN x.told : x.told[i] = fact
    BY <1>6, <1>9
  <2>3. fact = SignedIn(x.via, x.codes > 0)
    <3>1. ~ (x.codes > 0)
      BY <1>9
    <3>2. (x.codes > 0) = FALSE
      BY <3>1
    <3> QED BY <1>9, <1>12, <3>2, Zenon
  <2>4. \A i \in DOMAIN x.told : x.told[i] = SignedIn(x.via, x.codes > 0)
    BY <2>2, <2>3, Zenon
  <2>5. Len(x.told) <= IF x.codes = 0 THEN 1 ELSE x.codes
    BY <2>1, <1>9
  <2>6. x.via = "disguise" => x.told = <<>>
    BY <1>9, <1>10
  <2> QED BY <2>4, <2>5, <2>6, Zenon DEF Told
<1> QED BY <1>4, <1>6, <1>8, <1>9, <1>11

----------------------------------------------------------------------------
(* The answers, laid over an empty jar and over the browser's. *)

AccessOver(D) == [sid: D, aal: {1, 2}, old: BOOLEAN]
RefreshOver(D) == [sid: D, gen: Nat]

\* n sets the session's cookies, and leaves the stash and the hand-off.
SetsAuth(D, n, j, x, y, e) ==
  /\ CookiesOK(D, n) /\ Whole(n)
  /\ Over(n, Empty).access = x /\ Over(n, Empty).refresh = y
  /\ Over(n, Empty).stash = None /\ Over(n, Empty).stashRefresh = None /\ Over(n, Empty).mfa = None
  /\ Over(n, j) \in JarsOver(D)
  /\ Over(n, j).access = x /\ Over(n, j).refresh = y /\ Over(n, j).ends = e

KeepsStash(n, j) ==
  /\ Over(n, j).stash = j.stash /\ Over(n, j).stashRefresh = j.stashRefresh
  /\ Over(n, j).deadline = j.deadline

NoCookies(no) ==
  [access |-> None, refresh |-> None, ends |-> 0, stash |-> None, stashRefresh |-> None,
   deadline |-> 0, mfa |-> None, verifier |-> no]

LEMMA EmptyIs == \E no \in BOOLEAN : no = FALSE /\ Empty = NoCookies(no)
<1>1. FALSE = FALSE /\ Empty = NoCookies(FALSE)
  BY DEF Empty, NoCookies
<1> QED BY <1>1

LEMMA AuthAnswer ==
  ASSUME NEW D, NEW j \in JarsOver(D), NEW x \in AccessOver(D) \cup {None},
         NEW y \in RefreshOver(D) \cup {None}, NEW e \in Nat,
         NEW n, n = SetAuthCookies(x, y, e)
  PROVE  SetsAuth(D, n, j, x, y, e) /\ KeepsStash(n, j) /\ Over(n, j).mfa = j.mfa
<1>0. PICK no \in BOOLEAN : no = FALSE /\ Empty = NoCookies(no)
  BY EmptyIs
<1>1. DOMAIN n = {"access", "refresh", "ends"} /\ n["access"] = x /\ n["refresh"] = y /\ n["ends"] = e
  BY DEF SetAuthCookies
<1>2. Over(n, Empty) = [access |-> x, refresh |-> y, ends |-> e, stash |-> None, stashRefresh |-> None,
                        deadline |-> 0, mfa |-> None, verifier |-> no]
  BY <1>0, <1>1 DEF Over, NoCookies
<1>3. CookiesOK(D, n)
  BY <1>0, <1>1, <1>2 DEF CookiesOK, JarsOver, NoCookies, AccessOver, RefreshOver
<1>4. Whole(n)
  BY <1>1 DEF Whole
<1> QED BY <1>1, <1>2, <1>3, <1>4, Applied DEF SetsAuth, KeepsStash

\* The verifier's cookie that goes with an answer, if the ceremony dropped one.
Extras == {Unchanged, Verifier(FALSE)}

LEMMA AuthAnswerWith ==
  ASSUME NEW D, NEW j \in JarsOver(D), NEW x \in AccessOver(D) \cup {None},
         NEW y \in RefreshOver(D) \cup {None}, NEW e \in Nat,
         NEW cookies \in Extras, NEW n, n = Over(SetAuthCookies(x, y, e), cookies)
  PROVE  SetsAuth(D, n, j, x, y, e) /\ KeepsStash(n, j) /\ Over(n, j).mfa = j.mfa
<1>0. PICK no \in BOOLEAN : no = FALSE /\ Empty = NoCookies(no)
  BY EmptyIs
<1>1. /\ {"access", "refresh", "ends"} \subseteq DOMAIN n
      /\ DOMAIN n \subseteq {"access", "refresh", "ends", "verifier"}
      /\ n["access"] = x /\ n["refresh"] = y /\ n["ends"] = e
      /\ "verifier" \in DOMAIN n => n["verifier"] = no
  <2>3. cookies = Unchanged \/ cookies = Verifier(no)
    BY <1>0, Zenon DEF Extras
  <2>4. DOMAIN Unchanged = {}
    BY DEF Unchanged
  <2>5. DOMAIN Verifier(no) = {"verifier"} /\ Verifier(no)["verifier"] = no
    BY DEF Verifier
  <2>1. DOMAIN cookies \subseteq {"verifier"} /\ ("verifier" \in DOMAIN cookies => cookies["verifier"] = no)
    BY <2>3, <2>4, <2>5, Zenon
  <2>2. DOMAIN SetAuthCookies(x, y, e) = {"access", "refresh", "ends"}
        /\ SetAuthCookies(x, y, e)["access"] = x /\ SetAuthCookies(x, y, e)["refresh"] = y
        /\ SetAuthCookies(x, y, e)["ends"] = e
    BY DEF SetAuthCookies
  <2> QED BY <2>1, <2>2 DEF Over
<1>2. Over(n, Empty) = [access |-> x, refresh |-> y, ends |-> e, stash |-> None, stashRefresh |-> None,
                        deadline |-> 0, mfa |-> None, verifier |-> no]
  BY <1>0, <1>1 DEF Over, NoCookies
<1>3. CookiesOK(D, n)
  BY <1>0, <1>1, <1>2 DEF CookiesOK, JarsOver, NoCookies, AccessOver, RefreshOver
<1>4. Whole(n)
  BY <1>1 DEF Whole
<1>5. "mfa" \notin DOMAIN n /\ "stash" \notin DOMAIN n /\ "stashRefresh" \notin DOMAIN n
      /\ "deadline" \notin DOMAIN n
  BY <1>1
<1> QED BY <1>1, <1>2, <1>3, <1>4, <1>5, Applied DEF SetsAuth, KeepsStash

LEMMA AuthAnswerNoMfa ==
  ASSUME NEW D, NEW j \in JarsOver(D), NEW x \in AccessOver(D) \cup {None},
         NEW y \in RefreshOver(D) \cup {None}, NEW e \in Nat,
         NEW n, n = Over(SetAuthCookies(x, y, e), [mfa |-> None])
  PROVE  SetsAuth(D, n, j, x, y, e) /\ KeepsStash(n, j) /\ Over(n, j).mfa = None
<1>0. PICK no \in BOOLEAN : no = FALSE /\ Empty = NoCookies(no)
  BY EmptyIs
<1>1. /\ DOMAIN n = {"access", "refresh", "ends", "mfa"}
      /\ n["access"] = x /\ n["refresh"] = y /\ n["ends"] = e /\ n["mfa"] = None
  BY DEF Over, SetAuthCookies
<1>2. Over(n, Empty) = [access |-> x, refresh |-> y, ends |-> e, stash |-> None, stashRefresh |-> None,
                        deadline |-> 0, mfa |-> None, verifier |-> no]
  BY <1>0, <1>1 DEF Over, NoCookies
<1>3. CookiesOK(D, n)
  BY <1>0, <1>1, <1>2 DEF CookiesOK, JarsOver, NoCookies, AccessOver, RefreshOver
<1>4. Whole(n)
  BY <1>1 DEF Whole
<1> QED BY <1>1, <1>2, <1>3, <1>4, Applied DEF SetsAuth, KeepsStash

LEMMA DropStashAnswer ==
  ASSUME NEW D, NEW j \in JarsOver(D), NEW x \in AccessOver(D) \cup {None},
         NEW y \in RefreshOver(D) \cup {None}, NEW e \in Nat,
         NEW n, n = Over(SetAuthCookies(x, y, e), DropStash)
  PROVE  /\ SetsAuth(D, n, j, x, y, e) /\ Over(n, j).mfa = j.mfa
         /\ Over(n, j).stash = None /\ Over(n, j).stashRefresh = None
<1>0. PICK no \in BOOLEAN : no = FALSE /\ Empty = NoCookies(no)
  BY EmptyIs
<1>1. /\ DOMAIN n = {"access", "refresh", "ends", "stash", "stashRefresh", "deadline"}
      /\ n["access"] = x /\ n["refresh"] = y /\ n["ends"] = e
      /\ n["stash"] = None /\ n["stashRefresh"] = None /\ n["deadline"] = 0
  BY DEF Over, SetAuthCookies, DropStash
<1>2. Over(n, Empty) = [access |-> x, refresh |-> y, ends |-> e, stash |-> None, stashRefresh |-> None,
                        deadline |-> 0, mfa |-> None, verifier |-> no]
  BY <1>0, <1>1 DEF Over, NoCookies
<1>3. CookiesOK(D, n)
  BY <1>0, <1>1, <1>2 DEF CookiesOK, JarsOver, NoCookies, AccessOver, RefreshOver
<1>4. Whole(n)
  BY <1>1 DEF Whole
<1> QED BY <1>1, <1>2, <1>3, <1>4, Applied DEF SetsAuth

\* A disguise, its stash beside it.
LEMMA StashAnswer ==
  ASSUME NEW D, NEW j \in JarsOver(D), NEW x \in AccessOver(D), NEW y \in RefreshOver(D), NEW e \in Nat,
         j.access # None, j.refresh # None,
         NEW n, n = Over(SetAuthCookies(x, y, e), Stash(j, e))
  PROVE  /\ CookiesOK(D, n) /\ Whole(n)
         /\ Over(n, Empty).access = x /\ Over(n, Empty).refresh = y
         /\ Over(n, Empty).stash = j.access /\ Over(n, Empty).stashRefresh = j.refresh
         /\ Over(n, Empty).mfa = None
         /\ Over(n, j) \in JarsOver(D)
         /\ Over(n, j).access = x /\ Over(n, j).refresh = y /\ Over(n, j).ends = e
         /\ Over(n, j).stash = j.access /\ Over(n, j).stashRefresh = j.refresh
         /\ Over(n, j).deadline = e /\ Over(n, j).mfa = j.mfa
<1>0. PICK no \in BOOLEAN : no = FALSE /\ Empty = NoCookies(no)
  BY EmptyIs
<1>1. /\ DOMAIN n = {"access", "refresh", "ends", "stash", "stashRefresh", "deadline"}
      /\ n["access"] = x /\ n["refresh"] = y /\ n["ends"] = e
      /\ n["stash"] = j.access /\ n["stashRefresh"] = j.refresh /\ n["deadline"] = e
  BY DEF Over, SetAuthCookies, Stash
<1>2. Over(n, Empty) = [access |-> x, refresh |-> y, ends |-> e, stash |-> j.access,
                        stashRefresh |-> j.refresh, deadline |-> e, mfa |-> None, verifier |-> no]
  BY <1>0, <1>1 DEF Over, NoCookies
<1>5. j.access \in AccessOver(D) /\ j.refresh \in RefreshOver(D)
  BY DEF JarsOver, AccessOver, RefreshOver
<1>3. CookiesOK(D, n)
  BY <1>0, <1>1, <1>2, <1>5 DEF CookiesOK, JarsOver, NoCookies, AccessOver, RefreshOver
<1>4. Whole(n)
  BY <1>1 DEF Whole
<1> QED BY <1>1, <1>2, <1>3, <1>4, Applied

SetsNoAuth(D, n, j) ==
  /\ CookiesOK(D, n) /\ Whole(n)
  /\ Over(n, Empty).access = None /\ Over(n, Empty).refresh = None
  /\ Over(n, Empty).stash = None /\ Over(n, Empty).stashRefresh = None
  /\ Over(n, j) \in JarsOver(D)
  /\ Over(n, j).access = j.access /\ Over(n, j).refresh = j.refresh /\ Over(n, j).ends = j.ends
  /\ KeepsStash(n, j)

LEMMA MfaAnswer ==
  ASSUME NEW D, NEW j \in JarsOver(D), NEW k \in [sid: D, method: Methods],
         NEW cookies \in Extras, NEW n, n = Over([mfa |-> k], cookies)
  PROVE  SetsNoAuth(D, n, j) /\ Over(n, Empty).mfa = k /\ Over(n, j).mfa = k
<1>0. PICK no \in BOOLEAN : no = FALSE /\ Empty = NoCookies(no)
  BY EmptyIs
<1>1. /\ "mfa" \in DOMAIN n /\ DOMAIN n \subseteq {"mfa", "verifier"} /\ n["mfa"] = k
      /\ "verifier" \in DOMAIN n => n["verifier"] = no
  <2>3. cookies = Unchanged \/ cookies = Verifier(no)
    BY <1>0, Zenon DEF Extras
  <2>4. DOMAIN Unchanged = {}
    BY DEF Unchanged
  <2>5. DOMAIN Verifier(no) = {"verifier"} /\ Verifier(no)["verifier"] = no
    BY DEF Verifier
  <2>1. DOMAIN cookies \subseteq {"verifier"} /\ ("verifier" \in DOMAIN cookies => cookies["verifier"] = no)
    BY <2>3, <2>4, <2>5, Zenon
  <2> QED BY <2>1 DEF Over
<1>2. Over(n, Empty) = [access |-> None, refresh |-> None, ends |-> 0, stash |-> None, stashRefresh |-> None,
                        deadline |-> 0, mfa |-> k, verifier |-> no]
  BY <1>0, <1>1 DEF Over, NoCookies
<1>3. CookiesOK(D, n)
  BY <1>0, <1>1, <1>2 DEF CookiesOK, JarsOver, NoCookies
<1>4. Whole(n)
  BY <1>1 DEF Whole
<1>5. DOMAIN n \cap {"access", "refresh", "ends", "stash", "stashRefresh", "deadline"} = {}
  BY <1>1
<1> QED BY <1>1, <1>2, <1>3, <1>4, <1>5, Applied DEF SetsNoAuth, KeepsStash

LEMMA VerifierAnswer ==
  ASSUME NEW D, NEW j \in JarsOver(D), NEW held \in BOOLEAN, NEW n, n = Verifier(held)
  PROVE  SetsNoAuth(D, n, j) /\ Over(n, Empty).mfa = None /\ Over(n, j).mfa = j.mfa
<1>0. PICK no \in BOOLEAN : no = FALSE /\ Empty = NoCookies(no)
  BY EmptyIs
<1>1. DOMAIN n = {"verifier"} /\ n["verifier"] = held
  BY DEF Verifier
<1>2. Over(n, Empty) = [access |-> None, refresh |-> None, ends |-> 0, stash |-> None, stashRefresh |-> None,
                        deadline |-> 0, mfa |-> None, verifier |-> held]
  BY <1>0, <1>1 DEF Over, NoCookies
<1>3. CookiesOK(D, n)
  BY <1>0, <1>1, <1>2 DEF CookiesOK, JarsOver, NoCookies
<1>4. Whole(n)
  BY <1>1 DEF Whole
<1> QED BY <1>1, <1>2, <1>3, <1>4, Applied DEF SetsNoAuth, KeepsStash

----------------------------------------------------------------------------
(* The handlers, one kind at a time. *)

LEMMA Home ==
  ASSUME Inv, NEW b \in Browsers
  PROVE  /\ sessions \in Seq(SessionRecords) /\ DOMAIN sessions = 1..Len(sessions)
         /\ Len(sessions) \in Nat
         /\ jar[b] \in JarsOver(DOMAIN sessions)
         /\ Kept(sessions, jar[b]) /\ Paired(jar[b])
         /\ \A s \in DOMAIN sessions : Told(sessions[s])
         /\ b \notin crossed => Fate(sessions, jar[b], jar[b])
<1>1. sessions \in Seq(SessionRecords) /\ jar[b] \in JarsOver(DOMAIN sessions)
  BY Typed DEF Inv
<1>2. Kept(sessions, jar[b]) /\ \A s \in DOMAIN sessions : Told(sessions[s])
  BY DEF Inv, KeptInv
<1>3. Paired(jar[b])
  BY <1>2 DEF Kept
<1>4. b \notin crossed => Fate(sessions, jar[b], jar[b])
  BY DEF Inv, FateInv
<1> QED BY <1>1, <1>2, <1>3, <1>4

\* A token that is not older than the one a renewal replaces is still taken after it.
LEMMA RotateUsable ==
  ASSUME Inv, NEW b \in Browsers, NEW tt, tt = Rotate(jar[b], sessions),
         NEW v \in JarsOver(DOMAIN sessions), Reached(sessions, v), Ahead(v, jar[b]),
         Usable(sessions, v)
  PROVE  Usable(tt, v)
<1> SUFFICES ASSUME NEW t \in RefreshIn(v), tt[t.sid].live  PROVE tt[t.sid].gen - t.gen \in {0, 1}
  BY DEF Usable, Takes
<1>1. TypeOK /\ \A s \in DOMAIN sessions : Told(sessions[s])
  BY DEF Inv, KeptInv
<1>2. t.sid \in DOMAIN sessions /\ t.gen \in Nat
  BY DEF RefreshIn, JarsOver
<1>3. sessions[t.sid].live
  BY <1>1, <1>2, Rotated
<1>4. sessions[t.sid].gen - t.gen \in {0, 1} /\ t.gen <= sessions[t.sid].gen
  BY <1>3 DEF Usable, Takes, Reached
<1>5. CASE ~ Renews(jar[b])
  <2>1. tt = sessions
    BY <1>1, <1>5, Rotated
  <2> QED BY <1>4, <2>1
<1>6. CASE Renews(jar[b]) /\ t.sid # jar[b].refresh.sid
  <2>1. tt[t.sid].gen = sessions[t.sid].gen
    BY <1>1, <1>2, <1>6, Rotated
  <2> QED BY <1>4, <2>1
<1>7. CASE Renews(jar[b]) /\ t.sid = jar[b].refresh.sid
  <2>1. /\ jar[b].refresh # None /\ jar[b].refresh.gen \in Nat
        /\ sessions[jar[b].refresh.sid].gen - jar[b].refresh.gen \in {0, 1}
        /\ tt[jar[b].refresh.sid].gen = jar[b].refresh.gen + 1
    BY <1>1, <1>7, Rotated
  <2>2. t.gen >= jar[b].refresh.gen
    BY <1>7, <2>1 DEF Ahead
  <2>3. PICK g, h, r : g = t.gen /\ h = sessions[t.sid].gen /\ r = jar[b].refresh.gen
    OBVIOUS
  <2>4. h \in Nat
    <3>1. sessions[t.sid] \in SessionRecords
      BY <1>1, <1>2, Typed
    <3> QED BY <2>3, <3>1, RecordTypes
  <2>5. g \in Nat /\ r \in Nat /\ g >= r /\ g <= h /\ h - r \in {0, 1}
    BY <1>2, <1>4, <1>7, <2>1, <2>2, <2>3
  <2>6. r + 1 - g \in {0, 1}
    BY <2>4, <2>5
  <2>7. tt[t.sid].gen = r + 1
    BY <1>7, <2>1, <2>3
  <2>8. tt[t.sid].gen - t.gen = r + 1 - g
    BY <2>3, <2>5, <2>7
  <2> QED BY <2>6, <2>8
<1> QED BY <1>5, <1>6, <1>7

LEMMA RotateSilent ==
  ASSUME Inv, NEW b \in Browsers, NEW tt, tt = Rotate(jar[b], sessions), b \notin crossed
  PROVE  /\ Usable(sessions, jar[b]) => Usable(tt, jar[b])
         /\ \A m \in wire : m.to = b /\ ~ m.late /\ Usable(sessions, View(m)) => Usable(tt, View(m))
<1>1. jar[b] \in JarsOver(DOMAIN sessions) /\ Reached(sessions, jar[b]) /\ Ahead(jar[b], jar[b])
  BY Home DEF Kept, Fate
<1>2. Usable(sessions, jar[b]) => Usable(tt, jar[b])
  BY <1>1, RotateUsable
<1>3. ASSUME NEW m \in wire, m.to = b, ~ m.late, Usable(sessions, View(m))
      PROVE  Usable(tt, View(m))
  <2>1. View(m) \in JarsOver(DOMAIN sessions) /\ Reached(sessions, View(m))
    BY Views DEF Kept
  <2>2. Ahead(View(m), jar[b])
    BY <1>3 DEF Inv, FateInv, Fate
  <2> QED BY <1>3, <2>1, <2>2, RotateUsable
<1> QED BY <1>2, <1>3

LEMMA QuietRotate ==
  ASSUME Inv, NEW b \in Browsers, sessions' = Rotate(jar[b], sessions), wire' = wire,
         jar' = jar, crossed' = crossed, missed \subseteq missed'
  PROVE  Handles(b) /\ KeepsSilent(b)
<1>1. TypeOK /\ \A s \in DOMAIN sessions : Told(sessions[s])
  BY DEF Inv, KeptInv
<1>2. Handles(b)
  BY <1>1, Rotated DEF Handles
<1>3. KeepsSilent(b)
  BY RotateSilent DEF KeepsSilent
<1> QED BY <1>2, <1>3

\* One more session, nobody's.
LEMMA QuietAppend ==
  ASSUME Inv, NEW b \in Browsers, NEW x \in SessionRecords, Told(x),
         sessions' = Append(Rotate(jar[b], sessions), x) \/ sessions' = Append(sessions, x),
         jar' = jar, crossed' = crossed, missed \subseteq missed'
  PROVE  /\ Handles(b)
         /\ wire' = wire => KeepsSilent(b)
         /\ DOMAIN sessions' = DOMAIN sessions \cup {New} /\ New \notin DOMAIN sessions
         /\ sessions'[New] = x
         /\ Evolve(sessions, sessions')
         /\ b \notin crossed => (Usable(sessions, jar[b]) => Usable(sessions', jar[b]))
<1>1. TypeOK /\ (\A s \in DOMAIN sessions : Told(sessions[s])) /\ sessions \in Seq(SessionRecords)
  BY Home DEF Inv
<1>2. PICK tt : (tt = Rotate(jar[b], sessions) \/ tt = sessions) /\ sessions' = Append(tt, x)
  OBVIOUS
<1>3. /\ tt \in Seq(SessionRecords) /\ Evolve(sessions, tt) /\ DOMAIN tt = DOMAIN sessions
      /\ Len(tt) = Len(sessions) /\ \A s \in DOMAIN tt : Told(tt[s])
      /\ \A s \in DOMAIN sessions : s \notin Names(jar[b]) => tt[s].gen = sessions[s].gen
  <2>1. CASE tt = sessions
    BY <1>1, <2>1, EvolveStill
  <2>2. CASE tt = Rotate(jar[b], sessions)
    BY <1>1, <2>2, Rotated
  <2> QED BY <1>2, <2>1, <2>2
<1>4. /\ Evolve(tt, sessions') /\ DOMAIN sessions' = DOMAIN sessions \cup {New}
      /\ New \notin DOMAIN sessions /\ sessions'[New] = x
      /\ \A s \in DOMAIN sessions : sessions'[s] = tt[s]
  BY <1>2, <1>3, EvolveAppend DEF New
<1>5. Evolve(sessions, sessions')
  BY <1>3, <1>4, EvolveChain
<1>6. Handles(b)
  BY <1>3, <1>4, <1>5 DEF Handles
<1>7. \A v \in JarsOver(DOMAIN sessions) : Usable(tt, v) => Usable(sessions', v)
  <2> SUFFICES ASSUME NEW v \in JarsOver(DOMAIN sessions), Usable(tt, v)  PROVE Usable(sessions', v)
    OBVIOUS
  <2>1. Names(v) \subseteq DOMAIN sessions
    BY NamesAreSessions
  <2> QED BY <1>3, <1>4, <2>1, OthersUsable
<1>8. b \notin crossed =>
        /\ Usable(sessions, jar[b]) => Usable(tt, jar[b])
        /\ \A m \in wire : m.to = b /\ ~ m.late /\ Usable(sessions, View(m)) => Usable(tt, View(m))
  BY <1>2, RotateSilent
<1>9. b \notin crossed => (Usable(sessions, jar[b]) => Usable(sessions', jar[b]))
  BY <1>7, <1>8, Home
<1>10. wire' = wire => KeepsSilent(b)
  BY <1>7, <1>8, <1>9, Views DEF KeepsSilent
<1> QED BY <1>4, <1>5, <1>6, <1>9, <1>10

\* An answer that hands over the tokens x and y of one session, and leaves the stash.
LEMMA SendsTokens ==
  ASSUME Inv, NEW b \in Browsers, Handles(b),
         NEW x \in AccessOver(DOMAIN sessions'), NEW y \in RefreshOver(DOMAIN sessions'), NEW e \in Nat,
         NEW n, wire' = wire \cup {Letter(b, n)},
         SetsAuth(DOMAIN sessions', n, jar[b], x, y, e), KeepsStash(n, jar[b]),
         Over(n, jar[b]).mfa \in {None, jar[b].mfa},
         y.sid = x.sid, y.gen = sessions'[x.sid].gen,
         sessions'[x.sid].via # "disguise" => sessions'[x.sid].told # <<>>,
         x.sid \in Names(jar[b]) \cup (DOMAIN sessions' \ DOMAIN sessions),
         jar[b].refresh # None /\ x.sid = jar[b].refresh.sid => y.gen >= jar[b].refresh.gen,
         b \notin crossed =>
           /\ sessions'[x.sid].via = "disguise" /\ sessions'[x.sid].aal = 1 =>
                /\ jar[b].access # None /\ x.sid = jar[b].access.sid
                /\ jar[b].deadline # 0 => e = jar[b].deadline
           /\ jar[b].stash # None =>
                /\ jar[b].stash.sid # x.sid
                /\ sessions'[jar[b].stash.sid].gen = sessions[jar[b].stash.sid].gen
           /\ Over(n, jar[b]).mfa # None => jar[b].mfa.sid # x.sid
  PROVE  Sends(b, n)
<1>1. PICK j, v, k, tt : j = jar[b] /\ v = Over(n, jar[b]) /\ k = Over(n, Empty) /\ tt = sessions'
  OBVIOUS
<1>2. /\ CookiesOK(DOMAIN tt, n) /\ Whole(n)
      /\ k.access = x /\ k.refresh = y /\ k.stash = None /\ k.stashRefresh = None /\ k.mfa = None
      /\ v \in JarsOver(DOMAIN tt)
      /\ v.access = x /\ v.refresh = y /\ v.ends = e
      /\ v.stash = j.stash /\ v.stashRefresh = j.stashRefresh /\ v.deadline = j.deadline
      /\ v.mfa = None \/ v.mfa = j.mfa
  BY <1>1 DEF SetsAuth, KeepsStash
<1>3. Evolve(sessions, tt) /\ tt \in Seq(SessionRecords) /\ DOMAIN sessions \subseteq DOMAIN tt
  BY <1>1 DEF Handles, Evolve
<1>4. /\ j \in JarsOver(DOMAIN sessions) /\ Paired(j) /\ Kept(sessions, j)
      /\ b \notin crossed => Fate(sessions, j, j)
  BY <1>1, Home
<1>5. x # None /\ y # None /\ x.sid \in DOMAIN tt /\ y.gen \in Nat /\ tt[x.sid] \in SessionRecords
  <2>1. DOMAIN tt \subseteq Nat
    BY <1>3
  <2>2. x \in [sid: Nat, aal: {1, 2}, old: BOOLEAN] /\ y \in [sid: Nat, gen: Nat] /\ x.sid \in DOMAIN tt
    BY <1>1, <2>1 DEF AccessOver, RefreshOver
  <2> QED BY <1>3, <2>2, SessionsAssumption
<1>6. Kept(tt, k)
  <2>1. Handed(tt, k)
    BY <1>1, <1>2 DEF Handed
  <2>2. Asked(tt, k)
    BY <1>2 DEF Asked
  <2>3. Paired(k)
    BY <1>2, <1>5 DEF Paired
  <2>4. Reached(tt, k)
    BY <1>1, <1>2, <1>5 DEF Reached, RefreshIn
  <2> QED BY <2>1, <2>2, <2>3, <2>4 DEF Kept
<1>7. Names(k) \subseteq Names(j) \cup (DOMAIN tt \ DOMAIN sessions)
  BY <1>1, <1>2 DEF Names
<1>8. ASSUME b \notin crossed  PROVE Fate(tt, v, j)
  <2>1. /\ tt[x.sid].via = "disguise" /\ tt[x.sid].aal = 1 =>
                /\ j.access # None /\ x.sid = j.access.sid
                /\ j.deadline # 0 => e = j.deadline
        /\ j.stash # None =>
                /\ j.stash.sid # x.sid
                /\ tt[j.stash.sid].gen = sessions[j.stash.sid].gen
        /\ v.mfa # None => j.mfa.sid # x.sid
        /\ j.refresh # None /\ x.sid = j.refresh.sid => y.gen >= j.refresh.gen
    BY <1>1, <1>8
  <2>2. Fate(tt, j, j)
    BY <1>3, <1>4, <1>8, FateGrows
  <2>3. Bounded(tt, v)
    <3>1. Bounded(tt, j)
      BY <2>2 DEF Fate
    <3>2. v.ends \in Nat /\ v.deadline \in Nat
      BY <1>2 DEF JarsOver
    <3>3. v.stash # None /\ tt[v.stash.sid].via = "disguise" => Overlaid(tt, v.stash.sid)
      BY <1>2, <3>1 DEF Bounded
    <3>4. ASSUME tt[x.sid].via = "disguise", tt[x.sid].aal = 1, ~ Overlaid(tt, x.sid)
          PROVE  /\ v.ends <= tt[x.sid].window
                 /\ v.deadline # 0
                 /\ v.deadline <= tt[x.sid].window
                 /\ v.ends <= v.deadline
                 /\ v.stash # None
                 /\ v.stash.sid = tt[x.sid].by
                 /\ tt[v.stash.sid].sub \in Admins
      <4>1. j.access # None /\ x.sid = j.access.sid
        BY <2>1, <3>4
      <4>2. /\ j.deadline # 0
            /\ j.deadline <= tt[x.sid].window
            /\ j.stash # None
            /\ j.stash.sid = tt[x.sid].by
            /\ tt[j.stash.sid].sub \in Admins
        BY <3>1, <3>4, <4>1 DEF Bounded
      <4>3. v.ends = v.deadline
        BY <1>2, <2>1, <3>4, <4>2
      <4> QED BY <1>2, <3>2, <4>2, <4>3
    <3> QED BY <1>2, <3>3, <3>4 DEF Bounded
  <2>4. Distinct(v)
    BY <1>2, <2>1, <2>2 DEF Fate, Distinct
  <2>5. Ahead(v, j)
    <3> SUFFICES ASSUME j.refresh # None, NEW t \in RefreshIn(v), t.sid = j.refresh.sid
                 PROVE  t.gen >= j.refresh.gen
      BY DEF Ahead
    <3>1. CASE t = y
      BY <2>1, <3>1
    <3>2. CASE t # y
      <4>1. t = j.stashRefresh /\ t # None
        BY <1>2, <3>2 DEF RefreshIn
      <4>2. t \in RefreshIn(j)
        BY <4>1 DEF RefreshIn
      <4> QED BY <2>2, <4>2 DEF Fate, Ahead
    <3> QED BY <3>1, <3>2
  <2> QED BY <2>3, <2>4, <2>5 DEF Fate
<1>9. ASSUME b \notin crossed \cup missed', Usable(sessions, j) \/ Usable(sessions, v)
      PROVE  Usable(tt, v)
  <2> SUFFICES ASSUME NEW t \in RefreshIn(v)  PROVE Takes(tt, t)
    BY DEF Usable
  <2>1. CASE t = y
    <3>1. tt[y.sid].gen - y.gen = 0
      BY <1>1, <1>5
    <3> QED BY <2>1, <3>1 DEF Takes
  <2>2. CASE t # y
    <3>1. t = j.stashRefresh /\ t # None
      BY <1>2, <2>2 DEF RefreshIn
    <3>2. t \in RefreshIn(j) /\ t \in RefreshIn(v)
      BY <3>1 DEF RefreshIn
    <3>3. Takes(sessions, t)
      BY <1>9, <3>2 DEF Usable
    <3>4. j.stash # None /\ j.stash.sid = t.sid
      BY <1>4, <3>1 DEF Paired
    <3>5. tt[t.sid].gen = sessions[t.sid].gen
      BY <1>1, <1>9, <3>4
    <3>6. t.sid \in DOMAIN sessions
      BY <1>4, <3>1 DEF JarsOver
    <3>7. tt[t.sid].live => sessions[t.sid].live
      BY <1>3, <3>6 DEF Evolve, Evolves
    <3> QED BY <3>3, <3>5, <3>7 DEF Takes
  <2> QED BY <2>1, <2>2
<1> QED BY <1>1, <1>2, <1>6, <1>7, <1>8, <1>9 DEF Sends

\* An answer that leaves the session and the stash.
LEMMA SendsHandOff ==
  ASSUME Inv, NEW b \in Browsers, Handles(b),
         NEW n, wire' = wire \cup {Letter(b, n)},
         SetsNoAuth(DOMAIN sessions', n, jar[b]),
         Over(n, jar[b]).mfa \in {Over(n, Empty).mfa, jar[b].mfa},
         Asked(sessions', Over(n, Empty)),
         Over(n, Empty).mfa # None => Over(n, Empty).mfa.sid \in DOMAIN sessions' \ DOMAIN sessions,
         b \notin crossed => (Usable(sessions, jar[b]) => Usable(sessions', jar[b]))
  PROVE  Sends(b, n)
<1>1. PICK j, v, k, tt : j = jar[b] /\ v = Over(n, jar[b]) /\ k = Over(n, Empty) /\ tt = sessions'
  OBVIOUS
<1>2. /\ CookiesOK(DOMAIN tt, n) /\ Whole(n)
      /\ k.access = None /\ k.refresh = None /\ k.stash = None /\ k.stashRefresh = None
      /\ v \in JarsOver(DOMAIN tt)
      /\ v.access = j.access /\ v.refresh = j.refresh /\ v.ends = j.ends
      /\ v.stash = j.stash /\ v.stashRefresh = j.stashRefresh /\ v.deadline = j.deadline
      /\ v.mfa = k.mfa \/ v.mfa = j.mfa
      /\ k.mfa # None => k.mfa.sid \in DOMAIN tt \ DOMAIN sessions
      /\ Asked(tt, k)
  BY <1>1 DEF SetsNoAuth, KeepsStash
<1>3. Evolve(sessions, tt)
  BY <1>1 DEF Handles
<1>4. /\ j \in JarsOver(DOMAIN sessions)
      /\ b \notin crossed => Fate(sessions, j, j)
  BY <1>1, Home
<1>5. Kept(tt, k)
  <2>1. Handed(tt, k)
    BY <1>2 DEF Handed
  <2>2. Paired(k)
    BY <1>2 DEF Paired
  <2>3. Reached(tt, k)
    BY <1>2 DEF Reached, RefreshIn
  <2> QED BY <1>2, <2>1, <2>2, <2>3 DEF Kept
<1>6. Names(k) \subseteq Names(j) \cup (DOMAIN tt \ DOMAIN sessions)
  BY <1>2 DEF Names
<1>7. ASSUME b \notin crossed  PROVE Fate(tt, v, j)
  <2>1. Fate(tt, j, j)
    BY <1>3, <1>4, <1>7, FateGrows
  <2>2. Bounded(tt, v)
    BY <1>2, <2>1 DEF Fate, Bounded
  <2>3. Distinct(v)
    <3>1. j.access # None => j.access.sid \in DOMAIN sessions
      BY <1>4 DEF JarsOver
    <3>2. j.stash # None => j.stash.sid \in DOMAIN sessions
      BY <1>4 DEF JarsOver
    <3> QED BY <1>2, <2>1, <3>1, <3>2 DEF Fate, Distinct
  <2>4. Ahead(v, j)
    BY <1>2, <2>1 DEF Fate, Ahead, RefreshIn
  <2> QED BY <2>2, <2>3, <2>4 DEF Fate
<1>8. ASSUME b \notin crossed, Usable(sessions, j) \/ Usable(sessions, v)
      PROVE  Usable(tt, v)
  <2>1. RefreshIn(v) = RefreshIn(j)
    BY <1>2 DEF RefreshIn
  <2>2. Usable(sessions, j)
    BY <1>8, <2>1 DEF Usable
  <2>3. Usable(tt, j)
    BY <1>1, <1>8, <2>2
  <2> QED BY <2>1, <2>3 DEF Usable
<1> QED BY <1>1, <1>2, <1>5, <1>6, <1>7, <1>8 DEF Sends

\* The two tokens of a session's answer.
NewAccess(s, level) == [sid |-> s, aal |-> level, old |-> FALSE]
NewRefresh(s, gen) == [sid |-> s, gen |-> gen]

LEMMA AccessType ==
  ASSUME NEW D, NEW s \in D, NEW level \in {1, 2}
  PROVE  NewAccess(s, level) \in AccessOver(D) /\ NewAccess(s, level).sid = s
BY DEF NewAccess, AccessOver

LEMMA RefreshType ==
  ASSUME NEW D, NEW s \in D, NEW gen \in Nat
  PROVE  /\ NewRefresh(s, gen) \in RefreshOver(D) /\ NewRefresh(s, gen).sid = s
         /\ NewRefresh(s, gen).gen = gen
BY DEF NewRefresh, RefreshOver

LEMMA TokensAre ==
  ASSUME NEW s, NEW level, NEW gen, NEW ends
  PROVE  Tokens(s, level, gen, ends) = SetAuthCookies(NewAccess(s, level), NewRefresh(s, gen), ends)
BY DEF Tokens, NewAccess, NewRefresh

LEMMA Together ==
  ASSUME Inv, NEW b \in Browsers
  PROVE  /\ jar[b].access # None =>
              /\ jar[b].refresh # None /\ jar[b].access.sid = jar[b].refresh.sid
              /\ jar[b].access.sid \in DOMAIN sessions /\ jar[b].access.sid \in Names(jar[b])
              /\ jar[b].access \in AccessOver(DOMAIN sessions)
              /\ jar[b].refresh \in RefreshOver(DOMAIN sessions)
         /\ jar[b].refresh # None => jar[b].access # None
         /\ jar[b].stash # None =>
              /\ jar[b].stashRefresh # None /\ jar[b].stash.sid = jar[b].stashRefresh.sid
              /\ jar[b].stash.sid \in DOMAIN sessions /\ jar[b].stash.sid \in Names(jar[b])
              /\ jar[b].stash \in AccessOver(DOMAIN sessions)
              /\ jar[b].stashRefresh \in RefreshOver(DOMAIN sessions)
         /\ jar[b].mfa # None =>
              /\ jar[b].mfa.sid \in DOMAIN sessions /\ jar[b].mfa.sid \in Names(jar[b])
              /\ jar[b].mfa.method \in Methods
         /\ jar[b].deadline \in Nat
         /\ b \notin crossed => Distinct(jar[b])
<1>1. /\ jar[b] \in JarsOver(DOMAIN sessions) /\ Paired(jar[b])
      /\ b \notin crossed => Fate(sessions, jar[b], jar[b])
  BY Home
<1>2. /\ jar[b].access \in AccessOver(DOMAIN sessions) \cup {None}
      /\ jar[b].refresh \in RefreshOver(DOMAIN sessions) \cup {None}
      /\ jar[b].stash \in AccessOver(DOMAIN sessions) \cup {None}
      /\ jar[b].stashRefresh \in RefreshOver(DOMAIN sessions) \cup {None}
      /\ jar[b].deadline \in Nat
      /\ jar[b].mfa \in [sid: DOMAIN sessions, method: Methods] \cup {None}
  BY <1>1 DEF JarsOver, AccessOver, RefreshOver
<1>3. b \notin crossed => Distinct(jar[b])
  BY <1>1 DEF Fate
<1> QED BY <1>1, <1>2, <1>3 DEF Paired, Names, AccessOver, RefreshOver

\* A request renews its session, and its answer may say so.
LEMMA RequestSteps ==
  ASSUME Inv, NEW b \in Browsers, Request(b)
  PROVE  Handles(b) /\ (KeepsSilent(b) \/ \E n : Sends(b, n))
<1>1. /\ Renews(jar[b]) /\ sessions' = Rotate(jar[b], sessions)
      /\ jar' = jar /\ crossed' = crossed /\ missed \subseteq missed'
  BY DEF Request
<1>2. CASE wire' = wire
  BY <1>1, <1>2, QuietRotate
<1>3. CASE wire' = wire \cup {Letter(b, Renewed(jar[b]))}
  <2>1. TypeOK /\ (\A s \in DOMAIN sessions : Told(sessions[s]))
    BY DEF Inv, KeptInv
  <2>2. Handles(b)
    BY <1>1, <2>1, Rotated DEF Handles
  <2>3. PICK j, r, s, tt : j = jar[b] /\ r = j.refresh /\ s = r.sid /\ tt = sessions'
    OBVIOUS
  <2>4. /\ r # None /\ j.access # None /\ s \in DOMAIN sessions /\ r.gen \in Nat
        /\ tt[s].gen = r.gen + 1 /\ DOMAIN tt = DOMAIN sessions
        /\ \A q \in DOMAIN sessions : q # s => tt[q].gen = sessions[q].gen
        /\ Evolve(sessions, tt)
    BY <1>1, <2>1, <2>3, Rotated
  <2>5. sessions[s].aal \in {1, 2}
    BY <2>1, <2>4, Typed, RecordTypes
  <2>19. PICK level, gen, D : level = sessions[s].aal /\ gen = r.gen + 1 /\ D = DOMAIN tt
    OBVIOUS
  <2>20. level \in {1, 2} /\ gen \in Nat /\ s \in D
    BY <2>4, <2>5, <2>19
  <2>21. PICK x, y : x = NewAccess(s, level) /\ y = NewRefresh(s, gen)
    OBVIOUS
  <2>6. /\ x \in AccessOver(D) /\ y \in RefreshOver(D)
        /\ x.sid = s /\ y.sid = s /\ y.gen = gen
    BY <2>20, <2>21, AccessType, RefreshType
  <2>7. PICK e : e = Remaining(j)
    OBVIOUS
  <2>8. e \in Nat /\ (j.deadline # 0 => e = j.deadline)
    BY <2>3, <2>7, Together, SessionsAssumption DEF Remaining, Forever
  <2>9. PICK n : n = Renewed(j)
    OBVIOUS
  <2>22. n = Tokens(s, level, gen, e)
    BY <2>3, <2>7, <2>9, <2>19 DEF Renewed
  <2>10. n = SetAuthCookies(x, y, e)
    BY <2>21, <2>22, TokensAre
  <2>11. j \in JarsOver(D)
    BY <2>3, <2>4, <2>19, Home
  <2>12. SetsAuth(D, n, j, x, y, e) /\ KeepsStash(n, j) /\ Over(n, j).mfa = j.mfa
    BY <2>6, <2>8, <2>10, <2>11, AuthAnswer
  <2>13. j.access.sid = s /\ s \in Names(j)
    BY <2>3, <2>4, Together
  <2>14. tt[s].via # "disguise" => tt[s].told # <<>>
    <3>1. Kept(tt, j)
      BY <2>3, <2>4, Home, KeptGrows
    <3> QED BY <2>4, <2>13, <3>1 DEF Kept, Handed
  <2>15. b \notin crossed =>
           /\ j.stash # None => j.stash.sid # s /\ tt[j.stash.sid].gen = sessions[j.stash.sid].gen
           /\ j.mfa # None => j.mfa.sid # s
    BY <2>3, <2>4, <2>13, Together DEF Distinct
  <2>16. y.gen >= r.gen
    BY <2>4, <2>6, <2>19
  <2>17. wire' = wire \cup {Letter(b, n)}
    BY <1>3, <2>3, <2>9
  <2>18. Sends(b, n)
    BY <2>2, <2>3, <2>4, <2>6, <2>8, <2>12, <2>13, <2>14, <2>15, <2>16, <2>17, <2>19, SendsTokens
  <2> QED BY <2>2, <2>18
<1> QED BY <1>2, <1>3 DEF Request, Answer, Letter

\* A session opened by a ceremony: kept back, held for its code, or handed over.
LEMMA BreakOffSteps ==
  ASSUME Inv, NEW b \in Browsers, NEW u \in Users, NEW via \in Methods, BreakOff(u, via),
         jar' = jar, crossed' = crossed, missed \subseteq missed'
  PROVE  Handles(b) /\ KeepsSilent(b)
<1>1. Opened(u, via) \in SessionRecords /\ Told(Opened(u, via))
  BY NewRecord
<1>2. sessions' = Append(sessions, Opened(u, via)) /\ wire' = wire
  BY DEF BreakOff
<1> QED BY <1>1, <1>2, QuietAppend

LEMMA MfaChallengeSteps ==
  ASSUME Inv, NEW b \in Browsers, NEW u \in Users, NEW via \in Methods,
         NEW cookies \in Extras, MfaChallenge(b, u, via, cookies),
         jar' = jar, crossed' = crossed, missed \subseteq missed'
  PROVE  Handles(b) /\ \E n : Sends(b, n)
<1>1. PICK fresh : fresh = Opened(u, via)
  OBVIOUS
<1>2. /\ fresh \in SessionRecords /\ Told(fresh)
      /\ fresh.via = via /\ fresh.codes = 0 /\ fresh.told = <<>>
  BY <1>1, NewRecord
<1>3. sessions' = Append(sessions, fresh)
  BY <1>1 DEF MfaChallenge
<1>4. /\ Handles(b) /\ DOMAIN sessions' = DOMAIN sessions \cup {New} /\ New \notin DOMAIN sessions
      /\ sessions'[New] = fresh
      /\ b \notin crossed => (Usable(sessions, jar[b]) => Usable(sessions', jar[b]))
  BY <1>2, <1>3, QuietAppend
<1>5. PICK D, k, n : /\ D = DOMAIN sessions' /\ k = [sid |-> New, method |-> via]
                     /\ n = Over([mfa |-> k], cookies)
  OBVIOUS
<1>6. k \in [sid: D, method: Methods] /\ k.sid = New /\ k.method = via
  BY <1>4, <1>5
<1>7. wire' = wire \cup {Letter(b, n)}
  BY <1>5 DEF MfaChallenge, Answer, Letter
<1>8. jar[b] \in JarsOver(D)
  BY <1>4, <1>5, Home, JarsGrow
<1>9. SetsNoAuth(D, n, jar[b]) /\ Over(n, Empty).mfa = k /\ Over(n, jar[b]).mfa = k
  BY <1>5, <1>6, <1>8, MfaAnswer
<1>10. Asked(sessions', Over(n, Empty))
  BY <1>2, <1>4, <1>6, <1>9 DEF Asked
<1>11. Sends(b, n)
  BY <1>4, <1>5, <1>6, <1>7, <1>9, <1>10, SendsHandOff
<1> QED BY <1>4, <1>11

LEMMA HandOverSteps ==
  ASSUME Inv, NEW b \in Browsers, NEW u \in Users, NEW via \in Methods,
         NEW cookies \in Extras, HandOver(b, u, via, cookies),
         jar' = jar, crossed' = crossed, missed \subseteq missed'
  PROVE  Handles(b) /\ \E n : Sends(b, n)
<1>1. PICK fresh : fresh = FirstTold(u, via)
  OBVIOUS
<1>2. fresh \in SessionRecords /\ Told(fresh) /\ fresh.via = via /\ fresh.told # <<>> /\ fresh.gen = 0
  BY <1>1, ToldRecord
<1>3. sessions' = Append(sessions, fresh)
  BY <1>1 DEF HandOver, FirstTold
<1>4. /\ Handles(b) /\ DOMAIN sessions' = DOMAIN sessions \cup {New} /\ New \notin DOMAIN sessions
      /\ sessions'[New] = fresh
  BY <1>2, <1>3, QuietAppend
<1>5. PICK D, x, y, e, n : /\ D = DOMAIN sessions' /\ x = NewAccess(New, 1) /\ y = NewRefresh(New, 0)
                           /\ e = Forever /\ n = Over(Tokens(New, 1, 0, Forever), cookies)
  OBVIOUS
<1>6. x \in AccessOver(D) /\ y \in RefreshOver(D) /\ x.sid = New /\ y.sid = New /\ y.gen = 0
  BY <1>4, <1>5, AccessType, RefreshType
<1>7. wire' = wire \cup {Letter(b, n)}
  BY <1>5 DEF HandOver, Answer, Letter
<1>8. jar[b] \in JarsOver(D) /\ e \in Nat
  BY <1>4, <1>5, Home, JarsGrow, SessionsAssumption DEF Forever
<1>9. n = Over(SetAuthCookies(x, y, e), cookies)
  BY <1>5, TokensAre
<1>10. SetsAuth(D, n, jar[b], x, y, e) /\ KeepsStash(n, jar[b]) /\ Over(n, jar[b]).mfa = jar[b].mfa
  BY <1>6, <1>8, <1>9, AuthAnswerWith
<1>11. via # "disguise"
  BY DEF Methods
<1>12. /\ jar[b].refresh # None => jar[b].refresh.sid # New
       /\ jar[b].stash # None => jar[b].stash.sid # New /\ jar[b].stash.sid \in DOMAIN sessions
       /\ jar[b].mfa # None => jar[b].mfa.sid # New
  BY <1>4, Together
<1>13. \A s \in DOMAIN sessions : sessions'[s].gen = sessions[s].gen
  BY <1>2, <1>3, Home, EvolveAppend
<1>14. Sends(b, n)
  BY <1>2, <1>4, <1>5, <1>6, <1>7, <1>8, <1>10, <1>11, <1>12, <1>13, SendsTokens
<1> QED BY <1>4, <1>14

LEMMA CeremonySteps ==
  ASSUME Inv, NEW b \in Browsers, NEW u \in Users, NEW via \in Methods,
         NEW cookies \in Extras, Ceremony(b, u, via, cookies)
  PROVE  Handles(b) /\ (KeepsSilent(b) \/ \E n : Sends(b, n))
<1>1. jar' = jar /\ crossed' = crossed /\ missed \subseteq missed'
  BY DEF Ceremony
<1>2. BreakOff(u, via) \/ MfaChallenge(b, u, via, cookies) \/ HandOver(b, u, via, cookies)
  BY DEF Ceremony
<1>3. CASE BreakOff(u, via)
  BY <1>1, <1>3, BreakOffSteps
<1>4. CASE MfaChallenge(b, u, via, cookies)
  BY <1>1, <1>4, MfaChallengeSteps
<1>5. CASE HandOver(b, u, via, cookies)
  BY <1>1, <1>5, HandOverSteps
<1> QED BY <1>2, <1>3, <1>4, <1>5

\* The verifier's cookie.
LEMMA VerifierSteps ==
  ASSUME Inv, NEW b \in Browsers, NEW held \in BOOLEAN, Answer(b, Verifier(held)),
         sessions' = sessions, jar' = jar, crossed' = crossed, missed' = missed
  PROVE  Handles(b) /\ \E n : Sends(b, n)
<1>1. sessions \in Seq(SessionRecords) /\ \A s \in DOMAIN sessions : Told(sessions[s])
  BY Home
<1>2. Handles(b)
  BY <1>1, EvolveStill DEF Handles
<1>3. PICK n : n = Verifier(held)
  OBVIOUS
<1>4. wire' = wire \cup {Letter(b, n)}
  BY <1>3 DEF Answer, Letter
<1>5. PICK D : D = DOMAIN sessions
  OBVIOUS
<1>8. jar[b] \in JarsOver(D)
  BY <1>5, Home
<1>6. SetsNoAuth(D, n, jar[b]) /\ Over(n, Empty).mfa = None /\ Over(n, jar[b]).mfa = jar[b].mfa
  BY <1>3, <1>8, VerifierAnswer
<1>7. Asked(sessions', Over(n, Empty))
  BY <1>6 DEF Asked
<1>9. Sends(b, n)
  BY <1>2, <1>4, <1>5, <1>6, <1>7, SendsHandOff
<1> QED BY <1>2, <1>9

\* Stopping gives the stash back: no disguise, unless one that was put on over another.
LEMMA StopImpersonationSteps ==
  ASSUME Inv, NEW b \in Browsers, StopImpersonation(b)
  PROVE  Handles(b) /\ \E n : Sends(b, n)
<1>1. /\ sessions' = Rotate(jar[b], sessions) /\ jar[b].stash # None /\ jar[b].access # None
      /\ jar' = jar /\ crossed' = crossed /\ missed \subseteq missed'
  BY DEF StopImpersonation, Authenticated
<1>2. TypeOK /\ (\A s \in DOMAIN sessions : Told(sessions[s]))
  BY DEF Inv, KeptInv
<1>3. Handles(b)
  BY <1>1, <1>2, Rotated DEF Handles
<1>4. PICK j, x, y, tt, D : j = jar[b] /\ x = j.stash /\ y = j.stashRefresh /\ tt = sessions' /\ D = DOMAIN tt
  OBVIOUS
<1>5. /\ Evolve(sessions, tt) /\ D = DOMAIN sessions
      /\ \A s \in DOMAIN sessions : s # j.refresh.sid => tt[s].gen = sessions[s].gen
  BY <1>1, <1>2, <1>4, Rotated
<1>6. /\ x # None /\ y # None /\ x.sid = y.sid /\ x.sid \in DOMAIN sessions /\ x.sid \in Names(j)
      /\ x \in AccessOver(D) /\ y \in RefreshOver(D)
      /\ j.access # None /\ j.refresh # None /\ j.access.sid = j.refresh.sid
      /\ b \notin crossed => Distinct(j)
  BY <1>1, <1>4, <1>5, Together
<1>7. PICK e, n : e = Forever /\ n = Over(GivenBack(j), DropStash)
  OBVIOUS
<1>8. e \in Nat /\ n = Over(SetAuthCookies(x, y, e), DropStash)
  BY <1>4, <1>7, SessionsAssumption DEF GivenBack, Forever
<1>9. wire' = wire \cup {Letter(b, n)}
  BY <1>4, <1>7 DEF StopImpersonation, Answer, Letter
<1>10. j \in JarsOver(D) /\ Kept(sessions, j) /\ (b \notin crossed => Fate(sessions, j, j))
  BY <1>4, <1>5, Home
<1>11. /\ SetsAuth(D, n, j, x, y, e) /\ Over(n, j).mfa = j.mfa
       /\ Over(n, j).stash = None /\ Over(n, j).stashRefresh = None
  BY <1>6, <1>8, <1>10, DropStashAnswer
<1>12. PICK v, k : v = Over(n, j) /\ k = Over(n, Empty)
  OBVIOUS
<1>13. /\ CookiesOK(D, n) /\ Whole(n)
       /\ k.access = x /\ k.refresh = y /\ k.stash = None /\ k.stashRefresh = None /\ k.mfa = None
       /\ v.access = x /\ v.refresh = y /\ v.stash = None /\ v.stashRefresh = None /\ v.mfa = j.mfa
  BY <1>11, <1>12 DEF SetsAuth
<1>14. Kept(tt, j)
  BY <1>5, <1>10, KeptGrows
<1>15. Kept(tt, k)
  <2>1. Handed(tt, k)
    BY <1>4, <1>6, <1>13, <1>14 DEF Kept, Handed
  <2>2. Asked(tt, k)
    BY <1>13 DEF Asked
  <2>3. Paired(k)
    BY <1>6, <1>13 DEF Paired
  <2>4. Reached(tt, k)
    BY <1>4, <1>6, <1>13, <1>14 DEF Kept, Reached, RefreshIn
  <2> QED BY <2>1, <2>2, <2>3, <2>4 DEF Kept
<1>16. Names(k) \subseteq Names(j)
  BY <1>4, <1>13 DEF Names
<1>17. ASSUME b \notin crossed  PROVE Fate(tt, v, j)
  <2>1. Fate(tt, j, j)
    BY <1>5, <1>10, <1>17, FateGrows
  <2>2. Bounded(tt, v)
    BY <1>4, <1>6, <1>13, <2>1 DEF Fate, Bounded
  <2>3. Distinct(v)
    BY <1>4, <1>13, <2>1 DEF Fate, Distinct
  <2>4. Ahead(v, j)
    BY <1>4, <1>6, <1>13, <1>17 DEF Distinct, Ahead, RefreshIn
  <2> QED BY <2>2, <2>3, <2>4 DEF Fate
<1>18. ASSUME b \notin crossed, Usable(sessions, j) \/ Usable(sessions, v)
       PROVE  Usable(tt, v)
  <2>1. RefreshIn(v) = {y} /\ y \in RefreshIn(j)
    BY <1>4, <1>6, <1>13 DEF RefreshIn
  <2>2. Takes(sessions, y)
    BY <1>18, <2>1 DEF Usable
  <2>3. tt[y.sid].gen = sessions[y.sid].gen
    BY <1>4, <1>5, <1>6, <1>18 DEF Distinct
  <2>4. tt[y.sid].live => sessions[y.sid].live
    BY <1>5, <1>6 DEF Evolve, Evolves
  <2>5. Takes(tt, y)
    BY <2>2, <2>3, <2>4 DEF Takes
  <2> QED BY <2>1, <2>5 DEF Usable
<1>19. Sends(b, n)
  BY <1>4, <1>9, <1>12, <1>13, <1>15, <1>16, <1>17, <1>18 DEF Sends
<1> QED BY <1>3, <1>19

\* Signing out drops the session's cookies; the stash stays.
LEMMA LogoutSteps ==
  ASSUME Inv, NEW b \in Browsers, Logout(b)
  PROVE  Handles(b) /\ \E n : Sends(b, n)
<1>1. PICK revoked : revoked = RevokedBy(jar[b].access)
  OBVIOUS
<1>2. /\ sessions' = [s \in DOMAIN sessions |->
                        IF s \in revoked THEN [sessions[s] EXCEPT !.live = FALSE] ELSE sessions[s]]
      /\ jar' = jar /\ crossed' = crossed /\ missed \subseteq missed'
  BY <1>1 DEF Logout
<1>3. /\ sessions \in Seq(SessionRecords) /\ DOMAIN sessions = 1..Len(sessions) /\ Len(sessions) \in Nat
      /\ \A s \in DOMAIN sessions : Told(sessions[s])
  BY Home
<1>4. PICK tt : tt = sessions'
  OBVIOUS
<1>5. ASSUME NEW s \in DOMAIN sessions
      PROVE  tt[s] \in SessionRecords /\ Evolves(sessions[s], tt[s]) /\ Told(tt[s])
             /\ tt[s].gen = sessions[s].gen
  <2>1. PICK old, new : old = sessions[s] /\ new = tt[s]
    OBVIOUS
  <2>2. old \in SessionRecords /\ Told(old) /\ old.gen \in Nat
    BY <1>3, <2>1, RecordTypes
  <2>3. new = old \/ new = [old EXCEPT !.live = FALSE]
    BY <1>2, <1>4, <2>1
  <2>4. /\ new \in SessionRecords
        /\ new.sub = old.sub /\ new.via = old.via /\ new.aal = old.aal /\ new.gen = old.gen
        /\ new.codes = old.codes /\ new.window = old.window /\ new.by = old.by /\ new.told = old.told
        /\ new.live => old.live
    BY <2>2, <2>3 DEF SessionRecords
  <2>5. Evolves(old, new)
    BY <2>2, <2>4 DEF Evolves
  <2>6. Told(new)
    BY <2>2, <2>4 DEF Told
  <2> QED BY <2>1, <2>4, <2>5, <2>6
<1>6. DOMAIN tt = DOMAIN sessions /\ tt \in Seq(SessionRecords)
  <2>1. tt = [s \in DOMAIN sessions |-> tt[s]]
    BY <1>2, <1>4
  <2> QED BY <1>3, <1>5, <2>1
<1>7. Evolve(sessions, tt)
  BY <1>3, <1>5, <1>6 DEF Evolve
<1>8. Handles(b)
  BY <1>2, <1>4, <1>5, <1>6, <1>7 DEF Handles
<1>9. PICK j, D, n : j = jar[b] /\ D = DOMAIN tt /\ n = DropAuthCookies
  OBVIOUS
<1>10. wire' = wire \cup {Letter(b, n)}
  BY <1>9 DEF Logout, Answer, Letter
<1>11. j \in JarsOver(D) /\ (b \notin crossed => Fate(sessions, j, j))
  BY <1>6, <1>9, Home
<1>12. PICK x, y, e : x = None /\ y = None /\ e = 0
  OBVIOUS
<1>13. n = SetAuthCookies(x, y, e) /\ e \in Nat
  BY <1>9, <1>12 DEF DropAuthCookies
<1>14. SetsAuth(D, n, j, x, y, e) /\ KeepsStash(n, j) /\ Over(n, j).mfa = j.mfa
  BY <1>11, <1>12, <1>13, AuthAnswer
<1>15. PICK v, k : v = Over(n, j) /\ k = Over(n, Empty)
  OBVIOUS
<1>16. /\ CookiesOK(D, n) /\ Whole(n)
       /\ k.access = None /\ k.refresh = None /\ k.stash = None /\ k.stashRefresh = None /\ k.mfa = None
       /\ v.access = None /\ v.refresh = None /\ v.stash = j.stash /\ v.stashRefresh = j.stashRefresh
       /\ v.mfa = j.mfa
  BY <1>12, <1>14, <1>15 DEF SetsAuth, KeepsStash
<1>17. Kept(tt, k)
  BY <1>16 DEF Kept, Handed, Asked, Paired, Reached, RefreshIn
<1>18. Names(k) \subseteq Names(j)
  BY <1>16 DEF Names
<1>19. RefreshIn(v) \subseteq RefreshIn(j)
  BY <1>16 DEF RefreshIn
<1>20. ASSUME b \notin crossed  PROVE Fate(tt, v, j)
  <2>1. Fate(tt, j, j)
    BY <1>6, <1>7, <1>9, <1>11, <1>20, FateGrows
  <2>2. Bounded(tt, v)
    BY <1>16, <2>1 DEF Fate, Bounded
  <2>3. Distinct(v)
    BY <1>16, <2>1 DEF Fate, Distinct
  <2>4. Ahead(v, j)
    BY <1>19, <2>1 DEF Fate, Ahead
  <2> QED BY <2>2, <2>3, <2>4 DEF Fate
<1>21. ASSUME Usable(sessions, j) \/ Usable(sessions, v)
       PROVE  Usable(tt, v)
  <2> SUFFICES ASSUME NEW t \in RefreshIn(v)  PROVE Takes(tt, t)
    BY DEF Usable
  <2>1. Takes(sessions, t) /\ t.sid \in DOMAIN sessions
    BY <1>6, <1>9, <1>11, <1>19, <1>21 DEF Usable, RefreshIn, JarsOver
  <2>2. tt[t.sid].gen = sessions[t.sid].gen /\ (tt[t.sid].live => sessions[t.sid].live)
    BY <1>5, <2>1 DEF Evolves
  <2> QED BY <2>1, <2>2 DEF Takes
<1>22. Sends(b, n)
  BY <1>4, <1>9, <1>10, <1>15, <1>16, <1>17, <1>18, <1>20, <1>21 DEF Sends
<1> QED BY <1>8, <1>22

\* The session of a disguise, marked and bounded.
LEMMA DisguiseRecord ==
  ASSUME NEW u \in Users, NEW by \in Nat, NEW until \in Nat
  PROVE  /\ Disguise(u, by, until) \in SessionRecords
         /\ Told(Disguise(u, by, until))
         /\ Disguise(u, by, until).via = "disguise" /\ Disguise(u, by, until).gen = 0
         /\ Disguise(u, by, until).window = until /\ Disguise(u, by, until).by = by
<1>1. PICK it, new : it = Opened(u, "disguise") /\ new = Disguise(u, by, until)
  OBVIOUS
<1>2. it \in SessionRecords /\ it.via = "disguise" /\ it.gen = 0 /\ it.codes = 0 /\ it.told = <<>>
  BY <1>1, NewRecord
<1>3. new = [it EXCEPT !.window = until, !.by = by]
  BY <1>1 DEF Disguise
<1>4. /\ new \in SessionRecords /\ new.via = "disguise" /\ new.gen = 0 /\ new.codes = 0
      /\ new.told = <<>> /\ new.window = until /\ new.by = by
  BY <1>2, <1>3 DEF SessionRecords
<1>5. Told(new)
  BY <1>4 DEF Told
<1> QED BY <1>1, <1>4, <1>5

\* The admin's cookies are stashed beside the disguise, which ends with them.
LEMMA ImpersonateSteps ==
  ASSUME Inv, NEW b \in Browsers, NEW u \in Users, Impersonate(b, u)
  PROVE  Handles(b) /\ (KeepsSilent(b) \/ \E n : Sends(b, n))
<1>1. PICK j, until, fresh, by : /\ j = jar[b] /\ until = now + Window /\ by = j.access.sid
                                 /\ fresh = Disguise(u, by, until)
  OBVIOUS
<1>2. /\ sessions' = Append(Rotate(jar[b], sessions), fresh)
      /\ j.access # None /\ Sub(j.access) \in Admins
      /\ jar' = jar /\ crossed' = crossed /\ missed \subseteq missed'
      /\ \/ wire' = wire
         \/ wire' = wire \cup {Letter(b, Over(Tokens(New, 1, 0, until), Stash(j, until)))}
  BY <1>1 DEF Impersonate, Authenticated, Answer, Letter
<1>3. now \in Nat /\ until \in Nat /\ until # 0
  BY <1>1, SessionsAssumption DEF Inv, TypeOK
<1>4. /\ j.refresh # None /\ j.access.sid = j.refresh.sid
      /\ j.access.sid \in DOMAIN sessions /\ j.access.sid \in Names(j)
      /\ j.stash # None => j.stash.sid \in DOMAIN sessions
      /\ j.mfa # None => j.mfa.sid \in DOMAIN sessions
      /\ b \notin crossed => Distinct(j)
  BY <1>1, <1>2, Together
<1>5. by \in Nat
  BY <1>1, <1>4, Home
<1>6. /\ fresh \in SessionRecords /\ Told(fresh) /\ fresh.via = "disguise" /\ fresh.gen = 0
      /\ fresh.window = until /\ fresh.by = by
  BY <1>1, <1>3, <1>5, DisguiseRecord
<1>7. PICK tt, D : tt = sessions' /\ D = DOMAIN tt
  OBVIOUS
<1>8. /\ Handles(b)
      /\ wire' = wire => KeepsSilent(b)
      /\ D = DOMAIN sessions \cup {New} /\ New \notin DOMAIN sessions
      /\ tt[New] = fresh
      /\ Evolve(sessions, tt)
      /\ b \notin crossed => (Usable(sessions, j) => Usable(tt, j))
  BY <1>1, <1>2, <1>6, <1>7, QuietAppend
<1>9. ASSUME wire' = wire \cup {Letter(b, Over(Tokens(New, 1, 0, until), Stash(j, until)))}
      PROVE  \E n : Sends(b, n)
  <2>1. PICK x, y, n : /\ x = NewAccess(New, 1) /\ y = NewRefresh(New, 0)
                       /\ n = Over(Tokens(New, 1, 0, until), Stash(j, until))
    OBVIOUS
  <2>2. x \in AccessOver(D) /\ y \in RefreshOver(D) /\ x.sid = New /\ y.sid = New /\ y.gen = 0
    BY <1>8, <2>1, AccessType, RefreshType
  <2>3. n = Over(SetAuthCookies(x, y, until), Stash(j, until))
    BY <2>1, TokensAre
  <2>4. j \in JarsOver(DOMAIN sessions) /\ Kept(sessions, j) /\ (b \notin crossed => Fate(sessions, j, j))
    BY <1>1, Home
  <2>5. j \in JarsOver(D)
    BY <1>8, <2>4, JarsGrow
  <2>6. PICK v, k : v = Over(n, j) /\ k = Over(n, Empty)
    OBVIOUS
  <2>7. /\ CookiesOK(D, n) /\ Whole(n)
        /\ k.access = x /\ k.refresh = y /\ k.stash = j.access /\ k.stashRefresh = j.refresh /\ k.mfa = None
        /\ v.access = x /\ v.refresh = y /\ v.ends = until /\ v.stash = j.access
        /\ v.stashRefresh = j.refresh /\ v.deadline = until /\ v.mfa = j.mfa
    BY <1>2, <1>3, <1>4, <2>2, <2>3, <2>5, <2>6, StashAnswer
  <2>8. x # None /\ y # None
    <3>1. DOMAIN tt \subseteq Nat
      BY <1>8 DEF Evolve
    <3>2. x \in [sid: Nat, aal: {1, 2}, old: BOOLEAN] /\ y \in [sid: Nat, gen: Nat]
      BY <1>7, <2>2, <3>1 DEF AccessOver, RefreshOver
    <3> QED BY <3>2, SessionsAssumption
  <2>9. Kept(tt, j)
    BY <1>8, <2>4, KeptGrows
  <2>10. Kept(tt, k)
    <3>1. Handed(tt, k)
      BY <1>6, <1>8, <2>2, <2>7, <2>9 DEF Kept, Handed
    <3>2. Asked(tt, k)
      BY <2>7 DEF Asked
    <3>3. Paired(k)
      BY <1>2, <1>4, <2>2, <2>7, <2>8 DEF Paired
    <3>4. Reached(tt, k)
      BY <1>6, <1>8, <2>2, <2>7, <2>9 DEF Kept, Reached, RefreshIn
    <3> QED BY <3>1, <3>2, <3>3, <3>4 DEF Kept
  <2>11. Names(k) \subseteq Names(j) \cup (D \ DOMAIN sessions)
    BY <1>8, <2>2, <2>7 DEF Names
  <2>12. ASSUME b \notin crossed  PROVE Fate(tt, v, j)
    <3>1. Distinct(j)
      BY <1>4, <2>12
    <3>2. Bounded(tt, v)
      <4>1. tt[j.access.sid].sub \in Admins
        BY <1>2, <1>4, <1>8 DEF Sub, Evolve, Evolves
      <4>2. Overlaid(tt, j.access.sid)
        BY <1>1, <1>6, <1>7, <1>8 DEF Overlaid
      <4>3. v.access.sid = New /\ tt[v.access.sid] = fresh /\ v.stash = j.access /\ v.stash # None
        BY <1>2, <1>8, <2>2, <2>7
      <4>4. v.ends = until /\ v.deadline = until /\ fresh.window = until /\ until <= until
        BY <1>3, <1>6, <2>7
      <4>5. /\ v.ends <= tt[v.access.sid].window
            /\ v.deadline # 0
            /\ v.deadline <= tt[v.access.sid].window
            /\ v.ends <= v.deadline
        BY <1>3, <4>3, <4>4
      <4>6. v.stash.sid = tt[v.access.sid].by /\ tt[v.stash.sid].sub \in Admins
            /\ Overlaid(tt, v.stash.sid)
        BY <1>1, <1>6, <4>1, <4>2, <4>3
      <4> QED BY <4>3, <4>5, <4>6 DEF Bounded
    <3>3. Distinct(v)
      BY <1>4, <1>8, <2>2, <2>7, <3>1 DEF Distinct
    <3>4. Ahead(v, j)
      <4>1. RefreshIn(v) \subseteq {y, j.refresh}
        BY <2>7 DEF RefreshIn
      <4>2. j.refresh.gen \in Nat /\ j.refresh.sid # New
        BY <1>4, <1>8, <2>4 DEF JarsOver
      <4> QED BY <2>2, <4>1, <4>2 DEF Ahead
    <3> QED BY <3>2, <3>3, <3>4 DEF Fate
  <2>13. Letter(b, n) \notin wire
    <3> SUFFICES ASSUME Letter(b, n) \in wire  PROVE FALSE
      OBVIOUS
    <3>1. CookiesOK(DOMAIN sessions, n)
      BY Typed DEF Letter, Inv
    <3>2. k \in JarsOver(DOMAIN sessions)
      BY <2>6, <3>1 DEF CookiesOK
    <3> QED BY <1>8, <2>2, <2>7, <2>8, <3>2 DEF JarsOver
  <2>14. ASSUME b \notin crossed, Usable(sessions, j)  PROVE Usable(tt, v)
    <3>1. RefreshIn(v) \subseteq {y, j.refresh} /\ j.refresh \in RefreshIn(j)
      BY <1>4, <2>7 DEF RefreshIn
    <3>2. Takes(tt, j.refresh)
      BY <1>8, <2>14, <3>1 DEF Usable
    <3>3. Takes(tt, y)
      BY <1>6, <1>8, <2>2 DEF Takes
    <3> QED BY <3>1, <3>2, <3>3 DEF Usable
  <2>15. Sends(b, n)
    BY <1>1, <1>7, <1>9, <2>1, <2>6, <2>7, <2>10, <2>11, <2>12, <2>13, <2>14 DEF Sends
  <2> QED BY <2>15
<1> QED BY <1>2, <1>8, <1>9

LEMMA ProvedRecord ==
  ASSUME NEW old \in SessionRecords
  PROVE  /\ Proved(old) \in SessionRecords
         /\ Proved(old).gen = old.gen + 1 /\ Proved(old).aal = 2 /\ Proved(old).codes = old.codes
         /\ Proved(old).sub = old.sub /\ Proved(old).via = old.via /\ Proved(old).live = old.live
         /\ Proved(old).window = old.window /\ Proved(old).by = old.by /\ Proved(old).told = old.told
<1>1. old.gen \in Nat /\ old.gen + 1 \in Nat
  BY RecordTypes
<1>2. PICK up, gen : up = Proved(old) /\ gen = old.gen + 1
  OBVIOUS
<1>3. up = [[old EXCEPT !.aal = 2] EXCEPT !.gen = gen]
  BY <1>2 DEF Proved, SessionRecords
<1>4. PICK mid : mid = [old EXCEPT !.aal = 2]
  OBVIOUS
<1>5. mid \in SessionRecords /\ mid.gen = old.gen /\ mid.aal = 2 /\ mid.codes = old.codes
      /\ mid.sub = old.sub /\ mid.via = old.via /\ mid.live = old.live
      /\ mid.window = old.window /\ mid.by = old.by /\ mid.told = old.told
  BY <1>4 DEF SessionRecords
<1>6. up = [mid EXCEPT !.gen = gen]
  BY <1>3, <1>4
<1>7. up \in SessionRecords /\ up.gen = gen /\ up.aal = 2 /\ up.codes = old.codes
      /\ up.sub = old.sub /\ up.via = old.via /\ up.live = old.live
      /\ up.window = old.window /\ up.by = old.by /\ up.told = old.told
  BY <1>1, <1>2, <1>5, <1>6 DEF SessionRecords
<1> QED BY <1>2, <1>7

LEMMA CodedRecord ==
  ASSUME NEW up \in SessionRecords, up.codes + 1 \in 0..MaxCodes, NEW z, z = [up EXCEPT !.codes = @ + 1]
  PROVE  /\ z \in SessionRecords /\ z.codes = up.codes + 1 /\ z.gen = up.gen /\ z.aal = up.aal
         /\ z.sub = up.sub /\ z.via = up.via /\ z.live = up.live
         /\ z.window = up.window /\ z.by = up.by /\ z.told = up.told
<1>1. PICK codes : codes = up.codes + 1
  OBVIOUS
<1>2. z = [up EXCEPT !.codes = codes]
  BY <1>1
<1> QED BY <1>1, <1>2 DEF SessionRecords

\* A code accepted: the session's level and generation rise, and its fact says so, if it is recorded.
CodeFact(method) == SignedIn(method, TRUE)
Coded(old) == [Proved(old) EXCEPT !.codes = @ + 1]

LEMMA CodeTold ==
  ASSUME NEW old \in SessionRecords, Told(old), NEW method \in Methods, old.via = method,
         old.codes = 0 => old.told = <<>>, old.codes + 1 <= MaxCodes,
         NEW proved, proved = Coded(old),
         NEW new, new = proved \/ new = Tell(proved, CodeFact(method))
  PROVE  /\ new \in SessionRecords /\ Told(new) /\ Evolves(old, new)
         /\ new.gen = old.gen + 1 /\ new.aal = 2
         /\ proved.gen = old.gen + 1
         /\ new # proved => new.told # <<>>
<1>1. /\ old.gen \in Nat /\ old.codes \in Nat /\ old.told \in Seq([method: Methods, two_factor: BOOLEAN])
      /\ MaxCodes \in Nat
  BY RecordTypes, SessionsAssumption
<1>2. PICK yes \in BOOLEAN : yes = TRUE
  OBVIOUS
<1>3. PICK fact : fact = CodeFact(method)
  OBVIOUS
<1>4. fact = SignedIn(method, yes)
  BY <1>2, <1>3, Zenon DEF CodeFact
<1>5. fact \in [method: Methods, two_factor: BOOLEAN]
  BY <1>4 DEF SignedIn
<1>6. /\ proved \in SessionRecords
      /\ proved.gen = old.gen + 1 /\ proved.aal = 2 /\ proved.codes = old.codes + 1
      /\ proved.sub = old.sub /\ proved.via = old.via /\ proved.live = old.live
      /\ proved.window = old.window /\ proved.by = old.by /\ proved.told = old.told
  <2>1. PICK up : up = Proved(old)
    OBVIOUS
  <2>2. /\ up \in SessionRecords /\ up.gen = old.gen + 1 /\ up.aal = 2 /\ up.codes = old.codes
        /\ up.sub = old.sub /\ up.via = old.via /\ up.live = old.live
        /\ up.window = old.window /\ up.by = old.by /\ up.told = old.told
    BY <2>1, ProvedRecord
  <2>3. proved = [up EXCEPT !.codes = @ + 1]
    BY <2>1, Zenon DEF Coded
  <2>4. up.codes + 1 \in 0..MaxCodes
    BY <1>1, <2>2
  <2> QED BY <2>2, <2>3, <2>4, CodedRecord
<1>7. PICK more : more = Append(old.told, fact)
  OBVIOUS
<1>8. /\ more \in Seq([method: Methods, two_factor: BOOLEAN]) /\ Len(more) = Len(old.told) + 1
      /\ more # <<>>
      /\ DOMAIN more = 1..(Len(old.told) + 1) /\ DOMAIN old.told = 1..Len(old.told) /\ Len(old.told) \in Nat
      /\ \A i \in 1..Len(old.told) : more[i] = old.told[i]
      /\ more[Len(old.told) + 1] = fact
  BY <1>1, <1>5, <1>7
<1>9. new = proved \/ new = [proved EXCEPT !.told = more]
  BY <1>3, <1>6, <1>7 DEF Tell, SessionRecords
<1>10. /\ new \in SessionRecords
       /\ new.gen = old.gen + 1 /\ new.aal = 2 /\ new.codes = old.codes + 1
       /\ new.sub = old.sub /\ new.via = old.via /\ new.live = old.live
       /\ new.window = old.window /\ new.by = old.by
       /\ new.told = old.told \/ new.told = more
       /\ new # proved => new.told = more
  BY <1>6, <1>8, <1>9 DEF SessionRecords
<1>11. Evolves(old, new)
  BY <1>1, <1>8, <1>10 DEF Evolves
<1>12. Len(old.told) <= old.codes
  BY <1>1, <1>8 DEF Told
<1>13. \A i \in DOMAIN old.told : old.told[i] = fact
  <2>1. CASE old.codes = 0
    BY <1>8, <2>1
  <2>2. CASE old.codes # 0
    <3>4. old.codes > 0
      BY <1>1, <2>2
    <3>1. (old.codes > 0) = yes
      BY <1>2, <3>4, Zenon
    <3>2. \A i \in DOMAIN old.told : old.told[i] = SignedIn(old.via, old.codes > 0)
      BY Zenon DEF Told
    <3>3. SignedIn(old.via, old.codes > 0) = fact
      BY <1>4, <3>1, Zenon
    <3> QED BY <3>2, <3>3, Zenon
  <2> QED BY <2>1, <2>2
<1>14. \A i \in DOMAIN new.told : new.told[i] = fact
  BY <1>8, <1>10, <1>13
<1>15. Len(new.told) <= new.codes /\ new.codes # 0
  BY <1>1, <1>8, <1>10, <1>12
<1>16. new.via # "disguise"
  BY <1>10 DEF Methods
<1>17. Told(new)
  <2>6. new.codes > 0
    BY <1>1, <1>10
  <2>1. (new.codes > 0) = yes
    BY <1>2, <2>6, Zenon
  <2>2. SignedIn(new.via, new.codes > 0) = fact
    BY <1>4, <1>10, <2>1, Zenon
  <2>3. \A i \in DOMAIN new.told : new.told[i] = SignedIn(new.via, new.codes > 0)
    BY <1>14, <2>2, Zenon
  <2>4. Len(new.told) <= IF new.codes = 0 THEN 1 ELSE new.codes
    BY <1>15
  <2>5. new.via = "disguise" => new.told = <<>>
    BY <1>16
  <2> QED BY <2>3, <2>4, <2>5, Zenon DEF Told
<1> QED BY <1>6, <1>8, <1>10, <1>11, <1>17

\* Tokens whose sessions a step left where they were are still taken.
LEMMA SameUsable ==
  ASSUME NEW ss, NEW tt, NEW v \in JarsOver(DOMAIN ss), Evolve(ss, tt), Usable(ss, v),
         \A t \in RefreshIn(v) : tt[t.sid].gen = ss[t.sid].gen
  PROVE  Usable(tt, v)
<1> SUFFICES ASSUME NEW t \in RefreshIn(v), tt[t.sid].live  PROVE tt[t.sid].gen - t.gen \in {0, 1}
  BY DEF Usable, Takes
<1>1. t.sid \in DOMAIN ss
  BY DEF RefreshIn, JarsOver
<1>2. ss[t.sid].live
  BY <1>1 DEF Evolve, Evolves
<1> QED BY <1>2 DEF Usable, Takes

LEMMA MfaVerifySteps ==
  ASSUME Inv, NEW b \in Browsers, MfaVerify(b)
  PROVE  Handles(b) /\ (KeepsSilent(b) \/ \E n : Sends(b, n))
<1>1. PICK j, s, old, method, proved, fact :
        /\ j = jar[b] /\ s = j.mfa.sid /\ old = sessions[s] /\ method = j.mfa.method
        /\ proved = Coded(old)
        /\ fact = CodeFact(method)
  OBVIOUS
<1>2. PICK told : told = Tell(proved, fact)
  OBVIOUS
<1>3. /\ j.mfa # None /\ proved.codes <= MaxCodes
      /\ jar' = jar /\ crossed' = crossed /\ missed \subseteq missed'
      /\ \/ /\ sessions' = [sessions EXCEPT ![s] = told]
            /\ wire' = wire \cup {Letter(b, Over(Tokens(s, 2, proved.gen, Forever), [mfa |-> None]))}
         \/ /\ sessions' = [sessions EXCEPT ![s] = proved]
            /\ missed' = missed \cup ({b} \cap {m.to : m \in wire})
            /\ wire' = wire
  BY <1>1, <1>2 DEF MfaVerify, RelayedMethod, Answer, Letter, CodeFact, Coded
<1>4. /\ sessions \in Seq(SessionRecords) /\ j \in JarsOver(DOMAIN sessions)
      /\ Kept(sessions, j) /\ Paired(j) /\ \A q \in DOMAIN sessions : Told(sessions[q])
  BY <1>1, Home
<1>5. /\ s \in DOMAIN sessions /\ s \in Names(j) /\ method \in Methods
      /\ b \notin crossed => Distinct(j)
  BY <1>1, <1>3, Together
<1>6. old \in SessionRecords /\ Told(old) /\ old.via = method /\ (old.codes = 0 => old.told = <<>>)
  BY <1>1, <1>3, <1>4, <1>5 DEF Kept, Asked
<1>7. old.codes \in Nat /\ old.gen \in Nat
  BY <1>6, RecordTypes
<1>8. old.codes + 1 <= MaxCodes
  BY <1>1, <1>3, <1>6, <1>7 DEF Proved, SessionRecords, Coded
<1>9. PICK new : (new = proved \/ new = told) /\ sessions' = [sessions EXCEPT ![s] = new]
                 /\ (wire' = wire \/ new = told)
                 /\ (wire' # wire => new = told)
  BY <1>3
<1>10. /\ new \in SessionRecords /\ Told(new) /\ Evolves(old, new)
       /\ new.gen = old.gen + 1 /\ new.aal = 2 /\ proved.gen = old.gen + 1
  <2>1. proved = Coded(old)
    BY <1>1
  <2>2. new = proved \/ new = Tell(proved, CodeFact(method))
    BY <1>1, <1>2, <1>9, Zenon
  <2> QED BY <1>5, <1>6, <1>8, <2>1, <2>2, CodeTold
<1>11. PICK tt, D : tt = sessions' /\ D = DOMAIN tt
  OBVIOUS
<1>12. /\ Evolve(sessions, tt) /\ D = DOMAIN sessions
       /\ \A q \in DOMAIN sessions : q # s => tt[q] = sessions[q]
       /\ tt[s] = new
  <2>1. \A z \in SessionRecords : Evolves(sessions[s], z) =>
          /\ Evolve(sessions, [sessions EXCEPT ![s] = z])
          /\ DOMAIN [sessions EXCEPT ![s] = z] = DOMAIN sessions
          /\ \A q \in DOMAIN sessions : q # s => [sessions EXCEPT ![s] = z][q] = sessions[q]
          /\ [sessions EXCEPT ![s] = z][s] = z
    BY <1>4, <1>5, EvolveOne
  <2>2. new \in SessionRecords /\ Evolves(sessions[s], new)
    BY <1>1, <1>10
  <2>3. tt = [sessions EXCEPT ![s] = new]
    BY <1>9, <1>11
  <2> QED BY <1>11, <2>1, <2>2, <2>3
<1>13. Handles(b)
  BY <1>1, <1>3, <1>4, <1>5, <1>10, <1>11, <1>12 DEF Handles
<1>14. ASSUME wire' = wire, missed' = missed \cup ({b} \cap {m.to : m \in wire})
       PROVE  KeepsSilent(b)
  <2>1. b \notin missed' => Unanswered(b)
    BY <1>14 DEF Unanswered
  <2>2. ASSUME b \notin crossed, Usable(sessions, j)  PROVE Usable(tt, j)
    <3>1. \A t \in RefreshIn(j) : t.sid # s /\ t.sid \in DOMAIN sessions
      BY <1>1, <1>3, <1>4, <1>5, <2>2 DEF RefreshIn, Paired, Distinct, JarsOver
    <3> QED BY <1>4, <1>12, <2>2, <3>1, SameUsable
  <2> QED BY <1>1, <1>11, <1>14, <2>1, <2>2 DEF KeepsSilent, Unanswered
<1>15. ASSUME sessions' = [sessions EXCEPT ![s] = told],
              wire' = wire \cup {Letter(b, Over(Tokens(s, 2, proved.gen, Forever), [mfa |-> None]))}
       PROVE  \E n : Sends(b, n)
  <2>1. tt[s] = told
    BY <1>4, <1>5, <1>11, <1>15
  <2>2. told.told # <<>>
    <3>2. old.told \in Seq([method: Methods, two_factor: BOOLEAN])
      BY <1>6, RecordTypes
    <3>3. proved.told = old.told /\ told.told = Append(proved.told, fact)
      BY <1>1, <1>2, <1>6 DEF Proved, Tell, SessionRecords, Coded
    <3>4. proved.told \in Seq([method: Methods, two_factor: BOOLEAN])
          /\ fact \in [method: Methods, two_factor: BOOLEAN]
      BY <1>1, <1>5, <3>2, <3>3 DEF CodeFact, SignedIn
    <3>5. Len(Append(proved.told, fact)) = Len(proved.told) + 1 /\ Len(proved.told) \in Nat
      BY <3>4
    <3>6. Len(told.told) # 0
      BY <3>3, <3>5
    <3> QED BY <3>6
  <2>3. PICK x, y, e, gen, n :
          /\ gen = proved.gen /\ x = NewAccess(s, 2) /\ y = NewRefresh(s, gen) /\ e = Forever
          /\ n = Over(Tokens(s, 2, gen, Forever), [mfa |-> None])
    OBVIOUS
  <2>4. gen \in Nat /\ gen = tt[s].gen /\ e \in Nat
    BY <1>7, <1>10, <1>12, <2>3, SessionsAssumption DEF Forever
  <2>5. x \in AccessOver(D) /\ y \in RefreshOver(D) /\ x.sid = s /\ y.sid = s /\ y.gen = gen
    BY <1>5, <1>12, <2>3, <2>4, AccessType, RefreshType
  <2>6. n = Over(SetAuthCookies(x, y, e), [mfa |-> None])
    BY <2>3, TokensAre
  <2>7. j \in JarsOver(D)
    BY <1>4, <1>12
  <2>8. SetsAuth(D, n, j, x, y, e) /\ KeepsStash(n, j) /\ Over(n, j).mfa = None
    BY <2>4, <2>5, <2>6, <2>7, AuthAnswerNoMfa
  <2>9. j.refresh # None /\ s = j.refresh.sid => y.gen >= j.refresh.gen
    <3> SUFFICES ASSUME j.refresh # None, s = j.refresh.sid  PROVE y.gen >= j.refresh.gen
      OBVIOUS
    <3>1. j.refresh.gen <= old.gen /\ j.refresh.gen \in Nat
      BY <1>1, <1>4 DEF Kept, Reached, RefreshIn, JarsOver
    <3> QED BY <1>7, <1>10, <2>3, <2>5, <3>1
  <2>10. b \notin crossed /\ j.stash # None => j.stash.sid # s /\ tt[j.stash.sid].gen = sessions[j.stash.sid].gen
    BY <1>1, <1>3, <1>5, <1>12, Together DEF Distinct
  <2>11. tt[s].aal = 2
    BY <1>10, <1>12
  <2>12. wire' = wire \cup {Letter(b, n)}
    BY <1>15, <2>3
  <2>13. Sends(b, n)
    BY <1>1, <1>5, <1>11, <1>13, <2>1, <2>2, <2>4, <2>5, <2>8, <2>9, <2>10, <2>11, <2>12, SendsTokens
  <2> QED BY <2>13
<1> QED BY <1>3, <1>13, <1>14, <1>15

\* The code that enrols an authenticator raises the session the request came with.
LEMMA TwofaVerifySteps ==
  ASSUME Inv, NEW b \in Browsers, TwofaVerify(b)
  PROVE  Handles(b) /\ (KeepsSilent(b) \/ \E n : Sends(b, n))
<1>1. PICK j, s, tt, uu, gen :
        /\ j = jar[b] /\ s = j.access.sid /\ tt = Rotate(jar[b], sessions) /\ uu = sessions'
        /\ gen = tt[s].gen + 1
  OBVIOUS
<1>2. /\ j.access # None
      /\ uu = [tt EXCEPT ![s] = Proved(@)]
      /\ jar' = jar /\ crossed' = crossed /\ missed \subseteq missed'
      /\ \/ wire' = wire \cup {Letter(b, Tokens(s, 2, gen, Forever))}
         \/ missed' = missed \cup {b} /\ wire' = wire
  BY <1>1 DEF TwofaVerify, Authenticated, Answer, Letter
<1>3. TypeOK /\ \A q \in DOMAIN sessions : Told(sessions[q])
  BY DEF Inv, KeptInv
<1>4. /\ tt \in Seq(SessionRecords) /\ Evolve(sessions, tt) /\ DOMAIN tt = DOMAIN sessions
      /\ \A q \in DOMAIN tt : Told(tt[q])
      /\ \A q \in DOMAIN sessions : q \notin Names(j) => tt[q].gen = sessions[q].gen
      /\ \A q \in DOMAIN sessions : q # j.refresh.sid => tt[q].gen = sessions[q].gen
  BY <1>1, <1>3, Rotated
<1>5. /\ j.refresh # None /\ j.refresh.sid = s /\ s \in DOMAIN sessions /\ s \in Names(j)
      /\ j.stash # None => j.stash.sid \in DOMAIN sessions
      /\ b \notin crossed => Distinct(j)
  BY <1>1, <1>2, Together
<1>6. PICK old, new : old = tt[s] /\ new = Proved(old)
  OBVIOUS
<1>7. old \in SessionRecords /\ Told(old) /\ old.gen \in Nat
  BY <1>4, <1>5, <1>6, RecordTypes
<1>8. /\ new \in SessionRecords
      /\ new.gen = gen /\ new.aal = 2 /\ new.codes = old.codes
      /\ new.sub = old.sub /\ new.via = old.via /\ new.live = old.live
      /\ new.window = old.window /\ new.by = old.by /\ new.told = old.told
  BY <1>1, <1>6, <1>7, ProvedRecord
<1>9. Evolves(old, new) /\ Told(new)
  <2>1. old.gen <= gen
    BY <1>1, <1>6, <1>7
  <2>2. Evolves(old, new)
    BY <1>8, <2>1 DEF Evolves
  <2>3. Told(new)
    BY <1>7, <1>8, Zenon DEF Told
  <2> QED BY <2>2, <2>3
<1>10. /\ Evolve(tt, uu) /\ DOMAIN uu = DOMAIN tt
       /\ \A q \in DOMAIN tt : q # s => uu[q] = tt[q]
       /\ uu[s] = new
  <2>1. \A z \in SessionRecords : Evolves(tt[s], z) =>
          /\ Evolve(tt, [tt EXCEPT ![s] = z])
          /\ DOMAIN [tt EXCEPT ![s] = z] = DOMAIN tt
          /\ \A q \in DOMAIN tt : q # s => [tt EXCEPT ![s] = z][q] = tt[q]
          /\ [tt EXCEPT ![s] = z][s] = z
    BY <1>4, <1>5, EvolveOne
  <2>2. new \in SessionRecords /\ Evolves(tt[s], new)
    BY <1>6, <1>8, <1>9
  <2>3. uu = [tt EXCEPT ![s] = new]
    BY <1>2, <1>4, <1>5, <1>6
  <2> QED BY <2>1, <2>2, <2>3
<1>11. Evolve(sessions, uu)
  BY <1>4, <1>10, EvolveChain
<1>12. Handles(b)
  BY <1>1, <1>2, <1>4, <1>5, <1>9, <1>10, <1>11 DEF Handles
<1>13. CASE missed' = missed \cup {b} /\ wire' = wire
  BY <1>12, <1>13 DEF KeepsSilent
<1>14. CASE wire' = wire \cup {Letter(b, Tokens(s, 2, gen, Forever))}
  <2>1. PICK D, x, y, e, n :
          /\ D = DOMAIN uu /\ x = NewAccess(s, 2) /\ y = NewRefresh(s, gen) /\ e = Forever
          /\ n = Tokens(s, 2, gen, Forever)
    OBVIOUS
  <2>2. gen \in Nat /\ gen = uu[s].gen /\ e \in Nat
    <3>1. gen \in Nat
      BY <1>1, <1>6, <1>7
    <3>2. uu[s].gen = gen
      BY <1>8, <1>10
    <3>3. e \in Nat
      BY <2>1, SessionsAssumption DEF Forever
    <3> QED BY <3>1, <3>2, <3>3
  <2>3. D = DOMAIN sessions /\ s \in D
    BY <1>4, <1>5, <1>10, <2>1
  <2>4. x \in AccessOver(D) /\ y \in RefreshOver(D) /\ x.sid = s /\ y.sid = s /\ y.gen = gen
    <3>1. x \in AccessOver(D) /\ x.sid = s
      BY <2>1, <2>3, AccessType
    <3>2. y \in RefreshOver(D) /\ y.sid = s /\ y.gen = gen
      BY <2>1, <2>2, <2>3, RefreshType
    <3> QED BY <3>1, <3>2
  <2>5. n = SetAuthCookies(x, y, e)
    BY <2>1, TokensAre
  <2>6. j \in JarsOver(D) /\ Kept(sessions, j)
    BY <1>1, <2>3, Home
  <2>7. SetsAuth(D, n, j, x, y, e) /\ KeepsStash(n, j) /\ Over(n, j).mfa = j.mfa
    BY <2>2, <2>4, <2>5, <2>6, AuthAnswer
  <2>8. y.gen >= j.refresh.gen
    <3>1. Kept(tt, j)
      BY <1>4, <2>3, <2>6, KeptGrows
    <3>2. j.refresh.gen <= old.gen /\ j.refresh.gen \in Nat
      BY <1>5, <1>6, <2>6, <3>1 DEF Kept, Reached, RefreshIn, JarsOver
    <3> QED BY <1>1, <1>6, <1>7, <2>4, <3>2
  <2>9. uu[s].via # "disguise" => uu[s].told # <<>>
    <3>1. Kept(uu, j)
      BY <1>11, <2>3, <2>6, KeptGrows
    <3> QED BY <1>1, <1>2, <3>1 DEF Kept, Handed
  <2>10. b \notin crossed =>
           /\ j.stash # None => j.stash.sid # s /\ uu[j.stash.sid].gen = sessions[j.stash.sid].gen
           /\ j.mfa # None => j.mfa.sid # s
    BY <1>1, <1>2, <1>4, <1>5, <1>10 DEF Distinct
  <2>11. uu[s].aal = 2
    BY <1>8, <1>10
  <2>12. wire' = wire \cup {Letter(b, n)}
    BY <1>14, <2>1
  <2>13. Sends(b, n)
    <3>1. /\ x \in AccessOver(DOMAIN sessions') /\ y \in RefreshOver(DOMAIN sessions')
          /\ SetsAuth(DOMAIN sessions', n, jar[b], x, y, e) /\ KeepsStash(n, jar[b])
          /\ Over(n, jar[b]).mfa \in {None, jar[b].mfa}
      BY <1>1, <2>1, <2>4, <2>7
    <3>2. /\ y.sid = x.sid /\ y.gen = sessions'[x.sid].gen
          /\ sessions'[x.sid].via # "disguise" => sessions'[x.sid].told # <<>>
          /\ x.sid \in Names(jar[b]) \cup (DOMAIN sessions' \ DOMAIN sessions)
          /\ jar[b].refresh # None /\ x.sid = jar[b].refresh.sid => y.gen >= jar[b].refresh.gen
      BY <1>1, <1>5, <2>2, <2>4, <2>8, <2>9
    <3>3. b \notin crossed =>
            /\ sessions'[x.sid].via = "disguise" /\ sessions'[x.sid].aal = 1 =>
                 /\ jar[b].access # None /\ x.sid = jar[b].access.sid
                 /\ jar[b].deadline # 0 => e = jar[b].deadline
            /\ jar[b].stash # None =>
                 /\ jar[b].stash.sid # x.sid
                 /\ sessions'[jar[b].stash.sid].gen = sessions[jar[b].stash.sid].gen
            /\ Over(n, jar[b]).mfa # None => jar[b].mfa.sid # x.sid
      BY <1>1, <2>4, <2>7, <2>10, <2>11
    <3> QED BY <1>12, <2>2, <2>12, <3>1, <3>2, <3>3, SendsTokens
  <2> QED BY <1>12, <2>13
<1> QED BY <1>2, <1>13, <1>14

\* The handlers that answer with no cookie of their own.
LEMMA QuietSteps ==
  ASSUME Inv, NEW b \in Browsers,
         \/ EmailChange(b) \/ PasswordChange(b)
         \/ PasskeyAdd(b) \/ PasskeyDelete(b) \/ TwofaEnroll(b)
  PROVE  Handles(b) /\ KeepsSilent(b)
<1>1. CASE PasswordChange(b)
  <2>1. PICK fresh : fresh = Opened(Sub(jar[b].access), "password")
    OBVIOUS
  <2>2. /\ sessions' = Append(Rotate(jar[b], sessions), fresh) /\ wire' = wire
        /\ jar' = jar /\ crossed' = crossed /\ missed \subseteq missed' /\ jar[b].access # None
    BY <1>1, <2>1 DEF PasswordChange, Authenticated
  <2>3. Sub(jar[b].access) \in Users
    <3>1. jar[b].access.sid \in DOMAIN sessions /\ sessions \in Seq(SessionRecords)
      BY <2>2, Together, Home
    <3> QED BY <3>1, RecordTypes DEF Sub
  <2>4. "password" \in Methods \cup {"disguise"}
    BY DEF Methods
  <2>5. fresh \in SessionRecords /\ Told(fresh)
    BY <2>1, <2>3, <2>4, NewRecord
  <2> QED BY <2>2, <2>5, QuietAppend
<1>2. CASE EmailChange(b) \/ PasskeyAdd(b) \/ PasskeyDelete(b) \/ TwofaEnroll(b)
  <2>1. /\ sessions' = Rotate(jar[b], sessions) /\ wire' = wire
        /\ jar' = jar /\ crossed' = crossed /\ missed \subseteq missed'
    BY <1>2 DEF EmailChange, PasskeyAdd, PasskeyDelete, TwofaEnroll
  <2> QED BY <2>1, QuietRotate
<1> QED BY <1>1, <1>2

LEMMA OAuthSteps ==
  ASSUME Inv, NEW b \in Browsers, OAuthStart(b) \/ OAuthFailure(b)
  PROVE  Handles(b) /\ \E n : Sends(b, n)
<1>1. PICK held \in BOOLEAN : Answer(b, Verifier(held))
  <2>1. CASE OAuthStart(b)
    BY <2>1, Zenon DEF OAuthStart
  <2>2. CASE OAuthFailure(b)
    BY <2>2, Zenon DEF OAuthFailure
  <2> QED BY <2>1, <2>2
<1>2. sessions' = sessions /\ jar' = jar /\ crossed' = crossed /\ missed' = missed
  BY DEF OAuthStart, OAuthFailure
<1> QED BY <1>1, <1>2, VerifierSteps

LEMMA SignInSteps ==
  ASSUME Inv, NEW b \in Browsers, NEW u \in Users,
         Login(b, u) \/ PasskeyVerify(b, u) \/ OAuthCallback(b, u)
  PROVE  Handles(b) /\ (KeepsSilent(b) \/ \E n : Sends(b, n))
<1>1. PICK via \in Methods, cookies \in Extras : Ceremony(b, u, via, cookies)
  <2>1. Unchanged \in Extras /\ Verifier(FALSE) \in Extras
    BY Zenon DEF Extras
  <2>2. "password" \in Methods /\ "passkey" \in Methods /\ "oauth" \in Methods
    BY DEF Methods
  <2>3. CASE Login(b, u)
    BY <2>1, <2>2, <2>3, Zenon DEF Login
  <2>4. CASE PasskeyVerify(b, u)
    BY <2>1, <2>2, <2>4, Zenon DEF PasskeyVerify
  <2>5. CASE OAuthCallback(b, u)
    BY <2>1, <2>2, <2>5, Zenon DEF OAuthCallback
  <2> QED BY <2>3, <2>4, <2>5
<1> QED BY <1>1, CeremonySteps

\* A link's own sign-in.
LEMMA ConfirmSteps ==
  ASSUME Inv, NEW b \in Browsers, NEW u \in Users, Confirm(b, u) \/ ConfirmEmail(b, u)
  PROVE  Handles(b) /\ (KeepsSilent(b) \/ \E n : Sends(b, n))
<1>1. Unchanged \in Extras
  BY Zenon DEF Extras
<1>2. "email_link" \in Methods
  BY DEF Methods
<1>3. /\ BreakOff(u, "email_link") \/ HandOver(b, u, "email_link", Unchanged)
      /\ jar' = jar /\ crossed' = crossed /\ missed' = missed
  BY DEF Confirm, ConfirmEmail
<1>4. CASE BreakOff(u, "email_link")
  BY <1>2, <1>3, <1>4, BreakOffSteps
<1>5. CASE HandOver(b, u, "email_link", Unchanged)
  BY <1>1, <1>2, <1>3, <1>5, HandOverSteps
<1> QED BY <1>3, <1>4, <1>5

\* What browser b may ask for.
Handler(b) ==
  \/ Request(b) \/ OAuthStart(b) \/ OAuthFailure(b) \/ MfaVerify(b) \/ Logout(b)
  \/ EmailChange(b) \/ PasswordChange(b) \/ PasskeyAdd(b) \/ PasskeyDelete(b) \/ TwofaEnroll(b) \/ TwofaVerify(b)
  \/ StopImpersonation(b)
  \/ \E u \in Users :
       \/ Login(b, u) \/ PasskeyVerify(b, u) \/ OAuthCallback(b, u)
       \/ Confirm(b, u) \/ ConfirmEmail(b, u) \/ Impersonate(b, u)

LEMMA HandlerSteps ==
  ASSUME Inv, NEW b \in Browsers, Handler(b)
  PROVE  Handles(b) /\ (KeepsSilent(b) \/ \E n : Sends(b, n))
<1>1. CASE Request(b)
  BY <1>1, RequestSteps
<1>2. CASE OAuthStart(b) \/ OAuthFailure(b)
  BY <1>2, OAuthSteps
<1>3. CASE MfaVerify(b)
  BY <1>3, MfaVerifySteps
<1>4. CASE Logout(b)
  BY <1>4, LogoutSteps
<1>5. CASE EmailChange(b) \/ PasswordChange(b) \/ PasskeyAdd(b) \/ PasskeyDelete(b) \/ TwofaEnroll(b)
  BY <1>5, QuietSteps
<1>6. CASE TwofaVerify(b)
  BY <1>6, TwofaVerifySteps
<1>7. CASE StopImpersonation(b)
  BY <1>7, StopImpersonationSteps
<1>8. CASE \E u \in Users : Login(b, u) \/ PasskeyVerify(b, u) \/ OAuthCallback(b, u)
  BY <1>8, SignInSteps
<1>9. CASE \E u \in Users : Confirm(b, u) \/ ConfirmEmail(b, u)
  BY <1>9, ConfirmSteps
<1>10. CASE \E u \in Users : Impersonate(b, u)
  BY <1>10, ImpersonateSteps
<1> QED BY <1>1, <1>2, <1>3, <1>4, <1>5, <1>6, <1>7, <1>8, <1>9, <1>10, Zenon DEF Handler

----------------------------------------------------------------------------
(* The browser's side: an answer applied, or lost; time. *)

LEMMA FateOfView ==
  ASSUME NEW ss, NEW v, NEW j, Fate(ss, v, j), Paired(v), NEW D, v \in JarsOver(D)
  PROVE  Fate(ss, v, v)
<1>1. Ahead(v, v)
  <2> SUFFICES ASSUME v.refresh # None, NEW t \in RefreshIn(v), t.sid = v.refresh.sid
               PROVE  t.gen >= v.refresh.gen
    BY DEF Ahead
  <2>1. t = v.refresh
    BY DEF Fate, Distinct, Paired, RefreshIn
  <2>2. v.refresh.gen \in Nat
    BY DEF JarsOver
  <2> QED BY <2>1, <2>2
<1> QED BY <1>1 DEF Fate

\* What an answer becomes when another one reaches its browser.
Marked(n, b) == [to |-> n.to, cookies |-> n.cookies, late |-> n.late \/ n.to = b]

LEMMA MarkedIs ==
  ASSUME NEW n, NEW b, n.late \in BOOLEAN
  PROVE  /\ Marked(n, b).to = n.to /\ Marked(n, b).cookies = n.cookies
         /\ Marked(n, b).late \in BOOLEAN
         /\ Marked(n, b) = [to |-> n.to, cookies |-> n.cookies, late |-> Marked(n, b).late]
         /\ Marked(n, b).late <=> (n.late \/ n.to = b)
<1>1. PICK late \in BOOLEAN : late = (n.late \/ n.to = b)
  OBVIOUS
<1>2. Marked(n, b) = [to |-> n.to, cookies |-> n.cookies, late |-> late]
  BY <1>1, Zenon DEF Marked
<1>3. /\ Marked(n, b).to = n.to /\ Marked(n, b).cookies = n.cookies /\ Marked(n, b).late = late
  BY <1>2
<1>4. late <=> (n.late \/ n.to = b)
  BY <1>1, Zenon
<1> QED BY <1>2, <1>3, <1>4

LEMMA DeliverSteps ==
  ASSUME Inv, NEW m \in wire, Deliver(m)
  PROVE  /\ KeptInv' /\ OwnInv' /\ FateInv' /\ UseInv'
         /\ sessions' \in Seq(SessionRecords) /\ jar' \in [Browsers -> Jars'] /\ wire' \subseteq Answers'
         /\ \A n \in wire' : DOMAIN n.cookies \subseteq DOMAIN Empty /\ Over(n.cookies, Empty) \in Jars'
<1>1. PICK b : b = m.to
  OBVIOUS
<1>2. /\ b \in Browsers
      /\ \A n \in wire : /\ n.to \in Browsers /\ n.late \in BOOLEAN
                         /\ CookiesOK(DOMAIN sessions, n.cookies)
                         /\ n = [to |-> n.to, cookies |-> n.cookies, late |-> n.late]
      /\ \A x \in Browsers : jar[x] \in JarsOver(DOMAIN sessions)
      /\ jar \in [Browsers -> Jars]
  BY <1>1, Typed DEF Inv, TypeOK
<1>3. sessions' = sessions /\ missed' = missed
      /\ jar' = [jar EXCEPT ![b] = View(m)]
      /\ crossed \subseteq crossed' /\ (m.late => b \in crossed')
  <2>1. sessions' = sessions /\ missed' = missed /\ jar' = [jar EXCEPT ![m.to] = Over(m.cookies, @)]
    BY Zenon DEF Deliver
  <2>2. crossed' = IF m.late THEN crossed \cup {m.to} ELSE crossed
    BY Zenon DEF Deliver
  <2>3. Over(m.cookies, jar[b]) = View(m)
    BY <1>1 DEF View
  <2>4. jar' = [jar EXCEPT ![b] = View(m)]
    BY <1>1, <1>2, <2>1, <2>3
  <2> QED BY <1>1, <2>1, <2>2, <2>4
<1>19. wire' = {Marked(n, b) : n \in wire \ {m}}
  BY <1>1, Zenon DEF Deliver, Marked
<1>20. \A n \in wire :
        /\ Marked(n, b).to = n.to /\ Marked(n, b).cookies = n.cookies
        /\ Marked(n, b).late \in BOOLEAN
        /\ Marked(n, b) = [to |-> n.to, cookies |-> n.cookies, late |-> Marked(n, b).late]
        /\ Marked(n, b).late <=> (n.late \/ n.to = b)
  BY <1>2, MarkedIs
<1>4. /\ \A z \in wire' : \E n \in wire \ {m} :
           z.to = n.to /\ z.cookies = n.cookies /\ (~ z.late => ~ n.late /\ n.to # b)
      /\ \A n \in wire \ {m} : \E z \in wire' :
           z.to = n.to /\ z.cookies = n.cookies /\ (n.to # b => (z.late <=> n.late))
      /\ \A z \in wire' : z.late \in BOOLEAN /\ z = [to |-> z.to, cookies |-> z.cookies, late |-> z.late]
  <2>1. \A z \in wire' : \E n \in wire \ {m} : z = Marked(n, b)
    BY <1>19, Zenon
  <2>2. \A n \in wire \ {m} : Marked(n, b) \in wire'
    BY <1>19, Zenon
  <2>3. \A n \in wire \ {m} : \E z \in wire' :
           z.to = n.to /\ z.cookies = n.cookies /\ (n.to # b => (z.late <=> n.late))
    BY <1>20, <2>2, Zenon
  <2>4. \A z \in wire' : \E n \in wire \ {m} :
           z.to = n.to /\ z.cookies = n.cookies /\ (~ z.late => ~ n.late /\ n.to # b)
    BY <1>20, <2>1
  <2>5. \A z \in wire' : z.late \in BOOLEAN /\ z = [to |-> z.to, cookies |-> z.cookies, late |-> z.late]
    BY <1>20, <2>1
  <2> QED BY <2>3, <2>4, <2>5
<1>5. /\ View(m) \in JarsOver(DOMAIN sessions) /\ Kept(sessions, View(m)) /\ Paired(View(m))
      /\ Names(View(m)) \subseteq Names(jar[b]) \cup Names(Bare(m))
  BY <1>1, Views DEF Kept
<1>6. jar'[b] = View(m) /\ \A x \in Browsers : x # b => jar'[x] = jar[x]
  BY <1>2, <1>3
<1>7. KeptInv'
  <2>1. \A x \in Browsers : Kept(sessions', jar'[x])
    BY <1>3, <1>5, <1>6 DEF Inv, KeptInv
  <2>2. \A z \in wire' : Kept(sessions', Over(z.cookies, Empty)) /\ Whole(z.cookies)
    BY <1>3, <1>4 DEF Inv, KeptInv, Bare
  <2>3. \A s \in DOMAIN sessions' : Told(sessions'[s])
    BY <1>3 DEF Inv, KeptInv
  <2> QED BY <2>1, <2>2, <2>3 DEF KeptInv, Bare
<1>8. OwnInv'
  <2>1. OwnInv
    BY DEF Inv
  <2>2. \A z \in wire' : \E n \in wire : z.to = n.to /\ Over(z.cookies, Empty) = Bare(n)
    BY <1>4 DEF Bare
  <2>3. \A x \in Browsers : Names(jar'[x]) \subseteq Names(jar[x]) \cup (IF x = b THEN Names(Bare(m)) ELSE {})
    BY <1>5, <1>6
  <2>4. ASSUME NEW x \in Browsers, NEW y \in Browsers, x # y
        PROVE  /\ Names(jar'[x]) \cap Names(jar'[y]) = {}
               /\ \A z \in wire' : z.to = y => Names(jar'[x]) \cap Names(Over(z.cookies, Empty)) = {}
               /\ \A z, w \in wire' : z.to = x /\ w.to = y
                    => Names(Over(z.cookies, Empty)) \cap Names(Over(w.cookies, Empty)) = {}
    <3>1. /\ Names(jar[x]) \cap Names(jar[y]) = {}
          /\ \A n \in wire : n.to = y => Names(jar[x]) \cap Names(Bare(n)) = {}
          /\ \A n \in wire : n.to = x => Names(jar[y]) \cap Names(Bare(n)) = {}
          /\ \A n, k \in wire : n.to = x /\ k.to = y => Names(Bare(n)) \cap Names(Bare(k)) = {}
      BY <2>1, <2>4 DEF OwnInv
    <3>2. Names(jar'[x]) \cap Names(jar'[y]) = {}
      BY <1>1, <2>3, <2>4, <3>1
    <3>3. ASSUME NEW z \in wire', z.to = y  PROVE Names(jar'[x]) \cap Names(Over(z.cookies, Empty)) = {}
      <4>1. PICK n \in wire : n.to = y /\ Over(z.cookies, Empty) = Bare(n)
        BY <2>2, <3>3
      <4>2. Names(jar[x]) \cap Names(Bare(n)) = {}
        BY <3>1, <4>1
      <4>3. x = b => Names(Bare(m)) \cap Names(Bare(n)) = {}
        BY <1>1, <3>1, <4>1
      <4> QED BY <2>3, <4>1, <4>2, <4>3
    <3>4. \A z, w \in wire' : z.to = x /\ w.to = y
            => Names(Over(z.cookies, Empty)) \cap Names(Over(w.cookies, Empty)) = {}
      BY <2>2, <3>1
    <3> QED BY <3>2, <3>3, <3>4
  <2> QED BY <2>4 DEF OwnInv, Bare
<1>9. \A x \in Browsers \ crossed' : x # b => x \in Browsers \ crossed
  BY <1>3
<1>10. b \notin crossed' => b \notin crossed /\ ~ m.late
  BY <1>3
<1>11. FateInv'
  <2> SUFFICES ASSUME NEW x \in Browsers \ crossed'
               PROVE  /\ Fate(sessions, jar'[x], jar'[x])
                      /\ \A z \in wire' : z.to = x /\ ~ z.late
                           => Fate(sessions, Over(z.cookies, jar'[z.to]), jar'[x])
    BY <1>3 DEF FateInv, View
  <2>1. CASE x = b
    <3>1. Fate(sessions, View(m), jar[b])
      BY <1>1, <1>2, <1>10, <2>1 DEF Inv, FateInv
    <3>2. Fate(sessions, jar'[x], jar'[x])
      BY <1>5, <1>6, <2>1, <3>1, FateOfView
    <3>3. \A z \in wire' : z.to = x => z.late
      BY <1>4, <2>1
    <3> QED BY <3>2, <3>3
  <2>2. CASE x # b
    <3>1. /\ Fate(sessions, jar[x], jar[x])
          /\ \A n \in wire : n.to = x /\ ~ n.late => Fate(sessions, View(n), jar[x])
      BY <1>9, <2>2 DEF Inv, FateInv
    <3>2. jar'[x] = jar[x]
      BY <1>6, <2>2
    <3>3. ASSUME NEW z \in wire', z.to = x, ~ z.late
          PROVE  Fate(sessions, Over(z.cookies, jar'[z.to]), jar'[x])
      <4>1. PICK n \in wire : n.to = x /\ z.cookies = n.cookies /\ ~ n.late
        BY <1>4, <3>3
      <4>2. Fate(sessions, View(n), jar[x])
        BY <3>1, <4>1
      <4> QED BY <3>2, <3>3, <4>1, <4>2 DEF View
    <3> QED BY <3>1, <3>2, <3>3
  <2> QED BY <2>1, <2>2
<1>12. UseInv'
  <2> SUFFICES ASSUME NEW x \in Browsers \ (crossed' \cup missed')
               PROVE  /\ (\A z \in wire' : z.to # x) => Usable(sessions, jar'[x])
                      /\ \A z \in wire' : z.to = x /\ ~ z.late /\ (\A w \in wire' : w.to = x => w = z)
                           => Usable(sessions, Over(z.cookies, jar'[z.to]))
    BY <1>3 DEF UseInv, View, Unanswered, Sole
  <2>1. CASE x = b
    <3>1. b \in Browsers \ (crossed \cup missed) /\ ~ m.late
      BY <1>2, <1>3, <1>10, <2>1
    <3>2. ASSUME \A z \in wire' : z.to # x  PROVE Usable(sessions, jar'[x])
      <4>1. Sole(m)
        BY <1>1, <1>4, <2>1, <3>2 DEF Sole
      <4>2. Usable(sessions, View(m))
        BY <1>1, <3>1, <4>1 DEF Inv, UseInv
      <4> QED BY <1>6, <2>1, <4>2
    <3>3. \A z \in wire' : z.to = x => z.late
      BY <1>4, <2>1
    <3> QED BY <3>2, <3>3
  <2>2. CASE x # b
    <3>1. /\ Unanswered(x) => Usable(sessions, jar[x])
          /\ \A n \in wire : n.to = x /\ ~ n.late /\ Sole(n) => Usable(sessions, View(n))
      BY <1>3, <1>9, <2>2 DEF Inv, UseInv
    <3>2. jar'[x] = jar[x]
      BY <1>6, <2>2
    <3>3. (\A z \in wire' : z.to # x) => Unanswered(x)
      BY <1>1, <1>4, <2>2 DEF Unanswered
    <3>4. ASSUME NEW z \in wire', z.to = x, ~ z.late, \A w \in wire' : w.to = x => w = z
          PROVE  Usable(sessions, Over(z.cookies, jar'[z.to]))
      <4>1. PICK n \in wire : n.to = x /\ z.cookies = n.cookies /\ ~ n.late
        BY <1>4, <3>4
      <4>2. Sole(n)
        <5> SUFFICES ASSUME NEW k \in wire, k.to = x  PROVE k = n
          BY <4>1 DEF Sole
        <5>1. k # m
          BY <1>1, <2>2
        <5>2. PICK w \in wire' : w.to = x /\ w.cookies = k.cookies /\ (w.late <=> k.late)
          BY <1>4, <2>2, <5>1
        <5>3. w = z
          BY <3>4, <5>2
        <5>4. k.cookies = n.cookies /\ ~ k.late
          BY <3>4, <4>1, <5>2, <5>3
        <5>5. k.late = n.late
          BY <1>2, <4>1, <5>4, Zenon
        <5> QED BY <1>2, <4>1, <5>4, <5>5, Zenon
      <4>3. Usable(sessions, View(n))
        BY <3>1, <4>1, <4>2
      <4> QED BY <3>2, <3>4, <4>1, <4>3 DEF View
    <3> QED BY <3>1, <3>2, <3>3, <3>4
  <2> QED BY <2>1, <2>2
<1>13. Jars' = Jars /\ Jars = JarsOver(DOMAIN sessions)
  BY <1>3, JarsNow DEF Jars, AccessTokens, RefreshTokens, HandOffs
<1>14. sessions' \in Seq(SessionRecords)
  BY <1>3 DEF Inv, TypeOK
<1>15. jar' \in [Browsers -> Jars']
  BY <1>2, <1>3, <1>5, <1>13
<1>16. \A z \in wire' : z.to \in Browsers /\ CookiesOK(DOMAIN sessions, z.cookies)
  BY <1>2, <1>4
<1>17. wire' \subseteq Answers'
  BY <1>4, <1>16 DEF Answers
<1>18. \A n \in wire' : DOMAIN n.cookies \subseteq DOMAIN Empty /\ Over(n.cookies, Empty) \in Jars'
  BY <1>13, <1>16 DEF CookiesOK
<1> QED BY <1>7, <1>8, <1>11, <1>12, <1>14, <1>15, <1>17, <1>18

LEMMA LoseSteps ==
  ASSUME Inv, NEW m \in wire, Lose(m)
  PROVE  KeptInv' /\ OwnInv' /\ FateInv' /\ UseInv'
<1>1. /\ sessions' = sessions /\ jar' = jar /\ crossed' = crossed
      /\ wire' = wire \ {m} /\ missed' = missed \cup {m.to}
  BY DEF Lose
<1>2. KeptInv'
  BY <1>1 DEF Inv, KeptInv, Bare
<1>3. OwnInv'
  BY <1>1 DEF Inv, OwnInv, Bare
<1>4. FateInv'
  BY <1>1 DEF Inv, FateInv, View
<1>5. UseInv'
  <2> SUFFICES ASSUME NEW x \in Browsers \ (crossed \cup missed')
               PROVE  /\ (\A z \in wire' : z.to # x) => Usable(sessions, jar[x])
                      /\ \A z \in wire' : z.to = x /\ ~ z.late /\ (\A w \in wire' : w.to = x => w = z)
                           => Usable(sessions, Over(z.cookies, jar[z.to]))
    BY <1>1 DEF UseInv, View, Unanswered, Sole
  <2>1. x \in Browsers \ (crossed \cup missed) /\ m.to # x
    BY <1>1
  <2>2. /\ Unanswered(x) => Usable(sessions, jar[x])
        /\ \A n \in wire : n.to = x /\ ~ n.late /\ Sole(n) => Usable(sessions, View(n))
    BY <2>1 DEF Inv, UseInv
  <2>3. (\A z \in wire' : z.to # x) => Unanswered(x)
    BY <1>1, <2>1 DEF Unanswered
  <2>4. \A z \in wire' : z.to = x /\ (\A w \in wire' : w.to = x => w = z) => z \in wire /\ Sole(z)
    BY <1>1, <2>1 DEF Sole
  <2> QED BY <2>2, <2>3, <2>4 DEF View
<1> QED BY <1>2, <1>3, <1>4, <1>5

\* A tick drops whole pairs of cookies, the stash no earlier than the disguise beside it.
LEMMA ElapsedIs ==
  ASSUME NEW D, D \subseteq Nat, NEW j \in JarsOver(D), NEW v, v = Elapsed(j)
  PROVE  /\ v \in JarsOver(D)
         /\ v.mfa = None
         /\ \/ v.access = None /\ v.refresh = None
            \/ /\ v.refresh = j.refresh /\ v.ends = j.ends /\ ~ (j.ends <= now + 1)
               /\ j.access = None => v.access = None
               /\ j.access # None => v.access # None /\ v.access.sid = j.access.sid
         /\ \/ j.deadline <= now + 1 /\ v.stash = None /\ v.stashRefresh = None
            \/ /\ v.stashRefresh = j.stashRefresh /\ v.deadline = j.deadline
               /\ j.stash = None => v.stash = None
               /\ j.stash # None => v.stash # None /\ v.stash.sid = j.stash.sid
<1>1. PICK old, no : old \in BOOLEAN /\ old = TRUE /\ no \in BOOLEAN /\ no = FALSE
  OBVIOUS
<1>2. ASSUME NEW t \in AccessOver(D) \cup {None}, NEW z, z = Aged(t)
      PROVE  /\ z \in AccessOver(D) \cup {None}
             /\ t = None => z = None
             /\ t # None => z # None /\ z.sid = t.sid
  <2>1. CASE t = None
    BY <1>2, <2>1 DEF Aged
  <2>2. CASE t # None
    <3>1. z = [t EXCEPT !.old = old]
      BY <1>1, <1>2, <2>2, Zenon DEF Aged
    <3>2. z \in AccessOver(D) /\ z.sid = t.sid
      BY <1>1, <2>2, <3>1 DEF AccessOver
    <3>3. z \in [sid: Nat, aal: {1, 2}, old: BOOLEAN]
      BY <3>2 DEF AccessOver
    <3>4. z # None
      BY <3>3, SessionsAssumption
    <3> QED BY <2>2, <3>2, <3>4
  <2> QED BY <2>1, <2>2
<1>3. PICK a, s : a = Aged(j.access) /\ s = Aged(j.stash)
  OBVIOUS
<1>4. /\ j.access \in AccessOver(D) \cup {None} /\ j.stash \in AccessOver(D) \cup {None}
      /\ j.refresh \in RefreshOver(D) \cup {None} /\ j.stashRefresh \in RefreshOver(D) \cup {None}
      /\ j.ends \in Nat /\ j.deadline \in Nat
  BY DEF JarsOver, AccessOver, RefreshOver
<1>5. /\ a \in AccessOver(D) \cup {None} /\ s \in AccessOver(D) \cup {None}
      /\ j.access = None => a = None
      /\ j.access # None => a # None /\ a.sid = j.access.sid
      /\ j.stash = None => s = None
      /\ j.stash # None => s # None /\ s.sid = j.stash.sid
  BY <1>2, <1>3, <1>4
<1>6. PICK base : base = [j EXCEPT !.access = a, !.stash = s, !.mfa = None, !.verifier = no]
  OBVIOUS
<1>7. /\ base \in JarsOver(D)
      /\ base.access = a /\ base.refresh = j.refresh /\ base.ends = j.ends
      /\ base.stash = s /\ base.stashRefresh = j.stashRefresh /\ base.deadline = j.deadline
      /\ base.mfa = None
  BY <1>1, <1>5, <1>6 DEF JarsOver, AccessOver
<1>8. base = [j EXCEPT !.access = Aged(@), !.stash = Aged(@), !.mfa = None, !.verifier = FALSE]
  BY <1>1, <1>3, <1>6, Zenon
<1>9. PICK d, c : /\ d = (IF j.deadline <= now + 1 THEN DropStash ELSE Unchanged)
                  /\ c = (IF j.ends <= now + 1 THEN DropAuthCookies ELSE Unchanged)
  OBVIOUS
<1>10. v = Over(c, Over(d, base))
  BY <1>8, <1>9, Zenon DEF Elapsed
<1>11. PICK mid : mid = Over(d, base)
  OBVIOUS
<1>13. /\ mid \in JarsOver(D) /\ mid.mfa = None
       /\ mid.access = a /\ mid.refresh = j.refresh /\ mid.ends = j.ends
       /\ \/ j.deadline <= now + 1 /\ mid.stash = None /\ mid.stashRefresh = None
          \/ mid.stashRefresh = j.stashRefresh /\ mid.deadline = j.deadline /\ mid.stash = s
  <2>1. CASE j.deadline <= now + 1
    <3>1. d = [stash |-> None, stashRefresh |-> None, deadline |-> 0]
      BY <1>9, <2>1 DEF DropStash
    <3>2. base = [access |-> a, refresh |-> j.refresh, ends |-> j.ends, stash |-> s,
                  stashRefresh |-> j.stashRefresh, deadline |-> j.deadline, mfa |-> None, verifier |-> no]
      BY <1>6 DEF JarsOver
    <3>3. mid = [access |-> a, refresh |-> j.refresh, ends |-> j.ends, stash |-> None,
                 stashRefresh |-> None, deadline |-> 0, mfa |-> None, verifier |-> no]
      BY <1>11, <3>1, <3>2 DEF Over
    <3>4. mid \in JarsOver(D)
      BY <1>1, <1>4, <1>5, <3>3 DEF JarsOver, AccessOver, RefreshOver
    <3> QED BY <2>1, <3>3, <3>4
  <2>2. CASE ~ (j.deadline <= now + 1)
    <3>1. d = Unchanged
      BY <1>9, <2>2
    <3>2. mid = base
      BY <1>7, <1>11, <3>1 DEF Over, Unchanged, JarsOver
    <3> QED BY <1>7, <3>2
  <2> QED BY <2>1, <2>2
<1>15. /\ v \in JarsOver(D) /\ v.mfa = None
       /\ v.stash = mid.stash /\ v.stashRefresh = mid.stashRefresh /\ v.deadline = mid.deadline
       /\ \/ v.access = None /\ v.refresh = None
          \/ v.access = a /\ v.refresh = j.refresh /\ v.ends = j.ends /\ ~ (j.ends <= now + 1)
  <2>1. CASE j.ends <= now + 1
    <3>1. PICK x, y, e : x = None /\ y = None /\ e = 0
      OBVIOUS
    <3>2. c = SetAuthCookies(x, y, e) /\ e \in Nat
      BY <1>9, <2>1, <3>1 DEF DropAuthCookies
    <3>3. v = Over(c, mid)
      BY <1>10, <1>11
    <3>4. SetsAuth(D, c, mid, x, y, e) /\ KeepsStash(c, mid) /\ Over(c, mid).mfa = mid.mfa
      BY <1>13, <3>1, <3>2, AuthAnswer
    <3> QED BY <1>13, <3>1, <3>3, <3>4 DEF SetsAuth, KeepsStash
  <2>2. CASE ~ (j.ends <= now + 1)
    <3>1. c = Unchanged
      BY <1>9, <2>2
    <3>2. v = mid
      BY <1>10, <1>11, <1>13, <3>1 DEF Over, Unchanged, JarsOver
    <3> QED BY <1>13, <2>2, <3>2
  <2> QED BY <2>1, <2>2
<1> QED BY <1>5, <1>13, <1>15

LEMMA TickSteps ==
  ASSUME Inv, Tick
  PROVE  KeptInv' /\ OwnInv' /\ FateInv' /\ UseInv' /\ jar' \in [Browsers -> Jars']
<1>1. /\ sessions' = sessions /\ crossed' = crossed /\ wire' = {}
      /\ missed' = missed \cup {m.to : m \in wire}
      /\ jar' = [b \in Browsers |-> Elapsed(jar[b])]
  BY DEF Tick
<1>2. DOMAIN sessions \subseteq Nat /\ now \in Nat
  BY DEF Inv, TypeOK
<1>3. ASSUME NEW b \in Browsers
      PROVE  /\ jar'[b] \in JarsOver(DOMAIN sessions)
             /\ jar'[b].mfa = None
             /\ Kept(sessions, jar'[b])
             /\ Names(jar'[b]) \subseteq Names(jar[b])
             /\ RefreshIn(jar'[b]) \subseteq RefreshIn(jar[b])
             /\ Fate(sessions, jar[b], jar[b]) => Fate(sessions, jar'[b], jar'[b])
  <2>1. PICK j, v : j = jar[b] /\ v = jar'[b]
    OBVIOUS
  <2>2. v = Elapsed(j)
    BY <1>1, <2>1
  <2>3. j \in JarsOver(DOMAIN sessions) /\ Kept(sessions, j) /\ Paired(j)
    BY <2>1, Home
  <2>4. /\ v \in JarsOver(DOMAIN sessions)
        /\ v.mfa = None
        /\ \/ v.access = None /\ v.refresh = None
           \/ /\ v.refresh = j.refresh /\ v.ends = j.ends /\ ~ (j.ends <= now + 1)
              /\ j.access = None => v.access = None
              /\ j.access # None => v.access # None /\ v.access.sid = j.access.sid
        /\ \/ j.deadline <= now + 1 /\ v.stash = None /\ v.stashRefresh = None
           \/ /\ v.stashRefresh = j.stashRefresh /\ v.deadline = j.deadline
              /\ j.stash = None => v.stash = None
              /\ j.stash # None => v.stash # None /\ v.stash.sid = j.stash.sid
    BY <1>2, <2>2, <2>3, ElapsedIs
  <2>5. Paired(v)
    BY <2>3, <2>4 DEF Paired
  <2>6. Kept(sessions, v)
    <3>1. Handed(sessions, v)
      BY <2>3, <2>4 DEF Kept, Handed
    <3>2. Asked(sessions, v)
      BY <2>4 DEF Asked
    <3>3. Reached(sessions, v)
      BY <2>3, <2>4 DEF Kept, Reached, RefreshIn
    <3> QED BY <2>5, <3>1, <3>2, <3>3 DEF Kept
  <2>7. RefreshIn(v) \subseteq RefreshIn(j)
    BY <2>4 DEF RefreshIn
  <2>8. Names(v) \subseteq Names(j)
    BY <2>4 DEF Names
  <2>9. ASSUME Fate(sessions, j, j)  PROVE Fate(sessions, v, j)
    <3>1. Bounded(sessions, v)
      <4>1. Bounded(sessions, j)
        BY <2>9 DEF Fate
      <4>2. j.ends \in Nat /\ j.deadline \in Nat
        BY <2>3 DEF JarsOver
      <4>3. v.access # None => /\ j.access # None /\ v.access.sid = j.access.sid /\ v.ends = j.ends
                               /\ j.ends <= j.deadline => ~ (j.deadline <= now + 1)
        BY <1>2, <2>4, <4>2
      <4>4. v.stash # None => j.stash # None /\ v.stash.sid = j.stash.sid
        BY <2>4
      <4> QED BY <2>4, <4>1, <4>3, <4>4 DEF Bounded
    <3>2. Distinct(v)
      BY <2>4, <2>9 DEF Fate, Distinct
    <3>3. Ahead(v, j)
      BY <2>7, <2>9 DEF Fate, Ahead
    <3> QED BY <3>1, <3>2, <3>3 DEF Fate
  <2>10. Fate(sessions, j, j) => Fate(sessions, v, v)
    BY <2>4, <2>5, <2>9, FateOfView
  <2> QED BY <2>1, <2>4, <2>6, <2>7, <2>8, <2>10
<1>4. KeptInv'
  BY <1>1, <1>3 DEF Inv, KeptInv
<1>5. OwnInv'
  BY <1>1, <1>3 DEF Inv, OwnInv
<1>6. FateInv'
  BY <1>1, <1>3 DEF Inv, FateInv
<1>7. UseInv'
  <2> SUFFICES ASSUME NEW x \in Browsers \ (crossed \cup missed')
               PROVE  Usable(sessions, jar'[x])
    BY <1>1 DEF UseInv
  <2>1. x \in Browsers \ (crossed \cup missed) /\ Unanswered(x)
    BY <1>1 DEF Unanswered
  <2>2. Usable(sessions, jar[x])
    BY <2>1 DEF Inv, UseInv
  <2> QED BY <1>3, <2>2 DEF Usable
<1>8. Jars' = JarsOver(DOMAIN sessions)
  BY <1>1, JarsNow DEF Jars, AccessTokens, RefreshTokens, HandOffs
<1>9. jar' \in [Browsers -> Jars']
  BY <1>1, <1>3, <1>8
<1> QED BY <1>4, <1>5, <1>6, <1>7, <1>9

----------------------------------------------------------------------------
(* Every step. *)

AccountTypes ==
  [Users -> [status: {"absent", "awaiting", "confirmed"}, passkey: BOOLEAN,
             factor: {"none", "pending", "verified"}]]

LEMMA AccountChanges ==
  ASSUME NEW acc \in AccountTypes, NEW u, NEW w \in {"absent", "awaiting", "confirmed"},
         NEW has \in BOOLEAN, NEW f \in {"none", "pending", "verified"}
  PROVE  /\ [acc EXCEPT ![u].status = w] \in AccountTypes
         /\ [acc EXCEPT ![u].passkey = has] \in AccountTypes
         /\ [acc EXCEPT ![u].factor = f] \in AccountTypes
<1>1. CASE u \in Users
  <2>1. acc[u] \in [status: {"absent", "awaiting", "confirmed"}, passkey: BOOLEAN,
                    factor: {"none", "pending", "verified"}]
    BY <1>1 DEF AccountTypes
  <2> QED BY <1>1, <2>1 DEF AccountTypes
<1>2. CASE u \notin Users
  BY <1>2 DEF AccountTypes
<1> QED BY <1>1, <1>2

\* What a step makes of all that is neither a session, a jar nor an answer.
Settled == /\ now \in 0..MaxTime
           /\ twoFactor \in BOOLEAN
           /\ accounts \in AccountTypes
           /\ mail \subseteq [to: Users, type: Links]
           /\ crossed \cup missed \subseteq Browsers

LEMMA SettledNow ==
  ASSUME Inv  PROVE Settled
BY DEF Inv, TypeOK, Settled, AccountTypes

LEMMA LinkType ==
  ASSUME NEW u \in Users, NEW type \in Links
  PROVE  Link(u, type) \in [to: Users, type: Links]
BY DEF Link

LEMMA LinkTypes == {"signup", "email_change", "recovery"} \subseteq Links
BY DEF Links

LEMMA AccountSettled ==
  ASSUME Settled, NEW u \in Users,
         Register(u) \/ ResendConfirmation(u) \/ ForgotPassword(u) \/ ResetPassword(u)
  PROVE  Settled'
<1>1. /\ now' = now /\ twoFactor' = twoFactor /\ crossed' = crossed /\ missed' = missed
      /\ \/ accounts' = accounts
         \/ accounts' = [accounts EXCEPT ![u].status = "awaiting"]
         \/ accounts' = [accounts EXCEPT ![u].status = "confirmed"]
      /\ \/ mail' \subseteq mail
         \/ mail' = mail \cup {Link(u, "signup")}
         \/ mail' = mail \cup {Link(u, "recovery")}
  BY DEF Register, ResendConfirmation, ForgotPassword, ResetPassword, Follow
<1>2. accounts' \in AccountTypes
  BY <1>1, AccountChanges DEF Settled
<1>3. mail' \subseteq [to: Users, type: Links]
  BY <1>1, LinkType, LinkTypes DEF Settled
<1> QED BY <1>1, <1>2, <1>3 DEF Settled

\* What the handlers leave of it.
LEMMA SignInSettled ==
  ASSUME Settled, NEW b \in Browsers, NEW u \in Users,
         \/ Login(b, u) \/ PasskeyVerify(b, u) \/ OAuthCallback(b, u)
         \/ Confirm(b, u) \/ ConfirmEmail(b, u) \/ Impersonate(b, u)
  PROVE  Settled'
<1>1. CASE Login(b, u) \/ PasskeyVerify(b, u) \/ OAuthCallback(b, u)
  <2>1. /\ now' = now /\ twoFactor' = twoFactor /\ accounts' = accounts /\ mail' = mail
        /\ crossed' = crossed /\ missed' = missed
    BY <1>1 DEF Login, PasskeyVerify, OAuthCallback, Ceremony
  <2> QED BY <2>1 DEF Settled
<1>2. CASE Confirm(b, u)
  <2>1. /\ now' = now /\ twoFactor' = twoFactor /\ mail' \subseteq mail
        /\ accounts' = [accounts EXCEPT ![u].status = "confirmed"]
        /\ crossed' = crossed /\ missed' = missed
    BY <1>2 DEF Confirm, Follow
  <2> QED BY <2>1, AccountChanges DEF Settled
<1>3. CASE ConfirmEmail(b, u)
  <2>1. /\ now' = now /\ twoFactor' = twoFactor /\ mail' \subseteq mail /\ accounts' = accounts
        /\ crossed' = crossed /\ missed' = missed
    BY <1>3 DEF ConfirmEmail, Follow
  <2> QED BY <2>1 DEF Settled
<1>4. CASE Impersonate(b, u)
  <2>1. /\ now' = now /\ twoFactor' = twoFactor /\ accounts' = accounts /\ mail' = mail
        /\ crossed' = crossed /\ missed' = missed
    BY <1>4 DEF Impersonate
  <2> QED BY <2>1 DEF Settled
<1> QED BY <1>1, <1>2, <1>3, <1>4

LEMMA HandlerSettled ==
  ASSUME Inv, NEW b \in Browsers, Handler(b)
  PROVE  Settled'
<1> USE SettledNow
<1>1. CASE \/ Request(b) \/ OAuthStart(b) \/ OAuthFailure(b) \/ MfaVerify(b) \/ Logout(b)
           \/ PasswordChange(b) \/ StopImpersonation(b)
  <2>1. /\ now' = now /\ twoFactor' = twoFactor /\ accounts' = accounts /\ mail' = mail
        /\ crossed' = crossed /\ (missed' = missed \/ missed' = missed \cup ({b} \cap {m.to : m \in wire}))
    <3>1. CASE Request(b) \/ Logout(b) \/ PasswordChange(b) \/ StopImpersonation(b)
      BY <3>1 DEF Request, Logout, PasswordChange, StopImpersonation
    <3>2. CASE OAuthStart(b)
      BY <3>2, Zenon DEF OAuthStart
    <3>3. CASE OAuthFailure(b)
      BY <3>3, Zenon DEF OAuthFailure
    <3>4. CASE MfaVerify(b)
      BY <3>4, Zenon DEF MfaVerify
    <3> QED BY <1>1, <3>1, <3>2, <3>3, <3>4
  <2> QED BY <2>1 DEF Settled
<1>2. CASE EmailChange(b)
  <2>1. /\ now' = now /\ twoFactor' = twoFactor /\ accounts' = accounts
        /\ crossed' = crossed /\ missed' = missed /\ jar[b].access # None
        /\ mail' = mail \cup {Link(Sub(jar[b].access), "email_change")}
    BY <1>2 DEF EmailChange, Authenticated
  <2>2. Sub(jar[b].access) \in Users
    <3>1. jar[b].access.sid \in DOMAIN sessions /\ sessions \in Seq(SessionRecords)
      BY <2>1, Together, Home
    <3> QED BY <3>1, RecordTypes DEF Sub
  <2>3. mail' \subseteq [to: Users, type: Links]
    BY <2>1, <2>2, LinkType, LinkTypes DEF Settled
  <2> QED BY <2>1, <2>3 DEF Settled
<1>3. CASE PasskeyAdd(b) \/ PasskeyDelete(b)
  <2>1. /\ now' = now /\ twoFactor' = twoFactor /\ mail' = mail
        /\ crossed' = crossed /\ missed' = missed
    BY <1>3, Zenon DEF PasskeyAdd, PasskeyDelete
  <2>2. PICK has \in BOOLEAN : accounts' = [accounts EXCEPT ![Sub(jar[b].access)].passkey = has]
    BY <1>3, Zenon DEF PasskeyAdd, PasskeyDelete, SetPasskey
  <2>3. accounts' \in AccountTypes
    BY <2>2, AccountChanges DEF Settled
  <2> QED BY <2>1, <2>3 DEF Settled
<1>4. CASE TwofaEnroll(b)
  <2>1. /\ now' = now /\ twoFactor' = twoFactor /\ mail' = mail
        /\ crossed' = crossed /\ missed' = missed
        /\ accounts' = [accounts EXCEPT ![Sub(jar[b].access)].factor = "pending"]
    BY <1>4 DEF TwofaEnroll
  <2>2. accounts' \in AccountTypes
    BY <2>1, AccountChanges DEF Settled
  <2> QED BY <2>1, <2>2 DEF Settled
<1>5. CASE TwofaVerify(b)
  <2>1. /\ now' = now /\ twoFactor' = twoFactor /\ mail' = mail
        /\ crossed' = crossed /\ (missed' = missed \/ missed' = missed \cup {b})
        /\ accounts' = [accounts EXCEPT ![sessions[jar[b].access.sid].sub].factor = "verified"]
    BY <1>5, Zenon DEF TwofaVerify
  <2>2. accounts' \in AccountTypes
    BY <2>1, AccountChanges DEF Settled
  <2> QED BY <2>1, <2>2 DEF Settled
<1>6. CASE \E u \in Users : \/ Login(b, u) \/ PasskeyVerify(b, u) \/ OAuthCallback(b, u)
                            \/ Confirm(b, u) \/ ConfirmEmail(b, u) \/ Impersonate(b, u)
  BY <1>6, SignInSettled
<1> QED BY <1>1, <1>2, <1>3, <1>4, <1>5, <1>6, Zenon DEF Handler

\* A handler's answers and cookies name sessions that are open.
LEMMA HandlerTypes ==
  ASSUME Inv, NEW b \in Browsers, Handles(b), KeepsSilent(b) \/ \E n : Sends(b, n)
  PROVE  /\ sessions' \in Seq(SessionRecords) /\ jar' \in [Browsers -> Jars'] /\ wire' \subseteq Answers'
         /\ \A n \in wire' : DOMAIN n.cookies \subseteq DOMAIN Empty /\ Over(n.cookies, Empty) \in Jars'
<1>1. Jars' = JarsOver(DOMAIN sessions')
  BY JarsNow DEF Jars, JarsOver, AccessTokens, RefreshTokens, HandOffs
<1>2. /\ sessions' \in Seq(SessionRecords) /\ DOMAIN sessions \subseteq DOMAIN sessions' /\ jar' = jar
  BY DEF Handles, Evolve
<1>3. /\ jar \in [Browsers -> Jars] /\ Jars = JarsOver(DOMAIN sessions)
      /\ \A n \in wire : /\ n.to \in Browsers /\ n.late \in BOOLEAN
                         /\ CookiesOK(DOMAIN sessions, n.cookies)
                         /\ n = [to |-> n.to, cookies |-> n.cookies, late |-> n.late]
  BY JarsNow, Typed DEF Inv, TypeOK
<1>4. jar' \in [Browsers -> Jars']
  BY <1>1, <1>2, <1>3, JarsGrow
<1>5. ASSUME NEW n \in wire'
      PROVE  /\ n.to \in Browsers /\ n.late \in BOOLEAN
             /\ CookiesOK(DOMAIN sessions', n.cookies)
             /\ n = [to |-> n.to, cookies |-> n.cookies, late |-> n.late]
  <2>1. CASE n \in wire
    BY <1>2, <1>3, <2>1, CookiesGrow
  <2>2. CASE n \notin wire
    <3>1. PICK c : Sends(b, c) /\ n = Letter(b, c)
      BY <2>2 DEF Sends, KeepsSilent
    <3>2. n.to = b /\ n.cookies = c /\ n.late \in BOOLEAN
          /\ n = [to |-> n.to, cookies |-> n.cookies, late |-> n.late]
      BY <3>1 DEF Letter
    <3> QED BY <3>1, <3>2 DEF Sends
  <2> QED BY <2>1, <2>2
<1>6. wire' \subseteq Answers'
  BY <1>5 DEF Answers
<1>7. \A n \in wire' : DOMAIN n.cookies \subseteq DOMAIN Empty /\ Over(n.cookies, Empty) \in Jars'
  BY <1>1, <1>5 DEF CookiesOK
<1> QED BY <1>2, <1>4, <1>6, <1>7

LEMMA TypedNext ==
  ASSUME Settled',
         sessions' \in Seq(SessionRecords), jar' \in [Browsers -> Jars'], wire' \subseteq Answers',
         \A n \in wire' : DOMAIN n.cookies \subseteq DOMAIN Empty /\ Over(n.cookies, Empty) \in Jars'
  PROVE  TypeOK'
BY DEF Settled, TypeOK, AccountTypes

\* A step that touches no session, no jar and no answer.
LEMMA IdleSteps ==
  ASSUME Inv, Settled', UNCHANGED <<sessions, jar, wire, crossed, missed>>
  PROVE  Inv'
<1>1. Jars' = Jars /\ Answers' = Answers
  BY DEF Jars, AccessTokens, RefreshTokens, HandOffs, Answers
<1>2. TypeOK'
  BY <1>1 DEF Inv, TypeOK, Settled, AccountTypes
<1>3. KeptInv' /\ OwnInv' /\ FateInv' /\ UseInv'
  BY DEF Inv, KeptInv, OwnInv, FateInv, UseInv, Bare, View, Unanswered, Sole
<1> QED BY <1>2, <1>3 DEF Inv

LEMMA InvInit ==
  ASSUME Init  PROVE Inv
<1>1. /\ sessions = <<>> /\ jar = [b \in Browsers |-> Empty] /\ wire = {} /\ crossed = {} /\ missed = {}
      /\ now = 0 /\ twoFactor \in BOOLEAN /\ mail = {}
  BY DEF Init
<1>2. accounts \in AccountTypes
  BY DEF Init, AccountTypes
<1>3. Settled
  BY <1>1, <1>2, SessionsAssumption DEF Settled
<1>4. Empty \in JarsOver(DOMAIN sessions) /\ Jars = JarsOver(DOMAIN sessions)
  BY EmptyIsAJar, JarsNow
<1>5. sessions \in Seq(SessionRecords) /\ DOMAIN sessions = {}
  BY <1>1
<1>6. TypeOK
  BY <1>1, <1>3, <1>4, <1>5 DEF TypeOK, Settled, AccountTypes, Answers
<1>7. PICK e : e = Empty
  OBVIOUS
<1>8. e.access = None /\ e.refresh = None /\ e.stash = None /\ e.stashRefresh = None /\ e.mfa = None
  BY <1>7 DEF Empty
<1>9. \A b \in Browsers : jar[b] = e
  BY <1>1, <1>7
<1>10. Kept(sessions, e) /\ Names(e) = {} /\ RefreshIn(e) = {}
  BY <1>8 DEF Kept, Handed, Asked, Paired, Reached, RefreshIn, Names
<1>11. KeptInv
  BY <1>1, <1>5, <1>9, <1>10 DEF KeptInv
<1>12. OwnInv
  BY <1>1, <1>9, <1>10 DEF OwnInv
<1>13. Fate(sessions, e, e)
  BY <1>8 DEF Fate, Bounded, Distinct, Ahead
<1>14. FateInv
  BY <1>1, <1>9, <1>13 DEF FateInv
<1>15. UseInv
  BY <1>1, <1>9, <1>10 DEF UseInv, Usable
<1> QED BY <1>6, <1>11, <1>12, <1>14, <1>15 DEF Inv

LEMMA InvNext ==
  ASSUME Inv, [Next]_vars  PROVE Inv'
<1>1. CASE Tick
  <2>1. now \in 0..MaxTime /\ MaxTime \in Nat
    BY SettledNow, SessionsAssumption DEF Settled
  <2>2. /\ now' = now + 1 /\ now < MaxTime /\ twoFactor' = twoFactor /\ accounts' = accounts /\ mail' = mail
        /\ crossed' = crossed /\ missed' = missed \cup {m.to : m \in wire}
        /\ wire' = {} /\ sessions' = sessions
    BY <1>1 DEF Tick
  <2>3. \A m \in wire : m.to \in Browsers
    BY Typed DEF Inv
  <2>4. Settled'
    BY <2>1, <2>2, <2>3, SettledNow DEF Settled
  <2>5. sessions' \in Seq(SessionRecords)
    BY <2>2 DEF Inv, TypeOK
  <2>6. KeptInv' /\ OwnInv' /\ FateInv' /\ UseInv' /\ jar' \in [Browsers -> Jars']
    BY <1>1, TickSteps
  <2>7. TypeOK'
    BY <2>2, <2>4, <2>5, <2>6, TypedNext
  <2> QED BY <2>6, <2>7 DEF Inv
<1>2. CASE SetTwoFactor
  <2>1. /\ now' = now /\ twoFactor' \in BOOLEAN /\ accounts' = accounts /\ mail' = mail
        /\ UNCHANGED <<sessions, jar, wire, crossed, missed>>
    BY <1>2, Zenon DEF SetTwoFactor
  <2>2. Settled'
    BY <2>1, SettledNow DEF Settled
  <2> QED BY <2>1, <2>2, IdleSteps
<1>3. ASSUME NEW m \in wire, Deliver(m)  PROVE Inv'
  <2>1. /\ now' = now /\ twoFactor' = twoFactor /\ accounts' = accounts /\ mail' = mail
        /\ (crossed' = crossed \/ crossed' = crossed \cup {m.to}) /\ missed' = missed
    BY <1>3, Zenon DEF Deliver
  <2>2. m.to \in Browsers
    BY Typed DEF Inv
  <2>3. Settled'
    BY <2>1, <2>2, SettledNow DEF Settled
  <2>4. TypeOK'
    BY <1>3, <2>3, DeliverSteps, TypedNext
  <2> QED BY <1>3, <2>4, DeliverSteps DEF Inv
<1>4. ASSUME NEW m \in wire, Lose(m)  PROVE Inv'
  <2>1. /\ now' = now /\ twoFactor' = twoFactor /\ accounts' = accounts /\ mail' = mail
        /\ crossed' = crossed /\ missed' = missed \cup {m.to}
        /\ sessions' = sessions /\ jar' = jar /\ wire' = wire \ {m}
    BY <1>4 DEF Lose
  <2>2. m.to \in Browsers
    BY Typed DEF Inv
  <2>3. Settled'
    BY <2>1, <2>2, SettledNow DEF Settled
  <2>4. Jars' = Jars
    BY <2>1 DEF Jars, AccessTokens, RefreshTokens, HandOffs
  <2>5. wire' \subseteq Answers'
    <3>1. \A n \in wire' : /\ n.to \in Browsers /\ n.late \in BOOLEAN
                           /\ n = [to |-> n.to, cookies |-> n.cookies, late |-> n.late]
      BY <2>1, Typed DEF Inv
    <3> QED BY <3>1 DEF Answers
  <2>6. TypeOK'
    BY <2>1, <2>3, <2>4, <2>5, TypedNext DEF Inv, TypeOK
  <2> QED BY <1>4, <2>6, LoseSteps DEF Inv
<1>5. ASSUME NEW b \in Browsers, Handler(b)  PROVE Inv'
  <2>1. Handles(b) /\ (KeepsSilent(b) \/ \E n : Sends(b, n))
    BY <1>5, HandlerSteps
  <2>2. wire' = wire \/ \E n : Sends(b, n)
    BY <2>1 DEF KeepsSilent
  <2>3. KeptInv' /\ OwnInv' /\ FateInv' /\ UseInv'
    BY <2>1, <2>2, HandlesKept, HandlesOwned, HandlesFate, HandlesUsable
  <2>4. Settled'
    BY <1>5, HandlerSettled
  <2>5. TypeOK'
    BY <2>1, <2>4, HandlerTypes, TypedNext
  <2> QED BY <2>3, <2>5 DEF Inv
<1>6. ASSUME NEW u \in Users,
             Register(u) \/ ResendConfirmation(u) \/ ForgotPassword(u) \/ ResetPassword(u)
      PROVE  Inv'
  <2>1. UNCHANGED <<sessions, jar, wire, crossed, missed>>
    BY <1>6 DEF Register, ResendConfirmation, ForgotPassword, ResetPassword
  <2>2. Settled'
    BY <1>6, SettledNow, AccountSettled
  <2> QED BY <2>1, <2>2, IdleSteps
<1>7. CASE UNCHANGED vars
  <2>1. /\ now' = now /\ twoFactor' = twoFactor /\ accounts' = accounts /\ mail' = mail
        /\ UNCHANGED <<sessions, jar, wire, crossed, missed>>
    BY <1>7 DEF vars
  <2>2. Settled'
    BY <2>1, SettledNow DEF Settled
  <2> QED BY <2>1, <2>2, IdleSteps
<1> QED BY <1>1, <1>2, <1>3, <1>4, <1>5, <1>6, <1>7, Zenon DEF Next, Handler

\* The invariant.
LEMMA InvAlways == Spec => []Inv
BY InvInit, InvNext, PTL DEF Spec

\* Every cookie, in a jar or on its way to one, names a session GoTrue has opened, whatever the
\* handlers of apps/auth and the order in which the browser applies their answers.
THEOREM TypeCorrect == Spec => []TypeOK
<1>1. Inv => TypeOK
  BY DEF Inv
<1> QED BY <1>1, InvAlways, PTL

\* Signing in is one fact: no handler hands over a session that was told twice, with another
\* ceremony's method, or never (_complete_ceremony, mfa_verify), however the hand-off cookie, the
\* tabs and the commits that fail interleave.
THEOREM SigningInIsToldOnce == Spec => []SigningInIsOneFact
<1>1. Inv => SigningInIsOneFact
  <2> SUFFICES ASSUME Inv, NEW b \in Browsers, NEW s \in Held(jar[b])
               PROVE  IF sessions[s].via = "disguise" THEN sessions[s].told = <<>>
                      ELSE /\ sessions[s].told # <<>>
                           /\ Len(sessions[s].told) <= IF sessions[s].codes = 0 THEN 1 ELSE sessions[s].codes
                           /\ \A i \in DOMAIN sessions[s].told :
                                sessions[s].told[i] = SignedIn(sessions[s].via, sessions[s].codes > 0)
    BY Zenon DEF SigningInIsOneFact
  <2>1. jar[b] \in JarsOver(DOMAIN sessions) /\ Kept(sessions, jar[b])
        /\ \A q \in DOMAIN sessions : Told(sessions[q])
    BY Home
  <2>2. s \in DOMAIN sessions
    BY <2>1 DEF Held, JarsOver
  <2>3. Told(sessions[s])
    BY <2>1, <2>2
  <2>4. sessions[s].via # "disguise" => sessions[s].told # <<>>
    BY <2>1 DEF Held, Kept, Handed
  <2> QED BY <2>3, <2>4, Zenon DEF Told
<1> QED BY <1>1, InvAlways, PTL

\* A disguise carries its banner and its end: impersonate's deadline is the one the session's own
\* cookies keep through every renewal (set_auth_cookies with the remaining window), and the stash
\* beside it is the admin who put it on.
THEOREM DisguisesEnd == Spec => []DisguiseIsBounded
<1>1. Inv => DisguiseIsBounded
  <2> SUFFICES ASSUME Inv, NEW b \in Browsers \ crossed,
                      Disguised(jar[b]), Plain(jar[b]), ~ Covered(jar[b].access.sid)
               PROVE  /\ jar[b].ends <= sessions[jar[b].access.sid].window
                      /\ jar[b].stash # None
                      /\ jar[b].stash.sid = sessions[jar[b].access.sid].by
                      /\ sessions[jar[b].stash.sid].sub \in Admins
    BY DEF DisguiseIsBounded
  <2>1. Bounded(sessions, jar[b])
    BY DEF Inv, FateInv, Fate
  <2> QED BY <2>1 DEF Bounded, Disguised, Plain, Covered, Overlaid
<1> QED BY <1>1, InvAlways, PTL

\* However many requests renewed a session, and whatever answers were left behind by a handler that
\* returns a response of its own (get_current_user), the refresh token a browser is left with is one
\* GoTrue still takes.
THEOREM NobodyIsSignedOutByARace == Spec => []RefreshStaysUsable
<1>1. Inv => RefreshStaysUsable
  <2> SUFFICES ASSUME Inv, NEW b \in Browsers \ (crossed \cup missed \cup {m.to : m \in wire})
               PROVE  /\ jar[b].access # None /\ sessions[jar[b].access.sid].live
                           => Swappable(jar[b].refresh) /\ jar[b].refresh.sid = jar[b].access.sid
                      /\ jar[b].stash # None /\ sessions[jar[b].stash.sid].live
                           => Swappable(jar[b].stashRefresh) /\ jar[b].stashRefresh.sid = jar[b].stash.sid
    BY DEF RefreshStaysUsable
  <2>1. Unanswered(b)
    BY DEF Unanswered
  <2>2. Usable(sessions, jar[b])
    BY <2>1 DEF Inv, UseInv
  <2>3. Paired(jar[b])
    BY Home
  <2> QED BY <2>2, <2>3 DEF Usable, Takes, Paired, RefreshIn, Swappable
<1> QED BY <1>1, InvAlways, PTL
=============================================================================
