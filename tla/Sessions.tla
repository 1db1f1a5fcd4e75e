------------------------------ MODULE Sessions ------------------------------
(***************************************************************************)
(* Signing in and out, the second factor, impersonation: apps/auth and the *)
(* account-security handlers of apps/profile.                              *)
(*                                                                         *)
(* The process keeps no session.  A browser's cookies name one that GoTrue *)
(* keeps; each handler reads the cookies its request carried, calls GoTrue,*)
(* records a fact and answers with cookies to set or delete.  The answers  *)
(* of two tabs may be applied in any order, or never.  A handler is one    *)
(* step here: what it calls is atomic in GoTrue, and it commits before its *)
(* answer leaves (persistence/database.py), so a commit that fails sends   *)
(* no cookie, though GoTrue has done its part.                             *)
(***************************************************************************)
EXTENDS Naturals, Sequences, FiniteSets

CONSTANTS Users,        \* accounts, by their e-mail address
          Admins,       \* those whose token carries the admin role
          Browsers,     \* cookie jars
          None,         \* a cookie that is not there
          Window,       \* IMPERSONATION_MAX_SECONDS, in ticks
          MaxSessions, MaxWire, MaxTime,  \* bounds of a run
          MaxCodes      \* codes accepted for one session, a bound of a run

\* None is no token and no cookie.
ASSUME SessionsAssumption ==
  /\ Admins \subseteq Users
  /\ None \notin [sid: Nat, aal: {1, 2}, old: BOOLEAN]
  /\ None \notin [sid: Nat, gen: Nat]
  /\ None \notin [sid: Nat, method: STRING]
  /\ {Window, MaxSessions, MaxWire, MaxTime, MaxCodes} \subseteq Nat \ {0}

VARIABLES
  now,        \* in ticks; an access token is valid for the tick it was minted in
  twoFactor,  \* the live setting users.two_factor_enabled
  accounts,   \* GoTrue's accounts
  mail,       \* the links GoTrue has mailed and nobody has followed
  sessions,   \* GoTrue's sessions, by number, with the SignedIn facts about each
  jar,        \* each browser's cookies
  wire,       \* answers on their way
  crossed,    \* browsers that applied an answer older than their cookies
  missed      \* browsers whose answer was lost, or whose tokens a handler that failed had outdated

vars == <<now, twoFactor, accounts, mail, sessions, jar, wire, crossed, missed>>

Forever == MaxTime + 1
Methods == {"password", "oauth", "passkey", "email_link"}
Links == {"signup", "email_change", "recovery"}

Empty == [access |-> None, refresh |-> None, ends |-> 0,
          stash |-> None, stashRefresh |-> None, deadline |-> 0,
          mfa |-> None, verifier |-> FALSE]

Init ==
  /\ now = 0
  /\ twoFactor \in BOOLEAN
  /\ accounts \in [Users -> [status: {"absent", "confirmed"}, passkey: {FALSE},
                             factor: {"none", "verified"}]]
  /\ \A u \in Users : accounts[u].status = "absent" => accounts[u].factor = "none"
  /\ mail = {}
  /\ sessions = <<>>
  /\ jar = [b \in Browsers |-> Empty]
  /\ wire = {}
  /\ crossed = {}
  /\ missed = {}

----------------------------------------------------------------------------
(* Tokens, cookies and answers.                                            *)

Sub(t) == sessions[t.sid].sub

\* set_auth_cookies: both cookies of a session, for as long as the session or the window lasts.
SetAuthCookies(access, refresh, ends) ==
  [access |-> access, refresh |-> refresh, ends |-> ends]

Tokens(s, level, gen, ends) ==
  SetAuthCookies([sid |-> s, aal |-> level, old |-> FALSE], [sid |-> s, gen |-> gen], ends)

\* Cookies set over others: an answer's over the browser's, or two parts of an answer.
Over(c, d) == [f \in DOMAIN c \cup DOMAIN d |-> IF f \in DOMAIN c THEN c[f] ELSE d[f]]

DropAuthCookies == SetAuthCookies(None, None, 0)

DropStash == [stash |-> None, stashRefresh |-> None, deadline |-> 0]

Unchanged == [c \in {} |-> None]

Answer(b, cookies) ==
  /\ Cardinality(wire) < MaxWire
  /\ wire' = wire \cup {[to |-> b, cookies |-> cookies, late |-> FALSE]}

\* The browser applies an answer: those still on their way to it were computed from older cookies.
Deliver(m) ==
  /\ jar' = [jar EXCEPT ![m.to] = Over(m.cookies, @)]
  /\ wire' = {[to |-> n.to, cookies |-> n.cookies, late |-> n.late \/ n.to = m.to] : n \in wire \ {m}}
  /\ crossed' = IF m.late THEN crossed \cup {m.to} ELSE crossed
  /\ UNCHANGED <<now, twoFactor, accounts, mail, sessions, missed>>

Lose(m) ==
  /\ wire' = wire \ {m}
  /\ missed' = missed \cup {m.to}
  /\ UNCHANGED <<now, twoFactor, accounts, mail, sessions, jar, crossed>>

Aged(t) == IF t = None THEN None ELSE [t EXCEPT !.old = TRUE]

\* A tick outlives an access token, the five minutes of a hand-off cookie and any answer.
Elapsed(j) ==
  Over(IF j.ends <= now + 1 THEN DropAuthCookies ELSE Unchanged,
       Over(IF j.deadline <= now + 1 THEN DropStash ELSE Unchanged,
            [j EXCEPT !.access = Aged(@), !.stash = Aged(@), !.mfa = None, !.verifier = FALSE]))

Tick ==
  /\ now < MaxTime
  /\ now' = now + 1
  /\ jar' = [b \in Browsers |-> Elapsed(jar[b])]
  /\ wire' = {}
  /\ missed' = missed \cup {m.to : m \in wire}
  /\ UNCHANGED <<twoFactor, accounts, mail, sessions, crossed>>

----------------------------------------------------------------------------
(* Who is calling: get_current_user.                                       *)

\* GoTrue swaps a refresh token for the next one, and takes its predecessor again, for a client
\* that lost the answer.
Swappable(r) ==
  /\ r # None
  /\ sessions[r.sid].live
  /\ sessions[r.sid].gen - r.gen \in {0, 1}

\* mutant: the renewed session of a disguise gets the full session's time.
RemainingUncapped(j) == Forever

Remaining(j) == IF j.deadline = 0 THEN Forever ELSE j.deadline

Renews(j) == j.access # None /\ j.access.old /\ Remaining(j) > now /\ Swappable(j.refresh)

Renewed(j) ==
  Tokens(j.refresh.sid, sessions[j.refresh.sid].aal, j.refresh.gen + 1, Remaining(j))

Token(j) == IF Renews(j) THEN Renewed(j).access ELSE j.access

SecondFactorOwed(t) == twoFactor /\ t.aal = 1 /\ accounts[Sub(t)].factor = "verified"

ImpersonatedByAnAdmin(j) ==
  /\ j.stash # None
  /\ ~ j.stash.old
  /\ Sub(j.stash) \in Admins
  /\ ~ SecondFactorOwed(j.stash)

Authenticated(j) ==
  /\ j.access # None
  /\ j.access.old => Renews(j)
  /\ SecondFactorOwed(Token(j)) => ImpersonatedByAnAdmin(j)

\* What resolving the caller does to GoTrue's sessions.
Rotate(j, ss) ==
  IF Renews(j) THEN [ss EXCEPT ![j.refresh.sid].gen = j.refresh.gen + 1] ELSE ss

\* Any route.  The renewed cookies go with the answer of a handler that returns a model; one that
\* returns a response of its own leaves them behind, as a refusal does.
Request(b) ==
  /\ Renews(jar[b])
  /\ sessions' = Rotate(jar[b], sessions)
  /\ \/ Authenticated(jar[b]) /\ Answer(b, Renewed(jar[b]))
     \/ UNCHANGED wire
  /\ UNCHANGED <<now, twoFactor, accounts, mail, jar, crossed, missed>>

----------------------------------------------------------------------------
(* Signing in.                                                             *)

Opened(u, via) ==
  [sub |-> u, via |-> via, aal |-> 1, gen |-> 0, live |-> TRUE, codes |-> 0,
   window |-> Forever, by |-> 0, told |-> <<>>]

SignedIn(method, coded) == [method |-> method, two_factor |-> coded]

Tell(s, fact) == [s EXCEPT !.told = Append(@, fact)]

New == Len(sessions) + 1

Enrolled(u) == twoFactor /\ accounts[u].factor = "verified"

\* Hand the session of a passed ceremony over, with its one fact.
HandOver(b, u, method, cookies) ==
  /\ sessions' = Append(sessions, Tell(Opened(u, method), SignedIn(method, FALSE)))
  /\ Answer(b, Over(Tokens(New, 1, 0, Forever), cookies))

\* GoTrue has opened the session; a later call of the handler, or its commit, fails.
BreakOff(u, method) ==
  /\ sessions' = Append(sessions, Opened(u, method))
  /\ UNCHANGED wire

\* Hold the tokens in short-lived cookies and ask for the code.
MfaChallenge(b, u, method, cookies) ==
  /\ sessions' = Append(sessions, Opened(u, method))
  /\ Answer(b, Over([mfa |-> [sid |-> New, method |-> method]], cookies))

\* mutant: the fact is recorded before the second factor has its say.
CeremonyToldFirst(b, u, method, cookies) ==
  /\ New <= MaxSessions
  /\ accounts[u].status = "confirmed"
  /\ sessions' = Append(sessions, Tell(Opened(u, method), SignedIn(method, FALSE)))
  /\ \/ UNCHANGED wire
     \/ Enrolled(u) /\ Answer(b, Over([mfa |-> [sid |-> New, method |-> method]], cookies))
     \/ ~ Enrolled(u) /\ Answer(b, Over(Tokens(New, 1, 0, Forever), cookies))
  /\ UNCHANGED <<now, twoFactor, accounts, mail, jar, crossed, missed>>

Ceremony(b, u, method, cookies) ==
  /\ New <= MaxSessions
  /\ accounts[u].status = "confirmed"
  /\ \/ BreakOff(u, method)
     \/ Enrolled(u) /\ MfaChallenge(b, u, method, cookies)
     \/ ~ Enrolled(u) /\ HandOver(b, u, method, cookies)
  /\ UNCHANGED <<now, twoFactor, accounts, mail, jar, crossed, missed>>

Login(b, u) == Ceremony(b, u, "password", Unchanged)

HasPasskey(u) == accounts[u].passkey

PasskeyVerify(b, u) == HasPasskey(u) /\ Ceremony(b, u, "passkey", Unchanged)

\* The PKCE verifier waits in a cookie for the provider's code.
Verifier(held) == [verifier |-> held]

OAuthStart(b) ==
  /\ ~ jar[b].verifier
  /\ Answer(b, Verifier(TRUE))
  /\ UNCHANGED <<now, twoFactor, accounts, mail, sessions, jar, crossed, missed>>

Exchangeable(j) == j.verifier

OAuthCallback(b, u) ==
  /\ Exchangeable(jar[b])
  /\ Ceremony(b, u, "oauth", Verifier(FALSE))

OAuthFailure(b) ==
  /\ jar[b].verifier
  /\ Answer(b, Verifier(FALSE))
  /\ UNCHANGED <<now, twoFactor, accounts, mail, sessions, jar, crossed, missed>>

RelayedMethod(j) == j.mfa.method

Proved(s) == [s EXCEPT !.aal = 2, !.gen = @ + 1]

\* The code is right.  GoTrue raises the session to aal2 and swaps its tokens; a code sent again
\* after a lost answer is a second sign-in of the same session.
MfaVerify(b) ==
  /\ jar[b].mfa # None
  /\ LET s == jar[b].mfa.sid
         proved == [Proved(sessions[s]) EXCEPT !.codes = @ + 1]
     IN /\ proved.codes <= MaxCodes
        /\ proved.live
        /\ \/ /\ sessions' = [sessions EXCEPT ![s] =
                                Tell(proved, SignedIn(RelayedMethod(jar[b]), TRUE))]
              /\ Answer(b, Over(Tokens(s, 2, proved.gen, Forever), [mfa |-> None]))
              /\ UNCHANGED missed
           \/ /\ sessions' = [sessions EXCEPT ![s] = proved]
              /\ missed' = missed \cup ({b} \cap {m.to : m \in wire})
              /\ UNCHANGED wire
  /\ UNCHANGED <<now, twoFactor, accounts, mail, jar, crossed>>

\* GoTrue revokes every session of the caller, unless the token it is shown has expired.
RevokedBy(t) ==
  IF t = None \/ t.old THEN {} ELSE {s \in DOMAIN sessions : sessions[s].sub = Sub(t)}

\* The stash and its deadline stay.
Logout(b) ==
  /\ sessions' = [s \in DOMAIN sessions |->
       IF s \in RevokedBy(jar[b].access) THEN [sessions[s] EXCEPT !.live = FALSE] ELSE sessions[s]]
  /\ Answer(b, DropAuthCookies)
  /\ UNCHANGED <<now, twoFactor, accounts, mail, jar, crossed, missed>>

----------------------------------------------------------------------------
(* Accounts and mailed links.                                              *)

Link(u, type) == [to |-> u, type |-> type]

\* A link is a credential used once.
Follow(link) == link \in mail /\ mail' = mail \ {link}

Register(u) ==
  /\ accounts[u].status = "absent"
  /\ accounts' = [accounts EXCEPT ![u].status = "awaiting"]
  /\ mail' = mail \cup {Link(u, "signup")}
  /\ UNCHANGED <<now, twoFactor, sessions, jar, wire, crossed, missed>>

\* GoTrue is asked whatever the address; it mails an account still awaiting its confirmation.
ResendConfirmation(u) ==
  /\ accounts[u].status = "awaiting"
  /\ mail' = mail \cup {Link(u, "signup")}
  /\ UNCHANGED <<now, twoFactor, accounts, sessions, jar, wire, crossed, missed>>

ForgotPassword(u) ==
  /\ accounts[u].status # "absent"
  /\ mail' = mail \cup {Link(u, "recovery")}
  /\ UNCHANGED <<now, twoFactor, accounts, sessions, jar, wire, crossed, missed>>

EmailChange(b) ==
  /\ Authenticated(jar[b])
  /\ sessions' = Rotate(jar[b], sessions)
  /\ mail' = mail \cup {Link(Sub(jar[b].access), "email_change")}
  /\ UNCHANGED <<now, twoFactor, accounts, jar, wire, crossed, missed>>

\* The current password is checked by signing in with it, a session that no browser is given, and
\* the new one set with the token the request carried: an expired one is refused, after the check.
PasswordChange(b) ==
  /\ New <= MaxSessions
  /\ Authenticated(jar[b])
  /\ sessions' = Append(Rotate(jar[b], sessions), Opened(Sub(jar[b].access), "password"))
  /\ UNCHANGED <<now, twoFactor, accounts, mail, jar, wire, crossed, missed>>

\* A confirmed sign-up is the account's first sign-in.
Confirm(b, u) ==
  /\ New <= MaxSessions
  /\ Follow(Link(u, "signup"))
  /\ accounts' = [accounts EXCEPT ![u].status = "confirmed"]
  /\ BreakOff(u, "email_link") \/ HandOver(b, u, "email_link", Unchanged)
  /\ UNCHANGED <<now, twoFactor, jar, crossed, missed>>

\* An enrolled account has its address changed, and signs in with its code afterwards.
ConfirmEmail(b, u) ==
  /\ New <= MaxSessions
  /\ Follow(Link(u, "email_change"))
  /\ \/ BreakOff(u, "email_link")
     \/ ~ Enrolled(u) /\ HandOver(b, u, "email_link", Unchanged)
  /\ UNCHANGED <<now, twoFactor, accounts, jar, crossed, missed>>

\* The recovery session sets the password and is dropped.
ResetPassword(u) ==
  /\ Follow(Link(u, "recovery"))
  /\ accounts' = [accounts EXCEPT ![u].status = "confirmed"]
  /\ UNCHANGED <<now, twoFactor, sessions, jar, wire, crossed, missed>>

SetTwoFactor ==
  /\ twoFactor' = ~ twoFactor
  /\ UNCHANGED <<now, accounts, mail, sessions, jar, wire, crossed, missed>>

----------------------------------------------------------------------------
(* Account security, from the profile page.                                *)

SetPasskey(u, has) == accounts' = [accounts EXCEPT ![u].passkey = has]

PasskeyAdd(b) ==
  /\ Authenticated(jar[b])
  /\ sessions' = Rotate(jar[b], sessions)
  /\ SetPasskey(Sub(jar[b].access), TRUE)
  /\ UNCHANGED <<now, twoFactor, mail, jar, wire, crossed, missed>>

PasskeyDelete(b) ==
  /\ Authenticated(jar[b])
  /\ HasPasskey(Sub(jar[b].access))
  /\ sessions' = Rotate(jar[b], sessions)
  /\ SetPasskey(Sub(jar[b].access), FALSE)
  /\ UNCHANGED <<now, twoFactor, mail, jar, wire, crossed, missed>>

TwofaEnroll(b) ==
  /\ twoFactor
  /\ Authenticated(jar[b])
  /\ accounts[Sub(jar[b].access)].factor = "none"
  /\ sessions' = Rotate(jar[b], sessions)
  /\ accounts' = [accounts EXCEPT ![Sub(jar[b].access)].factor = "pending"]
  /\ UNCHANGED <<now, twoFactor, mail, jar, wire, crossed, missed>>

\* Once enrolled, aal1 is refused: the browser gets the aal2 tokens the code earned.
TwofaVerify(b) ==
  /\ twoFactor
  /\ Authenticated(jar[b])
  /\ accounts[Sub(jar[b].access)].factor = "pending"
  /\ LET s == jar[b].access.sid
         rotated == Rotate(jar[b], sessions)
     IN /\ rotated[s].live
        /\ sessions' = [rotated EXCEPT ![s] = Proved(@)]
        /\ accounts' = [accounts EXCEPT ![sessions[s].sub].factor = "verified"]
        /\ \/ Answer(b, Tokens(s, 2, rotated[s].gen + 1, Forever)) /\ UNCHANGED missed
           \/ missed' = missed \cup {b} /\ UNCHANGED wire
  /\ UNCHANGED <<now, twoFactor, mail, jar, crossed>>

----------------------------------------------------------------------------
(* Impersonation.                                                          *)

Disguise(u, by, until) == [Opened(u, "disguise") EXCEPT !.window = until, !.by = by]

Stash(j, until) == [stash |-> j.access, stashRefresh |-> j.refresh, deadline |-> until]

\* mutant: the disguise's refresh token stays beside the admin's access token.
GivenBackMixed(j) == SetAuthCookies(j.stash, j.refresh, Forever)

GivenBack(j) == SetAuthCookies(j.stash, j.stashRefresh, Forever)

\* The admin's cookies, as the request carried them, are stashed; the target's session takes their
\* place; all expire together.
Impersonate(b, u) ==
  /\ New <= MaxSessions
  /\ Authenticated(jar[b])
  /\ Sub(jar[b].access) \in Admins \ {u}
  /\ accounts[u].status = "confirmed"
  /\ LET until == now + Window
     IN /\ sessions' = Append(Rotate(jar[b], sessions), Disguise(u, jar[b].access.sid, until))
        /\ \/ Answer(b, Over(Tokens(New, 1, 0, until), Stash(jar[b], until)))
           \/ UNCHANGED wire
  /\ UNCHANGED <<now, twoFactor, accounts, mail, jar, crossed, missed>>

StopImpersonation(b) ==
  /\ Authenticated(jar[b])
  /\ jar[b].stash # None
  /\ sessions' = Rotate(jar[b], sessions)
  /\ Answer(b, Over(GivenBack(jar[b]), DropStash))
  /\ UNCHANGED <<now, twoFactor, accounts, mail, jar, crossed, missed>>

----------------------------------------------------------------------------
Next ==
  \/ Tick
  \/ SetTwoFactor
  \/ \E m \in wire : Deliver(m) \/ Lose(m)
  \/ \E b \in Browsers :
       \/ Request(b) \/ OAuthStart(b) \/ OAuthFailure(b) \/ MfaVerify(b) \/ Logout(b)
       \/ EmailChange(b) \/ PasswordChange(b) \/ PasskeyAdd(b) \/ PasskeyDelete(b) \/ TwofaEnroll(b) \/ TwofaVerify(b)
       \/ StopImpersonation(b)
       \/ \E u \in Users :
            \/ Login(b, u) \/ PasskeyVerify(b, u) \/ OAuthCallback(b, u)
            \/ Confirm(b, u) \/ ConfirmEmail(b, u) \/ Impersonate(b, u)
  \/ \E u \in Users :
       Register(u) \/ ResendConfirmation(u) \/ ForgotPassword(u) \/ ResetPassword(u)

Spec == Init /\ [][Next]_vars

----------------------------------------------------------------------------
(* Properties.                                                             *)

AccessTokens == [sid: DOMAIN sessions, aal: {1, 2}, old: BOOLEAN]
RefreshTokens == [sid: DOMAIN sessions, gen: Nat]
HandOffs == [sid: DOMAIN sessions, method: Methods]

Jars == [access: AccessTokens \cup {None}, refresh: RefreshTokens \cup {None}, ends: Nat,
         stash: AccessTokens \cup {None}, stashRefresh: RefreshTokens \cup {None},
         deadline: Nat, mfa: HandOffs \cup {None}, verifier: BOOLEAN]

Answers == [to: Browsers, cookies: {m.cookies : m \in wire}, late: BOOLEAN]

SessionRecords ==
  [sub: Users, via: Methods \cup {"disguise"}, aal: {1, 2}, gen: Nat, live: BOOLEAN,
   codes: 0..MaxCodes, window: Nat, by: Nat, told: Seq([method: Methods, two_factor: BOOLEAN])]

\* Type invariant: every cookie names a session GoTrue has opened.
TypeOK ==
  /\ now \in 0..MaxTime
  /\ twoFactor \in BOOLEAN
  /\ accounts \in [Users -> [status: {"absent", "awaiting", "confirmed"}, passkey: BOOLEAN,
                             factor: {"none", "pending", "verified"}]]
  /\ mail \subseteq [to: Users, type: Links]
  /\ sessions \in Seq(SessionRecords)
  /\ jar \in [Browsers -> Jars]
  /\ wire \subseteq Answers
  /\ \A m \in wire : DOMAIN m.cookies \subseteq DOMAIN Empty /\ Over(m.cookies, Empty) \in Jars
  /\ crossed \cup missed \subseteq Browsers

Held(j) == {t.sid : t \in {j.access, j.stash} \ {None}}

\* Signing in is one fact (SignedIn, "a session was delivered"): a session in a browser, unless it
\* is a disguise, was told with the method that opened it, once, or once per code accepted.
SigningInIsOneFact ==
  \A b \in Browsers : \A s \in Held(jar[b]) :
    LET it == sessions[s] IN
      IF it.via = "disguise" THEN it.told = <<>>
      ELSE /\ it.told # <<>>
           /\ Len(it.told) <= IF it.codes = 0 THEN 1 ELSE it.codes
           /\ \A i \in DOMAIN it.told : it.told[i] = SignedIn(it.via, it.codes > 0)

Disguised(j) == j.access # None /\ sessions[j.access.sid].via = "disguise"

Plain(j) == sessions[j.access.sid].aal = 1

\* Another disguise was put on over this session: an admin's, or a disguise as an admin.
Covered(s) == \E t \in DOMAIN sessions : sessions[t].via = "disguise" /\ sessions[t].by = s

\* A disguise is marked and ends.  The stash beside it, which shows the banner and is what stopping
\* gives back, is the very session that put it on; and the cookies go when the window closes (a
\* refresh must not extend it).  But for a browser that applied an answer late, a disguise that
\* enrolled an authenticator (Plain is FALSE), and one that another disguise covered: stopping that
\* one gives it back as it would a sign-in, without an end or a stash.
DisguiseIsBounded ==
  \A b \in Browsers \ crossed : Disguised(jar[b]) /\ Plain(jar[b]) /\ ~ Covered(jar[b].access.sid) =>
    /\ jar[b].ends <= sessions[jar[b].access.sid].window
    /\ jar[b].stash # None
    /\ jar[b].stash.sid = sessions[jar[b].access.sid].by
    /\ sessions[jar[b].stash.sid].sub \in Admins

\* Nobody is signed out by a race: the refresh token a browser holds beside a live session is one
\* GoTrue still takes, however many requests renewed it and whatever answers were left behind.
RefreshStaysUsable ==
  \A b \in Browsers \ (crossed \cup missed \cup {m.to : m \in wire}) :
    LET j == jar[b] IN
      /\ j.access # None /\ sessions[j.access.sid].live
           => Swappable(j.refresh) /\ j.refresh.sid = j.access.sid
      /\ j.stash # None /\ sessions[j.stash.sid].live
           => Swappable(j.stashRefresh) /\ j.stashRefresh.sid = j.stash.sid
=============================================================================
