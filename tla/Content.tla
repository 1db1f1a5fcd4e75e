------------------------------ MODULE Content ------------------------------
(***************************************************************************)
(* What the members of an organization edit: to-dos, pages and their       *)
(* navigation, calendar events, API keys, review cards, and the handles of *)
(* profiles and organizations.  Each request reads rows, decides, then     *)
(* writes what it changed: an UPDATE or a DELETE is refused when its row   *)
(* moved meanwhile, a row it left alone is not looked at again.  The facts *)
(* it tells are committed with the rows.                                   *)
(***************************************************************************)
EXTENDS Naturals, FiniteSets

CONSTANTS Requests, Items, Handles, Reserved, Limit, DailyLimit, MaxOwned, MaxWrites, MaxDay,
  Seeded,    \* the item the welcome content creates, in each list
  Scopes,    \* the kinds that the requests of one behaviour are about
  Belongs,   \* pairs of a user, named by their profile, and an organization they are in when it stands
  Founder,   \* of each organization, the user who makes it and owns it
  Rank,      \* an order of the items: that of the lists standing at first, that of the decks
  Day,       \* the dates, by their number
  NoRow      \* no such row, no handle, no fact, or a request not in flight

Tables == {"todo", "page", "nav", "event", "key", "card", "deck", "profile", "organization"}
Ids == Tables \X Items
Visibilities == {"draft", "members", "public"}

Values == {"open", "done", "shown", "set", "live", "revoked", "subscribed"}
            \cup Visibilities \cup Handles \cup {Day[n] : n \in 0..MaxDay}
TableRow == [place: Nat, value: Values \cup {NoRow}, version: Nat]
FactsTold == {"created", "ended", "open", "done"} \cup Visibilities
RequestState == [kind: Tables, item: Items, seen: [Items -> TableRow \cup {NoRow}],
            plan: [Items -> TableRow \cup {NoRow}], fact: FactsTold \cup {NoRow},
            claims: SUBSET ({"todo", "late", "nav", "card"} \cup Handles \cup Items), above: Items \cup {NoRow}]

ASSUME ContentAssumption ==
  /\ IsFiniteSet(Items) /\ IsFiniteSet(Requests)
  /\ Seeded \in Items /\ Reserved \subseteq Handles
  /\ Rank \in [Items -> Nat] /\ \A i, j \in Items : Rank[i] = Rank[j] => i = j
  /\ Founder \in [Items -> Items] /\ \A i \in Items : <<Founder[i], i>> \in Belongs
  /\ Belongs \subseteq Items \X Items
  /\ {Limit, DailyLimit, MaxOwned, MaxWrites, MaxDay} \subseteq Nat /\ \A m, n \in 0..MaxDay : Day[m] = Day[n] => m = n
  /\ NoRow \notin Nat \cup Items \cup Values \cup FactsTold \cup TableRow \cup RequestState

VARIABLES
  rows,         \* by kind and item; place is a position, the level of a card, the position in the
                \* navigation of a page made with it, or 1 for a personal organization
  request,      \* what each request in flight read and would leave
  counted,      \* how many tasks a request counted that has yet to read the list it adds to
  told,         \* what the journal says of each row
  overlapped,   \* claims that two requests made at once
  unseen,       \* handles found free by a caller who is not shown their holder
  today,
  scope,        \* one of Scopes
  writes        \* writes so far: the version of a row is the write that left it

contentVars == <<rows, request, counted, told, overlapped, unseen, today, scope, writes>>

Journaled == {"todo", "page", "event", "key"} \X Items
Fresh(place, value) == [place |-> place, value |-> value, version |-> 0]

Untold == [created |-> 0, ended |-> 0, says |-> NoRow, echo |-> FALSE]

\* Nothing yet but profiles, or lists of tasks and of public pages, all in the navigation: those
\* of the welcome content, or one of every item.
Standing(id, standing) ==
  LET place == Cardinality({j \in standing : Rank[j] < Rank[id[2]]})
  IN CASE id[1] = "todo" -> Fresh(place, "open")
       [] id[1] = "page" -> Fresh(0, "public")
       [] id[1] = "nav"  -> Fresh(place + 1, "shown")
       [] OTHER          -> NoRow

ContentInit ==
  /\ scope \in Scopes
  /\ \E standing \in {{}, {Seeded}, Items} :
       /\ rows = [id \in Ids |-> IF id[1] = "profile" THEN Fresh(0, NoRow)
                                ELSE IF id[2] \in standing /\ id[1] \in scope THEN Standing(id, standing) ELSE NoRow]
       /\ told = [id \in Journaled |-> IF rows[id] # NoRow
                                THEN [Untold EXCEPT !.created = 1, !.says = rows[id].value] ELSE Untold]
  /\ request = [r \in Requests |-> NoRow]
  /\ counted = [r \in Requests |-> NoRow]
  /\ overlapped = {}
  /\ unseen = {}
  /\ today = 0
  /\ writes = 0

----------------------------------------------------------------------------
List(kind) == [i \in Items |-> rows[<<kind, i>>]]
Existing(list) == {i \in Items : list[i] # NoRow}

\* A new id: rows and facts know nothing of it, nor does a request.
New(kind, i) ==
  /\ rows[<<kind, i>>] = NoRow /\ told[<<kind, i>>].created = 0 /\ told[<<kind, i>>].ended = 0
  /\ \A r \in Requests : request[r] # NoRow => ~ (request[r].kind = kind /\ request[r].item = i)

Unused(kind, i) == i # Seeded /\ New(kind, i)

\* A request that adds to the navigation, and one that rearranges it.
JoinsNav(q) == "nav" \in q.claims
MovesNav(q) == q.kind = "nav" /\ q.claims = {} /\ q.plan[q.item] # NoRow

\* What two requests should not both be at.
Crossed(q, s) ==
  (q.claims \cap s.claims) \cup IF (JoinsNav(q) /\ MovesNav(s)) \/ (MovesNav(q) /\ JoinsNav(s)) THEN {"nav"} ELSE {}

\* A request has read, and knows what it would leave: `plan' is the list as it makes it.  One that
\* only counted the tasks, then opens as another, was given up meanwhile.
Begin(r, kind, i, plan, fact, claims, above) ==
  LET q == [kind |-> kind, item |-> i, seen |-> List(kind), plan |-> plan, fact |-> fact, claims |-> claims,
            above |-> above]
  IN /\ request[r] = NoRow /\ kind \in scope /\ writes < MaxWrites
     /\ request' = [request EXCEPT ![r] = q]
     /\ counted' = [counted EXCEPT ![r] = NoRow]
     /\ overlapped' = overlapped \cup UNION {Crossed(q, request[s]) : s \in {t \in Requests : request[t] # NoRow}}
     /\ UNCHANGED <<rows, told, today, scope, writes>>

Edit(r, kind, i, row, fact) ==
  Begin(r, kind, i, [List(kind) EXCEPT ![i] = row], fact, {}, NoRow)

\* A row whose text changes, whatever the text.
Touched(row) == [row EXCEPT !.version = MaxWrites + 1]

\* mutant: an update looks at no version
UnstaleAlways(q, i) == rows[<<q.kind, i>>] # NoRow

\* The version lock; a card's state is read again just before it is written.
Unstale(q, i) ==
  /\ rows[<<q.kind, i>>] # NoRow
  /\ rows[<<q.kind, i>>].version = q.seen[i].version

\* The constraints: one navigation item a page, of a page that stands; a handle once in its list.
Unique(q, i) ==
  /\ q.kind = "nav" => rows[<<"page", i>>] # NoRow
  /\ q.kind \in {"profile", "organization"} /\ q.plan[i].value # NoRow =>
       \A j \in Items \ {i} : rows[<<q.kind, j>>] # NoRow =>
         rows[<<q.kind, j>>].value # q.plan[i].value

Changed(q) == {i \in Items : q.plan[i] # q.seen[i]}

Allowed(q) ==
  \A i \in Changed(q) :
    /\ IF q.seen[i] # NoRow THEN Unstale(q, i)
                            ELSE q.kind = "card" \/ rows[<<q.kind, i>>] = NoRow
    /\ q.plan[i] # NoRow => Unique(q, i)

\* Deleting a page deletes its place in the navigation.
Cascades(q, id) ==
  id[1] = "nav" /\ q.kind = "page" /\ id[2] \in Changed(q) /\ q.plan[id[2]] = NoRow

\* The welcome page is made with its place in the navigation.
Accompanies(q, id) == id[1] = "nav" /\ q.kind = "page" /\ id[2] = Seeded /\ q.seen[Seeded] = NoRow /\ q.plan[Seeded] # NoRow

Leave(q, id) ==
  IF id[1] = q.kind /\ q.plan[id[2]] # q.seen[id[2]]
    THEN IF q.plan[id[2]] = NoRow THEN NoRow
                                  ELSE [q.plan[id[2]] EXCEPT !.version = writes + 1]
    ELSE IF Cascades(q, id) THEN NoRow
    ELSE IF Accompanies(q, id) THEN [Fresh(q.plan[Seeded].place, "shown") EXCEPT !.version = writes + 1]
    ELSE rows[id]

Tell(q, t) ==
  CASE q.fact = "created" -> [t EXCEPT !.created = @ + 1, !.says = q.plan[q.item].value]
    [] q.fact = "ended"   -> [t EXCEPT !.ended = @ + 1]
    [] OTHER              -> [t EXCEPT !.says = q.fact, !.echo = Changed(q) = {}]

Write(r) ==
  LET q == request[r]
  IN /\ q # NoRow
     /\ Allowed(q)
     /\ rows' = [id \in Ids |-> Leave(q, id)]
     /\ told' = IF q.fact = NoRow THEN told
                                  ELSE [told EXCEPT ![<<q.kind, q.item>>] = Tell(q, @)]
     /\ writes' = IF Changed(q) = {} THEN writes ELSE writes + 1
     /\ request' = [request EXCEPT ![r] = NoRow]
     /\ UNCHANGED <<counted, overlapped, today, scope>>

\* A stale version, a constraint or a lost connection: nothing is written, nothing is told.
Fail(r) ==
  /\ request[r] # NoRow
  /\ request' = [request EXCEPT ![r] = NoRow]
  /\ UNCHANGED <<rows, counted, told, overlapped, today, scope, writes>>

----------------------------------------------------------------------------
(* Lists in order.                                                         *)

\* Two rows have one place only where requests overlapped.
Precedes(list, i, j) ==
  list[i].place < list[j].place \/ (list[i].place = list[j].place /\ Rank[i] < Rank[j])

\* Where an item is among some of its list, from 0.
Index(list, among, i) == Cardinality({j \in among : Precedes(list, j, i)})

\* mutant: the item lands below the one it names
ReorderedBelow(list, i, above) ==
  LET others == Existing(list) \ {i}
      at == IF above = NoRow THEN Cardinality(others) ELSE 1 + Index(list, others, above)
      place(j) == LET n == Index(list, others, j) IN IF j = i THEN at ELSE IF n < at THEN n ELSE n + 1
  IN IF i \notin Existing(list) \/ above \notin others \cup {NoRow} THEN list
       ELSE [j \in Items |-> IF list[j] = NoRow THEN NoRow ELSE [list[j] EXCEPT !.place = place(j)]]

\* The list with i above another item, or last; as it was when either is gone.
Reordered(list, i, above) ==
  LET others == Existing(list) \ {i}
      at == IF above = NoRow THEN Cardinality(others) ELSE Index(list, others, above)
      place(j) == LET n == Index(list, others, j) IN IF j = i THEN at ELSE IF n < at THEN n ELSE n + 1
  IN IF i \notin Existing(list) \/ above \notin others \cup {NoRow} THEN list
       ELSE [j \in Items |-> IF list[j] = NoRow THEN NoRow ELSE [list[j] EXCEPT !.place = place(j)]]

Prepended(list, i) ==
  [j \in Items |-> IF j = i THEN Fresh(0, "open")
                     ELSE IF list[j] = NoRow THEN NoRow ELSE [list[j] EXCEPT !.place = @ + 1]]

\* Two additions to an empty list lock no row of each other's.
FirstTask == IF Existing(List("todo")) = {} THEN {"todo"} ELSE {}

\* mutant: an off-by-one in the limit
RoomForTaskAndOne == Cardinality(Existing(List("todo"))) <= Limit

RoomForTask == Cardinality(Existing(List("todo"))) < Limit

CountTodos(r) ==
  /\ request[r] = NoRow /\ "todo" \in scope /\ writes < MaxWrites
  /\ RoomForTask
  /\ counted' = [counted EXCEPT ![r] = Cardinality(Existing(List("todo")))]
  /\ UNCHANGED <<rows, request, told, overlapped, today, scope, writes>>

\* The list is read after the count: others may have added to it, and it is then longer.
LateCount(r) == IF counted[r] < Cardinality(Existing(List("todo"))) THEN {"late"} ELSE {}

AddTodo(r, i) ==
  /\ counted[r] # NoRow /\ Unused("todo", i)
  /\ Begin(r, "todo", i, Prepended(List("todo"), i), "created", FirstTask \cup LateCount(r), NoRow)

SeedTodo(r) ==
  /\ New("todo", Seeded)
  /\ Begin(r, "todo", Seeded, Prepended(List("todo"), Seeded), NoRow, FirstTask, NoRow)

TickTodo(r, i, value) ==
  /\ rows[<<"todo", i>>] # NoRow
  /\ Edit(r, "todo", i, [rows[<<"todo", i>>] EXCEPT !.value = value], value)

EditTodo(r, i) == rows[<<"todo", i>>] # NoRow /\ Edit(r, "todo", i, Touched(rows[<<"todo", i>>]), NoRow)

DeleteTodo(r, i) == rows[<<"todo", i>>] # NoRow /\ Edit(r, "todo", i, NoRow, "ended")

MoveTodo(r, i, above) ==
  Begin(r, "todo", i, Reordered(List("todo"), i, above), NoRow, {}, above)

----------------------------------------------------------------------------
(* Pages and their navigation.                                             *)

OrgRoles == {"owner", "member"}   \* NoRow for anyone who is not in the organization

\* Drafts are any member's to change, published pages the owners'; row-level security asks the
\* same of the row that the version lock finds unmoved.
CanEdit(role, i) == role = "owner" \/ (role = "member" /\ rows[<<"page", i>>].value = "draft")

CreatePage(r, i) == Unused("page", i) /\ Edit(r, "page", i, Fresh(0, "draft"), "created")

\* The last fact decided on wins: a change of visibility is told before one of the slug.
UpdatePage(r, i, role, visibility) ==
  /\ rows[<<"page", i>>] # NoRow /\ CanEdit(role, i)
  /\ visibility = rows[<<"page", i>>].value \/ role = "owner"
  /\ Edit(r, "page", i, Touched([rows[<<"page", i>>] EXCEPT !.value = visibility]),
          IF visibility = rows[<<"page", i>>].value THEN NoRow ELSE visibility)

SetVisibility(r, i, role, visibility) ==
  /\ role = "owner" /\ rows[<<"page", i>>] # NoRow
  /\ Edit(r, "page", i, [rows[<<"page", i>>] EXCEPT !.value = visibility], visibility)

DeletePage(r, i, role) ==
  rows[<<"page", i>>] # NoRow /\ CanEdit(role, i) /\ Edit(r, "page", i, NoRow, "ended")

LastPlace(list) ==
  IF Existing(list) = {} THEN 0
    ELSE CHOOSE n \in {list[i].place : i \in Existing(list)} : \A i \in Existing(list) : list[i].place <= n

SeedPage(r) ==
  /\ New("page", Seeded)
  /\ Begin(r, "page", Seeded,
          [List("page") EXCEPT ![Seeded] = Fresh(LastPlace(List("nav")) + 1, "public")], NoRow, {"nav"}, NoRow)

AddNav(r, i, role) ==
  /\ role = "owner"
  /\ rows[<<"page", i>>] # NoRow /\ rows[<<"page", i>>].value # "draft"
  /\ rows[<<"nav", i>>] = NoRow
  /\ Begin(r, "nav", i, [List("nav") EXCEPT ![i] = Fresh(LastPlace(List("nav")) + 1, "shown")],
          NoRow, {"nav"}, NoRow)

RemoveNav(r, i, role) == role = "owner" /\ rows[<<"nav", i>>] # NoRow /\ Edit(r, "nav", i, NoRow, NoRow)

\* Above a page that is gone is last.
AbovePage(above) == IF above = NoRow \/ rows[<<"page", above>>] = NoRow THEN NoRow ELSE above

MoveNav(r, i, role, above) ==
  /\ role = "owner"
  /\ rows[<<"page", i>>] # NoRow
  /\ Begin(r, "nav", i, Reordered(List("nav"), i, AbovePage(above)), NoRow, {}, AbovePage(above))

\* The list: every page for a member, the public ones for anyone else; a search keeps some of it.
VisiblePages(pages, role) == {i \in Existing(pages) : role = NoRow => pages[i].value = "public"}

\* One page, by its slug or its id: none and one that is not to be seen are the same.
Opens(role, i) == rows[<<"page", i>>] # NoRow /\ (role = NoRow => rows[<<"page", i>>].value = "public")

\* The navigation: the places read first, and of them those whose page is found next.
NavItems(places, pages, role) == Existing(places) \cap VisiblePages(pages, role)

\* What is read as a role: the list, each page, the navigation.
ListedPages(role) == VisiblePages(List("page"), role)
ViewedPages(role) == {i \in Items : Opens(role, i)}
\* A member's menu has the pages for members, a visitor's the public ones.
NavPages(role) ==
  {i \in NavItems(List("nav"), List("page"), role) :
     role # NoRow => rows[<<"page", i>>].value = "members"}

ReadAs(role) == ListedPages(role) \cup ViewedPages(role) \cup NavPages(role)

----------------------------------------------------------------------------
(* Calendar events, API keys, review cards.                                *)

CreateEvent(r, i) == Unused("event", i) /\ Edit(r, "event", i, Fresh(0, "set"), "created")
UpdateEvent(r, i) == rows[<<"event", i>>] # NoRow /\ Edit(r, "event", i, Touched(rows[<<"event", i>>]), NoRow)
DeleteEvent(r, i) == rows[<<"event", i>>] # NoRow /\ Edit(r, "event", i, NoRow, "ended")

CreateKey(r, i) == Unused("key", i) /\ Edit(r, "key", i, Fresh(0, "live"), "created")

Revocable(i) == rows[<<"key", i>>] # NoRow /\ rows[<<"key", i>>].value = "live"

RevokeKey(r, i) ==
  Revocable(i) /\ Edit(r, "key", i, [rows[<<"key", i>>] EXCEPT !.value = "revoked"], "ended")

Subscribe(r, i) == rows[<<"deck", i>>] = NoRow /\ Edit(r, "deck", i, Fresh(0, "subscribed"), NoRow)

ReviewedOn(day) == {i \in Existing(List("card")) : rows[<<"card", i>>].value = Day[day]}

Level(i) == IF rows[<<"card", i>>] = NoRow THEN 0 ELSE rows[<<"card", i>>].place

Scheduled(i, learned) ==
  LET next == IF learned THEN Level(i) + 1 ELSE 1
      row  == IF rows[<<"card", i>>] = NoRow THEN Fresh(0, Day[today]) ELSE rows[<<"card", i>>]
  IN [row EXCEPT !.place = IF next > 9 THEN 9 ELSE next, !.value = Day[today]]

\* Re-marking a card of the day is free.
RoomForReview(i) == i \in ReviewedOn(today) \/ Cardinality(ReviewedOn(today)) < DailyLimit

ReviewCard(r, i, learned) ==
  /\ RoomForReview(i)
  /\ Begin(r, "card", i, [List("card") EXCEPT ![i] = Scheduled(i, learned)], NoRow,
          IF i \in ReviewedOn(today) THEN {} ELSE {"card"}, NoRow)

NextDay ==
  /\ today < MaxDay /\ "card" \in scope
  /\ today' = today + 1
  /\ UNCHANGED <<rows, request, counted, told, overlapped, scope, writes>>

\* The session of the day: the cards that are due in the decks subscribed to, each of one card,
\* first those never studied, then by the day they were due, then in the order of the decks.
Intervals == <<1, 1, 2, 3, 5, 8, 13, 21, 34>>

NextReview(i) ==
  IF rows[<<"card", i>>] = NoRow THEN 0
    ELSE Intervals[Level(i)] + CHOOSE n \in 0..MaxDay : rows[<<"card", i>>].value = Day[n]

Catalog == {i \in Items : rows[<<"deck", i>>] # NoRow}
Due(i) == NextReview(i) <= today

ComesFirst(i, j) == NextReview(i) < NextReview(j) \/ (NextReview(i) = NextReview(j) /\ Rank[i] < Rank[j])

\* Each card with its place in the session.
SessionOfDay ==
  LET due == {i \in Catalog : Due(i)}
  IN [i \in due |-> Cardinality({j \in due : ComesFirst(j, i)})]

----------------------------------------------------------------------------
(* Handles: each list is asked, the row goes into one of them.             *)

Holders(handle) ==
  {id \in {"profile", "organization"} \X Items : rows[id] # NoRow /\ rows[id].value = handle}

\* What row-level security shows a user: their organizations, and the profiles of their members.
Sees(user, id) ==
  \/ id[1] = "organization" /\ <<user, id[2]>> \in Belongs
  \/ id = <<"profile", user>>
  \/ id[1] = "profile" /\ \E o \in Existing(List("organization")) : {<<user, o>>, <<id[2], o>>} \subseteq Belongs

Shown(user) == {id \in {"profile", "organization"} \X Items : Sees(user, id)}

\* mutant: only one's own list is asked
AvailableInList(handle, id, shown) ==
  handle \notin Reserved /\ {h \in Holders(handle) \cap shown : h[1] = id[1]} \subseteq {id}

Available(handle, id, shown) == handle \notin Reserved /\ Holders(handle) \cap shown \subseteq {id}

Take(r, id, handle, shown, row, claims) ==
  /\ Available(handle, id, shown)
  /\ Begin(r, id[1], id[2], [List(id[1]) EXCEPT ![id[2]] = row], NoRow, claims \cup {handle}, NoRow)
  /\ unseen' = IF Holders(handle) \subseteq shown \cup {id} THEN unseen ELSE unseen \cup {handle}

TakeHandle(r, id, handle, shown) ==
  Take(r, id, handle, shown, [rows[id] EXCEPT !.value = handle], {})

UpdateProfile(r, i, handle) == TakeHandle(r, <<"profile", i>>, handle, Shown(i))

AutoHandle(r, i, handle) ==
  rows[<<"profile", i>>].value = NoRow /\ TakeHandle(r, <<"profile", i>>, handle, Shown(i))

UpdateOrgHandle(r, i, user, handle) ==
  /\ rows[<<"organization", i>>] # NoRow /\ <<user, i>> \in Belongs
  /\ TakeHandle(r, <<"organization", i>>, handle, Shown(user))

RenameOrganization(r, i) ==
  rows[<<"organization", i>>] # NoRow /\ Edit(r, "organization", i, Touched(rows[<<"organization", i>>]), NoRow)

\* The time zone may be the one it has.
UpdateOrgTimezone(r, i, other) ==
  /\ rows[<<"organization", i>>] # NoRow
  /\ Edit(r, "organization", i, IF other THEN Touched(rows[<<"organization", i>>]) ELSE rows[<<"organization", i>>], NoRow)

Owned(user) == {i \in Existing(List("organization")) : Founder[i] = user}
PersonalOwned(user) == {i \in Owned(user) : rows[<<"organization", i>>].place = 1}

\* One claim to a handle, another to be the organization its founder was counted to lack.
CreateWithOwner(r, i, handle, shown, row) ==
  /\ rows[<<"organization", i>>] = NoRow
  /\ Take(r, <<"organization", i>>, handle, shown, row, {Founder[i]})

CreateOrganization(r, i, handle) ==
  /\ Cardinality(Owned(Founder[i])) < MaxOwned
  /\ CreateWithOwner(r, i, handle, Shown(Founder[i]), Fresh(0, handle))

\* The worker makes a personal organization, once, on a session that sees every row.
CreatePersonalOrg(r, i, handle) ==
  /\ PersonalOwned(Founder[i]) = {}
  /\ CreateWithOwner(r, i, handle, {"profile", "organization"} \X Items, Fresh(1, handle))

----------------------------------------------------------------------------
ListSteps(r, i) ==
  \/ AddTodo(r, i) \/ EditTodo(r, i) \/ DeleteTodo(r, i)
  \/ \E value \in {"open", "done"} : TickTodo(r, i, value)
  \/ \E above \in Items \cup {NoRow} : MoveTodo(r, i, above)

PageSteps(r, i, role) ==
  \/ CreatePage(r, i) \/ DeletePage(r, i, role) \/ AddNav(r, i, role) \/ RemoveNav(r, i, role)
  \/ \E visibility \in Visibilities : UpdatePage(r, i, role, visibility) \/ SetVisibility(r, i, role, visibility)
  \/ \E above \in Items \cup {NoRow} : MoveNav(r, i, role, above)

OtherSteps(r, i) ==
  \/ CreateEvent(r, i) \/ UpdateEvent(r, i) \/ DeleteEvent(r, i)
  \/ CreateKey(r, i) \/ RevokeKey(r, i) \/ Subscribe(r, i)
  \/ \E learned \in BOOLEAN : ReviewCard(r, i, learned)
  \/ RenameOrganization(r, i) \/ \E other \in BOOLEAN : UpdateOrgTimezone(r, i, other)

HandleSteps(r, i, handle) ==
  \/ UpdateProfile(r, i, handle) \/ AutoHandle(r, i, handle)
  \/ CreateOrganization(r, i, handle) \/ CreatePersonalOrg(r, i, handle)
  \/ \E user \in Items : UpdateOrgHandle(r, i, user, handle)

ContentNext ==
  \/ /\ \/ \E r \in Requests : Write(r) \/ Fail(r) \/ CountTodos(r) \/ SeedTodo(r) \/ SeedPage(r)
        \/ \E r \in Requests, i \in Items : ListSteps(r, i) \/ OtherSteps(r, i)
        \/ \E r \in Requests, i \in Items, role \in OrgRoles : PageSteps(r, i, role)
        \/ NextDay
     /\ UNCHANGED unseen
  \/ \E r \in Requests, i \in Items, handle \in Handles : HandleSteps(r, i, handle)

ContentSpec == ContentInit /\ [][ContentNext]_contentVars

----------------------------------------------------------------------------
\* Type invariant: rows, plans and facts hold values of their kinds.
ContentTypeOK ==
  /\ rows \in [Ids -> TableRow \cup {NoRow}]
  /\ \A r \in Requests : request[r] # NoRow =>
       /\ request[r].kind \in Tables /\ request[r].item \in Items
       /\ request[r].seen \in [Items -> TableRow \cup {NoRow}]
       /\ request[r].plan \in [Items -> TableRow \cup {NoRow}]
  /\ \A r \in Requests : counted[r] # NoRow => counted[r] \in Nat /\ counted[r] < Limit
  /\ \A id \in Journaled : told[id].created + told[id].ended \in 0..2
  /\ today \in 0..MaxDay /\ writes \in 0..MaxWrites + Cardinality(Requests)

\* No two items of a list share a position, no two profiles and no two organizations a handle, nor
\* do a profile and an organization, unless two requests at once added the first task, added to the
\* navigation, or added to it and rearranged it, or checked the handle, or one checked it that is not
\* shown who holds it.
UniqueUnlessRaced ==
  /\ \A kind \in {"todo", "nav"} \ overlapped : \A i, j \in Existing(List(kind)) :
       i # j => rows[<<kind, i>>].place # rows[<<kind, j>>].place
  /\ \A handle \in Handles : \A h, g \in Holders(handle) :
       h # g => h[1] # g[1] /\ handle \in overlapped \cup unseen

\* An addition commits that counted the tasks before another's was among them.
CommitsLate == \E r \in Requests : request[r] # NoRow /\ "late" \in request[r].claims /\ request'[r] = NoRow

\* No addition takes the list of tasks, no review the cards of a day, and no creation the
\* organizations of a user past their limits, and no user gets two personal organizations, unless
\* two requests were counted at once.  For the tasks that is two requests that found no task at
\* all, or one that read a longer list than it had counted: any other's count still holds when it
\* commits, as it shifts every task it read under the version lock.  The welcome task and a
\* personal organization are not counted out, and a list may stand that is longer than the limit
\* has become.  A card once counted for the day stays counted, whichever request commits last,
\* and is not in the session of the day.
LimitsKeptUnlessRaced ==
  [][/\ \/ "todo" \in overlapped \/ CommitsLate
        \/ Existing(List("todo"))' \ Existing(List("todo")) \subseteq {Seeded}
        \/ Cardinality(Existing(List("todo")))' <= Limit
     /\ "card" \in overlapped \/
          /\ \A day \in 0..today : Cardinality(ReviewedOn(day))' <= DailyLimit
          /\ today' = today => ReviewedOn(today) \subseteq ReviewedOn(today)'
     /\ \A i \in ReviewedOn(today) : i \notin DOMAIN SessionOfDay
     /\ \A user \in Items \ overlapped :
          /\ Cardinality(PersonalOwned(user)) <= 1
          /\ \/ Cardinality(Owned(user))' <= MaxOwned
             \/ Owned(user)' = Owned(user) \/ PersonalOwned(user)' # PersonalOwned(user)]_contentVars

\* What is committed and what is told agree: a row ended, by a deletion or a revocation, once for
\* each such fact; the last visibility or tick told is the row's, or was told by a request that
\* changed nothing; a visitor reads no page whose last true fact unpublished it, in the list, by its
\* address or in the navigation.
JournalTellsRows ==
  \A id \in Journaled :
    LET ended == rows[id] = NoRow \/ rows[id].value = "revoked"
    IN /\ told[id].ended <= 1
       /\ told[id].created = 1 => (told[id].ended = 1) = ended
       /\ told[id].says = NoRow \/ told[id].echo \/ ended \/ told[id].says = rows[id].value
       /\ id[1] = "page" /\ id[2] \in ReadAs(NoRow) =>
            told[id].says \in {NoRow, "public"} \/ told[id].echo

Above(list, i, above) ==
  {i, above} \subseteq Existing(list) => list[i].place < list[above].place

\* Whether the row a request names went up its list since the request read it.
WentUp(q) == rows[<<q.kind, q.above>>] # NoRow /\ rows[<<q.kind, q.above>>].place < q.seen[q.above].place

\* A move that changes its item's position leaves it above the one it names, in the list as the
\* others have made it meanwhile, unless one of the two is gone by then or the other went up.
MovesLand ==
  [][\A r \in Requests :
       LET q == request[r]
       IN /\ q # NoRow /\ request'[r] = NoRow /\ rows' # rows
          /\ q.kind \in {"todo", "nav"} /\ q.above # NoRow /\ q.item \in Changed(q) /\ ~ WentUp(q)
          => Above([j \in Items |-> rows'[<<q.kind, j>>]], q.item, q.above)]_contentVars
=============================================================================
