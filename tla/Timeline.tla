------------------------------ MODULE Timeline ------------------------------
(***************************************************************************)
(* The Timeline screen (apps/timeline): log lines, facts and occurrences   *)
(* of issues in one list, newest first, each source asked for its own      *)
(* last rows, the pages cut by the time of the last row shown.  A fact and *)
(* an occurrence have the time their transaction began and an id taken     *)
(* later, by which their source limits what it answers: of two             *)
(* transactions that overlap, the order of the ids may be the other one.   *)
(***************************************************************************)
EXTENDS Naturals, FiniteSets, FiniteSetsExt

CONSTANTS
  PageSize,     \* _PAGE_SIZE, at least 1: the limit of each source and of the page
  Apps,
  NoFilter

VARIABLES
  entries,      \* what the sources hold: the time, the source's own order, the source, the app
  reading       \* what an admin has on screen, or Closed

Sources == {"logs", "business", "issue"}
Filters == [source : Sources \cup {NoFilter}, app : Apps \cup {NoFilter}]
Closed == [open |-> FALSE]

TimelineInit == reading = Closed

\* The n last of some rows, "by" their time or their source's order; among equal rows, any of them.
Newest(rows, n, by) ==
  {s \in SUBSET rows :
     /\ Cardinality(s) = (IF Cardinality(rows) < n THEN Cardinality(rows) ELSE n)
     /\ \A e \in s, f \in rows \ s : e[by] >= f[by]}

Wants(flt, source) == flt.source \in {source, NoFilter}

\* What a source may answer: of the rows until the cursor, itself included, the last by its key: the
\* time of a line, the id of a fact or of an occurrence.
Asked(flt, source, until) ==
  IF Wants(flt, source) THEN Newest({e \in entries : e.source = source /\ e.ts <= until}, PageSize, "key")
                        ELSE {{}}

\* mutant: the cursor's own rows are kept
NotOlder(e, until) == e.ts <= until

Older(e, until) == e.ts < until

\* search: the sources merged, filtered by app and by the cursor, then cut to a page.
Pages(flt, until) ==
  UNION {Newest({e \in l \cup b \cup i : flt.app \in {e.app, NoFilter} /\ Older(e, until)}, PageSize, "ts") :
           l \in Asked(flt, "logs", until), b \in Asked(flt, "business", until), i \in Asked(flt, "issue", until)}

Last(page) == CHOOSE t \in {e.ts : e \in page} : \A e \in page : t <= e.ts

\* _next_cursor: only a full page offers the next.
OffersMore(page) == Cardinality(page) = PageSize

Matching(flt) ==
  {e \in entries : Wants(flt, e.source) /\ flt.app \in {e.app, NoFilter}}

\* No cursor yet: until after all there is.
Ever == 1 + Max({0} \cup {e.ts : e \in entries})

OpenTimeline(flt) ==
  /\ ~reading.open
  /\ \E page \in Pages(flt, Ever) :
       reading' = [open |-> TRUE, flt |-> flt, base |-> Matching(flt), shown |-> page, more |-> OffersMore(page),
                   cursors |-> IF OffersMore(page) THEN {Last(page)} ELSE {}, repeated |-> FALSE]
  /\ UNCHANGED entries

LoadOlder ==
  /\ reading.open /\ reading.more
  /\ LET until == CHOOSE t \in reading.cursors : \A c \in reading.cursors : t <= c
     IN \E page \in Pages(reading.flt, until) :
          reading' = [reading EXCEPT !.shown = @ \cup page, !.more = OffersMore(page),
                        !.cursors = IF OffersMore(page) THEN @ \cup {Last(page)} ELSE @,
                        !.repeated = @ \/ page \cap reading.shown # {}]
  /\ UNCHANGED entries

CloseTimeline == reading.open /\ reading' = Closed /\ UNCHANGED entries

----------------------------------------------------------------------------
Tied == {e \in reading.base : e.ts \in reading.cursors}

\* Between two cursors, where nothing of another source is shown but the row of the second: its
\* source was asked for the row of the first as well, and had one row less for the page.
Overtaken(e) ==
  \E c, d \in reading.cursors :
    /\ d < e.ts /\ e.ts < c
    /\ \A f \in reading.shown : d < f.ts /\ f.ts <= c => f.source = e.source

\* A row that its source counts as later may stand for it in an answer, though it is the older one:
\* its transaction began first and took its id last.
OutOfTurn(e) ==
  \E f \in entries : f.source = e.source /\ e.key < f.key /\ f.ts < e.ts

\* Page after page, while lines go on arriving, no row is shown twice and, as far as the pages
\* go, none that stood when the first was read is passed over, but for rows of the very time of a
\* cursor, rows that the last row of a page has overtaken, and facts that an older one with a later
\* id, of a transaction that overlapped theirs, has kept out.  With a filter on the app, applied
\* to each source's last rows, rows are passed over.
PagesInOrder ==
  reading.open =>
    /\ ~reading.repeated
    /\ reading.flt.app = NoFilter =>
         \A e \in reading.base \ (reading.shown \cup Tied) :
           Overtaken(e) \/ OutOfTurn(e) \/ \A f \in reading.shown : e.ts <= f.ts

\* The pages go on to the last row: "Offered on a full page, at the cost of a possible empty last
\* click".
PagesReachTheEnd ==
  reading.open /\ ~reading.more /\ reading.flt.app = NoFilter =>
    reading.base \subseteq reading.shown \cup Tied
=============================================================================
