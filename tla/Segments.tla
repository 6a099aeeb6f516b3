------------------------------ MODULE Segments ------------------------------
(***************************************************************************)
(* Segments: recipients chosen by a query on what they have done and on    *)
(* what was sent to them.  A query is counted, exported, and imported into *)
(* a campaign, page by page, each page a query of its own on a database    *)
(* that goes on changing, not least by the campaign that is imported.      *)
(***************************************************************************)
EXTENDS Integers, FiniteSets, FiniteSetsExt

CONSTANTS
  Recipients,  \* their ids, numbers
  Campaigns,   \* the last is the one that is imported
  Queries,     \* as they are posted, see Normalize
  Starts,      \* what the tables hold at first: [listed, suppressed, opened, row]
  PageSize,    \* rows of a page
  MaxEvents,   \* bound: what else happens
  MaxRuns      \* bound: imports

Modes == {"matched", "opened", "not_opened", "clicked", "not_clicked", "failed", "suppressed"}
Counts == {"matched", "opened", "clicked", "failed", "suppressed"}
Campaign == Max(Campaigns)

VARIABLES
  listed, suppressed, gone,  \* on the base list; with a global suppression; unsubscribed
  opened, clicked,           \* pairs of recipient and campaign
  row,                       \* CampaignRecipient, by recipient and campaign
  query, job,                \* what is asked; [kind, mode, pc, cursor, page]
  stats,                     \* the numbers that have been counted
  out,                       \* recipients that are in the file, or that the import made sure of
  events, runs,
  calm,                      \* history: nothing has happened since the job began
  always, ever,              \* history: who was chosen all the time until passed by; who was at any time
  barred, twice              \* history: whom the import found suppressed; somebody was written again

History == <<always, ever, barred, twice>>
Facts == <<listed, suppressed, gone, opened, clicked, row>>
vars == <<Facts, query, job, stats, out, events, runs, calm, History>>

Idle == [kind |-> "none", mode |-> "matched", pc |-> "idle", cursor |-> 0, page |-> {}]
Rows == {"none", "open", "sent", "failed", "skipped"}

\* Recipients and campaigns are numbers, as their ids are read in order.
SegmentAssumption ==
  /\ Recipients \subseteq Nat \ {0} /\ IsFiniteSet(Recipients)
  /\ Campaigns \subseteq Nat /\ IsFiniteSet(Campaigns) /\ Campaigns # {}
  /\ PageSize \in Nat \ {0}
  /\ \A s \in Starts : s.row \in [Recipients \X Campaigns -> Rows]
  /\ \A q \in Queries : q = [did |-> q.did, delivery |-> q.delivery, suppression |-> q.suppression,
                             previous |-> q.previous, base |-> q.base, of |-> q.of, among |-> q.among]

TypeOK ==
  /\ listed \cup suppressed \cup gone \subseteq Recipients
  /\ opened \cup clicked \subseteq Recipients \X Campaigns
  /\ row \in [Recipients \X Campaigns -> Rows]
  /\ job.pc \in {"idle", "count", "page", "write", "done", "failed"} /\ job.page \subseteq Recipients
  /\ DOMAIN stats \subseteq Counts /\ always \subseteq ever

-----------------------------------------------------------------------------
(* The query *)

\* normalizeSegmentQuery: what is not known counts as not said.
Normalize(q) ==
  [q EXCEPT !.delivery = @ \cap {"sent", "failed", "skipped", "suppressed"},
            !.suppression = IF @ \in {"include", "exclude"} THEN @ ELSE "all",
            !.previous = IF @ \in {"include", "exclude"} THEN @ ELSE "all"]

\* `of' are the campaigns that the clauses on campaign, template, list, account
\* and date let pass; `among' the recipients of the domain that is searched for.
Did(S, r, q) == \E c \in q.of : <<r, c>> \in S
Held(r, q) == {row[<<r, c>>] : c \in q.of}
Targeted(r) == \E c \in Campaigns : row[<<r, c>>] # "none"

\* buildRecipientWhereSql
Matches(r, q) ==
  /\ r \in q.among /\ (q.base => r \in listed)
  /\ "opened" \in q.did => Did(opened, r, q)
  /\ "not_opened" \in q.did => ~Did(opened, r, q)
  /\ "clicked" \in q.did => Did(clicked, r, q)
  /\ "not_clicked" \in q.did => ~Did(clicked, r, q)
  /\ "unsubscribed" \in q.did => r \in gone
  /\ q.delivery \ {"suppressed"} # {} => Held(r, q) \cap q.delivery # {}
  /\ "suppressed" \in q.delivery \/ q.suppression = "include" => r \in suppressed
  /\ q.suppression = "exclude" => r \notin suppressed
  /\ q.previous = "include" => Targeted(r)
  /\ q.previous = "exclude" => ~Targeted(r)
Matched(q) == {r \in Recipients : Matches(r, q)}

\* withExportMode
WithMode(q, mode) ==
  CASE mode \in {"opened", "not_opened", "clicked", "not_clicked"} -> [q EXCEPT !.did = @ \cup {mode}]
    [] mode = "failed" -> [q EXCEPT !.delivery = @ \cup {"failed"}]
    [] mode = "suppressed" -> [q EXCEPT !.suppression = "include"]
    [] OTHER -> q

Asked == WithMode(Normalize(query), job.mode)
Wanted == Matched(Asked) \ (IF job.kind = "import" THEN gone ELSE {})

Init ==
  /\ \E s \in Starts : /\ listed = s.listed /\ suppressed = s.suppressed
                       /\ opened = s.opened /\ clicked = {} /\ row = s.row
  /\ gone = {} /\ query \in Queries /\ job = Idle /\ stats = <<>> /\ out = {}
  /\ events = 0 /\ runs = 0 /\ calm = TRUE /\ always = {} /\ ever = {} /\ barred = {} /\ twice = FALSE

\* Whoever has been passed by is done with; the others may come and go.
Seen ==
  /\ always' = {r \in always : r <= job.cursor \/ r \in Wanted'}
  /\ ever' = ever \cup {r \in Wanted' : r > job.cursor}

-----------------------------------------------------------------------------
(* Analytics, export, import *)

Begin(kind, mode) ==
  LET j == [Idle EXCEPT !.kind = kind, !.mode = mode, !.pc = IF kind = "analytics" THEN "count" ELSE "page"] IN
  /\ job.pc \in {"idle", "failed"} /\ runs < MaxRuns
  /\ (job.pc = "failed" => kind = "import" /\ job.kind = "import")
  /\ job' = j /\ runs' = runs + 1 /\ out' = {} /\ calm' = TRUE
  /\ barred' = {} /\ twice' = FALSE
  /\ UNCHANGED <<Facts, query, stats, events>>
  /\ always' = Wanted' /\ ever' = Wanted'

\* The counts are queries of their own and come in any order; what was opened,
\* clicked or failed is counted over all campaigns and dates.
Counted(what) ==
  LET M == Matched(Normalize(query)) IN
  Cardinality(CASE what = "matched" -> M
    [] what = "opened" -> {r \in M : \E c \in Campaigns : <<r, c>> \in opened}
    [] what = "clicked" -> {r \in M : \E c \in Campaigns : <<r, c>> \in clicked}
    [] what = "failed" -> {r \in M : \E c \in Campaigns : row[<<r, c>>] = "failed"}
    [] what = "suppressed" -> M \cap suppressed)
CountOne(what) ==
  /\ job.pc = "count" /\ what \in Counts \ DOMAIN stats
  /\ stats' = [w \in DOMAIN stats \cup {what} |-> IF w = what THEN Counted(what) ELSE stats[w]]
  /\ UNCHANGED <<Facts, query, job, out, events, runs, calm, History>>

First(S) == {r \in S : Cardinality({x \in S : x < r}) < PageSize}

\* Faulty variant: pages are told apart by their number.
PageByOffset ==
  LET page == {r \in Wanted : LET n == Cardinality({x \in Wanted : x < r})
                              IN  n >= Cardinality(out) /\ n < Cardinality(out) + PageSize} IN
  /\ job.pc = "page"
  /\ job' = IF page = {} THEN [job EXCEPT !.pc = "done"]
            ELSE [job EXCEPT !.pc = "write", !.page = page, !.cursor = Max(page)]
  /\ UNCHANGED <<Facts, query, stats, out, events, runs, calm, History>>

\* The next rows behind the last id; an empty page is the end.
Page ==
  LET rest == {r \in Matched(Asked) : r > job.cursor}  page == First(rest) IN
  /\ job.pc = "page"
  /\ job' = IF page = {} THEN [job EXCEPT !.pc = "done"]
            ELSE [job EXCEPT !.pc = "write", !.page = page \cap Wanted, !.cursor = Max(page)]
  /\ UNCHANGED <<Facts, query, stats, out, events, runs, calm, History>>

\* The export writes the page as it was read; the import asks for the
\* suppressions, and makes the rows that are missing.
Write ==
  LET new == IF job.kind = "import" THEN job.page \ suppressed ELSE job.page IN
  /\ job.pc = "write" /\ job' = [job EXCEPT !.pc = "page", !.page = {}]
  /\ out' = out \cup new /\ twice' = (twice \/ new \cap out # {})
  /\ barred' = barred \cup (job.page \ new)
  /\ row' = IF job.kind = "import"
              THEN [k \in DOMAIN row |-> IF k[2] = Campaign /\ k[1] \in new /\ row[k] = "none" THEN "open" ELSE row[k]]
              ELSE row
  /\ UNCHANGED <<listed, suppressed, gone, opened, clicked, query, stats, events, runs, calm>>
  /\ Seen

WriteFails ==
  /\ job.pc = "write" /\ job.kind = "import" /\ job' = [job EXCEPT !.pc = "failed", !.page = {}]
  /\ UNCHANGED <<Facts, query, stats, out, events, runs, calm, History>>

-----------------------------------------------------------------------------
(* Everybody else *)

\* Deliveries of the campaign go on while it is imported.
Deliver(r, s) ==
  /\ row[<<r, Campaign>>] = "open" /\ row' = [row EXCEPT ![<<r, Campaign>>] = s]
  /\ calm' = FALSE
  /\ UNCHANGED <<listed, suppressed, gone, opened, clicked, query, job, stats, out, events, runs, barred, twice>>
  /\ Seen

Event(r) ==
  /\ job.pc \notin {"idle", "done"} /\ events < MaxEvents /\ events' = events + 1 /\ calm' = FALSE
  /\ \/ /\ listed' = IF r \in listed THEN listed \ {r} ELSE listed \cup {r}
        /\ UNCHANGED <<suppressed, gone, opened, clicked>>
     \/ /\ suppressed' = IF r \in suppressed THEN suppressed \ {r} ELSE suppressed \cup {r}
        /\ UNCHANGED <<listed, gone, opened, clicked>>
     \/ \E c \in Campaigns : /\ row[<<r, c>>] = "sent" /\ opened' = opened \cup {<<r, c>>}
                             /\ clicked' \in {clicked, clicked \cup {<<r, c>>}}
                             /\ UNCHANGED <<listed, suppressed, gone>>
     \/ r \notin gone /\ gone' = gone \cup {r} /\ UNCHANGED <<listed, suppressed, opened, clicked>>
  /\ UNCHANGED <<row, query, job, stats, out, runs, barred, twice>>
  /\ Seen

Next ==
  \/ \E mode \in Modes : Begin("export", mode)
  \/ Begin("analytics", "matched") \/ Begin("import", "matched")
  \/ (\E w \in Counts : CountOne(w)) \/ Page \/ Write \/ WriteFails
  \/ \E r \in Recipients : Event(r) \/ \E s \in {"sent", "failed", "skipped"} : Deliver(r, s)

Spec == Init /\ [][Next]_vars

-----------------------------------------------------------------------------
(* Properties *)

\* An export holds, and an import targets, everybody whom the query chose all
\* the time until the pages were past them, but for those that the import found
\* suppressed, nobody whom it never chose, and nobody twice: whatever comes and
\* goes meanwhile, the rows that the import makes itself included.
PagesAreExact ==
  /\ out \cup barred \subseteq ever /\ ~twice
  /\ job.pc = "done" => always \subseteq out \cup barred
  /\ job.kind = "import" => \A r \in out : row[<<r, Campaign>>] # "none"

\* With nothing going on meanwhile the numbers beside the buttons are the sizes
\* of what the buttons export, unless the query names campaigns or dates, or
\* deliveries other than the failed ones.
Size(mode) == Cardinality(Matched(WithMode(Normalize(query), mode)))
NumbersAgree ==
  job.kind = "analytics" /\ DOMAIN stats = Counts /\ calm /\ query.of = Campaigns
    /\ Normalize(query).delivery \subseteq {"failed", "suppressed"} =>
    /\ \A w \in Counts : (w = "suppressed" => Normalize(query).suppression # "exclude") => stats[w] = Size(w)
    /\ Max({0, stats["matched"] - stats["opened"]}) = Size("not_opened")
    /\ Max({0, stats["matched"] - stats["clicked"]}) = Size("not_clicked")
=============================================================================
