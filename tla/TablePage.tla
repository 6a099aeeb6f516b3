----------------------------- MODULE TablePage -----------------------------
(***************************************************************************)
(* A page of the panel with a table: suppressions, SMTP accounts, campaigns *)
(* or lists.  Its requests are under way at the same time, an answer is     *)
(* taken whenever it comes, and what runs on after an answer goes by the    *)
(* filters, the selection and the rows there were at the click.             *)
(***************************************************************************)
EXTENDS Integers, FiniteSets

CONSTANTS
  Rows,       \* of the table in the database
  Pages,      \* what the pages differ in, see `page'
  MaxClicks,  \* bound: clicks
  MaxMishaps  \* bound: requests that fail or whose answers get lost, and changes by others

Values == {"on", "off", "gone"}
Filters == {"all", "on"}
Empty == [x \in {} |-> "on"]
Tables == UNION {[S -> {"on", "off"}] : S \in SUBSET Rows}

VARIABLES
  page,     \* [filtered: the query carries the filters; twice: applying them asks with the old ones
            \*  too; patches: a single answer changes its row; captures: a deletion puts back the rows
            \*  of the click; prunes: the selection follows the rows; bulks: operations on many rows,
            \*  [value, on: selection, filter or text, each: one request per row, keeps: the selection];
            \*  room: requests under way, but for those that follow an answer]
  db,       \* of each row: its value
  control, shown, sel,  \* the page: filter, table, selection
  calls,    \* requests under way: [kind, of, row, value, pc, rows, stale]
  bulk,     \* [kind, pc, chosen, todo, hit, missing, of]
  clicks, mishaps,
  astray    \* history: the table shows an answer that was overtaken or that nobody asks for now,
            \* a request has failed, or others have changed rows

vars == <<page, db, control, shown, sel, calls, bulk, clicks, mishaps, astray>>
View == <<control, shown, sel>>
NoBulk == [kind |-> [value |-> "on", on |-> "text", each |-> FALSE, keeps |-> FALSE], pc |-> "idle",
           chosen |-> {}, todo |-> {}, hit |-> {}, missing |-> {}, of |-> "all"]

\* A page whose answers change their rows has neither filters nor an addition
\* that is shown by one.
Bulks == [value : Values, on : {"selection", "filter", "text"}, each : BOOLEAN, keeps : BOOLEAN]
TableAssumption ==
  \A p \in Pages :
    /\ {p.filtered, p.twice, p.patches, p.captures, p.prunes} \subseteq BOOLEAN /\ p.bulks \subseteq Bulks
    /\ p.patches => ~p.filtered /\ \A k \in p.bulks : k.on # "text"

TypeOK ==
  /\ page \in Pages /\ db \in [Rows -> Values]
  /\ control \in Filters /\ shown \in Tables /\ sel \subseteq Rows
  /\ \A c \in calls : /\ c.kind \in {"query", "act"} /\ c.of \in Filters /\ c.row \in Rows \cup {0}
                      /\ c.value \in Values /\ c.pc \in {"out", "back"} /\ c.rows \in Tables
  /\ bulk.pc \in {"idle", "go"} /\ bulk.todo \subseteq bulk.chosen
  /\ clicks \in 0..MaxClicks /\ mishaps \in 0..MaxMishaps /\ astray \in BOOLEAN

Match(f) == {x \in Rows : db[x] # "gone" /\ (f = "all" \/ db[x] = f)}
Listing(f) == [x \in Match(f) |-> db[x]]
Query(f) == [kind |-> "query", of |-> f, row |-> 0, value |-> "on", pc |-> "out",
             rows |-> Empty, stale |-> FALSE]

\* What has been read before the rows X changed is old.
Stale(S, X) == {[c EXCEPT !.stale = @ \/ (c.pc = "back" /\ (c.kind = "query" \/ c.row \in X))] : c \in S}
Mishap == mishaps < MaxMishaps /\ mishaps' = mishaps + 1
Click == clicks < MaxClicks /\ clicks' = clicks + 1
Room == Cardinality(calls) < page.room

Init ==
  /\ page \in Pages /\ db \in {f \in [Rows -> {"on", "off"}] : \A v \in {"on", "off"} : \E x \in Rows : f[x] = v}
  /\ control = "all" /\ shown = Listing("all") /\ sel = {} /\ calls = {} /\ bulk = NoBulk
  /\ clicks = 0 /\ mishaps = 0 /\ astray = FALSE

Show(table) == shown' = table /\ sel' = IF page.prunes THEN sel \cap DOMAIN table ELSE sel

-----------------------------------------------------------------------------
(* Queries *)

Apply(f) ==
  /\ Click /\ Room /\ page.filtered /\ control' = f
  /\ calls' = calls \cup {Query(f)} \cup (IF page.twice THEN {Query(control)} ELSE {})
  /\ UNCHANGED <<page, db, shown, sel, bulk, mishaps, astray>>

Refresh ==
  /\ Click /\ Room /\ calls' = calls \cup {Query(control)}
  /\ UNCHANGED <<page, db, View, bulk, mishaps, astray>>

Read(c) ==
  /\ c \in calls /\ c.kind = "query" /\ c.pc = "out"
  /\ calls' = (calls \ {c}) \cup {[c EXCEPT !.pc = "back", !.rows = Listing(c.of)]}
  /\ UNCHANGED <<page, db, View, bulk, clicks, mishaps, astray>>

\* No answer is held back because a later question has been answered.
Deliver(c) ==
  /\ c \in calls /\ c.kind = "query" /\ c.pc = "back"
  /\ calls' = calls \ {c} /\ Show(c.rows) /\ astray' = (c.stale \/ c.of # control)
  /\ UNCHANGED <<page, db, control, bulk, clicks, mishaps>>

-----------------------------------------------------------------------------
(* One row *)

Act(x, v) ==
  /\ Click /\ Room /\ x \in DOMAIN shown /\ v # shown[x]
  /\ calls' = calls \cup {[Query(control) EXCEPT !.kind = "act", !.row = x, !.value = v, !.rows = shown]}
  /\ UNCHANGED <<page, db, View, bulk, mishaps, astray>>

\* A row that is gone is an error, and the table stays as it is.
Carry(c) ==
  /\ c \in calls /\ c.kind = "act" /\ c.pc = "out"
  /\ IF db[c.row] = "gone"
       THEN calls' = calls \ {c} /\ UNCHANGED db
       ELSE /\ db' = [db EXCEPT ![c.row] = c.value]
            /\ calls' = Stale(calls \ {c}, {c.row}) \cup {[c EXCEPT !.pc = "back"]}
  /\ UNCHANGED <<page, View, bulk, clicks, mishaps, astray>>

Patched(table, x, v) ==
  [y \in IF v = "gone" THEN DOMAIN table \ {x} ELSE DOMAIN table |-> IF y = x THEN v ELSE table[y]]

\* Faulty variant: the table is left alone.
AnswerOnly(c) ==
  /\ c \in calls /\ c.kind = "act" /\ c.pc = "back" /\ calls' = calls \ {c}
  /\ UNCHANGED <<page, db, View, bulk, clicks, mishaps, astray>>

\* The row is changed in the table, or the table asked for once more, with the
\* filters of the click.
Answer(c) ==
  /\ c \in calls /\ c.kind = "act" /\ c.pc = "back"
  /\ IF page.patches
       THEN LET table == IF page.captures /\ c.value = "gone" THEN c.rows ELSE shown IN
            /\ Show(Patched(table, c.row, c.value)) /\ calls' = calls \ {c}
            /\ astray' = (astray \/ c.stale \/ table # shown)
       ELSE calls' = (calls \ {c}) \cup {Query(c.of)} /\ UNCHANGED <<shown, sel, astray>>
  /\ UNCHANGED <<page, db, control, bulk, clicks, mishaps>>

\* A request fails before or after it is carried out.
Lose(c) ==
  /\ c \in calls /\ Mishap /\ calls' = calls \ {c} /\ astray' = TRUE
  /\ UNCHANGED <<page, db, View, bulk, clicks>>

-----------------------------------------------------------------------------
(* Many rows *)

Tick(x) ==
  /\ Click /\ \E k \in page.bulks : k.on = "selection"
  /\ x \in DOMAIN shown /\ sel' = IF x \in sel THEN sel \ {x} ELSE sel \cup {x}
  /\ UNCHANGED <<page, db, control, shown, calls, bulk, mishaps, astray>>

TickAll ==
  /\ Click /\ \E k \in page.bulks : k.on = "selection"
  /\ sel' = IF DOMAIN shown \subseteq sel THEN sel \ DOMAIN shown ELSE sel \cup DOMAIN shown
  /\ UNCHANGED <<page, db, control, shown, calls, bulk, mishaps, astray>>

Begin(k) ==
  /\ Click /\ bulk.pc = "idle" /\ k \in page.bulks
  /\ \E S \in CASE k.on = "selection" -> {sel} [] k.on = "text" -> SUBSET Rows
                [] k.on = "filter" -> {Match(control)} :
       /\ S # {}
       /\ bulk' = [NoBulk EXCEPT !.kind = k, !.pc = "go", !.chosen = S, !.todo = S, !.of = control]
  /\ UNCHANGED <<page, db, View, calls, mishaps, astray>>

\* What one request is about: a row or batch at a time, or all of them; a
\* filter is evaluated when the request is carried out.
Batches ==
  IF bulk.kind.each THEN {{x} : x \in bulk.todo}
  ELSE IF bulk.todo = {} THEN {} ELSE {IF bulk.kind.on = "filter" THEN Match(bulk.of) ELSE bulk.todo}
Adds == bulk.kind.on = "text" /\ bulk.kind.value = "on"
There(X) == IF Adds THEN X ELSE {x \in X : db[x] # "gone"}
Hit(X) ==
  /\ db' = [x \in Rows |-> IF x \in There(X) THEN bulk.kind.value ELSE db[x]]
  /\ calls' = Stale(calls, X)

\* One that is gone may be an error, which stops the loop, or passed over.
Step ==
  /\ bulk.pc = "go"
  /\ \E X \in Batches :
       /\ Hit(X)
       /\ bulk' = [bulk EXCEPT !.todo = IF bulk.kind.each THEN @ \ X ELSE {},
                               !.hit = @ \cup There(X), !.missing = @ \cup (X \ There(X))]
  /\ UNCHANGED <<page, View, clicks, mishaps, astray>>

\* The first failure ends it: what has been done stays, and is not shown.
StepFails ==
  /\ bulk.pc = "go" /\ bulk' = NoBulk /\ astray' = TRUE
  /\ \E X \in Batches :
       \/ X # There(X) /\ bulk.kind.each /\ UNCHANGED <<db, calls, mishaps>>
       \/ Mishap /\ (Hit(X) \/ UNCHANGED <<db, calls>>)
  /\ UNCHANGED <<page, View, clicks>>

\* After an addition the table shows what was added.
Finish ==
  /\ bulk.pc = "go" /\ bulk.todo = {} /\ bulk' = NoBulk
  /\ sel' = IF bulk.kind.keeps THEN sel ELSE {}
  /\ control' = IF Adds THEN "on" ELSE control
  /\ calls' = calls \cup {Query(IF Adds THEN "on" ELSE bulk.of)}
  /\ UNCHANGED <<page, db, shown, clicks, mishaps, astray>>

Other ==
  \E x \in Rows, v \in Values :
    /\ Mishap /\ db[x] # v /\ db[x] # "gone"
    /\ db' = [db EXCEPT ![x] = v] /\ calls' = Stale(calls, {x}) /\ astray' = TRUE
    /\ UNCHANGED <<page, View, bulk, clicks>>

Next ==
  \/ (\E f \in Filters : Apply(f)) \/ Refresh \/ \E x \in Rows, v \in Values : Act(x, v)
  \/ \E c \in calls : Read(c) \/ Deliver(c) \/ Carry(c) \/ Answer(c) \/ Lose(c)
  \/ (\E x \in Rows : Tick(x)) \/ TickAll
  \/ (\E k \in page.bulks : Begin(k)) \/ Step \/ StepFails \/ Finish \/ Other

Spec == Init /\ [][Next]_vars

-----------------------------------------------------------------------------
(* Properties *)

\* An operation that is reported done has changed the rows chosen at the click,
\* but for those that were gone, and no others, whatever has been ticked, shown
\* or filtered since; one that is reported failed no others either.
BulkIsExact ==
  bulk.pc = "go" /\ bulk.kind.on # "filter" =>
    /\ bulk.hit \subseteq bulk.chosen
    /\ bulk.todo = {} => bulk.hit \cup bulk.missing = bulk.chosen

\* With nothing under way the table is what the database answers to the filters,
\* unless it has been led astray.
TableIsTrue ==
  calls = {} /\ bulk.pc = "idle" /\ ~astray => shown = Listing(control)
=============================================================================
