---------------------------- MODULE AlibabaManual ----------------------------
(***************************************************************************)
(* The synchronization of suppressions that one request does from the     *)
(* first page to the last: it asks the provider for a page, suppresses its *)
(* addresses and takes them off the lists, and reports what it has done.   *)
(* Others change suppressions and lists meanwhile; nothing is undone when  *)
(* a page fails.  Days are numbers.                                        *)
(***************************************************************************)
EXTENDS Integers, FiniteSets, FiniteSetsExt

CONSTANTS
  Emails,
  Books,     \* what a provider may hold: cursor -> [rows, next]; cursor 0 comes first
  MaxPages,  \* ALIBABA_SYNC_MAX_PAGES
  Today,
  Picks,     \* what an operator may ask for: [mode, from, to, kinds, leave]
  MaxOthers  \* bound: changes that others make

Kinds == {"invalid", "hard_bounce", "complaint", "blocked_rejected", "temporary"}
\* A record without a readable address has none of Emails.
NoEmail == 0
NoCursor == 0

VARIABLES
  suppressed, listed,   \* the tables: addresses with an entry, and on a list
  book, pick,           \* the provider's pages; the request
  range,                \* [from, to] that the provider is asked for
  pc, cursor, last, pages, cands, existing, fresh,
  matched, added, already, warned, failed,   \* the report
  handled, made, cut,     \* history: addresses of pages done, rows made, a page was cut off
  garbled,                \* history: an answer that could not be read was taken for an empty page
  others, touched         \* history: addresses that others changed

Tables == <<suppressed, listed>>
Asked == <<book, pick, range>>
Report == <<matched, added, already, warned, failed>>
History == <<handled, made, cut, garbled, others, touched>>
vars == <<Tables, Asked, pc, cursor, last, pages, cands, existing, fresh, Report, History>>

\* The pages of a book lead to its pages.
ManualAssumption ==
  /\ IsFiniteSet(Emails) /\ Today \in Int
  /\ \A b \in Books : /\ NoCursor \in DOMAIN b
                      /\ \A c \in DOMAIN b : /\ b[c].next \in DOMAIN b
                                             /\ \A line \in b[c].rows : line.email \in Emails \cup {NoEmail}
  /\ \A p \in Picks : p.from \in Int /\ p.to \in Int

TypeOK ==
  /\ suppressed \subseteq Emails /\ listed \subseteq Emails
  /\ pick.mode \in {"disabled", "real", "unauthorized", "mock"} /\ pick.kinds \subseteq Kinds
  /\ pc \in {"idle", "fetch", "read", "create", "leave", "next", "done", "refused"}
  /\ cands \cup existing \subseteq Emails
  /\ pages \in 0..MaxPages /\ {matched, added, already, made, fresh} \subseteq Nat
  /\ handled \cup touched \subseteq Emails

Init ==
  /\ suppressed \in SUBSET Emails /\ listed = Emails
  /\ book \in Books
  /\ pick \in Picks /\ range = [from |-> 0, to |-> 0]
  /\ pc = "idle" /\ cursor = NoCursor /\ last = NoCursor /\ pages = 0 /\ cands = {} /\ existing = {} /\ fresh = 0
  /\ matched = 0 /\ added = 0 /\ already = 0 /\ warned = FALSE /\ failed = FALSE
  /\ handled = {} /\ made = 0 /\ cut = FALSE /\ garbled = FALSE /\ others = 0 /\ touched = {}

-----------------------------------------------------------------------------
(* The request *)

\* Faulty variant: the present day is taken for a completed one.
NormalizeToday(from, to) ==
  LET oldest == Today - 30
      end == IF to > Today THEN Today - 1 ELSE to
      start == Min({IF from >= Today THEN end ELSE from, end})
  IN [from |-> Max({start, oldest}), to |-> Max({end, oldest})]

\* normalizeDateRange: the provider knows the last 30 completed days.
Normalize(from, to) ==
  LET oldest == Today - 30
      end == IF to >= Today THEN Today - 1 ELSE to
      start == Min({IF from >= Today THEN end ELSE from, end})
  IN [from |-> Max({start, oldest}), to |-> Max({end, oldest})]

\* The mode is `disabled', `real', `unauthorized' if it is set to real but there
\* are no credentials, or `mock', the fallback without them.
Ask ==
  /\ pc = "idle"
  /\ IF pick.from > pick.to THEN pc' = "refused" /\ UNCHANGED <<range, failed>>
     ELSE /\ range' = Normalize(pick.from, pick.to)
          /\ pc' = IF pick.mode \in {"real", "mock"} THEN "fetch" ELSE "done"
          /\ failed' = (pick.mode = "unauthorized")
  /\ UNCHANGED <<Tables, book, pick, cursor, last, pages, cands, existing, fresh, matched, added, already, warned,
                 handled, made, cut, garbled, others, touched>>

\* QueryInvalidAddress returns nothing that is temporary; the failures in the
\* campaign log, which stand for the provider in `mock', may be.
Category(row) == IF row.kind = "temporary" /\ pick.mode = "real" THEN "invalid" ELSE row.kind
Candidates(rows) ==
  {row.email : row \in {x \in rows : x.email # NoEmail /\ Category(x) # "temporary" /\ Category(x) \in pick.kinds}}

\* One page.  An answer that is no JSON counts as an empty last page, and is no
\* error if the status is fine; the log of campaigns is one page.
Fetch(answer) ==
  LET rows == IF answer \in {"garbled", "refused"} THEN {} ELSE book[cursor].rows
      found == Candidates(rows)
  IN /\ pc = "fetch" /\ pages < MaxPages
     /\ answer \in IF pick.mode = "mock" THEN {"fine"} ELSE {"fine", "partial", "garbled", "refused", "throws"}
     /\ pages' = pages + 1
     /\ IF answer = "throws"
          THEN pc' = "done" /\ failed' = TRUE /\ UNCHANGED <<cands, matched, garbled>>
          ELSE /\ pc' = "read" /\ cands' = found /\ matched' = matched + Cardinality(found)
               /\ failed' = (failed \/ answer \in {"partial", "refused"})
               /\ garbled' = (garbled \/ answer = "garbled")
     \* an error page or a garbled one has no cursor of the next
     /\ last' = IF answer \in {"garbled", "refused"} \/ pick.mode = "mock" THEN NoCursor
                ELSE IF answer = "throws" THEN last ELSE book[cursor].next
     /\ UNCHANGED <<Tables, Asked, cursor, existing, fresh, added, already, warned, handled, made, cut, others, touched>>

-----------------------------------------------------------------------------
(* applySuppressionBatch *)

Read ==
  /\ pc = "read" /\ pc' = "create" /\ existing' = cands \cap suppressed
  /\ UNCHANGED <<Tables, Asked, cursor, last, pages, cands, fresh, Report, History>>

\* Faulty variant: what was to be created is counted, not what was.
CreateCounted ==
  LET new == cands \ existing IN
  /\ pc = "create" /\ pc' = "leave"
  /\ suppressed' = suppressed \cup new
  /\ fresh' = Cardinality(new) /\ made' = made + Cardinality(new \ suppressed)
  /\ UNCHANGED <<listed, Asked, cursor, last, pages, cands, existing, Report, handled, cut, garbled, others, touched>>

\* createMany with skipDuplicates returns the number of rows it has made.
Create ==
  LET new == (cands \ existing) \ suppressed IN
  /\ pc = "create" /\ pc' = "leave"
  /\ suppressed' = suppressed \cup new
  /\ fresh' = Cardinality(new) /\ made' = made + Cardinality(new)
  /\ UNCHANGED <<listed, Asked, cursor, last, pages, cands, existing, Report, handled, cut, garbled, others, touched>>

Counted ==
  /\ added' = added + fresh
  /\ already' = already + Cardinality(existing) + (Cardinality(cands \ existing) - fresh)
  /\ handled' = handled \cup cands

\* Faulty variant: only those that were suppressed just now leave the lists.
LeaveNewOnly ==
  /\ pc = "leave" /\ pc' = "next" /\ Counted
  /\ listed' = IF pick.leave THEN listed \ (cands \ existing) ELSE listed
  /\ UNCHANGED <<suppressed, Asked, cursor, last, pages, cands, existing, fresh, matched, warned, failed,
                 made, cut, garbled, others, touched>>

\* Every candidate leaves the lists, whether it was suppressed before or not.
Leave ==
  /\ pc = "leave" /\ pc' = "next" /\ Counted
  /\ listed' = IF pick.leave THEN listed \ cands ELSE listed
  /\ UNCHANGED <<suppressed, Asked, cursor, last, pages, cands, existing, fresh, matched, warned, failed,
                 made, cut, garbled, others, touched>>

\* The database fails: what was done stays done, but this page's share of it is
\* in no counter.  The real synchronization reports an error, the mock one
\* answers nothing.
Throw ==
  /\ pc \in {"read", "create", "leave"} /\ cands # {}
  /\ pc' = IF pick.mode = "mock" THEN "refused" ELSE "done"
  /\ failed' = TRUE /\ cut' = TRUE
  /\ UNCHANGED <<Tables, Asked, cursor, last, pages, cands, existing, fresh, matched, added, already, warned,
                 handled, made, garbled, others, touched>>

-----------------------------------------------------------------------------
(* The next page *)

\* Faulty variant: the limit of pages is not reported.
TurnSilent ==
  /\ pc = "next"
  /\ pc' = IF last = NoCursor \/ (cursor # NoCursor /\ last = cursor) \/ pages = MaxPages THEN "done" ELSE "fetch"
  /\ cursor' = last
  /\ warned' = (last # NoCursor /\ cursor # NoCursor /\ last = cursor)
  /\ UNCHANGED <<Tables, Asked, last, pages, cands, existing, fresh, matched, added, already, failed,
                 handled, made, cut, garbled, others, touched>>

\* No next page, the same one again, or too many.
Turn ==
  LET same == last # NoCursor /\ cursor # NoCursor /\ last = cursor
      limit == last # NoCursor /\ pages = MaxPages
  IN /\ pc = "next"
     /\ pc' = IF last = NoCursor \/ same \/ limit THEN "done" ELSE "fetch"
     /\ cursor' = last
     /\ warned' = (same \/ limit)
     /\ UNCHANGED <<Tables, Asked, last, pages, cands, existing, fresh, matched, added, already, failed,
                    handled, made, cut, garbled, others, touched>>

-----------------------------------------------------------------------------
(* Everybody else *)

Other(e, what) ==
  /\ others < MaxOthers /\ others' = others + 1 /\ pc \notin {"idle", "refused"}
  /\ suppressed' = CASE what = "suppress" -> suppressed \cup {e}
                     [] what = "lift" -> suppressed \ {e} [] OTHER -> suppressed
  /\ listed' = IF what = "import" THEN listed \cup {e} ELSE listed
  /\ touched' = touched \cup {e}
  /\ UNCHANGED <<Asked, pc, cursor, last, pages, cands, existing, fresh, Report, handled, made, cut, garbled>>

Next ==
  \/ Ask
  \/ \E a \in {"fine", "partial", "garbled", "refused", "throws"} : Fetch(a)
  \/ Read \/ Create \/ Leave \/ Throw \/ Turn
  \/ \E e \in Emails, what \in {"suppress", "lift", "import"} : Other(e, what)

Spec == Init /\ [][Next]_vars

-----------------------------------------------------------------------------
(* Properties *)

\* Every address of a page that was done stays suppressed, and off the lists if
\* that was wanted, unless others have changed it.
HandledHolds ==
  \A e \in handled \ touched : e \in suppressed /\ (pick.leave => e \notin listed)

\* The pages that follow one another from the first.
Cursors[n \in Nat] ==
  IF n = 0 THEN {NoCursor} ELSE Cursors[n - 1] \cup {book[c].next : c \in Cursors[n - 1]}
AllPages == Cursors[Cardinality(DOMAIN book)]

\* The days asked for are completed days, and those that were wanted if any was
\* in reach.
DaysAreRight ==
  pc = "done" =>
    /\ range.from <= range.to /\ range.from >= Today - 30 /\ range.to < Today
    /\ (pick.from < Today /\ pick.to >= Today - 30) =>
         range = [from |-> Max({pick.from, Today - 30}), to |-> Min({pick.to, Today - 1})]

\* What the report calls added was made by this request and the rest of what it
\* calls matched was there, unless a page was cut off.
CountsAddUp ==
  pc = "done" => added <= made /\ (~cut => added = made /\ added + already = matched)

\* If the report has neither an error nor a warning, no page is missing, unless an
\* answer could not be read, which nothing reports.
NoPageIsMissing ==
  (pc = "done" /\ pick.mode = "real" /\ ~failed /\ ~warned /\ ~garbled) =>
    handled = UNION {Candidates(book[c].rows) : c \in AllPages}
=============================================================================
