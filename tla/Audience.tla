------------------------------ MODULE Audience ------------------------------
(***************************************************************************)
(* Who may be written to: recipients, the lists they are on, and the       *)
(* suppressions.  Operators import, add, remove and suppress, recipients   *)
(* unsubscribe; none of the requests runs in a transaction, so each is a   *)
(* sequence of reads and writes between which the others run.              *)
(***************************************************************************)
EXTENDS Integers, FiniteSets, FiniteSetsExt

CONSTANTS
  Emails,   \* normalized addresses
  Bad,      \* those that pass an import but not the check of `validate'
  Lists,
  Reqs,     \* requests that may be served at once
  Scripts,  \* what each request asks for, one scenario each: see Ops
  Starts    \* rows there are at first: [known, member, size, reason]

VARIABLES
  status,   \* Recipient.status, or "absent"
  exists,   \* lists that have not been deleted
  size,     \* RecipientList.maxSize
  member,   \* RecipientListMembership
  entry,    \* SuppressionEntry with scope global: id (0: none) and reason
  scoped,   \* SuppressionEntry with scope list: one per address, {} or {list}
  made,     \* entries ever made: the last id
  ask,      \* the scenario
  req,      \* requests under way
  out,      \* history: addresses that have unsubscribed and left every list
  muted,    \* history: addresses that have unsubscribed and were suppressed
  loose     \* history: lists whose size something else than one request broke

vars == <<status, exists, size, member, entry, scoped, made, ask, req, out, muted, loose>>
Tables == <<status, exists, size, member, entry, scoped, made>>

Reasons == {"manual", "page"}
None == [id |-> 0, reason |-> "manual"]
Adding == {"import", "add"}
\* `on' is a set of addresses, `lists' the lists that are concerned.
Ops == [op : {"import", "add", "byid", "remove", "bulkRemove", "suppress", "suppressAll",
              "scope", "failures", "unsuppress", "filter", "unsubscribe", "validate",
              "removeInvalid", "removeSuppressed", "clear", "resize", "drop"},
        on : SUBSET Emails, lists : SUBSET Lists, flag : BOOLEAN]
Idle == [pc |-> "idle", max |-> 0, todo |-> {}, toRead |-> {}, seen |-> {}, during |-> {}]

\* What is asked for and what there is at first: an unsubscribe is somebody's, and
\* the settings it reads say whether it leaves the lists (removeFromAllLists: all or
\* none) and is suppressed (addToSuppression: `flag'); a scope is one list, members
\* are known and fit their list.
AudienceAssumption ==
  /\ IsFiniteSet(Emails)
  /\ Scripts \subseteq [Reqs -> Ops]
  /\ \A f \in Scripts, r \in Reqs :
       /\ f[r].op = "unsubscribe" => f[r].on # {} /\ f[r].lists \in {{}, Lists}
       /\ f[r].op = "scope" => Cardinality(f[r].lists) = 1
  /\ Starts \subseteq [known : SUBSET Emails, member : [Lists -> SUBSET Emails],
                       size : Nat, reason : Reasons \cup {"none"}]
  /\ \A s \in Starts, l \in Lists :
       s.member[l] \subseteq s.known /\ Cardinality(s.member[l]) <= s.size

Suppressed(e) == entry[e].id # 0
Listed(e) == \E l \in Lists : e \in member[l]

TypeOK ==
  /\ status \in [Emails -> {"absent", "active", "invalid", "unsubscribed"}]
  /\ exists \subseteq Lists /\ size \in [Lists -> Nat]
  /\ \A l \in Lists : /\ l \notin exists => member[l] = {}
                      /\ \A e \in member[l] : status[e] # "absent"
  /\ \A e \in Emails : entry[e].id \in 0..made /\ entry[e].reason \in Reasons
  /\ \A e \in Emails : Cardinality(scoped[e]) <= 1
  /\ out \subseteq Emails /\ muted \subseteq Emails /\ loose \subseteq Lists

Init ==
  /\ ask \in Scripts
  /\ \E s \in Starts :
       /\ status = [e \in Emails |-> IF e \in s.known THEN "active" ELSE "absent"]
       /\ size = [l \in Lists |-> s.size] /\ member = s.member
       /\ entry = [e \in Emails |-> IF e \in s.known /\ s.reason # "none"
                                      THEN [id |-> 1, reason |-> s.reason] ELSE None]
  /\ exists = Lists /\ scoped = [e \in Emails |-> {}] /\ made = 1
  /\ req = [r \in Reqs |-> Idle] /\ out = {} /\ muted = {} /\ loose = {}

-----------------------------------------------------------------------------
(* Steps of requests *)

Asks(r, op) == ask[r].op = op
List(r) == CHOOSE l \in ask[r].lists : TRUE
Busy(r) == req[r].pc \notin {"idle", "done"}

\* Request r goes on as `next'; every other request under way notes that r has
\* touched the addresses E.
Goes(r, next, E) ==
  req' = [q \in Reqs |-> IF q = r THEN next
                         ELSE IF Busy(q) THEN [req[q] EXCEPT !.during = @ \cup E] ELSE req[q]]
At(r, pc) == req[r].pc = pc
Done(r) == [req[r] EXCEPT !.pc = "done"]

\* Rows written for the addresses E.
Known(E) == [e \in Emails |-> IF e \in E /\ status[e] = "absent" THEN "active" ELSE status[e]]
Off(E, L) == [l \in Lists |-> IF l \in L THEN member[l] \ E ELSE member[l]]
\* An upsert of entries; createMany with skipDuplicates leaves those there are.
Upserted(E, reason) ==
  [e \in Emails |-> IF e \notin E THEN entry[e]
                    ELSE [id |-> IF Suppressed(e) THEN entry[e].id ELSE made + 1, reason |-> reason]]
Created(E, reason) ==
  [e \in Emails |-> IF e \in E /\ ~Suppressed(e) THEN [id |-> made + 1, reason |-> reason] ELSE entry[e]]

-----------------------------------------------------------------------------
(* Additions *)

\* The list row is read first.
AddStart(r) ==
  /\ At(r, "idle") /\ ask[r].op \in Adding /\ List(r) \in exists
  /\ Goes(r, [Idle EXCEPT !.pc = IF Asks(r, "import") THEN "read" ELSE "count",
                !.max = size[List(r)], !.todo = ask[r].on,
                !.toRead = {"list", "suppressed"} \cup (IF ask[r].flag THEN {"any"} ELSE {})], {})
  /\ UNCHANGED <<Tables, ask, out, muted, loose>>

\* Faulty variant: the suppressions are not consulted.
ImportReadUnfiltered(r, what) ==
  LET found == CASE what = "list" -> member[List(r)]
                 [] what = "any" -> UNION {member[l] : l \in Lists}
                 [] what = "suppressed" -> {}
      rest == req[r].toRead \ {what}
  IN /\ At(r, "read") /\ what \in req[r].toRead
     /\ Goes(r, [req[r] EXCEPT !.todo = @ \ found, !.toRead = rest,
                   !.pc = IF rest = {} THEN "count" ELSE "read"], {})
     /\ UNCHANGED <<Tables, ask, out, muted, loose>>

\* An import leaves out who is on the list, on any list if asked to, or is
\* suppressed; the three queries run at once.
ImportRead(r, what) ==
  LET found == CASE what = "list" -> member[List(r)]
                 [] what = "any" -> UNION {member[l] : l \in Lists}
                 [] what = "suppressed" -> {e \in Emails : Suppressed(e) \/ scoped[e] = {List(r)}}
      rest == req[r].toRead \ {what}
  IN /\ At(r, "read") /\ what \in req[r].toRead
     /\ Goes(r, [req[r] EXCEPT !.todo = @ \ found, !.toRead = rest,
                   !.pc = IF rest = {} THEN "count" ELSE "read"], {})
     /\ UNCHANGED <<Tables, ask, out, muted, loose>>

Raced(r) ==
  IF \E q \in Reqs \ {r} : At(q, "write") /\ List(q) = List(r) THEN {List(r)} ELSE {}

\* An import is cut off at the free places, the other additions are refused.
Count(r) ==
  LET free == Max({0, req[r].max - Cardinality(member[List(r)])})
      wanted == req[r].todo
  IN /\ At(r, "count")
     /\ \E E \in SUBSET wanted :
          /\ Cardinality(E) = IF Asks(r, "import") THEN Min({free, Cardinality(wanted)})
                              ELSE IF Cardinality(wanted) <= free THEN Cardinality(wanted) ELSE 0
          /\ Goes(r, [req[r] EXCEPT !.todo = E, !.pc = IF E = {} THEN "done" ELSE "write"], {})
     /\ loose' = loose \cup Raced(r)
     /\ UNCHANGED <<Tables, ask, out, muted>>

\* The recipient, who keeps the status there is, and the membership; a list
\* that has been deleted fails the request.
Write(r) ==
  \E e \in req[r].todo :
    LET l == List(r)  rest == req[r].todo \ {e}  ok == l \in exists
    IN /\ At(r, "write")
       /\ status' = Known({e})
       /\ member' = IF ok THEN [member EXCEPT ![l] = @ \cup {e}] ELSE member
       /\ out' = IF Asks(r, "add") \/ e \in req[r].during THEN out \ {e} ELSE out
       /\ Goes(r, [req[r] EXCEPT !.todo = rest,
                     !.pc = IF rest = {} \/ ~ok THEN "done" ELSE "write"], {e})
       /\ UNCHANGED <<exists, size, entry, scoped, made, ask, muted, loose>>

\* A known recipient is added by id, whatever the size of the list.
AddById(r) ==
  LET l == List(r)  E == {e \in ask[r].on : status[e] # "absent"} IN
  /\ At(r, "idle") /\ Asks(r, "byid") /\ l \in exists
  /\ member' = [member EXCEPT ![l] = @ \cup E]
  /\ out' = out \ E /\ loose' = loose \cup {l}
  /\ Goes(r, Done(r), E)
  /\ UNCHANGED <<status, exists, size, entry, scoped, made, ask, muted>>

-----------------------------------------------------------------------------
(* Removals *)

\* One statement on a list: a member is removed, the invalid ones, the
\* suppressed ones, or all; `validate' only marks them.
Gone(r) ==
  LET l == List(r) IN
  CASE Asks(r, "remove") -> ask[r].on
    [] Asks(r, "removeInvalid") -> {e \in Emails : status[e] = "invalid" \/ e \in Bad}
    [] Asks(r, "removeSuppressed") -> {e \in Emails : Suppressed(e) \/ scoped[e] = {l}}
    [] ask[r].op \in {"clear", "drop"} -> Emails
    [] OTHER -> {}

\* The list itself is deleted, or given another size.
Kept(r) == IF Asks(r, "drop") THEN exists \ {List(r)} ELSE exists
Resized(r) == IF Asks(r, "resize") THEN [size EXCEPT ![List(r)] = 1] ELSE size

ListStatement(r) ==
  LET l == List(r) IN
  /\ At(r, "idle")
  /\ ask[r].op \in {"remove", "removeInvalid", "removeSuppressed", "clear", "drop", "validate", "resize"}
  /\ l \in exists
  /\ member' = Off(Gone(r), {l})
  /\ exists' = Kept(r)
  /\ status' = IF Asks(r, "validate")
                 THEN [e \in Emails |-> IF e \in Bad \cap member[l] THEN "invalid" ELSE status[e]]
                 ELSE status
  /\ size' = Resized(r)
  \* a smaller size removes nobody, and an addition under way has read the old one
  /\ loose' = IF Asks(r, "resize") THEN loose \cup {l} ELSE loose
  /\ Goes(r, Done(r), {})
  /\ UNCHANGED <<entry, scoped, made, ask, out, muted>>

\* bulk-remove: known recipients leave the list, or all of them, and are then
\* suppressed one by one.
BulkRemove(r) ==
  LET E == {e \in ask[r].on : status[e] # "absent"} IN
  /\ At(r, "idle") /\ Asks(r, "bulkRemove")
  /\ member' = Off(E, ask[r].lists)
  /\ Goes(r, [Idle EXCEPT !.todo = E, !.pc = IF ask[r].flag /\ E # {} THEN "suppress" ELSE "done"], {})
  /\ UNCHANGED <<status, exists, size, entry, scoped, made, ask, out, muted, loose>>

BulkSuppress(r) ==
  \E e \in req[r].todo :
    /\ At(r, "suppress")
    /\ entry' = Upserted({e}, "manual") /\ made' = made + 1
    /\ out' = out \ {e} /\ muted' = muted \ {e}
    /\ Goes(r, [req[r] EXCEPT !.todo = @ \ {e},
                  !.pc = IF req[r].todo = {e} THEN "done" ELSE "suppress"], {e})
    /\ UNCHANGED <<status, exists, size, member, scoped, ask, loose>>

-----------------------------------------------------------------------------
(* Suppressions *)

\* One address: global, or for a list, of which an address can have only one.
Suppress(r) ==
  /\ At(r, "idle") /\ ask[r].op \in {"suppress", "scope"}
  /\ IF Asks(r, "scope")
       THEN /\ scoped' = [e \in Emails |-> IF e \in ask[r].on THEN ask[r].lists ELSE scoped[e]]
            /\ UNCHANGED <<entry, made, out, muted>>
       ELSE /\ entry' = Upserted(ask[r].on, "manual") /\ made' = made + 1
            /\ out' = out \ ask[r].on /\ muted' = muted \ ask[r].on /\ UNCHANGED scoped
  /\ Goes(r, Done(r), ask[r].on)
  /\ UNCHANGED <<status, exists, size, member, ask, loose>>

\* Several, typed in or taken from the failures in the campaign log: the
\* entries there are, are read, the others are created ...
SuppressRead(r) ==
  /\ At(r, "idle") /\ ask[r].op \in {"suppressAll", "failures"}
  /\ Goes(r, [Idle EXCEPT !.pc = "create", !.todo = {e \in ask[r].on : ~Suppressed(e)}], {})
  /\ UNCHANGED <<Tables, ask, out, muted, loose>>

SuppressCreate(r) ==
  /\ At(r, "create")
  /\ entry' = Created(req[r].todo, "manual") /\ made' = made + 1
  /\ Goes(r, [req[r] EXCEPT !.pc = IF Asks(r, "failures") /\ ask[r].flag THEN "again" ELSE "done"],
          req[r].todo)
  /\ UNCHANGED <<status, exists, size, member, scoped, ask, out, muted, loose>>

\* ... and those that are suppressed now leave all lists.
SuppressAgain(r) ==
  /\ At(r, "again")
  /\ Goes(r, [req[r] EXCEPT !.pc = "leave", !.todo = {e \in @ : Suppressed(e)}], {})
  /\ UNCHANGED <<Tables, ask, out, muted, loose>>

FailuresLeave(r) ==
  /\ At(r, "leave") /\ member' = Off(req[r].todo, Lists)
  /\ Goes(r, Done(r), {})
  /\ UNCHANGED <<status, exists, size, entry, scoped, made, ask, out, muted, loose>>

\* By address, or by the id on the operator's page.
Unsuppress(r) ==
  /\ At(r, "idle") /\ Asks(r, "unsuppress")
  /\ entry' = [e \in Emails |-> IF e \in ask[r].on THEN None ELSE entry[e]]
  /\ out' = out \ ask[r].on /\ muted' = muted \ ask[r].on
  /\ Goes(r, Done(r), ask[r].on)
  /\ UNCHANGED <<status, exists, size, member, scoped, made, ask, loose>>

\* By a filter (here the reason): the ids of a page are read, then deleted; the
\* next page reads behind the last id, where a newer entry may be or not.
Matching(r) ==
  {e \in Emails : Suppressed(e) /\ (ask[r].flag \/ entry[e].reason = "manual")}
FilterPage(r) ==
  /\ Asks(r, "filter") /\ (At(r, "idle") \/ At(r, "page"))
  /\ \E E \in IF At(r, "idle") THEN {Matching(r)} ELSE SUBSET Matching(r) :
       Goes(r, [Idle EXCEPT !.pc = IF E = {} THEN "done" ELSE "delete",
                 !.seen = {<<e, entry[e].id>> : e \in E}], {})
  /\ UNCHANGED <<Tables, ask, out, muted, loose>>

FilterDelete(r) ==
  LET E == {e \in Emails : <<e, entry[e].id>> \in req[r].seen}
      meant == {e \in E : ask[r].flag \/ e \in req[r].during}
  IN
  /\ At(r, "delete")
  /\ entry' = [e \in Emails |-> IF e \in E THEN None ELSE entry[e]]
  /\ out' = out \ meant /\ muted' = muted \ meant
  /\ Goes(r, [req[r] EXCEPT !.pc = "page"], E)
  /\ UNCHANGED <<status, exists, size, member, scoped, made, ask, loose>>

-----------------------------------------------------------------------------
(* Unsubscribing *)

Me(r) == CHOOSE e \in ask[r].on : TRUE

\* The recipient is looked up, and leaves every list if the settings say so.
Leave(r) ==
  LET known == {e \in {Me(r)} : status[e] # "absent"} IN
  /\ At(r, "idle") /\ Asks(r, "unsubscribe")
  /\ member' = Off(known, ask[r].lists)
  /\ Goes(r, [Idle EXCEPT !.pc = "status", !.todo = known], {})
  /\ UNCHANGED <<status, exists, size, entry, scoped, made, ask, out, muted, loose>>

\* One that was known is marked; without the suppression that is all.
MarkUnsubscribed(r) ==
  /\ At(r, "status")
  /\ status' = [e \in Emails |-> IF e \in req[r].todo THEN "unsubscribed" ELSE status[e]]
  /\ Goes(r, [req[r] EXCEPT !.pc = IF ask[r].flag THEN "find" ELSE "done"], {})
  /\ UNCHANGED <<exists, size, member, entry, scoped, made, ask, out, muted, loose>>

FindEntry(r) ==
  /\ At(r, "find")
  /\ Goes(r, [req[r] EXCEPT !.pc = "put", !.seen = IF Suppressed(Me(r)) THEN {<<Me(r), 1>>} ELSE {}], {})
  /\ UNCHANGED <<Tables, ask, out, muted, loose>>

\* What the recipient is told is that the address left every list (if the
\* settings say so, and nobody has added it meanwhile) and is suppressed.
Promised(r, ok) ==
  /\ muted' = IF ok THEN muted \cup {Me(r)} ELSE muted
  /\ out' = IF ok /\ ask[r].lists = Lists /\ Me(r) \notin req[r].during THEN out \cup {Me(r)} ELSE out

\* Faulty variant: an entry there is, is taken for good enough.
PutEntryOnce(r) ==
  LET e == Me(r)  ok == Suppressed(e) <=> req[r].seen # {} IN
  /\ At(r, "put")
  /\ entry' = IF ok /\ ~Suppressed(e) THEN Upserted({e}, "page") ELSE entry
  /\ made' = made + 1 /\ Promised(r, ok)
  /\ Goes(r, Done(r), {e})
  /\ UNCHANGED <<status, exists, size, member, scoped, ask, loose>>

\* The entry is updated or created as it was found; if that has changed, the
\* statement fails and the recipient is not told to be unsubscribed.
PutEntry(r) ==
  LET e == Me(r)  ok == Suppressed(e) <=> req[r].seen # {} IN
  /\ At(r, "put")
  /\ entry' = IF ok THEN Upserted({e}, "page") ELSE entry
  /\ made' = made + 1 /\ Promised(r, ok)
  /\ Goes(r, Done(r), {e})
  /\ UNCHANGED <<status, exists, size, member, scoped, ask, loose>>

-----------------------------------------------------------------------------
(* Specification *)

Step(r) ==
  \/ AddStart(r) \/ (\E what \in {"list", "any", "suppressed"} : ImportRead(r, what))
  \/ Count(r) \/ Write(r) \/ AddById(r)
  \/ ListStatement(r) \/ BulkRemove(r) \/ BulkSuppress(r)
  \/ Suppress(r) \/ SuppressRead(r) \/ SuppressCreate(r) \/ SuppressAgain(r) \/ FailuresLeave(r)
  \/ Unsuppress(r) \/ FilterPage(r) \/ FilterDelete(r)
  \/ Leave(r) \/ MarkUnsubscribed(r) \/ FindEntry(r) \/ PutEntry(r)

Next == \E r \in Reqs : Step(r)
Spec == Init /\ [][Next]_vars

-----------------------------------------------------------------------------
(* Properties *)

\* Whoever unsubscribed while the settings ask for a suppression (the default)
\* stays suppressed until an operator writes or lifts the suppression: no import
\* undoes it, not even one under way at once, and no removal of other suppressions
\* but one that had already read this entry.  Whoever left every list as well stays
\* off all of them, until an operator adds the address by hand or lifts the
\* suppression, or an import that was under way when they left writes it.
UnsubscribeHolds ==
  /\ \A e \in muted : Suppressed(e)
  /\ \A e \in out : e \in muted /\ ~Listed(e)

\* A list does not outgrow its size, unless two additions have counted before
\* either wrote, a recipient was added by id, or the size was made smaller.
ListsWithinSize == \A l \in Lists \ loose : Cardinality(member[l]) <= size[l]
=============================================================================
