--------------------------- MODULE AudienceProofs ---------------------------
(***************************************************************************)
(* Who unsubscribed stays off, and lists keep their size, for any number   *)
(* of addresses, lists and requests under way at once, whatever they ask   *)
(* for (AudienceAssumption: what is asked for is well formed).             *)
(***************************************************************************)
EXTENDS Audience, FiniteSetTheorems, TLAPS

-----------------------------------------------------------------------------
(* Types *)

Pcs == {"idle", "done", "read", "count", "write", "suppress", "create", "again",
        "leave", "delete", "page", "status", "find", "put"}
Sources == {"list", "any", "suppressed"}
Local == [pc : Pcs, max : Nat, todo : SUBSET Emails, toRead : SUBSET Sources,
          seen : SUBSET (Emails \X Nat), during : SUBSET Emails]

Tabled ==
  /\ status \in [Emails -> {"absent", "active", "invalid", "unsubscribed"}]
  /\ exists \subseteq Lists /\ size \in [Lists -> Nat]
  /\ member \in [Lists -> SUBSET Emails]
  /\ entry \in [Emails -> [id : Nat, reason : Reasons]]
  /\ scoped \in [Emails -> SUBSET Lists] /\ made \in Nat

\* The entries' ids are made in order; a request that unsubscribes has somebody
\* to unsubscribe; what an addition writes goes to a list.
Fit(r, pc) == /\ pc \in {"status", "find", "put"} => Asks(r, "unsubscribe")
              /\ pc \in {"read", "count", "write"} => List(r) \in Lists
TypeInv ==
  /\ Tabled /\ TypeOK
  /\ ask \in Scripts
  /\ req \in [Reqs -> Local]
  /\ \A r \in Reqs : Fit(r, req[r].pc)

LEMMA AskType ==
  ASSUME AudienceAssumption, TypeInv, NEW r \in Reqs
  PROVE  /\ ask[r] \in Ops /\ ask[r].on \subseteq Emails /\ ask[r].lists \subseteq Lists
         /\ ask[r].flag \in BOOLEAN
         /\ Asks(r, "unsubscribe") => Me(r) \in Emails
         /\ Asks(r, "scope") => Cardinality(ask[r].lists) <= 1
<1>1. ask \in Scripts /\ ask \in [Reqs -> Ops]
  BY DEF AudienceAssumption, TypeInv
<1>2. ask[r] \in Ops
  BY <1>1
<1>3. Asks(r, "unsubscribe") => ask[r].on # {}
  BY <1>1 DEF AudienceAssumption, Asks
<1>4. Asks(r, "scope") => Cardinality(ask[r].lists) = 1
  BY <1>1 DEF AudienceAssumption, Asks
<1>5. ask[r].on \subseteq Emails /\ ask[r].lists \subseteq Lists /\ ask[r].flag \in BOOLEAN
  BY <1>2 DEF Ops
<1>6. Asks(r, "unsubscribe") => Me(r) \in Emails
  BY <1>3, <1>5 DEF Me
<1> QED
  BY <1>2, <1>4, <1>5, <1>6

\* What the others know after a step of r.
LEMMA GoesType ==
  ASSUME req \in [Reqs -> Local], NEW r \in Reqs, NEW next \in Local, NEW E \in SUBSET Emails,
         Goes(r, next, E)
  PROVE  /\ req' \in [Reqs -> Local] /\ req'[r] = next
         /\ \A q \in Reqs \ {r} :
              /\ req'[q].pc = req[q].pc /\ req'[q].max = req[q].max /\ req'[q].todo = req[q].todo
              /\ req'[q].toRead = req[q].toRead /\ req'[q].seen = req[q].seen
              /\ req[q].during \subseteq req'[q].during
              /\ req[q].pc \notin {"idle", "done"} => E \subseteq req'[q].during
<1>1. ASSUME NEW q \in Reqs, q # r
      PROVE  /\ req'[q] \in Local
             /\ req'[q].pc = req[q].pc /\ req'[q].max = req[q].max /\ req'[q].todo = req[q].todo
             /\ req'[q].toRead = req[q].toRead /\ req'[q].seen = req[q].seen
             /\ req[q].during \subseteq req'[q].during
             /\ req[q].pc \notin {"idle", "done"} => E \subseteq req'[q].during
  <2>1. req[q] \in Local
    OBVIOUS
  <2>2. req'[q] = IF Busy(q) THEN [req[q] EXCEPT !.during = @ \cup E] ELSE req[q]
    BY <1>1 DEF Goes
  <2> QED
    BY <2>1, <2>2 DEF Local, Busy
<1>2. req'[r] = next /\ DOMAIN req' = Reqs /\ req' = [q \in Reqs |-> req'[q]]
  BY DEF Goes
<1> QED
  BY <1>1, <1>2

\* What the tables say of each other.
Related ==
  /\ \A l \in Lists : /\ l \notin exists => member[l] = {}
                      /\ \A e \in member[l] : status[e] # "absent"
  /\ \A e \in Emails : entry[e].id <= made /\ Cardinality(scoped[e]) <= 1

Remembered == out \subseteq Emails /\ muted \subseteq Emails /\ loose \subseteq Lists

LEMMA TypeParts == TypeInv <=> /\ Tabled /\ Related /\ Remembered
                              /\ ask \in Scripts /\ req \in [Reqs -> Local]
                              /\ \A r \in Reqs : Fit(r, req[r].pc)
  BY DEF TypeInv, TypeOK, Tabled, Related, Remembered

LEMMA Typed ==
  ASSUME TypeInv, NEW r \in Reqs, NEW next \in Local, NEW E \in SUBSET Emails, Goes(r, next, E),
         ask' = ask, Tabled', Related', Remembered',
         Fit(r, next.pc)
  PROVE  TypeInv'
<1>1. req \in [Reqs -> Local] /\ \A q \in Reqs : Fit(q, req[q].pc)
  BY TypeParts
<1>2. req' \in [Reqs -> Local]
  BY <1>1, GoesType
<1>3. ASSUME NEW q \in Reqs PROVE Fit(q, req[q].pc)'
  <2>0. (\A op : Asks(q, op)' <=> Asks(q, op)) /\ List(q)' = List(q)
    BY DEF Asks, List
  <2>1. CASE q = r
    <3>1. req'[q].pc = next.pc
      BY <1>1, <2>1, GoesType
    <3> QED
      BY <2>0, <2>1, <3>1 DEF Fit
  <2>2. CASE q # r
    <3>1. req'[q].pc = req[q].pc
      BY <1>1, <2>2, GoesType
    <3> QED
      BY <1>1, <2>0, <3>1 DEF Fit
  <2> QED
    BY <2>1, <2>2
<1>4. Tabled /\ TypeOK' /\ ask' \in Scripts
  BY DEF TypeInv, TypeOK, Tabled, Related, Remembered
<1> QED
  BY <1>2, <1>3, <1>4 DEF TypeInv

\* Requests that read, or that only note something about themselves.
LEMMA TypeOfReads ==
  ASSUME AudienceAssumption, TypeInv, NEW r \in Reqs,
         \/ AddStart(r) \/ Count(r) \/ SuppressRead(r) \/ SuppressAgain(r) \/ FilterPage(r) \/ FindEntry(r)
         \/ \E what \in Sources : ImportRead(r, what)
  PROVE  TypeInv'
<1> USE DEF Remembered
<1>0. /\ Tabled /\ Related /\ Remembered /\ req[r] \in Local
      /\ req \in [Reqs -> Local] /\ Idle \in Local /\ Fit(r, req[r].pc)
  BY TypeParts DEF Idle, Local, Pcs
<1>1. ask[r].on \subseteq Emails /\ (Asks(r, "unsubscribe") => Me(r) \in Emails)
  BY AskType
<1>2. ASSUME UNCHANGED <<Tables, ask, out, muted>>, loose' \subseteq Lists,
             NEW next \in Local, Goes(r, next, {}),
             Fit(r, next.pc)
      PROVE  TypeInv'
  <2>1. Tabled' /\ Related'
    BY <1>0, <1>2 DEF Tables, Tabled, Related
  <2> QED
    BY <1>0, <1>2, <2>1, Typed
<1>3. CASE AddStart(r)
  <2> DEFINE next == [Idle EXCEPT !.pc = IF Asks(r, "import") THEN "read" ELSE "count",
                !.max = size[List(r)], !.todo = ask[r].on,
                !.toRead = {"list", "suppressed"} \cup (IF ask[r].flag THEN {"any"} ELSE {})]
  <2>1. size[List(r)] \in Nat
    BY <1>0, <1>3 DEF AddStart, Tabled
  <2>2. next \in Local /\ Fit(r, next.pc)
    <3>1. List(r) \in Lists
      BY <1>0, <1>3 DEF AddStart, Tabled
    <3>2. {"list", "suppressed"} \cup (IF ask[r].flag THEN {"any"} ELSE {}) \in SUBSET Sources
      BY DEF Sources
    <3>3. (IF Asks(r, "import") THEN "read" ELSE "count") \in {"read", "count"}
      OBVIOUS
    <3>4. next.pc \in {"read", "count"} /\ next \in Local
      BY <1>0, <1>1, <2>1, <3>2, <3>3 DEF Local, Pcs, Idle
    <3> QED
      BY <3>1, <3>4 DEF Fit
  <2>3. Goes(r, next, {}) /\ UNCHANGED <<Tables, ask, out, muted, loose>>
    BY <1>3 DEF AddStart
  <2> HIDE DEF next
  <2> QED
    BY <1>0, <1>2, <2>2, <2>3
<1>4. CASE Count(r)
  <2>1. PICK E \in SUBSET req[r].todo :
          Goes(r, [req[r] EXCEPT !.todo = E, !.pc = IF E = {} THEN "done" ELSE "write"], {})
    BY <1>4 DEF Count
  <2> DEFINE next == [req[r] EXCEPT !.todo = E, !.pc = IF E = {} THEN "done" ELSE "write"]
  <2>2. next \in Local /\ Fit(r, next.pc)
    BY <1>0, <1>4, <2>1 DEF Count, At, Fit, Local, Pcs
  <2>3. loose' \subseteq Lists
    <3>1. loose' = loose \cup Raced(r)
      BY <1>4 DEF Count
    <3>2. Raced(r) \subseteq Lists
      BY <1>0, <1>4 DEF Raced, Count, At, Fit
    <3> QED
      BY <1>0, <3>1, <3>2
  <2>4. Goes(r, next, {}) /\ UNCHANGED <<Tables, ask, out, muted>>
    BY <1>4, <2>1 DEF Count
  <2> HIDE DEF next
  <2> QED
    BY <1>2, <2>2, <2>3, <2>4
<1>5. CASE SuppressRead(r)
  <2> DEFINE next == [Idle EXCEPT !.pc = "create", !.todo = {e \in ask[r].on : ~Suppressed(e)}]
  <2>1. next \in Local /\ Fit(r, next.pc)
    BY <1>0, <1>1 DEF Local, Pcs, Idle, Fit
  <2>2. Goes(r, next, {}) /\ UNCHANGED <<Tables, ask, out, muted, loose>>
    BY <1>5 DEF SuppressRead
  <2> HIDE DEF next
  <2> QED
    BY <1>0, <1>2, <2>1, <2>2
<1>6. CASE SuppressAgain(r)
  <2> DEFINE next == [req[r] EXCEPT !.pc = "leave", !.todo = {e \in @ : Suppressed(e)}]
  <2>1. next \in Local /\ Fit(r, next.pc)
    BY <1>0 DEF Local, Pcs, Fit
  <2>2. Goes(r, next, {}) /\ UNCHANGED <<Tables, ask, out, muted, loose>>
    BY <1>6 DEF SuppressAgain
  <2> HIDE DEF next
  <2> QED
    BY <1>0, <1>2, <2>1, <2>2
<1>7. CASE FilterPage(r)
  <2>1. PICK E \in SUBSET Emails :
          Goes(r, [Idle EXCEPT !.pc = IF E = {} THEN "done" ELSE "delete",
                     !.seen = {<<e, entry[e].id>> : e \in E}], {})
    BY <1>7 DEF FilterPage, Matching
  <2> DEFINE next == [Idle EXCEPT !.pc = IF E = {} THEN "done" ELSE "delete",
                        !.seen = {<<e, entry[e].id>> : e \in E}]
  <2>2. {<<e, entry[e].id>> : e \in E} \subseteq Emails \X Nat
    BY <1>0 DEF Tabled
  <2>3. next \in Local /\ Fit(r, next.pc)
    BY <1>0, <2>2 DEF Local, Pcs, Idle, Fit
  <2>4. Goes(r, next, {}) /\ UNCHANGED <<Tables, ask, out, muted, loose>>
    BY <1>7, <2>1 DEF FilterPage
  <2> HIDE DEF next
  <2> QED
    BY <1>0, <1>2, <2>3, <2>4
<1>8. CASE FindEntry(r)
  <2> DEFINE next == [req[r] EXCEPT !.pc = "put",
                        !.seen = IF Suppressed(Me(r)) THEN {<<Me(r), 1>>} ELSE {}]
  <2>1. Asks(r, "unsubscribe") /\ Me(r) \in Emails
    BY <1>0, <1>1, <1>8 DEF FindEntry, At, Fit
  <2>2. next \in Local /\ Fit(r, next.pc)
    <3>1. (IF Suppressed(Me(r)) THEN {<<Me(r), 1>>} ELSE {}) \in SUBSET (Emails \X Nat)
      BY <2>1
    <3> QED
      BY <1>0, <2>1, <3>1 DEF Local, Pcs, Fit
  <2>3. Goes(r, next, {}) /\ UNCHANGED <<Tables, ask, out, muted, loose>>
    BY <1>8 DEF FindEntry
  <2> HIDE DEF next
  <2> QED
    BY <1>0, <1>2, <2>2, <2>3
<1>9. ASSUME NEW what \in Sources, ImportRead(r, what)
      PROVE  TypeInv'
  <2>1. PICK found :
          Goes(r, [req[r] EXCEPT !.todo = @ \ found, !.toRead = req[r].toRead \ {what},
                     !.pc = IF req[r].toRead \ {what} = {} THEN "count" ELSE "read"], {})
    BY <1>9 DEF ImportRead
  <2> DEFINE next == [req[r] EXCEPT !.todo = @ \ found, !.toRead = req[r].toRead \ {what},
                        !.pc = IF req[r].toRead \ {what} = {} THEN "count" ELSE "read"]
  <2>2. next \in Local /\ Fit(r, next.pc)
    BY <1>0, <1>9 DEF ImportRead, At, Local, Pcs, Fit
  <2>3. Goes(r, next, {}) /\ UNCHANGED <<Tables, ask, out, muted, loose>>
    BY <1>9, <2>1 DEF ImportRead
  <2> HIDE DEF next
  <2> QED
    BY <1>0, <1>2, <2>2, <2>3
<1> QED
  BY <1>3, <1>4, <1>5, <1>6, <1>7, <1>8, <1>9

\* Requests that change memberships, and the statuses that go with them.
LEMMA TypeOfMembers ==
  ASSUME AudienceAssumption, TypeInv, NEW r \in Reqs,
         \/ Write(r) \/ AddById(r) \/ ListStatement(r) \/ BulkRemove(r) \/ FailuresLeave(r)
         \/ Leave(r) \/ MarkUnsubscribed(r)
  PROVE  TypeInv'
<1> USE DEF Remembered
<1>0. /\ Tabled /\ Related /\ Remembered /\ req[r] \in Local
      /\ req \in [Reqs -> Local] /\ Idle \in Local /\ Fit(r, req[r].pc)
      /\ Done(r) \in Local /\ Fit(r, Done(r).pc) /\ ask' = ask
  BY TypeParts, ZenonT(40) DEF Idle, Local, Pcs, Done, Fit, Write, AddById, ListStatement, BulkRemove,
    FailuresLeave, Leave, MarkUnsubscribed
<1>1. /\ ask[r].on \subseteq Emails /\ (Asks(r, "unsubscribe") => Me(r) \in Emails)
  BY AskType
<1>2. ASSUME NEW E \in SUBSET Emails, NEW L
      PROVE  /\ Off(E, L) \in [Lists -> SUBSET Emails]
             /\ \A l \in Lists : Off(E, L)[l] \subseteq member[l]
  BY <1>0 DEF Off, Tabled
<1>3. CASE Write(r)
  <2>1. PICK e \in req[r].todo :
          /\ status' = Known({e})
          /\ member' = IF List(r) \in exists THEN [member EXCEPT ![List(r)] = @ \cup {e}] ELSE member
          /\ out' = IF Asks(r, "add") \/ e \in req[r].during THEN out \ {e} ELSE out
          /\ Goes(r, [req[r] EXCEPT !.todo = req[r].todo \ {e},
                        !.pc = IF req[r].todo \ {e} = {} \/ List(r) \notin exists THEN "done" ELSE "write"], {e})
          /\ UNCHANGED <<exists, size, entry, scoped, made, ask, muted, loose>> /\ At(r, "write")
    BY <1>3 DEF Write
  <2> DEFINE next == [req[r] EXCEPT !.todo = req[r].todo \ {e},
                        !.pc = IF req[r].todo \ {e} = {} \/ List(r) \notin exists THEN "done" ELSE "write"]
  <2>2. e \in Emails
    BY <1>0 DEF Local
  <2>3. next \in Local /\ Fit(r, next.pc)
    BY <1>0, <2>1 DEF Local, Pcs, Fit, At
  <2>4. Tabled'
    BY <1>0, <2>1, <2>2 DEF Tabled, Known
  <2>5. Related'
    <3>1. \A f \in Emails : status'[f] = "absent" => status[f] = "absent" /\ f # e
      BY <2>1, <2>2 DEF Known
    <3>2. \A l \in Lists : member'[l] \subseteq member[l] \cup {e} /\ (l \notin exists => member'[l] = member[l])
      BY <1>0, <2>1 DEF Tabled
    <3>3. \A l \in Lists : member[l] \subseteq Emails
      BY <1>0 DEF Tabled
    <3> QED
      BY <1>0, <2>1, <2>2, <3>1, <3>2, <3>3 DEF Related
  <2>6. Goes(r, next, {e})
    BY <2>1
  <2> HIDE DEF next
  <2> QED
    BY <1>0, <2>1, <2>2, <2>3, <2>4, <2>5, <2>6, Typed
<1>4. CASE AddById(r)
  <2> DEFINE E == {e \in ask[r].on : status[e] # "absent"}
  <2>1. /\ member' = [member EXCEPT ![List(r)] = @ \cup E] /\ List(r) \in Lists
        /\ List(r) \in exists /\ out' = out \ E /\ loose' = loose \cup {List(r)}
        /\ Goes(r, Done(r), E) /\ UNCHANGED <<status, exists, size, entry, scoped, made, ask, muted>>
    BY <1>0, <1>4 DEF AddById, Tabled
  <2>2. E \subseteq Emails
    BY <1>1
  <2>3. Tabled'
    BY <1>0, <2>1, <2>2 DEF Tabled
  <2>4. Related'
    BY <1>0, <2>1, <2>2 DEF Related, Tabled
  <2> HIDE DEF E
  <2> QED
    BY <1>0, <2>1, <2>2, <2>3, <2>4, Typed
<1>5. ASSUME NEW E \in SUBSET Emails, NEW L, member' = Off(E, L),
             UNCHANGED <<status, exists, size, entry, scoped, made, out, muted, loose>>,
             NEW next \in Local, Goes(r, next, {}), Fit(r, next.pc)
      PROVE  TypeInv'
  <2>1. Tabled' /\ Related'
    BY <1>0, <1>2, <1>5 DEF Tabled, Related
  <2> QED
    BY <1>0, <1>5, <2>1, Typed
<1>6. CASE BulkRemove(r)
  <2> DEFINE E == {e \in ask[r].on : status[e] # "absent"}
             next == [Idle EXCEPT !.todo = E, !.pc = IF ask[r].flag /\ E # {} THEN "suppress" ELSE "done"]
  <2>1. E \in SUBSET Emails /\ next \in Local /\ Fit(r, next.pc)
    BY <1>0, <1>1 DEF Idle, Local, Pcs, Fit
  <2>2. Goes(r, next, {}) /\ member' = Off(E, ask[r].lists)
        /\ UNCHANGED <<status, exists, size, entry, scoped, made, out, muted, loose>>
    BY <1>6 DEF BulkRemove
  <2> HIDE DEF next, E
  <2> QED
    BY <1>5, <2>1, <2>2
<1>7. CASE FailuresLeave(r)
  <2>1. req[r].todo \in SUBSET Emails
    BY <1>0 DEF Local
  <2> QED
    BY <1>0, <1>5, <1>7, <2>1 DEF FailuresLeave
<1>8. CASE Leave(r)
  <2> DEFINE known == {e \in {Me(r)} : status[e] # "absent"}
             next == [Idle EXCEPT !.pc = "status", !.todo = known]
  <2>1. next \in Local /\ Fit(r, next.pc) /\ known \in SUBSET Emails
    BY <1>0, <1>1, <1>8 DEF Leave, Idle, Local, Pcs, Fit
  <2>2. Goes(r, next, {}) /\ member' = Off(known, ask[r].lists)
        /\ UNCHANGED <<status, exists, size, entry, scoped, made, out, muted, loose>>
    BY <1>8 DEF Leave
  <2> HIDE DEF next, known
  <2> QED
    BY <1>5, <2>1, <2>2
<1>9. CASE MarkUnsubscribed(r)
  <2> DEFINE next == [req[r] EXCEPT !.pc = IF ask[r].flag THEN "find" ELSE "done"]
  <2>1. next \in Local /\ Fit(r, next.pc)
    BY <1>0, <1>9 DEF MarkUnsubscribed, At, Local, Pcs, Fit
  <2>2. Goes(r, next, {}) /\ status' = [e \in Emails |-> IF e \in req[r].todo THEN "unsubscribed" ELSE status[e]]
        /\ UNCHANGED <<exists, size, member, entry, scoped, made, out, muted, loose>>
    BY <1>9 DEF MarkUnsubscribed
  <2>3. Tabled' /\ Related'
    BY <1>0, <2>2 DEF Tabled, Related
  <2> HIDE DEF next
  <2> QED
    BY <1>0, <2>1, <2>2, <2>3, Typed
<1>10. CASE ListStatement(r)
  <2>1. /\ List(r) \in exists /\ member' = Off(Gone(r), {List(r)}) /\ exists' = Kept(r)
        /\ status' = IF Asks(r, "validate")
                       THEN [e \in Emails |-> IF e \in Bad \cap member[List(r)] THEN "invalid" ELSE status[e]]
                       ELSE status
        /\ size' = Resized(r) /\ loose' = IF Asks(r, "resize") THEN loose \cup {List(r)} ELSE loose
        /\ Goes(r, Done(r), {}) /\ UNCHANGED <<entry, scoped, made, ask, out, muted>>
    BY <1>10 DEF ListStatement
  <2>2. Gone(r) \subseteq Emails
    BY <1>1 DEF Gone, Asks
  <2>3. List(r) \in Lists
    BY <1>0, <2>1 DEF Tabled
  <2>4. Tabled'
    <3>1. exists' \subseteq Lists /\ size' \in [Lists -> Nat]
      BY <1>0, <2>1 DEF Tabled, Kept, Resized
    <3>2. status' \in [Emails -> {"absent", "active", "invalid", "unsubscribed"}]
      BY <1>0, <2>1 DEF Tabled
    <3>3. member' \in [Lists -> SUBSET Emails]
      BY <1>2, <2>1, <2>2
    <3> QED
      BY <1>0, <2>1, <3>1, <3>2, <3>3 DEF Tabled
  <2>5. Related'
    <3>1. \A l \in Lists : member'[l] \subseteq member[l]
      BY <1>2, <2>1, <2>2
    <3>2. \A l \in Lists : l \notin exists' => member'[l] = {}
      <4>1. CASE Asks(r, "drop")
        <5>1. Gone(r) = Emails /\ exists' = exists \ {List(r)}
          BY <2>1, <4>1 DEF Gone, Kept, Asks
        <5>2. member'[List(r)] = {}
          BY <1>0, <2>1, <2>3, <5>1 DEF Off, Tabled
        <5> QED
          BY <1>0, <3>1, <5>1, <5>2 DEF Related
      <4>2. CASE ~Asks(r, "drop")
        BY <1>0, <2>1, <3>1, <4>2 DEF Kept, Related
      <4> QED
        BY <4>1, <4>2
    <3>3. \A e \in Emails : status[e] # "absent" => status'[e] # "absent"
      BY <1>0, <2>1 DEF Tabled
    <3>4. \A l \in Lists : member[l] \subseteq Emails
      BY <1>0 DEF Tabled
    <3> QED
      BY <1>0, <2>1, <3>1, <3>2, <3>3, <3>4 DEF Related
  <2>6. Remembered' /\ {} \in SUBSET Emails
    BY <1>0, <2>1, <2>3
  <2> QED
    BY <1>0, <2>1, <2>4, <2>5, <2>6, Typed
<1> QED
  BY <1>3, <1>4, <1>6, <1>7, <1>8, <1>9, <1>10

\* Requests that change suppressions.
LEMMA TypeOfEntries ==
  ASSUME AudienceAssumption, TypeInv, NEW r \in Reqs,
         \/ BulkSuppress(r) \/ Suppress(r) \/ SuppressCreate(r) \/ Unsuppress(r)
         \/ FilterDelete(r) \/ PutEntry(r)
  PROVE  TypeInv'
<1> USE DEF Remembered
<1>0. /\ Tabled /\ Related /\ Remembered /\ req[r] \in Local
      /\ req \in [Reqs -> Local] /\ Fit(r, req[r].pc) /\ Done(r) \in Local /\ Fit(r, Done(r).pc)
      /\ entry \in [Emails -> [id : Nat, reason : Reasons]] /\ made \in Nat
      /\ \A e \in Emails : entry[e].id <= made
      /\ UNCHANGED <<ask, status, exists, size, member, loose>>
  BY TypeParts, ZenonT(40) DEF Local, Pcs, Done, Fit, Tabled, Related, BulkSuppress, Suppress, SuppressCreate,
    Unsuppress, FilterDelete, PutEntry
<1>1. /\ ask[r].on \subseteq Emails /\ ask[r].lists \subseteq Lists
      /\ Asks(r, "unsubscribe") => Me(r) \in Emails
      /\ Asks(r, "scope") => Cardinality(ask[r].lists) <= 1
  BY AskType
<1>2. ASSUME scoped' = scoped, entry' \in [Emails -> [id : Nat, reason : Reasons]], made' \in Nat,
             \A e \in Emails : entry'[e].id <= made', out' \subseteq Emails, muted' \subseteq Emails,
             NEW next \in Local, NEW E \in SUBSET Emails, Goes(r, next, E), Fit(r, next.pc)
      PROVE  TypeInv'
  <2>1. Tabled' /\ Related'
    BY <1>0, <1>2 DEF Tabled, Related
  <2> QED
    BY <1>0, <1>2, <2>1, Typed
<1>3. ASSUME NEW E \in SUBSET Emails, NEW reason \in Reasons
      PROVE  /\ Upserted(E, reason) \in [Emails -> [id : Nat, reason : Reasons]]
             /\ Created(E, reason) \in [Emails -> [id : Nat, reason : Reasons]]
             /\ \A e \in Emails : Upserted(E, reason)[e].id <= made + 1 /\ Created(E, reason)[e].id <= made + 1
  BY <1>0 DEF Upserted, Created
<1>4. ASSUME NEW E \in SUBSET Emails
      PROVE  LET lifted == [e \in Emails |-> IF e \in E THEN None ELSE entry[e]]
             IN  /\ lifted \in [Emails -> [id : Nat, reason : Reasons]]
                 /\ \A e \in Emails : lifted[e].id <= made
  BY <1>0 DEF None, Reasons
<1>5. CASE BulkSuppress(r)
  <2>1. PICK e \in req[r].todo :
          /\ entry' = Upserted({e}, "manual") /\ made' = made + 1 /\ scoped' = scoped
          /\ out' = out \ {e} /\ muted' = muted \ {e}
          /\ Goes(r, [req[r] EXCEPT !.todo = @ \ {e},
                        !.pc = IF req[r].todo = {e} THEN "done" ELSE "suppress"], {e})
    BY <1>5 DEF BulkSuppress
  <2> DEFINE next == [req[r] EXCEPT !.todo = @ \ {e}, !.pc = IF req[r].todo = {e} THEN "done" ELSE "suppress"]
  <2>2. next \in Local /\ Fit(r, next.pc) /\ {e} \in SUBSET Emails /\ Goes(r, next, {e}) /\ "manual" \in Reasons
    BY <1>0, <2>1 DEF Local, Pcs, Fit, Reasons
  <2>3. entry' \in [Emails -> [id : Nat, reason : Reasons]] /\ \A f \in Emails : entry'[f].id <= made + 1
    BY <1>3, <2>1, <2>2
  <2>4. made' \in Nat /\ made' = made + 1 /\ out' \subseteq Emails /\ muted' \subseteq Emails /\ scoped' = scoped
    BY <1>0, <2>1
  <2> HIDE DEF next
  <2> QED
    BY <1>2, <2>2, <2>3, <2>4
<1>6. CASE Suppress(r)
  <2>1. Goes(r, Done(r), ask[r].on) /\ "manual" \in Reasons
    BY <1>6 DEF Suppress, Reasons
  <2>2. CASE Asks(r, "scope")
    <3>1. /\ scoped' = [e \in Emails |-> IF e \in ask[r].on THEN ask[r].lists ELSE scoped[e]]
          /\ UNCHANGED <<entry, made, out, muted>>
      BY <1>6, <2>2 DEF Suppress
    <3>2. Tabled'
      BY <1>0, <1>1, <3>1 DEF Tabled
    <3>3. Related'
      BY <1>0, <1>1, <2>2, <3>1 DEF Related
    <3> QED
      BY <1>0, <1>1, <2>1, <3>1, <3>2, <3>3, Typed
  <2>3. CASE ~Asks(r, "scope")
    <3>1. /\ entry' = Upserted(ask[r].on, "manual") /\ made' = made + 1
          /\ out' = out \ ask[r].on /\ muted' = muted \ ask[r].on /\ UNCHANGED scoped
      BY <1>6, <2>3 DEF Suppress
    <3>2. entry' \in [Emails -> [id : Nat, reason : Reasons]] /\ \A f \in Emails : entry'[f].id <= made + 1
      BY <1>1, <1>3, <2>1, <3>1
    <3>3. made' \in Nat /\ out' \subseteq Emails /\ muted' \subseteq Emails
      BY <1>0, <3>1
    <3> QED
      BY <1>0, <1>1, <1>2, <2>1, <3>1, <3>2, <3>3
  <2> QED
    BY <2>2, <2>3
<1>7. CASE SuppressCreate(r)
  <2> DEFINE next == [req[r] EXCEPT !.pc = IF Asks(r, "failures") /\ ask[r].flag THEN "again" ELSE "done"]
  <2>1. next \in Local /\ Fit(r, next.pc) /\ req[r].todo \in SUBSET Emails /\ "manual" \in Reasons
    BY <1>0 DEF Local, Pcs, Fit, Reasons
  <2>2. /\ entry' = Created(req[r].todo, "manual") /\ made' = made + 1 /\ Goes(r, next, req[r].todo)
        /\ UNCHANGED <<scoped, out, muted>>
    BY <1>7 DEF SuppressCreate
  <2>3. entry' \in [Emails -> [id : Nat, reason : Reasons]] /\ \A f \in Emails : entry'[f].id <= made + 1
    BY <1>3, <2>1, <2>2
  <2>4. made' \in Nat /\ out' \subseteq Emails /\ muted' \subseteq Emails
    BY <1>0, <2>2
  <2> HIDE DEF next
  <2> QED
    BY <1>2, <2>1, <2>2, <2>3, <2>4
<1>8. CASE Unsuppress(r)
  BY <1>0, <1>1, <1>2, <1>4, <1>8 DEF Unsuppress
<1>9. CASE FilterDelete(r)
  <2> DEFINE E == {e \in Emails : <<e, entry[e].id>> \in req[r].seen}
             next == [req[r] EXCEPT !.pc = "page"]
  <2>1. next \in Local /\ Fit(r, next.pc) /\ E \in SUBSET Emails
    BY <1>0 DEF Local, Pcs, Fit
  <2>2. /\ entry' = [e \in Emails |-> IF e \in E THEN None ELSE entry[e]]
        /\ out' \subseteq out /\ muted' \subseteq muted
        /\ Goes(r, next, E) /\ UNCHANGED <<scoped, made>>
    BY <1>9 DEF FilterDelete
  <2> HIDE DEF next, E
  <2> QED
    BY <1>0, <1>2, <1>4, <2>1, <2>2
<1>10. CASE PutEntry(r)
  <2>1. Me(r) \in Emails /\ "page" \in Reasons
    BY <1>0, <1>1, <1>10 DEF PutEntry, At, Fit, Reasons
  <2>2. /\ entry' = Upserted({Me(r)}, "page") \/ entry' = entry
        /\ made' = made + 1 /\ Goes(r, Done(r), {Me(r)}) /\ scoped' = scoped
        /\ out' \subseteq out \cup {Me(r)} /\ muted' \subseteq muted \cup {Me(r)}
    BY <1>10 DEF PutEntry, Promised
  <2>3. out' \subseteq Emails /\ muted' \subseteq Emails /\ {Me(r)} \in SUBSET Emails
    BY <1>0, <2>1, <2>2
  <2>4. /\ entry' \in [Emails -> [id : Nat, reason : Reasons]] /\ made' \in Nat
        /\ \A e \in Emails : entry'[e].id <= made'
    <3>1. made' = made + 1 /\ made' \in Nat /\ \A e \in Emails : entry[e].id \in Nat
      BY <1>0, <2>2
    <3>2. CASE entry' = Upserted({Me(r)}, "page")
      <4>1. entry' \in [Emails -> [id : Nat, reason : Reasons]] /\ \A f \in Emails : entry'[f].id <= made + 1
        BY <1>3, <2>1, <2>3, <3>2
      <4> QED
        BY <3>1, <4>1
    <3>3. CASE entry' = entry
      BY <1>0, <3>1, <3>3
    <3> QED
      BY <2>2, <3>2, <3>3
  <2> QED
    BY <1>0, <1>2, <2>2, <2>3, <2>4
<1> QED
  BY <1>5, <1>6, <1>7, <1>8, <1>9, <1>10

LEMMA TypeInvariant == ASSUME AudienceAssumption PROVE Spec => []TypeInv
<1>1. Init => TypeInv
  <2> SUFFICES ASSUME Init PROVE TypeInv
    OBVIOUS
  <2>1. PICK s \in Starts :
          /\ status = [e \in Emails |-> IF e \in s.known THEN "active" ELSE "absent"]
          /\ size = [l \in Lists |-> s.size] /\ member = s.member
          /\ entry = [e \in Emails |-> IF e \in s.known /\ s.reason # "none"
                                         THEN [id |-> 1, reason |-> s.reason] ELSE None]
    BY DEF Init
  <2>2. /\ s.known \subseteq Emails /\ s.member \in [Lists -> SUBSET Emails] /\ s.size \in Nat
        /\ s.reason \in Reasons \cup {"none"} /\ \A l \in Lists : s.member[l] \subseteq s.known
    BY DEF AudienceAssumption
  <2>3. /\ exists = Lists /\ scoped = [e \in Emails |-> {}] /\ made = 1 /\ ask \in Scripts
        /\ req = [r \in Reqs |-> Idle] /\ out = {} /\ muted = {} /\ loose = {}
    BY DEF Init
  <2>4. Tabled
    BY <2>1, <2>2, <2>3 DEF Tabled, None, Reasons
  <2>5. Related
    BY <2>1, <2>2, <2>3, FS_EmptySet DEF Related, None
  <2>6. Idle \in Local
    BY DEF Idle, Local, Pcs
  <2> QED
    BY <2>3, <2>4, <2>5, <2>6, TypeParts DEF Fit, Idle, Remembered
<1>2. TypeInv /\ [Next]_vars => TypeInv'
  <2>1. ASSUME TypeInv, NEW r \in Reqs, Step(r) PROVE TypeInv'
    BY <2>1, TypeOfReads, TypeOfMembers, TypeOfEntries DEF Step, Sources
  <2>2. ASSUME TypeInv, UNCHANGED vars PROVE TypeInv'
    BY <2>2 DEF TypeInv, TypeOK, Tabled, vars, Fit, Asks, List
  <2> QED
    BY <2>1, <2>2 DEF Next
<1> QED
  BY <1>1, <1>2, PTL DEF Spec

\* The tables, the requests and the history keep their types: a deleted list has
\* no members, a member has its recipient, an address has one entry of each kind.
THEOREM AudienceTypeCorrect == ASSUME AudienceAssumption PROVE Spec => []TypeOK
<1>1. TypeInv => TypeOK
  BY DEF TypeInv
<1> QED
  BY <1>1, TypeInvariant, PTL

-----------------------------------------------------------------------------
(* Who unsubscribed stays off *)

\* What r has read and will still do brings nobody back who is out, and lifts the
\* suppression of nobody who is muted, unless it was under way when they left.
Sound(r) ==
  /\ At(r, "read") => \A e \in req[r].todo \cap out : "suppressed" \in req[r].toRead \/ e \in req[r].during
  /\ At(r, "count") \/ At(r, "write") =>
       \A e \in req[r].todo \cap out : Asks(r, "add") \/ e \in req[r].during
  /\ At(r, "delete") =>
       \A e \in muted : <<e, entry[e].id>> \in req[r].seen => ask[r].flag \/ e \in req[r].during
  /\ (At(r, "status") \/ At(r, "find") \/ At(r, "put")) /\ ask[r].lists = Lists =>
       Me(r) \in req[r].during \/ ~Listed(Me(r))

\* The entry is one of the page, which a filter by another reason does not find.
Silenced ==
  /\ \A e \in muted : Suppressed(e) /\ entry[e].reason = "page"
  /\ \A e \in out : e \in muted /\ ~Listed(e)

StaysOff == Silenced /\ \A r \in Reqs : Sound(r)

\* A step of r that touches only the addresses E leaves the others sound.
LEMMA OthersSound ==
  ASSUME AudienceAssumption, TypeInv, NEW r \in Reqs, NEW q \in Reqs \ {r}, Sound(q), ask' = ask,
         NEW next \in Local, NEW E \in SUBSET Emails, Goes(r, next, E),
         out' \subseteq out \cup E, muted' \subseteq muted \cup E,
         \A e \in Emails \ E : entry'[e] = entry[e],
         \A l \in Lists : member'[l] \subseteq member[l] \cup E
  PROVE  Sound(q)'
<1>0. /\ req \in [Reqs -> Local] /\ muted \subseteq Emails /\ req[q] \in Local
      /\ Fit(q, req[q].pc) /\ (Asks(q, "unsubscribe") => Me(q) \in Emails)
  BY AskType, TypeParts DEF Remembered
<1>1. /\ req'[q].pc = req[q].pc /\ req'[q].todo = req[q].todo /\ req'[q].toRead = req[q].toRead
      /\ req'[q].seen = req[q].seen /\ req[q].during \subseteq req'[q].during
      /\ req[q].pc \notin {"idle", "done"} => E \subseteq req'[q].during
  BY <1>0, GoesType
<1>2. \A pc : At(q, pc)' <=> At(q, pc)
  BY <1>1 DEF At
<1>3. ASSUME req[q].pc \notin {"idle", "done"}
      PROVE  /\ \A e \in out' : e \in out \/ e \in req'[q].during
             /\ \A e \in muted' : e \in muted \/ e \in req'[q].during
  BY <1>1, <1>3
<1>4. Me(q)' = Me(q) /\ (\A o : Asks(q, o)' <=> Asks(q, o))
  BY DEF Me, Asks
<1>5. At(q, "read")' => \A e \in req'[q].todo \cap out' : "suppressed" \in req'[q].toRead \/ e \in req'[q].during
  BY <1>1, <1>2, <1>3 DEF Sound, At
<1>6. At(q, "count")' \/ At(q, "write")' => \A e \in req'[q].todo \cap out' : Asks(q, "add")' \/ e \in req'[q].during
  BY <1>1, <1>2, <1>3, <1>4 DEF Sound, At
<1>7. ASSUME At(q, "delete")', NEW e \in muted', <<e, entry'[e].id>> \in req'[q].seen, e \notin req'[q].during
      PROVE  ask'[q].flag
  <2>1. e \in muted /\ e \notin E /\ e \in Emails /\ e \notin req[q].during
    BY <1>0, <1>1, <1>2, <1>3, <1>7 DEF At
  <2>2. entry'[e] = entry[e]
    BY <2>1
  <2> QED
    BY <1>1, <1>2, <1>7, <2>1, <2>2 DEF Sound
<1>8. ASSUME At(q, "status")' \/ At(q, "find")' \/ At(q, "put")', ask'[q].lists = Lists,
             Me(q) \notin req'[q].during
      PROVE  ~Listed(Me(q))'
  <2>1. ~Listed(Me(q)) /\ Me(q) \notin E
    BY <1>1, <1>2, <1>8 DEF Sound, At
  <2> QED
    BY <1>4, <2>1 DEF Listed
<1> QED
  BY <1>4, <1>5, <1>6, <1>7, <1>8 DEF Sound

LEMMA StepSound ==
  ASSUME AudienceAssumption, TypeInv, StaysOff, NEW r \in Reqs, ask' = ask,
         NEW next \in Local, NEW E \in SUBSET Emails, Goes(r, next, E),
         out' \subseteq out \cup E, muted' \subseteq muted \cup E,
         \A e \in Emails \ E : entry'[e] = entry[e],
         \A l \in Lists : member'[l] \subseteq member[l] \cup E,
         Silenced', Sound(r)'
  PROVE  StaysOff'
<1>1. ASSUME NEW q \in Reqs \ {r} PROVE Sound(q)'
  BY OthersSound DEF StaysOff
<1> QED
  BY <1>1 DEF StaysOff

\* A step of r that is over, or goes on with what brings nobody back.
LEMMA HarmlessSound ==
  ASSUME req \in [Reqs -> Local], NEW r \in Reqs, NEW next \in Local, NEW E \in SUBSET Emails,
         Goes(r, next, E), next.pc \in {"done", "suppress", "create", "again", "leave", "page"}
  PROVE  Sound(r)'
<1>1. req'[r] = next
  BY GoesType
<1> QED
  BY <1>1 DEF Sound, At

LEMMA SoundOfReads ==
  ASSUME AudienceAssumption, TypeInv, StaysOff, NEW r \in Reqs,
         \/ AddStart(r) \/ Count(r) \/ SuppressRead(r) \/ SuppressAgain(r) \/ FilterPage(r) \/ FindEntry(r)
         \/ \E what \in Sources : ImportRead(r, what)
  PROVE  StaysOff'
<1>0. /\ Tabled /\ Remembered /\ out \subseteq Emails /\ muted \subseteq Emails /\ req[r] \in Local /\ req \in [Reqs -> Local]
      /\ Idle \in Local /\ Fit(r, req[r].pc) /\ Silenced /\ Sound(r)
      /\ UNCHANGED <<member, entry, ask, out, muted>>
  BY TypeParts DEF Remembered, Idle, Local, Pcs, StaysOff, AddStart, Count, SuppressRead, SuppressAgain,
    FilterPage, FindEntry, ImportRead, Tables
<1>1. req'[r] \in Local
  <2>1. TypeInv'
    BY TypeOfReads
  <2> QED
    BY <2>1 DEF TypeInv
<1>2. ASSUME NEW next, Goes(r, next, {}), Sound(r)'
      PROVE  StaysOff'
  <2>1. next \in Local
    BY <1>0, <1>1, <1>2 DEF Goes
  <2>2. Silenced'
    BY <1>0 DEF Silenced, Suppressed, Listed
  <2> QED
    BY <1>0, <1>2, <2>1, <2>2, StepSound
<1>3. \A o : Asks(r, o)' <=> Asks(r, o)
  BY <1>0 DEF Asks
<1>4. ASSUME NEW next, Goes(r, next, {}) PROVE req'[r] = next
  BY <1>4 DEF Goes
<1>5. CASE AddStart(r)
  <2> DEFINE next == [Idle EXCEPT !.pc = IF Asks(r, "import") THEN "read" ELSE "count",
                !.max = size[List(r)], !.todo = ask[r].on,
                !.toRead = {"list", "suppressed"} \cup (IF ask[r].flag THEN {"any"} ELSE {})]
  <2>1. Goes(r, next, {}) /\ (Asks(r, "import") \/ Asks(r, "add"))
    BY <1>5 DEF AddStart, Adding, Asks
  <2>2. /\ next.pc = IF Asks(r, "import") THEN "read" ELSE "count"
        /\ "suppressed" \in next.toRead
    BY DEF Idle
  <2> HIDE DEF next
  <2>3. Sound(r)'
    BY <1>3, <1>4, <2>1, <2>2 DEF Sound, At
  <2> QED
    BY <1>2, <2>1, <2>3
<1>6. CASE Count(r)
  <2>1. PICK E \in SUBSET req[r].todo :
          Goes(r, [req[r] EXCEPT !.todo = E, !.pc = IF E = {} THEN "done" ELSE "write"], {})
    BY <1>6 DEF Count
  <2> DEFINE next == [req[r] EXCEPT !.todo = E, !.pc = IF E = {} THEN "done" ELSE "write"]
  <2>2. next.pc \in {"done", "write"} /\ next.todo \subseteq req[r].todo /\ next.during = req[r].during
    BY <1>0 DEF Local
  <2>3. Goes(r, next, {}) /\ At(r, "count")
    BY <1>6, <2>1 DEF Count
  <2> HIDE DEF next
  <2>4. Sound(r)'
    BY <1>0, <1>3, <1>4, <2>2, <2>3 DEF Sound, At
  <2> QED
    BY <1>2, <2>3, <2>4
<1>7. ASSUME NEW what \in Sources, ImportRead(r, what)
      PROVE  StaysOff'
  <2> DEFINE found == CASE what = "list" -> member[List(r)]
                        [] what = "any" -> UNION {member[l] : l \in Lists}
                        [] what = "suppressed" -> {e \in Emails : Suppressed(e) \/ scoped[e] = {List(r)}}
             next == [req[r] EXCEPT !.todo = @ \ found, !.toRead = req[r].toRead \ {what},
                        !.pc = IF req[r].toRead \ {what} = {} THEN "count" ELSE "read"]
  <2>1. Goes(r, next, {}) /\ At(r, "read")
    BY <1>7 DEF ImportRead
  <2>2. /\ next.todo = req[r].todo \ found /\ next.toRead = req[r].toRead \ {what}
        /\ next.pc = (IF req[r].toRead \ {what} = {} THEN "count" ELSE "read")
        /\ next.during = req[r].during
    BY <1>0 DEF Local
  <2>3. what = "suppressed" => out \subseteq found
    BY <1>0 DEF Silenced
  <2> HIDE DEF next, found
  <2>4. ASSUME NEW e \in next.todo \cap out, e \notin next.during
        PROVE  "suppressed" \in next.toRead
    BY <1>0, <2>1, <2>2, <2>3, <2>4 DEF Sound
  <2>5. Sound(r)'
    BY <1>0, <1>4, <2>1, <2>2, <2>4 DEF Sound, At
  <2> QED
    BY <1>2, <2>1, <2>5
<1>8. CASE SuppressRead(r) \/ SuppressAgain(r)
  <2>1. ASSUME NEW next, Goes(r, next, {}), next.pc \in {"create", "leave"} PROVE StaysOff'
    <3>1. Sound(r)'
      BY <1>4, <2>1 DEF Sound, At
    <3> QED
      BY <1>2, <2>1, <3>1
  <2>2. CASE SuppressRead(r)
    <3>1. [Idle EXCEPT !.pc = "create", !.todo = {e \in ask[r].on : ~Suppressed(e)}].pc = "create"
      BY DEF Idle
    <3> QED
      BY <2>1, <2>2, <3>1 DEF SuppressRead
  <2>3. CASE SuppressAgain(r)
    <3>1. [req[r] EXCEPT !.pc = "leave", !.todo = {e \in @ : Suppressed(e)}].pc = "leave"
      BY <1>0 DEF Local
    <3> QED
      BY <2>1, <2>3, <3>1 DEF SuppressAgain
  <2> QED
    BY <1>8, <2>2, <2>3
<1>9. CASE FilterPage(r)
  <2>1. PICK E \in SUBSET Matching(r) :
          Goes(r, [Idle EXCEPT !.pc = IF E = {} THEN "done" ELSE "delete",
                     !.seen = {<<e, entry[e].id>> : e \in E}], {})
    BY <1>9 DEF FilterPage
  <2> DEFINE next == [Idle EXCEPT !.pc = IF E = {} THEN "done" ELSE "delete",
                        !.seen = {<<e, entry[e].id>> : e \in E}]
  <2>2. next.pc \in {"done", "delete"} /\ \A e : <<e, entry[e].id>> \in next.seen => e \in E
    BY DEF Idle
  <2>3. Goes(r, next, {})
    BY <2>1
  <2> HIDE DEF next
  <2>4. ASSUME NEW e \in muted, e \in E PROVE ask[r].flag
    BY <1>0, <2>4 DEF Matching, Silenced
  <2>5. Sound(r)'
    BY <1>0, <1>4, <2>2, <2>3, <2>4 DEF Sound, At
  <2> QED
    BY <1>2, <2>3, <2>5
<1>10. CASE FindEntry(r)
  <2> DEFINE next == [req[r] EXCEPT !.pc = "put",
                        !.seen = IF Suppressed(Me(r)) THEN {<<Me(r), 1>>} ELSE {}]
  <2>1. next.pc = "put" /\ next.during = req[r].during
    BY <1>0 DEF Local
  <2>2. Goes(r, next, {}) /\ At(r, "find")
    BY <1>10 DEF FindEntry
  <2> HIDE DEF next
  <2>3. Sound(r)'
    BY <1>0, <1>4, <2>1, <2>2 DEF Sound, At, Me, Listed
  <2> QED
    BY <1>2, <2>2, <2>3
<1> QED
  BY <1>5, <1>6, <1>7, <1>8, <1>9, <1>10

LEMMA SoundOfMembers ==
  ASSUME AudienceAssumption, TypeInv, StaysOff, NEW r \in Reqs,
         \/ Write(r) \/ AddById(r) \/ ListStatement(r) \/ BulkRemove(r) \/ FailuresLeave(r)
         \/ Leave(r) \/ MarkUnsubscribed(r)
  PROVE  StaysOff'
<1>0. /\ Tabled /\ Remembered /\ out \subseteq Emails /\ muted \subseteq Emails /\ req[r] \in Local /\ req \in [Reqs -> Local]
      /\ Idle \in Local /\ Fit(r, req[r].pc) /\ Silenced /\ Sound(r)
      /\ Done(r) \in Local /\ Done(r).pc = "done"
      /\ UNCHANGED <<entry, ask, muted>>
  BY TypeParts DEF Remembered, Idle, Local, Pcs, StaysOff, Done, Write, AddById, ListStatement, BulkRemove,
    FailuresLeave, Leave, MarkUnsubscribed
<1>1. /\ ask[r].on \subseteq Emails /\ (Asks(r, "unsubscribe") => Me(r) \in Emails)
  BY AskType
<1>2. ASSUME NEW E \in SUBSET Emails, NEW L
      PROVE  \A l \in Lists : Off(E, L)[l] \subseteq member[l]
  BY <1>0 DEF Off, Tabled
\* Whoever is added is out no more, or never was.
<1>3. ASSUME NEW next \in Local, NEW E \in SUBSET Emails, Goes(r, next, E), out' \subseteq out,
             \A l \in Lists : member'[l] \subseteq member[l] \cup E,
             \A l \in Lists, e \in E : e \in member'[l] => e \in member[l] \/ e \notin out',
             Sound(r)'
      PROVE  StaysOff'
  <2>1. Silenced'
    BY <1>0, <1>3 DEF Silenced, Suppressed, Listed
  <2> QED
    BY <1>0, <1>3, <2>1, StepSound
<1>4. ASSUME NEW next \in Local, NEW E \in SUBSET Emails, Goes(r, next, E) PROVE req'[r] = next
  BY <1>4 DEF Goes
<1>5. CASE Write(r)
  <2>1. PICK e \in req[r].todo :
          /\ member' = IF List(r) \in exists THEN [member EXCEPT ![List(r)] = @ \cup {e}] ELSE member
          /\ out' = IF Asks(r, "add") \/ e \in req[r].during THEN out \ {e} ELSE out
          /\ Goes(r, [req[r] EXCEPT !.todo = req[r].todo \ {e},
                        !.pc = IF req[r].todo \ {e} = {} \/ List(r) \notin exists THEN "done" ELSE "write"], {e})
          /\ At(r, "write")
    BY <1>5 DEF Write
  <2> DEFINE next == [req[r] EXCEPT !.todo = req[r].todo \ {e},
                        !.pc = IF req[r].todo \ {e} = {} \/ List(r) \notin exists THEN "done" ELSE "write"]
  <2>2. {e} \in SUBSET Emails /\ next \in Local /\ next.todo = req[r].todo \ {e}
        /\ next.pc \in {"done", "write"} /\ next.during = req[r].during
    BY <1>0 DEF Local, Pcs
  <2>3. Goes(r, next, {e})
    BY <2>1
  <2> HIDE DEF next
  <2>4. e \notin out' /\ out' \subseteq out
    BY <1>0, <2>1 DEF Sound
  <2>5. \A l \in Lists : member'[l] \subseteq member[l] \cup {e}
    BY <1>0, <2>1 DEF Tabled
  <2>6. Sound(r)'
    BY <1>0, <1>4, <2>1, <2>2, <2>3, <2>4 DEF Sound, At, Asks
  <2> QED
    BY <1>3, <2>2, <2>3, <2>4, <2>5, <2>6
<1>6. CASE AddById(r)
  <2> DEFINE E == {e \in ask[r].on : status[e] # "absent"}
  <2>1. /\ member' = [member EXCEPT ![List(r)] = @ \cup E] /\ out' = out \ E /\ Goes(r, Done(r), E)
    BY <1>6 DEF AddById
  <2>2. E \in SUBSET Emails
    BY <1>1
  <2> HIDE DEF E
  <2>3. \A l \in Lists : member'[l] \subseteq member[l] \cup E
    BY <1>0, <2>1 DEF Tabled
  <2>4. Sound(r)'
    BY <1>0, <2>1, <2>2, HarmlessSound
  <2> QED
    BY <1>0, <1>3, <2>1, <2>2, <2>3, <2>4
<1>7. ASSUME NEW E \in SUBSET Emails, NEW L, member' = Off(E, L) \/ member' = member, out' = out,
             NEW next \in Local, Goes(r, next, {}), Sound(r)'
      PROVE  StaysOff'
  <2>1. \A l \in Lists : member'[l] \subseteq member[l]
    BY <1>2, <1>7
  <2> QED
    BY <1>3, <1>7, <2>1
<1>8. CASE BulkRemove(r)
  <2> DEFINE E == {e \in ask[r].on : status[e] # "absent"}
             next == [Idle EXCEPT !.todo = E, !.pc = IF ask[r].flag /\ E # {} THEN "suppress" ELSE "done"]
  <2>1. E \in SUBSET Emails /\ next \in Local /\ next.pc \in {"suppress", "done"}
    BY <1>0, <1>1 DEF Idle, Local, Pcs
  <2>2. Goes(r, next, {}) /\ member' = Off(E, ask[r].lists) /\ out' = out
    BY <1>8 DEF BulkRemove
  <2> HIDE DEF next, E
  <2>3. Sound(r)'
    BY <1>0, <2>1, <2>2, HarmlessSound
  <2> QED
    BY <1>7, <2>1, <2>2, <2>3
<1>9. CASE FailuresLeave(r) \/ ListStatement(r)
  <2>1. Goes(r, Done(r), {}) /\ out' = out
    BY <1>9 DEF FailuresLeave, ListStatement
  <2>2. Sound(r)'
    BY <1>0, <2>1, HarmlessSound
  <2>3. PICK E \in SUBSET Emails, L \in SUBSET Lists : member' = Off(E, L)
    <3>1. CASE FailuresLeave(r)
      BY <1>0, <3>1 DEF FailuresLeave, Local
    <3>2. CASE ListStatement(r)
      <4>1. List(r) \in Lists
        BY <1>0, <3>2 DEF ListStatement, Tabled
      <4>2. Gone(r) \in SUBSET Emails /\ {List(r)} \in SUBSET Lists
        BY <1>1, <4>1 DEF Gone, Asks
      <4> QED
        BY <3>2, <4>2 DEF ListStatement
    <3> QED
      BY <1>9, <3>1, <3>2
  <2> QED
    BY <1>0, <1>7, <2>1, <2>2, <2>3
<1>10. CASE Leave(r)
  <2> DEFINE known == {e \in {Me(r)} : status[e] # "absent"}
             next == [Idle EXCEPT !.pc = "status", !.todo = known]
  <2>1. next \in Local /\ next.pc = "status" /\ known \in SUBSET Emails
    BY <1>0, <1>1, <1>10 DEF Leave, Idle, Local, Pcs
  <2>2. Goes(r, next, {}) /\ member' = Off(known, ask[r].lists) /\ out' = out
    BY <1>10 DEF Leave
  <2>3. ask[r].lists = Lists => ~Listed(Me(r))'
    <3>1. Me(r)' = Me(r) /\ Me(r) \in Emails
      BY <1>0, <1>1, <1>10 DEF Me, Leave
    <3>2. CASE status[Me(r)] = "absent"
      <4>1. \A l \in Lists : Me(r) \notin member[l] /\ member'[l] \subseteq member[l]
        BY <1>2, <2>1, <2>2, <3>2, TypeParts DEF Related
      <4> QED
        BY <3>1, <4>1 DEF Listed
    <3>3. CASE status[Me(r)] # "absent"
      BY <1>0, <2>2, <3>1, <3>3 DEF Listed, Off, Tabled
    <3> QED
      BY <3>2, <3>3
  <2> HIDE DEF next, known
  <2>4. Sound(r)'
    BY <1>0, <1>4, <2>1, <2>2, <2>3 DEF Sound, At
  <2> QED
    BY <1>7, <2>1, <2>2, <2>4
<1>11. CASE MarkUnsubscribed(r)
  <2> DEFINE next == [req[r] EXCEPT !.pc = IF ask[r].flag THEN "find" ELSE "done"]
  <2>1. next \in Local /\ next.pc \in {"find", "done"} /\ next.during = req[r].during
    BY <1>0 DEF Local, Pcs
  <2>2. Goes(r, next, {}) /\ member' = member /\ out' = out /\ At(r, "status")
    BY <1>11 DEF MarkUnsubscribed
  <2> HIDE DEF next
  <2>3. Sound(r)'
    BY <1>0, <1>4, <2>1, <2>2 DEF Sound, At, Listed, Me
  <2> QED
    BY <1>7, <2>1, <2>2, <2>3
<1> QED
  BY <1>5, <1>6, <1>8, <1>9, <1>10, <1>11

LEMMA SoundOfEntries ==
  ASSUME AudienceAssumption, TypeInv, StaysOff, NEW r \in Reqs,
         \/ BulkSuppress(r) \/ Suppress(r) \/ SuppressCreate(r) \/ Unsuppress(r)
         \/ FilterDelete(r) \/ PutEntry(r)
  PROVE  StaysOff'
<1>0. /\ Tabled /\ Remembered /\ out \subseteq Emails /\ muted \subseteq Emails /\ req[r] \in Local /\ req \in [Reqs -> Local]
      /\ Fit(r, req[r].pc) /\ Silenced /\ Sound(r) /\ Done(r) \in Local /\ Done(r).pc = "done"
      /\ entry \in [Emails -> [id : Nat, reason : Reasons]] /\ made \in Nat
      /\ UNCHANGED <<ask, member>>
  BY TypeParts DEF Remembered, Local, Pcs, StaysOff, Done, Tabled, BulkSuppress, Suppress, SuppressCreate,
    Unsuppress, FilterDelete, PutEntry
<1>1. ask[r].on \subseteq Emails /\ (Asks(r, "unsubscribe") => Me(r) \in Emails)
  BY AskType
<1>2. ASSUME NEW next \in Local, NEW E \in SUBSET Emails, Goes(r, next, E),
             next.pc \in {"done", "suppress", "again", "page"},
             out' \subseteq out \cup E, muted' \subseteq muted \cup E, out' \subseteq muted',
             \A e \in Emails \ E : entry'[e] = entry[e],
             \A e \in muted' \cap E : entry'[e].reason = "page" /\ entry'[e].id # 0,
             \A e \in out' \cap E : ~Listed(e)
      PROVE  StaysOff'
  <2>1. Sound(r)'
    BY <1>0, <1>2, HarmlessSound
  <2>2. Silenced'
    BY <1>0, <1>2 DEF Silenced, Suppressed, Listed
  <2> QED
    BY <1>0, <1>2, <2>1, <2>2, StepSound
<1>3. CASE BulkSuppress(r)
  <2>1. PICK e \in req[r].todo :
          /\ entry' = Upserted({e}, "manual") /\ out' = out \ {e} /\ muted' = muted \ {e}
          /\ Goes(r, [req[r] EXCEPT !.todo = @ \ {e},
                        !.pc = IF req[r].todo = {e} THEN "done" ELSE "suppress"], {e})
    BY <1>3 DEF BulkSuppress
  <2> DEFINE next == [req[r] EXCEPT !.todo = @ \ {e}, !.pc = IF req[r].todo = {e} THEN "done" ELSE "suppress"]
  <2>2. next \in Local /\ next.pc \in {"done", "suppress"} /\ {e} \in SUBSET Emails /\ Goes(r, next, {e})
    BY <1>0, <2>1 DEF Local, Pcs
  <2> HIDE DEF next
  <2>3. (\A f \in Emails \ {e} : entry'[f] = entry[f]) /\ out' \subseteq muted'
    BY <1>0, <2>1 DEF Upserted, Silenced
  <2> QED
    BY <1>2, <2>1, <2>2, <2>3
<1>4. CASE Suppress(r)
  <2>1. Goes(r, Done(r), ask[r].on) /\ out' \subseteq out /\ muted' \subseteq muted /\ out' \subseteq muted'
    BY <1>0, <1>4 DEF Suppress, Silenced
  <2>2. \A f \in Emails \ ask[r].on : entry'[f] = entry[f]
    BY <1>4 DEF Suppress, Upserted
  <2>3. CASE Asks(r, "scope")
    <3>1. entry' = entry /\ out' = out /\ muted' = muted
      BY <1>4, <2>3 DEF Suppress
    <3>2. (\A e \in muted : entry'[e].reason = "page" /\ entry'[e].id # 0) /\ (\A e \in out : ~Listed(e))
      BY <1>0, <3>1 DEF Silenced, Suppressed
    <3> QED
      BY <1>0, <1>1, <1>2, <2>1, <2>2, <3>1, <3>2
  <2>4. CASE ~Asks(r, "scope")
    <3>1. out' \cap ask[r].on = {} /\ muted' \cap ask[r].on = {}
      BY <1>4, <2>4 DEF Suppress
    <3> QED
      BY <1>0, <1>1, <1>2, <2>1, <2>2, <3>1
  <2> QED
    BY <2>3, <2>4
<1>5. CASE SuppressCreate(r)
  <2> DEFINE next == [req[r] EXCEPT !.pc = IF Asks(r, "failures") /\ ask[r].flag THEN "again" ELSE "done"]
  <2>1. next \in Local /\ next.pc \in {"again", "done"} /\ req[r].todo \in SUBSET Emails
    BY <1>0 DEF Local, Pcs
  <2>2. entry' = Created(req[r].todo, "manual") /\ Goes(r, next, req[r].todo) /\ out' = out /\ muted' = muted
    BY <1>5 DEF SuppressCreate
  <2> HIDE DEF next
  <2>3. /\ \A e \in Emails \ req[r].todo : entry'[e] = entry[e]
        /\ \A e \in muted : entry'[e] = entry[e]
    BY <1>0, <2>2 DEF Created, Silenced
  <2>4. /\ \A e \in muted : entry'[e].reason = "page" /\ entry'[e].id # 0
        /\ \A e \in out : e \in muted /\ ~Listed(e)
    BY <1>0, <2>3 DEF Silenced, Suppressed
  <2> QED
    BY <1>2, <2>1, <2>2, <2>3, <2>4
<1>6. CASE Unsuppress(r)
  <2>1. /\ entry' = [e \in Emails |-> IF e \in ask[r].on THEN None ELSE entry[e]]
        /\ out' = out \ ask[r].on /\ muted' = muted \ ask[r].on /\ Goes(r, Done(r), ask[r].on)
        /\ out \subseteq muted
    BY <1>0, <1>6 DEF Unsuppress, Silenced
  <2> QED
    BY <1>0, <1>1, <1>2, <2>1
<1>7. CASE FilterDelete(r)
  <2> DEFINE E == {e \in Emails : <<e, entry[e].id>> \in req[r].seen}
             next == [req[r] EXCEPT !.pc = "page"]
  <2>1. next \in Local /\ next.pc = "page" /\ E \in SUBSET Emails
    BY <1>0 DEF Local, Pcs
  <2>2. /\ entry' = [e \in Emails |-> IF e \in E THEN None ELSE entry[e]]
        /\ out' = out \ {e \in E : ask[r].flag \/ e \in req[r].during}
        /\ muted' = muted \ {e \in E : ask[r].flag \/ e \in req[r].during}
        /\ Goes(r, next, E) /\ At(r, "delete")
    BY <1>7 DEF FilterDelete
  <2>3. (\A e \in muted \cap E : ask[r].flag \/ e \in req[r].during) /\ out \subseteq muted
    BY <1>0, <2>2 DEF Sound, Silenced
  <2> HIDE DEF next, E
  <2>4. /\ muted' \cap E = {} /\ out' \subseteq muted' /\ out' \subseteq out /\ muted' \subseteq muted
        /\ \A e \in Emails \ E : entry'[e] = entry[e]
    BY <2>2, <2>3
  <2> QED
    BY <1>2, <2>1, <2>2, <2>4
<1>8. CASE PutEntry(r)
  <2> DEFINE e == Me(r)  ok == Suppressed(e) <=> req[r].seen # {}
  <2>1. e \in Emails /\ {e} \in SUBSET Emails
    BY <1>0, <1>1, <1>8 DEF PutEntry, At, Fit
  <2>2. /\ entry' = IF ok THEN Upserted({e}, "page") ELSE entry
        /\ muted' = IF ok THEN muted \cup {e} ELSE muted
        /\ out' = IF ok /\ ask[r].lists = Lists /\ e \notin req[r].during THEN out \cup {e} ELSE out
        /\ Goes(r, Done(r), {e}) /\ At(r, "put")
    BY <1>8 DEF PutEntry, Promised
  <2> HIDE DEF ok
  <2>3. \A f \in Emails \ {e} : entry'[f] = entry[f]
    BY <2>2 DEF Upserted
  <2>4. ASSUME e \in muted'
        PROVE  entry'[e].reason = "page" /\ entry'[e].id # 0
    <3>1. CASE ok
      BY <1>0, <2>1, <2>2, <3>1 DEF Upserted, Suppressed
    <3>2. CASE ~ok
      BY <1>0, <2>2, <2>4, <3>2 DEF Silenced, Suppressed
    <3> QED
      BY <3>1, <3>2
  <2>5. ASSUME e \in out'
        PROVE  ~Listed(e)
    BY <1>0, <2>2, <2>5 DEF Silenced, Sound
  <2> HIDE DEF e
  <2>6. out' \subseteq out \cup {e} /\ muted' \subseteq muted \cup {e} /\ out' \subseteq muted'
    BY <1>0, <2>2 DEF Silenced
  <2> QED
    BY <1>0, <1>2, <2>1, <2>2, <2>3, <2>4, <2>5, <2>6
<1> QED
  BY <1>3, <1>4, <1>5, <1>6, <1>7, <1>8

\* Whoever unsubscribed while the settings ask for a suppression stays suppressed,
\* whatever imports, additions, removals and liftings run, until an operator writes
\* or lifts the suppression (or a removal that had read the entry does); whoever
\* left the lists as well stays off all of them, until an operator adds the address
\* by hand or lifts the suppression, but for an import under way when they left.
THEOREM UnsubscribedStayOff == ASSUME AudienceAssumption PROVE Spec => []UnsubscribeHolds
<1>1. Spec => []TypeInv
  BY TypeInvariant
<1>2. Init => StaysOff
  BY DEF Init, StaysOff, Silenced, Sound, At, Idle
<1>3. TypeInv /\ StaysOff /\ [Next]_vars => StaysOff'
  <2>1. ASSUME TypeInv, StaysOff, NEW r \in Reqs, Step(r) PROVE StaysOff'
    BY <2>1, SoundOfReads, SoundOfMembers, SoundOfEntries DEF Step, Sources
  <2>2. ASSUME StaysOff, UNCHANGED vars PROVE StaysOff'
    BY <2>2 DEF StaysOff, Silenced, Sound, At, Asks, Me, Listed, Suppressed, vars
  <2> QED
    BY <2>1, <2>2 DEF Next
<1>4. StaysOff => UnsubscribeHolds
  BY DEF StaysOff, Silenced, UnsubscribeHolds
<1> QED
  BY <1>1, <1>2, <1>3, <1>4, PTL DEF Spec

-----------------------------------------------------------------------------
(* Lists keep their size *)

\* Of a list whose size nothing broke: it fits; who adds to it has read its size,
\* or has left room for all it will write, and is alone in that.
Fitting(l) ==
  /\ Cardinality(member[l]) <= size[l]
  /\ \A r \in Reqs : List(r) = l =>
       /\ At(r, "read") \/ At(r, "count") => req[r].max = size[l]
       /\ At(r, "write") => Cardinality(member[l] \cup req[r].todo) <= size[l]
  /\ \A q, r \in Reqs : List(q) = l /\ List(r) = l /\ At(q, "write") /\ At(r, "write") => q = r
Roomy == \A l \in Lists \ loose : Fitting(l)

LEMMA SubsetFits ==
  ASSUME AudienceAssumption, NEW S \in SUBSET Emails, NEW T \in SUBSET S, NEW n \in Nat,
         Cardinality(S) <= n
  PROVE  Cardinality(T) <= n
<1>1. IsFiniteSet(S)
  BY FS_Subset DEF AudienceAssumption
<1>2. Cardinality(T) <= Cardinality(S) /\ Cardinality(T) \in Nat /\ Cardinality(S) \in Nat
  BY <1>1, FS_Subset, FS_CardinalityType
<1> QED
  BY <1>2

\* A step of r that adds nobody to a list it does not break, and is not about to.
LEMMA RoomStays ==
  ASSUME AudienceAssumption, TypeInv, Roomy, NEW r \in Reqs, ask' = ask,
         NEW next \in Local, NEW E \in SUBSET Emails, Goes(r, next, E), loose \subseteq loose',
         \A l \in Lists \ loose' : member'[l] \subseteq member[l] /\ size'[l] = size[l],
         next.pc # "write",
         next.pc \in {"read", "count"} => next.max = size[List(r)]
  PROVE  Roomy'
<1>0. /\ req \in [Reqs -> Local] /\ Tabled
  BY TypeParts
<1>1. /\ req'[r] = next
      /\ \A q \in Reqs \ {r} : /\ req'[q].pc = req[q].pc /\ req'[q].max = req[q].max
                               /\ req'[q].todo = req[q].todo
  BY <1>0, GoesType
<1>2. \A q \in Reqs : List(q)' = List(q)
  BY DEF List
<1> SUFFICES ASSUME NEW l \in Lists \ loose' PROVE Fitting(l)'
  BY DEF Roomy
<1>3. Fitting(l) /\ member'[l] \subseteq member[l] /\ size'[l] = size[l] /\ size[l] \in Nat
      /\ member[l] \subseteq Emails
  BY <1>0 DEF Roomy, Tabled
<1>4. Cardinality(member'[l]) <= size'[l]
  BY <1>3, SubsetFits DEF Fitting
<1>5. ASSUME NEW q \in Reqs, List(q) = l, At(q, "read")' \/ At(q, "count")'
      PROVE  req'[q].max = size'[l]
  BY <1>1, <1>3, <1>5 DEF At, Fitting
<1>6. ASSUME NEW q \in Reqs, List(q) = l, At(q, "write")'
      PROVE  q # r /\ At(q, "write") /\ Cardinality(member'[l] \cup req'[q].todo) <= size'[l]
  <2>1. q # r /\ At(q, "write") /\ req'[q].todo = req[q].todo
    BY <1>1, <1>6 DEF At
  <2>2. Cardinality(member[l] \cup req[q].todo) <= size[l]
    BY <1>3, <1>6, <2>1 DEF Fitting
  <2>3. req[q].todo \subseteq Emails
    BY <1>0 DEF Local
  <2>4. /\ member'[l] \cup req'[q].todo \in SUBSET (member[l] \cup req[q].todo)
        /\ member[l] \cup req[q].todo \in SUBSET Emails
    BY <1>3, <2>1, <2>3
  <2> QED
    BY <1>3, <2>1, <2>2, <2>4, SubsetFits
<1>7. \A p, q \in Reqs : List(p) = l /\ List(q) = l /\ At(p, "write")' /\ At(q, "write")' => p = q
  BY <1>3, <1>6 DEF Fitting
<1> QED
  BY <1>2, <1>4, <1>5, <1>6, <1>7 DEF Fitting

LEMMA LargestOfTwo ==
  ASSUME NEW n \in Int
  PROVE  Max({0, n}) = IF n > 0 THEN n ELSE 0
  BY DEF Max

LEMMA SmallestOfTwo ==
  ASSUME NEW m \in Nat, NEW n \in Nat
  PROVE  Min({m, n}) <= m
<1>1. Min({m, n}) = IF m <= n THEN m ELSE n
  BY DEF Min
<1> QED
  BY <1>1

\* Whoever has counted alone has left room for all it will write.
LEMMA RoomOfCount ==
  ASSUME AudienceAssumption, TypeInv, Roomy, NEW r \in Reqs, Count(r)
  PROVE  Roomy'
<1>0. /\ req \in [Reqs -> Local] /\ Tabled /\ Fit(r, req[r].pc) /\ req[r] \in Local
  BY TypeParts
<1> DEFINE free == Max({0, req[r].max - Cardinality(member[List(r)])})
           wanted == req[r].todo
<1>1. PICK E \in SUBSET wanted :
        /\ Cardinality(E) = IF Asks(r, "import") THEN Min({free, Cardinality(wanted)})
                            ELSE IF Cardinality(wanted) <= free THEN Cardinality(wanted) ELSE 0
        /\ Goes(r, [req[r] EXCEPT !.todo = E, !.pc = IF E = {} THEN "done" ELSE "write"], {})
  BY DEF Count
<1> DEFINE next == [req[r] EXCEPT !.todo = E, !.pc = IF E = {} THEN "done" ELSE "write"]
<1>2. next \in Local /\ next.pc \in {"done", "write"} /\ next.todo = E
  BY <1>0 DEF Local, Pcs
<1>3. /\ Goes(r, next, {}) /\ At(r, "count") /\ loose' = loose \cup Raced(r)
      /\ UNCHANGED <<member, size, ask>>
  BY <1>1 DEF Count, Tables
<1> HIDE DEF next
<1>4. /\ req'[r] = next
      /\ \A q \in Reqs \ {r} : /\ req'[q].pc = req[q].pc /\ req'[q].max = req[q].max
                               /\ req'[q].todo = req[q].todo
  BY <1>0, <1>2, <1>3, GoesType
<1>5. \A q \in Reqs : List(q)' = List(q)
  BY <1>3 DEF List
<1> SUFFICES ASSUME NEW l \in Lists \ loose' PROVE Fitting(l)'
  BY DEF Roomy
<1>6. Fitting(l) /\ member'[l] = member[l] /\ size'[l] = size[l] /\ size[l] \in Nat
      /\ member[l] \in SUBSET Emails
  BY <1>0, <1>3 DEF Roomy, Tabled
<1>7. ASSUME List(r) = l PROVE Cardinality(member[l] \cup E) <= size[l]
  <2>1. req[r].max = size[l] /\ Cardinality(member[l]) <= size[l]
    BY <1>3, <1>6, <1>7 DEF Fitting
  <2>2. E \in SUBSET Emails /\ wanted \in SUBSET Emails
    BY <1>0 DEF Local
  <2>3. /\ IsFiniteSet(member[l]) /\ IsFiniteSet(E) /\ IsFiniteSet(wanted)
        /\ IsFiniteSet(member[l] \cap E)
    BY <1>6, <2>2, FS_Subset DEF AudienceAssumption
  <2>4. /\ Cardinality(member[l]) \in Nat /\ Cardinality(E) \in Nat /\ Cardinality(wanted) \in Nat
        /\ Cardinality(member[l] \cap E) \in Nat
    BY <2>3, FS_CardinalityType
  <2>5. free = size[l] - Cardinality(member[l]) /\ free \in Nat
    <3>1. size[l] - Cardinality(member[l]) \in Nat
      BY <1>6, <2>1, <2>4
    <3> QED
      BY <1>7, <2>1, <3>1, LargestOfTwo
  <2> HIDE DEF free, wanted
  <2>6. Cardinality(E) <= free
    BY <1>1, <2>4, <2>5, SmallestOfTwo
  <2>7. Cardinality(member[l] \cup E)
          = Cardinality(member[l]) + Cardinality(E) - Cardinality(member[l] \cap E)
    BY <2>3, FS_Union
  <2> QED
    BY <1>6, <2>1, <2>4, <2>5, <2>6, <2>7
<1>8. ASSUME NEW q \in Reqs, List(q) = l, List(r) = l, At(q, "write"), q # r PROVE FALSE
  <2>1. l \in Raced(r)
    BY <1>8 DEF Raced
  <2> QED
    BY <1>3, <2>1
<1>9. ASSUME NEW q \in Reqs, List(q) = l, At(q, "read")' \/ At(q, "count")'
      PROVE  req'[q].max = size'[l]
  BY <1>2, <1>4, <1>6, <1>9 DEF At, Fitting
<1>10. ASSUME NEW q \in Reqs, List(q) = l, At(q, "write")'
       PROVE  Cardinality(member'[l] \cup req'[q].todo) <= size'[l]
  BY <1>2, <1>4, <1>6, <1>7, <1>10 DEF At, Fitting
<1>11. ASSUME NEW p \in Reqs, NEW q \in Reqs, List(p) = l, List(q) = l,
              At(p, "write")', At(q, "write")', p # q
       PROVE  FALSE
  BY <1>4, <1>6, <1>8, <1>11 DEF At, Fitting
<1>12. Cardinality(member'[l]) <= size'[l]
  BY <1>6 DEF Fitting
<1> QED
  BY <1>5, <1>9, <1>10, <1>11, <1>12 DEF Fitting

LEMMA RoomOfWrite ==
  ASSUME AudienceAssumption, TypeInv, Roomy, NEW r \in Reqs, Write(r)
  PROVE  Roomy'
<1>0. /\ req \in [Reqs -> Local] /\ Tabled /\ req[r] \in Local
  BY TypeParts
<1>1. PICK e \in req[r].todo :
        /\ member' = IF List(r) \in exists THEN [member EXCEPT ![List(r)] = @ \cup {e}] ELSE member
        /\ Goes(r, [req[r] EXCEPT !.todo = req[r].todo \ {e},
                      !.pc = IF req[r].todo \ {e} = {} \/ List(r) \notin exists THEN "done" ELSE "write"], {e})
        /\ At(r, "write") /\ UNCHANGED <<size, ask, loose>>
  BY DEF Write
<1> DEFINE next == [req[r] EXCEPT !.todo = req[r].todo \ {e},
                      !.pc = IF req[r].todo \ {e} = {} \/ List(r) \notin exists THEN "done" ELSE "write"]
<1>2. {e} \in SUBSET Emails /\ next \in Local /\ next.todo = req[r].todo \ {e}
      /\ next.pc \in {"done", "write"}
  BY <1>0 DEF Local, Pcs
<1>3. Goes(r, next, {e})
  BY <1>1
<1> HIDE DEF next
<1>4. /\ req'[r] = next
      /\ \A q \in Reqs \ {r} : /\ req'[q].pc = req[q].pc /\ req'[q].max = req[q].max
                               /\ req'[q].todo = req[q].todo
  BY <1>0, <1>2, <1>3, GoesType
<1>5. \A q \in Reqs : List(q)' = List(q)
  BY <1>1 DEF List
<1> SUFFICES ASSUME NEW l \in Lists \ loose PROVE Fitting(l)'
  BY <1>1 DEF Roomy
<1>6. Fitting(l) /\ size'[l] = size[l] /\ size[l] \in Nat /\ member[l] \in SUBSET Emails
  BY <1>0, <1>1 DEF Roomy, Tabled
<1>7. CASE List(r) # l
  <2>1. member'[l] = member[l]
    BY <1>0, <1>1, <1>7 DEF Tabled
  <2>2. \A q \in Reqs : List(q) = l => q # r
    BY <1>7
  <2> QED
    BY <1>4, <1>5, <1>6, <2>1, <2>2 DEF Fitting, At
<1>8. CASE List(r) = l
  <2>1. member'[l] \cup next.todo \subseteq member[l] \cup req[r].todo
    BY <1>0, <1>1, <1>2, <1>8 DEF Tabled
  <2>2. Cardinality(member[l] \cup req[r].todo) <= size[l]
        /\ member[l] \cup req[r].todo \in SUBSET Emails
    BY <1>0, <1>1, <1>6, <1>8 DEF Fitting, Local
  <2>3. Cardinality(member'[l]) <= size[l] /\ Cardinality(member'[l] \cup next.todo) <= size[l]
    BY <1>6, <2>1, <2>2, SubsetFits
  <2>4. \A q \in Reqs \ {r} : List(q) = l => ~At(q, "write") /\ ~At(q, "write")'
    BY <1>1, <1>4, <1>6, <1>8 DEF Fitting, At
  <2>5. ~At(r, "read")' /\ ~At(r, "count")'
    BY <1>2, <1>4 DEF At
  <2> QED
    BY <1>4, <1>5, <1>6, <2>3, <2>4, <2>5 DEF Fitting, At
<1> QED
  BY <1>7, <1>8

\* The other steps.
LEMMA RoomOfOthers ==
  ASSUME AudienceAssumption, TypeInv, Roomy, NEW r \in Reqs, Step(r), ~Count(r), ~Write(r)
  PROVE  Roomy'
<1>0. /\ req \in [Reqs -> Local] /\ Tabled /\ req[r] \in Local /\ Idle \in Local
      /\ Idle.pc = "idle" /\ Fit(r, req[r].pc) /\ TypeInv'
      /\ Done(r) \in Local /\ Done(r).pc = "done"
  BY TypeOfReads, TypeOfMembers, TypeOfEntries, TypeParts DEF Step, Sources, Idle, Local, Pcs, Done
<1>1. ask' = ask /\ loose \subseteq loose' /\ ask[r].on \subseteq Emails
  BY AskType DEF Step, AddStart, ImportRead, Count, Write, AddById, ListStatement, BulkRemove, BulkSuppress,
    Suppress, SuppressRead, SuppressCreate, SuppressAgain, FailuresLeave, Unsuppress, FilterPage,
    FilterDelete, Leave, MarkUnsubscribed, FindEntry, PutEntry
<1>2. ASSUME NEW next \in Local, NEW E \in SUBSET Emails, Goes(r, next, E),
             UNCHANGED <<member, size>>, next.pc \notin {"read", "count", "write"}
      PROVE  Roomy'
  BY <1>1, <1>2, RoomStays
<1>3. ASSUME NEW E \in SUBSET Emails, NEW L, member' = Off(E, L), size' = size,
             NEW next \in Local, Goes(r, next, {}), next.pc \notin {"read", "count", "write"}
      PROVE  Roomy'
  <2>1. \A l \in Lists : member'[l] \subseteq member[l]
    BY <1>0, <1>3 DEF Off, Tabled
  <2> QED
    BY <1>1, <1>3, <2>1, RoomStays
<1>4. CASE AddStart(r)
  <2> DEFINE next == [Idle EXCEPT !.pc = IF Asks(r, "import") THEN "read" ELSE "count",
                !.max = size[List(r)], !.todo = ask[r].on,
                !.toRead = {"list", "suppressed"} \cup (IF ask[r].flag THEN {"any"} ELSE {})]
  <2>1. Goes(r, next, {}) /\ UNCHANGED <<member, size, loose>>
    BY <1>4 DEF AddStart, Tables
  <2>2. next.pc # "write" /\ next.max = size[List(r)]
    BY DEF Idle
  <2> HIDE DEF next
  <2>3. next \in Local
    BY <1>0, <2>1 DEF Goes, TypeInv
  <2> QED
    BY <1>1, <2>1, <2>2, <2>3, RoomStays
<1>5. ASSUME NEW what \in Sources, ImportRead(r, what)
      PROVE  Roomy'
  <2>1. PICK found :
          Goes(r, [req[r] EXCEPT !.todo = @ \ found, !.toRead = req[r].toRead \ {what},
                     !.pc = IF req[r].toRead \ {what} = {} THEN "count" ELSE "read"], {})
    BY <1>5 DEF ImportRead
  <2> DEFINE next == [req[r] EXCEPT !.todo = @ \ found, !.toRead = req[r].toRead \ {what},
                        !.pc = IF req[r].toRead \ {what} = {} THEN "count" ELSE "read"]
  <2>2. next \in Local /\ next.pc \in {"read", "count"} /\ next.max = req[r].max
    BY <1>0 DEF Local, Pcs
  <2>3. Goes(r, next, {}) /\ UNCHANGED <<member, size, loose>> /\ At(r, "read")
    BY <1>5, <2>1 DEF ImportRead, Tables
  <2> HIDE DEF next
  <2>4. CASE List(r) \notin loose
    <3>1. next.max = size[List(r)]
      BY <1>0, <2>2, <2>3, <2>4 DEF Roomy, Fitting, Fit, At
    <3> QED
      BY <1>1, <2>2, <2>3, <3>1, RoomStays
  <2>5. CASE List(r) \in loose
    <3>1. \A l \in Lists \ loose : List(r) # l
      BY <2>5
    <3>2. \A q \in Reqs \ {r} : /\ req'[q].pc = req[q].pc /\ req'[q].max = req[q].max
                               /\ req'[q].todo = req[q].todo
      BY <1>0, <2>2, <2>3, GoesType
    <3>3. \A q \in Reqs : List(q)' = List(q)
      BY <1>1 DEF List
    <3> QED
      BY <2>3, <3>1, <3>2, <3>3 DEF Roomy, Fitting, At
  <2> QED
    BY <2>4, <2>5
<1>6. CASE AddById(r)
  <2> DEFINE E == {e \in ask[r].on : status[e] # "absent"}
  <2>1. /\ member' = [member EXCEPT ![List(r)] = @ \cup E] /\ loose' = loose \cup {List(r)}
        /\ Goes(r, Done(r), E) /\ size' = size
    BY <1>6 DEF AddById
  <2>2. \A l \in Lists \ loose' : member'[l] \subseteq member[l] /\ size'[l] = size[l]
    BY <1>0, <2>1 DEF Tabled
  <2>3. E \in SUBSET Emails
    BY <1>1
  <2> HIDE DEF E
  <2> DEFINE next == Done(r)
  <2>4. next \in Local /\ next.pc = "done" /\ Goes(r, next, E)
    BY <1>0, <2>1
  <2> HIDE DEF next
  <2> QED
    BY <1>0, <1>1, <2>2, <2>3, <2>4, RoomStays
<1>7. CASE ListStatement(r)
  <2>1. /\ List(r) \in Lists /\ member' = Off(Gone(r), {List(r)}) /\ size' = Resized(r)
        /\ loose' = IF Asks(r, "resize") THEN loose \cup {List(r)} ELSE loose
        /\ Goes(r, Done(r), {})
    BY <1>0, <1>7 DEF ListStatement, Tabled
  <2>2. \A l \in Lists : member'[l] \subseteq member[l]
    BY <1>0, <2>1 DEF Off, Tabled
  <2>3. \A l \in Lists \ loose' : size'[l] = size[l]
    BY <1>0, <2>1 DEF Resized, Tabled
  <2> DEFINE next == Done(r)
  <2>4. next \in Local /\ next.pc = "done" /\ Goes(r, next, {}) /\ {} \in SUBSET Emails
    BY <1>0, <2>1
  <2> HIDE DEF next
  <2> QED
    BY <1>1, <2>2, <2>3, <2>4, RoomStays
<1>8. CASE BulkRemove(r)
  <2> DEFINE E == {e \in ask[r].on : status[e] # "absent"}
             next == [Idle EXCEPT !.todo = E, !.pc = IF ask[r].flag /\ E # {} THEN "suppress" ELSE "done"]
  <2>1. E \in SUBSET Emails /\ next \in Local /\ next.pc \in {"suppress", "done"}
    BY <1>0, <1>1 DEF Idle, Local, Pcs
  <2>2. Goes(r, next, {}) /\ member' = Off(E, ask[r].lists) /\ size' = size
    BY <1>8 DEF BulkRemove
  <2> HIDE DEF next, E
  <2> QED
    BY <1>3, <2>1, <2>2
<1>9. CASE FailuresLeave(r)
  <2>1. req[r].todo \in SUBSET Emails
    BY <1>0 DEF Local
  <2> QED
    BY <1>0, <1>3, <1>9, <2>1 DEF FailuresLeave
<1>10. CASE Leave(r)
  <2> DEFINE known == {e \in {Me(r)} : status[e] # "absent"}
             next == [Idle EXCEPT !.pc = "status", !.todo = known]
  <2>1. next \in Local /\ next.pc = "status" /\ known \in SUBSET Emails
    BY <1>0, <1>10, AskType DEF Leave, Idle, Local, Pcs
  <2>2. Goes(r, next, {}) /\ member' = Off(known, ask[r].lists) /\ size' = size
    BY <1>10 DEF Leave
  <2> HIDE DEF next, known
  <2> QED
    BY <1>3, <2>1, <2>2
<1>11. ASSUME UNCHANGED <<member, size>>, NEW next, NEW E \in SUBSET Emails, Goes(r, next, E),
              next.pc \notin {"read", "count", "write"}
       PROVE  Roomy'
  <2>1. next \in Local
    BY <1>0, <1>11 DEF Goes, TypeInv
  <2> QED
    BY <1>2, <1>11, <2>1
<1>12. CASE BulkSuppress(r)
  <2>1. PICK e \in req[r].todo :
          Goes(r, [req[r] EXCEPT !.todo = @ \ {e},
                     !.pc = IF req[r].todo = {e} THEN "done" ELSE "suppress"], {e})
    BY <1>12 DEF BulkSuppress
  <2>2. {e} \in SUBSET Emails
        /\ [req[r] EXCEPT !.todo = @ \ {e}, !.pc = IF req[r].todo = {e} THEN "done" ELSE "suppress"].pc
             \in {"done", "suppress"}
    BY <1>0 DEF Local
  <2>3. UNCHANGED <<member, size>>
    BY <1>12 DEF BulkSuppress
  <2> QED
    BY <1>11, <2>1, <2>2, <2>3
<1>13. CASE Suppress(r) \/ Unsuppress(r)
  <2>1. Goes(r, Done(r), ask[r].on) /\ UNCHANGED <<member, size>>
    BY <1>13 DEF Suppress, Unsuppress
  <2> QED
    BY <1>0, <1>1, <1>2, <2>1
<1>14. CASE SuppressRead(r)
  <2> DEFINE next == [Idle EXCEPT !.pc = "create", !.todo = {e \in ask[r].on : ~Suppressed(e)}]
  <2>1. next.pc = "create" /\ {} \in SUBSET Emails
    BY <1>0 DEF Idle
  <2>2. Goes(r, next, {}) /\ UNCHANGED <<member, size>>
    BY <1>14 DEF SuppressRead, Tables
  <2> HIDE DEF next
  <2> QED
    BY <1>11, <2>1, <2>2
<1>15. CASE SuppressCreate(r)
  <2> DEFINE next == [req[r] EXCEPT !.pc = IF Asks(r, "failures") /\ ask[r].flag THEN "again" ELSE "done"]
  <2>1. next.pc \in {"again", "done"} /\ req[r].todo \in SUBSET Emails
    BY <1>0 DEF Local
  <2>2. Goes(r, next, req[r].todo) /\ UNCHANGED <<member, size>>
    BY <1>15 DEF SuppressCreate
  <2> HIDE DEF next
  <2> QED
    BY <1>11, <2>1, <2>2
<1>16. CASE SuppressAgain(r)
  <2> DEFINE next == [req[r] EXCEPT !.pc = "leave", !.todo = {e \in @ : Suppressed(e)}]
  <2>1. next.pc = "leave" /\ {} \in SUBSET Emails
    BY <1>0 DEF Local
  <2>2. Goes(r, next, {}) /\ UNCHANGED <<member, size>>
    BY <1>16 DEF SuppressAgain, Tables
  <2> HIDE DEF next
  <2> QED
    BY <1>11, <2>1, <2>2
<1>17. CASE FilterPage(r)
  <2>1. PICK E :
          Goes(r, [Idle EXCEPT !.pc = IF E = {} THEN "done" ELSE "delete",
                     !.seen = {<<e, entry[e].id>> : e \in E}], {})
    BY <1>17 DEF FilterPage
  <2> DEFINE next == [Idle EXCEPT !.pc = IF E = {} THEN "done" ELSE "delete",
                        !.seen = {<<e, entry[e].id>> : e \in E}]
  <2>2. next.pc \in {"done", "delete"} /\ {} \in SUBSET Emails
    BY DEF Idle
  <2>3. Goes(r, next, {}) /\ UNCHANGED <<member, size>>
    BY <1>17, <2>1 DEF FilterPage, Tables
  <2> HIDE DEF next
  <2> QED
    BY <1>11, <2>2, <2>3
<1>18. CASE FilterDelete(r)
  <2> DEFINE E == {e \in Emails : <<e, entry[e].id>> \in req[r].seen}
             next == [req[r] EXCEPT !.pc = "page"]
  <2>1. next.pc = "page" /\ E \in SUBSET Emails
    BY <1>0 DEF Local
  <2>2. Goes(r, next, E) /\ UNCHANGED <<member, size>>
    BY <1>18 DEF FilterDelete
  <2> HIDE DEF E, next
  <2> QED
    BY <1>11, <2>1, <2>2
<1>19. CASE MarkUnsubscribed(r)
  <2> DEFINE next == [req[r] EXCEPT !.pc = IF ask[r].flag THEN "find" ELSE "done"]
  <2>1. next.pc \in {"find", "done"} /\ {} \in SUBSET Emails
    BY <1>0 DEF Local
  <2>2. Goes(r, next, {}) /\ UNCHANGED <<member, size>>
    BY <1>19 DEF MarkUnsubscribed
  <2> HIDE DEF next
  <2> QED
    BY <1>11, <2>1, <2>2
<1>20. CASE FindEntry(r)
  <2> DEFINE next == [req[r] EXCEPT !.pc = "put",
                        !.seen = IF Suppressed(Me(r)) THEN {<<Me(r), 1>>} ELSE {}]
  <2>1. next.pc = "put" /\ {} \in SUBSET Emails
    BY <1>0 DEF Local
  <2>2. Goes(r, next, {}) /\ UNCHANGED <<member, size>>
    BY <1>20 DEF FindEntry, Tables
  <2> HIDE DEF next
  <2> QED
    BY <1>11, <2>1, <2>2
<1>21. CASE PutEntry(r)
  <2>1. Goes(r, Done(r), {Me(r)}) /\ UNCHANGED <<member, size>> /\ At(r, "put")
    BY <1>21 DEF PutEntry
  <2>2. {Me(r)} \in SUBSET Emails
    BY <1>0, <2>1, AskType DEF At, Fit
  <2> QED
    BY <1>0, <1>2, <2>1, <2>2
<1> QED
  BY <1>4, <1>5, <1>6, <1>7, <1>8, <1>9, <1>10, <1>12, <1>13, <1>14, <1>15, <1>16, <1>17,
    <1>18, <1>19, <1>20, <1>21 DEF Step, Sources

\* No list outgrows its size, for any number of additions, imports and removals
\* at once, unless two additions to it counted before either wrote, a recipient
\* was added by id, or the size itself was changed.
THEOREM ListsKeepSize == ASSUME AudienceAssumption PROVE Spec => []ListsWithinSize
<1>1. Spec => []TypeInv
  BY TypeInvariant
<1>2. Init => Roomy
  <2> SUFFICES ASSUME Init, NEW l \in Lists PROVE Fitting(l)
    BY DEF Roomy
  <2>1. PICK s \in Starts : size = [k \in Lists |-> s.size] /\ member = s.member
    BY DEF Init
  <2>2. Cardinality(member[l]) <= size[l]
    BY <2>1 DEF AudienceAssumption
  <2>3. \A r \in Reqs : req[r].pc = "idle"
    BY DEF Init, Idle
  <2> QED
    BY <2>2, <2>3 DEF Fitting, At
<1>3. TypeInv /\ Roomy /\ [Next]_vars => Roomy'
  <2>1. ASSUME TypeInv, Roomy, NEW r \in Reqs, Step(r) PROVE Roomy'
    BY <2>1, RoomOfCount, RoomOfWrite, RoomOfOthers
  <2>2. ASSUME Roomy, UNCHANGED vars PROVE Roomy'
    BY <2>2 DEF Roomy, Fitting, At, List, vars
  <2> QED
    BY <2>1, <2>2 DEF Next
<1>4. Roomy => ListsWithinSize
  BY DEF Roomy, Fitting, ListsWithinSize
<1> QED
  BY <1>1, <1>2, <1>3, <1>4, PTL DEF Spec
=============================================================================
