--------------------------- MODULE CampaignProofs ---------------------------
(***************************************************************************)
(* What holds of CampaignControl for any list of recipients, any number of *)
(* requests, chunks and batches of any size, and any number of crashes,    *)
(* expiries and edits: the locks are leases, an import misses nobody and   *)
(* its target counts the rows, and a quiet cancel is final.                *)
(***************************************************************************)
EXTENDS CampaignControl, FiniteSetTheorems, TLAPS

-----------------------------------------------------------------------------
(* Finite sets of numbers, and the pages of the import *)

\* A finite set has a greatest element under any order that compares all of its
\* elements: among its subsets without one there would be a least.
LEMMA FiniteHasGreatest ==
  ASSUME NEW S, IsFiniteSet(S), S # {}, NEW R,
         \A x, y \in S : <<x, y>> \in R \/ <<y, x>> \in R,
         \A x, y, z \in S : <<x, y>> \in R /\ <<y, z>> \in R => <<x, z>> \in R
  PROVE  \E m \in S : \A n \in S : <<n, m>> \in R
<1> DEFINE Best(T) == \E m \in T : \A n \in T : <<n, m>> \in R
           Bad == {T \in SUBSET S : T # {} /\ ~Best(T)}
<1>1. SUFFICES ASSUME S \in Bad  PROVE FALSE
  OBVIOUS
<1>2. Bad \subseteq FiniteSubsetsOf(S)
  BY FS_Subset DEF FiniteSubsetsOf
<1>3. PICK U \in Bad : \A T \in Bad : <<T, U>> \notin StrictSubsetOrdering(S)
  <2> HIDE DEF Bad
  <2>1. QED  BY <1>1, <1>2, FS_StrictSubsetOrderingWellFounded, WFMin
<1>4. PICK x \in U : TRUE
  OBVIOUS
<1>5. U \ {x} \notin Bad
  <2>1. U \in SUBSET S
    BY <1>3
  <2>2. <<U \ {x}, U>> \in StrictSubsetOrdering(S)
    BY <1>4, <2>1 DEF StrictSubsetOrdering
  <2> HIDE DEF Bad
  <2>3. QED  BY <1>3, <2>2
<1>6. CASE U \ {x} = {}
  BY <1>4, <1>6
<1>7. CASE U \ {x} # {}
  <2>1. PICK m \in U \ {x} : \A n \in U \ {x} : <<n, m>> \in R
    BY <1>5, <1>7
  <2>2. CASE <<x, m>> \in R
    BY <2>1, <2>2
  <2>3. CASE <<m, x>> \in R
    <3>1. \A n \in U : <<n, x>> \in R
      BY <1>4, <2>1, <2>3
    <3>2. QED  BY <3>1, <1>4
  <2>4. QED  BY <1>4, <2>1, <2>2, <2>3
<1>8. QED  BY <1>6, <1>7

LEMMA FiniteHasMax ==
  ASSUME NEW S \in SUBSET Nat, IsFiniteSet(S), S # {}
  PROVE  \E m \in S : \A n \in S : n <= m
<1> DEFINE R == {p \in Nat \X Nat : p[1] <= p[2]}
<1>1. \A x, y \in Nat : <<x, y>> \in R <=> x <= y
  OBVIOUS
<1> HIDE DEF R
<1>2. \E m \in S : \A n \in S : <<n, m>> \in R
  <2>0. S \subseteq Nat
    OBVIOUS
  <2>1. ASSUME NEW x \in S, NEW y \in S  PROVE <<x, y>> \in R \/ <<y, x>> \in R
    <3>1. x \in Nat /\ y \in Nat
      BY <2>0
    <3>2. QED  BY <1>1, <3>1
  <2>2. \A x, y, z \in S : <<x, y>> \in R /\ <<y, z>> \in R => <<x, z>> \in R
    BY <1>1, <2>0
  <2>3. QED  BY <2>1, <2>2, FiniteHasGreatest
<1>3. QED  BY <1>1, <1>2

LEMMA FiniteHasMin ==
  ASSUME NEW S \in SUBSET Nat, IsFiniteSet(S), S # {}
  PROVE  \E m \in S : \A n \in S : m <= n
<1> DEFINE R == {p \in Nat \X Nat : p[2] <= p[1]}
<1>1. \A x, y \in Nat : <<x, y>> \in R <=> y <= x
  OBVIOUS
<1> HIDE DEF R
<1>2. \E m \in S : \A n \in S : <<n, m>> \in R
  <2>0. S \subseteq Nat
    OBVIOUS
  <2>1. ASSUME NEW x \in S, NEW y \in S  PROVE <<x, y>> \in R \/ <<y, x>> \in R
    <3>1. x \in Nat /\ y \in Nat
      BY <2>0
    <3>2. QED  BY <1>1, <3>1
  <2>2. \A x, y, z \in S : <<x, y>> \in R /\ <<y, z>> \in R => <<x, z>> \in R
    BY <1>1, <2>0
  <2>3. QED  BY <2>1, <2>2, FiniteHasGreatest
<1>3. QED  BY <1>1, <1>2

LEMMA CursorType == \A cursor \in Members \cup {0} : cursor \in Nat
BY ControlAssumption DEF ControlAssumption

LEMMA CountType ==
  ASSUME NEW S \in SUBSET Members
  PROVE  /\ IsFiniteSet(S) /\ Cardinality(S) \in Nat
         /\ Cardinality(S) = 0 <=> S = {}
BY ControlAssumption, FS_Subset, FS_CardinalityType, FS_EmptySet DEF ControlAssumption

LEMMA CountMonotone ==
  ASSUME NEW S \in SUBSET Members, NEW T \in SUBSET S
  PROVE  Cardinality(T) <= Cardinality(S)
BY CountType, FS_Subset

\* A page is the beginning of what follows the cursor: whoever comes before its
\* last member is on it.
LEMMA PageIsPrefix ==
  ASSUME list \subseteq Members, NEW cursor \in Members \cup {0}, Page(cursor) # {}
  PROVE  LET last == Last(Page(cursor)) IN
         /\ last \in Members /\ last \in list /\ last > cursor
         /\ Page(cursor) \subseteq list
         /\ \A m \in list : m > cursor /\ m <= last => m \in Page(cursor)
<1> DEFINE after == {m \in list : m > cursor}
           before(m) == {n \in after : n < m}
           last == Last(Page(cursor))
<1>1. Members \subseteq Nat \ {0} /\ Chunk \in Nat
  BY ControlAssumption DEF ControlAssumption
<1>2. Page(cursor) = {m \in after : Cardinality(before(m)) < Chunk}
  BY DEF Page
<1>3. Page(cursor) \in SUBSET Nat /\ IsFiniteSet(Page(cursor))
  BY <1>1, <1>2, CountType
<1>4. last \in Page(cursor) /\ \A n \in Page(cursor) : n <= last
  BY <1>3, FiniteHasMax DEF Last
<1>5. ASSUME NEW m \in list, m > cursor, m <= last  PROVE m \in Page(cursor)
  <2>1. before(m) \in SUBSET before(last) /\ before(last) \in SUBSET Members
    <3>1. m \in Nat /\ last \in Nat /\ after \in SUBSET Nat /\ after \in SUBSET Members
      BY <1>1, <1>2, <1>4
    <3>2. ASSUME NEW n \in after, n < m  PROVE n < last
      BY <1>5, <3>1, <3>2
    <3>3. QED  BY <3>1, <3>2
  <2>2. Cardinality(before(last)) < Chunk
    BY <1>2, <1>4
  <2>3. Cardinality(before(m)) \in Nat /\ Cardinality(before(last)) \in Nat
    BY <2>1, CountType
  <2>4. Cardinality(before(m)) < Chunk
    BY <1>1, <2>1, <2>2, <2>3, CountMonotone
  <2>5. QED  BY <1>2, <1>5, <2>4
<1>6. QED  BY <1>1, <1>2, <1>4, <1>5

\* Only a cursor whose row is gone ends the import early.
LEMMA EmptyPageIsTheEnd ==
  ASSUME list \subseteq Members, NEW cursor \in Members \cup {0},
         cursor = 0 \/ cursor \in list, Page(cursor) = {}
  PROVE  \A m \in list : m <= cursor
<1> DEFINE after == {m \in list : m > cursor}
<1>1. Members \subseteq Nat \ {0} /\ Chunk \in Nat \ {0}
  BY ControlAssumption DEF ControlAssumption
<1>2. SUFFICES ASSUME after # {}  PROVE FALSE
  BY <1>1
<1>3. after \in SUBSET Nat /\ IsFiniteSet(after)
  BY <1>1, CountType
<1>4. PICK m \in after : \A n \in after : m <= n
  BY <1>2, <1>3, FiniteHasMin
<1>5. {n \in after : n < m} = {}
  <2>1. SUFFICES ASSUME NEW n \in after, n < m  PROVE FALSE
    OBVIOUS
  <2>2. n \in Nat /\ m \in Nat /\ m <= n
    BY <1>1, <1>4
  <2>3. QED  BY <2>1, <2>2
<1>6. Cardinality({n \in after : n < m}) < Chunk
  BY <1>1, <1>5, FS_EmptySet
<1>7. m \in Page(cursor)
  BY <1>4, <1>6 DEF Page
<1>8. QED  BY <1>7

-----------------------------------------------------------------------------
(* Type correctness *)

\* A request that changes fields within their types stays a request.
LEMMA ReqStep ==
  ASSUME req \in [Reqs -> Req], NEW q \in Reqs, NEW r \in Req,
         req' = [req EXCEPT ![q] = r]
  PROVE  req' \in [Reqs -> Req]
OBVIOUS

LEMMA GotoType ==
  ASSUME req \in [Reqs -> Req], NEW q \in Reqs, NEW pc, Goto(q, pc),
         pc \in {"new", "read", "queue", "import", "run", "update", "enqueue", "jobs",
                 "clean", "background", "write", "done", "gone"}
  PROVE  req' \in [Reqs -> Req]
BY DEF Goto, Req

LEMMA ReleasedType ==
  ASSUME lock \in [Locked -> Reqs \cup {None}], NEW q \in Reqs
  PROVE  Released(q) \in [Locked -> Reqs \cup {None}]
BY DEF Released

LEMMA EndType ==
  ASSUME req \in [Reqs -> Req], lock \in [Locked -> Reqs \cup {None}],
         NEW q \in Reqs, NEW answer \in {"ok", "refused", "failed"}, End(q, answer)
  PROVE  req' \in [Reqs -> Req] /\ lock' \in [Locked -> Reqs \cup {None}]
<1> DEFINE r == [req[q] EXCEPT !.pc = "done", !.answer = answer]
<1>1. r \in Req
  BY DEF Req
<1>2. req' = [req EXCEPT ![q] = r]
  BY DEF End
<1>3. QED  BY <1>1, <1>2, ReqStep, ReleasedType DEF End

LEMMA HappensType ==
  ASSUME events \in 0 .. Events, Happens
  PROVE  events' \in 0 .. Events
<1>1. Events \in Nat
  BY ControlAssumption DEF ControlAssumption
<1>2. QED  BY <1>1 DEF Happens

LEMMA TypeInitial == Init => TypeOK
<1> SUFFICES ASSUME Init  PROVE TypeOK
  OBVIOUS
<1>1. PICK s \in Scenarios :
        /\ list = s.list
        /\ req = [q \in Reqs |->
                 [act |-> s.asks[q], pc |-> "new", answer |-> "none", cursor |-> 0,
                  count |-> 0, base |-> {}, cut |-> FALSE, lapsed |-> FALSE]]
  BY DEF Init
<1>2. s \in [list : SUBSET Members, asks : [Reqs -> Acts]]
  BY ControlAssumption DEF ControlAssumption
<1>3. req \in [Reqs -> Req] /\ list \subseteq Members
  BY <1>1, <1>2 DEF Req
<1>4. events \in 0 .. Events
  BY ControlAssumption DEF Init, ControlAssumption
<1>5. status \in Status /\ due \in BOOLEAN
  BY DEF Init, Status
<1>6. QED  BY <1>3, <1>4, <1>5 DEF Init, TypeOK

LEMMA TypeStep == TypeOK /\ [Next]_vars => TypeOK'
<1> SUFFICES ASSUME TypeOK, [Next]_vars  PROVE TypeOK'
  OBVIOUS
<1>1. req \in [Reqs -> Req] /\ lock \in [Locked -> Reqs \cup {None}]
      /\ list \subseteq Members /\ row \in [Members -> {"none", "pending", "queued", "sent", "failed", "skipped"}]
      /\ events \in 0 .. Events /\ Events \in Nat
  BY ControlAssumption DEF TypeOK, ControlAssumption
<1>2. Cardinality(Rows) \in Nat
  BY CountType DEF Rows
<1>3. ASSUME NEW q \in Reqs, Acquire(q) \/ NotAcquired(q)  PROVE TypeOK'
  BY <1>3, GotoType DEF Acquire, NotAcquired, Goto, campaign, env, worker, TypeOK, Req
<1>4. ASSUME NEW q \in Reqs, StartRead(q) \/ ImportFails(q) \/ Enqueue(q)  PROVE TypeOK'
  BY <1>4, GotoType, EndType DEF StartRead, ImportFails, Enqueue, campaign, env, worker, TypeOK
<1>5. ASSUME NEW q \in Reqs, StartQueue(q)  PROVE TypeOK'
  <2> DEFINE r == [req[q] EXCEPT !.pc = "import", !.base = list]
  <2>1. r \in Req
    BY <1>1, ZenonT(40) DEF Req
  <2>2. req' = [req EXCEPT ![q] = r]
    BY <1>5 DEF StartQueue
  <2>3. req' \in [Reqs -> Req]
    BY <1>1, <2>1, <2>2, ReqStep
  <2>4. QED  BY <1>5, <2>3 DEF StartQueue, env, worker, TypeOK, Status
<1>6. ASSUME NEW q \in Reqs, ImportChunk(q)  PROVE TypeOK'
  <2>1. Last(Page(req[q].cursor)) \in Members
    BY <1>1, <1>6, PageIsPrefix DEF ImportChunk, Req
  <2>2. req' \in [Reqs -> Req]
    BY <1>6, <2>1 DEF ImportChunk, TypeOK, Req
  <2>3. QED  BY <1>6, <2>2 DEF ImportChunk, env, worker, TypeOK
<1>7. ASSUME NEW q \in Reqs, StartCount(q)  PROVE TypeOK'
  <2>1. req' \in [Reqs -> Req] /\ lock' \in [Locked -> Reqs \cup {None}]
    <3>1. CASE Rows = {}
      BY <1>1, <1>7, <3>1, EndType DEF StartCount
    <3>2. CASE Rows # {}
      BY <1>1, <1>2, <1>7, <3>2 DEF StartCount, Req
    <3>3. QED  BY <3>1, <3>2
  <2>2. QED  BY <1>7, <2>1 DEF StartCount, campaign, env, worker, TypeOK
<1>8. ASSUME NEW q \in Reqs, StartRun(q)  PROVE TypeOK'
  <2>1. req[q].count \in Nat
    BY <1>1 DEF Req
  <2>2. QED  BY <1>8, <2>1, GotoType DEF StartRun, env, worker, TypeOK, Status
<1>9. ASSUME NEW q \in Reqs, ResumeUpdate(q) \/ CancelUpdate(q)  PROVE TypeOK'
  BY <1>9, GotoType, EndType DEF ResumeUpdate, CancelUpdate, env, worker, TypeOK, Status
<1>10. ASSUME NEW q \in Reqs, CancelRead(q) \/ CleanEnds(q)  PROVE TypeOK'
  BY <1>10, GotoType, EndType DEF CancelRead, CleanEnds, campaign, env, worker, TypeOK
<1>11. ASSUME NEW q \in Reqs, CancelJobs(q)  PROVE TypeOK'
  BY <1>11, GotoType, EndType, ReleasedType DEF CancelJobs, campaign, env, TypeOK
<1>12. ASSUME NEW q \in Reqs, CleanBatch(q)  PROVE TypeOK'
  BY <1>12 DEF CleanBatch, env, worker, TypeOK
<1>13. ASSUME NEW q \in Reqs, DeleteRead(q) \/ DeleteWrite(q)  PROVE TypeOK'
  BY <1>13, GotoType DEF DeleteRead, DeleteWrite, Goto, campaign, env, worker, TypeOK, Req
<1>14. ASSUME NEW q \in Reqs, Crash(q)  PROVE TypeOK'
  BY <1>1, <1>14, GotoType, HappensType DEF Crash, campaign, worker, TypeOK
<1>15. ASSUME NEW a \in Locked, Expire(a)  PROVE TypeOK'
  <2> DEFINE q == lock[a]
             r == [req[q] EXCEPT !.lapsed = TRUE]
  <2>1. q \in Reqs
    BY <1>1, <1>15 DEF Expire
  <2>3. req' = [req EXCEPT ![q] = r]
    BY <1>15 DEF Expire
  <2> HIDE DEF q
  <2>2. r \in Req
    BY <1>1, <2>1, ZenonT(40) DEF Req
  <2> HIDE DEF r
  <2>4. req' \in [Reqs -> Req]
    BY <1>1, <2>1, <2>2, <2>3, ReqStep
  <2>5. QED  BY <1>1, <1>15, <2>4, HappensType DEF Expire, campaign, worker, TypeOK
<1>16. CASE Pause \/ ComesDue \/ Finalize
  <2>1. CASE Pause
    BY <1>1, <2>1, HappensType DEF Pause, worker, TypeOK, Status
  <2>2. CASE ComesDue \/ Finalize
    BY <2>2 DEF ComesDue, Finalize, FinWrite, env, worker, TypeOK, Status
  <2>3. QED  BY <1>16, <2>1, <2>2
<1>17. ASSUME NEW m \in Members, Work(m)  PROVE TypeOK'
  BY <1>17 DEF Work, Dispatch, Begin, Settle, FinRead, campaign, env, TypeOK, Status
<1>18. ASSUME NEW m \in Members, AddMember(m) \/ Refuse(m)  PROVE TypeOK'
  BY <1>1, <1>18, HappensType DEF AddMember, Refuse, campaign, worker, TypeOK
<1>19. ASSUME NEW m \in Members, RemoveMember(m)  PROVE TypeOK'
  <2> DEFINE r(q) == [req[q] EXCEPT !.base = @ \ {m},
                        !.cut = @ \/ (At(q, "start", "import") /\ req[q].cursor = m)]
  <2>1. ASSUME NEW q \in Reqs  PROVE r(q) \in Req
    <3>1. (At(q, "start", "import") /\ req[q].cursor = m) \in BOOLEAN
      BY DEF At
    <3>2. QED  BY <1>1, <3>1, ZenonT(40) DEF Req
  <2>2. req' = [q \in Reqs |-> r(q)]
    BY <1>19 DEF RemoveMember
  <2> HIDE DEF r
  <2>3. req' \in [Reqs -> Req]
    BY <2>1, <2>2
  <2>4. QED  BY <1>1, <1>19, <2>3, HappensType DEF RemoveMember, campaign, worker, TypeOK
<1>20. CASE UNCHANGED vars
  BY <1>20 DEF vars, campaign, env, worker, TypeOK
<1>21. QED
  BY <1>3, <1>4, <1>5, <1>6, <1>7, <1>8, <1>9, <1>10, <1>11, <1>12, <1>13, <1>14, <1>15,
     <1>16, <1>17, <1>18, <1>19, <1>20 DEF Next, Serve, StartStep, CancelStep

\* Every variable keeps its type.
THEOREM ControlTypeCorrect == Spec => []TypeOK
BY TypeInitial, TypeStep, PTL DEF Spec

-----------------------------------------------------------------------------
(* What a step does to the locks *)

\* Nothing that a lock's holder could tell.
Unmoved(q) ==
  /\ Act(q)' = Act(q) /\ req'[q].lapsed = req[q].lapsed
  /\ req[q].pc = "gone" => req'[q].pc = "gone"
  /\ req'[q].pc = "new" => req[q].pc = "new"
  /\ Act(q) \in Locked => (Inside(q)' <=> Inside(q))
  /\ req'[q].pc = "enqueue" => req[q].pc = "enqueue" \/ Act(q) \in Locked
Quiet == lock' = lock /\ \A q \in Reqs : Unmoved(q)

\* Only a start or a resume adds a job to the campaign queue.
EnqueueIsLocked == \A q \in Reqs : req[q].pc = "enqueue" => Act(q) \in Locked

Others(q) == \A r \in Reqs \ {q} : req'[r] = req[r]
Keeps(q) == Act(q)' = Act(q) /\ req'[q].lapsed = req[q].lapsed /\ Others(q)

Enters(q) ==
  /\ req[q].pc = "new" /\ Act(q) \in Locked /\ lock[Act(q)] = None
  /\ Keeps(q) /\ Inside(q)'
  /\ lock' = [lock EXCEPT ![Act(q)] = q]

Leaves(q) ==
  /\ req[q].pc \notin {"new", "gone"} /\ Act(q) \in Locked
  /\ Keeps(q) /\ ~Inside(q)' /\ req'[q].pc # "new"
  /\ lock' = Released(q)

Dies(q) ==
  /\ req[q].pc # "new" /\ Keeps(q) /\ req'[q].pc = "gone"
  /\ lock' = lock

Lapses(a) ==
  /\ lock[a] # None
  /\ lock' = [lock EXCEPT ![a] = None]
  /\ req' = [req EXCEPT ![lock[a]].lapsed = TRUE]

LEMMA GotoMoves ==
  ASSUME req \in [Reqs -> Req], NEW q \in Reqs, NEW pc, Goto(q, pc)
  PROVE  Keeps(q) /\ req'[q].pc = pc
BY DEF Goto, Keeps, Others, Act, Req

LEMMA EndMoves ==
  ASSUME req \in [Reqs -> Req], NEW q \in Reqs, NEW answer, End(q, answer)
  PROVE  Keeps(q) /\ req'[q].pc = "done" /\ lock' = Released(q)
BY DEF End, Keeps, Others, Act, Req

LEMMA RemoveMoves ==
  ASSUME req \in [Reqs -> Req], NEW m \in Members, RemoveMember(m), NEW q \in Reqs
  PROVE  /\ req'[q].act = req[q].act /\ req'[q].pc = req[q].pc /\ req'[q].answer = req[q].answer
         /\ req'[q].cursor = req[q].cursor /\ req'[q].count = req[q].count
         /\ req'[q].lapsed = req[q].lapsed /\ req'[q].base = req[q].base \ {m}
         /\ ~req'[q].cut => ~req[q].cut /\ ~(At(q, "start", "import") /\ req[q].cursor = m)
<1> DEFINE hit == At(q, "start", "import") /\ req[q].cursor = m
<1>1. hit \in BOOLEAN
  BY DEF At
<1>2. req'[q] = [req[q] EXCEPT !.base = @ \ {m}, !.cut = @ \/ hit]
  BY DEF RemoveMember
<1> HIDE DEF hit
<1>3. /\ req'[q].act = req[q].act /\ req'[q].pc = req[q].pc /\ req'[q].answer = req[q].answer
      /\ req'[q].cursor = req[q].cursor /\ req'[q].count = req[q].count
      /\ req'[q].lapsed = req[q].lapsed /\ req'[q].base = req[q].base \ {m}
      /\ req'[q].cut = (req[q].cut \/ hit)
  BY <1>1, <1>2 DEF Req
<1>4. ~req'[q].cut => ~req[q].cut /\ ~hit
  BY <1>3
<1>5. QED  BY <1>3, <1>4 DEF hit

LEMMA EndLeaves ==
  ASSUME req \in [Reqs -> Req], NEW q \in Reqs, NEW answer, End(q, answer),
         req[q].pc \notin {"new", "gone"}, Act(q) \in Locked
  PROVE  Leaves(q)
BY EndMoves DEF Leaves, Inside

LEMMA QuietMove ==
  ASSUME NEW q \in Reqs, Keeps(q), lock' = lock,
         req[q].pc # "gone", req'[q].pc # "new",
         Act(q) \in Locked => (Inside(q)' <=> Inside(q)),
         req'[q].pc = "enqueue" => Act(q) \in Locked
  PROVE  Quiet
BY DEF Quiet, Keeps, Others, Unmoved, Act, Inside

\* Every step leaves the locks alone, takes one, gives one back, abandons one or
\* lets one expire.
LEMMA LockStep ==
  ASSUME TypeOK, EnqueueIsLocked, [Next]_vars
  PROVE  \/ Quiet
         \/ \E q \in Reqs : Enters(q) \/ Leaves(q) \/ Dies(q)
         \/ \E a \in Locked : Lapses(a)
<1> DEFINE Goal == \/ Quiet
                   \/ \E q \in Reqs : Enters(q) \/ Leaves(q) \/ Dies(q)
                   \/ \E a \in Locked : Lapses(a)
<1> SUFFICES Goal
  OBVIOUS
<1>1. req \in [Reqs -> Req] /\ lock \in [Locked -> Reqs \cup {None}]
  BY DEF TypeOK
<1>2. ASSUME NEW q \in Reqs, Acquire(q)  PROVE Goal
  <2>1. Enters(q)
    BY <1>1, <1>2, GotoMoves DEF Acquire, Enters, Inside
  <2>2. QED  BY <2>1
<1>3. ASSUME NEW q \in Reqs, NotAcquired(q)  PROVE Goal
  <2>1. Keeps(q) /\ req'[q].pc = "done"
    BY <1>1, <1>3 DEF NotAcquired, Keeps, Others, Act, Req
  <2>2. Quiet
    BY <1>3, <2>1, QuietMove DEF NotAcquired, Inside
  <2>3. QED  BY <2>2
<1>5. ASSUME NEW q \in Reqs, StartStep(q)  PROVE Goal
  <2>1. Act(q) \in Locked
    BY <1>5 DEF StartStep, StartRead, StartQueue, ImportChunk, ImportFails, StartCount, StartRun, At, Act, Locked
  <2>2. CASE StartRead(q)
    <3>1. CASE Goto(q, "queue") /\ lock' = lock
      BY <1>1, <2>2, <3>1, GotoMoves, QuietMove DEF StartRead, At, Inside
    <3>2. CASE End(q, "refused")
      BY <1>1, <2>1, <2>2, <3>2, EndLeaves DEF StartRead, At
    <3>3. QED  BY <2>2, <3>1, <3>2 DEF StartRead
  <2>3. CASE StartQueue(q)
    <3>1. Keeps(q) /\ req'[q].pc = "import"
      BY <1>1, <2>3 DEF StartQueue, Keeps, Others, Act, Req
    <3>2. QED  BY <2>3, <3>1, QuietMove DEF StartQueue, At, Inside
  <2>4. CASE ImportChunk(q)
    <3>1. Keeps(q) /\ req'[q].pc = req[q].pc
      BY <1>1, <2>4 DEF ImportChunk, Keeps, Others, Act, Req
    <3>2. QED  BY <2>4, <3>1, QuietMove DEF ImportChunk, At, Inside
  <2>5. CASE ImportFails(q)
    BY <1>1, <2>1, <2>5, EndLeaves DEF ImportFails, At
  <2>6. CASE StartCount(q)
    <3>1. CASE Rows = {}
      BY <1>1, <2>1, <2>6, <3>1, EndLeaves DEF StartCount, At
    <3>2. CASE Rows # {}
      <4>1. Keeps(q) /\ req'[q].pc = "run" /\ lock' = lock
        BY <1>1, <2>6, <3>2 DEF StartCount, Keeps, Others, Act, Req
      <4>2. QED  BY <2>6, <4>1, QuietMove DEF StartCount, At, Inside
    <3>3. QED  BY <3>1, <3>2
  <2>7. CASE StartRun(q)
    BY <1>1, <2>1, <2>7, GotoMoves, QuietMove DEF StartRun, At, Inside
  <2>8. QED  BY <1>5, <2>2, <2>3, <2>4, <2>5, <2>6, <2>7 DEF StartStep
<1>6. ASSUME NEW q \in Reqs, ResumeUpdate(q)  PROVE Goal
  <2>0. Act(q) \in Locked
    BY <1>6 DEF ResumeUpdate, At, Act, Locked
  <2>1. CASE status = "paused"
    BY <1>1, <1>6, <2>0, <2>1, GotoMoves, QuietMove DEF ResumeUpdate, At, Inside
  <2>2. CASE status # "paused"
    BY <1>1, <1>6, <2>0, <2>2, EndLeaves DEF ResumeUpdate, At
  <2>3. QED  BY <2>1, <2>2
<1>7. ASSUME NEW q \in Reqs, CancelStep(q)  PROVE Goal
  <2>1. Act(q) \in Locked
    BY <1>7 DEF CancelStep, CancelRead, CancelUpdate, CancelJobs, CleanBatch, CleanEnds, At, Act, Locked
  <2>2. CASE CancelRead(q)
    BY <1>1, <2>2, GotoMoves, QuietMove DEF CancelRead, At, Inside
  <2>3. CASE CancelUpdate(q)
    <3>1. CASE status \in {"queued", "running", "paused", "pending"}
      BY <1>1, <2>3, <3>1, GotoMoves, QuietMove DEF CancelUpdate, At, Inside
    <3>2. CASE status \notin {"queued", "running", "paused", "pending"}
      BY <1>1, <2>1, <2>3, <3>2, EndLeaves DEF CancelUpdate, At
    <3>3. QED  BY <3>1, <3>2
  <2>4. CASE CancelJobs(q)
    <3>1. CASE End(q, "ok")
      BY <1>1, <2>1, <2>4, <3>1, EndLeaves DEF CancelJobs, At
    <3>2. CASE Goto(q, "clean") /\ lock' = lock
      BY <1>1, <2>4, <3>2, GotoMoves, QuietMove DEF CancelJobs, At, Inside
    <3>3. CASE Goto(q, "background") /\ lock' = Released(q)
      BY <1>1, <2>1, <2>4, <3>3, GotoMoves DEF CancelJobs, At, Inside, Leaves
    <3>4. QED  BY <2>4, <3>1, <3>2, <3>3 DEF CancelJobs
  <2>5. CASE CleanBatch(q)
    BY <2>5 DEF CleanBatch, Quiet, Unmoved, Act, Inside
  <2>6. CASE CleanEnds(q)
    BY <1>1, <2>1, <2>6, EndLeaves DEF CleanEnds
  <2>7. QED  BY <1>7, <2>2, <2>3, <2>4, <2>5, <2>6 DEF CancelStep
<1>9. ASSUME NEW q \in Reqs, DeleteRead(q) \/ DeleteWrite(q)  PROVE Goal
  <2>1. Act(q) \notin Locked /\ req[q].pc \in {"new", "write"} /\ lock' = lock
    BY <1>9 DEF DeleteRead, DeleteWrite, At, Act, Locked
  <2>2. Keeps(q) /\ req'[q].pc \in {"write", "done"}
    <3>1. CASE DeleteRead(q)
      BY <1>1, <3>1 DEF DeleteRead, Keeps, Others, Act, Req
    <3>2. CASE DeleteWrite(q)
      BY <1>1, <3>2, GotoMoves DEF DeleteWrite
    <3>3. QED  BY <1>9, <3>1, <3>2
  <2>3. QED  BY <2>1, <2>2, QuietMove
<1>10. ASSUME NEW q \in Reqs, Crash(q)  PROVE Goal
  <2>1. Dies(q)
    BY <1>1, <1>10, GotoMoves DEF Crash, Dies, Inside
  <2>2. QED  BY <2>1
<1>11. ASSUME NEW a \in Locked, Expire(a)  PROVE Goal
  BY <1>11 DEF Expire, Lapses
<1>12. CASE Pause \/ ComesDue \/ Finalize
  BY <1>12 DEF Pause, ComesDue, Finalize, FinWrite, Quiet, Unmoved, Act, Inside
<1>13. ASSUME NEW m \in Members, Work(m) \/ AddMember(m) \/ Refuse(m)  PROVE Goal
  BY <1>13 DEF Work, Dispatch, Begin, Settle, FinRead, AddMember, Refuse, Quiet, Unmoved, Act, Inside
<1>14. ASSUME NEW m \in Members, RemoveMember(m)  PROVE Goal
  <2>1. ASSUME NEW q \in Reqs  PROVE Unmoved(q)
    BY <1>1, <1>14, RemoveMoves DEF Unmoved, Act, Inside
  <2>2. QED  BY <1>14, <2>1 DEF RemoveMember, Quiet
<1>15. CASE UNCHANGED vars
  BY <1>15 DEF vars, Quiet, Unmoved, Act, Inside
<1>16. ASSUME NEW q \in Reqs, Enqueue(q)  PROVE Goal
  BY <1>1, <1>16, EndLeaves DEF Enqueue, EnqueueIsLocked
<1>17. QED
  BY <1>2, <1>3, <1>5, <1>6, <1>7, <1>9, <1>10, <1>11, <1>12, <1>13, <1>14, <1>15, <1>16 DEF Next, Serve

-----------------------------------------------------------------------------
(* The locks are leases *)

\* The key holds the token of a request that has not ended, unless its process
\* died; and a request that runs holds its key until the TTL takes it away.
LockInv ==
  /\ \A a \in Locked : lock[a] # None =>
       /\ Act(lock[a]) = a /\ ~req[lock[a]].lapsed
       /\ Inside(lock[a]) \/ req[lock[a]].pc = "gone"
  /\ \A q \in Reqs : Act(q) \in Locked /\ Inside(q) /\ ~req[q].lapsed => lock[Act(q)] = q
  /\ \A q \in Reqs : req[q].lapsed => Act(q) \in Locked /\ req[q].pc # "new"
  /\ EnqueueIsLocked

LEMMA LockInitial == Init => LockInv
<1> SUFFICES ASSUME Init  PROVE LockInv
  OBVIOUS
<1>1. \A q \in Reqs : req[q].pc = "new" /\ ~req[q].lapsed
  BY DEF Init
<1>2. \A a \in Locked : lock[a] = None
  BY DEF Init
<1>3. QED  BY <1>1, <1>2 DEF LockInv, EnqueueIsLocked, Inside

LEMMA LockInvStep == TypeOK /\ LockInv /\ [Next]_vars => LockInv'
<1> SUFFICES ASSUME TypeOK, LockInv, [Next]_vars  PROVE LockInv'
  OBVIOUS
<1>1. lock \in [Locked -> Reqs \cup {None}] /\ None \notin Reqs /\ req \in [Reqs -> Req]
  BY ControlAssumption DEF ControlAssumption, TypeOK
<1>2. CASE Quiet
  BY <1>1, <1>2 DEF Quiet, Unmoved, LockInv, EnqueueIsLocked, Inside, Act
<1>3. ASSUME NEW q \in Reqs, Enters(q)  PROVE LockInv'
  BY <1>1, <1>3 DEF Enters, Keeps, Others, LockInv, EnqueueIsLocked, Inside, Act
<1>4. ASSUME NEW q \in Reqs, Leaves(q)  PROVE LockInv'
  BY <1>1, <1>4 DEF Leaves, Keeps, Others, Released, LockInv, EnqueueIsLocked, Inside, Act
<1>5. ASSUME NEW q \in Reqs, Dies(q)  PROVE LockInv'
  BY <1>1, <1>5 DEF Dies, Keeps, Others, LockInv, EnqueueIsLocked, Inside, Act
<1>6. ASSUME NEW a \in Locked, Lapses(a)  PROVE LockInv'
  <2> DEFINE q == lock[a]
  <2>1. q \in Reqs /\ Act(q) = a
    BY <1>1, <1>6 DEF Lapses, LockInv
  <2>2. \A r \in Reqs : /\ req'[r].act = req[r].act /\ req'[r].pc = req[r].pc
                        /\ req'[r].lapsed = (r = q \/ req[r].lapsed)
    BY <1>1, <1>6, <2>1 DEF Lapses, Req
  <2>3. lock' = [lock EXCEPT ![a] = None] /\ lock[a] = q
    BY <1>6 DEF Lapses
  <2> HIDE DEF q
  <2>4. ASSUME NEW b \in Locked, lock'[b] # None
        PROVE  /\ Act(lock[b])' = b /\ ~req'[lock[b]].lapsed /\ lock'[b] = lock[b]
               /\ Inside(lock[b])' \/ req'[lock[b]].pc = "gone"
    <3>1. b # a /\ lock'[b] = lock[b] /\ lock[b] \in Reqs
      BY <1>1, <2>3, <2>4
    <3>2. Act(lock[b]) = b /\ ~req[lock[b]].lapsed
          /\ (Inside(lock[b]) \/ req[lock[b]].pc = "gone")
      BY <3>1, <1>1, <2>4 DEF LockInv
    <3>3. lock[b] # q
      BY <3>1, <3>2, <2>1
    <3>4. QED  BY <2>2, <3>1, <3>2, <3>3 DEF Inside, Act
  <2>5. ASSUME NEW r \in Reqs, Act(r)' \in Locked, Inside(r)', ~req'[r].lapsed
        PROVE  lock'[Act(r)'] = r
    <3>1. r # q /\ Act(r)' = Act(r) /\ Inside(r) /\ ~req[r].lapsed
      BY <2>2, <2>5 DEF Act, Inside
    <3>2. lock[Act(r)] = r /\ Act(r) \in Locked
      BY <2>5, <3>1 DEF LockInv
    <3>3. QED  BY <1>1, <2>3, <3>1, <3>2
  <2>6. ASSUME NEW r \in Reqs, req'[r].lapsed  PROVE Act(r)' \in Locked /\ req'[r].pc # "new"
    <3>1. req[q].pc # "new"
      BY <1>6, <2>3 DEF Lapses, LockInv, Inside
    <3>2. QED  BY <2>1, <2>2, <2>6, <3>1, ZenonT(40) DEF LockInv, Act
  <2>7. EnqueueIsLocked'
    BY <2>2 DEF LockInv, EnqueueIsLocked, Act
  <2>8. QED  BY <2>4, <2>5, <2>6, <2>7 DEF LockInv
<1>7. QED  BY <1>2, <1>3, <1>4, <1>5, <1>6, LockStep DEF LockInv

LEMMA LockInvariant == Spec => [](TypeOK /\ LockInv)
<1>1. Init => TypeOK /\ LockInv
  BY TypeInitial, LockInitial
<1>2. TypeOK /\ LockInv /\ [Next]_vars => (TypeOK /\ LockInv)'
  BY TypeStep, LockInvStep
<1>3. QED  BY <1>1, <1>2, PTL DEF Spec

\* Two callbacks of one action of the campaign run at the same time only when
\* the TTL ran out on one of them.
THEOREM OneRequestAtATime == Spec => []OneAtATime
<1>1. LockInv => OneAtATime
  BY DEF LockInv, OneAtATime, StartLock!OneInside, ResumeLock!OneInside, CancelLock!OneInside,
     Running, Lapsed, Locked
<1>2. QED  BY <1>1, LockInvariant, PTL

\* withDistributedLock implements the lease, for each of its three keys.
THEOREM LocksImplementLeases == Spec => LocksAreLeases
<1> DEFINE LeaseNext(a) ==
      \/ /\ lock[a] # None /\ lock'[a] = None
         /\ Lapsed(a)' = Lapsed(a) \cup {lock[a]} /\ Running(a)' = Running(a)
      \/ \E c \in Reqs :
           \/ /\ lock[a] = None /\ c \notin Running(a) \cup Lapsed(a)
              /\ lock'[a] = c /\ Running(a)' = Running(a) \cup {c}
              /\ Lapsed(a)' = Lapsed(a)
           \/ /\ c \in Running(a) /\ Running(a)' = Running(a) \ {c}
              /\ lock'[a] \in {lock[a], IF lock[a] = c THEN None ELSE lock[a]}
              /\ Lapsed(a)' = Lapsed(a)
      \/ lock'[a] = lock[a] /\ Running(a)' = Running(a) /\ Lapsed(a)' = Lapsed(a)
<1>1. Init => StartLock!Init /\ ResumeLock!Init /\ CancelLock!Init
  <2> SUFFICES ASSUME Init  PROVE \A a \in Locked : lock[a] = None /\ Running(a) = {} /\ Lapsed(a) = {}
    BY DEF StartLock!Init, ResumeLock!Init, CancelLock!Init, Locked
  <2>1. \A q \in Reqs : req[q].pc = "new" /\ ~req[q].lapsed
    BY DEF Init
  <2>2. \A a \in Locked : lock[a] = None
    BY DEF Init
  <2>3. QED  BY <2>1, <2>2 DEF Running, Lapsed, Inside
<1>2. ASSUME TypeOK, LockInv, [Next]_vars, NEW a \in Locked  PROVE LeaseNext(a)
  <2>1. lock \in [Locked -> Reqs \cup {None}] /\ None \notin Reqs /\ req \in [Reqs -> Req]
    BY <1>2, ControlAssumption DEF ControlAssumption, TypeOK
  <2>2. CASE Quiet
    BY <2>2 DEF Quiet, Unmoved, Running, Lapsed, Act
  <2>3. ASSUME NEW q \in Reqs, Enters(q)  PROVE LeaseNext(a)
    <3>1. CASE a = Act(q)
      <4>1. q \notin Running(a) \cup Lapsed(a)
        BY <1>2, <2>3 DEF Enters, LockInv, Running, Lapsed, Inside
      <4>2. Running(a)' = Running(a) \cup {q} /\ Lapsed(a)' = Lapsed(a)
        BY <2>3, <3>1 DEF Enters, Keeps, Others, Running, Lapsed, Inside, Act
      <4>3. QED  BY <2>1, <2>3, <3>1, <4>1, <4>2 DEF Enters
    <3>2. CASE a # Act(q)
      BY <2>1, <2>3, <3>2 DEF Enters, Keeps, Others, Running, Lapsed, Inside, Act
    <3>3. QED  BY <3>1, <3>2
  <2>4. ASSUME NEW q \in Reqs, Leaves(q)  PROVE LeaseNext(a)
    <3>1. CASE a = Act(q) /\ Inside(q)
      <4>1. Running(a)' = Running(a) \ {q} /\ Lapsed(a)' = Lapsed(a) /\ q \in Running(a)
        BY <2>4, <3>1 DEF Leaves, Keeps, Others, Running, Lapsed, Inside, Act
      <4>2. lock'[a] = IF lock[a] = q THEN None ELSE lock[a]
        BY <2>1, <2>4, <3>1 DEF Leaves, Released
      <4>3. QED  BY <4>1, <4>2
    <3>2. CASE a # Act(q) \/ ~Inside(q)
      <4>1. Running(a)' = Running(a) /\ Lapsed(a)' = Lapsed(a)
        BY <2>4, <3>2 DEF Leaves, Keeps, Others, Running, Lapsed, Inside, Act
      <4>2. lock'[a] = lock[a]
        BY <1>2, <2>1, <2>4, <3>2 DEF Leaves, Released, LockInv
      <4>3. QED  BY <4>1, <4>2
    <3>3. QED  BY <3>1, <3>2
  <2>5. ASSUME NEW q \in Reqs, Dies(q)  PROVE LeaseNext(a)
    <3>1. CASE a = Act(q) /\ Inside(q)
      BY <2>5, <3>1 DEF Dies, Keeps, Others, Running, Lapsed, Inside, Act
    <3>2. CASE a # Act(q) \/ ~Inside(q)
      BY <2>5, <3>2 DEF Dies, Keeps, Others, Running, Lapsed, Inside, Act
    <3>3. QED  BY <3>1, <3>2
  <2>6. ASSUME NEW b \in Locked, Lapses(b)  PROVE LeaseNext(a)
    <3> DEFINE q == lock[b]
    <3>1. q \in Reqs /\ Act(q) = b
      BY <1>2, <2>1, <2>6 DEF Lapses, LockInv
    <3>2. \A r \in Reqs : /\ req'[r].act = req[r].act /\ req'[r].pc = req[r].pc
                          /\ req'[r].lapsed = (r = q \/ req[r].lapsed)
      BY <2>1, <2>6, <3>1 DEF Lapses, Req
    <3>3. lock[b] = q /\ lock[b] # None /\ lock' = [lock EXCEPT ![b] = None]
      BY <2>6 DEF Lapses
    <3> HIDE DEF q
    <3>4. Running(a)' = Running(a)
      BY <3>2 DEF Running, Inside, Act
    <3>5. Lapsed(a)' = IF a = b THEN Lapsed(a) \cup {q} ELSE Lapsed(a)
      BY <3>1, <3>2 DEF Lapsed, Act
    <3>6. QED  BY <2>1, <3>3, <3>4, <3>5
  <2>7. QED  BY <1>2, <2>2, <2>3, <2>4, <2>5, <2>6, LockStep DEF LockInv
<1>3. ASSUME TypeOK, LockInv, [Next]_vars
      PROVE /\ [StartLock!Next]_StartLock!lease /\ [ResumeLock!Next]_ResumeLock!lease
            /\ [CancelLock!Next]_CancelLock!lease
  BY <1>2, <1>3 DEF StartLock!Next, StartLock!lease, StartLock!Lapse, StartLock!Enter, StartLock!Leave,
     ResumeLock!Next, ResumeLock!lease, ResumeLock!Lapse, ResumeLock!Enter, ResumeLock!Leave,
     CancelLock!Next, CancelLock!lease, CancelLock!Lapse, CancelLock!Enter, CancelLock!Leave, Locked
<1>4. QED
  BY <1>1, <1>3, LockInvariant, PTL DEF Spec, LocksAreLeases, StartLock!Spec, ResumeLock!Spec, CancelLock!Spec

-----------------------------------------------------------------------------
(* The import is complete *)

\* A request in the import has a row, or a refusal, for whoever it has passed.
Reached(q) ==
  /\ req[q].cursor = 0 \/ req[q].cursor \in list
  /\ req[q].base \subseteq list
  /\ \A m \in req[q].base : m <= req[q].cursor => m \in Rows \cup refused

StartOK(q) ==
  /\ req[q].answer # "none" => req[q].pc = "done"
  /\ Act(q) = "start" =>
       /\ req[q].pc \in {"new", "read", "queue"} => req[q].cursor = 0
       /\ req[q].pc = "import" /\ ~req[q].cut => Reached(q)
       /\ (req[q].pc \in {"run", "enqueue"} \/ req[q].answer = "ok") /\ ~req[q].cut
          => req[q].base \subseteq Rows \cup refused

ImportInv == \A q \in Reqs : StartOK(q)

Grown == Rows \subseteq Rows' /\ refused \subseteq refused' /\ list \subseteq list'

\* Rows are inserted by the import and by nothing else, and none is deleted.
LEMMA ServeRows ==
  ASSUME TypeOK, NEW q \in Reqs, Serve(q) \/ Crash(q), ~ImportChunk(q)
  PROVE  Rows' = Rows
<1>1. row \in [Members -> {"none", "pending", "queued", "sent", "failed", "skipped"}]
  BY DEF TypeOK
<1>2. CASE CleanBatch(q)
  BY <1>1, <1>2 DEF CleanBatch, Rows, Open
<1>3. CASE ~CleanBatch(q)
  BY <1>3 DEF Serve, Acquire, NotAcquired, StartStep, StartRead, StartQueue, ImportFails, StartCount,
     StartRun, ResumeUpdate, Enqueue, CancelStep, CancelRead, CancelUpdate, CancelJobs, CleanEnds,
     DeleteRead, DeleteWrite, Crash, campaign, Rows
<1>4. QED  BY <1>2, <1>3

LEMMA RowsStep ==
  ASSUME TypeOK, [Next]_vars, \A q \in Reqs : ~ImportChunk(q)
  PROVE  Rows' = Rows
<1>1. row \in [Members -> {"none", "pending", "queued", "sent", "failed", "skipped"}]
  BY DEF TypeOK
<1>2. ASSUME NEW q \in Reqs, Serve(q) \/ Crash(q)  PROVE Rows' = Rows
  BY <1>2, ServeRows
<1>3. ASSUME NEW m \in Members, Work(m)  PROVE Rows' = Rows
  <2>1. CASE Begin(m) \/ Settle(m)
    BY <1>1, <2>1 DEF Begin, Settle, Rows, Open
  <2>2. CASE Dispatch(m) \/ FinRead(m)
    BY <2>2 DEF Dispatch, FinRead, campaign, Rows
  <2>3. QED  BY <1>3, <2>1, <2>2 DEF Work
<1>4. CASE \/ \E m \in Members : AddMember(m) \/ RemoveMember(m) \/ Refuse(m)
           \/ \E a \in Locked : Expire(a)
           \/ Pause \/ ComesDue \/ Finalize \/ UNCHANGED vars
  BY <1>4 DEF AddMember, RemoveMember, Refuse, Expire, Pause, ComesDue, Finalize, FinWrite, campaign, vars, Rows
<1>5. QED  BY <1>2, <1>3, <1>4 DEF Next

LEMMA ChunkRows ==
  ASSUME TypeOK, NEW q \in Reqs, ImportChunk(q)
  PROVE  /\ Rows \subseteq Rows'
         /\ Page(req[q].cursor) \subseteq Rows' \cup refused
<1>1. row \in [Members -> {"none", "pending", "queued", "sent", "failed", "skipped"}]
  BY DEF TypeOK
<1>2. Page(req[q].cursor) \subseteq Members
  BY DEF TypeOK, Page
<1>3. QED  BY <1>1, <1>2 DEF ImportChunk, Rows

\* A step of a request leaves the others and the list alone.
LEMMA ServeFrame ==
  ASSUME TypeOK, NEW q \in Reqs, Serve(q) \/ Crash(q)
  PROVE  Keeps(q) /\ UNCHANGED <<list, refused>>
<1>1. req \in [Reqs -> Req]
  BY DEF TypeOK
<1>2. UNCHANGED <<list, refused>>
  BY DEF Serve, Acquire, NotAcquired, StartStep, StartRead, StartQueue, ImportChunk, ImportFails, StartCount,
     StartRun, ResumeUpdate, Enqueue, CancelStep, CancelRead, CancelUpdate, CancelJobs, CleanBatch, CleanEnds,
     DeleteRead, DeleteWrite, Crash, env
<1>3. CASE \/ \E pc : Goto(q, pc)
           \/ \E answer : End(q, answer)
           \/ req' = req
  BY <1>1, <1>2, <1>3, GotoMoves, EndMoves DEF Keeps, Others, Act
<1>4. CASE StartQueue(q) \/ ImportChunk(q) \/ NotAcquired(q) \/ DeleteRead(q)
           \/ (StartCount(q) /\ Rows # {})
  BY <1>1, <1>2, <1>4 DEF StartQueue, ImportChunk, NotAcquired, DeleteRead, StartCount, Keeps, Others, Act, Req
<1>5. CASE Crash(q) \/ Acquire(q) \/ StartRun(q) \/ CancelRead(q) \/ DeleteWrite(q)
           \/ StartRead(q) \/ ImportFails(q) \/ (StartCount(q) /\ Rows = {})
  <2>1. CASE Crash(q) \/ StartRun(q) \/ DeleteWrite(q)
    BY <1>3, <2>1 DEF Crash, StartRun, DeleteWrite
  <2>2. CASE Acquire(q)
    BY <1>3, <2>2 DEF Acquire
  <2>3. CASE CancelRead(q)
    BY <1>3, <2>3 DEF CancelRead
  <2>4. CASE StartRead(q)
    BY <1>3, <2>4 DEF StartRead
  <2>5. CASE ImportFails(q) \/ (StartCount(q) /\ Rows = {})
    BY <1>3, <2>5 DEF ImportFails, StartCount
  <2>6. QED  BY <1>5, <2>1, <2>2, <2>3, <2>4, <2>5
<1>6. CASE ResumeUpdate(q) \/ Enqueue(q) \/ CancelUpdate(q) \/ CancelJobs(q)
           \/ CleanBatch(q) \/ CleanEnds(q)
  <2>1. CASE ResumeUpdate(q)
    BY <1>3, <2>1 DEF ResumeUpdate
  <2>2. CASE CancelUpdate(q)
    BY <1>3, <2>2 DEF CancelUpdate
  <2>3. CASE CancelJobs(q)
    BY <1>3, <2>3 DEF CancelJobs
  <2>4. CASE Enqueue(q)
    BY <1>3, <2>4 DEF Enqueue
  <2>5. CASE CleanBatch(q) \/ CleanEnds(q)
    BY <1>3, <2>5 DEF CleanBatch, CleanEnds
  <2>6. QED  BY <1>6, <2>1, <2>2, <2>3, <2>4, <2>5
<1>7. QED
  BY <1>2, <1>4, <1>5, <1>6 DEF Serve, StartStep, CancelStep

LEMMA OtherStart ==
  ASSUME TypeOK, NEW q \in Reqs, StartOK(q), Grown,
         req'[q] = req[q] \/ req'[q] = [req[q] EXCEPT !.lapsed = TRUE]
  PROVE  StartOK(q)'
<1>1. req[q] \in Req
  BY DEF TypeOK
<1>2. /\ req'[q].act = req[q].act /\ req'[q].pc = req[q].pc
      /\ req'[q].answer = req[q].answer /\ req'[q].cursor = req[q].cursor
      /\ req'[q].base = req[q].base /\ req'[q].cut = req[q].cut
  BY <1>1 DEF Req
<1>3. QED  BY <1>2 DEF StartOK, Reached, Grown, Act

LEMMA ImportInitial == Init => ImportInv
<1> SUFFICES ASSUME Init  PROVE ImportInv
  OBVIOUS
<1>1. \A q \in Reqs : req[q].pc = "new" /\ req[q].answer = "none" /\ req[q].cursor = 0
  BY DEF Init
<1>2. QED  BY <1>1 DEF ImportInv, StartOK

LEMMA ImportStep == TypeOK /\ ImportInv /\ [Next]_vars => ImportInv'
<1> SUFFICES ASSUME TypeOK, ImportInv, [Next]_vars  PROVE ImportInv'
  OBVIOUS
<1>1. req \in [Reqs -> Req] /\ list \subseteq Members
  BY DEF TypeOK
<1>2. Rows \subseteq Rows'
  BY RowsStep, ChunkRows
<1>3. ASSUME NEW q \in Reqs, Serve(q) \/ Crash(q)  PROVE ImportInv'
  <2>1. Keeps(q) /\ UNCHANGED <<list, refused>> /\ Grown
    BY <1>2, <1>3, ServeFrame DEF Grown
  <2>2. SUFFICES StartOK(q)'
    BY <1>1, <2>1, OtherStart DEF Keeps, Others, ImportInv
  <2>3. StartOK(q) /\ req[q] \in Req /\ Act(q)' = Act(q)
    BY <1>1, <2>1 DEF ImportInv, Keeps
  <2>4. ASSUME req'[q].answer = "none", req'[q].base = req[q].base, req'[q].cut = req[q].cut,
               req'[q].pc \notin {"new", "read", "queue", "import"},
               Act(q) = "start" /\ req'[q].pc \in {"run", "enqueue"} /\ ~req[q].cut
                 => req[q].base \subseteq Rows \cup refused
        PROVE  StartOK(q)'
    BY <2>1, <2>3, <2>4 DEF StartOK, Grown
  <2>5. ASSUME req'[q].pc = "done",
               req'[q].answer # "ok" \/ req[q].answer = "ok" \/ req[q].pc = "enqueue" \/ Act(q) # "start",
               req'[q].base = req[q].base, req'[q].cut = req[q].cut
        PROVE  StartOK(q)'
    BY <2>1, <2>3, <2>5 DEF StartOK, Grown
  <2>6. ASSUME NEW answer, End(q, answer),
               answer # "ok" \/ req[q].pc = "enqueue" \/ Act(q) # "start"
        PROVE  StartOK(q)'
    <3>1. /\ req'[q].pc = "done" /\ req'[q].answer = answer /\ req'[q].base = req[q].base
          /\ req'[q].cut = req[q].cut
      BY <2>3, <2>6, <1>1 DEF End, Req
    <3>2. QED  BY <2>5, <2>6, <3>1
  <2>7. ASSUME NEW pc, Goto(q, pc)
        PROVE  /\ req'[q].pc = pc /\ req'[q].answer = req[q].answer /\ req'[q].base = req[q].base
               /\ req'[q].cut = req[q].cut /\ req'[q].cursor = req[q].cursor
    BY <2>3, <2>7, <1>1 DEF Goto, Req
  <2>8. CASE Acquire(q)
    BY <1>1, <2>1, <2>3, <2>7, <2>8 DEF Acquire, StartOK
  <2>9. CASE NotAcquired(q)
    <3>1. /\ req'[q].pc = "done" /\ req'[q].answer = "refused" /\ req'[q].base = req[q].base
          /\ req'[q].cut = req[q].cut
      BY <1>1, <2>9 DEF NotAcquired, Req
    <3>2. QED  BY <2>5, <3>1
  <2>10. CASE StartRead(q)
    <3>1. CASE Goto(q, "queue")
      BY <2>1, <2>3, <2>7, <2>10, <3>1 DEF StartRead, At, StartOK
    <3>2. QED  BY <2>6, <2>10, <3>1 DEF StartRead
  <2>11. CASE StartQueue(q)
    <3>1. /\ req'[q].pc = "import" /\ req'[q].answer = "none" /\ req'[q].cursor = 0
          /\ req'[q].base = list
      BY <1>1, <2>3, <2>11 DEF StartQueue, At, Act, StartOK, Req
    <3>2. \A m \in list : ~(m <= 0)
      BY <1>1, ControlAssumption DEF ControlAssumption
    <3>3. QED  BY <2>1, <3>1, <3>2 DEF StartOK, Reached
  <2>12. CASE ImportChunk(q)
    <3> DEFINE page == Page(req[q].cursor)
    <3>1. /\ req'[q].pc = "import" /\ req'[q].answer = "none" /\ req'[q].cursor = Last(page)
          /\ req'[q].base = req[q].base /\ req'[q].cut = req[q].cut
      BY <1>1, <2>3, <2>12 DEF ImportChunk, At, Act, StartOK, Req
    <3>2. SUFFICES ASSUME ~req[q].cut  PROVE Reached(q)'
      BY <3>1 DEF StartOK
    <3>3. Reached(q) /\ req[q].cursor \in Members \cup {0}
      BY <2>3, <2>12, <3>2 DEF ImportChunk, At, Act, StartOK, Req
    <3>4. /\ Last(page) \in list
          /\ \A m \in list : m > req[q].cursor /\ m <= Last(page) => m \in page
      BY <1>1, <2>12, <3>3, PageIsPrefix DEF ImportChunk
    <3>5. page \subseteq Rows' \cup refused
      BY <2>12, ChunkRows
    <3>6. ASSUME NEW m \in req[q].base, m <= Last(page)  PROVE m \in Rows' \cup refused'
      <4>1. m \in Nat /\ req[q].cursor \in Nat /\ m \in list
        <5>1. Members \subseteq Nat
          BY ControlAssumption DEF ControlAssumption
        <5>2. m \in list
          BY <3>3, <3>6 DEF Reached
        <5>3. m \in Nat
          BY <1>1, <5>1, <5>2
        <5>4. req[q].cursor \in Nat
          BY <3>3, CursorType
        <5>5. QED  BY <5>2, <5>3, <5>4
      <4>2. CASE m <= req[q].cursor
        BY <2>1, <3>3, <4>2 DEF Reached, Grown
      <4>3. CASE m > req[q].cursor
        BY <2>1, <3>4, <3>5, <3>6, <4>1, <4>3
      <4>4. QED  BY <4>1, <4>2, <4>3
    <3> HIDE DEF page
    <3>7. QED  BY <2>1, <3>1, <3>3, <3>4, <3>6 DEF Reached
  <2>13. CASE ImportFails(q)
    BY <2>6, <2>13 DEF ImportFails
  <2>14. CASE StartCount(q)
    <3>1. CASE Rows = {}
      BY <2>6, <2>14, <3>1 DEF StartCount
    <3>2. CASE Rows # {}
      <4>1. /\ req'[q].pc = "run" /\ req'[q].answer = "none"
            /\ req'[q].base = req[q].base /\ req'[q].cut = req[q].cut
        BY <1>1, <2>3, <2>14, <3>2 DEF StartCount, At, Act, StartOK, Req
      <4>2. ASSUME ~req[q].cut  PROVE req[q].base \subseteq Rows \cup refused
        <5>1. Reached(q) /\ req[q].cursor \in Members \cup {0}
          BY <2>3, <2>14, <4>2 DEF StartCount, At, Act, StartOK, Req
        <5>2. \A m \in list : m <= req[q].cursor
          BY <1>1, <2>14, <5>1, EmptyPageIsTheEnd DEF StartCount, Reached
        <5>3. QED  BY <5>1, <5>2 DEF Reached
      <4>3. QED  BY <2>4, <4>1, <4>2
    <3>3. QED  BY <3>1, <3>2
  <2>15. CASE StartRun(q)
    BY <2>3, <2>4, <2>7, <2>15 DEF StartRun, At, Act, StartOK
  <2>16. CASE ResumeUpdate(q)
    <3>1. Act(q) # "start" /\ req[q].answer = "none"
      BY <2>3, <2>16 DEF ResumeUpdate, At, Act, StartOK
    <3>2. QED  BY <2>4, <2>6, <2>7, <2>16, <3>1 DEF ResumeUpdate
  <2>17. CASE Enqueue(q)
    BY <2>6, <2>17 DEF Enqueue
  <2>18. CASE CancelStep(q)
    <3>1. Act(q) # "start"
      BY <2>18 DEF CancelStep, CancelRead, CancelUpdate, CancelJobs, CleanBatch, CleanEnds, At, Act
    <3>2. CASE \E answer : End(q, answer)
      BY <2>6, <3>1, <3>2
    <3>3. CASE req[q].pc # "done" /\ \E pc : Goto(q, pc)
      BY <2>1, <2>3, <2>7, <3>1, <3>3 DEF StartOK
    <3>4. CASE req' = req
      BY <2>1, <2>3, <3>4, OtherStart
    <3>5. QED
      BY <2>18, <3>2, <3>3, <3>4 DEF CancelStep, CancelRead, CancelUpdate, CancelJobs, CleanBatch, CleanEnds, At
  <2>19. CASE DeleteRead(q) \/ DeleteWrite(q)
    <3>1. Act(q) # "start" /\ req[q].answer = "none"
      BY <2>3, <2>19 DEF DeleteRead, DeleteWrite, At, Act, StartOK
    <3>2. req'[q].answer = "none"
      BY <1>1, <2>7, <2>19, <3>1 DEF DeleteRead, DeleteWrite, Req
    <3>3. QED  BY <2>1, <2>3, <3>1, <3>2 DEF StartOK
  <2>20. CASE Crash(q)
    <3>1. req[q].answer = "none"
      BY <2>3, <2>20 DEF Crash, Inside, StartOK
    <3>2. QED  BY <2>4, <2>7, <2>20, <3>1 DEF Crash
  <2>21. QED
    BY <1>3, <2>8, <2>9, <2>10, <2>11, <2>12, <2>13, <2>14, <2>15, <2>16, <2>17, <2>18, <2>19, <2>20
    DEF Serve, StartStep
<1>4. ASSUME NEW a \in Locked, Expire(a)  PROVE ImportInv'
  <2>1. \A q \in Reqs : req'[q] = req[q] \/ req'[q] = [req[q] EXCEPT !.lapsed = TRUE]
    BY <1>1, <1>4 DEF Expire
  <2>2. Grown
    BY <1>2, <1>4 DEF Expire, Grown
  <2>3. QED  BY <2>1, <2>2, OtherStart DEF ImportInv
<1>5. ASSUME NEW m \in Members, RemoveMember(m)  PROVE ImportInv'
  <2>1. list' = list \ {m} /\ refused' = refused
    BY <1>5 DEF RemoveMember
  <2>2. ASSUME NEW q \in Reqs  PROVE StartOK(q)'
    <3>2. /\ req'[q].act = req[q].act /\ req'[q].pc = req[q].pc
          /\ req'[q].answer = req[q].answer /\ req'[q].cursor = req[q].cursor
          /\ req'[q].base = req[q].base \ {m}
          /\ ~req'[q].cut => ~req[q].cut /\ ~(At(q, "start", "import") /\ req[q].cursor = m)
      BY <1>1, <1>5, RemoveMoves
    <3>3. StartOK(q)
      BY DEF ImportInv
    <3>4. QED  BY <1>2, <2>1, <3>2, <3>3 DEF StartOK, Reached, Act, At
  <2>3. QED  BY <2>2 DEF ImportInv
<1>6. CASE \/ \E m \in Members : Work(m) \/ AddMember(m) \/ Refuse(m)
           \/ Pause \/ ComesDue \/ Finalize \/ UNCHANGED vars
  <2>1. req' = req /\ list \subseteq list' /\ refused \subseteq refused'
    BY <1>6 DEF Work, Dispatch, Begin, Settle, FinRead, AddMember, Refuse, Pause, ComesDue, Finalize, FinWrite,
       campaign, env, vars
  <2>2. QED  BY <1>2, <2>1, OtherStart DEF ImportInv, Grown
<1>7. QED  BY <1>3, <1>4, <1>5, <1>6 DEF Next

-----------------------------------------------------------------------------
(* The target is the number of rows *)

\* No start lapsed, died or failed in its import.
Clean ==
  \A q \in Reqs : Act(q) = "start" =>
    /\ ~req[q].lapsed /\ req[q].pc # "gone"
    /\ req[q].answer = "failed" => req[q].count > 0

Counted(q) ==
  Act(q) = "start" =>
    /\ req[q].pc \in {"new", "read", "queue", "import"} => req[q].count = 0
    /\ req[q].pc \in {"run", "enqueue"} => req[q].count > 0

Importing(q) == Act(q) = "start" /\ req[q].pc \in {"import", "run"}

CountInv ==
  /\ \A q \in Reqs : Counted(q)
  /\ Clean =>
       /\ \A q \in Reqs : At(q, "start", "run") => req[q].count = Cardinality(Rows)
       /\ (\A q \in Reqs : ~Importing(q)) => targeted = Cardinality(Rows)

LEMMA CountInitial == Init => CountInv
<1> SUFFICES ASSUME Init  PROVE CountInv
  OBVIOUS
<1>1. \A q \in Reqs : req[q].pc = "new" /\ req[q].count = 0
  BY DEF Init
<1>2. Rows = {} /\ targeted = 0
  BY DEF Init, Rows
<1>3. Cardinality(Rows) = 0
  BY <1>2, FS_EmptySet
<1>4. QED  BY <1>1, <1>2, <1>3 DEF CountInv, Counted, Importing, At

LEMMA ServeTarget ==
  ASSUME NEW q \in Reqs, Serve(q) \/ Crash(q), ~StartRun(q)
  PROVE  targeted' = targeted
BY DEF Serve, Acquire, NotAcquired, StartStep, StartRead, StartQueue, ImportChunk, ImportFails,
   StartCount, ResumeUpdate, Enqueue, CancelStep, CancelRead, CancelUpdate, CancelJobs, CleanBatch,
   CleanEnds, DeleteRead, DeleteWrite, Crash, campaign

LEMMA TargetStep ==
  ASSUME [Next]_vars, \A q \in Reqs : ~StartRun(q)
  PROVE  targeted' = targeted
<1>1. ASSUME NEW q \in Reqs, Serve(q) \/ Crash(q)  PROVE targeted' = targeted
  BY <1>1, ServeTarget
<1>2. ASSUME NEW m \in Members, Work(m)  PROVE targeted' = targeted
  BY <1>2 DEF Work, Begin, Settle, Dispatch, FinRead, campaign
<1>3. CASE \/ \E m \in Members : AddMember(m) \/ RemoveMember(m) \/ Refuse(m)
           \/ \E a \in Locked : Expire(a)
           \/ Pause \/ ComesDue \/ Finalize \/ UNCHANGED vars
  BY <1>3 DEF AddMember, RemoveMember, Refuse, Expire, Pause, ComesDue, Finalize, FinWrite, campaign, vars
<1>4. QED  BY <1>1, <1>2, <1>3 DEF Next

\* A step that leaves the rows, the target and the requests in their import or
\* before their last update as they are.
LEMMA CountKept ==
  ASSUME CountInv, Rows' = Rows, targeted' = targeted, \A r \in Reqs : Counted(r)', Clean' => Clean,
         \A r \in Reqs : Importing(r) => Importing(r)',
         \A r \in Reqs : At(r, "start", "run")' => At(r, "start", "run") /\ req'[r].count = req[r].count
  PROVE  CountInv'
BY DEF CountInv

LEMMA CountStep ==
  TypeOK /\ LockInv /\ ImportInv /\ CountInv /\ [Next]_vars => CountInv'
<1> SUFFICES ASSUME TypeOK, LockInv, ImportInv, CountInv, [Next]_vars  PROVE CountInv'
  OBVIOUS
<1>1. req \in [Reqs -> Req]
  BY DEF TypeOK
<1>2. Cardinality(Rows) \in Nat /\ (Cardinality(Rows) = 0 <=> Rows = {})
  BY CountType DEF Rows
<1>3. ASSUME NEW q \in Reqs, Serve(q) \/ Crash(q)  PROVE CountInv'
  <2>1. Keeps(q) /\ req[q] \in Req
    BY <1>1, <1>3, ServeFrame
  <2>2. \A r \in Reqs \ {q} : Counted(r)' /\ (Importing(r) <=> Importing(r)')
                          /\ (At(r, "start", "run") <=> At(r, "start", "run")')
                          /\ req'[r].count = req[r].count
    BY <2>1 DEF Keeps, Others, CountInv, Counted, Importing, At, Act
  <2>3. CASE Act(q) # "start"
    <3>1. Rows' = Rows /\ targeted' = targeted
      BY <1>3, <2>3, ServeRows, ServeTarget DEF ImportChunk, StartRun, At, Act
    <3>2. Clean' => Clean
      BY <2>1, <2>3 DEF Clean, Keeps, Others, Act
    <3>3. Counted(q)' /\ ~Importing(q) /\ ~At(q, "start", "run")'
      BY <2>1, <2>3 DEF Counted, Importing, At, Keeps, Act
    <3>4. QED  BY <2>2, <3>1, <3>2, <3>3, CountKept
  <2>4. CASE Act(q) = "start"
    <3>1. ASSUME req[q].pc \notin {"done", "gone"}  PROVE Clean' => Clean
      <4>1. req[q].answer # "failed"
        BY <3>1 DEF ImportInv, StartOK
      <4>2. QED  BY <2>1, <3>1, <4>1 DEF Clean, Keeps, Others, Act
    <3>2. ASSUME Rows' = Rows, targeted' = targeted, req[q].pc \in {"new", "read", "enqueue"},
                 req'[q].pc \in {"read", "queue", "done"}, req'[q].count = req[q].count,
                 req[q].pc # "enqueue" \/ req'[q].pc = "done"
          PROVE  CountInv'
      <4>1. Counted(q)' /\ ~Importing(q) /\ ~At(q, "start", "run")'
        BY <2>1, <2>4, <3>2 DEF CountInv, Counted, Importing, At, Keeps, Act
      <4>2. Clean' => Clean
        BY <3>1, <3>2
      <4>3. QED  BY <2>2, <3>2, <4>1, <4>2, CountKept
    <3>3. ASSUME NEW pc, Goto(q, pc)  PROVE req'[q].pc = pc /\ req'[q].count = req[q].count
      BY <2>1, <1>1, <3>3 DEF Goto, Req
    <3>4. ASSUME NEW answer, End(q, answer)
          PROVE  req'[q].pc = "done" /\ req'[q].answer = answer /\ req'[q].count = req[q].count
      BY <2>1, <1>1, <3>4 DEF End, Req
    <3>5. CASE Acquire(q)
      BY <2>4, <3>2, <3>3, <3>5, ServeRows, ServeTarget DEF Acquire, Act, Serve, ImportChunk, StartRun, At
    <3>6. CASE NotAcquired(q)
      <4>1. req'[q].pc = "done" /\ req'[q].count = req[q].count
        BY <1>1, <3>6 DEF NotAcquired, Req
      <4>2. QED  BY <3>2, <3>6, <4>1, ServeRows, ServeTarget DEF NotAcquired, Serve, ImportChunk, StartRun, At
    <3>7. CASE StartRead(q)
      <4>1. Rows' = Rows /\ targeted' = targeted
        BY <3>7 DEF StartRead, campaign, Rows
      <4>2. QED  BY <3>2, <3>3, <3>4, <3>7, <4>1 DEF StartRead, At
    <3>8. CASE Enqueue(q)
      <4>1. Rows' = Rows /\ targeted' = targeted
        BY <3>8 DEF Enqueue, campaign, Rows
      <4>2. QED  BY <3>2, <3>4, <3>8, <4>1 DEF Enqueue
    <3>9. CASE StartQueue(q)
      <4>1. Rows' = Rows /\ req'[q].pc = "import" /\ req'[q].count = req[q].count
        BY <1>1, <3>9 DEF StartQueue, Req, Rows
      <4>2. Counted(q)' /\ Importing(q)' /\ ~At(q, "start", "run")'
        BY <2>1, <2>4, <3>9, <4>1 DEF StartQueue, CountInv, Counted, Importing, At, Keeps, Act
      <4>3. Clean' => Clean
        BY <3>1, <3>9 DEF StartQueue, At
      <4>4. QED  BY <2>2, <4>1, <4>2, <4>3 DEF CountInv
    <3>10. CASE ImportChunk(q)
      <4>1. req'[q].pc = "import" /\ req'[q].count = req[q].count
        BY <1>1, <3>10 DEF ImportChunk, At, Req
      <4>2. Counted(q)' /\ Importing(q)' /\ ~At(q, "start", "run")'
        BY <2>1, <2>4, <3>10, <4>1 DEF ImportChunk, CountInv, Counted, Importing, At, Keeps, Act
      <4>3. ASSUME Clean', NEW r \in Reqs, At(r, "start", "run")'  PROVE FALSE
        <5>1. r # q /\ At(r, "start", "run") /\ At(q, "start", "import") /\ Clean
          BY <2>2, <3>1, <3>10, <4>2, <4>3 DEF ImportChunk, At
        <5>2. lock["start"] = r /\ lock["start"] = q
          BY <5>1 DEF LockInv, Clean, Inside, At, Act, Locked
        <5>3. QED  BY <5>1, <5>2
      <4>4. QED  BY <2>2, <4>2, <4>3 DEF CountInv
    <3>11. ASSUME Counted(q)', ~Clean'  PROVE CountInv'
      BY <2>2, <3>11 DEF CountInv
    <3>12. ASSUME End(q, "failed"), At(q, "start", "import")  PROVE CountInv'
      <4>1. req'[q].pc = "done" /\ req'[q].answer = "failed" /\ req'[q].count = 0 /\ Act(q)' = "start"
        BY <2>1, <2>4, <3>4, <3>12 DEF CountInv, Counted, At, Keeps, Act
      <4>2. QED  BY <3>11, <4>1 DEF Counted, Clean
    <3>13. CASE ImportFails(q)
      BY <3>12, <3>13 DEF ImportFails
    <3>14. CASE StartCount(q)
      <4>1. CASE Rows = {}
        BY <3>12, <3>14, <4>1 DEF StartCount
      <4>2. CASE Rows # {}
        <5>1. req'[q].pc = "run" /\ req'[q].count = Cardinality(Rows) /\ Rows' = Rows
          BY <1>1, <3>14, <4>2 DEF StartCount, Req, campaign, Rows
        <5>2. Counted(q)' /\ Importing(q)'
          BY <1>2, <2>1, <2>4, <4>2, <5>1 DEF Counted, Importing, Keeps, Act
        <5>3. Clean' => Clean
          BY <3>1, <3>14 DEF StartCount, At
        <5>4. QED  BY <2>2, <5>1, <5>2, <5>3 DEF CountInv
      <4>3. QED  BY <4>1, <4>2
    <3>15. CASE StartRun(q)
      <4>1. req'[q].pc = "enqueue" /\ req'[q].count = req[q].count /\ Rows' = Rows
            /\ targeted' = req[q].count
        BY <3>3, <3>15 DEF StartRun, Rows
      <4>2. Counted(q)' /\ ~At(q, "start", "run")'
        BY <2>1, <2>4, <3>15, <4>1 DEF StartRun, CountInv, Counted, At, Keeps, Act
      <4>3. Clean' => Clean /\ targeted' = Cardinality(Rows)
        BY <3>1, <3>15, <4>1 DEF StartRun, CountInv, At
      <4>4. QED  BY <2>2, <4>1, <4>2, <4>3 DEF CountInv
    <3>16. CASE Crash(q)
      <4>1. req'[q].pc = "gone" /\ Act(q)' = "start"
        BY <2>1, <2>4, <3>3, <3>16 DEF Crash, Keeps
      <4>2. QED  BY <3>11, <4>1 DEF Counted, Clean
    <3>17. ~ResumeUpdate(q) /\ ~CancelStep(q) /\ ~DeleteRead(q) /\ ~DeleteWrite(q)
      BY <2>4 DEF ResumeUpdate, CancelStep, CancelRead, CancelUpdate, CancelJobs, CleanBatch, CleanEnds,
         DeleteRead, DeleteWrite, At, Act
    <3>18. QED
      BY <1>3, <3>5, <3>6, <3>7, <3>8, <3>9, <3>10, <3>13, <3>14, <3>15, <3>16, <3>17
      DEF Serve, StartStep
  <2>5. QED  BY <2>3, <2>4
<1>4. CASE ~\E q \in Reqs : Serve(q) \/ Crash(q)
  <2>1. Rows' = Rows /\ targeted' = targeted
    <3>1. \A q \in Reqs : ~ImportChunk(q) /\ ~StartRun(q)
      BY <1>4 DEF Serve, StartStep
    <3>2. QED  BY <3>1, RowsStep, TargetStep
  <2>2. \A q \in Reqs : /\ req'[q].act = req[q].act /\ req'[q].pc = req[q].pc
                        /\ req'[q].answer = req[q].answer /\ req'[q].count = req[q].count
                        /\ req[q].lapsed => req'[q].lapsed
    <3> SUFFICES ASSUME NEW q \in Reqs
                 PROVE  /\ req'[q].act = req[q].act /\ req'[q].pc = req[q].pc
                        /\ req'[q].answer = req[q].answer /\ req'[q].count = req[q].count
                        /\ req[q].lapsed => req'[q].lapsed
      OBVIOUS
    <3>1. ASSUME NEW a \in Locked, Expire(a)
          PROVE  req'[q] = req[q] \/ req'[q] = [req[q] EXCEPT !.lapsed = TRUE]
      BY <1>1, <3>1 DEF Expire
    <3>3. ASSUME ~(\E a \in Locked : Expire(a)), ~(\E m \in Members : RemoveMember(m))
          PROVE  req' = req
      BY <1>4, <3>3 DEF Next, Work, Dispatch, Begin, Settle, FinRead, AddMember, Refuse, Pause, ComesDue,
         Finalize, FinWrite, vars
    <3>4. CASE \E a \in Locked : Expire(a)
      BY <1>1, <3>1, <3>4 DEF Req
    <3>5. CASE \E m \in Members : RemoveMember(m)
      BY <1>1, <3>5, RemoveMoves
    <3>6. QED  BY <3>3, <3>4, <3>5
  <2>3. QED  BY <2>1, <2>2, CountKept DEF CountInv, Counted, Clean, Importing, At, Act
<1>5. QED  BY <1>3, <1>4

LEMMA ControlInvariant == Spec => [](TypeOK /\ LockInv /\ ImportInv /\ CountInv)
<1>1. Init => TypeOK /\ LockInv /\ ImportInv /\ CountInv
  BY TypeInitial, LockInitial, ImportInitial, CountInitial
<1>2. TypeOK /\ LockInv /\ ImportInv /\ CountInv /\ [Next]_vars
      => (TypeOK /\ LockInv /\ ImportInv /\ CountInv)'
  BY TypeStep, LockInvStep, ImportStep, CountStep
<1>3. QED  BY <1>1, <1>2, PTL DEF Spec

\* A start that reported success missed nobody who was in the list throughout,
\* and the target counts the rows once the starts have ended.
THEOREM ImportIsComplete == Spec => []ImportHolds
<1>1. TypeOK /\ ImportInv => StartImportsAll
  BY DEF ImportInv, StartOK, StartImportsAll, Act
<1>2. CountInv => TargetedCountsRows
  <2>1. SUFFICES ASSUME CountInv,
                        \A q \in Reqs : Act(q) = "start" =>
                          /\ req[q].pc \in {"new", "done"} /\ ~req[q].lapsed
                          /\ req[q].answer = "failed" => req[q].count > 0
                 PROVE  targeted = Cardinality(Rows)
    BY DEF TargetedCountsRows
  <2>2. Clean /\ \A q \in Reqs : ~Importing(q)
    BY <2>1 DEF Clean, Importing
  <2>3. QED  BY <2>1, <2>2 DEF CountInv
<1>3. QED  BY <1>1, <1>2, ControlInvariant, PTL DEF ImportHolds

-----------------------------------------------------------------------------
(* A quiet cancel is final *)

LEMMA QuietCancelStep == TypeOK /\ [Next]_vars => (QuietlyCanceled => QuietlyCanceled')
<1> SUFFICES ASSUME TypeOK, [Next]_vars, QuietlyCanceled  PROVE QuietlyCanceled'
  OBVIOUS
<1>1. /\ status = "canceled" /\ Open = {} /\ fin = {} /\ req \in [Reqs -> Req]
      /\ \A q \in Reqs : Act(q) = "start" => req[q].pc \notin {"queue", "import", "run"}
      /\ \A m \in Members : job[m] \notin {"run", "halt", "fin"}
  BY DEF QuietlyCanceled, StartInFlight, TypeOK
<1> DEFINE Calm(q) == Act(q)' = "start" => req'[q].pc \notin {"queue", "import", "run"}
<1>2. SUFFICES /\ status' = "canceled" /\ row' = row /\ fin' = {}
               /\ \A m \in Members : job'[m] \notin {"run", "halt", "fin"}
               /\ \A q \in Reqs : Calm(q)
  BY <1>1 DEF QuietlyCanceled, StartInFlight, Open
<1>3. ASSUME NEW q \in Reqs, Serve(q) \/ Crash(q)
      PROVE  /\ status' = "canceled" /\ row' = row /\ fin' = {}
             /\ \A m \in Members : job'[m] \notin {"run", "halt", "fin"}
             /\ \A r \in Reqs : Calm(r)
  <2>1. /\ ~StartQueue(q) /\ ~ImportChunk(q) /\ ~ImportFails(q) /\ ~StartCount(q) /\ ~StartRun(q)
        /\ ~CleanBatch(q)
    BY <1>1 DEF StartQueue, ImportChunk, ImportFails, StartCount, StartRun, CleanBatch, At, Act
  <2>2. /\ status' = "canceled" /\ row' = row /\ fin' = {}
        /\ \A m \in Members : job'[m] = job[m] \/ job'[m] = "none"
    <3>1. CASE CancelJobs(q)
      BY <1>1, <3>1 DEF CancelJobs, campaign
    <3>2. CASE ~CancelJobs(q)
      BY <1>1, <1>3, <2>1, <3>2 DEF Serve, Acquire, NotAcquired, StartStep, StartRead, ResumeUpdate, Enqueue,
         CancelStep, CancelRead, CancelUpdate, CleanEnds, DeleteRead, DeleteWrite, Crash, campaign, worker
    <3>3. QED  BY <3>1, <3>2
  <2>3. Keeps(q)
    BY <1>3, ServeFrame
  <2>4. Calm(q)
    <3>1. CASE Act(q) # "start"
      BY <2>3, <3>1 DEF Keeps
    <3>2. CASE Act(q) = "start"
      <4>1. \E pc \in {"read", "done", "gone"} : req'[q].pc = pc
        <5>1. CASE Acquire(q) \/ Crash(q)
          BY <1>1, <3>2, <5>1, GotoMoves DEF Acquire, Crash, Act
        <5>2. CASE NotAcquired(q)
          BY <1>1, <5>2 DEF NotAcquired, Req
        <5>3. CASE StartRead(q)
          BY <1>1, <5>3, EndMoves DEF StartRead, Startable
        <5>4. CASE Enqueue(q)
          BY <1>1, <5>4, EndMoves DEF Enqueue
        <5>5. QED
          BY <1>3, <2>1, <3>2, <5>1, <5>2, <5>3, <5>4 DEF Serve, StartStep, CancelStep, CancelRead, CancelUpdate,
             CancelJobs, CleanEnds, ResumeUpdate, DeleteRead, DeleteWrite, At, Act
      <4>2. QED  BY <4>1
    <3>3. QED  BY <3>1, <3>2
  <2>5. QED  BY <1>1, <2>2, <2>3, <2>4 DEF Keeps, Others, Act
<1>4. ASSUME NEW m \in Members, Work(m)
      PROVE  /\ status' = "canceled" /\ row' = row /\ fin' = {}
             /\ \A n \in Members : job'[n] \notin {"run", "halt", "fin"}
             /\ \A r \in Reqs : Calm(r)
  <2>1. Begin(m) /\ m \notin Open
    BY <1>1, <1>4 DEF Work, Dispatch, Settle, FinRead
  <2>2. job' = [job EXCEPT ![m] = "kept"] /\ row' = row /\ job \in [Members -> {"none", "wait", "run", "halt", "fin", "kept"}]
    BY <2>1 DEF Begin, TypeOK
  <2>3. QED  BY <1>1, <2>1, <2>2 DEF Begin, env, Act
<1>5. CASE \/ \E m \in Members : RemoveMember(m)
           \/ \E a \in Locked : Expire(a)
  <2>1. status' = status /\ row' = row /\ fin' = fin /\ job' = job
    BY <1>5 DEF RemoveMember, Expire, campaign, worker
  <2>2. ASSUME NEW q \in Reqs  PROVE req'[q].act = req[q].act /\ req'[q].pc = req[q].pc
    <3>1. CASE \E m \in Members : RemoveMember(m)
      BY <1>1, <3>1, RemoveMoves
    <3>2. ASSUME NEW a \in Locked, Expire(a)
          PROVE  req'[q] = req[q] \/ req'[q] = [req[q] EXCEPT !.lapsed = TRUE]
      BY <1>1, <3>2 DEF Expire
    <3>3. QED  BY <1>1, <1>5, <3>1, <3>2 DEF Req
  <2>3. QED  BY <1>1, <2>1, <2>2 DEF Act
<1>6. CASE \/ \E m \in Members : AddMember(m) \/ Refuse(m)
           \/ Pause \/ ComesDue \/ Finalize \/ UNCHANGED vars
  <2>1. UNCHANGED <<status, row, fin, job, req>>
    BY <1>1, <1>6 DEF AddMember, Refuse, Pause, ComesDue, Finalize, FinWrite, campaign, worker, vars
  <2>2. QED  BY <1>1, <2>1 DEF Act
<1>7. QED  BY <1>3, <1>4, <1>5, <1>6 DEF Next

\* Once a cancel has cleaned up and nothing is left that read the campaign
\* before, no request, job or scheduler brings it back.
THEOREM QuietCancelStays == Spec => QuietCancelIsFinal
<1>1. TypeOK /\ [Next]_vars => [QuietlyCanceled => QuietlyCanceled']_vars
  BY QuietCancelStep
<1>2. QED  BY <1>1, ControlTypeCorrect, PTL DEF Spec, QuietCancelIsFinal
=============================================================================
