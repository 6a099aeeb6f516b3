------------------------- MODULE SmtpPartsProofs -------------------------
(***************************************************************************)
(* Proofs about what goes on around the SMTP accounts: each part keeps     *)
(* what its module promises, for every value of its constants.             *)
(***************************************************************************)
EXTENDS SmtpParts, FiniteSetTheorems, SequenceTheorems, WellFoundedInduction, TLAPS

\* The finite sets of a module are those of this one.
LEMMA WideFinite == \A S : Wide!IsFiniteSet(S) <=> IsFiniteSet(S)
BY DEF Wide!IsFiniteSet, IsFiniteSet

LEMMA SegmentFinite == \A S : Segment!IsFiniteSet(S) <=> IsFiniteSet(S)
BY DEF Segment!IsFiniteSet, IsFiniteSet

-----------------------------------------------------------------------------
(* Bulk test *)

\* Where a loop is with the row it has taken: before the result is recorded (a
\* loop that threw never gets there), and between the result and its way into the
\* account's row.
Holds(j, l) == Wide!Pc_(j, l) \in {"gap", "mail", "test", "dead"}
Writes(j, l) == Wide!Pc_(j, l) = "write"
RowOf(j, l) == loop[<<j, l>>].row

\* The rows that were taken are those before the cursor; each is in the hand of
\* one loop, or its result is recorded.
Taken(j) ==
  /\ job[j].cursor \in 1..(JobRows[j] + 1)
  /\ \A l \in Loops : Holds(j, l) \/ Writes(j, l) => RowOf(j, l) \in 1..(job[j].cursor - 1)
  /\ \A l, m \in Loops :
       l # m /\ (Holds(j, l) \/ Writes(j, l)) /\ (Holds(j, m) \/ Writes(j, m)) => RowOf(j, l) # RowOf(j, m)
  /\ \A r \in Nat : r \in job[j].results <=>
       r \in 1..(job[j].cursor - 1) /\ \A l \in Loops : Holds(j, l) => RowOf(j, l) # r
  /\ \A l \in Loops : Wide!Pc_(j, l) = "end" => job[j].cursor = JobRows[j] + 1

\* The numbers of the job count its results, and its results reach the accounts.
Counted(j) ==
  /\ job[j].processed = Cardinality(job[j].results) /\ job[j].summary = job[j].processed
  /\ health[j] \cup job[j].missed \subseteq job[j].results
  /\ ~job[j].heals => health[j] = {}
  /\ job[j].heals /\ ~job[j].inactive =>
       \A r \in job[j].results \ (health[j] \cup job[j].missed) :
         \E l \in Loops : Writes(j, l) /\ RowOf(j, l) = r

\* A job that does not run yet has no rows, one that is completed has no more.
Staged(j) ==
  /\ job[j].status \in {"none", "resolving"} => job[j].cursor = 1
  /\ job[j].status = "completed" => \A l \in Loops : Wide!Pc_(j, l) = "end"

\* Since the last pause a mail was sent at most by those loops that cannot send
\* another without waiting.
Ready(j) == {l \in Loops : Wide!Pc_(j, l) = "mail" /\ ~loop[<<j, l>>].wait}
Spaced(j) ==
  /\ sent[j] + Cardinality(Ready(j)) <= Cardinality(Loops)
  /\ ~job[j].recent => sent[j] = 0

JobInv(j) == Taken(j) /\ Counted(j) /\ Staged(j) /\ Spaced(j)

\* Answers are about jobs that were started; one that reports a completed job,
\* and a page that shows one and was not overtaken, have all of its results.
PageInv ==
  /\ ui.job # 0 => job[ui.job].status # "none"
  /\ \A j \in Wide!JobIds :
       /\ poll[j].pc # "none" => job[j].status # "none"
       /\ poll[j].pc = "answered" => poll[j].status # "none"
       /\ poll[j].pc = "answered" /\ poll[j].status = "completed" => poll[j].results = Wide!RowIds(j)
  /\ Wide!CompletedShowsAll

BulkInv ==
  /\ Wide!TypeOK
  /\ \A j \in Wide!JobIds : JobInv(j)
  /\ PageInv

USE DEF Wide!JobIds, Wide!RowIds

JobRecords == [status : Wide!Status, cursor : Nat, recent : BOOLEAN, inactive : BOOLEAN, mails : BOOLEAN,
               heals : BOOLEAN, processed : Nat, summary : Nat, results : SUBSET Wide!AllRows,
               missed : SUBSET Wide!AllRows]

LEMMA BulkRows ==
  ASSUME Wide!BulkTestAssumption
  PROVE  /\ Wide!AllRows \subseteq Nat
         /\ \A j \in Wide!JobIds : JobRows[j] \in Nat /\ Wide!RowIds(j) \subseteq Wide!AllRows
BY DEF Wide!BulkTestAssumption, Wide!AllRows

LEMMA BulkInit == ASSUME Wide!BulkTestAssumption PROVE Wide!Init => BulkInv
<1> SUFFICES ASSUME Wide!Init PROVE BulkInv
  OBVIOUS
<1> USE DEF Wide!BulkTestAssumption, Wide!Init
<1>1. Wide!TypeOK
  <2>1. {} \in SUBSET Wide!AllRows
    OBVIOUS
  <2>2. job \in [Wide!JobIds -> [status : Wide!Status, cursor : Nat, recent : BOOLEAN, inactive : BOOLEAN,
                  mails : BOOLEAN, heals : BOOLEAN, processed : Nat, summary : Nat,
                  results : SUBSET Wide!AllRows, missed : SUBSET Wide!AllRows]]
    BY <2>1 DEF Wide!Status
  <2>3. loop \in [Wide!JobIds \X Loops -> [pc : Wide!LoopPc, row : Nat, wait : BOOLEAN]]
    BY DEF Wide!LoopPc
  <2>4. health \in [Wide!JobIds -> SUBSET Wide!AllRows] /\ sent \in [Wide!JobIds -> Nat]
    BY <2>1
  <2>5. poll \in [Wide!JobIds -> [pc : {"none", "asked", "answered"}, status : Wide!Status,
                      results : SUBSET Wide!AllRows]]
    BY <2>1 DEF Wide!NoPoll, Wide!Status
  <2>6. lost \in 0..Lost
    OBVIOUS
  <2>7. late \in BOOLEAN
    OBVIOUS
  <2>8. ui \in [job : 0..Len(JobRows), status : {"idle", "running", "completed", "failed"},
                results : SUBSET Wide!AllRows]
    BY <2>1
  <2>9. QED BY <2>2, <2>3, <2>4, <2>5, <2>6, <2>8, <2>7 DEF Wide!TypeOK
<1>2. ASSUME NEW j \in Wide!JobIds PROVE Taken(j) /\ Counted(j) /\ Staged(j) /\ Spaced(j)
  <2>1. JobRows[j] \in Nat
    OBVIOUS
  <2>2. Taken(j) /\ Staged(j)
    BY <2>1 DEF Taken, Staged, Holds, Writes, RowOf, Wide!Pc_
  <2>3. Counted(j)
    BY FS_EmptySet DEF Counted
  <2>4. Ready(j) = {}
    BY DEF Ready, Wide!Pc_
  <2>5. Spaced(j)
    BY <2>4, FS_EmptySet, FS_CardinalityType, WideFinite DEF Spaced
  <2>6. QED BY <2>2, <2>3, <2>5
<1>3. PageInv
  BY DEF PageInv, Wide!CompletedShowsAll, Wide!NoPoll
<1>4. QED BY <1>1, <1>2, <1>3 DEF BulkInv, JobInv

\* What holds of a job goes on to hold while nobody works on it.
LEMMA BulkFrame ==
  ASSUME NEW i \in Wide!JobIds, JobInv(i), job'[i] = job[i], health'[i] = health[i], sent'[i] = sent[i],
         \A l \in Loops : loop'[<<i, l>>] = loop[<<i, l>>]
  PROVE  JobInv(i)'
<1>1. \A l \in Loops : /\ Holds(i, l)' = Holds(i, l) /\ Writes(i, l)' = Writes(i, l)
                       /\ RowOf(i, l)' = RowOf(i, l) /\ Wide!Pc_(i, l)' = Wide!Pc_(i, l)
  BY DEF Holds, Writes, RowOf, Wide!Pc_
<1>2. Ready(i)' = Ready(i)
  BY DEF Ready, Wide!Pc_
<1>3. Taken(i)'
  BY <1>1 DEF JobInv, Taken
<1>4. Counted(i)' /\ Staged(i)'
  BY <1>1 DEF JobInv, Counted, Staged
<1>5. Spaced(i)'
  BY <1>2 DEF JobInv, Spaced
<1>6. QED  BY <1>3, <1>4, <1>5 DEF JobInv

\* An action that is about one job only has to be looked at for that job.
LEMMA BulkOneJob ==
  ASSUME BulkInv, Wide!TypeOK', PageInv', NEW j \in Wide!JobIds, JobInv(j)',
         \A i \in Wide!JobIds \ {j} :
            job'[i] = job[i] /\ health'[i] = health[i] /\ sent'[i] = sent[i]
              /\ \A l \in Loops : loop'[<<i, l>>] = loop[<<i, l>>]
  PROVE  BulkInv'
<1>1. ASSUME NEW i \in Wide!JobIds PROVE JobInv(i)'
  BY BulkFrame DEF BulkInv
<1>2. QED  BY <1>1 DEF BulkInv

\* What becomes of the page while a job is worked on: nothing, so long as the
\* job is not forgotten to have begun.
LEMMA BulkPageRests ==
  ASSUME PageInv, UNCHANGED <<ui, poll, late>>,
         \A i \in Wide!JobIds : job[i].status # "none" => job'[i].status # "none", Wide!TypeOK
  PROVE  PageInv'
<1>1. ui.job # 0 => ui.job \in Wide!JobIds
  BY DEF Wide!TypeOK
<1>2. QED  BY <1>1 DEF PageInv, Wide!CompletedShowsAll

LoopRecords == [pc : Wide!LoopPc, row : Nat, wait : BOOLEAN]

LEMMA LoopMoves ==
  ASSUME Wide!TypeOK, NEW j \in Wide!JobIds, NEW l \in Loops, NEW next \in LoopRecords,
         loop' = [loop EXCEPT ![<<j, l>>] = next]
  PROVE  /\ loop' \in [Wide!JobIds \X Loops -> LoopRecords]
         /\ loop'[<<j, l>>] = next
         /\ \A i \in Wide!JobIds, m \in Loops : i # j \/ m # l => loop'[<<i, m>>] = loop[<<i, m>>]
BY DEF Wide!TypeOK, LoopRecords

LEMMA JobChanges ==
  ASSUME Wide!TypeOK, NEW j \in Wide!JobIds, NEW next \in JobRecords, job' = [job EXCEPT ![j] = next]
  PROVE  /\ job' \in [Wide!JobIds -> JobRecords]
         /\ job'[j] = next
         /\ \A i \in Wide!JobIds \ {j} : job'[i] = job[i]
BY DEF Wide!TypeOK, JobRecords

LEMMA BulkResolve ==
  ASSUME Wide!BulkTestAssumption, BulkInv, NEW j \in Wide!JobIds, Wide!Resolve(j)
  PROVE  BulkInv'
<1> USE DEF BulkInv, Wide!Client
<1>1. PICK o \in Orders :
         job' = [job EXCEPT ![j].status = "running", ![j].inactive = o.inactive, ![j].mails = o.mails,
                            ![j].heals = o.heals]
  BY DEF Wide!Resolve
<1>2. /\ job[j].status = "resolving"
      /\ UNCHANGED <<loop, health, sent, lost, ui, poll, late>>
  BY DEF Wide!Resolve
<1> DEFINE next == [job[j] EXCEPT !.status = "running", !.inactive = o.inactive, !.mails = o.mails,
                                  !.heals = o.heals]
<1>3. job[j] \in JobRecords /\ o \in [inactive : BOOLEAN, mails : BOOLEAN, heals : BOOLEAN]
  BY DEF Wide!TypeOK, JobRecords, Wide!BulkTestAssumption
<1>4. next \in JobRecords
  BY <1>3 DEF Wide!Status, JobRecords
<1>5. job' = [job EXCEPT ![j] = next]
  BY <1>1 DEF Wide!TypeOK
<1>6. /\ next.cursor = job[j].cursor /\ next.results = job[j].results /\ next.status = "running"
      /\ next.processed = job[j].processed /\ next.summary = job[j].summary /\ next.recent = job[j].recent
      /\ next.missed = job[j].missed
  BY <1>3 DEF JobRecords
<1> HIDE DEF next
<1>7. Wide!TypeOK'
  BY <1>2, <1>4, <1>5, JobChanges DEF Wide!TypeOK, JobRecords
<1>8. /\ job'[j].cursor = job[j].cursor /\ job'[j].results = job[j].results /\ job'[j].status = "running"
      /\ job'[j].processed = job[j].processed /\ job'[j].summary = job[j].summary /\ job'[j].recent = job[j].recent
      /\ job'[j].missed = job[j].missed
  BY <1>4, <1>5, <1>6, JobChanges
<1>9. \A i \in Wide!JobIds \ {j} : job'[i] = job[i]
  BY <1>4, <1>5, JobChanges
<1>10. PageInv'
  BY <1>2, <1>8, <1>9, BulkPageRests
<1>11. Ready(j)' = Ready(j) /\ Spaced(j)'
  <2>1. Ready(j)' = Ready(j)
    BY <1>2 DEF Ready, Wide!Pc_
  <2>2. QED  BY <1>2, <1>8, <2>1 DEF JobInv, Spaced
<1>12. Taken(j)'
  BY <1>2, <1>8 DEF JobInv, Taken, Holds, Writes, RowOf, Wide!Pc_
<1>13. job[j].results = {}
  <2>1. job[j].results \subseteq Nat
    BY <1>2, BulkRows DEF Wide!TypeOK
  <2>2. job[j].cursor = 1
    BY <1>2 DEF JobInv, Staged
  <2>3. \A r \in Nat : r \in job[j].results => r \in 1..(job[j].cursor - 1)
    BY <1>2 DEF JobInv, Taken
  <2>4. QED  BY <2>1, <2>2, <2>3
<1>14. Counted(j)' /\ Staged(j)'
  BY <1>2, <1>8, <1>13 DEF JobInv, Counted, Staged
<1>15. QED  BY <1>2, <1>7, <1>9, <1>10, <1>12, <1>14, <1>11, BulkOneJob DEF JobInv

LEMMA BulkUnresolved ==
  ASSUME Wide!BulkTestAssumption, BulkInv, NEW j \in Wide!JobIds, Wide!ResolveFails(j)
  PROVE  BulkInv'
<1> USE DEF BulkInv, Wide!Client
<1> DEFINE next == [job[j] EXCEPT !.status = "failed"]
<1>1. /\ UNCHANGED <<loop, health, sent, lost, ui, poll, late>> /\ job' = [job EXCEPT ![j] = next]
      /\ job[j] \in JobRecords
  BY DEF Wide!ResolveFails, Wide!TypeOK, JobRecords
<1>2. /\ next \in JobRecords /\ next.status = "failed" /\ next.cursor = job[j].cursor
      /\ next.results = job[j].results /\ next.processed = job[j].processed /\ next.summary = job[j].summary
      /\ next.recent = job[j].recent /\ next.inactive = job[j].inactive /\ next.heals = job[j].heals
      /\ next.missed = job[j].missed
  BY <1>1 DEF JobRecords, Wide!Status
<1> HIDE DEF next
<1>3. job'[j] = next /\ \A i \in Wide!JobIds \ {j} : job'[i] = job[i]
  BY <1>1, <1>2, JobChanges
<1>4. Wide!TypeOK'
  BY <1>1, <1>2, JobChanges DEF Wide!TypeOK, JobRecords
<1>5. PageInv'
  BY <1>1, <1>2, <1>3, BulkPageRests
<1>6. \A l \in Loops : /\ Holds(j, l)' = Holds(j, l) /\ Writes(j, l)' = Writes(j, l)
                       /\ RowOf(j, l)' = RowOf(j, l) /\ Wide!Pc_(j, l)' = Wide!Pc_(j, l)
  BY <1>1 DEF Holds, Writes, RowOf, Wide!Pc_
<1>7. Taken(j)' /\ Counted(j)' /\ Staged(j)'
  BY <1>1, <1>2, <1>3, <1>6 DEF JobInv, Taken, Counted, Staged
<1>8. Spaced(j)'
  <2>1. Ready(j)' = Ready(j)
    BY <1>1 DEF Ready, Wide!Pc_
  <2>2. QED  BY <1>1, <1>2, <1>3, <2>1 DEF JobInv, Spaced
<1>9. QED  BY <1>1, <1>3, <1>4, <1>5, <1>7, <1>8, BulkOneJob DEF JobInv

\* The results are a finite set, and a row that is taken only now is not in it.
LEMMA BulkResults ==
  ASSUME Wide!BulkTestAssumption, BulkInv, NEW j \in Wide!JobIds
  PROVE  /\ IsFiniteSet(job[j].results) /\ job[j].results \subseteq 1..(job[j].cursor - 1)
         /\ job[j].cursor \notin job[j].results
         /\ job[j].cursor \in Nat /\ JobRows[j] \in Nat
         /\ job[j].cursor <= JobRows[j] => job[j].cursor \in Wide!AllRows
<1>1. job[j].cursor \in Nat /\ job[j].results \subseteq Nat /\ JobRows[j] \in Nat /\ Wide!RowIds(j) \subseteq Wide!AllRows
  BY BulkRows DEF BulkInv, Wide!TypeOK
<1>2. job[j].results \subseteq 1..(job[j].cursor - 1) /\ job[j].cursor \in 1..(JobRows[j] + 1)
  BY <1>1 DEF BulkInv, JobInv, Taken
<1>3. IsFiniteSet(1..(job[j].cursor - 1))
  <2>1. 1 \in Int /\ job[j].cursor - 1 \in Int
    BY <1>1
  <2>2. QED  BY <2>1, FS_Interval
<1>4. QED  BY <1>1, <1>2, <1>3, FS_Subset

\* A loop that moves between places where it neither holds a row nor mails.
LEMMA BulkReady ==
  ASSUME Wide!BulkTestAssumption, NEW j \in Wide!JobIds, Spaced(j), Wide!TypeOK,
         sent'[j] = sent[j], job'[j].recent = job[j].recent, Ready(j)' \subseteq Ready(j)
  PROVE  Spaced(j)'
<1>1. IsFiniteSet(Ready(j)) /\ IsFiniteSet(Ready(j)') /\ Cardinality(Ready(j)') <= Cardinality(Ready(j))
  BY FS_Subset, WideFinite DEF Ready, Wide!BulkTestAssumption
<1>2. sent[j] \in Nat /\ Cardinality(Ready(j)) \in Nat /\ Cardinality(Ready(j)') \in Nat
      /\ Cardinality(Loops) \in Nat
  BY <1>1, FS_CardinalityType, WideFinite DEF Wide!TypeOK, Wide!BulkTestAssumption
<1>3. QED  BY <1>1, <1>2 DEF Spaced

LEMMA BulkTakeEnd ==
  ASSUME Wide!BulkTestAssumption, BulkInv, NEW j \in Wide!JobIds, NEW l \in Loops, Wide!Take(j, l),
         job[j].cursor > JobRows[j]
  PROVE  BulkInv'
<1> USE DEF BulkInv, Wide!Client
<1> DEFINE next == [loop[<<j, l>>] EXCEPT !.pc = "end"]
<1>1. /\ job[j].status \in {"running", "failed"} /\ loop[<<j, l>>].pc = "take"
      /\ UNCHANGED <<job, health, sent, lost, ui, poll, late>>
      /\ loop' = [loop EXCEPT ![<<j, l>>] = next]
  BY DEF Wide!Take, Wide!Goto, Wide!Pc_, Wide!TypeOK, Wide!Working
<1>2. loop[<<j, l>>] \in LoopRecords
  BY DEF Wide!TypeOK, LoopRecords
<1>3. next \in LoopRecords /\ next.pc = "end"
  BY <1>2 DEF LoopRecords, Wide!LoopPc
<1> HIDE DEF next
<1>4. Wide!TypeOK'
  BY <1>1, <1>3, LoopMoves DEF Wide!TypeOK, LoopRecords
<1>5. PageInv'
  BY <1>1, BulkPageRests
<1>6. job[j].cursor = JobRows[j] + 1
  BY BulkResults DEF JobInv, Taken
<1>7. /\ loop'[<<j, l>>].pc = "end"
      /\ \A i \in Wide!JobIds, m \in Loops : i # j \/ m # l => loop'[<<i, m>>] = loop[<<i, m>>]
  BY <1>1, <1>3, LoopMoves
<1>8. \A m \in Loops : /\ (Holds(j, m)' <=> Holds(j, m)) /\ (Writes(j, m)' <=> Writes(j, m))
                       /\ m # l => RowOf(j, m)' = RowOf(j, m) /\ Wide!Pc_(j, m)' = Wide!Pc_(j, m)
  BY <1>1, <1>7 DEF Holds, Writes, RowOf, Wide!Pc_
<1>9. ~Holds(j, l) /\ ~Writes(j, l)
  BY <1>1 DEF Holds, Writes, Wide!Pc_
<1>10. Taken(j)'
  <2>1. \A m \in Loops : Holds(j, m)' \/ Writes(j, m)' => m # l /\ RowOf(j, m)' = RowOf(j, m)
    BY <1>8, <1>9
  <2>2. \A r \in Nat : r \in job[j].results <=>
          r \in 1..(job[j].cursor - 1) /\ \A m \in Loops : Holds(j, m)' => RowOf(j, m)' # r
    BY <1>8, <1>9, <2>1 DEF JobInv, Taken
  <2>3. /\ job[j].cursor \in 1..(JobRows[j] + 1)
        /\ \A m \in Loops : Holds(j, m)' \/ Writes(j, m)' => RowOf(j, m)' \in 1..(job[j].cursor - 1)
        /\ \A k, m \in Loops : k # m /\ (Holds(j, k)' \/ Writes(j, k)') /\ (Holds(j, m)' \/ Writes(j, m)')
                                => RowOf(j, k)' # RowOf(j, m)'
    BY <1>8, <2>1 DEF JobInv, Taken
  <2>4. job' = job
    BY <1>1
  <2>5. QED  BY <1>6, <2>2, <2>3, <2>4 DEF Taken
<1>11. Counted(j)' /\ Staged(j)'
  BY <1>1, <1>8, <1>9 DEF JobInv, Counted, Staged
<1>12. Ready(j)' \subseteq Ready(j)
  BY <1>1, <1>7 DEF Ready, Wide!Pc_
<1>13. Spaced(j)'
  BY <1>1, <1>12, BulkReady DEF JobInv
<1>14. QED  BY <1>1, <1>4, <1>5, <1>7, <1>10, <1>11, <1>13, BulkOneJob DEF JobInv

LEMMA BulkTakeInactive ==
  ASSUME Wide!BulkTestAssumption, BulkInv, NEW j \in Wide!JobIds, NEW l \in Loops, Wide!Take(j, l),
         job[j].cursor <= JobRows[j], job[j].inactive
  PROVE  BulkInv'
<1> USE DEF BulkInv, Wide!Client
<1> DEFINE r == job[j].cursor
           next == [job[j] EXCEPT !.results = @ \cup {r}, !.summary = @ + 1, !.processed = @ + 1, !.cursor = r + 1]
<1>1. /\ job[j].status \in {"running", "failed"} /\ UNCHANGED <<loop, health, sent, lost, ui, poll, late>>
      /\ job' = [job EXCEPT ![j] = next]
  <2>1. r \in Nat /\ JobRows[j] \in Nat
    BY BulkResults
  <2>2. ~(r > JobRows[j])
    BY <2>1
  <2>3. job' = [Wide!Recorded(j, r) EXCEPT ![j].cursor = r + 1] /\ UNCHANGED <<loop, health, sent, lost, ui, poll, late>>
    BY <2>2 DEF Wide!Take
  <2>4. job \in [Wide!JobIds -> JobRecords]
    BY DEF Wide!TypeOK, JobRecords
  <2>5. job[j].status \in {"running", "failed"}
    BY DEF Wide!Take, Wide!Working
  <2>6. QED  BY <2>3, <2>4, <2>5 DEF Wide!Recorded, JobRecords
<1>2. job[j] \in JobRecords
  BY DEF Wide!TypeOK, JobRecords
<1>3. r \in Wide!AllRows /\ r \in Nat
  BY BulkResults
<1>4. job[j].summary + 1 \in Nat /\ job[j].processed + 1 \in Nat /\ r + 1 \in Nat
  BY <1>2, <1>3 DEF JobRecords
<1>5. job[j].results \cup {r} \in SUBSET Wide!AllRows
  BY <1>2, <1>3 DEF JobRecords
<1>6. next \in JobRecords
  BY <1>2, <1>4, <1>5 DEF JobRecords
<1>7. /\ next.results = job[j].results \cup {r} /\ next.cursor = r + 1 /\ next.status = job[j].status
      /\ next.inactive = job[j].inactive /\ next.heals = job[j].heals
      /\ next.missed = job[j].missed /\ next.recent = job[j].recent
      /\ next.summary = job[j].summary + 1 /\ next.processed = job[j].processed + 1
  BY <1>1, <1>2 DEF JobRecords
<1> HIDE DEF next
<1>8. job'[j] = next /\ \A i \in Wide!JobIds \ {j} : job'[i] = job[i]
  BY <1>1, <1>6, JobChanges
<1>9. Wide!TypeOK'
  BY <1>1, <1>6, JobChanges DEF Wide!TypeOK, JobRecords
<1>10. PageInv'
  BY <1>1, <1>7, <1>8, BulkPageRests
<1>11. \A m \in Loops : /\ (Holds(j, m)' <=> Holds(j, m)) /\ (Writes(j, m)' <=> Writes(j, m))
                        /\ RowOf(j, m)' = RowOf(j, m) /\ Wide!Pc_(j, m)' = Wide!Pc_(j, m)
  BY <1>1 DEF Holds, Writes, RowOf, Wide!Pc_
<1>12. r \in Nat /\ r <= JobRows[j] /\ JobRows[j] \in Nat /\ r # 0
  BY BulkResults DEF JobInv, Taken
<1>13. Taken(j)'
  <2>1. job'[j].cursor = r + 1 /\ job'[j].results = job[j].results \cup {r}
    BY <1>7, <1>8
  <2>2. \A m \in Loops : Holds(j, m) \/ Writes(j, m) => RowOf(j, m) \in 1..(r - 1)
    BY DEF JobInv, Taken
  <2>3. \A x \in Nat : x \in job'[j].results <=>
          x \in 1..r /\ \A m \in Loops : Holds(j, m) => RowOf(j, m) # x
    BY <1>12, <2>1, <2>2 DEF JobInv, Taken
  <2>4. \A m \in Loops : Wide!Pc_(j, m) # "end"
    BY <1>12 DEF JobInv, Taken
  <2>5. QED  BY <1>11, <1>12, <2>1, <2>2, <2>3, <2>4 DEF JobInv, Taken
<1>14. Cardinality(job'[j].results) = Cardinality(job[j].results) + 1
  <2>1. job'[j].results = job[j].results \cup {r}
    BY <1>7, <1>8
  <2>2. IsFiniteSet(job[j].results) /\ r \notin job[j].results
    BY BulkResults
  <2>3. QED  BY <2>1, <2>2, FS_AddElement
<1>15. Counted(j)' /\ Staged(j)'
  <2>1. /\ job'[j].processed = job[j].processed + 1 /\ job'[j].summary = job[j].summary + 1
        /\ job'[j].heals = job[j].heals /\ job'[j].inactive /\ job'[j].missed = job[j].missed
        /\ job'[j].results = job[j].results \cup {r} /\ job'[j].status = job[j].status
    BY <1>7, <1>8
  <2>2. health' = health
    BY <1>1
  <2>3. Counted(j) /\ Staged(j) /\ job[j].status \in {"running", "failed"}
    BY <1>1 DEF JobInv
  <2>4. Counted(j)'
    BY <1>14, <2>1, <2>2, <2>3 DEF Counted
  <2>5. Staged(j)'
    BY <2>1, <2>3 DEF Staged
  <2>6. QED  BY <2>4, <2>5
<1>16. Spaced(j)'
  BY <1>1, <1>7, <1>8, BulkReady DEF JobInv, Ready, Wide!Pc_
<1>17. QED  BY <1>1, <1>8, <1>9, <1>10, <1>13, <1>15, <1>16, BulkOneJob DEF JobInv

\* What holds of the loops when one of them has moved.
LEMMA BulkMoved ==
  ASSUME Wide!TypeOK, NEW j \in Wide!JobIds, NEW l \in Loops, NEW next \in LoopRecords,
         loop' = [loop EXCEPT ![<<j, l>>] = next]
  PROVE  /\ (Holds(j, l)' <=> next.pc \in {"gap", "mail", "test", "dead"})
         /\ (Writes(j, l)' <=> next.pc = "write")
         /\ RowOf(j, l)' = next.row /\ Wide!Pc_(j, l)' = next.pc
         /\ \A m \in Loops \ {l} :
              /\ (Holds(j, m)' <=> Holds(j, m)) /\ (Writes(j, m)' <=> Writes(j, m))
              /\ RowOf(j, m)' = RowOf(j, m) /\ Wide!Pc_(j, m)' = Wide!Pc_(j, m)
         /\ Ready(j)' \subseteq Ready(j) \cup {l}
         /\ next.pc # "mail" \/ next.wait => Ready(j)' \subseteq Ready(j) \ {l}
         /\ \A i \in Wide!JobIds \ {j}, m \in Loops : loop'[<<i, m>>] = loop[<<i, m>>]
<1>1. /\ loop'[<<j, l>>] = next
      /\ \A i \in Wide!JobIds, m \in Loops : i # j \/ m # l => loop'[<<i, m>>] = loop[<<i, m>>]
  BY LoopMoves
<1>2. Wide!Pc_(j, l)' = next.pc /\ RowOf(j, l)' = next.row
  BY <1>1 DEF RowOf, Wide!Pc_
<1>3. \A m \in Loops \ {l} : Wide!Pc_(j, m)' = Wide!Pc_(j, m) /\ RowOf(j, m)' = RowOf(j, m)
  BY <1>1 DEF RowOf, Wide!Pc_
<1>4. \A m \in Loops \ {l} : (Holds(j, m)' <=> Holds(j, m)) /\ (Writes(j, m)' <=> Writes(j, m))
  BY <1>3 DEF Holds, Writes
<1>5. (Holds(j, l)' <=> next.pc \in {"gap", "mail", "test", "dead"}) /\ (Writes(j, l)' <=> next.pc = "write")
  BY <1>2 DEF Holds, Writes
<1>6. \A m \in Loops \ {l} : loop'[<<j, m>>].wait = loop[<<j, m>>].wait
  BY <1>1
<1>7. Ready(j)' \subseteq Ready(j) \cup {l}
  BY <1>3, <1>6 DEF Ready
<1>8. next.pc # "mail" \/ next.wait => Ready(j)' \subseteq Ready(j) \ {l}
  BY <1>1, <1>2, <1>7 DEF Ready
<1>9. QED  BY <1>1, <1>2, <1>3, <1>4, <1>5, <1>7, <1>8

LEMMA BulkTakeRow ==
  ASSUME Wide!BulkTestAssumption, BulkInv, NEW j \in Wide!JobIds, NEW l \in Loops, Wide!Take(j, l),
         job[j].cursor <= JobRows[j], ~job[j].inactive
  PROVE  BulkInv'
<1> USE DEF BulkInv, Wide!Client
<1> DEFINE r == job[j].cursor
           next == [pc |-> IF job[j].mails THEN "gap" ELSE "test", row |-> r, wait |-> FALSE]
           after == [job[j] EXCEPT !.cursor = r + 1]
<1>1. /\ job[j].status \in {"running", "failed"} /\ loop[<<j, l>>].pc = "take" /\ UNCHANGED <<health, sent, lost, ui, poll, late>>
      /\ job' = [job EXCEPT ![j] = after] /\ loop' = [loop EXCEPT ![<<j, l>>] = next]
  BY BulkResults, SMTT(20) DEF Wide!Take, Wide!TypeOK, Wide!Pc_, Wide!Working
<1>2. r \in Nat /\ r # 0 /\ JobRows[j] \in Nat /\ r <= JobRows[j] /\ r \notin job[j].results
  BY BulkResults DEF JobInv, Taken
<1>3. next \in LoopRecords /\ next.pc \in {"gap", "test"} /\ next.row = r
  BY <1>2 DEF LoopRecords, Wide!LoopPc
<1>4. job[j] \in JobRecords
  BY DEF Wide!TypeOK, JobRecords
<1>5. r + 1 \in Nat
  BY <1>2
<1>6. /\ after \in JobRecords /\ after.cursor = r + 1 /\ after.results = job[j].results
      /\ after.status = job[j].status /\ after.inactive = job[j].inactive /\ after.heals = job[j].heals
      /\ after.missed = job[j].missed /\ after.recent = job[j].recent
      /\ after.summary = job[j].summary /\ after.processed = job[j].processed
  BY <1>1, <1>4, <1>5 DEF JobRecords
<1> HIDE DEF next, after
<1>7. job'[j] = after /\ \A i \in Wide!JobIds \ {j} : job'[i] = job[i]
  BY <1>1, <1>6, JobChanges
<1>8. Wide!TypeOK'
  BY <1>1, <1>3, <1>6, JobChanges, LoopMoves DEF Wide!TypeOK, JobRecords, LoopRecords
<1>9. PageInv'
  BY <1>1, <1>6, <1>7, BulkPageRests
<1>10. /\ Holds(j, l)' /\ ~Writes(j, l)' /\ RowOf(j, l)' = r /\ Wide!Pc_(j, l)' # "end"
       /\ \A m \in Loops \ {l} : /\ (Holds(j, m)' <=> Holds(j, m)) /\ (Writes(j, m)' <=> Writes(j, m))
                                 /\ RowOf(j, m)' = RowOf(j, m) /\ Wide!Pc_(j, m)' = Wide!Pc_(j, m)
       /\ Ready(j)' \subseteq Ready(j)
       /\ \A i \in Wide!JobIds \ {j}, m \in Loops : loop'[<<i, m>>] = loop[<<i, m>>]
  <2>1. /\ Holds(j, l)' /\ ~Writes(j, l)' /\ RowOf(j, l)' = r /\ Wide!Pc_(j, l)' # "end"
    BY <1>1, <1>3, LoopMoves DEF Holds, Writes, RowOf, Wide!Pc_
  <2>2. \A m \in Loops \ {l} : /\ (Holds(j, m)' <=> Holds(j, m)) /\ (Writes(j, m)' <=> Writes(j, m))
                                /\ RowOf(j, m)' = RowOf(j, m) /\ Wide!Pc_(j, m)' = Wide!Pc_(j, m)
    BY <1>1, <1>3, BulkMoved
  <2>3. Ready(j)' \subseteq Ready(j)
    BY <1>1, <1>3, BulkMoved
  <2>4. \A i \in Wide!JobIds \ {j}, m \in Loops : loop'[<<i, m>>] = loop[<<i, m>>]
    BY <1>1, <1>3, BulkMoved
  <2>5. QED  BY <2>1, <2>2, <2>3, <2>4
<1>11. ~Holds(j, l) /\ ~Writes(j, l) /\ \A m \in Loops : Wide!Pc_(j, m) # "end"
  BY <1>1, <1>2 DEF Holds, Writes, Wide!Pc_, JobInv, Taken
<1>12. \A m \in Loops : Holds(j, m) \/ Writes(j, m) => RowOf(j, m) \in 1..(r - 1)
  BY DEF JobInv, Taken
<1>13. \A x \in Nat : x \in job[j].results <=> x \in 1..(r - 1) /\ \A m \in Loops : Holds(j, m) => RowOf(j, m) # x
  BY DEF JobInv, Taken
<1>14. Taken(j)'
  <2>1. job'[j].cursor = r + 1 /\ job'[j].results = job[j].results
    BY <1>6, <1>7
  <2>2. \A x \in Nat : x \in job'[j].results <=>
          x \in 1..r /\ \A m \in Loops : Holds(j, m)' => RowOf(j, m)' # x
    BY <1>2, <1>10, <1>11, <1>12, <1>13, <2>1
  <2>3. \A k, m \in Loops : k # m /\ (Holds(j, k)' \/ Writes(j, k)') /\ (Holds(j, m)' \/ Writes(j, m)')
                              => RowOf(j, k)' # RowOf(j, m)'
    BY <1>2, <1>10, <1>12 DEF JobInv, Taken
  <2>4. \A m \in Loops : Holds(j, m)' \/ Writes(j, m)' => RowOf(j, m)' \in 1..r
    BY <1>2, <1>10, <1>12
  <2>5. QED  BY <1>2, <1>10, <1>11, <2>1, <2>2, <2>3, <2>4 DEF Taken
<1>15. Counted(j)' /\ Staged(j)'
  BY <1>1, <1>6, <1>7, <1>10, <1>11 DEF JobInv, Counted, Staged
<1>16. Spaced(j)'
  BY <1>1, <1>6, <1>7, <1>10, BulkReady DEF JobInv
<1>17. QED  BY <1>1, <1>7, <1>8, <1>9, <1>10, <1>14, <1>15, <1>16, BulkOneJob DEF JobInv

\* A loop that goes on with its row keeps it.
LEMMA BulkKeepsRow ==
  ASSUME BulkInv, NEW j \in Wide!JobIds, NEW l \in Loops, Holds(j, l), Holds(j, l)', ~Writes(j, l)',
         RowOf(j, l)' = RowOf(j, l), Wide!Pc_(j, l)' # "end", health' = health,
         job'[j].cursor = job[j].cursor, job'[j].results = job[j].results, job'[j].status = job[j].status,
         job'[j].inactive = job[j].inactive, job'[j].processed = job[j].processed,
         job'[j].summary = job[j].summary, job'[j].heals = job[j].heals, job'[j].missed = job[j].missed,
         \A m \in Loops \ {l} : /\ (Holds(j, m)' <=> Holds(j, m)) /\ (Writes(j, m)' <=> Writes(j, m))
                                /\ RowOf(j, m)' = RowOf(j, m) /\ Wide!Pc_(j, m)' = Wide!Pc_(j, m)
  PROVE  Taken(j)' /\ Counted(j)' /\ Staged(j)'
<1>1. ~Writes(j, l) /\ Wide!Pc_(j, l) # "end"
  BY DEF Holds, Writes
<1>2. Taken(j)'
  <2>1. \A m \in Loops : /\ (Holds(j, m)' <=> Holds(j, m)) /\ (Writes(j, m)' <=> Writes(j, m))
                          /\ RowOf(j, m)' = RowOf(j, m)
    BY <1>1
  <2>2. \A m \in Loops : Wide!Pc_(j, m)' = "end" => Wide!Pc_(j, m) = "end"
    OBVIOUS
  <2>3. QED  BY <2>1, <2>2 DEF BulkInv, JobInv, Taken
<1>3. Counted(j)'
  BY <1>1 DEF BulkInv, JobInv, Counted
<1>4. Staged(j)'
  BY <1>1 DEF BulkInv, JobInv, Staged
<1>5. QED  BY <1>2, <1>3, <1>4

LEMMA BulkGap ==
  ASSUME Wide!BulkTestAssumption, BulkInv, NEW j \in Wide!JobIds, NEW l \in Loops, Wide!Gap(j, l)
  PROVE  BulkInv'
<1> USE DEF BulkInv, Wide!Client
<1> DEFINE next == [loop[<<j, l>>] EXCEPT !.pc = "mail", !.wait = job[j].recent]
<1>1. /\ loop[<<j, l>>].pc = "gap" /\ UNCHANGED <<job, health, sent, lost, ui, poll, late>>
      /\ loop' = [loop EXCEPT ![<<j, l>>] = next]
  BY DEF Wide!Gap, Wide!TypeOK, Wide!Pc_
<1>2. loop[<<j, l>>] \in LoopRecords /\ job[j].recent \in BOOLEAN
  BY DEF Wide!TypeOK, LoopRecords
<1>3. next \in LoopRecords /\ next.pc = "mail" /\ next.row = loop[<<j, l>>].row
  BY <1>2 DEF LoopRecords, Wide!LoopPc
<1>4. next.wait = job[j].recent
  BY <1>2 DEF LoopRecords
<1> HIDE DEF next
<1>5. Wide!TypeOK'
  BY <1>1, <1>3, LoopMoves DEF Wide!TypeOK, LoopRecords
<1>6. PageInv'
  BY <1>1, BulkPageRests
<1>7. /\ Holds(j, l)' /\ ~Writes(j, l)' /\ RowOf(j, l)' = RowOf(j, l) /\ Wide!Pc_(j, l)' # "end"
      /\ \A m \in Loops \ {l} : /\ (Holds(j, m)' <=> Holds(j, m)) /\ (Writes(j, m)' <=> Writes(j, m))
                                /\ RowOf(j, m)' = RowOf(j, m) /\ Wide!Pc_(j, m)' = Wide!Pc_(j, m)
      /\ job[j].recent => Ready(j)' \subseteq Ready(j)
      /\ \A i \in Wide!JobIds \ {j}, m \in Loops : loop'[<<i, m>>] = loop[<<i, m>>]
  <2>1. /\ Holds(j, l)' /\ ~Writes(j, l)' /\ RowOf(j, l)' = RowOf(j, l) /\ Wide!Pc_(j, l)' # "end"
    BY <1>1, <1>3, LoopMoves DEF Holds, Writes, RowOf, Wide!Pc_
  <2>2. \A m \in Loops \ {l} : /\ (Holds(j, m)' <=> Holds(j, m)) /\ (Writes(j, m)' <=> Writes(j, m))
                                /\ RowOf(j, m)' = RowOf(j, m) /\ Wide!Pc_(j, m)' = Wide!Pc_(j, m)
    BY <1>1, <1>3, BulkMoved
  <2>3. job[j].recent => Ready(j)' \subseteq Ready(j)
    BY <1>1, <1>3, <1>4, BulkMoved
  <2>4. \A i \in Wide!JobIds \ {j}, m \in Loops : loop'[<<i, m>>] = loop[<<i, m>>]
    BY <1>1, <1>3, BulkMoved
  <2>5. QED  BY <2>1, <2>2, <2>3, <2>4
<1>8. Holds(j, l)
  BY <1>1 DEF Holds, Wide!Pc_
<1>9. Taken(j)' /\ Counted(j)' /\ Staged(j)'
  BY <1>1, <1>7, <1>8, BulkKeepsRow
<1>10. Spaced(j)'
  <2>1. CASE job[j].recent
    BY <1>1, <1>7, <2>1, BulkReady DEF JobInv
  <2>2. CASE ~job[j].recent
    <3>1. Cardinality(Ready(j)') <= Cardinality(Loops)
      BY FS_Subset, WideFinite DEF Wide!BulkTestAssumption, Ready
    <3>2. sent'[j] = 0
      BY <1>1, <2>2 DEF JobInv, Spaced
    <3>3. Cardinality(Ready(j)') \in Nat
      BY FS_Subset, FS_CardinalityType, WideFinite DEF Wide!BulkTestAssumption, Ready
    <3>4. QED  BY <3>1, <3>2, <3>3 DEF Spaced
  <2>3. QED  BY <2>1, <2>2
<1>11. QED  BY <1>1, <1>5, <1>6, <1>7, <1>9, <1>10, BulkOneJob DEF JobInv

LEMMA BulkMail ==
  ASSUME Wide!BulkTestAssumption, BulkInv, NEW j \in Wide!JobIds, NEW l \in Loops, Wide!Mail(j, l)
  PROVE  BulkInv'
<1> USE DEF BulkInv, Wide!Client
<1> DEFINE next == [loop[<<j, l>>] EXCEPT !.pc = "test"]
           after == [job[j] EXCEPT !.recent = TRUE]
<1>1. /\ loop[<<j, l>>].pc = "mail" /\ ~loop[<<j, l>>].wait /\ UNCHANGED <<health, lost, ui, poll, late>>
      /\ loop' = [loop EXCEPT ![<<j, l>>] = next] /\ job' = [job EXCEPT ![j] = after]
      /\ sent' = [sent EXCEPT ![j] = @ + 1]
  BY DEF Wide!Mail, Wide!Goto, Wide!TypeOK, Wide!Pc_
<1>2. loop[<<j, l>>] \in LoopRecords /\ job[j] \in JobRecords
  BY DEF Wide!TypeOK, LoopRecords, JobRecords
<1>3. next \in LoopRecords /\ next.pc = "test" /\ next.row = loop[<<j, l>>].row
  BY <1>2 DEF LoopRecords, Wide!LoopPc
<1>4. /\ after \in JobRecords /\ after.cursor = job[j].cursor /\ after.results = job[j].results
      /\ after.status = job[j].status /\ after.inactive = job[j].inactive /\ after.heals = job[j].heals
      /\ after.missed = job[j].missed /\ after.recent
      /\ after.summary = job[j].summary /\ after.processed = job[j].processed
  BY <1>2 DEF JobRecords
<1> HIDE DEF next, after
<1>5. job'[j] = after /\ \A i \in Wide!JobIds \ {j} : job'[i] = job[i] /\ sent'[i] = sent[i]
  BY <1>1, <1>4, JobChanges DEF Wide!TypeOK
<1>6. sent[j] \in Nat /\ sent'[j] = sent[j] + 1 /\ sent' \in [Wide!JobIds -> Nat]
  BY <1>1 DEF Wide!TypeOK
<1>7. Wide!TypeOK'
  BY <1>1, <1>3, <1>4, <1>6, LoopMoves, JobChanges DEF Wide!TypeOK, LoopRecords, JobRecords
<1>8. PageInv'
  BY <1>1, <1>4, <1>5, BulkPageRests
<1>9. /\ Holds(j, l)' /\ ~Writes(j, l)' /\ RowOf(j, l)' = RowOf(j, l) /\ Wide!Pc_(j, l)' # "end"
  BY <1>1, <1>3, LoopMoves DEF Holds, Writes, RowOf, Wide!Pc_
<1>10. \A m \in Loops \ {l} : /\ (Holds(j, m)' <=> Holds(j, m)) /\ (Writes(j, m)' <=> Writes(j, m))
                              /\ RowOf(j, m)' = RowOf(j, m) /\ Wide!Pc_(j, m)' = Wide!Pc_(j, m)
  BY <1>1, <1>3, BulkMoved
<1>11. Holds(j, l)
  BY <1>1 DEF Holds, Wide!Pc_
<1>12. Taken(j)' /\ Counted(j)' /\ Staged(j)'
  BY <1>1, <1>4, <1>5, <1>9, <1>10, <1>11, BulkKeepsRow
<1>13. Spaced(j)'
  <2>1. l \in Ready(j) /\ Ready(j)' \subseteq Ready(j) \ {l}
    BY <1>1, <1>3, BulkMoved DEF Ready, Wide!Pc_
  <2>2. IsFiniteSet(Ready(j)) /\ Cardinality(Ready(j)) \in Nat /\ Cardinality(Loops) \in Nat
    BY FS_Subset, FS_CardinalityType, WideFinite DEF Wide!BulkTestAssumption, Ready
  <2>3. IsFiniteSet(Ready(j) \ {l}) /\ Cardinality(Ready(j) \ {l}) = Cardinality(Ready(j)) - 1
    BY <2>1, <2>2, FS_RemoveElement
  <2>4. Cardinality(Ready(j)') \in Nat /\ Cardinality(Ready(j)') <= Cardinality(Ready(j)) - 1
    BY <2>1, <2>3, FS_Subset, FS_CardinalityType
  <2>5. job'[j].recent
    BY <1>4, <1>5
  <2>6. QED  BY <1>6, <2>2, <2>4, <2>5 DEF JobInv, Spaced
<1>14. \A i \in Wide!JobIds \ {j}, m \in Loops : loop'[<<i, m>>] = loop[<<i, m>>]
  BY <1>1, <1>3, BulkMoved
<1>15. QED  BY <1>1, <1>5, <1>7, <1>8, <1>12, <1>13, <1>14, BulkOneJob DEF JobInv

LEMMA BulkTested ==
  ASSUME Wide!BulkTestAssumption, BulkInv, NEW j \in Wide!JobIds, NEW l \in Loops, Wide!Test(j, l)
  PROVE  BulkInv'
<1> USE DEF BulkInv, Wide!Client
<1> DEFINE r == RowOf(j, l)
           next == [loop[<<j, l>>] EXCEPT !.pc = "write"]
           after == [job[j] EXCEPT !.results = @ \cup {r}, !.summary = @ + 1, !.processed = @ + 1]
<1>1. /\ loop[<<j, l>>].pc = "test" /\ job[j].status \in {"running", "failed"} /\ UNCHANGED <<health, sent, lost, ui, poll, late>>
      /\ loop' = [loop EXCEPT ![<<j, l>>] = next] /\ job' = [job EXCEPT ![j] = after]
  BY DEF Wide!Test, Wide!Goto, Wide!Recorded, Wide!TypeOK, Wide!Pc_, RowOf, Wide!Working
<1>2. loop[<<j, l>>] \in LoopRecords /\ job[j] \in JobRecords
  BY DEF Wide!TypeOK, LoopRecords, JobRecords
<1>3. next \in LoopRecords /\ next.pc = "write" /\ next.row = r
  BY <1>2 DEF LoopRecords, Wide!LoopPc, RowOf
<1>4. Holds(j, l) /\ ~Writes(j, l) /\ Wide!Pc_(j, l) # "end"
  BY <1>1 DEF Holds, Writes, Wide!Pc_
<1>5. r \in 1..(job[j].cursor - 1) /\ r \in Nat /\ r \in Wide!AllRows /\ r \notin job[j].results
  <2>1. r \in 1..(job[j].cursor - 1) /\ r \in Nat
    BY <1>4, BulkResults DEF JobInv, Taken
  <2>2. r \in Wide!RowIds(j)
    BY <2>1, BulkResults DEF JobInv, Taken
  <2>3. QED  BY <1>4, <2>1, <2>2, BulkRows DEF JobInv, Taken
<1>6. job[j].summary + 1 \in Nat /\ job[j].processed + 1 \in Nat
  BY <1>2 DEF JobRecords
<1>7. job[j].results \cup {r} \in SUBSET Wide!AllRows
  BY <1>2, <1>5 DEF JobRecords
<1>8. /\ after \in JobRecords /\ after.cursor = job[j].cursor /\ after.results = job[j].results \cup {r}
      /\ after.status = job[j].status /\ after.inactive = job[j].inactive /\ after.heals = job[j].heals
      /\ after.missed = job[j].missed /\ after.recent = job[j].recent
      /\ after.summary = job[j].summary + 1 /\ after.processed = job[j].processed + 1
  BY <1>2, <1>6, <1>7 DEF JobRecords
<1> HIDE DEF next, after
<1>9. job'[j] = after /\ \A i \in Wide!JobIds \ {j} : job'[i] = job[i]
  BY <1>1, <1>8, JobChanges
<1>10. Wide!TypeOK'
  BY <1>1, <1>3, <1>8, LoopMoves, JobChanges DEF Wide!TypeOK, LoopRecords, JobRecords
<1>11. PageInv'
  BY <1>1, <1>8, <1>9, BulkPageRests
<1>12. ~Holds(j, l)' /\ Writes(j, l)' /\ RowOf(j, l)' = r /\ Wide!Pc_(j, l)' # "end"
  BY <1>1, <1>3, LoopMoves DEF Holds, Writes, RowOf, Wide!Pc_
<1>13. \A m \in Loops \ {l} : /\ (Holds(j, m)' <=> Holds(j, m)) /\ (Writes(j, m)' <=> Writes(j, m))
                              /\ RowOf(j, m)' = RowOf(j, m) /\ Wide!Pc_(j, m)' = Wide!Pc_(j, m)
  BY <1>1, <1>3, BulkMoved
<1>14. Taken(j)'
  <2>1. job'[j].cursor = job[j].cursor /\ job'[j].results = job[j].results \cup {r}
    BY <1>8, <1>9
  <2>2. \A x \in Nat : x \in job'[j].results <=>
          x \in 1..(job[j].cursor - 1) /\ \A m \in Loops : Holds(j, m)' => RowOf(j, m)' # x
    <3>1. \A m \in Loops \ {l} : Holds(j, m) => RowOf(j, m) # r
      BY <1>4 DEF JobInv, Taken
    <3>2. ASSUME NEW x \in Nat
          PROVE  (\A m \in Loops : Holds(j, m)' => RowOf(j, m)' # x)
                   <=> \A m \in Loops \ {l} : Holds(j, m) => RowOf(j, m) # x
      BY <1>12, <1>13
    <3>3. ASSUME NEW x \in Nat, x # r
          PROVE  x \in job'[j].results <=>
                   x \in 1..(job[j].cursor - 1) /\ \A m \in Loops : Holds(j, m)' => RowOf(j, m)' # x
      BY <1>4, <2>1, <3>2, <3>3 DEF JobInv, Taken
    <3>4. r \in job'[j].results /\ r \in 1..(job[j].cursor - 1) /\ \A m \in Loops : Holds(j, m)' => RowOf(j, m)' # r
      BY <1>4, <1>5, <1>12, <1>13, <2>1, <3>1 DEF JobInv, Taken
    <3>5. QED  BY <3>3, <3>4
  <2>3. \A m \in Loops : /\ Holds(j, m)' \/ Writes(j, m)' <=> Holds(j, m) \/ Writes(j, m)
                         /\ RowOf(j, m)' = RowOf(j, m)
                         /\ Wide!Pc_(j, m)' = "end" => Wide!Pc_(j, m) = "end"
    BY <1>4, <1>12, <1>13
  <2>4. QED  BY <2>1, <2>2, <2>3 DEF JobInv, Taken
<1>15. Counted(j)'
  <2>1. IsFiniteSet(job[j].results)
    BY BulkResults
  <2>2. Cardinality(job[j].results \cup {r}) = Cardinality(job[j].results) + 1
    BY <1>5, <2>1, FS_AddElement
  <2>3. /\ job'[j].processed = Cardinality(job'[j].results) /\ job'[j].summary = job'[j].processed
        /\ health'[j] \cup job'[j].missed \subseteq job'[j].results
        /\ ~job'[j].heals => health'[j] = {}
    BY <1>1, <1>8, <1>9, <2>2, ZenonT(40) DEF JobInv, Counted
  <2>4. job'[j].heals /\ ~job'[j].inactive =>
          \A x \in job'[j].results \ (health'[j] \cup job'[j].missed) :
            \E m \in Loops : Writes(j, m)' /\ RowOf(j, m)' = x
    <3>1. SUFFICES ASSUME job'[j].heals, ~job'[j].inactive,
                          NEW x \in job'[j].results \ (health'[j] \cup job'[j].missed)
                   PROVE  \E m \in Loops : Writes(j, m)' /\ RowOf(j, m)' = x
      OBVIOUS
    <3>2. /\ job[j].heals /\ ~job[j].inactive /\ x \notin health[j] \cup job[j].missed
          /\ x = r \/ x \in job[j].results
      <4>1. /\ job'[j].heals = job[j].heals /\ job'[j].inactive = job[j].inactive
            /\ job'[j].missed = job[j].missed /\ job'[j].results = job[j].results \cup {r}
        BY <1>8, <1>9
      <4>2. health' = health
        BY <1>1
      <4>3. job[j].heals /\ ~job[j].inactive
        BY <3>1, <4>1
      <4>4. x \in (job[j].results \cup {r}) \ (health[j] \cup job[j].missed)
        BY <4>1, <4>2
      <4>5. QED  BY Zenon, <4>3, <4>4
    <3>3. CASE x = r
      BY <1>12, <3>3
    <3>4. CASE x # r
      <4>1. x \in job[j].results \ (health[j] \cup job[j].missed)
        BY <3>2, <3>4
      <4>2. PICK m \in Loops : Writes(j, m) /\ RowOf(j, m) = x
        BY <3>2, <4>1 DEF JobInv, Counted
      <4>3. m # l
        BY <1>4, <4>2
      <4>4. QED  BY <1>13, <4>2, <4>3
    <3>5. QED  BY <3>3, <3>4
  <2>5. QED  BY <2>3, <2>4 DEF Counted
<1>16. Staged(j)'
  BY <1>1, <1>8, <1>9 DEF Staged
<1>17. Spaced(j)'
  <2>1. Ready(j)' \subseteq Ready(j)
    BY <1>1, <1>3, BulkMoved
  <2>2. QED  BY <1>1, <1>8, <1>9, <2>1, BulkReady DEF JobInv
<1>18. \A i \in Wide!JobIds \ {j}, m \in Loops : loop'[<<i, m>>] = loop[<<i, m>>]
  BY <1>1, <1>3, BulkMoved
<1>19. QED  BY <1>1, <1>9, <1>10, <1>11, <1>14, <1>15, <1>16, <1>17, <1>18, BulkOneJob DEF JobInv

\* A loop whose test throws keeps its row for good, and the job counts as failed.
LEMMA BulkThrow ==
  ASSUME Wide!BulkTestAssumption, BulkInv, NEW j \in Wide!JobIds, NEW l \in Loops, Wide!Throw(j, l)
  PROVE  BulkInv'
<1> USE DEF BulkInv, Wide!Client
<1> DEFINE next == [loop[<<j, l>>] EXCEPT !.pc = "dead"]
           after == [job[j] EXCEPT !.status = "failed"]
<1>1. /\ loop[<<j, l>>].pc = "test" /\ job[j].status \in {"running", "failed"}
      /\ UNCHANGED <<health, sent, lost, ui, poll, late>>
      /\ loop' = [loop EXCEPT ![<<j, l>>] = next] /\ job' = [job EXCEPT ![j] = after]
  BY DEF Wide!Throw, Wide!Goto, Wide!TypeOK, Wide!Pc_, Wide!Working
<1>2. loop[<<j, l>>] \in LoopRecords /\ job[j] \in JobRecords
  BY DEF Wide!TypeOK, LoopRecords, JobRecords
<1>3. next \in LoopRecords /\ next.pc = "dead" /\ next.row = loop[<<j, l>>].row
  BY <1>2 DEF LoopRecords, Wide!LoopPc
<1>4. /\ after \in JobRecords /\ after.cursor = job[j].cursor /\ after.results = job[j].results
      /\ after.status = "failed" /\ after.inactive = job[j].inactive /\ after.heals = job[j].heals
      /\ after.missed = job[j].missed /\ after.recent = job[j].recent
      /\ after.summary = job[j].summary /\ after.processed = job[j].processed
  BY <1>2 DEF JobRecords, Wide!Status
<1> HIDE DEF next, after
<1>5. job'[j] = after /\ \A i \in Wide!JobIds \ {j} : job'[i] = job[i]
  BY <1>1, <1>4, JobChanges
<1>6. Wide!TypeOK'
  BY <1>1, <1>3, <1>4, LoopMoves, JobChanges DEF Wide!TypeOK, LoopRecords, JobRecords
<1>7. PageInv'
  BY <1>1, <1>4, <1>5, BulkPageRests
<1>8. /\ Holds(j, l)' /\ ~Writes(j, l)' /\ RowOf(j, l)' = RowOf(j, l) /\ Wide!Pc_(j, l)' # "end"
  BY <1>1, <1>3, LoopMoves DEF Holds, Writes, RowOf, Wide!Pc_
<1>9. \A m \in Loops \ {l} : /\ (Holds(j, m)' <=> Holds(j, m)) /\ (Writes(j, m)' <=> Writes(j, m))
                             /\ RowOf(j, m)' = RowOf(j, m) /\ Wide!Pc_(j, m)' = Wide!Pc_(j, m)
  BY <1>1, <1>3, BulkMoved
<1>10. Holds(j, l) /\ ~Writes(j, l) /\ Wide!Pc_(j, l) # "end"
  BY <1>1 DEF Holds, Writes, Wide!Pc_
<1>11. Taken(j)'
  <2>1. \A m \in Loops : /\ (Holds(j, m)' <=> Holds(j, m)) /\ (Writes(j, m)' <=> Writes(j, m))
                         /\ RowOf(j, m)' = RowOf(j, m)
                         /\ Wide!Pc_(j, m)' = "end" => Wide!Pc_(j, m) = "end"
    BY <1>8, <1>9, <1>10
  <2>2. job'[j].cursor = job[j].cursor /\ job'[j].results = job[j].results
    BY <1>4, <1>5
  <2>3. QED  BY <2>1, <2>2 DEF JobInv, Taken
<1>12. Counted(j)'
  BY <1>1, <1>4, <1>5, <1>8, <1>9, <1>10 DEF JobInv, Counted
<1>13. Staged(j)'
  BY <1>4, <1>5 DEF Staged
<1>14. Spaced(j)'
  <2>1. Ready(j)' \subseteq Ready(j)
    BY <1>1, <1>3, BulkMoved
  <2>2. QED  BY <1>1, <1>4, <1>5, <2>1, BulkReady DEF JobInv
<1>15. \A i \in Wide!JobIds \ {j}, m \in Loops : loop'[<<i, m>>] = loop[<<i, m>>]
  BY <1>1, <1>3, BulkMoved
<1>16. QED  BY <1>1, <1>5, <1>6, <1>7, <1>11, <1>12, <1>13, <1>14, <1>15, BulkOneJob DEF JobInv

\* The three ways of a result into the account's row: it is written, its update
\* fails, or the job is not to update any.
LEMMA BulkWrites ==
  ASSUME Wide!BulkTestAssumption, BulkInv, NEW j \in Wide!JobIds, NEW l \in Loops, Wide!WriteHealth(j, l),
         RowOf(j, l) \in job[j].results
  PROVE  /\ job' \in [Wide!JobIds -> JobRecords] /\ health' \in [Wide!JobIds -> SUBSET Wide!AllRows]
         /\ \A i \in Wide!JobIds \ {j} : job'[i] = job[i] /\ health'[i] = health[i]
         /\ job'[j].cursor = job[j].cursor /\ job'[j].results = job[j].results
         /\ job'[j].status = job[j].status /\ job'[j].inactive = job[j].inactive
         /\ job'[j].heals = job[j].heals /\ job'[j].recent = job[j].recent
         /\ job'[j].summary = job[j].summary /\ job'[j].processed = job[j].processed
         /\ \/ /\ job[j].heals /\ health'[j] \cup job'[j].missed = health[j] \cup job[j].missed \cup {RowOf(j, l)}
            \/ /\ ~job[j].heals /\ health'[j] = health[j] /\ job'[j].missed = job[j].missed
<1> USE DEF BulkInv
<1> DEFINE r == RowOf(j, l)
           after == [job[j] EXCEPT !.missed = @ \cup {r}]
<1>1. job[j] \in JobRecords /\ r \in Wide!AllRows
  BY DEF Wide!TypeOK, JobRecords
<1>2. /\ after \in JobRecords /\ after.cursor = job[j].cursor /\ after.results = job[j].results
      /\ after.status = job[j].status /\ after.inactive = job[j].inactive /\ after.heals = job[j].heals
      /\ after.recent = job[j].recent /\ after.missed = job[j].missed \cup {r}
      /\ after.summary = job[j].summary /\ after.processed = job[j].processed
  BY <1>1 DEF JobRecords
<1>3. \/ job[j].heals /\ health' = [health EXCEPT ![j] = @ \cup {r}] /\ UNCHANGED job
      \/ job[j].heals /\ job' = [job EXCEPT ![j] = after] /\ UNCHANGED health
      \/ ~job[j].heals /\ UNCHANGED <<job, health>>
  BY DEF Wide!WriteHealth, RowOf, Wide!TypeOK
<1> HIDE DEF after
<1>4. CASE job[j].heals /\ health' = [health EXCEPT ![j] = @ \cup {r}] /\ UNCHANGED job
  BY <1>1, <1>4 DEF Wide!TypeOK, JobRecords
<1>5. CASE job[j].heals /\ job' = [job EXCEPT ![j] = after] /\ UNCHANGED health
  BY <1>2, <1>5, JobChanges DEF Wide!TypeOK
<1>6. CASE ~job[j].heals /\ UNCHANGED <<job, health>>
  BY <1>6 DEF Wide!TypeOK, JobRecords
<1>7. QED  BY <1>3, <1>4, <1>5, <1>6

LEMMA BulkWrite ==
  ASSUME Wide!BulkTestAssumption, BulkInv, NEW j \in Wide!JobIds, NEW l \in Loops, Wide!WriteHealth(j, l)
  PROVE  BulkInv'
<1> USE DEF BulkInv, Wide!Client
<1> DEFINE r == RowOf(j, l)
           next == [loop[<<j, l>>] EXCEPT !.pc = "take"]
<1>1. /\ loop[<<j, l>>].pc = "write" /\ UNCHANGED <<sent, lost, ui, poll, late>>
      /\ loop' = [loop EXCEPT ![<<j, l>>] = next]
  BY DEF Wide!WriteHealth, Wide!Goto, Wide!TypeOK, Wide!Pc_
<1>2. loop[<<j, l>>] \in LoopRecords
  BY DEF Wide!TypeOK, LoopRecords
<1>3. next \in LoopRecords /\ next.pc = "take"
  BY <1>2 DEF LoopRecords, Wide!LoopPc
<1> HIDE DEF next
<1>4. ~Holds(j, l) /\ Writes(j, l) /\ Wide!Pc_(j, l) # "end"
  BY <1>1 DEF Holds, Writes, Wide!Pc_
<1>5. r \in job[j].results
  <2>1. r \in 1..(job[j].cursor - 1) /\ r \in Nat
    BY <1>4, BulkResults DEF JobInv, Taken
  <2>2. \A m \in Loops : Holds(j, m) => RowOf(j, m) # r
    BY <1>4 DEF JobInv, Taken
  <2>3. QED  BY <2>1, <2>2 DEF JobInv, Taken
<1>6. /\ job' \in [Wide!JobIds -> JobRecords] /\ health' \in [Wide!JobIds -> SUBSET Wide!AllRows]
      /\ \A i \in Wide!JobIds \ {j} : job'[i] = job[i] /\ health'[i] = health[i]
      /\ job'[j].cursor = job[j].cursor /\ job'[j].results = job[j].results
      /\ job'[j].status = job[j].status /\ job'[j].inactive = job[j].inactive
      /\ job'[j].heals = job[j].heals /\ job'[j].recent = job[j].recent
      /\ job'[j].summary = job[j].summary /\ job'[j].processed = job[j].processed
      /\ \/ /\ job[j].heals /\ health'[j] \cup job'[j].missed = health[j] \cup job[j].missed \cup {r}
         \/ /\ ~job[j].heals /\ health'[j] = health[j] /\ job'[j].missed = job[j].missed
  BY <1>5, BulkWrites
<1>7. Wide!TypeOK'
  BY <1>1, <1>3, <1>6, LoopMoves DEF Wide!TypeOK, LoopRecords, JobRecords
<1>8. PageInv'
  BY <1>1, <1>6, BulkPageRests
<1>9. ~Holds(j, l)' /\ ~Writes(j, l)' /\ Wide!Pc_(j, l)' # "end"
  BY <1>1, <1>3, LoopMoves DEF Holds, Writes, RowOf, Wide!Pc_
<1>10. \A m \in Loops \ {l} : /\ (Holds(j, m)' <=> Holds(j, m)) /\ (Writes(j, m)' <=> Writes(j, m))
                              /\ RowOf(j, m)' = RowOf(j, m) /\ Wide!Pc_(j, m)' = Wide!Pc_(j, m)
  BY <1>1, <1>3, BulkMoved
<1>11. Taken(j)'
  <2>1. \A m \in Loops : /\ Holds(j, m)' <=> Holds(j, m)
                         /\ Holds(j, m)' \/ Writes(j, m)' => RowOf(j, m)' = RowOf(j, m) /\ (Holds(j, m) \/ Writes(j, m))
                         /\ Wide!Pc_(j, m)' = "end" => Wide!Pc_(j, m) = "end"
    BY <1>4, <1>9, <1>10
  <2>2. QED  BY <1>6, <2>1 DEF JobInv, Taken
<1>12. Counted(j)' /\ Staged(j)'
  <2>1. Counted(j)'
    <3>1. /\ health'[j] \cup job'[j].missed \subseteq job'[j].results
          /\ ~job'[j].heals => health'[j] = {}
          /\ job'[j].processed = Cardinality(job'[j].results) /\ job'[j].summary = job'[j].processed
      BY <1>5, <1>6 DEF JobInv, Counted
    <3>2. ASSUME job'[j].heals, ~job'[j].inactive,
                 NEW x \in job'[j].results \ (health'[j] \cup job'[j].missed)
          PROVE  \E m \in Loops : Writes(j, m)' /\ RowOf(j, m)' = x
      <4>1. x # r /\ x \in job[j].results \ (health[j] \cup job[j].missed)
        BY <1>6, <3>2
      <4>2. PICK m \in Loops : Writes(j, m) /\ RowOf(j, m) = x
        BY <1>6, <3>2, <4>1 DEF JobInv, Counted
      <4>3. QED  BY <1>10, <4>1, <4>2
    <3>3. QED  BY <3>1, <3>2 DEF Counted
  <2>2. QED  BY <1>4, <1>6, <1>9, <1>10, <2>1 DEF JobInv, Staged
<1>13. Spaced(j)'
  <2>1. Ready(j)' \subseteq Ready(j)
    BY <1>1, <1>3, BulkMoved
  <2>2. QED  BY <1>1, <1>6, <2>1, BulkReady DEF JobInv
<1>14. \A i \in Wide!JobIds \ {j}, m \in Loops : loop'[<<i, m>>] = loop[<<i, m>>]
  BY <1>1, <1>3, BulkMoved
<1>15. QED  BY <1>1, <1>6, <1>7, <1>8, <1>11, <1>12, <1>13, <1>14, BulkOneJob DEF JobInv

LEMMA UpTo == ASSUME NEW n \in Nat PROVE Cardinality(1..n) = n
<1>1. 1 \in Int /\ n \in Int
  OBVIOUS
<1>2. Cardinality(1..n) = IF 1 <= n THEN n - 1 + 1 ELSE 0
  BY <1>1, FS_Interval
<1>3. QED  BY <1>2

\* A completed job has been through all of its rows.
LEMMA BulkAddsUp ==
  ASSUME Wide!BulkTestAssumption, BulkInv
  PROVE  Wide!CompletedAddsUp
<1>0. \A j \in Wide!JobIds : ~job[j].heals => health[j] = {}
  BY DEF BulkInv, JobInv, Counted
<1> SUFFICES ASSUME NEW j \in Wide!JobIds, job[j].status = "completed"
             PROVE  /\ job[j].results = Wide!RowIds(j) /\ job[j].processed = JobRows[j] /\ job[j].summary = JobRows[j]
                    /\ job[j].heals /\ ~job[j].inactive => health[j] \cup job[j].missed = Wide!RowIds(j)
  BY <1>0 DEF Wide!CompletedAddsUp
<1>1. \A l \in Loops : Wide!Pc_(j, l) = "end" /\ ~Holds(j, l) /\ ~Writes(j, l)
  BY DEF BulkInv, JobInv, Staged, Holds, Writes
<1>2. JobRows[j] \in Nat /\ job[j].cursor = JobRows[j] + 1
  BY <1>1, BulkResults DEF Wide!BulkTestAssumption, BulkInv, JobInv, Taken
<1>3. job[j].results = 1..JobRows[j]
  <2>1. job[j].results \subseteq Nat
    BY BulkRows DEF BulkInv, Wide!TypeOK
  <2>2. \A r \in Nat : r \in job[j].results <=> r \in 1..JobRows[j]
    BY <1>1, <1>2 DEF BulkInv, JobInv, Taken
  <2>3. 1..JobRows[j] \subseteq Nat
    BY <1>2
  <2>4. QED  BY <2>1, <2>2, <2>3
<1>4. Cardinality(1..JobRows[j]) = JobRows[j]
  BY <1>2, UpTo
<1>5. QED  BY <1>1, <1>3, <1>4 DEF BulkInv, JobInv, Counted

LEMMA BulkComplete ==
  ASSUME Wide!BulkTestAssumption, BulkInv, NEW j \in Wide!JobIds, Wide!Complete(j)
  PROVE  BulkInv'
<1> USE DEF BulkInv, Wide!Client
<1> DEFINE next == [job[j] EXCEPT !.status = "completed"]
<1>1. /\ job[j].status = "running" /\ UNCHANGED <<loop, health, sent, lost, ui, poll, late>>
      /\ job' = [job EXCEPT ![j] = next] /\ \A l \in Loops : Wide!Pc_(j, l) = "end"
  BY DEF Wide!Complete, Wide!TypeOK
<1>2. job[j] \in JobRecords
  BY DEF Wide!TypeOK, JobRecords
<1>3. /\ next \in JobRecords /\ next.status = "completed" /\ next.cursor = job[j].cursor
      /\ next.results = job[j].results /\ next.processed = job[j].processed /\ next.summary = job[j].summary
      /\ next.recent = job[j].recent /\ next.inactive = job[j].inactive /\ next.heals = job[j].heals
      /\ next.missed = job[j].missed
  BY <1>2 DEF JobRecords, Wide!Status
<1> HIDE DEF next
<1>4. job'[j] = next /\ \A i \in Wide!JobIds \ {j} : job'[i] = job[i]
  BY <1>1, <1>3, JobChanges
<1>5. Wide!TypeOK'
  BY <1>1, <1>3, JobChanges DEF Wide!TypeOK, JobRecords
<1>6. PageInv'
  BY <1>1, <1>3, <1>4, BulkPageRests
<1>7. \A l \in Loops : /\ Holds(j, l)' = Holds(j, l) /\ Writes(j, l)' = Writes(j, l)
                       /\ RowOf(j, l)' = RowOf(j, l) /\ Wide!Pc_(j, l)' = Wide!Pc_(j, l)
  BY <1>1 DEF Holds, Writes, RowOf, Wide!Pc_
<1>8. Taken(j)'
  BY <1>3, <1>4, <1>7 DEF JobInv, Taken
<1>9. Counted(j)'
  BY <1>1, <1>3, <1>4, <1>7 DEF JobInv, Counted
<1>10. Staged(j)'
  BY <1>1, <1>3, <1>4, <1>7 DEF Staged
<1>11. Spaced(j)'
  <2>1. Ready(j)' = Ready(j)
    BY <1>1 DEF Ready, Wide!Pc_
  <2>2. QED  BY <1>1, <1>3, <1>4, <2>1 DEF JobInv, Spaced
<1>12. QED  BY <1>1, <1>4, <1>5, <1>6, <1>8, <1>9, <1>10, <1>11, BulkOneJob DEF JobInv

\* When the pause is over every loop may mail again, and nothing counts as sent.
LEMMA BulkTick ==
  ASSUME Wide!BulkTestAssumption, BulkInv, NEW j \in Wide!JobIds, Wide!Tick(j)
  PROVE  BulkInv'
<1> USE DEF BulkInv, Wide!Client
<1> DEFINE next == [job[j] EXCEPT !.recent = FALSE]
<1>1. /\ UNCHANGED <<health, lost, ui, poll, late>> /\ job' = [job EXCEPT ![j] = next]
      /\ sent' = [sent EXCEPT ![j] = 0]
      /\ loop' = [p \in Wide!JobIds \X Loops |-> IF p[1] = j THEN [loop[p] EXCEPT !.wait = FALSE] ELSE loop[p]]
  BY DEF Wide!Tick, Wide!TypeOK
<1>2. job[j] \in JobRecords
  BY DEF Wide!TypeOK, JobRecords
<1>3. /\ next \in JobRecords /\ next.status = job[j].status /\ next.cursor = job[j].cursor
      /\ next.results = job[j].results /\ next.processed = job[j].processed /\ next.summary = job[j].summary
      /\ ~next.recent /\ next.inactive = job[j].inactive /\ next.heals = job[j].heals
      /\ next.missed = job[j].missed
  BY <1>2 DEF JobRecords
<1> HIDE DEF next
<1>4. job'[j] = next /\ \A i \in Wide!JobIds \ {j} : job'[i] = job[i]
  BY <1>1, <1>3, JobChanges
<1>5. sent' \in [Wide!JobIds -> Nat] /\ sent'[j] = 0 /\ \A i \in Wide!JobIds \ {j} : sent'[i] = sent[i]
  BY <1>1 DEF Wide!TypeOK
<1>6. /\ loop' \in [Wide!JobIds \X Loops -> LoopRecords]
      /\ \A l \in Loops : loop'[<<j, l>>].pc = loop[<<j, l>>].pc /\ loop'[<<j, l>>].row = loop[<<j, l>>].row
      /\ \A i \in Wide!JobIds \ {j}, l \in Loops : loop'[<<i, l>>] = loop[<<i, l>>]
  <2>1. \A p \in Wide!JobIds \X Loops : loop[p] \in LoopRecords
    BY DEF Wide!TypeOK, LoopRecords
  <2>2. \A x \in LoopRecords : LET y == [x EXCEPT !.wait = FALSE] IN
                               y \in LoopRecords /\ y.pc = x.pc /\ y.row = x.row
    BY DEF LoopRecords
  <2>3. QED  BY <1>1, <2>1, <2>2
<1>7. Wide!TypeOK'
  BY <1>1, <1>3, <1>5, <1>6, JobChanges DEF Wide!TypeOK, JobRecords, LoopRecords
<1>8. PageInv'
  BY <1>1, <1>3, <1>4, BulkPageRests
<1>9. \A l \in Loops : /\ Holds(j, l)' = Holds(j, l) /\ Writes(j, l)' = Writes(j, l)
                       /\ RowOf(j, l)' = RowOf(j, l) /\ Wide!Pc_(j, l)' = Wide!Pc_(j, l)
  BY <1>6 DEF Holds, Writes, RowOf, Wide!Pc_
<1>10. Taken(j)'
  BY <1>3, <1>4, <1>9 DEF JobInv, Taken
<1>11. Counted(j)' /\ Staged(j)'
  BY <1>1, <1>3, <1>4, <1>9 DEF JobInv, Counted, Staged
<1>12. Spaced(j)'
  <2>1. Cardinality(Ready(j)') <= Cardinality(Loops) /\ Cardinality(Ready(j)') \in Nat
    BY FS_Subset, FS_CardinalityType, WideFinite DEF Wide!BulkTestAssumption, Ready
  <2>2. QED  BY <1>5, <2>1 DEF Spaced
<1>13. QED  BY <1>1, <1>4, <1>5, <1>6, <1>7, <1>8, <1>10, <1>11, <1>12, BulkOneJob DEF JobInv

LEMMA BulkForget ==
  ASSUME Wide!BulkTestAssumption, BulkInv, NEW j \in Wide!JobIds, Wide!Forget(j)
  PROVE  BulkInv'
<1> USE DEF BulkInv, Wide!Client
<1> DEFINE next == [job[j] EXCEPT !.status = "gone"]
<1>1. /\ UNCHANGED <<loop, health, sent, ui, poll, late>> /\ job' = [job EXCEPT ![j] = next]
      /\ lost < Lost /\ lost' = lost + 1
  BY DEF Wide!Forget, Wide!TypeOK
<1>2. job[j] \in JobRecords
  BY DEF Wide!TypeOK, JobRecords
<1>3. /\ next \in JobRecords /\ next.status = "gone" /\ next.cursor = job[j].cursor
      /\ next.results = job[j].results /\ next.processed = job[j].processed /\ next.summary = job[j].summary
      /\ next.recent = job[j].recent /\ next.inactive = job[j].inactive /\ next.heals = job[j].heals
      /\ next.missed = job[j].missed
  BY <1>2 DEF JobRecords, Wide!Status
<1> HIDE DEF next
<1>4. job'[j] = next /\ \A i \in Wide!JobIds \ {j} : job'[i] = job[i]
  BY <1>1, <1>3, JobChanges
<1>5. lost' \in 0..Lost
  BY <1>1 DEF Wide!TypeOK, Wide!BulkTestAssumption
<1>6. Wide!TypeOK'
  BY <1>1, <1>3, <1>5, JobChanges DEF Wide!TypeOK, JobRecords
<1>7. PageInv'
  BY <1>1, <1>3, <1>4, BulkPageRests
<1>8. \A l \in Loops : /\ Holds(j, l)' = Holds(j, l) /\ Writes(j, l)' = Writes(j, l)
                       /\ RowOf(j, l)' = RowOf(j, l) /\ Wide!Pc_(j, l)' = Wide!Pc_(j, l)
  BY <1>1 DEF Holds, Writes, RowOf, Wide!Pc_
<1>9. Taken(j)'
  BY <1>3, <1>4, <1>8 DEF JobInv, Taken
<1>10. Counted(j)' /\ Staged(j)'
  BY <1>1, <1>3, <1>4, <1>8 DEF JobInv, Counted, Staged
<1>11. Spaced(j)'
  <2>1. Ready(j)' = Ready(j)
    BY <1>1 DEF Ready, Wide!Pc_
  <2>2. QED  BY <1>1, <1>3, <1>4, <2>1 DEF JobInv, Spaced
<1>12. QED  BY <1>1, <1>4, <1>6, <1>7, <1>9, <1>10, <1>11, BulkOneJob DEF JobInv

LEMMA BulkStart ==
  ASSUME Wide!BulkTestAssumption, BulkInv, NEW j \in Wide!JobIds, Wide!Start(j)
  PROVE  BulkInv'
<1> USE DEF BulkInv
<1> DEFINE next == [job[j] EXCEPT !.status = "resolving"]
<1>1. /\ UNCHANGED <<loop, health, sent, lost, poll, late>> /\ job' = [job EXCEPT ![j] = next]
      /\ job[j].status = "none" /\ ui' = [job |-> j, status |-> "running", results |-> {}]
  BY DEF Wide!Start, Wide!TypeOK
<1>2. job[j] \in JobRecords
  BY DEF Wide!TypeOK, JobRecords
<1>3. /\ next \in JobRecords /\ next.status = "resolving" /\ next.cursor = job[j].cursor
      /\ next.results = job[j].results /\ next.processed = job[j].processed /\ next.summary = job[j].summary
      /\ next.recent = job[j].recent /\ next.inactive = job[j].inactive /\ next.heals = job[j].heals
      /\ next.missed = job[j].missed
  BY <1>2 DEF JobRecords, Wide!Status
<1> HIDE DEF next
<1>4. job'[j] = next /\ \A i \in Wide!JobIds \ {j} : job'[i] = job[i]
  BY <1>1, <1>3, JobChanges
<1>5. ui' \in [job : 0..Len(JobRows), status : {"idle", "running", "completed", "failed"},
               results : SUBSET Wide!AllRows]
  <2>1. {} \in SUBSET Wide!AllRows /\ j \in 0..Len(JobRows)
    BY DEF Wide!BulkTestAssumption
  <2>2. QED  BY <1>1, <2>1
<1>6. Wide!TypeOK'
  BY <1>1, <1>3, <1>5, JobChanges DEF Wide!TypeOK, JobRecords
<1>7. PageInv'
  <2>1. ui'.job = j /\ ui'.status = "running"
    BY <1>1
  <2>2. \A i \in Wide!JobIds : job[i].status # "none" => job'[i].status # "none"
    BY <1>3, <1>4
  <2>3. QED  BY <1>1, <1>3, <1>4, <2>1, <2>2 DEF PageInv, Wide!CompletedShowsAll
<1>8. \A l \in Loops : /\ Holds(j, l)' = Holds(j, l) /\ Writes(j, l)' = Writes(j, l)
                       /\ RowOf(j, l)' = RowOf(j, l) /\ Wide!Pc_(j, l)' = Wide!Pc_(j, l)
  BY <1>1 DEF Holds, Writes, RowOf, Wide!Pc_
<1>9. Taken(j)'
  BY <1>3, <1>4, <1>8 DEF JobInv, Taken
<1>10. Counted(j)' /\ Staged(j)'
  BY <1>1, <1>3, <1>4, <1>8 DEF JobInv, Counted, Staged
<1>11. Spaced(j)'
  <2>1. Ready(j)' = Ready(j)
    BY <1>1 DEF Ready, Wide!Pc_
  <2>2. QED  BY <1>1, <1>3, <1>4, <2>1 DEF JobInv, Spaced
<1>12. QED  BY <1>1, <1>4, <1>6, <1>7, <1>9, <1>10, <1>11, BulkOneJob DEF JobInv

PollRecords == [pc : {"none", "asked", "answered"}, status : Wide!Status, results : SUBSET Wide!AllRows]

\* The page only reads what the job is.
LEMMA BulkPolls ==
  ASSUME BulkInv, UNCHANGED <<job, loop, health, sent>>, Wide!TypeOK', PageInv'
  PROVE  BulkInv'
<1>1. ASSUME NEW i \in Wide!JobIds PROVE JobInv(i)'
  BY BulkFrame DEF BulkInv
<1>2. QED  BY <1>1 DEF BulkInv

LEMMA BulkAsk ==
  ASSUME Wide!BulkTestAssumption, BulkInv, NEW j \in Wide!JobIds, Wide!Ask(j)
  PROVE  BulkInv'
<1> USE DEF Wide!Server
<1> DEFINE next == [poll[j] EXCEPT !.pc = "asked"]
<1>1. /\ UNCHANGED <<job, loop, health, sent, lost, ui, late>> /\ poll' = [poll EXCEPT ![j] = next]
      /\ ui.job = j
  BY DEF Wide!Ask, BulkInv, Wide!TypeOK
<1>2. next \in PollRecords /\ next.pc = "asked"
  BY DEF BulkInv, Wide!TypeOK, PollRecords
<1> HIDE DEF next
<1>3. /\ poll' \in [Wide!JobIds -> PollRecords] /\ poll'[j] = next
      /\ \A i \in Wide!JobIds \ {j} : poll'[i] = poll[i]
  BY <1>1, <1>2 DEF BulkInv, Wide!TypeOK, PollRecords
<1>4. Wide!TypeOK'
  BY <1>1, <1>3 DEF BulkInv, Wide!TypeOK, PollRecords
<1>5. PageInv'
  <2>1. job[j].status # "none" /\ j # 0
    BY <1>1 DEF BulkInv, PageInv, Wide!BulkTestAssumption
  <2>2. QED  BY <1>1, <1>2, <1>3, <2>1 DEF BulkInv, PageInv, Wide!CompletedShowsAll
<1>6. QED  BY <1>1, <1>4, <1>5, BulkPolls

LEMMA BulkServe ==
  ASSUME Wide!BulkTestAssumption, BulkInv, NEW j \in Wide!JobIds, Wide!Serve(j)
  PROVE  BulkInv'
<1> USE DEF Wide!Server
<1> DEFINE next == [pc |-> "answered", status |-> job[j].status, results |-> job[j].results]
<1>1. /\ UNCHANGED <<job, loop, health, sent, lost, ui, late>> /\ poll' = [poll EXCEPT ![j] = next]
      /\ poll[j].pc = "asked"
  BY DEF Wide!Serve
<1>2. next \in PollRecords /\ next.status = job[j].status /\ next.results = job[j].results
  BY DEF BulkInv, Wide!TypeOK, PollRecords
<1> HIDE DEF next
<1>3. /\ poll' \in [Wide!JobIds -> PollRecords] /\ poll'[j] = next
      /\ \A i \in Wide!JobIds \ {j} : poll'[i] = poll[i]
  BY <1>1, <1>2 DEF BulkInv, Wide!TypeOK, PollRecords
<1>4. Wide!TypeOK'
  BY <1>1, <1>3 DEF BulkInv, Wide!TypeOK, PollRecords
<1>5. PageInv'
  <2>1. job[j].status # "none"
    BY <1>1 DEF BulkInv, PageInv
  <2>2. job[j].status = "completed" => job[j].results = Wide!RowIds(j)
    BY BulkAddsUp DEF Wide!CompletedAddsUp
  <2>3. QED  BY <1>1, <1>2, <1>3, <2>1, <2>2 DEF BulkInv, PageInv, Wide!CompletedShowsAll
<1>6. QED  BY <1>1, <1>4, <1>5, BulkPolls

LEMMA BulkReceive ==
  ASSUME Wide!BulkTestAssumption, BulkInv, NEW j \in Wide!JobIds, Wide!Receive(j)
  PROVE  BulkInv'
<1> USE DEF Wide!Server
<1>1. /\ UNCHANGED <<job, loop, health, sent, lost>> /\ poll' = [poll EXCEPT ![j] = Wide!NoPoll]
      /\ poll[j].pc = "answered"
  BY DEF Wide!Receive
<1>2. /\ poll' \in [Wide!JobIds -> PollRecords] /\ poll'[j].pc = "none"
      /\ \A i \in Wide!JobIds \ {j} : poll'[i] = poll[i]
  <2>1. Wide!NoPoll \in PollRecords /\ Wide!NoPoll.pc = "none"
    BY DEF Wide!NoPoll, PollRecords, Wide!Status
  <2>2. QED  BY <1>1, <2>1 DEF BulkInv, Wide!TypeOK, PollRecords
<1>3. /\ poll[j].status \in Wide!Status \ {"none"} /\ poll[j].results \in SUBSET Wide!AllRows
      /\ ui \in [job : 0..Len(JobRows), status : {"idle", "running", "completed", "failed"},
                 results : SUBSET Wide!AllRows]
      /\ late \in BOOLEAN
  <2>1. late \in BOOLEAN
    BY DEF BulkInv, Wide!TypeOK
  <2>2. QED  BY <1>1, <2>1 DEF BulkInv, Wide!TypeOK, PageInv
<1>4. CASE poll[j].status = "gone"
  <2>1. UNCHANGED late /\ (UNCHANGED ui \/ ui' = [ui EXCEPT !.status = "failed"])
    BY <1>4 DEF Wide!Receive
  <2>2. /\ ui' \in [job : 0..Len(JobRows), status : {"idle", "running", "completed", "failed"},
                    results : SUBSET Wide!AllRows]
        /\ ui'.job = ui.job /\ ui'.results = ui.results
        /\ ui'.status = ui.status \/ ui'.status = "failed"
    BY <1>3, <2>1
  <2>3. Wide!TypeOK'
    BY <1>1, <1>2, <2>1, <2>2 DEF BulkInv, Wide!TypeOK, PollRecords
  <2>4. PageInv'
    BY <1>1, <1>2, <2>1, <2>2 DEF BulkInv, PageInv, Wide!CompletedShowsAll
  <2>5. QED  BY <1>1, <2>3, <2>4, BulkPolls
<1>5. CASE poll[j].status # "gone"
  <2>1. /\ ui' = [ui EXCEPT !.status = Wide!Shown(poll[j]), !.results = poll[j].results]
        /\ late' = (late \/ ui.job # j)
    BY <1>5 DEF Wide!Receive
  <2>2. Wide!Shown(poll[j]) \in {"running", "completed", "failed"}
        /\ (Wide!Shown(poll[j]) = "completed" => poll[j].status = "completed")
    BY <1>3, <1>5 DEF Wide!Shown, Wide!Status
  <2>3. /\ ui' \in [job : 0..Len(JobRows), status : {"idle", "running", "completed", "failed"},
                    results : SUBSET Wide!AllRows]
        /\ ui'.job = ui.job /\ ui'.results = poll[j].results /\ ui'.status = Wide!Shown(poll[j])
    BY <1>3, <2>1, <2>2
  <2>4. late' \in BOOLEAN /\ (~late' => ui.job = j)
    BY <2>1
  <2>5. Wide!TypeOK'
    BY <1>1, <1>2, <2>3, <2>4 DEF BulkInv, Wide!TypeOK, PollRecords
  <2>6. Wide!CompletedShowsAll'
    BY <1>1, <2>2, <2>3, <2>4 DEF BulkInv, PageInv, Wide!CompletedShowsAll
  <2>7. PageInv'
    BY <1>1, <1>2, <2>3, <2>6 DEF BulkInv, PageInv
  <2>8. QED  BY <1>1, <2>5, <2>7, BulkPolls
<1>6. QED  BY <1>4, <1>5

LEMMA BulkStutter ==
  ASSUME BulkInv, UNCHANGED Wide!vars
  PROVE  BulkInv'
<1>1. UNCHANGED <<job, loop, health, sent, lost, ui, poll, late>>
  BY DEF Wide!vars
<1>2. Wide!TypeOK' /\ PageInv'
  BY <1>1 DEF BulkInv, Wide!TypeOK, PageInv, Wide!CompletedShowsAll
<1>3. QED  BY <1>1, <1>2, BulkPolls

LEMMA BulkNext ==
  ASSUME Wide!BulkTestAssumption, BulkInv, [Wide!Next]_Wide!vars
  PROVE  BulkInv'
<1>1. ASSUME NEW j \in Wide!JobIds, NEW l \in Loops, Wide!Take(j, l) PROVE BulkInv'
  <2>1. job[j].cursor \in Nat /\ JobRows[j] \in Nat
    BY BulkResults
  <2>2. (job[j].cursor > JobRows[j]) \/ (job[j].cursor <= JobRows[j] /\ job[j].inactive)
          \/ (job[j].cursor <= JobRows[j] /\ ~job[j].inactive)
    BY <2>1
  <2>3. QED  BY <1>1, <2>2, BulkTakeEnd, BulkTakeInactive, BulkTakeRow
<1>2. ASSUME NEW j \in Wide!JobIds, Wide!Run(j) PROVE BulkInv'
  BY <1>1, <1>2, BulkResolve, BulkUnresolved, BulkComplete, BulkTick, BulkGap, BulkMail, BulkTested,
     BulkThrow, BulkWrite DEF Wide!Run
<1>3. ASSUME NEW j \in Wide!JobIds, Wide!Poll(j) PROVE BulkInv'
  BY <1>3, BulkAsk, BulkServe, BulkReceive DEF Wide!Poll
<1>4. QED  BY <1>2, <1>3, BulkForget, BulkStart, BulkStutter DEF Wide!Next

LEMMA BulkAlways == ASSUME Wide!BulkTestAssumption PROVE Wide!Spec => []BulkInv
<1>1. Wide!Init => BulkInv
  BY BulkInit
<1>2. BulkInv /\ [Wide!Next]_Wide!vars => BulkInv'
  BY BulkNext
<1>3. QED  BY <1>1, <1>2, PTL DEF Wide!Spec

\* A job that says completed has each account's result once, in its counters and
\* in the accounts' rows, although its loops share the cursor and the list.
THEOREM BulkCompletedAddsUp == ASSUME Wide!BulkTestAssumption PROVE Wide!Spec => []Wide!CompletedAddsUp
<1>1. BulkInv => Wide!CompletedAddsUp
  BY BulkAddsUp
<1>2. QED  BY <1>1, BulkAlways, PTL

LEMMA BulkCardinality == ASSUME NEW S PROVE Wide!Cardinality(S) = Cardinality(S)
BY DEF Wide!Cardinality, Cardinality

\* Within 150 ms no loop of a job sends twice, so that no more mails leave than
\* it has loops.
THEOREM BulkMailsSpaced == ASSUME Wide!BulkTestAssumption PROVE Wide!Spec => []Wide!MailsSpaced
<1>1. ASSUME BulkInv PROVE Wide!MailsSpaced
  <2>1. ASSUME NEW j \in Wide!JobIds PROVE sent[j] <= Cardinality(Loops)
    <3>1. IsFiniteSet(Ready(j))
      BY FS_Subset, WideFinite DEF Wide!BulkTestAssumption, Ready
    <3>2. Cardinality(Ready(j)) \in Nat /\ Cardinality(Loops) \in Nat /\ sent[j] \in Nat
      BY <1>1, <3>1, FS_CardinalityType, WideFinite DEF Wide!BulkTestAssumption, BulkInv, Wide!TypeOK
    <3>3. QED  BY <1>1, <3>2 DEF BulkInv, JobInv, Spaced
  <2>2. QED  BY <2>1, BulkCardinality DEF Wide!MailsSpaced
<1>2. QED  BY <1>1, BulkAlways, PTL

\* What the page shows as completed is a whole job, unless an answer for an
\* earlier one came late.
THEOREM BulkCompletedShowsAll == ASSUME Wide!BulkTestAssumption PROVE Wide!Spec => []Wide!CompletedShowsAll
<1>1. BulkInv => Wide!CompletedShowsAll
  BY DEF BulkInv, PageInv
<1>2. QED  BY <1>1, BulkAlways, PTL

-----------------------------------------------------------------------------
(* Pacing *)

BucketRecords == [rate : Rates, tokens : Nat, last : Nat]

\* What a bucket has given and still holds is what it held at first and what the
\* rate has added until it was filled last.
Drawn(b) == 4 * mails + b.tokens <= Lane!Capacity(b.rate) + b.rate * (b.last - born)
PaceInv ==
  /\ bucket \subseteq BucketRecords /\ {clock, born, mails} \subseteq Nat
  /\ \A b \in bucket : born <= b.last /\ b.last <= clock /\ Drawn(b)
  /\ turn \in [Lanes -> [pc : {"idle", "waiting"}, rate : Rates \cup {0}, waited : Nat, next : Nat]]
  /\ \A s \in Lanes : turn[s].pc = "waiting" => turn[s].rate \in Rates

LEMMA PaceMin ==
  ASSUME NEW a \in Int, NEW b \in Int
  PROVE  Lane!Min({a, b}) \in {a, b} /\ Lane!Min({a, b}) <= a /\ Lane!Min({a, b}) <= b
<1>1. \E x \in {a, b} : \A y \in {a, b} : x <= y
  OBVIOUS
<1>2. Lane!Min({a, b}) \in {a, b} /\ \A y \in {a, b} : Lane!Min({a, b}) <= y
  BY <1>1 DEF Lane!Min
<1>3. QED  BY <1>2

LEMMA PaceSpread ==
  ASSUME NEW r \in Nat, NEW a \in Nat, NEW b \in Nat, NEW c \in Nat, a <= b, b <= c
  PROVE  r * (b - a) + (c - b) * r = r * (c - a) /\ r * (b - a) \in Nat /\ (c - b) * r \in Nat /\ r * (b - a) <= r * (c - a)
<1> DEFINE x == b - a
           y == c - b
<1>1. x \in Nat /\ y \in Nat /\ c - a = x + y
  OBVIOUS
<1> HIDE DEF x, y
<1>2. r * x + y * r = r * (x + y) /\ r * x \in Nat /\ y * r \in Nat
  BY <1>1
<1>3. r * x <= r * (x + y)
  BY <1>1, <1>2
<1>4. QED  BY <1>1, <1>2, <1>3 DEF x, y

LEMMA PaceRefill ==
  ASSUME Lane!PacingAssumption, clock \in Nat, NEW b \in BucketRecords, b.last <= clock
  PROVE  /\ Lane!Refill(b) \in BucketRecords /\ Lane!Refill(b).rate = b.rate /\ Lane!Refill(b).last = clock
         /\ Lane!Refill(b).tokens <= b.tokens + (clock - b.last) * b.rate
<1> DEFINE more == b.tokens + (clock - b.last) * b.rate
           tokens == Lane!Min({Lane!Capacity(b.rate), more})
<1>1. b.rate \in Rates /\ b.tokens \in Nat /\ b.last \in Nat
  BY DEF BucketRecords
<1>2. Rates \subseteq Nat
  BY DEF Lane!PacingAssumption
<1>3. clock - b.last \in Nat
  BY <1>1
<1>4. b.rate \in Nat /\ b.tokens \in Nat /\ clock - b.last \in Nat
  BY <1>1, <1>2, <1>3
<1>5. more \in Nat /\ Lane!Capacity(b.rate) \in Nat
  BY <1>4 DEF Lane!Capacity
<1> HIDE DEF more
<1>6. tokens \in Nat /\ tokens <= more
  <2> DEFINE cap == Lane!Capacity(b.rate)
  <2>1. cap \in Nat
    BY <1>5
  <2> HIDE DEF cap
  <2>2. cap \in Int /\ more \in Int
    BY <1>5, <2>1
  <2>3. Lane!Min({cap, more}) \in {cap, more} /\ Lane!Min({cap, more}) <= more
    BY Zenon, <2>2, PaceMin
  <2>4. QED  BY <1>5, <2>1, <2>3 DEF cap
<1>7. Lane!Refill(b) = [b EXCEPT !.tokens = tokens, !.last = clock]
  BY DEF Lane!Refill, more
<1> HIDE DEF tokens
<1>8. /\ Lane!Refill(b) \in BucketRecords /\ Lane!Refill(b).rate = b.rate /\ Lane!Refill(b).last = clock
      /\ Lane!Refill(b).tokens = tokens
  BY <1>6, <1>7 DEF BucketRecords
<1>9. QED  BY <1>6, <1>8 DEF more

LEMMA PacePoll ==
  ASSUME Lane!PacingAssumption, PaceInv, NEW s \in Lanes, Lane!Poll(s)
  PROVE  PaceInv'
<1> USE DEF PaceInv
<1> DEFINE r == turn[s].rate
           kept == {b \in bucket : b.rate = r}
           old == IF kept = {} THEN Lane!NewBucket(r) ELSE CHOOSE k \in kept : TRUE
           b == Lane!Refill(old)
           take == b.tokens >= 4
           waited == turn[s].waited + Lane!Delay(r)
           left == [b EXCEPT !.tokens = IF take THEN @ - 4 ELSE @]
           count == IF kept = {} THEN 0 ELSE mails
           since == IF kept = {} THEN clock ELSE born
<1>1. /\ turn[s].pc = "waiting" /\ bucket' = {left} /\ mails' = count + (IF take THEN 1 ELSE 0)
      /\ born' = since /\ UNCHANGED clock
      /\ turn' = [turn EXCEPT ![s] = IF take \/ waited > MaxWait THEN Lane!Idle
                                      ELSE [@ EXCEPT !.waited = waited, !.next = clock + Lane!Delay(r)]]
  BY DEF Lane!Poll
<1>2. r \in Rates /\ r \in Nat /\ clock \in Nat /\ count \in Nat /\ since \in Nat
  BY <1>1 DEF Lane!PacingAssumption
<1>3. /\ old \in BucketRecords /\ old.rate = r /\ since <= old.last /\ old.last <= clock
      /\ 4 * count + old.tokens <= Lane!Capacity(r) + r * (old.last - since)
  <2>1. CASE kept = {}
    <3>1. /\ old = [rate |-> r, tokens |-> Lane!Capacity(r), last |-> clock] /\ count = 0 /\ since = clock
          /\ Lane!Capacity(r) \in Nat
      BY <1>2, <2>1 DEF Lane!NewBucket, Lane!Capacity
    <3>2. r * (clock - clock) = 0
      BY <1>2
    <3>3. QED  BY <1>2, <3>1, <3>2 DEF BucketRecords
  <2>2. CASE kept # {}
    <3>1. old \in kept /\ count = mails /\ since = born
      BY <2>2
    <3>2. QED  BY <3>1 DEF Drawn
  <2>3. QED  BY <2>1, <2>2
<1>4. /\ b \in BucketRecords /\ b.rate = r /\ b.last = clock
      /\ b.tokens <= old.tokens + (clock - old.last) * r
  BY <1>2, <1>3, PaceRefill
<1>5. /\ r * (old.last - since) + (clock - old.last) * r = r * (clock - since)
      /\ r * (old.last - since) \in Nat /\ (clock - old.last) * r \in Nat /\ old.last \in Nat /\ old.tokens \in Nat
  BY <1>2, <1>3, PaceSpread DEF BucketRecords
<1> HIDE DEF old, count, since, r
<1>6. b.tokens \in Nat /\ Lane!Capacity(r) \in Nat
  BY <1>2, <1>4 DEF BucketRecords, Lane!Capacity
<1>7. 4 * count + b.tokens <= Lane!Capacity(r) + r * (clock - since)
  BY <1>2, <1>3, <1>4, <1>5, <1>6
<1> HIDE DEF b
<1>8. /\ left \in BucketRecords /\ left.rate = r /\ left.last = clock
      /\ left.tokens = IF take THEN b.tokens - 4 ELSE b.tokens
  BY <1>4, <1>6 DEF BucketRecords
<1> HIDE DEF left
<1>9. mails' \in Nat /\ 4 * mails' + left.tokens <= Lane!Capacity(r) + r * (clock - since)
  <2> DEFINE bound == Lane!Capacity(r) + r * (clock - since)
  <2>1. bound \in Nat
    <3>1. clock - since \in Nat /\ r * (clock - since) \in Nat
      BY <1>2, <1>3, <1>5
    <3>2. QED  BY <1>6, <3>1
  <2>2. 4 * count + b.tokens <= bound
    BY <1>7
  <2> HIDE DEF bound
  <2>3. mails' \in Nat /\ 4 * mails' + left.tokens <= bound
    BY <1>1, <1>2, <1>6, <1>8, <2>1, <2>2
  <2>4. QED  BY <2>3 DEF bound
<1>10. bucket' \subseteq BucketRecords /\ \A x \in bucket' : born' <= x.last /\ x.last <= clock' /\ Drawn(x)'
  BY <1>1, <1>2, <1>3, <1>8, <1>9 DEF Drawn, BucketRecords
<1>11. /\ turn' \in [Lanes -> [pc : {"idle", "waiting"}, rate : Rates \cup {0}, waited : Nat, next : Nat]]
       /\ \A x \in Lanes : turn'[x].pc = "waiting" => turn'[x].rate \in Rates
  <2>1. Lane!Delay(r) \in Nat /\ turn[s].rate \in Nat
    BY <1>2 DEF Lane!Delay, Lane!PacingAssumption, r
  <2> DEFINE wait == [turn[s] EXCEPT !.waited = waited, !.next = clock + Lane!Delay(r)]
             Turns == [pc : {"idle", "waiting"}, rate : Rates \cup {0}, waited : Nat, next : Nat]
  <2>2. waited \in Nat /\ clock + Lane!Delay(r) \in Nat
    BY <1>2, <2>1
  <2>3. wait \in Turns /\ wait.rate = turn[s].rate /\ Lane!Idle \in Turns /\ Lane!Idle.pc = "idle"
    BY <2>2 DEF Lane!Idle
  <2> HIDE DEF wait, Turns
  <2>4. turn' = [turn EXCEPT ![s] = IF take \/ waited > MaxWait THEN Lane!Idle ELSE wait] /\ turn \in [Lanes -> Turns]
    BY <1>1 DEF wait, Turns
  <2>5. turn' \in [Lanes -> Turns] /\ \A x \in Lanes : turn'[x].pc = "waiting" => turn'[x].rate \in Rates
    BY <1>2, <2>3, <2>4 DEF r
  <2>6. QED  BY <2>5 DEF Turns
<1>12. QED  BY <1>1, <1>2, <1>9, <1>10, <1>11

LEMMA PaceNext ==
  ASSUME Lane!PacingAssumption, PaceInv, [Lane!Next]_Lane!vars
  PROVE  PaceInv'
<1> USE DEF PaceInv
<1>1. CASE Lane!Tick
  <2>1. /\ clock' = clock + 1 /\ clock' \in Nat /\ UNCHANGED <<bucket, turn, mails, born>>
        /\ \A b \in bucket : b.last \in Nat
    BY <1>1 DEF Lane!Tick, BucketRecords
  <2>2. \A b \in bucket : b.last <= clock' /\ (Drawn(b) => Drawn(b)')
    BY <2>1 DEF Drawn
  <2>3. QED  BY <2>1, <2>2
<1>2. ASSUME NEW s \in Lanes, Lane!Resolve(s) PROVE PaceInv'
  <2>1. PICK r \in Rates : turn' = [turn EXCEPT ![s] = [Lane!Idle EXCEPT !.pc = "waiting", !.rate = r, !.next = clock]]
    BY <1>2 DEF Lane!Resolve
  <2> DEFINE new == [Lane!Idle EXCEPT !.pc = "waiting", !.rate = r, !.next = clock]
  <2>2. new \in [pc : {"idle", "waiting"}, rate : Rates \cup {0}, waited : Nat, next : Nat] /\ new.rate = r
    BY DEF Lane!Idle
  <2> HIDE DEF new
  <2>3. UNCHANGED <<clock, bucket, mails, born>> /\ turn' = [turn EXCEPT ![s] = new]
    BY <1>2, <2>1 DEF Lane!Resolve, new
  <2>4. QED  BY <2>2, <2>3 DEF Drawn
<1>3. CASE UNCHANGED Lane!Lane
  BY <1>3 DEF Lane!Lane, Drawn
<1>4. QED
  BY <1>1, <1>2, <1>3, PacePoll DEF Lane!Next, Lane!vars, Lane!Arrive, Lane!NextBatch, Lane!Lane

\* As long as the rate does not change, an account sends no more than its bucket
\* held at first and what the rate has added since.
THEOREM PacedAlways == ASSUME Lane!PacingAssumption PROVE Lane!Spec => []Lane!Paced
<1>1. Lane!Init => PaceInv
  BY DEF Lane!Init, PaceInv, Lane!Idle
<1>2. PaceInv /\ [Lane!Next]_Lane!vars => PaceInv'
  BY PaceNext
<1>3. ASSUME PaceInv PROVE Lane!Paced
  <2> SUFFICES ASSUME NEW b \in bucket PROVE 4 * mails <= Lane!Capacity(b.rate) + b.rate * (clock - born)
    BY DEF Lane!Paced
  <2>1. /\ b.rate \in Rates /\ b.tokens \in Nat /\ b.last \in Nat /\ clock \in Nat /\ born \in Nat /\ mails \in Nat
        /\ born <= b.last /\ b.last <= clock /\ Drawn(b)
    BY <1>3 DEF PaceInv, BucketRecords
  <2>2. /\ b.rate \in Nat /\ b.tokens \in Nat /\ b.last \in Nat /\ clock \in Nat /\ born \in Nat /\ mails \in Nat
        /\ born <= b.last /\ b.last <= clock /\ Drawn(b)
    BY <2>1 DEF Lane!PacingAssumption
  <2>3. b.rate * (b.last - born) <= b.rate * (clock - born) /\ b.rate * (b.last - born) \in Nat
    BY <2>2, PaceSpread
  <2>4. Lane!Capacity(b.rate) \in Nat /\ b.rate * (clock - born) \in Int
    BY <2>2 DEF Lane!Capacity
  <2>5. 4 * mails + b.tokens <= Lane!Capacity(b.rate) + b.rate * (b.last - born)
    BY <2>2 DEF Drawn
  <2>6. QED  BY <2>2, <2>3, <2>4, <2>5
<1>4. QED  BY <1>1, <1>2, <1>3, PTL DEF Lane!Spec

-----------------------------------------------------------------------------
(* Daily target *)

\* Whoever has come so far that it writes the summary writes the policy of a plan.
RateTypes ==
  /\ bust \in Nat /\ seen \in Nat /\ seen <= bust /\ dropped \in BOOLEAN
  /\ DOMAIN req = Requests /\ req = [r \in Requests |-> req[r]]
  /\ call = [c \in Calls |-> call[c]]
  /\ blind \in BOOLEAN /\ \A c \in Calls : call[c].failed \in BOOLEAN
  /\ \A r \in Requests : req[r].pc \notin {"idle", "planner"} => req[r].plan.policy # "none"
  /\ bust > 0 \/ (\E r \in Requests : req[r].pc = "bust") => summary.policy # "none"

\* Nobody is between the summary and its stamp, and a worker has seen the last.
UpToDate == seen = bust /\ bust > 0 /\ \A r \in Requests : req[r].pc # "bust"

\* Not only the cache is that of the last stamp, so is what calls are about to
\* fill it with, if they could read it.
Fresh ==
  UpToDate /\ dropped = FALSE =>
    /\ blind = FALSE => cache \subseteq {summary}
    /\ \A c \in Calls : call[c].pc = "pool" /\ call[c].failed = FALSE => call[c].value = summary

RateInv == RateTypes /\ Fresh

LEMMA RateInit ==
  ASSUME Daily!Init
  PROVE  RateInv
<1>1. /\ req = [r \in Requests |-> Daily!NoRequest] /\ call = [c \in Calls |-> Daily!NoCall]
      /\ bust = 0 /\ seen = 0 /\ dropped = FALSE /\ blind = FALSE
  BY DEF Daily!Init
<1>2. (\A r \in Requests : req[r].pc = "idle") /\ DOMAIN req = Requests
  BY <1>1 DEF Daily!NoRequest
<1>3. req = [r \in Requests |-> req[r]] /\ call = [c \in Calls |-> call[c]]
  BY <1>1
<1>4. bust = 0 /\ seen = 0 /\ dropped = FALSE
  BY <1>1
<1>5. RateTypes
  <2>1. dropped \in BOOLEAN
    BY Zenon, <1>4
  <2>7. blind \in BOOLEAN
    BY Zenon, <1>1
  <2>8. \A c \in Calls : call[c].failed \in BOOLEAN
    <3>1. Daily!NoCall.failed \in BOOLEAN
      BY Zenon DEF Daily!NoCall
    <3>2. QED  BY <1>1, <3>1
  <2>2. bust \in Nat /\ seen \in Nat /\ seen <= bust /\ ~(bust > 0)
    BY <1>4
  <2>3. ~\E r \in Requests : req[r].pc = "bust"
    BY <1>2
  <2>4. \A r \in Requests : req[r].pc \notin {"idle", "planner"} => req[r].plan.policy # "none"
    BY <1>2
  <2>5. bust > 0 \/ (\E r \in Requests : req[r].pc = "bust") => summary.policy # "none"
    BY <2>2, <2>3
  <2>6. QED  BY Zenon, <1>2, <1>3, <2>1, <2>2, <2>4, <2>5, <2>7, <2>8 DEF RateTypes
<1>6. QED  BY <1>4, <1>5 DEF RateInv, Fresh, UpToDate

\* The steps that leave requests, calls and the worker's copy alone.
LEMMA RateQuiet ==
  ASSUME RateInv, UNCHANGED <<summary, bust, req, seen, call, dropped, blind>>, cache' \in {cache, {}}
  PROVE  RateInv'
BY DEF RateInv, RateTypes, Fresh, UpToDate

\* A request's step, but for the two that write the summary and the stamp.
LEMMA RateRequest ==
  ASSUME RateInv, NEW r \in Requests, NEW next, req' = [req EXCEPT ![r] = next],
         next.pc \in {"idle", "planner", "rows", "pool", "lanes", "summary"},
         next.pc \in {"idle", "planner"} \/ next.plan.policy # "none", req[r].pc # "bust",
         UNCHANGED <<summary, bust, seen, call, cache, dropped, blind>>
  PROVE  RateInv'
<1>1. req'[r] = next /\ \A s \in Requests : s # r => req'[s] = req[s]
  BY DEF RateInv, RateTypes
<1>2. RateTypes'
  BY <1>1 DEF RateInv, RateTypes
<1>3. UpToDate' => UpToDate
  BY <1>1 DEF UpToDate
<1>4. Fresh'
  BY <1>3 DEF RateInv, Fresh
<1>5. QED  BY <1>2, <1>4 DEF RateInv

LEMMA RateApply ==
  ASSUME RateInv, NEW r \in Requests, Daily!Apply(r)
  PROVE  RateInv'
<1>1. CASE Daily!ApplyRow(r)
  <2> DEFINE next == [req[r] EXCEPT !.todo = @ \ {Daily!Min(req[r].todo)},
                        !.pc = IF req[r].todo = {Daily!Min(req[r].todo)} THEN "pool" ELSE "rows"]
  <2>1. req' = [req EXCEPT ![r] = next]
    BY <1>1 DEF Daily!ApplyRow
  <2>2. next.pc \in {"rows", "pool"} /\ next.plan = req[r].plan
    OBVIOUS
  <2> HIDE DEF next
  <2>3. req[r].pc = "rows" /\ next.plan.policy # "none"
    BY <1>1, <2>2 DEF Daily!ApplyRow, RateInv, RateTypes
  <2>4. UNCHANGED <<summary, bust, seen, call, cache, dropped, blind>>
    BY <1>1 DEF Daily!ApplyRow, Daily!Settings, Daily!Worker
  <2>5. QED  BY <2>1, <2>2, <2>3, <2>4, RateRequest
<1>2. CASE Daily!ApplyPool(r)
  <2> DEFINE next == [req[r] EXCEPT !.pc = "lanes"]
  <2>1. req' = [req EXCEPT ![r] = next] /\ next.pc = "lanes" /\ next.plan = req[r].plan
    BY <1>2 DEF Daily!ApplyPool
  <2> HIDE DEF next
  <2>2. UNCHANGED <<summary, bust, seen, call, cache, dropped, blind>> /\ req[r].pc = "pool"
    BY <1>2 DEF Daily!ApplyPool, Daily!Worker
  <2>3. next.plan.policy # "none"
    BY <2>1, <2>2 DEF RateInv, RateTypes
  <2>4. QED  BY <2>1, <2>2, <2>3, RateRequest
<1>3. CASE Daily!ApplyLanes(r)
  <2> DEFINE next == [req[r] EXCEPT !.pc = "summary"]
  <2>1. req' = [req EXCEPT ![r] = next] /\ next.pc = "summary" /\ next.plan = req[r].plan
    BY <1>3 DEF Daily!ApplyLanes
  <2> HIDE DEF next
  <2>2. UNCHANGED <<summary, bust, seen, call, cache, dropped, blind>> /\ req[r].pc = "lanes"
    BY <1>3 DEF Daily!ApplyLanes, Daily!Worker
  <2>3. next.plan.policy # "none"
    BY <2>1, <2>2 DEF RateInv, RateTypes
  <2>4. QED  BY <2>1, <2>2, <2>3, RateRequest
<1>4. CASE Daily!ApplySummary(r)
  <2> DEFINE next == [req[r] EXCEPT !.pc = "bust"]
  <2>1. req' = [req EXCEPT ![r] = next] /\ next.pc = "bust" /\ next.plan = req[r].plan
    BY <1>4 DEF Daily!ApplySummary
  <2> HIDE DEF next
  <2>2. req'[r] = next /\ \A s \in Requests : s # r => req'[s] = req[s]
    BY <2>1 DEF RateInv, RateTypes
  <2>3. req[r].plan.policy # "none" /\ summary'.policy = req[r].plan.policy
    BY <1>4 DEF Daily!ApplySummary, RateInv, RateTypes
  <2>4. RateTypes'
    BY <1>4, <2>1, <2>2, <2>3 DEF Daily!ApplySummary, Daily!Worker, RateInv, RateTypes
  <2>5. QED  BY <2>1, <2>2, <2>4 DEF RateInv, Fresh, UpToDate
<1>5. CASE Daily!ApplyBust(r)
  <2>1. req'[r].pc = "idle" /\ \A s \in Requests : s # r => req'[s] = req[s]
    BY <1>5 DEF Daily!ApplyBust, Daily!NoRequest, RateInv, RateTypes
  <2>2. summary.policy # "none"
    BY <1>5 DEF Daily!ApplyBust, RateInv, RateTypes
  <2>3. RateTypes'
    BY <1>5, <2>1, <2>2 DEF Daily!ApplyBust, Daily!Worker, RateInv, RateTypes
  <2>4. seen' # bust'
    BY <1>5 DEF Daily!ApplyBust, Daily!Worker, RateInv, RateTypes
  <2>5. QED  BY <2>3, <2>4 DEF RateInv, Fresh, UpToDate
<1>6. CASE Daily!RatePlannerWrite(r)
  <2>1. /\ req' = [req EXCEPT ![r] = Daily!NoRequest] /\ req[r].pc # "bust"
        /\ UNCHANGED <<summary, bust, seen, call, cache, dropped, blind>>
    BY <1>6 DEF Daily!RatePlannerWrite, Daily!Settings, Daily!Worker
  <2>2. Daily!NoRequest.pc = "idle"
    BY DEF Daily!NoRequest
  <2>3. QED  BY <2>1, <2>2, RateRequest
<1>7. QED  BY <1>1, <1>2, <1>3, <1>4, <1>5, <1>6 DEF Daily!Apply

LEMMA RatePlannerReads ==
  ASSUME RateInv, NEW r \in Requests, NEW target, Daily!RatePlanner(r, target)
  PROVE  RateInv'
<1> DEFINE next == [Daily!NoRequest EXCEPT !.pc = "planner",
                      !.plan = [Daily!NoPlan EXCEPT !.on = Daily!Qualify, !.target = target]]
<1>1. req' = [req EXCEPT ![r] = next] /\ next.pc = "planner"
  BY DEF Daily!RatePlanner, Daily!NoRequest
<1> HIDE DEF next
<1>2. req[r].pc # "bust" /\ UNCHANGED <<summary, bust, seen, call, cache, dropped, blind>>
  BY DEF Daily!RatePlanner, Daily!Settings, Daily!Worker
<1>3. QED  BY <1>1, <1>2, RateRequest

LEMMA RateApplyRead ==
  ASSUME Daily!RateAssumption, RateInv, NEW r \in Requests, NEW p \in Plans, Daily!ApplyRead(r, p)
  PROVE  RateInv'
<1> DEFINE on == Daily!Usable(p)
           next == [pc |-> "rows", todo |-> on, old |-> {acct}, plan |->
                      [p EXCEPT !.on = on, !.per = Daily!PerSmtp(p.target, Daily!Cardinality(on))]]
<1>1. req' = [req EXCEPT ![r] = next]
  BY DEF Daily!ApplyRead
<1>2. next.pc = "rows" /\ next.plan.policy = p.policy
  BY DEF Daily!RateAssumption
<1> HIDE DEF next
<1>3. QED  BY <1>1, <1>2, RateRequest DEF Daily!ApplyRead, Daily!Settings, Daily!Worker, Daily!RateAssumption

LEMMA RateResolve ==
  ASSUME RateInv, NEW c \in Calls, Daily!Resolve(c)
  PROVE  RateInv'
<1> USE DEF RateInv
<1>1. /\ UNCHANGED <<summary, bust, req>> /\ seen' \in {seen, bust} /\ seen' \in Nat /\ seen' <= bust'
      /\ dropped' \in BOOLEAN /\ UpToDate' => bust > 0 /\ \A r \in Requests : req[r].pc # "bust"
  BY DEF Daily!Resolve, Daily!Call, Daily!ReadBust, Daily!ReadSummary, Daily!ReadPool, Daily!Settings, RateTypes, UpToDate
<1>2. CASE Daily!Call(c)
  <2>1. PICK next \in {"bust", "summary"} : call' = [call EXCEPT ![c].pc = next]
    BY <1>2 DEF Daily!Call
  <2>2. \A d \in Calls : call'[d].pc = "pool" => call'[d] = call[d]
    BY <2>1 DEF RateTypes
  <2>3. QED  BY <1>1, <1>2, <2>1, <2>2 DEF Daily!Call, RateTypes, Fresh, UpToDate
<1>3. CASE Daily!ReadBust(c)
  <2>1. \A d \in Calls : call'[d].pc = "pool" => call'[d] = call[d] /\ d # c
    BY <1>3 DEF Daily!ReadBust, RateTypes
  <2>2. \A d \in Calls : call'[d].failed \in BOOLEAN
    BY <1>3 DEF Daily!ReadBust, RateTypes
  <2>3. RateTypes'
    BY <1>1, <1>3, <2>2 DEF Daily!ReadBust, RateTypes
  <2>4. PICK new \in BOOLEAN :
          /\ seen' = IF new THEN bust ELSE seen
          /\ cache' = IF new THEN {} ELSE cache
          /\ dropped' = (dropped \/ (new /\ \E d \in Calls \ {c} : call[d].pc = "pool"))
    BY <1>3 DEF Daily!ReadBust
  <2>5. CASE new = TRUE
    <3>1. dropped' = FALSE => \A d \in Calls \ {c} : call[d].pc # "pool"
      BY <2>4, <2>5
    <3>2. cache' = {}
      BY <2>4, <2>5
    <3>3. QED  BY <2>1, <2>3, <3>1, <3>2 DEF Fresh
  <2>6. CASE new = FALSE
    <3>1. UNCHANGED <<seen, cache, blind>> /\ (dropped' = FALSE => dropped = FALSE)
      BY <1>3, <2>4, <2>6 DEF Daily!ReadBust, RateTypes
    <3>2. QED  BY <1>1, <2>1, <2>3, <3>1 DEF Fresh, UpToDate
  <2>7. QED  BY <2>5, <2>6
<1>4. CASE Daily!ReadSummary(c)
  <2>1. PICK failed \in BOOLEAN :
          call' = [call EXCEPT ![c] =
                     [pc |-> "pool", value |-> IF failed THEN Daily!NoValue ELSE summary, failed |-> failed]]
    BY <1>4 DEF Daily!ReadSummary
  <2>2. /\ call'[c].failed = failed /\ (failed = FALSE => call'[c].value = summary)
        /\ \A d \in Calls : d # c => call'[d] = call[d]
    BY <2>1 DEF RateTypes
  <2>3. RateTypes'
    BY <1>1, <1>4, <2>1, <2>2 DEF Daily!ReadSummary, RateTypes
  <2>4. QED  BY <1>1, <1>4, <2>2, <2>3 DEF Daily!ReadSummary, Fresh, UpToDate
<1>5. CASE Daily!ReadPool(c)
  <2>1. call'[c].pc # "pool" /\ call'[c].failed \in BOOLEAN /\ \A d \in Calls : d # c => call'[d] = call[d]
    BY <1>5 DEF Daily!ReadPool, Daily!NoCall, RateTypes
  <2>2. blind' = call[c].failed /\ call[c].pc = "pool"
    BY <1>5 DEF Daily!ReadPool
  <2>3. UpToDate /\ dropped = FALSE /\ blind' = FALSE => cache' = {summary}
    <3>1. SUFFICES ASSUME UpToDate, dropped = FALSE, call[c].failed = FALSE PROVE cache' = {summary}
      BY <2>2
    <3>2. call[c].value = summary
      BY <2>2, <3>1 DEF Fresh
    <3>3. summary # Daily!NoValue
      BY <3>1 DEF UpToDate, RateTypes, Daily!NoValue
    <3>4. QED  BY <1>5, <3>2, <3>3 DEF Daily!ReadPool
  <2>4. RateTypes'
    BY <1>1, <1>5, <2>1, <2>2 DEF Daily!ReadPool, RateTypes
  <2>5. QED  BY <1>1, <1>5, <2>1, <2>3, <2>4 DEF Daily!ReadPool, Fresh, UpToDate
<1>6. QED  BY <1>2, <1>3, <1>4, <1>5 DEF Daily!Resolve

LEMMA RateNext ==
  ASSUME Daily!RateAssumption, RateInv, [Daily!Next]_Daily!vars
  PROVE  RateInv'
<1>1. ASSUME NEW r \in Requests, NEW p \in Plans, Daily!RatePlanner(r, p.target) PROVE RateInv'
  BY <1>1, RatePlannerReads
<1>2. CASE Daily!PatchPool \/ Daily!CacheExpires
  BY <1>2, RateQuiet DEF Daily!PatchPool, Daily!CacheExpires, Daily!Settings, Daily!Worker
<1>3. ASSUME NEW a \in Aimed, Daily!Change(a) PROVE RateInv'
  BY <1>3, RateQuiet DEF Daily!Change, Daily!Settings, Daily!Worker
<1>4. CASE UNCHANGED Daily!vars
  BY <1>4, RateQuiet DEF Daily!vars
<1>5. QED  BY <1>1, <1>2, <1>3, <1>4, RateApply, RateApplyRead, RateResolve DEF Daily!Next

\* A worker that has seen the last stamp of a daily target sends by no older
\* summary, unless its copy was emptied while another call was filling it, or was
\* filled although the summary could not be read.
THEOREM RateSeenMeansFresh ==
  ASSUME Daily!RateAssumption PROVE Daily!Spec => []Daily!SeenMeansFresh
<1>1. RateInv => Daily!SeenMeansFresh
  BY DEF RateInv, Fresh, UpToDate, RateTypes, Daily!SeenMeansFresh
<1>2. QED  BY <1>1, RateInit, RateNext, PTL DEF Daily!Spec

-----------------------------------------------------------------------------
(* Creation of campaigns *)

\* The queries that the campaign may have been created with.
Created == CASE post.target = "segment" -> held [] post.target = "query" -> {post.query} [] OTHER -> {"none"}
Imported == {r \in Receivers : campaign.rows[r] # 0}

CreateTypes ==
  /\ post.target \in {"list", "segment", "query"} /\ post.query \in DOMAIN Target
  /\ held \subseteq DOMAIN Target /\ segment.query \in DOMAIN Target
  /\ read = [ids |-> read.ids, query |-> read.query, cursor |-> read.cursor, inserted |-> read.inserted]
  /\ campaign = [made |-> campaign.made, list |-> campaign.list, seg |-> campaign.seg, query |-> campaign.query,
                 primary |-> campaign.primary, status |-> campaign.status, pool |-> campaign.pool, rows |-> campaign.rows]
  /\ campaign.made \in BOOLEAN /\ campaign.list \in BOOLEAN
  /\ campaign.rows = [r \in Receivers |-> campaign.rows[r]]
  /\ segment = [there |-> segment.there, archived |-> segment.archived, query |-> segment.query,
                based |-> segment.based, matched |-> segment.matched]

\* Before there is a campaign the segment's query is one of those that it had.
Origin ==
  /\ campaign.made = FALSE => segment.query \in held /\ Imported = {}
  /\ pc = "insert" => read.query \in Created
  /\ campaign.made = TRUE => campaign.query \in Created
  /\ campaign.list = TRUE => post.target = "list"
  /\ pc \in {"accounts", "eligible", "import", "count", "launch"} /\ post.target # "list" => read.query \in Created
  /\ post.target # "list" => Imported \subseteq UNION {Target[q] : q \in Created}
  /\ campaign.status = "running" => Imported # {}
  /\ pc \in {"idle", "accounts", "eligible", "import", "count", "launch"} => campaign.made = TRUE
  /\ pc \in {"check", "all", "rows", "insert"} => campaign.made = FALSE

\* The external API: it answers at its end, and imports just before that.
Answered ==
  post.external =>
    /\ answer # "none" => pc = "end"
    /\ pc \notin {"import", "count", "launch", "end"} => Imported = {}
    /\ campaign.status = "running" <=> pc = "launch" \/ answer \in Create!Ran
    /\ answer \notin {"none", "db_insert_failed"} \cup Create!Ran => Imported = {}

CreateInv == CreateTypes /\ Origin /\ Answered

LEMMA CreateInit ==
  ASSUME Create!CreationAssumption, Create!Init
  PROVE  CreateInv
<1>1. PICK s \in Situations : segment = s.segment
  BY DEF Create!Init
<1>2. /\ post \in Posts /\ pc \in {"check", "all"} /\ read = Create!Unread /\ campaign = Create!Unmade /\ held = {segment.query}
  BY DEF Create!Init
<1>3. post.target \in {"list", "segment", "query"} /\ post.query \in DOMAIN Target /\ segment.query \in DOMAIN Target
  BY <1>1, <1>2 DEF Create!CreationAssumption
<1>4. /\ campaign.made = FALSE /\ campaign.list = FALSE /\ campaign.status = "pending"
      /\ campaign.rows = [r \in Receivers |-> 0]
      /\ campaign = [made |-> campaign.made, list |-> campaign.list, seg |-> campaign.seg, query |-> campaign.query,
                 primary |-> campaign.primary, status |-> campaign.status, pool |-> campaign.pool, rows |-> campaign.rows]
  BY <1>2 DEF Create!Unmade
<1>5. read = [ids |-> read.ids, query |-> read.query, cursor |-> read.cursor, inserted |-> read.inserted]
  BY <1>2 DEF Create!Unread
<1>6. Imported = {}
  BY <1>4 DEF Imported
<1>7. campaign.made \in BOOLEAN /\ campaign.list \in BOOLEAN /\ campaign.made # TRUE /\ campaign.list # TRUE
  BY Zenon, <1>4
<1>8. campaign.rows = [r \in Receivers |-> campaign.rows[r]]
  BY <1>4
<1>9. segment = [there |-> segment.there, archived |-> segment.archived, query |-> segment.query,
                based |-> segment.based, matched |-> segment.matched]
  BY <1>1 DEF Create!CreationAssumption
<1>10. CreateTypes
  BY <1>2, <1>3, <1>4, <1>5, <1>7, <1>8, <1>9 DEF CreateTypes
<1>11. Origin
  BY <1>2, <1>4, <1>6, <1>7 DEF Origin
<1>12. answer = "none"
  BY DEF Create!Init
<1>13. Answered
  BY <1>2, <1>4, <1>6, <1>12 DEF Answered, Create!Ran
<1>14. QED  BY <1>10, <1>11, <1>13 DEF CreateInv

\* What a change to the campaign that leaves its rows alone keeps.
LEMMA CreateSameRows ==
  ASSUME UNCHANGED <<campaign>>
  PROVE  Imported' = Imported
BY DEF Imported

LEMMA CreateChanges ==
  ASSUME Create!CreationAssumption, CreateInv,
         \/ \E a \in Senders : Create!ChangeAccount(a)
         \/ Create!AskDrop \/ \E r \in Receivers : Create!Suppress(r)
  PROVE  CreateInv'
<1>1. UNCHANGED <<post, pc, read, answer, campaign, held, segment>>
  BY DEF Create!ChangeAccount, Create!AskDrop, Create!Suppress, Create!Change
<1>2. Imported' = Imported /\ Created' = Created
  BY <1>1 DEF Imported, Created
<1>3. QED
  BY <1>1, <1>2 DEF CreateInv, CreateTypes, Origin, Answered, Create!Ran

LEMMA CreateSegment ==
  ASSUME Create!CreationAssumption, CreateInv, Create!PatchSegment \/ Create!Recount
  PROVE  CreateInv'
<1>1. UNCHANGED <<post, pc, read, answer, campaign>>
  BY DEF Create!PatchSegment, Create!Recount, Create!ChangeSegment, Create!Change
<1>2. held' = held \cup (IF campaign.made THEN {} ELSE {segment'.query})
  BY DEF Create!PatchSegment, Create!Recount, Create!ChangeSegment
<1>3. /\ segment'.query \in DOMAIN Target
      /\ segment' = [there |-> segment'.there, archived |-> segment'.archived, query |-> segment'.query,
                     based |-> segment'.based, matched |-> segment'.matched]
  <2>1. CASE \E q \in DOMAIN Target \ {segment.query} : segment' = [segment EXCEPT !.query = q]
    BY <2>1 DEF CreateInv, CreateTypes
  <2>2. CASE segment' = [segment EXCEPT !.archived = ~@]
    BY <2>2 DEF CreateInv, CreateTypes
  <2>3. CASE segment' = [segment EXCEPT !.matched = Create!Cardinality(Target[segment.query])]
    BY <2>3 DEF CreateInv, CreateTypes
  <2>4. QED  BY <2>1, <2>2, <2>3 DEF Create!PatchSegment, Create!Recount
<1>4. held \subseteq held' /\ held' \subseteq DOMAIN Target /\ Created \subseteq Created' /\ Imported' = Imported
  BY <1>1, <1>2, <1>3 DEF CreateInv, CreateTypes, Created, Imported
<1>5. campaign.made = FALSE => segment'.query \in held'
  BY <1>2
<1>6. UNION {Target[q] : q \in Created} \subseteq UNION {Target[q] : q \in Created'}
  BY <1>4
<1>7. CreateTypes'
  BY <1>1, <1>3, <1>4 DEF CreateInv, CreateTypes
<1>8. Origin'
  BY <1>1, <1>4, <1>5, <1>6 DEF CreateInv, Origin
<1>9. Answered'
  BY <1>1, <1>4 DEF CreateInv, Answered, Create!Ran
<1>10. QED  BY <1>7, <1>8, <1>9 DEF CreateInv

LEMMA CreateDrops ==
  ASSUME Create!CreationAssumption, CreateInv, Create!Drop \/ Create!DropList
  PROVE  CreateInv'
<1>1. UNCHANGED <<post, pc, read, answer, held>>
  BY DEF Create!Drop, Create!DropList, Create!Change
<1>2. /\ segment'.query = segment.query
      /\ segment' = [there |-> segment'.there, archived |-> segment'.archived, query |-> segment'.query,
                     based |-> segment'.based, matched |-> segment'.matched]
  BY DEF Create!Drop, Create!DropList, CreateInv, CreateTypes
<1>3. /\ campaign' = [made |-> campaign'.made, list |-> campaign'.list, seg |-> campaign'.seg, query |-> campaign'.query,
                 primary |-> campaign'.primary, status |-> campaign'.status, pool |-> campaign'.pool, rows |-> campaign'.rows]
      /\ campaign'.made = campaign.made /\ campaign'.query = campaign.query /\ campaign'.status = campaign.status
      /\ campaign'.rows = campaign.rows
  BY DEF Create!Drop, Create!DropList, CreateInv, CreateTypes
<1>4. campaign'.list = campaign.list \/ campaign'.list = FALSE
  BY DEF Create!Drop, Create!DropList, CreateInv, CreateTypes
<1>5. campaign'.list \in BOOLEAN /\ (campaign'.list = TRUE => campaign.list = TRUE)
  BY Zenon, <1>4 DEF CreateInv, CreateTypes
<1>6. Imported' = Imported /\ Created' = Created
  BY <1>1, <1>3 DEF Imported, Created
<1>7. CreateTypes'
  BY <1>1, <1>2, <1>3, <1>5 DEF CreateInv, CreateTypes
<1>8. Origin'
  BY <1>1, <1>2, <1>3, <1>5, <1>6 DEF CreateInv, Origin
<1>9. Answered'
  BY <1>1, <1>3, <1>6 DEF CreateInv, Answered, Create!Ran
<1>10. QED  BY <1>7, <1>8, <1>9 DEF CreateInv

LEMMA CreateReads ==
  ASSUME Create!CreationAssumption, CreateInv, Create!Check \/ Create!ReadAll \/ Create!ReadRows
  PROVE  CreateInv'
<1>1. UNCHANGED <<post, campaign, held, segment>> /\ pc \in {"check", "all", "rows"}
  BY DEF Create!Check, Create!ReadAll, Create!ReadRows, Create!World
<1>2. Imported' = Imported /\ Created' = Created /\ Imported = {} /\ campaign.made = FALSE
  BY <1>1 DEF Imported, Created, CreateInv, Origin
<1>3. /\ read' = [ids |-> read'.ids, query |-> read'.query, cursor |-> read'.cursor, inserted |-> read'.inserted]
      /\ pc' = "insert" => read'.query \in Created
      /\ pc' \in {"check", "all", "rows", "insert", "end"}
      /\ answer' # answer => pc' = "end" /\ answer' \notin {"none"} \cup Create!Ran
  <2>1. CASE Create!Check
    BY <2>1, <1>2 DEF Create!Check, Create!Refuse, Create!Ran, CreateInv, CreateTypes
  <2>2. CASE Create!ReadAll
    BY <2>2 DEF Create!ReadAll, CreateInv, CreateTypes
  <2>3. CASE Create!ReadRows
    <3>1. CASE UNCHANGED read /\ pc' = "end" /\ answer' \notin {"none"} \cup Create!Ran
      BY <3>1 DEF CreateInv, CreateTypes
    <3>2. CASE /\ pc' = "insert" /\ answer' = answer
               /\ read' = [read EXCEPT !.ids = Create!SelectSeq(read.ids, Create!Eligible),
                            !.query = CASE post.target = "segment" -> segment.query
                                        [] post.target = "query" -> post.query
                                        [] OTHER -> "none"]
      BY <3>2, <1>2 DEF CreateInv, CreateTypes, Origin, Created
    <3>3. QED  BY <2>3, <1>2, <3>1, <3>2 DEF Create!ReadRows, Create!Refuse, Create!Ran
  <2>4. QED  BY <2>1, <2>2, <2>3
<1>4. CreateTypes'
  BY <1>1, <1>3 DEF CreateInv, CreateTypes
<1>5. Origin'
  BY <1>1, <1>2, <1>3 DEF CreateInv, Origin
<1>6. Answered'
  BY <1>1, <1>2, <1>3 DEF CreateInv, Answered, Create!Ran
<1>7. QED  BY <1>4, <1>5, <1>6 DEF CreateInv

LEMMA CreateInsert ==
  ASSUME Create!CreationAssumption, CreateInv, Create!Insert
  PROVE  CreateInv'
<1>1. UNCHANGED <<post, held, segment>> /\ pc = "insert" /\ pc' \in {"idle", "end"}
  BY DEF Create!Insert, Create!World, Create!Refuse
<1>2. Created' = Created /\ Imported = {} /\ campaign.made = FALSE /\ read.query \in Created
  BY <1>1 DEF Created, CreateInv, Origin
<1>3. CASE UNCHANGED <<campaign, read>> /\ pc' = "end" /\ answer' = "error"
  <2>1. Imported' = Imported
    BY <1>3 DEF Imported
  <2>2. QED
    BY <1>1, <1>2, <1>3, <2>1 DEF CreateInv, CreateTypes, Origin, Answered, Create!Ran
<1>4. CASE /\ campaign' = [campaign EXCEPT !.made = TRUE, !.list = post.target = "list",
                !.seg = post.target = "segment", !.query = read.query, !.primary = read.ids[1],
                !.pool = read.ids, !.status = IF post.later THEN "queued" ELSE "pending"]
           /\ pc' = "idle" /\ read' = Create!Unread /\ UNCHANGED answer
  <2>1. /\ campaign' = [made |-> campaign'.made, list |-> campaign'.list, seg |-> campaign'.seg, query |-> campaign'.query,
                   primary |-> campaign'.primary, status |-> campaign'.status, pool |-> campaign'.pool, rows |-> campaign'.rows]
        /\ campaign'.query = read.query /\ campaign'.status \in {"queued", "pending"} /\ campaign'.rows = campaign.rows
    BY <1>4 DEF CreateInv, CreateTypes
  <2>2. campaign'.made = TRUE /\ campaign'.list = (post.target = "list")
    BY <1>4 DEF CreateInv, CreateTypes
  <2>3. campaign'.made \in BOOLEAN /\ campaign'.list \in BOOLEAN /\ campaign'.made # FALSE
        /\ (campaign'.list = TRUE => post.target = "list")
    BY Zenon, <2>2
  <2>4. Imported' = Imported
    BY <2>1 DEF Imported
  <2>5. read' = [ids |-> read'.ids, query |-> read'.query, cursor |-> read'.cursor, inserted |-> read'.inserted]
    BY <1>4 DEF Create!Unread
  <2>6. CreateTypes'
    BY <1>1, <2>1, <2>3, <2>5 DEF CreateInv, CreateTypes
  <2>7. Origin'
    BY <1>1, <1>2, <1>4, <2>1, <2>2, <2>3, <2>4 DEF Origin
  <2>8. Answered'
    BY <1>1, <1>2, <1>4, <2>1, <2>4 DEF CreateInv, Answered, Create!Ran
  <2>9. QED  BY <2>6, <2>7, <2>8 DEF CreateInv
<1>5. QED  BY <1>1, <1>2, <1>3, <1>4 DEF Create!Insert, Create!Refuse

LEMMA CreateStart ==
  ASSUME Create!CreationAssumption, CreateInv, Create!Start
  PROVE  CreateInv'
<1>1. UNCHANGED <<post, held, segment, campaign>> /\ pc = "idle" /\ campaign.made = TRUE /\ campaign.status # "running"
  BY DEF Create!Start, Create!World, CreateInv, CreateTypes
<1>2. Created' = Created /\ Imported' = Imported /\ campaign.query \in Created
  BY <1>1 DEF Created, Imported, CreateInv, Origin
<1>3. CASE Create!Refuse("campaign_target_required") /\ UNCHANGED read
  <2>1. answer' = "campaign_target_required" /\ pc' \in {"idle", "end"} /\ (post.external => pc' = "end")
    BY <1>3 DEF Create!Refuse
  <2>2. CreateTypes'
    BY <1>1, <1>3 DEF CreateInv, CreateTypes
  <2>3. Origin'
    BY <1>1, <1>2, <2>1 DEF CreateInv, Origin
  <2>4. Answered'
    BY <1>1, <1>2, <2>1 DEF CreateInv, Answered, Create!Ran
  <2>5. QED  BY <2>2, <2>3, <2>4 DEF CreateInv
<1>4. CASE /\ pc' = "accounts" /\ answer' = "none"
           /\ read' = [Create!Unread EXCEPT !.query = IF campaign.list THEN "list" ELSE campaign.query]
  <2>1. read' = [ids |-> read'.ids, query |-> read'.query, cursor |-> read'.cursor, inserted |-> read'.inserted]
        /\ read'.query = IF campaign.list THEN "list" ELSE campaign.query
    BY <1>4 DEF Create!Unread
  <2>2. post.target # "list" => read'.query \in Created
    BY <1>2, <2>1 DEF CreateInv, CreateTypes, Origin
  <2>3. CreateTypes'
    BY <1>1, <2>1 DEF CreateInv, CreateTypes
  <2>4. Origin'
    BY <1>1, <1>2, <1>4, <2>2 DEF CreateInv, Origin
  <2>5. Answered'
    BY <1>1, <1>2, <1>4 DEF CreateInv, Answered, Create!Ran
  <2>6. QED  BY <2>3, <2>4, <2>5 DEF CreateInv
<1>5. QED  BY <1>3, <1>4 DEF Create!Start

LEMMA CreatePick ==
  ASSUME Create!CreationAssumption, CreateInv, Create!Configured \/ Create!Pick
  PROVE  CreateInv'
<1>1. UNCHANGED <<post, held, segment>> /\ pc \in {"accounts", "eligible"} /\ campaign.made = TRUE
  BY DEF Create!Configured, Create!Pick, Create!World, CreateInv, CreateTypes, Origin
<1>2. /\ read' = [ids |-> read'.ids, query |-> read'.query, cursor |-> read'.cursor, inserted |-> read'.inserted]
      /\ read'.query = read.query
  BY DEF Create!Configured, Create!Pick, CreateInv, CreateTypes
<1>3. /\ campaign' = [made |-> campaign'.made, list |-> campaign'.list, seg |-> campaign'.seg, query |-> campaign'.query,
                 primary |-> campaign'.primary, status |-> campaign'.status, pool |-> campaign'.pool, rows |-> campaign'.rows]
      /\ campaign'.made = campaign.made /\ campaign'.list = campaign.list /\ campaign'.query = campaign.query
      /\ campaign'.rows = campaign.rows
      /\ campaign'.status \in {campaign.status, "queued"}
  BY DEF Create!Configured, Create!Pick, CreateInv, CreateTypes
<1>4. Created' = Created /\ Imported' = Imported
  BY <1>1, <1>3 DEF Created, Imported
<1>5. /\ pc' \in {"eligible", "import", "idle", "end"}
      /\ answer' = answer \/ answer' = "no_smtp_accounts"
      /\ pc' = "end" => answer' = "no_smtp_accounts"
      /\ post.external /\ answer' # answer => pc' = "end"
  BY DEF Create!Configured, Create!Pick, Create!Refuse
<1>6. CreateTypes'
  BY <1>1, <1>2, <1>3 DEF CreateInv, CreateTypes
<1>7. Origin'
  BY <1>1, <1>2, <1>3, <1>4, <1>5 DEF CreateInv, Origin
<1>8. Answered'
  BY <1>1, <1>3, <1>4, <1>5 DEF CreateInv, Answered, Create!Ran
<1>9. QED  BY <1>6, <1>7, <1>8 DEF CreateInv

LEMMA CreateImport ==
  ASSUME Create!CreationAssumption, CreateInv, Create!Import
  PROVE  CreateInv'
<1>1. UNCHANGED <<post, held, segment, answer>> /\ pc = "import" /\ campaign.made = TRUE /\ Created' = Created
  BY DEF Create!Import, Create!World, CreateInv, CreateTypes, Origin, Created
<1>2. CASE pc' = "count" /\ UNCHANGED <<campaign, read>>
  <2>1. Imported' = Imported
    BY <1>2 DEF Imported
  <2>2. CreateTypes'
    BY <1>1, <1>2 DEF CreateInv, CreateTypes
  <2>3. Origin'
    BY <1>1, <1>2, <2>1 DEF CreateInv, Origin
  <2>4. Answered'
    BY <1>1, <1>2, <2>1 DEF CreateInv, Answered
  <2>5. QED  BY <2>2, <2>3, <2>4 DEF CreateInv
<1>3. CASE UNCHANGED pc
  <2>1. PICK new, rows, n, c :
          /\ new \subseteq Create!Page /\ \A r \in new : campaign.rows[r] = 0
          /\ campaign' = [campaign EXCEPT !.rows = [r \in Receivers |-> IF r \in new THEN rows[r] ELSE @[r]]]
          /\ read' = [read EXCEPT !.cursor = c, !.inserted = n]
    <3>1. pc' # "count"
      BY <1>1, <1>3
    <3> DEFINE Candidates == Create!Page \ suppressed
               New == {r \in Candidates : campaign.rows[r] = 0}
               Given == Create!RowsOf(Candidates)
               Last == Create!Max(Create!Page)
               Total == read.inserted + Create!Cardinality(New)
    <3>2. /\ campaign' = [campaign EXCEPT !.rows = [r \in Receivers |-> IF r \in New THEN Given[r] ELSE @[r]]]
          /\ read' = [read EXCEPT !.cursor = Last, !.inserted = Total]
      BY <3>1 DEF Create!Import
    <3>3. New \subseteq Create!Page /\ \A r \in New : campaign.rows[r] = 0
      OBVIOUS
    <3> HIDE DEF New, Given, Last, Total
    <3>4. QED  BY <3>2, <3>3
  <2>2. /\ read' = [ids |-> read'.ids, query |-> read'.query, cursor |-> read'.cursor, inserted |-> read'.inserted]
        /\ read'.query = read.query
    BY <2>1 DEF CreateInv, CreateTypes
  <2>3. /\ campaign' = [made |-> campaign'.made, list |-> campaign'.list, seg |-> campaign'.seg, query |-> campaign'.query,
                   primary |-> campaign'.primary, status |-> campaign'.status, pool |-> campaign'.pool, rows |-> campaign'.rows]
        /\ campaign'.made = campaign.made /\ campaign'.list = campaign.list /\ campaign'.query = campaign.query
        /\ campaign'.status = campaign.status
        /\ campaign'.rows = [r \in Receivers |-> IF r \in new THEN rows[r] ELSE campaign.rows[r]]
    BY <2>1 DEF CreateInv, CreateTypes
  <2>4. Imported \subseteq Imported' /\ Imported' \subseteq Imported \cup new
    BY <2>1, <2>3 DEF Imported
  <2>5. post.target # "list" => new \subseteq Target[read.query]
    <3>1. SUFFICES ASSUME post.target # "list" PROVE Create!Page \subseteq Target[read.query]
      BY <2>1
    <3>2. read.query \in Created /\ Created \subseteq DOMAIN Target
      BY <1>1, <3>1 DEF CreateInv, Origin, CreateTypes, Created
    <3>3. read.query # "list"
      BY <3>2 DEF Create!CreationAssumption
    <3>4. QED  BY <3>3 DEF Create!Page, Create!Members
  <2>6. post.target # "list" => Imported' \subseteq UNION {Target[q] : q \in Created}
    BY <1>1, <2>4, <2>5 DEF CreateInv, Origin
  <2>7. campaign'.rows = [r \in Receivers |-> campaign'.rows[r]]
    BY <2>3
  <2>8. CreateTypes'
    BY <1>1, <2>2, <2>3, <2>7 DEF CreateInv, CreateTypes
  <2>9. Origin'
    BY <1>1, <1>3, <2>2, <2>3, <2>4, <2>6 DEF CreateInv, CreateTypes, Origin
  <2>10. Answered'
    BY <1>1, <1>3, <2>3 DEF CreateInv, Answered
  <2>11. QED  BY <2>8, <2>9, <2>10 DEF CreateInv
<1>4. QED  BY <1>2, <1>3 DEF Create!Import

LEMMA CreateEnds ==
  ASSUME Create!CreationAssumption, CreateInv, Create!ImportFails \/ Create!Count \/ Create!Launch
  PROVE  CreateInv'
<1>1. /\ UNCHANGED <<post, held, segment, read>> /\ pc \in {"import", "count", "launch"} /\ campaign.made = TRUE
      /\ Created' = Created
  BY DEF Create!ImportFails, Create!Count, Create!Launch, Create!World, CreateInv, CreateTypes, Origin, Created
<1>2. /\ campaign' = [made |-> campaign'.made, list |-> campaign'.list, seg |-> campaign'.seg, query |-> campaign'.query,
                 primary |-> campaign'.primary, status |-> campaign'.status, pool |-> campaign'.pool, rows |-> campaign'.rows]
      /\ campaign'.made = campaign.made /\ campaign'.list = campaign.list /\ campaign'.query = campaign.query
      /\ campaign'.rows = campaign.rows
  BY DEF Create!ImportFails, Create!Count, Create!Launch, CreateInv, CreateTypes
<1>3. Imported' = Imported
  BY <1>2 DEF Imported
<1>4. \/ /\ pc \in {"import", "count"} /\ answer' = "db_insert_failed" /\ campaign'.status = campaign.status
         /\ pc' \in {"idle", "end"} /\ (post.external => pc' = "end")
      \/ /\ pc = "count" /\ answer' = "no_recipients" /\ campaign'.status = campaign.status /\ Imported = {}
         /\ pc' \in {"idle", "end"} /\ (post.external => pc' = "end")
      \/ /\ pc = "count" /\ answer' = answer /\ campaign'.status = "running" /\ Imported # {} /\ pc' = "launch"
      \/ /\ pc = "launch" /\ answer' \in Create!Ran /\ campaign'.status = campaign.status
         /\ pc' \in {"idle", "end"} /\ (post.external => pc' = "end")
  BY DEF Create!ImportFails, Create!Count, Create!Launch, Create!Refuse, Create!Ran, CreateInv, CreateTypes, Imported
<1>5. CreateTypes'
  BY <1>1, <1>2 DEF CreateInv, CreateTypes
<1>6. Origin'
  BY <1>1, <1>2, <1>3, <1>4 DEF CreateInv, Origin
<1>7. Answered'
  <2>1. campaign'.status = campaign.status \/ campaign'.status = "running"
    BY <1>4
  <2>2. QED  BY <1>1, <1>3, <1>4 DEF CreateInv, Answered, Create!Ran
<1>8. QED  BY <1>5, <1>6, <1>7 DEF CreateInv

LEMMA CreateHolds ==
  ASSUME Create!CreationAssumption
  PROVE  Create!Spec => []CreateInv
<1>1. Create!Init => CreateInv
  BY CreateInit
<1>2. CreateInv /\ [Create!Next]_(Create!vars) => CreateInv'
  <2>1. ASSUME CreateInv, UNCHANGED Create!vars
        PROVE  CreateInv'
    <3>1. UNCHANGED <<post, held, segment, read, campaign, pc, answer>>
      BY <2>1 DEF Create!vars
    <3>2. Imported' = Imported /\ Created' = Created
      BY <3>1 DEF Imported, Created
    <3>3. QED  BY <2>1, <3>1, <3>2 DEF CreateInv, CreateTypes, Origin, Answered
  <2>2. ASSUME CreateInv, Create!Next
        PROVE  CreateInv'
    BY <2>2, CreateReads, CreateInsert, CreateStart, CreatePick, CreateImport, CreateEnds, CreateChanges,
       CreateSegment, CreateDrops DEF Create!Next
  <2>3. QED  BY <2>1, <2>2
<1>3. QED  BY <1>1, <1>2, PTL DEF Create!Spec

\* A campaign's rows are of the query it was created with, whatever becomes of
\* its segment, and one that runs has a row.
THEOREM CampaignTargetIsKept ==
  ASSUME Create!CreationAssumption
  PROVE  Create!Spec => []Create!TargetIsKept
<1>1. CreateInv => Create!TargetIsKept
  BY DEF CreateInv, CreateTypes, Origin, Created, Imported, Create!TargetIsKept
<1>2. QED  BY <1>1, CreateHolds, PTL

\* The external API answers `ok' for a campaign that runs and no other, and with
\* any refusal but a failed import there are no rows.
THEOREM CreationAnswerIsTrue ==
  ASSUME Create!CreationAssumption
  PROVE  Create!Spec => []Create!AnswerIsTrue
<1>1. CreateInv => Create!AnswerIsTrue
  BY DEF CreateInv, Answered, Imported, Create!AnswerIsTrue, Create!Ran
<1>2. QED  BY <1>1, CreateHolds, PTL

-----------------------------------------------------------------------------
(* Segments *)

IsQuery(q) ==
  q = [did |-> q.did, delivery |-> q.delivery, suppression |-> q.suppression,
       previous |-> q.previous, base |-> q.base, of |-> q.of, among |-> q.among]
-----------------------------------------------------------------------------
(* Pages *)

\* A set of numbers that is not empty has a least one, and a finite one a greatest.
LEMMA SegLeast ==
  ASSUME NEW T, T \subseteq Nat, T # {}
  PROVE  \E e \in T : \A d \in T : e <= d
<1> DEFINE R == OpToRel(<, Nat)
<1>1. IsWellFoundedOn(R, Nat)
  BY NatLessThanWellFounded
<1>2. \E e \in T : \A d \in T : ~(<<d, e>> \in R)
  <2> HIDE DEF R
  <2>1. QED BY <1>1, WFMin
<1>3. PICK e \in T : \A d \in T : ~(d < e)
  BY <1>2 DEF OpToRel
<1>4. QED  BY <1>3

LEMMA SegCard ==
  \A S : Segment!Cardinality(S) = Cardinality(S)
BY DEF Segment!Cardinality, Cardinality

LEMMA SegMax ==
  ASSUME NEW S, S \subseteq Nat, IsFiniteSet(S), S # {}
  PROVE  Segment!Max(S) \in S /\ \A d \in S : d <= Segment!Max(S)
<1> DEFINE above(e) == {d \in S : e < d}
           T == {Cardinality(above(e)) : e \in S}
<1>1. \A e \in S : IsFiniteSet(above(e)) /\ Cardinality(above(e)) \in Nat
  BY FS_Subset, FS_CardinalityType
<1>2. PICK e \in S : \A d \in S : Cardinality(above(e)) <= Cardinality(above(d))
  <2>1. T \subseteq Nat /\ T # {}
    BY <1>1
  <2> HIDE DEF above
  <2>2. PICK n \in T : \A m \in T : n <= m
    BY <2>1, SegLeast
  <2>3. QED  BY <2>2
<1>3. \A d \in S : d <= e
  <2>1. SUFFICES ASSUME NEW d \in S, e < d PROVE FALSE
    OBVIOUS
  <2>2. d \in Nat /\ e \in Nat /\ \A x \in above(d) : x \in Nat
    OBVIOUS
  <2>3. \A x \in above(d) : x \in S /\ e < x
    BY <2>2, <2>1
  <2>4. d \in above(e) /\ d \notin above(d)
    BY <2>2, <2>1
  <2>5. above(d) \subseteq above(e)
    BY <2>3
  <2>6. above(d) \subseteq above(e) /\ above(d) # above(e)
    BY <2>4, <2>5
  <2> HIDE DEF above
  <2>7. Cardinality(above(d)) < Cardinality(above(e))
    BY <1>1, <2>6, FS_Subset
  <2>8. QED  BY <1>1, <1>2, <2>7
<1>4. Segment!Max(S) \in S /\ \A d \in S : Segment!Max(S) >= d
  <2>1. \E x \in S : \A y \in S : x >= y
    BY <1>3
  <2>2. QED  BY <2>1 DEF Segment!Max
<1>5. QED  BY <1>4

\* A page of what is left is empty only if nothing is left; all that is left up
\* to its last row is on it.
LEMMA SegFirst ==
  ASSUME Segment!SegmentAssumption, NEW rest, rest \subseteq Recipients
  PROVE  /\ Segment!First(rest) \subseteq rest
         /\ Segment!First(rest) = {} => rest = {}
         /\ \A p \in Segment!First(rest), r \in rest : r <= p => r \in Segment!First(rest)
<1> DEFINE below(r) == {x \in rest : x < r}
<1>1. rest \subseteq Nat /\ PageSize \in Nat /\ PageSize > 0
  BY DEF Segment!SegmentAssumption
<1>2. \A r \in rest : IsFiniteSet(below(r)) /\ Cardinality(below(r)) \in Nat
  BY FS_Subset, FS_CardinalityType, SegmentFinite DEF Segment!SegmentAssumption
<1>3. Segment!First(rest) = {r \in rest : Cardinality(below(r)) < PageSize}
  BY SegCard DEF Segment!First
<1>4. ASSUME rest # {} PROVE Segment!First(rest) # {}
  <2>1. PICK e \in rest : \A d \in rest : e <= d
    BY <1>1, <1>4, SegLeast
  <2>2. \A x \in rest : ~(x < e)
    <3>1. \A x \in rest : x \in Nat /\ e \in Nat /\ e <= x
      BY <1>1, <2>1
    <3>2. QED  BY <3>1
  <2>3. below(e) = {}
    BY <2>2
  <2>4. Cardinality(below(e)) < PageSize
    BY <1>1, <2>3, FS_EmptySet
  <2>5. QED  BY <1>3, <2>4
<1>5. ASSUME NEW p \in Segment!First(rest), NEW r \in rest, r <= p PROVE r \in Segment!First(rest)
  <2>1. p \in rest /\ Cardinality(below(p)) < PageSize
    BY <1>3
  <2>2. \A x \in rest : x < r => x < p
    <3>1. r \in Nat /\ p \in Nat /\ rest \subseteq Nat
      BY <1>1, <2>1
    <3>2. QED  BY <1>5, <3>1
  <2>3. below(r) \subseteq below(p)
    BY <2>2
  <2> HIDE DEF below
  <2>4. Cardinality(below(r)) <= Cardinality(below(p))
    BY <1>2, <2>1, <2>3, FS_Subset
  <2>5. Cardinality(below(r)) < PageSize
    BY <1>1, <1>2, <2>1, <2>4
  <2>6. QED  BY <1>3, <2>5
<1>6. QED  BY <1>3, <1>4, <1>5

-----------------------------------------------------------------------------
(* What has been passed by is done with, and what is still chosen is ahead *)

SegKinds == {"none", "analytics", "export", "import"}
Chores == [kind : SegKinds, mode : Segment!Modes,
           pc : {"idle", "count", "page", "write", "done", "failed"},
           cursor : Nat, page : SUBSET Recipients]
Passed == taken \cup refused \cup (IF chore.pc = "write" THEN chore.page ELSE {})

SegTypes ==
  /\ chore \in Chores /\ sends = [k \in Recipients \X Campaigns |-> sends[k]]
  /\ taken \cup refused \cup always \cup ever \subseteq Recipients

Ahead == \A r \in Recipients : r > chore.cursor =>
  /\ r \in always => r \in Segment!Wanted
  /\ r \in Segment!Wanted /\ chore.pc # "idle" => r \in ever
Behind ==
  /\ Passed \subseteq ever /\ \A r \in Passed : r <= chore.cursor
  /\ chore.pc # "failed" => \A r \in always : r <= chore.cursor => r \in Passed
  /\ chore.pc = "write" => taken \cap chore.page = {}
  /\ chore.pc = "done" => always \subseteq taken \cup refused
Made == chore.kind = "import" => \A r \in taken : sends[<<r, Segment!Campaign>>] # "none"
SegInv == SegTypes /\ Ahead /\ Behind /\ Made /\ twice = FALSE

LEMMA SegCampaign ==
  ASSUME Segment!SegmentAssumption PROVE Segment!Campaign \in Campaigns
BY SegMax, SegmentFinite DEF Segment!SegmentAssumption, Segment!Campaign

\* Who is chosen depends on the tables, the query and what the job is for.
LEMMA SegWanted ==
  /\ Segment!Wanted \subseteq Segment!Matched(Segment!Asked)
  /\ Segment!Matched(Segment!Asked) \subseteq Recipients
BY DEF Segment!Wanted, Segment!Matched

LEMMA SegSame ==
  ASSUME UNCHANGED <<Segment!Facts, query>>, chore'.kind = chore.kind, chore'.mode = chore.mode
  PROVE  Segment!Wanted' = Segment!Wanted
BY DEF Segment!Wanted, Segment!Matched, Segment!Asked, Segment!Facts, Segment!Matches, Segment!Did, Segment!Held,
   Segment!Targeted

LEMMA SegInit ==
  ASSUME Segment!SegmentAssumption, Segment!Init
  PROVE  SegInv
<1>1. chore = Segment!Idle /\ taken = {} /\ refused = {} /\ always = {} /\ ever = {} /\ twice = FALSE
  BY DEF Segment!Init
<1>2. chore \in Chores /\ chore.pc = "idle" /\ chore.kind = "none"
  BY <1>1 DEF Segment!Idle, Chores, SegKinds, Segment!Modes
<1>3. PICK s \in Pasts : sends = s.row
  BY DEF Segment!Init
<1>4. sends \in [Recipients \X Campaigns -> Segment!Rows]
  BY <1>3 DEF Segment!SegmentAssumption
<1>5. SegTypes
  BY <1>1, <1>2, <1>4 DEF SegTypes
<1>6. QED  BY <1>1, <1>2, <1>5 DEF SegInv, Ahead, Behind, Made, Passed

LEMMA SegBegin ==
  ASSUME Segment!SegmentAssumption, SegInv, NEW kind \in SegKinds, NEW mode \in Segment!Modes, Segment!Begin(kind, mode)
  PROVE  SegInv'
<1> DEFINE next == [Segment!Idle EXCEPT !.kind = kind, !.mode = mode,
                      !.pc = IF kind = "analytics" THEN "count" ELSE "page"]
<1>1. chore' = next
  BY DEF Segment!Begin
<1>2. next \in Chores /\ next.pc \in {"count", "page"} /\ next.cursor = 0
  BY DEF Segment!Idle, Chores
<1> HIDE DEF next
<1>3. taken' = {} /\ refused' = {} /\ always' = Segment!Wanted' /\ ever' = Segment!Wanted'
      /\ twice' = FALSE /\ sends' = sends
  BY DEF Segment!Begin, Segment!Facts
<1>4. Segment!Wanted' \subseteq Recipients
  BY DEF Segment!Wanted, Segment!Matched
<1>5. SegTypes'
  BY <1>1, <1>2, <1>3, <1>4 DEF SegInv, SegTypes
<1>6. Ahead' /\ Made'
  BY <1>1, <1>2, <1>3 DEF Ahead, Made
<1>7. \A r \in Recipients : ~(r <= 0)
  <2>1. \A r \in Recipients : r \in Nat /\ r # 0
    BY DEF Segment!SegmentAssumption
  <2>2. QED  BY <2>1
<1>8. Behind'
  BY <1>1, <1>2, <1>3, <1>4, <1>7 DEF Behind, Passed
<1>9. QED  BY <1>3, <1>5, <1>6, <1>8 DEF SegInv

LEMMA SegPage ==
  ASSUME Segment!SegmentAssumption, SegInv, Segment!Page
  PROVE  SegInv'
<1> USE DEF SegInv
<1> DEFINE all == Segment!Matched(Segment!Asked)
           rest == {r \in all : r > chore.cursor}
           page == Segment!First(rest)
           next == [chore EXCEPT !.pc = "write", !.page = page \cap Segment!Wanted, !.cursor = Segment!Max(page)]
           over == [chore EXCEPT !.pc = "done"]
<1>1. /\ chore' = IF page = {} THEN over ELSE next
      /\ UNCHANGED <<Segment!Facts, query, taken, always, ever, refused, twice>> /\ chore.pc = "page"
  BY DEF Segment!Page, Segment!History
<1>2. /\ rest \subseteq Recipients /\ Segment!Wanted \subseteq all
      /\ page \subseteq rest /\ (page = {} => rest = {}) /\ \A p \in page, r \in rest : r <= p => r \in page
  BY SegFirst, SegWanted
<1>3. chore \in Chores /\ chore.cursor \in Nat /\ Recipients \subseteq Nat
  BY DEF SegTypes, Chores, Segment!SegmentAssumption
<1>4. \A r \in Segment!Wanted : r > chore.cursor => r \in rest
  BY <1>2
<1>5. \A r \in rest : r > chore.cursor
  OBVIOUS
<1>6. over \in Chores /\ over.pc = "done" /\ over.kind = chore.kind /\ over.mode = chore.mode /\ over.cursor = chore.cursor
  BY <1>3 DEF Chores
<1>7. CASE page = {}
  <2>1. chore' = over
    BY <1>1, <1>7
  <2> HIDE DEF over, next, page, rest, all
  <2>2. Segment!Wanted' = Segment!Wanted
    BY <1>1, <1>6, <2>1, SegSame
  <2>3. UNCHANGED <<sends, taken, always, ever, refused, twice>>
    BY <1>1 DEF Segment!Facts
  <2>4. \A r \in always : r <= chore.cursor
    BY <1>2, <1>3, <1>4, <1>7 DEF Ahead, SegTypes
  <2>5. SegTypes' /\ Ahead' /\ Made'
    BY <1>1, <1>6, <2>1, <2>2, <2>3 DEF SegTypes, Ahead, Made, Segment!Campaign
  <2>6. Passed' = Passed /\ Passed = taken \cup refused
    BY <1>1, <1>6, <2>1, <2>3 DEF Passed
  <2>7. Behind'
    BY <1>1, <1>6, <2>1, <2>3, <2>4, <2>6 DEF Behind
  <2>8. QED  BY <2>3, <2>5, <2>7
<1>8. CASE page # {}
  <2>1. chore' = next
    BY <1>1, <1>8
  <2> HIDE DEF over, rest, all
  <2>2. Segment!Max(page) \in page /\ \A p \in page : p <= Segment!Max(page)
    <3>1. page \subseteq Recipients /\ page \subseteq Nat
      <4> HIDE DEF page
      <4>1. QED  BY <1>2, <1>3
    <3>2. IsFiniteSet(page)
      BY <3>1, FS_Subset, SegmentFinite DEF Segment!SegmentAssumption
    <3> HIDE DEF page
    <3>3. QED  BY <1>8, <3>1, <3>2, SegMax
  <2> DEFINE top == Segment!Max(page)
  <2>3. top \in page /\ \A p \in page : p <= top
    BY <2>2
  <2>4. next = [chore EXCEPT !.pc = "write", !.page = page \cap Segment!Wanted, !.cursor = top]
    OBVIOUS
  <2> HIDE DEF top, page, next
  <2>5. rest \subseteq Recipients /\ page \subseteq rest
    BY <1>2
  <2>6. \A r \in rest : r \in Nat /\ r > chore.cursor
    BY <1>3, <1>5, <2>5
  <2>7. top \in Nat /\ top > chore.cursor /\ page \cap Segment!Wanted \in SUBSET Recipients
    BY <2>3, <2>5, <2>6
  <2>8. next \in Chores /\ next.pc = "write" /\ next.page = page \cap Segment!Wanted /\ next.cursor = top
        /\ next.kind = chore.kind /\ next.mode = chore.mode
    BY <1>3, <2>4, <2>7 DEF Chores
  <2>9. Segment!Wanted' = Segment!Wanted
    BY <1>1, <2>1, <2>8, SegSame
  <2>10. UNCHANGED <<sends, taken, always, ever, refused, twice>>
    BY <1>1 DEF Segment!Facts
  <2>11. SegTypes' /\ Made'
    BY <2>1, <2>8, <2>10 DEF SegTypes, Made, Segment!Campaign
  <2>12. \A r \in Recipients : r > top => r > chore.cursor
    BY <1>3, <2>7
  <2>13. Ahead'
    BY <1>1, <2>1, <2>8, <2>9, <2>10, <2>12 DEF Ahead
  <2>14. Passed = taken \cup refused /\ Passed' = taken \cup refused \cup (page \cap Segment!Wanted)
    BY <1>1, <2>1, <2>8, <2>10 DEF Passed
  <2>15. page \cap Segment!Wanted \subseteq ever
    BY <1>1, <2>5, <2>6 DEF Ahead
  <2>16. \A r \in Recipients : r <= chore.cursor => r <= top
    BY <1>3, <2>7
  <2>17. \A r \in page : ~(r <= chore.cursor)
    BY <1>3, <2>5, <2>6
  <2>18. ASSUME NEW r \in always, r <= top PROVE r \in Passed'
    <3>1. CASE r <= chore.cursor
      BY <1>1, <2>14, <3>1 DEF Behind
    <3>2. CASE ~(r <= chore.cursor)
      <4>1. r \in Recipients /\ r > chore.cursor
        BY <1>3, <3>2 DEF SegTypes
      <4>2. r \in Segment!Wanted /\ r \in rest
        BY <1>4, <4>1 DEF Ahead
      <4>3. r \in page
        <5>1. \A p \in page, x \in rest : x <= p => x \in page
          BY <1>2
        <5>2. QED  BY <2>3, <2>18, <4>2, <5>1
      <4>4. QED  BY <2>14, <4>2, <4>3
    <3>3. QED  BY <3>1, <3>2
  <2>19. Behind'
    <3>1. Passed' \subseteq ever' /\ \A r \in Passed' : r <= chore'.cursor
      BY <2>1, <2>3, <2>8, <2>10, <2>14, <2>15, <2>16 DEF Behind, SegTypes
    <3>2. taken' \cap chore'.page = {}
      BY <2>1, <2>8, <2>10, <2>14, <2>17 DEF Behind
    <3>3. QED  BY <2>1, <2>8, <2>10, <2>18, <3>1, <3>2 DEF Behind
  <2>20. QED  BY <2>10, <2>11, <2>13, <2>19
<1>9. QED  BY <1>7, <1>8

\* Whatever changes, the history follows what is ahead of the job.
LEMMA SegSeen ==
  ASSUME Segment!SegmentAssumption, SegTypes, Segment!Seen, chore'.cursor = chore.cursor, chore'.pc # "idle" => chore.pc # "idle"
  PROVE  /\ always' \subseteq always /\ ever \subseteq ever' /\ always' \cup ever' \subseteq Recipients
         /\ Ahead'
<1>1. /\ always' = {r \in always : r <= chore.cursor \/ r \in Segment!Wanted'}
      /\ ever' = ever \cup {r \in Segment!Wanted' : r > chore.cursor}
  BY DEF Segment!Seen
<1>2. Segment!Wanted' \subseteq Recipients
  BY DEF Segment!Wanted, Segment!Matched
<1>3. always' \subseteq always /\ ever \subseteq ever' /\ always' \cup ever' \subseteq Recipients
  BY <1>1, <1>2 DEF SegTypes
<1>4. ASSUME NEW r \in Recipients, r > chore'.cursor
      PROVE  (r \in always' => r \in Segment!Wanted') /\ (r \in Segment!Wanted' => r \in ever')
  <2>1. r > chore.cursor /\ r \in Int /\ chore.cursor \in Int
    BY <1>4 DEF Segment!SegmentAssumption, SegTypes, Chores
  <2>2. QED  BY <1>1, <2>1
<1>5. QED  BY <1>3, <1>4 DEF Ahead

LEMMA SegOthers ==
  ASSUME Segment!SegmentAssumption, SegInv, Segment!Seen, UNCHANGED <<chore, taken, refused, twice>>,
         \A k \in Recipients \X Campaigns : sends[k] # "none" => sends'[k] # "none",
         sends' = [k \in Recipients \X Campaigns |-> sends'[k]]
  PROVE  SegInv'
<1> USE DEF SegInv
<1>1. always' \subseteq always /\ ever \subseteq ever' /\ always' \cup ever' \subseteq Recipients /\ Ahead'
  BY SegSeen
<1>2. SegTypes'
  BY <1>1 DEF SegTypes
<1>3. Passed' = Passed
  BY DEF Passed
<1>4. Behind'
  BY <1>1, <1>3 DEF Behind
<1>5. Made'
  <2>1. \A r \in taken : <<r, Segment!Campaign>> \in Recipients \X Campaigns
    BY SegCampaign DEF SegTypes
  <2>2. Segment!Campaign' = Segment!Campaign
    BY DEF Segment!Campaign
  <2>3. QED  BY <2>1, <2>2 DEF Made
<1>6. QED  BY <1>1, <1>2, <1>4, <1>5

LEMMA SegDeliver ==
  ASSUME Segment!SegmentAssumption, SegInv, NEW r \in Recipients, NEW s \in {"sent", "failed", "skipped"},
         Segment!Deliver(r, s)
  PROVE  SegInv'
<1> DEFINE k == <<r, Segment!Campaign>>
<1>1. sends' = [sends EXCEPT ![k] = s] /\ UNCHANGED <<chore, taken, refused, twice>> /\ Segment!Seen
  BY DEF Segment!Deliver
<1>2. s # "none" /\ sends = [j \in Recipients \X Campaigns |-> sends[j]]
  BY DEF SegInv, SegTypes
<1> HIDE DEF k
<1>3. \A j \in Recipients \X Campaigns : sends'[j] = IF j = k THEN s ELSE sends[j]
  BY <1>1, <1>2
<1>4. sends' = [j \in Recipients \X Campaigns |-> sends'[j]]
  BY <1>1, <1>2
<1>5. QED  BY <1>1, <1>2, <1>3, <1>4, SegOthers

LEMMA SegEvent ==
  ASSUME Segment!SegmentAssumption, SegInv, NEW r \in Recipients, Segment!Event(r)
  PROVE  SegInv'
<1>1. UNCHANGED <<sends, chore, taken, refused, twice>> /\ Segment!Seen
  BY DEF Segment!Event
<1>2. QED  BY <1>1, SegOthers DEF SegInv, SegTypes

LEMMA SegWrite ==
  ASSUME Segment!SegmentAssumption, SegInv, Segment!Write
  PROVE  SegInv'
<1> USE DEF SegInv
<1> DEFINE new == IF chore.kind = "import" THEN chore.page \ barred ELSE chore.page
           next == [chore EXCEPT !.pc = "page", !.page = {}]
           made == [k \in DOMAIN sends |->
             IF k[2] = Segment!Campaign /\ k[1] \in new /\ sends[k] = "none" THEN "open" ELSE sends[k]]
<1>1. /\ chore.pc = "write" /\ chore' = next /\ taken' = taken \cup new
      /\ twice' = (twice \/ new \cap taken # {}) /\ refused' = refused \cup (chore.page \ new)
      /\ sends' = IF chore.kind = "import" THEN made ELSE sends
      /\ Segment!Seen
  BY DEF Segment!Write
<1>2. chore \in Chores /\ chore.page \subseteq Recipients /\ new \subseteq chore.page
  BY DEF SegTypes, Chores
<1>3. next \in Chores /\ next.pc = "page" /\ next.kind = chore.kind /\ next.cursor = chore.cursor
  BY <1>2 DEF Chores
<1>4. sends = [k \in Recipients \X Campaigns |-> sends[k]] /\ DOMAIN sends = Recipients \X Campaigns
  BY DEF SegTypes
<1>5. sends' = [k \in Recipients \X Campaigns |-> sends'[k]]
  BY <1>1, <1>4
<1>6. chore.kind = "import" => \A r \in taken \cup new : sends'[<<r, Segment!Campaign>>] # "none"
  <2> SUFFICES ASSUME chore.kind = "import", NEW r \in taken \cup new
               PROVE  sends'[<<r, Segment!Campaign>>] # "none"
    OBVIOUS
  <2>1. r \in Recipients /\ Segment!Campaign \in Campaigns
    BY <1>2, SegCampaign DEF SegTypes
  <2>2. r \in taken => sends[<<r, Segment!Campaign>>] # "none"
    BY DEF Made
  <2>3. \A k \in Recipients \X Campaigns : sends'[k] = IF k[2] = Segment!Campaign /\ k[1] \in new /\ sends[k] = "none"
                                                       THEN "open" ELSE sends[k]
    BY <1>1, <1>4
  <2> HIDE DEF new, made, next
  <2>4. sends'[<<r, Segment!Campaign>>] = IF r \in new /\ sends[<<r, Segment!Campaign>>] = "none"
                                          THEN "open" ELSE sends[<<r, Segment!Campaign>>]
    BY <2>1, <2>3
  <2>5. QED  BY <2>2, <2>4
<1> HIDE DEF new, made, next
<1>7. always' \subseteq always /\ ever \subseteq ever' /\ always' \cup ever' \subseteq Recipients /\ Ahead'
  BY <1>1, <1>3, SegSeen
<1>8. taken' \cup refused' = Passed /\ Passed' = Passed
  BY <1>1, <1>2, <1>3 DEF Passed
<1>9. SegTypes'
  <2>1. taken' \cup refused' \subseteq Recipients
    BY <1>1, <1>2 DEF SegTypes
  <2>2. QED  BY <1>1, <1>3, <1>5, <1>7, <2>1 DEF SegTypes
<1>10. Behind'
  BY <1>1, <1>3, <1>7, <1>8 DEF Behind
<1>11. Made'
  <2>1. Segment!Campaign' = Segment!Campaign
    BY DEF Segment!Campaign
  <2>2. QED  BY <1>1, <1>3, <1>6, <2>1 DEF Made
<1>12. new \cap taken = {}
  BY <1>1, <1>2 DEF Behind
<1>13. twice' = FALSE
  <2>1. twice' = twice
    BY Zenon, <1>1, <1>12
  <2>2. QED  BY Zenon, <2>1
<1>14. QED  BY <1>7, <1>9, <1>10, <1>11, <1>13

LEMMA SegNext ==
  ASSUME Segment!SegmentAssumption, SegInv, [Segment!Next]_Segment!vars
  PROVE  SegInv'
<1>1. ASSUME UNCHANGED <<Segment!Facts, query, chore, taken, refused, always, ever, twice>> PROVE SegInv'
  <2>1. Segment!Wanted' = Segment!Wanted
    BY <1>1, SegSame
  <2>2. UNCHANGED <<sends, chore, taken, refused, always, ever, twice>> /\ Segment!Campaign' = Segment!Campaign
    BY <1>1 DEF Segment!Facts, Segment!Campaign
  <2>3. SegTypes' /\ Ahead' /\ Made'
    BY <2>1, <2>2 DEF SegInv, SegTypes, Ahead, Made
  <2>4. Passed' = Passed
    BY <2>2 DEF Passed
  <2>5. Behind'
    BY <2>2, <2>4 DEF SegInv, Behind
  <2>6. QED  BY <2>2, <2>3, <2>5 DEF SegInv
<1>2. ASSUME NEW w \in Segment!Counts, Segment!CountOne(w) PROVE SegInv'
  BY <1>1, <1>2 DEF Segment!CountOne, Segment!History
<1>3. CASE Segment!WriteFails
  <2> DEFINE next == [chore EXCEPT !.pc = "failed", !.page = {}]
  <2>1. chore' = next /\ chore.pc = "write" /\ UNCHANGED <<Segment!Facts, query, taken, refused, always, ever, twice>>
    BY <1>3 DEF Segment!WriteFails, Segment!History
  <2>2. next \in Chores /\ next.pc = "failed" /\ next.kind = chore.kind /\ next.mode = chore.mode /\ next.cursor = chore.cursor
    BY DEF SegInv, SegTypes, Chores
  <2> HIDE DEF next
  <2>3. Segment!Wanted' = Segment!Wanted
    BY <2>1, <2>2, SegSame
  <2>4. UNCHANGED <<sends, taken, refused, always, ever, twice>> /\ Segment!Campaign' = Segment!Campaign
    BY <2>1 DEF Segment!Facts, Segment!Campaign
  <2>5. SegTypes' /\ Ahead' /\ Made'
    BY <2>1, <2>2, <2>3, <2>4 DEF SegInv, SegTypes, Ahead, Made
  <2>6. Passed' \subseteq Passed
    BY <2>1, <2>2, <2>4 DEF Passed
  <2>7. Behind'
    BY <2>1, <2>2, <2>4, <2>6 DEF SegInv, Behind
  <2>8. QED  BY <2>4, <2>5, <2>7 DEF SegInv
<1>4. CASE UNCHANGED Segment!vars
  BY <1>1, <1>4 DEF Segment!vars, Segment!History
<1>5. QED  BY <1>2, <1>3, <1>4, SegBegin, SegPage, SegWrite, SegDeliver, SegEvent DEF Segment!Next, SegKinds, Segment!Modes

\* An export holds, and an import of a segment makes rows for, everybody whom the
\* query chose all the time until the pages were past them, nobody whom it never
\* chose, and nobody twice, whatever comes and goes meanwhile.
THEOREM SegmentPagesAreExact ==
  ASSUME Segment!SegmentAssumption PROVE Segment!Spec => []Segment!PagesAreExact
<1>1. SegInv => Segment!PagesAreExact
  <2> SUFFICES ASSUME SegInv PROVE Segment!PagesAreExact
    OBVIOUS
  <2>1. taken \cup refused \subseteq ever /\ (chore.pc = "done" => always \subseteq taken \cup refused)
    BY DEF SegInv, Behind, Passed
  <2>2. ~twice
    BY DEF SegInv
  <2>3. QED  BY <2>1, <2>2 DEF SegInv, Made, Segment!PagesAreExact
<1>2. QED  BY <1>1, SegInit, SegNext, PTL DEF Segment!Spec

-----------------------------------------------------------------------------
(* The numbers beside the buttons *)

\* What has been counted is what would be counted now, unless something has
\* happened since; only analytics count.
CountInv ==
  /\ query \in Queries /\ calm \in BOOLEAN /\ sends \in [Recipients \X Campaigns -> Segment!Rows]
  /\ chore.kind = "analytics" <=> chore.pc = "count"
  /\ chore.pc # "count" => DOMAIN stats = {}
  /\ calm = TRUE => \A w \in DOMAIN stats : stats[w] = Segment!Counted(w)

LEMMA CountedSame ==
  ASSUME UNCHANGED <<Segment!Facts, query>>, NEW w
  PROVE  Segment!Counted(w)' = Segment!Counted(w)
BY DEF Segment!Counted, Segment!Matched, Segment!Facts, Segment!Matches, Segment!Did, Segment!Held, Segment!Targeted

LEMMA CountInit ==
  ASSUME Segment!SegmentAssumption, Segment!Init
  PROVE  CountInv
<1>1. chore = Segment!Idle /\ stats = <<>> /\ query \in Queries /\ calm = TRUE
  BY DEF Segment!Init
<1>2. chore.pc = "idle" /\ chore.kind = "none" /\ DOMAIN stats = {}
  BY <1>1 DEF Segment!Idle
<1>3. PICK s \in Pasts : sends = s.row
  BY DEF Segment!Init
<1>4. sends \in [Recipients \X Campaigns -> Segment!Rows]
  BY <1>3 DEF Segment!SegmentAssumption
<1>5. calm \in BOOLEAN
  BY Zenon, <1>1
<1>6. QED  BY <1>1, <1>2, <1>4, <1>5 DEF CountInv

LEMMA CountNext ==
  ASSUME Segment!SegmentAssumption, SegInv, CountInv, [Segment!Next]_Segment!vars
  PROVE  CountInv'
<1> USE DEF CountInv
<1>1. Segment!Campaign \in Campaigns
  BY SegCampaign
<1>2. ASSUME UNCHANGED <<Segment!Facts, query, stats, calm>>, chore'.kind = chore.kind,
             chore'.pc = "count" <=> chore.pc = "count"
      PROVE  CountInv'
  <2>1. UNCHANGED sends
    BY <1>2 DEF Segment!Facts
  <2>2. \A w \in DOMAIN stats : Segment!Counted(w)' = Segment!Counted(w)
    BY <1>2, CountedSame
  <2>3. calm' = TRUE => \A w \in DOMAIN stats' : stats'[w] = Segment!Counted(w)'
    BY <1>2, <2>2
  <2>4. QED  BY <1>2, <2>1, <2>3
<1>3. ASSUME NEW w \in Segment!Counts, Segment!CountOne(w) PROVE CountInv'
  <2>1. /\ chore.pc = "count" /\ UNCHANGED <<Segment!Facts, query, chore, calm>>
        /\ stats' = [x \in DOMAIN stats \cup {w} |-> IF x = w THEN Segment!Counted(w) ELSE stats[x]]
    BY <1>3 DEF Segment!CountOne
  <2>2. \A x \in DOMAIN stats' : Segment!Counted(x)' = Segment!Counted(x)
    BY <2>1, CountedSame
  <2>3. calm = TRUE => \A x \in DOMAIN stats' : stats'[x] = Segment!Counted(x)
    BY <2>1
  <2>4. UNCHANGED sends
    BY <2>1 DEF Segment!Facts
  <2>5. QED  BY <2>1, <2>2, <2>3, <2>4
<1>4. ASSUME NEW kind \in SegKinds, NEW mode \in Segment!Modes, Segment!Begin(kind, mode) PROVE CountInv'
  <2> DEFINE next == [Segment!Idle EXCEPT !.kind = kind, !.mode = mode,
                      !.pc = IF kind = "analytics" THEN "count" ELSE "page"]
  <2>1. chore' = next /\ chore.pc \in {"idle", "failed"} /\ calm' = TRUE /\ UNCHANGED <<Segment!Facts, query, stats>>
    BY <1>4 DEF Segment!Begin
  <2>2. next.kind = kind /\ next.pc = IF kind = "analytics" THEN "count" ELSE "page"
    BY DEF Segment!Idle
  <2> HIDE DEF next
  <2>3. DOMAIN stats' = {} /\ UNCHANGED <<sends, query>>
    BY <2>1 DEF Segment!Facts
  <2>4. calm' \in BOOLEAN
    BY Zenon, <2>1
  <2>5. QED  BY <2>1, <2>2, <2>3, <2>4
<1>5. CASE Segment!Page
  <2>1. chore.pc = "page" /\ chore'.kind = chore.kind /\ chore'.pc \in {"done", "write"}
    BY <1>5 DEF Segment!Page, SegInv, SegTypes, Chores
  <2>2. QED  BY <1>2, <1>5, <2>1 DEF Segment!Page
<1>6. CASE Segment!Write
  <2> DEFINE new == IF chore.kind = "import" THEN chore.page \ barred ELSE chore.page
  <2>1. /\ chore.pc = "write" /\ chore'.kind = chore.kind /\ chore'.pc = "page" /\ UNCHANGED <<query, stats, calm>>
        /\ sends' = IF chore.kind = "import"
                      THEN [k \in DOMAIN sends |-> IF k[2] = Segment!Campaign /\ k[1] \in new /\ sends[k] = "none"
                                                   THEN "open" ELSE sends[k]]
                      ELSE sends
    BY <1>6 DEF Segment!Write, SegInv, SegTypes, Chores
  <2>2. sends' \in [Recipients \X Campaigns -> Segment!Rows]
    BY <2>1 DEF Segment!Rows
  <2>3. QED  BY <2>1, <2>2
<1>7. CASE Segment!WriteFails
  <2>1. chore.pc = "write" /\ chore'.kind = chore.kind /\ chore'.pc = "failed"
    BY <1>7 DEF Segment!WriteFails, SegInv, SegTypes, Chores
  <2>2. QED  BY <1>2, <1>7, <2>1 DEF Segment!WriteFails
<1>8. ASSUME NEW r \in Recipients, NEW s \in {"sent", "failed", "skipped"}, Segment!Deliver(r, s) PROVE CountInv'
  <2>1. calm' = FALSE /\ UNCHANGED <<query, chore, stats>> /\ sends' = [sends EXCEPT ![<<r, Segment!Campaign>>] = s]
    BY <1>8 DEF Segment!Deliver
  <2>2. sends' \in [Recipients \X Campaigns -> Segment!Rows]
    BY <2>1 DEF Segment!Rows
  <2>3. calm' \in BOOLEAN /\ calm' # TRUE
    BY Zenon, <2>1
  <2>4. QED  BY <2>1, <2>2, <2>3
<1>9. ASSUME NEW r \in Recipients, Segment!Event(r) PROVE CountInv'
  <2>1. calm' = FALSE /\ UNCHANGED <<query, chore, stats, sends>>
    BY <1>9 DEF Segment!Event
  <2>2. calm' \in BOOLEAN /\ calm' # TRUE
    BY Zenon, <2>1
  <2>3. QED  BY <2>1, <2>2
<1>10. CASE UNCHANGED Segment!vars
  BY <1>2, <1>10 DEF Segment!vars
<1>11. QED  BY <1>3, <1>4, <1>5, <1>6, <1>7, <1>8, <1>9, <1>10 DEF Segment!Next, SegKinds, Segment!Modes

LEMMA SegNormalize ==
  ASSUME NEW q, IsQuery(q)
  PROVE  /\ IsQuery(Segment!Normalize(q)) /\ Segment!Normalize(q).of = q.of
         /\ Segment!Normalize(q).suppression \in {"include", "exclude", "all"}
<1> DEFINE d == q.delivery \cap {"sent", "failed", "skipped", "suppressed"}
           s == IF q.suppression \in {"include", "exclude"} THEN q.suppression ELSE "all"
           p == IF q.previous \in {"include", "exclude"} THEN q.previous ELSE "all"
<1>1. Segment!Normalize(q) = [q EXCEPT !.delivery = d, !.suppression = s, !.previous = p]
  BY DEF Segment!Normalize
<1>2. s \in {"include", "exclude", "all"}
  OBVIOUS
<1> HIDE DEF d, s, p
<1>3. Segment!Normalize(q) = [did |-> q.did, delivery |-> d, suppression |-> s,
                              previous |-> p, base |-> q.base, of |-> q.of, among |-> q.among]
  BY <1>1 DEF IsQuery
<1>4. QED  BY <1>2, <1>3 DEF IsQuery

\* What a query says in the modes of the export.
LEMMA SegModes ==
  ASSUME NEW n, IsQuery(n)
  PROVE  /\ Segment!WithMode(n, "matched") = n
         /\ \A m \in {"opened", "not_opened", "clicked", "not_clicked"} :
              Segment!WithMode(n, m) =
                [did |-> n.did \cup {m}, delivery |-> n.delivery, suppression |-> n.suppression,
                 previous |-> n.previous, base |-> n.base, of |-> n.of, among |-> n.among]
         /\ Segment!WithMode(n, "failed") =
              [did |-> n.did, delivery |-> n.delivery \cup {"failed"}, suppression |-> n.suppression,
               previous |-> n.previous, base |-> n.base, of |-> n.of, among |-> n.among]
         /\ Segment!WithMode(n, "suppressed") =
              [did |-> n.did, delivery |-> n.delivery, suppression |-> "include",
               previous |-> n.previous, base |-> n.base, of |-> n.of, among |-> n.among]
<1>1. Segment!WithMode(n, "matched") = n
  BY DEF Segment!WithMode
<1>2. ASSUME NEW m \in {"opened", "not_opened", "clicked", "not_clicked"}
      PROVE  Segment!WithMode(n, m) = [n EXCEPT !.did = n.did \cup {m}]
  BY DEF Segment!WithMode
<1>3. Segment!WithMode(n, "failed") = [n EXCEPT !.delivery = n.delivery \cup {"failed"}]
  BY DEF Segment!WithMode
<1>4. Segment!WithMode(n, "suppressed") = [n EXCEPT !.suppression = "include"]
  BY DEF Segment!WithMode
<1>5. QED  BY <1>1, <1>2, <1>3, <1>4 DEF IsQuery

\* In each mode the export adds one condition to those of the query.
SameButDid(q, n) ==
  /\ q.delivery = n.delivery /\ q.suppression = n.suppression
  /\ q.previous = n.previous /\ q.base = n.base /\ q.of = n.of /\ q.among = n.among

LEMMA SegDid ==
  ASSUME NEW q, NEW n, NEW r, NEW m, SameButDid(q, n), q.did = n.did \cup {m}
  PROVE  /\ m = "opened" => (Segment!Matches(r, q) <=> Segment!Matches(r, n) /\ Segment!Did(opened, r, n))
         /\ m = "not_opened" => (Segment!Matches(r, q) <=> Segment!Matches(r, n) /\ ~Segment!Did(opened, r, n))
         /\ m = "clicked" => (Segment!Matches(r, q) <=> Segment!Matches(r, n) /\ Segment!Did(clicked, r, n))
         /\ m = "not_clicked" => (Segment!Matches(r, q) <=> Segment!Matches(r, n) /\ ~Segment!Did(clicked, r, n))
<1>1. /\ Segment!Did(opened, r, q) <=> Segment!Did(opened, r, n)
      /\ Segment!Did(clicked, r, q) <=> Segment!Did(clicked, r, n)
      /\ Segment!Held(r, q) = Segment!Held(r, n)
  BY DEF SameButDid, Segment!Did, Segment!Held
<1>2. QED  BY <1>1 DEF SameButDid, Segment!Matches

LEMMA SegMatches ==
  ASSUME NEW n, IsQuery(n), NEW r
  PROVE  LET M(m) == Segment!Matches(r, Segment!WithMode(n, m)) IN
         /\ M("opened") <=> Segment!Matches(r, n) /\ Segment!Did(opened, r, n)
         /\ M("not_opened") <=> Segment!Matches(r, n) /\ ~Segment!Did(opened, r, n)
         /\ M("clicked") <=> Segment!Matches(r, n) /\ Segment!Did(clicked, r, n)
         /\ M("not_clicked") <=> Segment!Matches(r, n) /\ ~Segment!Did(clicked, r, n)
         /\ n.suppression # "exclude" => (M("suppressed") <=> Segment!Matches(r, n) /\ r \in barred)
         /\ n.delivery \subseteq {"failed", "suppressed"} /\ Segment!Held(r, n) \subseteq Segment!Rows =>
              (M("failed") <=> Segment!Matches(r, n) /\ "failed" \in Segment!Held(r, n))
<1>1. ASSUME NEW m \in {"opened", "not_opened", "clicked", "not_clicked"}
      PROVE  SameButDid(Segment!WithMode(n, m), n) /\ Segment!WithMode(n, m).did = n.did \cup {m}
  BY SegModes DEF SameButDid
<1>2. ASSUME n.suppression # "exclude"
      PROVE  Segment!Matches(r, Segment!WithMode(n, "suppressed")) <=> Segment!Matches(r, n) /\ r \in barred
  <2>1. PICK q : q = Segment!WithMode(n, "suppressed")
    OBVIOUS
  <2>2. /\ q.did = n.did /\ q.delivery = n.delivery /\ q.suppression = "include"
        /\ q.previous = n.previous /\ q.base = n.base /\ q.of = n.of /\ q.among = n.among
    BY <2>1, SegModes
  <2>3. /\ Segment!Did(opened, r, q) <=> Segment!Did(opened, r, n)
        /\ Segment!Did(clicked, r, q) <=> Segment!Did(clicked, r, n)
        /\ Segment!Held(r, q) = Segment!Held(r, n)
    BY <2>2 DEF Segment!Did, Segment!Held
  <2>4. Segment!Matches(r, q) <=> Segment!Matches(r, n) /\ r \in barred
    BY <1>2, <2>2, <2>3 DEF Segment!Matches
  <2>5. QED  BY <2>1, <2>4
<1>3. ASSUME n.delivery \subseteq {"failed", "suppressed"}, Segment!Held(r, n) \subseteq Segment!Rows
      PROVE  Segment!Matches(r, Segment!WithMode(n, "failed")) <=> Segment!Matches(r, n) /\ "failed" \in Segment!Held(r, n)
  <2>1. PICK q : q = Segment!WithMode(n, "failed")
    OBVIOUS
  <2>2. /\ q.did = n.did /\ q.delivery = n.delivery \cup {"failed"} /\ q.suppression = n.suppression
        /\ q.previous = n.previous /\ q.base = n.base /\ q.of = n.of /\ q.among = n.among
    BY <2>1, SegModes
  <2>3. /\ Segment!Did(opened, r, q) <=> Segment!Did(opened, r, n)
        /\ Segment!Did(clicked, r, q) <=> Segment!Did(clicked, r, n)
        /\ Segment!Held(r, q) = Segment!Held(r, n)
    BY <2>2 DEF Segment!Did, Segment!Held
  <2>4. "suppressed" \notin Segment!Held(r, n)
    BY <1>3 DEF Segment!Rows
  <2>5. n.delivery \ {"suppressed"} # {} => "failed" \in n.delivery
    BY <1>3
  <2>6. "failed" \in n.delivery /\ Segment!Held(r, n) \cap n.delivery # {} => "failed" \in Segment!Held(r, n)
    BY <1>3, <2>4
  <2>7. /\ q.delivery \ {"suppressed"} # {} /\ ("suppressed" \in q.delivery <=> "suppressed" \in n.delivery)
        /\ Segment!Held(r, n) \cap q.delivery # {} <=> "failed" \in Segment!Held(r, n)
    BY <1>3, <2>2, <2>4
  <2>8. "failed" \in Segment!Held(r, n) /\ n.delivery \ {"suppressed"} # {} => Segment!Held(r, n) \cap n.delivery # {}
    BY <2>5
  <2>9. Segment!Matches(r, q) <=> Segment!Matches(r, n) /\ "failed" \in Segment!Held(r, n)
    BY <2>2, <2>3, <2>5, <2>6, <2>7, <2>8 DEF Segment!Matches
  <2>10. QED  BY <2>1, <2>9
<1>4. QED  BY <1>1, <1>2, <1>3, SegDid

LEMMA SegDifference ==
  ASSUME Segment!SegmentAssumption, NEW A, NEW B, A \subseteq Recipients, B \subseteq A
  PROVE  Segment!Max({0, Segment!Cardinality(A) - Segment!Cardinality(B)}) = Segment!Cardinality(A \ B)
<1>1. IsFiniteSet(A) /\ IsFiniteSet(B) /\ IsFiniteSet(A \ B)
  BY FS_Subset, SegmentFinite DEF Segment!SegmentAssumption
<1>2. Cardinality(A \ B) = Cardinality(A) - Cardinality(A \cap B) /\ A \cap B = B
  BY <1>1, FS_Difference
<1>3. Cardinality(A \ B) \in Nat /\ Cardinality(A \ B) = Cardinality(A) - Cardinality(B)
  BY <1>1, <1>2, FS_CardinalityType
<1>4. PICK n \in Nat : n = Segment!Cardinality(A \ B) /\ n = Segment!Cardinality(A) - Segment!Cardinality(B)
  BY <1>3, SegCard
<1>5. {0, n} \subseteq Nat /\ IsFiniteSet({0, n}) /\ {0, n} # {}
  <2>1. {0, n} = {n} \cup {0}
    OBVIOUS
  <2>2. IsFiniteSet({n})
    BY FS_Singleton
  <2>3. IsFiniteSet({n} \cup {0})
    BY <2>2, FS_AddElement
  <2>4. IsFiniteSet({0, n})
    BY <2>1, <2>3
  <2>5. QED  BY <2>4
<1>6. Segment!Max({0, n}) \in {0, n} /\ \A d \in {0, n} : d <= Segment!Max({0, n})
  BY <1>5, SegMax
<1>7. Segment!Max({0, n}) = n
  BY <1>6
<1>8. QED  BY <1>4, <1>7

LEMMA SegNumbers ==
  ASSUME Segment!SegmentAssumption, CountInv
  PROVE  Segment!NumbersAgree
<1> DEFINE n == Segment!Normalize(query)
<1> SUFFICES ASSUME DOMAIN stats = Segment!Counts, calm = TRUE, n.of = Campaigns,
                    n.delivery \subseteq {"failed", "suppressed"}
             PROVE  /\ \A w \in Segment!Counts : (w = "suppressed" => n.suppression # "exclude") =>
                         stats[w] = Segment!Size(w)
                    /\ Segment!Max({0, stats["matched"] - stats["opened"]}) = Segment!Size("not_opened")
                    /\ Segment!Max({0, stats["matched"] - stats["clicked"]}) = Segment!Size("not_clicked")
  <2>1. IsQuery(query)
    BY DEF CountInv, Segment!SegmentAssumption, IsQuery
  <2>2. n.of = query.of
    BY <2>1, SegNormalize
  <2>3. calm => calm = TRUE
    BY Zenon DEF CountInv
  <2>4. QED  BY <2>2, <2>3 DEF Segment!NumbersAgree
<1>1. IsQuery(n)
  <2>1. IsQuery(query)
    BY DEF CountInv, Segment!SegmentAssumption, IsQuery
  <2>2. QED  BY <2>1, SegNormalize
<1> DEFINE all == Segment!Matched(n)
           with(m) == Segment!Matched(Segment!WithMode(n, m))
           saw == {r \in all : \E c \in Campaigns : <<r, c>> \in opened}
           follow == {r \in all : \E c \in Campaigns : <<r, c>> \in clicked}
           bad == {r \in all : \E c \in Campaigns : sends[<<r, c>>] = "failed"}
<1>2. \A w \in Segment!Counts : stats[w] = Segment!Counted(w)
  BY DEF CountInv
<1>3. /\ Segment!Counted("matched") = Segment!Cardinality(all)
      /\ Segment!Counted("opened") = Segment!Cardinality(saw)
      /\ Segment!Counted("clicked") = Segment!Cardinality(follow)
      /\ Segment!Counted("failed") = Segment!Cardinality(bad)
      /\ Segment!Counted("suppressed") = Segment!Cardinality(all \cap barred)
  BY DEF Segment!Counted
<1>4. \A m : Segment!Size(m) = Segment!Cardinality(with(m))
  BY DEF Segment!Size
<1> HIDE DEF n
<1>5. /\ with("matched") = all /\ with("opened") = saw /\ with("clicked") = follow
      /\ with("not_opened") = all \ saw /\ with("not_clicked") = all \ follow
      /\ n.suppression # "exclude" => with("suppressed") = all \cap barred
      /\ with("failed") = bad
  <2>1. with("matched") = all
    BY <1>1, SegModes
  <2>2. \A r : /\ Segment!Did(opened, r, n) <=> \E c \in Campaigns : <<r, c>> \in opened
               /\ Segment!Did(clicked, r, n) <=> \E c \in Campaigns : <<r, c>> \in clicked
               /\ "failed" \in Segment!Held(r, n) <=> \E c \in Campaigns : sends[<<r, c>>] = "failed"
    BY DEF Segment!Did, Segment!Held
  <2>3. \A r \in Recipients : Segment!Held(r, n) \subseteq Segment!Rows
    BY DEF Segment!Held, CountInv
  <2>4. all = {r \in Recipients : Segment!Matches(r, n)}
        /\ \A m : with(m) = {r \in Recipients : Segment!Matches(r, Segment!WithMode(n, m))}
    BY DEF Segment!Matched
  <2> HIDE DEF all, with
  <2>5. with("opened") = saw /\ with("not_opened") = all \ saw
    BY <1>1, <2>2, <2>4, SegMatches
  <2>6. with("clicked") = follow /\ with("not_clicked") = all \ follow
    BY <1>1, <2>2, <2>4, SegMatches
  <2>7. n.suppression # "exclude" => with("suppressed") = all \cap barred
    BY <1>1, <2>4, SegMatches
  <2>8. with("failed") = bad
    BY <1>1, <2>2, <2>3, <2>4, SegMatches
  <2>9. QED  BY <2>1, <2>5, <2>6, <2>7, <2>8
<1>6. all \subseteq Recipients /\ saw \subseteq all /\ follow \subseteq all
  BY DEF Segment!Matched
<1> HIDE DEF all, with, saw, follow, bad
<1>7. \A w \in Segment!Counts : (w = "suppressed" => n.suppression # "exclude") => stats[w] = Segment!Size(w)
  BY <1>2, <1>3, <1>4, <1>5 DEF Segment!Counts
<1>8. Segment!Max({0, stats["matched"] - stats["opened"]}) = Segment!Size("not_opened")
  BY <1>2, <1>3, <1>4, <1>5, <1>6, SegDifference DEF Segment!Counts
<1>9. Segment!Max({0, stats["matched"] - stats["clicked"]}) = Segment!Size("not_clicked")
  BY <1>2, <1>3, <1>4, <1>5, <1>6, SegDifference DEF Segment!Counts
<1>10. QED  BY <1>7, <1>8, <1>9 DEF n

\* With nothing going on meanwhile the numbers that a segment shows are the sizes
\* of what its buttons export.
THEOREM SegmentNumbersAgree ==
  ASSUME Segment!SegmentAssumption PROVE Segment!Spec => []Segment!NumbersAgree
BY SegInit, SegNext, CountInit, CountNext, SegNumbers, PTL DEF Segment!Spec

-----------------------------------------------------------------------------
(* Short links *)

KeptInv == table = [i \in Links!Ids |-> table[i]] /\ own \subseteq Links!Ids /\ Links!TemplateIsKept

LEMMA LinksCached ==
  ASSUME KeptInv, NEW id, NEW url, NEW keep \in BOOLEAN, keep => id \in Links!Ids,
         Links!Cached(id, url, keep)
  PROVE  KeptInv'
<1>1. CASE UNCHANGED <<table, own>>
  BY <1>1 DEF KeptInv, Links!TemplateIsKept
<1>2. CASE table' = [table EXCEPT ![id] = Links!Row(id, url, keep)]
           /\ own' = IF keep THEN own \cup {id} ELSE own
  <2>1. \A i \in Links!Ids : i # id => table'[i] = table[i]
    BY <1>2 DEF KeptInv
  <2>2. id \in Links!Ids => table'[id].template = (keep \/ table[id].template)
    BY <1>2 DEF KeptInv, Links!Row
  <2>3. \A i \in own : table'[i].template
    BY <2>1, <2>2 DEF KeptInv, Links!TemplateIsKept
  <2>4. keep => table'[id].template
    BY <2>2
  <2>5. QED  BY <1>2, <2>3, <2>4 DEF KeptInv, Links!TemplateIsKept
<1>3. QED  BY <1>1, <1>2 DEF Links!Cached

LEMMA LinksKept ==
  ASSUME KeptInv, [Links!Next]_Links!vars
  PROVE  KeptInv'
<1>1. CASE UNCHANGED <<table, own>>
  BY <1>1 DEF KeptInv, Links!TemplateIsKept
<1>2. CASE Links!Shorten
  BY <1>2, LinksCached DEF Links!Shorten
<1>3. CASE Links!Enter
  <2>1. CASE Links!Cached(lop.id, lop.url, FALSE)
    BY <2>1, LinksCached
  <2>2. QED  BY <1>1, <1>3, <2>1 DEF Links!Enter
<1>4. CASE [Links!Next]_Links!vars /\ ~Links!Shorten /\ ~Links!Enter
  <2>1. UNCHANGED <<table, own>>
    BY <1>4 DEF Links!Next, Links!vars, Links!Collect, Links!ShortenLoses, Links!ShortenFails, Links!Derive,
       Links!Insert, Links!Log, Links!StatementFails, Links!Create, Links!GetLink, Links!Update, Links!Delete, Links!Ask
  <2>2. QED  BY <1>1, <2>1
<1>5. QED  BY <1>2, <1>3, <1>4

\* A row that names the template of a campaign goes on to name it, whatever an
\* operator enters later.
THEOREM LinksTemplateIsKept == Links!Spec => []Links!TemplateIsKept
<1>1. Links!Init => KeptInv
  BY DEF Links!Init, KeptInv, Links!TemplateIsKept
<1>2. KeptInv => Links!TemplateIsKept
  BY DEF KeptInv
<1>3. QED  BY <1>1, <1>2, LinksKept, PTL DEF Links!Spec

-----------------------------------------------------------------------------
(* The links of one campaign *)

Mapped == [dest : Links!Texts, url : Nat \ (1..99), id : Nat]
Text(i) == original[i].text

LinkTypes ==
  /\ original \in Seq([text : Links!Texts, href : BOOLEAN, skip : BOOLEAN])
  /\ html = [i \in DOMAIN original |-> html[i]]
  /\ todo \subseteq Links!Firsts /\ mappings \in Seq(Mapped) /\ remote \in Seq([dest : Links!Texts, there : BOOLEAN])
  /\ lpc = "collect" => mappings = <<>> /\ todo = {}
  /\ lapses \in Nat

\* A short link has a number of its own, and a destination of its own, which is
\* none of those that are still to come.
Apart ==
  /\ \A k \in DOMAIN mappings : /\ mappings[k].id \in 1..Len(remote) /\ mappings[k].dest \in Links!Destinations
                                /\ \A i \in todo : mappings[k].dest # Text(i)
  /\ \A k, l \in DOMAIN mappings : k # l => /\ mappings[k].id # mappings[l].id
                                            /\ mappings[k].dest # mappings[l].dest

\* Without trouble every destination has its short link or is still to come.
NoneLost ==
  lapses = 0 /\ lpc # "collect" =>
    \A d \in Links!Destinations : (\E i \in todo : Text(i) = d) \/ \E k \in DOMAIN mappings : mappings[k].dest = d

Throughout ==
  ~Links!Nested => \A i \in DOMAIN original :
    /\ \A k \in DOMAIN mappings : mappings[k].dest = Text(i) => html[i] = <<mappings[k].url>>
    /\ (\A k \in DOMAIN mappings : mappings[k].dest # Text(i)) => html[i] = Text(i)

\* How far the campaign is.
Stage ==
  /\ linked = TRUE => lpc \in {"log", "end"}
  /\ lpc \in {"insert", "log"} => todo = {}
  /\ told \in {"none", "ok", "error"} /\ (told # "none" => lpc = "end")
  /\ told = "ok" => linked = TRUE /\ todo = {}
  /\ lpc = "log" => linked = TRUE
  /\ lpc \in {"insert", "log"} \/ linked = TRUE => derived = (mappings # <<>>)
  /\ linked \in BOOLEAN

LinkInv == LinkTypes /\ Apart /\ NoneLost /\ Throughout /\ Stage

-----------------------------------------------------------------------------
(* Replacing *)

LEMMA LinksMin ==
  ASSUME NEW S, S \subseteq Nat, S # {}
  PROVE  Links!Min(S) \in S
<1> DEFINE R == OpToRel(<, Nat)
<1>1. IsWellFoundedOn(R, Nat)
  BY NatLessThanWellFounded
<1>2. \E e \in S : \A d \in S : ~(<<d, e>> \in R)
  <2> HIDE DEF R
  <2>1. QED BY <1>1, WFMin
<1>3. PICK e \in S : \A d \in S : ~(d < e)
  BY <1>2 DEF OpToRel
<1>4. \A d \in S : e <= d
  BY <1>3
<1>5. QED  BY <1>4 DEF Links!Min

\* A destination that a text begins with is the text itself, is a part of it, or
\* is not there.
LEMMA LinksReplaced ==
  ASSUME NEW d \in Links!Texts, NEW u \in Nat
  PROVE  /\ Links!Replaced(d, d, u) = <<u>>
         /\ \A t \in Links!Texts : t # d /\ ~Links!IsStrictPrefix(d, t) => Links!Replaced(t, d, u) = t
         /\ \A v \in Nat \ (1..99) : Links!Replaced(<<v>>, d, u) = <<v>>
<1>1. d \in Seq(1..99) /\ d # <<>> /\ Len(d) \in Nat /\ Len(d) >= 1
  BY DEF Links!Texts
<1>2. Links!Replaced(d, d, u) = <<u>>
  <2>1. Links!IsPrefix(d, d)
    BY <1>1 DEF Links!IsPrefix
  <2>2. SubSeq(d, Len(d) + 1, Len(d)) = <<>>
    BY <1>1
  <2>3. <<u>> \o <<>> = <<u>>
    OBVIOUS
  <2>4. QED  BY <2>1, <2>2, <2>3 DEF Links!Replaced
<1>3. ASSUME NEW t \in Links!Texts, t # d, ~Links!IsStrictPrefix(d, t) PROVE Links!Replaced(t, d, u) = t
  BY <1>3 DEF Links!Replaced, Links!IsStrictPrefix
<1>4. ASSUME NEW v \in Nat \ (1..99) PROVE Links!Replaced(<<v>>, d, u) = <<v>>
  <2>1. SUFFICES ASSUME Links!IsPrefix(d, <<v>>) PROVE FALSE
    BY DEF Links!Replaced
  <2>2. Len(d) = 1
    BY <1>1, <2>1 DEF Links!IsPrefix
  <2>3. d[1] = v
    BY <1>1, <2>1, <2>2 DEF Links!IsPrefix
  <2>4. d[1] \in 1..99
    <3>1. 1 \in 1..Len(d)
      BY <2>2
    <3>2. QED  BY <1>1, <3>1, ElementOfSeq
  <2>5. QED  BY <2>3, <2>4
<1>5. QED  BY <1>2, <1>3, <1>4

-----------------------------------------------------------------------------
(* Steps *)

LEMMA LinksInit ==
  ASSUME Links!LinksAssumption, Links!Init
  PROVE  LinkInv
<1>1. /\ todo = {} /\ mappings = <<>> /\ lpc = "collect" /\ linked = FALSE /\ told = "none"
      /\ remote = <<>> /\ lapses = 0 /\ original \in Htmls /\ html = [i \in DOMAIN original |-> original[i].text]
  BY DEF Links!Init
<1>2. original \in Seq([text : Links!Texts, href : BOOLEAN, skip : BOOLEAN])
  BY <1>1 DEF Links!LinksAssumption
<1>3. linked \in BOOLEAN /\ linked # TRUE
  BY Zenon, <1>1
<1>4. mappings \in Seq(Mapped) /\ remote \in Seq([dest : Links!Texts, there : BOOLEAN]) /\ DOMAIN mappings = {}
  BY <1>1
<1>5. LinkTypes
  BY <1>1, <1>2, <1>4 DEF LinkTypes
<1>6. Apart /\ NoneLost /\ Throughout
  BY <1>1, <1>4 DEF Apart, NoneLost, Throughout, Text
<1>7. Stage
  BY <1>1, <1>3 DEF Stage
<1>8. QED  BY <1>5, <1>6, <1>7 DEF LinkInv

LEMMA LinksAppend ==
  ASSUME NEW S, NEW s \in Seq(S), NEW m \in S
  PROVE  /\ Append(s, m) \in Seq(S) /\ Append(s, m) # <<>>
         /\ Len(Append(s, m)) = Len(s) + 1 /\ Len(s) \in Nat
         /\ DOMAIN Append(s, m) = DOMAIN s \cup {Len(s) + 1}
         /\ \A k \in DOMAIN s : Append(s, m)[k] = s[k]
         /\ Append(s, m)[Len(s) + 1] = m /\ Len(s) + 1 \notin DOMAIN s
<1>1. Len(s) \in Nat /\ DOMAIN s = 1..Len(s) /\ Append(s, m) \in Seq(S) /\ Len(Append(s, m)) = Len(s) + 1
  OBVIOUS
<1>2. DOMAIN Append(s, m) = 1..(Len(s) + 1)
  BY <1>1
<1>3. 1..(Len(s) + 1) = 1..Len(s) \cup {Len(s) + 1}
  BY <1>1
<1>4. \A k \in 1..(Len(s) + 1) : Append(s, m)[k] = IF k = Len(s) + 1 THEN m ELSE s[k]
  BY <1>1
<1>5. QED  BY <1>1, <1>2, <1>3, <1>4

LEMMA LinksElement ==
  ASSUME NEW S, NEW s \in Seq(S), NEW k \in DOMAIN s
  PROVE  s[k] \in S
<1>1. k \in 1..Len(s)
  OBVIOUS
<1>2. QED  BY <1>1, ElementOfSeq

\* The destination that is next.
LEMMA LinksNextDest ==
  ASSUME LinkInv, todo # {}
  PROVE  /\ Links!Min(todo) \in todo /\ Links!Min(todo) \in DOMAIN original /\ Links!Wanted(Links!Min(todo))
         /\ Links!Dest = Text(Links!Min(todo)) /\ Links!Dest \in Links!Texts /\ Links!Dest \in Links!Destinations
         /\ \A i \in todo : Text(i) = Links!Dest => i = Links!Min(todo)
<1>1. todo \subseteq Links!Firsts /\ Links!Firsts \subseteq DOMAIN original /\ DOMAIN original \subseteq Nat
  BY DEF LinkInv, LinkTypes, Links!Firsts
<1>2. Links!Min(todo) \in todo
  BY <1>1, LinksMin
<1> DEFINE n == Links!Min(todo)
<1>3. n \in Links!Firsts /\ n \in DOMAIN original /\ Links!Wanted(n)
  BY <1>1, <1>2 DEF Links!Firsts
<1>4. Links!Dest = Text(n) /\ Text(n) \in Links!Destinations
  BY <1>3 DEF Links!Dest, Links!Destinations, Text
<1>5. Text(n) \in Links!Texts
  <2>1. original[n] \in [text : Links!Texts, href : BOOLEAN, skip : BOOLEAN]
    BY <1>3, LinksElement DEF LinkInv, LinkTypes
  <2>2. QED  BY <2>1 DEF Text
<1>6. ASSUME NEW i \in todo, Text(i) = Text(n) PROVE i = n
  <2>1. i \in Links!Firsts /\ n \in Links!Firsts /\ i \in DOMAIN original
    BY <1>1, <1>2
  <2>2. i \in Nat /\ n \in Nat /\ i >= 1 /\ n >= 1
    <3>1. DOMAIN original = 1..Len(original) /\ Len(original) \in Nat
      BY DEF LinkInv, LinkTypes
    <3> HIDE DEF n
    <3>2. QED  BY <1>3, <2>1, <3>1
  <2> HIDE DEF n
  <2>3. ~(i < n)
    <3>1. SUFFICES ASSUME i < n PROVE FALSE
      OBVIOUS
    <3>2. i \in 1..(n - 1)
      BY <2>2, <3>1
    <3>3. QED  BY <1>6, <2>1, <3>2 DEF Links!Firsts, Text
  <2>4. ~(n < i)
    <3>1. SUFFICES ASSUME n < i PROVE FALSE
      OBVIOUS
    <3>2. n \in 1..(i - 1)
      BY <2>2, <3>1
    <3>3. QED  BY <1>6, <2>1, <3>2 DEF Links!Firsts, Text
  <2>5. QED  BY <2>2, <2>3, <2>4
<1>7. QED  BY <1>2, <1>3, <1>4, <1>5, <1>6

\* The service has made a link for the next destination, and there is one more.
LEMMA LinksLink ==
  ASSUME LinkInv, todo # {}, Links!Link
  PROVE  remote' \in Seq([dest : Links!Texts, there : BOOLEAN]) /\ Len(remote') = Len(remote) + 1 /\ Len(remote) \in Nat
<1>1. [dest |-> Links!Dest, there |-> TRUE] \in [dest : Links!Texts, there : BOOLEAN]
  BY LinksNextDest
<1>2. QED  BY <1>1, LinksAppend DEF Links!Link, LinkInv, LinkTypes

LEMMA LinksUse ==
  ASSUME LinkInv, todo # {}, lpc = "ask", Links!Link, NEW url \in Nat \ (1..99),
         Links!Use(Len(remote) + 1, url), todo' = todo \ {Links!Min(todo)},
         UNCHANGED <<original, lpc, derived, linked, told>>, lapses' \in Nat, lapses' = 0 => lapses = 0
  PROVE  LinkInv'
<1> USE DEF LinkInv
<1> DEFINE d == Links!Dest
           n == Links!Min(todo)
           m == [dest |-> d, url |-> url, id |-> Len(remote) + 1]
           z == Len(mappings) + 1
<1>1. /\ n \in todo /\ n \in DOMAIN original /\ Links!Wanted(n)
      /\ d = Text(n) /\ d \in Links!Texts /\ d \in Links!Destinations
      /\ \A i \in todo : Text(i) = d => i = n
  BY LinksNextDest
<1>2. /\ remote' \in Seq([dest : Links!Texts, there : BOOLEAN]) /\ Len(remote') = Len(remote) + 1 /\ Len(remote) \in Nat
  BY LinksLink
<1>3. html' = [i \in DOMAIN html |-> Links!Replaced(html[i], d, url)] /\ mappings' = Append(mappings, m)
  BY DEF Links!Use
<1>4. m \in Mapped /\ mappings \in Seq(Mapped)
  BY <1>1, <1>2 DEF Mapped, LinkTypes
<1> HIDE DEF m
<1>5. /\ mappings' \in Seq(Mapped) /\ DOMAIN mappings' = DOMAIN mappings \cup {z} /\ z \notin DOMAIN mappings
      /\ (\A k \in DOMAIN mappings : mappings'[k] = mappings[k]) /\ mappings'[z] = m
  BY <1>3, <1>4, LinksAppend
<1>6. m.dest = d /\ m.url = url /\ m.id = Len(remote) + 1
  BY DEF m
<1> HIDE DEF m, z, d, n
<1>7. \A i : Text(i)' = Text(i)
  BY DEF Text
<1>8. Links!Destinations' = Links!Destinations /\ Links!Firsts' = Links!Firsts /\ (Links!Nested' <=> Links!Nested)
  BY DEF Links!Destinations, Links!Firsts, Links!Wanted, Links!Nested
<1>9. LinkTypes'
  <2>1. html' = [i \in DOMAIN original |-> html'[i]]
    BY <1>3 DEF LinkTypes
  <2>2. todo' \subseteq Links!Firsts'
    BY <1>8 DEF LinkTypes
  <2>3. QED  BY <1>2, <1>5, <2>1, <2>2 DEF LinkTypes
<1>10. Apart'
  <2>1. ASSUME NEW k \in DOMAIN mappings'
        PROVE  /\ mappings'[k].id \in 1..Len(remote') /\ mappings'[k].dest \in Links!Destinations
               /\ \A i \in todo' : mappings'[k].dest # Text(i)
    <3>1. CASE k \in DOMAIN mappings
      <4>1. mappings[k].id \in 1..Len(remote)
        BY <3>1 DEF Apart
      <4>2. mappings[k].id \in 1..Len(remote')
        BY <1>2, <4>1
      <4>3. QED  BY <1>5, <3>1, <4>2 DEF Apart
    <3>2. CASE k = z
      <4>0. mappings'[k] = m
        BY <1>5, <3>2
      <4>1. mappings'[k].id \in 1..Len(remote') /\ mappings'[k].dest = d
        BY <1>2, <1>6, <4>0
      <4>2. todo' = todo \ {n}
        BY DEF n
      <4>3. QED  BY <1>1, <4>1, <4>2
    <3>3. QED  BY <1>5, <3>1, <3>2
  <2>2. ASSUME NEW k \in DOMAIN mappings
        PROVE  mappings'[k].id # mappings'[z].id /\ mappings'[k].dest # mappings'[z].dest
    <3>1. mappings'[k] = mappings[k] /\ mappings[k].id \in 1..Len(remote)
      BY <1>5 DEF Apart
    <3>2. mappings'[z].id = Len(remote) + 1 /\ mappings'[z].dest = d /\ mappings[k].dest # d
      BY <1>1, <1>5, <1>6 DEF Apart
    <3>3. QED  BY <1>2, <3>1, <3>2
  <2>3. \A k, l \in DOMAIN mappings' : k # l => /\ mappings'[k].id # mappings'[l].id
                                                /\ mappings'[k].dest # mappings'[l].dest
    <3>1. \A k, l \in DOMAIN mappings : k # l => /\ mappings'[k].id # mappings'[l].id
                                                 /\ mappings'[k].dest # mappings'[l].dest
      BY <1>5 DEF Apart
    <3>2. QED  BY <1>5, <2>2, <3>1
  <2>4. QED  BY <1>7, <1>8, <2>1, <2>3 DEF Apart
<1>11. NoneLost'
  <2>1. SUFFICES ASSUME lapses' = 0, NEW e \in Links!Destinations
                 PROVE  (\E i \in todo' : Text(i) = e) \/ \E k \in DOMAIN mappings' : mappings'[k].dest = e
    BY <1>7, <1>8 DEF NoneLost
  <2>2. (\E i \in todo : Text(i) = e) \/ \E k \in DOMAIN mappings : mappings[k].dest = e
    BY <2>1 DEF NoneLost
  <2>3. todo' = todo \ {n} /\ mappings'[z].dest = Text(n)
    BY <1>1, <1>5, <1>6 DEF n
  <2>4. QED  BY <1>5, <2>2, <2>3
<1>12. Throughout'
  <2>1. SUFFICES ASSUME ~Links!Nested, NEW i \in DOMAIN original
                 PROVE  /\ \A k \in DOMAIN mappings' : mappings'[k].dest = Text(i) => html'[i] = <<mappings'[k].url>>
                        /\ (\A k \in DOMAIN mappings' : mappings'[k].dest # Text(i)) => html'[i] = Text(i)
    BY <1>7, <1>8 DEF Throughout
  <2>2. html'[i] = Links!Replaced(html[i], d, url)
    BY <1>3 DEF LinkTypes
  <2>3. Text(i) \in Links!Texts
    <3>1. original[i] \in [text : Links!Texts, href : BOOLEAN, skip : BOOLEAN]
      BY LinksElement DEF LinkTypes
    <3>2. QED  BY <3>1 DEF Text
  <2>4. ~Links!IsStrictPrefix(d, Text(i))
    BY <1>1, <2>1 DEF Links!Nested, Text
  <2>5. CASE Text(i) = d
    <3>1. html[i] = d
      BY <1>1, <2>1, <2>5 DEF Throughout, Apart
    <3>2. html'[i] = <<url>>
      BY <1>1, <2>2, <3>1, LinksReplaced
    <3>3. \A k \in DOMAIN mappings : mappings'[k].dest # d
      BY <1>1, <1>5 DEF Apart
    <3>4. mappings'[z].dest = d /\ mappings'[z].url = url
      BY <1>5, <1>6
    <3>5. QED  BY <1>5, <2>5, <3>2, <3>3, <3>4
  <2>6. ASSUME Text(i) # d, NEW k \in DOMAIN mappings, mappings[k].dest = Text(i)
        PROVE  html'[i] = <<mappings'[k].url>>
    <3>1. html[i] = <<mappings[k].url>>
      BY <2>1, <2>6 DEF Throughout
    <3>2. mappings[k].url \in Nat \ (1..99)
      <4>1. mappings[k] \in Mapped
        BY LinksElement DEF LinkTypes
      <4>2. QED  BY <4>1 DEF Mapped
    <3>3. Links!Replaced(<<mappings[k].url>>, d, url) = <<mappings[k].url>>
      BY <1>1, <3>2, LinksReplaced
    <3>4. QED  BY <1>5, <2>2, <3>1, <3>3
  <2>7. ASSUME Text(i) # d, \A k \in DOMAIN mappings : mappings[k].dest # Text(i)
        PROVE  html'[i] = Text(i)
    <3>1. html[i] = Text(i)
      BY <2>1, <2>7 DEF Throughout
    <3>2. QED  BY <1>1, <2>2, <2>3, <2>4, <2>7, <3>1, LinksReplaced
  <2>8. CASE Text(i) # d
    <3>1. mappings'[z].dest # Text(i)
      BY <1>5, <1>6, <2>8
    <3>2. QED  BY <1>5, <2>6, <2>7, <2>8, <3>1
  <2>9. QED  BY <2>5, <2>8
<1>13. Stage'
  BY DEF Stage
<1>14. QED  BY <1>9, <1>10, <1>11, <1>12, <1>13

\* A destination is given up: the trouble is on record.
LEMMA LinksSkip ==
  ASSUME LinkInv, todo # {}, lpc = "ask", Links!Link, todo' = todo \ {Links!Min(todo)},
         UNCHANGED <<original, html, mappings, lpc, derived, linked, told>>, lapses' \in Nat \ {0}
  PROVE  LinkInv'
<1> USE DEF LinkInv
<1>1. remote' \in Seq([dest : Links!Texts, there : BOOLEAN]) /\ Len(remote') = Len(remote) + 1 /\ Len(remote) \in Nat
  BY LinksLink
<1>2. \A i : Text(i)' = Text(i)
  BY DEF Text
<1>3. Links!Destinations' = Links!Destinations /\ Links!Firsts' = Links!Firsts /\ (Links!Nested' <=> Links!Nested)
  BY DEF Links!Destinations, Links!Firsts, Links!Wanted, Links!Nested
<1>4. LinkTypes'
  BY <1>1, <1>3 DEF LinkTypes
<1>5. \A k \in DOMAIN mappings : mappings[k].id \in 1..Len(remote')
  <2>1. \A k \in DOMAIN mappings : mappings[k].id \in 1..Len(remote)
    BY DEF Apart
  <2>2. QED  BY <1>1, <2>1
<1>6. Apart'
  BY <1>2, <1>3, <1>5 DEF Apart
<1>7. NoneLost' /\ Throughout'
  BY <1>2, <1>3 DEF NoneLost, Throughout
<1>8. Stage'
  BY DEF Stage
<1>9. QED  BY <1>4, <1>6, <1>7, <1>8

\* Everything else leaves the template and the links of the campaign alone.
LEMMA LinksStill ==
  ASSUME LinkInv, UNCHANGED <<original, html, todo, mappings>>, lpc' = "collect" <=> lpc = "collect", Stage',
         remote' \in Seq([dest : Links!Texts, there : BOOLEAN]), Len(remote') >= Len(remote),
         lapses' \in Nat, lapses' = 0 => lapses = 0
  PROVE  LinkInv'
<1> USE DEF LinkInv
<1>1. \A i : Text(i)' = Text(i)
  BY DEF Text
<1>2. Links!Destinations' = Links!Destinations /\ Links!Firsts' = Links!Firsts /\ (Links!Nested' <=> Links!Nested)
  BY DEF Links!Destinations, Links!Firsts, Links!Wanted, Links!Nested
<1>3. LinkTypes'
  BY <1>2 DEF LinkTypes
<1>4. \A k \in DOMAIN mappings : mappings[k].id \in 1..Len(remote')
  <2>1. \A k \in DOMAIN mappings : mappings[k].id \in 1..Len(remote)
    BY DEF Apart
  <2>2. Len(remote) \in Nat /\ Len(remote') \in Nat
    BY DEF LinkTypes
  <2>3. QED  BY <2>1, <2>2
<1>5. Apart'
  BY <1>1, <1>2, <1>4 DEF Apart
<1>6. NoneLost' /\ Throughout'
  BY <1>1, <1>2 DEF NoneLost, Throughout
<1>7. QED  BY <1>3, <1>5, <1>6

LEMMA LinksCreation ==
  ASSUME LinkInv, Links!Collect \/ Links!Shorten \/ Links!ShortenLoses \/ Links!ShortenFails \/ Links!Derive
                  \/ Links!Insert \/ Links!Log \/ Links!StatementFails
  PROVE  LinkInv'
<1> USE DEF LinkInv
<1>1. remote \in Seq([dest : Links!Texts, there : BOOLEAN]) /\ Len(remote) \in Nat /\ lapses \in Nat
  BY DEF LinkTypes
<1>2. CASE Links!Collect
  <2>1. /\ lpc = "collect" /\ lpc' = "ask" /\ todo' = Links!Firsts /\ mappings = <<>> /\ todo = {}
        /\ UNCHANGED <<original, html, mappings, derived, linked, told, remote, lapses>>
    BY <1>2 DEF Links!Collect, Links!ResultVars, LinkTypes
  <2>2. \A i : Text(i)' = Text(i)
    BY <2>1 DEF Text
  <2>3. Links!Destinations' = Links!Destinations /\ Links!Firsts' = Links!Firsts /\ (Links!Nested' <=> Links!Nested)
    BY <2>1 DEF Links!Destinations, Links!Firsts, Links!Wanted, Links!Nested
  <2>4. LinkTypes'
    BY <2>1, <2>3 DEF LinkTypes
  <2>5. Apart' /\ Throughout'
    BY <2>1, <2>2, <2>3 DEF Apart, Throughout
  <2>6. NoneLost'
    <3>1. \A e \in Links!Destinations : \E i \in Links!Firsts : Text(i) = e
      BY DEF Links!Destinations, Text
    <3>2. QED  BY <2>1, <2>2, <2>3, <3>1 DEF NoneLost
  <2>7. Stage'
    BY <2>1 DEF Stage
  <2>8. QED  BY <2>4, <2>5, <2>6, <2>7
<1>3. CASE Links!Shorten
  <2>1. PICK url \in {Links!Short(Len(remote) + 1), Links!Base} :
          /\ url = Links!Base => Links!Mishap
          /\ url # Links!Base => UNCHANGED lapses
          /\ Links!Use(Len(remote) + 1, url)
    BY <1>3 DEF Links!Shorten
  <2>2. url \in Nat \ (1..99)
    BY <1>1 DEF Links!Short, Links!Base
  <2>3. lapses' \in Nat /\ (lapses' = 0 => lapses = 0)
    BY <1>1, <2>1 DEF Links!Mishap
  <2>4. todo # {} /\ lpc = "ask" /\ Links!Link /\ todo' = todo \ {Links!Min(todo)}
        /\ UNCHANGED <<original, lpc, derived, linked, told>>
    BY <1>3 DEF Links!Shorten, Links!ResultVars
  <2>5. QED  BY <2>1, <2>2, <2>3, <2>4, LinksUse
<1>4. CASE Links!ShortenLoses
  <2>1. /\ todo # {} /\ lpc = "ask" /\ Links!Link /\ todo' = todo \ {Links!Min(todo)}
        /\ UNCHANGED <<original, lpc, derived, linked, told>>
    BY <1>4 DEF Links!ShortenLoses, Links!ResultVars
  <2>2. lapses' \in Nat \ {0}
    BY <1>1, <1>4 DEF Links!ShortenLoses, Links!Mishap
  <2>3. CASE Links!Use(Len(remote) + 1, Links!Short(Len(remote) + 1))
    <3>1. PICK n \in Nat : n = Len(remote) + 1
      BY <1>1
    <3>2. Links!Short(n) \in Nat \ (1..99)
      BY DEF Links!Short
    <3>3. Links!Short(Len(remote) + 1) \in Nat \ (1..99)
      BY <3>1, <3>2
    <3>4. QED  BY <2>1, <2>2, <2>3, <3>3, LinksUse
  <2>4. CASE UNCHANGED <<html, mappings>>
    BY <2>1, <2>2, <2>4, LinksSkip
  <2>5. QED  BY <1>4, <2>3, <2>4 DEF Links!ShortenLoses
<1>5. CASE Links!ShortenFails
  <2>1. /\ UNCHANGED <<original, html, todo, mappings, derived, linked>> /\ lpc = "ask" /\ todo # {}
        /\ lpc' = "end" /\ told' = "error" /\ lapses' = lapses + 1
    BY <1>5 DEF Links!ShortenFails, Links!ResultVars, Links!Mishap, Links!Fail
  <2>2. remote' \in Seq([dest : Links!Texts, there : BOOLEAN]) /\ Len(remote') >= Len(remote)
    BY <1>1, <1>5, <2>1, LinksLink DEF Links!ShortenFails
  <2>3. Stage'
    BY <2>1 DEF Stage
  <2>4. QED  BY <1>1, <2>1, <2>2, <2>3, LinksStill
<1>6. CASE Links!Derive
  <2>1. /\ UNCHANGED <<original, html, todo, mappings, linked, told, remote, lapses>> /\ lpc = "ask" /\ todo = {}
        /\ lpc' = "insert" /\ derived' = (mappings # <<>>)
    BY <1>6 DEF Links!Derive
  <2>2. Stage'
    BY Zenon, <2>1 DEF Stage
  <2>3. QED  BY <1>1, <2>1, <2>2, LinksStill
<1>7. CASE Links!Insert
  <2>1. /\ UNCHANGED <<original, html, todo, mappings, derived, remote, lapses>> /\ lpc = "insert" /\ linked' = TRUE
        /\ \/ mappings = <<>> /\ lpc' = "end" /\ told' = "ok"
           \/ mappings # <<>> /\ lpc' = "log" /\ told' = told
    BY <1>7 DEF Links!Insert
  <2>2. Stage'
    BY Zenon, <2>1 DEF Stage
  <2>3. QED  BY <1>1, <2>1, <2>2, LinksStill
<1>8. CASE Links!Log
  <2>1. /\ UNCHANGED <<original, html, todo, mappings, derived, linked, remote, lapses>> /\ lpc = "log"
        /\ lpc' = "end" /\ told' = "ok"
    BY <1>8 DEF Links!Log, Links!ResultVars
  <2>2. Stage'
    BY Zenon, <2>1 DEF Stage
  <2>3. QED  BY <1>1, <2>1, <2>2, LinksStill
<1>9. CASE Links!StatementFails
  <2>1. /\ UNCHANGED <<original, html, todo, mappings, derived, linked, remote>>
        /\ lpc \in {"insert", "log", "ask"} /\ lpc' = "end" /\ told' = "error" /\ lapses' = lapses + 1
    BY <1>9 DEF Links!StatementFails, Links!ResultVars, Links!Mishap, Links!Fail
  <2>2. Stage'
    BY Zenon, <2>1 DEF Stage
  <2>3. QED  BY <1>1, <2>1, <2>2, LinksStill
<1>10. QED  BY <1>2, <1>3, <1>4, <1>5, <1>6, <1>7, <1>8, <1>9

LEMMA LinksNext ==
  ASSUME LinkInv, [Links!Next]_Links!vars
  PROVE  LinkInv'
<1> USE DEF LinkInv
<1>1. remote \in Seq([dest : Links!Texts, there : BOOLEAN]) /\ Len(remote) \in Nat /\ lapses \in Nat
  BY DEF LinkTypes
<1>2. ASSUME UNCHANGED <<original, html, todo, mappings, lpc, derived, linked, told>>,
             remote' \in Seq([dest : Links!Texts, there : BOOLEAN]), Len(remote') >= Len(remote),
             lapses' \in Nat, lapses' = 0 => lapses = 0
      PROVE  LinkInv'
  <2>1. Stage'
    BY Zenon, <1>2 DEF Stage
  <2>2. QED  BY <1>2, <2>1, LinksStill
<1>3. ASSUME Links!Ask, remote' \in Seq([dest : Links!Texts, there : BOOLEAN]), Len(remote') >= Len(remote)
      PROVE  LinkInv'
  BY <1>1, <1>2, <1>3 DEF Links!Ask, Links!ResultVars
<1>4. CASE Links!Create
  <2>1. PICK i \in DOMAIN original : remote' = Append(remote, [dest |-> original[i].text, there |-> TRUE])
    BY <1>4 DEF Links!Create
  <2>2. original[i] \in [text : Links!Texts, href : BOOLEAN, skip : BOOLEAN]
    BY LinksElement DEF LinkTypes
  <2>3. [dest |-> original[i].text, there |-> TRUE] \in [dest : Links!Texts, there : BOOLEAN]
    BY <2>2
  <2>4. remote' \in Seq([dest : Links!Texts, there : BOOLEAN]) /\ Len(remote') = Len(remote) + 1
    BY <1>1, <2>1, <2>3, LinksAppend
  <2>5. QED  BY <1>1, <1>3, <1>4, <2>4 DEF Links!Create
<1>5. ASSUME NEW id \in DOMAIN remote, NEW r \in [dest : Links!Texts, there : BOOLEAN], remote' = [remote EXCEPT ![id] = r], Links!Ask
      PROVE  LinkInv'
  <2>1. id \in 1..Len(remote)
    BY <1>1
  <2>2. remote' \in Seq([dest : Links!Texts, there : BOOLEAN]) /\ Len(remote') = Len(remote)
    BY <1>1, <1>5, <2>1, ExceptSeq
  <2>3. QED  BY <1>1, <1>3, <1>5, <2>2
<1>6. CASE Links!Update
  <2>1. PICK id \in DOMAIN remote, i \in DOMAIN original : remote' = [remote EXCEPT ![id].dest = original[i].text]
    BY <1>6 DEF Links!Update
  <2> DEFINE r == [remote[id] EXCEPT !.dest = original[i].text]
  <2>2. original[i] \in [text : Links!Texts, href : BOOLEAN, skip : BOOLEAN] /\ remote[id] \in [dest : Links!Texts, there : BOOLEAN]
    BY <1>1, LinksElement DEF LinkTypes
  <2>3. r \in [dest : Links!Texts, there : BOOLEAN] /\ remote' = [remote EXCEPT ![id] = r]
    BY <2>1, <2>2
  <2> HIDE DEF r
  <2>4. QED  BY <1>5, <1>6, <2>3 DEF Links!Update
<1>7. CASE Links!Delete
  <2>1. PICK id \in DOMAIN remote : remote' = [remote EXCEPT ![id].there = FALSE]
    BY <1>7 DEF Links!Delete
  <2> DEFINE r == [remote[id] EXCEPT !.there = FALSE]
  <2>2. remote[id] \in [dest : Links!Texts, there : BOOLEAN]
    BY <1>1, LinksElement
  <2>3. r \in [dest : Links!Texts, there : BOOLEAN] /\ remote' = [remote EXCEPT ![id] = r]
    BY <2>1, <2>2
  <2> HIDE DEF r
  <2>4. QED  BY <1>5, <1>7, <2>3 DEF Links!Delete
<1>8. CASE Links!GetLink
  BY <1>1, <1>3, <1>8 DEF Links!GetLink
<1>9. CASE Links!Enter
  <2>1. UNCHANGED <<original, html, todo, mappings, lpc, derived, linked, told, remote>>
        /\ (UNCHANGED lapses \/ lapses' = lapses + 1)
    BY <1>9 DEF Links!Enter, Links!ResultVars, Links!Mishap
  <2>2. QED  BY <1>1, <1>2, <2>1
<1>10. CASE UNCHANGED Links!vars
  BY <1>1, <1>2, <1>10 DEF Links!vars, Links!OperatorVars, Links!ResultVars
<1>11. QED  BY <1>4, <1>6, <1>7, <1>8, <1>9, <1>10, LinksCreation DEF Links!Next

-----------------------------------------------------------------------------
(* What follows *)

LEMMA LinksWhole ==
  ASSUME LinkInv
  PROVE  Links!CampaignIsWhole /\ Links!ShortenedThroughout
<1> USE DEF LinkInv
<1>1. linked => linked = TRUE
  BY Zenon DEF Stage
<1>2. Links!CampaignIsWhole
  <2>1. (linked => derived = (mappings # <<>>)) /\ (told = "ok" => linked)
    BY Zenon, <1>1 DEF Stage
  <2>2. ASSUME told = "ok", lapses = 0 PROVE {mappings[k].dest : k \in DOMAIN mappings} = Links!Destinations
    <3>1. todo = {} /\ lpc # "collect"
      BY <2>2 DEF Stage
    <3>2. \A d \in Links!Destinations : \E k \in DOMAIN mappings : mappings[k].dest = d
      BY <2>2, <3>1 DEF NoneLost
    <3>3. \A k \in DOMAIN mappings : mappings[k].dest \in Links!Destinations
      BY DEF Apart
    <3>4. QED  BY <3>2, <3>3
  <2>3. \A k, l \in DOMAIN mappings : mappings[k].id = mappings[l].id => k = l
    BY DEF Apart
  <2>4. QED  BY <2>1, <2>2, <2>3 DEF Links!CampaignIsWhole
<1>3. Links!ShortenedThroughout
  <2>1. SUFFICES ASSUME ~Links!Nested, NEW i \in DOMAIN original
                 PROVE  LET found == {k \in DOMAIN mappings : mappings[k].dest = original[i].text}
                        IN  /\ Links!Cardinality(found) <= 1
                            /\ html[i] = IF found = {} THEN original[i].text
                                         ELSE <<mappings[CHOOSE k \in found : TRUE].url>>
    BY DEF Links!ShortenedThroughout
  <2> DEFINE found == {k \in DOMAIN mappings : mappings[k].dest = original[i].text}
  <2>2. /\ \A k \in found : html[i] = <<mappings[k].url>>
        /\ found = {} => html[i] = original[i].text
    BY <2>1 DEF Throughout, Text
  <2>3. \A k, l \in found : k = l
    BY DEF Apart
  <2>4. Links!Cardinality(found) = Cardinality(found)
    BY DEF Links!Cardinality, Cardinality
  <2> HIDE DEF found
  <2>5. CASE found = {}
    BY <2>2, <2>4, <2>5, FS_EmptySet DEF found
  <2>6. CASE found # {}
    <3>1. PICK k : k \in found
      BY <2>6
    <3>2. found = {k}
      BY <2>3, <3>1
    <3>3. Cardinality(found) = 1
      BY <3>2, FS_Singleton
    <3>4. (CHOOSE l \in found : TRUE) \in found
      BY <2>6
    <3>5. html[i] = <<mappings[CHOOSE l \in found : TRUE].url>>
      BY <2>2, <3>4
    <3>6. QED  BY <2>4, <2>6, <3>3, <3>5 DEF found
  <2>7. QED  BY <2>5, <2>6
<1>4. QED  BY <1>2, <1>3

\* A campaign with short links has a template of its own, without trouble all of
\* them, and no two of one number; wherever a destination stood there is its one
\* short link, unless a link is the beginning of another.
THEOREM LinksCampaignIsWhole ==
  ASSUME Links!LinksAssumption PROVE Links!Spec => [](Links!CampaignIsWhole /\ Links!ShortenedThroughout)
BY LinksInit, LinksNext, LinksWhole, PTL DEF Links!Spec

-----------------------------------------------------------------------------
(* Rotation of secrets *)

\* A script that is under way could read everything; it has changed what it
\* read, of the accounts that it had to change, and no other script has them.
Underway(s) ==
  /\ script[s].pc # "update" => script[s].staged = {}
  /\ script[s].pc = "update" => \A a \in Keepers : Secrets!Readable(script[s].stage, script[s].rows[a])
  /\ \A a \in script[s].staged : secret[a] = script[s].rows[a] /\ a \in Secrets!Targets(s)
Exclusive == \A s, t \in Scripts : s # t => script[s].staged \cap script[t].staged = {}

\* The new key is known to all by the time that a script is settled, or that
\* the old one is gone.
Known == /\ settled # {} \/ env = 3 => env # 1 /\ \A p \in Procs : ring[p] # 1
         /\ \A p \in Procs : ring[p] <= env

\* What was new when a settled script read is so for good; afterwards all is.
Renewed ==
  /\ \A s \in settled :
       /\ script[s].stage # 1
       /\ script[s].pc # "off"
       /\ script[s].pc = "update" => \A a \in Keepers : script[s].rows[a].ver = 2 => secret[a].ver = 2
       /\ script[s].pc = "done" => \A a \in Keepers : secret[a].ver = 2
  /\ env = 3 => \A a \in Keepers : secret[a].ver = 2

RotationInv ==
         /\ Secrets!TypeOK
         /\ Secrets!WordsAreKept
         /\ \A s \in Scripts : Underway(s)
         /\ Exclusive
         /\ Known
         /\ Renewed

\* Once everybody knows the new key nothing is encrypted with the old one again.
LEMMA RotationKeepsNew ==
  ASSUME RotationInv, NEW s \in Scripts, Secrets!ScriptCommit(s), NEW a \in Keepers, secret[a].ver = 2
  PROVE  secret'[a].ver = 2
<1>1. CASE a \in script[s].staged
  <2>1. script[s].stage # 1
    BY <1>1 DEF RotationInv, Secrets!TypeOK, Underway, Secrets!Readable, Secrets!Keys, Secrets!Stages, Secrets!Legacy, Secrets!ScriptCommit
  <2>2. QED  BY <1>1, <2>1 DEF RotationInv, Secrets!TypeOK, Secrets!ScriptCommit, Secrets!Rotated, Secrets!CurrentKey
<1>2. CASE a \notin script[s].staged
  BY <1>2 DEF Secrets!ScriptCommit
<1>3. QED  BY <1>1, <1>2

LEMMA RotationInit == Secrets!Init => RotationInv
BY DEF Secrets!Init, RotationInv, Secrets!TypeOK, Secrets!WordsAreKept, Underway, Exclusive, Known, Renewed, Secrets!Secrets, Secrets!Stages, Secrets!Legacy, Secrets!Odd

LEMMA RotationEdit ==
  ASSUME RotationInv, NEW p \in Procs, NEW a \in Keepers, Secrets!Edit(p, a)
  PROVE  RotationInv'
<1> USE DEF RotationInv, Secrets!Edit
<1>1. Secrets!TypeOK'
  BY DEF Secrets!TypeOK, Secrets!Secrets, Secrets!CurrentKey
<1>2. Secrets!WordsAreKept'
  BY DEF Secrets!TypeOK, Secrets!WordsAreKept, Secrets!Secrets
<1>3. (\A s \in Scripts : Underway(s))'
  BY DEF Secrets!TypeOK, Underway, Secrets!Locked, Secrets!Targets, Secrets!Readable, Secrets!Keys
<1>4. Exclusive' /\ Known'
  BY DEF Exclusive, Known
<1>5. settled # {} \/ env = 3 => Secrets!CurrentKey(ring[p]) = 2
  BY DEF Known, Secrets!CurrentKey
<1>6. Renewed'
  BY <1>5 DEF Secrets!TypeOK, Renewed
<1>7. QED  BY <1>1, <1>2, <1>3, <1>4, <1>6

LEMMA RotationRead ==
  ASSUME RotationInv, NEW s \in Scripts, Secrets!ScriptRead(s)
  PROVE  RotationInv'
<1> USE DEF RotationInv, Secrets!ScriptRead
<1>1. Secrets!TypeOK'
  BY DEF Secrets!TypeOK, Secrets!Secrets
<1>2. Secrets!WordsAreKept'
  BY DEF Secrets!WordsAreKept
<1>3. (\A t \in Scripts : Underway(t))'
  BY DEF Secrets!TypeOK, Underway, Secrets!Targets
<1>4. Exclusive'
  BY DEF Secrets!TypeOK, Exclusive
<1>5. s \notin settled
  BY DEF Renewed
<1>6. Known'
  BY DEF Known, Secrets!TypeOK, Secrets!Stages
<1>7. Renewed'
  BY <1>5 DEF Secrets!TypeOK, Renewed, Known, Secrets!Stages
<1>8. QED  BY <1>1, <1>2, <1>3, <1>4, <1>6, <1>7

LEMMA RotationGivesUp ==
  ASSUME RotationInv, NEW s \in Scripts, script[s].pc = "update", Secrets!GiveUp(s),
         UNCHANGED <<secret, env, ring, edits, word, settled>>
  PROVE  RotationInv'
<1> USE DEF RotationInv, Secrets!GiveUp
<1>1. Secrets!TypeOK'
  BY DEF Secrets!TypeOK
<1>2. Secrets!WordsAreKept' /\ Known'
  BY DEF Secrets!WordsAreKept, Known
<1>3. (\A t \in Scripts : Underway(t))' /\ Exclusive'
  BY DEF Secrets!TypeOK, Underway, Secrets!Targets, Exclusive
<1>4. Renewed'
  BY DEF Secrets!TypeOK, Renewed
<1>5. QED  BY <1>1, <1>2, <1>3, <1>4

LEMMA RotationUpdate ==
  ASSUME RotationInv, NEW s \in Scripts, Secrets!ScriptUpdate(s)
  PROVE  RotationInv'
<1>1. PICK a \in Keepers : /\ Secrets!NextTarget(s, a) /\ ~Secrets!Locked(a)
                           /\ IF secret[a] = script[s].rows[a] THEN Secrets!Stage(s, a) ELSE Secrets!GiveUp(s)
  BY DEF Secrets!ScriptUpdate
<1>2. CASE secret[a] # script[s].rows[a]
  BY <1>1, <1>2, RotationGivesUp DEF Secrets!ScriptUpdate
<1>3. CASE secret[a] = script[s].rows[a]
  <2> USE <1>1, <1>3 DEF RotationInv, Secrets!ScriptUpdate, Secrets!Stage
  <2>1. Secrets!TypeOK'
    <3>1. script[s].staged \cup {a} \in SUBSET Keepers
      BY DEF Secrets!TypeOK
    <3>2. [script[s] EXCEPT !.staged = @ \cup {a}]
            \in [pc : {"off", "update", "done", "failed"}, stage : Secrets!Stages,
                 rows : [Keepers -> Secrets!Secrets], staged : SUBSET Keepers]
      BY <3>1 DEF Secrets!TypeOK
    <3>3. QED  BY <3>2 DEF Secrets!TypeOK
  <2>2. Secrets!WordsAreKept' /\ Known'
    BY DEF Secrets!WordsAreKept, Known
  <2>3. (\A t \in Scripts : Underway(t))'
    BY DEF Secrets!TypeOK, Underway, Secrets!Targets, Secrets!NextTarget
  <2>4. Exclusive'
    BY DEF Secrets!TypeOK, Exclusive, Secrets!Locked
  <2>5. Renewed'
    BY DEF Secrets!TypeOK, Renewed
  <2>6. QED  BY <2>1, <2>2, <2>3, <2>4, <2>5
<1>4. QED  BY <1>2, <1>3

LEMMA RotationCommit ==
  ASSUME RotationInv, NEW s \in Scripts, Secrets!ScriptCommit(s)
  PROVE  RotationInv'
<1>1. \A a \in Keepers : secret[a].ver = 2 => secret'[a].ver = 2
  BY RotationKeepsNew
<1> USE DEF RotationInv, Secrets!ScriptCommit
<1>2. Secrets!TypeOK'
  <2>1. \A a \in Keepers : Secrets!Rotated(s, a) \in Secrets!Secrets
    BY DEF Secrets!TypeOK, Secrets!Secrets, Secrets!Rotated, Secrets!CurrentKey
  <2>2. secret' \in [Keepers -> Secrets!Secrets]
    BY <2>1 DEF Secrets!TypeOK
  <2>3. QED  BY <2>2, ZenonT(40) DEF Secrets!TypeOK
<1>3. Secrets!WordsAreKept'
  BY DEF Secrets!TypeOK, Secrets!WordsAreKept, Underway, Secrets!Rotated
<1>4. (\A t \in Scripts : Underway(t))'
  <2> SUFFICES ASSUME NEW t \in Scripts PROVE Underway(t)'
    OBVIOUS
  <2>1. CASE t = s
    <3>1. script'[s].pc = "done" /\ script'[s].staged = {}
      BY DEF Secrets!TypeOK
    <3>2. \A a \in script'[s].staged : FALSE
      BY <3>1
    <3>3. Underway(s)'
      BY <3>1, <3>2 DEF Underway
    <3>4. QED  BY <2>1, <3>3
  <2>2. CASE t # s
    <3>1. script'[t] = script[t] /\ Secrets!Targets(t)' = Secrets!Targets(t)
      BY <2>2 DEF Secrets!TypeOK, Secrets!Targets
    <3>2. \A a \in script[t].staged : a \in Keepers /\ secret'[a] = secret[a]
      BY <2>2 DEF Secrets!TypeOK, Exclusive
    <3>3. Underway(t)
      OBVIOUS
    <3>4. QED  BY <3>1, <3>2, <3>3, ZenonT(40) DEF Underway
  <2>3. QED  BY <2>1, <2>2
<1>5. Exclusive' /\ Known'
  BY DEF Secrets!TypeOK, Exclusive, Known
<1>6. s \in settled => \A a \in Keepers : secret'[a].ver = 2
  <2> SUFFICES ASSUME s \in settled, NEW a \in Keepers PROVE secret'[a].ver = 2
    OBVIOUS
  <2>1. Secrets!CurrentKey(script[s].stage) = 2
    BY DEF Renewed, Secrets!CurrentKey
  <2>2. CASE a \in script[s].staged
    BY <2>1, <2>2 DEF Secrets!Rotated
  <2>3. CASE a \notin script[s].staged
    BY <1>1, <2>1, <2>3 DEF Secrets!Targets, Renewed
  <2>4. QED  BY <2>2, <2>3
<1>7. Renewed'
  BY <1>1, <1>6 DEF Secrets!TypeOK, Renewed
<1>8. QED  BY <1>2, <1>3, <1>4, <1>5, <1>7

LEMMA RotationOperator ==
  ASSUME RotationInv, Secrets!Introduce \/ Secrets!Retire \/ \E p \in Procs : Secrets!Restart(p)
  PROVE  RotationInv'
<1> USE DEF RotationInv, Secrets!Introduce, Secrets!Retire, Secrets!Restart
<1>1. Secrets!TypeOK'
  BY DEF Secrets!TypeOK, Secrets!Stages
<1>2. Secrets!WordsAreKept' /\ Exclusive'
  BY DEF Secrets!WordsAreKept, Exclusive
<1>3. (\A s \in Scripts : Underway(s))'
  BY DEF Underway, Secrets!Targets
<1>4. Known'
  BY DEF Secrets!TypeOK, Known, Secrets!Stages
<1>5. Renewed'
  BY DEF Secrets!TypeOK, Renewed, Secrets!Verified, Secrets!CurrentKey
<1>6. QED  BY <1>1, <1>2, <1>3, <1>4, <1>5

LEMMA RotationNext == RotationInv /\ [Secrets!Next]_Secrets!vars => RotationInv'
<1> SUFFICES ASSUME RotationInv, [Secrets!Next]_Secrets!vars PROVE RotationInv'
  OBVIOUS
<1>1. CASE \E p \in Procs, a \in Keepers : Secrets!Edit(p, a)
  BY <1>1, RotationEdit
<1>2. CASE \E s \in Scripts : Secrets!ScriptRead(s)
  BY <1>2, RotationRead
<1>3. CASE \E s \in Scripts : Secrets!ScriptUpdate(s)
  BY <1>3, RotationUpdate
<1>4. CASE \E s \in Scripts : Secrets!ScriptCommit(s)
  BY <1>4, RotationCommit
<1>5. CASE \E s \in Scripts : Secrets!ScriptDies(s)
  BY <1>5, RotationGivesUp DEF Secrets!ScriptDies
<1>6. CASE Secrets!Introduce \/ Secrets!Retire \/ \E p \in Procs : Secrets!Restart(p)
  BY <1>6, RotationOperator
<1>7. CASE UNCHANGED Secrets!vars
  BY <1>7 DEF Secrets!vars, RotationInv, Secrets!TypeOK, Secrets!WordsAreKept, Underway, Secrets!Targets, Exclusive, Known, Renewed
<1>8. QED  BY <1>1, <1>2, <1>3, <1>4, <1>5, <1>6, <1>7 DEF Secrets!Next

LEMMA RotationAlways == Secrets!Spec => []RotationInv
BY RotationInit, RotationNext, PTL DEF Secrets!Spec

\* Every variable keeps its type.
THEOREM RotationTypeCorrect == Secrets!Spec => []Secrets!TypeOK
BY RotationAlways, PTL DEF RotationInv

\* No execution of the script loses or brings back a password, whatever is
\* edited while it runs.
THEOREM PasswordsSurvive == Secrets!Spec => []Secrets!WordsAreKept
BY RotationAlways, PTL DEF RotationInv

\* A rotation that began when every process knew the new key is complete.
THEOREM RotationCompletes == Secrets!Spec => []Secrets!RotationIsComplete
<1>1. RotationInv => Secrets!RotationIsComplete
  BY DEF RotationInv, Renewed, Secrets!RotationIsComplete
<1>2. QED  BY <1>1, RotationAlways, PTL

\* Nobody who knows the new key is locked out, also once the old key is gone.
THEOREM NobodyIsLockedOut == Secrets!Spec => []Secrets!EverybodyReads
<1>1. RotationInv => Secrets!EverybodyReads
  BY DEF RotationInv, Secrets!TypeOK, Known, Renewed, Secrets!EverybodyReads, Secrets!Readable, Secrets!Keys, Secrets!Secrets, Secrets!Stages, Secrets!Legacy, Secrets!Odd
<1>2. QED  BY <1>1, RotationAlways, PTL

-----------------------------------------------------------------------------
(* What the runs check of these parts *)

\* A bulk test shows each account once, adds up and spaces its mails, with any
\* number of accounts, loops and lost connections.
THEOREM BulkTestAlwaysHolds == Wide!Spec \/ [](focus # "wide") => []BulkTestHolds
<1>1. Wide!Spec => []Wide!CompletedAddsUp
  BY WideFits, BulkCompletedAddsUp
<1>2. Wide!Spec => []Wide!CompletedShowsAll
  BY WideFits, BulkCompletedShowsAll
<1>3. Wide!Spec => []Wide!MailsSpaced
  BY WideFits, BulkMailsSpaced
<1>4. Wide!CompletedAddsUp /\ Wide!CompletedShowsAll /\ Wide!MailsSpaced => BulkTestHolds
  BY DEF BulkTestHolds
<1>5. focus # "wide" => BulkTestHolds
  BY DEF BulkTestHolds
<1>6. QED  BY <1>1, <1>2, <1>3, <1>4, <1>5, PTL

\* Deliveries stay below their rate, and nobody who has seen a change of the
\* daily target works with an older summary, for any rates, plans and requests.
THEOREM RatesAlwaysHold ==
  (Lane!Spec \/ [](focus # "lane")) /\ (Daily!Spec \/ [](focus # "rate")) => []RatesHold
<1>1. Lane!Spec => []Lane!Paced
  BY LaneFits, PacedAlways
<1>2. Daily!Spec => []Daily!SeenMeansFresh
  BY DailyFits, RateSeenMeansFresh
<1>3. (Lane!Paced \/ focus # "lane") /\ (Daily!SeenMeansFresh \/ focus # "rate") => RatesHold
  BY DEF RatesHold
<1>4. QED  BY <1>1, <1>2, <1>3, PTL

\* A campaign is for those for whom it was created, whatever changes meanwhile,
\* and its creator is told what became of it.
THEOREM CreationAlwaysHolds == Create!Spec \/ [](focus # "create") => []CreationHolds
<1>1. Create!Spec => []Create!TargetIsKept
  BY CreateFits, CampaignTargetIsKept
<1>2. Create!Spec => []Create!AnswerIsTrue
  BY CreateFits, CreationAnswerIsTrue
<1>3. Create!TargetIsKept /\ Create!AnswerIsTrue => CreationHolds
  BY DEF CreationHolds
<1>4. focus # "create" => CreationHolds
  BY DEF CreationHolds
<1>5. QED  BY <1>1, <1>2, <1>3, <1>4, PTL

\* Rotating the secret loses no password, is complete and locks nobody out,
\* with any number of accounts, processes and executions of the script.
THEOREM RotationAlwaysHolds == Secrets!Spec \/ [](focus # "rotate") => []RotationHolds
<1>1. Secrets!Spec => []Secrets!WordsAreKept
  BY PasswordsSurvive
<1>2. Secrets!Spec => []Secrets!RotationIsComplete
  BY RotationCompletes
<1>3. Secrets!Spec => []Secrets!EverybodyReads
  BY NobodyIsLockedOut
<1>4. Secrets!WordsAreKept /\ Secrets!RotationIsComplete /\ Secrets!EverybodyReads => RotationHolds
  BY DEF RotationHolds
<1>5. focus # "rotate" => RotationHolds
  BY DEF RotationHolds
<1>6. QED  BY <1>1, <1>2, <1>3, <1>4, <1>5, PTL

\* An export has every member that stayed once, and the numbers of a segment
\* agree with its rows, for any recipients, campaigns, queries and pages.
THEOREM SegmentsAlwaysHold == Segment!Spec \/ [](focus # "segments") => []SegmentsHold
<1>1. Segment!Spec => []Segment!PagesAreExact
  BY SegmentFits, SegmentPagesAreExact
<1>2. Segment!Spec => []Segment!NumbersAgree
  BY SegmentFits, SegmentNumbersAgree
<1>3. Segment!PagesAreExact /\ Segment!NumbersAgree => SegmentsHold
  BY DEF SegmentsHold
<1>4. focus # "segments" => SegmentsHold
  BY DEF SegmentsHold
<1>5. QED  BY <1>1, <1>2, <1>3, <1>4, PTL

\* A campaign's links are shortened throughout, to links that are its own and
\* that keep their template, for any templates and any answers of the service.
THEOREM LinksAlwaysHold == Links!Spec \/ [](focus # "links") => []LinksHold
<1>1. Links!Spec => [](Links!CampaignIsWhole /\ Links!ShortenedThroughout)
  BY LinksFit, LinksCampaignIsWhole
<1>2. Links!Spec => []Links!TemplateIsKept
  BY LinksTemplateIsKept
<1>3. Links!CampaignIsWhole /\ Links!ShortenedThroughout /\ Links!TemplateIsKept => LinksHold
  BY DEF LinksHold
<1>4. focus # "links" => LinksHold
  BY DEF LinksHold
<1>5. QED  BY <1>1, <1>2, <1>3, <1>4, PTL
=============================================================================
