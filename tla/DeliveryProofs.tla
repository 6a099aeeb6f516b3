--------------------------- MODULE DeliveryProofs ---------------------------
(***************************************************************************)
(* Theorems about Delivery, for any number of recipients, processes and    *)
(* slots, any retry settings and any number of failures and restarts: who  *)
(* is mailed and how often, and that log, counters and queue agree with    *)
(* the rows, which no transaction spans.                                   *)
(***************************************************************************)
EXTENDS Delivery, FiniteSetTheorems, TLAPS

-----------------------------------------------------------------------------
(* Type correctness *)

\* A busy slot works on a job; only then is its Target a recipient.
BusyHasJob == \A w \in Workers : ex[w].pc # "idle" => ex[w].job \in JobIds

TypeInv == TypeOK /\ BusyHasJob

LEMMA Identities ==
  /\ \A r \in Recipients, v \in Versions, n \in 0 .. MaxFails : <<r, v, n>> \in JobIds
  /\ \A r \in Recipients, v \in Versions :
       /\ JobFor(r, v) \in JobIds
       /\ JobFor(r, v)[1] = r /\ JobFor(r, v)[2] = v /\ JobFor(r, v)[3] = 0
  /\ \A j \in JobIds : /\ j[1] \in Recipients /\ j[2] \in Versions
                       /\ j[3] \in 0 .. MaxFails /\ j = <<j[1], j[2], j[3]>>
                       /\ j[3] = 0 => j = JobFor(j[1], j[2])
  /\ NoJob \notin JobIds /\ MaxFails \in Nat /\ 0 \in 0 .. MaxFails
  /\ 1 \in Versions /\ Versions \subseteq Nat
BY DeliveryAssumption DEF JobIds, Versions, JobFor

LEMMA InitTypes == Init => TypeInv
BY DeliveryAssumption, Identities
DEF Init, TypeInv, TypeOK, BusyHasJob, CampaignStatus, SendStatus, Job, JobState,
    Slot, PC, Sched, Unqueued, IdleSlot, IdleSched

\* What a boot gives a scheduler stays within its type.
LEMMA BootSched ==
  ASSUME NEW C \in SUBSET Recipients, NEW B \in SUBSET JobIds
  PROVE  [IdleSched EXCEPT !.boot = B, !.lost = C] \in Sched
BY Identities DEF Sched, IdleSched

LEMMA SpendTypes ==
  ASSUME used \in [Events -> Nat], NEW e, Spend(e)
  PROVE  used' \in [Events -> Nat]
<1>1. CASE e \in Events
  BY <1>1 DEF Spend
<1>2. CASE e \notin Events
  BY <1>2 DEF Spend
<1> QED BY <1>1, <1>2

LEMMA DbErrorTypes ==
  ASSUME used \in [Events -> Nat], NEW failed, DbError(failed)
  PROVE  used' \in [Events -> Nat]
BY SpendTypes DEF DbError

\* How a slot leaves a step keeps the types of the queue and of the slots.
LEMMA GotoTypes ==
  ASSUME TypeInv, NEW w \in Workers, NEW pc \in PC, ex[w].pc # "idle", Goto(w, pc)
  PROVE  /\ job' \in [JobIds -> Job] /\ ex' \in [Workers -> Slot]
         /\ dead' \subseteq Recipients /\ BusyHasJob'
BY DEF TypeInv, TypeOK, BusyHasJob, Goto, Slot

LEMMA FinishTypes ==
  ASSUME TypeInv, NEW w \in Workers, ex[w].pc # "idle",
         NEW n, JobDone(w) \/ JobThrew(w, n)
  PROVE  /\ job' \in [JobIds -> Job] /\ ex' \in [Workers -> Slot]
         /\ dead' \subseteq Recipients /\ BusyHasJob'
<1> DEFINE j == ex[w].job
<1>1. j \in JobIds /\ j[1] \in Recipients
  BY Identities DEF TypeInv, BusyHasJob
<1>2. ex' = [ex EXCEPT ![w] = IdleSlot]
  BY DEF JobDone, JobThrew
<1>3. ex' \in [Workers -> Slot] /\ BusyHasJob'
  BY <1>2 DEF TypeInv, TypeOK, BusyHasJob, IdleSlot, Slot, PC, CampaignStatus, Done
<1>4. CASE JobDone(w)
  BY <1>1, <1>3, <1>4 DEF TypeInv, TypeOK, JobDone, Job, JobState
<1>5. CASE JobThrew(w, n)
  BY <1>1, <1>3, <1>5 DEF TypeInv, TypeOK, JobThrew, Job, JobState
<1> QED BY <1>4, <1>5

LEMMA AddedTypes ==
  ASSUME TypeOK, NEW j \in JobIds, NEW key \in {"hashed", "plain"}
  PROVE  Added(j, key) \in [JobIds -> Job]
<1> DEFINE new == [state |-> "wait", made |-> 0, attempt |-> 1, key |-> key]
<1>1. new \in Job
  BY DEF Job, JobState
<1> HIDE DEF new
<1>2. [job EXCEPT ![j] = new] \in [JobIds -> Job]
  BY <1>1 DEF TypeOK
<1> QED BY <1>2 DEF Added, TypeOK, new

LEMMA TickUpdates ==
  ASSUME TypeInv, NEW p \in Procs, Tick(p)
  PROVE  /\ \E s \in Sched : /\ sched' = [sched EXCEPT ![p] = s]
                             /\ s.ver \in {sched[p].ver, version} /\ s.boot = sched[p].boot
                             /\ s.claims = sched[p].claims /\ s.lost = sched[p].lost
         /\ UNCHANGED <<data, job, dead, ex, phase, version, suppressed, cancel, fails, used>>
<1>1. PICK s \in {sched[p], [sched[p] EXCEPT !.cached = Active, !.ver = version]} :
        sched' = [sched EXCEPT
                    ![p] = [s EXCEPT !.picks = IF s.cached = "none" THEN {} ELSE Pending]]
  BY Zenon DEF Tick
<1> DEFINE P == IF s.cached = "none" THEN {} ELSE Pending
<1>2. Active \in {"none", "queued", "running"} /\ P \in SUBSET Recipients
  BY DEF Active, Pending
<1>3. sched[p] \in Sched /\ version \in Versions
  BY DEF TypeInv, TypeOK
<1>4. /\ s \in Sched /\ s.ver \in {sched[p].ver, version} /\ s.boot = sched[p].boot
      /\ s.claims = sched[p].claims /\ s.lost = sched[p].lost
  BY <1>2, <1>3 DEF Sched
<1>5. sched' = [sched EXCEPT ![p] = [s EXCEPT !.picks = P]]
  BY <1>1
<1> HIDE DEF P
<1>6. /\ [s EXCEPT !.picks = P] \in Sched
      /\ [s EXCEPT !.picks = P].ver = s.ver /\ [s EXCEPT !.picks = P].boot = s.boot
      /\ [s EXCEPT !.picks = P].claims = s.claims /\ [s EXCEPT !.picks = P].lost = s.lost
  BY <1>2, <1>4 DEF Sched
<1>7. UNCHANGED <<data, job, dead, ex, phase, version, suppressed, cancel, fails, used>>
  BY Zenon DEF Tick
<1> QED BY <1>4, <1>5, <1>6, <1>7

\* The actions of the scheduler, the queues, the processes and the operator,
\* which leave the slots alone or reset them.
LEMMA EnvironmentTypes ==
  ASSUME TypeInv,
         \/ \E p \in Procs : Tick(p) \/ Crash(p) \/ Shutdown(p) \/ Exit(p) \/ Boot(p)
         \/ \E p \in Procs, r \in Recipients :
              \/ Enqueue(p, r) \/ Backfill(p, r) \/ ClaimEnqueued(p, r)
              \/ RequeueStale(p, r) \/ ResetLost(p, r)
         \/ \E p \in Procs, j \in JobIds : RecoverRow(p, j)
         \/ \E j \in JobIds : MoveRetry(j) \/ Evict(j)
         \/ Pause \/ Resume \/ CancelStatus \/ CancelJobs \/ CancelRows \/ EditTemplate
         \/ \E r \in Recipients : Suppress(r)
  PROVE  TypeInv'
<1> USE DEF TypeInv, TypeOK, BusyHasJob
<1>1. ASSUME NEW p \in Procs, Tick(p) PROVE TypeInv'
  <2>1. sched' \in [Procs -> Sched]
    BY <1>1, TickUpdates
  <2>2. UNCHANGED <<data, job, dead, ex, phase, version, suppressed, cancel, fails, used>>
    BY <1>1, TickUpdates
  <2> QED BY <2>1, <2>2 DEF data
<1>2. ASSUME NEW p \in Procs, Crash(p) PROVE TypeInv'
  <2>1. ex' \in [Workers -> Slot] /\ BusyHasJob'
    BY <1>2 DEF Crash, IdleSlot, Slot, PC, CampaignStatus, Done
  <2>2. job' \in [JobIds -> Job]
    <3>1. \A j \in JobIds : [job[j] EXCEPT !.state = "wait"] \in Job
      BY DEF Job, JobState
    <3> QED BY <1>2, <3>1 DEF Crash
  <2>3. sched' \in [Procs -> Sched] /\ phase' \in [Procs -> {"up", "stopping", "down"}]
    BY <1>2, Identities DEF Crash, Sched, IdleSched
  <2>4. used' \in [Events -> Nat]
    BY <1>2, SpendTypes DEF Crash
  <2> QED BY <1>2, <2>1, <2>2, <2>3, <2>4 DEF Crash, data
<1>3. ASSUME NEW p \in Procs, Shutdown(p) PROVE TypeInv'
  <2>1. row' \in [Recipients -> SendStatus]
    BY <1>3 DEF Shutdown, SendStatus
  <2>2. used' \in [Events -> Nat]
    BY <1>3, SpendTypes DEF Shutdown
  <2> QED BY <1>3, <2>1, <2>2 DEF Shutdown
<1>4. ASSUME NEW p \in Procs, Exit(p) PROVE TypeInv'
  BY <1>4, Identities DEF Exit, data, Sched, IdleSched
<1>5. ASSUME NEW p \in Procs, Boot(p) PROVE TypeInv'
  <2>1. sched' \in [Procs -> Sched]
    <3>1. PICK lost \in SUBSET {r \in Recipients : row[r] = "queued" /\ ~Live(r)} :
            sched' = IF status \in Recoverable
                     THEN [sched EXCEPT ![p] = [IdleSched EXCEPT
                             !.boot = {JobFor(r, version) : r \in Open}, !.lost = lost]]
                     ELSE sched
      BY <1>5 DEF Boot
    <3> DEFINE B == {JobFor(r, version) : r \in Open}
    <3>2. B \in SUBSET JobIds /\ lost \in SUBSET Recipients
      BY Identities DEF Open
    <3> HIDE DEF B
    <3>3. [IdleSched EXCEPT !.boot = B, !.lost = lost] \in Sched
      BY <3>2, BootSched
    <3> QED BY <3>1, <3>3 DEF B
  <2>2. /\ phase' = [phase EXCEPT ![p] = "up"]
        /\ UNCHANGED <<data, job, dead, ex, version, suppressed, cancel, fails, used>>
    BY <1>5, Zenon DEF Boot
  <2> QED BY <2>1, <2>2 DEF data
<1>6. ASSUME NEW p \in Procs, NEW r \in Recipients, Enqueue(p, r) \/ Backfill(p, r)
      PROVE  TypeInv'
  <2>1. job' \in [JobIds -> Job]
    <3>1. JobFor(r, sched[p].ver) \in JobIds
      BY Identities DEF Sched
    <3> QED BY <1>6, <3>1, AddedTypes DEF Enqueue, Backfill
  <2>2. sched' \in [Procs -> Sched]
    <3>1. [sched[p] EXCEPT !.picks = @ \ {r}, !.claims = @ \cup {r}] \in Sched
      <4>1. sched[p] \in Sched
        OBVIOUS
      <4> QED BY <4>1 DEF Sched
    <3>2. sched' = [sched EXCEPT ![p] =
                      [sched[p] EXCEPT !.picks = @ \ {r}, !.claims = @ \cup {r}]]
      BY <1>6 DEF Enqueue, Backfill
    <3> QED BY <3>1, <3>2
  <2>3. status' \in CampaignStatus
    BY <1>6 DEF Enqueue, Backfill, data, CampaignStatus
  <2> QED BY <1>6, <2>1, <2>2, <2>3 DEF Enqueue, Backfill, data
<1>7. ASSUME NEW p \in Procs, NEW r \in Recipients, ClaimEnqueued(p, r) PROVE TypeInv'
  <2>1. row' \in [Recipients -> SendStatus] /\ used' \in [Events -> Nat]
    BY <1>7, DbErrorTypes DEF ClaimEnqueued, Moved, SendStatus
  <2>2. sched' \in [Procs -> Sched]
    <3>1. [sched[p] EXCEPT !.claims = @ \ {r}] \in Sched
      BY DEF Sched
    <3>2. sched' = [sched EXCEPT ![p] = [sched[p] EXCEPT !.claims = @ \ {r}]]
      BY <1>7 DEF ClaimEnqueued
    <3> QED BY <3>1, <3>2
  <2> QED BY <1>7, <2>1, <2>2 DEF ClaimEnqueued
<1>8. ASSUME NEW p \in Procs, NEW r \in Recipients, RequeueStale(p, r) PROVE TypeInv'
  <2>1. job' \in [JobIds -> Job]
    <3>1. JobFor(r, sched[p].ver) \in JobIds
      BY Identities DEF Sched
    <3> QED BY <1>8, <3>1, AddedTypes DEF RequeueStale
  <2> QED BY <1>8, <2>1 DEF RequeueStale, data
<1>9. ASSUME NEW p \in Procs, NEW j \in JobIds, RecoverRow(p, j) PROVE TypeInv'
  <2>1. job' \in [JobIds -> Job]
    BY <1>9, AddedTypes DEF RecoverRow
  <2>2. sched' \in [Procs -> Sched]
    <3>1. [sched[p] EXCEPT !.boot = @ \ {j}] \in Sched
      <4>1. sched[p] \in Sched
        OBVIOUS
      <4> QED BY <4>1 DEF Sched
    <3>2. sched' = [sched EXCEPT ![p] = [sched[p] EXCEPT !.boot = @ \ {j}]]
      BY <1>9 DEF RecoverRow
    <3> QED BY <3>1, <3>2
  <2> QED BY <1>9, <2>1, <2>2 DEF RecoverRow, data
<1>10. ASSUME NEW j \in JobIds, MoveRetry(j) \/ Evict(j) PROVE TypeInv'
  <2>1. job' \in [JobIds -> Job]
    BY <1>10 DEF MoveRetry, Evict, Job, JobState
  <2> QED BY <1>10, <2>1 DEF MoveRetry, Evict, Spend, data
<1>11. CASE Pause \/ Resume \/ CancelStatus
  BY <1>11 DEF Pause, Resume, CancelStatus, Spend, CampaignStatus, Done
<1>12. CASE CancelJobs
  <2>1. job' \in [JobIds -> Job]
    BY <1>12 DEF CancelJobs, Unqueued, Job, JobState
  <2> QED BY <1>12, <2>1 DEF CancelJobs, data
<1>13. CASE CancelRows
  BY <1>13 DEF CancelRows, SendStatus
<1>14. ASSUME NEW r \in Recipients, Suppress(r) PROVE TypeInv'
  <2>1. used' \in [Events -> Nat] /\ suppressed' \subseteq Recipients
    BY <1>14, SpendTypes DEF Suppress
  <2> QED BY <1>14, <2>1 DEF Suppress, data
<1>15. ASSUME NEW p \in Procs, NEW r \in Recipients, ResetLost(p, r) PROVE TypeInv'
  <2>1. row' \in [Recipients -> SendStatus]
    BY <1>15 DEF ResetLost, SendStatus
  <2>2. sched' \in [Procs -> Sched]
    <3>1. [sched[p] EXCEPT !.lost = @ \ {r}] \in Sched
      BY DEF Sched
    <3>2. sched' = [sched EXCEPT ![p] = [sched[p] EXCEPT !.lost = @ \ {r}]]
      BY <1>15 DEF ResetLost
    <3> QED BY <3>1, <3>2
  <2> QED BY <1>15, <2>1, <2>2 DEF ResetLost
<1>16. CASE EditTemplate
  <2>1. used' \in [Events -> Nat]
    BY <1>16, SpendTypes DEF EditTemplate
  <2>2. version' \in Versions
    BY <1>16, DeliveryAssumption DEF EditTemplate, Versions
  <2> QED BY <1>16, <2>1, <2>2 DEF EditTemplate, data
<1> QED
  BY <1>1, <1>2, <1>3, <1>4, <1>5, <1>6, <1>7, <1>8, <1>9, <1>10, <1>11,
     <1>12, <1>13, <1>14, <1>15, <1>16

\* The actions of a delivery slot.
LEMMA SlotTypes ==
  ASSUME TypeInv, NEW w \in Workers,
         \/ \E j \in JobIds : Begin(w, j) \/ BeginReturns(w, j)
         \/ Process(w) \/ ThrowEarly(w) \/ ThrowInTry(w) \/ ThrowInCatch(w)
  PROVE  TypeInv'
<1> DEFINE QueueTypes == /\ job' \in [JobIds -> Job] /\ ex' \in [Workers -> Slot]
                         /\ dead' \subseteq Recipients /\ BusyHasJob'
           r == Target(w)
<1>1. ASSUME NEW j \in JobIds, Begin(w, j) PROVE TypeInv'
  <2>1. [IdleSlot EXCEPT !.pc = "row", !.job = j, !.seen = status] \in Slot
    BY DEF TypeInv, TypeOK, IdleSlot, Slot, PC
  <2>5. /\ DbError(Logged(j))
        /\ job' = [job EXCEPT ![j].state = "active"]
        /\ ex' = [ex EXCEPT ![w] = [IdleSlot EXCEPT !.pc = "row", !.job = j,
                                                    !.seen = status]]
        /\ UNCHANGED <<data, dead, sched, phase, version, suppressed, cancel, fails>>
    BY <1>1, Zenon DEF Begin
  <2>2. ex' \in [Workers -> Slot] /\ BusyHasJob'
    BY <2>5, <2>1 DEF TypeInv, TypeOK, BusyHasJob, IdleSlot
  <2>3. QueueTypes
    BY <2>5, <2>2 DEF TypeInv, TypeOK, Job, JobState
  <2>4. used' \in [Events -> Nat]
    BY <2>5, DbErrorTypes DEF TypeInv, TypeOK
  <2> QED BY <2>5, <2>3, <2>4 DEF TypeInv, TypeOK, data
<1>2. ASSUME NEW j \in JobIds, BeginReturns(w, j) PROVE TypeInv'
  <2>1. QueueTypes
    BY <1>2 DEF TypeInv, TypeOK, BusyHasJob, BeginReturns, Job, JobState
  <2>2. used' \in [Events -> Nat]
    BY <1>2, DbErrorTypes DEF BeginReturns, TypeInv, TypeOK
  <2> QED BY <1>2, <2>1, <2>2 DEF TypeInv, TypeOK, BeginReturns, data
<1>3. ex[w].pc # "idle" => r \in Recipients
  BY Identities DEF TypeInv, BusyHasJob, Target
<1>4. CASE ReadRow(w)
  <2>1. QueueTypes
    BY <1>4, GotoTypes, FinishTypes DEF ReadRow, PC
  <2> QED BY <1>4, <2>1 DEF TypeInv, TypeOK, ReadRow, data
<1>5. CASE ClaimRow(w) \/ SkipRow(w) \/ MarkFailed(w)
  <2>1. QueueTypes
    BY <1>5, GotoTypes DEF ClaimRow, SkipRow, MarkFailed, PC
  <2>2. row' \in [Recipients -> SendStatus]
    BY <1>5 DEF TypeInv, TypeOK, ClaimRow, SkipRow, MarkFailed, Moved, SendStatus
  <2>3. used' \in [Events -> Nat]
    BY <1>5, DbErrorTypes DEF TypeInv, TypeOK, ClaimRow, SkipRow, MarkFailed
  <2> QED BY <1>5, <2>1, <2>2, <2>3 DEF TypeInv, TypeOK, ClaimRow, SkipRow, MarkFailed
<1>6. CASE CountSkipped(w) \/ CountSent(w) \/ CountFailed(w)
  <2>1. QueueTypes
    BY <1>6, GotoTypes DEF CountSkipped, CountSent, CountFailed, PC
  <2> QED BY <1>6, <2>1 DEF TypeInv, TypeOK, CountSkipped, CountSent, CountFailed
<1>7. CASE PassGate(w)
  <2>1. QueueTypes
    BY <1>7, GotoTypes DEF PassGate, PC
  <2> QED BY <1>7, <2>1 DEF TypeInv, TypeOK, PassGate, data
<1>8. CASE SendMail(w)
  <2>1. QueueTypes
    BY <1>8, GotoTypes DEF SendMail, PC
  <2>2. mails' \in [Recipients -> Nat]
    BY <1>3, <1>8 DEF TypeInv, TypeOK, SendMail
  <2> QED BY <1>8, <2>1, <2>2 DEF TypeInv, TypeOK, SendMail
<1>9. CASE CommitSent(w)
  <2>1. QueueTypes
    BY <1>9, GotoTypes, FinishTypes DEF CommitSent, PC
  <2>2. row' \in [Recipients -> SendStatus]
    BY <1>9 DEF TypeInv, TypeOK, CommitSent, Moved, SendStatus
  <2> QED BY <1>9, <2>1, <2>2 DEF TypeInv, TypeOK, CommitSent
<1>10. CASE LogSent(w)
  <2>1. QueueTypes
    BY <1>10, GotoTypes DEF LogSent, PC
  <2>2. Key(ex[w].job) \in Recipients \X Versions \X {"hashed", "plain"}
    <3>1. ex[w].job \in JobIds
      BY <1>10 DEF LogSent, TypeInv, BusyHasJob
    <3> QED BY <3>1, Identities DEF Key, TypeInv, TypeOK, Job
  <2>3. used' \in [Events -> Nat]
    BY <1>10, DbErrorTypes DEF LogSent, TypeInv, TypeOK
  <2> QED BY <1>3, <1>10, <2>1, <2>2, <2>3 DEF TypeInv, TypeOK, LogSent
<1>11. CASE FinalizeRead(w)
  <2>1. ASSUME Finish(w) PROVE QueueTypes
    BY <1>11, <2>1, FinishTypes DEF FinalizeRead, Finish
  <2>2. ASSUME ~Finish(w) PROVE QueueTypes
    BY <1>11, <2>2 DEF FinalizeRead, TypeInv, TypeOK, BusyHasJob, Slot, PC
  <2>3. QueueTypes
    BY <2>1, <2>2
  <2>4. used' \in [Events -> Nat]
    BY <1>11, DbErrorTypes DEF FinalizeRead, TypeInv, TypeOK
  <2> QED BY <1>11, <2>3, <2>4 DEF TypeInv, TypeOK, FinalizeRead, data
<1>12. CASE FinalizeWrite(w)
  <2>1. QueueTypes
    BY <1>12, FinishTypes DEF FinalizeWrite, Finish
  <2>2. status' \in CampaignStatus
    BY <1>12 DEF FinalizeWrite, TypeInv, TypeOK, Slot, CampaignStatus, Done
  <2> QED BY <1>12, <2>1, <2>2 DEF TypeInv, TypeOK, FinalizeWrite
<1>13. CASE ThrowEarly(w)
  <2>1. QueueTypes
    BY <1>13, FinishTypes DEF ThrowEarly
  <2>2. fails' \in 0 .. MaxFails
    BY <1>13, Identities DEF ThrowEarly, TypeInv, TypeOK
  <2> QED BY <1>13, <2>1, <2>2 DEF TypeInv, TypeOK, ThrowEarly, data
<1>14. CASE ThrowInTry(w)
  <2>1. ex' = [ex EXCEPT ![w] = [ex[w] EXCEPT !.pc = "fail", !.bad = fails + 1]]
    BY <1>14 DEF ThrowInTry, TypeInv, TypeOK, Slot
  <2>3. [ex[w] EXCEPT !.pc = "fail", !.bad = fails + 1] \in Slot
    <3>1. ex[w] \in Slot /\ "fail" \in PC
      BY DEF TypeInv, TypeOK, PC
    <3>2. fails + 1 \in Nat
      BY Identities DEF TypeInv, TypeOK
    <3> QED BY <3>1, <3>2 DEF Slot
  <2>4. ex' \in [Workers -> Slot] /\ BusyHasJob'
    BY <1>14, <2>1, <2>3 DEF ThrowInTry, TypeInv, TypeOK, BusyHasJob, Slot
  <2>5. QueueTypes
    BY <1>14, <2>4 DEF ThrowInTry, TypeInv, TypeOK
  <2>2. fails' \in 0 .. MaxFails
    BY <1>14, Identities DEF ThrowInTry, TypeInv, TypeOK
  <2> QED BY <1>14, <2>2, <2>5 DEF TypeInv, TypeOK, ThrowInTry, data
<1>15. CASE ThrowInCatch(w)
  <2>1. QueueTypes
    BY <1>15, FinishTypes DEF ThrowInCatch
  <2>2. used' \in [Events -> Nat]
    BY <1>15, SpendTypes DEF ThrowInCatch, TypeInv, TypeOK
  <2> QED BY <1>15, <2>1, <2>2 DEF TypeInv, TypeOK, ThrowInCatch, data
<1> QED
  BY <1>1, <1>2, <1>4, <1>5, <1>6, <1>7, <1>8, <1>9, <1>10, <1>11, <1>12,
     <1>13, <1>14, <1>15 DEF Process

LEMMA TypeStep == TypeInv /\ [Next]_vars => TypeInv'
<1> SUFFICES ASSUME TypeInv, [Next]_vars PROVE TypeInv'
  OBVIOUS
<1>1. CASE UNCHANGED vars
  BY <1>1 DEF vars, TypeInv, TypeOK, BusyHasJob
<1>2. CASE Next
  BY <1>2, EnvironmentTypes, SlotTypes DEF Next
<1> QED BY <1>1, <1>2

\* Whatever fails, dies or is canceled, every variable keeps its type and every
\* busy slot its job.
THEOREM TypeCorrect == Spec => []TypeOK
<1>1. Spec => []TypeInv
  BY InitTypes, TypeStep, PTL DEF Spec
<1>2. TypeInv => TypeOK
  BY DEF TypeInv
<1> QED BY <1>1, <1>2, PTL

-----------------------------------------------------------------------------
(* A row reported sent was mailed *)

\* What makes SentWasMailed inductive: a slot about to mark its row as sent has
\* mailed that recipient.
MailedBeforeCommit == \A w \in Workers : ex[w].pc = "commit" => mails[Target(w)] > 0
MailInv == TypeInv /\ SentWasMailed /\ MailedBeforeCommit

\* A step that mails nobody, marks no row as sent and brings no slot to
\* "commit" keeps the invariant.
Quiet ==
  /\ mails' = mails
  /\ \A r \in Recipients : row'[r] = "sent" => row[r] = "sent"
  /\ \A w \in Workers : ex'[w].pc = "commit" => ex'[w] = ex[w]

LEMMA QuietStep == MailInv /\ Quiet => (SentWasMailed /\ MailedBeforeCommit)'
BY DEF MailInv, Quiet, SentWasMailed, MailedBeforeCommit, Target

LEMMA QuietSlot ==
  ASSUME TypeInv, NEW w \in Workers, NEW s \in Slot, s.pc # "commit",
         ex' = [ex EXCEPT ![w] = s]
  PROVE  \A v \in Workers : ex'[v].pc = "commit" => ex'[v] = ex[v]
BY DEF TypeInv, TypeOK

LEMMA IdleIsSlot == IdleSlot \in Slot /\ IdleSlot.pc = "idle"
BY DEF IdleSlot, Slot, PC, CampaignStatus, Done

LEMMA QuietFinish ==
  ASSUME TypeInv, NEW w \in Workers, NEW n, JobDone(w) \/ JobThrew(w, n)
  PROVE  \A v \in Workers : ex'[v].pc = "commit" => ex'[v] = ex[v]
<1>1. ex' = [ex EXCEPT ![w] = IdleSlot]
  BY DEF JobDone, JobThrew
<1> QED BY <1>1, IdleIsSlot, QuietSlot

LEMMA QuietGoto ==
  ASSUME TypeInv, NEW w \in Workers, NEW pc \in PC \ {"commit"}, Goto(w, pc)
  PROVE  \A v \in Workers : ex'[v].pc = "commit" => ex'[v] = ex[v]
BY DEF TypeInv, TypeOK, Goto, Slot

\* Every row that a conditional UPDATE moves elsewhere than to "sent".
LEMMA QuietMove ==
  ASSUME TypeInv, NEW r, NEW to \in SendStatus \ {"sent"}, row' = Moved(r, to)
  PROVE  \A q \in Recipients : row'[q] = "sent" => row[q] = "sent"
BY DEF TypeInv, TypeOK, Moved

LEMMA EnvironmentIsQuiet ==
  ASSUME TypeInv,
         \/ \E p \in Procs : Tick(p) \/ Crash(p) \/ Shutdown(p) \/ Exit(p) \/ Boot(p)
         \/ \E p \in Procs, r \in Recipients :
              \/ Enqueue(p, r) \/ Backfill(p, r) \/ ClaimEnqueued(p, r)
              \/ RequeueStale(p, r) \/ ResetLost(p, r)
         \/ \E p \in Procs, j \in JobIds : RecoverRow(p, j)
         \/ \E j \in JobIds : MoveRetry(j) \/ Evict(j)
         \/ Pause \/ Resume \/ CancelStatus \/ CancelJobs \/ CancelRows \/ EditTemplate
         \/ \E r \in Recipients : Suppress(r)
  PROVE  Quiet
<1>1. ASSUME NEW p \in Procs, Tick(p) \/ Exit(p) \/ Boot(p) PROVE Quiet
  BY <1>1 DEF Quiet, Tick, Exit, Boot, data
<1>2. ASSUME NEW p \in Procs, Crash(p) PROVE Quiet
  BY <1>2, IdleIsSlot DEF Quiet, Crash, data
<1>3. ASSUME NEW p \in Procs, Shutdown(p) PROVE Quiet
  BY <1>3 DEF Quiet, Shutdown
<1>4. ASSUME NEW p \in Procs, NEW r,
             Enqueue(p, r) \/ Backfill(p, r) \/ RequeueStale(p, r) \/ RecoverRow(p, r)
      PROVE  Quiet
  <2>1. UNCHANGED <<row, mails, ex>>
    BY <1>4 DEF Enqueue, Backfill, RequeueStale, RecoverRow, data
  <2> QED BY <2>1 DEF Quiet
<1>5. ASSUME NEW p \in Procs, NEW r \in Recipients, ClaimEnqueued(p, r) PROVE Quiet
  <2>1. \A q \in Recipients : row'[q] = "sent" => row[q] = "sent"
    BY <1>5, QuietMove DEF ClaimEnqueued, SendStatus
  <2> QED BY <1>5, <2>1 DEF Quiet, ClaimEnqueued
<1>6. ASSUME NEW p \in Procs, NEW r \in Recipients, ResetLost(p, r) PROVE Quiet
  BY <1>6 DEF Quiet, ResetLost, TypeInv, TypeOK
<1>7. ASSUME NEW j \in JobIds, MoveRetry(j) \/ Evict(j) PROVE Quiet
  BY <1>7 DEF Quiet, MoveRetry, Evict, data
<1>8. CASE Pause \/ Resume \/ CancelStatus \/ CancelJobs \/ EditTemplate
  BY <1>8 DEF Quiet, Pause, Resume, CancelStatus, CancelJobs, EditTemplate, data
<1>9. CASE CancelRows
  BY <1>9 DEF Quiet, CancelRows
<1>10. ASSUME NEW r \in Recipients, Suppress(r) PROVE Quiet
  BY <1>10 DEF Quiet, Suppress, data
<1> QED BY <1>1, <1>2, <1>3, <1>4, <1>5, <1>6, <1>7, <1>8, <1>9, <1>10

LEMMA SlotKeepsMailInv ==
  ASSUME MailInv, NEW w \in Workers,
         \/ \E j \in JobIds : Begin(w, j) \/ BeginReturns(w, j)
         \/ Process(w) \/ ThrowEarly(w) \/ ThrowInTry(w) \/ ThrowInCatch(w)
  PROVE  (SentWasMailed /\ MailedBeforeCommit)'
<1> USE DEF MailInv
<1>1. ASSUME NEW j \in JobIds, Begin(w, j) PROVE Quiet
  <2>1. /\ ex' = [ex EXCEPT ![w] = [IdleSlot EXCEPT !.pc = "row", !.job = j,
                                                    !.seen = status]]
        /\ UNCHANGED data
    BY <1>1, Zenon DEF Begin
  <2> QED BY <2>1 DEF Quiet, data, TypeInv, TypeOK, IdleSlot
<1>2. ASSUME NEW j \in JobIds, BeginReturns(w, j) PROVE Quiet
  BY <1>2 DEF BeginReturns, Quiet, data
<1>3. CASE ReadRow(w)
  <2>1. \A v \in Workers : ex'[v].pc = "commit" => ex'[v] = ex[v]
    BY <1>3, QuietFinish, QuietGoto DEF ReadRow, PC
  <2> QED BY <1>3, <2>1, QuietStep DEF Quiet, ReadRow, data
<1>4. CASE ClaimRow(w) \/ SkipRow(w) \/ MarkFailed(w)
  <2>1. \A v \in Workers : ex'[v].pc = "commit" => ex'[v] = ex[v]
    BY <1>4, QuietGoto DEF ClaimRow, SkipRow, MarkFailed, PC
  <2>2. \A q \in Recipients : row'[q] = "sent" => row[q] = "sent"
    BY <1>4, QuietMove DEF ClaimRow, SkipRow, MarkFailed, SendStatus
  <2> QED BY <1>4, <2>1, <2>2, QuietStep DEF Quiet, ClaimRow, SkipRow, MarkFailed
<1>5. CASE CountSkipped(w) \/ CountSent(w) \/ CountFailed(w) \/ LogSent(w) \/ PassGate(w)
  <2>1. \A v \in Workers : ex'[v].pc = "commit" => ex'[v] = ex[v]
    BY <1>5, QuietGoto DEF CountSkipped, CountSent, CountFailed, LogSent, PassGate, PC
  <2> QED BY <1>5, <2>1, QuietStep
      DEF Quiet, CountSkipped, CountSent, CountFailed, LogSent, PassGate, data
<1>6. CASE SendMail(w)
  <2>1. Target(w) \in Recipients
    BY <1>6, Identities DEF TypeInv, BusyHasJob, SendMail, Target
  <2>2. mails'[Target(w)] > 0 /\ \A r \in Recipients : mails[r] > 0 => mails'[r] > 0
    BY <1>6, <2>1 DEF SendMail, TypeInv, TypeOK
  <2>3. \A v \in Workers : ex'[v].pc = "commit"
          => ex'[v].job = ex[v].job /\ (v = w \/ ex[v].pc = "commit")
    BY <1>6 DEF SendMail, Goto, TypeInv, TypeOK, Slot
  <2>4. \A v \in Workers : ex[v].pc = "commit" => Target(v) \in Recipients
    BY Identities DEF TypeInv, BusyHasJob, Target
  <2>5. SentWasMailed'
    BY <1>6, <2>2 DEF SendMail, SentWasMailed
  <2>6. MailedBeforeCommit'
    BY <2>1, <2>2, <2>3, <2>4 DEF MailedBeforeCommit, Target
  <2> QED BY <2>5, <2>6
<1>7. CASE CommitSent(w)
  <2>1. \A v \in Workers : ex'[v].pc = "commit" => ex'[v] = ex[v]
    BY <1>7, QuietFinish, QuietGoto DEF CommitSent, PC
  <2>2. mails[Target(w)] > 0 /\ Target(w) \in Recipients
    BY <1>7, Identities DEF CommitSent, MailedBeforeCommit, TypeInv, BusyHasJob, Target
  <2>3. SentWasMailed'
    BY <1>7, <2>2 DEF CommitSent, Moved, SentWasMailed, TypeInv, TypeOK
  <2> QED BY <1>7, <2>1, <2>3 DEF CommitSent, MailedBeforeCommit, Target
<1>8. CASE FinalizeRead(w) \/ FinalizeWrite(w)
  <2>1. CASE Finish(w)
    <3>1. \A v \in Workers : ex'[v].pc = "commit" => ex'[v] = ex[v]
      BY <2>1, QuietFinish DEF Finish
    <3> QED BY <1>8, <3>1, QuietStep DEF Quiet, FinalizeRead, FinalizeWrite, data
  <2>2. CASE FinalizeRead(w) /\ ~Finish(w)
    <3>1. \A v \in Workers : ex'[v].pc = "commit" => ex'[v] = ex[v]
      BY <2>2 DEF FinalizeRead, TypeInv, TypeOK, Slot
    <3> QED BY <2>2, <3>1, QuietStep DEF Quiet, FinalizeRead, data
  <2> QED BY <1>8, <2>1, <2>2 DEF FinalizeWrite
<1>9. CASE ThrowEarly(w) \/ ThrowInCatch(w)
  <2>1. \A v \in Workers : ex'[v].pc = "commit" => ex'[v] = ex[v]
    BY <1>9, QuietFinish DEF ThrowEarly, ThrowInCatch
  <2> QED BY <1>9, <2>1, QuietStep DEF Quiet, ThrowEarly, ThrowInCatch, data
<1>10. CASE ThrowInTry(w)
  <2>1. \A v \in Workers : ex'[v].pc = "commit" => ex'[v] = ex[v]
    BY <1>10 DEF ThrowInTry, TypeInv, TypeOK, Slot
  <2> QED BY <1>10, <2>1, QuietStep DEF Quiet, ThrowInTry, data
<1> QED
  BY <1>1, <1>2, <1>3, <1>4, <1>5, <1>6, <1>7, <1>8, <1>9, <1>10, QuietStep DEF Process

\* Through any number of jobs per recipient, crashes, restarts and shutdowns
\* that reset rows under a delivery in flight, "sent" is never reported for a
\* recipient no SMTP server has accepted a message for.
THEOREM SentImpliesMailed == Spec => []SentWasMailed
<1>1. Init => MailInv
  BY InitTypes DEF Init, MailInv, SentWasMailed, MailedBeforeCommit, IdleSlot
<1>2. MailInv /\ [Next]_vars => MailInv'
  <2> SUFFICES ASSUME MailInv, [Next]_vars PROVE MailInv'
    OBVIOUS
  <2>1. TypeInv'
    BY TypeStep DEF MailInv
  <2>2. CASE UNCHANGED vars
    BY <2>1, <2>2 DEF vars, MailInv, SentWasMailed, MailedBeforeCommit, Target
  <2>3. CASE Next
    BY <2>1, <2>3, EnvironmentIsQuiet, QuietStep, SlotKeepsMailInv DEF Next, MailInv
  <2> QED BY <2>2, <2>3
<1>3. MailInv => SentWasMailed
  BY DEF MailInv
<1> QED BY <1>1, <1>2, <1>3, PTL DEF Spec

-----------------------------------------------------------------------------
(* Every UPDATE of sendStatus passes the database trigger *)

LEMMA MoveIsAllowed ==
  ASSUME TypeInv, NEW r \in Recipients, NEW to \in {"queued", "sent", "failed", "skipped"},
         row' = Moved(r, to)
  PROVE  [Lifecycle!Update]_row
<1>1. CASE CanMove(r, to)
  <2>1. Lifecycle!TriggerAllows(row[r], to)
    BY <1>1 DEF CanMove, AllowedFrom, Lifecycle!TriggerAllows
  <2>2. row' = [q \in Recipients |-> IF q \in {r} THEN to ELSE row[q]]
    BY <1>1 DEF Moved, TypeInv, TypeOK
  <2>3. to \in Lifecycle!SendStatus
    BY DEF Lifecycle!SendStatus
  <2> QED BY <2>1, <2>2, <2>3 DEF Lifecycle!Update
<1>2. CASE ~CanMove(r, to)
  BY <1>2 DEF Moved
<1> QED BY <1>1, <1>2

\* One UPDATE of a whole set of rows, each in a state the trigger lets move.
LEMMA BatchIsAllowed ==
  ASSUME NEW S \in SUBSET Recipients, NEW to \in Lifecycle!SendStatus,
         \A r \in S : Lifecycle!TriggerAllows(row[r], to),
         row' = [r \in Recipients |-> IF r \in S THEN to ELSE row[r]]
  PROVE  Lifecycle!Update
BY DEF Lifecycle!Update

LEMMA TargetIsRecipient ==
  ASSUME TypeInv, NEW w \in Workers, ex[w].pc # "idle"
  PROVE  Target(w) \in Recipients
BY Identities DEF TypeInv, BusyHasJob, Target

LEMMA ShutdownIsAllowed ==
  ASSUME TypeInv, NEW p \in Procs, Shutdown(p)
  PROVE  [Lifecycle!Update]_row
<1> DEFINE S == {r \in Recipients : status \in Recoverable /\ row[r] = "queued"}
<1>1. row' = row \/ row' = [r \in Recipients |-> IF r \in S THEN "pending" ELSE row[r]]
  BY DEF Shutdown
<1>2. \A r \in S : Lifecycle!TriggerAllows(row[r], "pending")
  BY DEF Lifecycle!TriggerAllows
<1> HIDE DEF S
<1>3. S \in SUBSET Recipients /\ "pending" \in Lifecycle!SendStatus
  BY DEF S, Lifecycle!SendStatus
<1> QED BY <1>1, <1>2, <1>3, BatchIsAllowed

LEMMA RecoveryIsAllowed ==
  ASSUME TypeInv, NEW p \in Procs, NEW r \in Recipients, ResetLost(p, r)
  PROVE  [Lifecycle!Update]_row
<1>1. CASE row[r] = "queued" /\ row' = [row EXCEPT ![r] = "pending"]
  <2>1. row' = [q \in Recipients |-> IF q \in {r} THEN "pending" ELSE row[q]]
    BY <1>1 DEF TypeInv, TypeOK
  <2>2. \A q \in {r} : Lifecycle!TriggerAllows(row[q], "pending")
    BY <1>1 DEF Lifecycle!TriggerAllows
  <2> QED BY <2>1, <2>2, BatchIsAllowed DEF Lifecycle!SendStatus
<1>2. CASE row' = row
  BY <1>2
<1> QED BY <1>1, <1>2 DEF ResetLost

LEMMA CancelIsAllowed ==
  ASSUME TypeInv, CancelRows
  PROVE  [Lifecycle!Update]_row
<1>1. CASE row' = row
  BY <1>1
<1>2. CASE row' # row
  <2>1. PICK S \in SUBSET Open :
          row' = [r \in Recipients |-> IF r \in S THEN "skipped" ELSE row[r]]
    BY <1>2 DEF CancelRows
  <2>2. \A r \in S : Lifecycle!TriggerAllows(row[r], "skipped")
    BY <2>1 DEF Open, Lifecycle!TriggerAllows
  <2>3. S \in SUBSET Recipients /\ "skipped" \in Lifecycle!SendStatus
    BY <2>1 DEF Open, Lifecycle!SendStatus
  <2> QED BY <2>1, <2>2, <2>3, BatchIsAllowed
<1> QED BY <1>1, <1>2

LEMMA StepIsAllowed == TypeInv /\ [Next]_vars => [Lifecycle!Update]_row
<1> SUFFICES ASSUME TypeInv, [Next]_vars PROVE [Lifecycle!Update]_row
  OBVIOUS
<1>1. CASE UNCHANGED vars
  BY <1>1 DEF vars
<1>2. ASSUME NEW p \in Procs, Tick(p) \/ Crash(p) \/ Exit(p) \/ Boot(p) PROVE UNCHANGED row
  BY <1>2 DEF Tick, Crash, Exit, Boot, data
<1>3. ASSUME NEW p \in Procs, NEW r,
             Enqueue(p, r) \/ Backfill(p, r) \/ RequeueStale(p, r) \/ RecoverRow(p, r)
      PROVE  UNCHANGED row
  BY <1>3, Zenon DEF Enqueue, Backfill, RequeueStale, RecoverRow, data
<1>4. ASSUME NEW p \in Procs, NEW r \in Recipients, ClaimEnqueued(p, r)
      PROVE  [Lifecycle!Update]_row
  BY <1>4, MoveIsAllowed DEF ClaimEnqueued
<1>5. ASSUME NEW w \in Workers, NEW j \in JobIds, Begin(w, j) \/ BeginReturns(w, j)
      PROVE  UNCHANGED row
  BY <1>5 DEF Begin, BeginReturns, data
<1>6. ASSUME NEW w \in Workers, ReadRow(w) \/ PassGate(w) \/ FinalizeRead(w)
                                \/ ThrowEarly(w) \/ ThrowInTry(w) \/ ThrowInCatch(w)
      PROVE  UNCHANGED row
  BY <1>6 DEF ReadRow, PassGate, FinalizeRead, ThrowEarly, ThrowInTry, ThrowInCatch, data
<1>7. ASSUME NEW w \in Workers, CountSkipped(w) \/ SendMail(w) \/ CountSent(w) \/ LogSent(w)
                                \/ CountFailed(w) \/ FinalizeWrite(w)
      PROVE  UNCHANGED row
  BY <1>7 DEF CountSkipped, SendMail, CountSent, LogSent, CountFailed, FinalizeWrite
<1>8. ASSUME NEW w \in Workers, ClaimRow(w) \/ SkipRow(w) \/ CommitSent(w) \/ MarkFailed(w)
      PROVE  [Lifecycle!Update]_row
  <2>1. Target(w) \in Recipients
    BY <1>8, TargetIsRecipient DEF ClaimRow, SkipRow, CommitSent, MarkFailed
  <2> QED BY <1>8, <2>1, MoveIsAllowed DEF ClaimRow, SkipRow, CommitSent, MarkFailed
<1>9. ASSUME NEW j \in JobIds, MoveRetry(j) \/ Evict(j) PROVE UNCHANGED row
  BY <1>9 DEF MoveRetry, Evict, data
<1>10. CASE Pause \/ Resume \/ CancelStatus \/ CancelJobs \/ EditTemplate
  BY <1>10 DEF Pause, Resume, CancelStatus, CancelJobs, EditTemplate, data
<1>11. ASSUME NEW r \in Recipients, Suppress(r) PROVE UNCHANGED row
  BY <1>11 DEF Suppress, data
<1>12. CASE Next
  BY <1>2, <1>3, <1>4, <1>5, <1>6, <1>7, <1>8, <1>9, <1>10, <1>11, <1>12,
     ShutdownIsAllowed, RecoveryIsAllowed, CancelIsAllowed DEF Next, Process
<1> QED BY <1>1, <1>12

\* The pipeline implements the lifecycle the database trigger enforces: none of
\* the conditional and batch UPDATEs can ever raise its exception.
THEOREM ImplementsLifecycle == Spec => LifecycleHolds
<1>1. Init => Lifecycle!Init
  BY DEF Init, Lifecycle!Init
<1>2. Init => TypeInv
  BY InitTypes
<1> QED BY <1>1, <1>2, TypeStep, StepIsAllowed, PTL DEF Spec, LifecycleHolds, Lifecycle!Spec

-----------------------------------------------------------------------------
(* Finished and stopped campaigns *)

\* The theorem behind DoneIsFinal: of the five actions that write the status,
\* three look at it first and the two blind writes only write a final one.
THEOREM DoneStaysDone == Spec => DoneIsFinal
<1>1. TypeInv /\ [Next]_vars => [(status \in Done) => (status' \in Done)]_vars
  <2> SUFFICES ASSUME TypeInv, Next, status \in Done PROVE status' \in Done
    OBVIOUS
  <2>1. ASSUME NEW w \in Workers, FinalizeWrite(w) PROVE status' \in Done
    BY <2>1 DEF FinalizeWrite, TypeInv, TypeOK, Slot, Done
  <2>2. ASSUME NEW p \in Procs, NEW r \in Recipients, Enqueue(p, r) PROVE status' \in Done
    BY <2>2 DEF Enqueue, Done
  <2>3. CASE Pause \/ Resume \/ CancelStatus
    BY <2>3 DEF Pause, Resume, CancelStatus, Done
  <2>4. ASSUME NEW p \in Procs, Tick(p) \/ Crash(p) \/ Shutdown(p) \/ Exit(p) \/ Boot(p)
        PROVE  status' = status
    BY <2>4 DEF Tick, Crash, Shutdown, Exit, Boot, data
  <2>5. ASSUME NEW p \in Procs, NEW r,
               \/ Backfill(p, r) \/ ClaimEnqueued(p, r) \/ RequeueStale(p, r)
               \/ ResetLost(p, r) \/ RecoverRow(p, r)
        PROVE  status' = status
    BY <2>5, Zenon DEF Backfill, ClaimEnqueued, RequeueStale, ResetLost, RecoverRow, data
  <2>6. ASSUME NEW w \in Workers, NEW j \in JobIds, Begin(w, j) \/ BeginReturns(w, j)
        PROVE  status' = status
    BY <2>6 DEF Begin, BeginReturns, data
  <2>7. ASSUME NEW w \in Workers, ~FinalizeWrite(w),
               Process(w) \/ ThrowEarly(w) \/ ThrowInTry(w) \/ ThrowInCatch(w)
        PROVE  status' = status
    BY <2>7 DEF Process, ReadRow, ClaimRow, SkipRow, CountSkipped, PassGate, SendMail,
                CommitSent, CountSent, LogSent, MarkFailed, CountFailed, FinalizeRead,
                ThrowEarly, ThrowInTry, ThrowInCatch, data
  <2>8. ASSUME NEW j \in JobIds, MoveRetry(j) \/ Evict(j) PROVE status' = status
    BY <2>8 DEF MoveRetry, Evict, data
  <2>9. CASE CancelJobs \/ CancelRows \/ EditTemplate
    BY <2>9 DEF CancelJobs, CancelRows, EditTemplate, data
  <2>10. ASSUME NEW r \in Recipients, Suppress(r) PROVE status' = status
    BY <2>10 DEF Suppress, data
  <2> QED
    BY <2>1, <2>2, <2>3, <2>4, <2>5, <2>6, <2>7, <2>8, <2>9, <2>10 DEF Next
<1> QED BY <1>1, InitTypes, TypeStep, PTL DEF Spec, DoneIsFinal

-----------------------------------------------------------------------------
(* No job of a version still to come *)

\* Jobs, and what the schedulers are about to add, are of versions the template
\* has had.
Known ==
  /\ \A j \in JobIds : job[j].state # "none" => j[2] <= version
  /\ \A w \in Workers : ex[w].job \in JobIds => ex[w].job[2] <= version
  /\ \A p \in Procs :
       /\ sched[p].ver <= version
       /\ \A j \in sched[p].boot : j[2] <= version /\ j[3] = 0

\* Steps that add no job of another version to the queue, and none to a slot.
LEMMA KnownQueues ==
  ASSUME TypeInv, Known, UNCHANGED <<sched, version>>,
         \A j \in JobIds : job'[j].state # "none" => job[j].state # "none" \/ j[2] <= version,
         \A w \in Workers : \/ ex'[w].job \in {ex[w].job, NoJob}
                            \/ ex'[w].job[2] <= version
  PROVE  Known'
BY Identities DEF Known

LEMMA KnownScheduler ==
  ASSUME TypeInv, Known, UNCHANGED <<ex, version>>, NEW p \in Procs, NEW s \in Sched,
         NEW i \in JobIds, NEW key, job' = Added(i, key) \/ job' = job, i[2] <= version,
         sched' = [sched EXCEPT ![p] = s], s.ver <= version,
         \A j \in s.boot : j[2] <= version /\ j[3] = 0
  PROVE  Known'
<1>1. \A j \in JobIds : j # i => job'[j] = job[j]
  BY DEF Added, TypeInv, TypeOK
<1>2. \A q \in Procs : sched'[q] = IF q = p THEN s ELSE sched[q]
  BY DEF TypeInv, TypeOK
<1> QED BY <1>1, <1>2 DEF Known

LEMMA KnownThrew ==
  ASSUME TypeInv, Known, NEW w \in Workers, NEW n, ex[w].job \in JobIds,
         JobThrew(w, n) \/ JobDone(w), UNCHANGED <<sched, version>>
  PROVE  Known'
<1> DEFINE j == ex[w].job
<1>1. j \in JobIds /\ j[2] <= version
  BY DEF Known
<1>2. \A i \in JobIds : job'[i].state # "none" => job[i].state # "none" \/ i[2] <= version
  <2>1. CASE JobDone(w)
    BY <1>1, <2>1 DEF JobDone, TypeInv, TypeOK
  <2>2. CASE JobThrew(w, n)
    <3>1. \A i \in JobIds : i # j /\ i # <<j[1], j[2], n>> => job'[i] = job[i]
      BY <2>2 DEF JobThrew, TypeInv, TypeOK
    <3>2. <<j[1], j[2], n>>[2] <= version
      BY <1>1
    <3> QED BY <1>1, <3>1, <3>2
  <2> QED BY <2>1, <2>2
<1>3. \A v \in Workers : ex'[v].job \in {ex[v].job, NoJob}
  BY DEF JobDone, JobThrew, TypeInv, TypeOK, IdleSlot
<1> QED BY <1>2, <1>3, KnownQueues

LEMMA KnownStep == TypeInv /\ Known /\ [Next]_vars => Known'
<1> SUFFICES ASSUME TypeInv, Known, [Next]_vars PROVE Known'
  OBVIOUS
<1> USE DEF data
<1>1. version \in Nat /\ 1 <= version /\ version \in Versions
  BY DEF TypeInv, TypeOK, Versions
<1>2. CASE UNCHANGED vars
  BY <1>2, KnownQueues DEF vars
<1>3. ASSUME NEW p \in Procs, Tick(p) PROVE Known'
  <2>1. PICK s \in Sched :
          /\ sched' = [sched EXCEPT ![p] = s]
          /\ s.ver \in {sched[p].ver, version} /\ s.boot = sched[p].boot
    BY <1>3, TickUpdates
  <2>2. UNCHANGED <<job, ex, version>>
    BY <1>3, TickUpdates
  <2> QED BY <1>1, <2>1, <2>2, KnownScheduler DEF Known
<1>4. ASSUME NEW p \in Procs, Crash(p) PROVE Known'
  <2>1. \A j \in JobIds : job'[j].state # "none" => job[j].state # "none" \/ j[2] <= version
    BY <1>4 DEF Crash, Known
  <2>2. \A w \in Workers : ex'[w] = ex[w] \/ ex'[w].job = NoJob
    BY <1>4 DEF Crash, IdleSlot
  <2>3. \A q \in Procs : sched'[q] = sched[q] \/ (sched'[q].ver = 1 /\ sched'[q].boot = {})
    BY <1>4 DEF Crash, IdleSched, TypeInv, TypeOK
  <2>4. version' = version
    BY <1>4 DEF Crash
  <2> QED BY <1>1, <2>1, <2>2, <2>3, <2>4, Identities DEF Known
<1>5. ASSUME NEW p \in Procs, Exit(p) PROVE Known'
  <2>1. \A q \in Procs : sched'[q] = sched[q] \/ (sched'[q].ver = 1 /\ sched'[q].boot = {})
    BY <1>5 DEF Exit, IdleSched, TypeInv, TypeOK
  <2>2. UNCHANGED <<job, ex, version>>
    BY <1>5 DEF Exit
  <2> QED BY <1>1, <2>1, <2>2 DEF Known
<1>6. ASSUME NEW p \in Procs, Boot(p) PROVE Known'
  <2> DEFINE B == {JobFor(r, version) : r \in Open}
  <2>1. \A q \in Procs : \/ sched'[q] = sched[q]
                         \/ sched'[q].ver = 1 /\ sched'[q].boot = B
    <3>1. PICK lost \in SUBSET {r \in Recipients : row[r] = "queued" /\ ~Live(r)} :
            sched' = IF status \in Recoverable
                     THEN [sched EXCEPT ![p] = [IdleSched EXCEPT
                             !.boot = {JobFor(r, version) : r \in Open}, !.lost = lost]]
                     ELSE sched
      BY <1>6 DEF Boot
    <3>2. sched' = sched \/ sched' = [sched EXCEPT ![p] = [IdleSched EXCEPT
                                                    !.boot = B, !.lost = lost]]
      BY <3>1
    <3> HIDE DEF B
    <3> QED BY <3>2, ZenonT(40) DEF IdleSched, TypeInv, TypeOK
  <2>2. UNCHANGED <<job, ex, version>>
    BY <1>6, Zenon DEF Boot
  <2>3. \A j \in B : j[2] <= version /\ j[3] = 0
    BY <1>1, Identities DEF Open
  <2> HIDE DEF B
  <2> QED BY <1>1, <2>1, <2>2, <2>3 DEF Known
<1>7. ASSUME NEW p \in Procs, Shutdown(p) PROVE Known'
  BY <1>7, KnownQueues DEF Shutdown
<1>8. ASSUME NEW p \in Procs, NEW r \in Recipients,
             Enqueue(p, r) \/ Backfill(p, r) \/ RequeueStale(p, r)
      PROVE  Known'
  <2> DEFINE i == JobFor(r, sched[p].ver)
             s == [sched[p] EXCEPT !.picks = @ \ {r}, !.claims = @ \cup {r}]
  <2>1. sched[p] \in Sched
    BY DEF TypeInv, TypeOK
  <2>2. i \in JobIds /\ i[2] <= version
    BY <2>1, Identities DEF Sched, Known
  <2>3. s \in Sched /\ s.ver = sched[p].ver /\ s.boot = sched[p].boot
    BY <2>1 DEF Sched
  <2>4. /\ job' = Added(i, "hashed") /\ UNCHANGED <<ex, version>>
        /\ sched' = [sched EXCEPT ![p] = s] \/ sched' = [sched EXCEPT ![p] = sched[p]]
    BY <1>8 DEF Enqueue, Backfill, RequeueStale, TypeInv, TypeOK
  <2> HIDE DEF i, s
  <2> QED BY <2>1, <2>2, <2>3, <2>4, KnownScheduler DEF Known
<1>9. ASSUME NEW p \in Procs, NEW r \in Recipients, ClaimEnqueued(p, r) \/ ResetLost(p, r)
      PROVE  Known'
  <2>1. \A q \in Procs : sched'[q].ver = sched[q].ver /\ sched'[q].boot = sched[q].boot
    BY <1>9 DEF ClaimEnqueued, ResetLost, TypeInv, TypeOK, Sched
  <2>2. UNCHANGED <<job, ex, version>>
    BY <1>9 DEF ClaimEnqueued, ResetLost
  <2> QED BY <2>1, <2>2 DEF Known
<1>10. ASSUME NEW p \in Procs, NEW j \in JobIds, RecoverRow(p, j) PROVE Known'
  <2> DEFINE s == [sched[p] EXCEPT !.boot = @ \ {j}]
  <2>1. sched[p] \in Sched
    BY DEF TypeInv, TypeOK
  <2>2. s \in Sched /\ s.ver = sched[p].ver /\ s.boot \subseteq sched[p].boot
    BY <2>1 DEF Sched
  <2>3. /\ job' = Added(j, "plain") /\ UNCHANGED <<ex, version>> /\ j \in sched[p].boot
        /\ sched' = [sched EXCEPT ![p] = s]
    BY <1>10 DEF RecoverRow
  <2> HIDE DEF s
  <2> QED BY <2>2, <2>3, KnownScheduler DEF Known
<1>11. ASSUME NEW w \in Workers, NEW j \in JobIds, Begin(w, j) \/ BeginReturns(w, j)
       PROVE  Known'
  <2>1. j[2] <= version /\ UNCHANGED <<sched, version>>
    BY <1>11 DEF Begin, BeginReturns, Known
  <2>2. \A i \in JobIds : job'[i].state # "none" => job[i].state # "none" \/ i[2] <= version
    BY <1>11, <2>1 DEF Begin, BeginReturns, TypeInv, TypeOK
  <2>3. \A v \in Workers : ex'[v] = ex[v] \/ ex'[v].job = j
    BY <1>11, ZenonT(40) DEF Begin, BeginReturns, TypeInv, TypeOK, IdleSlot
  <2> QED BY <2>1, <2>2, <2>3, KnownQueues
<1>12. ASSUME NEW w \in Workers,
              Process(w) \/ ThrowEarly(w) \/ ThrowInTry(w) \/ ThrowInCatch(w)
       PROVE  Known'
  <2>1. ex[w].job \in JobIds /\ UNCHANGED <<sched, version>>
    BY <1>12 DEF TypeInv, BusyHasJob, Process, ReadRow, ClaimRow, SkipRow, CountSkipped,
                 PassGate, SendMail, CommitSent, CountSent, LogSent, MarkFailed, CountFailed,
                 FinalizeRead, FinalizeWrite, ThrowEarly, ThrowInTry, ThrowInCatch
  <2>2. \/ \E n : JobDone(w) \/ JobThrew(w, n)
        \/ job' = job /\ \A v \in Workers : ex'[v].job = ex[v].job
    <3>1. CASE Finish(w)
      BY <3>1 DEF Finish
    <3>2. CASE ThrowEarly(w) \/ ThrowInCatch(w)
      BY <3>2 DEF ThrowEarly, ThrowInCatch
    <3>3. ASSUME NEW pc, Goto(w, pc) PROVE job' = job /\ \A v \in Workers : ex'[v].job = ex[v].job
      BY <3>3 DEF Goto, TypeInv, TypeOK, Slot
    <3>4. CASE ThrowInTry(w)
      BY <3>4 DEF ThrowInTry, TypeInv, TypeOK, Slot
    <3>5. CASE FinalizeRead(w) /\ ~Finish(w)
      BY <3>5 DEF FinalizeRead, TypeInv, TypeOK, Slot
    <3>6. CASE Process(w) /\ ~FinalizeRead(w) /\ ~FinalizeWrite(w)
      BY <3>3, <3>6 DEF Process, ReadRow, ClaimRow, SkipRow, CountSkipped, PassGate, SendMail,
                        CommitSent, CountSent, LogSent, MarkFailed, CountFailed
    <3> QED BY <1>12, <3>1, <3>2, <3>4, <3>5, <3>6 DEF FinalizeWrite
  <2> QED BY <2>1, <2>2, KnownThrew, KnownQueues
<1>13. ASSUME NEW j \in JobIds, MoveRetry(j) \/ Evict(j) PROVE Known'
  <2>1. \A i \in JobIds : job'[i].state # "none" => job[i].state # "none"
    BY <1>13 DEF MoveRetry, Evict, TypeInv, TypeOK, Job
  <2>2. UNCHANGED <<ex, sched, version>>
    BY <1>13 DEF MoveRetry, Evict
  <2> QED BY <2>1, <2>2, KnownQueues
<1>14. CASE Pause \/ Resume \/ CancelStatus \/ CancelRows \/ \E r \in Recipients : Suppress(r)
  BY <1>14, KnownQueues DEF Pause, Resume, CancelStatus, CancelRows, Suppress
<1>15. CASE CancelJobs
  BY <1>15, KnownQueues DEF CancelJobs, Unqueued
<1>16. CASE EditTemplate
  <2>1. \A n \in Nat : n <= version => n <= version'
    BY <1>1, <1>16 DEF EditTemplate
  <2>2. UNCHANGED <<job, ex, sched>>
    BY <1>16 DEF EditTemplate
  <2>3. /\ \A j \in JobIds : j[2] \in Nat
        /\ \A p \in Procs : sched[p].ver \in Nat /\ sched[p].boot \subseteq JobIds
    BY Identities DEF TypeInv, TypeOK, Sched
  <2> QED BY <2>1, <2>2, <2>3 DEF Known
<1> QED
  BY <1>2, <1>3, <1>4, <1>5, <1>6, <1>7, <1>8, <1>9, <1>10, <1>11, <1>12, <1>13, <1>14,
     <1>15, <1>16 DEF Next

-----------------------------------------------------------------------------
(* One mail each *)

\* The events that let a second job, or a second run of a job, exist.
Calm == fails = 0 /\ Untouched("crash") /\ Untouched("stop") /\ Untouched("evict")

NoCopies ==
  \A r \in Recipients, v \in Versions, n \in 1 .. MaxFails : job[<<r, v, n>>].state = "none"
NothingThrown == \A w \in Workers : ex[w].bad = 0 /\ ex[w].pc \notin {"fail", "failcount"}
\* A busy slot holds its job: the job is active and in no other slot.
Exclusive ==
  /\ \A w \in Workers : ex[w].pc # "idle" => job[ex[w].job].state = "active"
  /\ \A v, w \in Workers :
       v # w /\ ex[v].pc # "idle" /\ ex[w].pc # "idle" => ex[v].job # ex[w].job
\* The versions under which a recipient can no longer be mailed: the job is done,
\* or its slot is past the mail.  Every mail uses up one of them.
After == PC \ {"idle", "row", "claim", "gate", "mail"}
UsedUp(r) ==
  {v \in Versions : \/ job[JobFor(r, v)].state = "completed"
                    \/ \E w \in Workers : ex[w].job = JobFor(r, v) /\ ex[w].pc \in After}
Counted == \A r \in Recipients : mails[r] <= Cardinality(UsedUp(r))

CalmInv == NoCopies /\ NothingThrown /\ Exclusive /\ Counted
OnceInv == TypeInv /\ Known /\ (Calm => CalmInv)

LEMMA CopyIds ==
  \A r \in Recipients, v \in Versions, n \in 1 .. MaxFails :
    <<r, v, n>> \in JobIds /\ <<r, v, n>>[3] # 0
BY DeliveryAssumption DEF JobIds

\* Version sets are finite, so that a larger one has no fewer members.
LEMMA Uses ==
  ASSUME NEW S \in SUBSET Versions
  PROVE  IsFiniteSet(S) /\ Cardinality(S) \in Nat
<1>1. IsFiniteSet(Versions)
  BY DeliveryAssumption, FS_Interval DEF Versions
<1> QED BY <1>1, FS_Subset, FS_CardinalityType

LEMMA UsesGrow ==
  ASSUME mails' = mails, TypeInv, Counted, \A r \in Recipients : UsedUp(r) \subseteq UsedUp(r)'
  PROVE  Counted'
<1> SUFFICES ASSUME NEW r \in Recipients PROVE mails'[r] <= Cardinality(UsedUp(r)')
  BY DEF Counted
<1>1. UsedUp(r) \subseteq Versions /\ UsedUp(r)' \subseteq Versions
  BY DEF UsedUp
<1>2. Cardinality(UsedUp(r)) <= Cardinality(UsedUp(r)')
  BY <1>1, Uses, FS_Subset
<1>3. mails[r] <= Cardinality(UsedUp(r)) /\ mails[r] \in Nat
  BY DEF Counted, TypeInv, TypeOK
<1> HIDE DEF UsedUp
<1> QED BY <1>1, <1>2, <1>3, Uses

LEMMA InitOnce == Init => OnceInv
<1> SUFFICES ASSUME Init PROVE OnceInv
  OBVIOUS
<1>1. TypeInv
  BY InitTypes
<1>2. Known
  BY Identities DEF Init, Known, IdleSlot, IdleSched, Unqueued
<1>3. Counted
  <2> SUFFICES ASSUME NEW r \in Recipients PROVE 0 <= Cardinality(UsedUp(r))
    BY DEF Init, Counted
  <2> QED BY Uses DEF UsedUp
<1>4. CalmInv
  BY <1>3, CopyIds DEF Init, CalmInv, NoCopies, NothingThrown, Exclusive, IdleSlot, Unqueued
<1> QED BY <1>1, <1>2, <1>4 DEF OnceInv

LEMMA SpendGrows ==
  ASSUME TypeInv, NEW e \in Events, Spend(e)
  PROVE  used[e] < used'[e] /\ \A d \in Events : used[d] <= used'[d]
BY DEF TypeInv, TypeOK, Spend

\* What an action does to the two counters that Calm is about.
LEMMA Bookkeeping ==
  ASSUME TypeInv, Next
  PROVE  /\ fails' = fails \/ fails' = fails + 1
         /\ used' = used \/ \E e \in Events : Spend(e)
<1>1. ASSUME NEW p \in Procs, Tick(p) \/ Exit(p) \/ Boot(p)
      PROVE  fails' = fails /\ used' = used
  BY <1>1 DEF Tick, Exit, Boot
<1>2. ASSUME NEW p \in Procs, Crash(p) \/ Shutdown(p)
      PROVE  fails' = fails /\ \E e \in Events : Spend(e)
  BY <1>2 DEF Crash, Shutdown, Events
<1>3. ASSUME NEW p \in Procs, NEW r \in Recipients,
             \/ Enqueue(p, r) \/ Backfill(p, r) \/ ClaimEnqueued(p, r)
             \/ RequeueStale(p, r) \/ ResetLost(p, r)
      PROVE  fails' = fails /\ (used' = used \/ \E e \in Events : Spend(e))
  BY <1>3 DEF Enqueue, Backfill, ClaimEnqueued, RequeueStale, ResetLost, DbError, Events
<1>12. ASSUME NEW p \in Procs, NEW j \in JobIds, RecoverRow(p, j)
       PROVE  fails' = fails /\ used' = used
  BY <1>12 DEF RecoverRow
<1>4. ASSUME NEW w \in Workers, NEW j \in JobIds, Begin(w, j) \/ BeginReturns(w, j)
      PROVE  fails' = fails /\ (used' = used \/ \E e \in Events : Spend(e))
  BY <1>4 DEF Begin, BeginReturns, DbError, Events
<1>5. ASSUME NEW w \in Workers, Process(w)
      PROVE  fails' = fails /\ (used' = used \/ \E e \in Events : Spend(e))
  BY <1>5 DEF DbError, Events, Process, ReadRow, ClaimRow, SkipRow, CountSkipped, PassGate, SendMail,
              CommitSent, CountSent, LogSent, MarkFailed, CountFailed, FinalizeRead,
              FinalizeWrite
<1>6. ASSUME NEW w \in Workers, ThrowEarly(w) \/ ThrowInTry(w)
      PROVE  fails' = fails + 1 /\ used' = used
  BY <1>6 DEF ThrowEarly, ThrowInTry
<1>13. ASSUME NEW w \in Workers, ThrowInCatch(w)
       PROVE  fails' = fails /\ \E e \in Events : Spend(e)
  BY <1>13 DEF ThrowInCatch, Events
<1>7. ASSUME NEW j \in JobIds, MoveRetry(j) PROVE fails' = fails /\ used' = used
  BY <1>7 DEF MoveRetry
<1>8. ASSUME NEW j \in JobIds, Evict(j) PROVE fails' = fails /\ \E e \in Events : Spend(e)
  BY <1>8 DEF Evict, Events
<1>9. CASE Pause \/ CancelStatus \/ EditTemplate
  BY <1>9 DEF Pause, CancelStatus, EditTemplate, Events
<1>10. CASE Resume \/ CancelJobs \/ CancelRows
  BY <1>10 DEF Resume, CancelJobs, CancelRows
<1>11. ASSUME NEW r \in Recipients, Suppress(r)
       PROVE  fails' = fails /\ \E e \in Events : Spend(e)
  BY <1>11 DEF Suppress, Events
<1> QED
  BY <1>1, <1>2, <1>3, <1>4, <1>5, <1>6, <1>7, <1>8, <1>9, <1>10, <1>11, <1>12,
     <1>13 DEF Next

\* Calm ends for good, and the steps that end it are these.
LEMMA CalmBefore ==
  ASSUME TypeInv, Next
  PROVE  /\ Calm' => Calm
         /\ Calm' => fails' = fails /\ \A e \in {"crash", "stop", "evict"} : used'[e] = used[e]
<1>1. \A e \in Events : used[e] <= used'[e]
  BY Bookkeeping, SpendGrows DEF TypeInv, TypeOK
<1>2. \A e \in Events : used[e] \in Nat /\ used'[e] \in Nat
  BY TypeStep DEF TypeInv, TypeOK
<1>4. fails \in Nat /\ (fails' = fails \/ fails' = fails + 1)
  BY Bookkeeping, Identities DEF TypeInv, TypeOK
<1>5. Calm' => fails = 0 /\ fails' = fails
  BY <1>4 DEF Calm
<1>6. {"crash", "stop", "evict"} \subseteq Events
  BY DEF Events
<1>7. Calm' => \A e \in {"crash", "stop", "evict"} : used[e] = 0 /\ used'[e] = used[e]
  BY <1>1, <1>2, <1>6 DEF Calm, Untouched
<1> QED BY <1>5, <1>7 DEF Calm, Untouched

LEMMA NotCalm ==
  ASSUME TypeInv, Next, Calm'
  PROVE  /\ \A w \in Workers : ~ThrowEarly(w) /\ ~ThrowInTry(w)
         /\ \A p \in Procs : ~Crash(p) /\ ~Shutdown(p)
         /\ \A j \in JobIds : ~Evict(j)
<1>1. fails' = fails /\ \A e \in {"crash", "stop", "evict"} : used'[e] = used[e]
  BY CalmBefore
<1>2. fails \in Nat
  BY Identities DEF TypeInv, TypeOK
<1>3. \A e \in {"crash", "stop", "evict"} : e \in Events /\ used[e] \in Nat
  BY DEF TypeInv, TypeOK, Events
<1>4. \A e \in {"crash", "stop", "evict"} : ~Spend(e)
  BY <1>1, <1>3, SpendGrows
<1> QED BY <1>1, <1>2, <1>4 DEF ThrowEarly, ThrowInTry, Crash, Shutdown, Evict

\* A busy slot holds the job with the deterministic id of its recipient.
LEMMA SlotJob ==
  ASSUME TypeInv, CalmInv, NEW w \in Workers, ex[w].pc # "idle"
  PROVE  /\ ex[w].job = JobFor(Target(w), ex[w].job[2]) /\ ex[w].job \in JobIds
         /\ Target(w) \in Recipients /\ ex[w].job[2] \in Versions
<1>1. ex[w].job \in JobIds /\ job[ex[w].job].state = "active"
  BY DEF TypeInv, BusyHasJob, CalmInv, Exclusive
<1>2. ex[w].job[3] \notin 1 .. MaxFails
  BY <1>1, Identities DEF CalmInv, NoCopies
<1>3. ex[w].job[3] = 0
  BY <1>1, <1>2, Identities
<1> QED BY <1>1, <1>3, Identities DEF Target

\* Steps of the queues alone: jobs that are not active change, and no copy
\* comes into being.
LEMMA CalmQueues ==
  ASSUME TypeInv, CalmInv, ex' = ex, mails' = mails,
         \A j \in JobIds :
           \/ job'[j].state = job[j].state
           \/ /\ job[j].state \in {"none", "retry", "wait"}
              /\ j[3] = 0 \/ job'[j].state = "none"
  PROVE  CalmInv'
<1>1. NoCopies'
  <2> SUFFICES ASSUME NEW r \in Recipients, NEW v \in Versions, NEW n \in 1 .. MaxFails
               PROVE  job'[<<r, v, n>>].state = "none"
    BY DEF NoCopies
  <2>1. <<r, v, n>> \in JobIds /\ <<r, v, n>>[3] # 0 /\ job[<<r, v, n>>].state = "none"
    BY CopyIds DEF CalmInv, NoCopies
  <2> QED BY <2>1
<1>2. NothingThrown'
  BY DEF CalmInv, NothingThrown
<1>3. Exclusive'
  BY DEF CalmInv, Exclusive, TypeInv, BusyHasJob
<1>4. Counted'
  <2>1. \A j \in JobIds : job[j].state = "completed" => job'[j].state = "completed"
    OBVIOUS
  <2>2. \A r \in Recipients : UsedUp(r) \subseteq UsedUp(r)'
    BY <2>1, Identities DEF UsedUp
  <2> QED BY <2>2, UsesGrow DEF CalmInv
<1> QED BY <1>1, <1>2, <1>3, <1>4 DEF CalmInv

\* Steps of a slot that neither mail nor end the job.
LEMMA CalmGoto ==
  ASSUME TypeInv, CalmInv, NEW w \in Workers, ex[w].pc # "idle", mails' = mails, job' = job,
         NEW s \in Slot, ex' = [ex EXCEPT ![w] = s], s.job = ex[w].job, s.bad = 0,
         s.pc \notin {"idle", "row", "fail", "failcount"},
         s.pc \in {"claim", "gate", "mail"} => ex[w].pc \in {"row", "claim", "gate"}
  PROVE  CalmInv'
<1>1. \A v \in Workers : ex'[v] = IF v = w THEN s ELSE ex[v]
  BY DEF TypeInv, TypeOK
<1>2. \A v \in Workers : ex'[v].job = ex[v].job /\ (ex'[v].pc # "idle" => ex[v].pc # "idle")
  BY <1>1
<1>3. NoCopies' /\ NothingThrown'
  BY <1>1 DEF CalmInv, NoCopies, NothingThrown
<1>4. Exclusive'
  BY <1>2 DEF CalmInv, Exclusive
<1>5. Counted'
  <2>1. \A v \in Workers : ex[v].pc \in After => ex'[v].pc \in After
    BY <1>1 DEF After, Slot
  <2>2. \A r \in Recipients : UsedUp(r) \subseteq UsedUp(r)'
    BY <1>2, <2>1 DEF UsedUp
  <2> QED BY <2>2, UsesGrow DEF CalmInv
<1> QED BY <1>3, <1>4, <1>5 DEF CalmInv

LEMMA CalmDone ==
  ASSUME TypeInv, CalmInv, NEW w \in Workers, ex[w].pc # "idle", mails' = mails, JobDone(w)
  PROVE  CalmInv'
<1>1. /\ ex[w].job = JobFor(Target(w), ex[w].job[2])
      /\ Target(w) \in Recipients /\ ex[w].job[2] \in Versions
      /\ job' = [job EXCEPT ![ex[w].job].state = "completed"]
  BY SlotJob DEF JobDone
<1>2. \A v \in Workers : ex'[v] = IF v = w THEN IdleSlot ELSE ex[v]
  BY DEF JobDone, TypeInv, TypeOK
<1>3. \A j \in JobIds : job'[j].state = IF j = ex[w].job THEN "completed" ELSE job[j].state
  BY <1>1 DEF TypeInv, TypeOK, Job
<1>4. NoCopies'
  <2> SUFFICES ASSUME NEW r \in Recipients, NEW v \in Versions, NEW n \in 1 .. MaxFails
               PROVE  job'[<<r, v, n>>].state = "none"
    BY DEF NoCopies
  <2>1. <<r, v, n>> \in JobIds /\ <<r, v, n>>[3] # 0
    BY CopyIds
  <2>2. ex[w].job[3] = 0
    BY <1>1, Identities
  <2> QED BY <1>3, <2>1, <2>2 DEF CalmInv, NoCopies
<1>5. NothingThrown'
  BY <1>2 DEF CalmInv, NothingThrown, IdleSlot
<1>6. Exclusive'
  BY <1>2, <1>3 DEF CalmInv, Exclusive, TypeInv, BusyHasJob, IdleSlot
<1>7. Counted'
  <2>1. \A r \in Recipients : UsedUp(r) \subseteq UsedUp(r)'
    BY <1>2, <1>3, Identities DEF UsedUp
  <2> QED BY <2>1, UsesGrow DEF CalmInv
<1> QED BY <1>4, <1>5, <1>6, <1>7 DEF CalmInv

LEMMA CalmBegin ==
  ASSUME TypeInv, CalmInv, NEW w \in Workers, NEW j \in JobIds, Begin(w, j)
  PROVE  CalmInv'
<1> DEFINE s == [IdleSlot EXCEPT !.pc = "row", !.job = j, !.seen = status]
<1>1. job[j].state = "wait" /\ ex' = [ex EXCEPT ![w] = s] /\ mails' = mails
  BY DEF Begin, data
<1>2. \A i \in JobIds : job'[i].state = IF i = j THEN "active" ELSE job[i].state
  BY DEF Begin, TypeInv, TypeOK, Job
<1>3. j[3] = 0
  BY <1>1, Identities DEF CalmInv, NoCopies
<1>4. s.pc = "row" /\ s.job = j /\ s.bad = 0
  BY DEF IdleSlot
<1>5. \A v \in Workers : ex'[v] = IF v = w THEN s ELSE ex[v]
  BY <1>1 DEF TypeInv, TypeOK
<1> HIDE DEF s
<1>6. \A v \in Workers : ex[v].pc # "idle" => ex[v].job # j
  BY <1>1 DEF CalmInv, Exclusive
<1>7. NoCopies'
  BY <1>2, <1>3, CopyIds DEF CalmInv, NoCopies
<1>8. NothingThrown'
  BY <1>4, <1>5 DEF CalmInv, NothingThrown
<1>9. Exclusive'
  BY <1>2, <1>4, <1>5, <1>6 DEF CalmInv, Exclusive, TypeInv, BusyHasJob
<1>11. Counted'
  <2>1. ex[w].pc \notin After
    BY DEF Begin, After
  <2>2. \A i \in JobIds : job[i].state = "completed" => job'[i].state = "completed"
    BY <1>1, <1>2
  <2>3. \A r \in Recipients : UsedUp(r) \subseteq UsedUp(r)'
    BY <1>5, <2>1, <2>2, Identities DEF UsedUp
  <2> QED BY <1>1, <2>3, UsesGrow DEF CalmInv
<1> QED BY <1>7, <1>8, <1>9, <1>11 DEF CalmInv

LEMMA CalmSend ==
  ASSUME TypeInv, CalmInv, NEW w \in Workers, SendMail(w)
  PROVE  CalmInv'
<1>1. PICK r \in Recipients, v \in Versions :
        /\ ex[w].pc = "mail" /\ job' = job
        /\ r = Target(w) /\ ex[w].job = JobFor(r, v)
  BY SlotJob DEF SendMail, Goto
<1>2. \A q \in Recipients : mails'[q] = IF q = r THEN mails[q] + 1 ELSE mails[q]
  BY <1>1 DEF SendMail, TypeInv, TypeOK
<1>3. \A u \in Workers : /\ ex'[u].job = ex[u].job /\ ex'[u].bad = ex[u].bad
                         /\ ex'[u].pc = IF u = w THEN "commit" ELSE ex[u].pc
  BY DEF SendMail, Goto, TypeInv, TypeOK, Slot
<1>4. NoCopies' /\ NothingThrown'
  BY <1>1, <1>3 DEF CalmInv, NoCopies, NothingThrown
<1>5. Exclusive'
  BY <1>1, <1>3 DEF CalmInv, Exclusive
<1>6. \A q \in Recipients : UsedUp(q) \subseteq UsedUp(q)'
  BY <1>1, <1>3 DEF UsedUp, After
\* The job is active and in this slot only, so its version was not used up.
<1>7. v \notin UsedUp(r) /\ v \in UsedUp(r)'
  <2>1. job[JobFor(r, v)].state = "active"
    BY <1>1 DEF CalmInv, Exclusive
  <2>2. \A u \in Workers : u # w /\ ex[u].pc \in After => ex[u].job # JobFor(r, v)
    BY <1>1 DEF CalmInv, Exclusive, After
  <2>3. "mail" \notin After /\ "commit" \in After
    BY DEF After, PC
  <2>4. v \notin UsedUp(r)
    BY <1>1, <2>1, <2>2, <2>3 DEF UsedUp
  <2>5. \E u \in Workers : ex'[u].job = JobFor(r, v) /\ ex'[u].pc \in After
    BY <1>1, <1>3, <2>3
  <2>6. v \in UsedUp(r)'
    BY <1>1, <2>5 DEF UsedUp
  <2> QED BY <2>4, <2>6
<1>8. Counted'
  <2> SUFFICES ASSUME NEW q \in Recipients PROVE mails'[q] <= Cardinality(UsedUp(q)')
    BY DEF Counted
  <2>1. UsedUp(q) \subseteq Versions /\ UsedUp(q)' \subseteq Versions
    BY DEF UsedUp
  <2>2. mails[q] <= Cardinality(UsedUp(q)) /\ mails[q] \in Nat
    BY DEF CalmInv, Counted, TypeInv, TypeOK
  <2> HIDE DEF UsedUp
  <2>3. Cardinality(UsedUp(q)) <= Cardinality(UsedUp(q)')
    BY <1>6, <2>1, Uses, FS_Subset
  <2>4. CASE q = r
    <3>1. UsedUp(q) \subseteq UsedUp(q)' /\ UsedUp(q) # UsedUp(q)'
      <4>1. v \notin UsedUp(q) /\ v \in UsedUp(q)'
        BY <1>7, <2>4
      <4> QED BY <1>6, <4>1
    <3>2. /\ IsFiniteSet(UsedUp(q)') /\ Cardinality(UsedUp(q)') \in Nat
          /\ Cardinality(UsedUp(q)) \in Nat
      BY <2>1, Uses
    <3>3. Cardinality(UsedUp(q)) # Cardinality(UsedUp(q)')
      BY <3>1, <3>2, FS_Subset
    <3> QED BY <1>2, <2>2, <2>3, <2>4, <3>2, <3>3
  <2>5. CASE q # r
    BY <1>2, <2>1, <2>2, <2>3, <2>5, Uses
  <2> QED BY <2>4, <2>5
<1> QED BY <1>4, <1>5, <1>8 DEF CalmInv

\* The steps that leave queues, slots and mails alone.
LEMMA CalmElsewhere ==
  ASSUME TypeInv, CalmInv, job' = job, ex' = ex, mails' = mails
  PROVE  CalmInv'
BY CalmQueues

LEMMA CalmAdded ==
  ASSUME TypeInv, CalmInv, NEW i \in JobIds, i[3] = 0, NEW key, job' = Added(i, key),
         ex' = ex, mails' = mails
  PROVE  CalmInv'
<1>1. \A j \in JobIds : j # i => job'[j] = job[j]
  BY DEF Added, TypeInv, TypeOK
<1>2. job[i].state = "none" \/ job' = job
  BY DEF Added
<1> QED BY <1>1, <1>2, CalmQueues

LEMMA SchedulerStaysCalm ==
  ASSUME TypeInv, Known, CalmInv, NEW p \in Procs,
         \/ Tick(p) \/ Exit(p) \/ Boot(p)
         \/ \E r \in Recipients :
              \/ Enqueue(p, r) \/ Backfill(p, r) \/ ClaimEnqueued(p, r)
              \/ RequeueStale(p, r) \/ ResetLost(p, r)
         \/ \E j \in JobIds : RecoverRow(p, j)
  PROVE  CalmInv'
<1>1. CASE Tick(p) \/ Exit(p) \/ Boot(p)
  BY <1>1, CalmElsewhere DEF Tick, Exit, Boot, data
<1>2. ASSUME NEW r \in Recipients, ClaimEnqueued(p, r) \/ ResetLost(p, r) PROVE CalmInv'
  BY <1>2, CalmElsewhere DEF ClaimEnqueued, ResetLost
<1>3. ASSUME NEW r \in Recipients,
             Enqueue(p, r) \/ Backfill(p, r) \/ RequeueStale(p, r)
      PROVE  CalmInv'
  <2> DEFINE i == JobFor(r, sched[p].ver)
  <2>1. i \in JobIds /\ i[3] = 0
    BY Identities DEF TypeInv, TypeOK, Sched
  <2>2. job' = Added(i, "hashed") /\ ex' = ex /\ mails' = mails
    BY <1>3, Zenon DEF Enqueue, Backfill, RequeueStale, data
  <2> QED BY <2>1, <2>2, CalmAdded
<1>4. ASSUME NEW j \in JobIds, RecoverRow(p, j) PROVE CalmInv'
  BY <1>4, CalmAdded DEF RecoverRow, Known, data
<1> QED BY <1>1, <1>2, <1>3, <1>4

LEMMA QueuesStayCalm ==
  ASSUME TypeInv, CalmInv,
         \/ \E j \in JobIds : MoveRetry(j)
         \/ \E w \in Workers, j \in JobIds : BeginReturns(w, j)
         \/ CancelJobs
  PROVE  CalmInv'
<1>1. \A j \in JobIds : job[j].state # "none" => j[3] = 0
  BY Identities DEF CalmInv, NoCopies
<1>2. ASSUME NEW j \in JobIds, MoveRetry(j) PROVE CalmInv'
  <2>1. job[j].state = "retry" /\ j[3] = 0
    BY <1>1, <1>2 DEF MoveRetry
  <2>2. \A i \in JobIds : i # j => job'[i] = job[i]
    BY <1>2 DEF MoveRetry, TypeInv, TypeOK
  <2> QED BY <1>2, <2>1, <2>2, CalmQueues DEF MoveRetry, data
<1>3. ASSUME NEW w \in Workers, NEW j \in JobIds, BeginReturns(w, j) PROVE CalmInv'
  <2>1. job[j].state = "wait" /\ j[3] = 0
    BY <1>1, <1>3 DEF BeginReturns
  <2>2. \A i \in JobIds : i # j => job'[i] = job[i]
    BY <1>3 DEF BeginReturns, TypeInv, TypeOK
  <2> QED BY <1>3, <2>1, <2>2, CalmQueues DEF BeginReturns, data
<1>4. CASE CancelJobs
  <2>1. \A j \in JobIds :
          \/ job'[j] = job[j]
          \/ job[j].state \in {"retry", "wait"} /\ job'[j].state = "none"
    BY <1>4 DEF CancelJobs, Unqueued
  <2> QED BY <1>4, <2>1, CalmQueues DEF CancelJobs, data
<1> QED BY <1>2, <1>3, <1>4

\* Goto as an instance of CalmGoto.
LEMMA CalmPc ==
  ASSUME TypeInv, CalmInv, NEW w \in Workers, ex[w].pc # "idle", mails' = mails,
         NEW pc \in PC, Goto(w, pc), pc \notin {"idle", "row", "fail", "failcount"},
         pc \in {"claim", "gate", "mail"} => ex[w].pc \in {"row", "claim", "gate"}
  PROVE  CalmInv'
<1> DEFINE s == [ex[w] EXCEPT !.pc = pc]
<1>1. s \in Slot /\ s.pc = pc /\ s.job = ex[w].job /\ s.bad = 0
  BY DEF TypeInv, TypeOK, Slot, CalmInv, NothingThrown
<1>2. ex' = [ex EXCEPT ![w] = s] /\ job' = job
  BY DEF Goto
<1> HIDE DEF s
<1> QED BY <1>1, <1>2, CalmGoto

LEMMA SlotStaysCalm ==
  ASSUME TypeInv, CalmInv, NEW w \in Workers, Process(w)
  PROVE  CalmInv'
<1>1. CASE ReadRow(w)
  BY <1>1, CalmDone, CalmPc DEF ReadRow, PC, data
<1>2. CASE ClaimRow(w) \/ SkipRow(w) \/ CountSkipped(w) \/ PassGate(w) \/ CountSent(w)
           \/ LogSent(w)
  BY <1>2, CalmPc DEF ClaimRow, SkipRow, CountSkipped, PassGate, CountSent, LogSent, PC, data
<1>3. CASE SendMail(w)
  BY <1>3, CalmSend
<1>4. CASE CommitSent(w)
  BY <1>4, CalmDone, CalmPc DEF CommitSent, PC
<1>5. CASE MarkFailed(w) \/ CountFailed(w)
  BY <1>5 DEF MarkFailed, CountFailed, CalmInv, NothingThrown
<1>6. CASE (FinalizeWrite(w) \/ FinalizeRead(w)) /\ Finish(w)
  <2>1. mails' = mails /\ ex[w].pc # "idle"
    BY <1>6 DEF FinalizeWrite, FinalizeRead, data
  <2>2. JobDone(w)
    BY <1>6 DEF Finish, CalmInv, NothingThrown
  <2> QED BY <2>1, <2>2, CalmDone
<1>7. CASE FinalizeRead(w) /\ ~Finish(w)
  <2> DEFINE v == IF total.failed > 0 \/ total.skipped > 0
                  THEN "partially_completed" ELSE "completed"
             s == [ex[w] EXCEPT !.pc = "finwrite", !.verdict = v]
  <2>1. v \in {"completed", "partially_completed"}
    OBVIOUS
  <2>2. ex' = [ex EXCEPT ![w] = s]
    BY <1>7 DEF FinalizeRead, TypeInv, TypeOK
  <2> HIDE DEF v
  <2>3. s \in Slot /\ s.pc = "finwrite" /\ s.job = ex[w].job /\ s.bad = 0
    BY <2>1 DEF TypeInv, TypeOK, Slot, PC, CalmInv, NothingThrown
  <2> HIDE DEF s
  <2> QED BY <1>7, <2>2, <2>3, CalmGoto DEF FinalizeRead, data
<1> QED BY <1>1, <1>2, <1>3, <1>4, <1>5, <1>6, <1>7 DEF Process, FinalizeWrite

LEMMA StepStaysCalm ==
  ASSUME TypeInv, Known, CalmInv, Next, Calm'
  PROVE  CalmInv'
<1>1. CASE \E p \in Procs : Crash(p) \/ Shutdown(p)
  BY <1>1, NotCalm
<1>2. CASE \E p \in Procs : \/ Tick(p) \/ Exit(p) \/ Boot(p)
                            \/ \E r \in Recipients :
                                 \/ Enqueue(p, r) \/ Backfill(p, r) \/ ClaimEnqueued(p, r)
                                 \/ RequeueStale(p, r) \/ ResetLost(p, r)
                            \/ \E j \in JobIds : RecoverRow(p, j)
  BY <1>2, SchedulerStaysCalm
<1>3. CASE \E w \in Workers, j \in JobIds : Begin(w, j)
  BY <1>3, CalmBegin
<1>4. CASE \E w \in Workers : ThrowEarly(w) \/ ThrowInTry(w) \/ ThrowInCatch(w)
  BY <1>4, NotCalm DEF ThrowInCatch, CalmInv, NothingThrown
<1>5. CASE \E w \in Workers : Process(w)
  BY <1>5, SlotStaysCalm
<1>6. CASE \E j \in JobIds : Evict(j)
  BY <1>6, NotCalm
<1>7. CASE \/ \E j \in JobIds : MoveRetry(j)
           \/ \E w \in Workers, j \in JobIds : BeginReturns(w, j)
           \/ CancelJobs
  BY <1>7, QueuesStayCalm
<1>8. CASE \/ Pause \/ Resume \/ CancelStatus \/ CancelRows \/ EditTemplate
           \/ \E r \in Recipients : Suppress(r)
  BY <1>8, CalmElsewhere
     DEF Pause, Resume, CancelStatus, CancelRows, EditTemplate, Suppress, data
<1> QED BY <1>1, <1>2, <1>3, <1>4, <1>5, <1>6, <1>7, <1>8 DEF Next

\* Any number of processes and slots may add, claim, requeue, recover, pause,
\* cancel, edit the template and deliver in any order: as long as no attempt
\* throws, no process dies or is stopped and no finished job is evicted, nobody
\* gets more mails than the template has had versions: one, if it is not edited.
THEOREM AtMostOneMail == Spec => []OneMailEach
<1>1. OnceInv /\ [Next]_vars => OnceInv'
  <2> SUFFICES ASSUME OnceInv, [Next]_vars PROVE OnceInv'
    OBVIOUS
  <2>1. TypeInv' /\ Known'
    BY TypeStep, KnownStep DEF OnceInv
  <2>2. CASE UNCHANGED vars
    <3>1. CalmInv => CalmInv'
      BY <2>2, CalmElsewhere DEF vars, OnceInv
    <3>2. Calm' => Calm
      BY <2>2 DEF vars, OnceInv, Calm, Untouched
    <3> QED BY <2>1, <3>1, <3>2 DEF OnceInv
  <2>3. CASE Next
    BY <2>1, <2>3, CalmBefore, StepStaysCalm DEF OnceInv
  <2> QED BY <2>2, <2>3
<1>2. OnceInv => OneMailEach
  <2> SUFFICES ASSUME OnceInv, Calm, NEW r \in Recipients PROVE mails[r] <= version
    BY DEF OneMailEach, Calm
  <2>1. UsedUp(r) \subseteq 1 .. version
    <3> SUFFICES ASSUME NEW v \in UsedUp(r) PROVE v \in 1 .. version
      OBVIOUS
    <3>1. v \in Versions /\ JobFor(r, v) \in JobIds /\ JobFor(r, v)[2] = v
      BY Identities DEF UsedUp
    <3>2. v <= version
      BY <3>1 DEF UsedUp, OnceInv, Known
    <3> QED BY <3>1, <3>2 DEF Versions, OnceInv, TypeInv, TypeOK
  <2>2. version \in Nat
    BY Identities DEF OnceInv, TypeInv, TypeOK
  <2>5. IsFiniteSet(1 .. version) /\ Cardinality(1 .. version) = version
    BY <2>2, FS_Interval
  <2>6. IsFiniteSet(UsedUp(r)) /\ Cardinality(UsedUp(r)) <= Cardinality(1 .. version)
    BY <2>1, <2>5, FS_Subset, Zenon
  <2>3. /\ Cardinality(UsedUp(r)) <= version
        /\ Cardinality(UsedUp(r)) \in Nat
    BY <2>5, <2>6, FS_CardinalityType
  <2>4. mails[r] <= Cardinality(UsedUp(r)) /\ mails[r] \in Nat
    BY DEF OnceInv, CalmInv, Counted, TypeInv, TypeOK
  <2> HIDE DEF UsedUp
  <2> QED BY <2>2, <2>3, <2>4
<1> QED BY <1>1, <1>2, InitOnce, PTL DEF Spec

-----------------------------------------------------------------------------
(* Silence of a stopped campaign *)

\* A slot about to mail found the campaign running when its job began.
MailsWhenRunning == \A w \in Workers : ex[w].pc = "mail" => ex[w].seen = "running"

\* Slots either leave a step as they entered it or end up elsewhere than at
\* "mail" - except for the one that passes the gate.
LEMMA MailingSlots ==
  ASSUME TypeInv, MailsWhenRunning, Next
  PROVE  MailsWhenRunning'
<1>1. ASSUME NEW w \in Workers, NEW s \in Slot, ex' = [ex EXCEPT ![w] = s],
             s.pc = "mail" => s.seen = "running"
      PROVE  MailsWhenRunning'
  BY <1>1 DEF MailsWhenRunning, TypeInv, TypeOK
<1>2. CASE ex' = ex
  BY <1>2 DEF MailsWhenRunning
<1>3. ASSUME NEW w \in Workers, NEW n, JobDone(w) \/ JobThrew(w, n) PROVE MailsWhenRunning'
  BY <1>1, <1>3, IdleIsSlot DEF JobDone, JobThrew
<1>4. ASSUME NEW w \in Workers, NEW pc \in PC, Goto(w, pc),
             pc = "mail" => ex[w].seen = "running"
      PROVE  MailsWhenRunning'
  BY <1>4 DEF Goto, MailsWhenRunning, TypeInv, TypeOK, Slot
<1>5. ASSUME NEW w \in Workers, NEW j \in JobIds, Begin(w, j) PROVE MailsWhenRunning'
  BY <1>5 DEF Begin, MailsWhenRunning, TypeInv, TypeOK, IdleSlot
<1>6. ASSUME NEW w \in Workers, ReadRow(w) \/ CommitSent(w) \/ FinalizeWrite(w) PROVE MailsWhenRunning'
  BY <1>3, <1>4, <1>6 DEF ReadRow, CommitSent, FinalizeWrite, Finish, PC
<1>7. ASSUME NEW w \in Workers, \/ ClaimRow(w) \/ SkipRow(w) \/ CountSkipped(w) \/ PassGate(w)
                                \/ SendMail(w) \/ CountSent(w) \/ LogSent(w) \/ MarkFailed(w)
                                \/ CountFailed(w)
      PROVE  MailsWhenRunning'
  BY <1>4, <1>7 DEF ClaimRow, SkipRow, CountSkipped, PassGate, SendMail, CountSent, LogSent,
                    MarkFailed, CountFailed, PC
<1>8. ASSUME NEW w \in Workers, FinalizeRead(w) PROVE MailsWhenRunning'
  <2>1. CASE Finish(w)
    BY <1>3, <2>1 DEF Finish
  <2>2. CASE ~Finish(w)
    BY <1>8, <2>2 DEF FinalizeRead, MailsWhenRunning, TypeInv, TypeOK, Slot
  <2> QED BY <2>1, <2>2
<1>9. ASSUME NEW w \in Workers, ThrowEarly(w) \/ ThrowInCatch(w) PROVE MailsWhenRunning'
  BY <1>3, <1>9 DEF ThrowEarly, ThrowInCatch
<1>10. ASSUME NEW w \in Workers, ThrowInTry(w) PROVE MailsWhenRunning'
  BY <1>10 DEF ThrowInTry, MailsWhenRunning, TypeInv, TypeOK, Slot
<1>11. ASSUME NEW p \in Procs, Crash(p) PROVE MailsWhenRunning'
  BY <1>11, IdleIsSlot DEF Crash, MailsWhenRunning
<1>12. ASSUME NEW p \in Procs, Tick(p) \/ Shutdown(p) \/ Exit(p) \/ Boot(p) PROVE ex' = ex
  BY <1>12 DEF Tick, Shutdown, Exit, Boot
<1>13. ASSUME NEW p \in Procs, NEW r \in Recipients,
              \/ Enqueue(p, r) \/ Backfill(p, r) \/ ClaimEnqueued(p, r)
              \/ RequeueStale(p, r) \/ ResetLost(p, r)
       PROVE  ex' = ex
  BY <1>13 DEF Enqueue, Backfill, ClaimEnqueued, RequeueStale, ResetLost
<1>17. ASSUME NEW p \in Procs, NEW j \in JobIds, RecoverRow(p, j) PROVE ex' = ex
  BY <1>17 DEF RecoverRow
<1>14. ASSUME NEW w \in Workers, NEW j \in JobIds, BeginReturns(w, j) PROVE ex' = ex
  BY <1>14 DEF BeginReturns
<1>15. ASSUME NEW j \in JobIds, MoveRetry(j) \/ Evict(j) PROVE ex' = ex
  BY <1>15 DEF MoveRetry, Evict
<1>16. CASE Pause \/ Resume \/ CancelStatus \/ CancelJobs \/ CancelRows \/ EditTemplate
            \/ \E r \in Recipients : Suppress(r)
  BY <1>2, <1>16 DEF Pause, Resume, CancelStatus, CancelJobs, CancelRows, EditTemplate, Suppress
<1> QED
  BY <1>2, <1>5, <1>6, <1>7, <1>8, <1>9, <1>10, <1>11, <1>12, <1>13, <1>14, <1>15, <1>16,
     <1>17
  DEF Next, Process

\* Only SendMail mails.
LEMMA MailsBySend == Next => (mails' = mails \/ \E w \in Workers : SendMail(w))
<1> SUFFICES ASSUME Next, \A w \in Workers : ~SendMail(w) PROVE mails' = mails
  OBVIOUS
<1>1. ASSUME NEW p \in Procs, Tick(p) \/ Crash(p) \/ Shutdown(p) \/ Exit(p) \/ Boot(p)
      PROVE  mails' = mails
  BY <1>1 DEF Tick, Crash, Shutdown, Exit, Boot, data
<1>2. ASSUME NEW p \in Procs, NEW r \in Recipients,
             \/ Enqueue(p, r) \/ Backfill(p, r) \/ ClaimEnqueued(p, r)
             \/ RequeueStale(p, r) \/ ResetLost(p, r)
      PROVE  mails' = mails
  BY <1>2 DEF Enqueue, Backfill, ClaimEnqueued, RequeueStale, ResetLost, data
<1>3. ASSUME NEW p \in Procs, NEW j \in JobIds, RecoverRow(p, j) PROVE mails' = mails
  BY <1>3 DEF RecoverRow, data
<1>4. ASSUME NEW w \in Workers,
             \/ \E j \in JobIds : Begin(w, j) \/ BeginReturns(w, j)
             \/ Process(w) \/ ThrowEarly(w) \/ ThrowInTry(w) \/ ThrowInCatch(w)
      PROVE  mails' = mails
  BY <1>4 DEF Begin, BeginReturns, Process, ReadRow, ClaimRow, SkipRow, CountSkipped, PassGate,
              CommitSent, CountSent, LogSent, MarkFailed, CountFailed, FinalizeRead,
              FinalizeWrite, ThrowEarly, ThrowInTry, ThrowInCatch, data
<1>5. ASSUME NEW j \in JobIds, MoveRetry(j) \/ Evict(j) PROVE mails' = mails
  BY <1>5 DEF MoveRetry, Evict, data
<1>6. CASE \/ Pause \/ Resume \/ CancelStatus \/ CancelJobs \/ CancelRows \/ EditTemplate
           \/ \E r \in Recipients : Suppress(r)
  BY <1>6 DEF Pause, Resume, CancelStatus, CancelJobs, CancelRows, EditTemplate, Suppress, data
<1> QED BY <1>1, <1>2, <1>3, <1>4, <1>5, <1>6 DEF Next

\* Once a campaign is paused, canceled or finished, and the jobs that began
\* while it was running are gone, it mails nobody until it is resumed.
THEOREM StoppedIsSilent == Spec => SilentOnceStopped
<1>1. Init => MailsWhenRunning
  BY DEF Init, MailsWhenRunning, IdleSlot
<1>2. TypeInv /\ MailsWhenRunning /\ [Next]_vars => MailsWhenRunning'
  <2>1. CASE UNCHANGED vars
    BY <2>1 DEF vars, MailsWhenRunning
  <2>2. CASE Next
    BY <2>2, MailingSlots
  <2> QED BY <2>1, <2>2
<1>3. MailsWhenRunning /\ [Next]_vars
        => [(status # "running" /\ ~Witnessed) => (mails' = mails)]_vars
  <2> SUFFICES ASSUME MailsWhenRunning, Next, ~Witnessed PROVE mails' = mails
    OBVIOUS
  <2>1. ASSUME NEW w \in Workers PROVE ~SendMail(w)
    BY DEF SendMail, MailsWhenRunning, Witnessed
  <2> QED BY <2>1, MailsBySend
<1> QED BY <1>1, <1>2, <1>3, InitTypes, TypeStep, PTL DEF Spec, SilentOnceStopped

-----------------------------------------------------------------------------
(* The log and the counters *)

\* What is logged is sent, and so is what a slot is counting or about to log.
Recorded ==
  /\ \A e \in logged : row[e[1]] = "sent"
  /\ \A w \in Workers : ex[w].pc \in {"count", "log"} => row[Target(w)] = "sent"

\* Every transition to "sent" or "skipped" is counted at most once, and the
\* first ones exactly once unless an attempt is cut off.
Balanced ==
  /\ total.sent + Cardinality(In("count")) <= Cardinality(Rows("sent"))
  /\ (fails = 0 /\ Untouched("crash"))
       => total.sent + Cardinality(In("count")) = Cardinality(Rows("sent"))
  /\ total.skipped + Cardinality(In("skipcount")) <= Cardinality(Rows("skipped"))

BooksInv == TypeInv /\ Recorded /\ Balanced

LEMMA FiniteBooks ==
  /\ \A pc : IsFiniteSet(In(pc)) /\ Cardinality(In(pc)) \in Nat
  /\ \A s : IsFiniteSet(Rows(s)) /\ Cardinality(Rows(s)) \in Nat
<1>1. \A pc : In(pc) \in SUBSET Workers
  BY DEF In
<1>2. \A s : Rows(s) \in SUBSET Recipients
  BY DEF Rows
<1>3. IsFiniteSet(Recipients) /\ IsFiniteSet(Workers)
  BY DeliveryAssumption
<1> QED BY <1>1, <1>2, <1>3, FS_Subset, FS_CardinalityType

LEMMA FiniteBooksNext ==
  /\ \A pc : IsFiniteSet(In(pc)') /\ Cardinality(In(pc)') \in Nat
  /\ \A s : IsFiniteSet(Rows(s)') /\ Cardinality(Rows(s)') \in Nat
<1>1. \A pc : In(pc)' \in SUBSET Workers
  BY DEF In
<1>2. \A s : Rows(s)' \in SUBSET Recipients
  BY DEF Rows
<1>3. IsFiniteSet(Recipients) /\ IsFiniteSet(Workers)
  BY DeliveryAssumption
<1> QED BY <1>1, <1>2, <1>3, FS_Subset, FS_CardinalityType

\* The books that a step does not write may lose entries only on the left.
LEMMA Smaller ==
  ASSUME NEW n \in Nat, NEW A, NEW A1, NEW B, NEW B1,
         IsFiniteSet(A), IsFiniteSet(A1), IsFiniteSet(B), IsFiniteSet(B1),
         A1 \subseteq A, B \subseteq B1, n + Cardinality(A) <= Cardinality(B)
  PROVE  n + Cardinality(A1) <= Cardinality(B1)
<1>1. Cardinality(A1) <= Cardinality(A) /\ Cardinality(B) <= Cardinality(B1)
  BY FS_Subset
<1>2. /\ Cardinality(A) \in Nat /\ Cardinality(A1) \in Nat
      /\ Cardinality(B) \in Nat /\ Cardinality(B1) \in Nat
  BY FS_CardinalityType
<1> QED BY <1>1, <1>2

\* "sent" and "skipped" are final.
LEMMA DecidedRowsStay ==
  ASSUME TypeInv, [Next]_vars
  PROVE  \A r \in Recipients : row[r] \in {"sent", "skipped"} => row'[r] = row[r]
<1>1. CASE row' = row
  BY <1>1
<1>2. CASE Lifecycle!Update
  BY <1>2 DEF Lifecycle!Update, Lifecycle!TriggerAllows
<1> QED BY <1>1, <1>2, StepIsAllowed

\* A step that records nothing.
Aside ==
  /\ total'.sent = total.sent /\ total'.skipped = total.skipped /\ logged' = logged
  /\ \A r \in Recipients : row'[r] = "sent" => row[r] = "sent"
  /\ \A w \in Workers :
       ex'[w].pc \in {"count", "log", "skipcount"}
         => ex'[w].pc = ex[w].pc /\ ex'[w].job = ex[w].job
  /\ (fails' = 0 /\ used'["crash"] = 0) =>
       /\ fails = 0 /\ used["crash"] = 0
       /\ \A w \in Workers : ex[w].pc = "count" => ex'[w].pc = "count"

LEMMA AsideStep ==
  ASSUME BooksInv, [Next]_vars, Aside
  PROVE  (Recorded /\ Balanced)'
<1>1. \A r \in Recipients : row[r] \in {"sent", "skipped"} => row'[r] = row[r]
  BY DecidedRowsStay DEF BooksInv
<1>2. \A e \in logged : e[1] \in Recipients
  BY DEF BooksInv, TypeInv, TypeOK
<1>3. \A w \in Workers : ex[w].pc \in {"count", "log"} => Target(w) \in Recipients
  BY TargetIsRecipient DEF BooksInv
<1>4. Recorded'
  BY <1>1, <1>2, <1>3 DEF Recorded, BooksInv, Aside, Target
<1>5. /\ Rows("sent")' = Rows("sent") /\ Rows("skipped") \subseteq Rows("skipped")'
      /\ In("count")' \subseteq In("count") /\ In("skipcount")' \subseteq In("skipcount")
  BY <1>1 DEF Aside, Rows, In
<1>6. total.sent \in Nat /\ total.skipped \in Nat
  BY DEF BooksInv, TypeInv, TypeOK
<1>7. total.sent + Cardinality(In("count")') <= Cardinality(Rows("sent")')
  BY <1>5, <1>6, FiniteBooks, FiniteBooksNext, Smaller DEF BooksInv, Balanced
<1>8. total.skipped + Cardinality(In("skipcount")') <= Cardinality(Rows("skipped")')
  BY <1>5, <1>6, FiniteBooks, FiniteBooksNext, Smaller DEF BooksInv, Balanced
<1>9. ASSUME fails' = 0, used'["crash"] = 0
      PROVE  total.sent + Cardinality(In("count")') = Cardinality(Rows("sent")')
  <2>1. In("count")' = In("count")
    BY <1>5, <1>9 DEF Aside, In
  <2> QED BY <1>5, <1>9, <2>1 DEF Aside, BooksInv, Balanced, Untouched
<1> QED BY <1>4, <1>7, <1>8, <1>9 DEF Balanced, Untouched, Aside

\* How a step leaves its slot.
Leaves(w, pc) ==
  /\ \A v \in Workers \ {w} : ex'[v] = ex[v]
  /\ ex'[w].pc = pc /\ (pc # "idle" => ex'[w].job = ex[w].job)

LEMMA LeavesByGoto ==
  ASSUME TypeInv, NEW w \in Workers, NEW pc \in PC, Goto(w, pc)
  PROVE  Leaves(w, pc)
BY DEF TypeInv, TypeOK, Slot, Goto, Leaves

LEMMA LeavesByFinish ==
  ASSUME TypeInv, NEW w \in Workers, NEW n, JobDone(w) \/ JobThrew(w, n)
  PROVE  Leaves(w, "idle")
BY DEF TypeInv, TypeOK, JobDone, JobThrew, Leaves, IdleSlot

\* A slot goes on without recording anything.
LEMMA SlotAside ==
  ASSUME TypeInv, NEW w \in Workers, NEW pc \in PC \ {"count", "log", "skipcount"},
         Leaves(w, pc), total'.sent = total.sent, total'.skipped = total.skipped,
         logged' = logged, \A r \in Recipients : row'[r] = "sent" => row[r] = "sent",
         (fails' = 0 /\ used'["crash"] = 0) =>
            fails = 0 /\ used["crash"] = 0 /\ ex[w].pc # "count"
  PROVE  Aside
BY DEF Aside, Leaves

LEMMA CrashCount ==
  ASSUME TypeInv, Next
  PROVE  (fails' = 0 /\ used'["crash"] = 0) => fails = 0 /\ used["crash"] = 0
<1>1. "crash" \in Events
  BY DEF Events
<1>2. used["crash"] \in Nat /\ used'["crash"] \in Nat /\ used["crash"] <= used'["crash"]
  BY <1>1, Bookkeeping, SpendGrows, TypeStep DEF TypeInv, TypeOK
<1>3. fails \in Nat /\ (fails' = fails \/ fails' = fails + 1)
  BY Bookkeeping, Identities DEF TypeInv, TypeOK
<1> QED BY <1>2, <1>3

\* What happens outside the slots records nothing.
LEMMA EnvironmentAside ==
  ASSUME TypeInv, Next,
         \/ \E p \in Procs : Tick(p) \/ Crash(p) \/ Shutdown(p) \/ Exit(p) \/ Boot(p)
         \/ \E p \in Procs, r \in Recipients :
              \/ Enqueue(p, r) \/ Backfill(p, r) \/ ClaimEnqueued(p, r)
              \/ RequeueStale(p, r) \/ ResetLost(p, r)
         \/ \E p \in Procs, j \in JobIds : RecoverRow(p, j)
         \/ \E j \in JobIds : MoveRetry(j) \/ Evict(j)
         \/ Pause \/ Resume \/ CancelStatus \/ CancelJobs \/ CancelRows \/ EditTemplate
         \/ \E r \in Recipients : Suppress(r)
  PROVE  Aside
<1>1. \A r \in Recipients : row'[r] = "sent" => row[r] = "sent"
  BY EnvironmentIsQuiet DEF Quiet
<1>2. ASSUME UNCHANGED <<total, logged>>, UNCHANGED ex PROVE Aside
  BY <1>1, <1>2, CrashCount DEF Aside
<1>3. ASSUME NEW p \in Procs, Crash(p) PROVE Aside
  <2>1. \A w \in Workers : ex'[w] = ex[w] \/ ex'[w].pc = "idle"
    BY <1>3, IdleIsSlot DEF Crash
  <2>2. used'["crash"] > 0
    BY <1>3 DEF Crash, Spend, Events, TypeInv, TypeOK
  <2>3. UNCHANGED <<total, logged>>
    BY <1>3 DEF Crash, data
  <2> QED BY <1>1, <2>1, <2>2, <2>3 DEF Aside
<1>4. ASSUME NEW p \in Procs, Tick(p) \/ Shutdown(p) \/ Exit(p) \/ Boot(p) PROVE Aside
  BY <1>2, <1>4 DEF Tick, Shutdown, Exit, Boot, data
<1>5. ASSUME NEW p \in Procs, NEW r \in Recipients,
             \/ Enqueue(p, r) \/ Backfill(p, r) \/ ClaimEnqueued(p, r)
             \/ RequeueStale(p, r) \/ ResetLost(p, r)
      PROVE  Aside
  BY <1>2, <1>5 DEF Enqueue, Backfill, ClaimEnqueued, RequeueStale, ResetLost, data
<1>8. ASSUME NEW p \in Procs, NEW j \in JobIds, RecoverRow(p, j) PROVE Aside
  BY <1>2, <1>8 DEF RecoverRow, data
<1>6. ASSUME NEW j \in JobIds, MoveRetry(j) \/ Evict(j) PROVE Aside
  BY <1>2, <1>6 DEF MoveRetry, Evict, data
<1>7. CASE Pause \/ Resume \/ CancelStatus \/ CancelJobs \/ CancelRows \/ EditTemplate
           \/ \E r \in Recipients : Suppress(r)
  BY <1>2, <1>7
  DEF Pause, Resume, CancelStatus, CancelJobs, CancelRows, EditTemplate, Suppress, data
<1> QED BY <1>3, <1>4, <1>5, <1>6, <1>7, <1>8

\* The steps of a slot that record nothing.
LEMMA SlotsAside ==
  ASSUME TypeInv, Next, NEW w \in Workers,
         \/ \E j \in JobIds : Begin(w, j) \/ BeginReturns(w, j)
         \/ ReadRow(w) \/ ClaimRow(w) \/ PassGate(w) \/ SendMail(w) \/ MarkFailed(w)
         \/ CountFailed(w) \/ FinalizeRead(w) \/ FinalizeWrite(w)
         \/ ThrowEarly(w) \/ ThrowInTry(w) \/ ThrowInCatch(w)
  PROVE  Aside
<1>0. (fails' = 0 /\ used'["crash"] = 0) => fails = 0 /\ used["crash"] = 0
  BY CrashCount
<1>1. ASSUME NEW j \in JobIds, Begin(w, j) PROVE Aside
  <2>1. (\A v \in Workers \ {w} : ex'[v] = ex[v]) /\ ex'[w].pc = "row" /\ ex[w].pc = "idle"
    BY <1>1 DEF Begin, TypeInv, TypeOK, IdleSlot
  <2> QED BY <1>0, <1>1, <2>1 DEF Begin, data, Aside
<1>2. ASSUME NEW j \in JobIds, BeginReturns(w, j) PROVE Aside
  BY <1>0, <1>2 DEF BeginReturns, data, Aside
<1>3. CASE ReadRow(w)
  <2>1. \E pc \in {"idle", "claim", "gate"} : Leaves(w, pc)
    BY <1>3, LeavesByGoto, LeavesByFinish DEF ReadRow, PC
  <2> QED BY <1>0, <1>3, <2>1, SlotAside DEF ReadRow, data, PC
<1>4. CASE ClaimRow(w) \/ MarkFailed(w)
  <2>1. \E pc \in {"gate", "failcount", "fin"} : Leaves(w, pc)
    BY <1>4, LeavesByGoto DEF ClaimRow, MarkFailed, PC
  <2>2. \A q \in Recipients : row'[q] = "sent" => row[q] = "sent"
    BY <1>4, QuietMove DEF ClaimRow, MarkFailed, SendStatus
  <2> QED BY <1>0, <1>4, <2>1, <2>2, SlotAside DEF ClaimRow, MarkFailed, PC
<1>5. CASE PassGate(w) \/ SendMail(w) \/ CountFailed(w)
  <2>1. \E pc \in {"mail", "commit", "fin"} : Leaves(w, pc)
    BY <1>5, LeavesByGoto DEF PassGate, SendMail, CountFailed, PC
  <2>2. total'.sent = total.sent /\ total'.skipped = total.skipped
    BY <1>5 DEF PassGate, SendMail, CountFailed, data, TypeInv, TypeOK
  <2> QED BY <1>0, <1>5, <2>1, <2>2, SlotAside DEF PassGate, SendMail, CountFailed, data, PC
<1>6. CASE FinalizeRead(w) \/ FinalizeWrite(w)
  <2>1. \E pc \in {"idle", "finwrite"} : Leaves(w, pc)
    <3>1. CASE Finish(w)
      BY <3>1, LeavesByFinish DEF Finish
    <3>2. CASE FinalizeRead(w) /\ ~Finish(w)
      BY <3>2 DEF FinalizeRead, Leaves, TypeInv, TypeOK, Slot
    <3> QED BY <1>6, <3>1, <3>2 DEF FinalizeWrite
  <2>2. ex[w].pc # "count" /\ UNCHANGED <<row, total, logged>>
    BY <1>6 DEF FinalizeRead, FinalizeWrite, data
  <2> QED BY <1>0, <2>1, <2>2, SlotAside DEF PC
<1>7. CASE ThrowEarly(w) \/ ThrowInCatch(w)
  <2>1. Leaves(w, "idle")
    BY <1>7, LeavesByFinish DEF ThrowEarly, ThrowInCatch
  <2>2. ex[w].pc # "count" /\ UNCHANGED <<row, total, logged>>
    BY <1>7 DEF ThrowEarly, ThrowInCatch, data
  <2> QED BY <1>0, <2>1, <2>2, SlotAside DEF PC
<1>8. CASE ThrowInTry(w)
  <2>1. Leaves(w, "fail")
    BY <1>8 DEF ThrowInTry, Leaves, TypeInv, TypeOK, Slot
  <2>2. fails' # 0
    BY <1>8, Identities DEF ThrowInTry, TypeInv, TypeOK
  <2> QED BY <1>0, <1>8, <2>1, <2>2, SlotAside DEF ThrowInTry, data, PC
<1> QED BY <1>1, <1>2, <1>3, <1>4, <1>5, <1>6, <1>7, <1>8

\* One set gains an element that another loses, or a counter takes it over.
LEMMA OneMore ==
  ASSUME NEW A, NEW x, x \notin A, IsFiniteSet(A)
  PROVE  Cardinality(A \cup {x}) = Cardinality(A) + 1
BY FS_AddElement

LEMMA OneLess ==
  ASSUME NEW A, NEW x, x \in A, IsFiniteSet(A)
  PROVE  Cardinality(A \ {x}) = Cardinality(A) - 1
BY FS_RemoveElement

\* A transition to "sent" or "skipped" that hit the row is one to be counted.
LEMMA DecidingStep ==
  ASSUME BooksInv, Next, NEW w \in Workers,
         \/ CommitSent(w) /\ CanMove(Target(w), "sent")
         \/ SkipRow(w) /\ CanMove(Target(w), "skipped")
  PROVE  (Recorded /\ Balanced)'
<1>0. TypeInv /\ Recorded /\ Balanced
  BY DEF BooksInv
<1>1. Target(w) \in Recipients /\ row \in [Recipients -> SendStatus]
  BY <1>0, TargetIsRecipient DEF CommitSent, SkipRow, TypeInv, TypeOK
<1>2. UNCHANGED <<total, logged, fails>> /\ total.sent \in Nat /\ total.skipped \in Nat
  BY <1>0 DEF CommitSent, SkipRow, TypeInv, TypeOK
<1>3. \A r \in Recipients : row[r] \in {"sent", "skipped"} => row'[r] = row[r]
  BY <1>0, DecidedRowsStay
<1>4. \A v \in Workers : ex[v].pc \in {"count", "log"} => Target(v) \in Recipients
  BY <1>0, TargetIsRecipient
<1>5. \A e \in logged' : row'[e[1]] = "sent"
  BY <1>0, <1>2, <1>3 DEF Recorded, TypeInv, TypeOK
<1>6. used' = used
  BY DEF CommitSent, SkipRow
<1>7. CASE CommitSent(w)
  <2>1. row' = [row EXCEPT ![Target(w)] = "sent"] /\ Leaves(w, "count")
        /\ row[Target(w)] = "queued" /\ ex[w].pc = "commit"
    BY <1>0, <1>7, LeavesByGoto DEF CommitSent, SkipRow, Moved, CanMove, AllowedFrom, PC
  <2>2. Rows("sent")' = Rows("sent") \cup {Target(w)} /\ Target(w) \notin Rows("sent")
        /\ Rows("skipped")' = Rows("skipped")
    BY <1>1, <2>1 DEF Rows
  <2>3. In("count")' = In("count") \cup {w} /\ w \notin In("count")
        /\ In("skipcount")' = In("skipcount")
    BY <2>1 DEF In, Leaves
  <2>4. \A v \in Workers : ex'[v].pc \in {"count", "log"} => row'[Target(v)'] = "sent"
    BY <1>0, <1>1, <1>3, <1>4, <2>1 DEF Recorded, Leaves, Target
  <2>5. /\ Cardinality(Rows("sent")') = Cardinality(Rows("sent")) + 1
        /\ Cardinality(In("count")') = Cardinality(In("count")) + 1
    BY <2>2, <2>3, FiniteBooks, OneMore
  <2>6. Cardinality(Rows("sent")) \in Nat /\ Cardinality(In("count")) \in Nat
    BY FiniteBooks
  <2>7. Balanced'
    BY <1>0, <1>2, <1>6, <2>2, <2>3, <2>5, <2>6 DEF Balanced, Untouched
  <2> QED BY <1>5, <2>4, <2>7 DEF Recorded
<1>8. CASE SkipRow(w)
  <2>1. row' = [row EXCEPT ![Target(w)] = "skipped"] /\ Leaves(w, "skipcount")
        /\ row[Target(w)] \notin {"sent", "skipped"} /\ ex[w].pc = "gate"
    BY <1>0, <1>8, LeavesByGoto DEF CommitSent, SkipRow, Moved, CanMove, AllowedFrom, PC
  <2>2. Rows("skipped")' = Rows("skipped") \cup {Target(w)} /\ Target(w) \notin Rows("skipped")
        /\ Rows("sent")' = Rows("sent")
    BY <1>1, <2>1 DEF Rows
  <2>3. In("skipcount")' = In("skipcount") \cup {w} /\ w \notin In("skipcount")
        /\ In("count")' = In("count")
    BY <2>1 DEF In, Leaves
  <2>4. \A v \in Workers : ex'[v].pc \in {"count", "log"} => row'[Target(v)'] = "sent"
    BY <1>0, <1>1, <1>3, <1>4, <2>1 DEF Recorded, Leaves, Target
  <2>5. /\ Cardinality(Rows("skipped")') = Cardinality(Rows("skipped")) + 1
        /\ Cardinality(In("skipcount")') = Cardinality(In("skipcount")) + 1
    BY <2>2, <2>3, FiniteBooks, OneMore
  <2>6. Cardinality(Rows("skipped")) \in Nat /\ Cardinality(In("skipcount")) \in Nat
    BY FiniteBooks
  <2>7. Balanced'
    BY <1>0, <1>2, <1>6, <2>2, <2>3, <2>5, <2>6 DEF Balanced, Untouched
  <2> QED BY <1>5, <2>4, <2>7 DEF Recorded
<1> QED BY <1>7, <1>8

\* The counters take over what the slots were to count.
LEMMA CountingStep ==
  ASSUME BooksInv, Next, NEW w \in Workers, CountSent(w) \/ CountSkipped(w)
  PROVE  (Recorded /\ Balanced)'
<1>0. TypeInv /\ Recorded /\ Balanced
  BY DEF BooksInv
<1>1. UNCHANGED <<row, logged, fails, used>> /\ total.sent \in Nat /\ total.skipped \in Nat
  BY <1>0 DEF CountSent, CountSkipped, TypeInv, TypeOK
<1>2. Rows("sent")' = Rows("sent") /\ Rows("skipped")' = Rows("skipped")
  BY <1>1 DEF Rows
<1>3. CASE CountSent(w)
  <2>1. Leaves(w, "log") /\ ex[w].pc = "count" /\ total'.sent = total.sent + 1
        /\ total'.skipped = total.skipped
    BY <1>0, <1>3, LeavesByGoto DEF CountSent, PC, TypeInv, TypeOK
  <2>2. In("count")' = In("count") \ {w} /\ w \in In("count")
        /\ In("skipcount")' = In("skipcount")
    BY <2>1 DEF In, Leaves
  <2>3. Recorded'
    BY <1>0, <1>1, <2>1 DEF Recorded, Leaves, Target
  <2>4. Cardinality(In("count")') = Cardinality(In("count")) - 1
    BY <2>2, FiniteBooks, OneLess
  <2>5. Cardinality(Rows("sent")) \in Nat /\ Cardinality(In("count")) \in Nat
    BY FiniteBooks
  <2>6. Balanced'
    BY <1>0, <1>1, <1>2, <2>1, <2>2, <2>4, <2>5 DEF Balanced, Untouched
  <2> QED BY <2>3, <2>6
<1>4. CASE CountSkipped(w)
  <2>1. Leaves(w, "fin") /\ ex[w].pc = "skipcount" /\ total'.skipped = total.skipped + 1
        /\ total'.sent = total.sent
    BY <1>0, <1>4, LeavesByGoto DEF CountSkipped, PC, TypeInv, TypeOK
  <2>2. In("skipcount")' = In("skipcount") \ {w} /\ w \in In("skipcount")
        /\ In("count")' = In("count")
    BY <2>1 DEF In, Leaves
  <2>3. Recorded'
    BY <1>0, <1>1, <2>1 DEF Recorded, Leaves, Target
  <2>4. Cardinality(In("skipcount")') = Cardinality(In("skipcount")) - 1
    BY <2>2, FiniteBooks, OneLess
  <2>5. Cardinality(Rows("skipped")) \in Nat /\ Cardinality(In("skipcount")) \in Nat
    BY FiniteBooks
  <2>6. Balanced'
    BY <1>0, <1>1, <1>2, <2>1, <2>2, <2>4, <2>5 DEF Balanced, Untouched
  <2> QED BY <2>3, <2>6
<1> QED BY <1>3, <1>4

LEMMA LoggingStep ==
  ASSUME BooksInv, Next, NEW w \in Workers, LogSent(w)
  PROVE  (Recorded /\ Balanced)'
<1>0. TypeInv /\ Recorded /\ Balanced
  BY DEF BooksInv
<1>1. UNCHANGED <<row, total, fails>> /\ Leaves(w, "sentfin") /\ ex[w].pc = "log"
  BY <1>0, LeavesByGoto DEF LogSent, PC
<1>2. /\ In("count")' = In("count") /\ In("skipcount")' = In("skipcount")
      /\ Rows("sent")' = Rows("sent") /\ Rows("skipped")' = Rows("skipped")
  BY <1>1 DEF In, Rows, Leaves
<1>3. (fails' = 0 /\ used'["crash"] = 0) => fails = 0 /\ used["crash"] = 0
  BY <1>0, CrashCount
<1>4. Balanced'
  BY <1>0, <1>1, <1>2, <1>3 DEF Balanced, Untouched
<1>5. row[Target(w)] = "sent"
  BY <1>0, <1>1 DEF Recorded
<1>6. logged' \subseteq logged \cup {<<Target(w), ex[w].job[2], job[ex[w].job].key>>}
  BY DEF LogSent, Key, Target
<1>7. Recorded'
  BY <1>0, <1>1, <1>5, <1>6 DEF Recorded, Leaves, Target
<1> QED BY <1>4, <1>7

LEMMA BooksInitial == Init => BooksInv
<1> SUFFICES ASSUME Init PROVE BooksInv
  OBVIOUS
<1>1. In("count") = {} /\ In("skipcount") = {} /\ Rows("sent") = {} /\ Rows("skipped") = {}
  BY DEF Init, In, Rows, IdleSlot
<1>2. Balanced
  BY <1>1, FS_EmptySet, SMTT(20) DEF Init, Balanced
<1>3. Recorded
  BY DEF Init, Recorded, IdleSlot
<1> QED BY <1>2, <1>3, InitTypes DEF BooksInv

LEMMA BooksStep == BooksInv /\ [Next]_vars => BooksInv'
<1> SUFFICES ASSUME BooksInv, [Next]_vars PROVE BooksInv'
  OBVIOUS
<1>1. TypeInv /\ TypeInv'
  BY TypeStep DEF BooksInv
<1>2. CASE UNCHANGED vars
  BY <1>1, <1>2, AsideStep DEF vars, Aside, BooksInv
<1>3. ASSUME Next, Aside PROVE BooksInv'
  BY <1>1, <1>3, AsideStep DEF BooksInv
<1>4. ASSUME NEW w \in Workers, Next, SkipRow(w) \/ CommitSent(w),
             ~(CommitSent(w) /\ CanMove(Target(w), "sent")),
             ~(SkipRow(w) /\ CanMove(Target(w), "skipped"))
      PROVE  Aside
  <2>1. row' = row /\ \E pc \in {"idle", "fin"} : Leaves(w, pc)
    BY <1>1, <1>4, LeavesByGoto, LeavesByFinish DEF SkipRow, CommitSent, Moved, PC
  <2>2. ex[w].pc # "count" /\ UNCHANGED <<total, logged>>
    BY <1>4 DEF SkipRow, CommitSent
  <2> QED BY <1>1, <1>4, <2>1, <2>2, CrashCount, SlotAside DEF PC
<1>5. ASSUME NEW w \in Workers, Next,
             \/ Process(w) \/ ThrowEarly(w) \/ ThrowInTry(w) \/ ThrowInCatch(w)
             \/ \E j \in JobIds : Begin(w, j) \/ BeginReturns(w, j)
      PROVE  BooksInv'
  BY <1>1, <1>3, <1>4, <1>5, SlotsAside, DecidingStep, CountingStep, LoggingStep
  DEF Process, BooksInv
<1>6. CASE Next
  BY <1>1, <1>3, <1>5, <1>6, EnvironmentAside DEF Next
<1> QED BY <1>2, <1>6

\* A throw in the try block is counted as a failure at most once, and a failed
\* row is counted unless an attempt is cut off before that.
Failures ==
  /\ total.failed + Cardinality(In("fail")) + Cardinality(In("failcount")) <= fails
  /\ (Untouched("dberror") /\ Untouched("crash"))
       => Cardinality(Rows("failed")) <= total.failed + Cardinality(In("failcount"))

FailInv == TypeInv /\ Failures

LEMMA EventsGrow ==
  ASSUME TypeInv, Next
  PROVE  /\ fails \in Nat /\ fails' \in Nat /\ fails <= fails'
         /\ \A e \in Events : used[e] \in Nat /\ used'[e] \in Nat /\ used[e] <= used'[e]
<1>1. \A e \in Events : used[e] \in Nat /\ used'[e] \in Nat /\ used[e] <= used'[e]
  BY Bookkeeping, SpendGrows, TypeStep DEF TypeInv, TypeOK
<1>2. fails \in Nat /\ fails' \in Nat /\ fails <= fails'
  BY Bookkeeping, Identities DEF TypeInv, TypeOK
<1> QED BY <1>1, <1>2

\* A step that fails no row, brings no slot into the catch block and counts no
\* failure.
LEMMA NoFailureStep ==
  ASSUME FailInv, Next, total'.failed = total.failed,
         \A r \in Recipients : row'[r] = "failed" => row[r] = "failed",
         In("fail")' \subseteq In("fail"), In("failcount")' \subseteq In("failcount"),
         used'["dberror"] = 0 /\ used'["crash"] = 0 => In("failcount")' = In("failcount")
  PROVE  Failures'
<1>1. /\ Cardinality(In("fail")') <= Cardinality(In("fail"))
      /\ Cardinality(In("failcount")') <= Cardinality(In("failcount"))
  BY FiniteBooks, FS_Subset
<1>2. Rows("failed")' \subseteq Rows("failed")
  BY DEF Rows
<1>3. Cardinality(Rows("failed")') <= Cardinality(Rows("failed"))
  BY <1>2, FiniteBooks, FS_Subset
<1>4. fails \in Nat /\ fails' \in Nat /\ fails <= fails' /\ total.failed \in Nat
  BY EventsGrow DEF FailInv, TypeInv, TypeOK
<1>5. total'.failed + Cardinality(In("fail")') + Cardinality(In("failcount")') <= fails'
  BY <1>1, <1>4, FiniteBooks, FiniteBooksNext DEF FailInv, Failures
<1>6. ASSUME used'["dberror"] = 0, used'["crash"] = 0
      PROVE  Cardinality(Rows("failed")') <= total'.failed + Cardinality(In("failcount")')
  <2>1. used["dberror"] = 0 /\ used["crash"] = 0
    BY <1>6, EventsGrow DEF FailInv, Events
  <2>2. Cardinality(Rows("failed")) <= total.failed + Cardinality(In("failcount"))
    BY <2>1 DEF FailInv, Failures, Untouched
  <2>3. In("failcount")' = In("failcount")
    BY <1>6
  <2> QED BY <1>3, <1>4, <2>2, <2>3, FiniteBooks, FiniteBooksNext
<1> QED BY <1>5, <1>6 DEF Failures, Untouched

\* Only MarkFailed fails a row.
LEMMA FailedByMark ==
  ASSUME TypeInv,
         \/ \E p \in Procs : Tick(p) \/ Crash(p) \/ Shutdown(p) \/ Exit(p) \/ Boot(p)
         \/ \E p \in Procs, r \in Recipients :
              \/ Enqueue(p, r) \/ Backfill(p, r) \/ ClaimEnqueued(p, r)
              \/ RequeueStale(p, r) \/ ResetLost(p, r)
         \/ \E p \in Procs, j \in JobIds : RecoverRow(p, j)
         \/ \E w \in Workers, j \in JobIds : Begin(w, j) \/ BeginReturns(w, j)
         \/ \E w \in Workers :
              \/ ReadRow(w) \/ ClaimRow(w) \/ SkipRow(w) \/ CountSkipped(w) \/ PassGate(w)
              \/ SendMail(w) \/ CommitSent(w) \/ CountSent(w) \/ LogSent(w)
              \/ FinalizeRead(w) \/ FinalizeWrite(w) \/ ThrowEarly(w)
         \/ \E j \in JobIds : MoveRetry(j) \/ Evict(j)
         \/ Pause \/ Resume \/ CancelStatus \/ CancelJobs \/ CancelRows \/ EditTemplate
         \/ \E r \in Recipients : Suppress(r)
  PROVE  \A r \in Recipients : row'[r] = "failed" => row[r] = "failed"
<1> DEFINE Same == \A r \in Recipients : row'[r] = "failed" => row[r] = "failed"
<1>1. ASSUME NEW r, NEW to \in {"queued", "sent", "skipped"}, row' = Moved(r, to) PROVE Same
  BY <1>1 DEF Moved, TypeInv, TypeOK
<1>2. CASE UNCHANGED row
  BY <1>2
<1>3. ASSUME NEW p \in Procs, Tick(p) \/ Crash(p) \/ Shutdown(p) \/ Exit(p) \/ Boot(p) PROVE Same
  BY <1>2, <1>3 DEF Tick, Crash, Shutdown, Exit, Boot, data
<1>4. ASSUME NEW p \in Procs, NEW r \in Recipients,
             Enqueue(p, r) \/ Backfill(p, r) \/ RequeueStale(p, r)
      PROVE  Same
  BY <1>2, <1>4 DEF Enqueue, Backfill, RequeueStale, data
<1>5. ASSUME NEW p \in Procs, NEW r \in Recipients, ClaimEnqueued(p, r) \/ ResetLost(p, r) PROVE Same
  BY <1>1, <1>2, <1>5 DEF ClaimEnqueued, ResetLost, TypeInv, TypeOK
<1>6. ASSUME NEW p \in Procs, NEW j \in JobIds, RecoverRow(p, j) PROVE Same
  BY <1>2, <1>6 DEF RecoverRow, data
<1>7. ASSUME NEW w \in Workers, ClaimRow(w) \/ SkipRow(w) \/ CommitSent(w) PROVE Same
  BY <1>1, <1>2, <1>7 DEF ClaimRow, SkipRow, CommitSent
<1>8. ASSUME NEW w \in Workers,
             \/ \E j \in JobIds : Begin(w, j) \/ BeginReturns(w, j)
             \/ ReadRow(w) \/ CountSkipped(w) \/ PassGate(w) \/ SendMail(w) \/ CountSent(w)
             \/ LogSent(w) \/ FinalizeRead(w) \/ FinalizeWrite(w) \/ ThrowEarly(w)
      PROVE  UNCHANGED row
  BY <1>8 DEF Begin, BeginReturns, ReadRow, CountSkipped, PassGate, SendMail, CountSent,
              LogSent, FinalizeRead, FinalizeWrite, ThrowEarly, data
<1>9. ASSUME NEW j \in JobIds, MoveRetry(j) \/ Evict(j) PROVE Same
  BY <1>2, <1>9 DEF MoveRetry, Evict, data
<1>10. CASE Pause \/ Resume \/ CancelStatus \/ CancelJobs \/ CancelRows \/ EditTemplate
            \/ \E r \in Recipients : Suppress(r)
  BY <1>2, <1>10
  DEF Pause, Resume, CancelStatus, CancelJobs, CancelRows, EditTemplate, Suppress, data
<1> QED BY <1>2, <1>3, <1>4, <1>5, <1>6, <1>7, <1>8, <1>9, <1>10

\* What happens outside the slots leaves them alone, or resets some.
LEMMA OutsideSlots ==
  ASSUME TypeInv,
         \/ \E p \in Procs : Tick(p) \/ Crash(p) \/ Shutdown(p) \/ Exit(p) \/ Boot(p)
         \/ \E p \in Procs, r \in Recipients :
              \/ Enqueue(p, r) \/ Backfill(p, r) \/ ClaimEnqueued(p, r)
              \/ RequeueStale(p, r) \/ ResetLost(p, r)
         \/ \E p \in Procs, j \in JobIds : RecoverRow(p, j)
         \/ \E j \in JobIds : MoveRetry(j) \/ Evict(j)
         \/ Pause \/ Resume \/ CancelStatus \/ CancelJobs \/ CancelRows \/ EditTemplate
         \/ \E r \in Recipients : Suppress(r)
  PROVE  /\ total' = total
         /\ \/ ex' = ex
            \/ used'["crash"] # 0 /\ \A w \in Workers : ex'[w] = ex[w] \/ ex'[w].pc = "idle"
<1>1. ASSUME NEW p \in Procs, Crash(p)
      PROVE  /\ total' = total /\ used'["crash"] # 0
             /\ \A w \in Workers : ex'[w] = ex[w] \/ ex'[w].pc = "idle"
  BY <1>1, IdleIsSlot DEF Crash, Spend, Events, TypeInv, TypeOK, data
<1>2. ASSUME NEW p \in Procs, Tick(p) \/ Shutdown(p) \/ Exit(p) \/ Boot(p)
      PROVE  UNCHANGED <<total, ex>>
  BY <1>2 DEF Tick, Shutdown, Exit, Boot, data
<1>3. ASSUME NEW p \in Procs, NEW r \in Recipients,
             \/ Enqueue(p, r) \/ Backfill(p, r) \/ ClaimEnqueued(p, r)
             \/ RequeueStale(p, r) \/ ResetLost(p, r)
      PROVE  UNCHANGED <<total, ex>>
  BY <1>3 DEF Enqueue, Backfill, ClaimEnqueued, RequeueStale, ResetLost, data
<1>4. ASSUME NEW p \in Procs, NEW j \in JobIds, RecoverRow(p, j) PROVE UNCHANGED <<total, ex>>
  BY <1>4 DEF RecoverRow, data
<1>5. ASSUME NEW j \in JobIds, MoveRetry(j) \/ Evict(j) PROVE UNCHANGED <<total, ex>>
  BY <1>5 DEF MoveRetry, Evict, data
<1>6. CASE \/ Pause \/ Resume \/ CancelStatus \/ CancelJobs \/ CancelRows \/ EditTemplate
           \/ \E r \in Recipients : Suppress(r)
  BY <1>6
  DEF Pause, Resume, CancelStatus, CancelJobs, CancelRows, EditTemplate, Suppress, data
<1> QED BY <1>1, <1>2, <1>3, <1>4, <1>5, <1>6

\* The slots that are not in the catch block and stay out of it.
LEMMA OutsideCatch ==
  ASSUME FailInv, Next, NEW w \in Workers,
         \/ \E j \in JobIds : Begin(w, j) \/ BeginReturns(w, j)
         \/ ReadRow(w) \/ ClaimRow(w) \/ SkipRow(w) \/ CountSkipped(w) \/ PassGate(w)
         \/ SendMail(w) \/ CommitSent(w) \/ CountSent(w) \/ LogSent(w)
         \/ FinalizeRead(w) \/ FinalizeWrite(w) \/ ThrowEarly(w)
  PROVE  /\ In("fail")' = In("fail") /\ In("failcount")' = In("failcount")
         /\ total'.failed = total.failed
<1> DEFINE Out == PC \ {"fail", "failcount"}
<1>0. TypeInv
  BY DEF FailInv
<1>1. ASSUME ex[w].pc \in Out, NEW pc \in Out, Leaves(w, pc)
      PROVE  In("fail")' = In("fail") /\ In("failcount")' = In("failcount")
  BY <1>1 DEF In, Leaves
<1>2. ASSUME NEW j \in JobIds, Begin(w, j)
      PROVE  (\A v \in Workers \ {w} : ex'[v] = ex[v]) /\ ex'[w].pc = "row" /\ ex[w].pc = "idle"
  BY <1>0, <1>2 DEF Begin, TypeInv, TypeOK, IdleSlot
<1>3. ASSUME NEW j \in JobIds, Begin(w, j) \/ BeginReturns(w, j)
      PROVE  In("fail")' = In("fail") /\ In("failcount")' = In("failcount")
  BY <1>2, <1>3 DEF BeginReturns, In
<1>4. CASE ReadRow(w) \/ CommitSent(w)
  <2>1. ex[w].pc \in Out /\ \E pc \in Out : Leaves(w, pc)
    BY <1>0, <1>4, LeavesByGoto, LeavesByFinish DEF ReadRow, CommitSent, PC
  <2> QED BY <1>1, <1>4, <2>1 DEF ReadRow, CommitSent, data
<1>5. CASE \/ ClaimRow(w) \/ SkipRow(w) \/ CountSkipped(w) \/ PassGate(w)
           \/ SendMail(w) \/ CountSent(w) \/ LogSent(w)
  <2>1. ex[w].pc \in Out /\ \E pc \in Out : Leaves(w, pc)
    BY <1>0, <1>5, LeavesByGoto DEF ClaimRow, SkipRow, CountSkipped, PassGate, SendMail,
                                   CountSent, LogSent, PC
  <2>2. total'.failed = total.failed
    BY <1>0, <1>5 DEF ClaimRow, SkipRow, CountSkipped, PassGate, SendMail, CountSent, LogSent,
                      TypeInv, TypeOK, data
  <2> QED BY <1>1, <2>1, <2>2
<1>6. CASE FinalizeRead(w) \/ FinalizeWrite(w)
  <2>1. \E pc \in {"idle", "finwrite"} : Leaves(w, pc)
    <3>1. CASE Finish(w)
      BY <1>0, <3>1, LeavesByFinish DEF Finish
    <3>2. CASE FinalizeRead(w) /\ ~Finish(w)
      BY <1>0, <3>2 DEF FinalizeRead, Leaves, TypeInv, TypeOK, Slot
    <3> QED BY <1>6, <3>1, <3>2 DEF FinalizeWrite
  <2>2. ex[w].pc \in Out /\ UNCHANGED total
    BY <1>6 DEF FinalizeRead, FinalizeWrite, data, PC
  <2> QED BY <1>1, <2>1, <2>2 DEF PC
<1>7. CASE ThrowEarly(w)
  <2>1. Leaves(w, "idle")
    BY <1>0, <1>7, LeavesByFinish DEF ThrowEarly
  <2>2. ex[w].pc \in Out /\ UNCHANGED total
    BY <1>7 DEF ThrowEarly, data, PC
  <2> QED BY <1>1, <2>1, <2>2 DEF PC
<1>8. ASSUME NEW j \in JobIds, Begin(w, j) \/ BeginReturns(w, j) PROVE UNCHANGED total
  BY <1>8 DEF Begin, BeginReturns, data
<1> QED BY <1>3, <1>4, <1>5, <1>6, <1>7, <1>8

\* The steps into, within and out of the catch block.
LEMMA CatchStep ==
  ASSUME FailInv, Next, NEW w \in Workers,
         ThrowInTry(w) \/ MarkFailed(w) \/ CountFailed(w) \/ ThrowInCatch(w)
  PROVE  Failures'
<1>0. TypeInv /\ Failures
  BY DEF FailInv
<1>1. /\ total.failed \in Nat /\ fails \in Nat /\ row \in [Recipients -> SendStatus]
      /\ "dberror" \in Events /\ "crash" \in Events
  BY <1>0, Identities DEF TypeInv, TypeOK, Events
<1>2. /\ Cardinality(In("fail")) \in Nat /\ Cardinality(In("failcount")) \in Nat
      /\ Cardinality(Rows("failed")) \in Nat
  BY FiniteBooks
<1>3. CASE ThrowInTry(w)
  <2>1. Leaves(w, "fail") /\ ex[w].pc \notin {"fail", "failcount"}
    BY <1>0, <1>3 DEF ThrowInTry, Leaves, TypeInv, TypeOK, Slot
  <2>2. In("fail")' = In("fail") \cup {w} /\ w \notin In("fail")
        /\ In("failcount")' = In("failcount")
    BY <2>1 DEF In, Leaves
  <2>3. Cardinality(In("fail")') = Cardinality(In("fail")) + 1
    BY <2>2, FiniteBooks, OneMore
  <2>4. UNCHANGED <<row, total, used>> /\ fails' = fails + 1 /\ Rows("failed")' = Rows("failed")
    BY <1>3 DEF ThrowInTry, data, Rows
  <2> QED BY <1>0, <1>1, <1>2, <2>2, <2>3, <2>4 DEF Failures, Untouched
<1>4. CASE MarkFailed(w) /\ CanMove(Target(w), "failed")
  <2>1. Leaves(w, "failcount") /\ ex[w].pc = "fail" /\ row' = [row EXCEPT ![Target(w)] = "failed"]
        /\ row[Target(w)] = "queued"
    BY <1>0, <1>4, LeavesByGoto DEF MarkFailed, Moved, CanMove, AllowedFrom, PC
  <2>2. /\ In("fail")' = In("fail") \ {w} /\ w \in In("fail")
        /\ In("failcount")' = In("failcount") \cup {w} /\ w \notin In("failcount")
    BY <2>1 DEF In, Leaves
  <2>3. /\ Cardinality(In("fail")') = Cardinality(In("fail")) - 1
        /\ Cardinality(In("failcount")') = Cardinality(In("failcount")) + 1
    BY <2>2, FiniteBooks, OneMore, OneLess
  <2>4. Target(w) \in Recipients
    BY <1>0, <1>4, TargetIsRecipient DEF MarkFailed
  <2>5. Rows("failed")' = Rows("failed") \cup {Target(w)} /\ Target(w) \notin Rows("failed")
    BY <1>1, <2>1, <2>4 DEF Rows
  <2>6. Cardinality(Rows("failed")') = Cardinality(Rows("failed")) + 1
    BY <2>5, FiniteBooks, OneMore
  <2>7. UNCHANGED <<total, used, fails>>
    BY <1>4 DEF MarkFailed
  <2> QED BY <1>0, <1>1, <1>2, <2>3, <2>6, <2>7 DEF Failures, Untouched
<1>5. CASE MarkFailed(w) /\ ~CanMove(Target(w), "failed")
  <2>1. Leaves(w, "fin") /\ ex[w].pc = "fail" /\ row' = row /\ UNCHANGED total
    BY <1>0, <1>5, LeavesByGoto DEF MarkFailed, Moved, PC
  <2>2. In("fail")' \subseteq In("fail") /\ In("failcount")' = In("failcount")
    BY <2>1 DEF In, Leaves
  <2> QED BY <2>1, <2>2, NoFailureStep
<1>6. CASE CountFailed(w)
  <2>1. Leaves(w, "fin") /\ ex[w].pc = "failcount" /\ total'.failed = total.failed + 1
    BY <1>0, <1>6, LeavesByGoto DEF CountFailed, PC, TypeInv, TypeOK
  <2>2. In("failcount")' = In("failcount") \ {w} /\ w \in In("failcount")
        /\ In("fail")' = In("fail")
    BY <2>1 DEF In, Leaves
  <2>3. Cardinality(In("failcount")') = Cardinality(In("failcount")) - 1
    BY <2>2, FiniteBooks, OneLess
  <2>4. UNCHANGED <<row, used, fails>> /\ Rows("failed")' = Rows("failed")
    BY <1>6 DEF CountFailed, Rows
  <2> QED BY <1>0, <1>1, <1>2, <2>1, <2>2, <2>3, <2>4 DEF Failures, Untouched
<1>7. CASE ThrowInCatch(w)
  <2>1. Leaves(w, "idle")
    BY <1>0, <1>7, LeavesByFinish DEF ThrowInCatch
  <2>2. In("fail")' \subseteq In("fail") /\ In("failcount")' \subseteq In("failcount")
    BY <2>1 DEF In, Leaves
  <2>3. UNCHANGED <<row, total>> /\ used'["dberror"] # 0
    BY <1>0, <1>1, <1>7 DEF ThrowInCatch, Spend, data, TypeInv, TypeOK
  <2> QED BY <2>2, <2>3, NoFailureStep
<1> QED BY <1>3, <1>4, <1>5, <1>6, <1>7

LEMMA FailStep == FailInv /\ [Next]_vars => FailInv'
<1> SUFFICES ASSUME FailInv, [Next]_vars PROVE FailInv'
  OBVIOUS
<1>1. TypeInv'
  BY TypeStep DEF FailInv
<1>2. CASE UNCHANGED vars
  <2>1. UNCHANGED <<row, total, ex, fails, used>>
    BY <1>2 DEF vars
  <2> QED BY <1>1, <2>1 DEF FailInv, Failures, In, Rows, Untouched
<1>3. ASSUME Next, NEW w \in Workers,
             ThrowInTry(w) \/ MarkFailed(w) \/ CountFailed(w) \/ ThrowInCatch(w)
      PROVE  Failures'
  BY <1>3, CatchStep
<1>4. ASSUME Next, NEW w \in Workers,
             \/ \E j \in JobIds : Begin(w, j) \/ BeginReturns(w, j)
             \/ ReadRow(w) \/ ClaimRow(w) \/ SkipRow(w) \/ CountSkipped(w) \/ PassGate(w)
             \/ SendMail(w) \/ CommitSent(w) \/ CountSent(w) \/ LogSent(w)
             \/ FinalizeRead(w) \/ FinalizeWrite(w) \/ ThrowEarly(w)
      PROVE  Failures'
  <2>1. \A r \in Recipients : row'[r] = "failed" => row[r] = "failed"
    BY <1>4, FailedByMark DEF FailInv
  <2> QED BY <1>4, <2>1, OutsideCatch, NoFailureStep
<1>5. ASSUME Next,
             \/ \E p \in Procs : Tick(p) \/ Crash(p) \/ Shutdown(p) \/ Exit(p) \/ Boot(p)
             \/ \E p \in Procs, r \in Recipients :
                  \/ Enqueue(p, r) \/ Backfill(p, r) \/ ClaimEnqueued(p, r)
                  \/ RequeueStale(p, r) \/ ResetLost(p, r)
             \/ \E p \in Procs, j \in JobIds : RecoverRow(p, j)
             \/ \E j \in JobIds : MoveRetry(j) \/ Evict(j)
             \/ Pause \/ Resume \/ CancelStatus \/ CancelJobs \/ CancelRows \/ EditTemplate
             \/ \E r \in Recipients : Suppress(r)
      PROVE  Failures'
  <2>1. \A r \in Recipients : row'[r] = "failed" => row[r] = "failed"
    BY <1>5, FailedByMark DEF FailInv
  <2>2. /\ total' = total
        /\ \/ ex' = ex
           \/ used'["crash"] # 0 /\ \A w \in Workers : ex'[w] = ex[w] \/ ex'[w].pc = "idle"
    BY <1>5, OutsideSlots DEF FailInv
  <2>3. In("fail")' \subseteq In("fail") /\ In("failcount")' \subseteq In("failcount")
    BY <2>2 DEF In
  <2>4. used'["crash"] = 0 => In("failcount")' = In("failcount")
    BY <2>2 DEF In
  <2> QED BY <1>5, <2>1, <2>2, <2>3, <2>4, NoFailureStep
<1>6. CASE Next
  BY <1>1, <1>3, <1>4, <1>5, <1>6 DEF Next, Process, FailInv
<1> QED BY <1>2, <1>6

\* The log and the counters of a campaign agree with its rows, however many
\* slots and processes write them: nothing is logged that was not sent, no
\* transition to "sent" or "skipped" is counted twice and none to "sent" is missed
\* unless an attempt throws or a process dies between the two UPDATEs; totalFailed
\* counts no attempt twice and misses no failed row unless a process dies or the
\* database fails between the two.
THEOREM BooksAlwaysAgree == Spec => []BooksAgree
<1>1. Spec => []BooksInv
  BY BooksInitial, BooksStep, PTL DEF Spec
<1>2. Init => FailInv
  <2> SUFFICES ASSUME Init PROVE FailInv
    OBVIOUS
  <2>1. In("fail") = {} /\ In("failcount") = {} /\ Rows("failed") = {}
    BY DEF Init, In, Rows, IdleSlot
  <2>2. Cardinality(In("fail")) = 0 /\ Cardinality(In("failcount")) = 0 /\ Cardinality(Rows("failed")) = 0
    BY <2>1, FS_EmptySet
  <2>3. total.failed = 0 /\ fails = 0
    BY DEF Init
  <2>4. Failures
    BY <2>2, <2>3 DEF Failures
  <2> QED BY <2>4, InitTypes DEF FailInv
<1>3. Spec => []FailInv
  BY <1>2, FailStep, PTL DEF Spec
<1>4. BooksInv /\ FailInv /\ SentWasMailed => BooksAgree
  <2> SUFFICES ASSUME BooksInv, FailInv, SentWasMailed PROVE BooksAgree
    OBVIOUS
  <2>1. \A e \in logged : e[1] \in Recipients
    BY DEF BooksInv, TypeInv, TypeOK
  <2>2. \A e \in logged : row[e[1]] = "sent" /\ mails[e[1]] > 0
    BY <2>1 DEF BooksInv, Recorded, SentWasMailed
  <2> QED BY <2>2 DEF BooksInv, Balanced, FailInv, Failures, BooksAgree
<1> QED BY <1>1, <1>3, <1>4, SentImpliesMailed, PTL

-----------------------------------------------------------------------------
(* A queued row has a job *)

\* The events that lose or end a job whose row is not decided.
Losses == {"dberror", "stop", "evict", "cancel"}
Lossless == /\ fails = 0 /\ \A e \in Losses : Untouched(e)
            /\ version = 1 \/ Untouched("crash")

Decided == {"sent", "skipped"}
Beyond == {"skipcount", "count", "log", "sentfin", "fin", "finwrite"}

\* A slot works on a job with the deterministic id, which the queue holds; its
\* row is claimed before the gate, and decided after it.
OnCourse(w) ==
  /\ ex[w].bad = 0 /\ ex[w].pc \notin {"fail", "failcount"}
  /\ ex[w].job # NoJob => ex[w].job[3] = 0 /\ job[ex[w].job].state # "none"
  /\ ex[w].pc \in {"gate", "mail", "commit"} => row[Target(w)] # "pending"
  /\ ex[w].pc \in Beyond => row[Target(w)] \in Decided

\* No row fails; only a decided row's jobs are completed, and only a pending row
\* that nobody is about to claim has no job.
Fed(r) ==
  /\ row[r] # "failed"
  /\ \A v \in Versions :
       /\ job[JobFor(r, v)].state \in {"none", "wait", "active", "completed"}
       /\ job[JobFor(r, v)].state = "completed" => row[r] \in Decided
  /\ (\A v \in Versions : job[JobFor(r, v)].state = "none") =>
       row[r] = "pending" /\ \A p \in Procs : r \notin sched[p].claims

FedInv ==
  /\ cancel = "none" /\ NoCopies
  /\ \A p \in Procs : sched[p].lost = {}
  /\ \A w \in Workers : OnCourse(w)
  /\ \A r \in Recipients : Fed(r)

\* While nobody stops a process and none dies, all of them are up.
UpInv ==
  TypeInv /\ (Untouched("crash") /\ Untouched("stop") => \A p \in Procs : phase[p] = "up")

LEMMA UpStep == UpInv /\ [Next]_vars => UpInv'
<1> SUFFICES ASSUME UpInv, [Next]_vars PROVE UpInv'
  OBVIOUS
<1> DEFINE AllRun == used'["crash"] = 0 /\ used'["stop"] = 0
<1>0. TypeInv /\ TypeInv' /\ "crash" \in Events /\ "stop" \in Events
  BY TypeStep DEF UpInv, Events
<1>1. CASE UNCHANGED vars
  <2>1. UNCHANGED <<used, phase>>
    BY <1>1 DEF vars
  <2> QED BY <1>0, <2>1 DEF UpInv, Untouched
<1>2. ASSUME Next, AllRun PROVE \A p \in Procs : phase[p] = "up"
  <2>1. \A e \in Events : used[e] \in Nat /\ used'[e] \in Nat /\ used[e] <= used'[e]
    BY <1>0, <1>2, EventsGrow
  <2>2. used["crash"] = 0
    BY <1>0, <1>2, <2>1
  <2>3. used["stop"] = 0
    BY <1>0, <1>2, <2>1
  <2> QED BY <2>2, <2>3 DEF UpInv, Untouched
<1>3. ASSUME NEW p \in Procs, Crash(p) \/ Shutdown(p) PROVE ~AllRun
  BY <1>0, <1>3 DEF Crash, Shutdown, Spend, TypeInv, TypeOK
<1>4. ASSUME Next, NEW p \in Procs, Exit(p) \/ Boot(p) PROVE ~AllRun
  BY <1>2, <1>4 DEF Exit, Boot
<1>5. ASSUME Next, phase' = phase PROVE AllRun => \A p \in Procs : phase'[p] = "up"
  BY <1>2, <1>5
<1>6. ASSUME NEW p \in Procs, Tick(p) PROVE phase' = phase
  BY <1>6 DEF Tick
<1>7. ASSUME NEW p \in Procs, NEW r \in Recipients,
             \/ Enqueue(p, r) \/ Backfill(p, r) \/ ClaimEnqueued(p, r)
             \/ RequeueStale(p, r) \/ ResetLost(p, r)
      PROVE  phase' = phase
  BY <1>7 DEF Enqueue, Backfill, ClaimEnqueued, RequeueStale, ResetLost
<1>8. ASSUME NEW p \in Procs, NEW j \in JobIds, RecoverRow(p, j) PROVE phase' = phase
  BY <1>8 DEF RecoverRow
<1>9. ASSUME NEW w \in Workers,
             \/ \E j \in JobIds : Begin(w, j) \/ BeginReturns(w, j)
             \/ Process(w) \/ ThrowEarly(w) \/ ThrowInTry(w) \/ ThrowInCatch(w)
      PROVE  phase' = phase
  BY <1>9 DEF Begin, BeginReturns, Process, ReadRow, ClaimRow, SkipRow, CountSkipped, PassGate,
              SendMail, CommitSent, CountSent, LogSent, MarkFailed, CountFailed, FinalizeRead,
              FinalizeWrite, ThrowEarly, ThrowInTry, ThrowInCatch
<1>10. ASSUME NEW j \in JobIds, MoveRetry(j) \/ Evict(j) PROVE phase' = phase
  BY <1>10 DEF MoveRetry, Evict
<1>11. ASSUME \/ Pause \/ Resume \/ CancelStatus \/ CancelJobs \/ CancelRows \/ EditTemplate
              \/ \E r \in Recipients : Suppress(r)
       PROVE  phase' = phase
  BY <1>11 DEF Pause, Resume, CancelStatus, CancelJobs, CancelRows, EditTemplate, Suppress
<1>12. ASSUME Next PROVE AllRun => \A p \in Procs : phase'[p] = "up"
  BY <1>3, <1>4, <1>5, <1>6, <1>7, <1>8, <1>9, <1>10, <1>11, <1>12 DEF Next
<1>13. CASE Next
  BY <1>0, <1>12, <1>13 DEF UpInv, Untouched
<1> QED BY <1>1, <1>13

LEMMA VersionGrows ==
  ASSUME TypeInv, Next
  PROVE  version \in Nat /\ version' \in Nat /\ version <= version'
<1>1. version \in Nat /\ version' \in Nat
  BY TypeStep DEF TypeInv, TypeOK, Versions
<1>2. version' \in {version, version + 1}
  BY ZenonT(40) DEF Next, Process, Tick, Crash, Shutdown, Exit, Boot, Enqueue, Backfill, ClaimEnqueued,
         RequeueStale, ResetLost, RecoverRow, Begin, BeginReturns, ReadRow, ClaimRow, SkipRow,
         CountSkipped, PassGate, SendMail, CommitSent, CountSent, LogSent, MarkFailed,
         CountFailed, FinalizeRead, FinalizeWrite, ThrowEarly, ThrowInTry, ThrowInCatch,
         MoveRetry, Evict, Pause, Resume, CancelStatus, CancelJobs, CancelRows, EditTemplate,
         Suppress
<1> QED BY <1>1, <1>2

LEMMA LosslessBefore ==
  ASSUME TypeInv, Next, Lossless'
  PROVE  Lossless /\ fails' = fails /\ \A e \in Losses : ~Spend(e)
<1>1. \A e \in Losses : e \in Events
  BY DEF Losses, Events
<1>2. \A e \in Events : used[e] \in Nat /\ used'[e] \in Nat /\ used[e] <= used'[e]
  BY EventsGrow
<1>3. fails \in Nat /\ fails' \in Nat /\ fails <= fails'
  BY EventsGrow
<1>4. \A e \in Losses : used[e] = 0 /\ used'[e] = 0
  BY <1>1, <1>2 DEF Lossless, Untouched
<1>5. \A e \in Losses : ~Spend(e)
  BY <1>1, <1>4, SpendGrows
<1>6. version' = 1 => version = 1
  BY VersionGrows, Identities DEF TypeInv, TypeOK, Versions
<1>7. used'["crash"] = 0 => used["crash"] = 0
  BY <1>2 DEF Events
<1>8. fails' = 0
  BY DEF Lossless
<1> QED BY <1>3, <1>4, <1>5, <1>6, <1>7, <1>8 DEF Lossless, Untouched

\* What the steps of a lossless campaign may do to rows, jobs, claims and slots.
RowGoesOn(r) ==
  \/ row'[r] = row[r]
  \/ row[r] = "pending" /\ row'[r] = "queued"
     /\ \E v \in Versions : job[JobFor(r, v)].state # "none"
  \/ row[r] = "queued" /\ row'[r] \in Decided
JobGoesOn(j) ==
  \/ job'[j].state = job[j].state
  \/ /\ j[3] = 0
     /\ \/ job'[j].state \in {"wait", "active"}
        \/ job'[j].state = "completed" /\ row'[j[1]] \in Decided
ClaimsGoOn(p) ==
  /\ sched'[p].lost = {}
  /\ \A r \in Recipients :
       r \in sched'[p].claims =>
         r \in sched[p].claims \/ \E v \in Versions : job'[JobFor(r, v)].state # "none"

LEMMA FedStep ==
  ASSUME TypeInv, TypeInv', FedInv, cancel' = cancel,
         \A r \in Recipients : RowGoesOn(r), \A j \in JobIds : JobGoesOn(j),
         \A p \in Procs : ClaimsGoOn(p),
         \A w \in Workers : ex'[w] = ex[w] \/ OnCourse(w)'
  PROVE  FedInv'
<1>1. NoCopies'
  <2> SUFFICES ASSUME NEW r \in Recipients, NEW v \in Versions, NEW n \in 1 .. MaxFails
               PROVE  job'[<<r, v, n>>].state = "none"
    BY DEF NoCopies
  <2>1. <<r, v, n>> \in JobIds /\ <<r, v, n>>[3] # 0
    BY CopyIds
  <2>2. JobGoesOn(<<r, v, n>>) /\ job[<<r, v, n>>].state = "none"
    BY <2>1 DEF FedInv, NoCopies
  <2> QED BY <2>1, <2>2 DEF JobGoesOn
<1>2. \A w \in Workers : OnCourse(w)'
  <2> SUFFICES ASSUME NEW w \in Workers, ex'[w] = ex[w] PROVE OnCourse(w)'
    OBVIOUS
  <2>1. OnCourse(w)
    BY DEF FedInv
  <2>2. CASE ex[w].job = NoJob
    <3>1. ex[w].pc = "idle"
      BY <2>2, Identities DEF TypeInv, BusyHasJob
    <3> QED BY <2>1, <2>2, <3>1 DEF OnCourse, Beyond
  <2>3. CASE ex[w].job # NoJob
    <3>1. ex[w].job \in JobIds /\ Target(w) \in Recipients
      BY <2>3, Identities DEF TypeInv, TypeOK, Slot, Target
    <3>2. job'[ex[w].job].state # "none"
      BY <2>1, <2>3, <3>1 DEF OnCourse, JobGoesOn
    <3>3. RowGoesOn(Target(w)) /\ Target(w)' = Target(w)
      BY <3>1 DEF Target
    <3> QED BY <2>1, <3>2, <3>3 DEF OnCourse, RowGoesOn, Decided, Beyond
  <2> QED BY <2>2, <2>3
<1>3. ASSUME NEW r \in Recipients PROVE Fed(r)'
  <2>1. Fed(r) /\ RowGoesOn(r)
    BY DEF FedInv
  <2>2. \A v \in Versions : JobGoesOn(JobFor(r, v)) /\ JobFor(r, v)[1] = r
    BY Identities
  <2>3. \A v \in Versions : job'[JobFor(r, v)].state \in {"none", "wait", "active", "completed"}
    BY <2>1, <2>2 DEF Fed, JobGoesOn
  <2>4. \A v \in Versions : job'[JobFor(r, v)].state = "completed" => row'[r] \in Decided
    BY <2>1, <2>2 DEF Fed, JobGoesOn, RowGoesOn, Decided
  <2>5. ASSUME \A v \in Versions : job'[JobFor(r, v)].state = "none"
        PROVE  row'[r] = "pending" /\ \A p \in Procs : r \notin sched'[p].claims
    <3>1. \A v \in Versions : job[JobFor(r, v)].state = "none"
      BY <2>2, <2>5 DEF JobGoesOn
    <3>2. row'[r] = "pending"
      BY <2>1, <3>1 DEF Fed, RowGoesOn
    <3> QED BY <2>1, <2>5, <3>1, <3>2 DEF Fed, ClaimsGoOn
  <2>6. row'[r] # "failed"
    BY <2>1 DEF Fed, RowGoesOn, Decided
  <2> QED BY <2>3, <2>4, <2>5, <2>6 DEF Fed
<1> QED BY <1>1, <1>2, <1>3 DEF FedInv, ClaimsGoOn

\* add() leaves a job for the recipient.
LEMMA AddedIsFed ==
  ASSUME TypeInv, NEW i \in JobIds, i[3] = 0, NEW key, job' = Added(i, key)
  PROVE  (\A j \in JobIds : JobGoesOn(j)) /\ job'[i].state # "none"
<1>1. job \in [JobIds -> Job]
  BY DEF TypeInv, TypeOK
<1>2. CASE job[i].state = "none"
  <2>1. job'[i].state = "wait" /\ \A j \in JobIds : j # i => job'[j] = job[j]
    BY <1>1, <1>2 DEF Added
  <2> QED BY <2>1 DEF JobGoesOn
<1>3. CASE job[i].state # "none"
  BY <1>3 DEF Added, JobGoesOn
<1> QED BY <1>2, <1>3

\* The recovery takes no row for lost.
LEMMA NothingLost ==
  ASSUME UpInv, Known, FedInv, Lossless, NEW p \in Procs, phase[p] = "down"
  PROVE  {r \in Recipients : row[r] = "queued" /\ ~Live(r)} = {}
<1>1. version = 1
  BY DEF UpInv, Lossless, Losses
<1>2. ASSUME NEW r \in Recipients, row[r] = "queued" PROVE Live(r)
  <2>1. PICK v \in Versions : job[JobFor(r, v)].state # "none"
    BY <1>2 DEF FedInv, Fed
  <2>2. job[JobFor(r, v)].state \in {"wait", "active"}
    BY <1>2, <2>1 DEF FedInv, Fed, Decided
  <2>3. v <= version
    BY <2>1, Identities DEF Known
  <2>4. v = 1
    BY <1>1, <2>3 DEF Versions
  <2> QED BY <1>1, <2>2, <2>4 DEF Live
<1> QED BY <1>2

LEMMA SchedulerFeeds ==
  ASSUME UpInv, TypeInv', Known, FedInv, Lossless, NEW p \in Procs, \A e \in Losses : ~Spend(e),
         \/ Tick(p) \/ Exit(p) \/ Boot(p)
         \/ \E r \in Recipients :
              \/ Enqueue(p, r) \/ Backfill(p, r) \/ ClaimEnqueued(p, r)
              \/ RequeueStale(p, r) \/ ResetLost(p, r)
         \/ \E j \in JobIds : RecoverRow(p, j)
  PROVE  FedInv'
<1>0. /\ TypeInv /\ sched \in [Procs -> Sched] /\ row \in [Recipients -> SendStatus]
      /\ \A q \in Procs : sched[q].lost = {} /\ sched[q].claims \subseteq Recipients
      /\ \A r \in Recipients : Fed(r)
  BY DEF UpInv, TypeInv, TypeOK, Sched, FedInv
<1>1. \A q \in Procs : sched'[q] = sched[q] => ClaimsGoOn(q)
  BY <1>0 DEF ClaimsGoOn
<1>2. CASE Tick(p) \/ Exit(p) \/ Boot(p)
  <2>1. UNCHANGED <<row, job, ex, cancel>>
    BY <1>2 DEF Tick, Exit, Boot, data
  <2>2. ClaimsGoOn(p) /\ \A q \in Procs \ {p} : sched'[q] = sched[q]
    <3>1. CASE Tick(p)
      <4>1. PICK s \in Sched : /\ sched' = [sched EXCEPT ![p] = s]
                               /\ s.claims = sched[p].claims /\ s.lost = sched[p].lost
        BY <1>0, <3>1, TickUpdates
      <4> QED BY <1>0, <4>1 DEF ClaimsGoOn
    <3>2. CASE Exit(p)
      BY <1>0, <3>2 DEF Exit, ClaimsGoOn, Sched, IdleSched
    <3>3. CASE Boot(p)
      <4> DEFINE B == {JobFor(r, version) : r \in Open}
      <4>1. {r \in Recipients : row[r] = "queued" /\ ~Live(r)} = {}
        BY <3>3, NothingLost DEF Boot
      <4>2. \/ sched' = sched
            \/ sched' = [sched EXCEPT ![p] = [IdleSched EXCEPT !.boot = B, !.lost = {}]]
        BY <3>3, <4>1 DEF Boot
      <4> HIDE DEF B
      <4> QED BY <1>0, <1>1, <4>2 DEF ClaimsGoOn, Sched, IdleSched
    <3> QED BY <1>2, <3>1, <3>2, <3>3
  <2> QED BY <1>0, <1>1, <2>1, <2>2, FedStep DEF RowGoesOn, JobGoesOn
<1>3. ASSUME NEW r \in Recipients, Enqueue(p, r) \/ Backfill(p, r) \/ RequeueStale(p, r)
      PROVE  FedInv'
  <2> DEFINE i == JobFor(r, sched[p].ver)
  <2>1. UNCHANGED <<row, ex, cancel>> /\ job' = Added(i, "hashed")
    BY <1>3 DEF Enqueue, Backfill, RequeueStale, data
  <2>2. i \in JobIds /\ i[3] = 0 /\ sched[p].ver \in Versions
    BY <1>0, Identities DEF Sched
  <2>3. (\A j \in JobIds : JobGoesOn(j)) /\ job'[i].state # "none"
    BY <1>0, <2>1, <2>2, AddedIsFed
  <2>4. \E v \in Versions : job'[JobFor(r, v)].state # "none"
    BY <2>2, <2>3
  <2>5. /\ sched'[p].lost = {} /\ sched'[p].claims \subseteq sched[p].claims \cup {r}
        /\ \A q \in Procs \ {p} : sched'[q] = sched[q]
    BY <1>0, <1>3 DEF Enqueue, Backfill, RequeueStale, Sched
  <2>6. ClaimsGoOn(p)
    BY <2>4, <2>5 DEF ClaimsGoOn
  <2> HIDE DEF i
  <2> QED BY <1>0, <1>1, <2>1, <2>3, <2>5, <2>6, FedStep DEF RowGoesOn
<1>4. ASSUME NEW r \in Recipients, ClaimEnqueued(p, r) PROVE FedInv'
  <2>1. row' = Moved(r, "queued") /\ UNCHANGED <<job, ex, cancel>> /\ r \in sched[p].claims
    BY <1>4 DEF ClaimEnqueued, DbError, Losses
  <2>2. ClaimsGoOn(p) /\ \A q \in Procs \ {p} : sched'[q] = sched[q]
    BY <1>0, <1>4 DEF ClaimEnqueued, ClaimsGoOn, Sched
  <2>3. RowGoesOn(r)
    BY <1>0, <2>1 DEF Moved, CanMove, AllowedFrom, RowGoesOn, Fed, Decided
  <2>4. \A q \in Recipients : q # r => row'[q] = row[q]
    BY <1>0, <2>1 DEF Moved
  <2> QED BY <1>0, <1>1, <2>1, <2>2, <2>3, <2>4, FedStep DEF RowGoesOn, JobGoesOn
<1>5. ASSUME NEW r \in Recipients PROVE ~ResetLost(p, r)
  BY <1>0 DEF ResetLost
<1>6. ASSUME NEW j \in JobIds, RecoverRow(p, j) PROVE FedInv'
  <2>1. /\ UNCHANGED <<row, ex, cancel>> /\ job' = Added(j, "plain") /\ j[3] = 0
        /\ sched' = [sched EXCEPT ![p].boot = @ \ {j}]
    BY <1>6 DEF RecoverRow, data, Known
  <2>2. \A i \in JobIds : JobGoesOn(i)
    BY <1>0, <2>1, AddedIsFed
  <2>3. ClaimsGoOn(p) /\ \A q \in Procs \ {p} : sched'[q] = sched[q]
    BY <1>0, <2>1 DEF ClaimsGoOn, Sched
  <2> QED BY <1>0, <1>1, <2>1, <2>2, <2>3, FedStep DEF RowGoesOn
<1>7. CASE Tick(p) \/ Exit(p) \/ Boot(p)
  BY <1>2, <1>7
<1>8. CASE \E r \in Recipients :
             \/ Enqueue(p, r) \/ Backfill(p, r) \/ ClaimEnqueued(p, r)
             \/ RequeueStale(p, r) \/ ResetLost(p, r)
  BY <1>3, <1>4, <1>5, <1>8
<1>9. CASE \E j \in JobIds : RecoverRow(p, j)
  BY <1>6, <1>9
<1> QED BY <1>7, <1>8, <1>9

\* A slot that goes on, or ends a job whose row is decided.
LEMMA SlotGoesOn ==
  ASSUME TypeInv, TypeInv', FedInv, NEW w \in Workers, ex[w].pc # "idle",
         NEW pc \in PC \ {"idle", "fail", "failcount"}, Goto(w, pc),
         UNCHANGED <<sched, cancel>>,
         \A r \in Recipients : r # Target(w) => row'[r] = row[r],
         RowGoesOn(Target(w)),
         pc \in {"gate", "mail", "commit"} => row'[Target(w)] # "pending",
         pc \in Beyond => row'[Target(w)] \in Decided
  PROVE  FedInv'
<1>1. job' = job /\ Leaves(w, pc) /\ ex'[w].bad = ex[w].bad
  <2>1. Leaves(w, pc)
    BY LeavesByGoto
  <2>2. job' = job /\ ex'[w].bad = ex[w].bad
    BY DEF Goto, TypeInv, TypeOK, Slot
  <2> QED BY <2>1, <2>2
<1>2. OnCourse(w) /\ ex'[w].job = ex[w].job
  BY <1>1 DEF FedInv, Leaves
<1>3. OnCourse(w)'
  BY <1>1, <1>2 DEF OnCourse, Leaves, Target
<1>4. \A r \in Recipients : RowGoesOn(r)
  BY DEF RowGoesOn
<1>5. \A j \in JobIds : JobGoesOn(j)
  BY <1>1 DEF JobGoesOn
<1>6. \A p \in Procs : ClaimsGoOn(p)
  BY DEF FedInv, ClaimsGoOn
<1> QED BY <1>1, <1>3, <1>4, <1>5, <1>6, FedStep DEF Leaves

LEMMA SlotEnds ==
  ASSUME TypeInv, TypeInv', FedInv, NEW w \in Workers, ex[w].pc # "idle", JobDone(w),
         UNCHANGED <<row, sched, cancel>>, row[Target(w)] \in Decided
  PROVE  FedInv'
<1>1. ex[w].job \in JobIds /\ ex[w].job # NoJob
  BY Identities DEF TypeInv, BusyHasJob
<1>2. ex[w].job[3] = 0
  BY <1>1 DEF FedInv, OnCourse
<1>3. \A j \in JobIds : JobGoesOn(j)
  <2>1. \A j \in JobIds : j # ex[w].job => job'[j] = job[j]
    BY DEF JobDone, TypeInv, TypeOK
  <2>2. job'[ex[w].job].state = "completed"
    BY <1>1 DEF JobDone, TypeInv, TypeOK, Job
  <2> QED BY <1>2, <2>1, <2>2 DEF JobGoesOn, Target
<1>4. \A v \in Workers : ex'[v] = ex[v] \/ ex'[v] = IdleSlot
  BY DEF JobDone, TypeInv, TypeOK
<1>5. \A v \in Workers : ex'[v] = IdleSlot => OnCourse(v)'
  BY DEF OnCourse, IdleSlot, Beyond
<1>6. \A p \in Procs : ClaimsGoOn(p)
  BY DEF FedInv, ClaimsGoOn
<1> QED BY <1>3, <1>4, <1>5, <1>6, FedStep DEF RowGoesOn

\* A slot takes its job from the queue.
LEMMA BeginFeeds ==
  ASSUME TypeInv, TypeInv', FedInv, Recorded, \A e \in Losses : ~Spend(e),
         NEW w \in Workers, NEW j \in JobIds, Begin(w, j) \/ BeginReturns(w, j)
  PROVE  FedInv'
<1>1. /\ job[j].state = "wait" /\ UNCHANGED <<row, sched, cancel>>
      /\ \A i \in JobIds : i # j => job'[i] = job[i]
  BY DEF Begin, BeginReturns, data, TypeInv, TypeOK
<1>2. j[3] = 0 /\ j[1] \in Recipients /\ j # NoJob
  BY <1>1, Identities DEF FedInv, NoCopies
<1>3. \A p \in Procs : ClaimsGoOn(p)
  BY <1>1 DEF FedInv, ClaimsGoOn
<1>4. CASE Begin(w, j)
  <2>1. job'[j].state = "active"
    BY <1>4 DEF Begin, TypeInv, TypeOK, Job
  <2>2. \A i \in JobIds : JobGoesOn(i)
    BY <1>1, <1>2, <2>1 DEF JobGoesOn
  <2>3. /\ ex'[w].pc = "row" /\ ex'[w].job = j /\ ex'[w].bad = 0
        /\ \A v \in Workers \ {w} : ex'[v] = ex[v]
    BY <1>4 DEF Begin, TypeInv, TypeOK, IdleSlot
  <2>4. OnCourse(w)'
    BY <1>2, <2>1, <2>3 DEF OnCourse, Beyond
  <2> QED BY <1>1, <1>3, <2>2, <2>3, <2>4, FedStep DEF RowGoesOn
<1>5. CASE BeginReturns(w, j)
  <2>1. Logged(j)
    BY <1>5 DEF BeginReturns, DbError, Losses
  <2>2. row[j[1]] \in Decided
    BY <2>1 DEF Logged, Key, Recorded, Decided
  <2>3. job'[j].state = "completed" /\ ex' = ex
    BY <1>5 DEF BeginReturns, TypeInv, TypeOK, Job
  <2>4. \A i \in JobIds : JobGoesOn(i)
    BY <1>1, <1>2, <2>2, <2>3 DEF JobGoesOn
  <2> QED BY <1>1, <1>3, <2>3, <2>4, FedStep DEF RowGoesOn
<1> QED BY <1>4, <1>5

LEMMA SlotFeeds ==
  ASSUME TypeInv, TypeInv', FedInv, Recorded, \A e \in Losses : ~Spend(e),
         NEW w \in Workers, Process(w)
  PROVE  FedInv'
<1>0. /\ ex[w].pc # "idle" /\ UNCHANGED <<sched, cancel>>
      /\ row \in [Recipients -> SendStatus] /\ OnCourse(w)
  BY DEF Process, ReadRow, ClaimRow, SkipRow, CountSkipped, PassGate, SendMail, CommitSent,
         CountSent, LogSent, MarkFailed, CountFailed, FinalizeRead, FinalizeWrite,
         TypeInv, TypeOK, FedInv
<1>1. /\ Target(w) \in Recipients /\ ex[w].job \in JobIds /\ ex[w].job[2] \in Versions
      /\ ex[w].job = JobFor(Target(w), ex[w].job[2])
  <2>1. ex[w].job \in JobIds /\ ex[w].job # NoJob
    BY <1>0, Identities DEF TypeInv, BusyHasJob
  <2> QED BY <1>0, <2>1, Identities DEF OnCourse, Target
<1>2. Fed(Target(w)) /\ \E v \in Versions : job[JobFor(Target(w), v)].state # "none"
  BY <1>0, <1>1, Identities DEF FedInv, OnCourse
<1>3. CASE ReadRow(w)
  <2>1. CASE JobDone(w) /\ row[Target(w)] \in {"sent", "failed", "skipped"}
    BY <1>0, <1>2, <1>3, <2>1, SlotEnds DEF ReadRow, data, Fed, Decided
  <2>2. CASE Goto(w, "claim") \/ (row[Target(w)] = "queued" /\ Goto(w, "gate"))
    BY <1>0, <1>3, <2>2, SlotGoesOn DEF ReadRow, data, PC, RowGoesOn, Beyond
  <2> QED BY <1>3, <2>1, <2>2 DEF ReadRow
<1>4. CASE ClaimRow(w)
  <2>1. row' = Moved(Target(w), "queued") /\ Goto(w, "gate")
    BY <1>4 DEF ClaimRow, DbError, Losses
  <2>2. RowGoesOn(Target(w)) /\ row'[Target(w)] # "pending"
    BY <1>0, <1>1, <1>2, <2>1 DEF Moved, CanMove, AllowedFrom, RowGoesOn, Fed, Decided
  <2>3. \A r \in Recipients : r # Target(w) => row'[r] = row[r]
    BY <1>0, <2>1 DEF Moved
  <2> QED BY <1>0, <2>1, <2>2, <2>3, SlotGoesOn DEF PC, Beyond
<1>5. CASE SkipRow(w)
  <2>1. row[Target(w)] \in {"queued", "sent", "skipped"}
    BY <1>0, <1>1, <1>2, <1>5 DEF SkipRow, OnCourse, Fed, SendStatus
  <2>2. /\ \A r \in Recipients : r # Target(w) => row'[r] = row[r]
        /\ RowGoesOn(Target(w)) /\ row'[Target(w)] \in Decided
    BY <1>0, <1>1, <1>5, <2>1 DEF SkipRow, Moved, CanMove, AllowedFrom, RowGoesOn, Decided
  <2>3. Goto(w, "skipcount") \/ Goto(w, "fin")
    BY <1>5 DEF SkipRow
  <2> QED BY <1>0, <2>2, <2>3, SlotGoesOn DEF PC, Beyond
<1>6. CASE CommitSent(w)
  <2>1. row[Target(w)] \in {"queued", "sent", "skipped"}
    BY <1>0, <1>1, <1>2, <1>6 DEF CommitSent, OnCourse, Fed, SendStatus
  <2>2. CASE row[Target(w)] = "queued"
    <3>1. /\ \A r \in Recipients : r # Target(w) => row'[r] = row[r]
          /\ RowGoesOn(Target(w)) /\ row'[Target(w)] \in Decided /\ Goto(w, "count")
      BY <1>0, <1>1, <1>6, <2>2 DEF CommitSent, Moved, CanMove, AllowedFrom, RowGoesOn, Decided
    <3> QED BY <1>0, <3>1, SlotGoesOn DEF PC, Beyond
  <2>3. CASE row[Target(w)] \in {"sent", "skipped"}
    BY <1>0, <1>6, <2>3, SlotEnds DEF CommitSent, Moved, CanMove, AllowedFrom, Decided
  <2> QED BY <2>1, <2>2, <2>3
<1>7. CASE PassGate(w) \/ SendMail(w)
  <2>1. UNCHANGED row /\ (Goto(w, "mail") \/ Goto(w, "commit")) /\ row[Target(w)] # "pending"
    BY <1>0, <1>7 DEF PassGate, SendMail, data, OnCourse
  <2> QED BY <1>0, <2>1, SlotGoesOn DEF PC, Beyond, RowGoesOn
<1>8. CASE CountSkipped(w) \/ CountSent(w) \/ LogSent(w)
  <2>1. UNCHANGED row /\ (Goto(w, "fin") \/ Goto(w, "log") \/ Goto(w, "sentfin"))
        /\ row[Target(w)] \in Decided
    BY <1>0, <1>8 DEF CountSkipped, CountSent, LogSent, OnCourse, Beyond
  <2> QED BY <1>0, <2>1, SlotGoesOn DEF PC, RowGoesOn
<1>9. ~MarkFailed(w) /\ ~CountFailed(w)
  BY <1>0 DEF MarkFailed, CountFailed, OnCourse
<1>10. CASE FinalizeRead(w) \/ FinalizeWrite(w)
  <2>1. UNCHANGED row /\ row[Target(w)] \in Decided
    BY <1>0, <1>10 DEF FinalizeRead, FinalizeWrite, data, OnCourse, Beyond
  <2>2. CASE Finish(w)
    BY <1>0, <2>1, <2>2, SlotEnds DEF Finish, OnCourse
  <2>3. CASE FinalizeRead(w) /\ ~Finish(w)
    <3>1. /\ Leaves(w, "finwrite") /\ ex'[w].bad = ex[w].bad /\ job' = job
      BY <2>3 DEF FinalizeRead, Leaves, TypeInv, TypeOK, Slot
    <3>2. OnCourse(w)'
      BY <1>0, <2>1, <3>1 DEF OnCourse, Leaves, Target
    <3>3. \A p \in Procs : ClaimsGoOn(p)
      BY <1>0 DEF FedInv, ClaimsGoOn
    <3> QED BY <1>0, <2>1, <3>1, <3>2, <3>3, FedStep DEF Leaves, RowGoesOn, JobGoesOn
  <2> QED BY <1>10, <2>2, <2>3 DEF FinalizeWrite
<1> QED BY <1>3, <1>4, <1>5, <1>6, <1>7, <1>8, <1>9, <1>10 DEF Process

\* The jobs of a process that dies wait again, and its claims are gone.
LEMMA CrashFeeds ==
  ASSUME TypeInv, TypeInv', FedInv, NEW p \in Procs, Crash(p)
  PROVE  FedInv'
<1>1. UNCHANGED <<row, cancel>> /\ sched' = [sched EXCEPT ![p] = IdleSched]
  BY DEF Crash, data
<1>2. \A q \in Procs : ClaimsGoOn(q)
  BY <1>1 DEF FedInv, ClaimsGoOn, IdleSched, TypeInv, TypeOK
<1>3. \A w \in Workers : ex'[w] = ex[w] \/ ex'[w] = IdleSlot
  BY DEF Crash
<1>4. \A w \in Workers : ex'[w] = IdleSlot => OnCourse(w)'
  BY DEF OnCourse, IdleSlot, Beyond
<1>5. \A j \in JobIds : JobGoesOn(j)
  <2> SUFFICES ASSUME NEW j \in JobIds PROVE JobGoesOn(j)
    OBVIOUS
  <2>1. CASE \E w \in Workers : Home[w] = p /\ ex[w].job = j
    <3>1. j[3] = 0
      BY <2>1, Identities DEF FedInv, OnCourse
    <3>2. job'[j].state = "wait"
      BY <2>1 DEF Crash, TypeInv, TypeOK, Job
    <3> QED BY <3>1, <3>2 DEF JobGoesOn
  <2>2. CASE ~\E w \in Workers : Home[w] = p /\ ex[w].job = j
    BY <2>2 DEF Crash, JobGoesOn
  <2> QED BY <2>1, <2>2
<1> QED BY <1>1, <1>2, <1>3, <1>4, <1>5, FedStep DEF RowGoesOn

LEMMA QueueFeeds ==
  ASSUME UpInv, TypeInv', BooksInv, Known, FedInv, Next, Lossless'
  PROVE  FedInv'
<1>0. /\ (\A e \in Losses : ~Spend(e)) /\ fails' = fails /\ Recorded
      /\ TypeInv /\ Lossless
  BY LosslessBefore DEF BooksInv
<1>1. ASSUME NEW p \in Procs, Crash(p) PROVE FedInv'
  BY <1>0, <1>1, CrashFeeds
<1>2. ASSUME NEW p \in Procs PROVE ~Shutdown(p)
  BY <1>0 DEF Shutdown, Losses
<1>3. ASSUME NEW w \in Workers PROVE ~ThrowEarly(w) /\ ~ThrowInTry(w) /\ ~ThrowInCatch(w)
  BY <1>0, Identities DEF ThrowEarly, ThrowInTry, ThrowInCatch, Losses, TypeInv, TypeOK
<1>4. ASSUME NEW j \in JobIds PROVE ~MoveRetry(j) /\ ~Evict(j)
  <2>1. job[j].state # "retry"
    BY Identities DEF FedInv, NoCopies, Fed
  <2> QED BY <1>0, <2>1 DEF MoveRetry, Evict, Losses
<1>5. ~CancelStatus /\ ~CancelJobs /\ ~CancelRows
  BY <1>0 DEF CancelStatus, CancelJobs, CancelRows, FedInv, Losses
<1>6. CASE Pause \/ Resume \/ EditTemplate \/ \E r \in Recipients : Suppress(r)
  <2>1. UNCHANGED <<row, job, ex, sched, cancel>>
    BY <1>6 DEF Pause, Resume, EditTemplate, Suppress, data
  <2> QED BY <1>0, <2>1, FedStep DEF RowGoesOn, JobGoesOn, ClaimsGoOn, FedInv
<1>7. ASSUME NEW p \in Procs,
             \/ Tick(p) \/ Exit(p) \/ Boot(p)
             \/ \E r \in Recipients :
                  \/ Enqueue(p, r) \/ Backfill(p, r) \/ ClaimEnqueued(p, r)
                  \/ RequeueStale(p, r) \/ ResetLost(p, r)
             \/ \E j \in JobIds : RecoverRow(p, j)
      PROVE  FedInv'
  <2>1. UpInv /\ TypeInv' /\ Known /\ FedInv /\ Lossless
    BY <1>0
  <2> QED BY <1>0, <1>7, <2>1, SchedulerFeeds, Zenon
<1>8. ASSUME NEW w \in Workers, NEW j \in JobIds, Begin(w, j) \/ BeginReturns(w, j)
      PROVE  FedInv'
  BY <1>0, <1>8, BeginFeeds
<1>9. ASSUME NEW w \in Workers, Process(w) PROVE FedInv'
  BY <1>0, <1>9, SlotFeeds
<1> QED BY <1>1, <1>2, <1>3, <1>4, <1>5, <1>6, <1>7, <1>8, <1>9 DEF Next

\* A row that is queued has a job that is waiting or being worked on, however
\* many processes enqueue, claim, requeue and recover it, under whatever versions
\* of the template, and whichever of them dies in between, as long as no attempt
\* throws, no database error is swallowed, no finished job is evicted, nobody stops
\* a process or cancels, and no process dies in a campaign whose template is edited.
THEOREM QueuedRowHasJob == Spec => []QueuedHasJob
<1>1. Spec => []BooksInv
  BY BooksInitial, BooksStep, PTL DEF Spec
<1>2. Init => UpInv /\ Known
  BY InitTypes, InitOnce DEF Init, UpInv, OnceInv
<1>3. Spec => [](UpInv /\ Known)
  <2>1. UpInv /\ Known /\ [Next]_vars => (UpInv /\ Known)'
    BY UpStep, KnownStep DEF UpInv
  <2> QED BY <1>2, <2>1, PTL DEF Spec
<1>4. Init => (Lossless => FedInv)
  <2> SUFFICES ASSUME Init PROVE FedInv
    OBVIOUS
  <2>1. \A w \in Workers : OnCourse(w)
    BY DEF Init, OnCourse, IdleSlot, Beyond
  <2>2. NoCopies /\ \A r \in Recipients : Fed(r)
    BY Identities, CopyIds DEF Init, NoCopies, Fed, Unqueued, IdleSched
  <2> QED BY <2>1, <2>2 DEF Init, FedInv, IdleSched
<1>5. BooksInv /\ UpInv /\ Known /\ (Lossless => FedInv) /\ [Next]_vars => (Lossless => FedInv)'
  <2> SUFFICES ASSUME BooksInv, UpInv, Known, Lossless => FedInv, [Next]_vars, Lossless'
               PROVE  FedInv'
    OBVIOUS
  <2>1. TypeInv /\ TypeInv'
    BY TypeStep DEF BooksInv
  <2>2. CASE UNCHANGED vars
    <3>1. FedInv
      BY <2>2 DEF vars, Lossless, Untouched
    <3> QED BY <2>1, <2>2, <3>1, FedStep DEF vars, RowGoesOn, JobGoesOn, ClaimsGoOn, FedInv
  <2>3. CASE Next
    BY <2>1, <2>3, LosslessBefore, QueueFeeds
  <2> QED BY <2>2, <2>3
<1>6. (Lossless => FedInv) => QueuedHasJob
  <2> SUFFICES ASSUME FedInv, NEW r \in Recipients, row[r] = "queued"
               PROVE  \E v \in Versions : job[JobFor(r, v)].state \in {"wait", "active"}
    BY DEF QueuedHasJob, Lossless, Losses
  <2> QED BY DEF FedInv, Fed, Decided
<1> QED BY <1>1, <1>3, <1>4, <1>5, <1>6, PTL DEF Spec
=============================================================================
