---------------------------- MODULE AlibabaSync ----------------------------
(***************************************************************************)
(* The background import of Alibaba's invalid addresses: one row of        *)
(* AlibabaSuppressionSyncState, the BullMQ jobs that work on it, the page   *)
(* loop of the worker processes, their recovery timer, and the operator's  *)
(* start, pause, resume and reset requests.                                *)
(*                                                                         *)
(* Alibaba's answer is paged: page n is asked for with cursor n, 0 stands  *)
(* for no cursor.  A page holds one record, so that counters count pages.  *)
(* Time appears only as three facts about the row: whether lockedAt and    *)
(* updatedAt are younger than two minutes and whether nextRetryAt is past. *)
(***************************************************************************)
EXTENDS Integers, FiniteSets

CONSTANTS
  Procs,        \* worker processes; each runs one job of this queue at a time
  Jobs,         \* bound: jobs that may exist at once
  Requests,     \* bound: requests of operators in flight at once
  NoLock, NoJob,
  Pages,        \* pages of the answer
  BatchPages,   \* ALIBABA_SYNC_BATCH_PAGES (50)
  MaxRetries,   \* maxRetries of the row (10)
  AutoContinue, \* those started with ALIBABA_SYNC_AUTO_CONTINUE, as they are by default
  Budgets       \* bound: how often the events of the environment may happen

\* "fail": Alibaba or the suppression tables fail; "dberror": a database or
\* Redis call outside these fails; "slow": a page takes two minutes; "repeat":
\* Alibaba hands out an old cursor; "empty": it has sent empty pages until
\* EMPTY_PARSER_FAIL_STREAK is reached; "runtime": ALIBABA_SYNC_MAX_RUNTIME_MS
\* is over; "oldrow": the row was left behind by an earlier version; "unset": a
\* job is taken by a process that was started without Alibaba credentials; the
\* others are requests of operators.
Ops == {"start", "pause", "resume", "reset"}
Events == {"crash", "fail", "dberror", "slow", "repeat", "empty", "runtime",
           "oldrow", "unset"} \cup Ops

ASSUME AlibabaAssumption ==
  /\ AutoContinue \subseteq Procs
  /\ Pages \in Nat \ {0} /\ BatchPages \in Nat \ {0} /\ MaxRetries \in Nat \ {0}
  /\ Budgets \subseteq [Events -> Nat]
  /\ NoJob \notin Jobs /\ NoLock \notin Procs \X Jobs
  \* BullMQ gives a job up when it stalls a fourth time (maxStalledCount) or
  \* throws a fifth (attempts), which is not modelled.
  /\ \A b \in Budgets : b["crash"] <= 3 /\ b["dberror"] <= 4

-----------------------------------------------------------------------------
(* State *)

VARIABLES
  row,     \* the AlibabaSuppressionSyncState row
  job,     \* alibaba_suppression_sync_queue
  ex,      \* what the worker of each process is doing
  rec,     \* what the recovery of each process is doing
  web,     \* what each request of an operator is doing
  applied, \* history: pages whose addresses were suppressed in this run
  overlap, \* history: a start or reset met a page in flight
  used     \* how often each event has happened

vars == <<row, job, ex, rec, web, applied, overlap, used>>

PageIds == 0 .. Pages - 1
SyncStatus == {"idle", "running", "retrying", "paused", "completed", "failed",
               "cancelling"}

\* The codes of lastFailureCode, by what the code does with them.  "stuck" are
\* the NextStart loop and the empty parser streak: not retried, but stored
\* under the code of a transient error.  "bullmq" exists only in old rows.
Codes == {"none", "transient", "permanent", "stuck", "bullmq"}
RetryableCodes == {"transient", "stuck", "bullmq"}

\* held and young: lockedAt and updatedAt are younger than two minutes;
\* due: nextRetryAt is null or past; seen: meta.processedNextStartHashes.
Row == [status : SyncStatus, stop : BOOLEAN, next : PageIds,
        lock : (Procs \X Jobs) \cup {NoLock}, held : BOOLEAN, young : BOOLEAN,
        due : BOOLEAN, fails : Nat, retries : Nat, code : Codes,
        seen : SUBSET PageIds, pages : Nat]

\* A job that is done is "none": its id, which holds the time, is never used
\* again.
JobState == {"none", "wait", "delayed", "active", "stalled"}

\* round: pages of this batch; at, seen, fails, retries: what was last read from
\* the row; to: the cursor of the answer; kind: the failure being recorded;
\* caught: inside the catch block.
PC == {"idle", "read", "page", "commit", "finish", "release", "pausing",
       "batch", "auto", "clear", "stopbatch", "catch", "fail", "addretry"}
Slot == [pc : PC, job : Jobs \cup {NoJob}, round : 0 .. BatchPages,
         at : PageIds, to : PageIds, seen : SUBSET PageIds,
         fails : Nat, retries : Nat, kind : Codes, caught : BOOLEAN]

Recovery == {"none", "unlock", "requeue", "enqueue"}
Web == [pc : {"idle", "write", "add", "meta", "save"}, op : Ops,
        was : SyncStatus, seen : SUBSET PageIds]

TypeOK ==
  /\ row \in Row
  /\ job \in [Jobs -> JobState]
  /\ ex \in [Procs -> Slot]
  /\ rec \in [Procs -> Recovery]
  /\ web \in [Requests -> Web]
  /\ applied \subseteq PageIds
  /\ overlap \in BOOLEAN
  /\ used \in [Events -> Nat]

IdleSlot == [pc |-> "idle", job |-> NoJob, round |-> 0, at |-> 0, to |-> 0,
             seen |-> {}, fails |-> 0, retries |-> 0, kind |-> "none",
             caught |-> FALSE]
IdleWeb == [pc |-> "idle", op |-> "start", was |-> "idle", seen |-> {}]

FreshRow == [status |-> "idle", stop |-> FALSE, next |-> 0, lock |-> NoLock,
             held |-> FALSE, young |-> FALSE, due |-> TRUE, fails |-> 0,
             retries |-> 0, code |-> "none", seen |-> {}, pages |-> 0]

\* A row that failed with a BullMQ lock error under an earlier version.
OldRow == [FreshRow EXCEPT !.status = "failed", !.code = "bullmq", !.fails = 1,
                           !.next = 1, !.seen = {1}, !.pages = 1]

\* The events that happen are within one of the budgets.
WithinBudget(n) == \E b \in Budgets : \A e \in Events : n[e] <= b[e]
NoEvents == [e \in Events |-> 0]

Init ==
  /\ \/ row = FreshRow /\ applied = {} /\ used = NoEvents
     \/ /\ Pages > 1 /\ row = OldRow /\ applied = {0}
        /\ used = [NoEvents EXCEPT !["oldrow"] = 1] /\ WithinBudget(used)
  /\ job = [j \in Jobs |-> "none"]
  /\ ex = [p \in Procs |-> IdleSlot]
  /\ rec = [p \in Procs |-> "none"]
  /\ web = [q \in Requests |-> IdleWeb]
  /\ overlap = FALSE

Spend(e) == used' = [used EXCEPT ![e] = @ + 1] /\ WithinBudget(used')

\* An UPDATE of the row; Prisma sets updatedAt with every one.
Written(r) == row' = [r EXCEPT !.young = TRUE]
Unlocked(r) == [r EXCEPT !.lock = NoLock, !.held = FALSE]

\* markPaused, and the pause after ALIBABA_SYNC_MAX_RUNTIME_MS.
Paused(r) == [Unlocked(r) EXCEPT !.status = "paused", !.stop = FALSE, !.due = TRUE]

\* A new id, which no lock owner holds.  Requests and the recovery leave one for
\* each worker, so that the bound Jobs stops nobody for good.
Free == {j \in Jobs : job[j] = "none" /\ row.lock \notin Procs \X {j}}
NewJob == CHOOSE j \in Free : TRUE
AddJob == Free # {} /\ job' = [job EXCEPT ![NewJob] = "wait"]
AddJobOutside == Cardinality(Free) > Cardinality(Procs) /\ AddJob

-----------------------------------------------------------------------------
(* The worker: processAlibabaSuppressionSync *)

\* Faulty variant: a status that may be worked on is enough.
AcquirableByStatus(p, j) ==
  row.status = "running" \/ (row.status = "retrying" /\ row.due)

\* The UPDATE of acquireAlibabaSyncLock found the row.
Acquirable(p, j) ==
  /\ row.status = "running" \/ (row.status = "retrying" /\ row.due)
  /\ row.lock \in {NoLock, <<p, j>>} \/ ~row.held

Begin(p, j) ==
  /\ ex[p].pc = "idle" /\ job[j] = "wait"
  /\ \/ /\ Acquirable(p, j)
        /\ Written([row EXCEPT !.status = "running", !.due = TRUE,
                               !.lock = <<p, j>>, !.held = TRUE])
        /\ ex' = [ex EXCEPT ![p].pc = "read", ![p].job = j]
        /\ job' = [job EXCEPT ![j] = "active"]
     \/ /\ ~Acquirable(p, j)
        /\ job' = [job EXCEPT ![j] = "none"]
        /\ UNCHANGED <<row, ex>>
  /\ UNCHANGED <<rec, web, applied, overlap, used>>

\* Without credentials the row fails, whoever works on it.
BeginUnconfigured(p, j) ==
  /\ ex[p].pc = "idle" /\ job[j] = "wait" /\ Spend("unset")
  /\ Written([Unlocked(row) EXCEPT !.status = "failed", !.due = TRUE, !.code = "permanent"])
  /\ job' = [job EXCEPT ![j] = "none"]
  /\ UNCHANGED <<ex, rec, web, applied, overlap>>

Goto(p, pc) == ex' = [ex EXCEPT ![p].pc = pc]

Return(p) ==
  /\ job' = [job EXCEPT ![ex[p].job] = "none"]
  /\ ex' = [ex EXCEPT ![p] = IdleSlot]

ReadRow(p) ==
  /\ ex[p].pc = "read"
  /\ \/ row.status # "running" /\ Goto(p, "release") /\ UNCHANGED used
     \/ row.status = "running" /\ row.stop /\ Goto(p, "pausing") /\ UNCHANGED used
     \/ row.status = "running" /\ ~row.stop /\ Spend("runtime") /\ Goto(p, "pausing")
     \/ /\ row.status = "running" /\ ~row.stop
        /\ ex' = [ex EXCEPT ![p].pc = "page", ![p].at = row.next, ![p].seen = row.seen,
                            ![p].fails = row.fails, ![p].retries = row.retries]
        /\ UNCHANGED used
  /\ UNCHANGED <<row, job, rec, web, applied, overlap>>

\* releaseLockIfHeld
Release(p) ==
  /\ ex[p].pc = "release"
  /\ IF row.lock = <<p, ex[p].job>> THEN Written(Unlocked(row)) ELSE UNCHANGED row
  /\ Return(p)
  /\ UNCHANGED <<rec, web, applied, overlap, used>>

MarkPaused(p) ==
  /\ ex[p].pc = "pausing"
  /\ Written(Paused(row))
  /\ Return(p)
  /\ UNCHANGED <<rec, web, applied, overlap, used>>

\* The cursor that comes with page n, 0 after the last page; or one that was
\* handed out before.
NextCursor(n) == IF n + 1 < Pages THEN n + 1 ELSE 0
Answers(n, to) ==
  \/ to = NextCursor(n) /\ UNCHANGED used
  \/ to \in 1 .. n /\ Spend("repeat")

\* Faulty variant: the hash of the next cursor is looked for where it was put.
PageRecordsFirst(p) ==
  /\ ex[p].pc = "page"
  /\ \E to \in PageIds :
       /\ Answers(ex[p].at, to)
       /\ ex' = IF to \in ex[p].seen \cup ({to} \ {0})
                THEN [ex EXCEPT ![p].pc = "fail", ![p].kind = "stuck"]
                ELSE [ex EXCEPT ![p].pc = "commit", ![p].to = to]
  /\ applied' = applied \cup {ex[p].at}
  /\ UNCHANGED <<row, job, rec, web, overlap>>

\* The page is fetched and its addresses suppressed.
Page(p) ==
  /\ ex[p].pc = "page"
  /\ \E to \in PageIds :
       /\ Answers(ex[p].at, to)
       /\ ex' = IF to \in ex[p].seen
                THEN [ex EXCEPT ![p].pc = "fail", ![p].kind = "stuck"]
                ELSE [ex EXCEPT ![p].pc = "commit", ![p].to = to]
  /\ applied' = applied \cup {ex[p].at}
  /\ UNCHANGED <<row, job, rec, web, overlap>>


\* The request, the answer or the suppression tables fail, or the answers have
\* been empty too often.
PageFails(p) ==
  /\ ex[p].pc = "page"
  /\ \/ \E kind \in {"transient", "permanent"} :
          Spend("fail") /\ ex' = [ex EXCEPT ![p].pc = "fail", ![p].kind = kind]
     \/ Spend("empty") /\ ex' = [ex EXCEPT ![p].pc = "fail", ![p].kind = "stuck"]
  /\ UNCHANGED <<row, job, rec, web, applied, overlap>>

\* The UPDATE at the end of a page has no condition on the row.  A batch is a
\* number of pages.
CommitTo(p, to, batch) ==
  /\ ex[p].pc = "commit"
  /\ Written([row EXCEPT
       !.status = IF to = 0 THEN "completed" ELSE "running",
       !.next = to, !.seen = ex[p].seen \cup ({to} \ {0}), !.pages = @ + 1,
       !.fails = 0, !.code = "none", !.due = TRUE, !.held = TRUE])
  /\ ex' = [ex EXCEPT ![p].round = @ + 1,
                      ![p].pc = CASE to = 0 -> "finish"
                                  [] to # 0 /\ ex[p].round + 1 < batch -> "read"
                                  [] OTHER -> "batch"]
  /\ UNCHANGED <<job, rec, web, applied, overlap, used>>

\* Faulty variants: one page too many; the cursor that came with the page is lost.
CommitOffByOne(p) == CommitTo(p, ex[p].to, BatchPages + 1)
CommitForgetful(p) == CommitTo(p, 0, BatchPages)

Commit(p) == CommitTo(p, ex[p].to, BatchPages)

Finish(p) ==
  /\ ex[p].pc = "finish"
  /\ Written([Unlocked(row) EXCEPT !.stop = FALSE])
  /\ Return(p)
  /\ UNCHANGED <<rec, web, applied, overlap, used>>

\* After BATCH_PAGES pages.
ReadBatch(p) ==
  /\ ex[p].pc = "batch"
  /\ Goto(p, CASE row.stop -> "pausing"
               [] ~row.stop /\ (row.status # "running" \/ row.next = 0) -> "clear"
               [] OTHER -> IF p \in AutoContinue THEN "auto" ELSE "stopbatch")
  /\ UNCHANGED <<row, job, rec, web, applied, overlap, used>>

\* The next job is added while this one still holds the lock.
Continue(p) ==
  /\ ex[p].pc = "auto"
  /\ AddJob
  /\ Goto(p, "clear")
  /\ UNCHANGED <<row, rec, web, applied, overlap, used>>

ClearLock(p) ==
  /\ ex[p].pc = "clear"
  /\ Written(Unlocked(row))
  /\ Return(p)
  /\ UNCHANGED <<rec, web, applied, overlap, used>>

StopBatch(p) ==
  /\ ex[p].pc = "stopbatch"
  /\ Written([Unlocked(row) EXCEPT !.status = "paused", !.due = TRUE])
  /\ Return(p)
  /\ UNCHANGED <<rec, web, applied, overlap, used>>

-----------------------------------------------------------------------------
(* Failures *)

\* finalizeFailure with what its caller has read.
FailRowWith(p, fails) ==
  LET s == ex[p]
      again == s.kind = "transient" /\ s.fails + 1 < MaxRetries
  IN /\ s.pc = "fail"
     /\ \/ /\ again
           /\ Written([Unlocked(row) EXCEPT
                !.status = "retrying", !.due = FALSE, !.code = s.kind,
                !.fails = fails, !.retries = s.retries + 1])
           /\ Goto(p, "addretry") /\ UNCHANGED job
        \/ /\ ~again
           /\ Written([Unlocked(row) EXCEPT
                !.status = "failed", !.due = TRUE, !.code = s.kind, !.fails = fails])
           /\ Return(p)
  /\ UNCHANGED <<rec, web, applied, overlap, used>>

\* Faulty variant: the failure is not counted.
FailRowUncounted(p) == FailRowWith(p, ex[p].fails)

FailRow(p) == FailRowWith(p, ex[p].fails + 1)

AddRetry(p) ==
  /\ ex[p].pc = "addretry"
  /\ Free # {}
  /\ job' = [job EXCEPT ![NewJob] = "delayed", ![ex[p].job] = "none"]
  /\ ex' = [ex EXCEPT ![p] = IdleSlot]
  /\ UNCHANGED <<row, rec, web, applied, overlap, used>>

\* An error in the try block leads to the catch block, one in the catch block
\* fails the job, which BullMQ makes wait again.
DbError(p) ==
  /\ ex[p].pc # "idle"
  /\ Spend("dberror")
  /\ IF ex[p].caught
     THEN /\ job' = [job EXCEPT ![ex[p].job] = "wait"]
          /\ ex' = [ex EXCEPT ![p] = IdleSlot]
     ELSE /\ ex' = [ex EXCEPT ![p].pc = "catch", ![p].caught = TRUE]
          /\ UNCHANGED job
  /\ UNCHANGED <<row, rec, web, applied, overlap>>

Catch(p) ==
  /\ ex[p].pc = "catch"
  /\ ex' = [ex EXCEPT ![p].pc = "fail", ![p].kind = "transient",
                      ![p].fails = row.fails, ![p].retries = row.retries]
  /\ UNCHANGED <<row, job, rec, web, applied, overlap, used>>

\* The process dies and is started again.
Crash(p) ==
  /\ ex[p].pc # "idle" \/ rec[p] # "none"
  /\ Spend("crash")
  /\ job' = IF ex[p].pc = "idle" THEN job ELSE [job EXCEPT ![ex[p].job] = "stalled"]
  /\ ex' = [ex EXCEPT ![p] = IdleSlot]
  /\ rec' = [rec EXCEPT ![p] = "none"]
  /\ UNCHANGED <<row, web, applied, overlap>>

\* BullMQ notices a stalled job when its lock expires, after 4 minutes at the
\* least (lockDuration 300 s, renewed every 60 s): lockedAt is old by then.
Unstall(j) ==
  /\ job[j] = "stalled"
  /\ ~(row.lock \in Procs \X {j} /\ row.held)
  /\ job' = [job EXCEPT ![j] = "wait"]
  /\ UNCHANGED <<row, ex, rec, web, applied, overlap, used>>

-----------------------------------------------------------------------------
(* Recovery: recoverAlibabaSyncJobs, at boot and every minute *)

\* Faulty variant: a row that is running needs no help.
AbandonedRetry == row.status = "retrying" /\ row.due

\* What the queries find.
Abandoned ==
  \/ row.status = "running" /\ ~row.young
  \/ row.status = "retrying" /\ row.due
OldLockFailure == row.status = "failed" /\ row.code = "bullmq" /\ row.next # 0
Recoverable ==
  /\ row.status = "failed" /\ row.code \in RetryableCodes
  /\ row.fails < MaxRetries /\ row.retries < MaxRetries

RecoverRead(p) ==
  /\ rec[p] = "none"
  /\ \/ OldLockFailure /\ rec' = [rec EXCEPT ![p] = "unlock"]
     \/ ~OldLockFailure /\ Recoverable /\ rec' = [rec EXCEPT ![p] = "requeue"]
     \/ Abandoned /\ rec' = [rec EXCEPT ![p] = "enqueue"]
  /\ UNCHANGED <<row, job, ex, web, applied, overlap, used>>

\* Faulty variant: a recovery begins at the first page.
RecoverAnew(p) ==
  /\ rec[p] \in {"unlock", "requeue"}
  /\ Written([Unlocked(row) EXCEPT !.status = "running", !.due = TRUE, !.next = 0])
  /\ rec' = [rec EXCEPT ![p] = "enqueue"]
  /\ UNCHANGED <<job, ex, web, applied, overlap, used>>

RecoverWrite(p) ==
  /\ \/ /\ rec[p] = "unlock"
        /\ Written([Unlocked(row) EXCEPT !.status = "running", !.code = "none",
                                         !.due = TRUE, !.fails = 0])
     \/ /\ rec[p] = "requeue"
        /\ Written([Unlocked(row) EXCEPT !.status = "retrying", !.due = TRUE])
  /\ rec' = [rec EXCEPT ![p] = "enqueue"]
  /\ UNCHANGED <<job, ex, web, applied, overlap, used>>

RecoverAdd(p) ==
  /\ rec[p] = "enqueue"
  /\ AddJobOutside
  /\ rec' = [rec EXCEPT ![p] = "none"]
  /\ UNCHANGED <<row, ex, web, applied, overlap, used>>

-----------------------------------------------------------------------------
(* Requests of operators *)

\* The read, and the conditions under which a request does anything.
Accepts(op) ==
  CASE op = "start"  -> row.status \notin {"running", "cancelling", "retrying"}
    [] op = "pause"  -> row.status \in {"running", "retrying"}
    [] op = "resume" ->
         /\ row.status \notin {"running", "cancelling"}
         /\ \/ row.status = "retrying" \/ row.next # 0
            \/ row.pages \notin 1 .. Pages - 1
    [] op = "reset"  -> TRUE

Ask(q, op) ==
  /\ web[q].pc = "idle" /\ Accepts(op)
  /\ Spend(op)
  /\ web' = [web EXCEPT ![q].pc = "write", ![q].op = op, ![q].was = row.status]
  /\ UNCHANGED <<row, job, ex, rec, applied, overlap>>

InPage(p) == ex[p].pc \in {"page", "commit"}

\* Start and reset clear the row, whatever a worker is doing with it.
Clear(q) ==
  /\ web[q].pc = "write" /\ web[q].op \in {"start", "reset"}
  /\ \/ /\ web[q].op = "start"
        /\ Written([FreshRow EXCEPT !.status = "running"])
        /\ web' = [web EXCEPT ![q].pc = "add"]
     \/ /\ web[q].op = "reset"
        /\ Written(FreshRow)
        /\ web' = [web EXCEPT ![q] = IdleWeb]
  /\ applied' = {}
  /\ overlap' = (overlap \/ \E p \in Procs : InPage(p))
  /\ UNCHANGED <<job, ex, rec, used>>

PauseRow(q) ==
  /\ web[q].pc = "write" /\ web[q].op = "pause"
  /\ Written(IF web[q].was = "retrying" THEN Paused(row)
             ELSE [row EXCEPT !.status = "cancelling", !.stop = TRUE])
  /\ web' = [web EXCEPT ![q] = IdleWeb]
  /\ UNCHANGED <<job, ex, rec, applied, overlap, used>>

ResumeRow(q) ==
  /\ web[q].pc = "write" /\ web[q].op = "resume"
  /\ Written([row EXCEPT !.status = "running", !.stop = FALSE, !.due = TRUE,
                         !.fails = 0, !.retries = 0, !.code = "none"])
  /\ web' = [web EXCEPT ![q].pc = "add"]
  /\ UNCHANGED <<job, ex, rec, applied, overlap, used>>

\* enqueueSyncJob: the job is added, then meta is read and written back.
AddSyncJob(q) ==
  /\ web[q].pc = "add"
  /\ AddJobOutside
  /\ web' = [web EXCEPT ![q].pc = "meta"]
  /\ UNCHANGED <<row, ex, rec, applied, overlap, used>>

ReadMeta(q) ==
  /\ web[q].pc = "meta"
  /\ web' = [web EXCEPT ![q].pc = "save", ![q].seen = row.seen]
  /\ UNCHANGED <<row, job, ex, rec, applied, overlap, used>>

SaveMeta(q) ==
  /\ web[q].pc = "save"
  /\ Written([row EXCEPT !.seen = web[q].seen])
  /\ web' = [web EXCEPT ![q] = IdleWeb]
  /\ UNCHANGED <<job, ex, rec, applied, overlap, used>>

-----------------------------------------------------------------------------
(* Time *)

\* Two minutes pass without a write to the row: while no worker is in the loop,
\* or during a slow page.
TwoMinutes ==
  /\ row.held \/ row.young
  /\ \/ (\A p \in Procs : ex[p].pc = "idle") /\ UNCHANGED used
     \/ (\E p \in Procs : ex[p].pc = "page") /\ Spend("slow")
  /\ row' = [row EXCEPT !.held = FALSE, !.young = FALSE]
  /\ UNCHANGED <<job, ex, rec, web, applied, overlap>>

RetryDue ==
  /\ ~row.due
  /\ row' = [row EXCEPT !.due = TRUE]
  /\ UNCHANGED <<job, ex, rec, web, applied, overlap, used>>

\* The delay of a retry job is over no earlier than nextRetryAt.
Promote(j) ==
  /\ job[j] = "delayed" /\ row.due
  /\ job' = [job EXCEPT ![j] = "wait"]
  /\ UNCHANGED <<row, ex, rec, web, applied, overlap, used>>

-----------------------------------------------------------------------------
(* Specification *)

\* A step of a job that has begun.
Step(p) ==
  \/ ReadRow(p) \/ Release(p) \/ MarkPaused(p) \/ Page(p) \/ PageFails(p)
  \/ Commit(p) \/ Finish(p) \/ ReadBatch(p) \/ Continue(p) \/ ClearLock(p)
  \/ StopBatch(p) \/ Catch(p) \/ FailRow(p) \/ AddRetry(p)

Take(p) == \E j \in Jobs : Begin(p, j) \/ BeginUnconfigured(p, j)
Recover(p) == RecoverRead(p) \/ RecoverWrite(p) \/ RecoverAdd(p)
Serve(q) ==
  Clear(q) \/ PauseRow(q) \/ ResumeRow(q) \/ AddSyncJob(q) \/ ReadMeta(q) \/ SaveMeta(q)

Next ==
  \/ \E p \in Procs : Step(p) \/ Take(p) \/ Recover(p) \/ DbError(p) \/ Crash(p)
  \/ \E q \in Requests : Serve(q) \/ \E op \in Ops : Ask(q, op)
  \/ \E j \in Jobs : Unstall(j) \/ Promote(j)
  \/ TwoMinutes \/ RetryDue

Spec == Init /\ [][Next]_vars

\* Workers, the recovery timer, requests under way, time and the queue go on.
\* Nothing is assumed of operators, failures and crashes.
Fairness ==
  /\ \A p \in Procs : WF_vars(Step(p)) /\ WF_vars(Take(p)) /\ WF_vars(Recover(p))
  /\ \A q \in Requests : WF_vars(Serve(q))
  /\ \A j \in Jobs : WF_vars(Unstall(j)) /\ WF_vars(Promote(j))
  /\ WF_vars(TwoMinutes) /\ WF_vars(RetryDue)

FairSpec == Spec /\ Fairness

-----------------------------------------------------------------------------
(* Properties *)

\* "Completed" is the truth: every page of the answer has been fetched and its
\* addresses suppressed since the start, through crashes, failures, slow pages
\* with two workers on one cursor, pause and resume -- unless a start or reset
\* has met a page in flight.
CompletedIsComplete ==
  row.status = "completed" /\ ~overlap => applied = PageIds

\* The place after the last successful page is kept: the cursor moves back
\* only by a start or a reset, which zero the counters, or at the end.
PlaceIsKept ==
  [][\/ row'.next >= row.next
     \/ row'.status = "completed" \/ row'.pages = 0]_vars

\* One start, and then crashes, failed pages, or pauses and the time limit: no
\* page that takes more than two minutes, no error in the bookkeeping, no process
\* without credentials, no row that has failed and is recovered, by two processes
\* perhaps, and no pause that was meant for a retry.
Undisturbed ==
  /\ used["start"] + used["reset"] <= 1
  /\ \A e \in {"slow", "resume", "repeat", "empty", "dberror", "unset", "oldrow"} : used[e] = 0
  /\ used["pause"] = 0 \/ used["fail"] = 0

\* Two workers never have a page in flight at once: the row's lock holds them
\* apart although failed pages, pauses and the batch end clear it blindly, and
\* although retries, recoveries and requests all add jobs.
OnePageAtATime ==
  Undisturbed => \A p, q \in Procs : InPage(p) /\ InPage(q) => p = q

\* A row whose pages come with ever new cursors is not failed by the loop
\* detection, whatever stale hashes a request writes back.
NoFalseAlarm == Undisturbed => row.code # "stuck"

\* A started synchronization does not hang: it ends, pauses or fails for good,
\* even if its worker dies or the job it adds for itself is dropped.
SyncSettles == <>[](row.status \notin {"running", "retrying"})

\* A pause takes effect: the row does not stay "cancelling".
PauseSettles == row.status = "cancelling" ~> row.status # "cancelling"
=============================================================================
