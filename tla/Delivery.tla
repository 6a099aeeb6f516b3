------------------------------ MODULE Delivery ------------------------------
(***************************************************************************)
(* The delivery pipeline of one campaign: the fair scheduler's dispatch    *)
(* loop, the BullMQ delivery and retry queues, the delivery processor of   *)
(* several worker processes, the boot recovery and shutdown hooks of a     *)
(* worker, and the operator's pause, resume and cancel.                    *)
(*                                                                         *)
(* Campaigns share nothing that matters here, so one campaign is modelled. *)
(* Time is left out: whatever the code delays (250 ms, back-off, 2 and 10  *)
(* minute ages, TTLs) may here take any time at all.                       *)
(***************************************************************************)
EXTENDS Integers, FiniteSets

CONSTANTS
  Recipients,   \* the campaign's CampaignRecipient rows
  Procs,        \* worker processes (docker compose --scale worker=2)
  Workers,      \* slots of the BullMQ delivery workers
  Home,         \* the process a slot belongs to
  NoJob,
  Attempts,     \* BullMQ "attempts" of a delivery job (5 in the code)
  RetryCount,   \* smtp_pool_settings.retryCount (default 5)
  MaxFails,     \* bound: delivery attempts that throw
  MaxVersion,   \* bound: versions of the campaign's template
  Budgets       \* bound: how often the events of the environment may happen

\* Environment events whose number is bounded by Budgets:
\* those that happen, and the attempts that throw, are within one of the
\* budgets.  "dberror" is a database error that the code swallows or meets while
\* it handles another; "edit" a change of the template, which gives it a new
\* version; "skip" a change of what a suppression, unsubscribe or quota check
\* answers.
Events == {"dberror", "crash", "stop", "evict", "edit", "skip", "pause", "cancel"}

\* <<r, v, 0>> is the job with the deterministic id, which is made of the
\* recipient and of the template's version; <<r, v, n>> is the retry copy made
\* of such a job for the n-th attempt that threw.
Versions == 1 .. MaxVersion
JobIds == Recipients \X Versions \X (0 .. MaxFails)
JobFor(r, v) == <<r, v, 0>>

ASSUME DeliveryAssumption ==
  /\ IsFiniteSet(Recipients) /\ IsFiniteSet(Workers)
  /\ Attempts \in Nat \ {0}
  /\ RetryCount \in Nat \ {0}
  /\ MaxFails \in Nat
  /\ MaxVersion \in Nat \ {0}
  /\ Home \in [Workers -> Procs]
  /\ Budgets \subseteq [Events \cup {"throw"} -> Nat]
  \* BullMQ fails a job that stalls a second time (maxStalledCount is 1), which
  \* is not modelled.
  /\ \A b \in Budgets : b["crash"] <= 1
  /\ NoJob \notin JobIds

-----------------------------------------------------------------------------
(* State *)

VARIABLES
  status,     \* Campaign.status
  row,        \* CampaignRecipient.sendStatus
  total,      \* Campaign.totalSent, totalFailed, totalSkipped
  logged,     \* "sent" rows of CampaignLog: recipient, version and form of the key
  mails,      \* messages the SMTP server accepted, per recipient
  job,        \* delivery_queue and retry_queue
  dead,       \* recipients in dead_letter_queue
  ex,         \* what every delivery slot is doing
  sched,      \* the scheduler's and the recovery's local state per process
  phase,      \* life of a worker process
  version,    \* MailTemplate.version of the campaign's template
  suppressed, \* recipients whose address a suppression or quota check refuses
  cancel,     \* progress of cancelCampaign
  fails,      \* attempts that threw so far
  used        \* how often each event of the environment has happened

data == <<status, row, total, logged, mails>>
vars == <<status, row, total, logged, mails, job, dead, ex, sched, phase,
          version, suppressed, cancel, fails, used>>

SendStatus == {"pending", "queued", "sent", "failed", "skipped"}
Done == {"completed", "partially_completed", "canceled"}
CampaignStatus == {"queued", "running", "paused"} \cup Done

\* The queue states of a job.  "wait" stands for waiting, delayed and
\* prioritized; "retry" for a copy that is still in retry_queue; "none" for an
\* id that the queue does not hold, so that add() would create it.
JobState == {"none", "retry", "wait", "active", "completed", "failed"}
Job == [state : JobState, made : Nat, attempt : Nat,
        key : {"hashed", "plain"}]

\* "sentfin" is "fin" inside the try block, after a mail.
PC == {"idle", "row", "claim", "gate", "mail", "commit", "count", "log",
       "sentfin", "fail", "failcount", "skipcount", "fin", "finwrite"}
Slot == [pc : PC, job : JobIds \cup {NoJob}, seen : CampaignStatus,
         verdict : {"completed", "partially_completed"}, bad : Nat]

\* cached and ver: the campaign's status and template version as the 10 s cache
\* holds them; picks: the pending rows of this tick; claims: rows whose job is
\* added and whose claim is still to come; lost: rows the recovery still has to
\* reset; boot: jobs it still has to add.
Sched == [cached : {"none", "queued", "running"}, ver : Versions,
          picks : SUBSET Recipients, claims : SUBSET Recipients,
          lost : SUBSET Recipients, boot : SUBSET JobIds]

TypeOK ==
  /\ status \in CampaignStatus
  /\ row \in [Recipients -> SendStatus]
  /\ total \in [sent : Nat, failed : Nat, skipped : Nat]
  /\ logged \subseteq Recipients \X Versions \X {"hashed", "plain"}
  /\ mails \in [Recipients -> Nat]
  /\ job \in [JobIds -> Job]
  /\ dead \subseteq Recipients
  /\ ex \in [Workers -> Slot]
  /\ sched \in [Procs -> Sched]
  /\ phase \in [Procs -> {"up", "stopping", "down"}]
  /\ version \in Versions
  /\ suppressed \subseteq Recipients
  /\ cancel \in {"none", "jobs", "rows"}
  /\ fails \in 0 .. MaxFails
  /\ used \in [Events -> Nat]

Unqueued == [state |-> "none", made |-> 0, attempt |-> 1, key |-> "hashed"]
IdleSlot == [pc |-> "idle", job |-> NoJob, seen |-> "running",
             verdict |-> "completed", bad |-> 0]
IdleSched == [cached |-> "none", ver |-> 1, picks |-> {}, claims |-> {},
              lost |-> {}, boot |-> {}]

\* A campaign whose recipients are imported: running, or left "queued" by a
\* start that failed after its first import chunk.
Init ==
  /\ status \in {"running", "queued"}
  /\ row = [r \in Recipients |-> "pending"]
  /\ total = [sent |-> 0, failed |-> 0, skipped |-> 0]
  /\ logged = {}
  /\ mails = [r \in Recipients |-> 0]
  /\ job = [j \in JobIds |-> Unqueued]
  /\ dead = {}
  /\ ex = [w \in Workers |-> IdleSlot]
  /\ sched = [p \in Procs |-> IdleSched]
  /\ phase = [p \in Procs |-> "up"]
  /\ version = 1
  /\ suppressed = {}
  /\ cancel = "none"
  /\ fails = 0
  /\ used = [e \in Events |-> 0]

-----------------------------------------------------------------------------
(* The recipient's state machine and the queue *)

AllowedFrom(to) ==
  CASE to = "queued"  -> {"pending", "failed"}
    [] to = "sent"    -> {"queued"}
    [] to = "failed"  -> {"queued"}
    [] to = "skipped" -> {"pending", "queued", "failed"}
    [] OTHER          -> {}

\* transitionCampaignRecipientStatus: one conditional UPDATE; it reports
\* whether it changed the row.
CanMove(r, to) == row[r] \in AllowedFrom(to)
Moved(r, to) == IF CanMove(r, to) THEN [row EXCEPT ![r] = to] ELSE row

\* add() with a jobId: ignored when the queue still holds that id, in whatever
\* state, completed and failed jobs included.
Added(j, key) ==
  IF job[j].state = "none"
  THEN [job EXCEPT ![j] = [state |-> "wait", made |-> 0, attempt |-> 1, key |-> key]]
  ELSE job

Within(counts, throws) ==
  \E b \in Budgets : throws <= b["throw"] /\ \A e \in Events : counts[e] <= b[e]
Spend(e) ==
  /\ used' = [used EXCEPT ![e] = @ + 1]
  /\ Within(used', fails)

DbError(failed) == IF failed THEN Spend("dberror") ELSE UNCHANGED used

Pending == {r \in Recipients : row[r] = "pending"}
Open == {r \in Recipients : row[r] \in {"pending", "queued"}}

-----------------------------------------------------------------------------
(* Scheduler: dispatchFairBatch in every worker process *)

\* The active campaigns come from the cache or from the database; the pending
\* rows are read afresh.  Picks the previous tick did not enqueue (no lane
\* free, dispatch lock taken, no SMTP account) are dropped with it.
Active == IF status \in {"running", "queued"} THEN status ELSE "none"
Tick(p) ==
  /\ phase[p] = "up" /\ sched[p].claims = {}
  /\ \E s \in {sched[p], [sched[p] EXCEPT !.cached = Active, !.ver = version]} :
       sched' = [sched EXCEPT
                   ![p] = [s EXCEPT !.picks = IF s.cached = "none" THEN {} ELSE Pending]]
  /\ UNCHANGED <<data, job, dead, ex, phase, version, suppressed, cancel, fails, used>>

\* Faulty variant: the row is claimed although its job was never added.
EnqueueLost(p, r) ==
  /\ phase[p] # "down" /\ r \in sched[p].picks
  /\ sched' = [sched EXCEPT ![p].picks = @ \ {r}, ![p].claims = @ \cup {r}]
  /\ UNCHANGED <<data, job, dead, ex, phase, version, suppressed, cancel, fails, used>>

\* A pick: the campaign the tick saw as queued is switched to running, and the
\* job is added BEFORE the row is claimed.  The dispatch lock does not order two
\* processes: it expires after 2 s and the backfill does not take it.
Enqueue(p, r) ==
  /\ phase[p] # "down" /\ r \in sched[p].picks
  /\ status' = IF status = "queued" /\ sched[p].cached = "queued"
               THEN "running" ELSE status
  /\ job' = Added(JobFor(r, sched[p].ver), "hashed")
  /\ sched' = [sched EXCEPT ![p].picks = @ \ {r}, ![p].claims = @ \cup {r}]
  /\ UNCHANGED <<row, total, logged, mails, dead, ex, phase, version, suppressed,
                 cancel, fails, used>>

\* The backfill enqueues pending rows without a look at the campaign's status.
Backfill(p, r) ==
  /\ phase[p] # "down" /\ r \in sched[p].picks
  /\ job' = Added(JobFor(r, sched[p].ver), "hashed")
  /\ sched' = [sched EXCEPT ![p].picks = @ \ {r}, ![p].claims = @ \cup {r}]
  /\ UNCHANGED <<data, dead, ex, phase, version, suppressed, cancel, fails, used>>

\* An error here is logged, and the row stays as it is.
ClaimEnqueued(p, r) ==
  /\ phase[p] # "down" /\ r \in sched[p].claims
  /\ \E failed \in BOOLEAN :
       DbError(failed) /\ row' = IF failed THEN row ELSE Moved(r, "queued")
  /\ sched' = [sched EXCEPT ![p].claims = @ \ {r}]
  /\ UNCHANGED <<status, total, logged, mails, job, dead, ex, phase,
                 version, suppressed, cancel, fails>>

\* Faulty variant: requeues without the deterministic id, so that a job that is
\* still there is no obstacle.
RequeueUnderNewId(p, r) ==
  /\ phase[p] # "down" /\ sched[p].cached # "none"
  /\ row[r] = "queued"
  /\ job' = [job EXCEPT ![JobFor(r, sched[p].ver)] =
                [state |-> "wait", made |-> 0, attempt |-> 1, key |-> "hashed"]]
  /\ UNCHANGED <<data, dead, ex, sched, phase, version, suppressed, cancel, fails, used>>

\* A row that has been queued for more than two minutes gets its job again, or
\* a second one if the template has a new version since.
RequeueStale(p, r) ==
  /\ phase[p] # "down" /\ sched[p].cached # "none"
  /\ row[r] = "queued"
  /\ job' = Added(JobFor(r, sched[p].ver), "hashed")
  /\ UNCHANGED <<data, dead, ex, sched, phase, version, suppressed, cancel, fails, used>>

-----------------------------------------------------------------------------
(* Delivery processor *)

Target(w) == ex[w].job[1]

\* processDelivery returned: the job is kept as completed.
JobDone(w) ==
  /\ job' = [job EXCEPT ![ex[w].job].state = "completed"]
  /\ ex' = [ex EXCEPT ![w] = IdleSlot]
  /\ UNCHANGED dead

\* processDelivery threw.  BullMQ runs the job again while attempts remain AND
\* the "failed" listener puts a copy into retry_queue, after every attempt and
\* not only after the last; past retryCount it goes to the dead letter queue.
JobThrew(w, n) ==
  LET j == ex[w].job
      attempt == job[j].attempt
      again == [job EXCEPT
                 ![j].state = IF job[j].made + 1 < Attempts THEN "wait" ELSE "failed",
                 ![j].made = @ + 1]
      copy == [state |-> "retry", made |-> 0, attempt |-> attempt + 1,
               key |-> job[j].key]
  IN /\ job' = IF attempt + 1 <= RetryCount
               THEN [again EXCEPT ![<<j[1], j[2], n>>] = copy] ELSE again
     /\ dead' = IF attempt + 1 <= RetryCount THEN dead ELSE dead \cup {j[1]}
     /\ ex' = [ex EXCEPT ![w] = IdleSlot]

Finish(w) == IF ex[w].bad = 0 THEN JobDone(w) ELSE JobThrew(w, ex[w].bad)

Goto(w, pc) == ex' = [ex EXCEPT ![w].pc = pc] /\ UNCHANGED <<job, dead>>

Key(j) == <<j[1], j[2], job[j].key>>
Logged(j) == Key(j) \in logged

\* A job is fetched, its idempotency key is not in the log (or the look-up timed
\* out, which counts as not found), and the campaign is read; the status seen
\* here is the one every later check uses.
Begin(w, j) ==
  /\ phase[Home[w]] # "down" /\ ex[w].pc = "idle" /\ job[j].state = "wait"
  /\ DbError(Logged(j))
  /\ job' = [job EXCEPT ![j].state = "active"]
  /\ ex' = [ex EXCEPT ![w] = [IdleSlot EXCEPT !.pc = "row", !.job = j,
                                              !.seen = status]]
  /\ UNCHANGED <<data, dead, sched, phase, version, suppressed, cancel, fails>>

\* The early returns before the row is read: the key is in the log already, or
\* the campaign look-up failed (it answers null) or found it deleted.
BeginReturns(w, j) ==
  /\ phase[Home[w]] # "down" /\ ex[w].pc = "idle" /\ job[j].state = "wait"
  /\ DbError(~Logged(j))
  /\ job' = [job EXCEPT ![j].state = "completed"]
  /\ UNCHANGED <<data, dead, ex, sched, phase, version, suppressed, cancel, fails>>

ReadRow(w) ==
  /\ ex[w].pc = "row"
  /\ \/ row[Target(w)] \in {"sent", "failed", "skipped"} /\ JobDone(w)
     \/ row[Target(w)] = "pending" /\ Goto(w, "claim")
     \/ row[Target(w)] = "queued" /\ Goto(w, "gate")
  /\ UNCHANGED <<data, sched, phase, version, suppressed, cancel, fails, used>>

\* The claim of a row that is still pending; an error is swallowed.
ClaimRow(w) ==
  /\ ex[w].pc = "claim"
  /\ \E failed \in BOOLEAN :
       DbError(failed) /\ row' = IF failed THEN row ELSE Moved(Target(w), "queued")
  /\ Goto(w, "gate")
  /\ UNCHANGED <<status, total, logged, mails, sched, phase, version, suppressed,
                 cancel, fails>>

\* A database error, a missing recipient or template, no eligible SMTP account,
\* or no rate token within a minute: thrown outside the try block, so the row
\* stays as it is.
ThrowEarly(w) ==
  /\ ex[w].pc \in {"row", "claim", "gate", "mail", "skipcount", "fin"}
  /\ ex[w].bad = 0 /\ fails < MaxFails /\ Within(used, fails + 1)
  /\ fails' = fails + 1
  /\ JobThrew(w, fails + 1)
  /\ UNCHANGED <<data, sched, phase, version, suppressed, cancel, used>>

\* The campaign was not running when the job began, or the address is
\* suppressed, inactive or over its SMTP quota: the row is skipped for good.
SkipRow(w) ==
  /\ ex[w].pc = "gate"
  /\ ex[w].seen # "running" \/ Target(w) \in suppressed
  /\ row' = Moved(Target(w), "skipped")
  /\ Goto(w, IF CanMove(Target(w), "skipped") THEN "skipcount" ELSE "fin")
  /\ UNCHANGED <<status, total, logged, mails, sched, phase, version, suppressed,
                 cancel, fails, used>>

CountSkipped(w) ==
  /\ ex[w].pc = "skipcount"
  /\ total' = [total EXCEPT !.skipped = @ + 1]
  /\ Goto(w, "fin")
  /\ UNCHANGED <<status, row, logged, mails, sched, phase, version, suppressed, cancel,
                 fails, used>>

\* Faulty variant: the campaign's status is not looked at.
PassGateAnyStatus(w) ==
  /\ ex[w].pc = "gate" /\ Target(w) \notin suppressed
  /\ Goto(w, "mail")
  /\ UNCHANGED <<data, sched, phase, version, suppressed, cancel, fails, used>>

\* Faulty variant: the row is marked sent without waiting for sendMail.
PassGateUnsent(w) ==
  /\ ex[w].pc = "gate"
  /\ ex[w].seen = "running" /\ Target(w) \notin suppressed
  /\ Goto(w, "commit")
  /\ UNCHANGED <<data, sched, phase, version, suppressed, cancel, fails, used>>

PassGate(w) ==
  /\ ex[w].pc = "gate"
  /\ ex[w].seen = "running" /\ Target(w) \notin suppressed
  /\ Goto(w, "mail")
  /\ UNCHANGED <<data, sched, phase, version, suppressed, cancel, fails, used>>

\* sendMail resolves, after a wait for a rate token of up to a minute.
SendMail(w) ==
  /\ ex[w].pc = "mail"
  /\ mails' = [mails EXCEPT ![Target(w)] = @ + 1]
  /\ Goto(w, "commit")
  /\ UNCHANGED <<status, row, total, logged, sched, phase, version, suppressed, cancel,
                 fails, used>>

\* Inside the try block: sendMail rejects, or a statement after it does.
ThrowInTry(w) ==
  /\ ex[w].pc \in {"mail", "commit", "count", "sentfin"}
  /\ fails < MaxFails /\ Within(used, fails + 1)
  /\ fails' = fails + 1
  /\ ex' = [ex EXCEPT ![w].pc = "fail", ![w].bad = fails + 1]
  /\ UNCHANGED <<data, job, dead, sched, phase, version, suppressed, cancel, used>>

\* Faulty variant: counts and logs whether or not the UPDATE hit the row.
CommitUnchecked(w) ==
  /\ ex[w].pc = "commit"
  /\ row' = Moved(Target(w), "sent")
  /\ Goto(w, "count")
  /\ UNCHANGED <<status, total, logged, mails, sched, phase, version, suppressed,
                 cancel, fails, used>>

\* The row becomes "sent"; when it is no longer queued the job just returns.
CommitSent(w) ==
  /\ ex[w].pc = "commit"
  /\ row' = Moved(Target(w), "sent")
  /\ IF CanMove(Target(w), "sent") THEN Goto(w, "count") ELSE JobDone(w)
  /\ UNCHANGED <<status, total, logged, mails, sched, phase, version, suppressed,
                 cancel, fails, used>>

CountSent(w) ==
  /\ ex[w].pc = "count"
  /\ total' = [total EXCEPT !.sent = @ + 1]
  /\ Goto(w, "log")
  /\ UNCHANGED <<status, row, logged, mails, sched, phase, version, suppressed, cancel,
                 fails, used>>

\* safeCreateCampaignLog swallows its errors.
LogSent(w) ==
  /\ ex[w].pc = "log"
  /\ \E failed \in BOOLEAN :
       /\ DbError(failed)
       /\ logged' = IF failed THEN logged
                    ELSE logged \cup {Key(ex[w].job)}
  /\ Goto(w, "sentfin")
  /\ UNCHANGED <<status, row, total, mails, sched, phase, version, suppressed, cancel, fails>>

\* Inside the catch block: the UPDATE of the row, or that of the counter, throws.
ThrowInCatch(w) ==
  /\ ex[w].pc \in {"fail", "failcount"}
  /\ Spend("dberror")
  /\ JobThrew(w, ex[w].bad)
  /\ UNCHANGED <<data, sched, phase, version, suppressed, cancel, fails>>

MarkFailed(w) ==
  /\ ex[w].pc = "fail"
  /\ row' = Moved(Target(w), "failed")
  /\ Goto(w, IF CanMove(Target(w), "failed") THEN "failcount" ELSE "fin")
  /\ UNCHANGED <<status, total, logged, mails, sched, phase, version, suppressed,
                 cancel, fails, used>>

CountFailed(w) ==
  /\ ex[w].pc = "failcount"
  /\ total' = [total EXCEPT !.failed = @ + 1]
  /\ Goto(w, "fin")
  /\ UNCHANGED <<status, row, logged, mails, sched, phase, version, suppressed, cancel,
                 fails, used>>

\* Faulty variant: the test for pending rows is inverted.
FinalizeWhilePending(w) ==
  /\ ex[w].pc \in {"fin", "sentfin"}
  /\ IF Pending = {}
     THEN Finish(w)
     ELSE /\ ex' = [ex EXCEPT ![w].pc = "finwrite"]
          /\ UNCHANGED <<job, dead>>
  /\ UNCHANGED <<data, sched, phase, version, suppressed, cancel, fails, used>>

\* finalizeCampaignIfDone, first half: rows that are queued or in another slot
\* are not counted, and the verdict is computed from the counters read here; a
\* look-up of the campaign that fails answers null, and nothing is finalized.
FinalizeRead(w) ==
  /\ ex[w].pc \in {"fin", "sentfin"}
  /\ \E failed \in BOOLEAN :
       /\ DbError(failed)
       /\ IF failed \/ Pending # {}
          THEN Finish(w)
          ELSE /\ ex' = [ex EXCEPT
                    ![w].pc = "finwrite",
                    ![w].verdict = IF total.failed > 0 \/ total.skipped > 0
                                   THEN "partially_completed" ELSE "completed"]
               /\ UNCHANGED <<job, dead>>
  /\ UNCHANGED <<data, sched, phase, version, suppressed, cancel, fails>>

\* Faulty variant: a campaign without a counted message is reported failed, a
\* status this pipeline never gives.
FinalizeFailed(w) ==
  /\ ex[w].pc = "finwrite"
  /\ status' = IF total.sent = 0 THEN "failed" ELSE ex[w].verdict
  /\ Finish(w)
  /\ UNCHANGED <<row, total, logged, mails, sched, phase, version, suppressed, cancel,
                 fails, used>>

\* Second half: an UPDATE that does not look at the status it overwrites.
FinalizeWrite(w) ==
  /\ ex[w].pc = "finwrite"
  /\ status' = ex[w].verdict
  /\ Finish(w)
  /\ UNCHANGED <<row, total, logged, mails, sched, phase, version, suppressed, cancel,
                 fails, used>>

Process(w) ==
  \/ ReadRow(w) \/ ClaimRow(w) \/ SkipRow(w) \/ CountSkipped(w) \/ PassGate(w)
  \/ SendMail(w) \/ CommitSent(w) \/ CountSent(w) \/ LogSent(w)
  \/ MarkFailed(w) \/ CountFailed(w) \/ FinalizeRead(w) \/ FinalizeWrite(w)

-----------------------------------------------------------------------------
(* Queues *)

\* processRetry: the copy moves to delivery_queue, under an id of its own.
MoveRetry(j) ==
  /\ job[j].state = "retry" /\ \E p \in Procs : phase[p] # "down"
  /\ job' = [job EXCEPT ![j].state = "wait"]
  /\ UNCHANGED <<data, dead, ex, sched, phase, version, suppressed, cancel, fails, used>>

\* removeOnComplete / removeOnFail push an old job out, or an administrator
\* cleans the finished jobs.
Evict(j) ==
  /\ job[j].state \in {"completed", "failed"} /\ Spend("evict")
  /\ job' = [job EXCEPT ![j].state = "none"]
  /\ UNCHANGED <<data, dead, ex, sched, phase, version, suppressed, cancel, fails>>

-----------------------------------------------------------------------------
(* Worker processes *)

\* A process dies; BullMQ finds its jobs stalled and makes them wait again.
Crash(p) ==
  /\ phase[p] # "down" /\ Spend("crash")
  /\ phase' = [phase EXCEPT ![p] = "down"]
  /\ sched' = [sched EXCEPT ![p] = IdleSched]
  /\ ex' = [w \in Workers |-> IF Home[w] = p THEN IdleSlot ELSE ex[w]]
  /\ job' = [j \in JobIds |->
              IF \E w \in Workers : Home[w] = p /\ ex[w].job = j
              THEN [job[j] EXCEPT !.state = "wait"] ELSE job[j]]
  /\ UNCHANGED <<data, dead, version, suppressed, cancel, fails>>

Recoverable == {"running", "queued", "partially_completed"}

\* Faulty variant: shutdown resets every row that was ever enqueued.
ShutdownResetsAll(p) ==
  /\ phase[p] = "up" /\ Spend("stop")
  /\ phase' = [phase EXCEPT ![p] = "stopping"]
  /\ row' = [r \in Recipients |->
              IF status \in Recoverable /\ row[r] \in {"queued", "sent"}
              THEN "pending" ELSE row[r]]
  /\ UNCHANGED <<status, total, logged, mails, job, dead, ex, sched,
                 version, suppressed, cancel, fails>>

\* SIGTERM: queued rows go back to pending although deliveries are in flight
\* (an error of this UPDATE is swallowed); no new tick starts, and the process
\* ends when its slots are idle.
Shutdown(p) ==
  /\ phase[p] = "up" /\ Spend("stop")
  /\ phase' = [phase EXCEPT ![p] = "stopping"]
  /\ \/ UNCHANGED row
     \/ row' = [r \in Recipients |->
                 IF status \in Recoverable /\ row[r] = "queued" THEN "pending" ELSE row[r]]
  /\ UNCHANGED <<status, total, logged, mails, job, dead, ex, sched,
                 version, suppressed, cancel, fails>>

Exit(p) ==
  /\ phase[p] = "stopping"
  /\ \A w \in Workers : Home[w] = p => ex[w].pc = "idle"
  /\ phase' = [phase EXCEPT ![p] = "down"]
  /\ sched' = [sched EXCEPT ![p] = IdleSched]
  /\ UNCHANGED <<data, job, dead, ex, version, suppressed, cancel, fails, used>>

\* recoverCampaignQueuesOnBoot reads the open rows and the live jobs, and takes
\* for lost the rows queued for more than ten minutes without a live job of the
\* template's present version.  The
\* scheduler's interval is started at the same time.
Live(r) == job[JobFor(r, version)].state \in {"wait", "active"}
Boot(p) ==
  /\ phase[p] = "down"
  /\ phase' = [phase EXCEPT ![p] = "up"]
  /\ \E lost \in SUBSET {r \in Recipients : row[r] = "queued" /\ ~Live(r)} :
       sched' = IF status \in Recoverable
                THEN [sched EXCEPT ![p] = [IdleSched EXCEPT
                        !.boot = {JobFor(r, version) : r \in Open}, !.lost = lost]]
                ELSE sched
  /\ UNCHANGED <<data, job, dead, ex, version, suppressed, cancel, fails, used>>

\* A lost row becomes pending if it is queued still.
ResetLost(p, r) ==
  /\ phase[p] # "down" /\ r \in sched[p].lost
  /\ row' = IF row[r] = "queued" THEN [row EXCEPT ![r] = "pending"] ELSE row
  /\ sched' = [sched EXCEPT ![p].lost = @ \ {r}]
  /\ UNCHANGED <<status, total, logged, mails, job, dead, ex, phase, version, suppressed,
                 cancel, fails, used>>

\* Then every open row gets its job, with another form of key.
RecoverRow(p, j) ==
  /\ phase[p] # "down" /\ sched[p].lost = {} /\ j \in sched[p].boot
  /\ job' = Added(j, "plain")
  /\ sched' = [sched EXCEPT ![p].boot = @ \ {j}]
  /\ UNCHANGED <<data, dead, ex, phase, version, suppressed, cancel, fails, used>>

-----------------------------------------------------------------------------
(* Operator and recipients *)

Pause ==
  /\ status = "running" /\ Spend("pause")
  /\ status' = "paused"
  /\ UNCHANGED <<row, total, logged, mails, job, dead, ex, sched, phase,
                 version, suppressed, cancel, fails>>

\* Faulty variant: resume without the condition on the status.
ResumeAny ==
  /\ status # "running"
  /\ status' = "running"
  /\ UNCHANGED <<row, total, logged, mails, job, dead, ex, sched, phase,
                 version, suppressed, cancel, fails, used>>

Resume ==
  /\ status = "paused"
  /\ status' = "running"
  /\ UNCHANGED <<row, total, logged, mails, job, dead, ex, sched, phase,
                 version, suppressed, cancel, fails, used>>

\* cancelCampaign: the status first, then the waiting jobs, then the rows.
CancelStatus ==
  /\ cancel = "none" /\ status \in {"queued", "running", "paused", "canceled"}
  /\ Spend("cancel")
  /\ status' = "canceled" /\ cancel' = "jobs"
  /\ UNCHANGED <<row, total, logged, mails, job, dead, ex, sched, phase,
                 version, suppressed, fails>>

\* Best effort: a removal that fails is ignored.
CancelJobs ==
  /\ cancel = "jobs"
  /\ \E S \in SUBSET {j \in JobIds : job[j].state \in {"wait", "retry"}} :
       job' = [j \in JobIds |-> IF j \in S THEN Unqueued ELSE job[j]]
  /\ cancel' = "rows"
  /\ UNCHANGED <<data, dead, ex, sched, phase, version, suppressed, fails, used>>

\* Batches until no open row is left.
CancelRows ==
  /\ cancel = "rows"
  /\ \/ \E S \in SUBSET Open \ {{}} :
          /\ row' = [r \in Recipients |-> IF r \in S THEN "skipped" ELSE row[r]]
          /\ UNCHANGED cancel
     \/ Open = {} /\ cancel' = "none" /\ UNCHANGED row
  /\ UNCHANGED <<status, total, logged, mails, job, dead, ex, sched, phase,
                 version, suppressed, fails, used>>

\* PATCH of a template gives it a new version, whatever campaigns are running.
EditTemplate ==
  /\ version < MaxVersion /\ Spend("edit")
  /\ version' = version + 1
  /\ UNCHANGED <<data, job, dead, ex, sched, phase, suppressed, cancel, fails>>

\* A recipient unsubscribes or is suppressed, or its account hits a cap; a
\* suppression is lifted, or the cap is reset.
Suppress(r) ==
  /\ Spend("skip")
  /\ suppressed' = IF r \in suppressed THEN suppressed \ {r} ELSE suppressed \cup {r}
  /\ UNCHANGED <<data, job, dead, ex, sched, phase, version, cancel, fails>>

-----------------------------------------------------------------------------
(* Specification *)

Next ==
  \/ \E p \in Procs : Tick(p) \/ Crash(p) \/ Shutdown(p) \/ Exit(p) \/ Boot(p)
  \/ \E p \in Procs, r \in Recipients :
       \/ Enqueue(p, r) \/ Backfill(p, r) \/ ClaimEnqueued(p, r)
       \/ RequeueStale(p, r) \/ ResetLost(p, r)
  \/ \E p \in Procs, j \in JobIds : RecoverRow(p, j)
  \/ \E w \in Workers, j \in JobIds : Begin(w, j) \/ BeginReturns(w, j)
  \/ \E w \in Workers : \/ Process(w) \/ ThrowEarly(w) \/ ThrowInTry(w)
                        \/ ThrowInCatch(w)
  \/ \E j \in JobIds : MoveRetry(j) \/ Evict(j)
  \/ Pause \/ Resume \/ CancelStatus \/ CancelJobs \/ CancelRows \/ EditTemplate
  \/ \E r \in Recipients : Suppress(r)

Spec == Init /\ [][Next]_vars

\* Ticks, slots, the retry worker and the recovery keep running, and a process
\* that is down is started again (restart policy of the worker container).
\* Nothing is assumed of the operator, of failures, or of the 2 minute requeue.
Fairness ==
  /\ \A p \in Procs :
       /\ WF_vars(Tick(p)) /\ WF_vars(Boot(p)) /\ WF_vars(Exit(p))
       /\ WF_vars(\E r \in Recipients : Enqueue(p, r))
       /\ WF_vars(\E r \in Recipients : ClaimEnqueued(p, r))
       /\ WF_vars(\/ \E r \in Recipients : ResetLost(p, r)
                  \/ \E j \in JobIds : RecoverRow(p, j))
  /\ \A w \in Workers : WF_vars(Process(w)) /\ WF_vars(\E j \in JobIds : Begin(w, j))
  /\ \A j \in JobIds : WF_vars(MoveRetry(j))
  /\ WF_vars(CancelJobs) /\ WF_vars(CancelRows)

FairSpec == Spec /\ Fairness

-----------------------------------------------------------------------------
(* Properties *)

Untouched(e) == used[e] = 0

\* A row reported "sent" stands for a message that an SMTP server accepted,
\* however many jobs, crashes and restarts there were on the way.
SentWasMailed == \A r \in Recipients : row[r] = "sent" => mails[r] > 0

\* Every UPDATE of sendStatus in worker, scheduler, recovery, shutdown and
\* cancel is one the database trigger lets through.
Lifecycle == INSTANCE RecipientLifecycle WITH Recipients <- Recipients, row <- row
LifecycleHolds == Lifecycle!Spec

\* Two processes, a job id shared by everyone who enqueues, and rows claimed
\* after their job is added: while no attempt throws, no process dies or stops
\* and no finished job is evicted, nobody gets more mails than the template has
\* had versions: one, if it is not edited.  An edit makes new ids and keys, so a
\* requeue, or a process whose cache is younger, may add a second job beside the
\* first.
OneMailEach ==
  (fails = 0 /\ Untouched("crash") /\ Untouched("stop") /\ Untouched("evict"))
    => \A r \in Recipients : mails[r] <= version

\* Log and counters agree with the rows.  The idempotency check returns early
\* only for recipients that were sent: no slot logs a delivery whose row another
\* slot, a cancel or a shutdown decided.  Every transition is counted by the one
\* slot whose UPDATE won.  totalSent and totalSkipped never claim more than the
\* rows: totalSent lags behind only by deliveries between the two UPDATEs, unless
\* one of them was cut off; totalSkipped leaves out what cancelCampaign skips.
\* totalFailed may claim more, for a failed row that a late claim puts back to
\* queued is counted already and may be sent after all: it counts attempts that
\* threw, each at most once, and no failed row is missing from it unless a
\* process died, or the database failed, between the two UPDATEs.
In(pc) == {w \in Workers : ex[w].pc = pc}
Rows(s) == {r \in Recipients : row[r] = s}
BooksAgree ==
  /\ \A e \in logged : row[e[1]] = "sent" /\ mails[e[1]] > 0
  /\ total.sent + Cardinality(In("count")) <= Cardinality(Rows("sent"))
  /\ (fails = 0 /\ Untouched("crash"))
       => total.sent + Cardinality(In("count")) = Cardinality(Rows("sent"))
  /\ total.skipped + Cardinality(In("skipcount")) <= Cardinality(Rows("skipped"))
  /\ total.failed + Cardinality(In("fail")) + Cardinality(In("failcount")) <= fails
  /\ (Untouched("dberror") /\ Untouched("crash"))
       => Cardinality(Rows("failed")) <= total.failed + Cardinality(In("failcount"))

\* A queued row always has a job that will pick it up, even if the process
\* that enqueues it dies between adding the job and claiming the row, as long
\* as no attempt throws, no database error is swallowed and nobody stops or cancels.
\* An edited template is no obstacle either, but not together with a crash: the
\* recovery looks for jobs of the new version only and takes for lost a row whose
\* job of the old one is being delivered.
QueuedHasJob ==
  /\ fails = 0 /\ \A e \in {"dberror", "stop", "evict", "cancel"} : Untouched(e)
  /\ version = 1 \/ Untouched("crash")
  => \A r \in Recipients : row[r] = "queued" =>
       \E v \in Versions : job[JobFor(r, v)].state \in {"wait", "active"}

\* Once a campaign is completed, partially completed or canceled, nothing here
\* brings it back to life: the blind write of a late finalization can replace
\* one of these by another, and nothing more.
DoneIsFinal == [][(status \in Done) => (status' \in Done)]_vars

\* Jobs that begin after the campaign has left "running" mail nobody: a mail is
\* only ever sent by a slot that saw the campaign running.  So once such slots
\* are gone, a paused or finished campaign is silent until it is resumed.
Witnessed == \E w \in Workers : ex[w].pc # "idle" /\ ex[w].seen = "running"
SilentOnceStopped ==
  [][(status # "running" /\ ~Witnessed) => (mails' = mails)]_vars

\* Every recipient of a campaign that nobody pauses ends as sent, failed or
\* skipped: the scheduler feeds each pending row, and each job decides its row.
\* Two exceptions.  A claim that comes after the attempt it belongs to has failed
\* puts the row back to queued, and if the campaign has been finished meanwhile,
\* nobody looks at that row again.  And a delivery that a swallowed database error
\* misleads (no campaign found, the row not claimed) completes its job without
\* deciding the row: its id then keeps everyone from adding another.
Stranded(r) ==
  \/ fails > 0 /\ row[r] = "queued" /\ status \in Done
  \/ /\ ~Untouched("dberror") /\ row[r] \in {"pending", "queued"}
     /\ \E v \in Versions : job[JobFor(r, v)].state = "completed"
EveryRowSettles ==
  <>[](\A r \in Recipients : row[r] \in {"sent", "failed", "skipped"} \/ Stranded(r))

\* ... and the campaign is reported finished, although the finalization that sees
\* no pending row may belong to any of the deliveries; unless a process dies or an
\* attempt throws just there: the next attempt finds its row decided and returns;
\* or the look-up of the campaign fails there, which ends the finalization.
CampaignEnds ==
  <>[](status \in Done \/ fails > 0 \/ ~Untouched("crash") \/ ~Untouched("dberror"))

-----------------------------------------------------------------------------
(* A claim of the repository that the code does not keep *)

\* "deterministic jobId already protects against duplicate deliveries"
\* (campaign-dispatch.service.ts:551): nobody gets two messages.
NoDuplicateDelivery == \A r \in Recipients : mails[r] <= 1
=============================================================================
