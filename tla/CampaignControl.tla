-------------------------- MODULE CampaignControl --------------------------
(***************************************************************************)
(* One campaign under the requests of its operators: start with its import *)
(* of the recipients in chunks, pause, resume, cancel with its clean-up,   *)
(* and deletion, each served while the scheduler dispatches, the workers   *)
(* deliver and finalize, and the recipient list is edited.                 *)
(*                                                                         *)
(* The pipeline behind a job (claims, retries, crashes, recovery) is the   *)
(* subject of Delivery; here a job reads the campaign, settles its row and *)
(* finalizes.  Time is left out: a lock may expire whenever it is held.    *)
(***************************************************************************)
EXTENDS Integers, FiniteSets

CONSTANTS
  Members,    \* recipients, numbered in the order of their membership ids
  Reqs,       \* requests; each is served once, so it is its own lock token
  None,
  Chunk,      \* CAMPAIGN_START_FETCH_CHUNK_SIZE
  Batch,      \* CANCEL_CLEANUP_BATCH_SIZE
  Scenarios,  \* what the list holds at first and what the requests ask for
  Events      \* bound: pauses, crashes, expiries of a lock and edits of the list

Acts == {"start", "resume", "cancel", "delete"}
Locked == {"start", "resume", "cancel"}

ASSUME ControlAssumption ==
  /\ Members \subseteq Nat \ {0} /\ IsFiniteSet(Members)
  /\ Chunk \in Nat \ {0} /\ Batch \in Nat \ {0} /\ Events \in Nat
  /\ Scenarios \subseteq [list : SUBSET Members, asks : [Reqs -> Acts]]
  /\ None \notin Reqs

VARIABLES
  status,    \* Campaign.status
  deleted,   \* Campaign.isDeleted
  due,       \* Campaign.scheduledAt is null or past
  targeted,  \* Campaign.totalTargeted
  losses,    \* totalFailed > 0 or totalSkipped > 0
  row,       \* CampaignRecipient.sendStatus, "none" before the import
  list,      \* the members of the campaign's list
  refused,   \* recipients that are inactive or globally suppressed
  job,       \* the delivery job of each recipient
  fin,       \* finalizations that have read and still have to write
  lock,      \* the Redis key lock:campaign:<action>:<id> of each action
  req,       \* what every request is doing
  events     \* pauses, crashes, expiries and edits so far

campaign == <<status, deleted, due, targeted, losses, row>>
worker == <<job, fin>>
env == <<list, refused, events>>
vars == <<campaign, env, worker, lock, req>>

Status == {"pending", "queued", "running", "paused", "canceled", "completed",
           "partially_completed"}
Final == {"canceled", "completed", "partially_completed"}

\* pc "gone" is a request whose process died.  cursor: the last membership
\* read; count: rows found after the import; base: the members that have been
\* in the list ever since the import began (history); cut: the row under the
\* cursor was removed meanwhile (history).
Req == [act : Acts, pc : {"new", "read", "queue", "import", "run", "update",
                          "enqueue", "jobs", "clean", "background", "write",
                          "done", "gone"},
        answer : {"none", "ok", "refused", "failed"},
        cursor : Members \cup {0}, count : Nat, base : SUBSET Members,
        cut : BOOLEAN, lapsed : BOOLEAN]

TypeOK ==
  /\ status \in Status /\ deleted \in BOOLEAN /\ due \in BOOLEAN
  /\ targeted \in Nat /\ losses \in BOOLEAN
  /\ row \in [Members -> {"none", "pending", "queued", "sent", "failed", "skipped"}]
  /\ list \subseteq Members /\ refused \subseteq Members
  /\ job \in [Members -> {"none", "wait", "run", "halt", "fin", "kept"}]
  /\ fin \subseteq {"completed", "partially_completed"}
  /\ lock \in [Locked -> Reqs \cup {None}]
  /\ req \in [Reqs -> Req]
  /\ events \in 0 .. Events

\* createCampaign leaves the campaign pending, or queued when it is scheduled.
Init ==
  /\ status \in {"pending", "queued"}
  /\ due = (status = "pending")
  /\ deleted = FALSE /\ targeted = 0 /\ losses = FALSE
  /\ row = [m \in Members |-> "none"]
  /\ refused = {} /\ events = 0
  /\ job = [m \in Members |-> "none"] /\ fin = {}
  /\ lock = [a \in Locked |-> None]
  /\ \E s \in Scenarios :
       /\ list = s.list
       /\ req = [q \in Reqs |->
                [act |-> s.asks[q], pc |-> "new", answer |-> "none", cursor |-> 0,
                 count |-> 0, base |-> {}, cut |-> FALSE, lapsed |-> FALSE]]

Rows == {m \in Members : row[m] # "none"}
Open == {m \in Members : row[m] \in {"pending", "queued"}}
Act(q) == req[q].act
At(q, act, pc) == req[q].act = act /\ req[q].pc = pc
Inside(q) == req[q].pc \notin {"new", "background", "done", "gone"}

Happens == events < Events /\ events' = events + 1
Goto(q, pc) == req' = [req EXCEPT ![q].pc = pc]

\* Faulty variant: deletes the key whoever owns it.
ReleasedBlindly(q) == [lock EXCEPT ![Act(q)] = None]

\* releaseLockIfOwned, in the finally block.
Released(q) == IF lock[Act(q)] = q THEN [lock EXCEPT ![Act(q)] = None] ELSE lock

\* The callback returns or throws, and the lock is released.
End(q, answer) ==
  /\ req' = [req EXCEPT ![q].pc = "done", ![q].answer = answer]
  /\ lock' = Released(q)

-----------------------------------------------------------------------------
(* The distributed lock around start, resume and cancel *)

\* Faulty variant: SET without NX.
AcquireAnyway(q) ==
  /\ req[q].pc = "new" /\ Act(q) \in Locked
  /\ lock' = [lock EXCEPT ![Act(q)] = q]
  /\ Goto(q, IF Act(q) = "resume" THEN "update" ELSE "read")
  /\ UNCHANGED <<campaign, env, worker>>

Acquire(q) ==
  /\ req[q].pc = "new" /\ Act(q) \in Locked /\ lock[Act(q)] = None
  /\ lock' = [lock EXCEPT ![Act(q)] = q]
  /\ Goto(q, IF Act(q) = "resume" THEN "update" ELSE "read")
  /\ UNCHANGED <<campaign, env, worker>>

\* SET NX found the key: lock_not_acquired.
NotAcquired(q) ==
  /\ req[q].pc = "new" /\ Act(q) \in Locked /\ lock[Act(q)] # None
  /\ req' = [req EXCEPT ![q].pc = "done", ![q].answer = "refused"]
  /\ UNCHANGED <<campaign, env, worker, lock>>

\* The TTL is never renewed.
Expire(a) ==
  /\ lock[a] # None /\ Happens
  /\ lock' = [lock EXCEPT ![a] = None]
  /\ req' = [req EXCEPT ![lock[a]].lapsed = TRUE]
  /\ UNCHANGED <<campaign, list, refused, worker>>

Crash(q) ==
  /\ Inside(q) \/ req[q].pc = "background"
  /\ Happens
  /\ Goto(q, "gone")
  /\ UNCHANGED <<campaign, list, refused, worker, lock>>

-----------------------------------------------------------------------------
(* startCampaign *)

\* Faulty variant: a canceled campaign may be started again.
StartableAgain == {"pending", "queued", "paused", "canceled"}

Startable == {"pending", "queued", "paused"}

\* The checks before anything is written; no eligible SMTP account is a
\* refusal that may come at any time.
StartRead(q) ==
  /\ At(q, "start", "read")
  /\ \/ status \in Startable /\ Goto(q, "queue") /\ UNCHANGED lock
     \/ End(q, "refused")
  /\ UNCHANGED <<campaign, env, worker>>

\* The transaction that makes the campaign queued whatever it is by now.
StartQueue(q) ==
  /\ At(q, "start", "queue")
  /\ status' = "queued"
  /\ req' = [req EXCEPT ![q].pc = "import", ![q].base = list]
  /\ UNCHANGED <<deleted, due, targeted, losses, row, env, worker, lock>>

\* Faulty variant: the row after the cursor is skipped as well.
PageSkipping(cursor) ==
  LET after == {m \in list : m > IF cursor = 0 THEN 0 ELSE cursor + 1}
  IN {m \in after : Cardinality({n \in after : n < m}) < Chunk}

\* findMany after the cursor, in the order of ids.  A cursor whose row is gone
\* yields no rows.
Page(cursor) ==
  LET after == {m \in list : m > cursor}
  IN IF cursor # 0 /\ cursor \notin list THEN {}
     ELSE {m \in after : Cardinality({n \in after : n < m}) < Chunk}

Last(S) == CHOOSE m \in S : \A n \in S : n <= m

\* One chunk: filtered, then createMany with skipDuplicates.
ImportChunk(q) ==
  LET page == Page(req[q].cursor)
  IN /\ At(q, "start", "import") /\ page # {}
     /\ row' = [m \in Members |->
                  IF m \in page \ refused /\ row[m] = "none" THEN "pending" ELSE row[m]]
     /\ req' = [req EXCEPT ![q].cursor = Last(page)]
     /\ UNCHANGED <<status, deleted, due, targeted, losses, env, worker, lock>>

\* db_insert_failed: the campaign stays queued, with the rows inserted so far.
ImportFails(q) ==
  /\ At(q, "start", "import")
  /\ End(q, "failed")
  /\ UNCHANGED <<campaign, env, worker>>

\* Faulty variant: counts the rows that are still to be sent.
StartCountOpen(q) ==
  /\ At(q, "start", "import") /\ Page(req[q].cursor) = {}
  /\ IF Rows = {} THEN End(q, "failed")
     ELSE /\ req' = [req EXCEPT ![q].pc = "run", ![q].count = Cardinality(Open)]
          /\ UNCHANGED lock
  /\ UNCHANGED <<campaign, env, worker>>

\* An empty page ends the import; no rows at all is an error.
StartCount(q) ==
  /\ At(q, "start", "import") /\ Page(req[q].cursor) = {}
  /\ IF Rows = {} THEN End(q, "failed")
     ELSE /\ req' = [req EXCEPT ![q].pc = "run", ![q].count = Cardinality(Rows)]
          /\ UNCHANGED lock
  /\ UNCHANGED <<campaign, env, worker>>

\* The last update of a start has no condition either.
StartRun(q) ==
  /\ At(q, "start", "run")
  /\ status' = "running" /\ targeted' = req[q].count
  /\ Goto(q, "enqueue")
  /\ UNCHANGED <<deleted, due, losses, row, env, worker, lock>>

-----------------------------------------------------------------------------
(* pauseCampaign, resumeCampaign *)

Pause ==
  /\ status = "running" /\ Happens
  /\ status' = "paused"
  /\ UNCHANGED <<deleted, due, targeted, losses, row, list, refused, worker, lock, req>>

ResumeUpdate(q) ==
  /\ At(q, "resume", "update")
  /\ IF status = "paused"
     THEN status' = "running" /\ Goto(q, "enqueue") /\ UNCHANGED lock
     ELSE UNCHANGED status /\ End(q, "refused")
  /\ UNCHANGED <<deleted, due, targeted, losses, row, env, worker>>

\* campaignQueue.add, at the end of a start and of a resume.  Nobody consumes
\* that queue; when it cannot be reached the request fails, and the campaign
\* runs all the same.
Enqueue(q) ==
  /\ req[q].pc = "enqueue"
  /\ \E answer \in {"ok", "failed"} : End(q, answer)
  /\ UNCHANGED <<campaign, env, worker>>

-----------------------------------------------------------------------------
(* cancelCampaign, and DELETE *)

CancelRead(q) ==
  /\ At(q, "cancel", "read")
  /\ Goto(q, IF status = "canceled" THEN "jobs" ELSE "update")
  /\ UNCHANGED <<campaign, env, worker, lock>>

\* Faulty variant: writes the status under its British spelling.
CancelUpdateMisspelt(q) ==
  /\ At(q, "cancel", "update")
  /\ status' = "cancelled" /\ Goto(q, "jobs")
  /\ UNCHANGED <<deleted, due, targeted, losses, row, env, worker, lock>>

CancelUpdate(q) ==
  /\ At(q, "cancel", "update")
  /\ IF status \in {"queued", "running", "paused", "pending"}
     THEN status' = "canceled" /\ Goto(q, "jobs") /\ UNCHANGED lock
     ELSE UNCHANGED status /\ End(q, "refused")
  /\ UNCHANGED <<deleted, due, targeted, losses, row, env, worker>>

\* Best effort: any of the first 5000 waiting jobs, or none of them.  The
\* rows left are cleaned up in this request when one batch is enough, else in
\* the background after the answer.
CancelJobs(q) ==
  /\ At(q, "cancel", "jobs")
  /\ \E S \in SUBSET {m \in Members : job[m] = "wait"} :
       job' = [m \in Members |-> IF m \in S THEN "none" ELSE job[m]]
  /\ \/ Open = {} /\ End(q, "ok")
     \/ Open # {} /\ Cardinality(Open) <= Batch /\ Goto(q, "clean") /\ UNCHANGED lock
     \/ /\ Cardinality(Open) > Batch
        /\ Goto(q, "background") /\ lock' = Released(q)
  /\ UNCHANGED <<campaign, env, fin>>

\* One turn of cleanupCampaignRecipientsInBatches; totalSkipped is left alone.
CleanBatch(q) ==
  /\ Act(q) = "cancel" /\ req[q].pc \in {"clean", "background"} /\ Open # {}
  /\ LET batch == {m \in Open : Cardinality({n \in Open : n < m}) < Batch}
     IN row' = [m \in Members |-> IF m \in batch THEN "skipped" ELSE row[m]]
  /\ UNCHANGED <<status, deleted, due, targeted, losses, env, worker, lock, req>>

\* Faulty variant: one batch and no more, as if there were no loop.
CleanEndsEarly(q) ==
  /\ Act(q) = "cancel" /\ req[q].pc \in {"clean", "background"}
  /\ End(q, "ok")
  /\ UNCHANGED <<campaign, env, worker>>

CleanEnds(q) ==
  /\ Act(q) = "cancel" /\ req[q].pc \in {"clean", "background"} /\ Open = {}
  /\ End(q, "ok")
  /\ UNCHANGED <<campaign, env, worker>>

DeleteRead(q) ==
  /\ At(q, "delete", "new")
  /\ req' = [req EXCEPT ![q].pc = IF status \in Final THEN "write" ELSE "done"]
  /\ UNCHANGED <<campaign, env, worker, lock>>

DeleteWrite(q) ==
  /\ At(q, "delete", "write")
  /\ deleted' = TRUE
  /\ Goto(q, "done")
  /\ UNCHANGED <<status, due, targeted, losses, row, env, worker, lock>>

-----------------------------------------------------------------------------
(* The scheduler and the workers, in short *)

\* A pending row of an active campaign: queued is switched to running.
Dispatch(m) ==
  /\ row[m] = "pending" /\ job[m] = "none"
  /\ status = "running" \/ (status = "queued" /\ due)
  /\ status' = "running"
  /\ job' = [job EXCEPT ![m] = "wait"]
  /\ UNCHANGED <<deleted, due, targeted, losses, row, env, fin, lock, req>>

\* The job reads the campaign and claims its row.  That of a deleted campaign,
\* or of a row that is settled, ends here, and its id stays taken.
Begin(m) ==
  /\ job[m] = "wait"
  /\ IF deleted \/ m \notin Open
     THEN job' = [job EXCEPT ![m] = "kept"] /\ UNCHANGED row
     ELSE /\ job' = [job EXCEPT ![m] = IF status = "running" THEN "run" ELSE "halt"]
          /\ row' = [row EXCEPT ![m] = "queued"]
  /\ UNCHANGED <<status, deleted, due, targeted, losses, env, fin, lock, req>>

\* Sent, or failed (or refused, which counts alike); a job that read a campaign
\* that was not running skips its row.  A row cleaned up meanwhile is left alone:
\* the job whose mail went out returns then, and all the others finalize.
Settle(m) ==
  /\ job[m] \in {"run", "halt"}
  /\ \E to \in (IF job[m] = "run" THEN {"sent", "failed"} ELSE {"skipped"}) :
       \/ /\ row[m] = "queued"
          /\ row' = [row EXCEPT ![m] = to] /\ losses' = (losses \/ to # "sent")
          /\ job' = [job EXCEPT ![m] = "fin"]
       \/ /\ row[m] # "queued" /\ UNCHANGED <<row, losses>>
          /\ job' = [job EXCEPT ![m] = IF to = "sent" THEN "kept" ELSE "fin"]
  /\ UNCHANGED <<status, deleted, due, targeted, env, fin, lock, req>>

\* Faulty variant: counts the rows that were not sent.
FinReadUnsent(m) ==
  /\ job[m] = "fin"
  /\ job' = [job EXCEPT ![m] = "kept"]
  /\ fin' = IF deleted \/ \E n \in Members : row[n] \notin {"none", "sent"} THEN fin
            ELSE fin \cup {IF losses THEN "partially_completed" ELSE "completed"}
  /\ UNCHANGED <<campaign, env, lock, req>>

\* finalizeCampaignIfDone counts the pending rows, and only those.
FinRead(m) ==
  /\ job[m] = "fin"
  /\ job' = [job EXCEPT ![m] = "kept"]
  /\ fin' = IF deleted \/ \E n \in Members : row[n] = "pending" THEN fin
            ELSE fin \cup {IF losses THEN "partially_completed" ELSE "completed"}
  /\ UNCHANGED <<campaign, env, lock, req>>

\* Its update has no condition.
FinWrite(verdict) ==
  /\ verdict \in fin
  /\ status' = verdict
  /\ fin' = fin \ {verdict}
  /\ UNCHANGED <<deleted, due, targeted, losses, row, env, job, lock, req>>

-----------------------------------------------------------------------------
(* The rest of the world *)

ComesDue ==
  /\ ~due /\ due' = TRUE
  /\ UNCHANGED <<status, deleted, targeted, losses, row, env, worker, lock, req>>

\* Uploads, bulk removals and suppressions while the campaign is handled.
AddMember(m) ==
  /\ m \notin list
  /\ list' = list \cup {m} /\ Happens
  /\ UNCHANGED <<campaign, refused, worker, lock, req>>

RemoveMember(m) ==
  /\ m \in list
  /\ list' = list \ {m} /\ Happens
  /\ req' = [q \in Reqs |->
               [req[q] EXCEPT !.base = @ \ {m},
                              !.cut = @ \/ (At(q, "start", "import") /\ req[q].cursor = m)]]
  /\ UNCHANGED <<campaign, refused, worker, lock>>

Refuse(m) ==
  /\ m \notin refused
  /\ refused' = refused \cup {m} /\ Happens
  /\ UNCHANGED <<campaign, list, worker, lock, req>>

-----------------------------------------------------------------------------
StartStep(q) ==
  \/ StartRead(q) \/ StartQueue(q) \/ ImportChunk(q) \/ ImportFails(q)
  \/ StartCount(q) \/ StartRun(q)
CancelStep(q) ==
  CancelRead(q) \/ CancelUpdate(q) \/ CancelJobs(q) \/ CleanBatch(q) \/ CleanEnds(q)
Serve(q) ==
  \/ Acquire(q) \/ NotAcquired(q)
  \/ StartStep(q) \/ ResumeUpdate(q) \/ Enqueue(q)
  \/ CancelStep(q) \/ DeleteRead(q) \/ DeleteWrite(q)
Work(m) == Dispatch(m) \/ Begin(m) \/ Settle(m) \/ FinRead(m)
Finalize == \E verdict \in fin : FinWrite(verdict)

Next ==
  \/ \E q \in Reqs : Serve(q) \/ Crash(q)
  \/ \E a \in Locked : Expire(a)
  \/ Pause \/ ComesDue \/ Finalize
  \/ \E m \in Members : Work(m) \/ AddMember(m) \/ RemoveMember(m) \/ Refuse(m)

Spec == Init /\ [][Next]_vars

\* A process that is up goes on with its requests, the schedulers tick and the
\* workers take jobs; nothing makes an operator, a crash or an edit happen.
FairSpec ==
  /\ Spec
  /\ \A q \in Reqs : WF_vars(Serve(q))
  /\ \A m \in Members : WF_vars(Work(m))
  /\ WF_vars(Finalize) /\ WF_vars(ComesDue)
-----------------------------------------------------------------------------
(* Properties *)

StartInFlight ==
  \E q \in Reqs : Act(q) = "start" /\ req[q].pc \in {"queue", "import", "run"}

Running(a) == {q \in Reqs : Act(q) = a /\ Inside(q)}
Lapsed(a) == {q \in Reqs : Act(q) = a /\ req[q].lapsed}

StartLock == INSTANCE Lease WITH Clients <- Reqs, owner <- lock["start"],
                                 inside <- Running("start"), lapsed <- Lapsed("start")
ResumeLock == INSTANCE Lease WITH Clients <- Reqs, owner <- lock["resume"],
                                  inside <- Running("resume"), lapsed <- Lapsed("resume")
CancelLock == INSTANCE Lease WITH Clients <- Reqs, owner <- lock["cancel"],
                                  inside <- Running("cancel"), lapsed <- Lapsed("cancel")

\* The lock of each action behaves as the lease of module Lease, whatever the
\* requests, their crashes and the TTL do.
LocksAreLeases == StartLock!Spec /\ ResumeLock!Spec /\ CancelLock!Spec

\* Two starts (resumes, cancels) of the campaign run at the same time only when
\* the TTL ran out on one of them: a start that ends after its lock expired
\* does not free the lock its successor holds.
OneAtATime == StartLock!OneInside /\ ResumeLock!OneInside /\ CancelLock!OneInside

\* A start that reported success has a row for every recipient that was in the
\* list all along and is not refused, however the list grew and shrank during
\* the import.  The exception is a bug of the code: when the membership under
\* the cursor is removed, the next page is empty and the import just ends.
StartImportsAll ==
  \A q \in Reqs :
    Act(q) = "start" /\ req[q].answer = "ok" /\ ~req[q].cut
    => req[q].base \subseteq Rows \cup refused

\* The denominator of the progress bar is the number of rows, whenever no start
\* is running, none failed in its import and no two could overlap.
TargetedCountsRows ==
  (\A q \in Reqs : Act(q) = "start" =>
     /\ req[q].pc \in {"new", "done"} /\ ~req[q].lapsed
     /\ req[q].answer = "failed" => req[q].count > 0)
  => targeted = Cardinality(Rows)

\* What an import that ended promises: the rows, and their number.
ImportHolds == StartImportsAll /\ TargetedCountsRows

\* Canceled, cleaned up, and nothing left that read the campaign before.
QuietlyCanceled ==
  /\ status = "canceled" /\ Open = {} /\ fin = {} /\ ~StartInFlight
  /\ \A m \in Members : job[m] \notin {"run", "halt", "fin"}

\* From there no request, job or scheduler brings the campaign back, deliveries
\* still waiting in the queue included.
QuietCancelIsFinal == [][QuietlyCanceled => QuietlyCanceled']_vars

\* A cancel whose clean-up begins when no start is in flight leaves no row
\* behind, in as many batches as it takes, unless its process dies.
CancelDrains ==
  \A q \in Reqs :
    (At(q, "cancel", "jobs") /\ status = "canceled" /\ ~StartInFlight)
    ~> (Open = {} \/ status # "canceled" \/ req[q].pc = "gone")

\* A delivery that will finalize: a mail whose row a cancel has cleaned up does not.
Finalizes(m) ==
  row[m] = "pending" \/ job[m] \in {"halt", "fin"} \/ (job[m] = "run" /\ row[m] = "queued")

\* A running campaign with a delivery still to come ends, or is paused or deleted,
\* whatever requests come in between.  It need not when a cancel is still cleaning up
\* whose status a start has overwritten, nor when all its open deliveries have had
\* their rows cleaned up: then nobody finalizes it.
RunningEnds ==
  (/\ status = "running" /\ ~deleted
   /\ \A q \in Reqs : Act(q) = "cancel" => req[q].pc \notin {"jobs", "clean", "background"}
   /\ \E m \in Members : Finalizes(m))
  ~> (deleted \/ status \in Final \cup {"paused"})

\* The answer of the DELETE route: "Running campaigns must be canceled before
\* deletion."  The route reads the status and writes isDeleted without a condition.
NoRunningDeleted == [][deleted' # deleted => status \notin {"running", "queued"}]_vars
=============================================================================
