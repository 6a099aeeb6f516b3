----------------------------- MODULE QueueAdmin -----------------------------
(***************************************************************************)
(* The administrator's actions on the queues, on one queue: jobs are read  *)
(* in pages by their place, their campaigns are looked up, and the jobs    *)
(* that may go are removed one by one, while workers take jobs from the    *)
(* head, the schedulers add some at the tail and campaigns go on.          *)
(***************************************************************************)
EXTENDS Integers, Sequences, FiniteSets, FiniteSetsExt

CONSTANTS
  Campaigns,
  Chunk,     \* JOB_SCAN_CHUNK_SIZE
  MaxScan,   \* MAX_SCAN_PER_QUEUE, a multiple of it
  MaxJobs,   \* bound: jobs in the queue
  MaxEvents  \* bound: what others do

Gone == "gone"  \* of a job whose campaign has no row
\* A campaign is running or waiting for it, partially completed, which both sets
\* of statuses contain, or over.
Standing == {"active", "partial", "stale"}

VARIABLES
  queue,    \* the waiting jobs: sequence of [id, of]
  standing, \* of the campaigns
  paused,
  op,       \* what the request cleans: "stale", or the jobs of a campaign
  pc, start, page, removable,
  ids, events,
  steady,   \* history: campaigns that have been protected since the request began
  harmed,   \* history: steady campaigns whose jobs were removed
  alone,    \* history: nothing else has happened since the request began
  before    \* history: how many jobs there were then

vars == <<queue, standing, paused, op, pc, start, page, removable, ids, events, steady, harmed, alone, before>>
Request == <<op, pc, start, page, removable>>
History == <<steady, harmed, alone, before>>

JobsOf(s) == {s[i] : i \in 1..Len(s)}
Known(c) == c \in Campaigns
Active(c) == standing[c] \in {"active", "partial"}
Stale(c) == standing[c] \in {"partial", "stale"}

TypeOK ==
  /\ \A j \in JobsOf(queue) \cup removable : j.of \in Campaigns \cup {Gone} /\ j.id \in 1..ids
  /\ Cardinality(JobsOf(queue)) = Len(queue) /\ Len(queue) <= MaxJobs
  /\ standing \in [Campaigns -> Standing] /\ op \in Campaigns \cup {"stale"}
  /\ pc \in {"idle", "page", "lookup", "remove", "done"} /\ start \in Nat

Init ==
  /\ \E n \in 0..MaxJobs : \E of \in [1..n -> Campaigns \cup {Gone}] :
       queue = [i \in 1..n |-> [id |-> i, of |-> of[i]]] /\ ids = n
  /\ standing \in [Campaigns -> Standing] /\ paused = FALSE
  /\ op = "stale" /\ pc = "idle" /\ start = 0 /\ page = <<>> /\ removable = {}
  /\ events = 0 /\ steady = {} /\ harmed = {} /\ alone = TRUE /\ before = 0

-----------------------------------------------------------------------------
(* The request *)

\* clean_campaign_jobs refuses a campaign that is only active.
Ask ==
  /\ pc = "idle" /\ pc' = "page"
  /\ op' \in {"stale"} \cup {c \in Campaigns : ~(Active(c) /\ ~Stale(c))}
  /\ steady' = {c \in Campaigns : IF op' = "stale" THEN Active(c) ELSE c # op'}
  /\ alone' = TRUE /\ before' = Len(queue)
  /\ UNCHANGED <<queue, standing, paused, start, page, removable, ids, events, harmed>>

NextJobs == SubSeq(queue, start + 1, Min({start + Chunk, MaxScan, Len(queue)}))

\* Faulty variant: one page is taken for all there is.
PageOnce ==
  /\ pc = "page" /\ page' = NextJobs
  /\ IF op = "stale" /\ NextJobs = <<>> THEN pc' = "done" ELSE pc' = "lookup"
  /\ UNCHANGED <<queue, standing, paused, op, start, removable, ids, events, History>>

\* One page; clean_campaign_jobs reads them all before it removes any, but no
\* further than MaxScan.
Page ==
  /\ pc = "page"
  /\ IF op = "stale"
       THEN /\ page' = NextJobs /\ pc' = IF NextJobs = <<>> THEN "done" ELSE "lookup"
            /\ UNCHANGED start
       ELSE /\ page' = page \o NextJobs /\ pc' = IF Len(NextJobs) < Chunk \/ start + Chunk >= MaxScan THEN "lookup" ELSE "page"
            /\ start' = start + Chunk
  /\ UNCHANGED <<queue, standing, paused, op, removable, ids, events, History>>

\* A job without a campaign stays; an active campaign is protected, before it is
\* asked whether it is stale.
Lookup ==
  /\ pc = "lookup" /\ pc' = "remove"
  /\ removable' = IF op = "stale" THEN {j \in JobsOf(page) : Known(j.of) /\ ~Active(j.of) /\ Stale(j.of)}
                  ELSE {j \in JobsOf(page) : j.of = op}
  /\ UNCHANGED <<queue, standing, paused, op, start, page, ids, events, History>>

\* Four loops share the page, so that the order is open; a job that a worker
\* has taken cannot be removed and is skipped.
RemoveJob(j) ==
  /\ pc = "remove" /\ j \in removable
  /\ removable' = removable \ {j}
  /\ queue' = SelectSeq(queue, LAMBDA k : k # j)
  /\ harmed' = IF j \in JobsOf(queue) /\ j.of \in steady THEN harmed \cup {j.of} ELSE harmed
  /\ UNCHANGED <<standing, paused, op, pc, start, page, ids, events, steady, alone, before>>

\* After a short page, or at MaxScan, the request is done, else the next place is
\* read, although the queue has become shorter.
PageDone ==
  /\ pc = "remove" /\ removable = {}
  /\ IF op = "stale" /\ Len(page) = Chunk /\ start + Chunk < MaxScan
       THEN pc' = "page" /\ start' = start + Chunk
       ELSE pc' = "done" /\ UNCHANGED start
  /\ UNCHANGED <<queue, standing, paused, op, page, removable, ids, events, History>>

-----------------------------------------------------------------------------
(* Everything else *)

Event == events < MaxEvents /\ events' = events + 1 /\ alone' = FALSE /\ UNCHANGED <<Request, harmed, before>>

Pause == Event /\ paused' = ~paused /\ UNCHANGED <<queue, standing, ids, steady>>

Take ==
  /\ Event /\ ~paused /\ queue # <<>> /\ queue' = Tail(queue)
  /\ UNCHANGED <<standing, paused, ids, steady>>

Add(c) ==
  /\ Event /\ Len(queue) < MaxJobs /\ standing[c] = "active"
  /\ ids' = ids + 1 /\ queue' = Append(queue, [id |-> ids + 1, of |-> c])
  /\ UNCHANGED <<standing, paused, steady>>

\* A campaign ends or is canceled, or a finished one is started again.
Turn(c, s) ==
  /\ Event /\ s # standing[c] /\ standing' = [standing EXCEPT ![c] = s]
  /\ steady' = IF s = "stale" /\ op = "stale" THEN steady \ {c} ELSE steady
  /\ UNCHANGED <<queue, paused, ids>>

Next ==
  \/ Ask \/ Page \/ Lookup \/ PageDone \/ \E j \in removable : RemoveJob(j)
  \/ Pause \/ Take \/ \E c \in Campaigns : Add(c) \/ \E s \in Standing : Turn(c, s)

Spec == Init /\ [][Next]_vars

-----------------------------------------------------------------------------
(* Properties *)

\* A cleanup removes no job of a campaign that has been protected from it all
\* the time: of one that is active or partially completed when stale jobs are
\* cleaned, of another one when a campaign's are.
CleanupSpares == harmed = {}

\* A cleanup during which nothing else happens leaves no job that it is meant to
\* remove: the jobs of one campaign go, if the queue is no longer than the scan
\* goes (MaxScan), stale ones if it is no longer than a page, for behind it every
\* page that was cleaned makes the next one skip as many jobs.
CleanupIsThorough ==
  pc = "done" /\ alone =>
    \A j \in JobsOf(queue) :
      IF op = "stale" THEN before <= Chunk /\ Known(j.of) => Active(j.of)
      ELSE before <= MaxScan => j.of # op
=============================================================================
