------------------------------ MODULE BulkTest ------------------------------
(***************************************************************************)
(* The bulk test of SMTP accounts: a job in the memory of the web server,  *)
(* whose loops share one cursor over the accounts, one list of results and *)
(* the time of the last test mail, and the page that starts the job and    *)
(* polls its state.  Only what happens between two awaits is atomic.       *)
(***************************************************************************)
EXTENDS Integers, Sequences, FiniteSets

CONSTANTS
  Rows,      \* number of accounts in the scope of each job, a sequence
  Loops,     \* concurrency
  Orders,    \* what a job may be: of passive accounts, with mails, updateHealth
  Lost       \* bound: restarts of the server, losses of finished jobs

VARIABLES
  job,     \* JobState of each job, with the cursor its loops share
  loop,    \* the loops of each job: where they are and the account in hand
  health,  \* the result last written to each account's row, by job
  sent,    \* mails each job has sent in the current 150 ms
  lost,    \* losses so far
  ui,      \* the page: bulkTestJobId, bulkTestStatus and what it shows
  poll,    \* status requests under way: the job they ask for and their answer
  late     \* history: an answer came after the page had moved to another job

vars == <<job, loop, health, sent, lost, ui, poll, late>>

JobIds == 1..Len(Rows)
RowIds(j) == 1..Rows[j]
AllRows == UNION {RowIds(j) : j \in JobIds}
Status == {"none", "resolving", "running", "completed", "failed", "gone"}
LoopPc == {"take", "gap", "mail", "test", "write", "end", "dead"}
NoPoll == [pc |-> "none", status |-> "none", results |-> {}]

\* Rows of each job, and loops that work on them.
BulkTestAssumption ==
  /\ Rows \in Seq(Nat) /\ IsFiniteSet(Loops) /\ Loops # {} /\ Lost \in Nat
  /\ Orders \subseteq [inactive : BOOLEAN, mails : BOOLEAN, heals : BOOLEAN]

\* missed: rows whose update failed and whose error was swallowed (history).
TypeOK ==
  /\ job \in [JobIds -> [status : Status, cursor : Nat, recent : BOOLEAN,
                         inactive : BOOLEAN, mails : BOOLEAN, heals : BOOLEAN, processed : Nat,
                         summary : Nat, results : SUBSET AllRows, missed : SUBSET AllRows]]
  /\ loop \in [JobIds \X Loops -> [pc : LoopPc, row : Nat, wait : BOOLEAN]]
  /\ health \in [JobIds -> SUBSET AllRows]
  /\ sent \in [JobIds -> Nat]
  /\ lost \in 0..Lost
  /\ ui \in [job : 0..Len(Rows), status : {"idle", "running", "completed", "failed"},
             results : SUBSET AllRows]
  /\ poll \in [JobIds -> [pc : {"none", "asked", "answered"}, status : Status,
                      results : SUBSET AllRows]]
  /\ late \in BOOLEAN

Init ==
  /\ job = [j \in JobIds |-> [status |-> "none", cursor |-> 1, recent |-> FALSE,
              inactive |-> FALSE, mails |-> FALSE, heals |-> FALSE, processed |-> 0, summary |-> 0,
              results |-> {}, missed |-> {}]]
  /\ loop = [p \in JobIds \X Loops |-> [pc |-> "take", row |-> 0, wait |-> FALSE]]
  /\ health = [j \in JobIds |-> {}]
  /\ sent = [j \in JobIds |-> 0] /\ lost = 0
  /\ ui = [job |-> 0, status |-> "idle", results |-> {}]
  /\ poll = [j \in JobIds |-> NoPoll] /\ late = FALSE

Server == <<job, loop, health, sent>>
Client == <<ui, poll, late>>
Pc_(j, l) == loop[<<j, l>>].pc
Goto(j, l, pc) == loop' = [loop EXCEPT ![<<j, l>>].pc = pc]

-----------------------------------------------------------------------------
(* The job *)

\* resolveScopeRows has answered; a scope of passive accounts is possible.
Resolve(j) ==
  /\ job[j].status = "resolving"
  /\ \E o \in Orders :
       job' = [job EXCEPT ![j].status = "running", ![j].inactive = o.inactive, ![j].mails = o.mails,
                          ![j].heals = o.heals]
  /\ UNCHANGED <<loop, health, sent, lost, Client>>

\* resolveScopeRows throws.
ResolveFails(j) ==
  /\ job[j].status = "resolving"
  /\ job' = [job EXCEPT ![j].status = "failed"]
  /\ UNCHANGED <<loop, health, sent, lost, Client>>

\* The loops that are left of a failed job go on: nobody waits for them or stops them.
Working(j) == job[j].status = "running" \/ (job[j].status = "failed" /\ \E l \in Loops : Pc_(j, l) = "dead")

Recorded(j, r) ==
  [job EXCEPT ![j].results = @ \cup {r}, ![j].summary = @ + 1, ![j].processed = @ + 1]

\* Faulty variant: the cursor is advanced after the await instead of before.
TakeLate(j, l) ==
  LET r == job[j].cursor IN
  /\ Working(j) /\ Pc_(j, l) = "take"
  /\ IF r > Rows[j] THEN Goto(j, l, "end") /\ UNCHANGED job
     ELSE IF job[j].inactive
       THEN /\ job' = [Recorded(j, r) EXCEPT ![j].cursor = r + 1] /\ UNCHANGED loop
       ELSE /\ loop' = [loop EXCEPT ![<<j, l>>] =
                 [pc |-> IF job[j].mails THEN "gap" ELSE "test", row |-> r, wait |-> FALSE]]
            /\ job' = [job EXCEPT ![j].cursor = IF r \in job[j].results THEN r + 1 ELSE r]
  /\ UNCHANGED <<health, sent, lost, Client>>

\* const index = cursor++; an inactive account is skipped at once.
Take(j, l) ==
  LET r == job[j].cursor IN
  /\ Working(j) /\ Pc_(j, l) = "take"
  /\ IF r > Rows[j] THEN Goto(j, l, "end") /\ UNCHANGED job
     ELSE IF job[j].inactive
       THEN /\ job' = [Recorded(j, r) EXCEPT ![j].cursor = r + 1] /\ UNCHANGED loop
       ELSE /\ loop' = [loop EXCEPT ![<<j, l>>] =
                 [pc |-> IF job[j].mails THEN "gap" ELSE "test", row |-> r, wait |-> FALSE]]
            /\ job' = [job EXCEPT ![j].cursor = r + 1]
  /\ UNCHANGED <<health, sent, lost, Client>>

\* waitMs is computed from the time of the last mail; without a wait the loop
\* goes on to its mail at once.
Gap(j, l) ==
  /\ Pc_(j, l) = "gap" /\ Working(j)
  /\ loop' = [loop EXCEPT ![<<j, l>>].pc = "mail", ![<<j, l>>].wait = job[j].recent]
  /\ UNCHANGED <<job, health, sent, lost, Client>>

\* Faulty variant: the time of the mail is not noted.
MailUnnoted(j, l) ==
  /\ Pc_(j, l) = "mail" /\ ~loop[<<j, l>>].wait /\ Working(j)
  /\ sent' = [sent EXCEPT ![j] = @ + 1]
  /\ Goto(j, l, "test")
  /\ UNCHANGED <<job, health, lost, Client>>

Mail(j, l) ==
  /\ Pc_(j, l) = "mail" /\ ~loop[<<j, l>>].wait /\ Working(j)
  /\ job' = [job EXCEPT ![j].recent = TRUE]
  /\ sent' = [sent EXCEPT ![j] = @ + 1]
  /\ Goto(j, l, "test")
  /\ UNCHANGED <<health, lost, Client>>

\* runSmtpTest answers, also with an error or a timeout.
Test(j, l) ==
  /\ Pc_(j, l) = "test" /\ Working(j)
  /\ job' = Recorded(j, loop[<<j, l>>].row)
  /\ Goto(j, l, "write")
  /\ UNCHANGED <<health, sent, lost, Client>>

\* The password of the account cannot be decrypted: the loop throws, Promise.all
\* rejects, and its catch reports the job as failed.
Throw(j, l) ==
  /\ Pc_(j, l) = "test" /\ Working(j)
  /\ job' = [job EXCEPT ![j].status = "failed"]
  /\ Goto(j, l, "dead")
  /\ UNCHANGED <<health, sent, lost, Client>>

\* updateHealthByResult, unless the job is not to update the accounts; the
\* error of an update that fails is swallowed.
WriteHealth(j, l) ==
  LET r == loop[<<j, l>>].row IN
  /\ Pc_(j, l) = "write" /\ Working(j)
  /\ \/ job[j].heals /\ health' = [health EXCEPT ![j] = @ \cup {r}] /\ UNCHANGED job
     \/ job[j].heals /\ job' = [job EXCEPT ![j].missed = @ \cup {r}] /\ UNCHANGED health
     \/ ~job[j].heals /\ UNCHANGED <<job, health>>
  /\ Goto(j, l, "take")
  /\ UNCHANGED <<sent, lost, Client>>

\* Faulty variant: Promise.race.
CompleteEarly(j) ==
  /\ job[j].status = "running" /\ \E l \in Loops : Pc_(j, l) = "end"
  /\ job' = [job EXCEPT ![j].status = "completed"]
  /\ UNCHANGED <<loop, health, sent, lost, Client>>

\* Promise.all over the loops.
Complete(j) ==
  /\ job[j].status = "running" /\ \A l \in Loops : Pc_(j, l) = "end"
  /\ job' = [job EXCEPT ![j].status = "completed"]
  /\ UNCHANGED <<loop, health, sent, lost, Client>>

\* 150 ms have passed since the last mails.
Tick(j) ==
  /\ job[j].recent
  /\ job' = [job EXCEPT ![j].recent = FALSE]
  /\ sent' = [sent EXCEPT ![j] = 0]
  /\ loop' = [p \in JobIds \X Loops |-> IF p[1] = j THEN [loop[p] EXCEPT !.wait = FALSE] ELSE loop[p]]
  /\ UNCHANGED <<health, lost, Client>>

\* The server restarts, or a finished job is an hour old.
Forget(j) ==
  /\ job[j].status \in {"running", "completed", "failed"} /\ lost < Lost
  /\ lost' = lost + 1
  /\ job' = [job EXCEPT ![j].status = "gone"]
  /\ UNCHANGED <<loop, health, sent, Client>>

-----------------------------------------------------------------------------
(* The page *)

\* The dialog is opened anew and the test started: POST creates the job.
Start(j) ==
  /\ job[j].status = "none" /\ \A i \in 1..(j - 1) : job[i].status # "none"
  /\ job' = [job EXCEPT ![j].status = "resolving"]
  /\ ui' = [job |-> j, status |-> "running", results |-> {}]
  /\ UNCHANGED <<loop, health, sent, lost, poll, late>>

\* A tick of the effect, while it is not cancelled.
Ask(j) ==
  /\ ui.job = j /\ ui.status = "running" /\ poll[j].pc = "none"
  /\ poll' = [poll EXCEPT ![j].pc = "asked"]
  /\ UNCHANGED <<Server, lost, ui, late>>

Serve(j) ==
  /\ poll[j].pc = "asked"
  /\ poll' = [poll EXCEPT ![j] =
                [pc |-> "answered", status |-> job[j].status, results |-> job[j].results]]
  /\ UNCHANGED <<Server, lost, ui, late>>

Shown(a) == IF a.status \in {"resolving", "running"} THEN "running" ELSE a.status

\* Faulty variant: an unknown job is taken for one that is still running.
ReceivePatiently(j) ==
  /\ poll[j].pc = "answered"
  /\ poll' = [poll EXCEPT ![j] = NoPoll]
  /\ IF poll[j].status = "gone" THEN UNCHANGED <<ui, late>>
     ELSE /\ ui' = [ui EXCEPT !.status = Shown(poll[j]), !.results = poll[j].results]
          /\ late' = (late \/ ui.job # j)
  /\ UNCHANGED <<Server, lost>>

\* pollBulkTestJob sets what the page shows before anybody asks whether the
\* effect was cancelled; an unknown job is reported only if it was not.
Receive(j) ==
  /\ poll[j].pc = "answered"
  /\ poll' = [poll EXCEPT ![j] = NoPoll]
  /\ IF poll[j].status = "gone"
       THEN /\ ui' = IF ui.job = j /\ ui.status = "running"
                       THEN [ui EXCEPT !.status = "failed"] ELSE ui
            /\ UNCHANGED late
       ELSE /\ ui' = [ui EXCEPT !.status = Shown(poll[j]), !.results = poll[j].results]
            /\ late' = (late \/ ui.job # j)
  /\ UNCHANGED <<Server, lost>>

-----------------------------------------------------------------------------
(* Specification *)

Run(j) ==
  \/ Resolve(j) \/ ResolveFails(j) \/ Complete(j) \/ Tick(j)
  \/ \E l \in Loops : \/ Take(j, l) \/ Gap(j, l) \/ Mail(j, l)
                      \/ Test(j, l) \/ Throw(j, l) \/ WriteHealth(j, l)
Poll(j) == Ask(j) \/ Serve(j) \/ Receive(j)

Next == \E j \in JobIds : Run(j) \/ Poll(j) \/ Forget(j) \/ Start(j)

Spec == Init /\ [][Next]_vars

-----------------------------------------------------------------------------
(* Properties *)

\* A completed job has tested every account once, its summary and counter add
\* up to its total, and every result has been put into the account's row, but for
\* the updates that failed; a job that is not to update the accounts updates none.
CompletedAddsUp ==
  \A j \in JobIds :
    /\ job[j].status = "completed" =>
         /\ job[j].results = RowIds(j) /\ job[j].processed = Rows[j] /\ job[j].summary = Rows[j]
         /\ job[j].heals /\ ~job[j].inactive => health[j] \cup job[j].missed = RowIds(j)
    /\ ~job[j].heals => health[j] = {}

\* Test mails of one job are spaced: within 150 ms no loop sends twice.
MailsSpaced ==
  \A j \in JobIds : sent[j] <= Cardinality(Loops)

\* What the page shows as completed is the whole job, unless an answer for an
\* earlier job came in late.
CompletedShowsAll == ui.status = "completed" /\ ~late => ui.results = RowIds(ui.job)
=============================================================================
