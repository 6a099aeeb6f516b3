---------------------------- MODULE SmtpAccounts ----------------------------
(***************************************************************************)
(* The SMTP accounts between the deliveries that use them and the          *)
(* operators that manage them.  Three records describe one account: its    *)
(* row (health, throttle, cooldown, last error), the shared safety window  *)
(* in Redis, and the count of its deliveries today.  A delivery reads and  *)
(* writes all three in separate steps; the sweep of the scheduler, the     *)
(* tests and the requests of operators change the row in between.          *)
(***************************************************************************)
EXTENDS Integers, FiniteSets

CONSTANTS
  Accounts,     \* accounts of the pool, numbered in the order of creation
  Slots,        \* concurrent deliveries of one worker process
  Cap,          \* dailyCap of every account, which has one
  MaxTotal,     \* bound: outcomes counted in a window before it stops growing
  ThrottlePct,  \* FAIL_RATE_THRESHOLD in percent (12 in the code)
  RecoverPct,   \* RECOVERY_THRESHOLD in percent (4 in the code)
  MaxLevel,     \* bound of throttleLevel (6 in the code)
  CooldownSet,  \* cooldownAfterErrorSec > 0
  Budgets       \* how often each event may happen, one scenario each

Events == {"deliver", "fail", "dberror", "test", "reset", "patch", "refresh", "expire"}

ASSUME SmtpAssumption ==
  /\ Accounts \subseteq Nat /\ Accounts # {} /\ IsFiniteSet(Accounts)
  /\ IsFiniteSet(Slots)
  /\ Cap \in Nat \ {0} /\ MaxTotal \in Nat /\ MaxLevel \in Nat \ {0}
  /\ RecoverPct \in 0..100 /\ ThrottlePct \in (RecoverPct + 1)..100
  /\ CooldownSet \in BOOLEAN
  /\ Budgets \subseteq [Events -> Nat]

VARIABLES
  row,     \* SmtpAccount
  window,  \* smtp:safety:<id> in Redis
  count,   \* SmtpWarmupStat.successfulDeliveries of today
  pool,    \* smtpPoolCache: {the rows as last read}, or {} when expired
  quota,   \* smtpQuotaCache: the count as last read, or -1 when expired
  slot,    \* the deliveries
  request, \* the reset or test in flight, its accounts, and (history)
           \* those whose credentials had failed when it began
  left,    \* what remains of the budget
  stale,   \* history: accounts used on a quota read from the cache
  raced,   \* history: accounts whose window two deliveries updated at once, or
           \* a delivery left unwritten
  touched  \* history: accounts an operator, a test or the sweep changed

vars == <<row, window, count, pool, quota, slot, request, left, stale, raced, touched>>

Health == {"healthy", "warning", "error", "disabled"}
Errors == {"none", "auth", "other"}
Row == [active : BOOLEAN, archived : BOOLEAN, throttled : BOOLEAN,
        cooldown : {"none", "running", "over"}, health : Health, error : Errors]
Window == [total : 0..MaxTotal, failures : 0..MaxTotal, level : 0..MaxLevel, hot : BOOLEAN]
Fresh == [total |-> 0, failures |-> 0, level |-> 0, hot |-> FALSE]
Pc == {"idle", "gate", "send", "count", "record", "judge", "write", "health"}
NoRequest == [kind |-> "none", on |-> {}, auth |-> {}]
Kinds == {"none", "reset", "resetAuth", "connection", "bulk"}

TypeOK ==
  /\ row \in [Accounts -> Row]
  /\ window \in [Accounts -> Window]
  /\ count \in [Accounts -> Nat]
  /\ \A rows \in pool : rows \in [Accounts -> Row]
  /\ quota \in [Accounts -> Int]
  /\ slot \in [Slots -> [pc : Pc, on : Accounts, result : Errors, read : Window]]
  /\ request \in [kind : Kinds, on : SUBSET Accounts, auth : SUBSET Accounts]
  /\ left \in [Events -> Nat]
  /\ stale \subseteq Accounts /\ raced \subseteq Accounts /\ touched \subseteq Accounts

First(S) == CHOOSE a \in S : \A b \in S : a <= b

Init ==
  /\ row = [a \in Accounts |-> [active |-> TRUE, archived |-> FALSE, throttled |-> FALSE,
              cooldown |-> "none", health |-> "healthy", error |-> "none"]]
  /\ window = [a \in Accounts |-> Fresh]
  /\ count = [a \in Accounts |-> 0]
  /\ pool = {} /\ quota = [a \in Accounts |-> -1]
  /\ slot = [w \in Slots |-> [pc |-> "idle", on |-> First(Accounts), result |-> "none",
                              read |-> Fresh]]
  /\ request = NoRequest
  /\ left \in Budgets
  /\ stale = {} /\ raced = {} /\ touched = {}

Spend(e) == left[e] > 0 /\ left' = [left EXCEPT ![e] = @ - 1]
Goto(w, pc) == slot' = [slot EXCEPT ![w].pc = pc]
At(w, pc) == slot[w].pc = pc
On(w) == slot[w].on
Recording(w) == slot[w].pc \in {"judge", "write"}

-----------------------------------------------------------------------------
(* A delivery *)

\* smtpEligibilityReason(smtp) === null, for a complete account.
Eligible(r) ==
  /\ r.active /\ ~r.archived
  /\ r.error # "auth"
  /\ r.health # "error"
  /\ ~(r.throttled /\ r.cooldown = "running")

\* The payload's account if the cached rows allow it, else the first eligible.
Choose(w, payload) ==
  LET rows == IF pool = {} THEN row ELSE CHOOSE r \in pool : TRUE
      able == {a \in Accounts : Eligible(rows[a])}
  IN /\ At(w, "idle") /\ able # {} /\ Spend("deliver")
     /\ pool' = {rows}
     /\ slot' = [slot EXCEPT ![w].pc = "gate", ![w].result = "none",
                   ![w].on = IF payload \in able THEN payload ELSE First(able)]
     /\ UNCHANGED <<row, window, count, quota, request, stale, raced, touched>>

\* Faulty variant: compares with > instead of >=.
GateOffByOne(w) ==
  LET a == On(w)
      usage == IF quota[a] = -1 THEN count[a] ELSE quota[a]
  IN /\ At(w, "gate")
     /\ quota' = [quota EXCEPT ![a] = usage]
     /\ stale' = IF quota[a] # -1 /\ quota[a] # count[a] THEN stale \cup {a} ELSE stale
     /\ Goto(w, IF usage > Cap THEN "idle" ELSE "send")
     /\ UNCHANGED <<row, window, count, pool, request, left, raced, touched>>

\* readSmtpQuotaUsage and capReached: the delivery is skipped.
Gate(w) ==
  LET a == On(w)
      usage == IF quota[a] = -1 THEN count[a] ELSE quota[a]
  IN /\ At(w, "gate")
     /\ quota' = [quota EXCEPT ![a] = usage]
     /\ stale' = IF quota[a] # -1 /\ quota[a] # count[a] THEN stale \cup {a} ELSE stale
     /\ Goto(w, IF usage >= Cap THEN "idle" ELSE "send")
     /\ UNCHANGED <<row, window, count, pool, request, left, raced, touched>>

Accept(w) ==
  /\ At(w, "send") /\ Goto(w, "count")
  /\ UNCHANGED <<row, window, count, pool, quota, request, left, stale, raced, touched>>

\* sendMail throws; the row of the recipient is set to failed.
Reject(w) ==
  /\ At(w, "send") /\ Spend("fail")
  /\ \E e \in {"auth", "other"} :
       slot' = [slot EXCEPT ![w].pc = "record", ![w].result = e]
  /\ UNCHANGED <<row, window, count, pool, quota, request, stale, raced, touched>>

\* Faulty variant: the row of the day is counted up in two places.
CountTwice(w) ==
  /\ At(w, "count")
  /\ count' = [count EXCEPT ![On(w)] = @ + 2]
  /\ Goto(w, "record")
  /\ UNCHANGED <<row, window, pool, quota, request, left, stale, raced, touched>>

\* The transaction that counts the delivery.
Count(w) ==
  /\ At(w, "count")
  /\ count' = [count EXCEPT ![On(w)] = @ + 1]
  /\ Goto(w, "record")
  /\ UNCHANGED <<row, window, pool, quota, request, left, stale, raced, touched>>

\* A later statement throws.  The catch block takes an accepted delivery for a
\* failed one; an error in the catch block itself ends the delivery.  Before the
\* window is written, the row may have been.
DbError(w) ==
  /\ slot[w].pc \in {"count", "record", "judge", "write", "health"} /\ Spend("dberror")
  /\ slot' = [slot EXCEPT ![w].pc = IF slot[w].result = "none" THEN "record" ELSE "idle",
                          ![w].result = "other"]
  /\ raced' = IF At(w, "write") THEN raced \cup {On(w)} ELSE raced
  /\ UNCHANGED <<row, window, count, pool, quota, request, stale, touched>>

\* recordDeliveryOutcome reads the window ...
RecordRead(w) ==
  /\ At(w, "record")
  /\ slot' = [slot EXCEPT ![w].pc = "judge", ![w].read = window[On(w)]]
  /\ raced' = IF \E v \in Slots \ {w} : Recording(v) /\ On(v) = On(w)
                THEN raced \cup {On(w)} ELSE raced
  /\ UNCHANGED <<row, window, count, pool, quota, request, left, stale, touched>>

Sum(w) ==
  LET old == slot[w].read
      n == IF old.total < MaxTotal THEN old.total + 1 ELSE MaxTotal
      f == old.failures + (IF slot[w].result = "none" THEN 0 ELSE 1)
  IN [old EXCEPT !.total = n, !.failures = IF f < n THEN f ELSE n]
TooMany(s) == 100 * s.failures >= ThrottlePct * s.total
FewEnough(s) == 100 * s.failures <= RecoverPct * s.total /\ ~s.hot

\* Faulty variant: the level is not bounded below.
JudgedUnbounded(s) ==
  CASE TooMany(s) ->
         [s EXCEPT !.level = IF @ < MaxLevel THEN @ + 1 ELSE MaxLevel, !.hot = TRUE]
    [] ~TooMany(s) /\ FewEnough(s) -> [s EXCEPT !.level = @ - 1]
    [] OTHER -> s

\* The window to write: one level up for thirty seconds and more, or one down.
Judged(s) ==
  CASE TooMany(s) ->
         [s EXCEPT !.level = IF @ < MaxLevel THEN @ + 1 ELSE MaxLevel, !.hot = TRUE]
    [] ~TooMany(s) /\ FewEnough(s) -> [s EXCEPT !.level = IF @ > 0 THEN @ - 1 ELSE 0]
    [] OTHER -> s

\* Faulty variant: looks at the level before the outcome, not at the new one.
JudgeByOldLevel(w) ==
  LET s == Sum(w) IN
  /\ At(w, "judge")
  /\ slot' = [slot EXCEPT ![w].pc = "write", ![w].read = Judged(s)]
  /\ row' = [row EXCEPT ![On(w)].throttled =
               IF TooMany(s) /\ s.level > 0 THEN TRUE
               ELSE IF FewEnough(s) /\ s.level = 0 THEN FALSE ELSE @]
  /\ UNCHANGED <<window, count, pool, quota, request, left, stale, raced, touched>>

\* ... sets or lifts the throttle of the row, without a cooldown ...
Judge(w) ==
  LET s == Sum(w) IN
  /\ At(w, "judge")
  /\ slot' = [slot EXCEPT ![w].pc = "write", ![w].read = Judged(s)]
  /\ row' = [row EXCEPT ![On(w)].throttled =
               IF TooMany(s) THEN TRUE
               ELSE IF FewEnough(s) /\ Judged(s).level = 0 THEN FALSE ELSE @]
  /\ UNCHANGED <<window, count, pool, quota, request, left, stale, raced, touched>>

\* ... and writes the window back whole.
RecordWrite(w) ==
  /\ At(w, "write")
  /\ window' = [window EXCEPT ![On(w)] = slot[w].read]
  /\ Goto(w, "health")
  /\ UNCHANGED <<row, count, pool, quota, request, left, stale, raced, touched>>

\* The last update of the account: its health as this delivery saw it.
WriteHealth(w) ==
  /\ At(w, "health")
  /\ row' = [row EXCEPT ![On(w)] =
               IF slot[w].result = "none"
                 THEN [@ EXCEPT !.health = "healthy", !.error = "none", !.cooldown = "none"]
                 ELSE [@ EXCEPT !.health = "error", !.error = slot[w].result,
                         !.cooldown = IF CooldownSet THEN "running" ELSE "none"]]
  /\ Goto(w, "idle")
  /\ UNCHANGED <<window, count, pool, quota, request, left, stale, raced, touched>>

-----------------------------------------------------------------------------
(* Time *)

CooldownOver(a) ==
  /\ row[a].cooldown = "running"
  /\ row' = [row EXCEPT ![a].cooldown = "over"]
  /\ UNCHANGED <<window, count, pool, quota, slot, request, left, stale, raced, touched>>

\* The sweep at the start of a tick of the scheduler.
Sweep ==
  LET due == {a \in Accounts : row[a].throttled /\ row[a].cooldown = "over"} IN
  /\ due # {}
  /\ row' = [a \in Accounts |->
               IF a \in due THEN [row[a] EXCEPT !.throttled = FALSE, !.cooldown = "none"]
               ELSE row[a]]
  /\ touched' = touched \cup due
  /\ UNCHANGED <<window, count, pool, quota, slot, request, left, stale, raced>>

\* The caches of rows (30 s) and quotas (3 s) expire.
Refresh ==
  /\ \/ Spend("refresh") /\ pool' = {} /\ quota' = [a \in Accounts |-> -1]
     \/ \E a \in Accounts : /\ quota[a] # -1 /\ quota' = [quota EXCEPT ![a] = -1]
                            /\ UNCHANGED <<pool, left>>
  /\ UNCHANGED <<row, window, count, slot, request, stale, raced, touched>>

\* throttledUntil passes, or nothing is recorded for two minutes.
WindowCools(a) ==
  /\ window[a].hot
  /\ window' = [window EXCEPT ![a].hot = FALSE]
  /\ UNCHANGED <<row, count, pool, quota, slot, request, left, stale, raced, touched>>

WindowExpires(a) ==
  /\ window[a] # Fresh /\ Spend("expire")
  /\ window' = [window EXCEPT ![a] = Fresh]
  /\ UNCHANGED <<row, count, pool, quota, slot, request, stale, raced, touched>>

-----------------------------------------------------------------------------
(* Operators *)

AuthFailed == {a \in Accounts : row[a].error = "auth"}
Idle == request.kind = "none"

Changed(a, r) ==
  /\ row' = [row EXCEPT ![a] = r]
  /\ touched' = touched \cup {a}
  /\ UNCHANGED <<window, count, pool, quota, slot, request, stale, raced>>

\* PATCH with an action, or of the health or isActive alone, archived or not.
Patch(a) ==
  /\ Spend("patch")
  /\ \E r \in {[row[a] EXCEPT !.throttled = FALSE, !.cooldown = "none", !.health = "healthy"],
               [row[a] EXCEPT !.active = FALSE, !.health = "disabled"],
               [row[a] EXCEPT !.active = FALSE, !.archived = TRUE, !.health = "disabled"],
               [row[a] EXCEPT !.active = TRUE], [row[a] EXCEPT !.health = "healthy"]} :
       Changed(a, r)

\* DELETE of an account that campaigns refer to.
ArchiveInUse(a) ==
  /\ Spend("patch")
  /\ Changed(a, [row[a] EXCEPT !.archived = TRUE, !.active = FALSE, !.health = "disabled"])

\* bulk-delete takes one account after the other and leaves out archived ones.
BulkDelete(a) ==
  /\ Spend("patch") /\ ~row[a].archived
  /\ Changed(a, [row[a] EXCEPT !.archived = TRUE, !.active = FALSE, !.health = "disabled"])

\* bulk-add-alibaba of an account that exists: its credentials are new.
ImportAgain(a) ==
  /\ Spend("patch") /\ ~row[a].archived
  /\ Changed(a, [row[a] EXCEPT !.active = TRUE, !.health = "healthy", !.error = "none"])

\* resolveSmtpScope.
Resolved(scope, selected) ==
  {a \in Accounts :
     /\ ~row[a].archived
     /\ CASE scope = "selected" -> a \in selected
          [] scope = "all_active" -> row[a].active
          [] scope = "healthy" -> row[a].active /\ row[a].health = "healthy" /\ ~row[a].throttled
          [] scope = "error" -> row[a].health = "error" \/ row[a].throttled \/ row[a].error # "none"}
Scopes == {"selected", "all_active", "healthy", "error"}

\* bulk-rate-warmup with resetThrottle, clearCooldown and clearLastError.
BulkClear(S) ==
  /\ Spend("patch") /\ S # {} /\ S \subseteq Resolved("selected", S)
  /\ row' = [a \in Accounts |->
               IF a \in S /\ ~row[a].archived
                 THEN [row[a] EXCEPT !.throttled = FALSE, !.cooldown = "none", !.error = "none"]
                 ELSE row[a]]
  /\ touched' = touched \cup S
  /\ UNCHANGED <<window, count, pool, quota, slot, request, stale, raced>>

\* Faulty variant: the filter looks at the health instead of the last error.
ResetReadByHealth(scope, withAuth) ==
  /\ Idle /\ Spend("reset")
  /\ request' = [kind |-> IF withAuth THEN "resetAuth" ELSE "reset", auth |-> AuthFailed,
                 on |-> {a \in Resolved(scope, Accounts) :
                           row[a].active /\ (withAuth \/ row[a].health # "error")}]
  /\ UNCHANGED <<row, window, count, pool, quota, slot, stale, raced, touched>>

\* reset-throttle reads the active accounts of a scope and leaves out those whose
\* last error looks like an authentication failure, unless told otherwise ...
ResetRead(scope, withAuth) ==
  /\ Idle /\ Spend("reset")
  /\ request' = [kind |-> IF withAuth THEN "resetAuth" ELSE "reset", auth |-> AuthFailed,
                 on |-> {a \in Resolved(scope, Accounts) :
                           row[a].active /\ (withAuth \/ row[a].error # "auth")}]
  /\ UNCHANGED <<row, window, count, pool, quota, slot, stale, raced, touched>>

\* ... and updates the others without looking again.
ResetWrite ==
  /\ request.kind \in {"reset", "resetAuth"}
  /\ \E healthy \in BOOLEAN :
       row' = [a \in Accounts |->
                 IF a \in request.on /\ ~row[a].archived
                   THEN [row[a] EXCEPT !.throttled = FALSE, !.cooldown = "none", !.error = "none",
                           !.health = IF healthy THEN "healthy" ELSE @]
                   ELSE row[a]]
  /\ touched' = touched \cup request.on
  /\ request' = NoRequest
  /\ UNCHANGED <<window, count, pool, quota, slot, left, stale, raced>>

\* A connection test of one account, alone or as part of a bulk job ...
TestStart(a) ==
  /\ Idle /\ ~row[a].archived /\ Spend("test")
  /\ \E kind \in {"connection", "bulk"} : request' = [kind |-> kind, on |-> {a}, auth |-> {}]
  /\ UNCHANGED <<row, window, count, pool, quota, slot, stale, raced, touched>>

\* updateHealthByResult of a bulk job may also lift or set the throttle.
BulkResult(r) ==
  {[r EXCEPT !.health = "healthy", !.error = "none", !.throttled = FALSE, !.cooldown = "none"],
   [r EXCEPT !.health = "warning", !.error = "other", !.throttled = TRUE, !.cooldown = "running"]}

\* ... and the update of the health by its result.
TestEnd(a) ==
  /\ request.kind \in {"connection", "bulk"} /\ request.on = {a}
  /\ \E r \in {[row[a] EXCEPT !.health = "healthy", !.error = "none"],
               [row[a] EXCEPT !.health = "error", !.error = "auth"],
               [row[a] EXCEPT !.health = "error", !.error = "other"]}
              \cup (IF request.kind = "bulk" THEN BulkResult(row[a]) ELSE {}) :
       row' = [row EXCEPT ![a] = r]
  /\ touched' = touched \cup {a}
  /\ request' = NoRequest
  /\ UNCHANGED <<window, count, pool, quota, slot, left, stale, raced>>

-----------------------------------------------------------------------------
(* Specification *)

Step(w) ==
  \/ Gate(w) \/ Accept(w) \/ Reject(w) \/ Count(w) \/ RecordRead(w) \/ Judge(w)
  \/ RecordWrite(w) \/ WriteHealth(w)

Next ==
  \/ \E w \in Slots : Step(w) \/ DbError(w) \/ \E a \in Accounts : Choose(w, a)
  \/ \E a \in Accounts :
       \/ CooldownOver(a) \/ WindowCools(a) \/ WindowExpires(a) \/ TestStart(a) \/ TestEnd(a)
       \/ Patch(a) \/ ArchiveInUse(a) \/ BulkDelete(a) \/ ImportAgain(a)
  \/ Sweep \/ Refresh \/ ResetWrite
  \/ \E scope \in Scopes, withAuth \in BOOLEAN : ResetRead(scope, withAuth)
  \/ \E S \in SUBSET Accounts : BulkClear(S)

Spec == Init /\ [][Next]_vars

\* Deliveries under way, the sweep of the scheduler and time go on.
FairSpec ==
  Spec /\ WF_vars(Sweep) /\ WF_vars(\E w \in Slots : Step(w))
       /\ \A a \in Accounts : WF_vars(CooldownOver(a)) /\ WF_vars(WindowCools(a))

-----------------------------------------------------------------------------
(* Properties *)

\* Deliveries of one account that pass the cap are those that were past the
\* gate together: no more than there are slots, but for a stale count.
QuotaBound == \A a \in Accounts \ stale : count[a] <= Cap + Cardinality(Slots) - 1

\* The throttle in the row and the level in the window tell the same story
\* once the deliveries of an account are recorded one after the other, each to
\* the end.
SafetyAgrees ==
  \A a \in Accounts \ (raced \cup touched) :
    (\A w \in Slots : On(w) = a => slot[w].pc \notin {"judge", "write"})
      => (window[a].level > 0 => row[a].throttled)

\* A reset that is to spare authentication failures clears none that was there
\* when it began, whatever deliveries and tests write meanwhile; only one that is
\* written between its read and its update may be lost.
ResetSparesAuth ==
  [][request.kind = "reset" /\ request'.kind = "none" =>
       \A a \in request.auth : row[a].error = "auth" => row'[a].error = "auth"]_vars

\* The cooldown after an error ends ("How long an SMTP stays in cooldown after
\* an error occurs", smtp-manager.tsx:2103): the account is used again.
CooldownEnds ==
  \A a \in Accounts :
    (row[a].health = "error" /\ row[a].error = "other" /\ row[a].cooldown = "running")
      ~> Eligible(row[a])
=============================================================================
