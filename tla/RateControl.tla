---------------------------- MODULE RateControl ----------------------------
(***************************************************************************)
(* How fast an SMTP account may send.  Operators plan a daily target: the  *)
(* request spreads it over the usable accounts, row by row, then writes    *)
(* the pool settings, the running campaigns, a summary and at last a stamp *)
(* that tells the workers to drop their cached summary.  A worker derives  *)
(* the rate of an account from its row, its deliveries and that summary.   *)
(* Rates are in millionths of a mail per second.                           *)
(***************************************************************************)
EXTENDS Integers, FiniteSets, FiniteSetsExt

CONSTANTS
  Accounts,   \* numbered in the order in which a request updates them
  Kinds,      \* what host and label of the accounts may look like: functions
              \* to {"smtpdm", "label", "host", "plain"}
  Plans,      \* payloads of apply-daily-target
  Requests,   \* apply-daily-target requests that may be served at once
  Calls,      \* deliveries of one worker that may resolve a rate at once
  Delivered,  \* successful deliveries an account may have
  Budgets     \* how often each event may happen, one scenario each

States == {"ok", "throttled", "expired", "error", "auth", "inactive"}

VARIABLES
  acct,     \* SmtpAccount: state, deliveries, rates, warm-up and caps
  pool,     \* smtp_pool_settings: warmupPolicy and targetPerSmtpRps
  lanes,    \* smtpPoolConfig.smtpIds of the running campaign
  summary,  \* smtp_daily_target_summary: warmupPolicy and targetPerSmtpRps
  bust,     \* smtp_runtime_cache_bust.ts
  req,      \* requests under way
  cache,    \* cachedDailyTargetSummary: {} or {value}
  seen,     \* lastSeenSummaryBustTs
  call,     \* calls of getDailyTargetSummaryCached under way
  left,     \* what remains of the budget
  plan,     \* history: the last plan, if nothing else happened meanwhile
  raced,    \* history: a cache was dropped while a call was filling it
  blind     \* history: a read behind what is cached had failed

vars == <<acct, pool, lanes, summary, bust, req, cache, seen, call, left, plan, raced, blind>>

One == 1000000
Least(a, b) == IF a <= b THEN a ELSE b
Most(a, b) == IF a >= b THEN a ELSE b
Rounded(a, b) == (a + b \div 2) \div b
Ceil(a, b) == (a + b - 1) \div b
R4(x) == Most(10000, 100 * Rounded(x, 100))

NoRate == 0
NoValue == [policy |-> "none", per |-> 0]
NoPlan == [on |-> {}, target |-> 0, policy |-> "none", per |-> 0]
NoRequest == [pc |-> "idle", plan |-> NoPlan, todo |-> {}, old |-> {}]
NoCall == [pc |-> "idle", value |-> NoValue, failed |-> FALSE]

\* Every plan names a policy.
RateAssumption == \A p \in Plans : "policy" \in DOMAIN p /\ p.policy # "none"

TypeOK ==
  /\ acct \in [Accounts -> [kind : {"smtpdm", "label", "host", "plain"}, state : States, sent : Delivered, target : Nat, max : Nat,
                 aliCap : Nat, aliWarm : Nat, wOn : BOOLEAN, wStart : Nat, wStep : Nat,
                 wMax : Nat, daily : Nat, hourly : Nat, minute : Nat]]
  /\ lanes \subseteq Accounts /\ bust \in Nat /\ seen \in 0..bust /\ {raced, blind} \subseteq BOOLEAN
  /\ \A v \in {pool, summary} \cup cache :
       v \in [policy : {"none", "automatic", "force_target", "conservative"}, per : Nat]
  /\ Cardinality(cache) <= 1
  /\ \A r \in Requests : req[r].pc \in {"idle", "planner", "rows", "pool", "lanes", "summary", "bust"}
  /\ \A c \in Calls : call[c].pc \in {"idle", "bust", "summary", "pool"}

-----------------------------------------------------------------------------
(* The rate a worker uses *)

\* Three places decide whether an account is Alibaba's, each in its own way.
HostIsAlibaba(row) == row.kind \in {"smtpdm", "host"}
LooksAlibaba(row) == row.kind # "plain"
OperatorSaysAlibaba(row) == row.kind \in {"smtpdm", "label"}
SafeCap(alibaba) == IF alibaba THEN 15 * One ELSE 5 * One

Ladder == {<<0, 1>>, <<501, 2>>, <<2001, 3>>, <<5001, 5>>, <<10001, 8>>, <<25001, 10>>, <<50001, 15>>}

\* resolveWarmupTier: the last tier that has been reached.
Tier(sent) ==
  LET reached == {t \in Ladder : t[1] <= sent}
  IN (CHOOSE t \in reached : \A u \in reached : u[1] <= t[1])[2] * One

\* Faulty variant: the warm-up cap is taken from one column.
CalculateEffectiveRateRaw(row) ==
  LET limits == {row.target}
        \cup (IF HostIsAlibaba(row) /\ row.aliCap # NoRate THEN {row.aliCap} ELSE {})
        \cup (IF row.max # NoRate THEN {row.max} ELSE {})
        \cup (IF HostIsAlibaba(row) THEN {Tier(row.sent)} ELSE {})
        \cup (IF HostIsAlibaba(row) /\ row.aliWarm > 0 THEN {row.aliWarm} ELSE {})
  IN R4(Min(limits))

CalculateEffectiveRate(row) ==
  LET warm == Most(row.aliWarm, Most(row.wMax, row.target))
      limits == {row.target}
        \cup (IF HostIsAlibaba(row) /\ row.aliCap # NoRate THEN {row.aliCap} ELSE {})
        \cup (IF row.max # NoRate THEN {row.max} ELSE {})
        \cup (IF HostIsAlibaba(row) THEN {Tier(row.sent)} ELSE {})
        \cup (IF HostIsAlibaba(row) /\ warm > 0 THEN {warm} ELSE {})
  IN R4(Min(limits))

Forced(row, value) ==
  value.policy = "force_target" /\ value.per > 0 /\ row.state \in {"ok", "inactive"}
ManualLock(row, value) == row.max > 0 /\ row.max + 100 < value.per
ForcedRate(row, value) ==
  R4(Min({value.per, IF ManualLock(row, value) THEN row.max ELSE value.per,
          SafeCap(LooksAlibaba(row))}))

\* getEffectiveRateForSmtp.
EffectiveRate(row, value) ==
  LET base == CalculateEffectiveRate(row)
      custom == Least(Most(row.wMax, Most(row.target, row.aliWarm)),
                      row.wStart + (row.sent \div 1000) * row.wStep)
  IN CASE Forced(row, value) -> ForcedRate(row, value)
       [] ~Forced(row, value) /\ row.state \in {"throttled", "expired"} -> R4(base \div 2)
       [] ~Forced(row, value) /\ row.state \notin {"throttled", "expired"} ->
            IF row.wOn THEN R4(Least(base, custom)) ELSE base

-----------------------------------------------------------------------------
(* What a plan writes *)

\* Faulty variant: the shares are rounded down.
SharesDown(target, n) ==
  LET daily == Most(1, target \div n)
      hourly == Most(1, daily \div 24)
  IN [daily |-> daily, hourly |-> hourly, minute |-> Most(1, hourly \div 60)]

Shares(target, n) ==
  LET daily == Most(1, Ceil(target, n))
      hourly == Most(1, Ceil(daily, 24))
  IN [daily |-> daily, hourly |-> hourly, minute |-> Most(1, Ceil(hourly, 60))]

TotalRate(target) == Rounded(target * 625, 54)
PerSmtp(target, n) == Rounded(TotalRate(target), n)

\* warmupLadderRps, the operator's copy of the ladder.
WarmupLadderRps(sent, rate) ==
  LET bound == {<<500, 1>>, <<2000, 2>>, <<5000, 3>>, <<10000, 5>>, <<25000, 8>>, <<50000, 10>>}
      above == {b \in bound : sent <= b[1]}
  IN Least(rate, One * IF above = {} THEN 15
                       ELSE (CHOOSE b \in above : \A c \in above : b[1] <= c[1])[2])

Desired(row, per) == Least(SafeCap(OperatorSaysAlibaba(row)), per)

RecommendedCap(old, p, desired) ==
  LET tier == WarmupLadderRps(old.sent, desired)
  IN CASE p.policy = "force_target" \/ (p.forWarmed /\ old.sent >= 5000) -> desired
       [] p.policy = "conservative" /\ ~(p.forWarmed /\ old.sent >= 5000) ->
            Most(One \div 2, Least(tier, 2 * One))
       [] OTHER -> tier

\* The update of one account: `old' is the row the request has read.
Planned(row, old, p, n) ==
  LET desired == Desired(row, PerSmtp(p.target, n))
      cap == RecommendedCap(old, p, desired)
      safe == R4(desired)
      warm == R4(Least(SafeCap(OperatorSaysAlibaba(row)),
                   Max({old.wMax, cap, IF p.policy = "force_target" THEN safe ELSE cap,
                        IF p.toTarget THEN safe ELSE 0})))
      s == Shares(p.target, n)
  IN [row EXCEPT
        !.target = safe, !.max = safe,
        !.aliCap = IF OperatorSaysAlibaba(row) THEN Least(15 * One, safe) ELSE NoRate,
        !.wOn = @ \/ p.auto,
        !.wStart = R4(Most(One \div 10, Least(safe, Most(One \div 2, (safe * 35) \div 100)))),
        !.wStep = R4(Most(One \div 10, Least(2 * One, safe \div 2))),
        !.wMax = warm, !.aliWarm = IF OperatorSaysAlibaba(row) THEN warm ELSE NoRate,
        !.daily = s.daily, !.hourly = s.hourly, !.minute = s.minute,
        !.state = IF @ = "expired" /\ old.state = "expired" THEN "ok" ELSE @]

-----------------------------------------------------------------------------
(* Requests *)

Init ==
  /\ \E kind \in Kinds, n \in Delivered :
       acct = [a \in Accounts |-> [kind |-> kind[a], state |-> "ok", sent |-> n, target |-> One,
                 max |-> NoRate, aliCap |-> NoRate, aliWarm |-> NoRate, wOn |-> FALSE,
                 wStart |-> One, wStep |-> One, wMax |-> NoRate, daily |-> 0, hourly |-> 0,
                 minute |-> 0]]
  /\ pool = NoValue /\ lanes = {} /\ summary = NoValue /\ bust = 0
  /\ req = [r \in Requests |-> NoRequest]
  /\ cache = {} /\ seen = 0 /\ call = [c \in Calls |-> NoCall]
  /\ left \in Budgets /\ plan = NoPlan /\ raced = FALSE /\ blind = FALSE

Spend(e) == left[e] > 0 /\ left' = [left EXCEPT ![e] = @ - 1]
Worker == <<cache, seen, call, raced, blind>>
Settings == <<pool, lanes, summary, bust>>
Quiet == \A r \in Requests : req[r].pc = "idle"

Usable(p) ==
  {a \in Accounts : acct[a].state \in {"ok", "expired"} \cup (IF p.strict THEN {} ELSE {"error"})}

\* The request reads the active accounts and their deliveries, once.
ApplyRead(r, p) ==
  LET on == Usable(p) IN
  /\ req[r].pc = "idle" /\ on # {} /\ Spend("apply")
  /\ req' = [req EXCEPT ![r] = [pc |-> "rows", todo |-> on, old |-> {acct}, plan |->
               [p EXCEPT !.on = on, !.per = PerSmtp(p.target, Cardinality(on))]]]
  /\ plan' = IF Quiet THEN req'[r].plan ELSE NoPlan
  /\ UNCHANGED <<acct, Settings, Worker>>

\* One account after the other; an account that is inactive by now is skipped.
ApplyRow(r) ==
  LET a == Min(req[r].todo)
      p == req[r].plan
      old == CHOOSE rows \in req[r].old : TRUE
  IN /\ req[r].pc = "rows" /\ req[r].todo # {}
     /\ acct' = IF acct[a].state = "inactive" THEN acct
                ELSE [acct EXCEPT ![a] = Planned(@, old[a], p, Cardinality(p.on))]
     /\ req' = [req EXCEPT ![r].todo = @ \ {a},
                  ![r].pc = IF req[r].todo = {a} THEN "pool" ELSE "rows"]
     /\ UNCHANGED <<Settings, Worker, left, plan>>

\* smtp_pool_settings and the running campaigns.
ApplyPool(r) ==
  /\ req[r].pc = "pool"
  /\ pool' = [policy |-> req[r].plan.policy, per |-> req[r].plan.per]
  /\ req' = [req EXCEPT ![r].pc = "lanes"]
  /\ UNCHANGED <<acct, lanes, summary, bust, Worker, left, plan>>

ApplyLanes(r) ==
  /\ req[r].pc = "lanes"
  /\ lanes' = req[r].plan.on
  /\ req' = [req EXCEPT ![r].pc = "summary"]
  /\ UNCHANGED <<acct, pool, summary, bust, Worker, left, plan>>

ApplySummary(r) ==
  /\ req[r].pc = "summary"
  /\ summary' = [policy |-> req[r].plan.policy, per |-> req[r].plan.per]
  /\ req' = [req EXCEPT ![r].pc = "bust"]
  /\ UNCHANGED <<acct, pool, lanes, bust, Worker, left, plan>>

ApplyBust(r) ==
  /\ req[r].pc = "bust"
  /\ bust' = bust + 1
  /\ req' = [req EXCEPT ![r] = NoRequest]
  /\ UNCHANGED <<acct, pool, lanes, summary, Worker, left, plan>>

\* apply-rate-planner, and the preset daily_target of bulk-rate-warmup: both count
\* the accounts first ...
Qualify == {a \in Accounts : acct[a].state = "ok"}
RatePlanner(r, target) ==
  /\ req[r].pc = "idle" /\ Qualify # {} /\ Spend("planner")
  /\ req' = [req EXCEPT ![r] = [NoRequest EXCEPT !.pc = "planner",
               !.plan = [NoPlan EXCEPT !.on = Qualify, !.target = target]]]
  /\ plan' = IF Quiet THEN req'[r].plan ELSE NoPlan
  /\ UNCHANGED <<acct, Settings, Worker>>

\* ... and then write one share to all of them at once: the planner to those that
\* qualify by now, the preset to those it has counted.
RatePlannerWrite(r) ==
  LET p == req[r].plan
      rate == PerSmtp(p.target, Cardinality(p.on))
      s == Shares(p.target, Cardinality(p.on))
  IN /\ req[r].pc = "planner"
     /\ \E on \in {Qualify, p.on} :
          acct' = [a \in Accounts |-> IF a \notin on THEN acct[a]
                     ELSE [acct[a] EXCEPT !.target = rate, !.max = rate, !.daily = s.daily,
                             !.hourly = s.hourly, !.minute = s.minute]]
     /\ req' = [req EXCEPT ![r] = NoRequest]
     /\ UNCHANGED <<Settings, Worker, left, plan>>

\* PATCH of the pool settings writes the whole value anew.
PatchPool ==
  /\ Spend("patch")
  /\ pool' = NoValue
  /\ UNCHANGED <<acct, lanes, summary, bust, req, Worker, plan>>

\* Deliveries, safety, tests and operators change an account.
Change(a) ==
  /\ Spend("change")
  /\ \E s \in States, n \in {n \in Delivered : n >= acct[a].sent} :
       acct' = [acct EXCEPT ![a].state = s, ![a].sent = n]
  /\ plan' = IF Quiet THEN plan ELSE NoPlan
  /\ UNCHANGED <<Settings, req, Worker>>

-----------------------------------------------------------------------------
(* The worker's copy of the summary *)

\* The stamp is looked at once in two seconds ...
Call(c) ==
  /\ call[c].pc = "idle" /\ Spend("call")
  /\ \E pc \in {"bust", "summary"} :
       /\ pc = "summary" => cache = {}
       /\ call' = [call EXCEPT ![c].pc = pc]
  /\ UNCHANGED <<acct, Settings, req, cache, seen, plan, raced, blind>>

\* ... and a new one empties the cache; a stamp that cannot be read counts as none.
ReadBust(c) ==
  /\ call[c].pc = "bust"
  /\ \E new \in BOOLEAN :
       /\ new => bust > seen
       /\ seen' = IF new THEN bust ELSE seen
       /\ cache' = IF new THEN {} ELSE cache
       /\ raced' = (raced \/ (new /\ \E d \in Calls \ {c} : call[d].pc = "pool"))
  /\ call' = [call EXCEPT ![c].pc = IF cache' = {} THEN "summary" ELSE "idle"]
  /\ UNCHANGED <<acct, Settings, req, left, plan, blind>>

\* The error of a read that fails is swallowed: the value counts as missing.
ReadSummary(c) ==
  /\ call[c].pc = "summary"
  /\ \E failed \in BOOLEAN :
       call' = [call EXCEPT ![c] =
                 [pc |-> "pool", value |-> IF failed THEN NoValue ELSE summary, failed |-> failed]]
  /\ UNCHANGED <<acct, Settings, req, cache, seen, left, plan, raced, blind>>

\* What the summary lacks comes from the pool settings, and is cached whether or
\* not the two could be read.
ReadPool(c) ==
  /\ call[c].pc = "pool"
  /\ \E settings \in {pool, NoValue} :
       cache' = {IF call[c].value = NoValue THEN settings ELSE call[c].value}
  /\ blind' = call[c].failed
  /\ call' = [call EXCEPT ![c] = NoCall]
  /\ UNCHANGED <<acct, Settings, req, seen, left, plan, raced>>

CacheExpires ==
  /\ cache # {} /\ cache' = {}
  /\ UNCHANGED <<acct, Settings, req, seen, call, left, plan, raced, blind>>

-----------------------------------------------------------------------------
(* Specification *)

Apply(r) ==
  ApplyRow(r) \/ ApplyPool(r) \/ ApplyLanes(r) \/ ApplySummary(r) \/ ApplyBust(r) \/ RatePlannerWrite(r)
Resolve(c) == Call(c) \/ ReadBust(c) \/ ReadSummary(c) \/ ReadPool(c)

Next ==
  \/ \E r \in Requests : Apply(r) \/ \E p \in Plans : ApplyRead(r, p) \/ RatePlanner(r, p.target)
  \/ PatchPool \/ CacheExpires
  \/ \E a \in Accounts : Change(a)
  \/ \E c \in Calls : Resolve(c)

Spec == Init /\ [][Next]_vars

-----------------------------------------------------------------------------
(* Properties *)

\* The accounts of a plan that ran alone can carry its daily target: neither the
\* daily, the hourly nor the minute cap of any of them stands in the way.
PlanCovers ==
  Quiet /\ plan # NoPlan =>
    /\ MapThenSumSet(LAMBDA a : acct[a].daily, plan.on) >= plan.target
    /\ \A a \in plan.on : /\ 24 * acct[a].hourly >= acct[a].daily
                          /\ 60 * acct[a].minute >= acct[a].hourly

\* After a plan that ran alone no limit that the plan itself has written holds
\* the worker back, however host and label of the account are read: an account
\* that has been warmed up sends at its share of the target, but for the caps of
\* its provider, and the policy force_target is not taken for a manual limit
\* lower than the target, although its rows are rounded.
PlanIsReached ==
  Quiet /\ plan.policy # "none" =>
    \A a \in plan.on :
      /\ acct[a].state = "ok" /\ acct[a].sent > 50000 =>
           EffectiveRate(acct[a], NoValue) >= R4(Desired(acct[a], plan.per))
      /\ plan.policy = "force_target" /\ plan.per <= SafeCap(OperatorSaysAlibaba(acct[a])) =>
           ~ManualLock(acct[a], summary)

\* A worker that has seen the last stamp does not use an older summary, unless
\* the cache was emptied while another call was filling it, or the summary could
\* not be read when the cache was filled.
SeenMeansFresh ==
  (seen = bust /\ bust > 0 /\ ~raced /\ ~blind /\ \A r \in Requests : req[r].pc # "bust")
    => cache \subseteq {summary}
=============================================================================
