------------------------------- MODULE Pacing -------------------------------
(***************************************************************************)
(* How a worker paces the mails of one SMTP account, and how it shares a   *)
(* batch between campaigns.  Deliveries that have resolved their rate poll *)
(* one token bucket, which is made anew whenever the rate asked for is not *)
(* the one it was made for.  Tokens are counted in quarters.               *)
(***************************************************************************)
EXTENDS Integers, Sequences, FiniteSets, FiniteSetsExt

CONSTANTS
  Slots,      \* deliveries of the account under way at once
  Rates,      \* rates they may have resolved, in quarters of a mail per tick
  MaxWait,    \* RATE_LIMIT_WAIT_TIMEOUT_MS, in ticks
  MaxClock,   \* bound: ticks
  Campaigns,  \* number of campaigns with pending recipients
  MaxPending, \* bound: pending recipients of a campaign
  Guard       \* visits per job after which a batch gives up (8 in the code)

VARIABLES
  clock,
  bucket,    \* {} or {[rate, tokens, last]}
  slot,      \* the deliveries: the rate they have resolved and their wait
  sent,      \* history: mails sent by this bucket
  born,      \* history: when the bucket was made
  cursor,    \* of FairCampaignScheduler
  remaining, \* recipients of each campaign, in the order of priority
  batch      \* history: what the last batch took, and from what

vars == <<clock, bucket, slot, sent, born, cursor, remaining, batch>>
Lane == <<clock, bucket, slot, sent, born>>
Fair == <<cursor, remaining, batch>>

Idle == [pc |-> "idle", rate |-> 0, waited |-> 0, next |-> 0]
NoBatch == [max |-> 0, from |-> <<>>, took |-> <<>>]
Indices == 1..Campaigns

PacingAssumption == Rates \subseteq Nat \ {0} /\ MaxClock \in Nat

TypeOK ==
  /\ clock \in 0..MaxClock /\ born \in 0..MaxClock /\ sent \in Nat
  /\ \A b \in bucket : b \in [rate : Rates, tokens : Nat, last : 0..MaxClock]
  /\ slot \in [Slots -> [pc : {"idle", "waiting"}, rate : Rates \cup {0}, waited : 0..MaxWait,
                         next : 0..(2 * MaxClock + MaxWait)]]
  /\ cursor \in Nat /\ remaining \in [Indices -> 0..MaxPending]

Init ==
  /\ clock = 0 /\ bucket = {} /\ slot = [s \in Slots |-> Idle] /\ sent = 0 /\ born = 0
  /\ cursor = 0 /\ remaining \in [Indices -> 0..MaxPending] /\ batch = NoBatch

-----------------------------------------------------------------------------
(* The token bucket *)

Capacity(rate) == IF rate > 4 THEN rate ELSE 4
NewBucket(rate) == [rate |-> rate, tokens |-> Capacity(rate), last |-> clock]

\* Faulty variant: the time of the refill is not noted.
RefillUnnoted(b) ==
  [b EXCEPT !.tokens = Min({Capacity(b.rate), @ + (clock - b.last) * b.rate})]
Refill(b) ==
  [b EXCEPT !.tokens = Min({Capacity(b.rate), @ + (clock - b.last) * b.rate}), !.last = clock]

\* The delay between two polls, at most one second.
Delay(rate) == IF rate >= 4 THEN 1 ELSE 4 \div rate

Resolve(s) ==
  /\ slot[s].pc = "idle" /\ clock < MaxClock
  /\ \E r \in Rates : slot' = [slot EXCEPT ![s] = [Idle EXCEPT !.pc = "waiting", !.rate = r, !.next = clock]]
  /\ UNCHANGED <<clock, bucket, sent, born, Fair>>

\* canDispatch, once the delay is over: a mail, another wait, or the timeout.
Poll(s) ==
  LET r == slot[s].rate
      kept == {b \in bucket : b.rate = r}
      b == Refill(IF kept = {} THEN NewBucket(r) ELSE CHOOSE k \in kept : TRUE)
      take == b.tokens >= 4
      waited == slot[s].waited + Delay(r)
  IN /\ slot[s].pc = "waiting" /\ slot[s].next <= clock
     /\ bucket' = {[b EXCEPT !.tokens = IF take THEN @ - 4 ELSE @]}
     /\ sent' = (IF kept = {} THEN 0 ELSE sent) + (IF take THEN 1 ELSE 0)
     /\ born' = IF kept = {} THEN clock ELSE born
     /\ slot' = [slot EXCEPT ![s] =
                   IF take \/ waited > MaxWait THEN Idle
                   ELSE [@ EXCEPT !.waited = waited, !.next = clock + Delay(r)]]
     /\ UNCHANGED <<clock, Fair>>

Tick ==
  /\ clock < MaxClock /\ clock' = clock + 1
  /\ UNCHANGED <<bucket, slot, sent, born, Fair>>

-----------------------------------------------------------------------------
(* The round-robin of campaigns *)

\* The loop of nextBatch over the runnable campaigns `run'.
Visit(run, max) ==
  LET f[k \in 0..(Guard * max)] ==
        IF k = 0 THEN [cursor |-> cursor, left |-> [i \in 1..Len(run) |-> remaining[run[i]]], n |-> 0]
        ELSE LET v == f[k - 1]  i == (v.cursor % Len(run)) + 1
             IN IF v.n = max THEN v
                ELSE IF v.left[i] = 0 THEN [v EXCEPT !.cursor = @ + 1]
                ELSE [cursor |-> v.cursor + 1, left |-> [v.left EXCEPT ![i] = @ - 1], n |-> v.n + 1]
  IN f[Guard * max]

NextBatch(max) ==
  LET run == SelectSeq([i \in Indices |-> i], LAMBDA i : remaining[i] > 0)
      end == Visit(run, max)
      rest == [i \in Indices |->
                 IF \E k \in 1..Len(run) : run[k] = i
                   THEN end.left[CHOOSE k \in 1..Len(run) : run[k] = i] ELSE 0]
  IN /\ Len(run) > 0
     \* the cursor only counts modulo the number of runnable campaigns
     /\ cursor' = end.cursor % 60
     /\ remaining' = rest
     /\ batch' = [max |-> max, from |-> remaining,
                  took |-> [i \in Indices |-> remaining[i] - rest[i]]]
     /\ UNCHANGED Lane

\* Recipients become pending again, or a campaign is started.
Arrive(i) ==
  /\ remaining[i] = 0 /\ remaining' = [remaining EXCEPT ![i] = MaxPending]
  /\ UNCHANGED <<cursor, batch, Lane>>

-----------------------------------------------------------------------------
(* Specification *)

Next ==
  \/ Tick \/ \E s \in Slots : Resolve(s) \/ Poll(s)
  \/ \E i \in Indices : Arrive(i)
  \/ \E max \in 1..MaxPending : NextBatch(max)

Spec == Init /\ [][Next]_vars

-----------------------------------------------------------------------------
(* Properties *)

\* As long as the rate does not change, an account sends no more than the
\* bucket held at first and what the rate has added since.
Paced ==
  \A b \in bucket : 4 * sent <= Capacity(b.rate) + b.rate * (clock - born)

Total(f) == MapThenSumSet(LAMBDA i : f[i], DOMAIN f)

\* A batch is shared out evenly: of two campaigns that both have recipients
\* left, neither was served more than once more than the other.  And it is full,
\* or all that was pending, unless there are more runnable campaigns than visits
\* per job.
FairBatches ==
  /\ \A i, j \in DOMAIN batch.took :
       batch.from[i] > batch.took[i] /\ batch.from[j] > batch.took[j]
         => batch.took[i] <= batch.took[j] + 1
  /\ batch.max > 0 /\ Cardinality({i \in Indices : batch.from[i] > 0}) <= Guard
       => Total(batch.took) = Min({batch.max, Total(batch.from)})
=============================================================================
