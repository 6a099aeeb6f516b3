----------------------------- MODULE ExternalLimit -----------------------------
(***************************************************************************)
(* The limit of the external API: requests of one client are counted in    *)
(* Redis, in windows that begin with a request; a process that does not    *)
(* reach Redis counts by itself.                                           *)
(***************************************************************************)
EXTENDS Integers, FiniteSetsExt

CONSTANTS
  Procs,      \* processes of the panel
  Redis,      \* the common counter
  Limit,      \* EXTERNAL_RATE_LIMIT_PER_MINUTE
  Length,     \* of a window, in ticks
  MaxClock,   \* bound
  MaxRequests, MaxFaults  \* bounds

Counters == Procs \cup {Redis}
Times == 0..MaxClock

VARIABLES
  clock,
  counter,    \* the counters: [count, until]
  requests, faults,
  counted, passed,  \* history: by counter and time
  unjust      \* history: a request was refused without cause

vars == <<clock, counter, requests, faults, counted, passed, unjust>>

TypeOK ==
  /\ clock \in Times /\ requests \in 0..MaxRequests /\ faults \in 0..MaxFaults /\ unjust \in BOOLEAN
  /\ counter \in [Counters -> [count : 0..MaxRequests, until : 0..MaxClock + Length]]
  /\ counted \in [Counters -> [Times -> Nat]] /\ passed \in [Counters -> [Times -> Nat]]

Zero == [c \in Counters |-> [t \in Times |-> 0]]
Init ==
  /\ clock = 0 /\ counter = [c \in Counters |-> [count |-> 0, until |-> 0]]
  /\ requests = 0 /\ faults = 0 /\ counted = Zero /\ passed = Zero /\ unjust = FALSE

Tick ==
  /\ clock < MaxClock /\ clock' = clock + 1
  /\ UNCHANGED <<counter, requests, faults, counted, passed, unjust>>

\* Faulty variant: every request moves the end of the window.
Prolonged(c) ==
  [count |-> IF clock >= counter[c].until THEN 1 ELSE counter[c].count + 1, until |-> clock + Length]

\* INCR with PEXPIRE at the first, in one script; the entry of localRateState.
Incremented(c) ==
  IF clock >= counter[c].until THEN [count |-> 1, until |-> clock + Length]
  ELSE [counter[c] EXCEPT !.count = @ + 1]

Recent(c) == MapThenSumSet(LAMBDA t : counted'[c][t], {t \in Times : t <= clock /\ t > clock - Length})

\* checkRateLimit: c is the counter that decides, C are the ones that count.
Decide(c, C) ==
  LET after == [d \in Counters |-> IF d \in C THEN Incremented(d) ELSE counter[d]] IN
  /\ requests < MaxRequests /\ requests' = requests + 1
  /\ counter' = after
  /\ counted' = [d \in Counters |-> [counted[d] EXCEPT ![clock] = @ + IF d \in C THEN 1 ELSE 0]]
  /\ IF after[c].count <= Limit
     THEN passed' = [passed EXCEPT ![c][clock] = @ + 1] /\ UNCHANGED unjust
     ELSE unjust' = (unjust \/ Recent(c) <= Limit) /\ UNCHANGED passed
  /\ UNCHANGED clock

Request == Decide(Redis, {Redis}) /\ UNCHANGED faults

\* Redis is out of reach, or its answer is lost.
RequestLocal(p) ==
  /\ faults < MaxFaults /\ faults' = faults + 1
  /\ Decide(p, {p}) \/ Decide(p, {p, Redis})

Next == Tick \/ Request \/ \E p \in Procs : RequestLocal(p)
Spec == Init /\ [][Next]_vars

\* Whatever becomes of Redis, no counter lets more than two windows' worth
\* through in the length of a window, and nobody is refused who has not made
\* more requests than the limit in that time: a window does end.
LimitHolds ==
  /\ ~unjust
  /\ \A c \in Counters : \A t \in Times :
       MapThenSumSet(LAMBDA s : passed[c][s], {s \in Times : s >= t /\ s < t + Length}) <= 2 * Limit
=============================================================================
