------------------------------- MODULE Captcha -------------------------------
(***************************************************************************)
(* The captcha of the public unsubscribe page.  Its row is kept in Redis,  *)
(* read, judged and written back as a whole; when Redis is slow or fails,  *)
(* a row in the memory of the process takes its place.                     *)
(***************************************************************************)
EXTENDS Integers, FiniteSets

CONSTANTS
  Verifiers,    \* confirmations that may be served at once
  MaxAttempts,
  MaxTries,     \* bound: confirmations
  RedisFaults   \* bound: calls to Redis that time out or fail

VARIABLES
  redis,     \* rows in Redis: {} or {[attempts, used]}
  local,     \* rows in localCaptchaStore: likewise
  creating,  \* createCaptcha: "no", "late" (its write is still on its way), "done"
  expired,   \* the time of the rows is up
  check,     \* verifyCaptcha: where each confirmation is
  tries, faults,
  accepted, wrong,  \* history: right and wrong codes that were judged
  stores,           \* history: rows ever made
  overlaps          \* history: confirmations that began while another ran

vars == <<redis, local, creating, expired, check, tries, faults, accepted, wrong, stores, overlaps>>
Rows == [attempts : 0..MaxAttempts, used : BOOLEAN]
Fresh == [attempts |-> 0, used |-> FALSE]
NoCheck == [pc |-> "idle", right |-> FALSE, row |-> Fresh]

CaptchaAssumption == IsFiniteSet(Verifiers) /\ MaxAttempts \in Nat

TypeOK ==
  /\ redis \subseteq Rows /\ local \subseteq Rows
  /\ Cardinality(redis) <= 1 /\ Cardinality(local) <= 1 /\ stores \in 0..2
  /\ \A v \in Verifiers : check[v].pc \in {"idle", "read", "write", "local"} /\ check[v].row \in Rows

Init ==
  /\ redis = {} /\ local = {} /\ creating = "no" /\ expired = FALSE
  /\ check = [v \in Verifiers |-> NoCheck] /\ tries = 0 /\ faults = 0
  /\ accepted = 0 /\ wrong = 0 /\ stores = 0 /\ overlaps = 0

Counts == <<tries, accepted, wrong, overlaps>>
Fault == faults < RedisFaults /\ faults' = faults + 1

\* createCaptcha: a write that times out is not taken back.
Create ==
  /\ creating = "no"
  /\ \/ /\ redis' = {Fresh} /\ creating' = "done" /\ UNCHANGED <<local, faults>>
     \/ /\ Fault /\ local' = {Fresh} /\ creating' \in {"late", "done"} /\ UNCHANGED redis
  /\ stores' = 1
  /\ UNCHANGED <<expired, check, Counts>>

LateCreate ==
  /\ creating = "late" /\ redis' = {Fresh} /\ creating' = "done" /\ stores' = 2
  /\ UNCHANGED <<local, expired, check, faults, Counts>>

\* Redis drops the row at its time; the local one only refuses.
Expire ==
  /\ creating = "done" /\ ~expired /\ expired' = TRUE /\ redis' = {}
  /\ UNCHANGED <<local, creating, check, faults, stores, Counts>>

Ask(v) ==
  /\ check[v].pc = "idle" /\ creating # "no" /\ tries < MaxTries
  /\ \E right \in BOOLEAN : check' = [check EXCEPT ![v] = [NoCheck EXCEPT !.pc = "read", !.right = right]]
  /\ tries' = tries + 1
  /\ overlaps' = IF \E w \in Verifiers : check[w].pc # "idle" THEN overlaps + 1 ELSE overlaps
  /\ UNCHANGED <<redis, local, creating, expired, faults, accepted, wrong, stores>>

Open(row) == ~row.used /\ ~expired /\ row.attempts < MaxAttempts
Judged(row, right) ==
  IF right THEN [row EXCEPT !.used = TRUE] ELSE [row EXCEPT !.attempts = @ + 1]
Score(right) ==
  /\ accepted' = IF right THEN accepted + 1 ELSE accepted
  /\ wrong' = IF right THEN wrong ELSE wrong + 1

Read(v) ==
  /\ check[v].pc = "read"
  /\ \/ \E row \in redis :
          /\ check' = [check EXCEPT ![v] = IF Open(row) THEN [@ EXCEPT !.pc = "write", !.row = row]
                                           ELSE NoCheck]
          /\ UNCHANGED faults
     \/ redis = {} /\ check' = [check EXCEPT ![v].pc = "local"] /\ UNCHANGED faults
     \/ Fault /\ check' = [check EXCEPT ![v].pc = "local"]
  /\ UNCHANGED <<redis, local, creating, expired, stores, Counts>>

\* Faulty variant: a right code leaves the row as it is.
WriteUnused(v) ==
  /\ check[v].pc = "write"
  /\ redis' = {IF check[v].right THEN check[v].row ELSE Judged(check[v].row, FALSE)}
  /\ check' = [check EXCEPT ![v] = NoCheck]
  /\ Score(check[v].right)
  /\ UNCHANGED <<faults, local, creating, expired, tries, stores, overlaps>>

\* The whole row is written, as it was read; an error, which may follow a write
\* that was made, falls back to the local row.
Write(v) ==
  LET written == {Judged(check[v].row, check[v].right)} IN
  /\ check[v].pc = "write"
  /\ \/ /\ redis' = written /\ check' = [check EXCEPT ![v] = NoCheck]
        /\ Score(check[v].right) /\ UNCHANGED faults
     \/ /\ Fault /\ redis' \in {redis, written} /\ check' = [check EXCEPT ![v].pc = "local"]
        /\ UNCHANGED <<accepted, wrong>>
  /\ UNCHANGED <<local, creating, expired, tries, stores, overlaps>>

VerifyLocal(v) ==
  LET open == {row \in local : Open(row)} IN
  /\ check[v].pc = "local"
  /\ local' = IF open = {} THEN local ELSE {Judged(row, check[v].right) : row \in open}
  /\ IF open = {} THEN UNCHANGED <<accepted, wrong>> ELSE Score(check[v].right)
  /\ check' = [check EXCEPT ![v] = NoCheck]
  /\ UNCHANGED <<redis, creating, expired, tries, faults, stores, overlaps>>

Next == Create \/ LateCreate \/ Expire \/ \E v \in Verifiers : Ask(v) \/ Read(v) \/ Write(v) \/ VerifyLocal(v)
Spec == Init /\ [][Next]_vars

\* A captcha is good for one right code and for so many wrong ones, in each
\* store that holds it; a confirmation that runs beside another gains at most
\* one more of either, although the row is read and written back without a lock.
CaptchaHolds ==
  /\ accepted <= stores + overlaps
  /\ wrong <= stores * MaxAttempts + overlaps
=============================================================================
