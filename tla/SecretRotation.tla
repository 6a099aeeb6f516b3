---------------------------- MODULE SecretRotation ----------------------------
(***************************************************************************)
(* The passwords of the SMTP accounts are encrypted with the first key of  *)
(* a ring that every process reads from its environment when it starts.    *)
(* A script encrypts them anew while panels are running that read them and *)
(* replace them, some of which have an older ring.                         *)
(***************************************************************************)
EXTENDS Integers

CONSTANTS
  Accounts,   \* numbers, in the order of their creation
  Procs,      \* processes that read passwords and replace them
  Scripts,    \* executions of rotate-smtp-secrets --apply
  MaxEdits    \* bound

VARIABLES
  secret,     \* passwordEncrypted: [ver, word]
  env,        \* the environment: 1 = the old key, 2 = the new one and the old one, 3 = the new one
  ring,       \* the ring of every process: the environment when it was started
  script,     \* [pc, stage, rows, staged]: what it read, and the accounts of its transaction
  edits,
  word,       \* history: the passwords that the operators chose last
  settled     \* history: scripts that read when every process knew the new key

vars == <<secret, env, ring, script, edits, word, settled>>

\* Versions: a legacy password is stored as it is; it is taken for an encrypted
\* one when it happens to have three colons.
Legacy == 0
Odd == 9
Secrets == [ver : {Legacy, 1, 2, Odd}, word : Nat]
Stages == 1..3

TypeOK ==
  /\ secret \in [Accounts -> Secrets] /\ word \in [Accounts -> Nat]
  /\ env \in Stages /\ ring \in [Procs -> Stages] /\ edits \in Nat
  /\ script \in [Scripts -> [pc : {"off", "update", "done", "failed"}, stage : Stages,
                             rows : [Accounts -> Secrets], staged : SUBSET Accounts]]
  /\ settled \subseteq Scripts

-----------------------------------------------------------------------------
(* The keys *)

\* parseKeyRing: the key that encrypts, and all that decrypt.
CurrentKey(stage) == IF stage = 1 THEN 1 ELSE 2
Keys(stage) == CASE stage = 1 -> {1} [] stage = 2 -> {1, 2} [] OTHER -> {2}

\* decryptSmtpSecret does not throw: an unknown version is tried with the
\* current key, in vain.
Readable(stage, s) == s.ver = Legacy \/ s.ver \in Keys(stage)

\* Whom the script encrypts anew; what it read tells whether it may.
Targets(s) == {a \in Accounts : script[s].rows[a].ver # CurrentKey(script[s].stage)}
Rotated(s, a) == [ver |-> CurrentKey(script[s].stage), word |-> script[s].rows[a].word]

\* verify-smtp-secrets, in the present environment: no failure, none stale.
Verified == \A a \in Accounts : Readable(env, secret[a]) /\ secret[a].ver = CurrentKey(env)

-----------------------------------------------------------------------------
(* Actions *)

Init ==
  /\ secret \in [Accounts -> {[ver |-> v, word |-> 0] : v \in {Legacy, 1, Odd}}]
  /\ env = 1 /\ ring = [p \in Procs |-> 1] /\ edits = 0 /\ settled = {}
  /\ word = [a \in Accounts |-> 0]
  /\ script = [s \in Scripts |-> [pc |-> "off", stage |-> 1, rows |-> secret, staged |-> {}]]

\* A row that a transaction has changed is locked until its end.
Locked(a) == \E s \in Scripts : a \in script[s].staged

\* PATCH with a password, which is no other account's and no earlier one.
Edit(p, a) ==
  /\ edits < MaxEdits /\ ~Locked(a) /\ edits' = edits + 1
  /\ secret' = [secret EXCEPT ![a] = [ver |-> CurrentKey(ring[p]), word |-> edits + 1]]
  /\ word' = [word EXCEPT ![a] = edits + 1]
  /\ UNCHANGED <<env, ring, script, settled>>

\* All rows are read and decrypted; one that is not readable ends the script.
ScriptRead(s) ==
  /\ script[s].pc = "off"
  /\ script' = [script EXCEPT ![s] = [pc |-> IF \A a \in Accounts : Readable(env, secret[a]) THEN "update" ELSE "failed",
                                      stage |-> env, rows |-> secret, staged |-> {}]]
  /\ settled' = IF env # 1 /\ \A p \in Procs : ring[p] # 1 THEN settled \cup {s} ELSE settled
  /\ UNCHANGED <<secret, env, ring, edits, word>>

NextTarget(s, a) == a \in Targets(s) \ script[s].staged /\ \A b \in Targets(s) \ script[s].staged : a <= b
Stage(s, a) == script' = [script EXCEPT ![s].staged = @ \cup {a}]
GiveUp(s) == script' = [script EXCEPT ![s].pc = "failed", ![s].staged = {}]

\* Faulty variant: the account is updated by its id alone.
ScriptUpdateBlind(s) ==
  /\ script[s].pc = "update" /\ \E a \in Accounts : NextTarget(s, a) /\ ~Locked(a) /\ Stage(s, a)
  /\ UNCHANGED <<secret, env, ring, edits, word, settled>>

\* The next account, unless somebody has its lock; when its row is no longer
\* the one that was read, everything is rolled back.
ScriptUpdate(s) ==
  /\ script[s].pc = "update"
  /\ \E a \in Accounts : /\ NextTarget(s, a) /\ ~Locked(a)
                         /\ IF secret[a] = script[s].rows[a] THEN Stage(s, a) ELSE GiveUp(s)
  /\ UNCHANGED <<secret, env, ring, edits, word, settled>>

ScriptCommit(s) ==
  /\ script[s].pc = "update" /\ Targets(s) \subseteq script[s].staged
  /\ secret' = [a \in Accounts |-> IF a \in script[s].staged THEN Rotated(s, a) ELSE secret[a]]
  /\ script' = [script EXCEPT ![s].pc = "done", ![s].staged = {}]
  /\ UNCHANGED <<env, ring, edits, word, settled>>

\* An error of the database, or the script is killed.
ScriptDies(s) ==
  /\ script[s].pc = "update" /\ GiveUp(s)
  /\ UNCHANGED <<secret, env, ring, edits, word, settled>>

\* The operator adds the new key, restarts a process, and removes the old key
\* once every process knows the new one and the passwords are verified.
Introduce ==
  /\ env = 1 /\ env' = 2 /\ UNCHANGED <<secret, ring, script, edits, word, settled>>
Restart(p) ==
  /\ ring[p] # env /\ ring' = [ring EXCEPT ![p] = env]
  /\ UNCHANGED <<secret, env, script, edits, word, settled>>
Retire ==
  /\ env = 2 /\ (\A p \in Procs : ring[p] = 2) /\ Verified /\ env' = 3
  /\ UNCHANGED <<secret, ring, script, edits, word, settled>>

Next ==
  \/ \E p \in Procs : Restart(p) \/ \E a \in Accounts : Edit(p, a)
  \/ \E s \in Scripts : ScriptRead(s) \/ ScriptUpdate(s) \/ ScriptCommit(s) \/ ScriptDies(s)
  \/ Introduce \/ Retire

Spec == Init /\ [][Next]_vars

-----------------------------------------------------------------------------
(* Properties *)

\* Whatever scripts and panels do at the same time, an account has the password
\* that was chosen for it last.
WordsAreKept == \A a \in Accounts : secret[a].word = word[a]

\* A script that committed, and had read when every process knew the new key,
\* leaves nothing encrypted with the old one, for good.
RotationIsComplete ==
  \A s \in settled : script[s].pc = "done" => \A a \in Accounts : secret[a].ver = 2

\* A process that knows the new key reads every password, also after the old
\* key is gone, but for legacy ones with three colons.
EverybodyReads ==
  \A p \in Procs : ring[p] # 1 => \A a \in Accounts : secret[a].ver # Odd => Readable(ring[p], secret[a])
=============================================================================
