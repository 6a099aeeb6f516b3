--------------------------- MODULE PanelProofs ---------------------------
(***************************************************************************)
(* Proofs about the requests and pages of the panel: each part keeps what  *)
(* its module promises, for every value of its constants.                  *)
(***************************************************************************)
EXTENDS PanelParts, FiniteSetTheorems, TLAPS

Memberships == INSTANCE AudienceProofs WITH Starts <- Situations, req <- serving

\* The finite sets of a module are those of this one.
LEMMA CaptchaFinite == \A S : Captcha!IsFiniteSet(S) <=> IsFiniteSet(S)
BY DEF Captcha!IsFiniteSet, IsFiniteSet

LEMMA ManualFinite == \A S : Manual!IsFiniteSet(S) <=> IsFiniteSet(S)
BY DEF Manual!IsFiniteSet, IsFiniteSet

LEMMA TracksFinite == \A S : Tracks!IsFiniteSet(S) <=> IsFiniteSet(S)
BY DEF Tracks!IsFiniteSet, IsFiniteSet

-----------------------------------------------------------------------------
(* Captcha *)

CaptchaTypes ==
  /\ redis \subseteq Captcha!Rows /\ local \subseteq Captcha!Rows
  /\ check \in [Verifiers -> [pc : {"idle", "read", "write", "local"}, right : BOOLEAN, row : Captcha!Rows]]
  /\ stores \in 0..2 /\ {accepted, wrong, overlaps} \subseteq Nat
  /\ creating = "no" => redis = {} /\ local = {} /\ stores = 0 /\ \A v \in Verifiers : check[v].pc = "idle"
  /\ creating = "late" => stores = 1

Running == {v \in Verifiers : check[v].pc # "idle"}
Writing(v) == check[v].pc = "write"

\* What the stores are still good for: r in Redis, where a confirmation that has
\* read a row will put it back, and l in the process.  Of the confirmations that
\* run, all but one began beside another: s of them.
RightLeft(r, l, s) ==
  /\ \A row \in redis : ~row.used => r = 1
  /\ \A v \in Verifiers : Writing(v) => r = 1
  /\ \A row \in local : ~row.used => l = 1
  /\ Cardinality(Running) <= s + 1
  /\ accepted + r + l + s <= stores + overlaps
WrongLeft(r, l, s) ==
  /\ \A row \in redis : MaxAttempts - row.attempts <= r
  /\ \A v \in Verifiers : Writing(v) => check[v].row.attempts < MaxAttempts /\ MaxAttempts - check[v].row.attempts <= r
  /\ \A row \in local : MaxAttempts - row.attempts <= l
  /\ Cardinality(Running) <= s + 1
  /\ wrong + r + l + s <= stores * MaxAttempts + overlaps

CaptchaInv ==
  /\ CaptchaTypes
  /\ \E r, l \in 0..1, s \in Nat : RightLeft(r, l, s)
  /\ \E r, l \in 0..MaxAttempts, s \in Nat : WrongLeft(r, l, s)

CheckRecords == [pc : {"idle", "read", "write", "local"}, right : BOOLEAN, row : Captcha!Rows]

LEMMA CaptchaInit == ASSUME Captcha!CaptchaAssumption PROVE Captcha!Init => CaptchaInv
<1> SUFFICES ASSUME Captcha!Init PROVE CaptchaInv
  OBVIOUS
<1> USE DEF Captcha!Init
<1>1. Captcha!NoCheck \in CheckRecords /\ Captcha!NoCheck.pc = "idle"
  BY DEF Captcha!CaptchaAssumption, Captcha!NoCheck, Captcha!Fresh, CheckRecords, Captcha!Rows
<1>2. CaptchaTypes
  BY <1>1 DEF CaptchaTypes, CheckRecords
<1>3. Running = {} /\ \A v \in Verifiers : ~Writing(v)
  BY <1>1 DEF Running, Writing
<1>4. Cardinality(Running) = 0
  BY <1>3, FS_EmptySet
<1>5. RightLeft(0, 0, 0) /\ WrongLeft(0, 0, 0)
  BY <1>3, <1>4 DEF RightLeft, WrongLeft, Captcha!CaptchaAssumption
<1>6. QED  BY <1>2, <1>5 DEF CaptchaInv, Captcha!CaptchaAssumption

LEMMA CaptchaRunning ==
  ASSUME Captcha!CaptchaAssumption
  PROVE  IsFiniteSet(Running) /\ Cardinality(Running) \in Nat
BY FS_Subset, FS_CardinalityType, CaptchaFinite DEF Running, Captcha!CaptchaAssumption

LEMMA CaptchaRows ==
  ASSUME Captcha!CaptchaAssumption
  PROVE  /\ Captcha!Fresh \in Captcha!Rows /\ ~Captcha!Fresh.used /\ Captcha!Fresh.attempts = 0
         /\ \A row \in Captcha!Rows : row.attempts \in 0..MaxAttempts
BY DEF Captcha!CaptchaAssumption, Captcha!Fresh, Captcha!Rows

LEMMA CaptchaCreate ==
  ASSUME Captcha!CaptchaAssumption, CaptchaInv, Captcha!Create
  PROVE  CaptchaInv'
<1> USE DEF CaptchaInv, Captcha!Counts
<1>1. /\ creating = "no" /\ stores' = 1 /\ stores = 0 /\ redis = {} /\ local = {}
      /\ UNCHANGED <<check, accepted, wrong, overlaps>>
      /\ \/ redis' = {Captcha!Fresh} /\ local' = {} /\ creating' = "done"
         \/ redis' = {} /\ local' = {Captcha!Fresh} /\ creating' \in {"late", "done"}
  BY DEF Captcha!Create, CaptchaTypes
<1>2. CaptchaTypes'
  BY <1>1, CaptchaRows DEF CaptchaTypes
<1>3. Running' = Running /\ \A v \in Verifiers : Writing(v)' <=> Writing(v)
  BY <1>1 DEF Running, Writing
<1>4. Cardinality(Running) \in Nat
  BY CaptchaRunning
<1>5. \E r, l \in 0..1, s \in Nat : RightLeft(r, l, s)'
  <2>1. PICK r \in 0..1, l \in 0..1, s \in Nat : RightLeft(r, l, s)
    OBVIOUS
  <2>2. CASE redis' = {Captcha!Fresh} /\ local' = {}
    <3>1. RightLeft(1, 0, s)'
      BY <1>1, <1>3, <1>4, <2>1, <2>2 DEF RightLeft, CaptchaTypes
    <3>2. QED  BY <3>1
  <2>3. CASE redis' = {} /\ local' = {Captcha!Fresh}
    <3>1. \A v \in Verifiers : Writing(v) => r = 1
      BY <2>1 DEF RightLeft
    <3>2. RightLeft(r, 1, s)'
      BY <1>1, <1>3, <1>4, <2>1, <2>3 DEF RightLeft, CaptchaTypes
    <3>3. QED  BY <3>2
  <2>4. QED  BY <1>1, <2>2, <2>3
<1>6. \E r, l \in 0..MaxAttempts, s \in Nat : WrongLeft(r, l, s)'
  <2>1. PICK r \in 0..MaxAttempts, l \in 0..MaxAttempts, s \in Nat : WrongLeft(r, l, s)
    OBVIOUS
  <2>2. stores * MaxAttempts = 0 /\ stores' * MaxAttempts = MaxAttempts
    BY <1>1 DEF Captcha!CaptchaAssumption
  <2>3. CASE redis' = {Captcha!Fresh} /\ local' = {}
    <3>1. WrongLeft(MaxAttempts, 0, s)'
      BY <1>1, <1>3, <1>4, <2>1, <2>2, <2>3, CaptchaRows DEF WrongLeft, CaptchaTypes, Captcha!CaptchaAssumption, Writing
    <3>2. QED  BY <3>1 DEF Captcha!CaptchaAssumption
  <2>4. CASE redis' = {} /\ local' = {Captcha!Fresh}
    <3>1. WrongLeft(r, MaxAttempts, s)'
      BY <1>1, <1>3, <1>4, <2>1, <2>2, <2>4, CaptchaRows DEF WrongLeft, CaptchaTypes, Captcha!CaptchaAssumption, Writing
    <3>2. QED  BY <3>1 DEF Captcha!CaptchaAssumption
  <2>5. QED  BY <1>1, <2>3, <2>4
<1>7. QED  BY <1>2, <1>5, <1>6

\* A store that is made late makes the captcha good once more.
LEMMA CaptchaLate ==
  ASSUME Captcha!CaptchaAssumption, CaptchaInv, Captcha!LateCreate
  PROVE  CaptchaInv'
<1> USE DEF CaptchaInv, Captcha!Counts
<1>1. /\ stores = 1 /\ stores' = 2 /\ redis' = {Captcha!Fresh} /\ creating' = "done"
      /\ UNCHANGED <<local, check, accepted, wrong, overlaps>>
  BY DEF Captcha!LateCreate, CaptchaTypes
<1>2. CaptchaTypes'
  BY <1>1, CaptchaRows DEF CaptchaTypes
<1>3. Running' = Running /\ \A v \in Verifiers : Writing(v)' <=> Writing(v)
  BY <1>1 DEF Running, Writing
<1>4. Cardinality(Running) \in Nat
  BY CaptchaRunning
<1>5. \E r, l \in 0..1, s \in Nat : RightLeft(r, l, s)'
  <2>1. PICK r \in 0..1, l \in 0..1, s \in Nat : RightLeft(r, l, s)
    OBVIOUS
  <2>2. RightLeft(1, l, s)'
    BY <1>1, <1>3, <1>4, <2>1 DEF RightLeft, CaptchaTypes
  <2>3. QED  BY <2>2
<1>6. \E r, l \in 0..MaxAttempts, s \in Nat : WrongLeft(r, l, s)'
  <2>1. PICK r \in 0..MaxAttempts, l \in 0..MaxAttempts, s \in Nat : WrongLeft(r, l, s)
    OBVIOUS
  <2>2. stores * MaxAttempts = MaxAttempts /\ stores' * MaxAttempts = MaxAttempts + MaxAttempts
    BY <1>1 DEF Captcha!CaptchaAssumption
  <2>3. \A v \in Verifiers : Writing(v) => check[v].row.attempts \in 0..MaxAttempts
    BY CaptchaRows DEF CaptchaTypes
  <2>4. WrongLeft(MaxAttempts, l, s)'
    BY <1>1, <1>3, <1>4, <2>1, <2>2, <2>3, CaptchaRows DEF WrongLeft, CaptchaTypes, Captcha!CaptchaAssumption
  <2>5. QED  BY <2>4 DEF Captcha!CaptchaAssumption
<1>7. QED  BY <1>2, <1>5, <1>6

LEMMA CaptchaExpire ==
  ASSUME Captcha!CaptchaAssumption, CaptchaInv, Captcha!Expire \/ UNCHANGED Captcha!vars
  PROVE  CaptchaInv'
<1> USE DEF CaptchaInv, Captcha!Counts
<1>1. /\ redis' \subseteq redis /\ UNCHANGED <<local, creating, check, accepted, wrong, overlaps, stores>>
  BY DEF Captcha!Expire, Captcha!vars
<1>2. CaptchaTypes'
  BY <1>1 DEF CaptchaTypes
<1>3. Running' = Running /\ \A v \in Verifiers : Writing(v)' <=> Writing(v)
  BY <1>1 DEF Running, Writing
<1>4. ASSUME NEW r \in 0..1, NEW l \in 0..1, NEW s \in Nat, RightLeft(r, l, s) PROVE RightLeft(r, l, s)'
  BY <1>1, <1>3, <1>4 DEF RightLeft
<1>5. ASSUME NEW r \in 0..MaxAttempts, NEW l \in 0..MaxAttempts, NEW s \in Nat, WrongLeft(r, l, s)
      PROVE  WrongLeft(r, l, s)'
  BY <1>1, <1>3, <1>5 DEF WrongLeft
<1>6. QED  BY <1>2, <1>4, <1>5

\* One confirmation begins, goes on or ends.
LEMMA CaptchaMoves ==
  ASSUME Captcha!CaptchaAssumption, CaptchaTypes, NEW v \in Verifiers, NEW next \in CheckRecords,
         check' = [check EXCEPT ![v] = next]
  PROVE  /\ check' \in [Verifiers -> CheckRecords] /\ check'[v] = next
         /\ \A w \in Verifiers \ {v} : check'[w] = check[w]
         /\ check[v].pc # "idle" => Running' \subseteq Running /\ Cardinality(Running') <= Cardinality(Running)
         /\ check[v].pc # "idle" /\ next.pc = "idle" => Cardinality(Running') = Cardinality(Running) - 1
         /\ check[v].pc = "idle" /\ next.pc # "idle" => Cardinality(Running') = Cardinality(Running) + 1
         /\ Cardinality(Running) \in Nat /\ Cardinality(Running') \in Nat
<1>1. /\ check' \in [Verifiers -> CheckRecords] /\ check'[v] = next
      /\ \A w \in Verifiers \ {v} : check'[w] = check[w]
  BY DEF CaptchaTypes, CheckRecords
<1>2. IsFiniteSet(Running) /\ Cardinality(Running) \in Nat
  BY CaptchaRunning
<1>3. check[v].pc # "idle" => Running' \subseteq Running
  BY <1>1 DEF Running
<1>4. check[v].pc # "idle" /\ next.pc = "idle" => Running' = Running \ {v} /\ v \in Running
  BY <1>1 DEF Running
<1>5. check[v].pc = "idle" /\ next.pc # "idle" => Running' = Running \cup {v} /\ v \notin Running
  BY <1>1 DEF Running
<1>6. IsFiniteSet(Running') /\ Cardinality(Running') \in Nat
  BY FS_Subset, FS_CardinalityType, CaptchaFinite DEF Running, Captcha!CaptchaAssumption
<1>7. check[v].pc # "idle" => Cardinality(Running') <= Cardinality(Running)
  BY <1>2, <1>3, FS_Subset
<1>8. check[v].pc # "idle" /\ next.pc = "idle" => Cardinality(Running') = Cardinality(Running) - 1
  BY <1>2, <1>4, FS_RemoveElement
<1>9. check[v].pc = "idle" /\ next.pc # "idle" => Cardinality(Running') = Cardinality(Running) + 1
  BY <1>2, <1>5, FS_AddElement
<1>10. QED  BY <1>1, <1>2, <1>3, <1>6, <1>7, <1>8, <1>9

LEMMA CaptchaAsk ==
  ASSUME Captcha!CaptchaAssumption, CaptchaInv, NEW v \in Verifiers, Captcha!Ask(v)
  PROVE  CaptchaInv'
<1> USE DEF CaptchaInv, Captcha!Counts
<1>1. PICK right \in BOOLEAN :
        check' = [check EXCEPT ![v] = [Captcha!NoCheck EXCEPT !.pc = "read", !.right = right]]
  BY DEF Captcha!Ask
<1> DEFINE next == [Captcha!NoCheck EXCEPT !.pc = "read", !.right = right]
<1>2. /\ check[v].pc = "idle" /\ UNCHANGED <<redis, local, creating, stores, accepted, wrong>>
      /\ check' = [check EXCEPT ![v] = next]
      /\ overlaps' = IF \E w \in Verifiers : check[w].pc # "idle" THEN overlaps + 1 ELSE overlaps
  BY <1>1 DEF Captcha!Ask
<1>3. next \in CheckRecords /\ next.pc = "read"
  BY CaptchaRows DEF Captcha!NoCheck, CheckRecords
<1> HIDE DEF next
<1>4. /\ check' \in [Verifiers -> CheckRecords] /\ Cardinality(Running') = Cardinality(Running) + 1
      /\ Cardinality(Running) \in Nat /\ Cardinality(Running') \in Nat
      /\ \A w \in Verifiers : Writing(w)' => w # v /\ Writing(w) /\ check'[w] = check[w]
  BY <1>2, <1>3, CaptchaMoves DEF Writing
<1>5. CaptchaTypes'
  BY <1>2, <1>4 DEF CaptchaTypes, CheckRecords, Captcha!Ask
<1>6. /\ overlaps \in Nat /\ overlaps' \in Nat
      /\ overlaps' = overlaps + 1 \/ (overlaps' = overlaps /\ Cardinality(Running) = 0)
  <2>1. overlaps \in Nat
    BY DEF CaptchaTypes
  <2>2. CASE \E w \in Verifiers : check[w].pc # "idle"
    BY <1>2, <2>1, <2>2
  <2>3. CASE ~\E w \in Verifiers : check[w].pc # "idle"
    <3>1. Running = {}
      BY <2>3 DEF Running
    <3>2. QED  BY <1>2, <2>1, <2>3, <3>1, FS_EmptySet
  <2>4. QED  BY <2>2, <2>3
<1>7. \E r, l \in 0..1, s \in Nat : RightLeft(r, l, s)'
  <2>1. PICK r \in 0..1, l \in 0..1, s \in Nat : RightLeft(r, l, s)
    OBVIOUS
  <2>2. CASE overlaps' = overlaps + 1
    <3>1. RightLeft(r, l, s + 1)'
      BY <1>2, <1>4, <1>6, <2>1, <2>2 DEF RightLeft, CaptchaTypes
    <3>2. QED  BY <3>1
  <2>3. CASE overlaps' = overlaps /\ Cardinality(Running) = 0
    <3>1. RightLeft(r, l, s)'
      BY <1>2, <1>4, <1>6, <2>1, <2>3 DEF RightLeft, CaptchaTypes
    <3>2. QED  BY <3>1
  <2>4. QED  BY <1>6, <2>2, <2>3
<1>8. \E r, l \in 0..MaxAttempts, s \in Nat : WrongLeft(r, l, s)'
  <2>1. PICK r \in 0..MaxAttempts, l \in 0..MaxAttempts, s \in Nat : WrongLeft(r, l, s)
    OBVIOUS
  <2> DEFINE bound == stores * MaxAttempts
  <2>2. bound \in Nat /\ bound' = bound
    BY <1>2 DEF CaptchaTypes, Captcha!CaptchaAssumption
  <2>3. wrong + r + l + s <= bound + overlaps
    BY <2>1 DEF WrongLeft
  <2>4. \E t \in Nat : Cardinality(Running') <= t + 1 /\ wrong + r + l + t <= bound + overlaps'
    <3> HIDE DEF bound
    <3>1. wrong \in Nat /\ Cardinality(Running) <= s + 1
      BY <2>1 DEF CaptchaTypes, WrongLeft
    <3>2. CASE overlaps' = overlaps + 1
      <4>1. Cardinality(Running') <= (s + 1) + 1 /\ wrong + r + l + (s + 1) <= bound + overlaps'
        BY <1>4, <1>6, <2>2, <2>3, <3>1, <3>2
      <4>2. QED  BY <4>1
    <3>3. CASE overlaps' = overlaps /\ Cardinality(Running) = 0
      BY <1>4, <1>6, <2>2, <2>3, <3>1, <3>3
    <3>4. QED  BY <1>6, <3>2, <3>3
  <2>5. PICK t \in Nat : Cardinality(Running') <= t + 1 /\ wrong + r + l + t <= bound + overlaps'
    BY <2>4
  <2>6. WrongLeft(r, l, t)'
    BY <1>2, <1>4, <2>1, <2>5 DEF WrongLeft
  <2>7. QED  BY <1>2, <2>6
<1>9. QED  BY <1>5, <1>7, <1>8

\* What is read may be put back: it is in Redis, and open.
LEMMA CaptchaRead ==
  ASSUME Captcha!CaptchaAssumption, CaptchaInv, NEW v \in Verifiers, Captcha!Read(v)
  PROVE  CaptchaInv'
<1> USE DEF CaptchaInv, Captcha!Counts
<1>1. /\ check[v].pc = "read" /\ UNCHANGED <<redis, local, creating, stores, accepted, wrong, overlaps>>
  BY DEF Captcha!Read
<1>2. check[v] \in CheckRecords /\ Captcha!NoCheck \in CheckRecords /\ Captcha!NoCheck.pc = "idle"
  BY CaptchaRows DEF CaptchaTypes, CheckRecords, Captcha!NoCheck
<1>3. PICK next \in CheckRecords :
        /\ check' = [check EXCEPT ![v] = next]
        /\ next.pc = "write" => next.row \in redis /\ Captcha!Open(next.row)
  <2>1. CASE \E row \in redis : check' = [check EXCEPT ![v] = IF Captcha!Open(row)
                                  THEN [check[v] EXCEPT !.pc = "write", !.row = row] ELSE Captcha!NoCheck]
    <3>1. PICK row \in redis : check' = [check EXCEPT ![v] = IF Captcha!Open(row)
                                  THEN [check[v] EXCEPT !.pc = "write", !.row = row] ELSE Captcha!NoCheck]
      BY <2>1
    <3> DEFINE next == [check[v] EXCEPT !.pc = "write", !.row = row]
    <3>2. next \in CheckRecords /\ next.row = row
      BY <1>2 DEF CheckRecords, CaptchaTypes
    <3> HIDE DEF next
    <3>3. CASE Captcha!Open(row)
      <4>1. check' = [check EXCEPT ![v] = next]
        BY <3>1, <3>3 DEF next
      <4>2. QED  BY <3>2, <3>3, <4>1
    <3>4. CASE ~Captcha!Open(row)
      BY <1>2, <3>1, <3>4
    <3>5. QED  BY <3>3, <3>4
  <2>2. CASE check' = [check EXCEPT ![v] = [check[v] EXCEPT !.pc = "local"]]
    <3> DEFINE next == [check[v] EXCEPT !.pc = "local"]
    <3>1. next \in CheckRecords /\ next.pc = "local"
      BY <1>2 DEF CheckRecords
    <3> HIDE DEF next
    <3>2. check' = [check EXCEPT ![v] = next]
      BY <2>2 DEF next
    <3>3. QED  BY <3>1, <3>2
  <2>3. QED  BY <2>1, <2>2 DEF Captcha!Read, CaptchaTypes
<1>4. /\ check' \in [Verifiers -> CheckRecords] /\ check'[v] = next
      /\ \A w \in Verifiers \ {v} : check'[w] = check[w]
      /\ Cardinality(Running') <= Cardinality(Running)
      /\ Cardinality(Running) \in Nat /\ Cardinality(Running') \in Nat
  BY <1>1, <1>3, CaptchaMoves
<1>5. CaptchaTypes'
  BY <1>1, <1>4 DEF CaptchaTypes, CheckRecords
<1>6. ASSUME NEW w \in Verifiers, Writing(w)'
      PROVE  /\ Writing(w) \/ \E row \in redis : ~row.used /\ row.attempts < MaxAttempts /\ check'[w].row = row
             /\ Writing(w) => check'[w] = check[w]
  <2>1. CASE w = v
    BY <1>1, <1>3, <1>4, <1>6, <2>1 DEF Writing, Captcha!Open
  <2>2. CASE w # v
    BY <1>4, <1>6, <2>2 DEF Writing
  <2>3. QED  BY <2>1, <2>2
<1>7. ASSUME NEW r \in 0..1, NEW l \in 0..1, NEW s \in Nat, RightLeft(r, l, s) PROVE RightLeft(r, l, s)'
  BY <1>1, <1>4, <1>6, <1>7 DEF RightLeft
<1>8. ASSUME NEW r \in 0..MaxAttempts, NEW l \in 0..MaxAttempts, NEW s \in Nat, WrongLeft(r, l, s)
      PROVE  WrongLeft(r, l, s)'
  <2>1. \A w \in Verifiers : Writing(w)' => check'[w].row.attempts < MaxAttempts
                                             /\ MaxAttempts - check'[w].row.attempts <= r
    BY <1>6, <1>8 DEF WrongLeft
  <2>2. QED  BY <1>1, <1>4, <1>8, <2>1 DEF WrongLeft
<1>9. QED  BY <1>5, <1>7, <1>8

\* What a judged row is good for.
LEMMA CaptchaJudged ==
  ASSUME Captcha!CaptchaAssumption, NEW row \in Captcha!Rows, row.attempts < MaxAttempts, NEW right \in BOOLEAN
  PROVE  /\ Captcha!Judged(row, right) \in Captcha!Rows
         /\ right => Captcha!Judged(row, right).used /\ Captcha!Judged(row, right).attempts = row.attempts
         /\ ~right => Captcha!Judged(row, right).attempts = row.attempts + 1
         /\ row.attempts \in Nat
<1>1. row.attempts \in 0..MaxAttempts
  BY DEF Captcha!Rows
<1>2. row.attempts + 1 \in 0..MaxAttempts /\ row.attempts \in Nat
  BY <1>1 DEF Captcha!CaptchaAssumption
<1>3. CASE right
  <2> DEFINE next == [row EXCEPT !.used = TRUE]
  <2>1. Captcha!Judged(row, right) = next
    BY <1>3 DEF Captcha!Judged
  <2>2. next \in Captcha!Rows /\ next.used /\ next.attempts = row.attempts
    BY <1>1 DEF Captcha!Rows
  <2> HIDE DEF next
  <2>3. QED  BY Zenon, <1>2, <1>3, <2>1, <2>2
<1>4. CASE ~right
  <2> DEFINE next == [row EXCEPT !.attempts = @ + 1]
  <2>1. Captcha!Judged(row, right) = next
    BY <1>4 DEF Captcha!Judged
  <2>2. next \in Captcha!Rows /\ next.attempts = row.attempts + 1
    BY <1>1, <1>2 DEF Captcha!Rows
  <2> HIDE DEF next
  <2>3. QED  BY Zenon, <1>2, <1>4, <2>1, <2>2
<1>5. QED  BY <1>3, <1>4

\* The row is written: the confirmation pays for what it makes of it, if it ran
\* beside another, else no other will put a row back.
LEMMA CaptchaWritten ==
  ASSUME Captcha!CaptchaAssumption, CaptchaInv, NEW v \in Verifiers, check[v].pc = "write",
         redis' = {Captcha!Judged(check[v].row, check[v].right)},
         check' = [check EXCEPT ![v] = Captcha!NoCheck], Captcha!Score(check[v].right),
         UNCHANGED <<local, creating, stores, overlaps>>
  PROVE  CaptchaInv'
<1> USE DEF CaptchaInv
<1>1. check[v] \in CheckRecords /\ Captcha!NoCheck \in CheckRecords /\ Captcha!NoCheck.pc = "idle"
  BY CaptchaRows DEF CaptchaTypes, CheckRecords, Captcha!NoCheck
<1> DEFINE row == check[v].row
           right == check[v].right
           new == Captcha!Judged(row, right)
<1>2. right \in BOOLEAN /\ row \in Captcha!Rows /\ row.attempts < MaxAttempts
  BY <1>1 DEF CheckRecords, WrongLeft, Writing
<1>3. /\ new \in Captcha!Rows /\ row.attempts \in Nat
      /\ right => new.used /\ new.attempts = row.attempts
      /\ ~right => new.attempts = row.attempts + 1
  BY <1>2, CaptchaJudged
<1>4. /\ check' \in [Verifiers -> CheckRecords]
      /\ Cardinality(Running') = Cardinality(Running) - 1
      /\ Cardinality(Running) \in Nat /\ Cardinality(Running') \in Nat
      /\ \A w \in Verifiers : Writing(w)' => Writing(w) /\ check'[w] = check[w] /\ w \in Running'
  <2>1. /\ check' \in [Verifiers -> CheckRecords] /\ check'[v] = Captcha!NoCheck
        /\ \A w \in Verifiers \ {v} : check'[w] = check[w]
        /\ Cardinality(Running') = Cardinality(Running) - 1
        /\ Cardinality(Running) \in Nat /\ Cardinality(Running') \in Nat
    BY <1>1, CaptchaMoves
  <2>2. QED  BY <1>1, <2>1 DEF Writing, Running
<1>5. /\ {accepted, wrong, overlaps} \subseteq Nat /\ {accepted', wrong'} \subseteq Nat
      /\ right => accepted' = accepted + 1 /\ wrong' = wrong
      /\ ~right => accepted' = accepted /\ wrong' = wrong + 1
  BY <1>2 DEF CaptchaTypes, Captcha!Score
<1>6. redis' = {new} /\ UNCHANGED <<local, creating, stores, overlaps>> /\ creating # "no"
  BY DEF CaptchaTypes
<1>7. Cardinality(Running') = 0 => \A w \in Verifiers : ~Writing(w)'
  <2>1. IsFiniteSet(Running')
    BY FS_Subset, CaptchaFinite DEF Running, Captcha!CaptchaAssumption
  <2>2. Cardinality(Running') = 0 => Running' = {}
    BY <2>1, FS_EmptySet
  <2>3. QED  BY <1>4, <2>2
<1> HIDE DEF row, right, new
<1>8. CaptchaTypes'
  BY <1>3, <1>4, <1>5, <1>6 DEF CaptchaTypes, CheckRecords
<1>9. \E r, l \in 0..1, s \in Nat : RightLeft(r, l, s)'
  <2>1. PICK r \in 0..1, l \in 0..1, s \in Nat : RightLeft(r, l, s)
    OBVIOUS
  <2>2. r = 1 /\ stores \in Nat
    BY <2>1 DEF RightLeft, Writing, CaptchaTypes
  <2>3. CASE s > 0
    <3>1. RightLeft(r, l, s - 1)'
      BY <1>4, <1>5, <1>6, <2>1, <2>2, <2>3 DEF RightLeft
    <3>2. QED  BY <2>3, <3>1
  <2>4. CASE s = 0
    <3>1. \A w \in Verifiers : ~Writing(w)'
      BY <1>4, <1>7, <2>1, <2>4 DEF RightLeft
    <3>2. CASE right
      <4>1. \A old \in redis' : old.used
        BY Zenon, <1>3, <1>6, <3>2
      <4>2. (\A old \in local' : ~old.used => l = 1) /\ l \in 0..1
        BY Zenon, <1>6, <2>1 DEF RightLeft
      <4>3. /\ Cardinality(Running') <= 0 + 1
            /\ accepted' + 0 + l + 0 <= stores' + overlaps'
        BY <1>4, <1>5, <1>6, <2>1, <2>2, <2>4, <3>2 DEF RightLeft
      <4>4. RightLeft(0, l, 0)'
        BY Zenon, <3>1, <4>1, <4>2, <4>3 DEF RightLeft
      <4>5. QED  BY <4>2, <4>4
    <3>3. CASE ~right
      <4>1. RightLeft(r, l, 0)'
        BY <1>4, <1>5, <1>6, <2>1, <2>2, <2>4, <3>1, <3>3 DEF RightLeft
      <4>2. QED  BY <4>1
    <3>4. QED  BY <3>2, <3>3
  <2>5. QED  BY <2>3, <2>4
<1>10. \E r, l \in 0..MaxAttempts, s \in Nat : WrongLeft(r, l, s)'
  <2>1. PICK r \in 0..MaxAttempts, l \in 0..MaxAttempts, s \in Nat : WrongLeft(r, l, s)
    OBVIOUS
  <2> DEFINE bound == stores * MaxAttempts + overlaps
  <2>2. /\ bound \in Nat /\ bound' = bound /\ MaxAttempts - row.attempts <= r /\ MaxAttempts \in Nat
        /\ r \in Nat /\ l \in Nat
    BY <1>5, <1>6, <2>1 DEF WrongLeft, Writing, CaptchaTypes, Captcha!CaptchaAssumption, row
  <2>3. wrong + r + l + s <= bound /\ Cardinality(Running) <= s + 1
    BY <2>1 DEF WrongLeft
  <2>4. /\ \A w \in Verifiers : Writing(w)' => check'[w].row.attempts < MaxAttempts
                                               /\ MaxAttempts - check'[w].row.attempts <= r
        /\ \A old \in local' : MaxAttempts - old.attempts <= l
    BY <1>4, <1>6, <2>1 DEF WrongLeft
  <2> HIDE DEF bound
  <2>5. MaxAttempts - new.attempts <= r
    BY <1>2, <1>3, <2>2
  <2>6. CASE s > 0
    <3>1. wrong' + r + l + (s - 1) <= bound' /\ Cardinality(Running') <= (s - 1) + 1
      BY <1>2, <1>4, <1>5, <2>2, <2>3, <2>6
    <3>2. WrongLeft(r, l, s - 1)'
      BY <1>6, <2>4, <2>5, <3>1 DEF WrongLeft, bound
    <3>3. QED  BY <2>6, <3>2
  <2>7. CASE s = 0
    <3>1. \A w \in Verifiers : ~Writing(w)'
      BY <1>4, <1>7, <2>3, <2>7
    <3>2. CASE right
      <4>1. wrong' + r + l + 0 <= bound' /\ Cardinality(Running') <= 0 + 1
        BY <1>4, <1>5, <2>2, <2>3, <2>7, <3>2
      <4>2. WrongLeft(r, l, 0)'
        BY <1>6, <2>4, <2>5, <4>1 DEF WrongLeft, bound
      <4>3. QED  BY <4>2
    <3>3. CASE ~right
      <4>1. r > 0 /\ MaxAttempts - new.attempts <= r - 1
        BY <1>2, <1>3, <2>2, <3>3
      <4>2. wrong' + (r - 1) + l + 0 <= bound' /\ Cardinality(Running') <= 0 + 1
        BY <1>4, <1>5, <2>2, <2>3, <2>7, <3>3
      <4>3. r - 1 \in 0..MaxAttempts
        BY <4>1, <2>2
      <4>4. WrongLeft(r - 1, l, 0)'
        BY <1>6, <2>4, <3>1, <4>1, <4>2 DEF WrongLeft, bound
      <4>5. QED  BY <4>3, <4>4, <1>6
    <3>4. QED  BY <3>2, <3>3
  <2>8. QED  BY <2>6, <2>7
<1>11. QED  BY <1>8, <1>9, <1>10

LEMMA CaptchaWrite ==
  ASSUME Captcha!CaptchaAssumption, CaptchaInv, NEW v \in Verifiers, Captcha!Write(v)
  PROVE  CaptchaInv'
<1> DEFINE written == {Captcha!Judged(check[v].row, check[v].right)}
           next == [check[v] EXCEPT !.pc = "local"]
<1>1. check[v].pc = "write" /\ UNCHANGED <<local, creating, stores, overlaps>>
  BY DEF Captcha!Write
<1>2. CASE redis' = written /\ check' = [check EXCEPT ![v] = Captcha!NoCheck] /\ Captcha!Score(check[v].right)
  BY <1>1, <1>2, CaptchaWritten
<1>3. CASE redis' \in {redis, written} /\ check' = [check EXCEPT ![v] = next] /\ UNCHANGED <<accepted, wrong>>
  <2> USE DEF CaptchaInv
  <2>1. check[v] \in CheckRecords
    BY DEF CaptchaTypes, CheckRecords
  <2>2. next \in CheckRecords /\ next.pc = "local"
    BY <2>1 DEF CheckRecords
  <2> HIDE DEF next
  <2>3. /\ check[v].row \in Captcha!Rows /\ check[v].right \in BOOLEAN /\ check[v].row.attempts < MaxAttempts
    BY <1>1, <2>1 DEF CheckRecords, WrongLeft, Writing
  <2> DEFINE new == Captcha!Judged(check[v].row, check[v].right)
  <2>4. /\ new \in Captcha!Rows /\ check[v].row.attempts \in Nat
        /\ new.attempts \in {check[v].row.attempts, check[v].row.attempts + 1}
    BY <2>3, CaptchaJudged
  <2>5. redis' \subseteq redis \cup {new}
    BY <1>3
  <2> HIDE DEF new
  <2>6. /\ check' \in [Verifiers -> CheckRecords]
        /\ Cardinality(Running') <= Cardinality(Running)
        /\ Cardinality(Running) \in Nat /\ Cardinality(Running') \in Nat
        /\ \A w \in Verifiers : Writing(w)' => Writing(w) /\ check'[w] = check[w]
    <3>1. /\ check' \in [Verifiers -> CheckRecords] /\ check'[v] = next
          /\ \A w \in Verifiers \ {v} : check'[w] = check[w]
          /\ Cardinality(Running') <= Cardinality(Running)
          /\ Cardinality(Running) \in Nat /\ Cardinality(Running') \in Nat
      BY <1>1, <1>3, <2>2, CaptchaMoves
    <3>2. QED  BY <2>2, <3>1 DEF Writing
  <2>7. CaptchaTypes'
    <3>1. creating # "no"
      BY <1>1 DEF CaptchaTypes
    <3>2. QED  BY <1>1, <1>3, <2>4, <2>5, <2>6, <3>1 DEF CaptchaTypes, CheckRecords
  <2>8. ASSUME NEW r \in 0..1, NEW l \in 0..1, NEW s \in Nat, RightLeft(r, l, s) PROVE RightLeft(r, l, s)'
    <3>1. r = 1
      BY <1>1, <2>8 DEF RightLeft, Writing
    <3>2. QED  BY <1>1, <1>3, <2>6, <2>8, <3>1 DEF RightLeft
  <2>9. ASSUME NEW r \in 0..MaxAttempts, NEW l \in 0..MaxAttempts, NEW s \in Nat, WrongLeft(r, l, s)
        PROVE  WrongLeft(r, l, s)'
    <3>1. MaxAttempts - new.attempts <= r
      BY <1>1, <2>3, <2>4, <2>9 DEF WrongLeft, Writing, Captcha!CaptchaAssumption
    <3>2. \A row \in redis' : MaxAttempts - row.attempts <= r
      BY <2>5, <2>9, <3>1 DEF WrongLeft
    <3>3. \A w \in Verifiers : Writing(w)' => check'[w].row.attempts < MaxAttempts
                                               /\ MaxAttempts - check'[w].row.attempts <= r
      BY <2>6, <2>9 DEF WrongLeft
    <3>4. Cardinality(Running') <= s + 1
      BY <2>6, <2>9 DEF WrongLeft
    <3>5. QED  BY <1>1, <1>3, <2>9, <3>2, <3>3, <3>4 DEF WrongLeft
  <2>10. QED  BY <2>7, <2>8, <2>9
<1>4. QED  BY <1>2, <1>3 DEF Captcha!Write

LEMMA CaptchaLocal ==
  ASSUME Captcha!CaptchaAssumption, CaptchaInv, NEW v \in Verifiers, Captcha!VerifyLocal(v)
  PROVE  CaptchaInv'
<1> USE DEF CaptchaInv
<1> DEFINE openRows == {row \in local : Captcha!Open(row)}
           right == check[v].right
<1>1. /\ check[v].pc = "local" /\ check' = [check EXCEPT ![v] = Captcha!NoCheck]
      /\ UNCHANGED <<redis, creating, stores, overlaps>>
  BY DEF Captcha!VerifyLocal
<1>2. check[v] \in CheckRecords /\ Captcha!NoCheck \in CheckRecords /\ Captcha!NoCheck.pc = "idle"
  BY CaptchaRows DEF CaptchaTypes, CheckRecords, Captcha!NoCheck
<1>3. /\ check' \in [Verifiers -> CheckRecords]
      /\ Cardinality(Running') <= Cardinality(Running)
      /\ Cardinality(Running) \in Nat /\ Cardinality(Running') \in Nat
      /\ \A w \in Verifiers : Writing(w)' => Writing(w) /\ check'[w] = check[w]
  <2>1. /\ check' \in [Verifiers -> CheckRecords] /\ check'[v] = Captcha!NoCheck
        /\ \A w \in Verifiers \ {v} : check'[w] = check[w]
        /\ Cardinality(Running') <= Cardinality(Running)
        /\ Cardinality(Running) \in Nat /\ Cardinality(Running') \in Nat
    BY <1>1, <1>2, CaptchaMoves
  <2>2. QED  BY <1>2, <2>1 DEF Writing
<1>4. right \in BOOLEAN /\ creating # "no"
  BY <1>1, <1>2 DEF CheckRecords, CaptchaTypes
<1>5. CASE openRows = {}
  <2>1. UNCHANGED <<local, accepted, wrong>>
    BY <1>5 DEF Captcha!VerifyLocal
  <2>2. CaptchaTypes'
    BY <1>1, <1>3, <1>4, <2>1 DEF CaptchaTypes, CheckRecords
  <2>3. ASSUME NEW r \in 0..1, NEW l \in 0..1, NEW s \in Nat, RightLeft(r, l, s) PROVE RightLeft(r, l, s)'
    BY <1>1, <1>3, <2>1, <2>3 DEF RightLeft
  <2>4. ASSUME NEW r \in 0..MaxAttempts, NEW l \in 0..MaxAttempts, NEW s \in Nat, WrongLeft(r, l, s)
        PROVE  WrongLeft(r, l, s)'
    BY <1>1, <1>3, <2>1, <2>4 DEF WrongLeft
  <2>5. QED  BY <2>2, <2>3, <2>4
<1>6. CASE openRows # {}
  <2>1. local' = {Captcha!Judged(row, right) : row \in openRows} /\ Captcha!Score(right)
    BY <1>6 DEF Captcha!VerifyLocal
  <2>2. /\ {accepted, wrong, overlaps} \subseteq Nat /\ {accepted', wrong'} \subseteq Nat
        /\ right => accepted' = accepted + 1 /\ wrong' = wrong
        /\ ~right => accepted' = accepted /\ wrong' = wrong + 1
    BY <1>4, <2>1 DEF CaptchaTypes, Captcha!Score
  <2>3. \A row \in openRows : row \in local /\ row \in Captcha!Rows /\ row.attempts < MaxAttempts /\ ~row.used
    BY DEF CaptchaTypes, Captcha!Open
  <2>4. \A row \in local' :
          /\ row \in Captcha!Rows
          /\ \E old \in openRows : /\ old.attempts \in Nat
                                   /\ right => row.used /\ row.attempts = old.attempts
                                   /\ ~right => row.attempts = old.attempts + 1
    <3>1. ASSUME NEW old \in openRows
          PROVE  /\ Captcha!Judged(old, right) \in Captcha!Rows /\ old.attempts \in Nat
                 /\ right => Captcha!Judged(old, right).used /\ Captcha!Judged(old, right).attempts = old.attempts
                 /\ ~right => Captcha!Judged(old, right).attempts = old.attempts + 1
      BY <1>4, <2>3, CaptchaJudged
    <3>2. QED  BY <2>1, <3>1
  <2>5. PICK one \in openRows : TRUE
    BY <1>6
  <2> HIDE DEF openRows, right
  <2>6. CaptchaTypes'
    BY <1>1, <1>3, <1>4, <2>2, <2>4 DEF CaptchaTypes, CheckRecords
  <2>7. \E r, l \in 0..1, s \in Nat : RightLeft(r, l, s)'
    <3>1. PICK r \in 0..1, l \in 0..1, s \in Nat : RightLeft(r, l, s)
      OBVIOUS
    <3>2. l = 1 /\ stores \in Nat
      BY <2>3, <2>5, <3>1 DEF RightLeft, CaptchaTypes
    <3>3. CASE right
      <4>1. RightLeft(r, 0, s)'
        BY <1>1, <1>3, <2>2, <2>4, <3>1, <3>2, <3>3 DEF RightLeft
      <4>2. QED  BY <4>1
    <3>4. CASE ~right
      <4>1. RightLeft(r, 1, s)'
        BY <1>1, <1>3, <2>2, <3>1, <3>2, <3>4 DEF RightLeft
      <4>2. QED  BY <4>1
    <3>5. QED  BY <3>3, <3>4
  <2>8. \E r, l \in 0..MaxAttempts, s \in Nat : WrongLeft(r, l, s)'
    <3>1. PICK r \in 0..MaxAttempts, l \in 0..MaxAttempts, s \in Nat : WrongLeft(r, l, s)
      OBVIOUS
    <3> DEFINE bound == stores * MaxAttempts + overlaps
    <3>2. bound \in Nat /\ bound' = bound /\ MaxAttempts \in Nat
      BY <1>1, <2>2 DEF CaptchaTypes, Captcha!CaptchaAssumption
    <3>3. wrong + r + l + s <= bound /\ Cardinality(Running') <= s + 1
      BY <1>3, <3>1 DEF WrongLeft
    <3>4. /\ \A w \in Verifiers : Writing(w)' => check'[w].row.attempts < MaxAttempts
                                                 /\ MaxAttempts - check'[w].row.attempts <= r
          /\ \A old \in redis' : MaxAttempts - old.attempts <= r
          /\ \A old \in openRows : MaxAttempts - old.attempts <= l /\ old.attempts < MaxAttempts
      BY <1>1, <1>3, <2>3, <3>1 DEF WrongLeft
    <3> HIDE DEF bound
    <3>5. CASE right
      <4>1. wrong' + r + l + s <= bound'
        BY <2>2, <3>2, <3>3, <3>5
      <4>2. \A row \in local' : MaxAttempts - row.attempts <= l
        BY <2>4, <3>4, <3>5
      <4>3. WrongLeft(r, l, s)'
        BY <3>3, <3>4, <4>1, <4>2 DEF WrongLeft, bound
      <4>4. QED  BY <4>3
    <3>6. CASE ~right
      <4>1. \A row \in local' : MaxAttempts - row.attempts <= l - 1
        BY <2>4, <3>2, <3>4, <3>6
      <4>2. l > 0
        <5>1. one.attempts \in Nat
          BY <2>3, <2>5, CaptchaRows
        <5>2. QED  BY <2>5, <3>2, <3>4, <5>1
      <4>3. wrong' + r + (l - 1) + s <= bound' /\ l - 1 \in 0..MaxAttempts
        BY <2>2, <3>2, <3>3, <3>6, <4>2
      <4>4. WrongLeft(r, l - 1, s)'
        BY <3>3, <3>4, <4>1, <4>3 DEF WrongLeft, bound
      <4>5. QED  BY <4>3, <4>4
    <3>7. QED  BY <3>5, <3>6
  <2>9. QED  BY <2>6, <2>7, <2>8
<1>7. QED  BY <1>5, <1>6

\* A code is accepted once for each store that holds it and each confirmation
\* that runs beside another, and wrong answers are bounded in the same way.
THEOREM CaptchaHoldsAlways == ASSUME Captcha!CaptchaAssumption PROVE Captcha!Spec => []Captcha!CaptchaHolds
<1>1. Captcha!Init => CaptchaInv
  BY CaptchaInit
<1>2. CaptchaInv /\ [Captcha!Next]_Captcha!vars => CaptchaInv'
  BY CaptchaCreate, CaptchaLate, CaptchaExpire, CaptchaAsk, CaptchaRead, CaptchaWrite, CaptchaLocal DEF Captcha!Next
<1>3. ASSUME CaptchaInv PROVE Captcha!CaptchaHolds
  <2> USE <1>3 DEF CaptchaInv
  <2>1. accepted \in Nat /\ wrong \in Nat /\ overlaps \in Nat /\ stores \in Nat /\ stores * MaxAttempts \in Nat
    BY DEF CaptchaTypes, Captcha!CaptchaAssumption
  <2>2. accepted <= stores + overlaps
    BY <2>1 DEF RightLeft
  <2>3. wrong <= stores * MaxAttempts + overlaps
    <3>1. PICK r \in 0..MaxAttempts, l \in 0..MaxAttempts, s \in Nat : WrongLeft(r, l, s)
      OBVIOUS
    <3> DEFINE bound == stores * MaxAttempts + overlaps
    <3>2. bound \in Nat /\ wrong + r + l + s <= bound
      BY <2>1, <3>1 DEF WrongLeft
    <3> HIDE DEF bound
    <3>3. wrong <= bound
      BY <2>1, <3>2
    <3>4. QED  BY <3>3 DEF bound
  <2>4. QED  BY <2>2, <2>3 DEF Captcha!CaptchaHolds
<1>4. QED  BY <1>1, <1>2, <1>3, PTL DEF Captcha!Spec

-----------------------------------------------------------------------------
(* Cleanup of queues *)

\* A protected campaign is, while stale jobs are cleaned, still active or
\* partially completed, and never the one whose jobs are cleaned; a job that is
\* about to be removed is of no protected campaign.
CleanupInv ==
  /\ pc \in {"idle", "page", "lookup", "remove", "done"}
  /\ steady \subseteq QueueCampaigns /\ standing \in [QueueCampaigns -> Queues!Standing]
  /\ pc # "remove" => removable = {}
  /\ op = "stale" => \A c \in steady : Queues!Active(c)
  /\ op # "stale" => op \notin steady
  /\ \A j \in removable : j.of \notin steady
  /\ Queues!CleanupSpares

LEMMA CleanupInit == Queues!Init => CleanupInv
BY DEF Queues!Init, CleanupInv, Queues!CleanupSpares

LEMMA CleanupAsk == CleanupInv /\ Queues!Ask => CleanupInv'
<1> SUFFICES ASSUME CleanupInv, Queues!Ask PROVE CleanupInv'
  OBVIOUS
<1>1. /\ pc = "idle" /\ pc' = "page" /\ UNCHANGED <<standing, removable, harmed>>
      /\ steady' = {c \in QueueCampaigns : IF op' = "stale" THEN Queues!Active(c) ELSE c # op'}
  BY DEF Queues!Ask
<1>2. QED  BY <1>1 DEF CleanupInv, Queues!CleanupSpares, Queues!Active

\* Reading pages and the end of a scan take nothing from anybody.
LEMMA CleanupReads ==
  ASSUME CleanupInv, Queues!Page \/ Queues!PageDone
  PROVE  CleanupInv'
<1>1. /\ pc' \in {"page", "lookup", "done"} /\ UNCHANGED <<standing, op, removable, steady, harmed>>
      /\ removable = {}
  BY DEF Queues!Page, Queues!PageDone, Queues!History, CleanupInv
<1>2. QED  BY <1>1 DEF CleanupInv, Queues!CleanupSpares, Queues!Active

LEMMA CleanupLookup == CleanupInv /\ Queues!Lookup => CleanupInv'
<1> SUFFICES ASSUME CleanupInv, Queues!Lookup PROVE CleanupInv'
  OBVIOUS
<1>1. pc' = "remove" /\ UNCHANGED <<standing, op, steady, harmed>>
  BY DEF Queues!Lookup, Queues!History
<1>2. \A j \in removable' : j.of \notin steady
  BY DEF Queues!Lookup, CleanupInv
<1>3. QED  BY <1>1, <1>2 DEF CleanupInv, Queues!CleanupSpares, Queues!Active

LEMMA CleanupRemove ==
  ASSUME CleanupInv, NEW j \in removable, Queues!RemoveJob(j)
  PROVE  CleanupInv'
<1>1. /\ UNCHANGED <<standing, op, pc, steady, harmed>> /\ removable' \subseteq removable
      /\ pc = "remove"
  BY DEF Queues!RemoveJob, CleanupInv
<1>2. QED  BY <1>1 DEF CleanupInv, Queues!CleanupSpares, Queues!Active

\* A campaign that turns stale loses its protection.
LEMMA CleanupTurn ==
  ASSUME CleanupInv, NEW c \in QueueCampaigns, NEW s \in Queues!Standing, Queues!Turn(c, s)
  PROVE  CleanupInv'
<1>1. /\ UNCHANGED <<op, pc, removable, harmed>> /\ standing' = [standing EXCEPT ![c] = s]
      /\ steady' = IF s = "stale" /\ op = "stale" THEN steady \ {c} ELSE steady
  BY DEF Queues!Turn, Queues!Event, Queues!Request
<1>2. QED  BY <1>1 DEF CleanupInv, Queues!CleanupSpares, Queues!Active, Queues!Standing

LEMMA CleanupOthers ==
  ASSUME CleanupInv, Queues!Pause \/ Queues!Take \/ (\E c \in QueueCampaigns : Queues!Add(c)) \/ UNCHANGED Queues!vars
  PROVE  CleanupInv'
<1>1. UNCHANGED <<standing, op, pc, removable, steady, harmed>>
  BY DEF Queues!Pause, Queues!Take, Queues!Add, Queues!vars, Queues!Event, Queues!Request
<1>2. QED  BY <1>1 DEF CleanupInv, Queues!CleanupSpares, Queues!Active

\* No cleanup removes a job of a campaign that has been protected all the time,
\* whatever workers and schedulers do to the queue between its pages.
THEOREM CleanupSparesAlways == Queues!Spec => []Queues!CleanupSpares
<1>1. Queues!Init => CleanupInv
  BY CleanupInit
<1>2. CleanupInv /\ [Queues!Next]_Queues!vars => CleanupInv'
  BY CleanupAsk, CleanupReads, CleanupLookup, CleanupRemove, CleanupTurn, CleanupOthers DEF Queues!Next
<1>3. CleanupInv => Queues!CleanupSpares
  BY DEF CleanupInv
<1>4. QED  BY <1>1, <1>2, <1>3, PTL DEF Queues!Spec

-----------------------------------------------------------------------------
(* Synchronization by hand *)

LEMMA ManualCardinality == \A S : Manual!Cardinality(S) = Cardinality(S)
BY DEF Manual!Cardinality, Cardinality

LEMMA ManualLeast ==
  ASSUME NEW a \in Int, NEW b \in Int
  PROVE  /\ Manual!Min({a, b}) \in {a, b} /\ Manual!Min({a, b}) <= a /\ Manual!Min({a, b}) <= b
         /\ Manual!Max({a, b}) \in {a, b} /\ Manual!Max({a, b}) >= a /\ Manual!Max({a, b}) >= b
<1>1. \E x \in {a, b} : \A y \in {a, b} : x <= y
  OBVIOUS
<1>2. \E x \in {a, b} : \A y \in {a, b} : x >= y
  OBVIOUS
<1>3. Manual!Min({a, b}) \in {a, b} /\ \A y \in {a, b} : Manual!Min({a, b}) <= y
  BY <1>1 DEF Manual!Min
<1>4. Manual!Max({a, b}) \in {a, b} /\ \A y \in {a, b} : Manual!Max({a, b}) >= y
  BY <1>2 DEF Manual!Max
<1>5. QED  BY <1>3, <1>4

\* Who was suppressed by this request, or found to be, stays so until others
\* change it, and who was to leave the lists has left.
ManualKept ==
  /\ mpc \in {"create", "leave"} => existing \subseteq cands /\ existing \ touched \subseteq suppressed
  /\ mpc = "leave" => cands \ touched \subseteq suppressed
  /\ Manual!HandledHolds

LEMMA ManualKeeps == ManualKept /\ [Manual!Next]_Manual!vars => ManualKept'
<1> SUFFICES ASSUME ManualKept, [Manual!Next]_Manual!vars PROVE ManualKept'
  OBVIOUS
<1> USE DEF ManualKept, Manual!HandledHolds, Manual!Tables, Manual!Asked, Manual!Report, Manual!History
<1>1. CASE Manual!Ask
  BY <1>1 DEF Manual!Ask
<1>2. ASSUME NEW a \in {"fine", "partial", "garbled", "refused", "throws"}, Manual!Fetch(a) PROVE ManualKept'
  BY <1>2 DEF Manual!Fetch
<1>3. CASE Manual!Read
  BY <1>3 DEF Manual!Read
<1>4. CASE Manual!Create
  BY <1>4 DEF Manual!Create
<1>5. CASE Manual!Leave
  BY <1>5 DEF Manual!Leave, Manual!Counted
<1>6. CASE Manual!Throw
  BY <1>6 DEF Manual!Throw
<1>7. CASE Manual!Turn
  BY <1>7 DEF Manual!Turn
<1>8. ASSUME NEW e \in Emails, NEW what \in {"suppress", "lift", "import"}, Manual!Other(e, what) PROVE ManualKept'
  <2>1. /\ UNCHANGED <<mpc, cands, existing, handled, pick>> /\ touched' = touched \cup {e}
        /\ \A x : x # e => (x \in suppressed => x \in suppressed') /\ (x \notin listed => x \notin listed')
    BY <1>8 DEF Manual!Other
  <2>2. QED  BY <2>1
<1>9. CASE UNCHANGED Manual!vars
  BY <1>9 DEF Manual!vars
<1>10. QED  BY <1>1, <1>2, <1>3, <1>4, <1>5, <1>6, <1>7, <1>8, <1>9 DEF Manual!Next

\* Whom a synchronization by hand has handled stays suppressed, and off the lists
\* if that was wanted, unless others change it.
THEOREM HandledHoldsAlways == Manual!Spec => []Manual!HandledHolds
<1>1. Manual!Init => ManualKept
  BY DEF Manual!Init, ManualKept, Manual!HandledHolds
<1>2. ManualKept /\ [Manual!Next]_Manual!vars => ManualKept'
  BY ManualKeeps
<1>3. ManualKept => Manual!HandledHolds
  BY DEF ManualKept
<1>4. QED  BY <1>1, <1>2, <1>3, PTL DEF Manual!Spec

\* What is asked for, and what is reported of it page by page.
Working == {"fetch", "read", "create", "leave", "next"}
ManualCounts ==
  /\ pick \in Picks /\ book \in Books /\ cursor \in DOMAIN book /\ last \in DOMAIN book
  /\ mpc \in Working \cup {"idle", "done", "refused"}
  /\ mpc \notin {"idle", "refused"} => pick.from <= pick.to /\ range = Manual!Normalize(pick.from, pick.to)
  /\ cands \subseteq Emails /\ existing \subseteq Emails /\ {matched, added, already, mmade, fresh} \subseteq Nat
  /\ mpc = "create" => existing \subseteq cands
  /\ mpc = "leave" => /\ existing \subseteq cands /\ fresh <= Cardinality(cands \ existing)
                      /\ mmade = added + fresh
  /\ mpc \in Working /\ mpc # "leave" => mmade = added
  /\ mpc \in {"read", "create", "leave"} => matched = added + already + Cardinality(cands)
  /\ mpc \in {"fetch", "next", "idle"} \/ (mpc = "done" /\ ~cut) => matched = added + already
  /\ mpc = "idle" => mmade = 0 /\ added = 0
  /\ mpc = "done" => added <= mmade /\ (~cut => mmade = added)

LEMMA ManualSized ==
  ASSUME Manual!ManualAssumption, NEW S \in SUBSET Emails
  PROVE  Cardinality(S) \in Nat /\ IsFiniteSet(S) /\ Manual!Cardinality(S) = Cardinality(S)
BY FS_Subset, FS_CardinalityType, ManualCardinality, ManualFinite DEF Manual!ManualAssumption

LEMMA ManualDivides ==
  ASSUME Manual!ManualAssumption, NEW S \in SUBSET Emails, NEW T \in SUBSET S
  PROVE  Cardinality(S) = Cardinality(T) + Cardinality(S \ T)
<1>1. IsFiniteSet(S) /\ IsFiniteSet(T) /\ Cardinality(S) \in Nat /\ Cardinality(T) \in Nat /\ Cardinality(S \ T) \in Nat
  BY ManualSized
<1>2. S \cap T = T
  OBVIOUS
<1>3. Cardinality(S \ T) = Cardinality(S) - Cardinality(S \cap T)
  BY <1>1, FS_Difference
<1>4. QED  BY <1>1, <1>2, <1>3

LEMMA ManualSubsets ==
  ASSUME Manual!ManualAssumption, NEW S \in SUBSET Emails, NEW T \in SUBSET S
  PROVE  Cardinality(T) <= Cardinality(S)
BY FS_Subset, ManualSized

LEMMA ManualInit == ASSUME Manual!ManualAssumption PROVE Manual!Init => ManualCounts
BY DEF Manual!Init, ManualCounts, Manual!ManualAssumption, Working

LEMMA ManualAsk == ASSUME Manual!ManualAssumption, ManualCounts, Manual!Ask PROVE ManualCounts'
<1> USE DEF ManualCounts
<1>1. /\ mpc = "idle" /\ mpc' \in {"refused", "fetch", "done"}
      /\ mpc' # "refused" => ~(pick.from > pick.to) /\ range' = Manual!Normalize(pick.from, pick.to)
      /\ UNCHANGED <<pick, book, cursor, last, cands, existing, fresh, matched, added, already, mmade, cut>>
  BY DEF Manual!Ask
<1>2. mpc' # "refused" => pick.from <= pick.to
  BY <1>1 DEF Manual!ManualAssumption
<1>3. mpc' # "refused" => range' = Manual!Normalize(pick.from, pick.to)'
  BY <1>1 DEF Manual!Normalize
<1>4. QED  BY <1>1, <1>2, <1>3 DEF Working

\* A page's candidates are counted as matched.
LEMMA ManualFetch ==
  ASSUME Manual!ManualAssumption, ManualCounts, NEW a \in {"fine", "partial", "garbled", "refused", "throws"}, Manual!Fetch(a)
  PROVE  ManualCounts'
<1> USE DEF ManualCounts
<1> DEFINE rows == IF a \in {"garbled", "refused"} THEN {} ELSE book[cursor].rows
           found == Manual!Candidates(rows)
<1>1. found \subseteq Emails
  BY DEF Manual!Candidates, Manual!ManualAssumption
<1>2. /\ mpc = "fetch" /\ UNCHANGED <<pick, book, range, cursor, existing, fresh, added, already, mmade, cut>>
      /\ \/ mpc' = "done" /\ UNCHANGED <<cands, matched>>
         \/ mpc' = "read" /\ cands' = found /\ matched' = matched + Manual!Cardinality(found)
  BY DEF Manual!Fetch, Manual!Asked, Manual!Tables
<1>3. last' \in DOMAIN book
  BY DEF Manual!Fetch, Manual!ManualAssumption
<1> HIDE DEF found
<1>4. Manual!Cardinality(found) = Cardinality(found) /\ Cardinality(found) \in Nat
  BY <1>1, ManualSized
<1>5. mpc' = "read" => matched' = added + already + Cardinality(found) /\ matched' \in Nat
  BY <1>2, <1>4
<1>6. range' = Manual!Normalize(pick.from, pick.to)' /\ pick'.from <= pick'.to
  BY <1>2 DEF Manual!Normalize
<1>7. QED  BY <1>1, <1>2, <1>3, <1>5, <1>6 DEF Working

\* No count changes, and nothing else that counts.
LEMMA ManualQuiet ==
  ASSUME ManualCounts,
         UNCHANGED <<pick, book, range, cursor, last, cands, existing, fresh, matched, added, already, mmade, cut, mpc>>
  PROVE  ManualCounts'
BY DEF ManualCounts, Manual!Normalize

LEMMA ManualRead == ASSUME Manual!ManualAssumption, ManualCounts, Manual!Read PROVE ManualCounts'
BY DEF ManualCounts, Manual!Read, Manual!Normalize, Manual!Tables, Manual!Asked, Manual!Report, Manual!History, Working

\* What createMany returns is what it has made.
LEMMA ManualCreate == ASSUME Manual!ManualAssumption, ManualCounts, Manual!Create PROVE ManualCounts'
<1> USE DEF ManualCounts
<1> DEFINE new == (cands \ existing) \ suppressed
<1>1. /\ mpc = "create" /\ mpc' = "leave" /\ fresh' = Manual!Cardinality(new) /\ mmade' = mmade + Manual!Cardinality(new)
      /\ UNCHANGED <<pick, book, range, cursor, last, cands, existing, matched, added, already, cut>>
  BY DEF Manual!Create, Manual!Asked, Manual!Report
<1>2. new \in SUBSET Emails /\ new \in SUBSET (cands \ existing) /\ cands \ existing \in SUBSET Emails
  OBVIOUS
<1> HIDE DEF new
<1>3. Manual!Cardinality(new) = Cardinality(new) /\ Cardinality(new) \in Nat /\ Cardinality(new) <= Cardinality(cands \ existing)
  BY <1>2, ManualSized, ManualSubsets
<1>4. mmade' = added + Cardinality(new) /\ fresh' = Cardinality(new) /\ {mmade', fresh'} \subseteq Nat
  BY <1>1, <1>3 DEF Working
<1>5. QED  BY <1>1, <1>3, <1>4 DEF Manual!Normalize, Working

LEMMA ManualLeave == ASSUME Manual!ManualAssumption, ManualCounts, Manual!Leave PROVE ManualCounts'
<1> USE DEF ManualCounts
<1>1. /\ mpc = "leave" /\ mpc' = "next" /\ added' = added + fresh
      /\ already' = already + Manual!Cardinality(existing) + (Manual!Cardinality(cands \ existing) - fresh)
      /\ UNCHANGED <<pick, book, range, cursor, last, cands, existing, fresh, matched, mmade, cut>>
  BY DEF Manual!Leave, Manual!Counted, Manual!Asked
<1>2. /\ Manual!Cardinality(existing) = Cardinality(existing) /\ Cardinality(existing) \in Nat
      /\ Manual!Cardinality(cands \ existing) = Cardinality(cands \ existing) /\ Cardinality(cands \ existing) \in Nat
  BY ManualSized, cands \ existing \in SUBSET Emails
<1>3. Cardinality(cands) = Cardinality(existing) + Cardinality(cands \ existing)
  BY <1>1, ManualDivides
<1>4. already' \in Nat /\ added' \in Nat /\ matched = added' + already' /\ mmade = added'
  BY <1>1, <1>2, <1>3
<1>5. QED  BY <1>1, <1>4 DEF Manual!Normalize, Working

\* A page that is cut off may have made what is in no count.
LEMMA ManualThrow == ASSUME Manual!ManualAssumption, ManualCounts, Manual!Throw PROVE ManualCounts'
<1> USE DEF ManualCounts
<1>1. /\ mpc \in {"read", "create", "leave"} /\ mpc' \in {"refused", "done"} /\ cut'
      /\ UNCHANGED <<pick, book, range, cursor, last, cands, existing, fresh, matched, added, already, mmade>>
  BY DEF Manual!Throw, Manual!Asked, Manual!Tables
<1>2. added <= mmade
  BY <1>1 DEF Working
<1>3. QED  BY <1>1, <1>2 DEF Manual!Normalize, Working

LEMMA ManualTurn == ASSUME Manual!ManualAssumption, ManualCounts, Manual!Turn PROVE ManualCounts'
<1> USE DEF ManualCounts
<1>1. /\ mpc = "next" /\ mpc' \in {"done", "fetch"} /\ cursor' = last
      /\ UNCHANGED <<pick, book, range, last, cands, existing, fresh, matched, added, already, mmade, cut>>
  BY DEF Manual!Turn, Manual!Asked, Manual!Tables
<1>2. QED  BY <1>1 DEF Manual!Normalize, Working

LEMMA ManualStep ==
  ASSUME Manual!ManualAssumption, ManualCounts, [Manual!Next]_Manual!vars
  PROVE  ManualCounts'
<1>1. ASSUME NEW e \in Emails, NEW what \in {"suppress", "lift", "import"}, Manual!Other(e, what) PROVE ManualCounts'
  BY <1>1, ManualQuiet DEF Manual!Other, Manual!Asked, Manual!Report
<1>2. CASE UNCHANGED Manual!vars
  BY <1>2, ManualQuiet DEF Manual!vars, Manual!Asked, Manual!Report, Manual!History
<1>3. QED
  BY <1>1, <1>2, ManualAsk, ManualFetch, ManualRead, ManualCreate, ManualLeave, ManualThrow, ManualTurn DEF Manual!Next

\* The days that the provider is asked for.
LEMMA ManualRange ==
  ASSUME Manual!ManualAssumption, NEW from \in Int, NEW to \in Int, from <= to
  PROVE  LET days == Manual!Normalize(from, to) IN
         /\ days.from <= days.to /\ days.from >= Today - 30 /\ days.to < Today
         /\ (from < Today /\ to >= Today - 30) =>
              days = [from |-> Manual!Max({from, Today - 30}), to |-> Manual!Min({to, Today - 1})]
<1> DEFINE oldest == Today - 30
           end == IF to >= Today THEN Today - 1 ELSE to
           first == IF from >= Today THEN end ELSE from
           begin == Manual!Min({first, end})
           low == Manual!Max({begin, oldest})
           high == Manual!Max({end, oldest})
<1>1. Manual!Normalize(from, to) = [from |-> low, to |-> high]
  BY DEF Manual!Normalize
<1>2. oldest \in Int /\ end \in Int /\ first \in Int /\ Today \in Int /\ end < Today /\ Today - 1 \in Int
  BY DEF Manual!ManualAssumption
<1>3. begin \in {first, end} /\ begin <= first /\ begin <= end
  BY <1>2, ManualLeast
<1>4. begin \in Int
  BY <1>2, <1>3
<1> HIDE DEF oldest, end, first, begin
<1>5. /\ low \in {begin, oldest} /\ low >= begin /\ low >= oldest
      /\ high \in {end, oldest} /\ high >= end /\ high >= oldest
  BY <1>2, <1>4, ManualLeast
<1> USE DEF oldest, end, first
<1> HIDE DEF low, high
<1>6. low <= high /\ low >= Today - 30 /\ high < Today
  BY <1>2, <1>3, <1>5
<1>7. ASSUME from < Today, to >= Today - 30
      PROVE  low = Manual!Max({from, Today - 30}) /\ high = Manual!Min({to, Today - 1})
  <2> USE DEF low, high
  <2>1. first = from /\ begin = from
    BY <1>2, <1>3, <1>7
  <2>2. Manual!Min({to, Today - 1}) \in {to, Today - 1} /\ Manual!Min({to, Today - 1}) <= to
        /\ Manual!Min({to, Today - 1}) <= Today - 1
    BY <1>2, ManualLeast
  <2>3. end = Manual!Min({to, Today - 1}) /\ high = end
    BY <1>2, <1>5, <1>7, <2>2
  <2>4. QED  BY <2>1, <2>3
<1> HIDE DEF oldest, end, first
<1>8. /\ Manual!Normalize(from, to).from = low /\ Manual!Normalize(from, to).to = high
      /\ (from < Today /\ to >= Today - 30) =>
           Manual!Normalize(from, to) = [from |-> Manual!Max({from, Today - 30}), to |-> Manual!Min({to, Today - 1})]
  BY <1>1, <1>7
<1>9. QED  BY <1>6, <1>8

\* The days that are asked for are completed ones within thirty days, and the
\* wanted ones if any of those was in reach.
THEOREM ReportHasItsDays == ASSUME Manual!ManualAssumption PROVE Manual!Spec => []Manual!DaysAreRight
<1>1. Manual!Init => ManualCounts
  BY ManualInit
<1>2. ManualCounts /\ [Manual!Next]_Manual!vars => ManualCounts'
  BY ManualStep
<1>3. ManualCounts => Manual!DaysAreRight
  BY ManualRange DEF ManualCounts, Manual!DaysAreRight, Manual!ManualAssumption
<1>4. QED  BY <1>1, <1>2, <1>3, PTL DEF Manual!Spec

\* The counts of the report add up to what was made and what was there, unless a
\* page was cut off between its statements.
THEOREM ReportCounts == ASSUME Manual!ManualAssumption PROVE Manual!Spec => []Manual!CountsAddUp
<1>1. Manual!Init => ManualCounts
  BY ManualInit
<1>2. ManualCounts /\ [Manual!Next]_Manual!vars => ManualCounts'
  BY ManualStep
<1>3. ManualCounts => Manual!CountsAddUp
  BY DEF ManualCounts, Manual!CountsAddUp
<1>4. QED  BY <1>1, <1>2, <1>3, PTL DEF Manual!Spec

-----------------------------------------------------------------------------
(* Page of an import *)

AtRest(i) == Import!InFlight(i) = {} /\ (Import!Unsent(i) = {} \/ ~Import!MaySend(i))

\* Runs and chunks, as far as it matters here.
ImportTypes ==
  /\ current \in 0..MaxImports /\ strays \in BOOLEAN
  /\ task = [i \in Import!Imports |-> task[i]]
  /\ run = [i \in Import!Imports |-> run[i]]
  /\ \A i \in Import!Imports : run[i] = [state |-> run[i].state, seen |-> run[i].seen, report |-> run[i].report]

\* The import that the page is about is the only one that is open; without
\* strays those before have nothing under way and send nothing any more.
ImportInv ==
  /\ ImportTypes
  /\ ipage = "idle" => current = 0
  /\ ipage = "failed" => current \in Import!Imports /\ run[current].state = "failed"
  /\ \A i \in Import!Imports : /\ run[i].state = "open" => i = current
                               /\ i > current => run[i].state = "none" /\ Import!InFlight(i) = {}
                               /\ strays = FALSE /\ i < current => AtRest(i)
  /\ ipage # "idle" => shown = current \/ strays = TRUE

\* A step of import i leaves the chunks of the others alone.
LEMMA ImportOthers ==
  ASSUME NEW i \in Import!Imports, ImportTypes, UNCHANGED input,
         \A j \in Import!Imports : j # i => task'[j] = task[j]
  PROVE  \A j \in Import!Imports : j # i =>
           Import!InFlight(j)' = Import!InFlight(j) /\ (AtRest(j) => AtRest(j)')
<1>1. SUFFICES ASSUME NEW j \in Import!Imports, j # i
               PROVE  Import!InFlight(j)' = Import!InFlight(j) /\ (AtRest(j) => AtRest(j)')
  OBVIOUS
<1>2. task'[j] = task[j]
  BY <1>1
<1>3. /\ Import!InFlight(j)' = Import!InFlight(j) /\ Import!Unsent(j)' = Import!Unsent(j)
      /\ Import!Failed(j)' = Import!Failed(j)
  BY <1>2 DEF Import!InFlight, Import!Unsent, Import!Failed, Import!Chunks
<1>4. Import!MaySend(j) = Import!MaySend(j)'
  BY <1>3 DEF Import!MaySend
<1>5. QED  BY <1>3, <1>4 DEF AtRest

\* What a step of one import keeps: without strays it is the current one's.
LEMMA ImportSteps ==
  ASSUME ImportInv, NEW i \in Import!Imports, UNCHANGED <<input, current, strays>>,
         ~(i > current \/ (strays = FALSE /\ i # current)),
         \A j \in Import!Imports : j # i => task'[j] = task[j],
         task' = [j \in Import!Imports |-> task'[j]],
         run' = [j \in Import!Imports |-> run'[j]],
         \A j \in Import!Imports : run'[j] = [state |-> run'[j].state, seen |-> run'[j].seen, report |-> run'[j].report],
         \A j \in Import!Imports : run'[j].state = run[j].state \/ (j = i /\ run'[j].state # "open"),
         \/ ipage' = ipage /\ \A j \in Import!Imports : run'[j].state = run[j].state
         \/ ipage' \in {"failed", "done"} /\ i = current /\ run'[i].state = ipage',
         shown' \in {shown, i}
  PROVE  ImportInv'
<1>1. /\ \A j \in Import!Imports : j # i =>
           Import!InFlight(j)' = Import!InFlight(j) /\ (AtRest(j) => AtRest(j)')
  BY ImportOthers DEF ImportInv
<1>2. ImportTypes'
  BY DEF ImportInv, ImportTypes, Import!Imports
<1>3. i \in Int /\ current \in Int /\ \A j \in Import!Imports : j \in Int
  BY DEF ImportInv, ImportTypes, Import!Imports
<1>4. (ipage' = "idle" => current' = 0)
      /\ (ipage' = "failed" => current' \in Import!Imports' /\ run'[current'].state = "failed")
  BY DEF ImportInv, Import!Imports
<1>5. ASSUME NEW j \in Import!Imports
      PROVE  /\ run'[j].state = "open" => j = current'
             /\ j > current' => run'[j].state = "none" /\ Import!InFlight(j)' = {}
             /\ strays' = FALSE /\ j < current' => AtRest(j)'
  BY <1>1, <1>3, <1>5 DEF ImportInv
<1>6. ipage' # "idle" => shown' = current' \/ strays' = TRUE
  BY <1>3 DEF ImportInv, ImportTypes, Import!Imports
<1>7. Import!Imports' = Import!Imports
  BY DEF Import!Imports
<1>8. QED  BY <1>2, <1>4, <1>5, <1>6, <1>7 DEF ImportInv

\* Only chunks that are under way, or may be sent, take a step.
LEMMA ImportWhose ==
  ASSUME ImportInv, NEW i \in Import!Imports,
         Import!InFlight(i) # {} \/ run[i].state = "open"
           \/ (run[i].state # "none" /\ Import!Unsent(i) # {} /\ Import!MaySend(i))
  PROVE  ~(i > current \/ (strays = FALSE /\ i # current))
BY DEF ImportInv, ImportTypes, AtRest, Import!Imports

LEMMA ImportRequests ==
  ASSUME ImportInv, NEW i \in Import!Imports, NEW c \in Import!Chunks,
         \/ Import!Read(i, c) \/ Import!Count(i, c) \/ Import!Write(i, c) \/ Import!Answer(i, c) \/ Import!Break(i, c)
  PROVE  ImportInv'
<1>1. task[i][c].pc \in Import!Busy
  BY DEF Import!Read, Import!Count, Import!Write, Import!Answer, Import!Break, Import!Busy
<1>2. ~(i > current \/ (strays = FALSE /\ i # current))
  <2>1. Import!InFlight(i) # {}
    BY <1>1 DEF Import!InFlight
  <2>2. QED  BY <2>1, ImportWhose
<1>3. UNCHANGED <<input, current, strays, ipage>> /\ shown' \in {shown, i}
  BY DEF Import!Read, Import!Count, Import!Write, Import!Answer, Import!Break
<1>4. /\ \A j \in Import!Imports : j # i => task'[j] = task[j]
      /\ task' = [j \in Import!Imports |-> task'[j]]
  BY DEF Import!Read, Import!Count, Import!Write, Import!Answer, Import!Break, ImportInv, ImportTypes
<1>5. /\ run' = [j \in Import!Imports |-> run'[j]]
      /\ \A j \in Import!Imports : run'[j] = [state |-> run'[j].state, seen |-> run'[j].seen, report |-> run'[j].report]
      /\ \A j \in Import!Imports : run'[j].state = run[j].state
  <2>1. CASE UNCHANGED run
    BY <2>1 DEF ImportInv, ImportTypes
  <2>2. CASE Import!Answer(i, c)
    <3>1. PICK n : run' = [run EXCEPT ![i].report = n]
      BY <2>2 DEF Import!Answer
    <3>2. QED  BY <3>1 DEF ImportInv, ImportTypes
  <2>3. QED  BY <2>1, <2>2 DEF Import!Read, Import!Count, Import!Write, Import!Break
<1>6. QED  BY <1>2, <1>3, <1>4, <1>5, ImportSteps

LEMMA ImportSends ==
  ASSUME ImportInv, NEW i \in Import!Imports, Import!Send(i)
  PROVE  ImportInv'
<1>1. ~(i > current \/ (strays = FALSE /\ i # current))
  BY ImportWhose DEF Import!Send
<1>2. UNCHANGED <<input, current, strays, ipage, shown>>
  BY DEF Import!Send
<1>3. /\ \A j \in Import!Imports : j # i => task'[j] = task[j]
      /\ task' = [j \in Import!Imports |-> task'[j]]
  BY DEF Import!Send, ImportInv, ImportTypes
<1>4. /\ run' = [j \in Import!Imports |-> run'[j]]
      /\ \A j \in Import!Imports : run'[j] = [state |-> run'[j].state, seen |-> run'[j].seen, report |-> run'[j].report]
      /\ \A j \in Import!Imports : run'[j].state = run[j].state
  <2> DEFINE tokens == input.chunks[Import!Min(Import!Unsent(i))]
             send == Import!Accepted(tokens, run[i].seen)
             bad == Import!Cardinality({k \in DOMAIN tokens : tokens[k] = Import!Invalid})
  <2>1. run' = [run EXCEPT ![i].seen = run[i].seen \cup Import!ToSet(send),
                           ![i].report.processed = run[i].report.processed + Len(tokens),
                           ![i].report.invalid = run[i].report.invalid + bad,
                           ![i].report.duplicate = run[i].report.duplicate + Len(tokens) - bad - Len(send),
                           ![i].report.batches = IF send = <<>> THEN run[i].report.batches + 1 ELSE run[i].report.batches]
    BY DEF Import!Send
  <2>2. PICK S, P, V, D, B :
          run' = [run EXCEPT ![i].seen = S, ![i].report.processed = P, ![i].report.invalid = V,
                             ![i].report.duplicate = D, ![i].report.batches = B]
    <3> HIDE DEF tokens, send, bad
    <3>1. QED  BY <2>1
  <2>3. /\ run' = [j \in Import!Imports |-> run'[j]]
        /\ \A j \in Import!Imports : j # i => run'[j] = run[j]
    BY <2>2 DEF ImportInv, ImportTypes
  <2>4. run'[i] = [run[i] EXCEPT !.seen = S, !.report.processed = P, !.report.invalid = V,
                             !.report.duplicate = D, !.report.batches = B]
    BY <2>2 DEF ImportInv, ImportTypes
  <2>5. run'[i] = [state |-> run'[i].state, seen |-> run'[i].seen, report |-> run'[i].report]
        /\ run'[i].state = run[i].state
    BY <2>4 DEF ImportInv, ImportTypes
  <2>6. QED  BY <2>3, <2>5 DEF ImportInv, ImportTypes
<1>5. QED  BY <1>1, <1>2, <1>3, <1>4, ImportSteps

LEMMA ImportEnds ==
  ASSUME ImportInv, NEW i \in Import!Imports, Import!Fail(i) \/ Import!Succeed(i)
  PROVE  ImportInv'
<1>1. run[i].state = "open" /\ i = current
  BY DEF Import!Fail, Import!Succeed, ImportInv
<1>2. UNCHANGED <<input, current, strays, task>> /\ shown' \in {shown, i} /\ ipage' \in {"failed", "done"}
      /\ run' = [run EXCEPT ![i].state = ipage']
  BY DEF Import!Fail, Import!Succeed
<1>3. /\ run' = [j \in Import!Imports |-> run'[j]]
      /\ \A j \in Import!Imports : run'[j] = [state |-> run'[j].state, seen |-> run'[j].seen, report |-> run'[j].report]
      /\ \A j \in Import!Imports : run'[j].state = run[j].state \/ (j = i /\ run'[j].state # "open")
      /\ run'[i].state = ipage'
  BY <1>2 DEF ImportInv, ImportTypes
<1>4. ~(i > current \/ (strays = FALSE /\ i # current))
  BY <1>1 DEF Import!Imports, ImportInv, ImportTypes
<1>5. task' = [j \in Import!Imports |-> task'[j]] /\ \A j \in Import!Imports : j # i => task'[j] = task[j]
  BY <1>2 DEF ImportInv, ImportTypes
<1>6. QED  BY <1>1, <1>2, <1>3, <1>4, <1>5, ImportSteps

LEMMA ImportStart ==
  ASSUME Import!ImportAssumption, ImportInv, Import!Start
  PROVE  ImportInv'
<1>1. /\ UNCHANGED <<input, task>> /\ ipage \in {"idle", "failed"} /\ ipage' = "importing"
      /\ current < MaxImports /\ current' = current + 1 /\ shown' = current + 1
      /\ run' = [run EXCEPT ![current + 1].state = "open"]
      /\ \A i \in Import!Imports : run[i].state = "failed" => Import!Unsent(i) = {} \/ ~Import!MaySend(i)
  BY DEF Import!Start
<1>2. /\ current \in Int /\ current' \in 0..MaxImports /\ current + 1 \in Import!Imports
      /\ \A j \in Import!Imports : j \in Int
  BY <1>1 DEF ImportInv, ImportTypes, Import!Imports, Import!ImportAssumption
<1>3. strays' \in BOOLEAN
  BY Zenon DEF Import!Start, ImportInv, ImportTypes
<1>4. strays' = FALSE => strays = FALSE /\ \A i \in Import!Imports : Import!InFlight(i) = {}
  BY Zenon DEF Import!Start, ImportInv, ImportTypes
<1>5. /\ run' = [j \in Import!Imports |-> run'[j]]
      /\ \A j \in Import!Imports : run'[j] = [state |-> run'[j].state, seen |-> run'[j].seen, report |-> run'[j].report]
      /\ run'[current + 1].state = "open"
      /\ \A j \in Import!Imports : j # current + 1 => run'[j].state = run[j].state
  BY <1>1, <1>2 DEF ImportInv, ImportTypes
<1>6. ASSUME NEW j \in Import!Imports
      PROVE  Import!InFlight(j)' = Import!InFlight(j) /\ (AtRest(j) => AtRest(j)')
  <2>1. /\ Import!InFlight(j)' = Import!InFlight(j) /\ Import!Unsent(j)' = Import!Unsent(j)
        /\ Import!Failed(j)' = Import!Failed(j)
    BY <1>1 DEF Import!InFlight, Import!Unsent, Import!Failed, Import!Chunks
  <2>2. Import!MaySend(j) = Import!MaySend(j)'
    BY <1>1, <2>1 DEF Import!MaySend
  <2>3. QED  BY <2>1, <2>2 DEF AtRest
<1>7. ASSUME NEW j \in Import!Imports, strays' = FALSE, j < current'
      PROVE  AtRest(j)
  <2>1. CASE j < current
    BY <2>1, <1>4, <1>7 DEF ImportInv
  <2>2. CASE j = current
    <3>1. ipage = "failed"
      BY <1>1, <2>2 DEF ImportInv, Import!Imports
    <3>2. run[j].state = "failed"
      BY <3>1, <2>2 DEF ImportInv
    <3>3. QED  BY <3>2, <1>1, <1>4, <1>7 DEF AtRest
  <2>3. QED  BY <2>1, <2>2, <1>1, <1>2, <1>7
<1>8. ImportTypes'
  BY <1>1, <1>2, <1>3, <1>5 DEF ImportInv, ImportTypes, Import!Imports
<1>9. ASSUME NEW j \in Import!Imports
      PROVE  /\ run'[j].state = "open" => j = current'
             /\ j > current' => run'[j].state = "none" /\ Import!InFlight(j)' = {}
             /\ strays' = FALSE /\ j < current' => AtRest(j)'
  <2>1. run'[j].state = "open" => j = current'
    <3>1. CASE j = current + 1
      BY <3>1, <1>1
    <3>2. CASE j # current + 1
      <4>1. run[j].state = "open" => j = current
        BY DEF ImportInv
      <4>2. j = current => run[j].state = "failed"
        BY <1>1 DEF ImportInv, Import!Imports
      <4>3. QED  BY <4>1, <4>2, <3>2, <1>5
    <3>3. QED  BY <3>1, <3>2
  <2>2. j > current' => run'[j].state = "none" /\ Import!InFlight(j)' = {}
    BY <1>1, <1>2, <1>5, <1>6 DEF ImportInv
  <2>3. QED  BY <2>1, <2>2, <1>6, <1>7
<1>10. Import!Imports' = Import!Imports
  BY DEF Import!Imports
<1>11. QED  BY <1>1, <1>2, <1>8, <1>9, <1>10 DEF ImportInv

LEMMA ImportInit ==
  ASSUME Import!ImportAssumption, Import!Init
  PROVE  ImportInv
<1>1. /\ ipage = "idle" /\ current = 0 /\ strays = FALSE
      /\ run = [i \in Import!Imports |-> [state |-> "none", seen |-> {}, report |-> Import!Report]]
      /\ task = [i \in Import!Imports |-> [c \in Import!Chunks |-> Import!NoTask]]
  BY DEF Import!Init
<1>2. \A i \in Import!Imports : Import!InFlight(i) = {}
  BY <1>1 DEF Import!InFlight, Import!NoTask, Import!Busy
<1>3. strays \in BOOLEAN
  BY Zenon, <1>1
<1>4. current \in 0..MaxImports
  BY <1>1 DEF Import!ImportAssumption
<1>5. \A i \in Import!Imports : run[i] = [state |-> run[i].state, seen |-> run[i].seen, report |-> run[i].report]
  BY <1>1
<1>6. task = [i \in Import!Imports |-> task[i]] /\ run = [i \in Import!Imports |-> run[i]]
  BY <1>1
<1>7. ImportTypes
  BY <1>3, <1>4, <1>5, <1>6 DEF ImportTypes
<1>8. QED  BY <1>1, <1>2, <1>7 DEF ImportInv, Import!Imports

\* The page shows the progress of the import that it is about, unless chunks of
\* a failed one were under way when the operator started it again.
THEOREM ImportShown ==
  ASSUME Import!ImportAssumption
  PROVE  Import!Spec => []Import!ShowsItsImport
<1>1. Import!Init => ImportInv
  BY ImportInit
<1>2. ImportInv /\ [Import!Next]_(Import!vars) => ImportInv'
  <2>1. ASSUME ImportInv, UNCHANGED Import!vars
        PROVE  ImportInv'
    <3>1. UNCHANGED <<input, current, strays, ipage, shown, task, run>>
      BY <2>1 DEF Import!vars
    <3>2. \A j \in Import!Imports : Import!InFlight(j)' = Import!InFlight(j) /\ AtRest(j)' = AtRest(j)
      BY <3>1 DEF Import!InFlight, Import!Unsent, Import!Failed, Import!Chunks, Import!MaySend, AtRest
    <3>3. Import!Imports' = Import!Imports
      BY DEF Import!Imports
    <3>4. QED  BY <2>1, <3>1, <3>2, <3>3 DEF ImportInv, ImportTypes
  <2>2. ASSUME ImportInv, Import!Next
        PROVE  ImportInv'
    BY <2>2, ImportStart, ImportSends, ImportEnds, ImportRequests DEF Import!Next
  <2>3. QED  BY <2>1, <2>2
<1>3. ImportInv => Import!ShowsItsImport
  BY DEF ImportInv, ImportTypes, Import!ShowsItsImport
<1>4. QED  BY <1>1, <1>2, <1>3, PTL DEF Import!Spec

-----------------------------------------------------------------------------
(* Totals of opens and clicks *)

Visits == [pc : {"idle", "find", "create", "count"}, kind : Tracks!Kinds, who : Recipients \cup {0}, seen : BOOLEAN]

TrackTypes ==
  /\ opens \in [Tracks!Kinds -> [Recipients -> Nat]] /\ total \in [Tracks!Kinds -> Nat]
  /\ visit \in [Visitors -> Visits]
  /\ \A r \in Visitors : /\ visit[r].pc = "idle" => visit[r] = Tracks!Idle
                         /\ visit[r].pc # "idle" => visit[r].who \in Recipients

\* Two requests of a recipient at once are noted; an event that a request has
\* seen is there, and one that it has not seen is not, if it is alone.
Both(r, s) == /\ r # s /\ visit[r].pc # "idle" /\ visit[s].pc # "idle"
              /\ visit[r].kind = visit[s].kind /\ visit[r].who = visit[s].who
SightHolds ==
  /\ \A r, s \in Visitors : Both(r, s) => visit[r].kind \in twice
  /\ \A r \in Visitors : visit[r].pc = "create" =>
       /\ visit[r].seen => opens[visit[r].kind][visit[r].who] > 0
       /\ ~visit[r].seen /\ visit[r].kind \notin twice => opens[visit[r].kind][visit[r].who] = 0
TrackInv == TrackTypes /\ SightHolds /\ Tracks!TotalsFitReached

LEMMA TrackCardinality == \A S : Tracks!Cardinality(S) = Cardinality(S)
BY DEF Tracks!Cardinality, Cardinality

LEMMA TrackFinite ==
  ASSUME Tracks!TrackingAssumption, NEW k
  PROVE  /\ Tracks!Counting(k) \subseteq Visitors /\ Tracks!Reached(k) \subseteq Recipients
         /\ IsFiniteSet(Tracks!Counting(k)) /\ IsFiniteSet(Tracks!Reached(k))
         /\ Cardinality(Tracks!Counting(k)) \in Nat /\ Cardinality(Tracks!Reached(k)) \in Nat
<1>1. Tracks!Counting(k) \subseteq Visitors /\ Tracks!Reached(k) \subseteq Recipients
  BY DEF Tracks!Counting, Tracks!Reached
<1>2. IsFiniteSet(Tracks!Counting(k)) /\ IsFiniteSet(Tracks!Reached(k))
  BY <1>1, FS_Subset, TracksFinite DEF Tracks!TrackingAssumption
<1>3. QED  BY <1>1, <1>2, FS_CardinalityType

\* The totals fit where the sums are compared, kind by kind.
FitsKind(k) ==
  /\ k \notin broken => total[k] + Cardinality(Tracks!Counting(k)) >= Cardinality(Tracks!Reached(k))
  /\ k \notin twice => total[k] + Cardinality(Tracks!Counting(k)) <= Cardinality(Tracks!Reached(k))
LEMMA TrackFits ==
  /\ Tracks!TotalsFitReached <=> \A k \in Tracks!Kinds : FitsKind(k)
  /\ Tracks!TotalsFitReached' <=> \A k \in Tracks!Kinds : FitsKind(k)'
BY TrackCardinality DEF Tracks!TotalsFitReached, Tracks!Counted, FitsKind

\* Nothing that is counted changes.
LEMMA TrackQuiet ==
  ASSUME TrackInv, UNCHANGED <<opens, total>>, \A k \in Tracks!Kinds : Tracks!Counting(k)' = Tracks!Counting(k),
         broken \subseteq broken', twice \subseteq twice'
  PROVE  Tracks!TotalsFitReached'
<1>1. \A k \in Tracks!Kinds : Tracks!Reached(k)' = Tracks!Reached(k)
  BY DEF Tracks!Reached
<1>2. \A k \in Tracks!Kinds : FitsKind(k) => FitsKind(k)'
  BY <1>1 DEF FitsKind
<1>3. QED  BY <1>2, TrackFits DEF TrackInv

LEMMA TrackInit == ASSUME Tracks!TrackingAssumption PROVE Tracks!Init => TrackInv
<1> SUFFICES ASSUME Tracks!Init PROVE TrackInv
  OBVIOUS
<1> USE DEF Tracks!Init
<1>1. TrackTypes
  BY DEF TrackTypes, Visits, Tracks!Idle, Tracks!Kinds
<1>2. SightHolds
  BY DEF SightHolds, Both, Tracks!Idle
<1>3. \A k \in Tracks!Kinds : Tracks!Counting(k) = {} /\ Tracks!Reached(k) = {} /\ total[k] = 0
  BY DEF Tracks!Counting, Tracks!Reached, Tracks!Idle
<1>4. \A k \in Tracks!Kinds : FitsKind(k)
  BY <1>3, FS_EmptySet DEF FitsKind
<1>5. QED  BY <1>1, <1>2, <1>4, TrackFits DEF TrackInv

LEMMA TrackAsk ==
  ASSUME TrackInv, NEW r \in Visitors, NEW k \in Tracks!Kinds, NEW w \in Recipients, Tracks!Ask(r, k, w)
  PROVE  TrackInv'
<1> USE DEF TrackInv
<1> DEFINE new == [pc |-> "find", kind |-> k, who |-> w, seen |-> FALSE]
<1>1. /\ visit[r] = Tracks!Idle /\ visit' = [visit EXCEPT ![r] = new] /\ UNCHANGED <<opens, total, broken>>
      /\ twice' = twice \cup {j \in {k} : \E s \in Visitors : Tracks!Under(s, j) /\ visit[s].who = w}
  BY DEF Tracks!Ask, Tracks!Goes
<1>2. new \in Visits /\ new.pc = "find" /\ new.kind = k /\ new.who = w
  BY DEF Visits
<1> HIDE DEF new
<1>3. visit' \in [Visitors -> Visits] /\ visit'[r] = new /\ \A s \in Visitors : s # r => visit'[s] = visit[s]
  BY <1>1, <1>2 DEF TrackTypes
<1>4. TrackTypes'
  BY <1>1, <1>2, <1>3 DEF TrackTypes
<1>5. \A s \in Visitors : s # r /\ visit[s].pc # "idle" /\ visit[s].kind = k /\ visit[s].who = w => k \in twice'
  BY <1>1 DEF Tracks!Under, Tracks!Idle
<1>6. ASSUME NEW s \in Visitors, NEW t \in Visitors, Both(s, t)' PROVE visit'[s].kind \in twice'
  <2>1. CASE s # r /\ t # r
    BY <1>1, <1>3, <1>6, <2>1 DEF Both, SightHolds
  <2>2. CASE s = r
    BY <1>2, <1>3, <1>5, <1>6, <2>2 DEF Both
  <2>3. CASE t = r
    BY <1>2, <1>3, <1>5, <1>6, <2>3 DEF Both
  <2>4. QED  BY <2>1, <2>2, <2>3
<1>7. SightHolds'
  BY <1>1, <1>2, <1>3, <1>6 DEF SightHolds
<1>8. \A j \in Tracks!Kinds : Tracks!Counting(j)' = Tracks!Counting(j)
  BY <1>1, <1>2, <1>3 DEF Tracks!Counting, Tracks!Under, Tracks!Idle
<1>9. QED  BY <1>1, <1>4, <1>7, <1>8, TrackQuiet

LEMMA TrackFind ==
  ASSUME TrackInv, NEW r \in Visitors, Tracks!Find(r)
  PROVE  TrackInv'
<1> USE DEF TrackInv
<1> DEFINE there == opens[visit[r].kind][visit[r].who] > 0
           new == [visit[r] EXCEPT !.pc = "create", !.seen = there]
<1>1. visit[r].pc = "find" /\ visit' = [visit EXCEPT ![r] = new] /\ UNCHANGED <<opens, total, twice, broken>>
  BY DEF Tracks!Find, Tracks!Goes
<1>2. /\ visit[r] \in Visits /\ visit[r].who \in Recipients /\ visit[r].kind \in Tracks!Kinds
      /\ opens[visit[r].kind][visit[r].who] \in Nat
  BY <1>1 DEF TrackTypes, Visits
<1>3. there \in BOOLEAN /\ (~there => opens[visit[r].kind][visit[r].who] = 0)
  BY <1>2
<1> HIDE DEF there
<1>4. new \in Visits /\ new.pc = "create" /\ new.kind = visit[r].kind /\ new.who = visit[r].who /\ new.seen = there
  BY <1>2, <1>3 DEF Visits
<1> HIDE DEF new
<1>5. visit' \in [Visitors -> Visits] /\ visit'[r] = new /\ \A s \in Visitors : s # r => visit'[s] = visit[s]
  BY <1>1, <1>4 DEF TrackTypes
<1>6. TrackTypes'
  BY <1>1, <1>2, <1>4, <1>5 DEF TrackTypes
<1>7. \A s, t \in Visitors : Both(s, t)' => Both(s, t) /\ visit'[s].kind = visit[s].kind
  BY <1>1, <1>4, <1>5 DEF Both
<1>8. /\ new.seen => opens[new.kind][new.who] > 0
      /\ ~new.seen => opens[new.kind][new.who] = 0
  BY Zenon, <1>3, <1>4 DEF there
<1>9. SightHolds'
  <2>1. \A s, t \in Visitors : Both(s, t)' => visit'[s].kind \in twice'
    BY <1>1, <1>7 DEF SightHolds
  <2>2. ASSUME NEW s \in Visitors, visit'[s].pc = "create"
        PROVE  /\ visit'[s].seen => opens'[visit'[s].kind][visit'[s].who] > 0
               /\ ~visit'[s].seen /\ visit'[s].kind \notin twice' => opens'[visit'[s].kind][visit'[s].who] = 0
    <3>1. CASE s = r
      BY Zenon, <1>1, <1>5, <1>8, <3>1
    <3>2. CASE s # r
      BY <1>1, <1>5, <2>2, <3>2 DEF SightHolds
    <3>3. QED  BY <3>1, <3>2
  <2>3. QED  BY <2>1, <2>2 DEF SightHolds
<1>10. \A j \in Tracks!Kinds : Tracks!Counting(j)' = Tracks!Counting(j)
  BY <1>1, <1>4, <1>5 DEF Tracks!Counting, Tracks!Under
<1>11. QED  BY <1>1, <1>6, <1>9, <1>10, TrackQuiet

\* The first event of a recipient is written by a request that has seen none,
\* and will count it.
LEMMA TrackCreate ==
  ASSUME Tracks!TrackingAssumption, TrackInv, NEW r \in Visitors, Tracks!Create(r)
  PROVE  TrackInv'
<1> USE DEF TrackInv
<1> DEFINE new == [visit[r] EXCEPT !.pc = "count"]
<1>1. PICK k, w : k = visit[r].kind /\ w = visit[r].who
  OBVIOUS
<1>2. /\ visit[r].pc = "create" /\ visit' = [visit EXCEPT ![r] = new]
      /\ opens' = [opens EXCEPT ![k][w] = @ + 1] /\ UNCHANGED <<total, twice, broken>>
  BY <1>1 DEF Tracks!Create, Tracks!Goes
<1>3. visit[r] \in Visits /\ w \in Recipients /\ k \in Tracks!Kinds /\ opens[k][w] \in Nat
  BY <1>2, <1>1 DEF TrackTypes, Visits
<1>4. new \in Visits /\ new.pc = "count" /\ new.kind = k /\ new.who = w /\ new.seen = visit[r].seen
  BY <1>3, <1>1 DEF Visits
<1> HIDE DEF new
<1>5. visit' \in [Visitors -> Visits] /\ visit'[r] = new /\ \A s \in Visitors : s # r => visit'[s] = visit[s]
  BY <1>2, <1>4 DEF TrackTypes
<1>6. /\ opens' \in [Tracks!Kinds -> [Recipients -> Nat]] /\ opens'[k][w] = opens[k][w] + 1
      /\ \A j \in Tracks!Kinds, x \in Recipients : j # k \/ x # w => opens'[j][x] = opens[j][x]
  <2> DEFINE row == [opens[k] EXCEPT ![w] = @ + 1]
  <2>1. opens[k] \in [Recipients -> Nat] /\ opens \in [Tracks!Kinds -> [Recipients -> Nat]]
    BY <1>3 DEF TrackTypes
  <2>2. row \in [Recipients -> Nat] /\ row[w] = opens[k][w] + 1 /\ \A x \in Recipients : x # w => row[x] = opens[k][x]
    BY <1>3, <2>1
  <2>3. opens' = [opens EXCEPT ![k] = row]
    BY <1>2
  <2> HIDE DEF row
  <2>4. QED  BY <1>3, <2>1, <2>2, <2>3
<1>7. TrackTypes'
  BY <1>2, <1>3, <1>4, <1>5, <1>6 DEF TrackTypes
<1>8. \A s, t \in Visitors : Both(s, t)' => Both(s, t) /\ visit'[s].kind = visit[s].kind
  BY <1>2, <1>4, <1>5, <1>1 DEF Both
<1>9. SightHolds'
  <2>1. \A s, t \in Visitors : Both(s, t)' => visit'[s].kind \in twice'
    BY <1>2, <1>8 DEF SightHolds
  <2>2. ASSUME NEW s \in Visitors, visit'[s].pc = "create"
        PROVE  /\ visit'[s].seen => opens'[visit'[s].kind][visit'[s].who] > 0
               /\ ~visit'[s].seen /\ visit'[s].kind \notin twice' => opens'[visit'[s].kind][visit'[s].who] = 0
    <3>1. s # r /\ visit'[s] = visit[s]
      BY <1>4, <1>5, <2>2
    <3>2. visit[s].pc = "create" /\ visit[s].kind \in Tracks!Kinds /\ visit[s].who \in Recipients
          /\ opens[visit[s].kind][visit[s].who] \in Nat
      BY <2>2, <3>1 DEF TrackTypes, Visits
    <3>3. CASE visit[s].kind = k /\ visit[s].who = w
      <4>1. Both(s, r)
        BY <1>2, <1>1, <3>1, <3>2, <3>3 DEF Both
      <4>2. visit[s].kind \in twice
        BY <4>1 DEF SightHolds
      <4>3. opens'[k][w] > 0
        BY <1>3, <1>6
      <4>4. visit'[s].kind = k /\ visit'[s].who = w /\ visit'[s].seen = visit[s].seen /\ k \in twice'
        BY <1>2, <3>1, <3>3, <4>2
      <4>5. QED  BY Zenon, <4>3, <4>4
    <3>4. CASE visit[s].kind # k \/ visit[s].who # w
      <4>1. opens'[visit[s].kind][visit[s].who] = opens[visit[s].kind][visit[s].who]
        BY <1>6, <3>2, <3>4
      <4>2. /\ visit[s].seen => opens[visit[s].kind][visit[s].who] > 0
            /\ ~visit[s].seen /\ visit[s].kind \notin twice => opens[visit[s].kind][visit[s].who] = 0
        BY <3>2 DEF SightHolds
      <4>3. /\ visit'[s].kind = visit[s].kind /\ visit'[s].who = visit[s].who /\ visit'[s].seen = visit[s].seen
            /\ twice' = twice
            /\ opens'[visit'[s].kind][visit'[s].who] = opens[visit[s].kind][visit[s].who]
        BY <1>2, <3>1, <4>1
      <4>4. QED  BY Zenon, <4>2, <4>3
    <3>5. QED  BY <3>3, <3>4
  <2>3. QED  BY <2>1, <2>2 DEF SightHolds
<1>10. ASSUME NEW j \in Tracks!Kinds, j # k PROVE FitsKind(j)'
  <2>1. Tracks!Reached(j)' = Tracks!Reached(j)
    BY <1>6, <1>10 DEF Tracks!Reached
  <2>2. Tracks!Counting(j)' = Tracks!Counting(j)
    BY <1>2, <1>4, <1>5, <1>10, <1>1 DEF Tracks!Counting, Tracks!Under
  <2>3. FitsKind(j)
    BY TrackFits
  <2>4. QED  BY <1>2, <2>1, <2>2, <2>3 DEF FitsKind
<1>11. FitsKind(k)'
  <2> DEFINE C == Tracks!Counting(k)
             R == Tracks!Reached(k)
  <2>1. /\ IsFiniteSet(C) /\ IsFiniteSet(R) /\ Cardinality(C) \in Nat /\ Cardinality(R) \in Nat /\ total[k] \in Nat
    BY <1>3, TrackFinite DEF TrackTypes
  <2>2. r \notin C
    BY <1>2 DEF Tracks!Counting
  <2>3. \A x \in Recipients : opens'[k][x] > 0 <=> opens[k][x] > 0 \/ x = w
    BY <1>3, <1>6
  <2>4. {x \in Recipients : opens'[k][x] > 0} = R \cup {w}
    BY <1>3, <2>3 DEF Tracks!Reached
  <2>5. \A s \in Visitors : s # r => ((visit'[s].pc = "count" /\ visit'[s] # Tracks!Idle /\ visit'[s].kind = k /\ ~visit'[s].seen) <=> s \in C)
    BY <1>5 DEF Tracks!Counting, Tracks!Under
  <2>6. visit'[r].pc = "count" /\ visit'[r] # Tracks!Idle /\ visit'[r].kind = k /\ visit'[r].seen = visit[r].seen
    BY <1>4, <1>5 DEF Tracks!Idle
  <2> DEFINE D == {s \in Visitors : visit'[s].pc = "count" /\ visit'[s] # Tracks!Idle /\ visit'[s].kind = k /\ ~visit'[s].seen}
  <2>7. visit[r].seen => D = C
    BY Zenon, <2>2, <2>5, <2>6 DEF Tracks!Counting
  <2>8. ~visit[r].seen => D = C \cup {r}
    BY Zenon, <2>2, <2>5, <2>6 DEF Tracks!Counting
  <2>9. visit[r].seen => w \in R
    BY <1>2, <1>3, <1>1 DEF SightHolds, Tracks!Reached
  <2>10. ~visit[r].seen /\ k \notin twice => w \notin R
    BY <1>2, <1>3, <1>1 DEF SightHolds, Tracks!Reached
  <2>11. FitsKind(k)
    BY <1>3, TrackFits
  <2> DEFINE S == {x \in Recipients : opens'[k][x] > 0}
  <2> HIDE DEF C, R, D, S
  <2>12. /\ Cardinality(C \cup {r}) = Cardinality(C) + 1
         /\ Cardinality(R \cup {w}) = IF w \in R THEN Cardinality(R) ELSE Cardinality(R) + 1
    BY <2>1, <2>2, FS_AddElement
  <2>13. /\ k \notin broken => total[k] + Cardinality(C) >= Cardinality(R)
         /\ k \notin twice => total[k] + Cardinality(C) <= Cardinality(R)
    BY <2>11 DEF FitsKind, C, R
  <2>14. S = R \cup {w}
    BY <2>4 DEF S
  <2>15. /\ k \notin broken => total[k] + Cardinality(D) >= Cardinality(S)
         /\ k \notin twice => total[k] + Cardinality(D) <= Cardinality(S)
    <3>1. CASE visit[r].seen
      <4>1. D = C /\ w \in R
        BY Zenon, <2>7, <2>9, <3>1
      <4>2. QED  BY <4>1, <2>1, <2>12, <2>13, <2>14
    <3>2. CASE ~visit[r].seen
      <4>1. D = C \cup {r} /\ (k \notin twice => w \notin R)
        BY Zenon, <2>8, <2>10, <3>2
      <4>2. QED  BY <4>1, <2>1, <2>12, <2>13, <2>14
    <3>3. QED  BY <3>1, <3>2
  <2>16. Tracks!Counting(k)' = D /\ Tracks!Reached(k)' = S
    BY DEF D, S, Tracks!Counting, Tracks!Reached, Tracks!Under
  <2>17. QED  BY <1>2, <2>15, <2>16 DEF FitsKind
<1>12. QED  BY <1>7, <1>9, <1>10, <1>11, TrackFits

LEMMA TrackCount ==
  ASSUME Tracks!TrackingAssumption, TrackInv, NEW r \in Visitors, Tracks!Count(r)
  PROVE  TrackInv'
<1> USE DEF TrackInv
<1>1. PICK k : k = visit[r].kind
  OBVIOUS
<1>2. /\ visit[r].pc = "count" /\ visit' = [visit EXCEPT ![r] = Tracks!Idle] /\ UNCHANGED <<opens, twice, broken>>
      /\ total' = IF visit[r].seen THEN total ELSE [total EXCEPT ![k] = @ + 1]
  BY <1>1 DEF Tracks!Count, Tracks!Goes
<1>3. k \in Tracks!Kinds /\ total[k] \in Nat /\ visit[r].seen \in BOOLEAN
  BY <1>1 DEF TrackTypes, Visits
<1>4. Tracks!Idle \in Visits /\ Tracks!Idle.pc = "idle"
  BY DEF Visits, Tracks!Idle, Tracks!Kinds
<1>5. /\ visit' \in [Visitors -> Visits] /\ visit'[r] = Tracks!Idle
      /\ \A s \in Visitors : s # r => visit'[s] = visit[s]
  BY <1>2, <1>4 DEF TrackTypes
<1>6. /\ total' \in [Tracks!Kinds -> Nat] /\ \A j \in Tracks!Kinds : j # k => total'[j] = total[j]
      /\ total'[k] = IF visit[r].seen THEN total[k] ELSE total[k] + 1
  BY <1>2, <1>3 DEF TrackTypes
<1>7. TrackTypes'
  BY <1>2, <1>4, <1>5, <1>6 DEF TrackTypes
<1>8. SightHolds'
  <2>1. \A s, t \in Visitors : Both(s, t)' => Both(s, t) /\ visit'[s].kind = visit[s].kind
    BY <1>4, <1>5 DEF Both
  <2>2. \A s \in Visitors : visit'[s].pc = "create" => visit'[s] = visit[s]
    BY <1>4, <1>5
  <2>3. QED  BY <1>2, <2>1, <2>2 DEF SightHolds
<1>9. ASSUME NEW j \in Tracks!Kinds, j # k PROVE FitsKind(j)'
  <2>1. Tracks!Reached(j)' = Tracks!Reached(j)
    BY <1>2 DEF Tracks!Reached
  <2>2. Tracks!Counting(j)' = Tracks!Counting(j)
    BY <1>4, <1>5, <1>9, <1>1 DEF Tracks!Counting, Tracks!Under
  <2>3. FitsKind(j) /\ total'[j] = total[j]
    BY <1>6, <1>9, TrackFits
  <2>4. QED  BY <1>2, <2>1, <2>2, <2>3 DEF FitsKind
<1>10. FitsKind(k)'
  <2> DEFINE C == Tracks!Counting(k)
  <2>1. IsFiniteSet(C) /\ Cardinality(C) \in Nat /\ Cardinality(Tracks!Reached(k)) \in Nat
    BY TrackFinite
  <2>2. r \in C <=> ~visit[r].seen
    BY <1>2, <1>1 DEF Tracks!Counting, Tracks!Under, Tracks!Idle
  <2>3. Tracks!Counting(k)' = C \ {r}
    BY <1>4, <1>5 DEF Tracks!Counting, Tracks!Under
  <2>4. Tracks!Reached(k)' = Tracks!Reached(k)
    BY <1>2 DEF Tracks!Reached
  <2>5. FitsKind(k)
    BY <1>3, TrackFits
  <2>6. /\ k \notin broken => total[k] + Cardinality(C) >= Cardinality(Tracks!Reached(k))
        /\ k \notin twice => total[k] + Cardinality(C) <= Cardinality(Tracks!Reached(k))
    BY <2>5 DEF FitsKind
  <2> HIDE DEF C
  <2>7. Cardinality(C \ {r}) = IF r \in C THEN Cardinality(C) - 1 ELSE Cardinality(C)
    BY <2>1, FS_RemoveElement
  <2>8. total'[k] + Cardinality(C \ {r}) = total[k] + Cardinality(C)
    <3>1. CASE visit[r].seen
      <4>1. r \notin C /\ total'[k] = total[k]
        BY Zenon, <1>6, <2>2, <3>1
      <4>2. QED  BY <4>1, <2>7
    <3>2. CASE ~visit[r].seen
      <4>1. r \in C /\ total'[k] = total[k] + 1
        BY Zenon, <1>6, <2>2, <3>2
      <4>2. QED  BY <4>1, <1>3, <2>1, <2>7
    <3>3. QED  BY <3>1, <3>2
  <2>9. QED  BY <1>2, <2>3, <2>4, <2>6, <2>8 DEF FitsKind
<1>11. QED  BY <1>7, <1>8, <1>9, <1>10, TrackFits

\* A request that is cut off counts nobody any more.
LEMMA TrackCut ==
  ASSUME Tracks!TrackingAssumption, TrackInv, NEW r \in Visitors, Tracks!Cut(r)
  PROVE  TrackInv'
<1> USE DEF TrackInv
<1>1. /\ visit' = [visit EXCEPT ![r] = Tracks!Idle] /\ UNCHANGED <<opens, total, twice>>
      /\ broken' = broken \cup {visit[r].kind}
  BY DEF Tracks!Cut, Tracks!Goes
<1>2. Tracks!Idle \in Visits /\ Tracks!Idle.pc = "idle"
  BY DEF Visits, Tracks!Idle, Tracks!Kinds
<1>3. /\ visit' \in [Visitors -> Visits] /\ visit'[r] = Tracks!Idle
      /\ \A s \in Visitors : s # r => visit'[s] = visit[s]
  BY <1>1, <1>2 DEF TrackTypes
<1>4. TrackTypes'
  BY <1>1, <1>2, <1>3 DEF TrackTypes
<1>5. SightHolds'
  <2>1. \A s, t \in Visitors : Both(s, t)' => Both(s, t) /\ visit'[s].kind = visit[s].kind
    BY <1>2, <1>3 DEF Both
  <2>2. \A s \in Visitors : visit'[s].pc = "create" => visit'[s] = visit[s]
    BY <1>2, <1>3
  <2>3. QED  BY <1>1, <2>1, <2>2 DEF SightHolds
<1>6. ASSUME NEW j \in Tracks!Kinds PROVE FitsKind(j)'
  <2>1. Tracks!Reached(j)' = Tracks!Reached(j) /\ FitsKind(j)
    BY <1>1, TrackFits DEF Tracks!Reached
  <2>2. Tracks!Counting(j)' = Tracks!Counting(j) \ {r}
    BY <1>2, <1>3 DEF Tracks!Counting, Tracks!Under
  <2>3. visit[r].kind # j => r \notin Tracks!Counting(j)
    BY DEF Tracks!Counting, Tracks!Under
  <2> DEFINE C == Tracks!Counting(j)
  <2>4. IsFiniteSet(C) /\ Cardinality(C) \in Nat /\ Cardinality(Tracks!Reached(j)) \in Nat /\ total[j] \in Nat
    BY TrackFinite DEF TrackTypes
  <2>5. C \ {r} \subseteq C
    OBVIOUS
  <2>6. Cardinality(C \ {r}) <= Cardinality(C) /\ Cardinality(C \ {r}) \in Nat
    BY <2>4, <2>5, FS_Subset, FS_CardinalityType
  <2>7. visit[r].kind # j => C \ {r} = C
    BY <2>3
  <2>8. /\ j \notin broken => total[j] + Cardinality(C) >= Cardinality(Tracks!Reached(j))
        /\ j \notin twice => total[j] + Cardinality(C) <= Cardinality(Tracks!Reached(j))
    BY <2>1 DEF FitsKind
  <2>9. Tracks!Counting(j)' = C \ {r}
    BY <2>2
  <2> HIDE DEF C
  <2>10. /\ j \notin broken' => total[j] + Cardinality(C \ {r}) >= Cardinality(Tracks!Reached(j))
         /\ j \notin twice => total[j] + Cardinality(C \ {r}) <= Cardinality(Tracks!Reached(j))
    BY <1>1, <2>4, <2>6, <2>7, <2>8
  <2>11. QED  BY <1>1, <2>1, <2>9, <2>10 DEF FitsKind
<1>7. QED  BY <1>4, <1>5, <1>6, TrackFits

\* The totals fall short of the recipients who were reached only by requests
\* that are about to count or were cut off, and exceed them only when a recipient
\* had two requests at once.
THEOREM TotalsFitAlways == ASSUME Tracks!TrackingAssumption PROVE Tracks!Spec => []Tracks!TotalsFitReached
<1>1. Tracks!Init => TrackInv
  BY TrackInit
<1>2. TrackInv /\ [Tracks!Next]_Tracks!vars => TrackInv'
  <2> SUFFICES ASSUME TrackInv, [Tracks!Next]_Tracks!vars PROVE TrackInv'
    OBVIOUS
  <2>1. CASE UNCHANGED <<opens, total, visit, twice, broken>>
    <3>1. TrackTypes' /\ SightHolds'
      BY <2>1 DEF TrackInv, TrackTypes, SightHolds, Both
    <3>2. \A k \in Tracks!Kinds : Tracks!Counting(k)' = Tracks!Counting(k)
      BY <2>1 DEF Tracks!Counting, Tracks!Under
    <3>3. QED  BY <2>1, <3>1, <3>2, TrackQuiet DEF TrackInv
  <2>2. CASE UNCHANGED Tracks!vars \/ \E k \in Tracks!Kinds : Tracks!Expire(k)
    BY <2>1, <2>2 DEF Tracks!vars, Tracks!Expire
  <2>3. QED
    BY <2>2, TrackAsk, TrackFind, TrackCreate, TrackCount, TrackCut DEF Tracks!Next
<1>3. TrackInv => Tracks!TotalsFitReached
  BY DEF TrackInv
<1>4. QED  BY <1>1, <1>2, <1>3, PTL DEF Tracks!Spec

-----------------------------------------------------------------------------
(* Recipients and lists *)

\* The proofs about memberships are of the same module.
LEMMA AudienceSteps ==
  ASSUME NEW r \in Reqs, Audience!Step(r)
  PROVE  Memberships!Step(r)
<1> USE DEF Audience!Asks, Memberships!Asks, Audience!Goes, Memberships!Goes, Audience!At,
    Memberships!At, Audience!Done, Memberships!Done, Audience!Busy, Memberships!Busy,
    Audience!Suppressed, Memberships!Suppressed, Audience!Listed, Memberships!Listed,
    Audience!Raced, Memberships!Raced, Audience!List, Memberships!List, Audience!Known,
    Memberships!Known, Audience!Off, Memberships!Off, Audience!None, Memberships!None,
    Audience!Tables, Memberships!Tables
<1>1. Audience!AddStart(r) => Memberships!AddStart(r)
  BY DEF Audience!AddStart, Memberships!AddStart, Audience!Adding, Memberships!Adding,
      Audience!Idle, Memberships!Idle
<1>2. ASSUME NEW what \in {"list", "any", "suppressed"}, Audience!ImportRead(r, what) PROVE Memberships!ImportRead(r, what)
  BY <1>2 DEF Audience!ImportRead, Memberships!ImportRead
<1>3. Audience!Count(r) => Memberships!Count(r)
  BY DEF Audience!Count, Memberships!Count, Memberships!Cardinality, Audience!Cardinality,
      Memberships!Max, Audience!Max, Memberships!Min, Audience!Min
<1>4. Audience!Write(r) => Memberships!Write(r)
  BY DEF Audience!Write, Memberships!Write
<1>5. Audience!AddById(r) => Memberships!AddById(r)
  BY DEF Audience!AddById, Memberships!AddById
<1>6. Audience!ListStatement(r) => Memberships!ListStatement(r)
  BY DEF Audience!ListStatement, Memberships!ListStatement, Audience!Gone, Memberships!Gone,
      Audience!Kept, Memberships!Kept, Audience!Resized, Memberships!Resized
<1>7. Audience!BulkRemove(r) => Memberships!BulkRemove(r)
  BY DEF Audience!BulkRemove, Memberships!BulkRemove, Audience!Idle, Memberships!Idle
<1>8. Audience!BulkSuppress(r) => Memberships!BulkSuppress(r)
  BY DEF Audience!BulkSuppress, Memberships!BulkSuppress, Audience!Upserted, Memberships!Upserted
<1>9. Audience!Suppress(r) => Memberships!Suppress(r)
  BY DEF Audience!Suppress, Memberships!Suppress, Audience!Upserted, Memberships!Upserted
<1>10. Audience!SuppressRead(r) => Memberships!SuppressRead(r)
  BY DEF Audience!SuppressRead, Memberships!SuppressRead, Audience!Idle, Memberships!Idle
<1>11. Audience!SuppressCreate(r) => Memberships!SuppressCreate(r)
  BY DEF Audience!SuppressCreate, Memberships!SuppressCreate, Audience!Created, Memberships!Created
<1>12. Audience!SuppressAgain(r) => Memberships!SuppressAgain(r)
  BY DEF Audience!SuppressAgain, Memberships!SuppressAgain
<1>13. Audience!FailuresLeave(r) => Memberships!FailuresLeave(r)
  BY DEF Audience!FailuresLeave, Memberships!FailuresLeave
<1>14. Audience!Unsuppress(r) => Memberships!Unsuppress(r)
  BY DEF Audience!Unsuppress, Memberships!Unsuppress
<1>15. Audience!FilterPage(r) => Memberships!FilterPage(r)
  BY DEF Audience!FilterPage, Memberships!FilterPage, Audience!Matching, Memberships!Matching,
      Audience!Idle, Memberships!Idle
<1>16. Audience!FilterDelete(r) => Memberships!FilterDelete(r)
  BY DEF Audience!FilterDelete, Memberships!FilterDelete
<1>17. Audience!Leave(r) => Memberships!Leave(r)
  BY DEF Audience!Leave, Memberships!Leave, Audience!Me, Memberships!Me, Audience!Idle,
      Memberships!Idle
<1>18. Audience!MarkUnsubscribed(r) => Memberships!MarkUnsubscribed(r)
  BY DEF Audience!MarkUnsubscribed, Memberships!MarkUnsubscribed, Audience!Me, Memberships!Me
<1>19. Audience!FindEntry(r) => Memberships!FindEntry(r)
  BY DEF Audience!FindEntry, Memberships!FindEntry, Audience!Me, Memberships!Me
<1>20. Audience!PutEntry(r) => Memberships!PutEntry(r)
  BY DEF Audience!PutEntry, Memberships!PutEntry, Audience!Promised, Memberships!Promised,
      Audience!Me, Memberships!Me, Audience!Upserted, Memberships!Upserted
<1>21. QED  BY <1>1, <1>2, <1>3, <1>4, <1>5, <1>6, <1>7, <1>8, <1>9, <1>10, <1>11, <1>12, <1>13,
    <1>14, <1>15, <1>16, <1>17, <1>18, <1>19, <1>20 DEF Audience!Step, Memberships!Step

LEMMA AudienceSame == Audience!Spec => Memberships!Spec
<1>1. Audience!Init => Memberships!Init
  BY DEF Audience!Init, Memberships!Init, Audience!None, Memberships!None, Audience!Idle,
      Memberships!Idle
<1>2. [Audience!Next]_Audience!vars => [Memberships!Next]_Memberships!vars
  BY AudienceSteps DEF Audience!Next, Memberships!Next, Audience!vars, Memberships!vars
<1>3. QED  BY <1>1, <1>2, PTL DEF Audience!Spec, Memberships!Spec

LEMMA AudienceSameNotions ==
  /\ Audience!AudienceAssumption => Memberships!AudienceAssumption
  /\ Memberships!UnsubscribeHolds => Audience!UnsubscribeHolds
  /\ Memberships!ListsWithinSize => Audience!ListsWithinSize
<1>1. (\A S : Memberships!Cardinality(S) = Audience!Cardinality(S)) /\ (\A S : Memberships!IsFiniteSet(S) <=> Audience!IsFiniteSet(S))
  BY DEF Memberships!Cardinality, Audience!Cardinality, Memberships!IsFiniteSet, Audience!IsFiniteSet
<1>2. Audience!AudienceAssumption => Memberships!AudienceAssumption
  BY <1>1 DEF Audience!AudienceAssumption, Memberships!AudienceAssumption, Audience!Ops, Memberships!Ops, Audience!Reasons, Memberships!Reasons
<1>3. Memberships!UnsubscribeHolds => Audience!UnsubscribeHolds
  BY DEF Memberships!UnsubscribeHolds, Audience!UnsubscribeHolds, Memberships!Suppressed, Audience!Suppressed,
         Memberships!Listed, Audience!Listed
<1>4. Memberships!ListsWithinSize => Audience!ListsWithinSize
  BY <1>1 DEF Memberships!ListsWithinSize, Audience!ListsWithinSize
<1>5. QED  BY <1>2, <1>3, <1>4

-----------------------------------------------------------------------------
(* What the runs check of these parts *)

\* Whoever unsubscribed stays off, and lists keep their size, for any recipients,
\* lists and requests.
THEOREM AudienceAlwaysHolds == Audience!Spec \/ [](focus # "audience") => []AudienceHolds
<1>1. Audience!Spec => []Audience!UnsubscribeHolds
  BY AudienceFits, AudienceSame, AudienceSameNotions, Memberships!UnsubscribedStayOff, PTL
<1>2. Audience!Spec => []Audience!ListsWithinSize
  BY AudienceFits, AudienceSame, AudienceSameNotions, Memberships!ListsKeepSize, PTL
<1>3. Audience!UnsubscribeHolds /\ Audience!ListsWithinSize => AudienceHolds
  BY DEF AudienceHolds
<1>4. focus # "audience" => AudienceHolds
  BY DEF AudienceHolds
<1>5. QED  BY <1>1, <1>2, <1>3, <1>4, PTL

\* A captcha is used once and guessed a bounded number of times, and cleaning a
\* queue spares protected campaigns, for any confirmations, jobs and campaigns.
THEOREM GatesAlwaysHold ==
  (Captcha!Spec \/ [](focus # "captcha")) /\ (Queues!Spec \/ [](focus # "queues")) => []GatesHold
<1>1. Captcha!Spec => []Captcha!CaptchaHolds
  BY CaptchaFits, CaptchaHoldsAlways
<1>2. Queues!Spec => []Queues!CleanupSpares
  BY CleanupSparesAlways
<1>3. (Captcha!CaptchaHolds \/ focus # "captcha") /\ (Queues!CleanupSpares \/ focus # "queues") => GatesHold
  BY DEF GatesHold
<1>4. QED  BY <1>1, <1>2, <1>3, PTL

\* Reports, import pages and totals say what happened, for any address books,
\* inputs, recipients and failures.
THEOREM ReportsAlwaysHold ==
  (Manual!Spec \/ [](focus # "manual")) /\ (Import!Spec \/ [](focus # "import"))
    /\ (Tracks!Spec \/ [](focus # "track")) => []ReportsHold
<1>1. Manual!Spec => []Manual!HandledHolds
  BY HandledHoldsAlways
<1>2. Manual!Spec => []Manual!DaysAreRight
  BY ManualFits, ReportHasItsDays
<1>3. Manual!Spec => []Manual!CountsAddUp
  BY ManualFits, ReportCounts
<1>4. Import!Spec => []Import!ShowsItsImport
  BY ImportFits, ImportShown
<1>5. Tracks!Spec => []Tracks!TotalsFitReached
  BY TracksFit, TotalsFitAlways
<1>6. ((Manual!HandledHolds /\ Manual!DaysAreRight /\ Manual!CountsAddUp) \/ focus # "manual")
        /\ (Import!ShowsItsImport \/ focus # "import") /\ (Tracks!TotalsFitReached \/ focus # "track")
          => ReportsHold
  BY DEF ReportsHold
<1>7. QED  BY <1>1, <1>2, <1>3, <1>4, <1>5, <1>6, PTL
=============================================================================
