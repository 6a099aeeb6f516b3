----------------------------- MODULE SmtpProofs -----------------------------
(***************************************************************************)
(* What holds of SmtpAccounts for any pool of accounts, any number of      *)
(* concurrent deliveries, any cap and thresholds, and any number of        *)
(* failures, expiries and requests of operators.                           *)
(***************************************************************************)
EXTENDS SmtpAccounts, FiniteSetTheorems, WellFoundedInduction, TLAPS

-----------------------------------------------------------------------------
(* Types *)

LEMMA FirstIsMember ==
  ASSUME NEW S \in SUBSET Nat, S # {}
  PROVE  First(S) \in S
<1> DEFINE R == OpToRel(<, Nat)
<1>1. IsWellFoundedOn(R, Nat)
  BY NatLessThanWellFounded
<1>2. \A x, y \in Nat : <<x, y>> \in R <=> x < y
  BY DEF OpToRel
<1> HIDE DEF R
<1>3. PICK m \in S : \A n \in S : <<n, m>> \notin R
  BY <1>1, WFMin
<1>4. ASSUME NEW n \in S PROVE m <= n
  <2>1. m \in Nat /\ n \in Nat
    OBVIOUS
  <2>2. ~(n < m)
    BY <1>2, <1>3, <2>1
  <2> QED
    BY <2>1, <2>2
<1> QED
  BY <1>4 DEF First

LEMMA SpendType ==
  ASSUME left \in [Events -> Nat], NEW e \in Events, Spend(e)
  PROVE  left' \in [Events -> Nat]
  BY DEF Spend

SlotRecord == [pc : Pc, on : Accounts, result : Errors, read : Window]

LEMMA SlotStep ==
  ASSUME slot \in [Slots -> SlotRecord], NEW w \in Slots, NEW s \in SlotRecord,
         slot' = [slot EXCEPT ![w] = s]
  PROVE  slot' \in [Slots -> SlotRecord]
  OBVIOUS

LEMMA GotoType ==
  ASSUME slot \in [Slots -> SlotRecord], NEW w \in Slots, NEW pc \in Pc, Goto(w, pc)
  PROVE  slot' \in [Slots -> SlotRecord]
<1> DEFINE s == [slot[w] EXCEPT !.pc = pc]
<1>1. s \in SlotRecord
  BY DEF SlotRecord
<1>2. slot' = [slot EXCEPT ![w] = s]
  BY DEF Goto
<1> HIDE DEF s
<1> QED
  BY <1>1, <1>2, SlotStep

\* The window counts no further than its bound, and its level stays in range.
LEMMA SumType ==
  ASSUME SmtpAssumption, slot \in [Slots -> SlotRecord], NEW w \in Slots
  PROVE  Sum(w) \in Window
<1> DEFINE old == slot[w].read
           n == IF old.total < MaxTotal THEN old.total + 1 ELSE MaxTotal
           f == old.failures + (IF slot[w].result = "none" THEN 0 ELSE 1)
           g == IF f < n THEN f ELSE n
<1>1. old \in Window /\ MaxTotal \in Nat
  BY DEF SlotRecord, SmtpAssumption
<1>2. old.total \in 0 .. MaxTotal /\ old.failures \in 0 .. MaxTotal
  BY <1>1 DEF Window
<1>3. n \in 0 .. MaxTotal /\ g \in 0 .. MaxTotal
  BY <1>1, <1>2
<1>4. Sum(w) = [old EXCEPT !.total = n, !.failures = g]
  BY DEF Sum
<1> HIDE DEF n, g, old
<1> QED
  BY <1>1, <1>3, <1>4 DEF Window

LEMMA JudgedType ==
  ASSUME SmtpAssumption, NEW s \in Window
  PROVE  /\ Judged(s) \in Window
         /\ TooMany(s) => Judged(s).level = IF s.level < MaxLevel THEN s.level + 1 ELSE MaxLevel
         /\ ~TooMany(s) => Judged(s).level = IF FewEnough(s) /\ s.level > 0
                                             THEN s.level - 1 ELSE s.level
<1>1. s.level \in 0 .. MaxLevel /\ MaxLevel \in Nat
  BY DEF Window, SmtpAssumption
<1>2. ASSUME NEW n \in 0 .. MaxLevel
      PROVE  /\ [s EXCEPT !.level = n] \in Window /\ [s EXCEPT !.level = n].level = n
             /\ [s EXCEPT !.level = n, !.hot = TRUE] \in Window
             /\ [s EXCEPT !.level = n, !.hot = TRUE].level = n
  BY DEF Window
<1>3. CASE TooMany(s)
  <2> DEFINE n == IF s.level < MaxLevel THEN s.level + 1 ELSE MaxLevel
  <2>1. n \in 0 .. MaxLevel
    BY <1>1
  <2>2. Judged(s) = [s EXCEPT !.level = n, !.hot = TRUE]
    BY <1>3 DEF Judged
  <2> HIDE DEF n
  <2>3. Judged(s) \in Window /\ Judged(s).level = n
    BY <1>2, <2>1, <2>2
  <2> QED
    BY <1>3, <2>3 DEF n
<1>4. CASE ~TooMany(s) /\ FewEnough(s)
  <2> DEFINE n == IF s.level > 0 THEN s.level - 1 ELSE 0
  <2>1. n \in 0 .. MaxLevel
    BY <1>1
  <2>2. Judged(s) = [s EXCEPT !.level = n]
    BY <1>4 DEF Judged
  <2> HIDE DEF n
  <2>3. Judged(s) \in Window /\ Judged(s).level = n
    BY <1>2, <2>1, <2>2
  <2> QED
    BY <1>1, <1>4, <2>3 DEF n
<1>5. CASE ~TooMany(s) /\ ~FewEnough(s)
  <2>1. Judged(s) = s
    BY <1>5 DEF Judged
  <2> QED
    BY <1>5, <2>1
<1> QED
  BY <1>3, <1>4, <1>5

LEMMA TypeInitial == ASSUME SmtpAssumption, Init PROVE TypeOK
<1>1. First(Accounts) \in Accounts
  BY FirstIsMember DEF SmtpAssumption
<1>2. Fresh \in Window
  BY DEF Fresh, Window, SmtpAssumption
<1>3. [pc |-> "idle", on |-> First(Accounts), result |-> "none", read |-> Fresh] \in SlotRecord
  BY <1>1, <1>2 DEF SlotRecord, Pc, Errors
<1>4. slot \in [Slots -> SlotRecord]
  BY <1>3 DEF Init
<1>5. row \in [Accounts -> Row]
  BY DEF Init, Row, Health, Errors
<1>6. request \in [kind : Kinds, on : SUBSET Accounts, auth : SUBSET Accounts]
  BY DEF Init, NoRequest, Kinds
<1> QED
  BY <1>2, <1>4, <1>5, <1>6 DEF Init, TypeOK, SlotRecord, SmtpAssumption

\* The rows that tests and requests write.
LEMMA RowType ==
  ASSUME NEW r \in Row, NEW b \in BOOLEAN, NEW e \in Errors, NEW h \in Health,
         NEW c \in {"none", "running", "over"}
  PROVE  /\ [r EXCEPT !.throttled = b] \in Row
         /\ [r EXCEPT !.cooldown = c] \in Row
         /\ [r EXCEPT !.health = h, !.error = e, !.cooldown = c] \in Row
         /\ [r EXCEPT !.throttled = b, !.cooldown = c] \in Row
         /\ [r EXCEPT !.throttled = b, !.cooldown = c, !.health = h] \in Row
         /\ [r EXCEPT !.throttled = b, !.cooldown = c, !.error = e] \in Row
         /\ [r EXCEPT !.throttled = b, !.cooldown = c, !.error = e, !.health = h] \in Row
         /\ [r EXCEPT !.active = b, !.health = h] \in Row
         /\ [r EXCEPT !.active = b, !.archived = TRUE, !.health = h] \in Row
         /\ [r EXCEPT !.archived = TRUE, !.active = b, !.health = h] \in Row
         /\ [r EXCEPT !.active = b] \in Row
         /\ [r EXCEPT !.health = h] \in Row
         /\ [r EXCEPT !.active = b, !.health = h, !.error = e] \in Row
         /\ [r EXCEPT !.health = h, !.error = e] \in Row
         /\ [r EXCEPT !.health = h, !.error = e, !.throttled = b, !.cooldown = c] \in Row
  BY DEF Row

\* A delivery begins, with whatever account its payload names.
Begins(w) == \E a \in Accounts : Choose(w, a)

\* A step of a delivery.
LEMMA DeliveryType ==
  ASSUME SmtpAssumption, TypeOK, NEW w \in Slots,
         Step(w) \/ DbError(w) \/ Begins(w)
  PROVE  TypeOK'
<1> USE DEF SlotRecord
<1>0. /\ slot \in [Slots -> SlotRecord] /\ slot[w] \in SlotRecord /\ On(w) \in Accounts
      /\ row \in [Accounts -> Row] /\ window \in [Accounts -> Window]
      /\ count \in [Accounts -> Nat] /\ quota \in [Accounts -> Int]
  BY DEF TypeOK, On
<1>1. ASSUME NEW payload \in Accounts, Choose(w, payload) PROVE TypeOK'
  <2> DEFINE rows == IF pool = {} THEN row ELSE CHOOSE r \in pool : TRUE
             able == {a \in Accounts : Eligible(rows[a])}
             on == IF payload \in able THEN payload ELSE First(able)
             s == [slot[w] EXCEPT !.pc = "gate", !.result = "none", !.on = on]
  <2>1. rows \in [Accounts -> Row]
    BY DEF TypeOK
  <2>2. able # {} /\ able \subseteq Accounts
    BY <1>1 DEF Choose
  <2>3. on \in Accounts
    BY <2>2, FirstIsMember DEF SmtpAssumption
  <2>4. /\ pool' = {rows} /\ Spend("deliver")
        /\ slot' = [slot EXCEPT ![w].pc = "gate", ![w].result = "none", ![w].on = on]
    BY <1>1, Zenon DEF Choose
  <2> HIDE DEF rows, able, on
  <2>5. s \in SlotRecord /\ slot' = [slot EXCEPT ![w] = s]
    BY <1>0, <2>3, <2>4 DEF Pc, Errors
  <2> HIDE DEF s
  <2>6. slot' \in [Slots -> SlotRecord]
    BY <1>0, <2>5, SlotStep
  <2>7. left' \in [Events -> Nat]
    BY <2>4, SpendType DEF TypeOK, Events
  <2> QED
    BY <1>1, <2>1, <2>4, <2>6, <2>7 DEF Choose, TypeOK
<1>2. CASE Gate(w)
  <2>1. \E pc \in {"idle", "send"} : Goto(w, pc)
    BY <1>2 DEF Gate
  <2>2. slot' \in [Slots -> SlotRecord]
    BY <1>0, <2>1, GotoType DEF Pc
  <2> DEFINE usage == IF quota[On(w)] = -1 THEN count[On(w)] ELSE quota[On(w)]
  <2>0. count[On(w)] \in Nat /\ quota[On(w)] \in Int
    BY <1>0
  <2>4. usage \in Int
    BY <2>0
  <2>6. quota' = [quota EXCEPT ![On(w)] = usage]
    BY <1>2 DEF Gate
  <2>5. stale' = stale \/ stale' = stale \cup {On(w)}
    BY <1>2 DEF Gate
  <2> HIDE DEF usage
  <2>3. quota' \in [Accounts -> Int] /\ stale' \subseteq Accounts
    BY <1>0, <2>4, <2>5, <2>6 DEF TypeOK
  <2> QED
    BY <1>2, <2>2, <2>3 DEF Gate, TypeOK
<1>3. CASE Accept(w)
  <2>1. slot' \in [Slots -> SlotRecord]
    BY <1>0, <1>3, GotoType DEF Accept, Pc
  <2> QED
    BY <1>3, <2>1 DEF Accept, TypeOK
<1>4. CASE Reject(w)
  <2>1. PICK e \in Errors : slot' = [slot EXCEPT ![w].pc = "record", ![w].result = e]
    BY <1>4 DEF Reject, Errors
  <2> DEFINE s == [slot[w] EXCEPT !.pc = "record", !.result = e]
  <2>2. s \in SlotRecord /\ slot' = [slot EXCEPT ![w] = s]
    BY <1>0, <2>1 DEF Pc
  <2> HIDE DEF s
  <2>3. slot' \in [Slots -> SlotRecord]
    BY <1>0, <2>2, SlotStep
  <2>4. left' \in [Events -> Nat]
    BY <1>4, SpendType DEF Reject, TypeOK, Events
  <2> QED
    BY <1>4, <2>3, <2>4 DEF Reject, TypeOK
<1>5. CASE Count(w)
  <2>1. slot' \in [Slots -> SlotRecord]
    BY <1>0, <1>5, GotoType DEF Count, Pc
  <2>2. count' \in [Accounts -> Nat]
    <3> DEFINE n == count[On(w)] + 1
    <3>0. count[On(w)] \in Nat
      BY <1>0
    <3>1. n \in Nat /\ count' = [count EXCEPT ![On(w)] = n]
      BY <1>5, <3>0 DEF Count
    <3> HIDE DEF n
    <3> QED
      BY <1>0, <3>1
  <2> QED
    BY <1>5, <2>1, <2>2 DEF Count, TypeOK
<1>6. CASE DbError(w)
  <2> DEFINE s == [slot[w] EXCEPT !.pc = IF slot[w].result = "none" THEN "record" ELSE "idle",
                                  !.result = "other"]
  <2>1. s \in SlotRecord /\ slot' = [slot EXCEPT ![w] = s]
    BY <1>0, <1>6 DEF DbError, Pc, Errors
  <2> HIDE DEF s
  <2>2. slot' \in [Slots -> SlotRecord]
    BY <1>0, <2>1, SlotStep
  <2>3. left' \in [Events -> Nat] /\ raced' \subseteq Accounts
    BY <1>0, <1>6, SpendType DEF DbError, TypeOK, Events
  <2> QED
    BY <1>6, <2>2, <2>3 DEF DbError, TypeOK
<1>7. CASE RecordRead(w)
  <2> DEFINE s == [slot[w] EXCEPT !.pc = "judge", !.read = window[On(w)]]
  <2>1. s \in SlotRecord /\ slot' = [slot EXCEPT ![w] = s]
    BY <1>0, <1>7 DEF RecordRead, Pc
  <2> HIDE DEF s
  <2>2. slot' \in [Slots -> SlotRecord]
    BY <1>0, <2>1, SlotStep
  <2>3. raced' \subseteq Accounts
    BY <1>0, <1>7 DEF RecordRead, TypeOK
  <2> QED
    BY <1>7, <2>2, <2>3 DEF RecordRead, TypeOK
<1>8. CASE Judge(w)
  <2> DEFINE j == Judged(Sum(w))
             s == [slot[w] EXCEPT !.pc = "write", !.read = j]
             b == IF TooMany(Sum(w)) THEN TRUE
                  ELSE IF FewEnough(Sum(w)) /\ j.level = 0 THEN FALSE ELSE row[On(w)].throttled
  <2>0. j \in Window
    BY <1>0, SumType, JudgedType
  <2>1. slot' = [slot EXCEPT ![w] = s]
    BY <1>8 DEF Judge
  <2>2. row' = [row EXCEPT ![On(w)] = [@ EXCEPT !.throttled = b]]
    BY <1>8 DEF Judge
  <2>3. b \in BOOLEAN /\ row[On(w)] \in Row
    BY <1>0 DEF Row
  <2> HIDE DEF j, b
  <2>4. s \in SlotRecord
    BY <1>0, <2>0 DEF Pc
  <2> HIDE DEF s
  <2>5. slot' \in [Slots -> SlotRecord]
    BY <1>0, <2>1, <2>4, SlotStep
  <2>6. [row[On(w)] EXCEPT !.throttled = b] \in Row
    BY <2>3 DEF Row
  <2>7. row' \in [Accounts -> Row]
    BY <1>0, <2>2, <2>6
  <2> QED
    BY <1>8, <2>5, <2>7 DEF Judge, TypeOK
<1>9. CASE RecordWrite(w)
  <2>1. slot' \in [Slots -> SlotRecord]
    BY <1>0, <1>9, GotoType DEF RecordWrite, Pc
  <2>2. window' \in [Accounts -> Window]
    BY <1>0, <1>9 DEF RecordWrite
  <2> QED
    BY <1>9, <2>1, <2>2 DEF RecordWrite, TypeOK
<1>10. CASE WriteHealth(w)
  <2>1. slot' \in [Slots -> SlotRecord]
    BY <1>0, <1>10, GotoType DEF WriteHealth, Pc
  <2>2. \E h \in Health, e \in Errors, c \in {"none", "running"} :
          row' = [row EXCEPT ![On(w)] = [@ EXCEPT !.health = h, !.error = e, !.cooldown = c]]
    <3>1. slot[w].result \in Errors /\ "none" \in Errors /\ {"healthy", "error"} \subseteq Health
      BY <1>0 DEF Errors, Health
    <3> QED
      BY <1>10, <3>1 DEF WriteHealth
  <2>3. row' \in [Accounts -> Row]
    <3>1. PICK r \in Row : row' = [row EXCEPT ![On(w)] = r]
      BY <1>0, <2>2, RowType
    <3> QED
      BY <1>0, <3>1
  <2> QED
    BY <1>10, <2>1, <2>3 DEF WriteHealth, TypeOK
<1> QED
  BY <1>1, <1>2, <1>3, <1>4, <1>5, <1>6, <1>7, <1>8, <1>9, <1>10 DEF Step, Begins

\* What the steps of time and of operators may do: the deliveries go on as they
\* were, a cached count is dropped, a window cools or is lost, and the throttle of
\* an account changes only under their hands.
Aside ==
  /\ TypeOK'
  /\ UNCHANGED <<count, slot, stale, raced>>
  /\ touched \subseteq touched'
  /\ \A a \in Accounts :
       /\ quota'[a] \in {quota[a], -1}
       /\ window'[a].level \in {window[a].level, 0}
       /\ row'[a].throttled = row[a].throttled \/ a \in touched'

LEMMA TimeType ==
  ASSUME SmtpAssumption, TypeOK, NEW a \in Accounts,
         \/ CooldownOver(a) \/ WindowCools(a) \/ WindowExpires(a) \/ Sweep \/ Refresh
  PROVE  Aside
<1>0. /\ row \in [Accounts -> Row] /\ row[a] \in Row
      /\ window \in [Accounts -> Window] /\ window[a] \in Window
      /\ quota \in [Accounts -> Int] /\ touched \subseteq Accounts
  BY DEF TypeOK
<1>1. CASE CooldownOver(a)
  <2> DEFINE r == [row[a] EXCEPT !.cooldown = "over"]
  <2>1. r \in Row /\ r.throttled = row[a].throttled
    BY <1>0 DEF Row
  <2>2. row' = [row EXCEPT ![a] = r]
    BY <1>1 DEF CooldownOver
  <2> HIDE DEF r
  <2>3. row' \in [Accounts -> Row] /\ \A b \in Accounts : row'[b].throttled = row[b].throttled
    BY <1>0, <2>1, <2>2
  <2> QED
    BY <1>1, <2>3 DEF CooldownOver, TypeOK, Aside
<1>2. ASSUME NEW u \in Window, u.level \in {window[a].level, 0},
             window' = [window EXCEPT ![a] = u]
      PROVE  /\ window' \in [Accounts -> Window]
             /\ \A b \in Accounts : window'[b].level \in {window[b].level, 0}
  BY <1>0, <1>2
<1>3. CASE WindowCools(a)
  <2> DEFINE u == [window[a] EXCEPT !.hot = FALSE]
  <2>1. u \in Window /\ u.level = window[a].level /\ window' = [window EXCEPT ![a] = u]
    BY <1>0, <1>3 DEF WindowCools, Window
  <2> HIDE DEF u
  <2> QED
    BY <1>2, <1>3, <2>1 DEF WindowCools, TypeOK, Aside
<1>4. CASE WindowExpires(a)
  <2>1. Fresh \in Window /\ Fresh.level = 0
    BY DEF Fresh, Window, SmtpAssumption
  <2>2. left' \in [Events -> Nat]
    BY <1>4, SpendType DEF WindowExpires, TypeOK, Events
  <2> QED
    BY <1>2, <1>4, <2>1, <2>2 DEF WindowExpires, TypeOK, Aside
<1>5. CASE Sweep
  <2> DEFINE due == {b \in Accounts : row[b].throttled /\ row[b].cooldown = "over"}
  <2>1. touched' = touched \cup due /\ due \subseteq Accounts
    BY <1>5 DEF Sweep
  <2>2. row' = [b \in Accounts |-> IF b \in due
                  THEN [row[b] EXCEPT !.throttled = FALSE, !.cooldown = "none"] ELSE row[b]]
    BY <1>5 DEF Sweep
  <2> HIDE DEF due
  <2>3. row' \in [Accounts -> Row]
    <3>1. \A b \in Accounts : [row[b] EXCEPT !.throttled = FALSE, !.cooldown = "none"] \in Row
      BY <1>0 DEF Row
    <3> QED
      BY <1>0, <2>2, <3>1
  <2>4. \A b \in Accounts : row'[b].throttled = row[b].throttled \/ b \in touched'
    BY <2>1, <2>2
  <2> QED
    BY <1>0, <1>5, <2>1, <2>3, <2>4 DEF Sweep, TypeOK, Aside
<1>6. CASE Refresh
  <2>1. left' \in [Events -> Nat]
    BY <1>6, SpendType DEF Refresh, TypeOK, Events
  <2>2. quota' \in [Accounts -> Int] /\ \A b \in Accounts : quota'[b] \in {quota[b], -1}
    BY <1>0, <1>6 DEF Refresh
  <2>3. \A rows \in pool' : rows \in [Accounts -> Row]
    BY <1>6 DEF Refresh, TypeOK
  <2> QED
    BY <1>6, <2>1, <2>2, <2>3 DEF Refresh, TypeOK, Aside
<1> QED
  BY <1>1, <1>3, <1>4, <1>5, <1>6

LEMMA OperatorType ==
  ASSUME SmtpAssumption, TypeOK, NEW a \in Accounts, NEW S \in SUBSET Accounts,
         NEW scope \in Scopes, NEW withAuth \in BOOLEAN,
         \/ Patch(a) \/ ArchiveInUse(a) \/ BulkDelete(a) \/ ImportAgain(a) \/ BulkClear(S)
         \/ TestStart(a) \/ TestEnd(a) \/ ResetRead(scope, withAuth) \/ ResetWrite
  PROVE  Aside
<1>0. /\ row \in [Accounts -> Row] /\ row[a] \in Row /\ touched \subseteq Accounts
      /\ request \in [kind : Kinds, on : SUBSET Accounts, auth : SUBSET Accounts]
      /\ left \in [Events -> Nat]
  BY DEF TypeOK
\* A single account is changed.
<1>1. ASSUME NEW r \in Row, row' = [row EXCEPT ![a] = r], touched' = touched \cup {a}
      PROVE  /\ row' \in [Accounts -> Row] /\ touched' \subseteq Accounts
             /\ \A b \in Accounts : row'[b].throttled = row[b].throttled \/ b \in touched'
  BY <1>0, <1>1
<1>2. {"none", "auth", "other"} = Errors /\ {"healthy", "warning", "error", "disabled"} = Health
  BY DEF Errors, Health
<1>3. ASSUME NEW r \in Row, Changed(a, r), Spend("patch") PROVE Aside
  <2>1. left' \in [Events -> Nat]
    BY <1>0, <1>3, SpendType DEF Events
  <2> QED
    BY <1>1, <1>3, <2>1 DEF Changed, TypeOK, Aside
<1>4. CASE Patch(a) \/ ArchiveInUse(a) \/ BulkDelete(a) \/ ImportAgain(a)
  <2>1. PICK r \in Row : Changed(a, r) /\ Spend("patch")
    <3>1. /\ [row[a] EXCEPT !.throttled = FALSE, !.cooldown = "none", !.health = "healthy"] \in Row
          /\ [row[a] EXCEPT !.active = FALSE, !.health = "disabled"] \in Row
          /\ [row[a] EXCEPT !.active = FALSE, !.archived = TRUE, !.health = "disabled"] \in Row
          /\ [row[a] EXCEPT !.archived = TRUE, !.active = FALSE, !.health = "disabled"] \in Row
          /\ [row[a] EXCEPT !.active = TRUE] \in Row
          /\ [row[a] EXCEPT !.health = "healthy"] \in Row
          /\ [row[a] EXCEPT !.active = TRUE, !.health = "healthy", !.error = "none"] \in Row
      BY <1>0, <1>2, RowType
    <3>2. CASE Patch(a)
      BY <3>1, <3>2 DEF Patch
    <3>3. CASE ArchiveInUse(a) \/ BulkDelete(a) \/ ImportAgain(a)
      BY <3>1, <3>3 DEF ArchiveInUse, BulkDelete, ImportAgain
    <3> QED
      BY <1>4, <3>2, <3>3
  <2> QED
    BY <1>3, <2>1
\* Several accounts are changed.
<1>5. ASSUME NEW T \in SUBSET Accounts, NEW f \in [Accounts -> Row], row' = f,
             \A b \in Accounts \ T : f[b] = row[b], touched' = touched \cup T
      PROVE  /\ row' \in [Accounts -> Row] /\ touched' \subseteq Accounts
             /\ \A b \in Accounts : row'[b].throttled = row[b].throttled \/ b \in touched'
  BY <1>0, <1>5
<1>6. CASE BulkClear(S)
  <2> DEFINE f == [b \in Accounts |->
                     IF b \in S /\ ~row[b].archived
                     THEN [row[b] EXCEPT !.throttled = FALSE, !.cooldown = "none", !.error = "none"]
                     ELSE row[b]]
  <2>1. f \in [Accounts -> Row] /\ \A b \in Accounts \ S : f[b] = row[b]
    BY <1>0, <1>2, RowType
  <2>2. row' = f /\ touched' = touched \cup S /\ Spend("patch")
    BY <1>6 DEF BulkClear
  <2> HIDE DEF f
  <2>3. left' \in [Events -> Nat]
    BY <1>0, <2>2, SpendType DEF Events
  <2>4. /\ row' \in [Accounts -> Row] /\ touched' \subseteq Accounts
        /\ \A b \in Accounts : row'[b].throttled = row[b].throttled \/ b \in touched'
    BY <1>5, <2>1, <2>2
  <2> QED
    BY <1>6, <2>2, <2>3, <2>4 DEF BulkClear, TypeOK, Aside
<1>7. CASE TestStart(a)
  <2>1. left' \in [Events -> Nat]
    BY <1>0, <1>7, SpendType DEF TestStart, Events
  <2>2. request' \in [kind : Kinds, on : SUBSET Accounts, auth : SUBSET Accounts]
    BY <1>7 DEF TestStart, Kinds
  <2> QED
    BY <1>7, <2>1, <2>2 DEF TestStart, TypeOK, Aside
<1>8. NoRequest \in [kind : Kinds, on : SUBSET Accounts, auth : SUBSET Accounts]
  BY DEF NoRequest, Kinds
<1>9. CASE TestEnd(a)
  <2>1. PICK r \in Row : row' = [row EXCEPT ![a] = r]
    <3>1. /\ [row[a] EXCEPT !.health = "healthy", !.error = "none"] \in Row
          /\ [row[a] EXCEPT !.health = "error", !.error = "auth"] \in Row
          /\ [row[a] EXCEPT !.health = "error", !.error = "other"] \in Row
      BY <1>0, <1>2, RowType
    <3>2. /\ [row[a] EXCEPT !.health = "healthy", !.error = "none", !.throttled = FALSE,
                            !.cooldown = "none"] \in Row
          /\ [row[a] EXCEPT !.health = "warning", !.error = "other", !.throttled = TRUE,
                            !.cooldown = "running"] \in Row
      BY <1>0, <1>2 DEF Row
    <3> QED
      BY <1>9, <3>1, <3>2 DEF TestEnd, BulkResult
  <2>2. touched' = touched \cup {a} /\ request' = NoRequest
    BY <1>9 DEF TestEnd
  <2>3. /\ row' \in [Accounts -> Row] /\ touched' \subseteq Accounts
        /\ \A b \in Accounts : row'[b].throttled = row[b].throttled \/ b \in touched'
    BY <1>1, <2>1, <2>2
  <2> QED
    BY <1>8, <1>9, <2>2, <2>3 DEF TestEnd, TypeOK, Aside
<1>10. CASE ResetRead(scope, withAuth)
  <2>1. left' \in [Events -> Nat]
    BY <1>0, <1>10, SpendType DEF ResetRead, Events
  <2>2. request' \in [kind : Kinds, on : SUBSET Accounts, auth : SUBSET Accounts]
    BY <1>10 DEF ResetRead, Kinds, AuthFailed, Resolved
  <2> QED
    BY <1>10, <2>1, <2>2 DEF ResetRead, TypeOK, Aside
<1>11. CASE ResetWrite
  <2>1. PICK h \in BOOLEAN : row' =
          [b \in Accounts |->
             IF b \in request.on /\ ~row[b].archived
               THEN [row[b] EXCEPT !.throttled = FALSE, !.cooldown = "none", !.error = "none",
                       !.health = IF h THEN "healthy" ELSE @]
               ELSE row[b]]
    BY <1>11 DEF ResetWrite
  <2>2. \A b \in Accounts : [row[b] EXCEPT !.throttled = FALSE, !.cooldown = "none",
                               !.error = "none", !.health = IF h THEN "healthy" ELSE @] \in Row
    BY <1>0, <1>2 DEF Row
  <2>3. row' \in [Accounts -> Row] /\ \A b \in Accounts \ request.on : row'[b] = row[b]
    BY <1>0, <2>1, <2>2
  <2>4. touched' = touched \cup request.on /\ request' = NoRequest
        /\ request.on \in SUBSET Accounts
    BY <1>0, <1>11 DEF ResetWrite
  <2>5. /\ row' \in [Accounts -> Row] /\ touched' \subseteq Accounts
        /\ \A b \in Accounts : row'[b].throttled = row[b].throttled \/ b \in touched'
    BY <1>5, <2>3, <2>4
  <2> QED
    BY <1>8, <1>11, <2>4, <2>5 DEF ResetWrite, TypeOK, Aside
<1> QED
  BY <1>4, <1>6, <1>7, <1>9, <1>10, <1>11

\* Every step is one of a delivery, or leaves the deliveries alone.
LEMMA Steps ==
  ASSUME SmtpAssumption, TypeOK, Next
  PROVE  \/ \E w \in Slots : Step(w) \/ DbError(w) \/ Begins(w)
         \/ Aside
<1>0. PICK a \in Accounts : TRUE
  BY DEF SmtpAssumption
<1>1. ASSUME NEW b \in Accounts,
             \/ CooldownOver(b) \/ WindowCools(b) \/ WindowExpires(b)
      PROVE  Aside
  BY <1>1, TimeType
<1>2. CASE Sweep \/ Refresh
  BY <1>0, <1>2, TimeType
<1>3. "selected" \in Scopes /\ TRUE \in BOOLEAN /\ {} \in SUBSET Accounts
  BY DEF Scopes
<1>4. ASSUME NEW b \in Accounts,
             \/ TestStart(b) \/ TestEnd(b) \/ Patch(b) \/ ArchiveInUse(b) \/ BulkDelete(b)
             \/ ImportAgain(b)
      PROVE  Aside
  BY <1>3, <1>4, OperatorType
<1>5. ASSUME NEW scope \in Scopes, NEW withAuth \in BOOLEAN, ResetRead(scope, withAuth)
      PROVE  Aside
  BY <1>0, <1>3, <1>5, OperatorType
<1>6. ASSUME NEW S \in SUBSET Accounts, BulkClear(S) PROVE Aside
  BY <1>0, <1>3, <1>6, OperatorType
<1>7. CASE ResetWrite
  BY <1>0, <1>3, <1>7, OperatorType
<1> QED
  BY <1>1, <1>2, <1>4, <1>5, <1>6, <1>7 DEF Next, Begins

LEMMA TypeStep == ASSUME SmtpAssumption, TypeOK, [Next]_vars PROVE TypeOK'
<1>1. CASE Next
  BY <1>1, Steps, DeliveryType DEF Aside
<1>2. CASE UNCHANGED vars
  BY <1>2 DEF vars, TypeOK
<1> QED
  BY <1>1, <1>2

\* The rows, the windows and the requests keep their types, and the shared
\* window and its level their bounds.
THEOREM AccountTypeCorrect == Spec => []TypeOK
<1>1. Init => TypeOK
  BY SmtpAssumption, TypeInitial
<1>2. TypeOK /\ [Next]_vars => TypeOK'
  BY SmtpAssumption, TypeStep
<1> QED
  BY <1>1, <1>2, PTL DEF Spec
-----------------------------------------------------------------------------
(* The daily cap *)

\* Deliveries that have passed the gate and are not counted yet.
Uncounted(a) == {w \in Slots : On(w) = a /\ slot[w].pc \in {"send", "count"}}

\* The property alone is not inductive: who has passed the gate will count.
Bounded ==
  \A a \in Accounts \ stale :
    count[a] + Cardinality(Uncounted(a)) <= Cap + Cardinality(Slots) - 1

LEMMA UncountedFinite ==
  ASSUME SmtpAssumption, NEW a
  PROVE  /\ IsFiniteSet(Uncounted(a)) /\ Cardinality(Uncounted(a)) \in Nat
         /\ Cardinality(Slots) \in Nat /\ Cardinality(Uncounted(a)) <= Cardinality(Slots)
<1>1. Uncounted(a) \in SUBSET Slots
  BY DEF Uncounted
<1>2. IsFiniteSet(Slots)
  BY DEF SmtpAssumption
<1> QED
  BY <1>1, <1>2, FS_Subset, FS_CardinalityType

\* Where nothing is counted and nobody passes the gate of an account.
LEMMA NobodyPasses ==
  ASSUME SmtpAssumption, TypeOK, Bounded, NEW a \in Accounts \ stale,
         count'[a] = count[a], Uncounted(a)' \subseteq Uncounted(a)
  PROVE  count'[a] + Cardinality(Uncounted(a)') <= Cap + Cardinality(Slots) - 1
<1> DEFINE U == Uncounted(a)
           V == Uncounted(a)'
<1>1. count[a] + Cardinality(U) <= Cap + Cardinality(Slots) - 1
  BY DEF Bounded
<1>2. IsFiniteSet(U) /\ Cardinality(U) \in Nat /\ Cardinality(Slots) \in Nat
  BY UncountedFinite
<1>3. V \in SUBSET U /\ count'[a] = count[a] /\ count[a] \in Nat /\ Cap \in Nat
  BY DEF TypeOK, SmtpAssumption
<1> HIDE DEF U, V
<1>4. Cardinality(V) \in Nat /\ Cardinality(V) <= Cardinality(U)
  BY <1>2, <1>3, FS_Subset, FS_CardinalityType
<1>5. count[a] + Cardinality(V) <= Cap + Cardinality(Slots) - 1
  BY <1>1, <1>2, <1>3, <1>4
<1> QED
  BY <1>3, <1>5 DEF V

LEMMA BoundedStep ==
  ASSUME SmtpAssumption, TypeOK, Bounded, [Next]_vars
  PROVE  Bounded'
<1> SUFFICES ASSUME NEW a \in Accounts \ stale'
             PROVE  count'[a] + Cardinality(Uncounted(a)') <= Cap + Cardinality(Slots) - 1
  BY DEF Bounded
<1>0. /\ slot \in [Slots -> SlotRecord] /\ count \in [Accounts -> Nat]
      /\ quota \in [Accounts -> Int] /\ Cap \in Nat
  BY DEF TypeOK, SlotRecord, SmtpAssumption
<1>1. CASE Aside \/ UNCHANGED vars
  <2>1. UNCHANGED <<count, slot, stale>>
    BY <1>1 DEF Aside, vars
  <2>2. a \in Accounts \ stale /\ count'[a] = count[a] /\ Uncounted(a)' \subseteq Uncounted(a)
    BY <2>1 DEF Uncounted, On
  <2> QED
    BY <2>2, NobodyPasses
<1>2. ASSUME NEW w \in Slots, Gate(w), slot'[w].pc = "send", On(w) = a
      PROVE  count'[a] + Cardinality(Uncounted(a)') <= Cap + Cardinality(Slots) - 1
  <2> DEFINE usage == IF quota[a] = -1 THEN count[a] ELSE quota[a]
  <2>0. count[a] \in Nat /\ quota[a] \in Int
    BY <1>0
  <2>1. /\ stale' = IF quota[a] # -1 /\ quota[a] # count[a] THEN stale \cup {a} ELSE stale
        /\ Goto(w, IF usage >= Cap THEN "idle" ELSE "send") /\ count' = count
    BY <1>2 DEF Gate
  <2>2. usage = count[a] /\ usage < Cap
    <3>1. slot'[w].pc = IF usage >= Cap THEN "idle" ELSE "send"
      BY <1>0, <2>1 DEF Goto, SlotRecord
    <3> QED
      BY <1>0, <1>2, <2>0, <2>1, <3>1
  <2> HIDE DEF usage
  <2>3. Cardinality(Uncounted(a)') \in Nat /\ Cardinality(Slots) \in Nat
        /\ Cardinality(Uncounted(a)') <= Cardinality(Slots)
    <3> DEFINE V == Uncounted(a)'
    <3>1. V \in SUBSET Slots
      BY DEF Uncounted
    <3> HIDE DEF V
    <3>2. Cardinality(V) \in Nat /\ Cardinality(Slots) \in Nat /\ Cardinality(V) <= Cardinality(Slots)
      BY <3>1, FS_Subset, FS_CardinalityType DEF SmtpAssumption
    <3> QED
      BY <3>2 DEF V
  <2> QED
    BY <1>0, <2>0, <2>1, <2>2, <2>3
<1>3. ASSUME NEW w \in Slots, Count(w), On(w) = a
      PROVE  count'[a] + Cardinality(Uncounted(a)') <= Cap + Cardinality(Slots) - 1
  <2>0. count[a] \in Nat /\ a \notin stale
    BY <1>0, <1>3 DEF Count
  <2>1. count'[a] = count[a] + 1
    BY <1>0, <1>3 DEF Count
  <2>2. w \in Uncounted(a)
    BY <1>3 DEF Count, At, Uncounted
  <2>3. Uncounted(a)' = Uncounted(a) \ {w}
    BY <1>0, <1>3 DEF Count, Goto, Uncounted, On, SlotRecord
  <2>4. /\ IsFiniteSet(Uncounted(a)) /\ Cardinality(Uncounted(a)) \in Nat
        /\ Cardinality(Slots) \in Nat
    BY UncountedFinite
  <2> DEFINE U == Uncounted(a)
  <2>5. count[a] + Cardinality(U) <= Cap + Cardinality(Slots) - 1
    BY <2>0 DEF Bounded
  <2> HIDE DEF U
  <2>6. Cardinality(U \ {w}) = Cardinality(U) - 1
    BY <2>2, <2>4, FS_RemoveElement DEF U
  <2>7. count[a] + 1 + Cardinality(U \ {w}) <= Cap + Cardinality(Slots) - 1
    BY <1>0, <2>0, <2>4, <2>5, <2>6 DEF U
  <2> QED
    BY <2>1, <2>3, <2>7 DEF U
<1>4. ASSUME NEW w \in Slots,
             \/ Begins(w)
             \/ Gate(w) /\ ~(slot'[w].pc = "send" /\ On(w) = a)
             \/ Accept(w) \/ Reject(w)
             \/ Count(w) /\ On(w) # a
             \/ DbError(w) \/ RecordRead(w) \/ Judge(w) \/ RecordWrite(w) \/ WriteHealth(w)
      PROVE  count'[a] + Cardinality(Uncounted(a)') <= Cap + Cardinality(Slots) - 1
  <2>1. a \notin stale
    BY <1>4 DEF Begins, Choose, Gate, Accept, Reject, Count, DbError, RecordRead, Judge,
      RecordWrite, WriteHealth
  <2>2. count'[a] = count[a]
    BY <1>0, <1>4 DEF Begins, Choose, Gate, Accept, Reject, Count, DbError, RecordRead, Judge,
      RecordWrite, WriteHealth
  <2>3. /\ \A v \in Slots \ {w} : slot'[v] = slot[v]
        /\ \/ slot'[w].pc \notin {"send", "count"}
           \/ slot'[w].on = slot[w].on /\ slot[w].pc \in {"send", "count"}
           \/ slot'[w].on # a
    <3>1. CASE Begins(w)
      <4>1. PICK b : slot' = [slot EXCEPT ![w].pc = "gate", ![w].result = "none", ![w].on = b]
        BY <3>1 DEF Begins, Choose
      <4> QED
        BY <1>0, <4>1 DEF SlotRecord
    <3>2. CASE Gate(w) /\ ~(slot'[w].pc = "send" /\ On(w) = a)
      BY <1>0, <3>2 DEF Gate, Goto, On, SlotRecord
    <3>3. CASE Accept(w) \/ Reject(w) \/ Count(w)
      BY <1>0, <3>3 DEF Accept, Reject, Count, Goto, At, SlotRecord
    <3>4. CASE DbError(w)
      <4>1. PICK pc \in {"record", "idle"} :
              slot' = [slot EXCEPT ![w].pc = pc, ![w].result = "other"]
        BY <3>4 DEF DbError
      <4> QED
        BY <1>0, <4>1 DEF SlotRecord
    <3>5. CASE RecordRead(w) \/ Judge(w)
      <4>1. PICK u : \E pc \in {"judge", "write"} :
              slot' = [slot EXCEPT ![w].pc = pc, ![w].read = u]
        BY <3>5 DEF RecordRead, Judge
      <4> QED
        BY <1>0, <4>1 DEF SlotRecord
    <3>6. CASE RecordWrite(w) \/ WriteHealth(w)
      BY <1>0, <3>6 DEF RecordWrite, WriteHealth, Goto, SlotRecord
    <3> QED
      BY <1>4, <3>1, <3>2, <3>3, <3>4, <3>5, <3>6
  <2>4. Uncounted(a)' \subseteq Uncounted(a)
    BY <2>3 DEF Uncounted, On
  <2> QED
    BY <2>1, <2>2, <2>4, NobodyPasses
<1>5. CASE Next
  <2>1. ASSUME NEW w \in Slots, Step(w) \/ DbError(w) \/ Begins(w)
        PROVE  count'[a] + Cardinality(Uncounted(a)') <= Cap + Cardinality(Slots) - 1
    <3>1. CASE Gate(w)
      BY <1>2, <1>4, <3>1
    <3>2. CASE Count(w)
      BY <1>3, <1>4, <3>2
    <3>3. CASE ~Gate(w) /\ ~Count(w)
      BY <1>4, <2>1, <3>3 DEF Step
    <3> QED
      BY <3>1, <3>2, <3>3
  <2> QED
    BY <1>1, <1>5, <2>1, Steps
<1> QED
  BY <1>1, <1>5

\* An account gets at most as many mails over its daily cap as there are
\* deliveries at once, less one, for any cap and any number of slots -- but for
\* one whose count was read from the cache when it was no longer right.
THEOREM CapIsKept == Spec => []QuotaBound
<1>1. Spec => []TypeOK
  BY AccountTypeCorrect
<1>2. Init => Bounded
  <2> SUFFICES ASSUME Init, NEW a \in Accounts
               PROVE  count[a] + Cardinality(Uncounted(a)) <= Cap + Cardinality(Slots) - 1
    BY DEF Bounded
  <2>1. Uncounted(a) = {} /\ count[a] = 0
    BY DEF Init, Uncounted
  <2>2. Cardinality(Slots) \in Nat /\ Cap \in Nat \ {0}
    BY SmtpAssumption, UncountedFinite DEF SmtpAssumption
  <2> QED
    BY <2>1, <2>2, FS_EmptySet
<1>3. TypeOK /\ Bounded /\ [Next]_vars => Bounded'
  BY SmtpAssumption, BoundedStep
<1>4. TypeOK /\ Bounded => QuotaBound
  <2> SUFFICES ASSUME TypeOK, Bounded, NEW a \in Accounts \ stale
               PROVE  count[a] <= Cap + Cardinality(Slots) - 1
    BY DEF QuotaBound
  <2>1. count[a] + Cardinality(Uncounted(a)) <= Cap + Cardinality(Slots) - 1
    BY DEF Bounded
  <2>2. /\ count[a] \in Nat /\ Cap \in Nat /\ Cardinality(Slots) \in Nat
        /\ Cardinality(Uncounted(a)) \in Nat
    BY SmtpAssumption, UncountedFinite DEF TypeOK, SmtpAssumption
  <2> QED
    BY <2>1, <2>2
<1> QED
  BY <1>1, <1>2, <1>3, <1>4, PTL DEF Spec
-----------------------------------------------------------------------------
(* The throttle in the row and the level in the window *)

\* One delivery at a time records the outcome for an account ...
OneRecords(a) ==
  \A v, w \in Slots : Recording(v) /\ Recording(w) /\ On(v) = a /\ On(w) = a => v = w
\* ... what it is about to write has been told to the row already ...
RowKnows(a) ==
  \A w \in Slots : Recording(w) /\ On(w) = a /\ slot[w].read.level > 0 => row[a].throttled
\* ... and so has what the window says, while no newer value is about to be written.
WindowTold(a) ==
  \/ \E w \in Slots : At(w, "write") /\ On(w) = a
  \/ window[a].level > 0 => row[a].throttled

Told ==
  \A a \in Accounts \ (raced \cup touched) : OneRecords(a) /\ RowKnows(a) /\ WindowTold(a)

\* Where no delivery begins or ends to record the outcome for an account.
LEMMA NobodyRecords ==
  ASSUME TypeOK, Told, NEW a \in Accounts \ (raced' \cup touched'),
         raced \subseteq raced', touched \subseteq touched',
         \A w \in Slots :
           \/ slot'[w].pc = slot[w].pc /\ slot'[w].on = slot[w].on /\ slot'[w].read = slot[w].read
           \/ slot[w].on # a /\ slot'[w].on # a
           \/ /\ slot'[w].pc \notin {"judge", "write"}
              /\ slot[w].pc # "write",
         window'[a].level \in {window[a].level, 0},
         row'[a].throttled = row[a].throttled
  PROVE  OneRecords(a)' /\ RowKnows(a)' /\ WindowTold(a)'
<1>0. OneRecords(a) /\ RowKnows(a) /\ WindowTold(a)
  BY DEF Told
<1>1. OneRecords(a)'
  BY <1>0 DEF OneRecords, Recording, On
<1>2. RowKnows(a)'
  BY <1>0 DEF RowKnows, Recording, On
<1>3. WindowTold(a)'
  <2>1. CASE \E w \in Slots : At(w, "write") /\ On(w) = a
    BY <2>1 DEF WindowTold, At, On
  <2>2. CASE window[a].level > 0 => row[a].throttled
    BY <2>2 DEF WindowTold
  <2> QED
    BY <1>0, <2>1, <2>2 DEF WindowTold
<1> QED
  BY <1>1, <1>2, <1>3

LEMMA ToldStep ==
  ASSUME SmtpAssumption, TypeOK, Told, [Next]_vars
  PROVE  Told'
<1> SUFFICES ASSUME NEW a \in Accounts \ (raced' \cup touched')
             PROVE  OneRecords(a)' /\ RowKnows(a)' /\ WindowTold(a)'
  BY DEF Told
<1>0. /\ slot \in [Slots -> SlotRecord] /\ row \in [Accounts -> Row]
      /\ window \in [Accounts -> Window]
  BY DEF TypeOK, SlotRecord
<1>1. CASE Aside
  BY <1>1, NobodyRecords DEF Aside
<1>2. CASE UNCHANGED vars
  BY <1>2, NobodyRecords DEF vars
<1>3. ASSUME NEW w \in Slots,
             Begins(w) \/ Gate(w) \/ Accept(w) \/ Reject(w) \/ Count(w)
      PROVE  OneRecords(a)' /\ RowKnows(a)' /\ WindowTold(a)'
  <2>1. UNCHANGED <<row, window, raced, touched>>
    BY <1>3 DEF Begins, Choose, Gate, Accept, Reject, Count
  <2>2. slot'[w].pc \notin {"judge", "write"} /\ slot[w].pc # "write"
        /\ \A v \in Slots \ {w} : slot'[v] = slot[v]
    <3>1. CASE Begins(w)
      <4>1. PICK b : slot' = [slot EXCEPT ![w].pc = "gate", ![w].result = "none", ![w].on = b]
        BY <3>1 DEF Begins, Choose
      <4> QED
        BY <1>0, <3>1, <4>1 DEF Begins, Choose, At, SlotRecord
    <3>2. CASE Gate(w)
      BY <1>0, <3>2 DEF Gate, Goto, At, SlotRecord
    <3>3. CASE Accept(w) \/ Reject(w) \/ Count(w)
      BY <1>0, <3>3 DEF Accept, Reject, Count, Goto, At, SlotRecord
    <3> QED
      BY <1>3, <3>1, <3>2, <3>3
  <2> QED
    BY <2>1, <2>2, NobodyRecords
<1>4. ASSUME NEW w \in Slots, DbError(w)
      PROVE  OneRecords(a)' /\ RowKnows(a)' /\ WindowTold(a)'
  <2>1. PICK pc \in {"record", "idle"} :
          slot' = [slot EXCEPT ![w].pc = pc, ![w].result = "other"]
    BY <1>4 DEF DbError
  <2>2. slot'[w].pc \notin {"judge", "write"} /\ slot'[w].on = slot[w].on
        /\ \A v \in Slots \ {w} : slot'[v] = slot[v]
    BY <1>0, <2>1 DEF SlotRecord
  <2>3. slot[w].pc # "write" \/ slot[w].on # a
    BY <1>4 DEF DbError, At, On
  <2>4. UNCHANGED <<row, window, touched>> /\ raced \subseteq raced'
    BY <1>4 DEF DbError
  <2> QED
    BY <2>2, <2>3, <2>4, NobodyRecords
<1>5. ASSUME NEW w \in Slots, RecordRead(w)
      PROVE  OneRecords(a)' /\ RowKnows(a)' /\ WindowTold(a)'
  <2>1. /\ slot'[w].pc = "judge" /\ slot'[w].on = slot[w].on /\ slot[w].pc = "record"
        /\ slot'[w].read = window[On(w)]
        /\ \A v \in Slots \ {w} : slot'[v] = slot[v]
    BY <1>0, <1>5 DEF RecordRead, At, On, SlotRecord
  <2>2. UNCHANGED <<row, window, touched>> /\ raced \subseteq raced'
    BY <1>5 DEF RecordRead
  <2>3. CASE On(w) # a
    BY <2>1, <2>2, <2>3, NobodyRecords DEF On
  <2>4. CASE On(w) = a
    <3>1. \A v \in Slots \ {w} : ~(Recording(v) /\ On(v) = a)
      BY <1>5, <2>4 DEF RecordRead
    <3>2. \A v \in Slots \ {w} : ~(At(v, "write") /\ On(v) = a)
      BY <3>1 DEF Recording, At
    <3>3. window[a].level > 0 => row[a].throttled
      BY <2>1, <2>2, <3>2 DEF Told, WindowTold, At
    <3>4. OneRecords(a)'
      BY <2>1, <3>1 DEF OneRecords, Recording, On
    <3>5. RowKnows(a)'
      BY <2>1, <2>2, <2>4, <3>1, <3>3 DEF RowKnows, Recording, On
    <3>6. WindowTold(a)'
      BY <2>2, <3>3 DEF WindowTold
    <3> QED
      BY <3>4, <3>5, <3>6
  <2> QED
    BY <2>3, <2>4
<1>6. ASSUME NEW w \in Slots, Judge(w)
      PROVE  OneRecords(a)' /\ RowKnows(a)' /\ WindowTold(a)'
  <2> DEFINE s == Sum(w)
             b == IF TooMany(s) THEN TRUE
                  ELSE IF FewEnough(s) /\ Judged(s).level = 0 THEN FALSE ELSE row[On(w)].throttled
  <2>1. /\ slot'[w].pc = "write" /\ slot'[w].on = slot[w].on /\ slot[w].pc = "judge"
        /\ slot'[w].read = Judged(s)
        /\ \A v \in Slots \ {w} : slot'[v] = slot[v]
    BY <1>0, <1>6 DEF Judge, At, SlotRecord
  <2>2. UNCHANGED <<window, touched, raced>>
    BY <1>6 DEF Judge
  <2>3. /\ row' = [row EXCEPT ![On(w)] = [@ EXCEPT !.throttled = b]]
        /\ On(w) \in Accounts /\ row[On(w)] \in Row
    BY <1>0, <1>6 DEF Judge, On, SlotRecord
  <2>4. CASE On(w) # a
    <3>1. row'[a] = row[a]
      BY <1>0, <2>3, <2>4
    <3> QED
      BY <2>1, <2>2, <2>4, <3>1, NobodyRecords DEF On
  <2>5. CASE On(w) = a
    <3>1. OneRecords(a)'
      BY <2>1, <2>2 DEF Told, OneRecords, Recording, On
    <3>2. Judged(s).level > 0 => b
      <4>1. s \in Window /\ s.level = slot[w].read.level /\ s.level \in 0 .. MaxLevel
        BY <1>0, SumType DEF Sum, SlotRecord, Window
      <4>2. MaxLevel \in Nat
        BY DEF SmtpAssumption
      <4>3. slot[w].read.level > 0 => row[a].throttled
        BY <2>1, <2>2, <2>5 DEF Told, RowKnows, Recording
      <4> HIDE DEF s
      <4>4. CASE TooMany(s)
        BY <4>4
      <4>5. CASE ~TooMany(s)
        BY <2>5, <4>1, <4>2, <4>3, <4>5, JudgedType
      <4> QED
        BY <4>4, <4>5
    <3>3. row'[a].throttled = b
      <4> HIDE DEF b
      <4> QED
        BY <1>0, <2>3, <2>5 DEF Row
    <3>4. RowKnows(a)'
      <4>1. \A v \in Slots \ {w} : ~(Recording(v) /\ On(v) = a)
        BY <2>1, <2>2, <2>5 DEF Told, OneRecords, Recording
      <4> HIDE DEF b, s
      <4> QED
        BY <2>1, <3>2, <3>3, <4>1 DEF RowKnows, Recording, On
    <3>5. WindowTold(a)'
      BY <2>1, <2>5 DEF WindowTold, At, On
    <3> QED
      BY <3>1, <3>4, <3>5
  <2> QED
    BY <2>4, <2>5
<1>7. ASSUME NEW w \in Slots, RecordWrite(w)
      PROVE  OneRecords(a)' /\ RowKnows(a)' /\ WindowTold(a)'
  <2>1. /\ slot'[w].pc = "health" /\ slot'[w].on = slot[w].on /\ slot[w].pc = "write"
        /\ \A v \in Slots \ {w} : slot'[v] = slot[v]
        /\ window' = [window EXCEPT ![On(w)] = slot[w].read]
    BY <1>0, <1>7 DEF RecordWrite, Goto, At, SlotRecord
  <2>2. UNCHANGED <<row, touched, raced>>
    BY <1>7 DEF RecordWrite
  <2>3. CASE On(w) # a
    <3>1. window'[a] = window[a]
      BY <1>0, <2>1, <2>3
    <3> QED
      BY <2>1, <2>2, <2>3, <3>1, NobodyRecords DEF On
  <2>4. CASE On(w) = a
    <3>1. window'[a] = slot[w].read
      BY <1>0, <2>1, <2>4
    <3>2. slot[w].read.level > 0 => row[a].throttled
      BY <2>1, <2>2, <2>4 DEF Told, RowKnows, Recording
    <3>3. WindowTold(a)'
      BY <2>2, <3>1, <3>2 DEF WindowTold
    <3>4. OneRecords(a)' /\ RowKnows(a)'
      BY <2>1, <2>2 DEF Told, OneRecords, RowKnows, Recording, On
    <3> QED
      BY <3>3, <3>4
  <2> QED
    BY <2>3, <2>4
<1>8. ASSUME NEW w \in Slots, WriteHealth(w)
      PROVE  OneRecords(a)' /\ RowKnows(a)' /\ WindowTold(a)'
  <2>1. /\ slot'[w].pc = "idle" /\ slot'[w].on = slot[w].on /\ slot[w].pc = "health"
        /\ \A v \in Slots \ {w} : slot'[v] = slot[v]
    BY <1>0, <1>8 DEF WriteHealth, Goto, At, SlotRecord
  <2>2. UNCHANGED <<window, touched, raced>>
    BY <1>8 DEF WriteHealth
  <2>3. PICK h \in Health, e \in Errors, c \in {"none", "running"} :
          row' = [row EXCEPT ![On(w)] = [@ EXCEPT !.health = h, !.error = e, !.cooldown = c]]
    <3>1. slot[w].result \in Errors /\ "none" \in Errors /\ {"healthy", "error"} \subseteq Health
      BY <1>0 DEF Errors, Health, SlotRecord
    <3> QED
      BY <1>8, <3>1 DEF WriteHealth
  <2>4. row'[a].throttled = row[a].throttled
    BY <1>0, <2>3 DEF Row
  <2> QED
    BY <2>1, <2>2, <2>4, NobodyRecords
<1>9. CASE Next
  BY <1>1, <1>3, <1>4, <1>5, <1>6, <1>7, <1>8, <1>9, Steps DEF Step
<1> QED
  BY <1>2, <1>9

\* The throttle in an account's row and the level in its shared window agree
\* between the outcomes recorded for it, for any thresholds, as long as these are
\* recorded one after the other and nobody else touches the row.
THEOREM ThrottleIsTold == Spec => []SafetyAgrees
<1>1. Spec => []TypeOK
  BY AccountTypeCorrect
<1>2. Init => Told
  BY DEF Init, Told, OneRecords, RowKnows, WindowTold, Recording, Fresh
<1>3. TypeOK /\ Told /\ [Next]_vars => Told'
  BY SmtpAssumption, ToldStep
<1>4. Told => SafetyAgrees
  BY DEF Told, WindowTold, SafetyAgrees, At
<1> QED
  BY <1>1, <1>2, <1>3, <1>4, PTL DEF Spec
-----------------------------------------------------------------------------
(* The reset that spares authentication failures *)

\* What a reset has read to update has no account whose credentials had failed.
Spares == request.kind = "reset" => request.on \cap request.auth = {}

LEMMA SparesStep ==
  ASSUME TypeOK, Spares, [Next]_vars
  PROVE  Spares'
<1>1. ASSUME NEW scope \in Scopes, NEW withAuth \in BOOLEAN, ResetRead(scope, withAuth)
      PROVE  Spares'
  <2>1. /\ request'.kind = IF withAuth THEN "resetAuth" ELSE "reset"
        /\ request'.auth = AuthFailed
        /\ \A b \in request'.on : withAuth \/ row[b].error # "auth"
    BY <1>1 DEF ResetRead
  <2> QED
    BY <2>1 DEF Spares, AuthFailed
<1>2. ASSUME NEW b \in Accounts, TestStart(b) PROVE Spares'
  BY <1>2 DEF TestStart, Spares
<1>3. CASE request' = NoRequest
  BY <1>3 DEF NoRequest, Spares
<1>4. CASE request' = request
  BY <1>4 DEF Spares
<1>5. ASSUME NEW w \in Slots, Step(w) \/ DbError(w) \/ Begins(w) PROVE request' = request
  BY <1>5 DEF Step, DbError, Begins, Choose, Gate, Accept, Reject, Count, RecordRead, Judge,
    RecordWrite, WriteHealth
<1>6. ASSUME NEW b \in Accounts,
             \/ CooldownOver(b) \/ WindowCools(b) \/ WindowExpires(b) \/ Patch(b)
             \/ ArchiveInUse(b) \/ BulkDelete(b) \/ ImportAgain(b) \/ Sweep \/ Refresh
      PROVE  request' = request
  BY <1>6 DEF CooldownOver, WindowCools, WindowExpires, Patch, ArchiveInUse, BulkDelete,
    ImportAgain, Changed, Sweep, Refresh
<1>7. ASSUME NEW S \in SUBSET Accounts, BulkClear(S) PROVE request' = request
  BY <1>7 DEF BulkClear
<1>8. ASSUME NEW b \in Accounts, TestEnd(b) \/ ResetWrite PROVE request' = NoRequest
  BY <1>8 DEF TestEnd, ResetWrite
<1>9. CASE Next
  <2>1. CASE Sweep \/ Refresh
    BY <2>1 DEF Sweep, Refresh, Spares
  <2>2. CASE ResetWrite
    BY <1>3, <2>2 DEF ResetWrite
  <2> QED
    BY <1>1, <1>2, <1>3, <1>4, <1>5, <1>6, <1>7, <1>8, <1>9, <2>1, <2>2 DEF Next, Begins
<1> QED
  BY <1>4, <1>9 DEF vars

\* A reset that is to spare authentication failures clears none that was there
\* when it began, whatever deliveries, tests and requests do in between.
THEOREM ResetIsSparing == Spec => ResetSparesAuth
<1>1. Spec => []TypeOK
  BY AccountTypeCorrect
<1>2. Init => Spares
  BY DEF Init, NoRequest, Spares
<1>3. TypeOK /\ Spares /\ [Next]_vars => Spares'
  BY SparesStep
<1>4. ASSUME TypeOK, Spares, [Next]_vars, request.kind = "reset", request'.kind = "none",
             NEW a \in request.auth, row[a].error = "auth"
      PROVE  row'[a].error = "auth"
  <2>1. ResetWrite
    <3>1. request' # request
      BY <1>4
    <3>2. ~UNCHANGED vars
      BY <3>1 DEF vars
    <3>3. \A b \in Accounts : ~TestEnd(b) /\ ~TestStart(b)
      BY <1>4 DEF TestEnd, TestStart, Idle
    <3>4. \A scope \in Scopes, withAuth \in BOOLEAN : ~ResetRead(scope, withAuth)
      BY <1>4 DEF ResetRead, Idle
    <3>5. ASSUME NEW w \in Slots, Step(w) \/ DbError(w) \/ Begins(w) PROVE FALSE
      BY <3>1, <3>5 DEF Step, DbError, Begins, Choose, Gate, Accept, Reject, Count, RecordRead,
        Judge, RecordWrite, WriteHealth
    <3>6. ASSUME NEW b \in Accounts,
                 \/ CooldownOver(b) \/ WindowCools(b) \/ WindowExpires(b) \/ Patch(b)
                 \/ ArchiveInUse(b) \/ BulkDelete(b) \/ ImportAgain(b)
          PROVE  FALSE
      BY <3>1, <3>6 DEF CooldownOver, WindowCools, WindowExpires, Patch, ArchiveInUse,
        BulkDelete, ImportAgain, Changed
    <3>7. ~Sweep /\ ~Refresh
      BY <3>1 DEF Sweep, Refresh
    <3>8. \A S \in SUBSET Accounts : ~BulkClear(S)
      BY <3>1 DEF BulkClear
    <3> QED
      BY <1>4, <3>2, <3>3, <3>4, <3>5, <3>6, <3>7, <3>8 DEF Next, Begins
  <2>2. a \in Accounts /\ a \notin request.on
    BY <1>4 DEF Spares, TypeOK
  <2> QED
    BY <1>4, <2>1, <2>2 DEF ResetWrite
<1>5. TypeOK /\ Spares /\ [Next]_vars =>
        [request.kind = "reset" /\ request'.kind = "none" =>
           \A a \in request.auth : row[a].error = "auth" => row'[a].error = "auth"]_vars
  BY <1>4
<1> QED
  BY <1>1, <1>2, <1>3, <1>5, PTL DEF Spec, ResetSparesAuth
=============================================================================
