--------------------------- MODULE AlibabaProofs ---------------------------
(***************************************************************************)
(* What holds of AlibabaSync for any number of pages, worker processes,    *)
(* jobs, requests, failures, crashes and slow pages: the variables keep    *)
(* their types, a completed synchronization has fetched every page, and,   *)
(* while nothing disturbs the row's lock, one page is in flight at a time  *)
(* and the loop detection raises no false alarm.                           *)
(***************************************************************************)
EXTENDS AlibabaSync, TLAPS

LEMMA SpendType ==
  ASSUME used \in [Events -> Nat], NEW e \in Events, Spend(e)
  PROVE  used' \in [Events -> Nat]
  BY DEF Spend

LEMMA PagedType == ASSUME AlibabaAssumption PROVE 0 \in PageIds /\ 0 \in Nat
  BY DEF AlibabaAssumption, PageIds

LEMMA UnlockedType ==
  ASSUME NEW r \in Row PROVE Unlocked(r) \in Row
  BY DEF Unlocked, Row

LEMMA PausedType ==
  ASSUME NEW r \in Row PROVE Paused(r) \in Row
  BY DEF Paused, Unlocked, Row, SyncStatus

LEMMA FreshType == ASSUME AlibabaAssumption PROVE FreshRow \in Row
  BY PagedType DEF FreshRow, Row, SyncStatus, Codes

LEMMA IdleType == ASSUME AlibabaAssumption PROVE IdleSlot \in Slot /\ IdleWeb \in Web
  BY PagedType DEF IdleSlot, IdleWeb, Slot, Web, PC, Codes, SyncStatus, Ops,
     AlibabaAssumption

\* A job is taken off, added or moved without leaving its type.
LEMMA JobType ==
  ASSUME job \in [Jobs -> JobState], NEW f, NEW s \in JobState,
         NEW g, NEW t \in JobState
  PROVE  /\ [job EXCEPT ![f] = s] \in [Jobs -> JobState]
         /\ [job EXCEPT ![f] = s, ![g] = t] \in [Jobs -> JobState]
  OBVIOUS

\* A worker with a page to go has not used up its batch.  TypeOK bounds the
\* number of pages of a batch, and is inductive only together with this.
Rounds == \A p \in Procs :
  ex[p].pc \in {"idle", "read", "page", "commit"} => ex[p].round < BatchPages

TypeInv == TypeOK /\ Rounds

\* What the updates of the row write has the row's type.
LEMMA WrittenType ==
  ASSUME NEW r \in Row, Written(r)
  PROVE  row' \in Row
  BY DEF Written, Row

LEMMA BegunType ==
  ASSUME NEW r \in Row, NEW l \in Procs \X Jobs
  PROVE  [r EXCEPT !.status = "running", !.due = TRUE, !.lock = l, !.held = TRUE] \in Row
  BY DEF Row, SyncStatus

LEMMA CommittedType ==
  ASSUME NEW r \in Row, NEW t \in {"completed", "running"}, NEW c \in PageIds,
         NEW S \in SUBSET PageIds
  PROVE  [r EXCEPT !.status = t, !.next = c, !.seen = S, !.pages = @ + 1, !.fails = 0,
                    !.code = "none", !.due = TRUE, !.held = TRUE] \in Row
<1>1. r.pages + 1 \in Nat
  BY DEF Row
<1>2. ASSUME NEW n \in Nat
      PROVE  [r EXCEPT !.status = t, !.next = c, !.seen = S, !.pages = n, !.fails = 0,
                        !.code = "none", !.due = TRUE, !.held = TRUE] \in Row
  BY DEF Row, SyncStatus, Codes
<1> QED
  BY <1>1, <1>2

LEMMA FailedType ==
  ASSUME NEW r \in Row, NEW k \in Codes, NEW f \in Nat, NEW n \in Nat
  PROVE  /\ [r EXCEPT !.status = "retrying", !.due = FALSE, !.code = k, !.fails = f,
                       !.retries = n] \in Row
         /\ [r EXCEPT !.status = "failed", !.due = TRUE, !.code = k, !.fails = f] \in Row
  BY DEF Row, SyncStatus, Codes

LEMMA RecoveredType ==
  ASSUME NEW r \in Row
  PROVE  /\ [r EXCEPT !.status = "running", !.code = "none", !.due = TRUE, !.fails = 0] \in Row
         /\ [r EXCEPT !.status = "retrying", !.due = TRUE] \in Row
  BY DEF Row, SyncStatus, Codes

LEMMA RequestedType ==
  ASSUME NEW r \in Row
  PROVE  /\ [r EXCEPT !.status = "running"] \in Row
         /\ [r EXCEPT !.status = "cancelling", !.stop = TRUE] \in Row
         /\ [r EXCEPT !.status = "running", !.stop = FALSE, !.due = TRUE, !.fails = 0,
                      !.retries = 0, !.code = "none"] \in Row
  BY DEF Row, SyncStatus, Codes

\* The same for the slot of a worker and for a request.
LEMMA BegunSlotType ==
  ASSUME NEW s \in Slot, NEW j \in Jobs
  PROVE  [s EXCEPT !.pc = "read", !.job = j] \in Slot
  BY DEF Slot, PC, Codes

LEMMA ReadSlotType ==
  ASSUME NEW s \in Slot, NEW r \in Row
  PROVE  [s EXCEPT !.pc = "page", !.at = r.next, !.seen = r.seen,
                    !.fails = r.fails, !.retries = r.retries] \in Slot
  BY DEF Slot, PC, Row

LEMMA PageSlotType ==
  ASSUME NEW s \in Slot, NEW n \in PageIds, NEW k \in Codes
  PROVE  /\ [s EXCEPT !.pc = "fail", !.kind = k] \in Slot
         /\ [s EXCEPT !.pc = "fail", !.kind = k].pc = "fail"
         /\ [s EXCEPT !.pc = "commit", !.to = n] \in Slot
         /\ [s EXCEPT !.pc = "commit", !.to = n].round = s.round
  BY DEF Slot, PC

LEMMA CommitSlotType ==
  ASSUME NEW s \in Slot, s.round + 1 \in 0 .. BatchPages, NEW pc \in PC
  PROVE  /\ [s EXCEPT !.round = @ + 1, !.pc = pc] \in Slot
         /\ [s EXCEPT !.round = @ + 1, !.pc = pc].round = s.round + 1
         /\ [s EXCEPT !.round = @ + 1, !.pc = pc].pc = pc
  BY DEF Slot

LEMMA CatchSlotType ==
  ASSUME NEW s \in Slot, NEW r \in Row
  PROVE  /\ [s EXCEPT !.pc = "catch", !.caught = TRUE] \in Slot
         /\ [s EXCEPT !.pc = "catch", !.caught = TRUE].pc = "catch"
         /\ [s EXCEPT !.pc = "fail", !.kind = "transient", !.fails = r.fails,
                      !.retries = r.retries] \in Slot
         /\ [s EXCEPT !.pc = "fail", !.kind = "transient", !.fails = r.fails,
                      !.retries = r.retries].pc = "fail"
  BY DEF Slot, PC, Codes, Row

LEMMA WebType ==
  ASSUME NEW w \in Web, NEW op \in Ops, NEW r \in Row
  PROVE  /\ [w EXCEPT !.pc = "write", !.op = op, !.was = r.status] \in Web
         /\ [w EXCEPT !.pc = "save", !.seen = r.seen] \in Web
         /\ \A pc \in {"add", "meta"} : [w EXCEPT !.pc = pc] \in Web
  BY DEF Web, Row

\* A slot is filled with another of its type.
LEMMA SlotStep ==
  ASSUME ex \in [Procs -> Slot], Rounds, NEW p \in Procs, NEW s \in Slot,
         s.pc \in {"idle", "read", "page", "commit"} => s.round < BatchPages,
         ex' = [ex EXCEPT ![p] = s]
  PROVE  ex' \in [Procs -> Slot] /\ Rounds'
<1>1. ex' \in [Procs -> Slot]
  OBVIOUS
<1>2. ASSUME NEW q \in Procs, ex'[q].pc \in {"idle", "read", "page", "commit"}
      PROVE  ex'[q].round < BatchPages
  BY <1>2 DEF Rounds
<1> QED
  BY <1>1, <1>2 DEF Rounds

LEMMA IdleStep ==
  ASSUME AlibabaAssumption, ex \in [Procs -> Slot], Rounds, NEW p \in Procs,
         ex' = [ex EXCEPT ![p] = IdleSlot]
  PROVE  ex' \in [Procs -> Slot] /\ Rounds'
<1>1. IdleSlot.round < BatchPages
  BY DEF IdleSlot, AlibabaAssumption
<1> QED
  BY <1>1, IdleType, SlotStep

LEMMA GotoStep ==
  ASSUME ex \in [Procs -> Slot], Rounds, NEW p \in Procs,
         NEW pc \in PC \ {"idle", "read", "page", "commit"}, Goto(p, pc)
  PROVE  ex' \in [Procs -> Slot] /\ Rounds'
<1> DEFINE s == [ex[p] EXCEPT !.pc = pc]
<1>1. s \in Slot /\ s.pc = pc
  BY DEF Slot
<1>2. ex' = [ex EXCEPT ![p] = s]
  BY DEF Goto
<1> HIDE DEF s
<1> QED
  BY <1>1, <1>2, SlotStep

\* The same for a request.
LEMMA WebStep ==
  ASSUME web \in [Requests -> Web], NEW q \in Requests, NEW w \in Web,
         web' = [web EXCEPT ![q] = w]
  PROVE  web' \in [Requests -> Web]
  OBVIOUS

LEMMA TypeInitial == ASSUME AlibabaAssumption, Init PROVE TypeInv
<1> USE DEF TypeOK
<1>1. row \in Row
  <2>1. CASE row = FreshRow
    BY <2>1, FreshType
  <2>2. CASE Pages > 1 /\ row = OldRow
    <3>1. 1 \in PageIds
      BY <2>2 DEF PageIds, AlibabaAssumption
    <3> QED
      BY <2>2, <3>1, FreshType DEF OldRow, Row, SyncStatus, Codes
  <2> QED
    BY <2>1, <2>2 DEF Init
<1>2. applied \subseteq PageIds
  BY PagedType DEF Init
<1>3. used \in [Events -> Nat]
  <2>1. NoEvents \in [Events -> Nat] /\ 1 \in Nat
    BY DEF NoEvents
  <2>2. [NoEvents EXCEPT !["oldrow"] = 1] \in [Events -> Nat]
    BY <2>1
  <2> QED
    BY <2>1, <2>2 DEF Init
<1>4. Rounds
  BY DEF Init, Rounds, IdleSlot, AlibabaAssumption
<1> QED
  BY <1>1, <1>2, <1>3, <1>4, IdleType DEF Init, JobState, Recovery, TypeInv

LEMMA TypeStep ==
  ASSUME AlibabaAssumption, TypeInv, [Next]_vars
  PROVE  TypeInv'
<1> USE AlibabaAssumption DEF TypeInv, TypeOK
\* Where a worker returns, its job is done and its slot empty.
<1>1. ASSUME NEW p \in Procs, Return(p)
      PROVE  /\ job' \in [Jobs -> JobState]
             /\ ex' \in [Procs -> Slot] /\ Rounds'
  <2>1. job' \in [Jobs -> JobState]
    BY <1>1 DEF Return, JobState
  <2> QED
    BY <1>1, <2>1, IdleStep DEF Return
<1>3. ASSUME NEW p \in Procs, NEW j \in Jobs, Begin(p, j) PROVE TypeInv'
  <2>1. CASE Acquirable(p, j)
    <3>1. row' \in Row
      BY <1>3, <2>1, BegunType, WrittenType DEF Begin
    <3> DEFINE s == [ex[p] EXCEPT !.pc = "read", !.job = j]
    <3>2. s \in Slot /\ s.round = ex[p].round
      BY BegunSlotType DEF Slot
    <3>3. ex' = [ex EXCEPT ![p] = s] /\ ex[p].round < BatchPages
      BY <1>3, <2>1 DEF Begin, Rounds
    <3> HIDE DEF s
    <3>4. ex' \in [Procs -> Slot] /\ Rounds'
      BY <3>2, <3>3, SlotStep
    <3> QED
      BY <1>3, <2>1, <3>1, <3>4 DEF Begin, JobState
  <2>2. CASE ~Acquirable(p, j)
    BY <1>3, <2>2 DEF Begin, JobState, Rounds
  <2> QED
    BY <2>1, <2>2
<1>4. ASSUME NEW p \in Procs, NEW j \in Jobs, BeginUnconfigured(p, j) PROVE TypeInv'
  <2>1. row' \in Row
    BY <1>4, UnlockedType DEF BeginUnconfigured, Written, Row, SyncStatus, Codes
  <2>2. used' \in [Events -> Nat]
    BY <1>4, SpendType DEF BeginUnconfigured, Events
  <2> QED
    BY <1>4, <2>1, <2>2 DEF BeginUnconfigured, JobState, Rounds
<1>5. ASSUME NEW p \in Procs, ReadRow(p) PROVE TypeInv'
  <2>1. used' \in [Events -> Nat]
    BY <1>5, SpendType DEF ReadRow, Events
  <2>2. CASE Goto(p, "release") \/ Goto(p, "pausing")
    BY GotoStep, <1>5, <2>1, <2>2 DEF ReadRow, PC
  <2>3. CASE ex' = [ex EXCEPT ![p].pc = "page", ![p].at = row.next, ![p].seen = row.seen,
                              ![p].fails = row.fails, ![p].retries = row.retries]
    <3> DEFINE s == [ex[p] EXCEPT !.pc = "page", !.at = row.next, !.seen = row.seen,
                                  !.fails = row.fails, !.retries = row.retries]
    <3>1. s \in Slot /\ s.round = ex[p].round
      BY ReadSlotType DEF Slot
    <3>2. ex' = [ex EXCEPT ![p] = s] /\ ex[p].round < BatchPages
      BY <1>5, <2>3 DEF ReadRow, Rounds
    <3> HIDE DEF s
    <3>3. ex' \in [Procs -> Slot] /\ Rounds'
      BY <3>1, <3>2, SlotStep
    <3> QED
      BY <1>5, <2>1, <3>3 DEF ReadRow
  <2> QED
    BY <1>5, <2>2, <2>3 DEF ReadRow
<1>6. ASSUME NEW p \in Procs, Release(p) PROVE TypeInv'
  <2>1. row' \in Row
    BY <1>6, UnlockedType, WrittenType DEF Release
  <2> QED
    BY <1>1, <1>6, <2>1 DEF Release
<1>7. ASSUME NEW p \in Procs, MarkPaused(p) PROVE TypeInv'
  <2>1. row' \in Row
    BY <1>7, PausedType, WrittenType DEF MarkPaused
  <2> QED
    BY <1>1, <1>7, <2>1 DEF MarkPaused
<1>8. ASSUME NEW p \in Procs, Page(p) PROVE TypeInv'
  <2>1. PICK to \in PageIds :
          /\ Answers(ex[p].at, to)
          /\ ex' = IF to \in ex[p].seen
                   THEN [ex EXCEPT ![p].pc = "fail", ![p].kind = "stuck"]
                   ELSE [ex EXCEPT ![p].pc = "commit", ![p].to = to]
    BY <1>8 DEF Page
  <2>2. ex' \in [Procs -> Slot] /\ Rounds'
    <3> DEFINE f == [ex[p] EXCEPT !.pc = "fail", !.kind = "stuck"]
               c == [ex[p] EXCEPT !.pc = "commit", !.to = to]
    <3>0. ex[p] \in Slot /\ "stuck" \in Codes
      BY DEF Codes
    <3>1. f \in Slot /\ f.pc = "fail" /\ c \in Slot /\ c.round = ex[p].round
      BY <3>0, PageSlotType
    <3>2. ex' = [ex EXCEPT ![p] = f] \/ ex' = [ex EXCEPT ![p] = c]
      BY <2>1
    <3>3. ex[p].round < BatchPages
      BY <1>8 DEF Page, Rounds
    <3> HIDE DEF f, c
    <3>4. CASE ex' = [ex EXCEPT ![p] = f]
      BY <3>1, <3>4, SlotStep
    <3>5. CASE ex' = [ex EXCEPT ![p] = c]
      BY <3>1, <3>3, <3>5, SlotStep
    <3> QED
      BY <3>2, <3>4, <3>5
  <2>3. used' \in [Events -> Nat]
    BY <2>1, SpendType DEF Answers, Events
  <2>4. applied' \subseteq PageIds
    BY <1>8 DEF Page, Slot
  <2> QED
    BY <1>8, <2>2, <2>3, <2>4 DEF Page
<1>9. ASSUME NEW p \in Procs, PageFails(p) PROVE TypeInv'
  <2>1. ex' \in [Procs -> Slot] /\ Rounds'
    <3>1. PICK kind \in Codes : ex' = [ex EXCEPT ![p].pc = "fail", ![p].kind = kind]
      BY <1>9 DEF PageFails, Codes
    <3> DEFINE s == [ex[p] EXCEPT !.pc = "fail", !.kind = kind]
    <3>2. ex' = [ex EXCEPT ![p] = s]
      BY <3>1
    <3>3. ex[p] \in Slot /\ ex[p].to \in PageIds
      BY DEF Slot
    <3>4. s \in Slot /\ s.pc = "fail"
      BY <3>3, PageSlotType
    <3> HIDE DEF s
    <3> QED
      BY <3>2, <3>4, SlotStep
  <2>2. used' \in [Events -> Nat]
    BY <1>9, SpendType DEF PageFails, Events
  <2> QED
    BY <1>9, <2>1, <2>2 DEF PageFails
<1>10. ASSUME NEW p \in Procs, Commit(p) PROVE TypeInv'
  <2>1. row' \in Row
    <3>1. ex[p].to \in PageIds /\ ex[p].seen \cup ({ex[p].to} \ {0}) \in SUBSET PageIds
      BY DEF Slot
    <3> QED
      BY <1>10, <3>1, CommittedType, WrittenType DEF Commit, CommitTo
  <2>2. ex[p].round \in Nat /\ ex[p].round < BatchPages /\ BatchPages \in Nat
    BY <1>10 DEF Commit, CommitTo, Slot, Rounds, AlibabaAssumption
  <2>3. ex[p].round + 1 \in 0 .. BatchPages
    BY <2>2
  <2>4. PICK pc \in {"finish", "read", "batch"} :
          /\ ex' = [ex EXCEPT ![p].round = @ + 1, ![p].pc = pc]
          /\ pc = "read" => ex[p].round + 1 < BatchPages
    BY <1>10 DEF Commit, CommitTo
  <2>5. ex' \in [Procs -> Slot] /\ Rounds'
    <3> DEFINE s == [ex[p] EXCEPT !.round = @ + 1, !.pc = pc]
    <3>0. ex[p] \in Slot /\ pc \in PC
      BY DEF PC
    <3>1. s \in Slot /\ s.pc = pc /\ s.round = ex[p].round + 1
      BY <2>3, <3>0, CommitSlotType
    <3>2. ex' = [ex EXCEPT ![p] = s]
      BY <2>4
    <3> HIDE DEF s
    <3>3. s.pc \in {"idle", "read", "page", "commit"} => s.round < BatchPages
      BY <2>4, <3>1
    <3> QED
      BY <3>1, <3>2, <3>3, SlotStep
  <2> QED
    BY <1>10, <2>1, <2>5 DEF Commit, CommitTo
<1>11. ASSUME NEW p \in Procs, Finish(p) PROVE TypeInv'
  <2>1. row' \in Row
    BY <1>11, UnlockedType DEF Finish, Written, Row
  <2> QED
    BY <1>1, <1>11, <2>1 DEF Finish
<1>12. ASSUME NEW p \in Procs, ReadBatch(p) PROVE TypeInv'
  <2>1. \E pc \in {"pausing", "clear", "auto", "stopbatch"} : Goto(p, pc)
    BY <1>12 DEF ReadBatch
  <2> QED
    BY GotoStep, <1>12, <2>1 DEF ReadBatch, PC
<1>13. ASSUME NEW p \in Procs, Continue(p) PROVE TypeInv'
  BY GotoStep, <1>13 DEF Continue, AddJob, JobState, PC
<1>14. ASSUME NEW p \in Procs, ClearLock(p) PROVE TypeInv'
  <2>1. row' \in Row
    BY <1>14, UnlockedType, WrittenType DEF ClearLock
  <2> QED
    BY <1>1, <1>14, <2>1 DEF ClearLock
<1>15. ASSUME NEW p \in Procs, StopBatch(p) PROVE TypeInv'
  <2>1. row' \in Row
    BY <1>15, UnlockedType DEF StopBatch, Written, Row, SyncStatus
  <2> QED
    BY <1>1, <1>15, <2>1 DEF StopBatch
<1>16. ASSUME NEW p \in Procs, Catch(p) PROVE TypeInv'
  <2> DEFINE s == [ex[p] EXCEPT !.pc = "fail", !.kind = "transient",
                                !.fails = row.fails, !.retries = row.retries]
  <2>2. s \in Slot /\ s.pc = "fail"
    BY CatchSlotType
  <2>3. ex' = [ex EXCEPT ![p] = s]
    BY <1>16 DEF Catch
  <2> HIDE DEF s
  <2>1. ex' \in [Procs -> Slot] /\ Rounds'
    BY <2>2, <2>3, SlotStep
  <2> QED
    BY <1>16, <2>1 DEF Catch
<1>17. ASSUME NEW p \in Procs, FailRow(p) PROVE TypeInv'
  <2>1. ex[p].kind \in Codes /\ ex[p].fails + 1 \in Nat /\ ex[p].retries + 1 \in Nat
    BY DEF Slot
  <2>2. row' \in Row
    <3>1. Unlocked(row) \in Row
      BY UnlockedType
    <3> QED
      BY <1>17, <2>1, <3>1, FailedType, WrittenType DEF FailRow, FailRowWith
  <2> QED
    BY <1>1, GotoStep, <1>17, <2>2 DEF FailRow, FailRowWith, PC
<1>18. ASSUME NEW p \in Procs, AddRetry(p) PROVE TypeInv'
  <2>1. job' \in [Jobs -> JobState]
    BY <1>18, JobType DEF AddRetry, JobState
  <2> QED
    BY <1>18, <2>1, IdleStep DEF AddRetry
<1>19. ASSUME NEW p \in Procs, DbError(p) PROVE TypeInv'
  <2>1. used' \in [Events -> Nat]
    BY <1>19, SpendType DEF DbError, Events
  <2> DEFINE s == [ex[p] EXCEPT !.pc = "catch", !.caught = TRUE]
  <2>3. s \in Slot /\ s.pc = "catch"
    BY CatchSlotType
  <2>4. ex' = [ex EXCEPT ![p] = IdleSlot] \/ ex' = [ex EXCEPT ![p] = s]
    BY <1>19 DEF DbError
  <2> HIDE DEF s
  <2>2. ex' \in [Procs -> Slot] /\ Rounds'
    <3>1. CASE ex' = [ex EXCEPT ![p] = IdleSlot]
      BY <3>1, IdleStep
    <3>2. CASE ex' = [ex EXCEPT ![p] = s]
      BY <2>3, <3>2, SlotStep
    <3> QED
      BY <2>4, <3>1, <3>2
  <2> QED
    BY <1>19, <2>1, <2>2 DEF DbError, JobState
<1>20. ASSUME NEW p \in Procs, Crash(p) PROVE TypeInv'
  <2>1. used' \in [Events -> Nat]
    BY <1>20, SpendType DEF Crash, Events
  <2>2. ex' \in [Procs -> Slot] /\ Rounds'
    BY <1>20, IdleStep DEF Crash
  <2> QED
    BY <1>20, <2>1, <2>2 DEF Crash, JobState, Recovery
<1>21. ASSUME NEW p \in Procs, Recover(p) PROVE TypeInv'
  <2>1. CASE RecoverRead(p)
    BY <2>1 DEF RecoverRead, Recovery, Rounds
  <2>2. CASE RecoverWrite(p)
    <3>1. row' \in Row
      BY <2>2, UnlockedType, RecoveredType, WrittenType DEF RecoverWrite
    <3> QED
      BY <2>2, <3>1 DEF RecoverWrite, Recovery, Rounds
  <2>3. CASE RecoverAdd(p)
    BY <2>3 DEF RecoverAdd, AddJobOutside, AddJob, JobState, Recovery, Rounds
  <2> QED
    BY <1>21, <2>1, <2>2, <2>3 DEF Recover
<1>22. ASSUME NEW q \in Requests, NEW op \in Ops, Ask(q, op) PROVE TypeInv'
  <2>1. used' \in [Events -> Nat]
    BY <1>22, SpendType DEF Ask, Events
  <2> DEFINE w == [web[q] EXCEPT !.pc = "write", !.op = op, !.was = row.status]
  <2>2. w \in Web
    BY WebType
  <2>3. web' = [web EXCEPT ![q] = w]
    BY <1>22 DEF Ask
  <2> HIDE DEF w
  <2>4. web' \in [Requests -> Web]
    BY <2>2, <2>3, WebStep
  <2> QED
    BY <1>22, <2>1, <2>4 DEF Ask, Rounds
<1>23. ASSUME NEW q \in Requests, Serve(q) PROVE TypeInv'
  <2>0. ASSUME NEW pc \in {"add", "meta"}, web' = [web EXCEPT ![q].pc = pc]
        PROVE  web' \in [Requests -> Web]
    <3>1. [web[q] EXCEPT !.pc = pc] \in Web
      BY "start" \in Ops, WebType DEF Ops
    <3> QED
      BY <2>0, <3>1
  <2>1. CASE Clear(q)
    <3>1. row' \in Row
      BY <2>1, FreshType, RequestedType, WrittenType DEF Clear
    <3>2. web' \in [Requests -> Web]
      BY <2>0, <2>1, IdleType, WebStep DEF Clear
    <3> QED
      BY <2>1, <3>1, <3>2 DEF Clear, Rounds
  <2>2. CASE PauseRow(q)
    <3>1. row' \in Row
      BY <2>2, PausedType, RequestedType, WrittenType DEF PauseRow
    <3> QED
      BY <2>2, <3>1, IdleType DEF PauseRow, Rounds
  <2>3. CASE ResumeRow(q)
    <3>1. row' \in Row
      BY <2>3, RequestedType, WrittenType DEF ResumeRow
    <3> QED
      BY <2>0, <2>3, <3>1 DEF ResumeRow, Rounds
  <2>4. CASE AddSyncJob(q)
    BY <2>0, <2>4 DEF AddSyncJob, AddJobOutside, AddJob, JobState, Rounds
  <2>5. CASE ReadMeta(q)
    <3> DEFINE w == [web[q] EXCEPT !.pc = "save", !.seen = row.seen]
    <3>1. w \in Web
      BY "start" \in Ops, WebType DEF Ops
    <3>2. web' = [web EXCEPT ![q] = w]
      BY <2>5 DEF ReadMeta
    <3> HIDE DEF w
    <3>3. web' \in [Requests -> Web]
      BY <3>1, <3>2, WebStep
    <3> QED
      BY <2>5, <3>3 DEF ReadMeta, Rounds
  <2>6. CASE SaveMeta(q)
    <3>1. row' \in Row
      BY <2>6 DEF SaveMeta, Written, Web, Row
    <3> QED
      BY <2>6, <3>1, IdleType DEF SaveMeta, Rounds
  <2> QED
    BY <1>23, <2>1, <2>2, <2>3, <2>4, <2>5, <2>6 DEF Serve
<1>24. ASSUME NEW j \in Jobs, Unstall(j) \/ Promote(j) PROVE TypeInv'
  BY <1>24 DEF Unstall, Promote, JobState, Rounds
<1>25. ASSUME TwoMinutes \/ RetryDue PROVE TypeInv'
  <2>1. used' \in [Events -> Nat]
    BY <1>25, SpendType DEF TwoMinutes, RetryDue, Events
  <2>2. row' \in Row
    BY <1>25 DEF TwoMinutes, RetryDue, Row
  <2> QED
    BY <1>25, <2>1, <2>2 DEF TwoMinutes, RetryDue, Rounds
<1>26. CASE UNCHANGED vars
  BY <1>26 DEF vars, Rounds
<1> QED
  BY <1>3, <1>4, <1>5, <1>6, <1>7, <1>8, <1>9, <1>10, <1>11, <1>12, <1>13, <1>14,
     <1>15, <1>16, <1>17, <1>18, <1>19, <1>20, <1>21, <1>22, <1>23, <1>24, <1>25, <1>26
  DEF Next, Step, Take

LEMMA TypeInvariant == ASSUME AlibabaAssumption PROVE Spec => []TypeInv
<1>1. Init => TypeInv
  BY TypeInitial
<1>2. TypeInv /\ [Next]_vars => TypeInv'
  BY TypeStep
<1> QED
  BY <1>1, <1>2, PTL DEF Spec

\* The variables keep their types.
THEOREM SyncTypeCorrect == Spec => []TypeOK
<1>1. Spec => []TypeInv
  BY AlibabaAssumption, TypeInvariant
<1>2. TypeInv => TypeOK
  BY DEF TypeInv
<1> QED
  BY <1>1, <1>2, PTL
-----------------------------------------------------------------------------
(* A completed synchronization is complete. *)

\* Every page before the one with cursor n has been fetched.
FetchedBefore(n) == \A k \in PageIds : k < n => k \in applied

\* What a worker knows of its page when it is about to write the row: nothing
\* before the page is missing, and its answer does not lead past the next one.
KnowsPlace(p) ==
  /\ InPage(p) => FetchedBefore(ex[p].at)
  /\ ex[p].pc = "commit" => /\ ex[p].at \in applied
                            /\ ex[p].to <= ex[p].at + 1
                            /\ ex[p].to = 0 => ex[p].at = Pages - 1

\* The property alone is not inductive: the update at the end of a page trusts
\* the page of the worker, which may no longer be the row's.
NothingSkipped ==
  ~overlap => /\ FetchedBefore(row.next)
              /\ row.status = "completed" => applied = PageIds
              /\ \A p \in Procs : KnowsPlace(p)

\* The steps that leave the cursor, and every page in flight, alone.
LEMMA Unmoved ==
  ASSUME TypeInv, NothingSkipped, overlap' = overlap, applied' = applied,
         row'.next = row.next,
         row'.status = "completed" => row.status = "completed",
         \A p \in Procs : ex'[p] = ex[p] \/ ex'[p].pc \notin {"page", "commit"}
  PROVE  NothingSkipped'
<1> SUFFICES ASSUME ~overlap'
             PROVE  /\ FetchedBefore(row.next)'
                    /\ (row.status = "completed" => applied = PageIds)'
                    /\ \A p \in Procs : KnowsPlace(p)'
  BY DEF NothingSkipped
<1>1. FetchedBefore(row.next)'
  BY DEF NothingSkipped, FetchedBefore, PageIds
<1>2. (row.status = "completed" => applied = PageIds)'
  BY DEF NothingSkipped, PageIds
<1>3. ASSUME NEW p \in Procs PROVE KnowsPlace(p)'
  <2>1. CASE ex'[p] = ex[p]
    BY <2>1 DEF NothingSkipped, KnowsPlace, FetchedBefore, InPage, PageIds
  <2>2. CASE ex'[p].pc \notin {"page", "commit"}
    BY <2>2 DEF KnowsPlace, InPage
  <2> QED
    BY <2>1, <2>2
<1> QED
  BY <1>1, <1>2, <1>3

\* Where a worker leaves its page, or is none.
LEMMA LeavesPage ==
  ASSUME TypeInv, NEW p \in Procs,
         \/ ex' = [ex EXCEPT ![p] = IdleSlot]
         \/ \E pc \in PC \ {"page", "commit"} : Goto(p, pc)
  PROVE  \A q \in Procs : ex'[q] = ex[q] \/ ex'[q].pc \notin {"page", "commit"}
<1>1. ex[p] \in Slot /\ ex \in [Procs -> Slot]
  BY DEF TypeInv, TypeOK
<1>2. CASE ex' = [ex EXCEPT ![p] = IdleSlot]
  BY <1>1, <1>2 DEF IdleSlot
<1>3. ASSUME NEW pc \in PC \ {"page", "commit"}, Goto(p, pc)
      PROVE  \A q \in Procs : ex'[q] = ex[q] \/ ex'[q].pc \notin {"page", "commit"}
  <2>1. ex'[p] = [ex[p] EXCEPT !.pc = pc] /\ \A q \in Procs \ {p} : ex'[q] = ex[q]
    BY <1>1, <1>3 DEF Goto
  <2>2. ex'[p].pc = pc
    BY <1>1, <2>1 DEF Slot
  <2> QED
    BY <2>1, <2>2
<1> QED
  BY <1>2, <1>3

LEMMA PlaceInitial == ASSUME AlibabaAssumption, Init PROVE NothingSkipped
<1>1. \A p \in Procs : KnowsPlace(p)
  BY DEF Init, KnowsPlace, InPage, IdleSlot
<1>2. CASE row = FreshRow
  BY <1>1, <1>2 DEF FreshRow, NothingSkipped, FetchedBefore, PageIds
<1>3. CASE row = OldRow /\ applied = {0}
  <2>1. row.next = 1 /\ row.status = "failed"
    BY <1>3 DEF OldRow, FreshRow
  <2> QED
    BY <1>1, <1>3, <2>1 DEF NothingSkipped, FetchedBefore, PageIds
<1> QED
  BY <1>2, <1>3 DEF Init

LEMMA PlaceStep ==
  ASSUME AlibabaAssumption, TypeInv, NothingSkipped, [Next]_vars
  PROVE  NothingSkipped'
<1> DEFINE RowKept == /\ row'.next = row.next
                      /\ row'.status = "completed" => row.status = "completed"
           Left == \A q \in Procs : ex'[q] = ex[q] \/ ex'[q].pc \notin {"page", "commit"}
<1>0. row \in Row /\ ex \in [Procs -> Slot] /\ applied \subseteq PageIds
  BY DEF TypeInv, TypeOK
<1>1. ASSUME NEW p \in Procs, NEW j \in Jobs, Begin(p, j) PROVE NothingSkipped'
  <2>1. RowKept
    BY <1>0, <1>1 DEF Begin, Written, Row
  <2>2. ASSUME NEW q \in Procs PROVE ex'[q] = ex[q] \/ ex'[q].pc \notin {"page", "commit"}
    <3>1. CASE ex' = ex
      BY <3>1
    <3>2. CASE ex' = [ex EXCEPT ![p].pc = "read", ![p].job = j]
      BY <1>0, <3>2 DEF Slot
    <3> QED
      BY <1>1, <3>1, <3>2 DEF Begin
  <2> QED
    BY <1>1, <2>1, <2>2, Unmoved DEF Begin
<1>2. ASSUME NEW p \in Procs, NEW j \in Jobs, BeginUnconfigured(p, j) PROVE NothingSkipped'
  <2>1. RowKept
    BY <1>0, <1>2 DEF BeginUnconfigured, Written, Unlocked, Row
  <2> QED
    BY <1>2, <2>1, Unmoved DEF BeginUnconfigured
<1>3. ASSUME NEW p \in Procs, ReadRow(p) PROVE NothingSkipped'
  <2>1. CASE Goto(p, "release") \/ Goto(p, "pausing")
    <3>1. Left
      BY <2>1, LeavesPage DEF PC
    <3> QED
      BY <1>3, <3>1, Unmoved DEF ReadRow
  <2>2. CASE ex' = [ex EXCEPT ![p].pc = "page", ![p].at = row.next, ![p].seen = row.seen,
                              ![p].fails = row.fails, ![p].retries = row.retries]
    <3>1. ex'[p].pc = "page" /\ ex'[p].at = row.next
      BY <1>0, <2>2 DEF Slot
    <3>2. \A q \in Procs \ {p} : ex'[q] = ex[q]
      BY <1>0, <2>2
    <3>3. row' = row /\ applied' = applied /\ overlap' = overlap
      BY <1>3 DEF ReadRow
    <3>4. ASSUME ~overlap, NEW q \in Procs PROVE KnowsPlace(q)'
      <4>1. CASE q = p
        BY <3>1, <3>3, <3>4, <4>1 DEF NothingSkipped, KnowsPlace, FetchedBefore, PageIds
      <4>2. CASE q # p
        BY <3>2, <3>3, <3>4, <4>2 DEF NothingSkipped, KnowsPlace, FetchedBefore, InPage, PageIds
      <4> QED
        BY <4>1, <4>2
    <3> QED
      BY <3>3, <3>4 DEF NothingSkipped, FetchedBefore, PageIds
  <2> QED
    BY <1>3, <2>1, <2>2 DEF ReadRow
<1>4. ASSUME NEW p \in Procs, Release(p) PROVE NothingSkipped'
  <2>1. RowKept
    BY <1>0, <1>4 DEF Release, Written, Unlocked, Row
  <2>2. Left
    BY <1>4, LeavesPage DEF Release, Return
  <2> QED
    BY <1>4, <2>1, <2>2, Unmoved DEF Release
<1>5. ASSUME NEW p \in Procs, MarkPaused(p) \/ Finish(p) \/ ClearLock(p) \/ StopBatch(p)
      PROVE  NothingSkipped'
  <2>1. RowKept
    BY <1>0, <1>5 DEF MarkPaused, Finish, ClearLock, StopBatch, Written, Paused, Unlocked, Row
  <2>2. Left
    BY <1>5, LeavesPage DEF MarkPaused, Finish, ClearLock, StopBatch, Return
  <2> QED
    BY <1>5, <2>1, <2>2, Unmoved DEF MarkPaused, Finish, ClearLock, StopBatch
<1>6. ASSUME NEW p \in Procs, Page(p) PROVE NothingSkipped'
  <2>1. PICK to \in PageIds :
          /\ Answers(ex[p].at, to)
          /\ ex' = IF to \in ex[p].seen
                   THEN [ex EXCEPT ![p].pc = "fail", ![p].kind = "stuck"]
                   ELSE [ex EXCEPT ![p].pc = "commit", ![p].to = to]
    BY <1>6 DEF Page
  <2>2. ex[p].at \in PageIds /\ Pages \in Nat \ {0}
    BY <1>0 DEF Slot, AlibabaAssumption
  <2>3. to <= ex[p].at + 1 /\ (to = 0 => ex[p].at = Pages - 1)
    BY <2>1, <2>2 DEF Answers, NextCursor, PageIds
  <2>4. \A q \in Procs \ {p} : ex'[q] = ex[q]
    BY <1>0, <2>1
  <2>5. \/ ex'[p].pc = "fail"
        \/ ex'[p].pc = "commit" /\ ex'[p].at = ex[p].at /\ ex'[p].to = to
    BY <1>0, <2>1 DEF Slot
  <2>6. row' = row /\ applied' = applied \cup {ex[p].at} /\ overlap' = overlap
        /\ ex[p].pc = "page"
    BY <1>6 DEF Page
  <2>7. ASSUME ~overlap, NEW q \in Procs PROVE KnowsPlace(q)'
    <3>1. CASE q = p
      BY <2>3, <2>5, <2>6, <2>7, <3>1
      DEF NothingSkipped, KnowsPlace, FetchedBefore, InPage, PageIds
    <3>2. CASE q # p
      BY <2>4, <2>6, <2>7, <3>2
      DEF NothingSkipped, KnowsPlace, FetchedBefore, InPage, PageIds
    <3> QED
      BY <3>1, <3>2
  <2>8. ~overlap => FetchedBefore(row.next)'
    BY <2>6 DEF NothingSkipped, FetchedBefore, PageIds
  <2>9. ~overlap /\ row.status = "completed" => applied' = PageIds
    BY <2>2, <2>6 DEF NothingSkipped
  <2> QED
    BY <2>6, <2>7, <2>8, <2>9 DEF NothingSkipped, PageIds
<1>7. ASSUME NEW p \in Procs, PageFails(p) PROVE NothingSkipped'
  <2>1. PICK kind \in Codes : ex' = [ex EXCEPT ![p].pc = "fail", ![p].kind = kind]
    BY <1>7 DEF PageFails, Codes
  <2>2. Left
    BY <1>0, <2>1 DEF Slot
  <2> QED
    BY <1>7, <2>2, Unmoved DEF PageFails
<1>8. ASSUME NEW p \in Procs, Commit(p) PROVE NothingSkipped'
  <2>1. ex[p] \in Slot /\ ex[p].to \in PageIds /\ ex[p].at \in PageIds
    BY <1>0 DEF Slot
  <2>2. /\ row'.next = ex[p].to /\ ex[p].pc = "commit"
        /\ row'.status = IF ex[p].to = 0 THEN "completed" ELSE "running"
        /\ applied' = applied /\ overlap' = overlap
    BY <1>0, <1>8 DEF Commit, CommitTo, Written, Row
  <2>3. Left
    <3>1. PICK pc \in {"finish", "read", "batch"} :
            ex' = [ex EXCEPT ![p].round = @ + 1, ![p].pc = pc]
      BY <1>8 DEF Commit, CommitTo
    <3> QED
      BY <1>0, <3>1 DEF Slot
  <2>4. ASSUME ~overlap
        PROVE  /\ FetchedBefore(ex[p].to)
               /\ ex[p].to = 0 => applied = PageIds
    <3>1. KnowsPlace(p) /\ InPage(p)
      BY <2>2, <2>4 DEF NothingSkipped, InPage
    <3>2. \A k \in PageIds : k <= ex[p].at => k \in applied
      BY <2>1, <2>2, <3>1 DEF KnowsPlace, FetchedBefore, PageIds
    <3>3. FetchedBefore(ex[p].to)
      BY <2>1, <2>2, <3>1, <3>2 DEF KnowsPlace, FetchedBefore, PageIds
    <3>4. ASSUME ex[p].to = 0 PROVE applied = PageIds
      <4>1. \A k \in PageIds : k <= ex[p].at
        BY <2>2, <3>1, <3>4 DEF KnowsPlace, PageIds, AlibabaAssumption
      <4> QED
        BY <1>0, <3>2, <4>1
    <3> QED
      BY <3>3, <3>4
  <2>5. ASSUME ~overlap, NEW q \in Procs PROVE KnowsPlace(q)'
    <3>1. CASE ex'[q] = ex[q]
      BY <2>2, <2>5, <3>1 DEF NothingSkipped, KnowsPlace, FetchedBefore, InPage, PageIds
    <3>2. CASE ex'[q].pc \notin {"page", "commit"}
      BY <3>2 DEF KnowsPlace, InPage
    <3> QED
      BY <2>3, <3>1, <3>2
  <2> QED
    BY <2>2, <2>4, <2>5 DEF NothingSkipped, FetchedBefore, PageIds
<1>9. ASSUME NEW p \in Procs, ReadBatch(p) PROVE NothingSkipped'
  <2>1. \E pc \in {"pausing", "clear", "auto", "stopbatch"} : Goto(p, pc)
    BY <1>9 DEF ReadBatch
  <2>2. Left
    BY <2>1, LeavesPage DEF PC
  <2> QED
    BY <1>9, <2>2, Unmoved DEF ReadBatch
<1>10. ASSUME NEW p \in Procs, Continue(p) PROVE NothingSkipped'
  <2>1. Left
    BY <1>10, LeavesPage DEF Continue, PC
  <2> QED
    BY <1>10, <2>1, Unmoved DEF Continue
<1>11. ASSUME NEW p \in Procs, Catch(p) PROVE NothingSkipped'
  <2>1. Left
    BY <1>0, <1>11 DEF Catch, Slot
  <2> QED
    BY <1>11, <2>1, Unmoved DEF Catch
<1>12. ASSUME NEW p \in Procs, FailRow(p) PROVE NothingSkipped'
  <2>1. RowKept
    BY <1>0, <1>12 DEF FailRow, FailRowWith, Written, Unlocked, Row
  <2>2. Left
    BY <1>12, LeavesPage DEF FailRow, FailRowWith, Return, PC
  <2> QED
    BY <1>12, <2>1, <2>2, Unmoved DEF FailRow, FailRowWith
<1>13. ASSUME NEW p \in Procs, AddRetry(p) PROVE NothingSkipped'
  <2>1. Left
    BY <1>13, LeavesPage DEF AddRetry
  <2> QED
    BY <1>13, <2>1, Unmoved DEF AddRetry
<1>14. ASSUME NEW p \in Procs, DbError(p) PROVE NothingSkipped'
  <2>1. CASE ex' = [ex EXCEPT ![p] = IdleSlot]
    BY <1>14, <2>1, LeavesPage, Unmoved DEF DbError
  <2>2. CASE ex' = [ex EXCEPT ![p].pc = "catch", ![p].caught = TRUE]
    <3>1. Left
      BY <1>0, <2>2 DEF Slot
    <3> QED
      BY <1>14, <3>1, Unmoved DEF DbError
  <2> QED
    BY <1>14, <2>1, <2>2 DEF DbError
<1>15. ASSUME NEW p \in Procs, Crash(p) PROVE NothingSkipped'
  BY <1>15, LeavesPage, Unmoved DEF Crash
<1>16. ASSUME NEW p \in Procs, Recover(p) PROVE NothingSkipped'
  <2>1. RowKept
    BY <1>0, <1>16 DEF Recover, RecoverRead, RecoverWrite, RecoverAdd, Written, Unlocked, Row
  <2> QED
    BY <1>16, <2>1, Unmoved DEF Recover, RecoverRead, RecoverWrite, RecoverAdd
<1>17. ASSUME NEW q \in Requests, NEW op \in Ops, Ask(q, op) PROVE NothingSkipped'
  BY <1>17, Unmoved DEF Ask
<1>18. ASSUME NEW q \in Requests, Clear(q) PROVE NothingSkipped'
  <2>1. row'.next = 0 /\ row'.status # "completed"
    BY <1>18 DEF Clear, Written, FreshRow
  <2>2. ex' = ex /\ overlap' = (overlap \/ \E p \in Procs : InPage(p))
    BY <1>18 DEF Clear
  <2>3. ASSUME ~overlap', NEW p \in Procs PROVE KnowsPlace(p)'
    BY <2>2, <2>3 DEF KnowsPlace, InPage
  <2> QED
    BY <2>1, <2>3 DEF NothingSkipped, FetchedBefore, PageIds
<1>19. ASSUME NEW q \in Requests,
              \/ PauseRow(q) \/ ResumeRow(q) \/ AddSyncJob(q) \/ ReadMeta(q) \/ SaveMeta(q)
       PROVE  NothingSkipped'
  <2>1. RowKept
    BY <1>0, <1>19
    DEF PauseRow, ResumeRow, AddSyncJob, ReadMeta, SaveMeta, Written, Paused, Unlocked, Row
  <2> QED
    BY <1>19, <2>1, Unmoved DEF PauseRow, ResumeRow, AddSyncJob, ReadMeta, SaveMeta
<1>20. ASSUME NEW j \in Jobs, Unstall(j) \/ Promote(j) PROVE NothingSkipped'
  BY <1>20, Unmoved DEF Unstall, Promote
<1>21. ASSUME TwoMinutes \/ RetryDue PROVE NothingSkipped'
  <2>1. RowKept
    BY <1>0, <1>21 DEF TwoMinutes, RetryDue, Row
  <2> QED
    BY <1>21, <2>1, Unmoved DEF TwoMinutes, RetryDue
<1>22. CASE UNCHANGED vars
  BY <1>22, Unmoved DEF vars
<1> QED
  BY <1>1, <1>2, <1>3, <1>4, <1>5, <1>6, <1>7, <1>8, <1>9, <1>10, <1>11, <1>12, <1>13,
     <1>14, <1>15, <1>16, <1>17, <1>18, <1>19, <1>20, <1>21, <1>22
  DEF Next, Step, Take, Serve

\* A synchronization that reports "completed" has fetched every page of the
\* answer, through crashes, failures, takeovers of the lock, pauses and
\* recoveries, unless a start or reset met a page in flight.
THEOREM CompletedHasAllPages == Spec => []CompletedIsComplete
<1>1. Spec => []TypeInv
  BY AlibabaAssumption, TypeInvariant
<1>2. Init => NothingSkipped
  BY AlibabaAssumption, PlaceInitial
<1>3. TypeInv /\ NothingSkipped /\ [Next]_vars => NothingSkipped'
  BY AlibabaAssumption, PlaceStep
<1>4. NothingSkipped => CompletedIsComplete
  BY DEF NothingSkipped, CompletedIsComplete
<1> QED
  BY <1>1, <1>2, <1>3, <1>4, PTL DEF Spec
-----------------------------------------------------------------------------
(* One page at a time, and no false alarm.  Neither is inductive, nor holds    *)
(* without the other: a false alarm would let two recoveries unlock the row,   *)
(* and two workers would let a cursor come twice.                              *)

\* A worker that has begun and has not given its place up.
Working(p) == ex[p].pc \notin {"idle", "addretry", "catch"}

\* It holds the lock of the row, ...
Holds == \A p \in Procs :
  Working(p) => ex[p].job \in Jobs /\ row.lock = <<p, ex[p].job>> /\ row.held

\* ... its page is the row's, and its answer leads to the next one.
InPlace ==
  \A p \in Procs : InPage(p) =>
    /\ ex[p].at = row.next /\ ex[p].seen \subseteq 1 .. ex[p].at
    /\ ex[p].pc = "commit" => ex[p].to = NextCursor(ex[p].at)

\* The row will not be worked on again.
Over ==
  /\ row.status \notin {"running", "retrying"}
  /\ \A p \in Procs : ex[p].pc \in {"idle", "finish", "addretry"}

\* The hashes in the row, and those a request will write back, lie behind it.
InOrder ==
  \/ Over
  \/ /\ row.seen \subseteq 1 .. row.next
     /\ \A q \in Requests : web[q].pc = "save" => web[q].seen \subseteq 1 .. row.next

\* No failure is one that a recovery would take up.
Fails ==
  /\ row.code \in {"none", "transient", "permanent"}
  /\ row.status = "failed" => row.code = "permanent" \/ row.fails >= MaxRetries
  /\ \A p \in Procs :
       /\ rec[p] \in {"none", "enqueue"}
       /\ ex[p].pc # "catch"
       /\ ex[p].pc = "fail" => ex[p].kind \in {"transient", "permanent"}

\* Without a failed page nothing is retried, and no pause was meant for a retry.
Asked(q, op) == web[q].pc = "write" /\ web[q].op = op
Retries ==
  used["fail"] = 0 =>
    /\ row.status # "retrying"
    /\ \A p \in Procs : ex[p].pc \notin {"fail", "addretry"}
    /\ \A q \in Requests : Asked(q, "pause") => web[q].was # "retrying"

\* Until the one start or reset is written, nothing goes on.
Anew(q) == Asked(q, "start") \/ Asked(q, "reset")
Requested ==
  /\ \A q \in Requests :
       /\ ~Asked(q, "resume")
       /\ Asked(q, "pause") => used["pause"] > 0
       /\ Anew(q) => used["start"] + used["reset"] > 0
  /\ \A q, r \in Requests : Anew(q) /\ Anew(r) => q = r
  /\ (used["start"] + used["reset"] = 0 \/ \E q \in Requests : Anew(q)) =>
       /\ row.status = "idle"
       /\ \A p \in Procs : ex[p].pc = "idle"
       /\ \A q \in Requests : web[q].pc = "idle" \/ Anew(q)

Peace == Holds /\ InPlace /\ InOrder /\ Fails /\ Retries /\ Requested
Peaceful == Undisturbed => Peace

\* An event that happens is counted.
LEMMA SpendCounts ==
  ASSUME TypeInv, NEW e \in Events, Spend(e)
  PROVE  /\ used'[e] = used[e] + 1 /\ used'[e] \in Nat /\ used'[e] > 0
         /\ \A f \in Events : used[f] \in Nat /\ used'[f] \in Nat /\ used'[f] >= used[f]
<1>1. used \in [Events -> Nat] /\ used' = [used EXCEPT ![e] = @ + 1]
  BY DEF Spend, TypeInv, TypeOK
<1>2. used[e] \in Nat /\ used'[e] = used[e] + 1
  BY <1>1
<1>3. \A f \in Events \ {e} : used'[f] = used[f]
  BY <1>1
<1> QED
  BY <1>1, <1>2, <1>3

LEMMA UsedGrows ==
  ASSUME TypeInv, [Next]_vars
  PROVE  \A f \in Events : used[f] \in Nat /\ used'[f] \in Nat /\ used'[f] >= used[f]
<1>0. used \in [Events -> Nat]
  BY DEF TypeInv, TypeOK
<1>1. CASE used' = used
  BY <1>0, <1>1
<1>2. ASSUME NEW e \in Events, Spend(e)
      PROVE  \A f \in Events : used[f] \in Nat /\ used'[f] \in Nat /\ used'[f] >= used[f]
  BY <1>2, SpendCounts
<1>3. ASSUME NEW p \in Procs, Step(p) \/ Take(p) \/ Recover(p) \/ DbError(p) \/ Crash(p)
      PROVE  used' = used \/ \E e \in Events : Spend(e)
  <2>1. CASE Step(p)
    BY <2>1 DEF Step, ReadRow, Release, MarkPaused, Page, PageFails, Commit, CommitTo, Finish,
      ReadBatch, Continue, ClearLock, StopBatch, Catch, FailRow, FailRowWith, AddRetry, Answers,
      Events
  <2>2. CASE Take(p)
    BY <2>2 DEF Take, Begin, BeginUnconfigured, Events
  <2>3. CASE Recover(p)
    BY <2>3 DEF Recover, RecoverRead, RecoverWrite, RecoverAdd
  <2>4. CASE DbError(p) \/ Crash(p)
    BY <2>4 DEF DbError, Crash, Events
  <2> QED
    BY <1>3, <2>1, <2>2, <2>3, <2>4
<1>4. ASSUME NEW q \in Requests, Serve(q) \/ \E op \in Ops : Ask(q, op)
      PROVE  used' = used \/ \E e \in Events : Spend(e)
  BY <1>4 DEF Serve, Clear, PauseRow, ResumeRow, AddSyncJob, ReadMeta, SaveMeta, Ask, Events
<1>5. ASSUME NEW j \in Jobs, Unstall(j) \/ Promote(j) PROVE used' = used
  BY <1>5 DEF Unstall, Promote
<1>6. CASE TwoMinutes \/ RetryDue
  BY <1>1, <1>2, <1>6 DEF TwoMinutes, RetryDue, Events
<1>7. CASE UNCHANGED vars
  BY <1>1, <1>7 DEF vars
<1> QED
  BY <1>1, <1>2, <1>3, <1>4, <1>5, <1>6, <1>7 DEF Next

LEMMA UndisturbedBefore ==
  ASSUME TypeInv, [Next]_vars, Undisturbed'
  PROVE  Undisturbed
<1>1. \A f \in Events : used[f] \in Nat /\ used'[f] \in Nat /\ used'[f] >= used[f]
  BY UsedGrows
<1>2. {"start", "reset", "pause", "fail", "slow", "resume", "repeat", "empty", "dberror",
       "unset", "oldrow"} \subseteq Events
  BY DEF Events, Ops
<1>3. used["start"] + used["reset"] <= 1
  BY <1>1, <1>2 DEF Undisturbed
<1>4. used["pause"] = 0 \/ used["fail"] = 0
  BY <1>1, <1>2 DEF Undisturbed
<1>5. ASSUME NEW e \in {"slow", "resume", "repeat", "empty", "dberror", "unset", "oldrow"}
      PROVE  used[e] = 0
  <2>1. used[e] \in Nat /\ used'[e] \in Nat /\ used'[e] >= used[e]
    BY <1>1, <1>2
  <2>2. used'[e] = 0
    BY DEF Undisturbed
  <2> QED
    BY <2>1, <2>2
<1> QED
  BY <1>3, <1>4, <1>5 DEF Undisturbed

\* One worker at a time: the lock names its owner.
LEMMA OneWorks ==
  ASSUME Holds, NEW p \in Procs, NEW q \in Procs, Working(p), Working(q)
  PROVE  p = q
  BY DEF Holds

LEMMA InPageWorks == ASSUME NEW p \in Procs, InPage(p) PROVE Working(p)
  BY DEF InPage, Working

\* The steps of a worker that leave its job done, lost, or waiting for a retry.
LEMMA WorkerLeaves ==
  ASSUME TypeInv, Peace, NEW p \in Procs, UNCHANGED web,
         \A e \in {"start", "reset", "pause", "fail"} : used'[e] = used[e],
         ex'[p].pc \in {"idle", "addretry"}, \A q \in Procs \ {p} : ex'[q] = ex[q],
         \A q \in Procs : rec'[q] \in {"none", rec[q]},
         row'.next = row.next, row'.seen = row.seen,
         Working(p) \/ (row'.lock = row.lock /\ row'.held = row.held),
         row'.status \in {"running", "retrying"} =>
           row.status \in {"running", "retrying"} \/ ex[p].pc = "fail",
         row'.code \in {"none", "transient", "permanent"},
         row'.status = "failed" => \/ row.status = "failed" /\ row'.code = row.code /\ row'.fails = row.fails
                                   \/ row'.code = "permanent" \/ row'.fails >= MaxRetries,
         row'.status = "retrying" \/ ex'[p].pc = "addretry" =>
           row.status = "retrying" \/ ex[p].pc \in {"fail", "addretry"},
         ex[p].pc # "idle" \/ (row'.status = row.status /\ ex'[p].pc = "idle")
  PROVE  Peace'
<1>1. Holds'
  <2> SUFFICES ASSUME NEW q \in Procs, Working(q)'
               PROVE  ex'[q].job \in Jobs /\ row'.lock = <<q, ex'[q].job>> /\ row'.held
    BY DEF Holds
  <2>1. q # p /\ ex'[q] = ex[q]
    BY DEF Working
  <2>2. Working(q)
    BY <2>1 DEF Working
  <2>3. ~Working(p)
    BY <2>1, <2>2, OneWorks DEF Peace
  <2> QED
    BY <2>1, <2>2, <2>3 DEF Peace, Holds
<1>2. InPlace'
  BY DEF Peace, InPlace, InPage
<1>3. InOrder'
  <2>1. CASE Over
    <3>1. ex[p].pc # "fail" /\ row'.status \notin {"running", "retrying"}
      BY <2>1 DEF Over
    <3>2. Over'
      BY <2>1, <3>1 DEF Over
    <3> QED
      BY <3>2 DEF InOrder
  <2>2. CASE ~Over
    BY <2>2 DEF Peace, InOrder
  <2> QED
    BY <2>1, <2>2
<1>4. Fails'
  BY DEF Peace, Fails
<1>5. Retries'
  BY DEF Peace, Retries, Asked
<1>6. Requested'
  BY DEF Peace, Requested, Asked, Anew
<1> QED
  BY <1>1, <1>2, <1>3, <1>4, <1>5, <1>6 DEF Peace

\* The steps of a worker that goes on.
LEMMA WorkerGoes ==
  ASSUME TypeInv, Peace, NEW p \in Procs, UNCHANGED <<web, rec>>,
         \A e \in {"start", "reset", "pause"} : used'[e] = used[e],
         used'["fail"] = 0 => used["fail"] = 0 /\ ex'[p].pc # "fail",
         Working(p), ex'[p].pc \notin {"idle", "addretry", "catch"}, ex'[p].job = ex[p].job,
         \A q \in Procs \ {p} : ex'[q] = ex[q],
         row'.lock = row.lock, row.held => row'.held,
         InPage(p)' => /\ ex'[p].at = row'.next /\ ex'[p].seen \subseteq 1 .. ex'[p].at
                       /\ ex'[p].pc = "commit" => ex'[p].to = NextCursor(ex'[p].at),
         InOrder',
         row'.code \in {row.code, "none"},
         row'.status = "failed" => row.status = "failed" /\ row'.code = row.code /\ row'.fails = row.fails,
         row'.status = "retrying" => row.status = "retrying",
         ex'[p].pc = "fail" => ex'[p].kind \in {"transient", "permanent"}
  PROVE  Peace'
<1>0. \A q \in Procs \ {p} : ~Working(q) /\ ~Working(q)'
  BY OneWorks DEF Peace, Working
<1>1. Holds'
  BY <1>0 DEF Peace, Holds
<1>2. InPlace'
  BY <1>0 DEF InPlace, InPage, Working
<1>4. Fails'
  BY DEF Peace, Fails
<1>5. Retries'
  BY DEF Peace, Retries, Asked
<1>6. Requested'
  BY DEF Peace, Requested, Asked, Anew, Working
<1> QED
  BY <1>1, <1>2, <1>4, <1>5, <1>6 DEF Peace

\* The steps that no worker takes, and that leave the row's place alone.
LEMMA NobodyWorks ==
  ASSUME TypeInv, Peace, UNCHANGED ex,
         \A e \in {"start", "reset", "pause", "fail"} : used'[e] = used[e],
         row'.next = row.next, row'.seen = row.seen, row'.lock = row.lock,
         row'.code = row.code, row'.fails = row.fails, row'.status = row.status,
         row'.held = row.held \/ \A p \in Procs : ex[p].pc = "idle",
         \A p \in Procs : rec'[p] \in {"none", "enqueue"},
         \A q \in Requests :
           \/ web'[q] = web[q]
           \/ web[q].pc = "add" /\ web'[q].pc = "meta"
           \/ web[q].pc = "meta" /\ web'[q].pc = "save" /\ web'[q].seen = row.seen
  PROVE  Peace'
<1>1. Holds'
  BY DEF Peace, Holds, Working
<1>2. InPlace'
  BY DEF Peace, InPlace, InPage
<1>3. InOrder'
  <2>1. CASE Over
    BY <2>1 DEF Over, InOrder
  <2>2. CASE ~Over
    BY <2>2 DEF Peace, InOrder
  <2> QED
    BY <2>1, <2>2
<1>4. Fails'
  BY DEF Peace, Fails
<1>5. Retries'
  BY DEF Peace, Retries, Asked
<1>6. Requested'
  <2>1. \A q \in Requests, op \in Ops : Asked(q, op)' <=> Asked(q, op)
    BY DEF Asked
  <2>2. \A q \in Requests : Anew(q)' <=> Anew(q)
    BY DEF Asked, Anew
  <2>3. ASSUME used'["start"] + used'["reset"] = 0 \/ \E q \in Requests : Anew(q)'
        PROVE  /\ row'.status = "idle" /\ \A p \in Procs : ex'[p].pc = "idle"
               /\ \A q \in Requests : web'[q].pc = "idle" \/ Anew(q)'
    <3>1. used["start"] + used["reset"] = 0 \/ \E q \in Requests : Anew(q)
      BY <2>2, <2>3
    <3>2. /\ row.status = "idle" /\ \A p \in Procs : ex[p].pc = "idle"
          /\ \A q \in Requests : web[q].pc = "idle" \/ Anew(q)
      BY <3>1 DEF Peace, Requested
    <3>3. \A q \in Requests : web'[q] = web[q]
      BY <3>2 DEF Anew, Asked
    <3> QED
      BY <3>2, <3>3, <2>2
  <2> QED
    BY <2>1, <2>2, <2>3 DEF Peace, Requested, Ops
<1> QED
  BY <1>1, <1>2, <1>3, <1>4, <1>5, <1>6 DEF Peace

\* The steps of a job.
LEMMA PeaceOfStep ==
  ASSUME AlibabaAssumption, TypeInv, Undisturbed, Undisturbed', Peace, NEW p \in Procs, Step(p)
  PROVE  Peace'
<1>0. /\ row \in Row /\ ex \in [Procs -> Slot] /\ ex[p] \in Slot
      /\ row.code \in {"none", "transient", "permanent"} /\ Pages \in Nat \ {0}
      /\ \A q \in Procs : rec[q] \in {"none", "enqueue"}
  BY DEF TypeInv, TypeOK, Peace, Fails, AlibabaAssumption
<1>1. ASSUME Working(p), ex[p].pc # "finish"
      PROVE  /\ ~Over /\ row.seen \subseteq 1 .. row.next
             /\ \A q \in Requests : web[q].pc = "save" => web[q].seen \subseteq 1 .. row.next
  BY <1>1 DEF Working, Over, Peace, InOrder
<1>2. ASSUME UNCHANGED <<row, web>>, Working(p), ex[p].pc # "finish" PROVE InOrder'
  BY <1>1, <1>2 DEF InOrder
<1>3. CASE ReadRow(p)
  <2>1. Working(p) /\ ex[p].pc = "read" /\ UNCHANGED <<row, web, rec>>
    BY <1>3 DEF ReadRow, Working
  <2>2. \A e \in {"start", "reset", "pause", "fail"} : used'[e] = used[e]
    <3>1. CASE used' = used
      BY <3>1
    <3>2. CASE Spend("runtime")
      BY <3>2 DEF Spend, TypeInv, TypeOK, Events, Ops
    <3> QED
      BY <1>3, <3>1, <3>2 DEF ReadRow
  <2>3. InOrder' /\ row.seen \subseteq 1 .. row.next
    BY <1>1, <1>2, <2>1
  <2>4. \A q \in Procs \ {p} : ex'[q] = ex[q]
    BY <1>0, <1>3 DEF ReadRow, Goto
  <2>5. /\ ex'[p].pc \in {"release", "pausing", "page"} /\ ex'[p].job = ex[p].job
        /\ ex'[p].pc = "page" => ex'[p].at = row.next /\ ex'[p].seen = row.seen
    <3>1. CASE Goto(p, "release") \/ Goto(p, "pausing")
      BY <1>0, <3>1 DEF Goto, Slot
    <3>2. CASE ex' = [ex EXCEPT ![p].pc = "page", ![p].at = row.next, ![p].seen = row.seen,
                                ![p].fails = row.fails, ![p].retries = row.retries]
      BY <1>0, <3>2 DEF Slot
    <3> QED
      BY <1>3, <3>1, <3>2 DEF ReadRow
  <2> QED
    BY <2>1, <2>2, <2>3, <2>4, <2>5, WorkerGoes DEF InPage
<1>4. CASE Page(p)
  <2>1. PICK to \in PageIds :
          /\ Answers(ex[p].at, to)
          /\ ex' = IF to \in ex[p].seen
                   THEN [ex EXCEPT ![p].pc = "fail", ![p].kind = "stuck"]
                   ELSE [ex EXCEPT ![p].pc = "commit", ![p].to = to]
    BY <1>4 DEF Page
  <2>2. ~Spend("repeat")
    <3>1. "repeat" \in Events
      BY DEF Events
    <3> QED
      BY <3>1, SpendCounts DEF Undisturbed
  <2>3. to = NextCursor(ex[p].at) /\ UNCHANGED <<used, row, web, rec>>
    BY <1>4, <2>1, <2>2 DEF Answers, Page
  <2>4. Working(p) /\ InPage(p) /\ ex[p].pc # "finish"
    BY <1>4 DEF Page, Working, InPage
  <2>5. ex[p].at = row.next /\ ex[p].seen \subseteq 1 .. ex[p].at /\ ex[p].at \in Nat
    BY <1>0, <2>4 DEF Peace, InPlace, Slot, PageIds
  <2>6. to \notin ex[p].seen
    BY <2>3, <2>5 DEF NextCursor
  <2>7. /\ ex'[p].pc = "commit" /\ ex'[p].job = ex[p].job /\ ex'[p].at = ex[p].at
        /\ ex'[p].seen = ex[p].seen /\ ex'[p].to = to
        /\ \A q \in Procs \ {p} : ex'[q] = ex[q]
    BY <1>0, <2>1, <2>6 DEF Slot
  <2>8. InOrder'
    BY <1>2, <2>3, <2>4
  <2> QED
    BY <2>3, <2>4, <2>5, <2>7, <2>8, WorkerGoes DEF InPage
<1>5. CASE PageFails(p)
  <2>1. ~Spend("empty")
    <3>1. "empty" \in Events
      BY DEF Events
    <3> QED
      BY <3>1, SpendCounts DEF Undisturbed
  <2>2. PICK kind \in {"transient", "permanent"} :
          Spend("fail") /\ ex' = [ex EXCEPT ![p].pc = "fail", ![p].kind = kind]
    BY <1>5, <2>1 DEF PageFails
  <2>3. Working(p) /\ ex[p].pc # "finish" /\ UNCHANGED <<row, web, rec>>
    BY <1>5 DEF PageFails, Working
  <2>4. /\ ex'[p].pc = "fail" /\ ex'[p].kind = kind /\ ex'[p].job = ex[p].job
        /\ \A q \in Procs \ {p} : ex'[q] = ex[q]
    BY <1>0, <2>2 DEF Slot
  <2>5. /\ used'["fail"] > 0 /\ used'["fail"] \in Nat
        /\ \A e \in {"start", "reset", "pause"} : used'[e] = used[e]
    <3>1. "fail" \in Events /\ {"start", "reset", "pause"} \subseteq Events \ {"fail"}
      BY DEF Events, Ops
    <3> QED
      BY <2>2, <3>1, SpendCounts DEF Spend, TypeInv, TypeOK
  <2>6. InOrder'
    BY <1>2, <2>3
  <2> QED
    BY <2>3, <2>4, <2>5, <2>6, WorkerGoes DEF InPage
<1>6. CASE Commit(p)
  <2>1. /\ ex[p].pc = "commit" /\ ex[p].to = NextCursor(ex[p].at) /\ ex[p].at = row.next
        /\ ex[p].seen \subseteq 1 .. ex[p].at /\ ex[p].at \in 0 .. Pages - 1
    BY <1>0, <1>6 DEF Commit, CommitTo, Peace, InPlace, InPage, Slot, PageIds
  <2>2. /\ row'.next = ex[p].to /\ row'.seen = ex[p].seen \cup ({ex[p].to} \ {0})
        /\ row'.lock = row.lock /\ row'.held /\ row'.code = "none"
        /\ row'.status = IF ex[p].to = 0 THEN "completed" ELSE "running"
    BY <1>0, <1>6 DEF Commit, CommitTo, Written, Row
  <2>3. UNCHANGED <<web, rec, used>>
    BY <1>6 DEF Commit, CommitTo
  <2>4. PICK pc \in {"finish", "read", "batch"} :
          /\ ex' = [ex EXCEPT ![p].round = @ + 1, ![p].pc = pc]
          /\ ex[p].to = 0 => pc = "finish"
    BY <1>6 DEF Commit, CommitTo
  <2>5. /\ ex'[p].pc = pc /\ ex'[p].job = ex[p].job
        /\ \A q \in Procs \ {p} : ex'[q] = ex[q]
    BY <1>0, <2>4 DEF Slot
  <2>6. Working(p)
    BY <2>1 DEF Working
  <2>7. InOrder'
    <3>1. CASE ex[p].to = 0
      <4>1. \A q \in Procs \ {p} : ex[q].pc \in {"idle", "addretry"}
        BY <2>6, OneWorks DEF Peace, Fails, Working
      <4>2. Over'
        BY <2>2, <2>4, <2>5, <3>1, <4>1 DEF Over
      <4> QED
        BY <4>2 DEF InOrder
    <3>2. CASE ex[p].to # 0
      <4>1. ex[p].to = row.next + 1 /\ row.next \in Nat
        BY <2>1, <3>2 DEF NextCursor
      <4>2. 1 .. row.next \subseteq 1 .. row'.next /\ row'.seen \subseteq 1 .. row'.next
        BY <2>1, <2>2, <4>1
      <4>3. \A q \in Requests : web[q].pc = "save" => web[q].seen \subseteq 1 .. row.next
        BY <1>1, <2>1, <2>6
      <4> QED
        BY <2>3, <4>2, <4>3 DEF InOrder
    <3> QED
      BY <3>1, <3>2
  <2> QED
    BY <2>2, <2>3, <2>4, <2>5, <2>6, <2>7, WorkerGoes DEF InPage
<1>7. CASE ReadBatch(p) \/ Continue(p)
  <2>1. Working(p) /\ ex[p].pc # "finish" /\ UNCHANGED <<row, web, rec, used>>
    BY <1>7 DEF ReadBatch, Continue, Working
  <2>2. \E pc \in {"pausing", "clear", "auto", "stopbatch"} : Goto(p, pc)
    BY <1>7 DEF ReadBatch, Continue
  <2>3. /\ ex'[p].pc \in {"pausing", "clear", "auto", "stopbatch"} /\ ex'[p].job = ex[p].job
        /\ \A q \in Procs \ {p} : ex'[q] = ex[q]
    BY <1>0, <2>2 DEF Goto, Slot
  <2>4. InOrder'
    BY <1>2, <2>1
  <2> QED
    BY <2>1, <2>3, <2>4, WorkerGoes DEF InPage
\* A worker that leaves writes the row, then its slot is empty.
<1>8. ASSUME Return(p) PROVE ex'[p].pc = "idle" /\ \A q \in Procs \ {p} : ex'[q] = ex[q]
  BY <1>0, <1>8 DEF Return, IdleSlot
<1>9. CASE Release(p) \/ MarkPaused(p) \/ Finish(p) \/ ClearLock(p) \/ StopBatch(p)
  <2>1. Return(p) /\ Working(p) /\ ex[p].pc # "idle" /\ UNCHANGED <<web, rec, used>>
    BY <1>9 DEF Release, MarkPaused, Finish, ClearLock, StopBatch, Working
  <2>2. /\ row'.next = row.next /\ row'.seen = row.seen /\ row'.code = row.code
        /\ row'.fails = row.fails /\ row'.status \in {row.status, "paused"}
    <3>1. CASE Release(p)
      <4>1. row' = row \/ row' = [Unlocked(row) EXCEPT !.young = TRUE]
        BY <3>1 DEF Release, Written
      <4> QED
        BY <1>0, <4>1 DEF Unlocked, Row
    <3>2. CASE MarkPaused(p)
      BY <1>0, <3>2 DEF MarkPaused, Written, Paused, Unlocked, Row
    <3>3. CASE Finish(p)
      BY <1>0, <3>3 DEF Finish, Written, Unlocked, Row
    <3>4. CASE ClearLock(p)
      BY <1>0, <3>4 DEF ClearLock, Written, Unlocked, Row
    <3>5. CASE StopBatch(p)
      BY <1>0, <3>5 DEF StopBatch, Written, Unlocked, Row
    <3> QED
      BY <1>9, <3>1, <3>2, <3>3, <3>4, <3>5
  <2> QED
    BY <1>0, <1>8, <2>1, <2>2, WorkerLeaves
<1>10. CASE Catch(p)
  BY <1>10 DEF Catch, Peace, Fails
<1>11. CASE FailRow(p)
  <2>1. /\ Working(p) /\ ex[p].pc = "fail" /\ UNCHANGED <<web, rec, used>>
        /\ ex[p].kind \in {"transient", "permanent"}
    BY <1>11 DEF FailRow, FailRowWith, Working, Peace, Fails
  <2>2. CASE ex[p].kind = "transient" /\ ex[p].fails + 1 < MaxRetries
    <3>1. /\ row'.next = row.next /\ row'.seen = row.seen /\ row'.code = ex[p].kind
          /\ row'.status = "retrying"
      BY <1>0, <1>11, <2>2 DEF FailRow, FailRowWith, Written, Unlocked, Row
    <3>2. ex'[p].pc = "addretry" /\ \A q \in Procs \ {p} : ex'[q] = ex[q]
      BY <1>0, <1>11, <2>2 DEF FailRow, FailRowWith, Goto, Slot
    <3> QED
      BY <1>0, <2>1, <3>1, <3>2, WorkerLeaves
  <2>3. CASE ~(ex[p].kind = "transient" /\ ex[p].fails + 1 < MaxRetries)
    <3>1. /\ row'.next = row.next /\ row'.seen = row.seen /\ row'.code = ex[p].kind
          /\ row'.status = "failed" /\ row'.fails = ex[p].fails + 1
      BY <1>0, <1>11, <2>3 DEF FailRow, FailRowWith, Written, Unlocked, Row
    <3>2. Return(p)
      BY <1>11, <2>3 DEF FailRow, FailRowWith
    <3>3. row'.code = "permanent" \/ row'.fails >= MaxRetries
      <4>1. ex[p].fails \in Nat /\ MaxRetries \in Nat
        BY <1>0 DEF Slot, AlibabaAssumption
      <4> QED
        BY <2>1, <2>3, <3>1, <4>1
    <3> QED
      BY <1>0, <1>8, <2>1, <3>1, <3>2, <3>3, WorkerLeaves
  <2> QED
    BY <2>2, <2>3
<1>12. CASE AddRetry(p)
  <2>1. /\ ex'[p].pc = "idle" /\ \A q \in Procs \ {p} : ex'[q] = ex[q]
        /\ ex[p].pc = "addretry" /\ UNCHANGED <<row, web, rec, used>>
    BY <1>0, <1>12 DEF AddRetry, IdleSlot
  <2> QED
    BY <1>0, <2>1, WorkerLeaves
<1> QED
  BY <1>3, <1>4, <1>5, <1>6, <1>7, <1>9, <1>10, <1>11, <1>12 DEF Step

\* The steps that begin a job.
LEMMA PeaceOfTake ==
  ASSUME AlibabaAssumption, TypeInv, Undisturbed, Undisturbed', Peace, NEW p \in Procs, Take(p)
  PROVE  Peace'
<1>0. row \in Row /\ ex \in [Procs -> Slot] /\ ex[p] \in Slot
  BY DEF TypeInv, TypeOK
<1>1. PICK j \in Jobs : Begin(p, j) \/ BeginUnconfigured(p, j)
  BY DEF Take
<1>2. ~BeginUnconfigured(p, j)
  <2>1. ~Spend("unset")
    <3>1. "unset" \in Events
      BY DEF Events
    <3> QED
      BY <3>1, SpendCounts DEF Undisturbed
  <2> QED
    BY <2>1 DEF BeginUnconfigured
<1>3. UNCHANGED <<rec, web, used>> /\ ex[p].pc = "idle"
  BY <1>1, <1>2 DEF Begin
<1>4. CASE Acquirable(p, j)
  <2>1. /\ row' = [row EXCEPT !.status = "running", !.due = TRUE, !.lock = <<p, j>>,
                              !.held = TRUE, !.young = TRUE]
        /\ ex' = [ex EXCEPT ![p].pc = "read", ![p].job = j]
    BY <1>0, <1>1, <1>2, <1>4 DEF Begin, Written, Row
  <2>2. /\ row'.status = "running" /\ row'.lock = <<p, j>> /\ row'.held
        /\ row'.next = row.next /\ row'.seen = row.seen /\ row'.code = row.code
    BY <1>0, <2>1 DEF Row
  <2>3. /\ ex'[p].pc = "read" /\ ex'[p].job = j
        /\ \A q \in Procs \ {p} : ex'[q] = ex[q]
    BY <1>0, <2>1 DEF Slot
  <2>4. ASSUME NEW q \in Procs \ {p} PROVE ~Working(q) /\ ~Working(q)'
    <3>1. SUFFICES ~Working(q)
      BY <2>3 DEF Working
    <3>2. Working(q) => row.lock = <<q, ex[q].job>> /\ row.held /\ ex[q].job \in Jobs
      BY DEF Peace, Holds
    <3>3. NoLock \notin Procs \X Jobs
      BY DEF AlibabaAssumption
    <3> QED
      BY <1>4, <3>2, <3>3 DEF Acquirable
  <2>5. Holds'
    BY <2>2, <2>3, <2>4 DEF Holds
  <2>6. InPlace'
    BY <2>3, <2>4 DEF InPlace, InPage, Working
  <2>7. row.status \in {"running", "retrying"}
    BY <1>4 DEF Acquirable
  <2>8. InOrder'
    BY <1>3, <2>2, <2>7 DEF Peace, InOrder, Over
  <2>9. Fails'
    BY <1>3, <2>2, <2>3 DEF Peace, Fails
  <2>10. Retries'
    BY <1>3, <2>2, <2>3 DEF Peace, Retries, Asked
  <2>11. Requested'
    BY <1>3, <2>7 DEF Peace, Requested, Asked, Anew
  <2> QED
    BY <2>5, <2>6, <2>8, <2>9, <2>10, <2>11 DEF Peace
<1>5. CASE ~Acquirable(p, j)
  <2>1. UNCHANGED <<row, ex>>
    BY <1>1, <1>2, <1>5 DEF Begin
  <2>2. \A q \in Procs : rec[q] \in {"none", "enqueue"}
    BY DEF Peace, Fails
  <2> QED
    BY <1>3, <2>1, <2>2, NobodyWorks
<1> QED
  BY <1>4, <1>5

\* The recovery, crashes and errors.
LEMMA PeaceOfRecovery ==
  ASSUME AlibabaAssumption, TypeInv, Undisturbed, Undisturbed', Peace, NEW p \in Procs,
         Recover(p) \/ DbError(p) \/ Crash(p)
  PROVE  Peace'
<1>0. /\ row \in Row /\ ex \in [Procs -> Slot] /\ rec \in [Procs -> Recovery]
      /\ \A q \in Procs : rec[q] \in {"none", "enqueue"}
      /\ row.code \in {"none", "transient", "permanent"}
  BY DEF TypeInv, TypeOK, Peace, Fails
<1>1. CASE Recover(p)
  <2>1. ~RecoverWrite(p)
    BY <1>0 DEF RecoverWrite
  <2>2. ~Recoverable
    <3>1. row.fails \in Nat /\ MaxRetries \in Nat
      BY <1>0 DEF Row, AlibabaAssumption
    <3>2. Fails
      BY DEF Peace
    <3> QED
      BY <3>1, <3>2 DEF Fails, Recoverable, RetryableCodes
  <2>3. ~OldLockFailure
    BY <1>0 DEF OldLockFailure
  <2>4. /\ \A q \in Procs : rec'[q] \in {"none", "enqueue"}
        /\ UNCHANGED <<row, ex, web, used>>
    BY <1>0, <1>1, <2>1, <2>2, <2>3 DEF Recover, RecoverRead, RecoverAdd
  <2> QED
    BY <2>4, NobodyWorks
<1>2. CASE DbError(p)
  <2>1. ~Spend("dberror")
    <3>1. "dberror" \in Events
      BY DEF Events
    <3> QED
      BY <3>1, SpendCounts DEF Undisturbed
  <2> QED
    BY <1>2, <2>1 DEF DbError
<1>3. CASE Crash(p)
  <2>1. /\ UNCHANGED <<row, web>> /\ Spend("crash")
        /\ ex' = [ex EXCEPT ![p] = IdleSlot] /\ rec' = [rec EXCEPT ![p] = "none"]
    BY <1>3 DEF Crash
  <2>2. ex'[p].pc = "idle" /\ \A q \in Procs \ {p} : ex'[q] = ex[q]
    BY <1>0, <2>1 DEF IdleSlot
  <2>3. \A q \in Procs : rec'[q] \in {"none", rec[q]}
    BY <1>0, <2>1
  <2>4. \A e \in {"start", "reset", "pause", "fail"} : used'[e] = used[e]
    BY <2>1 DEF Spend, TypeInv, TypeOK, Events, Ops
  <2>5. row'.status = "failed" => row.status = "failed" /\ row'.code = row.code /\ row'.fails = row.fails
    BY <2>1
  <2> QED
    BY <1>0, <2>1, <2>2, <2>3, <2>4, <2>5, WorkerLeaves
<1> QED
  BY <1>1, <1>2, <1>3

\* A request is made.
LEMMA PeaceOfAsk ==
  ASSUME AlibabaAssumption, TypeInv, Undisturbed, Undisturbed', Peace,
         NEW q \in Requests, NEW op \in Ops, Ask(q, op)
  PROVE  Peace'
<1>0. /\ UNCHANGED <<row, ex, rec>> /\ Spend(op) /\ web[q].pc = "idle" /\ web \in [Requests -> Web]
      /\ web' = [web EXCEPT ![q].pc = "write", ![q].op = op, ![q].was = row.status]
  BY DEF Ask, TypeInv, TypeOK
<1>1. /\ web'[q].pc = "write" /\ web'[q].op = op /\ web'[q].was = row.status
      /\ \A r \in Requests \ {q} : web'[r] = web[r]
  BY <1>0 DEF Web
<1>2. /\ op \in Events /\ Ops \subseteq Events
      /\ {"start", "reset", "pause", "fail", "resume"} \subseteq Events
  BY DEF Events, Ops
<1>3. /\ used'[op] = used[op] + 1 /\ used'[op] > 0
      /\ \A e \in Events : used[e] \in Nat /\ used'[e] \in Nat /\ used'[e] >= used[e]
  BY <1>0, <1>2, SpendCounts
<1>4. \A e \in Events \ {op} : used'[e] = used[e]
  BY <1>0 DEF Spend, TypeInv, TypeOK
<1>5. op # "resume"
  BY <1>3 DEF Undisturbed
<1>6. Holds' /\ InPlace' /\ Fails'
  BY <1>0 DEF Peace, Holds, InPlace, Fails, Working, InPage
<1>7. InOrder'
  BY <1>0, <1>1 DEF Peace, InOrder, Over
<1>8. Retries'
  <2>1. used'["fail"] = used["fail"]
    BY <1>2, <1>4 DEF Ops
  <2> QED
    BY <1>0, <1>1, <2>1 DEF Peace, Retries, Asked
<1>9. \A r \in Requests \ {q}, o \in Ops : Asked(r, o)' <=> Asked(r, o)
  BY <1>1 DEF Asked
<1>10. \A r \in Requests \ {q} : Anew(r)' <=> Anew(r)
  BY <1>9 DEF Anew, Ops
<1>11. CASE op = "pause"
  <2>1. ~Anew(q)' /\ ~Asked(q, "resume")'
    BY <1>1, <1>11 DEF Anew, Asked
  <2>2. used'["start"] = used["start"] /\ used'["reset"] = used["reset"] /\ used'["pause"] > 0
    BY <1>2, <1>3, <1>4, <1>11
  <2>3. row.status # "idle"
    BY <1>11 DEF Ask, Accepts
  <2>4. ~(used["start"] + used["reset"] = 0 \/ \E r \in Requests : Anew(r))
    BY <2>3 DEF Peace, Requested
  <2>5. ~(used'["start"] + used'["reset"] = 0 \/ \E r \in Requests : Anew(r)')
    BY <1>10, <2>1, <2>2, <2>4
  <2>6. \A r \in Requests : ~Asked(r, "resume")' /\ (Asked(r, "pause")' => used'["pause"] > 0)
    BY <1>9, <2>1, <2>2 DEF Peace, Requested, Ops

  <2>7. Requested'
    BY <2>5, <2>6 DEF Requested
  <2> QED
    BY <1>6, <1>7, <1>8, <2>7 DEF Peace
<1>12. CASE op \in {"start", "reset"}
  <2>1. used'["start"] + used'["reset"] <= 1
    BY DEF Undisturbed
  <2>2. used["start"] + used["reset"] = 0 /\ used'["start"] + used'["reset"] > 0
    <3>1. used["start"] \in Nat /\ used["reset"] \in Nat /\ used'["start"] \in Nat /\ used'["reset"] \in Nat
      BY <1>2, <1>3
    <3>2. CASE op = "start"
      <4>1. used'["reset"] = used["reset"] /\ used'["start"] = used["start"] + 1
        BY <1>2, <1>3, <1>4, <3>2
      <4> QED
        BY <2>1, <3>1, <4>1
    <3>3. CASE op = "reset"
      <4>1. used'["start"] = used["start"] /\ used'["reset"] = used["reset"] + 1
        BY <1>2, <1>3, <1>4, <3>3
      <4> QED
        BY <2>1, <3>1, <4>1
    <3> QED
      BY <1>12, <3>2, <3>3
  <2>3. /\ row.status = "idle" /\ \A p \in Procs : ex[p].pc = "idle"
        /\ \A r \in Requests : ~Anew(r) /\ web[r].pc = "idle"
    BY <2>2 DEF Peace, Requested
  <2>4. Anew(q)' /\ ~Asked(q, "pause")' /\ ~Asked(q, "resume")'
    BY <1>1, <1>12 DEF Anew, Asked
  <2>5. \A r \in Requests \ {q} : /\ web'[r].pc = "idle" /\ ~Anew(r)'
                                  /\ ~Asked(r, "pause")' /\ ~Asked(r, "resume")'
    BY <1>1, <2>3 DEF Anew, Asked
  <2>6. \A r \in Requests : /\ ~Asked(r, "pause")' /\ ~Asked(r, "resume")'
                            /\ web'[r].pc = "idle" \/ Anew(r)'
                            /\ Anew(r)' => r = q
    BY <2>4, <2>5
  <2>7. row'.status = "idle" /\ \A p \in Procs : ex'[p].pc = "idle"
    BY <1>0, <2>3
  <2>8. Requested'
    BY <2>2, <2>6, <2>7 DEF Requested
  <2> QED
    BY <1>6, <1>7, <1>8, <2>8 DEF Peace
<1> QED
  BY <1>5, <1>11, <1>12 DEF Ops

\* A request is served.
LEMMA PeaceOfServe ==
  ASSUME AlibabaAssumption, TypeInv, Undisturbed, Undisturbed', Peace,
         NEW q \in Requests, Serve(q)
  PROVE  Peace'
<1>0. /\ row \in Row /\ web \in [Requests -> Web] /\ UNCHANGED <<ex, rec, used>>
      /\ \A p \in Procs : rec[p] \in {"none", "enqueue"}
  BY DEF Serve, Clear, PauseRow, ResumeRow, AddSyncJob, ReadMeta, SaveMeta, TypeInv, TypeOK,
    Peace, Fails
<1>1. \A r \in Requests \ {q} : web'[r] = web[r]
  BY <1>0 DEF Serve, Clear, PauseRow, ResumeRow, AddSyncJob, ReadMeta, SaveMeta
\* A request that is not a start or a reset finds the row started.
<1>2. ASSUME ~Anew(q), web[q].pc # "idle", web'[q].pc # "write" PROVE Requested'
  <2>1. \A r \in Requests, o \in Ops : Asked(r, o)' => Asked(r, o)
    BY <1>1, <1>2 DEF Asked
  <2>2. \A r \in Requests : Anew(r)' => Anew(r)
    BY <2>1 DEF Anew, Ops
  <2>3. ~(used["start"] + used["reset"] = 0 \/ \E r \in Requests : Anew(r))
    BY <1>2 DEF Peace, Requested
  <2>4. ~(used'["start"] + used'["reset"] = 0 \/ \E r \in Requests : Anew(r)')
    BY <1>0, <2>2, <2>3
  <2>5. \A r \in Requests : ~Asked(r, "resume")' /\ (Asked(r, "pause")' => used'["pause"] > 0)
    BY <1>0, <2>1 DEF Peace, Requested, Ops
  <2> QED
    BY <2>4, <2>5 DEF Requested
<1>3. CASE Clear(q)
  <2>1. Anew(q) /\ web'[q].pc \in {"add", "idle"}
    BY <1>0, <1>3 DEF Clear, Anew, Asked, IdleWeb, Web
  <2>2. /\ \A p \in Procs : ex[p].pc = "idle"
        /\ \A r \in Requests \ {q} : web[r].pc = "idle"
        /\ used["start"] + used["reset"] > 0
    <3>1. \A r \in Requests : web[r].pc = "idle" \/ Anew(r)
      BY <2>1 DEF Peace, Requested
    <3>2. \A r \in Requests : Anew(r) => r = q
      BY <2>1 DEF Peace, Requested
    <3> QED
      BY <2>1, <3>1, <3>2 DEF Peace, Requested
  <2>3. row'.status \in {"running", "idle"} /\ row'.seen = {} /\ row'.code = "none"
    BY <1>3 DEF Clear, Written, FreshRow
  <2>4. \A r \in Requests : web'[r].pc \in {"add", "idle"}
    BY <1>1, <2>1, <2>2
  <2>5. Holds' /\ InPlace' /\ Fails'
    BY <1>0, <2>2, <2>3 DEF Holds, InPlace, InPage, Fails, Working
  <2>6. InOrder'
    BY <2>3, <2>4 DEF InOrder
  <2>7. Retries'
    BY <1>0, <2>2, <2>3, <2>4 DEF Retries, Asked
  <2>8. Requested'
    <3>1. \A r \in Requests, o \in Ops : ~Asked(r, o)'
      BY <2>4 DEF Asked
    <3>2. \A r \in Requests : ~Anew(r)'
      BY <3>1 DEF Anew, Ops
    <3> QED
      BY <1>0, <2>2, <3>1, <3>2 DEF Requested, Ops
  <2> QED
    BY <2>5, <2>6, <2>7, <2>8 DEF Peace
<1>4. CASE PauseRow(q)
  <2>1. Asked(q, "pause") /\ ~Anew(q) /\ web[q].pc # "idle"
    BY <1>4 DEF PauseRow, Asked, Anew
  <2>2. web[q].was # "retrying"
    <3>1. used["pause"] > 0
      BY <2>1 DEF Peace, Requested
    <3>2. used["fail"] = 0
      BY <3>1 DEF Undisturbed
    <3> QED
      BY <2>1, <3>2 DEF Peace, Retries
  <2>3. /\ row'.status = "cancelling" /\ row'.next = row.next /\ row'.seen = row.seen
        /\ row'.lock = row.lock /\ row'.held = row.held /\ row'.code = row.code
    BY <1>0, <1>4, <2>2 DEF PauseRow, Written, Row
  <2>4. web'[q].pc = "idle"
    BY <1>0, <1>4 DEF PauseRow, IdleWeb
  <2>5. Holds' /\ InPlace' /\ Fails'
    BY <1>0, <2>3 DEF Peace, Holds, InPlace, InPage, Fails, Working
  <2>6. InOrder'
    BY <1>0, <1>1, <2>3, <2>4 DEF Peace, InOrder, Over
  <2>7. Retries'
    BY <1>0, <1>1, <2>3, <2>4 DEF Peace, Retries, Asked
  <2>8. Requested'
    BY <1>2, <2>1, <2>4
  <2> QED
    BY <2>5, <2>6, <2>7, <2>8 DEF Peace
<1>5. CASE ResumeRow(q)
  BY <1>5 DEF ResumeRow, Peace, Requested, Asked
<1>6. CASE AddSyncJob(q)
  <2>1. UNCHANGED row /\ web[q].pc = "add" /\ web'[q].pc = "meta"
    BY <1>0, <1>6 DEF AddSyncJob, Web
  <2> QED
    BY <1>0, <1>1, <2>1, NobodyWorks
<1>7. CASE ReadMeta(q)
  <2>1. UNCHANGED row /\ web[q].pc = "meta" /\ web'[q].pc = "save" /\ web'[q].seen = row.seen
    BY <1>0, <1>7 DEF ReadMeta, Web
  <2> QED
    BY <1>0, <1>1, <2>1, NobodyWorks
<1>8. CASE SaveMeta(q)
  <2>1. web[q].pc = "save" /\ web'[q].pc = "idle"
    BY <1>0, <1>8 DEF SaveMeta, IdleWeb
  <2>2. /\ row'.status = row.status /\ row'.next = row.next /\ row'.seen = web[q].seen
        /\ row'.lock = row.lock /\ row'.held = row.held /\ row'.code = row.code
        /\ row'.fails = row.fails
    BY <1>0, <1>8 DEF SaveMeta, Written, Row
  <2>5. Holds' /\ InPlace' /\ Fails'
    BY <1>0, <2>2 DEF Peace, Holds, InPlace, InPage, Fails, Working
  <2>6. InOrder'
    BY <1>0, <1>1, <2>1, <2>2 DEF Peace, InOrder, Over
  <2>7. Retries'
    BY <1>0, <1>1, <2>1, <2>2 DEF Peace, Retries, Asked
  <2>8. Requested'
    BY <1>2, <2>1 DEF Anew, Asked
  <2> QED
    BY <2>5, <2>6, <2>7, <2>8 DEF Peace
<1> QED
  BY <1>3, <1>4, <1>5, <1>6, <1>7, <1>8 DEF Serve

\* Time passes, and the queue moves its jobs.
LEMMA PeaceOfTime ==
  ASSUME AlibabaAssumption, TypeInv, Undisturbed, Undisturbed', Peace,
         \/ \E j \in Jobs : Unstall(j) \/ Promote(j)
         \/ TwoMinutes \/ RetryDue \/ UNCHANGED vars
  PROVE  Peace'
<1>0. row \in Row /\ \A q \in Procs : rec[q] \in {"none", "enqueue"}
  BY DEF TypeInv, TypeOK, Peace, Fails
<1>1. CASE (\E j \in Jobs : Unstall(j) \/ Promote(j)) \/ UNCHANGED vars
  <2>1. UNCHANGED <<row, ex, rec, web, used>>
    BY <1>1 DEF Unstall, Promote, vars
  <2> QED
    BY <1>0, <2>1, NobodyWorks
<1>2. CASE TwoMinutes
  <2>1. ~Spend("slow")
    <3>1. "slow" \in Events
      BY DEF Events
    <3> QED
      BY <3>1, SpendCounts DEF Undisturbed
  <2>2. \A p \in Procs : ex[p].pc = "idle"
    BY <1>2, <2>1 DEF TwoMinutes
  <2>3. UNCHANGED <<ex, rec, web, used>>
    BY <1>2, <2>1 DEF TwoMinutes
  <2>4. /\ row'.status = row.status /\ row'.next = row.next /\ row'.seen = row.seen
        /\ row'.lock = row.lock /\ row'.code = row.code /\ row'.fails = row.fails
    BY <1>0, <1>2 DEF TwoMinutes, Row
  <2> QED
    BY <1>0, <2>2, <2>3, <2>4, NobodyWorks
<1>3. CASE RetryDue
  <2>1. /\ row'.status = row.status /\ row'.next = row.next /\ row'.seen = row.seen
        /\ row'.lock = row.lock /\ row'.code = row.code /\ row'.fails = row.fails
        /\ row'.held = row.held
    BY <1>0, <1>3 DEF RetryDue, Row
  <2>2. UNCHANGED <<ex, rec, web, used>>
    BY <1>3 DEF RetryDue
  <2> QED
    BY <1>0, <2>1, <2>2, NobodyWorks
<1> QED
  BY <1>1, <1>2, <1>3

LEMMA PeaceInitial == ASSUME AlibabaAssumption, Init PROVE Peaceful
<1> SUFFICES ASSUME Undisturbed PROVE Peace
  BY DEF Peaceful
<1>1. row = FreshRow /\ used = NoEvents
  <2>1. [NoEvents EXCEPT !["oldrow"] = 1]["oldrow"] = 1
    BY DEF NoEvents, Events
  <2>2. used["oldrow"] = 0
    BY DEF Undisturbed
  <2>3. \/ row = FreshRow /\ used = NoEvents
        \/ used = [NoEvents EXCEPT !["oldrow"] = 1]
    BY DEF Init
  <2>4. used # [NoEvents EXCEPT !["oldrow"] = 1]
    <3>1. SUFFICES ASSUME used = [NoEvents EXCEPT !["oldrow"] = 1] PROVE FALSE
      OBVIOUS
    <3>2. used["oldrow"] = 1
      BY <2>1, <3>1
    <3> QED
      BY <2>2, <3>2
  <2> QED
    BY <2>3, <2>4
<1>2. /\ \A p \in Procs : ex[p].pc = "idle" /\ rec[p] = "none"
      /\ \A q \in Requests : web[q].pc = "idle"
  BY DEF Init, IdleSlot, IdleWeb
<1>3. Holds /\ InPlace /\ InOrder /\ Fails
  BY <1>1, <1>2 DEF Holds, InPlace, InOrder, Fails, Working, InPage, FreshRow
<1>4. Retries /\ Requested
  BY <1>1, <1>2 DEF Retries, Requested, Asked, Anew, FreshRow
<1> QED
  BY <1>3, <1>4 DEF Peace

LEMMA PeaceStep ==
  ASSUME AlibabaAssumption, TypeInv, Peaceful, [Next]_vars
  PROVE  Peaceful'
<1> SUFFICES ASSUME Undisturbed' PROVE Peace'
  BY DEF Peaceful
<1>1. Undisturbed /\ Peace
  BY UndisturbedBefore DEF Peaceful
<1> QED
  BY <1>1, PeaceOfStep, PeaceOfTake, PeaceOfRecovery, PeaceOfAsk, PeaceOfServe, PeaceOfTime
  DEF Next

LEMMA PeaceHolds == Spec => []Peaceful
<1>1. Spec => []TypeInv
  BY AlibabaAssumption, TypeInvariant
<1>2. Init => Peaceful
  BY AlibabaAssumption, PeaceInitial
<1>3. TypeInv /\ Peaceful /\ [Next]_vars => Peaceful'
  BY AlibabaAssumption, PeaceStep
<1> QED
  BY <1>1, <1>2, <1>3, PTL DEF Spec

\* Two workers never have a page in flight at once, however many processes,
\* jobs and crashes there are, through the pauses, the time limit, the batch end
\* and the retries that clear the lock without looking at its owner, as long as
\* no page takes two minutes and no start, resume or recovery comes between.
THEOREM PagesOneAtATime == Spec => []OnePageAtATime
<1>1. Peaceful => OnePageAtATime
  BY OneWorks, InPageWorks DEF Peaceful, Peace, OnePageAtATime
<1> QED
  BY <1>1, PeaceHolds, PTL

\* The loop detection never fails a synchronization whose pages come with ever
\* new cursors, whatever hashes a request writes back meanwhile.
THEOREM NoAlarmIsFalse == Spec => []NoFalseAlarm
<1>1. Peaceful => NoFalseAlarm
  BY DEF Peaceful, Peace, Fails, NoFalseAlarm
<1> QED
  BY <1>1, PeaceHolds, PTL

-----------------------------------------------------------------------------
(* The place is kept.  UndisturbedPlace is PlaceIsKept of the behaviours in    *)
(* which a worker's page is the row's.                                         *)

CursorStays ==
  row'.next >= row.next \/ row'.status = "completed" \/ row'.pages = 0

\* As long as no two workers can share a page, no step leads the cursor back,
\* but for the end of the synchronization and for a start or a reset.
UndisturbedPlace == [][Undisturbed' => CursorStays]_vars

LEMMA CursorOfCommit ==
  ASSUME AlibabaAssumption, TypeInv, Peace, NEW p \in Procs, Commit(p)
  PROVE  CursorStays
<1>0. /\ row \in Row /\ ex[p] \in Slot /\ Pages \in Nat \ {0}
      /\ row.next \in Nat /\ ex[p].to \in Nat
  BY DEF TypeInv, TypeOK, AlibabaAssumption, Row, Slot, PageIds
<1>1. ex[p].at = row.next /\ ex[p].to = NextCursor(row.next)
  BY DEF Commit, CommitTo, Peace, InPlace, InPage
<1>2. /\ row'.next = ex[p].to
      /\ row'.status = IF ex[p].to = 0 THEN "completed" ELSE "running"
  BY <1>0 DEF Commit, CommitTo, Written, Row
<1>3. ex[p].to = 0 \/ ex[p].to = row.next + 1
  BY <1>1 DEF NextCursor
<1> QED
  BY <1>0, <1>2, <1>3 DEF CursorStays

LEMMA CursorOfNext ==
  ASSUME AlibabaAssumption, TypeInv, Peace, Undisturbed', Next
  PROVE  CursorStays
<1>0. row \in Row /\ row.next \in Nat /\ Pages \in Nat \ {0}
  BY DEF TypeInv, TypeOK, AlibabaAssumption, Row, PageIds
<1>1. ASSUME row'.next = row.next
      PROVE  CursorStays
  BY <1>0, <1>1 DEF CursorStays
<1>2. ASSUME NEW p \in Procs, Step(p) PROVE CursorStays
  <2>1. CASE Commit(p)
    BY <2>1, CursorOfCommit
  <2>2. CASE ~Commit(p)
    <3>1. row'.next = row.next
      BY <1>0, <1>2, <2>2 DEF Step, ReadRow, Release, MarkPaused, Page, PageFails, Finish, ReadBatch,
        Continue, ClearLock, StopBatch, Catch, FailRow, FailRowWith, AddRetry, Written, Unlocked,
        Paused, Row
    <3> QED
      BY <1>1, <3>1
  <2> QED
    BY <2>1, <2>2
<1>3. ASSUME NEW p \in Procs, Take(p) \/ Recover(p) \/ DbError(p) \/ Crash(p)
      PROVE  CursorStays
  <2>1. CASE Take(p)
    <3>1. row'.next = row.next
      BY <1>0, <2>1 DEF Take, Begin, BeginUnconfigured, Written, Unlocked, Row
    <3> QED
      BY <1>1, <3>1
  <2>2. CASE Recover(p)
    <3>1. row'.next = row.next
      BY <1>0, <2>2 DEF Recover, RecoverRead, RecoverWrite, RecoverAdd, Written, Unlocked, Row
    <3> QED
      BY <1>1, <3>1
  <2>3. CASE DbError(p) \/ Crash(p)
    BY <1>1, <2>3 DEF DbError, Crash
  <2> QED
    BY <1>3, <2>1, <2>2, <2>3
<1>4. ASSUME NEW q \in Requests, Clear(q) PROVE CursorStays
  BY <1>4 DEF Clear, Written, FreshRow, CursorStays
<1>5. ASSUME NEW q \in Requests, ~Clear(q), Serve(q) \/ \E op \in Ops : Ask(q, op)
      PROVE  CursorStays
  <2>1. CASE PauseRow(q) \/ ResumeRow(q)
    <3>1. row'.next = row.next
      BY <1>0, <2>1 DEF PauseRow, ResumeRow, Written, Paused, Unlocked, Row
    <3> QED
      BY <1>1, <3>1
  <2>2. CASE SaveMeta(q)
    <3>1. row'.next = row.next
      BY <1>0, <2>2 DEF SaveMeta, Written, Row
    <3> QED
      BY <1>1, <3>1
  <2>3. CASE AddSyncJob(q) \/ ReadMeta(q) \/ \E op \in Ops : Ask(q, op)
    <3>1. UNCHANGED row
      BY <2>3 DEF AddSyncJob, ReadMeta, Ask
    <3> QED
      BY <1>1, <3>1
  <2> QED
    BY <1>5, <2>1, <2>2, <2>3 DEF Serve
<1>6. CASE (\E j \in Jobs : Unstall(j) \/ Promote(j)) \/ TwoMinutes \/ RetryDue
  <2>1. row'.next = row.next
    BY <1>0, <1>6 DEF Unstall, Promote, TwoMinutes, RetryDue, Row
  <2> QED
    BY <1>1, <2>1
<1> QED
  BY <1>2, <1>3, <1>4, <1>5, <1>6 DEF Next

\* The cursor of an undisturbed synchronization never moves back, whatever
\* failures, retries, crashes and pauses end its batches.
THEOREM PlaceStaysKept == Spec => UndisturbedPlace
<1>1. Spec => []TypeInv
  BY AlibabaAssumption, TypeInvariant
<1>2. TypeInv /\ Peaceful /\ [Next]_vars => [Undisturbed' => CursorStays]_vars
  BY AlibabaAssumption, UndisturbedBefore, CursorOfNext DEF Peaceful
<1> QED
  BY <1>1, <1>2, PeaceHolds, PTL DEF Spec, UndisturbedPlace
=============================================================================
