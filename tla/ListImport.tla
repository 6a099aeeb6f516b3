----------------------------- MODULE ListImport -----------------------------
(***************************************************************************)
(* An import into a list as the panel does it: a file or a pasted text is  *)
(* cut into chunks, several chunks are under way at once, and the panel    *)
(* adds up their answers.  When an import has failed the operator starts   *)
(* it again, perhaps while chunks of the failed one are still under way.   *)
(***************************************************************************)
EXTENDS Integers, Sequences, FiniteSets, FiniteSetsExt, SequencesExt

CONSTANTS
  Emails,
  Inputs,       \* [mode, chunks, global, elsewhere]: mode "csv" or "text", each chunk is a
                \* sequence of tokens; dedupeGlobally, and who is on another list
  Concurrency,  \* IMPORT_CONCURRENCY
  Size,         \* maxSize of the list
  Starts,       \* [member, suppressed]: who is on the list, and suppressed, at first
  MaxImports,   \* bound: how often the operator starts it
  MaxFaults     \* bound: chunks that fail

Invalid == 0  \* a token that is no address

VARIABLES
  input, suppressed,  \* the scenario
  member,             \* of the list
  page,               \* idle, importing, failed, done
  current,            \* the import the page is about
  shown,              \* of which import the progress on the page is
  run,                \* of each import: addresses seen, the report, "open" or how it ended
  task,               \* of each chunk of each import
  made,               \* history: memberships each import has made
  doubled,            \* history: addresses that the answer of each import did not count, or counted twice
  strays, faults      \* history: a failed import went on; bound

vars == <<input, suppressed, member, page, current, shown, run, task, made, doubled, strays, faults>>

Imports == 1..MaxImports
Chunks == 1..Len(input.chunks)
Report == [processed |-> 0, invalid |-> 0, duplicate |-> 0, added |-> 0, suppressed |-> 0,
           inList |-> 0, anywhere |-> 0, full |-> 0, batches |-> 0]
NoTask == [pc |-> "none", send |-> <<>>, inList |-> {}, suppressed |-> {}, anywhere |-> {}, full |-> {},
           added |-> 0]
Busy == {"read", "count", "write", "answer"}
InFlight(i) == {c \in Chunks : task[i][c].pc \in Busy}
Failed(i) == {c \in Chunks : task[i][c].pc = "failed"}
Unsent(i) == {c \in Chunks : task[i][c].pc = "none"}

ImportAssumption == MaxImports \in Nat

TypeOK ==
  /\ member \subseteq Emails /\ suppressed \subseteq Emails
  /\ page \in {"idle", "importing", "failed", "done"}
  /\ current \in 0..MaxImports /\ shown \in 0..MaxImports
  /\ \A i \in Imports : /\ run[i].state \in {"none", "open", "failed", "done"}
                        /\ \A c \in Chunks : task[i][c].pc \in Busy \cup {"none", "failed", "done"}

Init ==
  /\ input \in Inputs
  /\ \E s \in Starts : member = s.member /\ suppressed = s.suppressed
  /\ page = "idle" /\ current = 0 /\ shown = 0
  /\ run = [i \in Imports |-> [state |-> "none", seen |-> {}, report |-> Report]]
  /\ task = [i \in Imports |-> [c \in Chunks |-> NoTask]]
  /\ made = [i \in Imports |-> 0] /\ doubled = [i \in Imports |-> 0]
  /\ strays = FALSE /\ faults = 0

-----------------------------------------------------------------------------
(* The page *)

\* preprocessChunk: what was seen in this chunk or in one before is left out.
Accepted(tokens, seen) ==
  FoldLeft(LAMBDA acc, t : IF t = Invalid \/ t \in seen \cup ToSet(acc) THEN acc ELSE Append(acc, t),
           <<>>, tokens)

\* A file goes on behind a failed chunk; of the runners that share a pasted
\* text one ends with each failure, the others go on though the import has failed.
MaySend(i) ==
  IF input.mode = "csv" THEN Cardinality(InFlight(i)) < Concurrency
  ELSE Cardinality(InFlight(i)) + Cardinality(Failed(i)) < Concurrency

\* The text, or the file, is kept until an import has succeeded; a failed
\* import may be started again at once, while its runners wait for answers.
Start ==
  /\ page \in {"idle", "failed"} /\ current < MaxImports
  /\ \A i \in Imports : run[i].state = "failed" => Unsent(i) = {} \/ ~MaySend(i)
  /\ page' = "importing" /\ current' = current + 1 /\ shown' = current + 1
  /\ run' = [run EXCEPT ![current + 1].state = "open"]
  /\ strays' = (strays \/ \E i \in Imports : InFlight(i) # {})
  /\ UNCHANGED <<input, suppressed, member, task, made, doubled, faults>>

\* The next chunk is prepared and sent; one with nothing new is done at once.
Send(i) ==
  LET c == Min(Unsent(i))
      tokens == input.chunks[c]
      send == Accepted(tokens, run[i].seen)
      bad == Cardinality({k \in DOMAIN tokens : tokens[k] = Invalid})
  IN /\ run[i].state # "none" /\ Unsent(i) # {} /\ MaySend(i)
     /\ task' = [task EXCEPT ![i][c] = [NoTask EXCEPT !.pc = IF send = <<>> THEN "done" ELSE "read", !.send = send]]
     /\ run' = [run EXCEPT ![i].seen = @ \cup ToSet(send),
                           ![i].report.processed = @ + Len(tokens), ![i].report.invalid = @ + bad,
                           ![i].report.duplicate = @ + Len(tokens) - bad - Len(send),
                           ![i].report.batches = IF send = <<>> THEN @ + 1 ELSE @]
     /\ UNCHANGED <<input, suppressed, member, page, current, shown, made, doubled, strays, faults>>

\* The answer of a chunk is added; every now and then the page shows the sum,
\* whichever import it belongs to.
Answer(i, c) ==
  LET t == task[i][c]  r == run[i].report IN
  /\ t.pc = "answer"
  /\ task' = [task EXCEPT ![i][c].pc = "done"]
  /\ run' = [run EXCEPT ![i].report =
               [r EXCEPT !.added = @ + t.added, !.batches = @ + 1,
                         !.inList = @ + Cardinality(t.inList), !.suppressed = @ + Cardinality(t.suppressed),
                         !.anywhere = @ + Cardinality(t.anywhere), !.full = @ + Cardinality(t.full)]]
  /\ shown' \in {shown, i}
  /\ UNCHANGED <<input, suppressed, member, page, current, made, doubled, strays, faults>>

\* A pasted text fails with its first chunk, a file when all chunks are done.
Fail(i) ==
  /\ run[i].state = "open" /\ Failed(i) # {}
  /\ input.mode = "csv" => InFlight(i) = {} /\ Unsent(i) = {}
  /\ run' = [run EXCEPT ![i].state = "failed"] /\ page' = "failed"
  /\ UNCHANGED <<input, suppressed, member, current, shown, task, made, doubled, strays, faults>>

Succeed(i) ==
  /\ run[i].state = "open" /\ Failed(i) = {} /\ InFlight(i) = {} /\ Unsent(i) = {}
  /\ run' = [run EXCEPT ![i].state = "done"] /\ page' = "done" /\ shown' = i
  /\ UNCHANGED <<input, suppressed, member, current, task, made, doubled, strays, faults>>

-----------------------------------------------------------------------------
(* The request of a chunk: see Audience for it beside other requests *)

\* Who is on this list, is suppressed, or, if the import is to leave them out, is
\* on any list, this one among them.
Read(i, c) ==
  LET sent == ToSet(task[i][c].send) IN
  /\ task[i][c].pc = "read"
  /\ task' = [task EXCEPT ![i][c].pc = "count", ![i][c].inList = sent \cap member,
                          ![i][c].suppressed = sent \cap suppressed,
                          ![i][c].anywhere = IF input.global THEN sent \cap (member \cup input.elsewhere) ELSE {}]
  /\ UNCHANGED <<input, suppressed, member, page, current, shown, run, made, doubled, strays, faults>>

LeftOut(t) == t.inList \cup t.suppressed \cup t.anywhere
Importable(t) == SelectSeq(t.send, LAMBDA e : e \notin LeftOut(t))
\* By how much the three numbers exceed those that are left out.
CountedTwice(t) ==
  Cardinality(t.inList) + Cardinality(t.suppressed) + Cardinality(t.anywhere) - Cardinality(LeftOut(t))

\* The list is filled in the order of the input.
Count(i, c) ==
  LET free == Max({0, Size - Cardinality(member)})
      wanted == Importable(task[i][c])
  IN /\ task[i][c].pc = "count"
     /\ task' = [task EXCEPT ![i][c].pc = "write",
                   ![i][c].full = ToSet(SubSeq(wanted, free + 1, Len(wanted)))]
     /\ UNCHANGED <<input, suppressed, member, page, current, shown, run, made, doubled, strays, faults>>

Writes(t) == ToSet(Importable(t)) \ t.full
\* Rows there are already are not made again and not counted.
Write(i, c) ==
  LET t == task[i][c]  new == Writes(t) \ member IN
  /\ t.pc = "write"
  /\ member' = member \cup new /\ made' = [made EXCEPT ![i] = @ + Cardinality(new)]
  /\ task' = [task EXCEPT ![i][c].pc = "answer", ![i][c].added = Cardinality(new)]
  /\ doubled' = [doubled EXCEPT ![i] =
       @ + Cardinality(Writes(t) \cap member) - CountedTwice(t)]
  /\ UNCHANGED <<input, suppressed, page, current, shown, run, strays, faults>>

\* A request fails, before its rows are written, after some of them, or when its
\* answer gets lost; it has ended at the server then.
Break(i, c) ==
  LET t == task[i][c] IN
  /\ t.pc \in Busy /\ faults < MaxFaults /\ faults' = faults + 1
  /\ \E E \in IF t.pc = "write" THEN SUBSET Writes(t) ELSE {{}} :
       /\ member' = member \cup E /\ made' = [made EXCEPT ![i] = @ + Cardinality(E \ member)]
  /\ task' = [task EXCEPT ![i][c] = [NoTask EXCEPT !.pc = "failed"]]
  /\ UNCHANGED <<input, suppressed, page, current, shown, run, doubled, strays>>

Next ==
  \/ Start
  \/ \E i \in Imports :
       \/ Send(i) \/ Fail(i) \/ Succeed(i)
       \/ \E c \in Chunks : Read(i, c) \/ Count(i, c) \/ Write(i, c) \/ Answer(i, c) \/ Break(i, c)

Spec == Init /\ [][Next]_vars

-----------------------------------------------------------------------------
(* Properties *)

Tokens == FlattenSeq(input.chunks)

\* An import that is reported to have succeeded has looked at every token of its
\* input; what it calls added are the memberships it has made; each token is in
\* one of its numbers, but one that others wrote meanwhile is in none and one
\* that is left out for two or three reasons in as many; and every address is on
\* the list, suppressed, was left out for the capacity, or is on another list and
\* the import was asked to leave those out.
ReportAddsUp ==
  \A i \in Imports : run[i].state = "done" =>
    LET r == run[i].report  left == UNION {task[i][c].full : c \in Chunks} IN
    /\ r.processed = Len(Tokens) /\ r.batches = Len(input.chunks)
    /\ r.added = made[i]
    /\ r.processed = r.added + r.invalid + r.duplicate + r.suppressed + r.inList + r.anywhere + r.full + doubled[i]
    /\ \A e \in ToSet(Tokens) \ {Invalid} :
         e \in member \cup suppressed \cup left \/ (input.global /\ e \in input.elsewhere)
    /\ r.full = Cardinality(left)

\* The page shows the progress of the import it is about, unless chunks of a
\* failed one were under way when the operator started it again.
ShowsItsImport == page # "idle" => shown = current \/ strays

\* The chunks under way at once count the same free places: a list may outgrow
\* its size by what one of them fewer may bring, but by no more.
OverrunBounded ==
  ~strays => Cardinality(member) <= Max({Size * Concurrency, 1})
=============================================================================
