------------------------------- MODULE Tracking -------------------------------
(***************************************************************************)
(* Opens and clicks of one campaign's mails.  A request looks for an event *)
(* of the recipient, writes one, and then counts the recipient if it found *)
(* none: three statements of the database, without a transaction.          *)
(***************************************************************************)
EXTENDS Integers, FiniteSetsExt

CONSTANTS
  Recipients, \* those whose mail is out
  Requests,   \* requests that may be served at once
  MaxEvents   \* bound: requests altogether

Kinds == {"open", "click"}
Numbers == 0..MaxEvents

VARIABLES
  expired,    \* kinds of token: 7 days for an open, 60 for a click
  events,     \* rows of OpenEvent and ClickEvent
  total,      \* totalOpened and totalClicked
  req,        \* requests: [pc, kind, who, seen]
  asked,      \* how many requests there were
  overlapped, \* history: kinds of which a recipient had two requests at once
  cut         \* history: kinds of which a request did not come to its end

vars == <<expired, events, total, req, asked, overlapped, cut>>

Idle == [pc |-> "idle", kind |-> "open", who |-> 0, seen |-> FALSE]

TrackingAssumption == IsFiniteSet(Recipients) /\ IsFiniteSet(Requests)

TypeOK ==
  /\ expired \subseteq Kinds /\ overlapped \subseteq Kinds /\ cut \subseteq Kinds
  /\ events \in [Kinds -> [Recipients -> Numbers]] /\ total \in [Kinds -> Numbers]
  /\ req \in [Requests -> {Idle} \cup [pc : {"find", "create", "count"}, kind : Kinds,
                                       who : Recipients, seen : BOOLEAN]]
  /\ asked \in Numbers

Init ==
  /\ events = [k \in Kinds |-> [w \in Recipients |-> 0]] /\ total = [k \in Kinds |-> 0]
  /\ req = [r \in Requests |-> Idle] /\ asked = 0
  /\ expired = {} /\ overlapped = {} /\ cut = {}

-----------------------------------------------------------------------------
Under(r, k) == req[r] # Idle /\ req[r].kind = k
Goes(r, record) == req' = [req EXCEPT ![r] = record]

Expire(k) ==
  /\ expired' = expired \cup {k}
  /\ UNCHANGED <<events, total, req, asked, overlapped, cut>>

\* The pixel is fetched, or a link is followed; an expired token is answered
\* and forgotten.
Ask(r, k, w) ==
  /\ req[r] = Idle /\ k \notin expired
  /\ asked < MaxEvents /\ asked' = asked + 1
  /\ Goes(r, [pc |-> "find", kind |-> k, who |-> w, seen |-> FALSE])
  /\ overlapped' = overlapped \cup {j \in {k} : \E s \in Requests : Under(s, j) /\ req[s].who = w}
  /\ UNCHANGED <<expired, events, total, cut>>

Find(r) ==
  /\ req[r].pc = "find"
  /\ Goes(r, [req[r] EXCEPT !.pc = "create", !.seen = events[req[r].kind][req[r].who] > 0])
  /\ UNCHANGED <<expired, events, total, asked, overlapped, cut>>

Create(r) ==
  /\ req[r].pc = "create"
  /\ events' = [events EXCEPT ![req[r].kind][req[r].who] = @ + 1]
  /\ Goes(r, [req[r] EXCEPT !.pc = "count"])
  /\ UNCHANGED <<expired, total, asked, overlapped, cut>>

\* Faulty variant: every event is counted.
CountEvents(r) ==
  /\ req[r].pc = "count" /\ Goes(r, Idle)
  /\ total' = [total EXCEPT ![req[r].kind] = @ + 1]
  /\ UNCHANGED <<expired, events, asked, overlapped, cut>>

Count(r) ==
  /\ req[r].pc = "count" /\ Goes(r, Idle)
  /\ total' = IF req[r].seen THEN total ELSE [total EXCEPT ![req[r].kind] = @ + 1]
  /\ UNCHANGED <<expired, events, asked, overlapped, cut>>

\* The process dies, or the database does not answer.
Cut(r) ==
  /\ req[r] # Idle /\ Goes(r, Idle) /\ cut' = cut \cup {req[r].kind}
  /\ UNCHANGED <<expired, events, total, asked, overlapped>>

Next ==
  \/ \E k \in Kinds : Expire(k)
  \/ \E r \in Requests :
       \/ \E k \in Kinds, w \in Recipients : Ask(r, k, w)
       \/ Find(r) \/ Create(r) \/ Count(r) \/ Cut(r)

Spec == Init /\ [][Next]_vars

-----------------------------------------------------------------------------
(* Properties *)

Reached(k) == {w \in Recipients : events[k][w] > 0}
Counting(k) == {r \in Requests : req[r].pc = "count" /\ Under(r, k) /\ ~req[r].seen}
Counted(k) == total[k] + Cardinality(Counting(k))

\* The totals never exceed the events.
TotalsWithinEvents == \A k \in Kinds : Counted(k) <= MapThenSumSet(LAMBDA w : events[k][w], Recipients)

\* They fall short of the recipients who were reached only by requests that are
\* about to count or were cut off, and exceed them only when a recipient had two
\* requests at once.
TotalsFitReached ==
  \A k \in Kinds : /\ k \notin cut => Counted(k) >= Cardinality(Reached(k))
                   /\ k \notin overlapped => Counted(k) <= Cardinality(Reached(k))
=============================================================================
