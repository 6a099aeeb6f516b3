------------------------------ MODULE LiveSend ------------------------------
(***************************************************************************)
(* The page that creates a campaign, starts it and follows it.  It listens *)
(* to a stream of events: once a second the server reads the campaign and  *)
(* its queues and sends what it has found, each time on its own, so that a *)
(* slow reading may be overtaken.  Lookups fail, connections break, answers*)
(* get lost; the browser connects again whenever a stream ends, unless the *)
(* request for a new one is refused.                                       *)
(***************************************************************************)
EXTENDS Integers, Sequences, FiniteSets

CONSTANTS
  Campaigns,    \* 1..n, in the order they are created
  MaxSent,      \* bound: mails of a campaign
  MaxReadings,  \* bound: readings and events under way at once
  MaxFaults     \* bound: lost answers and broken connections

None == 0
Final == {"completed", "failed", "canceled", "partially_completed"}
Statuses == {"none", "pending", "running", "paused", "deleted"} \cup Final

VARIABLES
  row,       \* [status, sent] of the campaign that is followed; others go on unseen
  made,      \* campaigns created
  call,      \* what the page waits for: [kind, of, pc], or Rest
  id, live,  \* the page: its campaign; what it shows: [of, status, sent], `of' None at first
  source,    \* its EventSource: none, wanted, open, closed, refused
  told,      \* the status in the last `done'
  wire,      \* events on their way to the page
  stream,    \* the server's end of the connection is open
  readings,  \* [status, sent] of the readings under way for it
  faults,
  after      \* history: the campaign has changed since its final status was told

vars == <<row, made, call, id, live, source, told, wire, stream, readings, faults, after>>
Page == <<id, live, source, told>>
Stream == <<wire, stream, readings>>
Rest == [kind |-> "none", of |-> None, pc |-> "idle"]
NoLive == [of |-> None, status |-> "idle", sent |-> 0]
NoRow == [status |-> "none", sent |-> 0]

TypeOK ==
  /\ row.status \in Statuses /\ row.sent \in 0..MaxSent
  /\ made \in 0..Cardinality(Campaigns)
  /\ id \in 0..made /\ live.of \in 0..made /\ live.status \in Statuses \cup {"idle"}
  /\ source \in {"none", "wanted", "open", "closed", "refused"}
  /\ (readings # {} => stream) /\ (stream => source \in {"open", "closed"})
  /\ Cardinality(readings) + Len(wire) <= MaxReadings + 1

Init ==
  /\ row = NoRow /\ made = 0 /\ call = Rest
  /\ id = None /\ live = NoLive /\ source = "none" /\ told = "none"
  /\ wire = <<>> /\ stream = FALSE /\ readings = {}
  /\ faults = 0 /\ after = FALSE

\* A reading of a stream that is closed comes to nothing.
Closes == stream' = FALSE /\ readings' = {}
Fault == faults < MaxFaults /\ faults' = faults + 1

-----------------------------------------------------------------------------
(* Create and start *)

\* The button is off while an action waits; bootstrap offers what is needed.
Click ==
  /\ call = Rest /\ made < Cardinality(Campaigns)
  /\ call' = [kind |-> "create", of |-> None, pc |-> "create"]
  /\ UNCHANGED <<row, made, Page, Stream, faults, after>>

Create ==
  /\ call.pc = "create"
  /\ \/ /\ made' = made + 1 /\ call' = [call EXCEPT !.of = made + 1, !.pc = "start"]
        /\ UNCHANGED faults
     \/ Fault /\ call' = Rest /\ UNCHANGED made
  /\ UNCHANGED <<row, Page, Stream, after>>

\* The start is carried out or refused.  The page takes a lost answer for a
\* failure and forgets the campaign it has created: the next click makes another.
StartCampaign ==
  /\ call.pc = "start" /\ call' = Rest
  /\ \/ /\ id' = call.of /\ row' = [status |-> "running", sent |-> 0]
        /\ source' = "wanted" /\ wire' = <<>> /\ Closes /\ UNCHANGED faults
     \/ Fault /\ UNCHANGED <<row, id, source, Stream>>
  /\ UNCHANGED <<made, live, told, after>>

-----------------------------------------------------------------------------
(* Pause, resume and cancel *)

\* The buttons go by the status that is shown, which may be the one of the
\* campaign before.
Offered == (IF live.status = "running" THEN {"pause"} ELSE {})
       \cup (IF live.status = "paused" THEN {"resume"} ELSE {})
       \cup (IF live.status \in {"running", "paused", "pending"} THEN {"cancel"} ELSE {})
Act(kind) ==
  /\ call = Rest /\ id # None /\ kind \in Offered
  /\ call' = [kind |-> kind, of |-> id, pc |-> "act"]
  /\ UNCHANGED <<row, made, Page, Stream, faults, after>>

\* The server decides by the row; see CampaignControl.
Carried(kind, s) ==
  CASE kind = "pause" -> IF s = "running" THEN "paused" ELSE s
    [] kind = "resume" -> IF s = "paused" THEN "running" ELSE s
    [] kind = "cancel" -> IF s \in {"running", "paused", "pending"} THEN "canceled" ELSE s
Carry ==
  /\ call.pc = "act" /\ call' = Rest
  /\ row' = [row EXCEPT !.status = Carried(call.kind, @)]
  /\ UNCHANGED <<made, Page, Stream, faults, after>>

-----------------------------------------------------------------------------
(* The stream *)

\* Any answer but a stream ends the EventSource for good: the session is over
\* (401), or a proxy answers for the server.
Connect ==
  /\ source = "wanted"
  /\ \/ source' = "open" /\ wire' = <<>> /\ stream' = TRUE /\ UNCHANGED <<readings, faults>>
     \/ Fault /\ source' = "refused" /\ UNCHANGED Stream
  /\ UNCHANGED <<row, made, call, id, live, told, after>>

\* Every second, whatever has become of the reading before: the campaign's row
\* first, then all that goes with it.
Reading ==
  /\ stream /\ Cardinality(readings) + Len(wire) < MaxReadings
  /\ readings' = readings \cup {row}
  /\ UNCHANGED <<row, made, call, Page, wire, stream, faults, after>>

Event(name, r) == [event |-> name, of |-> id, status |-> r.status, sent |-> r.sent]

\* Faulty variant: the end is told before the last progress.
PushDoneFirst(r) ==
  /\ r \in readings
  /\ IF r.status \in Final
       THEN wire' = wire \o <<Event("done", r), Event("progress", r)>> /\ Closes
       ELSE wire' = Append(wire, Event("progress", r)) /\ readings' = readings \ {r} /\ UNCHANGED stream
  /\ UNCHANGED <<row, made, call, Page, faults, after>>

\* What was read is sent, and the end behind it.  A deleted campaign ends the
\* stream with an error.
Push(r) ==
  /\ r \in readings
  /\ IF r.status \in Final
       THEN wire' = wire \o <<Event("progress", r), Event("done", r)>> /\ Closes
     ELSE IF r.status = "deleted" THEN Closes /\ UNCHANGED wire
     ELSE wire' = Append(wire, Event("progress", r)) /\ readings' = readings \ {r} /\ UNCHANGED stream
  /\ UNCHANGED <<row, made, call, Page, faults, after>>

\* A failed lookup ends the stream; another failed query only this reading.
PushFails(r) ==
  /\ r \in readings /\ Fault
  /\ Closes \/ (readings' = readings \ {r} /\ UNCHANGED stream)
  /\ UNCHANGED <<row, made, call, Page, wire, after>>

-----------------------------------------------------------------------------
(* The page *)

\* Nobody listens to the event `error'.
Receive ==
  /\ source = "open" /\ wire # <<>>
  /\ LET e == Head(wire) IN
     IF e.event = "progress"
       THEN /\ wire' = Tail(wire) /\ live' = [of |-> e.of, status |-> e.status, sent |-> e.sent]
            /\ UNCHANGED <<source, told, after>>
       ELSE /\ wire' = <<>> /\ source' = "closed" /\ told' = e.status /\ UNCHANGED live
            /\ after' = (row # [status |-> e.status, sent |-> e.sent])
  /\ UNCHANGED <<row, made, call, id, stream, readings, faults>>

\* Faulty variant: the server goes on with a stream that has broken.
DisconnectLeaving ==
  /\ source = "open" /\ Fault /\ source' = "wanted" /\ wire' = <<>>
  /\ UNCHANGED <<row, made, call, id, live, told, after, stream, readings>>

\* The stream has ended without a `done', or breaks.
Disconnect ==
  /\ source = "open"
  /\ \/ wire = <<>> /\ ~stream /\ UNCHANGED faults
     \/ Fault
  /\ source' = "wanted" /\ wire' = <<>> /\ Closes
  /\ UNCHANGED <<row, made, call, id, live, told, after>>

-----------------------------------------------------------------------------
(* The campaign, and other operators *)

Work ==
  \E s \in Statuses, n \in 0..MaxSent :
    /\ \/ row.status = "running" /\ s = "running" /\ n = row.sent + 1
       \/ row.status = "running" /\ s \in {"completed", "partially_completed", "paused"} /\ n = row.sent
       \* a delivery that was under way when the campaign ended, and finalizes it again
       \/ row.status \in {"canceled", "partially_completed"} /\ s \in {row.status, "completed"} /\ n = row.sent + 1
       \/ row.status \in Final \cup {"paused"} /\ s = "deleted" /\ n = row.sent
    /\ row' = [status |-> s, sent |-> n]
    /\ after' = (after \/ source = "closed")
    /\ UNCHANGED <<made, call, Page, Stream, faults>>

Next ==
  \/ Click \/ Create \/ StartCampaign
  \/ (\E kind \in {"pause", "resume", "cancel"} : Act(kind)) \/ Carry
  \/ Connect \/ Reading \/ (\E r \in readings : Push(r) \/ PushFails(r))
  \/ Receive \/ Disconnect \/ Work

Spec == Init /\ [][Next]_vars

-----------------------------------------------------------------------------
(* Properties *)

\* A page that has stopped listening shows the end of its campaign, with the
\* numbers that were read with it, unless the campaign went on behind its end:
\* neither a slow reading nor a broken connection leaves an older one there.
LiveShowsEnd ==
  source = "closed" =>
    /\ live.of = id /\ live.status = told /\ told \in Final
    /\ ~after => live.status = row.status /\ live.sent = row.sent
=============================================================================
