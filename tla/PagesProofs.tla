--------------------------- MODULE PagesProofs ---------------------------
(***************************************************************************)
(* Proofs about the pages of the panel: the page that sends, the tables    *)
(* and the editor of templates show what the database holds, for every     *)
(* value of their constants.                                               *)
(***************************************************************************)
EXTENDS PanelParts, FiniteSetTheorems, WellFoundedInduction, TLAPS

\* The finite sets of a module are those of this one.
LEMMA EditorFinite == \A S : Editor!IsFiniteSet(S) <=> IsFiniteSet(S)
BY DEF Editor!IsFiniteSet, IsFiniteSet

-----------------------------------------------------------------------------
(* Page that sends *)

CampaignRows == [status : Live!Statuses, sent : Nat]
LiveEvents == [event : {"progress", "done"}, of : {id}, status : Live!Statuses, sent : Nat]
Shown(e) == [of |-> e.of, status |-> e.status, sent |-> e.sent]

\* A `done' on the wire is its last event and tells a final status; what was read
\* with it comes right before, or is already shown.
Announced ==
  \A i \in 1..Len(wire) : wire[i].event = "done" =>
    /\ i = Len(wire) /\ wire[i].status \in Live!Final /\ ~stream
    /\ i > 1 => wire[i - 1].event = "progress" /\ Shown(wire[i - 1]) = Shown(wire[i])
    /\ i = 1 => live = Shown(wire[i])

LiveInv ==
  /\ crow \in CampaignRows /\ readings \subseteq CampaignRows /\ wire \in Seq(LiveEvents)
  /\ source # "open" => ~stream /\ wire = <<>>
  /\ ~stream => readings = {}
  /\ Announced
  /\ Live!LiveShowsEnd

\* What the page waits for.
LiveCall ==
  /\ call \in [kind : {"none", "create", "pause", "resume", "cancel"}, of : Nat, pc : {"idle", "create", "start", "act"}]
  /\ call.pc = "act" => call.kind \in {"pause", "resume", "cancel"}
  /\ id \in Nat /\ cmade \in Nat

LEMMA LiveInit == Live!Init => LiveInv /\ LiveCall
<1> SUFFICES ASSUME Live!Init PROVE LiveInv /\ LiveCall
  OBVIOUS
<1> USE DEF Live!Init
<1>1. LiveInv
  BY DEF LiveInv, CampaignRows, LiveEvents, Announced, Live!LiveShowsEnd, Live!NoRow, Live!Statuses
<1>2. LiveCall
  BY DEF LiveCall, Live!Rest, Live!None
<1>3. QED  BY <1>1, <1>2

LEMMA LiveCalls == LiveCall /\ [Live!Next]_Live!vars => LiveCall'
<1> SUFFICES ASSUME LiveCall, [Live!Next]_Live!vars PROVE LiveCall'
  OBVIOUS
<1> USE DEF LiveCall
<1>1. CASE Live!Click
  BY <1>1 DEF Live!Click, Live!Page, Live!None
<1>2. CASE Live!Create
  <2> DEFINE next == [call EXCEPT !.of = cmade + 1, !.pc = "start"]
  <2>1. cmade + 1 \in Nat /\ cmade' \in {cmade, cmade + 1} /\ id' = id /\ call' \in {next, Live!Rest}
    BY <1>2 DEF Live!Create, Live!Page
  <2>2. next \in [kind : {"none", "create", "pause", "resume", "cancel"}, of : Nat, pc : {"idle", "create", "start", "act"}]
        /\ next.pc = "start"
    BY <2>1
  <2> HIDE DEF next
  <2>3. QED  BY <2>1, <2>2 DEF Live!Rest, Live!None
<1>3. CASE Live!StartCampaign
  BY <1>3 DEF Live!StartCampaign, Live!Rest, Live!None
<1>4. ASSUME NEW kind \in {"pause", "resume", "cancel"}, Live!Act(kind) PROVE LiveCall'
  BY <1>4 DEF Live!Act, Live!Page
<1>5. CASE Live!Carry
  BY <1>5 DEF Live!Carry, Live!Rest, Live!None, Live!Page
<1>6. CASE UNCHANGED <<call, id, cmade>>
  BY <1>6
<1>7. QED
  BY <1>1, <1>2, <1>3, <1>4, <1>5, <1>6 DEF Live!Next, Live!vars, Live!Connect, Live!Reading, Live!Push, Live!PushFails,
     Live!Receive, Live!Disconnect, Live!Work, Live!Page

\* Nothing that the page or its stream keeps changes.
LEMMA LiveQuiet ==
  ASSUME LiveInv, UNCHANGED <<crow, Live!Page, wire, stream, after>>, readings' = readings
  PROVE  LiveInv'
BY DEF LiveInv, LiveEvents, Announced, Live!LiveShowsEnd, Live!Page

LEMMA LiveStart ==
  ASSUME LiveInv, Live!StartCampaign
  PROVE  LiveInv'
<1>1. CASE UNCHANGED <<crow, id, source, Live!Stream>>
  BY <1>1, LiveQuiet DEF Live!StartCampaign, Live!Stream, Live!Page
<1>2. CASE crow' = [status |-> "running", sent |-> 0] /\ source' = "wanted" /\ wire' = <<>> /\ Live!Closes
  BY <1>2 DEF LiveInv, CampaignRows, LiveEvents, Announced, Live!LiveShowsEnd, Live!Closes, Live!Statuses
<1>3. QED  BY <1>1, <1>2 DEF Live!StartCampaign

\* An action leaves a campaign that has ended as it is.
LEMMA LiveCarry ==
  ASSUME LiveInv, LiveCall, Live!Carry
  PROVE  LiveInv'
<1> DEFINE to == Live!Carried(call.kind, crow.status)
           next == [crow EXCEPT !.status = to]
<1>1. crow \in CampaignRows /\ call.kind \in {"pause", "resume", "cancel"} /\ crow' = next
  BY DEF LiveInv, LiveCall, Live!Carry
<1>2. to \in Live!Statuses /\ (crow.status \in Live!Final => to = crow.status)
  BY <1>1 DEF Live!Carried, CampaignRows, Live!Statuses, Live!Final
<1> HIDE DEF to
<1>3. next \in CampaignRows /\ next.status = to /\ next.sent = crow.sent
  BY <1>1, <1>2 DEF CampaignRows
<1>4. /\ crow' \in CampaignRows
      /\ crow.status \in Live!Final => crow'.status = crow.status /\ crow'.sent = crow.sent
  BY <1>1, <1>2, <1>3
<1>5. UNCHANGED <<Live!Page, wire, stream, readings, after>>
  BY DEF Live!Carry, Live!Stream
<1>6. QED
  BY <1>4, <1>5 DEF LiveInv, LiveEvents, Announced, Live!LiveShowsEnd, Live!Page

LEMMA LiveConnect ==
  ASSUME LiveInv, Live!Connect
  PROVE  LiveInv'
<1>1. UNCHANGED <<crow, id, live, told, after>> /\ source = "wanted"
  BY DEF Live!Connect
<1>2. CASE source' = "open" /\ stream' = TRUE /\ wire' = <<>> /\ UNCHANGED readings
  BY <1>1, <1>2 DEF LiveInv, LiveEvents, Announced, Live!LiveShowsEnd
<1>3. CASE source' = "refused" /\ UNCHANGED <<wire, stream, readings>>
  BY <1>1, <1>3 DEF LiveInv, LiveEvents, Announced, Live!LiveShowsEnd
<1>4. QED  BY <1>2, <1>3 DEF Live!Connect, Live!Stream

LEMMA LiveReading ==
  ASSUME LiveInv, Live!Reading
  PROVE  LiveInv'
BY DEF LiveInv, Live!Reading, LiveEvents, Announced, Live!LiveShowsEnd, Live!Page

LEMMA LivePush ==
  ASSUME LiveInv, NEW r \in readings, Live!Push(r)
  PROVE  LiveInv'
<1> USE DEF LiveInv
<1>1. stream /\ source = "open" /\ r \in CampaignRows
  OBVIOUS
<1>2. \A i \in 1..Len(wire) : wire[i] \in LiveEvents /\ wire[i].event = "progress"
  <2> SUFFICES ASSUME NEW i \in 1..Len(wire) PROVE wire[i] \in LiveEvents /\ wire[i].event = "progress"
    OBVIOUS
  <2>1. wire[i] \in LiveEvents
    OBVIOUS
  <2>2. wire[i].event # "done"
    BY <1>1 DEF Announced
  <2>3. QED  BY <2>1, <2>2 DEF LiveEvents
<1>3. UNCHANGED <<crow, id, live, source, told, after>>
  BY DEF Live!Push, Live!Page
<1> DEFINE read == Live!Event("progress", r)
           done == Live!Event("done", r)
<1>4. /\ read \in LiveEvents /\ read.event = "progress"
      /\ done \in LiveEvents /\ done.event = "done" /\ done.status = r.status /\ Shown(read) = Shown(done)
  BY <1>1 DEF LiveEvents, Live!Event, Shown, CampaignRows
<1>5. LiveEvents' = LiveEvents
  BY <1>3 DEF LiveEvents
<1>6. CASE r.status \in Live!Final
  <2>1. wire' = wire \o <<read, done>> /\ Live!Closes
    BY <1>6 DEF Live!Push
  <2> HIDE DEF read, done
  <2>2. /\ wire' \in Seq(LiveEvents) /\ Len(wire') = Len(wire) + 2
        /\ \A i \in 1..Len(wire) : wire'[i] = wire[i]
        /\ wire'[Len(wire) + 1] = read /\ wire'[Len(wire) + 2] = done /\ Len(wire) \in Nat
    BY <1>4, <2>1
  <2>3. Announced'
    BY <1>2, <1>4, <1>6, <2>1, <2>2 DEF Announced, Live!Closes
  <2>4. QED  BY <1>1, <1>3, <1>5, <2>1, <2>2, <2>3 DEF Live!Closes, Live!LiveShowsEnd
<1>7. CASE r.status = "deleted"
  <2>1. Live!Closes /\ UNCHANGED wire
    BY <1>7 DEF Live!Push, Live!Final
  <2>2. Announced'
    BY <1>2, <2>1 DEF Announced
  <2>3. QED  BY <1>1, <1>3, <1>5, <2>1, <2>2 DEF Live!Closes, Live!LiveShowsEnd
<1>8. CASE r.status \notin Live!Final /\ r.status # "deleted"
  <2>1. wire' = Append(wire, read) /\ readings' = readings \ {r} /\ UNCHANGED stream
    BY <1>8 DEF Live!Push
  <2> HIDE DEF read
  <2>2. /\ wire' \in Seq(LiveEvents) /\ Len(wire') = Len(wire) + 1
        /\ \A i \in 1..Len(wire) : wire'[i] = wire[i]
        /\ wire'[Len(wire) + 1] = read /\ Len(wire) \in Nat
    BY <1>4, <2>1
  <2>3. Announced'
    BY <1>2, <1>4, <2>2 DEF Announced
  <2>4. QED  BY <1>1, <1>3, <1>5, <2>1, <2>2, <2>3 DEF Live!LiveShowsEnd
<1>9. QED  BY <1>6, <1>7, <1>8

LEMMA LivePushFails ==
  ASSUME LiveInv, NEW r \in readings, Live!PushFails(r)
  PROVE  LiveInv'
BY DEF LiveInv, Live!PushFails, Live!Closes, LiveEvents, Announced, Live!LiveShowsEnd, Live!Page

LEMMA LiveReceive ==
  ASSUME LiveInv, Live!Receive
  PROVE  LiveInv'
<1> USE DEF LiveInv
<1> DEFINE e == Head(wire)
<1>1. /\ source = "open" /\ wire # <<>> /\ e = wire[1] /\ e \in LiveEvents /\ Len(wire) \in Nat \ {0}
      /\ UNCHANGED <<crow, id, stream, readings>>
  BY DEF Live!Receive
<1>2. CASE e.event = "progress"
  <2>1. wire' = Tail(wire) /\ live' = Shown(wire[1]) /\ UNCHANGED <<source, told, after>>
    BY <1>1, <1>2 DEF Live!Receive, Shown
  <2>2. /\ wire' \in Seq(LiveEvents) /\ Len(wire') = Len(wire) - 1
        /\ \A i \in 1..Len(wire') : wire'[i] = wire[i + 1]
    BY <1>1, <2>1
  <2>3. Announced'
    <3> SUFFICES ASSUME NEW i \in 1..Len(wire'), wire'[i].event = "done"
                 PROVE  /\ i = Len(wire') /\ wire'[i].status \in Live!Final /\ ~stream'
                        /\ i > 1 => wire'[i - 1].event = "progress" /\ Shown(wire'[i - 1]) = Shown(wire'[i])
                        /\ i = 1 => live' = Shown(wire'[i])
      BY DEF Announced, Shown
    <3>1. i + 1 \in 1..Len(wire) /\ wire'[i] = wire[i + 1] /\ i \in Nat
      BY <1>1, <2>2
    <3>2. /\ i + 1 = Len(wire) /\ wire[i + 1].status \in Live!Final /\ ~stream
          /\ wire[i].event = "progress" /\ Shown(wire[i]) = Shown(wire[i + 1])
      BY <3>1 DEF Announced
    <3>3. i > 1 => wire'[i - 1] = wire[i]
      BY <2>2, <3>1
    <3>4. QED  BY <1>1, <2>1, <2>2, <3>1, <3>2, <3>3
  <2>4. LiveEvents' = LiveEvents
    BY <1>1 DEF LiveEvents
  <2>5. QED  BY <1>1, <2>1, <2>2, <2>3, <2>4 DEF Live!LiveShowsEnd
<1>3. CASE e.event # "progress"
  <2>1. /\ wire' = <<>> /\ source' = "closed" /\ told' = e.status /\ UNCHANGED live
        /\ after' = (crow # [status |-> e.status, sent |-> e.sent])
    BY <1>3 DEF Live!Receive
  <2>2. e.event = "done" /\ e.of = id
    BY <1>1, <1>3 DEF LiveEvents
  <2>3. live = Shown(e) /\ e.status \in Live!Final /\ ~stream
    BY <1>1, <2>2 DEF Announced
  <2>4. live.of = id /\ live.status = e.status /\ live.sent = e.sent
    BY <2>2, <2>3 DEF Shown
  <2>5. after' = (crow # [status |-> e.status, sent |-> e.sent])
    BY <2>1
  <2>6. ~after' => crow.status = e.status /\ crow.sent = e.sent
    <3>1. ~after' => crow = [status |-> e.status, sent |-> e.sent]
      BY Zenon, <2>5
    <3>2. QED  BY <3>1
  <2> HIDE DEF e
  <2>7. Live!LiveShowsEnd'
    BY Zenon, <1>1, <2>1, <2>3, <2>4, <2>6 DEF Live!LiveShowsEnd
  <2>8. QED  BY <1>1, <2>1, <2>3, <2>7 DEF Announced, LiveEvents
<1>4. QED  BY <1>2, <1>3

LEMMA LiveDisconnect ==
  ASSUME LiveInv, Live!Disconnect
  PROVE  LiveInv'
BY DEF LiveInv, Live!Disconnect, Live!Closes, LiveEvents, Announced, Live!LiveShowsEnd

LEMMA LiveWork ==
  ASSUME LiveInv, Live!Work
  PROVE  LiveInv'
<1>1. crow' \in CampaignRows
  BY DEF Live!Work, CampaignRows
<1>2. UNCHANGED <<Live!Page, wire, stream, readings>> /\ (source = "closed" => after')
  BY DEF Live!Work, Live!Stream
<1>3. QED
  BY <1>1, <1>2 DEF LiveInv, LiveEvents, Announced, Live!LiveShowsEnd, Live!Page

\* A page that has stopped listening shows the end of its campaign, and the
\* numbers of it unless the campaign went on, in whatever order readings arrive.
THEOREM LiveShowsEndAlways == Live!Spec => []Live!LiveShowsEnd
<1>1. Live!Init => LiveInv /\ LiveCall
  BY LiveInit
<1>2. LiveInv /\ LiveCall /\ [Live!Next]_Live!vars => LiveInv' /\ LiveCall'
  <2> SUFFICES ASSUME LiveInv, LiveCall, [Live!Next]_Live!vars PROVE LiveInv'
    BY LiveCalls
  <2>1. CASE UNCHANGED Live!vars \/ Live!Click \/ Live!Create \/ (\E kind \in {"pause", "resume", "cancel"} : Live!Act(kind))
    <3>1. UNCHANGED <<crow, Live!Page, wire, stream, after>> /\ readings' = readings
      BY <2>1 DEF Live!vars, Live!Click, Live!Create, Live!Act, Live!Page, Live!Stream
    <3>2. QED  BY <3>1, LiveQuiet
  <2>2. QED
    BY <2>1, LiveStart, LiveCarry, LiveConnect, LiveReading, LivePush, LivePushFails, LiveReceive, LiveDisconnect,
       LiveWork DEF Live!Next
<1>3. LiveInv => Live!LiveShowsEnd
  BY DEF LiveInv
<1>4. QED  BY <1>1, <1>2, <1>3, PTL DEF Live!Spec

-----------------------------------------------------------------------------
(* Tables *)

CallRecords == [kind : {"query", "act"}, of : Table!Filters, row : TableRows \cup {0}, value : Table!Values,
                pc : {"out", "back"}, rows : Table!Tables, stale : BOOLEAN]
BulkRecords == [kind : Table!Bulks, pc : {"idle", "go"}, chosen : SUBSET TableRows, todo : SUBSET TableRows, hit : SUBSET TableRows,
                missing : SUBSET TableRows, of : Table!Filters]
IsAct(c) == c.kind = "act" /\ c.pc = "back"

TableTypes ==
  /\ tpage \in TableKinds /\ db \in [TableRows -> Table!Values]
  /\ control \in Table!Filters /\ table \in Table!Tables /\ sel \subseteq TableRows
  /\ calls \subseteq CallRecords /\ bulk \in BulkRecords
  /\ \A c \in calls : c.kind = "act" => c.row \in TableRows
  /\ tpage.patches => /\ control = "all" /\ \A c \in calls : c.of = "all"
                      /\ bulk.pc = "go" => bulk.kind.on # "text" /\ bulk.of = "all"

\* An operation accounts for the rows chosen.
BulkAccounts ==
  bulk.pc = "go" /\ bulk.kind.on # "filter" =>
    /\ bulk.chosen = bulk.todo \cup bulk.hit \cup bulk.missing
    /\ bulk.hit \subseteq bulk.chosen

\* An answer that is not old says how things are.
CallTrue(c) ==
  c.pc = "back" /\ ~c.stale =>
    /\ c.kind = "query" => c.rows = Table!Listing(c.of)
    /\ c.kind = "act" => db[c.row] = c.value

\* Where answers change their rows, nothing comes back that is gone, and
\* what is there is in every table.
CallKeeps(c) ==
  tpage.patches =>
    /\ c.kind = "act" \/ c.pc = "back" => \A x \in TableRows : db[x] # "gone" => x \in DOMAIN c.rows
    /\ IsAct(c) /\ c.value = "gone" => db[c.row] = "gone"
RowsRemain == tpage.patches => \A x \in TableRows : db[x] # "gone" => x \in DOMAIN table
AnswersHold == \A c \in calls : CallTrue(c) /\ CallKeeps(c)

\* The row is shown as it is.
Agrees(x) ==
  /\ x \in DOMAIN table <=> x \in Table!Match(control)
  /\ x \in DOMAIN table => table[x] = db[x]
\* What is shown is true, row by row, unless an answer is awaited.
TableHolds ==
  \/ astray \/ bulk.pc = "go" \/ (\E c \in calls : c.kind = "query")
  \/ \A x \in TableRows : Agrees(x) \/ \E c \in calls : IsAct(c) /\ c.row = x

TableInv == TableTypes /\ BulkAccounts /\ AnswersHold /\ RowsRemain /\ TableHolds

LEMMA TableListing ==
  ASSUME TableTypes, NEW f \in Table!Filters
  PROVE  /\ Table!Match(f) \subseteq TableRows /\ Table!Listing(f) \in Table!Tables
         /\ DOMAIN Table!Listing(f) = Table!Match(f) /\ \A x \in Table!Match(f) : Table!Listing(f)[x] = db[x]
<1>1. Table!Match(f) \subseteq TableRows /\ \A x \in Table!Match(f) : db[x] \in {"on", "off"}
  BY DEF TableTypes, Table!Match, Table!Values
<1>2. Table!Listing(f) \in [Table!Match(f) -> {"on", "off"}]
  BY <1>1 DEF Table!Listing
<1>3. Table!Listing(f) \in Table!Tables
  BY <1>1, <1>2 DEF Table!Tables
<1>4. QED  BY <1>1, <1>3 DEF Table!Listing

LEMMA TableQuery ==
  ASSUME NEW f \in Table!Filters
  PROVE  /\ Table!Query(f) \in CallRecords /\ Table!Query(f).kind = "query" /\ Table!Query(f).pc = "out"
         /\ Table!Empty \in Table!Tables
<1>1. Table!Empty \in [{} -> {"on", "off"}]
  BY DEF Table!Empty
<1>2. Table!Empty \in Table!Tables
  BY <1>1 DEF Table!Tables
<1>3. QED  BY <1>2 DEF Table!Query, CallRecords, Table!Values

\* The same request, whatever its answer is worth.
SameCall(c, d) ==
  d.kind = c.kind /\ d.of = c.of /\ d.row = c.row /\ d.value = c.value /\ d.pc = c.pc /\ d.rows = c.rows

\* What is read before a change is marked, and nothing else happens to it.
LEMMA TableStale ==
  ASSUME NEW S \in SUBSET CallRecords, NEW X
  PROVE  /\ Table!Stale(S, X) \subseteq CallRecords
         /\ \A d \in Table!Stale(S, X) : \E c \in S :
              SameCall(c, d) /\ (~d.stale => ~c.stale /\ (c.pc = "back" => c.kind # "query" /\ c.row \notin X))
         /\ \A c \in S : \E d \in Table!Stale(S, X) : SameCall(c, d)
<1> DEFINE old(c) == c.pc = "back" /\ (c.kind = "query" \/ c.row \in X)
           marked(c) == [c EXCEPT !.stale = @ \/ old(c)]
<1>1. Table!Stale(S, X) = {marked(c) : c \in S}
  BY DEF Table!Stale
<1>2. ASSUME NEW c \in S
      PROVE  marked(c) \in CallRecords /\ SameCall(c, marked(c)) /\ (~marked(c).stale => ~c.stale /\ ~old(c))
  <2> DEFINE next == c.stale \/ old(c)
  <2>1. marked(c) = [c EXCEPT !.stale = next] /\ next \in BOOLEAN /\ c \in CallRecords
    BY DEF CallRecords
  <2>2. ~next => ~c.stale /\ ~old(c)
    BY Zenon
  <2> HIDE DEF next, marked, old
  <2>3. marked(c) \in CallRecords /\ marked(c).stale = next /\ SameCall(c, marked(c))
    BY <2>1 DEF CallRecords, SameCall
  <2>4. QED  BY Zenon, <2>2, <2>3
<1>3. \A c \in S : ~old(c) => (c.pc = "back" => c.kind # "query" /\ c.row \notin X)
  OBVIOUS
<1> HIDE DEF marked, old
<1>4. Table!Stale(S, X) \subseteq CallRecords
  BY <1>1, <1>2
<1>5. ASSUME NEW d \in Table!Stale(S, X)
      PROVE  \E c \in S :
               SameCall(c, d) /\ (~d.stale => ~c.stale /\ (c.pc = "back" => c.kind # "query" /\ c.row \notin X))
  <2>1. PICK c \in S : d = marked(c)
    BY <1>1
  <2>2. QED  BY Zenon, <2>1, <1>2, <1>3
<1>6. ASSUME NEW c \in S PROVE \E d \in Table!Stale(S, X) : SameCall(c, d)
  BY Zenon, <1>1, <1>2
<1>7. QED  BY <1>4, <1>5, <1>6

LEMMA TableInit == ASSUME Table!TableAssumption PROVE Table!Init => TableInv
<1> SUFFICES ASSUME Table!Init PROVE TableInv
  OBVIOUS
<1> USE DEF Table!Init
<1>1. db \in [TableRows -> Table!Values] /\ "all" \in Table!Filters
  BY DEF Table!Values, Table!Filters
<1>2. Table!NoBulk \in BulkRecords /\ Table!NoBulk.pc = "idle"
  BY <1>1 DEF Table!NoBulk, BulkRecords, Table!Bulks, Table!Values, Table!Filters
<1>3. /\ Table!Match("all") \subseteq TableRows /\ Table!Listing("all") \in Table!Tables
      /\ DOMAIN Table!Listing("all") = Table!Match("all") /\ \A x \in Table!Match("all") : Table!Listing("all")[x] = db[x]
  <2>1. Table!Match("all") \subseteq TableRows /\ \A x \in Table!Match("all") : db[x] \in {"on", "off"}
    BY <1>1 DEF Table!Match, Table!Values
  <2>2. Table!Listing("all") \in [Table!Match("all") -> {"on", "off"}]
    BY <2>1 DEF Table!Listing
  <2>3. Table!Listing("all") \in Table!Tables
    BY <2>1, <2>2 DEF Table!Tables
  <2>4. QED  BY <2>1, <2>3 DEF Table!Listing
<1>4. TableTypes
  BY <1>1, <1>2, <1>3 DEF TableTypes
<1>5. BulkAccounts
  BY <1>2 DEF BulkAccounts
<1>6. AnswersHold
  BY DEF AnswersHold
<1>7. RowsRemain
  BY <1>3 DEF RowsRemain, Table!Match
<1>8. \A x \in TableRows : Agrees(x)
  BY <1>3 DEF Agrees
<1>9. QED  BY <1>4, <1>5, <1>6, <1>7, <1>8 DEF TableInv, TableHolds

\* After rows have changed the calls that are left are true.
LEMMA TableChange ==
  ASSUME TableInv, NEW X, NEW rest \in SUBSET calls, UNCHANGED tpage, db' \in [TableRows -> Table!Values],
         \A x \in TableRows : x \notin X => db'[x] = db[x],
         tpage.patches => \A x \in TableRows : db[x] = "gone" => db'[x] = "gone"
  PROVE  /\ Table!Stale(rest, X) \subseteq CallRecords
         /\ \A d \in Table!Stale(rest, X) : (d.kind = "act" => d.row \in TableRows) /\ CallTrue(d)' /\ CallKeeps(d)'
         /\ \A c \in rest : \E d \in Table!Stale(rest, X) : SameCall(c, d)
<1>1. rest \in SUBSET CallRecords /\ \A c \in rest : (c.kind = "act" => c.row \in TableRows) /\ CallTrue(c) /\ CallKeeps(c)
  BY DEF TableInv, TableTypes, AnswersHold
<1>2. /\ Table!Stale(rest, X) \subseteq CallRecords
      /\ \A c \in rest : \E d \in Table!Stale(rest, X) : SameCall(c, d)
  BY <1>1, TableStale
<1>3. ASSUME NEW d \in Table!Stale(rest, X)
      PROVE  (d.kind = "act" => d.row \in TableRows) /\ CallTrue(d)' /\ CallKeeps(d)'
  <2>1. PICK c \in rest :
          SameCall(c, d) /\ (~d.stale => ~c.stale /\ (c.pc = "back" => c.kind # "query" /\ c.row \notin X))
    BY <1>1, TableStale
  <2>2. (c.kind = "act" => c.row \in TableRows) /\ CallTrue(c) /\ CallKeeps(c)
    BY <1>1
  <2>3. d.kind = "act" => d.row \in TableRows
    BY <2>1, <2>2 DEF SameCall
  <2>4. CallTrue(d)'
    BY <2>1, <2>2 DEF SameCall, CallTrue
  <2>5. CallKeeps(d)'
    BY <2>1, <2>2 DEF SameCall, CallKeeps, IsAct
  <2>6. QED  BY <2>3, <2>4, <2>5
<1>4. QED  BY <1>2, <1>3

\* Where neither the rows nor the page change, the calls that stay are true.
LEMMA TableSame ==
  ASSUME TableInv, UNCHANGED <<tpage, db>>
  PROVE  \A c \in calls : CallTrue(c)' /\ CallKeeps(c)'
<1>1. \A f : Table!Listing(f)' = Table!Listing(f)
  BY DEF Table!Listing, Table!Match
<1>2. QED  BY <1>1 DEF TableInv, AnswersHold, CallTrue, CallKeeps, IsAct

\* A question that is asked.
LEMMA TableAsked ==
  ASSUME NEW f \in Table!Filters
  PROVE  CallTrue(Table!Query(f))' /\ CallKeeps(Table!Query(f))'
BY TableQuery DEF CallTrue, CallKeeps, IsAct

\* A page that asks is true, whatever changes on it otherwise.
LEMMA TableAsks ==
  ASSUME TableInv, NEW f \in Table!Filters, NEW more \in SUBSET {Table!Query(g) : g \in Table!Filters},
         UNCHANGED <<tpage, db, table>>, calls' = calls \cup {Table!Query(f)} \cup more,
         control' \in Table!Filters, tpage.patches => control' = "all" /\ f = "all" /\ more = {},
         sel' \subseteq TableRows, bulk' \in BulkRecords, BulkAccounts',
         (tpage.patches /\ bulk'.pc = "go") => bulk'.kind.on # "text" /\ bulk'.of = "all"
  PROVE  TableInv'
<1> USE DEF TableInv
<1>1. \A c \in calls' : c \in calls \/ \E g \in Table!Filters : c = Table!Query(g)
  OBVIOUS
<1>2. Table!Query(f).of = f
  BY DEF Table!Query
<1>3. TableTypes'
  BY <1>1, <1>2, TableQuery DEF TableTypes
<1>4. AnswersHold'
  BY <1>1, TableSame, TableAsked DEF AnswersHold
<1>5. RowsRemain'
  BY DEF RowsRemain
<1>6. TableHolds'
  BY TableQuery DEF TableHolds
<1>7. QED  BY <1>3, <1>4, <1>5, <1>6

LEMMA TableApply ==
  ASSUME Table!TableAssumption, TableInv, NEW f \in Table!Filters, Table!Apply(f)
  PROVE  TableInv'
<1> DEFINE more == IF tpage.twice THEN {Table!Query(control)} ELSE {}
<1>1. /\ tpage.filtered /\ control' = f /\ calls' = calls \cup {Table!Query(f)} \cup more
      /\ UNCHANGED <<tpage, db, table, sel, bulk>>
  BY DEF Table!Apply
<1>2. more \in SUBSET {Table!Query(g) : g \in Table!Filters} /\ ~tpage.patches
  BY <1>1 DEF TableInv, TableTypes, Table!TableAssumption
<1> HIDE DEF more
<1>3. sel' \subseteq TableRows /\ bulk' \in BulkRecords /\ BulkAccounts'
  BY <1>1 DEF TableInv, TableTypes, BulkAccounts
<1>4. QED  BY <1>1, <1>2, <1>3, TableAsks

LEMMA TableRefresh == ASSUME TableInv, Table!Refresh PROVE TableInv'
<1>1. calls' = calls \cup {Table!Query(control)} \cup {} /\ UNCHANGED <<tpage, db, table, sel, bulk, control>>
  BY DEF Table!Refresh, Table!View
<1>2. /\ control \in Table!Filters /\ sel' \subseteq TableRows /\ bulk' \in BulkRecords /\ BulkAccounts'
      /\ tpage.patches => control = "all" /\ (bulk'.pc = "go" => bulk'.kind.on # "text" /\ bulk'.of = "all")
  BY <1>1 DEF TableInv, TableTypes, BulkAccounts
<1>3. {} \in SUBSET {Table!Query(g) : g \in Table!Filters}
  OBVIOUS
<1>4. QED  BY <1>1, <1>2, <1>3, TableAsks

LEMMA TableRead ==
  ASSUME TableInv, NEW c \in calls, Table!Read(c)
  PROVE  TableInv'
<1> USE DEF TableInv
<1> DEFINE new == [c EXCEPT !.pc = "back", !.rows = Table!Listing(c.of)]
<1>1. c.kind = "query" /\ c.pc = "out" /\ calls' = (calls \ {c}) \cup {new} /\ UNCHANGED <<tpage, db, control, table, sel, bulk, astray>>
  BY DEF Table!Read, Table!View
<1>2. c \in CallRecords /\ c.of \in Table!Filters
  BY DEF TableTypes, CallRecords
<1>3. /\ Table!Match(c.of) \subseteq TableRows /\ Table!Listing(c.of) \in Table!Tables
      /\ DOMAIN Table!Listing(c.of) = Table!Match(c.of)
  BY <1>2, TableListing
<1>4. new \in CallRecords /\ new.kind = "query" /\ new.of = c.of /\ new.rows = Table!Listing(c.of)
  BY <1>1, <1>2, <1>3 DEF CallRecords
<1> HIDE DEF new
<1>5. PICK d : d = new
  OBVIOUS
<1>6. TableTypes' /\ BulkAccounts' /\ RowsRemain'
  BY <1>1, <1>4 DEF TableTypes, BulkAccounts, RowsRemain
<1>7. CallTrue(d)'
  BY <1>1, <1>4, <1>5 DEF CallTrue, Table!Listing, Table!Match
<1>8. CallKeeps(d)'
  <2>1. tpage.patches => c.of = "all"
    BY DEF TableTypes
  <2>2. UNCHANGED <<tpage, db>> /\ d.kind = "query" /\ d.rows = Table!Listing(c.of)
    BY <1>1, <1>4, <1>5
  <2>3. QED  BY <2>1, <2>2, <1>3 DEF CallKeeps, IsAct, Table!Match
<1>9. AnswersHold'
  BY <1>1, <1>7, <1>8, <1>5, TableSame DEF AnswersHold
<1>10. TableHolds'
  BY <1>1, <1>4 DEF TableHolds
<1>11. QED  BY <1>6, <1>9, <1>10

\* An answer that is neither old nor for another filter is how things are.
LEMMA TableDeliver ==
  ASSUME TableInv, NEW c \in calls, Table!Deliver(c)
  PROVE  TableInv'
<1> USE DEF TableInv
<1>1. /\ c.kind = "query" /\ c.pc = "back" /\ calls' = calls \ {c} /\ table' = c.rows
      /\ sel' \in {sel, sel \cap DOMAIN c.rows}
      /\ astray' = (c.stale \/ c.of # control) /\ UNCHANGED <<tpage, db, control, bulk>>
  BY DEF Table!Deliver, Table!Show
<1>2. c \in CallRecords /\ c.of \in Table!Filters /\ c.rows \in Table!Tables /\ CallTrue(c) /\ CallKeeps(c)
  BY DEF TableTypes, CallRecords, AnswersHold
<1>3. TableTypes' /\ BulkAccounts'
  BY <1>1, <1>2 DEF TableTypes, BulkAccounts
<1>4. RowsRemain'
  BY <1>1, <1>2 DEF RowsRemain, CallKeeps
<1>5. AnswersHold'
  BY <1>1, TableSame DEF AnswersHold
<1>6. TableHolds'
  <2>1. CASE astray'
    BY <2>1 DEF TableHolds
  <2>2. CASE ~astray'
    <3>1. ~c.stale /\ c.of = control
      BY Zenon, <1>1, <2>2
    <3>2. table' = Table!Listing(control)
      BY <1>1, <1>2, <3>1 DEF CallTrue
    <3>3. \A x \in TableRows : Agrees(x)'
      BY <1>1, <1>2, <3>1, <3>2, TableListing DEF Agrees, Table!Match
    <3>4. QED  BY <3>3 DEF TableHolds
  <2>3. QED  BY <2>1, <2>2
<1>7. QED  BY <1>3, <1>4, <1>5, <1>6

LEMMA TableAct ==
  ASSUME TableInv, NEW x \in TableRows, NEW v \in Table!Values, Table!Act(x, v)
  PROVE  TableInv'
<1> USE DEF TableInv
<1> DEFINE new == [Table!Query(control) EXCEPT !.kind = "act", !.row = x, !.value = v, !.rows = table]
<1>1. calls' = calls \cup {new} /\ UNCHANGED <<tpage, db, control, table, sel, bulk, astray>>
  BY DEF Table!Act, Table!View
<1>2. Table!Query(control) \in CallRecords /\ Table!Query(control).pc = "out"
  BY TableQuery DEF TableTypes
<1>3. new \in CallRecords /\ new.kind = "act" /\ new.pc = "out" /\ new.row = x /\ new.rows = table /\ new.of = control
  BY <1>2 DEF CallRecords, TableTypes, Table!Query
<1> HIDE DEF new
<1>4. TableTypes' /\ BulkAccounts' /\ RowsRemain'
  BY <1>1, <1>3 DEF TableTypes, BulkAccounts, RowsRemain
<1>5. PICK d : d = new
  OBVIOUS
<1>6. CallTrue(d)' /\ CallKeeps(d)'
  BY <1>1, <1>3, <1>5 DEF CallTrue, CallKeeps, IsAct, RowsRemain
<1>7. AnswersHold'
  BY <1>1, <1>6, <1>5, TableSame DEF AnswersHold
<1>8. TableHolds'
  <2>1. \A y \in TableRows : Agrees(y) => Agrees(y)'
    BY <1>1 DEF Agrees, Table!Match
  <2>2. QED  BY <1>1, <2>1 DEF TableHolds
<1>9. QED  BY <1>4, <1>7, <1>8

\* Where only the selection, the clicks and an operation that awaits no answer
\* change, and the page may lose calls.
LEMMA TableQuiet ==
  ASSUME TableInv, UNCHANGED <<tpage, db, table, control>>, sel' \subseteq TableRows, calls' \subseteq calls,
         bulk' \in BulkRecords, BulkAccounts', (tpage.patches /\ bulk'.pc = "go") => bulk'.kind.on # "text" /\ bulk'.of = "all",
         \/ astray' \/ bulk'.pc = "go"
         \/ (astray => astray') /\ bulk.pc # "go" /\ \A c \in calls : c.kind = "query" \/ IsAct(c) => c \in calls'
  PROVE  TableInv'
<1> USE DEF TableInv
<1>1. TableTypes'
  BY DEF TableTypes
<1>2. AnswersHold' /\ RowsRemain'
  BY TableSame DEF AnswersHold, RowsRemain
<1>3. TableHolds'
  <2>1. \A x \in TableRows : Agrees(x) => Agrees(x)'
    BY DEF Agrees, Table!Match
  <2>2. CASE astray' \/ bulk'.pc = "go"
    BY <2>2 DEF TableHolds
  <2>3. CASE (astray => astray') /\ bulk.pc # "go" /\ \A c \in calls : c.kind = "query" \/ IsAct(c) => c \in calls'
    BY <2>1, <2>3 DEF TableHolds
  <2>4. QED  BY <2>2, <2>3
<1>4. QED  BY <1>1, <1>2, <1>3

LEMMA TableCarry ==
  ASSUME TableInv, NEW c \in calls, Table!Carry(c)
  PROVE  TableInv'
<1> USE DEF TableInv
<1>1. /\ c \in CallRecords /\ c.kind = "act" /\ c.pc = "out" /\ c.row \in TableRows /\ CallKeeps(c)
      /\ UNCHANGED <<tpage, control, table, sel, bulk, astray>>
  BY DEF Table!Carry, TableTypes, Table!View, AnswersHold
<1>2. CASE db[c.row] = "gone"
  <2>1. calls' = calls \ {c} /\ UNCHANGED db
    BY <1>2 DEF Table!Carry
  <2>2. /\ sel' \subseteq TableRows /\ bulk' \in BulkRecords /\ BulkAccounts'
        /\ tpage.patches => (bulk'.pc = "go" => bulk'.kind.on # "text" /\ bulk'.of = "all")
        /\ \A d \in calls : d.kind = "query" \/ IsAct(d) => d \in calls'
    BY <1>1, <2>1 DEF TableTypes, BulkAccounts, IsAct
  <2>3. QED  BY <1>1, <2>1, <2>2, TableQuiet
<1>3. CASE db[c.row] # "gone"
  <2> DEFINE new == [c EXCEPT !.pc = "back"]
             rest == calls \ {c}
             marked == Table!Stale(rest, {c.row})
  <2>1. db' = [db EXCEPT ![c.row] = c.value] /\ calls' = marked \cup {new}
    BY <1>3 DEF Table!Carry
  <2>2. /\ new \in CallRecords /\ new.kind = "act" /\ new.pc = "back" /\ new.row = c.row /\ new.value = c.value
        /\ new.rows = c.rows /\ new.of = c.of
    BY <1>1 DEF CallRecords
  <2>3. PICK d : d = new
    OBVIOUS
  <2> HIDE DEF new
  <2>4. /\ db' \in [TableRows -> Table!Values] /\ db'[c.row] = c.value
        /\ \A x \in TableRows : x \notin {c.row} => db'[x] = db[x]
        /\ \A x \in TableRows : db[x] = "gone" => db'[x] = "gone"
    BY <1>1, <1>3, <2>1 DEF TableTypes, CallRecords
  <2>5. /\ marked \subseteq CallRecords
        /\ \A e \in marked : (e.kind = "act" => e.row \in TableRows) /\ CallTrue(e)' /\ CallKeeps(e)'
        /\ \A e \in rest : \E f \in marked : SameCall(e, f)
    BY <1>1, <2>4, TableChange
  <2>6. \A e \in marked : \E f \in rest : e.of = f.of
    BY TableStale, rest \in SUBSET CallRecords DEF TableTypes, SameCall
  <2> HIDE DEF marked
  <2>7. TableTypes'
    BY <1>1, <2>1, <2>2, <2>4, <2>5, <2>6 DEF TableTypes
  <2>8. BulkAccounts' /\ RowsRemain'
    BY <1>1, <2>4 DEF BulkAccounts, RowsRemain
  <2>9. CallTrue(d)'
    BY <2>2, <2>4, <2>3 DEF CallTrue
  <2>10. CallKeeps(d)'
    <3>1. tpage'.patches => \A x \in TableRows : db'[x] # "gone" => x \in DOMAIN d.rows
      BY <1>1, <2>2, <2>4, <2>3 DEF CallKeeps
    <3>2. d.value = "gone" => db'[d.row] = "gone"
      BY <2>2, <2>4, <2>3
    <3>3. QED  BY <3>1, <3>2 DEF CallKeeps
  <2>11. AnswersHold'
    BY <2>1, <2>5, <2>9, <2>10, <2>3 DEF AnswersHold
  <2>12. TableHolds'
    <3>1. IsAct(new) /\ new \in calls' /\ new.row = c.row
      BY <2>1, <2>2 DEF IsAct
    <3>2. ASSUME NEW x \in TableRows, x # c.row, Agrees(x) PROVE Agrees(x)'
      BY <1>1, <2>4, <3>2 DEF Agrees, Table!Match
    <3>3. ASSUME NEW e \in calls, e.kind = "query" \/ IsAct(e)
          PROVE  \E f \in calls' : SameCall(e, f)
      <4>1. e \in rest
        BY <1>1, <3>3 DEF IsAct
      <4>2. QED  BY <2>1, <2>5, <4>1
    <3>4. CASE astray \/ bulk.pc = "go"
      BY <1>1, <3>4 DEF TableHolds
    <3>5. CASE \E e \in calls : e.kind = "query"
      BY <3>3, <3>5 DEF TableHolds, SameCall
    <3>6. CASE \A x \in TableRows : Agrees(x) \/ \E e \in calls : IsAct(e) /\ e.row = x
      <4>1. ASSUME NEW x \in TableRows PROVE Agrees(x)' \/ \E f \in calls' : IsAct(f) /\ f.row = x
        <5>1. CASE x = c.row
          BY <3>1, <5>1
        <5>2. CASE x # c.row /\ Agrees(x)
          BY <3>2, <5>2
        <5>3. CASE \E e \in calls : IsAct(e) /\ e.row = x
          BY <3>3, <5>3 DEF SameCall, IsAct
        <5>4. QED  BY <3>6, <5>1, <5>2, <5>3
      <4>2. QED  BY <4>1 DEF TableHolds
    <3>7. QED  BY <3>4, <3>5, <3>6 DEF TableHolds
  <2>13. QED  BY <2>7, <2>8, <2>11, <2>12
<1>4. QED  BY <1>2, <1>3

LEMMA TablePatched ==
  ASSUME NEW rows \in Table!Tables, NEW x \in TableRows, NEW v \in Table!Values
  PROVE  /\ Table!Patched(rows, x, v) \in Table!Tables
         /\ DOMAIN Table!Patched(rows, x, v) = IF v = "gone" THEN DOMAIN rows \ {x} ELSE DOMAIN rows
         /\ \A y \in DOMAIN Table!Patched(rows, x, v) : Table!Patched(rows, x, v)[y] = IF y = x THEN v ELSE rows[y]
<1> DEFINE D == IF v = "gone" THEN DOMAIN rows \ {x} ELSE DOMAIN rows
           f == [y \in D |-> IF y = x THEN v ELSE rows[y]]
<1>1. PICK S \in SUBSET TableRows : rows \in [S -> {"on", "off"}]
  BY DEF Table!Tables
<1>2. D \in SUBSET TableRows /\ \A y \in D : (IF y = x THEN v ELSE rows[y]) \in {"on", "off"}
  BY <1>1 DEF Table!Values
<1>3. f \in [D -> {"on", "off"}]
  BY <1>2
<1>4. Table!Patched(rows, x, v) = f
  BY DEF Table!Patched
<1> HIDE DEF D
<1>5. f \in Table!Tables
  BY <1>2, <1>3 DEF Table!Tables
<1>6. QED  BY <1>4, <1>5 DEF D

\* The row is patched where the answer is not old and the table is the one that
\* was shown; otherwise the table is asked for.
LEMMA TableAnswer ==
  ASSUME Table!TableAssumption, TableInv, NEW c \in calls, Table!Answer(c)
  PROVE  TableInv'
<1> USE DEF TableInv
<1>1. /\ c \in CallRecords /\ c.kind = "act" /\ c.pc = "back" /\ c.row \in TableRows /\ CallTrue(c) /\ CallKeeps(c)
      /\ UNCHANGED <<tpage, db, control, bulk>> /\ tpage.patches \in BOOLEAN
  BY DEF Table!Answer, TableTypes, AnswersHold, Table!TableAssumption
<1>2. CASE ~tpage.patches
  <2>1. calls' = (calls \ {c}) \cup {Table!Query(c.of)} /\ UNCHANGED <<table, sel, astray>> /\ c.of \in Table!Filters
    BY <1>1, <1>2 DEF Table!Answer, CallRecords
  <2>2. TableTypes' /\ BulkAccounts' /\ RowsRemain'
    BY <1>1, <1>2, <2>1, TableQuery DEF TableTypes, BulkAccounts, RowsRemain
  <2>3. AnswersHold'
    BY <1>1, <2>1, TableSame, TableAsked DEF AnswersHold
  <2>4. TableHolds'
    BY <2>1, TableQuery DEF TableHolds
  <2>5. QED  BY <2>2, <2>3, <2>4
<1>3. CASE tpage.patches
  <2> DEFINE old == IF tpage.captures /\ c.value = "gone" THEN c.rows ELSE table
             new == Table!Patched(old, c.row, c.value)
  <2>1. /\ calls' = calls \ {c} /\ table' = new /\ sel' \in {sel, sel \cap DOMAIN new}
        /\ astray' = (astray \/ c.stale \/ old # table)
    BY <1>3 DEF Table!Answer, Table!Show
  <2>2. old \in Table!Tables /\ c.value \in Table!Values
    BY <1>1 DEF CallRecords, TableTypes
  <2>3. \A x \in TableRows : db[x] # "gone" => x \in DOMAIN old
    BY <1>1, <1>3 DEF CallKeeps, RowsRemain
  <2>4. c.value = "gone" => db[c.row] = "gone"
    BY <1>1, <1>3 DEF CallKeeps, IsAct
  <2> HIDE DEF old
  <2>5. /\ new \in Table!Tables
        /\ DOMAIN new = IF c.value = "gone" THEN DOMAIN old \ {c.row} ELSE DOMAIN old
        /\ \A y \in DOMAIN new : new[y] = IF y = c.row THEN c.value ELSE old[y]
    <3>1. c.row \in TableRows
      BY <1>1
    <3> DEFINE x == c.row
               v == c.value
    <3>2. x \in TableRows /\ v \in Table!Values
      BY <2>2, <3>1
    <3> HIDE DEF x, v, new, TableInv
    <3>3. /\ Table!Patched(old, x, v) \in Table!Tables
          /\ DOMAIN Table!Patched(old, x, v) = IF v = "gone" THEN DOMAIN old \ {x} ELSE DOMAIN old
          /\ \A y \in DOMAIN Table!Patched(old, x, v) : Table!Patched(old, x, v)[y] = IF y = x THEN v ELSE old[y]
      BY <2>2, <3>2, TablePatched
    <3>4. QED  BY <3>3 DEF x, v, new
  <2> HIDE DEF new
  <2>6. TableTypes' /\ BulkAccounts'
    BY <1>1, <2>1, <2>5 DEF TableTypes, BulkAccounts
  <2>7. RowsRemain'
    BY <1>1, <2>1, <2>3, <2>4, <2>5 DEF RowsRemain
  <2>8. AnswersHold'
    BY <1>1, <2>1, TableSame DEF AnswersHold
  <2>9. TableHolds'
    <3>1. CASE astray'
      BY <3>1 DEF TableHolds
    <3>2. CASE ~astray'
      <4>1. ~astray /\ ~c.stale /\ old = table
        BY Zenon, <2>1, <3>2
      <4>2. db[c.row] = c.value /\ control = "all"
        BY <1>1, <1>3, <4>1 DEF CallTrue, TableTypes
      <4>3. Agrees(c.row)'
        BY <1>1, <2>1, <2>3, <2>5, <4>2 DEF Agrees, Table!Match
      <4>4. \A x \in TableRows : x # c.row /\ Agrees(x) => Agrees(x)'
        BY <1>1, <2>1, <2>5, <4>1 DEF Agrees, Table!Match
      <4>5. \A e \in calls : e # c => e \in calls'
        BY <2>1
      <4>6. CASE bulk.pc = "go" \/ \E e \in calls : e.kind = "query"
        BY <1>1, <4>5, <4>6 DEF TableHolds
      <4>7. CASE \A x \in TableRows : Agrees(x) \/ \E e \in calls : IsAct(e) /\ e.row = x
        <5>1. \A x \in TableRows : Agrees(x)' \/ \E e \in calls' : IsAct(e) /\ e.row = x
          BY <4>3, <4>4, <4>5, <4>7
        <5>2. QED  BY <5>1 DEF TableHolds
      <4>8. QED  BY <4>1, <4>6, <4>7 DEF TableHolds
    <3>3. QED  BY <3>1, <3>2
  <2>10. QED  BY <2>6, <2>7, <2>8, <2>9
<1>4. QED  BY <1>1, <1>2, <1>3

LEMMA TableLose ==
  ASSUME TableInv, NEW c \in calls, Table!Lose(c)
  PROVE  TableInv'
<1>1. calls' = calls \ {c} /\ astray' /\ UNCHANGED <<tpage, db, table, control, sel, bulk>>
  BY DEF Table!Lose, Table!View
<1>2. /\ sel' \subseteq TableRows /\ bulk' \in BulkRecords /\ BulkAccounts'
      /\ tpage.patches => (bulk'.pc = "go" => bulk'.kind.on # "text" /\ bulk'.of = "all")
  BY <1>1 DEF TableInv, TableTypes, BulkAccounts
<1>3. QED  BY <1>1, <1>2, TableQuiet

LEMMA TableTicks ==
  ASSUME TableInv, Table!TickAll \/ \E x \in TableRows : Table!Tick(x)
  PROVE  TableInv'
<1> USE DEF TableInv
<1>1. /\ UNCHANGED <<tpage, db, table, control, bulk, calls, astray>>
      /\ \/ \E x \in DOMAIN table : sel' = sel \cup {x} \/ sel' = sel \ {x}
         \/ sel' = sel \ DOMAIN table \/ sel' = sel \cup DOMAIN table
  BY DEF Table!Tick, Table!TickAll
<1>2. DOMAIN table \subseteq TableRows
  BY DEF TableTypes, Table!Tables
<1>3. TableTypes'
  BY <1>1, <1>2 DEF TableTypes
<1>4. BulkAccounts' /\ RowsRemain' /\ AnswersHold'
  BY <1>1, TableSame DEF BulkAccounts, RowsRemain, AnswersHold
<1>5. TableHolds'
  BY <1>1 DEF TableHolds, Agrees, Table!Match
<1>6. QED  BY <1>3, <1>4, <1>5

LEMMA TableBegin ==
  ASSUME Table!TableAssumption, TableInv, NEW k \in tpage.bulks, Table!Begin(k)
  PROVE  TableInv'
<1> USE DEF TableInv
<1>1. /\ bulk.pc = "idle" /\ k \in Table!Bulks /\ (tpage.patches => k.on # "text" /\ control = "all")
      /\ UNCHANGED <<tpage, db, table, control, sel, calls, astray>> /\ sel \subseteq TableRows /\ control \in Table!Filters
  BY DEF Table!Begin, TableTypes, Table!TableAssumption, Table!View
<1> DEFINE choices == CASE k.on = "selection" -> {sel} [] k.on = "text" -> SUBSET TableRows
                        [] k.on = "filter" -> {Table!Match(control)}
<1>2. choices \subseteq SUBSET TableRows
  <2>1. k.on \in {"selection", "text", "filter"} /\ Table!Match(control) \subseteq TableRows
    BY <1>1 DEF Table!Bulks, Table!Match
  <2>2. QED  BY <1>1, <2>1
<1>3. \E S \in choices :
        bulk' = [Table!NoBulk EXCEPT !.kind = k, !.pc = "go", !.chosen = S, !.todo = S, !.of = control]
  BY DEF Table!Begin
<1> HIDE DEF choices
<1>4. PICK S \in SUBSET TableRows :
        bulk' = [Table!NoBulk EXCEPT !.kind = k, !.pc = "go", !.chosen = S, !.todo = S, !.of = control]
  BY <1>2, <1>3
<1>5. Table!NoBulk \in BulkRecords /\ Table!NoBulk.hit = {} /\ Table!NoBulk.missing = {}
  BY DEF Table!NoBulk, BulkRecords, Table!Bulks, Table!Values, Table!Filters
<1>6. /\ bulk' \in BulkRecords /\ bulk'.kind = k /\ bulk'.pc = "go" /\ bulk'.chosen = S /\ bulk'.todo = S
      /\ bulk'.of = control /\ bulk'.hit = {} /\ bulk'.missing = {}
  BY <1>1, <1>4, <1>5 DEF BulkRecords
<1>7. BulkAccounts'
  BY <1>6 DEF BulkAccounts
<1>8. sel' \subseteq TableRows /\ calls' \subseteq calls
  BY <1>1
<1>9. QED  BY <1>1, <1>6, <1>7, <1>8, TableQuiet

\* One request of an operation.
LEMMA TableHit ==
  ASSUME TableInv, NEW X \in Table!Batches, Table!Hit(X), bulk.pc = "go", UNCHANGED <<tpage, table>>
  PROVE  /\ db' \in [TableRows -> Table!Values] /\ calls' \subseteq CallRecords
         /\ \A c \in calls' : c.kind = "act" => c.row \in TableRows
         /\ tpage.patches => \A c \in calls' : c.of = "all"
         /\ AnswersHold' /\ RowsRemain'
<1> USE DEF TableInv
<1>1. /\ db' = [x \in TableRows |-> IF x \in Table!There(X) THEN bulk.kind.value ELSE db[x]]
      /\ calls' = Table!Stale(calls, X)
  BY DEF Table!Hit
<1>2. bulk.kind \in Table!Bulks /\ bulk.kind.value \in Table!Values /\ (tpage.patches => bulk.kind.on # "text")
  BY DEF TableTypes, BulkRecords, Table!Bulks
<1>3. db' \in [TableRows -> Table!Values]
  BY <1>1, <1>2 DEF TableTypes
<1>4. /\ \A x \in TableRows : x \notin X => db'[x] = db[x]
      /\ tpage.patches => \A x \in TableRows : db[x] = "gone" => db'[x] = "gone"
  BY <1>1, <1>2 DEF Table!There, Table!Adds
<1>5. /\ calls' \subseteq CallRecords
      /\ \A d \in calls' : (d.kind = "act" => d.row \in TableRows) /\ CallTrue(d)' /\ CallKeeps(d)'
  BY <1>1, <1>3, <1>4, TableChange, calls \in SUBSET calls
<1>6. \A d \in calls' : \E c \in calls : d.of = c.of
  BY <1>1, TableStale, calls \in SUBSET CallRecords DEF TableTypes, SameCall
<1>7. tpage.patches => \A d \in calls' : d.of = "all"
  BY <1>6 DEF TableTypes
<1>8. RowsRemain'
  BY <1>4 DEF RowsRemain
<1>9. QED  BY <1>3, <1>5, <1>7, <1>8 DEF AnswersHold

LEMMA TableStep == ASSUME TableInv, Table!Step PROVE TableInv'
<1> USE DEF TableInv
<1>1. PICK X \in Table!Batches :
        /\ Table!Hit(X)
        /\ bulk' = [bulk EXCEPT !.todo = IF bulk.kind.each THEN @ \ X ELSE {},
                                !.hit = @ \cup Table!There(X), !.missing = @ \cup (X \ Table!There(X))]
  BY DEF Table!Step
<1>2. bulk.pc = "go" /\ bulk \in BulkRecords /\ UNCHANGED <<tpage, control, table, sel, astray>>
  BY DEF Table!Step, TableTypes, Table!View
<1>3. /\ X \subseteq TableRows /\ Table!There(X) \subseteq X
      /\ bulk.kind.on # "filter" => X \subseteq bulk.todo /\ (~bulk.kind.each => X = bulk.todo)
  BY <1>2 DEF Table!Batches, Table!There, Table!Match, BulkRecords
<1> DEFINE todo == IF bulk.kind.each THEN bulk.todo \ X ELSE {}
           hit == bulk.hit \cup Table!There(X)
           missing == bulk.missing \cup (X \ Table!There(X))
<1>4. /\ bulk' = [bulk EXCEPT !.todo = todo, !.hit = hit, !.missing = missing]
      /\ todo \in SUBSET TableRows /\ hit \in SUBSET TableRows /\ missing \in SUBSET TableRows
  BY <1>1, <1>2, <1>3 DEF BulkRecords
<1>5. bulk.kind.on # "filter" =>
        /\ todo \cup hit \cup missing = bulk.todo \cup bulk.hit \cup bulk.missing
        /\ hit \subseteq bulk.hit \cup bulk.todo
  BY <1>3
<1> HIDE DEF todo, hit, missing
<1>6. /\ bulk' \in BulkRecords /\ bulk'.kind = bulk.kind /\ bulk'.pc = "go" /\ bulk'.of = bulk.of
      /\ bulk'.chosen = bulk.chosen /\ bulk'.todo = todo /\ bulk'.hit = hit /\ bulk'.missing = missing
  BY <1>2, <1>4 DEF BulkRecords
<1>7. BulkAccounts'
  BY <1>2, <1>5, <1>6 DEF BulkAccounts
<1>8. /\ db' \in [TableRows -> Table!Values] /\ calls' \subseteq CallRecords
      /\ \A c \in calls' : c.kind = "act" => c.row \in TableRows
      /\ tpage.patches => \A c \in calls' : c.of = "all"
      /\ AnswersHold' /\ RowsRemain'
  BY <1>1, <1>2, TableHit
<1>9. TableTypes'
  BY <1>2, <1>6, <1>8 DEF TableTypes
<1>10. TableHolds'
  BY <1>6 DEF TableHolds
<1>11. QED  BY <1>7, <1>8, <1>9, <1>10

LEMMA TableStepFails == ASSUME TableInv, Table!StepFails PROVE TableInv'
<1> USE DEF TableInv
<1>1. /\ bulk.pc = "go" /\ bulk' = Table!NoBulk /\ astray' /\ UNCHANGED <<tpage, control, table, sel>>
      /\ \/ UNCHANGED <<db, calls>>
         \/ \E X \in Table!Batches : Table!Hit(X)
  BY DEF Table!StepFails, Table!View
<1>2. bulk' \in BulkRecords /\ bulk'.pc = "idle"
  BY <1>1 DEF Table!NoBulk, BulkRecords, Table!Bulks, Table!Values, Table!Filters
<1>3. BulkAccounts' /\ TableHolds'
  BY <1>1, <1>2 DEF BulkAccounts, TableHolds
<1>4. CASE UNCHANGED <<db, calls>>
  <2>1. TableTypes'
    BY <1>1, <1>2, <1>4 DEF TableTypes
  <2>2. RowsRemain' /\ AnswersHold'
    BY <1>1, <1>4, TableSame DEF RowsRemain, AnswersHold
  <2>3. QED  BY <1>3, <2>1, <2>2
<1>5. ASSUME NEW X \in Table!Batches, Table!Hit(X) PROVE TableInv'
  <2>1. /\ db' \in [TableRows -> Table!Values] /\ calls' \subseteq CallRecords
        /\ \A c \in calls' : c.kind = "act" => c.row \in TableRows
        /\ tpage.patches => \A c \in calls' : c.of = "all"
        /\ AnswersHold' /\ RowsRemain'
    BY <1>1, <1>5, TableHit
  <2>2. TableTypes'
    BY <1>1, <1>2, <2>1 DEF TableTypes
  <2>3. QED  BY <1>3, <2>1, <2>2
<1>6. QED  BY <1>1, <1>4, <1>5

LEMMA TableFinish == ASSUME TableInv, Table!Finish PROVE TableInv'
<1> USE DEF TableInv
<1> DEFINE f == IF Table!Adds THEN "on" ELSE bulk.of
<1>1. /\ bulk.pc = "go" /\ bulk' = Table!NoBulk /\ sel' \in {sel, {}}
      /\ control' = (IF Table!Adds THEN "on" ELSE control) /\ calls' = calls \cup {Table!Query(f)} \cup {}
      /\ UNCHANGED <<tpage, db, table>>
  BY DEF Table!Finish
<1>2. bulk' \in BulkRecords /\ bulk'.pc = "idle"
  BY <1>1 DEF Table!NoBulk, BulkRecords, Table!Bulks, Table!Values, Table!Filters
<1>3. tpage.patches => ~Table!Adds /\ control = "all" /\ bulk.of = "all"
  BY <1>1 DEF Table!Adds, TableTypes
<1>4. f \in Table!Filters /\ control' \in Table!Filters /\ (tpage.patches => f = "all" /\ control' = "all")
  BY <1>1, <1>3 DEF TableTypes, BulkRecords, Table!Filters
<1>5. sel' \subseteq TableRows /\ BulkAccounts' /\ {} \in SUBSET {Table!Query(g) : g \in Table!Filters}
  BY <1>1, <1>2 DEF TableTypes, BulkAccounts
<1> HIDE DEF f
<1>6. QED  BY <1>1, <1>2, <1>4, <1>5, TableAsks

LEMMA TableOther == ASSUME TableInv, Table!Other PROVE TableInv'
<1> USE DEF TableInv
<1>1. PICK x \in TableRows, v \in Table!Values :
        /\ db[x] # "gone" /\ db' = [db EXCEPT ![x] = v] /\ calls' = Table!Stale(calls, {x})
  BY DEF Table!Other
<1>2. astray' /\ UNCHANGED <<tpage, control, table, sel, bulk>>
  BY DEF Table!Other, Table!View
<1>3. /\ db' \in [TableRows -> Table!Values] /\ \A y \in TableRows : y \notin {x} => db'[y] = db[y]
      /\ \A y \in TableRows : db[y] = "gone" => db'[y] = "gone"
  BY <1>1 DEF TableTypes
<1>4. /\ calls' \subseteq CallRecords
      /\ \A d \in calls' : (d.kind = "act" => d.row \in TableRows) /\ CallTrue(d)' /\ CallKeeps(d)'
  BY <1>1, <1>2, <1>3, TableChange, calls \in SUBSET calls
<1>5. \A d \in calls' : \E c \in calls : d.of = c.of
  BY <1>1, TableStale, calls \in SUBSET CallRecords DEF TableTypes, SameCall
<1>6. TableTypes'
  BY <1>2, <1>3, <1>4, <1>5 DEF TableTypes
<1>7. BulkAccounts' /\ RowsRemain' /\ AnswersHold' /\ TableHolds'
  BY <1>2, <1>3, <1>4 DEF BulkAccounts, RowsRemain, AnswersHold, TableHolds
<1>8. QED  BY <1>6, <1>7

LEMMA TableAlways ==
  ASSUME Table!TableAssumption, TableInv, [Table!Next]_Table!vars
  PROVE  TableInv'
<1>1. CASE UNCHANGED Table!vars
  <2>1. UNCHANGED <<tpage, db, table, control, sel, calls, bulk, astray>>
    BY <1>1 DEF Table!vars
  <2>2. TableTypes' /\ BulkAccounts' /\ RowsRemain' /\ AnswersHold'
    BY <2>1, TableSame DEF TableInv, TableTypes, BulkAccounts, RowsRemain, AnswersHold
  <2>3. TableHolds'
    BY <2>1 DEF TableInv, TableHolds, Agrees, Table!Match
  <2>4. QED  BY <2>2, <2>3 DEF TableInv
<1>2. QED
  BY <1>1, TableApply, TableRefresh, TableAct, TableRead, TableDeliver, TableCarry, TableAnswer, TableLose, TableTicks,
     TableBegin, TableStep, TableStepFails, TableFinish, TableOther DEF Table!Next

\* An operation on many rows that is reported done has changed the rows that
\* were chosen at the click, but for those that were gone, and no others.
THEOREM BulkIsExactAlways == ASSUME Table!TableAssumption PROVE Table!Spec => []Table!BulkIsExact
<1>1. Table!Init => TableInv
  BY TableInit
<1>2. TableInv /\ [Table!Next]_Table!vars => TableInv'
  BY TableAlways
<1>3. TableInv => Table!BulkIsExact
  BY DEF TableInv, BulkAccounts, Table!BulkIsExact
<1>4. QED  BY <1>1, <1>2, <1>3, PTL DEF Table!Spec

\* A table with nothing under way is what the database answers to the filters,
\* unless it has been led astray.
THEOREM TableIsTrueAlways == ASSUME Table!TableAssumption PROVE Table!Spec => []Table!TableIsTrue
<1>1. Table!Init => TableInv
  BY TableInit
<1>2. TableInv /\ [Table!Next]_Table!vars => TableInv'
  BY TableAlways
<1>3. ASSUME TableInv PROVE Table!TableIsTrue
  <2> USE <1>3 DEF TableInv
  <2> SUFFICES ASSUME calls = {}, bulk.pc = "idle", ~astray PROVE table = Table!Listing(control)
    BY DEF Table!TableIsTrue
  <2>1. \A x \in TableRows : Agrees(x)
    BY DEF TableHolds
  <2>2. PICK S \in SUBSET TableRows : table \in [S -> {"on", "off"}]
    BY DEF TableTypes, Table!Tables
  <2>3. Table!Match(control) \subseteq TableRows
    BY DEF Table!Match
  <2>4. DOMAIN table = Table!Match(control)
    BY <2>1, <2>2, <2>3 DEF Agrees
  <2>5. \A x \in Table!Match(control) : table[x] = db[x]
    BY <2>1, <2>3, <2>4 DEF Agrees
  <2>6. table = [x \in Table!Match(control) |-> db[x]]
    BY <2>2, <2>4, <2>5
  <2>7. QED  BY <2>6 DEF Table!Listing
<1>4. QED  BY <1>1, <1>2, <1>3, PTL DEF Table!Spec

-----------------------------------------------------------------------------
(* Editor of templates *)

\* What the editor holds, and what a request takes from it or brings.
Docs == [id : Templates \cup {0}, text : SUBSET Edits, status : DraftStatuses \cup {"none"}]
Sends == [pc : {"idle", "ask", "ask again", "sent", "counted", "ok", "in use", "failed"},
          kind : {"none", "open", "save", "delete", "link", "test"},
          of : Docs, status : DraftStatuses \cup {"none"}, row : Docs, edit : Edits \cup {0}]

\* The edits of a text are at home in its template, but for the links that
\* strayed; no template has no text.
HomeOf(d, h, s) == (d.id = 0 => d.text = {}) /\ \A e \in d.text \ s : h[e] = d.id

\* What is under way is about a template, and brings its text and its link home.
Fits(r, h, s) ==
  /\ r.pc # "idle" => r.of.id \in Templates
  /\ r.pc = "ok" /\ r.kind \in {"open", "save"} => r.row.id \in Templates
  /\ HomeOf(r.of, h, s) /\ HomeOf(r.row, h, s)
  /\ r.kind = "link" /\ r.pc = "ok" => r.edit \in Edits /\ h[r.edit] = r.of.id
  /\ r.pc = "counted" => r.kind = "delete"

\* Edits that were not made yet, of which there are enough.
Unmade == {e \in Edits : home[e] = 0}

Remains == left["type"] + left["link"] + left["other"]

EditorTypes ==
  /\ tdb \in [Templates -> [there : BOOLEAN, text : SUBSET Edits, status : DraftStatuses]]
  /\ tused \subseteq Templates /\ stray \subseteq Edits /\ home \in [Edits -> Templates \cup {0}]
  /\ selected \in Docs /\ ecall \in [Calls -> Sends] /\ left \in [Editor!Events -> Nat]
  /\ Remains <= Cardinality(Unmade)

EditorHomes ==
  /\ Editor!TextStaysHome /\ HomeOf(selected, home, stray)
  /\ \A c \in Calls : Fits(ecall[c], home, stray)

\* A document is what the database holds of its template.
IsRow(d, b) == b[d.id].there /\ d = [id |-> d.id, text |-> b[d.id].text, status |-> b[d.id].status]

\* While nothing is mixed one request at most is under way; what it brings is in
\* the database, and so is what the editor shows unless it is about to be told.
EditorTruth ==
  ~mixed =>
    /\ \A c, d \in Calls : c # d => ecall[c] = Editor!Idle \/ ecall[d] = Editor!Idle
    /\ \A c \in Calls : ecall[c].pc = "ok" /\ ecall[c].kind \in {"open", "save"} => IsRow(ecall[c].row, tdb)
    /\ open /\ ~unsaved /\ (\A c \in Calls : ~(ecall[c].pc = "ok" /\ ecall[c].kind \in {"save", "delete"}))
         => IsRow(selected, tdb)

EditorInv == EditorTypes /\ EditorHomes /\ EditorTruth /\ Editor!UsedStays

\* An edit that has a home keeps it.
Onward(h, s) == stray \subseteq s /\ \A e \in Edits : home[e] # 0 => h[e] = home[e]

LEMMA EditorHomeKept ==
  ASSUME NEW h, NEW s, Onward(h, s), NEW d \in Docs, HomeOf(d, home, stray)
  PROVE  HomeOf(d, h, s)
BY DEF Docs, HomeOf, Onward

LEMMA EditorFitKept ==
  ASSUME Editor!TemplateEditorAssumption, NEW h, NEW s, Onward(h, s), NEW r \in Sends, Fits(r, home, stray)
  PROVE  Fits(r, h, s)
<1>1. r.of \in Docs /\ r.row \in Docs
  BY DEF Sends
<1>2. HomeOf(r.of, h, s) /\ HomeOf(r.row, h, s)
  BY <1>1, EditorHomeKept DEF Fits
<1>3. r.kind = "link" /\ r.pc = "ok" => r.edit \in Edits /\ h[r.edit] = r.of.id
  BY EditorFinite DEF Fits, Onward, Editor!TemplateEditorAssumption
<1>4. QED  BY <1>2, <1>3 DEF Fits

LEMMA EditorIdle ==
  ASSUME Editor!TemplateEditorAssumption
  PROVE  /\ Editor!None \in Docs /\ Editor!Idle \in Sends /\ Editor!Idle.pc = "idle"
         /\ Editor!None.id = 0
         /\ \A h, s : HomeOf(Editor!None, h, s) /\ Fits(Editor!Idle, h, s)
BY EditorFinite DEF Editor!TemplateEditorAssumption, Editor!None, Editor!Idle, Docs, Sends, HomeOf, Fits

\* Numbers have a least one.
LEMMA EditorLeast == ASSUME NEW S, S \subseteq Nat, S # {} PROVE \E e \in S : \A d \in S : ~(d < e)
<1> DEFINE Less == OpToRel(<, Nat)
<1>1. IsWellFoundedOn(Less, Nat)
  BY Zenon, NatLessThanWellFounded
<1>2. \E e \in S : \A d \in S : ~(<<d, e>> \in Less)
  <2> HIDE DEF Less
  <2>1. QED  BY <1>1, WFMin
<1>3. QED  BY <1>2 DEF OpToRel

\* The least edit that was not made yet.
LEMMA EditorNew ==
  ASSUME Editor!TemplateEditorAssumption, EditorTypes, Remains > 0
  PROVE  /\ Editor!New \in Edits /\ home[Editor!New] = 0
         /\ \A t \in Templates : /\ Onward([home EXCEPT ![Editor!New] = t], stray)
                                 /\ [home EXCEPT ![Editor!New] = t] \in [Edits -> Templates \cup {0}]
                                 /\ [home EXCEPT ![Editor!New] = t][Editor!New] = t
                                 /\ Cardinality({e \in Edits : [home EXCEPT ![Editor!New] = t][e] = 0})
                                      = Cardinality(Unmade) - 1
<1>1. IsFiniteSet(Unmade) /\ Unmade \subseteq Nat
  BY FS_Subset, EditorFinite DEF Unmade, Editor!TemplateEditorAssumption
<1>2. Unmade # {}
  <2>1. Remains \in Nat
    BY DEF EditorTypes, Remains, Editor!Events
  <2>2. Cardinality(Unmade) # 0
    BY <1>1, <2>1, FS_CardinalityType DEF EditorTypes
  <2>3. QED  BY <2>2, FS_EmptySet
<1>3. PICK e \in Unmade : \A d \in Unmade : ~(d < e)
  BY <1>1, <1>2, EditorLeast
<1>4. \A d \in Edits : d < e => home[d] # 0
  BY <1>3 DEF Unmade
<1>5. Editor!New \in Edits /\ home[Editor!New] = 0
  BY <1>3, <1>4 DEF Editor!New, Unmade
<1>6. ASSUME NEW t \in Templates
      PROVE  /\ Onward([home EXCEPT ![Editor!New] = t], stray)
             /\ [home EXCEPT ![Editor!New] = t] \in [Edits -> Templates \cup {0}]
             /\ [home EXCEPT ![Editor!New] = t][Editor!New] = t
             /\ Cardinality({d \in Edits : [home EXCEPT ![Editor!New] = t][d] = 0}) = Cardinality(Unmade) - 1
  <2> DEFINE next == [home EXCEPT ![Editor!New] = t]
  <2>1. {d \in Edits : next[d] = 0} = Unmade \ {Editor!New}
    BY <1>5, EditorFinite DEF Unmade, EditorTypes, Editor!TemplateEditorAssumption
  <2>2. Editor!New \in Unmade
    BY <1>5 DEF Unmade
  <2>3. Cardinality({d \in Edits : next[d] = 0}) = Cardinality(Unmade) - 1
    BY <1>1, <2>1, <2>2, FS_RemoveElement
  <2>4. Onward(next, stray) /\ next \in [Edits -> Templates \cup {0}] /\ next[Editor!New] = t
    BY <1>5 DEF Onward, EditorTypes
  <2>5. QED  BY <2>3, <2>4
<1>7. QED  BY <1>5, <1>6

LEMMA EditorInit == ASSUME Editor!TemplateEditorAssumption PROVE Editor!Init => EditorInv
<1> SUFFICES ASSUME Editor!Init PROVE EditorInv
  OBVIOUS
<1> USE DEF Editor!Init
<1>1. EditorTypes
  <2>1. tdb \in [Templates -> [there : BOOLEAN, text : SUBSET Edits, status : DraftStatuses]]
    BY EditorFinite DEF Editor!TemplateEditorAssumption
  <2>2. Unmade = Edits
    BY DEF Unmade
  <2>3. left \in [Editor!Events -> Nat] /\ Remains <= Cardinality(Unmade)
    <3>1. left \in Occasions
      OBVIOUS
    <3>2. \A S : Editor!Cardinality(S) = Cardinality(S)
      BY DEF Editor!Cardinality, Cardinality
    <3>3. QED  BY <2>2, <3>1, <3>2 DEF Editor!TemplateEditorAssumption, Remains
  <2>4. QED  BY <2>1, <2>3, EditorIdle DEF EditorTypes
<1>2. EditorHomes
  BY EditorIdle DEF EditorHomes, Editor!TextStaysHome
<1>3. EditorTruth
  BY DEF EditorTruth, Editor!Idle
<1>4. QED  BY <1>1, <1>2, <1>3 DEF EditorInv, Editor!UsedStays

\* A request that goes on, begins or ends leaves the others as they are.
LEMMA EditorMoves ==
  ASSUME EditorTypes, NEW c \in Calls, NEW next \in Sends, ecall' = [ecall EXCEPT ![c] = next]
  PROVE  /\ ecall' \in [Calls -> Sends] /\ ecall'[c] = next
         /\ \A d \in Calls \ {c} : ecall'[d] = ecall[d]
BY DEF EditorTypes

LEMMA EditorHomesMove ==
  ASSUME Editor!TemplateEditorAssumption, EditorTypes, EditorHomes, NEW c \in Calls, NEW next \in Sends,
         ecall' = [ecall EXCEPT ![c] = next], Fits(next, home', stray'), Onward(home', stray')
  PROVE  \A d \in Calls : Fits(ecall'[d], home', stray')
BY EditorMoves, EditorFitKept DEF EditorTypes, EditorHomes

\* What an event costs.
LEMMA EditorSpends ==
  ASSUME EditorTypes, NEW event \in Editor!Events, Editor!Spend(event)
  PROVE  /\ left' \in [Editor!Events -> Nat]
         /\ event \in {"type", "link", "other"} =>
              /\ Remains > 0
              /\ Remains' = Remains - 1
         /\ event \notin {"type", "link", "other"} =>
              Remains' = Remains
BY DEF EditorTypes, Remains, Editor!Spend, Editor!Events

\* Who makes an edit spends one: enough are left.
LEMMA EditorUnmadeStays ==
  ASSUME home' = home, EditorTypes,
         Remains' = Remains
  PROVE  Remains' <= Cardinality(Unmade')
BY DEF Unmade, EditorTypes

LEMMA EditorMakes ==
  ASSUME Editor!TemplateEditorAssumption, EditorTypes, NEW t \in Templates, Editor!Meant(Editor!New, t),
         NEW event \in {"type", "link", "other"}, Editor!Spend(event)
  PROVE  /\ Editor!New \in Edits /\ home[Editor!New] = 0
         /\ Onward(home', stray) /\ home' \in [Edits -> Templates \cup {0}] /\ home'[Editor!New] = t
         /\ left' \in [Editor!Events -> Nat]
         /\ Remains' <= Cardinality(Unmade')
<1>1. /\ left' \in [Editor!Events -> Nat]
      /\ Remains > 0
      /\ Remains' = Remains - 1
  BY EditorSpends DEF Editor!Events
<1>2. home' = [home EXCEPT ![Editor!New] = t]
  BY DEF Editor!Meant
<1>3. /\ Editor!New \in Edits /\ home[Editor!New] = 0
      /\ Onward(home', stray) /\ home' \in [Edits -> Templates \cup {0}] /\ home'[Editor!New] = t
      /\ Cardinality({e \in Edits : home'[e] = 0}) = Cardinality(Unmade) - 1
  BY <1>1, <1>2, EditorNew
<1>4. Unmade' = {e \in Edits : home'[e] = 0}
  BY DEF Unmade
<1>5. IsFiniteSet(Unmade) /\ Cardinality(Unmade) \in Nat
  BY FS_Subset, FS_CardinalityType, EditorFinite DEF Unmade, Editor!TemplateEditorAssumption
<1>6. Remains \in Nat
  BY DEF EditorTypes, Remains, Editor!Events
<1>7. Remains <= Cardinality(Unmade)
  BY DEF EditorTypes
<1>8. Cardinality(Unmade') = Cardinality(Unmade) - 1
  BY <1>3, <1>4, Zenon
<1>9. Remains' <= Cardinality(Unmade')
  BY <1>1, <1>5, <1>6, <1>7, <1>8
<1>10. QED  BY <1>1, <1>3, <1>9

LEMMA EditorType ==
  ASSUME Editor!TemplateEditorAssumption, EditorInv, Editor!Type
  PROVE  EditorInv'
<1> DEFINE n == Editor!New
<1>1. /\ selected.id \in Templates /\ Editor!Meant(n, selected.id) /\ Editor!Spend("type") /\ unsaved'
      /\ selected' = [selected EXCEPT !.text = @ \cup {n}]
      /\ UNCHANGED <<tdb, tused, open, ecall, stray, mixed>>
  BY DEF Editor!Type, Editor!Editing, Editor!Table, EditorInv, EditorTypes, Docs
<1>2. /\ n \in Edits /\ home[n] = 0 /\ Onward(home', stray)
      /\ home' \in [Edits -> Templates \cup {0}] /\ home'[n] = selected.id
      /\ left' \in [Editor!Events -> Nat]
      /\ Remains' <= Cardinality(Unmade')
  BY <1>1, EditorMakes DEF EditorInv
<1> HIDE DEF n
<1>3. selected \in Docs
  BY DEF EditorInv, EditorTypes
<1>4. selected' \in Docs /\ selected'.id = selected.id /\ selected'.text = selected.text \cup {n}
  BY <1>1, <1>2, <1>3 DEF Docs
<1>5. EditorTypes'
  BY <1>1, <1>2, <1>4 DEF EditorInv, EditorTypes
<1>6. HomeOf(selected', home', stray)
  <2>1. HomeOf(selected, home', stray)
    BY <1>2, <1>3, EditorHomeKept DEF EditorInv, EditorHomes
  <2>2. QED  BY <1>1, <1>2, <1>4, <2>1, EditorFinite DEF HomeOf, Editor!TemplateEditorAssumption
<1>7. Editor!TextStaysHome'
  BY <1>1, <1>2, EditorFinite DEF EditorInv, EditorTypes, EditorHomes, Editor!TextStaysHome, Onward, Editor!TemplateEditorAssumption
<1>8. \A c \in Calls : Fits(ecall'[c], home', stray')
  BY <1>1, <1>2, EditorFitKept DEF EditorInv, EditorTypes, EditorHomes
<1>9. EditorTruth'
  BY <1>1 DEF EditorInv, EditorTruth
<1>10. Editor!UsedStays'
  BY <1>1 DEF EditorInv, Editor!UsedStays
<1>11. QED  BY <1>1, <1>5, <1>6, <1>7, <1>8, <1>9, <1>10 DEF EditorInv, EditorHomes

\* An action that makes no edit and leaves the database alone, and that one request
\* goes through.
LEMMA EditorStep ==
  ASSUME Editor!TemplateEditorAssumption, EditorInv, NEW c \in Calls, NEW next \in Sends,
         ecall' = [ecall EXCEPT ![c] = next], Fits(next, home, stray'),
         UNCHANGED <<tdb, tused, home>>, selected' \in Docs, HomeOf(selected', home, stray'),
         stray \subseteq stray', stray' \subseteq Edits,
         left' = left \/ \E event \in {"open", "save", "delete", "test", "lost"} : Editor!Spend(event)
  PROVE  EditorTypes' /\ EditorHomes' /\ Editor!UsedStays'
<1>1. Onward(home, stray')
  BY DEF Onward
<1>2. \A d \in Calls : Fits(ecall'[d], home', stray')
  BY <1>1, EditorHomesMove DEF EditorInv
<1>3. EditorHomes'
  <2>1. Editor!TextStaysHome'
    BY DEF EditorInv, EditorHomes, Editor!TextStaysHome
  <2>2. QED  BY <1>2, <2>1 DEF EditorHomes
<1>4. /\ left' \in [Editor!Events -> Nat]
      /\ Remains' = Remains
  <2>1. CASE left' = left
    BY <2>1 DEF EditorInv, EditorTypes, Remains
  <2>2. CASE \E event \in {"open", "save", "delete", "test", "lost"} : Editor!Spend(event)
    BY <2>2, EditorSpends DEF EditorInv, Editor!Events
  <2>3. QED  BY <2>1, <2>2
<1>5. EditorTypes'
  <2>1. Remains' <= Cardinality(Unmade')
    BY <1>4, EditorUnmadeStays DEF EditorInv
  <2>2. ecall' \in [Calls -> Sends]
    BY EditorMoves DEF EditorInv
  <2>3. QED  BY <1>4, <2>1, <2>2 DEF EditorInv, EditorTypes
<1>6. Editor!UsedStays'
  BY DEF EditorInv, Editor!UsedStays
<1>7. QED  BY <1>3, <1>5, <1>6

\* A request that does not change what the editor or the database holds, nor was
\* about to be told of a change, leaves the truth alone.
LEMMA EditorTruthRests ==
  ASSUME EditorInv, NEW c \in Calls, NEW next \in Sends, ecall' = [ecall EXCEPT ![c] = next],
         UNCHANGED <<tdb, selected, open, unsaved>>,
         mixed' = (mixed \/ \E d \in Calls : ecall[d] # Editor!Idle) \/ (ecall[c] # Editor!Idle /\ mixed' = mixed),
         ~(ecall[c].pc = "ok" /\ ecall[c].kind \in {"save", "delete"}),
         next.pc = "ok" => next.kind \in {"open", "link", "test"},
         next.pc = "ok" /\ next.kind = "open" => IsRow(next.row, tdb)
  PROVE  EditorTruth'
<1> SUFFICES ASSUME ~mixed' PROVE EditorTruth'
  BY DEF EditorTruth
<1>1. ~mixed /\ \A d \in Calls \ {c} : ecall[d] = Editor!Idle
  <2>1. ~mixed /\ (ecall[c] # Editor!Idle \/ \A d \in Calls : ecall[d] = Editor!Idle)
    <3>1. CASE mixed' = (mixed \/ \E d \in Calls : ecall[d] # Editor!Idle)
      BY <3>1
    <3>2. CASE ecall[c] # Editor!Idle /\ mixed' = mixed
      BY <3>2
    <3>3. QED  BY <3>1, <3>2
  <2>2. QED  BY <2>1 DEF EditorInv, EditorTruth
<1>2. ecall'[c] = next /\ \A d \in Calls \ {c} : ecall'[d] = ecall[d]
  BY EditorMoves DEF EditorInv
<1>3. Editor!Idle.pc = "idle"
  BY DEF Editor!Idle
<1>4. \A d \in Calls : ecall'[d].pc = "ok" /\ ecall'[d].kind \in {"open", "save"} => IsRow(ecall'[d].row, tdb')
  BY <1>1, <1>2, <1>3
<1>5. open' /\ ~unsaved' => (\A d \in Calls : ~(ecall[d].pc = "ok" /\ ecall[d].kind \in {"save", "delete"}))
  BY <1>1, <1>3
<1>6. open' /\ ~unsaved' => IsRow(selected', tdb')
  BY <1>1, <1>5 DEF EditorInv, EditorTruth
<1>7. QED  BY <1>1, <1>2, <1>4, <1>6 DEF EditorTruth

\* What is clicked, in the order of the page.
LEMMA EditorSend ==
  ASSUME Editor!TemplateEditorAssumption, EditorInv, NEW c \in Calls, NEW next \in Sends,
         NEW slot \in {"open", "save", "delete", "test"}, Editor!Send(c, next, slot),
         UNCHANGED <<tdb, tused, selected, open, home, stray, unsaved>>,
         next.of.id \in Templates, next.of = selected \/ next.of.text = {}, next.row = Editor!None,
         next.pc \in {"ask", "sent", "ok"}, next.kind \in {"open", "save", "delete", "test"},
         next.pc = "ok" => next.kind = "test"
  PROVE  EditorInv'
<1>1. /\ ecall' = [ecall EXCEPT ![c] = next] /\ mixed' = (mixed \/ \E d \in Calls : ecall[d] # Editor!Idle)
      /\ ecall[c] = Editor!Idle /\ Editor!Spend(slot)
  BY DEF Editor!Send
<1>2. HomeOf(next.of, home, stray)
  BY DEF EditorInv, EditorHomes, HomeOf
<1>3. Fits(next, home, stray)
  BY <1>2, EditorIdle DEF Fits
<1>4. EditorTypes' /\ EditorHomes' /\ Editor!UsedStays'
  BY <1>1, <1>3, EditorStep DEF EditorInv, EditorTypes, EditorHomes
<1>5. Editor!Idle.pc = "idle"
  BY DEF Editor!Idle
<1>6. EditorTruth'
  BY <1>1, <1>5, EditorTruthRests
<1>7. QED  BY <1>4, <1>6 DEF EditorInv

LEMMA EditorClicks ==
  ASSUME Editor!TemplateEditorAssumption, EditorInv, NEW c \in Calls,
         (\E t \in Templates : Editor!Choose(c, t)) \/ Editor!SaveButton(c) \/ Editor!ApplyStatus(c)
           \/ Editor!Delete(c) \/ Editor!Test(c)
  PROVE  EditorInv'
<1> USE DEF Editor!Table, Editor!History
<1>1. Editor!Idle \in Sends /\ Editor!Idle.row = Editor!None /\ Editor!Idle.of = Editor!None
      /\ Editor!None \in Docs /\ Editor!None.text = {}
  BY EditorIdle DEF Editor!Idle, Editor!None
<1>2. selected \in Docs
  BY DEF EditorInv, EditorTypes
<1>3. ASSUME NEW t \in Templates, Editor!Choose(c, t) PROVE EditorInv'
  <2> DEFINE doc == [Editor!None EXCEPT !.id = t]
             next == [Editor!Idle EXCEPT !.pc = "sent", !.kind = "open", !.of.id = t]
  <2>1. Editor!Send(c, next, "open") /\ UNCHANGED <<tdb, tused, selected, open, home, stray, unsaved>>
    BY <1>3 DEF Editor!Choose
  <2>2. doc \in Docs /\ doc.id = t /\ doc.text = {}
    BY <1>1 DEF Docs
  <2>3. /\ next \in Sends /\ next.of = doc /\ next.row = Editor!None /\ next.pc = "sent" /\ next.kind = "open"
    BY <1>1, <2>2 DEF Sends
  <2> HIDE DEF next, doc
  <2>4. QED  BY <2>1, <2>2, <2>3, EditorSend
<1>4. ASSUME NEW word \in DraftStatuses \cup {"none"}, Editor!Save(c, word) PROVE EditorInv'
  <2> DEFINE next == [Editor!Idle EXCEPT !.pc = IF word \in {"none", selected.status} THEN "sent" ELSE "ask",
                                         !.kind = "save", !.of = selected, !.status = word]
  <2>1. /\ Editor!Send(c, next, "save") /\ UNCHANGED <<tdb, tused, selected, open, home, stray, unsaved>>
        /\ selected.id # 0
    BY <1>4 DEF Editor!Save, Editor!Editing
  <2>2. /\ next \in Sends /\ next.of = selected /\ next.row = Editor!None /\ next.pc \in {"ask", "sent"}
        /\ next.kind = "save"
    BY <1>1, <1>2 DEF Sends
  <2>3. selected.id \in Templates
    BY <1>2, <2>1 DEF Docs
  <2> HIDE DEF next
  <2>4. QED  BY <2>1, <2>2, <2>3, EditorSend
<1>5. CASE Editor!Delete(c)
  <2> DEFINE next == [Editor!Idle EXCEPT !.pc = "ask", !.kind = "delete", !.of = selected]
  <2>1. /\ Editor!Send(c, next, "delete") /\ UNCHANGED <<tdb, tused, selected, open, home, stray, unsaved>>
        /\ selected.id # 0
    BY <1>5 DEF Editor!Delete, Editor!Editing
  <2>2. /\ next \in Sends /\ next.of = selected /\ next.row = Editor!None /\ next.pc = "ask" /\ next.kind = "delete"
    BY <1>1, <1>2 DEF Sends
  <2>3. selected.id \in Templates
    BY <1>2, <2>1 DEF Docs
  <2> HIDE DEF next
  <2>4. QED  BY <2>1, <2>2, <2>3, EditorSend
<1>6. CASE Editor!Test(c)
  <2> DEFINE next == [Editor!Idle EXCEPT !.pc = "ok", !.kind = "test", !.of = selected]
  <2>1. /\ Editor!Send(c, next, "test") /\ UNCHANGED <<tdb, tused, selected, open, home, stray, unsaved>>
        /\ selected.id # 0
    BY <1>6 DEF Editor!Test, Editor!Editing
  <2>2. /\ next \in Sends /\ next.of = selected /\ next.row = Editor!None /\ next.pc = "ok" /\ next.kind = "test"
    BY <1>1, <1>2 DEF Sends
  <2>3. selected.id \in Templates
    BY <1>2, <2>1 DEF Docs
  <2> HIDE DEF next
  <2>4. QED  BY <2>1, <2>2, <2>3, EditorSend
<1>7. QED  BY <1>3, <1>4, <1>5, <1>6 DEF Editor!SaveButton, Editor!ApplyStatus

LEMMA EditorShorten ==
  ASSUME Editor!TemplateEditorAssumption, EditorInv, NEW c \in Calls, Editor!ShortenLink(c)
  PROVE  EditorInv'
<1> USE DEF Editor!Table
<1> DEFINE n == Editor!New
           next == [Editor!Idle EXCEPT !.pc = "ok", !.kind = "link", !.of = selected, !.edit = n]
<1>1. /\ Editor!Send(c, next, "link") /\ Editor!Meant(n, selected.id) /\ selected.id # 0
      /\ UNCHANGED <<tdb, tused, selected, open, stray, unsaved>>
  BY DEF Editor!ShortenLink, Editor!Editing
<1>2. /\ ecall' = [ecall EXCEPT ![c] = next] /\ mixed' = (mixed \/ \E d \in Calls : ecall[d] # Editor!Idle)
      /\ ecall[c] = Editor!Idle /\ Editor!Spend("link")
  BY <1>1 DEF Editor!Send
<1>3. selected \in Docs /\ selected.id \in Templates
  BY <1>1 DEF EditorInv, EditorTypes, Docs
<1>4. /\ n \in Edits /\ home[n] = 0 /\ Onward(home', stray)
      /\ home' \in [Edits -> Templates \cup {0}] /\ home'[n] = selected.id
      /\ left' \in [Editor!Events -> Nat]
      /\ Remains' <= Cardinality(Unmade')
  BY <1>1, <1>2, <1>3, EditorMakes DEF EditorInv
<1> HIDE DEF n
<1>5. Editor!Idle \in Sends /\ Editor!Idle.pc = "idle" /\ Editor!Idle.row = Editor!None
  BY EditorIdle DEF Editor!Idle
<1>6. /\ next \in Sends /\ next.pc = "ok" /\ next.kind = "link" /\ next.of = selected /\ next.edit = n
      /\ next.row = Editor!None
  BY <1>3, <1>4, <1>5 DEF Sends
<1> HIDE DEF next
<1>7. Fits(next, home', stray')
  BY <1>1, <1>3, <1>4, <1>6, EditorIdle, EditorHomeKept DEF Fits, EditorInv, EditorHomes
<1>8. EditorTypes'
  BY <1>1, <1>2, <1>4, <1>6, EditorMoves DEF EditorInv, EditorTypes
<1>9. EditorHomes'
  <2>1. \A d \in Calls : Fits(ecall'[d], home', stray')
    BY <1>1, <1>2, <1>4, <1>6, <1>7, EditorHomesMove DEF EditorInv
  <2>2. HomeOf(selected', home', stray')
    BY <1>1, <1>3, <1>4, EditorHomeKept DEF EditorInv, EditorHomes
  <2>3. Editor!TextStaysHome'
    BY <1>1, <1>4, EditorFinite DEF EditorInv, EditorTypes, EditorHomes, Editor!TextStaysHome, Onward, Editor!TemplateEditorAssumption
  <2>4. QED  BY <2>1, <2>2, <2>3 DEF EditorHomes
<1>10. EditorTruth'
  BY <1>1, <1>2, <1>5, <1>6, EditorTruthRests
<1>11. QED  BY <1>1, <1>8, <1>9, <1>10 DEF EditorInv, Editor!UsedStays

\* A question is answered, campaigns are counted, archiving is chosen: the request
\* goes on with the text it has.
LEMMA EditorGoesOn ==
  ASSUME Editor!TemplateEditorAssumption, EditorInv, NEW c \in Calls,
         Editor!Confirm(c) \/ Editor!Refuse(c) \/ Editor!CountUse(c) \/ Editor!ArchiveInstead(c)
  PROVE  EditorInv'
<1> USE DEF Editor!Table, Editor!History, Editor!Page
<1>1. ecall[c] \in Sends /\ Fits(ecall[c], home, stray) /\ Editor!Idle.pc = "idle" /\ Editor!Idle \in Sends
  BY EditorIdle DEF EditorInv, EditorTypes, EditorHomes
<1>2. PICK next \in Sends :
        /\ ecall' = [ecall EXCEPT ![c] = next]
        /\ next = Editor!Idle \/ (/\ next.of = ecall[c].of /\ next.row = ecall[c].row
                                  /\ next.pc \in {"ask again", "sent", "in use", "counted"}
                                  /\ next.pc = "counted" => next.kind = "delete")
  <2>1. CASE Editor!Confirm(c)
    <3> DEFINE next == [ecall[c] EXCEPT !.pc = "sent"]
    <3>1. ecall' = [ecall EXCEPT ![c] = next]
      BY <2>1 DEF Editor!Confirm, EditorInv, EditorTypes
    <3>2. next \in Sends /\ next.of = ecall[c].of /\ next.row = ecall[c].row /\ next.pc = "sent"
      BY <1>1 DEF Sends
    <3> HIDE DEF next
    <3>3. QED  BY <3>1, <3>2
  <2>2. CASE Editor!Refuse(c)
    BY <1>1, <2>2 DEF Editor!Refuse
  <2>3. CASE Editor!CountUse(c)
    <3> DEFINE next == [ecall[c] EXCEPT !.pc = IF ecall[c].of.id \in tused THEN "in use" ELSE "counted"]
    <3>1. ecall' = [ecall EXCEPT ![c] = next]
      BY <2>3 DEF Editor!CountUse, EditorInv, EditorTypes
    <3>2. /\ next \in Sends /\ next.of = ecall[c].of /\ next.row = ecall[c].row /\ next.pc \in {"in use", "counted"}
          /\ next.kind = "delete"
      BY <1>1, <2>3 DEF Sends, Editor!CountUse
    <3> HIDE DEF next
    <3>3. QED  BY <3>1, <3>2
  <2>4. CASE Editor!ArchiveInstead(c)
    <3> DEFINE archived == ecall[c].of.status = "archived"
               next == [ecall[c] EXCEPT !.kind = "save", !.status = "archived",
                           !.pc = IF archived THEN "sent" ELSE "ask again"]
    <3>1. ecall' = [ecall EXCEPT ![c] = next]
      BY <2>4 DEF Editor!ArchiveInstead, EditorInv, EditorTypes
    <3>2. next \in Sends /\ next.of = ecall[c].of /\ next.row = ecall[c].row /\ next.pc \in {"sent", "ask again"}
      BY <1>1, EditorFinite DEF Sends, Editor!TemplateEditorAssumption
    <3> HIDE DEF next
    <3>3. QED  BY <3>1, <3>2
  <2>5. QED  BY <2>1, <2>2, <2>3, <2>4
<1>3. /\ UNCHANGED <<tdb, tused, selected, open, home, stray, unsaved, mixed, left>>
      /\ ecall[c].pc \in {"ask", "ask again", "sent", "in use"}
  BY DEF Editor!Confirm, Editor!Refuse, Editor!CountUse, Editor!ArchiveInstead
<1>4. Fits(next, home, stray)
  BY <1>1, <1>2, <1>3, EditorIdle DEF Fits
<1>5. EditorTypes' /\ EditorHomes' /\ Editor!UsedStays'
  BY <1>2, <1>3, <1>4, EditorStep DEF EditorInv, EditorTypes, EditorHomes
<1>6. ecall[c] # Editor!Idle
  BY <1>1, <1>3
<1>7. EditorTruth'
  BY <1>1, <1>2, <1>3, <1>6, EditorTruthRests
<1>8. QED  BY <1>5, <1>7 DEF EditorInv

\* A row of the table as a document.
LEMMA EditorRow ==
  ASSUME Editor!TemplateEditorAssumption, EditorTypes, NEW t \in Templates, Editor!TextStaysHome
  PROVE  /\ Editor!Row(t) \in Docs /\ Editor!Row(t).id = t /\ HomeOf(Editor!Row(t), home, stray)
         /\ tdb[t].there => IsRow(Editor!Row(t), tdb)
<1>1. tdb[t].text \in SUBSET Edits /\ tdb[t].status \in DraftStatuses
  BY DEF EditorTypes
<1>2. Editor!Row(t) \in Docs /\ Editor!Row(t).id = t /\ Editor!Row(t).text = tdb[t].text
  BY <1>1 DEF Editor!Row, Docs
<1>3. HomeOf(Editor!Row(t), home, stray)
  BY <1>2, EditorFinite DEF HomeOf, Editor!TextStaysHome, Editor!TemplateEditorAssumption
<1>4. Editor!Row(t) = [id |-> t, text |-> tdb[t].text, status |-> tdb[t].status]
  BY DEF Editor!Row
<1>5. QED  BY <1>2, <1>3, <1>4 DEF IsRow

LEMMA EditorGet ==
  ASSUME Editor!TemplateEditorAssumption, EditorInv, NEW c \in Calls, Editor!Get(c)
  PROVE  EditorInv'
<1> USE DEF Editor!Table, Editor!History, Editor!Page
<1> DEFINE t == ecall[c].of.id
           next == [ecall[c] EXCEPT !.pc = IF tdb[t].there THEN "ok" ELSE "failed", !.row = Editor!Row(t)]
<1>1. /\ ecall[c].pc = "sent" /\ ecall[c].kind = "open" /\ ecall' = [ecall EXCEPT ![c] = next]
      /\ UNCHANGED <<tdb, tused, selected, open, unsaved, left, home, stray, mixed>>
  BY DEF Editor!Get, EditorInv, EditorTypes
<1>2. ecall[c] \in Sends /\ Fits(ecall[c], home, stray) /\ Editor!Idle.pc = "idle"
  BY EditorIdle DEF EditorInv, EditorTypes, EditorHomes
<1>3. t \in Templates
  BY <1>1, <1>2 DEF Fits
<1>4. /\ Editor!Row(t) \in Docs /\ Editor!Row(t).id = t /\ HomeOf(Editor!Row(t), home, stray)
      /\ tdb[t].there => IsRow(Editor!Row(t), tdb)
  BY <1>3, EditorRow DEF EditorInv, EditorHomes
<1>5. /\ next \in Sends /\ next.of = ecall[c].of /\ next.row = Editor!Row(t) /\ next.kind = "open"
      /\ next.pc \in {"ok", "failed"} /\ (next.pc = "ok" => tdb[t].there)
  BY <1>1, <1>2, <1>4 DEF Sends
<1> HIDE DEF next
<1>6. Fits(next, home, stray)
  BY <1>2, <1>3, <1>4, <1>5 DEF Fits
<1>7. EditorTypes' /\ EditorHomes' /\ Editor!UsedStays'
  BY <1>1, <1>5, <1>6, EditorStep DEF EditorInv, EditorTypes, EditorHomes
<1>8. ecall[c] # Editor!Idle
  BY <1>1, <1>2
<1>9. EditorTruth'
  BY <1>1, <1>4, <1>5, <1>8, EditorTruthRests
<1>10. QED  BY <1>7, <1>9 DEF EditorInv

\* What is saved is the text of the click, and it comes back as it was saved.
LEMMA EditorPatch ==
  ASSUME Editor!TemplateEditorAssumption, EditorInv, NEW c \in Calls, Editor!Patch(c)
  PROVE  EditorInv'
<1> USE DEF Editor!Table, Editor!History, Editor!Page
<1> DEFINE t == ecall[c].of.id
           now == IF ecall[c].status = "none" THEN tdb[t].status ELSE ecall[c].status
           row == [ecall[c].of EXCEPT !.status = now]
<1>1. /\ ecall[c].pc = "sent" /\ ecall[c].kind = "save"
      /\ UNCHANGED <<tused, selected, open, unsaved, left, home, stray, mixed>>
  BY DEF Editor!Patch
<1>2. ecall[c] \in Sends /\ Fits(ecall[c], home, stray) /\ Editor!Idle.pc = "idle"
  BY EditorIdle DEF EditorInv, EditorTypes, EditorHomes
<1>3. t \in Templates /\ ecall[c] # Editor!Idle /\ ecall[c].of \in Docs
  BY <1>1, <1>2 DEF Fits, Sends
<1>4. CASE ~tdb[t].there
  <2> DEFINE next == [ecall[c] EXCEPT !.pc = "failed"]
  <2>1. UNCHANGED tdb /\ ecall' = [ecall EXCEPT ![c] = next]
    BY <1>4 DEF Editor!Patch, EditorInv, EditorTypes
  <2>2. next \in Sends /\ next.of = ecall[c].of /\ next.row = ecall[c].row /\ next.pc = "failed"
    BY <1>2 DEF Sends
  <2> HIDE DEF next
  <2>3. Fits(next, home, stray)
    BY <1>2, <1>3, <2>2 DEF Fits
  <2>4. EditorTypes' /\ EditorHomes' /\ Editor!UsedStays'
    BY <1>1, <2>1, <2>2, <2>3, EditorStep DEF EditorInv, EditorTypes, EditorHomes
  <2>5. EditorTruth'
    BY <1>1, <1>3, <2>1, <2>2, EditorTruthRests
  <2>6. QED  BY <2>4, <2>5 DEF EditorInv
<1>5. CASE tdb[t].there
  <2> DEFINE next == [ecall[c] EXCEPT !.pc = "ok", !.row = row]
             saved == [tdb[t] EXCEPT !.text = ecall[c].of.text, !.status = now]
  <2>1. tdb' = [tdb EXCEPT ![t] = saved] /\ ecall' = [ecall EXCEPT ![c] = next]
    BY <1>3, <1>5 DEF Editor!Patch, EditorInv, EditorTypes
  <2>2. now \in DraftStatuses /\ ecall[c].of.text \in SUBSET Edits
    BY <1>2, <1>3 DEF Sends, Docs, EditorInv, EditorTypes
  <2>3. row \in Docs /\ row.id = t /\ row.text = ecall[c].of.text /\ row.status = now
        /\ row = [id |-> row.id, text |-> row.text, status |-> row.status]
    BY <1>3, <2>2 DEF Docs
  <2>4. /\ saved \in [there : BOOLEAN, text : SUBSET Edits, status : DraftStatuses]
        /\ saved.text = ecall[c].of.text /\ saved.status = now /\ saved.there
    BY <1>3, <1>5, <2>2 DEF EditorInv, EditorTypes
  <2> HIDE DEF row, now
  <2>5. next \in Sends /\ next.of = ecall[c].of /\ next.row = row /\ next.pc = "ok" /\ next.kind = "save"
    BY <1>1, <1>2, <2>3 DEF Sends
  <2> HIDE DEF next, saved
  <2>6. /\ tdb' \in [Templates -> [there : BOOLEAN, text : SUBSET Edits, status : DraftStatuses]]
        /\ tdb'[t] = saved /\ \A u \in Templates \ {t} : tdb'[u] = tdb[u]
    BY <1>3, <2>1, <2>4 DEF EditorInv, EditorTypes
  <2>7. HomeOf(row, home, stray)
    BY <1>2, <2>3 DEF Fits, HomeOf
  <2>8. Fits(next, home, stray)
    BY <1>2, <1>3, <2>3, <2>5, <2>7 DEF Fits
  <2>9. Onward(home, stray)
    BY DEF Onward
  <2>10. Remains' <= Cardinality(Unmade')
    BY <1>1 DEF EditorInv, EditorTypes, Remains, Unmade
  <2>11. EditorTypes'
    BY <1>1, <2>1, <2>5, <2>6, <2>10, EditorMoves DEF EditorInv, EditorTypes
  <2>12. \A d \in Calls : Fits(ecall'[d], home', stray')
    BY <1>1, <2>1, <2>5, <2>8, <2>9, EditorHomesMove DEF EditorInv
  <2>13. Editor!TextStaysHome'
    BY <1>1, <1>2, <2>4, <2>6 DEF EditorInv, EditorHomes, Editor!TextStaysHome, Fits, HomeOf
  <2>14. EditorHomes'
    BY <1>1, <2>12, <2>13 DEF EditorInv, EditorHomes
  <2>15. Editor!UsedStays'
    BY <1>1, <2>4, <2>6 DEF EditorInv, EditorTypes, Editor!UsedStays
  <2>16. EditorTruth'
    <3> SUFFICES ASSUME ~mixed' PROVE EditorTruth'
      BY DEF EditorTruth
    <3>1. \A d \in Calls \ {c} : ecall[d] = Editor!Idle
      BY <1>1, <1>3 DEF EditorInv, EditorTruth
    <3>2. ecall'[c] = next /\ \A d \in Calls \ {c} : ecall'[d] = Editor!Idle
      BY <2>1, <2>5, <3>1, EditorMoves DEF EditorInv
    <3>3. IsRow(row, tdb')
      BY <2>3, <2>4, <2>6 DEF IsRow
    <3>4. QED  BY <1>2, <2>5, <3>2, <3>3 DEF EditorTruth
  <2>17. QED  BY <2>11, <2>14, <2>15, <2>16 DEF EditorInv
<1>6. QED  BY <1>4, <1>5

LEMMA EditorRemove ==
  ASSUME Editor!TemplateEditorAssumption, EditorInv, NEW c \in Calls, Editor!Remove(c)
  PROVE  EditorInv'
<1> USE DEF Editor!Table, Editor!History, Editor!Page
<1> DEFINE t == ecall[c].of.id
<1>1. /\ ecall[c].pc = "counted" /\ UNCHANGED <<tused, selected, open, unsaved, left, home, stray, mixed>>
  BY DEF Editor!Remove
<1>2. ecall[c] \in Sends /\ Fits(ecall[c], home, stray) /\ Editor!Idle.pc = "idle"
  BY EditorIdle DEF EditorInv, EditorTypes, EditorHomes
<1>3. t \in Templates /\ ecall[c] # Editor!Idle
  BY <1>1, <1>2 DEF Fits, Sends
<1>4. CASE ~(tdb[t].there /\ t \notin tused)
  <2> DEFINE next == [ecall[c] EXCEPT !.pc = "failed"]
  <2>1. UNCHANGED tdb /\ ecall' = [ecall EXCEPT ![c] = next]
    BY <1>4 DEF Editor!Remove, EditorInv, EditorTypes
  <2>2. next \in Sends /\ next.of = ecall[c].of /\ next.row = ecall[c].row /\ next.pc = "failed"
    BY <1>2 DEF Sends
  <2> HIDE DEF next
  <2>3. Fits(next, home, stray)
    BY <1>2, <1>3, <2>2 DEF Fits
  <2>4. EditorTypes' /\ EditorHomes' /\ Editor!UsedStays'
    BY <1>1, <2>1, <2>2, <2>3, EditorStep DEF EditorInv, EditorTypes, EditorHomes
  <2>5. EditorTruth'
    BY <1>1, <1>3, <2>1, <2>2, EditorTruthRests
  <2>6. QED  BY <2>4, <2>5 DEF EditorInv
<1>5. CASE tdb[t].there /\ t \notin tused
  <2> DEFINE next == [ecall[c] EXCEPT !.pc = "ok"]
             removed == [tdb[t] EXCEPT !.there = FALSE]
  <2>1. tdb' = [tdb EXCEPT ![t] = removed] /\ ecall' = [ecall EXCEPT ![c] = next]
    BY <1>3, <1>5 DEF Editor!Remove, EditorInv, EditorTypes
  <2>2. removed \in [there : BOOLEAN, text : SUBSET Edits, status : DraftStatuses] /\ removed.text = tdb[t].text
    BY <1>3 DEF EditorInv, EditorTypes
  <2>3. next \in Sends /\ next.of = ecall[c].of /\ next.row = ecall[c].row /\ next.pc = "ok" /\ next.kind = ecall[c].kind
        /\ next.edit = ecall[c].edit
    BY <1>2 DEF Sends
  <2> HIDE DEF next, removed
  <2>4. next.kind = "delete"
    BY <1>1, <1>2, <2>3 DEF Fits
  <2>5. Fits(next, home, stray)
    BY <1>2, <1>3, <2>3, <2>4 DEF Fits
  <2>6. /\ tdb' \in [Templates -> [there : BOOLEAN, text : SUBSET Edits, status : DraftStatuses]]
        /\ \A u \in Templates : tdb'[u].text = tdb[u].text /\ (u # t => tdb'[u] = tdb[u])
    BY <1>3, <2>1, <2>2 DEF EditorInv, EditorTypes
  <2>7. Onward(home, stray)
    BY DEF Onward
  <2>8. Remains' <= Cardinality(Unmade')
    BY <1>1 DEF EditorInv, EditorTypes, Remains, Unmade
  <2>9. EditorTypes'
    BY <1>1, <2>1, <2>3, <2>6, <2>8, EditorMoves DEF EditorInv, EditorTypes
  <2>10. \A d \in Calls : Fits(ecall'[d], home', stray')
    BY <1>1, <2>1, <2>3, <2>5, <2>7, EditorHomesMove DEF EditorInv
  <2>11. EditorHomes'
    BY <1>1, <2>6, <2>10 DEF EditorInv, EditorHomes, Editor!TextStaysHome
  <2>12. Editor!UsedStays'
    BY <1>1, <1>5, <2>6 DEF EditorInv, EditorTypes, Editor!UsedStays
  <2>13. EditorTruth'
    <3> SUFFICES ASSUME ~mixed' PROVE EditorTruth'
      BY DEF EditorTruth
    <3>1. \A d \in Calls \ {c} : ecall[d] = Editor!Idle
      BY <1>1, <1>3 DEF EditorInv, EditorTruth
    <3>2. ecall'[c] = next /\ \A d \in Calls \ {c} : ecall'[d] = Editor!Idle
      BY <2>1, <2>3, <3>1, EditorMoves DEF EditorInv
    <3>3. QED  BY <1>2, <2>3, <2>4, <3>2 DEF EditorTruth
  <2>14. QED  BY <2>9, <2>11, <2>12, <2>13 DEF EditorInv
<1>6. QED  BY <1>4, <1>5

LEMMA EditorUse ==
  ASSUME Editor!TemplateEditorAssumption, EditorInv, NEW t \in Templates, Editor!Use(t)
  PROVE  EditorInv'
<1> USE DEF Editor!History, Editor!Page
<1>1. /\ Editor!Spend("use") /\ tdb[t].there /\ tused' = tused \cup {t}
      /\ UNCHANGED <<tdb, selected, open, unsaved, ecall, home, stray, mixed>>
  BY DEF Editor!Use
<1>2. left' \in [Editor!Events -> Nat] /\ Remains' = Remains
  BY <1>1, EditorSpends DEF EditorInv, Editor!Events
<1>3. EditorTypes'
  BY <1>1, <1>2, EditorUnmadeStays DEF EditorInv, EditorTypes
<1>4. EditorHomes' /\ EditorTruth' /\ Editor!UsedStays'
  BY <1>1 DEF EditorInv, EditorHomes, EditorTruth, Editor!UsedStays, Editor!TextStaysHome
<1>5. QED  BY <1>3, <1>4 DEF EditorInv

LEMMA EditorOther ==
  ASSUME Editor!TemplateEditorAssumption, EditorInv, NEW t \in Templates, Editor!Other(t)
  PROVE  EditorInv'
<1> USE DEF Editor!Page
<1> DEFINE n == Editor!New
           next == [tdb[t] EXCEPT !.text = @ \cup {n}]
<1>1. /\ Editor!Spend("other") /\ Editor!Meant(n, t) /\ mixed'
      /\ tdb' = [tdb EXCEPT ![t] = next]
      /\ UNCHANGED <<tused, selected, open, unsaved, ecall, stray>>
  BY DEF Editor!Other, EditorInv, EditorTypes
<1>2. /\ n \in Edits /\ home[n] = 0 /\ Onward(home', stray)
      /\ home' \in [Edits -> Templates \cup {0}] /\ home'[n] = t
      /\ left' \in [Editor!Events -> Nat] /\ Remains' <= Cardinality(Unmade')
  BY <1>1, EditorMakes DEF EditorInv
<1> HIDE DEF n
<1>3. /\ next \in [there : BOOLEAN, text : SUBSET Edits, status : DraftStatuses]
      /\ next.text = tdb[t].text \cup {n} /\ next.there = tdb[t].there
  BY <1>2 DEF EditorInv, EditorTypes
<1> HIDE DEF next
<1>4. /\ tdb' \in [Templates -> [there : BOOLEAN, text : SUBSET Edits, status : DraftStatuses]]
      /\ tdb'[t] = next /\ \A u \in Templates \ {t} : tdb'[u] = tdb[u]
  BY <1>1, <1>3 DEF EditorInv, EditorTypes
<1>5. EditorTypes'
  BY <1>1, <1>2, <1>4 DEF EditorInv, EditorTypes
<1>6. Editor!TextStaysHome'
  <2>1. ASSUME NEW u \in Templates, NEW e \in tdb'[u].text \ stray PROVE home'[e] = u
    <3>1. CASE e = n /\ u = t
      BY <1>2, <3>1
    <3>2. CASE e \in tdb[u].text
      <4>1. home[e] = u /\ e \in Edits /\ u # 0
        BY <2>1, <3>2, EditorFinite DEF EditorInv, EditorHomes, EditorTypes, Editor!TextStaysHome, Editor!TemplateEditorAssumption
      <4>2. QED  BY <1>2, <4>1 DEF Onward
    <3>3. QED  BY <1>3, <1>4, <2>1, <3>1, <3>2
  <2>2. QED  BY <1>1, <2>1 DEF Editor!TextStaysHome
<1>7. HomeOf(selected', home', stray')
  BY <1>1, <1>2, EditorHomeKept DEF EditorInv, EditorTypes, EditorHomes
<1>8. \A c \in Calls : Fits(ecall'[c], home', stray')
  BY <1>1, <1>2, EditorFitKept DEF EditorInv, EditorTypes, EditorHomes
<1>9. EditorTruth'
  BY <1>1 DEF EditorTruth
<1>10. Editor!UsedStays'
  BY <1>1, <1>3, <1>4 DEF EditorInv, EditorTypes, Editor!UsedStays
<1>11. QED  BY <1>5, <1>6, <1>7, <1>8, <1>9, <1>10 DEF EditorInv, EditorHomes

\* An answer ends its request.
LEMMA EditorEnds ==
  ASSUME Editor!TemplateEditorAssumption, EditorInv, NEW c \in Calls, ecall[c].pc # "idle",
         Editor!Ends(c), UNCHANGED <<tdb, tused, home>>, selected' \in Docs, HomeOf(selected', home, stray'),
         stray \subseteq stray', stray' \subseteq Edits, left' = left \/ Editor!Spend("lost"),
         ~mixed' => ~mixed, ~mixed' /\ open' /\ ~unsaved' => IsRow(selected', tdb)
  PROVE  EditorInv'
<1>1. ecall' = [ecall EXCEPT ![c] = Editor!Idle]
  BY DEF Editor!Ends
<1>2. Editor!Idle \in Sends /\ Editor!Idle.pc = "idle" /\ Fits(Editor!Idle, home, stray')
  BY EditorIdle
<1>3. EditorTypes' /\ EditorHomes' /\ Editor!UsedStays'
  BY <1>1, <1>2, EditorStep
<1>4. EditorTruth'
  <2> SUFFICES ASSUME ~mixed' PROVE EditorTruth'
    BY DEF EditorTruth
  <2>1. \A d \in Calls \ {c} : ecall[d] = Editor!Idle
    BY <1>2 DEF EditorInv, EditorTruth
  <2>2. \A d \in Calls : ecall'[d] = Editor!Idle
    BY <1>1, <1>2, <2>1, EditorMoves DEF EditorInv
  <2>3. QED  BY <1>2, <2>2 DEF EditorTruth
<1>5. QED  BY <1>3, <1>4 DEF EditorInv

LEMMA EditorAnswers ==
  ASSUME Editor!TemplateEditorAssumption, EditorInv, NEW c \in Calls,
         Editor!Opened(c) \/ Editor!Saved(c) \/ Editor!Deleted(c) \/ Editor!Inserted(c) \/ Editor!Told(c)
           \/ Editor!Lost(c)
  PROVE  EditorInv'
<1> USE DEF Editor!Table, Editor!History
<1>1. /\ ecall[c] \in Sends /\ Fits(ecall[c], home, stray) /\ stray \subseteq Edits
      /\ selected \in Docs /\ HomeOf(selected, home, stray)
  BY DEF EditorInv, EditorTypes, EditorHomes
<1>2. CASE Editor!Opened(c) \/ Editor!Saved(c)
  <2>1. /\ ecall[c].pc = "ok" /\ ecall[c].kind \in {"open", "save"} /\ Editor!Ends(c)
        /\ selected' = ecall[c].row /\ UNCHANGED <<tdb, tused, left, home, stray, mixed>>
    BY <1>2 DEF Editor!Opened, Editor!Saved
  <2>2. ~mixed => IsRow(ecall[c].row, tdb)
    BY <2>1 DEF EditorInv, EditorTruth
  <2>3. ecall[c].row \in Docs /\ HomeOf(ecall[c].row, home, stray)
    BY <1>1 DEF Sends, Fits
  <2>4. QED  BY <1>1, <2>1, <2>2, <2>3, EditorEnds
<1>3. CASE Editor!Deleted(c)
  <2>1. /\ ecall[c].pc = "ok" /\ Editor!Ends(c) /\ selected' = Editor!None /\ open' = FALSE
        /\ UNCHANGED <<tdb, tused, left, home, stray, mixed>>
    BY <1>3 DEF Editor!Deleted
  <2>2. QED  BY <1>1, <2>1, EditorIdle, EditorEnds
<1>4. CASE Editor!Inserted(c)
  <2>1. /\ ecall[c].pc = "ok" /\ ecall[c].kind = "link" /\ Editor!Ends(c)
        /\ UNCHANGED <<tdb, tused, left, home, open, mixed>>
    BY <1>4 DEF Editor!Inserted
  <2>2. ecall[c].edit \in Edits /\ home[ecall[c].edit] = ecall[c].of.id
    BY <1>1, <2>1 DEF Fits
  <2>3. CASE selected.id = 0
    <3>1. UNCHANGED <<selected, stray, unsaved>>
      BY <1>4, <2>3 DEF Editor!Inserted
    <3>2. ~mixed /\ open /\ ~unsaved => IsRow(selected, tdb)
      <4> SUFFICES ASSUME ~mixed, open, ~unsaved PROVE IsRow(selected, tdb)
        OBVIOUS
      <4>1. \A d \in Calls \ {c} : ecall[d] = Editor!Idle
        BY <2>1, EditorIdle DEF EditorInv, EditorTruth
      <4>2. \A d \in Calls : ~(ecall[d].pc = "ok" /\ ecall[d].kind \in {"save", "delete"})
        BY <2>1, <4>1, EditorIdle
      <4>3. QED  BY <4>2 DEF EditorInv, EditorTruth
    <3>3. QED  BY <1>1, <2>1, <3>1, <3>2, EditorEnds
  <2>4. CASE selected.id # 0
    <3>1. /\ selected' = [selected EXCEPT !.text = @ \cup {ecall[c].edit}] /\ unsaved' = TRUE
          /\ stray' = IF selected.id = ecall[c].of.id THEN stray ELSE stray \cup {ecall[c].edit}
      BY <1>4, <2>4 DEF Editor!Inserted
    <3>2. /\ selected' \in Docs /\ selected'.id = selected.id
          /\ selected'.text = selected.text \cup {ecall[c].edit}
      BY <1>1, <2>2, <3>1 DEF Docs
    <3>3. stray \subseteq stray' /\ stray' \subseteq Edits
      BY <1>1, <2>2, <3>1
    <3>4. HomeOf(selected', home, stray')
      BY <1>1, <2>2, <2>4, <3>1, <3>2 DEF HomeOf
    <3>5. QED  BY <2>1, <3>1, <3>2, <3>3, <3>4, EditorEnds
  <2>5. QED  BY <2>3, <2>4
<1>5. CASE Editor!Told(c)
  <2>1. /\ ecall[c].pc \in {"failed", "in use"} \/ (ecall[c].pc = "ok" /\ ecall[c].kind = "test")
        /\ Editor!Ends(c) /\ UNCHANGED <<tdb, tused, selected, open, left, home, stray, unsaved, mixed>>
    BY <1>5 DEF Editor!Told
  <2>2. ~mixed /\ open /\ ~unsaved => IsRow(selected, tdb)
    <3> SUFFICES ASSUME ~mixed, open, ~unsaved PROVE IsRow(selected, tdb)
      OBVIOUS
    <3>1. \A d \in Calls \ {c} : ecall[d] = Editor!Idle
      BY <2>1, EditorIdle DEF EditorInv, EditorTruth
    <3>2. \A d \in Calls : ~(ecall[d].pc = "ok" /\ ecall[d].kind \in {"save", "delete"})
      BY <2>1, <3>1, EditorIdle
    <3>3. QED  BY <3>2 DEF EditorInv, EditorTruth
  <2>3. QED  BY <1>1, <2>1, <2>2, EditorEnds
<1>6. CASE Editor!Lost(c)
  <2>1. /\ ecall[c].pc \in {"sent", "ok"} /\ Editor!Spend("lost") /\ Editor!Ends(c) /\ mixed'
        /\ UNCHANGED <<tdb, tused, selected, open, home, stray, unsaved>>
    BY <1>6 DEF Editor!Lost
  <2>2. QED  BY <1>1, <2>1, EditorEnds
<1>7. QED  BY <1>2, <1>3, <1>4, <1>5, <1>6

LEMMA EditorRests ==
  ASSUME EditorInv, Editor!Close \/ UNCHANGED Editor!vars
  PROVE  EditorInv'
<1>1. /\ UNCHANGED <<tdb, tused, selected, ecall, left, home, stray, unsaved, mixed>>
      /\ open' => open
  BY DEF Editor!Close, Editor!vars, Editor!Table, Editor!History
<1>2. EditorTypes'
  BY <1>1 DEF EditorInv, EditorTypes, Remains, Unmade
<1>3. EditorHomes' /\ Editor!UsedStays'
  BY <1>1 DEF EditorInv, EditorHomes, Editor!TextStaysHome, Editor!UsedStays
<1>4. EditorTruth'
  BY <1>1 DEF EditorInv, EditorTruth
<1>5. QED  BY <1>2, <1>3, <1>4 DEF EditorInv

LEMMA EditorAlways == ASSUME Editor!TemplateEditorAssumption PROVE Editor!Spec => []EditorInv
<1>1. Editor!Init => EditorInv
  BY EditorInit
<1>2. ASSUME EditorInv, [Editor!Next]_Editor!vars PROVE EditorInv'
  <2>1. CASE Editor!Type \/ Editor!Close \/ UNCHANGED Editor!vars
    BY <1>2, <2>1, EditorType, EditorRests
  <2>2. CASE \E t \in Templates : Editor!Use(t) \/ Editor!Other(t)
    BY <1>2, <2>2, EditorUse, EditorOther
  <2>3. ASSUME NEW c \in Calls,
               (\E t \in Templates : Editor!Choose(c, t)) \/ Editor!SaveButton(c) \/ Editor!ApplyStatus(c)
                 \/ Editor!Delete(c) \/ Editor!ShortenLink(c) \/ Editor!Test(c)
        PROVE  EditorInv'
    BY <1>2, <2>3, EditorClicks, EditorShorten
  <2>4. ASSUME NEW c \in Calls,
               Editor!Confirm(c) \/ Editor!Refuse(c) \/ Editor!Get(c) \/ Editor!Patch(c) \/ Editor!CountUse(c)
                 \/ Editor!Remove(c) \/ Editor!ArchiveInstead(c)
        PROVE  EditorInv'
    BY <1>2, <2>4, EditorGoesOn, EditorGet, EditorPatch, EditorRemove
  <2>5. ASSUME NEW c \in Calls,
               Editor!Opened(c) \/ Editor!Saved(c) \/ Editor!Deleted(c) \/ Editor!Inserted(c) \/ Editor!Told(c)
                 \/ Editor!Lost(c)
        PROVE  EditorInv'
    BY <1>2, <2>5, EditorAnswers
  <2>6. QED  BY <1>2, <2>1, <2>2, <2>3, <2>4, <2>5 DEF Editor!Next
<1>3. QED  BY <1>1, <1>2, PTL DEF Editor!Spec

\* Whatever answers replace or fill the editor, what was typed for a template is
\* never saved under another one, but for links that came after a change of it.
THEOREM EditorTextStaysHome == ASSUME Editor!TemplateEditorAssumption PROVE Editor!Spec => []Editor!TextStaysHome
<1>1. EditorInv => Editor!TextStaysHome
  BY DEF EditorInv, EditorHomes
<1>2. QED  BY <1>1, EditorAlways, PTL

\* A template is not deleted once a campaign refers to it, although the count of
\* the campaigns and the deletion are two statements.
THEOREM EditorUsedStays == ASSUME Editor!TemplateEditorAssumption PROVE Editor!Spec => []Editor!UsedStays
<1>1. EditorInv => Editor!UsedStays
  BY DEF EditorInv
<1>2. QED  BY <1>1, EditorAlways, PTL

\* An editor at rest that nothing was typed into shows the row of the database.
THEOREM EditorIsTrueAlways == ASSUME Editor!TemplateEditorAssumption PROVE Editor!Spec => []Editor!EditorIsTrue
<1>1. ASSUME EditorInv PROVE Editor!EditorIsTrue
  <2> SUFFICES ASSUME open, ~unsaved, ~mixed, \A c \in Calls : ecall[c] = Editor!Idle
               PROVE  tdb[selected.id].there /\ selected = Editor!Row(selected.id)
    BY DEF Editor!EditorIsTrue
  <2>1. Editor!Idle.pc = "idle"
    BY DEF Editor!Idle
  <2>2. IsRow(selected, tdb)
    BY <1>1, <2>1 DEF EditorInv, EditorTruth
  <2>3. QED  BY <2>2 DEF IsRow, Editor!Row
<1>2. QED  BY <1>1, EditorAlways, PTL

-----------------------------------------------------------------------------
(* What the runs check of the pages *)

\* Pages at rest show what the database holds, and what is done in them hits
\* what was shown, for any campaigns, rows, pages, templates and calls.
THEOREM PagesAlwaysHold ==
  (Live!Spec \/ [](focus # "live")) /\ (Table!Spec \/ [](focus # "table"))
    /\ (Editor!Spec \/ [](focus # "editor")) => []PagesHold
<1>1. Live!Spec => []Live!LiveShowsEnd
  BY LiveShowsEndAlways
<1>2. Table!Spec => []Table!BulkIsExact
  BY TableFits, BulkIsExactAlways
<1>3. Table!Spec => []Table!TableIsTrue
  BY TableFits, TableIsTrueAlways
<1>4. Editor!Spec => []Editor!TextStaysHome
  BY EditorFits, EditorTextStaysHome
<1>5. Editor!Spec => []Editor!UsedStays
  BY EditorFits, EditorUsedStays
<1>6. Editor!Spec => []Editor!EditorIsTrue
  BY EditorFits, EditorIsTrueAlways
<1>7. (Live!LiveShowsEnd \/ focus # "live") /\ ((Table!BulkIsExact /\ Table!TableIsTrue) \/ focus # "table")
        /\ ((Editor!TextStaysHome /\ Editor!UsedStays /\ Editor!EditorIsTrue) \/ focus # "editor")
          => PagesHold
  BY DEF PagesHold
<1>8. QED  BY <1>1, <1>2, <1>3, <1>4, <1>5, <1>6, <1>7, PTL
=============================================================================
