---------------------------- MODULE TemplateEditor ----------------------------
(***************************************************************************)
(* The editor of the templates.  It holds one template, which the requests *)
(* of the page take from it when they are clicked and put into it when     *)
(* they are answered, whatever it holds by then.  One slot tells which     *)
(* request is under way, and any answer clears it; the table, which is     *)
(* read again after an answer, is TablePage's.                             *)
(***************************************************************************)
EXTENDS Integers, FiniteSets

CONSTANTS
  Templates,  \* numbers
  Calls,      \* requests that may be under way at once: numbers
  Statuses,   \* among them "archived"
  Edits,      \* what is typed, inserted, or changed by others: numbers
  Budgets     \* how often each event may happen, one scenario each

VARIABLES
  db,        \* mail_templates: [there, text, status], a text being the edits it is made of
  used,      \* templates that campaigns refer to
  selected, open,  \* the editor; 0 is no template
  busy,      \* actionLoading
  call,      \* requests: what was clicked, and how far it has come
  left,      \* what remains of the budget
  home,      \* history: the template an edit was meant for
  stray,     \* history: links inserted when another template was open
  unsaved,   \* history: something was typed since the editor was last filled
  mixed      \* history: requests overlapped, others interfered, or an answer was lost

vars == <<db, used, selected, open, busy, call, left, home, stray, unsaved, mixed>>
Table == <<db, used>>
Page == <<selected, open, busy, unsaved>>
History == <<home, stray>>

Events == {"type", "open", "save", "delete", "link", "test", "use", "other", "lost"}
None == [id |-> 0, text |-> {}, status |-> "none"]
Idle == [pc |-> "idle", kind |-> "none", of |-> None, status |-> "none", row |-> None, edit |-> 0]
Row(t) == [id |-> t, text |-> db[t].text, status |-> db[t].status]

\* There are as many edits as are made.
TemplateEditorAssumption ==
  /\ Templates \subseteq Nat \ {0} /\ {"draft", "archived"} \subseteq Statuses
  /\ Edits \subseteq Nat /\ IsFiniteSet(Edits)
  /\ Budgets \subseteq [Events -> Nat]
  /\ \A b \in Budgets : b["type"] + b["link"] + b["other"] <= Cardinality(Edits)

TypeOK ==
  /\ db \in [Templates -> [there : BOOLEAN, text : SUBSET Edits, status : Statuses]]
  /\ used \subseteq Templates /\ stray \subseteq Edits /\ home \in [Edits -> Templates \cup {0}]
  /\ selected.id \in Templates \cup {0} /\ selected.text \subseteq Edits
  /\ busy \in {"none", "open", "save", "delete", "link", "test"}
  /\ \A c \in Calls : call[c].pc \in {"idle", "ask", "ask again", "sent", "counted", "ok", "in use", "failed"}

Init ==
  /\ db = [t \in Templates |-> [there |-> TRUE, text |-> {}, status |-> "draft"]]
  /\ used = {} /\ selected = None /\ open = FALSE /\ busy = "none"
  /\ call = [c \in Calls |-> Idle] /\ left \in Budgets
  /\ home = [e \in Edits |-> 0] /\ stray = {} /\ unsaved = FALSE /\ mixed = FALSE

-----------------------------------------------------------------------------
(* The operator *)

\* A question lies over the page.
Asking == \E c \in Calls : call[c].pc \in {"ask", "ask again"}
Editing == open /\ selected.id # 0 /\ ~Asking

Spend(event) == left[event] > 0 /\ left' = [left EXCEPT ![event] = @ - 1]
New == CHOOSE e \in Edits : home[e] = 0 /\ \A d \in Edits : d < e => home[d] # 0
Meant(e, t) == home' = [home EXCEPT ![e] = t]

Type ==
  /\ Editing /\ Spend("type") /\ Meant(New, selected.id) /\ unsaved' = TRUE
  /\ selected' = [selected EXCEPT !.text = @ \cup {New}]
  /\ UNCHANGED <<Table, open, busy, call, stray, mixed>>

Close ==
  /\ Editing /\ open' = FALSE
  /\ UNCHANGED <<Table, selected, busy, call, left, History, unsaved, mixed>>

\* A request is clicked, and holds the editor's template from then on.
Send(c, record, slot) ==
  /\ call[c] = Idle /\ (\A d \in Calls : d < c => call[d] # Idle) /\ Spend(slot)
  /\ call' = [call EXCEPT ![c] = record]
  /\ busy' = IF record.pc = "ask" THEN busy ELSE slot
  /\ mixed' = (mixed \/ \E d \in Calls : call[d] # Idle)

\* `Edit', in the table.
Choose(c, t) ==
  /\ ~open /\ ~Asking
  /\ Send(c, [Idle EXCEPT !.pc = "sent", !.kind = "open", !.of.id = t], "open")
  /\ UNCHANGED <<Table, selected, open, History, unsaved>>

\* saveEditor, which asks before a change of status (Archive asks twice).  Only the buttons for
\* saving wait for a saving, `Apply status' does not.
Save(c, status) ==
  /\ Editing
  /\ Send(c, [Idle EXCEPT !.pc = IF status \in {"none", selected.status} THEN "sent" ELSE "ask",
                          !.kind = "save", !.of = selected, !.status = status], "save")
  /\ UNCHANGED <<Table, selected, open, History, unsaved>>
SaveButton(c) == busy # "save" /\ \E status \in Statuses \cup {"none"} : Save(c, status)
ApplyStatus(c) == \E status \in Statuses : Save(c, status)

Delete(c) ==
  /\ Editing /\ busy # "delete"
  /\ Send(c, [Idle EXCEPT !.pc = "ask", !.kind = "delete", !.of = selected], "delete")
  /\ UNCHANGED <<Table, selected, open, History, unsaved>>

ShortenLink(c) ==
  /\ Editing /\ busy # "link"
  /\ Send(c, [Idle EXCEPT !.pc = "ok", !.kind = "link", !.of = selected, !.edit = New], "link")
  /\ Meant(New, selected.id)
  /\ UNCHANGED <<Table, selected, open, stray, unsaved>>

\* A test mail, or a test of the account: for the slot.
Test(c) ==
  /\ Editing /\ busy # "test"
  /\ Send(c, [Idle EXCEPT !.pc = "ok", !.kind = "test", !.of = selected], "test")
  /\ UNCHANGED <<Table, selected, open, History, unsaved>>

Confirm(c) ==
  /\ call[c].pc \in {"ask", "ask again"}
  /\ call' = [call EXCEPT ![c].pc = "sent"] /\ busy' = call[c].kind
  /\ UNCHANGED <<Table, selected, open, left, History, unsaved, mixed>>
\* A no to the second question ends the deletion, which held the slot.
Refuse(c) ==
  /\ call[c].pc \in {"ask", "ask again"} /\ call' = [call EXCEPT ![c] = Idle]
  /\ busy' = IF call[c].pc = "ask again" THEN "none" ELSE busy
  /\ UNCHANGED <<Table, selected, open, unsaved, left, History, mixed>>

-----------------------------------------------------------------------------
(* The server *)

Get(c) ==
  LET t == call[c].of.id IN
  /\ call[c].pc = "sent" /\ call[c].kind = "open"
  /\ call' = [call EXCEPT ![c].pc = IF db[t].there THEN "ok" ELSE "failed", ![c].row = Row(t)]
  /\ UNCHANGED <<Table, Page, left, History, mixed>>

\* The text is written as it was posted, no version being compared.
Patch(c) ==
  LET t == call[c].of.id
      status == IF call[c].status = "none" THEN db[t].status ELSE call[c].status IN
  /\ call[c].pc = "sent" /\ call[c].kind = "save"
  /\ IF ~db[t].there THEN UNCHANGED db /\ call' = [call EXCEPT ![c].pc = "failed"]
     ELSE /\ db' = [db EXCEPT ![t].text = call[c].of.text, ![t].status = status]
          /\ call' = [call EXCEPT ![c].pc = "ok", ![c].row = [call[c].of EXCEPT !.status = status]]
  /\ UNCHANGED <<used, Page, left, History, mixed>>

\* DELETE counts the campaigns; the database refuses if one has come since.
CountUse(c) ==
  /\ call[c].pc = "sent" /\ call[c].kind = "delete"
  /\ call' = [call EXCEPT ![c].pc = IF call[c].of.id \in used THEN "in use" ELSE "counted"]
  /\ UNCHANGED <<Table, Page, left, History, mixed>>
\* Faulty variant: the count alone decides.
RemoveCounted(c) ==
  /\ call[c].pc = "counted"
  /\ db' = [db EXCEPT ![call[c].of.id].there = FALSE] /\ call' = [call EXCEPT ![c].pc = "ok"]
  /\ UNCHANGED <<used, Page, left, History, mixed>>
Remove(c) ==
  LET t == call[c].of.id IN
  /\ call[c].pc = "counted"
  /\ IF db[t].there /\ t \notin used
     THEN db' = [db EXCEPT ![t].there = FALSE] /\ call' = [call EXCEPT ![c].pc = "ok"]
     ELSE UNCHANGED db /\ call' = [call EXCEPT ![c].pc = "failed"]
  /\ UNCHANGED <<used, Page, left, History, mixed>>

\* A campaign is created; another operator saves the template.
Use(t) ==
  /\ Spend("use") /\ db[t].there /\ used' = used \cup {t}
  /\ UNCHANGED <<db, Page, call, History, mixed>>
Other(t) ==
  /\ Spend("other") /\ db[t].there /\ mixed' = TRUE
  /\ db' = [db EXCEPT ![t].text = @ \cup {New}] /\ Meant(New, t)
  /\ UNCHANGED <<used, Page, call, stray>>

-----------------------------------------------------------------------------
(* The answers *)

Ends(c) == call' = [call EXCEPT ![c] = Idle] /\ busy' = "none"

Opened(c) ==
  /\ call[c].pc = "ok" /\ call[c].kind = "open" /\ Ends(c)
  /\ selected' = call[c].row /\ open' = TRUE /\ unsaved' = FALSE
  /\ UNCHANGED <<Table, left, History, mixed>>

\* Faulty variant: the saved text is put under whatever template is open.
SavedInPlace(c) ==
  /\ call[c].pc = "ok" /\ call[c].kind = "save" /\ Ends(c)
  /\ selected' = [call[c].row EXCEPT !.id = IF selected.id = 0 THEN @ ELSE selected.id] /\ unsaved' = FALSE
  /\ UNCHANGED <<Table, open, left, History, mixed>>

\* The editor is filled with what was saved: what was typed since is lost, and
\* the template that was saved is back if another one was opened since.
Saved(c) ==
  /\ call[c].pc = "ok" /\ call[c].kind = "save" /\ Ends(c)
  /\ selected' = call[c].row /\ unsaved' = FALSE
  /\ UNCHANGED <<Table, open, left, History, mixed>>

\* The editor is emptied, whatever it holds.
Deleted(c) ==
  /\ call[c].pc = "ok" /\ call[c].kind = "delete" /\ Ends(c)
  /\ selected' = None /\ open' = FALSE /\ unsaved' = FALSE
  /\ UNCHANGED <<Table, left, History, mixed>>

\* A template in use may be archived instead: the text of the click is saved.
ArchiveInstead(c) ==
  LET archived == call[c].of.status = "archived" IN
  /\ call[c].pc = "in use"
  /\ call' = [call EXCEPT ![c].kind = "save", ![c].status = "archived",
                          ![c].pc = IF archived THEN "sent" ELSE "ask again"]
  /\ busy' = IF archived THEN "save" ELSE busy
  /\ UNCHANGED <<Table, selected, open, left, History, unsaved, mixed>>

Inserted(c) ==
  /\ call[c].pc = "ok" /\ call[c].kind = "link" /\ Ends(c)
  /\ IF selected.id = 0 THEN UNCHANGED <<selected, stray, unsaved>>
     ELSE /\ selected' = [selected EXCEPT !.text = @ \cup {call[c].edit}] /\ unsaved' = TRUE
          /\ stray' = IF selected.id = call[c].of.id THEN stray ELSE stray \cup {call[c].edit}
  /\ UNCHANGED <<Table, open, left, home, mixed>>

\* A test's answer, an error, or no to the archive.
Told(c) ==
  /\ call[c].pc \in {"failed", "in use"} \/ (call[c].pc = "ok" /\ call[c].kind = "test")
  /\ Ends(c) /\ UNCHANGED <<Table, selected, open, left, History, unsaved, mixed>>

Lost(c) ==
  /\ call[c].pc \in {"sent", "ok"} /\ Spend("lost")
  /\ Ends(c) /\ mixed' = TRUE
  /\ UNCHANGED <<Table, selected, open, History, unsaved>>

Next ==
  \/ Type \/ Close \/ (\E t \in Templates : Use(t) \/ Other(t))
  \/ \E c \in Calls :
       \/ (\E t \in Templates : Choose(c, t)) \/ SaveButton(c) \/ ApplyStatus(c) \/ Delete(c)
       \/ ShortenLink(c) \/ Test(c) \/ Confirm(c) \/ Refuse(c)
       \/ Get(c) \/ Patch(c) \/ CountUse(c) \/ Remove(c)
       \/ Opened(c) \/ Saved(c) \/ Deleted(c) \/ ArchiveInstead(c) \/ Inserted(c) \/ Told(c) \/ Lost(c)

Spec == Init /\ [][Next]_vars

-----------------------------------------------------------------------------
(* Properties *)

\* What is typed for a template is never saved under another one, however the
\* answers come: only a link may be, that was asked for in one and inserted
\* into another.
TextStaysHome == \A t \in Templates : \A e \in db[t].text \ stray : home[e] = t

\* A template that campaigns refer to is not deleted, whenever they came.
UsedStays == \A t \in used : db[t].there

\* With one request at a time and nothing typed since the editor was filled, it
\* shows what the database holds.
EditorIsTrue ==
  open /\ ~unsaved /\ ~mixed /\ (\A c \in Calls : call[c] = Idle) =>
    db[selected.id].there /\ selected = Row(selected.id)
=============================================================================
