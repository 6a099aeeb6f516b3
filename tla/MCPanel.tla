------------------------------- MODULE MCPanel -------------------------------
(***************************************************************************)
(* The instance of AlibabaSync with operators, and small instances of the  *)
(* modules about the other requests and pages of the web panel.            *)
(***************************************************************************)
EXTENDS MCAlibabaSync, PanelParts

CONSTANTS x1, x2, v1, v2

VARIABLES time, counter, requests, unreached, counted, passed, unjust  \* ExternalLimit

LimitVars == <<time, counter, requests, unreached, counted, passed, unjust>>

DataVars == <<AudienceVars, CaptchaVars, QueueVars>>
RequestVars == <<ManualVars, ImportVars>>
PagesVars == <<LiveVars, TableVars>>
LateVars == <<EditorVars, LimitVars, TrackVars>>
PanelVars == <<vars, DataVars, RequestVars, PagesVars, LateVars>>

-----------------------------------------------------------------------------
(* Recipients, lists and suppressions; the captcha; the queues *)

\* An unsubscribe beside any other request and one that adds or lifts; an
\* addition beside two others, or two removals.
Asked(what, on, lists, flag) == [op |-> what, on |-> on, lists |-> lists, flag |-> flag]
Adds == {Asked("import", {1, 2}, {1}, FALSE), Asked("import", {1, 2}, {2}, TRUE),
         Asked("add", {1}, {1}, FALSE), Asked("add", {1, 2}, {1}, FALSE), Asked("byid", {2}, {1}, FALSE)}
Removals == {Asked(o, {1}, {1}, FALSE) : o \in {"remove", "validate", "removeInvalid",
               "removeSuppressed", "clear", "resize", "drop"}}
  \cup {Asked("bulkRemove", {1, 2}, {1}, TRUE), Asked("bulkRemove", {1}, {1, 2}, FALSE)}
Filter == Asked("filter", {}, {}, FALSE)
Suppressing == {Asked("suppress", {1}, {}, FALSE), Asked("scope", {1}, {1}, FALSE),
  Asked("suppressAll", {1, 2}, {}, FALSE), Asked("failures", {1, 2}, {}, TRUE),
  Asked("unsuppress", {1}, {}, FALSE), Filter, Asked("filter", {}, {}, TRUE)}
Unsubscribe == Asked("unsubscribe", {1}, {1, 2}, TRUE)
\* without the suppression, and without leaving the lists
Milder == {Asked("unsubscribe", {1}, {1, 2}, FALSE), Asked("unsubscribe", {1}, {}, TRUE)}
AudienceScripts == {f \in [1..3 -> Adds \cup Removals \cup Suppressing \cup {Unsubscribe} \cup Milder] :
  \/ f[1] = Unsubscribe /\ f[2] \notin Milder /\ f[3] \in Adds \cup {Filter}
  \/ f[1] \in Milder /\ f[2] \in Adds /\ f[3] = Filter
  \/ f[1] \in Adds /\ f[2] \in Adds \cup Removals /\ f[3] = f[2]}
KnownOrNot == {[known |-> known, member |-> [l \in {1, 2} |-> IF l = 1 THEN known ELSE {}],
            size |-> 1, reason |-> reason] : known \in {{}, {1}}, reason \in {"none", "manual", "page"}}

AudienceRest == Audience!Init /\ ask = [r \in 1..3 |-> IF r = 1 THEN Unsubscribe ELSE Filter] /\ status[1] = "active"
                  /\ entry[1].reason = "page"
QueueRest == Queues!Init /\ queue = <<>> /\ \A c \in {x1, x2} : standing[c] = "active"

-----------------------------------------------------------------------------
(* The synchronization by hand; the import of a list *)

Address(e, k) == [email |-> e, kind |-> k]
Leaf(rows, next) == [rows |-> rows, next |-> next]
SomeBooks == {
  (0 :> Leaf({Address(1, "invalid"), Address(2, "complaint")}, 1))
    @@ (1 :> Leaf({Address(2, "temporary"), Address(0, "invalid")}, 0)),
  (0 :> Leaf({Address(1, "hard_bounce")}, 1)) @@ (1 :> Leaf({Address(2, "complaint")}, 1)),
  (0 :> Leaf({Address(1, "complaint")}, 1)) @@ (1 :> Leaf({}, 2))
    @@ (2 :> Leaf({Address(2, "blocked_rejected")}, 3)) @@ (3 :> Leaf({Address(2, "complaint")}, 0))}
Pick(mode, from, to, all, leave) == [mode |-> mode, from |-> from, to |-> to, leave |-> leave,
  kinds |-> IF all THEN {"invalid", "hard_bounce", "complaint", "blocked_rejected"} ELSE {"complaint"}]
SomePicks == {Pick("real", 12, 39, TRUE, TRUE), Pick("real", 5, 40, FALSE, TRUE),
          Pick("mock", 30, 40, TRUE, FALSE), Pick("mock", 30, 40, TRUE, TRUE)}
  \cup {Pick(m, f, t, TRUE, FALSE) :
          m \in {"disabled", "unauthorized"}, f \in {5, 12, 39, 40, 41}, t \in {5, 12, 39, 40, 41}}

Addresses == 1..4
Files == {[mode |-> "csv", chunks |-> <<<<1>>, <<1>>, <<2, 3>>, <<4, 4>>>>, global |-> FALSE, elsewhere |-> {}],
  [mode |-> "csv", chunks |-> <<<<1, 2>>, <<2, 0, 3>>, <<4>>>>, global |-> FALSE, elsewhere |-> {1}],
  [mode |-> "text", chunks |-> <<<<1, 2>>, <<2, 0, 3>>, <<4>>>>, global |-> TRUE, elsewhere |-> {1}]}
EmptyOrNot == {[member |-> {}, suppressed |-> {}], [member |-> {2}, suppressed |-> {2, 3}]}

ManualRest == Manual!Init /\ suppressed = {} /\ 3 \in DOMAIN book /\ pick = Pick("mock", 30, 40, TRUE, TRUE)
ImportRest == Import!Init /\ onlist = {} /\ input.mode = "csv" /\ Len(input.chunks) = 3

-----------------------------------------------------------------------------
(* Pages *)

\* Suppressions, SMTP accounts, campaigns and lists.
Bulk(value, on, each, keeps) == [value |-> value, on |-> on, each |-> each, keeps |-> keeps]
SomeTables == {
  [filtered |-> TRUE, twice |-> FALSE, patches |-> FALSE, captures |-> FALSE, prunes |-> FALSE, room |-> 1,
   bulks |-> {Bulk("on", "text", TRUE, TRUE), Bulk("gone", "selection", FALSE, FALSE),
              Bulk("gone", "filter", FALSE, FALSE)}],
  [filtered |-> TRUE, twice |-> FALSE, patches |-> FALSE, captures |-> FALSE, prunes |-> FALSE, room |-> 2,
   bulks |-> {}],
  [filtered |-> FALSE, twice |-> FALSE, patches |-> TRUE, captures |-> FALSE, prunes |-> TRUE, room |-> 2,
   bulks |-> {Bulk("off", "selection", TRUE, FALSE), Bulk("on", "selection", FALSE, TRUE),
              Bulk("gone", "selection", FALSE, FALSE)}],
  [filtered |-> TRUE, twice |-> TRUE, patches |-> FALSE, captures |-> FALSE, prunes |-> FALSE, room |-> 2,
   bulks |-> {}],
  [filtered |-> FALSE, twice |-> FALSE, patches |-> TRUE, captures |-> TRUE, prunes |-> FALSE, room |-> 2,
   bulks |-> {}]}

TableStart == Table!Init /\ db[1] = "on"
TableRest == TableStart /\ tpage.twice

-----------------------------------------------------------------------------
(* The editor of the templates; the limit of the external API *)

Clicks(type, choose, save, delete, link, test, use, other, lose) ==
  [type |-> type, open |-> choose, save |-> save, delete |-> delete, link |-> link, test |-> test,
   use |-> use, other |-> other, lost |-> lose]
SomeClicks == {Clicks(1, 2, 2, 0, 0, 0, 0, 0, 0), Clicks(1, 2, 1, 0, 1, 0, 0, 0, 0), Clicks(1, 1, 2, 0, 0, 1, 0, 0, 0),
               Clicks(0, 1, 2, 0, 0, 0, 0, 1, 1), Clicks(0, 2, 0, 2, 0, 0, 1, 0, 0), Clicks(1, 1, 1, 1, 0, 0, 1, 0, 0)}
EditorRest == Editor!Init /\ left["test"] = 1

\* Two processes of the panel.
External == INSTANCE ExternalLimit WITH Procs <- {x1, x2}, Redis <- v1, Limit <- 2, Length <- 2,
  MaxClock <- 4, MaxRequests <- 5, MaxFaults <- 2, clock <- time, faults <- unreached

-----------------------------------------------------------------------------
(* All of them *)

PanelInit ==
  /\ focus \in {"sync", "audience", "captcha", "queues", "manual", "import", "live", "table",
              "editor", "limit", "track"}
  /\ Init /\ Captcha!Init /\ Live!Init /\ External!Init /\ Tracks!Init
  /\ IF focus = "audience" THEN Audience!Init ELSE AudienceRest
  /\ IF focus = "queues" THEN Queues!Init ELSE QueueRest
  /\ IF focus = "manual" THEN Manual!Init ELSE ManualRest
  /\ IF focus = "import" THEN Import!Init ELSE ImportRest
  /\ IF focus = "table" THEN TableStart ELSE TableRest
  /\ IF focus = "editor" THEN Editor!Init ELSE EditorRest

PanelNext ==
  /\ UNCHANGED focus
  /\ \/ focus = "sync" /\ Next /\ UNCHANGED <<DataVars, RequestVars, PagesVars, LateVars>>
     \/ focus = "audience" /\ Audience!Next /\ UNCHANGED <<vars, CaptchaVars, QueueVars, RequestVars, PagesVars, LateVars>>
     \/ focus = "captcha" /\ Captcha!Next /\ UNCHANGED <<vars, AudienceVars, QueueVars, RequestVars, PagesVars, LateVars>>
     \/ focus = "queues" /\ Queues!Next /\ UNCHANGED <<vars, AudienceVars, CaptchaVars, RequestVars, PagesVars, LateVars>>
     \/ focus = "manual" /\ Manual!Next /\ UNCHANGED <<vars, DataVars, ImportVars, PagesVars, LateVars>>
     \/ focus = "import" /\ Import!Next /\ UNCHANGED <<vars, DataVars, ManualVars, PagesVars, LateVars>>
     \/ focus = "live" /\ Live!Next /\ UNCHANGED <<vars, DataVars, RequestVars, TableVars, LateVars>>
     \/ focus = "table" /\ Table!Next /\ UNCHANGED <<vars, DataVars, RequestVars, LiveVars, LateVars>>
     \/ focus = "editor" /\ Editor!Next /\ UNCHANGED <<vars, DataVars, RequestVars, PagesVars, LimitVars, TrackVars>>
     \/ focus = "limit" /\ External!Next /\ UNCHANGED <<vars, DataVars, RequestVars, PagesVars, EditorVars, TrackVars>>
     \/ focus = "track" /\ Tracks!Next /\ UNCHANGED <<vars, DataVars, RequestVars, PagesVars, EditorVars, LimitVars>>

PanelSpec == PanelInit /\ [][PanelNext]_<<focus, PanelVars>>

-----------------------------------------------------------------------------
(* Properties: what each module promises, in its own words there *)

\* The modules' variables keep their types; no stream is read once the live page
\* has left it.
PanelTypes ==
  /\ focus = "audience" => Audience!TypeOK
  /\ focus = "captcha" => Captcha!TypeOK
  /\ focus = "queues" => Queues!TypeOK
  /\ focus = "manual" => Manual!TypeOK
  /\ focus = "import" => Import!TypeOK
  /\ focus = "live" => Live!TypeOK
  /\ focus = "table" => Table!TypeOK
  /\ focus = "editor" => Editor!TypeOK
  /\ focus = "track" => Tracks!TypeOK
  /\ focus = "limit" => External!TypeOK

\* What adds up: a cleanup leaves no stale job behind when nobody interferes, the
\* external API lets no more than two windows' worth through, though Redis fails,
\* an import outgrows its list at most as often as it sends chunks at once and its
\* report has every token, a synchronization by hand misses no page without saying
\* so, and the totals of opens and clicks never exceed the events.
TotalsHold ==
  /\ focus = "queues" => Queues!CleanupIsThorough
  /\ focus = "limit" => External!LimitHolds
  /\ focus = "import" => Import!OverrunBounded /\ Import!ReportAddsUp
  /\ focus = "manual" => Manual!NoPageIsMissing
  /\ focus = "track" => Tracks!TotalsWithinEvents
=============================================================================
