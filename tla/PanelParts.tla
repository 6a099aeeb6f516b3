----------------------------- MODULE PanelParts -----------------------------
(***************************************************************************)
(* The requests and pages of the web panel beside the synchronization:     *)
(* recipients and lists, the captcha, the cleanup of queues, the           *)
(* synchronization by hand, imports, the page that sends, the tables, the  *)
(* editor of templates and tracking.  They share no state; `focus' names   *)
(* the one that a behaviour is about, the others are at rest.              *)
(***************************************************************************)
EXTENDS Integers, FiniteSets, Sequences

CONSTANTS
  Emails, Bad, Lists, Reqs, Scripts, Situations,                     \* Audience
  Verifiers, MaxAttempts, MaxTries, RedisFaults,                     \* Captcha
  QueueCampaigns, ScanChunk, MaxScan, MaxJobs, MaxEvents,            \* QueueAdmin
  Books, MaxPages, Today, Picks, MaxOthers,                          \* AlibabaManual, of the same addresses
  Imported, Inputs, Concurrency, ListSize, Situated, MaxImports, ImportFaults,  \* ListImport
  Sendings, MaxSent, MaxReadings, LiveFaults,                        \* LiveSend
  TableRows, TableKinds, MaxClicks, MaxMishaps,                      \* TablePage
  Templates, Calls, DraftStatuses, Edits, Occasions,                 \* TemplateEditor
  Recipients, Visitors, MaxVisits                                    \* Tracking

VARIABLES focus,
  status, exists, size, member, entry, scoped, made, ask, serving, out, muted, loose,   \* Audience
  redis, local, creating, expired, check, tries, faults, accepted, wrong, stores, overlaps,  \* Captcha
  queue, standing, paused, op, pc, start, scan, removable, ids, events, steady, harmed, alone, before,  \* QueueAdmin
  suppressed, listed, book, pick, range, mpc, cursor, last, pages, cands, existing, fresh,  \* AlibabaManual
  matched, added, already, warned, failed, handled, mmade, cut, garbled, others, touched,
  input, held, onlist, ipage, current, shown, run, task, imade, doubled, strays, ifaults,  \* ListImport
  crow, cmade, call, id, live, source, told, wire, stream, readings, lfaults, after,  \* LiveSend
  tpage, db, control, table, sel, calls, bulk, clicks, mishaps, astray,  \* TablePage
  tdb, tused, selected, open, busy, ecall, left, home, stray, unsaved, mixed,  \* TemplateEditor
  forgotten, opens, total, visit, visits, twice, broken  \* Tracking

AudienceVars == <<status, exists, size, member, entry, scoped, made, ask, serving, out, muted, loose>>
CaptchaVars == <<redis, local, creating, expired, check, tries, faults, accepted, wrong, stores, overlaps>>
QueueVars == <<queue, standing, paused, op, pc, start, scan, removable, ids, events, steady, harmed, alone, before>>
ManualVars == <<suppressed, listed, book, pick, range, mpc, cursor, last, pages, cands, existing, fresh,
  matched, added, already, warned, failed, handled, mmade, cut, garbled, others, touched>>
ImportVars == <<input, held, onlist, ipage, current, shown, run, task, imade, doubled, strays, ifaults>>
LiveVars == <<crow, cmade, call, id, live, source, told, wire, stream, readings, lfaults, after>>
TableVars == <<tpage, db, control, table, sel, calls, bulk, clicks, mishaps, astray>>
EditorVars == <<tdb, tused, selected, open, busy, ecall, left, home, stray, unsaved, mixed>>
TrackVars == <<forgotten, opens, total, visit, visits, twice, broken>>

Audience == INSTANCE Audience WITH Starts <- Situations, req <- serving
Captcha == INSTANCE Captcha
Queues == INSTANCE QueueAdmin WITH Campaigns <- QueueCampaigns, Chunk <- ScanChunk, page <- scan
Manual == INSTANCE AlibabaManual WITH pc <- mpc, made <- mmade
Import == INSTANCE ListImport WITH Emails <- Imported, Size <- ListSize, Starts <- Situated,
  MaxFaults <- ImportFaults, suppressed <- held, member <- onlist, page <- ipage, made <- imade, faults <- ifaults
Live == INSTANCE LiveSend WITH Campaigns <- Sendings, MaxFaults <- LiveFaults,
  row <- crow, made <- cmade, faults <- lfaults
Table == INSTANCE TablePage WITH Rows <- TableRows, Pages <- TableKinds, page <- tpage, shown <- table
Editor == INSTANCE TemplateEditor WITH Statuses <- DraftStatuses, Budgets <- Occasions, db <- tdb, used <- tused, call <- ecall
Tracks == INSTANCE Tracking WITH Requests <- Visitors, MaxEvents <- MaxVisits,
  expired <- forgotten, events <- opens, req <- visit, asked <- visits, overlapped <- twice, cut <- broken

\* What the theorems assume of the constants.
ASSUME AudienceFits == Audience!AudienceAssumption
ASSUME CaptchaFits == Captcha!CaptchaAssumption
ASSUME ManualFits == Manual!ManualAssumption
ASSUME ImportFits == Import!ImportAssumption
ASSUME TableFits == Table!TableAssumption
ASSUME EditorFits == Editor!TemplateEditorAssumption
ASSUME TracksFit == Tracks!TrackingAssumption

-----------------------------------------------------------------------------
(* Properties: what each module promises, in its own words there *)

\* Nobody who unsubscribed is brought back by another request but a deliberate
\* one; a list outgrows its size only by additions that counted at once.
AudienceHolds == focus = "audience" => Audience!UnsubscribeHolds /\ Audience!ListsWithinSize

\* A captcha's code is used once and guessed a bounded number of times, and a
\* cleanup removes no job of a campaign that was active throughout.
GatesHold ==
  /\ focus = "captcha" => Captcha!CaptchaHolds
  /\ focus = "queues" => Queues!CleanupSpares

\* What a synchronization by hand reports, what the page of an import shows and
\* what the totals of opens and clicks say is what happened, but for what is
\* named there.
ReportsHold ==
  /\ focus = "manual" => Manual!HandledHolds /\ Manual!DaysAreRight /\ Manual!CountsAddUp
  /\ focus = "import" => Import!ShowsItsImport
  /\ focus = "track" => Tracks!TotalsFitReached

\* A page that has come to rest shows what the database holds, and what is done
\* in it hits what was shown and chosen, however the answers come.
PagesHold ==
  /\ focus = "live" => Live!LiveShowsEnd
  /\ focus = "table" => Table!BulkIsExact /\ Table!TableIsTrue
  /\ focus = "editor" => Editor!TextStaysHome /\ Editor!UsedStays /\ Editor!EditorIsTrue
=============================================================================
