----------------------------- MODULE SmtpParts -----------------------------
(***************************************************************************)
(* What goes on around the SMTP accounts: their bulk test, their daily     *)
(* target, the pacing of deliveries, the campaigns that they send, the     *)
(* rotation of their secrets, and the segments and short links of          *)
(* campaigns.  They share no state; `focus' names the one that a behaviour *)
(* is about, the others are at rest.                                       *)
(***************************************************************************)
EXTENDS Integers, FiniteSets, Sequences

CONSTANTS
  JobRows, Loops, Orders, Lost,                                           \* BulkTest
  Aimed, Looks, Plans, Requests, Calls, Delivered, Occasions,             \* RateControl
  Lanes, Rates, MaxWait, MaxClock, Waiting, MaxPending, Guard,            \* Pacing
  Senders, Rate, Receivers, Target, Posts, Situations, Chunk, MaxChanges, MaxStarts,  \* Creation
  Keepers, Procs, Scripts, MaxEdits,                                      \* SecretRotation
  Recipients, Campaigns, Queries, Pasts, PageSize, MaxEvents, MaxRuns,    \* Segments
  Htmls, MaxLinks, MaxOps, MaxMishaps                                     \* ShortLinks

VARIABLES focus,
  job, loop, health, sent, lost, ui, poll, late,                       \* BulkTest
  acct, poolSettings, lanes, summary, bust, req, cache, seen, call,    \* RateControl
  budget, plan, dropped, blind,
  clock, bucket, turn, mails, born, cursor, remaining, batch,          \* Pacing
  having, pooled, list, segment, template, suppressed, post, pc, read, campaign,
  dropping, changes, starts, answer, fit, held, fresh,                 \* Creation
  secret, env, ring, script, edits, word, settled,                     \* SecretRotation
  based, barred, gone, opened, clicked, sends, query, chore, stats, taken, happened, runs,
  calm, always, ever, refused, twice,                                  \* Segments
  original, html, todo, mappings, lpc, derived, linked, told, remote, table, lop, ops, lapses, own  \* ShortLinks

BulkVars == <<job, loop, health, sent, lost, ui, poll, late>>
RateVars == <<acct, poolSettings, lanes, summary, bust, req, cache, seen, call, budget, plan, dropped, blind>>
PaceVars == <<clock, bucket, turn, mails, born, cursor, remaining, batch>>
CreationVars == <<having, pooled, list, segment, template, suppressed, post, pc, read, campaign,
  dropping, changes, starts, answer, fit, held, fresh>>
RotationVars == <<secret, env, ring, script, edits, word, settled>>
SegmentVars == <<based, barred, gone, opened, clicked, sends, query, chore, stats, taken, happened, runs,
  calm, always, ever, refused, twice>>
LinkVars == <<original, html, todo, mappings, lpc, derived, linked, told, remote, table, lop, ops, lapses, own>>

Wide == INSTANCE BulkTest WITH Rows <- JobRows
Daily == INSTANCE RateControl WITH Accounts <- Aimed, Kinds <- Looks, Budgets <- Occasions,
  pool <- poolSettings, left <- budget, raced <- dropped
Lane == INSTANCE Pacing WITH Slots <- Lanes, Campaigns <- Waiting, slot <- turn, sent <- mails
Create == INSTANCE Creation WITH Accounts <- Senders, Recipients <- Receivers, Starts <- Situations, acct <- having
Secrets == INSTANCE SecretRotation WITH Accounts <- Keepers
Segment == INSTANCE Segments WITH Starts <- Pasts,
  listed <- based, suppressed <- barred, row <- sends, job <- chore, out <- taken, events <- happened,
  barred <- refused
Links == INSTANCE ShortLinks WITH pc <- lpc, campaign <- linked, answer <- told, cache <- table,
  op <- lop, mishaps <- lapses

\* What the theorems assume of the constants.
ASSUME WideFits == Wide!BulkTestAssumption
ASSUME DailyFits == Daily!RateAssumption
ASSUME LaneFits == Lane!PacingAssumption
ASSUME CreateFits == Create!CreationAssumption
ASSUME SegmentFits == Segment!SegmentAssumption
ASSUME LinksFit == Links!LinksAssumption

-----------------------------------------------------------------------------
(* Properties: what each module promises, in its own words there *)

\* A bulk test that reports completed shows every account once, its numbers add
\* up, and its mails keep their distance.
BulkTestHolds == focus = "wide" => Wide!CompletedAddsUp /\ Wide!CompletedShowsAll /\ Wide!MailsSpaced

\* Deliveries that poll one bucket stay below its rate, and a worker that has
\* seen a change of the daily target has no older summary.
RatesHold ==
  /\ focus = "lane" => Lane!Paced
  /\ focus = "rate" => Daily!SeenMeansFresh

\* A campaign is for those for whom it was created, and the answer says what
\* became of it.
CreationHolds == focus = "create" => Create!TargetIsKept /\ Create!AnswerIsTrue

\* A rotation loses no password, is complete, and locks nobody out.
RotationHolds ==
  focus = "rotate" => Secrets!WordsAreKept /\ Secrets!RotationIsComplete /\ Secrets!EverybodyReads

\* An export has each member that stayed once and nobody who never was one, and
\* the numbers of a segment agree with its rows.
SegmentsHold == focus = "segments" => Segment!PagesAreExact /\ Segment!NumbersAgree

\* Where a destination stood is its one short link, a campaign has a template of
\* its own with every link that was made for it, and rows keep their template.
LinksHold == focus = "links" => Links!ShortenedThroughout /\ Links!CampaignIsWhole /\ Links!TemplateIsKept
=============================================================================
