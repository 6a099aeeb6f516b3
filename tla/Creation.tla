------------------------------- MODULE Creation -------------------------------
(***************************************************************************)
(* A campaign is created from a list, a saved segment or a query, and then *)
(* started: who it is for and the accounts that send it are read while     *)
(* lists, segments and accounts are changed by others.  The external API   *)
(* checks, creates and starts in one request.                              *)
(***************************************************************************)
EXTENDS Integers, FiniteSets, SequencesExt

CONSTANTS
  Accounts,    \* SMTP accounts: numbers, in the order of their creation
  Rate,        \* their rates, in tenths of a mail per second
  Recipients,  \* active recipients: numbers, in the order of an import
  Target,      \* the recipients that a query matches
  Posts,       \* requests: [external, target, query, ids, strategy, rotate, later]
  Starts,      \* what there is at first: [acct, skips, limit, template, segment, suppressed]
  Chunk,       \* rows of a page of the import
  MaxChanges, MaxStarts  \* bounds

States == {"ok", "lapsed", "cooling", "error", "auth", "bare", "off"}

VARIABLES
  acct,        \* states: `lapsed' and `cooling' are throttled, until a moment that is over, or not
  pooled,      \* smtp_pool_settings: what is skipped, and how many accounts at most
  list, segment, template, suppressed,
  post, pc,    \* the request
  read,        \* what it has read: [ids, query, cursor, inserted]
  campaign,    \* [made, list, seg, query, primary, status, pool, rows]
  dropping,    \* DELETE of the segment has found no campaign with it
  changes, starts,
  answer,
  fit, held,   \* history: accounts that were eligible, queries that the segment had, during the request
  fresh        \* history: the rows of this start; whether there were none before

vars == <<acct, pooled, list, segment, template, suppressed, post, pc, read, campaign, dropping,
          changes, starts, answer, fit, held, fresh>>
World == <<acct, list, segment, template, suppressed, dropping, changes>>

Unread == [ids |-> <<>>, query |-> "none", cursor |-> 0, inserted |-> 0]
Unmade == [made |-> FALSE, list |-> FALSE, seg |-> FALSE, query |-> "none", primary |-> 0,
           status |-> "pending", pool |-> <<>>, rows |-> [r \in Recipients |-> 0]]

\* Only the members of a list go by the name of one.
CreationAssumption ==
  /\ "list" \notin DOMAIN Target /\ "none" \notin DOMAIN Target
  /\ \A p \in Posts : p.target \in {"list", "segment", "query"} /\ p.query \in DOMAIN Target
  /\ \A s \in Starts : /\ s.segment.query \in DOMAIN Target
                       /\ s.segment = [there |-> s.segment.there, archived |-> s.segment.archived, query |-> s.segment.query,
                                       based |-> s.segment.based, matched |-> s.segment.matched]

TypeOK ==
  /\ acct \in [Accounts -> States] /\ suppressed \subseteq Recipients
  /\ pc \in {"check", "all", "rows", "insert", "idle", "accounts", "eligible", "import", "count", "launch", "end"}
  /\ campaign.status \in {"pending", "queued", "running"}
  /\ campaign.rows \in [Recipients -> Accounts \cup {0}]
  /\ ToSet(campaign.pool) \subseteq Accounts /\ fresh.rows \subseteq Recipients

-----------------------------------------------------------------------------
(* Accounts *)

\* smtpEligibilityReason finds none.
Eligible(a) == acct[a] \in {"ok", "lapsed"}

\* The condition on all active accounts.  A failed login is no error of health.
Active == {a \in Accounts : /\ acct[a] # "off"
                            /\ "throttled" \in pooled.skips => acct[a] \notin {"lapsed", "cooling"}
                            /\ "unhealthy" \in pooled.skips => acct[a] # "error"}
Ordered(S) == SetToSortSeq(S, <)

\* buildWeightedPool
Weight(a) == LET w == (Rate[a] + 5) \div 10 IN IF w < 1 THEN 1 ELSE IF w > 20 THEN 20 ELSE w
Weighted(pool) == FlattenSeq([i \in DOMAIN pool |-> [k \in 1..Weight(pool[i]) |-> pool[i]]])

\* chooseSmtpForRecipient: every other strategy rotates.
Choose(index, pool) ==
  CASE Len(pool) = 1 -> pool[1]
    [] post.strategy = "round_robin" -> pool[(index % Len(pool)) + 1]
    [] post.strategy = "weighted_warmup" -> Weighted(pool)[(index % Len(Weighted(pool))) + 1]
    [] OTHER -> pool[((index \div post.rotate) % Len(pool)) + 1]

-----------------------------------------------------------------------------
(* createCampaign *)

Init ==
  /\ \E s \in Starts : /\ acct = s.acct /\ pooled = [skips |-> s.skips, limit |-> s.limit]
                       /\ segment = s.segment /\ template = s.template /\ suppressed = s.suppressed
  /\ list = TRUE /\ post \in Posts /\ pc = IF post.external THEN "check" ELSE "all"
  /\ read = Unread /\ campaign = Unmade /\ dropping = FALSE /\ changes = 0 /\ starts = 0 /\ answer = "none"
  /\ fit = {a \in Accounts : Eligible(a)} /\ held = {segment.query} /\ fresh = [rows |-> {}, first |-> TRUE]

Refuse(error) ==
  /\ answer' = error
  /\ pc' = IF campaign.made /\ ~post.external THEN "idle" ELSE "end"

\* validateExternalCampaignInput: of a segment, the number that was counted
\* when the segments were last listed.
Estimated == IF post.target = "list" THEN Cardinality(Recipients \ suppressed) ELSE segment.matched
Check ==
  LET ids == Ordered({a \in Accounts : acct[a] # "off" /\ (post.ids = {} \/ a \in post.ids)})
      there == IF post.target = "list" THEN list ELSE segment.there /\ ~segment.archived
      refused == CASE template # "active" -> "template_not_found"
                   [] ~there -> "target_not_found"
                   [] ids = <<>> -> "no_smtp_accounts"
                   [] Estimated <= 0 -> "no_recipients"
                   [] OTHER -> "none" IN
  /\ pc = "check"
  /\ IF refused # "none" THEN Refuse(refused) /\ UNCHANGED read
     ELSE pc' = "all" /\ answer' = answer /\ read' = [read EXCEPT !.ids = ids]
  /\ UNCHANGED <<World, pooled, post, campaign, starts, fit, held, fresh>>

\* The accounts of the pool, in case none was chosen.
ReadAll ==
  /\ pc = "all" /\ pc' = "rows"
  /\ read' = [read EXCEPT !.ids = IF @ # <<>> THEN @ ELSE IF post.ids # {} THEN Ordered(post.ids) ELSE Ordered(Active)]
  /\ UNCHANGED <<World, pooled, post, campaign, starts, answer, fit, held, fresh>>

\* What is named is read, and judged.
ReadRows ==
  LET ids == SelectSeq(read.ids, Eligible)
      refused == CASE template = "gone" -> "template_not_found"
                   [] post.target = "list" /\ ~list -> "list_not_found"
                   [] post.target = "segment" /\ ~segment.there -> "segment_not_found"
                   [] post.target = "segment" /\ segment.archived -> "segment_archived"
                   [] ids = <<>> -> "smtp_pool_empty"
                   [] OTHER -> "none" IN
  /\ pc = "rows"
  /\ IF refused # "none" THEN Refuse(refused) /\ UNCHANGED read
     ELSE /\ pc' = "insert" /\ answer' = answer
          /\ read' = [read EXCEPT !.ids = ids, !.query = CASE post.target = "segment" -> segment.query
                                                           [] post.target = "query" -> post.query
                                                           [] OTHER -> "none"]
  /\ UNCHANGED <<World, pooled, post, campaign, starts, fit, held, fresh>>

\* The row, with a copy of the segment's query; the database refuses one that
\* refers to what has been deleted.
Insert ==
  /\ pc = "insert"
  /\ IF template = "gone" \/ (post.target = "list" /\ ~list) \/ (post.target = "segment" /\ ~segment.there)
     THEN Refuse("error") /\ UNCHANGED <<campaign, read>>
     ELSE /\ campaign' = [campaign EXCEPT !.made = TRUE, !.list = post.target = "list",
               !.seg = post.target = "segment", !.query = read.query, !.primary = read.ids[1],
               !.pool = read.ids, !.status = IF post.later THEN "queued" ELSE "pending"]
          /\ pc' = "idle" /\ read' = Unread /\ UNCHANGED answer
  /\ UNCHANGED <<World, pooled, post, starts, fit, held, fresh>>

-----------------------------------------------------------------------------
(* startCampaign *)

Start ==
  /\ pc = "idle" /\ campaign.made /\ campaign.status # "running" /\ starts < MaxStarts /\ starts' = starts + 1
  /\ fresh' = [rows |-> {}, first |-> \A r \in Recipients : campaign.rows[r] = 0]
  /\ fit' = {a \in Accounts : Eligible(a)}
  /\ IF ~campaign.list /\ ~campaign.seg /\ campaign.query = "none"
     THEN Refuse("campaign_target_required") /\ UNCHANGED read
     ELSE /\ pc' = "accounts" /\ answer' = "none"
          /\ read' = [Unread EXCEPT !.query = IF campaign.list THEN "list" ELSE campaign.query]
  /\ UNCHANGED <<World, pooled, post, campaign, held>>

\* A campaign that is created never has accounts of its own: all active ones count.
Configured ==
  /\ pc = "accounts" /\ pc' = "eligible" /\ read' = [read EXCEPT !.ids = Ordered(Active)]
  /\ UNCHANGED <<World, pooled, post, campaign, starts, answer, fit, held, fresh>>

\* Without any of them the account that the campaign was created with is looked
\* up: it lets the start go on, but with an empty pool.
Pick ==
  LET ids == SelectSeq(read.ids, Eligible) IN
  /\ pc = "eligible"
  /\ IF IF read.ids # <<>> THEN ids = <<>> ELSE ~Eligible(campaign.primary)
     THEN Refuse("no_smtp_accounts") /\ UNCHANGED campaign
     ELSE /\ pc' = "import" /\ UNCHANGED answer
          /\ campaign' = [campaign EXCEPT !.status = "queued", !.pool = SubSeq(ids, 1, Min({Len(ids), pooled.limit}))]
  /\ UNCHANGED <<World, pooled, post, read, starts, fit, held, fresh>>

\* Faulty variant: the segment is asked, not the copy of its query.
MembersNow(q) ==
  IF q = "list" THEN (IF list THEN Recipients ELSE {})
  ELSE Target[IF campaign.seg THEN segment.query ELSE q]

Members(q) == IF q = "list" THEN (IF list THEN Recipients ELSE {}) ELSE Target[q]
Page == LET rest == {r \in Members(read.query) : r > read.cursor}
        IN  {r \in rest : Cardinality({x \in rest : x < r}) < Chunk}

\* importChunkRows: the count goes on over the pages, from what was inserted.
RowsOf(candidates) ==
  [r \in candidates |-> Choose(read.inserted + Cardinality({x \in candidates : x < r}), campaign.pool)]

\* A page; rows that are there are left alone.
Import ==
  LET page == Page  candidates == page \ suppressed
      new == {r \in candidates : campaign.rows[r] = 0} IN
  /\ pc = "import" /\ (candidates # {} => campaign.pool # <<>>)
  /\ IF page = {} THEN pc' = "count" /\ UNCHANGED <<campaign, read, fresh>>
     ELSE LET rows == RowsOf(candidates) IN
          /\ campaign' = [campaign EXCEPT !.rows = [r \in Recipients |-> IF r \in new THEN rows[r] ELSE @[r]]]
          /\ read' = [read EXCEPT !.cursor = Max(page), !.inserted = @ + Cardinality(new)]
          /\ fresh' = [fresh EXCEPT !.rows = @ \cup new] /\ UNCHANGED pc
  /\ UNCHANGED <<World, pooled, post, starts, answer, fit, held>>

\* The database fails, or there is no account that a row could name.
ImportFails ==
  /\ pc = "import" /\ Refuse("db_insert_failed")
  /\ UNCHANGED <<World, pooled, post, read, campaign, starts, fit, held, fresh>>

Count ==
  /\ pc = "count"
  /\ IF \A r \in Recipients : campaign.rows[r] = 0
     THEN Refuse("no_recipients") /\ UNCHANGED campaign
     ELSE campaign' = [campaign EXCEPT !.status = "running"] /\ pc' = "launch" /\ UNCHANGED answer
  /\ UNCHANGED <<World, pooled, post, read, starts, fit, held, fresh>>

\* The campaign runs; what is left is to log it and to wake its queue, and the
\* errors of both are answered.
Launch ==
  /\ pc = "launch"
  /\ \/ pc' = "end" /\ answer' = "ok"
     \/ Refuse("log_failed")
     \/ Refuse("queue_unavailable")
  /\ UNCHANGED <<World, pooled, post, read, campaign, starts, fit, held, fresh>>

-----------------------------------------------------------------------------
(* Everybody else *)

Change ==
  /\ pc # "end" /\ changes < MaxChanges /\ changes' = changes + 1
  /\ UNCHANGED <<pooled, post, pc, read, starts, answer, fresh>>

\* A delivery, a test, the scheduler or an operator.
ChangeAccount(a) ==
  /\ Change /\ \E s \in States \ {acct[a]} : acct' = [acct EXCEPT ![a] = s]
  /\ fit' = fit \cup {x \in Accounts : acct'[x] \in {"ok", "lapsed"}}
  /\ UNCHANGED <<list, segment, template, suppressed, dropping, campaign, held>>

\* PATCH of the segment, and what GET of the segments writes to it.
ChangeSegment ==
  /\ Change /\ segment.there
  /\ held' = held \cup (IF campaign.made THEN {} ELSE {segment'.query})
  /\ UNCHANGED <<acct, list, template, suppressed, dropping, campaign, fit>>
PatchSegment ==
  /\ \/ \E q \in DOMAIN Target \ {segment.query} : segment' = [segment EXCEPT !.query = q]
     \/ segment' = [segment EXCEPT !.archived = ~@]
  /\ ChangeSegment
Recount ==
  /\ segment.matched # Cardinality(Target[segment.query])
  /\ segment' = [segment EXCEPT !.matched = Cardinality(Target[segment.query])]
  /\ ChangeSegment

\* DELETE of the segment counts its campaigns, and deletes it then.
AskDrop ==
  /\ Change /\ segment.there /\ ~campaign.seg /\ ~dropping /\ dropping' = TRUE
  /\ UNCHANGED <<acct, list, segment, template, suppressed, campaign, fit, held>>
Drop ==
  /\ dropping /\ dropping' = FALSE
  /\ segment' = [segment EXCEPT !.there = FALSE] /\ campaign' = [campaign EXCEPT !.seg = FALSE]
  /\ UNCHANGED <<acct, pooled, list, template, suppressed, post, pc, read, changes, starts, answer, fit, held, fresh>>

\* The list goes with the segments that are based on it.
DropList ==
  /\ Change /\ list /\ list' = FALSE
  /\ segment' = [segment EXCEPT !.there = @ /\ ~segment.based]
  /\ campaign' = [campaign EXCEPT !.list = FALSE, !.seg = @ /\ ~segment.based]
  /\ UNCHANGED <<acct, template, suppressed, dropping, fit, held>>

Suppress(r) ==
  /\ Change /\ r \notin suppressed /\ suppressed' = suppressed \cup {r}
  /\ UNCHANGED <<acct, list, segment, template, dropping, campaign, fit, held>>

Next ==
  \/ Check \/ ReadAll \/ ReadRows \/ Insert
  \/ Start \/ Configured \/ Pick \/ Import \/ ImportFails \/ Count \/ Launch
  \/ (\E a \in Accounts : ChangeAccount(a)) \/ PatchSegment \/ Recount \/ AskDrop \/ Drop \/ DropList
  \/ \E r \in Recipients : Suppress(r)

Spec == Init /\ [][Next]_vars

-----------------------------------------------------------------------------
(* Properties *)

\* A start gives recipients only to accounts that were eligible at some moment
\* while it ran, at most as many as the settings allow.
PoolIsFit ==
  LET used == {campaign.rows[r] : r \in fresh.rows}
  IN  used \subseteq fit /\ Cardinality(used) <= pooled.limit

\* The accounts of a first start have their shares, over the pages and whoever
\* is suppressed: in full rounds of a strategy each has its turns.
Turns(a) == CASE post.strategy = "round_robin" -> 1 [] post.strategy = "weighted_warmup" -> Weight(a)
              [] OTHER -> post.rotate
Round == FoldSeq(LAMBDA a, n : n + Turns(a), 0, campaign.pool)
SharesAreFair ==
  fresh.first /\ fresh.rows # {} => \A a \in ToSet(campaign.pool) :
    LET given == Cardinality({r \in fresh.rows : campaign.rows[r] = a})  n == Cardinality(fresh.rows)
    IN  /\ given >= (n \div Round) * Turns(a)
        /\ given <= ((n + Round - 1) \div Round) * Turns(a)

\* A campaign is for those for whom it was created: of a segment the query that
\* the segment had while the campaign was created, whatever becomes of it later;
\* without its list it does not start.
TargetIsKept ==
  LET imported == {r \in Recipients : campaign.rows[r] # 0}
      queries == CASE post.target = "segment" -> held [] post.target = "query" -> {post.query} [] OTHER -> {"none"} IN
  /\ campaign.made => campaign.query \in queries
  /\ post.target # "list" => imported \subseteq UNION {Target[q] : q \in queries}
  /\ campaign.status = "running" => imported # {}

\* What the external API ends with tells what has happened: the campaign runs with
\* `ok' and with the two errors that come after it was set running (to the caller
\* these are `campaign_start_failed', as is a failed import), and with no other;
\* after any other refusal than a failed import there is nobody to be mailed.
Ran == {"ok", "log_failed", "queue_unavailable"}
AnswerIsTrue ==
  post.external /\ answer # "none" =>
    /\ answer \in Ran <=> campaign.status = "running"
    /\ answer \notin Ran \cup {"db_insert_failed"} => \A r \in Recipients : campaign.rows[r] = 0
=============================================================================
