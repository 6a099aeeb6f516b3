------------------------------- MODULE MCSmtp -------------------------------
(***************************************************************************)
(* The modules about SMTP accounts, and about the creation of a campaign   *)
(* that is sent by them, on small instances, one after the other.          *)
(***************************************************************************)
EXTENDS SmtpAccounts, SmtpParts, TLC

CONSTANTS w1, w2, l1, l2, r1, r2, c1, c2, p1, p2, s1, s2

Ordered(inactive, withMails, heals) == [inactive |-> inactive, mails |-> withMails, heals |-> heals]
SomeOrders == {Ordered(FALSE, TRUE, TRUE), Ordered(FALSE, FALSE, FALSE), Ordered(TRUE, FALSE, TRUE)}
\* One job with two loops; two jobs with one, whose first answer may come late.
WideRows == <<2>>
Late == INSTANCE BulkTest WITH Rows <- <<1, 2>>, Loops <- {l1}, Lost <- 1

Plan(target, policy, strict, forWarmed, toTarget) ==
  [on |-> {}, per |-> 0, target |-> target, policy |-> policy, strict |-> strict,
   forWarmed |-> forWarmed, toTarget |-> toTarget, auto |-> TRUE]
RateBudget(apply, planner, change, patch, n) ==
  [apply |-> apply, planner |-> planner, change |-> change, patch |-> patch, call |-> n]
SomeLooks == {<<"smtpdm", "host">>, <<"label", "plain">>}
SomePlans == {Plan(100000, "force_target", TRUE, FALSE, TRUE), Plan(3000000, "automatic", FALSE, TRUE, FALSE),
              Plan(700001, "conservative", TRUE, FALSE, FALSE)}
RateBudgets == {RateBudget(2, 0, 0, 0, 0), RateBudget(1, 0, 1, 0, 0), RateBudget(1, 1, 0, 0, 0),
                RateBudget(1, 0, 0, 1, 3)}

Fair == INSTANCE Pacing WITH Slots <- {}, Rates <- {1}, MaxWait <- 0, MaxClock <- 0,
  Campaigns <- 3, MaxPending <- 3, Guard <- 2, slot <- turn, sent <- mails

\* Rates of 0.4, 1.6 and 3.1 mails per second.
Tenths == <<4, 16, 31>>
Matched == [narrow |-> {2, 5}, wide |-> {1, 2, 3, 4}]
Post(external, target, ids, strategy, rotate) ==
  [external |-> external, target |-> target, query |-> "wide", ids |-> ids,
   strategy |-> strategy, rotate |-> rotate, later |-> rotate = 2]
World(states, skips, limit, draft, matched) ==
  [acct |-> states, skips |-> skips, limit |-> limit, suppressed |-> {2},
   template |-> IF draft THEN "draft" ELSE "active",
   segment |-> [there |-> TRUE, archived |-> FALSE, query |-> "wide", based |-> TRUE, matched |-> matched]]
SomePosts == {
  Post(TRUE, "list", {}, "round_robin", 500), Post(TRUE, "segment", {1, 2}, "weighted_warmup", 500),
  Post(FALSE, "segment", {}, "rotate", 2), Post(FALSE, "query", {3}, "weighted_warmup", 1)}
Worlds == {
  World(<<"ok", "ok", "auth">>, {"throttled", "unhealthy"}, 9, FALSE, 4),
  World(<<"lapsed", "ok", "error">>, {"throttled"}, 9, FALSE, 0),
  World(<<"ok", "ok", "bare">>, {}, 1, FALSE, 4),
  World(<<"ok", "ok", "ok">>, {}, 2, TRUE, 4)}

Query(did, delivery, suppression, previous, base, of, among) ==
  [did |-> did, delivery |-> delivery, suppression |-> suppression, previous |-> previous,
   base |-> base, of |-> of, among |-> among]
SomeQueries == {
  Query({}, {}, "junk", "exclude", TRUE, {1, 2}, 1..3),
  Query({"not_opened"}, {"junk", "suppressed"}, "all", "all", FALSE, {1, 2}, 1..3),
  Query({}, {"sent"}, "exclude", "include", FALSE, {1}, 1..3),
  Query({}, {"failed"}, "all", "all", FALSE, {1, 2}, 1..3),
  Query({"unsubscribed"}, {}, "all", "all", FALSE, {1, 2}, {1, 3}),
  Query({}, {}, "all", "all", TRUE, {1, 2}, 1..3)}
\* One campaign that is over, with an opened mail and a failed one; one whose
\* mails have all failed, and that is imported once more.
Past == {
  [listed |-> {1, 2, 3}, suppressed |-> {2}, opened |-> {<<1, 1>>},
   row |-> [k \in (1..3) \X {1, 2} |-> IF k = <<1, 1>> THEN "sent" ELSE IF k = <<2, 1>> THEN "failed" ELSE "none"]],
  [listed |-> {1, 3}, suppressed |-> {}, opened |-> {},
   row |-> [k \in (1..3) \X {1, 2} |-> IF k[2] = 2 /\ k[1] # 2 THEN "none" ELSE "failed"]]}

Part(text, href, skip) == [text |-> text, href |-> href, skip |-> skip]
SomeHtmls == {
  <<Part(<<1>>, TRUE, FALSE), Part(<<2>>, TRUE, FALSE), Part(<<1>>, FALSE, FALSE), Part(<<3, 9>>, TRUE, TRUE)>>,
  <<Part(<<1>>, TRUE, FALSE), Part(<<1, 2>>, TRUE, FALSE), Part(<<1, 9>>, TRUE, TRUE)>>,
  <<Part(<<3, 9>>, TRUE, TRUE)>>}

AccountBudgets ==
  LET B(d, f, S) == [x \in Events |-> IF x = "deliver" THEN d ELSE IF x = "fail" THEN f
                                      ELSE IF x \in S THEN 1 ELSE 0]
  IN {B(3, 1, {}), B(2, 1, {"dberror"}), B(2, 1, {"expire"}), B(3, 0, {"refresh"}),
      B(2, 1, {"reset"}), B(1, 1, {"patch", "reset"}), B(1, 1, {"test", "reset"})}

\* The state of the instances a behaviour is not about.
AccountsRest == Init /\ left = CHOOSE b \in Budgets : TRUE
RateRest == /\ Daily!Init /\ budget = RateBudget(2, 0, 0, 0, 0)
            /\ \A a \in {1, 2} : acct[a].sent = 700 /\ acct[a].kind \in {"smtpdm", "host"}
CreationRest == Create!Init /\ having[1] = "lapsed" /\ post.target = "list"
SegmentRest == Segment!Init /\ based = {1, 3} /\ query.base /\ query.previous = "all"
LinkRest == Links!Init /\ Len(original) = 1
RotationRest == Secrets!Init /\ \A a \in {1, 2} : secret[a].ver = 1

MCInit ==
  /\ focus \in {"accounts", "wide", "late", "rate", "lane", "fair", "create", "rotate", "segments", "links"}
  /\ IF focus = "accounts" THEN Init ELSE AccountsRest
  /\ IF focus = "late" THEN Late!Init ELSE Wide!Init
  /\ IF focus = "rate" THEN Daily!Init ELSE RateRest
  /\ IF focus = "fair" THEN Fair!Init ELSE Lane!Init
  /\ IF focus = "create" THEN Create!Init ELSE CreationRest
  /\ IF focus = "rotate" THEN Secrets!Init ELSE RotationRest
  /\ IF focus = "segments" THEN Segment!Init ELSE SegmentRest
  /\ IF focus = "links" THEN Links!Init ELSE LinkRest

SendingVars == <<BulkVars, RateVars, PaceVars>>
MakingVars == <<SegmentVars, LinkVars>>
OtherVars == <<CreationVars, RotationVars, MakingVars>>
MCNext ==
  /\ UNCHANGED focus
  /\ \/ focus = "accounts" /\ Next /\ UNCHANGED <<SendingVars, OtherVars>>
     \/ focus = "wide" /\ Wide!Next /\ UNCHANGED <<vars, RateVars, PaceVars, OtherVars>>
     \/ focus = "late" /\ Late!Next /\ UNCHANGED <<vars, RateVars, PaceVars, OtherVars>>
     \/ focus = "rate" /\ Daily!Next /\ UNCHANGED <<vars, BulkVars, PaceVars, OtherVars>>
     \/ focus = "lane" /\ Lane!Next /\ UNCHANGED <<vars, BulkVars, RateVars, OtherVars>>
     \/ focus = "fair" /\ Fair!Next /\ UNCHANGED <<vars, BulkVars, RateVars, OtherVars>>
     \/ focus = "create" /\ Create!Next /\ UNCHANGED <<vars, SendingVars, RotationVars, MakingVars>>
     \/ focus = "rotate" /\ Secrets!Next /\ UNCHANGED <<vars, SendingVars, CreationVars, MakingVars>>
     \/ focus = "segments" /\ Segment!Next /\ UNCHANGED <<vars, SendingVars, CreationVars, RotationVars, LinkVars>>
     \/ focus = "links" /\ Links!Next /\ UNCHANGED <<vars, SendingVars, CreationVars, RotationVars, SegmentVars>>

MCVars == <<focus, vars, SendingVars, OtherVars>>
MCSpec == MCInit /\ [][MCNext]_MCVars
Symmetry == Permutations({w1, w2}) \cup Permutations({l1, l2})

-----------------------------------------------------------------------------
(* Properties: what each module promises, in its own words there *)

\* The modules' variables keep their types, the shared window and its level
\* their bounds.
Types ==
  /\ focus = "accounts" => TypeOK
  /\ focus = "wide" => Wide!TypeOK
  /\ focus = "late" => Late!TypeOK
  /\ focus = "rate" => Daily!TypeOK
  /\ focus = "lane" => Lane!TypeOK
  /\ focus = "fair" => Fair!TypeOK
  /\ focus = "create" => Create!TypeOK
  /\ focus = "rotate" => Secrets!TypeOK
  /\ focus = "segments" => Segment!TypeOK
  /\ focus = "links" => Links!TypeOK

\* What is divided is divided right: a planned target is covered by the accounts'
\* shares and reached by the rates that workers compute, a batch takes from every
\* campaign in turn, and a campaign's rows go to accounts that were fit, in shares
\* by their weights.  The second instance of the bulk test shows what is completed.
SharesHold ==
  /\ focus = "rate" => Daily!PlanCovers /\ Daily!PlanIsReached
  /\ focus = "fair" => Fair!FairBatches
  /\ focus = "create" => Create!PoolIsFit /\ Create!SharesAreFair
  /\ focus = "late" => Late!CompletedShowsAll
=============================================================================
