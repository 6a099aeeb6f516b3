------------------------------ MODULE ShortLinks ------------------------------
(***************************************************************************)
(* The creation of a campaign replaces the links of its template by short  *)
(* ones, one request to an external service after the other; meanwhile an  *)
(* operator works on short links.  What the service answers is kept in a   *)
(* table, if that succeeds.                                                *)
(***************************************************************************)
EXTENDS Integers, FiniteSets, SequencesExt

CONSTANTS
  Htmls,       \* templates: sequences of [text, href, skip], texts of URLs being sequences
  MaxLinks,    \* links of the service
  MaxOps,      \* requests of the operator
  MaxMishaps   \* answers and statements that go wrong

VARIABLES
  original, html,  \* the template; its texts as they are now
  todo,            \* where the destinations stand for which there is no short link yet
  mappings,        \* [dest, short, id]
  pc, derived, campaign, answer,
  remote,          \* links of the service: [dest, there]
  cache,           \* ShortLinkCache: [there, dest, url, template]
  op,              \* the operator's request: what the service answered
  ops, mishaps,
  own              \* history: links whose row named the template

vars == <<original, html, todo, mappings, pc, derived, campaign, answer, remote, cache, op, ops, mishaps, own>>
OperatorVars == <<op, ops>>
ResultVars == <<derived, campaign>>

\* The URL of a link, and the one made of an answer that has none.
Base == 0
Short(id) == 100 + id
Ids == 1..MaxLinks
NoRow == [there |-> FALSE, dest |-> <<>>, url |-> Base, template |-> FALSE]
NoOp == [id |-> 0, url |-> Base]

\* A text is made of numbers below those of the short links; it is not empty.
Texts == Seq(1..99) \ {<<>>}
LinksAssumption == \A h \in Htmls : h \in Seq([text : Texts, href : BOOLEAN, skip : BOOLEAN])

TypeOK ==
  /\ pc \in {"collect", "ask", "derive", "insert", "log", "end"} /\ answer \in {"none", "ok", "error"}
  /\ Len(html) = Len(original) /\ Len(remote) <= MaxLinks
  /\ \A i \in Ids : cache[i].there => i <= Len(remote)
  /\ todo \subseteq DOMAIN original /\ own \subseteq Ids /\ op.id \in 0..MaxLinks

Init ==
  /\ original \in Htmls /\ html = [i \in DOMAIN original |-> original[i].text]
  /\ todo = {} /\ mappings = <<>> /\ pc = "collect" /\ derived = FALSE /\ campaign = FALSE /\ answer = "none"
  /\ remote = <<>> /\ cache = [i \in Ids |-> NoRow] /\ op = NoOp /\ ops = 0 /\ mishaps = 0 /\ own = {}

Mishap == mishaps < MaxMishaps /\ mishaps' = mishaps + 1
Fail == pc' = "end" /\ answer' = "error"

-----------------------------------------------------------------------------
(* The table *)

\* Faulty variant: a row is replaced by what the request knows.
CachedAnew(id, url, template) ==
  /\ cache' = [cache EXCEPT ![id] = [there |-> TRUE, dest |-> remote'[id].dest, url |-> url, template |-> template]]
  /\ own' = IF template THEN own \cup {id} ELSE own

\* The row of a link; the template that it names stays when none is given, and
\* no two links have the same URL.
Row(id, url, template) ==
  [there |-> TRUE, dest |-> remote'[id].dest, url |-> url, template |-> template \/ cache[id].template]
Cached(id, url, template) ==
  IF \E i \in Ids \ {id} : cache[i].there /\ cache[i].url = url
  THEN UNCHANGED <<cache, own>>
  ELSE /\ cache' = [cache EXCEPT ![id] = Row(id, url, template)]
       /\ own' = IF template THEN own \cup {id} ELSE own

-----------------------------------------------------------------------------
(* autoShortenHtmlLinks, within createCampaign *)

\* The distinct links of the template, each where it stands first, but those that
\* shouldSkipAutoShorten.
Wanted(i) == original[i].href /\ ~original[i].skip
Firsts == {i \in DOMAIN original : Wanted(i) /\ \A j \in 1..(i - 1) :
                                     ~(Wanted(j) /\ original[j].text = original[i].text)}
Destinations == {original[i].text : i \in Firsts}
Dest == original[Min(todo)].text

Collect ==
  /\ pc = "collect" /\ pc' = "ask" /\ todo' = Firsts
  /\ UNCHANGED <<original, html, mappings, ResultVars, answer, remote, cache, OperatorVars, mishaps, own>>

\* Every occurrence is replaced, also where a longer URL begins with it.
Replaced(text, dest, url) ==
  IF IsPrefix(dest, text) THEN <<url>> \o SubSeq(text, Len(dest) + 1, Len(text)) ELSE text

Link == remote' = Append(remote, [dest |-> Dest, there |-> TRUE])
Use(id, url) ==
  /\ html' = [i \in DOMAIN html |-> Replaced(html[i], Dest, url)]
  /\ mappings' = Append(mappings, [dest |-> Dest, url |-> url, id |-> id])

\* The service makes a link and answers with its number and URL; without the
\* URL the service's own address takes its place.
Shorten ==
  LET id == Len(remote) + 1 IN
  /\ pc = "ask" /\ todo # {} /\ id \in Ids /\ todo' = todo \ {Min(todo)} /\ Link
  /\ \E url \in {Short(id), Base} : /\ url = Base => Mishap
                                    /\ url # Base => UNCHANGED mishaps
                                    /\ Use(id, url) /\ Cached(id, url, TRUE)
  /\ UNCHANGED <<original, pc, ResultVars, answer, OperatorVars>>

\* The link is there, but the row is not written, or the answer has no number:
\* then the destination stays as it is.
ShortenLoses ==
  LET id == Len(remote) + 1 IN
  /\ pc = "ask" /\ todo # {} /\ id \in Ids /\ todo' = todo \ {Min(todo)} /\ Link /\ Mishap
  /\ Use(id, Short(id)) \/ UNCHANGED <<html, mappings>>
  /\ UNCHANGED <<original, pc, ResultVars, answer, cache, OperatorVars, own>>

\* The service refuses, or its answer does not arrive; there is no campaign.
ShortenFails ==
  /\ pc = "ask" /\ todo # {} /\ Mishap /\ Fail
  /\ (Len(remote) < MaxLinks /\ Link) \/ UNCHANGED remote
  /\ UNCHANGED <<original, html, todo, mappings, ResultVars, cache, OperatorVars, own>>

\* A template of its own, if there is any short link.
Derive ==
  /\ pc = "ask" /\ todo = {} /\ pc' = "insert" /\ derived' = (mappings # <<>>)
  /\ UNCHANGED <<original, html, todo, mappings, campaign, answer, remote, cache, OperatorVars, mishaps, own>>

\* The campaign; its log, which is no longer undone when it fails.
Insert ==
  /\ pc = "insert" /\ campaign' = TRUE
  /\ IF mappings = <<>> THEN pc' = "end" /\ answer' = "ok" ELSE pc' = "log" /\ UNCHANGED answer
  /\ UNCHANGED <<original, html, todo, mappings, derived, remote, cache, OperatorVars, mishaps, own>>
Log ==
  /\ pc = "log" /\ pc' = "end" /\ answer' = "ok"
  /\ UNCHANGED <<original, html, todo, mappings, ResultVars, remote, cache, OperatorVars, mishaps, own>>
StatementFails ==
  /\ pc \in {"insert", "log"} \/ (pc = "ask" /\ todo = {} /\ mappings # <<>>)
  /\ Mishap /\ Fail
  /\ UNCHANGED <<original, html, todo, mappings, ResultVars, remote, cache, OperatorVars, own>>

-----------------------------------------------------------------------------
(* The operator *)

Ask == op = NoOp /\ ops < MaxOps /\ ops' = ops + 1
       /\ UNCHANGED <<original, html, todo, mappings, pc, ResultVars, answer, cache, mishaps, own>>

\* Whatever the request does, the service answers with the link as it is then.
Create == /\ Ask /\ Len(remote) < MaxLinks
          /\ \E i \in DOMAIN original : remote' = Append(remote, [dest |-> original[i].text, there |-> TRUE])
          /\ op' = [id |-> Len(remote'), url |-> Short(Len(remote'))]
GetLink == /\ Ask /\ UNCHANGED remote
           /\ \E id \in DOMAIN remote : remote[id].there /\ op' = [id |-> id, url |-> Short(id)]
Update == /\ Ask
          /\ \E id \in DOMAIN remote, i \in DOMAIN original :
               /\ remote[id].there /\ remote' = [remote EXCEPT ![id].dest = original[i].text]
               /\ op' = [id |-> id, url |-> Short(id)]
Delete == /\ Ask /\ op' = NoOp
          /\ \E id \in DOMAIN remote : remote[id].there /\ remote' = [remote EXCEPT ![id].there = FALSE]

\* The answer is entered in the table, or that fails unnoticed.
Enter ==
  /\ op # NoOp /\ op' = NoOp /\ UNCHANGED remote
  /\ \/ Cached(op.id, op.url, FALSE) /\ UNCHANGED mishaps
     \/ Mishap /\ UNCHANGED <<cache, own>>
  /\ UNCHANGED <<original, html, todo, mappings, pc, ResultVars, answer, ops>>

Next ==
  \/ Collect \/ Shorten \/ ShortenLoses \/ ShortenFails \/ Derive \/ Insert \/ Log \/ StatementFails
  \/ Create \/ GetLink \/ Update \/ Delete \/ Enter

Spec == Init /\ [][Next]_vars

-----------------------------------------------------------------------------
(* Properties *)

\* Unless a link is the beginning of another, a template is shortened as a
\* whole: wherever a destination stood there is its one short link, and all
\* the rest is untouched.
Nested == \E i, j \in DOMAIN original : Wanted(i) /\ IsStrictPrefix(original[i].text, original[j].text)
ShortenedThroughout ==
  campaign /\ ~Nested => \A i \in DOMAIN original :
    LET found == {k \in DOMAIN mappings : mappings[k].dest = original[i].text}
    IN  /\ Cardinality(found) <= 1
        /\ html[i] = IF found = {} THEN original[i].text
                     ELSE <<mappings[CHOOSE k \in found : TRUE].url>>

\* A campaign with short links has a template of its own, and every short link
\* in it was made for it; without trouble nothing is left out.
CampaignIsWhole ==
  /\ campaign => derived = (mappings # <<>>)
  /\ answer = "ok" => campaign
  /\ answer = "ok" /\ mishaps = 0 => {mappings[k].dest : k \in DOMAIN mappings} = Destinations
  /\ \A k, l \in DOMAIN mappings : mappings[k].id = mappings[l].id => k = l

\* A row that names the template does so whatever is entered later.
TemplateIsKept == \A id \in own : cache[id].template
=============================================================================
