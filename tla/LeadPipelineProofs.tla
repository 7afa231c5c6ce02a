------------------------- MODULE LeadPipelineProofs -------------------------
(***************************************************************************)
(* For any number of pages, companies, runs and batches: no page of a      *)
(* search is lost, the credits of a day are overshot by a bound, searches  *)
(* are within the attempts, a company that is ENRICHED has its lead, with  *)
(* a contact of its own or one that another company took, opportunities    *)
(* are not more than batches, and a company is paid for again only for a   *)
(* cause.                                                                  *)
(***************************************************************************)
EXTENDS LeadPipeline, FiniteSetTheorems, TLAPS

RunType   == [at : {"idle", "search", "store"}, token : Tokens, left : SUBSET Companies]
CrawlType == [at : {"idle", "next", "fetch", "mail"}, co : Companies \cup {Nobody},
              left : SUBSET Companies]
BatchType == [at : {"idle", "next"} \cup Trying, co : Companies \cup {Nobody},
              left : SUBSET Companies, attempts : Nat, mail : BOOLEAN,
              contact : Address \cup {Nobody}]

(* a batch that has a contact for the company                               *)
Filing == {"lead", "create", "write"}

(* who is at work on a company has one                                      *)
Manned ==
  /\ \A b \in Batches : /\ batch[b].at \in Trying => batch[b].co \in Companies
                        /\ batch[b].at \in Filing => batch[b].contact \in Address
  /\ \A k \in Crawlers : crawler[k].at \in {"fetch", "mail"} => crawler[k].co \in Companies

(* the companies of the first t pages are among R                           *)
Past(t, R) == \A p \in 1 .. t : Found[p] \subseteq R

(* the companies that have a row                                            *)
Rows == {c \in Companies : crawl[c] # "none"}

(* a token is only held where the pages before it were stored               *)
RunSafeAt(run, R) ==
  /\ run.at # "idle" => Past(run.token, R)
  /\ run.at = "store" => Found[run.token + 1] \ run.left \subseteq R

PagesSafe ==
  /\ Past(query.token, Rows)
  /\ query.status = "DONE" => Past(Pages, Rows)
  /\ patch # -1 => Past(patch, Rows)
  /\ \A r \in Runners : RunSafeAt(runner[r], Rows)

(* the calls that the batches under way may still need: those with three    *)
(* ahead, with two, with one                                                *)
Ahead(S)  == {b \in Batches : batch[b].at \in S}
Reserved  == Cardinality(Ahead({"search"})) + Cardinality(Ahead({"search", "person"}))
             + Cardinality(Ahead(Billing))
UnitsSafe == units + Reserved <= CreditLimit - 1 + 3 * Cardinality(Batches)

IInv == TypeOK /\ Manned /\ PagesSafe /\ UnitsSafe

-----------------------------------------------------------------------------
(* The batches of a set are finitely many, and no more than all.            *)
LEMMA Sizes ==
  ASSUME NEW P, P \subseteq Batches
  PROVE  /\ IsFiniteSet(P) /\ Cardinality(P) \in Nat
         /\ Cardinality(P) <= Cardinality(Batches) /\ Cardinality(Batches) \in Nat
BY PipelineAssumption, FS_Subset, FS_CardinalityType

(* A smaller set of batches counts no more.                                 *)
LEMMA Smaller ==
  ASSUME NEW P, P \subseteq Batches, NEW Q, Q \subseteq P
  PROVE  Cardinality(Q) <= Cardinality(P)
BY Sizes, FS_Subset

(* Without one of its batches a set counts one less.                        *)
LEMMA FewerByOne ==
  ASSUME NEW P, P \subseteq Batches, NEW b \in P, NEW Q, Q \subseteq P \ {b}
  PROVE  Cardinality(Q) <= Cardinality(P) - 1
<1>1. Cardinality(P \ {b}) = Cardinality(P) - 1
  BY Sizes, FS_RemoveElement
<1>2. Cardinality(Q) <= Cardinality(P \ {b})
  BY Smaller
<1> QED BY <1>1, <1>2

(* The units stay in bounds when no call is begun, and a call that is made  *)
(* leaves the list of those that are ahead.                                 *)
LEMMA UnitsKept ==
  ASSUME UnitsSafe, units \in Nat, units' = units,
         \A S \in {{"search"}, {"search", "person"}, Billing} : Ahead(S)' \subseteq Ahead(S)
  PROVE  UnitsSafe'
<1> DEFINE A == {"search"}
           B == {"search", "person"}
<1>1. \A S \in {A, B, Billing} : Cardinality(Ahead(S)') <= Cardinality(Ahead(S))
  BY Smaller DEF Ahead
<1>2. \A S \in {A, B, Billing} : Cardinality(Ahead(S)') \in Nat /\ Cardinality(Ahead(S)) \in Nat
  BY Sizes DEF Ahead
<1>3. Cardinality(Batches) \in Nat /\ CreditLimit \in Nat
  BY PipelineAssumption, Sizes
<1> QED BY <1>1, <1>2, <1>3 DEF UnitsSafe, Reserved

(* A batch that spends a unit has one call less ahead.                      *)
LEMMA UnitsSpent ==
  ASSUME UnitsSafe, units \in Nat, units' = units + 1,
         \A S \in {{"search"}, {"search", "person"}, Billing} : Ahead(S)' \subseteq Ahead(S),
         NEW S0 \in {{"search"}, {"search", "person"}, Billing}, NEW b \in Ahead(S0),
         b \notin Ahead(S0)'
  PROVE  UnitsSafe'
<1> DEFINE A == {"search"}
           B == {"search", "person"}
<1>1. \A S \in {A, B, Billing} : Cardinality(Ahead(S)') <= Cardinality(Ahead(S))
  BY Smaller DEF Ahead
<1>2. \A S \in {A, B, Billing} : Cardinality(Ahead(S)') \in Nat /\ Cardinality(Ahead(S)) \in Nat
  BY Sizes DEF Ahead
<1>3. Cardinality(Ahead(S0)') <= Cardinality(Ahead(S0)) - 1
  <2>1. Ahead(S0) \subseteq Batches /\ Ahead(S0)' \subseteq Ahead(S0) \ {b}
    BY DEF Ahead
  <2> QED BY <2>1, FewerByOne
<1>4. Cardinality(Batches) \in Nat /\ CreditLimit \in Nat
  BY PipelineAssumption, Sizes
<1>5. CASE S0 = A
  BY <1>1, <1>2, <1>3, <1>4, <1>5 DEF UnitsSafe, Reserved
<1>6. CASE S0 = B
  BY <1>1, <1>2, <1>3, <1>4, <1>6 DEF UnitsSafe, Reserved
<1>7. CASE S0 = Billing
  BY <1>1, <1>2, <1>3, <1>4, <1>7 DEF UnitsSafe, Reserved
<1> QED BY <1>5, <1>6, <1>7

(* A call is only begun while the limit is not reached: whoever else has    *)
(* begun one, there are no more of them than batches.                       *)
LEMMA UnitsBegun ==
  ASSUME units \in Nat, units < CreditLimit, units' = units
  PROVE  UnitsSafe'
<1>1. \A S : Cardinality(Ahead(S)') \in Nat /\ Cardinality(Ahead(S)') <= Cardinality(Batches)
  BY Sizes DEF Ahead
<1>2. Cardinality(Batches) \in Nat /\ CreditLimit \in Nat
  BY PipelineAssumption, Sizes
<1> QED BY <1>1, <1>2 DEF UnitsSafe, Reserved

-----------------------------------------------------------------------------
(* Who is idle is of its type, and the first token is one.                  *)
LEMMA Fixed ==
  /\ NoRun \in RunType /\ NoCrawl \in CrawlType /\ NoBatch \in BatchType
  /\ NoBatch.at = "idle" /\ NoCrawl.at = "idle" /\ NoRun.at = "idle"
  /\ Pages \in Nat /\ Pages > 0 /\ 0 \in Tokens
BY PipelineAssumption DEF NoRun, NoCrawl, NoBatch, RunType, CrawlType, BatchType, Tokens

(* Clicks and mishaps stay within their bounds.                             *)
LEMMA Counting ==
  ASSUME TypeOK
  PROVE  /\ Click => clicks' \in 0 .. MaxClicks /\ mishaps' \in 0 .. MaxMishaps
         /\ Mishap => clicks' \in 0 .. MaxClicks /\ mishaps' \in 0 .. MaxMishaps
         /\ UNCHANGED counts => clicks' \in 0 .. MaxClicks /\ mishaps' \in 0 .. MaxMishaps
BY PipelineAssumption DEF TypeOK, Click, Mishap, counts

(* Pages that are stored stay stored while rows only come.                  *)
LEMMA PastGrows ==
  ASSUME NEW R, NEW Q, R \subseteq Q
  PROVE  /\ \A t : Past(t, R) => Past(t, Q)
         /\ \A run : RunSafeAt(run, R) => RunSafeAt(run, Q)
BY DEF Past, RunSafeAt

(* Pages, tokens and what was stored stay right while rows only come.       *)
LEMMA SafeRemains ==
  ASSUME PagesSafe, Rows \subseteq Rows', UNCHANGED places
  PROVE  PagesSafe'
BY PastGrows DEF PagesSafe, places

(* The pages up to a token and the page at it are the pages past it.        *)
LEMMA PageStored ==
  ASSUME NEW t \in Tokens, NEW R, Past(t, R), Found[t + 1] \subseteq R
  PROVE  Past(t + 1, R) /\ Past(0, R) /\ Past(NextToken(t), R) /\ NextToken(t) \in Tokens
<1>1. \A p \in 1 .. t + 1 : p \in 1 .. t \/ p = t + 1
  BY PipelineAssumption DEF Tokens
<1>2. NextToken(t) \in {0, t + 1} /\ NextToken(t) \in Tokens
  BY PipelineAssumption DEF Tokens, NextToken
<1> QED BY <1>1, <1>2 DEF Past

(* What a step of the search leaves behind.                                 *)
Searched ==
  /\ query' \in [status : {"ACTIVE", "PAUSED", "DONE"}, token : Tokens]
  /\ patch' \in Tokens \cup {-1}
  /\ runner' \in [Runners -> RunType]
  /\ crawl' \in [Companies -> {"none", "PENDING", "FAILED"} \cup CrawlOk]
  /\ PagesSafe'
  /\ UNCHANGED <<crawls, leads>>
  /\ Click \/ Mishap \/ UNCHANGED counts

(* A runner's new record, and a query that is left alone.                   *)
LEMMA RunnerStep ==
  ASSUME TypeOK, PagesSafe, NEW r \in Runners, NEW new \in RunType,
         runner' = [runner EXCEPT ![r] = new], Rows \subseteq Rows', RunSafeAt(new, Rows'),
         UNCHANGED <<query, patch>>
  PROVE  runner' \in [Runners -> RunType] /\ PagesSafe'
<1>1. runner \in [Runners -> RunType]
  BY DEF TypeOK, RunType
<1>2. runner' \in [Runners -> RunType]
  BY <1>1
<1>3. runner'[r] = new /\ \A q \in Runners : q # r => runner'[q] = runner[q]
  BY <1>1
<1>4. \A q \in Runners : RunSafeAt(runner'[q], Rows')
  BY <1>3, PastGrows DEF PagesSafe
<1> QED BY <1>2, <1>4, PastGrows DEF PagesSafe

(* A step of the search stores the companies of a page before it passes it. *)
LEMMA SearchingStep ==
  ASSUME TypeOK, PagesSafe, Searching
  PROVE  Searched
<1>0. /\ query \in [status : {"ACTIVE", "PAUSED", "DONE"}, token : Tokens]
      /\ patch \in Tokens \cup {-1} /\ runner \in [Runners -> RunType]
      /\ crawl \in [Companies -> {"none", "PENDING", "FAILED"} \cup CrawlOk]
  BY DEF TypeOK, RunType
<1>1. ASSUME NEW r \in Runners, StartRun(r) PROVE Searched
  <2> DEFINE new == [at |-> "search", token |-> query.token, left |-> {}]
  <2>1. new \in RunType
    BY <1>0 DEF RunType
  <2>2. runner' = [runner EXCEPT ![r] = new] /\ Rows' = Rows
    BY <1>1 DEF StartRun, Rows
  <2>3. RunSafeAt(new, Rows')
    BY <2>2 DEF RunSafeAt, PagesSafe
  <2>4. UNCHANGED <<query, patch, crawl, crawls, leads>> /\ Click
    BY <1>1 DEF StartRun
  <2> HIDE DEF new
  <2> QED BY <1>0, <2>1, <2>2, <2>3, <2>4, RunnerStep DEF Searched
<1>2. ASSUME NEW r \in Runners, TextSearch(r) PROVE Searched
  <2> DEFINE new == [at |-> "store", token |-> runner[r].token,
                     left |-> Found[runner[r].token + 1]]
  <2>0. runner[r].token \in Tokens
    BY <1>0 DEF RunType
  <2>1. new \in RunType
    <3>1. Found[runner[r].token + 1] \subseteq Companies
      BY <2>0, PipelineAssumption DEF Tokens
    <3> QED BY <2>0, <3>1 DEF RunType
  <2>2. runner' = [runner EXCEPT ![r] = new] /\ Rows' = Rows
    BY <1>2 DEF TextSearch, Rows
  <2>3. RunSafeAt(new, Rows')
    BY <1>2, <2>2 DEF RunSafeAt, PagesSafe, TextSearch
  <2>4. UNCHANGED <<query, patch, crawl, crawls, leads, counts>>
    BY <1>2 DEF TextSearch
  <2> HIDE DEF new
  <2> QED BY <1>0, <2>1, <2>2, <2>3, <2>4, RunnerStep DEF Searched
<1>3. ASSUME NEW r \in Runners, NEW c \in Companies, UpsertPlace(r, c) PROVE Searched
  <2> DEFINE new == [at |-> "store", token |-> runner[r].token,
                     left |-> runner[r].left \ {c}]
  <2>1. new \in RunType
    BY <1>0 DEF RunType
  <2>2. /\ runner' = [runner EXCEPT ![r] = new]
        /\ Rows \subseteq Rows' /\ c \in Rows'
        /\ crawl' \in [Companies -> {"none", "PENDING", "FAILED"} \cup CrawlOk]
    BY <1>0, <1>3 DEF UpsertPlace, Rows
  <2>3. RunSafeAt(new, Rows')
    BY <1>3, <2>2, PastGrows DEF RunSafeAt, PagesSafe, UpsertPlace
  <2>4. UNCHANGED <<query, patch, crawls, leads, counts>>
    BY <1>3 DEF UpsertPlace
  <2> HIDE DEF new
  <2> QED BY <1>0, <2>1, <2>2, <2>3, <2>4, RunnerStep DEF Searched
<1>4. ASSUME NEW r \in Runners, RunFails(r) PROVE Searched
  <2>1. RunSafeAt(NoRun, Rows') /\ NoRun \in RunType
    BY Fixed DEF RunSafeAt, NoRun
  <2>2. /\ runner' = [runner EXCEPT ![r] = NoRun] /\ Rows' = Rows
        /\ UNCHANGED <<query, patch, crawl, crawls, leads>> /\ Mishap
    BY <1>4 DEF RunFails, Rows
  <2> QED BY <1>0, <2>1, <2>2, RunnerStep DEF Searched
<1>5. ASSUME NEW r \in Runners, Advance(r) PROVE Searched
  <2> DEFINE t == runner[r].token
  <2>0. t \in Tokens /\ Past(t, Rows) /\ Found[t + 1] \subseteq Rows
    BY <1>0, <1>5 DEF Advance, RunType, PagesSafe, RunSafeAt
  <2>1. Past(t + 1, Rows) /\ Past(NextToken(t), Rows) /\ NextToken(t) \in Tokens
    BY <2>0, PageStored
  <2>2. query' = [status |-> IF t + 1 = Pages THEN "DONE" ELSE "ACTIVE",
                  token |-> NextToken(t)]
    BY <1>5 DEF Advance
  <2>3. UNCHANGED <<patch, crawl, crawls, leads, counts>> /\ Rows' = Rows
    BY <1>5 DEF Advance, Rows
  <2>4. runner' \in [Runners -> RunType] /\ \A q \in Runners : RunSafeAt(runner'[q], Rows')
    <3>1. runner' = [runner EXCEPT ![r] = NoRun]
      BY <1>5 DEF Advance
    <3>2. RunSafeAt(NoRun, Rows)
      BY DEF RunSafeAt, NoRun
    <3>3. \A q \in Runners : runner'[q] = runner[q] \/ runner'[q] = NoRun
      BY <1>0, <3>1
    <3> QED BY <1>0, <2>3, <3>1, <3>2, <3>3, Fixed DEF PagesSafe
  <2>5. /\ query' \in [status : {"ACTIVE", "PAUSED", "DONE"}, token : Tokens]
        /\ Past(query'.token, Rows') /\ (query'.status = "DONE" => Past(Pages, Rows'))
    BY <2>1, <2>2, <2>3
  <2>6. patch' # -1 => Past(patch', Rows')
    BY <2>3 DEF PagesSafe
  <2> HIDE DEF t
  <2> QED BY <1>0, <2>3, <2>4, <2>5, <2>6 DEF Searched, PagesSafe
<1>6. ASSUME PauseQuery PROVE Searched
  <2>1. query'.status = "PAUSED" /\ query'.token = query.token
        /\ query' \in [status : {"ACTIVE", "PAUSED", "DONE"}, token : Tokens]
    BY <1>0, <1>6 DEF PauseQuery
  <2>2. UNCHANGED <<patch, runner, crawl, crawls, leads>> /\ Click /\ Rows' = Rows
    BY <1>6 DEF PauseQuery, Rows
  <2> QED BY <1>0, <2>1, <2>2 DEF Searched, PagesSafe
<1>7. ASSUME ReadToActivate PROVE Searched
  <2>1. UNCHANGED <<query, runner, crawl, crawls, leads>> /\ Click /\ Rows' = Rows
        /\ patch' = query.token
    BY <1>7 DEF ReadToActivate, Rows
  <2> QED BY <1>0, <2>1 DEF Searched, PagesSafe
<1>8. ASSUME Activate PROVE Searched
  <2>1. /\ UNCHANGED <<runner, crawl, crawls, leads, counts>> /\ Rows' = Rows
        /\ query' = [status |-> "ACTIVE", token |-> patch] /\ patch' = -1 /\ patch # -1
    BY <1>8 DEF Activate, Rows
  <2>2. query' \in [status : {"ACTIVE", "PAUSED", "DONE"}, token : Tokens]
    BY <1>0, <2>1
  <2>3. Past(query'.token, Rows') /\ query'.status # "DONE"
    BY <2>1 DEF PagesSafe
  <2> QED BY <1>0, <2>1, <2>2, <2>3 DEF Searched, PagesSafe
<1> QED BY <1>1, <1>2, <1>3, <1>4, <1>5, <1>6, <1>7, <1>8 DEF Searching

-----------------------------------------------------------------------------
CrawlerManned == \A k \in Crawlers : crawler[k].at \in {"fetch", "mail"} =>
                                       crawler[k].co \in Companies

(* What a step of the crawler leaves behind.                                *)
Crawled ==
  /\ crawl' \in [Companies -> {"none", "PENDING", "FAILED"} \cup CrawlOk]
  /\ mail' \subseteq Companies
  /\ crawler' \in [Crawlers -> CrawlType]
  /\ CrawlerManned' /\ Rows \subseteq Rows'
  /\ UNCHANGED <<places, leads>>
  /\ Click \/ Mishap \/ UNCHANGED counts

(* A crawler that moves keeps its type and its company.                     *)
LEMMA CrawlerStep ==
  ASSUME TypeOK, CrawlerManned, NEW k \in Crawlers, NEW new \in CrawlType,
         new.at \in {"fetch", "mail"} => new.co \in Companies,
         crawler' = [crawler EXCEPT ![k] = new]
  PROVE  crawler' \in [Crawlers -> CrawlType] /\ CrawlerManned'
BY DEF TypeOK, CrawlType, CrawlerManned

(* A crawler done with a company has none.                                  *)
LEMMA TurnCrawlType ==
  ASSUME TypeOK, NEW k \in Crawlers
  PROVE  TurnCrawl(k) \in CrawlType /\ TurnCrawl(k).at \notin {"fetch", "mail"}
BY Fixed DEF TypeOK, TurnCrawl, CrawlType, NoCrawl

(* A step of a crawler leaves search and batches alone.                     *)
LEMMA CrawlingStep ==
  ASSUME TypeOK, CrawlerManned, Crawling
  PROVE  Crawled
<1>0. /\ crawl \in [Companies -> {"none", "PENDING", "FAILED"} \cup CrawlOk]
      /\ mail \subseteq Companies /\ crawler \in [Crawlers -> CrawlType]
  BY DEF TypeOK, CrawlType
<1>1. ASSUME NEW k \in Crawlers, ListCrawls(k) PROVE Crawled
  <2>1. PICK S \in SUBSET {c \in Companies : crawl[c] # "none"} :
          crawler' = [crawler EXCEPT ![k] = [at |-> "next", co |-> Nobody, left |-> S]]
    BY <1>1 DEF ListCrawls
  <2>2. [at |-> "next", co |-> Nobody, left |-> S] \in CrawlType
    BY DEF CrawlType
  <2>3. UNCHANGED <<places, crawl, mail, leads>> /\ (Click \/ UNCHANGED counts) /\ Rows' = Rows
    BY <1>1 DEF ListCrawls, Rows
  <2> QED BY <1>0, <2>1, <2>2, <2>3, CrawlerStep DEF Crawled
<1>2. ASSUME NEW k \in Crawlers, NEW c \in Companies, Fetch(k, c) PROVE Crawled
  <2> DEFINE new == [at |-> "fetch", co |-> c, left |-> crawler[k].left \ {c}]
  <2>1. new \in CrawlType /\ new.co \in Companies
    BY <1>0 DEF CrawlType
  <2>2. /\ crawler' = [crawler EXCEPT ![k] = new] /\ Rows' = Rows
        /\ UNCHANGED <<places, crawl, mail, leads, counts>>
    BY <1>2 DEF Fetch, Rows
  <2> HIDE DEF new
  <2> QED BY <1>0, <2>1, <2>2, CrawlerStep DEF Crawled
<1>3. ASSUME NEW k \in Crawlers, WriteCrawl(k) PROVE Crawled
  <2> DEFINE c == crawler[k].co
             new == [at |-> "mail", co |-> crawler[k].co, left |-> crawler[k].left]
  <2>1. c \in Companies
    BY <1>3 DEF WriteCrawl, CrawlerManned
  <2>2. PICK s \in CrawlOk \cup {"FAILED"} : crawl' = [crawl EXCEPT ![c] = s]
    BY <1>3 DEF WriteCrawl
  <2>3. /\ crawl' \in [Companies -> {"none", "PENDING", "FAILED"} \cup CrawlOk]
        /\ Rows \subseteq Rows'
    BY <1>0, <2>1, <2>2 DEF Rows, CrawlOk
  <2>4. new \in CrawlType /\ new.co \in Companies
    BY <1>0, <2>1 DEF CrawlType
  <2>5. \/ crawler' = [crawler EXCEPT ![k] = TurnCrawl(k)]
        \/ crawler' = [crawler EXCEPT ![k] = new]
    BY <1>3 DEF WriteCrawl
  <2>6. UNCHANGED <<places, mail, leads, counts>>
    BY <1>3 DEF WriteCrawl
  <2> HIDE DEF new
  <2>7. crawler' \in [Crawlers -> CrawlType] /\ CrawlerManned'
    BY <2>4, <2>5, TurnCrawlType, CrawlerStep
  <2> QED BY <1>0, <2>3, <2>6, <2>7 DEF Crawled
<1>4. ASSUME NEW k \in Crawlers, WriteMail(k) PROVE Crawled
  <2>1. mail' \subseteq Companies
    BY <1>0, <1>4 DEF WriteMail, CrawlerManned
  <2>2. /\ crawler' = [crawler EXCEPT ![k] = TurnCrawl(k)] /\ Rows' = Rows
        /\ UNCHANGED <<places, crawl, leads, counts>>
    BY <1>4 DEF WriteMail, Rows
  <2> QED BY <1>0, <2>1, <2>2, TurnCrawlType, CrawlerStep DEF Crawled
<1>5. ASSUME NEW k \in Crawlers, CrawlFails(k) PROVE Crawled
  <2>1. /\ crawl' \in [Companies -> {"none", "PENDING", "FAILED"} \cup CrawlOk]
        /\ Rows \subseteq Rows'
    BY <1>0, <1>5 DEF CrawlFails, CrawlerManned, Rows
  <2>2. /\ crawler' = [crawler EXCEPT ![k] = TurnCrawl(k)] /\ Mishap
        /\ UNCHANGED <<places, mail, leads>>
    BY <1>5 DEF CrawlFails
  <2> QED BY <1>0, <2>1, <2>2, TurnCrawlType, CrawlerStep DEF Crawled
<1>6. ASSUME NEW k \in Crawlers, CrawlerDies(k) PROVE Crawled
  <2>1. /\ crawler' = [crawler EXCEPT ![k] = NoCrawl] /\ Mishap /\ Rows' = Rows
        /\ UNCHANGED <<places, crawl, mail, leads>>
    BY <1>6 DEF CrawlerDies, Rows
  <2> QED BY <1>0, <2>1, Fixed, CrawlerStep DEF Crawled
<1> QED BY <1>1, <1>2, <1>3, <1>4, <1>5, <1>6 DEF Crawling

-----------------------------------------------------------------------------
BatchManned ==
  \A b \in Batches : /\ batch[b].at \in Trying => batch[b].co \in Companies
                     /\ batch[b].at \in Filing => batch[b].contact \in Address

(* the companies' rows as far as the enrichment writes them, and histories  *)
RowsType ==
  /\ status \in [Companies -> {"PENDING", "FAILED"} \cup Finished]
  /\ attempts \in [Companies -> Nat] /\ opps \in [Companies -> Seq(Address)]
  /\ contact \in [Address -> Companies \cup {Nobody}] /\ moved \subseteq Address
  /\ billed \in [Companies -> Nat] /\ disturbed \subseteq Companies

(* What a step of the enrichment or of the user leaves behind.              *)
Worked ==
  /\ RowsType' /\ units' \in Nat
  /\ batch' \in [Batches -> BatchType] /\ BatchManned'
  /\ UnitsSafe'
  /\ UNCHANGED <<places, crawl, crawls>>
  /\ Click \/ Mishap \/ UNCHANGED counts

(* A batch that moves keeps its type; only it can come to have calls ahead. *)
LEMMA BatchStep ==
  ASSUME TypeOK, BatchManned, NEW b \in Batches, NEW new \in BatchType,
         new.at \in Trying => new.co \in Companies,
         new.at \in Filing => new.contact \in Address,
         batch' = [batch EXCEPT ![b] = new]
  PROVE  /\ batch' \in [Batches -> BatchType] /\ BatchManned'
         /\ batch'[b] = new
         /\ \A S : b \notin Ahead(S)' => Ahead(S)' \subseteq Ahead(S)
         /\ \A S : batch[b].at \in S => Ahead(S)' \subseteq Ahead(S)
         /\ \A S : b \in Ahead(S)' <=> new.at \in S
BY DEF TypeOK, BatchType, BatchManned, Ahead

(* A batch done with a company tries none.                                  *)
LEMMA TurnBatchType ==
  ASSUME TypeOK, NEW b \in Batches
  PROVE  /\ TurnBatch(b) \in BatchType
         /\ TurnBatch(b).at \notin Trying /\ TurnBatch(b).at \notin Filing
BY Fixed DEF TypeOK, TurnBatch, Listed, BatchType, NoBatch, Trying, Billing, Filing

(* A batch that goes on with its company is of its type.                    *)
LEMMA AtType ==
  ASSUME TypeOK, NEW b \in Batches, NEW place \in Trying, batch[b].co \in Companies,
         NEW a \in Address \cup {Nobody}
  PROVE  /\ At(b, place, a) \in BatchType /\ At(b, place, a).co \in Companies
         /\ At(b, place, a).at = place /\ At(b, place, a).contact = a
BY DEF TypeOK, At, BatchType

(* The address that a batch goes on with is of its type.                    *)
LEMMA HasContact ==
  ASSUME TypeOK, NEW b \in Batches
  PROVE  batch[b].contact \in Address \cup {Nobody}
BY DEF TypeOK

(* A batch that goes on, without a call: it has no more calls ahead.        *)
LEMMA GoesStep ==
  ASSUME TypeOK, BatchManned, UnitsSafe, NEW b \in Batches, NEW new \in BatchType,
         new.at \in Trying => new.co \in Companies,
         new.at \in Filing => new.contact \in Address, new.at \notin Billing,
         batch' = [batch EXCEPT ![b] = new], units' = units
  PROVE  batch' \in [Batches -> BatchType] /\ BatchManned' /\ UnitsSafe' /\ units' \in Nat
<1>1. \A S \in {{"search"}, {"search", "person"}, Billing} : b \notin Ahead(S)'
  BY BatchStep DEF Billing
<1> QED BY <1>1, BatchStep, UnitsKept DEF TypeOK

(* A batch that makes the call it was at.                                   *)
LEMMA CallStep ==
  ASSUME TypeOK, BatchManned, UnitsSafe, NEW b \in Batches, NEW new \in BatchType,
         new.at \in Trying => new.co \in Companies,
         new.at \in Filing => new.contact \in Address,
         batch' = [batch EXCEPT ![b] = new], units' = units + 1,
         \/ batch[b].at = "search" /\ new.at # "search"
         \/ batch[b].at = "person" /\ new.at \notin {"search", "person"}
         \/ batch[b].at = "generic" /\ new.at \notin Billing
  PROVE  batch' \in [Batches -> BatchType] /\ BatchManned' /\ UnitsSafe' /\ units' \in Nat
<1> DEFINE Three == {{"search"}, {"search", "person"}, Billing}
<1>0. units \in Nat /\ units' \in Nat
  BY DEF TypeOK
<1>1. \A S : b \in Ahead(S) <=> batch[b].at \in S
  BY DEF Ahead
<1>2. \A S \in Three : Ahead(S)' \subseteq Ahead(S)
  BY BatchStep DEF Billing
<1>3. \E S \in Three : b \in Ahead(S) /\ b \notin Ahead(S)'
  <2>1. \A S : b \in Ahead(S)' <=> new.at \in S
    BY BatchStep
  <2>2. CASE batch[b].at = "search" /\ new.at # "search"
    BY <1>1, <2>1, <2>2
  <2>3. CASE batch[b].at = "person" /\ new.at \notin {"search", "person"}
    BY <1>1, <2>1, <2>3
  <2>4. CASE batch[b].at = "generic" /\ new.at \notin Billing
    BY <1>1, <2>1, <2>4 DEF Billing
  <2> QED BY <2>2, <2>3, <2>4
<1> QED BY <1>0, <1>2, <1>3, BatchStep, UnitsSpent

\* A step of a batch keeps what is spent and still to spend within the limit.
LEMMA EnrichingStep ==
  ASSUME TypeOK, BatchManned, UnitsSafe, Enriching
  PROVE  Worked
<1>0. /\ RowsType /\ units \in Nat /\ batch \in [Batches -> BatchType]
  BY DEF TypeOK, RowsType, BatchType
<1>1. ASSUME NEW b \in Batches, ListBatch(b) \/ (\E c \in Companies : ChooseBatch(b, c))
      PROVE  Worked
  <2>1. PICK S \in SUBSET Companies :
          batch' = [batch EXCEPT ![b] = Listed(S)]
    BY <1>1 DEF ListBatch, ChooseBatch
  <2>2. Listed(S) \in BatchType /\ Listed(S).at = "next"
    BY DEF BatchType, Listed
  <2>3. disturbed' \subseteq Companies
    BY <1>0, <1>1 DEF ListBatch, ChooseBatch, RowsType
  <2>4. /\ UNCHANGED <<places, crawl, crawls, status, attempts, contact, opps, units, billed,
                       moved>>
        /\ Click \/ UNCHANGED counts
    BY <1>1 DEF ListBatch, ChooseBatch
  <2>5. batch' \in [Batches -> BatchType] /\ BatchManned' /\ UnitsSafe' /\ units' \in Nat
    BY <2>1, <2>2, <2>4, GoesStep DEF Trying, Billing, Filing
  <2> QED BY <1>0, <2>3, <2>4, <2>5 DEF Worked, RowsType
<1>2. ASSUME NEW b \in Batches, NEW c \in Companies, Begin(b, c) PROVE Worked
  <2> DEFINE rest == batch[b].left \ {c}
             first == [at |-> "search", co |-> c, left |-> rest,
                       attempts |-> attempts[c], mail |-> c \in mail, contact |-> Nobody]
             other == Listed(rest)
  <2>1. /\ first \in BatchType /\ first.co \in Companies /\ first.at = "search"
        /\ other \in BatchType /\ other.at = "next"
    BY <1>0 DEF BatchType, RowsType, Trying, Billing, Listed
  <2>2. /\ UNCHANGED <<places, crawl, crawls, status, attempts, contact, opps, units,
                       billed, moved, disturbed, counts>>
        /\ \/ batch' = [batch EXCEPT ![b] = first] /\ units < CreditLimit
           \/ batch' = [batch EXCEPT ![b] = NoBatch]
           \/ batch' = [batch EXCEPT ![b] = other]
    BY <1>2 DEF Begin
  <2> HIDE DEF first, other
  <2>3. batch' \in [Batches -> BatchType] /\ BatchManned' /\ UnitsSafe'
    <3>1. CASE batch' = [batch EXCEPT ![b] = first] /\ units < CreditLimit
      BY <1>0, <2>1, <2>2, <3>1, BatchStep, UnitsBegun DEF Filing
    <3>2. CASE batch' = [batch EXCEPT ![b] = NoBatch]
      BY <2>2, <3>2, Fixed, GoesStep DEF Trying, Billing, Filing
    <3>3. CASE batch' = [batch EXCEPT ![b] = other]
      BY <2>1, <2>2, <3>3, GoesStep DEF Trying, Billing, Filing
    <3> QED BY <2>2, <3>1, <3>2, <3>3
  <2> QED BY <1>0, <2>2, <2>3 DEF Worked, RowsType
<1>3. ASSUME NEW b \in Batches, DomainSearch(b) PROVE Worked
  <2>1. batch[b].at = "search" /\ batch[b].co \in Companies
    BY <1>3 DEF DomainSearch, BatchManned, Trying, Billing
  <2> DEFINE new(p) == At(b, p, batch[b].contact)
  <2>2. PICK place \in {"person", "generic"} : batch' = [batch EXCEPT ![b] = new(place)]
    BY <1>3 DEF DomainSearch, Goes
  <2>3. new(place) \in BatchType /\ new(place).co \in Companies /\ new(place).at = place
    BY <2>1, AtType, HasContact DEF Trying, Billing
  <2>4. /\ UNCHANGED <<places, crawl, crawls, status, attempts, contact, opps, moved, disturbed,
                       counts>>
        /\ units' = units + 1 /\ billed' = [billed EXCEPT ![batch[b].co] = @ + 1]
    BY <1>3 DEF DomainSearch
  <2> HIDE DEF new
  <2>5. batch' \in [Batches -> BatchType] /\ BatchManned' /\ UnitsSafe' /\ units' \in Nat
    BY <2>1, <2>2, <2>3, <2>4, CallStep DEF Filing
  <2> QED BY <1>0, <2>1, <2>4, <2>5 DEF Worked, RowsType
<1>4. ASSUME NEW b \in Batches, VerifyPerson(b) \/ VerifyGeneric(b) PROVE Worked
  <2>1. batch[b].at \in {"person", "generic"} /\ batch[b].co \in Companies
    BY <1>4 DEF VerifyPerson, VerifyGeneric, BatchManned, Trying, Billing
  <2> DEFINE new(p) == At(b, p, batch[b].contact)
  <2>2. PICK place \in {"contact", "generic"} :
          /\ batch' = [batch EXCEPT ![b] = new(place)]
          /\ batch[b].at = "generic" => place = "contact"
    BY <1>4 DEF VerifyPerson, VerifyGeneric, Goes
  <2>3. new(place) \in BatchType /\ new(place).co \in Companies /\ new(place).at = place
    BY <2>1, AtType, HasContact DEF Trying, Billing
  <2>4. /\ UNCHANGED <<places, crawl, crawls, status, attempts, contact, opps, billed, moved,
                       disturbed, counts>>
        /\ units' = units + 1
    BY <1>4 DEF VerifyPerson, VerifyGeneric
  <2> HIDE DEF new
  <2>5. batch' \in [Batches -> BatchType] /\ BatchManned' /\ UnitsSafe' /\ units' \in Nat
    BY <2>1, <2>2, <2>3, <2>4, CallStep DEF Billing, Filing
  <2> QED BY <1>0, <2>4, <2>5 DEF Worked, RowsType
<1>5. ASSUME NEW b \in Batches, UpsertContact(b) \/ LookForLead(b) \/ CreateLead(b) PROVE Worked
  <2>1. /\ batch[b].co \in Companies
        /\ batch[b].at \in {"lead", "create"} => batch[b].contact \in Address
    BY <1>5 DEF UpsertContact, LookForLead, CreateLead, BatchManned, Trying, Filing
  <2>2. PICK place \in Filing, a \in Address :
          batch' = [batch EXCEPT ![b] = At(b, place, a)]
    BY <1>5, <2>1, PipelineAssumption
    DEF UpsertContact, LookForLead, CreateLead, Goes, Filing
  <2>3. /\ At(b, place, a) \in BatchType /\ At(b, place, a).co \in Companies
        /\ At(b, place, a).at = place /\ At(b, place, a).contact = a
    BY <2>1, AtType DEF Trying, Filing
  <2>4. /\ UNCHANGED <<places, crawl, crawls, status, attempts, units, billed,
                       disturbed, counts>>
        /\ contact' \in [Address -> Companies \cup {Nobody}] /\ moved' \subseteq Address
        /\ opps' \in [Companies -> Seq(Address)]
    <3>1. CASE UpsertContact(b)
      BY <1>0, <2>1, <3>1, PipelineAssumption DEF UpsertContact, RowsType
    <3>2. CASE LookForLead(b)
      <4>1. \A s \in Seq(Address) : s # <<>> => <<batch[b].contact>> \o Tail(s) \in Seq(Address)
        BY <2>1, <3>2 DEF LookForLead
      <4>2. opps \in [Companies -> Seq(Address)] /\ opps[batch[b].co] \in Seq(Address)
        BY <1>0, <2>1 DEF RowsType
      <4>3. \/ opps' = opps
            \/ /\ opps[batch[b].co] # <<>>
               /\ opps' = [opps EXCEPT ![batch[b].co] =
                             <<batch[b].contact>> \o Tail(opps[batch[b].co])]
        BY <3>2 DEF LookForLead
      <4>4. opps' \in [Companies -> Seq(Address)]
        BY <4>1, <4>2, <4>3
      <4> QED BY <1>0, <3>2, <4>4 DEF LookForLead, RowsType
    <3>3. CASE CreateLead(b)
      <4>1. \A s \in Seq(Address) : Append(s, batch[b].contact) \in Seq(Address)
        BY <2>1, <3>3 DEF CreateLead
      <4> QED BY <1>0, <2>1, <3>3, <4>1 DEF CreateLead, RowsType
    <3> QED BY <1>5, <3>1, <3>2, <3>3
  <2>5. batch' \in [Batches -> BatchType] /\ BatchManned' /\ UnitsSafe' /\ units' \in Nat
    BY <2>2, <2>3, <2>4, GoesStep DEF Billing, Filing
  <2> QED BY <1>0, <2>4, <2>5 DEF Worked, RowsType
<1>6. ASSUME NEW b \in Batches, NoContact(b) \/ Enriched(b) PROVE Worked
  <2>1. batch[b].co \in Companies
    BY <1>6 DEF NoContact, Enriched, BatchManned, Trying, Billing
  <2>2. /\ UNCHANGED <<places, crawl, crawls, contact, opps, units, billed, moved, disturbed,
                       counts>>
        /\ batch' = [batch EXCEPT ![b] = TurnBatch(b)]
        /\ status' \in [Companies -> {"PENDING", "FAILED"} \cup Finished]
        /\ attempts' \in [Companies -> Nat]
    <3>1. /\ status \in [Companies -> {"PENDING", "FAILED"} \cup Finished]
          /\ attempts \in [Companies -> Nat]
      BY <1>0 DEF RowsType
    <3>2. CASE NoContact(b)
      BY <2>1, <3>1, <3>2 DEF NoContact, Turns, Finished
    <3>3. CASE Enriched(b)
      BY <2>1, <3>1, <3>3 DEF Enriched, Turns, Finished
    <3> QED BY <1>6, <3>2, <3>3
  <2>3. batch' \in [Batches -> BatchType] /\ BatchManned' /\ UnitsSafe' /\ units' \in Nat
    BY <2>2, TurnBatchType, GoesStep DEF Trying
  <2> QED BY <1>0, <2>2, <2>3 DEF Worked, RowsType
<1>7. ASSUME NEW b \in Batches, EnrichFails(b) PROVE Worked
  <2>1. batch[b].co \in Companies /\ batch[b].attempts \in Nat
    BY <1>0, <1>7 DEF EnrichFails, BatchManned, BatchType
  <2>2. PICK n \in {batch[b].attempts + 1, MaxAttempts} :
          attempts' = [attempts EXCEPT ![batch[b].co] = n]
    BY <1>7 DEF EnrichFails
  <2>3. attempts' \in [Companies -> Nat]
    BY <1>0, <2>1, <2>2, PipelineAssumption DEF RowsType
  <2>4. /\ UNCHANGED <<places, crawl, crawls, contact, opps, moved, disturbed, counts>>
        /\ batch' = [batch EXCEPT ![b] = TurnBatch(b)]
        /\ status' = [status EXCEPT ![batch[b].co] = "FAILED"]
    BY <1>7 DEF EnrichFails, Turns
  <2>5. /\ batch' \in [Batches -> BatchType] /\ BatchManned' /\ UnitsSafe' /\ units' \in Nat
        /\ billed' \in [Companies -> Nat]
    <3>1. CASE batch[b].at = "search"
      <4>1. units' = units + 1 /\ billed' = [billed EXCEPT ![batch[b].co] = @ + 1]
        BY <1>7, <3>1 DEF EnrichFails
      <4>2. TurnBatch(b) \in BatchType /\ TurnBatch(b).at \notin Trying
            /\ TurnBatch(b).at # "search" /\ TurnBatch(b).at \notin Filing
        BY TurnBatchType DEF Trying, Billing
      <4>3. billed' \in [Companies -> Nat]
        BY <1>0, <2>1, <4>1 DEF RowsType
      <4> QED BY <2>4, <3>1, <4>1, <4>2, <4>3, CallStep
    <3>2. CASE batch[b].at # "search"
      <4>1. units' = units /\ billed' = billed
        BY <1>7, <3>2 DEF EnrichFails
      <4> QED BY <1>0, <2>4, <4>1, TurnBatchType, GoesStep DEF Trying, RowsType
    <3> QED BY <3>1, <3>2
  <2>6. status' \in [Companies -> {"PENDING", "FAILED"} \cup Finished]
    BY <1>0, <2>4 DEF RowsType
  <2> QED BY <1>0, <2>3, <2>4, <2>5, <2>6 DEF Worked, RowsType
<1>8. ASSUME NEW b \in Batches, BatchDies(b) PROVE Worked
  <2>1. /\ UNCHANGED <<places, crawl, crawls, status, attempts, contact, opps, units,
                       billed, moved, disturbed>>
        /\ batch' = [batch EXCEPT ![b] = NoBatch] /\ Mishap
    BY <1>8 DEF BatchDies
  <2>2. batch' \in [Batches -> BatchType] /\ BatchManned' /\ UnitsSafe' /\ units' \in Nat
    BY <2>1, Fixed, GoesStep DEF Trying, Billing, Filing
  <2> QED BY <1>0, <2>1, <2>2 DEF Worked, RowsType
<1> QED BY <1>1, <1>2, <1>3, <1>4, <1>5, <1>6, <1>7, <1>8 DEF Enriching

(* A user who skips a company or takes that back spends nothing.            *)
LEMMA UserStep ==
  ASSUME TypeOK, BatchManned, UnitsSafe, NEW c \in Companies, Skip(c) \/ Unskip(c)
  PROVE  Worked
<1>1. /\ UNCHANGED <<places, crawl, crawls, contact, opps, batch, units, moved>> /\ Click
      /\ status' \in [Companies -> {"PENDING", "FAILED"} \cup Finished]
      /\ attempts' \in [Companies -> Nat] /\ billed' \in [Companies -> Nat]
      /\ disturbed' \subseteq Companies
  <2>1. /\ status \in [Companies -> {"PENDING", "FAILED"} \cup Finished]
        /\ attempts \in [Companies -> Nat] /\ billed \in [Companies -> Nat]
        /\ disturbed \subseteq Companies
    BY DEF TypeOK
  <2> QED BY <2>1 DEF Skip, Unskip, Finished
<1>2. UnitsSafe' /\ BatchManned' /\ batch' \in [Batches -> BatchType] /\ units' \in Nat
  <2>1. \A S : Ahead(S)' = Ahead(S)
    BY <1>1 DEF Ahead
  <2>2. units \in Nat
    BY DEF TypeOK
  <2>3. UnitsSafe'
    BY <1>1, <2>1, <2>2, UnitsKept
  <2> QED BY <1>1, <2>2, <2>3 DEF BatchManned, TypeOK, BatchType
<1> QED BY <1>1, <1>2 DEF Worked, RowsType, TypeOK

-----------------------------------------------------------------------------
(* The invariant holds at first.                                            *)
LEMMA InitIInv == Init => IInv
<1> SUFFICES ASSUME Init PROVE IInv
  OBVIOUS
<1>1. TypeOK
  <2>1. /\ status \in [Companies -> {"PENDING", "FAILED"} \cup Finished]
        /\ crawl \in [Companies -> {"none", "PENDING", "FAILED"} \cup CrawlOk]
        /\ attempts \in [Companies -> Nat] /\ billed \in [Companies -> Nat]
        /\ mail \subseteq Companies /\ contact \in [Address -> Companies \cup {Nobody}]
    BY PipelineAssumption DEF Init, Known, Finished, CrawlOk
  <2>2. opps \in [Companies -> Seq(Address)]
    <3>1. \A c \in Known : <<CHOOSE a \in Address : Owner[a] = c>> \in Seq(Address)
      BY DEF Known
    <3> QED BY <3>1 DEF Init
  <2> QED BY <2>1, <2>2, Fixed, PipelineAssumption DEF Init, TypeOK, RunType, CrawlType, BatchType
<1>2. Manned
  BY DEF Init, Manned, NoBatch, NoCrawl, Trying, Billing, Filing
<1>3. PagesSafe
  <2>1. Past(0, Rows)
    BY DEF Past
  <2>2. query.token = 0 /\ query.status # "DONE" /\ patch = -1
        /\ \A r \in Runners : runner[r] = NoRun
    BY DEF Init
  <2> QED BY <2>1, <2>2 DEF PagesSafe, RunSafeAt, NoRun
<1>4. UnitsSafe
  <2>1. \A S : "idle" \notin S => Ahead(S) = {}
    BY DEF Init, Ahead, NoBatch
  <2>2. Reserved = 0
    BY <2>1, FS_EmptySet DEF Reserved, Billing
  <2>3. units = 0 /\ CreditLimit \in Nat /\ CreditLimit > 0 /\ Cardinality(Batches) \in Nat
    BY PipelineAssumption, Sizes DEF Init
  <2> QED BY <2>2, <2>3 DEF UnitsSafe
<1> QED BY <1>1, <1>2, <1>3, <1>4 DEF IInv

(* Every step keeps the invariant.                                          *)
LEMMA StepIInv == IInv /\ [Next]_vars => IInv'
<1> SUFFICES ASSUME IInv, [Next]_vars PROVE IInv'
  OBVIOUS
<1>0. /\ TypeOK /\ PagesSafe /\ UnitsSafe /\ BatchManned /\ CrawlerManned /\ Manned
  BY DEF IInv, Manned, BatchManned, CrawlerManned
<1>a. UNCHANGED <<batch, units>> => UnitsSafe' /\ BatchManned'
  <2> SUFFICES ASSUME UNCHANGED <<batch, units>> PROVE UnitsSafe' /\ BatchManned'
    OBVIOUS
  <2>1. \A S : Ahead(S)' = Ahead(S)
    BY DEF Ahead
  <2>2. units \in Nat
    BY <1>0 DEF TypeOK
  <2>3. UnitsSafe'
    BY <1>0, <2>1, <2>2, UnitsKept
  <2> QED BY <1>0, <2>3 DEF BatchManned
<1>b. UNCHANGED crawl => Rows' = Rows
  BY DEF Rows
<1>c. UNCHANGED crawler => CrawlerManned'
  BY <1>0 DEF CrawlerManned
<1>1. CASE UNCHANGED vars
  <2>1. UNCHANGED <<places, crawl, crawls, leads, counts>>
    BY <1>1 DEF vars
  <2>2. TypeOK'
    BY <1>0, <2>1 DEF TypeOK, places, crawls, leads, counts
  <2>3. PagesSafe'
    BY <1>0, <1>b, <2>1, SafeRemains
  <2> QED BY <1>a, <1>c, <2>1, <2>2, <2>3 DEF IInv, Manned, BatchManned, CrawlerManned, leads, crawls
<1>2. CASE Searching
  <2>1. Searched
    BY <1>0, <1>2, SearchingStep
  <2>2. TypeOK'
    BY <1>0, <2>1, Counting DEF TypeOK, Searched, crawls, leads, RunType
  <2>3. UnitsSafe' /\ BatchManned' /\ CrawlerManned'
    BY <1>a, <1>c, <2>1 DEF Searched, leads, crawls
  <2> QED BY <2>1, <2>2, <2>3 DEF IInv, Manned, BatchManned, CrawlerManned, Searched
<1>3. CASE Crawling
  <2>1. Crawled
    BY <1>0, <1>3, CrawlingStep
  <2>2. TypeOK'
    BY <1>0, <2>1, Counting DEF TypeOK, Crawled, places, leads, CrawlType
  <2>3. UnitsSafe' /\ BatchManned'
    BY <1>a, <2>1 DEF Crawled, leads
  <2>4. PagesSafe'
    BY <1>0, <2>1, SafeRemains DEF Crawled
  <2> QED BY <2>1, <2>2, <2>3, <2>4 DEF IInv, Manned, BatchManned, CrawlerManned, Crawled
<1>4. CASE Enriching \/ \E c \in Companies : Skip(c) \/ Unskip(c)
  <2>1. Worked
    BY <1>0, <1>4, EnrichingStep, UserStep
  <2>2. TypeOK'
    BY <1>0, <2>1, Counting DEF TypeOK, Worked, RowsType, places, crawls, BatchType
  <2>3. PagesSafe'
    BY <1>0, <1>b, <2>1, SafeRemains DEF Worked
  <2> QED BY <1>c, <2>1, <2>2, <2>3 DEF IInv, Manned, BatchManned, CrawlerManned, Worked, crawls
<1> QED BY <1>1, <1>2, <1>3, <1>4 DEF Next

-----------------------------------------------------------------------------
(* The rows, the runs and the histories of the pipeline keep their types.   *)
THEOREM TypeCorrect == Spec => []TypeOK
<1>1. IInv => TypeOK
  BY DEF IInv
<1> QED BY <1>1, InitIInv, StepIInv, PTL DEF Spec

(* A query that is DONE has shown every page: a token is never written      *)
(* before its page's companies are, and any token that is written back late *)
(* is one that pages before it were stored for.                             *)
THEOREM DoneFound == Spec => []DoneMeansFound
<1>1. ASSUME IInv PROVE DoneMeansFound
  <2>1. query.status = "DONE" => Past(Pages, Rows)
    BY <1>1 DEF IInv, PagesSafe
  <2> QED BY <2>1 DEF DoneMeansFound, Past, Rows
<1> QED BY <1>1, InitIInv, StepIInv, PTL DEF Spec

(* The units of a day never pass the limit by more than three calls for     *)
(* each batch, whatever the batches' order, failures and deaths.            *)
THEOREM CreditsBounded == Spec => []CreditOvershootBounded
<1>1. ASSUME IInv PROVE CreditOvershootBounded
  <2>1. \A S : Cardinality(Ahead(S)) \in Nat
    BY Sizes DEF Ahead
  <2>2. units \in Nat /\ CreditLimit \in Nat /\ Cardinality(Batches) \in Nat
    BY <1>1, PipelineAssumption, Sizes DEF IInv, TypeOK
  <2>3. Reserved \in Nat
    BY <2>1 DEF Reserved
  <2>4. units + Reserved <= CreditLimit - 1 + 3 * Cardinality(Batches)
    BY <1>1 DEF IInv, UnitsSafe
  <2> QED BY <2>2, <2>3, <2>4 DEF CreditOvershootBounded
<1> QED BY <1>1, InitIInv, StepIInv, PTL DEF Spec

-----------------------------------------------------------------------------
(* a batch under way is at one company, or between two                      *)
Shaped ==
  \A b \in Batches :
    /\ batch[b].at = "idle" => batch[b].left = {}
    /\ batch[b].at \notin Trying => batch[b].co = Nobody
    /\ batch[b].co \notin batch[b].left

(* a company that waits has no attempts behind it                           *)
Fresh == \A c \in Companies : status[c] = "PENDING" => attempts[c] = 0

(* the opportunity is written before the outcome is                         *)
Written ==
  /\ \A b \in Batches :
       batch[b].at = "write" => Len(opps[batch[b].co]) > 0
  /\ \A c \in Companies : status[c] = "ENRICHED" => Len(opps[c]) > 0

(* a batch that has searched for the company, and not written the outcome   *)
PastSearch(run, c) == run.at \in Trying \ {"search"} /\ run.co = c

(* what holds of a company that nothing came in between for: one batch at   *)
(* most has it, it is not finished meanwhile, and the searches for it were  *)
(* counted as attempts, but for the one under way and those that died       *)
Filed(c) ==
  /\ \A b, d \in Batches : c \in Having(b) /\ c \in Having(d) => b = d
  /\ \A b \in Batches :
       /\ c \in Having(b) => status[c] \notin Finished /\ attempts[c] < MaxAttempts
       /\ batch[b].at \in Trying /\ batch[b].co = c => batch[b].attempts = attempts[c]
       /\ batch[b].at = "create" /\ batch[b].co = c => Len(opps[c]) = 0
  /\ attempts[c] <= MaxAttempts /\ Len(opps[c]) <= 1
  /\ billed[c] <= attempts[c] + mishaps + 1
  /\ (\A b \in Batches : ~PastSearch(batch[b], c)) => billed[c] <= attempts[c] + mishaps

FilesInv == Shaped /\ Fresh /\ Written /\ \A c \in Companies \ disturbed : Filed(c)

(* the company's row, as far as it says what was tried                      *)
RowKept(c) ==
  /\ status'[c] = status[c] /\ attempts'[c] = attempts[c]
  /\ opps'[c] = opps[c] /\ billed'[c] = billed[c]

(* What the row of a company and the death count are made of.               *)
LEMMA Numbers ==
  ASSUME TypeOK, NEW c \in Companies
  PROVE  /\ attempts[c] \in Nat /\ Len(opps[c]) \in Nat /\ billed[c] \in Nat
         /\ mishaps \in Nat /\ MaxAttempts \in Nat /\ MaxAttempts > 0
BY PipelineAssumption DEF TypeOK

(* A step writes the record of one batch.                                   *)
LEMMA OneRecord ==
  ASSUME TypeOK, NEW b \in Batches, NEW new, batch' = [batch EXCEPT ![b] = new]
  PROVE  batch'[b] = new /\ \A d \in Batches : d # b => batch'[d] = batch[d]
BY DEF TypeOK

(* The records keep their shape when the new one has it.                    *)
LEMMA ShapedStep ==
  ASSUME TypeOK, Shaped, NEW b \in Batches, NEW new, batch' = [batch EXCEPT ![b] = new],
         new.at = "idle" => new.left = {}, new.at \notin Trying => new.co = Nobody,
         new.co \notin new.left
  PROVE  Shaped'
BY OneRecord DEF Shaped

(* What was written stays written: opportunities only come.                 *)
LEMMA WrittenStep ==
  ASSUME TypeOK, BatchManned, Written, NEW b \in Batches, NEW new,
         batch' = [batch EXCEPT ![b] = new],
         \A c \in Companies : Len(opps[c]) > 0 => Len(opps'[c]) > 0,
         new.at = "write" => Len(opps'[new.co]) > 0,
         \A c \in Companies : status'[c] = "ENRICHED" =>
           status[c] = "ENRICHED" \/ Len(opps'[c]) > 0
  PROVE  Written'
<1>1. \A d \in Batches : batch'[d].at = "write" => Len(opps'[batch'[d].co]) > 0
  BY OneRecord DEF Written, BatchManned, Trying
<1>2. \A c \in Companies : status'[c] = "ENRICHED" => Len(opps'[c]) > 0
  BY DEF Written
<1> QED BY <1>1, <1>2 DEF Written

(* A company that the step of a batch is not about stays as it is filed.    *)
LEMMA FiledElse ==
  ASSUME TypeOK, NEW c \in Companies, Filed(c), NEW b \in Batches, NEW new,
         batch' = [batch EXCEPT ![b] = new], RowKept(c),
         mishaps' \in Nat, mishaps' >= mishaps,
         batch[b].co # c, new.co # c, c \in new.left => c \in batch[b].left
  PROVE  Filed(c)'
<1>1. \A d \in Batches : c \in Having(d)' => c \in Having(d)
  BY OneRecord DEF Having
<1>2. \A d \in Batches : batch'[d].co = c => batch'[d] = batch[d]
  BY OneRecord
<1>3. \A d \in Batches : PastSearch(batch[d], c) => PastSearch(batch'[d], c)
  BY OneRecord DEF PastSearch
<1>4. /\ status'[c] = status[c] /\ attempts'[c] = attempts[c]
      /\ opps'[c] = opps[c] /\ billed'[c] = billed[c]
  BY DEF RowKept
<1>5. \A d, e \in Batches : c \in Having(d)' /\ c \in Having(e)' => d = e
  BY <1>1 DEF Filed
<1>6. \A d \in Batches :
        /\ c \in Having(d)' => status'[c] \notin Finished /\ attempts'[c] < MaxAttempts
        /\ batch'[d].at \in Trying /\ batch'[d].co = c => batch'[d].attempts = attempts'[c]
        /\ batch'[d].at = "create" /\ batch'[d].co = c => Len(opps'[c]) = 0
  BY <1>1, <1>2, <1>4 DEF Filed
<1>7. attempts'[c] <= MaxAttempts /\ Len(opps'[c]) <= 1
      /\ billed'[c] <= attempts'[c] + mishaps' + 1
  BY <1>4, Numbers DEF Filed
<1>8. ASSUME \A d \in Batches : ~PastSearch(batch'[d], c)
      PROVE  billed'[c] <= attempts'[c] + mishaps'
  <2>1. billed[c] <= attempts[c] + mishaps
    BY <1>3, <1>8 DEF Filed
  <2> QED BY <1>4, <2>1, Numbers
<1> QED BY <1>5, <1>6, <1>7, <1>8 DEF Filed

(* A company that only this batch has, or none, is filed right when the new *)
(* record and the new row agree.                                            *)
LEMMA FiledAlone ==
  ASSUME TypeOK, NEW c \in Companies, NEW b \in Batches, NEW new,
         batch' = [batch EXCEPT ![b] = new],
         \A d \in Batches : d # b => c \notin Having(d),
         c \in new.left \/ new.co = c => status'[c] \notin Finished /\ attempts'[c] < MaxAttempts,
         new.at \in Trying /\ new.co = c => new.attempts = attempts'[c],
         new.at = "create" /\ new.co = c => Len(opps'[c]) = 0,
         attempts'[c] <= MaxAttempts, Len(opps'[c]) <= 1,
         billed'[c] <= attempts'[c] + mishaps' + 1,
         ~PastSearch(new, c) => billed'[c] <= attempts'[c] + mishaps'
  PROVE  Filed(c)'
<1>1. \A d \in Batches : d # b => c \notin Having(d)' /\ batch'[d].co # c
  BY OneRecord, PipelineAssumption DEF Having
<1>2. c \in Having(b)' => c \in new.left \/ new.co = c
  BY OneRecord DEF Having
<1>3. \A d, e \in Batches : c \in Having(d)' /\ c \in Having(e)' => d = e
  BY <1>1
<1>4. \A d \in Batches :
        /\ c \in Having(d)' => status'[c] \notin Finished /\ attempts'[c] < MaxAttempts
        /\ batch'[d].at \in Trying /\ batch'[d].co = c => batch'[d].attempts = attempts'[c]
        /\ batch'[d].at = "create" /\ batch'[d].co = c => Len(opps'[c]) = 0
  BY <1>1, <1>2, OneRecord
<1>5. (\A d \in Batches : ~PastSearch(batch'[d], c)) => billed'[c] <= attempts'[c] + mishaps'
  BY OneRecord
<1> QED BY <1>3, <1>4, <1>5 DEF Filed

(* Nothing happened to the companies.                                       *)
LEMMA FiledSame ==
  ASSUME TypeOK, NEW c \in Companies, Filed(c), batch' = batch, RowKept(c),
         mishaps' \in Nat, mishaps' >= mishaps
  PROVE  Filed(c)'
<1>1. \A d \in Batches : Having(d)' = Having(d) /\ batch'[d] = batch[d]
  BY DEF Having
<1>2. /\ status'[c] = status[c] /\ attempts'[c] = attempts[c]
      /\ opps'[c] = opps[c] /\ billed'[c] = billed[c]
  BY DEF RowKept
<1>3. billed'[c] <= attempts'[c] + mishaps' + 1
  BY <1>2, Numbers DEF Filed
<1>4. ASSUME \A d \in Batches : ~PastSearch(batch'[d], c)
      PROVE  billed'[c] <= attempts'[c] + mishaps'
  <2>1. billed[c] <= attempts[c] + mishaps
    BY <1>1, <1>4 DEF Filed
  <2> QED BY <1>2, <2>1, Numbers
<1> QED BY <1>1, <1>2, <1>3, <1>4 DEF Filed

(* What is known of the company that a batch works on.                      *)
LEMMA AtHand ==
  ASSUME TypeOK, BatchManned, FilesInv, NEW b \in Batches, batch[b].at \in Trying,
         batch[b].co \notin disturbed
  PROVE  LET c == batch[b].co IN
         /\ c \in Companies /\ c # Nobody /\ Filed(c) /\ c \in Having(b)
         /\ \A d \in Batches : d # b => c \notin Having(d)
         /\ status[c] \notin Finished /\ attempts[c] < MaxAttempts
         /\ batch[b].attempts = attempts[c]
         /\ batch[b].at = "create" => Len(opps[c]) = 0
         /\ Len(opps[c]) <= 1 /\ billed[c] <= attempts[c] + mishaps + 1
         /\ batch[b].at = "search" => billed[c] <= attempts[c] + mishaps
<1> DEFINE c == batch[b].co
<1>1. c \in Companies /\ c # Nobody
  BY PipelineAssumption DEF BatchManned
<1>2. Filed(c) /\ c \in Having(b)
  BY <1>1 DEF FilesInv, Having
<1>3. \A d \in Batches : d # b => c \notin Having(d)
  BY <1>2 DEF Filed
<1>4. /\ status[c] \notin Finished /\ attempts[c] < MaxAttempts
      /\ batch[b].attempts = attempts[c]
      /\ batch[b].at = "create" => Len(opps[c]) = 0
      /\ Len(opps[c]) <= 1 /\ billed[c] <= attempts[c] + mishaps + 1
  BY <1>2 DEF Filed
<1>5. ASSUME batch[b].at = "search" PROVE billed[c] <= attempts[c] + mishaps
  <2>1. \A d \in Batches : ~PastSearch(batch[d], c)
    BY <1>1, <1>3, <1>5 DEF PastSearch, Having
  <2> QED BY <1>2, <2>1 DEF Filed
<1> QED BY <1>1, <1>2, <1>3, <1>4, <1>5

(* A step of a batch at a company: what is left to show is about that one.  *)
LEMMA FiledAtWork ==
  ASSUME TypeOK, BatchManned, FilesInv, NEW b \in Batches, batch[b].at \in Trying,
         NEW new, batch' = [batch EXCEPT ![b] = new],
         new.left = batch[b].left, new.co \in {batch[b].co, Nobody},
         disturbed' = disturbed, mishaps' = mishaps,
         \A c \in Companies : c # batch[b].co => RowKept(c),
         batch[b].co \notin disturbed =>
           LET c == batch[b].co IN
           /\ new.co = c => /\ status'[c] \notin Finished /\ attempts'[c] < MaxAttempts
                            /\ new.attempts = attempts'[c]
                            /\ new.at = "create" => Len(opps'[c]) = 0
           /\ attempts'[c] <= MaxAttempts /\ Len(opps'[c]) <= 1
           /\ billed'[c] <= attempts'[c] + mishaps + 1
           /\ ~PastSearch(new, c) => billed'[c] <= attempts'[c] + mishaps
  PROVE  \A c \in Companies \ disturbed' : Filed(c)'
<1> SUFFICES ASSUME NEW c \in Companies \ disturbed PROVE Filed(c)'
  OBVIOUS
<1>1. Filed(c) /\ mishaps \in Nat /\ mishaps' >= mishaps
  BY DEF FilesInv, TypeOK
<1>2. CASE c # batch[b].co
  <2>1. RowKept(c) /\ new.co # c
    BY <1>2, PipelineAssumption
  <2> QED BY <1>1, <1>2, <2>1, FiledElse
<1>3. CASE c = batch[b].co
  <2>1. c \notin new.left /\ \A d \in Batches : d # b => c \notin Having(d)
    BY <1>3, AtHand DEF FilesInv, Shaped
  <2> QED BY <1>3, <2>1, FiledAlone
<1> QED BY <1>2, <1>3

(* The record that a batch turns to, or goes on with.                       *)
LEMMA TurnShape ==
  ASSUME TypeOK, FilesInv, NEW b \in Batches
  PROVE  /\ TurnBatch(b).left = batch[b].left /\ TurnBatch(b).co = Nobody
         /\ TurnBatch(b).at \in {"idle", "next"}
         /\ TurnBatch(b).at = "idle" => TurnBatch(b).left = {}
         /\ Nobody \notin batch[b].left
<1>1. batch[b].left \subseteq Companies
  BY DEF TypeOK
<1> QED BY <1>1, PipelineAssumption DEF TurnBatch, NoBatch, Listed

(* A batch that goes on keeps its company, and does not list it again.      *)
LEMMA GoShape ==
  ASSUME FilesInv, NEW b \in Batches, NEW place, NEW a
  PROVE  /\ At(b, place, a).left = batch[b].left /\ At(b, place, a).co = batch[b].co
         /\ At(b, place, a).at = place /\ At(b, place, a).attempts = batch[b].attempts
         /\ batch[b].co \notin batch[b].left
BY DEF At, FilesInv, Shaped

(* The places of a batch, apart.                                            *)
LEMMA Places ==
  /\ \A p \in Trying : p # "idle" /\ p # "next"
  /\ Trying = {"search", "person", "generic", "contact", "lead", "create", "write"}
BY DEF Trying, Billing

(* A call of Hunter that has an answer: the batch goes on with the company, *)
(* and a search is added to its account.                                    *)
LEMMA FilesCall ==
  ASSUME TypeOK, BatchManned, FilesInv, NEW b \in Batches,
         DomainSearch(b) \/ VerifyPerson(b) \/ VerifyGeneric(b)
  PROVE  FilesInv'
<1>1. PICK place \in {"person", "generic", "contact"} :
        batch' = [batch EXCEPT ![b] = At(b, place, batch[b].contact)]
  BY DEF DomainSearch, VerifyPerson, VerifyGeneric, Goes
<1> DEFINE new == At(b, place, batch[b].contact)
           c0 == batch[b].co
<1>2. /\ new.left = batch[b].left /\ new.co = c0 /\ new.at = place
      /\ new.attempts = batch[b].attempts /\ c0 \notin batch[b].left
  BY GoShape
<1>3. /\ status' = status /\ attempts' = attempts /\ contact' = contact /\ opps' = opps
      /\ disturbed' = disturbed /\ mishaps' = mishaps /\ batch[b].at \in Billing
      /\ \/ batch[b].at = "search" /\ billed' = [billed EXCEPT ![c0] = @ + 1]
         \/ batch[b].at # "search" /\ billed' = billed
  BY DEF DomainSearch, VerifyPerson, VerifyGeneric, counts, Billing
<1>4. c0 \in Companies /\ batch[b].at \in Trying /\ place \in Trying
  BY <1>3, Places DEF BatchManned, Trying
<1> HIDE DEF new
<1>5. Shaped'
  BY <1>1, <1>2, <1>4, ShapedStep, Places DEF FilesInv, new
<1>6. Written'
  BY <1>1, <1>2, <1>3, WrittenStep DEF FilesInv, new
<1>7. Fresh'
  BY <1>3 DEF FilesInv, Fresh
<1>8. \A c \in Companies : c # c0 => RowKept(c)
  BY <1>3, <1>4 DEF RowKept, TypeOK
<1>9. ASSUME c0 \notin disturbed
      PROVE  /\ status'[c0] \notin Finished /\ attempts'[c0] < MaxAttempts
             /\ new.attempts = attempts'[c0]
             /\ new.at # "create" /\ attempts'[c0] <= MaxAttempts /\ Len(opps'[c0]) <= 1
             /\ billed'[c0] <= attempts'[c0] + mishaps + 1
             /\ PastSearch(new, c0)
  <2>1. /\ status[c0] \notin Finished /\ attempts[c0] < MaxAttempts
        /\ batch[b].attempts = attempts[c0] /\ Len(opps[c0]) <= 1
        /\ billed[c0] <= attempts[c0] + mishaps + 1
        /\ batch[b].at = "search" => billed[c0] <= attempts[c0] + mishaps
    BY <1>4, <1>9, AtHand
  <2>2. billed'[c0] <= attempts'[c0] + mishaps + 1
    <3>1. CASE batch[b].at = "search" /\ billed' = [billed EXCEPT ![c0] = @ + 1]
      <4>1. billed'[c0] = billed[c0] + 1
        BY <1>4, <3>1 DEF TypeOK
      <4> QED BY <1>3, <1>4, <2>1, <3>1, <4>1, Numbers
    <3>2. CASE billed' = billed
      BY <1>3, <2>1, <3>2
    <3> QED BY <1>3, <3>1, <3>2
  <2>3. PastSearch(new, c0)
    BY <1>2, Places DEF PastSearch
  <2> QED BY <1>2, <1>3, <1>4, <2>1, <2>2, <2>3, Numbers
<1>10. \A c \in Companies \ disturbed' : Filed(c)'
  BY <1>1, <1>2, <1>3, <1>4, <1>8, <1>9, FiledAtWork DEF new
<1> QED BY <1>5, <1>6, <1>7, <1>10 DEF FilesInv

(* An opportunity that is looked for takes the contact, one that is created *)
(* is one more.                                                             *)
LEMMA LeadWritten ==
  ASSUME TypeOK, NEW c \in Companies, NEW a
  PROVE  /\ opps' = opps => Len(opps'[c]) = Len(opps[c])
         /\ opps[c] = <<>> <=> Len(opps[c]) = 0
         /\ opps[c] # <<>> /\ opps' = [opps EXCEPT ![c] = <<a>> \o Tail(@)] =>
              /\ Len(opps'[c]) = Len(opps[c]) /\ Len(opps'[c]) > 0
              /\ \A d \in Companies : d # c => opps'[d] = opps[d]
         /\ opps' = [opps EXCEPT ![c] = Append(@, a)] =>
              /\ Len(opps'[c]) = Len(opps[c]) + 1 /\ Len(opps'[c]) > 0
              /\ \A d \in Companies : d # c => opps'[d] = opps[d]
<1>1. opps \in [Companies -> Seq(Address)] /\ opps[c] \in Seq(Address)
  BY DEF TypeOK
<1>2. ASSUME opps[c] # <<>>, opps' = [opps EXCEPT ![c] = <<a>> \o Tail(@)]
      PROVE  /\ Len(opps'[c]) = Len(opps[c]) /\ Len(opps'[c]) > 0
             /\ \A d \in Companies : d # c => opps'[d] = opps[d]
  <2>1. opps'[c] = <<a>> \o Tail(opps[c])
    BY <1>1, <1>2
  <2>2. Tail(opps[c]) \in Seq(Address) /\ Len(Tail(opps[c])) = Len(opps[c]) - 1
    BY <1>1, <1>2
  <2>3. Len(<<a>> \o Tail(opps[c])) = 1 + Len(Tail(opps[c]))
    BY <2>2
  <2> QED BY <1>1, <1>2, <2>1, <2>2, <2>3
<1>3. ASSUME opps' = [opps EXCEPT ![c] = Append(@, a)]
      PROVE  /\ Len(opps'[c]) = Len(opps[c]) + 1 /\ Len(opps'[c]) > 0
             /\ \A d \in Companies : d # c => opps'[d] = opps[d]
  BY <1>1, <1>3
<1> QED BY <1>1, <1>2, <1>3

(* The contact and the opportunity are written, and the batch goes on.      *)
LEMMA FilesLead ==
  ASSUME TypeOK, BatchManned, FilesInv, NEW b \in Batches,
         UpsertContact(b) \/ LookForLead(b) \/ CreateLead(b)
  PROVE  FilesInv'
<1> DEFINE c0 == batch[b].co
<1>0. c0 \in Companies /\ batch[b].contact \in Address \cup {Nobody}
  BY HasContact, Places DEF UpsertContact, LookForLead, CreateLead, BatchManned
<1>1. PICK place \in Filing, a \in Address \cup {Nobody} :
        /\ batch' = [batch EXCEPT ![b] = At(b, place, a)]
        /\ \/ place = "lead" /\ opps' = opps
           \/ batch[b].at = "lead" /\ place = "create" /\ opps[c0] = <<>> /\ opps' = opps
           \/ /\ batch[b].at = "lead" /\ place = "write" /\ opps[c0] # <<>>
              /\ opps' = [opps EXCEPT ![c0] = <<batch[b].contact>> \o Tail(@)]
           \/ /\ batch[b].at = "create" /\ place = "write"
              /\ opps' = [opps EXCEPT ![c0] = Append(@, batch[b].contact)]
  BY <1>0, PipelineAssumption DEF UpsertContact, LookForLead, CreateLead, Goes, Filing
<1> DEFINE new == At(b, place, a)
<1>2. /\ new.left = batch[b].left /\ new.co = c0 /\ new.at = place
      /\ new.attempts = batch[b].attempts /\ c0 \notin batch[b].left
  BY GoShape
<1>3. /\ status' = status /\ attempts' = attempts
      /\ billed' = billed /\ disturbed' = disturbed /\ mishaps' = mishaps
      /\ batch[b].at \in {"contact", "lead", "create"}
  BY DEF UpsertContact, LookForLead, CreateLead, counts
<1>4. c0 \in Companies /\ batch[b].at \in Trying /\ place \in Trying
  BY <1>0, <1>3, Places DEF Filing
<1>5. /\ Len(opps'[c0]) \in {Len(opps[c0]), Len(opps[c0]) + 1}
      /\ batch[b].at # "create" => Len(opps'[c0]) = Len(opps[c0])
      /\ \A c \in Companies : c # c0 => opps'[c] = opps[c]
      /\ place = "write" => Len(opps'[c0]) > 0
      /\ place = "create" => Len(opps'[c0]) = 0
  <2>1. /\ opps' = opps => Len(opps'[c0]) = Len(opps[c0])
        /\ opps[c0] = <<>> <=> Len(opps[c0]) = 0
        /\ opps[c0] # <<>> /\ opps' = [opps EXCEPT ![c0] = <<batch[b].contact>> \o Tail(@)] =>
             /\ Len(opps'[c0]) = Len(opps[c0]) /\ Len(opps'[c0]) > 0
             /\ \A d \in Companies : d # c0 => opps'[d] = opps[d]
        /\ opps' = [opps EXCEPT ![c0] = Append(@, batch[b].contact)] =>
             /\ Len(opps'[c0]) = Len(opps[c0]) + 1 /\ Len(opps'[c0]) > 0
             /\ \A d \in Companies : d # c0 => opps'[d] = opps[d]
    BY <1>0, LeadWritten
  <2> QED BY <1>1, <2>1
<1> HIDE DEF new
<1>7. Shaped'
  BY <1>1, <1>2, <1>4, ShapedStep, Places DEF FilesInv, new
<1>8. Written'
  <2>1. \A c \in Companies : Len(opps[c]) > 0 => Len(opps'[c]) > 0
    BY <1>4, <1>5, Numbers
  <2>2. \A c \in Companies : status'[c] = "ENRICHED" => status[c] = "ENRICHED"
    BY <1>3
  <2> QED BY <1>1, <1>2, <1>3, <1>5, <2>1, <2>2, WrittenStep DEF FilesInv, new
<1>9. Fresh'
  BY <1>3 DEF FilesInv, Fresh
<1>10. \A c \in Companies : c # c0 => RowKept(c)
  BY <1>3, <1>5 DEF RowKept
<1>11. ASSUME c0 \notin disturbed
       PROVE  /\ status'[c0] \notin Finished /\ attempts'[c0] < MaxAttempts
              /\ new.attempts = attempts'[c0]
              /\ new.at = "create" => Len(opps'[c0]) = 0
              /\ attempts'[c0] <= MaxAttempts /\ Len(opps'[c0]) <= 1
              /\ billed'[c0] <= attempts'[c0] + mishaps + 1
              /\ PastSearch(new, c0)
  <2>1. /\ status[c0] \notin Finished /\ attempts[c0] < MaxAttempts
        /\ batch[b].attempts = attempts[c0] /\ Len(opps[c0]) <= 1
        /\ billed[c0] <= attempts[c0] + mishaps + 1
        /\ batch[b].at = "create" => Len(opps[c0]) = 0
    BY <1>4, <1>11, AtHand
  <2>2. Len(opps'[c0]) <= 1 /\ (place = "create" => Len(opps'[c0]) = 0)
    <3>1. Len(opps[c0]) \in Nat
      BY <1>4, Numbers
    <3>2. CASE batch[b].at = "create"
      BY <1>5, <2>1, <3>1, <3>2
    <3>3. CASE batch[b].at # "create"
      BY <1>5, <2>1, <3>1, <3>3
    <3> QED BY <3>2, <3>3
  <2>3. PastSearch(new, c0)
    BY <1>2, <1>4, Places DEF PastSearch, Filing
  <2> QED BY <1>2, <1>3, <1>4, <2>1, <2>2, <2>3, Numbers
<1>12. \A c \in Companies \ disturbed' : Filed(c)'
  BY <1>1, <1>2, <1>3, <1>4, <1>10, <1>11, FiledAtWork DEF new
<1> QED BY <1>7, <1>8, <1>9, <1>12 DEF FilesInv

(* The outcome is written, and the batch turns to the next company: whoever *)
(* searched has one attempt more on the row.                                *)
LEMMA FilesOutcome ==
  ASSUME TypeOK, BatchManned, FilesInv, NEW b \in Batches,
         NoContact(b) \/ Enriched(b) \/ EnrichFails(b)
  PROVE  FilesInv'
<1> DEFINE c0 == batch[b].co
           new == TurnBatch(b)
<1>1. /\ batch' = [batch EXCEPT ![b] = new] /\ batch[b].at \in Trying
      /\ contact' = contact /\ opps' = opps /\ disturbed' = disturbed /\ mishaps' = mishaps
  BY Places DEF NoContact, Enriched, EnrichFails, Turns, counts
<1>2. c0 \in Companies /\ batch[b].attempts \in Nat
  BY <1>1 DEF BatchManned, TypeOK
<1>3. PICK s \in {"NO_CONTACT", "ENRICHED", "FAILED"} :
        /\ status' = [status EXCEPT ![c0] = s]
        /\ s = "ENRICHED" => batch[b].at = "write"
  BY DEF NoContact, Enriched, EnrichFails
<1>4. PICK n \in {attempts[c0] + 1, batch[b].attempts + 1, MaxAttempts} :
        attempts' = [attempts EXCEPT ![c0] = n]
  BY DEF NoContact, Enriched, EnrichFails
<1>5. \/ batch[b].at = "search" /\ billed' = [billed EXCEPT ![c0] = @ + 1]
      \/ batch[b].at # "search" /\ billed' = billed
  BY DEF NoContact, Enriched, EnrichFails
<1>6. /\ new.left = batch[b].left /\ new.co = Nobody /\ new.at \in {"idle", "next"}
      /\ new.at = "idle" => new.left = {}
      /\ Nobody \notin batch[b].left
  BY TurnShape
<1>7. /\ status'[c0] = s /\ attempts'[c0] = n
      /\ \A c \in Companies : c # c0 => status'[c] = status[c] /\ attempts'[c] = attempts[c]
  BY <1>2, <1>3, <1>4 DEF TypeOK
<1> HIDE DEF new
<1>8. Shaped'
  BY <1>1, <1>6, ShapedStep, Places DEF FilesInv
<1>9. Written'
  <2>1. \A c \in Companies : status'[c] = "ENRICHED" =>
          status[c] = "ENRICHED" \/ Len(opps'[c]) > 0
    BY <1>1, <1>3, <1>7 DEF FilesInv, Written
  <2> QED BY <1>1, <1>6, <2>1, WrittenStep DEF FilesInv
<1>10. Fresh'
  BY <1>7 DEF FilesInv, Fresh
<1>11. \A c \in Companies : c # c0 => RowKept(c)
  BY <1>1, <1>2, <1>5, <1>7 DEF RowKept, TypeOK
<1>12. ASSUME c0 \notin disturbed
       PROVE  /\ attempts'[c0] <= MaxAttempts /\ Len(opps'[c0]) <= 1
              /\ billed'[c0] <= attempts'[c0] + mishaps
              /\ billed'[c0] <= attempts'[c0] + mishaps + 1
  <2>1. /\ attempts[c0] < MaxAttempts /\ batch[b].attempts = attempts[c0] /\ Len(opps[c0]) <= 1
        /\ billed[c0] <= attempts[c0] + mishaps + 1
        /\ batch[b].at = "search" => billed[c0] <= attempts[c0] + mishaps
    BY <1>1, <1>12, AtHand
  <2>2. billed'[c0] <= attempts[c0] + 1 + mishaps /\ billed'[c0] \in Nat
    <3>1. CASE batch[b].at = "search" /\ billed' = [billed EXCEPT ![c0] = @ + 1]
      <4>1. billed'[c0] = billed[c0] + 1
        BY <1>2, <3>1 DEF TypeOK
      <4> QED BY <1>2, <2>1, <3>1, <4>1, Numbers
    <3>2. CASE billed' = billed
      BY <1>2, <2>1, <3>2, Numbers
    <3> QED BY <1>5, <3>1, <3>2
  <2>3. attempts[c0] + 1 <= n /\ n <= MaxAttempts /\ n \in Nat
    BY <1>2, <1>4, <2>1, Numbers
  <2> QED BY <1>1, <1>2, <1>7, <2>1, <2>2, <2>3, Numbers
<1>13. \A c \in Companies \ disturbed' : Filed(c)'
  <2>1. new.co # c0
    BY <1>2, <1>6, PipelineAssumption
  <2> QED BY <1>1, <1>6, <1>11, <1>12, <2>1, FiledAtWork
<1> QED BY <1>8, <1>9, <1>10, <1>13 DEF FilesInv

(* A list is made of companies that are eligible: those that another batch  *)
(* has are disturbed by it, and so is the one that the user chooses.        *)
LEMMA FilesList ==
  ASSUME TypeOK, BatchManned, FilesInv, NEW b \in Batches,
         ListBatch(b) \/ \E c \in Companies : ChooseBatch(b, c)
  PROVE  FilesInv'
<1>1. PICK S \in SUBSET Companies :
        /\ batch' = [batch EXCEPT ![b] = Listed(S)]
        /\ \A c \in S : c \notin disturbed' => Eligible(c) /\ c \notin InHand
        /\ disturbed \subseteq disturbed'
  BY DEF ListBatch, ChooseBatch
<1> DEFINE new == Listed(S)
<1>2. /\ new.left = S /\ new.co = Nobody /\ new.at = "next" /\ Nobody \notin S
  BY PipelineAssumption DEF Listed
<1>3. /\ status' = status /\ attempts' = attempts /\ contact' = contact /\ opps' = opps
      /\ billed' = billed /\ mishaps' = mishaps /\ batch[b].at = "idle"
  BY DEF ListBatch, ChooseBatch, Click, counts
<1>4. batch[b].left = {} /\ batch[b].co = Nobody
  BY <1>3, Places DEF FilesInv, Shaped
<1> HIDE DEF new
<1>5. Shaped'
  BY <1>1, <1>2, ShapedStep, Places DEF FilesInv, new
<1>6. Written'
  BY <1>1, <1>2, <1>3, WrittenStep DEF FilesInv, new
<1>7. Fresh'
  BY <1>3 DEF FilesInv, Fresh
<1>8. ASSUME NEW c \in Companies \ disturbed' PROVE Filed(c)'
  <2>1. Filed(c) /\ c # Nobody
    BY <1>1, PipelineAssumption DEF FilesInv
  <2>2. CASE c \notin S
    <3>1. RowKept(c) /\ mishaps' \in Nat /\ mishaps' >= mishaps
      BY <1>3, Numbers DEF RowKept
    <3> QED BY <1>1, <1>2, <1>4, <2>1, <2>2, <3>1, FiledElse DEF new
  <2>3. CASE c \in S
    <3>1. Eligible(c) /\ c \notin InHand
      BY <1>1, <2>3
    <3>2. \A d \in Batches : c \notin Having(d)
      BY <3>1 DEF InHand
    <3>3. status[c] \notin Finished /\ attempts[c] < MaxAttempts
      BY <3>1, Numbers DEF FilesInv, Fresh, Eligible, Finished
    <3>4. \A d \in Batches : ~PastSearch(batch[d], c)
      BY <2>1, <3>2 DEF PastSearch, Having
    <3>5. billed[c] <= attempts[c] + mishaps /\ Len(opps[c]) <= 1
      BY <2>1, <3>4 DEF Filed
    <3>6. /\ status'[c] \notin Finished /\ attempts'[c] < MaxAttempts
          /\ attempts'[c] <= MaxAttempts /\ Len(opps'[c]) <= 1
          /\ billed'[c] <= attempts'[c] + mishaps' /\ billed'[c] <= attempts'[c] + mishaps' + 1
      BY <1>3, <3>3, <3>5, Numbers
    <3>7. new.at \notin Trying /\ new.at # "create" /\ new.co # c
      BY <1>2, <2>1, Places
    <3> QED BY <1>1, <3>2, <3>6, <3>7, FiledAlone DEF new
  <2> QED BY <2>2, <2>3
<1> QED BY <1>5, <1>6, <1>7, <1>8 DEF FilesInv

(* A company is read: its attempts are those on the row.                    *)
LEMMA FilesBegin ==
  ASSUME TypeOK, BatchManned, FilesInv, NEW b \in Batches, NEW c1 \in Companies, Begin(b, c1)
  PROVE  FilesInv'
<1> DEFINE rest == batch[b].left \ {c1}
           first == [at |-> "search", co |-> c1, left |-> rest,
                     attempts |-> attempts[c1], mail |-> c1 \in mail, contact |-> Nobody]
           other == Listed(rest)
<1>1. PICK new \in {first, other, NoBatch} : batch' = [batch EXCEPT ![b] = new]
  BY DEF Begin
<1>2. /\ status' = status /\ attempts' = attempts /\ contact' = contact /\ opps' = opps
      /\ billed' = billed /\ disturbed' = disturbed /\ mishaps' = mishaps
      /\ batch[b].at = "next" /\ c1 \in batch[b].left
  BY DEF Begin, counts
<1>3. /\ new.at \in {"search", "next", "idle"} /\ new.left \subseteq rest
      /\ new.at = "idle" => new.left = {}
      /\ new.at \in {"next", "idle"} => new.co = Nobody
      /\ new.at = "search" => new.co = c1 /\ new.attempts = attempts[c1]
      /\ Nobody \notin rest
  <2>1. batch[b].left \subseteq Companies
    BY DEF TypeOK
  <2> QED BY <2>1, PipelineAssumption DEF NoBatch, Listed
<1>4. batch[b].co = Nobody
  BY <1>2, Places DEF FilesInv, Shaped
<1> HIDE DEF first, other
<1>5. Shaped'
  BY <1>1, <1>3, ShapedStep, Places DEF FilesInv
<1>6. Written'
  BY <1>1, <1>2, <1>3, WrittenStep DEF FilesInv
<1>7. Fresh'
  BY <1>2 DEF FilesInv, Fresh
<1>8. ASSUME NEW c \in Companies \ disturbed' PROVE Filed(c)'
  <2>1. Filed(c) /\ c # Nobody /\ mishaps' \in Nat /\ mishaps' >= mishaps
    BY <1>2, PipelineAssumption, Numbers DEF FilesInv
  <2>2. CASE c # c1
    <3>1. RowKept(c)
      BY <1>2 DEF RowKept
    <3>2. new.co # c /\ (c \in new.left => c \in batch[b].left)
      BY <1>3, <2>1, <2>2
    <3> QED BY <1>1, <1>4, <2>1, <3>1, <3>2, FiledElse
  <2>3. CASE c = c1
    <3>1. c \in Having(b) /\ c \notin new.left
      BY <1>2, <1>3, <2>3 DEF Having
    <3>2. \A d \in Batches : d # b => c \notin Having(d)
      BY <2>1, <3>1 DEF Filed
    <3>3. status[c] \notin Finished /\ attempts[c] < MaxAttempts
      BY <2>1, <3>1 DEF Filed
    <3>4. \A d \in Batches : ~PastSearch(batch[d], c)
      BY <1>4, <2>1, <3>2 DEF PastSearch, Having
    <3>5. billed[c] <= attempts[c] + mishaps /\ Len(opps[c]) <= 1
      BY <2>1, <3>4 DEF Filed
    <3>6. new.at \in Trying => new.attempts = attempts[c]
      BY <1>3, <2>3, Places
    <3>7. /\ status'[c] \notin Finished /\ attempts'[c] < MaxAttempts
          /\ attempts'[c] <= MaxAttempts /\ Len(opps'[c]) <= 1
          /\ billed'[c] <= attempts'[c] + mishaps' /\ billed'[c] <= attempts'[c] + mishaps' + 1
          /\ attempts'[c] = attempts[c] /\ new.at # "create"
      BY <1>2, <1>3, <3>3, <3>5, Numbers
    <3> QED BY <1>1, <3>2, <3>6, <3>7, FiledAlone
  <2> QED BY <2>2, <2>3
<1> QED BY <1>5, <1>6, <1>7, <1>8 DEF FilesInv

(* A batch that dies leaves its companies to the next, and its search       *)
(* without an attempt.                                                      *)
LEMMA FilesDeath ==
  ASSUME TypeOK, BatchManned, FilesInv, NEW b \in Batches, BatchDies(b)
  PROVE  FilesInv'
<1>1. /\ batch' = [batch EXCEPT ![b] = NoBatch] /\ mishaps' = mishaps + 1
      /\ status' = status /\ attempts' = attempts /\ contact' = contact /\ opps' = opps
      /\ billed' = billed /\ disturbed' = disturbed
  BY DEF BatchDies, Mishap
<1>2. NoBatch.at = "idle" /\ NoBatch.left = {} /\ NoBatch.co = Nobody
  BY DEF NoBatch
<1>3. Shaped'
  BY <1>1, <1>2, ShapedStep, Places DEF FilesInv
<1>4. Written'
  BY <1>1, <1>2, WrittenStep DEF FilesInv
<1>5. Fresh'
  BY <1>1 DEF FilesInv, Fresh
<1>6. ASSUME NEW c \in Companies \ disturbed' PROVE Filed(c)'
  <2>1. Filed(c) /\ c # Nobody
    BY <1>1, PipelineAssumption DEF FilesInv
  <2>2. CASE batch[b].co # c
    <3>1. RowKept(c) /\ mishaps' \in Nat /\ mishaps' >= mishaps
      BY <1>1, Numbers DEF RowKept
    <3> QED BY <1>1, <1>2, <2>1, <2>2, <3>1, FiledElse
  <2>3. CASE batch[b].co = c
    <3>1. \A d \in Batches : d # b => c \notin Having(d)
      BY <2>1, <2>3 DEF Filed, Having
    <3>2. /\ attempts'[c] <= MaxAttempts /\ Len(opps'[c]) <= 1
          /\ billed'[c] <= attempts'[c] + mishaps' /\ billed'[c] <= attempts'[c] + mishaps' + 1
      BY <1>1, <2>1, Numbers DEF Filed
    <3>3. NoBatch.at \notin Trying /\ NoBatch.at # "create" /\ NoBatch.co # c
          /\ c \notin NoBatch.left
      BY <1>2, <2>1, Places
    <3> HIDE DEF NoBatch
    <3> QED BY <1>1, <3>1, <3>2, <3>3, FiledAlone
  <2> QED BY <2>2, <2>3
<1> QED BY <1>3, <1>4, <1>5, <1>6 DEF FilesInv

(* What the user does to a company that no batch has is a new start, or a   *)
(* finish; otherwise it disturbs.                                           *)
LEMMA FilesUser ==
  ASSUME TypeOK, BatchManned, FilesInv, NEW c1 \in Companies, Skip(c1) \/ Unskip(c1)
  PROVE  FilesInv'
<1>1. /\ batch' = batch /\ mishaps' = mishaps /\ contact' = contact /\ opps' = opps
      /\ disturbed' = disturbed \cup ({c1} \cap InHand)
  BY DEF Skip, Unskip, Click
<1>2. \/ /\ status' = [status EXCEPT ![c1] = "SKIPPED"]
         /\ attempts' = attempts /\ billed' = billed
      \/ /\ status' = [status EXCEPT ![c1] = "PENDING"]
         /\ attempts' = [attempts EXCEPT ![c1] = 0] /\ billed' = [billed EXCEPT ![c1] = 0]
  BY DEF Skip, Unskip
<1>3. \/ /\ status'[c1] = "SKIPPED"
         /\ attempts'[c1] = attempts[c1] /\ billed'[c1] = billed[c1]
      \/ status'[c1] = "PENDING" /\ attempts'[c1] = 0 /\ billed'[c1] = 0
  BY <1>2 DEF TypeOK
<1>4. \A c \in Companies : c # c1 => RowKept(c)
  BY <1>1, <1>2 DEF RowKept, TypeOK
<1>5. Shaped'
  BY <1>1 DEF FilesInv, Shaped
<1>6. Written'
  <2>1. \A c \in Companies : status'[c] = "ENRICHED" => status[c] = "ENRICHED"
    BY <1>3, <1>4 DEF RowKept
  <2> QED BY <1>1, <2>1 DEF FilesInv, Written
<1>7. Fresh'
  BY <1>3, <1>4 DEF FilesInv, Fresh, RowKept
<1>8. ASSUME NEW c \in Companies \ disturbed' PROVE Filed(c)'
  <2>1. Filed(c) /\ mishaps' \in Nat /\ mishaps' >= mishaps
    BY <1>1, Numbers DEF FilesInv
  <2>2. CASE c # c1
    BY <1>1, <1>4, <2>1, <2>2, FiledSame
  <2>3. CASE c = c1
    <3>1. \A d \in Batches : c \notin Having(d)
      BY <1>1, <2>3 DEF InHand
    <3>2. \A d \in Batches : c \notin Having(d)' /\ batch'[d].co # c /\ ~PastSearch(batch[d], c)
      BY <1>1, <3>1, PipelineAssumption DEF Having, PastSearch
    <3>3. /\ attempts'[c] <= MaxAttempts /\ Len(opps'[c]) <= 1
          /\ billed'[c] <= attempts'[c] + mishaps' /\ billed'[c] <= attempts'[c] + mishaps' + 1
      BY <1>1, <1>3, <2>1, <2>3, <3>2, Numbers DEF Filed
    <3> QED BY <3>2, <3>3 DEF Filed
  <2> QED BY <2>2, <2>3
<1> QED BY <1>5, <1>6, <1>7, <1>8 DEF FilesInv

(* A step of the search or of the crawler, or none.                         *)
LEMMA FilesElsewhere ==
  ASSUME TypeOK, FilesInv, UNCHANGED leads, Click \/ Mishap \/ UNCHANGED counts
  PROVE  FilesInv'
<1>1. /\ status' = status /\ attempts' = attempts /\ contact' = contact /\ opps' = opps
      /\ batch' = batch /\ billed' = billed /\ disturbed' = disturbed
  BY DEF leads
<1>2. mishaps \in Nat /\ mishaps' \in {mishaps, mishaps + 1}
  BY DEF TypeOK, Click, Mishap, counts
<1>3. \A c \in Companies \ disturbed' : Filed(c)'
  <2> SUFFICES ASSUME NEW c \in Companies \ disturbed' PROVE Filed(c)'
    OBVIOUS
  <2>1. RowKept(c) /\ Filed(c) /\ mishaps' \in Nat /\ mishaps' >= mishaps
    BY <1>1, <1>2 DEF RowKept, FilesInv
  <2> QED BY <1>1, <2>1, FiledSame
<1>4. Shaped' /\ Fresh' /\ Written'
  BY <1>1 DEF FilesInv, Shaped, Fresh, Written
<1> QED BY <1>3, <1>4 DEF FilesInv

(* At first no company is in hand, and those that were enriched before had  *)
(* one search and one attempt for it.                                       *)
LEMMA InitFilesInv == Init => FilesInv
<1> SUFFICES ASSUME Init PROVE FilesInv
  OBVIOUS
<1>1. /\ \A b \in Batches : batch[b].at = "idle" /\ batch[b].left = {} /\ batch[b].co = Nobody
      /\ \A c \in Companies :
           /\ c # Nobody /\ billed[c] = attempts[c]
           /\ \/ status[c] = "PENDING" /\ attempts[c] = 0 /\ Len(opps[c]) = 0
              \/ status[c] = "ENRICHED" /\ attempts[c] = 1 /\ Len(opps[c]) = 1
      /\ mishaps = 0
  BY PipelineAssumption DEF Init, NoBatch
<1>2. Shaped /\ Fresh /\ Written
  BY <1>1, Places DEF Shaped, Fresh, Written
<1>3. \A c \in Companies : Filed(c)
  <2> SUFFICES ASSUME NEW c \in Companies PROVE Filed(c)
    OBVIOUS
  <2>1. \A b \in Batches : c \notin Having(b)
    BY <1>1 DEF Having
  <2>2. /\ attempts[c] <= MaxAttempts /\ Len(opps[c]) <= 1
        /\ billed[c] <= attempts[c] + mishaps + 1 /\ billed[c] <= attempts[c] + mishaps
    <3>1. /\ attempts[c] \in Nat /\ attempts[c] <= 1 /\ Len(opps[c]) <= 1
          /\ billed[c] = attempts[c]
      <4>1. CASE attempts[c] = 0 /\ Len(opps[c]) = 0
        BY <1>1, <4>1
      <4>2. CASE attempts[c] = 1 /\ Len(opps[c]) = 1
        BY <1>1, <4>2
      <4> QED BY <1>1, <4>1, <4>2
    <3>2. mishaps = 0 /\ MaxAttempts \in Nat /\ MaxAttempts >= 1
      BY <1>1, PipelineAssumption
    <3> QED BY <3>1, <3>2
  <2> QED BY <1>1, <2>1, <2>2 DEF Filed
<1> QED BY <1>2, <1>3 DEF FilesInv

\* Every step keeps the files: each action falls under one of the lemmas above.
LEMMA StepFilesInv == IInv /\ FilesInv /\ [Next]_vars => FilesInv'
<1> SUFFICES ASSUME IInv, FilesInv, [Next]_vars PROVE FilesInv'
  OBVIOUS
<1>0. TypeOK /\ BatchManned /\ CrawlerManned /\ PagesSafe
  BY DEF IInv, Manned, BatchManned, CrawlerManned
<1>1. CASE UNCHANGED vars
  BY <1>0, <1>1, FilesElsewhere DEF vars
<1>2. CASE Searching
  BY <1>0, <1>2, SearchingStep, FilesElsewhere DEF Searched
<1>3. CASE Crawling
  BY <1>0, <1>3, CrawlingStep, FilesElsewhere DEF Crawled
<1>4. CASE Enriching
  BY <1>0, <1>4, FilesCall, FilesLead, FilesOutcome, FilesList, FilesBegin, FilesDeath
     DEF Enriching
<1>5. CASE \E c \in Companies : Skip(c) \/ Unskip(c)
  BY <1>0, <1>5, FilesUser
<1> QED BY <1>1, <1>2, <1>3, <1>4, <1>5 DEF Next

(* The files of the companies are right in every state.                     *)
THEOREM FilesAlways == Spec => [](IInv /\ FilesInv)
BY InitIInv, StepIInv, InitFilesInv, StepFilesInv, PTL DEF Spec

(* A company that one batch at a time had, without the user, is searched    *)
(* for no more often than maxAttempts, and once more for each death: every  *)
(* search that ends is an attempt on its row before another begins.         *)
THEOREM BilledWithin == Spec => []BilledWithinAttempts
<1>1. ASSUME IInv, FilesInv, NEW c \in Companies \ disturbed
      PROVE  billed[c] <= MaxAttempts + mishaps
  <2>1. Filed(c) /\ attempts[c] \in Nat /\ billed[c] \in Nat /\ mishaps \in Nat
        /\ MaxAttempts \in Nat
    BY <1>1, Numbers DEF IInv, FilesInv
  <2>2. CASE \A b \in Batches : ~PastSearch(batch[b], c)
    BY <2>1, <2>2 DEF Filed
  <2>3. CASE \E b \in Batches : PastSearch(batch[b], c)
    <3>1. PICK b \in Batches : batch[b].co = c
      BY <2>3 DEF PastSearch
    <3>2. attempts[c] < MaxAttempts
      BY <1>1, <2>1, <3>1, PipelineAssumption DEF Filed, Having
    <3> QED BY <2>1, <3>2 DEF Filed
  <2> QED BY <2>2, <2>3
<1>2. IInv /\ FilesInv => BilledWithinAttempts
  BY <1>1 DEF BilledWithinAttempts
<1> QED BY <1>2, FilesAlways, PTL

-----------------------------------------------------------------------------
(* the contact is the company's, or has gone to another                     *)
Mine(a, c)     == contact[a] = c \/ a \in moved
MineNext(a, c) == contact'[a] = c \/ a \in moved'

(* a company's opportunities, and the batches that have its contact at hand *)
Owned ==
  /\ \A b \in Batches : batch[b].at \in Filing => Mine(batch[b].contact, batch[b].co)
  /\ \A c \in Companies : \A i \in 1 .. Len(opps[c]) : Mine(opps[c][i], c)

(* the batches that have found a company to be without an opportunity       *)
Creating(c) == {b \in Batches : batch[b].at = "create" /\ batch[b].co = c}

Counted == \A c \in Companies : Len(opps[c]) + Cardinality(Creating(c)) <= Cardinality(Batches)

(* The counts of a company's opportunities and of who is about to make one. *)
LEMMA Counts ==
  ASSUME TypeOK, NEW c \in Companies
  PROVE  /\ Cardinality(Batches) \in Nat /\ Len(opps[c]) \in Nat
         /\ Creating(c) \subseteq Batches
         /\ Cardinality(Creating(c)) \in Nat /\ Cardinality(Creating(c)) <= Cardinality(Batches)
         /\ Cardinality(Creating(c)') \in Nat /\ Cardinality(Creating(c)') <= Cardinality(Batches)
<1>1. Creating(c) \subseteq Batches /\ Creating(c)' \subseteq Batches
  BY DEF Creating
<1> QED BY <1>1, Sizes, Numbers

(* Nobody comes to create an opportunity.                                   *)
LEMMA CountedKept ==
  ASSUME TypeOK, Counted, \A c \in Companies : Len(opps'[c]) = Len(opps[c]),
         \A c \in Companies : Creating(c)' \subseteq Creating(c)
  PROVE  Counted'
<1> SUFFICES ASSUME NEW c \in Companies
             PROVE  Len(opps'[c]) + Cardinality(Creating(c)') <= Cardinality(Batches)
  BY DEF Counted
<1>1. Cardinality(Creating(c)') <= Cardinality(Creating(c))
  BY Counts, Smaller
<1> QED BY <1>1, Counts DEF Counted

(* What it is for the contacts to be owned after a step.                    *)
LEMMA OwnedNext ==
  ASSUME \A d \in Batches : batch'[d].at \in Filing => MineNext(batch'[d].contact, batch'[d].co),
         \A c \in Companies : \A i \in 1 .. Len(opps'[c]) : MineNext(opps'[c][i], c)
  PROVE  Owned'
BY DEF Owned, Mine, MineNext

(* A step that writes neither contacts nor opportunities, and no batch gets *)
(* a contact by it.                                                         *)
LEMMA LeadsLeft ==
  ASSUME TypeOK, BatchManned, Owned, Counted, UNCHANGED <<contact, moved, opps>>,
         \A d \in Batches : batch'[d] = batch[d] \/ batch'[d].at \notin Filing
  PROVE  Owned' /\ Counted'
<1>1. \A a, c : MineNext(a, c) <=> Mine(a, c)
  BY DEF Mine, MineNext
<1>2. Owned'
  <2>1. \A d \in Batches : batch'[d].at \in Filing => MineNext(batch'[d].contact, batch'[d].co)
    BY <1>1 DEF Owned
  <2>2. \A c \in Companies : \A i \in 1 .. Len(opps'[c]) : MineNext(opps'[c][i], c)
    BY <1>1 DEF Owned
  <2> QED BY <2>1, <2>2, OwnedNext
<1>3. \A c \in Companies : Creating(c)' \subseteq Creating(c)
  BY DEF Creating, Filing
<1> QED BY <1>2, <1>3, CountedKept

(* A contact that changes hands is marked as moved.                         *)
LEMMA OwnedUpsert ==
  ASSUME TypeOK, BatchManned, Owned, Counted, NEW b \in Batches, UpsertContact(b)
  PROVE  Owned' /\ Counted'
<1> DEFINE c0 == batch[b].co
<1>1. PICK a \in Address :
        /\ contact' = [contact EXCEPT ![a] = c0]
        /\ moved' = IF contact[a] \in {Nobody, c0} THEN moved ELSE moved \cup {a}
        /\ batch' = [batch EXCEPT ![b] = At(b, "lead", a)]
        /\ opps' = opps /\ batch[b].at = "contact"
  <2>1. c0 \in Companies
    BY DEF UpsertContact, BatchManned, Trying
  <2> QED BY <2>1, PipelineAssumption DEF UpsertContact
<1>2. /\ c0 \in Companies /\ Nobody \notin Companies
      /\ contact \in [Address -> Companies \cup {Nobody}]
      /\ At(b, "lead", a).at = "lead" /\ At(b, "lead", a).co = c0 /\ At(b, "lead", a).contact = a
  BY <1>1, PipelineAssumption DEF BatchManned, Trying, TypeOK, At
<1>3. MineNext(a, c0)
  BY <1>1, <1>2 DEF MineNext
<1>4. ASSUME NEW x \in Address, NEW c \in Companies, Mine(x, c) PROVE MineNext(x, c)
  <2>1. CASE x = a
    BY <1>1, <1>2, <1>4, <2>1 DEF Mine, MineNext
  <2>2. CASE x # a
    BY <1>1, <1>2, <1>4, <2>2 DEF Mine, MineNext
  <2> QED BY <2>1, <2>2
<1>5. batch'[b] = At(b, "lead", a) /\ \A d \in Batches : d # b => batch'[d] = batch[d]
  BY <1>1, OneRecord
<1>6. \A d \in Batches : batch'[d].at \in Filing => MineNext(batch'[d].contact, batch'[d].co)
  <2> SUFFICES ASSUME NEW d \in Batches, batch'[d].at \in Filing
               PROVE  MineNext(batch'[d].contact, batch'[d].co)
    OBVIOUS
  <2>1. CASE d = b
    BY <1>2, <1>3, <1>5, <2>1
  <2>2. CASE d # b
    <3>1. /\ batch'[d] = batch[d] /\ Mine(batch[d].contact, batch[d].co)
          /\ batch[d].contact \in Address /\ batch[d].co \in Companies
      BY <1>5, <2>2 DEF Owned, BatchManned, Filing, Trying
    <3> QED BY <1>4, <3>1
  <2> QED BY <2>1, <2>2
<1>7. \A c \in Companies : \A i \in 1 .. Len(opps'[c]) : MineNext(opps'[c][i], c)
  <2>1. \A c \in Companies : \A i \in 1 .. Len(opps[c]) : opps[c][i] \in Address
    BY DEF TypeOK
  <2> QED BY <1>1, <1>4, <2>1 DEF Owned
<1>8. \A c \in Companies : Creating(c)' \subseteq Creating(c)
  BY <1>2, <1>5 DEF Creating
<1>9. \A c \in Companies : Len(opps'[c]) = Len(opps[c])
  BY <1>1
<1>10. Counted'
  BY <1>8, <1>9, CountedKept
<1> QED BY <1>6, <1>7, <1>10, OwnedNext

(* Contacts stay where they are while a batch goes on, with its own.        *)
LEMMA OwnedGoes ==
  ASSUME TypeOK, Owned, UNCHANGED <<contact, moved>>,
         NEW b \in Batches, NEW place, batch[b].at \in Filing, Goes(b, place)
  PROVE  \A d \in Batches : batch'[d].at \in Filing => MineNext(batch'[d].contact, batch'[d].co)
<1>1. \A a, c : MineNext(a, c) <=> Mine(a, c)
  BY DEF Mine, MineNext
<1>2. /\ batch'[b].contact = batch[b].contact /\ batch'[b].co = batch[b].co
      /\ \A d \in Batches : d # b => batch'[d] = batch[d]
  BY OneRecord DEF Goes, At
<1> QED BY <1>1, <1>2 DEF Owned

(* The oldest opportunity takes the contact; without one, there are none    *)
(* and no more than all batches come to make one.                           *)
LEMMA OwnedLook ==
  ASSUME TypeOK, BatchManned, Owned, Counted, NEW b \in Batches, LookForLead(b)
  PROVE  Owned' /\ Counted'
<1> DEFINE c0 == batch[b].co
           a0 == batch[b].contact
<1>1. /\ batch[b].at = "lead" /\ UNCHANGED <<contact, moved>>
      /\ \/ opps[c0] = <<>> /\ Goes(b, "create") /\ opps' = opps
         \/ /\ opps[c0] # <<>> /\ Goes(b, "write")
            /\ opps' = [opps EXCEPT ![c0] = <<a0>> \o Tail(@)]
  BY DEF LookForLead
<1>2. /\ c0 \in Companies /\ a0 \in Address /\ Mine(a0, c0)
      /\ opps \in [Companies -> Seq(Address)]
  BY <1>1 DEF BatchManned, Trying, Filing, Owned, TypeOK
<1>3. \A a, c : MineNext(a, c) <=> Mine(a, c)
  BY <1>1 DEF Mine, MineNext
<1>4. \A d \in Batches : batch'[d].at \in Filing => MineNext(batch'[d].contact, batch'[d].co)
  BY <1>1, OwnedGoes DEF Filing
<1>5. \A c \in Companies : \A i \in 1 .. Len(opps'[c]) : MineNext(opps'[c][i], c)
  <2>1. CASE opps' = opps
    BY <1>3, <2>1 DEF Owned
  <2>2. CASE opps[c0] # <<>> /\ opps' = [opps EXCEPT ![c0] = <<a0>> \o Tail(@)]
    <3> SUFFICES ASSUME NEW c \in Companies, NEW i \in 1 .. Len(opps'[c])
                 PROVE  Mine(opps'[c][i], c)
      BY <1>3
    <3>1. CASE c # c0
      <4>1. opps'[c] = opps[c]
        BY <1>2, <2>2, <3>1
      <4> QED BY <4>1 DEF Owned
    <3>2. CASE c = c0
      <4>1. opps[c] \in Seq(Address) /\ opps[c] # <<>> /\ opps'[c] = <<a0>> \o Tail(opps[c])
        BY <1>2, <2>2, <3>2
      <4>2. Len(opps'[c]) = Len(opps[c])
        BY <1>2, <2>2, <3>2, LeadWritten
      <4>3. opps'[c][i] = IF i = 1 THEN a0 ELSE opps[c][i]
        BY <4>1, <4>2
      <4> QED BY <1>2, <3>2, <4>2, <4>3 DEF Owned
    <3> QED BY <3>1, <3>2
  <2> QED BY <1>1, <2>1, <2>2
<1>6. Counted'
  <2>1. CASE opps[c0] = <<>> /\ Goes(b, "create") /\ opps' = opps
    <3> SUFFICES ASSUME NEW c \in Companies
                 PROVE  Len(opps'[c]) + Cardinality(Creating(c)') <= Cardinality(Batches)
      BY DEF Counted
    <3>1. CASE c = c0
      <4>1. Len(opps'[c]) = 0
        BY <2>1, <3>1
      <4> QED BY <4>1, Counts
    <3>2. CASE c # c0
      <4>1. Creating(c)' \subseteq Creating(c)
        BY <2>1, <3>2, OneRecord DEF Goes, At, Creating
      <4>2. Cardinality(Creating(c)') <= Cardinality(Creating(c))
        BY <4>1, Counts, Smaller
      <4> QED BY <2>1, <4>2, Counts DEF Counted
    <3> QED BY <3>1, <3>2
  <2>2. CASE opps[c0] # <<>> /\ Goes(b, "write") /\ opps' = [opps EXCEPT ![c0] = <<a0>> \o Tail(@)]
    <3>1. \A c \in Companies : Creating(c)' \subseteq Creating(c)
      BY <2>2, OneRecord DEF Goes, At, Creating
    <3>2. \A c \in Companies : Len(opps'[c]) = Len(opps[c])
      BY <1>2, <2>2, LeadWritten
    <3> QED BY <3>1, <3>2, CountedKept
  <2> QED BY <1>1, <2>1, <2>2
<1> QED BY <1>4, <1>5, <1>6, OwnedNext

(* An opportunity more is a batch less that is about to make one.           *)
LEMMA OwnedCreate ==
  ASSUME TypeOK, BatchManned, Owned, Counted, NEW b \in Batches, CreateLead(b)
  PROVE  Owned' /\ Counted'
<1> DEFINE c0 == batch[b].co
           a0 == batch[b].contact
<1>1. /\ batch[b].at = "create" /\ UNCHANGED <<contact, moved>> /\ Goes(b, "write")
      /\ opps' = [opps EXCEPT ![c0] = Append(@, a0)]
  BY DEF CreateLead
<1>2. /\ c0 \in Companies /\ a0 \in Address /\ Mine(a0, c0)
      /\ opps \in [Companies -> Seq(Address)]
  BY <1>1 DEF BatchManned, Trying, Filing, Owned, TypeOK
<1>3. \A a, c : MineNext(a, c) <=> Mine(a, c)
  BY <1>1 DEF Mine, MineNext
<1>4. \A d \in Batches : batch'[d].at \in Filing => MineNext(batch'[d].contact, batch'[d].co)
  BY <1>1, OwnedGoes DEF Filing
<1>5. ASSUME NEW c \in Companies, c # c0
      PROVE  opps'[c] = opps[c] /\ Creating(c)' \subseteq Creating(c)
  BY <1>1, <1>2, <1>5, OneRecord DEF Goes, At, Creating
<1>6. opps[c0] \in Seq(Address) /\ opps'[c0] = Append(opps[c0], a0)
  BY <1>1, <1>2
<1>7. \A c \in Companies : \A i \in 1 .. Len(opps'[c]) : MineNext(opps'[c][i], c)
  <2> SUFFICES ASSUME NEW c \in Companies, NEW i \in 1 .. Len(opps'[c])
               PROVE  Mine(opps'[c][i], c)
    BY <1>3
  <2>1. CASE c # c0
    BY <1>5, <2>1 DEF Owned
  <2>2. CASE c = c0
    <3>1. Len(opps'[c]) = Len(opps[c]) + 1 /\ Len(opps[c]) \in Nat
      BY <1>6, <2>2
    <3>2. opps'[c][i] = IF i = Len(opps[c]) + 1 THEN a0 ELSE opps[c][i]
      BY <1>6, <2>2, <3>1
    <3> QED BY <1>2, <2>2, <3>1, <3>2 DEF Owned
  <2> QED BY <2>1, <2>2
<1>8. Counted'
  <2> SUFFICES ASSUME NEW c \in Companies
               PROVE  Len(opps'[c]) + Cardinality(Creating(c)') <= Cardinality(Batches)
    BY DEF Counted
  <2>1. CASE c # c0
    <3>1. Cardinality(Creating(c)') <= Cardinality(Creating(c))
      BY <1>5, <2>1, Counts, Smaller
    <3> QED BY <1>5, <2>1, <3>1, Counts DEF Counted
  <2>2. CASE c = c0
    <3>1. b \in Creating(c) /\ Creating(c)' \subseteq Creating(c) \ {b}
      <4>1. batch'[b].at = "write" /\ \A d \in Batches : d # b => batch'[d] = batch[d]
        <5>1. batch' = [batch EXCEPT ![b] = At(b, "write", a0)]
          BY <1>1 DEF Goes
        <5>2. At(b, "write", a0).at = "write"
          BY DEF At
        <5> QED BY <5>1, <5>2, OneRecord
      <4> QED BY <1>1, <2>2, <4>1 DEF Creating
    <3>2. Cardinality(Creating(c)') <= Cardinality(Creating(c)) - 1
      BY <3>1, Counts, FewerByOne
    <3>3. Len(opps'[c]) = Len(opps[c]) + 1
      BY <1>6, <2>2
    <3> QED BY <3>2, <3>3, Counts DEF Counted
  <2> QED BY <2>1, <2>2
<1> QED BY <1>4, <1>7, <1>8, OwnedNext

\* No other step of a batch writes contacts or opportunities.
LEMMA LeadsElsewhere ==
  ASSUME TypeOK, BatchManned, Owned, Counted, NEW b \in Batches,
         \/ ListBatch(b) \/ DomainSearch(b) \/ VerifyPerson(b) \/ VerifyGeneric(b)
         \/ NoContact(b) \/ Enriched(b) \/ EnrichFails(b) \/ BatchDies(b)
         \/ \E c \in Companies : ChooseBatch(b, c) \/ Begin(b, c)
  PROVE  Owned' /\ Counted'
<1>1. UNCHANGED <<contact, moved, opps>>
  BY DEF ListBatch, DomainSearch, VerifyPerson, VerifyGeneric, NoContact, Enriched,
         EnrichFails, BatchDies, ChooseBatch, Begin
<1>2. \E new : batch' = [batch EXCEPT ![b] = new] /\ new.at \notin Filing
  <2>1. \A S : Listed(S).at \notin Filing
    BY DEF Listed, Filing
  <2>2. NoBatch.at \notin Filing /\ TurnBatch(b).at \notin Filing
    BY TurnBatchType DEF NoBatch, Filing
  <2>3. \A place \in {"person", "generic", "contact"} :
          At(b, place, batch[b].contact).at \notin Filing
    BY DEF At, Filing
  <2>4. CASE ListBatch(b) \/ \E c \in Companies : ChooseBatch(b, c)
    BY <2>1, <2>4 DEF ListBatch, ChooseBatch
  <2>5. CASE DomainSearch(b) \/ VerifyPerson(b) \/ VerifyGeneric(b)
    BY <2>3, <2>5 DEF DomainSearch, VerifyPerson, VerifyGeneric, Goes
  <2>6. CASE NoContact(b) \/ Enriched(b) \/ EnrichFails(b) \/ BatchDies(b)
    BY <2>2, <2>6 DEF NoContact, Enriched, EnrichFails, BatchDies, Turns
  <2>7. ASSUME NEW c \in Companies, Begin(b, c)
        PROVE  \E new : batch' = [batch EXCEPT ![b] = new] /\ new.at \notin Filing
    <3> DEFINE first == [at |-> "search", co |-> c, left |-> batch[b].left \ {c},
                         attempts |-> attempts[c], mail |-> c \in mail, contact |-> Nobody]
    <3>1. first.at \notin Filing
      BY DEF Filing
    <3>2. \/ batch' = [batch EXCEPT ![b] = first]
          \/ batch' = [batch EXCEPT ![b] = NoBatch]
          \/ batch' = [batch EXCEPT ![b] = Listed(batch[b].left \ {c})]
      BY <2>7 DEF Begin
    <3> HIDE DEF first
    <3> QED BY <2>1, <2>2, <3>1, <3>2
  <2> QED BY <2>4, <2>5, <2>6, <2>7
<1>3. \A d \in Batches : batch'[d] = batch[d] \/ batch'[d].at \notin Filing
  BY <1>2, OneRecord
<1> QED BY <1>1, <1>3, LeadsLeft

(* Every step keeps the contacts of the opportunities and their number.     *)
LEMMA StepOwned == IInv /\ Owned /\ Counted /\ [Next]_vars => Owned' /\ Counted'
<1> SUFFICES ASSUME IInv, Owned, Counted, [Next]_vars PROVE Owned' /\ Counted'
  OBVIOUS
<1>0. TypeOK /\ BatchManned /\ CrawlerManned /\ PagesSafe
  BY DEF IInv, Manned, BatchManned, CrawlerManned
<1>1. CASE UNCHANGED leads
  BY <1>0, <1>1, LeadsLeft DEF leads
<1>2. CASE UNCHANGED vars
  BY <1>1, <1>2 DEF vars
<1>3. CASE Searching
  BY <1>0, <1>1, <1>3, SearchingStep DEF Searched
<1>4. CASE Crawling
  BY <1>0, <1>1, <1>4, CrawlingStep DEF Crawled
<1>5. CASE Enriching
  BY <1>0, <1>5, OwnedUpsert, OwnedLook, OwnedCreate, LeadsElsewhere DEF Enriching
<1>6. CASE \E c \in Companies : Skip(c) \/ Unskip(c)
  <2>1. UNCHANGED <<contact, moved, opps, batch>>
    BY <1>6 DEF Skip, Unskip
  <2> QED BY <1>0, <2>1, LeadsLeft
<1> QED BY <1>2, <1>3, <1>4, <1>5, <1>6 DEF Next

(* The leads of earlier days are right, one for each company.               *)
LEMMA InitOwned == Init => Owned /\ Counted
<1> SUFFICES ASSUME Init PROVE Owned /\ Counted
  OBVIOUS
<1>1. /\ \A b \in Batches : batch[b].at = "idle"
      /\ \A c \in Companies : Creating(c) = {}
  BY DEF Init, NoBatch, Creating
<1>2. \A c \in Companies :
        \/ opps[c] = <<>>
        \/ opps[c] = <<CHOOSE a \in Address : Owner[a] = c>> /\ \E a \in Address : Owner[a] = c
  BY DEF Init, Known
<1>3. \A c \in Companies : /\ \A i \in 1 .. Len(opps[c]) : contact[opps[c][i]] = c
                           /\ Len(opps[c]) <= 1 /\ Len(opps[c]) \in Nat
  BY <1>2 DEF Init
<1>4. Owned
  BY <1>1, <1>3 DEF Owned, Mine, Filing
<1>5. Cardinality(Batches) \in Nat /\ Cardinality(Batches) >= 1
  <2>1. Cardinality(Batches) # 0
    BY PipelineAssumption, FS_EmptySet
  <2> QED BY <2>1, Sizes
<1>6. Counted
  <2>1. \A c \in Companies : Cardinality(Creating(c)) = 0
    BY <1>1, FS_EmptySet
  <2> QED BY <1>3, <1>5, <2>1 DEF Counted
<1> QED BY <1>4, <1>6

(* A company is ENRICHED only after its opportunity was written; and the    *)
(* contact of an opportunity was the company's own when it was written, so  *)
(* that it is still, unless the company it was found for next has it.       *)
THEOREM EnrichedHasLeadAlways == Spec => []EnrichedHasLead
<1>1. ASSUME FilesInv, Owned, NEW c \in Companies, status[c] = "ENRICHED"
      PROVE  /\ opps[c] # <<>>
             /\ \A i \in 1 .. Len(opps[c]) : contact[opps[c][i]] = c \/ opps[c][i] \in moved
  <2>1. Len(opps[c]) > 0
    BY <1>1 DEF FilesInv, Written
  <2> QED BY <1>1, <2>1 DEF Owned, Mine
<1>2. FilesInv /\ Owned => EnrichedHasLead
  BY <1>1 DEF EnrichedHasLead
<1> QED BY <1>2, FilesAlways, InitIInv, StepIInv, InitOwned, StepOwned, PTL DEF Spec

(* A company has one open opportunity as long as one batch at a time has it *)
(* and the user leaves it; else no more than there are batches: who creates *)
(* one has seen none, and the look and the write are two steps.             *)
THEOREM LeadsBoundedAlways == Spec => []LeadsBounded
<1>1. ASSUME IInv, FilesInv, Counted, NEW c \in Companies
      PROVE  Len(opps[c]) <= IF c \in disturbed THEN Cardinality(Batches) ELSE 1
  <2>1. CASE c \in disturbed
    BY <1>1, <2>1, Counts DEF IInv, Counted
  <2>2. CASE c \notin disturbed
    BY <1>1, <2>2 DEF FilesInv, Filed
  <2> QED BY <2>1, <2>2
<1>2. IInv /\ FilesInv /\ Counted => LeadsBounded
  BY <1>1 DEF LeadsBounded
<1> QED BY <1>2, FilesAlways, InitIInv, StepIInv, InitOwned, StepOwned, PTL DEF Spec

(* A search is added only for a company that is not finished, unless two    *)
(* batches had it or the user intervened: what was read when the batch was  *)
(* listed still holds when its turn comes.                                  *)
THEOREM RebilledHasCause == Spec => RebilledNeedsCause
<1> DEFINE Caused == \A c \in Companies :
                       billed'[c] > billed[c] /\ status[c] \in Finished => c \in disturbed
<1>1. ASSUME IInv, FilesInv, [Next]_vars PROVE [Caused]_vars
  <2> SUFFICES ASSUME NEW c \in Companies, billed'[c] > billed[c], c \notin disturbed
               PROVE  status[c] \notin Finished
    OBVIOUS
  <2>0. /\ TypeOK /\ BatchManned /\ CrawlerManned /\ PagesSafe
        /\ billed \in [Companies -> Nat] /\ ~(billed'[c] = billed[c])
        /\ ~(billed'[c] = 0)
    <3>1. TypeOK /\ BatchManned /\ CrawlerManned /\ PagesSafe
      BY <1>1 DEF IInv, Manned, BatchManned, CrawlerManned
    <3>2. billed \in [Companies -> Nat] /\ billed[c] \in Nat
      BY <3>1 DEF TypeOK
    <3> QED BY <3>1, <3>2
  <2>1. ~UNCHANGED leads
    BY <2>0 DEF leads
  <2>2. ~Searching /\ ~Crawling /\ ~UNCHANGED vars
    BY <2>0, <2>1, SearchingStep, CrawlingStep DEF Searched, Crawled, vars
  <2>3. ASSUME NEW d \in Companies PROVE ~Skip(d) /\ ~Unskip(d)
    BY <2>0 DEF Skip, Unskip
  <2>4. PICK b \in Batches :
          /\ batch[b].at = "search"
          /\ billed' = [billed EXCEPT ![batch[b].co] = @ + 1]
    BY <1>1, <2>0, <2>2, <2>3
    DEF Next, Enriching, ListBatch, ChooseBatch, Begin, DomainSearch, VerifyPerson,
        VerifyGeneric, NoContact, UpsertContact, LookForLead, CreateLead, Enriched,
        EnrichFails, BatchDies
  <2>5. c = batch[b].co
    BY <2>0, <2>4
  <2> QED BY <1>1, <2>0, <2>4, <2>5, AtHand, Places
<1>2. IInv /\ FilesInv /\ [Next]_vars => [Caused]_vars
  BY <1>1
<1> QED BY <1>2, FilesAlways, PTL DEF Spec, RebilledNeedsCause
====
